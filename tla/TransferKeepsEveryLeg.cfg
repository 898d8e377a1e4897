SPECIFICATION Spec
CONSTANTS
  Calls = {c1, c2, c3}
  NoCall = NoCall
  Forwards = {}
SYMMETRY CallSymmetry
PROPERTY TransferKeepsEveryLeg
CHECK_DEADLOCK FALSE
