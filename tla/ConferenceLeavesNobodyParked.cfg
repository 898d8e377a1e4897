SPECIFICATION Spec
CONSTANTS
  Calls = {c1, c2, c3}
  NoCall = NoCall
  Forwards = {}
SYMMETRY CallSymmetry
PROPERTY ConferenceLeavesNobodyParked
CHECK_DEADLOCK FALSE
