SPECIFICATION Spec
CONSTANTS
  Calls = {c1, c2}
  NoCall = NoCall
  Forwards = {"good"}
SYMMETRY CallSymmetry
VIEW Lasting
PROPERTY CoreSpec
CHECK_DEADLOCK FALSE
