SPECIFICATION Spec
CONSTANTS
  Calls = {c1, c2, c3}
  NoCall = NoCall
  Forwards = {}
SYMMETRY CallSymmetry
INVARIANT RingingCanBeAnswered
CHECK_DEADLOCK FALSE
