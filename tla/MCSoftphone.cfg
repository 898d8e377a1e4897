SPECIFICATION Spec
CONSTANTS
  Calls = {c1, c2, c3}
  NoCall = NoCall
  Forwards = {}
SYMMETRY CallSymmetry
VIEW Lasting
INVARIANTS UiTypeOK IdleHidesNoCall ScreenShowsLine
PROPERTIES DropHitsNamedParty EndedCallIsRecorded NamesStayRight
CHECK_DEADLOCK FALSE
