SPECIFICATION CoreSpec
CONSTANTS
  Calls = {c1, c2, c3, c4}
  NoCall = NoCall
  Forwards = {"good", "bad"}
SYMMETRY CallSymmetry
VIEW Now
INVARIANTS CoreTypeOK LegsDistinct LegsAlive LineShape PartyIsForeground DownMeansNoLegs
PROPERTY NobodyForgotten
CHECK_DEADLOCK FALSE
