\* A tunnel with one call, closed from either end.
CONSTANTS
  lac = lac
  lns = lns
  End <- MCEnd
  SeqMod = 16
  HalfSeq = 8
  MaxRetries = 2
  MaxSend = 0
  MaxQueue = 3
  WithCall = TRUE
  PppdAt <- MCEnd
  Upsets = {"pppd exits", "pty fails"}
SYMMETRY EndSymmetry
SPECIFICATION Spec
INVARIANT TakenInOrder DriftAtMostOne CountedOutWhileCallsLive
CHECK_DEADLOCK FALSE
