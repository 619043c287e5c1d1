\* Liveness of the closing handshake of a tunnel with a call; one end has its pppd.
CONSTANTS
  lac = lac
  lns = lns
  End <- MCEnd
  SeqMod = 16
  HalfSeq = 8
  MaxRetries = 3
  MaxSend = 0
  MaxQueue = 3
  WithCall = TRUE
  PppdAt = {lac}
  Upsets = {"pppd exits", "pty fails", "disconnect", "SIGTERM", "crash"}
SPECIFICATION FairSpec
PROPERTY ClosingEnds
CHECK_DEADLOCK FALSE
