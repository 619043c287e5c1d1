\* Sessions end, and so does the server, with no SIGTERM and no PADT delayed.
CONSTANTS
  Slot = {s1, s2}
  Mac = {mA, mB}
  Pid = {p1, p2, p3}
  NoMac = NoMac
  NoPid = NoPid
  NoSlot = NoSlot
  MaxSessionsPerMac = 0
  IgnorePADIIfNoFreeSessions = TRUE
  Upsets = {"fork fails"}
SPECIFICATION FairSpec
PROPERTY StoppedEnds ExitIsHandled
CHECK_DEADLOCK FALSE
