\* Three slots, two clients, everything that may go wrong.
CONSTANTS
  Slot = {s1, s2, s3}
  Mac = {mA, mB}
  Pid = {p1, p2, p3, p4}
  NoMac = NoMac
  NoPid = NoPid
  NoSlot = NoSlot
  MaxSessionsPerMac = 2
  IgnorePADIIfNoFreeSessions = FALSE
  Upsets = {"fork fails", "child fails", "stale PADT", "SIGTERM"}
SYMMETRY ServerSymmetry
SPECIFICATION Spec
INVARIANT SlotsConserved ChildPerSession StoppedByItsClient
PROPERTY ImplementsPool NoSilentEnd EndsWithItsChildren
CHECK_DEADLOCK FALSE
