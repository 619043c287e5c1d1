\* A tunnel without calls; SeqMod is larger than every counter gets.
CONSTANTS
  lac = lac
  lns = lns
  End <- MCEnd
  SeqMod = 16
  HalfSeq = 8
  MaxRetries = 2
  MaxSend = 2
  MaxQueue = 3
  WithCall = FALSE
  PppdAt = {}
  Upsets = {"disconnect", "SIGTERM", "crash"}
SYMMETRY EndSymmetry
SPECIFICATION Spec
INVARIANT AckedWasTaken KeptUntilTaken OldIsRecognised
PROPERTY ImplementsChannel
CHECK_DEADLOCK FALSE
