\* As discovery.cfg, for the waits whose deadline has passed.
CONSTANTS
  a1 = a1
  a2 = a2
  Ac <- MCAc
  NoAc = NoAc
  Cookied = {a1, a2}
  Relayed = {a2}
  Modes <- MCModes
  MaxAttempts = 2
  Timeout = 1
  PerSec = 2
  MaxLag = 1
  MaxSession = 2
  MaxConnects = 2
SPECIFICATION Spec
INVARIANT NeverInvalid
CHECK_DEADLOCK FALSE
