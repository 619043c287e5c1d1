\* Servers restart, any PADT may be lost: idle sessions are cleaned.
CONSTANTS
  c1 = c1
  c2 = c2
  a1 = a1
  Client <- MCClient
  Server <- MCServer
  At <- MCAt
  Num = {n1, n2}
  ClientOK = {"eth1"}
  AcOK = {"eth0"}
  MaxSessions = 1
  IdleTimeout = 1
  CleanPeriod = 2
  NoMac = NoMac
  NoEnd = NoEnd
  Upsets = {"client frame lost", "relay frame lost", "server restarts"}
SPECIFICATION FairSpec
PROPERTY IdleGoes
