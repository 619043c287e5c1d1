\* Two clients, one server that has more numbers than the relay slots.
CONSTANTS
  c1 = c1
  c2 = c2
  a1 = a1
  Client <- MCClient
  Server <- MCServer
  At <- MCAt
  Num = {n1, n2, n3}
  ClientOK = {"eth1"}
  AcOK = {"eth0"}
  MaxSessions = 2
  IdleTimeout = 1
  CleanPeriod = 1
  NoMac = NoMac
  NoEnd = NoEnd
  Upsets = {"client frame lost"}
SYMMETRY RelaySymmetry
SPECIFICATION Spec
INVARIANT TablesConserved KeysUnique RelaysToOwner RelaysToServer ServersAreServed
PROPERTY ImplementsRelayed
