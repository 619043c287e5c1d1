\* Two clients, one of which may stop reading, and descriptors for both.
CONSTANTS
  c1 = c1
  c2 = c2
  Client = {c1, c2}
  NoClient = NoClient
  Fd = {1, 2}
  MaxLen = 2
  MaxReply = 2
  SendBuf = 1
  Patient = {c1}
  MaxSent = 3
  Upsets = {"clients leave", "no memory"}
SPECIFICATION FairSpec
INVARIANT OneOperation CalledWhenReady
PROPERTY Served
CHECK_DEADLOCK FALSE
