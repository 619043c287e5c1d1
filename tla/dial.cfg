\* Two LACs that redial, one of them dialled at the start, and all commands.
CONSTANTS
  l1 = l1
  l2 = l2
  Lac = {l1, l2}
  NoLac = NoLac
  Redial = {l1, l2}
  Autodial = {l1}
  Rtimeout <- MCRtimeout
  Rmax <- MCRmax
  Limit = 0
  MaxCalls = 2
  MaxTries = 2
  MaxEvents = 2
  Commands = {"connect", "call", "disconnect", "add", "remove"}
SPECIFICATION Spec
INVARIANT NeverStranded PointersLive
PROPERTY StaysDisconnected
CHECK_DEADLOCK FALSE
