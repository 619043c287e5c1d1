\* One tunnel of the LAC, asked for twice, two calls in it, and all that may go wrong.
CONSTANTS
  Tunnels <- MCTunnels
  Calls <- MCCalls
  LacTunnels = 1
  LnsTunnels = 2
  LacCalls = 2
  LnsCallCount = 2
  Pool = {1}
  LocalPool = {3}
  Confs <- MCConfs
  Flaws = {"unknown", "no id", "size", "no framing", "no name"}
  MaxMishaps = 1
  Upsets = {"SCCRQ comes again", "pppd exits", "early hangup", "disconnect", "pppd fails", "early call",
            "ZLB counted in", "unasked SCCCN"}
SPECIFICATION Spec
INVARIANT TypeOK Authentic EndsAgree NoCallWaits AddressesConserved
CHECK_DEADLOCK FALSE
