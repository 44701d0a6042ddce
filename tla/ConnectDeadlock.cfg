\* A call on each end of a ProxyJump chain that a reload turns round.
SPECIFICATION FairSpec
CONSTANTS
  bastion = bastion
  inner = inner
  e1 = e1
  e2 = e2
  f1 = f1
  o1 = o1
  Hosts = {bastion, inner}
  Calls = {f1, o1}
  ExecCalls = {}
  HostOf <- MCHostOf
  Configs <- MCTurned
  Direct = Direct
  NoCall = NoCall
  MaxChannels = 1
  MaxConnections = 1
  MaxSessions = 2
  MaxEvents = 1
PROPERTIES
  CallsEnd
\* Every call has returned.
CHECK_DEADLOCK FALSE
