\* One channel per connection, two connections per host: two execs and a
\* transfer on one host, a bastion from the second configuration on.
SPECIFICATION FairSpec
CONSTANTS
  bastion = bastion
  inner = inner
  e1 = e1
  e2 = e2
  f1 = f1
  o1 = o1
  Hosts = {bastion, inner}
  Calls = {e1, e2, f1}
  ExecCalls = {e1, e2}
  HostOf <- MCHostOf
  Configs <- MCConfigs
  Direct = Direct
  NoCall = NoCall
  MaxChannels = 1
  MaxConnections = 2
  MaxSessions = 3
  MaxEvents = 2
INVARIANTS
  NoSecondConnection
  LaneCap
  UsedConnectionsSurvive
  StaleOnlyIfOvertaken

  
\* Every call has returned.
CHECK_DEADLOCK FALSE
