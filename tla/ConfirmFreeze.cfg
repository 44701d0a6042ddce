\* One command, approved once, and repeated after its approval has expired.
SPECIFICATION FairSpec
CONSTANTS
  stop = stop
  wipe = wipe
  halt = halt
  danger = danger
  ex = ex
  ba = ba
  mu = mu
  Cmds <- MCCmds
  Patterns = {danger}
  GuardSets <- MCPlainSets
  Calls = {ex}
  Execs = {ex}
  MultiRound = {}
  CmdsOf <- MCCmdsOf
  Ttl = 1
  MaxRemembered = 2
  MaxClock = 1
PROPERTIES
  PromptsAgain
CHECK_DEADLOCK FALSE
