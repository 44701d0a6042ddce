\* Approvals last two ticks of three, and the map holds two of three commands.
SPECIFICATION Spec
CONSTANTS
  stop = stop
  wipe = wipe
  halt = halt
  danger = danger
  ex = ex
  ba = ba
  mu = mu
  Cmds <- MCCmds
  Patterns = {danger}
  GuardSets <- MCGuardSets
  Calls = {ex, ba, mu}
  Execs = {ex}
  MultiRound = {mu}
  CmdsOf <- MCCmdsOf
  Ttl = 2
  MaxRemembered = 2
  MaxClock = 2
INVARIANTS
  BlockWins
PROPERTIES
  ClearedByApproval
  NoSecondPrompt
\* An expired approval stops the server.
CHECK_DEADLOCK FALSE
