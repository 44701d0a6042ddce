\* Three slots, two of which the warm-up may take: an exec, a shell, a rename
\* and a forwarded connection compete for them.
SPECIFICATION FairSpec
CONSTANTS
  ExecCalls = {e1}
  ShellCalls = {s1}
  RenameCalls = {r1}
  SlotCalls = {f1}
  MaxChannels = 3
INVARIANTS
  TypeOK
  SlotsConserved
  NoIdleSlot
  NoMissedPark
  RefillAwake
PROPERTIES
  ImplementsBudget
  CallsAnswered
  PoolRecovers
\* A connection whose last reference is gone may stop.
CHECK_DEADLOCK FALSE
