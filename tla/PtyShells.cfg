SPECIFICATION Spec
CONSTANTS
  s1 = s1
  s2 = s2
  s3 = s3
  default = default
  work = work
  logs = logs
  Calls = {s1, s2, s3}
  Names = {default, work, logs}
  Default = default
  NameOf <- MCNameOf
  Output <- MCOutput
  Endless = {s1}
  MaxShells = 2
  MaxNamedPtys = 1
  MaxCapture = 3
INVARIANTS
  OutputIsWhole
  BrokenShellLeaves
  OpensOnce
