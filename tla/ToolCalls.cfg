\* One call of any tool beside a `forward`, one reload, and a link that moves.
SPECIFICATION Spec
CONSTANTS
  c1 = c1
  c2 = c2
  web = web
  db = db
  plain = plain
  secret = secret
  link = link
  show = show
  stop = stop
  doc = doc
  key = key
  own = own
  p1 = p1
  Calls = {c1, c2}
  Hosts = {web, db}
  Ports = {p1}
  Paths = {plain, secret, link}
  SensitivePaths = {secret}
  Targets <- MCTargets
  Commands = {show, stop}
  Writeful = {stop}
  Locals = {doc, key, own}
  SensitiveLocals = {key}
  Owned = {own}
  GuardSets <- MCGuardSets
  ToolsOf <- MCToolsOf
  InputsOf <- MCInputsOf
INVARIANTS
  PathsCleared
  ReadOnlyUnchanged
  OwnFilesClosed
  RecordedOnce
  ListenersReachable
\* Every call has returned.
CHECK_DEADLOCK FALSE
