SPECIFICATION Spec
CONSTANTS
  h1 = h1
  h2 = h2
  h3 = h3
  h4 = h4
  web = web
  www = www
  db = db
  old = old
  e1 = e1
  e2 = e2
  k1 = k1
  k2 = k2
  Handshakes = {h1, h2, h3, h4}
  Aliases = {web, www, db, old}
  Endpoints = {e1, e2}
  Keys = {k1, k2}
  AliasOf <- MCAliasOf
  EndpointOf <- MCEndpointOf
  ConfigKeys <- MCConfigKeys
  Legacy <- MCLegacy
  ModesFor <- MCModesFor
INVARIANTS
  OneKeyPerEndpoint
  FileKeepsPins
\* A process that finds a torn file refuses to start.
CHECK_DEADLOCK FALSE
