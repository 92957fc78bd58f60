SPECIFICATION Spec
CONSTANTS
  b = b
  x = x
  r1 = r1
  r2 = r2
  r3 = r3
  home = home
  other = other
  u1 = u1
  u2 = u2
  u3 = u3
  c1 = c1
  c2 = c2
  h1 = h1
  e1 = e1
  Clear = Clear
  NoContext = NoContext
  Idle = Idle
  Gateways = {b, r1, r2}
  Borders = {b}
  Keys = {home}
  Key <- OneNetwork
  Neighbours <- Triangle
  Uplinks = {u1, u2}
  Wrappable <- AllWrapped
  Unwrappable <- NotU1
  HeardBy <- OneEach
  Commands = {}
  EventSets = {}
  Heartbeats = {}
  ReportedBy <- NoReports
  Lossy = TRUE
  MaxHopCount = 2
  CacheSize = 4
  MaxUplinkId = 3
  NumFrequencies = 2
  MaxTime = 1
  MaxRestarts <- NoRestarts
INVARIANTS
  TypeOK
  HandledOnce
PROPERTIES
  ServiceSpec
  RefusedUplinkWasHandled
CHECK_DEADLOCK FALSE
