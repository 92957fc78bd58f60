SPECIFICATION FairSpec
CONSTANTS
  b = b
  x = x
  r1 = r1
  r2 = r2
  r3 = r3
  home = home
  other = other
  u1 = u1
  u2 = u2
  u3 = u3
  c1 = c1
  c2 = c2
  h1 = h1
  e1 = e1
  Clear = Clear
  NoContext = NoContext
  Idle = Idle
  Gateways = {b, r1, r2}
  Borders = {b}
  Keys = {home}
  Key <- OneNetwork
  Neighbours <- Clique
  Uplinks = {}
  Wrappable <- AllWrapped
  Unwrappable <- AllUnwrapped
  HeardBy <- NoUplinks
  Commands = {c1, c2}
  EventSets = {}
  Heartbeats = {}
  ReportedBy <- NoReports
  Lossy = FALSE
  MaxHopCount = 3
  CacheSize = 1
  MaxUplinkId = 3
  NumFrequencies = 1
  MaxTime = 2
  MaxRestarts <- NoRestarts
INVARIANTS
  CommandsInOrder
PROPERTIES
  ServiceSpec
  CommandArrives
CHECK_DEADLOCK FALSE
