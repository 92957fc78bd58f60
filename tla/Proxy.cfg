SPECIFICATION ProxyFairSpec
CONSTANTS
  twice = twice
  half = half
  command = command
  none = none
  config = config
  id = id
  garbage = garbage
  proxied = proxied
  strange = strange
  a1 = a1
  a2 = a2
  b1 = b1
  b2 = b2
  m1 = m1
  f1 = f1
  Calls = {a1, a2, b1, b2, m1, f1}
  Requests = {twice, half, command, none, config, id, garbage, proxied, strange}
  MaxAsked = 2
  Kind <- MCKind
  Items <- MCItems
  Encodable = {a1, a2, b1, m1}
  NoRequest = NoRequest
  NoCall = NoCall
  NoReply = NoReply
  Slow = TRUE
INVARIANTS
  OneOutstanding
  AnswersMatch
  AckIsTrue
  SecondWindowOnlyUnanswered
PROPERTIES
  ServiceSpec
  CallsReturn
  RequestsAreAnswered
CHECK_DEADLOCK FALSE
