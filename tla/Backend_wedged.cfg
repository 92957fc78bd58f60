SPECIFICATION Spec
CONSTANTS
  Calls = {c1, c2}
  NoCall = NoCall
  NoReply = NoReply
  Slow = TRUE
INVARIANT UsableAfterTimeout
CHECK_DEADLOCK FALSE
