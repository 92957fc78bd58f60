SPECIFICATION StartFairSpec
CONSTANTS
  Events <- MCEvents
  MaxEvents = 2
INVARIANTS
  NeverBoth
  OnlyIntact
  OnlyEarlyFails
PROPERTIES
  QueuedIsHandled
CHECK_DEADLOCK FALSE
