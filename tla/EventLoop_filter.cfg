SPECIFICATION Spec
CONSTANTS
  Events <- MCEvents
  MaxEvents = 2
INVARIANTS
  FilteredIsDiscarded
CHECK_DEADLOCK FALSE
