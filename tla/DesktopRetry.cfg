\* Two downloads that fail, one after the other.
CONSTANTS
  NoIntent = NoIntent
  MaxGen = 2
  MaxFaults = 0
SPECIFICATION Spec
INVARIANT RetriesNeedNoOperator
CHECK_DEADLOCK FALSE
