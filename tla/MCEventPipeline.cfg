SPECIFICATION PipelineSpec
CONSTANTS
  good = good
  bad = bad
  NoEvent = NoEvent
  Events <- MCEvents
  Kind <- MCKind
  BatchSize = 1
  MaxRetryAttempts = 2
  MaxQueue = 1
INVARIANTS
  NoSilentLoss
  AppliedTwiceNeedsARepeat
PROPERTIES
  Delivers
  QueuedIsSettled
CHECK_DEADLOCK FALSE
