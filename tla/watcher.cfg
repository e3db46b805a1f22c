CONSTANTS
  Event = {e1, e2}
  NoEvent = NoEvent
  NoCheckpoint = NoCheckpoint
  StartBlock = 1
  BatchSize = 1
  Confirmations = {1, 2}
  MaxReorg = 1
  MaxHeight = 5
  MaxCrashes = 1
SPECIFICATION FairWatcherSpec
INVARIANTS NothingSkipped OnlyFinalEvents
PROPERTIES CheckpointNeverRewinds FinalEventsQueued
