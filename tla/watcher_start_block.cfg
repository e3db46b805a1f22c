CONSTANTS
  Event = {e1}
  NoEvent = NoEvent
  NoCheckpoint = NoCheckpoint
  StartBlock = 2
  BatchSize = 1
  Confirmations = {1, 2}
  MaxReorg = 1
  MaxHeight = 5
  MaxCrashes = 1
SPECIFICATION WatcherSpec
INVARIANT StartBlockWatched
