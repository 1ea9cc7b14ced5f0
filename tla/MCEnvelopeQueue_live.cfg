CONSTANTS
  Event = {e1}
  Malformed = {}
  Client = {c1}
  Worker = {w1, w2}
  Capacity = 1
  PollLimit = 2
  Stale = 1
  MaxAttempts = 2
  BaseDelay = 1
  MaxDelay = 2
  EnvelopeRetention = 9
  WorkBound = 1
  PickupBound = 0
  Lag = 0
  MaxTime = 9
  MaxRowid = 2
  MaxFaults = 1
  LastFault = 1
  LastInsert = 0
  MaxDeletions = 1
SPECIFICATION LiveSpec
INVARIANTS
  CountedOnce
PROPERTIES
  EnvelopesSettle
CHECK_DEADLOCK FALSE
