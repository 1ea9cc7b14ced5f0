CONSTANTS
  Event = {e1}
  Malformed = {e1}
  Client = {c1}
  Worker = {w1}
  Capacity = 2
  PollLimit = 1
  Stale = 1
  MaxAttempts = 3
  BaseDelay = 1
  MaxDelay = 2
  EnvelopeRetention = 9
  WorkBound = 1
  PickupBound = 9
  Lag = 0
  MaxTime = 4
  MaxRowid = 2
  MaxFaults = 0
  LastFault = 0
  LastInsert = 4
  MaxDeletions = 0
SPECIFICATION Spec
PROPERTIES
  BackoffHonoured
CHECK_DEADLOCK FALSE
