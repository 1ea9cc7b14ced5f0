CONSTANTS
  Event = {e1, e2}
  Malformed = {e2}
  Client = {c1}
  Worker = {w1, w2}
  Capacity = 1
  PollLimit = 1
  Stale = 1
  MaxAttempts = 2
  BaseDelay = 1
  MaxDelay = 2
  EnvelopeRetention = 1
  WorkBound = 1
  PickupBound = 9
  Lag = 0
  MaxTime = 3
  MaxRowid = 2
  MaxFaults = 1
  LastFault = 1
  LastInsert = 3
  MaxDeletions = 0
SPECIFICATION Spec
SYMMETRY TaskSymmetry
INVARIANTS
  TypeOK
  WorkersExclude
  DoneMeansStored
PROPERTIES
  SettledIsFinal
CHECK_DEADLOCK FALSE
