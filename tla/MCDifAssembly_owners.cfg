CONSTANTS
  Key = {k1}
  Chunk = {ch1}
  ChunksOf <- AllChunks
  Job = {j1}
  Client = {c1}
  Worker = {w1, w2}
  Lease = 2
  ErrorRetention = 1
  MaxClaims = 2
  Retention = 4
  AdmitBound = 1
  BeatGap = 2
  Lag = 1
  MaxTime = 6
  MaxFaults = 2
  LastFault = 6
  MaxVersion = 1
SPECIFICATION Spec
INVARIANTS
  OwnersExclude
  AttemptsBounded
CHECK_DEADLOCK FALSE
