CONSTANTS
  Key = {k1}
  Chunk = {ch1}
  ChunksOf <- AllChunks
  Job = {j1}
  Client = {c1}
  Worker = {w1, w2}
  Lease = 1
  ErrorRetention = 1
  MaxClaims = 2
  Retention = 2
  AdmitBound = 1
  BeatGap = 2
  Lag = 0
  MaxTime = 4
  MaxFaults = 2
  LastFault = 1
  MaxVersion = 0
SPECIFICATION LiveSpec
PROPERTIES
  ImplementsLiveJobs
  PinsAreCollected
CHECK_DEADLOCK FALSE
