CONSTANTS
  Key = {k1}
  Chunk = {ch1}
  ChunksOf <- AllChunks
  Job = {j1, j2}
  Client = {c1, c2}
  Worker = {w1, w2}
  Lease = 1
  ErrorRetention = 1
  MaxClaims = 1
  Retention = 2
  AdmitBound = 1
  BeatGap = 3
  Lag = 0
  MaxTime = 3
  MaxFaults = 1
  LastFault = 1
  MaxVersion = 0
SPECIFICATION Spec
SYMMETRY TaskSymmetry
INVARIANTS
  TypeOK
  ActivePinsPresent
PROPERTIES
  ImplementsJobs
CHECK_DEADLOCK FALSE
