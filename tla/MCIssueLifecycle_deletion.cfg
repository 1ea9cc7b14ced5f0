CONSTANTS
  e1 = e1
  e2 = e2
  e3 = e3
  p1 = p1
  p2 = p2
  v1 = v1
  Fingerprint = {p1, p2}
  Event = {e1, e2, e3}
  FingerprintOf <- TwoAndOne
  VersionOf <- FirstReleased
  Version = {v1}
  Worker = {w1, w2}
  Admin = {a1}
  Threshold = {3}
  MaxAttempts = 2
  MaxTime = 1
  MaxRowid = 2
  MaxFaults = 1
  MaxUpdates = 0
  MaxDeletions = 2
SPECIFICATION Spec
INVARIANTS
  TypeOK
  EventsOnTheirIssue
  CountCovers
  FirstSeenOnce
SYMMETRY WorkerSymmetry
CHECK_DEADLOCK FALSE
