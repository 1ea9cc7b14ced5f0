CONSTANTS
  e1 = e1
  e2 = e2
  e3 = e3
  p1 = p1
  p2 = p2
  v1 = v1
  Fingerprint = {p1}
  Event = {e1, e2}
  FingerprintOf <- OneFingerprint
  VersionOf <- OneRelease
  Version = {v1}
  Worker = {w1}
  Admin = {a1}
  Threshold = {3}
  MaxAttempts = 1
  MaxTime = 2
  MaxRowid = 1
  MaxFaults = 0
  MaxUpdates = 1
  MaxDeletions = 0
SPECIFICATION Spec
PROPERTIES
  RepeatedReleaseIsNoOp
CHECK_DEADLOCK FALSE
