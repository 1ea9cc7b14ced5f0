CONSTANTS
  e1 = e1
  e2 = e2
  e3 = e3
  p1 = p1
  p2 = p2
  v1 = v1
  Fingerprint = {p1}
  Event = {e1, e2}
  FingerprintOf <- OneFingerprint
  VersionOf <- FirstReleased
  Version = {v1}
  Worker = {w1, w2}
  Admin = {a1}
  Threshold = {2}
  MaxAttempts = 1
  MaxTime = 2
  MaxRowid = 1
  MaxFaults = 1
  MaxUpdates = 2
  MaxDeletions = 0
SPECIFICATION LiveSpec
INVARIANTS
  FieldsMatchStatus
  ThresholdHonoured
PROPERTIES
  SnoozesEnd
CHECK_DEADLOCK FALSE
