CONSTANTS
  Upload = {"zip", "pair", "one"}
  UploadFile <- MCUploadFile
  Hint <- MCHint
  Route <- MCRoute
  Legacy <- MCLegacy
  MaxStoreFaults = 1
  Field = {"url", "date"}
  MapName = {"app.js.map", "app?js.map"}
  MapPath = {"p"}
  MapContent = {"a"}
  SanitizedPath <- MCSanitizedPath
  ReleaseCall = {"set url", "upload", "delete"}
  CallOp <- MCCallOp
  Symbolicator = {"w1"}
  MaxEvents = 2
  MaxHangUps = 1
  k1 = k1
  k2 = k2
  k3 = k3
  LruKey = {k1, k2, k3}
  LruCost = {1, 2, 4}
  LruLimits <- MCLruLimits
  MaxLruBytes = 9
  Client = {"app", "site", "crash"}
  Sends <- MCSends
  IngestKey = {"key1", "key2", "key3", "free"}
  KeyProject <- MCKeyProject
  KeyLimit <- MCKeyLimit
  Origin = {"o1", "o2"}
  OriginList = {{}, {"o2"}}
  RateWindow = 2
  TrackedKeys = 2
  OriginTtl = 1
  MaxIngestTime = 2
  MaxSends = 1
  MaxIngestEdits = 1
  AlertRule = {1}
  AlertCondition <- MCAlertConditions
  AlertAction = {"webhook", "mail"}
  FirstRules <- MCFirstRules
  AlertCall = {"create", "update", "delete"}
  AlertInput <- MCAlertInput
  AlertEvent <- MCAlertEvents
  Evaluator = {"w1", "w2"}
  AlertHour = 2
  StatsRetention = 4
  MaxAlertTime = 1
  MaxAlertEvents = 1
  MaxAlertFaults = 1
  StartingServer = {"s1", "s2"}
  Statements <- MCStatements
  MaxStartFaults = 2
  MaxStores = 2
  MaxBeats = 2
  ChunkHash = {1, 2}
  ChunkUpload <- MCChunkUpload
  ChunkRetention = 2
  MaxChunkTime = 4
  MaxSweeps = 2
  MaxTouchFaults = 1
  NativeEvent <- MCNativeEvents
  StoredCache <- MCStoredCache
  Alignment <- MCAlignment
  FirstPage = 8
  DumpCase <- MCDumps
  CfiRows <- MCCfiRows
  CrumbLimit = 2
  MaxCrumbs = 5
  MaxEnvelope = 8
  GroupEvent <- MCGroupEvents
  DartMaps <- MCDartMaps
  WaitImages <- MCWaitImages
  WaitFunctions <- MCWaitFunctions
  MaxGrouped = 2
  ItemEnvelope = {"mixed", "skewed", "broken"}
  ItemsOf <- MCItemsOf
  ItemWorker = {"w1", "w2"}
  MaxTagValues = 2
  TagChunk = 2
  MaxItemAttempts = 2
  MaxItemFaults = 1
SPECIFICATION ServerSpec
INVARIANTS
  ServerTypeOK
  BestSelected
  RowsSound
  AnswersAreTrue
  CachesFollowFiles
  LruSound
  RateHonoured
  OriginsFresh
  FiringsSound
  AlertsNotMissed
  SchemaSound
  NoOrphanConversion
  UploadedChunksKept
  FramesAreTheCalls
  CrashReported
  GroupsSound
  TagsSound
  ItemsAccounted
PROPERTIES
  OtherFieldsKept
  LeaseTaskReturns
CHECK_DEADLOCK FALSE
