SPECIFICATION Spec
CONSTANTS
  Size = 3
  MaxBuffer = 2
  MaxCalls = 3
  numMaxRetries = 3
  a = a
  b = b
  PageItems = {a, b}
  DeltaPages <- SomeDeltaPages
  AllPages <- SomePages
  itemLimits = {0, 1, 2}
  MaxInvalid = 2
  Downloads = {d1, d2}
  DriveItems = {a, b}
  refreshInterval = 0
  MaxTime = 1
  MaxToggles = 2
  Procs = {p1, p2}
  long = long
  Durations = {long}
  Asks <- SomeAsks
  MaxStarts = 2
  MaxChanges = 1
  MaxFaults = 1
  Clients = {c1, c2}
  Models = {m1}
  MaxIDs = 4
  Colls <- SomeColls
  FirstSites <- SomeSites
  Policies = {"Skip", "Copy", "Replace"}
  maxUploadRetries = 1
  MaxEdits = 1
CHECK_DEADLOCK FALSE
INVARIANT TypeOK
INVARIANT ContentInOrder
PROPERTY EveryCallReturns
INVARIANT AnswerIsOneEnumeration
INVARIANT TokenOnlyWithAllPages
PROPERTY CallAndGoroutineEnd
INVARIANT ServedURLsAreCurrent
INVARIANT NotFoundOnlyIfGone
PROPERTY EveryDownloadEnds
INVARIANT OpenWhileHeld
INVARIANT InitializedIsWhole
INVARIANT RetentionIsAsAsked
INVARIANT OneManifestUnlessRaced
INVARIANT NotLostUntilDeleted
PROPERTY UpdatesBuildOnLatest
INVARIANT RestoredOrReported
INVARIANT OriginalsUnlessReplaced
