SPECIFICATION Spec
\* A server with nothing asked of it stops.
CHECK_DEADLOCK FALSE
CONSTANTS
  FileIds = {"f1", "f2"}
  Seeded = {"f1"}
  MaxFileJobs = 2
  MaxFileFaults = 1
  MaxFileDeeds = 2
  ViewOrder <- ViewList
  ViewColumns = {"c1", "c2"}
  ViewForeign = {"c1"}
  ViewLinks = {"m"}
  MaxViewJobs = 3
  MaxViewEdits = 1
  MaxViewFaults = 1
  MaxSchemaJobs = 4
  MaxTyping = 1
  MaxOutside = 1
  MaxSchemaFaults = 1
  Ttl = 2
  Slowest = 1
  MaxTime = 4
  MaxCalls = 3
  MaxWaiting = 2
  MaxInvalidations = 1
  Emails = {"e1", "e2"}
  Ips = {"i1"}
  PerEmail = 1
  PerIp = 2
  Window = 2
  SweepInterval = 1
  MaxLimitTime = 5
  MaxAttempts = 5
  TokenTtl = 1
  MaxTokenTime = 2
  MaxTokens = 2
  MaxResets = 3
  MaxSecrets = 1
INVARIANTS
  TypeOK
  StoredIsWhole
  SchemaChangesAreSeen
  AttemptsAndTokensRunOut
PROPERTIES
  StoresKeepTheRest
