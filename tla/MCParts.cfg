CONSTANTS
  NULL = NULL
  Parts = {"policy", "submissions", "actions", "budget", "snapshot", "table", "startup",
           "reading", "retrieval", "setup", "records", "hedera"}
\* policy: $0.0101994, $0.0101995, $0.0204, $0.0306: below, on and above the
\* prices of the cheapest queries (10200 and 20200 micro-USD), one amount on
\* each side of the rounding boundary, and room for a second query a day.
  Limits = {101994, 101995, 204000}
  Spends = {0, 10200}
  MaxNow = 1
  Lookbacks = {0, 1, 400}
\* submissions, actions, budget
  Callers = {"x", "y"}
  Signers = {"w"}
  Names = {"n"}
  RequestsPerMinute = 1
  CallerFactor = 2
  ActionsPerMinute = 1
  CallsPerHour = 2
  Window = 3
  UnitsPerSecond = 2
  PruneEvery = 2
  NonceCap = 2
  MaxAge = 1
  MaxTime = 4
\* snapshot
  Facts = {"revoked", "used"}
  Signals = {"SIGINT", "SIGTERM"}
  MaxFailures = 2
  MayDamage = TRUE
\* table
  RequestCap = 2
  ListLimit = 1
  MaxRequests = 4
\* startup
  Environments <- SomeEnvironments
  MaxLate = 2
\* reading
  Wallets = {"a", "b"}
  Zero = "zero"
  Junk = "junk"
  Protocols = {"aave-v3"}
  Texts <- SomeTexts
  Raws <- SomeRaws
  Answers <- SomeAnswers
\* retrieval
  Targets = {1, 2, 3}
  Slug <- TwoSlugs
  Held <- ThreeHeld
  Subject = "0xs"
  Invented = {"0xi"}
\* setup
  MaxSalts = 3
  MaxSecrets = 2
  MaxCrashes = 1
  MaxMishaps = 1
  MaxRevokes = 1
\* records
  NewPassports <- SomePassports
  Asks <- SomeAsks
  Now = 1
\* hedera
  Funds = 4
  MaxDeaths = 3
  MaxForces = 1
SPECIFICATION PartsSpec
INVARIANTS
  KillSwitchFirst AdmitsWithinTheDollars PredictionHolds
  WindowsHold RetryAfterIsHonest ActedOnce
  RestartKeepsWhatWasSaved OneCheckUntilReady SubjectWasNamed EveryAnswerShown
  NamesAreWhole CommitmentIsKept HalfWrittenIsTighter EveryKeyIsHeld
PROPERTIES
  NarrowingNeverAdmits SnapshotOnlyGrows RecordedIsSaved WaitingNeverDropped
  RetrievalEnds GetsThrough
CHECK_DEADLOCK FALSE
