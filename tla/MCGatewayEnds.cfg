CONSTANTS
  NULL = NULL
  DOWN = DOWN
  a1 = a1
  r1 = r1
  s1 = s1
  s2 = s2
  s3 = s3
  s4 = s4
  Agents = {a1, a2}
  RequestIds = {r1}
  Keys = {}
  Signatures = {s1, s2, s3, s4}
  MaxDay = 1
  SeedPolicy <- OneSeeded
  Ens = FALSE
  PassportNames = {}
  ChainRecords <- NoChain
  Collectors = {c1, c2}
  Live = TRUE
  SharedTurn = TRUE
  MayDisconnect = TRUE
  ClockMayTurn = TRUE
  Humans = {}
  Envelopes = {}
  RequireSignature = TRUE
  Submitters = {p1}
  Queries <- OnlyBalances
SPECIFICATION FairSpec
PROPERTIES CollectionsEnd SubmissionsAnswered
CHECK_DEADLOCK FALSE
