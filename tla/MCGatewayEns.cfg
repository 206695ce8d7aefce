CONSTANTS
  NULL = NULL
  DOWN = DOWN
  a1 = a1
  r1 = r1
  s1 = s1
  s2 = s2
  s3 = s3
  s4 = s4
  Agents = {a1, a2}
  RequestIds = {r1}
  Keys = {}
  Signatures = {s1, s2, s3, s4}
  MaxDay = 0
  SeedPolicy <- OthersSeeded
  Ens = TRUE
  PassportNames = {a1}
  ChainRecords <- OneName
  Collectors = {c1, c2}
  Live = TRUE
  SharedTurn = FALSE
  MayDisconnect = FALSE
  ClockMayTurn = FALSE
  Humans = {}
  Envelopes = {}
  RequireSignature = TRUE
  Submitters = {p1}
  Queries <- OnlyBalances
SPECIFICATION Spec
INVARIANTS RevokedNeverServed FulfilledIffCharged DashboardTellsTheTruth
SYMMETRY Exchanges
CHECK_DEADLOCK FALSE
