CONSTANTS
  NULL = NULL
  DOWN = DOWN
  a1 = a1
  r1 = r1
  s1 = s1
  s2 = s2
  s3 = s3
  s4 = s4
  Agents = {a1}
  RequestIds = {r1}
  Keys = {}
  Signatures = {s1, s2, s3, s4}
  MaxDay = 0
  SeedPolicy <- SeededAll
  Ens = FALSE
  PassportNames = {}
  ChainRecords <- NoChain
  Collectors = {c1, c2}
  Live = TRUE
  SharedTurn = FALSE
  MayDisconnect = TRUE
  ClockMayTurn = FALSE
  Humans = {}
  Envelopes = {}
  RequireSignature = TRUE
  Submitters = {p1}
  Queries <- OnlyBalances
SPECIFICATION Spec
INVARIANTS LedgerBalanced
CHECK_DEADLOCK FALSE
