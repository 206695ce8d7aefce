CONSTANTS
  NULL = NULL
  DOWN = DOWN
  a1 = a1
  r1 = r1
  s1 = s1
  s2 = s2
  s3 = s3
  s4 = s4
  Agents = {a1}
  RequestIds = {r1, r2}
  Keys = {k1}
  Signatures = {s1, s2, s3, s4}
  MaxDay = 0
  SeedPolicy <- SeededAll
  Ens = FALSE
  PassportNames = {}
  ChainRecords <- NoChain
  Collectors = {c1, c2}
  Live = FALSE
  SharedTurn = FALSE
  MayDisconnect = FALSE
  ClockMayTurn = FALSE
  Humans = {h1}
  Envelopes <- DemoActions
  RequireSignature = FALSE
  Submitters = {p1}
  Queries <- BothQueries
SPECIFICATION Spec
INVARIANTS TypeOK SingleFlight HumanGate
PROPERTIES BudgetRespected
CHECK_DEADLOCK FALSE
