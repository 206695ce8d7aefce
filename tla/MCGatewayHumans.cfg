CONSTANTS
  NULL = NULL
  DOWN = DOWN
  a1 = a1
  r1 = r1
  s1 = s1
  s2 = s2
  s3 = s3
  s4 = s4
  Agents = {a1}
  RequestIds = {r1}
  Keys = {}
  Signatures = {s1, s2, s3, s4}
  MaxDay = 0
  SeedPolicy <- NotSeeded
  Ens = FALSE
  PassportNames = {}
  ChainRecords <- NoChain
  Collectors = {c1}
  Live = FALSE
  SharedTurn = FALSE
  MayDisconnect = FALSE
  ClockMayTurn = FALSE
  Humans = {h1, h2}
  Envelopes <- OneLife
  RequireSignature = TRUE
  Submitters = {p1}
  Queries <- OnlyTransfers
SPECIFICATION Spec
INVARIANTS SignatureOnce
PROPERTIES RevocationIsFinal
CHECK_DEADLOCK FALSE
