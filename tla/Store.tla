-------------------------------- MODULE Store -------------------------------
(***************************************************************************)
(* The state of the gateway (apps/api/src/store.ts) and the methods that   *)
(* change it.  Every other component works on these tables.                *)
(*                                                                         *)
(* The gateway is one Node.js thread: what a handler does between two      *)
(* awaits is one step, and the store's methods are synchronous, so each is *)
(* an operator used inside the step of the handler that calls it.          *)
(*                                                                         *)
(* Instants are counted in UTC days: nothing here tells two instants of a  *)
(* day apart.  The caps of the tables and the snapshot file are left to    *)
(* modules of their own; in this one nothing is ever dropped.              *)
(***************************************************************************)
EXTENDS Policy

CONSTANTS
  Agents,       \* passport names
  RequestIds,   \* the ids randomUUID can return
  Keys,         \* idempotency keys callers use
  Signatures,   \* wallet signatures humans produce
  MaxDay,       \* last day of the run: bounds the clock
  SeedPolicy    \* the seeded capability of each passport, NULL when not seeded

Days == 0..MaxDay

ASSUME StoreAssumption ==
  /\ MaxDay \in Nat
  /\ SeedPolicy \in [Agents -> Capability \cup {NULL}]
  /\ NULL \notin RequestIds \cup Agents \cup Keys \cup Signatures

VARIABLES
  agents,       \* the passports the store knows
  policies,     \* their capabilities
  requests,     \* the request table
  spend,        \* micro-USD spent per passport and day
  idempotency,  \* idempotency key to the request it created
  usedNonces,   \* signatures already consumed
  audit,        \* the audit events recorded so far, each kind once
  today         \* the wall clock

storeVars == <<agents, policies, requests, spend, idempotency, usedNonces, audit>>

RequestStatus == {"awaiting_approval", "payment_required", "rejected", "fulfilled", "failed"}

\* "settled" is the receipt's flag; an empty approval or refusal is "none".
AccessRequest ==
  [agent : Agents, query : ResourceQuery, status : RequestStatus,
   approval : {"none", "approved", "rejected"},
   payment : {"none", "unsettled", "settled"},
   lastRefusal : {"none", "pre-payment", "data-release"}]

ASSUME RequestAssumption == NULL \notin AccessRequest

EventType ==
  {"agent.created", "agent.revoked", "policy.updated", "request.received",
   "request.evaluated", "request.approval_requested", "request.approved",
   "request.rejected", "payment.required", "payment.verified", "payment.rejected",
   "data.retrieved", "analysis.completed", "request.fulfilled", "request.failed"}

AuditEvent == [type : EventType, actor : {"agent", "human", "system"},
               about : Agents \cup RequestIds]

Event(type, actor, about) == [type |-> type, actor |-> actor, about |-> about]

LocalPassport(policy) == [status |-> "active", expiresAt |-> policy.expiresAt, source |-> "local"]

\* An empty store, seeded at start (seedDemoData); a seeded passport never expires.
StoreInit ==
  /\ agents = [a \in Agents |->
                 IF SeedPolicy[a] = NULL THEN NULL
                 ELSE [status |-> "active", expiresAt |-> NULL, source |-> "local"]]
  /\ policies = SeedPolicy
  /\ requests = [r \in RequestIds |-> NULL]
  /\ spend = [a \in Agents |-> [d \in Days |-> 0]]
  /\ idempotency = [k \in Keys |-> NULL]
  /\ usedNonces = {}
  /\ audit = {}
  /\ today = 0

StoreTypeOK ==
  /\ agents \in [Agents -> Passport \cup {NULL}]
  /\ policies \in [Agents -> Capability \cup {NULL}]
  /\ requests \in [RequestIds -> AccessRequest \cup {NULL}]
  /\ spend \in [Agents -> [Days -> Nat]]
  /\ idempotency \in [Keys -> RequestIds \cup {NULL}]
  /\ usedNonces \in SUBSET Signatures
  /\ audit \in SUBSET AuditEvent
  /\ today \in Days
-----------------------------------------------------------------------------
putAgent(a, passport) == agents' = [agents EXCEPT ![a] = passport]

\* Returns null, changing nothing, for a passport the store does not know.
revokeAgent(a) ==
  agents' = [agents EXCEPT ![a] = IF @ = NULL THEN NULL ELSE [@ EXCEPT !.status = "revoked"]]

putPolicy(a, policy) == policies' = [policies EXCEPT ![a] = policy]

putRequest(r, request) == requests' = [requests EXCEPT ![r] = request]

\* `patched` is the stored request with the patch applied.
updateRequest(r, patched) ==
  requests' = [requests EXCEPT ![r] = IF @ = NULL THEN NULL ELSE patched]

recordSpend(a, micros, day) == spend' = [spend EXCEPT ![a][day] = @ + micros]

\* Fault: the operands are swapped.
releaseSpendSwapped(a, micros, day) ==
  spend' = [spend EXCEPT ![a][day] = IF @ > micros THEN micros - @ ELSE 0]

\* Never below zero.
releaseSpend(a, micros, day) ==
  spend' = [spend EXCEPT ![a][day] = IF @ > micros THEN @ - micros ELSE 0]

\* Fault: the signature is noted but not looked up.
noteNonce(sig) == usedNonces' = usedNonces \cup {sig}

consumeNonce(sig) == sig \notin usedNonces /\ usedNonces' = usedNonces \cup {sig}

\* Fault: the key is not remembered.
forgetIdempotent(k, r) == idempotency' = idempotency

rememberIdempotent(k, r) ==
  idempotency' = IF k = NULL THEN idempotency ELSE [idempotency EXCEPT ![k] = r]

\* The request a call with this key already created, NULL when there is none.
lookupIdempotent(k) == IF k = NULL THEN NULL ELSE idempotency[k]

recordEvents(events) == audit' = audit \cup events

\* Midnight.
Tick == today < MaxDay /\ today' = today + 1 /\ UNCHANGED storeVars
=============================================================================
