---------------------------- MODULE GatewayProofs ---------------------------
(***************************************************************************)
(* Proofs about the gateway, for any number of exchanges, requests,        *)
(* passports, days and envelopes, whichever mode it runs in.               *)
(*                                                                         *)
(* The inductive invariant is TypeOK with Placed: an exchange that is not  *)
(* idle names a stored request, and one that is past its check is in the   *)
(* route.  Without it neither the types of what the handlers write back    *)
(* nor the bookkeeping of inFlight can be carried through a step.          *)
(***************************************************************************)
EXTENDS Gateway, PolicyProofs

Late == {"checked", "fetching", "analyzing", "settling"}

Placed ==
  \A c \in Collectors :
    /\ collector[c].pc # "idle" =>
         collector[c].id \in RequestIds /\ requests[collector[c].id] # NULL
    /\ collector[c].pc \in Late => collector[c].stage = "release"

\* No request is forgotten.
RequestsStay == \A r \in RequestIds : requests[r] # NULL => requests'[r] # NULL
-----------------------------------------------------------------------------
(* What the operators of the store, the identity service and the route      *)
(* return and write.                                                        *)

LEMMA DayZero == 0 \in Days
  BY StoreAssumption DEF Days

LEMMA NothingResolved == NoPassport \in Resolution
  BY DEF NoPassport, Resolution

LEMMA IdleTyped == Idle \in CollectorState
  BY DayZero, NothingResolved DEF Idle, CollectorState, Stage

LEMMA AnswerTyped ==
  ASSUME StoreTypeOK, ChainTypeOK, NEW a \in Agents
  PROVE  AnswerAtCall(a) \in Resolution /\ ResolveLocal(a) \in Resolution
         /\ FallBack(a) \in Resolution /\ ChainAnswers(a) \subseteq Resolution \cup {DOWN}
<1>1. /\ agents[a] \in Passport \cup {NULL} /\ policies[a] \in Capability \cup {NULL}
      /\ chain[a] \in Resolution
  BY IdentityAssumption DEF StoreTypeOK, ChainTypeOK
<1>2. ResolveLocal(a) \in Resolution
  BY <1>1, NothingResolved DEF ResolveLocal, Resolution
<1>3. FallBack(a) \in Resolution
  BY <1>1, NothingResolved DEF FallBack, Resolution
<1>4. QED
  BY <1>1, <1>2, <1>3, NothingResolved DEF AnswerAtCall, ChainAnswers

LEMMA ResolveTyped ==
  ASSUME StoreTypeOK, ChainTypeOK, NEW a \in Agents, NEW answer \in Resolution \cup {DOWN}
  PROVE  Resolve(a, answer) \in Resolution \cup {DOWN}
  BY AnswerTyped, NothingResolved DEF Resolve, ResolveEns, Found

LEMMA DisplayCopyTyped ==
  ASSUME StoreTypeOK, NEW a \in Agents, NEW answer \in Resolution \cup {DOWN},
         KeepDisplayCopy(a, answer)
  PROVE  /\ agents' \in [Agents -> Passport \cup {NULL}]
         /\ policies' \in [Agents -> Capability \cup {NULL}]
<1>1. CASE Ens /\ Found(answer)
  <2>1. answer.agent \in Passport \cup {NULL} /\ answer.policy \in Capability \cup {NULL}
    BY <1>1 DEF Found, Resolution
  <2>2. QED
    BY <1>1, <2>1 DEF KeepDisplayCopy, putAgent, putPolicy, StoreTypeOK
<1>2. CASE ~(Ens /\ Found(answer))
  BY <1>2 DEF KeepDisplayCopy, StoreTypeOK
<1>3. QED
  BY <1>1, <1>2

LEMMA UpdateTyped ==
  ASSUME StoreTypeOK, NEW r \in RequestIds, NEW patched,
         requests[r] # NULL => patched \in AccessRequest, updateRequest(r, patched)
  PROVE  requests' \in [RequestIds -> AccessRequest \cup {NULL}] /\ RequestsStay
  BY RequestAssumption DEF StoreTypeOK, updateRequest, RequestsStay

LEMMA PatchTyped ==
  ASSUME NEW x \in AccessRequest
  PROVE  /\ \A refusal \in {"none", "pre-payment", "data-release"} :
              [x EXCEPT !.lastRefusal = refusal] \in AccessRequest
         /\ \A status \in RequestStatus : [x EXCEPT !.status = status] \in AccessRequest
         /\ \A payment \in {"none", "unsettled", "settled"} :
              [x EXCEPT !.payment = payment] \in AccessRequest
         /\ \A status \in RequestStatus, payment \in {"none", "unsettled", "settled"} :
              [x EXCEPT !.status = status, !.payment = payment] \in AccessRequest
         /\ \A approval \in {"none", "approved", "rejected"}, status \in RequestStatus :
              [x EXCEPT !.approval = approval, !.status = status] \in AccessRequest
  BY DEF AccessRequest

LEMMA EventTyped ==
  ASSUME NEW type \in EventType, NEW actor \in {"agent", "human", "system"},
         NEW about \in Agents \cup RequestIds
  PROVE  Event(type, actor, about) \in AuditEvent
  BY DEF Event, AuditEvent

LEMMA EventsTyped ==
  ASSUME StoreTypeOK, NEW events \in SUBSET AuditEvent, recordEvents(events)
  PROVE  audit' \in SUBSET AuditEvent
  BY DEF StoreTypeOK, recordEvents

LEMMA SpendTyped ==
  ASSUME StoreTypeOK, NEW a \in Agents, NEW micros \in Nat, NEW d \in Days,
         recordSpend(a, micros, d) \/ releaseSpend(a, micros, d)
  PROVE  spend' \in [Agents -> [Days -> Nat]]
<1>1. spend[a] \in [Days -> Nat] /\ spend[a][d] \in Nat
  BY DEF StoreTypeOK
<1>2. PICK x \in Nat : spend' = [spend EXCEPT ![a][d] = x]
  <2>1. CASE recordSpend(a, micros, d)
    <3>1. spend[a][d] + micros \in Nat
      BY <1>1
    <3>2. QED
      BY <2>1, <3>1 DEF recordSpend
  <2>2. CASE releaseSpend(a, micros, d)
    <3>1. (IF spend[a][d] > micros THEN spend[a][d] - micros ELSE 0) \in Nat
      BY <1>1
    <3>2. QED
      BY <2>2, <3>1 DEF releaseSpend
  <2>3. QED
    BY <2>1, <2>2
<1>3. [spend[a] EXCEPT ![d] = x] \in [Days -> Nat]
  BY <1>1
<1>4. QED
  BY <1>2, <1>3 DEF StoreTypeOK

\* A step that moves one exchange to a well-placed state and forgets no
\* request keeps the exchanges typed and placed.
LEMMA MoveTyped ==
  ASSUME NEW c \in Collectors, NEW x,
         collector \in [Collectors -> CollectorState], Placed, RequestsStay,
         collector' = [collector EXCEPT ![c] = x],
         x \in CollectorState,
         x.pc # "idle" => x.id \in RequestIds /\ requests'[x.id] # NULL,
         x.pc \in Late => x.stage = "release"
  PROVE  collector' \in [Collectors -> CollectorState] /\ Placed'
<1>1. collector' \in [Collectors -> CollectorState]
  OBVIOUS
<1>2. ASSUME NEW d \in Collectors
      PROVE  /\ collector'[d].pc # "idle" =>
                   collector'[d].id \in RequestIds /\ requests'[collector'[d].id] # NULL
             /\ collector'[d].pc \in Late => collector'[d].stage = "release"
  <2>1. CASE d = c
    BY <2>1
  <2>2. CASE d # c
    BY <2>2 DEF Placed, RequestsStay
  <2>3. QED
    BY <2>1, <2>2
<1>3. QED
  BY <1>1, <1>2 DEF Placed

\* The same for the three ways in which handlers move.
LEMMA AnsweredTyped ==
  ASSUME NEW c \in Collectors, collector \in [Collectors -> CollectorState], Placed,
         RequestsStay, Answered(c)
  PROVE  collector' \in [Collectors -> CollectorState] /\ Placed'
<1>1. Idle.pc = "idle"
  BY DEF Idle
<1>2. QED
  BY <1>1, IdleTyped, MoveTyped DEF Answered, Late

LEMMA MovesToTyped ==
  ASSUME NEW c \in Collectors, collector \in [Collectors -> CollectorState], Placed,
         RequestsStay, NEW pc \in {"verifying"} \cup Late, MovesTo(c, pc),
         collector[c].pc # "idle", pc \in Late => collector[c].stage = "release"
  PROVE  collector' \in [Collectors -> CollectorState] /\ Placed'
<1> DEFINE x == [collector[c] EXCEPT !.pc = pc]
<1>1. collector[c] \in CollectorState
  OBVIOUS
<1>2. /\ x \in CollectorState /\ x.pc = pc
      /\ x.id = collector[c].id /\ x.stage = collector[c].stage
  BY <1>1 DEF CollectorState, Late
<1>3. collector' = [collector EXCEPT ![c] = x]
  BY DEF MovesTo
<1>4. x.id \in RequestIds /\ requests'[x.id] # NULL
  BY <1>2 DEF Placed, RequestsStay
<1> HIDE DEF x
<1>5. QED
  BY <1>2, <1>3, <1>4, MoveTyped

LEMMA BeginCheckTyped ==
  ASSUME StoreTypeOK, ChainTypeOK, NEW c \in Collectors,
         collector \in [Collectors -> CollectorState], Placed, RequestsStay,
         NEW r \in RequestIds, requests[r] # NULL, NEW stage \in Stage,
         NEW at \in Days, NEW checkAt \in Days, BeginCheck(c, r, stage, at, checkAt)
  PROVE  collector' \in [Collectors -> CollectorState] /\ Placed'
<1> DEFINE a == requests[r].agent
           x == [Idle EXCEPT !.pc = AfterCall, !.stage = stage, !.id = r, !.at = at,
                   !.checkAt = checkAt, !.approval = requests[r].approval,
                   !.who = AnswerAtCall(a), !.revokedOnEntry = RevokedAtTheSource(a)]
<1>1. a \in Agents /\ requests[r].approval \in {"none", "approved", "rejected"}
  BY DEF StoreTypeOK, AccessRequest
<1>2. AnswerAtCall(a) \in Resolution
  BY <1>1, AnswerTyped
<1>3. RevokedAtTheSource(a) \in BOOLEAN
  BY Zenon DEF RevokedAtTheSource, Revoked, isPassportName
<1>4. AfterCall \in {"resolving", "resolved"}
  BY DEF AfterCall
<1> HIDE DEF a
<1>5. x \in CollectorState /\ x.pc = AfterCall /\ x.id = r
  BY <1>1, <1>2, <1>3, <1>4, IdleTyped DEF CollectorState
<1>6. collector' = [collector EXCEPT ![c] = x]
  BY DEF BeginCheck, a
<1>7. requests'[r] # NULL
  BY DEF RequestsStay
<1> HIDE DEF x
<1>8. QED
  BY <1>4, <1>5, <1>6, <1>7, MoveTyped DEF Late

LEMMA RefusalTyped ==
  ASSUME StoreTypeOK, NEW r \in RequestIds, NEW stage \in Stage, RecordRefusal(r, stage)
  PROVE  /\ requests' \in [RequestIds -> AccessRequest \cup {NULL}] /\ RequestsStay
         /\ audit' \in SUBSET AuditEvent
<1>1. CASE stage = "price"
  BY <1>1 DEF RecordRefusal, StoreTypeOK, RequestsStay
<1>2. CASE stage # "price"
  <2> DEFINE refusal == IF stage = "gate" THEN "pre-payment" ELSE "data-release"
  <2> refusal \in {"pre-payment", "data-release"}
    OBVIOUS
  <2>3. /\ updateRequest(r, [requests[r] EXCEPT !.lastRefusal = refusal])
        /\ recordEvents({Event("payment.rejected", "system", r)})
    BY <1>2 DEF RecordRefusal
  <2> HIDE DEF refusal
  <2>1. requests[r] # NULL => [requests[r] EXCEPT !.lastRefusal = refusal] \in AccessRequest
    BY PatchTyped DEF StoreTypeOK
  <2>2. {Event("payment.rejected", "system", r)} \in SUBSET AuditEvent
    BY EventTyped DEF EventType
  <2>4. QED
    BY <2>1, <2>2, <2>3, UpdateTyped, EventsTyped
<1>3. QED
  BY <1>1, <1>2
-----------------------------------------------------------------------------
(* A collection's steps *)

CollectionKept == StoreTypeOK' /\ CollectionTypeOK' /\ Placed'

\* What every step of an exchange may assume of the request it names.
LEMMA NamesARequest ==
  ASSUME TypeOK, Placed, NEW c \in Collectors, collector[c].pc # "idle"
  PROVE  /\ collector[c] \in CollectorState
         /\ collector[c].id \in RequestIds
         /\ requests[collector[c].id] \in AccessRequest
         /\ requests[collector[c].id].agent \in Agents
         /\ requests[collector[c].id].query \in ResourceQuery
         /\ collector[c].at \in Days /\ collector[c].fare \in Nat
         /\ collector[c].who \in Resolution \cup {DOWN}
<1>1. collector[c] \in CollectorState
  BY DEF TypeOK, CollectionTypeOK
<1>2. collector[c].id \in RequestIds /\ requests[collector[c].id] # NULL
  BY DEF Placed
<1>3. requests[collector[c].id] \in AccessRequest
  BY <1>2 DEF TypeOK, StoreTypeOK
<1>4. QED
  BY <1>1, <1>2, <1>3 DEF CollectorState, AccessRequest

LEMMA ReachGateTyped ==
  ASSUME TypeOK, Placed, NEW c \in Collectors, NEW r \in RequestIds, ReachGate(c, r)
  PROVE  CollectionKept
<1> USE DEF TypeOK
<1>1. CASE Evaluable(r)
  <2>1. requests[r] # NULL /\ "gate" \in Stage /\ today \in Days
    BY <1>1 DEF Evaluable, Stage, StoreTypeOK
  <2>2. RequestsStay
    BY <1>1 DEF ReachGate, RequestsStay
  <2>3. BeginCheck(c, r, "gate", today, today)
    BY <1>1 DEF ReachGate
  <2>4. collector' \in [Collectors -> CollectorState] /\ Placed'
    BY <2>1, <2>2, <2>3, BeginCheckTyped DEF CollectionTypeOK
  <2>5. QED
    BY <1>1, <2>4 DEF ReachGate, CollectionKept, StoreTypeOK, CollectionTypeOK
<1>2. CASE ~Evaluable(r)
  <2>1. RecordRefusal(r, "gate") /\ UNCHANGED collector
    BY <1>2 DEF ReachGate
  <2>2. /\ requests' \in [RequestIds -> AccessRequest \cup {NULL}] /\ RequestsStay
        /\ audit' \in SUBSET AuditEvent
    BY <2>1, RefusalTyped DEF Stage
  <2>3. Placed'
    BY <2>1, <2>2 DEF Placed, RequestsStay
  <2>4. QED
    BY <2>1, <2>2, <2>3 DEF ReachGate, CollectionKept, StoreTypeOK, CollectionTypeOK
<1>3. QED
  BY <1>1, <1>2

\* The route's entry, shared by both modes.
LEMMA EnterRouteTyped ==
  ASSUME TypeOK, Placed, NEW c \in Collectors, NEW r \in RequestIds, EnterRoute(c, r)
  PROVE  /\ requests' \in [RequestIds -> AccessRequest \cup {NULL}]
         /\ audit' \in SUBSET AuditEvent
         /\ today' \in Days
         /\ inFlight' \in SUBSET RequestIds
         /\ collector' \in [Collectors -> CollectorState] /\ Placed'
<1> USE DEF TypeOK
<1>1. CASE r \in inFlight
  <2>1. Answered(c) /\ UNCHANGED <<requests, audit, inFlight, today>>
    BY <1>1 DEF EnterRoute
  <2>2. RequestsStay
    BY <2>1 DEF RequestsStay
  <2>3. QED
    BY <2>1, <2>2, AnsweredTyped DEF StoreTypeOK, CollectionTypeOK
<1>2. CASE r \notin inFlight /\ Evaluable(r)
  <2>1. PICK t \in {today} \cup (IF ClockMayTurn /\ today < MaxDay THEN {today + 1} ELSE {}) :
          BeginCheck(c, r, "release", today, t) /\ today' = t
    BY <1>2, Zenon DEF EnterRoute
  <2>2. inFlight' = inFlight \cup {r} /\ UNCHANGED <<requests, audit>>
    BY <1>2 DEF EnterRoute
  <2>3. today \in Days /\ t \in Days
    BY StoreAssumption DEF StoreTypeOK, Days
  <2>4. requests[r] # NULL /\ "release" \in Stage /\ RequestsStay
    BY <1>2, <2>2 DEF Evaluable, Stage, RequestsStay
  <2>5. QED
    BY <2>1, <2>2, <2>3, <2>4, BeginCheckTyped DEF StoreTypeOK, CollectionTypeOK
<1>3. CASE r \notin inFlight /\ ~Evaluable(r)
  <2>1. RecordRefusal(r, "release") /\ Answered(c) /\ UNCHANGED <<inFlight, today>>
    BY <1>3 DEF EnterRoute
  <2>2. "release" \in Stage
    BY DEF Stage
  <2>3. QED
    BY <2>1, <2>2, RefusalTyped, AnsweredTyped DEF StoreTypeOK, CollectionTypeOK
<1>4. QED
  BY <1>1, <1>2, <1>3

LEMMA CollectTyped ==
  ASSUME TypeOK, Placed, NEW c \in Collectors, NEW r \in RequestIds, Collect(c, r)
  PROVE  CollectionKept
  BY EnterRouteTyped DEF Collect, CollectionKept, TypeOK, StoreTypeOK, CollectionTypeOK

LEMMA VerifiedTyped ==
  ASSUME TypeOK, Placed, NEW c \in Collectors, Verified(c)
  PROVE  CollectionKept
<1>1. collector[c].pc # "idle" /\ collector[c].id \in RequestIds
  BY NamesARequest DEF Verified
<1>2. CASE EnterRoute(c, collector[c].id)
  BY <1>1, <1>2, EnterRouteTyped
  DEF Verified, CollectionKept, TypeOK, StoreTypeOK, CollectionTypeOK
<1>3. CASE Answered(c) /\ UNCHANGED <<requests, audit, inFlight, today>>
  <2>1. RequestsStay
    BY <1>3 DEF RequestsStay
  <2>2. QED
    BY <1>3, <2>1, AnsweredTyped
    DEF Verified, CollectionKept, TypeOK, StoreTypeOK, CollectionTypeOK
<1>4. QED
  BY <1>2, <1>3 DEF Verified

LEMMA ReadChainTyped ==
  ASSUME TypeOK, Placed, NEW c \in Collectors, ReadChain(c)
  PROVE  CollectionKept
<1>1. /\ collector[c] \in CollectorState /\ collector[c].pc = "resolving"
      /\ collector[c].id \in RequestIds /\ requests[collector[c].id] # NULL
      /\ requests[collector[c].id].agent \in Agents
  BY NamesARequest DEF ReadChain, Placed
<1>2. PICK answer \in ChainAnswers(requests[collector[c].id].agent) :
        collector' = [collector EXCEPT ![c].pc = "resolved", ![c].who = answer]
  BY Zenon DEF ReadChain
<1>3. answer \in Resolution \cup {DOWN}
  BY <1>1, <1>2, AnswerTyped DEF TypeOK
<1> DEFINE x == [collector[c] EXCEPT !.pc = "resolved", !.who = answer]
<1>4. x \in CollectorState /\ x.pc = "resolved" /\ x.id = collector[c].id
  BY <1>1, <1>3 DEF CollectorState
<1>5. collector' = [collector EXCEPT ![c] = x]
  BY <1>1, <1>2 DEF TypeOK, CollectionTypeOK
<1>6. RequestsStay /\ requests' = requests
  BY DEF ReadChain, RequestsStay, storeVars
<1> HIDE DEF x
<1>7. collector' \in [Collectors -> CollectorState] /\ Placed'
  BY <1>1, <1>4, <1>5, <1>6, MoveTyped DEF Late, TypeOK, CollectionTypeOK
<1>8. QED
  BY <1>7 DEF ReadChain, storeVars, CollectionKept, TypeOK, StoreTypeOK, CollectionTypeOK

\* The gate lets through, or the price callback refuses.
LEMMA PassGateTyped ==
  ASSUME TypeOK, Placed, NEW c \in Collectors, collector[c].pc = "resolved", PassGate(c)
  PROVE  /\ requests' \in [RequestIds -> AccessRequest \cup {NULL}]
         /\ audit' \in SUBSET AuditEvent /\ inFlight' \in SUBSET RequestIds
         /\ collector' \in [Collectors -> CollectorState] /\ Placed'
<1> DEFINE r == collector[c].id
<1>1. r \in RequestIds /\ requests[r] # NULL
  BY DEF Placed
<1> HIDE DEF r
<1>2. /\ IF Evaluable(r) THEN BeginCheck(c, r, "price", today, today) ELSE Answered(c)
      /\ recordEvents({Event("payment.required", "system", r)})
      /\ UNCHANGED <<requests, inFlight>>
  BY Zenon DEF PassGate, r
<1>3. RequestsStay /\ "price" \in Stage /\ today \in Days
  BY <1>2 DEF RequestsStay, Stage, TypeOK, StoreTypeOK
<1>4. collector' \in [Collectors -> CollectorState] /\ Placed'
  BY <1>1, <1>2, <1>3, BeginCheckTyped, AnsweredTyped DEF TypeOK, CollectionTypeOK
<1>5. {Event("payment.required", "system", r)} \in SUBSET AuditEvent
  BY <1>1, EventTyped DEF EventType
<1>6. QED
  BY <1>2, <1>4, <1>5, EventsTyped DEF TypeOK, StoreTypeOK, CollectionTypeOK

LEMMA CheckTyped ==
  ASSUME TypeOK, Placed, NEW c \in Collectors, Check(c)
  PROVE  CollectionKept
<1> DEFINE r == collector[c].id
           a == requests[r].agent
           stage == collector[c].stage
           who == Resolve(a, collector[c].who)
<1>1. /\ collector[c].pc = "resolved" /\ collector[c] \in CollectorState
      /\ r \in RequestIds /\ requests[r] # NULL /\ a \in Agents
      /\ requests[r].query \in ResourceQuery /\ stage \in Stage
      /\ collector[c].who \in Resolution \cup {DOWN}
  BY NamesARequest DEF Check, Placed, CollectorState
<1>2. /\ KeepDisplayCopy(a, collector[c].who)
      /\ UNCHANGED <<spend, idempotency, usedNonces, today, kept>>
  BY DEF Check
<1>3. /\ agents' \in [Agents -> Passport \cup {NULL}]
      /\ policies' \in [Agents -> Capability \cup {NULL}]
  BY <1>1, <1>2, DisplayCopyTyped DEF TypeOK
<1>4. /\ requests' \in [RequestIds -> AccessRequest \cup {NULL}]
      /\ audit' \in SUBSET AuditEvent /\ inFlight' \in SUBSET RequestIds
      /\ collector' \in [Collectors -> CollectorState] /\ Placed'
  <2>1. CASE RecordRefusal(r, stage) /\ LeaveRoute(r, stage) /\ Answered(c)
    BY <1>1, <2>1, RefusalTyped, AnsweredTyped DEF LeaveRoute, TypeOK, CollectionTypeOK
  <2>2. CASE PassGate(c)
    BY <1>1, <2>2, PassGateTyped
  <2>3. CASE stage = "price" /\ Quote(c)
    <3>1. (Answered(c) \/ MovesTo(c, "verifying")) /\ UNCHANGED <<requests, audit, inFlight>>
      BY <2>3 DEF Quote
    <3>2. RequestsStay
      BY <3>1 DEF RequestsStay
    <3>3. QED
      BY <1>1, <3>1, <3>2, AnsweredTyped, MovesToTyped
      DEF TypeOK, StoreTypeOK, CollectionTypeOK, Late
  <2>4. CASE /\ stage = "release"
             /\ collector' = [collector EXCEPT ![c].pc = "checked", ![c].who = who,
                                               ![c].fare = priceQueryMicros(requests[r].query)]
             /\ UNCHANGED <<requests, audit, inFlight>>
    <3> DEFINE price == priceQueryMicros(requests[r].query)
               x == [collector[c] EXCEPT !.pc = "checked", !.who = who, !.fare = price]
    <3>1. who \in Resolution \cup {DOWN} /\ price \in Nat
      BY <1>1, ResolveTyped, PriceIsNat DEF TypeOK
    <3>2. RequestsStay /\ requests' = requests
      BY <2>4 DEF RequestsStay
    <3>3. collector' = [collector EXCEPT ![c] = x]
      BY <2>4 DEF TypeOK, CollectionTypeOK
    <3> HIDE DEF who, price
    <3>4. x \in CollectorState /\ x.pc = "checked" /\ x.id = r /\ x.stage = "release"
      BY <1>1, <2>4, <3>1 DEF CollectorState
    <3> HIDE DEF x
    <3>5. collector' \in [Collectors -> CollectorState] /\ Placed'
      BY <1>1, <3>2, <3>3, <3>4, MoveTyped DEF TypeOK, CollectionTypeOK
    <3>6. QED
      BY <2>4, <3>5 DEF TypeOK, StoreTypeOK, CollectionTypeOK
  <2>5. QED
    BY <2>1, <2>2, <2>3, <2>4, Zenon DEF Check
<1>5. QED
  BY <1>2, <1>3, <1>4 DEF CollectionKept, TypeOK, StoreTypeOK, CollectionTypeOK

LEMMA ReserveTyped ==
  ASSUME TypeOK, Placed, NEW c \in Collectors, Reserve(c)
  PROVE  CollectionKept
<1> DEFINE r == collector[c].id
<1>1. /\ collector[c].pc = "checked" /\ collector[c].stage = "release"
      /\ r \in RequestIds /\ requests[r].agent \in Agents
      /\ collector[c].at \in Days /\ collector[c].fare \in Nat
  BY NamesARequest DEF Reserve, Placed, Late
<1>2. /\ recordSpend(requests[r].agent, collector[c].fare, collector[c].at)
      /\ recordEvents(IF Live THEN {} ELSE {Event("payment.verified", "system", r)})
      /\ MovesTo(c, "fetching")
      /\ UNCHANGED <<agents, policies, requests, idempotency, usedNonces, today, inFlight, kept>>
  BY DEF Reserve
<1> HIDE DEF r
<1>3. spend' \in [Agents -> [Days -> Nat]]
  BY <1>1, <1>2, SpendTyped DEF TypeOK
<1>4. (IF Live THEN {} ELSE {Event("payment.verified", "system", r)}) \in SUBSET AuditEvent
  BY <1>1, EventTyped DEF EventType
<1>5. audit' \in SUBSET AuditEvent
  BY <1>2, <1>4, EventsTyped DEF TypeOK
<1>6. RequestsStay
  BY <1>2 DEF RequestsStay
<1>7. collector' \in [Collectors -> CollectorState] /\ Placed'
  BY <1>1, <1>2, <1>6, MovesToTyped DEF Late, TypeOK, CollectionTypeOK
<1>8. QED
  BY <1>2, <1>3, <1>5, <1>7 DEF CollectionKept, TypeOK, StoreTypeOK, CollectionTypeOK

LEMMA DataArrivesTyped ==
  ASSUME TypeOK, Placed, NEW c \in Collectors, DataArrives(c)
  PROVE  CollectionKept
<1>1. collector[c].pc = "fetching" /\ collector[c].stage = "release" /\ RequestsStay
  BY DEF DataArrives, Placed, Late, RequestsStay, storeVars
<1>2. collector' \in [Collectors -> CollectorState] /\ Placed'
  BY <1>1, MovesToTyped DEF DataArrives, Late, TypeOK, CollectionTypeOK
<1>3. QED
  BY <1>2 DEF DataArrives, storeVars, CollectionKept, TypeOK, StoreTypeOK, CollectionTypeOK

LEMMA KeepTyped ==
  ASSUME TypeOK, Placed, NEW c \in Collectors, collector[c].pc # "idle", Keep(c)
  PROVE  kept' \in [RequestIds -> [Days -> Nat]]
<1> DEFINE r == collector[c].id
           d == collector[c].at
<1>1. r \in RequestIds /\ d \in Days
  BY NamesARequest
<1> HIDE DEF r, d
<1>2. kept[r] \in [Days -> Nat] /\ kept[r][d] + 1 \in Nat
  BY <1>1 DEF TypeOK, CollectionTypeOK
<1>3. [kept[r] EXCEPT ![d] = kept[r][d] + 1] \in [Days -> Nat]
  BY <1>2
<1>4. kept' = [kept EXCEPT ![r][d] = kept[r][d] + 1]
  BY DEF Keep, r, d
<1>5. QED
  BY <1>1, <1>3, <1>4 DEF TypeOK, CollectionTypeOK

LEMMA ReleaseTyped ==
  ASSUME TypeOK, Placed, NEW c \in Collectors, collector[c].pc # "idle", Release(c)
  PROVE  spend' \in [Agents -> [Days -> Nat]]
  BY NamesARequest, SpendTyped DEF Release, TypeOK

\* The four steps that end a collection write the request and the audit log.
LEMMA OutcomeTyped ==
  ASSUME TypeOK, Placed, NEW c \in Collectors, collector[c].pc # "idle",
         NEW r, r = collector[c].id, NEW patched, NEW types \in SUBSET EventType,
         patched \in AccessRequest, updateRequest(r, patched),
         recordEvents({Event(type, "system", r) : type \in types})
  PROVE  /\ requests' \in [RequestIds -> AccessRequest \cup {NULL}] /\ RequestsStay
         /\ audit' \in SUBSET AuditEvent
<1>1. r \in RequestIds
  BY NamesARequest
<1>2. {Event(type, "system", r) : type \in types} \in SUBSET AuditEvent
  BY <1>1, EventTyped
<1>3. QED
  BY <1>1, <1>2, UpdateTyped, EventsTyped DEF TypeOK

LEMMA FetchFailsTyped ==
  ASSUME TypeOK, Placed, NEW c \in Collectors, FetchFails(c)
  PROVE  CollectionKept
<1> DEFINE r == collector[c].id
           patched == [requests[r] EXCEPT !.status = "failed"]
<1>1. collector[c].pc # "idle" /\ requests[r] \in AccessRequest
  BY NamesARequest DEF FetchFails
<1>2. patched \in AccessRequest
  BY <1>1, PatchTyped DEF RequestStatus
<1>3. /\ Release(c) /\ updateRequest(r, patched)
      /\ recordEvents({Event("request.failed", "system", r)})
      /\ LeaveRoute(r, "release") /\ Answered(c)
      /\ UNCHANGED <<agents, policies, idempotency, usedNonces, today, kept>>
  BY DEF FetchFails
<1> HIDE DEF patched, r
<1>4. {Event("request.failed", "system", r)}
        = {Event(type, "system", r) : type \in {"request.failed"}}
  OBVIOUS
<1>5. {"request.failed"} \in SUBSET EventType
  BY DEF EventType
<1>6. /\ requests' \in [RequestIds -> AccessRequest \cup {NULL}] /\ RequestsStay
      /\ audit' \in SUBSET AuditEvent
  BY <1>1, <1>2, <1>3, <1>4, <1>5, OutcomeTyped DEF r
<1>7. spend' \in [Agents -> [Days -> Nat]]
  BY <1>1, <1>3, ReleaseTyped
<1>8. collector' \in [Collectors -> CollectorState] /\ Placed'
  BY <1>3, <1>6, AnsweredTyped DEF TypeOK, CollectionTypeOK
<1>9. QED
  BY <1>3, <1>6, <1>7, <1>8
  DEF LeaveRoute, CollectionKept, TypeOK, StoreTypeOK, CollectionTypeOK

LEMMA DeliverTyped ==
  ASSUME TypeOK, Placed, NEW c \in Collectors, Deliver(c)
  PROVE  CollectionKept
<1> DEFINE r == collector[c].id
           payment == IF Live THEN "unsettled" ELSE "settled"
           patched == [requests[r] EXCEPT !.status = "fulfilled", !.payment = payment]
<1>1. /\ collector[c].pc = "analyzing" /\ collector[c].stage = "release"
      /\ collector[c].pc # "idle" /\ requests[r] \in AccessRequest
  BY NamesARequest DEF Deliver, Placed, Late
<1>2. patched \in AccessRequest
  <2>1. payment \in {"none", "unsettled", "settled"} /\ "fulfilled" \in RequestStatus
    BY DEF RequestStatus
  <2> HIDE DEF payment
  <2>2. QED
    BY <1>1, <2>1, PatchTyped
<1>3. PICK analysis \in {{}, {Event("analysis.completed", "system", r)}} :
        recordEvents({Event("data.retrieved", "system", r),
                      Event("request.fulfilled", "system", r)} \cup analysis)
  BY DEF Deliver
<1>4. /\ updateRequest(r, patched) /\ LeaveRoute(r, "release")
      /\ IF Live THEN MovesTo(c, "settling") /\ UNCHANGED kept ELSE Answered(c) /\ Keep(c)
      /\ UNCHANGED <<agents, policies, spend, idempotency, usedNonces, today>>
  BY DEF Deliver
<1> HIDE DEF patched, r
<1>5. PICK types \in SUBSET EventType :
        {Event("data.retrieved", "system", r), Event("request.fulfilled", "system", r)}
          \cup analysis = {Event(type, "system", r) : type \in types}
  <2>1. CASE analysis = {}
    <3>1. {"data.retrieved", "request.fulfilled"} \in SUBSET EventType
      BY DEF EventType
    <3>2. {Event("data.retrieved", "system", r), Event("request.fulfilled", "system", r)}
            \cup analysis
          = {Event(type, "system", r) : type \in {"data.retrieved", "request.fulfilled"}}
      BY <2>1
    <3>3. QED
      BY <3>1, <3>2
  <2>2. CASE analysis = {Event("analysis.completed", "system", r)}
    <3>1. {"data.retrieved", "request.fulfilled", "analysis.completed"} \in SUBSET EventType
      BY DEF EventType
    <3>2. {Event("data.retrieved", "system", r), Event("request.fulfilled", "system", r)}
            \cup analysis
          = {Event(type, "system", r) :
               type \in {"data.retrieved", "request.fulfilled", "analysis.completed"}}
      BY <2>2
    <3>3. QED
      BY <3>1, <3>2
  <2>3. QED
    BY <1>3, <2>1, <2>2
<1>6. /\ requests' \in [RequestIds -> AccessRequest \cup {NULL}] /\ RequestsStay
      /\ audit' \in SUBSET AuditEvent
  BY <1>1, <1>2, <1>3, <1>4, <1>5, OutcomeTyped DEF r
<1>7. /\ collector' \in [Collectors -> CollectorState] /\ Placed'
      /\ kept' \in [RequestIds -> [Days -> Nat]]
  <2>1. CASE Live
    BY <1>1, <1>4, <1>6, <2>1, MovesToTyped DEF Late, TypeOK, CollectionTypeOK
  <2>2. CASE ~Live
    BY <1>1, <1>4, <1>6, <2>2, AnsweredTyped, KeepTyped DEF TypeOK, CollectionTypeOK
  <2>3. QED
    BY <2>1, <2>2
<1>8. QED
  BY <1>4, <1>6, <1>7 DEF LeaveRoute, CollectionKept, TypeOK, StoreTypeOK, CollectionTypeOK

LEMMA SettledTyped ==
  ASSUME TypeOK, Placed, NEW c \in Collectors, Settled(c)
  PROVE  CollectionKept
<1> DEFINE r == collector[c].id
           patched == [requests[r] EXCEPT !.payment = "settled"]
<1>1. collector[c].pc # "idle" /\ requests[r] \in AccessRequest
  BY NamesARequest DEF Settled
<1>2. patched \in AccessRequest
  BY <1>1, PatchTyped
<1>3. /\ updateRequest(r, patched) /\ recordEvents({Event("payment.verified", "system", r)})
      /\ Keep(c) /\ Answered(c)
      /\ UNCHANGED <<agents, policies, spend, idempotency, usedNonces, today, inFlight>>
  BY DEF Settled
<1> HIDE DEF patched, r
<1>4. {Event("payment.verified", "system", r)}
        = {Event(type, "system", r) : type \in {"payment.verified"}}
  OBVIOUS
<1>5. {"payment.verified"} \in SUBSET EventType
  BY DEF EventType
<1>6. /\ requests' \in [RequestIds -> AccessRequest \cup {NULL}] /\ RequestsStay
      /\ audit' \in SUBSET AuditEvent
  BY <1>1, <1>2, <1>3, <1>4, <1>5, OutcomeTyped DEF r
<1>7. kept' \in [RequestIds -> [Days -> Nat]]
  BY <1>1, <1>3, KeepTyped
<1>8. collector' \in [Collectors -> CollectorState] /\ Placed'
  BY <1>3, <1>6, AnsweredTyped DEF TypeOK, CollectionTypeOK
<1>9. QED
  BY <1>3, <1>6, <1>7, <1>8 DEF CollectionKept, TypeOK, StoreTypeOK, CollectionTypeOK

LEMMA NotSettledTyped ==
  ASSUME TypeOK, Placed, NEW c \in Collectors, NotSettled(c)
  PROVE  CollectionKept
<1> DEFINE r == collector[c].id
           patched == [requests[r] EXCEPT !.status = "failed", !.payment = "none"]
<1>1. collector[c].pc # "idle" /\ requests[r] \in AccessRequest
  BY NamesARequest DEF NotSettled
<1>2. patched \in AccessRequest
  BY <1>1, PatchTyped DEF RequestStatus
<1>3. /\ Release(c) /\ updateRequest(r, patched)
      /\ recordEvents({Event("payment.rejected", "system", r)}) /\ Answered(c)
      /\ UNCHANGED <<agents, policies, idempotency, usedNonces, today, inFlight, kept>>
  BY DEF NotSettled
<1> HIDE DEF patched, r
<1>4. {Event("payment.rejected", "system", r)}
        = {Event(type, "system", r) : type \in {"payment.rejected"}}
  OBVIOUS
<1>5. {"payment.rejected"} \in SUBSET EventType
  BY DEF EventType
<1>6. /\ requests' \in [RequestIds -> AccessRequest \cup {NULL}] /\ RequestsStay
      /\ audit' \in SUBSET AuditEvent
  BY <1>1, <1>2, <1>3, <1>4, <1>5, OutcomeTyped DEF r
<1>7. spend' \in [Agents -> [Days -> Nat]]
  BY <1>1, <1>3, ReleaseTyped
<1>8. collector' \in [Collectors -> CollectorState] /\ Placed'
  BY <1>3, <1>6, AnsweredTyped DEF TypeOK, CollectionTypeOK
<1>9. QED
  BY <1>3, <1>6, <1>7, <1>8 DEF CollectionKept, TypeOK, StoreTypeOK, CollectionTypeOK

LEMMA DisconnectTyped ==
  ASSUME TypeOK, Placed, NEW c \in Collectors, Disconnect(c)
  PROVE  CollectionKept
<1>1. /\ collector[c].pc # "idle" /\ (Keep(c) \/ UNCHANGED kept)
      /\ Answered(c) /\ UNCHANGED <<storeVars, today, inFlight>>
  BY DEF Disconnect
<1>2. RequestsStay
  BY <1>1 DEF RequestsStay, storeVars
<1>3. kept' \in [RequestIds -> [Days -> Nat]]
  BY <1>1, KeepTyped DEF Disconnect, TypeOK, CollectionTypeOK
<1>4. collector' \in [Collectors -> CollectorState] /\ Placed'
  BY <1>1, <1>2, AnsweredTyped DEF TypeOK, CollectionTypeOK
<1>5. QED
  BY <1>1, <1>3, <1>4 DEF storeVars, CollectionKept, TypeOK, StoreTypeOK, CollectionTypeOK

LEMMA CollectionStepTyped ==
  ASSUME TypeOK, Placed, NEW c \in Collectors, CollectionStep(c)
  PROVE  CollectionKept
  BY ReachGateTyped, CollectTyped, VerifiedTyped, ReadChainTyped, CheckTyped, ReserveTyped,
     DataArrivesTyped, FetchFailsTyped, DeliverTyped, SettledTyped, NotSettledTyped,
     DisconnectTyped
  DEF CollectionStep, Progress
-----------------------------------------------------------------------------
(* A human action's steps *)

HumanKept == StoreTypeOK' /\ HumanTypeOK' /\ RequestsStay

LEMMA PendingTyped ==
  ASSUME HumanTypeOK, NEW h \in Humans, pending[h] # NULL
  PROVE  /\ pending[h] \in Envelopes /\ pending[h].sig \in Signatures \cup {NULL}
         /\ pending[h].action \in {"approve-request", "reject-request"} =>
              pending[h].subject \in RequestIds
         /\ pending[h].action \notin {"approve-request", "reject-request"} =>
              pending[h].subject \in Agents
         /\ pending[h].action \in {"create-agent", "set-policy"} =>
              pending[h].policy \in Capability
<1>1. pending[h] \in Envelopes
  BY DEF HumanTypeOK
<1>2. /\ pending[h].sig \in Signatures \cup {NULL} /\ pending[h].action \in HumanAction
      /\ pending[h].policy \in Capability \cup {NULL}
  BY <1>1, HumanAssumption DEF Envelope
<1>3. /\ pending[h].subject \in
           IF pending[h].action \in {"approve-request", "reject-request"}
           THEN RequestIds ELSE Agents
      /\ pending[h].policy # NULL <=> pending[h].action \in {"create-agent", "set-policy"}
  BY <1>1, HumanAssumption, Zenon
<1>4. QED
  BY <1>1, <1>2, <1>3

LEMMA ClosesTyped ==
  ASSUME HumanTypeOK, NEW h \in Humans, Closes(h)
  PROVE  pending' \in [Humans -> Envelopes \cup {NULL}]
  BY DEF HumanTypeOK, Closes

LEMMA AuthorizeTyped ==
  ASSUME StoreTypeOK, HumanTypeOK, NEW h \in Humans, pending[h] # NULL, Authorize(pending[h])
  PROVE  usedNonces' \in SUBSET Signatures /\ acted' \in [Signatures -> Nat]
<1>1. CASE pending[h].sig = NULL
  BY <1>1 DEF Authorize, StoreTypeOK, HumanTypeOK
<1>2. CASE pending[h].sig # NULL
  <2>1. pending[h].sig \in Signatures
    BY <1>2, PendingTyped
  <2>2. QED
    BY <1>2, <2>1 DEF Authorize, consumeNonce, StoreTypeOK, HumanTypeOK
<1>3. QED
  BY <1>1, <1>2

LEMMA ReceiveTyped ==
  ASSUME TypeOK, NEW h \in Humans, NEW e \in Envelopes, Receive(h, e)
  PROVE  HumanKept
  BY DEF Receive, HumanKept, TypeOK, StoreTypeOK, HumanTypeOK, RequestsStay, storeVars

LEMMA RefuseTyped ==
  ASSUME TypeOK, NEW h \in Humans, Refuse(h)
  PROVE  HumanKept
  BY DEF Refuse, HumanKept, TypeOK, StoreTypeOK, HumanTypeOK, RequestsStay, storeVars

LEMMA DecideTyped ==
  ASSUME TypeOK, NEW h \in Humans, Decide(h)
  PROVE  HumanKept
<1> DEFINE r == pending[h].subject
           approval == IF pending[h].action = "approve-request" THEN "approved" ELSE "rejected"
           status == IF pending[h].action = "approve-request" THEN "payment_required"
                     ELSE "rejected"
           type == IF pending[h].action = "approve-request" THEN "request.approved"
                   ELSE "request.rejected"
           patched == [requests[r] EXCEPT !.approval = approval, !.status = status]
<1>1. pending[h] # NULL /\ r \in RequestIds /\ HumanTypeOK /\ StoreTypeOK
  BY PendingTyped DEF Decide, TypeOK
<1>2. /\ Authorize(pending[h]) /\ updateRequest(r, patched)
      /\ recordEvents({Event(type, "human", r)}) /\ Closes(h)
      /\ UNCHANGED <<agents, policies, spend, idempotency, today>>
  BY DEF Decide
<1>3. /\ approval \in {"none", "approved", "rejected"} /\ status \in RequestStatus
      /\ type \in EventType
  BY DEF RequestStatus, EventType
<1> HIDE DEF approval, status, type, r
<1>4. requests[r] # NULL => patched \in AccessRequest
  BY <1>1, <1>3, PatchTyped DEF StoreTypeOK
<1> HIDE DEF patched
<1>5. requests' \in [RequestIds -> AccessRequest \cup {NULL}] /\ RequestsStay
  BY <1>1, <1>2, <1>4, UpdateTyped
<1>6. {Event(type, "human", r)} \in SUBSET AuditEvent
  BY <1>1, <1>3, EventTyped
<1>7. audit' \in SUBSET AuditEvent
  BY <1>1, <1>2, <1>6, EventsTyped
<1>8. /\ usedNonces' \in SUBSET Signatures /\ acted' \in [Signatures -> Nat]
      /\ pending' \in [Humans -> Envelopes \cup {NULL}]
  BY <1>1, <1>2, AuthorizeTyped, ClosesTyped
<1>9. QED
  BY <1>1, <1>2, <1>5, <1>7, <1>8 DEF HumanKept, StoreTypeOK, HumanTypeOK

\* The three actions about a passport write it, its capability and one event.
LEMMA PassportActionTyped ==
  ASSUME TypeOK, NEW h \in Humans, pending[h] # NULL, pending[h].subject \in Agents,
         NEW type \in EventType, Authorize(pending[h]), Closes(h),
         recordEvents({Event(type, "human", pending[h].subject)}),
         UNCHANGED <<requests, spend, idempotency, today>>,
         agents' \in [Agents -> Passport \cup {NULL}],
         policies' \in [Agents -> Capability \cup {NULL}]
  PROVE  HumanKept
<1>1. HumanTypeOK /\ StoreTypeOK
  BY DEF TypeOK
<1>2. {Event(type, "human", pending[h].subject)} \in SUBSET AuditEvent
  BY EventTyped
<1>3. audit' \in SUBSET AuditEvent
  BY <1>1, <1>2, EventsTyped
<1>4. /\ usedNonces' \in SUBSET Signatures /\ acted' \in [Signatures -> Nat]
      /\ pending' \in [Humans -> Envelopes \cup {NULL}]
  BY <1>1, AuthorizeTyped, ClosesTyped
<1>5. QED
  BY <1>1, <1>3, <1>4 DEF HumanKept, StoreTypeOK, HumanTypeOK, RequestsStay

LEMMA CreateAgentTyped ==
  ASSUME TypeOK, NEW h \in Humans, CreateAgent(h)
  PROVE  HumanKept
<1>1. /\ pending[h] # NULL /\ pending[h].subject \in Agents
      /\ pending[h].policy \in Capability /\ StoreTypeOK
  BY PendingTyped DEF CreateAgent, TypeOK
<1>2. LocalPassport(pending[h].policy) \in Passport
  BY <1>1 DEF LocalPassport, Passport, AgentStatus, Capability
<1>3. /\ agents' \in [Agents -> Passport \cup {NULL}]
      /\ policies' \in [Agents -> Capability \cup {NULL}]
  BY <1>1, <1>2 DEF CreateAgent, putAgent, putPolicy, StoreTypeOK
<1>4. "agent.created" \in EventType
  BY DEF EventType
<1>5. QED
  BY <1>1, <1>3, <1>4, PassportActionTyped DEF CreateAgent

LEMMA SetPolicyTyped ==
  ASSUME TypeOK, NEW h \in Humans, SetPolicy(h)
  PROVE  HumanKept
<1>1. /\ pending[h] # NULL /\ pending[h].subject \in Agents
      /\ pending[h].policy \in Capability /\ StoreTypeOK
  BY PendingTyped DEF SetPolicy, TypeOK
<1>2. /\ agents' \in [Agents -> Passport \cup {NULL}]
      /\ policies' \in [Agents -> Capability \cup {NULL}]
  BY <1>1 DEF SetPolicy, putPolicy, StoreTypeOK
<1>3. "policy.updated" \in EventType
  BY DEF EventType
<1>4. QED
  BY <1>1, <1>2, <1>3, PassportActionTyped DEF SetPolicy

LEMMA RevokeTyped ==
  ASSUME TypeOK, NEW h \in Humans, Revoke(h)
  PROVE  HumanKept
<1> DEFINE a == pending[h].subject
<1>1. pending[h] # NULL /\ a \in Agents /\ StoreTypeOK
  BY PendingTyped DEF Revoke, TypeOK
<1>2. agents[a] # NULL => [agents[a] EXCEPT !.status = "revoked"] \in Passport
  BY <1>1 DEF StoreTypeOK, Passport, AgentStatus
<1>3. /\ agents' \in [Agents -> Passport \cup {NULL}]
      /\ policies' \in [Agents -> Capability \cup {NULL}]
  BY <1>1, <1>2 DEF Revoke, revokeAgent, StoreTypeOK
<1>4. "agent.revoked" \in EventType
  BY DEF EventType
<1>5. QED
  BY <1>1, <1>3, <1>4, PassportActionTyped DEF Revoke

LEMMA HumanStepTyped ==
  ASSUME TypeOK, NEW h \in Humans, HumanStep(h)
  PROVE  HumanKept
  BY ReceiveTyped, RefuseTyped, DecideTyped, CreateAgentTyped, SetPolicyTyped, RevokeTyped
  DEF HumanStep, HumanProgress
-----------------------------------------------------------------------------
(* A submission's steps *)

\* A submission that is not idle knows whom it is for.
Asking == \A s \in Submitters : submitter[s].pc # "idle" => submitter[s].agent \in Agents

SubmissionKept == StoreTypeOK' /\ SubmissionTypeOK' /\ Asking' /\ RequestsStay

LEMMA SubmitterTyped ==
  ASSUME SubmissionTypeOK, Asking, NEW s \in Submitters, NEW x \in SubmitterState,
         x.pc # "idle" => x.agent \in Agents, submitter' = [submitter EXCEPT ![s] = x]
  PROVE  submitter' \in [Submitters -> SubmitterState] /\ Asking'
<1>1. submitter' \in [Submitters -> SubmitterState]
  BY DEF SubmissionTypeOK
<1>2. ASSUME NEW t \in Submitters, submitter'[t].pc # "idle"
      PROVE  submitter'[t].agent \in Agents
  <2>1. CASE t = s
    BY <1>2, <2>1 DEF SubmissionTypeOK
  <2>2. CASE t # s
    BY <1>2, <2>2 DEF SubmissionTypeOK, Asking
  <2>3. QED
    BY <2>1, <2>2
<1>3. QED
  BY <1>1, <1>2 DEF Asking

LEMMA SubmitTyped ==
  ASSUME TypeOK, Asking, NEW s \in Submitters, NEW a \in Agents, NEW k \in Keys \cup {NULL},
         Submit(s, a, k)
  PROVE  SubmissionKept
<1> DEFINE x == [pc |-> AfterCall, agent |-> a, key |-> k, at |-> today, who |-> AnswerAtCall(a)]
<1>1. AnswerAtCall(a) \in Resolution /\ today \in Days
  BY AnswerTyped DEF TypeOK, StoreTypeOK
<1>2. AfterCall \in {"resolving", "resolved"}
  BY DEF AfterCall
<1>3. x \in SubmitterState /\ x.agent \in Agents
  BY <1>1, <1>2 DEF SubmitterState
<1>4. /\ submitter' = [submitter EXCEPT ![s] = x]
      /\ UNCHANGED <<storeVars, today, keyOf>>
  BY DEF Submit
<1> HIDE DEF x
<1>5. submitter' \in [Submitters -> SubmitterState] /\ Asking'
  BY <1>3, <1>4, SubmitterTyped DEF TypeOK
<1>6. QED
  BY <1>4, <1>5
  DEF SubmissionKept, TypeOK, StoreTypeOK, SubmissionTypeOK, RequestsStay, storeVars

LEMMA ReadChainForSubmissionTyped ==
  ASSUME TypeOK, Asking, NEW s \in Submitters, ReadChainForSubmission(s)
  PROVE  SubmissionKept
<1>1. submitter[s] \in SubmitterState /\ submitter[s].agent \in Agents
  BY DEF TypeOK, SubmissionTypeOK, Asking, ReadChainForSubmission
<1>2. PICK answer \in ChainAnswers(submitter[s].agent) :
        submitter' = [submitter EXCEPT ![s].pc = "resolved", ![s].who = answer]
  BY DEF ReadChainForSubmission
<1>3. answer \in Resolution \cup {DOWN}
  BY <1>1, <1>2, AnswerTyped DEF TypeOK
<1> DEFINE x == [submitter[s] EXCEPT !.pc = "resolved", !.who = answer]
<1>4. x \in SubmitterState /\ x.agent \in Agents
  BY <1>1, <1>3 DEF SubmitterState
<1>5. submitter' = [submitter EXCEPT ![s] = x]
  BY <1>2 DEF TypeOK, SubmissionTypeOK
<1> HIDE DEF x
<1>6. submitter' \in [Submitters -> SubmitterState] /\ Asking'
  BY <1>4, <1>5, SubmitterTyped DEF TypeOK
<1>7. QED
  BY <1>6 DEF ReadChainForSubmission, SubmissionKept, TypeOK, StoreTypeOK, SubmissionTypeOK,
              RequestsStay, storeVars

LEMMA InterpretTyped ==
  ASSUME TypeOK, Asking, NEW s \in Submitters, Interpret(s)
  PROVE  SubmissionKept
<1> DEFINE a == submitter[s].agent
           who == Resolve(a, submitter[s].who)
           x == [submitter[s] EXCEPT !.pc = "interpreting", !.who = who]
<1>1. /\ submitter[s] \in SubmitterState /\ a \in Agents
      /\ submitter[s].who \in Resolution \cup {DOWN}
  BY DEF TypeOK, SubmissionTypeOK, Asking, Interpret, SubmitterState
<1>2. /\ KeepDisplayCopy(a, submitter[s].who)
      /\ submitter' = [submitter EXCEPT ![s].pc = "interpreting", ![s].who = who]
      /\ UNCHANGED <<requests, spend, idempotency, usedNonces, audit, today, keyOf>>
  BY DEF Interpret
<1>3. who \in Resolution \cup {DOWN}
  BY <1>1, ResolveTyped DEF TypeOK
<1>4. /\ agents' \in [Agents -> Passport \cup {NULL}]
      /\ policies' \in [Agents -> Capability \cup {NULL}]
  BY <1>1, <1>2, DisplayCopyTyped DEF TypeOK
<1>5. submitter' = [submitter EXCEPT ![s] = x]
  BY <1>2 DEF TypeOK, SubmissionTypeOK
<1> HIDE DEF who
<1>6. x \in SubmitterState /\ x.agent \in Agents
  BY <1>1, <1>3 DEF SubmitterState
<1> HIDE DEF x
<1>7. submitter' \in [Submitters -> SubmitterState] /\ Asking'
  BY <1>5, <1>6, SubmitterTyped DEF TypeOK
<1>8. QED
  BY <1>2, <1>4, <1>7 DEF SubmissionKept, TypeOK, StoreTypeOK, SubmissionTypeOK, RequestsStay

LEMMA SubmissionEventsTyped ==
  ASSUME NEW r \in RequestIds, NEW status
  PROVE  SubmissionEvents(r, status) \in SUBSET AuditEvent
<1>1. /\ Event("request.received", "agent", r) \in AuditEvent
      /\ Event("request.evaluated", "system", r) \in AuditEvent
      /\ Event("request.approval_requested", "system", r) \in AuditEvent
      /\ Event("request.rejected", "system", r) \in AuditEvent
  BY EventTyped DEF EventType
<1>2. QED
  BY <1>1 DEF SubmissionEvents

LEMMA PlaceholderTyped == PlaceholderQuery \in ResourceQuery
  BY DEF PlaceholderQuery, ResourceQuery, ResourceKind

LEMMA RecordTyped ==
  ASSUME TypeOK, Asking, NEW s \in Submitters, Record(s)
  PROVE  SubmissionKept
<1> DEFINE me == submitter[s]
           Status(query) == StatusFor(evaluatePolicy(
             [agent |-> me.who.agent, policy |-> me.who.policy, query |-> query,
              spentTodayMicros |-> spend[me.agent][me.at], now |-> me.at]))
           Stored(query) == IF query = NULL THEN PlaceholderQuery ELSE query
<1>1. me \in SubmitterState /\ me.agent \in Agents /\ me.key \in Keys \cup {NULL}
  BY DEF TypeOK, SubmissionTypeOK, Asking, Record, SubmitterState
<1>2. PICK r \in {id \in RequestIds : requests[id] = NULL}, query \in Queries \cup {NULL} :
        /\ putRequest(r, [agent |-> me.agent, query |-> Stored(query),
                          status |-> Status(query), approval |-> "none",
                          payment |-> "none", lastRefusal |-> "none"])
        /\ rememberIdempotent(me.key, r)
        /\ recordEvents(SubmissionEvents(r, Status(query)))
        /\ keyOf' = [keyOf EXCEPT ![r] = me.key]
  BY Zenon DEF Record
<1>3. /\ submitter' = [submitter EXCEPT ![s] = NoSubmission]
      /\ UNCHANGED <<agents, policies, spend, usedNonces, today>>
  BY DEF Record
<1>4. Stored(query) \in ResourceQuery
  BY <1>2, PlaceholderTyped, SubmissionAssumption
<1>5. Status(query) \in RequestStatus
  BY DEF StatusFor, RequestStatus
<1> HIDE DEF Stored, Status
<1> DEFINE request == [agent |-> me.agent, query |-> Stored(query),
                       status |-> Status(query), approval |-> "none",
                       payment |-> "none", lastRefusal |-> "none"]
<1>6. request \in AccessRequest
  BY <1>1, <1>4, <1>5 DEF AccessRequest
<1>7. putRequest(r, request)
  BY <1>2
<1> HIDE DEF request
<1>8. requests' \in [RequestIds -> AccessRequest \cup {NULL}] /\ RequestsStay
  BY <1>2, <1>6, <1>7 DEF putRequest, TypeOK, StoreTypeOK, RequestsStay
<1>9. idempotency' \in [Keys -> RequestIds \cup {NULL}]
  BY <1>1, <1>2 DEF rememberIdempotent, TypeOK, StoreTypeOK
<1>10. audit' \in SUBSET AuditEvent
  <2>1. SubmissionEvents(r, Status(query)) \in SUBSET AuditEvent
    BY <1>2, SubmissionEventsTyped
  <2>2. QED
    BY <1>2, <2>1, EventsTyped DEF TypeOK
<1>11. keyOf' \in [RequestIds -> Keys \cup {NULL}]
  BY <1>1, <1>2 DEF TypeOK, SubmissionTypeOK
<1>12. submitter' \in [Submitters -> SubmitterState] /\ Asking'
  <2>1. NoSubmission \in SubmitterState /\ NoSubmission.pc = "idle"
    BY DayZero, NothingResolved DEF NoSubmission, SubmitterState
  <2>2. QED
    BY <1>3, <2>1, SubmitterTyped DEF TypeOK
<1>13. QED
  BY <1>3, <1>8, <1>9, <1>10, <1>11, <1>12
  DEF SubmissionKept, TypeOK, StoreTypeOK, SubmissionTypeOK

LEMMA SubmissionStepTyped ==
  ASSUME TypeOK, Asking, NEW s \in Submitters, SubmissionStep(s)
  PROVE  SubmissionKept
  BY SubmitTyped, ReadChainForSubmissionTyped, InterpretTyped, RecordTyped
  DEF SubmissionStep, SubmissionProgress
-----------------------------------------------------------------------------
(* The gateway *)

\* What stays true of the exchanges when nothing but the store changes, and
\* no request is forgotten.
LEMMA PlacedKept ==
  ASSUME Placed, RequestsStay, UNCHANGED collector
  PROVE  Placed'
  BY DEF Placed, RequestsStay

Typed == TypeOK /\ Placed /\ Asking

LEMMA InitTyped == Init => Typed
<1> SUFFICES ASSUME Init PROVE Typed
  OBVIOUS
<1> USE DEF Init
<1>1. StoreTypeOK
  <2>1. [status |-> "active", expiresAt |-> NULL, source |-> "local"] \in Passport
    BY DEF Passport, AgentStatus
  <2>2. QED
    BY <2>1, StoreAssumption, DayZero DEF StoreInit, StoreTypeOK
<1>2. ChainTypeOK
  BY IdentityAssumption DEF ChainInit, ChainTypeOK
<1>3. CollectionTypeOK /\ Placed
  <2>1. Idle.pc = "idle"
    BY DEF Idle
  <2>2. QED
    BY <2>1, IdleTyped DEF CollectionInit, CollectionTypeOK, Placed, Late
<1>4. HumanTypeOK
  BY DEF HumanInit, HumanTypeOK
<1>5. SubmissionTypeOK /\ Asking
  <2>1. NoSubmission \in SubmitterState /\ NoSubmission.pc = "idle"
    BY DayZero, NothingResolved DEF NoSubmission, SubmitterState
  <2>2. QED
    BY <2>1 DEF SubmissionInit, SubmissionTypeOK, Asking
<1>6. QED
  BY <1>1, <1>2, <1>3, <1>4, <1>5 DEF Typed, TypeOK

LEMMA CollectingTyped ==
  ASSUME Typed, NEW c \in Collectors, Collecting(c)
  PROVE  Typed'
<1>1. CollectionKept
  BY CollectionStepTyped DEF Typed, Collecting
<1>2. UNCHANGED <<chain, pending, acted, submitter, keyOf>>
  BY DEF Collecting, humanVars, submissionVars
<1>3. QED
  BY <1>1, <1>2
  DEF CollectionKept, Typed, TypeOK, ChainTypeOK, HumanTypeOK, SubmissionTypeOK, Asking

LEMMA ActingTyped ==
  ASSUME Typed, NEW h \in Humans, Acting(h)
  PROVE  Typed'
<1>1. HumanKept
  BY HumanStepTyped DEF Typed, Acting
<1>2. UNCHANGED <<chain, collector, inFlight, kept, submitter, keyOf>>
  BY DEF Acting, collectionVars, submissionVars
<1>3. Placed'
  BY <1>1, <1>2, PlacedKept DEF Typed, HumanKept
<1>4. QED
  BY <1>1, <1>2, <1>3
  DEF HumanKept, Typed, TypeOK, ChainTypeOK, CollectionTypeOK, SubmissionTypeOK, Asking

LEMMA SubmittingTyped ==
  ASSUME Typed, NEW s \in Submitters, Submitting(s)
  PROVE  Typed'
<1>1. SubmissionKept
  BY SubmissionStepTyped DEF Typed, Submitting
<1>2. UNCHANGED <<chain, collector, inFlight, kept, pending, acted>>
  BY DEF Submitting, collectionVars, humanVars
<1>3. Placed'
  BY <1>1, <1>2, PlacedKept DEF Typed, SubmissionKept
<1>4. QED
  BY <1>1, <1>2, <1>3
  DEF SubmissionKept, Typed, TypeOK, ChainTypeOK, CollectionTypeOK, HumanTypeOK

LEMMA OwnerActsTyped ==
  ASSUME Typed, NEW a \in Agents, OwnerActs(a)
  PROVE  Typed'
<1>1. chain' \in [Agents -> ChainRecords]
  BY DEF OwnerActs, OwnerWrites, Typed, TypeOK, ChainTypeOK
<1>2. UNCHANGED <<storeVars, today, collectionVars, humanVars, submissionVars>>
  BY DEF OwnerActs
<1>3. QED
  BY <1>1, <1>2
  DEF Typed, TypeOK, StoreTypeOK, ChainTypeOK, CollectionTypeOK, HumanTypeOK,
      SubmissionTypeOK, Placed, Asking, storeVars, collectionVars, humanVars, submissionVars

LEMMA MidnightTyped ==
  ASSUME Typed, Midnight
  PROVE  Typed'
<1>1. today' \in Days
  BY StoreAssumption DEF Midnight, Tick, Typed, TypeOK, StoreTypeOK, Days
<1>2. UNCHANGED <<storeVars, chain, collectionVars, humanVars, submissionVars>>
  BY DEF Midnight, Tick
<1>3. QED
  BY <1>1, <1>2
  DEF Typed, TypeOK, StoreTypeOK, ChainTypeOK, CollectionTypeOK, HumanTypeOK,
      SubmissionTypeOK, Placed, Asking, storeVars, collectionVars, humanVars, submissionVars

LEMMA NextTyped ==
  ASSUME Typed, [Next]_vars
  PROVE  Typed'
<1>1. CASE UNCHANGED vars
  BY <1>1
  DEF Typed, TypeOK, StoreTypeOK, ChainTypeOK, CollectionTypeOK, HumanTypeOK, SubmissionTypeOK,
      Placed, Asking, vars, storeVars, collectionVars, humanVars, submissionVars
<1>2. CASE Next
  BY <1>2, CollectingTyped, ActingTyped, SubmittingTyped, OwnerActsTyped, MidnightTyped DEF Next
<1>3. QED
  BY <1>1, <1>2

\* Every exchange, request, table and counter keeps its shape, and every
\* exchange that is under way names a stored request.
THEOREM GatewayTyped == Spec => []Typed
<1>1. Typed /\ [Next]_vars => Typed'
  BY NextTyped
<1>2. QED
  BY InitTyped, <1>1, PTL DEF Spec

\* The type invariant of the gateway (store.ts, data.ts, app.ts).
THEOREM TypeCorrect == Spec => []TypeOK
<1>1. Typed => TypeOK
  BY DEF Typed
<1>2. QED
  BY GatewayTyped, <1>1, PTL
=============================================================================
