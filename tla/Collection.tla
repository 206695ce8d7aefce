------------------------------ MODULE Collection ----------------------------
(***************************************************************************)
(* Collecting a request: the paid route GET /data/:requestId               *)
(* (apps/api/src/routes/data.ts) and, in live mode, the x402 gate in front *)
(* of it (apps/api/src/payment/x402.ts).                                   *)
(*                                                                         *)
(* A collector is one HTTP exchange.  It runs from one await to the next;  *)
(* between two of its steps any other handler may run:                     *)
(*                                                                         *)
(*   idle -> resolving -> resolved -> checked -> fetching -> analyzing     *)
(*                                                           -> settling   *)
(*                                                                         *)
(* In live mode the first two states are passed three times, at the stages *)
(* "gate" (onProtectedRequest), "price" and, once the payment is verified, *)
(* "release" (the handler's own check); in simulated mode only "release".  *)
(***************************************************************************)
EXTENDS Identity

CONSTANTS
  Collectors,     \* the exchanges that may be open at once
  Live,           \* payments are verified and settled by a facilitator
  SharedTurn,     \* see Turn
  MayDisconnect,  \* a client may leave before its answer is written
  ClockMayTurn    \* midnight may fall between the handler's two clock reads

ASSUME CollectionAssumption ==
  {Live, SharedTurn, MayDisconnect, ClockMayTurn} \subseteq BOOLEAN

VARIABLES
  collector,   \* where each exchange is, and what it holds on to
  inFlight,    \* requests being collected
  kept         \* history: fares not given back, per request and day

collectionVars == <<collector, inFlight, kept>>

Stage == {"gate", "price", "release"}

\* at: collect's clock read; checkAt: reevaluate's own.  approval: as read
\* before the await.  who: the identity, first as read, then as resolved.
\* revokedOnEntry is history: the passport was already revoked at the source
\* when this check began.
Idle == [pc |-> "idle", stage |-> "release", id |-> NULL, at |-> 0, checkAt |-> 0,
         approval |-> "none", who |-> NoPassport, fare |-> 0, revokedOnEntry |-> FALSE]

CollectorState ==
  [pc : {"idle", "resolving", "resolved", "verifying", "checked", "fetching",
         "analyzing", "settling"},
   stage : Stage, id : RequestIds \cup {NULL}, at : Days, checkAt : Days,
   approval : {"none", "approved", "rejected"}, who : Resolution \cup {DOWN},
   fare : Nat, revokedOnEntry : BOOLEAN]

CollectionInit ==
  /\ collector = [c \in Collectors |-> Idle]
  /\ inFlight = {}
  /\ kept = [r \in RequestIds |-> [d \in Days |-> 0]]

CollectionTypeOK ==
  /\ collector \in [Collectors -> CollectorState]
  /\ inFlight \in SUBSET RequestIds
  /\ kept \in [RequestIds -> [Days -> Nat]]

\* Fault: a handler waits for I/O before it acts on its check.
NeverMidTurn(c) == FALSE

\* An exchange whose next step follows from its last by promises alone: collect
\* is about to resume from reevaluate, or reevaluate from an answer that the
\* store gave at once.
MidTurn(c) == collector[c].pc = "checked" \/ (~Ens /\ collector[c].pc = "resolved")

\* Nothing else runs before c while another exchange is in the middle of a turn
\* of the event loop, unless turns are shared: two requests parsed from one
\* read of a connection, in simulated mode, whose promises alternate.
Turn(c) == SharedTurn \/ \A d \in Collectors \ {c} : ~MidTurn(d)

\* No exchange is in the middle of a turn: any callback of the loop may run.
Quiet == SharedTurn \/ \A c \in Collectors : ~MidTurn(c)

Answered(c) == collector' = [collector EXCEPT ![c] = Idle]
MovesTo(c, pc) == collector' = [collector EXCEPT ![c].pc = pc]
-----------------------------------------------------------------------------
(* reevaluate *)

\* Fault: a fulfilled request passes.
EvaluableAgain(r) ==
  requests[r] # NULL /\ requests[r].status \notin {"rejected", "awaiting_approval"}

\* The synchronous prefix: statuses that are refused without resolving.
Evaluable(r) ==
  requests[r] # NULL /\ requests[r].status \notin {"fulfilled", "rejected", "awaiting_approval"}

\* The call to identity.resolve that ends the prefix.
BeginCheck(c, r, stage, at, checkAt) ==
  LET a == requests[r].agent IN
  collector' = [collector EXCEPT ![c] =
    [Idle EXCEPT !.pc = AfterCall, !.stage = stage, !.id = r, !.at = at, !.checkAt = checkAt,
                 !.approval = requests[r].approval, !.who = AnswerAtCall(a),
                 !.revokedOnEntry = RevokedAtTheSource(a)]]

\* What a refused check leaves behind; the price callback only throws.
RecordRefusal(r, stage) ==
  IF stage = "price" THEN UNCHANGED <<requests, audit>>
  ELSE /\ updateRequest(r, [requests[r] EXCEPT !.lastRefusal =
                              IF stage = "gate" THEN "pre-payment" ELSE "data-release"])
       /\ recordEvents({Event("payment.rejected", "system", r)})

\* Fault: the route does not forget the request.
StayInRoute(r, stage) == inFlight' = inFlight

\* The route forgets the request whichever way its handler ends.
LeaveRoute(r, stage) == inFlight' = IF stage = "release" THEN inFlight \ {r} ELSE inFlight

CheckInput(c, who) ==
  LET r == collector[c].id
      a == requests[r].agent IN
  [agent |-> who.agent, policy |-> who.policy, query |-> requests[r].query,
   spentTodayMicros |-> spend[a][collector[c].checkAt], now |-> collector[c].checkAt]

\* Fault: the approval is not asked for.
CheckPassesUnapproved(c, who) == evaluatePolicy(CheckInput(c, who)).allowed

\* The policy allows it, and a human approved it when one had to.
CheckPasses(c, who) ==
  LET decision == evaluatePolicy(CheckInput(c, who)) IN
  /\ decision.allowed
  /\ decision.requiresHumanApproval => collector[c].approval = "approved"
-----------------------------------------------------------------------------
(* The x402 gate, live mode only *)

\* onProtectedRequest, up to the resolution of its check.
ReachGate(c, r) ==
  /\ Quiet /\ Live
  /\ collector[c].pc = "idle"
  /\ IF Evaluable(r)
     THEN /\ BeginCheck(c, r, "gate", today, today)
          /\ UNCHANGED <<requests, audit>>
     ELSE RecordRefusal(r, "gate") /\ UNCHANGED collector
  /\ UNCHANGED <<agents, policies, spend, idempotency, usedNonces, today, inFlight, kept>>

\* The gate lets the request through; the price callback starts its own
\* check in the same turn and throws when the status has changed meanwhile.
PassGate(c) ==
  LET r == collector[c].id IN
  /\ IF Evaluable(r) THEN BeginCheck(c, r, "price", today, today) ELSE Answered(c)
  /\ recordEvents({Event("payment.required", "system", r)})
  /\ UNCHANGED <<requests, inFlight>>

\* The price is quoted.  Without a payment the answer is 402; with one, the
\* facilitator is asked to verify it.
Quote(c) ==
  /\ Answered(c) \/ MovesTo(c, "verifying")
  /\ UNCHANGED <<requests, audit, inFlight>>
-----------------------------------------------------------------------------
(* The route *)

\* Fault: the route does not look whether the request is being collected.
EnterRouteTwice(c, r) ==
  /\ Evaluable(r)
  /\ inFlight' = inFlight \cup {r}
  /\ BeginCheck(c, r, "release", today, today)
  /\ UNCHANGED <<requests, audit, today>>

\* Fault: the status is not looked at again after the gate.
EnterRouteUnchecked(c, r) ==
  /\ r \notin inFlight
  /\ inFlight' = inFlight \cup {r}
  /\ BeginCheck(c, r, "release", today, today)
  /\ UNCHANGED <<requests, audit, today>>

\* The route's handler up to the first await: one collection of a request at
\* a time, then collect's clock read and the prefix of its check.
EnterRoute(c, r) ==
  IF r \in inFlight
  THEN Answered(c) /\ UNCHANGED <<requests, audit, inFlight, today>>
  ELSE IF Evaluable(r)
  THEN /\ inFlight' = inFlight \cup {r}
       /\ \E t \in {today} \cup (IF ClockMayTurn /\ today < MaxDay THEN {today + 1} ELSE {}) :
            BeginCheck(c, r, "release", today, t) /\ today' = t
       /\ UNCHANGED <<requests, audit>>
  ELSE RecordRefusal(r, "release") /\ Answered(c) /\ UNCHANGED <<inFlight, today>>

\* Simulated mode: no gate in front of the route.
Collect(c, r) ==
  /\ Quiet /\ ~Live
  /\ collector[c].pc = "idle"
  /\ EnterRoute(c, r)
  /\ UNCHANGED <<agents, policies, spend, idempotency, usedNonces, kept>>

\* Live mode: the facilitator has verified the payment, or not (402 again).
Verified(c) ==
  /\ Quiet
  /\ collector[c].pc = "verifying"
  /\ \/ EnterRoute(c, collector[c].id)
     \/ Answered(c) /\ UNCHANGED <<requests, audit, inFlight, today>>
  /\ UNCHANGED <<agents, policies, spend, idempotency, usedNonces, kept>>

\* The instant at which the chain is read.
ReadChain(c) ==
  /\ Quiet
  /\ collector[c].pc = "resolving"
  /\ \E answer \in ChainAnswers(requests[collector[c].id].agent) :
       collector' = [collector EXCEPT ![c].pc = "resolved", ![c].who = answer]
  /\ UNCHANGED <<storeVars, today, inFlight, kept>>

\* reevaluate resumes with the answer and decides.
Check(c) ==
  LET r == collector[c].id
      a == requests[r].agent
      stage == collector[c].stage
      who == Resolve(a, collector[c].who) IN
  /\ Turn(c)
  /\ collector[c].pc = "resolved"
  /\ KeepDisplayCopy(a, collector[c].who)
  /\ \/ /\ ~CheckPasses(c, who)
        /\ RecordRefusal(r, stage)
        /\ LeaveRoute(r, stage)
        /\ Answered(c)
     \/ CheckPasses(c, who) /\ stage = "gate" /\ PassGate(c)
     \/ CheckPasses(c, who) /\ stage = "price" /\ Quote(c)
     \/ /\ CheckPasses(c, who) /\ stage = "release"
        /\ collector' = [collector EXCEPT ![c].pc = "checked", ![c].who = who,
                                          ![c].fare = priceQueryMicros(requests[r].query)]
        /\ UNCHANGED <<requests, audit, inFlight>>
  /\ UNCHANGED <<spend, idempotency, usedNonces, today, kept>>

\* collect resumes: the fare is reserved, and in simulated mode its receipt
\* is issued at once.
Reserve(c) ==
  LET r == collector[c].id IN
  /\ Turn(c)
  /\ collector[c].pc = "checked"
  /\ recordSpend(requests[r].agent, collector[c].fare, collector[c].at)
  /\ recordEvents(IF Live THEN {} ELSE {Event("payment.verified", "system", r)})
  /\ MovesTo(c, "fetching")
  /\ UNCHANGED <<agents, policies, requests, idempotency, usedNonces, today, inFlight, kept>>

\* Fault: the fare is taken off the day on which it is given back.
ReleaseToday(c) == releaseSpend(requests[collector[c].id].agent, collector[c].fare, today)

Release(c) == releaseSpend(requests[collector[c].id].agent, collector[c].fare, collector[c].at)
Keep(c) == kept' = [kept EXCEPT ![collector[c].id][collector[c].at] = @ + 1]

DataArrives(c) ==
  /\ Quiet
  /\ collector[c].pc = "fetching"
  /\ MovesTo(c, "analyzing")
  /\ UNCHANGED <<storeVars, today, inFlight, kept>>

\* Fault: the fare is not given back.
FetchFailsKeepsFare(c) ==
  LET r == collector[c].id IN
  /\ Quiet
  /\ collector[c].pc = "fetching"
  /\ updateRequest(r, [requests[r] EXCEPT !.status = "failed"])
  /\ recordEvents({Event("request.failed", "system", r)})
  /\ LeaveRoute(r, "release")
  /\ Answered(c)
  /\ UNCHANGED <<agents, policies, spend, idempotency, usedNonces, today, kept>>

\* The data provider fails: nothing is charged, and it can be tried again.
FetchFails(c) ==
  LET r == collector[c].id IN
  /\ Quiet
  /\ collector[c].pc = "fetching"
  /\ Release(c)
  /\ updateRequest(r, [requests[r] EXCEPT !.status = "failed"])
  /\ recordEvents({Event("request.failed", "system", r)})
  /\ LeaveRoute(r, "release")
  /\ Answered(c)
  /\ UNCHANGED <<agents, policies, idempotency, usedNonces, today, kept>>

\* The analysis is done or has failed; the request is fulfilled in either case
\* and the body handed over, in live mode to the middleware, which holds it
\* back until it has settled.
Deliver(c) ==
  LET r == collector[c].id IN
  /\ Quiet
  /\ collector[c].pc = "analyzing"
  /\ updateRequest(r, [requests[r] EXCEPT !.status = "fulfilled",
                         !.payment = IF Live THEN "unsettled" ELSE "settled"])
  /\ \E analysis \in {{}, {Event("analysis.completed", "system", r)}} :
       recordEvents({Event("data.retrieved", "system", r),
                     Event("request.fulfilled", "system", r)} \cup analysis)
  /\ LeaveRoute(r, "release")
  /\ IF Live THEN MovesTo(c, "settling") /\ UNCHANGED kept ELSE Answered(c) /\ Keep(c)
  /\ UNCHANGED <<agents, policies, spend, idempotency, usedNonces, today>>

\* The response is written and the finish listener sees a settled payment.
Settled(c) ==
  LET r == collector[c].id IN
  /\ Quiet
  /\ collector[c].pc = "settling"
  /\ updateRequest(r, [requests[r] EXCEPT !.payment = "settled"])
  /\ recordEvents({Event("payment.verified", "system", r)})
  /\ Keep(c)
  /\ Answered(c)
  /\ UNCHANGED <<agents, policies, spend, idempotency, usedNonces, today, inFlight>>

\* Fault: the request stays fulfilled.
NotSettledFulfilled(c) ==
  LET r == collector[c].id IN
  /\ Quiet
  /\ collector[c].pc = "settling"
  /\ Release(c)
  /\ updateRequest(r, [requests[r] EXCEPT !.payment = "none"])
  /\ recordEvents({Event("payment.rejected", "system", r)})
  /\ Answered(c)
  /\ UNCHANGED <<agents, policies, idempotency, usedNonces, today, inFlight, kept>>

\* The finish listener sees none: the agent got a payment error instead.
NotSettled(c) ==
  LET r == collector[c].id IN
  /\ Quiet
  /\ collector[c].pc = "settling"
  /\ Release(c)
  /\ updateRequest(r, [requests[r] EXCEPT !.status = "failed", !.payment = "none"])
  /\ recordEvents({Event("payment.rejected", "system", r)})
  /\ Answered(c)
  /\ UNCHANGED <<agents, policies, idempotency, usedNonces, today, inFlight, kept>>

\* The client is gone before the response was written, so "finish" is never
\* emitted and the listener never runs, whether the payment settled or not.
Disconnect(c) ==
  /\ Quiet /\ MayDisconnect
  /\ collector[c].pc = "settling"
  /\ Keep(c) \/ UNCHANGED kept
  /\ Answered(c)
  /\ UNCHANGED <<storeVars, today, inFlight>>

Progress(c) ==
  \/ ReadChain(c) \/ Check(c) \/ Verified(c) \/ Reserve(c)
  \/ DataArrives(c) \/ FetchFails(c) \/ Deliver(c)
  \/ Settled(c) \/ NotSettled(c) \/ Disconnect(c)

CollectionStep(c) == Progress(c) \/ \E r \in RequestIds : ReachGate(c, r) \/ Collect(c, r)
=============================================================================
