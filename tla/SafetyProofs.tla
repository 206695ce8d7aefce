----------------------------- MODULE SafetyProofs ---------------------------
(***************************************************************************)
(* Proofs of the gateway's safety properties, on top of its type proof.    *)
(***************************************************************************)
EXTENDS GatewayProofs

(* What the steps of each part leave alone *)

LEMMA CollectingLeaves ==
  ASSUME NEW c \in Collectors, Collecting(c)
  PROVE  UNCHANGED <<usedNonces, idempotency, chain, pending, acted, submitter, keyOf>>
<1>1. CollectionStep(c) /\ UNCHANGED <<chain, pending, acted, submitter, keyOf>>
  BY DEF Collecting, humanVars, submissionVars
<1>2. UNCHANGED <<usedNonces, idempotency>>
  BY <1>1 DEF CollectionStep, Progress, ReachGate, Collect, Verified, ReadChain, Check, Reserve,
              DataArrives, FetchFails, Deliver, Settled, NotSettled, Disconnect, storeVars
<1>3. QED
  BY <1>1, <1>2

LEMMA SubmittingLeaves ==
  ASSUME NEW s \in Submitters, Submitting(s)
  PROVE  UNCHANGED <<spend, usedNonces, chain, today, collector, inFlight, kept, pending, acted>>
<1>1. SubmissionStep(s) /\ UNCHANGED <<chain, collector, inFlight, kept, pending, acted>>
  BY DEF Submitting, collectionVars, humanVars
<1>2. UNCHANGED <<spend, usedNonces, today>>
  BY <1>1 DEF SubmissionStep, SubmissionProgress, Submit, ReadChainForSubmission, Interpret,
              Record, storeVars
<1>3. QED
  BY <1>1, <1>2

LEMMA ActingLeaves ==
  ASSUME NEW h \in Humans, Acting(h)
  PROVE  UNCHANGED <<spend, idempotency, chain, today, collector, inFlight, kept, submitter, keyOf>>
<1>1. HumanStep(h) /\ UNCHANGED <<chain, collector, inFlight, kept, submitter, keyOf>>
  BY DEF Acting, collectionVars, submissionVars
<1>2. UNCHANGED <<spend, idempotency, today>>
  BY <1>1 DEF HumanStep, HumanProgress, Receive, Refuse, Decide, CreateAgent, SetPolicy, Revoke,
              storeVars
<1>3. QED
  BY <1>1, <1>2
-----------------------------------------------------------------------------
(* A signature acts once *)

\* A signature that has acted is among the used ones.
Counted ==
  \A sig \in Signatures :
    /\ sig \in usedNonces => acted[sig] <= 1
    /\ sig \notin usedNonces => acted[sig] = 0

LEMMA AuthorizeCounted ==
  ASSUME Typed, Counted, NEW h \in Humans, pending[h] # NULL, Authorize(pending[h])
  PROVE  Counted'
<1> DEFINE sig == pending[h].sig
<1>1. acted \in [Signatures -> Nat]
  BY DEF Typed, TypeOK, HumanTypeOK
<1>2. CASE sig = NULL
  BY <1>2 DEF Authorize, Counted
<1>3. CASE sig # NULL
  <2>1. sig \in Signatures
    BY <1>3, PendingTyped DEF Typed, TypeOK
  <2>2. sig \notin usedNonces /\ usedNonces' = usedNonces \cup {sig}
        /\ acted' = [acted EXCEPT ![sig] = @ + 1]
    BY <1>3 DEF Authorize, consumeNonce
  <2> HIDE DEF sig
  <2>3. acted[sig] = 0
    BY <2>1, <2>2 DEF Counted
  <2>4. QED
    BY <1>1, <2>1, <2>2, <2>3 DEF Counted
<1>4. QED
  BY <1>2, <1>3

LEMMA NextCounted ==
  ASSUME Typed, Counted, [Next]_vars
  PROVE  Counted'
<1>1. CASE UNCHANGED <<usedNonces, acted>>
  BY <1>1 DEF Counted
<1>2. ASSUME NEW h \in Humans, Acting(h)
      PROVE  Counted'
  <2>1. HumanStep(h)
    BY <1>2 DEF Acting
  <2>2. CASE UNCHANGED <<usedNonces, acted>>
    BY <2>2 DEF Counted
  <2>3. CASE pending[h] # NULL /\ Authorize(pending[h])
    BY <2>3, AuthorizeCounted
  <2>4. QED
    BY <2>1, <2>2, <2>3
    DEF HumanStep, HumanProgress, Receive, Refuse, Decide, CreateAgent, SetPolicy, Revoke, storeVars
<1>3. QED
  BY <1>1, <1>2, CollectingLeaves, SubmittingLeaves
  DEF Next, OwnerActs, Midnight, Tick, vars, storeVars, humanVars

\* human-auth.ts:115-120.  However often and however concurrently one signed
\* envelope is delivered, it authorises at most one action.
THEOREM SignaturesActOnce == Spec => []SignatureOnce
<1>1. Init => Counted
  BY DEF Init, StoreInit, HumanInit, Counted
<1>2. Typed /\ Counted /\ [Next]_vars => Counted'
  BY NextCounted
<1>3. Typed /\ Counted => SignatureOnce
  BY DEF Typed, TypeOK, HumanTypeOK, Counted, SignatureOnce
<1>4. QED
  BY <1>1, <1>2, <1>3, GatewayTyped, PTL DEF Spec
-----------------------------------------------------------------------------
(* One collection of a request at a time *)

\* SingleFlight, request by request and pair by pair.
Alone ==
  /\ \A r \in RequestIds :
       r \in inFlight <=> \E c \in Collectors : InRoute(c) /\ collector[c].id = r
  /\ \A c, d \in Collectors :
       InRoute(c) /\ InRoute(d) /\ collector[c].id = collector[d].id => c = d

Inside(x) ==
  x.stage = "release" /\ x.pc \in {"resolving", "resolved", "checked", "fetching", "analyzing"}

\* An exchange that stays where it is, in the route or outside.
LEMMA StaysAlone ==
  ASSUME Typed, Alone, NEW c \in Collectors, NEW x,
         collector' = [collector EXCEPT ![c] = x], inFlight' = inFlight,
         Inside(x) <=> InRoute(c), InRoute(c) => x.id = collector[c].id
  PROVE  Alone'
<1>1. \A d \in Collectors : d # c => collector'[d] = collector[d]
  OBVIOUS
<1>2. collector'[c] = x
  BY DEF Typed, TypeOK, CollectionTypeOK
<1>3. \A d \in Collectors : InRoute(d)' <=> InRoute(d)
  BY <1>1, <1>2 DEF InRoute, Inside
<1>4. \A d \in Collectors : InRoute(d) => collector'[d].id = collector[d].id
  BY <1>1, <1>2
<1>5. QED
  BY <1>3, <1>4, Zenon DEF Alone

\* An exchange that enters the route with a request nobody is collecting.
LEMMA EntersAlone ==
  ASSUME Typed, Alone, NEW c \in Collectors, NEW x, NEW r \in RequestIds, r \notin inFlight,
         collector' = [collector EXCEPT ![c] = x], inFlight' = inFlight \cup {r},
         ~InRoute(c), Inside(x), x.id = r
  PROVE  Alone'
<1>1. \A d \in Collectors : d # c => collector'[d] = collector[d]
  OBVIOUS
<1>2. collector'[c] = x
  BY DEF Typed, TypeOK, CollectionTypeOK
<1>3. \A d \in Collectors \ {c} : InRoute(d)' <=> InRoute(d)
  BY <1>1 DEF InRoute
<1>4. InRoute(c)' /\ collector'[c].id = r
  BY <1>2 DEF InRoute, Inside
<1>5. \A d \in Collectors : InRoute(d) => collector[d].id # r
  BY DEF Alone
<1>6. ASSUME NEW q \in RequestIds
      PROVE  q \in inFlight' <=> \E d \in Collectors : InRoute(d)' /\ collector'[d].id = q
  <2>1. CASE q = r
    BY <1>4, <2>1
  <2>2. CASE q # r
    <3>1. q \in inFlight' <=> q \in inFlight
      BY <2>2
    <3>2. q \in inFlight <=> \E d \in Collectors : InRoute(d) /\ collector[d].id = q
      BY DEF Alone
    <3>3. \A d \in Collectors :
            InRoute(d) /\ collector[d].id = q <=> InRoute(d)' /\ collector'[d].id = q
      BY <1>1, <1>3, <1>4, <2>2
    <3>4. QED
      BY <3>1, <3>2, <3>3
  <2>3. QED
    BY <2>1, <2>2
<1>7. ASSUME NEW d \in Collectors, NEW e \in Collectors, InRoute(d)', InRoute(e)',
             collector'[d].id = collector'[e].id
      PROVE  d = e
  <2>1. CASE d # c /\ e # c
    <3>1. InRoute(d) /\ InRoute(e) /\ collector[d].id = collector[e].id
      BY <1>1, <1>3, <1>7, <2>1
    <3>2. QED
      BY <3>1 DEF Alone
  <2>2. CASE d = c \/ e = c
    BY <1>1, <1>3, <1>4, <1>5, <1>7, <2>2
  <2>3. QED
    BY <2>1, <2>2
<1>8. QED
  BY <1>6, <1>7, Zenon DEF Alone

\* An exchange that leaves the route.
LEMMA LeavesAlone ==
  ASSUME Typed, Alone, NEW c \in Collectors, NEW x,
         collector' = [collector EXCEPT ![c] = x], inFlight' = inFlight \ {collector[c].id},
         InRoute(c), ~Inside(x)
  PROVE  Alone'
<1>1. \A d \in Collectors : d # c => collector'[d] = collector[d]
  OBVIOUS
<1>2. collector'[c] = x
  BY DEF Typed, TypeOK, CollectionTypeOK
<1>3. \A d \in Collectors \ {c} : InRoute(d)' <=> InRoute(d)
  BY <1>1 DEF InRoute
<1>4. ~InRoute(c)'
  BY <1>2 DEF InRoute, Inside
<1>5. \A d \in Collectors \ {c} : InRoute(d) => collector[d].id # collector[c].id
  BY DEF Alone
<1>6. ASSUME NEW q \in RequestIds
      PROVE  q \in inFlight' <=> \E d \in Collectors : InRoute(d)' /\ collector'[d].id = q
  <2>1. q \in inFlight <=> \E d \in Collectors : InRoute(d) /\ collector[d].id = q
    BY DEF Alone
  <2>2. CASE q = collector[c].id
    BY <1>1, <1>3, <1>4, <1>5, <2>2
  <2>3. CASE q # collector[c].id
    <3>1. \A d \in Collectors :
            InRoute(d) /\ collector[d].id = q <=> InRoute(d)' /\ collector'[d].id = q
      BY <1>1, <1>3, <1>4, <2>3
    <3>2. QED
      BY <2>1, <2>3, <3>1
  <2>4. QED
    BY <2>2, <2>3
<1>7. ASSUME NEW d \in Collectors, NEW e \in Collectors, InRoute(d)', InRoute(e)',
             collector'[d].id = collector'[e].id
      PROVE  d = e
  <2>1. d # c /\ e # c
    BY <1>4, <1>7
  <2>2. InRoute(d) /\ InRoute(e) /\ collector[d].id = collector[e].id
    BY <1>1, <1>3, <1>7, <2>1
  <2>3. QED
    BY <2>2 DEF Alone
<1>8. QED
  BY <1>6, <1>7, Zenon DEF Alone

LEMMA IdleIsOutside == ~Inside(Idle)
  BY DEF Inside, Idle

\* The check begins inside the route exactly at the stage "release".
LEMMA BeginCheckInside ==
  ASSUME NEW c \in Collectors, NEW r, NEW stage, NEW at, NEW checkAt,
         BeginCheck(c, r, stage, at, checkAt)
  PROVE  \E x : /\ collector' = [collector EXCEPT ![c] = x]
                /\ x.id = r /\ (Inside(x) <=> stage = "release")
<1> DEFINE x == [Idle EXCEPT !.pc = AfterCall, !.stage = stage, !.id = r, !.at = at,
                   !.checkAt = checkAt, !.approval = requests[r].approval,
                   !.who = AnswerAtCall(requests[r].agent),
                   !.revokedOnEntry = RevokedAtTheSource(requests[r].agent)]
<1>1. collector' = [collector EXCEPT ![c] = x]
  BY DEF BeginCheck
<1>2. AfterCall \in {"resolving", "resolved"}
  BY DEF AfterCall
<1>3. x.id = r /\ x.stage = stage /\ x.pc = AfterCall
  BY DEF Idle
<1>4. Inside(x) <=> stage = "release"
  BY <1>2, <1>3 DEF Inside
<1> HIDE DEF x
<1>5. QED
  BY <1>1, <1>3, <1>4

\* An exchange that is outside the route and is answered there.
LEMMA AnsweredOutside ==
  ASSUME Typed, Alone, NEW c \in Collectors, ~InRoute(c), Answered(c), inFlight' = inFlight
  PROVE  Alone'
  BY IdleIsOutside, StaysAlone DEF Answered

\* An exchange that moves on without crossing the border of the route.
LEMMA MovesAlone ==
  ASSUME Typed, Alone, NEW c \in Collectors, NEW pc, MovesTo(c, pc), inFlight' = inFlight,
         pc \in {"resolving", "resolved", "checked", "fetching", "analyzing"}
           /\ collector[c].stage = "release" <=> InRoute(c)
  PROVE  Alone'
<1> DEFINE x == [collector[c] EXCEPT !.pc = pc]
<1>1. collector[c] \in CollectorState
  BY DEF Typed, TypeOK, CollectionTypeOK
<1>2. x.pc = pc /\ x.stage = collector[c].stage /\ x.id = collector[c].id
  BY <1>1 DEF CollectorState
<1>3. collector' = [collector EXCEPT ![c] = x]
  BY DEF MovesTo
<1>4. Inside(x) <=> InRoute(c)
  BY <1>2 DEF Inside
<1> HIDE DEF x
<1>5. QED
  BY <1>2, <1>3, <1>4, StaysAlone

LEMMA EnterRouteAlone ==
  ASSUME Typed, Alone, NEW c \in Collectors, NEW r \in RequestIds, ~InRoute(c), EnterRoute(c, r)
  PROVE  Alone'
<1>1. CASE r \in inFlight
  BY <1>1, AnsweredOutside DEF EnterRoute
<1>2. CASE r \notin inFlight /\ Evaluable(r)
  <2>1. PICK t : BeginCheck(c, r, "release", today, t)
    BY <1>2, Zenon DEF EnterRoute
  <2>2. inFlight' = inFlight \cup {r}
    BY <1>2 DEF EnterRoute
  <2>3. PICK x : /\ collector' = [collector EXCEPT ![c] = x]
                 /\ x.id = r /\ Inside(x)
    BY <2>1, BeginCheckInside
  <2>4. QED
    BY <1>2, <2>2, <2>3, EntersAlone
<1>3. CASE r \notin inFlight /\ ~Evaluable(r)
  BY <1>3, AnsweredOutside DEF EnterRoute
<1>4. QED
  BY <1>1, <1>2, <1>3

\* The end of a collection, in the route until now.
LEMMA LeaveRouteAlone ==
  ASSUME Typed, Alone, NEW c \in Collectors, InRoute(c), NEW x, ~Inside(x),
         collector' = [collector EXCEPT ![c] = x], LeaveRoute(collector[c].id, "release")
  PROVE  Alone'
  BY LeavesAlone DEF LeaveRoute

LEMMA CheckAlone ==
  ASSUME Typed, Alone, NEW c \in Collectors, Check(c)
  PROVE  Alone'
<1> DEFINE r == collector[c].id
           stage == collector[c].stage
           who == Resolve(requests[r].agent, collector[c].who)
<1>1. /\ collector[c].pc = "resolved" /\ collector[c] \in CollectorState
      /\ InRoute(c) <=> stage = "release"
  BY DEF Check, InRoute, Typed, TypeOK, CollectionTypeOK
<1>2. CASE LeaveRoute(r, stage) /\ Answered(c)
  <2>1. CASE stage = "release"
    BY <1>1, <1>2, <2>1, IdleIsOutside, LeaveRouteAlone DEF Answered
  <2>2. CASE stage # "release"
    BY <1>1, <1>2, <2>2, AnsweredOutside DEF LeaveRoute
  <2>3. QED
    BY <2>1, <2>2
<1>3. CASE stage = "gate" /\ PassGate(c)
  <2>1. CASE Evaluable(r)
    <3>1. BeginCheck(c, r, "price", today, today) /\ inFlight' = inFlight
      BY <1>3, <2>1 DEF PassGate
    <3>2. PICK x : /\ collector' = [collector EXCEPT ![c] = x]
                   /\ x.id = r /\ ~Inside(x)
      BY <3>1, BeginCheckInside
    <3>3. QED
      BY <1>1, <1>3, <3>1, <3>2, StaysAlone
  <2>2. CASE ~Evaluable(r)
    BY <1>1, <1>3, <2>2, AnsweredOutside DEF PassGate
  <2>3. QED
    BY <2>1, <2>2
<1>4. CASE stage = "price" /\ Quote(c)
  BY <1>1, <1>4, AnsweredOutside, MovesAlone DEF Quote
<1>5. CASE /\ stage = "release"
           /\ collector' = [collector EXCEPT ![c].pc = "checked", ![c].who = who,
                                             ![c].fare = priceQueryMicros(requests[r].query)]
           /\ UNCHANGED <<requests, audit, inFlight>>
  <2> DEFINE x == [collector[c] EXCEPT !.pc = "checked", !.who = who,
                     !.fare = priceQueryMicros(requests[r].query)]
  <2> HIDE DEF who
  <2>1. collector' = [collector EXCEPT ![c] = x]
    BY <1>5 DEF Typed, TypeOK, CollectionTypeOK, who
  <2>2. x.pc = "checked" /\ x.stage = "release" /\ x.id = r
    BY <1>1, <1>5 DEF CollectorState
  <2>3. Inside(x) /\ InRoute(c)
    BY <1>1, <1>5, <2>2 DEF Inside
  <2> HIDE DEF x
  <2>4. QED
    BY <1>5, <2>1, <2>2, <2>3, StaysAlone
<1>6. QED
  BY <1>2, <1>3, <1>4, <1>5, Zenon DEF Check

LEMMA CollectionStepAlone ==
  ASSUME Typed, Alone, NEW c \in Collectors, CollectionStep(c)
  PROVE  Alone'
<1>0. /\ collector[c] \in CollectorState
      /\ collector[c].pc # "idle" => collector[c].id \in RequestIds
      /\ collector[c].pc \in Late => collector[c].stage = "release"
  BY DEF Typed, TypeOK, CollectionTypeOK, Placed
<1>1. ASSUME NEW r \in RequestIds, ReachGate(c, r)
      PROVE  Alone'
  <2>1. ~InRoute(c) /\ inFlight' = inFlight
    BY <1>1 DEF ReachGate, InRoute
  <2>2. CASE Evaluable(r)
    <3>1. BeginCheck(c, r, "gate", today, today)
      BY <1>1, <2>2 DEF ReachGate
    <3>2. PICK x : /\ collector' = [collector EXCEPT ![c] = x]
                   /\ x.id = r /\ ~Inside(x)
      BY <3>1, BeginCheckInside
    <3>3. QED
      BY <2>1, <3>2, StaysAlone
  <2>3. CASE ~Evaluable(r)
    BY <1>1, <2>1, <2>3 DEF ReachGate, Alone, InRoute
  <2>4. QED
    BY <2>2, <2>3
<1>2. ASSUME NEW r \in RequestIds, Collect(c, r)
      PROVE  Alone'
  BY <1>2, EnterRouteAlone DEF Collect, InRoute
<1>3. CASE Verified(c)
  <2>1. ~InRoute(c) /\ collector[c].id \in RequestIds
    BY <1>0, <1>3 DEF Verified, InRoute
  <2>2. QED
    BY <1>3, <2>1, EnterRouteAlone, AnsweredOutside DEF Verified
<1>4. CASE ReadChain(c)
  <2>1. PICK answer : collector' = [collector EXCEPT ![c].pc = "resolved", ![c].who = answer]
    BY <1>4, Zenon DEF ReadChain
  <2> DEFINE x == [collector[c] EXCEPT !.pc = "resolved", !.who = answer]
  <2>2. collector' = [collector EXCEPT ![c] = x]
    BY <2>1 DEF Typed, TypeOK, CollectionTypeOK
  <2>3. x.pc = "resolved" /\ x.stage = collector[c].stage /\ x.id = collector[c].id
    BY <1>0 DEF CollectorState
  <2>4. Inside(x) <=> InRoute(c)
    BY <1>4, <2>3 DEF ReadChain, Inside, InRoute
  <2> HIDE DEF x
  <2>5. QED
    BY <1>4, <2>2, <2>3, <2>4, StaysAlone DEF ReadChain
<1>5. CASE Check(c)
  BY <1>5, CheckAlone
<1>6. CASE Reserve(c)
  BY <1>0, <1>6, MovesAlone DEF Reserve, InRoute, Late
<1>7. CASE DataArrives(c)
  BY <1>0, <1>7, MovesAlone DEF DataArrives, InRoute, Late
<1>8. CASE FetchFails(c)
  <2>1. InRoute(c)
    BY <1>0, <1>8 DEF FetchFails, InRoute, Late
  <2>2. QED
    BY <1>8, <2>1, IdleIsOutside, LeaveRouteAlone DEF FetchFails, Answered
<1>9. CASE Deliver(c)
  <2>1. InRoute(c) /\ LeaveRoute(collector[c].id, "release")
    BY <1>0, <1>9 DEF Deliver, InRoute, Late
  <2>2. CASE Live
    <3> DEFINE x == [collector[c] EXCEPT !.pc = "settling"]
    <3>1. collector' = [collector EXCEPT ![c] = x]
      BY <1>9, <2>2 DEF Deliver, MovesTo
    <3>2. ~Inside(x)
      BY <1>0 DEF Inside, CollectorState
    <3> HIDE DEF x
    <3>3. QED
      BY <2>1, <3>1, <3>2, LeaveRouteAlone
  <2>3. CASE ~Live
    BY <1>9, <2>1, <2>3, IdleIsOutside, LeaveRouteAlone DEF Deliver, Answered
  <2>4. QED
    BY <2>2, <2>3
<1>10. CASE Settled(c) \/ NotSettled(c) \/ Disconnect(c)
  BY <1>10, AnsweredOutside DEF Settled, NotSettled, Disconnect, InRoute
<1>11. QED
  BY <1>1, <1>2, <1>3, <1>4, <1>5, <1>6, <1>7, <1>8, <1>9, <1>10
  DEF CollectionStep, Progress

LEMMA NextAlone ==
  ASSUME Typed, Alone, [Next]_vars
  PROVE  Alone'
<1>1. CASE UNCHANGED <<collector, inFlight>>
  BY <1>1 DEF Alone, InRoute
<1>2. ASSUME NEW c \in Collectors, Collecting(c)
      PROVE  Alone'
  BY <1>2, CollectionStepAlone DEF Collecting
<1>3. QED
  BY <1>1, <1>2, ActingLeaves, SubmittingLeaves
  DEF Next, OwnerActs, Midnight, vars, collectionVars

\* data.ts:67-89.  For any number of exchanges, requests and modes: inFlight
\* names exactly the requests that are being collected, each by one exchange.
THEOREM CollectedOneAtATime == Spec => []SingleFlight
<1>1. Init => Alone
  <2>1. \A c \in Collectors : Idle.pc = "idle"
    BY DEF Idle
  <2>2. QED
    BY <2>1 DEF Init, CollectionInit, Alone, InRoute
<1>2. Typed /\ Alone /\ [Next]_vars => Alone'
  BY NextAlone
<1>3. Typed /\ Alone => SingleFlight
  <2> SUFFICES ASSUME Typed, Alone PROVE SingleFlight
    OBVIOUS
  <2>1. inFlight \subseteq RequestIds
    BY DEF Typed, TypeOK, CollectionTypeOK
  <2>2. \A c \in Collectors : InRoute(c) => collector[c].id \in RequestIds
    BY DEF Typed, Placed, InRoute
  <2>3. \A r : r \in inFlight <=> r \in {collector[c].id : c \in {x \in Collectors : InRoute(x)}}
    BY <2>1, <2>2 DEF Alone
  <2>4. QED
    BY <2>3, Zenon DEF Alone, SingleFlight
<1>4. QED
  BY <1>1, <1>2, <1>3, GatewayTyped, PTL DEF Spec
-----------------------------------------------------------------------------
(* Above the threshold, a human approved *)

Approved(r) == Heard("request.approved", "human", r)

\* What makes x, where an exchange is, one that a human stands behind.
Backed(x) ==
  /\ x.approval = "approved" => Approved(x.id)
  /\ x.pc \in Late /\ x.fare > usdToMicros(x.who.policy.humanApprovalAboveUsd)
       => Approved(x.id)

\* Approvals are on record: those the requests carry, those an exchange read
\* before it resolved the identity, and those a fare was let through with.
Gated ==
  /\ \A r \in RequestIds :
       requests[r] # NULL /\ requests[r].approval = "approved" => Approved(r)
  /\ \A c \in Collectors : Backed(collector[c])

\* Approvals are only ever given by Decide, and no event is forgotten.
ApprovalsStay ==
  /\ audit \subseteq audit'
  /\ \A r \in RequestIds :
       requests'[r] # NULL /\ requests'[r].approval = "approved" =>
         requests[r] # NULL /\ requests[r].approval = "approved"

LEMMA StaysGated ==
  ASSUME Typed, Gated, ApprovalsStay, NEW c \in Collectors, NEW x,
         collector' = [collector EXCEPT ![c] = x],
         x.approval = "approved" => Approved(x.id),
         x.pc \in Late /\ x.fare > usdToMicros(x.who.policy.humanApprovalAboveUsd)
           => Approved(x.id)
  PROVE  Gated'
<1>1. \A r : Approved(r) => Approved(r)'
  BY DEF Approved, Heard, Event, ApprovalsStay
<1>2. \A r \in RequestIds :
        requests'[r] # NULL /\ requests'[r].approval = "approved" => Approved(r)'
  BY <1>1 DEF Gated, ApprovalsStay
<1>3. ASSUME NEW d \in Collectors PROVE Backed(collector[d])'
  <2>1. CASE d = c
    <3>1. collector'[d] = x
      BY <2>1 DEF Typed, TypeOK, CollectionTypeOK
    <3>2. QED
      BY <1>1, <3>1 DEF Backed
  <2>2. CASE d # c
    <3>1. collector'[d] = collector[d]
      BY <2>2
    <3>2. QED
      BY <1>1, <3>1 DEF Gated, Backed
  <2>3. QED
    BY <2>1, <2>2
<1>4. QED
  BY <1>2, <1>3 DEF Gated

LEMMA AnsweredGated ==
  ASSUME Typed, Gated, ApprovalsStay, NEW c \in Collectors, Answered(c)
  PROVE  Gated'
<1>1. Idle.approval = "none" /\ Idle.pc = "idle"
  BY DEF Idle
<1>2. QED
  BY <1>1, StaysGated DEF Answered, Late

LEMMA MovesGated ==
  ASSUME Typed, Gated, ApprovalsStay, NEW c \in Collectors, NEW pc, MovesTo(c, pc),
         pc \in Late => collector[c].pc \in Late
  PROVE  Gated'
<1> DEFINE x == [collector[c] EXCEPT !.pc = pc]
<1>1. collector[c] \in CollectorState /\ Backed(collector[c])
  BY DEF Typed, TypeOK, CollectionTypeOK, Gated
<1>2. /\ x.pc = pc /\ x.id = collector[c].id /\ x.approval = collector[c].approval
      /\ x.fare = collector[c].fare /\ x.who = collector[c].who
  BY <1>1 DEF CollectorState
<1>3. collector' = [collector EXCEPT ![c] = x]
  BY DEF MovesTo
<1> HIDE DEF x
<1>4. QED
  BY <1>1, <1>2, <1>3, StaysGated DEF Backed

LEMMA BeginCheckGated ==
  ASSUME Typed, Gated, ApprovalsStay, NEW c \in Collectors, NEW r \in RequestIds,
         requests[r] # NULL, NEW stage, NEW at, NEW checkAt,
         BeginCheck(c, r, stage, at, checkAt)
  PROVE  Gated'
<1> DEFINE x == [Idle EXCEPT !.pc = AfterCall, !.stage = stage, !.id = r, !.at = at,
                   !.checkAt = checkAt, !.approval = requests[r].approval,
                   !.who = AnswerAtCall(requests[r].agent),
                   !.revokedOnEntry = RevokedAtTheSource(requests[r].agent)]
<1>1. collector' = [collector EXCEPT ![c] = x]
  BY DEF BeginCheck
<1>2. AfterCall \in {"resolving", "resolved"}
  BY DEF AfterCall
<1>3. x.id = r /\ x.pc = AfterCall /\ x.approval = requests[r].approval
  BY DEF Idle
<1>4. requests[r].approval = "approved" => Approved(r)
  BY DEF Gated
<1> HIDE DEF x
<1>5. QED
  BY <1>1, <1>2, <1>3, <1>4, StaysGated DEF Late

\* A patch that leaves the approval alone gives none.
LEMMA PatchApprovesNothing ==
  ASSUME Typed, NEW r \in RequestIds, NEW patched, updateRequest(r, patched),
         requests[r] # NULL => patched.approval = requests[r].approval,
         audit \subseteq audit'
  PROVE  ApprovalsStay
  BY DEF ApprovalsStay, updateRequest, Typed, TypeOK, StoreTypeOK

LEMMA PatchKeepsApproval ==
  ASSUME NEW x \in AccessRequest
  PROVE  /\ \A refusal : [x EXCEPT !.lastRefusal = refusal].approval = x.approval
         /\ \A status : [x EXCEPT !.status = status].approval = x.approval
         /\ \A payment : [x EXCEPT !.payment = payment].approval = x.approval
  BY DEF AccessRequest

LEMMA OutcomeApprovesNothing ==
  ASSUME Typed, NEW r \in RequestIds, requests[r] # NULL, NEW status, NEW payment,
         updateRequest(r, [requests[r] EXCEPT !.status = status, !.payment = payment]),
         audit \subseteq audit'
  PROVE  ApprovalsStay
<1> DEFINE patched == [requests[r] EXCEPT !.status = status, !.payment = payment]
<1>1. requests[r] \in AccessRequest
  BY DEF Typed, TypeOK, StoreTypeOK
<1>2. patched.approval = requests[r].approval
  BY <1>1 DEF AccessRequest
<1>3. updateRequest(r, patched)
  OBVIOUS
<1> HIDE DEF patched
<1>4. QED
  BY <1>2, <1>3, PatchApprovesNothing

LEMMA RefusalApprovesNothing ==
  ASSUME Typed, NEW r \in RequestIds, NEW stage, RecordRefusal(r, stage)
  PROVE  ApprovalsStay
<1>1. CASE stage = "price"
  BY <1>1 DEF RecordRefusal, ApprovalsStay
<1>2. CASE stage # "price"
  <2> DEFINE refusal == IF stage = "gate" THEN "pre-payment" ELSE "data-release"
  <2>1. updateRequest(r, [requests[r] EXCEPT !.lastRefusal = refusal]) /\ audit \subseteq audit'
    BY <1>2 DEF RecordRefusal, recordEvents
  <2>2. requests[r] # NULL => requests[r] \in AccessRequest
    BY DEF Typed, TypeOK, StoreTypeOK
  <2> HIDE DEF refusal
  <2>3. QED
    BY <2>1, <2>2, PatchKeepsApproval, PatchApprovesNothing
<1>3. QED
  BY <1>1, <1>2

LEMMA EnterRouteGated ==
  ASSUME Typed, Gated, NEW c \in Collectors, NEW r \in RequestIds, EnterRoute(c, r)
  PROVE  Gated'
<1>1. CASE r \in inFlight
  <2>1. Answered(c) /\ ApprovalsStay
    BY <1>1 DEF EnterRoute, ApprovalsStay
  <2>2. QED
    BY <2>1, AnsweredGated
<1>2. CASE r \notin inFlight /\ Evaluable(r)
  <2>1. PICK t : BeginCheck(c, r, "release", today, t)
    BY <1>2, Zenon DEF EnterRoute
  <2>2. ApprovalsStay /\ requests[r] # NULL
    BY <1>2 DEF EnterRoute, ApprovalsStay, Evaluable
  <2>3. QED
    BY <2>1, <2>2, BeginCheckGated
<1>3. CASE r \notin inFlight /\ ~Evaluable(r)
  <2>1. RecordRefusal(r, "release") /\ Answered(c)
    BY <1>3 DEF EnterRoute
  <2>2. QED
    BY <2>1, RefusalApprovesNothing, AnsweredGated
<1>4. QED
  BY <1>1, <1>2, <1>3

LEMMA CheckGated ==
  ASSUME Typed, Gated, NEW c \in Collectors, Check(c)
  PROVE  Gated'
<1> DEFINE r == collector[c].id
           stage == collector[c].stage
           who == Resolve(requests[r].agent, collector[c].who)
<1>1. /\ collector[c] \in CollectorState /\ Backed(collector[c])
      /\ r \in RequestIds /\ requests[r] # NULL
  BY DEF Check, Typed, TypeOK, CollectionTypeOK, Placed, Gated
<1>2. CASE RecordRefusal(r, stage) /\ Answered(c)
  BY <1>1, <1>2, RefusalApprovesNothing, AnsweredGated
<1>3. CASE PassGate(c)
  <2>1. ApprovalsStay
    BY <1>3 DEF PassGate, ApprovalsStay, recordEvents
  <2>2. BeginCheck(c, r, "price", today, today) \/ Answered(c)
    BY <1>3 DEF PassGate
  <2>3. QED
    BY <1>1, <2>1, <2>2, BeginCheckGated, AnsweredGated
<1>4. CASE Quote(c)
  <2>1. ApprovalsStay /\ (Answered(c) \/ MovesTo(c, "verifying"))
    BY <1>4 DEF Quote, ApprovalsStay
  <2>2. QED
    BY <2>1, AnsweredGated, MovesGated DEF Late
<1>5. CASE /\ CheckPasses(c, who)
           /\ collector' = [collector EXCEPT ![c].pc = "checked", ![c].who = who,
                                             ![c].fare = priceQueryMicros(requests[r].query)]
           /\ UNCHANGED <<requests, audit, inFlight>>
  <2> DEFINE price == priceQueryMicros(requests[r].query)
             x == [collector[c] EXCEPT !.pc = "checked", !.who = who, !.fare = price]
             in == CheckInput(c, who)
  <2>1. collector' = [collector EXCEPT ![c] = x]
    BY <1>5 DEF Typed, TypeOK, CollectionTypeOK
  <2>2. in.policy = who.policy /\ in.query = requests[r].query
    BY DEF CheckInput
  <2> HIDE DEF in, who
  <2>3. evaluatePolicy(in).allowed
        /\ (evaluatePolicy(in).requiresHumanApproval => collector[c].approval = "approved")
    BY <1>5 DEF CheckPasses, in
  <2>4. NeedsHuman(in) => collector[c].approval = "approved"
    BY <2>3, AllowedExpanded
  <2>5. price > usdToMicros(who.policy.humanApprovalAboveUsd) => Approved(r)
    BY <1>1, <2>2, <2>4 DEF NeedsHuman, Backed
  <2> HIDE DEF price
  <2>6. /\ x.id = r /\ x.approval = collector[c].approval /\ x.fare = price /\ x.who = who
    BY <1>1 DEF CollectorState
  <2>7. ApprovalsStay
    BY <1>5 DEF ApprovalsStay
  <2> HIDE DEF x
  <2>8. QED
    BY <1>1, <2>1, <2>5, <2>6, <2>7, StaysGated DEF Backed
<1>6. QED
  BY <1>2, <1>3, <1>4, <1>5, Zenon DEF Check

LEMMA CollectionStepGated ==
  ASSUME Typed, Gated, NEW c \in Collectors, CollectionStep(c)
  PROVE  Gated'
<1>0. /\ collector[c] \in CollectorState /\ Backed(collector[c])
      /\ collector[c].pc # "idle" =>
           /\ collector[c].id \in RequestIds
           /\ requests[collector[c].id] \in AccessRequest
           /\ requests[collector[c].id] # NULL
  BY DEF Typed, TypeOK, StoreTypeOK, CollectionTypeOK, Placed, Gated
<1>1. ASSUME NEW r \in RequestIds, ReachGate(c, r)
      PROVE  Gated'
  <2>1. CASE Evaluable(r)
    <3>1. BeginCheck(c, r, "gate", today, today) /\ ApprovalsStay /\ requests[r] # NULL
      BY <1>1, <2>1 DEF ReachGate, ApprovalsStay, Evaluable
    <3>2. QED
      BY <3>1, BeginCheckGated
  <2>2. CASE ~Evaluable(r)
    <3>1. RecordRefusal(r, "gate") /\ UNCHANGED collector
      BY <1>1, <2>2 DEF ReachGate
    <3>2. ApprovalsStay
      BY <3>1, RefusalApprovesNothing
    <3>3. QED
      BY <3>1, <3>2 DEF Gated, Backed, Approved, Heard, Event, ApprovalsStay
  <2>3. QED
    BY <2>1, <2>2
<1>2. ASSUME NEW r \in RequestIds, Collect(c, r)
      PROVE  Gated'
  BY <1>2, EnterRouteGated DEF Collect
<1>3. CASE Verified(c)
  <2>1. CASE EnterRoute(c, collector[c].id)
    BY <1>0, <1>3, <2>1, EnterRouteGated DEF Verified
  <2>2. CASE Answered(c) /\ UNCHANGED <<requests, audit, inFlight, today>>
    BY <2>2, AnsweredGated DEF ApprovalsStay
  <2>3. QED
    BY <1>3, <2>1, <2>2 DEF Verified
<1>4. CASE ReadChain(c)
  <2>1. PICK answer : collector' = [collector EXCEPT ![c].pc = "resolved", ![c].who = answer]
    BY <1>4, Zenon DEF ReadChain
  <2> DEFINE x == [collector[c] EXCEPT !.pc = "resolved", !.who = answer]
  <2>2. collector' = [collector EXCEPT ![c] = x]
    BY <2>1 DEF Typed, TypeOK, CollectionTypeOK
  <2>3. x.pc = "resolved" /\ x.approval = collector[c].approval /\ x.id = collector[c].id
    BY <1>0 DEF CollectorState
  <2>4. ApprovalsStay
    BY <1>4 DEF ReadChain, ApprovalsStay, storeVars
  <2> HIDE DEF x
  <2>5. QED
    BY <1>0, <2>2, <2>3, <2>4, StaysGated DEF Late, Backed
<1>5. CASE Check(c)
  BY <1>5, CheckGated
<1>6. CASE Reserve(c)
  <2>1. ApprovalsStay
    BY <1>6 DEF Reserve, recordEvents, ApprovalsStay
  <2>2. QED
    BY <1>6, <2>1, MovesGated DEF Reserve, Late
<1>7. CASE DataArrives(c)
  <2>1. ApprovalsStay
    BY <1>7 DEF DataArrives, storeVars, ApprovalsStay
  <2>2. QED
    BY <1>7, <2>1, MovesGated DEF DataArrives, Late
<1>8. CASE FetchFails(c)
  <2>1. ApprovalsStay
    BY <1>0, <1>8, PatchKeepsApproval, PatchApprovesNothing DEF FetchFails, recordEvents
  <2>2. QED
    BY <1>8, <2>1, AnsweredGated DEF FetchFails
<1>9. CASE Deliver(c)
  <2> DEFINE payment == IF Live THEN "unsettled" ELSE "settled"
  <2>1. /\ updateRequest(collector[c].id, [requests[collector[c].id] EXCEPT
                                             !.status = "fulfilled", !.payment = payment])
        /\ audit \subseteq audit' /\ collector[c].pc = "analyzing"
    BY <1>9 DEF Deliver, recordEvents
  <2> HIDE DEF payment
  <2>2. ApprovalsStay
    BY <1>0, <2>1, OutcomeApprovesNothing
  <2>3. QED
    BY <1>9, <2>1, <2>2, AnsweredGated, MovesGated DEF Deliver, Late
<1>10. CASE Settled(c)
  <2>1. /\ updateRequest(collector[c].id, [requests[collector[c].id] EXCEPT !.payment = "settled"])
        /\ audit \subseteq audit' /\ collector[c].pc = "settling"
    BY <1>10 DEF Settled, recordEvents
  <2>2. ApprovalsStay
    BY <1>0, <2>1, PatchKeepsApproval, PatchApprovesNothing
  <2>3. QED
    BY <1>10, <2>2, AnsweredGated DEF Settled
<1>11. CASE NotSettled(c)
  <2>1. /\ updateRequest(collector[c].id, [requests[collector[c].id] EXCEPT
                                             !.status = "failed", !.payment = "none"])
        /\ audit \subseteq audit' /\ collector[c].pc = "settling"
    BY <1>11 DEF NotSettled, recordEvents
  <2>2. ApprovalsStay
    BY <1>0, <2>1, OutcomeApprovesNothing
  <2>3. QED
    BY <1>11, <2>2, AnsweredGated DEF NotSettled
<1>12. CASE Disconnect(c)
  <2>1. ApprovalsStay
    BY <1>12 DEF Disconnect, storeVars, ApprovalsStay
  <2>2. QED
    BY <1>12, <2>1, AnsweredGated DEF Disconnect
<1>13. QED
  BY <1>1, <1>2, <1>3, <1>4, <1>5, <1>6, <1>7, <1>8, <1>9, <1>10, <1>11, <1>12
  DEF CollectionStep, Progress

\* A step that touches no exchange and gives no approval without its event.
LEMMA OthersGated ==
  ASSUME Gated, UNCHANGED collector, audit \subseteq audit',
         \A r \in RequestIds :
           requests'[r] # NULL /\ requests'[r].approval = "approved" =>
             \/ requests[r] # NULL /\ requests[r].approval = "approved"
             \/ Approved(r)'
  PROVE  Gated'
<1>1. \A r : Approved(r) => Approved(r)'
  BY DEF Approved, Heard, Event
<1>2. QED
  BY <1>1 DEF Gated, Backed

LEMMA DecideGated ==
  ASSUME Typed, Gated, UNCHANGED collector, NEW h \in Humans, Decide(h)
  PROVE  Gated'
<1> DEFINE e == pending[h]
           approved == e.action = "approve-request"
           verdict == IF approved THEN "approved" ELSE "rejected"
           patched == [requests[e.subject] EXCEPT
                         !.approval = verdict,
                         !.status = IF approved THEN "payment_required" ELSE "rejected"]
<1>1. /\ updateRequest(e.subject, patched)
      /\ audit' = audit \cup {Event(IF approved THEN "request.approved" ELSE "request.rejected",
                                   "human", e.subject)}
      /\ requests \in [RequestIds -> AccessRequest \cup {NULL}]
  BY DEF Decide, recordEvents, Typed, TypeOK, StoreTypeOK
<1>2. e.subject \in RequestIds /\ requests[e.subject] # NULL => patched.approval = verdict
  BY <1>1 DEF AccessRequest
<1> HIDE DEF patched, e
<1>3. ASSUME NEW r \in RequestIds, requests'[r] # NULL, requests'[r].approval = "approved"
      PROVE  \/ requests[r] # NULL /\ requests[r].approval = "approved"
             \/ Approved(r)'
  <2>1. CASE r = e.subject
    <3>1. requests[r] # NULL /\ requests'[r] = patched
      BY <1>1, <1>3, <2>1 DEF updateRequest
    <3>2. approved
      BY <1>2, <1>3, <2>1, <3>1
    <3>3. QED
      BY <1>1, <2>1, <3>2 DEF Approved, Heard
  <2>2. CASE r # e.subject
    BY <1>1, <1>3, <2>2 DEF updateRequest
  <2>3. QED
    BY <2>1, <2>2
<1>4. QED
  BY <1>1, <1>3, OthersGated

LEMMA ActingGated ==
  ASSUME Typed, Gated, NEW h \in Humans, Acting(h)
  PROVE  Gated'
<1>1. HumanStep(h) /\ UNCHANGED collector
  BY DEF Acting, collectionVars
<1>2. CASE Decide(h)
  BY <1>1, <1>2, DecideGated
<1>3. CASE ~Decide(h)
  <2>1. UNCHANGED requests /\ audit \subseteq audit'
    BY <1>1, <1>3 DEF HumanStep, HumanProgress, Receive, Refuse, CreateAgent, SetPolicy,
                      Revoke, storeVars, recordEvents
  <2>2. QED
    BY <1>1, <2>1, OthersGated
<1>4. QED
  BY <1>2, <1>3

LEMMA SubmittingGated ==
  ASSUME Typed, Gated, NEW s \in Submitters, Submitting(s)
  PROVE  Gated'
<1>1. SubmissionStep(s) /\ UNCHANGED collector
  BY DEF Submitting, collectionVars
<1>2. CASE UNCHANGED <<requests, audit>>
  BY <1>1, <1>2, OthersGated
<1>3. CASE Record(s)
  <2>1. PICK r \in RequestIds :
          /\ \E x : x.approval = "none" /\ putRequest(r, x)
          /\ audit \subseteq audit'
    BY <1>3, Zenon DEF Record, recordEvents
  <2>2. \A q \in RequestIds : requests'[q] = requests[q] \/ requests'[q].approval = "none"
    BY <2>1 DEF putRequest, Typed, TypeOK, StoreTypeOK
  <2>3. QED
    BY <1>1, <2>1, <2>2, OthersGated
<1>4. QED
  BY <1>1, <1>2, <1>3
  DEF SubmissionStep, SubmissionProgress, Submit, ReadChainForSubmission, Interpret, storeVars

LEMMA NextGated ==
  ASSUME Typed, Gated, [Next]_vars
  PROVE  Gated'
<1>1. CASE UNCHANGED <<requests, audit, collector>>
  BY <1>1, OthersGated
<1>2. ASSUME NEW c \in Collectors, Collecting(c) PROVE Gated'
  BY <1>2, CollectionStepGated DEF Collecting
<1>3. QED
  BY <1>1, <1>2, ActingGated, SubmittingGated
  DEF Next, OwnerActs, Midnight, Tick, vars, storeVars, collectionVars

\* x402.ts:94-96, app.ts:517-521.  In every mode and however approvals,
\* submissions, owners and collections interleave, a fare above the threshold
\* of the resolved capability is held only for a request that a human approved.
THEOREM DearQueriesHaveTheirHuman == Spec => []HumanGate
<1>1. Init => Gated
  <2>1. Idle.approval = "none" /\ Idle.pc = "idle"
    BY DEF Idle
  <2>2. QED
    BY <2>1 DEF Init, StoreInit, CollectionInit, Gated, Backed, Late
<1>2. Typed /\ Gated /\ [Next]_vars => Gated'
  BY NextGated
<1>3. Gated => HumanGate
  BY DEF Gated, Backed, Approved, HumanGate, Holds, Late
<1>4. QED
  BY <1>1, <1>2, <1>3, GatewayTyped, PTL DEF Spec
-----------------------------------------------------------------------------
(* Revoked for good *)

\* An action that can still be authorised.
Usable(e) == IF e.sig = NULL THEN ~RequireSignature ELSE e.sig \notin usedNonces

\* Two creations of one passport are never authorised side by side: there is
\* one human exchange, or signatures are required and humans sign one creation
\* per name.
OneCreation ==
  \/ \A h, g \in Humans : h = g
  \/ /\ RequireSignature
     /\ \A e, f \in Envelopes :
          /\ e.action = "create-agent" /\ f.action = "create-agent" /\ e.subject = f.subject
          => e = f

\* A creation that can still be authorised finds its name free.
NamesFree ==
  \A h \in Humans :
    pending[h] # NULL /\ pending[h].action = "create-agent" /\ Usable(pending[h]) =>
      agents[pending[h].subject] = NULL

\* Without ENS no display copy is kept: only humans write passports.
LEMMA OnlyHumansWrite ==
  ASSUME ~Ens
  PROVE  /\ \A c \in Collectors : Collecting(c) => UNCHANGED agents
         /\ \A s \in Submitters : Submitting(s) => UNCHANGED agents
<1>1. ASSUME NEW c \in Collectors, Collecting(c) PROVE UNCHANGED agents
  BY <1>1 DEF Collecting, CollectionStep, Progress, ReachGate, Collect, Verified, ReadChain, Check,
              Reserve, DataArrives, FetchFails, Deliver, Settled, NotSettled, Disconnect, storeVars,
              KeepDisplayCopy
<1>2. ASSUME NEW s \in Submitters, Submitting(s) PROVE UNCHANGED agents
  BY <1>2 DEF Submitting, SubmissionStep, SubmissionProgress, Submit, ReadChainForSubmission,
              Interpret, Record, storeVars, KeepDisplayCopy
<1>3. QED
  BY <1>1, <1>2

LEMMA ActingNamesFree ==
  ASSUME OneCreation, Typed, NamesFree, NEW h \in Humans, Acting(h)
  PROVE  NamesFree'
<1>1. HumanStep(h) /\ pending \in [Humans -> Envelopes \cup {NULL}]
  BY DEF Acting, Typed, TypeOK, HumanTypeOK
<1>2. /\ agents \in [Agents -> Passport \cup {NULL}] /\ usedNonces \subseteq usedNonces'
      /\ \/ pending' = [pending EXCEPT ![h] = NULL]
         \/ \E e \in Envelopes : MayStart(e) /\ pending' = [pending EXCEPT ![h] = e] /\ UNCHANGED agents
  BY <1>1 DEF HumanStep, HumanProgress, Receive, Refuse, Decide, CreateAgent, SetPolicy, Revoke,
              Closes, Authorize, consumeNonce, storeVars, Typed, TypeOK, StoreTypeOK
<1>3. ASSUME NEW g \in Humans, pending'[g] # NULL, pending'[g].action = "create-agent",
             Usable(pending[g])'
      PROVE  agents'[pending'[g].subject] = NULL
  <2>1. CASE pending'[g] # pending[g]
    <3>1. MayStart(pending'[g]) /\ UNCHANGED agents
      BY <1>1, <1>2, <1>3, <2>1
    <3>2. QED
      BY <1>3, <3>1 DEF MayStart
  <2>2. CASE pending'[g] = pending[g]
    <3>1. PICK a \in Agents : a = pending[g].subject /\ agents[a] = NULL
      BY <1>2, <1>3, <2>2, PendingTyped DEF Usable, NamesFree, Typed, TypeOK
    <3>2. CASE UNCHANGED agents
      BY <2>2, <3>1, <3>2
    <3>3. CASE Revoke(h)
      <4>1. revokeAgent(pending[h].subject)
        BY <3>3 DEF Revoke
      <4>2. QED
        BY <1>2, <2>2, <3>1, <4>1 DEF revokeAgent
    \* Its one creation has been authorised, and its signature is used.
    <3>4. CASE CreateAgent(h)
      <4>1. /\ pending[h] # NULL /\ pending[h].action = "create-agent" /\ Authorize(pending[h])
            /\ pending' = [pending EXCEPT ![h] = NULL]
            /\ putAgent(pending[h].subject, LocalPassport(pending[h].policy))
        BY <3>4 DEF CreateAgent, Closes
      <4>2. g # h
        BY <1>1, <1>3, <4>1
      <4>3. pending[h].subject # a
        <5> SUFFICES ASSUME pending[h].subject = a PROVE FALSE
          OBVIOUS
        <5>1. RequireSignature /\ pending[g] = pending[h]
          BY <1>1, <1>3, <2>2, <3>1, <4>1, <4>2 DEF OneCreation
        <5>2. pending[h].sig # NULL /\ pending[h].sig \in usedNonces'
          BY <4>1, <5>1 DEF Authorize, consumeNonce
        <5>3. QED
          BY <1>3, <2>2, <5>1, <5>2 DEF Usable
      <4>4. QED
        BY <1>2, <2>2, <3>1, <4>1, <4>3 DEF putAgent
    <3>5. QED
      BY <1>1, <3>2, <3>3, <3>4 DEF HumanStep, HumanProgress, Receive, Refuse, Decide, SetPolicy,
                                    storeVars
  <2>3. QED
    BY <2>1, <2>2
<1>4. QED
  BY <1>3, Zenon DEF NamesFree

LEMMA NextNamesFree ==
  ASSUME ~Ens, OneCreation, Typed, NamesFree, [Next]_vars
  PROVE  NamesFree'
<1>1. CASE UNCHANGED <<agents, pending, usedNonces>>
  BY <1>1 DEF NamesFree, Usable
<1>2. QED
  BY <1>1, OnlyHumansWrite, CollectingLeaves, SubmittingLeaves, ActingNamesFree
  DEF Next, OwnerActs, Midnight, Tick, vars, storeVars, humanVars

\* No step of anyone turns a revoked passport into another.
LEMMA StepsKeepRevoked ==
  ASSUME ~Ens, Typed, NamesFree, [Next]_vars, NEW a \in Agents, Revoked(agents[a])
  PROVE  Revoked(agents'[a])
<1>1. CASE UNCHANGED agents
  BY <1>1
<1>2. ASSUME NEW h \in Humans, Acting(h)
      PROVE  Revoked(agents'[a])
  <2>1. HumanStep(h) /\ agents \in [Agents -> Passport \cup {NULL}]
    BY <1>2 DEF Acting, Typed, TypeOK, StoreTypeOK
  <2>2. agents[a] \in Passport /\ agents[a] # NULL /\ agents[a].status = "revoked"
    BY <2>1 DEF Revoked
  <2>3. CASE Revoke(h)
    <3>1. revokeAgent(pending[h].subject)
      BY <2>3 DEF Revoke
    <3>2. agents'[a] = agents[a] \/ agents'[a] = [agents[a] EXCEPT !.status = "revoked"]
      BY <2>1, <2>2, <3>1 DEF revokeAgent
    <3>3. /\ [agents[a] EXCEPT !.status = "revoked"] \in Passport
          /\ [agents[a] EXCEPT !.status = "revoked"].status = "revoked"
      BY <2>2 DEF Passport
    <3>4. QED
      BY <2>2, <3>2, <3>3, NullAssumption DEF Revoked
  <2>4. CASE CreateAgent(h)
    <3>1. /\ pending[h] # NULL /\ pending[h].action = "create-agent" /\ Authorize(pending[h])
          /\ putAgent(pending[h].subject, LocalPassport(pending[h].policy))
      BY <2>4 DEF CreateAgent
    <3>2. Usable(pending[h])
      BY <3>1 DEF Authorize, consumeNonce, Usable
    <3>3. pending[h].subject # a
      BY <2>2, <3>1, <3>2 DEF NamesFree
    <3>4. QED
      BY <2>1, <3>1, <3>3 DEF putAgent, Revoked
  <2>5. QED
    BY <1>1, <2>1, <2>3, <2>4 DEF HumanStep, HumanProgress, Receive, Refuse, Decide, SetPolicy,
                                  storeVars
<1>3. QED
  BY <1>1, <1>2, OnlyHumansWrite
  DEF Next, OwnerActs, Midnight, Tick, vars, storeVars

\* store.ts:136-141, app.ts:321-346, 390-413.  With local passports, whatever
\* creations, capabilities, revocations, submissions and collections interleave,
\* a revoked passport stays revoked, as long as no second creation of its name
\* is authorised.
THEOREM RevokedForGood ==
  ASSUME ~Ens, OneCreation
  PROVE  Spec => RevocationIsFinal
<1>1. Init => NamesFree
  BY DEF Init, HumanInit, NamesFree
<1>2. Typed /\ NamesFree /\ [Next]_vars => NamesFree'
  BY NextNamesFree
<1>3. Typed /\ NamesFree /\ [Next]_vars =>
        [\A a \in Agents :
           Revoked(agents[a]) /\ agents[a].source = "local" => Revoked(agents'[a])]_vars
  BY StepsKeepRevoked
<1>4. QED
  BY <1>1, <1>2, <1>3, GatewayTyped, PTL DEF Spec, RevocationIsFinal
=============================================================================
