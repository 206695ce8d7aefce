----------------------------- MODULE CheckProofs ----------------------------
(***************************************************************************)
(* What a check at the gate is worth when it is acted on, for any number   *)
(* of exchanges: the daily limit it compared, and the revocation it saw.   *)
(***************************************************************************)
EXTENDS GatewayProofs
-----------------------------------------------------------------------------
(***************************************************************************)
(* The daily limit, for any number of exchanges.                           *)
(*                                                                         *)
(* The limit is compared in reevaluate and the fare is added in collect,   *)
(* one promise later.  What carries the comparison across is that nothing  *)
(* else runs in that turn of the event loop and that both read the same    *)
(* clock, so those are the assumptions of the theorem; TLC finds the limit *)
(* overrun as soon as either of them is dropped.                           *)
(***************************************************************************)

\* The invariant: an exchange that has passed its check still fits.
Fits ==
  \A c \in Collectors :
    LET me == collector[c] IN
    /\ me.at = me.checkAt
    /\ ~Ens => me.pc # "resolving" /\ me.who # DOWN
    /\ me.pc = "checked" =>
         /\ me.who.policy \in Capability
         /\ spend[AgentOf(c)][me.at] + me.fare <= usdToMicros(me.who.policy.dailyLimitUsd)

\* No step of one exchange falls between another's check and its reservation.
LEMMA OneMidTurn ==
  ASSUME ~SharedTurn, NEW c \in Collectors, CollectionStep(c),
         NEW d \in Collectors, d # c
  PROVE  collector[d].pc # "checked"
<1>1. Quiet \/ Turn(c)
  BY DEF CollectionStep, Progress, ReachGate, Collect, Verified, ReadChain, Check, Reserve,
         DataArrives, FetchFails, Deliver, Settled, NotSettled, Disconnect
<1>2. ~MidTurn(d)
  BY <1>1 DEF Quiet, Turn
<1>3. QED
  BY <1>2 DEF MidTurn

\* An exchange that is not checked after its step only has to keep its clock.
LEMMA StaysFit ==
  ASSUME ~SharedTurn, Typed, Fits, NEW c \in Collectors, CollectionStep(c), NEW x,
         collector' = [collector EXCEPT ![c] = x], x.pc # "checked", x.at = x.checkAt,
         ~Ens => x.pc # "resolving" /\ x.who # DOWN
  PROVE  Fits'
<1> SUFFICES ASSUME NEW d \in Collectors
             PROVE  /\ collector'[d].at = collector'[d].checkAt
                    /\ ~Ens => collector'[d].pc # "resolving" /\ collector'[d].who # DOWN
                    /\ collector'[d].pc # "checked"
  BY DEF Fits
<1>1. CASE d = c
  <2>1. collector'[d] = x
    BY <1>1 DEF Typed, TypeOK, CollectionTypeOK
  <2>2. QED
    BY <2>1
<1>2. CASE d # c
  <2>1. collector'[d] = collector[d]
    BY <1>2
  <2>2. QED
    BY <1>2, <2>1, OneMidTurn DEF Fits
<1>3. QED
  BY <1>1, <1>2

LEMMA AnsweredFit ==
  ASSUME ~SharedTurn, Typed, Fits, NEW c \in Collectors, CollectionStep(c), Answered(c)
  PROVE  Fits'
<1>1. Idle.pc = "idle" /\ Idle.at = 0 /\ Idle.checkAt = 0 /\ Idle.who = NoPassport
  BY DEF Idle
<1>2. NoPassport # DOWN
  BY NothingResolved, IdentityAssumption
<1>3. QED
  BY <1>1, <1>2, StaysFit DEF Answered

LEMMA MovesFit ==
  ASSUME ~SharedTurn, Typed, Fits, NEW c \in Collectors, CollectionStep(c), NEW pc,
         MovesTo(c, pc), pc # "checked", pc # "resolving"
  PROVE  Fits'
<1> DEFINE x == [collector[c] EXCEPT !.pc = pc]
<1>1. collector[c] \in CollectorState
  BY DEF Typed, TypeOK, CollectionTypeOK
<1>2. /\ x.pc = pc /\ x.at = collector[c].at /\ x.checkAt = collector[c].checkAt
      /\ x.who = collector[c].who
  BY <1>1 DEF CollectorState
<1>3. collector' = [collector EXCEPT ![c] = x]
  BY DEF MovesTo
<1> HIDE DEF x
<1>4. x.at = x.checkAt /\ (~Ens => x.who # DOWN)
  BY <1>2 DEF Fits
<1>5. QED
  BY <1>2, <1>3, <1>4, StaysFit

LEMMA BeginCheckFit ==
  ASSUME ~SharedTurn, Typed, Fits, NEW c \in Collectors, CollectionStep(c),
         NEW r \in RequestIds, requests[r] # NULL, NEW stage, NEW t,
         BeginCheck(c, r, stage, t, t)
  PROVE  Fits'
<1> DEFINE x == [Idle EXCEPT !.pc = AfterCall, !.stage = stage, !.id = r, !.at = t,
                   !.checkAt = t, !.approval = requests[r].approval,
                   !.who = AnswerAtCall(requests[r].agent),
                   !.revokedOnEntry = RevokedAtTheSource(requests[r].agent)]
<1>1. collector' = [collector EXCEPT ![c] = x]
  BY DEF BeginCheck
<1>2. x.pc = AfterCall /\ x.at = x.checkAt /\ x.who = AnswerAtCall(requests[r].agent)
  BY DEF Idle
<1>3. AfterCall # "checked" /\ (~Ens => AfterCall # "resolving")
  BY DEF AfterCall
<1>4. AnswerAtCall(requests[r].agent) # DOWN
  <2>1. requests[r].agent \in Agents
    BY DEF Typed, TypeOK, StoreTypeOK, AccessRequest
  <2>2. AnswerAtCall(requests[r].agent) \in Resolution
    BY <2>1, AnswerTyped DEF Typed, TypeOK
  <2>3. QED
    BY <2>2, IdentityAssumption
<1> HIDE DEF x
<1>5. QED
  BY <1>1, <1>2, <1>3, <1>4, StaysFit

LEMMA EnterRouteFit ==
  ASSUME ~SharedTurn, ~ClockMayTurn, Typed, Fits, NEW c \in Collectors, CollectionStep(c),
         NEW r \in RequestIds, EnterRoute(c, r)
  PROVE  Fits'
<1>1. CASE Answered(c)
  BY <1>1, AnsweredFit
<1>2. CASE r \notin inFlight /\ Evaluable(r)
  <2>1. BeginCheck(c, r, "release", today, today)
    BY <1>2 DEF EnterRoute
  <2>2. QED
    BY <1>2, <2>1, BeginCheckFit DEF Evaluable
<1>3. QED
  BY <1>1, <1>2 DEF EnterRoute

\* The check admits what the day still has room for.
LEMMA PassesFit ==
  ASSUME ~SharedTurn, Typed, Fits, NEW c \in Collectors, CollectionStep(c),
         collector[c].pc = "resolved", UNCHANGED <<spend, requests>>,
         NEW who, who = Resolve(requests[collector[c].id].agent, collector[c].who),
         CheckPasses(c, who),
         collector' = [collector EXCEPT ![c].pc = "checked", ![c].who = who,
           ![c].fare = priceQueryMicros(requests[collector[c].id].query)]
  PROVE  Fits'
<1> DEFINE me == collector[c]
           request == requests[me.id]
           cost == priceQueryMicros(request.query)
           in == CheckInput(c, who)
           x == [me EXCEPT !.pc = "checked", !.who = who, !.fare = cost]
<1>1. /\ me \in CollectorState /\ me.id \in RequestIds
      /\ request \in AccessRequest /\ request.agent \in Agents
  BY DEF Typed, TypeOK, StoreTypeOK, CollectionTypeOK, Placed, AccessRequest
<1>2. collector' = [collector EXCEPT ![c] = x]
  BY DEF Typed, TypeOK, CollectionTypeOK
<1>3. /\ x.pc = "checked" /\ x.at = me.at /\ x.checkAt = me.checkAt /\ x.id = me.id
      /\ x.who = who /\ x.fare = cost
  BY <1>1 DEF CollectorState
<1>4. me.at \in Days /\ me.at = me.checkAt /\ (~Ens => me.who # DOWN)
  BY <1>1 DEF Fits, CollectorState
<1>5. who \in Resolution
  <2>1. me.who \in Resolution \cup {DOWN}
    BY <1>1 DEF CollectorState
  <2>2. FallBack(request.agent) \in Resolution
    BY <1>1, AnswerTyped DEF Typed, TypeOK
  <2>3. QED
    BY <1>4, <2>1, <2>2, NothingResolved DEF Resolve, ResolveEns, Found
<1>6. spend[request.agent][me.at] \in Nat
  BY <1>1, <1>4 DEF Typed, TypeOK, StoreTypeOK
<1>7. /\ in.policy = who.policy /\ in.query = request.query
      /\ in.spentTodayMicros = spend[request.agent][me.at]
  BY <1>4 DEF CheckInput
<1>8. evaluatePolicy(in).allowed
  BY DEF CheckPasses
<1>9. in.query \in ResourceQuery
  BY <1>1, <1>7 DEF AccessRequest
<1> HIDE DEF in
<1>10. in.policy \in Capability
  <2>1. in.policy # NULL
    BY <1>8, AllowedExpanded, PassesExpanded, FailsExpanded
  <2>2. QED
    BY <1>5, <1>7, <2>1 DEF Resolution
<1>11. spend[request.agent][me.at] + cost <= usdToMicros(who.policy.dailyLimitUsd)
  BY <1>6, <1>7, <1>8, <1>9, <1>10, AllowedWithinLimits
<1>12. ~Ens => who # DOWN
  BY <1>5, IdentityAssumption
<1> HIDE DEF x, cost
<1>13. ASSUME NEW d \in Collectors
       PROVE  (LET my == collector[d] IN
               /\ my.at = my.checkAt
               /\ ~Ens => my.pc # "resolving" /\ my.who # DOWN
               /\ my.pc = "checked" =>
                    /\ my.who.policy \in Capability
                    /\ spend[AgentOf(d)][my.at] + my.fare
                         <= usdToMicros(my.who.policy.dailyLimitUsd))'
  <2>1. CASE d = c
    <3>1. collector'[d] = x
      BY <1>2, <2>1 DEF Typed, TypeOK, CollectionTypeOK
    <3>2. AgentOf(d)' = request.agent /\ UNCHANGED spend
      BY <1>3, <3>1 DEF AgentOf
    <3>3. spend'[AgentOf(d)'][x.at] + x.fare <= usdToMicros(x.who.policy.dailyLimitUsd)
      BY <1>3, <1>11, <3>2
    <3>4. x.at = x.checkAt /\ x.who.policy \in Capability
          /\ (~Ens => x.pc # "resolving" /\ x.who # DOWN)
      BY <1>3, <1>4, <1>7, <1>10, <1>12
    <3>5. QED
      BY <3>1, <3>3, <3>4
  <2>2. CASE d # c
    <3>1. collector'[d] = collector[d]
      BY <1>2, <2>2 DEF Typed, TypeOK, CollectionTypeOK
    <3>2. collector[d].pc # "checked"
      BY <2>2, OneMidTurn
    <3>3. QED
      BY <3>1, <3>2 DEF Fits
  <2>3. QED
    BY <2>1, <2>2
<1>14. QED
  BY <1>13, Zenon DEF Fits

LEMMA CheckFit ==
  ASSUME ~SharedTurn, Typed, Fits, NEW c \in Collectors, CollectionStep(c), Check(c)
  PROVE  Fits'
<1> DEFINE r == collector[c].id
           who == Resolve(requests[r].agent, collector[c].who)
<1>1. r \in RequestIds /\ requests[r] # NULL /\ collector[c].pc = "resolved" /\ UNCHANGED spend
  BY DEF Check, Typed, Placed
<1>2. CASE Answered(c)
  BY <1>2, AnsweredFit
<1>3. CASE PassGate(c)
  <2>1. BeginCheck(c, r, "price", today, today) \/ Answered(c)
    BY <1>3 DEF PassGate
  <2>2. QED
    BY <1>1, <2>1, BeginCheckFit, AnsweredFit
<1>4. CASE Quote(c)
  BY <1>4, AnsweredFit, MovesFit DEF Quote
<1>5. CASE /\ CheckPasses(c, who)
           /\ collector' = [collector EXCEPT ![c].pc = "checked", ![c].who = who,
                                             ![c].fare = priceQueryMicros(requests[r].query)]
           /\ UNCHANGED <<requests, audit, inFlight>>
  <2> HIDE DEF who
  <2>1. QED
    BY <1>1, <1>5, PassesFit DEF who
<1>6. QED
  BY <1>2, <1>3, <1>4, <1>5, Zenon DEF Check

LEMMA CollectionStepFit ==
  ASSUME ~SharedTurn, ~ClockMayTurn, Typed, Fits, NEW c \in Collectors, CollectionStep(c)
  PROVE  Fits'
<1>1. collector[c].pc # "idle" => collector[c].id \in RequestIds
  BY DEF Typed, Placed
<1>2. ASSUME NEW r \in RequestIds, ReachGate(c, r)
      PROVE  Fits'
  <2>1. CASE Evaluable(r)
    BY <1>2, <2>1, BeginCheckFit DEF ReachGate, Evaluable
  <2>2. CASE ~Evaluable(r)
    <3>1. UNCHANGED collector /\ collector[c].pc = "idle"
      BY <1>2, <2>2 DEF ReachGate
    <3>2. collector' = [collector EXCEPT ![c] = collector[c]]
      BY <3>1 DEF Typed, TypeOK, CollectionTypeOK
    <3>3. collector[c].at = collector[c].checkAt /\ (~Ens => collector[c].who # DOWN)
      BY DEF Fits
    <3>4. QED
      BY <3>1, <3>2, <3>3, StaysFit
  <2>3. QED
    BY <2>1, <2>2
<1>3. ASSUME NEW r \in RequestIds, Collect(c, r)
      PROVE  Fits'
  BY <1>3, EnterRouteFit DEF Collect
<1>4. CASE Verified(c)
  BY <1>1, <1>4, EnterRouteFit, AnsweredFit DEF Verified
<1>5. CASE ReadChain(c)
  <2>1. PICK answer : collector' = [collector EXCEPT ![c].pc = "resolved", ![c].who = answer]
    BY <1>5, Zenon DEF ReadChain
  <2> DEFINE x == [collector[c] EXCEPT !.pc = "resolved", !.who = answer]
  <2>2. collector' = [collector EXCEPT ![c] = x]
    BY <2>1 DEF Typed, TypeOK, CollectionTypeOK
  <2>3. x.pc = "resolved" /\ x.at = collector[c].at /\ x.checkAt = collector[c].checkAt
    BY DEF Typed, TypeOK, CollectionTypeOK, CollectorState
  <2>4. Ens /\ collector[c].at = collector[c].checkAt
    BY <1>5 DEF ReadChain, Fits
  <2> HIDE DEF x
  <2>5. QED
    BY <2>2, <2>3, <2>4, StaysFit
<1>6. CASE Check(c)
  BY <1>6, CheckFit
<1>7. CASE Reserve(c)
  BY <1>7, MovesFit DEF Reserve
<1>8. CASE DataArrives(c)
  BY <1>8, MovesFit DEF DataArrives
<1>9. CASE Deliver(c)
  BY <1>9, AnsweredFit, MovesFit DEF Deliver
<1>10. CASE FetchFails(c) \/ Settled(c) \/ NotSettled(c) \/ Disconnect(c)
  BY <1>10, AnsweredFit DEF FetchFails, Settled, NotSettled, Disconnect
<1>11. QED
  BY <1>2, <1>3, <1>4, <1>5, <1>6, <1>7, <1>8, <1>9, <1>10 DEF CollectionStep, Progress

\* What runs between turns finds no exchange checked; owners and the clock
\* touch neither the exchanges nor the ledger.
LEMMA OthersFit ==
  ASSUME Fits, UNCHANGED collector,
         \/ UNCHANGED <<spend, requests>>
         \/ \A c \in Collectors : collector[c].pc # "checked"
  PROVE  Fits'
  BY DEF Fits, AgentOf

LEMMA NextFit ==
  ASSUME ~SharedTurn, ~ClockMayTurn, Typed, Fits, [Next]_vars
  PROVE  Fits'
<1>1. ASSUME NEW c \in Collectors, Collecting(c)
      PROVE  Fits'
  BY <1>1, CollectionStepFit DEF Collecting
<1>2. CASE Quiet /\ UNCHANGED collector
  BY <1>2, OthersFit DEF Quiet, MidTurn
<1>3. CASE UNCHANGED <<collector, spend, requests>>
  BY <1>3, OthersFit
<1>4. QED
  BY <1>1, <1>2, <1>3
  DEF Next, Acting, HumansTurn, Submitting, OwnerActs, Midnight, Tick, vars, storeVars, collectionVars

\* Only a reservation makes a passport's spend grow.
LEMMA OnlyReserveCharges ==
  ASSUME Typed, [Next]_vars, NEW a \in Agents, NEW d \in Days, spend'[a][d] > spend[a][d]
  PROVE  \E c \in Collectors : Reserve(c)
<1>1. spend \in [Agents -> [Days -> Nat]]
  BY DEF Typed, TypeOK, StoreTypeOK
<1>2. ~(UNCHANGED spend)
  BY <1>1
<1>3. PICK c \in Collectors : CollectionStep(c)
  BY <1>2, Zenon
  DEF Next, Collecting, Acting, Submitting, OwnerActs, Midnight, Tick, vars, storeVars,
      HumanStep, HumanProgress, Receive, Refuse, Decide, CreateAgent, SetPolicy, Revoke,
      SubmissionStep, SubmissionProgress, Submit, ReadChainForSubmission, Interpret, Record
<1>4. Reserve(c) \/ Release(c)
  BY <1>2, <1>3
  DEF CollectionStep, Progress, ReachGate, Collect, Verified, ReadChain, Check, DataArrives,
      FetchFails, Deliver, Settled, NotSettled, Disconnect, storeVars
<1>5. ~Release(c)
  <2> DEFINE b == requests[collector[c].id].agent
  <2>1. ASSUME Release(c) PROVE spend'[a][d] <= spend[a][d]
    <3>1. collector[c].fare \in Nat
      BY DEF Typed, TypeOK, CollectionTypeOK, CollectorState
    <3>2. spend' = [spend EXCEPT ![b][collector[c].at] =
                      IF @ > collector[c].fare THEN @ - collector[c].fare ELSE 0]
      BY <2>1 DEF Release, releaseSpend
    <3>3. spend'[a][d] = IF a = b /\ d = collector[c].at
                         THEN IF spend[a][d] > collector[c].fare
                              THEN spend[a][d] - collector[c].fare ELSE 0
                         ELSE spend[a][d]
      <4> HIDE DEF b
      <4> QED BY <1>1, <3>2
    <3>4. spend[a][d] \in Nat
      BY <1>1
    <3>5. QED
      BY <3>1, <3>3, <3>4
  <2>2. spend'[a][d] \in Int /\ spend[a][d] \in Int
    <3>1. Typed'
      BY NextTyped
    <3>2. QED
      BY <1>1, <3>1 DEF Typed, TypeOK, StoreTypeOK
  <2>3. QED
    BY <2>1, <2>2
<1>6. QED
  BY <1>4, <1>5

LEMMA StepsWithinBudget ==
  ASSUME Typed, Fits, [Next]_vars
  PROVE  \A a \in Agents, d \in Days :
           spend'[a][d] > spend[a][d] =>
             \E c \in Collectors :
               /\ collector[c].pc = "checked" /\ collector'[c].pc = "fetching"
               /\ spend'[a][d] <= usdToMicros(collector[c].who.policy.dailyLimitUsd)
<1> SUFFICES ASSUME NEW a \in Agents, NEW d \in Days, spend'[a][d] > spend[a][d]
             PROVE  \E c \in Collectors :
               /\ collector[c].pc = "checked" /\ collector'[c].pc = "fetching"
               /\ spend'[a][d] <= usdToMicros(collector[c].who.policy.dailyLimitUsd)
  OBVIOUS
<1>1. PICK c \in Collectors : Reserve(c)
  BY OnlyReserveCharges
<1>2. /\ spend \in [Agents -> [Days -> Nat]] /\ collector \in [Collectors -> CollectorState]
      /\ collector[c].fare \in Nat
  BY DEF Typed, TypeOK, StoreTypeOK, CollectionTypeOK, CollectorState
<1>3. collector[c].pc = "checked" /\ collector'[c].pc = "fetching"
  BY <1>1, <1>2 DEF Reserve, MovesTo, CollectorState
<1>4. spend' = [spend EXCEPT ![AgentOf(c)][collector[c].at] = @ + collector[c].fare]
  BY <1>1 DEF Reserve, recordSpend, AgentOf
<1>5. a = AgentOf(c) /\ d = collector[c].at
  BY <1>2, <1>4
<1>6. spend'[a][d] = spend[a][d] + collector[c].fare
  BY <1>2, <1>4, <1>5
<1>7. QED
  BY <1>1, <1>3, <1>5, <1>6 DEF Fits

\* data.ts:121-123, policy.ts:208-223.  With nothing between a check and its
\* reservation and one clock reading for both, no exchange takes a passport
\* over the daily limit of the capability it resolved, however many exchanges
\* are open, fail, are retried or give their fare back meanwhile.
THEOREM DailyLimitHolds ==
  ASSUME ~SharedTurn, ~ClockMayTurn
  PROVE  Spec => BudgetRespected
<1>1. Init => Fits
  <2>1. /\ Idle.pc = "idle" /\ Idle.at = Idle.checkAt /\ Idle.who = NoPassport
        /\ NoPassport # DOWN
    BY NothingResolved, IdentityAssumption DEF Idle
  <2>2. QED
    BY <2>1 DEF Init, CollectionInit, Fits
<1>2. Typed /\ Fits /\ [Next]_vars => Fits'
  BY NextFit
<1>3. Typed /\ Fits /\ [Next]_vars =>
        [\A a \in Agents, d \in Days :
           spend'[a][d] > spend[a][d] =>
             \E c \in Collectors :
               /\ collector[c].pc = "checked" /\ collector'[c].pc = "fetching"
               /\ spend'[a][d] <= usdToMicros(collector[c].who.policy.dailyLimitUsd)]_vars
  BY StepsWithinBudget
<1>4. QED
  BY <1>1, <1>2, <1>3, GatewayTyped, PTL DEF Spec, BudgetRespected
-----------------------------------------------------------------------------
(***************************************************************************)
(* The kill switch, for any number of exchanges and in either source of    *)
(* truth: a passport that is revoked where its authority lies gets nothing *)
(* out of a check that begins afterwards.                                  *)
(*                                                                         *)
(* The answer of a check may arrive long after the revocation, and the     *)
(* store may hold any copy of the passport by then.  The invariant says    *)
(* what the answer can still be.                                           *)
(***************************************************************************)

\* What an exchange that began with its passport revoked may come to know.
Caught(c) ==
  LET me == collector[c]
      a == AgentOf(c) IN
  me.revokedOnEntry =>
    /\ me.pc \in {"resolving", "resolved"}
    /\ Ens => /\ isPassportName(a) /\ Revoked(chain[a].agent)
              /\ me.pc = "resolved" => me.who \in {chain[a], DOWN}
    /\ ~Ens => me.pc = "resolved" /\ Revoked(me.who.agent)

\* A stored request keeps its agent.
AgentsStay ==
  \A r \in RequestIds : requests[r] # NULL => requests'[r].agent = requests[r].agent

\* A revoked name stays as it is.
RevokedNamesStay == \A a \in Agents : Revoked(chain[a].agent) => chain'[a] = chain[a]
-----------------------------------------------------------------------------
(* Requests keep their agents *)

LEMMA PatchKeepsAgent ==
  ASSUME NEW x \in AccessRequest
  PROVE  /\ \A refusal : [x EXCEPT !.lastRefusal = refusal].agent = x.agent
         /\ \A status : [x EXCEPT !.status = status].agent = x.agent
         /\ \A payment : [x EXCEPT !.payment = payment].agent = x.agent
  BY DEF AccessRequest

LEMMA PatchesKeepAgent ==
  ASSUME NEW x \in AccessRequest, NEW status, NEW payment, NEW approval
  PROVE  /\ [x EXCEPT !.status = status, !.payment = payment].agent = x.agent
         /\ [x EXCEPT !.approval = approval, !.status = status].agent = x.agent
  BY DEF AccessRequest

LEMMA UpdateKeepsAgents ==
  ASSUME Typed, NEW r \in RequestIds, NEW patched, updateRequest(r, patched),
         requests[r] # NULL => patched.agent = requests[r].agent
  PROVE  AgentsStay
  BY DEF AgentsStay, updateRequest, Typed, TypeOK, StoreTypeOK

LEMMA RefusalKeepsAgents ==
  ASSUME Typed, NEW r \in RequestIds, NEW stage, RecordRefusal(r, stage)
  PROVE  AgentsStay
<1>1. CASE stage = "price"
  BY <1>1 DEF RecordRefusal, AgentsStay
<1>2. CASE stage # "price"
  <2> DEFINE refusal == IF stage = "gate" THEN "pre-payment" ELSE "data-release"
  <2>1. updateRequest(r, [requests[r] EXCEPT !.lastRefusal = refusal])
    BY <1>2 DEF RecordRefusal
  <2>2. requests[r] # NULL => requests[r] \in AccessRequest
    BY DEF Typed, TypeOK, StoreTypeOK
  <2> HIDE DEF refusal
  <2>3. QED
    BY <2>1, <2>2, PatchKeepsAgent, UpdateKeepsAgents
<1>3. QED
  BY <1>1, <1>2

LEMMA CollectionStepKeepsAgents ==
  ASSUME Typed, NEW c \in Collectors, CollectionStep(c)
  PROVE  AgentsStay
<1> DEFINE id == collector[c].id
<1>1. collector[c].pc # "idle" =>
        id \in RequestIds /\ requests[id] # NULL /\ requests[id] \in AccessRequest
  BY DEF Typed, TypeOK, StoreTypeOK, Placed
<1>2. CASE UNCHANGED requests
  BY <1>2 DEF AgentsStay
<1>3. ASSUME NEW r \in RequestIds, NEW stage, RecordRefusal(r, stage)
      PROVE  AgentsStay
  BY <1>3, RefusalKeepsAgents
<1>4. CASE FetchFails(c)
  <2>1. updateRequest(id, [requests[id] EXCEPT !.status = "failed"])
        /\ collector[c].pc = "fetching"
    BY <1>4 DEF FetchFails
  <2>2. [requests[id] EXCEPT !.status = "failed"].agent = requests[id].agent
    BY <1>1, <2>1, PatchKeepsAgent
  <2>3. QED
    BY <1>1, <2>1, <2>2, UpdateKeepsAgents
<1>5. CASE Deliver(c)
  <2> DEFINE payment == IF Live THEN "unsettled" ELSE "settled"
             patched == [requests[id] EXCEPT !.status = "fulfilled", !.payment = payment]
  <2>1. updateRequest(id, patched) /\ collector[c].pc = "analyzing"
    BY <1>5 DEF Deliver
  <2>2. patched.agent = requests[id].agent
    BY <1>1, <2>1, PatchesKeepAgent
  <2> HIDE DEF patched
  <2>3. QED
    BY <1>1, <2>1, <2>2, UpdateKeepsAgents
<1>6. CASE Settled(c)
  <2>1. updateRequest(id, [requests[id] EXCEPT !.payment = "settled"])
        /\ collector[c].pc = "settling"
    BY <1>6 DEF Settled
  <2>2. [requests[id] EXCEPT !.payment = "settled"].agent = requests[id].agent
    BY <1>1, <2>1, PatchKeepsAgent
  <2>3. QED
    BY <1>1, <2>1, <2>2, UpdateKeepsAgents
<1>7. CASE NotSettled(c)
  <2> DEFINE patched == [requests[id] EXCEPT !.status = "failed", !.payment = "none"]
  <2>1. updateRequest(id, patched) /\ collector[c].pc = "settling"
    BY <1>7 DEF NotSettled
  <2>2. patched.agent = requests[id].agent
    BY <1>1, <2>1, PatchesKeepAgent
  <2> HIDE DEF patched
  <2>3. QED
    BY <1>1, <2>1, <2>2, UpdateKeepsAgents
<1>8. CASE Check(c)
  BY <1>1, <1>2, <1>3, <1>8 DEF Check, PassGate, Quote
<1>9. ASSUME NEW r \in RequestIds, EnterRoute(c, r)
      PROVE  AgentsStay
  BY <1>2, <1>3, <1>9, Zenon DEF EnterRoute
<1>10. QED
  BY <1>1, <1>2, <1>3, <1>4, <1>5, <1>6, <1>7, <1>8, <1>9
  DEF CollectionStep, Progress, ReachGate, Collect, Verified, ReadChain, Reserve, DataArrives,
      Disconnect, storeVars

LEMMA NextKeepsAgents ==
  ASSUME Typed, [Next]_vars
  PROVE  AgentsStay
<1>1. CASE UNCHANGED requests
  BY <1>1 DEF AgentsStay
<1>2. ASSUME NEW c \in Collectors, Collecting(c)
      PROVE  AgentsStay
  BY <1>2, CollectionStepKeepsAgents DEF Collecting
<1>3. ASSUME NEW h \in Humans, Decide(h)
      PROVE  AgentsStay
  <2> DEFINE e == pending[h]
             approval == IF e.action = "approve-request" THEN "approved" ELSE "rejected"
             status == IF e.action = "approve-request" THEN "payment_required" ELSE "rejected"
             patched == [requests[e.subject] EXCEPT !.approval = approval, !.status = status]
  <2>1. updateRequest(e.subject, patched)
    BY <1>3 DEF Decide
  <2>2. e.subject \in RequestIds
    BY <1>3, PendingTyped DEF Decide, Typed, TypeOK
  <2>3. requests[e.subject] # NULL => patched.agent = requests[e.subject].agent
    <3>1. requests[e.subject] # NULL => requests[e.subject] \in AccessRequest
      BY <2>2 DEF Typed, TypeOK, StoreTypeOK
    <3> HIDE DEF approval, status
    <3>2. QED
      BY <3>1, PatchesKeepAgent
  <2> HIDE DEF patched
  <2>4. QED
    BY <2>1, <2>2, <2>3, UpdateKeepsAgents
<1>4. ASSUME NEW s \in Submitters, Record(s)
      PROVE  AgentsStay
  <2>1. PICK r \in RequestIds : requests[r] = NULL /\ \E x : putRequest(r, x)
    BY <1>4, Zenon DEF Record
  <2>2. QED
    BY <2>1 DEF putRequest, AgentsStay, Typed, TypeOK, StoreTypeOK
<1>5. QED
  BY <1>1, <1>2, <1>3, <1>4
  DEF Next, Acting, Submitting, OwnerActs, Midnight, Tick, vars, storeVars,
      HumanStep, HumanProgress, Receive, Refuse, CreateAgent, SetPolicy, Revoke,
      SubmissionStep, SubmissionProgress, Submit, ReadChainForSubmission, Interpret
-----------------------------------------------------------------------------
(* What a revoked passport's exchange can still do *)

\* The steps of the others change nothing that Caught depends on.
LEMMA UntouchedCaught ==
  ASSUME Typed, AgentsStay, RevokedNamesStay, NEW d \in Collectors, Caught(d),
         collector'[d] = collector[d]
  PROVE  Caught(d)'
<1> SUFFICES ASSUME collector[d].revokedOnEntry PROVE Caught(d)'
  BY DEF Caught
<1>1. /\ collector[d].pc # "idle" /\ collector[d].id \in RequestIds
      /\ requests[collector[d].id] # NULL
  BY DEF Caught, Typed, Placed
<1>2. AgentOf(d)' = AgentOf(d) /\ AgentOf(d) \in Agents
  BY <1>1 DEF AgentOf, AgentsStay, Typed, TypeOK, StoreTypeOK, AccessRequest
<1>3. Revoked(chain[AgentOf(d)].agent) => chain'[AgentOf(d)] = chain[AgentOf(d)]
  BY <1>2 DEF RevokedNamesStay
<1>4. QED
  BY <1>2, <1>3 DEF Caught, Revoked

LEMMA FreeIsNotCaught ==
  ASSUME Typed, NEW c \in Collectors, NEW x, collector' = [collector EXCEPT ![c] = x],
         ~x.revokedOnEntry
  PROVE  Caught(c)'
  BY DEF Caught, Typed, TypeOK, CollectionTypeOK

LEMMA AnsweredNotCaught ==
  ASSUME Typed, NEW c \in Collectors, Answered(c)
  PROVE  Caught(c)'
<1>1. ~Idle.revokedOnEntry
  BY DEF Idle
<1>2. QED
  BY <1>1, FreeIsNotCaught DEF Answered

LEMMA MovesNotCaught ==
  ASSUME Typed, NEW c \in Collectors, NEW pc, MovesTo(c, pc), ~collector[c].revokedOnEntry
  PROVE  Caught(c)'
<1> DEFINE x == [collector[c] EXCEPT !.pc = pc]
<1>1. collector' = [collector EXCEPT ![c] = x]
  BY DEF MovesTo
<1>2. ~x.revokedOnEntry
  BY DEF Typed, TypeOK, CollectionTypeOK, CollectorState
<1> HIDE DEF x
<1>3. QED
  BY <1>1, <1>2, FreeIsNotCaught

LEMMA BeginCheckCaught ==
  ASSUME Typed, AgentsStay, UNCHANGED chain, NEW c \in Collectors,
         NEW r \in RequestIds, requests[r] # NULL, NEW stage, NEW at, NEW checkAt,
         BeginCheck(c, r, stage, at, checkAt)
  PROVE  Caught(c)'
<1> DEFINE a == requests[r].agent
           x == [Idle EXCEPT !.pc = AfterCall, !.stage = stage, !.id = r, !.at = at,
                   !.checkAt = checkAt, !.approval = requests[r].approval,
                   !.who = AnswerAtCall(a), !.revokedOnEntry = RevokedAtTheSource(a)]
<1>1. collector' = [collector EXCEPT ![c] = x]
  BY DEF BeginCheck
<1>2. collector'[c] = x
  BY <1>1 DEF Typed, TypeOK, CollectionTypeOK
<1>3. /\ x.pc = AfterCall /\ x.id = r /\ x.who = AnswerAtCall(a)
      /\ x.revokedOnEntry = RevokedAtTheSource(a)
  BY DEF Idle
<1> HIDE DEF x
<1>4. AgentOf(c)' = a
  BY <1>2, <1>3 DEF AgentOf, AgentsStay
<1>5. CASE Ens
  BY <1>2, <1>3, <1>4, <1>5 DEF Caught, AfterCall, RevokedAtTheSource
<1>6. CASE ~Ens
  <2>1. Revoked(agents[a]) => Revoked(AnswerAtCall(a).agent)
    BY <1>6 DEF AnswerAtCall, ResolveLocal, Revoked
  <2>2. QED
    BY <1>2, <1>3, <1>6, <2>1 DEF Caught, AfterCall, RevokedAtTheSource
<1>7. QED
  BY <1>5, <1>6

\* No check passes for a passport that was revoked when the check began.
LEMMA RevokedNeverPasses ==
  ASSUME Typed, NEW c \in Collectors, Caught(c), collector[c].pc = "resolved",
         CheckPasses(c, Resolve(AgentOf(c), collector[c].who))
  PROVE  ~collector[c].revokedOnEntry
<1> SUFFICES ASSUME collector[c].revokedOnEntry PROVE FALSE
  BY DEF Typed, TypeOK, CollectionTypeOK, CollectorState
<1> DEFINE a == AgentOf(c)
           answer == collector[c].who
           who == Resolve(a, answer)
           in == CheckInput(c, who)
<1>1. in.agent = who.agent /\ evaluatePolicy(in).allowed
  BY DEF CheckInput, CheckPasses
<1>2. who.agent = NULL \/ Revoked(who.agent)
  <2>1. CASE Ens
    <3>1. isPassportName(a) /\ Revoked(chain[a].agent) /\ answer \in {chain[a], DOWN}
      BY <2>1 DEF Caught
    <3>2. CASE Found(answer)
      BY <2>1, <3>1, <3>2 DEF Resolve, ResolveEns, Found
    <3>3. CASE ~Found(answer)
      BY <2>1, <3>1, <3>3 DEF Resolve, ResolveEns, NoPassport
    <3>4. QED
      BY <3>2, <3>3
  <2>2. CASE ~Ens
    BY <2>2 DEF Caught, Resolve
  <2>3. QED
    BY <2>1, <2>2
<1> HIDE DEF in, who
<1>3. in.agent # NULL /\ in.agent.status # "revoked"
  BY <1>1, AllowedExpanded, PassesExpanded, FailsExpanded
<1>4. QED
  BY <1>1, <1>2, <1>3 DEF Revoked

LEMMA CheckCaught ==
  ASSUME Typed, AgentsStay, UNCHANGED chain, NEW c \in Collectors, Caught(c), Check(c)
  PROVE  Caught(c)'
<1> DEFINE r == collector[c].id
           who == Resolve(requests[r].agent, collector[c].who)
<1>1. r \in RequestIds /\ requests[r] # NULL /\ collector[c].pc = "resolved"
  BY DEF Check, Typed, Placed
<1>2. CASE Answered(c)
  BY <1>2, AnsweredNotCaught
<1>3. CASE CheckPasses(c, who) /\ PassGate(c)
  BY <1>1, <1>3, BeginCheckCaught, AnsweredNotCaught DEF PassGate
<1>4. CASE CheckPasses(c, who) /\ Quote(c)
  <2>1. ~collector[c].revokedOnEntry
    BY <1>1, <1>4, RevokedNeverPasses DEF AgentOf
  <2>2. QED
    BY <1>4, <2>1, AnsweredNotCaught, MovesNotCaught DEF Quote
<1>5. CASE /\ CheckPasses(c, who)
           /\ collector' = [collector EXCEPT ![c].pc = "checked", ![c].who = who,
                                             ![c].fare = priceQueryMicros(requests[r].query)]
  <2>1. ~collector[c].revokedOnEntry
    BY <1>1, <1>5, RevokedNeverPasses DEF AgentOf
  <2> DEFINE price == priceQueryMicros(requests[r].query)
             x == [collector[c] EXCEPT !.pc = "checked", !.who = who, !.fare = price]
  <2>2. collector' = [collector EXCEPT ![c] = x]
    BY <1>5 DEF Typed, TypeOK, CollectionTypeOK
  <2> HIDE DEF who, price
  <2>3. ~x.revokedOnEntry
    BY <2>1 DEF Typed, TypeOK, CollectionTypeOK, CollectorState
  <2> HIDE DEF x
  <2>4. QED
    BY <2>2, <2>3, FreeIsNotCaught
<1>6. QED
  BY <1>2, <1>3, <1>4, <1>5, Zenon DEF Check

LEMMA ReadChainCaught ==
  ASSUME Typed, AgentsStay, UNCHANGED chain, NEW c \in Collectors, Caught(c), ReadChain(c)
  PROVE  Caught(c)'
<1>1. PICK answer \in ChainAnswers(AgentOf(c)) :
        collector' = [collector EXCEPT ![c].pc = "resolved", ![c].who = answer]
  BY Zenon DEF ReadChain, AgentOf
<1> DEFINE x == [collector[c] EXCEPT !.pc = "resolved", !.who = answer]
<1>2. collector'[c] = x
  BY <1>1 DEF Typed, TypeOK, CollectionTypeOK
<1>3. /\ x.pc = "resolved" /\ x.id = collector[c].id /\ x.who = answer
      /\ x.revokedOnEntry = collector[c].revokedOnEntry
  BY DEF Typed, TypeOK, CollectionTypeOK, CollectorState
<1> HIDE DEF x
<1>4. collector[c].id \in RequestIds /\ requests[collector[c].id] # NULL
      /\ collector[c].pc = "resolving"
  BY DEF ReadChain, Typed, Placed
<1>5. AgentOf(c)' = AgentOf(c)
  BY <1>2, <1>3, <1>4 DEF AgentOf, AgentsStay
<1>6. QED
  BY <1>1, <1>2, <1>3, <1>4, <1>5 DEF Caught, ChainAnswers

LEMMA CollectionStepCaught ==
  ASSUME Typed, AgentsStay, UNCHANGED chain, NEW c \in Collectors, Caught(c), CollectionStep(c)
  PROVE  Caught(c)'
<1>1. /\ collector[c].pc # "idle" => collector[c].id \in RequestIds
      /\ collector[c].revokedOnEntry \in BOOLEAN
      /\ collector[c].pc \notin {"resolving", "resolved"} => ~collector[c].revokedOnEntry
  BY DEF Typed, TypeOK, CollectionTypeOK, CollectorState, Placed, Caught
<1>2. RevokedNamesStay
  BY DEF RevokedNamesStay
<1>3. CASE UNCHANGED collector
  BY <1>2, <1>3, UntouchedCaught
<1>4. CASE Answered(c)
  BY <1>4, AnsweredNotCaught
<1>5. ASSUME NEW r \in RequestIds, EnterRoute(c, r)
      PROVE  Caught(c)'
  <2>1. CASE r \notin inFlight /\ Evaluable(r)
    <3>1. PICK t : BeginCheck(c, r, "release", today, t)
      BY <1>5, <2>1, Zenon DEF EnterRoute
    <3>2. QED
      BY <2>1, <3>1, BeginCheckCaught DEF Evaluable
  <2>2. CASE ~(r \notin inFlight /\ Evaluable(r))
    BY <1>4, <1>5, <2>2 DEF EnterRoute
  <2>3. QED
    BY <2>1, <2>2
<1>6. ASSUME NEW r \in RequestIds, ReachGate(c, r)
      PROVE  Caught(c)'
  <2>1. CASE Evaluable(r)
    BY <1>6, <2>1, BeginCheckCaught DEF ReachGate, Evaluable
  <2>2. CASE ~Evaluable(r)
    BY <1>3, <1>6, <2>2 DEF ReachGate
  <2>3. QED
    BY <2>1, <2>2
<1>7. CASE Verified(c)
  BY <1>1, <1>4, <1>5, <1>7 DEF Verified
<1>8. CASE Reserve(c) \/ DataArrives(c) \/ Deliver(c)
  BY <1>1, <1>4, <1>8, MovesNotCaught DEF Reserve, DataArrives, Deliver
<1>9. CASE FetchFails(c) \/ Settled(c) \/ NotSettled(c) \/ Disconnect(c)
  BY <1>4, <1>9 DEF FetchFails, Settled, NotSettled, Disconnect
<1>10. QED
  BY <1>5, <1>6, <1>7, <1>8, <1>9, CheckCaught, ReadChainCaught
  DEF CollectionStep, Progress, Collect

\* A step of one exchange moves no other.
LEMMA OthersStay ==
  ASSUME Typed, NEW c \in Collectors, CollectionStep(c), NEW d \in Collectors, d # c
  PROVE  collector'[d] = collector[d]
<1>1. ASSUME NEW x, collector' = [collector EXCEPT ![c] = x]
      PROVE  collector'[d] = collector[d]
  BY <1>1
<1>2. CASE Answered(c)
  BY <1>1, <1>2 DEF Answered
<1>3. ASSUME NEW pc, MovesTo(c, pc)
      PROVE  collector'[d] = collector[d]
  BY <1>1, <1>3 DEF MovesTo
<1>4. ASSUME NEW r, NEW stage, NEW at, NEW checkAt, BeginCheck(c, r, stage, at, checkAt)
      PROVE  collector'[d] = collector[d]
  BY <1>4 DEF BeginCheck
<1>5. ASSUME NEW r \in RequestIds, EnterRoute(c, r)
      PROVE  collector'[d] = collector[d]
  <2>1. CASE r \notin inFlight /\ Evaluable(r)
    <3>1. PICK t : BeginCheck(c, r, "release", today, t)
      BY <1>5, <2>1, Zenon DEF EnterRoute
    <3>2. QED
      BY <1>4, <3>1
  <2>2. CASE ~(r \notin inFlight /\ Evaluable(r))
    BY <1>2, <1>5, <2>2 DEF EnterRoute
  <2>3. QED
    BY <2>1, <2>2
<1>6. CASE Verified(c)
  BY <1>2, <1>5, <1>6 DEF Verified, Typed, Placed
<1>7. ASSUME NEW r \in RequestIds, ReachGate(c, r) \/ Collect(c, r)
      PROVE  collector'[d] = collector[d]
  <2>1. CASE Collect(c, r)
    BY <1>5, <2>1 DEF Collect
  <2>2. CASE ReachGate(c, r)
    <3>1. BeginCheck(c, r, "gate", today, today) \/ UNCHANGED collector
      BY <2>2 DEF ReachGate
    <3>2. QED
      BY <1>4, <3>1
  <2>3. QED
    BY <1>7, <2>1, <2>2
<1>8. CASE ReadChain(c)
  <2>1. PICK answer : collector' = [collector EXCEPT ![c].pc = "resolved", ![c].who = answer]
    BY <1>8, Zenon DEF ReadChain
  <2>2. QED
    BY <2>1 DEF Typed, TypeOK, CollectionTypeOK
<1>9. CASE Check(c)
  <2>1. CASE PassGate(c) \/ Quote(c)
    <3>1. \/ BeginCheck(c, collector[c].id, "price", today, today)
          \/ Answered(c) \/ MovesTo(c, "verifying")
      BY <2>1, Zenon DEF PassGate, Quote
    <3>2. QED
      BY <1>2, <1>3, <1>4, <3>1
  <2>2. CASE ~PassGate(c) /\ ~Quote(c)
    <3>1. CASE ~Answered(c)
      <4> DEFINE r == collector[c].id
                 who == Resolve(requests[r].agent, collector[c].who)
                 fare == priceQueryMicros(requests[r].query)
      <4>1. collector' = [collector EXCEPT ![c].pc = "checked", ![c].who = who, ![c].fare = fare]
        BY <1>9, <2>2, <3>1, Zenon DEF Check
      <4> HIDE DEF who, fare
      <4>2. QED
        BY <4>1 DEF Typed, TypeOK, CollectionTypeOK
    <3>2. QED
      BY <1>2, <3>1
  <2>3. QED
    BY <2>1, <2>2
<1>10. CASE Reserve(c) \/ DataArrives(c) \/ FetchFails(c) \/ Deliver(c) \/ Settled(c)
            \/ NotSettled(c) \/ Disconnect(c)
  BY <1>2, <1>3, <1>10
  DEF Reserve, DataArrives, FetchFails, Deliver, Settled, NotSettled, Disconnect
<1>11. QED
  BY <1>6, <1>7, <1>8, <1>9, <1>10 DEF CollectionStep, Progress

LEMMA NextCaught ==
  ASSUME Typed, \A d \in Collectors : Caught(d), [Next]_vars
  PROVE  \A d \in Collectors : Caught(d)'
<1>1. AgentsStay
  BY NextKeepsAgents
<1>2. ASSUME NEW c \in Collectors, Collecting(c), NEW d \in Collectors
      PROVE  Caught(d)'
  <2>1. UNCHANGED chain /\ RevokedNamesStay /\ CollectionStep(c)
    BY <1>2 DEF Collecting, RevokedNamesStay
  <2>2. CASE d = c
    BY <1>1, <1>2, <2>1, <2>2, CollectionStepCaught
  <2>3. CASE d # c
    <3>1. collector'[d] = collector[d]
      BY <2>1, <2>3, OthersStay
    <3>2. QED
      BY <1>1, <2>1, <3>1, UntouchedCaught
  <2>4. QED
    BY <2>2, <2>3
<1>3. CASE UNCHANGED collector /\ RevokedNamesStay
  BY <1>1, <1>3, UntouchedCaught
<1>4. ASSUME NEW a \in Agents, OwnerActs(a)
      PROVE  RevokedNamesStay
  BY <1>4 DEF OwnerActs, OwnerWrites, RevokedNamesStay, Typed, TypeOK, ChainTypeOK
<1>5. UNCHANGED chain => RevokedNamesStay
  BY DEF RevokedNamesStay
<1>6. QED
  BY <1>2, <1>3, <1>4, <1>5
  DEF Next, Acting, Submitting, OwnerActs, Midnight, vars, collectionVars

\* x402.ts:13-15, 47-53.  However long the chain takes to answer, whatever
\* owners, humans and other exchanges do meanwhile, and whether the chain
\* answers at all: a passport revoked at its source before a check began is
\* neither quoted a price nor served by that check.
THEOREM RevokedGetsNothing == Spec => []RevokedNeverServed
<1>1. Init => \A c \in Collectors : Caught(c)
  <2>1. ~Idle.revokedOnEntry
    BY DEF Idle
  <2>2. QED
    BY <2>1 DEF Init, CollectionInit, Caught
<1>2. Typed /\ (\A c \in Collectors : Caught(c)) /\ [Next]_vars
        => (\A c \in Collectors : Caught(c))'
  BY NextCaught
<1>3. (\A c \in Collectors : Caught(c)) => RevokedNeverServed
  BY DEF Caught, RevokedNeverServed
<1>4. QED
  BY <1>1, <1>2, <1>3, GatewayTyped, PTL DEF Spec
=============================================================================
