------------------------------- MODULE Gateway ------------------------------
(***************************************************************************)
(* The gateway: submissions, human actions and collections on one store,   *)
(* each exchange advancing from await to await, the chain written by its   *)
(* owners and the clock running.                                           *)
(***************************************************************************)
EXTENDS Collection, HumanActions, Submission, Functions

vars == <<storeVars, today, chain, collectionVars, humanVars, submissionVars>>

Init ==
  /\ StoreInit
  /\ ChainInit
  /\ CollectionInit
  /\ HumanInit
  /\ SubmissionInit

\* No human action is in the middle of a turn, and when the steps of one may run.
HumansQuiet == SharedTurn \/ \A h \in Humans : ~HumanMidTurn(h)
HumansTurn(h) == Quiet /\ (HumansQuiet \/ HumanMidTurn(h))

Collecting(c) ==
  HumansQuiet /\ CollectionStep(c) /\ UNCHANGED <<chain, humanVars, submissionVars>>
Acting(h) ==
  HumansTurn(h) /\ HumanStep(h) /\ UNCHANGED <<chain, collectionVars, submissionVars>>
Submitting(s) ==
  Quiet /\ HumansQuiet /\ SubmissionStep(s) /\ UNCHANGED <<chain, collectionVars, humanVars>>
OwnerActs(a) ==
  OwnerWrites(a) /\ UNCHANGED <<storeVars, today, collectionVars, humanVars, submissionVars>>
Midnight == Tick /\ UNCHANGED <<chain, collectionVars, humanVars, submissionVars>>

Next ==
  \/ \E c \in Collectors : Collecting(c)
  \/ \E h \in Humans : Acting(h)
  \/ \E s \in Submitters : Submitting(s)
  \/ \E a \in Agents : OwnerActs(a)
  \/ Midnight

Spec == Init /\ [][Next]_vars

\* Every callback that is ready runs in the end, and everything a handler
\* awaits is answered or times out.  Callers owe the gateway nothing.
Fairness ==
  /\ \A c \in Collectors : WF_vars(Progress(c) /\ Collecting(c))
  /\ \A h \in Humans : WF_vars(HumanProgress(h) /\ Acting(h))
  /\ \A s \in Submitters : WF_vars(SubmissionProgress(s) /\ Submitting(s))

FairSpec == Spec /\ Fairness

TypeOK ==
  /\ StoreTypeOK
  /\ ChainTypeOK
  /\ CollectionTypeOK
  /\ HumanTypeOK
  /\ SubmissionTypeOK
-----------------------------------------------------------------------------
(* What the properties talk about *)

InRoute(c) == 
  /\ collector[c].stage = "release"
  /\ collector[c].pc \in {"resolving", "resolved", "checked", "fetching", "analyzing"}
Holds(c) == collector[c].pc \in {"fetching", "analyzing", "settling"}
AgentOf(c) == requests[collector[c].id].agent
Heard(type, actor, about) == Event(type, actor, about) \in audit
Unpaid == [d \in Days |-> 0]
PaidOnce(r) == \E d \in Days : kept[r] = [Unpaid EXCEPT ![d] = 1]

\* data.ts:67-71.  One exchange at a time collects a request: inFlight names
\* exactly the requests that an exchange is inside the route with, each of
\* them held by one exchange, whichever way earlier collections ended.
SingleFlight ==
  /\ inFlight = {collector[c].id : c \in {x \in Collectors : InRoute(x)}}
  /\ \A c, d \in Collectors :
       InRoute(c) /\ InRoute(d) /\ collector[c].id = collector[d].id => c = d

\* The fare of a request, as the ledger's promise sees it.
FareOf(r) ==
  LET holders == {c \in Collectors : Holds(c) /\ collector[c].id = r}
      days == {d \in Days : kept[r][d] > 0}
      Counted(state, d) == [state |-> state, account |-> requests[r].agent, day |-> d,
                            micros |-> priceQueryMicros(requests[r].query)] IN
  IF days # {} THEN Counted("taken", CHOOSE d \in days : TRUE)
  ELSE IF holders # {} THEN Counted("held", collector[CHOOSE c \in holders : TRUE].at)
  ELSE [state |-> "open"]

Ledger == INSTANCE FareLedger WITH
  Fares <- RequestIds, Accounts <- Agents, Periods <- Days,
  Prices <- {priceQueryMicros(q) : q \in Queries \cup {PlaceholderQuery}},
  fare <- [r \in RequestIds |-> FareOf(r)], spent <- spend

\* data.ts:14-18, SECURITY.md:51-58.  Whatever exchanges overlap, fail, are
\* retried or cross midnight, the gateway does to money only what the ledger
\* may: hold an open fare, give a held one back on its day, take a held one.
FaresLikeALedger == Ledger!LedgerSpec

\* What each exchange holds, and what each request was charged, of a
\* passport's spend on a day.
HeldFares(a, d) ==
  [c \in Collectors |->
     IF Holds(c) /\ AgentOf(c) = a /\ collector[c].at = d THEN collector[c].fare ELSE 0]
KeptFares(a, d) ==
  [r \in RequestIds |->
     IF requests[r] # NULL /\ requests[r].agent = a
     THEN kept[r][d] * priceQueryMicros(requests[r].query) ELSE 0]

\* data.ts:14-18, store.ts:233-246.  The ledger balances: what a passport has
\* spent on a day is the fares still held by open exchanges plus the fares
\* kept, nothing forgotten and nothing given back twice.
LedgerBalanced ==
  \A a \in Agents, d \in Days :
    spend[a][d] = SumFunction(HeldFares(a, d)) + SumFunction(KeptFares(a, d))

\* data.ts:121-123, policy.ts:208-223.  Whenever a passport's spend grows,
\* one exchange reserved its fare and the total is within the daily limit of
\* the capability that exchange resolved, whatever other exchanges did
\* between its check and its reservation.
BudgetRespected ==
  [][\A a \in Agents, d \in Days :
       spend'[a][d] > spend[a][d] =>
         \E c \in Collectors :
           /\ collector[c].pc = "checked" /\ collector'[c].pc = "fetching"
           /\ spend'[a][d] <= usdToMicros(collector[c].who.policy.dailyLimitUsd)]_vars

\* x402.ts:13-15, 47-53.  A passport revoked at its source before an exchange
\* reached a check is never quoted a price nor served data by that exchange,
\* however it interleaves with the revocation, and whatever copy of the
\* passport the store still shows.
RevokedNeverServed ==
  \A c \in Collectors :
    collector[c].revokedOnEntry => collector[c].pc \in {"resolving", "resolved"}

\* x402.ts:94-96, app.ts:517-521.  Above the threshold of the capability an
\* exchange resolved, it holds a fare only when a human approved that request.
HumanGate ==
  \A c \in Collectors :
    LET who == collector[c].who IN
    /\ Holds(c)
    /\ collector[c].fare > usdToMicros(who.policy.humanApprovalAboveUsd)
    => Heard("request.approved", "human", collector[c].id)

\* data.ts:67-71, 199-207, 237-282, SECURITY.md:57-58 ("a fulfilled request
\* cannot be collected twice").  A request is paid for at most once, in
\* whatever order collections of it fail, are retried and overlap.
ChargedOnce == \A r \in RequestIds : kept[r] = Unpaid \/ PaidOnce(r)

\* data.ts:237-284.  A fulfilled request was charged for, or its settlement is
\* still open; any other request never was.
FulfilledIffCharged ==
  \A r \in RequestIds :
    requests[r] # NULL =>
      (requests[r].status = "fulfilled" <=>
         \/ PaidOnce(r)
         \/ \E c \in Collectors : collector[c].pc = "settling" /\ collector[c].id = r)

\* human-auth.ts:115-120, SECURITY.md:42-46.  One signature authorises one
\* action, however often and however concurrently its envelope arrives.
SignatureOnce == \A sig \in Signatures : acted[sig] <= 1

\* store.ts:136-141.  A local passport that was revoked stays revoked.
RevocationIsFinal ==
  [][\A a \in Agents :
       Revoked(agents[a]) /\ agents[a].source = "local" => Revoked(agents'[a])]_vars

\* SECURITY.md:58-59.  No two requests are created under one idempotency key.
OneRequestPerKey ==
  \A r, q \in RequestIds : keyOf[r] # NULL /\ keyOf[r] = keyOf[q] => r = q

\* data.ts:71-89, 170-209.  Every collection ends: a request does not stay in
\* flight, and so uncollectable, for ever, and no fare stays reserved.
CollectionsEnd ==
  /\ \A r \in RequestIds : r \in inFlight ~> r \notin inFlight
  /\ \A c \in Collectors : Holds(c) ~> ~Holds(c)

\* app.ts:453-598.  Every submission that waits for an identity ends in a
\* stored request.
SubmissionsAnswered ==
  \A s \in Submitters : submitter[s].pc # "idle" ~> submitter[s].pc = "idle"
=============================================================================
