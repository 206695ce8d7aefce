---------------------------- MODULE LedgerProofs ----------------------------
(***************************************************************************)
(* Money, for any number of exchanges, requests, passports and days: what  *)
(* a request is charged, what a fulfilled request means, that the ledger   *)
(* balances, and that the gateway implements FareLedger.                   *)
(***************************************************************************)
EXTENDS GatewayView, SafetyProofs, FiniteSetTheorems, WellFoundedInduction

Pick(s) == CHOOSE x \in s : TRUE

\* The recursion that SumFunctionOnSet stands for.
IsSum(f, D, h) ==
  h = [s \in SUBSET D |-> IF s = {} THEN 0 ELSE f[Pick(s)] + h[s \ {Pick(s)}]]

LEMMA SumIsChosen ==
  ASSUME NEW f, NEW D
  PROVE  SumFunctionOnSet(f, D) = (CHOOSE h : IsSum(f, D, h))[D]
  BY DEF SumFunctionOnSet, FoldFunctionOnSet, MapThenFoldSet, IsSum, Pick

LEMMA PickIn == ASSUME NEW s, s # {} PROVE Pick(s) \in s
  BY DEF Pick

\* A non-empty family of subsets of a finite set has a member of which no
\* proper subset is in the family.
LEMMA SmallestSubset ==
  ASSUME NEW D, IsFiniteSet(D), NEW T, T \subseteq SUBSET D, T # {}
  PROVE  \E s \in T : \A t \in SUBSET s : t # s => t \notin T
<1>1. IsWellFoundedOn(StrictSubsetOrdering(D), SUBSET D)
  BY FS_StrictSubsetOrderingWellFounded, FS_FiniteSubsetsOfFinite
<1>2. PICK s \in T : \A t \in T : ~ (<<t, s>> \in StrictSubsetOrdering(D))
  BY <1>1, WFMin
<1>3. ASSUME NEW t \in SUBSET s, t # s, t \in T
      PROVE  FALSE
  BY <1>2, <1>3 DEF StrictSubsetOrdering
<1>4. QED
  BY <1>3

LEMMA SumUnique ==
  ASSUME NEW f, NEW D, IsFiniteSet(D), NEW A, NEW B, D \subseteq A, D \subseteq B,
         NEW g, NEW h, IsSum(f, A, g), IsSum(f, B, h)
  PROVE  g[D] = h[D]
<1> DEFINE T == {s \in SUBSET D : g[s] # h[s]}
<1> SUFFICES ASSUME T # {} PROVE FALSE
  OBVIOUS
<1>a. T \subseteq SUBSET D
  OBVIOUS
<1>1. PICK s \in T : \A t \in SUBSET s : t # s => t \notin T
  <2> HIDE DEF T
  <2> QED BY <1>a, SmallestSubset
<1>2. s \in SUBSET A /\ s \in SUBSET B
  OBVIOUS
<1>3. g[s] = IF s = {} THEN 0 ELSE f[Pick(s)] + g[s \ {Pick(s)}]
  BY <1>2 DEF IsSum
<1>4. h[s] = IF s = {} THEN 0 ELSE f[Pick(s)] + h[s \ {Pick(s)}]
  BY <1>2 DEF IsSum
<1>5. s # {} => s \ {Pick(s)} \in SUBSET s /\ s \ {Pick(s)} # s
  BY PickIn
<1>6. s # {} => g[s \ {Pick(s)}] = h[s \ {Pick(s)}]
  BY <1>1, <1>5
<1>7. QED
  BY <1>3, <1>4, <1>6

LEMMA SumStepIf ==
  ASSUME NEW f, NEW D, IsFiniteSet(D), D # {},
         \E h : IsSum(f, D, h), \E h : IsSum(f, D \ {Pick(D)}, h)
  PROVE  SumFunctionOnSet(f, D) = f[Pick(D)] + SumFunctionOnSet(f, D \ {Pick(D)})
<1> DEFINE E == D \ {Pick(D)}
<1>1. PICK g : g = (CHOOSE h : IsSum(f, D, h)) /\ IsSum(f, D, g)
  OBVIOUS
<1>2. PICK k : k = (CHOOSE h : IsSum(f, E, h)) /\ IsSum(f, E, k)
  OBVIOUS
<1>3. IsFiniteSet(E) /\ E \subseteq D /\ E \subseteq E
  BY FS_RemoveElement
<1>4. SumFunctionOnSet(f, D) = g[D] /\ SumFunctionOnSet(f, E) = k[E]
  BY <1>1, <1>2, SumIsChosen
<1>5. g[D] = f[Pick(D)] + g[E]
  BY <1>1 DEF IsSum
<1> HIDE DEF E
<1>6. g[E] = k[E]
  BY <1>1, <1>2, <1>3, SumUnique
<1>7. QED
  BY <1>4, <1>5, <1>6 DEF E

LEMMA SumExists ==
  ASSUME NEW f, NEW D, IsFiniteSet(D)
  PROVE  \A s \in SUBSET D : \E h : IsSum(f, s, h)
<1> DEFINE T == {s \in SUBSET D : ~ \E h : IsSum(f, s, h)}
<1> SUFFICES ASSUME T # {} PROVE FALSE
  OBVIOUS
<1>a. T \subseteq SUBSET D
  OBVIOUS
<1>1. PICK s \in T : \A t \in SUBSET s : t # s => t \notin T
  <2> HIDE DEF T
  <2> QED BY <1>a, SmallestSubset
<1>2. \A t \in SUBSET s : t # s => \E h : IsSum(f, t, h)
  BY <1>1
<1>3. \A t \in SUBSET s : IsFiniteSet(t)
  BY FS_Subset
<1> DEFINE g == [t \in SUBSET s |->
                   IF t = {} THEN 0
                   ELSE f[Pick(t)] + SumFunctionOnSet(f, t \ {Pick(t)})]
<1>4. \A t \in SUBSET s : t # s => g[t] = SumFunctionOnSet(f, t)
  <2> SUFFICES ASSUME NEW t \in SUBSET s, t # s PROVE g[t] = SumFunctionOnSet(f, t)
    OBVIOUS
  <2>1. CASE t = {}
    <3>1. IsSum(f, t, CHOOSE h : IsSum(f, t, h))
      BY <1>2
    <3>2. (CHOOSE h : IsSum(f, t, h))[t] = 0
      BY <2>1, <3>1 DEF IsSum
    <3>3. QED
      BY <2>1, <3>2, SumIsChosen
  <2>2. CASE t # {}
    <3>1. t \ {Pick(t)} \in SUBSET s /\ t \ {Pick(t)} # s
      BY <2>2, PickIn
    <3>2. SumFunctionOnSet(f, t) = f[Pick(t)] + SumFunctionOnSet(f, t \ {Pick(t)})
      BY <1>2, <1>3, <2>2, <3>1, SumStepIf
    <3>3. QED
      BY <2>2, <3>2
  <2>3. QED
    BY <2>1, <2>2
<1>5. \A t \in SUBSET s :
        t # {} => t \ {Pick(t)} \in SUBSET s /\ t \ {Pick(t)} # s
  BY PickIn
<1>6. IsSum(f, s, g)
  <2>1. \A t \in SUBSET s : g[t] = IF t = {} THEN 0 ELSE f[Pick(t)] + g[t \ {Pick(t)}]
    BY <1>4, <1>5
  <2>2. QED
    BY <2>1 DEF IsSum
<1>7. QED
  BY <1>6

\* What the sum of nothing is, and how one term is taken out.
LEMMA SumOfNothing ==
  ASSUME NEW f
  PROVE  SumFunctionOnSet(f, {}) = 0
<1>1. \E h : IsSum(f, {}, h)
  BY SumExists, FS_EmptySet
<1>2. IsSum(f, {}, CHOOSE h : IsSum(f, {}, h))
  BY <1>1
<1>3. QED
  BY <1>2, SumIsChosen DEF IsSum

LEMMA SumStep ==
  ASSUME NEW f, NEW D, IsFiniteSet(D), D # {}
  PROVE  SumFunctionOnSet(f, D) = f[Pick(D)] + SumFunctionOnSet(f, D \ {Pick(D)})
  BY SumExists, SumStepIf

LEMMA SumTyped ==
  ASSUME NEW D, IsFiniteSet(D), NEW f \in [D -> Nat]
  PROVE  \A s \in SUBSET D : SumFunctionOnSet(f, s) \in Nat
<1> DEFINE T == {s \in SUBSET D : SumFunctionOnSet(f, s) \notin Nat}
<1> SUFFICES ASSUME T # {} PROVE FALSE
  OBVIOUS
<1>a. T \subseteq SUBSET D
  OBVIOUS
<1>1. PICK s \in T : \A t \in SUBSET s : t # s => t \notin T
  <2> HIDE DEF T
  <2> QED BY <1>a, SmallestSubset
<1>2. s # {}
  BY SumOfNothing
<1>3. Pick(s) \in s
  BY <1>2, PickIn
<1>4. SumFunctionOnSet(f, s \ {Pick(s)}) \in Nat
  BY <1>1, <1>3
<1>5. IsFiniteSet(s)
  BY FS_Subset
<1>6. SumFunctionOnSet(f, s) = f[Pick(s)] + SumFunctionOnSet(f, s \ {Pick(s)})
  BY <1>2, <1>5, SumStep
<1>7. QED
  BY <1>3, <1>4, <1>6

LEMMA SumTakeOut ==
  ASSUME NEW D, IsFiniteSet(D), NEW f \in [D -> Nat]
  PROVE  \A s \in SUBSET D : \A x \in s :
           SumFunctionOnSet(f, s) = f[x] + SumFunctionOnSet(f, s \ {x})
<1> DEFINE Sum(s) == SumFunctionOnSet(f, s)
           T == {s \in SUBSET D : \E x \in s : Sum(s) # f[x] + Sum(s \ {x})}
<1>0. SUFFICES ASSUME T # {} PROVE FALSE
  OBVIOUS
<1>a. T \subseteq SUBSET D
  OBVIOUS
<1>1. PICK s \in T : \A t \in SUBSET s : t # s => t \notin T
  <2> HIDE DEF T
  <2> QED BY <1>0, <1>a, SmallestSubset
<1>2. PICK x \in s : Sum(s) # f[x] + Sum(s \ {x})
  OBVIOUS
<1> DEFINE p == Pick(s)
<1>3. p \in s
  BY PickIn
<1>4. IsFiniteSet(s)
  BY FS_Subset
<1>5. Sum(s) = f[p] + Sum(s \ {p})
  BY <1>4, SumStep
<1>6. p # x
  BY <1>2, <1>5
<1>7. \A y \in s : \A z \in s \ {y} : Sum(s \ {y}) = f[z] + Sum((s \ {y}) \ {z})
  BY <1>1
<1>8. Sum(s \ {p}) = f[x] + Sum((s \ {p}) \ {x}) /\ Sum(s \ {x}) = f[p] + Sum((s \ {x}) \ {p})
  BY <1>3, <1>6, <1>7
<1>9. (s \ {p}) \ {x} = (s \ {x}) \ {p}
  OBVIOUS
<1>10. /\ f[p] \in Nat /\ f[x] \in Nat
       /\ \A t \in SUBSET D : Sum(t) \in Nat
  BY <1>3, SumTyped
<1>11. Sum((s \ {x}) \ {p}) \in Nat /\ Sum(s \ {p}) \in Nat /\ Sum(s \ {x}) \in Nat
  BY <1>10
<1>12. Sum(s) = f[x] + Sum(s \ {x})
  <2> DEFINE u == Sum((s \ {x}) \ {p})
  <2>1. u \in Nat /\ Sum(s) = f[p] + (f[x] + u) /\ Sum(s \ {x}) = f[p] + u
    BY <1>5, <1>8, <1>9, <1>11
  <2> HIDE DEF Sum, p, u
  <2>2. QED
    BY <1>10, <2>1
<1>13. QED
  BY <1>2, <1>12

LEMMA SumAgrees ==
  ASSUME NEW D, IsFiniteSet(D), NEW f, NEW g
  PROVE  \A s \in SUBSET D :
           (\A x \in s : f[x] = g[x]) => SumFunctionOnSet(f, s) = SumFunctionOnSet(g, s)
<1> DEFINE T == {s \in SUBSET D : /\ \A x \in s : f[x] = g[x]
                                  /\ SumFunctionOnSet(f, s) # SumFunctionOnSet(g, s)}
<1> SUFFICES ASSUME T # {} PROVE FALSE
  OBVIOUS
<1>a. T \subseteq SUBSET D
  OBVIOUS
<1>1. PICK s \in T : \A t \in SUBSET s : t # s => t \notin T
  <2> HIDE DEF T
  <2> QED BY <1>a, SmallestSubset
<1>2. s # {}
  BY SumOfNothing
<1>3. Pick(s) \in s
  BY <1>2, PickIn
<1>4. SumFunctionOnSet(f, s \ {Pick(s)}) = SumFunctionOnSet(g, s \ {Pick(s)})
  BY <1>1, <1>3
<1>5. IsFiniteSet(s)
  BY FS_Subset
<1>6. QED
  BY <1>2, <1>3, <1>4, <1>5, SumStep

LEMMA SumUpdated ==
  ASSUME NEW D, IsFiniteSet(D), NEW f \in [D -> Nat], NEW g \in [D -> Nat], NEW x \in D,
         \A y \in D \ {x} : f[y] = g[y]
  PROVE  /\ SumFunction(f) \in Nat /\ SumFunction(g) \in Nat
         /\ SumFunction(g) + f[x] = SumFunction(f) + g[x]
         /\ f[x] <= SumFunction(f)
<1>2. SumFunction(f) = SumFunctionOnSet(f, D) /\ SumFunction(g) = SumFunctionOnSet(g, D)
  BY DEF SumFunction
<1>0. D \in SUBSET D /\ D \ {x} \in SUBSET D
  OBVIOUS
<1>3. SumFunctionOnSet(f, D) = f[x] + SumFunctionOnSet(f, D \ {x})
  BY <1>0, SumTakeOut
<1>4. SumFunctionOnSet(g, D) = g[x] + SumFunctionOnSet(g, D \ {x})
  BY <1>0, SumTakeOut
<1>5. SumFunctionOnSet(f, D \ {x}) = SumFunctionOnSet(g, D \ {x})
  BY <1>0, SumAgrees
<1>6. SumFunctionOnSet(f, D \ {x}) \in Nat
  BY SumTyped
<1>7. f[x] \in Nat /\ g[x] \in Nat
  OBVIOUS
<1>8. QED
  BY <1>2, <1>3, <1>4, <1>5, <1>6, <1>7

LEMMA SumOfZeros ==
  ASSUME NEW D, IsFiniteSet(D), NEW f \in [D -> Nat], \A x \in D : f[x] = 0
  PROVE  SumFunction(f) = 0
<1> DEFINE T == {s \in SUBSET D : SumFunctionOnSet(f, s) # 0}
<1> SUFFICES ASSUME T # {} PROVE FALSE
  BY DEF SumFunction
<1>a. T \subseteq SUBSET D
  OBVIOUS
<1>1. PICK s \in T : \A t \in SUBSET s : t # s => t \notin T
  <2> HIDE DEF T
  <2> QED BY <1>a, SmallestSubset
<1>2. s # {}
  BY SumOfNothing
<1>3. Pick(s) \in s
  BY <1>2, PickIn
<1>4. SumFunctionOnSet(f, s \ {Pick(s)}) = 0
  BY <1>1, <1>3
<1>5. IsFiniteSet(s)
  BY FS_Subset
<1>6. QED
  BY <1>2, <1>3, <1>4, <1>5, SumStep
-----------------------------------------------------------------------------
(* What a step of an exchange does to the money                             *)

\* The parts of a stored request that the ledger and the dashboard go by.
Same(q) ==
  IF requests[q] = NULL THEN requests'[q] = NULL
  ELSE /\ requests'[q] # NULL
       /\ requests'[q].agent = requests[q].agent /\ requests'[q].query = requests[q].query
       /\ requests'[q].status = requests[q].status /\ requests'[q].payment = requests[q].payment

Ends(r, status, payment) ==
  /\ requests[r] # NULL /\ requests'[r] # NULL
  /\ requests'[r].agent = requests[r].agent /\ requests'[r].query = requests[r].query
  /\ requests'[r].status = status /\ requests'[r].payment = payment
  /\ \A q \in RequestIds \ {r} : Same(q)

AllSame == \A q \in RequestIds : Same(q)
Holding(x) == x.pc \in {"fetching", "analyzing", "settling"}
Carries(x, me) == x.id = me.id /\ x.at = me.at /\ x.fare = me.fare /\ x.stage = me.stage
Price(r) == priceQueryMicros(requests[r].query)

\* Before its fare is reserved an exchange moves no money; it enters the route
\* with a request that may be collected, and is checked at its price.
Wanders(c, x) ==
  /\ ~Holds(c) /\ ~Holding(x)
  /\ AllSame /\ UNCHANGED <<spend, kept>>
  /\ Inside(x) => \/ InRoute(c) /\ x.id = collector[c].id
                  \/ x.id \in RequestIds /\ Evaluable(x.id)
  /\ x.pc = "checked" => x.fare = Price(x.id)

Reserves(c, x) ==
  /\ collector[c].pc = "checked" /\ x.pc = "fetching" /\ Carries(x, collector[c])
  /\ AllSame /\ UNCHANGED kept
  /\ recordSpend(AgentOf(c), collector[c].fare, collector[c].at)

Fetches(c, x) ==
  /\ collector[c].pc = "fetching" /\ x.pc = "analyzing" /\ Carries(x, collector[c])
  /\ AllSame /\ UNCHANGED <<spend, kept>>

GivesBack(c, x) ==
  /\ x = Idle /\ Release(c) /\ UNCHANGED kept
  /\ \/ collector[c].pc = "fetching"
        /\ Ends(collector[c].id, "failed", requests[collector[c].id].payment)
     \/ collector[c].pc = "settling" /\ Ends(collector[c].id, "failed", "none")

HandsOver(c, x) ==
  /\ collector[c].pc = "analyzing" /\ x.pc = "settling" /\ Carries(x, collector[c])
  /\ Ends(collector[c].id, "fulfilled", "unsettled") /\ UNCHANGED <<spend, kept>>

Keeps(c, x) ==
  /\ x = Idle /\ Keep(c) /\ UNCHANGED spend
  /\ \/ collector[c].pc = "analyzing" /\ Ends(collector[c].id, "fulfilled", "settled")
     \/ collector[c].pc = "settling"
        /\ Ends(collector[c].id, requests[collector[c].id].status, "settled")

Departs(c, x) ==
  /\ MayDisconnect /\ x = Idle /\ collector[c].pc = "settling"
  /\ AllSame /\ UNCHANGED spend /\ (Keep(c) \/ UNCHANGED kept)

Moves(c, x) ==
  \/ Wanders(c, x) \/ Reserves(c, x) \/ Fetches(c, x) \/ GivesBack(c, x)
  \/ HandsOver(c, x) \/ Keeps(c, x) \/ Departs(c, x)

LEMMA UnchangedSame == UNCHANGED requests => AllSame
  BY DEF AllSame, Same

LEMMA RefusalSame ==
  ASSUME Typed, NEW r \in RequestIds, NEW stage, RecordRefusal(r, stage)
  PROVE  AllSame
<1>1. requests \in [RequestIds -> AccessRequest \cup {NULL}]
  BY DEF Typed, TypeOK, StoreTypeOK
<1>2. CASE stage = "price"
  BY <1>2, UnchangedSame DEF RecordRefusal
<1>3. CASE stage # "price"
  <2> DEFINE refusal == IF stage = "gate" THEN "pre-payment" ELSE "data-release"
             patched == [requests[r] EXCEPT !.lastRefusal = refusal]
  <2>1. updateRequest(r, patched)
    BY <1>3 DEF RecordRefusal
  <2>2. refusal \in {"none", "pre-payment", "data-release"}
    OBVIOUS
  <2>3. requests[r] # NULL =>
          /\ patched \in AccessRequest
          /\ patched.agent = requests[r].agent /\ patched.query = requests[r].query
          /\ patched.status = requests[r].status /\ patched.payment = requests[r].payment
    BY <1>1, <2>2 DEF AccessRequest
  <2> HIDE DEF patched
  <2>4. QED
    BY <1>1, <2>1, <2>3, RequestAssumption DEF updateRequest, AllSame, Same
<1>4. QED
  BY <1>2, <1>3

LEMMA PatchEnds ==
  ASSUME Typed, NEW r \in RequestIds, requests[r] # NULL, NEW patched \in AccessRequest,
         updateRequest(r, patched), NEW status, NEW payment,
         patched.agent = requests[r].agent, patched.query = requests[r].query,
         patched.status = status, patched.payment = payment
  PROVE  Ends(r, status, payment)
  BY RequestAssumption DEF Typed, TypeOK, StoreTypeOK, updateRequest, Ends, Same

\* An exchange that is answered before it holds a fare, or that begins a check
\* outside the route or with a request that may be collected.
LEMMA AnsweredWanders ==
  ASSUME NEW c \in Collectors, ~Holds(c), Answered(c), AllSame, UNCHANGED <<spend, kept>>
  PROVE  \E x : collector' = [collector EXCEPT ![c] = x] /\ Moves(c, x)
<1>1. ~Holding(Idle) /\ ~Inside(Idle) /\ Idle.pc # "checked"
  BY DEF Idle, Holding, Inside
<1>2. QED
  BY <1>1 DEF Answered, Moves, Wanders

LEMMA BeginCheckWanders ==
  ASSUME NEW c \in Collectors, ~Holds(c), NEW r \in RequestIds, Evaluable(r), NEW stage,
         NEW at, NEW checkAt, BeginCheck(c, r, stage, at, checkAt), AllSame,
         UNCHANGED <<spend, kept>>
  PROVE  \E x : collector' = [collector EXCEPT ![c] = x] /\ Moves(c, x)
<1> DEFINE x == [Idle EXCEPT !.pc = AfterCall, !.stage = stage, !.id = r, !.at = at,
                   !.checkAt = checkAt, !.approval = requests[r].approval,
                   !.who = AnswerAtCall(requests[r].agent),
                   !.revokedOnEntry = RevokedAtTheSource(requests[r].agent)]
<1>1. collector' = [collector EXCEPT ![c] = x]
  BY DEF BeginCheck
<1>2. AfterCall \in {"resolving", "resolved"}
  BY DEF AfterCall
<1>3. x.id = r /\ x.pc = AfterCall
  BY DEF Idle
<1> HIDE DEF x
<1>4. QED
  BY <1>1, <1>2, <1>3 DEF Moves, Wanders, Holding

LEMMA EnterRouteWanders ==
  ASSUME Typed, NEW c \in Collectors, ~Holds(c), NEW r \in RequestIds, EnterRoute(c, r),
         UNCHANGED <<spend, kept>>
  PROVE  \E x : collector' = [collector EXCEPT ![c] = x] /\ Moves(c, x)
<1>1. CASE r \in inFlight
  BY <1>1, AnsweredWanders, UnchangedSame DEF EnterRoute
<1>2. CASE r \notin inFlight /\ Evaluable(r)
  <2>1. PICK t : BeginCheck(c, r, "release", today, t)
    BY <1>2, Zenon DEF EnterRoute
  <2>2. AllSame
    BY <1>2, UnchangedSame DEF EnterRoute
  <2>3. QED
    BY <1>2, <2>1, <2>2, BeginCheckWanders
<1>3. CASE r \notin inFlight /\ ~Evaluable(r)
  BY <1>3, RefusalSame, AnsweredWanders DEF EnterRoute
<1>4. QED
  BY <1>1, <1>2, <1>3

\* An exchange that goes on, its request as it was.
LEMMA MovesOn ==
  ASSUME Typed, NEW c \in Collectors, NEW pc, MovesTo(c, pc)
  PROVE  \E x : /\ collector' = [collector EXCEPT ![c] = x]
                /\ x.pc = pc /\ Carries(x, collector[c])
<1> DEFINE x == [collector[c] EXCEPT !.pc = pc]
<1>1. collector[c] \in CollectorState
  BY DEF Typed, TypeOK, CollectionTypeOK
<1>2. x.pc = pc /\ Carries(x, collector[c])
  BY <1>1 DEF CollectorState, Carries
<1>3. collector' = [collector EXCEPT ![c] = x]
  BY DEF MovesTo
<1> HIDE DEF x
<1>4. QED
  BY <1>2, <1>3

LEMMA CheckMoves ==
  ASSUME Typed, NEW c \in Collectors, Check(c)
  PROVE  \E x : collector' = [collector EXCEPT ![c] = x] /\ Moves(c, x)
<1> DEFINE r == collector[c].id
           stage == collector[c].stage
           who == Resolve(requests[r].agent, collector[c].who)
<1>1. /\ collector[c].pc = "resolved" /\ collector[c] \in CollectorState
      /\ r \in RequestIds /\ ~Holds(c) /\ UNCHANGED <<spend, kept>>
  BY NamesARequest DEF Check, Holds, Typed
<1>2. CASE RecordRefusal(r, stage) /\ Answered(c)
  BY <1>1, <1>2, RefusalSame, AnsweredWanders
<1>3. CASE PassGate(c)
  <2>1. AllSame
    BY <1>3, UnchangedSame DEF PassGate
  <2>2. QED
    BY <1>1, <1>3, <2>1, BeginCheckWanders, AnsweredWanders DEF PassGate
<1>4. CASE Quote(c)
  <2>1. AllSame
    BY <1>4, UnchangedSame DEF Quote
  <2>2. CASE Answered(c)
    BY <1>1, <2>1, <2>2, AnsweredWanders
  <2>3. CASE MovesTo(c, "verifying")
    <3>1. PICK x : /\ collector' = [collector EXCEPT ![c] = x]
                   /\ x.pc = "verifying" /\ Carries(x, collector[c])
      BY <2>3, MovesOn
    <3>2. QED
      BY <1>1, <2>1, <3>1 DEF Moves, Wanders, Holding, Inside
  <2>4. QED
    BY <1>4, <2>2, <2>3 DEF Quote
<1>5. CASE /\ stage = "release"
           /\ collector' = [collector EXCEPT ![c].pc = "checked", ![c].who = who,
                                             ![c].fare = priceQueryMicros(requests[r].query)]
           /\ UNCHANGED <<requests, audit, inFlight>>
  <2> DEFINE price == priceQueryMicros(requests[r].query)
             x == [collector[c] EXCEPT !.pc = "checked", !.who = who, !.fare = price]
  <2> HIDE DEF who
  <2>1. collector' = [collector EXCEPT ![c] = x]
    BY <1>5 DEF Typed, TypeOK, CollectionTypeOK, who
  <2>2. x.pc = "checked" /\ x.id = r /\ x.fare = price
    BY <1>1 DEF CollectorState
  <2>3. InRoute(c) /\ AllSame
    BY <1>1, <1>5, UnchangedSame DEF InRoute
  <2>4. price = Price(r)
    BY DEF Price
  <2> HIDE DEF x, price
  <2>5. QED
    BY <1>1, <2>1, <2>2, <2>3, <2>4 DEF Moves, Wanders, Holding
<1>6. QED
  BY <1>2, <1>3, <1>4, <1>5, Zenon DEF Check

\* Every step of a collection is one of the moves.
LEMMA CollectionMoves ==
  ASSUME Typed, NEW c \in Collectors, CollectionStep(c)
  PROVE  \E x : collector' = [collector EXCEPT ![c] = x] /\ Moves(c, x)
<1>0. /\ collector[c] \in CollectorState
      /\ collector[c].pc # "idle" =>
           /\ collector[c].id \in RequestIds
           /\ requests[collector[c].id] \in AccessRequest
           /\ requests[collector[c].id] # NULL
  BY DEF Typed, TypeOK, StoreTypeOK, CollectionTypeOK, Placed
<1>1. ASSUME NEW r \in RequestIds, ReachGate(c, r)
      PROVE  \E x : collector' = [collector EXCEPT ![c] = x] /\ Moves(c, x)
  <2>1. ~Holds(c) /\ UNCHANGED <<spend, kept>> /\ collector[c].pc = "idle"
    BY <1>1 DEF ReachGate, Holds
  <2>2. CASE Evaluable(r)
    BY <1>1, <2>1, <2>2, BeginCheckWanders, UnchangedSame DEF ReachGate
  <2>3. CASE ~Evaluable(r)
    <3>1. AllSame /\ UNCHANGED collector
      BY <1>1, <2>3, RefusalSame DEF ReachGate
    <3>2. collector' = [collector EXCEPT ![c] = collector[c]]
      BY <3>1 DEF Typed, TypeOK, CollectionTypeOK
    <3>3. Wanders(c, collector[c])
      BY <2>1, <3>1 DEF Wanders, Holding, Inside
    <3>4. QED
      BY <3>2, <3>3 DEF Moves
  <2>4. QED
    BY <2>2, <2>3
<1>2. ASSUME NEW r \in RequestIds, Collect(c, r)
      PROVE  \E x : collector' = [collector EXCEPT ![c] = x] /\ Moves(c, x)
  BY <1>2, EnterRouteWanders DEF Collect, Holds
<1>3. CASE Verified(c)
  <2>1. ~Holds(c) /\ collector[c].id \in RequestIds /\ UNCHANGED <<spend, kept>>
    BY <1>0, <1>3 DEF Verified, Holds
  <2>2. QED
    BY <1>3, <2>1, EnterRouteWanders, AnsweredWanders, UnchangedSame DEF Verified
<1>4. CASE ReadChain(c)
  <2>1. PICK answer : collector' = [collector EXCEPT ![c].pc = "resolved", ![c].who = answer]
    BY <1>4, Zenon DEF ReadChain
  <2> DEFINE x == [collector[c] EXCEPT !.pc = "resolved", !.who = answer]
  <2>2. collector' = [collector EXCEPT ![c] = x]
    BY <2>1 DEF Typed, TypeOK, CollectionTypeOK
  <2>3. x.pc = "resolved" /\ x.stage = collector[c].stage /\ x.id = collector[c].id
    BY <1>0 DEF CollectorState
  <2>4. /\ UNCHANGED <<spend, kept>> /\ AllSame /\ ~Holds(c)
        /\ Inside(x) => InRoute(c)
    BY <1>4, <2>3, UnchangedSame DEF ReadChain, storeVars, Holds, Inside, InRoute
  <2> HIDE DEF x
  <2>5. QED
    BY <2>2, <2>3, <2>4 DEF Moves, Wanders, Holding
<1>5. CASE Check(c)
  BY <1>5, CheckMoves
<1>6. CASE Reserve(c)
  <2>1. PICK x : /\ collector' = [collector EXCEPT ![c] = x]
                 /\ x.pc = "fetching" /\ Carries(x, collector[c])
    BY <1>6, MovesOn DEF Reserve
  <2>2. Reserves(c, x)
    BY <1>6, <2>1, UnchangedSame DEF Reserve, Reserves, AgentOf
  <2>3. QED
    BY <2>1, <2>2 DEF Moves
<1>7. CASE DataArrives(c)
  <2>1. PICK x : /\ collector' = [collector EXCEPT ![c] = x]
                 /\ x.pc = "analyzing" /\ Carries(x, collector[c])
    BY <1>7, MovesOn DEF DataArrives
  <2>2. Fetches(c, x)
    BY <1>7, <2>1, UnchangedSame DEF DataArrives, Fetches, storeVars
  <2>3. QED
    BY <2>1, <2>2 DEF Moves
<1>8. CASE FetchFails(c)
  <2> DEFINE r == collector[c].id
             patched == [requests[r] EXCEPT !.status = "failed"]
  <2>1. /\ updateRequest(r, patched) /\ Answered(c) /\ Release(c) /\ UNCHANGED kept
        /\ collector[c].pc = "fetching"
    BY <1>8 DEF FetchFails
  <2>2. /\ patched \in AccessRequest /\ patched.status = "failed"
        /\ patched.agent = requests[r].agent /\ patched.query = requests[r].query
        /\ patched.payment = requests[r].payment
    BY <1>0, <2>1 DEF AccessRequest, RequestStatus
  <2> HIDE DEF patched
  <2>3. Ends(r, "failed", requests[r].payment)
    BY <1>0, <2>1, <2>2, PatchEnds
  <2>4. QED
    BY <2>1, <2>3 DEF Answered, Moves, GivesBack
<1>9. CASE Deliver(c)
  <2> DEFINE r == collector[c].id
             paid == IF Live THEN "unsettled" ELSE "settled"
             patched == [requests[r] EXCEPT !.status = "fulfilled", !.payment = paid]
  <2>1. /\ updateRequest(r, patched) /\ UNCHANGED spend /\ collector[c].pc = "analyzing"
        /\ IF Live THEN MovesTo(c, "settling") /\ UNCHANGED kept ELSE Answered(c) /\ Keep(c)
    BY <1>9 DEF Deliver
  <2>2. /\ patched \in AccessRequest /\ patched.status = "fulfilled" /\ patched.payment = paid
        /\ patched.agent = requests[r].agent /\ patched.query = requests[r].query
    BY <1>0, <2>1 DEF AccessRequest, RequestStatus
  <2> HIDE DEF patched
  <2>3. Ends(r, "fulfilled", paid)
    BY <1>0, <2>1, <2>2, PatchEnds
  <2>4. CASE Live
    <3>1. PICK x : /\ collector' = [collector EXCEPT ![c] = x]
                   /\ x.pc = "settling" /\ Carries(x, collector[c])
      BY <2>1, <2>4, MovesOn
    <3>2. HandsOver(c, x)
      BY <2>1, <2>3, <2>4, <3>1 DEF HandsOver
    <3>3. QED
      BY <3>1, <3>2 DEF Moves
  <2>5. CASE ~Live
    BY <2>1, <2>3, <2>5 DEF Answered, Moves, Keeps
  <2>6. QED
    BY <2>4, <2>5
<1>10. CASE Settled(c)
  <2> DEFINE r == collector[c].id
             patched == [requests[r] EXCEPT !.payment = "settled"]
  <2>1. /\ updateRequest(r, patched) /\ UNCHANGED spend /\ collector[c].pc = "settling"
        /\ Answered(c) /\ Keep(c)
    BY <1>10 DEF Settled
  <2>2. /\ patched \in AccessRequest /\ patched.payment = "settled"
        /\ patched.status = requests[r].status
        /\ patched.agent = requests[r].agent /\ patched.query = requests[r].query
    BY <1>0, <2>1 DEF AccessRequest
  <2> HIDE DEF patched
  <2>3. Ends(r, requests[r].status, "settled")
    BY <1>0, <2>1, <2>2, PatchEnds
  <2>4. QED
    BY <2>1, <2>3 DEF Answered, Moves, Keeps
<1>11. CASE NotSettled(c)
  <2> DEFINE r == collector[c].id
             patched == [requests[r] EXCEPT !.status = "failed", !.payment = "none"]
  <2>1. /\ updateRequest(r, patched) /\ Answered(c) /\ Release(c) /\ UNCHANGED kept
        /\ collector[c].pc = "settling"
    BY <1>11 DEF NotSettled
  <2>2. /\ patched \in AccessRequest /\ patched.status = "failed" /\ patched.payment = "none"
        /\ patched.agent = requests[r].agent /\ patched.query = requests[r].query
    BY <1>0, <2>1 DEF AccessRequest, RequestStatus
  <2> HIDE DEF patched
  <2>3. Ends(r, "failed", "none")
    BY <1>0, <2>1, <2>2, PatchEnds
  <2>4. QED
    BY <2>1, <2>3 DEF Answered, Moves, GivesBack
<1>12. CASE Disconnect(c)
  <2>1. Departs(c, Idle) /\ Answered(c)
    BY <1>12, UnchangedSame DEF Disconnect, Departs, storeVars
  <2>2. QED
    BY <2>1 DEF Answered, Moves
<1>13. QED
  BY <1>1, <1>2, <1>3, <1>4, <1>5, <1>6, <1>7, <1>8, <1>9, <1>10, <1>11, <1>12
  DEF CollectionStep, Progress
-----------------------------------------------------------------------------
(* The books: what a request's status and receipt say of its fare *)

Decides(e) == e.action \in {"approve-request", "reject-request"}
Settles(c) == collector[c].pc = "settling"

\* No collection comes between two decisions on one request that are authorised
\* side by side: there is one human exchange, or signatures are required and
\* either all that wait for the curves resume in one turn, shared with no
\* collection, or humans sign one decision per request.
OneDecision ==
  \/ \A h, g \in Humans : h = g
  \/ RequireSignature /\ ~SharedTurn
  \/ /\ RequireSignature
     /\ \A e, f \in Envelopes : Decides(e) /\ Decides(f) /\ e.subject = f.subject => e = f

\* Nobody collects a request, and nobody was charged for it.
Uncollected(r) ==
  /\ kept[r] = Unpaid
  /\ \A c \in Collectors : InRoute(c) \/ Settles(c) => collector[c].id # r

\* A decision that follows another one in the same turn.
Follows(h) ==
  /\ ~SharedTurn /\ HumanMidTurn(h)
  /\ requests[pending[h].subject].status \in {"payment_required", "rejected"}
  /\ Uncollected(pending[h].subject)

\* A decision that can still be authorised finds its request waiting for it, or
\* decided on earlier in this turn.
InTime ==
  \A h \in Humans :
    pending[h] # NULL /\ Decides(pending[h]) /\ Usable(pending[h]) =>
      /\ requests[pending[h].subject] # NULL
      /\ requests[pending[h].subject].status = "awaiting_approval" \/ Follows(h)

\* A request in the route is neither fulfilled nor waiting for a human; one that
\* settles is fulfilled and not charged yet; both at the request's price.
OnTheWay(c) ==
  /\ InRoute(c) => requests[collector[c].id].status \notin {"fulfilled", "awaiting_approval"}
  /\ Settles(c) => /\ requests[collector[c].id].status = "fulfilled"
                   /\ kept[collector[c].id] = Unpaid
  /\ collector[c].pc \in Late => collector[c].fare = Price(collector[c].id)

\* One settlement of a request at a time.
Own == \A c, d \in Collectors : Settles(c) /\ Settles(d) /\ collector[c].id = collector[d].id => c = d

\* What was charged was charged once, for a fulfilled request.
Charged(r) ==
  kept[r] # Unpaid => requests[r] # NULL /\ requests[r].status = "fulfilled" /\ PaidOnce(r)

\* The receipt a request carries.
Receipt(r) ==
  requests[r] # NULL =>
    /\ requests[r].payment = "settled" <=> kept[r] # Unpaid
    /\ requests[r].payment = "unsettled" <=> \E c \in Collectors : Settles(c) /\ collector[c].id = r
    /\ requests[r].status = "fulfilled" => requests[r].payment # "none"

Books ==
  /\ \A c \in Collectors : OnTheWay(c)
  /\ Own
  /\ \A r \in RequestIds : Charged(r)
  /\ ~MayDisconnect => \A r \in RequestIds : Receipt(r)

LEMMA PaidIsNotUnpaid == \A r \in RequestIds : PaidOnce(r) => kept[r] # Unpaid
  BY StoreAssumption DEF PaidOnce, Unpaid

LEMMA KeepPays ==
  ASSUME Typed, NEW c \in Collectors, collector[c].pc # "idle", Keep(c),
         NEW r, r = collector[c].id, kept[r] = Unpaid
  PROVE  /\ PaidOnce(r)' /\ kept'[r] # Unpaid
         /\ \A q \in RequestIds \ {r} : kept'[q] = kept[q]
<1>0. PICK d : d = collector[c].at
  OBVIOUS
<1>1. r \in RequestIds /\ d \in Days /\ kept \in [RequestIds -> [Days -> Nat]]
  BY <1>0, NamesARequest DEF Typed, TypeOK, CollectionTypeOK
<1>2. kept' = [kept EXCEPT ![r] = [kept[r] EXCEPT ![d] = kept[r][d] + 1]]
  BY <1>0 DEF Keep
<1>3. kept'[r] = [Unpaid EXCEPT ![d] = 1]
  BY <1>1, <1>2 DEF Unpaid
<1>4. kept'[r][d] = 1 /\ Unpaid[d] = 0
  BY <1>1, <1>3 DEF Unpaid
<1>5. PaidOnce(r)'
  BY <1>1, <1>3 DEF PaidOnce, Unpaid
<1>6. kept'[r] # Unpaid
  BY <1>4
<1>7. \A q \in RequestIds \ {r} : kept'[q] = kept[q]
  BY <1>1, <1>2
<1>8. QED
  BY <1>5, <1>6, <1>7

\* An exchange past its check is in the route or settles.
LEMMA LateIsBusy ==
  ASSUME Typed, NEW c \in Collectors, collector[c].pc \in Late
  PROVE  InRoute(c) \/ Settles(c)
  BY DEF Typed, Placed, Late, InRoute, Settles

\* Nobody else is in the route with, or settles, a request that an exchange
\* is in the route with or settles.
LEMMA NobodyElse ==
  ASSUME Alone, Books, NEW c \in Collectors, InRoute(c) \/ Settles(c),
         NEW d \in Collectors \ {c}, InRoute(d) \/ Settles(d)
  PROVE  collector[d].id # collector[c].id
<1> SUFFICES ASSUME collector[d].id = collector[c].id
             PROVE  FALSE
  OBVIOUS
<1>1. OnTheWay(c) /\ OnTheWay(d)
  BY DEF Books
<1>2. ~(InRoute(c) /\ InRoute(d))
  BY DEF Alone
<1>3. ~(Settles(c) /\ Settles(d))
  BY DEF Books, Own
<1>4. QED
  BY <1>1, <1>2, <1>3 DEF OnTheWay

LEMMA SamePrice ==
  ASSUME NEW r, requests[r] # NULL, requests'[r].query = requests[r].query
  PROVE  Price(r)' = Price(r)
  BY DEF Price

\* Another exchange, its request and that request's fare as they were.
LEMMA OtherOnTheWay ==
  ASSUME NEW d \in Collectors, OnTheWay(d), collector'[d] = collector[d],
         InRoute(d) \/ Settles(d) \/ collector[d].pc \in Late =>
           /\ requests[collector[d].id] # NULL /\ Same(collector[d].id)
           /\ kept'[collector[d].id] = kept[collector[d].id]
  PROVE  OnTheWay(d)'
<1> DEFINE r == collector[d].id
<1>1. CASE InRoute(d) \/ Settles(d) \/ collector[d].pc \in Late
  <2>1. /\ requests'[r].status = requests[r].status /\ kept'[r] = kept[r]
        /\ requests'[r].query = requests[r].query
    BY <1>1 DEF Same
  <2>2. Price(r)' = Price(r)
    BY <1>1, <2>1, SamePrice
  <2>3. QED
    BY <2>1, <2>2 DEF OnTheWay, InRoute, Settles, Unpaid, Price
<1>2. CASE ~(InRoute(d) \/ Settles(d) \/ collector[d].pc \in Late)
  BY <1>2 DEF OnTheWay, InRoute, Settles
<1>3. QED
  BY <1>1, <1>2

\* The receipt of a request that is as it was, its fare and settlement too.
LEMMA OtherReceipt ==
  ASSUME NEW r \in RequestIds, Receipt(r), Same(r), kept'[r] = kept[r],
         (\E c \in Collectors : Settles(c) /\ collector[c].id = r)
           <=> \E c \in Collectors : Settles(c)' /\ collector'[c].id = r
  PROVE  Receipt(r)'
<1>1. Unpaid' = Unpaid
  BY DEF Unpaid
<1>2. QED
  BY <1>1, Zenon DEF Receipt, Same

LEMMA OtherCharged ==
  ASSUME NEW r \in RequestIds, Charged(r), Same(r), kept'[r] = kept[r]
  PROVE  Charged(r)'
  BY DEF Charged, Same, PaidOnce, Unpaid

\* A move that decides nothing and ends nothing.
LEMMA StillBooks ==
  ASSUME Typed, Typed', Books, NEW c \in Collectors, NEW x, ~Settles(c), x.pc # "settling",
         collector' = [collector EXCEPT ![c] = x], AllSame, UNCHANGED kept,
         Inside(x) => \/ InRoute(c) /\ x.id = collector[c].id
                      \/ x.id \in RequestIds /\ Evaluable(x.id),
         x.pc \in Late => x.fare = Price(x.id)
  PROVE  Books'
<1>1. collector'[c] = x /\ \A d \in Collectors \ {c} : collector'[d] = collector[d]
  BY DEF Typed, TypeOK, CollectionTypeOK
<1>2. \A d \in Collectors : Settles(d)' <=> Settles(d)
  BY <1>1 DEF Settles
<1>3. ASSUME NEW d \in Collectors, collector[d].pc # "idle"
      PROVE  /\ collector[d].id \in RequestIds /\ requests[collector[d].id] # NULL
             /\ Same(collector[d].id) /\ kept'[collector[d].id] = kept[collector[d].id]
  BY <1>3 DEF Typed, Placed, AllSame
<1>4. ASSUME NEW d \in Collectors
      PROVE  OnTheWay(d)'
  <2>1. CASE d # c
    BY <1>1, <1>3, <2>1, OtherOnTheWay DEF Books, InRoute, Settles, Late
  <2>2. CASE d = c
    <3>1. x.pc # "idle" => x.id \in RequestIds /\ requests'[x.id] # NULL
      BY <1>1 DEF Typed, Placed
    <3>2. Inside(x) => requests'[x.id].status \notin {"fulfilled", "awaiting_approval"}
      <4>1. CASE InRoute(c) /\ x.id = collector[c].id
        BY <1>3, <4>1 DEF Books, OnTheWay, InRoute, Same
      <4>2. CASE x.id \in RequestIds /\ Evaluable(x.id)
        BY <4>2 DEF Evaluable, AllSame, Same
      <4>3. QED
        BY <4>1, <4>2
    <3>3. x.pc \in Late => x.fare = Price(x.id)'
      BY <3>1, SamePrice DEF AllSame, Same, Late
    <3>4. (collector[d] = x)'
      BY <1>1, <2>2
    <3>5. QED
      BY <3>2, <3>3, <3>4 DEF OnTheWay, InRoute, Settles, Inside, Price
  <2>3. QED
    BY <2>1, <2>2
<1>5. Own'
  BY <1>1, <1>2 DEF Books, Own
<1>6. \A r \in RequestIds : Charged(r)'
  BY OtherCharged DEF Books, AllSame
<1>7. ASSUME ~MayDisconnect, NEW r \in RequestIds
      PROVE  Receipt(r)'
  <2>1. \A d \in Collectors : Settles(d) => collector'[d] = collector[d]
    BY <1>1
  <2>2. QED
    BY <1>2, <1>7, <2>1, OtherReceipt DEF Books, AllSame
<1>8. QED
  BY <1>4, <1>5, <1>6, <1>7 DEF Books

\* A move that leaves the route, or a settlement, with an outcome.
LEMMA OutcomeBooks ==
  ASSUME Typed, Alone, Books, NEW c \in Collectors, NEW x, InRoute(c) \/ Settles(c),
         collector' = [collector EXCEPT ![c] = x], ~Inside(x),
         NEW r, r = collector[c].id, NEW status, NEW payment, Ends(r, status, payment),
         \A q \in RequestIds \ {r} : kept'[q] = kept[q],
         kept'[r] # Unpaid => status = "fulfilled" /\ PaidOnce(r)',
         x.pc \in Late => /\ x.pc = "settling" /\ collector[c].pc \in Late
                          /\ Carries(x, collector[c])
                          /\ status = "fulfilled" /\ kept'[r] = Unpaid,
         ~MayDisconnect => /\ payment = "settled" <=> kept'[r] # Unpaid
                           /\ payment = "unsettled" <=> x.pc = "settling"
                           /\ status = "fulfilled" => payment # "none"
  PROVE  Books'
<1>1. collector'[c] = x /\ \A d \in Collectors \ {c} : collector'[d] = collector[d]
  BY DEF Typed, TypeOK, CollectionTypeOK
<1>2. r \in RequestIds /\ Unpaid' = Unpaid
  BY NamesARequest DEF Typed, InRoute, Settles, Unpaid
<1>3. \A d \in Collectors \ {c} : InRoute(d) \/ Settles(d) => collector[d].id # r
  BY NobodyElse
<1>4. \A d \in Collectors \ {c} : Settles(d)' <=> Settles(d)
  BY <1>1 DEF Settles
<1>5. /\ Settles(c)' <=> x.pc = "settling"
      /\ x.pc = "settling" => x.id = r
  BY <1>1 DEF Settles, Carries, Late
<1>6. ASSUME NEW d \in Collectors
      PROVE  OnTheWay(d)'
  <2>1. CASE d # c
    <3>1. InRoute(d) \/ Settles(d) \/ collector[d].pc \in Late =>
            /\ collector[d].id \in RequestIds \ {r} /\ requests[collector[d].id] # NULL
      BY <1>3, <2>1, LateIsBusy, NamesARequest DEF Typed, Placed, InRoute, Settles, Late
    <3>2. QED
      BY <1>1, <2>1, <3>1, OtherOnTheWay DEF Books, Ends
  <2>2. CASE d = c
    <3>1. (collector[d] = x)' /\ ~InRoute(d)'
      BY <1>1, <2>2 DEF InRoute, Inside
    <3>2. x.pc \in Late => x.fare = Price(r)' /\ requests'[r].status = "fulfilled"
      <4>1. Price(r)' = Price(r)
        BY SamePrice DEF Ends
      <4>2. QED
        BY <4>1 DEF Books, OnTheWay, Carries, Ends
    <3>3. QED
      BY <1>2, <1>5, <3>1, <3>2 DEF OnTheWay, Settles, Late, Price
  <2>3. QED
    BY <2>1, <2>2
<1>7. ASSUME NEW d \in Collectors, NEW e \in Collectors, Settles(d)', Settles(e)',
             collector'[d].id = collector'[e].id
      PROVE  d = e
  <2>1. CASE d # c /\ e # c
    BY <1>1, <1>4, <1>7, <2>1 DEF Books, Own
  <2>2. CASE d = c \/ e = c
    BY <1>1, <1>3, <1>4, <1>5, <1>7, <2>2
  <2>3. QED
    BY <2>1, <2>2
<1>8. ASSUME NEW q \in RequestIds
      PROVE  Charged(q)'
  <2>1. CASE q = r
    BY <1>2, <2>1 DEF Charged, Ends
  <2>2. CASE q # r
    BY <2>2, OtherCharged DEF Books, Ends
  <2>3. QED
    BY <2>1, <2>2
<1>9. ASSUME ~MayDisconnect, NEW q \in RequestIds
      PROVE  Receipt(q)'
  <2>1. CASE q = r
    <3>1. (\E d \in Collectors : Settles(d)' /\ collector'[d].id = r) <=> x.pc = "settling"
      BY <1>1, <1>3, <1>4, <1>5
    <3>2. QED
      BY <1>2, <1>9, <2>1, <3>1, Zenon DEF Receipt, Ends
  <2>2. CASE q # r
    <3>1. (\E d \in Collectors : Settles(d) /\ collector[d].id = q)
            <=> \E d \in Collectors : Settles(d)' /\ collector'[d].id = q
      BY <1>1, <1>4, <1>5, <2>2 DEF Settles
    <3>2. QED
      BY <1>9, <2>2, <3>1, OtherReceipt DEF Books, Ends
  <2>3. QED
    BY <2>1, <2>2
<1>10. QED
  BY <1>6, <1>7, <1>8, <1>9 DEF Books, Own

\* An exchange that ends its request is busy with it, and was not charged yet.
LEMMA NotChargedYet ==
  ASSUME Typed, Books, NEW c \in Collectors, NEW r, r = collector[c].id,
         InRoute(c) \/ Settles(c)
  PROVE  /\ r \in RequestIds /\ requests[r] # NULL /\ kept[r] = Unpaid
         /\ InRoute(c) => requests[r].status # "fulfilled"
         /\ Settles(c) => requests[r].status = "fulfilled"
<1>1. r \in RequestIds /\ requests[r] # NULL
  BY DEF Typed, Placed, InRoute, Settles
<1>2. OnTheWay(c) /\ Charged(r)
  BY <1>1 DEF Books
<1>3. QED
  BY <1>1, <1>2 DEF OnTheWay, Charged

LEMMA MovesBooks ==
  ASSUME Typed, Typed', Alone, Books, NEW c \in Collectors, NEW x,
         collector' = [collector EXCEPT ![c] = x], Moves(c, x)
  PROVE  Books'
<1>0. /\ collector[c].pc \in Late => collector[c].pc # "idle" /\ collector[c].stage = "release"
      /\ ~Inside(Idle) /\ Idle.pc = "idle"
  BY IdleIsOutside DEF Typed, Placed, Late, Idle
<1>1. PICK r : r = collector[c].id
  OBVIOUS
<1>2. CASE Wanders(c, x)
  BY <1>2, StillBooks DEF Wanders, Holds, Holding, Settles, Late
<1>3. CASE Reserves(c, x) \/ Fetches(c, x)
  <2>1. OnTheWay(c) /\ InRoute(c) /\ ~Settles(c) /\ AllSame /\ UNCHANGED kept
        /\ x.pc # "settling" /\ x.id = collector[c].id /\ x.fare = collector[c].fare
        /\ collector[c].pc \in Late
    BY <1>0, <1>3 DEF Books, Reserves, Fetches, Carries, InRoute, Settles, Late
  <2>2. QED
    BY <2>1, StillBooks DEF OnTheWay
<1>4. CASE GivesBack(c, x)
  <2>1. InRoute(c) \/ Settles(c)
    BY <1>0, <1>4 DEF GivesBack, InRoute, Settles, Late
  <2>2. /\ r \in RequestIds /\ requests[r] # NULL /\ kept[r] = Unpaid
        /\ InRoute(c) => requests[r].status # "fulfilled"
    BY <1>1, <2>1, NotChargedYet
  <2>3. PICK payment : /\ Ends(r, "failed", payment)
                       /\ ~MayDisconnect => payment \notin {"settled", "unsettled"}
    <3>1. CASE collector[c].pc = "settling"
      BY <1>1, <1>4, <3>1 DEF GivesBack
    <3>2. CASE collector[c].pc = "fetching"
      <4>1. InRoute(c) /\ Ends(r, "failed", requests[r].payment)
        BY <1>0, <1>1, <1>4, <3>2 DEF GivesBack, InRoute, Late
      <4>2. ASSUME ~MayDisconnect
            PROVE  requests[r].payment \notin {"settled", "unsettled"}
        <5>1. Receipt(r)
          BY <2>2, <4>2 DEF Books
        <5>2. \A d \in Collectors : Settles(d) => collector[d].id # r
          BY <2>2, <4>1 DEF Books, OnTheWay
        <5>3. QED
          BY <2>2, <5>1, <5>2 DEF Receipt
      <4>3. QED
        BY <4>1, <4>2
    <3>3. QED
      BY <1>4, <3>1, <3>2 DEF GivesBack
  <2>4. x = Idle /\ kept' = kept
    BY <1>4 DEF GivesBack
  <2>5. QED
    BY <1>0, <1>1, <2>1, <2>2, <2>3, <2>4, OutcomeBooks DEF Late
<1>5. CASE HandsOver(c, x)
  <2>1. InRoute(c)
    BY <1>0, <1>5 DEF HandsOver, InRoute, Late
  <2>2. kept[r] = Unpaid
    BY <1>1, <2>1, NotChargedYet
  <2>3. /\ Ends(r, "fulfilled", "unsettled") /\ kept' = kept /\ x.pc = "settling"
        /\ Carries(x, collector[c]) /\ ~Inside(x) /\ collector[c].pc \in Late
    BY <1>1, <1>5 DEF HandsOver, Inside, Late
  <2>4. QED
    BY <1>1, <2>1, <2>2, <2>3, OutcomeBooks
<1>6. CASE Keeps(c, x)
  <2>1. InRoute(c) \/ Settles(c)
    BY <1>0, <1>6 DEF Keeps, InRoute, Settles, Late
  <2>2. /\ kept[r] = Unpaid
        /\ Settles(c) => requests[r].status = "fulfilled"
    BY <1>1, <2>1, NotChargedYet
  <2>3. Ends(r, "fulfilled", "settled")
    BY <1>1, <1>6, <2>2 DEF Keeps, Settles
  <2>4. x = Idle /\ Keep(c) /\ collector[c].pc # "idle"
    BY <1>6 DEF Keeps
  <2>5. PaidOnce(r)' /\ kept'[r] # Unpaid /\ \A q \in RequestIds \ {r} : kept'[q] = kept[q]
    BY <1>1, <2>2, <2>4, KeepPays
  <2>6. QED
    BY <1>0, <1>1, <2>1, <2>3, <2>4, <2>5, OutcomeBooks DEF Late
<1>7. CASE Departs(c, x)
  <2>1. Settles(c) /\ x = Idle /\ MayDisconnect
    BY <1>7 DEF Departs, Settles
  <2>2. r \in RequestIds /\ requests[r] # NULL /\ kept[r] = Unpaid
        /\ requests[r].status = "fulfilled"
    BY <1>1, <2>1, NotChargedYet
  <2>3. Ends(r, "fulfilled", requests[r].payment)
    BY <1>7, <2>2 DEF Departs, AllSame, Same, Ends
  <2>4. /\ \A q \in RequestIds \ {r} : kept'[q] = kept[q]
        /\ kept'[r] # Unpaid => PaidOnce(r)'
    <3>1. CASE Keep(c)
      BY <1>1, <2>1, <2>2, <3>1, KeepPays DEF Settles
    <3>2. CASE UNCHANGED kept
      BY <2>2, <3>2
    <3>3. QED
      BY <1>7, <3>1, <3>2 DEF Departs
  <2>5. QED
    BY <1>0, <1>1, <2>1, <2>3, <2>4, OutcomeBooks DEF Late
<1>8. QED
  BY <1>2, <1>3, <1>4, <1>5, <1>6, <1>7 DEF Moves

\* A request that is stored, or that a human decides on, while nobody collects it.
LEMMA RestateBooks ==
  ASSUME Typed, Books, UNCHANGED <<collector, kept>>, NEW r \in RequestIds, kept[r] = Unpaid,
         \A d \in Collectors : InRoute(d) \/ Settles(d) => collector[d].id # r,
         \A q \in RequestIds \ {r} : Same(q),
         ~MayDisconnect => requests'[r].payment = "none",
         requests'[r].status # "fulfilled"
  PROVE  Books'
<1>1. \A d \in Collectors : Settles(d)' <=> Settles(d)
  BY DEF Settles
<1>2. ASSUME NEW d \in Collectors
      PROVE  OnTheWay(d)'
  <2>1. InRoute(d) \/ Settles(d) \/ collector[d].pc \in Late =>
          /\ collector[d].id \in RequestIds \ {r} /\ requests[collector[d].id] # NULL
    BY LateIsBusy, NamesARequest DEF Typed, Placed, InRoute, Settles, Late
  <2>2. QED
    BY <2>1, OtherOnTheWay DEF Books
<1>3. Own'
  BY <1>1 DEF Books, Own
<1>4. ASSUME NEW q \in RequestIds
      PROVE  Charged(q)'
  <2>1. CASE q = r
    BY <2>1 DEF Charged, Unpaid
  <2>2. CASE q # r
    BY <2>2, OtherCharged DEF Books
  <2>3. QED
    BY <2>1, <2>2
<1>5. ASSUME ~MayDisconnect, NEW q \in RequestIds
      PROVE  Receipt(q)'
  <2>1. CASE q = r
    BY <1>1, <1>5, <2>1 DEF Receipt, Unpaid
  <2>2. CASE q # r
    BY <1>1, <1>5, <2>2, OtherReceipt DEF Books
  <2>3. QED
    BY <2>1, <2>2
<1>6. QED
  BY <1>2, <1>3, <1>4, <1>5 DEF Books

\* A submission stores one new request, unpaid and not fulfilled.
Stores(r) ==
  /\ r \in RequestIds /\ requests[r] = NULL /\ requests'[r] # NULL
  /\ requests'[r].status # "fulfilled" /\ requests'[r].payment = "none"
  /\ requests'[r].query \in Queries \cup {PlaceholderQuery}
  /\ \A q \in RequestIds \ {r} : Same(q)

LEMMA SubmittingStores ==
  ASSUME Typed, Typed', NEW s \in Submitters, Submitting(s)
  PROVE  AllSame \/ \E r : Stores(r)
<1>1. SubmissionStep(s)
  BY DEF Submitting
<1>2. CASE UNCHANGED requests
  BY <1>2, UnchangedSame
<1>3. CASE Record(s)
  <2>1. PICK r \in RequestIds, query \in Queries \cup {NULL},
             status \in {"rejected", "awaiting_approval", "payment_required"} :
          /\ requests[r] = NULL
          /\ putRequest(r, [agent |-> submitter[s].agent,
                            query |-> IF query = NULL THEN PlaceholderQuery ELSE query,
                            status |-> status, approval |-> "none", payment |-> "none",
                            lastRefusal |-> "none"])
    BY <1>3, Zenon DEF Record, StatusFor
  <2> DEFINE stored == IF query = NULL THEN PlaceholderQuery ELSE query
             request == [agent |-> submitter[s].agent, query |-> stored,
                         status |-> status, approval |-> "none", payment |-> "none",
                         lastRefusal |-> "none"]
  <2>2. stored \in Queries \cup {PlaceholderQuery}
    OBVIOUS
  <2>3. request.status = status /\ request.payment = "none" /\ request.query = stored
    OBVIOUS
  <2>4. putRequest(r, request)
    BY <2>1
  <2> HIDE DEF request, stored
  <2>5. requests'[r] = request /\ \A q \in RequestIds \ {r} : requests'[q] = requests[q]
    BY <2>4 DEF putRequest, Typed, TypeOK, StoreTypeOK
  <2>6. requests' \in [RequestIds -> AccessRequest \cup {NULL}]
    BY DEF Typed, TypeOK, StoreTypeOK
  <2>7. request # NULL
    <3>1. submitter[s].agent \in Agents
      BY <1>3 DEF Record, Typed, Asking
    <3>2. stored \in ResourceQuery
      BY <2>2, PlaceholderTyped, SubmissionAssumption
    <3>3. request \in AccessRequest
      BY <2>1, <3>1, <3>2 DEF request, AccessRequest, RequestStatus
    <3>4. QED
      BY <3>3, RequestAssumption
  <2>8. QED
    BY <2>1, <2>2, <2>3, <2>5, <2>7 DEF Stores, Same
<1>4. QED
  BY <1>1, <1>2, <1>3
  DEF SubmissionStep, SubmissionProgress, Submit, ReadChainForSubmission, Interpret, storeVars

\* A decision restates one request, and leaves its query, passport and receipt.
Restates(r) ==
  /\ r \in RequestIds /\ requests[r] # NULL /\ requests'[r] # NULL
  /\ requests'[r].agent = requests[r].agent /\ requests'[r].query = requests[r].query
  /\ requests'[r].payment = requests[r].payment
  /\ requests'[r].status \in {"payment_required", "rejected"}
  /\ \A q \in RequestIds \ {r} : Same(q)

LEMMA DecideRestates ==
  ASSUME Typed, Books, InTime, NEW h \in Humans, Decide(h)
  PROVE  Restates(pending[h].subject) /\ Uncollected(pending[h].subject)
<1>1. PICK e, r : e = pending[h] /\ r = e.subject
  OBVIOUS
<1>2. PICK approval \in {"approved", "rejected"}, status \in {"payment_required", "rejected"} :
        updateRequest(r, [requests[r] EXCEPT !.approval = approval, !.status = status])
  BY <1>1 DEF Decide
<1>3. e # NULL /\ Decides(e) /\ Usable(e)
  BY <1>1 DEF Decide, Decides, Authorize, Usable, consumeNonce
<1>4. /\ r \in RequestIds /\ requests[r] # NULL
      /\ requests[r].status = "awaiting_approval" \/ Uncollected(r)
  BY <1>1, <1>3, PendingTyped DEF InTime, Follows, Decides, Typed, TypeOK
<1>a. Uncollected(r)
  BY <1>4 DEF Uncollected, Books, OnTheWay, Charged
<1> DEFINE patched == [requests[r] EXCEPT !.approval = approval, !.status = status]
<1>5. requests \in [RequestIds -> AccessRequest \cup {NULL}]
  BY DEF Typed, TypeOK, StoreTypeOK
<1>6. /\ patched \in AccessRequest
      /\ patched.agent = requests[r].agent /\ patched.query = requests[r].query
      /\ patched.payment = requests[r].payment /\ patched.status = status
  BY <1>4, <1>5 DEF AccessRequest, RequestStatus
<1>7. updateRequest(r, patched)
  BY <1>2
<1> HIDE DEF patched
<1>8. requests'[r] = patched /\ \A q \in RequestIds \ {r} : requests'[q] = requests[q]
  BY <1>4, <1>5, <1>7 DEF updateRequest
<1>9. Restates(r)
  BY <1>4, <1>6, <1>8, RequestAssumption DEF Restates, Same
<1>10. QED
  BY <1>1, <1>a, <1>9

\* A turn lasts until the exchange itself ends it: curves stay loaded.
LEMMA FollowsStays ==
  ASSUME NEW h \in Humans, pending'[h] = pending[h], UNCHANGED <<collector, kept>>,
         \A sig \in Signatures : acted[sig] # 0 => acted'[sig] # 0,
         Follows(h), requests'[pending[h].subject].status \in {"payment_required", "rejected"}
  PROVE  Follows(h)'
<1>1. HumanMidTurn(h)'
  BY DEF Follows, HumanMidTurn, Waits
<1>2. Uncollected(pending[h].subject)'
  BY DEF Follows, Uncollected, InRoute, Settles
<1>3. QED
  BY <1>1, <1>2 DEF Follows

\* What leaves the exchanges of humans alone either runs between their turns,
\* or leaves alone what they depend on.
LEMMA InTimeStays ==
  ASSUME Typed, InTime, UNCHANGED <<pending, usedNonces>>,
         \A r \in RequestIds :
           requests[r] # NULL /\ requests[r].status = "awaiting_approval" => Same(r),
         HumansQuiet \/ UNCHANGED <<requests, collector, kept, acted>>
  PROVE  InTime'
<1>1. ASSUME NEW h \in Humans, pending[h] # NULL, Decides(pending[h]), Usable(pending[h])
      PROVE  /\ requests'[pending[h].subject] # NULL
             /\ requests'[pending[h].subject].status = "awaiting_approval" \/ Follows(h)'
  <2>1. pending[h].subject \in RequestIds
    BY <1>1, PendingTyped DEF Decides, Typed, TypeOK
  <2>2. CASE requests[pending[h].subject].status = "awaiting_approval"
    BY <1>1, <2>1, <2>2 DEF InTime, Same
  <2>3. CASE Follows(h)
    <3>1. UNCHANGED <<requests, collector, kept, acted>>
      BY <2>3 DEF HumansQuiet, Follows
    <3>2. Follows(h)'
      BY <2>3, <3>1, FollowsStays DEF Follows
    <3>3. QED
      BY <1>1, <3>1, <3>2 DEF InTime
  <2>4. QED
    BY <1>1, <2>2, <2>3 DEF InTime
<1>2. QED
  BY <1>1, Zenon DEF InTime, Decides, Usable

LEMMA CollectingInTime ==
  ASSUME Typed, Books, InTime, NEW c \in Collectors, Collecting(c)
  PROVE  InTime'
<1>1. PICK x : collector' = [collector EXCEPT ![c] = x] /\ Moves(c, x)
  BY CollectionMoves DEF Collecting
<1>2. PICK r : r = collector[c].id
  OBVIOUS
<1>3. \/ AllSame
      \/ /\ InRoute(c) \/ Settles(c)
         /\ \A q \in RequestIds \ {r} : Same(q)
  BY <1>1, <1>2 DEF Moves, Wanders, Reserves, Fetches, GivesBack, HandsOver, Keeps, Departs, Ends,
                    InRoute, Settles, Typed, Placed, Late
<1>4. InRoute(c) \/ Settles(c) => requests[r].status # "awaiting_approval"
  BY <1>2 DEF Books, OnTheWay
<1>5. \A q \in RequestIds :
        requests[q] # NULL /\ requests[q].status = "awaiting_approval" => Same(q)
  BY <1>3, <1>4 DEF AllSame
<1>6. QED
  BY <1>5, CollectingLeaves, InTimeStays DEF Collecting

\* A signature that was accepted stays accepted.
LEMMA ActingRemembers ==
  ASSUME Typed, NEW h \in Humans, Acting(h)
  PROVE  \A sig \in Signatures : acted[sig] # 0 => acted'[sig] # 0
<1>1. HumanStep(h) /\ acted \in [Signatures -> Nat]
  BY DEF Acting, Typed, TypeOK, HumanTypeOK
<1>2. UNCHANGED acted \/ \E e : acted' = [acted EXCEPT ![e.sig] = @ + 1]
  BY <1>1 DEF HumanStep, HumanProgress, Receive, Refuse, Decide, CreateAgent, SetPolicy, Revoke,
              Authorize
<1>3. QED
  BY <1>1, <1>2

\* Once one signed decision was accepted, the others are in its turn.
LEMMA CurvesLoaded ==
  ASSUME Typed, NEW h \in Humans, NEW g \in Humans, Decide(h), RequireSignature,
         pending'[g] # NULL, Decides(pending'[g])
  PROVE  HumanMidTurn(g)'
<1>1. acted \in [Signatures -> Nat] /\ pending[h] \in Envelopes /\ pending[h].sig # NULL
      /\ acted' = [acted EXCEPT ![pending[h].sig] = @ + 1]
  BY DEF Decide, Authorize, consumeNonce, Typed, TypeOK, HumanTypeOK
<1>2. pending[h].sig \in Signatures
  BY <1>1, HumanAssumption DEF Envelope
<1>3. acted'[pending[h].sig] # 0
  BY <1>1, <1>2
<1>4. QED
  BY <1>2, <1>3 DEF HumanMidTurn, Waits, Decides

LEMMA ActingInTime ==
  ASSUME OneDecision, Typed, Books, InTime, NEW h \in Humans, Acting(h)
  PROVE  InTime'
<1>1. HumanStep(h) /\ pending \in [Humans -> Envelopes \cup {NULL}]
  BY DEF Acting, Typed, TypeOK, HumanTypeOK
<1>0. /\ UNCHANGED <<collector, kept>>
      /\ \A sig \in Signatures : acted[sig] # 0 => acted'[sig] # 0
  BY ActingLeaves, ActingRemembers
<1>2. CASE Decide(h)
  <2>1. PICK r : r = pending[h].subject
    OBVIOUS
  <2>2. Restates(r) /\ Uncollected(r)
    BY <1>2, <2>1, DecideRestates
  <2>3. /\ pending' = [pending EXCEPT ![h] = NULL] /\ Authorize(pending[h])
        /\ pending[h] # NULL /\ Decides(pending[h])
    BY <1>2 DEF Decide, Closes, Decides
  <2>4. usedNonces \subseteq usedNonces'
    BY <2>3 DEF Authorize, consumeNonce
  <2>5. ASSUME NEW g \in Humans, pending'[g] # NULL, Decides(pending'[g]), Usable(pending[g])'
        PROVE  /\ requests'[pending'[g].subject] # NULL
               /\ requests'[pending'[g].subject].status = "awaiting_approval" \/ Follows(g)'
    <3>1. g # h /\ pending'[g] = pending[g]
      BY <1>1, <2>3, <2>5
    <3>2. /\ Usable(pending[g]) /\ pending[g].subject \in RequestIds
          /\ requests[pending[g].subject] # NULL
          /\ requests[pending[g].subject].status = "awaiting_approval" \/ Follows(g)
      BY <2>4, <2>5, <3>1, PendingTyped DEF Usable, InTime, Decides, Typed, TypeOK
    <3>3. CASE pending[g].subject # r
      <4>1. Same(pending[g].subject)
        BY <2>2, <3>2, <3>3 DEF Restates
      <4>2. Follows(g) => Follows(g)'
        BY <1>0, <3>1, <4>1, FollowsStays DEF Same, Follows
      <4>3. QED
        BY <3>1, <3>2, <4>1, <4>2 DEF Same
    <3>4. CASE pending[g].subject = r
      <4>1. RequireSignature
        BY <3>1 DEF OneDecision
      <4>2. pending[h].sig # NULL /\ pending[h].sig \in usedNonces'
        BY <2>3, <4>1 DEF Authorize, consumeNonce
      <4>3. pending[g] # pending[h]
        BY <2>5, <3>1, <4>1, <4>2 DEF Usable
      <4>4. ~SharedTurn
        BY <1>1, <2>1, <2>3, <2>5, <3>1, <3>4, <4>3 DEF OneDecision
      <4>5. HumanMidTurn(g)'
        BY <1>2, <2>5, <4>1, CurvesLoaded
      <4>6. Uncollected(r)'
        BY <1>0, <2>2 DEF Uncollected, InRoute, Settles
      <4>7. Follows(g)'
        BY <2>2, <3>1, <3>4, <4>4, <4>5, <4>6 DEF Follows, Restates
      <4>8. QED
        BY <2>2, <3>1, <3>4, <4>7 DEF Restates
    <3>5. QED
      BY <3>3, <3>4
  <2>6. QED
    BY <2>5, Zenon DEF InTime, Decides
<1>3. CASE ~Decide(h)
  <2>1. /\ UNCHANGED requests /\ usedNonces \subseteq usedNonces'
        /\ \/ pending' = [pending EXCEPT ![h] = NULL]
           \/ \E e \in Envelopes : MayStart(e) /\ pending' = [pending EXCEPT ![h] = e]
    BY <1>1, <1>3 DEF HumanStep, HumanProgress, Receive, Refuse, CreateAgent, SetPolicy, Revoke,
                      Closes, Authorize, consumeNonce, storeVars
  <2>2. ASSUME NEW g \in Humans, pending'[g] # NULL, Decides(pending'[g]), Usable(pending[g])'
        PROVE  /\ requests[pending'[g].subject] # NULL
               /\ requests[pending'[g].subject].status = "awaiting_approval" \/ Follows(g)'
    <3>1. CASE pending'[g] = pending[g]
      <4>1. Follows(g) => Follows(g)'
        BY <1>0, <2>1, <3>1, FollowsStays DEF Follows
      <4>2. QED
        BY <2>1, <2>2, <3>1, <4>1 DEF InTime, Usable
    <3>2. CASE pending'[g] # pending[g]
      <4>1. g = h /\ MayStart(pending'[g])
        BY <1>1, <2>1, <2>2, <3>2
      <4>2. QED
        BY <2>2, <4>1 DEF MayStart, Decides
    <3>3. QED
      BY <3>1, <3>2
  <2>3. QED
    BY <2>1, <2>2, Zenon DEF InTime, Decides
<1>4. QED
  BY <1>2, <1>3

LEMMA NextInTime ==
  ASSUME OneDecision, Typed, Typed', Books, InTime, [Next]_vars
  PROVE  InTime'
<1>1. CASE UNCHANGED <<requests, pending, usedNonces, collector, kept, acted>>
  BY <1>1, InTimeStays, UnchangedSame DEF AllSame
<1>2. ASSUME NEW s \in Submitters, Submitting(s)
      PROVE  InTime'
  BY <1>2, SubmittingStores, SubmittingLeaves, InTimeStays DEF AllSame, Stores, Submitting
<1>3. QED
  BY <1>1, <1>2, CollectingInTime, ActingInTime
  DEF Next, OwnerActs, Midnight, Tick, vars, storeVars, humanVars, collectionVars

LEMMA NextBooks ==
  ASSUME Typed, Typed', Alone, InTime, Books, [Next]_vars
  PROVE  Books'
<1>1. ASSUME AllSame, UNCHANGED <<collector, kept>>
      PROVE  Books'
  <2>1. \A d \in Collectors : Settles(d)' <=> Settles(d)
    BY <1>1 DEF Settles
  <2>2. \A d \in Collectors : OnTheWay(d)'
    BY <1>1, OtherOnTheWay DEF Books, AllSame, Typed, Placed, InRoute, Settles, Late
  <2>3. Own'
    BY <1>1, <2>1 DEF Books, Own
  <2>4. \A q \in RequestIds : Charged(q)'
    BY <1>1, OtherCharged DEF Books, AllSame
  <2>5. ~MayDisconnect => \A q \in RequestIds : Receipt(q)'
    BY <1>1, <2>1, OtherReceipt DEF Books, AllSame
  <2>6. QED
    BY <2>2, <2>3, <2>4, <2>5 DEF Books
<1>2. ASSUME NEW c \in Collectors, Collecting(c)
      PROVE  Books'
  BY <1>2, CollectionMoves, MovesBooks DEF Collecting
<1>3. ASSUME NEW h \in Humans, Acting(h)
      PROVE  Books'
  <2>1. HumanStep(h) /\ UNCHANGED <<collector, kept>>
    BY <1>3, ActingLeaves DEF Acting
  <2>2. CASE Decide(h)
    <3>1. PICK r : r = pending[h].subject
      OBVIOUS
    <3>2. Restates(r) /\ Uncollected(r)
      BY <2>2, <3>1, DecideRestates
    <3>3. /\ kept[r] = Unpaid
          /\ \A d \in Collectors : InRoute(d) \/ Settles(d) => collector[d].id # r
      BY <3>2 DEF Uncollected
    <3>4. ASSUME ~MayDisconnect
          PROVE  requests'[r].payment = "none"
      <4>1. Receipt(r) /\ requests[r] \in AccessRequest
        BY <3>2, <3>4 DEF Books, Restates, Typed, TypeOK, StoreTypeOK
      <4>2. requests[r].payment \in {"none", "unsettled", "settled"}
        BY <4>1 DEF AccessRequest
      <4>3. QED
        BY <3>2, <3>3, <4>1, <4>2 DEF Receipt, Restates
    <3>5. QED
      BY <2>1, <3>2, <3>3, <3>4, RestateBooks DEF Restates
  <2>3. CASE ~Decide(h)
    <3>1. UNCHANGED requests
      BY <2>1, <2>3 DEF HumanStep, HumanProgress, Receive, Refuse, CreateAgent, SetPolicy, Revoke,
                        storeVars
    <3>2. QED
      BY <1>1, <2>1, <3>1, UnchangedSame
  <2>4. QED
    BY <2>2, <2>3
<1>4. ASSUME NEW s \in Submitters, Submitting(s)
      PROVE  Books'
  <2>1. UNCHANGED <<collector, kept>>
    BY <1>4, SubmittingLeaves
  <2>2. ASSUME NEW r, Stores(r)
        PROVE  Books'
    <3>1. kept[r] = Unpaid /\ r \in RequestIds
      BY <2>2 DEF Stores, Books, Charged
    <3>2. \A d \in Collectors : InRoute(d) \/ Settles(d) => collector[d].id # r
      BY <2>2 DEF Stores, Typed, Placed, InRoute, Settles
    <3>3. QED
      BY <2>1, <2>2, <3>1, <3>2, RestateBooks DEF Stores
  <2>3. QED
    BY <1>1, <1>4, <2>1, <2>2, SubmittingStores
<1>5. CASE UNCHANGED <<requests, collector, kept>>
  BY <1>1, <1>5, UnchangedSame
<1>6. QED
  BY <1>2, <1>3, <1>4, <1>5 DEF Next, OwnerActs, Midnight, Tick, vars, storeVars, collectionVars

LEMMA InitBooks == Init => Alone /\ InTime /\ Books
<1> SUFFICES ASSUME Init PROVE Alone /\ InTime /\ Books
  OBVIOUS
<1>1. Idle.pc = "idle"
  BY DEF Idle
<1>2. \A c \in Collectors : collector[c].pc = "idle"
  BY <1>1 DEF Init, CollectionInit
<1>3. Alone
  BY <1>2 DEF Init, CollectionInit, Alone, InRoute
<1>4. InTime
  BY DEF Init, HumanInit, InTime
<1>5. Books
  BY <1>2 DEF Init, StoreInit, CollectionInit, Books, OnTheWay, Own, Charged, Receipt, InRoute,
              Settles, Late, Unpaid
<1>6. QED
  BY <1>3, <1>4, <1>5

THEOREM BooksKept ==
  ASSUME OneDecision
  PROVE  Spec => [](Typed /\ Alone /\ InTime /\ Books)
<1>1. Init => Typed /\ Alone /\ InTime /\ Books
  BY InitTyped, InitBooks
<1>2. Typed /\ Alone /\ InTime /\ Books /\ [Next]_vars => (Typed /\ Alone /\ InTime /\ Books)'
  BY NextTyped, NextAlone, NextInTime, NextBooks
<1>3. QED
  BY <1>1, <1>2, PTL DEF Spec

\* data.ts:67-71, SECURITY.md:57-58.  However many collections of a request
\* overlap, fail and are retried, and in whatever mode, its fare is kept at
\* most once, as long as OneDecision holds.
THEOREM NobodyPaysTwice ==
  ASSUME OneDecision
  PROVE  Spec => []ChargedOnce
<1>1. Books => ChargedOnce
  BY DEF Books, Charged, ChargedOnce
<1>2. QED
  BY <1>1, BooksKept, PTL

\* data.ts:237-284.  When no client leaves before its answer is written, the
\* fulfilled requests are the ones that were charged or that are settling.
THEOREM FulfilledMeansCharged ==
  ASSUME OneDecision, ~MayDisconnect
  PROVE  Spec => []FulfilledIffCharged
<1>1. Typed /\ Books => FulfilledIffCharged
  <2> SUFFICES ASSUME Typed, Books, NEW r \in RequestIds, requests[r] # NULL
               PROVE  requests[r].status = "fulfilled" <=>
                        \/ PaidOnce(r)
                        \/ \E c \in Collectors : Settles(c) /\ collector[c].id = r
    BY DEF FulfilledIffCharged, Settles
  <2>1. Receipt(r) /\ Charged(r) /\ (PaidOnce(r) => kept[r] # Unpaid)
    BY PaidIsNotUnpaid DEF Books
  <2>2. requests[r] \in AccessRequest
    BY DEF Typed, TypeOK, StoreTypeOK
  <2>3. requests[r].payment \in {"none", "unsettled", "settled"}
    BY <2>2 DEF AccessRequest
  <2>4. \A c \in Collectors : Settles(c) /\ collector[c].id = r => requests[r].status = "fulfilled"
    BY DEF Books, OnTheWay
  <2>5. QED
    BY <2>1, <2>3, <2>4 DEF Receipt, Charged
<1>2. QED
  BY <1>1, BooksKept, PTL

\* model.ts:109-164, RequestLedger.tsx:17-24, 290-303, 384-389.  In the same
\* runs everything the dashboard says of a fare is what the ledger holds.
THEOREM TheDashboardIsTruthful ==
  ASSUME OneDecision, ~MayDisconnect
  PROVE  Spec => []DashboardTellsTheTruth
<1>1. Typed /\ Books => DashboardTellsTheTruth
  <2> SUFFICES ASSUME Typed, Books, NEW r \in RequestIds, requests[r] # NULL
               PROVE  LET said == Claims(r) IN
                      /\ said \cap {"nothing", "nothing yet", "being paid"} # {} => kept[r] = Unpaid
                      /\ "settling" \in said => Settling(r)
                      /\ "taken" \in said => PaidOnce(r)
                      /\ stationsFor(requests[r]).paid = "passed" <=> PaidOnce(r)
                      /\ \E f \in Filters : Matches(f, requests[r])
                           /\ \A g \in Filters \ {f} : ~Matches(g, requests[r])
    BY DEF DashboardTellsTheTruth
  <2> DEFINE q == requests[r]
  <2>1. q \in AccessRequest
    BY DEF Typed, TypeOK, StoreTypeOK
  <2>2. q.payment \in {"none", "unsettled", "settled"} /\ q.status \in RequestStatus
    BY <2>1 DEF AccessRequest
  <2>3. /\ q.payment = "settled" <=> PaidOnce(r)
        /\ q.payment = "settled" <=> kept[r] # Unpaid
        /\ q.payment = "unsettled" => Settling(r)
        /\ q.status = "fulfilled" => q.payment # "none"
        /\ kept[r] # Unpaid => q.status = "fulfilled"
    BY PaidIsNotUnpaid DEF Books, Receipt, Charged, Settling, Settles
  <2> HIDE DEF q
  <2>4. ASSUME NEW auto \in BOOLEAN, NEW word,
               word \in {verdictFor(q, auto).fare, PaymentBody(q, auto)}
        PROVE  /\ word \in {"nothing", "nothing yet", "being paid"} => kept[r] = Unpaid
               /\ word = "settling" => Settling(r)
               /\ word = "taken" => PaidOnce(r)
    <3>1. CASE word = verdictFor(q, auto).fare
      BY <2>2, <2>3, <3>1 DEF verdictFor, Verdict, RequestStatus
    <3>2. CASE word = PaymentBody(q, auto)
      BY <2>2, <2>3, <3>2 DEF PaymentBody, CollectHint, Paid
    <3>3. QED
      BY <2>4, <3>1, <3>2
  <2>5. stationsFor(q).paid = "passed" <=> PaidOnce(r)
    BY <2>3 DEF stationsFor, Paid
  <2>6. \E f \in Filters : Matches(f, q) /\ \A g \in Filters \ {f} : ~Matches(g, q)
    BY <2>2 DEF Filters, Matches, RequestStatus
  <2>7. QED
    BY <2>4, <2>5, <2>6 DEF Claims, q
<1>2. QED
  BY <1>1, BooksKept, PTL
-----------------------------------------------------------------------------
(* The ledger balances *)

\* A stored request keeps its passport and its query.
Lasts ==
  \A q \in RequestIds :
    requests[q] # NULL =>
      /\ requests'[q] # NULL
      /\ requests'[q].agent = requests[q].agent /\ requests'[q].query = requests[q].query

\* A fare is carried at its request's price, charged for a stored request
\* only, and a price is the price of something that was asked for.
Carried ==
  /\ \A c \in Collectors : collector[c].pc \in Late => collector[c].fare = Price(collector[c].id)
  /\ \A r \in RequestIds :
       /\ requests[r] = NULL => kept[r] = Unpaid
       /\ requests[r] # NULL => requests[r].query \in Queries \cup {PlaceholderQuery}

LEMMA SameLasts == AllSame => Lasts
  BY DEF AllSame, Same, Lasts

LEMMA EndsLasts ==
  ASSUME NEW r, NEW status, NEW payment, Ends(r, status, payment)
  PROVE  Lasts
  BY DEF Ends, Same, Lasts

LEMMA MovesLasts ==
  ASSUME Typed, NEW c \in Collectors, NEW x, Moves(c, x)
  PROVE  Lasts
<1>1. AllSame \/ \E status, payment : Ends(collector[c].id, status, payment)
  BY DEF Moves, Wanders, Reserves, Fetches, GivesBack, HandsOver, Keeps, Departs
<1>2. QED
  BY <1>1, SameLasts, EndsLasts

LEMMA ActingLasts ==
  ASSUME Typed, NEW h \in Humans, Acting(h)
  PROVE  Lasts /\ \A q \in RequestIds : requests[q] = NULL => requests'[q] = NULL
<1>1. HumanStep(h) /\ requests \in [RequestIds -> AccessRequest \cup {NULL}]
  BY DEF Acting, Typed, TypeOK, StoreTypeOK
<1>2. CASE UNCHANGED requests
  BY <1>2 DEF Lasts
<1>3. CASE Decide(h)
  <2>0. PICK r : r = pending[h].subject
    OBVIOUS
  <2>1. PICK approval \in {"approved", "rejected"}, status \in {"payment_required", "rejected"} :
          updateRequest(r, [requests[r] EXCEPT !.approval = approval, !.status = status])
    BY <1>3, <2>0 DEF Decide
  <2> DEFINE patched == [requests[r] EXCEPT !.approval = approval, !.status = status]
  <2>2. r \in RequestIds /\ requests[r] # NULL =>
          /\ patched \in AccessRequest
          /\ patched.agent = requests[r].agent /\ patched.query = requests[r].query
    BY <1>1 DEF AccessRequest, RequestStatus
  <2>3. updateRequest(r, patched)
    BY <2>1
  <2> HIDE DEF patched
  <2>4. QED
    BY <1>1, <2>2, <2>3, RequestAssumption DEF updateRequest, Lasts
<1>4. QED
  BY <1>1, <1>2, <1>3
  DEF HumanStep, HumanProgress, Receive, Refuse, CreateAgent, SetPolicy, Revoke, storeVars

LEMMA StoresLasts == ASSUME NEW r, Stores(r) PROVE Lasts
  BY DEF Stores, Same, Lasts

\* No step changes the passport or the query of a stored request.
LEMMA NextLasts ==
  ASSUME Typed, Typed', [Next]_vars
  PROVE  Lasts
<1>1. CASE UNCHANGED requests
  BY <1>1, SameLasts, UnchangedSame
<1>2. ASSUME NEW c \in Collectors, Collecting(c) PROVE Lasts
  BY <1>2, CollectionMoves, MovesLasts DEF Collecting
<1>3. ASSUME NEW s \in Submitters, Submitting(s) PROVE Lasts
  BY <1>3, SubmittingStores, SameLasts, StoresLasts
<1>4. QED
  BY <1>1, <1>2, <1>3, ActingLasts DEF Next, OwnerActs, Midnight, Tick, vars, storeVars

LEMMA NextCarried ==
  ASSUME Typed, Typed', Carried, [Next]_vars
  PROVE  Carried'
<1>1. Lasts
  BY NextLasts
<1>2. ASSUME NEW d \in Collectors, collector'[d] = collector[d], collector'[d].pc \in Late
      PROVE  collector'[d].fare = Price(collector[d].id)'
  <2>1. collector[d].id \in RequestIds /\ requests[collector[d].id] # NULL
    BY <1>2 DEF Typed, Placed, Late
  <2>2. QED
    BY <1>1, <1>2, <2>1 DEF Carried, Lasts, Price
<1>3. ASSUME NEW c \in Collectors, Collecting(c)
      PROVE  Carried'
  <2>1. PICK x : collector' = [collector EXCEPT ![c] = x] /\ Moves(c, x)
    BY <1>3, CollectionMoves DEF Collecting
  <2>2. collector'[c] = x /\ \A d \in Collectors \ {c} : collector'[d] = collector[d]
    BY <2>1 DEF Typed, TypeOK, CollectionTypeOK
  <2>3. ASSUME x.pc \in Late
        PROVE  x.fare = Price(x.id)'
    <3>1. x.fare = Price(x.id)
      BY <2>1, <2>3 DEF Moves, Wanders, Reserves, Fetches, GivesBack, HandsOver, Keeps, Departs,
                        Carries, Holding, Carried, Late, Idle
    <3>2. x.id \in RequestIds /\ requests'[x.id] # NULL
      BY <2>2, <2>3 DEF Typed, Placed, Late
    <3>3. requests[x.id] # NULL
      BY <2>1, <3>2 DEF Moves, Wanders, Reserves, Fetches, GivesBack, HandsOver, Keeps, Departs,
                        Ends, AllSame, Same
    <3>4. QED
      BY <1>1, <3>1, <3>2, <3>3, SamePrice DEF Lasts
  <2>4. \A d \in Collectors : collector'[d].pc \in Late => collector'[d].fare = Price(collector[d].id)'
    BY <1>2, <2>2, <2>3
  <2>5. ASSUME NEW r \in RequestIds
        PROVE  /\ requests'[r] = NULL => kept'[r] = Unpaid
               /\ requests'[r] # NULL => requests'[r].query \in Queries \cup {PlaceholderQuery}
    <3>1. requests'[r] = NULL <=> requests[r] = NULL
      BY <2>1 DEF Moves, Wanders, Reserves, Fetches, GivesBack, HandsOver, Keeps, Departs,
                  Ends, AllSame, Same
    <3>2. UNCHANGED kept \/ (Keep(c) /\ collector[c].pc # "idle")
      <4>1. CASE Keeps(c, x)
        BY <4>1 DEF Keeps
      <4>2. CASE Departs(c, x)
        BY <4>2 DEF Departs
      <4>3. CASE ~(Keeps(c, x) \/ Departs(c, x))
        BY <2>1, <4>3 DEF Moves, Wanders, Reserves, Fetches, GivesBack, HandsOver
      <4>4. QED
        BY <4>1, <4>2, <4>3
    <3>3. requests[r] = NULL => kept'[r] = kept[r]
      BY <3>2, NamesARequest DEF Keep, Typed, Placed, TypeOK, CollectionTypeOK
    <3>4. QED
      BY <1>1, <3>1, <3>3 DEF Carried, Lasts
  <2>6. QED
    BY <2>4, <2>5 DEF Carried, Unpaid
<1>4. ASSUME UNCHANGED <<collector, kept>>,
             \A r \in RequestIds :
               /\ requests'[r] = NULL => requests[r] = NULL
               /\ requests[r] = NULL /\ requests'[r] # NULL =>
                    requests'[r].query \in Queries \cup {PlaceholderQuery}
      PROVE  Carried'
  <2>1. \A d \in Collectors : collector'[d].pc \in Late => collector'[d].fare = Price(collector[d].id)'
    BY <1>2, <1>4
  <2>2. \A r \in RequestIds :
          /\ requests'[r] = NULL => kept'[r] = Unpaid
          /\ requests'[r] # NULL => requests'[r].query \in Queries \cup {PlaceholderQuery}
    BY <1>1, <1>4 DEF Carried, Lasts
  <2>3. QED
    BY <2>1, <2>2 DEF Carried, Unpaid
<1>5. ASSUME NEW s \in Submitters, Submitting(s)
      PROVE  Carried'
  BY <1>4, <1>5, SubmittingStores, SubmittingLeaves DEF Stores, AllSame, Same
<1>6. ASSUME NEW h \in Humans, Acting(h)
      PROVE  Carried'
  BY <1>4, <1>6, ActingLasts, ActingLeaves DEF Lasts
<1>7. CASE UNCHANGED <<requests, collector, kept>>
  BY <1>4, <1>7
<1>8. QED
  BY <1>3, <1>5, <1>6, <1>7 DEF Next, OwnerActs, Midnight, Tick, vars, storeVars, collectionVars

LEMMA FaresTyped ==
  Typed => \A a, d : d \in Days =>
             HeldFares(a, d) \in [Collectors -> Nat] /\ KeptFares(a, d) \in [RequestIds -> Nat]
<1> SUFFICES ASSUME Typed, NEW a, NEW d \in Days
             PROVE  HeldFares(a, d) \in [Collectors -> Nat] /\ KeptFares(a, d) \in [RequestIds -> Nat]
  OBVIOUS
<1>1. \A c \in Collectors : collector[c].fare \in Nat
  BY DEF Typed, TypeOK, CollectionTypeOK, CollectorState
<1>2. ASSUME NEW r \in RequestIds, requests[r] # NULL
      PROVE  kept[r][d] * priceQueryMicros(requests[r].query) \in Nat
  <2>1. requests[r].query \in ResourceQuery /\ kept[r][d] \in Nat
    BY <1>2 DEF Typed, TypeOK, StoreTypeOK, CollectionTypeOK, AccessRequest
  <2>2. priceQueryMicros(requests[r].query) \in Nat
    BY <2>1, PriceIsNat
  <2>3. QED
    BY <2>1, <2>2
<1>3. QED
  BY <1>1, <1>2 DEF HeldFares, KeptFares

LEMMA FaresTypedNext ==
  (Typed => \A a, d : d \in Days =>
     HeldFares(a, d) \in [Collectors -> Nat] /\ KeptFares(a, d) \in [RequestIds -> Nat])'
  BY FaresTyped, PTL

LEMMA BalanceArithmetic ==
  ASSUME NEW F \in Nat, NEW G \in Nat, NEW H \in Nat, NEW K \in Nat, NEW s \in Nat, NEW t \in Nat,
         NEW f \in Nat, NEW g \in Nat, NEW h \in Nat, NEW k \in Nat,
         G + f = F + g, f <= F, K + h = H + k, s = F + H,
         f <= s => t + f + h = s + g + k
  PROVE  t = G + K
  OBVIOUS

\* One exchange and one request change, and the spend by what they change.
LEMMA BalanceMoves ==
  ASSUME IsFiniteSet(Collectors), IsFiniteSet(RequestIds), Typed, Typed',
         NEW a \in Agents, NEW d \in Days, NEW c \in Collectors, NEW r \in RequestIds,
         spend[a][d] = SumFunction(HeldFares(a, d)) + SumFunction(KeptFares(a, d)),
         \A e \in Collectors \ {c} : HeldFares(a, d)[e] = HeldFares(a, d)'[e],
         \A q \in RequestIds \ {r} : KeptFares(a, d)[q] = KeptFares(a, d)'[q],
         HeldFares(a, d)[c] <= spend[a][d] =>
           spend'[a][d] + HeldFares(a, d)[c] + KeptFares(a, d)[r]
             = spend[a][d] + HeldFares(a, d)'[c] + KeptFares(a, d)'[r]
  PROVE  spend'[a][d] = SumFunction(HeldFares(a, d)') + SumFunction(KeptFares(a, d)')
<1>1. PICK f, g, h, k : /\ f = HeldFares(a, d) /\ g = HeldFares(a, d)'
                        /\ h = KeptFares(a, d) /\ k = KeptFares(a, d)'
  OBVIOUS
<1>2. /\ f \in [Collectors -> Nat] /\ h \in [RequestIds -> Nat]
      /\ g \in [Collectors -> Nat] /\ k \in [RequestIds -> Nat]
  <2>1. f \in [Collectors -> Nat] /\ h \in [RequestIds -> Nat]
    BY <1>1, FaresTyped
  <2>2. g \in [Collectors -> Nat] /\ k \in [RequestIds -> Nat]
    BY <1>1, FaresTypedNext DEF Days
  <2>3. QED
    BY <2>1, <2>2
<1>3. /\ SumFunction(f) \in Nat /\ SumFunction(g) \in Nat
      /\ SumFunction(g) + f[c] = SumFunction(f) + g[c] /\ f[c] <= SumFunction(f)
  BY <1>1, <1>2, SumUpdated
<1>4. /\ SumFunction(h) \in Nat /\ SumFunction(k) \in Nat
      /\ SumFunction(k) + h[r] = SumFunction(h) + k[r]
  BY <1>1, <1>2, SumUpdated
<1>5. spend[a][d] \in Nat /\ spend'[a][d] \in Nat
  BY DEF Typed, TypeOK, StoreTypeOK
<1>6. f[c] \in Nat /\ g[c] \in Nat /\ h[r] \in Nat /\ k[r] \in Nat
  BY <1>2
<1>7. spend[a][d] = SumFunction(f) + SumFunction(h)
  BY <1>1
<1>8. f[c] <= spend[a][d] => spend'[a][d] + f[c] + h[r] = spend[a][d] + g[c] + k[r]
  BY <1>1
<1>9. spend'[a][d] = SumFunction(g) + SumFunction(k)
  <2>1. PICK F, G, H, K, s, t : /\ F = SumFunction(f) /\ G = SumFunction(g) /\ H = SumFunction(h)
                                /\ K = SumFunction(k) /\ s = spend[a][d] /\ t = spend'[a][d]
    OBVIOUS
  <2>2. F \in Nat /\ G \in Nat /\ G + f[c] = F + g[c] /\ f[c] <= F
    BY <1>3, <2>1
  <2>3. H \in Nat /\ K \in Nat /\ K + h[r] = H + k[r]
    BY <1>4, <2>1
  <2>4. s \in Nat /\ t \in Nat
    BY <1>5, <2>1
  <2>5. s = F + H
    BY <1>7, <2>1
  <2>6. f[c] <= s => t + f[c] + h[r] = s + g[c] + k[r]
    BY <1>8, <2>1
  <2>7. t = G + K
    BY <1>6, <2>2, <2>3, <2>4, <2>5, <2>6, BalanceArithmetic
  <2>8. QED
    BY <2>1, <2>7
<1>10. QED
  BY <1>1, <1>9

LEMMA SpendAt ==
  ASSUME Typed, NEW A \in Agents, NEW D \in Days, NEW micros \in Nat,
         NEW a \in Agents, NEW d \in Days
  PROVE  /\ recordSpend(A, micros, D) =>
              spend'[a][d] = spend[a][d] + (IF A = a /\ D = d THEN micros ELSE 0)
         /\ releaseSpend(A, micros, D) /\ (A = a /\ D = d => micros <= spend[a][d]) =>
              spend'[a][d] + (IF A = a /\ D = d THEN micros ELSE 0) = spend[a][d]
<1>1. spend \in [Agents -> [Days -> Nat]] /\ spend[a][d] \in Nat
  BY DEF Typed, TypeOK, StoreTypeOK
<1>2. CASE A = a /\ D = d
  BY <1>1, <1>2 DEF recordSpend, releaseSpend
<1>3. CASE ~(A = a /\ D = d)
  BY <1>1, <1>3 DEF recordSpend, releaseSpend
<1>4. QED
  BY <1>2, <1>3

LEMMA HeldElsewhere ==
  ASSUME Typed, Lasts, NEW a, NEW d, NEW e \in Collectors, collector'[e] = collector[e]
  PROVE  HeldFares(a, d)[e] = HeldFares(a, d)'[e]
<1>1. Holds(e) => collector[e].id \in RequestIds /\ requests[collector[e].id] # NULL
  BY DEF Holds, Typed, Placed
<1>2. Holds(e) => requests'[collector[e].id].agent = requests[collector[e].id].agent
  BY <1>1 DEF Lasts
<1>3. QED
  BY <1>2 DEF HeldFares, Holds, AgentOf

LEMMA KeptElsewhere ==
  ASSUME Typed, Typed', Lasts, Carried, NEW a, NEW d \in Days, NEW q \in RequestIds,
         kept'[q] = kept[q]
  PROVE  KeptFares(a, d)[q] = KeptFares(a, d)'[q]
<1>1. CASE requests[q] # NULL
  BY <1>1 DEF KeptFares, Lasts
<1>2. CASE requests[q] = NULL
  <2>1. kept[q][d] = 0
    BY <1>2 DEF Carried, Unpaid
  <2>2. requests'[q] # NULL => priceQueryMicros(requests'[q].query) \in Nat
    <3>1. requests'[q] # NULL => requests'[q].query \in ResourceQuery
      BY DEF Typed, TypeOK, StoreTypeOK, AccessRequest
    <3>2. QED
      BY <3>1, PriceIsNat
  <2>3. QED
    BY <1>2, <2>1, <2>2 DEF KeptFares
<1>3. QED
  BY <1>1, <1>2

\* Nobody's fares and nobody's spend change.
LEMMA BalanceStays ==
  ASSUME Typed, Typed', LedgerBalanced, UNCHANGED spend,
         NEW a \in Agents, NEW d \in Days,
         \A e \in Collectors : HeldFares(a, d)[e] = HeldFares(a, d)'[e],
         \A q \in RequestIds : KeptFares(a, d)[q] = KeptFares(a, d)'[q]
  PROVE  spend'[a][d] = SumFunction(HeldFares(a, d)') + SumFunction(KeptFares(a, d)')
<1>1. HeldFares(a, d) = HeldFares(a, d)' /\ KeptFares(a, d) = KeptFares(a, d)'
  BY FaresTyped, FaresTypedNext DEF Days
<1>2. QED
  BY <1>1 DEF LedgerBalanced

LEMMA MovesBalanced ==
  ASSUME IsFiniteSet(Collectors), IsFiniteSet(RequestIds), ~MayDisconnect,
         Typed, Typed', Lasts, Carried, LedgerBalanced,
         NEW c \in Collectors, NEW x, collector' = [collector EXCEPT ![c] = x], Moves(c, x),
         NEW a \in Agents, NEW d \in Days
  PROVE  spend'[a][d] = SumFunction(HeldFares(a, d)') + SumFunction(KeptFares(a, d)')
<1>1. collector'[c] = x /\ \A e \in Collectors \ {c} : collector'[e] = collector[e]
  BY DEF Typed, TypeOK, CollectionTypeOK
<1>2. \A e \in Collectors \ {c} : HeldFares(a, d)[e] = HeldFares(a, d)'[e]
  BY <1>1, HeldElsewhere
<1>3. PICK r, fare, A, D : /\ r = collector[c].id /\ fare = collector[c].fare
                           /\ A = requests[r].agent /\ D = collector[c].at
  OBVIOUS
<1>4. collector[c].pc # "idle" =>
        /\ r \in RequestIds /\ requests[r] # NULL /\ A \in Agents /\ D \in Days /\ fare \in Nat
        /\ requests'[r] # NULL /\ requests'[r].agent = A
        /\ requests'[r].query = requests[r].query
  BY <1>3, NamesARequest DEF Typed, Placed, Lasts
<1> DEFINE share == IF A = a /\ D = d THEN fare ELSE 0
<1>5. HeldFares(a, d)[c] = IF Holds(c) THEN share ELSE 0
  BY <1>3 DEF HeldFares, AgentOf
<1>6. /\ ~Holding(x) => HeldFares(a, d)'[c] = 0
      /\ Holding(x) /\ Carries(x, collector[c]) /\ collector[c].pc # "idle" =>
           HeldFares(a, d)'[c] = share
  BY <1>1, <1>3, <1>4 DEF HeldFares, AgentOf, Holds, Holding, Carries
<1>7. \A q \in RequestIds : kept'[q] = kept[q] => KeptFares(a, d)[q] = KeptFares(a, d)'[q]
  BY KeptElsewhere
<1>8. spend[a][d] = SumFunction(HeldFares(a, d)) + SumFunction(KeptFares(a, d))
  BY DEF LedgerBalanced
<1>9. spend[a][d] \in Nat /\ spend'[a][d] \in Nat
  BY DEF Typed, TypeOK, StoreTypeOK
<1>10. collector[c].pc # "idle" => KeptFares(a, d)[r] \in Nat /\ share \in Nat
  BY <1>4, FaresTyped
<1> HIDE DEF share
<1>11. CASE Wanders(c, x) \/ Fetches(c, x) \/ HandsOver(c, x)
  <2>1. UNCHANGED <<spend, kept>>
    BY <1>11 DEF Wanders, Fetches, HandsOver
  <2>2. HeldFares(a, d)[c] = HeldFares(a, d)'[c]
    BY <1>5, <1>6, <1>11 DEF Wanders, Fetches, HandsOver, Holds, Holding
  <2>3. QED
    BY <1>2, <1>7, <2>1, <2>2, BalanceStays
<1>12. CASE Reserves(c, x)
  <2>1. /\ HeldFares(a, d)[c] = 0 /\ HeldFares(a, d)'[c] = share
        /\ UNCHANGED kept /\ r \in RequestIds /\ recordSpend(A, fare, D)
    BY <1>3, <1>4, <1>5, <1>6, <1>12 DEF Reserves, Holds, Holding, AgentOf
  <2>2. spend'[a][d] = spend[a][d] + share
    BY <1>4, <1>12, <2>1, SpendAt DEF share, Reserves
  <2>3. KeptFares(a, d)[r] = KeptFares(a, d)'[r]
    BY <1>7, <2>1
  <2>4. spend'[a][d] + HeldFares(a, d)[c] + KeptFares(a, d)[r]
          = spend[a][d] + HeldFares(a, d)'[c] + KeptFares(a, d)'[r]
    BY <1>9, <1>10, <1>12, <2>1, <2>2, <2>3 DEF Reserves
  <2>5. QED
    BY <1>2, <1>7, <1>8, <2>1, <2>4, BalanceMoves
<1>13. CASE GivesBack(c, x)
  <2>1. /\ HeldFares(a, d)[c] = share /\ HeldFares(a, d)'[c] = 0
        /\ UNCHANGED kept /\ r \in RequestIds /\ releaseSpend(A, fare, D)
        /\ collector[c].pc # "idle"
    BY <1>3, <1>4, <1>5, <1>6, <1>13 DEF GivesBack, Holds, Holding, Release, Idle
  <2>2. share <= spend[a][d] => spend'[a][d] + share = spend[a][d]
    BY <1>4, <2>1, SpendAt DEF share
  <2>3. KeptFares(a, d)[r] = KeptFares(a, d)'[r]
    BY <1>7, <2>1
  <2>4. HeldFares(a, d)[c] <= spend[a][d] =>
          spend'[a][d] + HeldFares(a, d)[c] + KeptFares(a, d)[r]
            = spend[a][d] + HeldFares(a, d)'[c] + KeptFares(a, d)'[r]
    BY <1>9, <1>10, <2>1, <2>2, <2>3
  <2>5. QED
    BY <1>2, <1>7, <1>8, <2>1, <2>4, BalanceMoves
<1>14. CASE Keeps(c, x)
  <2>1. /\ HeldFares(a, d)[c] = share /\ HeldFares(a, d)'[c] = 0
        /\ UNCHANGED spend /\ Keep(c) /\ collector[c].pc \in Late
        /\ collector[c].pc # "idle" /\ r \in RequestIds
    BY <1>4, <1>5, <1>6, <1>14 DEF Keeps, Holds, Holding, Idle, Late
  <2>2. fare = priceQueryMicros(requests[r].query)
    BY <1>3, <2>1 DEF Carried, Price
  <2>3. kept \in [RequestIds -> [Days -> Nat]]
    BY DEF Typed, TypeOK, CollectionTypeOK
  <2>4. kept' = [kept EXCEPT ![r] = [kept[r] EXCEPT ![D] = kept[r][D] + 1]]
    BY <1>3, <2>1 DEF Keep
  <2>5. /\ \A q \in RequestIds \ {r} : kept'[q] = kept[q]
        /\ kept'[r][d] = kept[r][d] + (IF D = d THEN 1 ELSE 0) /\ kept[r][d] \in Nat
    BY <1>4, <2>1, <2>3, <2>4
  <2>6. KeptFares(a, d)'[r] = KeptFares(a, d)[r] + share
    <3>1. /\ KeptFares(a, d)[r] = IF A = a THEN kept[r][d] * fare ELSE 0
          /\ KeptFares(a, d)'[r] = IF A = a THEN kept'[r][d] * fare ELSE 0
      BY <1>3, <1>4, <2>1, <2>2 DEF KeptFares
    <3>2. D = d => kept'[r][d] * fare = kept[r][d] * fare + fare
      BY <1>4, <2>1, <2>5
    <3>3. kept[r][d] * fare \in Nat
      BY <1>4, <2>1, <2>5
    <3>4. QED
      BY <2>5, <3>1, <3>2, <3>3 DEF share
  <2>7. spend'[a][d] + HeldFares(a, d)[c] + KeptFares(a, d)[r]
          = spend[a][d] + HeldFares(a, d)'[c] + KeptFares(a, d)'[r]
    BY <1>9, <1>10, <2>1, <2>6
  <2>8. QED
    BY <1>2, <1>7, <1>8, <2>1, <2>5, <2>7, BalanceMoves
<1>15. CASE Departs(c, x)
  BY <1>15 DEF Departs
<1>16. QED
  BY <1>11, <1>12, <1>13, <1>14, <1>15 DEF Moves

LEMMA NextBalanced ==
  ASSUME IsFiniteSet(Collectors), IsFiniteSet(RequestIds), ~MayDisconnect,
         Typed, Typed', Carried, LedgerBalanced, [Next]_vars
  PROVE  LedgerBalanced'
<1>1. Lasts
  BY NextLasts
<1>2. ASSUME NEW a \in Agents, NEW d \in Days
      PROVE  spend'[a][d] = SumFunction(HeldFares(a, d)') + SumFunction(KeptFares(a, d)')
  <2>1. ASSUME UNCHANGED <<spend, collector, kept>>
        PROVE  spend'[a][d] = SumFunction(HeldFares(a, d)') + SumFunction(KeptFares(a, d)')
    BY <1>1, <2>1, HeldElsewhere, KeptElsewhere, BalanceStays
  <2>2. CASE \E c \in Collectors : Collecting(c)
    BY <1>1, <2>2, CollectionMoves, MovesBalanced DEF Collecting
  <2>3. CASE ~\E c \in Collectors : Collecting(c)
    BY <2>1, <2>3, ActingLeaves, SubmittingLeaves
    DEF Next, OwnerActs, Midnight, Tick, vars, storeVars, collectionVars
  <2>4. QED
    BY <2>2, <2>3
<1>3. QED
  BY <1>2 DEF LedgerBalanced, Days

LEMMA InitCarried == Init => Carried
<1>1. Idle.pc = "idle"
  BY DEF Idle
<1>2. QED
  BY <1>1 DEF Init, StoreInit, CollectionInit, Carried, Late, Unpaid

LEMMA InitBalanced ==
  ASSUME IsFiniteSet(Collectors), IsFiniteSet(RequestIds), Init
  PROVE  LedgerBalanced
<1> SUFFICES ASSUME NEW a \in Agents, NEW d \in Days
             PROVE  spend[a][d] = SumFunction(HeldFares(a, d)) + SumFunction(KeptFares(a, d))
  BY DEF LedgerBalanced
<1>1. Idle.pc = "idle"
  BY DEF Idle
<1>2. \A c \in Collectors : HeldFares(a, d)[c] = 0
  BY <1>1 DEF Init, CollectionInit, HeldFares, Holds
<1>3. \A r \in RequestIds : KeptFares(a, d)[r] = 0
  BY DEF Init, StoreInit, KeptFares
<1>4. HeldFares(a, d) \in [Collectors -> Nat] /\ KeptFares(a, d) \in [RequestIds -> Nat]
  BY InitTyped, FaresTyped
<1>5. SumFunction(HeldFares(a, d)) = 0 /\ SumFunction(KeptFares(a, d)) = 0
  <2>1. PICK f, g : f = HeldFares(a, d) /\ g = KeptFares(a, d)
    OBVIOUS
  <2>2. SumFunction(f) = 0
    BY <1>2, <1>4, <2>1, SumOfZeros
  <2>3. SumFunction(g) = 0
    BY <1>3, <1>4, <2>1, SumOfZeros
  <2>4. QED
    BY <2>1, <2>2, <2>3
<1>6. QED
  BY <1>5 DEF Init, StoreInit

LEMMA BalanceKept ==
  ASSUME IsFiniteSet(Collectors), IsFiniteSet(RequestIds), ~MayDisconnect
  PROVE  Spec => [](Typed /\ Carried /\ LedgerBalanced)
<1>1. Init => Typed /\ Carried /\ LedgerBalanced
  BY InitTyped, InitCarried, InitBalanced
<1>2. Typed /\ Carried /\ LedgerBalanced /\ [Next]_vars => (Typed /\ Carried /\ LedgerBalanced)'
  BY NextTyped, NextCarried, NextBalanced
<1>3. QED
  BY <1>1, <1>2, PTL DEF Spec

\* data.ts:14-18, store.ts:233-246.  For any number of exchanges, requests,
\* passports and days, in both modes, across midnight and whatever is decided
\* twice: a passport's spend of a day is the fares open exchanges hold of it
\* plus the fares kept, as long as every client waits for its answer.
THEOREM TheLedgerBalances ==
  ASSUME IsFiniteSet(Collectors), IsFiniteSet(RequestIds), ~MayDisconnect
  PROVE  Spec => []LedgerBalanced
  BY BalanceKept, PTL
-----------------------------------------------------------------------------
(* The gateway implements the ledger's promise *)

Fare(state, r, d) ==
  [state |-> state, account |-> requests[r].agent, day |-> d, micros |-> Price(r)]

HeldBy(c, r) == Holds(c) /\ collector[c].id = r

\* What the ledger sees of a request, by its fare and its holder.
LEMMA FareShape ==
  Typed => \A r \in RequestIds :
    /\ kept[r] = Unpaid /\ (\A e \in Collectors : ~HeldBy(e, r)) =>
         FareOf(r) = [state |-> "open"]
    /\ \A c \in Collectors :
         kept[r] = Unpaid /\ HeldBy(c, r) /\ (\A e \in Collectors : HeldBy(e, r) => e = c) =>
           FareOf(r) = Fare("held", r, collector[c].at)
    /\ \A d \in Days : kept[r] = [Unpaid EXCEPT ![d] = 1] => FareOf(r) = Fare("taken", r, d)
<1> SUFFICES ASSUME Typed, NEW r \in RequestIds
    PROVE /\ kept[r] = Unpaid /\ (\A e \in Collectors : ~HeldBy(e, r)) =>
               FareOf(r) = [state |-> "open"]
          /\ \A c \in Collectors :
               kept[r] = Unpaid /\ HeldBy(c, r) /\ (\A e \in Collectors : HeldBy(e, r) => e = c) =>
                 FareOf(r) = Fare("held", r, collector[c].at)
          /\ \A d \in Days : kept[r] = [Unpaid EXCEPT ![d] = 1] => FareOf(r) = Fare("taken", r, d)
  OBVIOUS
<1> DEFINE holders == {c \in Collectors : Holds(c) /\ collector[c].id = r}
           days == {d \in Days : kept[r][d] > 0}
<1>0. FareOf(r) = IF days # {} THEN Fare("taken", r, CHOOSE d \in days : TRUE)
                  ELSE IF holders # {} THEN Fare("held", r, collector[CHOOSE c \in holders : TRUE].at)
                  ELSE [state |-> "open"]
  BY DEF FareOf, Fare, Price
<1>1. kept[r] = Unpaid => days = {}
  BY DEF Unpaid
<1>2. ASSUME \A e \in Collectors : ~HeldBy(e, r)
      PROVE  holders = {}
  BY <1>2 DEF HeldBy
<1>3. ASSUME NEW c \in Collectors, HeldBy(c, r), \A e \in Collectors : HeldBy(e, r) => e = c
      PROVE  holders = {c}
  BY <1>3 DEF HeldBy
<1>4. ASSUME NEW d \in Days, kept[r] = [Unpaid EXCEPT ![d] = 1]
      PROVE  days = {d}
  BY <1>4 DEF Unpaid, Days
<1> HIDE DEF holders, days
<1>5. ASSUME kept[r] = Unpaid, \A e \in Collectors : ~HeldBy(e, r)
      PROVE  FareOf(r) = [state |-> "open"]
  BY <1>0, <1>1, <1>2, <1>5
<1>6. ASSUME NEW c \in Collectors, kept[r] = Unpaid, HeldBy(c, r),
             \A e \in Collectors : HeldBy(e, r) => e = c
      PROVE  FareOf(r) = Fare("held", r, collector[c].at)
  <2>1. holders = {c} /\ days = {}
    BY <1>1, <1>3, <1>6
  <2>2. (CHOOSE e \in holders : TRUE) = c
    BY <2>1
  <2>3. QED
    BY <1>0, <2>1, <2>2
<1>7. ASSUME NEW d \in Days, kept[r] = [Unpaid EXCEPT ![d] = 1]
      PROVE  FareOf(r) = Fare("taken", r, d)
  <2>1. days = {d}
    BY <1>4, <1>7
  <2>2. (CHOOSE e \in days : TRUE) = d
    BY <2>1
  <2>3. QED
    BY <1>0, <2>1, <2>2
<1>8. QED
  BY <1>5, <1>6, <1>7

LEMMA FareShapeNext ==
  (Typed => \A r \in RequestIds :
    /\ kept[r] = Unpaid /\ (\A e \in Collectors : ~HeldBy(e, r)) =>
         FareOf(r) = [state |-> "open"]
    /\ \A c \in Collectors :
         kept[r] = Unpaid /\ HeldBy(c, r) /\ (\A e \in Collectors : HeldBy(e, r) => e = c) =>
           FareOf(r) = Fare("held", r, collector[c].at)
    /\ \A d \in Days : kept[r] = [Unpaid EXCEPT ![d] = 1] => FareOf(r) = Fare("taken", r, d))'
  BY FareShape, PTL

\* An exchange that holds a fare is the only one to hold that request's, and
\* the fare was not kept yet.
LEMMA OneHolder ==
  ASSUME Typed, Alone, Books, NEW c \in Collectors, NEW r, HeldBy(c, r)
  PROVE  /\ r \in RequestIds /\ requests[r] # NULL /\ kept[r] = Unpaid
         /\ \A e \in Collectors : HeldBy(e, r) => e = c
<1>1. \A e \in Collectors : Holds(e) => InRoute(e) \/ Settles(e)
  BY LateIsBusy DEF Holds, Late
<1>2. r = collector[c].id
  BY DEF HeldBy
<1>3. r \in RequestIds /\ requests[r] # NULL /\ kept[r] = Unpaid
  BY <1>1, <1>2, NotChargedYet DEF HeldBy
<1>4. ASSUME NEW e \in Collectors, HeldBy(e, r), e # c
      PROVE  FALSE
  BY <1>1, <1>4, NobodyElse DEF HeldBy
<1>5. QED
  BY <1>3, <1>4

LEMMA FareStays ==
  ASSUME Typed, Typed', Alone, Books, Lasts, NEW q \in RequestIds, kept'[q] = kept[q],
         \A e \in Collectors : HeldBy(e, q) <=> HeldBy(e, q)',
         \A e \in Collectors : HeldBy(e, q) => collector'[e].at = collector[e].at
  PROVE  FareOf(q)' = FareOf(q)
<1>0. Unpaid' = Unpaid
  BY DEF Unpaid
<1>1. requests[q] # NULL => \A state, d : Fare(state, q, d)' = Fare(state, q, d)
  BY SamePrice DEF Lasts, Fare
<1>2. CASE \E c \in Collectors : HeldBy(c, q)
  <2>1. PICK c \in Collectors : HeldBy(c, q)
    BY <1>2
  <2>2. requests[q] # NULL /\ kept[q] = Unpaid /\ \A e \in Collectors : HeldBy(e, q) => e = c
    BY <2>1, OneHolder
  <2>3. FareOf(q) = Fare("held", q, collector[c].at)
    BY <2>1, <2>2, FareShape
  <2>4. HeldBy(c, q)' /\ (\A e \in Collectors : HeldBy(e, q)' => e = c) /\ kept'[q] = Unpaid
    BY <2>1, <2>2
  <2>5. FareOf(q)' = Fare("held", q, collector[c].at)'
    BY <1>0, <2>4, FareShapeNext
  <2>6. Fare("held", q, collector[c].at)' = Fare("held", q, collector[c].at)
    <3>1. collector'[c].at = collector[c].at
      BY <2>1
    <3>2. QED
      BY <2>2, <3>1, SamePrice DEF Lasts, Fare
  <2>7. QED
    BY <2>3, <2>5, <2>6
<1>3. CASE kept[q] = Unpaid /\ ~\E c \in Collectors : HeldBy(c, q)
  BY <1>0, <1>3, FareShape, FareShapeNext
<1>4. CASE kept[q] # Unpaid
  <2>1. PICK d \in Days : kept[q] = [Unpaid EXCEPT ![d] = 1]
    BY <1>4 DEF Books, Charged, PaidOnce
  <2>2. FareOf(q) = Fare("taken", q, d)
    BY <2>1, FareShape
  <2>3. FareOf(q)' = Fare("taken", q, d)'
    BY <1>0, <2>1, FareShapeNext DEF Days
  <2>4. requests[q] # NULL
    BY <1>4 DEF Books, Charged
  <2>5. QED
    BY <1>1, <2>2, <2>3, <2>4
<1>5. QED
  BY <1>2, <1>3, <1>4

Fares == [r \in RequestIds |-> FareOf(r)]

\* The fares of all requests but the one that an exchange moves with.
LEMMA OtherFares ==
  ASSUME Typed, Typed', Alone, Books, Lasts, NEW c \in Collectors, NEW x,
         collector' = [collector EXCEPT ![c] = x], NEW r, r = collector[c].id,
         Holding(x) => x.id = r, \A q \in RequestIds \ {r} : kept'[q] = kept[q]
  PROVE  \A q \in RequestIds \ {r} : FareOf(q)' = FareOf(q)
<1>1. collector'[c] = x /\ \A e \in Collectors \ {c} : collector'[e] = collector[e]
  BY DEF Typed, TypeOK, CollectionTypeOK
<1>2. ASSUME NEW q \in RequestIds \ {r}
      PROVE  FareOf(q)' = FareOf(q)
  <2>1. ~HeldBy(c, q) /\ ~HeldBy(c, q)'
    BY <1>1 DEF HeldBy, Holds, Holding
  <2>2. \A e \in Collectors \ {c} : HeldBy(e, q) <=> HeldBy(e, q)'
    BY <1>1 DEF HeldBy, Holds
  <2>3. QED
    BY <1>1, <2>1, <2>2, FareStays
<1>3. QED
  BY <1>2

\* Nobody takes up or lays down a fare.
LEMMA AllFares ==
  ASSUME Typed, Typed', Alone, Books, Lasts, UNCHANGED kept,
         \A e \in Collectors :
           /\ Holds(e) <=> Holds(e)'
           /\ Holds(e) => collector'[e].id = collector[e].id /\ collector'[e].at = collector[e].at
  PROVE  UNCHANGED Fares
<1>1. ASSUME NEW q \in RequestIds
      PROVE  FareOf(q)' = FareOf(q)
  <2>1. \A e \in Collectors : HeldBy(e, q) <=> HeldBy(e, q)'
    BY DEF HeldBy
  <2>2. QED
    BY <2>1, FareStays DEF HeldBy
<1>2. QED
  BY <1>1 DEF Fares

LEMMA MovesRefine ==
  ASSUME IsFiniteSet(Collectors), IsFiniteSet(RequestIds), Typed, Typed', ~MayDisconnect,
         Alone, Alone', Books, Books', Lasts, Carried, LedgerBalanced, NEW c \in Collectors, NEW x,
         collector' = [collector EXCEPT ![c] = x], Moves(c, x)
  PROVE  [Ledger!LedgerNext]_(Ledger!ledgerVars)
<1>1. collector'[c] = x /\ \A e \in Collectors \ {c} : collector'[e] = collector[e]
  BY DEF Typed, TypeOK, CollectionTypeOK
<1>2. PICK r, A, D, fare : /\ r = collector[c].id /\ A = requests[r].agent
                           /\ D = collector[c].at /\ fare = collector[c].fare
  OBVIOUS
<1>3. collector[c].pc # "idle" =>
        /\ r \in RequestIds /\ requests[r] # NULL /\ A \in Agents /\ D \in Days /\ fare \in Nat
        /\ requests'[r].agent = A /\ requests'[r].query = requests[r].query
        /\ collector[c].pc \in Late => fare = Price(r)
  BY <1>2, NamesARequest DEF Typed, Placed, Lasts, Carried
<1>4. \A e \in Collectors : Holds(e) => InRoute(e) \/ Settles(e)
  BY LateIsBusy DEF Holds, Late
<1>5. \A e \in Collectors \ {c} : InRoute(c) \/ Settles(c) => ~HeldBy(e, r)
  BY <1>2, <1>4, NobodyElse DEF HeldBy
<1>6. \A e \in Collectors \ {c} : HeldBy(e, r)' <=> HeldBy(e, r)
  BY <1>1 DEF HeldBy, Holds
<1>7. collector[c].pc \in Late => InRoute(c) \/ Settles(c)
  BY LateIsBusy
<1>8. HeldBy(c, r) => FareOf(r) = Fare("held", r, D)
  <2> SUFFICES ASSUME HeldBy(c, r) PROVE FareOf(r) = Fare("held", r, D)
    OBVIOUS
  <2>1. r \in RequestIds /\ kept[r] = Unpaid /\ \A e \in Collectors : HeldBy(e, r) => e = c
    BY OneHolder
  <2>2. QED
    BY <1>2, <2>1, FareShape
<1>9. CASE Wanders(c, x) \/ Fetches(c, x) \/ HandsOver(c, x)
  <2>1. UNCHANGED <<spend, kept>>
    BY <1>9 DEF Wanders, Fetches, HandsOver
  <2>2. /\ Holds(c) <=> Holds(c)'
        /\ Holds(c) => x.id = collector[c].id /\ x.at = collector[c].at
    BY <1>1, <1>9 DEF Wanders, Fetches, HandsOver, Holds, Holding, Carries
  <2>3. UNCHANGED Fares
    BY <1>1, <2>1, <2>2, AllFares DEF Holds
  <2>4. QED
    BY <2>1, <2>3 DEF Ledger!ledgerVars, Fares
<1>10. CASE Reserves(c, x)
  <2>1. /\ collector[c].pc = "checked" /\ x.pc = "fetching" /\ x.id = r /\ x.at = D
        /\ kept' = kept /\ recordSpend(A, fare, D)
    BY <1>2, <1>10 DEF Reserves, Carries, AgentOf
  <2>2. r \in RequestIds /\ A \in Agents /\ D \in Days /\ fare = Price(r)
    BY <1>3, <2>1 DEF Late
  <2>3. kept[r] = Unpaid
    BY <1>2, <1>7, <2>1, NotChargedYet DEF Late
  <2>4. FareOf(r) = [state |-> "open"]
    <3>1. \A e \in Collectors : ~HeldBy(e, r)
      BY <1>5, <1>7, <2>1 DEF HeldBy, Holds, Late
    <3>2. QED
      BY <2>2, <2>3, <3>1, FareShape
  <2>5. FareOf(r)' = [state |-> "held", account |-> A, day |-> D, micros |-> fare]
    <3>1. HeldBy(c, r)' /\ \A e \in Collectors : HeldBy(e, r)' => e = c
      BY <1>1, <1>5, <1>6, <1>7, <2>1 DEF HeldBy, Holds, Late
    <3>2. FareOf(r)' = Fare("held", r, collector[c].at)'
      BY <2>1, <2>2, <2>3, <3>1, FareShapeNext DEF Unpaid
    <3>3. Price(r)' = Price(r)
      BY <1>3, <2>1, SamePrice
    <3>4. QED
      BY <1>1, <1>3, <2>1, <2>2, <3>2, <3>3 DEF Fare
  <2>6. \A q \in RequestIds \ {r} : FareOf(q)' = FareOf(q)
    BY <1>2, <2>1, OtherFares
  <2>7. fare \in {priceQueryMicros(q) : q \in Queries \cup {PlaceholderQuery}}
    BY <1>3, <2>1, <2>2 DEF Carried, Price
  <2>8. Ledger!Hold(r, A, D, fare)
    BY <2>1, <2>2, <2>4, <2>5, <2>6 DEF Ledger!Hold, Ledger!OpenFare, recordSpend
  <2>9. QED
    BY <2>2, <2>7, <2>8 DEF Ledger!LedgerNext
<1>11. CASE GivesBack(c, x)
  <2>1. /\ collector[c].pc \in {"fetching", "settling"} /\ x = Idle /\ kept' = kept
        /\ releaseSpend(A, fare, D)
    BY <1>2, <1>11 DEF GivesBack, Release
  <2>2. r \in RequestIds /\ A \in Agents /\ D \in Days /\ fare \in Nat /\ fare = Price(r)
    BY <1>3, <2>1 DEF Late
  <2>3. HeldBy(c, r)
    BY <1>2, <2>1 DEF HeldBy, Holds
  <2>4. FareOf(r) = [state |-> "held", account |-> A, day |-> D, micros |-> fare]
    BY <1>2, <1>8, <2>2, <2>3 DEF Fare
  <2>5. ~Holding(Idle) /\ Idle.pc = "idle"
    BY DEF Idle, Holding
  <2>6. FareOf(r)' = [state |-> "open"]
    <3>1. \A e \in Collectors : ~HeldBy(e, r)'
      BY <1>1, <1>5, <1>6, <1>7, <2>1, <2>5 DEF HeldBy, Holds, Late
    <3>2. kept'[r] = Unpaid'
      BY <2>1, <2>3, OneHolder DEF Unpaid
    <3>3. QED
      BY <2>2, <3>1, <3>2, FareShapeNext
  <2>7. \A q \in RequestIds \ {r} : FareOf(q)' = FareOf(q)
    BY <1>2, <2>1, <2>5, OtherFares
  <2>8. fare <= spend[A][D]
    <3>1. HeldFares(A, D)[c] = fare
      BY <1>2, <2>3 DEF HeldFares, HeldBy, AgentOf
    <3>2. HeldFares(A, D) \in [Collectors -> Nat] /\ KeptFares(A, D) \in [RequestIds -> Nat]
      BY <2>2, FaresTyped
    <3>3. fare <= SumFunction(HeldFares(A, D)) /\ SumFunction(HeldFares(A, D)) \in Nat
      <4>1. PICK f : f = HeldFares(A, D)
        OBVIOUS
      <4>2. f[c] <= SumFunction(f) /\ SumFunction(f) \in Nat
        BY <3>2, <4>1, SumUpdated
      <4>3. QED
        BY <3>1, <4>1, <4>2
    <3>4. SumFunction(KeptFares(A, D)) \in Nat
      <4>1. PICK g : g = KeptFares(A, D)
        OBVIOUS
      <4>2. SumFunction(g) \in Nat
        BY <2>2, <3>2, <4>1, SumUpdated
      <4>3. QED
        BY <4>1, <4>2
    <3>5. spend[A][D] = SumFunction(HeldFares(A, D)) + SumFunction(KeptFares(A, D))
      BY <2>2 DEF LedgerBalanced
    <3>6. PICK F, K : F = SumFunction(HeldFares(A, D)) /\ K = SumFunction(KeptFares(A, D))
      OBVIOUS
    <3>7. QED
      BY <2>2, <3>3, <3>4, <3>5, <3>6
  <2>9. spend' = [spend EXCEPT ![A] = [spend[A] EXCEPT ![D] = spend[A][D] - fare]]
    <3>1. spend[A][D] \in Nat
      BY <2>2 DEF Typed, TypeOK, StoreTypeOK
    <3>2. (IF spend[A][D] > fare THEN spend[A][D] - fare ELSE 0) = spend[A][D] - fare
      BY <2>2, <2>8, <3>1
    <3>3. QED
      BY <2>1, <3>2 DEF releaseSpend
  <2>10. Ledger!GiveBack(r)
    <3>1. Fares[r] = [state |-> "held", account |-> A, day |-> D, micros |-> fare]
      BY <2>2, <2>4 DEF Fares
    <3>2. Fares' = [Fares EXCEPT ![r] = [state |-> "open"]]
      BY <2>2, <2>6, <2>7 DEF Fares
    <3>3. spend' = [spend EXCEPT ![Fares[r].account][Fares[r].day] = @ - Fares[r].micros]
      BY <2>9, <3>1
    <3>4. Fares[r].state = "held"
      BY <3>1
    <3>5. QED
      BY <3>2, <3>3, <3>4 DEF Ledger!GiveBack, Ledger!OpenFare, Fares
  <2>11. QED
    BY <2>2, <2>10 DEF Ledger!LedgerNext
<1>12. CASE Keeps(c, x)
  <2>1. /\ collector[c].pc \in {"analyzing", "settling"} /\ x = Idle /\ UNCHANGED spend /\ Keep(c)
    BY <1>12 DEF Keeps
  <2>2. r \in RequestIds /\ A \in Agents /\ D \in Days /\ fare = Price(r)
    BY <1>3, <2>1 DEF Late
  <2>3. HeldBy(c, r)
    BY <1>2, <2>1 DEF HeldBy, Holds
  <2>4. FareOf(r) = [state |-> "held", account |-> A, day |-> D, micros |-> fare]
    BY <1>2, <1>8, <2>2, <2>3 DEF Fare
  <2>5. kept[r] = Unpaid
    BY <2>3, OneHolder
  <2>6. kept' = [kept EXCEPT ![r] = [kept[r] EXCEPT ![D] = kept[r][D] + 1]]
    BY <1>2, <2>1 DEF Keep
  <2>7. /\ kept'[r] = [Unpaid EXCEPT ![D] = 1]
        /\ \A q \in RequestIds \ {r} : kept'[q] = kept[q]
    BY <2>2, <2>5, <2>6 DEF Unpaid, Typed, TypeOK, CollectionTypeOK
  <2>8. FareOf(r)' = [state |-> "taken", account |-> A, day |-> D, micros |-> fare]
    <3>1. FareOf(r)' = Fare("taken", r, D)'
      BY <2>2, <2>7, FareShapeNext DEF Unpaid, Days
    <3>2. Price(r)' = Price(r)
      BY <1>3, <2>1, SamePrice
    <3>3. QED
      BY <1>3, <2>1, <2>2, <3>1, <3>2 DEF Fare
  <2>9. \A q \in RequestIds \ {r} : FareOf(q)' = FareOf(q)
    <3>1. ~Holding(Idle)
      BY DEF Idle, Holding
    <3>2. QED
      BY <1>2, <2>1, <2>7, <3>1, OtherFares
  <2>10. Ledger!Take(r)
    <3>1. Fares[r] = [state |-> "held", account |-> A, day |-> D, micros |-> fare]
      BY <2>2, <2>4 DEF Fares
    <3>2. Fares' = [Fares EXCEPT ![r] = [state |-> "taken", account |-> A, day |-> D,
                                         micros |-> fare]]
      BY <2>2, <2>8, <2>9 DEF Fares
    <3>3. [Fares[r] EXCEPT !.state = "taken"]
            = [state |-> "taken", account |-> A, day |-> D, micros |-> fare]
      BY <3>1
    <3>4. Fares' = [Fares EXCEPT ![r] = [Fares[r] EXCEPT !.state = "taken"]]
      BY <3>2, <3>3
    <3>5. Fares[r].state = "held"
      BY <3>1
    <3>6. QED
      BY <2>1, <3>4, <3>5 DEF Ledger!Take, Fares
  <2>11. QED
    BY <2>2, <2>10 DEF Ledger!LedgerNext
<1>13. CASE Departs(c, x)
  BY <1>13 DEF Departs
<1>14. QED
  BY <1>9, <1>10, <1>11, <1>12, <1>13 DEF Moves

LEMMA InitRefines ==
  ASSUME Init
  PROVE  Ledger!LedgerInit
<1>1. Idle.pc = "idle"
  BY DEF Idle
<1>2. ASSUME NEW r \in RequestIds
      PROVE  FareOf(r) = [state |-> "open"]
  <2>1. kept[r] = Unpaid /\ \A e \in Collectors : ~HeldBy(e, r)
    BY <1>1 DEF Init, CollectionInit, Unpaid, HeldBy, Holds
  <2>2. QED
    BY <2>1, InitTyped, FareShape
<1>3. spend = [a \in Agents |-> [d \in Days |-> 0]]
  BY DEF Init, StoreInit
<1>4. QED
  BY <1>2, <1>3 DEF Ledger!LedgerInit, Ledger!OpenFare

LEMMA NextRefines ==
  ASSUME IsFiniteSet(Collectors), IsFiniteSet(RequestIds), ~MayDisconnect,
         Typed, Typed', Alone, Alone', Books, Books', Carried, LedgerBalanced, [Next]_vars
  PROVE  [Ledger!LedgerNext]_(Ledger!ledgerVars)
<1>1. Lasts
  BY NextLasts
<1>2. CASE \E c \in Collectors : Collecting(c)
  BY <1>1, <1>2, CollectionMoves, MovesRefine DEF Collecting
<1>3. CASE ~\E c \in Collectors : Collecting(c)
  <2>1. UNCHANGED <<spend, collector, kept>>
    BY <1>3, ActingLeaves, SubmittingLeaves
    DEF Next, OwnerActs, Midnight, Tick, vars, storeVars, collectionVars
  <2>2. UNCHANGED Fares
    BY <1>1, <2>1, AllFares DEF Holds
  <2>3. QED
    BY <2>1, <2>2 DEF Ledger!ledgerVars, Fares
<1>4. QED
  BY <1>2, <1>3

\* data.ts:14-18, SECURITY.md:51-58.  The gateway implements the ledger: every
\* step of every exchange, human, owner and clock, on any number of each, holds
\* an open fare, gives back a held one on its day, takes a held one, or leaves
\* the money alone, as long as OneDecision holds and no client leaves.
THEOREM TheGatewayIsALedger ==
  ASSUME IsFiniteSet(Collectors), IsFiniteSet(RequestIds), ~MayDisconnect, OneDecision
  PROVE  Spec => FaresLikeALedger
<1>1. Init => Ledger!LedgerInit
  BY InitRefines
<1>2. (Typed /\ Alone /\ InTime /\ Books) /\ (Typed /\ Alone /\ InTime /\ Books)'
        /\ (Typed /\ Carried /\ LedgerBalanced) /\ [Next]_vars
        => [Ledger!LedgerNext]_(Ledger!ledgerVars)
  BY NextRefines
<1>3. QED
  BY <1>1, <1>2, BooksKept, BalanceKept, PTL DEF Spec, FaresLikeALedger, Ledger!LedgerSpec
=============================================================================
