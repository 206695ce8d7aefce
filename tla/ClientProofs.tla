---------------------------- MODULE ClientProofs ----------------------------
(***************************************************************************)
(* The gateway's start and the programs that talk to it, for any settings, *)
(* wallets, requests, attempts and losses: one check of the facilitator    *)
(* at a time (module Startup), the wallet that is listened to (Wallet), a  *)
(* page that never goes back (Console), and two agents paying for the      *)
(* same requests (Clients).                                                *)
(***************************************************************************)
EXTENDS Clients, Console, Wallet, FiniteSetTheorems, WellFoundedInduction, TLAPS

-----------------------------------------------------------------------------
(* The facilitator check *)

\* Nothing is asked before the gateway listens; then one check or one pause is
\* under way exactly while paid collection is closed.
CheckInv ==
  /\ PaymentLive \in BOOLEAN /\ StartupTypeOK
  /\ phase = "refreshing" => asking = 0 /\ pausing = 0 /\ (paymentReady <=> ~PaymentLive)
  /\ OneCheckUntilReady

LEMMA CheckBegins == StartupInit => CheckInv
<1> SUFFICES ASSUME StartupInit PROVE CheckInv
  OBVIOUS
<1>1. PaymentLive \in BOOLEAN
  BY StartupAssumption DEF StartupInit, PaymentLive, Environment
<1>2. CASE PaymentLive
  <2>1. paymentReady = FALSE /\ FirstCheck = 1
    BY <1>2 DEF StartupInit, FirstCheck
  <2>2. QED
    BY <1>1, <1>2, <2>1 DEF StartupInit, CheckInv, StartupTypeOK, OneCheckUntilReady
<1>3. CASE ~PaymentLive
  <2>1. paymentReady = TRUE /\ FirstCheck = 0
    BY <1>3 DEF StartupInit, FirstCheck
  <2>2. QED
    BY <1>1, <1>3, <2>1 DEF StartupInit, CheckInv, StartupTypeOK, OneCheckUntilReady
<1>4. QED
  BY <1>2, <1>3

LEMMA SettingsStay ==
  ASSUME [StartupNext]_startupVars
  PROVE  /\ environment' = environment /\ PaymentLive' = PaymentLive
         /\ startDemoAgent' = startDemoAgent
<1>1. environment' = environment
  BY DEF StartupNext, Listen, Confirm, Deny, TimeOut, LateAnswer, CheckAgain, startupVars
<1>2. QED
  BY <1>1 DEF PaymentLive, startDemoAgent, resolveDemoAgent

LEMMA CheckGoesOn == CheckInv /\ [StartupNext]_startupVars => CheckInv'
<1> SUFFICES ASSUME CheckInv, [StartupNext]_startupVars PROVE CheckInv'
  OBVIOUS
<1>1. PaymentLive' = PaymentLive
  BY SettingsStay
<1> USE DEF CheckInv, StartupTypeOK, OneCheckUntilReady
<1>2. CASE UNCHANGED startupVars
  BY <1>1, <1>2 DEF startupVars
<1>3. CASE Listen
  <2>1. CASE paymentReady
    BY <1>1, <1>3, <2>1 DEF Listen, FirstCheck
  <2>2. CASE ~paymentReady
    BY <1>1, <1>3, <2>2 DEF Listen, FirstCheck
  <2>3. QED
    BY <2>1, <2>2
<1>4. CASE Confirm
  <2>1. phase = "serving"
    BY <1>4 DEF Confirm
  <2>2. asking = 1 /\ pausing = 0
    BY <1>4, <2>1 DEF Confirm
  <2>3. QED
    BY <1>1, <1>4, <2>1, <2>2 DEF Confirm
<1>5. CASE Deny \/ TimeOut
  BY <1>1, <1>5 DEF Deny, TimeOut
<1>6. CASE LateAnswer \/ CheckAgain
  BY <1>1, <1>6 DEF LateAnswer, CheckAgain
<1>7. QED
  BY <1>2, <1>3, <1>4, <1>5, <1>6 DEF StartupNext

\* server.ts:222-246, 309-317. However many checks time out and however late
\* their answers come, the retries neither multiply nor die out.
THEOREM OneCheckAtATime == StartupSpec => []OneCheckUntilReady
<1>1. CheckInv => OneCheckUntilReady
  BY DEF CheckInv
<1>2. QED
  BY <1>1, CheckBegins, CheckGoesOn, PTL DEF StartupSpec
-----------------------------------------------------------------------------
(* The wallet that is listened to *)

\* Every announcement handled, the page listens to the wallet it would choose.
ListensToChosen ==
  /\ announced \in Seq(Wallets) /\ unhandled \in Nat
  /\ mounted \in {"no", "waiting", "mounted"}
  /\ mounted = "mounted" /\ unhandled = 0 => current = chooseWallet

\* wallet.ts:83-89.  What is picked is the most preferred of those there.
LEMMA PicksPreferred ==
  ASSUME NEW wallets, NEW i \in DOMAIN Preferred, Contains(wallets, Preferred[i]),
         \A j \in 1..(i - 1) : ~Contains(wallets, Preferred[j])
  PROVE  pickWallet(wallets) = Preferred[i]
<1> DEFINE there == {j \in DOMAIN Preferred : Contains(wallets, Preferred[j])}
<1>1. i \in there /\ \A j \in there : i <= j
  BY WalletAssumption
<1>2. \A k \in there : (\A j \in there : k <= j) => k = i
  BY <1>1, WalletAssumption
<1> HIDE DEF there
<1>3. (CHOOSE k \in there : \A j \in there : k <= j) = i
  BY <1>1, <1>2, Zenon
<1>4. QED
  BY <1>1, <1>3 DEF pickWallet, there

\* wallet.ts:14, 80-89, 205-243.  For any wallets, any list of preferred ones
\* and any order of announcements, late handlers and changes of account.
THEOREM ThePageListens == WalletSpec => []ListensToPreferred
<1>1. WalletInit => ListensToChosen
  BY DEF WalletInit, ListensToChosen
<1>2. ListensToChosen /\ [WalletNext]_walletVars => ListensToChosen'
  <2> SUFFICES ASSUME ListensToChosen, [WalletNext]_walletVars PROVE ListensToChosen'
    OBVIOUS
  <2>1. ASSUME NEW w \in Wallets, Announce(w) PROVE ListensToChosen'
    BY <2>1 DEF Announce, ListensToChosen
  <2>2. CASE Mount
    BY <2>2 DEF Mount, ListensToChosen
  <2>3. CASE Chosen
    BY <2>3 DEF Chosen, ListensToChosen, chooseWallet
  <2>4. CASE onAnnounce
    BY <2>4 DEF onAnnounce, ListensToChosen, chooseWallet
  <2>5. ASSUME NEW w, NEW a, SwitchAccount(w, a) PROVE ListensToChosen'
    BY <2>5 DEF SwitchAccount, ListensToChosen, chooseWallet
  <2>6. ASSUME NEW a, connectWallet(a) PROVE ListensToChosen'
    BY <2>6 DEF connectWallet, ListensToChosen, chooseWallet
  <2>7. ASSUME NEW i, ReadAnswered(i) PROVE ListensToChosen'
    BY <2>7 DEF ReadAnswered, ListensToChosen, chooseWallet
  <2>8. CASE UNCHANGED walletVars
    BY <2>8 DEF walletVars, ListensToChosen, chooseWallet
  <2>9. QED
    BY <2>1, <2>2, <2>3, <2>4, <2>5, <2>6, <2>7, <2>8 DEF WalletNext
<1>3. ListensToChosen => ListensToPreferred
  <2> SUFFICES ASSUME ListensToChosen, mounted = "mounted", unhandled = 0,
                      NEW i \in DOMAIN Preferred, Contains(announced, Preferred[i]),
                      \A j \in 1..(i - 1) : ~Contains(announced, Preferred[j])
               PROVE  current = Preferred[i]
    BY DEF ListensToPreferred
  <2>1. pickWallet(announced) = Preferred[i]
    BY PicksPreferred
  <2>2. Preferred[i] # NoWallet
    BY WalletAssumption
  <2>3. QED
    BY <2>1, <2>2 DEF ListensToChosen, chooseWallet
<1>4. QED
  BY <1>1, <1>2, <1>3, PTL DEF WalletSpec
-----------------------------------------------------------------------------
(* What the page shows *)

\* At most one refresh waits, exactly while one is said to, and what it has read
\* is not older than what the page shows nor newer than the gateway.
OneRefresh ==
  /\ server \in Nat /\ view \in [Parts -> Nat]
  /\ \A p \in Parts : view[p] <= server
  /\ \/ ~inFlight /\ polls = <<>>
     \/ /\ inFlight = TRUE
        /\ \E r \in [Parts -> Nat] :
             /\ polls = <<r>>
             /\ \A p \in Parts : r[p] # Unread => view[p] <= r[p] /\ r[p] <= server

\* ConsoleProvider.tsx:116-121.  A refresh is begun only when none waits.
LEMMA RefreshBegins ==
  ASSUME OneRefresh, BeginRefresh, UNCHANGED view, server' \in Nat, server <= server'
  PROVE  OneRefresh'
<1>1. \A p \in Parts : view[p] <= server'
  BY DEF OneRefresh
<1>2. CASE inFlight
  <2>1. PICK r \in [Parts -> Nat] :
          /\ polls = <<r>>
          /\ \A p \in Parts : r[p] # Unread => view[p] <= r[p] /\ r[p] <= server
    BY <1>2 DEF OneRefresh
  <2>2. \A p \in Parts : r[p] # Unread => view[p] <= r[p] /\ r[p] <= server'
    BY <2>1 DEF OneRefresh
  <2>3. UNCHANGED <<polls, inFlight>>
    BY <1>2 DEF BeginRefresh
  <2>4. QED
    BY <1>1, <1>2, <2>1, <2>2, <2>3 DEF OneRefresh
<1>3. CASE ~inFlight
  <2>1. Unread \in Nat /\ NothingRead \in [Parts -> Nat] /\ \A p \in Parts : NothingRead[p] = Unread
    BY ConsoleAssumption DEF NothingRead, Unread
  <2>2. polls = <<>>
    BY <1>3 DEF OneRefresh
  <2>3. polls' = <<NothingRead>> /\ inFlight' = TRUE
    BY <1>3, <2>2 DEF BeginRefresh
  <2>4. QED
    BY <1>1, <2>1, <2>3 DEF OneRefresh
<1>4. QED
  BY <1>2, <1>3

\* One step, and what it shows is not older.
LEMMA RefreshGoesOn ==
  ASSUME OneRefresh, [ConsoleNext]_consoleVars
  PROVE  OneRefresh' /\ \A p \in Parts : view'[p] >= view[p]
<1>1. /\ server \in Nat /\ view \in [Parts -> Nat] /\ \A p \in Parts : view[p] <= server
      /\ \A p \in Parts : view[p] >= view[p]
  BY DEF OneRefresh
\* What remains of a step that shows nothing new.
<1>2. ASSUME UNCHANGED view, OneRefresh'
      PROVE  OneRefresh' /\ \A p \in Parts : view'[p] >= view[p]
  BY <1>1, <1>2
<1>3. CASE UNCHANGED <<server, polls, inFlight, view>>
  <2>1. OneRefresh'
    BY <1>3 DEF OneRefresh
  <2>2. QED
    BY <1>2, <1>3, <2>1
<1>4. CASE PollTimer
  BY <1>1, <1>2, <1>4, RefreshBegins DEF PollTimer
<1>5. CASE ServerChanges
  <2>1. server' = server + 1 /\ UNCHANGED <<polls, inFlight, view>>
    BY <1>5 DEF ServerChanges
  <2>2. OneRefresh'
    <3>1. CASE ~inFlight
      BY <1>1, <2>1, <3>1 DEF OneRefresh
    <3>2. CASE inFlight
      <4>1. PICK r \in [Parts -> Nat] :
              /\ polls = <<r>>
              /\ \A p \in Parts : r[p] # Unread => view[p] <= r[p] /\ r[p] <= server
        BY <3>2 DEF OneRefresh
      <4>2. \A p \in Parts : r[p] # Unread => view[p] <= r[p] /\ r[p] <= server'
        BY <1>1, <2>1, <4>1
      <4>3. QED
        BY <1>1, <2>1, <3>2, <4>1, <4>2 DEF OneRefresh
    <3>3. QED
      BY <3>1, <3>2
  <2>3. QED
    BY <1>2, <2>1, <2>2
\* A step of the refresh that waits.
<1>6. ASSUME NEW i, i \in DOMAIN polls
      PROVE  /\ i = 1 /\ inFlight = TRUE
             /\ \E r \in [Parts -> Nat] :
                  /\ polls = <<r>> /\ polls[i] = r
                  /\ \A p \in Parts : r[p] # Unread => view[p] <= r[p] /\ r[p] <= server
  <2>1. DOMAIN <<>> = {} /\ \A r \in [Parts -> Nat] : DOMAIN <<r>> = {1} /\ <<r>>[1] = r
    OBVIOUS
  <2>2. QED
    BY <1>6, <2>1 DEF OneRefresh
<1>7. ASSUME NEW i, NEW p \in Parts, ReadPart(i, p)
      PROVE  OneRefresh' /\ \A q \in Parts : view'[q] >= view[q]
  <2>1. PICK r \in [Parts -> Nat] :
          /\ polls = <<r>> /\ polls[i] = r
          /\ \A q \in Parts : r[q] # Unread => view[q] <= r[q] /\ r[q] <= server
    BY <1>6, <1>7 DEF ReadPart
  <2>2. i = 1 /\ inFlight = TRUE
    BY <1>6, <1>7 DEF ReadPart
  <2>3. polls' = [polls EXCEPT ![i][p] = server] /\ UNCHANGED <<server, inFlight, view>>
    BY <1>7 DEF ReadPart
  <2>4. PICK read : read = [r EXCEPT ![p] = server]
    OBVIOUS
  <2>5. read \in [Parts -> Nat] /\ \A q \in Parts : read[q] = IF q = p THEN server ELSE r[q]
    BY <1>1, <2>4
  <2>6. polls' = <<read>>
    <3>1. polls' = [polls EXCEPT ![1] = read]
      BY <2>1, <2>2, <2>3, <2>4
    <3>2. [<<r>> EXCEPT ![1] = read] = <<read>>
      OBVIOUS
    <3>3. QED
      BY <2>1, <3>1, <3>2
  <2>7. \A q \in Parts : read[q] # Unread => view[q] <= read[q] /\ read[q] <= server
    BY <1>1, <2>1, <2>5
  <2>8. OneRefresh'
    BY <1>1, <2>2, <2>3, <2>5, <2>6, <2>7 DEF OneRefresh
  <2>9. QED
    BY <1>2, <2>3, <2>8
<1>8. ASSUME NEW i, i \in DOMAIN polls, polls' = WithoutPoll(i)
      PROVE  polls' = <<>>
  <2>1. PICK r \in [Parts -> Nat] : polls = <<r>>
    BY <1>6, <1>8
  <2>2. i = 1 /\ Len(<<r>>) = 1
    BY <1>6, <1>8
  <2>3. SubSeq(<<r>>, 1, 0) = <<>> /\ SubSeq(<<r>>, 2, 1) = <<>> /\ <<>> \o <<>> = <<>>
    OBVIOUS
  <2>4. 1 - 1 = 0 /\ 1 + 1 = 2
    OBVIOUS
  <2>5. QED
    BY <1>8, <2>1, <2>2, <2>3, <2>4 DEF WithoutPoll
<1>9. ASSUME NEW i, RefreshAnswered(i)
      PROVE  OneRefresh' /\ \A p \in Parts : view'[p] >= view[p]
  <2>1. PICK r \in [Parts -> Nat] :
          /\ polls[i] = r
          /\ \A p \in Parts : r[p] # Unread => view[p] <= r[p] /\ r[p] <= server
    BY <1>6, <1>9 DEF RefreshAnswered
  <2>2. /\ view' = r /\ inFlight' = FALSE /\ server' = server
        /\ \A p \in Parts : r[p] # Unread
    BY <1>9, <2>1 DEF RefreshAnswered
  <2>3. polls' = <<>>
    BY <1>8, <1>9 DEF RefreshAnswered
  <2>4. \A p \in Parts : view[p] <= view'[p] /\ view'[p] <= server
    BY <2>1, <2>2
  <2>5. OneRefresh'
    BY <1>1, <2>2, <2>3, <2>4 DEF OneRefresh
  <2>6. QED
    BY <1>1, <2>2, <2>4, <2>5
<1>10. ASSUME NEW i, RefreshFailed(i)
       PROVE  OneRefresh' /\ \A p \in Parts : view'[p] >= view[p]
  <2>1. polls' = <<>> /\ inFlight' = FALSE /\ UNCHANGED <<server, view>>
    BY <1>8, <1>10 DEF RefreshFailed
  <2>2. OneRefresh'
    BY <1>1, <2>1 DEF OneRefresh
  <2>3. QED
    BY <1>2, <2>1, <2>2
<1>11. CASE GracePasses \/ SlowStart \/ \E k \in ClickKeys : Click(k)
  BY <1>3, <1>11 DEF GracePasses, SlowStart, Click, pollVars
<1>12. ASSUME NEW c, Sign(c) \/ AskFailed(c)
       PROVE  OneRefresh' /\ \A p \in Parts : view'[p] >= view[p]
  BY <1>3, <1>12 DEF Sign, AskFailed, pollVars
<1>13. ASSUME NEW c, NotSigned(c) \/ Refused(c) \/ Done(c)
       PROVE  OneRefresh' /\ \A p \in Parts : view'[p] >= view[p]
  <2>1. BeginRefresh /\ UNCHANGED view /\ (server' = server \/ server' = server + 1)
    BY <1>13 DEF NotSigned, Refused, Done, Finish
  <2>2. OneRefresh'
    BY <1>1, <2>1, RefreshBegins
  <2>3. QED
    BY <1>2, <2>1, <2>2
<1>14. QED
  BY <1>3, <1>4, <1>5, <1>7, <1>9, <1>10, <1>11, <1>12, <1>13
     DEF ConsoleNext, RefreshStep, ClickStep, consoleVars, pollVars

\* ConsoleProvider.tsx:115-130.  For any number of changes, clicks and failed
\* refreshes, in any order: the page never goes back to an older state.
THEOREM ThePageGoesForward == ConsoleSpec => ViewNeverGoesBack
<1>1. ConsoleInit => OneRefresh
  <2> SUFFICES ASSUME ConsoleInit PROVE OneRefresh
    OBVIOUS
  <2>1. Unread \in Nat /\ NothingRead \in [Parts -> Nat] /\ \A p \in Parts : NothingRead[p] = Unread
    BY ConsoleAssumption DEF NothingRead, Unread
  <2>2. server = 0 /\ polls = <<NothingRead>> /\ inFlight = TRUE /\ view = [p \in Parts |-> 0]
    BY DEF ConsoleInit
  <2>3. QED
    BY <2>1, <2>2 DEF OneRefresh
<1>2. OneRefresh /\ [ConsoleNext]_consoleVars => OneRefresh'
  BY RefreshGoesOn
<1>3. OneRefresh /\ [ConsoleNext]_consoleVars => [\A p \in Parts : view'[p] >= view[p]]_view
  BY RefreshGoesOn
<1>4. QED
  BY <1>1, <1>2, <1>3, PTL DEF ConsoleSpec, ViewNeverGoesBack
-----------------------------------------------------------------------------
(* What is due is a list *)

LEMMA SmallestSubset ==
  ASSUME NEW D, IsFiniteSet(D), NEW T, T \subseteq SUBSET D, T # {}
  PROVE  \E s \in T : \A t \in SUBSET s : t # s => t \notin T
<1>1. IsWellFoundedOn(StrictSubsetOrdering(D), SUBSET D)
  BY FS_StrictSubsetOrderingWellFounded, FS_FiniteSubsetsOfFinite
<1>2. PICK s \in T : \A t \in T : ~ (<<t, s>> \in StrictSubsetOrdering(D))
  BY <1>1, WFMin
<1>3. ASSUME NEW t \in SUBSET s, t # s, t \in T
      PROVE  FALSE
  BY <1>2, <1>3 DEF StrictSubsetOrdering
<1>4. QED
  BY <1>3

\* Ids in order: what Due chooses from.
InOrder(s) == \A i, j \in DOMAIN s : i < j => s[i] < s[j]
Lists(S) == {s \in [1..Cardinality(S) -> S] : InOrder(s)}

LEMMA NewestOf ==
  ASSUME NEW S \in SUBSET Ids, S # {}
  PROVE  \E newest \in S : \A id \in S : id <= newest
<1> DEFINE Above(u) == {v \in S : v > u}
           T == {Above(u) : u \in S}
<1>1. IsFiniteSet(Ids) /\ Ids \subseteq Nat
  BY ClientsAssumption, FS_Interval DEF Ids
<1>2. T \subseteq SUBSET Ids /\ T # {}
  OBVIOUS
<1>3. PICK s \in T : \A x \in SUBSET s : x # s => x \notin T
  <2> HIDE DEF T
  <2>1. QED
    BY <1>1, <1>2, SmallestSubset
<1>4. PICK u \in S : s = Above(u)
  OBVIOUS
<1>5. ASSUME NEW v \in S, ~(v <= u) PROVE FALSE
  <2>a. u \in Nat /\ v \in Nat /\ S \subseteq Nat
    BY <1>1
  <2>1. v \in Above(u) /\ v \notin Above(v) /\ Above(v) \in SUBSET Above(u)
    <3>1. v > u /\ ~(v > v)
      BY <1>5, <2>a
    <3>2. ASSUME NEW w \in S, w > v PROVE w > u
      BY <2>a, <3>1, <3>2
    <3>3. QED
      BY <3>1, <3>2
  <2>2. Above(v) \in T
    OBVIOUS
  <2>3. QED
    BY <1>3, <1>4, <2>1, <2>2
<1>6. QED
  BY <1>5

LEMMA EverySetHasAList ==
  ASSUME NEW S \in SUBSET Ids
  PROVE  Lists(S) # {} /\ Cardinality(S) \in Nat
<1>1. IsFiniteSet(Ids) /\ Ids \subseteq Nat
  BY ClientsAssumption, FS_Interval DEF Ids
<1>2. \A X \in SUBSET Ids : IsFiniteSet(X) /\ Cardinality(X) \in Nat
  BY <1>1, FS_Subset, FS_CardinalityType
<1> DEFINE T == {X \in SUBSET Ids : Lists(X) = {}}
<1>3. ASSUME T # {} PROVE FALSE
  <2>1. PICK s \in T : \A x \in SUBSET s : x # s => x \notin T
    <3>1. T \subseteq SUBSET Ids
      OBVIOUS
    <3> HIDE DEF T
    <3>2. QED
      BY <1>1, <1>3, <3>1, SmallestSubset
  <2>2. s \in SUBSET Ids /\ Lists(s) = {}
    OBVIOUS
  <2>3. s # {}
    <3>1. ASSUME s = {} PROVE FALSE
      <4>1. Cardinality(s) = 0
        BY <3>1, FS_EmptySet
      <4>2. 1..0 = {}
        OBVIOUS
      <4>3. <<>> \in [1..Cardinality(s) -> s] /\ InOrder(<<>>)
        BY <4>1, <4>2 DEF InOrder
      <4>4. QED
        BY <2>2, <4>3 DEF Lists
    <3>2. QED
      BY <3>1
  <2>4. PICK newest \in s : \A id \in s : id <= newest
    BY <2>2, <2>3, NewestOf
  <2>5. PICK rest : rest = s \ {newest}
    OBVIOUS
  <2>6. rest \in SUBSET s /\ rest # s /\ rest \in SUBSET Ids
    BY <2>2, <2>5
  <2>7. Lists(rest) # {}
    BY <2>1, <2>6
  <2>8. PICK e \in [1..Cardinality(rest) -> rest] : InOrder(e)
    BY <2>7 DEF Lists
  <2>9. PICK n \in Nat : n = Cardinality(rest)
    BY <1>2, <2>6
  <2>10. Cardinality(s) = n + 1
    <3>1. Cardinality(s \ {newest}) = Cardinality(s) - 1 /\ Cardinality(s) \in Nat
      BY <1>2, <2>2, FS_RemoveElement
    <3>2. QED
      BY <2>5, <2>9, <3>1
  <2>11. PICK f : f = [i \in 1..(n + 1) |-> IF i = n + 1 THEN newest ELSE e[i]]
    OBVIOUS
  <2>12. \A i \in 1..(n + 1) : i = n + 1 \/ i \in 1..n
    OBVIOUS
  <2>13. f \in [1..(n + 1) -> s]
    BY <2>5, <2>8, <2>9, <2>11, <2>12
  <2>14. ASSUME NEW i \in 1..(n + 1), NEW j \in 1..(n + 1), i < j PROVE f[i] < f[j]
    <3>1. i \in 1..n /\ f[i] = e[i] /\ e[i] \in rest
      BY <2>8, <2>9, <2>11, <2>14
    <3>2. CASE j = n + 1
      <4>1. e[i] <= newest /\ e[i] # newest /\ e[i] \in Nat /\ newest \in Nat
        BY <1>1, <2>2, <2>4, <2>5, <3>1
      <4>2. QED
        BY <2>11, <3>1, <3>2, <4>1
    <3>3. CASE j # n + 1
      <4>1. j \in 1..n /\ f[j] = e[j]
        BY <2>11, <3>3
      <4>2. QED
        BY <2>8, <2>9, <2>14, <3>1, <4>1 DEF InOrder
    <3>4. QED
      BY <3>2, <3>3
  <2>15. f \in Lists(s)
    BY <2>10, <2>13, <2>14 DEF Lists, InOrder
  <2>16. QED
    BY <2>2, <2>15
<1>4. QED
  BY <1>2, <1>3

\* demo-agent.ts:124-127.  What is due is a list of requests on record.
LEMMA DueIsAList ==
  /\ Due \in Seq(Ids)
  /\ \A i \in DOMAIN Due : Due[i] \notin demo.finished
<1> DEFINE ids == {id \in Listed : status[id] = "payment_required" /\ id \notin refused
                                                        /\ id \notin demo.finished}
<1>1. ids \in SUBSET Ids /\ \A id \in ids : id \notin demo.finished
  BY DEF Listed, Known
<1>2. Due = CHOOSE s \in [1..Cardinality(ids) -> ids] : InOrder(s)
  BY Zenon DEF Due, InOrder
<1> HIDE DEF ids
<1>3. Due \in [1..Cardinality(ids) -> ids] /\ Cardinality(ids) \in Nat
  BY <1>1, <1>2, EverySetHasAList DEF Lists
<1>4. QED
  BY <1>1, <1>3
-----------------------------------------------------------------------------
(* Two agents at one gateway *)

Calls == [id : Ids \cup {0}, code : Nat,
          at : {"none", "sent", "inside", "answered", "broken"}]

\* What is due, and what is being collected, has attempts left.
Trying ==
  /\ \A id \in Ids : demo.attempts[id] < MaxAttempts \/ id \in demo.finished
  /\ \A i \in DOMAIN demo.due : demo.attempts[demo.due[i]] < MaxAttempts
  /\ call["demo"].at # "none" =>
       call["demo"].id \in Ids /\ demo.attempts[call["demo"].id] < MaxAttempts
  /\ call["cli"].at # "none" => call["cli"].id \in Ids
  /\ cli.at = "polling" => cli.id \in Ids

Typed ==
  /\ CheckInv /\ ClientsTypeOK
  /\ demo = [at |-> demo.at, due |-> demo.due, finished |-> demo.finished,
             attempts |-> demo.attempts]
  /\ cli = [at |-> cli.at, id |-> cli.id, code |-> cli.code]
  /\ Trying

LEMMA TypedInit == ClientsInit => Typed
<1> SUFFICES ASSUME ClientsInit PROVE Typed
  OBVIOUS
<1>1. CheckInv /\ StartupTypeOK
  BY CheckBegins DEF ClientsInit, CheckInv
<1>2. Ids \subseteq Nat /\ 0 \in 0..MaxAttempts /\ 0 < MaxAttempts /\ <<>> \in Seq(Ids)
      /\ <<>> \in Seq(TheClients)
  BY ClientsAssumption DEF Ids
<1>3. call \in [TheClients -> Calls]
  BY DEF ClientsInit, NoCall, Calls
<1>4. demo.at \in {"off", "idle"} /\ demo.due = <<>> /\ demo.finished = {}
      /\ demo.attempts = [id \in Ids |-> 0]
      /\ demo = [at |-> demo.at, due |-> demo.due, finished |-> demo.finished,
                 attempts |-> demo.attempts]
  BY DEF ClientsInit
<1>5. cli = [at |-> "health", id |-> 0, code |-> 0]
  BY DEF ClientsInit
<1>6. Trying
  BY <1>2, <1>4 DEF Trying, ClientsInit, NoCall, TheClients
<1>7. ClientsTypeOK
  BY <1>1, <1>2, <1>3, <1>4, <1>5 DEF ClientsTypeOK, ClientsInit, Calls
<1>8. QED
  BY <1>1, <1>4, <1>5, <1>6, <1>7 DEF Typed

\* The gateway's answer to a call.
LEMMA AnswerTyped ==
  ASSUME call \in [TheClients -> Calls], NEW c \in TheClients, NEW code \in Nat, Answer(c, code)
  PROVE  /\ call' \in [TheClients -> Calls]
         /\ call'[c] = [id |-> call[c].id, at |-> "answered", code |-> code]
         /\ \A d \in TheClients : call'[d].id = call[d].id /\ (d # c => call'[d] = call[d])
  BY DEF Answer, Calls

\* A submission takes the next id, which nothing on record has.
LEMMA StoredTyped ==
  ASSUME ClientsTypeOK, NEW id \in Ids,
         NEW s \in {"awaiting_approval", "payment_required", "rejected", "fulfilled", "failed"},
         status' = [status EXCEPT ![id] = s]
  PROVE  status' \in [Ids -> {"none", "awaiting_approval", "payment_required", "rejected",
                              "fulfilled", "failed"}]
  BY DEF ClientsTypeOK

\* What Typed says of the variables a step leaves alone.
LEMMA StartupKept ==
  ASSUME Typed, UNCHANGED startupVars
  PROVE  CheckInv' /\ StartupTypeOK'
<1>1. CheckInv'
  BY CheckGoesOn DEF Typed
<1>2. QED
  BY <1>1 DEF CheckInv

LEMMA TryingOn ==
  ASSUME Typed, UNCHANGED <<demo, cli>>,
         \A d \in TheClients : /\ call'[d].id = call[d].id
                               /\ call[d].at = "none" => call'[d].at = "none"
  PROVE  Trying'
<1>1. Trying /\ "demo" \in TheClients /\ "cli" \in TheClients
  BY DEF Typed, TheClients
<1>2. /\ call'["demo"].at # "none" => call["demo"].at # "none"
      /\ call'["cli"].at # "none" => call["cli"].at # "none"
      /\ call'["demo"].id = call["demo"].id /\ call'["cli"].id = call["cli"].id
  BY <1>1
<1>3. QED
  BY <1>1, <1>2 DEF Trying

LEMMA RouteTyped ==
  ASSUME Typed, RouteStep
  PROVE  Typed'
<1>1. ASSUME NEW s \in {"awaiting_approval", "payment_required", "rejected"}, SubmitElsewhere(s)
      PROVE  Typed'
  <2>1. CheckInv' /\ StartupTypeOK'
    BY <1>1, StartupKept DEF SubmitElsewhere
  <2>2. QED
    BY <1>1, <2>1 DEF SubmitElsewhere, Stored, Typed, ClientsTypeOK, Trying
<1>2. ASSUME NEW id \in Ids, NEW s \in {"payment_required", "rejected"}, DecideApproval(id, s)
      PROVE  Typed'
  <2>1. CheckInv' /\ StartupTypeOK'
    BY <1>2, StartupKept DEF DecideApproval
  <2>2. QED
    BY <1>2, <2>1 DEF DecideApproval, Typed, ClientsTypeOK, Trying
<1>3. call \in [TheClients -> Calls] /\ "demo" \in TheClients /\ "cli" \in TheClients
  BY DEF Typed, ClientsTypeOK, Calls, TheClients
<1>4. ASSUME NEW c \in TheClients, Arrive(c) PROVE Typed'
  <2>1. CheckInv' /\ StartupTypeOK'
    BY <1>4, StartupKept DEF Arrive
  <2>2. call[c].id \in Ids /\ call[c].at = "sent"
    BY <1>4 DEF Arrive, Typed, Trying, TheClients
  <2>3. /\ call' \in [TheClients -> Calls]
        /\ \A d \in TheClients : /\ call'[d].id = call[d].id
                                 /\ call[d].at = "none" => call'[d].at = "none"
    <3>1. ASSUME NEW code \in Nat, Answer(c, code)
          PROVE  /\ call' \in [TheClients -> Calls]
                 /\ \A d \in TheClients : /\ call'[d].id = call[d].id
                                          /\ call[d].at = "none" => call'[d].at = "none"
      BY <1>3, <2>2, <3>1, AnswerTyped
    <3>2. CASE call' = [call EXCEPT ![c].at = "inside"]
      BY <1>3, <2>2, <3>2 DEF Calls
    <3>3. 503 \in Nat /\ 409 \in Nat /\ 403 \in Nat /\ 402 \in Nat
      OBVIOUS
    <3>4. QED
      BY <1>4, <3>1, <3>2, <3>3, Zenon DEF Arrive
  <2>4. refused' \subseteq Ids /\ inside' \subseteq Ids \X TheClients /\ UNCHANGED <<status, charged>>
    BY <1>4, <2>2 DEF Arrive, routeVars, Typed, ClientsTypeOK
  <2>5. UNCHANGED <<demo, cli>>
    BY <1>4 DEF Arrive
  <2>6. Trying'
    BY <1>3, <2>3, <2>5, TryingOn
  <2>7. QED
    BY <2>1, <2>3, <2>4, <2>5, <2>6 DEF Typed, ClientsTypeOK, Calls
<1>5. ASSUME NEW c \in TheClients, Lose(c) PROVE Typed'
  <2>1. CheckInv' /\ StartupTypeOK'
    BY <1>5, StartupKept DEF Lose
  <2>2. /\ call' \in [TheClients -> Calls]
        /\ \A d \in TheClients : /\ call'[d].id = call[d].id
                                 /\ call[d].at = "none" => call'[d].at = "none"
    BY <1>3, <1>5 DEF Lose, Calls
  <2>3. UNCHANGED <<routeVars, demo, cli>>
    BY <1>5 DEF Lose
  <2>4. Trying'
    BY <1>3, <2>2, <2>3, TryingOn
  <2>5. QED
    BY <2>1, <2>2, <2>3, <2>4 DEF Typed, ClientsTypeOK, Calls, routeVars
<1>6. ASSUME NEW id \in Ids, NEW c \in TheClients, NEW ok \in BOOLEAN, Serve(id, c, ok)
      PROVE  Typed'
  <2>1. CheckInv' /\ StartupTypeOK'
    BY <1>6, StartupKept DEF Serve
  <2>2. /\ call' \in [TheClients -> Calls]
        /\ \A d \in TheClients : /\ call'[d].id = call[d].id
                                 /\ call[d].at = "none" => call'[d].at = "none"
    <3>1. CASE UNCHANGED call
      BY <1>3, <3>1
    <3>2. ASSUME call[c].at = "inside", NEW code \in Nat, Answer(c, code)
          PROVE  /\ call' \in [TheClients -> Calls]
                 /\ \A d \in TheClients : /\ call'[d].id = call[d].id
                                          /\ call[d].at = "none" => call'[d].at = "none"
      BY <1>3, <3>2, AnswerTyped
    <3>3. QED
      BY <1>6, <3>1, <3>2 DEF Serve
  <2>3. inside' \subseteq Ids \X TheClients /\ UNCHANGED <<refused, demo, cli>>
    BY <1>6 DEF Serve, Typed, ClientsTypeOK
  <2>4. charged' \in [Ids -> Seq(TheClients)]
    <3>1. charged \in [Ids -> Seq(TheClients)] /\ Append(charged[id], c) \in Seq(TheClients)
      BY DEF Typed, ClientsTypeOK
    <3>2. QED
      BY <1>6, <3>1 DEF Serve
  <2>5. status' \in [Ids -> {"none", "awaiting_approval", "payment_required", "rejected",
                             "fulfilled", "failed"}]
    BY <1>6, StoredTyped DEF Serve, Typed
  <2>6. Trying'
    BY <1>3, <2>2, <2>3, TryingOn
  <2>7. QED
    BY <2>1, <2>2, <2>3, <2>4, <2>5, <2>6 DEF Typed, ClientsTypeOK, Calls
<1>7. ASSUME NEW id \in Ids, NEW c \in TheClients, Unheard(id, c)
      PROVE  Typed'
  <2>1. CheckInv' /\ StartupTypeOK'
    BY <1>7, StartupKept DEF Unheard
  <2>2. UNCHANGED <<call, refused, charged, demo, cli>> /\ inside' \subseteq inside
    BY <1>7 DEF Unheard
  <2>3. status' \in [Ids -> {"none", "awaiting_approval", "payment_required", "rejected",
                             "fulfilled", "failed"}]
    BY <1>7, StoredTyped DEF Unheard, Typed
  <2>4. Trying'
    BY <1>3, <2>2, TryingOn
  <2>5. QED
    BY <2>1, <2>2, <2>3, <2>4 DEF Typed, ClientsTypeOK, Calls
<1>8. QED
  BY <1>1, <1>2, <1>4, <1>5, <1>6, <1>7 DEF RouteStep

LEMMA DemoTyped ==
  ASSUME Typed, DemoStep
  PROVE  Typed'
<1>1. /\ call \in [TheClients -> Calls] /\ "demo" \in TheClients /\ "cli" \in TheClients
      /\ NoCall \in Calls /\ NoCall.at = "none"
  BY DEF Typed, ClientsTypeOK, Calls, TheClients, NoCall
<1>2. UNCHANGED <<status, refused, inside, charged, cli>> /\ CheckInv' /\ StartupTypeOK'
  <2>1. UNCHANGED <<status, refused, inside, charged, cli>> /\ UNCHANGED startupVars
    BY DEF DemoStep, Tick, ListAnswered, CollectNext, CollectAnswered, CollectBroke, routeVars
  <2>2. QED
    BY <2>1, StartupKept
<1>3. /\ demo.due \in Seq(Ids) /\ demo.finished \subseteq Ids
      /\ demo.attempts \in [Ids -> 0..MaxAttempts]
      /\ demo = [at |-> demo.at, due |-> demo.due, finished |-> demo.finished,
                 attempts |-> demo.attempts]
  BY DEF Typed, ClientsTypeOK
\* What remains to be shown of a step.
<1>4. ASSUME call' \in [TheClients -> Calls], call'["cli"] = call["cli"],
             NEW at \in {"off", "idle", "listing", "passing"},
             NEW due \in Seq(Ids), NEW finished \in SUBSET Ids,
             NEW attempts \in [Ids -> 0..MaxAttempts],
             demo' = [at |-> at, due |-> due, finished |-> finished, attempts |-> attempts],
             \A id \in Ids : attempts[id] < MaxAttempts \/ id \in finished,
             \A i \in DOMAIN due : attempts[due[i]] < MaxAttempts,
             call'["demo"].at # "none" =>
               call'["demo"].id \in Ids /\ attempts[call'["demo"].id] < MaxAttempts
      PROVE  Typed'
  <2>1. /\ demo'.at = at /\ demo'.due = due /\ demo'.finished = finished
        /\ demo'.attempts = attempts
    BY <1>4
  <2>2. Trying'
    BY <1>2, <1>4, <2>1 DEF Trying, Typed
  <2>3. ClientsTypeOK'
    BY <1>2, <1>4, <2>1 DEF ClientsTypeOK, Typed, Calls
  <2>4. QED
    BY <1>2, <1>4, <2>1, <2>2, <2>3 DEF Typed
<1>5. CASE Tick
  BY <1>1, <1>3, <1>4, <1>5 DEF Tick, Typed, Trying
<1>6. CASE ListAnswered
  <2>1. UNCHANGED call
    BY <1>6 DEF ListAnswered
  <2>2. CASE demo' = [demo EXCEPT !.at = "idle"]
    BY <1>1, <1>3, <1>4, <2>1, <2>2 DEF Typed, Trying
  <2>3. CASE demo' = [demo EXCEPT !.at = "passing", !.due = Due]
    <3>1. PICK due : due = Due
      OBVIOUS
    <3>2. demo' = [at |-> "passing", due |-> due, finished |-> demo.finished,
                   attempts |-> demo.attempts]
      BY <1>3, <2>3, <3>1
    <3>3. due \in Seq(Ids) /\ \A i \in DOMAIN due : due[i] \in Ids /\ due[i] \notin demo.finished
      BY <3>1, DueIsAList
    <3>4. \A i \in DOMAIN due : demo.attempts[due[i]] < MaxAttempts
      BY <3>3 DEF Typed, Trying
    <3>5. QED
      BY <1>1, <1>3, <1>4, <2>1, <3>2, <3>3, <3>4 DEF Typed, Trying
  <2>4. QED
    BY <1>6, <2>2, <2>3 DEF ListAnswered
<1>7. CASE CollectNext
  <2>1. CASE demo.due = <<>>
    <3>1. demo' = [at |-> "idle", due |-> demo.due, finished |-> demo.finished,
                   attempts |-> demo.attempts] /\ UNCHANGED call
      BY <1>3, <1>7, <2>1 DEF CollectNext
    <3>2. QED
      BY <1>1, <1>3, <1>4, <3>1 DEF Typed, Trying
  <2>2. CASE demo.due # <<>>
    <3>a. PICK due, id : due = Tail(demo.due) /\ id = Head(demo.due)
      OBVIOUS
    <3>b. Head(demo.due) = demo.due[1] /\ 1 \in DOMAIN demo.due /\ Tail(demo.due) \in Seq(Ids)
      BY <1>3, <2>2
    <3>c. demo.due[1] \in Ids
      BY <1>3, <3>b
    <3>d. ASSUME NEW i \in DOMAIN Tail(demo.due)
          PROVE  i + 1 \in DOMAIN demo.due /\ Tail(demo.due)[i] = demo.due[i + 1]
      BY <1>3, <2>2
    <3>1. /\ due \in Seq(Ids) /\ id \in Ids /\ id = demo.due[1] /\ 1 \in DOMAIN demo.due
          /\ \A i \in DOMAIN due : i + 1 \in DOMAIN demo.due /\ due[i] = demo.due[i + 1]
      BY <3>a, <3>b, <3>c, <3>d
    <3>2. /\ demo' = [at |-> "passing", due |-> due, finished |-> demo.finished,
                      attempts |-> demo.attempts]
          /\ call' = [call EXCEPT !["demo"] = Call(id, "sent", 0)]
      BY <1>3, <1>7, <2>2, <3>a DEF CollectNext
    <3>3. /\ call'["demo"].id = id /\ call'["cli"] = call["cli"]
          /\ call' \in [TheClients -> Calls]
      BY <1>1, <3>1, <3>2 DEF Call, Calls
    <3>4. \A i \in DOMAIN demo.due : demo.attempts[demo.due[i]] < MaxAttempts
      BY DEF Typed, Trying
    <3>5. QED
      BY <1>3, <1>4, <3>1, <3>2, <3>3, <3>4 DEF Typed, Trying
  <2>3. QED
    BY <2>1, <2>2
<1>8. CASE CollectAnswered
  <2>1. /\ call' \in [TheClients -> Calls] /\ call'["cli"] = call["cli"]
        /\ call'["demo"].at = "none"
    BY <1>1, <1>8 DEF CollectAnswered
  <2>2. PICK mine : mine = call["demo"] /\ mine.id \in Ids
    BY <1>1, <1>8 DEF CollectAnswered, Typed, Trying
  <2>3. CASE Final(mine.code)
    <3>1. demo' = [at |-> demo.at, due |-> demo.due, finished |-> demo.finished \cup {mine.id},
                   attempts |-> demo.attempts]
      BY <1>3, <1>8, <2>2, <2>3 DEF CollectAnswered
    <3>2. demo.at \in {"off", "idle", "listing", "passing"} /\ Trying
      BY DEF Typed, ClientsTypeOK
    <3>3. QED
      BY <1>3, <1>4, <2>1, <2>2, <3>1, <3>2 DEF Trying
  <2>4. CASE ~Final(mine.code)
    <3>1. demo' = [at |-> "idle", due |-> <<>>, finished |-> demo.finished,
                   attempts |-> demo.attempts]
      BY <1>3, <1>8, <2>2, <2>4 DEF CollectAnswered
    <3>2. <<>> \in Seq(Ids) /\ DOMAIN <<>> = {}
      OBVIOUS
    <3>3. \A id \in Ids : demo.attempts[id] < MaxAttempts \/ id \in demo.finished
      BY DEF Typed, Trying
    <3>4. QED
      BY <1>3, <1>4, <2>1, <3>1, <3>2, <3>3
  <2>5. QED
    BY <2>3, <2>4
<1>9. CASE CollectBroke
  <2>1. PICK id, tries : id = call["demo"].id /\ tries = demo.attempts[id] + 1
    OBVIOUS
  <2>2. /\ call' \in [TheClients -> Calls] /\ call'["cli"] = call["cli"]
        /\ call'["demo"].at = "none"
    BY <1>1, <1>9 DEF CollectBroke
  <2>3. id \in Ids /\ demo.attempts[id] < MaxAttempts /\ tries \in 0..MaxAttempts
    <3>1. id \in Ids /\ demo.attempts[id] < MaxAttempts
      BY <1>9, <2>1 DEF CollectBroke, Typed, Trying
    <3>2. QED
      BY <1>3, <2>1, <3>1, ClientsAssumption
  <2>4. PICK finished, attempts :
          /\ finished = IF tries >= MaxAttempts THEN demo.finished \cup {id} ELSE demo.finished
          /\ attempts = [demo.attempts EXCEPT ![id] = tries]
    OBVIOUS
  <2>5. demo' = [at |-> "idle", due |-> <<>>, finished |-> finished, attempts |-> attempts]
    BY <1>3, <1>9, <2>1, <2>4 DEF CollectBroke
  <2>6. attempts \in [Ids -> 0..MaxAttempts] /\ finished \in SUBSET Ids
    BY <1>3, <2>3, <2>4
  <2>7. \A x \in Ids : attempts[x] < MaxAttempts \/ x \in finished
    BY <1>3, <2>3, <2>4, ClientsAssumption DEF Typed, Trying
  <2>8. <<>> \in Seq(Ids) /\ DOMAIN <<>> = {}
    OBVIOUS
  <2>9. QED
    BY <1>4, <2>2, <2>5, <2>6, <2>7, <2>8
<1>10. QED
  BY <1>5, <1>6, <1>7, <1>8, <1>9 DEF DemoStep

\* What the answer about a request leads to.
LEMMA WayTyped ==
  ASSUME Typed, NEW id \in Ids, NEW s, cli.at = "asking", GoOn(id, s)
  PROVE  /\ call' \in [TheClients -> Calls] /\ call'["demo"] = call["demo"]
         /\ \E at \in {"polling", "collecting", "exited"}, code \in 0..5 :
              cli' = [at |-> at, id |-> id, code |-> code]
         /\ call'["cli"].at # "none" => call'["cli"].id \in Ids
<1>1. /\ call \in [TheClients -> Calls] /\ "demo" \in TheClients /\ "cli" \in TheClients
      /\ cli = [at |-> cli.at, id |-> cli.id, code |-> cli.code] /\ cli.code \in 0..5
      /\ call["cli"].at # "none" => call["cli"].id \in Ids
  BY DEF Typed, ClientsTypeOK, Calls, TheClients, Trying
<1>2. CASE s = "rejected" /\ cli' = [cli EXCEPT !.at = "exited", !.id = id, !.code = 2] /\ UNCHANGED call
  <2>1. /\ DOMAIN cli = {"at", "id", "code"}
        /\ cli' = [cli EXCEPT !.at = "exited", !.id = id, !.code = 2]
    BY <1>1, <1>2
  <2>a. cli' = [at |-> "exited", id |-> id, code |-> 2]
    BY <2>1
  <2>b. 2 \in 0..5
    OBVIOUS
  <2>2. QED
    BY <1>1, <1>2, <2>a, <2>b
<1>3. CASE s = "awaiting_approval" /\ cli' = [cli EXCEPT !.at = "polling", !.id = id] /\ UNCHANGED call
  BY <1>1, <1>3
<1>4. CASE cli' = [cli EXCEPT !.at = "collecting", !.id = id] /\ Collect(id)
  <2>1. cli' = [at |-> "collecting", id |-> id, code |-> cli.code]
    BY <1>1, <1>4
  <2>2. call' = [call EXCEPT !["cli"] = Call(id, "sent", 0)] /\ Call(id, "sent", 0) \in Calls
    BY <1>4 DEF Collect, Call, Calls
  <2>3. call'["cli"].id = id /\ call'["demo"] = call["demo"] /\ call' \in [TheClients -> Calls]
    BY <1>1, <2>2 DEF Call
  <2>4. QED
    BY <1>1, <2>1, <2>3
<1>5. QED
  BY <1>2, <1>3, <1>4 DEF GoOn

LEMMA CliTyped ==
  ASSUME Typed, CliStep
  PROVE  Typed'
<1>1. /\ call \in [TheClients -> Calls] /\ "demo" \in TheClients /\ "cli" \in TheClients
      /\ NoCall \in Calls /\ NoCall.at = "none"
      /\ cli = [at |-> cli.at, id |-> cli.id, code |-> cli.code]
      /\ cli.at \in {"health", "asking", "polling", "collecting", "exited"}
      /\ cli.id \in Ids \cup {0} /\ cli.code \in 0..5
      /\ call["cli"].at # "none" => call["cli"].id \in Ids
      /\ cli.at = "polling" => cli.id \in Ids
  BY DEF Typed, ClientsTypeOK, Calls, TheClients, NoCall, Trying
<1>2. UNCHANGED <<refused, inside, charged, demo>> /\ CheckInv' /\ StartupTypeOK'
  <2>1. UNCHANGED <<refused, inside, charged, demo>> /\ UNCHANGED startupVars
    BY DEF CliStep, CliBreaks, CheckHealth, Poll, GiveUp, CliEnds, CliSubmit, CliPresent, routeVars
  <2>2. QED
    BY <2>1, StartupKept
\* What remains to be shown of a step.
<1>3. ASSUME call' \in [TheClients -> Calls], call'["demo"] = call["demo"],
             call'["cli"].at # "none" => call'["cli"].id \in Ids,
             NEW at \in {"health", "asking", "polling", "collecting", "exited"},
             NEW id \in Ids \cup {0}, NEW code \in 0..5,
             cli' = [at |-> at, id |-> id, code |-> code], at = "polling" => id \in Ids,
             status' \in [Ids -> {"none", "awaiting_approval", "payment_required", "rejected",
                                 "fulfilled", "failed"}]
      PROVE  Typed'
  <2>1. cli'.at = at /\ cli'.id = id /\ cli'.code = code
    BY <1>3
  <2>2. Trying'
    BY <1>2, <1>3 DEF Trying, Typed
  <2>3. ClientsTypeOK'
    BY <1>2, <1>3, <2>1 DEF ClientsTypeOK, Typed, Calls
  <2>4. QED
    BY <1>2, <1>3, <2>1, <2>2, <2>3 DEF Typed
<1>4. /\ status \in [Ids -> {"none", "awaiting_approval", "payment_required", "rejected",
                             "fulfilled", "failed"}]
      /\ {0, 1, 2, 3, 4, 5} \subseteq 0..5
  BY DEF Typed, ClientsTypeOK
<1>5. CASE UNCHANGED <<status, call>> /\ \E code \in {1, 2, 3} : Exit(code)
  BY <1>1, <1>3, <1>4, <1>5 DEF Exit
<1>6. CASE CliBreaks
  BY <1>5, <1>6 DEF CliBreaks, routeVars
<1>7. CASE CheckHealth
  BY <1>1, <1>3, <1>4, <1>7 DEF CheckHealth, routeVars
<1>8. CASE GiveUp
  BY <1>5, <1>8 DEF GiveUp, routeVars
<1>9. CASE Poll
  <2>1. UNCHANGED status
    BY <1>9 DEF Poll, routeVars
  <2>2. CASE Exit(2) /\ UNCHANGED call
    BY <1>5, <2>1, <2>2
  <2>3. CASE UNCHANGED <<cli, call>>
    BY <1>1, <1>3, <1>4, <2>1, <2>3
  <2>4. CASE cli' = [cli EXCEPT !.at = "collecting"] /\ Collect(cli.id)
    <3>1. cli.id \in Ids
      BY <1>9 DEF Poll, Typed, Trying
    <3>2. cli' = [at |-> "collecting", id |-> cli.id, code |-> cli.code]
      BY <1>1, <2>4
    <3>3. call' = [call EXCEPT !["cli"] = Call(cli.id, "sent", 0)] /\ Call(cli.id, "sent", 0) \in Calls
      BY <2>4, <3>1 DEF Collect, Call, Calls
    <3>4. call'["cli"].id = cli.id /\ call'["demo"] = call["demo"] /\ call' \in [TheClients -> Calls]
      BY <1>1, <3>3 DEF Call
    <3>5. QED
      BY <1>1, <1>3, <1>4, <2>1, <3>1, <3>2, <3>4
  <2>5. QED
    BY <1>9, <2>2, <2>3, <2>4 DEF Poll
<1>10. CASE CliEnds
  <2>1. /\ call' \in [TheClients -> Calls] /\ call'["demo"] = call["demo"]
        /\ call'["cli"].at = "none" /\ UNCHANGED status
    BY <1>1, <1>10 DEF CliEnds, routeVars
  <2>2. PICK code \in {0, 1, 4, 5} : Exit(code)
    BY <1>10 DEF CliEnds, ExitFor
  <2>3. cli' = [at |-> "exited", id |-> cli.id, code |-> code]
    BY <1>1, <2>2 DEF Exit
  <2>4. QED
    BY <1>1, <1>3, <1>4, <2>1, <2>3
<1>11. ASSUME NEW s \in {"awaiting_approval", "payment_required", "rejected"}, CliSubmit(s)
       PROVE  Typed'
  <2>1. NextId \in Ids /\ cli.at = "asking" /\ GoOn(NextId, s)
    BY <1>11 DEF CliSubmit
  <2>2. status' \in [Ids -> {"none", "awaiting_approval", "payment_required", "rejected",
                             "fulfilled", "failed"}]
    BY <1>4, <1>11, <2>1 DEF CliSubmit, Stored
  <2>3. QED
    BY <1>3, <2>1, <2>2, WayTyped
<1>12. ASSUME NEW id \in Ids, CliPresent(id) PROVE Typed'
  <2>1. UNCHANGED status /\ cli.at = "asking"
    BY <1>12 DEF CliPresent, routeVars
  <2>2. CASE GoOn(id, status[id])
    BY <1>3, <1>4, <2>1, <2>2, WayTyped
  <2>3. CASE Exit(1) /\ UNCHANGED call
    BY <1>5, <2>1, <2>3
  <2>4. QED
    BY <1>12, <2>2, <2>3 DEF CliPresent
<1>13. QED
  BY <1>6, <1>7, <1>8, <1>9, <1>10, <1>11, <1>12 DEF CliStep

LEMMA TypedNext == Typed /\ [ClientsNext]_clientVars => Typed'
<1> SUFFICES ASSUME Typed, [ClientsNext]_clientVars PROVE Typed'
  OBVIOUS
<1>1. ASSUME [StartupNext]_startupVars, UNCHANGED <<routeVars, call, lost, demo, cli>>
      PROVE  Typed'
  <2>1. CheckInv'
    BY <1>1, CheckGoesOn DEF Typed
  <2>2. QED
    BY <1>1, <2>1 DEF Typed, CheckInv, ClientsTypeOK, Trying, routeVars
<1>2. CASE UNCHANGED clientVars
  BY <1>1, <1>2 DEF clientVars
<1>3. QED
  BY <1>1, <1>2, RouteTyped, DemoTyped, CliTyped DEF ClientsNext

\* Ids are given in order, a request that is being collected can still be
\* collected, and one that was charged for was charged once and is fulfilled.
RouteInv ==
  /\ \E n \in 0..MaxRequests : Known = 1..n
  /\ \A id \in Ids, c \in TheClients :
       <<id, c>> \in inside => status[id] \in {"payment_required", "failed"}
  /\ \A id \in Ids : ~(<<id, "demo">> \in inside /\ <<id, "cli">> \in inside)
  /\ \A id \in Ids : charged[id] \in {<<>>, <<"demo">>, <<"cli">>}
  /\ \A id \in Ids : charged[id] # <<>> => status[id] = "fulfilled"

\* A new request is not on record yet.
LEMMA NextIdIsNew ==
  ASSUME Typed, RouteInv, NextId \in Ids
  PROVE  status[NextId] = "none" /\ \E n \in 0..MaxRequests : Known = 1..n /\ NextId = n + 1
<1>1. PICK n \in 0..MaxRequests : Known = 1..n
  BY DEF RouteInv
<1>2. n \in Nat /\ MaxRequests \in Nat
  BY ClientsAssumption
<1>3. Cardinality(1..n) = n
  BY <1>2, FS_Interval
<1>4. NextId = n + 1
  BY <1>1, <1>3 DEF NextId
<1>5. NextId \notin Known
  BY <1>1, <1>2, <1>4
<1>6. QED
  BY <1>1, <1>4, <1>5 DEF Known

LEMMA StoredKeepsRoute ==
  ASSUME Typed, RouteInv, NextId \in Ids,
         NEW s \in {"awaiting_approval", "payment_required", "rejected"},
         Stored(NextId, s), UNCHANGED <<inside, charged>>
  PROVE  /\ RouteInv'
         /\ \A id \in Ids : status[id] # "none" => status'[id] = status[id]
         /\ charged[NextId] = <<>> /\ \A c \in TheClients : <<NextId, c>> \notin inside
<1>1. PICK n \in 0..MaxRequests : Known = 1..n /\ NextId = n + 1
  BY NextIdIsNew
<1>2. PICK new \in Ids : new = NextId /\ status[new] = "none"
  BY NextIdIsNew
<1>3. /\ status \in [Ids -> {"none", "awaiting_approval", "payment_required", "rejected",
                             "fulfilled", "failed"}]
      /\ status' = [status EXCEPT ![new] = s]
  BY <1>2 DEF Stored, Typed, ClientsTypeOK
<1>4. n + 1 \in 0..MaxRequests /\ 1..(n + 1) = 1..n \cup {n + 1} /\ n \in Nat
  BY <1>1, <1>2, ClientsAssumption DEF Ids
<1>5. Known' = Known \cup {new}
  BY <1>3 DEF Known
<1>6. Known' = 1..(n + 1)
  BY <1>1, <1>2, <1>4, <1>5
<1>7. charged[new] = <<>> /\ \A c \in TheClients : <<new, c>> \notin inside
  BY <1>2 DEF RouteInv
<1>8. \A id \in Ids : status[id] # "none" => status'[id] = status[id]
  BY <1>2, <1>3
<1>9. RouteInv'
  BY <1>3, <1>4, <1>6, <1>7 DEF RouteInv
<1>10. QED
  BY <1>2, <1>7, <1>8, <1>9

\* What is on record stays on record when its status changes.
LEMMA KnownStays ==
  ASSUME Typed, RouteInv, NEW id \in Ids, status[id] # "none", NEW s, s # "none",
         status' = [status EXCEPT ![id] = s]
  PROVE  \E n \in 0..MaxRequests : Known' = 1..n
<1>1. Known' = Known
  BY DEF Known, Typed, ClientsTypeOK
<1>2. QED
  BY <1>1 DEF RouteInv

LEMMA KeepsRoute ==
  ASSUME RouteInv, UNCHANGED <<status, inside, charged>>
  PROVE  RouteInv'
BY DEF RouteInv, Known

LEMMA DecideKeepsRoute ==
  ASSUME Typed, RouteInv, NEW id \in Ids, NEW s \in {"payment_required", "rejected"},
         DecideApproval(id, s)
  PROVE  /\ RouteInv' /\ charged[id] = <<>>
         /\ \A x \in Ids : status[x] \in {"rejected", "fulfilled"} => status'[x] = status[x]
<1>1. /\ status' = [status EXCEPT ![id] = s] /\ status[id] = "awaiting_approval"
      /\ UNCHANGED <<inside, charged>>
  BY DEF DecideApproval
<1>2. \E n \in 0..MaxRequests : Known' = 1..n
  BY <1>1, KnownStays
<1>3. charged[id] = <<>> /\ \A c \in TheClients : <<id, c>> \notin inside
  BY <1>1 DEF RouteInv
<1>4. \A x \in Ids : x # id => status'[x] = status[x]
  BY <1>1 DEF Typed, ClientsTypeOK
<1>5. QED
  BY <1>1, <1>2, <1>3, <1>4 DEF RouteInv

\* data.ts:77-89.  A collection begins only when there is none.
LEMMA ArriveKeepsRoute ==
  ASSUME Typed, RouteInv, NEW c \in TheClients, Arrive(c)
  PROVE  RouteInv'
<1>1. CASE UNCHANGED <<status, inside, charged>>
  BY <1>1, KeepsRoute
<1>2. CASE /\ Collectable(call[c].id) /\ inside' = inside \cup {<<call[c].id, c>>}
           /\ UNCHANGED <<status, charged>>
  <2>1. PICK id : id = call[c].id
    OBVIOUS
  <2>2. /\ status[id] \in {"payment_required", "failed"}
        /\ \A d \in TheClients : <<id, d>> \notin inside
    BY <1>2, <2>1 DEF Collectable
  <2>3. \A x, d : <<x, d>> \in inside' <=> <<x, d>> \in inside \/ (x = id /\ d = c)
    BY <1>2, <2>1
  <2>4. "demo" \in TheClients /\ "cli" \in TheClients /\ "demo" # "cli"
    BY DEF TheClients
  <2>5. Known' = Known
    BY <1>2 DEF Known
  <2>6. QED
    BY <1>2, <2>2, <2>3, <2>4, <2>5 DEF RouteInv
<1>3. QED
  BY <1>1, <1>2 DEF Arrive, routeVars

\* data.ts:199-207, 237-284.  A fare is taken when its collection ends well.
LEMMA ServeKeepsRoute ==
  ASSUME Typed, RouteInv, NEW id \in Ids, NEW c \in TheClients, NEW ok \in BOOLEAN,
         Serve(id, c, ok)
  PROVE  /\ RouteInv'
         /\ charged' = IF ok THEN [charged EXCEPT ![id] = <<c>>] ELSE charged
         /\ \A x \in Ids : status[x] \in {"rejected", "fulfilled"} => status'[x] = status[x]
<1>1. /\ <<id, c>> \in inside /\ inside' = inside \ {<<id, c>>}
      /\ status' = [status EXCEPT ![id] = IF ok THEN "fulfilled" ELSE "failed"]
      /\ charged' = IF ok THEN [charged EXCEPT ![id] = Append(@, c)] ELSE charged
  BY DEF Serve
<1>2. /\ status[id] \in {"payment_required", "failed"} /\ charged[id] = <<>>
      /\ \A d \in TheClients : d # c => <<id, d>> \notin inside
  BY <1>1 DEF RouteInv, TheClients
<1>3. Append(<<>>, c) = <<c>>
  OBVIOUS
<1>4. charged' = IF ok THEN [charged EXCEPT ![id] = <<c>>] ELSE charged
  BY <1>1, <1>2, <1>3
<1>5. charged \in [Ids -> Seq(TheClients)]
  BY DEF Typed, ClientsTypeOK
<1>6. /\ \A x \in Ids : x # id => status'[x] = status[x] /\ charged'[x] = charged[x]
      /\ status'[id] = IF ok THEN "fulfilled" ELSE "failed"
      /\ charged'[id] = IF ok THEN <<c>> ELSE <<>>
  BY <1>1, <1>2, <1>4, <1>5 DEF Typed, ClientsTypeOK
<1>7. \A d \in TheClients : <<id, d>> \notin inside'
  BY <1>1, <1>2
<1>8. \E n \in 0..MaxRequests : Known' = 1..n
  BY <1>1, <1>2, KnownStays
<1>9. <<c>> \in {<<"demo">>, <<"cli">>}
  BY DEF TheClients
<1>10. RouteInv'
  <2>1. \A x \in Ids, d \in TheClients :
          <<x, d>> \in inside' => status'[x] \in {"payment_required", "failed"}
    BY <1>1, <1>6, <1>7 DEF RouteInv
  <2>2. \A x \in Ids : ~(<<x, "demo">> \in inside' /\ <<x, "cli">> \in inside')
    BY <1>1 DEF RouteInv
  <2>3. \A x \in Ids : charged'[x] \in {<<>>, <<"demo">>, <<"cli">>}
    BY <1>6, <1>9 DEF RouteInv
  <2>4. \A x \in Ids : charged'[x] # <<>> => status'[x] = "fulfilled"
    BY <1>6 DEF RouteInv
  <2>5. QED
    BY <1>8, <2>1, <2>2, <2>3, <2>4 DEF RouteInv
<1>11. QED
  BY <1>2, <1>4, <1>6, <1>10

\* data.ts:237-284.  With nobody there to see it fail, no fare is taken.
LEMMA UnheardKeepsRoute ==
  ASSUME Typed, RouteInv, NEW id \in Ids, NEW c \in TheClients, Unheard(id, c)
  PROVE  /\ RouteInv'
         /\ \A x \in Ids : status[x] \in {"rejected", "fulfilled"} => status'[x] = status[x]
<1>1. /\ <<id, c>> \in inside /\ inside' = inside \ {<<id, c>>} /\ charged' = charged
      /\ status' = [status EXCEPT ![id] = "fulfilled"]
  BY DEF Unheard
<1>2. /\ status[id] \in {"payment_required", "failed"}
      /\ \A d \in TheClients : <<id, d>> \notin inside'
  BY <1>1 DEF RouteInv, TheClients
<1>3. /\ \A x \in Ids : x # id => status'[x] = status[x]
      /\ status'[id] = "fulfilled"
  BY <1>1 DEF Typed, ClientsTypeOK
<1>4. \E n \in 0..MaxRequests : Known' = 1..n
  BY <1>1, <1>2, KnownStays
<1>5. /\ \A x \in Ids, d \in TheClients :
           <<x, d>> \in inside' => status'[x] \in {"payment_required", "failed"}
      /\ \A x \in Ids : charged'[x] # <<>> => status'[x] = "fulfilled"
  BY <1>1, <1>2, <1>3 DEF RouteInv
<1>6. RouteInv'
  BY <1>1, <1>4, <1>5 DEF RouteInv
<1>7. QED
  BY <1>2, <1>3, <1>6

LEMMA RouteKept == Typed /\ RouteInv /\ [ClientsNext]_clientVars => RouteInv'
<1> SUFFICES ASSUME Typed, RouteInv, [ClientsNext]_clientVars PROVE RouteInv'
  OBVIOUS
<1>1. CASE UNCHANGED <<status, inside, charged>>
  BY <1>1, KeepsRoute
<1>2. CASE DemoStep
  <2>1. UNCHANGED <<status, inside, charged>>
    BY <1>2 DEF DemoStep, Tick, ListAnswered, CollectNext, CollectAnswered, CollectBroke, routeVars
  <2>2. QED
    BY <1>1, <2>1
<1>3. ASSUME NEW s \in {"awaiting_approval", "payment_required", "rejected"}, CliSubmit(s)
      PROVE  RouteInv'
  BY <1>3, StoredKeepsRoute DEF CliSubmit
<1>4. CASE CliBreaks \/ CheckHealth \/ Poll \/ GiveUp \/ CliEnds \/ \E id \in Ids : CliPresent(id)
  <2>1. UNCHANGED <<status, inside, charged>>
    BY <1>4 DEF CliBreaks, CheckHealth, Poll, GiveUp, CliEnds, CliPresent, routeVars
  <2>2. QED
    BY <1>1, <2>1
<1>5. ASSUME NEW s \in {"awaiting_approval", "payment_required", "rejected"}, SubmitElsewhere(s)
      PROVE  RouteInv'
  BY <1>5, StoredKeepsRoute DEF SubmitElsewhere
<1>6. ASSUME NEW c \in TheClients, Lose(c) PROVE RouteInv'
  BY <1>1, <1>6 DEF Lose, routeVars
<1>7. CASE RouteStep
  BY <1>5, <1>6, <1>7, DecideKeepsRoute, ArriveKeepsRoute, ServeKeepsRoute,
     UnheardKeepsRoute DEF RouteStep
<1>8. QED
  BY <1>1, <1>2, <1>3, <1>4, <1>7 DEF ClientsNext, CliStep, clientVars, routeVars

\* The demo agent has called, and has been paid for, only if it was started.
DemoInv ==
  /\ demo.at # "off" => startDemoAgent
  /\ call["demo"].at # "none" => startDemoAgent
  /\ \A id \in Ids :
       <<id, "demo">> \in inside \/ charged[id] = <<"demo">> => startDemoAgent

LEMMA DemoKept == Typed /\ RouteInv /\ DemoInv /\ [ClientsNext]_clientVars => DemoInv'
<1> SUFFICES ASSUME Typed, RouteInv, DemoInv, [ClientsNext]_clientVars PROVE DemoInv'
  OBVIOUS
<1>1. startDemoAgent' = startDemoAgent
  <2>1. [StartupNext]_startupVars
    BY DEF ClientsNext, RouteStep, SubmitElsewhere, DecideApproval, Arrive, Lose, Serve,
           Unheard, DemoStep, Tick, ListAnswered, CollectNext, CollectAnswered, CollectBroke,
           CliStep, CliBreaks, CheckHealth, CliSubmit, CliPresent, Poll, GiveUp, CliEnds,
           clientVars
  <2>2. QED
    BY <2>1, SettingsStay
<1>2. CASE startDemoAgent
  BY <1>1, <1>2 DEF DemoInv
\* It was not: nothing of it is there, and no step brings it about.
<1>3. CASE ~startDemoAgent
  <2>1. /\ demo.at = "off" /\ call["demo"].at = "none"
        /\ \A id \in Ids : <<id, "demo">> \notin inside /\ charged[id] # <<"demo">>
    BY <1>3 DEF DemoInv
  <2>2. ~DemoStep
    BY <2>1 DEF DemoStep, Tick, ListAnswered, CollectNext, CollectAnswered, CollectBroke
  <2>3. call \in [TheClients -> Calls] /\ "demo" \in TheClients /\ "cli" \in TheClients
    BY DEF Typed, ClientsTypeOK, Calls, TheClients
  <2>4. UNCHANGED demo
    BY <2>2 DEF ClientsNext, RouteStep, SubmitElsewhere, DecideApproval, Arrive, Lose, Serve,
                Unheard, CliStep, CliBreaks, CheckHealth, CliSubmit, CliPresent, Poll, GiveUp, CliEnds,
                clientVars
  \* What remains to be shown of a step.
  <2>5. ASSUME call'["demo"].at = "none",
               \A id \in Ids : <<id, "demo">> \notin inside' /\ charged'[id] # <<"demo">>
        PROVE  DemoInv'
    BY <2>1, <2>4, <2>5 DEF DemoInv
  <2>6. CASE CliStep
    <3>1. UNCHANGED <<inside, charged>>
      BY <2>6 DEF CliStep, CliBreaks, CheckHealth, CliSubmit, CliPresent, Poll, GiveUp, CliEnds,
                  routeVars
    <3>2. call'["demo"] = call["demo"]
      BY <2>3, <2>6 DEF CliStep, CliBreaks, CheckHealth, CliSubmit, CliPresent, Poll, GiveUp,
                        CliEnds, GoOn, Collect
    <3>3. QED
      BY <2>1, <2>5, <3>1, <3>2
  <2>7. ASSUME NEW c \in TheClients, Arrive(c) PROVE DemoInv'
    <3>1. c = "cli" /\ c # "demo"
      BY <2>1, <2>7 DEF Arrive, TheClients
    <3>2. call'["demo"] = call["demo"] /\ UNCHANGED charged
      BY <2>3, <2>7, <3>1 DEF Arrive, Answer, routeVars
    <3>3. UNCHANGED inside \/ inside' = inside \cup {<<call[c].id, c>>}
      BY <2>7 DEF Arrive, routeVars
    <3>4. \A id \in Ids : <<id, "demo">> \notin inside'
      <4>1. ASSUME NEW id \in Ids PROVE <<id, "demo">> # <<call[c].id, c>>
        BY <3>1
      <4>2. QED
        BY <2>1, <3>3, <4>1
    <3>5. QED
      BY <2>1, <2>5, <3>2, <3>4
  <2>8. ASSUME NEW c \in TheClients, Lose(c) PROVE DemoInv'
    <3>1. c # "demo"
      BY <2>1, <2>8 DEF Lose
    <3>2. call'["demo"] = call["demo"] /\ UNCHANGED <<inside, charged>>
      BY <2>3, <2>8, <3>1 DEF Lose, routeVars
    <3>3. QED
      BY <2>1, <2>5, <3>2
  <2>9. ASSUME NEW id \in Ids, NEW c \in TheClients, NEW ok \in BOOLEAN, Serve(id, c, ok)
        PROVE  DemoInv'
    <3>1. c = "cli" /\ c # "demo" /\ <<c>> # <<"demo">>
      BY <2>1, <2>9 DEF Serve, TheClients
    <3>2. call'["demo"] = call["demo"]
      BY <2>3, <2>9, <3>1 DEF Serve, Answer
    <3>3. charged' = IF ok THEN [charged EXCEPT ![id] = <<c>>] ELSE charged
      BY <2>9, ServeKeepsRoute
    <3>4. \A x \in Ids : charged'[x] # <<"demo">>
      BY <2>1, <3>1, <3>3 DEF Typed, ClientsTypeOK
    <3>5. \A x \in Ids : <<x, "demo">> \notin inside'
      BY <2>1, <2>9 DEF Serve
    <3>6. QED
      BY <2>1, <2>5, <3>2, <3>4, <3>5
  <2>10. CASE UNCHANGED <<call, charged>> /\ inside' \subseteq inside
    BY <2>1, <2>5, <2>10
  <2>a. ASSUME NEW id \in Ids, NEW c \in TheClients, Unheard(id, c) PROVE DemoInv'
    BY <2>10, <2>a DEF Unheard
  <2>11. QED
    BY <2>2, <2>6, <2>7, <2>8, <2>9, <2>10, <2>a
       DEF ClientsNext, RouteStep, SubmitElsewhere, DecideApproval, clientVars, routeVars
<1>4. QED
  BY <1>2, <1>3

\* What the command line leaves behind, while it collects and after it ended: a
\* collection or a fare of its own is of its request, and its exit code is
\* the last answer it was given.
CliInv ==
  LET mine == call["cli"] IN
  /\ cli.at # "collecting" => mine.at = "none"
  /\ cli.at = "collecting" => mine.at # "none" /\ mine.id = cli.id
  /\ cli.at \in {"polling", "collecting"} => cli.id \in Ids
  /\ \A id \in Ids : <<id, "cli">> \in inside =>
       /\ cli.id = id
       /\ \/ cli.at = "collecting" /\ mine.at \in {"inside", "broken"}
          \/ cli.at = "exited" /\ cli.code = 1
  /\ \A id \in Ids : charged[id] = <<"cli">> =>
       /\ cli.id = id
       /\ \/ cli.at = "collecting" /\ mine.at = "broken"
          \/ cli.at = "collecting" /\ mine.at = "answered" /\ mine.code = 200
          \/ cli.at = "exited" /\ cli.code \in {0, 1}
  /\ cli.at = "collecting" /\ mine.at = "answered" /\ mine.code = 200 =>
       charged[cli.id] = <<"cli">>
  /\ cli.at = "exited" /\ cli.code = 0 => cli.id \in Ids /\ charged[cli.id] = <<"cli">>
  /\ cli.at = "exited" /\ cli.code = 2 => cli.id \in Ids /\ status[cli.id] = "rejected"
  /\ cli.at = "exited" /\ cli.code \in 3..5 => cli.id \in Ids

\* Whatever is not the command line's own leaves that as it is.
LEMMA OthersKeepCli ==
  ASSUME CliInv, UNCHANGED cli, call'["cli"] = call["cli"],
         \A id \in Ids : /\ <<id, "cli">> \in inside' => <<id, "cli">> \in inside
                         /\ charged'[id] = <<"cli">> <=> charged[id] = <<"cli">>
                         /\ status[id] = "rejected" => status'[id] = "rejected"
  PROVE  CliInv'
<1> USE DEF CliInv
<1>1. \A id \in Ids : <<id, "cli">> \in inside' =>
        /\ cli'.id = id
        /\ \/ cli'.at = "collecting" /\ call'["cli"].at \in {"inside", "broken"}
           \/ cli'.at = "exited" /\ cli'.code = 1
  OBVIOUS
<1>2. \A id \in Ids : charged'[id] = <<"cli">> =>
        /\ cli'.id = id
        /\ \/ cli'.at = "collecting" /\ call'["cli"].at = "broken"
           \/ cli'.at = "collecting" /\ call'["cli"].at = "answered" /\ call'["cli"].code = 200
           \/ cli'.at = "exited" /\ cli'.code \in {0, 1}
  OBVIOUS
<1>3. /\ cli'.at = "collecting" /\ call'["cli"].at = "answered" /\ call'["cli"].code = 200 =>
           charged'[cli'.id] = <<"cli">>
      /\ cli'.at = "exited" /\ cli'.code = 0 => cli'.id \in Ids /\ charged'[cli'.id] = <<"cli">>
  OBVIOUS
<1>4. cli'.at = "exited" /\ cli'.code = 2 => cli'.id \in Ids /\ status'[cli'.id] = "rejected"
  OBVIOUS
<1>5. QED
  BY <1>1, <1>2, <1>3, <1>4

LEMMA OutsideKeepsCli ==
  ASSUME CliInv, UNCHANGED <<cli, inside, charged, status>>, call'["cli"] = call["cli"]
  PROVE  CliInv'
<1>1. inside' = inside /\ charged' = charged /\ status' = status /\ cli' = cli
  OBVIOUS
<1>2. QED
  BY <1>1 DEF CliInv

LEMMA RouteKeepsCli ==
  ASSUME Typed, RouteInv, CliInv, RouteStep
  PROVE  CliInv'
<1>1. /\ call \in [TheClients -> Calls] /\ "demo" \in TheClients /\ "cli" \in TheClients
      /\ charged \in [Ids -> Seq(TheClients)] /\ "demo" # "cli"
  BY DEF Typed, ClientsTypeOK, Calls, TheClients
<1>2. ASSUME NEW s \in {"awaiting_approval", "payment_required", "rejected"}, SubmitElsewhere(s)
      PROVE  CliInv'
  <2>1. \A id \in Ids : status[id] # "none" => status'[id] = status[id]
    BY <1>2, StoredKeepsRoute DEF SubmitElsewhere
  <2>2. QED
    BY <1>2, <2>1, OthersKeepCli DEF SubmitElsewhere
<1>3. ASSUME NEW id \in Ids, NEW s \in {"payment_required", "rejected"}, DecideApproval(id, s)
      PROVE  CliInv'
  <2>1. \A x \in Ids : status[x] = "rejected" => status'[x] = "rejected"
    BY <1>3, DecideKeepsRoute
  <2>2. QED
    BY <1>3, <2>1, OthersKeepCli DEF DecideApproval
<1>4. ASSUME NEW c \in TheClients, c # "cli", Arrive(c) PROVE CliInv'
  <2>1. call'["cli"] = call["cli"] /\ UNCHANGED <<charged, status, cli>>
    BY <1>1, <1>4 DEF Arrive, Answer, routeVars
  <2>2. UNCHANGED inside \/ inside' = inside \cup {<<call[c].id, c>>}
    BY <1>4 DEF Arrive, routeVars
  <2>3. \A x \in Ids : <<x, "cli">> \in inside' => <<x, "cli">> \in inside
    BY <1>4, <2>2
  <2>4. QED
    BY <2>1, <2>3, OthersKeepCli
<1>5. CASE Arrive("cli")
  <2>1. /\ call["cli"].at = "sent" /\ cli.at = "collecting" /\ call["cli"].id = cli.id
        /\ cli.id \in Ids /\ UNCHANGED <<cli, charged, status>>
        /\ \A x \in Ids : <<x, "cli">> \notin inside /\ charged[x] # <<"cli">>
    BY <1>5 DEF Arrive, CliInv, routeVars
  <2>2. ASSUME NEW code \in {503, 409, 403, 402}, Answer("cli", code), UNCHANGED inside
        PROVE  CliInv'
    <3>1. call'["cli"] = [id |-> cli.id, at |-> "answered", code |-> code] /\ code # 200
      BY <1>1, <2>1, <2>2, AnswerTyped
    <3>2. QED
      BY <2>1, <2>2, <3>1 DEF CliInv
  <2>3. CASE /\ call' = [call EXCEPT !["cli"].at = "inside"]
             /\ inside' = inside \cup {<<call["cli"].id, "cli">>}
    <3>1. call'["cli"].id = cli.id /\ call'["cli"].at = "inside"
      BY <1>1, <2>1, <2>3 DEF Calls
    <3>2. \A x \in Ids : <<x, "cli">> \in inside' => x = cli.id
      BY <2>1, <2>3
    <3>3. QED
      BY <2>1, <3>1, <3>2 DEF CliInv
  <2>4. QED
    BY <1>5, <2>2, <2>3 DEF Arrive, routeVars
<1>6. ASSUME NEW c \in TheClients, c # "cli", Lose(c) PROVE CliInv'
  BY <1>1, <1>6, OthersKeepCli DEF Lose, routeVars
<1>7. CASE Lose("cli")
  <2>1. /\ call'["cli"].id = call["cli"].id /\ call'["cli"].at = "broken"
        /\ call["cli"].at # "none" /\ UNCHANGED <<cli, charged, status, inside>>
    BY <1>1, <1>7 DEF Lose, Calls, routeVars
  <2>2. QED
    BY <2>1 DEF CliInv
<1>8. ASSUME NEW id \in Ids, NEW c \in TheClients, NEW ok \in BOOLEAN, Serve(id, c, ok)
      PROVE  CliInv'
  <2>1. /\ charged' = IF ok THEN [charged EXCEPT ![id] = <<c>>] ELSE charged
        /\ \A x \in Ids : status[x] \in {"rejected", "fulfilled"} => status'[x] = status[x]
    BY <1>8, ServeKeepsRoute
  <2>2. charged[id] = <<>> /\ <<id, c>> \in inside /\ UNCHANGED cli
    BY <1>8 DEF Serve, RouteInv
  <2>3. /\ \A x \in Ids : x # id => charged'[x] = charged[x]
        /\ charged'[id] = IF ok THEN <<c>> ELSE <<>>
    BY <1>1, <2>1, <2>2
  <2>4. \A x, d : <<x, d>> \in inside' <=> <<x, d>> \in inside /\ ~(x = id /\ d = c)
    BY <1>8 DEF Serve
  <2>5. CASE c # "cli"
    <3>1. call'["cli"] = call["cli"]
      BY <1>1, <1>8, <2>5 DEF Serve, Answer
    <3>2. <<c>> # <<"cli">> /\ <<>> # <<"cli">>
      BY <2>5
    <3>3. \A x \in Ids : charged'[x] = <<"cli">> <=> charged[x] = <<"cli">>
      BY <2>2, <2>3, <3>2
    <3>4. QED
      BY <2>1, <2>2, <2>4, <3>1, <3>3, OthersKeepCli
  <2>6. CASE c = "cli"
    <3>1. /\ cli.id = id /\ \A x \in Ids : charged[x] # <<"cli">> \/ x = id
          /\ \/ cli.at = "collecting" /\ call["cli"].at \in {"inside", "broken"}
             \/ cli.at = "exited" /\ cli.code = 1
      BY <2>2, <2>6 DEF CliInv
    <3>2. \A x \in Ids : <<x, "cli">> \notin inside'
      BY <2>4, <2>6, <3>1 DEF CliInv
    <3>a. \A x \in Ids : charged'[x] = <<"cli">> <=> (x = id /\ ok)
      <4>1. <<>> # <<"cli">>
        OBVIOUS
      <4>2. QED
        BY <2>3, <2>6, <3>1, <4>1
    <3>3. CASE cli.at = "collecting" /\ call["cli"].at = "inside"
      <4>1. call["cli"].id = id
        BY <3>1, <3>3 DEF CliInv
      <4>2. PICK code \in {200, 502} : Answer("cli", code) /\ (code = 200 <=> ok)
        BY <1>8, <2>6, <3>3, <4>1 DEF Serve
      <4>3. call'["cli"] = [id |-> id, at |-> "answered", code |-> code]
        BY <1>1, <4>1, <4>2, AnswerTyped
      <4>4. /\ call'["cli"].id = id /\ call'["cli"].at = "answered"
            /\ (call'["cli"].code = 200 <=> ok)
        BY <4>2, <4>3
      <4>5. cli'.id = id /\ cli'.at = "collecting"
        BY <2>2, <3>1, <3>3
      <4>6. \A x \in Ids : charged'[x] = <<"cli">> => x = id /\ call'["cli"].code = 200
        BY <3>a, <4>4
      <4>7. call'["cli"].code = 200 => charged'[id] = <<"cli">>
        BY <3>a, <4>4
      <4>8. QED
        BY <3>2, <4>4, <4>5, <4>6, <4>7 DEF CliInv
    <3>4. CASE call["cli"].at # "inside"
      <4>1. UNCHANGED call
        BY <1>8, <2>6, <3>4 DEF Serve
      <4>2. CASE cli.at = "collecting" /\ call["cli"].at = "broken"
        BY <2>2, <3>1, <3>2, <3>a, <4>1, <4>2 DEF CliInv
      <4>3. CASE cli.at = "exited" /\ cli.code = 1
        <5>1. cli'.id = id /\ cli'.at = "exited" /\ cli'.code = 1 /\ call'["cli"].at = "none"
          BY <2>2, <3>1, <4>1, <4>3 DEF CliInv
        <5>2. \A x \in Ids : charged'[x] = <<"cli">> => x = id
          BY <3>a
        <5>3. 1 \notin 3..5 /\ 1 # 0 /\ 1 # 2
          OBVIOUS
        <5>4. QED
          BY <3>2, <5>1, <5>2, <5>3 DEF CliInv
      <4>4. QED
        BY <3>1, <3>4, <4>2, <4>3
    <3>5. QED
      BY <3>1, <3>3, <3>4 DEF CliInv
  <2>7. QED
    BY <2>5, <2>6
<1>9. ASSUME NEW id \in Ids, NEW c \in TheClients, Unheard(id, c) PROVE CliInv'
  <2>1. \A x \in Ids : status[x] = "rejected" => status'[x] = "rejected"
    BY <1>9, UnheardKeepsRoute
  <2>2. inside' \subseteq inside /\ UNCHANGED <<call, charged, cli>>
    BY <1>9 DEF Unheard
  <2>3. QED
    BY <2>1, <2>2, OthersKeepCli
<1>10. QED
  BY <1>2, <1>3, <1>4, <1>5, <1>6, <1>7, <1>8, <1>9 DEF RouteStep

\* Before it collects, nothing of the command line is under way or taken.
LEMMA NothingOfItsOwn ==
  ASSUME CliInv, cli.at \in {"health", "asking", "polling"}
  PROVE  /\ call["cli"].at = "none"
         /\ \A id \in Ids : <<id, "cli">> \notin inside
         /\ \A id \in Ids : charged[id] # <<"cli">>
BY DEF CliInv

\* From there it goes on, begins to collect, or ends without claiming success.
LEMMA GoesOnAsItSays ==
  ASSUME CliInv, cli.at \in {"health", "asking", "polling"}, UNCHANGED <<inside, charged>>,
         NEW at \in {"health", "asking", "polling", "collecting", "exited"}, NEW id, NEW code,
         cli' = [at |-> at, id |-> id, code |-> code],
         at \in {"polling", "collecting"} => id \in Ids,
         at # "collecting" => call'["cli"].at = "none",
         at = "collecting" => call'["cli"].at = "sent" /\ call'["cli"].id = id,
         at = "exited" => \/ code = 1
                          \/ code = 2 /\ id \in Ids /\ status'[id] = "rejected"
                          \/ code = 3 /\ id \in Ids
  PROVE  CliInv'
<1>1. cli'.at = at /\ cli'.id = id /\ cli'.code = code
  OBVIOUS
<1>2. /\ \A x \in Ids : <<x, "cli">> \notin inside'
      /\ \A x \in Ids : charged'[x] # <<"cli">>
  BY NothingOfItsOwn
<1>3. /\ 1 \notin 3..5 /\ 2 \notin 3..5 /\ 1 # 0 /\ 2 # 0 /\ 3 # 0 /\ 1 # 2 /\ 3 # 2
  OBVIOUS
<1>4. CASE at = "exited"
  <2>1. cli'.code # 0
    BY <1>1, <1>3, <1>4
  <2>2. cli'.code = 2 => cli'.id \in Ids /\ status'[cli'.id] = "rejected"
    BY <1>1, <1>3, <1>4
  <2>3. cli'.code \in 3..5 => cli'.id \in Ids
    BY <1>1, <1>3, <1>4
  <2>4. QED
    BY <1>1, <1>2, <1>4, <2>1, <2>2, <2>3 DEF CliInv
<1>5. CASE at # "exited"
  BY <1>1, <1>2, <1>5 DEF CliInv
<1>6. QED
  BY <1>4, <1>5

LEMMA WayKeepsCli ==
  ASSUME Typed, CliInv, UNCHANGED <<inside, charged>>, cli.at = "asking",
         NEW id \in Ids, NEW s, status'[id] = s, GoOn(id, s)
  PROVE  CliInv'
<1>1. /\ call \in [TheClients -> Calls] /\ "cli" \in TheClients
      /\ cli = [at |-> cli.at, id |-> cli.id, code |-> cli.code]
      /\ call["cli"].at = "none"
  BY NothingOfItsOwn DEF Typed, ClientsTypeOK, Calls, TheClients
<1>2. CASE s = "rejected" /\ cli' = [cli EXCEPT !.at = "exited", !.id = id, !.code = 2] /\ UNCHANGED call
  <2>1. cli' = [at |-> "exited", id |-> id, code |-> 2]
    BY <1>1, <1>2
  <2>2. QED
    BY <1>1, <1>2, <2>1, GoesOnAsItSays
<1>3. CASE cli' = [cli EXCEPT !.at = "polling", !.id = id] /\ UNCHANGED call
  <2>1. cli' = [at |-> "polling", id |-> id, code |-> cli.code]
    BY <1>1, <1>3
  <2>2. QED
    BY <1>1, <1>3, <2>1, GoesOnAsItSays
<1>4. CASE cli' = [cli EXCEPT !.at = "collecting", !.id = id] /\ Collect(id)
  <2>1. cli' = [at |-> "collecting", id |-> id, code |-> cli.code]
    BY <1>1, <1>4
  <2>2. call'["cli"].at = "sent" /\ call'["cli"].id = id
    BY <1>1, <1>4 DEF Collect, Call
  <2>3. QED
    BY <2>1, <2>2, GoesOnAsItSays
<1>5. QED
  BY <1>2, <1>3, <1>4 DEF GoOn

LEMMA CliKeepsCli ==
  ASSUME Typed, RouteInv, CliInv, CliStep
  PROVE  CliInv'
<1>1. /\ call \in [TheClients -> Calls] /\ "cli" \in TheClients
      /\ cli = [at |-> cli.at, id |-> cli.id, code |-> cli.code]
  BY DEF Typed, ClientsTypeOK, Calls, TheClients
<1>2. CASE CliBreaks
  <2>1. /\ cli' = [at |-> "exited", id |-> cli.id, code |-> 1]
        /\ cli.at \in {"health", "asking", "polling"}
        /\ UNCHANGED <<inside, charged, call>>
    BY <1>1, <1>2 DEF CliBreaks, Exit, routeVars
  <2>2. QED
    BY <2>1, NothingOfItsOwn, GoesOnAsItSays
<1>3. CASE CheckHealth
  <2>1. /\ cli' = [at |-> "asking", id |-> cli.id, code |-> cli.code]
        /\ cli.at = "health" /\ UNCHANGED <<inside, charged, call>>
    BY <1>1, <1>3 DEF CheckHealth, routeVars
  <2>2. QED
    BY <2>1, NothingOfItsOwn, GoesOnAsItSays
<1>4. CASE GiveUp
  <2>1. /\ cli' = [at |-> "exited", id |-> cli.id, code |-> 3]
        /\ cli.at = "polling" /\ cli.id \in Ids /\ UNCHANGED <<inside, charged, call>>
    BY <1>1, <1>4 DEF GiveUp, Exit, routeVars, CliInv
  <2>2. QED
    BY <2>1, NothingOfItsOwn, GoesOnAsItSays
<1>5. CASE Poll
  <2>1. /\ cli.at = "polling" /\ cli.id \in Ids /\ UNCHANGED <<inside, charged, status>>
        /\ call["cli"].at = "none"
    BY <1>5, NothingOfItsOwn DEF Poll, routeVars, CliInv
  <2>2. CASE status[cli.id] = "rejected" /\ Exit(2) /\ UNCHANGED call
    <3>1. cli' = [at |-> "exited", id |-> cli.id, code |-> 2]
      BY <1>1, <2>2 DEF Exit
    <3>2. QED
      BY <2>1, <2>2, <3>1, GoesOnAsItSays
  <2>3. CASE cli' = [cli EXCEPT !.at = "collecting"] /\ Collect(cli.id)
    <3>1. cli' = [at |-> "collecting", id |-> cli.id, code |-> cli.code]
      BY <1>1, <2>3
    <3>2. call'["cli"].at = "sent" /\ call'["cli"].id = cli.id
      BY <1>1, <2>3 DEF Collect, Call
    <3>3. QED
      BY <2>1, <3>1, <3>2, GoesOnAsItSays
  <2>4. CASE UNCHANGED <<cli, call>>
    BY <2>1, <2>4, OthersKeepCli
  <2>5. QED
    BY <1>5, <2>2, <2>3, <2>4 DEF Poll
<1>6. CASE CliEnds
  <2>1. PICK mine : mine = call["cli"]
    OBVIOUS
  <2>2. /\ cli.at = "collecting" /\ mine.at \in {"answered", "broken"} /\ cli.id \in Ids
        /\ UNCHANGED <<inside, charged, status>>
    BY <1>6, <2>1 DEF CliEnds, routeVars, CliInv
  <2>3. PICK code : code = IF mine.at = "broken" THEN 1 ELSE ExitFor(mine.code)
    OBVIOUS
  <2>4. cli'.at = "exited" /\ cli'.id = cli.id /\ cli'.code = code
    BY <1>1, <1>6, <2>1, <2>3 DEF CliEnds, Exit
  <2>5. call'["cli"].at = "none"
    BY <1>1, <1>6 DEF CliEnds, NoCall
  <2>6. /\ code \in {0, 1, 4, 5} /\ code # 2
        /\ mine.at = "broken" <=> code = 1
        /\ code = 0 <=> mine.at = "answered" /\ mine.code = 200
    BY <2>2, <2>3 DEF ExitFor
  <2>7. \A id \in Ids : <<id, "cli">> \in inside' => cli'.id = id /\ cli'.code = 1
    BY <2>1, <2>2, <2>4, <2>6 DEF CliInv
  <2>8. \A id \in Ids : charged'[id] = <<"cli">> => cli'.id = id /\ cli'.code \in {0, 1}
    BY <2>1, <2>2, <2>4, <2>6 DEF CliInv
  <2>9. cli'.code = 0 => charged'[cli'.id] = <<"cli">>
    BY <2>1, <2>2, <2>4, <2>6 DEF CliInv
  <2>10. QED
    BY <2>2, <2>4, <2>5, <2>6, <2>7, <2>8, <2>9 DEF CliInv
<1>7. ASSUME NEW s \in {"awaiting_approval", "payment_required", "rejected"}, CliSubmit(s)
      PROVE  CliInv'
  <2>1. PICK new \in Ids : new = NextId
    BY <1>7 DEF CliSubmit
  <2>2. status'[new] = s
    BY <1>7, <2>1 DEF CliSubmit, Stored, Typed, ClientsTypeOK
  <2>3. GoOn(new, s) /\ cli.at = "asking" /\ UNCHANGED <<inside, charged>>
    BY <1>7, <2>1 DEF CliSubmit
  <2>4. QED
    BY <2>2, <2>3, WayKeepsCli
<1>8. ASSUME NEW id \in Ids, CliPresent(id) PROVE CliInv'
  <2>1. cli.at = "asking" /\ UNCHANGED <<inside, charged, status>>
    BY <1>8 DEF CliPresent, routeVars
  <2>2. CASE GoOn(id, status[id])
    BY <2>1, <2>2, WayKeepsCli
  <2>3. CASE Exit(1) /\ UNCHANGED call
    <3>1. cli' = [at |-> "exited", id |-> cli.id, code |-> 1]
      BY <1>1, <2>3 DEF Exit
    <3>2. QED
      BY <2>1, <2>3, <3>1, NothingOfItsOwn, GoesOnAsItSays
  <2>4. QED
    BY <1>8, <2>2, <2>3 DEF CliPresent
<1>9. QED
  BY <1>2, <1>3, <1>4, <1>5, <1>6, <1>7, <1>8 DEF CliStep

\* Everything that holds of the two agents and the gateway at once.
ClientsInv == Typed /\ RouteInv /\ DemoInv /\ CliInv

LEMMA ClientsBegin == ClientsInit => ClientsInv
<1> SUFFICES ASSUME ClientsInit PROVE ClientsInv
  OBVIOUS
<1>1. MaxRequests \in Nat /\ 0 \in 0..MaxRequests /\ 1..0 = {}
  BY ClientsAssumption
<1>2. Known = {} /\ inside = {} /\ \A id \in Ids : charged[id] = <<>>
  BY DEF ClientsInit, Known
<1>3. RouteInv
  BY <1>1, <1>2 DEF RouteInv
<1>4. \A c \in TheClients : call[c].at = "none"
  BY DEF ClientsInit, NoCall
<1>5. cli.at = "health" /\ (demo.at # "off" => startDemoAgent)
  BY DEF ClientsInit
<1>6. <<>> # <<"demo">> /\ <<>> # <<"cli">> /\ "demo" \in TheClients /\ "cli" \in TheClients
  BY DEF TheClients
<1>7. DemoInv /\ CliInv
  BY <1>2, <1>4, <1>5, <1>6 DEF DemoInv, CliInv
<1>8. QED
  BY <1>3, <1>7, TypedInit DEF ClientsInv

LEMMA ClientsGoOn == ClientsInv /\ [ClientsNext]_clientVars => ClientsInv'
<1> SUFFICES ASSUME ClientsInv, [ClientsNext]_clientVars PROVE ClientsInv'
  OBVIOUS
<1>1. Typed' /\ RouteInv' /\ DemoInv'
  BY TypedNext, RouteKept, DemoKept DEF ClientsInv
<1>a. CliInv
  BY DEF ClientsInv
<1>2. ASSUME UNCHANGED <<cli, call, inside, charged, status>> PROVE CliInv'
  BY <1>2, <1>a, OutsideKeepsCli
<1>3. ASSUME DemoStep PROVE CliInv'
  <2>1. UNCHANGED <<cli, inside, charged, status>>
    BY <1>3 DEF DemoStep, Tick, ListAnswered, CollectNext, CollectAnswered, CollectBroke, routeVars
  <2>2. call'["cli"] = call["cli"]
    BY <1>3 DEF DemoStep, Tick, ListAnswered, CollectNext, CollectAnswered, CollectBroke,
                ClientsInv, Typed, ClientsTypeOK, TheClients
  <2>3. QED
    BY <1>a, <2>1, <2>2, OutsideKeepsCli
<1>4. CliInv'
  BY <1>2, <1>3, RouteKeepsCli, CliKeepsCli DEF ClientsInv, ClientsNext, clientVars, routeVars
<1>5. QED
  BY <1>1, <1>4 DEF ClientsInv

\* agent/demo-agent.ts:153-183, routes/data.ts:77-89.  Whatever breaks in transit
\* and however often it is tried again, no fare is taken twice, and the demo
\* agent pays nothing but test money.
THEOREM NoFareTwice == ClientsSpec => []FareTakenOnce
<1>1. ClientsInv => FareTakenOnce
  <2> SUFFICES ASSUME ClientsInv, NEW id \in Ids
               PROVE  /\ Len(charged[id]) <= 1
                      /\ charged[id] = <<"demo">> /\ PaymentLive => environment.network = TESTNET
    BY DEF FareTakenOnce
  <2>1. charged[id] \in {<<>>, <<"demo">>, <<"cli">>}
    BY DEF ClientsInv, RouteInv
  <2>2. Len(<<>>) = 0 /\ Len(<<"demo">>) = 1 /\ Len(<<"cli">>) = 1
    OBVIOUS
  <2>3. charged[id] = <<"demo">> => startDemoAgent
    BY DEF ClientsInv, DemoInv
  <2>4. startDemoAgent /\ PaymentLive => environment.network = TESTNET
    BY DEF startDemoAgent, resolveDemoAgent
  <2>5. Len(charged[id]) <= 1
    <3>1. PICK n : n = Len(charged[id])
      OBVIOUS
    <3>2. n = 0 \/ n = 1
      BY <2>1, <2>2, <3>1, Zenon
    <3>3. n <= 1
      BY <3>2
    <3>4. QED
      BY <3>1, <3>3
  <2>6. QED
    BY <2>3, <2>4, <2>5
<1>2. QED
  BY <1>1, ClientsBegin, ClientsGoOn, PTL DEF ClientsSpec

\* agent/src/index.ts:235-361.  For any requests, any other client and any losses,
\* the exit code of the command line tells the truth about the money.
THEOREM TheExitIsTrue == ClientsSpec => []ExitTellsTheTruth
<1>1. ClientsInv => ExitTellsTheTruth
  <2> SUFFICES ASSUME ClientsInv, cli.at = "exited"
               PROVE  /\ cli.code = 0 => charged[cli.id] = <<"cli">> /\ status[cli.id] = "fulfilled"
                      /\ cli.code = 2 => charged[cli.id] = <<>> /\ status[cli.id] = "rejected"
                      /\ cli.code \in 3..5 =>
                           /\ <<cli.id, "cli">> \notin inside
                           /\ \A i \in DOMAIN charged[cli.id] : charged[cli.id][i] # "cli"
    BY DEF ExitTellsTheTruth
  <2>1. ASSUME cli.code = 0
        PROVE  charged[cli.id] = <<"cli">> /\ status[cli.id] = "fulfilled"
    <3>1. cli.id \in Ids /\ charged[cli.id] = <<"cli">>
      BY <2>1 DEF ClientsInv, CliInv
    <3>2. <<>> # <<"cli">>
      OBVIOUS
    <3>3. QED
      BY <3>1, <3>2 DEF ClientsInv, RouteInv
  <2>2. ASSUME cli.code = 2
        PROVE  charged[cli.id] = <<>> /\ status[cli.id] = "rejected"
    BY <2>2 DEF ClientsInv, CliInv, RouteInv
  <2>3. ASSUME cli.code \in 3..5
        PROVE  /\ <<cli.id, "cli">> \notin inside
               /\ \A i \in DOMAIN charged[cli.id] : charged[cli.id][i] # "cli"
    <3>1. cli.id \in Ids /\ cli.code # 0 /\ cli.code # 1
      BY <2>3 DEF ClientsInv, CliInv
    <3>2. charged[cli.id] # <<"cli">> /\ <<cli.id, "cli">> \notin inside
      BY <3>1 DEF ClientsInv, CliInv
    <3>3. charged[cli.id] \in {<<>>, <<"demo">>}
      BY <3>1, <3>2 DEF ClientsInv, RouteInv
    <3>4. DOMAIN <<>> = {} /\ DOMAIN <<"demo">> = {1} /\ <<"demo">>[1] # "cli"
      OBVIOUS
    <3>5. QED
      BY <3>2, <3>3, <3>4
  <2>4. QED
    BY <2>1, <2>2, <2>3
<1>2. QED
  BY <1>1, ClientsBegin, ClientsGoOn, PTL DEF ClientsSpec
=============================================================================
