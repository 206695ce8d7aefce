------------------------------- MODULE Console ------------------------------
(***************************************************************************)
(* The dashboard in a browser (apps/web/components/console/                *)
(* ConsoleProvider.tsx, components/requests/, lib/api.ts): it polls the    *)
(* gateway every two seconds with several requests at once, says whether   *)
(* the gateway answers, and runs what a human clicks: signed decisions,    *)
(* and asks sent as an agent would.                                        *)
(*                                                                         *)
(* The gateway is the number of changes made to it so far: an answer is    *)
(* what that number was when it was computed.  What a click carries out is *)
(* one such change.                                                        *)
(***************************************************************************)
EXTENDS Naturals, Sequences, FiniteSets

CONSTANTS
  Decisions,      \* requests a human can decide
  IsLocal,        \* the gateway runs beside the dashboard, and never sleeps
  MaxChanges,     \* bounds the changes of the gateway
  MaxMisses,      \* bounds the polls that fail
  MaxClicks       \* bounds the clicks

ASSUME ConsoleAssumption ==
  /\ "submit" \notin Decisions /\ IsLocal \in BOOLEAN
  /\ MaxChanges \in Nat /\ MaxMisses \in Nat /\ MaxClicks \in Nat

VARIABLES
  server,         \* changes made to the gateway so far
  polls,          \* the refreshes that wait for their answers, and what was read so far
  inFlight,       \* a refresh is waiting
  view,           \* what the page shows of each part
  misses,         \* polls that failed
  gatewayState,   \* what the page says of the gateway
  waitingSince,   \* since when it waits for an answer: not, recently, longer than the grace
  clicks,         \* what each click is doing, and the change it made
  busy            \* the key shown as busy

pollVars == <<server, polls, inFlight, view, misses, gatewayState, waitingSince>>
consoleVars == <<pollVars, clicks, busy>>

\* Two of the four lists that one refresh asks for.
Parts == {"agents", "requests"}
ClickKeys == Decisions \cup {"submit"}
Unread == MaxChanges + 1
NothingRead == [p \in Parts |-> Unread]
Silences == {"no", "recently", "long"}

\* Mounting: the first refresh begins.
ConsoleInit ==
  /\ server = 0
  /\ polls = <<NothingRead>>
  /\ inFlight = TRUE
  /\ view = [p \in Parts |-> 0]
  /\ misses = 0
  /\ gatewayState = "connecting"
  /\ waitingSince = "recently"
  /\ clicks = <<>>
  /\ busy = "none"

ConsoleTypeOK ==
  /\ server \in 0..MaxChanges
  /\ \A i \in DOMAIN polls : polls[i] \in [Parts -> 0..Unread]
  /\ inFlight \in BOOLEAN
  /\ view \in [Parts -> 0..MaxChanges]
  /\ gatewayState \in {"connecting", "online", "waking", "offline"}
  /\ waitingSince \in Silences
  /\ \A i \in DOMAIN clicks :
       clicks[i] \in [key : ClickKeys, at : {"signing", "sent", "refreshing", "over"}, change : 0..MaxChanges]
  /\ busy \in ClickKeys \cup {"none"}
-----------------------------------------------------------------------------
\* The gateway changes, by an agent or another human.
ServerChanges ==
  /\ server < MaxChanges
  /\ server' = server + 1
  /\ UNCHANGED <<polls, inFlight, view, misses, gatewayState, waitingSince, clicks, busy>>

\* Fault: a refresh begins although one is waiting.
BeginRefreshAlways == polls' = Append(polls, NothingRead) /\ inFlight' = TRUE

\* refresh: skipped while one is waiting.
BeginRefresh ==
  IF inFlight THEN UNCHANGED <<polls, inFlight>>
  ELSE polls' = Append(polls, NothingRead) /\ inFlight' = TRUE

\* Every two seconds.
PollTimer ==
  /\ Len(polls) < 2
  /\ BeginRefresh
  /\ UNCHANGED <<server, view, misses, gatewayState, waitingSince, clicks, busy>>

\* The gateway computes the answer to one of a refresh's requests.
ReadPart(i, p) ==
  /\ i \in DOMAIN polls
  /\ polls[i][p] = Unread
  /\ polls' = [polls EXCEPT ![i][p] = server]
  /\ UNCHANGED <<server, inFlight, view, misses, gatewayState, waitingSince, clicks, busy>>

WithoutPoll(i) == SubSeq(polls, 1, i - 1) \o SubSeq(polls, i + 1, Len(polls))

\* The clicks that await this refresh are over with it, and nothing is busy.
EndAwaiting ==
  LET waiting == {c \in DOMAIN clicks : clicks[c].at = "refreshing"}
  IN  /\ clicks' = [c \in DOMAIN clicks |-> IF c \in waiting THEN [clicks[c] EXCEPT !.at = "over"] ELSE clicks[c]]
      /\ busy' = IF waiting # {} THEN "none" ELSE busy

\* All answers are in: the page shows them together.
RefreshAnswered(i) ==
  /\ i \in DOMAIN polls
  /\ \A p \in Parts : polls[i][p] # Unread
  /\ view' = polls[i]
  /\ gatewayState' = "online"
  /\ waitingSince' = "no"
  /\ polls' = WithoutPoll(i)
  /\ inFlight' = FALSE
  /\ EndAwaiting
  /\ UNCHANGED <<server, misses>>

\* Fault: a refresh that failed still counts as waiting.
RefreshFailedWaiting(i) ==
  /\ i \in DOMAIN polls
  /\ misses < MaxMisses
  /\ misses' = misses + 1
  /\ waitingSince' = IF waitingSince = "no" THEN "recently" ELSE waitingSince
  /\ gatewayState' = IF ~IsLocal /\ waitingSince # "long" THEN "waking" ELSE "offline"
  /\ polls' = WithoutPoll(i)
  /\ EndAwaiting
  /\ UNCHANGED <<server, inFlight, view>>

\* One of them failed: nothing is taken over, and the gateway is waking as long
\* as a sleeping host may need, offline after that.
RefreshFailed(i) ==
  /\ i \in DOMAIN polls
  /\ misses < MaxMisses
  /\ misses' = misses + 1
  /\ waitingSince' = IF waitingSince = "no" THEN "recently" ELSE waitingSince
  /\ gatewayState' = IF ~IsLocal /\ waitingSince # "long" THEN "waking" ELSE "offline"
  /\ polls' = WithoutPoll(i)
  /\ inFlight' = FALSE
  /\ EndAwaiting
  /\ UNCHANGED <<server, view>>

\* The grace passes.
GracePasses ==
  /\ waitingSince = "recently"
  /\ waitingSince' = "long"
  /\ UNCHANGED <<server, polls, inFlight, view, misses, gatewayState, clicks, busy>>

\* The first answer takes longer than four seconds.
SlowStart ==
  /\ gatewayState = "connecting"
  /\ ~IsLocal
  /\ gatewayState' = "waking"
  /\ UNCHANGED <<server, polls, inFlight, view, misses, waitingSince, clicks, busy>>
-----------------------------------------------------------------------------
\* A human clicks: the button of a key shown as busy cannot be clicked.  A
\* decision is signed by the wallet first, an ask is sent at once.
Click(k) ==
  /\ Len(clicks) < MaxClicks
  /\ busy # k
  /\ k = "submit" => gatewayState = "online"
  /\ clicks' = Append(clicks, [key |-> k, at |-> IF k = "submit" THEN "sent" ELSE "signing", change |-> 0])
  /\ busy' = k
  /\ UNCHANGED pollVars

Sign(c) ==
  /\ c \in DOMAIN clicks
  /\ clicks[c].at = "signing"
  /\ clicks' = [clicks EXCEPT ![c].at = "sent"]
  /\ UNCHANGED <<pollVars, busy>>

\* The click's own refresh: when it is skipped the click is over at once.
Finish(c, change) ==
  /\ BeginRefresh
  /\ clicks' = [clicks EXCEPT ![c].change = change, ![c].at = IF inFlight THEN "over" ELSE "refreshing"]
  /\ busy' = IF inFlight THEN "none" ELSE busy

\* The human declines, or the wallet fails.
NotSigned(c) ==
  /\ c \in DOMAIN clicks
  /\ clicks[c].at = "signing"
  /\ Finish(c, 0)
  /\ UNCHANGED <<server, view, misses, gatewayState, waitingSince>>

\* The gateway carries it out and answers.  A request is decided once: a second
\* decision is refused.
Done(c) ==
  /\ c \in DOMAIN clicks
  /\ clicks[c].at = "sent"
  /\ server < MaxChanges
  /\ clicks[c].key \in Decisions => \A d \in DOMAIN clicks : clicks[d].key = clicks[c].key => clicks[d].change = 0
  /\ server' = server + 1
  /\ Finish(c, server + 1)
  /\ UNCHANGED <<view, misses, gatewayState, waitingSince>>

\* The gateway refuses it.
Refused(c) ==
  /\ c \in DOMAIN clicks
  /\ clicks[c].at = "sent"
  /\ Finish(c, 0)
  /\ UNCHANGED <<server, view, misses, gatewayState, waitingSince>>

\* An ask that failed otherwise is over without a refresh.
AskFailed(c) ==
  /\ c \in DOMAIN clicks
  /\ clicks[c].at = "sent" /\ clicks[c].key = "submit"
  /\ clicks' = [clicks EXCEPT ![c].at = "over"]
  /\ busy' = "none"
  /\ UNCHANGED pollVars

RefreshStep ==
  \/ PollTimer
  \/ \E i \in 1..2 : (\E p \in Parts : ReadPart(i, p)) \/ RefreshAnswered(i) \/ RefreshFailed(i)

ClickStep(c) == Sign(c) \/ NotSigned(c) \/ Done(c) \/ Refused(c) \/ AskFailed(c)

ConsoleNext ==
  \/ RefreshStep \/ ServerChanges \/ GracePasses \/ SlowStart
  \/ \E k \in ClickKeys : Click(k)
  \/ \E c \in 1..MaxClicks : ClickStep(c)

ConsoleSpec == ConsoleInit /\ [][ConsoleNext]_consoleVars
-----------------------------------------------------------------------------
(* ConsoleProvider.tsx:115-130.  The page never goes back to an older      *)
(* state of anything it shows, however slowly a refresh is answered and    *)
(* whatever clicks ask for one meanwhile.                                  *)
ViewNeverGoesBack == [][\A p \in Parts : view'[p] >= view[p]]_view

(* ConsoleProvider.tsx:116-144, 200.  Whatever changes at the gateway is   *)
(* shown in the end, what a click carried out included, although the       *)
(* refresh after it is skipped when one is waiting.                        *)
ChangesAreShown ==
  \A n \in 1..MaxChanges, p \in Parts : server >= n ~> view[p] >= n
=============================================================================
