------------------------------- MODULE Limits -------------------------------
(***************************************************************************)
(* What bounds a caller: the sliding windows (apps/api/src/rate-limit.ts)  *)
(* in front of submissions and human actions, the hourly budget of model   *)
(* calls (ai/provider.ts) built on the same window, and the capped table   *)
(* of used signatures (store.ts) that the bound on human actions protects. *)
(*                                                                         *)
(* Time is counted in units of which UnitsPerSecond make a second, so that *)
(* rounding Retry-After up to whole seconds is visible.  Every check is    *)
(* one synchronous step of the gateway.                                    *)
(***************************************************************************)
EXTENDS Integers, Sequences, FiniteSets

CONSTANTS
  Callers,            \* caller addresses
  Signers,            \* wallets that sign actions
  Names,              \* passport names callers submit under, invented ones too
  RequestsPerMinute,  \* submissions per passport name and window
  CallerFactor,       \* how many passports' worth one caller may submit
  ActionsPerMinute,   \* human actions per caller and window
  CallsPerHour,       \* model calls per window of the budget
  Window,             \* the length of the windows
  UnitsPerSecond,
  PruneEvery,         \* checks of one limiter between two prunings
  NonceCap,           \* used signatures remembered
  MaxAge,             \* how far from now a signed action may be dated
  MaxTime             \* last instant of the run: bounds the clock

ASSUME LimitsAssumption ==
  /\ {RequestsPerMinute, CallerFactor, ActionsPerMinute, CallsPerHour, Window,
      UnitsPerSecond, PruneEvery, NonceCap} \subseteq Nat \ {0}
  /\ MaxAge \in Nat /\ MaxTime \in Nat

Times == 0..MaxTime
Limiters == {"caller", "agent", "human", "model"}
LimitOf == [caller |-> RequestsPerMinute * CallerFactor, agent |-> RequestsPerMinute,
            human |-> ActionsPerMinute, model |-> CallsPerHour]

\* The keys each limiter counts under; the model budget has one.
KeysOf == [caller |-> Callers, agent |-> Names, human |-> Callers, model |-> {"model"}]
AllKeys == UNION {{<<l, k>> : k \in KeysOf[l]} : l \in Limiters}

\* A signed action: its digest is what a signer and an instant make unique.
SignedActions == [by : Signers, issuedAt : Times]

VARIABLES
  clock,        \* the wall clock
  hits,         \* the timestamps each key is counted with, oldest first
  checks,       \* checks of each limiter since it last pruned
  usedNonces,   \* digests consumed, oldest first
  accepted,     \* history: every instant a key was let through
  refused,      \* history: a key's last refusal, and the instant it was told to return
  acted         \* history: how often each signed action was carried out

limitVars == <<clock, hits, checks, usedNonces, accepted, refused, acted>>

NotRefused == [at |-> -1, retryAt |-> -1]

LimitsInit ==
  /\ clock = 0
  /\ hits = [k \in AllKeys |-> <<>>]
  /\ checks = [l \in Limiters |-> 0]
  /\ usedNonces = <<>>
  /\ accepted = [k \in AllKeys |-> <<>>]
  /\ refused = [k \in AllKeys |-> NotRefused]
  /\ acted = [a \in SignedActions |-> 0]

LimitsTypeOK ==
  /\ clock \in Times
  /\ \A k \in AllKeys : hits[k] \in Seq(Times) /\ accepted[k] \in Seq(Times)
  /\ checks \in [Limiters -> 0..PruneEvery - 1]
  /\ usedNonces \in Seq(SignedActions)
  /\ \A k \in AllKeys : refused[k].at \in Times \cup {-1}
  /\ acted \in [SignedActions -> Nat]
-----------------------------------------------------------------------------
\* The filter: the events still inside the window at t, in their order.
InWindow(times, t) ==
  LET live == {i \in DOMAIN times : times[i] > t - Window}
      Rank(i) == Cardinality({h \in live : h <= i})
  IN [j \in 1..Cardinality(live) |-> times[CHOOSE i \in live : Rank(i) = j]]

Recent(k) == InWindow(hits[k], clock)

Full(k) == Len(Recent(k)) >= LimitOf[k[1]]

\* Fault: pruning forgets a key as soon as one of its events has left the window.
PrunedEagerly(k) ==
  IF \E i \in DOMAIN hits[k] : hits[k][i] <= clock - Window THEN <<>> ELSE hits[k]

\* A key with no event inside the window is dropped: the same as an empty list.
Pruned(k) ==
  IF \A i \in DOMAIN hits[k] : hits[k][i] <= clock - Window THEN <<>> ELSE hits[k]

CeilDiv(a, b) == (a + b - 1) \div b

\* Fault: whole seconds, rounded down.
RetryAfterFloor(k) == ((Recent(k)[1] + Window - clock) \div UnitsPerSecond) * UnitsPerSecond

\* The Retry-After header, in units: whole seconds until the oldest event leaves.
RetryAfter(k) ==
  CeilDiv(Recent(k)[1] + Window - clock, UnitsPerSecond) * UnitsPerSecond

\* One check of limiter k[1], when its turn to prune comes after pruning.  The
\* budget's limiter is not middleware and never prunes.
CountCheck(ks) ==
  checks' = [l \in Limiters |->
    IF l # "model" /\ (\E k \in ks : k[1] = l) THEN (checks[l] + 1) % PruneEvery ELSE checks[l]]

HitsNow(ks, through) ==
  LET Due(l) == l # "model" /\ (\E k \in ks : k[1] = l) /\ (checks[l] + 1) % PruneEvery = 0
      Kept == [k \in AllKeys |-> IF Due(k[1]) THEN Pruned(k) ELSE hits[k]]
  IN hits' = [k \in AllKeys |->
       IF k \notin ks THEN Kept[k]
       ELSE IF k \in through THEN Append(Recent(k), clock) ELSE Recent(k)]

Note(through, stopped) ==
  /\ accepted' = [k \in AllKeys |-> IF k \in through THEN Append(accepted[k], clock) ELSE accepted[k]]
  /\ refused' = [k \in AllKeys |->
       IF k \in stopped THEN [at |-> clock, retryAt |-> clock + RetryAfter(k)]
       ELSE IF k \in through THEN NotRefused ELSE refused[k]]

\* The keys of ks are checked in order; the first full one refuses the call,
\* and those before it have counted it already.
Check(ks) ==
  LET Stops == {i \in DOMAIN ks : Full(ks[i])}
      Last == IF Stops = {} THEN Len(ks) + 1 ELSE CHOOSE i \in Stops : \A j \in Stops : i <= j
      Through == {ks[i] : i \in {j \in DOMAIN ks : j < Last}}
      Seen == {ks[i] : i \in {j \in DOMAIN ks : j <= Last}}
  IN /\ CountCheck(Seen)
     /\ HitsNow(Seen, Through)
     /\ Note(Through, Seen \ Through)

SubmissionKeys(c, n) == <<<<"caller", c>>, <<"agent", n>>>>
ActionKeys(c) == <<<<"human", c>>>>

\* POST /requests under a passport name, real or invented.
SubmitLimited(c, n) ==
  /\ Check(SubmissionKeys(c, n))
  /\ UNCHANGED <<clock, usedNonces, acted>>

\* Fault: the newest signatures are dropped instead of the oldest.
RememberedNewestDropped(d) ==
  IF Len(usedNonces) < NonceCap THEN Append(usedNonces, d) ELSE usedNonces

\* trimOldest: beyond the cap the oldest are dropped.
Remembered(d) ==
  LET all == Append(usedNonces, d)
      over == IF Len(all) > NonceCap THEN Len(all) - NonceCap ELSE 0
  IN SubSeq(all, over + 1, Len(all))

Seen(d) == \E i \in DOMAIN usedNonces : usedNonces[i] = d

\* The age check: a signature dated ahead of the gateway's clock is as good as an old one.
InDate(d) == clock - d.issuedAt \in -MaxAge..MaxAge

\* A signed action delivered by any caller, the first time or again.
ActLimited(c, d) ==
  LET goesThrough == ~Full(<<"human", c>>) /\ InDate(d) /\ ~Seen(d) IN
  /\ Check(ActionKeys(c))
  /\ usedNonces' = IF goesThrough THEN Remembered(d) ELSE usedNonces
  /\ acted' = [acted EXCEPT ![d] = @ + (IF goesThrough THEN 1 ELSE 0)]
  /\ UNCHANGED clock

\* One interpretation, explanation or analysis asks the budget; a refused one
\* is answered by the rules and reaches no model.
spend(stage) ==
  /\ stage \in {"interpret", "explain", "analyze"}
  /\ Check(<<<<"model", "model">>>>)
  /\ UNCHANGED <<clock, usedNonces, acted>>

Elapse ==
  /\ clock < MaxTime
  /\ clock' = clock + 1
  /\ UNCHANGED <<hits, checks, usedNonces, accepted, refused, acted>>

SubmissionsNext == Elapse \/ \E c \in Callers, n \in Names : SubmitLimited(c, n)
ActionsNext == Elapse \/ \E c \in Callers, d \in SignedActions : ActLimited(c, d)
BudgetNext == Elapse \/ \E stage \in {"interpret", "explain", "analyze"} : spend(stage)

LimitsSpec == LimitsInit /\ [][SubmissionsNext \/ ActionsNext \/ BudgetNext]_limitVars
-----------------------------------------------------------------------------
Within(times, from, to) == Cardinality({i \in DOMAIN times : times[i] \in from..to})

(* rate-limit.ts:40-97. No key is let through more often than its limit in *)
(* any stretch of time as long as the window, wherever it starts: what a   *)
(* check or a pruning forgets never counted any more.                      *)
WindowsHold ==
  \A k \in AllKeys, t \in Times : Within(accepted[k], t - Window + 1, t) <= LimitOf[k[1]]

(* rate-limit.ts:45-46, 77-97. Retry-After tells the truth to the second:  *)
(* a key that comes back when it was told to is let through, and would not *)
(* have been a whole second earlier.                                       *)
RetryAfterIsHonest ==
  \A k \in AllKeys : refused[k] # NotRefused =>
    /\ clock >= refused[k].retryAt => ~Full(k)
    /\ clock <= refused[k].retryAt - UnitsPerSecond => Full(k)

(* store.ts:68-84, 257-263, human-auth.ts:80-88. A signed action is        *)
(* carried out once, although the table of used signatures forgets its     *)
(* oldest: at the rate the windows allow, a digest leaves the table only   *)
(* after it has gone out of date, and a signature may be dated MaxAge      *)
(* ahead as well as MaxAge ago.                                            *)
ActedOnce == \A d \in SignedActions : acted[d] <= 1
=============================================================================
