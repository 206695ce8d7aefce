---------------------------- MODULE PolicyDrift ----------------------------
(***************************************************************************)
(* The policy engine while the world drifts between a quote and the gate:  *)
(* the owner narrows or widens the capability, money is spent, time        *)
(* passes, the passport is revoked.  No program state is modelled here:    *)
(* the steps are the ways in which two inputs of evaluatePolicy can        *)
(* differ, and the properties compare the two decisions.                   *)
(***************************************************************************)
EXTENDS Policy

CONSTANTS
  Limits,     \* dollar amounts a policy may carry, in tenths of a micro-USD
  Spends,     \* amounts already spent today, in micro-USD
  MaxNow,     \* the last instant
  Lookbacks   \* lookbackDays a query may ask for

ASSUME DriftAssumption ==
  Limits \subseteq Nat /\ Spends \subseteq Nat /\ MaxNow \in Nat /\ Lookbacks \subseteq Int

VARIABLES agent, policy, spent, now
vars == <<agent, policy, spent, now>>

Queries == [resource : {"wallet.balances", "wallet.transfers"}, lookbackDays : Lookbacks]
Instants == 0..MaxNow \cup {NULL}

Decide(q, a, p, s, t) ==
  evaluatePolicy([agent |-> a, policy |-> p, query |-> q, spentTodayMicros |-> s, now |-> t])
Decision(q) == Decide(q, agent, policy, spent, now)

Init ==
  /\ agent \in [status : {"active"}, expiresAt : Instants, source : {"local"}]
  /\ policy = NULL
  /\ spent = 0
  /\ now = 0

\* An earlier expiry is the narrower one; no expiry is the widest.
NoLater(e, f) == f = NULL \/ (e # NULL /\ e <= f)

Narrower(p, q) ==
  /\ p.allowedResources \subseteq q.allowedResources
  /\ p.maxCostPerQueryUsd <= q.maxCostPerQueryUsd
  /\ p.dailyLimitUsd <= q.dailyLimitUsd
  /\ p.humanApprovalAboveUsd <= q.humanApprovalAboveUsd
  /\ NoLater(p.expiresAt, q.expiresAt)

Scopes == {{"wallet.balances"}, {"wallet.balances", "wallet.transfers"}}

Capabilities ==
  [allowedResources : Scopes,
   maxCostPerQueryUsd : Limits, dailyLimitUsd : Limits,
   humanApprovalAboveUsd : Limits, expiresAt : {0, NULL}]

SetPolicy ==
  /\ policy' \in Capabilities
  /\ UNCHANGED <<agent, spent, now>>
Spend == spent' \in {s \in Spends : s > spent} /\ UNCHANGED <<agent, policy, now>>
Revoke == agent' = [agent EXCEPT !.status = "revoked"] /\ UNCHANGED <<policy, spent, now>>
Wait == now < MaxNow /\ now' = now + 1 /\ UNCHANGED <<agent, policy, spent>>

Next == SetPolicy \/ Spend \/ Revoke \/ Wait
Spec == Init /\ [][Next]_vars

\* Every step but one that widens the capability.
Narrowing ==
  /\ vars' # vars
  /\ \/ policy' = policy
     \/ policy # NULL /\ policy' # NULL /\ Narrower(policy', policy)

(* policy.ts:74-252.  Spending, waiting, revoking or narrowing a           *)
(* capability never turns a refused query into an allowed one, and never   *)
(* lifts the human's sign-off from a query that stays allowed.  The gate   *)
(* relies on it: what it re-evaluates can only have become harder to get.  *)
NarrowingNeverAdmits ==
  [][Narrowing =>
       \A q \in Queries :
         Decision(q)'.allowed =>
           /\ Decision(q).allowed
           /\ Decision(q).requiresHumanApproval => Decision(q)'.requiresHumanApproval]_vars

(* policy.ts:76-78, 97-111.  A revoked passport is refused and reported as *)
(* revoked whatever else is wrong with the request: no capability, an      *)
(* expired one, an unreadable query, an exhausted budget.                  *)
KillSwitchFirst ==
  agent.status = "revoked" =>
    \A q \in Queries \cup {NULL} :
      Decision(q) = [allowed |-> FALSE, requiresHumanApproval |-> FALSE, code |-> "agent_revoked"]

(* policy.ts:191-223 with pricing.ts:31-34.  What is admitted never        *)
(* exceeds the dollars the owner wrote by more than half a micro-USD,      *)
(* neither per query nor per day, and what goes through without a human    *)
(* never exceeds the approval threshold by more than that.                 *)
AdmitsWithinTheDollars ==
  policy # NULL =>
    \A q \in Queries :
      Decision(q).allowed =>
        /\ 10 * priceQueryMicros(q) <= policy.maxCostPerQueryUsd + 5
        /\ 10 * (spent + priceQueryMicros(q)) <= policy.dailyLimitUsd + 5
        /\ ~Decision(q).requiresHumanApproval =>
             10 * priceQueryMicros(q) <= policy.humanApprovalAboveUsd + 5
=============================================================================
