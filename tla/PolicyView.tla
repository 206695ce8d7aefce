----------------------------- MODULE PolicyView -----------------------------
(***************************************************************************)
(* The dashboard's prediction beside the policy engine, while the world    *)
(* drifts.                                                                 *)
(***************************************************************************)
EXTENDS PolicyDrift, RequestView

\* What a decision means to the passport's owner.
Outcome(decision) ==
  IF ~decision.allowed THEN "refused"
  ELSE IF decision.requiresHumanApproval THEN "needs_you" ELSE "clears"

\* The limits are whole micro-USD: the dashboard compares dollars, the engine
\* what it rounds them to.
WholeMicros(p) ==
  \A usd \in {p.maxCostPerQueryUsd, p.dailyLimitUsd, p.humanApprovalAboveUsd} : usd % 10 = 0

(* asks.ts:53-75 with policy.ts:74-252.  What the passport picker says     *)
(* would happen is what the engine decides, whatever was spent, narrowed   *)
(* or revoked before, for a passport and a capability that have not        *)
(* expired (the picker does not look), limits of whole micro-USD, and      *)
(* sums of dollars computed exactly, as floats do not quite.               *)
PredictionHolds ==
  (policy # NULL /\ WholeMicros(policy)
     /\ ~isExpired(agent.expiresAt, now) /\ ~isExpired(policy.expiresAt, now)) =>
    \A q \in Queries : predictOutcome(agent, policy, q, spent) = Outcome(Decision(q))
=============================================================================
