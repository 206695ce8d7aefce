----------------------------- MODULE RequestView ----------------------------
(***************************************************************************)
(* What the dashboard says of a request and of a passport                  *)
(* (apps/web/components/requests/model.ts, RequestLedger.tsx, asks.ts):    *)
(* pure functions of the records the gateway answers with.  Of a sentence  *)
(* only its claim about the fare is kept; `taken` stands for "paid from    *)
(* the agent's account", with the state of the transfer beside it.         *)
(***************************************************************************)
EXTENDS Policy

\* The decision a request was stored with, as its record still shows it: only a
\* request refused at submission is rejected without a human's decision, and
\* only one that needed a human waits for one or carries an approval.
WasAllowed(r) == ~(r.status = "rejected" /\ r.approval = "none")
NeededHuman(r) == r.status = "awaiting_approval" \/ r.approval # "none"

Refused(r) == r.lastRefusal # "none"
Delivered(r) == r.status = "fulfilled"
Paid(r) == r.payment = "settled"
Cleared(r) == WasAllowed(r) /\ (NeededHuman(r) => r.approval = "approved")

\* The five stations of a request's way through the gate.
stationsFor(r) ==
  [asked |-> "passed",
   checked |-> IF WasAllowed(r) THEN "passed" ELSE "stopped",
   approved |-> IF ~WasAllowed(r) THEN "ahead"
                ELSE IF ~NeededHuman(r) THEN "auto"
                ELSE CASE r.approval = "approved" -> "passed"
                       [] r.approval = "rejected" -> "stopped"
                       [] OTHER -> "current",
   paid |-> IF Paid(r) THEN "passed"
            ELSE IF ~Cleared(r) THEN "ahead"
            ELSE IF (Refused(r) /\ ~Delivered(r)) \/ r.status = "failed" THEN "stopped"
            ELSE "current",
   delivered |-> IF Delivered(r) THEN "passed"
                 ELSE IF ~Paid(r) THEN "ahead"
                 ELSE IF r.status = "failed" THEN "stopped" ELSE "current"]

\* The stamp of a row and what its sentence says of the fare: nothing yet,
\* nothing, being paid by the demo agent, settling, or taken.
Verdict(stamp, fare) == [stamp |-> stamp, fare |-> fare]

\* Fault: a payment whose transfer is still open is not told from a settled one.
verdictForSettled(r, autoCollect) ==
  IF r.status = "fulfilled" THEN Verdict("Delivered", "taken") ELSE Verdict("Failed", "nothing")

verdictFor(r, autoCollect) ==
  CASE r.status = "awaiting_approval" -> Verdict("Needs you", "nothing yet")
    [] r.status = "payment_required" ->
         IF Refused(r) THEN Verdict("Refused", "nothing")
         ELSE IF autoCollect THEN Verdict("Cleared", "being paid")
         ELSE Verdict("Cleared", "nothing yet")
    [] r.status = "fulfilled" ->
         Verdict("Delivered", IF r.payment = "unsettled" THEN "settling" ELSE "taken")
    [] r.status = "rejected" ->
         Verdict(IF r.approval = "rejected" THEN "Rejected" ELSE "Refused", "nothing")
    [] r.status = "failed" -> Verdict("Failed", "nothing")

\* The tabs of the list beside "all" (MATCH).
Filters == {"waiting", "cleared", "delivered", "refused"}

Matches(filter, r) ==
  CASE filter = "waiting"   -> r.status = "awaiting_approval"
    [] filter = "cleared"   -> r.status = "payment_required" /\ ~Refused(r)
    [] filter = "delivered" -> r.status = "fulfilled"
    [] filter = "refused"   -> \/ r.status \in {"rejected", "failed"}
                               \/ r.status = "payment_required" /\ Refused(r)

\* The hint: the demo agent is paying, or a command to run; for a failed
\* request, that nothing was charged and it can be collected again.
CollectHint(r, autoCollect) ==
  IF autoCollect /\ r.status = "payment_required" THEN "being paid"
  ELSE IF r.status = "failed" THEN "nothing" ELSE "nothing yet"

\* The payment panel of an open row: the receipt, the hint how the fare will be
\* paid, or a note that none was.
PaymentBody(r, autoCollect) ==
  IF r.payment # "none" THEN (IF Paid(r) THEN "taken" ELSE "settling")
  ELSE IF (r.status = "payment_required" /\ ~Refused(r)) \/ r.status = "failed"
  THEN CollectHint(r, autoCollect)
  ELSE IF r.status = "awaiting_approval" THEN "nothing yet" ELSE "nothing"

\* Fault: a query that uses the day up to its last micro-USD is refused.
predictOutcomeStrict(agent, policy, query, spentMicros) ==
  LET fare == 10 * priceQueryMicros(query) IN
  IF agent = NULL \/ policy = NULL THEN "refused"
  ELSE IF agent.status # "active" \/ query.resource \notin policy.allowedResources THEN "refused"
  ELSE IF fare > policy.maxCostPerQueryUsd THEN "refused"
  ELSE IF 10 * spentMicros + fare >= policy.dailyLimitUsd THEN "refused"
  ELSE IF fare > policy.humanApprovalAboveUsd THEN "needs_you" ELSE "clears"

\* What the passport picker says would happen to a query, judged in dollars.
\* Amounts are in tenths of a micro-USD, and the fare is a whole micro-USD.
predictOutcome(agent, policy, query, spentMicros) ==
  LET fare == 10 * priceQueryMicros(query) IN
  IF agent = NULL \/ policy = NULL THEN "refused"
  ELSE IF agent.status # "active" THEN "refused"
  ELSE IF query.resource \notin policy.allowedResources THEN "refused"
  ELSE IF fare > policy.maxCostPerQueryUsd THEN "refused"
  ELSE IF 10 * spentMicros + fare > policy.dailyLimitUsd THEN "refused"
  ELSE IF fare > policy.humanApprovalAboveUsd THEN "needs_you"
  ELSE "clears"
=============================================================================
