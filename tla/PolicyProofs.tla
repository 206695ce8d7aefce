---------------------------- MODULE PolicyProofs ----------------------------
(***************************************************************************)
(* Proofs about the policy engine, for every passport, capability, query,  *)
(* ledger and instant.                                                     *)
(***************************************************************************)
EXTENDS Policy, TLAPS

\* A price is a positive whole number of micro-USD (pricing.ts:70-74).
LEMMA PriceIsNat ==
  ASSUME NEW q \in ResourceQuery
  PROVE  priceQueryMicros(q) \in Nat
<1>1. BASE_PRICE_MICROS[q.resource] \in Nat
  BY DEF BASE_PRICE_MICROS, ResourceQuery, ResourceKind
<1>2. clampLookbackDays(q.lookbackDays) \in Nat
  BY DEF clampLookbackDays, ResourceQuery, MIN_LOOKBACK_DAYS, MAX_LOOKBACK_DAYS
<1>3. QED
  BY <1>1, <1>2 DEF priceQueryMicros, LOOKBACK_SURCHARGE_MICROS_PER_DAY

\* Rounding a dollar amount moves it by at most half a micro-USD, ten times
\* which is five tenths (pricing.ts:31-34).
LEMMA RoundingIsClose ==
  ASSUME NEW usd \in Nat
  PROVE  /\ usdToMicros(usd) \in Nat
         /\ 10 * usdToMicros(usd) <= usd + 5
         /\ usd <= 10 * usdToMicros(usd) + 4
  BY DEF usdToMicros

\* A larger dollar amount never rounds to fewer micro-USD.
LEMMA RoundingIsMonotone ==
  ASSUME NEW u \in Nat, NEW v \in Nat, u <= v
  PROVE  usdToMicros(u) <= usdToMicros(v)
  BY DEF usdToMicros

\* What each check of evaluatePolicy says (policy.ts:86-223).
LEMMA FailsExpanded ==
  ASSUME NEW in
  PROVE  /\ Fails("agent_unknown", in) <=> in.agent = NULL
         /\ Fails("agent_revoked", in) <=> in.agent.status = "revoked"
         /\ Fails("agent_expired", in) <=> \/ in.agent.status = "expired"
                                           \/ isExpired(in.agent.expiresAt, in.now)
         /\ Fails("no_capability", in) <=> in.policy = NULL
         /\ Fails("policy_expired", in) <=> isExpired(in.policy.expiresAt, in.now)
         /\ Fails("invalid_query", in) <=> in.query = NULL
         /\ Fails("resource_not_allowed", in) <=>
              in.query.resource \notin in.policy.allowedResources
         /\ Fails("exceeds_per_query_limit", in) <=>
              priceQueryMicros(in.query) > usdToMicros(in.policy.maxCostPerQueryUsd)
         /\ Fails("exceeds_daily_limit", in) <=>
              in.spentTodayMicros + priceQueryMicros(in.query)
                > usdToMicros(in.policy.dailyLimitUsd)
  BY Zenon DEF Fails

LEMMA PassesExpanded ==
  ASSUME NEW in
  PROVE  Passes(in) <=>
           /\ ~Fails("agent_unknown", in) /\ ~Fails("agent_revoked", in)
           /\ ~Fails("agent_expired", in) /\ ~Fails("no_capability", in)
           /\ ~Fails("policy_expired", in) /\ ~Fails("invalid_query", in)
           /\ ~Fails("resource_not_allowed", in) /\ ~Fails("exceeds_per_query_limit", in)
           /\ ~Fails("exceeds_daily_limit", in)
<1>1. \A i \in 1..9 : \/ i = 1 \/ i = 2 \/ i = 3 \/ i = 4 \/ i = 5
                      \/ i = 6 \/ i = 7 \/ i = 8 \/ i = 9
  OBVIOUS
<1>2. 1 \in 1..9 /\ 2 \in 1..9 /\ 3 \in 1..9 /\ 4 \in 1..9 /\ 5 \in 1..9
      /\ 6 \in 1..9 /\ 7 \in 1..9 /\ 8 \in 1..9 /\ 9 \in 1..9
  OBVIOUS
<1>3. /\ Checks[1] = "agent_unknown" /\ Checks[2] = "agent_revoked"
      /\ Checks[3] = "agent_expired" /\ Checks[4] = "no_capability"
      /\ Checks[5] = "policy_expired" /\ Checks[6] = "invalid_query"
      /\ Checks[7] = "resource_not_allowed" /\ Checks[8] = "exceeds_per_query_limit"
      /\ Checks[9] = "exceeds_daily_limit"
  BY DEF Checks
<1>4. QED
  BY <1>1, <1>2, <1>3, Zenon DEF Passes

\* Allowed is passing every check; what is reported says whether a human must
\* sign off.
LEMMA AllowedExpanded ==
  ASSUME NEW in
  PROVE  /\ evaluatePolicy(in).allowed <=> Passes(in)
         /\ Passes(in) => (evaluatePolicy(in).requiresHumanApproval <=> NeedsHuman(in))
         /\ evaluatePolicy(in).allowed \in BOOLEAN
<1>1. CASE Passes(in)
  BY <1>1 DEF evaluatePolicy, NeedsHuman
<1>2. CASE ~Passes(in)
  BY <1>2 DEF evaluatePolicy
<1>3. QED
  BY <1>1, <1>2
-----------------------------------------------------------------------------
\* policy.ts:191-227.  What is allowed fits the per-query ceiling and, with
\* everything already spent, the day's; and what is allowed without a human
\* does not cost more than the threshold.
THEOREM AllowedWithinLimits ==
  ASSUME NEW in, in.query \in ResourceQuery, in.policy \in Capability,
         in.spentTodayMicros \in Nat, evaluatePolicy(in).allowed
  PROVE  LET cost == priceQueryMicros(in.query) IN
         /\ in.agent # NULL /\ in.agent.status # "revoked"
         /\ in.query.resource \in in.policy.allowedResources
         /\ cost <= usdToMicros(in.policy.maxCostPerQueryUsd)
         /\ in.spentTodayMicros + cost <= usdToMicros(in.policy.dailyLimitUsd)
         /\ ~evaluatePolicy(in).requiresHumanApproval =>
              cost <= usdToMicros(in.policy.humanApprovalAboveUsd)
<1> DEFINE cost == priceQueryMicros(in.query)
<1>1. Passes(in)
  BY AllowedExpanded
<1>2. /\ in.agent # NULL /\ in.agent.status # "revoked"
      /\ in.query.resource \in in.policy.allowedResources
      /\ ~(cost > usdToMicros(in.policy.maxCostPerQueryUsd))
      /\ ~(in.spentTodayMicros + cost > usdToMicros(in.policy.dailyLimitUsd))
  BY <1>1, PassesExpanded, FailsExpanded
<1>3. ~evaluatePolicy(in).requiresHumanApproval =>
        ~(cost > usdToMicros(in.policy.humanApprovalAboveUsd))
  BY <1>1, AllowedExpanded DEF NeedsHuman
<1>4. cost \in Nat
  BY PriceIsNat
<1>5. /\ usdToMicros(in.policy.maxCostPerQueryUsd) \in Nat
      /\ usdToMicros(in.policy.dailyLimitUsd) \in Nat
      /\ usdToMicros(in.policy.humanApprovalAboveUsd) \in Nat
  BY RoundingIsClose DEF Capability
<1> HIDE DEF cost
<1>6. QED
  BY <1>2, <1>3, <1>4, <1>5 DEF cost

\* policy.ts:97-111.  A revoked passport is refused as revoked, whatever else
\* is wrong.
THEOREM RevokedIsReportedRevoked ==
  ASSUME NEW in, in.agent # NULL, in.agent.status = "revoked"
  PROVE  evaluatePolicy(in) =
           [allowed |-> FALSE, requiresHumanApproval |-> FALSE, code |-> "agent_revoked"]
<1> DEFINE First(i) == (\A j \in 1..(i - 1) : ~Fails(Checks[j], in)) /\ Fails(Checks[i], in)
<1>1. Checks[1] = "agent_unknown" /\ Checks[2] = "agent_revoked"
  BY DEF Checks
<1>2. ~Fails(Checks[1], in) /\ Fails(Checks[2], in)
  BY <1>1, FailsExpanded
<1>3. First(2)
  <2>1. \A j \in 1..(2 - 1) : j = 1
    OBVIOUS
  <2>2. QED
    BY <2>1, <1>2
<1>4. \A i \in 1..9 : First(i) => i = 2
  <2> SUFFICES ASSUME NEW i \in 1..9, First(i), i # 2 PROVE FALSE
    OBVIOUS
  <2>1. CASE i = 1
    BY <2>1, <1>2
  <2>2. CASE i > 2
    <3>1. 2 \in 1..(i - 1)
      BY <2>2
    <3>2. QED
      BY <3>1, <1>2
  <2>3. QED
    BY <2>1, <2>2
<1>5. 2 \in 1..9
  OBVIOUS
<1> HIDE DEF First
<1>6. (CHOOSE i \in 1..9 : First(i)) = 2
  BY <1>3, <1>4, <1>5, Zenon
<1>7. FirstFailure(in) = "agent_revoked"
  BY <1>6, <1>1, Zenon DEF FirstFailure, First
<1>8. ~Passes(in)
  BY <1>1, <1>2, <1>5 DEF Passes
<1>9. QED
  BY <1>7, <1>8 DEF evaluatePolicy, ReasonCode
=============================================================================
