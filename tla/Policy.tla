------------------------------- MODULE Policy -------------------------------
(***************************************************************************)
(* The policy engine and the price list of packages/shared: pure, so a     *)
(* module of operators.                                                    *)
(*                                                                         *)
(* Money is an integer number of micro-USD everywhere except in a policy,  *)
(* whose limits are dollars (floats in the code).  A dollar amount is a    *)
(* number of tenths of a micro-USD here, the coarsest unit in which the    *)
(* rounding done by usdToMicros shows.                                     *)
(***************************************************************************)
EXTENDS Integers

CONSTANT NULL   \* the code's null: no passport, no policy, no query, no expiry

ResourceKind ==
  {"wallet.balances", "wallet.transfers", "wallet.activity",
   "protocol.positions", "protocol.markets"}

AgentStatus == {"active", "revoked", "expired"}

\* A passport, as far as a decision can tell two of them apart.
Passport == [status : AgentStatus, expiresAt : Nat \cup {NULL}, source : {"ens", "local"}]

Capability == [allowedResources : SUBSET ResourceKind,
               maxCostPerQueryUsd : Nat, dailyLimitUsd : Nat,
               humanApprovalAboveUsd : Nat, expiresAt : Nat \cup {NULL}]

ResourceQuery == [resource : ResourceKind, lookbackDays : Int]

\* NULL is told apart from every value it stands beside.
ASSUME NullAssumption ==
  /\ NULL \notin Nat
  /\ NULL \notin Passport
  /\ NULL \notin Capability
  /\ NULL \notin ResourceQuery
-----------------------------------------------------------------------------
(* Pricing *)

BASE_PRICE_MICROS ==
  [kind \in ResourceKind |->
     CASE kind = "wallet.balances"    -> 10000
       [] kind = "wallet.transfers"   -> 20000
       [] kind = "wallet.activity"    -> 30000
       [] kind = "protocol.positions" -> 40000
       [] kind = "protocol.markets"   -> 50000]

LOOKBACK_SURCHARGE_MICROS_PER_DAY == 200
MIN_LOOKBACK_DAYS == 1
MAX_LOOKBACK_DAYS == 365

\* Fault: the amount is rounded up.
usdToMicrosUp(usd) == (usd + 9) \div 10

\* Math.round: halves go up.
usdToMicros(usd) == (usd + 5) \div 10

clampLookbackDays(days) ==
  IF days < MIN_LOOKBACK_DAYS THEN MIN_LOOKBACK_DAYS
  ELSE IF days > MAX_LOOKBACK_DAYS THEN MAX_LOOKBACK_DAYS
  ELSE days

priceQueryMicros(query) ==
  BASE_PRICE_MICROS[query.resource]
    + clampLookbackDays(query.lookbackDays) * LOOKBACK_SURCHARGE_MICROS_PER_DAY
-----------------------------------------------------------------------------
(* The decision.  `in` is the record the engine is called with:            *)
(* [agent, policy, query, spentTodayMicros, now].                          *)

\* Fault: the comparison is the wrong way round.
isNotYetExpired(expiresAt, now) == expiresAt # NULL /\ expiresAt > now

isExpired(expiresAt, now) == expiresAt # NULL /\ expiresAt <= now

\* Fault: the expiry is looked at before the kill switch.
ChecksExpiryFirst ==
  <<"agent_unknown", "agent_expired", "agent_revoked", "no_capability",
    "policy_expired", "invalid_query", "resource_not_allowed",
    "exceeds_per_query_limit", "exceeds_daily_limit">>

\* The checks, in the order in which the first failing one decides.
Checks == <<"agent_unknown", "agent_revoked", "agent_expired", "no_capability",
            "policy_expired", "invalid_query", "resource_not_allowed",
            "exceeds_per_query_limit", "exceeds_daily_limit">>

Fails(check, in) ==
  CASE check = "agent_unknown" -> in.agent = NULL
    [] check = "agent_revoked" -> in.agent.status = "revoked"
    [] check = "agent_expired" -> \/ in.agent.status = "expired"
                                  \/ isExpired(in.agent.expiresAt, in.now)
    [] check = "no_capability" -> in.policy = NULL
    [] check = "policy_expired" -> isExpired(in.policy.expiresAt, in.now)
    [] check = "invalid_query" -> in.query = NULL
    [] check = "resource_not_allowed" ->
         in.query.resource \notin in.policy.allowedResources
    [] check = "exceeds_per_query_limit" ->
         priceQueryMicros(in.query) > usdToMicros(in.policy.maxCostPerQueryUsd)
    [] check = "exceeds_daily_limit" ->
         in.spentTodayMicros + priceQueryMicros(in.query)
           > usdToMicros(in.policy.dailyLimitUsd)

Passes(in) == \A i \in 1..9 : ~Fails(Checks[i], in)

FirstFailure(in) ==
  Checks[CHOOSE i \in 1..9 : (\A j \in 1..(i - 1) : ~Fails(Checks[j], in))
                             /\ Fails(Checks[i], in)]

NeedsHuman(in) ==
  priceQueryMicros(in.query) > usdToMicros(in.policy.humanApprovalAboveUsd)

\* A passport without a capability is reported as an unknown agent.
ReasonCode(check) == IF check = "no_capability" THEN "agent_unknown" ELSE check

evaluatePolicy(in) ==
  IF Passes(in)
  THEN [allowed |-> TRUE, requiresHumanApproval |-> NeedsHuman(in),
        code |-> IF NeedsHuman(in) THEN "requires_human_approval" ELSE "within_limits"]
  ELSE [allowed |-> FALSE, requiresHumanApproval |-> FALSE,
        code |-> ReasonCode(FirstFailure(in))]
=============================================================================
