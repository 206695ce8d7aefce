------------------------------ MODULE MCGateway -----------------------------
(***************************************************************************)
(* Values of the gateway's constants for TLC.                              *)
(***************************************************************************)
EXTENDS GatewayView, TLC

CONSTANTS a1, r1, s1, s2, s3, s4   \* a passport, a request, signatures

\* Prices: balances over one day 10200 micro-USD, transfers over one day 20200.
Balances  == [resource |-> "wallet.balances", lookbackDays |-> 1]
Transfers == [resource |-> "wallet.transfers", lookbackDays |-> 1]

Limits(daily, approvalAbove) ==
  [allowedResources |-> {"wallet.balances", "wallet.transfers"},
   maxCostPerQueryUsd |-> 300000, dailyLimitUsd |-> daily,
   humanApprovalAboveUsd |-> approvalAbove, expiresAt |-> NULL]

\* A day's budget fits either query alone but not both; transfers need a human.
Seeded == Limits(302000, 150000)
\* Tightened so far that only balances fit.
Tight == Limits(102000, 150000)
\* Tightened so far that only balances fit, and need a human too.
Strict == Limits(102000, 50000)

Action(sig, action, subject, policy) ==
  [sig |-> sig, action |-> action, subject |-> subject, policy |-> policy]

\* One human's actions: the first request approved, the passport revoked and,
\* unsigned, its capability tightened.
DemoActions ==
  {Action(s1, "approve-request", r1, NULL), Action(s2, "revoke-agent", a1, NULL),
   Action(NULL, "set-policy", a1, Strict)}

\* The life of a passport that is not seeded, and the decision of a request.
OneLife ==
  {Action(s1, "approve-request", r1, NULL), Action(s2, "revoke-agent", a1, NULL),
   Action(s3, "set-policy", a1, Tight), Action(s4, "create-agent", a1, Seeded)}

\* Two humans who approve the same request, one of them without a signature.
TwoApprovals ==
  {Action(s1, "approve-request", r1, NULL), Action(NULL, "approve-request", r1, NULL)}
\* A passport created twice under one name, and revoked.
TwoCreations ==
  {Action(s1, "create-agent", a1, Seeded), Action(s2, "create-agent", a1, Tight),
   Action(s3, "revoke-agent", a1, NULL)}

OnlyBalances == {Balances}
OnlyTransfers == {Transfers}
BothQueries == {Balances, Transfers}

SeededAll == [a \in Agents |-> Seeded]
\* Room for both queries on one day.
RoomyAll == [a \in Agents |-> Limits(500000, 150000)]
OneSeeded == [a \in Agents |-> IF a = a1 THEN Seeded ELSE NULL]
OthersSeeded == [a \in Agents |-> IF a = a1 THEN NULL ELSE Seeded]
NotSeeded == [a \in Agents |-> NULL]

\* The records of a name: none, or an active or revoked passport whose day
\* holds one query of balances.
OnChain(status) ==
  [agent |-> [status |-> status, expiresAt |-> NULL, source |-> "ens"], policy |-> Tight]
NoChain == {NoPassport}
SteadyName == {NoPassport, OnChain("active")}
OneName == {NoPassport, OnChain("active"), OnChain("revoked")}

\* Exchanges are interchangeable.
Exchanges == Permutations(Collectors)
=============================================================================
