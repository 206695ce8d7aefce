------------------------------- MODULE Startup ------------------------------
(***************************************************************************)
(* The gateway's start (apps/api/src/server.ts, config.ts): the settings   *)
(* say which parts are live, the passports' display copies are refreshed   *)
(* from ENS, then the gateway listens, and with live payments the          *)
(* facilitator is asked whether it settles on this network, again and      *)
(* again until it says so.  Until then paid collection answers 503         *)
(* (apps/api/src/app.ts).                                                  *)
(***************************************************************************)
EXTENDS Naturals, Sequences

CONSTANTS
  Environments,  \* the settings a gateway may be started with
  MaxLate        \* bounds the answers outstanding after their check timed out

TESTNET == "hedera:testnet"

\* Settings as they are written: an account for the fares and its network, a list
\* of RPCs ("" for an entry that is blank), whether the demo agent was asked for,
\* its account, its key and the passports it is to collect for.
Environment ==
  [payTo : BOOLEAN, network : {TESTNET, "hedera:mainnet"}, rpcUrls : Seq({"", "url"}),
   demoAgent : BOOLEAN, account : BOOLEAN, key : {"none", "good", "unreadable"}, passports : Nat]

ASSUME StartupAssumption == Environments \subseteq Environment /\ MaxLate \in Nat

VARIABLES
  environment,    \* the settings of this start
  phase,          \* whether the gateway listens yet
  asking,         \* checks of the facilitator that are waiting for its answer
  pausing,        \* timers that will check it again
  late,           \* answers still to come to checks that timed out
  paymentReady    \* paid collection is open

startupVars == <<environment, phase, asking, pausing, late, paymentReady>>

\* Fares are settled by a facilitator; passports are read from ENS.
PaymentLive == environment.payTo
parseRpcUrls == LET Given(url) == url # "" IN SelectSeq(environment.rpcUrls, Given)
EnsLive == parseRpcUrls # <<>>

\* The demo agent runs when it was asked for and, with live payments, on the
\* testnet only and with an account and a key.
resolveDemoAgent ==
  /\ environment.demoAgent
  /\ PaymentLive => environment.network = TESTNET /\ environment.account /\ environment.key # "none"
  /\ environment.passports > 0

\* A key that cannot be read leaves it off; simulated payments need none.
startDemoAgent == resolveDemoAgent /\ (PaymentLive => environment.key = "good")

FirstCheck == IF PaymentLive THEN 1 ELSE 0

StartupInit ==
  /\ environment \in Environments
  /\ phase = IF EnsLive THEN "refreshing" ELSE "serving"
  /\ asking = IF EnsLive THEN 0 ELSE FirstCheck
  /\ pausing = 0
  /\ late = 0
  /\ paymentReady = ~PaymentLive

StartupTypeOK ==
  /\ environment \in Environments
  /\ phase \in {"refreshing", "serving"}
  /\ asking \in Nat /\ pausing \in Nat /\ late \in Nat
  /\ paymentReady \in BOOLEAN
-----------------------------------------------------------------------------
\* Every passport has been read, one of the reads failed, or eight seconds have
\* passed: in each case the gateway listens and the first check begins.
Listen ==
  /\ phase = "refreshing"
  /\ phase' = "serving"
  /\ asking' = FirstCheck
  /\ UNCHANGED <<environment, pausing, late, paymentReady>>

\* The facilitator answers in time that it settles here.
Confirm ==
  /\ asking > 0
  /\ asking' = asking - 1
  /\ paymentReady' = TRUE
  /\ UNCHANGED <<environment, phase, pausing, late>>

\* It answers in time that it does not, or cannot be reached.
Deny ==
  /\ asking > 0
  /\ asking' = asking - 1
  /\ pausing' = pausing + 1
  /\ UNCHANGED <<environment, phase, late, paymentReady>>

\* It does not answer in time; its answer may still come.
TimeOut ==
  /\ asking > 0
  /\ late < MaxLate
  /\ asking' = asking - 1
  /\ pausing' = pausing + 1
  /\ late' = late + 1
  /\ UNCHANGED <<environment, phase, paymentReady>>

\* Fault: a rejection after the timeout schedules a check of its own.
LateAnswerRetries ==
  /\ late > 0
  /\ late' = late - 1
  /\ pausing' = pausing + 1
  /\ UNCHANGED <<environment, phase, asking, paymentReady>>

\* An answer after the timeout: the race is over, and a rejection is absorbed.
LateAnswer ==
  /\ late > 0
  /\ late' = late - 1
  /\ UNCHANGED <<environment, phase, asking, pausing, paymentReady>>

\* Half a minute later.
CheckAgain ==
  /\ pausing > 0
  /\ pausing' = pausing - 1
  /\ asking' = asking + 1
  /\ UNCHANGED <<environment, phase, late, paymentReady>>

StartupNext == Listen \/ Confirm \/ Deny \/ TimeOut \/ LateAnswer \/ CheckAgain

StartupSpec == StartupInit /\ [][StartupNext]_startupVars
-----------------------------------------------------------------------------
(* server.ts:222-246, 309-317. While paid collection is closed exactly one *)
(* check or pause is under way, and none once it is open, whatever answers *)
(* come late: the retries neither multiply nor die out.                    *)
OneCheckUntilReady ==
  phase = "serving" => asking + pausing = IF paymentReady THEN 0 ELSE 1
=============================================================================
