----------------------------- MODULE HederaSetup ----------------------------
(***************************************************************************)
(* The scripts that create the gateway's Hedera account and associate it   *)
(* with USDC (scripts/hedera/create-gateway.ts, usdc.ts with --send), run  *)
(* by hand and again after every failure.  Their state is .env; what they  *)
(* see of the chain is the mirror node, which trails it.                   *)
(*                                                                         *)
(* Keys and accounts are numbers, 0 is none.  A write of .env is one step. *)
(***************************************************************************)
EXTENDS Naturals, Sequences

CONSTANTS
  Funds,          \* accounts the agent can pay for
  MaxDeaths,      \* bounds the runs that die
  MaxForces       \* bounds the runs with --force

ASSUME HederaSetupAssumption == Funds \in Nat \ {0} /\ MaxDeaths \in Nat /\ MaxForces \in Nat

VARIABLES
  env,            \* FAREGATE_PAY_TO and FAREGATE_PAY_TO_PRIVATE_KEY
  accounts,       \* on the chain: each account's key, whether it is associated with USDC
  mirrored,       \* what the mirror node knows of them
  step,           \* of the script that runs
  gatewayKey,     \* the key it holds
  target,         \* the account it associates
  keys,           \* keys generated so far
  deaths, forces

hederaVars == <<env, accounts, mirrored, step, gatewayKey, target, keys, deaths, forces>>

HederaInit ==
  /\ env = [payTo |-> 0, key |-> 0]
  /\ accounts = <<>> /\ mirrored = <<>>
  /\ step = "idle" /\ gatewayKey = 0 /\ target = 0
  /\ keys = 0 /\ deaths = 0 /\ forces = 0

HederaTypeOK ==
  /\ env \in [payTo : 0..Len(accounts), key : 0..keys]
  /\ Len(accounts) <= Funds /\ Len(mirrored) <= Len(accounts)
  /\ step \in {"idle", "keyed", "executed", "mirroring", "associating"}
  /\ gatewayKey \in 0..keys
-----------------------------------------------------------------------------
\* Fault: a key of an interrupted run is not used again.
CreateAnew ==
  /\ step = "idle"
  /\ Len(accounts) < Funds
  /\ env.payTo # 0 => forces < MaxForces
  /\ forces' = IF env.payTo # 0 THEN forces + 1 ELSE forces
  /\ keys' = keys + 1 /\ gatewayKey' = keys + 1 /\ env' = [env EXCEPT !.key = keys + 1]
  /\ step' = "keyed"
  /\ UNCHANGED <<accounts, mirrored, target, deaths>>

\* create-gateway: not when there is an account already, unless forced; not
\* when the agent cannot pay.  The key is the one left by an earlier run, or a
\* new one that is saved first.
Create ==
  /\ step = "idle"
  /\ Len(accounts) < Funds
  /\ env.payTo # 0 => forces < MaxForces
  /\ forces' = IF env.payTo # 0 THEN forces + 1 ELSE forces
  /\ IF env.key # 0 THEN gatewayKey' = env.key /\ UNCHANGED <<env, keys>>
     ELSE keys' = keys + 1 /\ gatewayKey' = keys + 1 /\ env' = [env EXCEPT !.key = keys + 1]
  /\ step' = "keyed"
  /\ UNCHANGED <<accounts, mirrored, target, deaths>>

\* The transaction reaches consensus.
Execute ==
  /\ step = "keyed"
  /\ accounts' = Append(accounts, [key |-> gatewayKey, associated |-> FALSE])
  /\ step' = "executed"
  /\ UNCHANGED <<env, mirrored, gatewayKey, target, keys, deaths, forces>>

\* Its receipt names the account, which is saved.
Receipt ==
  /\ step = "executed"
  /\ env' = [env EXCEPT !.payTo = Len(accounts)]
  /\ step' = "mirroring"
  /\ UNCHANGED <<accounts, mirrored, gatewayKey, target, keys, deaths, forces>>

\* The account is seen at the mirror node, or no longer waited for.
CreateEnds ==
  /\ step = "mirroring"
  /\ step' = "idle"
  /\ UNCHANGED <<env, accounts, mirrored, gatewayKey, target, keys, deaths, forces>>

\* The gateway's account as the mirror node shows it.
Inspected == env.payTo \in DOMAIN mirrored
keyMatches == mirrored[env.payTo].key = env.key

\* associate: not when the account is not found, associated already or, unless
\* forced, not the key's.
Associate ==
  /\ step = "idle" /\ Inspected
  /\ ~mirrored[env.payTo].associated
  /\ env.key # 0
  /\ keyMatches \/ forces < MaxForces
  /\ forces' = IF keyMatches THEN forces ELSE forces + 1
  /\ target' = env.payTo /\ gatewayKey' = env.key
  /\ step' = "associating"
  /\ UNCHANGED <<env, accounts, mirrored, keys, deaths>>

\* The transaction reaches consensus: nothing changes when the account was
\* associated before, or is another key's.
Associated ==
  /\ step = "associating"
  /\ accounts' = [accounts EXCEPT ![target].associated = @ \/ accounts[target].key = gatewayKey]
  /\ step' = "idle"
  /\ UNCHANGED <<env, mirrored, gatewayKey, target, keys, deaths, forces>>

MirrorCatchesUp ==
  /\ mirrored # accounts
  /\ mirrored' = accounts
  /\ UNCHANGED <<env, accounts, step, gatewayKey, target, keys, deaths, forces>>

\* The script dies, or its transaction is refused.
ScriptDies ==
  /\ deaths < MaxDeaths
  /\ step # "idle"
  /\ deaths' = deaths + 1
  /\ step' = "idle"
  /\ UNCHANGED <<env, accounts, mirrored, gatewayKey, target, keys, forces>>

HederaNext ==
  \/ Create \/ Execute \/ Receipt \/ CreateEnds
  \/ Associate \/ Associated \/ MirrorCatchesUp \/ ScriptDies

HederaSpec == HederaInit /\ [][HederaNext]_hederaVars

-----------------------------------------------------------------------------
(* create-gateway.ts:10-13, 54-142. No account is left that nobody holds   *)
(* the key to: the key of every account that was ever funded is the one in *)
(* .env, wherever a run died.                                              *)
EveryKeyIsHeld == \A i \in DOMAIN accounts : accounts[i].key = env.key
=============================================================================
