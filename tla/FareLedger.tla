----------------------------- MODULE FareLedger -----------------------------
(***************************************************************************)
(* What the gateway promises about money, without its exchanges: a fare is *)
(* open, held or taken.  Holding a fare counts it against the account's    *)
(* spend of that day, giving it back takes it off the same day again, and  *)
(* a fare that was taken stays taken and counted (apps/api/src/routes/     *)
(* data.ts:14-18, store.ts:233-246, SECURITY.md:51-58).               *)
(***************************************************************************)
EXTENDS Integers

CONSTANTS
  Fares, Accounts, Periods,
  Prices    \* what a fare may cost, in micro-USD

VARIABLES
  fare,    \* per fare, what became of it and against what it counts
  spent    \* per account and period, the sum counted against it

ledgerVars == <<fare, spent>>

OpenFare == [state |-> "open"]
CountedFare == [state : {"held", "taken"}, account : Accounts, day : Periods, micros : Prices]

LedgerInit ==
  /\ fare = [f \in Fares |-> OpenFare]
  /\ spent = [a \in Accounts |-> [d \in Periods |-> 0]]

Hold(f, a, d, micros) ==
  /\ fare[f] = OpenFare
  /\ fare' = [fare EXCEPT ![f] = [state |-> "held", account |-> a, day |-> d, micros |-> micros]]
  /\ spent' = [spent EXCEPT ![a][d] = @ + micros]

GiveBack(f) ==
  /\ fare[f].state = "held"
  /\ fare' = [fare EXCEPT ![f] = OpenFare]
  /\ spent' = [spent EXCEPT ![fare[f].account][fare[f].day] = @ - fare[f].micros]

Take(f) ==
  /\ fare[f].state = "held"
  /\ fare' = [fare EXCEPT ![f].state = "taken"]
  /\ UNCHANGED spent

LedgerNext ==
  \E f \in Fares :
    \/ \E a \in Accounts, d \in Periods, micros \in Prices : Hold(f, a, d, micros)
    \/ GiveBack(f)
    \/ Take(f)

LedgerSpec == LedgerInit /\ [][LedgerNext]_ledgerVars
=============================================================================
