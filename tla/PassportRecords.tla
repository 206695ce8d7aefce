--------------------------- MODULE PassportRecords --------------------------
(***************************************************************************)
(* A new passport being written on ENS, one record per transaction         *)
(* (scripts/ens/passport.ts records), and read by the gateway meanwhile    *)
(* (apps/api/src/identity/ens.ts): the status first, the other records     *)
(* after it, each of them at an instant of its own.                        *)
(***************************************************************************)
EXTENDS Policy, Sequences, SequencesExt

CONSTANTS
  NewPassports,   \* the capabilities that are written
  Asks,           \* the queries an agent may come with
  Now             \* the time of all of it

ASSUME PassportRecordsAssumption ==
  NewPassports \subseteq Capability /\ Asks \subseteq ResourceQuery /\ Now \in Nat

VARIABLES
  capability,     \* what is being written
  written,        \* how many of the records are
  crashed,        \* the script died
  reading,        \* the resolution under way: not begun, or the records it has asked for
  saw             \* of those, the ones that were there

recordVars == <<capability, written, crashed, reading, saw>>

\* In the order of the script.
Keys == <<"status", "label", "scope", "maxPerQuery", "dailyLimit", "approvalAbove", "expiresAt">>
LaterKeys == ToSet(Tail(Keys))
WrittenKeys == {Keys[i] : i \in 1..written}

RecordsInit ==
  /\ capability \in NewPassports
  /\ written = 0 /\ crashed = FALSE
  /\ reading = {} /\ saw = {}

RecordsTypeOK ==
  /\ capability \in NewPassports
  /\ written \in 0..Len(Keys)
  /\ saw \subseteq reading /\ reading \subseteq ToSet(Keys)
-----------------------------------------------------------------------------
\* The next record's transaction is confirmed; one that is not ends the script.
SetText ==
  /\ written < Len(Keys) /\ ~crashed
  /\ \/ written' = written + 1 /\ UNCHANGED crashed
     \/ crashed' = TRUE /\ UNCHANGED written
  /\ UNCHANGED <<capability, reading, saw>>

\* Read a record: the status before the others.
Read(key) ==
  /\ key \notin reading
  /\ key # "status" => "status" \in saw
  /\ reading' = reading \cup {key}
  /\ saw' = IF key \in WrittenKeys THEN saw \cup {key} ELSE saw
  /\ UNCHANGED <<capability, written, crashed>>

\* The answer has been given, and the next request comes.
NextRequest ==
  /\ reading = ToSet(Keys) \/ (reading # {} /\ "status" \notin saw)
  /\ reading' = {} /\ saw' = {}
  /\ UNCHANGED <<capability, written, crashed>>

\* Fault: a limit that is not there does not limit.
parseUsdUnlimited(key, value) == IF key \in saw THEN value ELSE 10000000

\* A limit that is not there allows nothing.
parseUsd(key, value) == IF key \in saw THEN value ELSE 0

parseScope(value) == IF "scope" \in saw THEN value ELSE {}
parseExpiry(value) == IF "expiresAt" \in saw THEN value ELSE NULL

\* The passport that was read, if it is one.
resolve ==
  IF "status" \notin saw THEN [agent |-> NULL, policy |-> NULL]
  ELSE LET expiry == parseExpiry(capability.expiresAt)
       IN  [agent |-> [status |-> IF isExpired(expiry, Now) THEN "expired" ELSE "active",
                       expiresAt |-> expiry, source |-> "ens"],
            policy |-> [allowedResources |-> parseScope(capability.allowedResources),
                        maxCostPerQueryUsd |-> parseUsd("maxPerQuery", capability.maxCostPerQueryUsd),
                        dailyLimitUsd |-> parseUsd("dailyLimit", capability.dailyLimitUsd),
                        humanApprovalAboveUsd |-> parseUsd("approvalAbove", capability.humanApprovalAboveUsd),
                        expiresAt |-> expiry]]

RecordsNext == SetText \/ NextRequest \/ \E key \in ToSet(Keys) : Read(key)

RecordsSpec == RecordsInit /\ [][RecordsNext]_recordVars
-----------------------------------------------------------------------------
Decided(passport, ask) ==
  evaluatePolicy([agent |-> passport.agent, policy |-> passport.policy, query |-> ask,
                  spentTodayMicros |-> 0, now |-> Now])

Unbroken == [agent |-> [status |-> "active", expiresAt |-> capability.expiresAt, source |-> "ens"],
             policy |-> capability]

(* ens.ts:151-214, passport.ts:194-225. While a new passport is being      *)
(* written, however the reads fall between the writes and wherever the     *)
(* script dies, the gateway allows nothing that the whole passport would   *)
(* not, and asks a human whenever it would.                                *)
HalfWrittenIsTighter ==
  reading = ToSet(Keys) =>
    \A ask \in Asks :
      Decided(resolve, ask).allowed =>
        /\ Decided(Unbroken, ask).allowed
        /\ Decided(Unbroken, ask).requiresHumanApproval => Decided(resolve, ask).requiresHumanApproval
=============================================================================
