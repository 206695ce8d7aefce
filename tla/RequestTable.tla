----------------------------- MODULE RequestTable ---------------------------
(***************************************************************************)
(* The request table at its cap (apps/api/src/store.ts) and what callers   *)
(* can still see of it: one request, its place among the newest ones, or   *)
(* nothing.  Module Store keeps every request for ever; here a put trims.  *)
(*                                                                         *)
(* A request's id is the order of its creation, which is what createdAt    *)
(* sorts by.  What moves a request along is abstracted to the statuses it  *)
(* may take (modules Submission, HumanActions and Collection say when).    *)
(***************************************************************************)
EXTENDS Naturals, FiniteSets

CONSTANTS
  RequestCap,    \* requests kept
  ListLimit,     \* requests GET /requests answers with
  MaxRequests    \* bounds the requests of a run

ASSUME RequestTableAssumption ==
  RequestCap \in Nat \ {0} /\ ListLimit \in Nat \ {0} /\ MaxRequests \in Nat

Ids == 1..MaxRequests

VARIABLES
  created,       \* requests created so far
  table,         \* the status of each request on record, "none" when there is none
  collecting     \* requests inside the paid route

tableVars == <<created, table, collecting>>

Waiting == {"awaiting_approval", "payment_required"}
Finished == {"fulfilled", "rejected", "failed"}

TableInit ==
  /\ created = 0
  /\ table = [id \in Ids |-> "none"]
  /\ collecting = {}

TableTypeOK ==
  /\ created \in 0..MaxRequests
  /\ table \in [Ids -> Waiting \cup Finished \cup {"none"}]
  /\ collecting \in SUBSET Ids

OnRecord(t) == {id \in Ids : t[id] # "none"}
-----------------------------------------------------------------------------
\* Fault: whatever is oldest goes first.
OldestDropped(t) ==
  LET excess == Cardinality(OnRecord(t)) - RequestCap
      Older(id) == Cardinality({other \in OnRecord(t) : other < id})
  IN {id \in OnRecord(t) : Cardinality(OnRecord(t)) > RequestCap /\ Older(id) < excess}

\* The requests a trim drops: as many finished ones as are over the cap, oldest first.
Dropped(t) ==
  LET excess == Cardinality(OnRecord(t)) - RequestCap
      Older(id) == Cardinality({other \in OnRecord(t) : t[other] \in Finished /\ other < id})
  IN {id \in OnRecord(t) :
        Cardinality(OnRecord(t)) > RequestCap /\ t[id] \in Finished /\ Older(id) < excess}

Trimmed(t) == LET gone == Dropped(t) IN [id \in Ids |-> IF id \in gone THEN "none" ELSE t[id]]

\* putRequest: a submission is stored with the status its decision gave it, and
\* the table is trimmed.  The new request itself may be what is dropped.
PutRequest(status) ==
  /\ created < MaxRequests
  /\ status \in Waiting \cup {"rejected"}
  /\ created' = created + 1
  /\ table' = Trimmed([table EXCEPT ![created + 1] = status])
  /\ UNCHANGED collecting

\* updateRequest: changes nothing for a request that is gone, and never trims.
Updated(id, status) ==
  table' = [table EXCEPT ![id] = IF @ = "none" THEN "none" ELSE status]

\* A human decides.
DecideOne(id, status) ==
  /\ table[id] = "awaiting_approval"
  /\ status \in {"payment_required", "rejected"}
  /\ Updated(id, status)
  /\ UNCHANGED <<created, collecting>>

\* The paid route opens for a request that is cleared, or whose last collection failed.
BeginCollection(id) ==
  /\ table[id] \in {"payment_required", "failed"}
  /\ id \notin collecting
  /\ collecting' = collecting \cup {id}
  /\ UNCHANGED <<created, table>>

\* The collection ends: delivered, failed, or turned away with the status kept.
EndCollection(id, status) ==
  /\ id \in collecting
  /\ collecting' = collecting \ {id}
  /\ status \in {"fulfilled", "failed", table[id]}
  /\ Updated(id, status)
  /\ UNCHANGED created

TableNext ==
  \/ \E status \in Waiting \cup {"rejected"} : PutRequest(status)
  \/ \E id \in Ids, status \in {"payment_required", "rejected"} : DecideOne(id, status)
  \/ \E id \in Ids : BeginCollection(id)
  \/ \E id \in Ids, status \in Waiting \cup Finished \cup {"none"} : EndCollection(id, status)

TableSpec == TableInit /\ [][TableNext]_tableVars

\* listRequests: the newest ListLimit requests on record.
Listed ==
  {id \in OnRecord(table) :
     Cardinality({newer \in OnRecord(table) : newer > id}) < ListLimit}
-----------------------------------------------------------------------------
(* store.ts:182-196. The cap never forgets a request that waits on a human *)
(* or on a payment, however many others arrive and whatever became of      *)
(* those before it.                                                        *)
WaitingNeverDropped ==
  [][\A id \in Ids : table[id] \in Waiting => table'[id] # "none"]_table
=============================================================================
