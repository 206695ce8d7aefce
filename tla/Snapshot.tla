------------------------------ MODULE Snapshot ------------------------------
(***************************************************************************)
(* The gateway's state file (markDirty, flush and load of                  *)
(* apps/api/src/store.ts) over the life of the process (server.ts): boot,  *)
(* serve, stop or crash, boot again.                                       *)
(*                                                                         *)
(* What the store holds is a set of facts that, once true, the gateway     *)
(* must not forget: a passport revoked, a signature used, a fare charged.  *)
(* A flush is one synchronous step of JavaScript, but three system calls:  *)
(* the process may die between any two of them.                            *)
(***************************************************************************)
EXTENDS Naturals, FiniteSets

CONSTANTS
  Facts,         \* what the exchanges of a run may record
  Signals,       \* SIGINT and SIGTERM: each is handled once
  MaxFailures,   \* bounds the writes that fail
  MayDamage      \* the file may be unreadable at boot: a bad disk, another version

ASSUME SnapshotAssumption ==
  /\ MaxFailures \in Nat
  /\ MayDamage \in BOOLEAN
  /\ "passports" \notin Facts

\* Seeding puts the demo passports, active, into a store that has none.
Known == Facts \cup {"passports"}

VARIABLES
  process,     \* the gateway's process
  memory,      \* what the running store holds
  saveTimer,   \* the pending save
  writing,     \* how far the flush in progress has come
  tmp,         \* what the sibling file holds once it is written
  stateFile,   \* the state file
  unheard,     \* signals whose handler has not run yet
  failures,    \* writes that failed so far
  missed,      \* history: the last write failed, and nothing changed since
  lost         \* history: what the last clean stop did not save

snapshotVars == <<process, memory, saveTimer, writing, tmp, stateFile, unheard,
                  failures, missed, lost>>

Absent == [state |-> "absent", facts |-> {}]
Whole(facts) == [state |-> "whole", facts |-> facts]
Torn == [state |-> "torn", facts |-> {}]
Damaged == [state |-> "damaged", facts |-> {}]

SnapshotInit ==
  /\ process = "down"
  /\ memory = {}
  /\ saveTimer = "none"
  /\ writing = "no"
  /\ tmp = {}
  /\ stateFile = Absent
  /\ unheard = Signals
  /\ failures = 0
  /\ missed = FALSE
  /\ lost = {}

SnapshotTypeOK ==
  /\ process \in {"down", "serving", "stopping"}
  /\ memory \in SUBSET Known
  /\ saveTimer \in {"none", "armed"}
  /\ writing \in {"no", "writing", "written"}
  /\ tmp \in SUBSET Known
  /\ stateFile \in [state : {"absent", "whole", "torn", "damaged"}, facts : SUBSET Known]
  /\ unheard \in SUBSET Signals
  /\ failures \in Nat
  /\ missed \in BOOLEAN
  /\ lost \in SUBSET Known

Up == process \in {"serving", "stopping"}
-----------------------------------------------------------------------------
\* Fault: the demo passports are seeded on every start, active.
SeededAlways(m) == (m \ Facts) \cup {"passports"}

\* The demo passports are seeded only into a store that has no passport.
Seeded(m) == IF "passports" \in m THEN m ELSE m \cup {"passports"}

\* Constructor and seeding.  A file that cannot be read is moved aside and the
\* store starts empty; seeding it is a change like any other.
Boot ==
  /\ process = "down"
  /\ process' = "serving"
  /\ memory' = Seeded(stateFile.facts)
  /\ saveTimer' = IF "passports" \in stateFile.facts THEN "none" ELSE "armed"
  /\ stateFile' = IF stateFile.state = "whole" THEN stateFile ELSE Absent
  /\ unheard' = Signals
  /\ missed' = FALSE
  /\ lost' = {}
  /\ UNCHANGED <<writing, tmp, failures>>

\* Fault: a method that changes a table and does not mark the store dirty.
RecordUnmarked(f) ==
  /\ Up
  /\ writing = "no"
  /\ memory' = memory \cup {f}
  /\ missed' = FALSE
  /\ UNCHANGED <<process, saveTimer, writing, tmp, stateFile, unheard, failures, lost>>

\* A method of the store changes a table.  Exchanges that were open when the
\* gateway was told to stop still do.
Record(f) ==
  /\ Up
  /\ writing = "no"
  /\ memory' = memory \cup {f}
  /\ saveTimer' = "armed"
  /\ missed' = FALSE
  /\ UNCHANGED <<process, writing, tmp, stateFile, unheard, failures, lost>>

\* The pending save fires, is forgotten, and the flush begins.
TimerFires ==
  /\ Up
  /\ writing = "no"
  /\ saveTimer = "armed"
  /\ saveTimer' = "none"
  /\ writing' = "writing"
  /\ UNCHANGED <<process, memory, tmp, stateFile, unheard, failures, missed, lost>>

\* Fault: the state file is written in place.
WriteTmpInPlace ==
  /\ writing = "writing"
  /\ writing' = "written"
  /\ tmp' = memory
  /\ stateFile' = Torn
  /\ UNCHANGED <<process, memory, saveTimer, unheard, failures, missed, lost>>

\* writeFileSync to the sibling file.
WriteTmp ==
  /\ writing = "writing"
  /\ writing' = "written"
  /\ tmp' = memory
  /\ UNCHANGED <<process, memory, saveTimer, stateFile, unheard, failures, missed, lost>>

\* renameSync over the state file: the old snapshot or the new one.
Rename ==
  /\ writing = "written"
  /\ writing' = "no"
  /\ stateFile' = Whole(tmp)
  /\ UNCHANGED <<process, memory, saveTimer, tmp, unheard, failures, missed, lost>>

\* Any of the calls throws: caught, logged, and not tried again by itself.
WriteFails ==
  /\ writing # "no"
  /\ failures < MaxFailures
  /\ failures' = failures + 1
  /\ writing' = "no"
  /\ missed' = TRUE
  /\ UNCHANGED <<process, memory, saveTimer, tmp, stateFile, unheard, lost>>

\* The handler of a signal flushes at once, whatever is pending, and stops
\* listening; each signal's handler runs once.
Stop(signal) ==
  /\ Up
  /\ writing = "no"
  /\ signal \in unheard
  /\ process' = "stopping"
  /\ unheard' = unheard \ {signal}
  /\ saveTimer' = "none"
  /\ writing' = "writing"
  /\ UNCHANGED <<memory, tmp, stateFile, failures, missed, lost>>

\* Every connection has closed, or two seconds have passed.
Exit ==
  /\ process = "stopping"
  /\ writing = "no"
  /\ process' = "down"
  /\ memory' = {}
  /\ saveTimer' = "none"
  /\ lost' = memory \ stateFile.facts
  /\ UNCHANGED <<writing, tmp, stateFile, unheard, failures, missed>>

\* The process dies: killed, out of memory, a thrown exception, the same signal again.
Crash ==
  /\ Up
  /\ process' = "down"
  /\ memory' = {}
  /\ saveTimer' = "none"
  /\ writing' = "no"
  /\ lost' = {}
  /\ UNCHANGED <<tmp, stateFile, unheard, failures, missed>>

\* The file cannot be read at the next boot.
Damage ==
  /\ MayDamage
  /\ process = "down"
  /\ stateFile.state = "whole"
  /\ stateFile' = Damaged
  /\ UNCHANGED <<process, memory, saveTimer, writing, tmp, unheard, failures, missed, lost>>

Flush == TimerFires \/ WriteTmp \/ Rename

SnapshotNext ==
  \/ Boot \/ Flush \/ WriteFails \/ Exit \/ Crash \/ Damage
  \/ \E f \in Facts : Record(f)
  \/ \E signal \in Signals : Stop(signal)

SnapshotSpec == SnapshotInit /\ [][SnapshotNext]_snapshotVars
-----------------------------------------------------------------------------
(* server.ts:41-49, store.ts:319-321. A running gateway knows everything   *)
(* its state file says, over any crashes and restarts: above all, no start *)
(* un-revokes a passport whose revocation was saved.                       *)
RestartKeepsWhatWasSaved == Up => stateFile.facts \subseteq memory

(* store.ts:343-366. Dying at any point of a write leaves the old snapshot *)
(* or the new one, never half of one, and a snapshot never says less than  *)
(* the one before it. Only the disk itself takes one away.                 *)
SnapshotOnlyGrows ==
  [][stateFile.state = "whole" /\ stateFile'.state # "damaged" =>
       stateFile'.state = "whole" /\ stateFile.facts \subseteq stateFile'.facts]_stateFile

(* store.ts:326-342. Whatever a serving gateway records is saved within    *)
(* the delay, unless the write fails, or the gateway stops or dies first.  *)
RecordedIsSaved ==
  \A f \in Facts :
    process = "serving" /\ f \in memory ~> f \in stateFile.facts \/ missed \/ process # "serving"

(* store.ts:89: "Shutdown writes immediately, so a clean stop loses        *)
(* nothing". Exchanges that were open when the gateway was told to stop    *)
(* write after that flush.                                                 *)
CleanStopLosesNothing == lost = {}
=============================================================================
