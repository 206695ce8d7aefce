------------------------------ MODULE EnsSetup ------------------------------
(***************************************************************************)
(* The script that registers the names and writes the passports on ENS     *)
(* (scripts/ens/setup.ts with --send), run again after every failure until *)
(* it is through: each step looks at the chain first, and is skipped when  *)
(* it is done.  Beside it the revoking of a passport                       *)
(* (scripts/ens/passport.ts revoke).                                       *)
(*                                                                         *)
(* A contract is known by what it is and by the number of the salt it was  *)
(* deployed with; None stands for no contract.  A transaction is sent,     *)
(* then mined; a script that dies in between leaves it to be mined later,  *)
(* or never.  The dry run, which sends and saves nothing, is left out.     *)
(***************************************************************************)
EXTENDS Naturals

CONSTANTS
  MaxSalts,       \* salts tried for each contract
  MaxSecrets,     \* bounds the commitments that grow too old
  MaxCrashes,     \* bounds the runs that die
  MaxMishaps,     \* bounds what befalls the state file: its losses, the setups
                  \* for another parent name
  MaxRevokes      \* bounds the revocations

ASSUME EnsSetupAssumption ==
  /\ MaxSalts \in Nat \ {0} /\ MaxSecrets \in Nat \ {0}
  /\ {MaxCrashes, MaxMishaps, MaxRevokes} \subseteq Nat

VARIABLES
  chain,          \* what is mined
  file,           \* data/ens-setup.json
  mem,            \* the state of the running script
  ownsRoot,       \* it knows the root name to be registered to the owner
  at,             \* the step of the running script
  sent,           \* its transaction that is not mined yet
  orphans,        \* transactions of runs that died
  secrets,        \* secrets drawn so far
  crashes, losses, revokes, others

setupVars == <<chain, file, mem, ownsRoot, at, sent, orphans, secrets, crashes, losses, revokes, others>>

Contracts == {"resolver", "root", "agents"}
Salts == 0..(MaxSalts - 1)
None == MaxSalts
Other == MaxSalts + 1   \* a resolver of another parent name
NoTx == [does |-> "nothing"]
NoState == [resolver |-> None, root |-> None, agents |-> None, secret |-> 0]

\* The order of the steps.
After == [resolver |-> "root", root |-> "agents", agents |-> "mint", mint |-> "allow", allow |-> "commit",
          committing |-> "register", register |-> "subname", subname |-> "parents", parents |-> "passport",
          passport |-> "records", records |-> "readback"]

SetupInit ==
  /\ chain = [deployed |-> {}, root |-> [registry |-> None, resolver |-> None],
              sub |-> [r \in Salts |-> [registry |-> None, resolver |-> None]],
              parents |-> {}, passport |-> [a \in Salts |-> None],
              status |-> [v \in Salts \cup {Other} |-> "none"],
              funds |-> FALSE, allowance |-> FALSE, commits |-> {}, charged |-> 0]
  /\ file = NoState /\ mem = NoState /\ ownsRoot = FALSE
  /\ at = "idle" /\ sent = NoTx /\ orphans = {}
  /\ secrets = 0 /\ crashes = 0 /\ losses = 0 /\ revokes = 0 /\ others = 0

SetupTypeOK ==
  /\ chain.deployed \subseteq Contracts \X Salts
  /\ chain.charged \in Nat
  /\ at \in DOMAIN After \cup {"idle", "commit", "readback", "done", "adopt"}
  /\ {mem.resolver, mem.root, mem.agents} \subseteq 0..MaxSalts
  /\ secrets \in Nat /\ ownsRoot \in BOOLEAN

Registered == chain.root.registry # None
-----------------------------------------------------------------------------
\* What each transaction needs of the chain: what fails would fail in the
\* simulation too.
Valid(tx) ==
  CASE tx.does = "deploy"   -> <<tx.what, tx.salt>> \notin chain.deployed
    [] tx.does = "register" -> /\ ~Registered /\ chain.funds /\ chain.allowance
                               /\ [secret |-> tx.secret, registry |-> tx.registry, resolver |-> tx.resolver,
                                   age |-> "ripe"] \in chain.commits
    [] tx.does = "subname"  -> chain.sub[tx.under].registry = None
    [] tx.does = "passport" -> chain.passport[tx.under] = None
    [] OTHER                -> TRUE

\* What it does to the chain.
Applied(tx) ==
  CASE tx.does = "deploy"   -> [chain EXCEPT !.deployed = @ \cup {<<tx.what, tx.salt>>}]
    [] tx.does = "mint"     -> [chain EXCEPT !.funds = TRUE]
    [] tx.does = "allow"    -> [chain EXCEPT !.allowance = TRUE]
    [] tx.does = "commit"   -> [chain EXCEPT !.commits = @ \cup {[secret |-> tx.secret, registry |-> tx.registry,
                                                                  resolver |-> tx.resolver, age |-> "new"]}]
    [] tx.does = "register" -> [chain EXCEPT !.root = [registry |-> tx.registry, resolver |-> tx.resolver],
                                             !.funds = FALSE, !.allowance = FALSE, !.charged = @ + 1]
    [] tx.does = "subname"  -> [chain EXCEPT !.sub[tx.under] = [registry |-> tx.registry, resolver |-> tx.resolver]]
    [] tx.does = "parents"  -> [chain EXCEPT !.parents = @ \cup {tx.what}]
    [] tx.does = "passport" -> [chain EXCEPT !.passport[tx.under] = tx.resolver]
    [] tx.does = "records"  -> [chain EXCEPT !.status[tx.resolver] = "active"]

\* Simulated first: a call that would fail is not sent, and ends the run.
transact(tx) ==
  IF Valid(tx) THEN sent' = tx /\ UNCHANGED at ELSE at' = "idle" /\ UNCHANGED sent

Ready(step) == at = step /\ sent = NoTx
Skip(step) == at' = After[step] /\ UNCHANGED sent

kept == <<orphans, crashes, losses, revokes, others>>
-----------------------------------------------------------------------------
\* The human runs the script: the saved state, unless it is another parent's,
\* and what is registered already, in case the file is gone.
Start ==
  /\ at \in {"idle", "done"}
  /\ LET saved == IF file.resolver = Other THEN NoState ELSE file
     IN  mem' = IF Registered THEN [saved EXCEPT !.root = chain.root.registry, !.resolver = chain.root.resolver]
                ELSE saved
  /\ ownsRoot' = Registered
  /\ at' = "resolver"
  /\ UNCHANGED <<chain, file, sent, secrets, kept>>

\* The agents' registry may be known to the chain only.
Located(what) ==
  IF what = "agents" /\ mem.agents = None THEN chain.sub[mem.root].registry ELSE mem[what]

\* Fault: only the first salt is tried.
deployProxyOnce(what) ==
  /\ Ready(what)
  /\ mem' = [mem EXCEPT ![what] = Located(what)]
  /\ IF <<what, Located(what)>> \in chain.deployed THEN Skip(what)
     ELSE IF <<what, 0>> \in chain.deployed THEN at' = "idle" /\ UNCHANGED sent
     ELSE transact([does |-> "deploy", what |-> what, salt |-> 0])
  /\ UNCHANGED <<ownsRoot, chain, file, secrets, kept>>

\* Steps 2 and 3: each contract, with the first salt that is not used yet.
deployProxy(what) ==
  /\ Ready(what)
  /\ mem' = [mem EXCEPT ![what] = Located(what)]
  /\ LET free == {i \in Salts : <<what, i>> \notin chain.deployed}
     IN  IF <<what, Located(what)>> \in chain.deployed THEN Skip(what)
         ELSE IF free = {} THEN at' = "idle" /\ UNCHANGED sent
         ELSE \E first \in free :
                /\ \A i \in free : first <= i
                /\ transact([does |-> "deploy", what |-> what, salt |-> first])
  /\ UNCHANGED <<ownsRoot, chain, file, secrets, kept>>

\* Fault: the name is looked up again, and not what it points to.
PayLookup(step, has) ==
  /\ Ready(step)
  /\ IF Registered THEN at' = "subname" /\ UNCHANGED sent
     ELSE IF has THEN Skip(step) ELSE transact([does |-> step])
  /\ UNCHANGED <<ownsRoot, chain, file, mem, secrets, kept>>

\* Step 4: the fee, the allowance.
Pay(step, has) ==
  /\ Ready(step)
  /\ IF ownsRoot THEN at' = "subname" /\ UNCHANGED sent
     ELSE IF has THEN Skip(step) ELSE transact([does |-> step])
  /\ UNCHANGED <<ownsRoot, chain, file, mem, secrets, kept>>

Committed(c) == c.secret = mem.secret /\ c.registry = mem.root /\ c.resolver = mem.resolver

\* Fault: the secret is not saved before it is committed to.
CommitUnsaved ==
  /\ Ready("commit")
  /\ IF \E c \in chain.commits : Committed(c) /\ c.age # "expired"
     THEN at' = "register" /\ UNCHANGED <<file, mem, secrets>>
     ELSE /\ secrets' = secrets + 1
          /\ mem' = [mem EXCEPT !.secret = secrets + 1]
          /\ UNCHANGED file
          /\ at' = "committing"
  /\ UNCHANGED <<ownsRoot, chain, sent, kept>>

\* A commitment that can still be used is; otherwise a new secret is drawn and
\* saved before it is committed to.
Commit ==
  /\ Ready("commit")
  /\ IF \E c \in chain.commits : Committed(c) /\ c.age # "expired"
     THEN at' = "register" /\ UNCHANGED <<file, mem, secrets>>
     ELSE /\ secrets' = secrets + 1
          /\ mem' = [mem EXCEPT !.secret = secrets + 1]
          /\ file' = mem'
          /\ at' = "committing"
  /\ UNCHANGED <<ownsRoot, chain, sent, kept>>

SendCommit ==
  /\ Ready("committing")
  /\ transact([does |-> "commit", secret |-> mem.secret, registry |-> mem.root, resolver |-> mem.resolver])
  /\ UNCHANGED <<ownsRoot, chain, file, mem, secrets, kept>>

\* The registration waits for the commitment to be old enough.
Register ==
  /\ Ready("register")
  /\ \E c \in chain.commits : Committed(c) /\ c.age # "new"
  /\ transact([does |-> "register", secret |-> mem.secret, registry |-> mem.root, resolver |-> mem.resolver])
  /\ UNCHANGED <<ownsRoot, chain, file, mem, secrets, kept>>

\* Step 5: a registry of another run is not taken over.
Subname ==
  /\ Ready("subname")
  /\ LET current == chain.sub[mem.root].registry
     IN  IF current = mem.agents THEN Skip("subname")
         ELSE IF current # None THEN at' = "adopt" /\ UNCHANGED sent
         ELSE transact([does |-> "subname", under |-> mem.root, registry |-> mem.agents, resolver |-> mem.resolver])
  /\ UNCHANGED <<ownsRoot, chain, file, mem, secrets, kept>>

\* The human follows the advice to delete the state file.
Adopt ==
  /\ at = "adopt"
  /\ file' = NoState
  /\ at' = "idle"
  /\ UNCHANGED <<ownsRoot, chain, mem, sent, secrets, kept>>

\* Step 6: the parent pointers, which nothing depends on; one that cannot be set is left.
SetParents ==
  /\ Ready("parents")
  /\ LET missing == {<<"root", mem.root>>, <<"agents", mem.agents>>} \ chain.parents
     IN  \/ missing = {} /\ Skip("parents")
         \/ \E link \in missing : transact([does |-> "parents", what |-> link])
         \/ missing # {} /\ Skip("parents")
  /\ UNCHANGED <<ownsRoot, chain, file, mem, secrets, kept>>

\* Step 7: the passport, then all its records at once, where they differ.
RegisterPassport ==
  /\ Ready("passport")
  /\ IF chain.passport[mem.agents] # None THEN Skip("passport")
     ELSE transact([does |-> "passport", under |-> mem.agents, resolver |-> mem.resolver])
  /\ UNCHANGED <<ownsRoot, chain, file, mem, secrets, kept>>

WriteRecords ==
  /\ Ready("records")
  /\ IF chain.status[mem.resolver] = "active" THEN Skip("records")
     ELSE transact([does |-> "records", resolver |-> mem.resolver])
  /\ UNCHANGED <<ownsRoot, chain, file, mem, secrets, kept>>

\* The name as the gateway resolves it: from the root down.
Resolved ==
  LET registry == chain.root.registry
      agents == IF registry = None THEN None ELSE chain.sub[registry].registry
      resolver == IF agents = None THEN None ELSE chain.passport[agents]
  IN  IF resolver = None THEN "none" ELSE chain.status[resolver]

\* Step 8: read back.
ReadBack ==
  /\ Ready("readback")
  /\ at' = IF Resolved = "active" THEN "done" ELSE "idle"
  /\ UNCHANGED <<ownsRoot, chain, file, mem, sent, secrets, kept>>
-----------------------------------------------------------------------------
\* The script's transaction is mined: what was deployed is saved, and so is
\* that the secret is used up.
Mined ==
  /\ sent # NoTx /\ Valid(sent)
  /\ chain' = Applied(sent)
  /\ at' = IF at = "parents" THEN at ELSE After[at]
  /\ mem' = CASE sent.does = "deploy"   -> [mem EXCEPT ![sent.what] = sent.salt]
              [] sent.does = "register" -> [mem EXCEPT !.secret = 0]
              [] OTHER                  -> mem
  /\ file' = IF sent.does \in {"deploy", "register"} THEN mem' ELSE file
  /\ sent' = NoTx
  /\ ownsRoot' = (ownsRoot \/ sent.does = "register")
  /\ UNCHANGED <<orphans, secrets, crashes, losses, revokes, others>>

\* Mined, and it reverts: the run ends.
Reverted ==
  /\ sent # NoTx /\ ~Valid(sent)
  /\ sent' = NoTx
  /\ at' = "idle"
  /\ UNCHANGED <<ownsRoot, chain, file, mem, secrets, kept>>

\* The run dies: killed, cut off from the chain, or tired of waiting.
ScriptCrashes ==
  /\ crashes < MaxCrashes
  /\ at \notin {"idle", "done", "adopt"}
  /\ crashes' = crashes + 1
  /\ orphans' = IF sent = NoTx THEN orphans ELSE orphans \cup {sent}
  /\ sent' = NoTx
  /\ at' = "idle"
  /\ UNCHANGED <<ownsRoot, chain, file, mem, secrets, losses, revokes, others>>

\* Dead too between the mining and the saving of what was mined.
ScriptCrashesUnsaved ==
  /\ crashes < MaxCrashes
  /\ sent # NoTx /\ Valid(sent)
  /\ crashes' = crashes + 1
  /\ chain' = Applied(sent)
  /\ sent' = NoTx
  /\ at' = "idle"
  /\ UNCHANGED <<ownsRoot, file, mem, orphans, secrets, losses, revokes, others>>

\* A transaction of a dead run is mined after all, or dropped.
OrphanMined(tx) ==
  /\ orphans' = orphans \ {tx}
  /\ \/ Valid(tx) /\ chain' = Applied(tx)
     \/ UNCHANGED chain
  /\ UNCHANGED <<ownsRoot, file, mem, at, sent, secrets, crashes, losses, revokes, others>>

\* A commitment grows old, and too old when no run is about to use it (a run
\* waits a minute, a commitment lasts a day).
CommitAges(c) ==
  /\ c.age # "expired"
  /\ chain' = [chain EXCEPT !.commits = (@ \ {c}) \cup {[c EXCEPT !.age = IF c.age = "new" THEN "ripe" ELSE "expired"]}]
  /\ c.age = "ripe" => secrets < MaxSecrets /\ at # "register"
  /\ UNCHANGED <<ownsRoot, file, mem, at, sent, secrets, kept>>

\* The state file is lost, or spoilt by a crash while it is written.
LoseFile ==
  /\ losses + others < MaxMishaps
  /\ file # NoState
  /\ losses' = losses + 1
  /\ file' = NoState
  /\ UNCHANGED <<ownsRoot, chain, mem, at, sent, orphans, secrets, crashes, revokes, others>>

\* The script is run for another parent name, and saves what it deployed there.
SetUpOther ==
  /\ losses + others < MaxMishaps
  /\ at \in {"idle", "done"}
  /\ others' = others + 1
  /\ file' = [NoState EXCEPT !.resolver = Other]
  /\ UNCHANGED <<ownsRoot, chain, mem, at, sent, orphans, secrets, crashes, losses, revokes>>

\* passport.ts revoke, with the resolver that the state file names.
revoke ==
  /\ revokes < MaxRevokes
  /\ at \in {"idle", "done"} /\ orphans = {}
  /\ Resolved = "active"
  /\ file.resolver # None
  /\ revokes' = revokes + 1
  /\ chain' = [chain EXCEPT !.status[file.resolver] = "revoked"]
  /\ UNCHANGED <<ownsRoot, file, mem, at, sent, orphans, secrets, crashes, losses, others>>

ScriptStep ==
  \/ \E what \in Contracts : deployProxy(what)
  \/ Pay("mint", chain.funds) \/ Pay("allow", chain.allowance)
  \/ Commit \/ SendCommit \/ Register \/ Subname \/ SetParents \/ RegisterPassport \/ WriteRecords \/ ReadBack
  \/ Mined \/ Reverted \/ Adopt

ChainStep ==
  \/ \E tx \in orphans : OrphanMined(tx)
  \/ \E c \in chain.commits : CommitAges(c)

Rerun == at = "idle" /\ Start

SetupNext ==
  \/ Start \/ ScriptStep \/ ChainStep
  \/ ScriptCrashes \/ ScriptCrashesUnsaved \/ LoseFile \/ SetUpOther \/ revoke

SetupSpec == SetupInit /\ [][SetupNext]_setupVars
-----------------------------------------------------------------------------
(* setup.ts:11, 467-473, 515. Whatever is interrupted, lost or mined late, *)
(* every name that was registered points to the one resolver that holds    *)
(* the records, and the registration was paid for once.                    *)
NamesAreWhole ==
  Registered =>
    LET sub == chain.sub[chain.root.registry]
    IN  /\ chain.charged = 1
        /\ {<<"root", chain.root.registry>>, <<"resolver", chain.root.resolver>>} \subseteq chain.deployed
        /\ sub.registry # None => /\ sub.resolver = chain.root.resolver
                                  /\ chain.passport[sub.registry] \in {None, chain.root.resolver}

(* setup.ts:578-590. Before the name is registered, a commitment made with *)
(* the last secret drawn can be revealed by the next run, wherever this    *)
(* one dies, as long as the state file is neither lost nor another         *)
(* setup's.                                                                *)
CommitmentIsKept ==
  losses = 0 /\ others = 0 /\ ~Registered =>
    \A c \in chain.commits : c.secret = secrets => file.secret = c.secret

(* setup.ts:19, 383-408. The script is safe to run again: once begun, and  *)
(* run after every failure, it gets through in the end, also when earlier  *)
(* runs used up salts, left commitments to expire or lost their file.      *)
GetsThrough == at = "resolver" ~> at = "done"
=============================================================================
