----------------------------- MODULE SetupProofs ----------------------------
(***************************************************************************)
(* What the scripts run by hand leave behind, however often they die and   *)
(* are run again: the names on ENS (module EnsSetup) and the gateway's     *)
(* account (module HederaSetup).                                           *)
(***************************************************************************)
EXTENDS EnsSetup, HederaSetup, TLAPS

-----------------------------------------------------------------------------
(*                          The names on the chain                         *)

Refs == Salts \cup {None}
Entries == [registry : Refs, resolver : Refs]
Commitments == [secret : Nat, registry : Refs, resolver : Refs, age : {"new", "ripe", "expired"}]

Chains ==
  [deployed : SUBSET (Contracts \X Salts),
   root : Entries,
   sub : [Salts -> Entries],
   parents : SUBSET (Contracts \X Refs),
   passport : [Salts -> Refs],
   status : [Salts \cup {Other} -> {"none", "active", "revoked"}],
   funds : BOOLEAN, allowance : BOOLEAN,
   commits : SUBSET Commitments,
   charged : Nat]

Transactions ==
  [does : {"deploy"}, what : Contracts, salt : Salts]
  \cup [does : {"mint", "allow"}]
  \cup [does : {"commit", "register"}, secret : Nat, registry : Salts, resolver : Salts]
  \cup [does : {"subname"}, under : Salts, registry : Salts, resolver : Salts]
  \cup [does : {"parents"}, what : Contracts \X Refs]
  \cup [does : {"passport"}, under : Salts, resolver : Salts]
  \cup [does : {"records"}, resolver : Salts]

States(resolvers) == [resolver : resolvers, root : Refs, agents : Refs, secret : Nat]

Deployed(what, salt) == <<what, salt>> \in chain.deployed

\* What is mined: one registration at most, paid for once, of contracts that
\* exist, and under it only what points to its resolver.
ChainInv ==
  /\ chain \in Chains
  /\ chain.charged = IF Registered THEN 1 ELSE 0
  /\ Registered => Deployed("root", chain.root.registry) /\ Deployed("resolver", chain.root.resolver)
  /\ \A c \in chain.commits : Deployed("root", c.registry) /\ Deployed("resolver", c.resolver)
  /\ \A r \in Salts :
       chain.sub[r].registry # None =>
         Registered /\ chain.sub[r].resolver = chain.root.resolver /\ Deployed("agents", chain.sub[r].registry)
  /\ \A a \in Salts : chain.passport[a] # None => Registered /\ chain.passport[a] = chain.root.resolver

\* A transaction that may be mined at any later time keeps it so: it names
\* contracts that exist, and what it puts under the name points to the name's
\* resolver, which is then registered already.
Sound(tx) ==
  /\ tx \in Transactions
  /\ tx.does \in {"commit", "register"} => Deployed("root", tx.registry) /\ Deployed("resolver", tx.resolver)
  /\ tx.does = "subname" =>
       Registered /\ tx.resolver = chain.root.resolver /\ Deployed("agents", tx.registry)
  /\ tx.does = "passport" => Registered /\ tx.resolver = chain.root.resolver

\* The transaction of a running script is that of its step.
OfItsStep ==
  \/ /\ at \in Contracts /\ sent.does = "deploy" /\ sent.what = at
     /\ at = "agents" \/ ~ownsRoot
  \/ /\ at = "committing" /\ sent.does = "commit"
  \/ /\ at = "register" /\ sent.does = "register"
     /\ sent.registry = mem.root /\ sent.resolver = mem.resolver
  \/ /\ at \in {"mint", "allow", "subname", "parents", "passport", "records"} /\ sent.does = at

TxInv ==
  /\ \A tx \in orphans : Sound(tx)
  /\ sent # NoTx => Sound(sent) /\ OfItsStep

Paying == {"mint", "allow", "commit", "committing", "register"}
Owned == {"subname", "parents", "passport", "records", "readback", "adopt"}
Running == at \notin {"idle", "done"}

\* What the running script knows: the contracts of the steps behind it exist,
\* and once it owns the name they are the name's.
RunInv ==
  /\ at \in {"idle", "done", "resolver", "root", "agents"} \cup Paying \cup Owned
  /\ mem \in States(Refs) /\ file \in States(Refs \cup {Other}) /\ ownsRoot \in BOOLEAN
  /\ at \in {"root", "agents"} \cup Paying \cup Owned => Deployed("resolver", mem.resolver)
  /\ at \in {"agents"} \cup Paying \cup Owned => Deployed("root", mem.root)
  /\ at \in Paying \cup Owned => Deployed("agents", mem.agents)
  /\ at \in Owned => ownsRoot
  /\ ownsRoot /\ Running =>
       Registered /\ mem.root = chain.root.registry /\ mem.resolver = chain.root.resolver

\* The last secret drawn is in the file until the name is registered, and a
\* running script holds the secret of the file.
SecretInv ==
  /\ secrets \in Nat /\ losses \in Nat /\ others \in Nat
  /\ losses = 0 /\ others = 0 =>
       /\ file.resolver # Other
       /\ Running => mem.secret = file.secret
       /\ ~Registered => file.secret = secrets

EnsInv == ChainInv /\ TxInv /\ RunInv /\ SecretInv

-----------------------------------------------------------------------------
(*                     What a transaction does to the chain                *)

\* Contracts stay, and so does what the root name points to.
Grows ==
  /\ chain.deployed \subseteq chain'.deployed
  /\ Registered => chain'.root = chain.root

\* Each transaction changes the fields it is about.
LEMMA Effects ==
  ASSUME NEW tx \in Transactions, chain \in Chains, chain' = Applied(tx)
  PROVE  /\ chain' \in Chains
         /\ chain'.deployed = IF tx.does = "deploy" THEN chain.deployed \cup {<<tx.what, tx.salt>>}
                              ELSE chain.deployed
         /\ chain'.root = IF tx.does = "register" THEN [registry |-> tx.registry, resolver |-> tx.resolver]
                          ELSE chain.root
         /\ chain'.charged = IF tx.does = "register" THEN chain.charged + 1 ELSE chain.charged
         /\ \A c \in chain'.commits :
              \/ c \in chain.commits
              \/ tx.does = "commit" /\ c.registry = tx.registry /\ c.resolver = tx.resolver
         /\ \A r \in Salts :
              chain'.sub[r] = IF tx.does = "subname" /\ r = tx.under
                              THEN [registry |-> tx.registry, resolver |-> tx.resolver] ELSE chain.sub[r]
         /\ \A a \in Salts :
              chain'.passport[a] = IF tx.does = "passport" /\ a = tx.under THEN tx.resolver
                                   ELSE chain.passport[a]
<1>1. CASE tx.does = "deploy"
  <2> DEFINE deployed == chain.deployed \cup {<<tx.what, tx.salt>>}
  <2>1. tx.what \in Contracts /\ tx.salt \in Salts
    BY <1>1 DEF Transactions
  <2>2. chain.deployed \in SUBSET (Contracts \X Salts)
    BY DEF Chains
  <2>3. deployed \in SUBSET (Contracts \X Salts)
    BY <2>1, <2>2
  <2>4. chain' = [chain EXCEPT !.deployed = deployed]
    BY <1>1 DEF Applied
  <2>5. deployed = chain.deployed \cup {<<tx.what, tx.salt>>}
    OBVIOUS
  <2> HIDE DEF deployed
  <2> QED BY <1>1, <2>3, <2>4, <2>5 DEF Chains
<1>2. CASE tx.does \in {"mint", "allow"}
  BY <1>2 DEF Chains, Applied
<1>3. CASE tx.does = "commit"
  <2> DEFINE c == [secret |-> tx.secret, registry |-> tx.registry, resolver |-> tx.resolver, age |-> "new"]
             commits == chain.commits \cup {c}
  <2>1. tx.secret \in Nat /\ tx.registry \in Salts /\ tx.resolver \in Salts
    BY <1>3 DEF Transactions
  <2>2. c \in Commitments /\ c.registry = tx.registry /\ c.resolver = tx.resolver
    BY <2>1 DEF Commitments, Refs
  <2>3. chain' = [chain EXCEPT !.commits = commits]
    BY <1>3 DEF Applied
  <2>4. chain.commits \in SUBSET Commitments
    BY DEF Chains
  <2> HIDE DEF c
  <2>5. commits \in SUBSET Commitments /\ (\A d \in commits : d \in chain.commits \/ d = c)
    BY <2>2, <2>4
  <2> HIDE DEF commits
  <2>6. chain'.commits = commits
    BY <2>3 DEF Chains
  <2>7. chain' \in Chains
    BY <2>3, <2>5 DEF Chains
  <2> QED BY <1>3, <2>2, <2>3, <2>5, <2>6, <2>7 DEF Chains
<1>4. CASE tx.does = "register"
  <2> DEFINE entry == [registry |-> tx.registry, resolver |-> tx.resolver]
  <2>1. tx.registry \in Salts /\ tx.resolver \in Salts
    BY <1>4 DEF Transactions
  <2>2. entry \in Entries
    BY <2>1 DEF Entries, Refs
  <2>3. chain' = [chain EXCEPT !.root = entry, !.funds = FALSE, !.allowance = FALSE, !.charged = @ + 1]
    BY <1>4 DEF Applied
  <2>4. entry = [registry |-> tx.registry, resolver |-> tx.resolver]
    OBVIOUS
  <2> HIDE DEF entry
  <2> DEFINE charged == chain.charged + 1
             paid == [chain EXCEPT !.root = entry, !.charged = charged]
  <2>5. charged \in Nat
    BY DEF Chains
  <2>6. chain' = [paid EXCEPT !.funds = FALSE, !.allowance = FALSE]
    BY <2>3 DEF Chains
  <2> HIDE DEF charged
  <2>7. paid \in Chains
    BY <2>2, <2>5 DEF Chains
  <2> HIDE DEF paid
  <2>8. chain' \in Chains
    BY <2>6, <2>7 DEF Chains
  <2>9. /\ chain'.root = entry /\ chain'.charged = chain.charged + 1
        /\ chain'.deployed = chain.deployed /\ chain'.commits = chain.commits
        /\ chain'.sub = chain.sub /\ chain'.passport = chain.passport
    BY <2>3 DEF Chains
  <2> QED BY <1>4, <2>4, <2>8, <2>9
<1>5. CASE tx.does = "subname"
  <2> DEFINE entry == [registry |-> tx.registry, resolver |-> tx.resolver]
             sub == [chain.sub EXCEPT ![tx.under] = entry]
  <2>1. tx.under \in Salts /\ tx.registry \in Salts /\ tx.resolver \in Salts
    BY <1>5 DEF Transactions
  <2>2. entry \in Entries
    BY <2>1 DEF Entries, Refs
  <2>3. chain' = [chain EXCEPT !.sub = sub]
    BY <1>5 DEF Applied
  <2>4. chain.sub \in [Salts -> Entries]
    BY DEF Chains
  <2> HIDE DEF entry
  <2>5. sub \in [Salts -> Entries] /\ \A r \in Salts : sub[r] = IF r = tx.under THEN entry ELSE chain.sub[r]
    BY <2>1, <2>2, <2>4
  <2> HIDE DEF sub
  <2>6. chain'.sub = sub /\ chain' \in Chains
    BY <2>3, <2>5 DEF Chains
  <2>7. /\ chain'.deployed = chain.deployed /\ chain'.root = chain.root /\ chain'.charged = chain.charged
        /\ chain'.commits = chain.commits /\ chain'.passport = chain.passport
    BY <2>3 DEF Chains
  <2> QED BY <1>5, <2>5, <2>6, <2>7 DEF entry
<1>6. CASE tx.does = "parents"
  <2> DEFINE parents == chain.parents \cup {tx.what}
  <2>1. tx.what \in Contracts \X Refs
    BY <1>6 DEF Transactions
  <2>2. chain.parents \in SUBSET (Contracts \X Refs)
    BY DEF Chains
  <2>3. parents \in SUBSET (Contracts \X Refs)
    BY <2>1, <2>2
  <2>4. chain' = [chain EXCEPT !.parents = parents]
    BY <1>6 DEF Applied
  <2> HIDE DEF parents
  <2> QED BY <1>6, <2>3, <2>4 DEF Chains
<1>7. CASE tx.does = "passport"
  <2> DEFINE passport == [chain.passport EXCEPT ![tx.under] = tx.resolver]
  <2>1. tx.under \in Salts /\ tx.resolver \in Refs
    BY <1>7 DEF Transactions, Refs
  <2>2. chain' = [chain EXCEPT !.passport = passport]
    BY <1>7 DEF Applied
  <2>3. chain.passport \in [Salts -> Refs]
    BY DEF Chains
  <2>4. /\ passport \in [Salts -> Refs]
        /\ \A a \in Salts : passport[a] = IF a = tx.under THEN tx.resolver ELSE chain.passport[a]
    BY <2>1, <2>3
  <2> HIDE DEF passport
  <2>5. chain'.passport = passport /\ chain' \in Chains
    BY <2>2, <2>4 DEF Chains
  <2>6. /\ chain'.deployed = chain.deployed /\ chain'.root = chain.root /\ chain'.charged = chain.charged
        /\ chain'.commits = chain.commits /\ chain'.sub = chain.sub
    BY <2>2 DEF Chains
  <2> QED BY <1>7, <2>4, <2>5, <2>6
<1>8. CASE tx.does = "records"
  <2> DEFINE status == [chain.status EXCEPT ![tx.resolver] = "active"]
  <2>1. chain.status \in [Salts \cup {Other} -> {"none", "active", "revoked"}]
    BY DEF Chains
  <2>2. status \in [Salts \cup {Other} -> {"none", "active", "revoked"}]
    BY <2>1
  <2>3. chain' = [chain EXCEPT !.status = status]
    BY <1>8 DEF Applied
  <2> HIDE DEF status
  <2> QED BY <1>8, <2>2, <2>3 DEF Chains
<1> QED BY <1>1, <1>2, <1>3, <1>4, <1>5, <1>6, <1>7, <1>8 DEF Transactions

\* None is the number of no contract, and a name with a contract is registered.
LEMMA NoneIsNoSalt == None \notin Salts
BY EnsSetupAssumption DEF None, Salts

LEMMA DeployedIsSalt ==
  ASSUME ChainInv, NEW what, NEW salt, Deployed(what, salt) PROVE salt \in Salts
BY DEF ChainInv, Chains, Deployed

\* What may be mined later may still be when the chain has grown.
LEMMA SoundStays == ASSUME NEW tx, Sound(tx), ChainInv, Grows PROVE Sound(tx)'
<1>1. \A what, salt : Deployed(what, salt) => Deployed(what, salt)'
  BY DEF Grows, Deployed
<1>2. Registered => Registered' /\ chain'.root = chain.root
  BY DEF Grows, Registered
<1> QED BY <1>1, <1>2 DEF Sound

\* A transaction that may be mined keeps the chain as it should be.
LEMMA MinedKeeps ==
  ASSUME NEW tx, ChainInv, Sound(tx), Valid(tx), chain' = Applied(tx)
  PROVE  ChainInv' /\ Grows
<1> DEFINE registers == tx.does = "register"
<1>1. tx \in Transactions /\ chain \in Chains
  BY DEF Sound, ChainInv
<1>2. Grows
  <2>1. registers => ~Registered
    BY DEF Valid
  <2> QED BY <1>1, <2>1, Effects DEF Grows
<1>3. \A what, salt : Deployed(what, salt) => Deployed(what, salt)'
  BY <1>2 DEF Grows, Deployed
<1>4. Registered => Registered' /\ chain'.root = chain.root
  BY <1>2 DEF Grows, Registered
<1>5. CASE registers
  <2>1. ~Registered /\ Deployed("root", tx.registry) /\ Deployed("resolver", tx.resolver)
    BY <1>5 DEF Valid, Sound
  <2>2. tx.registry # None
    BY <2>1, DeployedIsSalt, NoneIsNoSalt
  <2>3. chain' \in Chains
    BY <1>1, Effects
  <2>4. chain'.root = [registry |-> tx.registry, resolver |-> tx.resolver]
    BY <1>1, <1>5, Effects
  <2>5. /\ chain'.charged = chain.charged + 1
        /\ \A c \in chain'.commits : c \in chain.commits
        /\ \A r \in Salts : chain'.sub[r] = chain.sub[r]
        /\ \A a \in Salts : chain'.passport[a] = chain.passport[a]
    BY <1>1, <1>5, Effects
  <2>6. Registered' /\ chain'.root.registry = tx.registry /\ chain'.root.resolver = tx.resolver
    BY <2>2, <2>4 DEF Registered
  <2> QED BY <1>2, <1>3, <2>1, <2>3, <2>5, <2>6 DEF ChainInv
<1>6. CASE ~registers
  <2>1. chain' \in Chains /\ chain'.root = chain.root /\ chain'.charged = chain.charged
    BY <1>1, <1>6, Effects
  <2>2. Registered' = Registered
    BY <2>1 DEF Registered
  <2>3. \A c \in chain'.commits : Deployed("root", c.registry)' /\ Deployed("resolver", c.resolver)'
    <3> SUFFICES ASSUME NEW c \in chain'.commits
                 PROVE  Deployed("root", c.registry)' /\ Deployed("resolver", c.resolver)'
      OBVIOUS
    <3>1. c \in chain.commits \/ (tx.does = "commit" /\ c.registry = tx.registry /\ c.resolver = tx.resolver)
      BY <1>1, Effects
    <3> QED BY <1>3, <3>1 DEF ChainInv, Sound
  <2>4. ASSUME NEW r \in Salts, chain'.sub[r].registry # None
        PROVE  /\ Registered /\ chain'.sub[r].resolver = chain.root.resolver
               /\ Deployed("agents", chain'.sub[r].registry)
    <3>1. \/ chain'.sub[r] = chain.sub[r]
          \/ tx.does = "subname" /\ chain'.sub[r] = [registry |-> tx.registry, resolver |-> tx.resolver]
      BY <1>1, Effects
    <3> QED BY <2>4, <3>1 DEF ChainInv, Sound
  <2>5. ASSUME NEW a \in Salts, chain'.passport[a] # None
        PROVE  Registered /\ chain'.passport[a] = chain.root.resolver
    <3>1. \/ chain'.passport[a] = chain.passport[a]
          \/ tx.does = "passport" /\ chain'.passport[a] = tx.resolver
      BY <1>1, Effects
    <3> QED BY <2>5, <3>1 DEF ChainInv, Sound
  <2> QED BY <1>2, <1>3, <2>1, <2>2, <2>3, <2>4, <2>5 DEF ChainInv
<1> QED BY <1>2, <1>5, <1>6
-----------------------------------------------------------------------------
(*                        The steps of the script                          *)

\* The chain begins with no contract, and the script with no state.
LEMMA EnsInvInit == SetupInit => EnsInv
<1> SUFFICES ASSUME SetupInit PROVE EnsInv
  OBVIOUS
<1>1. ChainInv
  <2> DEFINE sub == [r \in Salts |-> [registry |-> None, resolver |-> None]]
             passport == [a \in Salts |-> None]
             status == [v \in Salts \cup {Other} |-> "none"]
             entry == [registry |-> None, resolver |-> None]
  <2>1. /\ sub \in [Salts -> Entries] /\ passport \in [Salts -> Refs] /\ entry \in Entries
        /\ status \in [Salts \cup {Other} -> {"none", "active", "revoked"}]
    BY DEF Entries, Refs
  <2>2. /\ \A r \in Salts : sub[r].registry = None
        /\ \A a \in Salts : passport[a] = None
        /\ entry.registry = None
    OBVIOUS
  <2>3. chain = [deployed |-> {}, root |-> entry, sub |-> sub, parents |-> {}, passport |-> passport,
                 status |-> status, funds |-> FALSE, allowance |-> FALSE, commits |-> {}, charged |-> 0]
    BY DEF SetupInit
  <2> HIDE DEF sub, passport, status, entry
  <2>4. chain \in Chains
    BY <2>1, <2>3 DEF Chains
  <2> QED BY <2>2, <2>3, <2>4 DEF ChainInv, Registered
<1>2. TxInv
  BY DEF SetupInit, TxInv
<1>3. RunInv
  BY DEF SetupInit, RunInv, Running, NoState, States, Refs, Paying, Owned
<1>4. SecretInv
  BY EnsSetupAssumption DEF SetupInit, SecretInv, Running, NoState, None, Other
<1> QED BY <1>1, <1>2, <1>3, <1>4 DEF EnsInv

\* A script that does not run has sent nothing.
LEMMA IdleSendsNothing == EnsInv /\ ~Running => sent = NoTx
BY DEF EnsInv, TxInv, OfItsStep, Running, Contracts, RunInv

\* The contracts of a registered name exist.
LEMMA OwnedExists ==
  EnsInv /\ ownsRoot /\ Running =>
    Registered /\ Deployed("root", mem.root) /\ Deployed("resolver", mem.resolver)
BY DEF EnsInv, ChainInv, RunInv

looked == <<ownsRoot, chain, file, mem, secrets, kept>>

\* A step that looks at the chain and goes on, stops, or sends what is sound.
LEMMA LookKeeps ==
  ASSUME EnsInv, UNCHANGED looked, Running,
         at' \in {"idle", "done", "resolver", "root", "agents"} \cup Paying \cup Owned,
         at' \in {"root", "agents"} \cup Paying \cup Owned => Deployed("resolver", mem.resolver),
         at' \in {"agents"} \cup Paying \cup Owned => Deployed("root", mem.root),
         at' \in Paying \cup Owned => Deployed("agents", mem.agents),
         at' \in Owned => ownsRoot,
         sent' # NoTx => Sound(sent') /\ OfItsStep'
  PROVE  EnsInv'
<1>1. ChainInv'
  BY DEF EnsInv, ChainInv, Registered, Deployed, looked
<1>2. TxInv'
  <2>1. \A tx : Sound(tx) => Sound(tx)'
    BY DEF looked, Sound, Registered, Deployed
  <2> QED BY <2>1 DEF EnsInv, TxInv, looked, kept, Sound, Registered, Deployed
<1>3. RunInv'
  BY DEF EnsInv, RunInv, looked, Running, Registered, Deployed
<1>4. SecretInv'
  BY DEF EnsInv, SecretInv, looked, kept, Running, Registered
<1> QED BY <1>1, <1>2, <1>3, <1>4 DEF EnsInv

\* The fee and the allowance.
LEMMA PayKeeps ==
  ASSUME EnsInv, NEW fee \in {"mint", "allow"}, NEW has, Pay(fee, has)
  PROVE  EnsInv'
<1>1. /\ at = fee /\ sent = NoTx /\ Running /\ UNCHANGED looked
      /\ Deployed("resolver", mem.resolver) /\ Deployed("root", mem.root) /\ Deployed("agents", mem.agents)
  BY DEF Pay, Ready, Running, EnsInv, RunInv, Paying, looked
<1>2. CASE ownsRoot
  BY <1>1, <1>2, LookKeeps DEF Pay, Owned
<1>3. CASE ~ownsRoot /\ has
  BY <1>1, <1>3, LookKeeps DEF Pay, Skip, After, Paying, Owned
<1>4. CASE ~ownsRoot /\ ~has
  <2>1. Sound([does |-> fee]) /\ [does |-> fee].does = fee
    BY DEF Sound, Transactions
  <2>2. CASE sent' = [does |-> fee] /\ at' = at
    BY <1>1, <2>1, <2>2, LookKeeps DEF OfItsStep, Paying, Owned
  <2>3. CASE at' = "idle" /\ sent' = NoTx
    BY <1>1, <2>3, LookKeeps DEF Paying, Owned
  <2> QED BY <1>1, <1>4, <2>2, <2>3 DEF Pay, transact
<1> QED BY <1>2, <1>3, <1>4

\* What a running step knows.
LEMMA StepKnows ==
  ASSUME EnsInv, at \in Paying \cup Owned
  PROVE  /\ Running
         /\ Deployed("resolver", mem.resolver) /\ Deployed("root", mem.root)
         /\ Deployed("agents", mem.agents)
         /\ mem.resolver \in Salts /\ mem.root \in Salts /\ mem.agents \in Salts
         /\ mem.secret \in Nat
         /\ at \in Owned => ownsRoot /\ Registered /\ mem.resolver = chain.root.resolver
<1>1. /\ Running /\ Deployed("resolver", mem.resolver) /\ Deployed("root", mem.root)
      /\ Deployed("agents", mem.agents)
      /\ at \in Owned => ownsRoot /\ Registered /\ mem.resolver = chain.root.resolver
  BY DEF EnsInv, RunInv, Running, Paying, Owned
<1>2. mem.secret \in Nat
  BY DEF EnsInv, RunInv, States
<1> QED BY <1>1, <1>2, DeployedIsSalt DEF EnsInv

\* A transaction of a step is sent, or the run ends.
LEMMA TransactKeeps ==
  ASSUME EnsInv, at \in Paying \cup Owned, sent = NoTx, UNCHANGED looked, NEW tx, transact(tx),
         Sound(tx),
         \/ at = "committing" /\ tx.does = "commit"
         \/ at = "register" /\ tx.does = "register" /\ tx.registry = mem.root /\ tx.resolver = mem.resolver
         \/ at \in {"mint", "allow", "subname", "parents", "passport", "records"} /\ tx.does = at
  PROVE  EnsInv'
<1>1. CASE sent' = tx /\ at' = at
  <2>1. OfItsStep'
    BY <1>1 DEF OfItsStep, looked
  <2> QED BY <1>1, <2>1, StepKnows, LookKeeps DEF Owned, Paying
<1>2. CASE at' = "idle" /\ sent' = NoTx
  BY <1>2, StepKnows, LookKeeps DEF Owned, Paying
<1> QED BY <1>1, <1>2 DEF transact

\* A step that is done already is skipped.
LEMMA SkipKeeps ==
  ASSUME EnsInv, at \in Paying \cup Owned, sent' = NoTx, UNCHANGED looked,
         \/ at' \in {"idle", "done"} \cup Paying
         \/ at' \in Owned /\ ownsRoot
  PROVE  EnsInv'
BY StepKnows, LookKeeps DEF Owned, Paying

LEMMA SendCommitKeeps == ASSUME EnsInv, SendCommit PROVE EnsInv'
<1> DEFINE tx == [does |-> "commit", secret |-> mem.secret, registry |-> mem.root, resolver |-> mem.resolver]
<1>1. at = "committing" /\ at \in Paying \cup Owned /\ sent = NoTx /\ UNCHANGED looked /\ transact(tx)
  BY DEF SendCommit, Ready, looked, Paying
<1>2. Sound(tx)
  BY <1>1, StepKnows DEF Sound, Transactions
<1> QED BY <1>1, <1>2, TransactKeeps

LEMMA RegisterKeeps == ASSUME EnsInv, Register PROVE EnsInv'
<1> DEFINE tx == [does |-> "register", secret |-> mem.secret, registry |-> mem.root, resolver |-> mem.resolver]
<1>1. at = "register" /\ at \in Paying \cup Owned /\ sent = NoTx /\ UNCHANGED looked /\ transact(tx)
  BY DEF Register, Ready, looked, Paying
<1>2. Sound(tx)
  BY <1>1, StepKnows DEF Sound, Transactions
<1> QED BY <1>1, <1>2, TransactKeeps

LEMMA SubnameKeeps == ASSUME EnsInv, Subname PROVE EnsInv'
<1> DEFINE tx == [does |-> "subname", under |-> mem.root, registry |-> mem.agents, resolver |-> mem.resolver]
<1>1. at = "subname" /\ at \in Paying \cup Owned /\ sent = NoTx /\ UNCHANGED looked
  BY DEF Subname, Ready, looked, Owned
<1>2. at \in Owned /\ ownsRoot
  BY <1>1, StepKnows DEF Owned
<1>3. CASE at' \in {"parents", "adopt"} /\ sent' = NoTx
  BY <1>1, <1>2, <1>3, SkipKeeps DEF Owned
<1>4. CASE transact(tx)
  <2>1. Sound(tx)
    BY <1>1, <1>2, StepKnows DEF Sound, Transactions
  <2> QED BY <1>1, <1>4, <2>1, TransactKeeps
<1> QED BY <1>1, <1>3, <1>4 DEF Subname, Skip, After

LEMMA SetParentsKeeps == ASSUME EnsInv, SetParents PROVE EnsInv'
<1>1. at = "parents" /\ at \in Paying \cup Owned /\ sent = NoTx /\ UNCHANGED looked
  BY DEF SetParents, Ready, looked, Owned
<1>2. at \in Owned /\ ownsRoot
  BY <1>1, StepKnows DEF Owned
<1>3. CASE at' = "passport" /\ sent' = NoTx
  BY <1>1, <1>2, <1>3, SkipKeeps DEF Owned
<1>4. ASSUME NEW link \in {<<"root", mem.root>>, <<"agents", mem.agents>>},
             transact([does |-> "parents", what |-> link])
      PROVE  EnsInv'
  <2>1. link \in Contracts \X Refs
    BY <1>1, StepKnows DEF Contracts, Refs
  <2>2. Sound([does |-> "parents", what |-> link])
    BY <2>1 DEF Sound, Transactions
  <2> QED BY <1>1, <1>4, <2>2, TransactKeeps
<1> QED BY <1>1, <1>3, <1>4 DEF SetParents, Skip, After

LEMMA PassportKeeps == ASSUME EnsInv, RegisterPassport PROVE EnsInv'
<1> DEFINE tx == [does |-> "passport", under |-> mem.agents, resolver |-> mem.resolver]
<1>1. at = "passport" /\ at \in Paying \cup Owned /\ sent = NoTx /\ UNCHANGED looked
  BY DEF RegisterPassport, Ready, looked, Owned
<1>2. at \in Owned /\ ownsRoot
  BY <1>1, StepKnows DEF Owned
<1>3. CASE at' = "records" /\ sent' = NoTx
  BY <1>1, <1>2, <1>3, SkipKeeps DEF Owned
<1>4. CASE transact(tx)
  <2>1. Sound(tx)
    BY <1>1, <1>2, StepKnows DEF Sound, Transactions
  <2> QED BY <1>1, <1>4, <2>1, TransactKeeps
<1> QED BY <1>1, <1>3, <1>4 DEF RegisterPassport, Skip, After

LEMMA RecordsKeep == ASSUME EnsInv, WriteRecords PROVE EnsInv'
<1> DEFINE tx == [does |-> "records", resolver |-> mem.resolver]
<1>1. at = "records" /\ at \in Paying \cup Owned /\ sent = NoTx /\ UNCHANGED looked
  BY DEF WriteRecords, Ready, looked, Owned
<1>2. at \in Owned /\ ownsRoot
  BY <1>1, StepKnows DEF Owned
<1>3. CASE at' = "readback" /\ sent' = NoTx
  BY <1>1, <1>2, <1>3, SkipKeeps DEF Owned
<1>4. CASE transact(tx)
  <2>1. Sound(tx)
    BY <1>1, <1>2, StepKnows DEF Sound, Transactions
  <2> QED BY <1>1, <1>4, <2>1, TransactKeeps
<1> QED BY <1>1, <1>3, <1>4 DEF WriteRecords, Skip, After

LEMMA ReadBackKeeps == ASSUME EnsInv, ReadBack PROVE EnsInv'
<1>1. at \in Paying \cup Owned /\ sent' = NoTx /\ UNCHANGED looked /\ at' \in {"idle", "done"}
  BY DEF ReadBack, Ready, looked, Owned
<1> QED BY <1>1, SkipKeeps

\* The human runs the script: it knows the name's contracts, if it is registered.
LEMMA StartKeeps == ASSUME EnsInv, Start PROVE EnsInv'
<1> DEFINE saved == IF file.resolver = Other THEN NoState ELSE file
<1>1. ~Running /\ sent = NoTx /\ at' = "resolver" /\ ownsRoot' = Registered
  BY IdleSendsNothing DEF Start, Running
<1>2. saved \in States(Refs)
  BY DEF EnsInv, RunInv, States, NoState, Refs
<1>3. mem' = IF Registered THEN [saved EXCEPT !.root = chain.root.registry, !.resolver = chain.root.resolver]
             ELSE saved
  BY DEF Start
<1>4. chain.root.registry \in Refs /\ chain.root.resolver \in Refs
  BY DEF EnsInv, ChainInv, Chains, Entries
<1> HIDE DEF saved
<1>5. /\ mem' \in States(Refs) /\ mem'.secret = saved.secret
      /\ Registered => mem'.root = chain.root.registry /\ mem'.resolver = chain.root.resolver
  BY <1>2, <1>3, <1>4 DEF States
<1>6. ChainInv'
  BY DEF Start, EnsInv, ChainInv, Registered, Deployed
<1>7. TxInv'
  BY <1>1 DEF Start, EnsInv, TxInv, Sound, Registered, Deployed, kept
<1>8. RunInv'
  BY <1>1, <1>5 DEF Start, EnsInv, RunInv, Registered, Paying, Owned
<1>9. SecretInv'
  BY <1>1, <1>5 DEF Start, EnsInv, SecretInv, Registered, kept, saved
<1> QED BY <1>6, <1>7, <1>8, <1>9 DEF EnsInv

\* Following the advice to delete the state file, with the name registered.
LEMMA AdoptKeeps == ASSUME EnsInv, Adopt PROVE EnsInv'
<1>1. Registered /\ at' = "idle"
  BY StepKnows DEF Adopt, Owned
<1>2. NoState \in States(Refs \cup {Other}) /\ NoState.resolver # Other
  BY EnsSetupAssumption DEF NoState, States, Refs, None, Other
<1>3. sent = NoTx
  BY DEF EnsInv, TxInv, OfItsStep, Adopt, Contracts
<1>4. ChainInv'
  BY DEF Adopt, EnsInv, ChainInv, Registered, Deployed
<1>5. TxInv'
  BY <1>3 DEF Adopt, EnsInv, TxInv, Sound, Registered, Deployed, kept
<1>6. RunInv'
  BY <1>1, <1>2 DEF Adopt, EnsInv, RunInv, Running, Paying, Owned
<1>7. SecretInv'
  BY <1>1, <1>2 DEF Adopt, EnsInv, SecretInv, Registered, Running, kept
<1> QED BY <1>4, <1>5, <1>6, <1>7 DEF EnsInv

\* A new secret is in the file before it is committed to.
LEMMA CommitKeeps == ASSUME EnsInv, Commit PROVE EnsInv'
<1>1. at = "commit" /\ at \in Paying \cup Owned /\ sent' = NoTx /\ UNCHANGED <<ownsRoot, chain, kept>>
  BY DEF Commit, Ready, Paying
<1>2. CASE at' = "register" /\ UNCHANGED <<file, mem, secrets>>
  BY <1>1, <1>2, SkipKeeps DEF looked, Paying
<1>3. CASE /\ secrets' = secrets + 1 /\ mem' = [mem EXCEPT !.secret = secrets + 1]
           /\ file' = mem' /\ at' = "committing"
  <2>1. /\ mem' \in States(Refs) /\ mem'.secret = secrets + 1
        /\ mem'.resolver = mem.resolver /\ mem'.root = mem.root /\ mem'.agents = mem.agents
    BY <1>3 DEF EnsInv, RunInv, SecretInv, States
  <2>2. mem' \in States(Refs \cup {Other}) /\ mem'.resolver # Other
    BY <2>1, EnsSetupAssumption DEF States, Refs, None, Other, Salts
  <2>3. ChainInv'
    BY <1>1 DEF EnsInv, ChainInv, Registered, Deployed
  <2>4. TxInv'
    BY <1>1 DEF EnsInv, TxInv, Sound, Registered, Deployed, kept
  <2>5. RunInv'
    BY <1>1, <1>3, <2>1, <2>2 DEF EnsInv, RunInv, Running, Registered, Deployed, Paying, Owned
  <2>6. SecretInv'
    BY <1>1, <1>3, <2>1, <2>2 DEF EnsInv, SecretInv, kept
  <2> QED BY <2>3, <2>4, <2>5, <2>6 DEF EnsInv
<1> QED BY <1>2, <1>3 DEF Commit

\* A contract that is there is taken; another is deployed with a free salt.
LEMMA DeployKeeps == ASSUME EnsInv, NEW what \in Contracts, deployProxy(what) PROVE EnsInv'
<1>1. at = what /\ sent = NoTx /\ Running /\ UNCHANGED <<ownsRoot, chain, file, secrets, kept>>
  BY DEF deployProxy, Ready, Running, Contracts
<1>2. what = "agents" => mem.root \in Salts /\ Deployed("root", mem.root)
  BY <1>1, DeployedIsSalt DEF EnsInv, RunInv
<1>3. Located(what) \in Refs /\ (what # "agents" => Located(what) = mem[what])
  <2>1. CASE what = "agents"
    BY <1>2, <2>1 DEF Located, EnsInv, ChainInv, Chains, Entries, RunInv, States
  <2>2. CASE what = "resolver"
    BY <2>2 DEF Located, EnsInv, RunInv, States
  <2>3. CASE what = "root"
    BY <2>3 DEF Located, EnsInv, RunInv, States
  <2> QED BY <2>1, <2>2, <2>3 DEF Contracts
<1>4. mem' = [mem EXCEPT ![what] = Located(what)]
  BY DEF deployProxy
<1>5. /\ mem' \in States(Refs) /\ mem'[what] = Located(what)
      /\ mem'.resolver = mem.resolver /\ mem'.root = mem.root /\ mem'.secret = mem.secret
      /\ what # "agents" => mem'.agents = mem.agents
  BY <1>3, <1>4 DEF EnsInv, RunInv, States, Contracts
<1>6. ChainInv' /\ SecretInv' /\ (\A tx : Sound(tx) => Sound(tx)')
  <2>1. ChainInv' /\ (\A tx : Sound(tx) => Sound(tx)')
    BY <1>1 DEF EnsInv, ChainInv, Registered, Deployed, Sound
  <2>2. SecretInv'
    BY <1>1, <1>5 DEF EnsInv, SecretInv, kept, Registered
  <2> QED BY <2>1, <2>2
<1>7. CASE <<what, Located(what)>> \in chain.deployed /\ Skip(what)
  <2>1. sent' = NoTx /\ Deployed(what, mem'[what]) /\ at' = After[what]
    BY <1>1, <1>5, <1>7 DEF Skip, Deployed
  <2>2. TxInv'
    BY <1>1, <1>6, <2>1 DEF EnsInv, TxInv, kept
  <2>3. RunInv'
    BY <1>1, <1>5, <2>1 DEF EnsInv, RunInv, Running, Registered, Deployed, Paying, Owned, Contracts, After
  <2> QED BY <1>6, <2>2, <2>3 DEF EnsInv
<1>8. CASE at' = "idle" /\ sent' = sent
  <2>1. TxInv'
    BY <1>1, <1>6, <1>8 DEF EnsInv, TxInv, kept
  <2>2. RunInv'
    BY <1>1, <1>5, <1>8 DEF EnsInv, RunInv, Running, Registered, Deployed, Paying, Owned
  <2> QED BY <1>6, <2>1, <2>2 DEF EnsInv
<1>9. ASSUME <<what, Located(what)>> \notin chain.deployed, at' = at,
             NEW salt \in Salts, sent' = [does |-> "deploy", what |-> what, salt |-> salt]
      PROVE  EnsInv'
  <2>1. Sound(sent')
    BY <1>9 DEF Sound, Transactions
  <2>2. what = "agents" \/ ~ownsRoot
    BY <1>1, <1>3, <1>9, OwnedExists DEF Deployed, Contracts
  <2>3. TxInv'
    <3>1. OfItsStep'
      BY <1>1, <1>9, <2>2 DEF OfItsStep
    <3>2. \A tx \in orphans' : Sound(tx)'
      BY <1>1, <1>6 DEF EnsInv, TxInv, kept
    <3>3. Sound(sent)'
      BY <1>1, <2>1 DEF Sound, Deployed, Registered
    <3> QED BY <3>1, <3>2, <3>3 DEF TxInv
  <2>4. RunInv'
    BY <1>1, <1>5, <1>9 DEF EnsInv, RunInv, Running, Registered, Deployed, Paying, Owned, Contracts
  <2> QED BY <1>6, <2>3, <2>4 DEF EnsInv
<1> QED BY <1>7, <1>8, <1>9 DEF deployProxy, transact
-----------------------------------------------------------------------------
(*                   What is mined, and what goes wrong                    *)

\* Where the chain has grown, what a script knows of it is still true.
LEMMA RunStays ==
  ASSUME EnsInv, Grows, UNCHANGED <<ownsRoot, file, mem>>, at' = at \/ at' = "idle"
  PROVE  RunInv'
<1>1. \A what, salt : Deployed(what, salt) => Deployed(what, salt)'
  BY DEF Grows, Deployed
<1>2. Registered => Registered' /\ chain'.root = chain.root
  BY DEF Grows, Registered
<1> QED BY <1>1, <1>2 DEF EnsInv, RunInv, Running, Paying, Owned

LEMMA SecretStays ==
  ASSUME EnsInv, Grows, UNCHANGED <<file, mem, secrets, losses, others>>, at' = at \/ at' = "idle"
  PROVE  SecretInv'
<1>1. Registered => Registered'
  BY DEF Grows, Registered
<1> QED BY <1>1 DEF EnsInv, SecretInv, Running

\* The script's transaction is mined, and what it deployed or paid is saved.
LEMMA ScriptMinedKeeps == ASSUME EnsInv, Mined PROVE EnsInv'
<1>1. /\ sent # NoTx /\ Sound(sent) /\ OfItsStep /\ Valid(sent) /\ chain' = Applied(sent)
      /\ sent \in Transactions
  BY DEF Mined, EnsInv, TxInv, Sound
<1>2. ChainInv' /\ Grows
  BY <1>1, MinedKeeps DEF EnsInv
<1>3. \A tx : Sound(tx) => Sound(tx)'
  BY <1>2, SoundStays DEF EnsInv
<1>4. TxInv'
  BY <1>3 DEF Mined, EnsInv, TxInv
<1>5. \A what, salt : Deployed(what, salt) => Deployed(what, salt)'
  BY <1>2 DEF Grows, Deployed
<1>6. Registered => Registered' /\ chain'.root = chain.root
  BY <1>2 DEF Grows, Registered
<1>7. Running /\ orphans' = orphans /\ UNCHANGED <<secrets, losses, others>>
  BY <1>1, IdleSendsNothing DEF Mined
<1>8. CASE sent.does = "deploy"
  <2>1. at \in Contracts /\ sent.what = at /\ (at = "agents" \/ ~ownsRoot) /\ sent.salt \in Salts
    BY <1>1, <1>8 DEF OfItsStep, Transactions
  <2>2. mem' = [mem EXCEPT ![at] = sent.salt] /\ file' = mem' /\ at' = After[at] /\ ownsRoot' = ownsRoot
    BY <1>8, <2>1 DEF Mined, Contracts, EnsInv, RunInv
  <2>3. <<at, sent.salt>> \in chain'.deployed
    BY <1>1, <1>8, <2>1, Effects DEF EnsInv, ChainInv
  <2>4. /\ mem' \in States(Refs) /\ mem'[at] = sent.salt /\ mem'.secret = mem.secret
        /\ at # "resolver" => mem'.resolver = mem.resolver
        /\ at # "root" => mem'.root = mem.root
    BY <2>1, <2>2 DEF EnsInv, RunInv, States, Contracts, Refs
  <2>5. mem' \in States(Refs \cup {Other}) /\ mem'.resolver # Other
    BY <2>4, EnsSetupAssumption DEF States, Refs, None, Other, Salts
  <2>6. RunInv'
    BY <1>5, <1>6, <1>7, <2>1, <2>2, <2>3, <2>4, <2>5
       DEF EnsInv, RunInv, Running, Deployed, Paying, Owned, Contracts, After
  <2>7. SecretInv'
    BY <1>6, <1>7, <2>2, <2>4, <2>5 DEF EnsInv, SecretInv
  <2> QED BY <1>2, <1>4, <2>6, <2>7 DEF EnsInv
<1>9. CASE sent.does = "register"
  <2>1. at = "register" /\ sent.registry = mem.root /\ sent.resolver = mem.resolver
    BY <1>1, <1>9 DEF OfItsStep
  <2>2. /\ mem' = [mem EXCEPT !.secret = 0] /\ file' = mem' /\ at' = "subname" /\ ownsRoot' = TRUE
    BY <1>9, <2>1 DEF Mined, After, EnsInv, RunInv
  <2>3. /\ mem' \in States(Refs) /\ mem'.resolver = mem.resolver /\ mem'.root = mem.root
        /\ mem'.agents = mem.agents
    BY <2>2 DEF EnsInv, RunInv, States
  <2>4. mem' \in States(Refs \cup {Other}) /\ mem'.resolver # Other
    BY <2>3, EnsSetupAssumption DEF States, Refs, None, Other, Salts
  <2>5. chain'.root = [registry |-> sent.registry, resolver |-> sent.resolver]
    BY <1>1, <1>9, Effects DEF EnsInv, ChainInv
  <2>6. /\ Deployed("root", mem.root) /\ Deployed("resolver", mem.resolver)
        /\ Deployed("agents", mem.agents) /\ mem.root \in Salts
    BY <2>1, StepKnows DEF Paying
  <2>7. Registered'
    BY <2>1, <2>5, <2>6, NoneIsNoSalt DEF Registered
  <2>8. RunInv'
    BY <1>5, <2>1, <2>2, <2>3, <2>4, <2>5, <2>6, <2>7 DEF EnsInv, RunInv, Paying, Owned
  <2>9. SecretInv'
    BY <1>7, <2>2, <2>4, <2>7 DEF EnsInv, SecretInv
  <2> QED BY <1>2, <1>4, <2>8, <2>9 DEF EnsInv
<1>10. CASE sent.does \notin {"deploy", "register"}
  <2>1. /\ UNCHANGED <<mem, file, ownsRoot>> /\ at \in Paying \cup Owned
        /\ at' = IF at = "parents" THEN at ELSE After[at]
    BY <1>1, <1>10 DEF Mined, OfItsStep, Paying, Owned, EnsInv, RunInv
  <2>2. at \in {"mint", "allow", "committing", "subname", "parents", "passport", "records"}
    BY <1>1, <1>10 DEF OfItsStep
  <2>3. at' \in Paying \cup Owned /\ (at' \in Owned => ownsRoot)
    BY <2>1, <2>2, StepKnows DEF After, Paying, Owned
  <2>4. RunInv'
    BY <1>5, <1>6, <1>7, <2>1, <2>3 DEF EnsInv, RunInv, Running, Paying, Owned
  <2>5. SecretInv'
    BY <1>6, <1>7, <2>1 DEF EnsInv, SecretInv
  <2> QED BY <1>2, <1>4, <2>4, <2>5 DEF EnsInv
<1> QED BY <1>8, <1>9, <1>10

\* It reverts, or the run dies: what it sent may be mined later.
LEMMA RunEndsKeeps == ASSUME EnsInv, Reverted \/ ScriptCrashes PROVE EnsInv'
<1>1. /\ UNCHANGED <<ownsRoot, chain, file, mem, secrets, losses, others>> /\ at' = "idle" /\ sent' = NoTx
      /\ \/ orphans' = orphans
         \/ sent # NoTx /\ orphans' = orphans \cup {sent}
  BY DEF Reverted, ScriptCrashes, kept
<1>2. Grows /\ ChainInv' /\ (\A tx : Sound(tx) => Sound(tx)')
  BY <1>1 DEF Grows, EnsInv, ChainInv, Registered, Deployed, Sound
<1>3. TxInv'
  BY <1>1, <1>2 DEF EnsInv, TxInv
<1> QED BY <1>1, <1>2, <1>3, RunStays, SecretStays DEF EnsInv

\* The run dies once its transaction is mined and before that is saved.
LEMMA UnsavedKeeps == ASSUME EnsInv, ScriptCrashesUnsaved PROVE EnsInv'
<1>1. /\ Sound(sent) /\ Valid(sent) /\ chain' = Applied(sent)
      /\ UNCHANGED <<ownsRoot, file, mem, orphans, secrets, losses, others>> /\ at' = "idle" /\ sent' = NoTx
  BY DEF ScriptCrashesUnsaved, EnsInv, TxInv
<1>2. ChainInv' /\ Grows
  BY <1>1, MinedKeeps DEF EnsInv
<1>3. TxInv'
  BY <1>1, <1>2, SoundStays DEF EnsInv, TxInv
<1> QED BY <1>1, <1>2, <1>3, RunStays, SecretStays DEF EnsInv

\* The transaction of a dead run is mined after all.
LEMMA OrphanKeeps == ASSUME EnsInv, NEW tx \in orphans, OrphanMined(tx) PROVE EnsInv'
<1>1. /\ orphans' = orphans \ {tx} /\ Sound(tx)
      /\ UNCHANGED <<ownsRoot, file, mem, at, sent, secrets, losses, others>>
  BY DEF OrphanMined, EnsInv, TxInv
<1>2. ChainInv' /\ Grows
  <2>1. CASE Valid(tx) /\ chain' = Applied(tx)
    BY <1>1, <2>1, MinedKeeps DEF EnsInv
  <2>2. CASE UNCHANGED chain
    BY <2>2 DEF Grows, EnsInv, ChainInv, Registered, Deployed
  <2> QED BY <2>1, <2>2 DEF OrphanMined
<1>3. TxInv'
  <2>1. \A other : Sound(other) => Sound(other)'
    BY <1>2, SoundStays DEF EnsInv
  <2>2. OfItsStep => OfItsStep'
    BY <1>1 DEF OfItsStep
  <2> QED BY <1>1, <2>1, <2>2 DEF EnsInv, TxInv
<1> QED BY <1>1, <1>2, <1>3, RunStays, SecretStays DEF EnsInv

\* The chain holds no new contract, name or commitment.
NothingNew ==
  /\ chain' \in Chains
  /\ chain'.deployed = chain.deployed /\ chain'.root = chain.root /\ chain'.charged = chain.charged
  /\ chain'.sub = chain.sub /\ chain'.passport = chain.passport
  /\ \A d \in chain'.commits :
       \E c \in chain.commits : d.registry = c.registry /\ d.resolver = c.resolver

\* A commitment grows old, or a passport is revoked: no contract and no name changes.
LEMMA AgingKeeps ==
  ASSUME EnsInv, revoke \/ (\E c \in chain.commits : CommitAges(c)) PROVE EnsInv'
<1>1. UNCHANGED <<ownsRoot, file, mem, at, sent, orphans, secrets, losses, others>>
  BY DEF CommitAges, revoke, kept
<1>2. NothingNew
  <2>1. ASSUME NEW c \in chain.commits, CommitAges(c) PROVE NothingNew
    <3> DEFINE older == [c EXCEPT !.age = IF c.age = "new" THEN "ripe" ELSE "expired"]
               commits == (chain.commits \ {c}) \cup {older}
    <3>1. chain.commits \in SUBSET Commitments
      BY DEF EnsInv, ChainInv, Chains
    <3>2. c \in Commitments
      BY <2>1, <3>1
    <3>3. older \in Commitments /\ older.registry = c.registry /\ older.resolver = c.resolver
      BY <3>2 DEF Commitments
    <3>4. chain' = [chain EXCEPT !.commits = commits]
      BY <2>1 DEF CommitAges
    <3> HIDE DEF older
    <3>5. commits \in SUBSET Commitments /\ \A d \in commits : d \in chain.commits \/ d = older
      BY <3>1, <3>3
    <3> HIDE DEF commits
    <3>6. chain'.commits = commits /\ chain' \in Chains
      BY <3>4, <3>5 DEF EnsInv, ChainInv, Chains
    <3>7. \A d \in chain'.commits :
            \E e \in chain.commits : d.registry = e.registry /\ d.resolver = e.resolver
      BY <2>1, <3>3, <3>5, <3>6
    <3>8. /\ chain'.deployed = chain.deployed /\ chain'.root = chain.root
          /\ chain'.charged = chain.charged /\ chain'.sub = chain.sub
          /\ chain'.passport = chain.passport
      BY <3>4 DEF EnsInv, ChainInv, Chains
    <3> QED BY <3>6, <3>7, <3>8 DEF NothingNew
  <2>2. CASE revoke
    <3> DEFINE status == [chain.status EXCEPT ![file.resolver] = "revoked"]
    <3>1. status \in [Salts \cup {Other} -> {"none", "active", "revoked"}]
      BY DEF EnsInv, ChainInv, Chains
    <3>2. chain' = [chain EXCEPT !.status = status]
      BY <2>2 DEF revoke
    <3> HIDE DEF status
    <3> QED BY <3>1, <3>2 DEF NothingNew, EnsInv, ChainInv, Chains
  <2> QED BY <2>1, <2>2
<1>3. Grows /\ Registered' = Registered /\ (\A what, salt : Deployed(what, salt)' <=> Deployed(what, salt))
  BY <1>2 DEF NothingNew, Grows, Registered, Deployed
<1>4. ChainInv'
  BY <1>2, <1>3 DEF NothingNew, EnsInv, ChainInv
<1>5. TxInv'
  BY <1>1, <1>2, <1>3 DEF NothingNew, EnsInv, TxInv, Sound, OfItsStep
<1> QED BY <1>1, <1>3, <1>4, <1>5, RunStays, SecretStays DEF EnsInv

\* The file is lost, or another parent's setup overwrites it.
LEMMA LossKeeps == ASSUME EnsInv, LoseFile \/ SetUpOther PROVE EnsInv'
<1>1. /\ UNCHANGED <<ownsRoot, chain, mem, at, sent, orphans, secrets>>
      /\ file' \in {NoState, [NoState EXCEPT !.resolver = Other]}
  BY DEF LoseFile, SetUpOther
<1>2. losses' \in Nat /\ others' \in Nat /\ ~(losses' = 0 /\ others' = 0)
  BY DEF LoseFile, SetUpOther, EnsInv, SecretInv
<1>4. file' \in States(Refs \cup {Other})
  BY <1>1 DEF NoState, States, Refs
<1>5. ChainInv' /\ TxInv'
  BY <1>1 DEF EnsInv, ChainInv, TxInv, Sound, OfItsStep, Registered, Deployed
<1>6. RunInv'
  BY <1>1, <1>4 DEF EnsInv, RunInv, Running, Registered, Deployed
<1> QED BY <1>1, <1>2, <1>5, <1>6 DEF EnsInv, SecretInv

\* Every step of the setup, stuttering included, keeps the invariant.
LEMMA EnsInvKept == EnsInv /\ [SetupNext]_setupVars => EnsInv'
<1> SUFFICES ASSUME EnsInv, [SetupNext]_setupVars PROVE EnsInv'
  OBVIOUS
<1>1. CASE UNCHANGED setupVars
  BY <1>1 DEF setupVars, EnsInv, ChainInv, TxInv, RunInv, SecretInv, Sound, OfItsStep, Running,
              Registered, Deployed
<1>2. CASE ScriptStep
  <2>1. ASSUME NEW what \in Contracts, deployProxy(what) PROVE EnsInv'
    BY <2>1, DeployKeeps
  <2>2. CASE Pay("mint", chain.funds) \/ Pay("allow", chain.allowance)
    BY <2>2, PayKeeps
  <2>3. CASE Commit \/ SendCommit \/ Register
    BY <2>3, CommitKeeps, SendCommitKeeps, RegisterKeeps
  <2>4. CASE Subname \/ SetParents \/ RegisterPassport
    BY <2>4, SubnameKeeps, SetParentsKeeps, PassportKeeps
  <2>5. CASE WriteRecords \/ ReadBack
    BY <2>5, RecordsKeep, ReadBackKeeps
  <2>6. CASE Mined \/ Reverted \/ Adopt
    BY <2>6, ScriptMinedKeeps, RunEndsKeeps, AdoptKeeps
  <2> QED BY <1>2, <2>1, <2>2, <2>3, <2>4, <2>5, <2>6 DEF ScriptStep
<1>3. CASE ChainStep \/ revoke
  BY <1>3, OrphanKeeps, AgingKeeps DEF ChainStep
<1>4. CASE Start \/ ScriptCrashes \/ ScriptCrashesUnsaved
  BY <1>4, StartKeeps, RunEndsKeeps, UnsavedKeeps
<1>5. CASE LoseFile \/ SetUpOther
  BY <1>5, LossKeeps
<1> QED BY <1>1, <1>2, <1>3, <1>4, <1>5 DEF SetupNext

\* setup.ts:383-758. Whatever dies, is lost, is mined late or is set up beside it,
\* the chain, the script and the file fit together as EnsInv says.
THEOREM SetupHolds == SetupSpec => []EnsInv
BY EnsInvInit, EnsInvKept, PTL DEF SetupSpec

\* setup.ts:467-473, 515. Every registered name is whole and was paid for once,
\* for any number of crashes, lost files and transactions that are mined late.
THEOREM NamesStayWhole == SetupSpec => []NamesAreWhole
<1>1. EnsInv => NamesAreWhole
  <2> SUFFICES ASSUME EnsInv, Registered PROVE NamesAreWhole
    BY DEF NamesAreWhole
  <2> DEFINE sub == chain.sub[chain.root.registry]
  <2>1. /\ chain.charged = 1
        /\ Deployed("root", chain.root.registry) /\ Deployed("resolver", chain.root.resolver)
    BY DEF EnsInv, ChainInv
  <2>2. chain.root.registry \in Salts
    BY <2>1, DeployedIsSalt DEF EnsInv
  <2>3. sub.registry # None => sub.resolver = chain.root.resolver /\ Deployed("agents", sub.registry)
    BY <2>2 DEF EnsInv, ChainInv
  <2>4. sub.registry # None => sub.registry \in Salts
    BY <2>3, DeployedIsSalt DEF EnsInv
  <2>5. sub.registry # None => chain.passport[sub.registry] \in {None, chain.root.resolver}
    BY <2>4 DEF EnsInv, ChainInv
  <2> QED BY <2>1, <2>3, <2>5 DEF NamesAreWhole, Deployed
<1> QED BY <1>1, SetupHolds, PTL

\* setup.ts:578-590. The secret of a commitment is in the file before it is
\* committed to, and stays there until the name is registered.
THEOREM CommitmentsStayUsable == SetupSpec => []CommitmentIsKept
<1>1. EnsInv => CommitmentIsKept
  BY DEF EnsInv, SecretInv, CommitmentIsKept
<1> QED BY <1>1, SetupHolds, PTL

-----------------------------------------------------------------------------
(*                          The gateway's account                          *)

Keyed == [key : Nat \ {0}, associated : BOOLEAN]

\* Every account was created with the key in .env, which is kept from before the
\* first account is paid for; so is the key of a script about to create one.
KeyInv ==
  /\ keys \in Nat
  /\ env \in [payTo : Nat, key : Nat]
  /\ accounts \in Seq(Keyed)
  /\ EveryKeyIsHeld
  /\ step \in {"keyed", "executed"} => env.key # 0
  /\ accounts # <<>> => env.key # 0
  /\ step = "keyed" => gatewayKey = env.key

\* A key is drawn only when none was saved, and saved before it is used.
LEMMA CreateKeeps == ASSUME KeyInv, Create PROVE KeyInv'
<1>1. CASE env.key # 0 /\ gatewayKey' = env.key /\ UNCHANGED <<env, keys>>
  BY <1>1 DEF Create, KeyInv, EveryKeyIsHeld
<1>2. CASE env.key = 0 /\ keys' = keys + 1 /\ gatewayKey' = keys + 1 /\ env' = [env EXCEPT !.key = keys + 1]
  <2>1. accounts = <<>> /\ accounts' = <<>>
    BY <1>2 DEF Create, KeyInv
  <2>2. env' \in [payTo : Nat, key : Nat] /\ env'.key = keys + 1 /\ keys + 1 \in Nat /\ keys + 1 # 0
    BY <1>2 DEF KeyInv
  <2>3. EveryKeyIsHeld'
    BY <2>1 DEF EveryKeyIsHeld
  <2> QED BY <1>2, <2>1, <2>2, <2>3 DEF Create, KeyInv
<1> QED BY <1>1, <1>2 DEF Create

\* An account is created with the key in .env.
LEMMA ExecuteKeeps == ASSUME KeyInv, Execute PROVE KeyInv'
<1> DEFINE account == [key |-> gatewayKey, associated |-> FALSE]
<1>1. account \in Keyed /\ account.key = env.key
  BY DEF KeyInv, Execute, Keyed
<1>2. accounts' = Append(accounts, account) /\ step' = "executed" /\ UNCHANGED <<env, keys, gatewayKey>>
  BY DEF Execute
<1>3. env.key # 0
  BY DEF KeyInv, Execute
<1> HIDE DEF account
<1>4. accounts' \in Seq(Keyed)
  BY <1>1, <1>2 DEF KeyInv
<1>5. EveryKeyIsHeld'
  BY <1>1, <1>2 DEF KeyInv, EveryKeyIsHeld
<1> QED BY <1>2, <1>3, <1>4, <1>5 DEF KeyInv

\* Associating an account leaves its key.
LEMMA AssociatedKeeps == ASSUME KeyInv, Associated PROVE KeyInv'
<1> DEFINE now(account) == account.associated \/ account.key = gatewayKey
           associated == [accounts[target] EXCEPT !.associated = now(accounts[target])]
<1>1. accounts' = [accounts EXCEPT ![target] = associated] /\ step' = "idle" /\ UNCHANGED <<env, keys>>
  BY DEF Associated
<1>2. target \in DOMAIN accounts => associated \in Keyed /\ associated.key = accounts[target].key
  <2>1. target \in DOMAIN accounts => accounts[target] \in Keyed
    BY DEF KeyInv
  <2>2. \A account \in Keyed : LET then == [account EXCEPT !.associated = now(account)] IN
                                 then \in Keyed /\ then.key = account.key
    BY DEF Keyed
  <2> QED BY <2>1, <2>2
<1> HIDE DEF associated
<1>3. CASE target \in DOMAIN accounts
  <2>1. accounts' \in Seq(Keyed) /\ DOMAIN accounts' = DOMAIN accounts
    BY <1>1, <1>2, <1>3 DEF KeyInv
  <2>2. \A i \in DOMAIN accounts : accounts'[i].key = accounts[i].key
    BY <1>1, <1>2, <1>3 DEF KeyInv
  <2>3. accounts # <<>>
    BY <1>3
  <2> QED BY <1>1, <2>1, <2>2, <2>3 DEF KeyInv, EveryKeyIsHeld
<1>4. CASE target \notin DOMAIN accounts
  <2>1. accounts' = accounts
    BY <1>1, <1>4 DEF KeyInv
  <2> QED BY <1>1, <2>1 DEF KeyInv, EveryKeyIsHeld
<1> QED BY <1>3, <1>4

\* create-gateway.ts:10-13, 54-142. No account is ever left that nobody holds the
\* key to, however often the script dies or is forced.
THEOREM KeysStayHeld == HederaSpec => []EveryKeyIsHeld
<1>1. HederaInit => KeyInv
  BY DEF HederaInit, KeyInv, EveryKeyIsHeld
<1>2. KeyInv /\ [HederaNext]_hederaVars => KeyInv'
  <2> SUFFICES ASSUME KeyInv, [HederaNext]_hederaVars PROVE KeyInv'
    OBVIOUS
  <2>1. CASE UNCHANGED hederaVars
    BY <2>1 DEF hederaVars, KeyInv, EveryKeyIsHeld
  <2>2. CASE Create \/ Execute \/ Associated
    BY <2>2, CreateKeeps, ExecuteKeeps, AssociatedKeeps
  <2>3. CASE Receipt
    <3>1. Len(accounts) \in Nat
      BY DEF KeyInv
    <3>2. env' = [env EXCEPT !.payTo = Len(accounts)] /\ step' = "mirroring" /\ UNCHANGED <<accounts, keys>>
      BY <2>3 DEF Receipt
    <3>3. env' \in [payTo : Nat, key : Nat] /\ env'.key = env.key
      BY <3>1, <3>2 DEF KeyInv
    <3> QED BY <3>2, <3>3 DEF KeyInv, EveryKeyIsHeld
  <2>4. CASE CreateEnds \/ Associate \/ MirrorCatchesUp \/ ScriptDies
    BY <2>4 DEF CreateEnds, Associate, MirrorCatchesUp, ScriptDies, KeyInv, EveryKeyIsHeld
  <2> QED BY <2>1, <2>2, <2>3, <2>4 DEF HederaNext
<1>3. KeyInv => EveryKeyIsHeld
  BY DEF KeyInv
<1> QED BY <1>1, <1>2, <1>3, PTL DEF HederaSpec
=============================================================================
