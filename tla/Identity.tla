------------------------------ MODULE Identity ------------------------------
(***************************************************************************)
(* Who an agent is and what it may do (apps/api/src/identity).             *)
(*                                                                         *)
(* Ens = FALSE is LocalIdentityService: the store answers, synchronously,  *)
(* at the call.  Ens = TRUE is EnsIdentityService: the chain is asked, its *)
(* answer is what the chain held at some instant after the call, or that   *)
(* it could not be reached, and the store may have changed by the time the *)
(* answer arrives.  The several reads of one resolution are one read here. *)
(***************************************************************************)
EXTENDS Store

CONSTANTS
  Ens,            \* whether ENS is the source of truth
  PassportNames,  \* the names under the configured parent
  ChainRecords,   \* what a passport's ENS records may say
  DOWN            \* the answer of a chain that cannot be reached

VARIABLE chain    \* the ENS records of each name, written by their owners

Resolution == [agent : Passport \cup {NULL}, policy : Capability \cup {NULL}]
NoPassport == [agent |-> NULL, policy |-> NULL]

ASSUME IdentityAssumption ==
  /\ Ens \in BOOLEAN
  /\ PassportNames \subseteq Agents
  /\ ChainRecords \subseteq Resolution
  /\ NoPassport \in ChainRecords
  /\ \A rec \in ChainRecords : rec.agent = NULL <=> rec.policy = NULL
  /\ DOWN \notin Resolution

ChainInit == IF Ens THEN chain \in [Agents -> ChainRecords]
             ELSE chain = [a \in Agents |-> NoPassport]

ChainTypeOK == chain \in [Agents -> ChainRecords]

Revoked(passport) == passport # NULL /\ passport.status = "revoked"

\* The owner edits the records of a name with a wallet, without the gateway.
\* A revoked name stays revoked: access is granted again under a new one.
OwnerWrites(a) ==
  /\ Ens
  /\ ~Revoked(chain[a].agent)
  /\ \E rec \in ChainRecords \ {chain[a]} : chain' = [chain EXCEPT ![a] = rec]

isPassportName(a) == a \in PassportNames

\* LocalIdentityService.resolve
ResolveLocal(a) ==
  IF agents[a] = NULL THEN NoPassport ELSE [agent |-> agents[a], policy |-> policies[a]]

\* EnsIdentityService.local: a display copy of an ENS passport never answers.
FallBack(a) ==
  IF agents[a] = NULL THEN NoPassport
  ELSE IF agents[a].source = "ens" THEN NoPassport
  ELSE [agent |-> agents[a], policy |-> policies[a]]

Found(answer) == answer # DOWN /\ answer.agent # NULL

\* Fault: an unreachable chain is answered from the store, for any name.
ResolveEnsOpen(a, answer) == IF Found(answer) THEN answer ELSE ResolveLocal(a)

\* EnsIdentityService.resolve once the chain has answered: names under the
\* parent fail closed, others may be answered by a local row.
ResolveEns(a, answer) ==
  IF Found(answer) THEN answer
  ELSE IF isPassportName(a) THEN NoPassport
  ELSE FallBack(a)

\* What resolve returns, given what was read.
Resolve(a, answer) == IF Ens THEN ResolveEns(a, answer) ELSE answer

\* A found passport is copied to the store for the dashboard.
KeepDisplayCopy(a, answer) ==
  IF Ens /\ Found(answer)
  THEN putAgent(a, answer.agent) /\ putPolicy(a, answer.policy)
  ELSE UNCHANGED <<agents, policies>>

\* A handler that called resolve waits for the chain, or has its answer.
AfterCall == IF Ens THEN "resolving" ELSE "resolved"
AnswerAtCall(a) == IF Ens THEN NoPassport ELSE ResolveLocal(a)
ChainAnswers(a) == {chain[a], DOWN}

canRevokeLocally(a) ==
  Ens => /\ ~isPassportName(a)
         /\ agents[a] # NULL => agents[a].source # "ens"

\* What the authority of a passport says of it at this instant, whoever asks.
\* A name outside the parent has no single one: its ENS records, when they can
\* be read, and otherwise the store.
RevokedAtTheSource(a) ==
  IF Ens THEN isPassportName(a) /\ Revoked(chain[a].agent) ELSE Revoked(agents[a])
=============================================================================
