----------------------------- MODULE HumanActions ---------------------------
(***************************************************************************)
(* What humans do through the gateway: approve or reject a request, create *)
(* a passport, change a capability, revoke a passport (apps/api/src/app.ts *)
(* and human-auth.ts).                                                     *)
(*                                                                         *)
(* Each handler looks at the store, awaits the authorisation of the action *)
(* (hashing its payload, recovering the signer of its message) and then    *)
(* acts, without looking again.  An envelope is one signed message; the    *)
(* same envelope may reach the gateway any number of times.                *)
(***************************************************************************)
EXTENDS Identity

CONSTANTS
  Humans,            \* human-action exchanges that may be open at once
  Envelopes,         \* the messages humans send
  RequireSignature   \* whether unsigned actions are refused

HumanAction ==
  {"approve-request", "reject-request", "create-agent", "set-policy", "revoke-agent"}

Envelope == [sig : Signatures \cup {NULL}, action : HumanAction,
             subject : RequestIds \cup Agents, policy : Capability \cup {NULL}]

\* A signature is over one message, so it belongs to one envelope.
ASSUME HumanAssumption ==
  /\ RequireSignature \in BOOLEAN
  /\ Envelopes \subseteq Envelope
  /\ NULL \notin Envelopes
  /\ \A e, f \in Envelopes : e.sig = f.sig /\ e.sig # NULL => e = f
  /\ \A e \in Envelopes :
       /\ e.subject \in IF e.action \in {"approve-request", "reject-request"}
                        THEN RequestIds ELSE Agents
       /\ e.policy # NULL <=> e.action \in {"create-agent", "set-policy"}

VARIABLES
  pending,   \* the envelope each open exchange is authorising, NULL when idle
  acted      \* how many actions each signature authorised, a history

humanVars == <<pending, acted>>

HumanInit ==
  /\ pending = [h \in Humans |-> NULL]
  /\ acted = [sig \in Signatures |-> 0]

HumanTypeOK ==
  /\ pending \in [Humans -> Envelopes \cup {NULL}]
  /\ acted \in [Signatures -> Nat]

\* What each handler checks before it awaits; otherwise it answers 404 or 409.
MayStart(e) ==
  LET s == e.subject IN
  CASE e.action \in {"approve-request", "reject-request"} ->
         requests[s] # NULL /\ requests[s].status = "awaiting_approval"
    [] e.action = "create-agent" -> ~(Ens /\ isPassportName(s)) /\ agents[s] = NULL
    [] e.action = "set-policy" -> agents[s] # NULL /\ agents[s].source # "ens"
    [] e.action = "revoke-agent" -> canRevokeLocally(s) /\ agents[s] # NULL

Receive(h, e) ==
  /\ pending[h] = NULL
  /\ MayStart(e)
  /\ pending' = [pending EXCEPT ![h] = e]
  /\ UNCHANGED <<storeVars, today, acted>>

\* What an authorisation awaits beyond the turn in which it began: the digest of
\* a payload, and the curves, which the first recovery of a signer has loaded.
\* Before that no signature was accepted.
Waits(e) ==
  \/ e.action \in {"create-agent", "set-policy"}
  \/ e.sig # NULL /\ \A sig \in Signatures : acted[sig] = 0

\* An action that promises alone carry on: unsigned, or recovering a signer
\* with curves at hand.  All that waited for the curves resume in one turn.
HumanMidTurn(h) == pending[h] # NULL /\ ~Waits(pending[h])

\* authorizeHumanAction throws: no or a bad or an outdated signature, or a
\* signature that was used before.
Refuse(h) ==
  /\ pending[h] # NULL
  /\ pending' = [pending EXCEPT ![h] = NULL]
  /\ UNCHANGED <<storeVars, today, acted>>

\* It returns: a valid signature is consumed in the same step.
Authorize(e) ==
  IF e.sig = NULL
  THEN ~RequireSignature /\ UNCHANGED <<usedNonces, acted>>
  ELSE consumeNonce(e.sig) /\ acted' = [acted EXCEPT ![e.sig] = @ + 1]

Closes(h) == pending' = [pending EXCEPT ![h] = NULL]

Decide(h) ==
  LET e == pending[h]
      approved == e.action = "approve-request" IN
  /\ e # NULL /\ e.action \in {"approve-request", "reject-request"}
  /\ Authorize(e)
  /\ updateRequest(e.subject,
       [requests[e.subject] EXCEPT
          !.approval = IF approved THEN "approved" ELSE "rejected",
          !.status = IF approved THEN "payment_required" ELSE "rejected"])
  /\ recordEvents({Event(IF approved THEN "request.approved" ELSE "request.rejected",
                         "human", e.subject)})
  /\ Closes(h)
  /\ UNCHANGED <<agents, policies, spend, idempotency, today>>

CreateAgent(h) ==
  LET e == pending[h] IN
  /\ e # NULL /\ e.action = "create-agent"
  /\ Authorize(e)
  /\ putAgent(e.subject, LocalPassport(e.policy))
  /\ putPolicy(e.subject, e.policy)
  /\ recordEvents({Event("agent.created", "human", e.subject)})
  /\ Closes(h)
  /\ UNCHANGED <<requests, spend, idempotency, today>>

\* Fault: the passport read before the authorisation is written back.
SetPolicyStale(h) ==
  LET e == pending[h] IN
  /\ e # NULL /\ e.action = "set-policy"
  /\ Authorize(e)
  /\ putPolicy(e.subject, e.policy)
  /\ putAgent(e.subject, LocalPassport(e.policy))
  /\ recordEvents({Event("policy.updated", "human", e.subject)})
  /\ Closes(h)
  /\ UNCHANGED <<requests, spend, idempotency, today>>

SetPolicy(h) ==
  LET e == pending[h] IN
  /\ e # NULL /\ e.action = "set-policy"
  /\ Authorize(e)
  /\ putPolicy(e.subject, e.policy)
  /\ recordEvents({Event("policy.updated", "human", e.subject)})
  /\ Closes(h)
  /\ UNCHANGED <<agents, requests, spend, idempotency, today>>

Revoke(h) ==
  LET e == pending[h] IN
  /\ e # NULL /\ e.action = "revoke-agent"
  /\ Authorize(e)
  /\ revokeAgent(e.subject)
  /\ recordEvents({Event("agent.revoked", "human", e.subject)})
  /\ Closes(h)
  /\ UNCHANGED <<policies, requests, spend, idempotency, today>>

HumanProgress(h) == Refuse(h) \/ Decide(h) \/ CreateAgent(h) \/ SetPolicy(h) \/ Revoke(h)
HumanStep(h) == HumanProgress(h) \/ \E e \in Envelopes : Receive(h, e)
=============================================================================
