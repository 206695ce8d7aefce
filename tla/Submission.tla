------------------------------ MODULE Submission ----------------------------
(***************************************************************************)
(* Submitting a request: POST /requests (apps/api/src/app.ts).             *)
(*                                                                         *)
(* The handler looks its idempotency key up, awaits the identity and, for  *)
(* a prompt of a known agent, the interpreter, and then stores a request   *)
(* with the decision it came to, without looking the key up again.  What   *)
(* the interpreter and the parsers make of the caller's words is any query *)
(* of Queries, or none.                                                    *)
(***************************************************************************)
EXTENDS Identity, FiniteSets

CONSTANTS
  Submitters,   \* submissions that may be open at once
  Queries       \* queries the parsers can come to

\* Stored in place of a query that did not parse.
PlaceholderQuery == [resource |-> "wallet.balances", lookbackDays |-> 1]

ASSUME SubmissionAssumption == Queries \subseteq ResourceQuery

VARIABLES
  submitter,   \* where each submission is
  keyOf        \* history: the idempotency key each request was created under

submissionVars == <<submitter, keyOf>>

NoSubmission == [pc |-> "idle", agent |-> NULL, key |-> NULL, at |-> 0, who |-> NoPassport]

SubmitterState ==
  [pc : {"idle", "resolving", "resolved", "interpreting"}, agent : Agents \cup {NULL},
   key : Keys \cup {NULL}, at : Days, who : Resolution \cup {DOWN}]

SubmissionInit ==
  /\ submitter = [s \in Submitters |-> NoSubmission]
  /\ keyOf = [r \in RequestIds |-> NULL]

SubmissionTypeOK ==
  /\ submitter \in [Submitters -> SubmitterState]
  /\ keyOf \in [RequestIds -> Keys \cup {NULL}]

\* A key that already created a stored request: that request is the answer.
Replays(k) == lookupIdempotent(k) # NULL /\ requests[idempotency[k]] # NULL

\* The bound on submissions: an id is left for every open one.
IdsLeft == Cardinality({r \in RequestIds : requests[r] = NULL})
             > Cardinality({s \in Submitters : submitter[s].pc # "idle"})

Submit(s, a, k) ==
  /\ IdsLeft
  /\ submitter[s].pc = "idle"
  /\ ~Replays(k)
  /\ submitter' = [submitter EXCEPT ![s] =
       [pc |-> AfterCall, agent |-> a, key |-> k, at |-> today, who |-> AnswerAtCall(a)]]
  /\ UNCHANGED <<storeVars, today, keyOf>>

ReadChainForSubmission(s) ==
  /\ submitter[s].pc = "resolving"
  /\ \E answer \in ChainAnswers(submitter[s].agent) :
       submitter' = [submitter EXCEPT ![s].pc = "resolved", ![s].who = answer]
  /\ UNCHANGED <<storeVars, today, keyOf>>

\* Fault: a passport without a capability is never answered.
InterpretKnown(s) ==
  LET a == submitter[s].agent IN
  /\ submitter[s].pc = "resolved"
  /\ Resolve(a, submitter[s].who).policy # NULL
  /\ KeepDisplayCopy(a, submitter[s].who)
  /\ submitter' = [submitter EXCEPT ![s].pc = "interpreting",
                                    ![s].who = Resolve(a, submitter[s].who)]
  /\ UNCHANGED <<requests, spend, idempotency, usedNonces, audit, today, keyOf>>

\* The identity is known; the prompt goes to the interpreter.  A structured
\* query, or an unknown agent's prompt, does not wait for one: Record follows.
Interpret(s) ==
  LET a == submitter[s].agent IN
  /\ submitter[s].pc = "resolved"
  /\ KeepDisplayCopy(a, submitter[s].who)
  /\ submitter' = [submitter EXCEPT ![s].pc = "interpreting",
                                    ![s].who = Resolve(a, submitter[s].who)]
  /\ UNCHANGED <<requests, spend, idempotency, usedNonces, audit, today, keyOf>>

StatusFor(decision) ==
  IF ~decision.allowed THEN "rejected"
  ELSE IF decision.requiresHumanApproval THEN "awaiting_approval"
  ELSE "payment_required"

\* The events of a submission, by the status it ends in.
SubmissionEvents(r, status) ==
  {Event("request.received", "agent", r), Event("request.evaluated", "system", r)}
  \cup (IF status = "awaiting_approval" THEN {Event("request.approval_requested", "system", r)}
        ELSE IF status = "rejected" THEN {Event("request.rejected", "system", r)}
        ELSE {})

\* Decision and request.  The passport and its capability are the ones
\* resolved before the interpreter was asked, the spend is read now.
Record(s) ==
  LET me == submitter[s] IN
  /\ me.pc = "interpreting"
  /\ \E r \in {id \in RequestIds : requests[id] = NULL}, query \in Queries \cup {NULL} :
       LET status == StatusFor(evaluatePolicy(
             [agent |-> me.who.agent, policy |-> me.who.policy, query |-> query,
              spentTodayMicros |-> spend[me.agent][me.at], now |-> me.at])) IN
       /\ putRequest(r, [agent |-> me.agent,
                         query |-> IF query = NULL THEN PlaceholderQuery ELSE query,
                         status |-> status, approval |-> "none", payment |-> "none",
                         lastRefusal |-> "none"])
       /\ rememberIdempotent(me.key, r)
       /\ recordEvents(SubmissionEvents(r, status))
       /\ keyOf' = [keyOf EXCEPT ![r] = me.key]
  /\ submitter' = [submitter EXCEPT ![s] = NoSubmission]
  /\ UNCHANGED <<agents, policies, spend, usedNonces, today>>

SubmissionProgress(s) == ReadChainForSubmission(s) \/ Interpret(s) \/ Record(s)
SubmissionStep(s) ==
  SubmissionProgress(s) \/ \E a \in Agents, k \in Keys \cup {NULL} : Submit(s, a, k)
=============================================================================
