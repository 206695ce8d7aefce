------------------------------- MODULE Clients ------------------------------
(***************************************************************************)
(* Two clients of the gateway that share nothing but its HTTP interface:   *)
(* the hosted demo agent (apps/api/src/agent/demo-agent.ts), which looks   *)
(* for cleared requests every two seconds and pays for them, and the       *)
(* command-line agent (apps/agent/src/index.ts), which submits a request   *)
(* or presents one, waits for a human and collects it.                     *)
(*                                                                         *)
(* The paid route is the one module Collection models in detail; here it   *)
(* is what a client sees of it.  An answer may be lost on its way, or the  *)
(* call before it arrives, and the route carries on without its client.    *)
(***************************************************************************)
EXTENDS Startup, FiniteSets

CONSTANTS
  MaxRequests,   \* bounds the requests of a run
  ListLimit,     \* requests GET /requests answers with, newest first
  MaxAttempts,   \* times the demo agent tries a request that fails in transit
  MaxLost        \* bounds the calls that fail in transit

ASSUME ClientsAssumption ==
  /\ MaxRequests \in Nat /\ ListLimit \in Nat \ {0}
  /\ MaxAttempts \in Nat \ {0} /\ MaxLost \in Nat

\* A request's id is the order of its creation.
Ids == 1..MaxRequests

VARIABLES
  status,      \* each request's status, "none" before it is submitted
  refused,     \* requests with a lastRefusal
  inside,      \* exchanges inside the paid route: a request and who asked for it
  charged,     \* history: whom each request's fare was taken from
  call,        \* the collection each client is waiting for
  lost,        \* calls that failed in transit
  demo,        \* the demo agent: its pass, what is due in it, what it left behind
  cli          \* the command-line agent: its step, its request and its exit code

routeVars == <<status, refused, inside, charged>>
clientVars == <<routeVars, call, lost, demo, cli, startupVars>>

TheClients == {"demo", "cli"}

NoCall == [id |-> 0, at |-> "none", code |-> 0]
Call(id, at, code) == [id |-> id, at |-> at, code |-> code]

ClientsInit ==
  /\ StartupInit
  /\ status = [id \in Ids |-> "none"]
  /\ refused = {} /\ inside = {}
  /\ charged = [id \in Ids |-> <<>>]
  /\ call = [c \in TheClients |-> NoCall]
  /\ lost = 0
  /\ demo = [at |-> IF startDemoAgent THEN "idle" ELSE "off", due |-> <<>>, finished |-> {}, attempts |-> [id \in Ids |-> 0]]
  /\ cli = [at |-> "health", id |-> 0, code |-> 0]

ClientsTypeOK ==
  /\ StartupTypeOK
  /\ status \in [Ids -> {"none", "awaiting_approval", "payment_required", "rejected",
                         "fulfilled", "failed"}]
  /\ refused \subseteq Ids
  /\ inside \subseteq Ids \X TheClients
  /\ charged \in [Ids -> Seq(TheClients)]
  /\ call \in [TheClients -> [id : Ids \cup {0}, code : Nat,
                 at : {"none", "sent", "inside", "answered", "broken"}]]
  /\ demo.at \in {"off", "idle", "listing", "passing"} /\ demo.due \in Seq(Ids)
  /\ demo.finished \subseteq Ids /\ demo.attempts \in [Ids -> 0..MaxAttempts]
  /\ cli.at \in {"health", "asking", "polling", "collecting", "exited"}
  /\ cli.id \in Ids \cup {0} /\ cli.code \in 0..5
-----------------------------------------------------------------------------
\* The gateway.

Known == {id \in Ids : status[id] # "none"}
NextId == Cardinality(Known) + 1

\* A submission, decided at once.
Stored(id, s) == status' = [status EXCEPT ![id] = s]

SubmitElsewhere(s) ==
  /\ phase = "serving"
  /\ NextId \in Ids
  /\ s \in {"awaiting_approval", "payment_required", "rejected"}
  /\ Stored(NextId, s)
  /\ UNCHANGED <<refused, inside, charged, call, lost, demo, cli, startupVars>>

DecideApproval(id, s) ==
  /\ status[id] = "awaiting_approval"
  /\ s \in {"payment_required", "rejected"}
  /\ status' = [status EXCEPT ![id] = s]
  /\ UNCHANGED <<refused, inside, charged, call, lost, demo, cli, startupVars>>

Answer(c, code) == call' = [call EXCEPT ![c].at = "answered", ![c].code = code]

\* Fault: the route does not look for a collection of the same request.
CollectableTwice(id) == status[id] \in {"payment_required", "failed"}

Collectable(id) == status[id] \in {"payment_required", "failed"} /\ \A c \in TheClients : <<id, c>> \notin inside

\* The call arrives: closed, taken, turned away by the policy, not paid for, or in.
Arrive(c) ==
  LET id == call[c].id IN
  /\ call[c].at = "sent"
  /\ \/ ~paymentReady /\ Answer(c, 503) /\ UNCHANGED routeVars
     \/ paymentReady /\ ~Collectable(id) /\ Answer(c, 409) /\ UNCHANGED routeVars
     \/ /\ paymentReady /\ Collectable(id)
        /\ \/ /\ Answer(c, 403)
              /\ refused' = refused \cup {id}
              /\ UNCHANGED <<status, inside, charged>>
           \/ /\ Answer(c, 402)
              /\ UNCHANGED routeVars
           \/ /\ call' = [call EXCEPT ![c].at = "inside"]
              /\ inside' = inside \cup {<<id, c>>}
              /\ refused' = refused \ {id}
              /\ UNCHANGED <<status, charged>>
  /\ UNCHANGED <<lost, demo, cli, startupVars>>

\* The route ends, for a client that still waits or for one that is gone.
Serve(id, c, ok) ==
  /\ <<id, c>> \in inside
  /\ inside' = inside \ {<<id, c>>}
  /\ status' = [status EXCEPT ![id] = IF ok THEN "fulfilled" ELSE "failed"]
  /\ charged' = IF ok THEN [charged EXCEPT ![id] = Append(@, c)] ELSE charged
  /\ IF call[c].at = "inside" /\ call[c].id = id THEN Answer(c, IF ok THEN 200 ELSE 502)
     ELSE UNCHANGED call
  /\ UNCHANGED <<refused, lost, demo, cli, startupVars>>

\* Live, a settlement that fails when the client is gone is seen by nobody: the
\* request stays fulfilled, though no fare was taken.
Unheard(id, c) ==
  /\ PaymentLive
  /\ <<id, c>> \in inside
  /\ ~(call[c].at = "inside" /\ call[c].id = id)
  /\ inside' = inside \ {<<id, c>>}
  /\ status' = [status EXCEPT ![id] = "fulfilled"]
  /\ UNCHANGED <<refused, charged, call, lost, demo, cli, startupVars>>

\* The connection breaks: the client's fetch throws, the gateway does not notice.
Lose(c) ==
  /\ lost < MaxLost
  /\ call[c].at \in {"sent", "inside", "answered"}
  /\ lost' = lost + 1
  /\ call' = [call EXCEPT ![c].at = "broken"]
  /\ UNCHANGED <<routeVars, demo, cli, startupVars>>
-----------------------------------------------------------------------------
\* The demo agent.

\* The newest requests on record.
Listed == {id \in Known : Cardinality({newer \in Known : newer > id}) < ListLimit}

\* Due: cleared, not refused at the gate, not left behind; oldest first.
Due ==
  LET ids == {id \in Listed : status[id] = "payment_required" /\ id \notin refused
                                                        /\ id \notin demo.finished}
  IN CHOOSE s \in [1..Cardinality(ids) -> ids] :
       \A i, j \in DOMAIN s : i < j => s[i] < s[j]

\* Every two seconds, unless a pass is still running.
Tick ==
  /\ phase = "serving"
  /\ demo.at = "idle"
  /\ demo' = [demo EXCEPT !.at = "listing"]
  /\ UNCHANGED <<routeVars, call, lost, cli, startupVars>>

\* Fault: a listing that fails leaves the pass marked as running.
ListAnsweredBusy ==
  /\ demo.at = "listing"
  /\ \/ demo' = [demo EXCEPT !.at = "passing", !.due = Due] /\ lost' = lost
     \/ lost < MaxLost /\ lost' = lost + 1 /\ demo' = [demo EXCEPT !.at = "stuck"]
  /\ UNCHANGED <<routeVars, call, cli, startupVars>>

\* The list is answered, or listing fails and the pass is over.
ListAnswered ==
  /\ demo.at = "listing"
  /\ \/ demo' = [demo EXCEPT !.at = "passing", !.due = Due] /\ lost' = lost
     \/ lost < MaxLost /\ lost' = lost + 1 /\ demo' = [demo EXCEPT !.at = "idle"]
  /\ UNCHANGED <<routeVars, call, cli, startupVars>>

CollectNext ==
  /\ demo.at = "passing"
  /\ call["demo"].at = "none"
  /\ IF demo.due = <<>>
     THEN demo' = [demo EXCEPT !.at = "idle"] /\ UNCHANGED call
     ELSE /\ call' = [call EXCEPT !["demo"] = Call(Head(demo.due), "sent", 0)]
          /\ demo' = [demo EXCEPT !.due = Tail(@)]
  /\ UNCHANGED <<routeVars, lost, cli, startupVars>>

\* Answers after which a request is left alone: every one but "closed" and "taken".
Final(code) == code \notin {503, 409}

\* An answer: collected or refused for good, or the pass waits for the next.
CollectAnswered ==
  LET mine == call["demo"] IN
  /\ mine.at = "answered"
  /\ demo' = IF Final(mine.code)
             THEN [demo EXCEPT !.finished = @ \cup {mine.id}]
             ELSE [demo EXCEPT !.at = "idle", !.due = <<>>]
  /\ call' = [call EXCEPT !["demo"] = NoCall]
  /\ UNCHANGED <<routeVars, lost, cli, startupVars>>

\* The fetch threw: counted, given up after the last attempt, and the pass is over.
CollectBroke ==
  LET id == call["demo"].id
      tries == demo.attempts[id] + 1 IN
  /\ call["demo"].at = "broken"
  /\ demo' = [demo EXCEPT !.at = "idle", !.due = <<>>, !.attempts[id] = tries,
                          !.finished = IF tries >= MaxAttempts THEN @ \cup {id} ELSE @]
  /\ call' = [call EXCEPT !["demo"] = NoCall]
  /\ UNCHANGED <<routeVars, lost, cli, startupVars>>

DemoStep == Tick \/ ListAnswered \/ CollectNext \/ CollectAnswered \/ CollectBroke
-----------------------------------------------------------------------------
\* The command-line agent.

Exit(code) == cli' = [cli EXCEPT !.at = "exited", !.code = code]

\* A call other than the collection fails: main rejects and the exit code is 1.
CliBreaks ==
  /\ lost < MaxLost
  /\ cli.at \in {"health", "asking", "polling"}
  /\ lost' = lost + 1
  /\ Exit(1)
  /\ UNCHANGED <<routeVars, call, demo, startupVars>>

CheckHealth ==
  /\ cli.at = "health"
  /\ phase = "serving"
  /\ cli' = [cli EXCEPT !.at = "asking"]
  /\ UNCHANGED <<routeVars, call, lost, demo, startupVars>>

Collect(id) == call' = [call EXCEPT !["cli"] = Call(id, "sent", 0)]

\* What the answer says of the request decides the way: it was refused, it
\* waits for a human, or it is presented at the gate as it is.
GoOn(id, s) ==
  \/ s = "rejected" /\ cli' = [cli EXCEPT !.at = "exited", !.id = id, !.code = 2] /\ UNCHANGED call
  \/ s = "awaiting_approval" /\ cli' = [cli EXCEPT !.at = "polling", !.id = id] /\ UNCHANGED call
  \/ /\ s \notin {"rejected", "awaiting_approval"}
     /\ cli' = [cli EXCEPT !.at = "collecting", !.id = id]
     /\ Collect(id)

\* Without --request: submits one.
CliSubmit(s) ==
  /\ cli.at = "asking"
  /\ NextId \in Ids
  /\ s \in {"awaiting_approval", "payment_required", "rejected"}
  /\ Stored(NextId, s)
  /\ GoOn(NextId, s)
  /\ UNCHANGED <<refused, inside, charged, lost, demo, startupVars>>

\* With --request: presents one it holds, or one the gateway does not know.
CliPresent(id) ==
  /\ cli.at = "asking"
  /\ \/ id \in Known /\ GoOn(id, status[id])
     \/ id \notin Known /\ Exit(1) /\ UNCHANGED call
  /\ UNCHANGED <<routeVars, lost, demo, startupVars>>

\* One poll, every second and a half.  Any status but these two keeps it waiting.
Poll ==
  /\ cli.at = "polling"
  /\ \/ status[cli.id] = "rejected" /\ Exit(2) /\ UNCHANGED call
     \/ /\ status[cli.id] = "payment_required"
        /\ cli' = [cli EXCEPT !.at = "collecting"]
        /\ Collect(cli.id)
     \/ /\ status[cli.id] \notin {"rejected", "payment_required"}
        /\ UNCHANGED <<cli, call>>
  /\ UNCHANGED <<routeVars, lost, demo, startupVars>>

\* The deadline passes while it sleeps.
GiveUp ==
  /\ cli.at = "polling"
  /\ Exit(3)
  /\ UNCHANGED <<routeVars, call, lost, demo, startupVars>>

ExitFor(code) == IF code = 403 THEN 4 ELSE IF code = 200 THEN 0 ELSE 5

\* Fault: a collection that broke is reported like one that was refused.
CliEndsRefused ==
  /\ cli.at = "collecting"
  /\ call["cli"].at \in {"answered", "broken"}
  /\ Exit(IF call["cli"].at = "broken" THEN 4 ELSE ExitFor(call["cli"].code))
  /\ call' = [call EXCEPT !["cli"] = NoCall]
  /\ UNCHANGED <<routeVars, lost, demo, startupVars>>

CliEnds ==
  /\ cli.at = "collecting"
  /\ call["cli"].at \in {"answered", "broken"}
  /\ Exit(IF call["cli"].at = "broken" THEN 1 ELSE ExitFor(call["cli"].code))
  /\ call' = [call EXCEPT !["cli"] = NoCall]
  /\ UNCHANGED <<routeVars, lost, demo, startupVars>>

CliStep ==
  \/ CliBreaks \/ CheckHealth \/ Poll \/ GiveUp \/ CliEnds
  \/ \E s \in {"awaiting_approval", "payment_required", "rejected"} : CliSubmit(s)
  \/ \E id \in Ids : CliPresent(id)

RouteStep ==
  \/ \E s \in {"awaiting_approval", "payment_required", "rejected"} : SubmitElsewhere(s)
  \/ \E id \in Ids, s \in {"payment_required", "rejected"} : DecideApproval(id, s)
  \/ \E c \in TheClients : Arrive(c) \/ Lose(c)
  \/ \E id \in Ids, c \in TheClients, ok \in BOOLEAN : Serve(id, c, ok)
  \/ \E id \in Ids, c \in TheClients : Unheard(id, c)

ClientsNext ==
  \/ StartupNext /\ UNCHANGED <<routeVars, call, lost, demo, cli>>
  \/ RouteStep \/ DemoStep \/ CliStep

ClientsSpec == ClientsInit /\ [][ClientsNext]_clientVars
-----------------------------------------------------------------------------
(* agent/demo-agent.ts:153-183, routes/data.ts:77-89. A fare is taken at   *)
(* most once, though the demo agent tries again what broke in transit and  *)
(* may have been paid for, and the command line presents the same request. *)
(* And the demo agent pays nothing but test money, whatever the settings   *)
(* ask for (config.ts:371-379).                                            *)
FareTakenOnce ==
  \A id \in Ids :
    /\ Len(charged[id]) <= 1
    /\ charged[id] = <<"demo">> /\ PaymentLive => environment.network = TESTNET

(* agent/src/index.ts:235-361. The exit code is the truth about the money  *)
(* whatever breaks: success was paid for by this agent, a rejection took   *)
(* no fare from anyone, and a refusal, a failure or giving up took none    *)
(* from this agent and leaves none under way.  Code 1 claims nothing.      *)
ExitTellsTheTruth ==
  cli.at = "exited" =>
    /\ cli.code = 0 => charged[cli.id] = <<"cli">> /\ status[cli.id] = "fulfilled"
    /\ cli.code = 2 => charged[cli.id] = <<>> /\ status[cli.id] = "rejected"
    /\ cli.code \in 3..5 =>
         <<cli.id, "cli">> \notin inside /\ \A i \in DOMAIN charged[cli.id] : charged[cli.id][i] # "cli"

(* agent/demo-agent.ts:118-183. Every cleared request is collected,        *)
(* refused or given up in the end, whatever breaks in between and though   *)
(* payments may open late, as long as GET /requests lists it and the demo  *)
(* agent could be started.                                                 *)
ClearedIsCollected ==
  \A id \in Ids :
    status[id] = "payment_required" ~>
      \/ status[id] # "payment_required" \/ id \in refused \/ id \in demo.finished
      \/ id \notin Listed \/ ~startDemoAgent
=============================================================================
