------------------------------ MODULE Retrieval -----------------------------
(***************************************************************************)
(* Fetching what was paid for from the subgraphs, and the summary written  *)
(* of it (data/provider.ts GraphDataProvider.fetch and queryOne,           *)
(* ai/provider.ts analyze and groundAnalysis).  One query is asked of      *)
(* every selected subgraph at once; each answer is a race between the      *)
(* abort timer, the headers and the body.                                  *)
(***************************************************************************)
EXTENDS Policy, FiniteSets

CONSTANTS
  Targets,     \* the configured subgraphs, by their place in the list
  Slug,        \* the protocol each one is listed under
  Held,        \* hex values the data of a target holds
  Subject,     \* the address the query is about
  Invented     \* hex values that are in no data

Slugs == {Slug[t] : t \in Targets}

ASSUME RetrievalAssumption ==
  Targets \subseteq Nat /\ IsFiniteSet(Targets) /\ NULL \notin Slugs

VARIABLES
  stage,      \* "idle", "asking", "unknown", "failed", "gathered" or "analysed"
  protocol,   \* the slug the query names, NULL for all
  answer,     \* of each target: what became of the call
  timing,     \* the targets whose abort timer runs
  result,     \* the targets whose data, and whose error, the result carries
  analysis    \* [by, tokens, removed] of the summary

retrievalVars == <<stage, protocol, answer, timing, result, analysis>>

selected == IF protocol = NULL THEN Targets ELSE {t \in Targets : Slug[t] = protocol}

Errors == {"network_error", "gateway_error", "bad_response", "schema_mismatch", "empty_response"}
Settled(t) == answer[t] \in Errors \cup {"data"}
WithData == {t \in selected : answer[t] = "data"}

NoResult == [data |-> {}, errors |-> {}]
NoAnalysis == [by |-> "nobody", tokens |-> {}, removed |-> {}]

RetrievalInit ==
  /\ stage = "idle" /\ protocol = NULL /\ timing = {}
  /\ answer = [t \in Targets |-> "none"]
  /\ result = NoResult /\ analysis = NoAnalysis

\* Fault: no timer is armed around the call.
FetchUntimed(slug) ==
  /\ stage = "idle"
  /\ protocol' = slug
  /\ stage' = IF selected' = {} THEN "unknown" ELSE "asking"
  /\ answer' = [t \in Targets |-> IF t \in selected' THEN "asked" ELSE "none"]
  /\ UNCHANGED <<timing, result, analysis>>

\* A query that names a protocol goes to that one only, and is refused when no
\* subgraph is listed under it.
Fetch(slug) ==
  /\ stage = "idle"
  /\ protocol' = slug
  /\ stage' = IF selected' = {} THEN "unknown" ELSE "asking"
  /\ answer' = [t \in Targets |-> IF t \in selected' THEN "asked" ELSE "none"]
  /\ timing' = selected'
  /\ UNCHANGED <<result, analysis>>

\* A step of one target's call; its timer stops with the headers or the failure.
Becomes(t, what) ==
  /\ answer' = [answer EXCEPT ![t] = what]
  /\ timing' = timing \ {t}
  /\ UNCHANGED <<stage, protocol, result, analysis>>

Unreachable(t) == answer[t] = "asked" /\ Becomes(t, "network_error")
AbortFires(t) == answer[t] = "asked" /\ t \in timing /\ Becomes(t, "network_error")

\* The headers are in: from here on the body is read without the timer.
Headers(t, ok) == answer[t] = "asked" /\ Becomes(t, IF ok THEN "open" ELSE "refused")

\* The body ends, is no JSON, or breaks off (or the HTTP client gives up on it).
Body(t) ==
  \/ answer[t] = "open"
     /\ \E what \in {"data", "bad_response", "schema_mismatch", "empty_response"} : Becomes(t, what)
  \/ answer[t] = "refused" /\ Becomes(t, "gateway_error")

\* What an object keyed by slug keeps of the entries of S: the last of a slug.
Keyed(S) == {t \in S : ~\E u \in S : u > t /\ Slug[u] = Slug[t]}

\* Fault: what failed is left out of the answer.
GatherQuietly ==
  /\ stage = "asking" /\ \A t \in selected : Settled(t)
  /\ stage' = IF WithData = {} THEN "failed" ELSE "gathered"
  /\ result' = [data |-> Keyed(WithData), errors |-> {}]
  /\ UNCHANGED <<protocol, answer, timing, analysis>>

\* Every call has an outcome: the fetch fails when no subgraph answered.  The
\* data and the errors go into the answer by slug; a single named protocol's
\* data is the whole answer.
Gather ==
  /\ stage = "asking" /\ \A t \in selected : Settled(t)
  /\ stage' = IF WithData = {} THEN "failed" ELSE "gathered"
  /\ result' = [data |-> Keyed(WithData), errors |-> Keyed(selected \ WithData)]
  /\ UNCHANGED <<protocol, answer, timing, analysis>>

Evidence == UNION {Held[t] : t \in result.data}

\* Every hex value of the model's text that the data does not hold is cut out
\* and reported; the subject's address comes from the query and is trusted.
groundAnalysis(tokens) ==
  LET known == Evidence \cup {Subject}
  IN  [by |-> "openrouter", tokens |-> tokens \cap known, removed |-> tokens \ known]

\* The summary: the model's, once it is grounded, or the rules' when the data is
\* too large, the budget spent, the call failed or no model configured.
Analyse ==
  /\ stage = "gathered"
  /\ \/ \E tokens \in SUBSET (UNION {Held[t] : t \in Targets} \cup {Subject} \cup Invented) :
          analysis' = groundAnalysis(tokens)
     \/ analysis' = [by |-> "rule-based", tokens |-> {Subject}, removed |-> {}]
  /\ stage' = "analysed"
  /\ UNCHANGED <<protocol, answer, timing, result>>

RetrievalNext ==
  \/ \E slug \in Slugs \cup {NULL, "unlisted"} : Fetch(slug)
  \/ \E t \in Targets : \/ Unreachable(t) \/ AbortFires(t) \/ Body(t)
                        \/ \E ok \in BOOLEAN : Headers(t, ok)
  \/ Gather \/ Analyse

RetrievalSpec == RetrievalInit /\ [][RetrievalNext]_retrievalVars
-----------------------------------------------------------------------------
(* data/provider.ts:235-309.  An answer leaves no protocol out: each one   *)
(* that was asked is in it, with data of a subgraph that answered or with  *)
(* its error, and the fetch fails only when not one of them had data.      *)
EveryAnswerShown ==
  /\ stage \in {"gathered", "analysed"} =>
       /\ {Slug[t] : t \in result.data \cup result.errors} = {Slug[t] : t \in selected}
       /\ result.data # {} /\ \A t \in result.data : answer[t] = "data"
  /\ stage = "failed" => \A t \in selected : answer[t] \in Errors

(* data/provider.ts:311-343.  A fetch ends: a subgraph that never sends    *)
(* its headers is given up by the timer.                                   *)
RetrievalEnds == (stage = "asking") ~> (stage \in {"failed", "analysed"})
=============================================================================
