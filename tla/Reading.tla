------------------------------- MODULE Reading ------------------------------
(***************************************************************************)
(* How a submission's words, or its structured query, become the one query *)
(* that is priced and decided (query-parser.ts, ai/provider.ts interpret,  *)
(* app.ts POST /requests).  The model's answer is untrusted: any proposal  *)
(* that fits its schema may come back.                                     *)
(*                                                                         *)
(* A text is what the parser can find in it: the addresses it names, in    *)
(* order, the resources its words point at, and the windows it states.     *)
(***************************************************************************)
EXTENDS Policy, SequencesExt

CONSTANTS
  Wallets,     \* addresses of wallets, in lower case
  Zero,        \* the zero address, what a model writes for "no wallet"
  Junk,        \* a string that is no address
  Protocols,   \* protocol slugs
  Texts,       \* the prompts submitted
  Raws,        \* the structured queries submitted, readable or not
  Answers      \* what the model answers, NULL for no usable answer

Address == Wallets \cup {Zero}

ASSUME ReadingAssumption == NULL \notin Texts /\ \A t \in Texts : t.addresses \in Seq(Address)

\* [size : {"blank", "fits", "long"}, addresses : Seq(Address),
\*  keywords : SUBSET ResourceKind,
\*  explicit : Nat \X {"day", "week", "month", "year"} or NULL, relative : SUBSET Nat]
\* and a structured value: [resource, address, lookbackDays, protocol], each
\* NULL when absent; a lookback that is no number counts as 0.

extractAddress(text) == IF text.addresses = <<>> THEN NULL ELSE Head(text.addresses)

addressesIn(text) == ToSet(text.addresses)

\* Fault: any address is taken as one the request named.
isAnyProposal(query, text) == TRUE

isGroundedProposal(query, text) ==
  \/ query.resource = "protocol.markets" /\ query.address = Zero
  \/ query.address \in addressesIn(text)

\* Most specific first: the first resource whose words the text has.
RESOURCE_KEYWORDS ==
  <<"protocol.positions", "protocol.markets", "wallet.transfers", "wallet.balances",
    "wallet.activity">>

inferResource(text) ==
  LET found == SelectSeq(RESOURCE_KEYWORDS, LAMBDA kind : kind \in text.keywords)
  IN  IF found = <<>> THEN NULL ELSE Head(found)

Multiplier == [day |-> 1, week |-> 7, month |-> 30, year |-> 365]

\* A stated number of days wins over "last week", the shorter of two such
\* phrases over the longer, and 30 days stand for silence.
inferLookbackDays(text) ==
  clampLookbackDays(
    IF text.explicit # NULL THEN text.explicit[1] * Multiplier[text.explicit[2]]
    ELSE IF text.relative # {} THEN Min(text.relative) ELSE 30)

\* The rule-based parser: the query, or NULL for words it cannot read.
parsePrompt(text) ==
  IF \/ text.size \in {"blank", "long"}
     \/ extractAddress(text) = NULL
     \/ inferResource(text) = NULL
  THEN NULL
  ELSE [resource |-> inferResource(text), address |-> extractAddress(text),
        lookbackDays |-> inferLookbackDays(text), protocol |-> NULL]

\* What may come from a model or a caller: unknown fields are dropped, a
\* protocol that is no slug too.
parseStructuredQuery(value) ==
  IF \/ value = NULL
     \/ value.resource \notin ResourceKind
     \/ value.address \notin Address
     \/ value.address = Zero /\ value.resource # "protocol.markets"
  THEN NULL
  ELSE [resource |-> value.resource, address |-> value.address,
        lookbackDays |->
          clampLookbackDays(IF value.lookbackDays = NULL THEN 30 ELSE value.lookbackDays),
        protocol |-> IF value.protocol \in Protocols THEN value.protocol ELSE NULL]

\* The schema a model's answer must fit before it is a proposal at all.
InterpretationSchema(answer) ==
  /\ answer.resource \in ResourceKind
  /\ answer.lookbackDays \in 1..365

\* The proposal and who made it: the model, or the rule-based parser when the
\* call failed, the budget is spent, no model is configured, or the schema
\* does not fit.  The schema has no protocol.
interpret(text, answer) ==
  IF answer # NULL /\ InterpretationSchema(answer)
  THEN [proposal |-> [answer EXCEPT !.protocol = NULL], provider |-> "openrouter"]
  ELSE [proposal |-> parsePrompt(text), provider |-> "rule-based"]
-----------------------------------------------------------------------------
VARIABLES
  pc,       \* "idle", "received", "known", "stranger" or "read"
  text,     \* the prompt under way, NULL for a structured query
  raw,      \* the structured query under way, NULL for a prompt
  parsed,   \* the query read from it, NULL when unreadable
  by        \* who read it

readingVars == <<pc, text, raw, parsed, by>>

ReadingInit == pc = "idle" /\ text = NULL /\ raw = NULL /\ parsed = NULL /\ by = "nobody"

\* POST /requests with a prompt or a structured query; the query wins when both come.
Receive ==
  /\ pc = "idle"
  /\ \/ text' \in Texts /\ raw' = NULL
     \/ text' = NULL /\ raw' \in Raws
  /\ pc' = "received"
  /\ UNCHANGED <<parsed, by>>

\* Identity is resolved before anything is read, so that a stranger's words
\* never reach the model.
Identified(known) ==
  /\ pc = "received"
  /\ pc' = IF known THEN "known" ELSE "stranger"
  /\ UNCHANGED <<text, raw, parsed, by>>

ReadAs(query, reader) ==
  /\ parsed' = query
  /\ by' = reader
  /\ pc' = "read"
  /\ UNCHANGED <<text, raw>>

ReadStructured ==
  /\ pc \in {"known", "stranger"} /\ raw # NULL
  /\ ReadAs(parseStructuredQuery(raw), "structured")

ReadStranger ==
  /\ pc = "stranger" /\ raw = NULL
  /\ ReadAs(parsePrompt(text), "rule-based")

\* The model answers, or does not; what fails validation is discarded and the
\* rule-based parser has the last word.
Interpreted(answer) ==
  /\ pc = "known" /\ raw = NULL
  /\ LET it == interpret(text, answer)
         validated == parseStructuredQuery(it.proposal)
     IN  IF validated # NULL /\ isGroundedProposal(validated, text)
         THEN ReadAs(validated, it.provider)
         ELSE ReadAs(parsePrompt(text), "rule-based")

Answered ==
  /\ pc = "read"
  /\ pc' = "idle" /\ text' = NULL /\ raw' = NULL /\ parsed' = NULL /\ by' = "nobody"

ReadingNext ==
  \/ Receive \/ ReadStructured \/ ReadStranger \/ Answered
  \/ \E known \in BOOLEAN : Identified(known)
  \/ \E answer \in Answers : Interpreted(answer)

ReadingSpec == ReadingInit /\ [][ReadingNext]_readingVars
-----------------------------------------------------------------------------
(* query-parser.ts:51-60, app.ts:498-506.  Whatever the model answers,     *)
(* the query priced and decided for a prompt is about an address the       *)
(* prompt names, or it is market data about no wallet that the model       *)
(* proposed.                                                               *)
SubjectWasNamed ==
  (pc = "read" /\ text # NULL /\ parsed # NULL) =>
    \/ parsed.address \in addressesIn(text)
    \/ parsed.address = Zero /\ parsed.resource = "protocol.markets" /\ by = "openrouter"
=============================================================================
