------------------------------- MODULE MCParts ------------------------------
(***************************************************************************)
(* The parts of the project that share no state with the requests of the   *)
(* gateway's core, checked in one run: a behaviour picks one of them and   *)
(* is a behaviour of it, while the others stay as they begin.              *)
(***************************************************************************)
EXTENDS PolicyView, Limits, Snapshot, RequestTable, Startup, Reading, Retrieval, EnsSetup,
        PassportRecords, HederaSetup

CONSTANT Parts   \* the parts that run

VARIABLE part    \* the one that does

parts == <<part, vars, limitVars, snapshotVars, tableVars, startupVars, readingVars,
           retrievalVars, setupVars, recordVars, hederaVars>>

\* Prompts: with and without addresses, the zero address among them, keywords
\* of two resources, and windows stated in words, below and above the bounds.
SomeTexts ==
  [size : {"fits"}, addresses : {<<>>, <<Zero>>, <<"a">>, <<"a", "b">>, <<Zero, "b">>},
   keywords : {{}, {"wallet.balances"}, {"protocol.markets", "wallet.balances"},
               {"wallet.activity", "wallet.transfers"}},
   explicit : {NULL, <<0, "day">>, <<2, "week">>, <<2, "year">>}, relative : {{}, {7, 30}}]
  \cup {[size |-> "blank", addresses |-> <<>>, keywords |-> {}, explicit |-> NULL, relative |-> {}]}

Structured(days, protocols) ==
  [resource : {"wallet.balances", "protocol.markets", "token.prices"},
   address : {"a", "b", Zero, Junk}, lookbackDays : days, protocol : protocols]

SomeRaws == Structured({NULL, 0, 30, 900}, {NULL, "aave-v3", "AAVE V3"})
SomeAnswers == Structured({0, 30, 900}, {NULL}) \cup {NULL}

\* Three subgraphs, two of them of one protocol.
TwoSlugs == [t \in Targets |-> IF t = 3 THEN "compound" ELSE "aave"]
ThreeHeld == [t \in Targets |-> IF t = 3 THEN {"0xb"} ELSE {"0xa"}]

\* Passports with one resource and with two, with and without an approval
\* threshold and an expiry, and queries below and above that threshold.
SomePassports ==
  {[allowedResources |-> scope, maxCostPerQueryUsd |-> 1000000, dailyLimitUsd |-> 10000000,
    humanApprovalAboveUsd |-> above, expiresAt |-> expiry] :
     scope \in {{"wallet.balances"}, {"wallet.balances", "protocol.markets"}},
     above \in {0, 200000}, expiry \in {NULL, 5}}
SomeAsks ==
  {[resource |-> kind, lookbackDays |-> days] :
     kind \in {"wallet.balances", "protocol.markets"}, days \in {1, 365}}

\* Settings with payments and ENS on, off and half written.
SomeEnvironments ==
  [payTo : BOOLEAN, network : {TESTNET}, rpcUrls : {<<>>, <<"">>, <<"", "url">>},
   demoAgent : {FALSE}, account : {FALSE}, key : {"none"}, passports : {0}]

PartsInit ==
  /\ part \in Parts
  /\ Init /\ LimitsInit /\ SnapshotInit /\ TableInit /\ StartupInit /\ ReadingInit
  /\ RetrievalInit /\ SetupInit /\ RecordsInit /\ HederaInit
  \* The parts whose beginnings differ do not multiply those of the others.
  /\ part # "policy" => agent.expiresAt = NULL
  /\ part # "startup" => environment = CHOOSE settings \in Environments : TRUE
  /\ part # "records" => capability = CHOOSE passport \in NewPassports : TRUE

Limited ==
  \/ part = "submissions" /\ SubmissionsNext
  \/ part = "actions" /\ ActionsNext
  \/ part = "budget" /\ BudgetNext

PartsNext ==
  /\ UNCHANGED part
  /\ \/ part = "policy" /\ Next
     \/ part # "policy" /\ UNCHANGED vars
  /\ \/ Limited
     \/ part \notin {"submissions", "actions", "budget"} /\ UNCHANGED limitVars
  /\ \/ part = "snapshot" /\ SnapshotNext
     \/ part # "snapshot" /\ UNCHANGED snapshotVars
  /\ \/ part = "table" /\ TableNext
     \/ part # "table" /\ UNCHANGED tableVars
  /\ \/ part = "startup" /\ StartupNext
     \/ part # "startup" /\ UNCHANGED startupVars
  /\ \/ part = "reading" /\ ReadingNext
     \/ part # "reading" /\ UNCHANGED readingVars
  /\ \/ part = "retrieval" /\ RetrievalNext
     \/ part # "retrieval" /\ UNCHANGED retrievalVars
  /\ \/ part = "setup" /\ SetupNext
     \/ part # "setup" /\ UNCHANGED setupVars
  /\ \/ part = "records" /\ RecordsNext
     \/ part # "records" /\ UNCHANGED recordVars
  /\ \/ part = "hedera" /\ HederaNext
     \/ part # "hedera" /\ UNCHANGED hederaVars

RetrievalStep == Gather \/ Analyse \/ \E t \in Targets : AbortFires(t) \/ Body(t)

\* A timer of the gateway's event loop fires, and a system call returns.  A
\* subgraph's body ends, if only because the HTTP client gives up on it.  The
\* setup script makes progress, the chain does, and the human runs it again.
PartsFair ==
  /\ WF_snapshotVars(part = "snapshot" /\ Flush)
  /\ WF_retrievalVars(part = "retrieval" /\ RetrievalStep)
  /\ WF_setupVars(part = "setup" /\ ScriptStep)
  /\ WF_setupVars(part = "setup" /\ ChainStep)
  /\ WF_setupVars(part = "setup" /\ Rerun)

PartsSpec == PartsInit /\ [][PartsNext]_parts /\ PartsFair
=============================================================================
