# Faregate in TLA+

Faregate is a gateway that lets autonomous agents buy on-chain data with a
human's money. An agent has a passport and a capability (which resources, how
much per query, how much per day, above which price a human must sign off); it
submits requests, the gateway decides, and a cleared request is collected once
through a paid route. This directory models the gateway (policy engine, tables,
paid route, signed actions, submission, limits, snapshot file, startup), the
programs that talk to it (demo agent, command-line agent, dashboard) and the
scripts that set up its names and accounts.

`PROJECT.json` lists the components, runs, mutants, the lines every definition
stands for, the findings, the hazards and the theorems. Paths below are
relative to the repository.

## 1. Inventory

| Component | State it keeps | Operations | Interacts with |
|---|---|---|---|
| Policy engine, price list (`packages/shared/src/policy.ts`, `pricing.ts`) | none | `evaluatePolicy`, `priceQueryMicros`, `usdToMicros` | called by submission and by every gate check |
| Store (`apps/api/src/store.ts`) | passports, capabilities, requests, spend per passport and UTC day, idempotency keys, used signatures, audit log, save timer | put, revoke, update, record and release spend, consume nonce, remember key, record event; caps; `flush`, `load` | shared by every handler |
| Identity (`identity/service.ts`, `ens.ts`) | display copies in the store | `resolve`, `canRevokeLocally` | store, chain (external) |
| x402 gate (`payment/x402.ts`) | none | `reevaluate`, price callback, `onProtectedRequest` | identity, policy, store, facilitator (external) |
| Paid route (`routes/data.ts`) | `inFlight` | `GET /data/:id`, the `finish` listener | gate check, store, data and AI providers |
| Human actions (`app.ts`, `human-auth.ts`) | used signatures | approve, reject, create, set policy, revoke | store, identity |
| Submission, query parser (`app.ts`, `query-parser.ts`) | idempotency keys | `POST /requests`, `parsePrompt`, `parseStructuredQuery` | identity, interpreter, policy, store |
| Data and AI providers (`data/provider.ts`, `ai/provider.ts`) | hourly call budget | `fetch`, `interpret`, `analyze` | subgraphs and a model (external) |
| Rate limiter (`rate-limit.ts`) | hits per key | `check`, `prune` | in front of submission and actions |
| Server (`server.ts`, `config.ts`) | `paymentReady` | startup, facilitator check, shutdown | store, x402 server |
| Demo agent (`agent/demo-agent.ts`) | `finished`, `attempts`, `busy` | `tick`, `collect` | the gateway over HTTP |
| Command-line agent (`apps/agent/src/index.ts`) | none | submit or present a request, wait, collect | the gateway over HTTP |
| Dashboard (`apps/web`) | what was polled, the wallet in use | poll, signed clicks, wallet discovery | the gateway over HTTP, browser wallets |
| Setup scripts (`scripts/ens`, `scripts/hedera`) | `data/ens-setup.json`, `.env` | register names, write and revoke passports, create accounts | Sepolia, Hedera (external) |

What is hard here: the gateway is one Node.js thread and has no transactions.
Every handler looks at the store, awaits something (a chain, a signature, a
facilitator, a provider) and then writes, so every check may be stale when it
is acted on. Money is reserved before slow work and has to be given back on
every path that does not deliver, on the day it was counted on. Clients leave,
retry and send things twice; facilitators and providers fail; owners change the
chain without telling anybody; midnight falls in the middle. The process dies
between a change and its save. Around it, a client cannot tell a lost call from
a lost answer, pages show what was true a while ago, and a setup script that
pays for things dies between paying and writing down that it did.

What makes each component correct:

- *policy*: a decision never admits more than the dollars written down, a
  revoked passport is refused as revoked, and a world that only got narrower
  admits nothing new (`AdmitsWithinTheDollars`, `KillSwitchFirst`,
  `NarrowingNeverAdmits`);
- *paid route*: one collection of a request at a time (`SingleFlight`), one
  charge per request (`ChargedOnce`), a fulfilled request is a charged one
  (`FulfilledIffCharged`), the ledger balances (`LedgerBalanced`) and moves
  only as a fare ledger may (`FaresLikeALedger`), the daily limit holds for
  concurrent collections (`BudgetRespected`), every collection ends
  (`CollectionsEnd`);
- *gate and identity*: no service after a revocation (`RevokedNeverServed`), no
  dear query without its human (`HumanGate`), a half-written passport allows no
  more than the whole one (`HalfWrittenIsTighter`);
- *human actions*: a signature acts once (`SignatureOnce`, and although its
  table forgets, `ActedOnce`), a revocation is final (`RevocationIsFinal`);
- *submission and parser*: one request per key (`OneRequestPerKey`), an answer
  for every submission (`SubmissionsAnswered`), a query about an address that
  was named (`SubjectWasNamed`);
- *providers*: a fetch ends (`RetrievalEnds`) and leaves no subgraph out
  (`EveryAnswerShown`);
- *limits and caps*: no window admits more than its limit (`WindowsHold`),
  Retry-After is true to the second (`RetryAfterIsHonest`), what waits is never
  trimmed (`WaitingNeverDropped`);
- *snapshot*: a restart forgets nothing that was saved
  (`RestartKeepsWhatWasSaved`), a snapshot only ever says more
  (`SnapshotOnlyGrows`), a change is saved soon (`RecordedIsSaved`);
- *startup*: one facilitator check at a time until one succeeds
  (`OneCheckUntilReady`);
- *clients*: a fare is taken once though calls are retried (`FareTakenOnce`),
  what is cleared is collected (`ClearedIsCollected`), an exit code is the truth
  (`ExitTellsTheTruth`);
- *dashboard*: what it says of money is what the ledger holds
  (`DashboardTellsTheTruth`), what it predicts is what the engine decides
  (`PredictionHolds`), it catches up and never goes back (`ChangesAreShown`,
  `ViewNeverGoesBack`), it listens to the wallet it should
  (`ListensToPreferred`);
- *scripts*: names are whole and paid for once (`NamesAreWhole`), a commitment
  can be revealed (`CommitmentIsKept`), running again gets through
  (`GetsThrough`), every funded account's key is held (`EveryKeyIsHeld`).

## 2. Modules

```
Policy ─┬─ Store ── Identity ─┬─ Collection ──┐
        │                     ├─ HumanActions ┼─ Gateway ─┬─ GatewayView ── MCGateway
        │                     └─ Submission ──┘     │     │
        │                               FareLedger ─┘     │   (refined)
        ├─ RequestView ───────────────────────────────────┤
        ├─ PolicyDrift ─── PolicyView (with RequestView) ─┐
        ├─ Reading, Retrieval, PassportRecords ───────────┤
Limits, Snapshot, RequestTable, EnsSetup, HederaSetup ────┼─ MCParts
Startup ─┬────────────────────────────────────────────────┘
         └─ Clients ─┐
Console, Wallet ─────┴─ MCClients

PolicyProofs ─┬─ GatewayProofs ─┬─ CheckProofs
              │                 └─ SafetyProofs ── LedgerProofs (with GatewayView)
              └─ PartProofs     (with PolicyView, Reading, PassportRecords, Limits,
                                 Retrieval, Snapshot, RequestTable)
ClientProofs                    (Clients, Startup, Console, Wallet)
SetupProofs                     (EnsSetup, HederaSetup)
```

The core, one step per await:

- **Policy** translates `evaluatePolicy` as a sequence of named checks of which
  the first that fails decides. Policies carry dollars as floats; here a dollar
  amount counts tenths of a micro-USD, the coarsest unit in which the rounding
  of `usdToMicros` can be observed.
- **PolicyDrift** has no program state: its steps are the ways in which two
  inputs of the engine can differ between a quote and a gate.
- **Store** is the state of `GatewayStore`; its methods are synchronous, so they
  are operators used inside the step of the handler that calls them. The audit
  log is the set of kinds of events recorded about each subject. Time is the UTC
  day, the only thing the ledger distinguishes.
- **Identity** has both services. With `Ens = FALSE` the store answers at the
  call; with `Ens = TRUE` the chain answers at some later instant, or does not,
  and what is found is copied to the store for display. The owner of a name
  writes the chain at any time (external).
- **Collection** is one exchange per collector: the x402 hook, the price
  callback, the facilitator's verification (live mode), then the route's handler
  from await to await, and the `finish` listener. An exchange keeps what its
  closures hold (`at`, the price, the approval it read, the identity it got).
- **HumanActions** splits each handler at its await: what it looks at
  (`MayStart`), and what it writes once the signature was verified and consumed.
- **Submission** splits `POST /requests` at the identity and at the interpreter.
- **Gateway** composes them on one store and states the properties.
- **FareLedger** is the abstract promise about money: a fare is open, held or
  taken. `Gateway` implements it under the mapping `FareOf`.

Around the core, each with state of its own:

- **Limits**: the sliding windows of `rate-limit.ts` with their pruning, the two
  windows in front of a submission, the one in front of human actions, the
  hourly budget of model calls, and the capped table of used signatures with the
  ten-minute window it relies on. One clock, one step per check.
- **Snapshot**: the state file. Memory and file are sets of facts that must not
  be forgotten; a flush is begun, written beside the file and renamed, and the
  process may die, or the write fail, in between. `Stop` is the shutdown, after
  which open exchanges still record until `Exit`.
- **RequestTable**: `putRequest` with `trimRequests`, the other status changes,
  and which requests are listed. A request's id is its place in time.
- **Startup**: which parts are live under which settings (`config.ts`), the
  refresh of display copies, listening, and the facilitator check whose answer
  may come after its timeout.
- **Reading**: the query parser and the use of a model's proposal. A text is what
  the regular expressions can find in it; a proposal is any that fits its schema.
- **Retrieval**: the fan-out to subgraphs. Each call is a race of timer, headers
  and body; then what is gathered, and the summary with its grounding.
- **RequestView**, with **GatewayView** and **PolicyView**: what the dashboard
  says of a request (beside the ledger of `Gateway`) and of an ask (beside the
  engine of `PolicyDrift`), reduced to claims about money and outcomes.
- **Clients**: demo agent and command line in front of the paid route as a client
  sees it, with calls and answers that get lost (a settlement that fails when the
  client is gone goes `Unheard`: the request stays fulfilled); EXTENDS `Startup`,
  because the demo agent is started, and payments open, as the settings say.
- **Console**: the polling of `ConsoleProvider.tsx`, several requests per refresh,
  the in-flight flag, and clicks. The gateway is a count of its changes.
- **Wallet**: announcements, the choice of a wallet, and reads answered late.
- **EnsSetup**: `ens:setup` step by step (look, send, mined, save), the chain's
  contracts and names, and a human who runs it again; and `ens:passport revoke`.
- **PassportRecords**: the records of one passport written one transaction at a
  time, read one by one by the gateway.
- **HederaSetup**: the gateway's account and its association, with `.env` as the
  script's state and a mirror node that trails the chain.

**MCParts** and **MCClients** check in one run the modules that share no state:
a variable `part` picks one module (or one limiter) per behaviour, whose
next-state relation runs while the variables of all others stay as they begin.
The state graph is the disjoint union of the parts' graphs, so a property of one
part says of the others only that it holds at their beginning.

Code that pairs with an action is named in `PROJECT.json` "map"; fault operators
(commented `Fault:`) are there for the mutants and are used by no action.

### Turns of the event loop

A promise that resolves without I/O resumes its handler before any other
callback of the event loop runs. Two places depend on it: with local passports
`reevaluate` resumes in the turn in which it was called, and `collect` resumes
from `reevaluate` in the turn in which the latter decided. `MidTurn` names the
states in which an exchange is about to resume in this way; `Turn` and `Quiet`
keep the others from running there. `SharedTurn = TRUE` drops this: two
requests parsed from one read of a connection (HTTP pipelining, simulated
mode) have their promises alternate. Submissions are split at every await
without this refinement, which only adds behaviours.

A human action leaves its turn only where `Waits` says so: the digest of a
creation or of a capability goes through `crypto.subtle`, and the first recovery
of a signer has viem load its curve module. An unsigned decision or revocation,
and a signed one with the curves at hand, are chains of promises; the actions
that waited for the curves together resume in one turn. `HumanMidTurn` names
them, and `HumansTurn` and `HumansQuiet` keep everything else from running until
they are through. `SharedTurn = TRUE` drops this too, and splits human actions at
every await.

The x402 middleware calls the price callback in the turn in which the hook let
the request through, so the prefix of its check is part of `PassGate`. In live
mode middleware I/O precedes every entry into the route.

## 3. Runs

The gateway runs use `MCGateway`, small sets of model values, and queries of
10,200 and 20,200 micro-USD against a day of 30,200 (or 10,200): each fits,
both together do not, so the limit is really contended for. The bounds: the ids
left for requests (`IdsLeft`), the last day (`MaxDay`) and the envelopes humans
send. Exchanges are reused without bound, so a request can fail and be
collected again any number of times. Symmetry over collectors is used only in
the run `ens`, which has no liveness property. `CHECK_DEADLOCK FALSE` stands in
every configuration: when all requests are decided and collected, the script is
through or the bounds are used up, nothing need happen.

| Run | Shows |
|---|---|
| `parts` | the twelve parts below, one per behaviour |
| `clients` | demo agent and command line, dashboard polling, wallet choice |
| `local` | simulated payments and local passports, 2 exchanges, 1 human, 2 requests: types, single flight, human gate, the budget |
| `ens` | live payments, one ENS name and one local name: revocation racing every stage of a collection, chain failures, settlement failures; the dashboard's words beside the ledger |
| `midnight` | the ledger across midnight, failures and retries, one charge per request, and the refinement of `FareLedger` |
| `humans` | two human exchanges, four signed envelopes over the life of a passport that is not seeded |
| `ends` | liveness, with disconnects, shared turns and midnight allowed |

**Bounds of `parts`.** *Policy*: limits half a unit below and above the cheapest
price and of two queries, spends of none and one query, lookbacks at, below and
above the clamp, expiry now or later. *Limits*: windows of three units with two
units to a second (so that rounding up to seconds differs from rounding down),
pruning at every second check instead of every 500th, two callers, one passport,
a signature table of two with a validity of one unit to either side, five
instants: long enough for a window to empty and refill. *Snapshot*: two facts,
two failing writes, crashes and damage without bound. *RequestTable*: a cap of
two and four requests, so that the cap is exceeded with only waiting requests,
with one, and with two finished ones. *Startup*: settings with payments and ENS
on, off and half written; two late answers at once. *Reading*: texts with no, one
and two addresses, the zero address among them, keywords of two resources that
compete; proposals inside and outside the schema's bounds. *Retrieval*: three
subgraphs under two slugs. *EnsSetup*: three salts for each contract, two
secrets, one crash, one mishap to the state file (lost, or replaced by another
setup's) and one revocation. *PassportRecords*: eight passports and four asks.
*HederaSetup*: funds for four accounts, three deaths, one `--force` (of a new
account, or of an association whose key does not match).

**Bounds of `clients`.** Payments on the testnet with a good key, on mainnet, and
with a key that cannot be read; two requests, both listed, two
attempts instead of three and two losses, so that attempts can be used up by
losses either way; the dashboard sees two changes, two clicks (decisions or asks)
and two unanswered polls; two preferred wallets and an injected one announce
themselves at any time, with one change of accounts and one read outstanding.

**Fairness.** What is assumed, and why the code justifies it:

- `FairSpec` (`ends`) asks weak fairness of each exchange's own steps
  (`Progress`, `HumanProgress`, `SubmissionProgress`): the event loop runs every
  ready callback, and every awaited call is answered or fails (viem, the
  facilitator client and the providers have timeouts). Nothing is assumed of
  callers, owners, humans or the clock: no fairness is put on arrivals, on
  `OwnerActs` or on `Midnight`. `ends` sets `SharedTurn`, because in a shared
  turn a handler's next step stays enabled until it is taken.
- `PartsFair` (`parts`): the save timer fires and a flush's system calls return;
  the abort timer of a subgraph call fires, and a body that was begun ends, if
  only because the HTTP client gives up on it (the timer of `queryOne` stops at
  the headers); the setup script's own steps are taken, the chain mines, and the
  human runs the script again. No fairness on headers or refusals.
- `AllFair` (`clients`): the gateway's timers fire and its handlers end, the
  demo agent's interval fires and its code runs on, a call that was sent
  arrives or is lost. The facilitator, asked again and again, confirms in the
  end: strong fairness on `Confirm`, an assumption about the outside without
  which paid collection may stay closed for ever. The dashboard's interval
  fires and every refresh ends. Nothing is assumed of humans or of the command
  line.

### Disagreements between code and documentation

Each of these runs checks one statement of the documentation and finds it
violated by what the code does:

- `one_key`: idempotency keys are looked up before and remembered after awaits.
- `gone`: a fare is released only by the `finish` listener, which never runs when
  the client has gone.
- `recreated`: a creation that passed its check before another was stored
  overwrites a passport that was revoked meanwhile.
- `twice`: signatures are not required (`config.ts:414`). A signed approval that
  passed its status check waits for the curves; an unsigned one of the same
  request is written meanwhile, the request is paid for and fulfilled; then the
  signed one is written, the request waits for payment again, and is charged
  again. With signatures required the run would find nothing: both approvals
  would resume in one turn, with no collection between them.
- `clean_stop`: shutdown flushes before it lets open exchanges end; what they
  write is saved only when the save timer still fires before the exit. In this
  run no write fails and no file is damaged: the flush succeeds, an exchange
  writes after it, and the process exits.

The window of `recreated` and `twice` is the await of the authorisation: the
digest of a creation always leaves the turn, recovering a signer only while
viem loads its curves for the first time.

Seen while modelling and not run:

- With `SharedTurn` in simulated mode (two pipelined requests in one read of a
  connection) `BudgetRespected` fails: the daily limit is compared one promise
  before the fare is reserved. `local` keeps `SharedTurn` FALSE.
- With `ClockMayTurn` (midnight between the two clock reads of one collection,
  `x402.ts:62` and `data.ts:92`) it fails too.
- An approval and a rejection of one request may both be recorded, the later one
  deciding (`app.ts:639` against `openapi.yaml:279-280`): in the window of
  `twice`, or both signed, waiting for the curves and resuming in one turn.
- `query-parser.ts:28` calls the zero address "never a subject to query", and
  `parseStructuredQuery` refuses it; `parsePrompt` accepts it when a prompt
  spells it out.
- `agent/src/index.ts:285-295`: a request that the demo agent collects between
  two polls is reported as "No decision within" the time, exit code 3, although a
  human approved it. `ExitTellsTheTruth` claims of code 3 only that this agent
  paid nothing.
- `passport.ts:194-225` writes the expiry last and takes any date. A passport
  written with a date in the past is read without an expiry, and so as one that
  is in force, until its last record is mined: `HalfWrittenIsTighter` holds of
  passports that have not expired when they are written.
- With ENS a name outside the parent may have a local row and records on the
  chain: once they are read, their copy replaces the row (`service.ts:99-104`),
  a revoked one too. `RevokedForGood` is about local passports.
- The table of used signatures protects against replays as long as the actions
  admitted during the ten minutes a signature is in date fit into it: with
  thirty actions per caller and minute and a table of 50,000, up to 151
  callers at their limit. Nothing bounds the number of callers.
- `RequestLedger.tsx:371-378` goes on saying that the demo agent is paying and
  that the row updates within a few seconds after the agent has given the
  request up.

## 4. Proofs

TLC checks the instances above; the theorems hold for any sets of exchanges,
humans, submissions, requests, passports, keys, envelopes, queries, chain
records, texts, subgraphs, wallets, callers and facts, any limits, windows, caps
and bounds, any number of days, crashes, losses and late answers and every value
of the mode constants, except where a hypothesis is named. They rest on the named
assumptions on constants (`NULL` and `DOWN` are no values of the types they stand
beside, envelopes are well formed and a signature belongs to one of them, queries
and chain records are typed, bounds are numbers, subgraphs are finitely many),
which TLC evaluates in every run. Each proof has one case per action and lemmas
for what the shared operators return and leave alone.

| Theorem | States | Hypotheses | Argument |
|---|---|---|---|
| `PolicyProofs!AllowedWithinLimits`, `RevokedIsReportedRevoked` | what an admission and a revocation mean | | the first failing check decides |
| `PartProofs!AdmissionWithinDollars`, `KillSwitchDecides`, `GateOnlyHardens` | `AdmitsWithinTheDollars`, `KillSwitchFirst`, `NarrowingNeverAdmits` | | rounding moves an amount by half a unit; every check is monotone in the narrowing |
| `PartProofs!ThePickerPredicts` | `[]PredictionHolds` | | the picker's checks and the engine's agree one by one, on whole micro-USD |
| `GatewayProofs!TypeCorrect` | `[]TypeOK` | | `Typed` |
| `SafetyProofs!CollectedOneAtATime` | `[]SingleFlight` | | `Alone` |
| `SafetyProofs!SignaturesActOnce` | `[]SignatureOnce` | | `Counted` |
| `SafetyProofs!DearQueriesHaveTheirHuman` | `[]HumanGate` | | `Gated` |
| `SafetyProofs!RevokedForGood` | `RevocationIsFinal` | `~Ens`, `OneCreation` | `NamesFree` |
| `CheckProofs!DailyLimitHolds` | `BudgetRespected` | `~SharedTurn`, `~ClockMayTurn` | `Fits` |
| `CheckProofs!RevokedGetsNothing` | `[]RevokedNeverServed` | | `Caught`, for every exchange |
| `LedgerProofs!NobodyPaysTwice` | `[]ChargedOnce` | `OneDecision` | `Books` |
| `LedgerProofs!FulfilledMeansCharged` | `[]FulfilledIffCharged` | `OneDecision`, `~MayDisconnect` | `Books` |
| `LedgerProofs!TheDashboardIsTruthful` | `[]DashboardTellsTheTruth` | `OneDecision`, `~MayDisconnect` | `Books` |
| `LedgerProofs!TheLedgerBalances` | `[]LedgerBalanced` | `~MayDisconnect`, finitely many exchanges and requests | `Carried`, and sums over finite sets |
| `LedgerProofs!TheGatewayIsALedger` | `FaresLikeALedger` | all of these | step by step, under `FareOf` |
| `PartProofs!ReadWhatWasNamed` | `[]SubjectWasNamed` | | `ReadingInv` |
| `PartProofs!HalfAPassportIsTighter` | `[]HalfWrittenIsTighter` | what is written has not expired | a missing record is read as its tightest value |
| `PartProofs!NoWindowHoldsMore`, `ToldTheTruth` | `[]WindowsHold`, `[]RetryAfterIsHonest` | | `LimitsInv` |
| `PartProofs!NothingActedTwice` | `[]ActedOnce` | `EnoughRemembered` | `ActedInv` |
| `PartProofs!AnswersAreShown` | `[]EveryAnswerShown` | | `AskedInv` |
| `PartProofs!SnapshotHolds`, `NothingSavedIsLost`, `SnapshotsGrow` | `[]RestartKeepsWhatWasSaved`, `SnapshotOnlyGrows` | | `SnapshotInv` |
| `PartProofs!WaitingStays` | `WaitingNeverDropped` | | `TableInv` |
| `ClientProofs!OneCheckAtATime` | `[]OneCheckUntilReady` | | `CheckInv` |
| `ClientProofs!NoFareTwice`, `TheExitIsTrue` | `[]FareTakenOnce`, `[]ExitTellsTheTruth` | | `ClientsInv` |
| `ClientProofs!ThePageGoesForward` | `ViewNeverGoesBack` | | `OneRefresh` |
| `ClientProofs!ThePageListens` | `[]ListensToPreferred` | | `ListensToChosen` |
| `SetupProofs!NamesStayWhole`, `CommitmentsStayUsable` | `[]NamesAreWhole`, `[]CommitmentIsKept` | | `EnsInv` |
| `SetupProofs!KeysStayHeld` | `[]EveryKeyIsHeld` | | `KeyInv` |

Finiteness apart, each excludes executions the model allows, in which the property
fails: a run or "Seen while modelling" shows one. The passing run that checks the
property satisfies the hypothesis.

- `OneDecision`: there is one human exchange, or signatures are required and
  either turns are not shared or humans sign one decision per request. So where
  turns are not shared, a gateway that requires signatures needs no assumption
  about its humans; `twice` shows what two decisions do where one of them may be
  unsigned.
- `OneCreation`: there is one human exchange, or signatures are required and
  humans sign one creation per name; `recreated` shows what two do.
- `~MayDisconnect`: every client waits for its answer; `gone` shows what one does
  that leaves. `NobodyPaysTwice` does not need it.
- `~SharedTurn`, `~ClockMayTurn`: nothing runs between a check and its
  reservation, and both read one day (see "Seen while modelling").
- `EnoughRemembered`: the table has room for the actions the windows admit while a
  signature is in date, in the code for 151 callers at their limit.

Hardly any of the properties is inductive; the strengthenings are:

- **Typed** is `TypeOK` with `Placed` and `Asking`: an exchange that is not idle
  names a stored request, one past its check is in the route, a submission that
  is not idle names a passport. Without them nothing says that what a handler
  writes back on resuming is an update of a request that exists.
- **Alone** is `SingleFlight` request by request and pair by pair, which is what
  a step of one exchange can be seen to preserve.
- **Counted** ties the history of actions to `usedNonces`: a used signature has
  acted at most once, an unused one never.
- **Gated** follows an approval from the event that records it to the request,
  to the copy an exchange made of it before it awaited the identity, and to
  the fare that was let through by it. The request's own approval may have
  changed since (a second decision still being verified overwrites it), so the property cannot be
  proved from the request.
- **NamesFree**: a creation that can still be authorised finds its name free. A
  second delivery of the same envelope may be under way when it is written, but
  its signature is used then.
- **Fits** says that an exchange that has passed its check still fits the day it
  was checked against. It is preserved because nothing runs between the check
  and the reservation (`OneMidTurn`), and established because `collect` and
  `reevaluate` read the same day.
- **Caught** says what an exchange whose passport was revoked when its check
  began may still learn: with ENS, the revoked records or that the chain is
  down; with local passports, the revoked row. It rests on two facts with
  lemmas of their own: a stored request keeps its agent (`NextKeepsAgents`),
  and a revoked name is never written again, which the gateway does not enforce
  and is assumed of owners (`OwnerWrites`).
- **Books** ties the status and the receipt of a request to its fare: a request in
  the route is not fulfilled, one that settles is fulfilled and not charged yet
  and settles once, what was charged was charged once for a fulfilled request.
  It needs `InTime` (a decision that can still be authorised finds its request
  waiting for one, or decided on earlier in the same turn and `Uncollected`), or a
  late decision reopens a fulfilled request. That every
  step of the gateway is one of six moves on a request (`Moves`) is proved once
  and used by all that follows.
- **Carried**: fares are carried at their request's price. With it, each move
  changes one term of the two sums of the ledger. The sums are over finite sets
  of any size; what changing one term does to a sum, where an induction over the
  set cannot be stated, is proved from a smallest counterexample
  (well-foundedness of strict inclusion).
- **ReadingInv**: a prompt or a structured query is under way, never both.
- **LimitsInv** says of each key that its list is in order, counts now and at any
  later time exactly as much as all that was ever let through, that no window of
  the past holds more than the limit, and that the last refusal named the
  instant from which less is counted, rounded up. That filtering and pruning
  change no later count is shown by giving each counted event its rank.
- **ActedInv** gives every remembered signature an action of its own that went
  through, in order and not before the signature was in date. When the oldest is
  forgotten, all the others went through after it; if it were still in date
  they would all fall into as many windows as `EnoughRemembered` counts, and
  there they have no room.
- **AskedInv**: what is gathered is what the settled calls say. **SnapshotInv**: a
  flush in progress writes what memory holds (`FlushIsOfMemory`), a file that is
  not whole says nothing, a running gateway knows what its file says, and what a
  serving one knows beyond its file has a save pending, unless the last write
  failed (`UnsavedIsPending`).
- **TableInv**: ids are given in the order of creation and nothing is stored
  beyond the last; with it, a trim is seen to drop finished requests only.
- **ClientsInv**: a request that is being collected can be collected and is held by
  one client, one that was charged for was charged once and is fulfilled
  (`RouteInv`); the demo agent has called only if it was started (`DemoInv`); and
  the command line, from its call to its exit code, is told nothing but the
  truth, though an answer may be lost (`CliInv`).
- **OneRefresh**: at most one refresh waits, exactly while one is said to, and what
  it has read is between what the page shows and what the gateway has.
  **ListensToChosen**: the page listens to the wallet it would choose.
  **CheckInv**: no check before listening, and types.
- **EnsInv** has four parts: what is mined (`ChainInv`), what may still be mined
  at any later time, by this run or one that died (`TxInv`: such a transaction
  is sound, and soundness is kept as the chain grows), what the running script
  knows at each step (`RunInv`), and where the last secret is (`SecretInv`).
  Nothing less survives a transaction mined after the script that sent it died.
- **KeyInv**: a key in use is the one in `.env`, and there is one as soon as an
  account exists.

Only model-checked:

- liveness, which is out of the prover's reach: `CollectionsEnd`,
  `SubmissionsAnswered`, `RecordedIsSaved`, `RetrievalEnds`, `GetsThrough`,
  `ClearedIsCollected`, `ChangesAreShown`;
- the five violations, which are counterexamples and no theorems.

Every safety invariant and action property of a passing run is a theorem. Nine
of them are proved under a hypothesis of the table, the others under none but the
assumptions on the constants.

## 5. What is not modelled

- The caps of the audit log and the idempotency keys; the loop that keeps a
  sleeping host awake (`server.ts`), which decides nothing; `explain` and all
  prompts and wording; the rest of `config.ts` (CORS, paths, data and AI settings).
- Torn reads of a passport inside the gateway: one ENS resolution is one read in
  `Identity`. `PassportRecords` has the single reads, but only against the
  script that writes a passport for the first time, not against changes.
- The x402 protocol itself and the facilitator: whether a payment verifies and
  whether it settles are free choices.
- The documents sent to subgraphs and the values the simulated provider makes
  up. Of an analysis only the hex values it mentions are kept.
- The demo agent's filter on passport names. What falls off the hundred newest
  requests is never listed to it again: `ClearedIsCollected` is stated of what is
  listed.
- The display copies that remain when a gateway with ENS passports is started
  again without `ENS_RPC_URL`: the local service answers from them
  (`identity/service.ts:52`).
- In the scripts: dry runs, listing and checking commands; a Hedera transaction
  that lands after its receipt was given up; an `.env` torn by a crash in the
  middle of its write (`scripts/hedera/common.ts:79` writes in place); which
  resolver `ens:passport` takes when the state file belongs to another setup.
- The dashboard's layout, art and static pages, its single `busy` key for all
  buttons, and the end-to-end script: no decision is taken there.

## 6. What could come next

1. Torn ENS reads in `Identity`, with an owner who narrows a passport while it is
   being resolved.
2. `RevokedForGood` with ENS, for names that have no records outside the parent.
3. Which of the theorems' hypotheses a change of the code would make superfluous:
   a second look at the status after the await (`app.ts:670`), a release when the
   connection closes (`data.ts:242`), an entry reserved before the await
   (`app.ts:321`).
