----------------------------- MODULE PartProofs -----------------------------
(***************************************************************************)
(* The parts of the gateway that stand beside its paid route, each for any *)
(* constants: a passport that changes between admission and the gate       *)
(* (module PolicyDrift), the dashboard's prediction of a decision          *)
(* (PolicyView), what is read from a prompt (Reading), half a passport on  *)
(* ENS (PassportRecords), the sliding windows and the used signatures      *)
(* (Limits), what a request is shown (Retrieval), the state file           *)
(* (Snapshot) and the request table (RequestTable).                        *)
(***************************************************************************)
EXTENDS PolicyView, PolicyProofs, Reading, PassportRecords, Limits, Retrieval,
        Snapshot, RequestTable, FiniteSetTheorems, WellFoundedInduction

-----------------------------------------------------------------------------
(* A passport that changes between admission and the gate *)

\* When the first input is at most as restrictive as the second, what the
\* second allows the first allows, and no sign-off is lost between them.
LEMMA NarrowerInput ==
  ASSUME NEW q \in ResourceQuery,
         NEW a \in Passport, NEW b \in Passport,
         NEW p \in Capability, NEW n \in Capability, Narrower(n, p),
         NEW s \in Nat, NEW t \in Nat, s <= t,
         NEW i \in Nat, NEW j \in Nat, i <= j,
         b.expiresAt = a.expiresAt,
         b.status = a.status \/ b.status = "revoked",
         Decide(q, b, n, t, j).allowed
  PROVE  /\ Decide(q, a, p, s, i).allowed
         /\ Decide(q, a, p, s, i).requiresHumanApproval
              => Decide(q, b, n, t, j).requiresHumanApproval
<1> DEFINE in1 == [agent |-> a, policy |-> p, query |-> q, spentTodayMicros |-> s, now |-> i]
           in2 == [agent |-> b, policy |-> n, query |-> q, spentTodayMicros |-> t, now |-> j]
           cost == priceQueryMicros(q)
<1>1. Passes(in2)
  BY AllowedExpanded DEF Decide
<1>2. /\ b.status # "revoked" /\ b.status # "expired" /\ ~isExpired(b.expiresAt, j)
      /\ ~isExpired(n.expiresAt, j)
      /\ q.resource \in n.allowedResources
      /\ ~(cost > usdToMicros(n.maxCostPerQueryUsd))
      /\ ~(t + cost > usdToMicros(n.dailyLimitUsd))
  <2>1. /\ in2.agent = b /\ in2.policy = n /\ in2.query = q
        /\ in2.spentTodayMicros = t /\ in2.now = j
    OBVIOUS
  <2> HIDE DEF in2
  <2>2. QED
    BY <1>1, <2>1, PassesExpanded, FailsExpanded
<1>3. ~isExpired(a.expiresAt, i) /\ ~isExpired(p.expiresAt, i)
  <2>1. \A e, f \in Nat \cup {NULL} : NoLater(e, f) /\ ~isExpired(e, j) => ~isExpired(f, i)
    BY NullAssumption DEF NoLater, isExpired
  <2>2. NoLater(b.expiresAt, a.expiresAt) /\ NoLater(n.expiresAt, p.expiresAt)
    BY NullAssumption DEF Narrower, NoLater, Passport
  <2>3. QED
    BY <1>2, <2>1, <2>2 DEF Passport, Capability
<1>4. cost \in Nat
  BY PriceIsNat
<1>5. /\ usdToMicros(n.maxCostPerQueryUsd) \in Nat /\ usdToMicros(p.maxCostPerQueryUsd) \in Nat
      /\ usdToMicros(n.dailyLimitUsd) \in Nat /\ usdToMicros(p.dailyLimitUsd) \in Nat
      /\ usdToMicros(n.humanApprovalAboveUsd) \in Nat /\ usdToMicros(p.humanApprovalAboveUsd) \in Nat
  BY RoundingIsClose DEF Capability
<1>6. /\ usdToMicros(n.maxCostPerQueryUsd) <= usdToMicros(p.maxCostPerQueryUsd)
      /\ usdToMicros(n.dailyLimitUsd) <= usdToMicros(p.dailyLimitUsd)
      /\ usdToMicros(n.humanApprovalAboveUsd) <= usdToMicros(p.humanApprovalAboveUsd)
  BY RoundingIsMonotone DEF Narrower, Capability
<1>7. /\ ~(cost > usdToMicros(p.maxCostPerQueryUsd))
      /\ ~(s + cost > usdToMicros(p.dailyLimitUsd))
      /\ cost > usdToMicros(p.humanApprovalAboveUsd) => cost > usdToMicros(n.humanApprovalAboveUsd)
  <2> HIDE DEF cost
  <2>1. QED
    BY <1>2, <1>4, <1>5, <1>6
<1>8. Passes(in1)
  <2>1. /\ in1.agent = a /\ in1.policy = p /\ in1.query = q
        /\ in1.spentTodayMicros = s /\ in1.now = i
    OBVIOUS
  <2>2. a # NULL /\ p # NULL /\ q # NULL
    BY NullAssumption
  <2>3. q.resource \in p.allowedResources /\ a.status # "revoked" /\ a.status # "expired"
    BY <1>2 DEF Narrower
  <2> HIDE DEF in1
  <2>4. QED
    BY <1>3, <1>7, <2>1, <2>2, <2>3, PassesExpanded, FailsExpanded
<1>9. NeedsHuman(in1) => NeedsHuman(in2)
  BY <1>7 DEF NeedsHuman
<1>10. QED
  BY <1>1, <1>8, <1>9, AllowedExpanded DEF Decide
-----------------------------------------------------------------------------
(* The drifting world *)

DriftTypeOK ==
  /\ agent \in Passport
  /\ policy \in Capability \cup {NULL}
  /\ spent \in Nat
  /\ now \in Nat

\* Whatever the owner may write is a well-formed policy.
LEMMA PoliciesWellFormed == Capabilities \subseteq Capability
<1>1. ASSUME NEW scope \in Scopes PROVE scope \subseteq ResourceKind
  BY DEF Scopes, ResourceKind
<1>2. Scopes \subseteq SUBSET ResourceKind
  BY <1>1
<1>3. Limits \subseteq Nat /\ {0, NULL} \subseteq Nat \cup {NULL}
  BY DriftAssumption
<1>4. QED
  BY <1>2, <1>3, Zenon DEF Capabilities, Capability

\* The owner's and the clock's steps leave the world of the picker typed.
LEMMA DriftStep == DriftTypeOK /\ [Next]_vars => DriftTypeOK'
<1> USE DEF DriftTypeOK
<1> SUFFICES ASSUME DriftTypeOK, [Next]_vars PROVE DriftTypeOK'
  OBVIOUS
<1>stay. CASE UNCHANGED vars
  BY <1>stay DEF vars
<1>policy. CASE SetPolicy
  BY <1>policy, PoliciesWellFormed DEF SetPolicy
<1>spend. CASE Spend
  BY <1>spend, DriftAssumption DEF Spend
<1>revoke. CASE Revoke
  BY <1>revoke DEF Revoke, Passport, AgentStatus
<1>wait. CASE Wait
  BY <1>wait DEF Wait
<1> QED
  BY <1>stay, <1>policy, <1>spend, <1>revoke, <1>wait DEF Next

LEMMA DriftTyped == Spec => []DriftTypeOK
<1>1. Init => DriftTypeOK
  BY DriftAssumption DEF Init, DriftTypeOK, Passport, AgentStatus, Instants
<1>2. QED
  BY <1>1, DriftStep, PTL DEF Spec

\* What is admitted stays within the owner's dollars, up to the rounding of
\* pricing.ts:31-34, for every set of limits, spends, instants and windows.
THEOREM AdmissionWithinDollars == Spec => []AdmitsWithinTheDollars
<1>1. DriftTypeOK => AdmitsWithinTheDollars
  <2> SUFFICES ASSUME DriftTypeOK, policy # NULL, NEW q \in Queries, Decision(q).allowed
               PROVE  /\ 10 * priceQueryMicros(q) <= policy.maxCostPerQueryUsd + 5
                      /\ 10 * (spent + priceQueryMicros(q)) <= policy.dailyLimitUsd + 5
                      /\ ~Decision(q).requiresHumanApproval =>
                           10 * priceQueryMicros(q) <= policy.humanApprovalAboveUsd + 5
    BY DEF AdmitsWithinTheDollars
  <2>1. q \in ResourceQuery /\ policy \in Capability /\ spent \in Nat
    BY DriftAssumption DEF DriftTypeOK, Queries, ResourceQuery, ResourceKind
  <2>2. /\ policy.maxCostPerQueryUsd \in Nat /\ policy.dailyLimitUsd \in Nat
        /\ policy.humanApprovalAboveUsd \in Nat
    BY <2>1 DEF Capability
  <2> DEFINE in == [agent |-> agent, policy |-> policy, query |-> q,
                    spentTodayMicros |-> spent, now |-> now]
             cost == priceQueryMicros(q)
  <2>3. /\ cost <= usdToMicros(policy.maxCostPerQueryUsd)
        /\ spent + cost <= usdToMicros(policy.dailyLimitUsd)
        /\ ~Decision(q).requiresHumanApproval =>
             cost <= usdToMicros(policy.humanApprovalAboveUsd)
    <3>1. /\ in.query = q /\ in.policy = policy /\ in.spentTodayMicros = spent
          /\ Decision(q) = evaluatePolicy(in)
      BY DEF Decision, Decide
    <3> HIDE DEF in
    <3>2. QED
      BY <3>1, <2>1, AllowedWithinLimits
  <2>4. cost \in Nat
    BY <2>1, PriceIsNat
  <2> HIDE DEF cost
  <2>5. /\ usdToMicros(policy.maxCostPerQueryUsd) \in Nat
        /\ usdToMicros(policy.dailyLimitUsd) \in Nat
        /\ usdToMicros(policy.humanApprovalAboveUsd) \in Nat
        /\ 10 * usdToMicros(policy.maxCostPerQueryUsd) <= policy.maxCostPerQueryUsd + 5
        /\ 10 * usdToMicros(policy.dailyLimitUsd) <= policy.dailyLimitUsd + 5
        /\ 10 * usdToMicros(policy.humanApprovalAboveUsd) <= policy.humanApprovalAboveUsd + 5
    BY <2>2, RoundingIsClose
  <2>6. /\ 10 * cost <= policy.maxCostPerQueryUsd + 5
        /\ 10 * (spent + cost) <= policy.dailyLimitUsd + 5
        /\ ~Decision(q).requiresHumanApproval => 10 * cost <= policy.humanApprovalAboveUsd + 5
    BY <2>1, <2>2, <2>3, <2>4, <2>5
  <2>7. QED
    BY <2>6 DEF cost
<1>2. QED
  BY <1>1, DriftTyped, PTL

\* The kill switch decides before anything else, whatever the query.
THEOREM KillSwitchDecides == Spec => []KillSwitchFirst
<1>1. DriftTypeOK => KillSwitchFirst
  <2> SUFFICES ASSUME DriftTypeOK, agent.status = "revoked", NEW q \in Queries \cup {NULL}
               PROVE  Decision(q) = [allowed |-> FALSE, requiresHumanApproval |-> FALSE,
                                     code |-> "agent_revoked"]
    BY DEF KillSwitchFirst
  <2>1. agent # NULL
    BY NullAssumption DEF DriftTypeOK
  <2>2. QED
    BY <2>1, RevokedIsReportedRevoked DEF Decision, Decide
<1>2. QED
  BY <1>1, DriftTyped, PTL

\* No spending, waiting, revoking or narrowing turns a refusal into an
\* admission or drops a sign-off.
THEOREM GateOnlyHardens == Spec => NarrowingNeverAdmits
<1>1. DriftTypeOK /\ DriftTypeOK' /\ [Next]_vars =>
        [Narrowing =>
           \A q \in Queries :
             Decision(q)'.allowed =>
               /\ Decision(q).allowed
               /\ Decision(q).requiresHumanApproval => Decision(q)'.requiresHumanApproval]_vars
  <2> SUFFICES ASSUME DriftTypeOK, DriftTypeOK', Next, Narrowing,
                      NEW q \in Queries, Decision(q)'.allowed
               PROVE  /\ Decision(q).allowed
                      /\ Decision(q).requiresHumanApproval => Decision(q)'.requiresHumanApproval
    OBVIOUS
  <2>1. q \in ResourceQuery
    BY DriftAssumption DEF Queries, ResourceQuery, ResourceKind
  <2>2. /\ agent \in Passport /\ agent' \in Passport
        /\ agent'.expiresAt = agent.expiresAt
        /\ agent'.status = agent.status \/ agent'.status = "revoked"
    BY DEF Next, SetPolicy, Spend, Revoke, Wait, DriftTypeOK, Passport
  <2>3. /\ spent \in Nat /\ spent' \in Nat /\ spent <= spent'
        /\ now \in Nat /\ now' \in Nat /\ now <= now'
    BY DriftAssumption DEF Next, SetPolicy, Spend, Revoke, Wait, DriftTypeOK
  <2>4. policy' # NULL
    <3>1. DEFINE in == [agent |-> agent, policy |-> policy, query |-> q,
                        spentTodayMicros |-> spent, now |-> now]'
    <3>2. in.policy = policy' /\ evaluatePolicy(in).allowed
      BY DEF Decision, Decide
    <3> HIDE DEF in
    <3>3. QED
      BY <3>2, AllowedExpanded, PassesExpanded, FailsExpanded
  <2>5. policy \in Capability /\ policy' \in Capability /\ Narrower(policy', policy)
    <3>1. policy \in Capability /\ policy' \in Capability
      BY <2>4 DEF Narrowing, DriftTypeOK
    <3>2. \A p \in Capability : Narrower(p, p)
      BY NullAssumption DEF Narrower, NoLater, Capability
    <3>3. QED
      BY <3>1, <3>2 DEF Narrowing
  <2>6. Decide(q, agent', policy', spent', now').allowed
    BY DEF Decision
  <2>7. QED
    BY <2>1, <2>2, <2>3, <2>5, <2>6, NarrowerInput DEF Decision
<1>2. QED
  BY <1>1, DriftTyped, PTL DEF Spec, NarrowingNeverAdmits

-----------------------------------------------------------------------------
(* The dashboard's prediction *)

\* A price compared with a limit of whole micro-USD, in dollars and rounded.
LEMMA WholeLimits ==
  ASSUME NEW usd \in Nat, usd % 10 = 0, NEW cost \in Nat
  PROVE  10 * cost > usd <=> cost > usdToMicros(usd)
<1>1. PICK n \in Nat : usd = 10 * n
  <2>1. usd \div 10 \in Nat /\ usd = 10 * (usd \div 10)
    OBVIOUS
  <2>2. QED
    BY <2>1
<1>2. usdToMicros(usd) = n
  BY <1>1 DEF usdToMicros
<1>3. QED
  BY <1>1, <1>2

\* asks.ts:53-75, policy.ts:74-252.  The picker says what the engine decides,
\* for every set of limits of whole micro-USD, every spend, window and instant,
\* as long as neither the passport nor the capability has expired.
THEOREM ThePickerPredicts == Spec => []PredictionHolds
<1>1. DriftTypeOK => PredictionHolds
  <2> SUFFICES ASSUME DriftTypeOK, policy # NULL, WholeMicros(policy),
                      ~isExpired(agent.expiresAt, now), ~isExpired(policy.expiresAt, now),
                      NEW q \in Queries
               PROVE  predictOutcome(agent, policy, q, spent) = Outcome(Decision(q))
    BY DEF PredictionHolds
  <2>1. /\ q \in ResourceQuery /\ policy \in Capability /\ agent \in Passport /\ spent \in Nat
        /\ agent # NULL /\ q # NULL
    BY DriftAssumption, NullAssumption DEF DriftTypeOK, Queries, ResourceQuery, ResourceKind
  <2>2. /\ policy.maxCostPerQueryUsd \in Nat /\ policy.dailyLimitUsd \in Nat
        /\ policy.humanApprovalAboveUsd \in Nat
    BY <2>1 DEF Capability
  <2> DEFINE in == [agent |-> agent, policy |-> policy, query |-> q,
                    spentTodayMicros |-> spent, now |-> now]
             cost == priceQueryMicros(q)
  <2>3. cost \in Nat
    BY <2>1, PriceIsNat
  <2>4. /\ in.agent = agent /\ in.policy = policy /\ in.query = q
        /\ in.spentTodayMicros = spent /\ in.now = now /\ Decision(q) = evaluatePolicy(in)
    BY DEF Decision, Decide
  <2> HIDE DEF in
  <2>5. Passes(in) <=>
          /\ agent.status = "active"
          /\ q.resource \in policy.allowedResources
          /\ ~(cost > usdToMicros(policy.maxCostPerQueryUsd))
          /\ ~(spent + cost > usdToMicros(policy.dailyLimitUsd))
    <3>1. agent.status = "active" <=> agent.status # "revoked" /\ agent.status # "expired"
      BY <2>1 DEF Passport, AgentStatus
    <3>2. QED
      BY <2>1, <2>4, <3>1, PassesExpanded, FailsExpanded
  <2>6. NeedsHuman(in) <=> cost > usdToMicros(policy.humanApprovalAboveUsd)
    BY <2>4 DEF NeedsHuman
  <2> HIDE DEF cost
  <2>7. /\ policy.maxCostPerQueryUsd % 10 = 0 /\ policy.dailyLimitUsd % 10 = 0
        /\ policy.humanApprovalAboveUsd % 10 = 0
    BY DEF WholeMicros
  <2>8. /\ cost > usdToMicros(policy.maxCostPerQueryUsd) <=> 10 * cost > policy.maxCostPerQueryUsd
        /\ cost > usdToMicros(policy.humanApprovalAboveUsd)
             <=> 10 * cost > policy.humanApprovalAboveUsd
    BY <2>2, <2>3, <2>7, WholeLimits
  <2>9. spent + cost > usdToMicros(policy.dailyLimitUsd)
          <=> 10 * spent + 10 * cost > policy.dailyLimitUsd
    <3>1. spent + cost \in Nat /\ 10 * (spent + cost) = 10 * spent + 10 * cost
      BY <2>1, <2>3
    <3>2. QED
      BY <2>2, <2>7, <3>1, WholeLimits
  <2>10. Outcome(Decision(q)) = IF ~Passes(in) THEN "refused"
                                ELSE IF NeedsHuman(in) THEN "needs_you" ELSE "clears"
    BY <2>4, AllowedExpanded DEF Outcome
  <2>11. predictOutcome(agent, policy, q, spent) =
           IF ~(/\ agent.status = "active"
                /\ q.resource \in policy.allowedResources
                /\ ~(10 * cost > policy.maxCostPerQueryUsd)
                /\ ~(10 * spent + 10 * cost > policy.dailyLimitUsd)) THEN "refused"
           ELSE IF 10 * cost > policy.humanApprovalAboveUsd THEN "needs_you" ELSE "clears"
    BY <2>1, Zenon DEF predictOutcome, cost
  <2>12. QED
    BY <2>5, <2>6, <2>8, <2>9, <2>10, <2>11
<1>2. QED
  BY <1>1, DriftTyped, PTL
-----------------------------------------------------------------------------
(* Reading a prompt *)

\* A prompt or a structured query is under way, never both.
ReadingInv ==
  /\ text \in Texts \cup {NULL}
  /\ raw # NULL => text = NULL
  /\ SubjectWasNamed

\* The parser's own reading is about the first address of the text.
LEMMA ParsedIsNamed ==
  ASSUME NEW t \in Texts, parsePrompt(t) # NULL
  PROVE  parsePrompt(t).address \in addressesIn(t)
<1>1. t.addresses \in Seq(Address)
  BY ReadingAssumption
<1>2. parsePrompt(t).address = extractAddress(t) /\ extractAddress(t) # NULL
  BY DEF parsePrompt
<1>3. t.addresses # <<>> /\ extractAddress(t) = t.addresses[1]
  BY <1>1, <1>2 DEF extractAddress
<1>4. 1 \in DOMAIN t.addresses
  BY <1>1, <1>3
<1>5. QED
  BY <1>2, <1>3, <1>4 DEF addressesIn, ToSet

\* What validation keeps of a proposal it does not change.
LEMMA ValidatedKeeps ==
  ASSUME NEW value, parseStructuredQuery(value) # NULL
  PROVE  /\ parseStructuredQuery(value).address = value.address
         /\ parseStructuredQuery(value).resource = value.resource
  BY DEF parseStructuredQuery

\* query-parser.ts:51-60, app.ts:498-506.  For every text, and whatever the
\* model proposes, what is priced and decided is about what the text names.
THEOREM ReadWhatWasNamed == ReadingSpec => []SubjectWasNamed
<1>1. ReadingInit => ReadingInv
  BY DEF ReadingInit, ReadingInv, SubjectWasNamed
<1>2. ReadingInv /\ [ReadingNext]_readingVars => ReadingInv'
  <2> SUFFICES ASSUME ReadingInv, [ReadingNext]_readingVars PROVE ReadingInv'
    OBVIOUS
  <2>1. CASE Receive
    BY <2>1 DEF Receive, ReadingInv, SubjectWasNamed
  <2>2. CASE ReadStructured
    BY <2>2, ReadingAssumption DEF ReadStructured, ReadAs, ReadingInv, SubjectWasNamed
  <2>3. CASE ReadStranger
    BY <2>3, ParsedIsNamed DEF ReadStranger, ReadAs, ReadingInv, SubjectWasNamed
  <2>4. CASE Answered
    BY <2>4 DEF Answered, ReadingInv, SubjectWasNamed
  <2>5. ASSUME NEW known \in BOOLEAN, Identified(known) PROVE ReadingInv'
    BY <2>5 DEF Identified, ReadingInv, SubjectWasNamed
  <2>6. ASSUME NEW given \in Answers, Interpreted(given) PROVE ReadingInv'
    <3>1. PICK it : it = interpret(text, given)
      OBVIOUS
    <3>2. PICK validated : validated = parseStructuredQuery(it.proposal)
      OBVIOUS
    <3>3. CASE validated # NULL /\ isGroundedProposal(validated, text)
      <4>1. parsed' = validated /\ by' = it.provider /\ UNCHANGED <<text, raw>> /\ pc' = "read"
        BY <2>6, <3>1, <3>2, <3>3 DEF Interpreted, ReadAs
      <4>2. \/ validated.address \in addressesIn(text)
            \/ validated.address = Zero /\ validated.resource = "protocol.markets"
        BY <3>3 DEF isGroundedProposal
      <4>3. text \in Texts /\ it.provider # "openrouter" => validated.address \in addressesIn(text)
        <5>1. HAVE text \in Texts /\ it.provider # "openrouter"
        <5>2. it.proposal = parsePrompt(text)
          BY <3>1, <5>1 DEF interpret
        <5>3. validated.address = it.proposal.address
          BY <3>2, <3>3, ValidatedKeeps
        <5>4. it.proposal # NULL
          BY <3>2, <3>3 DEF parseStructuredQuery
        <5>5. QED
          BY <5>1, <5>2, <5>3, <5>4, ParsedIsNamed
      <4>4. QED
        BY <4>1, <4>2, <4>3 DEF ReadingInv, SubjectWasNamed
    <3>4. CASE ~(validated # NULL /\ isGroundedProposal(validated, text))
      <4>1. ReadAs(parsePrompt(text), "rule-based")
        BY <2>6, <3>1, <3>2, <3>4 DEF Interpreted
      <4>2. QED
        BY <4>1, ParsedIsNamed DEF ReadAs, ReadingInv, SubjectWasNamed
    <3>5. QED
      BY <3>3, <3>4
  <2>7. CASE UNCHANGED readingVars
    BY <2>7 DEF readingVars, ReadingInv, SubjectWasNamed
  <2>8. QED
    BY <2>1, <2>2, <2>3, <2>4, <2>5, <2>6, <2>7 DEF ReadingNext
<1>3. QED
  BY <1>1, <1>2, PTL DEF ReadingSpec, ReadingInv

-----------------------------------------------------------------------------
(* Half a passport *)

\* ens.ts:151-214, passport.ts:194-225.  For every passport that has not expired
\* when it is written, and however its reads fall between the writes: the
\* script writes the expiry last and takes any date, so that of one in the
\* past the gateway would read a passport without it first.
THEOREM HalfAPassportIsTighter ==
  ASSUME \A passport \in NewPassports : ~isExpired(passport.expiresAt, Now)
  PROVE  RecordsSpec => []HalfWrittenIsTighter
<1> DEFINE Chosen == capability \in NewPassports
<1>1. RecordsInit => Chosen
  BY DEF RecordsInit
<1>2. Chosen /\ [RecordsNext]_recordVars => Chosen'
  BY DEF RecordsNext, SetText, NextRequest, Read, recordVars
<1>3. Chosen => HalfWrittenIsTighter
  <2> SUFFICES ASSUME Chosen, NEW ask \in Asks, Decided(resolve, ask).allowed
               PROVE  /\ Decided(Unbroken, ask).allowed
                      /\ Decided(Unbroken, ask).requiresHumanApproval
                           => Decided(resolve, ask).requiresHumanApproval
    BY DEF HalfWrittenIsTighter
  <2> DEFINE cost == priceQueryMicros(ask)
  <2>1. /\ capability \in Capability /\ ask \in ResourceQuery /\ cost \in Nat
        /\ capability # NULL /\ ask # NULL
    BY PassportRecordsAssumption, PriceIsNat, NullAssumption
  <2>2. PICK half : half = resolve
    OBVIOUS
  <2>3. PICK in : in = [agent |-> half.agent, policy |-> half.policy, query |-> ask,
                        spentTodayMicros |-> 0, now |-> Now]
    OBVIOUS
  <2>4. PICK whole : whole = [agent |-> Unbroken.agent, policy |-> Unbroken.policy, query |-> ask,
                              spentTodayMicros |-> 0, now |-> Now]
    OBVIOUS
  <2>5. /\ Decided(resolve, ask) = evaluatePolicy(in) /\ Decided(Unbroken, ask) = evaluatePolicy(whole)
        /\ in.agent = half.agent /\ in.policy = half.policy /\ in.query = ask
        /\ in.spentTodayMicros = 0 /\ in.now = Now
        /\ whole.agent.status = "active" /\ whole.agent.expiresAt = capability.expiresAt
        /\ whole.agent = Unbroken.agent /\ whole.policy = capability /\ whole.query = ask
        /\ whole.spentTodayMicros = 0 /\ whole.now = Now
    BY <2>2, <2>3, <2>4 DEF Decided, Unbroken
  <2>6. Passes(in) /\ (NeedsHuman(in) <=> Decided(resolve, ask).requiresHumanApproval)
    BY <2>5, AllowedExpanded
  <2>7. /\ half.agent # NULL
        /\ ask.resource \in half.policy.allowedResources
        /\ ~(cost > usdToMicros(half.policy.maxCostPerQueryUsd))
        /\ ~(0 + cost > usdToMicros(half.policy.dailyLimitUsd))
    BY <2>5, <2>6, PassesExpanded, FailsExpanded
  <2>8. "status" \in saw
    BY <2>2, <2>7 DEF resolve
  <2>9. /\ half.policy.allowedResources = parseScope(capability.allowedResources)
        /\ half.policy.maxCostPerQueryUsd = parseUsd("maxPerQuery", capability.maxCostPerQueryUsd)
        /\ half.policy.dailyLimitUsd = parseUsd("dailyLimit", capability.dailyLimitUsd)
        /\ half.policy.humanApprovalAboveUsd
             = parseUsd("approvalAbove", capability.humanApprovalAboveUsd)
    BY <2>2, <2>8 DEF resolve
  <2>10. /\ capability.maxCostPerQueryUsd \in Nat /\ capability.dailyLimitUsd \in Nat
         /\ capability.humanApprovalAboveUsd \in Nat
    BY <2>1 DEF Capability
  <2>11. \A key, usd : usd \in Nat =>
           /\ usdToMicros(parseUsd(key, usd)) \in Nat /\ usdToMicros(usd) \in Nat
           /\ usdToMicros(parseUsd(key, usd)) <= usdToMicros(usd)
    <3> SUFFICES ASSUME NEW key, NEW usd \in Nat
                 PROVE  /\ usdToMicros(parseUsd(key, usd)) \in Nat /\ usdToMicros(usd) \in Nat
                        /\ usdToMicros(parseUsd(key, usd)) <= usdToMicros(usd)
      OBVIOUS
    <3>1. parseUsd(key, usd) \in Nat /\ parseUsd(key, usd) <= usd
      BY DEF parseUsd
    <3>2. QED
      BY <3>1, RoundingIsClose, RoundingIsMonotone
  <2>12. ask.resource \in capability.allowedResources
    BY <2>7, <2>9 DEF parseScope
  <2> HIDE DEF cost
  <2>13. /\ ~(cost > usdToMicros(capability.maxCostPerQueryUsd))
         /\ ~(0 + cost > usdToMicros(capability.dailyLimitUsd))
         /\ cost > usdToMicros(capability.humanApprovalAboveUsd)
              => cost > usdToMicros(half.policy.humanApprovalAboveUsd)
    BY <2>1, <2>7, <2>9, <2>10, <2>11
  <2>14. Unbroken.agent # NULL
    <3>1. Unbroken.agent \in Passport
      BY <2>1 DEF Unbroken, Passport, Capability, AgentStatus
    <3>2. QED
      BY <3>1, NullAssumption
  <2>15. ~isExpired(capability.expiresAt, Now)
    OBVIOUS
  <2>16. Passes(whole)
    BY <2>1, <2>5, <2>12, <2>13, <2>14, <2>15, PassesExpanded, FailsExpanded DEF cost
  <2>17. NeedsHuman(whole) => NeedsHuman(in)
    BY <2>5, <2>13 DEF NeedsHuman, cost
  <2>18. QED
    BY <2>5, <2>6, <2>16, <2>17, AllowedExpanded
<1>4. QED
  BY <1>1, <1>2, <1>3, PTL DEF RecordsSpec
-----------------------------------------------------------------------------
(* Sliding windows *)

\* The instants of a list that are still counted at c.
CountedAt(times, c) == {i \in DOMAIN times : times[i] > c - Window}
Counted(times, c) == Cardinality(CountedAt(times, c))

\* In the order they came.
Sorted(times) == \A i, j \in DOMAIN times : i <= j => times[i] <= times[j]

LEMMA CountedIsNat ==
  ASSUME NEW times \in Seq(Nat), NEW c
  PROVE  /\ IsFiniteSet(CountedAt(times, c)) /\ Counted(times, c) \in Nat
         /\ CountedAt(times, c) \subseteq 1..Len(times) /\ IsFiniteSet(DOMAIN times)
         /\ DOMAIN times = 1..Len(times)
<1>1. DOMAIN times = 1..Len(times) /\ Len(times) \in Nat
  OBVIOUS
<1>2. IsFiniteSet(DOMAIN times)
  BY <1>1, FS_Interval
<1>3. CountedAt(times, c) \in SUBSET (DOMAIN times)
  BY DEF CountedAt
<1>4. QED
  BY <1>1, <1>2, <1>3, FS_Subset, FS_CardinalityType DEF Counted

\* Less is counted as time goes on.
LEMMA CountedLess ==
  ASSUME NEW times \in Seq(Nat), NEW c \in Int, NEW d \in Int, c <= d
  PROVE  Counted(times, d) <= Counted(times, c)
<1>1. \A i \in DOMAIN times : times[i] \in Nat
  OBVIOUS
<1>2. \A i \in DOMAIN times : times[i] > d - Window => times[i] > c - Window
  BY <1>1, LimitsAssumption
<1>3. CountedAt(times, d) \in SUBSET CountedAt(times, c)
  BY <1>2 DEF CountedAt
<1>4. QED
  BY <1>3, CountedIsNat, FS_Subset DEF Counted

\* Equal sets of places up to a renaming have the same number.
LEMMA CountedAppend ==
  ASSUME NEW times \in Seq(Nat), NEW x \in Nat, NEW c \in Int
  PROVE  /\ Append(times, x) \in Seq(Nat)
         /\ Counted(Append(times, x), c) =
              IF x > c - Window THEN Counted(times, c) + 1 ELSE Counted(times, c)
<1>1. PICK n \in Nat : n = Len(times)
  OBVIOUS
<1>2. /\ Append(times, x) \in Seq(Nat) /\ DOMAIN Append(times, x) = 1..(n + 1)
      /\ DOMAIN times = 1..n
      /\ \A i \in 1..n : Append(times, x)[i] = times[i]
      /\ Append(times, x)[n + 1] = x
  BY <1>1
<1>3. 1..(n + 1) = 1..n \cup {n + 1} /\ n + 1 \notin 1..n
  OBVIOUS
<1>4. CountedAt(Append(times, x), c) =
        IF x > c - Window THEN CountedAt(times, c) \cup {n + 1} ELSE CountedAt(times, c)
  BY <1>2, <1>3 DEF CountedAt
<1>5. n + 1 \notin CountedAt(times, c) /\ IsFiniteSet(CountedAt(times, c))
  BY <1>2, <1>3, CountedIsNat DEF CountedAt
<1>6. QED
  BY <1>2, <1>4, <1>5, FS_AddElement DEF Counted

\* The places that are counted, by their rank.
Rank(live, i) == Cardinality({h \in live : h <= i})
Place(live, j) == CHOOSE i \in live : Rank(live, i) = j

LEMMA RankGrows ==
  ASSUME NEW live \in SUBSET Nat, IsFiniteSet(live)
  PROVE  /\ \A i \in live : Rank(live, i) \in 1..Cardinality(live)
         /\ \A i, j \in live : i < j => Rank(live, i) < Rank(live, j)
<1> DEFINE Below(i) == {h \in live : h <= i}
<1>1. Cardinality(live) \in Nat
  BY FS_CardinalityType
<1>2. \A i \in live : /\ Below(i) \in SUBSET live /\ IsFiniteSet(Below(i))
                      /\ Cardinality(Below(i)) \in Nat
                      /\ Cardinality(Below(i)) <= Cardinality(live)
  BY FS_Subset, FS_CardinalityType
<1>3. ASSUME NEW i \in live PROVE Cardinality(Below(i)) # 0
  <2>1. i \in Below(i)
    OBVIOUS
  <2>2. QED
    BY <1>2, <2>1, FS_EmptySet
<1>4. ASSUME NEW i \in live, NEW j \in live, i < j
      PROVE  Cardinality(Below(i)) < Cardinality(Below(j))
  <2>1. Below(i) \in SUBSET Below(j) /\ j \in Below(j) /\ j \notin Below(i)
    <3>1. i \in Nat /\ j \in Nat /\ \A h \in live : h \in Nat
      OBVIOUS
    <3>2. ~(j <= i) /\ j <= j /\ \A h \in live : h <= i => h <= j
      BY <1>4, <3>1
    <3>3. QED
      BY <3>2
  <2>2. Cardinality(Below(i)) <= Cardinality(Below(j))
    BY <1>2, <2>1, FS_Subset
  <2>3. Cardinality(Below(i)) # Cardinality(Below(j))
    BY <1>2, <2>1, FS_Subset
  <2>4. Cardinality(Below(i)) \in Nat /\ Cardinality(Below(j)) \in Nat
    BY <1>2
  <2> HIDE DEF Below
  <2>5. QED
    BY <2>2, <2>3, <2>4
<1>5. \A i \in live : Rank(live, i) = Cardinality(Below(i))
  BY DEF Rank
<1> HIDE DEF Below
<1>6. QED
  BY <1>1, <1>2, <1>3, <1>4, <1>5

\* Each rank has its place, and each place its rank.
LEMMA PlaceOfRank ==
  ASSUME NEW live \in SUBSET Nat, IsFiniteSet(live)
  PROVE  /\ \A j \in 1..Cardinality(live) :
              Place(live, j) \in live /\ Rank(live, Place(live, j)) = j
         /\ \A i \in live : Rank(live, i) \in 1..Cardinality(live) /\ Place(live, Rank(live, i)) = i
<1>1. PICK n \in Nat : n = Cardinality(live)
  BY FS_CardinalityType
<1>2. PICK f : f = [i \in live |-> Rank(live, i)]
  OBVIOUS
<1>3. f \in [live -> 1..n]
  BY <1>1, <1>2, RankGrows
<1>4. \A i, j \in live : i # j => f[i] # f[j]
  <2>1. SUFFICES ASSUME NEW i \in live, NEW j \in live, i # j PROVE f[i] # f[j]
    OBVIOUS
  <2>2. /\ i < j \/ j < i
        /\ Rank(live, i) \in 1..n /\ Rank(live, j) \in 1..n
    BY <1>1, <2>1, RankGrows
  <2>3. Rank(live, i) < Rank(live, j) \/ Rank(live, j) < Rank(live, i)
    BY <2>2, RankGrows
  <2>4. Rank(live, i) # Rank(live, j)
    BY <2>2, <2>3
  <2>5. QED
    BY <1>2, <2>4
<1>5. f \in Injection(live, 1..n)
  BY <1>3, <1>4 DEF Injection, IsInjective
<1>6. IsFiniteSet(1..n) /\ Cardinality(1..n) = n
  BY FS_Interval
<1>7. f \in Surjection(live, 1..n)
  BY <1>1, <1>5, <1>6, FS_Injection
<1>8. \A j \in 1..n : \E i \in live : f[i] = j
  BY <1>7 DEF Surjection
<1>9. \A j \in 1..n : Place(live, j) \in live /\ Rank(live, Place(live, j)) = j
  BY <1>2, <1>8 DEF Place
<1>10. ASSUME NEW i \in live PROVE Rank(live, i) \in 1..n /\ Place(live, Rank(live, i)) = i
  <2>1. Rank(live, i) \in 1..n
    BY <1>2, <1>3
  <2>2. PICK p \in live : p = Place(live, Rank(live, i)) /\ Rank(live, p) = Rank(live, i)
    BY <1>9, <2>1
  <2>3. p = i
    BY <1>2, <1>4, <2>2
  <2>4. QED
    BY <2>1, <2>2, <2>3
<1>11. QED
  BY <1>1, <1>9, <1>10

\* rate-limit.ts:45.  What the filter leaves is in order, all that is counted now,
\* and all that will be counted later.
LEMMA WindowKeeps ==
  ASSUME NEW times \in Seq(Nat), Sorted(times), NEW t \in Int
  PROVE  /\ InWindow(times, t) \in Seq(Nat) /\ Sorted(InWindow(times, t))
         /\ Len(InWindow(times, t)) = Counted(times, t)
         /\ \A j \in DOMAIN InWindow(times, t) : \E i \in DOMAIN times : InWindow(times, t)[j] = times[i]
         /\ \A c \in Int : t <= c => Counted(InWindow(times, t), c) = Counted(times, c)
<1>1. PICK live : live = CountedAt(times, t)
  OBVIOUS
<1>2. /\ live \in SUBSET Nat /\ IsFiniteSet(live) /\ live \subseteq DOMAIN times
      /\ \A i \in DOMAIN times : i \in Nat /\ times[i] \in Nat
  <2>1. \A i \in DOMAIN times : i \in Nat /\ times[i] \in Nat
    OBVIOUS
  <2>2. IsFiniteSet(live) /\ live \subseteq DOMAIN times
    BY <1>1, CountedIsNat DEF CountedAt
  <2>3. QED
    BY <2>1, <2>2
<1>3. PICK n \in Nat : n = Cardinality(live)
  BY <1>2, FS_CardinalityType
<1>4. PICK w : w = [j \in 1..n |-> times[Place(live, j)]]
  OBVIOUS
<1>5. InWindow(times, t) = w
  BY <1>1, <1>3, <1>4 DEF InWindow, CountedAt, Place, Rank
<1>6. /\ \A j \in 1..n : Place(live, j) \in live /\ Rank(live, Place(live, j)) = j
      /\ \A i \in live : Rank(live, i) \in 1..n /\ Place(live, Rank(live, i)) = i
  BY <1>2, <1>3, PlaceOfRank
<1>7. w \in Seq(Nat) /\ Len(w) = n /\ DOMAIN w = 1..n
  <2>1. \A j \in 1..n : times[Place(live, j)] \in Nat
    BY <1>2, <1>6
  <2>2. w \in [1..n -> Nat]
    BY <1>4, <2>1
  <2>3. QED
    BY <2>2
<1>8. ASSUME NEW i \in 1..n, NEW j \in 1..n, i <= j PROVE w[i] <= w[j]
  <2>1. PICK p, q : p = Place(live, i) /\ q = Place(live, j)
    OBVIOUS
  <2>2. p \in live /\ q \in live /\ Rank(live, p) = i /\ Rank(live, q) = j
    BY <1>6, <2>1
  <2>3. p \in Nat /\ q \in Nat
    BY <1>2, <2>2
  <2>4. ~(q < p)
    <3>1. ASSUME q < p PROVE Rank(live, q) < Rank(live, p)
      BY <1>2, <2>2, <3>1, RankGrows
    <3>2. QED
      BY <1>8, <2>2, <3>1
  <2>5. p <= q
    BY <2>3, <2>4
  <2>6. times[p] <= times[q]
    BY <1>2, <2>2, <2>5 DEF Sorted
  <2>7. QED
    BY <1>4, <2>1, <2>6
<1>9. \A j \in 1..n : \E i \in DOMAIN times : w[j] = times[i]
  BY <1>2, <1>4, <1>6
<1>10. ASSUME NEW c \in Int, t <= c PROVE Counted(w, c) = Counted(times, c)
  <2>1. PICK A, B : A = CountedAt(times, c) /\ B = CountedAt(w, c)
    OBVIOUS
  <2>2. A \subseteq live /\ \A i \in live : i \in A <=> times[i] > c - Window
    <3>1. ASSUME NEW i \in DOMAIN times, times[i] > c - Window PROVE times[i] > t - Window
      BY <1>2, <1>10, <3>1, LimitsAssumption
    <3>2. QED
      BY <1>1, <1>2, <2>1, <3>1 DEF CountedAt
  <2>3. B \subseteq 1..n /\ \A j \in 1..n : j \in B <=> times[Place(live, j)] > c - Window
    BY <1>4, <1>7, <2>1 DEF CountedAt
  <2>4. \A j \in 1..n : j \in B <=> Place(live, j) \in A
    BY <1>6, <2>2, <2>3
  <2>5. PICK g : g = [j \in B |-> Place(live, j)]
    OBVIOUS
  <2>6. g \in [B -> A]
    BY <2>3, <2>4, <2>5
  <2>7. \A i, j \in B : g[i] = g[j] => i = j
    BY <1>6, <2>3, <2>5
  <2>8. \A i \in A : \E j \in B : g[j] = i
    BY <1>6, <2>2, <2>4, <2>5
  <2>9. g \in Bijection(B, A)
    BY <2>6, <2>7, <2>8 DEF Bijection, Injection, Surjection, IsInjective
  <2>10. IsFiniteSet(B)
    BY <1>7, <2>1, CountedIsNat
  <2>11. Cardinality(A) = Cardinality(B)
    BY <2>9, <2>10, FS_Bijection DEF ExistsBijection
  <2>12. QED
    BY <2>1, <2>11 DEF Counted
<1>11. Sorted(w)
  BY <1>7, <1>8 DEF Sorted
<1>12. QED
  BY <1>1, <1>3, <1>5, <1>7, <1>9, <1>10, <1>11 DEF Counted

\* rate-limit.ts:90.  Rounded up to whole seconds.
LEMMA RoundedUp ==
  ASSUME NEW a \in Int, NEW b \in Nat \ {0}
  PROVE  /\ CeilDiv(a, b) * b \in Int
         /\ CeilDiv(a, b) * b >= a /\ CeilDiv(a, b) * b - b < a
<1>1. PICK x \in Int : x = a + b - 1
  OBVIOUS
<1>2. PICK q \in Int : q = x \div b
  OBVIOUS
<1>3. PICK m \in Int : m = x % b /\ 0 <= m /\ m < b
  OBVIOUS
<1>4. x = b * q + m
  BY <1>2, <1>3
<1>5. PICK y \in Int : y = q * b /\ y = b * q
  OBVIOUS
<1>6. y = x - m
  BY <1>4, <1>5
<1>7. y >= a /\ y - b < a
  BY <1>1, <1>3, <1>6
<1>8. CeilDiv(a, b) * b = y
  BY <1>1, <1>2, <1>5 DEF CeilDiv
<1>9. QED
  BY <1>7, <1>8

\* The instant a key comes back, beside the one its oldest counted event leaves.
Honest(times, retryAt, limit, present) ==
  \E leaves \in Int :
    /\ retryAt \in Int /\ retryAt >= leaves /\ retryAt - UnitsPerSecond < leaves
    /\ \A c \in Int : present <= c => (Counted(times, c) >= limit <=> c < leaves)

\* What holds of one key: its list is in order and counts, now and later, what
\* was let through; that is never more than the limit; and the last refusal told
\* the truth about what is counted.
KeyHolds(times, through, last, limit, present) ==
  /\ times \in Seq(Nat) /\ Sorted(times) /\ \A i \in DOMAIN times : times[i] <= present
  /\ through \in Seq(Nat) /\ \A i \in DOMAIN through : through[i] <= present
  /\ \A c \in Int : present <= c => Counted(times, c) = Counted(through, c)
  /\ \A t \in Int : Within(through, t - Window + 1, t) <= limit
  /\ last # NotRefused => Honest(times, last.retryAt, limit, present)

LEMMA KeyLater ==
  ASSUME NEW times, NEW through, NEW last, NEW limit, NEW present \in Nat,
         KeyHolds(times, through, last, limit, present)
  PROVE  KeyHolds(times, through, last, limit, present + 1)
<1>1. \A x \in Int : (x <= present => x <= present + 1) /\ (present + 1 <= x => present <= x)
  OBVIOUS
<1>2. /\ \A i \in DOMAIN times : times[i] \in Int
      /\ \A i \in DOMAIN through : through[i] \in Int
  BY DEF KeyHolds
<1>3. ASSUME last # NotRefused PROVE Honest(times, last.retryAt, limit, present + 1)
  <2>1. Honest(times, last.retryAt, limit, present)
    BY <1>3 DEF KeyHolds
  <2>2. QED
    BY <1>1, <2>1 DEF Honest
<1>4. QED
  BY <1>1, <1>2, <1>3 DEF KeyHolds

\* A list that counts the same is as good, and in order.
LEMMA KeySame ==
  ASSUME NEW times, NEW through, NEW last, NEW limit, NEW present \in Nat,
         KeyHolds(times, through, last, limit, present),
         NEW kept \in Seq(Nat), Sorted(kept), \A i \in DOMAIN kept : kept[i] <= present,
         \A c \in Int : present <= c => Counted(kept, c) = Counted(times, c)
  PROVE  KeyHolds(kept, through, last, limit, present)
<1>1. ASSUME last # NotRefused PROVE Honest(kept, last.retryAt, limit, present)
  <2>1. Honest(times, last.retryAt, limit, present)
    BY <1>1 DEF KeyHolds
  <2>2. QED
    BY <2>1 DEF Honest
<1>2. QED
  BY <1>1 DEF KeyHolds

\* Of what was let through by now, a window ending now or later counts what
\* the list counts.
LEMMA WithinIsCounted ==
  ASSUME NEW through \in Seq(Nat), NEW present \in Nat, \A i \in DOMAIN through : through[i] <= present,
         NEW t \in Int, present <= t
  PROVE  Within(through, t - Window + 1, t) = Counted(through, t)
<1>1. \A i \in DOMAIN through : through[i] \in (t - Window + 1)..t <=> through[i] > t - Window
  <2>1. \A i \in DOMAIN through : through[i] \in Nat
    OBVIOUS
  <2>2. Window \in Nat
    BY LimitsAssumption
  <2>3. QED
    BY <2>1, <2>2
<1>2. {i \in DOMAIN through : through[i] \in (t - Window + 1)..t} = CountedAt(through, t)
  BY <1>1 DEF CountedAt
<1>3. QED
  BY <1>2 DEF Within, Counted

\* rate-limit.ts:45-53.  One more is let through, and no window holds too many.
LEMMA KeyThrough ==
  ASSUME NEW times, NEW through, NEW last, NEW limit \in Nat, NEW present \in Times,
         KeyHolds(times, through, last, limit, present), Counted(times, present) < limit
  PROVE  KeyHolds(Append(InWindow(times, present), present), Append(through, present), NotRefused, limit, present)
<1>1. present \in Nat /\ present \in Int /\ Window \in Nat \ {0}
  BY LimitsAssumption DEF Times
<1>2. PICK w : w = InWindow(times, present)
  OBVIOUS
<1>3. /\ times \in Seq(Nat) /\ Sorted(times) /\ through \in Seq(Nat)
      /\ \A i \in DOMAIN times : times[i] <= present
      /\ \A i \in DOMAIN through : through[i] <= present
      /\ \A c \in Int : present <= c => Counted(times, c) = Counted(through, c)
  BY DEF KeyHolds
<1>4. /\ w \in Seq(Nat) /\ Sorted(w) /\ \A j \in DOMAIN w : w[j] <= present
      /\ \A c \in Int : present <= c => Counted(w, c) = Counted(times, c)
  BY <1>1, <1>2, <1>3, WindowKeeps
<1>5. /\ Append(w, present) \in Seq(Nat) /\ Sorted(Append(w, present))
      /\ \A i \in DOMAIN Append(w, present) : Append(w, present)[i] <= present
  <2>1. PICK n \in Nat : n = Len(w)
    BY <1>4
  <2>2. /\ Append(w, present) \in Seq(Nat) /\ DOMAIN Append(w, present) = 1..(n + 1)
        /\ DOMAIN w = 1..n /\ \A i \in 1..n : Append(w, present)[i] = w[i]
        /\ Append(w, present)[n + 1] = present
    BY <1>1, <1>4, <2>1
  <2>3. \A i \in 1..(n + 1) : i = n + 1 \/ i \in 1..n
    OBVIOUS
  <2>4. \A i \in DOMAIN Append(w, present) : Append(w, present)[i] <= present
    BY <1>1, <1>4, <2>2, <2>3
  <2>5. ASSUME NEW i \in 1..(n + 1), NEW j \in 1..(n + 1), i <= j
        PROVE  Append(w, present)[i] <= Append(w, present)[j]
    <3>1. CASE j = n + 1
      BY <2>2, <2>4, <3>1
    <3>2. CASE j # n + 1
      <4>1. j \in 1..n /\ i \in 1..n
        BY <2>5, <3>2
      <4>2. w[i] <= w[j]
        BY <1>4, <2>2, <2>5, <4>1 DEF Sorted
      <4>3. QED
        BY <2>2, <4>1, <4>2
    <3>3. QED
      BY <3>1, <3>2
  <2>6. QED
    BY <2>2, <2>4, <2>5 DEF Sorted
<1>6. PICK more : more = Append(through, present)
  OBVIOUS
<1>7. /\ more \in Seq(Nat)
      /\ \A c \in Int : Counted(more, c) =
            IF present > c - Window THEN Counted(through, c) + 1 ELSE Counted(through, c)
      /\ \A c \in Int : Counted(Append(w, present), c) =
            IF present > c - Window THEN Counted(w, c) + 1 ELSE Counted(w, c)
  BY <1>1, <1>3, <1>4, <1>6, CountedAppend
<1>8. \A c \in Int : present <= c => Counted(Append(w, present), c) = Counted(more, c)
  BY <1>3, <1>4, <1>7
<1>9. PICK n \in Nat : n = Len(through)
  BY <1>3
<1>10. /\ DOMAIN more = 1..(n + 1) /\ DOMAIN through = 1..n /\ more[n + 1] = present
       /\ \A i \in 1..n : more[i] = through[i]
       /\ 1..(n + 1) = 1..n \cup {n + 1} /\ n + 1 \notin 1..n
  BY <1>1, <1>3, <1>6, <1>9
<1>11. \A i \in DOMAIN more : more[i] <= present
  BY <1>1, <1>3, <1>10
<1>12. ASSUME NEW t \in Int PROVE Within(more, t - Window + 1, t) <= limit
  <2>1. t \in Int
    OBVIOUS
  <2>2. CASE present <= t
    <3>1. Within(more, t - Window + 1, t) = Counted(more, t)
      BY <1>1, <1>7, <1>11, <2>1, <2>2, WithinIsCounted
    <3>2. Counted(through, t) <= Counted(through, present) /\ Counted(through, present) = Counted(times, present)
      BY <1>1, <1>3, <2>1, <2>2, CountedLess
    <3>3. Counted(through, t) \in Nat /\ Counted(through, present) \in Nat
      BY <1>3, CountedIsNat
    <3>4. Counted(through, t) + 1 <= limit
      BY <3>2, <3>3
    <3>5. Counted(more, t) <= limit
      BY <1>7, <2>1, <3>3, <3>4
    <3>6. QED
      BY <3>1, <3>5
  <2>3. CASE ~(present <= t)
    <3>1. present \notin (t - Window + 1)..t
      BY <1>1, <2>1, <2>3
    <3>2. {i \in DOMAIN more : more[i] \in (t - Window + 1)..t}
            = {i \in DOMAIN through : through[i] \in (t - Window + 1)..t}
      BY <1>10, <3>1
    <3>3. QED
      BY <3>2 DEF KeyHolds, Within
  <2>4. QED
    BY <2>2, <2>3
<1>13. QED
  BY <1>2, <1>5, <1>6, <1>7, <1>8, <1>11, <1>12 DEF KeyHolds

\* rate-limit.ts:45-49, 77-97.  A refusal says to the second when the oldest
\* event that counts leaves the window, and there is room again.
LEMMA KeyStopped ==
  ASSUME NEW times, NEW through, NEW last, NEW limit \in Nat \ {0}, NEW present \in Times,
         KeyHolds(times, through, last, limit, present), Counted(times, present) >= limit,
         NEW told, told.retryAt = present + CeilDiv(InWindow(times, present)[1] + Window - present, UnitsPerSecond)
                                          * UnitsPerSecond
  PROVE  KeyHolds(InWindow(times, present), through, told, limit, present)
<1>1. present \in Nat /\ present \in Int /\ Window \in Nat \ {0} /\ UnitsPerSecond \in Nat \ {0}
  BY LimitsAssumption DEF Times
<1>2. PICK w : w = InWindow(times, present)
  OBVIOUS
<1>3. /\ times \in Seq(Nat) /\ Sorted(times) /\ through \in Seq(Nat)
      /\ \A i \in DOMAIN times : times[i] <= present
      /\ \A i \in DOMAIN through : through[i] <= present
      /\ Counted(times, present) = Counted(through, present)
  BY <1>1 DEF KeyHolds
<1>4. /\ w \in Seq(Nat) /\ Sorted(w) /\ \A j \in DOMAIN w : w[j] <= present
      /\ \A c \in Int : present <= c => Counted(w, c) = Counted(times, c)
      /\ Len(w) = Counted(times, present)
  BY <1>1, <1>2, <1>3, WindowKeeps
<1>5. Len(w) = limit
  <2>1. Counted(through, present) <= limit
    <3>1. Within(through, present - Window + 1, present) <= limit
      BY <1>1 DEF KeyHolds
    <3>2. present <= present
      BY <1>1
    <3>3. QED
      BY <1>1, <1>3, <3>1, <3>2, WithinIsCounted
  <2>2. Counted(times, present) \in Nat
    BY <1>3, CountedIsNat
  <2>3. QED
    BY <1>3, <1>4, <2>1, <2>2
<1>6. /\ DOMAIN w = 1..limit /\ 1 \in 1..limit /\ \A i \in 1..limit : w[i] \in Nat /\ w[1] <= w[i]
      /\ IsFiniteSet(1..limit) /\ Cardinality(1..limit) = limit
  <2>1. DOMAIN w = 1..limit /\ 1 \in 1..limit /\ \A i \in 1..limit : w[i] \in Nat /\ 1 <= i
    BY <1>4, <1>5
  <2>2. \A i \in 1..limit : w[1] <= w[i]
    BY <1>4, <2>1 DEF Sorted
  <2>3. IsFiniteSet(1..limit) /\ Cardinality(1..limit) = limit
    BY FS_Interval
  <2>4. QED
    BY <2>1, <2>2, <2>3
<1>7. PICK leaves \in Int : leaves = w[1] + Window
  BY <1>1, <1>6
<1>8. PICK back \in Int :
        /\ back = CeilDiv(leaves - present, UnitsPerSecond) * UnitsPerSecond
        /\ back >= leaves - present /\ back - UnitsPerSecond < leaves - present
  <2>1. leaves - present \in Int
    BY <1>1
  <2>2. QED
    BY <1>1, <2>1, RoundedUp
<1>9. told.retryAt = present + back
  <2>1. told.retryAt = present + CeilDiv(w[1] + Window - present, UnitsPerSecond) * UnitsPerSecond
    BY <1>2
  <2>2. w[1] + Window - present = leaves - present
    BY <1>1, <1>6, <1>7
  <2>3. told.retryAt = present + CeilDiv(leaves - present, UnitsPerSecond) * UnitsPerSecond
    BY <2>1, <2>2, Zenon
  <2>4. QED
    BY <1>8, <2>3
<1>10. told.retryAt \in Int /\ told.retryAt >= leaves /\ told.retryAt - UnitsPerSecond < leaves
  BY <1>1, <1>8, <1>9
<1>11. ASSUME NEW c \in Int, present <= c PROVE Counted(w, c) >= limit <=> c < leaves
  <2>1. CASE c < leaves
    <3>1. \A i \in 1..limit : w[i] > c - Window
      BY <1>1, <1>6, <1>7, <2>1
    <3>2. CountedAt(w, c) = 1..limit
      BY <1>6, <3>1 DEF CountedAt
    <3>3. QED
      BY <1>6, <2>1, <3>2 DEF Counted
  <2>2. CASE ~(c < leaves)
    <3>1. ~(w[1] > c - Window)
      BY <1>1, <1>6, <1>7, <2>2
    <3>2. 1 \notin CountedAt(w, c) /\ CountedAt(w, c) \in SUBSET (1..limit)
      BY <1>6, <3>1 DEF CountedAt
    <3>3. Counted(w, c) \in Nat
      BY <1>4, CountedIsNat
    <3>4. Counted(w, c) <= limit /\ Counted(w, c) # limit
      BY <1>6, <3>2, FS_Subset DEF Counted
    <3>5. QED
      BY <2>2, <3>3, <3>4
  <2>3. QED
    BY <2>1, <2>2
<1>12. Honest(w, told.retryAt, limit, present)
  BY <1>10, <1>11 DEF Honest
<1>13. QED
  BY <1>2, <1>4, <1>12 DEF KeyHolds

LimitsInv ==
  /\ clock \in Times
  /\ \A k \in AllKeys : KeyHolds(hits[k], accepted[k], refused[k], LimitOf[k[1]], clock)

LEMMA LimitsAreLimits ==
  ASSUME NEW k \in AllKeys
  PROVE  k[1] \in Limiters /\ LimitOf[k[1]] \in Nat \ {0}
<1>1. PICK l \in Limiters : \E x \in KeysOf[l] : k = <<l, x>>
  BY DEF AllKeys
<1>2. k[1] = l
  BY <1>1
<1>3. ASSUME NEW a \in Nat \ {0}, NEW b \in Nat \ {0} PROVE a * b \in Nat \ {0}
  OBVIOUS
<1>4. RequestsPerMinute * CallerFactor \in Nat \ {0}
  BY <1>3, LimitsAssumption
<1>5. LimitOf[l] \in Nat \ {0}
  BY <1>4, LimitsAssumption DEF LimitOf, Limiters
<1>6. QED
  BY <1>2, <1>5

\* rate-limit.ts:41-54, app.ts.  The keys of a call are let through in order, up
\* to the first that is full.
LEMMA CheckDoes ==
  ASSUME NEW ks \in Seq(AllKeys), Len(ks) \in {1, 2}, Check(ks)
  PROVE  \E seen \in SUBSET AllKeys, through \in SUBSET AllKeys :
           /\ through \subseteq seen
           /\ \A k \in through : ~Full(k)
           /\ \A k \in seen \ through : Full(k)
           /\ HitsNow(seen, through)
           /\ Note(through, seen \ through)
<1> DEFINE Stops == {i \in DOMAIN ks : Full(ks[i])}
           Bound == IF Stops = {} THEN Len(ks) + 1 ELSE CHOOSE i \in Stops : \A j \in Stops : i <= j
           Through == {ks[i] : i \in {j \in DOMAIN ks : j < Bound}}
           Asked == {ks[i] : i \in {j \in DOMAIN ks : j <= Bound}}
<1>1. HitsNow(Asked, Through) /\ Note(Through, Asked \ Through)
  BY Zenon DEF Check
<1>2. DOMAIN ks \subseteq {1, 2} /\ \A i \in DOMAIN ks : i \in Nat /\ i <= Len(ks) /\ ks[i] \in AllKeys
  OBVIOUS
<1>3. Stops # {} => Bound \in Stops /\ \A j \in Stops : Bound <= j
  <2>1. ASSUME Stops # {} PROVE \E i \in Stops : \A j \in Stops : i <= j
    <3>1. Stops \subseteq {1, 2}
      BY <1>2
    <3> HIDE DEF Stops
    <3>2. CASE 1 \in Stops
      BY <3>1, <3>2
    <3>3. CASE 1 \notin Stops
      <4>1. Stops = {2}
        BY <2>1, <3>1, <3>3
      <4>2. QED
        BY <4>1
    <3>4. QED
      BY <3>2, <3>3
  <2> HIDE DEF Stops
  <2>2. QED
    BY <2>1
<1>4. Stops = {} => Bound = Len(ks) + 1
  OBVIOUS
<1> HIDE DEF Bound
<1>5. Bound \in Nat
  BY <1>2, <1>3, <1>4
<1>6. ASSUME NEW i \in DOMAIN ks, i < Bound PROVE ~Full(ks[i])
  BY <1>2, <1>3, <1>4, <1>5, <1>6
<1>7. ASSUME NEW i \in DOMAIN ks, i <= Bound, ~(i < Bound) PROVE Full(ks[i])
  <2>1. i = Bound
    BY <1>2, <1>5, <1>7
  <2>2. Stops # {}
    BY <1>2, <1>4, <2>1
  <2>3. QED
    BY <1>3, <2>1, <2>2
<1>8. /\ Through \subseteq Asked /\ Asked \in SUBSET AllKeys /\ Through \in SUBSET AllKeys
      /\ \A k \in Through : ~Full(k)
      /\ \A k \in Asked \ Through : Full(k)
  <2>1. \A i \in DOMAIN ks : i < Bound => i <= Bound
    BY <1>2, <1>5
  <2>2. Through \subseteq Asked /\ Asked \in SUBSET AllKeys /\ Through \in SUBSET AllKeys
    BY <1>2, <2>1
  <2>3. \A k \in Through : ~Full(k)
    BY <1>6
  <2>4. \A k \in Asked \ Through : Full(k)
    BY <1>7
  <2>5. QED
    BY <2>2, <2>3, <2>4
<1>9. QED
  BY <1>1, <1>8

\* A key is full when what its list counts now is its limit.
LEMMA FullIsCounted ==
  ASSUME LimitsInv, NEW k \in AllKeys
  PROVE  Full(k) <=> Counted(hits[k], clock) >= LimitOf[k[1]]
<1>1. hits[k] \in Seq(Nat) /\ Sorted(hits[k]) /\ clock \in Int
  BY DEF LimitsInv, KeyHolds, Times
<1>2. Len(Recent(k)) = Counted(hits[k], clock)
  BY <1>1, WindowKeeps DEF Recent
<1>3. QED
  BY <1>2 DEF Full

\* rate-limit.ts:58-64.  What a pruning drops never counts again.
LEMMA PruneKeeps ==
  ASSUME LimitsInv, NEW k \in AllKeys
  PROVE  KeyHolds(Pruned(k), accepted[k], refused[k], LimitOf[k[1]], clock)
<1>1. /\ KeyHolds(hits[k], accepted[k], refused[k], LimitOf[k[1]], clock)
      /\ hits[k] \in Seq(Nat) /\ clock \in Nat /\ clock \in Int
  BY DEF LimitsInv, KeyHolds, Times
<1>2. CASE ~\A i \in DOMAIN hits[k] : hits[k][i] <= clock - Window
  BY <1>1, <1>2 DEF Pruned
<1>3. CASE \A i \in DOMAIN hits[k] : hits[k][i] <= clock - Window
  <2>1. Pruned(k) = <<>>
    BY <1>3 DEF Pruned
  <2>2. <<>> \in Seq(Nat) /\ DOMAIN <<>> = {}
    OBVIOUS
  <2>3. ASSUME NEW c \in Int, clock <= c PROVE Counted(<<>>, c) = Counted(hits[k], c)
    <3>1. \A i \in DOMAIN hits[k] : ~(hits[k][i] > c - Window)
      <4>1. \A i \in DOMAIN hits[k] : hits[k][i] \in Nat
        BY <1>1
      <4>2. QED
        BY <1>1, <1>3, <2>3, <4>1, LimitsAssumption
    <3>2. CountedAt(hits[k], c) = {} /\ CountedAt(<<>>, c) = {}
      BY <2>2, <3>1 DEF CountedAt
    <3>3. QED
      BY <3>2 DEF Counted
  <2>4. QED
    BY <1>1, <2>1, <2>2, <2>3, KeySame DEF Sorted
<1>4. QED
  BY <1>2, <1>3

LEMMA CheckKeeps ==
  ASSUME LimitsInv, NEW ks \in Seq(AllKeys), Len(ks) \in {1, 2}, Check(ks), UNCHANGED clock
  PROVE  LimitsInv'
<1>1. PICK seen \in SUBSET AllKeys, through \in SUBSET AllKeys :
        /\ through \subseteq seen
        /\ \A k \in through : ~Full(k)
        /\ \A k \in seen \ through : Full(k)
        /\ HitsNow(seen, through)
        /\ Note(through, seen \ through)
  BY CheckDoes
<1>2. clock \in Times /\ clock \in Nat
  BY DEF LimitsInv, Times
<1>3. SUFFICES ASSUME NEW k \in AllKeys
               PROVE  KeyHolds(hits'[k], accepted'[k], refused'[k], LimitOf[k[1]], clock)
  BY <1>2 DEF LimitsInv
<1>4. KeyHolds(hits[k], accepted[k], refused[k], LimitOf[k[1]], clock) /\ LimitOf[k[1]] \in Nat \ {0}
  BY LimitsAreLimits DEF LimitsInv
<1>5. /\ accepted'[k] = IF k \in through THEN Append(accepted[k], clock) ELSE accepted[k]
      /\ refused'[k] = IF k \in seen \ through
                       THEN [at |-> clock, retryAt |-> clock + RetryAfter(k)]
                       ELSE IF k \in through THEN NotRefused ELSE refused[k]
  BY <1>1 DEF Note
<1>6. /\ k \in through => hits'[k] = Append(Recent(k), clock)
      /\ k \in seen \ through => hits'[k] = Recent(k)
      /\ k \notin seen => hits'[k] = Pruned(k) \/ hits'[k] = hits[k]
  BY <1>1 DEF HitsNow
<1>7. CASE k \in through
  <2>1. Counted(hits[k], clock) < LimitOf[k[1]]
    <3>1. ~(Counted(hits[k], clock) >= LimitOf[k[1]])
      BY <1>1, <1>7, FullIsCounted
    <3>2. Counted(hits[k], clock) \in Nat
      BY <1>4, CountedIsNat DEF KeyHolds
    <3>3. QED
      BY <1>4, <3>1, <3>2
  <2>2. /\ hits'[k] = Append(InWindow(hits[k], clock), clock)
        /\ accepted'[k] = Append(accepted[k], clock) /\ refused'[k] = NotRefused
    BY <1>1, <1>5, <1>6, <1>7 DEF Recent
  <2>3. QED
    BY <1>2, <1>4, <2>1, <2>2, KeyThrough
<1>8. CASE k \in seen \ through
  <2>1. Counted(hits[k], clock) >= LimitOf[k[1]]
    BY <1>1, <1>8, FullIsCounted
  <2>2. PICK told : told = [at |-> clock, retryAt |-> clock + RetryAfter(k)]
    OBVIOUS
  <2>3. told.retryAt = clock + CeilDiv(InWindow(hits[k], clock)[1] + Window - clock, UnitsPerSecond)
                                 * UnitsPerSecond
    BY <2>2 DEF RetryAfter, Recent
  <2>4. /\ hits'[k] = InWindow(hits[k], clock)
        /\ accepted'[k] = accepted[k] /\ refused'[k] = told
    BY <1>5, <1>6, <1>8, <2>2 DEF Recent
  <2>5. QED
    BY <1>2, <1>4, <2>1, <2>3, <2>4, KeyStopped
<1>9. CASE k \notin seen
  <2>1. accepted'[k] = accepted[k] /\ refused'[k] = refused[k]
    BY <1>1, <1>5, <1>9
  <2>2. QED
    BY <1>4, <1>6, <1>9, <2>1, PruneKeeps
<1>10. QED
  BY <1>7, <1>8, <1>9

LEMMA LimitsBegin == LimitsInit => LimitsInv
<1> SUFFICES ASSUME LimitsInit PROVE LimitsInv
  OBVIOUS
<1>1. clock = 0 /\ 0 \in Times
  BY LimitsAssumption DEF LimitsInit, Times
<1>2. <<>> \in Seq(Nat) /\ DOMAIN <<>> = {}
  OBVIOUS
<1>3. ASSUME NEW k \in AllKeys
      PROVE  KeyHolds(hits[k], accepted[k], refused[k], LimitOf[k[1]], clock)
  <2>1. hits[k] = <<>> /\ accepted[k] = <<>> /\ refused[k] = NotRefused
    BY DEF LimitsInit
  <2>2. ASSUME NEW t \in Int PROVE Within(<<>>, t - Window + 1, t) <= LimitOf[k[1]]
    <3>1. Within(<<>>, t - Window + 1, t) = 0
      <4>1. {i \in DOMAIN <<>> : <<>>[i] \in (t - Window + 1)..t} = {}
        BY <1>2
      <4>2. QED
        BY <4>1, FS_EmptySet DEF Within
    <3>2. QED
      BY <3>1, LimitsAreLimits
  <2>3. QED
    BY <1>2, <2>1, <2>2 DEF KeyHolds, Sorted
<1>4. QED
  BY <1>1, <1>3 DEF LimitsInv

LEMMA LimitsGoOn ==
  LimitsInv /\ [SubmissionsNext \/ ActionsNext \/ BudgetNext]_limitVars => LimitsInv'
<1> SUFFICES ASSUME LimitsInv, [SubmissionsNext \/ ActionsNext \/ BudgetNext]_limitVars
             PROVE  LimitsInv'
  OBVIOUS
<1>1. CASE UNCHANGED limitVars
  BY <1>1 DEF limitVars, LimitsInv
<1>2. CASE Elapse
  <2>1. clock \in Nat /\ clock' = clock + 1 /\ clock' \in Times /\ UNCHANGED <<hits, accepted, refused>>
    BY <1>2, LimitsAssumption DEF Elapse, LimitsInv, Times
  <2>2. ASSUME NEW k \in AllKeys
        PROVE  KeyHolds(hits[k], accepted[k], refused[k], LimitOf[k[1]], clock')
    BY <2>1, KeyLater DEF LimitsInv
  <2>3. QED
    BY <2>1, <2>2 DEF LimitsInv
<1>3. ASSUME NEW c \in Callers, NEW n \in Names, SubmitLimited(c, n) PROVE LimitsInv'
  <2>1. <<"caller", c>> \in AllKeys /\ <<"agent", n>> \in AllKeys
    BY DEF AllKeys, KeysOf, Limiters
  <2>2. SubmissionKeys(c, n) \in Seq(AllKeys) /\ Len(SubmissionKeys(c, n)) = 2
    BY <2>1 DEF SubmissionKeys
  <2>3. QED
    BY <1>3, <2>2, CheckKeeps DEF SubmitLimited
<1>4. ASSUME NEW c \in Callers, NEW d \in SignedActions, ActLimited(c, d) PROVE LimitsInv'
  <2>1. <<"human", c>> \in AllKeys
    BY DEF AllKeys, KeysOf, Limiters
  <2>2. ActionKeys(c) \in Seq(AllKeys) /\ Len(ActionKeys(c)) = 1
    BY <2>1 DEF ActionKeys
  <2>3. Check(ActionKeys(c)) /\ UNCHANGED clock
    BY <1>4 DEF ActLimited
  <2>4. QED
    BY <2>2, <2>3, CheckKeeps
<1>5. ASSUME NEW part, spend(part) PROVE LimitsInv'
  <2>1. <<"model", "model">> \in AllKeys
    BY DEF AllKeys, KeysOf, Limiters
  <2>2. <<<<"model", "model">>>> \in Seq(AllKeys) /\ Len(<<<<"model", "model">>>>) = 1
    BY <2>1
  <2>3. QED
    BY <1>5, <2>2, CheckKeeps DEF spend
<1>6. QED
  BY <1>1, <1>2, <1>3, <1>4, <1>5 DEF SubmissionsNext, ActionsNext, BudgetNext

\* rate-limit.ts:40-97.  For any limits, windows, callers and pruning, and in any
\* stretch of time: no key is let through more often than its limit.
THEOREM NoWindowHoldsMore == LimitsSpec => []WindowsHold
<1>1. LimitsInv => WindowsHold
  BY DEF LimitsInv, KeyHolds, WindowsHold, Times
<1>2. QED
  BY <1>1, LimitsBegin, LimitsGoOn, PTL DEF LimitsSpec

\* rate-limit.ts:45-49, 77-97.  For any length of the windows and of a second:
\* who comes back when it was told to is let through, and a whole second earlier
\* is not.
THEOREM ToldTheTruth == LimitsSpec => []RetryAfterIsHonest
<1>1. LimitsInv => RetryAfterIsHonest
  <2> SUFFICES ASSUME LimitsInv, NEW k \in AllKeys, refused[k] # NotRefused
               PROVE  /\ clock >= refused[k].retryAt => ~Full(k)
                      /\ clock <= refused[k].retryAt - UnitsPerSecond => Full(k)
    BY DEF RetryAfterIsHonest
  <2>1. clock \in Int /\ clock <= clock /\ UnitsPerSecond \in Nat
    BY LimitsAssumption DEF LimitsInv, Times
  <2>2. Honest(hits[k], refused[k].retryAt, LimitOf[k[1]], clock)
    BY DEF LimitsInv, KeyHolds
  <2>3. PICK leaves \in Int :
          /\ refused[k].retryAt \in Int /\ refused[k].retryAt >= leaves
          /\ refused[k].retryAt - UnitsPerSecond < leaves
          /\ Counted(hits[k], clock) >= LimitOf[k[1]] <=> clock < leaves
    BY <2>1, <2>2 DEF Honest
  <2>4. Full(k) <=> clock < leaves
    BY <2>3, FullIsCounted
  <2>5. QED
    BY <2>1, <2>3, <2>4
<1>2. QED
  BY <1>1, LimitsBegin, LimitsGoOn, PTL DEF LimitsSpec

-----------------------------------------------------------------------------
(* What the table of used signatures may forget *)

\* As many windows as cover the time a signature is in date, and room for all
\* the actions they admit.  In the code: eleven windows of a minute for twice
\* five minutes, and fifty thousand signatures.
EnoughRemembered ==
  /\ IsFiniteSet(Callers)
  /\ \E m \in Nat : /\ 2 * MaxAge < m * Window
                    /\ Cardinality(Callers) * (m * ActionsPerMinute) <= NonceCap

\* The actions each caller was let through with, and when.
HumanKey(c) == <<"human", c>>
Log == [c \in Callers |-> accepted[HumanKey(c)]]
Events(log) == {e \in Callers \X Nat : e[2] \in DOMAIN log[e[1]]}
When(log, e) == log[e[1]][e[2]]

\* No window holds more of a caller's than may go through.
Limited(log) ==
  \A c \in Callers : /\ log[c] \in Seq(Nat)
                     /\ \A t \in Int : Within(log[c], t - Window + 1, t) <= ActionsPerMinute

\* In the m windows after s, fewer actions go through than may be remembered.
LEMMA EventsAreFew ==
  ASSUME NEW log, Limited(log), IsFiniteSet(Callers), NEW s \in Int, NEW m \in Nat,
         NEW E \in SUBSET Events(log),
         \A e \in E : s <= When(log, e) /\ When(log, e) < s + m * Window
  PROVE  /\ IsFiniteSet(E)
         /\ Cardinality(E) <= Cardinality(Callers) * (m * ActionsPerMinute)
<1>1. Window \in Nat \ {0} /\ ActionsPerMinute \in Nat \ {0}
  BY LimitsAssumption
<1>2. \A c \in Callers : /\ log[c] \in Seq(Nat)
                         /\ \A t \in Int : Within(log[c], t - Window + 1, t) <= ActionsPerMinute
  BY DEF Limited
\* The window an event falls into, and its rank in that window.
<1> DEFINE Nth(e) == (When(log, e) - s) \div Window
           In(c, j) == {i \in DOMAIN log[c] : log[c][i] \in (s + j * Window)..(s + j * Window + Window - 1)}
           Spot(e) == <<e[1], <<Nth(e), Rank(In(e[1], Nth(e)), e[2])>>>>
           Room == Callers \X ((0..(m - 1)) \X (1..ActionsPerMinute))
<1>3. ASSUME NEW c \in Callers, NEW j \in Int
      PROVE  /\ In(c, j) \in SUBSET Nat /\ IsFiniteSet(In(c, j))
             /\ Cardinality(In(c, j)) \in Nat /\ Cardinality(In(c, j)) <= ActionsPerMinute
  <2>1. In(c, j) \in SUBSET (DOMAIN log[c]) /\ IsFiniteSet(DOMAIN log[c]) /\ DOMAIN log[c] \subseteq Nat
    <3>1. PICK through \in Seq(Nat) : through = log[c]
      BY <1>2
    <3>2. IsFiniteSet(DOMAIN through) /\ DOMAIN through = 1..Len(through)
      BY CountedIsNat
    <3>3. QED
      BY <3>1, <3>2
  <2>2. PICK t \in Int : t = s + j * Window + Window - 1
    BY <1>1
  <2>3. t - Window + 1 = s + j * Window
    BY <1>1, <2>2
  <2>4. Within(log[c], t - Window + 1, t) = Cardinality(In(c, j))
    BY <2>2, <2>3 DEF Within
  <2>5. QED
    BY <1>2, <2>1, <2>4, FS_Subset, FS_CardinalityType
<1>4. ASSUME NEW e \in E
      PROVE  /\ Nth(e) \in 0..(m - 1) /\ e[1] \in Callers /\ e[2] \in In(e[1], Nth(e))
             /\ e = <<e[1], e[2]>>
  <2>1. e[1] \in Callers /\ e[2] \in DOMAIN log[e[1]] /\ e = <<e[1], e[2]>>
    BY DEF Events
  <2>2. PICK x \in Nat : x = When(log, e)
    BY <1>2, <2>1 DEF When
  <2>3. PICK q \in Int : q = (x - s) \div Window
    BY <1>1
  <2>4. s + q * Window <= x /\ x <= s + q * Window + Window - 1
    <3>1. PICK d \in Int : d = x - s
      OBVIOUS
    <3>2. PICK r \in Int : r = d % Window /\ 0 <= r /\ r < Window
      BY <1>1
    <3>3. q \in Int /\ q = d \div Window
      BY <2>3, <3>1
    <3>4. d = Window * q + r
      BY <1>1, <3>2, <3>3
    <3>5. PICK y \in Int : y = q * Window /\ y = Window * q
      BY <1>1
    <3>6. QED
      BY <1>1, <3>1, <3>2, <3>4, <3>5
  <2>5. q \in 0..(m - 1)
    <3>1. s <= x /\ x < s + m * Window
      BY <2>2
    <3>2. ~(q < 0)
      <4>1. ASSUME q < 0 PROVE (q + 1) * Window <= 0
        BY <1>1, <4>1
      <4>2. (q + 1) * Window = q * Window + Window
        BY <1>1
      <4>3. q * Window \in Int
        BY <1>1
      <4>4. QED
        BY <1>1, <2>4, <3>1, <4>1, <4>2, <4>3
    <3>3. ~(m <= q)
      <4>1. ASSUME m <= q PROVE m * Window <= q * Window
        BY <1>1, <4>1
      <4>2. q * Window \in Int /\ m * Window \in Int
        BY <1>1
      <4>3. QED
        BY <2>4, <3>1, <4>1, <4>2
    <3>4. QED
      BY <3>2, <3>3
  <2>6. Nth(e) = q
    BY <2>2, <2>3
  <2>7. log[e[1]][e[2]] = x
    BY <2>2 DEF When
  <2>8. log[e[1]][e[2]] \in (s + q * Window)..(s + q * Window + Window - 1)
    <3>1. q * Window \in Int
      BY <1>1
    <3>2. QED
      BY <1>1, <2>4, <2>7, <3>1
  <2>9. QED
    BY <2>1, <2>5, <2>6, <2>8
<1> HIDE DEF Nth, In
<1>5. ASSUME NEW e \in E PROVE Spot(e) \in Room
  <2>1. Nth(e) \in Int /\ e[1] \in Callers
    BY <1>4
  <2>2. Rank(In(e[1], Nth(e)), e[2]) \in 1..Cardinality(In(e[1], Nth(e)))
    BY <1>3, <1>4, <2>1, PlaceOfRank
  <2>3. Rank(In(e[1], Nth(e)), e[2]) \in 1..ActionsPerMinute
    BY <1>1, <1>3, <2>1, <2>2
  <2>4. QED
    BY <1>4, <2>3
<1>6. ASSUME NEW e \in E, NEW f \in E, Spot(e) = Spot(f) PROVE e = f
  <2>1. /\ e[1] = f[1] /\ Nth(e) = Nth(f)
        /\ Rank(In(e[1], Nth(e)), e[2]) = Rank(In(f[1], Nth(f)), f[2])
    BY <1>6
  <2>2. PICK live : live = In(e[1], Nth(e))
    OBVIOUS
  <2>3. e[1] \in Callers /\ Nth(e) \in Int /\ e[2] \in live /\ f[2] \in live
    BY <1>4, <2>1, <2>2
  <2>4. live \in SUBSET Nat /\ IsFiniteSet(live)
    BY <1>3, <2>2, <2>3
  <2>5. Rank(live, e[2]) = Rank(live, f[2])
    BY <2>1, <2>2
  <2>6. e[2] = f[2]
    <3>1. Place(live, Rank(live, e[2])) = e[2] /\ Place(live, Rank(live, f[2])) = f[2]
      BY <2>3, <2>4, PlaceOfRank
    <3>2. QED
      BY <2>5, <3>1
  <2>7. QED
    BY <1>4, <2>1, <2>6
<1>7. PICK g : g = [e \in E |-> Spot(e)]
  OBVIOUS
<1>8. g \in Injection(E, Room)
  <2> HIDE DEF Spot, Room
  <2>1. QED
    BY <1>5, <1>6, <1>7 DEF Injection, IsInjective
<1>9. IsFiniteSet(Room) /\ Cardinality(Room) = Cardinality(Callers) * (m * ActionsPerMinute)
  <2>1. IsFiniteSet(0..(m - 1)) /\ Cardinality(0..(m - 1)) = m
    BY FS_Interval
  <2>2. IsFiniteSet(1..ActionsPerMinute) /\ Cardinality(1..ActionsPerMinute) = ActionsPerMinute
    BY <1>1, FS_Interval
  <2>3. PICK R : R = (0..(m - 1)) \X (1..ActionsPerMinute)
    OBVIOUS
  <2>4. IsFiniteSet(R) /\ Cardinality(R) = m * ActionsPerMinute
    BY <2>1, <2>2, <2>3, FS_Product
  <2>5. Room = Callers \X R
    BY <2>3
  <2>6. QED
    BY <2>4, <2>5, FS_Product
<1>10. QED
  BY <1>8, <1>9, FS_Injection

\* Every remembered signature stands for an action that went through: another
\* one each, in order, and not before the signature was in date.
Stands(log, used, e) ==
  /\ e \in [DOMAIN used -> Events(log)]
  /\ \A p, q \in DOMAIN used : e[p] = e[q] => p = q
  /\ \A p, q \in DOMAIN used : p <= q => When(log, e[p]) <= When(log, e[q])
  /\ \A p \in DOMAIN used : used[p].issuedAt - MaxAge <= When(log, e[p])

\* What was acted on is remembered or out of date.
ActedInv ==
  /\ LimitsInv
  /\ usedNonces \in Seq(SignedActions) /\ Len(usedNonces) <= NonceCap
  /\ acted \in [SignedActions -> {0, 1}]
  /\ \A d \in SignedActions : acted[d] = 1 => Seen(d) \/ d.issuedAt + MaxAge < clock
  /\ \E e : Stands(Log, usedNonces, e)

LEMMA LogIsLimited == LimitsInv => Limited(Log) /\ \A c \in Callers : HumanKey(c) \in AllKeys
<1>1. \A c \in Callers : HumanKey(c) \in AllKeys /\ LimitOf[HumanKey(c)[1]] = ActionsPerMinute
  BY DEF HumanKey, AllKeys, KeysOf, Limiters, LimitOf
<1>2. QED
  BY <1>1 DEF LimitsInv, KeyHolds, Log, Limited

\* What was let through stays on the record.
LEMMA EventsStay ==
  ASSUME NEW log \in [Callers -> Seq(Nat)], NEW more, NEW present \in Nat,
         \A c \in Callers : more[c] = log[c] \/ more[c] = Append(log[c], present),
         NEW used, NEW e, Stands(log, used, e)
  PROVE  /\ Stands(more, used, e) /\ Events(log) \subseteq Events(more)
         /\ \A x \in Events(log) : When(more, x) = When(log, x)
<1>1. ASSUME NEW x \in Events(log)
      PROVE  x \in Events(more) /\ When(more, x) = When(log, x)
  <2>1. PICK c \in Callers, i \in Nat : c = x[1] /\ i = x[2] /\ i \in DOMAIN log[c] /\ x \in Callers \X Nat
    BY DEF Events
  <2>2. PICK s \in Seq(Nat) : s = log[c]
    OBVIOUS
  <2>3. /\ DOMAIN s = 1..Len(s) /\ Len(s) \in Nat
        /\ DOMAIN Append(s, present) = 1..(Len(s) + 1)
        /\ \A j \in 1..Len(s) : j \in 1..(Len(s) + 1) /\ Append(s, present)[j] = s[j]
    BY <2>2
  <2>4. i \in DOMAIN more[c] /\ more[c][i] = log[c][i]
    BY <2>1, <2>2, <2>3
  <2>5. QED
    BY <2>1, <2>4 DEF Events, When
<1>2. Events(log) \subseteq Events(more) /\ \A x \in Events(log) : When(more, x) = When(log, x)
  BY <1>1
<1>3. \A p \in DOMAIN used : e[p] \in Events(log)
  BY DEF Stands
<1>4. QED
  BY <1>2, <1>3 DEF Stands

\* human-auth.ts:80-88, 118; store.ts:257-263.  When the oldest signature is
\* forgotten, it is out of date: all the others went through after it.
LEMMA ForgottenIsOld ==
  ASSUME NEW log, Limited(log), EnoughRemembered, NEW present \in Nat,
         NEW used \in Seq(SignedActions), NEW e, Stands(log, used, e),
         Len(used) = NonceCap + 1,
         \A p \in DOMAIN used : When(log, e[p]) <= present
  PROVE  used[1].issuedAt + MaxAge < present
<1>1. PICK m \in Nat : /\ 2 * MaxAge < m * Window
                      /\ Cardinality(Callers) * (m * ActionsPerMinute) <= NonceCap
  BY DEF EnoughRemembered
<1>2. /\ NonceCap \in Nat \ {0} /\ MaxAge \in Nat /\ Window \in Nat \ {0} /\ m * Window \in Nat
      /\ ActionsPerMinute \in Nat \ {0}
  BY LimitsAssumption
<1>3. DOMAIN used = 1..(NonceCap + 1) /\ 1 \in 1..(NonceCap + 1) /\ used[1] \in SignedActions
  BY <1>2
<1>4. PICK issued \in Nat : issued = used[1].issuedAt
  BY <1>3 DEF SignedActions, Times
<1>5. PICK s \in Int : s = issued - MaxAge
  BY <1>2
<1>6. SUFFICES ASSUME ~(issued + MaxAge < present) PROVE FALSE
  BY <1>4
<1>7. PICK E : E = {e[p] : p \in 1..(NonceCap + 1)}
  OBVIOUS
<1>8. E \in SUBSET Events(log)
  BY <1>3, <1>7 DEF Stands
<1>9. \A x \in E : s <= When(log, x) /\ When(log, x) < s + m * Window
  <2>1. SUFFICES ASSUME NEW p \in 1..(NonceCap + 1)
                 PROVE  s <= When(log, e[p]) /\ When(log, e[p]) < s + m * Window
    BY <1>7
  <2>2. /\ used[1].issuedAt - MaxAge <= When(log, e[1]) /\ 1 <= p
        /\ When(log, e[1]) <= When(log, e[p])
    BY <1>3 DEF Stands
  <2>3. \A x \in Events(log) : When(log, x) \in Nat
    BY DEF Limited, Events, When
  <2>4. When(log, e[1]) \in Nat /\ When(log, e[p]) \in Nat /\ When(log, e[p]) <= present
    BY <1>3, <2>3 DEF Stands
  <2>5. s <= When(log, e[p])
    BY <1>2, <1>4, <1>5, <2>2, <2>4
  <2>6. present <= issued + MaxAge
    BY <1>2, <1>6
  <2>7. present < s + m * Window
    <3>1. PICK w \in Nat : w = m * Window
      BY <1>2
    <3>2. 2 * MaxAge < w
      BY <1>1, <3>1
    <3>3. present < s + w
      BY <1>2, <1>5, <2>6, <3>2
    <3>4. QED
      BY <3>1, <3>3
  <2>8. QED
    BY <1>2, <2>4, <2>5, <2>7
<1>10. IsFiniteSet(E) /\ Cardinality(E) <= Cardinality(Callers) * (m * ActionsPerMinute)
  BY <1>8, <1>9, EventsAreFew DEF EnoughRemembered
<1>11. PICK f : f = [p \in 1..(NonceCap + 1) |-> e[p]]
  OBVIOUS
<1>12. f \in Injection(1..(NonceCap + 1), E)
  <2>1. f \in [1..(NonceCap + 1) -> E]
    BY <1>7, <1>11
  <2>2. \A p, q \in 1..(NonceCap + 1) : f[p] = f[q] => p = q
    BY <1>3, <1>11 DEF Stands
  <2>3. QED
    BY <2>1, <2>2 DEF Injection, IsInjective
<1>13. Cardinality(1..(NonceCap + 1)) = NonceCap + 1
  BY <1>2, FS_Interval
<1>14. NonceCap + 1 <= Cardinality(E) /\ Cardinality(E) \in Nat
  BY <1>10, <1>12, <1>13, FS_Injection, FS_CardinalityType
<1>15. Cardinality(Callers) * (m * ActionsPerMinute) \in Nat
  BY <1>2, FS_CardinalityType DEF EnoughRemembered
<1>16. QED
  BY <1>1, <1>2, <1>10, <1>14, <1>15

\* One more goes through and is remembered.
LEMMA OneMoreStands ==
  ASSUME NEW log \in [Callers -> Seq(Nat)], NEW more, NEW present \in Nat,
         \A x \in Callers : more[x] = log[x] \/ more[x] = Append(log[x], present),
         NEW c \in Callers, more[c] = Append(log[c], present),
         \A x \in Events(log) : When(log, x) <= present,
         NEW used \in Seq(SignedActions), NEW e, Stands(log, used, e),
         NEW d \in SignedActions, d.issuedAt - MaxAge <= present
  PROVE  \E f : /\ Stands(more, Append(used, d), f)
                /\ \A p \in DOMAIN Append(used, d) : When(more, f[p]) <= present
<1>1. PICK n \in Nat : n = Len(used)
  OBVIOUS
<1>2. PICK all : all = Append(used, d)
  OBVIOUS
<1>3. /\ DOMAIN used = 1..n /\ DOMAIN all = 1..(n + 1)
      /\ \A p \in 1..n : all[p] = used[p]
      /\ all[n + 1] = d
      /\ \A p \in 1..(n + 1) : p \in 1..n \/ p = n + 1
      /\ n + 1 \notin 1..n
  BY <1>1, <1>2
<1>4. PICK s \in Seq(Nat) : s = log[c]
  OBVIOUS
<1>5. PICK last : last = <<c, Len(s) + 1>>
  OBVIOUS
<1>6. last \notin Events(log) /\ last \in Events(more) /\ When(more, last) = present
  <2>1. /\ Len(s) + 1 \in Nat /\ Len(s) + 1 \notin DOMAIN s
        /\ Len(s) + 1 \in DOMAIN Append(s, present) /\ Append(s, present)[Len(s) + 1] = present
    BY <1>4
  <2>2. last[1] = c /\ last[2] = Len(s) + 1 /\ last \in Callers \X Nat
    BY <1>5, <2>1
  <2>3. QED
    BY <1>4, <2>1, <2>2 DEF Events, When
<1>7. /\ Stands(more, used, e) /\ Events(log) \subseteq Events(more)
      /\ \A x \in Events(log) : When(more, x) = When(log, x)
  BY EventsStay
<1>8. PICK f : f = [p \in 1..(n + 1) |-> IF p = n + 1 THEN last ELSE e[p]]
  OBVIOUS
<1>9. /\ f[n + 1] = last
      /\ \A p \in 1..n : f[p] = e[p] /\ e[p] \in Events(log)
  <2>1. \A p \in 1..n : e[p] \in Events(log)
    BY <1>3 DEF Stands
  <2>2. n + 1 \in 1..(n + 1) /\ \A p \in 1..n : p \in 1..(n + 1) /\ p # n + 1
    OBVIOUS
  <2>3. QED
    BY <1>8, <2>1, <2>2
<1>10. \A p \in 1..(n + 1) : When(more, f[p]) <= present /\ f[p] \in Events(more)
  <2>1. present <= present
    OBVIOUS
  <2>2. ASSUME NEW p \in 1..n PROVE When(more, f[p]) <= present /\ f[p] \in Events(more)
    BY <1>7, <1>9
  <2>3. QED
    BY <1>3, <1>6, <1>9, <2>1, <2>2
<1>11. ASSUME NEW p \in 1..(n + 1), NEW q \in 1..(n + 1), f[p] = f[q] PROVE p = q
  <2>1. CASE p \in 1..n /\ q \in 1..n
    BY <1>3, <1>9, <1>11, <2>1 DEF Stands
  <2>2. CASE p = n + 1 \/ q = n + 1
    BY <1>3, <1>6, <1>9, <1>11, <2>2
  <2>3. QED
    BY <1>3, <2>1, <2>2
<1>12. ASSUME NEW p \in 1..(n + 1), NEW q \in 1..(n + 1), p <= q
       PROVE  When(more, f[p]) <= When(more, f[q])
  <2>1. CASE q = n + 1
    BY <1>6, <1>9, <1>10, <2>1
  <2>2. CASE q # n + 1
    <3>1. q \in 1..n /\ p \in 1..n
      BY <1>12, <2>2
    <3>2. When(more, e[p]) <= When(more, e[q])
      BY <1>3, <1>7, <1>12, <3>1 DEF Stands
    <3>3. QED
      BY <1>9, <3>1, <3>2
  <2>3. QED
    BY <2>1, <2>2
<1>13. ASSUME NEW p \in 1..(n + 1) PROVE all[p].issuedAt - MaxAge <= When(more, f[p])
  <2>1. CASE p = n + 1
    BY <1>3, <1>6, <1>9, <2>1
  <2>2. CASE p \in 1..n
    BY <1>3, <1>7, <1>9, <2>2 DEF Stands
  <2>3. QED
    BY <1>3, <2>1, <2>2
<1>14. f \in [DOMAIN all -> Events(more)]
  BY <1>3, <1>8, <1>10
<1>15. Stands(more, all, f)
  BY <1>3, <1>11, <1>12, <1>13, <1>14 DEF Stands
<1>16. QED
  BY <1>2, <1>3, <1>10, <1>15

\* The oldest is forgotten.
LEMMA TheRestStands ==
  ASSUME NEW log, NEW used \in Seq(SignedActions), NEW e, Stands(log, used, e),
         NEW n \in Nat, Len(used) = n + 1
  PROVE  /\ SubSeq(used, 2, n + 1) \in Seq(SignedActions) /\ Len(SubSeq(used, 2, n + 1)) = n
         /\ \A p \in 2..(n + 1) : \E q \in DOMAIN SubSeq(used, 2, n + 1) :
              SubSeq(used, 2, n + 1)[q] = used[p]
         /\ \E f : Stands(log, SubSeq(used, 2, n + 1), f)
<1>1. PICK rest : rest = SubSeq(used, 2, n + 1)
  OBVIOUS
<1>2. DOMAIN used = 1..(n + 1) /\ \A p \in 1..n : p + 1 \in 1..(n + 1)
  OBVIOUS
<1>3. /\ rest \in Seq(SignedActions) /\ Len(rest) = n /\ DOMAIN rest = 1..n
      /\ \A p \in 1..n : rest[p] = used[p + 1]
  <2>1. Len(rest) = n /\ DOMAIN rest = 1..n
    BY <1>1
  <2>2. \A p \in 1..n : rest[p] = used[p + 1]
    <3>1. ASSUME NEW p \in 1..n PROVE rest[p] = used[p + 1]
      <4>1. rest[p] = used[2 + p - 1] /\ p \in Int
        BY <1>1
      <4>2. 2 + p - 1 = p + 1
        OBVIOUS
      <4>3. QED
        BY <4>1, <4>2
    <3>2. QED
      BY <3>1
  <2>3. \A p \in 1..(n + 1) : used[p] \in SignedActions
    BY <1>2
  <2>4. rest \in Seq(SignedActions)
    BY <1>1
  <2>5. QED
    BY <2>1, <2>2, <2>4
<1>4. \A p \in 2..(n + 1) : \E q \in DOMAIN rest : rest[q] = used[p]
  <2>1. ASSUME NEW p \in 2..(n + 1) PROVE \E q \in DOMAIN rest : rest[q] = used[p]
    <3>1. p - 1 \in 1..n /\ (p - 1) + 1 = p
      OBVIOUS
    <3>2. QED
      BY <1>3, <3>1
  <2>2. QED
    BY <2>1
<1>5. PICK f : f = [p \in 1..n |-> e[p + 1]]
  OBVIOUS
<1>6. f \in [1..n -> Events(log)] /\ \A p \in 1..n : f[p] = e[p + 1]
  BY <1>2, <1>5 DEF Stands
<1>7. ASSUME NEW p \in 1..n, NEW q \in 1..n
      PROVE  /\ f[p] = f[q] => p = q
             /\ p <= q => When(log, f[p]) <= When(log, f[q])
  <2>1. /\ p + 1 \in DOMAIN used /\ q + 1 \in DOMAIN used
        /\ p + 1 = q + 1 => p = q
        /\ p <= q => p + 1 <= q + 1
    BY <1>2
  <2>2. QED
    BY <1>6, <2>1 DEF Stands
<1>8. \A p \in 1..n : rest[p].issuedAt - MaxAge <= When(log, f[p])
  BY <1>2, <1>3, <1>6 DEF Stands
<1>9. Stands(log, rest, f)
  BY <1>3, <1>6, <1>7, <1>8 DEF Stands
<1>10. QED
  BY <1>1, <1>3, <1>4, <1>9

\* What a caller was let through with is on the record, up to now.
LEMMA LogIsKept ==
  ASSUME LimitsInv
  PROVE  /\ Log \in [Callers -> Seq(Nat)] /\ clock \in Nat
         /\ \A x \in Events(Log) : When(Log, x) <= clock
<1>1. \A c \in Callers : HumanKey(c) \in AllKeys
  BY LogIsLimited
<1>2. \A c \in Callers : /\ Log[c] \in Seq(Nat)
                         /\ \A i \in DOMAIN Log[c] : Log[c][i] <= clock
  BY <1>1 DEF LimitsInv, KeyHolds, Log
<1>3. clock \in Nat
  BY DEF LimitsInv, Times
<1>4. Log \in [Callers -> Seq(Nat)]
  BY <1>2 DEF Log
<1>5. \A x \in Events(Log) : When(Log, x) <= clock
  BY <1>2 DEF Events, When
<1>6. QED
  BY <1>3, <1>4, <1>5

LEMMA LogGrows ==
  ASSUME LimitsInv, NEW ks \in Seq(AllKeys), Len(ks) \in {1, 2}, Check(ks)
  PROVE  \A c \in Callers : Log'[c] = Log[c] \/ Log'[c] = Append(Log[c], clock)
<1>1. PICK through \in SUBSET AllKeys :
        accepted' = [k \in AllKeys |-> IF k \in through THEN Append(accepted[k], clock) ELSE accepted[k]]
  BY CheckDoes DEF Note
<1>2. \A c \in Callers : HumanKey(c) \in AllKeys
  BY LogIsLimited
<1>3. QED
  BY <1>1, <1>2 DEF Log

LEMMA ThroughIsLogged ==
  ASSUME LimitsInv, NEW c \in Callers, Check(ActionKeys(c)), ~Full(HumanKey(c))
  PROVE  Log'[c] = Append(Log[c], clock)
<1>1. PICK k : k = HumanKey(c)
  OBVIOUS
<1>2. k \in AllKeys /\ ActionKeys(c) = <<k>> /\ ~Full(k)
  BY <1>1, LogIsLimited DEF ActionKeys, HumanKey
<1>3. DOMAIN <<k>> = {1} /\ <<k>>[1] = k /\ Len(<<k>>) = 1
  OBVIOUS
<1> DEFINE Stops == {i \in DOMAIN <<k>> : Full(<<k>>[i])}
           Bound == IF Stops = {} THEN Len(<<k>>) + 1 ELSE CHOOSE i \in Stops : \A j \in Stops : i <= j
           Through == {<<k>>[i] : i \in {j \in DOMAIN <<k>> : j < Bound}}
           Asked == {<<k>>[i] : i \in {j \in DOMAIN <<k>> : j <= Bound}}
<1>4. Check(<<k>>)
  BY <1>2
<1>5. Note(Through, Asked \ Through)
  BY <1>4, Zenon DEF Check
<1>6. Stops = {}
  BY <1>2, <1>3
<1>7. Bound = 2
  BY <1>3, <1>6
<1>8. k \in Through
  <2> HIDE DEF Bound
  <2>1. QED
    BY <1>3, <1>7
<1>9. accepted'[k] = Append(accepted[k], clock)
  <2> HIDE DEF Through, Asked
  <2>1. QED
    BY <1>2, <1>5, <1>8 DEF Note
<1>10. QED
  BY <1>1, <1>9 DEF Log

\* Where nothing is carried out, the table stays, and what it forgot stays old.
LEMMA NothingActed ==
  ASSUME ActedInv, LimitsInv', clock <= clock', UNCHANGED <<usedNonces, acted>>,
         \A c \in Callers : Log'[c] = Log[c] \/ Log'[c] = Append(Log[c], clock)
  PROVE  ActedInv'
<1>1. LimitsInv /\ clock \in Nat /\ clock' \in Nat /\ Log \in [Callers -> Seq(Nat)]
  BY LogIsKept DEF ActedInv, LimitsInv, Times
<1>2. PICK e : Stands(Log, usedNonces, e)
  BY DEF ActedInv
<1>3. PICK log, more : log = Log /\ more = Log'
  OBVIOUS
<1>4. Stands(more, usedNonces, e)
  BY <1>1, <1>2, <1>3, EventsStay
<1>5. \E f : Stands(Log', usedNonces', f)
  BY <1>3, <1>4
<1>6. ASSUME NEW d \in SignedActions, acted'[d] = 1
      PROVE  Seen(d)' \/ d.issuedAt + MaxAge < clock'
  <2>1. Seen(d) \/ d.issuedAt + MaxAge < clock
    BY <1>6 DEF ActedInv
  <2>2. d.issuedAt \in Nat /\ MaxAge \in Nat
    BY LimitsAssumption DEF SignedActions, Times
  <2>3. CASE Seen(d)
    BY <2>3 DEF Seen
  <2>4. CASE d.issuedAt + MaxAge < clock
    BY <1>1, <2>2, <2>4
  <2>5. QED
    BY <2>1, <2>3, <2>4
<1>7. /\ usedNonces' \in Seq(SignedActions) /\ Len(usedNonces') <= NonceCap
      /\ acted' \in [SignedActions -> {0, 1}]
  BY DEF ActedInv
<1>8. QED
  BY <1>5, <1>6, <1>7 DEF ActedInv

\* human-auth.ts:80-118.  A signature in date that the table does not hold was
\* never carried out.
LEMMA ActedAgain ==
  ASSUME EnoughRemembered, ActedInv, LimitsInv',
         NEW c \in Callers, NEW d \in SignedActions, ActLimited(c, d),
         ~Full(HumanKey(c)), InDate(d), ~Seen(d)
  PROVE  ActedInv'
<1>1. LimitsInv /\ clock \in Nat /\ clock' = clock
  BY LogIsKept DEF ActedInv, ActLimited
<1>2. PICK log, more, present, all :
        /\ log = Log /\ more = Log' /\ present = clock /\ all = Append(usedNonces, d)
  OBVIOUS
<1>3. /\ usedNonces' = Remembered(d)
      /\ acted' = [acted EXCEPT ![d] = @ + 1]
      /\ Check(ActionKeys(c))
  BY DEF ActLimited, HumanKey
<1>4. d.issuedAt \in Nat /\ MaxAge \in Nat /\ NonceCap \in Nat
      /\ d.issuedAt - MaxAge <= present /\ ~(d.issuedAt + MaxAge < present)
  BY <1>1, <1>2, LimitsAssumption DEF InDate, SignedActions, Times
<1>5. /\ log \in [Callers -> Seq(Nat)] /\ present \in Nat
      /\ \A x \in Events(log) : When(log, x) <= present
      /\ more[c] = Append(log[c], present)
      /\ \A x \in Callers : more[x] = log[x] \/ more[x] = Append(log[x], present)
  <2>1. ActionKeys(c) \in Seq(AllKeys) /\ Len(ActionKeys(c)) = 1
    <3>1. HumanKey(c) \in AllKeys
      BY <1>1, LogIsLimited
    <3>2. QED
      BY <3>1 DEF ActionKeys, HumanKey
  <2>2. \A x \in Callers : Log'[x] = Log[x] \/ Log'[x] = Append(Log[x], clock)
    BY <1>1, <1>3, <2>1, LogGrows
  <2>3. Log'[c] = Append(Log[c], clock)
    BY <1>1, <1>3, ThroughIsLogged
  <2>4. /\ Log \in [Callers -> Seq(Nat)] /\ clock \in Nat
        /\ \A x \in Events(Log) : When(Log, x) <= clock
    BY <1>1, LogIsKept
  <2>5. QED
    BY <1>2, <2>2, <2>3, <2>4
<1>6. Limited(more)
  <2>1. \A x \in Callers : HumanKey(x) \in AllKeys /\ LimitOf[HumanKey(x)[1]] = ActionsPerMinute
    BY DEF HumanKey, AllKeys, KeysOf, Limiters, LimitOf
  <2>2. \A x \in Callers : /\ accepted'[HumanKey(x)] \in Seq(Nat)
          /\ \A t \in Int : Within(accepted'[HumanKey(x)], t - Window + 1, t) <= ActionsPerMinute
    BY <2>1 DEF LimitsInv, KeyHolds
  <2>3. QED
    BY <1>2, <2>2 DEF Log, Limited
<1>7. PICK n \in Nat : n = Len(usedNonces) /\ n <= NonceCap
  BY DEF ActedInv
<1>8. /\ usedNonces \in Seq(SignedActions) /\ all \in Seq(SignedActions) /\ Len(all) = n + 1
      /\ DOMAIN all = 1..(n + 1) /\ all[n + 1] = d
      /\ DOMAIN usedNonces = 1..n /\ \A p \in 1..n : all[p] = usedNonces[p] /\ p \in 1..(n + 1)
      /\ n + 1 \in 1..(n + 1)
  BY <1>2, <1>7 DEF ActedInv
<1>9. PICK f : Stands(more, all, f) /\ \A p \in DOMAIN all : When(more, f[p]) <= present
  <2>1. PICK e : Stands(log, usedNonces, e)
    BY <1>2 DEF ActedInv
  <2>2. \E f : /\ Stands(more, Append(usedNonces, d), f)
              /\ \A p \in DOMAIN Append(usedNonces, d) : When(more, f[p]) <= present
    <3>1. PICK used \in Seq(SignedActions) : used = usedNonces
      BY <1>8
    <3>2. d.issuedAt - MaxAge <= present /\ Stands(log, used, e)
      BY <1>4, <2>1, <3>1
    <3>3. \E f : /\ Stands(more, Append(used, d), f)
                /\ \A p \in DOMAIN Append(used, d) : When(more, f[p]) <= present
      BY <1>5, <3>2, OneMoreStands, ZenonT(60)
    <3>4. QED
      BY <3>1, <3>3
  <2>3. QED
    BY <1>2, <2>2
<1>10. acted[d] = 0
  <2>1. acted[d] # 1
    BY <1>1, <1>2, <1>4 DEF ActedInv
  <2>2. QED
    BY <2>1 DEF ActedInv
<1>11. /\ acted' \in [SignedActions -> {0, 1}] /\ acted'[d] = 1
       /\ \A x \in SignedActions : x # d => acted'[x] = acted[x]
  <2>1. acted \in [SignedActions -> {0, 1}] /\ 0 + 1 = 1
    BY DEF ActedInv
  <2>2. acted' = [acted EXCEPT ![d] = 1]
    BY <1>3, <1>10, <2>1
  <2>3. QED
    BY <2>1, <2>2
\* What was carried out is in the longer list, or out of date.
<1>12. ASSUME NEW x \in SignedActions, acted'[x] = 1
       PROVE  (\E p \in 1..(n + 1) : all[p] = x) \/ x.issuedAt + MaxAge < present
  <2>1. CASE x = d
    BY <1>8, <2>1
  <2>2. CASE x # d
    <3>1. Seen(x) \/ x.issuedAt + MaxAge < clock
      BY <1>11, <1>12, <2>2 DEF ActedInv
    <3>2. Seen(x) => \E p \in 1..(n + 1) : all[p] = x
      BY <1>8 DEF Seen
    <3>3. QED
      BY <1>2, <3>1, <3>2
  <2>3. QED
    BY <2>1, <2>2
<1>13. CASE n < NonceCap
  <2>1. usedNonces' = all
    <3>1. ~(n + 1 > NonceCap)
      BY <1>4, <1>13
    <3>2. Remembered(d) = SubSeq(all, 0 + 1, n + 1)
      BY <1>2, <1>8, <3>1 DEF Remembered
    <3>3. SubSeq(all, 1, n + 1) = all
      BY <1>8
    <3>4. QED
      BY <1>3, <3>2, <3>3
  <2>2. Len(all) <= NonceCap
    BY <1>4, <1>8, <1>13
  <2>3. ASSUME NEW x \in SignedActions, acted'[x] = 1
        PROVE  Seen(x)' \/ x.issuedAt + MaxAge < clock'
    BY <1>1, <1>2, <1>8, <1>12, <2>1, <2>3 DEF Seen
  <2>4. \E e : Stands(Log', usedNonces', e)
    BY <1>2, <1>9, <2>1
  <2>5. QED
    BY <1>8, <1>11, <2>1, <2>2, <2>3, <2>4 DEF ActedInv
<1>14. CASE ~(n < NonceCap)
  <2>1. n = NonceCap
    BY <1>4, <1>7, <1>14
  <2>2. PICK rest : rest = SubSeq(all, 2, n + 1)
    OBVIOUS
  <2>3. usedNonces' = rest
    <3>1. n + 1 > NonceCap /\ (n + 1) - NonceCap + 1 = 2
      BY <2>1
    <3>2. Remembered(d) = SubSeq(all, ((n + 1) - NonceCap) + 1, n + 1)
      BY <1>2, <1>8, <3>1 DEF Remembered
    <3>3. QED
      BY <1>3, <2>2, <3>1, <3>2
  <2>4. /\ rest \in Seq(SignedActions) /\ Len(rest) = n
        /\ \A p \in 2..(n + 1) : \E q \in DOMAIN rest : rest[q] = all[p]
        /\ \E e : Stands(more, rest, e)
    BY <1>8, <1>9, <2>2, TheRestStands
  <2>5. all[1].issuedAt + MaxAge < present
    BY <1>5, <1>6, <1>8, <1>9, <2>1, ForgottenIsOld
  <2>6. ASSUME NEW x \in SignedActions, acted'[x] = 1
        PROVE  Seen(x)' \/ x.issuedAt + MaxAge < clock'
    <3>1. CASE x.issuedAt + MaxAge < present
      BY <1>1, <1>2, <3>1
    <3>2. ASSUME NEW p \in 1..(n + 1), all[p] = x
          PROVE  Seen(x)' \/ x.issuedAt + MaxAge < clock'
      <4>1. CASE p = 1
        BY <1>1, <1>2, <2>5, <3>2, <4>1
      <4>2. CASE p # 1
        <5>1. p \in 2..(n + 1)
          BY <4>2
        <5>2. \E q \in DOMAIN rest : rest[q] = x
          BY <2>4, <3>2, <5>1
        <5>3. QED
          BY <2>3, <5>2 DEF Seen
      <4>3. QED
        BY <4>1, <4>2
    <3>3. QED
      BY <1>12, <2>6, <3>1, <3>2
  <2>7. \E e : Stands(Log', usedNonces', e)
    BY <1>2, <2>3, <2>4
  <2>8. Len(usedNonces') <= NonceCap
    BY <1>7, <2>3, <2>4
  <2>9. QED
    BY <1>11, <2>3, <2>4, <2>6, <2>7, <2>8 DEF ActedInv
<1>15. QED
  BY <1>13, <1>14

LEMMA ActedBegin == LimitsInit => ActedInv
<1> SUFFICES ASSUME LimitsInit PROVE ActedInv
  OBVIOUS
<1>1. LimitsInv
  BY LimitsBegin
<1>2. <<>> \in Seq(SignedActions) /\ DOMAIN <<>> = {} /\ Len(<<>>) = 0
  OBVIOUS
<1>3. usedNonces = <<>> /\ acted = [a \in SignedActions |-> 0] /\ NonceCap \in Nat
  BY LimitsAssumption DEF LimitsInit
<1>4. \A d \in SignedActions : acted[d] = 0
  BY <1>3
<1>5. Stands(Log, <<>>, [p \in {} |-> p])
  BY <1>2 DEF Stands
<1>6. QED
  BY <1>1, <1>2, <1>3, <1>4, <1>5 DEF ActedInv

LEMMA ActedGoesOn ==
  ASSUME EnoughRemembered, ActedInv, [SubmissionsNext \/ ActionsNext \/ BudgetNext]_limitVars
  PROVE  ActedInv'
<1>1. LimitsInv /\ LimitsInv'
  BY LimitsGoOn DEF ActedInv
<1>2. clock \in Nat /\ clock <= clock
  BY <1>1, LogIsKept
<1>3. CASE UNCHANGED limitVars
  <2>1. clock <= clock' /\ UNCHANGED <<usedNonces, acted, accepted>>
    BY <1>2, <1>3 DEF limitVars
  <2>2. Log' = Log
    BY <2>1 DEF Log
  <2>3. QED
    BY <1>1, <2>1, <2>2, NothingActed
<1>4. CASE Elapse
  <2>1. clock <= clock' /\ UNCHANGED <<usedNonces, acted, accepted>>
    BY <1>2, <1>4 DEF Elapse
  <2>2. Log' = Log
    BY <2>1 DEF Log
  <2>3. QED
    BY <1>1, <2>1, <2>2, NothingActed
<1>5. ASSUME NEW c \in Callers, NEW n \in Names, SubmitLimited(c, n) PROVE ActedInv'
  <2>1. <<"caller", c>> \in AllKeys /\ <<"agent", n>> \in AllKeys
    BY DEF AllKeys, KeysOf, Limiters
  <2>2. SubmissionKeys(c, n) \in Seq(AllKeys) /\ Len(SubmissionKeys(c, n)) = 2
    BY <2>1 DEF SubmissionKeys
  <2>3. Check(SubmissionKeys(c, n)) /\ clock <= clock' /\ UNCHANGED <<usedNonces, acted>>
    BY <1>2, <1>5 DEF SubmitLimited
  <2>4. \A x \in Callers : Log'[x] = Log[x] \/ Log'[x] = Append(Log[x], clock)
    BY <1>1, <2>2, <2>3, LogGrows
  <2>5. QED
    BY <1>1, <2>3, <2>4, NothingActed
<1>6. ASSUME NEW c \in Callers, NEW d \in SignedActions, ActLimited(c, d) PROVE ActedInv'
  <2>1. CASE ~Full(HumanKey(c)) /\ InDate(d) /\ ~Seen(d)
    BY <1>1, <1>6, <2>1, ActedAgain
  <2>2. CASE ~(~Full(HumanKey(c)) /\ InDate(d) /\ ~Seen(d))
    <3>1. ActionKeys(c) \in Seq(AllKeys) /\ Len(ActionKeys(c)) = 1
      <4>1. HumanKey(c) \in AllKeys
        BY <1>1, LogIsLimited
      <4>2. QED
        BY <4>1 DEF ActionKeys, HumanKey
    <3>2. /\ Check(ActionKeys(c)) /\ clock <= clock' /\ usedNonces' = usedNonces
          /\ acted' = [acted EXCEPT ![d] = @ + 0]
      BY <1>2, <1>6, <2>2 DEF ActLimited, HumanKey
    <3>3. acted' = acted
      <4>1. acted \in [SignedActions -> {0, 1}] /\ 0 + 0 = 0 /\ 1 + 0 = 1
        BY DEF ActedInv
      <4>2. acted[d] + 0 = acted[d]
        BY <4>1
      <4>3. QED
        BY <3>2, <4>1, <4>2
    <3>4. \A x \in Callers : Log'[x] = Log[x] \/ Log'[x] = Append(Log[x], clock)
      BY <1>1, <3>1, <3>2, LogGrows
    <3>5. QED
      BY <1>1, <3>2, <3>3, <3>4, NothingActed
  <2>3. QED
    BY <2>1, <2>2
<1>7. ASSUME NEW part, spend(part) PROVE ActedInv'
  <2>1. <<"model", "model">> \in AllKeys
    BY DEF AllKeys, KeysOf, Limiters
  <2>2. <<<<"model", "model">>>> \in Seq(AllKeys) /\ Len(<<<<"model", "model">>>>) = 1
    BY <2>1
  <2>3. Check(<<<<"model", "model">>>>) /\ clock <= clock' /\ UNCHANGED <<usedNonces, acted>>
    BY <1>2, <1>7 DEF spend
  <2>4. \A x \in Callers : Log'[x] = Log[x] \/ Log'[x] = Append(Log[x], clock)
    BY <1>1, <2>2, <2>3, LogGrows
  <2>5. QED
    BY <1>1, <2>3, <2>4, NothingActed
<1>8. QED
  BY <1>3, <1>4, <1>5, <1>6, <1>7 DEF SubmissionsNext, ActionsNext, BudgetNext

\* human-auth.ts:80-118, store.ts:257-263.  With room for what the windows admit
\* while a signature is in date, no signed action is carried out twice, however
\* often it is delivered and whatever the table has forgotten.
THEOREM NothingActedTwice ==
  ASSUME EnoughRemembered
  PROVE  LimitsSpec => []ActedOnce
<1>1. ActedInv => ActedOnce
  <2>1. 0 <= 1 /\ 1 <= 1
    OBVIOUS
  <2>2. QED
    BY <2>1 DEF ActedInv, ActedOnce
<1>2. ActedInv /\ [SubmissionsNext \/ ActionsNext \/ BudgetNext]_limitVars => ActedInv'
  BY ActedGoesOn
<1>3. QED
  BY <1>1, <1>2, ActedBegin, PTL DEF LimitsSpec

-----------------------------------------------------------------------------
(* Fetching what was paid for *)

LEMMA SmallestSubset ==
  ASSUME NEW D, IsFiniteSet(D), NEW T, T \subseteq SUBSET D, T # {}
  PROVE  \E s \in T : \A t \in SUBSET s : t # s => t \notin T
<1>1. IsWellFoundedOn(StrictSubsetOrdering(D), SUBSET D)
  BY FS_StrictSubsetOrderingWellFounded, FS_FiniteSubsetsOfFinite
<1>2. PICK s \in T : \A t \in T : ~ (<<t, s>> \in StrictSubsetOrdering(D))
  BY <1>1, WFMin
<1>3. ASSUME NEW t \in SUBSET s, t # s, t \in T
      PROVE  FALSE
  BY <1>2, <1>3 DEF StrictSubsetOrdering
<1>4. QED
  BY <1>3

\* An object keyed by slug loses no slug of the entries put into it: of the
\* entries with one slug there is a last.
LEMMA KeyedKeepsSlugs ==
  ASSUME NEW S \in SUBSET Targets
  PROVE  /\ Keyed(S) \subseteq S
         /\ \A t \in S : \E u \in Keyed(S) : Slug[u] = Slug[t]
<1>1. Keyed(S) \subseteq S
  BY DEF Keyed
<1>2. ASSUME NEW t \in S PROVE \E u \in Keyed(S) : Slug[u] = Slug[t]
  <2> DEFINE Same == {u \in S : Slug[u] = Slug[t]}
             Above(u) == {v \in Same : v > u}
             T == {Above(u) : u \in Same}
  <2>1. IsFiniteSet(Targets) /\ Targets \subseteq Nat
    BY RetrievalAssumption
  <2>2. T \subseteq SUBSET Targets /\ T # {}
    <3>1. t \in Same
      OBVIOUS
    <3>2. Above(t) \in T
      BY <3>1
    <3>3. QED
      BY <3>2
  <2>3. PICK s \in T : \A x \in SUBSET s : x # s => x \notin T
    <3> HIDE DEF T
    <3>1. QED
      BY <2>1, <2>2, SmallestSubset
  <2>4. PICK u \in Same : s = Above(u)
    OBVIOUS
  <2>5. ASSUME NEW v \in S, v > u, Slug[v] = Slug[u] PROVE FALSE
    <3>1. v \in Same /\ v \in Above(u) /\ u \in Nat /\ v \in Nat /\ Same \subseteq Nat
      BY <2>1, <2>5
    <3>2. v \notin Above(v)
      BY <3>1
    <3>3. Above(v) \subseteq Above(u)
      BY <2>5, <3>1
    <3>4. Above(v) \in T
      BY <3>1
    <3>5. QED
      BY <2>3, <2>4, <3>1, <3>2, <3>3, <3>4
  <2>6. u \in Keyed(S) /\ Slug[u] = Slug[t]
    BY <2>5 DEF Keyed
  <2>7. QED
    BY <2>6
<1>3. QED
  BY <1>1, <1>2

\* Only what was selected is asked, and once the answer is put together every
\* call that was made has its outcome.
AskedInv ==
  /\ answer \in [Targets -> {"none", "asked", "open", "refused", "data"} \cup Errors]
  /\ \A t \in Targets \ selected : answer[t] = "none"
  /\ stage \in {"idle", "asking", "unknown", "failed", "gathered", "analysed"}
  /\ stage \in {"failed", "gathered", "analysed"} => \A t \in selected : Settled(t)
  /\ stage \in {"gathered", "analysed"} =>
       /\ WithData # {}
       /\ result = [data |-> Keyed(WithData), errors |-> Keyed(selected \ WithData)]
  /\ stage = "failed" => WithData = {}

LEMMA AskedShows == AskedInv => EveryAnswerShown
<1> SUFFICES ASSUME AskedInv PROVE EveryAnswerShown
  OBVIOUS
<1>1. WithData \subseteq selected /\ selected \subseteq Targets
  BY DEF WithData, selected
<1>2. CASE stage \in {"gathered", "analysed"}
  <2>1. PICK A, B \in SUBSET Targets : A = WithData /\ B = selected \ WithData
    BY <1>1
  <2>2. /\ result.data = Keyed(A) /\ result.errors = Keyed(B)
        /\ A # {} /\ A \cup B = selected
    BY <1>1, <1>2, <2>1 DEF AskedInv
  <2>3. /\ Keyed(A) \subseteq A /\ \A t \in A : \E u \in Keyed(A) : Slug[u] = Slug[t]
        /\ Keyed(B) \subseteq B /\ \A t \in B : \E u \in Keyed(B) : Slug[u] = Slug[t]
    BY <2>1, KeyedKeepsSlugs
  <2>4. {Slug[t] : t \in Keyed(A) \cup Keyed(B)} = {Slug[t] : t \in selected}
    BY <2>2, <2>3
  <2>5. Keyed(A) # {} /\ \A t \in Keyed(A) : answer[t] = "data"
    BY <2>1, <2>2, <2>3 DEF WithData
  <2>6. QED
    BY <1>2, <2>2, <2>4, <2>5 DEF EveryAnswerShown
<1>3. CASE stage = "failed"
  BY <1>1, <1>3 DEF AskedInv, EveryAnswerShown, WithData, Settled
<1>4. QED
  BY <1>2, <1>3 DEF EveryAnswerShown

\* A step of a call that is under way ends or advances only that one.
LEMMA BecomesKeepsAsked ==
  ASSUME AskedInv, NEW t \in Targets, answer[t] \in {"asked", "open", "refused"},
         NEW what \in {"open", "refused", "data"} \cup Errors, Becomes(t, what)
  PROVE  AskedInv'
<1>1. t \in selected
  BY DEF AskedInv
<1>2. ~Settled(t)
  BY DEF Settled, Errors
<1>3. stage \notin {"failed", "gathered", "analysed"}
  BY <1>1, <1>2 DEF AskedInv
<1>4. selected' = selected /\ stage' = stage
  BY DEF Becomes, selected
<1>5. answer' \in [Targets -> {"none", "asked", "open", "refused", "data"} \cup Errors]
  BY DEF Becomes, AskedInv
<1>6. \A u \in Targets \ selected' : answer'[u] = "none"
  BY <1>1, <1>4 DEF Becomes, AskedInv
<1>7. QED
  BY <1>3, <1>4, <1>5, <1>6 DEF AskedInv

\* data/provider.ts:235-309.  For any list of subgraphs under any slugs, in
\* whatever order their calls answer, fail and are aborted.
THEOREM AnswersAreShown == RetrievalSpec => []EveryAnswerShown
<1>1. RetrievalInit => AskedInv
  BY DEF RetrievalInit, AskedInv
<1>2. AskedInv /\ [RetrievalNext]_retrievalVars => AskedInv'
  <2> SUFFICES ASSUME AskedInv, [RetrievalNext]_retrievalVars PROVE AskedInv'
    OBVIOUS
  <2>1. ASSUME NEW slug, Fetch(slug) PROVE AskedInv'
    <3>1. selected' \subseteq Targets
      BY DEF selected
    <3>2. QED
      BY <2>1, <3>1 DEF Fetch, AskedInv
  <2>2. ASSUME NEW t \in Targets,
               \/ Unreachable(t) \/ AbortFires(t) \/ Body(t)
               \/ \E ok \in BOOLEAN : Headers(t, ok)
        PROVE  AskedInv'
    <3>1. /\ answer[t] \in {"asked", "open", "refused"}
          /\ \E what \in {"open", "refused", "data"} \cup Errors : Becomes(t, what)
      BY <2>2, Zenon DEF Unreachable, AbortFires, Body, Headers, Errors
    <3>2. QED
      BY <3>1, BecomesKeepsAsked
  <2>3. CASE Gather
    <3>1. /\ UNCHANGED <<protocol, answer>>
          /\ selected' = selected /\ WithData' = WithData
          /\ \A t \in Targets : Settled(t)' <=> Settled(t)
      BY <2>3 DEF Gather, selected, WithData, Settled
    <3>2. \A t \in selected : Settled(t)
      BY <2>3 DEF Gather
    <3>3. selected \subseteq Targets
      BY DEF selected
    <3>4. /\ stage' = IF WithData = {} THEN "failed" ELSE "gathered"
          /\ result' = [data |-> Keyed(WithData), errors |-> Keyed(selected \ WithData)]
      BY <2>3 DEF Gather
    <3>5. QED
      BY <3>1, <3>2, <3>3, <3>4 DEF AskedInv, Keyed
  <2>4. CASE Analyse
    <3>1. /\ UNCHANGED <<protocol, answer, result>> /\ stage = "gathered" /\ stage' = "analysed"
          /\ selected' = selected /\ WithData' = WithData
          /\ \A t \in Targets : Settled(t)' <=> Settled(t)
      BY <2>4 DEF Analyse, selected, WithData, Settled
    <3>2. QED
      BY <3>1 DEF AskedInv, Keyed, Settled
  <2>5. CASE UNCHANGED retrievalVars
    BY <2>5 DEF retrievalVars, AskedInv, selected, WithData, Settled, Keyed
  <2> QED
    BY <2>1, <2>2, <2>3, <2>4, <2>5 DEF RetrievalNext
<1>3. QED
  BY <1>1, <1>2, AskedShows, PTL DEF RetrievalSpec

-----------------------------------------------------------------------------
(*                             The state file                              *)

\* A flush runs in a process that is up, and what it is about to put in place
\* of the state file is what that process holds.
FlushIsOfMemory ==
  /\ process \in {"down", "serving", "stopping"}
  /\ memory \in SUBSET Known
  /\ stateFile \in [state : {"absent", "whole", "torn", "damaged"}, facts : SUBSET Known]
  /\ writing \in {"no", "writing", "written"}
  /\ writing # "no" => Up
  /\ writing = "written" => tmp = memory

\* A file that is not whole says nothing.
OnlyWholeSpeaks == stateFile.state # "whole" => stateFile.facts = {}

\* What a serving gateway holds and has not saved is about to be saved, unless
\* the last write failed and nothing has changed since.
UnsavedIsPending ==
  process = "serving" =>
    \/ memory \subseteq stateFile.facts
    \/ saveTimer = "armed"
    \/ writing # "no"
    \/ missed

SnapshotInv ==
  FlushIsOfMemory /\ OnlyWholeSpeaks /\ RestartKeepsWhatWasSaved /\ UnsavedIsPending

USE DEF Whole, Absent, Damaged, Up

\* The store begins with nothing in memory, in a file or under way.
LEMMA SnapshotInvInit == SnapshotInit => SnapshotInv
BY DEF SnapshotInit, SnapshotInv, FlushIsOfMemory, OnlyWholeSpeaks, RestartKeepsWhatWasSaved,
       UnsavedIsPending, Known

\* A start reads the file into memory before it changes anything.
LEMMA BootKeeps == SnapshotInv /\ Boot => SnapshotInv'
<1> SUFFICES ASSUME SnapshotInv, Boot PROVE SnapshotInv'
  OBVIOUS
<1>1. FlushIsOfMemory'
  BY DEF SnapshotInv, FlushIsOfMemory, Boot, Seeded, Known
<1>2. OnlyWholeSpeaks'
  BY DEF Boot, OnlyWholeSpeaks
<1>3. RestartKeepsWhatWasSaved'
  BY DEF Boot, RestartKeepsWhatWasSaved, Seeded
<1>4. UnsavedIsPending'
  BY DEF SnapshotInv, OnlyWholeSpeaks, Boot, UnsavedIsPending, Seeded
<1> QED BY <1>1, <1>2, <1>3, <1>4 DEF SnapshotInv

\* Recording adds to memory between flushes, and arms the save.
LEMMA RecordKeeps == ASSUME NEW f \in Facts, SnapshotInv, Record(f) PROVE SnapshotInv'
BY DEF SnapshotInv, FlushIsOfMemory, OnlyWholeSpeaks, RestartKeepsWhatWasSaved,
       UnsavedIsPending, Record, Known

\* The steps of a flush: begun, written beside the file, put in its place.
LEMMA FlushKeeps == SnapshotInv /\ (Flush \/ WriteFails) => SnapshotInv'
<1> SUFFICES ASSUME SnapshotInv, Flush \/ WriteFails PROVE SnapshotInv'
  OBVIOUS
<1> USE DEF SnapshotInv, FlushIsOfMemory, OnlyWholeSpeaks, RestartKeepsWhatWasSaved, UnsavedIsPending
<1>1. CASE TimerFires
  BY <1>1 DEF TimerFires
<1>2. CASE WriteTmp
  BY <1>2 DEF WriteTmp
<1>3. CASE Rename
  BY <1>3 DEF Rename
<1>4. CASE WriteFails
  BY <1>4 DEF WriteFails
<1> QED BY <1>1, <1>2, <1>3, <1>4 DEF Flush

\* The ends of a process, and what befalls its file while it is down.
LEMMA EndsKeep ==
  ASSUME SnapshotInv, Exit \/ Crash \/ Damage \/ (\E signal \in Signals : Stop(signal))
  PROVE  SnapshotInv'
<1> USE DEF SnapshotInv, FlushIsOfMemory, OnlyWholeSpeaks, RestartKeepsWhatWasSaved, UnsavedIsPending
<1>1. CASE Exit
  BY <1>1 DEF Exit
<1>2. CASE Crash
  BY <1>2 DEF Crash
<1>3. CASE Damage
  BY <1>3 DEF Damage
<1>4. ASSUME NEW signal \in Signals, Stop(signal) PROVE SnapshotInv'
  BY <1>4 DEF Stop
<1> QED BY <1>1, <1>2, <1>3, <1>4

\* The invariant is kept by every step, stuttering included.
LEMMA SnapshotInvKept == SnapshotInv /\ [SnapshotNext]_snapshotVars => SnapshotInv'
<1> SUFFICES ASSUME SnapshotInv, [SnapshotNext]_snapshotVars PROVE SnapshotInv'
  OBVIOUS
<1>1. CASE UNCHANGED snapshotVars
  BY <1>1 DEF SnapshotInv, FlushIsOfMemory, OnlyWholeSpeaks, RestartKeepsWhatWasSaved,
              UnsavedIsPending, snapshotVars
<1>2. CASE Boot
  BY <1>2, BootKeeps
<1>3. CASE Flush \/ WriteFails
  BY <1>3, FlushKeeps
<1>4. CASE \E f \in Facts : Record(f)
  BY <1>4, RecordKeeps
<1>5. CASE Exit \/ Crash \/ Damage \/ (\E signal \in Signals : Stop(signal))
  BY <1>5, EndsKeep
<1> QED BY <1>1, <1>2, <1>3, <1>4, <1>5 DEF SnapshotNext

\* server.ts:41-49, store.ts:319-366. Over any crashes, restarts, failed writes
\* and damaged files, a running gateway knows all that its state file says, and
\* what a serving one has not saved is about to be.
THEOREM SnapshotHolds == SnapshotSpec => []SnapshotInv
BY SnapshotInvInit, SnapshotInvKept, PTL DEF SnapshotSpec

\* server.ts:41-49. No start un-revokes a passport whose revocation was saved,
\* or forgets a used signature or a charged fare: RestartKeepsWhatWasSaved
\* for every set of facts and any number of failures.
THEOREM NothingSavedIsLost == SnapshotSpec => []RestartKeepsWhatWasSaved
BY SnapshotHolds, PTL DEF SnapshotInv

\* What one step does to the state file: nothing, unless it is put in place, or
\* found or made unreadable.
LEMMA FileStep ==
  SnapshotInv /\ [SnapshotNext]_snapshotVars =>
    [stateFile.state = "whole" /\ stateFile'.state # "damaged" =>
       stateFile'.state = "whole" /\ stateFile.facts \subseteq stateFile'.facts]_stateFile
<1> SUFFICES ASSUME SnapshotInv, [SnapshotNext]_snapshotVars,
                    stateFile.state = "whole", stateFile'.state # "damaged", stateFile' # stateFile
             PROVE  stateFile'.state = "whole" /\ stateFile.facts \subseteq stateFile'.facts
  OBVIOUS
<1>1. CASE Rename
  BY <1>1 DEF Rename, SnapshotInv, FlushIsOfMemory, RestartKeepsWhatWasSaved
<1>2. CASE SnapshotNext /\ ~Rename
  <2>1. ~(TimerFires \/ WriteTmp \/ WriteFails \/ Exit \/ Crash)
    BY DEF TimerFires, WriteTmp, WriteFails, Exit, Crash
  <2>2. ~\E f \in Facts : Record(f)
    BY DEF Record
  <2>3. ~\E signal \in Signals : Stop(signal)
    BY DEF Stop
  <2>4. Boot \/ Damage
    BY <1>2, <2>1, <2>2, <2>3 DEF SnapshotNext, Flush
  <2> QED BY <2>4 DEF Boot, Damage
<1>3. CASE UNCHANGED snapshotVars
  BY <1>3 DEF snapshotVars
<1> QED BY <1>1, <1>2, <1>3

\* store.ts:343-366. Wherever the process dies, the file on disk is the old
\* snapshot or one that says at least as much.
THEOREM SnapshotsGrow == SnapshotSpec => SnapshotOnlyGrows
BY SnapshotHolds, FileStep, PTL DEF SnapshotSpec, SnapshotOnlyGrows

-----------------------------------------------------------------------------
(*                            The request table                            *)

\* Requests are stored in the order of their creation, each in its own place.
TableInv ==
  /\ created \in Nat
  /\ table \in [Ids -> Waiting \cup Finished \cup {"none"}]
  /\ \A id \in Ids : table[id] # "none" => id <= created

\* A trim drops finished requests only.
LEMMA TrimDropsFinished ==
  ASSUME NEW t, NEW id \in Ids, t[id] \notin Finished
  PROVE  Trimmed(t)[id] = t[id]
BY DEF Trimmed, Dropped

\* It leaves every request as it is, or off the record.
LEMMA TrimKeepsStatuses ==
  ASSUME NEW t
  PROVE  /\ DOMAIN Trimmed(t) = Ids
         /\ \A id \in Ids : Trimmed(t)[id] \in {t[id], "none"}
         /\ Trimmed(t) = [id \in Ids |-> Trimmed(t)[id]]
BY DEF Trimmed

USE DEF Waiting, Finished

\* Storing a request keeps the order, and every request that waits.
LEMMA PutKeeps ==
  ASSUME NEW status \in Waiting \cup {"rejected"}, TableInv, PutRequest(status)
  PROVE  TableInv' /\ \A id \in Ids : table[id] \in Waiting => table'[id] # "none"
<1> DEFINE stored == [table EXCEPT ![created + 1] = status]
<1>1. created + 1 \in Ids
  BY RequestTableAssumption DEF TableInv, PutRequest, Ids
<1>2. /\ stored[created + 1] = status
      /\ \A id \in Ids : id # created + 1 => stored[id] = table[id]
  BY <1>1 DEF TableInv
<1>3. table' = Trimmed(stored) /\ created' = created + 1
  BY DEF PutRequest
<1> HIDE DEF stored
<1>4. TableInv'
  <2>1. \A id \in Ids : table'[id] \in {stored[id], "none"}
    BY <1>3, TrimKeepsStatuses
  <2>2. \A id \in Ids : stored[id] \in Waiting \cup Finished \cup {"none"}
    BY <1>2 DEF TableInv
  <2>3. table' \in [Ids -> Waiting \cup Finished \cup {"none"}]
    BY <1>3, <2>1, <2>2, TrimKeepsStatuses
  <2>4. \A id \in Ids : table'[id] # "none" => id <= created'
    BY <1>1, <1>2, <1>3, <2>1 DEF TableInv, Ids
  <2> QED BY <1>3, <2>3, <2>4 DEF TableInv
<1>5. ASSUME NEW id \in Ids, table[id] \in Waiting PROVE table'[id] # "none"
  <2>1. id # created + 1
    BY <1>5 DEF TableInv, Ids
  <2>2. stored[id] = table[id]
    BY <1>2, <2>1
  <2> QED BY <1>3, <1>5, <2>2, TrimDropsFinished
<1> QED BY <1>4, <1>5

\* A change of a status puts nothing on the record and takes nothing off it.
LEMMA UpdateKeeps ==
  ASSUME NEW id \in Ids, NEW status \in Waiting \cup Finished \cup {"none"}, TableInv,
         Updated(id, status), created' = created, status = "none" => table[id] = "none"
  PROVE  TableInv' /\ \A other \in Ids : table[other] \in Waiting => table'[other] # "none"
BY DEF TableInv, Updated

\* What a step of the table keeps.
LEMMA TableStep ==
  ASSUME TableInv, [TableNext]_tableVars
  PROVE  TableInv' /\ \A id \in Ids : table[id] \in Waiting => table'[id] # "none"
<1>1. CASE UNCHANGED tableVars
  BY <1>1 DEF TableInv, tableVars
<1>2. CASE \E status \in Waiting \cup {"rejected"} : PutRequest(status)
  BY <1>2, PutKeeps
<1>3. ASSUME NEW id \in Ids, NEW status \in {"payment_required", "rejected"}, DecideOne(id, status)
      PROVE  TableInv' /\ \A other \in Ids : table[other] \in Waiting => table'[other] # "none"
  BY <1>3, UpdateKeeps DEF DecideOne
<1>4. ASSUME NEW id \in Ids, BeginCollection(id)
      PROVE  TableInv' /\ \A other \in Ids : table[other] \in Waiting => table'[other] # "none"
  BY <1>4 DEF BeginCollection, TableInv
<1>5. ASSUME NEW id \in Ids, NEW status \in Waiting \cup Finished \cup {"none"},
             EndCollection(id, status)
      PROVE  TableInv' /\ \A other \in Ids : table[other] \in Waiting => table'[other] # "none"
  BY <1>5, UpdateKeeps DEF EndCollection
<1> QED BY <1>1, <1>2, <1>3, <1>4, <1>5 DEF TableNext

\* The table begins empty, and every step keeps its order.
THEOREM TableHolds == TableSpec => []TableInv
<1>1. TableInit => TableInv
  BY DEF TableInit, TableInv
<1>2. TableInv /\ [TableNext]_tableVars => TableInv'
  BY TableStep
<1> QED BY <1>1, <1>2, PTL DEF TableSpec

\* store.ts:182-196. Whatever the cap and however many requests arrive, one that
\* waits on a human or on a payment is never dropped.
THEOREM WaitingStays == TableSpec => WaitingNeverDropped
<1>1. TableInv /\ [TableNext]_tableVars =>
        [\A id \in Ids : table[id] \in Waiting => table'[id] # "none"]_table
  BY TableStep
<1> QED BY <1>1, TableHolds, PTL DEF TableSpec, WaitingNeverDropped
=============================================================================
