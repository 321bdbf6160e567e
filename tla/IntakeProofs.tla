---- MODULE IntakeProofs ----
(***************************************************************************)
(* Proofs about the intake pipeline: what TLC checks in MCIntake on two    *)
(* requests, for every number of requests and every answer of every        *)
(* collaborator.                                                           *)
(***************************************************************************)
EXTENDS IntakeProperties, FiniteSetTheorems, SequenceTheorems, WellFoundedInduction, TLAPS

\* "The later entry wins" (injection_service.py:126, 143) picks one of the
\* entries: the last of finitely many positions is a position.
LEMMA LastIsAMember ==
    ASSUME NEW S, IsFiniteSet(S), S \subseteq Nat, S # {}
    PROVE  Sets!Max(S) \in S
<1> DEFINE Above(x) == {y \in S : y > x}
           R == StrictSubsetOrdering(S)
           T == {Above(x) : x \in S}
<1>1. IsWellFoundedOn(R, FiniteSubsetsOf(S))
  BY FS_StrictSubsetOrderingWellFounded
<1>2. T \subseteq FiniteSubsetsOf(S)
  BY FS_Subset DEF FiniteSubsetsOf
<1>3. T # {}
  OBVIOUS
<1>4. PICK a \in T : \A b \in T : <<b, a>> \notin R
  <2> HIDE DEF R, T
  <2>1. QED
    BY <1>1, <1>2, <1>3, WFMin
<1>5. PICK m \in S : a = Above(m)
  OBVIOUS
<1>6. ASSUME NEW y \in S, y > m PROVE FALSE
  <2> HIDE DEF R, T
  <2>1. m \in Nat /\ y \in Nat /\ \A z \in S : z \in Nat
    OBVIOUS
  <2>2. \A z \in S : z > y => z > m
    BY <2>1, <1>6
  <2>3. ~(y > y)
    BY <2>1
  <2>4. /\ Above(y) \subseteq Above(m) /\ y \in Above(m) /\ y \notin Above(y)
        /\ Above(y) \subseteq S /\ Above(m) \subseteq S
    BY <2>2, <2>3, <1>6
  <2>5. <<Above(y), Above(m)>> \in R
    BY <2>4, Zenon DEF StrictSubsetOrdering, R
  <2>6. QED
    BY <2>5, <1>5, <1>4 DEF T
<1>7. \A y \in S : m >= y
  BY <1>6
<1>8. QED
  BY <1>7 DEF Sets!Max

----------------------------------------------------------------------------
(* Whatever the policy service answers, a verdict is a list of findings.   *)

Verdicts == [status : CheckStatus, severity : Severity]

\* Every check of principles_eval.py:68-309 returns a known status and severity.
LEMMA CheckTypes ==
    ASSUME NEW s, NEW allowed, NEW id
    PROVE  Check(s, id, allowed) \in Verdicts
<1> USE DEF Verdicts, CheckStatus, Severity, Verdict
<1>1. P01(s) \in Verdicts /\ P02(s) \in Verdicts /\ P03(s, allowed) \in Verdicts
  BY DEF P01, P02, P03
<1>2. P04(s) \in Verdicts /\ P05(s) \in Verdicts /\ P06(s) \in Verdicts
  BY DEF P04, P05, P06
<1>3. P07(s) \in Verdicts /\ P08(s) \in Verdicts /\ P09(s) \in Verdicts
  BY DEF P07, P08, P09
<1>4. P10(s) \in Verdicts /\ P11(s) \in Verdicts /\ P12(s) \in Verdicts
  BY DEF P10, P11, P12
<1> HIDE DEF Verdicts
<1>5. QED
  BY <1>1, <1>2, <1>3, <1>4 DEF Check

\* ... and so does every rule of principles.rego.
LEMMA RuleTypes ==
    ASSUME NEW s, NEW allowed, NEW id
    PROVE  RegoCheck(s, id, allowed) \in Verdicts
<1> USE DEF Verdicts, CheckStatus, Severity, RegoVerdict
<1>1. Rego01(s) \in Verdicts /\ Rego02(s) \in Verdicts /\ Rego03(s, allowed) \in Verdicts
  BY DEF Rego01, Rego02, Rego03
<1>2. Rego04(s) \in Verdicts /\ Rego05(s) \in Verdicts /\ Rego06(s) \in Verdicts
  BY DEF Rego04, Rego05, Rego06
<1>3. Rego07(s) \in Verdicts /\ Rego08(s) \in Verdicts /\ Rego09(s) \in Verdicts
  BY DEF Rego07, Rego08, Rego09
<1>4. Rego10(s) \in Verdicts /\ Rego11(s) \in Verdicts /\ Rego12(s) \in Verdicts
  BY DEF Rego10, Rego11, Rego12
<1> HIDE DEF Verdicts
<1>5. QED
  BY <1>1, <1>2, <1>3, <1>4 DEF RegoCheck

\* Every one of the twelve checks judges a known principle (principles_eval.py:312-325).
LEMMA TwelvePrinciples ==
    ASSUME NEW i \in 1..12
    PROVE  PrincipleIds[i] \in PrincipleRef
BY DEF PrincipleRef, Principles

\* There are finitely many of them, so a list of their findings is a findings list.
LEMMA TwelvePositions == IsFiniteSet(1..12) /\ 1..12 \subseteq Nat
<1>1. 1 \in Int /\ 12 \in Int
  OBVIOUS
<1>2. IsFiniteSet(1..12)
  BY <1>1, FS_Interval, Zenon
<1>3. 1..12 \subseteq Nat
  OBVIOUS
<1>4. QED
  BY <1>2, <1>3

\* The in-process evaluator answers all twelve principles, each with a known
\* verdict (principles_eval.py:328-370).
LEMMA EvaluatorTypes ==
    ASSUME NEW s, NEW allowed
    PROVE  IsFindings(EvaluateAll(s, allowed)) /\ DOMAIN EvaluateAll(s, allowed) = 1..12
<1>1. ASSUME NEW i \in 1..12
      PROVE  EvaluatePrinciple(s, PrincipleIds[i], allowed) \in Finding
  BY CheckTypes, TwelvePrinciples DEF EvaluatePrinciple, Finding, Verdicts
<1>2. QED
  BY <1>1, TwelvePositions DEF EvaluateAll, IsFindings

\* What the OPA client hands to its parser, from the bundle or from anywhere else.
RawFindings(raw) ==
    /\ DOMAIN raw \subseteq Nat
    /\ IsFiniteSet(DOMAIN raw)
    /\ \A i \in DOMAIN raw : raw[i] \in RawFinding

\* Whatever entries the service sends, what the parser keeps of them is well formed
\* (opa_policy.py:78-115).
LEMMA ParsedTypes ==
    ASSUME NEW raw, RawFindings(raw)
    PROVE  IsFindings(ParseFindings(raw))
<1> DEFINE Kept == {i \in DOMAIN raw : raw[i].object /\ raw[i].principle_id # Blank}
<1>1. Kept \subseteq Nat /\ IsFiniteSet(Kept)
  BY FS_Subset DEF RawFindings
<1>2. ASSUME NEW i \in Kept
      PROVE  /\ raw[i].principle_id \in PrincipleRef
             /\ (IF raw[i].status \in CheckStatus THEN raw[i].status ELSE "NEEDS_INFO")
                    \in CheckStatus
             /\ (IF raw[i].severity \in Severity THEN raw[i].severity ELSE "medium")
                    \in Severity
  BY <1>2 DEF RawFindings, RawFinding, CheckStatus, Severity
<1>3. DOMAIN ParseFindings(raw) = Kept
  BY DEF ParseFindings
<1>4. ASSUME NEW i \in Kept PROVE ParseFindings(raw)[i] \in Finding
  BY <1>2, <1>4 DEF ParseFindings, Finding
<1>5. ParseFindings(raw) = [i \in DOMAIN ParseFindings(raw) |-> ParseFindings(raw)[i]]
  BY DEF ParseFindings
<1> HIDE DEF Kept
<1>6. QED
  BY <1>1, <1>3, <1>4, <1>5 DEF IsFindings

\* Both the bundle's own answer and any other answer are lists the parser can walk.
LEMMA AnswersAreRaw ==
    ASSUME NEW s, NEW allowed,
           NEW a \in OpaAnswer \cup {BundleAnswer(s, allowed)}, a.kind = "findings"
    PROVE  RawFindings(a.raw)
<1>1. CASE a \in OpaAnswer
  <2>1. a.raw \in Seq(RawFinding)
    BY <1>1 DEF OpaAnswer
  <2>2. DOMAIN a.raw = 1..Len(a.raw) /\ Len(a.raw) \in Nat
    BY <2>1
  <2>3. IsFiniteSet(DOMAIN a.raw)
    BY <2>2, FS_Interval
  <2>4. QED
    BY <2>1, <2>2, <2>3 DEF RawFindings
<1>2. CASE a = BundleAnswer(s, allowed)
  <2> DEFINE raw == BundleAnswer(s, allowed).raw
  <2>1. DOMAIN raw = 1..12 /\ IsFiniteSet(1..12)
    BY TwelvePositions DEF BundleAnswer
  <2>2. ASSUME NEW i \in 1..12 PROVE raw[i] \in RawFinding
    BY RuleTypes, TwelvePrinciples DEF BundleAnswer, RegoFindings, RawFinding, Verdicts
  <2> HIDE DEF raw
  <2>3. RawFindings(raw)
    BY <2>1, <2>2, TwelvePositions DEF RawFindings
  <2>4. QED
    BY <2>3, <1>2 DEF raw
<1>3. QED
  BY <1>1, <1>2

\* Whatever a reachable or unreachable policy service answers, the findings are
\* well formed and there is at least one (validation_service.py:117-128).
LEMMA OpaFindingsTypes ==
    ASSUME NEW s, NEW a \in OpaAnswer \cup {BundleAnswer(s, AllowedRegions)}, ~RaisesOther(a)
    PROVE  IsFindings(OpaFindings(s, a)) /\ DOMAIN OpaFindings(s, a) # {}
<1>1. IsFindings(InProcess(s)) /\ DOMAIN InProcess(s) # {}
  BY EvaluatorTypes DEF InProcess
<1>2. CASE RaisesPolicyError(a) \/ DOMAIN ParseFindings(a.raw) = {}
  BY <1>1, <1>2 DEF OpaFindings
<1>3. CASE ~(RaisesPolicyError(a) \/ DOMAIN ParseFindings(a.raw) = {})
  <2>1. a.kind = "findings"
    BY <1>3 DEF RaisesPolicyError, RaisesOther, OpaAnswer, BundleAnswer
  <2>2. RawFindings(a.raw)
    BY <2>1, AnswersAreRaw
  <2>3. QED
    BY <2>2, <1>3, ParsedTypes DEF OpaFindings
<1>4. QED
  BY <1>2, <1>3

----------------------------------------------------------------------------
(* Whatever the model replies, every unmet finding gets its requirement.   *)

\* The owner of a principle's requirement is one of the unmet findings, and a
\* draft is one of the model's items (injection_service.py:126-134).
LEMMA OwnerIsUnmet ==
    ASSUME NEW f, IsFindings(f), NEW i \in Unmet(f)
    PROVE  Owner(f, f[i].principle_id) \in Unmet(f)
<1> DEFINE S == {j \in Unmet(f) : f[j].principle_id = f[i].principle_id}
<1>1. S \subseteq DOMAIN f
  BY DEF Unmet
<1>2. S \subseteq Nat /\ IsFiniteSet(S)
  BY <1>1, FS_Subset DEF IsFindings
<1>3. i \in S
  OBVIOUS
<1>4. Owner(f, f[i].principle_id) = Sets!Max(S)
  BY DEF Owner
<1>5. S # {}
  BY <1>3
<1> HIDE DEF S
<1>6. Sets!Max(S) \in S
  BY <1>2, <1>5, LastIsAMember
<1>7. QED
  BY <1>4, <1>6 DEF S

\* A requirement drafted by the model names its principle, has a known severity and
\* cites only the principle and what was retrieved (injection_service.py:128-151).
LEMMA DraftedTypes ==
    ASSUME NEW f, IsFindings(f), NEW kb \in SUBSET Source, NEW reply, NEW i \in Unmet(f)
    PROVE  /\ Drafted(f, kb, reply, f[i].principle_id) \in Requirement
           /\ Drafted(f, kb, reply, f[i].principle_id).principle_id = f[i].principle_id
           /\ Drafted(f, kb, reply, f[i].principle_id).citations # {}
           /\ Drafted(f, kb, reply, f[i].principle_id).citations
                  \subseteq {f[i].principle_id} \cup kb
<1> DEFINE id == f[i].principle_id
           item == reply.items[Sets!Max(Drafts(f, reply, id))]
           sev == IF item.severity \in Severity THEN item.severity
                  ELSE f[Owner(f, id)].severity
           cites == Cited(item.used, {id} \cup kb)
<1>1. id \in PrincipleRef
  BY DEF IsFindings, Unmet, Finding
<1>2. Owner(f, id) \in Unmet(f)
  BY OwnerIsUnmet
<1>3. sev \in Severity
  BY <1>2 DEF IsFindings, Unmet, Finding
<1>4. cites # {} /\ cites \subseteq {id} \cup kb
  BY DEF Cited
<1>5. {id} \cup kb \subseteq SourceId
  BY <1>1 DEF SourceId
<1>6. Drafted(f, kb, reply, id) = [principle_id |-> id, severity |-> sev, citations |-> cites]
  BY DEF Drafted
<1> HIDE DEF sev, cites, id
<1>7. /\ Drafted(f, kb, reply, id) \in Requirement
      /\ Drafted(f, kb, reply, id).principle_id = id
      /\ Drafted(f, kb, reply, id).citations # {}
      /\ Drafted(f, kb, reply, id).citations \subseteq {id} \cup kb
  BY <1>1, <1>3, <1>4, <1>5, <1>6 DEF Requirement
<1>8. QED
  BY <1>7 DEF id

\* So does the canned requirement of a finding the model skipped
\* (injection_service.py:157-180).
LEMMA FallbackTypes ==
    ASSUME NEW f, IsFindings(f), NEW kb \in SUBSET Source, NEW i \in Unmet(f)
    PROVE  /\ Fallback(f[i], kb) \in Requirement
           /\ Fallback(f[i], kb).principle_id = f[i].principle_id
           /\ Fallback(f[i], kb).citations = {f[i].principle_id} \cup kb
<1>1. f[i].principle_id \in PrincipleRef /\ f[i].severity \in Severity
  BY DEF IsFindings, Unmet, Finding
<1>2. {f[i].principle_id} \cup kb \subseteq SourceId
  BY <1>1 DEF SourceId
<1>3. QED
  BY <1>1, <1>2 DEF Fallback, Requirement

\* Hence whatever the model replies, the unmet findings, and only they, get a
\* grounded requirement (injection_service.py:70-90).
LEMMA InjectFacts ==
    ASSUME NEW f, IsFindings(f), NEW kb \in SUBSET Source, NEW reply
    PROVE  /\ DOMAIN Inject(f, kb, reply) = Unmet(f)
           /\ \A i \in Unmet(f) :
                  /\ Inject(f, kb, reply)[i] \in Requirement
                  /\ Inject(f, kb, reply)[i].principle_id = f[i].principle_id
                  /\ Inject(f, kb, reply)[i].citations # {}
                  /\ Inject(f, kb, reply)[i].citations \subseteq {f[i].principle_id} \cup kb
<1>1. DOMAIN Inject(f, kb, reply) = Unmet(f)
  BY DEF Inject
<1>2. ASSUME NEW i \in Unmet(f)
      PROVE  /\ Inject(f, kb, reply)[i] \in Requirement
             /\ Inject(f, kb, reply)[i].principle_id = f[i].principle_id
             /\ Inject(f, kb, reply)[i].citations # {}
             /\ Inject(f, kb, reply)[i].citations \subseteq {f[i].principle_id} \cup kb
  <2>1. CASE Drafts(f, reply, f[i].principle_id) # {}
    <3>1. Inject(f, kb, reply)[i] = Drafted(f, kb, reply, f[i].principle_id)
      BY <2>1 DEF Inject
    <3> DEFINE drafted == Drafted(f, kb, reply, f[i].principle_id)
    <3>2. /\ drafted \in Requirement
          /\ drafted.principle_id = f[i].principle_id
          /\ drafted.citations # {}
          /\ drafted.citations \subseteq {f[i].principle_id} \cup kb
      BY DraftedTypes, Zenon
    <3> HIDE DEF drafted
    <3>3. QED
      BY <3>1, <3>2 DEF drafted
  <2>2. CASE Drafts(f, reply, f[i].principle_id) = {}
    <3>1. Inject(f, kb, reply)[i] = Fallback(f[i], kb)
      BY <2>2 DEF Inject
    <3>2. QED
      BY <3>1, FallbackTypes
  <2>3. QED
    BY <2>1, <2>2
<1>3. QED
  BY <1>1, <1>2

----------------------------------------------------------------------------
(* The rules of the hand-off (_review_payload.py:45-98).                   *)

\* The order of the severities (_review_payload.py:29-34).
LEMMA SeverityRanks ==
    /\ SeverityRank("low") = 0 /\ SeverityRank("medium") = 1
    /\ SeverityRank("high") = 2 /\ SeverityRank("critical") = 3
BY DEF SeverityRank

\* Among the severities of open findings one is the most severe.
LEMMA MostSevere ==
    ASSUME NEW open, open \subseteq Severity, open # {}
    PROVE  \E s \in open : \A t \in open : SeverityRank(t) <= SeverityRank(s)
<1>1. CASE "critical" \in open
  BY <1>1, SeverityRanks DEF Severity
<1>2. CASE "critical" \notin open /\ "high" \in open
  BY <1>2, SeverityRanks DEF Severity
<1>3. CASE "critical" \notin open /\ "high" \notin open /\ "medium" \in open
  BY <1>3, SeverityRanks DEF Severity
<1>4. CASE "critical" \notin open /\ "high" \notin open /\ "medium" \notin open
  <2>1. \A t \in open : t = "low"
    BY <1>4 DEF Severity
  <2>2. QED
    BY <2>1, SeverityRanks
<1>5. QED
  BY <1>1, <1>2, <1>3, <1>4

\* A failed principle makes the review high, and so does an open high finding.
LEMMA OverallSeverityFacts ==
    ASSUME NEW f, IsFindings(f)
    PROVE  /\ OverallSeverity(f) \in Severity
           /\ ~Passed(f) => OverallSeverity(f) \in HighSeverity
           /\ (\E i \in Unmet(f) : f[i].severity \in HighSeverity)
                  => OverallSeverity(f) \in HighSeverity
<1> DEFINE open == OpenSeverities(f)
           most == IF open = {} THEN "low"
                   ELSE CHOOSE s \in open : \A t \in open : SeverityRank(t) <= SeverityRank(s)
<1>1. open \subseteq Severity
  BY DEF OpenSeverities, Unmet, IsFindings, Finding
<1>2. open # {} => most \in open /\ \A t \in open : SeverityRank(t) <= SeverityRank(most)
  BY <1>1, MostSevere
<1>3. most \in Severity
  BY <1>1, <1>2 DEF Severity
<1>4. OverallSeverity(f) = IF Passed(f) THEN most ELSE HigherOf(most, "high")
  BY DEF OverallSeverity
<1>5. \A s \in open : s \in HighSeverity => most \in HighSeverity
  <2> HIDE DEF open, most
  <2>1. QED
    BY <1>1, <1>2, <1>3, SeverityRanks DEF Severity, HighSeverity
<1>6. \A i \in Unmet(f) : f[i].severity \in open
  BY DEF OpenSeverities
<1> HIDE DEF open, most
<1>7. HigherOf(most, "high") \in HighSeverity
  BY <1>3, SeverityRanks DEF HigherOf, Severity, HighSeverity
<1>8. QED
  BY <1>3, <1>4, <1>5, <1>6, <1>7 DEF HighSeverity, Severity

\* A report audited as ESCALATED, or with an open high risk, is handed over as a
\* high review that two people must approve (_review_payload.py:45-98).
LEMMA DualControlRule ==
    ASSUME NEW f, IsFindings(f)
    PROVE  /\ Approvals(f) \in {1, 2}
           /\ RequiresReviewOnRisk(f) => Approvals(f) = 2
           /\ AuditDecision(f) = "ESCALATED"
                  => Approvals(f) = 2 /\ OverallSeverity(f) \in HighSeverity
<1>1. (\E i \in Unmet(f) : f[i].status = "FAIL") => ~Passed(f)
  BY DEF Passed, Unmet
<1>2. QED
  BY <1>1, OverallSeverityFacts DEF Approvals, RequiresReviewOnRisk, AuditDecision

----------------------------------------------------------------------------
(* Every step keeps every variable well typed.                             *)

\* The type invariant by parts: where each request is and what it asked,
CoreTypes ==
    /\ deployment \in [profile : Profile, routing : BOOLEAN]
    /\ request \in [Request -> [submission : Submissions, actor : Actor, tenant : Tenant]]
    /\ pc \in [Request -> Working \cup {"idle", "done", "error", "lost"}]

\* what it was found to have,
FindingsTypes ==
    /\ findings = [r \in Request |-> findings[r]]
    /\ \A r \in Request : IsFindings(findings[r])

\* the requirements its report carries,
InjectedTypes ==
    /\ injected = [r \in Request |-> injected[r]]
    /\ \A r \in Request : \A i \in DOMAIN injected[r] : injected[r][i] \in Requirement

\* what was retrieved and scanned for it,
ContextTypes ==
    /\ sources \in [Request -> SUBSET Source]
    /\ scan \in [Request -> [passed : BOOLEAN, review : BOOLEAN, sources : SUBSET Source]]

\* what its worker saw of the hand-off and told the caller,
OutcomeTypes ==
    /\ outcomes \in [Request -> SUBSET Routing]
    /\ answer \in [Request -> Routing \cup {"none"}]

\* and what the trail, the console and the wire hold.
SinkTypes ==
    /\ trail \in Seq(Record)
    /\ console \in Seq(Review)
    /\ inflight \subseteq Review

\* The parts make up the type invariant.
LEMMA TypesByPart ==
    TypeOK <=> /\ CoreTypes /\ FindingsTypes /\ InjectedTypes
               /\ ContextTypes /\ OutcomeTypes /\ SinkTypes
BY DEF TypeOK, CoreTypes, FindingsTypes, InjectedTypes, ContextTypes, OutcomeTypes, SinkTypes

\* Moving a request to a known stage keeps the stages typed.
LEMMA GotoTypes ==
    ASSUME CoreTypes, NEW r \in Request, NEW from, NEW to, Goto(r, from, to),
           to \in Working \cup {"idle", "done", "error", "lost"}
    PROVE  CoreTypes'
BY DEF CoreTypes, Goto

\* The trail stays a list of records when one is appended,
LEMMA RecordedTypes ==
    ASSUME SinkTypes, NEW record \in Record, Recorded(record)
    PROVE  SinkTypes'
BY DEF SinkTypes, Recorded

\* the console a list of reviews when one is accepted,
LEMMA StoredTypes ==
    ASSUME SinkTypes, NEW review \in Review, Stored(review)
    PROVE  SinkTypes'
BY DEF SinkTypes, Stored

\* the wire a set of reviews when one is left on it,
LEMMA TimedOutTypes ==
    ASSUME SinkTypes, NEW review \in Review, TimedOut(review)
    PROVE  SinkTypes'
BY DEF SinkTypes, TimedOut

\* and all three when nothing reaches them.
LEMMA IdleSinks ==
    ASSUME SinkTypes, UNCHANGED sinks
    PROVE  SinkTypes'
BY DEF SinkTypes, sinks

\* What goes to a sink is a record or a review, for the caller or the service.
LEMMA SubmittedTypes ==
    ASSUME CoreTypes, FindingsTypes, NEW r \in Request
    PROVE  /\ IntakeRecord(r) \in Record
           /\ IntakeReview(r) \in Review
           /\ ScanReview(r) \in Review
           /\ [kind |-> "scan", request |-> r, actor |-> ServiceActor,
               decision |-> ScanDecision(scan[r])] \in Record
<1>1. request[r].actor \in Actor /\ request[r].tenant \in Tenant
  BY DEF CoreTypes
<1>2. IsFindings(findings[r])
  BY DEF FindingsTypes
<1>3. /\ OverallSeverity(findings[r]) \in Severity
      /\ Approvals(findings[r]) \in {1, 2}
  BY <1>2, OverallSeverityFacts, DualControlRule
<1>4. AuditDecision(findings[r]) \in Decision /\ ScanDecision(scan[r]) \in Decision
  BY DEF AuditDecision, ScanDecision, Decision
<1>5. IntakeRecord(r) \in Record
  BY <1>1, <1>4 DEF IntakeRecord, Record
<1>6. IntakeReview(r) \in Review
  BY <1>1, <1>3 DEF IntakeReview, Review
<1>7. ScanReview(r) \in Review
  BY DEF ScanReview, Review, Severity
<1>8. [kind |-> "scan", request |-> r, actor |-> ServiceActor,
       decision |-> ScanDecision(scan[r])] \in Record
  BY <1>4 DEF Record
<1>9. QED
  BY <1>5, <1>6, <1>7, <1>8

\* Replacing one request's findings by well-formed ones keeps them all well formed.
LEMMA FindingsStep ==
    ASSUME FindingsTypes, NEW r \in Request, NEW f, IsFindings(f),
           findings' = [findings EXCEPT ![r] = f]
    PROVE  FindingsTypes'
<1>1. /\ findings' = [q \in Request |-> findings'[q]]
      /\ \A q \in Request : findings'[q] = IF q = r THEN f ELSE findings[q]
  BY DEF FindingsTypes
<1>2. \A q \in Request : IsFindings(findings'[q])
  BY <1>1 DEF FindingsTypes
<1>3. QED
  BY <1>1, <1>2 DEF FindingsTypes

\* A service that just started is well typed.
LEMMA TypesInit == Init => TypeOK
<1> SUFFICES ASSUME Init PROVE TypeOK
  OBVIOUS
<1>1. CoreTypes
  BY DEF Init, CoreTypes
<1>2. IsFindings(<< >>)
  <2>1. DOMAIN << >> = {}
    OBVIOUS
  <2>2. << >> = [i \in DOMAIN << >> |-> << >>[i]]
    OBVIOUS
  <2>3. QED
    BY <2>1, <2>2, FS_EmptySet DEF IsFindings
<1>3. FindingsTypes
  BY <1>2 DEF Init, FindingsTypes
<1>4. InjectedTypes
  BY DEF Init, InjectedTypes
<1>5. ContextTypes
  BY DEF Init, ContextTypes, NoScan
<1>6. OutcomeTypes
  BY DEF Init, OutcomeTypes
<1>7. SinkTypes
  BY DEF Init, SinkTypes
<1>8. QED
  BY <1>1, <1>3, <1>4, <1>5, <1>6, <1>7, TypesByPart

\* Whatever a worker does next, what the service holds is well typed.
LEMMA TypesUnderStep ==
    ASSUME TypeOK, NEW r \in Request, Step(r)
    PROVE  TypeOK'
<1>0. /\ CoreTypes /\ FindingsTypes /\ InjectedTypes
      /\ ContextTypes /\ OutcomeTypes /\ SinkTypes
  BY TypesByPart
<1> DEFINE Goal == /\ CoreTypes' /\ FindingsTypes' /\ InjectedTypes'
                   /\ ContextTypes' /\ OutcomeTypes' /\ SinkTypes'
<1>1. \A from : \A to \in Working \cup {"idle", "done", "error", "lost"} :
          Goto(r, from, to) => CoreTypes'
  BY <1>0, GotoTypes
<1>2. UNCHANGED findings => FindingsTypes'
  BY <1>0 DEF FindingsTypes
<1>3. UNCHANGED injected => InjectedTypes'
  BY <1>0 DEF InjectedTypes
<1>4. UNCHANGED <<sources, scan>> => ContextTypes'
  BY <1>0 DEF ContextTypes
<1>5. UNCHANGED <<outcomes, answer>> => OutcomeTypes'
  BY <1>0 DEF OutcomeTypes
<1>6. UNCHANGED sinks => SinkTypes'
  BY <1>0, IdleSinks
<1>7. /\ IntakeRecord(r) \in Record /\ IntakeReview(r) \in Review /\ ScanReview(r) \in Review
      /\ [kind |-> "scan", request |-> r, actor |-> ServiceActor,
          decision |-> ScanDecision(scan[r])] \in Record
  BY <1>0, SubmittedTypes
<1>8. IsFindings(findings[r]) /\ sources[r] \in SUBSET Source
  BY <1>0 DEF FindingsTypes, ContextTypes
<1>9. ASSUME Accept(r) \/ TracerFails(r) \/ EvaluateRaises(r) \/ NothingUnmet(r) PROVE Goal
  BY <1>9, <1>1, <1>2, <1>3, <1>4, <1>5, <1>6
     DEF Accept, TracerFails, EvaluateRaises, NothingUnmet, work, Working
<1>10. ASSUME EvaluateLocally(r) PROVE Goal
  <2>1. FindingsTypes'
    BY <1>10, <1>0, EvaluatorTypes, FindingsStep DEF EvaluateLocally
  <2>2. QED
    BY <2>1, <1>10, <1>1, <1>3, <1>4, <1>5, <1>6 DEF EvaluateLocally, Working
<1>11. ASSUME EvaluateRemotely(r) PROVE Goal
  <2>1. PICK a \in OpaAnswers \cup {BundleAnswer(request[r].submission, AllowedRegions)} :
            /\ ~RaisesOther(a)
            /\ findings' = [findings EXCEPT ![r] = OpaFindings(request[r].submission, a)]
    BY <1>11 DEF EvaluateRemotely
  <2>2. IsFindings(OpaFindings(request[r].submission, a))
    BY <2>1, CollaboratorAssumption, OpaFindingsTypes
  <2>3. FindingsTypes'
    BY <2>1, <2>2, <1>0, FindingsStep
  <2>4. QED
    BY <2>3, <1>11, <1>1, <1>3, <1>4, <1>5, <1>6 DEF EvaluateRemotely, Working
<1>12. ASSUME GatherContext(r) \/ AskResidency(r) \/ StartScan(r) PROVE Goal
  <2>1. ContextTypes'
    BY <1>12, <1>0, CollaboratorAssumption
       DEF GatherContext, AskResidency, StartScan, ContextTypes
  <2>2. QED
    BY <2>1, <1>12, <1>1, <1>2, <1>3, <1>5, <1>6
       DEF GatherContext, AskResidency, StartScan, Working
<1>13. ASSUME ScanAudit(r) PROVE Goal
  <2>1. SinkTypes'
    BY <1>13, <1>0, <1>6, <1>7, RecordedTypes DEF ScanAudit
  <2>2. QED
    BY <2>1, <1>13, <1>1, <1>2, <1>3, <1>4, <1>5 DEF ScanAudit, work, Working
<1>14. ASSUME ScanRoute(r) PROVE Goal
  <2>1. SinkTypes'
    BY <1>14, <1>0, <1>6, <1>7, StoredTypes, TimedOutTypes DEF ScanRoute
  <2>2. ContextTypes'
    BY <1>14, <1>0 DEF ScanRoute, ContextTypes
  <2>3. QED
    BY <2>1, <2>2, <1>14, <1>1, <1>2, <1>3, <1>5 DEF ScanRoute, Working
<1>15. ASSUME InjectAndAssemble(r) PROVE Goal
  <2>1. PICK reply \in ModelReplies :
            injected' = [injected EXCEPT ![r] = Inject(findings[r], sources[r], reply)]
    BY <1>15 DEF InjectAndAssemble
  <2>2. \A i \in DOMAIN Inject(findings[r], sources[r], reply) :
            Inject(findings[r], sources[r], reply)[i] \in Requirement
    BY <1>8, InjectFacts
  <2>3. InjectedTypes'
    BY <2>1, <2>2, <1>0 DEF InjectedTypes
  <2>4. QED
    BY <2>3, <1>15, <1>1, <1>2, <1>4, <1>5, <1>6 DEF InjectAndAssemble, Working
<1>16. ASSUME AuditReport(r) PROVE Goal
  <2>1. SinkTypes'
    BY <1>16, <1>0, <1>6, <1>7, RecordedTypes DEF AuditReport
  <2>2. QED
    BY <2>1, <1>16, <1>1, <1>2, <1>3, <1>4, <1>5 DEF AuditReport, work, Working
<1>17. ASSUME Route(r) PROVE Goal
  <2>1. \E outcome \in Routing : Saw(r, outcome)
    BY <1>17 DEF Route, RouteOff, RouteStored, RouteFailed, RequiresReview, Routing
  <2>2. OutcomeTypes'
    BY <2>1, <1>17, <1>0 DEF Route, Saw, OutcomeTypes
  <2>3. SinkTypes'
    BY <1>17, <1>0, <1>6, <1>7, StoredTypes, TimedOutTypes
       DEF Route, RouteOff, RouteStored, RouteFailed
  <2>4. QED
    BY <2>2, <2>3, <1>17, <1>1, <1>2, <1>3, <1>4 DEF Route, Working
<1>18. ASSUME Respond(r) PROVE Goal
  <2>1. Outcome(outcomes[r]) \in Routing
    BY DEF Outcome, Routing
  <2>2. OutcomeTypes'
    BY <2>1, <1>18, <1>0 DEF Respond, OutcomeTypes
  <2>3. QED
    BY <2>2, <1>18, <1>1, <1>2, <1>3, <1>4, <1>6 DEF Respond, Working
<1>19. Goal
  BY <1>9, <1>10, <1>11, <1>12, <1>13, <1>14, <1>15, <1>16, <1>17, <1>18 DEF Step
<1>20. QED
  BY <1>19 DEF TypeOK, CoreTypes, FindingsTypes, InjectedTypes, ContextTypes,
               OutcomeTypes, SinkTypes

\* So it is after a late review arrives at the console, and after a crash.
LEMMA TypesUnderNext == TypeOK /\ [Next]_vars => TypeOK'
<1> SUFFICES ASSUME TypeOK, [Next]_vars PROVE TypeOK'
  OBVIOUS
<1>0. /\ CoreTypes /\ FindingsTypes /\ InjectedTypes
      /\ ContextTypes /\ OutcomeTypes /\ SinkTypes
  BY TypesByPart
<1>1. ASSUME UNCHANGED work PROVE FindingsTypes' /\ InjectedTypes' /\ ContextTypes' /\ OutcomeTypes'
  BY <1>0, <1>1 DEF work, FindingsTypes, InjectedTypes, ContextTypes, OutcomeTypes
<1>2. ASSUME NEW r \in Request, Step(r) PROVE TypeOK'
  BY <1>2, TypesUnderStep
<1>3. ASSUME NEW review \in inflight, LateArrival(review) PROVE TypeOK'
  <2>1. CoreTypes' /\ UNCHANGED work
    BY <1>3, <1>0 DEF LateArrival, CoreTypes
  <2>2. SinkTypes'
    BY <1>3, <1>0 DEF LateArrival, SinkTypes
  <2>3. QED
    BY <2>1, <2>2, <1>1 DEF TypeOK, CoreTypes, FindingsTypes, InjectedTypes, ContextTypes,
                            OutcomeTypes, SinkTypes
<1>4. ASSUME Crash PROVE TypeOK'
  <2>1. CoreTypes' /\ UNCHANGED work
    BY <1>4, <1>0 DEF Crash, CoreTypes
  <2>2. SinkTypes'
    BY <1>4, <1>0 DEF Crash, SinkTypes
  <2>3. QED
    BY <2>1, <2>2, <1>1 DEF TypeOK, CoreTypes, FindingsTypes, InjectedTypes, ContextTypes,
                            OutcomeTypes, SinkTypes
<1>5. ASSUME UNCHANGED vars PROVE TypeOK'
  <2>1. CoreTypes' /\ UNCHANGED work /\ SinkTypes'
    BY <1>5, <1>0, IdleSinks DEF vars, CoreTypes
  <2>2. QED
    BY <2>1, <1>1 DEF TypeOK, CoreTypes, FindingsTypes, InjectedTypes, ContextTypes,
                      OutcomeTypes, SinkTypes
<1>6. QED
  BY <1>2, <1>3, <1>4, <1>5 DEF Next, Finished

\* Whatever its collaborators send back, the pipeline holds only known verdicts,
\* requirements, records and reviews (validation_service.py:110-159).
THEOREM PipelineTypes == Spec => []TypeOK
<1>1. Init => TypeOK
  BY TypesInit
<1>2. TypeOK /\ [Next]_vars => TypeOK'
  BY TypesUnderNext
<1>3. QED
  BY <1>1, <1>2, PTL DEF Spec

----------------------------------------------------------------------------
(* The inductive invariant of the hand-off. What a sink holds of a request *)
(* is a function of the request and its findings, which no later step      *)
(* changes; what a request may still do depends on how far it got.         *)

\* The stages before a verdict,
Undecided == {"idle", "evaluate", "error"}

\* before the audit record,
Unrecorded ==
    Undecided \cup {"context", "residency", "scan_audit", "scan_route", "inject", "audit"}

\* and before the hand-off.
Unrouted == Unrecorded \cup {"route"}

\* The records and reviews of reports, as opposed to those of nested scans.
IsIntake(x) == x.kind = "intake"

\* Nothing is known of an undecided request, by its worker or by a sink.
UndecidedIsUnknown ==
    \A r \in Request : pc[r] \in Undecided =>
        /\ DOMAIN findings[r] = {}
        /\ \A k \in DOMAIN trail : trail[k].request # r
        /\ \A review \in HandedOver : review.request # r

\* A request past its evaluation has a verdict: a report never lacks findings.
DecidedHasFindings ==
    \A r \in Request : pc[r] \notin Undecided \cup {"lost"} => DOMAIN findings[r] # {}

\* What the trail says of a request is what the request's findings say, and it was
\* written by a worker that got past its audit step.
TrailIsTrue ==
    \A k \in DOMAIN trail : IsIntake(trail[k]) =>
        /\ trail[k] = IntakeRecord(trail[k].request)
        /\ pc[trail[k].request] \notin Unrecorded

\* No report is recorded twice.
RecordedOnce ==
    \A j, k \in DOMAIN trail :
        (IsIntake(trail[j]) /\ IsIntake(trail[k]) /\ trail[j].request = trail[k].request) => j = k

\* What the console holds, or may yet get, of a request is the review its findings
\* call for, from a worker that got as far as routing it.
ReviewsAreTrue ==
    \A review \in HandedOver : IsIntake(review) =>
        /\ deployment.routing
        /\ review = IntakeReview(review.request)
        /\ pc[review.request] \notin Unrouted
        /\ DOMAIN findings[review.request] # {}

\* No report is queued twice, nor queued while a copy is still under way.
QueuedOnce ==
    /\ \A j, k \in DOMAIN console :
           (IsIntake(console[j]) /\ IsIntake(console[k])
               /\ console[j].request = console[k].request) => j = k
    /\ \A k \in DOMAIN console, late \in inflight :
           (IsIntake(console[k]) /\ IsIntake(late)) => console[k].request # late.request

\* A review is late only if its caller was told so, or nothing at all.
LateIsFailed ==
    \A late \in inflight : IsIntake(late) =>
        pc[late.request] = "lost" \/ outcomes[late.request] = {"failed"}

\* What a worker saw of its hand-off.
SawTheOutcome ==
    \A r \in Request :
        /\ pc[r] \in Unrouted => outcomes[r] = {}
        /\ pc[r] # "done" => answer[r] = "none"
        /\ pc[r] \in {"respond", "done"} =>
               \E outcome \in {"routed", "failed", "off"} :
                   /\ outcomes[r] = {outcome}
                   /\ pc[r] = "done" => answer[r] = outcome
                   /\ (outcome = "routed" /\ deployment.profile # "local") => ReviewsOf(r) # {}
                   /\ outcome = "off" => ~deployment.routing

\* The inductive invariant.
HandoffInv ==
    /\ UndecidedIsUnknown /\ DecidedHasFindings
    /\ TrailIsTrue /\ RecordedOnce
    /\ ReviewsAreTrue /\ QueuedOnce /\ LateIsFailed
    /\ SawTheOutcome

\* Appending keeps every entry at its place and adds one behind them.
LEMMA Appended ==
    ASSUME NEW S, NEW s \in Seq(S), NEW e \in S
    PROVE  /\ \A k \in DOMAIN s : k \in DOMAIN Append(s, e) /\ Append(s, e)[k] = s[k]
           /\ \A k \in DOMAIN Append(s, e) : k \in DOMAIN s \/ k = Len(s) + 1
           /\ Len(s) + 1 \in DOMAIN Append(s, e)
           /\ Len(s) + 1 \notin DOMAIN s
           /\ Append(s, e)[Len(s) + 1] = e
BY AppendProperties

\* What was handed over changes only with the console and the wire:
LEMMA HandedOverKept == UNCHANGED <<console, inflight>> => HandedOver' = HandedOver
BY DEF HandedOver

\* a stored review was handed over,
LEMMA HandedOverStored ==
    ASSUME SinkTypes, NEW review \in Review, Stored(review)
    PROVE  HandedOver' = HandedOver \cup {review}
<1>1. console \in Seq(Review) /\ console' = Append(console, review) /\ inflight' = inflight
  BY DEF SinkTypes, Stored
<1>2. {console'[k] : k \in DOMAIN console'}
          = {console[k] : k \in DOMAIN console} \cup {review}
  BY <1>1, Appended
<1>3. QED
  BY <1>1, <1>2 DEF HandedOver

\* so was one whose caller stopped waiting,
LEMMA HandedOverTimedOut ==
    ASSUME NEW review, TimedOut(review)
    PROVE  HandedOver' = HandedOver \cup {review}
BY DEF HandedOver, TimedOut

\* and a late arrival only moves it from the wire to the queue.
LEMMA HandedOverLate ==
    ASSUME SinkTypes, NEW review \in inflight, LateArrival(review)
    PROVE  HandedOver' = HandedOver
<1>1. /\ console \in Seq(Review) /\ review \in Review
      /\ console' = Append(console, review) /\ inflight' = inflight \ {review}
  BY DEF SinkTypes, LateArrival
<1>2. {console'[k] : k \in DOMAIN console'}
          = {console[k] : k \in DOMAIN console} \cup {review}
  BY <1>1, Appended
<1>3. QED
  BY <1>1, <1>2 DEF HandedOver

\* Everything a sink holds belongs to a request, and what is queued or under way was
\* handed over.
LEMMA SinkFacts ==
    ASSUME SinkTypes
    PROVE  /\ \A k \in DOMAIN trail : trail[k].request \in Request
           /\ \A k \in DOMAIN console : console[k].request \in Request /\ console[k] \in HandedOver
           /\ \A late \in inflight : late.request \in Request /\ late \in HandedOver
           /\ \A review \in HandedOver : review.request \in Request
<1>1. /\ \A k \in DOMAIN trail : trail[k] \in Record
      /\ \A k \in DOMAIN console : console[k] \in Review
      /\ inflight \subseteq Review
  BY DEF SinkTypes
<1>2. HandedOver = {console[k] : k \in DOMAIN console} \cup inflight
  BY DEF HandedOver
<1>3. \A record \in Record : record.request \in Request
  BY DEF Record
<1>4. \A review \in Review : review.request \in Request
  BY DEF Review
<1>5. QED
  BY <1>1, <1>2, <1>3, <1>4

\* The stages of a request, spelled out.
LEMMA Stages ==
    /\ \A stage : stage \in Undecided => stage \in Unrecorded
    /\ \A stage : stage \in Unrecorded => stage \in Unrouted
    /\ \A stage \in {"route", "respond", "done", "lost"} : stage \notin Unrecorded
    /\ \A stage \in {"respond", "done", "lost"} : stage \notin Unrouted
BY DEF Undecided, Unrecorded, Unrouted

\* A step of r that touches no sink.
LEMMA QuietStep ==
    ASSUME HandoffInv, CoreTypes, SinkTypes, NEW r \in Request, NEW from, NEW to, Goto(r, from, to),
           from \in Unrecorded, to \in Unrouted, from \in Undecided <=> to \in Undecided,
           UNCHANGED <<findings, outcomes, answer, sinks>>
    PROVE  HandoffInv'
<1>1. /\ pc[r] = from
      /\ \A q \in Request : pc'[q] = IF q = r THEN to ELSE pc[q]
      /\ UNCHANGED <<deployment, request>>
  BY DEF Goto, CoreTypes
<1>2. UNCHANGED <<trail, console, inflight, findings, outcomes, answer>> /\ HandedOver' = HandedOver
  BY HandedOverKept DEF sinks
<1>3. \A q \in Request : IntakeRecord(q)' = IntakeRecord(q) /\ IntakeReview(q)' = IntakeReview(q)
  BY <1>1, <1>2 DEF IntakeRecord, IntakeReview
<1>4. UndecidedIsUnknown' /\ DecidedHasFindings'
  BY <1>1, <1>2, Stages DEF HandoffInv, UndecidedIsUnknown, DecidedHasFindings
<1>5. TrailIsTrue'
  BY <1>1, <1>2, <1>3, SinkFacts DEF HandoffInv, TrailIsTrue, IsIntake
<1>6. RecordedOnce' /\ QueuedOnce'
  BY <1>2 DEF HandoffInv, RecordedOnce, QueuedOnce, IsIntake
<1>7. ReviewsAreTrue'
  BY <1>1, <1>2, <1>3, Stages, SinkFacts DEF HandoffInv, ReviewsAreTrue, IsIntake
<1>8. LateIsFailed'
  BY <1>1, <1>2, Stages, SinkFacts DEF HandoffInv, LateIsFailed, ReviewsAreTrue, IsIntake
<1>9. SawTheOutcome'
  BY <1>1, <1>2, Stages DEF HandoffInv, SawTheOutcome, ReviewsOf
<1>10. QED
  BY <1>4, <1>5, <1>6, <1>7, <1>8, <1>9 DEF HandoffInv

\* The findings of a request are set once, before anything was said of it.
LEMMA VerdictStep ==
    ASSUME HandoffInv, CoreTypes, FindingsTypes, SinkTypes, NEW r \in Request,
           Goto(r, "evaluate", "context"), NEW f, DOMAIN f # {},
           findings' = [findings EXCEPT ![r] = f], UNCHANGED <<outcomes, answer, sinks>>
    PROVE  HandoffInv'
<1>1. /\ pc[r] = "evaluate"
      /\ \A q \in Request : pc'[q] = IF q = r THEN "context" ELSE pc[q]
      /\ \A q \in Request : findings'[q] = IF q = r THEN f ELSE findings[q]
      /\ UNCHANGED <<deployment, request>>
  BY DEF Goto, CoreTypes, FindingsTypes
<1>2. UNCHANGED <<trail, console, inflight, outcomes, answer>> /\ HandedOver' = HandedOver
  BY HandedOverKept DEF sinks
<1>3. /\ \A k \in DOMAIN trail : trail[k].request # r
      /\ \A review \in HandedOver : review.request # r
  BY <1>1 DEF HandoffInv, UndecidedIsUnknown, Undecided
<1>4. \A q \in Request \ {r} :
          IntakeRecord(q)' = IntakeRecord(q) /\ IntakeReview(q)' = IntakeReview(q)
  BY <1>1 DEF IntakeRecord, IntakeReview
<1>5. UndecidedIsUnknown' /\ DecidedHasFindings'
  BY <1>1, <1>2 DEF HandoffInv, UndecidedIsUnknown, DecidedHasFindings, Undecided
<1>6. TrailIsTrue'
  BY <1>1, <1>2, <1>3, <1>4, SinkFacts DEF HandoffInv, TrailIsTrue, IsIntake
<1>7. RecordedOnce' /\ QueuedOnce'
  BY <1>2 DEF HandoffInv, RecordedOnce, QueuedOnce, IsIntake
<1>8. ReviewsAreTrue'
  BY <1>1, <1>2, <1>3, <1>4, SinkFacts DEF HandoffInv, ReviewsAreTrue, IsIntake
<1>9. LateIsFailed'
  BY <1>1, <1>2, <1>3, SinkFacts DEF HandoffInv, LateIsFailed, IsIntake
<1>10. "evaluate" \in Unrouted
  BY DEF Unrouted, Unrecorded, Undecided
<1>11. SawTheOutcome'
  BY <1>1, <1>2, <1>10 DEF HandoffInv, SawTheOutcome, ReviewsOf
<1>12. QED
  BY <1>5, <1>6, <1>7, <1>8, <1>9, <1>11 DEF HandoffInv

\* A record on the trail: of the nested scan, or of the report.
LEMMA RecordStep ==
    ASSUME HandoffInv, CoreTypes, SinkTypes, NEW r \in Request,
           NEW from, NEW to, Goto(r, from, to),
           from \in Unrecorded \ Undecided, to \in Unrouted \ Undecided,
           NEW record \in Record, Recorded(record), record.request = r,
           IsIntake(record) => record = IntakeRecord(r) /\ to = "route",
           UNCHANGED <<findings, outcomes, answer>>
    PROVE  HandoffInv'
<1>1. /\ pc[r] = from
      /\ \A q \in Request : pc'[q] = IF q = r THEN to ELSE pc[q]
      /\ UNCHANGED <<deployment, request>>
  BY DEF Goto, CoreTypes
<1>2. UNCHANGED <<console, inflight>> /\ HandedOver' = HandedOver
  BY HandedOverKept DEF Recorded
<1>3. \A q \in Request : IntakeRecord(q)' = IntakeRecord(q) /\ IntakeReview(q)' = IntakeReview(q)
  BY <1>1 DEF IntakeRecord, IntakeReview
<1>4. trail \in Seq(Record) /\ trail' = Append(trail, record)
  BY DEF SinkTypes, Recorded
<1>5. /\ \A k \in DOMAIN trail' : \/ k \in DOMAIN trail /\ trail'[k] = trail[k]
                                  \/ k = Len(trail) + 1 /\ trail'[k] = record
  BY <1>4, Appended
<1>6. \A k \in DOMAIN trail : IsIntake(trail[k]) => trail[k].request # r
  BY <1>1, SinkFacts DEF HandoffInv, TrailIsTrue
<1>7. UndecidedIsUnknown' /\ DecidedHasFindings'
  <2>1. \A q \in Request : pc'[q] \in Undecided => q # r /\ pc[q] \in Undecided
    BY <1>1
  <2>2. \A q \in Request : pc'[q] \notin Undecided \cup {"lost"}
                           => q = r \/ pc[q] \notin Undecided \cup {"lost"}
    BY <1>1
  <2>3. DOMAIN findings[r] # {}
    BY <1>1 DEF HandoffInv, DecidedHasFindings, Unrecorded, Undecided
  <2>4. UndecidedIsUnknown'
    BY <2>1, <1>2, <1>5 DEF HandoffInv, UndecidedIsUnknown
  <2>5. DecidedHasFindings'
    BY <2>2, <2>3 DEF HandoffInv, DecidedHasFindings
  <2>6. QED
    BY <2>4, <2>5
<1>8. TrailIsTrue'
  BY <1>1, <1>3, <1>5, <1>6, SinkFacts, Stages DEF HandoffInv, TrailIsTrue, IsIntake
<1>9. RecordedOnce'
  BY <1>5, <1>6 DEF HandoffInv, RecordedOnce, IsIntake
<1>10. QueuedOnce'
  BY <1>2 DEF HandoffInv, QueuedOnce, IsIntake
<1>11. ReviewsAreTrue'
  BY <1>1, <1>2, <1>3, Stages, SinkFacts DEF HandoffInv, ReviewsAreTrue, IsIntake
<1>12. LateIsFailed'
  BY <1>1, <1>2, Stages, SinkFacts DEF HandoffInv, LateIsFailed, ReviewsAreTrue, IsIntake
<1>13. SawTheOutcome'
  BY <1>1, <1>2, Stages DEF HandoffInv, SawTheOutcome, ReviewsOf
<1>14. QED
  BY <1>7, <1>8, <1>9, <1>10, <1>11, <1>12, <1>13 DEF HandoffInv

\* How the console grows when a review is stored.
LEMMA ConsoleStored ==
    ASSUME SinkTypes, NEW review \in Review, Stored(review)
    PROVE  /\ UNCHANGED <<trail, inflight>>
           /\ \A k \in DOMAIN console : k \in DOMAIN console' /\ console'[k] = console[k]
           /\ \A k \in DOMAIN console' : \/ k \in DOMAIN console /\ console'[k] = console[k]
                                         \/ k = Len(console) + 1 /\ console'[k] = review
           /\ \E k \in DOMAIN console' : console'[k] = review
<1>1. console \in Seq(Review) /\ console' = Append(console, review)
  BY DEF SinkTypes, Stored
<1>2. QED
  BY <1>1, Appended DEF Stored

\* The hand-off of the nested scan.
LEMMA ScanReviewStep ==
    ASSUME HandoffInv, CoreTypes, SinkTypes, NEW r \in Request,
           NEW from, NEW to, Goto(r, from, to),
           from \in Unrecorded \ Undecided, to \in Unrecorded \ Undecided,
           NEW review \in Review, Stored(review) \/ TimedOut(review),
           review.request = r, ~IsIntake(review), UNCHANGED <<findings, outcomes, answer>>
    PROVE  HandoffInv'
<1>1. /\ pc[r] = from
      /\ \A q \in Request : pc'[q] = IF q = r THEN to ELSE pc[q]
      /\ UNCHANGED <<deployment, request>>
  BY DEF Goto, CoreTypes
<1>2. UNCHANGED trail /\ HandedOver' = HandedOver \cup {review}
  BY HandedOverStored, HandedOverTimedOut DEF Stored, TimedOut
<1>3. \A q \in Request : IntakeRecord(q)' = IntakeRecord(q) /\ IntakeReview(q)' = IntakeReview(q)
  BY <1>1 DEF IntakeRecord, IntakeReview
<1>4. \A k \in DOMAIN console : k \in DOMAIN console' /\ console'[k] = console[k]
  BY ConsoleStored DEF TimedOut
<1>5. \A k \in DOMAIN console' : \/ k \in DOMAIN console /\ console'[k] = console[k]
                                \/ console'[k] = review
  BY ConsoleStored DEF TimedOut
<1>6. \A late \in inflight' : late \in inflight \/ late = review
  BY DEF Stored, TimedOut
<1>7. \A q \in Request : pc'[q] \in Undecided => q # r /\ pc[q] \in Undecided
  BY <1>1
<1>8. UndecidedIsUnknown'
  BY <1>2, <1>7 DEF HandoffInv, UndecidedIsUnknown
<1>9. DecidedHasFindings'
  <2>1. DOMAIN findings[r] # {}
    BY <1>1 DEF HandoffInv, DecidedHasFindings, Unrecorded, Undecided
  <2>2. QED
    BY <1>1, <2>1 DEF HandoffInv, DecidedHasFindings
<1>10. TrailIsTrue'
  BY <1>1, <1>2, <1>3, SinkFacts DEF HandoffInv, TrailIsTrue, IsIntake
<1>11. RecordedOnce'
  BY <1>2 DEF HandoffInv, RecordedOnce, IsIntake
<1>12. QueuedOnce'
  BY <1>5, <1>6 DEF HandoffInv, QueuedOnce, IsIntake
<1>13. ReviewsAreTrue'
  BY <1>1, <1>2, <1>3, Stages, SinkFacts DEF HandoffInv, ReviewsAreTrue, IsIntake
<1>14. LateIsFailed'
  BY <1>1, <1>6, Stages, SinkFacts DEF HandoffInv, LateIsFailed, ReviewsAreTrue, IsIntake
<1>15. SawTheOutcome'
  BY <1>1, <1>4, Stages DEF HandoffInv, SawTheOutcome, ReviewsOf
<1>16. QED
  BY <1>8, <1>9, <1>10, <1>11, <1>12, <1>13, <1>14, <1>15 DEF HandoffInv

\* The response repeats what the recording router saw (controls.py:77-83).
LEMMA RespondStep ==
    ASSUME HandoffInv, CoreTypes, OutcomeTypes, SinkTypes, NEW r \in Request, Respond(r)
    PROVE  HandoffInv'
<1>1. /\ pc[r] = "respond"
      /\ \A q \in Request : pc'[q] = IF q = r THEN "done" ELSE pc[q]
      /\ \A q \in Request : answer'[q] = IF q = r THEN Outcome(outcomes[r]) ELSE answer[q]
      /\ UNCHANGED <<deployment, request, findings, outcomes, trail, console, inflight>>
  BY DEF Respond, Goto, CoreTypes, OutcomeTypes, sinks
<1>2. HandedOver' = HandedOver
  BY <1>1, HandedOverKept
<1>3. \A q \in Request : IntakeRecord(q)' = IntakeRecord(q) /\ IntakeReview(q)' = IntakeReview(q)
  BY <1>1 DEF IntakeRecord, IntakeReview
<1>4. "done" \notin Unrouted /\ "respond" \notin Unrouted
  BY Stages
<1>5. "done" \notin Unrecorded /\ "done" \notin Undecided /\ "respond" \notin Undecided
  BY Stages
<1>6. UndecidedIsUnknown' /\ DecidedHasFindings'
  BY <1>1, <1>2, <1>5 DEF HandoffInv, UndecidedIsUnknown, DecidedHasFindings
<1>7. TrailIsTrue'
  BY <1>1, <1>3, <1>5, SinkFacts DEF HandoffInv, TrailIsTrue, IsIntake
<1>8. RecordedOnce' /\ QueuedOnce'
  BY <1>1 DEF HandoffInv, RecordedOnce, QueuedOnce, IsIntake
<1>9. ReviewsAreTrue'
  BY <1>1, <1>2, <1>3, <1>4, SinkFacts DEF HandoffInv, ReviewsAreTrue, IsIntake
<1>10. LateIsFailed'
  BY <1>1, SinkFacts DEF HandoffInv, LateIsFailed, IsIntake
<1>11. SawTheOutcome'
  <2>1. PICK outcome \in {"routed", "failed", "off"} :
            /\ outcomes[r] = {outcome}
            /\ (outcome = "routed" /\ deployment.profile # "local") => ReviewsOf(r) # {}
            /\ outcome = "off" => ~deployment.routing
    BY <1>1 DEF HandoffInv, SawTheOutcome
  <2>2. Outcome(outcomes[r]) = outcome
    BY <2>1 DEF Outcome
  <2>3. \A q \in Request : ReviewsOf(q)' = ReviewsOf(q)
    BY <1>1 DEF ReviewsOf
  <2>4. \A q \in Request \ {r} : pc'[q] = pc[q] /\ answer'[q] = answer[q] /\ outcomes'[q] = outcomes[q]
    BY <1>1
  <2>5. pc'[r] = "done" /\ answer'[r] = outcome /\ outcomes'[r] = {outcome}
    BY <1>1, <2>1, <2>2
  <2>6. QED
    BY <1>1, <1>4, <2>1, <2>3, <2>4, <2>5 DEF HandoffInv, SawTheOutcome
<1>12. QED
  BY <1>6, <1>7, <1>8, <1>9, <1>10, <1>11 DEF HandoffInv

\* The hand-off of the report: off, stored, refused, or still on its way.
LEMMA RouteStep ==
    ASSUME HandoffInv, CoreTypes, FindingsTypes, OutcomeTypes, SinkTypes, NEW r \in Request,
           Route(r)
    PROVE  HandoffInv'
<1> DEFINE review == IntakeReview(r)
<1>1. /\ pc[r] = "route"
      /\ \A q \in Request : pc'[q] = IF q = r THEN "respond" ELSE pc[q]
      /\ UNCHANGED <<deployment, request, findings, answer, trail>>
  BY DEF Route, Goto, CoreTypes, RequiresReview, RouteOff, RouteStored, RouteFailed, Stored,
         TimedOut, sinks
<1>2. review \in Review /\ IsIntake(review) /\ review.request = r
  BY SubmittedTypes DEF IntakeReview, IsIntake
<1>3. \/ Saw(r, "off") /\ ~deployment.routing /\ UNCHANGED <<console, inflight>>
      \/ Saw(r, "routed") /\ deployment.routing /\ Stored(review)
      \/ Saw(r, "failed") /\ deployment.routing /\ UNCHANGED <<console, inflight>>
      \/ Saw(r, "failed") /\ deployment.routing /\ TimedOut(review)
  BY DEF Route, RequiresReview, RouteOff, RouteStored, RouteFailed, sinks
<1>4. PICK outcome \in {"routed", "failed", "off"} :
          /\ Saw(r, outcome)
          /\ outcome = "off" <=> ~deployment.routing
          /\ outcome = "routed" => Stored(review)
          /\ \/ UNCHANGED <<console, inflight>>
             \/ Stored(review)
             \/ TimedOut(review) /\ outcome = "failed"
          /\ outcome = "off" => UNCHANGED <<console, inflight>>
  BY <1>3
<1>5. "route" \in Unrouted /\ "route" \notin Undecided /\ "route" \notin Unrecorded
  BY DEF Unrouted, Unrecorded, Undecided
<1>6. \A q \in Request : outcomes'[q] = IF q = r THEN {outcome} ELSE outcomes[q]
  BY <1>1, <1>4, <1>5 DEF Saw, OutcomeTypes, HandoffInv, SawTheOutcome
<1>7. /\ \A v \in HandedOver : IsIntake(v) => v.request # r
      /\ \A k \in DOMAIN console : IsIntake(console[k]) => console[k].request # r
      /\ \A late \in inflight : IsIntake(late) => late.request # r
  BY <1>1, <1>5, SinkFacts DEF HandoffInv, ReviewsAreTrue
<1>8. \A q \in Request : IntakeRecord(q)' = IntakeRecord(q) /\ IntakeReview(q)' = IntakeReview(q)
  BY <1>1 DEF IntakeRecord, IntakeReview
<1>9. HandedOver' = HandedOver \/ (HandedOver' = HandedOver \cup {review} /\ deployment.routing)
  BY <1>2, <1>4, HandedOverKept, HandedOverStored, HandedOverTimedOut
<1>10. /\ \A k \in DOMAIN console : k \in DOMAIN console' /\ console'[k] = console[k]
       /\ \A k \in DOMAIN console' : \/ k \in DOMAIN console /\ console'[k] = console[k]
                                     \/ k = Len(console) + 1 /\ console'[k] = review
       /\ outcome = "routed" => \E k \in DOMAIN console' : console'[k] = review
  <2>1. CASE UNCHANGED <<console, inflight>> /\ outcome # "routed"
    BY <2>1
  <2>2. CASE Stored(review)
    BY <2>2, <1>2, ConsoleStored
  <2>3. CASE TimedOut(review) /\ outcome # "routed"
    BY <2>3 DEF TimedOut
  <2>4. QED
    BY <1>4, <2>1, <2>2, <2>3
<1>11. \A late \in inflight' : late \in inflight \/ (late = review /\ outcome = "failed")
  BY <1>4 DEF Stored, TimedOut
<1>12. Stored(review) => inflight' = inflight
  BY DEF Stored
<1>13. ~Stored(review) => console' = console
  BY <1>4 DEF TimedOut
<1> HIDE DEF review
<1>14. UndecidedIsUnknown' /\ DecidedHasFindings'
  <2>1. DOMAIN findings[r] # {}
    BY <1>1, <1>5 DEF HandoffInv, DecidedHasFindings
  <2>2. "respond" \notin Undecided
    BY Stages
  <2>3. UndecidedIsUnknown'
    BY <1>1, <1>2, <1>9, <2>2 DEF HandoffInv, UndecidedIsUnknown
  <2>4. DecidedHasFindings'
    BY <1>1, <2>1 DEF HandoffInv, DecidedHasFindings
  <2>5. QED
    BY <2>3, <2>4
<1>15. TrailIsTrue' /\ RecordedOnce'
  <2>1. "respond" \notin Unrecorded
    BY Stages
  <2>2. TrailIsTrue'
    BY <1>1, <1>8, <2>1, SinkFacts DEF HandoffInv, TrailIsTrue, IsIntake
  <2>3. RecordedOnce'
    BY <1>1 DEF HandoffInv, RecordedOnce, IsIntake
  <2>4. QED
    BY <2>2, <2>3
<1>16. ReviewsAreTrue'
  <2>1. "respond" \notin Unrouted /\ DOMAIN findings[r] # {}
    BY <1>1, <1>5, Stages DEF HandoffInv, DecidedHasFindings
  <2>2. review = IntakeReview(r)'
    BY <1>8 DEF review
  <2>3. \A v \in HandedOver : IsIntake(v) =>
            /\ deployment'.routing
            /\ v = IntakeReview(v.request)'
            /\ pc'[v.request] \notin Unrouted
            /\ DOMAIN findings'[v.request] # {}
    BY <1>1, <1>7, <1>8, SinkFacts DEF HandoffInv, ReviewsAreTrue
  <2>4. \A v \in HandedOver' : v \in HandedOver \/ (v = review /\ deployment'.routing)
    BY <1>9, <1>1
  <2>5. QED
    BY <1>1, <1>2, <2>1, <2>2, <2>3, <2>4 DEF ReviewsAreTrue, IsIntake
<1>17. QueuedOnce'
  <2>1. ASSUME Stored(review) PROVE QueuedOnce'
    BY <2>1, <1>2, <1>7, <1>10, <1>12 DEF HandoffInv, QueuedOnce, IsIntake
  <2>2. ASSUME ~Stored(review) PROVE QueuedOnce'
    BY <2>2, <1>2, <1>7, <1>11, <1>13 DEF HandoffInv, QueuedOnce, IsIntake
  <2>3. QED
    BY <2>1, <2>2
<1>18. LateIsFailed'
  BY <1>1, <1>2, <1>6, <1>7, <1>11, SinkFacts DEF HandoffInv, LateIsFailed, IsIntake
<1>19. SawTheOutcome'
  <2>1. "respond" \notin Unrouted
    BY Stages
  <2>2. outcome = "routed" => ReviewsOf(r)' # {}
    BY <1>2, <1>10 DEF ReviewsOf, IsIntake
  <2>3. \A q \in Request : ReviewsOf(q) # {} => ReviewsOf(q)' # {}
    BY <1>10 DEF ReviewsOf
  <2>4. QED
    BY <1>1, <1>4, <1>6, <2>1, <2>2, <2>3 DEF HandoffInv, SawTheOutcome
<1>20. QED
  BY <1>14, <1>15, <1>16, <1>17, <1>18, <1>19 DEF HandoffInv

\* The console stores a review whose caller was told it failed, or nothing.
LEMMA LateStep ==
    ASSUME HandoffInv, SinkTypes, NEW review \in inflight, LateArrival(review)
    PROVE  HandoffInv'
<1>1. /\ UNCHANGED <<deployment, request, pc, findings, outcomes, answer, trail>>
      /\ inflight' = inflight \ {review}
      /\ review \in Review
      /\ console \in Seq(Review) /\ console' = Append(console, review)
  BY DEF LateArrival, work, SinkTypes
<1>2. HandedOver' = HandedOver
  BY HandedOverLate
<1>3. \A q \in Request : IntakeRecord(q)' = IntakeRecord(q) /\ IntakeReview(q)' = IntakeReview(q)
  BY <1>1 DEF IntakeRecord, IntakeReview
<1>4. /\ \A k \in DOMAIN console : k \in DOMAIN console' /\ console'[k] = console[k]
      /\ \A k \in DOMAIN console' : \/ k \in DOMAIN console /\ console'[k] = console[k]
                                    \/ k = Len(console) + 1 /\ console'[k] = review
  BY <1>1, Appended
<1>5. UndecidedIsUnknown' /\ DecidedHasFindings'
  BY <1>1, <1>2 DEF HandoffInv, UndecidedIsUnknown, DecidedHasFindings
<1>6. TrailIsTrue' /\ RecordedOnce'
  BY <1>1, <1>3, SinkFacts DEF HandoffInv, TrailIsTrue, RecordedOnce, IsIntake
<1>7. ReviewsAreTrue'
  BY <1>1, <1>2, <1>3, SinkFacts DEF HandoffInv, ReviewsAreTrue, IsIntake
<1>8. QueuedOnce'
  <2>1. ASSUME NEW late \in inflight, IsIntake(late), IsIntake(review),
               late.request = review.request
        PROVE  late = review
    BY <2>1, SinkFacts DEF HandoffInv, ReviewsAreTrue
  <2>2. \A k \in DOMAIN console : (IsIntake(console[k]) /\ IsIntake(review))
                                    => console[k].request # review.request
    BY DEF HandoffInv, QueuedOnce
  <2>3. \A j, k \in DOMAIN console' :
            (IsIntake(console'[j]) /\ IsIntake(console'[k])
                /\ console'[j].request = console'[k].request) => j = k
    BY <1>4, <2>2 DEF HandoffInv, QueuedOnce
  <2>4. \A k \in DOMAIN console', late \in inflight' :
            (IsIntake(console'[k]) /\ IsIntake(late)) => console'[k].request # late.request
    BY <1>1, <1>4, <2>1 DEF HandoffInv, QueuedOnce
  <2>5. QED
    BY <2>3, <2>4 DEF QueuedOnce, IsIntake
<1>9. LateIsFailed'
  BY <1>1 DEF HandoffInv, LateIsFailed, IsIntake
<1>10. SawTheOutcome'
  BY <1>1, <1>4 DEF HandoffInv, SawTheOutcome, ReviewsOf
<1>11. QED
  BY <1>5, <1>6, <1>7, <1>8, <1>9, <1>10 DEF HandoffInv

\* A crash takes the workers and the in-memory outbox, and nothing else.
LEMMA CrashStep ==
    ASSUME HandoffInv, CoreTypes, SinkTypes, Crash
    PROVE  HandoffInv'
<1>1. /\ \A q \in Request : pc'[q] = IF pc[q] \in Working THEN "lost" ELSE pc[q]
      /\ UNCHANGED <<deployment, request, findings, outcomes, answer, trail, inflight>>
      /\ console' = console \/ (console' = << >> /\ deployment.profile = "local")
  BY DEF Crash, work
<1>2. \A k \in DOMAIN console' : k \in DOMAIN console /\ console'[k] = console[k]
  BY <1>1
<1>3. HandedOver' \subseteq HandedOver
  BY <1>1, <1>2 DEF HandedOver
<1>4. \A q \in Request : IntakeRecord(q)' = IntakeRecord(q) /\ IntakeReview(q)' = IntakeReview(q)
  BY <1>1 DEF IntakeRecord, IntakeReview
<1>5. \A q \in Request : pc'[q] \in Undecided => pc'[q] = pc[q]
  BY <1>1 DEF Undecided
<1>6. "lost" \notin Unrecorded /\ "lost" \notin Unrouted
  BY Stages
<1>7. UndecidedIsUnknown' /\ DecidedHasFindings'
  BY <1>1, <1>3, <1>5 DEF HandoffInv, UndecidedIsUnknown, DecidedHasFindings
<1>8. TrailIsTrue' /\ RecordedOnce'
  BY <1>1, <1>4, <1>6, SinkFacts DEF HandoffInv, TrailIsTrue, RecordedOnce, IsIntake
<1>9. ReviewsAreTrue'
  BY <1>1, <1>3, <1>4, <1>6, SinkFacts DEF HandoffInv, ReviewsAreTrue, IsIntake
<1>10. QueuedOnce'
  BY <1>1, <1>2 DEF HandoffInv, QueuedOnce, IsIntake
<1>11. LateIsFailed'
  BY <1>1, SinkFacts DEF HandoffInv, LateIsFailed, IsIntake
<1>12. SawTheOutcome'
  <2>1. deployment.profile # "local" => \A q \in Request : ReviewsOf(q)' = ReviewsOf(q)
    BY <1>1 DEF ReviewsOf
  <2>2. "done" \notin Working /\ "respond" \in Working /\ "done" \notin Unrouted
    BY Stages DEF Working
  <2>3. \A q \in Request : pc'[q] \in Unrouted => pc[q] \in Unrouted
    BY <1>1, <1>6
  <2>4. \A q \in Request : pc'[q] # "done" => pc[q] # "done"
    BY <1>1, <2>2
  <2>5. \A q \in Request : pc'[q] \in {"respond", "done"} => pc'[q] = "done" /\ pc[q] = "done"
    BY <1>1, <2>2
  <2>6. QED
    BY <1>1, <2>1, <2>3, <2>4, <2>5 DEF HandoffInv, SawTheOutcome
<1>13. QED
  BY <1>7, <1>8, <1>9, <1>10, <1>11, <1>12 DEF HandoffInv

\* A service that just started has handed nothing over.
LEMMA HandoffInit == Init => HandoffInv
<1> SUFFICES ASSUME Init PROVE HandoffInv
  OBVIOUS
<1>1. /\ \A r \in Request : pc[r] = "idle" /\ DOMAIN findings[r] = {}
      /\ \A r \in Request : outcomes[r] = {} /\ answer[r] = "none"
      /\ DOMAIN trail = {} /\ DOMAIN console = {} /\ inflight = {}
  BY DEF Init
<1>2. HandedOver = {}
  BY <1>1 DEF HandedOver
<1>3. UndecidedIsUnknown /\ DecidedHasFindings
  BY <1>1, <1>2 DEF UndecidedIsUnknown, DecidedHasFindings, Undecided
<1>4. TrailIsTrue /\ RecordedOnce /\ ReviewsAreTrue /\ QueuedOnce /\ LateIsFailed
  BY <1>1, <1>2 DEF TrailIsTrue, RecordedOnce, ReviewsAreTrue, QueuedOnce, LateIsFailed
<1>5. SawTheOutcome
  BY <1>1 DEF SawTheOutcome
<1>6. QED
  BY <1>3, <1>4, <1>5 DEF HandoffInv

\* Every step of a worker keeps the hand-off sound.
LEMMA HandoffUnderStep ==
    ASSUME TypeOK, HandoffInv, NEW r \in Request, Step(r)
    PROVE  HandoffInv'
<1>0. CoreTypes /\ FindingsTypes /\ OutcomeTypes /\ SinkTypes
  BY TypesByPart
<1> USE DEF Unrouted, Unrecorded, Undecided
<1>1. ASSUME Accept(r) \/ TracerFails(r) \/ EvaluateRaises(r) PROVE HandoffInv'
  BY <1>1, <1>0, QuietStep DEF Accept, TracerFails, EvaluateRaises, work
<1>2. ASSUME EvaluateLocally(r) PROVE HandoffInv'
  <2>1. /\ Goto(r, "evaluate", "context") /\ UNCHANGED <<outcomes, answer, sinks>>
        /\ findings' = [findings EXCEPT ![r] = EvaluateAll(request[r].submission, AllowedRegions)]
    BY <1>2 DEF EvaluateLocally
  <2>2. DOMAIN EvaluateAll(request[r].submission, AllowedRegions) # {}
    BY EvaluatorTypes
  <2>3. QED
    BY <2>1, <2>2, <1>0, VerdictStep
<1>3. ASSUME EvaluateRemotely(r) PROVE HandoffInv'
  <2>1. /\ Goto(r, "evaluate", "context") /\ UNCHANGED <<outcomes, answer, sinks>>
        /\ \E a \in OpaAnswers \cup {BundleAnswer(request[r].submission, AllowedRegions)} :
               /\ ~RaisesOther(a)
               /\ findings' = [findings EXCEPT ![r] = OpaFindings(request[r].submission, a)]
    BY <1>3 DEF EvaluateRemotely
  <2>2. PICK a \in OpaAnswers \cup {BundleAnswer(request[r].submission, AllowedRegions)} :
            /\ ~RaisesOther(a)
            /\ findings' = [findings EXCEPT ![r] = OpaFindings(request[r].submission, a)]
    BY <2>1
  <2>3. DOMAIN OpaFindings(request[r].submission, a) # {}
    BY <2>2, CollaboratorAssumption, OpaFindingsTypes
  <2>4. QED
    BY <2>1, <2>2, <2>3, <1>0, VerdictStep
<1>4. ASSUME NothingUnmet(r) \/ GatherContext(r) \/ AskResidency(r) \/ StartScan(r)
             \/ InjectAndAssemble(r)
      PROVE  HandoffInv'
  BY <1>4, <1>0, QuietStep
     DEF NothingUnmet, GatherContext, AskResidency, StartScan, InjectAndAssemble, work
<1>5. ASSUME ScanAudit(r) PROVE HandoffInv'
  <2> DEFINE record == [kind |-> "scan", request |-> r, actor |-> ServiceActor,
                        decision |-> ScanDecision(scan[r])]
  <2>1. record \in Record /\ record.request = r /\ ~IsIntake(record)
    BY <1>0, SubmittedTypes DEF IsIntake
  <2>2. /\ Goto(r, "scan_audit", "scan_route") /\ UNCHANGED <<findings, outcomes, answer>>
        /\ Recorded(record) \/ UNCHANGED sinks
    BY <1>5 DEF ScanAudit, work
  <2> HIDE DEF record
  <2>3. ASSUME Recorded(record) PROVE HandoffInv'
    BY <2>1, <2>2, <2>3, <1>0, RecordStep
  <2>4. ASSUME UNCHANGED sinks PROVE HandoffInv'
    BY <2>2, <2>4, <1>0, QuietStep
  <2>5. QED
    BY <2>2, <2>3, <2>4
<1>6. ASSUME ScanRoute(r) PROVE HandoffInv'
  <2>1. ScanReview(r) \in Review /\ ScanReview(r).request = r /\ ~IsIntake(ScanReview(r))
    BY <1>0, SubmittedTypes DEF ScanReview, IsIntake
  <2>2. /\ Goto(r, "scan_route", "inject") /\ UNCHANGED <<findings, outcomes, answer>>
        /\ UNCHANGED sinks \/ Stored(ScanReview(r)) \/ TimedOut(ScanReview(r))
    BY <1>6 DEF ScanRoute
  <2>3. ASSUME Stored(ScanReview(r)) \/ TimedOut(ScanReview(r)) PROVE HandoffInv'
    BY <2>1, <2>2, <2>3, <1>0, ScanReviewStep
  <2>4. ASSUME UNCHANGED sinks PROVE HandoffInv'
    BY <2>2, <2>4, <1>0, QuietStep
  <2>5. QED
    BY <2>2, <2>3, <2>4
<1>7. ASSUME AuditReport(r) PROVE HandoffInv'
  <2>1. IntakeRecord(r) \in Record /\ IntakeRecord(r).request = r
    BY <1>0, SubmittedTypes DEF IntakeRecord
  <2>2. /\ Goto(r, "audit", "route") /\ UNCHANGED <<findings, outcomes, answer>>
        /\ Recorded(IntakeRecord(r)) \/ UNCHANGED sinks
    BY <1>7 DEF AuditReport, work
  <2>3. ASSUME Recorded(IntakeRecord(r)) PROVE HandoffInv'
    BY <2>1, <2>2, <2>3, <1>0, RecordStep
  <2>4. ASSUME UNCHANGED sinks PROVE HandoffInv'
    BY <2>2, <2>4, <1>0, QuietStep
  <2>5. QED
    BY <2>2, <2>3, <2>4
<1>8. ASSUME Route(r) PROVE HandoffInv'
  BY <1>8, <1>0, RouteStep
<1>9. ASSUME Respond(r) PROVE HandoffInv'
  BY <1>9, <1>0, RespondStep
<1>10. QED
  BY <1>1, <1>2, <1>3, <1>4, <1>5, <1>6, <1>7, <1>8, <1>9 DEF Step

\* So does a late arrival, a crash and a service at rest.
LEMMA HandoffUnderNext == TypeOK /\ HandoffInv /\ [Next]_vars => HandoffInv'
<1> SUFFICES ASSUME TypeOK, HandoffInv, [Next]_vars PROVE HandoffInv'
  OBVIOUS
<1>0. CoreTypes /\ SinkTypes
  BY TypesByPart
<1>1. ASSUME UNCHANGED vars PROVE HandoffInv'
  <2>1. UNCHANGED <<deployment, request, pc, findings, outcomes, answer, trail, console, inflight>>
    BY <1>1 DEF vars, work, sinks
  <2>2. HandedOver' = HandedOver
    BY <2>1, HandedOverKept
  <2>3. \A q \in Request : IntakeRecord(q)' = IntakeRecord(q) /\ IntakeReview(q)' = IntakeReview(q)
    BY <2>1 DEF IntakeRecord, IntakeReview
  <2>4. UndecidedIsUnknown' /\ DecidedHasFindings' /\ RecordedOnce' /\ QueuedOnce'
    BY <2>1, <2>2 DEF HandoffInv, UndecidedIsUnknown, DecidedHasFindings, RecordedOnce, QueuedOnce,
                      IsIntake
  <2>5. TrailIsTrue' /\ ReviewsAreTrue'
    BY <1>0, <2>1, <2>2, <2>3, SinkFacts DEF HandoffInv, TrailIsTrue, ReviewsAreTrue, IsIntake
  <2>6. LateIsFailed' /\ SawTheOutcome'
    BY <2>1 DEF HandoffInv, LateIsFailed, SawTheOutcome, ReviewsOf, IsIntake
  <2>7. QED
    BY <2>4, <2>5, <2>6 DEF HandoffInv
<1>2. QED
  BY <1>0, <1>1, HandoffUnderStep, LateStep, CrashStep DEF Next, Finished

\* The invariant everything below rests on.
THEOREM HandoffIsSound == Spec => []HandoffInv
<1>1. Init => HandoffInv
  BY HandoffInit
<1>2. TypeOK /\ HandoffInv /\ [Next]_vars => HandoffInv'
  BY HandoffUnderNext
<1>3. QED
  BY <1>1, <1>2, PipelineTypes, PTL DEF Spec

----------------------------------------------------------------------------
(* What the invariant is for.                                              *)

\* Any number of requests: one that ends in an exception (validation_service.py:103,
\* opa_policy.py:70) left no record and no review.
THEOREM ErrorsLeaveNothing == Spec => []ErrorsLeaveNoTrace
<1>1. HandoffInv => ErrorsLeaveNoTrace
  BY DEF HandoffInv, UndecidedIsUnknown, Undecided, ErrorsLeaveNoTrace
<1>2. QED
  BY <1>1, HandoffIsSound, PTL

\* Any findings, any request: a review over an open risk asks for two approvals
\* (_review_payload.py:88-98).
THEOREM DualControlHolds == Spec => []DualControlOnOpenRisk
<1>1. TypeOK /\ HandoffInv => DualControlOnOpenRisk
  <2> SUFFICES ASSUME TypeOK, HandoffInv, NEW review \in HandedOver, review.kind = "intake",
                      RequiresReviewOnRisk(findings[review.request])
               PROVE  review.approvals = 2
    BY DEF DualControlOnOpenRisk
  <2>1. review.request \in Request /\ IsFindings(findings[review.request])
    BY TypesByPart, SinkFacts DEF FindingsTypes
  <2>2. review = IntakeReview(review.request)
    BY DEF HandoffInv, ReviewsAreTrue, IsIntake
  <2>3. Approvals(findings[review.request]) = 2
    BY <2>1, DualControlRule
  <2>4. QED
    BY <2>2, <2>3 DEF IntakeReview
<1>2. QED
  BY <1>1, PipelineTypes, HandoffIsSound, PTL

\* Any interleaving: the record and the review of a report agree
\* (validation_service.py:212-239, _review_payload.py:73-102).
THEOREM SinksAgree == Spec => []RecordAgreesWithReview
<1>1. TypeOK /\ HandoffInv => RecordAgreesWithReview
  <2> SUFFICES ASSUME TypeOK, HandoffInv, NEW review \in HandedOver, review.kind = "intake"
               PROVE  /\ review.maker = request[review.request].actor
                      /\ review.tenant = request[review.request].tenant
                      /\ \A k \in RecordsOf(review.request) :
                             /\ trail[k].actor = review.maker
                             /\ trail[k].decision = "ESCALATED" =>
                                    review.approvals = 2 /\ review.severity \in HighSeverity
    BY DEF RecordAgreesWithReview
  <2> DEFINE r == review.request
             f == findings[r]
  <2>1. r \in Request /\ IsFindings(f)
    BY TypesByPart, SinkFacts DEF FindingsTypes
  <2>2. review = IntakeReview(r)
    BY DEF HandoffInv, ReviewsAreTrue, IsIntake
  <2>3. /\ review.maker = request[r].actor
        /\ review.tenant = request[r].tenant
        /\ review.approvals = Approvals(f)
        /\ review.severity = OverallSeverity(f)
    BY <2>2 DEF IntakeReview
  <2>4. ASSUME NEW k \in RecordsOf(r)
        PROVE  trail[k].actor = request[r].actor /\ trail[k].decision = AuditDecision(f)
    <3>1. k \in DOMAIN trail /\ IsIntake(trail[k]) /\ trail[k].request = r
      BY DEF RecordsOf, IsIntake
    <3>2. trail[k] = IntakeRecord(r)
      BY <3>1 DEF HandoffInv, TrailIsTrue
    <3>3. QED
      BY <3>2 DEF IntakeRecord
  <2>5. AuditDecision(f) = "ESCALATED" => Approvals(f) = 2 /\ OverallSeverity(f) \in HighSeverity
    BY <2>1, DualControlRule
  <2> HIDE DEF r, f
  <2>6. QED
    BY <2>3, <2>4, <2>5 DEF r
<1>2. QED
  BY <1>1, PipelineTypes, HandoffIsSound, PTL

\* Any number of requests, however late the console answers: one record, one
\* review (controls.py:65-75).
THEOREM OncePerReport == Spec => []OneRecordOneReview
<1>1. TypeOK /\ HandoffInv => OneRecordOneReview
  <2> SUFFICES ASSUME TypeOK, HandoffInv, NEW r \in Request
               PROVE  /\ \A j, k \in RecordsOf(r) : j = k
                      /\ \A j, k \in ReviewsOf(r) : j = k
                      /\ ReviewsOf(r) # {} =>
                             \A review \in inflight : review.kind = "intake" => review.request # r
    BY DEF OneRecordOneReview
  <2>1. \A j, k \in RecordsOf(r) : j = k
    BY DEF HandoffInv, RecordedOnce, RecordsOf, IsIntake
  <2>2. \A j, k \in ReviewsOf(r) : j = k
    BY DEF HandoffInv, QueuedOnce, ReviewsOf, IsIntake
  <2>3. ReviewsOf(r) # {} =>
            \A review \in inflight : review.kind = "intake" => review.request # r
    BY DEF HandoffInv, QueuedOnce, ReviewsOf, IsIntake
  <2>4. QED
    BY <2>1, <2>2, <2>3
<1>2. QED
  BY <1>1, PipelineTypes, HandoffIsSound, PTL

\* Any interleaving, any crash: what the response says of the hand-off is true
\* (disclosure.py, controls.py:77-83).
THEOREM DisclosureHolds == Spec => []DisclosureIsTrue
<1>1. TypeOK /\ HandoffInv => DisclosureIsTrue
  <2> SUFFICES ASSUME TypeOK, HandoffInv, NEW r \in Request, pc[r] = "done"
               PROVE  /\ answer[r] \in {"routed", "failed", "off"}
                      /\ (answer[r] = "routed" /\ deployment.profile # "local")
                             => ReviewsOf(r) # {}
                      /\ answer[r] = "off" =>
                             \A review \in HandedOver :
                                 review.kind = "intake" => review.request # r
    BY DEF DisclosureIsTrue
  <2>1. PICK outcome \in {"routed", "failed", "off"} :
            /\ answer[r] = outcome
            /\ (outcome = "routed" /\ deployment.profile # "local") => ReviewsOf(r) # {}
            /\ outcome = "off" => ~deployment.routing
    BY DEF HandoffInv, SawTheOutcome
  <2>2. ~deployment.routing => \A review \in HandedOver : review.kind # "intake"
    BY DEF HandoffInv, ReviewsAreTrue, IsIntake
  <2>3. QED
    BY <2>1, <2>2
<1>2. QED
  BY <1>1, PipelineTypes, HandoffIsSound, PTL

----------------------------------------------------------------------------
(* The requirements of an assembled report.                                *)

\* What an assembled report carries: one requirement per unmet finding, each grounded.
RequirementsInv == OneRequirementPerUnmetPrinciple /\ GroundedRequirements

\* Every step of a worker keeps assembled reports as they are, or assembles a sound one.
LEMMA RequirementsUnderStep ==
    ASSUME TypeOK, RequirementsInv, NEW r \in Request, Step(r)
    PROVE  RequirementsInv'
<1>0. CoreTypes /\ FindingsTypes /\ InjectedTypes /\ ContextTypes
  BY TypesByPart
<1> DEFINE Others == /\ \A q \in Request \ {r} :
                            /\ pc'[q] = pc[q] /\ findings'[q] = findings[q]
                            /\ sources'[q] = sources[q] /\ injected'[q] = injected[q]
           Right(q) == /\ DOMAIN injected[q] = Unmet(findings[q])
                       /\ \A i \in DOMAIN injected[q] :
                              /\ injected[q][i].principle_id = findings[q][i].principle_id
                              /\ injected[q][i].citations # {}
                              /\ injected[q][i].citations
                                     \subseteq {findings[q][i].principle_id} \cup sources[q]
<1>1. RequirementsInv <=> \A q \in Request : Assembled(q) => Right(q)
  BY DEF RequirementsInv, OneRequirementPerUnmetPrinciple, GroundedRequirements
<1>2. (\A q \in Request : Assembled(q)' => Right(q)') => RequirementsInv'
  BY DEF RequirementsInv, OneRequirementPerUnmetPrinciple, GroundedRequirements
<1>3. Others
  BY <1>0 DEF Step, Accept, TracerFails, EvaluateLocally, EvaluateRemotely, EvaluateRaises,
     NothingUnmet, GatherContext, AskResidency, StartScan, ScanAudit, ScanRoute,
     InjectAndAssemble, AuditReport, Route, Respond, Goto, work, CoreTypes, FindingsTypes,
     InjectedTypes, ContextTypes
<1>4. \A q \in Request \ {r} : Assembled(q)' => Right(q)'
  BY <1>1, <1>3 DEF Assembled
<1>5. ASSUME AuditReport(r) \/ Route(r) \/ Respond(r) PROVE Right(r)'
  <2>1. Assembled(r) /\ UNCHANGED <<findings, sources, injected>>
    BY <1>5 DEF AuditReport, Route, Respond, Goto, work, Assembled
  <2>2. QED
    BY <2>1, <1>1
<1>6. ASSUME InjectAndAssemble(r) PROVE Right(r)'
  <2>1. UNCHANGED <<findings, sources>>
    BY <1>6 DEF InjectAndAssemble
  <2>2. PICK reply \in ModelReplies : injected'[r] = Inject(findings[r], sources[r], reply)
    BY <1>6, <1>0 DEF InjectAndAssemble, InjectedTypes
  <2> DEFINE all == Inject(findings[r], sources[r], reply)
  <2>3. /\ DOMAIN all = Unmet(findings[r])
        /\ \A i \in Unmet(findings[r]) :
               /\ all[i] \in Requirement
               /\ all[i].principle_id = findings[r][i].principle_id
               /\ all[i].citations # {}
               /\ all[i].citations \subseteq {findings[r][i].principle_id} \cup sources[r]
    <3>1. IsFindings(findings[r]) /\ sources[r] \in SUBSET Source
      BY <1>0 DEF FindingsTypes, ContextTypes
    <3>2. QED
      BY <3>1, InjectFacts, Zenon
  <2> HIDE DEF all
  <2>4. /\ DOMAIN injected'[r] = Unmet(findings[r])
        /\ \A i \in Unmet(findings[r]) :
               /\ injected'[r][i].principle_id = findings[r][i].principle_id
               /\ injected'[r][i].citations # {}
               /\ injected'[r][i].citations
                      \subseteq {findings[r][i].principle_id} \cup sources[r]
    BY <2>2, <2>3 DEF all
  <2>5. QED
    BY <2>1, <2>4
<1>7. ASSUME Accept(r) \/ TracerFails(r) \/ EvaluateLocally(r) \/ EvaluateRemotely(r)
             \/ EvaluateRaises(r) \/ NothingUnmet(r) \/ GatherContext(r) \/ AskResidency(r)
             \/ StartScan(r) \/ ScanAudit(r) \/ ScanRoute(r)
      PROVE  ~Assembled(r)'
  BY <1>7, <1>0 DEF Accept, TracerFails, EvaluateLocally, EvaluateRemotely, EvaluateRaises,
     NothingUnmet, GatherContext, AskResidency, StartScan, ScanAudit, ScanRoute, Goto, CoreTypes,
     Assembled
<1>8. Assembled(r)' => Right(r)'
  BY <1>5, <1>6, <1>7 DEF Step
<1>9. QED
  BY <1>2, <1>4, <1>8

\* Any findings, any reply of the model: an assembled report carries exactly one
\* requirement per unmet finding, grounded in what was retrieved
\* (injection_service.py:70-180, _grounded.py:149-178).
LEMMA RequirementsAreSound == Spec => []RequirementsInv
<1>1. Init => RequirementsInv
  BY DEF Init, RequirementsInv, OneRequirementPerUnmetPrinciple, GroundedRequirements, Assembled
<1>2. TypeOK /\ RequirementsInv /\ [Next]_vars => RequirementsInv'
  <2> SUFFICES ASSUME TypeOK, RequirementsInv, [Next]_vars PROVE RequirementsInv'
    OBVIOUS
  <2>1. ASSUME UNCHANGED <<findings, sources, injected>>,
               \A q \in Request : Assembled(q)' => Assembled(q)
        PROVE  RequirementsInv'
    BY <2>1 DEF RequirementsInv, OneRequirementPerUnmetPrinciple, GroundedRequirements
  <2>2. ASSUME UNCHANGED vars PROVE RequirementsInv'
    BY <2>1, <2>2 DEF vars, work, Assembled
  <2>3. ASSUME NEW review \in inflight, LateArrival(review) PROVE RequirementsInv'
    BY <2>1, <2>3 DEF LateArrival, work, Assembled
  <2>4. ASSUME Crash PROVE RequirementsInv'
    <3>1. CoreTypes
      BY TypesByPart
    <3>2. \A q \in Request : Assembled(q)' => Assembled(q)
      BY <2>4, <3>1 DEF Crash, Assembled, CoreTypes
    <3>3. QED
      BY <2>1, <2>4, <3>2 DEF Crash, work
  <2>5. QED
    BY <2>2, <2>3, <2>4, RequirementsUnderStep DEF Next, Finished
<1>3. QED
  BY <1>1, <1>2, PipelineTypes, PTL DEF Spec

\* Any reply of the model: exactly one requirement for each unmet finding
\* (injection_service.py:70-90).
THEOREM EveryUnmetPrincipleGetsOne == Spec => []OneRequirementPerUnmetPrinciple
<1>1. RequirementsInv => OneRequirementPerUnmetPrinciple
  BY DEF RequirementsInv
<1>2. QED
  BY <1>1, RequirementsAreSound, PTL

\* Any reply of the model: no requirement without a source, none with a source
\* that was not retrieved for this request (_grounded.py:149-178).
THEOREM CitationsAreGrounded == Spec => []GroundedRequirements
<1>1. RequirementsInv => GroundedRequirements
  BY DEF RequirementsInv
<1>2. QED
  BY <1>1, RequirementsAreSound, PTL

----------------------------------------------------------------------------
(* Residency: whose word a foreign project can pass on.                    *)

\* The in-process rules fail a foreign project on P-03 (principles_eval.py:107-122),
LEMMA EvaluatorFailsForeign ==
    ASSUME NEW s, ForeignRegion(s)
    PROVE  ~Passed(EvaluateAll(s, AllowedRegions))
<1>1. P03(s, AllowedRegions).status = "FAIL"
  BY DEF ForeignRegion, P03, Verdict
<1>2. PrincipleIds[3] = "P-03"
  BY DEF PrincipleIds
<1>3. Check(s, "P-03", AllowedRegions).status = "FAIL"
  BY <1>1 DEF Check
<1>4. 3 \in 1..12
  OBVIOUS
<1>5. EvaluateAll(s, AllowedRegions)[3].status = "FAIL" /\ 3 \in DOMAIN EvaluateAll(s, AllowedRegions)
  BY <1>2, <1>3, <1>4 DEF EvaluateAll, EvaluatePrinciple
<1> QED BY <1>5 DEF Passed

\* as do those of the rego bundle (principles.rego), whose answer is parsed whole.
LEMMA BundleFailsForeign ==
    ASSUME NEW s \in Submission, ForeignRegion(s)
    PROVE  ~Passed(ParseFindings(BundleAnswer(s, AllowedRegions).raw))
<1> DEFINE raw == BundleAnswer(s, AllowedRegions).raw
<1>1. s.declared_region \in Text(Region) \cup {NoRegion}
  BY DEF Submission
<1>2. s.declared_region # NoRegion /\ s.declared_region.word \notin AllowedRegions
  BY <1>1 DEF ForeignRegion, StrippedRegion
<1>3. ~RegoException(s)
  BY DEF ForeignRegion, AttrTrue, RegoException
<1>4. Rego03(s, AllowedRegions) = RegoVerdict("FAIL", "critical")
  <2>1. ASSUME NEW a \in AllowedRegions, s.declared_region = [word |-> a, padded |-> FALSE]
        PROVE  FALSE
    <3>1. s.declared_region.word = [word |-> a, padded |-> FALSE].word
      BY <2>1, Zenon
    <3>2. [word |-> a, padded |-> FALSE].word = a
      OBVIOUS
    <3> QED BY <1>2, <3>1, <3>2, Zenon
  <2> QED BY <1>3, <2>1 DEF Rego03
<1>5. RegoFindings(s, AllowedRegions)[3].status = "FAIL"
      /\ RegoFindings(s, AllowedRegions)[3].principle_id = "P-03"
  <2>1. PrincipleIds[3] = "P-03"
    BY DEF PrincipleIds
  <2>2. RegoCheck(s, "P-03", AllowedRegions).status = "FAIL"
    BY <1>4 DEF RegoCheck, RegoVerdict
  <2>3. 3 \in 1..12
    OBVIOUS
  <2> QED BY <2>1, <2>2, <2>3 DEF RegoFindings
<1>6. 3 \in DOMAIN raw /\ raw[3].object /\ raw[3].principle_id = "P-03" /\ raw[3].status = "FAIL"
  BY <1>5 DEF BundleAnswer
<1> HIDE DEF raw
<1>7. 3 \in DOMAIN ParseFindings(raw) /\ ParseFindings(raw)[3].status = "FAIL"
  BY <1>6 DEF ParseFindings, Blank, CheckStatus
<1> QED BY <1>7 DEF Passed, raw

\* The findings are those of an answer that the policy service gave of its own.
IsServicesWord(f) ==
    \E a \in OpaAnswers : a.kind = "findings" /\ f = ParseFindings(a.raw)

\* A foreign project passes only on the word of the policy service itself.
PassesOnServicesWord ==
    \A r \in Request :
        (/\ DOMAIN findings[r] # {}
         /\ Passed(findings[r])
         /\ ForeignRegion(request[r].submission))
        => IsServicesWord(findings[r])

\* A fallback judges by the regions of the deployment: there is always one.
LEMMA OpaFindingsOfForeign ==
    ASSUME NEW s \in Submission, ForeignRegion(s), NEW a \in OpaAnswers \cup {BundleAnswer(s, AllowedRegions)},
           ~RaisesOther(a), Passed(OpaFindings(s, a))
    PROVE  IsServicesWord(OpaFindings(s, a))
<1>1. InProcess(s) = EvaluateAll(s, AllowedRegions)
  BY DeploymentAssumption DEF InProcess, FallbackRegions
<1>2. OpaFindings(s, a) # InProcess(s)
  BY <1>1, EvaluatorFailsForeign
<1>3. ~RaisesPolicyError(a) /\ OpaFindings(s, a) = ParseFindings(a.raw)
  BY <1>2 DEF OpaFindings
<1>4. a # BundleAnswer(s, AllowedRegions)
  BY <1>3, BundleFailsForeign
<1>5. a \in OpaAnswers /\ a.kind = "findings"
  BY <1>3, <1>4, CollaboratorAssumption DEF OpaAnswer, RaisesPolicyError, RaisesOther
<1> QED BY <1>3, <1>5 DEF IsServicesWord

\* A step of a worker: a verdict is reached once, by one of the two engines.
LEMMA WordUnderStep ==
    ASSUME TypeOK, PassesOnServicesWord, NEW r \in Request, Step(r)
    PROVE  PassesOnServicesWord'
<1>0. CoreTypes /\ FindingsTypes
  BY TypesByPart
<1>1. request' = request
  BY DEF Step, Accept, TracerFails, EvaluateLocally, EvaluateRemotely, EvaluateRaises,
     NothingUnmet, GatherContext, AskResidency, StartScan, ScanAudit, ScanRoute,
     InjectAndAssemble, AuditReport, Route, Respond, Goto
<1>2. CASE findings' = findings
  BY <1>1, <1>2 DEF PassesOnServicesWord
<1>3. ASSUME NEW f, findings' = [findings EXCEPT ![r] = f],
             Passed(f) /\ ForeignRegion(request[r].submission) => IsServicesWord(f)
      PROVE  PassesOnServicesWord'
  <2>1. \A q \in Request : findings'[q] = IF q = r THEN f ELSE findings[q]
    BY <1>0, <1>3 DEF FindingsTypes
  <2> QED BY <1>1, <1>3, <2>1 DEF PassesOnServicesWord
<1>4. request[r].submission \in Submission
  BY <1>0, DeploymentAssumption DEF CoreTypes
<1>5. CASE EvaluateLocally(r)
  BY <1>3, <1>5, EvaluatorFailsForeign DEF EvaluateLocally
<1>6. CASE EvaluateRemotely(r)
  <2>1. PICK a \in OpaAnswers \cup {BundleAnswer(request[r].submission, AllowedRegions)} :
            /\ ~RaisesOther(a)
            /\ findings' = [findings EXCEPT ![r] = OpaFindings(request[r].submission, a)]
    BY <1>6 DEF EvaluateRemotely
  <2> QED BY <1>3, <1>4, <2>1, OpaFindingsOfForeign
<1> QED BY <1>2, <1>5, <1>6
        DEF Step, Accept, TracerFails, EvaluateRaises, NothingUnmet, GatherContext, AskResidency,
            StartScan, ScanAudit, ScanRoute, InjectAndAssemble, AuditReport, Route, Respond, work

\* Neither engine of this code, nor the fallback from one to the other, passes a
\* project in a region the deployment does not allow: one that passed did so on an
\* answer of the policy service other than the bundle's (validation_service.py:111-128).
THEOREM ForeignPassIsTheServices == Spec => []PassesOnServicesWord
<1>1. Init => PassesOnServicesWord
  BY DEF Init, PassesOnServicesWord
<1>2. TypeOK /\ PassesOnServicesWord /\ [Next]_vars => PassesOnServicesWord'
  <2> SUFFICES ASSUME TypeOK, PassesOnServicesWord, [Next]_vars PROVE PassesOnServicesWord'
    OBVIOUS
  <2>1. ASSUME UNCHANGED <<request, findings>> PROVE PassesOnServicesWord'
    BY <2>1 DEF PassesOnServicesWord
  <2> QED BY <2>1, WordUnderStep DEF Next, Finished, LateArrival, Crash, vars, work
<1> QED BY <1>1, <1>2, PipelineTypes, PTL DEF Spec

\* What is asked of a policy service that does not serve the bundle: an answer of
\* its own that speaks of P-03 fails the project.
ServiceHoldsResidency ==
    \A a \in OpaAnswers : a.kind = "findings" =>
        LET f == ParseFindings(a.raw)
        IN  (\E i \in DOMAIN f : f[i].principle_id = "P-03") => ~Passed(f)

\* With such a service no foreign project passes intake on a report that speaks
\* of P-03. The hypothesis is about the service only: nothing in this code could
\* replace it, and nothing else is needed.
THEOREM OnlyResidentsPassIntake ==
    ASSUME ServiceHoldsResidency
    PROVE  Spec => []OnlyResidentProjectsPass
<1>1. PassesOnServicesWord => OnlyResidentProjectsPass
  <2> SUFFICES ASSUME PassesOnServicesWord, NEW r \in Request, DOMAIN findings[r] # {},
                      Passed(findings[r]), ForeignRegion(request[r].submission),
                      NEW i \in DOMAIN findings[r], findings[r][i].principle_id = "P-03"
               PROVE  FALSE
    BY DEF OnlyResidentProjectsPass
  <2>1. PICK a \in OpaAnswers : a.kind = "findings" /\ findings[r] = ParseFindings(a.raw)
    BY DEF PassesOnServicesWord, IsServicesWord
  <2> QED BY <2>1 DEF ServiceHoldsResidency
<1> QED BY <1>1, ForeignPassIsTheServices, PTL
====
