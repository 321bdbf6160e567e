---- MODULE EvaluationGate ----
(***************************************************************************)
(* The evaluation gate of the validator (eval/run_eval.py): what decides   *)
(* whether a change may be merged (--mode smoke: two golden sets, scored   *)
(* by the real evaluator and the real residency detector) and whether it   *)
(* may be promoted (--mode gate: the evaluation service of the profile).   *)
(*                                                                         *)
(* A golden set is scored example by example; of the list of scores of a   *)
(* metric only its sum is kept. A score of the architecture family is      *)
(* rounded to four digits, so it is an integer in units of 1/10000; one of *)
(* the residency family is a fraction of at most six kinds, so it is an    *)
(* integer in units of 1/60. Bars and means are in units of 1/10000. The   *)
(* arithmetic is exact: the rounding errors of binary fractions, far below *)
(* the four digits, are left out, and a tie is rounded up.                 *)
(***************************************************************************)
EXTENDS SubmissionDocuments, RequirementInjection, ResidencyDetector

CONSTANTS
    GoldenFiles,      \* the pairs of golden files the gate is run on
    Rubrics,          \* what eval/rubrics can hold, per family
    ServiceAnswers,   \* answers of the evaluation service
    DefaultRegions,   \* principles_eval.ALLOWED_REGIONS
    ResidencyDefault, \* ResidencyPolicy()
    MaxLines          \* bound: lines of a golden file

One == 10000

Family == {"arch", "residency"}

Scored ==
    [arch      |-> {"principle_accuracy", "injection_recall", "citation_accuracy", "safety"},
     residency |-> {"detection_recall", "precision", "citation_accuracy", "safety"}]

Metric == Scored.arch \cup Scored.residency

\* The unit of a score of this family.
Unit(family) == IF family = "arch" THEN One ELSE 60

\* The bars a family's rubrics may set: for what is scored, or for anything else.
IsBars(bars) ==
    DOMAIN bars \subseteq Metric \cup {"unscored"} /\ \A m \in DOMAIN bars : bars[m] \in 0..One

\* A line of a golden file: blank or a comment, not JSON (or not of the form the
\* loader reads), or an example as the file spells it. An expectation that is
\* left out is "absent".
GoldenSubmission ==
    [document : {d \in Document : d.object}, failed : SUBSET Principles,
     says_injected : BOOLEAN, injected : SUBSET Principles]

GoldenScan ==
    [resource : Resource, kinds : SUBSET (ViolationKind \cup {"misspelt"}),
     expected_pass : {"true", "false", "absent"}]

Line(example) ==
    [kind : {"blank", "malformed"}] \cup [kind : {"example"}, example : example]

\* What a call of the evaluation service comes back with: an error, or scores
\* beside the bars they were graded against, and whether the red-team and the
\* attestation that go with them cleared the target.
IsServiceAnswer(answer) ==
    /\ {answer.raises, answer.cleared} \subseteq BOOLEAN
    /\ answer.n_examples \in Nat
    /\ DOMAIN answer.scores \subseteq Scored.arch
    /\ \A m \in DOMAIN answer.scores : answer.scores[m] \in [score : 0..One, bar : 0..One]

ASSUME GoldenAssumption ==
    /\ MaxLines \in 0..19999
    /\ \A files \in GoldenFiles :
           /\ files.arch \in Seq(Line(GoldenSubmission)) /\ Len(files.arch) <= MaxLines
           /\ files.residency \in Seq(Line(GoldenScan)) /\ Len(files.residency) <= MaxLines

\* The bar of both safety metrics is 1.0 (eval/rubrics/safety.yaml and
\* eval/rubrics/residency/detection.yaml).
ASSUME RubricAssumption ==
    \A rubric \in Rubrics, f \in Family :
        /\ IsBars(rubric[f])
        /\ "safety" \in DOMAIN rubric[f] => rubric[f]["safety"] = One

ASSUME EvaluationAssumption ==
    /\ \A answer \in ServiceAnswers : IsServiceAnswer(answer)
    /\ DefaultRegions \subseteq Region \ {Blank}
    /\ ResidencyDefault \in ResidencyPolicy

VARIABLES
    run,        \* how run_eval.py was started
    stage,      \* its next step
    progress,   \* the family being scored: lines read, examples scored, sums
    report,     \* the EvalReport so far
    exit        \* its exit code, or NoExit

gate == <<run, stage, progress, report, exit>>

----------------------------------------------------------------------------
\* round(n / d, 4)
Round4(n, d) == (2 * One * n + d) \div (2 * d)

\* What FakeLLM drafts: one item for each unmet principle the prompt lists.
FakeReply(findings) ==
    [kind  |-> "items",
     items |-> [k \in 1..Cardinality(Unmet(findings)) |->
        LET i == CHOOSE i \in Unmet(findings) :
                     Cardinality({j \in Unmet(findings) : j <= i}) = k
        IN  [object       |-> TRUE,
             principle_id |-> findings[i].principle_id,
             text         |-> TRUE,
             severity     |-> findings[i].severity,
             used         |-> {findings[i].principle_id}]]]

\* The real service on the deterministic fakes: what it finds and injects.
GoldenFindings(example) == EvaluateAll(FromGolden(example.document), DefaultRegions)

GoldenInjected(example) ==
    LET findings == GoldenFindings(example) IN Inject(findings, {}, FakeReply(findings))

\* load_golden: what is to be injected defaults to what is to fail.
ExpectedInjected(example) == IF example.says_injected THEN example.injected ELSE example.failed

\* score_principle_accuracy
PrincipleAccuracy(example) ==
    LET findings == GoldenFindings(example)
        correct  == {i \in DOMAIN findings :
                        findings[i].status = "FAIL" <=> findings[i].principle_id \in example.failed}
    IN  Round4(Cardinality(correct), Cardinality(DOMAIN findings))

\* score_injection_recall
InjectionRecall(example) ==
    LET expected == ExpectedInjected(example)
        injected == {GoldenInjected(example)[i].principle_id : i \in Unmet(GoldenFindings(example))}
    IN  IF expected = {} THEN One
        ELSE Round4(Cardinality(expected \cap injected), Cardinality(expected))

\* What is to be cited: each finding, which the evaluator made cite its own
\* principle, and each injected requirement.
CitedItems(example) ==
    Cardinality(DOMAIN GoldenFindings(example)) + Cardinality(DOMAIN GoldenInjected(example))

\* score_citation_accuracy
ArchCitationAccuracy(example) ==
    LET injected == GoldenInjected(example)
        bare     == {i \in DOMAIN injected : injected[i].citations = {}}
    IN  Round4(CitedItems(example) - Cardinality(bare), CitedItems(example))

\* score_safety
ArchSafety(example) ==
    IF example.failed # {} /\ Passed(GoldenFindings(example)) THEN 0 ELSE One

----------------------------------------------------------------------------
Found(scan) == Detect({scan.resource}, ResidencyDefault)

\* load_residency_golden: a kind that is misspelt is not expected, and a scan
\* that says nothing is expected to pass.
ExpectedKinds(scan) == scan.kinds \cap ViolationKind

ExpectedPass(scan) == scan.expected_pass # "false"

Share(part, whole) == (60 * Cardinality(part)) \div Cardinality(whole)

\* score_residency_detection_recall
DetectionRecall(scan) ==
    LET expected == ExpectedKinds(scan)
    IN  IF expected = {} THEN 60 ELSE Share(expected \cap Found(scan), expected)

\* score_residency_precision
Precision(scan) ==
    LET expected == ExpectedKinds(scan)
    IN  CASE Found(scan) = {}                       -> 60
          [] Found(scan) # {} /\ expected = {}      -> 0
          [] OTHER -> Share(expected \cap Found(scan), Found(scan))

\* The residency principle a violation cites.
CitedPrinciple(kind) ==
    CASE kind \in {"region_not_allowed", "global_endpoint", "unknown_region"} -> "P-03"
      [] kind = "missing_cmek" -> "P-10"
      [] OTHER                 -> "P-01"

\* score_residency_citation_accuracy
ResidencyCitationAccuracy(scan) ==
    IF \A kind \in Found(scan) : CitedPrinciple(kind) \in {"P-01", "P-03", "P-10"}
    THEN 60 ELSE 0

\* score_residency_safety, on the verdict of the detector's own policy.
ResidencySafety(scan) ==
    IF Passes(Found(scan), ResidencyDefault) = ExpectedPass(scan) THEN 60 ELSE 0

Score(family, metric, example) ==
    IF family = "arch"
    THEN CASE metric = "principle_accuracy" -> PrincipleAccuracy(example)
           [] metric = "injection_recall"   -> InjectionRecall(example)
           [] metric = "citation_accuracy"  -> ArchCitationAccuracy(example)
           [] metric = "safety"             -> ArchSafety(example)
    ELSE CASE metric = "detection_recall"   -> DetectionRecall(example)
           [] metric = "precision"          -> Precision(example)
           [] metric = "citation_accuracy"  -> ResidencyCitationAccuracy(example)
           [] metric = "safety"             -> ResidencySafety(example)

\* What the rates are fractions of, pooled over the examples: the metrics whose
\* denominator is asserted.
Rated == [arch      |-> {"principle_accuracy", "citation_accuracy", "injection_recall"},
          residency |-> {"detection_recall"}]

Denominator(metric, example) ==
    CASE metric = "principle_accuracy" -> Cardinality(DOMAIN GoldenFindings(example))
      [] metric = "citation_accuracy"  -> CitedItems(example)
      [] metric = "injection_recall"   -> Cardinality(ExpectedInjected(example))
      [] metric = "detection_recall"   -> Cardinality(ExpectedKinds(example))

\* agent_eval_kit.assert_denominator_supports: a bar below 1.0 is a rate, and
\* needs as many cases as make one miss affordable.
DenominatorSupports(bar, denominator) ==
    bar = One \/ denominator * (One - bar) >= One

----------------------------------------------------------------------------
NoRun == [mode |-> "none"]
Unscored == [family |-> "arch", at |-> 0, scored |-> 0, sums |-> << >>, pooled |-> << >>]
NoReport == [n_examples |-> 0, rows |-> {}]
NoExit == -1

GateInit ==
    /\ run = NoRun
    /\ stage = "none"
    /\ progress = Unscored
    /\ report = NoReport
    /\ exit = NoExit

\* EvalReport.passed (agent_eval_kit): a report over nothing does not pass.
ReportPassed(rep) == rep.n_examples > 0 /\ rep.rows # {} /\ \A row \in rep.rows : row.passed

\* --mode smoke: run_offline
StartSmoke ==
    /\ stage = "none"
    /\ \E files \in GoldenFiles, rubric \in Rubrics :
           run' = [mode |-> "smoke", files |-> files, rubric |-> rubric]
    /\ stage' = "load"
    /\ UNCHANGED <<progress, report, exit>>

\* --mode gate: run_gate, on the profile of its own settings.
StartGate(profile) ==
    /\ stage = "none"
    /\ \E rubric \in Rubrics : run' = [mode |-> "gate", profile |-> profile, rubric |-> rubric]
    /\ stage' = "evaluate"
    /\ UNCHANGED <<progress, report, exit>>

Conclude(code) ==
    /\ stage' = "ended"
    /\ exit' = code
    /\ UNCHANGED <<run, progress, report>>

Lines == run.files[progress.family]

Bar(metric) == run.rubric[progress.family][metric]

\* assert_covers: a bar for each scored metric, and for nothing else.
Covered == DOMAIN run.rubric[progress.family] = Scored[progress.family]

\* A golden file with a line that is no JSON, or without an example.
Unusable ==
    \/ \E i \in DOMAIN Lines : Lines[i].kind = "malformed"
    \/ \A i \in DOMAIN Lines : Lines[i].kind # "example"

\* The rubrics of the family, then its golden set.
Load ==
    /\ stage = "load" /\ Covered /\ ~Unusable
    /\ stage' = "score"
    /\ progress' = [progress EXCEPT !.at = 0, !.scored = 0,
                        !.sums = [m \in Scored[progress.family] |-> 0],
                        !.pooled = [m \in Rated[progress.family] |-> 0]]
    /\ UNCHANGED <<run, report, exit>>

LoadFails == stage = "load" /\ (~Covered \/ Unusable) /\ Conclude(1)

SkipLine ==
    /\ stage = "score" /\ progress.at < Len(Lines)
    /\ Lines[progress.at + 1].kind = "blank"
    /\ progress' = [progress EXCEPT !.at = @ + 1]
    /\ UNCHANGED <<run, stage, report, exit>>

ScoreLine ==
    /\ stage = "score" /\ progress.at < Len(Lines)
    /\ Lines[progress.at + 1].kind = "example"
    /\ LET family == progress.family
           example == Lines[progress.at + 1].example
       IN  progress' =
               [family |-> family, at |-> progress.at + 1, scored |-> progress.scored + 1,
                sums   |-> [m \in Scored[family] |-> progress.sums[m] + Score(family, m, example)],
                pooled |-> [m \in Rated[family] |-> progress.pooled[m] + Denominator(m, example)]]
    /\ UNCHANGED <<run, stage, report, exit>>

\* A bug to catch: the sum is divided by the number of examples whatever the
\* family scores in.
MeanUnscaled(metric) == Round4(progress.sums[metric], progress.scored)

\* _PerMetric.mean, rounded: the mean of the scores of the examples.
Mean(metric) == Round4(progress.sums[metric], progress.scored * Unit(progress.family))

Row(metric) ==
    [family |-> progress.family, metric |-> metric, score |-> Mean(metric),
     passed |-> Mean(metric) >= Bar(metric)]

Supported ==
    \A m \in Rated[progress.family] : DenominatorSupports(Bar(m), progress.pooled[m])

AllRead == stage = "score" /\ progress.at = Len(Lines)

NextFamily ==
    IF progress.family = "arch"
    THEN stage' = "load" /\ progress' = [Unscored EXCEPT !.family = "residency"]
    ELSE stage' = "decide" /\ progress' = progress

Rows == {Row(m) : m \in Scored[progress.family]}

\* A bug to catch: the reports are merged by the bare names of their metrics, and
\* a row of the second family takes the place of one of the first.
SettleUnprefixed ==
    /\ AllRead /\ Supported
    /\ report' = [n_examples |-> report.n_examples + progress.scored,
                  rows |-> Rows \cup {row \in report.rows : row.metric \notin Scored[progress.family]}]
    /\ NextFamily
    /\ UNCHANGED <<run, exit>>

\* The rows of a family are added to the report, and the next family is loaded.
Settle ==
    /\ AllRead /\ Supported
    /\ report' = [n_examples |-> report.n_examples + progress.scored,
                  rows       |-> report.rows \cup Rows]
    /\ NextFamily
    /\ UNCHANGED <<run, exit>>

SettleFails == AllRead /\ ~Supported /\ Conclude(1)

\* eval_main: the exit code of a smoke run.
Decide == stage = "decide" /\ Conclude(IF ReportPassed(report) THEN 0 ELSE 1)

----------------------------------------------------------------------------
\* _THRESHOLDS of the Gen AI evaluation service.
GenAiBars ==
    [m \in Scored.arch |->
        CASE m = "injection_recall" -> 8000 [] m = "safety" -> 9900 [] OTHER -> 9000]

\* _extract_summary_scores: a score that is missing or cannot be read is 0.0.
GenAiScore(answer, metric) ==
    IF metric \in DOMAIN answer.scores THEN answer.scores[metric].score ELSE 0

\* GenAiEvalAdapter._to_report
GenAiReport(answer) ==
    [n_examples |-> answer.n_examples,
     rows       |-> {[family |-> "arch", metric |-> m, score |-> GenAiScore(answer, m),
                      passed |-> GenAiScore(answer, m) >= GenAiBars[m]] : m \in Scored.arch}]

\* PromotionGateClient (agent_eval_kit): the rows as the service graded them.
RemoteReport(answer) ==
    [n_examples |-> answer.n_examples,
     rows       |-> {[family |-> "arch", metric |-> m, score |-> answer.scores[m].score,
                      passed |-> answer.scores[m].score >= answer.scores[m].bar] :
                        m \in DOMAIN answer.scores}]

ReportOf(answer) ==
    IF run.profile = "gcp" THEN GenAiReport(answer) ELSE RemoteReport(answer)

\* EvaluationGatePort.gate: a second evaluation, with what comes with it.
GateAnswer(answer) ==
    ReportPassed(ReportOf(answer)) /\ (run.profile = "platform" => answer.cleared)

\* run_gate refuses to speak for a profile without an evaluation service.
GateRefused ==
    stage = "evaluate" /\ run.profile \notin {"platform", "gcp"} /\ Conclude(1)

Evaluate ==
    /\ stage = "evaluate" /\ run.profile \in {"platform", "gcp"}
    /\ \E answer \in ServiceAnswers : ~answer.raises /\ report' = ReportOf(answer)
    /\ stage' = "confirm"
    /\ UNCHANGED <<run, progress, exit>>

\* A bug to catch: the report is for the reader, the second call decides.
ConfirmAlone ==
    /\ stage = "confirm"
    /\ \E answer \in ServiceAnswers :
           ~answer.raises /\ Conclude(IF GateAnswer(answer) THEN 0 ELSE 1)

\* eval_main: the report and the verdict of the second call both have to pass.
Confirm ==
    /\ stage = "confirm"
    /\ \E answer \in ServiceAnswers :
           ~answer.raises /\ Conclude(IF ReportPassed(report) /\ GateAnswer(answer) THEN 0 ELSE 1)

ServiceFails ==
    /\ \/ stage = "evaluate" /\ run.profile \in {"platform", "gcp"}
       \/ stage = "confirm"
    /\ \E answer \in ServiceAnswers : answer.raises
    /\ Conclude(1)

GateStep ==
    \/ Load \/ LoadFails \/ SkipLine \/ ScoreLine \/ Settle \/ SettleFails \/ Decide
    \/ GateRefused \/ Evaluate \/ Confirm \/ ServiceFails
====
