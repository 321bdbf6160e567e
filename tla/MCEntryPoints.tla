---- MODULE MCEntryPoints ----
(***************************************************************************)
(* Two calls of every kind on one project, or one evaluation: the calls and *)
(* the evaluation share no state but the eval command that waits for it.   *)
(***************************************************************************)
EXTENDS EntryPointProperties, TLC

CONSTANTS c1, c2

TwoCalls == {c1, c2}
OneCall == {c1}
Symmetry == Permutations(TwoCalls)

\* --- the project ---
MCRegion == {Blank, "asia-southeast1", "asia-east2", "us-east1"}
MCLower == [r \in MCRegion |-> r]
MCAllowed == {"asia-southeast1"}
\* The built-in list allows a region that this deployment does not.
MCDefault == {"asia-southeast1", "asia-east2"}

Word(w) == [word |-> w, padded |-> FALSE]

Declared(controls) == {Word(c) : c \in controls}

Whole ==
    [object |-> TRUE, named |-> TRUE, declared_region |-> Word("asia-southeast1"),
     controls_form |-> "list", declared_controls |-> Declared(Control),
     attributes |-> Unattributed,
     flags |-> [f \in Flags |-> IF f = "has_exit_plan" THEN "true" ELSE "false"]]

Waiver == [Unattributed EXCEPT !["region_exception"] = Word("signed")]
Documented == [Unattributed EXCEPT !["documented_fallback"] = Word("signed")]

\* A whole project, and projects in which one thing is missing, null, a text
\* where the schema has another type, foreign, waived or documented.
MCDocuments ==
    {Whole, [Whole EXCEPT !.object = FALSE], [Whole EXCEPT !.named = FALSE],
     EmptyDocument, [EmptyDocument EXCEPT !.named = TRUE],
     [Whole EXCEPT !.attributes = Documented, !.declared_controls = Declared(Control \ {"ports_and_adapters"})]}
    \cup {[Whole EXCEPT !.declared_region = r] : r \in {NoRegion, Word(Blank), Word("asia-east2")}}
    \cup {[Whole EXCEPT !.declared_region = Word("us-east1"), !.attributes = a] :
             a \in {Unattributed, Waiver}}
    \cup {[Whole EXCEPT !.controls_form = form] : form \in {"null", "text"}}
    \cup {[Whole EXCEPT !.flags["has_exit_plan"] = v] : v \in {"absent", "false", "null", "text"}}
    \cup {[Whole EXCEPT !.flags["uses_pii"] = v, !.flags["uses_fine_tuning"] = "true"] :
             v \in {"absent", "true", "null", "text"}}

OneDocument == {Whole}

\* --- the golden sets ---
Example(e) == [kind |-> "example", example |-> e]
Empty == [kind |-> "blank"]
Malformed == [kind |-> "malformed"]

Golden(d, failed) ==
    [document |-> d, failed |-> failed, says_injected |-> FALSE, injected |-> {}]

Bare == [Whole EXCEPT !.declared_controls = {}, !.flags["has_exit_plan"] = "false"]
BareFails == {"P-01", "P-02", "P-06", "P-07", "P-08", "P-09", "P-12"}

\* What the evaluator does find, one principle short of what is expected, and a
\* project it passes that is expected to fail.
Good == Example(Golden(Whole, {}))
Bad == Example(Golden(Bare, BareFails))
Near == Example(Golden(Bare, BareFails \cup {"P-04"}))
Leak == Example(Golden(Whole, {"P-04"}))
Injected == Example([Golden(Bare, BareFails) EXCEPT !.says_injected = TRUE, !.injected = {"P-10", "P-11"}])

Bucket(region, attributes) ==
    [type |-> "google_storage_bucket", region |-> region, attributes |-> attributes]

Unset == [k \in ControlKeys \cup LiveKeys |-> "absent"]
Set == [Unset EXCEPT !["kms_key_name"] = "other", !["service_perimeter"] = "other"]

Scan(resource, kinds, expected) ==
    Example([resource |-> resource, kinds |-> kinds, expected_pass |-> expected])

CleanScan == Scan(Bucket("asia-southeast1", Set), {}, "absent")
OpenKinds == {"region_not_allowed", "missing_cmek", "public_egress", "residency_control_missing"}
OpenScan == Scan(Bucket("us-east1", [Unset EXCEPT !["ipv4_enabled"] = "true"]), OpenKinds, "false")
\* A medium violation alone passes the gate.
MediumScan ==
    Scan(Bucket("asia-southeast1", [Unset EXCEPT !["kms_key"] = "other"]),
         {"residency_control_missing", "misspelt"}, "true")
WrongScan == Scan(Bucket("asia-southeast1", Set), {}, "false")
Spurious == Scan(Bucket("us-east1", Set), {"missing_cmek"}, "false")

Files(arch, residency) == [arch |-> arch, residency |-> residency]

Enough == <<CleanScan, OpenScan, OpenScan, OpenScan>>

MCGoldenFiles ==
    {Files(<<Good, Empty, Bad>>, Enough), Files(<<Bad>>, <<OpenScan, Empty, OpenScan, OpenScan>>),
     Files(<<Bad, Near>>, Enough), Files(<<Bad, Leak>>, Enough), Files(<<Leak, Bad, Bad, Bad>>, Enough),
     Files(<<Bad, Injected>>, Enough), Files(<<Good, Good>>, Enough),
     Files(<<Bad, Bad>>, <<OpenScan, MediumScan, OpenScan, OpenScan>>),
     Files(<<Bad, Bad>>, <<OpenScan, WrongScan, OpenScan, OpenScan>>),
     Files(<<Bad, Bad>>, <<OpenScan, Spurious, OpenScan, OpenScan>>),
     Files(<<Bad, Bad>>, <<OpenScan, CleanScan>>),
     Files(<<Bad, Malformed>>, Enough), Files(<<Bad, Bad>>, <<Malformed>>),
     Files(<<Empty>>, Enough), Files(<<Bad, Bad>>, << >>)}

Rates == [m \in Metric \ {"safety"} |-> IF m = "injection_recall" THEN 8000 ELSE 9000]

BarsOf(names) == [m \in names |-> IF m \in DOMAIN Rates THEN Rates[m] ELSE One]

Shipped == [f \in Family |-> BarsOf(Scored[f])]

\* The shipped rubrics; one bar short, one bar too many; and rates a lenient
\* reviewer would sign.
MCRubrics ==
    {Shipped,
     [Shipped EXCEPT !["residency"] = BarsOf(Scored.residency \ {"precision"})],
     [Shipped EXCEPT !["arch"] = BarsOf(Scored.arch \cup {"unscored"})],
     [f \in Family |-> [m \in Scored[f] |-> IF m = "safety" THEN One ELSE 5000]]}

Scores(safety) ==
    [m \in Scored.arch |-> [score |-> IF m = "safety" THEN safety ELSE One,
                            bar   |-> IF m = "safety" THEN One ELSE 9000]]

Answered(scores) == [raises |-> FALSE, n_examples |-> 8, cleared |-> TRUE, scores |-> scores]

MCAnswers ==
    {Answered(Scores(One)), Answered(Scores(9950)), Answered(Scores(9000)), Answered(<< >>),
     Answered([m \in {"safety", "citation_accuracy"} |-> Scores(One)[m]]),
     [Answered(Scores(One)) EXCEPT !.n_examples = 0],
     [Answered(Scores(One)) EXCEPT !.cleared = FALSE],
     [Answered(<< >>) EXCEPT !.raises = TRUE]}

MCResidency ==
    [allowed_regions |-> {"asia-southeast1", "asia-east2"},
     required_controls |-> ResidencyControl, gate_severity |-> "high"]

MCProfiles == {"local", "gcp", "platform", "onprem"}
OnlyGcp == {"gcp"}
NoSource == {}

\* The calls and the evaluation are not interleaved, and the evaluation is not
\* repeated for each project: it does not read it.
OneThingAtATime ==
    \/ run = NoRun
    \/ /\ deployment.document = Whole /\ deployment.routing
       /\ \A c \in Call : call[c].stage = "idle" \/ call[c].entry = "eval"
====
