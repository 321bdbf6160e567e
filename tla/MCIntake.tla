---- MODULE MCIntake ----
(* Constants for checking the intake pipeline with TLC. *)
EXTENDS IntakeProperties, TLC

CONSTANTS r1, r2    \* the requests, as model values

MCRegion == {Blank, "asia-southeast1", "us-east1"}
MCAllowed == {"asia-southeast1"}
\* The built-in list allows a region that this deployment does not.
MCDefault == {"asia-southeast1", "us-east1"}
MCSource == {"mas-trm", "ctl-cmek"}

Declared(controls) == {[word |-> c, padded |-> FALSE] : c \in controls}

In(region) == [word |-> region, padded |-> FALSE]

Plain == [k \in AttributeKey |-> [word |-> "other", padded |-> FALSE]]

Project(controls, region, attributes) ==
    [declared_controls |-> Declared(controls), declared_region |-> region,
     attributes |-> attributes, uses_pii |-> TRUE, uses_rag |-> TRUE,
     uses_fine_tuning |-> FALSE, has_exit_plan |-> TRUE]

Clean == Project(Control, In("asia-southeast1"), Plain)

\* Passes, with P-10 open at high severity.
NoKillSwitch ==
    Project(Control \ {"kill_switch", "circuit_breaker"}, In("asia-southeast1"), Plain)

Foreign == Project(Control, In("us-east1"), Plain)

Waived ==
    Project(Control, In("us-east1"),
            [Plain EXCEPT !["region_exception"] = [word |-> "signed", padded |-> FALSE]])

NoRegionGiven == Project(Control \ {"cmek"}, NoRegion, Plain)

Raw(id, status, severity) ==
    [object |-> TRUE, principle_id |-> id, status |-> status, severity |-> severity]

Junk == [Raw("P-01", "FAIL", "high") EXCEPT !.object = FALSE]

Findings(raw) == [kind |-> "findings", raw |-> raw]

Unreachable == [kind |-> "unreachable"]
Malformed == [kind |-> "malformed"]

\* What a policy service can answer when it does not serve the bundle whole.
OddAnswers ==
    {Unreachable, Malformed, [kind |-> "no_findings"], Findings(<<>>), Findings(<<Junk>>),
     Findings(<<Raw("P-01", "PASS", "high"), Junk, Raw(Blank, "FAIL", "high")>>),
     Findings(<<Raw("P-03", "FAIL", "critical"), Raw("P-03", "other", "other")>>),
     Findings(<<Raw("unlisted", "FAIL", "low"), Raw("P-07", "NEEDS_INFO", "medium")>>)}

Item(id, severity, used) ==
    [object |-> TRUE, principle_id |-> id, text |-> TRUE, severity |-> severity, used |-> used]

Items(seq) == [kind |-> "items", items |-> seq]

NoReply == [kind |-> "raised"]

RichReplies ==
    {NoReply, [kind |-> "unusable"], Items(<<>>)}
    \cup {Items(<<[Item(id, severity, used) EXCEPT !.text = text], Item(other, "low", {"invented"})>>) :
            id \in {"P-03", "P-10", "unlisted", Blank}, other \in {"P-03", "P-10"},
            severity \in {"low", "other"}, text \in BOOLEAN,
            used \in {{}, {"invented"}, {"invented", "mas-trm"}, {"ctl-cmek", "P-03"}}}

Scans ==
    {[passed |-> TRUE, review |-> FALSE, sources |-> {}],
     [passed |-> FALSE, review |-> TRUE, sources |-> {"mas-trm"}],
     [passed |-> TRUE, review |-> TRUE, sources |-> {"mas-trm"}],
     [passed |-> FALSE, review |-> FALSE, sources |-> {"mas-trm"}]}

\* --- the constants of the runs ---
AllProjects == {Clean, NoKillSwitch, Foreign, Waived, NoRegionGiven}
TwoProjects == {Foreign, NoKillSwitch}
RetrievedAny == SUBSET MCSource
RetrievedOrNot == {{}, {"mas-trm"}}
NothingBack == {{}}
OneReply == {Items(<<Item("P-10", "low", {"invented"})>>)}
FewAnswers == {Unreachable, Malformed}
OneScan == {[passed |-> FALSE, review |-> TRUE, sources |-> {"mas-trm"}]}
DurableProfiles == {"gcp", "platform"}
OnlyGcp == {"gcp"}
GcpAndLocal == {"gcp", "local"}
OneRequest == {r1}
TwoRequests == {r1, r2}
Symmetry == Permutations(TwoRequests)
====
