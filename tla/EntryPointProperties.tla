---- MODULE EntryPointProperties ----
(***************************************************************************)
(* What holds whichever door a project comes through, and what an exit     *)
(* code of the evaluation gate is worth.                                   *)
(***************************************************************************)
EXTENDS EntryPoints

Verdicts == [1..12 -> Finding] \cup {<< >>}

MetricRow ==
    [family : Family, metric : Metric, score : 0..One, passed : BOOLEAN]

\* The types of the state; a mean of scores is a fraction.
TypeOK ==
    /\ deployment \in [profile : Profiles, routing : BOOLEAN, document : Documents]
    /\ call \in [Call -> [stage : {"idle", "begun", "judged", "handed", "told", "over",
                                   "lost", "evaluating"},
                          entry : Entry \cup {"none"}, findings : Verdicts,
                          routing : Routing \cup {"none"},
                          told : Routing \cup {"none", "refused", "unavailable", "error",
                                               "requirements", "accepted", "rejected"}]]
    /\ trail \subseteq [call : Call, layer : {"service", "turn"}, decision : Decision]
    /\ queue \subseteq Call /\ inflight \subseteq Call
    /\ stage \in {"none", "load", "score", "decide", "evaluate", "confirm", "ended"}
    /\ progress.family \in Family
    /\ progress.at \in 0..MaxLines /\ progress.scored \in 0..progress.at
    /\ report.n_examples \in Nat /\ report.rows \subseteq MetricRow
    /\ exit \in {NoExit, 0, 1}

----------------------------------------------------------------------------
\* The principles a call found unmet: what its caller is asked to remedy.
Asked(c) == {call[c].findings[i].principle_id : i \in Unmet(call[c].findings)}

Judged(c) == call[c].findings # << >>

\* The inputs that two calls do not share: the configured regions, and the
\* attributes, which only the MCP server leaves out.
ReadsConfig(c) == call[c].entry \in Validating

MayAskMore(c, d) ==
    (IF ReadsConfig(c) # ReadsConfig(d) THEN {"P-03"} ELSE {})
        \cup (IF call[c].entry \in OfMcp /\ call[d].entry \notin OfMcp
              THEN {"P-02", "P-03"} ELSE {})

\* The five readers of a submission (pydantic with its coercions, and four
\* loaders with bool() and defaults of their own) agree: through whichever door
\* one document comes, the same principles are found unmet. The MCP server,
\* which reads no attributes, may ask for more, and never for less; and the
\* requirement lists of the commands and of the agent go by the built-in regions
\* and so may differ in P-03. A flag that is a text is excepted for the API,
\* which reads it for what it says.
EntryPointsAgree ==
    \A c, d \in Call :
        /\ Judged(c) /\ Judged(d)
        /\ Typed(deployment.document) \/ "api" \notin {call[c].entry, call[d].entry}
        => Asked(c) \ Asked(d) \subseteq MayAskMore(c, d)

----------------------------------------------------------------------------
Ended(c) == call[c].stage \in {"told", "over"}

\* Whoever is told that a review is off or not required finds none in the queue,
\* and a review in the queue of the human checkers belongs to a call that is
\* still at work or was lost, or whose answer said so: routed, or failed when it
\* arrived late. The requirement list of the MCP server, which validates on the
\* way, is the one answer that keeps quiet about it. A call that ended in a
\* refusal or an error left neither a review nor a record.
QueuedIsTold ==
    /\ \A c \in queue \cup inflight : Ended(c) =>
           \/ call[c].told \in {"routed", "failed"}
           \/ call[c].entry = "mcp_inject" /\ call[c].told = "requirements"
    /\ \A c \in Call : call[c].told \in {"refused", "unavailable", "error"} =>
           /\ c \notin queue \cup inflight
           /\ \A record \in trail : record.call = c => record.layer = "turn"

----------------------------------------------------------------------------
Examples(lines) == {lines[i].example : i \in {i \in DOMAIN lines : lines[i].kind = "example"}}

\* The validator passed a project that the golden set wants to fail.
Leaks(example) == example.failed # {} /\ Passed(GoldenFindings(example))

Misjudged(scan) == Passes(Found(scan), ResidencyDefault) # ExpectedPass(scan)

\* The exit code that lets a change through is earned. Of a smoke run: both
\* golden sets were read to the end, and no golden project that is to fail was
\* passed and no golden scan was judged otherwise than expected; one miss is not
\* averaged away, nor rounded away. Of a gate run: on a profile that has an
\* evaluation service, and the report it shows passes.
PromotionIsEarned ==
    exit = 0 =>
        /\ ReportPassed(report)
        /\ run.mode = "smoke" =>
               /\ Examples(run.files.arch) # {} /\ Examples(run.files.residency) # {}
               /\ \A example \in Examples(run.files.arch) : ~Leaks(example)
               /\ \A scan \in Examples(run.files.residency) : ~Misjudged(scan)
        /\ run.mode = "gate" => run.profile \in {"platform", "gcp"}

\* The bars of the evaluation service are those of the reviewed rubrics, as the
\* comment beside them says: a promotion by the gcp profile met every one.
PromotionMeetsRubrics ==
    exit = 0 /\ run.mode = "gate" /\ run.profile = "gcp" =>
        \A row \in report.rows :
            row.metric \in DOMAIN run.rubric.arch => row.score >= run.rubric.arch[row.metric]
====
