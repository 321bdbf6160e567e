---- MODULE ScanProperties ----
(***************************************************************************)
(* What makes the residency scan of ResidencyScan correct.                 *)
(***************************************************************************)
EXTENDS ResidencyScan

Record == [scan : Scan, actor : {CliActor, "caller"}, decision : Decision]

Review ==
    [scan : Scan, maker : {CliActor, "caller"}, tenant : {NoTenant}, severity : Severity,
     approvals : {1, 2}]

\* Every variable has the type its part of the code gives it.
TypeOK ==
    /\ deployment \in [profile : Profile, policy : Policies, routing : BOOLEAN]
    /\ call \in [Scan -> Calls]
    /\ directory \in [File -> TfFile(Contents)]
    /\ pc \in [Scan -> Working \cup Ended \cup {"idle"}]
    /\ listing \in [Scan -> [File -> TfFile(Contents)]]
    /\ touched \in [Scan -> SUBSET File]
    /\ unread \in [Scan -> SUBSET File]
    /\ resources = [s \in Scan |-> resources[s]]
    /\ \A s \in Scan : \A resource \in resources[s] : resource \in Resource
    /\ kinds \in [Scan -> SUBSET ViolationKind]
    /\ verdict \in [Scan -> {"none", "passed", "failed"}]
    /\ outcomes \in [Scan -> SUBSET Routing]
    /\ answer \in [Scan -> Routing \cup {"none"}]
    /\ trail \in Seq(Record)
    /\ console \in Seq(Review)
    /\ inflight \subseteq Review

RecordsOf(s) == {k \in DOMAIN trail : trail[k].scan = s}

ReviewsOf(s) ==
    {review \in {console[k] : k \in DOMAIN console} \cup inflight : review.scan = s}

\* What a passing scan has to answer for: what was sent to it or lives in its
\* scope; of a directory, the files it listed and nobody touched meanwhile.
Answerable(s) ==
    CASE SourceOf(call[s]) \in {"resources", "scope"} -> call[s].estate
      [] SourceOf(call[s]) = "directory" ->
             UNION {listing[s][f].resources : f \in File \ touched[s]}
      [] OTHER -> {}

\* A scan that passes has graded every resource it answers for: editing some
\* files, removing or locking others while the directory is read hides nothing
\* of the rest, and no resource makes up for another.
PassIsEarned ==
    \A s \in Scan : (pc[s] = "done" /\ Passing(s)) =>
        \A resource \in Answerable(s) :
            Passes(DetectOne(resource, deployment.policy), deployment.policy)

\* A plan is graded whole: every usable resource of every module, however deep
\* in the module tree it is called.
PlanIsWalkedWhole ==
    \A s \in Scan :
        (SourceOf(call[s]) \in {"plan", "plan_json"} /\ pc[s] \in Working \ {"resolve"}) =>
            \A m \in DOMAIN call[s].doc.modules : \A entry \in call[s].doc.modules[m].entries :
                entry.usable => entry.resource \in resources[s]

\* Allowed is only what passed, and what passed with nothing to review is allowed.
DecisionIsTrue(decision, s) ==
    /\ decision = "ALLOWED" => ExitCode(s) = 0
    /\ ExitCode(s) = 0 /\ ~NeedsReview(kinds[s]) => decision = "ALLOWED"

\* The exit code, the record and the review of a scan tell one story. What is
\* recorded as allowed has passed, and what passed with nothing to review is
\* recorded as allowed; both sinks speak for the caller; a review is asked for
\* by a high violation only, at high severity and under dual control; and no
\* scan that found one is answered as not requiring a review. How a scan is
\* recorded that passes and is routed all the same is left open: the code records
\* it as allowed, the docstring at scan_service.py:194-196 says as escalated.
OutcomesAgree ==
    \A s \in Scan :
        /\ \A k \in RecordsOf(s) :
               /\ trail[k].actor = Actor(s)
               /\ pc[s] = "done" => DecisionIsTrue(trail[k].decision, s)
               /\ trail[k].decision = "ESCALATED" => NeedsReview(kinds[s])
        /\ \A review \in ReviewsOf(s) :
               /\ NeedsReview(kinds[s])
               /\ review.maker = Actor(s)
               /\ review.severity = "high" /\ review.approvals = 2
        /\ pc[s] = "done" => (answer[s] = "not_required") = ~NeedsReview(kinds[s])

\* Every scan a process took ends.
EveryScanEnds == \A s \in Scan : pc[s] = "resolve" ~> pc[s] \in Ended

----------------------------------------------------------------------------
\* To the gate, a scan that asks for no review is one whose review is off, and
\* the outbox of the local profile is a queue like the console.
Gate == INSTANCE IntakeGate WITH
    Request  <- Scan,
    verdict  <- [s \in Scan |-> IF verdict[s] = "failed" THEN "blocked" ELSE verdict[s]],
    recorded <- {<<trail[k].scan, IF trail[k].decision = "ALLOWED" THEN "ALLOWED" ELSE "ESCALATED">> :
                    k \in DOMAIN trail},
    queued   <- {console[k].scan : k \in DOMAIN console}
                    \cup {s \in Scan : deployment.profile = "local" /\ "routed" \in outcomes[s]},
    answer   <- [s \in Scan |->
                    CASE pc[s] \in {"refused", "failed", "crashed"} -> "error"
                      [] pc[s] = "lost" -> "lost"
                      [] OTHER -> IF answer[s] = "not_required" THEN "off" ELSE answer[s]]

\* The scan implements the gate the intake pipeline implements: one verdict,
\* recorded at most once and before it is queued, nothing left behind by a scan
\* without one, and a true answer.
ImplementsGate == Gate!Spec

----------------------------------------------------------------------------
(* A claim of the repository that the scan does not keep.                  *)

\* domain/errors.py:41-43: "an unreadable .tf directory ... is a hard error for
\* the residency scan: the CI gate must fail loudly rather than emit a misleading
\* PASS over zero scanned resources". Here: a scan of which no listed file could
\* be opened, then or since, does not pass.
UnreadableFailsLoudly ==
    \A s \in Scan :
        (/\ SourceOf(call[s]) = "directory" /\ touched[s] = {}
         /\ \A f \in File : listing[s][f].status \in {"absent", "unreadable"}
         /\ pc[s] = "done")
        => ~Passing(s)
====
