---- MODULE IntakeProperties ----
(***************************************************************************)
(* What makes the intake pipeline of ValidationService correct.            *)
(***************************************************************************)
EXTENDS ValidationService

\* Every variable has the type its part of the code gives it.
TypeOK ==
    /\ deployment \in [profile : Profile, routing : BOOLEAN]
    /\ request \in [Request -> [submission : Submissions, actor : Actor, tenant : Tenant]]
    /\ pc \in [Request -> Working \cup {"idle", "done", "error", "lost"}]
    /\ findings = [r \in Request |-> findings[r]]
    /\ \A r \in Request : IsFindings(findings[r])
    /\ sources \in [Request -> SUBSET Source]
    /\ scan \in [Request -> [passed : BOOLEAN, review : BOOLEAN, sources : SUBSET Source]]
    /\ injected = [r \in Request |-> injected[r]]
    /\ \A r \in Request : \A i \in DOMAIN injected[r] : injected[r][i] \in Requirement
    /\ outcomes \in [Request -> SUBSET Routing]
    /\ answer \in [Request -> Routing \cup {"none"}]
    /\ trail \in Seq(Record)
    /\ console \in Seq(Review)
    /\ inflight \subseteq Review

\* The request got past the assembly of its report.
Assembled(r) == pc[r] \in {"audit", "route", "respond", "done"}

RecordsOf(r) == {k \in DOMAIN trail : trail[k].kind = "intake" /\ trail[k].request = r}

ReviewsOf(r) == {k \in DOMAIN console : console[k].kind = "intake" /\ console[k].request = r}

\* Every review that is, or may still get, on the console.
HandedOver == {console[k] : k \in DOMAIN console} \cup inflight

\* Whatever the model replies (nothing, too few items, two for one principle,
\* items for principles that are met), the report carries exactly one
\* requirement for each unmet finding, and that finding's.
OneRequirementPerUnmetPrinciple ==
    \A r \in Request : Assembled(r) =>
        /\ DOMAIN injected[r] = Unmet(findings[r])
        /\ \A i \in DOMAIN injected[r] :
               injected[r][i].principle_id = findings[r][i].principle_id

\* Every injected requirement cites something, and only the finding's principle
\* or a source that was retrieved for this request: never a source the model
\* invented, never one of another request.
GroundedRequirements ==
    \A r \in Request : Assembled(r) =>
        \A i \in DOMAIN injected[r] :
            /\ injected[r][i].citations # {}
            /\ injected[r][i].citations \subseteq {findings[r][i].principle_id} \cup sources[r]

ForeignRegion(s) ==
    /\ StrippedRegion(s) \notin AllowedRegions \cup {Blank}
    /\ ~AttrTrue(s, "region_exception")

\* A project in a region the deployment does not allow never passes intake
\* without a signed exception, on the policy service's verdict or on the
\* fallback's: the only report it can pass with is one in which the policy
\* service said nothing about P-03.
OnlyResidentProjectsPass ==
    \A r \in Request :
        (/\ DOMAIN findings[r] # {}
         /\ Passed(findings[r])
         /\ ForeignRegion(request[r].submission))
        => \A i \in DOMAIN findings[r] : findings[r][i].principle_id # "P-03"

\* A review over a report with a failed principle, or with an open finding of
\* high severity, asks for two approvals, whatever severities the model gave
\* the requirements and whichever engine reached the verdict.
DualControlOnOpenRisk ==
    \A review \in HandedOver :
        (/\ review.kind = "intake"
         /\ RequiresReviewOnRisk(findings[review.request]))
        => review.approvals = 2

\* The record and the review of one report tell one story: both speak for the
\* verified caller, the review in the caller's tenant, and a report recorded as
\* escalated is under dual control at high severity.
RecordAgreesWithReview ==
    \A review \in HandedOver : review.kind = "intake" =>
        /\ review.maker = request[review.request].actor
        /\ review.tenant = request[review.request].tenant
        /\ \A k \in RecordsOf(review.request) :
               /\ trail[k].actor = review.maker
               /\ trail[k].decision = "ESCALATED" =>
                      review.approvals = 2 /\ review.severity \in HighSeverity

\* What the response says of the hand-off is true: "routed" means the console
\* holds the review (the in-memory outbox of the local profile does until it is
\* restarted), "off" that none was or will be sent, and no report is released
\* as not requiring a review.
DisclosureIsTrue ==
    \A r \in Request : pc[r] = "done" =>
        /\ answer[r] \in {"routed", "failed", "off"}
        /\ (answer[r] = "routed" /\ deployment.profile # "local") => ReviewsOf(r) # {}
        /\ answer[r] = "off" =>
               \A review \in HandedOver : review.kind = "intake" => review.request # r

\* However late the console answers, one report is recorded at most once and
\* reviewed at most once.
OneRecordOneReview ==
    \A r \in Request :
        /\ \A j, k \in RecordsOf(r) : j = k
        /\ \A j, k \in ReviewsOf(r) : j = k
        /\ ReviewsOf(r) # {} =>
               \A review \in inflight : review.kind = "intake" => review.request # r

\* A request that ends in an exception leaves nothing behind: no record, no
\* review, not even of a nested scan.
ErrorsLeaveNoTrace ==
    \A r \in Request : pc[r] = "error" =>
        /\ \A k \in DOMAIN trail : trail[k].request # r
        /\ \A review \in HandedOver : review.request # r

----------------------------------------------------------------------------
ReportVerdict(r) ==
    IF DOMAIN findings[r] = {} THEN "none"
    ELSE IF Passed(findings[r]) THEN "passed" ELSE "blocked"

Gate == INSTANCE IntakeGate WITH
    verdict  <- [r \in Request |-> ReportVerdict(r)],
    recorded <- {<<trail[k].request, trail[k].decision>> :
                    k \in {k \in DOMAIN trail : trail[k].kind = "intake"}},
    queued   <- {console[k].request :
                    k \in {k \in DOMAIN console : console[k].kind = "intake"}},
    answer   <- [r \in Request |-> IF pc[r] \in {"error", "lost"} THEN pc[r] ELSE answer[r]]

\* The pipeline implements IntakeGate on the profiles with a durable console:
\* one verdict per request, recorded before it is queued, and a true answer.
Refines == Gate!Spec

----------------------------------------------------------------------------
(* A claim of the repository that the pipeline does not keep.              *)

\* validation_service.py:115-116: "The OPA path may raise; fall back to the
\* deterministic in-process evaluator so a verdict is always produced". Here: a
\* request that got as far as the policy engine does not end in an exception.
VerdictAlwaysProduced ==
    [][\A r \in Request : pc[r] = "evaluate" => pc'[r] # "error"]_vars
====
