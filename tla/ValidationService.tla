---- MODULE ValidationService ----
(***************************************************************************)
(* The intake pipeline of the validator                                    *)
(* (domain/validation_service.py, behind POST /validate): concurrent       *)
(* requests are validated by worker threads that share nothing but the     *)
(* audit trail and the human-review console.                               *)
(*                                                                         *)
(* Each step of a request is one action: it is what happens between two    *)
(* calls to a collaborator, and every outcome of that call is a choice.    *)
(* The console answers a hand-off, refuses it, or is too slow: the client  *)
(* gives up on a review that is still on its way (inflight).               *)
(***************************************************************************)
EXTENDS PrinciplesEval, OpaPolicy, RequirementInjection, ReviewHandoff

CONSTANTS
    Request,
    Profile,          \* the runtime profiles considered
    Submissions,      \* the submissions a caller can send
    Actor, Tenant,    \* server-verified callers
    AllowedRegions,   \* settings.policy.allowed_regions
    DefaultRegions,   \* principles_eval.ALLOWED_REGIONS
    OpaAnswers,       \* answers of the policy service other than the bundle's own
    Retrieved,        \* what the knowledge base can return; {} is also its outage
    Sibling,          \* what a sibling service can return; {} is also its outage
    ScanResult,       \* outcomes of the nested residency scan
    ModelReplies      \* replies of the drafting model

\* A deployment is not built without a region it allows (PolicySettings).
ASSUME DeploymentAssumption ==
    /\ Profile \subseteq {"local", "gcp", "platform"}
    /\ Submissions \subseteq Submission
    /\ AllowedRegions \subseteq Region \ {Blank} /\ AllowedRegions # {}
    /\ DefaultRegions \subseteq Region \ {Blank}

ASSUME CollaboratorAssumption ==
    /\ OpaAnswers \subseteq OpaAnswer
    /\ Retrieved \subseteq SUBSET Source
    /\ Sibling \subseteq SUBSET Source
    /\ ScanResult \subseteq [passed : BOOLEAN, review : BOOLEAN, sources : SUBSET Source]
    /\ ModelReplies \subseteq ModelReply

ServiceActor == "architecture-validator"
NoTenant == ""

VARIABLES
    deployment,   \* the profile, and whether review routing is switched on
    request,      \* per request: its submission and its caller
    pc,           \* per request: the next step
    findings,     \* per request: the policy engine's findings
    sources,      \* per request: kb_citations, by source
    scan,         \* per request: the nested residency scan under way
    injected,     \* per request: the injected requirements
    outcomes,     \* per request: what its recording router saw
    answer,       \* per request: review_routing of the response, or "none"
    trail,        \* the audit trail
    console,      \* the reviews the human-review console holds
    inflight      \* the reviews the client gave up on, still on their way

work == <<findings, sources, scan, injected, outcomes, answer>>
sinks == <<trail, console, inflight>>
vars == <<deployment, request, pc, work, sinks>>

\* Positions of the pipeline in which a worker thread holds the request.
Working ==
    {"evaluate", "context", "residency", "scan_audit", "scan_route", "inject",
     "audit", "route", "respond"}

NoScan == [passed |-> TRUE, review |-> FALSE, sources |-> {}]

Record ==
    [kind : {"intake", "scan"}, request : Request, actor : Actor \cup {ServiceActor},
     decision : Decision]

Review ==
    [kind : {"intake", "scan"}, request : Request, maker : Actor \cup {ServiceActor},
     tenant : Tenant \cup {NoTenant}, severity : Severity, approvals : {1, 2}]

Init ==
    /\ deployment \in [profile : Profile, routing : BOOLEAN]
    /\ request \in [Request -> [submission : Submissions, actor : Actor, tenant : Tenant]]
    /\ pc = [r \in Request |-> "idle"]
    /\ findings = [r \in Request |-> << >>]
    /\ sources = [r \in Request |-> {}]
    /\ scan = [r \in Request |-> NoScan]
    /\ injected = [r \in Request |-> << >>]
    /\ outcomes = [r \in Request |-> {}]
    /\ answer = [r \in Request |-> "none"]
    /\ trail = << >>
    /\ console = << >>
    /\ inflight = {}

Goto(r, from, to) ==
    /\ pc[r] = from
    /\ pc' = [pc EXCEPT ![r] = to]
    /\ UNCHANGED <<deployment, request>>

----------------------------------------------------------------------------
\* validate: the caller is resolved and the trace span opens.
Accept(r) == Goto(r, "idle", "evaluate") /\ UNCHANGED <<work, sinks>>

\* Opening the span is not guarded here (the scan service guards its own).
TracerFails(r) ==
    /\ deployment.profile # "local"
    /\ Goto(r, "idle", "error")
    /\ UNCHANGED <<work, sinks>>

\* self._allowed_regions or principles_eval.ALLOWED_REGIONS
FallbackRegions == IF AllowedRegions = {} THEN DefaultRegions ELSE AllowedRegions

\* A bug to catch: the fallback forgets the configured regions.
InProcessOnDefaults(s) == EvaluateAll(s, DefaultRegions)

InProcess(s) == EvaluateAll(s, FallbackRegions)

\* The findings of a validation whose policy service gave this answer.
OpaFindings(s, answer_) ==
    IF RaisesPolicyError(answer_) \/ DOMAIN ParseFindings(answer_.raw) = {}
    THEN InProcess(s)
    ELSE ParseFindings(answer_.raw)

EvaluateLocally(r) ==
    /\ deployment.profile = "local"
    /\ Goto(r, "evaluate", "context")
    /\ findings' = [findings EXCEPT ![r] = EvaluateAll(request[r].submission, AllowedRegions)]
    /\ UNCHANGED <<sources, scan, injected, outcomes, answer, sinks>>

\* The policy service answered, or could not: a verdict either way.
EvaluateRemotely(r) ==
    /\ deployment.profile # "local"
    /\ Goto(r, "evaluate", "context")
    /\ \E a \in OpaAnswers \cup {BundleAnswer(request[r].submission, AllowedRegions)} :
           /\ ~RaisesOther(a)
           /\ findings' = [findings EXCEPT ![r] = OpaFindings(request[r].submission, a)]
    /\ UNCHANGED <<sources, scan, injected, outcomes, answer, sinks>>

Recorded(record) == trail' = Append(trail, record) /\ UNCHANGED <<console, inflight>>

\* A bug to catch: a request that ends in an exception is put on the trail.
EvaluateRaisesRecorded(r) ==
    /\ \E a \in OpaAnswers : RaisesOther(a)
    /\ Goto(r, "evaluate", "error")
    /\ Recorded([kind |-> "intake", request |-> r, actor |-> request[r].actor,
                 decision |-> "BLOCKED"])
    /\ UNCHANGED work

\* Anything but a PolicyEvaluationError ends the request with an exception.
EvaluateRaises(r) ==
    /\ deployment.profile # "local"
    /\ \E a \in OpaAnswers : RaisesOther(a)
    /\ Goto(r, "evaluate", "error")
    /\ UNCHANGED <<work, sinks>>

----------------------------------------------------------------------------
\* _gather_context: nothing is asked for a report without an unmet principle.
NothingUnmet(r) ==
    /\ Unmet(findings[r]) = {}
    /\ Goto(r, "context", "inject")
    /\ UNCHANGED <<work, sinks>>

\* The knowledge base, then the control-mapping service.
GatherContext(r) ==
    /\ Unmet(findings[r]) # {}
    /\ Goto(r, "context", "residency")
    /\ \E kb \in Retrieved, mapping \in Sibling :
           sources' = [sources EXCEPT ![r] = kb \cup mapping]
    /\ UNCHANGED <<findings, scan, injected, outcomes, answer, sinks>>

\* The residency service of a split deployment, or a scan whose target (the
\* submission id) could not be resolved: its citations, or none.
AskResidency(r) ==
    /\ Goto(r, "residency", "inject")
    /\ \E residency \in IF deployment.profile = "platform" THEN Sibling ELSE {{}} :
           sources' = [sources EXCEPT ![r] = @ \cup residency]
    /\ UNCHANGED <<findings, scan, injected, outcomes, answer, sinks>>

\* LocalScanResidencyAdapter.findings: the submission id names a scannable scope.
StartScan(r) ==
    /\ deployment.profile # "platform"
    /\ Goto(r, "residency", "scan_audit")
    /\ \E result \in ScanResult : scan' = [scan EXCEPT ![r] = result]
    /\ UNCHANGED <<findings, sources, injected, outcomes, answer, sinks>>

ScanDecision(result) ==
    CASE result.passed                      -> "ALLOWED"
      [] ~result.passed /\ result.review    -> "ESCALATED"
      [] OTHER                              -> "BLOCKED"

\* The record is written, or the write fails and the failure is swallowed.
ScanAudit(r) ==
    /\ Goto(r, "scan_audit", "scan_route")
    /\ \/ Recorded([kind     |-> "scan", request |-> r, actor |-> ServiceActor,
                    decision |-> ScanDecision(scan[r])])
       \/ UNCHANGED sinks
    /\ UNCHANGED work

Stored(review) == console' = Append(console, review) /\ UNCHANGED <<trail, inflight>>

TimedOut(review) == inflight' = inflight \cup {review} /\ UNCHANGED <<trail, console>>

\* A review is needed only over a violation of high or critical severity.
ScanReview(r) ==
    [kind |-> "scan", request |-> r, maker |-> ServiceActor, tenant |-> NoTenant,
     severity |-> "high", approvals |-> 2]

\* The nested scan has a container of its own: in the local profile its outbox
\* is not the one of the validation, and nobody reads its outcome.
ScanRoute(r) ==
    /\ Goto(r, "scan_route", "inject")
    /\ sources' = [sources EXCEPT ![r] = @ \cup scan[r].sources]
    /\ \/ UNCHANGED sinks
       \/ /\ deployment.routing /\ deployment.profile # "local" /\ scan[r].review
          /\ Stored(ScanReview(r)) \/ TimedOut(ScanReview(r))
    /\ UNCHANGED <<findings, scan, injected, outcomes, answer>>

----------------------------------------------------------------------------
\* inject and the assembly of the report.
InjectAndAssemble(r) ==
    /\ Goto(r, "inject", "audit")
    /\ \E reply \in ModelReplies :
           injected' = [injected EXCEPT ![r] = Inject(findings[r], sources[r], reply)]
    /\ UNCHANGED <<findings, sources, scan, outcomes, answer, sinks>>

IntakeRecord(r) ==
    [kind |-> "intake", request |-> r, actor |-> request[r].actor,
     decision |-> AuditDecision(findings[r])]

\* A bug to catch: the record is written when the response is.
AuditLate(r) ==
    \/ Goto(r, "audit", "route") /\ UNCHANGED <<work, sinks>>
    \/ /\ \A i \in DOMAIN trail : trail[i] # IntakeRecord(r)
       /\ Goto(r, "respond", "respond")
       /\ Recorded(IntakeRecord(r))
       /\ UNCHANGED work

AuditReport(r) ==
    /\ Goto(r, "audit", "route")
    /\ Recorded(IntakeRecord(r)) \/ UNCHANGED sinks
    /\ UNCHANGED work

\* A bug to catch: the review is not attributed to the caller's tenant.
IntakeReviewNoTenant(r) ==
    [kind |-> "intake", request |-> r, maker |-> request[r].actor,
     tenant |-> NoTenant, severity |-> OverallSeverity(findings[r]),
     approvals |-> Approvals(findings[r])]

IntakeReview(r) ==
    [kind |-> "intake", request |-> r, maker |-> request[r].actor,
     tenant |-> request[r].tenant, severity |-> OverallSeverity(findings[r]),
     approvals |-> Approvals(findings[r])]

Saw(r, outcome) == outcomes' = [outcomes EXCEPT ![r] = @ \cup {outcome}]

RouteOff(r) == ~deployment.routing /\ Saw(r, "off") /\ UNCHANGED sinks

RouteStored(r) == deployment.routing /\ Saw(r, "routed") /\ Stored(IntakeReview(r))

\* A bug to catch: the outcome is noted before the call is made.
RouteNotedFirst(r) ==
    /\ deployment.routing
    /\ Saw(r, "routed")
    /\ \/ UNCHANGED sinks
       \/ deployment.profile # "local" /\ TimedOut(IntakeReview(r))

\* The console refused, or could not be reached, or answered too late.
RouteFailed(r) ==
    /\ deployment.routing
    /\ Saw(r, "failed")
    /\ \/ UNCHANGED sinks
       \/ deployment.profile # "local" /\ TimedOut(IntakeReview(r))

\* A bug to catch: a hand-off that failed is tried again.
RouteWithRetry(r) ==
    /\ \/ Goto(r, "route", "respond") /\ (RouteOff(r) \/ RouteStored(r))
       \/ Goto(r, "route", "route") /\ RouteFailed(r)
    /\ UNCHANGED <<findings, sources, scan, injected, answer>>

Route(r) ==
    /\ Goto(r, "route", "respond")
    /\ IF RequiresReview(findings[r])
       THEN RouteOff(r) \/ RouteStored(r) \/ RouteFailed(r)
       ELSE UNCHANGED <<outcomes, sinks>>
    /\ UNCHANGED <<findings, sources, scan, injected, answer>>

\* disclose: the response says what became of the hand-off.
Respond(r) ==
    /\ Goto(r, "respond", "done")
    /\ answer' = [answer EXCEPT ![r] = Outcome(outcomes[r])]
    /\ UNCHANGED <<findings, sources, scan, injected, outcomes, sinks>>

----------------------------------------------------------------------------
\* A review the client gave up on reaches the console.
LateArrival(review) ==
    /\ review \in inflight
    /\ inflight' = inflight \ {review}
    /\ console' = Append(console, review)
    /\ UNCHANGED <<deployment, request, pc, work, trail>>

\* The process stops and is restarted: what its workers held is gone, and so is
\* the in-memory outbox of the local profile.
Crash ==
    /\ \E r \in Request : pc[r] \in Working
    /\ pc' = [r \in Request |-> IF pc[r] \in Working THEN "lost" ELSE pc[r]]
    /\ console' = IF deployment.profile = "local" THEN << >> ELSE console
    /\ UNCHANGED <<deployment, request, work, trail, inflight>>

Step(r) ==
    \/ Accept(r) \/ TracerFails(r)
    \/ EvaluateLocally(r) \/ EvaluateRemotely(r) \/ EvaluateRaises(r)
    \/ NothingUnmet(r) \/ GatherContext(r) \/ AskResidency(r)
    \/ StartScan(r) \/ ScanAudit(r) \/ ScanRoute(r)
    \/ InjectAndAssemble(r) \/ AuditReport(r) \/ Route(r) \/ Respond(r)

Finished ==
    /\ \A r \in Request : pc[r] \in {"done", "error", "lost"}
    /\ UNCHANGED vars

Next ==
    \/ \E r \in Request : Step(r)
    \/ \E review \in inflight : LateArrival(review)
    \/ Crash
    \/ Finished

Spec == Init /\ [][Next]_vars

\* A worker thread that has a request finishes it: every call it makes returns
\* or times out. Nothing makes a caller send its request.
FairSpec == Spec /\ \A r \in Request : WF_vars(pc[r] # "idle" /\ Step(r))
====
