---- MODULE GateProofs ----
(***************************************************************************)
(* The pipeline implements IntakeGate: every step is a step of the gate or *)
(* leaves what the gate shows unchanged.                                   *)
(***************************************************************************)
EXTENDS IntakeProofs

\* What the gate shows of the pipeline.
GateVerdict == [r \in Request |-> ReportVerdict(r)]

GateRecorded ==
    {<<trail[k].request, trail[k].decision>> :
        k \in {k \in DOMAIN trail : trail[k].kind = "intake"}}

GateQueued ==
    {console[k].request : k \in {k \in DOMAIN console : console[k].kind = "intake"}}

GateAnswer ==
    [r \in Request |-> IF pc[r] \in {"error", "lost"} THEN pc[r] ELSE answer[r]]

GateView == <<GateVerdict, GateRecorded, GateQueued, GateAnswer>>

\* What shows of the verdicts, the records, the queue and the answers when the
\* part of the pipeline they are read from does not change.
LEMMA SameVerdict == UNCHANGED findings => UNCHANGED GateVerdict
BY DEF GateVerdict, ReportVerdict, Passed

\* The records follow the trail.
LEMMA SameRecorded == UNCHANGED trail => UNCHANGED GateRecorded
BY DEF GateRecorded

\* The queue follows the console.
LEMMA SameQueued == UNCHANGED console => UNCHANGED GateQueued
BY DEF GateQueued

\* ... or when no caller is answered and no request fails or is lost.
LEMMA SameAnswer ==
    ASSUME UNCHANGED answer,
           \A q \in Request : pc'[q] = pc[q] \/ {pc'[q], pc[q]} \cap {"error", "lost"} = {}
    PROVE  UNCHANGED GateAnswer
<1>1. \A q \in Request : (IF pc'[q] \in {"error", "lost"} THEN pc'[q] ELSE answer'[q])
                           = (IF pc[q] \in {"error", "lost"} THEN pc[q] ELSE answer[q])
  OBVIOUS
<1>2. QED
  BY <1>1, Zenon DEF GateAnswer

\* The gate's actions, read on the view.
LEMMA DecideOnView ==
    ASSUME NEW r \in Request, GateVerdict[r] = "none", GateAnswer[r] = "none",
           NEW v \in {"passed", "blocked"}, GateVerdict' = [GateVerdict EXCEPT ![r] = v],
           UNCHANGED <<GateRecorded, GateQueued, GateAnswer>>
    PROVE  Gate!Next
BY DEF Gate!Next, Gate!Decide, Gate!Undecided, GateVerdict, GateRecorded, GateQueued, GateAnswer

\* A request that fails before its verdict.
LEMMA FailOnView ==
    ASSUME NEW r \in Request, GateVerdict[r] = "none", GateAnswer[r] = "none",
           GateAnswer' = [GateAnswer EXCEPT ![r] = "error"],
           UNCHANGED <<GateVerdict, GateRecorded, GateQueued>>
    PROVE  Gate!Next
BY DEF Gate!Next, Gate!Fail, Gate!Undecided, GateVerdict, GateRecorded, GateQueued, GateAnswer

\* A verdict put on the trail.
LEMMA RecordOnView ==
    ASSUME NEW r \in Request, GateVerdict[r] # "none", GateAnswer[r] = "none",
           r \notin GateQueued, \A entry \in GateRecorded : entry[1] # r,
           GateRecorded' = GateRecorded
               \cup {<<r, IF GateVerdict[r] = "passed" THEN "ALLOWED" ELSE "ESCALATED">>},
           UNCHANGED <<GateVerdict, GateQueued, GateAnswer>>
    PROVE  Gate!Next
BY DEF Gate!Next, Gate!Record, Gate!Pending, GateVerdict, GateRecorded, GateQueued, GateAnswer

\* A review stored in the console's queue, in time or late.
LEMMA QueueOnView ==
    ASSUME NEW r \in Request, GateVerdict[r] # "none",
           GateAnswer[r] \in {"none", "failed", "lost"}, r \notin GateQueued,
           GateQueued' = GateQueued \cup {r},
           UNCHANGED <<GateVerdict, GateRecorded, GateAnswer>>
    PROVE  Gate!Next
BY DEF Gate!Next, Gate!Queue, GateVerdict, GateRecorded, GateQueued, GateAnswer

\* A caller told what became of the hand-off.
LEMMA AnswerOnView ==
    ASSUME NEW r \in Request, GateVerdict[r] # "none", GateAnswer[r] = "none",
           NEW routing \in {"routed", "failed", "off"},
           routing = "routed" => r \in GateQueued,
           routing = "off" => r \notin GateQueued,
           GateAnswer' = [GateAnswer EXCEPT ![r] = routing],
           UNCHANGED <<GateVerdict, GateRecorded, GateQueued>>
    PROVE  Gate!Next
BY DEF Gate!Next, Gate!Answer, Gate!Pending, GateVerdict, GateRecorded, GateQueued, GateAnswer

\* Requests dropped by a crash.
LEMMA LoseOnView ==
    ASSUME NEW lost \in SUBSET Request, lost # {}, \A r \in lost : GateAnswer[r] = "none",
           GateAnswer' = [r \in Request |-> IF r \in lost THEN "lost" ELSE GateAnswer[r]],
           UNCHANGED <<GateVerdict, GateRecorded, GateQueued>>
    PROVE  Gate!Next
BY DEF Gate!Next, Gate!Lose, GateVerdict, GateRecorded, GateQueued, GateAnswer

----------------------------------------------------------------------------
\* The view of one request.
LEMMA ViewOf ==
    ASSUME NEW r \in Request
    PROVE  /\ GateVerdict[r] = ReportVerdict(r)
           /\ GateAnswer[r] = IF pc[r] \in {"error", "lost"} THEN pc[r] ELSE answer[r]
BY DEF GateVerdict, GateAnswer

\* The gate sees a verdict exactly when the pipeline has one.
LEMMA VerdictShown ==
    ASSUME HandoffInv, NEW r \in Request
    PROVE  /\ pc[r] \in Undecided => ReportVerdict(r) = "none"
           /\ pc[r] \notin Undecided \cup {"lost"} =>
                  ReportVerdict(r) = IF Passed(findings[r]) THEN "passed" ELSE "blocked"
BY DEF HandoffInv, UndecidedIsUnknown, DecidedHasFindings, ReportVerdict

\* Before the hand-off is reported the caller was told nothing.
LEMMA NothingToldYet ==
    ASSUME HandoffInv, NEW r \in Request, pc[r] \notin {"done", "error", "lost"}
    PROVE  GateAnswer[r] = "none"
BY ViewOf DEF HandoffInv, SawTheOutcome

\* Before routing, the queue holds no review of the report.
LEMMA NotQueuedYet ==
    ASSUME HandoffInv, SinkTypes, NEW r \in Request, pc[r] \in Unrouted
    PROVE  r \notin GateQueued
BY SinkFacts DEF HandoffInv, ReviewsAreTrue, IsIntake, GateQueued

\* A worker that gets findings, from either engine, decides.
LEMMA VerdictReached ==
    ASSUME HandoffInv, FindingsTypes, NEW r \in Request, Goto(r, "evaluate", "context"),
           NEW f, DOMAIN f # {}, findings' = [findings EXCEPT ![r] = f],
           UNCHANGED <<answer, sinks>>, CoreTypes
    PROVE  Gate!Next
<1>1. /\ pc[r] = "evaluate" /\ findings'[r] = f
      /\ \A q \in Request \ {r} : findings'[q] = findings[q]
      /\ \A q \in Request : pc'[q] = IF q = r THEN "context" ELSE pc[q]
      /\ UNCHANGED <<trail, console>>
  BY DEF Goto, FindingsTypes, CoreTypes, sinks
<1> DEFINE v == IF Passed(f) THEN "passed" ELSE "blocked"
<1>2. GateVerdict[r] = "none" /\ GateAnswer[r] = "none"
  BY <1>1, ViewOf, VerdictShown, NothingToldYet DEF Undecided
<1>3. ReportVerdict(r)' = v
  BY <1>1 DEF ReportVerdict, Passed
<1>4. \A q \in Request \ {r} : ReportVerdict(q)' = ReportVerdict(q)
  BY <1>1 DEF ReportVerdict, Passed
<1>5. GateVerdict' = [GateVerdict EXCEPT ![r] = v]
  BY <1>3, <1>4 DEF GateVerdict
<1>6. UNCHANGED <<GateRecorded, GateQueued, GateAnswer>>
  BY <1>1, SameRecorded, SameQueued, SameAnswer
<1>7. v \in {"passed", "blocked"}
  OBVIOUS
<1> HIDE DEF v
<1>8. QED
  BY <1>2, <1>5, <1>6, <1>7, DecideOnView

\* A step of r that changes no finding, no record and no queue shows nothing.
LEMMA Invisible ==
    ASSUME NEW r \in Request, CoreTypes, NEW from, NEW to, Goto(r, from, to),
           {from, to} \cap {"error", "lost"} = {},
           UNCHANGED <<findings, answer>>, UNCHANGED GateRecorded, UNCHANGED GateQueued
    PROVE  UNCHANGED GateView
<1>1. \A q \in Request : pc'[q] = pc[q] \/ {pc'[q], pc[q]} \cap {"error", "lost"} = {}
  BY DEF Goto, CoreTypes
<1>2. UNCHANGED GateAnswer
  BY <1>1, SameAnswer
<1>3. QED
  BY <1>2, SameVerdict DEF GateView

\* The trail of a nested scan does not show in the gate,
LEMMA ScanRecordInvisible ==
    ASSUME SinkTypes, NEW record \in Record, record.kind = "scan", Recorded(record)
    PROVE  UNCHANGED <<GateRecorded, GateQueued>>
<1>1. trail \in Seq(Record) /\ trail' = Append(trail, record) /\ UNCHANGED console
  BY DEF SinkTypes, Recorded
<1>2. {<<trail'[k].request, trail'[k].decision>> :
          k \in {k \in DOMAIN trail' : trail'[k].kind = "intake"}}
        = {<<trail[k].request, trail[k].decision>> :
              k \in {k \in DOMAIN trail : trail[k].kind = "intake"}}
  BY <1>1, Appended
<1>3. QED
  BY <1>1, <1>2, SameQueued DEF GateRecorded

\* a report's record does,
LEMMA IntakeRecordVisible ==
    ASSUME SinkTypes, NEW record \in Record, record.kind = "intake", Recorded(record)
    PROVE  GateRecorded' = GateRecorded \cup {<<record.request, record.decision>>}
<1>1. trail \in Seq(Record) /\ trail' = Append(trail, record)
  BY DEF SinkTypes, Recorded
<1>2. {<<trail'[k].request, trail'[k].decision>> :
          k \in {k \in DOMAIN trail' : trail'[k].kind = "intake"}}
        = {<<trail[k].request, trail[k].decision>> :
              k \in {k \in DOMAIN trail : trail[k].kind = "intake"}}
          \cup {<<record.request, record.decision>>}
  BY <1>1, Appended
<1>3. QED
  BY <1>2 DEF GateRecorded

\* and a stored review does when it is a report's.
LEMMA QueueGrows ==
    ASSUME SinkTypes, NEW review \in Review, console' = Append(console, review)
    PROVE  GateQueued' = IF review.kind = "intake" THEN GateQueued \cup {review.request}
                         ELSE GateQueued
<1>1. console \in Seq(Review)
  BY DEF SinkTypes
<1>2. CASE review.kind = "intake"
  <2>1. {console'[k].request : k \in {k \in DOMAIN console' : console'[k].kind = "intake"}}
          = {console[k].request : k \in {k \in DOMAIN console : console[k].kind = "intake"}}
            \cup {review.request}
    BY <1>1, <1>2, Appended
  <2>2. QED
    BY <1>2, <2>1 DEF GateQueued
<1>3. CASE review.kind # "intake"
  <2>1. {console'[k].request : k \in {k \in DOMAIN console' : console'[k].kind = "intake"}}
          = {console[k].request : k \in {k \in DOMAIN console : console[k].kind = "intake"}}
    BY <1>1, <1>3, Appended
  <2>2. QED
    BY <1>3, <2>1 DEF GateQueued
<1>4. QED
  BY <1>2, <1>3

\* Sinks that nothing reaches show nothing new.
LEMMA SinksAtRest == UNCHANGED sinks => UNCHANGED <<GateRecorded, GateQueued>>
BY SameRecorded, SameQueued DEF sinks

----------------------------------------------------------------------------
\* Every step of a worker is a step of the gate, or shows nothing.
LEMMA GateUnderStep ==
    ASSUME "local" \notin Profile, TypeOK, HandoffInv, NEW r \in Request, Step(r)
    PROVE  Gate!Next \/ UNCHANGED GateView
<1>0. CoreTypes /\ FindingsTypes /\ OutcomeTypes /\ SinkTypes
  BY TypesByPart
<1>1. ASSUME TracerFails(r) \/ EvaluateRaises(r) PROVE Gate!Next
  <2>1. /\ pc[r] \in {"idle", "evaluate"}
        /\ \A q \in Request : pc'[q] = IF q = r THEN "error" ELSE pc[q]
        /\ UNCHANGED <<findings, answer, trail, console>>
    BY <1>0, <1>1 DEF TracerFails, EvaluateRaises, Goto, CoreTypes, work, sinks
  <2>2. GateVerdict[r] = "none" /\ GateAnswer[r] = "none"
    BY <2>1, ViewOf, VerdictShown, NothingToldYet DEF Undecided
  <2>3. \A q \in Request : (IF pc'[q] \in {"error", "lost"} THEN pc'[q] ELSE answer'[q])
                             = IF q = r THEN "error"
                               ELSE (IF pc[q] \in {"error", "lost"} THEN pc[q] ELSE answer[q])
    BY <2>1
  <2>4. GateAnswer' = [GateAnswer EXCEPT ![r] = "error"]
    BY <2>3 DEF GateAnswer
  <2>5. QED
    BY <2>1, <2>2, <2>4, FailOnView, SameVerdict, SameRecorded, SameQueued
<1>2. ASSUME Accept(r) \/ NothingUnmet(r) \/ GatherContext(r) \/ AskResidency(r) \/ StartScan(r)
             \/ InjectAndAssemble(r)
      PROVE  UNCHANGED GateView
  BY <1>0, <1>2, Invisible, SinksAtRest
     DEF Accept, NothingUnmet, GatherContext, AskResidency, StartScan, InjectAndAssemble, work
<1>3. ASSUME EvaluateLocally(r) PROVE Gate!Next
  <2>1. DOMAIN EvaluateAll(request[r].submission, AllowedRegions) # {}
    BY EvaluatorTypes
  <2>2. /\ Goto(r, "evaluate", "context") /\ UNCHANGED <<answer, sinks>>
        /\ findings' = [findings EXCEPT ![r] = EvaluateAll(request[r].submission, AllowedRegions)]
    BY <1>3 DEF EvaluateLocally
  <2>3. QED
    BY <1>0, <2>1, <2>2, VerdictReached
<1>4. ASSUME EvaluateRemotely(r) PROVE Gate!Next
  <2>1. /\ Goto(r, "evaluate", "context") /\ UNCHANGED <<answer, sinks>>
        /\ \E a \in OpaAnswers \cup {BundleAnswer(request[r].submission, AllowedRegions)} :
               /\ ~RaisesOther(a)
               /\ findings' = [findings EXCEPT ![r] = OpaFindings(request[r].submission, a)]
    BY <1>4 DEF EvaluateRemotely
  <2>2. PICK a \in OpaAnswers \cup {BundleAnswer(request[r].submission, AllowedRegions)} :
            /\ ~RaisesOther(a)
            /\ findings' = [findings EXCEPT ![r] = OpaFindings(request[r].submission, a)]
    BY <2>1
  <2>3. DOMAIN OpaFindings(request[r].submission, a) # {}
    BY <2>2, CollaboratorAssumption, OpaFindingsTypes
  <2>4. QED
    BY <1>0, <2>1, <2>2, <2>3, VerdictReached
<1>5. ASSUME ScanAudit(r) PROVE UNCHANGED GateView
  <2> DEFINE record == [kind |-> "scan", request |-> r, actor |-> ServiceActor,
                        decision |-> ScanDecision(scan[r])]
  <2>1. record \in Record /\ record.kind = "scan"
    BY <1>0, SubmittedTypes
  <2>2. /\ Goto(r, "scan_audit", "scan_route") /\ UNCHANGED <<findings, answer>>
        /\ Recorded(record) \/ UNCHANGED sinks
    BY <1>5 DEF ScanAudit, work
  <2> HIDE DEF record
  <2>3. UNCHANGED <<GateRecorded, GateQueued>>
    BY <1>0, <2>1, <2>2, ScanRecordInvisible, SinksAtRest
  <2>4. QED
    BY <1>0, <2>2, <2>3, Invisible
<1>6. ASSUME ScanRoute(r) PROVE UNCHANGED GateView
  <2>1. ScanReview(r) \in Review /\ ScanReview(r).kind = "scan"
    BY <1>0, SubmittedTypes DEF ScanReview
  <2>2. /\ Goto(r, "scan_route", "inject") /\ UNCHANGED <<findings, answer>>
        /\ \/ UNCHANGED sinks
           \/ UNCHANGED trail /\ console' = Append(console, ScanReview(r))
           \/ UNCHANGED <<trail, console>>
    BY <1>6 DEF ScanRoute, Stored, TimedOut
  <2>3. UNCHANGED <<GateRecorded, GateQueued>>
    BY <1>0, <2>1, <2>2, QueueGrows, SinksAtRest, SameRecorded, SameQueued
  <2>4. QED
    BY <1>0, <2>2, <2>3, Invisible
<1>7. ASSUME AuditReport(r) PROVE Gate!Next \/ UNCHANGED GateView
  <2>1. /\ Goto(r, "audit", "route") /\ UNCHANGED <<findings, answer>>
        /\ Recorded(IntakeRecord(r)) \/ UNCHANGED sinks
    BY <1>7 DEF AuditReport, work
  <2>2. /\ pc[r] = "audit"
        /\ \A q \in Request : pc'[q] = IF q = r THEN "route" ELSE pc[q]
    BY <1>0, <2>1 DEF Goto, CoreTypes
  <2>3. ASSUME UNCHANGED sinks PROVE UNCHANGED GateView
    BY <1>0, <2>1, <2>3, Invisible, SinksAtRest
  <2>4. ASSUME Recorded(IntakeRecord(r)) PROVE Gate!Next
    <3>1. /\ IntakeRecord(r) \in Record /\ IntakeRecord(r).kind = "intake"
          /\ IntakeRecord(r).request = r
          /\ IntakeRecord(r).decision = IF Passed(findings[r]) THEN "ALLOWED" ELSE "ESCALATED"
      BY <1>0, SubmittedTypes DEF IntakeRecord, AuditDecision
    <3>2. GateVerdict[r] = IF Passed(findings[r]) THEN "passed" ELSE "blocked"
      BY <2>2, ViewOf, VerdictShown DEF Undecided
    <3>3. GateRecorded' = GateRecorded
              \cup {<<r, IF GateVerdict[r] = "passed" THEN "ALLOWED" ELSE "ESCALATED">>}
      BY <1>0, <2>4, <3>1, <3>2, IntakeRecordVisible
    <3>4. GateAnswer[r] = "none" /\ r \notin GateQueued
      BY <1>0, <2>2, NothingToldYet, NotQueuedYet DEF Unrouted, Unrecorded
    <3>5. \A entry \in GateRecorded : entry[1] # r
      BY <1>0, <2>2, SinkFacts DEF HandoffInv, TrailIsTrue, IsIntake, Unrecorded, GateRecorded
    <3>6. UNCHANGED <<GateVerdict, GateQueued, GateAnswer>>
      BY <2>1, <2>2, <2>4, SameVerdict, SameQueued, SameAnswer DEF Recorded
    <3>7. GateVerdict[r] # "none"
      BY <3>2
    <3>8. QED
      BY <3>3, <3>4, <3>5, <3>6, <3>7, RecordOnView
  <2>5. QED
    BY <2>1, <2>3, <2>4
<1>8. ASSUME Route(r) PROVE Gate!Next \/ UNCHANGED GateView
  <2>1. /\ Goto(r, "route", "respond") /\ UNCHANGED <<findings, answer, trail>>
        /\ UNCHANGED console \/ console' = Append(console, IntakeReview(r))
    BY <1>8 DEF Route, RequiresReview, RouteOff, RouteStored, RouteFailed, Stored, TimedOut, sinks
  <2>2. /\ pc[r] = "route"
        /\ \A q \in Request : pc'[q] = IF q = r THEN "respond" ELSE pc[q]
    BY <1>0, <2>1 DEF Goto, CoreTypes
  <2>3. ASSUME UNCHANGED console PROVE UNCHANGED GateView
    BY <1>0, <2>1, <2>3, Invisible, SameRecorded, SameQueued
  <2>4. ASSUME console' = Append(console, IntakeReview(r)) PROVE Gate!Next
    <3>1. /\ IntakeReview(r) \in Review /\ IntakeReview(r).kind = "intake"
          /\ IntakeReview(r).request = r
      BY <1>0, SubmittedTypes DEF IntakeReview
    <3>2. GateQueued' = GateQueued \cup {r}
      BY <1>0, <2>4, <3>1, QueueGrows
    <3>3. GateVerdict[r] # "none" /\ GateAnswer[r] = "none" /\ r \notin GateQueued
      BY <1>0, <2>2, ViewOf, VerdictShown, NothingToldYet, NotQueuedYet DEF Undecided, Unrouted
    <3>4. UNCHANGED <<GateVerdict, GateRecorded, GateAnswer>>
      BY <2>1, <2>2, SameVerdict, SameRecorded, SameAnswer
    <3>5. QED
      BY <3>2, <3>3, <3>4, QueueOnView
  <2>5. QED
    BY <2>1, <2>3, <2>4
<1>9. ASSUME Respond(r) PROVE Gate!Next
  <2>1. /\ pc[r] = "respond"
        /\ \A q \in Request : pc'[q] = IF q = r THEN "done" ELSE pc[q]
        /\ answer' = [answer EXCEPT ![r] = Outcome(outcomes[r])]
        /\ UNCHANGED <<findings, trail, console>>
    BY <1>0, <1>9 DEF Respond, Goto, CoreTypes, sinks
  <2>2. PICK outcome \in {"routed", "failed", "off"} :
            /\ outcomes[r] = {outcome}
            /\ (outcome = "routed" /\ deployment.profile # "local") => ReviewsOf(r) # {}
            /\ outcome = "off" => ~deployment.routing
    BY <2>1 DEF HandoffInv, SawTheOutcome
  <2>3. Outcome(outcomes[r]) = outcome
    BY <2>2 DEF Outcome
  <2>4. deployment.profile # "local"
    BY <1>0 DEF CoreTypes
  <2>5. outcome = "routed" => r \in GateQueued
    BY <2>2, <2>4 DEF ReviewsOf, GateQueued
  <2>6. outcome = "off" => r \notin GateQueued
    BY <1>0, <2>2, SinkFacts DEF HandoffInv, ReviewsAreTrue, IsIntake, GateQueued
  <2>7. GateVerdict[r] # "none" /\ GateAnswer[r] = "none"
    BY <2>1, ViewOf, VerdictShown, NothingToldYet DEF Undecided
  <2>8. GateAnswer' = [GateAnswer EXCEPT ![r] = outcome]
    <3>1. \A q \in Request : answer'[q] = IF q = r THEN outcome ELSE answer[q]
      BY <1>0, <2>1, <2>3 DEF OutcomeTypes
    <3>2. \A q \in Request : (IF pc'[q] \in {"error", "lost"} THEN pc'[q] ELSE answer'[q])
                               = IF q = r THEN outcome
                                 ELSE (IF pc[q] \in {"error", "lost"} THEN pc[q] ELSE answer[q])
      BY <2>1, <3>1
    <3>3. QED
      BY <3>2 DEF GateAnswer
  <2>9. UNCHANGED <<GateVerdict, GateRecorded, GateQueued>>
    BY <2>1, SameVerdict, SameRecorded, SameQueued
  <2>10. QED
    BY <2>5, <2>6, <2>7, <2>8, <2>9, AnswerOnView
<1>10. QED
  BY <1>1, <1>2, <1>3, <1>4, <1>5, <1>6, <1>7, <1>8, <1>9 DEF Step

\* A review that arrives after its caller gave up is the gate's queueing of it.
LEMMA GateUnderLateArrival ==
    ASSUME TypeOK, HandoffInv, NEW review \in inflight, LateArrival(review)
    PROVE  Gate!Next \/ UNCHANGED GateView
<1>0. SinkTypes
  BY TypesByPart
<1>1. /\ review \in Review /\ console' = Append(console, review)
      /\ UNCHANGED <<pc, findings, answer, trail>>
  BY <1>0 DEF LateArrival, SinkTypes, work
<1>2. UNCHANGED <<GateVerdict, GateRecorded, GateAnswer>>
  BY <1>1, SameVerdict, SameRecorded, SameAnswer
<1>3. GateQueued' = IF review.kind = "intake" THEN GateQueued \cup {review.request} ELSE GateQueued
  BY <1>0, <1>1, QueueGrows
<1>4. CASE review.kind # "intake"
  BY <1>2, <1>3, <1>4 DEF GateView
<1>5. CASE review.kind = "intake"
  <2> DEFINE r == review.request
  <2>1. r \in Request /\ review \in HandedOver
    BY <1>0, SinkFacts
  <2>2. DOMAIN findings[r] # {} /\ pc[r] \notin Unrouted
    BY <2>1, <1>5 DEF HandoffInv, ReviewsAreTrue, IsIntake
  <2>3. GateVerdict[r] # "none"
    BY <2>1, <2>2, ViewOf DEF ReportVerdict
  <2>4. pc[r] = "lost" \/ outcomes[r] = {"failed"}
    BY <1>5 DEF HandoffInv, LateIsFailed, IsIntake
  <2>5. GateAnswer[r] \in {"none", "failed", "lost"}
    BY <2>1, <2>2, <2>4, ViewOf DEF HandoffInv, SawTheOutcome, Unrouted, Unrecorded, Undecided
  <2>6. r \notin GateQueued
    BY <1>5 DEF HandoffInv, QueuedOnce, IsIntake, GateQueued
  <2>7. GateQueued' = GateQueued \cup {r}
    BY <1>3, <1>5
  <2> HIDE DEF r
  <2>8. QED
    BY <1>2, <2>1, <2>3, <2>5, <2>6, <2>7, QueueOnView
<1>6. QED
  BY <1>4, <1>5

\* A crash loses the requests that were under way, and nothing that was recorded.
LEMMA GateUnderCrash ==
    ASSUME "local" \notin Profile, TypeOK, HandoffInv, Crash
    PROVE  Gate!Next
<1>0. CoreTypes
  BY TypesByPart
<1> DEFINE lost == {r \in Request : pc[r] \in Working}
<1>1. /\ lost # {}
      /\ \A q \in Request : pc'[q] = IF q \in lost THEN "lost" ELSE pc[q]
      /\ UNCHANGED <<findings, answer, trail>>
  BY DEF Crash, work
<1>2. UNCHANGED console
  BY <1>0 DEF Crash, CoreTypes
<1>3. \A r \in lost : GateAnswer[r] = "none"
  BY NothingToldYet DEF Working
<1>4. \A q \in Request : (IF pc'[q] \in {"error", "lost"} THEN pc'[q] ELSE answer'[q])
                          = IF q \in lost THEN "lost"
                            ELSE (IF pc[q] \in {"error", "lost"} THEN pc[q] ELSE answer[q])
  BY <1>1
<1>5. GateAnswer' = [r \in Request |-> IF r \in lost THEN "lost" ELSE GateAnswer[r]]
  BY <1>4 DEF GateAnswer
<1>6. UNCHANGED <<GateVerdict, GateRecorded, GateQueued>>
  BY <1>1, <1>2, SameVerdict, SameRecorded, SameQueued
<1> HIDE DEF lost
<1>7. lost \in SUBSET Request
  BY DEF lost
<1>8. QED
  BY <1>1, <1>3, <1>5, <1>6, <1>7, LoseOnView

\* On every deployment with a durable console, for any number of requests, answers
\* and crashes: the pipeline (validation_service.py:110-159) implements the gate.
THEOREM PipelineImplementsGate ==
    ASSUME "local" \notin Profile
    PROVE  Spec => Refines
<1>1. Init => Gate!Init
  <2> SUFFICES ASSUME Init PROVE Gate!Init
    OBVIOUS
  <2>1. /\ \A r \in Request : ReportVerdict(r) = "none"
        /\ \A r \in Request : (IF pc[r] \in {"error", "lost"} THEN pc[r] ELSE answer[r]) = "none"
        /\ DOMAIN trail = {} /\ DOMAIN console = {}
    BY DEF Init, ReportVerdict
  <2>2. GateVerdict = [r \in Request |-> "none"] /\ GateAnswer = [r \in Request |-> "none"]
    BY <2>1 DEF GateVerdict, GateAnswer
  <2>3. GateRecorded = {} /\ GateQueued = {}
    BY <2>1 DEF GateRecorded, GateQueued
  <2>4. QED
    BY <2>2, <2>3 DEF Gate!Init, GateVerdict, GateAnswer, GateRecorded, GateQueued
<1>2. TypeOK /\ HandoffInv /\ [Next]_vars => [Gate!Next]_(Gate!vars)
  <2> SUFFICES ASSUME TypeOK, HandoffInv, [Next]_vars PROVE Gate!Next \/ UNCHANGED GateView
    BY DEF GateView, GateVerdict, GateRecorded, GateQueued, GateAnswer, Gate!vars
  <2>1. ASSUME UNCHANGED vars PROVE UNCHANGED GateView
    <3>1. UNCHANGED <<pc, findings, answer, trail, console>>
      BY <2>1 DEF vars, work, sinks
    <3>2. QED
      BY <3>1, SameVerdict, SameRecorded, SameQueued, SameAnswer DEF GateView
  <2>2. QED
    BY <2>1, GateUnderStep, GateUnderLateArrival, GateUnderCrash DEF Next, Finished
<1>3. QED
  BY <1>1, <1>2, PipelineTypes, HandoffIsSound, PTL DEF Spec, Refines, Gate!Spec
====
