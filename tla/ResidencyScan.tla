---- MODULE ResidencyScan ----
(***************************************************************************)
(* The residency scan (domain/residency/scan_service.py) behind its two    *)
(* entries, POST /scan and the scan command of a CI pipeline, over a       *)
(* directory of .tf files that its author may edit while it is read.       *)
(*                                                                         *)
(* A scan resolves its target to resources, one file at a time; grades     *)
(* them; writes its record; hands a review over; and answers.              *)
(***************************************************************************)
EXTENDS TerraformTarget, ReviewHandoff

CONSTANTS
    Scan,         \* the scans
    File,         \* the names a .tf file of the directory can have, in their order
    Contents,     \* the resources one .tf file can hold, as the reader finds them
    Drafts,       \* the directories an author starts from
    Calls,        \* what a caller can ask for
    Policies,     \* the residency policies a deployment can have
    Profile       \* the runtime profiles considered

CliActor == "cli:operator"
NoTenant == ""

\* What a caller asks for: the options or fields it gives, what its target names,
\* the plan it names or sends, the resources it sends or its scope holds.
IsCall(c) ==
    /\ c.entry \in {"api", "cli"}
    /\ c.given \subseteq IF c.entry = "api" THEN {"resources", "plan_json", "target"}
                            ELSE {"plan", "dir", "project"}
    /\ c.target \in {"plan", "directory", "scope", "missing", "unsupported"}
    /\ IsPlanDoc(c.doc)
    /\ c.doc.kind \in {"unreadable", "invalid"} => "plan_json" \notin c.given
    /\ c.estate \subseteq Resource

ASSUME ScanAssumption ==
    /\ File \subseteq Nat /\ IsFiniteSet(File)
    /\ Contents \subseteq SUBSET Resource
    /\ Drafts \subseteq [File -> TfFile(Contents)]
    /\ \A c \in Calls : IsCall(c)
    /\ Policies \subseteq ResidencyPolicy
    /\ Profile \subseteq {"local", "gcp", "onprem"}

VARIABLES
    deployment,   \* the profile, the residency policy, whether routing is on
    call,         \* per scan: what was asked for
    directory,    \* the .tf files
    pc,           \* per scan: the next step
    listing,      \* per scan: the directory when it was listed
    touched,      \* per scan: the files edited since then
    unread,       \* per scan: the listed files not opened yet
    resources,    \* per scan: the resources found
    kinds,        \* per scan: the kinds of violation detected
    verdict,      \* per scan: its verdict, or "none"
    outcomes,     \* per scan: what its recording router saw
    answer,       \* per scan: the hand-off its caller was told of, or "none"
    trail,        \* the audit trail
    console,      \* the reviews the human-review console holds
    inflight      \* the reviews the client gave up on, still on their way

reading == <<listing, touched, unread, resources>>
grading == <<kinds, verdict, outcomes, answer>>
sinks == <<trail, console, inflight>>
vars == <<deployment, call, directory, pc, reading, grading, sinks>>

Working == {"resolve", "read", "grade", "audit", "route", "respond"}

\* "refused" is the CLI's exit code 2, "failed" its 3 (over HTTP a 5xx), and
\* "crashed" a traceback.
Ended == {"done", "refused", "failed", "crashed", "lost"}

Actor(s) == IF call[s].entry = "cli" THEN CliActor ELSE "caller"

Init ==
    /\ deployment \in [profile : Profile, policy : Policies, routing : BOOLEAN]
    /\ call \in [Scan -> Calls]
    /\ deployment.profile = "onprem" => \A s \in Scan : call[s].entry = "cli"
    /\ directory \in Drafts
    /\ pc = [s \in Scan |-> "idle"]
    /\ listing = [s \in Scan |-> [f \in File |-> [status |-> "absent", resources |-> {}]]]
    /\ touched = [s \in Scan |-> {}]
    /\ unread = [s \in Scan |-> {}]
    /\ resources = [s \in Scan |-> {}]
    /\ kinds = [s \in Scan |-> {}]
    /\ verdict = [s \in Scan |-> "none"]
    /\ outcomes = [s \in Scan |-> {}]
    /\ answer = [s \in Scan |-> "none"]
    /\ trail = << >>
    /\ console = << >>
    /\ inflight = {}

Goto(s, from, to) ==
    /\ pc[s] = from
    /\ pc' = [pc EXCEPT ![s] = to]
    /\ UNCHANGED <<deployment, call, directory>>

Fail(s, from, how) == Goto(s, from, how) /\ UNCHANGED <<reading, grading, sinks>>

Found(s, found) ==
    /\ resources' = [resources EXCEPT ![s] = found]
    /\ UNCHANGED <<listing, touched, unread, grading, sinks>>

----------------------------------------------------------------------------
\* The command line names no target, or more than one.
Refuse(s) ==
    /\ call[s].entry = "cli" /\ Cardinality(call[s].given) # 1
    /\ Fail(s, "idle", "refused")

\* The settings are loaded once before the command's error handler is entered:
\* a deployment that refuses to start ends it with a traceback.
SettingsRefused(s) ==
    /\ call[s].entry = "cli" /\ Cardinality(call[s].given) = 1
    /\ Fail(s, "idle", "crashed")

Accept(s) ==
    /\ call[s].entry = "cli" => Cardinality(call[s].given) = 1
    /\ Goto(s, "idle", "resolve")
    /\ UNCHANGED <<reading, grading, sinks>>

\* Where the resources come from. Over HTTP an inline list wins over an inline
\* plan, and both over a target; nothing given is the target ".". The scope of
\* --project is the scanner's whatever it looks like; otherwise the path decides.
SourceOf(c) ==
    CASE "resources" \in c.given -> "resources"
      [] "resources" \notin c.given /\ "plan_json" \in c.given -> "plan_json"
      [] c.given = {} -> "directory"
      [] c.given = {"project"} -> "scope"
      [] OTHER -> c.target

\* An already-parsed list, or the live scanner's estate for a scope.
TakeEstate(s) ==
    /\ SourceOf(call[s]) = "resources"
        \/ (SourceOf(call[s]) = "scope" /\ deployment.profile # "onprem")
    /\ Goto(s, "resolve", "grade")
    /\ Found(s, call[s].estate)

\* On premises the scanner is a placeholder (NotImplementedError).
ScannerMissing(s) ==
    /\ SourceOf(call[s]) = "scope" /\ deployment.profile = "onprem"
    /\ Fail(s, "resolve", "refused")

\* The asset inventory cannot be reached; or there is no such path, or none the
\* parser reads.
TargetFails(s) ==
    /\ \/ SourceOf(call[s]) = "scope" /\ deployment.profile = "gcp"
       \/ SourceOf(call[s]) \in {"missing", "unsupported"}
    /\ Fail(s, "resolve", "failed")

ReadPlan(s) ==
    /\ SourceOf(call[s]) \in {"plan", "plan_json"} /\ ~PlanRaises(call[s].doc)
    /\ Goto(s, "resolve", "grade")
    /\ Found(s, PlanResources(call[s].doc))

PlanFails(s) ==
    /\ SourceOf(call[s]) \in {"plan", "plan_json"} /\ PlanRaises(call[s].doc)
    /\ Fail(s, "resolve", "failed")

Listed == {f \in File : directory[f].status # "absent"}

\* parse_tf_dir lists the files first and opens them one after the other.
ListDirectory(s) ==
    /\ SourceOf(call[s]) = "directory" /\ Listed # {}
    /\ Goto(s, "resolve", "read")
    /\ listing' = [listing EXCEPT ![s] = directory]
    /\ unread' = [unread EXCEPT ![s] = Listed]
    /\ UNCHANGED <<touched, resources, grading, sinks>>

DirectoryEmpty(s) ==
    /\ SourceOf(call[s]) = "directory" /\ Listed = {}
    /\ Fail(s, "resolve", "failed")

Opens(s, f) == f \in unread[s] /\ \A g \in unread[s] : f <= g

\* A bug to catch: the files after one that cannot be opened are not read.
ReadFileOrStop(s) ==
    \E f \in File :
        /\ Opens(s, f) /\ directory[f].status # "binary"
        /\ Goto(s, "read", "read")
        /\ unread' = [unread EXCEPT ![s] = IF directory[f].status = "text" THEN @ \ {f} ELSE {}]
        /\ resources' = [resources EXCEPT ![s] = @ \cup directory[f].resources]
        /\ UNCHANGED <<listing, touched, grading, sinks>>

\* A bug to catch: a file that cannot be opened is waited for.
ReadFileOrWait(s) ==
    \E f \in File :
        /\ Opens(s, f) /\ directory[f].status = "text"
        /\ Goto(s, "read", "read")
        /\ unread' = [unread EXCEPT ![s] = @ \ {f}]
        /\ resources' = [resources EXCEPT ![s] = @ \cup directory[f].resources]
        /\ UNCHANGED <<listing, touched, grading, sinks>>

\* A file that is gone or cannot be opened is skipped.
ReadFile(s) ==
    \E f \in File :
        /\ Opens(s, f) /\ directory[f].status # "binary"
        /\ Goto(s, "read", "read")
        /\ unread' = [unread EXCEPT ![s] = @ \ {f}]
        /\ resources' = [resources EXCEPT ![s] = @ \cup directory[f].resources]
        /\ UNCHANGED <<listing, touched, grading, sinks>>

FileFails(s) ==
    /\ \E f \in File : Opens(s, f) /\ directory[f].status = "binary"
    /\ Fail(s, "read", "failed")

AllRead(s) == unread[s] = {} /\ Fail(s, "read", "grade")

----------------------------------------------------------------------------
\* detect and compute_verdict; the model's prose, if any, is never read again.
Grade(s) ==
    /\ Goto(s, "grade", "audit")
    /\ LET found == Detect(resources[s], deployment.policy)
       IN  /\ kinds' = [kinds EXCEPT ![s] = found]
           /\ verdict' = [verdict EXCEPT
                  ![s] = IF Passes(found, deployment.policy) THEN "passed" ELSE "failed"]
    /\ UNCHANGED <<reading, outcomes, answer, sinks>>

Passing(s) == verdict[s] = "passed"

\* A bug to catch: the scan's own decision is not translated.
ScanDecisionNative(s) ==
    CASE Passing(s)                              -> "passed"
      [] ~Passing(s) /\ NeedsReview(kinds[s])    -> "escalated"
      [] OTHER                                   -> "failed"

ScanDecision(s) ==
    CASE Passing(s)                              -> "ALLOWED"
      [] ~Passing(s) /\ NeedsReview(kinds[s])    -> "ESCALATED"
      [] OTHER                                   -> "BLOCKED"

ScanRecord(s) == [scan |-> s, actor |-> Actor(s), decision |-> ScanDecision(s)]

\* The record is written, or the write fails and the failure is swallowed.
AuditScan(s) ==
    /\ Goto(s, "audit", "route")
    /\ \/ UNCHANGED trail
       \/ deployment.profile # "onprem" /\ trail' = Append(trail, ScanRecord(s))
    /\ UNCHANGED <<reading, grading, console, inflight>>

\* _scan_wire_severity
ScanSeverity(s) ==
    CASE \E kind \in kinds[s] : KindSeverity(kind) \in HighSeverity -> "high"
      [] \A kind \in kinds[s] : KindSeverity(kind) \notin HighSeverity ->
             IF \E kind \in kinds[s] : KindSeverity(kind) = "medium" THEN "medium" ELSE "low"

\* scan_to_review. POST /scan passes no tenant on.
ScanReview(s) ==
    [scan |-> s, maker |-> Actor(s), tenant |-> NoTenant, severity |-> ScanSeverity(s),
     approvals |-> IF ScanSeverity(s) = "high" THEN 2 ELSE 1]

Saw(s, outcome) == outcomes' = [outcomes EXCEPT ![s] = @ \cup {outcome}]

RouteOff(s) == ~deployment.routing /\ Saw(s, "off") /\ UNCHANGED sinks

\* A bug to catch: the router is not wrapped, so nobody sees what it did.
RouteStoredUnseen(s) ==
    /\ deployment.routing /\ deployment.profile # "onprem"
    /\ console' = IF deployment.profile = "local" THEN console ELSE Append(console, ScanReview(s))
    /\ UNCHANGED <<outcomes, trail, inflight>>

\* The outbox of the local profile is a list in the process, not the console.
RouteStored(s) ==
    /\ deployment.routing /\ deployment.profile # "onprem"
    /\ Saw(s, "routed")
    /\ console' = IF deployment.profile = "local" THEN console ELSE Append(console, ScanReview(s))
    /\ UNCHANGED <<trail, inflight>>

\* On premises the router always raises; elsewhere the review may still arrive.
RouteFailed(s) ==
    /\ deployment.routing /\ deployment.profile # "local"
    /\ Saw(s, "failed")
    /\ \/ UNCHANGED inflight
       \/ deployment.profile = "gcp" /\ inflight' = inflight \cup {ScanReview(s)}
    /\ UNCHANGED <<trail, console>>

\* A bug to catch: what is routed is what fails the gate.
RouteBlockedOnly(s) ==
    /\ Goto(s, "route", "respond")
    /\ IF ~Passing(s)
       THEN RouteOff(s) \/ RouteStored(s) \/ RouteFailed(s)
       ELSE UNCHANGED <<outcomes, sinks>>
    /\ UNCHANGED <<reading, kinds, verdict, answer>>

\* _maybe_route_review
RouteScan(s) ==
    /\ Goto(s, "route", "respond")
    /\ IF NeedsReview(kinds[s])
       THEN RouteOff(s) \/ RouteStored(s) \/ RouteFailed(s)
       ELSE UNCHANGED <<outcomes, sinks>>
    /\ UNCHANGED <<reading, kinds, verdict, answer>>

\* The response, or the last line the command prints, and its exit code.
Respond(s) ==
    /\ Goto(s, "respond", "done")
    /\ answer' = [answer EXCEPT ![s] = Outcome(outcomes[s])]
    /\ UNCHANGED <<reading, kinds, verdict, outcomes, sinks>>

\* 0 when the gate passes, 1 when it fails (and for a traceback), 2 and 3
\* without a verdict.
ExitCode(s) ==
    CASE pc[s] = "done"    -> IF Passing(s) THEN 0 ELSE 1
      [] pc[s] = "crashed" -> 1
      [] pc[s] = "refused" -> 2
      [] OTHER             -> 3

----------------------------------------------------------------------------
\* The author writes, locks, breaks or removes a file. Only a scan that has not
\* read its target yet can tell.
Edit(f, file) ==
    /\ \E s \in Scan : SourceOf(call[s]) = "directory" /\ pc[s] \in {"resolve", "read"}
    /\ directory' = [directory EXCEPT ![f] = file]
    /\ touched' = [s \in Scan |-> IF pc[s] = "read" THEN touched[s] \cup {f} ELSE touched[s]]
    /\ UNCHANGED <<deployment, call, pc, listing, unread, resources, grading, sinks>>

LateArrival(review) ==
    /\ review \in inflight
    /\ inflight' = inflight \ {review}
    /\ console' = Append(console, review)
    /\ UNCHANGED <<deployment, call, directory, pc, reading, grading, trail>>

\* A command is a process of its own; the scans over HTTP share one.
Crash(dying) ==
    /\ dying # {} /\ \A s \in dying : pc[s] \in Working
    /\ \/ \E s \in Scan : call[s].entry = "cli" /\ dying = {s}
       \/ dying = {s \in Scan : call[s].entry = "api" /\ pc[s] \in Working}
    /\ pc' = [s \in Scan |-> IF s \in dying THEN "lost" ELSE pc[s]]
    /\ UNCHANGED <<deployment, call, directory, reading, grading, sinks>>

Resolve(s) ==
    \/ TakeEstate(s) \/ ScannerMissing(s) \/ TargetFails(s)
    \/ ReadPlan(s) \/ PlanFails(s)
    \/ ListDirectory(s) \/ DirectoryEmpty(s)

Read(s) == ReadFile(s) \/ FileFails(s) \/ AllRead(s)

Step(s) ==
    \/ Refuse(s) \/ SettingsRefused(s) \/ Accept(s) \/ Resolve(s) \/ Read(s)
    \/ Grade(s) \/ AuditScan(s) \/ RouteScan(s) \/ Respond(s)

Finished ==
    /\ \A s \in Scan : pc[s] \in Ended
    /\ UNCHANGED vars

Next ==
    \/ \E s \in Scan : Step(s)
    \/ \E f \in File, file \in TfFile(Contents) : Edit(f, file)
    \/ \E review \in inflight : LateArrival(review)
    \/ \E dying \in SUBSET Scan : Crash(dying)
    \/ Finished

Spec == Init /\ [][Next]_vars

\* A process that has a scan finishes it: every call it makes returns or times
\* out, and the listing it reads from does not grow.
FairSpec == Spec /\ \A s \in Scan : WF_vars(pc[s] # "idle" /\ Step(s))
====
