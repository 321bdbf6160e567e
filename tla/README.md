# Verification of the architecture validator

The repository is a gate in front of AI projects of a regulated business. A
project is submitted for intake and checked against twelve General Principles
(P-01 to P-12); a Terraform estate is scanned for data residency. Both answer with
a verdict, write an audit record, hand what is open to a human-review console
under maker-checker control, and tell the caller what became of that hand-off.

This directory holds TLA+ modules that model the two pipelines and the rules they
apply, TLC configurations that check them on small instances, and proofs that
TLAPS checks for every value of the constants. Paths below are relative to
`src/architecture_validator/` unless they start with `docs/`, `ui/` or `infra/`.

`PROJECT.json` maps every definition to the lines it models and lists the runs,
the seeded bugs each property catches, the findings, the hazards and the theorems.

## 1. The system

### 1.1 Components

| component | state it keeps | operations | modelled in |
|---|---|---|---|
| in-process evaluator (`domain/principles_eval.py`, `adapters/local/policy.py`) | none | `evaluate_all` | `PrinciplesEval` |
| rego bundle (`policies/principles.rego`, `validate.rego`) | none | the rules as OPA evaluates them | `RegoPolicy` |
| published catalogue (`domain/principles.py`, `policies/principles.yaml`) | constant data | read | `PrincipleCatalogue` |
| OPA client (`adapters/gcp/opa_policy.py`) | none | `evaluate` | `OpaPolicy` |
| requirement injection (`domain/injection_service.py`, `_grounded.py`) | none | `inject` | `RequirementInjection` |
| intake pipeline (`domain/validation_service.py`, `hitl.py`, `api/app.py`, `api/deps.py`) | per request: findings, sources, requirements | `validate` | `ValidationService` |
| hand-off and disclosure (`adapters/controls.py`, `_review_payload.py`, `platform/review_router.py`, `local/review_router.py`, `api/disclosure.py`) | per request: outcomes seen; local profile: an in-memory outbox | `route`, `outcome`, `disclose` | `ReviewHandoff`, `ValidationService`, `ResidencyScan` |
| audit sinks (`adapters/local/audit.py`, `gcp/cloud_logging_audit.py`, `platform/remote_audit.py`) | append-only trail | `record` | the variable `trail` |
| nested residency scan of an intake (`adapters/local/scan_residency.py`) | a container of its own, built on first use | `findings` | `ValidationService` (its result is a constant) |
| residency detector and verdict (`domain/residency/`) | none | `detect`, `compute_verdict`, `requires_review` | `ResidencyDetector` |
| Terraform readers (`pipelines/terraform.py`) | none | `parse_plan_json`, `parse_tf_dir` | `TerraformTarget`, `ResidencyScan` |
| residency scan (`domain/residency/scan_service.py`, `api/app.py`, `cli/residency.py`) | per scan: resources, violations, verdict | `scan_target`, `scan_resources`, the `scan` command | `ResidencyScan` |
| settings and boot refusals (`config.py`, `envread.py`) | immutable settings | `load`, refusals | `ProcessSettings`, `ServingProcess` |
| container (`config.py`, `api/deps.py`) | lazily bound ports | first use of a port | `LocalStores`, `ServingProcess` |
| identity (`adapters/gcp/iap_identity.py`, `local/identity.py`, `api/security.py`) | the configured audience | `resolve` | `CallerIdentity` |
| serving process (`api/app.py`, `api/deps.py`) | what its import resolved: origins, framing, the guard | start, admit, identify, build, serve | `ServingProcess` |
| local stores (`adapters/local/knowledge.py`, `scanner.py`) | two tables of a SQLite file, self-seeded | construction, seeding, `retrieve`, `scan` | `LocalStores` |
| managed knowledge base and models (`adapters/gcp/file_search_kb.py`, `gemini_llm.py`, `live/llm.py`, `local/llm.py`) | none | calls to services | as every reply they can give |
| sibling-service clients (`adapters/platform/remote_*.py`) | none | HTTP calls, best effort | as every reply they can give |
| on-premises placeholders (`adapters/onprem/`) | none | raise `NotImplementedError` | where a pipeline meets them |
| readers of a submission (`api/schemas.py`, `cli/main.py`, `agent/tools.py`, `mcp/server.py`, `eval/run_eval.py`) | none | one conversion of the JSON document each | `SubmissionDocuments` |
| command line (`cli/main.py`, `cli/residency.py`) | none | commands, exit codes | `EntryPoints` (`validate`, `inject-requirements`, `eval`), `ResidencyScan` (`scan`), `ServingProcess` (a command as the operator) |
| agent, tools and MCP server (`agent/`, `mcp/server.py`) | the state of a turn | a turn, a tool call | `EntryPoints`; who they act as: `ServingProcess` |
| registry and tool catalogue (`adapters/*/registry.py`, `adapters/*/tool_catalog.py`, ...) | a dictionary | register, look up | the catalogue, which the MCP server is bound against: `EntryPoints`; the registry is not modelled |
| evaluation gate (`eval/`, `adapters/gcp/genai_eval.py`, `adapters/platform/remote_evaluation.py`) | sums of the scores, the report | smoke run, promotion gate, exit code | `EvaluationGate` |
| web console (`ui/`) | listeners around `fetch`, provenance of the last answer | notes answers, probes health | not modelled: shows what the API answered |
| deployment (`infra/`) | none | build and infrastructure scripts | not modelled: no program state |

### 1.2 How they interact

    POST /validate ──> ValidationService ──> policy engine (OPA, or the evaluator)
                            │  ├─> knowledge base, control mapping, residency
                            │  │      (nested scan: its own record and review)
                            │  ├─> drafting model ──> RequirementInjection
                            │  ├─> audit trail
                            │  └─> RecordingReviewRouter ──> review console
                            └─> disclose(outcome) ──> caller

    POST /scan, scan ────> ResidencyScanService ──> plan / .tf directory / live scanner
                            │  ├─> ViolationDetector, compute_verdict
                            │  ├─> audit trail
                            │  └─> RecordingReviewRouter ──> review console
                            └─> response, or printed outcome and exit code

The pipelines share the audit trail and the console and nothing else: every
request has a service and a recording router of its own (`api/deps.py:47-110`).
All calls are synchronous and made from worker threads.

    import of api/app.py ──> Settings.load ──> refused, or a process with its origins,
                                               its framing policy and its guard
    request ──> guard ──> get_principal ──> build the service ──> validate, scan
    command, tool call ──> Settings.load ──────┘  (as the operator)

    API, commands, agent's tools, MCP server ──> a reader of its own ──> validate, or inject
    eval command, pipeline ──> run_eval.py ──> golden sets, or the evaluation service
                                     └─> exit code ──> merged, or promoted

What a process resolved at import it keeps; each request resolves its principal
before its service is built. The adapters it meets first are constructed then, without
a lock, and those of the laptop profiles seed the SQLite file they open, which other
processes (a command beside the API) have open too.

### 1.3 What is hard here

* **Collaborators that half work.** OPA answers with something that is not a
  findings list, or with half of one; the model drops, doubles or invents items; the
  tracer cannot be built; a write of the audit record fails and is swallowed.
* **Two calls without a transaction.** The record is written, then the review is
  handed over. A crash, a refused write or a refused hand-off between the two leaves
  one without the other.
* **A late console.** The client times out, tells the caller "failed", and the
  console stores the review afterwards, perhaps after a restart.
* **Several rules over one list.** Verdict, audit decision, need of a review, its
  severity and its approvals are computed separately and must tell one story.
* **Two copies of the ruleset,** in Python and in rego, and two readers of a
  resource, the plan walk and the HCL expressions.
* **Targets that change.** The `.tf` directory is listed first and read file by
  file while its author edits it.
* **Three states of a variable.** Unset, emptied and a value are read by several
  functions with defaults of their own, and an unset profile binds the local adapters
  without being a choice of them.
* **One decision per process, one per request.** The guard is decided at import from
  what the identity adapter declares; the identity is resolved per request by what it does.
* **Construction on first use.** Threads and processes construct, and seed, at once.
* **Four doors.** The API, the commands, the agent's tools and the MCP server read the
  same document with conversions and defaults of their own, and tell their callers in
  forms of their own what became of the review.
* **A gate made of averages.** A golden set is judged by rounded means against bars,
  over two families whose metrics share names; the exit code is all a pipeline sees.
* **Stopping.** A constructor that waits for a locked file must end, and so must a scan of
  files that are locked or removed while it runs.

The 37 hazards of `PROJECT.json` name the lines. Those without a property say why:
either the code accepts the outcome, or it is left out for the reason in section 6.

## 2. The modules

    IntakeDomain ── PrinciplesEval ── RegoPolicy ──┬── PrincipleCatalogue ── PrincipleRevision
         │                │              │         │        (MCPrinciples, PrinciplesProofs)
         │                │           OpaPolicy ───┤
         │                │   RequirementInjection ┤
         │                └────── ReviewHandoff ───┴── ValidationService ── IntakeProperties
         │                             │                 (MCIntake, IntakeProofs, GateProofs)
         └── ResidencyDetector ── TerraformTarget ──┬── ResidencyRules
                                                    │   (MCResidencyRules, ResidencyProofs)
                       ReviewHandoff ───────────────┴── ResidencyScan ── ScanProperties
                                                        (MCResidencyScan, ScanProofs)

    ProcessSettings ── CallerIdentity ── ServingProcess ── ServingProperties
                                                          (MCServing, ServingProofs)
    LocalStores (MCStores, StoreProofs)

    PrinciplesEval ── SubmissionDocuments ─┐
    RequirementInjection, ResidencyDetector ┴─ EvaluationGate ─┐
                                  ReviewHandoff ───────────────┴── EntryPoints ── EntryPointProperties
                                                                  (MCEntryPoints, EntryPointProofs)

    IntakeGate: the abstract specification, instantiated by IntakeProperties and by ScanProperties

### 2.1 The ruleset

A text (a control, a region, an attribute) is a word and whether it carries blanks:
that is all the checks tell apart, since they strip and fold case. `PrinciplesEval`
has one operator per check (`P01` ... `P12`), in the code's order of tests, and
`RegoPolicy` one per rego rule, reading the input document the client sends (no
strip, an absent region is `null`). `PrincipleCatalogue` states for each principle
what must hold for FAIL and for NEEDS_INFO, from the machine rules that are
published, without the order of tests.

`PrincipleRevision` lets an author revise a submission (declare and withdraw
controls, move region, sign an exception, redesign), so that the properties speak of
every submission these steps reach, and of steps between two of them.

### 2.2 The intake pipeline

`ValidationService` has one action per stretch of `_validate_inner` between two
calls to a collaborator; every outcome of the call is a choice. Variables are
functions of the request (`findings`, `sources`, `injected`, `outcomes`,
`answer`) and the shared sinks (`trail`, `console`, and `inflight`: reviews the
client gave up on that may still arrive).

| code | actions |
|---|---|
| `validate`, opening the span (`validation_service.py:91-105`) | `Accept`, `TracerFails` |
| policy engine and fallback (`117-128`) | `EvaluateLocally`, `EvaluateRemotely`, `EvaluateRaises` |
| `_gather_context` (`164-207`) | `NothingUnmet`, `GatherContext`, `AskResidency`, `StartScan`, `ScanAudit`, `ScanRoute` |
| `inject` (`134-146`) | `InjectAndAssemble` |
| `_audit_report` (`212-239`) | `AuditReport` |
| hand-off (`151-159`) | `Route`: `RouteOff`, `RouteStored`, `RouteFailed` |
| response (`api/app.py:259-262`) | `Respond` |
| console, process | `LateArrival`, `Crash` |

`Crash` stops every worker and empties the outbox of the local profile, which is a
list in the process (`adapters/local/review_router.py:20-40`).

### 2.3 The residency scan

`ResidencyDetector` is the detector, the verdict and the review floor on the kinds
of violation a resource has. `TerraformTarget` represents a resource block as a
sequence of assignments (key, value, literal / null / reference / comment, block,
nested deeper or not) and reads it as the plan shows it (`PlanResource`) and as the
regular expressions see it (`HclResource`); it also has the module tree of a plan
and what a `.tf` file is to its reader. `ResidencyRules` lets an author write and
strike assignments and a deployment change its policy.

`ResidencyScan` is the pipeline behind `POST /scan` and the `scan` command:

| code | actions |
|---|---|
| command line, `_run` (`cli/residency.py:134-151,175-197`) | `Refuse`, `SettingsRefused`, `Accept` |
| choice of the target (`api/app.py:286-304`, `scan_service.py:202-217`, `terraform.py:247-258`) | `SourceOf`, `TakeEstate`, `ScannerMissing`, `TargetFails` |
| `parse_plan_json` (`terraform.py:65-98`) | `ReadPlan`, `PlanFails` |
| `parse_tf_dir` (`terraform.py:174-193`) | `ListDirectory`, `DirectoryEmpty`, `ReadFile`, `FileFails`, `AllRead` |
| `_scan_resources` (`scan_service.py:164-289`) | `Grade`, `AuditScan`, `RouteScan` |
| response, or printed outcome and exit code | `Respond`, `ExitCode` |
| author, console, process | `Edit`, `LateArrival`, `Crash` |

### 2.4 What both promise

`IntakeGate` is the gate seen from outside, with four variables: the verdict of each
request, the decisions on the trail, the requests queued for a checker, and what the
caller was told. A request is decided at most once or fails leaving nothing; it is
recorded at most once, with the decision its verdict calls for, and before it is
queued; "routed" is answered only for what is queued, "off" only for what is not;
what was answered "failed" or lost may still be queued, at most once.

Both pipelines implement it. `IntakeProperties!Refines` computes the verdict from
the findings and reads the sinks; `ScanProperties!ImplementsGate` does the same for
a scan, counts the outbox of the local profile as a queue, and takes a scan that asks
for no review as one whose review is off. The gate does not promise that a record is
there: a failed audit write is swallowed (`validation_service.py:236-239`,
`scan_service.py:284-289`), and a gate that promised it would not be this one.

### 2.5 The serving process

`ProcessSettings` is what one process makes of its environment (each variable unset,
emptied or a value) and of `config/settings.yaml`: the profile and whether it was
chosen, every refusal of `Settings.load` and of the import of `api/app.py`, and what is
derived from them (origins, framing, bind, the declaration of the identity adapter).
`CallerIdentity` has the adapters of the identity port, the assertion of the proxy as the
outcomes of the checks made of it. `ServingProcess` puts them in order:

| code | actions |
|---|---|
| import of the API (`api/app.py:122-243`) | `Start`; a refused one leaves nothing behind |
| a request comes in; a command or a tool call (`cli/main.py:57-98`, `agent/tools.py:31-81`) | `Arrive`, `Command` |
| exposure guard (`api/app.py:226-243`) | `Guard`, `TurnAway` |
| `get_principal` (`api/security.py:24-45`) | `Identify`, `Refuse` |
| the service is assembled (`api/deps.py:86-133`, `config.py:648-656`) | `Build`, `FailToBuild` |
| the service runs, its review is handed off | `Serve`, `Raise`, `Respond` |
| the process or the command ends | `Crash`, `Kill` |

The service itself is one step here: `ValidationService` and `ResidencyScan` are its
detail, which take the verified caller as given.

### 2.6 The local stores

`LocalStores` has one action per SQL statement of a constructor, with its lock: the
table is created, looked at, cleared and filled in one transaction, or found
seeded. Threads of one process and processes on one file interleave between any two of
them; any statement may raise (the lock is not had within SQLite's busy timeout),
which drops the connection and what it had not committed; a process may stop anywhere.

### 2.7 The doors and the evaluation gate

`SubmissionDocuments` has the JSON document that describes a project, with each key left
out, null, well typed or a text where the schema has another type, and what each reader
makes of it: pydantic refuses or coerces, the others apply `bool()` and defaults, and the
MCP server reads no attributes. `EntryPoints` submits one document through any of the
doors, by several callers at once:

| code | actions |
|---|---|
| a request, a command, a tool call; the MCP server is bound against the tool catalogue (`mcp/server.py:66-106`) | `Begin` |
| a 422, an `AttributeError` (`api/schemas.py:56-95`, `cli/main.py:93-123`, `agent/tools.py:36-51`) | `Refuse` |
| no policy engine; the container or the service raises (`cli/main.py:79-98`) | `Unavailable`, `Fails` |
| the validation: verdict, record, hand-off (`validation_service.py:91-239`) | `Validate`, `Route`, `LateArrival` |
| what the caller is told (`api/disclosure.py:16-22`, `cli/main.py:201-244`, `agent/tools.py:54-112`, `mcp/server.py:66-83`) | `Answer`, `AnswerInjected`, `InjectOnly` |
| `after_agent_callback` (`agent/callbacks.py:55-97`) | `TurnEnd` |
| a process stops | `Stop` |
| the `eval` command, or a pipeline, starts the script (`cli/main.py:301-334`) | `EvalCommand`, `EvalReturns`, `Pipeline` |

Behind a door a validation is the verdict of the in-process rules, a record that is written
or lost, and a hand-off; `ValidationService` has the detail, and the other outcomes of a
policy service. What a caller is told follows the code door by door: a process that ends
with its answer (a command, a container built for one tool call) takes the in-memory
outbox of the local profile with it.

`EvaluationGate` is `run_eval.py`: in smoke mode the rubrics and the golden set of a family
are loaded (`Load`, `LoadFails`), scored line by line by the real evaluator and detector
(`SkipLine`, `ScoreLine`), and settled (`Settle`, `SettleFails` for a denominator that
cannot support its bar); the two reports become one and the exit code (`Decide`). In gate
mode the evaluation service is asked twice (`Evaluate`, `Confirm`, `ServiceFails`), on
the profiles that have one (`GateRefused`). Scores are integers: in 1/10000 for the
architecture family, which rounds each of them, and in 1/60 for the residency family, whose
fractions have at most six parts. Rounding to four digits is that of exact arithmetic.

## 3. The runs

| run | module and configuration | states | properties |
|---|---|---|---|
| `rules` | `MCPrinciples`, `MCPrinciples_rules.cfg` | 92,160 | `FollowsCatalogue`, `LockstepOnCommonDomain`, `DeclaringNeverHurts` |
| `data` | `MCIntake`, `MCIntake_data.cfg` | 102,248 | `TypeOK`, `OneRequirementPerUnmetPrinciple`, `GroundedRequirements`, `OnlyResidentProjectsPass`, `DualControlOnOpenRisk`, `Refines` |
| `threads` | `MCIntake`, `MCIntake_threads.cfg` | 1,430,930 | `RecordAgreesWithReview`, `DisclosureIsTrue`, `OneRecordOneReview`, `ErrorsLeaveNoTrace` |
| `residency` | `MCResidencyRules`, `MCResidencyRules.cfg` | 259,224 | `TypeOK`, `FormatsAgreeOnLiterals`, `OnlyResidentEstatesPass`, `HardeningNeverHurts`, `StricterNeverPassesMore` |
| `scans` | `MCResidencyScan`, `MCResidencyScan.cfg` | 765,160 | `TypeOK`, `PassIsEarned`, `PlanIsWalkedWhole`, `OutcomesAgree`, `ImplementsGate`, `EveryScanEnds` |
| `stores` | `MCStores`, `MCStores.cfg` | 288,739 | `TypeOK`, `CorpusIsExact`, `SeededOnceForAll`, `EveryTouchEnds` |
| `serving` | `MCServing`, `MCServing.cfg` | 1,032,282 | `TypeOK`, `PrincipalIsEarned`, `StrangersAreVerified`, `ConsentIsNeeded`, `EmptiedIsNotUnset`, `HandOffIsConfigured`, `UnavailableToAll` |
| `entry` | `MCEntryPoints`, `MCEntryPoints.cfg` | 881,730 | `TypeOK`, `EntryPointsAgree`, `QueuedIsTold`, `PromotionIsEarned` |

Deadlock is checked in every run but `serving`, where an image whose settings file is
refused cannot be started at all, and `entry`, where calls and evaluations end and nobody
has to come again. A state in which every request has ended is not
a deadlock: `Finished` stutters there.

### 3.1 What they show and why the bounds suffice

**rules.** Submissions are those that revisions lead to from a draft that declares
the four controls no other stands beside. The other controls are offered by kind: those
that share a principle with another one (P-07, P-09, P-10), one that comes with blanks
around it, and P-02's; regions are none, blank, allowed (with blanks and without) and not
allowed. A check reads a handful of these, and no two checks interact, so a larger
universe repeats the cases. That the evaluator and the bundle agree is claimed on
their common domain only; `IdenticalVerdicts` (below) shows what lies outside.

**data.** One request, the two profiles that share the policy service and the
console, five projects (clean; passing with an open high-severity principle; foreign;
foreign with a signed exception; no region), the odd answers of a policy service that
does not serve the bundle whole, the replies a model can give, every outcome of the
nested scan. One request is enough: these properties relate a report to what its own
collaborators sent. The same states are checked against `IntakeGate`. The
local profile is left to the next run: its outbox does not survive a restart, so that a
queued report can vanish, which the gate does not allow and the code does.

**threads.** Two concurrent requests of two callers on the local and on the managed
profile, symmetric. Two suffice for what is shared: a third request meets the trail and
the console as the second one does, and the proofs (section 5) have no such bound. The
properties relate the two sinks and the answer of a request across crashes, lost
writes and late arrivals.

**residency.** Blocks of up to three assignments out of 25: regions allowed,
foreign, global in two spellings, blank, null, a reference, in a nested block; the key
as a literal, a blank, null and a comment; egress settings in the block, one and two blocks
down, deeper; a perimeter. Seven policies differ in each of the three fields. The
rules read a key, an egress setting and a region independently, so three
assignments reach every pair of conflicting ones beside a third.

**scans.** One scan of each kind of target, two files, edits of either file into every
state, two policies chosen so that one fails a scan no review is asked for and the
other passes one it is. Scans share no state but the sinks, on which each appends
what is its own, and the directory, which an author changes more freely than
another scan could; so one scan meets every interleaving that matters to it.

**stores.** An API with two threads and a command, on one file that is not there yet.
Two threads are what it takes to construct one port twice, and a command to do so from
another process; both tables, the three ports over them, failures and kills at every
statement. What is bound, cleared or found empty concerns one table and one worker at a
time, so that more of them add no new pair of statements; the proofs have no bound.

**serving.** Every environment that is at most two variables away from one that the
documentation gives for a profile (or from one whose profile is unset, emptied or
mistyped), so that every pair of settings meets; five settings files (as shipped, missing,
rebound on premises, pinned to a profile, with a weakened policy); nine callers, whose
assertion is sound or lacks one thing. One call is in flight at a time: requests share
only what the process resolved at start, and the proofs have no such bound.

**entry.** Two callers, each through any of the doors, on any profile, with routing on
or off: the property about two answers needs two, the hand-off is one caller's own, and
the proofs have no bound. One document per behaviour (21 of them): whole, or with one key
left out, null, a text, foreign, waived or documented; the configured regions are fewer
than the built-in ones, so that the two can be told apart. Blanks around a word are left
to the run `rules`. The golden sets have at most four lines (`MaxLines`): a family is
accepted or fails by a malformed line, no example, a denominator too small, a rate, one
safety miss, and each of these is among the fifteen pairs of files; the rubrics are the
shipped ones, one bar short, one too many, and lenient rates. The evaluation is started
before the calls (`Quiet`) and not interleaved with them (the constraint
`OneThingAtATime`): the two share no state but the `eval` command that waits for its code.

### 3.2 Fairness

In `ResidencyScan`, `FairSpec` assumes weak fairness of the steps of each scan a process
has begun. It is justified by what the code calls: the list of files `parse_tf_dir` works
through is taken once and does not grow, a file that cannot be opened is skipped, and the
managed SDKs and HTTP clients have deadlines. Nothing makes a caller start a scan, a
crashed process take it up again, or the console store a late review: no fairness is
assumed of `Accept`, `Refuse`, `Crash`, `Edit` or `LateArrival`.

The intake pipeline is straight-line code over calls that return or time out
(`adapters/gcp/opa_policy.py:63`, `adapters/platform/remote_*.py`); that it ends says
nothing a model would add, and no liveness is stated of it. Its `FairSpec` serves the run
`verdict_always` alone: the request of that counterexample does not merely stop.

In `LocalStores` a worker that has touched a port runs on: weak fairness of
`Construct(w) \/ Read(w)`. A statement that waits for the write lock is given up after
SQLite's busy timeout, which `sqlite3.connect` sets by default
(`adapters/local/knowledge.py:66`, `scanner.py:77`): `Raise` is enabled where the others
are not. `ServingProcess` and `EntryPoints` state no liveness: their stages follow one another.

### 3.3 Seeded bugs

Each property of these runs is paired in `PROJECT.json` with a plausible bug that it
catches: a variant of one definition, written before it under a comment "A bug to catch".
No specification uses these variants.

## 4. Where the code departs from what is said of it

| run | what is said | what the run shows |
|---|---|---|
| `verdict_always` | `domain/validation_service.py:115-116`: the evaluator is the fallback "so a verdict is always produced" | an answer of the policy service that is not a JSON object raises something the fallback does not catch |
| `identical_verdicts` | `policies/principles.rego:3-5`: both engines "produce identical verdicts" | a submission passes on one engine only |
| `promotion_bars` | `adapters/gcp/genai_eval.py:19-20`: its bars "mirror eval/rubrics/*.yaml", where `safety.yaml:8` asks for 1.0 | a change is promoted on the managed profile with a safety score of 0.995, since the adapter kept 0.99 |
| `unreadable` | `domain/errors.py:41-43`: an unreadable directory is "a hard error ... rather than emit a misleading PASS over zero scanned resources" | a directory of which no file can be opened passes |

Noted while modelling, without a run, since nothing in the repository promises
otherwise or the model follows the code as it is:

* A passing report with an open high-severity principle is routed and recorded ALLOWED;
  the comment at `validation_service.py:151-154` calls the "audit ESCALATED record" the
  source of truth of a routed report. Likewise a scan whose gate is set above HIGH passes,
  is recorded ALLOWED and is routed, where the docstring at
  `domain/residency/scan_service.py:194-196` says "already recorded in the audit trail as
  ESCALATED". `OutcomesAgree` takes neither side: it leaves open how such a scan is recorded.
* The port of the policy engine promises "one finding each" for the principles
  (`ports/policy.py:22`). The client takes whatever entries of an answer it can read, and
  only an empty list makes the service fall back (`validation_service.py:124`): a list that
  covers some principles is the whole verdict. `OnlyResidentProjectsPass` therefore speaks of
  reports that have a finding on P-03.
* `docs/runbook.md:127` explains "failed" as "the item is not queued, so resubmit it". A
  client that timed out answers so, and the console may store the review afterwards;
  `IntakeGate` allows it, and `QueuedIsTold` says "failed when it arrived late".
* What becomes of the review of a nested residency scan is disclosed to nobody.
* `POST /scan` documents "exactly one" of three inputs and enforces none; with nothing
  given it scans the directory the server runs in (`api/app.py:286-304`).
* `POST /scan` does not pass the caller's tenant on (`api/app.py:297-304`).
* Settings that refuse to load end the scan command with a traceback and exit code 1,
  the code of a failed gate (`cli/residency.py:182`).
* The live scanner lifts three attributes in the spelling of the asset inventory, which
  no rule reads (`adapters/gcp/cloud_asset_scanner.py:27-35`).
* The HCL reader takes null, references and comments for values and looks at every
  depth; the plan walk flattens one level (`terraform.py:129-145,232-241`).
  `FormatsAgreeOnLiterals` states where the two agree.
* `docs/runbook.md:129` lists 401 as the symptom of an unset IAP audience; the code
  answers 503 (`adapters/gcp/iap_identity.py:74-82`), and means to.
* The model the console is told of comes from the managed profiles only, so under
  `platform`, which binds the managed model too, its pill names the offline stub until an
  answer arrives (`config.py:538-547`, against the docstring at `515-520`).
* A residency control that is misspelt in the settings is dropped in silence
  (`config.py:491-493`), where an unknown key of the policy block is refused (`586-588`).
* A command loads its settings before it enters its error handler (`cli/main.py:83`), and
  the API reads its settings file twice as it is imported (`api/app.py:147,224`); the
  file is taken as fixed, as it is in an image.
* A plan with `resource_changes` and no `planned_values` yields no resource and
  passes (`terraform.py:77-85`).
* The flag `"false"`, a text, is true to the commands, the agent's tools, the MCP server
  and the golden set (`bool()`), and false to the API (pydantic). `EntryPointsAgree`
  excepts it.
* The MCP server reads no attributes (`mcp/server.py:32-53`), so a signed region exception
  or a documented fallback does not count there: it asks for more than the API does.
* `inject-requirements` of the commands and of the agent evaluates with the built-in
  regions on every profile, whatever regions the settings allow, and without a record.
* `make mcp-serve` runs on the local profile by default, whose tool catalogue has one of the
  three handlers, so `bind` refuses to start.
* A command and an agent's tool on the local profile answer "routed", and the outbox the
  review was put into ends with the process.
* The agent writes an ESCALATED record at the end of every turn, whatever the verdict of
  the tool it called (`agent/callbacks.py:63`).
* The `eval` command is described as the promotion gate and runs the smoke mode.
* `adapters/local/evaluation.py` calls `run_offline` with two arguments where it takes
  one, and its `gate` ignores the target. `run_gate` refuses the local profile, so nobody
  meets either.
* A rate is asserted to have as many cases as make one miss affordable, pooled over the
  examples, where the mean divides by the number of examples (`run_eval.py:349,385-386`):
  a corpus the assertion accepts can still fail a bar on one miss. The denominators of
  residency precision and of the two safety metrics are not asserted.
* The header of `run_eval.py` and the text of the safety rubric speak of 0.99; the bar is 1.0.
* A missing encryption key is cited as P-10 by the residency detector; the catalogue has
  encryption keys under P-09.

## 5. What is proved

The proofs hold for every value of the constants that meets the assumptions stated
where the constants are declared: `RegionAssumption` (the blank region is a region,
"no region" is not a text), `RevisionAssumption`, `SourceAssumption`,
`DeploymentAssumption` and `CollaboratorAssumption` (each collaborator answers with
something of the type its code can return), `CaseAssumption` and
`UnlistedAssumption` (lower-casing maps regions to regions, and a blank to itself),
`RulesAssumption`, `ScanAssumption`, `HomeAssumption`, `PersonaAssumption`,
`ServingAssumption`, `EvaluationAssumption` and `EntryAssumption` (types again),
`GoldenAssumption` (golden sets of fewer than 20,000 lines) and `RubricAssumption` (the
bar of a safety metric is 1.0, as both rubrics have it). TLC evaluates each of them in the
runs of section 3. Two of them say more than a type: a deployment allows at least one
region (`DeploymentAssumption`; `PolicySettings` refuses an empty list, `config.py:278-279`),
and the modules of a plan are a tree, numbered so that a module comes after the one that
calls it (`IsModules`; the nesting of JSON is one by itself).

What an operator with a bounded loop in it returns (the walk of a plan, the first
assignment of a key, the sum of the scores) is proved for inputs of every size. Two forms
carry those proofs. A least counterexample stands in for an induction: `LeastNatural`, from
the well-foundedness of `<` on the naturals, picks the first place where a claim fails,
and the places before it refute that. And a value that is described by CHOOSE is met by a
lemma that whatever fits the description is the value (`FirstSeen`, `HclValueIs`).

| theorem | module | statement |
|---|---|---|
| `TypeInvariant` | `PrinciplesProofs` | revisions keep a submission well formed |
| `EvaluatorFollowsCatalogue` | | `[]FollowsCatalogue` |
| `EnginesInLockstep` | | `[]LockstepOnCommonDomain` |
| `DeclaringIsSafe` | | `DeclaringNeverHurts` |
| `PipelineTypes` | `IntakeProofs` | `[]TypeOK` |
| `HandoffIsSound` | | `[]HandoffInv`, the inductive invariant |
| `ErrorsLeaveNothing`, `DualControlHolds`, `SinksAgree`, `OncePerReport`, `DisclosureHolds` | | `[]ErrorsLeaveNoTrace`, `[]DualControlOnOpenRisk`, `[]RecordAgreesWithReview`, `[]OneRecordOneReview`, `[]DisclosureIsTrue` |
| `EveryUnmetPrincipleGetsOne`, `CitationsAreGrounded` | | `[]OneRequirementPerUnmetPrinciple`, `[]GroundedRequirements` |
| `ForeignPassIsTheServices` | | `[]PassesOnServicesWord`: what passes a foreign project is no engine of this code |
| `OnlyResidentsPassIntake` | | `[]OnlyResidentProjectsPass`, if the policy service holds residency (`ServiceHoldsResidency`) |
| `PipelineImplementsGate` | `GateProofs` | `Refines`, if `"local"` is not among the profiles |
| `StricterIsSafer`, `OnlyResidentsPass` | `ResidencyProofs` | `StricterNeverPassesMore`, `[]OnlyResidentEstatesPass` |
| `RulesTypes`, `FormatsAgree`, `HardeningIsSafe` | | `[]TypeOK`, `[]FormatsAgreeOnLiterals`, `HardeningNeverHurts` |
| `ScanTypes`, `PassIsAlwaysEarned`, `PlanIsAlwaysWalkedWhole`, `OutcomesAlwaysAgree` | `ScanProofs` | `[]TypeOK`, `[]PassIsEarned`, `[]PlanIsWalkedWhole`, `[]OutcomesAgree` |
| `ScanImplementsGate` | | `ImplementsGate`, on every profile |
| `StoresTypeCorrect`, `CorpusAlwaysExact`, `SeedIsForAll` | `StoreProofs` | `[]TypeOK`, `[]CorpusIsExact`, `SeededOnceForAll` |
| `ServingTypeCorrect`, `PrincipalAlwaysEarned`, `StrangersAlwaysVerified`, `ConsentAlwaysNeeded`, `EmptiedNeverUnset`, `HandOffAlwaysConfigured`, `UnavailableIsForAll` | `ServingProofs` | the seven invariants of the run `serving` |
| `EntryTypes`, `PromotionEarned`, `ReviewsAreTold`, `DoorsAskAlike` | `EntryPointProofs` | `[]TypeOK`, `[]PromotionIsEarned`, `[]QueuedIsTold`, `[]EntryPointsAgree` |

### 5.1 The hand-off (`IntakeProofs`)

None of the five invariants about the sinks is inductive. A record does not say which
step its request has reached, and an answer does not say what the console holds, so a
state can satisfy them all and still be one late arrival away from a second review.
`HandoffInv` ties the sinks to the step of the request:

* `UndecidedIsUnknown`: before a verdict nobody knows of the request;
* `DecidedHasFindings`: after it, there are findings;
* `TrailIsTrue`, `RecordedOnce`: a record of a request is the one its findings call
  for, from a worker past its audit step, and the only one;
* `ReviewsAreTrue`, `QueuedOnce`: likewise for reviews, stored or on their way; no
  review is stored while a copy is under way;
* `LateIsFailed`: a review is on its way only if its worker saw a failure or is gone,
  which is why a late arrival never contradicts an answer of "routed" or "off";
* `SawTheOutcome`: a worker past the hand-off saw exactly one outcome, and it is true.

The types come first and part by part, because what `ParseFindings` and `Inject`
return has to be shown well typed for every answer and reply. `RequirementsInv` is
the other half: `Inject` yields one grounded requirement for each unmet finding
(lemmas about `Inject`), and nothing changes findings or sources afterwards.

Which foreign project passes depends on what a policy service answers, and a service that
graded P-03 as it liked would pass any. What this code answers for is proved without a
hypothesis: neither engine passes a foreign project, nor does the fallback, which judges
by the regions of the deployment since there always is one; so a report that passes one
is the word of the service (`PassesOnServicesWord`, which is inductive by itself: a verdict
is reached once). With `ServiceHoldsResidency`, that an answer of the service which
speaks of P-03 fails the project, this gives the invariant. The hypothesis is about the
answers that are not the bundle's; those of the run `data` meet it.

### 5.2 The refinement (`GateProofs`)

Every action maps to one step of the gate or to a stutter: the evaluation to `Decide`,
an exception to `Fail`, a written record to `Record`, a stored or late review to
`Queue`, the response to `Answer`, a crash to `Lose`. `HandoffInv` supplies the
guards: that a record is the first one and precedes the queueing, that a late review
belongs to a request answered "failed" or lost. The hypothesis about the profiles is
needed, since a restart empties the local outbox.

### 5.3 The rules (`PrinciplesProofs`, `ResidencyProofs`)

The evaluator is compared with the catalogue check by check, then by the position of
each principle in the list. For the residency rules: a stricter policy finds at least
the same kinds of violation, and gates at least the same severities; and a foreign or
global location is a violation of the highest severity, which every gate counts.

The types of the run need that a strike out of a block leaves a block (`StruckIs`).
`FormatsAgree` has the two readers meet: of a key, the plan takes the outermost, first block
that sets it and the HCL reader the first assignment its expression finds, which in a block
that writes each key once is the same one; the region takes a lemma per reader, since the
plan prefers the first of three keys that holds a text and the HCL reader the first that is
written. `HardeningIsSafe` follows the appended assignment through both
readers: the region stays, and a setting keeps its value or becomes the closed one, which finds
no more (`HardeningCloses`, `ClosedFindsNoMore`).

### 5.4 The scan (`ScanProofs`)

`PassIsEarned` speaks of the moment a scan is done, when the files it read are long
changed. `ReadInv` carries it there: while a scan reads, a file nobody touched since
the listing is as it was listed, and is either still to be opened or taken over
(`ReadsWhatWasListed`); so at grading everything it answers for has been found
(`GradesWhatItAnswersFor`); and what passes as an estate passes resource by resource
(`VerdictIsEarned`). A file that was not listed holds nothing, by the type of files.

`PlanIsWalkedWhole` needs three things. The walk, a recursive function over the modules from
the last to the first, exists, which a recursive definition does not give by itself
(`WalkExists`, one module further at a time: `WalkGoesUp`); a module hands what it found to
the one that calls it, so that the first module that were left out would have a caller
before it that is not (`WalkIsWhole`); and what was taken stays taken (`PlanIsTaken`).

`OutcomesAgree` leaves open how a scan is recorded that passes and is routed (section 4:
the code says ALLOWED, its docstring ESCALATED). It speaks of records and reviews whose
scan is long past the rules that made them. `StoryInv` says of each scan, by its step, what
is true of its entries in the two sinks and what it saw of its hand-off; one scan moves at
a time, and a scan whose own entries stay keeps its story (`StoryGoesOn`), which is what
takes it past any number of others. The refinement reads the same entries: each action shows as one step of the gate
(`DecideOnView` ... `LoseOnView`) or as none (`ViewAtRest`). It needs no hypothesis about
the profile: to the gate, a scan whose review went into the local outbox is queued by the
outcome the scan saw, which a crash does not take back.

### 5.5 The stores (`StoreProofs`)

`CorpusIsExact` says nothing of who is about to write. `CorpusInv` adds that a table
holds one copy or none, that an open transaction has cleared its table (so that filling
it leaves one copy, however often it was seeded), and that whoever has come past a
constructor, and every process that has bound a port, has a seeded table before it
(`SeededWhereBound`). `SeedIsForAll` is the step property of the same invariant.

### 5.6 The serving process (`ServingProofs`)

The invariants speak of a principal, a hand-off or an answer when the choice that made
them right is several steps past. `ServingInv` keeps that choice: the process is what
its environment makes it (`AsStarted`); each call came past the stages before its own,
so that a served one was admitted, earned its principal and was not refused
(`CameThisWay`); and what was answered so far says whether anybody can be authenticated
(`AnswersAgree`). The lemma `IdentityAnswers` says what the identity port can answer
at all, adapter by adapter.

### 5.7 The doors and the evaluation gate (`EntryPointProofs`)

An exit code says nothing of the examples that were read: only their sum is kept.
`SumInv` says of a family that is being scored that each example costs at most one unit
and that one that spoils the safety metric, read so far, has cost a whole one. With
`OneMissShows` (of fewer than 20,000 scores one miss keeps the rounded mean below 1.0:
with 20,000 it would be rounded away) a family is `Settled`: if all rows of the report
pass, nothing in its golden set spoilt the metric. Rows are only added, so this lasts
until the decision (`GateInv`).

`QueuedIsTold` speaks of ended calls; `Kept` adds, stage by stage, what a call at work may
have left: no review and no record before the evaluation, no review before the hand-off,
and after it an outcome that is true of the queue. Every action moves one call, which
`OthersKeep` uses, but for `Stop`, which tells nothing.

`EntryPointsAgree` compares two findings that were made at different times by different
readers. `VerdictInv` keeps what they were made of; the rest is about operators: the
readers yield submissions that are alike but for the attributes (`ReadersAgree`), which
count for P-02 and P-03 only (`OnlyTwoDiffer`) and can only excuse (`AttributesExcuse`).

The type invariant says that the scores are fractions: that every score of an example lies
between none and one unit of its family, its sum between none and one per example read, and
so its rounded mean between 0 and 1.0. It is proved beside `GateInv`, which knows what a
family being scored has read.

### 5.8 Only model-checked

* `EveryScanEnds` and `EveryTouchEnds`: liveness under fairness, which is out of the
  prover's reach.
* The four claims of section 4: each is refuted by a behaviour that TLC finds.

Every invariant, action property and refinement that a passing run checks is a theorem.

## 6. What is left out, and why

* Texts: prompts, evidence, remediation prose, summaries, citations on the wire. No
  rule reads them. The remediation of a scan is drafted after its verdict and thrown
  away (`scan_service.py:176-177`).
* The hash chain of the audit trail and the review client: both are in a library
  outside the repository. The trail is append-only and may refuse a write; the console
  stores, refuses, or stores late.
* Brace structure and string quoting of HCL: a block is the sequence of assignments the
  expressions find in it.
* The pipelines take the verified caller as given; who that is, is `ServingProcess`'s.
  On premises only the command line reaches a pipeline, since no request can be
  authenticated there before a client binds a provider.
* Signatures, the choice between the two assertion headers, the allowlist and the
  loopback guard themselves: they are in libraries. Each is modelled by what the code
  here asks of it.
* The path of the settings file, ports, hosts, and the settings that only adapters to
  external services read.
* The ranking of what a store returns, and the seeding of other scopes and texts, which
  only tests do.
* The web console: it shows what the API answered, and no verdict, record or review
  depends on it. Its health probes are not sequenced, so that a slow answer can turn the
  status back, and its wrapper around `fetch` stays in place when another script wrapped
  it; both are display only.
* Managed adapters and sibling clients have no state: the pipelines take every reply they
  can give. The registry stores a card that nobody here reads.
* The doors evaluate by the in-process rules, which are also the fallback of the managed
  policy service; how the latter answers is the matter of `ValidationService`.
* Binary rounding of the evaluation's means, which is far below the four digits they are
  rounded to, and ties, which are rounded up.
* A port that two threads bind at once leaves one adapter dropped. That is modelled for
  what the adapter does to its store; the in-memory outbox of a dropped local review
  router is not.

## 7. Plan

The components whose behaviour a verdict, a record, a review or an exit code depends on
are modelled, and what the runs check of them is proved, liveness aside. Next: what the
enabledness of a scan's steps rests on, as a state invariant (a step is open to every
scan that has not ended), so that the liveness runs rest on less; and the refinement of
`ValidationService` with a local profile, whose outbox ends with its process, by a gate that
says so.
