---- MODULE EntryPoints ----
(***************************************************************************)
(* The doors of the validator: one project is submitted through the API    *)
(* (api/app.py, api/schemas.py), the commands (cli/main.py), the agent's   *)
(* tools (agent/tools.py, agent/callbacks.py) and the MCP server           *)
(* (mcp/server.py), in any order and at the same time; and the evaluation  *)
(* gate is run beside them, by itself or by the eval command.              *)
(*                                                                         *)
(* What happens behind a door is ValidationService. Here a validation is a *)
(* verdict of the in-process rules, a record that is written or lost, and  *)
(* a hand-off, in that order.                                              *)
(***************************************************************************)
EXTENDS EvaluationGate, ReviewHandoff

CONSTANTS
    Call,             \* the callers
    Profiles,         \* the profiles a deployment may have
    Documents,        \* what may be submitted
    AllowedRegions    \* settings.policy.allowed_regions

ASSUME EntryAssumption ==
    /\ Profiles \subseteq {"local", "gcp", "platform", "onprem"}
    /\ Documents \subseteq Document
    /\ AllowedRegions \subseteq Region \ {Blank}
    /\ Call \cap {"api", "agent", "mcp"} = {}

VARIABLES
    deployment,   \* the profile, whether review routing is on, the project submitted
    call,         \* what became of each call
    trail,        \* the audit trail: call, layer, decision
    queue,        \* the calls whose review a human checker has in the queue
    inflight      \* the calls whose review the client gave up on

sinks == <<trail, queue, inflight>>
vars == <<deployment, call, sinks, gate>>

Validating == {"api", "cli", "agent", "mcp", "mcp_inject"}
Injecting == {"cli_inject", "agent_inject", "mcp_inject"}
Entry == Validating \cup Injecting \cup {"eval"}

OfAgent == {"agent", "agent_inject"}
OfMcp == {"mcp", "mcp_inject"}

NoCall == [stage |-> "idle", entry |-> "none", findings |-> << >>, routing |-> "none", told |-> "none"]

Init ==
    /\ deployment \in [profile : Profiles, routing : BOOLEAN, document : Documents]
    /\ call = [c \in Call |-> NoCall]
    /\ trail = {} /\ queue = {} /\ inflight = {}
    /\ GateInit

----------------------------------------------------------------------------
\* The process that serves a call: a command is a process of its own.
Host(c) ==
    CASE call[c].entry = "api" -> "api"
      [] call[c].entry \in OfAgent -> "agent"
      [] call[c].entry \in OfMcp -> "mcp"
      [] OTHER -> c

HandlerNames == {"validate_project", "inject_requirements", "list_principles"}

\* The tool catalog of the profile; the on-premises one raises.
CatalogTools(profile) ==
    CASE profile = "local" -> {"validate_project"}
      [] profile \in {"gcp", "platform"} -> HandlerNames
      [] OTHER -> {}

\* mcpserve.bind refuses to start on a tool without a handler, or the reverse.
McpServes == CatalogTools(deployment.profile) = HandlerNames

\* The submission this entry point reads out of the document.
Read(entry, d) ==
    CASE entry = "api" -> FromRequest(d)
      [] entry \in {"cli", "cli_inject"} -> FromFile(d)
      [] entry \in OfAgent -> FromArguments(d)
      [] OTHER -> FromTool(d)

\* A 422 of the API; an AttributeError of the readers that expect an object.
Refuses(entry, d) ==
    \/ entry = "api" /\ SchemaRefuses(d)
    \/ entry \in {"cli", "cli_inject"} \cup OfAgent /\ ~d.object

Submitted(c) == Read(call[c].entry, deployment.document)

Readable(c) == ~Refuses(call[c].entry, deployment.document)

Advance(c, from, next) ==
    /\ call[c].stage = from
    /\ call' = [call EXCEPT ![c] = next]
    /\ UNCHANGED <<deployment, gate>>

Tell(c, from, what) ==
    Advance(c, from, [call[c] EXCEPT !.stage = "told", !.told = what]) /\ UNCHANGED sinks

Begin(c, entry) ==
    /\ entry \in OfMcp => McpServes
    /\ Advance(c, "idle", [NoCall EXCEPT !.stage = "begun", !.entry = entry])
    /\ UNCHANGED sinks

\* Nothing was asked of the domain yet.
Refuse(c) == ~Readable(c) /\ Tell(c, "begun", "refused")

\* A validation without a policy engine: the command ends with the code of a
\* profile that is not built yet.
Unavailable(c) ==
    /\ Readable(c) /\ call[c].entry \in Validating /\ deployment.profile = "onprem"
    /\ Tell(c, "begun", "unavailable")

\* The container, the tracer or the policy service raises.
Fails(c) ==
    /\ Readable(c) /\ deployment.profile # "onprem"
    /\ Tell(c, "begun", "error")

Recorded(c, layer, decision) ==
    /\ \/ trail' = trail \cup {[call |-> c, layer |-> layer, decision |-> decision]}
       \/ trail' = trail    \* the write failed, and the failure was swallowed
    /\ UNCHANGED <<queue, inflight>>

Validate(c) ==
    /\ Readable(c) /\ call[c].entry \in Validating /\ deployment.profile # "onprem"
    /\ LET findings == EvaluateAll(Submitted(c), AllowedRegions)
       IN  /\ Advance(c, "begun", [call[c] EXCEPT !.stage = "judged", !.findings = findings])
           /\ Recorded(c, "service", AuditDecision(findings))

\* A bug to catch: the agent's tools hand the service the bare router, and ask
\* the wrapper they did not pass on what happened.
NotedUnlessAgent(c, outcome) ==
    IF call[c].entry = "agent" THEN Outcome({}) ELSE Outcome({outcome})

\* What the recording router of this call has seen.
Noted(c, outcome) == Outcome({outcome})

\* The hand-off. One that failed may still be on its way.
Route(c) ==
    \E outcome \in IF deployment.routing THEN {"routed", "failed"} ELSE {"off"} :
        /\ Advance(c, "judged",
               [call[c] EXCEPT !.stage = "handed", !.routing = Noted(c, outcome)])
        /\ queue' = IF outcome = "routed" THEN queue \cup {c} ELSE queue
        /\ \/ inflight' = inflight
           \/ /\ outcome = "failed" /\ deployment.profile # "local"
              /\ inflight' = inflight \cup {c}
        /\ trail' = trail

LateArrival(c) ==
    /\ c \in inflight
    /\ inflight' = inflight \ {c}
    /\ queue' = queue \cup {c}
    /\ UNCHANGED <<deployment, call, trail, gate>>

\* The reviews a process held in memory are gone with it (local profile).
Left(stopped) == IF deployment.profile = "local" THEN queue \ stopped ELSE queue

\* The answer of a validation. A command, or a container that was built for one
\* tool call, ends with it; so does its outbox.
Answer(c) ==
    /\ call[c].entry # "mcp_inject"
    /\ Advance(c, "handed", [call[c] EXCEPT !.stage = "told", !.told = call[c].routing])
    /\ queue' = IF call[c].entry \in {"cli", "agent"} THEN Left({c}) ELSE queue
    /\ UNCHANGED <<trail, inflight>>

\* The MCP tool injects once more what the validation it ran injected, and has no
\* place for what became of the hand-off.
AnswerInjected(c) ==
    call[c].entry = "mcp_inject" /\ Tell(c, "handed", "requirements")

\* The commands and the agent's tools evaluate with the built-in regions: no
\* policy engine, no record, no hand-off, on every profile.
InjectOnly(c) ==
    /\ Readable(c) /\ call[c].entry \in Injecting \ {"mcp_inject"}
    /\ Advance(c, "begun", [call[c] EXCEPT !.stage = "told", !.told = "requirements",
           !.findings = EvaluateAll(Submitted(c), DefaultRegions)])
    /\ UNCHANGED sinks

\* after_agent_callback: whatever the turn did, and whatever came of it.
TurnEnd(c) ==
    /\ call[c].entry \in OfAgent
    /\ Advance(c, "told", [call[c] EXCEPT !.stage = "over"])
    /\ Recorded(c, "turn", "ESCALATED")

\* A process stops, on whatever it was doing.
Stop(host) ==
    LET stopped == {c \in Call : Host(c) = host /\ call[c].stage # "idle"}
    IN  /\ \E c \in stopped : call[c].stage \in {"begun", "judged", "handed"}
        /\ call' = [c \in Call |->
               IF c \in stopped /\ call[c].stage \in {"begun", "judged", "handed"}
               THEN [call[c] EXCEPT !.stage = "lost"] ELSE call[c]]
        /\ queue' = Left(stopped)
        /\ UNCHANGED <<deployment, trail, inflight, gate>>

----------------------------------------------------------------------------
\* Bound: an evaluation is started before the calls, with which it shares nothing.
Quiet == \A c \in Call : call[c].stage = "idle"

\* The eval command starts run_eval.py without a mode: the smoke run.
EvalCommand(c) ==
    /\ Quiet
    /\ call' = [call EXCEPT ![c] = [NoCall EXCEPT !.stage = "evaluating", !.entry = "eval"]]
    /\ StartSmoke
    /\ UNCHANGED <<deployment, sinks>>

\* The exit code of the script is that of the command.
EvalReturns(c) ==
    /\ stage = "ended"
    /\ Tell(c, "evaluating", IF exit = 0 THEN "accepted" ELSE "rejected")

\* A pipeline runs the script itself, in either mode.
Pipeline ==
    /\ Quiet
    /\ StartSmoke \/ StartGate(deployment.profile)
    /\ UNCHANGED <<deployment, call, sinks>>

Evaluation == GateStep /\ UNCHANGED <<deployment, call, sinks>>

Handle(c) ==
    \/ Refuse(c) \/ Unavailable(c) \/ Fails(c) \/ Validate(c) \/ Route(c) \/ Answer(c)
    \/ AnswerInjected(c) \/ InjectOnly(c) \/ TurnEnd(c) \/ EvalReturns(c)

Next ==
    \/ \E c \in Call, entry \in Entry \ {"eval"} : Begin(c, entry)
    \/ \E c \in Call : Handle(c) \/ LateArrival(c) \/ EvalCommand(c)
    \/ \E host \in {"api", "agent", "mcp"} \cup Call : Stop(host)
    \/ Pipeline
    \/ Evaluation

Spec == Init /\ [][Next]_vars
====
