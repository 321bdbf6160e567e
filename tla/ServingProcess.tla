---- MODULE ServingProcess ----
(***************************************************************************)
(* The process that serves the API, and the commands and tool calls beside *)
(* it: how it comes up on its environment, who gets in, and what becomes of *)
(* a request (api/app.py, api/security.py, api/deps.py, config.py). The     *)
(* services themselves are ValidationService and ResidencyScan; here a      *)
(* service is built, serves or raises, and hands its review off.            *)
(***************************************************************************)
EXTENDS CallerIdentity

CONSTANTS
    Call,           \* requests and commands in flight
    Environments,   \* the environments the API may be started with
    Shells,         \* the environments a command may be run in
    Files,          \* the settings files an image may hold
    Callers         \* who may send a request
ASSUME ServingAssumption ==
    /\ Environments \subseteq Environment /\ Shells \subseteq Environment
    /\ Files \subseteq SettingsFile
    /\ Callers \subseteq Caller

VARIABLES
    file,       \* config/settings.yaml of the image
    installed,  \* whether the image has google-auth
    api,        \* the API process
    call        \* what is in flight

vars == <<file, installed, api, call>>

Kind == {"validate", "scan"}
Down == [phase |-> "down"]
Idle == [stage |-> "idle"]

Operator == Granted("operator", "cli:operator", "none")

Serving == api.phase = "serving"
ViaApi(r) == call[r].stage # "idle" /\ call[r].via = "api"
Conf(r) == Loaded(call[r].env, file)

Init ==
    /\ file \in Files
    /\ installed \in BOOLEAN
    /\ api = Down
    /\ call = [r \in Call |-> Idle]

----------------------------------------------------------------------------
\* The import of api/app.py: what it resolves stays for the life of the process.
\* A start that is refused leaves nothing behind. "gave" remembers, for the
\* properties, what the callers of this process have been answered.
Start(env) ==
    /\ api = Down
    /\ ~BootRefused(env, file)
    /\ api' = [phase |-> "serving", env |-> env, gave |-> {},
               origins |-> CorsOrigins(env, Loaded(env, file)),
               frame |-> FrameAncestors(env),
               guarded |-> ~EndUserAuthenticated(file, Loaded(env, file))]
    /\ UNCHANGED <<file, installed, call>>

Arrive(r, caller, kind) ==
    /\ Serving
    /\ call[r] = Idle
    /\ call' = [call EXCEPT ![r] = [stage |-> "arrived", via |-> "api", kind |-> kind,
                                    env |-> api.env, caller |-> caller]]
    /\ UNCHANGED <<file, installed, api>>

\* A command, or a call of one of the agent's tools: it loads the settings of its
\* own environment, and nobody is asked who they are.
Command(r, env, kind) ==
    /\ call[r] = Idle
    /\ ~LoadRefused(env, file)
    /\ call' = [call EXCEPT ![r] = [stage |-> "identified", via |-> "command", kind |-> kind,
                                    env |-> env, principal |-> Operator,
                                    handoff |-> "none"]]
    /\ UNCHANGED <<file, installed, api>>

Advance(r, next) ==
    /\ call' = [call EXCEPT ![r] = next]
    /\ UNCHANGED <<file, installed, api>>

End(r, status) ==
    /\ call' = [call EXCEPT ![r] = Idle]
    /\ api' = IF ViaApi(r) THEN [api EXCEPT !.gave = @ \cup {status}] ELSE api
    /\ UNCHANGED <<file, installed>>

----------------------------------------------------------------------------
\* The outermost middleware: while nothing authenticates the end user, callers
\* of other hosts are turned away, unless the operator has opted in.
Admitted(r) ==
    ~api.guarded \/ call[r].caller.peer = "loopback" \/ api.env.demo = "on"

Guard(r) ==
    /\ call[r].stage = "arrived"
    /\ Admitted(r)
    /\ Advance(r, [call[r] EXCEPT !.stage = "admitted"])

TurnAway(r) ==
    /\ call[r].stage = "arrived"
    /\ ~Admitted(r)
    /\ End(r, "exposure")

\* get_principal comes before the service is built.
IdentitiesOf(r) == Identities(call[r].env, file, Conf(r), installed, call[r].caller)

Identify(r) ==
    /\ call[r].stage = "admitted"
    /\ \E identity \in IdentitiesOf(r) :
        /\ identity.status = "granted"
        /\ Advance(r,
               [stage |-> "identified", via |-> "api", kind |-> call[r].kind,
                env |-> call[r].env, caller |-> call[r].caller, principal |-> identity,
                handoff |-> "none"])

Refuse(r) ==
    /\ call[r].stage = "admitted"
    /\ \E identity \in IdentitiesOf(r) :
        /\ identity.status # "granted"
        /\ End(r, identity.status)

\* The service is assembled from its ports: those first touched are constructed.
Build(r) ==
    /\ call[r].stage = "identified"
    /\ ServiceBuilds(call[r].kind, call[r].env, file, Conf(r))
    /\ Advance(r, [call[r] EXCEPT !.stage = "built"])

\* A port is not bound, or its adapter refuses to construct: the URL of a
\* sibling is emptied, or a local store cannot be opened (LocalStores).
FailToBuild(r) ==
    /\ call[r].stage = "identified"
    /\ \/ ~ServiceBuilds(call[r].kind, call[r].env, file, Conf(r))
       \/ Conf(r).profile \in LaptopProfiles
    /\ End(r, "error")

\* Where a review goes: the switch decides when the router is bound, the router
\* reads the URL of the console itself.
HandOffs(env, settings) ==
    {"not_required"} \cup
    CASE ~settings.routing -> {"off"}
      [] settings.routing /\ settings.profile \in LaptopProfiles -> {"routed"}
      [] settings.routing /\ settings.profile \in NetworkedProfiles ->
             IF env.console \in Absent THEN {"unconfigured"} ELSE {"routed", "failed"}
      [] OTHER -> {"failed"}

Serve(r) ==
    /\ call[r].stage = "built"
    /\ ~(Conf(r).profile = "onprem" /\ call[r].kind = "validate")
    /\ \E handoff \in HandOffs(call[r].env, Conf(r)) :
        Advance(r, [call[r] EXCEPT !.stage = "served", !.handoff = handoff])

\* The service raises: a placeholder always, the others for what they cannot do.
Raise(r) ==
    /\ call[r].stage = "built"
    /\ End(r, "error")

Respond(r) ==
    /\ call[r].stage = "served"
    /\ End(r, "served")

----------------------------------------------------------------------------
\* The process stops, on whatever it was doing.
Crash ==
    /\ Serving
    /\ api' = Down
    /\ call' = [r \in Call |-> IF ViaApi(r) THEN Idle ELSE call[r]]
    /\ UNCHANGED <<file, installed>>

Kill(r) ==
    /\ call[r].stage # "idle"
    /\ call[r].via = "command"
    /\ call' = [call EXCEPT ![r] = Idle]
    /\ UNCHANGED <<file, installed, api>>

Handle(r) ==
    \/ Guard(r) \/ TurnAway(r) \/ Identify(r) \/ Refuse(r)
    \/ Build(r) \/ FailToBuild(r) \/ Serve(r) \/ Raise(r) \/ Respond(r)

Next ==
    \/ \E env \in Environments : Start(env)
    \/ \E r \in Call, caller \in Callers, kind \in Kind : Arrive(r, caller, kind)
    \/ \E r \in Call, env \in Shells, kind \in Kind : Command(r, env, kind)
    \/ \E r \in Call : Handle(r) \/ Kill(r)
    \/ Crash

Spec == Init /\ [][Next]_vars
====
