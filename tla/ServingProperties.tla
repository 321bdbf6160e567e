---- MODULE ServingProperties ----
(***************************************************************************)
(* What must be true of a serving process, whatever its environment and    *)
(* its settings file are, and whoever calls.                               *)
(***************************************************************************)
EXTENDS ServingProcess

\* Requests that got past the identity port.
InService(r) == ViaApi(r) /\ call[r].stage \in {"identified", "built", "served"}

PastTheGuard(r) == ViaApi(r) /\ call[r].stage # "arrived"

Identity == [status : {"granted"}, source : {"persona", "iap", "client", "operator"},
             subject : Persona \cup Subject \cup {"cli:operator"},
             tenant : Tenant \cup {"persona", "none"}]

Outcome == {"none", "not_required", "off", "routed", "failed", "unconfigured"}

Asked == [stage : {"arrived", "admitted"}, via : {"api"}, kind : Kind, env : Environment,
          caller : Caller]
Served == [stage : {"identified", "built", "served"}, via : {"api"}, kind : Kind,
           env : Environment, caller : Caller, principal : Identity, handoff : Outcome]
Commanded == [stage : {"identified", "built", "served"}, via : {"command"}, kind : Kind,
              env : Environment, principal : {Operator}, handoff : Outcome]

Process == [phase : {"serving"}, env : Environment, origins : SUBSET {"localhost", "tenant"},
            frame : {"self", "none", "tenant"}, guarded : BOOLEAN,
            gave : SUBSET {"exposure", "unauthenticated", "unavailable", "error", "served"}]

\* The variables have their types, and a request has the environment of the one
\* process it came to. A wildcard never becomes a policy that is served
\* (api/app.py _refuse_wildcard), in either of the two lists.
TypeOK ==
    /\ file \in SettingsFile
    /\ installed \in BOOLEAN
    /\ api \in Process \cup {Down}
    /\ call \in [Call -> {Idle} \cup Asked \cup Served \cup Commanded]
    /\ \A r \in Call : ViaApi(r) => Serving /\ call[r].env = api.env

EarnedAsPersona(principal, caller, settings) ==
    /\ principal.source = "persona"
    /\ settings.explicit /\ settings.profile \in LaptopProfiles
    /\ principal.subject \in Persona
    /\ caller.persona \in {principal.subject, "none"}

EarnedAtProxy(principal, caller, audience) ==
    /\ principal.source = "iap"
    /\ audience = "backend" /\ caller.assertion.audience = audience
    /\ caller.assertion.sound /\ caller.assertion.algorithm = "pinned"
    /\ caller.assertion.issuer = "iap"
    /\ caller.assertion.claims = RequiredClaims
    /\ principal.subject = caller.assertion.subject
    /\ principal.tenant = caller.assertion.tenant

\* Whoever a request is served for has earned it: as a seeded persona where one
\* chose a laptop profile, by an assertion that every check of it accepts and
\* that names them, or at the provider that a client bound.
PrincipalIsEarned ==
    \A r \in Call : InService(r) =>
        \/ EarnedAsPersona(call[r].principal, call[r].caller, Conf(r))
        \/ EarnedAtProxy(call[r].principal, call[r].caller, call[r].env.audience)
        \/ /\ call[r].principal.source = "client"
           /\ file.identity[Conf(r).profile] = "client"

\* Unless the operator opted in, nobody on another host is served who was not
\* verified, nor gets as far as a route of a deployment that nobody configured
\* (the comment on _END_USER_AUTHENTICATED in api/app.py).
StrangersAreVerified ==
    \A r \in Call :
        /\ PastTheGuard(r)
        /\ call[r].caller.peer = "stranger"
        /\ api.env.demo # "on"
        => /\ Conf(r).explicit
           /\ InService(r) => call[r].principal.source \in {"iap", "client"}

\* Unset is not consent: a process whose profile nobody chose trusts no origin but
\* those that are named, stays guarded, binds the loopback and serves no persona.
ConsentIsNeeded ==
    Serving /\ ~Loaded(api.env, file).explicit =>
        /\ "localhost" \notin api.origins
        /\ api.guarded
        /\ BindProfile(Loaded(api.env, file)) = "local"
        /\ \A r \in Call : InService(r) => call[r].principal.source # "persona"

\* Emptying a variable is an intent, never the default of an unset one. An emptied
\* profile or routing flag stops the start, as does an emptied variable that
\* the settings file interpolates; emptied origins, frame ancestors or IAP
\* audience allow nobody.
EmptiedIsNotUnset ==
    Serving =>
        /\ api.env.profile # "emptied" /\ api.env.routing # "emptied"
        /\ file.bindings => api.env.other # "emptied"
        /\ api.env.origins = "emptied" => api.origins = {}
        /\ api.env.frame = "emptied" => api.frame = "none"
        /\ api.env.audience = "emptied" =>
               \A r \in Call : InService(r) => call[r].principal.source # "iap"

\* A process, or a command, that reached its service can reach the console too:
\* no hand-off fails for want of a URL (_refuse_unconfigured_controls).
HandOffIsConfigured ==
    \A r \in Call : call[r].stage = "served" => call[r].handoff # "unconfigured"

\* "Unavailable" says that this deployment can authenticate nobody: a process
\* that has said so to one caller serves no other, and where the verifier is
\* there, it says so to every one of them (ports/identity.py).
UnavailableToAll ==
    Serving /\ "unavailable" \in api.gave =>
        /\ "served" \notin api.gave
        /\ installed => "unauthenticated" \notin api.gave
====
