---- MODULE ServingProofs ----
(***************************************************************************)
(* Proofs about the serving process: what TLC checks in MCServing request   *)
(* by request, for any number of requests and commands in flight, any set   *)
(* of environments and settings files, and any callers.                     *)
(***************************************************************************)
EXTENDS ServingProperties, TLAPS

----------------------------------------------------------------------------
\* What the pure parts return.

\* Settings that load name a profile the container knows (config.py).
LEMMA LoadedProfile ==
    ASSUME NEW env \in Environment, NEW f \in SettingsFile, ~LoadRefused(env, f)
    PROVE  /\ Loaded(env, f).profile \in RuntimeProfiles
           /\ Loaded(env, f).explicit \in BOOLEAN
           /\ Loaded(env, f).routing \in BOOLEAN
BY DEF LoadRefused, ProfileRefused, Loaded, NamedProfile, RuntimeProfiles

\* Origins that are not refused are a list without the wildcard (api/app.py:79-154).
LEMMA OriginsAreLists ==
    ASSUME NEW env \in Environment, NEW settings, ~WildcardRefused(env)
    PROVE  /\ CorsOrigins(env, settings) \in SUBSET {"localhost", "tenant"}
           /\ FrameAncestors(env) \in {"self", "none", "tenant"}
<1>1. DevOriginsOf(settings) \in SUBSET {"localhost", "tenant"}
    BY DEF DevOriginsOf
<1> QED BY <1>1 DEF Environment, Absent, WildcardRefused, CorsOrigins, FrameAncestors

\* The review router answers with one of its outcomes.
LEMMA HandOffOutcomes ==
    ASSUME NEW env, NEW settings PROVE HandOffs(env, settings) \subseteq Outcome
BY DEF HandOffs, Outcome

\* The three adapters that can grant anything, one by one.
LEMMA PersonaAnswers ==
    ASSUME NEW settings, NEW caller \in Caller,
           NEW identity \in ResolvePersona(settings, caller)
    PROVE  \/ identity = Refused("unauthenticated")
           \/ /\ identity \in Identity
              /\ EarnedAsPersona(identity, caller, settings)
BY PersonaAssumption DEF ResolvePersona, Refused, Granted, Caller, Identity, EarnedAsPersona,
    PersonasServe

\* What an assertion of the proxy earns: nobody without an audience, a principal only when
\* every check of it passes (adapters/gcp/iap_identity.py).
LEMMA ProxyAnswers ==
    ASSUME NEW audience \in Absent \cup {"backend"}, NEW has \in BOOLEAN,
           NEW assertion \in Assertion \cup {NoAssertion},
           NEW identity \in ResolveAssertion(audience, has, assertion)
    PROVE  \/ /\ identity = Refused("unauthenticated")
              /\ audience \notin Absent
           \/ /\ identity = Refused("unavailable")
              /\ audience \in Absent \/ ~has
           \/ /\ identity = Granted("iap", assertion.subject, assertion.tenant)
              /\ assertion \in Assertion
              /\ audience = "backend" /\ has
              /\ assertion.algorithm = "pinned"
              /\ TokenVerifies(assertion, audience)
              /\ ClaimsHold(assertion)
<1>1. CASE audience \in Absent
    BY <1>1 DEF ResolveAssertion, Refused
<1>2. CASE audience \notin Absent /\ (assertion = NoAssertion \/ assertion.algorithm # "pinned")
    BY <1>2 DEF ResolveAssertion
<1>3. CASE /\ audience \notin Absent
           /\ assertion # NoAssertion /\ assertion.algorithm = "pinned"
    BY <1>3 DEF ResolveAssertion
<1> QED BY <1>1, <1>2, <1>3

Bound(env, f) == f.identity[Loaded(env, f).profile]

Earned(identity, caller, env, f) ==
    \/ EarnedAsPersona(identity, caller, Loaded(env, f)) /\ Bound(env, f) = "personas"
    \/ EarnedAtProxy(identity, caller, env.audience)
    \/ identity.source = "client" /\ Bound(env, f) = "client"

\* Nobody can be authenticated: the proxy's assertions are to be verified, and
\* the audience or the verifier is missing.
NobodyCan(env, f, has) == Bound(env, f) = "iap" /\ (env.audience \in Absent \/ ~has)

\* Whatever the identity port answers: it grants what was earned, it says that
\* nobody can be authenticated only if that is so, and then it grants nothing.
LEMMA IdentityAnswers ==
    ASSUME NEW env \in Environment, NEW f \in SettingsFile, ~LoadRefused(env, f),
           NEW has \in BOOLEAN, NEW caller \in Caller,
           NEW identity \in Identities(env, f, Loaded(env, f), has, caller)
    PROVE  \/ /\ identity.status \in {"unauthenticated", "error"}
              /\ identity.status = "unauthenticated" =>
                    ~(Bound(env, f) = "iap" /\ env.audience \in Absent)
           \/ /\ identity.status = "unavailable"
              /\ NobodyCan(env, f, has)
           \/ /\ identity.status = "granted"
              /\ identity \in Identity
              /\ Earned(identity, caller, env, f)
              /\ ~NobodyCan(env, f, has)
<1> DEFINE settings == Loaded(env, f)
<1>1. CASE Bound(env, f) = "personas"
    <2>1. identity \in ResolvePersona(settings, caller)
        BY <1>1 DEF Identities, Bound
    <2>2. \/ identity = Refused("unauthenticated")
          \/ identity \in Identity /\ EarnedAsPersona(identity, caller, settings)
        BY <2>1, PersonaAnswers
    <2> QED BY <1>1, <2>2 DEF Refused, Identity, Earned, NobodyCan
<1>2. CASE Bound(env, f) = "iap"
    <2>1. identity \in ResolveAssertion(env.audience, has, caller.assertion)
        BY <1>2 DEF Identities, Bound
    <2>2. /\ env.audience \in Absent \cup {"backend"}
          /\ caller.assertion \in Assertion \cup {NoAssertion}
        BY DEF Environment, Caller
    <2>3. CASE identity = Refused("unauthenticated") /\ env.audience \notin Absent
        BY <1>2, <2>3 DEF Refused
    <2>4. CASE identity = Refused("unavailable") /\ (env.audience \in Absent \/ ~has)
        BY <1>2, <2>4 DEF Refused, NobodyCan
    <2>5. CASE /\ identity = Granted("iap", caller.assertion.subject, caller.assertion.tenant)
               /\ caller.assertion \in Assertion
               /\ env.audience = "backend" /\ has
               /\ caller.assertion.algorithm = "pinned"
               /\ TokenVerifies(caller.assertion, env.audience)
               /\ ClaimsHold(caller.assertion)
        <3>1. identity.status = "granted" /\ identity \in Identity
            BY <2>5 DEF Granted, Identity, Assertion
        <3>2. EarnedAtProxy(identity, caller, env.audience)
            BY <2>5 DEF Granted, EarnedAtProxy, TokenVerifies, ClaimsHold, Assertion
        <3>3. ~NobodyCan(env, f, has)
            BY <2>5 DEF NobodyCan, Absent
        <3> QED BY <3>1, <3>2, <3>3 DEF Earned
    <2> QED BY <2>1, <2>2, <2>3, <2>4, <2>5, ProxyAnswers
<1>3. CASE Bound(env, f) = "client"
    <2>1. \/ identity = Refused("unauthenticated")
          \/ \E s \in Subject, t \in Tenant : identity = Granted("client", s, t)
        BY <1>3 DEF Identities, Bound
    <2> QED BY <1>3, <2>1 DEF Refused, Granted, Identity, Earned, NobodyCan
<1>4. CASE Bound(env, f) \notin {"personas", "iap", "client"}
    <2>1. identity = Refused("error")
        BY <1>4 DEF Identities, Bound
    <2> QED BY <2>1 DEF Refused
<1> QED BY <1>1, <1>2, <1>3, <1>4

\* A networked profile that routes reviews has the URL of its console.
LEMMA ConsoleIsThere ==
    ASSUME NEW env, NEW f, ~LoadRefused(env, f)
    PROVE  "unconfigured" \notin HandOffs(env, Loaded(env, f))
<1>1. ~ConsoleMissing(env, f)
    BY DEF LoadRefused
<1> DEFINE settings == Loaded(env, f)
<1>2. \/ ~settings.routing
      \/ settings.profile \notin NetworkedProfiles
      \/ env.console \notin Absent
    BY <1>1 DEF ConsoleMissing
<1> HIDE DEF settings
<1>3. "unconfigured" \notin HandOffs(env, settings)
    BY <1>2 DEF HandOffs
<1> QED BY <1>3 DEF settings

----------------------------------------------------------------------------
\* A process that serves was not refused, and is what its environment makes it.
AsStarted ==
    api # Down =>
        /\ ~BootRefused(api.env, file)
        /\ api.origins = CorsOrigins(api.env, Loaded(api.env, file))
        /\ api.frame = FrameAncestors(api.env)
        /\ api.guarded = ~EndUserAuthenticated(file, Loaded(api.env, file))

\* Whatever is in flight came past each of the stages before its own.
CameThisWay(r) ==
    /\ call[r] # Idle => ~LoadRefused(call[r].env, file)
    /\ PastTheGuard(r) => Admitted(r)
    /\ InService(r) =>
        /\ Earned(call[r].principal, call[r].caller, call[r].env, file)
        /\ ~NobodyCan(call[r].env, file, installed)
    /\ call[r] # Idle /\ call[r].stage = "served" => call[r].handoff # "unconfigured"

\* What was answered tells whether anybody can be authenticated.
AnswersAgree ==
    Serving =>
        /\ "unavailable" \in api.gave => NobodyCan(api.env, file, installed)
        /\ "served" \in api.gave => ~NobodyCan(api.env, file, installed)
        /\ "unauthenticated" \in api.gave =>
               ~(Bound(api.env, file) = "iap" /\ api.env.audience \in Absent)

ServingInv ==
    /\ TypeOK
    /\ AsStarted
    /\ \A r \in Call : CameThisWay(r)
    /\ AnswersAgree

\* Before the first start nobody has come.
LEMMA ServingInvInit == Init => ServingInv
BY ServingAssumption DEF Init, ServingInv, TypeOK, AsStarted, CameThisWay, AnswersAgree, Down,
    Idle, Serving, ViaApi, PastTheGuard, InService

\* The process comes up.
LEMMA StartKeeps == ASSUME ServingInv, NEW env \in Environments, Start(env) PROVE ServingInv'
<1>1. env \in Environment /\ ~LoadRefused(env, file) /\ ~WildcardRefused(env)
    BY ServingAssumption DEF Start, BootRefused
<1>2. /\ CorsOrigins(env, Loaded(env, file)) \in SUBSET {"localhost", "tenant"}
      /\ FrameAncestors(env) \in {"self", "none", "tenant"}
    BY <1>1, OriginsAreLists
<1>3. EndUserAuthenticated(file, Loaded(env, file)) \in BOOLEAN
    BY <1>1, LoadedProfile DEF EndUserAuthenticated, ServingInv, TypeOK
<1>4. \A r \in Call : ~ViaApi(r) /\ ~ViaApi(r)'
    BY DEF ServingInv, TypeOK, Start, Serving, Down, ViaApi
<1>5. TypeOK'
    BY <1>1, <1>2, <1>3, <1>4 DEF ServingInv, TypeOK, Start, Process
<1>6. AsStarted'
    BY DEF Start, AsStarted
<1>7. \A r \in Call : CameThisWay(r)'
    BY <1>4 DEF ServingInv, CameThisWay, Start, PastTheGuard, InService
<1>8. AnswersAgree'
    BY DEF Start, AnswersAgree
<1> QED BY <1>5, <1>6, <1>7, <1>8 DEF ServingInv

\* The process stops, and with it what came to it.
LEMMA CrashKeeps == ASSUME ServingInv, Crash PROVE ServingInv'
<1>1. \A r \in Call : ~ViaApi(r)' /\ (call'[r] = Idle \/ call'[r] = call[r])
    BY DEF ServingInv, TypeOK, Crash, ViaApi, Idle
<1>2. TypeOK'
    BY <1>1 DEF ServingInv, TypeOK, Crash
<1>3. \A r \in Call : CameThisWay(r)'
    BY <1>1 DEF ServingInv, CameThisWay, Crash, PastTheGuard, InService
<1> QED BY <1>2, <1>3 DEF ServingInv, AsStarted, AnswersAgree, Crash, Down, Serving

\* A step of one call that leaves the process and the answers alone.
LEMMA CallSteps ==
    ASSUME ServingInv, NEW r \in Call, NEW next \in {Idle} \cup Asked \cup Served \cup Commanded,
           Advance(r, next),
           next # Idle /\ next.via = "api" => Serving /\ next.env = api.env,
           CameThisWay(r)'
    PROVE  ServingInv'
<1>1. call'[r] = next /\ \A s \in Call \ {r} : call'[s] = call[s]
    BY DEF ServingInv, TypeOK, Advance
<1>2. TypeOK'
    BY <1>1 DEF ServingInv, TypeOK, Advance, ViaApi, Idle, Serving
<1>3. \A s \in Call \ {r} : CameThisWay(s)'
    BY <1>1 DEF ServingInv, CameThisWay, Advance, PastTheGuard, InService, ViaApi, Admitted
<1>4. AsStarted' /\ AnswersAgree'
    BY DEF ServingInv, Advance, AsStarted, AnswersAgree, Serving
<1> QED BY <1>2, <1>3, <1>4 DEF ServingInv

\* A request comes in at a process that is up.
LEMMA ArrivalKeeps ==
    ASSUME ServingInv, NEW r \in Call, NEW caller \in Callers, NEW kind \in Kind,
           Arrive(r, caller, kind)
    PROVE  ServingInv'
<1> DEFINE next == [stage |-> "arrived", via |-> "api", kind |-> kind, env |-> api.env,
                    caller |-> caller]
<1>1. next \in Asked /\ next.env = api.env
    BY ServingAssumption DEF ServingInv, TypeOK, Arrive, Serving, Down, Process, Asked
<1>2. Advance(r, next) /\ call'[r] = next
    BY DEF Arrive, Advance, ServingInv, TypeOK
<1>3. CameThisWay(r)'
    BY <1>1, <1>2 DEF ServingInv, AsStarted, Arrive, Serving, Down, CameThisWay, PastTheGuard,
        InService, BootRefused
<1>4. Serving
    BY DEF Arrive
<1> HIDE DEF next
<1> QED BY <1>1, <1>2, <1>3, <1>4, CallSteps

\* A command loads settings of its own and acts as the operator.
LEMMA CommandKeeps ==
    ASSUME ServingInv, NEW r \in Call, NEW env \in Shells, NEW kind \in Kind,
           Command(r, env, kind)
    PROVE  ServingInv'
<1> DEFINE next == [stage |-> "identified", via |-> "command", kind |-> kind, env |-> env,
                    principal |-> Operator, handoff |-> "none"]
<1>1. next \in Commanded /\ next.via # "api"
    BY ServingAssumption DEF Commanded, Outcome
<1>2. Advance(r, next) /\ call'[r] = next
    BY DEF Command, Advance, ServingInv, TypeOK
<1>3. CameThisWay(r)'
    BY <1>1, <1>2 DEF Command, CameThisWay, PastTheGuard, InService, ViaApi
<1> HIDE DEF next
<1> QED BY <1>1, <1>2, <1>3, CallSteps

\* The guard lets a request in by what the process resolved when it started.
LEMMA GuardKeeps == ASSUME ServingInv, NEW r \in Call, Guard(r) PROVE ServingInv'
<1> DEFINE next == [call[r] EXCEPT !.stage = "admitted"]
<1>1. call[r] \in Asked /\ Serving /\ call[r].env = api.env
    BY DEF ServingInv, TypeOK, Guard, Idle, Served, Commanded, ViaApi, Asked
<1>2. next \in Asked /\ next.env = api.env /\ next.stage = "admitted" /\ next.env = call[r].env
      /\ next.caller = call[r].caller
    BY <1>1 DEF Asked
<1>3. Advance(r, next) /\ call'[r] = next
    BY DEF Guard, Advance, ServingInv, TypeOK
<1>4. CameThisWay(r)'
    <2>1. call[r] # Idle
        BY <1>1 DEF Asked, Idle
    <2>2. ~LoadRefused(call[r].env, file)
        BY <2>1 DEF ServingInv, CameThisWay
    <2>3. Admitted(r)'
        BY <1>2, <1>3 DEF Guard, Admitted, Advance
    <2> HIDE DEF next
    <2> QED BY <1>2, <1>3, <2>2, <2>3 DEF Guard, CameThisWay, InService, Advance
<1> HIDE DEF next
<1> QED BY <1>1, <1>2, <1>3, <1>4, CallSteps

\* A principal is granted by the identity port of the process that admitted the request.
LEMMA IdentifyKeeps == ASSUME ServingInv, NEW r \in Call, Identify(r) PROVE ServingInv'
<1>1. call[r] \in Asked /\ Serving /\ call[r].env = api.env /\ call[r] # Idle /\ ViaApi(r)
    BY DEF ServingInv, TypeOK, Identify, Idle, Served, Commanded, ViaApi, Asked
<1>2. PICK identity \in IdentitiesOf(r) :
        /\ identity.status = "granted"
        /\ Advance(r, [stage |-> "identified", via |-> "api", kind |-> call[r].kind,
                       env |-> call[r].env, caller |-> call[r].caller, principal |-> identity,
                       handoff |-> "none"])
    BY DEF Identify
<1>3. /\ ~LoadRefused(call[r].env, file)
      /\ Admitted(r)
    BY <1>1 DEF ServingInv, CameThisWay, PastTheGuard, Identify
<1>4. /\ identity \in Identity
      /\ Earned(identity, call[r].caller, call[r].env, file)
      /\ ~NobodyCan(call[r].env, file, installed)
    <2>1. /\ call[r].env \in Environment /\ call[r].caller \in Caller
          /\ file \in SettingsFile /\ installed \in BOOLEAN
        BY <1>1 DEF Asked, ServingInv, TypeOK
    <2>2. identity \in Identities(call[r].env, file, Loaded(call[r].env, file), installed,
                                  call[r].caller)
        BY DEF IdentitiesOf, Conf
    <2> QED BY <1>2, <1>3, <2>1, <2>2, IdentityAnswers
<1> DEFINE next == [stage |-> "identified", via |-> "api", kind |-> call[r].kind,
                    env |-> call[r].env, caller |-> call[r].caller, principal |-> identity,
                    handoff |-> "none"]
<1>5. next \in Served
    BY <1>1, <1>4 DEF Served, Asked, Outcome
<1>6. Advance(r, next) /\ call'[r] = next
    BY <1>2 DEF Advance, ServingInv, TypeOK
<1>7. CameThisWay(r)'
    BY <1>3, <1>4, <1>6 DEF CameThisWay, PastTheGuard, InService, Advance, Admitted
<1>8. next.env = api.env
    BY <1>1
<1> HIDE DEF next
<1> QED BY <1>1, <1>5, <1>6, <1>7, <1>8, CallSteps

\* Building and serving.
LEMMA BuildKeeps == ASSUME ServingInv, NEW r \in Call, Build(r) PROVE ServingInv'
<1> DEFINE next == [call[r] EXCEPT !.stage = "built"]
<1>1. call[r] \in Served \cup Commanded
    BY DEF ServingInv, TypeOK, Build, Idle, Asked
<1>2. /\ next \in Served \cup Commanded /\ next.stage = "built"
      /\ next.via = call[r].via /\ next.env = call[r].env
      /\ call[r] \in Served => next.caller = call[r].caller /\ next.principal = call[r].principal
    BY <1>1 DEF Served, Commanded
<1>3. Advance(r, next) /\ call'[r] = next
    BY DEF Build, Advance, ServingInv, TypeOK
<1>4. next.via = "api" => Serving /\ next.env = api.env /\ call[r] \in Served
    BY <1>1, <1>2 DEF ServingInv, TypeOK, ViaApi, Build, Commanded
<1> HIDE DEF next
<1>5. CameThisWay(r)'
    BY <1>1, <1>2, <1>3, <1>4 DEF ServingInv, CameThisWay, PastTheGuard, InService, ViaApi,
        Admitted, Advance, Build, Idle
<1> QED BY <1>2, <1>3, <1>4, <1>5, CallSteps

\* The service runs and its review is handed off.
LEMMA ServeKeeps == ASSUME ServingInv, NEW r \in Call, Serve(r) PROVE ServingInv'
<1>1. PICK handoff \in HandOffs(call[r].env, Conf(r)) :
        Advance(r, [call[r] EXCEPT !.stage = "served", !.handoff = handoff])
    BY DEF Serve
<1> DEFINE next == [call[r] EXCEPT !.stage = "served", !.handoff = handoff]
<1>2. call[r] \in Served \cup Commanded /\ call[r] # Idle
    BY DEF ServingInv, TypeOK, Serve, Idle, Asked
<1>3. handoff \in Outcome /\ handoff # "unconfigured"
    <2>1. ~LoadRefused(call[r].env, file)
        BY <1>2 DEF ServingInv, CameThisWay
    <2> QED BY <2>1, ConsoleIsThere, HandOffOutcomes DEF Conf
<1>4. /\ next \in Served \cup Commanded /\ next.stage = "served" /\ next.handoff = handoff
      /\ next.via = call[r].via /\ next.env = call[r].env
      /\ call[r] \in Served => next.caller = call[r].caller /\ next.principal = call[r].principal
    BY <1>2, <1>3 DEF Served, Commanded
<1>5. Advance(r, next) /\ call'[r] = next
    BY <1>1 DEF Advance, ServingInv, TypeOK
<1>6. next.via = "api" => Serving /\ next.env = api.env /\ call[r] \in Served
    BY <1>2, <1>4 DEF ServingInv, TypeOK, ViaApi, Serve, Commanded
<1> HIDE DEF next
<1>7. CameThisWay(r)'
    <2>1. CameThisWay(r) /\ call[r].stage = "built" /\ call[r] # Idle
        BY <1>2 DEF ServingInv, Serve
    <2>2. api' = api /\ file' = file /\ installed' = installed
        BY <1>5 DEF Advance
    <2>3. ViaApi(r)' => ViaApi(r) /\ call[r] \in Served
        BY <1>4, <1>5, <1>6, <2>1 DEF ViaApi
    <2>4. (call'[r] # Idle => ~LoadRefused(call'[r].env, file))
        BY <1>4, <1>5, <2>1 DEF CameThisWay
    <2>5. PastTheGuard(r)' => Admitted(r)'
        BY <1>4, <1>5, <2>1, <2>2, <2>3 DEF CameThisWay, PastTheGuard, Admitted
    <2>6. InService(r)' =>
            /\ Earned(call'[r].principal, call'[r].caller, call'[r].env, file)
            /\ ~NobodyCan(call'[r].env, file, installed)
        BY <1>4, <1>5, <2>1, <2>3 DEF CameThisWay, InService
    <2>7. call'[r].handoff # "unconfigured"
        BY <1>3, <1>4, <1>5
    <2> QED BY <2>2, <2>4, <2>5, <2>6, <2>7 DEF CameThisWay
<1> QED BY <1>4, <1>5, <1>6, <1>7, CallSteps

\* A call ends with an answer that agrees with those before.
LEMMA EndKeeps ==
    ASSUME ServingInv, NEW r \in Call, call[r] # Idle,
           NEW status \in {"exposure", "unauthenticated", "unavailable", "error", "served"},
           End(r, status),
           ViaApi(r) /\ status = "unavailable" => NobodyCan(api.env, file, installed),
           ViaApi(r) /\ status = "served" => ~NobodyCan(api.env, file, installed),
           ViaApi(r) /\ status = "unauthenticated" =>
               ~(Bound(api.env, file) = "iap" /\ api.env.audience \in Absent)
    PROVE  ServingInv'
<1>1. call'[r] = Idle /\ \A s \in Call \ {r} : call'[s] = call[s]
    BY DEF ServingInv, TypeOK, End
<1>2. CASE ~ViaApi(r)
    <2>1. api' = api /\ file' = file /\ installed' = installed
        BY <1>2 DEF End
    <2>2. TypeOK'
        BY <1>1, <2>1 DEF ServingInv, TypeOK, End, ViaApi, Idle, Serving
    <2>3. \A s \in Call : CameThisWay(s)'
        BY <1>1, <2>1 DEF ServingInv, CameThisWay, PastTheGuard, InService, ViaApi, Admitted, Idle
    <2> QED BY <2>1, <2>2, <2>3 DEF ServingInv, AsStarted, AnswersAgree, Serving
<1>3. CASE ViaApi(r)
    <2>1. api \in Process
        BY <1>3 DEF ServingInv, TypeOK, Serving, Down
    <2>2. /\ api' = [api EXCEPT !.gave = @ \cup {status}]
          /\ file' = file /\ installed' = installed
        BY <1>3 DEF End
    <2>3. /\ api' \in Process /\ api'.gave = api.gave \cup {status}
          /\ api'.env = api.env /\ api'.guarded = api.guarded
          /\ api'.origins = api.origins /\ api'.frame = api.frame /\ api'.phase = "serving"
        BY <2>1, <2>2 DEF Process
    <2>4. TypeOK'
        BY <1>1, <2>2, <2>3 DEF ServingInv, TypeOK, End, ViaApi, Idle, Serving
    <2>5. \A s \in Call : CameThisWay(s)'
        BY <1>1, <2>2, <2>3 DEF ServingInv, CameThisWay, PastTheGuard, InService, ViaApi,
            Admitted, Idle
    <2>6. AsStarted'
        BY <2>1, <2>2, <2>3 DEF ServingInv, AsStarted, Process, Down
    <2>7. AnswersAgree'
        BY <1>3, <2>1, <2>2, <2>3 DEF ServingInv, AnswersAgree, Serving, Process
    <2> QED BY <2>4, <2>5, <2>6, <2>7 DEF ServingInv
<1> QED BY <1>2, <1>3

\* A refused request leaves an answer that says whether anybody can be authenticated.
LEMMA RefuseKeeps == ASSUME ServingInv, NEW r \in Call, Refuse(r) PROVE ServingInv'
<1>1. call[r] \in Asked /\ Serving /\ call[r].env = api.env /\ call[r] # Idle /\ ViaApi(r)
    BY DEF ServingInv, TypeOK, Refuse, Idle, Served, Commanded, ViaApi, Asked
<1>2. PICK identity \in IdentitiesOf(r) : identity.status # "granted" /\ End(r, identity.status)
    BY DEF Refuse
<1>3. ~LoadRefused(call[r].env, file)
    BY <1>1 DEF ServingInv, CameThisWay
<1>4. \/ /\ identity.status \in {"unauthenticated", "error"}
         /\ identity.status = "unauthenticated" =>
               ~(Bound(api.env, file) = "iap" /\ api.env.audience \in Absent)
      \/ identity.status = "unavailable" /\ NobodyCan(api.env, file, installed)
    <2>1. /\ call[r].env \in Environment /\ call[r].caller \in Caller
          /\ file \in SettingsFile /\ installed \in BOOLEAN
        BY <1>1 DEF Asked, ServingInv, TypeOK
    <2>2. identity \in Identities(call[r].env, file, Loaded(call[r].env, file), installed,
                                  call[r].caller)
        BY DEF IdentitiesOf, Conf
    <2> QED BY <1>1, <1>2, <1>3, <2>1, <2>2, IdentityAnswers
<1> QED BY <1>1, <1>2, <1>4, EndKeeps

\* The other ends: turned away, an error, served.
LEMMA AnswerKeeps ==
    ASSUME ServingInv, NEW r \in Call,
           TurnAway(r) \/ FailToBuild(r) \/ Raise(r) \/ Respond(r)
    PROVE  ServingInv'
<1>1. call[r] # Idle
    BY DEF TurnAway, FailToBuild, Raise, Respond, Idle
<1>2. CASE End(r, "exposure") \/ End(r, "error")
    BY <1>1, <1>2, EndKeeps
<1>3. CASE Respond(r)
    <2>1. ViaApi(r) => ~NobodyCan(api.env, file, installed)
        BY <1>1, <1>3 DEF ServingInv, TypeOK, CameThisWay, InService, Respond
    <2> QED BY <1>1, <1>3, <2>1, EndKeeps DEF Respond
<1> QED BY <1>2, <1>3 DEF TurnAway, FailToBuild, Raise

\* A command that is stopped leaves its place empty.
LEMMA KillKeeps == ASSUME ServingInv, NEW r \in Call, Kill(r) PROVE ServingInv'
<1>1. Advance(r, Idle) /\ call'[r] = Idle
    BY DEF Kill, Advance, ServingInv, TypeOK
<1>2. CameThisWay(r)'
    BY <1>1 DEF CameThisWay, PastTheGuard, InService, ViaApi, Idle
<1> QED BY <1>1, <1>2, CallSteps

\* Every step of the process and of its callers keeps the invariant,
LEMMA ServingInvKept == ServingInv /\ [Next]_vars => ServingInv'
<1> SUFFICES ASSUME ServingInv, [Next]_vars PROVE ServingInv'
    OBVIOUS
<1>1. CASE UNCHANGED vars
    BY <1>1 DEF vars, ServingInv, TypeOK, AsStarted, CameThisWay, AnswersAgree, Serving, ViaApi,
        PastTheGuard, InService, Admitted
<1>2. CASE \E env \in Environments : Start(env)
    BY <1>2, StartKeeps
<1>3. CASE \E r \in Call, caller \in Callers, kind \in Kind : Arrive(r, caller, kind)
    BY <1>3, ArrivalKeeps
<1>4. CASE \E r \in Call, env \in Shells, kind \in Kind : Command(r, env, kind)
    BY <1>4, CommandKeeps
<1>5. CASE \E r \in Call : Handle(r)
    BY <1>5, GuardKeeps, IdentifyKeeps, RefuseKeeps, BuildKeeps, ServeKeeps, AnswerKeeps
        DEF Handle
<1>6. CASE \E r \in Call : Kill(r)
    BY <1>6, KillKeeps
<1>7. CASE Crash
    BY <1>7, CrashKeeps
<1> QED BY <1>1, <1>2, <1>3, <1>4, <1>5, <1>6, <1>7 DEF Next

\* which therefore holds in every state the process reaches.
LEMMA ServingInvAlways == Spec => []ServingInv
BY ServingInvInit, ServingInvKept, PTL DEF Spec

----------------------------------------------------------------------------
\* What a reader should know of the serving process.

\* The variables keep their types, a request the environment of its process, and
\* no wildcard is ever served as a policy.
THEOREM ServingTypeCorrect == Spec => []TypeOK
BY ServingInvAlways, PTL DEF ServingInv

\* Every principal a request is served for was earned (api/security.py
\* get_principal and the adapters of the identity port).
THEOREM PrincipalAlwaysEarned == Spec => []PrincipalIsEarned
<1>1. ASSUME ServingInv, NEW r \in Call, InService(r)
      PROVE  \/ EarnedAsPersona(call[r].principal, call[r].caller, Conf(r))
             \/ EarnedAtProxy(call[r].principal, call[r].caller, call[r].env.audience)
             \/ /\ call[r].principal.source = "client"
                /\ file.identity[Conf(r).profile] = "client"
    <2>1. Earned(call[r].principal, call[r].caller, call[r].env, file)
        BY <1>1 DEF ServingInv, CameThisWay
    <2> QED BY <2>1 DEF Earned, Bound, Conf
<1>2. ServingInv => PrincipalIsEarned
    BY <1>1 DEF PrincipalIsEarned
<1> QED BY <1>2, ServingInvAlways, PTL

\* Nobody on another host is served unverified unless the operator opted in
\* (the guard in api/app.py and _END_USER_AUTHENTICATED, which it keys off).
THEOREM StrangersAlwaysVerified == Spec => []StrangersAreVerified
<1>1. ServingInv => StrangersAreVerified
    <2> SUFFICES ASSUME ServingInv, NEW r \in Call, PastTheGuard(r),
                        call[r].caller.peer = "stranger", api.env.demo # "on"
                 PROVE  /\ Conf(r).explicit
                        /\ InService(r) => call[r].principal.source \in {"iap", "client"}
        BY DEF StrangersAreVerified
    <2>1. Serving /\ call[r].env = api.env
        BY DEF ServingInv, TypeOK, PastTheGuard
    <2>2. ~api.guarded
        BY DEF ServingInv, CameThisWay, Admitted
    <2>3. EndUserAuthenticated(file, Loaded(api.env, file))
        <3>1. api.guarded = ~EndUserAuthenticated(file, Loaded(api.env, file))
            BY <2>1 DEF ServingInv, AsStarted, Serving, Down
        <3> QED BY <2>2, <3>1
    <2>4. Loaded(api.env, file).explicit /\ Bound(api.env, file) \in {"iap", "client"}
        BY <2>3 DEF EndUserAuthenticated, EndUserAuth, Bound
    <2>5. InService(r) => Earned(call[r].principal, call[r].caller, api.env, file)
        BY <2>1 DEF ServingInv, CameThisWay
    <2>6. InService(r) => call[r].principal.source \in {"iap", "client"}
        BY <2>4, <2>5 DEF Earned, EarnedAtProxy
    <2> QED BY <2>1, <2>4, <2>6 DEF Conf
<1> QED BY <1>1, ServingInvAlways, PTL

\* A process whose profile nobody chose relaxes nothing (config.py ProfileChoice,
\* api/app.py, api/security.py).
THEOREM ConsentAlwaysNeeded == Spec => []ConsentIsNeeded
<1>1. ServingInv => ConsentIsNeeded
    <2> SUFFICES ASSUME ServingInv, Serving, ~Loaded(api.env, file).explicit
                 PROVE  /\ "localhost" \notin api.origins
                        /\ api.guarded
                        /\ BindProfile(Loaded(api.env, file)) = "local"
                        /\ \A r \in Call : InService(r) => call[r].principal.source # "persona"
        BY DEF ConsentIsNeeded
    <2>1. /\ api.origins = CorsOrigins(api.env, Loaded(api.env, file))
          /\ api.guarded = ~EndUserAuthenticated(file, Loaded(api.env, file))
          /\ api.env \in Environment
        BY DEF ServingInv, AsStarted, Serving, Down, TypeOK, Process
    <2>2. DevOriginsOf(Loaded(api.env, file)) = {}
        BY DEF DevOriginsOf, Laptop, ExposureProfile
    <2>3. "localhost" \notin api.origins
        BY <2>1, <2>2 DEF CorsOrigins, Environment, Absent
    <2>4. api.guarded
        BY <2>1 DEF EndUserAuthenticated
    <2>5. BindProfile(Loaded(api.env, file)) = "local"
        BY DEF BindProfile
    <2>6. ASSUME NEW r \in Call, InService(r) PROVE call[r].principal.source # "persona"
        <3>1. Earned(call[r].principal, call[r].caller, api.env, file)
            BY <2>6 DEF ServingInv, TypeOK, CameThisWay, InService
        <3> QED BY <3>1 DEF Earned, EarnedAsPersona, EarnedAtProxy
    <2> QED BY <2>3, <2>4, <2>5, <2>6
<1> QED BY <1>1, ServingInvAlways, PTL

\* An emptied variable never reads as an unset one (envread.py, config.py).
THEOREM EmptiedNeverUnset == Spec => []EmptiedIsNotUnset
<1>1. ServingInv => EmptiedIsNotUnset
    <2> SUFFICES ASSUME ServingInv, Serving PROVE EmptiedIsNotUnset
        BY DEF EmptiedIsNotUnset
    <2>1. /\ ~LoadRefused(api.env, file)
          /\ api.origins = CorsOrigins(api.env, Loaded(api.env, file))
          /\ api.frame = FrameAncestors(api.env)
        BY DEF ServingInv, AsStarted, Serving, Down, BootRefused
    <2>2. api.env.profile # "emptied" /\ api.env.routing # "emptied"
        BY <2>1 DEF LoadRefused, ProfileRefused, NamedProfile, RuntimeProfiles, SwitchRefused
    <2>3. file.bindings => api.env.other # "emptied"
        BY <2>1 DEF LoadRefused, InterpolationRefused
    <2>4. /\ api.env.origins = "emptied" => api.origins = {}
          /\ api.env.frame = "emptied" => api.frame = "none"
        BY <2>1 DEF CorsOrigins, FrameAncestors
    <2>5. ASSUME NEW r \in Call, InService(r), api.env.audience = "emptied"
          PROVE  call[r].principal.source # "iap"
        <3>1. Earned(call[r].principal, call[r].caller, api.env, file)
            BY <2>5 DEF ServingInv, TypeOK, CameThisWay, InService
        <3> QED BY <2>5, <3>1 DEF Earned, EarnedAsPersona, EarnedAtProxy
    <2> QED BY <2>2, <2>3, <2>4, <2>5 DEF EmptiedIsNotUnset
<1> QED BY <1>1, ServingInvAlways, PTL

\* Whatever reached its service reaches the console too (config.py
\* _refuse_unconfigured_controls, platform/review_router.py).
THEOREM HandOffAlwaysConfigured == Spec => []HandOffIsConfigured
<1>1. \A r \in Call : call[r].stage = "served" => call[r] # Idle
    BY DEF Idle
<1>2. ServingInv => HandOffIsConfigured
    BY <1>1 DEF ServingInv, CameThisWay, HandOffIsConfigured
<1> QED BY <1>2, ServingInvAlways, PTL

\* A process that told one caller "unavailable" serves nobody, and with the
\* verifier installed tells every caller so (iap_identity.py, ports/identity.py).
THEOREM UnavailableIsForAll == Spec => []UnavailableToAll
<1>1. ServingInv => UnavailableToAll
    <2> SUFFICES ASSUME ServingInv, Serving, "unavailable" \in api.gave
                 PROVE  /\ "served" \notin api.gave
                        /\ installed => "unauthenticated" \notin api.gave
        BY DEF UnavailableToAll
    <2>1. NobodyCan(api.env, file, installed)
        BY DEF ServingInv, AnswersAgree
    <2> QED BY <2>1 DEF ServingInv, AnswersAgree, NobodyCan
<1> QED BY <1>1, ServingInvAlways, PTL
====
