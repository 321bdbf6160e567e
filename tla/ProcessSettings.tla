---- MODULE ProcessSettings ----
(***************************************************************************)
(* What one process makes of its environment and of the settings file      *)
(* (config.py, envread.py and what api/app.py resolves as it is imported). *)
(* A variable of the environment is unset, emptied, or has a value; a value *)
(* that nothing accepts is a "typo".                                       *)
(***************************************************************************)
EXTENDS Naturals

RuntimeProfiles == {"local", "live", "gcp", "platform", "onprem"}
LaptopProfiles == {"local", "live"}
NetworkedProfiles == {"gcp", "platform"}
ManagedProfiles == {"gcp"}

Absent == {"unset", "emptied"}

Environment ==
    [profile  : RuntimeProfiles \cup Absent \cup {"typo"},  \* ARCH_VALIDATOR_PROFILE
     routing  : Absent \cup {"on", "off", "typo"},          \* ARCH_VALIDATOR_REVIEW_ROUTING
     console  : Absent \cup {"url"},                        \* HUMAN_REVIEW_URL
     audience : Absent \cup {"backend"},                    \* ARCH_VALIDATOR_IAP_AUDIENCE
     origins  : Absent \cup {"tenant", "wildcard"},         \* ARCH_VALIDATOR_CORS_ORIGINS
     frame    : Absent \cup {"tenant", "wildcard"},         \* ARCH_VALIDATOR_FRAME_ANCESTORS
     demo     : Absent \cup {"on"},                         \* ARCH_VALIDATOR_ALLOW_INSECURE_DEMO
     sibling  : Absent \cup {"url"},                        \* the URL of a sibling service
     other    : Absent \cup {"value"}]                      \* one that settings.yaml interpolates

IdentityAdapter == {"personas", "iap", "placeholder", "client", "none"}

\* config/settings.yaml: the profile it names ("none": the shipped file leaves
\* the choice to the environment), whether its policy block is one the loader
\* accepts, whether it has the table of bindings (a missing file has not), and the
\* identity binding of every profile ("client": the client's own provider).
SettingsFile ==
    [profile : RuntimeProfiles \cup {"none", "typo"}, policy : {"reviewed", "weakened"},
     bindings : BOOLEAN, identity : [RuntimeProfiles -> IdentityAdapter]]

----------------------------------------------------------------------------
\* The environment wins over the file; "none" is no choice at all.
NamedProfile(env, file) == IF env.profile = "unset" THEN file.profile ELSE env.profile

ProfileRefused(env, file) == NamedProfile(env, file) \notin RuntimeProfiles \cup {"none"}

\* Settings.load: no choice binds the local adapters, and is remembered as such.
Loaded(env, file) ==
    LET named == NamedProfile(env, file) IN
    [profile  |-> IF named = "none" THEN "local" ELSE named,
     explicit |-> named # "none",
     routing  |-> env.routing # "off"]

\* A ${VAR} of the file whose variable was emptied.
InterpolationRefused(env, file) == file.bindings /\ env.other = "emptied"

SwitchRefused(env) == env.routing \in {"emptied", "typo"}

PolicyRefused(file) == file.policy = "weakened"

\* A bug to catch: only the profile called managed is asked for its console.
ConsoleMissingOnManaged(env, file) ==
    /\ Loaded(env, file).profile \in ManagedProfiles
    /\ Loaded(env, file).routing
    /\ env.console \in Absent

\* Routing on, on a profile that really calls the console, without its URL.
ConsoleMissing(env, file) ==
    /\ Loaded(env, file).profile \in NetworkedProfiles
    /\ Loaded(env, file).routing
    /\ env.console \in Absent

LoadRefused(env, file) ==
    \/ ProfileRefused(env, file)
    \/ InterpolationRefused(env, file)
    \/ SwitchRefused(env)
    \/ PolicyRefused(file)
    \/ ConsoleMissing(env, file)

----------------------------------------------------------------------------
\* What every relaxation keys off.
ExposureProfile(settings) ==
    IF settings.explicit THEN settings.profile ELSE "unconfigured"

\* A bug to catch: the profile that was fallen back to counts as chosen.
LaptopUnasked(settings) == settings.profile \in LaptopProfiles

Laptop(settings) == settings.explicit /\ settings.profile \in LaptopProfiles

\* What the bind of main() keys off: here local is the restrictive case.
BindProfile(settings) ==
    IF ~settings.explicit \/ settings.profile \in LaptopProfiles
    THEN "local" ELSE settings.profile

\* A bug to catch: only the list of the browsers' requests is looked at.
WildcardRefusedInOrigins(env) == env.origins = "wildcard"

\* A list that names everyone is no list.
WildcardRefused(env) == env.origins = "wildcard" \/ env.frame = "wildcard"

\* The API does not come up: the settings refuse, or a list of origins does.
BootRefused(env, file) == LoadRefused(env, file) \/ WildcardRefused(env)

DevOriginsOf(settings) ==
    IF (IF Laptop(settings) THEN "local" ELSE ExposureProfile(settings)) = "local"
    THEN {"localhost"} ELSE {}

\* A bug to catch: a two-state read hands an emptied list the default.
CorsOriginsTwoState(env, settings) ==
    IF env.origins \in Absent THEN DevOriginsOf(settings) ELSE {env.origins}

CorsOrigins(env, settings) ==
    CASE env.origins = "unset" -> DevOriginsOf(settings)
      [] env.origins = "emptied" -> {}
      [] OTHER -> {env.origins}

FrameAncestors(env) ==
    CASE env.frame = "unset" -> "self"
      [] env.frame = "emptied" -> "none"
      [] OTHER -> env.frame

\* What the bound identity adapter declares; read without constructing it, and
\* any failure to read it counts as the weakest.
EndUserAuth(file, settings) ==
    CASE file.identity[settings.profile] \in {"iap", "client"} -> "verified"
      [] file.identity[settings.profile] = "placeholder" -> "unimplemented"
      [] OTHER -> "client-asserted"

\* A bug to catch: a binding that verifies buys the relaxation without consent.
EndUserAuthenticatedUnasked(file, settings) == EndUserAuth(file, settings) = "verified"

EndUserAuthenticated(file, settings) ==
    settings.explicit /\ EndUserAuth(file, settings) = "verified"

----------------------------------------------------------------------------
\* The ports of these services whose constructor reads the URL of a sibling.
CallsSibling(kind, settings) ==
    \/ kind = "validate" /\ settings.profile \in NetworkedProfiles
    \/ kind = "scan" /\ settings.profile = "platform"

\* Every port of the service is bound and constructs.
ServiceBuilds(kind, env, file, settings) ==
    file.bindings /\ (CallsSibling(kind, settings) => env.sibling # "emptied")
====
