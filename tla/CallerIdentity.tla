---- MODULE CallerIdentity ----
(***************************************************************************)
(* Who the caller of a request is: the adapters of the identity port and    *)
(* the statuses api/security.py makes of their refusals.                    *)
(***************************************************************************)
EXTENDS ProcessSettings

CONSTANTS
    Persona,    \* the ids of the seeded personas, the first of them below
    Subject,    \* the e-mail addresses an assertion can name
    Tenant      \* the hosted domains

\* The persona that a request without a choice gets.
CONSTANT DefaultPersona
ASSUME PersonaAssumption == DefaultPersona \in Persona

RequiredClaims == {"iss", "sub", "email", "exp"}

\* The assertion of the proxy, under either of its two headers: a blank header
\* is an absent one. "sound": signature and expiry hold; claims: the claims
\* that are there and not blank.
Assertion ==
    [algorithm : {"pinned", "other"}, sound : BOOLEAN, audience : {"backend", "other"},
     issuer : {"iap", "other"}, claims : SUBSET RequiredClaims,
     subject : Subject, tenant : Tenant]

NoAssertion == [algorithm |-> "none"]

Caller ==
    [peer : {"loopback", "stranger"}, persona : Persona \cup {"none", "unknown"},
     assertion : Assertion \cup {NoAssertion}]

Refused(status) == [status |-> status]

Granted(source, subject, tenant) ==
    [status |-> "granted", source |-> source, subject |-> subject, tenant |-> tenant]

----------------------------------------------------------------------------
\* A bug to catch: consent is not asked for.
PersonasServeUnasked(settings) == settings.profile \in LaptopProfiles

\* The seeded personas construct on a laptop profile that somebody chose.
PersonasServe(settings) == settings.profile \in LaptopProfiles /\ settings.explicit

ResolvePersona(settings, caller) ==
    IF ~PersonasServe(settings) \/ caller.persona = "unknown" THEN {Refused("unauthenticated")}
    ELSE IF caller.persona = "none" THEN {Granted("persona", DefaultPersona, "persona")}
    ELSE {Granted("persona", caller.persona, "persona")}

\* google-auth: signature, expiry and audience, and nothing of the issuer.
\* Any failure of it, fetching the keys included, is a refusal.
TokenVerifies(assertion, audience) == assertion.sound /\ assertion.audience = audience

ClaimsHold(assertion) == assertion.issuer = "iap" /\ RequiredClaims \subseteq assertion.claims

\* A bug to catch: the configuration is checked after the caller's header.
ResolveAssertionHeaderFirst(audience, installed, assertion) ==
    IF assertion = NoAssertion \/ assertion.algorithm # "pinned"
    THEN {Refused("unauthenticated")}
    ELSE IF audience \in Absent \/ ~installed THEN {Refused("unavailable")}
    ELSE {Refused("unauthenticated")}
         \cup {Granted("iap", a.subject, a.tenant) :
                  a \in {a \in {assertion} : TokenVerifies(a, audience) /\ ClaimsHold(a)}}

ResolveAssertion(audience, installed, assertion) ==
    IF audience \in Absent THEN {Refused("unavailable")}
    ELSE IF assertion = NoAssertion \/ assertion.algorithm # "pinned"
    THEN {Refused("unauthenticated")}
    ELSE IF ~installed THEN {Refused("unavailable")}
    ELSE {Refused("unauthenticated")}
         \cup {Granted("iap", a.subject, a.tenant) :
                  a \in {a \in {assertion} : TokenVerifies(a, audience) /\ ClaimsHold(a)}}

\* get_principal: what the bound adapter can answer. A placeholder raises, and
\* so does a port that nothing is bound to.
Identities(env, file, settings, installed, caller) ==
    CASE file.identity[settings.profile] = "personas" -> ResolvePersona(settings, caller)
      [] file.identity[settings.profile] = "iap" ->
             ResolveAssertion(env.audience, installed, caller.assertion)
      [] file.identity[settings.profile] = "client" ->
             {Refused("unauthenticated")}
             \cup {Granted("client", s, t) : s \in Subject, t \in Tenant}
      [] OTHER -> {Refused("error")}
====
