---- MODULE MCServing ----
(***************************************************************************)
(* One request or command after the other on a process that is started with *)
(* environments one or two variables away from the documented ones, under   *)
(* settings files that an image may hold.                                   *)
(***************************************************************************)
EXTENDS ServingProperties

CONSTANTS analyst, approver, ann, bank, c1

OneCall == {c1}

\* As the documentation starts each profile.
Base(profile) ==
    [profile |-> profile, routing |-> "unset",
     console |-> IF profile \in NetworkedProfiles THEN "url" ELSE "unset",
     audience |-> IF profile \in NetworkedProfiles THEN "backend" ELSE "unset",
     origins |-> "unset", frame |-> "unset", demo |-> "unset",
     sibling |-> "unset", other |-> "unset"]

Profiles == RuntimeProfiles \cup Absent \cup {"typo"}

Change(environments) ==
    environments
    \cup {[e EXCEPT !.routing = v] : e \in environments, v \in {"emptied", "off", "typo"}}
    \cup {[e EXCEPT !.console = v] : e \in environments, v \in Absent}
    \cup {[e EXCEPT !.audience = v] : e \in environments, v \in Absent}
    \cup {[e EXCEPT !.origins = v] : e \in environments, v \in {"emptied", "tenant", "wildcard"}}
    \cup {[e EXCEPT !.frame = v] : e \in environments, v \in {"emptied", "tenant", "wildcard"}}
    \cup {[e EXCEPT !.demo = "on"] : e \in environments}
    \cup {[e EXCEPT !.sibling = "emptied"] : e \in environments}
    \cup {[e EXCEPT !.other = "emptied"] : e \in environments}

\* Every environment that is at most two variables away from a documented one.
MCEnvironments == Change(Change({Base(p) : p \in Profiles}))

MCShells ==
    {Base("local"), Base("gcp"), [Base("gcp") EXCEPT !.console = "unset"],
     [Base("platform") EXCEPT !.sibling = "emptied"], Base("onprem")}

Shipped == [p \in RuntimeProfiles |->
    CASE p \in LaptopProfiles -> "personas" [] p \in NetworkedProfiles -> "iap" [] OTHER -> "placeholder"]

AsShipped == [profile |-> "none", policy |-> "reviewed", bindings |-> TRUE, identity |-> Shipped]

\* The shipped file; a missing one; the two on-premises rebindings; a profile
\* that is pinned; a policy that the loader must not accept.
MCFiles ==
    {AsShipped,
     [AsShipped EXCEPT !.bindings = FALSE, !.identity = [p \in RuntimeProfiles |-> "none"]],
     [AsShipped EXCEPT !.identity["onprem"] = "client", !.identity["local"] = "client"],
     [AsShipped EXCEPT !.profile = "gcp", !.identity["gcp"] = "personas"],
     [AsShipped EXCEPT !.policy = "weakened"]}

Sound == [algorithm |-> "pinned", sound |-> TRUE, audience |-> "backend", issuer |-> "iap",
          claims |-> RequiredClaims, subject |-> ann, tenant |-> bank]

\* A visitor, somebody who picks a persona, and callers whose assertion is sound
\* or lacks one thing.
MCCallers ==
    {[peer |-> p, persona |-> "none", assertion |-> NoAssertion] : p \in {"loopback", "stranger"}}
    \cup {[peer |-> "loopback", persona |-> p, assertion |-> NoAssertion] : p \in {approver, "unknown"}}
    \cup {[peer |-> "stranger", persona |-> "none", assertion |-> a] :
            a \in {Sound, [Sound EXCEPT !.audience = "other"], [Sound EXCEPT !.issuer = "other"],
                   [Sound EXCEPT !.claims = @ \ {"email"}], [Sound EXCEPT !.algorithm = "other"]}}
====
