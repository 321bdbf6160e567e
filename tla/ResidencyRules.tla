---- MODULE ResidencyRules ----
(***************************************************************************)
(* The author of a Terraform resource writes and strikes assignments, the  *)
(* deployment changes its residency policy, and the gate grades what is    *)
(* there: as the plan shows it and as the HCL fallback reads it.           *)
(***************************************************************************)
EXTENDS TerraformTarget

CONSTANTS
    Types,            \* the resource types an author writes
    Offered,          \* the assignments an author writes
    Policies,         \* the residency policies a deployment can have
    MaxAssignments    \* bound: assignments of one block

ASSUME RulesAssumption ==
    /\ Types \subseteq ResourceType
    /\ Offered \subseteq Assignment
    /\ Policies \subseteq ResidencyPolicy
    /\ MaxAssignments \in Nat

VARIABLES
    type,      \* the type of the resource
    body,      \* its assignments, in the order of the text
    policy     \* the residency policy it is graded against

vars == <<type, body, policy>>

Init == type \in Types /\ body = << >> /\ policy \in Policies

Write(assignment) ==
    /\ Len(body) < MaxAssignments
    /\ WellFormed(Append(body, assignment))
    /\ body' = Append(body, assignment)
    /\ UNCHANGED <<type, policy>>

Strike(i) ==
    /\ i \in DOMAIN body
    /\ body' = SubSeq(body, 1, i - 1) \o SubSeq(body, i + 1, Len(body))
    /\ UNCHANGED <<type, policy>>

Govern(new) == policy' = new /\ UNCHANGED <<type, body>>

Next ==
    \/ \E assignment \in Offered : Write(assignment)
    \/ \E i \in 1..MaxAssignments : Strike(i)
    \/ \E new \in Policies : Govern(new)

Spec == Init /\ [][Next]_vars

----------------------------------------------------------------------------
AsPlanned == PlanResource(type, body)

AsWritten == HclResource(type, body)

TypeOK ==
    /\ type \in ResourceType
    /\ body \in Seq(Assignment) /\ WellFormed(body)
    /\ policy \in ResidencyPolicy
    /\ AsPlanned \in Resource /\ AsWritten \in Resource

\* A block both readers see whole: literals only, one assignment for a key, the
\* region in the block itself and not blank, a control at most one level down.
ReadAlike ==
    /\ \A i \in DOMAIN body :
           /\ body[i].form = "literal" /\ ~body[i].deep
           /\ body[i].key \in RegionKeySet => body[i].block = 0 /\ body[i].value # Blank
    /\ \A i, j \in DOMAIN body : body[i].key = body[j].key => i = j

\* On such a block the fallback and the plan find the same violations: a
\* repository that gates on its .tf files gets the verdict of its plan.
FormatsAgreeOnLiterals ==
    ReadAlike => DetectOne(AsPlanned, policy) = DetectOne(AsWritten, policy)

Foreign(resource) ==
    /\ ~IsUnknown(resource.region)
    /\ \/ resource.region \notin policy.allowed_regions
       \/ LowerCase[resource.region] \in GlobalRegionTokens

\* No policy lets a resource through that names a region outside the allowed
\* ones, or a global location in any spelling: neither a gate at the highest
\* severity, nor an allow-list that names the location, nor a policy that
\* requires no control.
OnlyResidentEstatesPass ==
    \A resource \in {AsPlanned, AsWritten} :
        Foreign(resource) => ~Passes(DetectOne(resource, policy), policy)

Hardening(assignment) ==
    /\ assignment.form = "literal" /\ assignment.block = 0
    /\ \/ assignment.key \in CmekKeys \cup VpcScKeys /\ assignment.value # Blank
       \/ assignment.key \in PublicEgressTrueKeys /\ assignment.value = "false"
       \/ assignment.key = "public_access_prevention" /\ assignment.value = "other"

Hardens ==
    /\ Len(body') = Len(body) + 1 /\ policy' = policy
    /\ body' = Append(body, body'[Len(body')]) /\ Hardening(body'[Len(body')])

\* Writing a key, a perimeter or a closed egress flag into the resource adds no
\* violation to it, in either reading, whatever its nested blocks say.
HardeningNeverHurts ==
    [][Hardens => /\ DetectOne(AsPlanned', policy) \subseteq DetectOne(AsPlanned, policy)
                  /\ DetectOne(AsWritten', policy) \subseteq DetectOne(AsWritten, policy)]_vars

\* p is at least as strict as q.
Stricter(p, q) ==
    /\ p.allowed_regions \subseteq q.allowed_regions
    /\ q.required_controls \subseteq p.required_controls
    /\ SeverityRank(p.gate_severity) <= SeverityRank(q.gate_severity)

\* A stricter policy passes nothing that the policy before it failed.
StricterNeverPassesMore ==
    [][(Stricter(policy', policy) /\ UNCHANGED <<type, body>>) =>
          \A resource \in {AsPlanned, AsWritten} :
              Passes(DetectOne(resource, policy'), policy')
                  => Passes(DetectOne(resource, policy), policy)]_vars
====
