---- MODULE TerraformTarget ----
(***************************************************************************)
(* How a Terraform resource becomes a ResourceConfig                       *)
(* (pipelines/terraform.py): read from the plan JSON, or out of the HCL    *)
(* text by the regular expressions of the fallback.                        *)
(*                                                                         *)
(* A resource block is written as a sequence of assignments. An assignment *)
(* stands in the block itself (block = 0) or in a nested one, numbered as  *)
(* the plan orders them; deep tells that it is nested further. Its form is *)
(* a literal, null, a reference that is resolved on apply, or a comment.   *)
(***************************************************************************)
EXTENDS ResidencyDetector, Sequences

RegionKeys == <<"region", "location", "zone">>

RegionKeySet == {RegionKeys[i] : i \in 1..3}

\* A text that is none of the names and values the rules look for.
Unlisted == "other"

ASSUME UnlistedAssumption == Unlisted \in Region /\ LowerCase[Unlisted] = Unlisted

Form == {"literal", "null", "reference", "comment"}

Assignment ==
    [key : RegionKeySet, value : Region, form : Form, block : 0..2, deep : BOOLEAN]
        \cup [key : ControlKeys, value : AttributeValue \ {"absent"}, form : Form,
              block : 0..2, deep : BOOLEAN]

\* What Terraform accepts: a key is assigned once in a body, and what stands in
\* the resource itself is not nested.
WellFormed(body) ==
    /\ \A i \in DOMAIN body : body[i].deep => body[i].block # 0
    /\ \A i, j \in DOMAIN body :
           (/\ body[i].form # "comment" /\ body[j].form # "comment"
            /\ body[i].key = body[j].key
            /\ body[i].block = body[j].block /\ body[i].deep = body[j].deep) => i = j

NoAttributes == [k \in ControlKeys \cup LiveKeys |-> "absent"]

----------------------------------------------------------------------------
\* The assignments whose value a plan holds: a reference is still unknown then.
Planned(body, key) == {i \in DOMAIN body : body[i].key = key /\ body[i].form = "literal"}

\* The first region key of the resource itself that holds a text.
RegionAt(body) ==
    {i \in DOMAIN body : /\ \E k \in 1..3 : i \in Planned(body, RegionKeys[k])
                         /\ body[i].block = 0 /\ body[i].value # Blank}

Priority(key) == CHOOSE k \in 1..3 : RegionKeys[k] = key

PlanRegion(body) ==
    IF RegionAt(body) = {} THEN NoRegion
    ELSE body[CHOOSE i \in RegionAt(body) :
                  \A j \in RegionAt(body) : Priority(body[i].key) <= Priority(body[j].key)].value

\* A bug to catch: nested blocks are not flattened.
PlanAttributesTopLevel(body) ==
    [k \in ControlKeys \cup LiveKeys |->
        LET seen == {i \in Planned(body, k) : body[i].block = 0}
        IN  IF seen = {} THEN "absent" ELSE body[CHOOSE i \in seen : TRUE].value]

\* _extract_attributes: the resource's own keys win over those one level down,
\* and an earlier nested block over a later one.
PlanAttributes(body) ==
    [k \in ControlKeys \cup LiveKeys |->
        LET seen == {i \in Planned(body, k) : ~body[i].deep}
        IN  IF seen = {} THEN "absent"
            ELSE body[CHOOSE i \in seen : \A j \in seen : body[i].block <= body[j].block].value]

\* _resource_from_planned
PlanResource(type, body) ==
    [type |-> type, region |-> PlanRegion(body), attributes |-> PlanAttributes(body)]

----------------------------------------------------------------------------
\* _scan_attrs: the first text that looks like an assignment of the key, at any
\* depth and in a comment too; null and a reference are read as they are written.
HclAssigned(body, key) == {i \in DOMAIN body : body[i].key = key}

HclValue(body, key) ==
    LET first == CHOOSE i \in HclAssigned(body, key) : \A j \in HclAssigned(body, key) : i <= j
    IN  IF body[first].form \in {"null", "reference"} THEN Unlisted ELSE body[first].value

\* The first region key that is there at all, whatever it holds.
HclRegion(body) ==
    IF \A k \in RegionKeySet : HclAssigned(body, k) = {} THEN NoRegion
    ELSE HclValue(body, RegionKeys[CHOOSE k \in 1..3 :
             /\ HclAssigned(body, RegionKeys[k]) # {}
             /\ \A l \in 1..(k - 1) : HclAssigned(body, RegionKeys[l]) = {}])

\* A bug to catch: every key of the block is taken for a control.
HclResourceUnfiltered(type, body) ==
    [type       |-> type,
     region     |-> HclRegion(body),
     attributes |-> [k \in ControlKeys \cup LiveKeys \cup RegionKeySet |->
                        IF HclAssigned(body, k) = {} THEN "absent" ELSE HclValue(body, k)]]

\* _parse_tf_text
HclResource(type, body) ==
    [type       |-> type,
     region     |-> HclRegion(body),
     attributes |-> [k \in ControlKeys \cup LiveKeys |->
                        IF HclAssigned(body, k) = {} THEN "absent" ELSE HclValue(body, k)]]

----------------------------------------------------------------------------
(* A plan document is readable JSON of the shape the walk expects ("plan"), *)
(* or it is not. Its modules are numbered with the root first and a child   *)
(* after a module that calls it, of which every one but the root has one;   *)
(* an empty or missing root leaves no module. An entry of a module's        *)
(* resources may be junk: not an object, or without an address or a type.   *)

PlannedEntry == [usable : BOOLEAN, resource : Resource]

IsModules(modules) ==
    /\ modules \in Seq([entries : SUBSET PlannedEntry, children : SUBSET Nat])
    /\ \A m \in DOMAIN modules : modules[m].children \subseteq {c \in DOMAIN modules : c > m}
    /\ \A c \in DOMAIN modules \ {1} : \E m \in DOMAIN modules : c \in modules[m].children

IsPlanDoc(doc) ==
    /\ doc.kind \in {"plan", "unreadable", "invalid", "malformed"}
    /\ doc.resource_changes \in BOOLEAN
    /\ IF doc.kind = "plan" THEN IsModules(doc.modules) ELSE doc.modules = << >>

\* A bug to catch: only the modules the root calls are read.
PlanResourcesOneLevel(doc) ==
    LET read == IF DOMAIN doc.modules = {} THEN {} ELSE {1} \cup doc.modules[1].children
    IN  {e.resource : e \in {e \in UNION {doc.modules[m].entries : m \in read} : e.usable}}

\* _walk_module, from the root module
PlanResources(doc) ==
    LET Walk[m \in DOMAIN doc.modules] ==
            {e.resource : e \in {e \in doc.modules[m].entries : e.usable}}
                \cup UNION {Walk[c] : c \in doc.modules[m].children}
    IN  IF DOMAIN doc.modules = {} THEN {} ELSE Walk[1]

\* The documents parse_plan_json refuses, or fails on: one with neither a root
\* module nor resource_changes is not taken for a plan.
PlanRaises(doc) == doc.kind # "plan" \/ (DOMAIN doc.modules = {} /\ ~doc.resource_changes)

(* What the .tf file of a name is to the reader: absent, a text with its    *)
(* resources, unreadable (an OSError), or not UTF-8.                        *)

TfFile(contents) ==
    [status : {"text"}, resources : contents]
        \cup [status : {"absent", "unreadable", "binary"}, resources : {{}}]
====
