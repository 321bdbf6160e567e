---- MODULE ResidencyProofs ----
(***************************************************************************)
(* What ResidencyRules keeps for every resource, every policy and every    *)
(* set of region names.                                                    *)
(***************************************************************************)
EXTENDS ResidencyRules, SequenceTheorems, WellFoundedInduction, TLAPS

\* The ranks that verdicts compare are those of the four severities.
LEMMA RanksAreBounded ==
    ASSUME NEW severity
    PROVE  SeverityRank(severity) \in 0..3
BY DEF SeverityRank

\* A stricter policy finds every violation that the looser one finds.
LEMMA StricterFindsMore ==
    ASSUME NEW p, NEW q, NEW resource, Stricter(p, q)
    PROVE  DetectOne(resource, q) \subseteq DetectOne(resource, p)
<1>1. RegionViolations(resource, q) \subseteq RegionViolations(resource, p)
    BY DEF Stricter, RegionViolations, IsRegionAllowed
<1>2. ControlViolations(resource.attributes, q) \subseteq ControlViolations(resource.attributes, p)
    BY DEF Stricter, ControlViolations
<1> QED BY <1>1, <1>2 DEF DetectOne

\* What passes a stricter policy passes the looser one.
LEMMA StricterPassesLess ==
    ASSUME NEW p, NEW q, NEW resource, Stricter(p, q),
           Passes(DetectOne(resource, p), p)
    PROVE  Passes(DetectOne(resource, q), q)
<1> SUFFICES ASSUME NEW kind \in DetectOne(resource, q),
                    SeverityRank(KindSeverity(kind)) >= SeverityRank(q.gate_severity)
             PROVE  FALSE
    BY DEF Passes, GatingViolations
<1>1. kind \in DetectOne(resource, p)
    BY StricterFindsMore
<1> DEFINE rank == SeverityRank(KindSeverity(kind))
           high == SeverityRank(q.gate_severity)
           low == SeverityRank(p.gate_severity)
<1>2. rank \in 0..3 /\ high \in 0..3 /\ low \in 0..3
    BY RanksAreBounded
<1>3. low <= high
    BY DEF Stricter
<1>4. rank >= high
    OBVIOUS
<1> HIDE DEF rank, high, low
<1>5. rank >= low
    BY <1>2, <1>3, <1>4
<1> QED BY <1>1, <1>5 DEF Passes, GatingViolations, rank, low

\* Tightening the policy of a deployment never lets a resource through that was
\* held back before.
THEOREM StricterIsSafer == Spec => StricterNeverPassesMore
<1>1. (Stricter(policy', policy) /\ UNCHANGED <<type, body>>) =>
          \A resource \in {AsPlanned, AsWritten} :
              Passes(DetectOne(resource, policy'), policy')
                  => Passes(DetectOne(resource, policy), policy)
    BY StricterPassesLess
<1> QED BY <1>1, PTL DEF Spec, StricterNeverPassesMore

\* A foreign region or a global location is a violation that every gate counts.
LEMMA ForeignIsCritical ==
    ASSUME NEW resource, Foreign(resource)
    PROVE  ~Passes(DetectOne(resource, policy), policy)
<1> DEFINE kind == IF IsGlobal(resource.region) THEN "global_endpoint" ELSE "region_not_allowed"
<1>1. kind \in DetectOne(resource, policy)
    BY DEF Foreign, IsGlobal, DetectOne, RegionViolations, ViolationKind, IsRegionAllowed
<1>2. SeverityRank(KindSeverity(kind)) = 3
    BY DEF KindSeverity, SeverityRank
<1>3. SeverityRank(policy.gate_severity) \in 0..3
    BY RanksAreBounded
<1> HIDE DEF kind
<1>4. SeverityRank(KindSeverity(kind)) >= SeverityRank(policy.gate_severity)
    BY <1>2, <1>3
<1> QED BY <1>1, <1>4 DEF Passes, GatingViolations

\* Whatever its policy, no deployment passes a resource abroad or at a global
\* location.
THEOREM OnlyResidentsPass == Spec => []OnlyResidentEstatesPass
<1>1. OnlyResidentEstatesPass
    BY ForeignIsCritical DEF OnlyResidentEstatesPass
<1> QED BY <1>1, PTL DEF Spec

----------------------------------------------------------------------------
(* What the two readers make of a block. A value they CHOOSE is the value   *)
(* of whichever assignment fits the description, since in a block Terraform *)
(* accepts no two assignments do.                                           *)

IsBody(text) == text \in Seq(Assignment) /\ WellFormed(text)

\* A set of natural numbers that is not empty has a least one.
LEMMA LeastNatural ==
    ASSUME NEW T, T \subseteq Nat, T # {}
    PROVE  \E least \in T : \A n \in T : least <= n
<1> DEFINE R == OpToRel(<, Nat)
<1>1. IsWellFoundedOn(R, Nat)
    BY NatLessThanWellFounded
<1>2. \A x, y \in Nat : x < y => <<x, y>> \in R
    BY DEF OpToRel
<1> HIDE DEF R
<1>3. PICK least \in T : \A n \in T : <<n, least>> \notin R
    BY <1>1, WFMin
<1>4. \A n \in T : ~(n < least)
    BY <1>2, <1>3
<1> QED BY <1>4

\* The region keys are three names, none of which is a control's.
LEMMA RegionKeysAre ==
    /\ RegionKeys[1] = "region" /\ RegionKeys[2] = "location" /\ RegionKeys[3] = "zone"
    /\ RegionKeySet = {"region", "location", "zone"}
    /\ RegionKeySet \cap (ControlKeys \cup LiveKeys) = {}
    /\ ControlKeys \cap LiveKeys = {}
<1>1. RegionKeys[1] = "region" /\ RegionKeys[2] = "location" /\ RegionKeys[3] = "zone"
    BY DEF RegionKeys
<1>2. RegionKeySet = {"region", "location", "zone"}
    <2>1. 1..3 = {1, 2, 3}
        OBVIOUS
    <2> QED BY <1>1, <2>1 DEF RegionKeySet
<1>3. RegionKeySet \cap (ControlKeys \cup LiveKeys) = {}
    BY <1>2 DEF ControlKeys, LiveKeys, CmekKeys, PublicEgressTrueKeys, VpcScKeys
<1>4. ControlKeys \cap LiveKeys = {}
    BY DEF ControlKeys, LiveKeys, CmekKeys, PublicEgressTrueKeys, VpcScKeys
<1> QED BY <1>1, <1>2, <1>3, <1>4

\* A region key ranks where the list of them has it.
LEMMA PriorityIs ==
    ASSUME NEW k \in 1..3
    PROVE  Priority(RegionKeys[k]) = k
<1>1. \A l \in 1..3 : RegionKeys[l] = RegionKeys[k] => l = k
    BY RegionKeysAre
<1> QED BY <1>1 DEF Priority

\* An assignment names a region key and a region, or a control and its value.
LEMMA AssignmentTypes ==
    ASSUME NEW a \in Assignment
    PROVE  /\ a.key \in RegionKeySet => a.value \in Region
           /\ a.key \in ControlKeys \cup LiveKeys =>
                  a.key \in ControlKeys /\ a.value \in AttributeValue \ {"absent"}
           /\ a.key \in RegionKeySet \cup ControlKeys
           /\ a.form \in Form /\ a.block \in 0..2 /\ a.deep \in BOOLEAN
BY RegionKeysAre DEF Assignment

\* The region a plan shows is that of the assignment with the first of the keys.
LEMMA PlanRegionIs ==
    ASSUME NEW text, IsBody(text), NEW i \in RegionAt(text),
           \A j \in RegionAt(text) : Priority(text[i].key) <= Priority(text[j].key)
    PROVE  PlanRegion(text) = text[i].value
<1>1. \A j \in RegionAt(text) :
          /\ j \in DOMAIN text /\ text[j].block = 0 /\ text[j].deep = FALSE
          /\ text[j].form = "literal"
          /\ \E k \in 1..3 : text[j].key = RegionKeys[k]
    <2> TAKE j \in RegionAt(text)
    <2>1. j \in DOMAIN text /\ text[j].block = 0 /\ \E k \in 1..3 : j \in Planned(text, RegionKeys[k])
        BY DEF RegionAt
    <2>2. text[j] \in Assignment
        BY <2>1 DEF IsBody
    <2> QED BY <2>1, <2>2, AssignmentTypes DEF IsBody, WellFormed, Planned
<1>2. ASSUME NEW j \in RegionAt(text),
             \A l \in RegionAt(text) : Priority(text[j].key) <= Priority(text[l].key)
      PROVE  j = i
    <2>1. PICK k \in 1..3 : text[j].key = RegionKeys[k]
        BY <1>1
    <2>2. PICK l \in 1..3 : text[i].key = RegionKeys[l]
        BY <1>1
    <2>3. Priority(text[j].key) = k /\ Priority(text[i].key) = l
        BY <2>1, <2>2, PriorityIs
    <2>4. k <= l /\ l <= k
        BY <1>2, <2>3
    <2>5. text[j].key = text[i].key
        BY <2>1, <2>2, <2>4
    <2> QED BY <1>1, <2>5 DEF IsBody, WellFormed
<1> DEFINE chosen == CHOOSE c \in RegionAt(text) :
                         \A l \in RegionAt(text) : Priority(text[c].key) <= Priority(text[l].key)
<1>3. /\ chosen \in RegionAt(text)
      /\ \A l \in RegionAt(text) : Priority(text[chosen].key) <= Priority(text[l].key)
    OBVIOUS
<1>4. PlanRegion(text) = text[chosen].value
    BY DEF PlanRegion
<1> HIDE DEF chosen
<1>5. chosen = i
    BY <1>2, <1>3
<1> QED BY <1>4, <1>5

\* A block that says where the resource is has an assignment that says it first.
LEMMA FirstRegion ==
    ASSUME NEW text, IsBody(text), RegionAt(text) # {}
    PROVE  \E i \in RegionAt(text) :
               \A j \in RegionAt(text) : Priority(text[i].key) <= Priority(text[j].key)
<1> DEFINE ranks == {Priority(text[i].key) : i \in RegionAt(text)}
<1>1. \A i \in RegionAt(text) : Priority(text[i].key) \in Nat
    BY PriorityIs DEF RegionAt, Planned
<1>2. ranks \subseteq Nat /\ ranks # {}
    BY <1>1
<1>3. PICK least \in ranks : \A n \in ranks : least <= n
    <2> HIDE DEF ranks
    <2> QED BY <1>2, LeastNatural
<1> QED BY <1>3

Seen(text, key) == {i \in Planned(text, key) : ~text[i].deep}

\* The value of a control in a plan is that of its outermost, first block.
LEMMA PlanAttributeIs ==
    ASSUME NEW text, IsBody(text), NEW key \in ControlKeys \cup LiveKeys, NEW i \in Seen(text, key),
           \A j \in Seen(text, key) : text[i].block <= text[j].block
    PROVE  PlanAttributes(text)[key] = text[i].value
<1>1. \A j \in Seen(text, key) :
          /\ j \in DOMAIN text /\ text[j].key = key /\ text[j].form = "literal"
          /\ text[j].deep = FALSE /\ text[j].block \in 0..2
    <2> TAKE j \in Seen(text, key)
    <2>1. j \in DOMAIN text /\ text[j].key = key /\ text[j].form = "literal" /\ ~text[j].deep
        BY DEF Seen, Planned
    <2>2. text[j] \in Assignment
        BY <2>1 DEF IsBody
    <2> QED BY <2>1, <2>2, AssignmentTypes
<1>2. ASSUME NEW j \in Seen(text, key), \A l \in Seen(text, key) : text[j].block <= text[l].block
      PROVE  j = i
    <2>1. text[j].block = text[i].block
        <3>1. text[j].block <= text[i].block /\ text[i].block <= text[j].block
            BY <1>2
        <3> QED BY <1>1, <3>1
    <2> QED BY <1>1, <2>1 DEF IsBody, WellFormed
<1> DEFINE chosen == CHOOSE c \in Seen(text, key) :
                         \A l \in Seen(text, key) : text[c].block <= text[l].block
<1>3. chosen \in Seen(text, key) /\ \A l \in Seen(text, key) : text[chosen].block <= text[l].block
    OBVIOUS
<1>4. PlanAttributes(text)[key] = text[chosen].value
    BY Zenon DEF PlanAttributes, Seen
<1> HIDE DEF chosen
<1>5. chosen = i
    BY <1>2, <1>3
<1> QED BY <1>4, <1>5

\* A control that no literal one level down sets is absent from the plan.
LEMMA PlanAttributeIsAbsent ==
    ASSUME NEW text, NEW key \in ControlKeys \cup LiveKeys, Seen(text, key) = {}
    PROVE  PlanAttributes(text)[key] = "absent"
BY Zenon DEF PlanAttributes, Seen

\* Of the blocks that set a control one is the outermost and first.
LEMMA FirstSeen ==
    ASSUME NEW text, IsBody(text), NEW key, Seen(text, key) # {}
    PROVE  \E i \in Seen(text, key) : \A j \in Seen(text, key) : text[i].block <= text[j].block
<1> DEFINE blocks == {text[i].block : i \in Seen(text, key)}
<1>1. \A i \in Seen(text, key) : text[i].block \in Nat
    <2> TAKE i \in Seen(text, key)
    <2>1. text[i] \in Assignment
        BY DEF Seen, Planned, IsBody
    <2> QED BY <2>1, AssignmentTypes
<1>2. blocks \subseteq Nat /\ blocks # {}
    BY <1>1
<1>3. PICK least \in blocks : \A n \in blocks : least <= n
    <2> HIDE DEF blocks
    <2> QED BY <1>2, LeastNatural
<1> QED BY <1>3

ValueAsWritten(assignment) ==
    IF assignment.form \in {"null", "reference"} THEN Unlisted ELSE assignment.value

\* The value the fallback reads is that of the key's first assignment.
LEMMA HclValueIs ==
    ASSUME NEW text, IsBody(text), NEW key, NEW i \in HclAssigned(text, key),
           \A j \in HclAssigned(text, key) : i <= j
    PROVE  HclValue(text, key) = ValueAsWritten(text[i])
<1>1. HclAssigned(text, key) \subseteq Nat
    BY DEF HclAssigned, IsBody
<1> DEFINE first == CHOOSE c \in HclAssigned(text, key) : \A j \in HclAssigned(text, key) : c <= j
<1>2. first \in HclAssigned(text, key) /\ \A j \in HclAssigned(text, key) : first <= j
    OBVIOUS
<1>3. HclValue(text, key) = ValueAsWritten(text[first])
    BY Zenon DEF HclValue, ValueAsWritten
<1> HIDE DEF first
<1>4. first = i
    BY <1>1, <1>2
<1> QED BY <1>3, <1>4

\* A key that is written at all is written somewhere first.
LEMMA FirstAssigned ==
    ASSUME NEW text, IsBody(text), NEW key, HclAssigned(text, key) # {}
    PROVE  \E i \in HclAssigned(text, key) : \A j \in HclAssigned(text, key) : i <= j
<1>1. HclAssigned(text, key) \subseteq Nat
    BY DEF HclAssigned, IsBody
<1> QED BY <1>1, LeastNatural

\* The region the fallback reads is that of the first key that is written.
LEMMA HclRegionIs ==
    ASSUME NEW text, NEW k \in 1..3, HclAssigned(text, RegionKeys[k]) # {},
           \A l \in 1..(k - 1) : HclAssigned(text, RegionKeys[l]) = {}
    PROVE  HclRegion(text) = HclValue(text, RegionKeys[k])
<1> DEFINE Written(n) == HclAssigned(text, RegionKeys[n]) # {}
<1> DEFINE chosen == CHOOSE c \in 1..3 : /\ HclAssigned(text, RegionKeys[c]) # {}
                                         /\ \A l \in 1..(c - 1) : HclAssigned(text, RegionKeys[l]) = {}
<1>1. chosen \in 1..3 /\ Written(chosen) /\ \A l \in 1..(chosen - 1) : ~Written(l)
    OBVIOUS
<1>2. RegionKeys[k] \in RegionKeySet
    BY DEF RegionKeySet
<1>3. HclRegion(text) = HclValue(text, RegionKeys[chosen])
    BY <1>2, Zenon DEF HclRegion
<1>4. Written(k) /\ \A l \in 1..(k - 1) : ~Written(l)
    OBVIOUS
<1> HIDE DEF chosen, Written
<1>5. chosen = k
    BY <1>1, <1>4
<1> QED BY <1>3, <1>5

\* If the fallback finds a region key, it finds one of the three first.
LEMMA FirstKey ==
    ASSUME NEW text, ~\A k \in RegionKeySet : HclAssigned(text, k) = {}
    PROVE  \E k \in 1..3 : /\ HclAssigned(text, RegionKeys[k]) # {}
                           /\ \A l \in 1..(k - 1) : HclAssigned(text, RegionKeys[l]) = {}
<1> DEFINE written == {k \in 1..3 : HclAssigned(text, RegionKeys[k]) # {}}
<1>1. written \subseteq Nat /\ written # {}
    BY DEF RegionKeySet
<1>2. PICK k \in written : \A l \in written : k <= l
    <2> HIDE DEF written
    <2> QED BY <1>1, LeastNatural
<1> QED BY <1>2

----------------------------------------------------------------------------
(* Types: what either reader makes of a block is a resource the detector    *)
(* has rules for.                                                           *)

\* What a plan shows of a block is a resource.
LEMMA PlannedIsResource ==
    ASSUME NEW sort \in ResourceType, NEW text, IsBody(text)
    PROVE  PlanResource(sort, text) \in Resource
<1>1. PlanRegion(text) \in Region \cup {NoRegion}
    <2>1. CASE RegionAt(text) = {}
        BY <2>1 DEF PlanRegion
    <2>2. CASE RegionAt(text) # {}
        <3>1. PICK i \in RegionAt(text) :
                  \A j \in RegionAt(text) : Priority(text[i].key) <= Priority(text[j].key)
            BY <2>2, FirstRegion
        <3>2. text[i] \in Assignment /\ text[i].key \in RegionKeySet
            BY DEF RegionAt, Planned, RegionKeySet, IsBody
        <3> QED BY <3>1, <3>2, PlanRegionIs, AssignmentTypes
    <2> QED BY <2>1, <2>2
<1>2. ASSUME NEW key \in ControlKeys \cup LiveKeys
      PROVE  PlanAttributes(text)[key] \in AttributeValue
    <2>1. CASE Seen(text, key) = {}
        BY <2>1, PlanAttributeIsAbsent DEF AttributeValue
    <2>2. CASE Seen(text, key) # {}
        <3>1. PICK i \in Seen(text, key) :
                  \A j \in Seen(text, key) : text[i].block <= text[j].block
            BY <2>2, FirstSeen
        <3>2. text[i] \in Assignment /\ text[i].key = key
            BY DEF Seen, Planned, IsBody
        <3> QED BY <3>1, <3>2, PlanAttributeIs, AssignmentTypes
    <2> QED BY <2>1, <2>2
<1>3. PlanAttributes(text) \in [ControlKeys \cup LiveKeys -> AttributeValue]
    <2> DEFINE keys == ControlKeys \cup LiveKeys
               value(k) == LET seen == {i \in Planned(text, k) : ~text[i].deep}
                           IN  IF seen = {} THEN "absent"
                               ELSE text[CHOOSE i \in seen :
                                             \A j \in seen : text[i].block <= text[j].block].value
    <2>1. PlanAttributes(text) = [k \in keys |-> value(k)]
        BY Zenon DEF PlanAttributes
    <2>2. \A key \in keys : PlanAttributes(text)[key] \in AttributeValue
        BY <1>2
    <2> HIDE DEF keys, value
    <2>3. PlanAttributes(text) \in [keys -> AttributeValue]
        BY <2>1, <2>2
    <2> QED BY <2>3 DEF keys
<1> QED BY <1>1, <1>3 DEF PlanResource, Resource

\* What an assignment reads as has the type of what it says.
LEMMA WrittenTypes ==
    ASSUME NEW a \in Assignment
    PROVE  /\ a.key \in RegionKeySet => ValueAsWritten(a) \in Region
           /\ a.key \in ControlKeys \cup LiveKeys => ValueAsWritten(a) \in AttributeValue
BY AssignmentTypes, UnlistedAssumption DEF ValueAsWritten, Unlisted, AttributeValue

\* What the fallback reads of a block is a resource.
LEMMA WrittenIsResource ==
    ASSUME NEW sort \in ResourceType, NEW text, IsBody(text)
    PROVE  HclResource(sort, text) \in Resource
<1>1. ASSUME NEW key, HclAssigned(text, key) # {}
      PROVE  \E a \in Assignment : a.key = key /\ HclValue(text, key) = ValueAsWritten(a)
    <2>1. PICK i \in HclAssigned(text, key) : \A j \in HclAssigned(text, key) : i <= j
        BY <1>1, FirstAssigned
    <2>2. text[i] \in Assignment /\ text[i].key = key
        BY DEF HclAssigned, IsBody
    <2> QED BY <2>1, <2>2, HclValueIs
<1>2. HclRegion(text) \in Region \cup {NoRegion}
    <2>1. CASE \A k \in RegionKeySet : HclAssigned(text, k) = {}
        BY <2>1 DEF HclRegion
    <2>2. CASE ~\A k \in RegionKeySet : HclAssigned(text, k) = {}
        <3>1. PICK k \in 1..3 : /\ HclAssigned(text, RegionKeys[k]) # {}
                                /\ \A l \in 1..(k - 1) : HclAssigned(text, RegionKeys[l]) = {}
            BY <2>2, FirstKey
        <3>2. RegionKeys[k] \in RegionKeySet
            BY DEF RegionKeySet
        <3>3. HclRegion(text) = HclValue(text, RegionKeys[k])
            BY <3>1, HclRegionIs
        <3> QED BY <1>1, <3>1, <3>2, <3>3, WrittenTypes
    <2> QED BY <2>1, <2>2
<1> DEFINE keys == ControlKeys \cup LiveKeys
           value(key) == IF HclAssigned(text, key) = {} THEN "absent" ELSE HclValue(text, key)
<1>3. \A key \in keys : value(key) \in AttributeValue
    <2> SUFFICES ASSUME NEW key \in keys PROVE value(key) \in AttributeValue
        OBVIOUS
    <2>1. CASE HclAssigned(text, key) = {}
        BY <2>1 DEF AttributeValue
    <2>2. CASE HclAssigned(text, key) # {}
        BY <1>1, <2>2, WrittenTypes
    <2> QED BY <2>1, <2>2
<1>4. HclResource(sort, text)
        = [type |-> sort, region |-> HclRegion(text), attributes |-> [key \in keys |-> value(key)]]
    BY Zenon DEF HclResource
<1>5. [key \in keys |-> value(key)] \in [keys -> AttributeValue]
    <2> HIDE DEF keys, value
    <2> QED BY <1>3
<1> HIDE DEF value
<1> QED BY <1>2, <1>4, <1>5 DEF Resource

Struck(text, i) == SubSeq(text, 1, i - 1) \o SubSeq(text, i + 1, Len(text))

\* Striking an assignment moves those after it up by one.
LEMMA StruckIs ==
    ASSUME NEW text \in Seq(Assignment), NEW i \in DOMAIN text
    PROVE  /\ Struck(text, i) \in Seq(Assignment) /\ Len(Struck(text, i)) = Len(text) - 1
           /\ \A j \in DOMAIN Struck(text, i) :
                  Struck(text, i)[j] = IF j < i THEN text[j] ELSE text[j + 1]
<1> DEFINE head == SubSeq(text, 1, i - 1)
           tail == SubSeq(text, i + 1, Len(text))
<1>1. Len(text) \in Nat /\ i \in 1..Len(text)
    OBVIOUS
<1>2. /\ head \in Seq(Assignment) /\ Len(head) = i - 1
      /\ \A j \in 1..(i - 1) : head[j] = text[j]
    BY <1>1
<1>3. /\ tail \in Seq(Assignment) /\ Len(tail) = Len(text) - i
      /\ \A j \in 1..(Len(text) - i) : tail[j] = text[i + j]
    BY <1>1
<1> HIDE DEF head, tail
<1>4. head \o tail \in Seq(Assignment) /\ Len(head \o tail) = Len(text) - 1
    BY <1>1, <1>2, <1>3
<1>5. \A j \in 1..(Len(text) - 1) :
          (head \o tail)[j] = IF j < i THEN text[j] ELSE text[j + 1]
    BY <1>1, <1>2, <1>3
<1>6. DOMAIN (head \o tail) = 1..(Len(text) - 1)
    BY <1>4
<1>7. Struck(text, i) = head \o tail
    BY DEF Struck, head, tail
<1> QED BY <1>4, <1>5, <1>6, <1>7

\* What is left of a block Terraform accepts is one.
LEMMA StruckIsBody ==
    ASSUME NEW text, IsBody(text), NEW i \in DOMAIN text
    PROVE  IsBody(Struck(text, i))
<1> DEFINE rest == Struck(text, i)
           at(j) == IF j < i THEN j ELSE j + 1
<1>1. /\ text \in Seq(Assignment) /\ rest \in Seq(Assignment) /\ Len(rest) = Len(text) - 1
      /\ \A j \in DOMAIN rest : rest[j] = text[at(j)]
    BY StruckIs DEF IsBody
<1>2. /\ \A j \in DOMAIN rest : at(j) \in DOMAIN text
      /\ \A j, l \in DOMAIN rest : at(j) = at(l) => j = l
    BY <1>1
<1> HIDE DEF rest, at
<1>3. \A j \in DOMAIN rest : rest[j].deep => rest[j].block # 0
    BY <1>1, <1>2 DEF IsBody, WellFormed
<1>4. ASSUME NEW j \in DOMAIN rest, NEW l \in DOMAIN rest,
             rest[j].form # "comment", rest[l].form # "comment", rest[j].key = rest[l].key,
             rest[j].block = rest[l].block, rest[j].deep = rest[l].deep
      PROVE  j = l
    BY <1>1, <1>2, <1>4 DEF IsBody, WellFormed
<1>5. WellFormed(rest)
    BY <1>3, <1>4 DEF WellFormed
<1> QED BY <1>1, <1>5 DEF IsBody, rest

\* A block and its resource stay well typed under every edit and every policy.
LEMMA RulesTypesStep ==
    ASSUME TypeOK, [Next]_vars
    PROVE  TypeOK'
<1> USE RulesAssumption
<1>1. type \in ResourceType /\ IsBody(body) /\ policy \in ResidencyPolicy
    BY DEF TypeOK, IsBody
<1>2. type' = type
    BY DEF Next, vars, Write, Strike, Govern
<1>3. IsBody(body')
    <2>1. CASE \E assignment \in Offered : Write(assignment)
        BY <1>1, <2>1 DEF IsBody, Write
    <2>2. CASE \E i \in 1..MaxAssignments : Strike(i)
        BY <1>1, <2>2, StruckIsBody DEF Strike, Struck
    <2>3. CASE UNCHANGED body
        BY <1>1, <2>3
    <2> QED BY <2>1, <2>2, <2>3 DEF Next, vars, Govern
<1>4. policy' \in ResidencyPolicy
    BY <1>1 DEF Next, vars, Write, Strike, Govern
<1>5. AsPlanned' \in Resource /\ AsWritten' \in Resource
    BY <1>1, <1>2, <1>3, PlannedIsResource, WrittenIsResource DEF AsPlanned, AsWritten
<1> QED BY <1>1, <1>2, <1>3, <1>4, <1>5 DEF TypeOK, IsBody

\* TypeOK, for every set of region names and every edit of a block.
THEOREM RulesTypes == Spec => []TypeOK
<1>1. ASSUME Init PROVE TypeOK
    <2>1. type \in ResourceType /\ policy \in ResidencyPolicy
        BY <1>1, RulesAssumption DEF Init
    <2>2. IsBody(body)
        BY <1>1 DEF Init, IsBody, WellFormed
    <2> QED BY <2>1, <2>2, PlannedIsResource, WrittenIsResource DEF TypeOK, IsBody, AsPlanned, AsWritten
<1> QED BY <1>1, RulesTypesStep, PTL DEF Spec

----------------------------------------------------------------------------
(* The two readers side by side.                                            *)

\* On a block both readers see whole they make the same resource of it.
LEMMA ReadersMeet ==
    ASSUME TypeOK, ReadAlike
    PROVE  AsPlanned = AsWritten
<1>1. IsBody(body)
    BY DEF TypeOK, IsBody
<1>2. \A i \in DOMAIN body :
          /\ body[i] \in Assignment /\ body[i].form = "literal" /\ ~body[i].deep
          /\ body[i].key \in RegionKeySet => body[i].block = 0 /\ body[i].value # Blank
          /\ ValueAsWritten(body[i]) = body[i].value
    BY <1>1 DEF ReadAlike, ValueAsWritten, IsBody
<1>3. \A i, j \in DOMAIN body : body[i].key = body[j].key => i = j
    BY DEF ReadAlike
<1>4. \A i \in DOMAIN body : \A key : i \in HclAssigned(body, key) <=> body[i].key = key
    BY DEF HclAssigned
<1>5. PlanRegion(body) = HclRegion(body)
    <2>1. \A i : i \in RegionAt(body) <=> i \in DOMAIN body /\ body[i].key \in RegionKeySet
        BY <1>2, RegionKeysAre DEF RegionAt, Planned, RegionKeySet
    <2>2. CASE \A k \in RegionKeySet : HclAssigned(body, k) = {}
        <3>1. RegionAt(body) = {}
            BY <2>1, <2>2 DEF HclAssigned
        <3> QED BY <2>2, <3>1 DEF PlanRegion, HclRegion
    <2>3. CASE ~\A k \in RegionKeySet : HclAssigned(body, k) = {}
        <3>1. PICK k \in 1..3 : /\ HclAssigned(body, RegionKeys[k]) # {}
                                /\ \A l \in 1..(k - 1) : HclAssigned(body, RegionKeys[l]) = {}
            BY <2>3, FirstKey
        <3>2. PICK i \in DOMAIN body : body[i].key = RegionKeys[k] /\ i \in HclAssigned(body, RegionKeys[k])
            BY <3>1 DEF HclAssigned
        <3>3. \A j \in HclAssigned(body, RegionKeys[k]) : j = i
            BY <1>3, <3>2 DEF HclAssigned
        <3>4. i \in Nat
            BY <1>1 DEF IsBody
        <3>5. HclRegion(body) = body[i].value
            BY <1>1, <1>2, <3>1, <3>2, <3>3, <3>4, HclRegionIs, HclValueIs
        <3>6. i \in RegionAt(body)
            BY <2>1, <3>2 DEF RegionKeySet
        <3>7. ASSUME NEW j \in RegionAt(body)
              PROVE  Priority(body[i].key) <= Priority(body[j].key)
            <4>1. PICK l \in 1..3 : body[j].key = RegionKeys[l]
                BY <2>1 DEF RegionKeySet
            <4>2. j \in HclAssigned(body, RegionKeys[l])
                BY <2>1, <4>1 DEF HclAssigned
            <4>3. ~(l \in 1..(k - 1))
                BY <3>1, <4>2
            <4>4. Priority(body[i].key) = k /\ Priority(body[j].key) = l
                BY <3>2, <4>1, PriorityIs
            <4> QED BY <4>3, <4>4
        <3>8. PlanRegion(body) = body[i].value
            BY <1>1, <3>6, <3>7, PlanRegionIs
        <3> QED BY <3>5, <3>8
    <2> QED BY <2>2, <2>3
<1> DEFINE keys == ControlKeys \cup LiveKeys
           planned(k) == LET seen == {i \in Planned(body, k) : ~body[i].deep}
                         IN  IF seen = {} THEN "absent"
                             ELSE body[CHOOSE i \in seen :
                                           \A j \in seen : body[i].block <= body[j].block].value
           written(k) == IF HclAssigned(body, k) = {} THEN "absent" ELSE HclValue(body, k)
<1>6. PlanAttributes(body) = [k \in keys |-> planned(k)]
    BY Zenon DEF PlanAttributes
<1>7. ASSUME NEW key \in keys
      PROVE  PlanAttributes(body)[key] = written(key)
    <2>1. Seen(body, key) = HclAssigned(body, key)
        BY <1>2 DEF Seen, Planned, HclAssigned
    <2>2. CASE HclAssigned(body, key) = {}
        BY <2>1, <2>2, PlanAttributeIsAbsent
    <2>3. CASE HclAssigned(body, key) # {}
        <3>1. PICK i \in DOMAIN body : body[i].key = key /\ i \in HclAssigned(body, key)
            BY <2>3 DEF HclAssigned
        <3>2. \A j \in HclAssigned(body, key) : j = i
            BY <1>3, <3>1 DEF HclAssigned
        <3>3. i \in Nat /\ body[i].block \in Nat
            BY <1>1, <1>2, AssignmentTypes DEF IsBody
        <3>4. HclValue(body, key) = body[i].value
            BY <1>1, <1>2, <3>1, <3>2, <3>3, HclValueIs
        <3>5. PlanAttributes(body)[key] = body[i].value
            BY <1>1, <2>1, <3>1, <3>2, <3>3, PlanAttributeIs
        <3> QED BY <2>3, <3>4, <3>5
    <2> QED BY <2>2, <2>3
<1>8. PlanAttributes(body) = [k \in keys |-> written(k)]
    <2> HIDE DEF keys, planned, written
    <2> QED BY <1>6, <1>7
<1>9. AsWritten = [type |-> type, region |-> HclRegion(body), attributes |-> [k \in keys |-> written(k)]]
    BY Zenon DEF AsWritten, HclResource
<1> HIDE DEF keys, planned, written
<1> QED BY <1>5, <1>8, <1>9 DEF AsPlanned, PlanResource

\* FormatsAgreeOnLiterals: a gate on the .tf files of such a repository gives
\* the verdict of its plan, whatever the policy.
THEOREM FormatsAgree == Spec => []FormatsAgreeOnLiterals
<1>1. TypeOK => FormatsAgreeOnLiterals
    BY ReadersMeet DEF FormatsAgreeOnLiterals
<1> QED BY <1>1, RulesTypes, PTL

----------------------------------------------------------------------------
(* Hardening: an attribute that evidences a control, or closes an egress,   *)
(* takes violations away and adds none.                                     *)

Closes(key, value) ==
    \/ key \in CmekKeys \cup VpcScKeys /\ value \notin {Blank, "absent"}
    \/ key \in PublicEgressTrueKeys /\ value = "false"
    \/ key = "public_access_prevention" /\ value = "other"

\* Attributes that differ in one that closes have no violation more.
LEMMA ClosingAddsNothing ==
    ASSUME NEW old, NEW new, NEW rules, NEW key \in ControlKeys,
           \A k \in ControlKeys \ {key} : new[k] = old[k],
           new[key] = old[key] \/ Closes(key, new[key])
    PROVE  ControlViolations(new, rules) \subseteq ControlViolations(old, rules)
<1>1. /\ CmekKeys \subseteq ControlKeys /\ VpcScKeys \subseteq ControlKeys
      /\ PublicEgressTrueKeys \subseteq ControlKeys /\ "public_access_prevention" \in ControlKeys
    BY DEF ControlKeys
<1>2. /\ (CmekKeys \cup VpcScKeys) \cap PublicEgressTrueKeys = {}
      /\ "public_access_prevention" \notin CmekKeys \cup VpcScKeys \cup PublicEgressTrueKeys
    BY DEF CmekKeys, VpcScKeys, PublicEgressTrueKeys
<1>3. ASSUME NEW keys, keys \in {CmekKeys, VpcScKeys}, Evidenced(old, keys)
      PROVE  Evidenced(new, keys)
    <2>1. PICK k \in keys : old[k] \notin {"absent", Blank}
        BY <1>3 DEF Evidenced
    <2>2. k \in ControlKeys /\ k \in CmekKeys \cup VpcScKeys
        BY <1>1, <1>3
    <2>3. new[k] \notin {"absent", Blank}
        BY <1>2, <2>1, <2>2 DEF Closes
    <2> QED BY <2>3 DEF Evidenced
<1>4. ASSUME HasPublicEgress(new) PROVE HasPublicEgress(old)
    <2>1. CASE \E k \in PublicEgressTrueKeys : new[k] = "true"
        <3>1. PICK k \in PublicEgressTrueKeys : new[k] = "true"
            BY <2>1
        <3>2. old[k] = "true"
            BY <1>1, <1>2, <3>1 DEF Closes
        <3> QED BY <3>2 DEF HasPublicEgress
    <2>2. CASE new["public_access_prevention"] \in {"false", "inherited"}
        <3>1. old["public_access_prevention"] \in {"false", "inherited"}
            BY <1>1, <1>2, <2>2 DEF Closes
        <3> QED BY <3>1 DEF HasPublicEgress
    <2> QED BY <1>4, <2>1, <2>2 DEF HasPublicEgress
<1>5. Evidenced(old, CmekKeys) => Evidenced(new, CmekKeys)
    BY <1>3
<1>6. Evidenced(old, VpcScKeys) => Evidenced(new, VpcScKeys)
    BY <1>3
<1> QED BY <1>4, <1>5, <1>6 DEF ControlViolations

\* What was there stays where it was, and the new assignment comes last.
LEMMA AppendedIs ==
    ASSUME NEW text \in Seq(Assignment), NEW a \in Assignment
    PROVE  /\ DOMAIN Append(text, a) = DOMAIN text \cup {Len(text) + 1}
           /\ Len(text) + 1 \notin DOMAIN text /\ DOMAIN text = 1..Len(text) /\ Len(text) \in Nat
           /\ Append(text, a)[Len(text) + 1] = a
           /\ \A i \in DOMAIN text : Append(text, a)[i] = text[i]
OBVIOUS

\* To add a control says nothing about the region, in either reading.
LEMMA HardenedRegion ==
    ASSUME NEW text, IsBody(text), NEW a \in Assignment, IsBody(Append(text, a)),
           a.key \in ControlKeys
    PROVE  /\ PlanRegion(Append(text, a)) = PlanRegion(text)
           /\ HclRegion(Append(text, a)) = HclRegion(text)
<1> DEFINE longer == Append(text, a)
           n == Len(text) + 1
<1>1. /\ DOMAIN longer = DOMAIN text \cup {n} /\ n \notin DOMAIN text /\ longer[n] = a
      /\ \A i \in DOMAIN text : longer[i] = text[i]
    BY AppendedIs DEF IsBody
<1>2. a.key \notin RegionKeySet
    BY RegionKeysAre
<1>3. IsBody(longer)
    OBVIOUS
<1> HIDE DEF longer, n
<1>4. \A k \in 1..3 : RegionKeys[k] \in RegionKeySet
    BY DEF RegionKeySet
<1>5. PlanRegion(longer) = PlanRegion(text)
    <2>1. \A k \in 1..3 : Planned(longer, RegionKeys[k]) = Planned(text, RegionKeys[k])
        BY <1>1, <1>2, <1>4 DEF Planned
    <2>2. \A i \in RegionAt(text) \cup RegionAt(longer) : i \in DOMAIN text
        BY <2>1 DEF RegionAt, Planned
    <2>3. RegionAt(longer) = RegionAt(text) /\ \A i \in RegionAt(text) : longer[i] = text[i]
        BY <1>1, <2>1, <2>2 DEF RegionAt
    <2>4. CASE RegionAt(text) = {}
        BY <2>3, <2>4 DEF PlanRegion
    <2>5. CASE RegionAt(text) # {}
        <3>1. PICK i \in RegionAt(text) :
                  \A j \in RegionAt(text) : Priority(text[i].key) <= Priority(text[j].key)
            BY <2>5, FirstRegion
        <3>2. PlanRegion(text) = text[i].value
            BY <3>1, PlanRegionIs
        <3>3. i \in RegionAt(longer) /\ \A j \in RegionAt(longer) :
                  Priority(longer[i].key) <= Priority(longer[j].key)
            BY <2>3, <3>1
        <3>4. PlanRegion(longer) = longer[i].value
            BY <1>3, <3>3, PlanRegionIs
        <3> QED BY <2>3, <3>2, <3>4
    <2> QED BY <2>4, <2>5
<1>6. HclRegion(longer) = HclRegion(text)
    <2>1. \A key \in RegionKeySet : HclAssigned(longer, key) = HclAssigned(text, key)
        BY <1>1, <1>2 DEF HclAssigned
    <2>2. CASE \A key \in RegionKeySet : HclAssigned(text, key) = {}
        BY <2>1, <2>2 DEF HclRegion
    <2>3. CASE ~\A key \in RegionKeySet : HclAssigned(text, key) = {}
        <3>1. PICK k \in 1..3 : /\ HclAssigned(text, RegionKeys[k]) # {}
                                /\ \A l \in 1..(k - 1) : HclAssigned(text, RegionKeys[l]) = {}
            BY <2>3, FirstKey
        <3>2. PICK i \in HclAssigned(text, RegionKeys[k]) :
                  \A j \in HclAssigned(text, RegionKeys[k]) : i <= j
            BY <3>1, FirstAssigned
        <3>3. /\ HclAssigned(longer, RegionKeys[k]) = HclAssigned(text, RegionKeys[k])
              /\ \A l \in 1..(k - 1) : HclAssigned(longer, RegionKeys[l]) = {}
            BY <1>4, <2>1, <3>1
        <3>4. longer[i] = text[i]
            BY <1>1 DEF HclAssigned
        <3>5. HclRegion(text) = ValueAsWritten(text[i])
            BY <3>1, <3>2, HclRegionIs, HclValueIs
        <3>6. HclRegion(longer) = ValueAsWritten(longer[i])
            BY <1>3, <3>1, <3>2, <3>3, HclRegionIs, HclValueIs
        <3> QED BY <3>4, <3>5, <3>6
    <2> QED BY <2>2, <2>3
<1> QED BY <1>5, <1>6 DEF longer

\* In the plan the new assignment is the control's value, for it is outermost.
LEMMA HardenedPlan ==
    ASSUME NEW text, IsBody(text), NEW a \in Assignment, IsBody(Append(text, a)),
           a.form = "literal", a.block = 0, a.key \in ControlKeys
    PROVE  /\ PlanAttributes(Append(text, a))[a.key] = a.value
           /\ \A key \in (ControlKeys \cup LiveKeys) \ {a.key} :
                  PlanAttributes(Append(text, a))[key] = PlanAttributes(text)[key]
<1> DEFINE longer == Append(text, a)
           n == Len(text) + 1
<1>1. /\ DOMAIN longer = DOMAIN text \cup {n} /\ n \notin DOMAIN text /\ longer[n] = a
      /\ \A i \in DOMAIN text : longer[i] = text[i]
    BY AppendedIs DEF IsBody
<1>2. IsBody(longer)
    OBVIOUS
<1> HIDE DEF longer, n
<1>3. ~longer[n].deep
    BY <1>1, <1>2, AssignmentTypes DEF IsBody, WellFormed
<1>4. n \in Seen(longer, a.key)
    BY <1>1, <1>3 DEF Seen, Planned
<1>5. \A j \in Seen(longer, a.key) : longer[n].block <= longer[j].block
    <2> TAKE j \in Seen(longer, a.key)
    <2>1. longer[j] \in Assignment
        BY <1>2 DEF Seen, Planned, IsBody
    <2> QED BY <1>1, <2>1, AssignmentTypes
<1>6. PlanAttributes(longer)[a.key] = a.value
    BY <1>1, <1>2, <1>4, <1>5, PlanAttributeIs
<1>7. ASSUME NEW key \in (ControlKeys \cup LiveKeys) \ {a.key}
      PROVE  PlanAttributes(longer)[key] = PlanAttributes(text)[key]
    <2>1. Seen(longer, key) = Seen(text, key) /\ \A i \in Seen(text, key) : longer[i] = text[i]
        BY <1>1 DEF Seen, Planned
    <2>2. CASE Seen(text, key) = {}
        BY <2>1, <2>2, PlanAttributeIsAbsent
    <2>3. CASE Seen(text, key) # {}
        <3>1. PICK i \in Seen(text, key) :
                  \A j \in Seen(text, key) : text[i].block <= text[j].block
            BY <2>3, FirstSeen
        <3>2. \A j \in Seen(longer, key) : longer[i].block <= longer[j].block
            BY <2>1, <3>1
        <3> QED BY <1>2, <2>1, <3>1, <3>2, PlanAttributeIs
    <2> QED BY <2>2, <2>3
<1> QED BY <1>6, <1>7 DEF longer

WrittenAttribute(text, key) ==
    IF HclAssigned(text, key) = {} THEN "absent" ELSE HclValue(text, key)

\* To the fallback the new assignment counts only where the key was not written.
LEMMA HardenedText ==
    ASSUME NEW text, IsBody(text), NEW a \in Assignment, IsBody(Append(text, a)),
           a.form = "literal"
    PROVE  /\ WrittenAttribute(Append(text, a), a.key) \in {WrittenAttribute(text, a.key), a.value}
           /\ \A key : key # a.key =>
                  WrittenAttribute(Append(text, a), key) = WrittenAttribute(text, key)
<1> DEFINE longer == Append(text, a)
           n == Len(text) + 1
<1>1. /\ DOMAIN longer = DOMAIN text \cup {n} /\ n \notin DOMAIN text /\ longer[n] = a
      /\ DOMAIN text \subseteq Nat /\ n \in Nat /\ \A i \in DOMAIN text : longer[i] = text[i] /\ i <= n
    BY AppendedIs DEF IsBody
<1>2. IsBody(longer)
    OBVIOUS
<1> HIDE DEF longer, n
<1>3. ASSUME NEW key, HclAssigned(text, key) # {}
      PROVE  WrittenAttribute(longer, key) = WrittenAttribute(text, key)
    <2>1. PICK i \in HclAssigned(text, key) : \A j \in HclAssigned(text, key) : i <= j
        BY <1>3, FirstAssigned
    <2>2. i \in HclAssigned(longer, key) /\ longer[i] = text[i]
        BY <1>1 DEF HclAssigned
    <2>3. \A j \in HclAssigned(longer, key) : i <= j
        <3> TAKE j \in HclAssigned(longer, key)
        <3>1. CASE j = n
            BY <1>1, <3>1 DEF HclAssigned
        <3>2. CASE j # n
            BY <1>1, <2>1, <3>2 DEF HclAssigned
        <3> QED BY <3>1, <3>2
    <2>4. HclValue(text, key) = ValueAsWritten(text[i])
        BY <2>1, HclValueIs
    <2>5. HclValue(longer, key) = ValueAsWritten(longer[i])
        BY <1>2, <2>2, <2>3, HclValueIs
    <2> QED BY <1>3, <2>2, <2>4, <2>5 DEF WrittenAttribute
<1>4. ASSUME HclAssigned(text, a.key) = {}
      PROVE  WrittenAttribute(longer, a.key) = a.value
    <2>1. n \in HclAssigned(longer, a.key) /\ \A j \in HclAssigned(longer, a.key) : j = n
        BY <1>1, <1>4 DEF HclAssigned
    <2>2. HclValue(longer, a.key) = ValueAsWritten(longer[n])
        BY <1>1, <1>2, <2>1, HclValueIs
    <2> QED BY <1>1, <2>1, <2>2 DEF WrittenAttribute, ValueAsWritten
<1>5. ASSUME NEW key, key # a.key, HclAssigned(text, key) = {}
      PROVE  WrittenAttribute(longer, key) = WrittenAttribute(text, key)
    <2>1. HclAssigned(longer, key) = {}
        BY <1>1, <1>5 DEF HclAssigned
    <2> QED BY <1>5, <2>1 DEF WrittenAttribute
<1> QED BY <1>3, <1>4, <1>5 DEF longer

\* A hardening assignment is of a control, and closes it.
LEMMA HardeningCloses ==
    ASSUME NEW a \in Assignment, Hardening(a)
    PROVE  a.key \in ControlKeys /\ Closes(a.key, a.value) /\ a.form = "literal" /\ a.block = 0
<1>1. a.key \in ControlKeys
    BY DEF Hardening, ControlKeys
<1>2. a.value # "absent"
    BY <1>1, AssignmentTypes
<1> QED BY <1>1, <1>2 DEF Hardening, Closes

\* What a resource with the same region and closed attributes is found for.
LEMMA ClosedFindsNoMore ==
    ASSUME NEW sort, NEW place, NEW old, NEW new, NEW rules,
           ControlViolations(new, rules) \subseteq ControlViolations(old, rules)
    PROVE  DetectOne([type |-> sort, region |-> place, attributes |-> new], rules)
             \subseteq DetectOne([type |-> sort, region |-> place, attributes |-> old], rules)
BY DEF DetectOne, RegionViolations, IsData

\* A hardening assignment adds no violation to a block, in either reading.
LEMMA HardenedFindsNoMore ==
    ASSUME NEW sort, NEW rules, NEW text, IsBody(text), NEW a \in Assignment,
           IsBody(Append(text, a)), Hardening(a)
    PROVE  /\ DetectOne(PlanResource(sort, Append(text, a)), rules)
                \subseteq DetectOne(PlanResource(sort, text), rules)
           /\ DetectOne(HclResource(sort, Append(text, a)), rules)
                \subseteq DetectOne(HclResource(sort, text), rules)
<1> DEFINE longer == Append(text, a)
           keys == ControlKeys \cup LiveKeys
<1>1. a.key \in ControlKeys /\ Closes(a.key, a.value) /\ a.form = "literal" /\ a.block = 0
    BY HardeningCloses
<1>2. PlanRegion(longer) = PlanRegion(text) /\ HclRegion(longer) = HclRegion(text)
    BY <1>1, HardenedRegion
<1>3. ControlViolations(PlanAttributes(longer), rules) \subseteq ControlViolations(PlanAttributes(text), rules)
    <2>1. /\ PlanAttributes(longer)[a.key] = a.value
          /\ \A key \in keys \ {a.key} : PlanAttributes(longer)[key] = PlanAttributes(text)[key]
        BY <1>1, HardenedPlan
    <2> QED BY <1>1, <2>1, ClosingAddsNothing
<1>4. ASSUME NEW t
      PROVE  HclResource(sort, t) = [type       |-> sort, region |-> HclRegion(t),
                                     attributes |-> [k \in keys |-> WrittenAttribute(t, k)]]
    BY Zenon DEF HclResource, WrittenAttribute
<1>5. ControlViolations([k \in keys |-> WrittenAttribute(longer, k)], rules)
        \subseteq ControlViolations([k \in keys |-> WrittenAttribute(text, k)], rules)
    <2> DEFINE new == [k \in keys |-> WrittenAttribute(longer, k)]
               old == [k \in keys |-> WrittenAttribute(text, k)]
    <2>1. /\ WrittenAttribute(longer, a.key) \in {WrittenAttribute(text, a.key), a.value}
          /\ \A key : key # a.key => WrittenAttribute(longer, key) = WrittenAttribute(text, key)
        BY <1>1, HardenedText
    <2> HIDE DEF longer
    <2>2. \A k \in ControlKeys \ {a.key} : new[k] = old[k]
        BY <2>1
    <2>3. new[a.key] = old[a.key] \/ new[a.key] = a.value
        BY <1>1, <2>1
    <2> HIDE DEF new, old
    <2>4. new[a.key] = old[a.key] \/ Closes(a.key, new[a.key])
        BY <1>1, <2>3
    <2>5. ControlViolations(new, rules) \subseteq ControlViolations(old, rules)
        BY <1>1, <2>2, <2>4, ClosingAddsNothing
    <2> QED BY <2>5 DEF new, old
<1>6. DetectOne(PlanResource(sort, longer), rules) \subseteq DetectOne(PlanResource(sort, text), rules)
    BY <1>2, <1>3, ClosedFindsNoMore DEF PlanResource
<1>7. DetectOne(HclResource(sort, longer), rules) \subseteq DetectOne(HclResource(sort, text), rules)
    BY <1>2, <1>4, <1>5, ClosedFindsNoMore
<1> QED BY <1>6, <1>7

\* HardeningNeverHurts: no step that writes such an assignment makes the gate
\* stricter on the resource.
THEOREM HardeningIsSafe == Spec => HardeningNeverHurts
<1>1. ASSUME TypeOK, TypeOK', [Next]_vars, Hardens
      PROVE  /\ DetectOne(AsPlanned', policy) \subseteq DetectOne(AsPlanned, policy)
             /\ DetectOne(AsWritten', policy) \subseteq DetectOne(AsWritten, policy)
    <2>1. type' = type
        BY <1>1 DEF Next, vars, Write, Strike, Govern
    <2>2. IsBody(body) /\ IsBody(body')
        BY <1>1 DEF TypeOK, IsBody
    <2> DEFINE a == body'[Len(body')]
    <2>3. body' = Append(body, a) /\ Hardening(a) /\ Len(body') = Len(body) + 1
        BY <1>1 DEF Hardens
    <2>4. a \in Assignment
        BY <2>2, <2>3 DEF IsBody
    <2> HIDE DEF a
    <2> QED BY <2>1, <2>2, <2>3, <2>4, HardenedFindsNoMore DEF AsPlanned, AsWritten
<1>2. TypeOK /\ TypeOK' /\ [Next]_vars =>
          [Hardens => /\ DetectOne(AsPlanned', policy) \subseteq DetectOne(AsPlanned, policy)
                      /\ DetectOne(AsWritten', policy) \subseteq DetectOne(AsWritten, policy)]_vars
    BY <1>1
<1>3. Spec => []TypeOK
    BY RulesTypes
<1> QED BY <1>2, <1>3, PTL DEF Spec, HardeningNeverHurts
====
