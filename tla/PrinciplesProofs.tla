---- MODULE PrinciplesProofs ----
(***************************************************************************)
(* Proofs about the ruleset: what TLC checks in MCPrinciples on a few      *)
(* controls and regions, for every submission and every region list.       *)
(***************************************************************************)
EXTENDS PrincipleRevision, TLAPS

\* The catalogue's order (principles_eval.py:312-325).
LEMMA IdOfPosition ==
    /\ PrincipleIds[1] = "P-01" /\ PrincipleIds[2] = "P-02" /\ PrincipleIds[3] = "P-03"
    /\ PrincipleIds[4] = "P-04" /\ PrincipleIds[5] = "P-05" /\ PrincipleIds[6] = "P-06"
    /\ PrincipleIds[7] = "P-07" /\ PrincipleIds[8] = "P-08" /\ PrincipleIds[9] = "P-09"
    /\ PrincipleIds[10] = "P-10" /\ PrincipleIds[11] = "P-11" /\ PrincipleIds[12] = "P-12"
BY DEF PrincipleIds

\* Twelve positions, one by one.
LEMMA Positions ==
    ASSUME NEW i \in 1..12
    PROVE  \/ i = 1 \/ i = 2 \/ i = 3 \/ i = 4 \/ i = 5 \/ i = 6
           \/ i = 7 \/ i = 8 \/ i = 9 \/ i = 10 \/ i = 11 \/ i = 12
OBVIOUS

----------------------------------------------------------------------------
(* Revisions keep a submission a submission.                               *)

\* Revising a submission, in any order, leaves one that the form can hold
\* (domain/models.py: Submission).
THEOREM TypeInvariant == Spec => []TypeOK
<1>1. Init => TypeOK
  BY RevisionAssumption DEF Init, TypeOK
<1>2. TypeOK /\ [Next]_submission => TypeOK'
  <2> SUFFICES ASSUME TypeOK, [Next]_submission PROVE TypeOK'
    OBVIOUS
  <2> USE DEF TypeOK
  <2>1. ASSUME NEW control \in Offered, Declare(control) PROVE TypeOK'
    BY <2>1, RevisionAssumption DEF Declare, Submission
  <2>2. ASSUME NEW control \in Offered, Withdraw(control) PROVE TypeOK'
    BY <2>2 DEF Withdraw, Submission
  <2>3. ASSUME NEW region \in Regions, MoveTo(region) PROVE TypeOK'
    BY <2>3, RevisionAssumption DEF MoveTo, Submission
  <2>4. ASSUME NEW key \in AttributeKey, NEW value \in Signatures, Sign(key, value)
        PROVE  TypeOK'
    BY <2>4, RevisionAssumption DEF Sign, Submission
  <2>5. ASSUME NEW pii \in BOOLEAN, NEW rag \in BOOLEAN, NEW tuning \in BOOLEAN,
               NEW exit \in BOOLEAN, Redesign(pii, rag, tuning, exit)
        PROVE  TypeOK'
    BY <2>5 DEF Redesign, Submission
  <2>6. CASE UNCHANGED submission
    BY <2>6
  <2>7. QED
    BY <2>1, <2>2, <2>3, <2>4, <2>5, <2>6 DEF Next
<1>3. QED
  BY <1>1, <1>2, PTL DEF Spec

----------------------------------------------------------------------------
(* The evaluator follows the catalogue, principle by principle.            *)

\* The catalogue's reading of a declared control is the evaluator's.
LEMMA DeclaredAsHad ==
    ASSUME NEW s, NEW control
    PROVE  control \in DeclaredControls(s) <=> Has(s, control)
BY DEF DeclaredControls, Has

\* The principles whose rule is a control that must be declared.
LEMMA ControlRules ==
    ASSUME NEW s, NEW allowed
    PROVE  /\ P01(s).status = CatalogueStatus(s, "P-01", allowed)
           /\ P06(s).status = CatalogueStatus(s, "P-06", allowed)
           /\ P07(s).status = CatalogueStatus(s, "P-07", allowed)
           /\ P08(s).status = CatalogueStatus(s, "P-08", allowed)
           /\ P09(s).status = CatalogueStatus(s, "P-09", allowed)
<1> USE DeclaredAsHad DEF CatalogueStatus, FailRule, NeedsInfoRule, RequiredControl, Verdict
<1>1. P01(s).status = CatalogueStatus(s, "P-01", allowed)
  BY DEF P01
<1>2. P06(s).status = CatalogueStatus(s, "P-06", allowed)
  BY DEF P06
<1>3. P07(s).status = CatalogueStatus(s, "P-07", allowed)
  BY DEF P07
<1>4. P08(s).status = CatalogueStatus(s, "P-08", allowed)
  BY DEF P08
<1>5. P09(s).status = CatalogueStatus(s, "P-09", allowed)
  BY DEF P09
<1>6. QED
  BY <1>1, <1>2, <1>3, <1>4, <1>5

\* The principles that also read flags, attributes or a choice of controls.
LEMMA OtherRules ==
    ASSUME NEW s \in Submission, NEW allowed, Blank \notin allowed
    PROVE  /\ P02(s).status = CatalogueStatus(s, "P-02", allowed)
           /\ P03(s, allowed).status = CatalogueStatus(s, "P-03", allowed)
           /\ P04(s).status = CatalogueStatus(s, "P-04", allowed)
           /\ P05(s).status = CatalogueStatus(s, "P-05", allowed)
           /\ P10(s).status = CatalogueStatus(s, "P-10", allowed)
           /\ P11(s).status = CatalogueStatus(s, "P-11", allowed)
           /\ P12(s).status = CatalogueStatus(s, "P-12", allowed)
<1> USE DeclaredAsHad
    DEF CatalogueStatus, FailRule, NeedsInfoRule, RequiredControl, Verdict, Submission
<1>1. P02(s).status = CatalogueStatus(s, "P-02", allowed)
  BY DEF P02, AttrTrue
<1>2. P03(s, allowed).status = CatalogueStatus(s, "P-03", allowed)
  BY DEF P03, AttrTrue, StrippedRegion, DeclaresRegion
<1>3. P04(s).status = CatalogueStatus(s, "P-04", allowed)
  BY DEF P04
<1>4. P05(s).status = CatalogueStatus(s, "P-05", allowed)
  BY DEF P05
<1>5. P10(s).status = CatalogueStatus(s, "P-10", allowed)
  BY DEF P10
<1>6. P11(s).status = CatalogueStatus(s, "P-11", allowed)
  BY DEF P11
<1>7. P12(s).status = CatalogueStatus(s, "P-12", allowed)
  BY DEF P12
<1>8. QED
  BY <1>1, <1>2, <1>3, <1>4, <1>5, <1>6, <1>7

\* Each principle is judged by its own check.
LEMMA CheckOfPosition ==
    ASSUME NEW s, NEW allowed
    PROVE  /\ Check(s, PrincipleIds[1], allowed) = P01(s)
           /\ Check(s, PrincipleIds[2], allowed) = P02(s)
           /\ Check(s, PrincipleIds[3], allowed) = P03(s, allowed)
           /\ Check(s, PrincipleIds[4], allowed) = P04(s)
           /\ Check(s, PrincipleIds[5], allowed) = P05(s)
           /\ Check(s, PrincipleIds[6], allowed) = P06(s)
           /\ Check(s, PrincipleIds[7], allowed) = P07(s)
           /\ Check(s, PrincipleIds[8], allowed) = P08(s)
           /\ Check(s, PrincipleIds[9], allowed) = P09(s)
           /\ Check(s, PrincipleIds[10], allowed) = P10(s)
           /\ Check(s, PrincipleIds[11], allowed) = P11(s)
           /\ Check(s, PrincipleIds[12], allowed) = P12(s)
BY IdOfPosition DEF Check

\* All twelve checks give the status the catalogue's wording calls for.
LEMMA CheckFollowsCatalogue ==
    ASSUME NEW s \in Submission, NEW allowed, Blank \notin allowed, NEW i \in 1..12
    PROVE  Check(s, PrincipleIds[i], allowed).status
               = CatalogueStatus(s, PrincipleIds[i], allowed)
<1> DEFINE Follows(k) == Check(s, PrincipleIds[k], allowed).status
                             = CatalogueStatus(s, PrincipleIds[k], allowed)
<1>1. Follows(1) /\ Follows(6) /\ Follows(7) /\ Follows(8) /\ Follows(9)
  BY IdOfPosition, CheckOfPosition, ControlRules
<1>2. Follows(2) /\ Follows(3) /\ Follows(4) /\ Follows(5)
  BY IdOfPosition, CheckOfPosition, OtherRules
<1>3. Follows(10) /\ Follows(11) /\ Follows(12)
  BY IdOfPosition, CheckOfPosition, OtherRules
<1> HIDE DEF Follows
<1>4. Follows(i)
  BY <1>1, <1>2, <1>3, Positions
<1>5. QED
  BY <1>4 DEF Follows

\* Every submission, every region list: the rules a project reads at
\* GET /principles (principles.py:26-150) are the rules evaluate_all applies.
THEOREM EvaluatorFollowsCatalogue == Spec => []FollowsCatalogue
<1>1. TypeOK => FollowsCatalogue
  <2> SUFFICES ASSUME submission \in Submission, NEW i \in 1..12
               PROVE  /\ EvaluateAll(submission, AllowedRegions)[i].principle_id
                              = PrincipleIds[i]
                      /\ EvaluateAll(submission, AllowedRegions)[i].status
                              = CatalogueStatus(submission, PrincipleIds[i], AllowedRegions)
    BY DEF TypeOK, FollowsCatalogue, EvaluateAll
  <2>1. Blank \notin AllowedRegions
    BY RevisionAssumption
  <2>2. Check(submission, PrincipleIds[i], AllowedRegions).status
            = CatalogueStatus(submission, PrincipleIds[i], AllowedRegions)
    BY <2>1, CheckFollowsCatalogue
  <2>3. QED
    BY <2>2 DEF EvaluateAll, EvaluatePrinciple
<1>2. QED
  BY <1>1, TypeInvariant, PTL

----------------------------------------------------------------------------
(* On the common domain the rego bundle and the evaluator agree.           *)

\* On texts without blanks around them, a control is declared to both engines or to
\* neither (principles.rego:14-17, principles_eval.py:38-41).
LEMMA HasInLockstep ==
    ASSUME NEW s \in Submission, CommonDomain(s), NEW control
    PROVE  RegoHas(s, control) <=> Has(s, control)
<1>1. ASSUME RegoHas(s, control) PROVE Has(s, control)
  BY <1>1 DEF RegoHas, Has
<1>2. ASSUME Has(s, control) PROVE RegoHas(s, control)
  <2>1. PICK c \in s.declared_controls : c.word = control
    BY <1>2 DEF Has
  <2>2. c \in [word : Control, padded : BOOLEAN] /\ c.padded = FALSE
    BY <2>1 DEF CommonDomain, Submission, Text
  <2>3. c = [word |-> control, padded |-> FALSE]
    BY <2>1, <2>2
  <2>4. QED
    BY <2>1, <2>3 DEF RegoHas
<1>3. QED
  BY <1>1, <1>2

\* A text without blanks around it is known by its content.
LEMMA UnpaddedText ==
    ASSUME NEW words, NEW t \in Text(words), t.padded = FALSE, NEW w
    PROVE  t = [word |-> w, padded |-> FALSE] <=> t.word = w
BY DEF Text

\* ... a declared region is allowed by both or by neither,
LEMMA RegionInLockstep ==
    ASSUME NEW s \in Submission, CommonDomain(s), NEW allowed, Blank \notin allowed
    PROVE  Rego03(s, allowed) = P03(s, allowed)
<1>1. /\ s.declared_region \in Text(Region)
      /\ s.declared_region.padded = FALSE
      /\ StrippedRegion(s) = s.declared_region.word
      /\ StrippedRegion(s) # Blank
  BY DEF CommonDomain, DeclaresRegion, Submission, Text, StrippedRegion
<1>2. (\E a \in allowed : s.declared_region = [word |-> a, padded |-> FALSE])
          <=> StrippedRegion(s) \in allowed
  BY <1>1, UnpaddedText
<1>3. /\ s.attributes["region_exception"] \in Text(AttributeWord)
      /\ s.attributes["region_exception"].padded = FALSE
  BY DEF CommonDomain, Submission, Text, AttributeKey
<1>4. RegoException(s) <=> AttrTrue(s, "region_exception")
  BY <1>3, UnpaddedText DEF RegoException, AttrTrue
<1>5. QED
  BY <1>1, <1>2, <1>4 DEF Rego03, P03, RegoVerdict, Verdict

\* the other eleven rules agree,
LEMMA RulesInLockstep ==
    ASSUME NEW s \in Submission, CommonDomain(s)
    PROVE  /\ Rego01(s) = P01(s) /\ Rego02(s) = P02(s) /\ Rego04(s) = P04(s)
           /\ Rego05(s) = P05(s) /\ Rego06(s) = P06(s) /\ Rego07(s) = P07(s)
           /\ Rego08(s) = P08(s) /\ Rego09(s) = P09(s) /\ Rego10(s) = P10(s)
           /\ Rego11(s) = P11(s) /\ Rego12(s) = P12(s)
<1> USE DEF RegoVerdict, Verdict
<1>1. \A control : RegoHas(s, control) <=> Has(s, control)
  BY HasInLockstep
<1>2. Rego01(s) = P01(s) /\ Rego06(s) = P06(s) /\ Rego08(s) = P08(s)
  BY <1>1 DEF Rego01, P01, Rego06, P06, Rego08, P08
<1>3. Rego02(s) = P02(s)
  BY <1>1 DEF Rego02, P02, CommonDomain
<1>4. Rego04(s) = P04(s)
  BY <1>1 DEF Rego04, P04, Submission
<1>5. Rego05(s) = P05(s) /\ Rego12(s) = P12(s)
  BY DEF Rego05, P05, Rego12, P12
<1>6. Rego07(s) = P07(s)
  BY <1>1 DEF Rego07, P07
<1>7. Rego09(s) = P09(s)
  BY <1>1 DEF Rego09, P09
<1>8. Rego10(s) = P10(s)
  BY <1>1 DEF Rego10, P10
<1>9. Rego11(s) = P11(s)
  BY <1>1 DEF Rego11, P11
<1>10. QED
  BY <1>2, <1>3, <1>4, <1>5, <1>6, <1>7, <1>8, <1>9

\* and so do the engines, principle by principle.
LEMMA ChecksInLockstep ==
    ASSUME NEW s \in Submission, CommonDomain(s), NEW allowed, Blank \notin allowed, NEW id
    PROVE  RegoCheck(s, id, allowed) = Check(s, id, allowed)
BY RulesInLockstep, RegionInLockstep DEF RegoCheck, Check

\* Every submission both engines read alike, every region list: an outage of the
\* policy service (validation_service.py:117-128) changes no status and no severity.
THEOREM EnginesInLockstep == Spec => []LockstepOnCommonDomain
<1>1. TypeOK => LockstepOnCommonDomain
  <2> SUFFICES ASSUME submission \in Submission, CommonDomain(submission)
               PROVE  RegoFindings(submission, AllowedRegions)
                          = EvaluateAll(submission, AllowedRegions)
    BY DEF TypeOK, LockstepOnCommonDomain
  <2>1. Blank \notin AllowedRegions
    BY RevisionAssumption
  <2>2. \A id : RegoCheck(submission, id, AllowedRegions)
                    = Check(submission, id, AllowedRegions)
    BY <2>1, ChecksInLockstep
  <2>3. QED
    BY <2>2 DEF RegoFindings, EvaluateAll, EvaluatePrinciple
<1>2. QED
  BY <1>1, TypeInvariant, PTL

----------------------------------------------------------------------------
(* Declaring one more control never worsens a finding.                     *)

\* The order of statuses and severities.
LEMMA Ranks ==
    /\ StatusRank("FAIL") = 2 /\ StatusRank("NEEDS_INFO") = 1
    /\ StatusRank("PASS") = 0 /\ StatusRank("NOT_APPLICABLE") = 0
    /\ SeverityRank("low") = 0 /\ SeverityRank("medium") = 1
    /\ SeverityRank("high") = 2 /\ SeverityRank("critical") = 3
BY DEF StatusRank, SeverityRank

\* A submission that declares at least what another does and is otherwise the same.
Extends(t, s) ==
    /\ s.declared_controls \subseteq t.declared_controls
    /\ t.declared_region = s.declared_region
    /\ t.attributes = s.attributes
    /\ t.uses_pii = s.uses_pii
    /\ t.uses_rag = s.uses_rag
    /\ t.uses_fine_tuning = s.uses_fine_tuning
    /\ t.has_exit_plan = s.has_exit_plan

\* What was declared is still declared.
LEMMA HasIsMonotone ==
    ASSUME NEW s, NEW t, Extends(t, s), NEW control
    PROVE  /\ Has(s, control) => Has(t, control)
           /\ RegoHas(s, control) => RegoHas(t, control)
BY DEF Extends, Has, RegoHas

\* Declaring more worsens no check of the evaluator,
LEMMA EvaluatorNoWorse ==
    ASSUME NEW s, NEW t, Extends(t, s), NEW allowed, NEW id
    PROVE  NoWorse(Check(t, id, allowed), Check(s, id, allowed))
<1> USE Ranks DEF NoWorse, UnmetStatus, Verdict
<1>1. \A control : Has(s, control) => Has(t, control)
  BY HasIsMonotone
<1>2. NoWorse(P01(t), P01(s)) /\ NoWorse(P06(t), P06(s)) /\ NoWorse(P08(t), P08(s))
  BY <1>1 DEF P01, P06, P08
<1>3. NoWorse(P02(t), P02(s))
  BY <1>1 DEF P02, AttrTrue, Extends
<1>4. NoWorse(P03(t, allowed), P03(s, allowed))
  BY DEF P03, StrippedRegion, AttrTrue, Extends
<1>5. NoWorse(P04(t), P04(s))
  BY <1>1 DEF P04, Extends
<1>6. NoWorse(P05(t), P05(s)) /\ NoWorse(P12(t), P12(s))
  BY DEF P05, P12, Extends
<1>7. NoWorse(P07(t), P07(s))
  BY <1>1 DEF P07
<1>8. NoWorse(P09(t), P09(s))
  BY <1>1 DEF P09
<1>9. NoWorse(P10(t), P10(s)) /\ NoWorse(P11(t), P11(s))
  BY <1>1 DEF P10, P11
<1> HIDE DEF NoWorse
<1>10. QED
  BY <1>2, <1>3, <1>4, <1>5, <1>6, <1>7, <1>8, <1>9 DEF Check

\* and no rule of the bundle.
LEMMA BundleNoWorse ==
    ASSUME NEW s, NEW t, Extends(t, s), NEW allowed, NEW id
    PROVE  NoWorse(RegoCheck(t, id, allowed), RegoCheck(s, id, allowed))
<1> USE Ranks DEF NoWorse, UnmetStatus, RegoVerdict
<1>1. \A control : RegoHas(s, control) => RegoHas(t, control)
  BY HasIsMonotone
<1>2. /\ NoWorse(Rego01(t), Rego01(s)) /\ NoWorse(Rego02(t), Rego02(s))
      /\ NoWorse(Rego06(t), Rego06(s)) /\ NoWorse(Rego08(t), Rego08(s))
  BY <1>1 DEF Rego01, Rego02, Rego06, Rego08
<1>3. NoWorse(Rego03(t, allowed), Rego03(s, allowed))
  BY DEF Rego03, RegoException, Extends
<1>4. NoWorse(Rego04(t), Rego04(s))
  BY <1>1 DEF Rego04, Extends
<1>5. NoWorse(Rego05(t), Rego05(s)) /\ NoWorse(Rego12(t), Rego12(s))
  BY DEF Rego05, Rego12, Extends
<1>6. NoWorse(Rego07(t), Rego07(s))
  BY <1>1 DEF Rego07
<1>7. NoWorse(Rego09(t), Rego09(s))
  BY <1>1 DEF Rego09
<1>8. NoWorse(Rego10(t), Rego10(s)) /\ NoWorse(Rego11(t), Rego11(s))
  BY <1>1 DEF Rego10, Rego11
<1> HIDE DEF NoWorse
<1>9. QED
  BY <1>2, <1>3, <1>4, <1>5, <1>6, <1>7, <1>8 DEF RegoCheck

\* Every submission, every region list, either engine: no project gets a harder
\* verdict for declaring what it has (principles_eval.py:68-309,
\* principles.rego:27-105).
THEOREM DeclaringIsSafe == Spec => DeclaringNeverHurts
<1> DEFINE Step == OnlyDeclaresMore =>
                 \A i \in 1..12 :
                     /\ NoWorse(EvaluateAll(submission', AllowedRegions)[i],
                                EvaluateAll(submission, AllowedRegions)[i])
                     /\ NoWorse(RegoFindings(submission', AllowedRegions)[i],
                                RegoFindings(submission, AllowedRegions)[i])
<1>1. TypeOK => [Step]_submission
  <2> SUFFICES ASSUME TypeOK, OnlyDeclaresMore, NEW i \in 1..12
               PROVE  /\ NoWorse(EvaluateAll(submission', AllowedRegions)[i],
                                  EvaluateAll(submission, AllowedRegions)[i])
                      /\ NoWorse(RegoFindings(submission', AllowedRegions)[i],
                                  RegoFindings(submission, AllowedRegions)[i])
    OBVIOUS
  <2>1. Extends(submission', submission)
    BY DEF TypeOK, OnlyDeclaresMore, Submission, Extends
  <2>2. NoWorse(Check(submission', PrincipleIds[i], AllowedRegions),
                Check(submission, PrincipleIds[i], AllowedRegions))
    BY <2>1, EvaluatorNoWorse
  <2>3. NoWorse(RegoCheck(submission', PrincipleIds[i], AllowedRegions),
                RegoCheck(submission, PrincipleIds[i], AllowedRegions))
    BY <2>1, BundleNoWorse
  <2>4. QED
    BY <2>2, <2>3 DEF NoWorse, EvaluateAll, EvaluatePrinciple, RegoFindings
<1>2. Spec => [][Step]_submission
  <2> HIDE DEF Step
  <2>1. QED
    BY <1>1, TypeInvariant, PTL
<1>3. QED
  BY <1>2 DEF DeclaringNeverHurts
====
