---- MODULE PrincipleRevision ----
(***************************************************************************)
(* A project revises its submission and asks for a verdict again: the      *)
(* ruleset as an in-process evaluator (PrinciplesEval), as the rego bundle *)
(* of the policy service (RegoPolicy) and as a published catalogue         *)
(* (PrincipleCatalogue), compared on every submission that revisions lead  *)
(* to.                                                                     *)
(***************************************************************************)
EXTENDS PrinciplesEval, RegoPolicy, PrincipleCatalogue

CONSTANTS
    AllowedRegions,   \* settings.policy.allowed_regions
    FirstDrafts,      \* the submissions a project starts from
    Offered,          \* the controls a revision declares or withdraws
    Regions,          \* the regions a revision moves to
    Signatures        \* the attribute values a revision sets

ASSUME RevisionAssumption ==
    /\ AllowedRegions \subseteq Region \ {Blank}
    /\ FirstDrafts \subseteq Submission
    /\ Offered \subseteq Text(Control)
    /\ Regions \subseteq Text(Region) \cup {NoRegion}
    /\ Signatures \subseteq Text(AttributeWord)

VARIABLE submission

Init == submission \in FirstDrafts

Declare(control) ==
    submission' = [submission EXCEPT !.declared_controls = @ \cup {control}]

Withdraw(control) ==
    submission' = [submission EXCEPT !.declared_controls = @ \ {control}]

MoveTo(region) == submission' = [submission EXCEPT !.declared_region = region]

Sign(key, value) == submission' = [submission EXCEPT !.attributes[key] = value]

Redesign(pii, rag, tuning, exit) ==
    submission' = [submission EXCEPT !.uses_pii = pii, !.uses_rag = rag,
                                     !.uses_fine_tuning = tuning, !.has_exit_plan = exit]

Next ==
    \/ \E control \in Offered : Declare(control) \/ Withdraw(control)
    \/ \E region \in Regions : MoveTo(region)
    \/ \E key \in AttributeKey, value \in Signatures : Sign(key, value)
    \/ \E pii, rag, tuning, exit \in BOOLEAN : Redesign(pii, rag, tuning, exit)

Spec == Init /\ [][Next]_submission

----------------------------------------------------------------------------
TypeOK == submission \in Submission

\* The evaluator gives exactly one finding per principle, in order, with the
\* status the published machine rules give it (principles.py:26-150): the rules
\* a project reads at GET /principles are the rules it is held to.
FollowsCatalogue ==
    LET all == EvaluateAll(submission, AllowedRegions)
    IN  /\ DOMAIN all = 1..12
        /\ \A i \in 1..12 :
               /\ all[i].principle_id = PrincipleIds[i]
               /\ all[i].status = CatalogueStatus(submission, PrincipleIds[i], AllowedRegions)

\* What both engines read alike: no text carries blanks, a region is declared,
\* and a documented fallback is claimed only beside ports-and-adapters.
CommonDomain(s) ==
    /\ \A c \in s.declared_controls : ~c.padded
    /\ DeclaresRegion(s) /\ ~s.declared_region.padded
    /\ ~s.attributes["region_exception"].padded
    /\ AttrTrue(s, "documented_fallback") => Has(s, "ports_and_adapters")

\* On that domain the policy service and its fallback agree on every status and
\* every severity, so an outage of the policy service changes neither a verdict
\* nor the approvals its review asks for.
LockstepOnCommonDomain ==
    CommonDomain(submission) =>
        RegoFindings(submission, AllowedRegions) = EvaluateAll(submission, AllowedRegions)

StatusRank(status) == CASE status = "FAIL" -> 2 [] status = "NEEDS_INFO" -> 1 [] OTHER -> 0

NoWorse(new, old) ==
    /\ StatusRank(new.status) <= StatusRank(old.status)
    /\ new.status \in UnmetStatus => SeverityRank(new.severity) <= SeverityRank(old.severity)

OnlyDeclaresMore ==
    /\ submission.declared_controls # submission'.declared_controls
    /\ submission.declared_controls \subseteq submission'.declared_controls
    /\ submission' = [submission EXCEPT !.declared_controls = submission'.declared_controls]

\* Declaring one more control never worsens a finding, on either engine: no
\* project gets a harder verdict for declaring what it has.
DeclaringNeverHurts ==
    [][OnlyDeclaresMore =>
          \A i \in 1..12 :
              /\ NoWorse(EvaluateAll(submission', AllowedRegions)[i],
                         EvaluateAll(submission, AllowedRegions)[i])
              /\ NoWorse(RegoFindings(submission', AllowedRegions)[i],
                         RegoFindings(submission, AllowedRegions)[i])]_submission

\* policies/principles.rego:3-5: "The rules mirror domain/principles_eval.py
\* one-for-one so the OPA (managed) path and the deterministic in-process path
\* produce identical verdicts".
IdenticalVerdicts ==
    Passed(RegoFindings(submission, AllowedRegions))
        = Passed(EvaluateAll(submission, AllowedRegions))
====
