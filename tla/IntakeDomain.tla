---- MODULE IntakeDomain ----
(***************************************************************************)
(* The value types of the intake gate (domain/models.py, domain/kernel.py) *)
(* and its two verdict rules (domain/hitl.py).                             *)
(*                                                                         *)
(* A text that the code normalises before it compares it (a control, an    *)
(* attribute value, a region) is a record: its content, and whether blanks *)
(* surround it, which one policy engine strips and the other does not.     *)
(* Both engines fold the case of controls and attribute values, so the     *)
(* content of those is already in lower case.                              *)
(*                                                                         *)
(* A list of findings is a function from positions to findings: positions  *)
(* keep the order, and a position that is missing is an entry that was     *)
(* dropped on the way in.                                                  *)
(***************************************************************************)
EXTENDS Integers, FiniteSets

CONSTANTS
    Region,    \* the region names a submission or the policy can hold
    NoRegion   \* declared_region = None (JSON null)

\* What is left of a text that is empty or only blanks.
Blank == ""

Text(words) == [word : words, padded : BOOLEAN]

ASSUME RegionAssumption ==
    /\ Blank \in Region                     \* a region that is only blanks
    /\ NoRegion \notin Text(Region)

Control ==
    {"vpc_sc", "ports_and_adapters", "dlp", "maker_checker", "audit_logging",
     "model_card", "eval_gate", "cmek", "least_privilege_iam", "kill_switch",
     "circuit_breaker", "model_routing", "caching", "token_budget"}

AttributeKey == {"documented_fallback", "region_exception"}

\* An attribute value that is not one of the accepted words reads like an
\* absent one.
AttributeWord == {"signed", "other"}

Submission ==
    [declared_controls : SUBSET Text(Control),
     declared_region   : Text(Region) \cup {NoRegion},
     attributes        : [AttributeKey -> Text(AttributeWord)],
     uses_pii          : BOOLEAN,
     uses_rag          : BOOLEAN,
     uses_fine_tuning  : BOOLEAN,
     has_exit_plan     : BOOLEAN]

PrincipleIds ==
    <<"P-01", "P-02", "P-03", "P-04", "P-05", "P-06",
      "P-07", "P-08", "P-09", "P-10", "P-11", "P-12">>

Principles == {PrincipleIds[i] : i \in 1..12}

\* An identifier a policy engine can put on a finding: the rego bundle is data,
\* so it may name a principle the catalogue does not hold.
PrincipleRef == Principles \cup {"unlisted"}

CheckStatus == {"PASS", "FAIL", "NEEDS_INFO", "NOT_APPLICABLE"}

Severity == {"low", "medium", "high", "critical"}

SeverityRank(s) ==
    CASE s = "low" -> 0 [] s = "medium" -> 1 [] s = "high" -> 2 [] OTHER -> 3

Finding == [principle_id : PrincipleRef, status : CheckStatus, severity : Severity]

IsFindings(f) ==
    /\ f = [i \in DOMAIN f |-> f[i]]
    /\ DOMAIN f \subseteq Nat
    /\ IsFiniteSet(DOMAIN f)
    /\ \A i \in DOMAIN f : f[i] \in Finding

HighSeverity == {"high", "critical"}

UnmetStatus == {"FAIL", "NEEDS_INFO"}

\* The positions of the findings that need a requirement, in finding order.
Unmet(findings) == {i \in DOMAIN findings : findings[i].status \in UnmetStatus}

\* ReviewPolicy.passed
Passed(findings) == \A i \in DOMAIN findings : findings[i].status # "FAIL"

\* A bug to catch: only a report with an open risk is reviewed.
RequiresReviewOnRisk(findings) ==
    \E i \in Unmet(findings) :
        findings[i].status = "FAIL" \/ findings[i].severity \in HighSeverity

\* ReviewPolicy.requires_review: an immutable floor, whatever the findings are.
RequiresReview(findings) == TRUE
====
