---- MODULE ReviewHandoff ----
(***************************************************************************)
(* What goes to the two sinks of a validation report, and what is said     *)
(* about it: the audit record (ValidationService._audit_report), the       *)
(* review submitted to the maker-checker console                           *)
(* (adapters/_review_payload.py) and the outcome the recording router      *)
(* reports to the caller (adapters/controls.py).                           *)
(***************************************************************************)
EXTENDS IntakeDomain

Decision == {"ALLOWED", "BLOCKED", "ESCALATED"}

Routing == {"routed", "failed", "off", "not_required"}

\* A bug to catch: every report that needs a review is recorded as escalated.
AuditDecisionByReview(findings) == IF RequiresReview(findings) THEN "ESCALATED" ELSE "ALLOWED"

AuditDecision(findings) == IF Passed(findings) THEN "ALLOWED" ELSE "ESCALATED"

HigherOf(a, b) == IF SeverityRank(a) >= SeverityRank(b) THEN a ELSE b

OpenSeverities(findings) == {findings[i].severity : i \in Unmet(findings)}

\* _overall_severity: the most severe open finding, at least high on a FAIL.
OverallSeverity(findings) ==
    LET open == OpenSeverities(findings)
        most == IF open = {} THEN "low"
                ELSE CHOOSE s \in open : \A t \in open : SeverityRank(t) <= SeverityRank(s)
    IN  IF Passed(findings) THEN most ELSE HigherOf(most, "high")

\* A bug to catch: dual control only for a blocked intake.
ApprovalsOnFailOnly(findings) == IF Passed(findings) THEN 1 ELSE 2

\* required_approvals of report_to_review
Approvals(findings) ==
    IF ~Passed(findings) \/ OverallSeverity(findings) \in HighSeverity THEN 2 ELSE 1

\* RecordingReviewRouter.outcome: any failure wins, then off, then routed.
Outcome(outcomes) ==
    CASE "failed" \in outcomes                             -> "failed"
      [] "failed" \notin outcomes /\ "off" \in outcomes    -> "off"
      [] outcomes \cap {"failed", "off"} = {} /\ "routed" \in outcomes -> "routed"
      [] OTHER                                             -> "not_required"
====
