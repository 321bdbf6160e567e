---- MODULE PrinciplesEval ----
(***************************************************************************)
(* The deterministic in-process evaluator of the twelve General Principles *)
(* (domain/principles_eval.py): one finding per principle, from the        *)
(* declared controls, the declared region and the flags of a submission.   *)
(* It is the policy engine of the local profile and the fallback of the    *)
(* managed one.                                                            *)
(***************************************************************************)
EXTENDS IntakeDomain

\* _has: both sides are stripped and lower-cased.
Has(s, control) == \E c \in s.declared_controls : c.word = control

\* _attr_true: the value is stripped and lower-cased.
AttrTrue(s, key) == s.attributes[key].word = "signed"

Verdict(status, severity) == [status |-> status, severity |-> severity]

P01(s) == IF Has(s, "vpc_sc") THEN Verdict("PASS", "high") ELSE Verdict("FAIL", "high")

P02(s) ==
    IF Has(s, "ports_and_adapters") \/ AttrTrue(s, "documented_fallback")
    THEN Verdict("PASS", "medium")
    ELSE Verdict("FAIL", "medium")

\* (s.declared_region or "").strip()
StrippedRegion(s) == IF s.declared_region = NoRegion THEN Blank ELSE s.declared_region.word

\* A bug to catch: the missing region is not told apart from a foreign one.
P03ExceptionFirst(s, allowed) ==
    IF AttrTrue(s, "region_exception") \/ StrippedRegion(s) \in allowed \cup {Blank}
    THEN Verdict("PASS", "high")
    ELSE Verdict("FAIL", "critical")

P03(s, allowed) ==
    CASE StrippedRegion(s) = Blank           -> Verdict("NEEDS_INFO", "high")
      [] StrippedRegion(s) # Blank /\ StrippedRegion(s) \in allowed -> Verdict("PASS", "high")
      [] OTHER -> IF AttrTrue(s, "region_exception")
                  THEN Verdict("PASS", "high")
                  ELSE Verdict("FAIL", "critical")

P04(s) ==
    CASE ~s.uses_pii                   -> Verdict("NOT_APPLICABLE", "low")
      [] s.uses_pii /\ Has(s, "dlp")   -> Verdict("PASS", "high")
      [] OTHER                         -> Verdict("NEEDS_INFO", "high")

P05(s) ==
    CASE s.uses_fine_tuning /\ s.uses_pii                    -> Verdict("FAIL", "critical")
      [] s.uses_fine_tuning /\ ~s.uses_pii /\ ~s.uses_rag    -> Verdict("NEEDS_INFO", "medium")
      [] OTHER                                               -> Verdict("PASS", "medium")

P06(s) == IF Has(s, "maker_checker") THEN Verdict("PASS", "high") ELSE Verdict("FAIL", "high")

\* A bug to catch: the model card is looked for before the audit log.
P07CardFirst(s) ==
    CASE ~Has(s, "model_card")                              -> Verdict("NEEDS_INFO", "medium")
      [] Has(s, "model_card") /\ ~Has(s, "audit_logging")   -> Verdict("FAIL", "high")
      [] OTHER                                              -> Verdict("PASS", "high")

P07(s) ==
    CASE ~Has(s, "audit_logging")                           -> Verdict("FAIL", "high")
      [] Has(s, "audit_logging") /\ ~Has(s, "model_card")   -> Verdict("NEEDS_INFO", "medium")
      [] OTHER                                              -> Verdict("PASS", "high")

P08(s) == IF Has(s, "eval_gate") THEN Verdict("PASS", "high") ELSE Verdict("FAIL", "high")

P09(s) ==
    CASE ~Has(s, "cmek")                                    -> Verdict("FAIL", "high")
      [] Has(s, "cmek") /\ ~Has(s, "least_privilege_iam")   -> Verdict("NEEDS_INFO", "medium")
      [] OTHER                                              -> Verdict("PASS", "high")

\* A bug to catch: both resilience controls are asked for, not either.
P10Both(s) ==
    IF Has(s, "kill_switch") /\ Has(s, "circuit_breaker")
    THEN Verdict("PASS", "high")
    ELSE Verdict("NEEDS_INFO", "high")

P10(s) ==
    IF Has(s, "kill_switch") \/ Has(s, "circuit_breaker")
    THEN Verdict("PASS", "high")
    ELSE Verdict("NEEDS_INFO", "high")

P11(s) ==
    IF \E c \in {"model_routing", "caching", "token_budget"} : Has(s, c)
    THEN Verdict("PASS", "low")
    ELSE Verdict("NEEDS_INFO", "low")

P12(s) == IF s.has_exit_plan THEN Verdict("PASS", "medium") ELSE Verdict("FAIL", "medium")

\* _CHECKS: the check registered for a principle.
Check(s, id, allowed) ==
    CASE id = "P-01" -> P01(s) [] id = "P-02" -> P02(s) [] id = "P-03" -> P03(s, allowed)
      [] id = "P-04" -> P04(s) [] id = "P-05" -> P05(s) [] id = "P-06" -> P06(s)
      [] id = "P-07" -> P07(s) [] id = "P-08" -> P08(s) [] id = "P-09" -> P09(s)
      [] id = "P-10" -> P10(s) [] id = "P-11" -> P11(s) [] OTHER -> P12(s)

EvaluatePrinciple(s, id, allowed) ==
    [principle_id |-> id,
     status       |-> Check(s, id, allowed).status,
     severity     |-> Check(s, id, allowed).severity]

EvaluateAll(s, allowed) == [i \in 1..12 |-> EvaluatePrinciple(s, PrincipleIds[i], allowed)]
====
