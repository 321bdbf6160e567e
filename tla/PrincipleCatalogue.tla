---- MODULE PrincipleCatalogue ----
(***************************************************************************)
(* The machine_rule of each General Principle as the catalogue publishes   *)
(* it (domain/principles.py, served at GET /principles): when a principle  *)
(* FAILs, when more information is needed, when it does not apply. Written *)
(* from the rules, independently of the evaluator that applies them.       *)
(***************************************************************************)
EXTENDS IntakeDomain

DeclaredControls(s) == {c.word : c \in s.declared_controls}

\* P-03 holds a region against the project only when one is declared: what a
\* submission omits is NEEDS_INFO (principles_eval.py:11-13).
DeclaresRegion(s) == s.declared_region # NoRegion /\ s.declared_region.word # Blank

\* The principles whose rule is "FAIL if <control> not in declared_controls".
RequiredControl ==
    [id \in {"P-01", "P-06", "P-07", "P-08", "P-09"} |->
        CASE id = "P-01" -> "vpc_sc" [] id = "P-06" -> "maker_checker"
          [] id = "P-07" -> "audit_logging" [] id = "P-08" -> "eval_gate" [] OTHER -> "cmek"]

FailRule(s, id, allowed) ==
    \/ id \in DOMAIN RequiredControl /\ RequiredControl[id] \notin DeclaredControls(s)
    \/ /\ id = "P-02"
       /\ "ports_and_adapters" \notin DeclaredControls(s)
       /\ s.attributes["documented_fallback"].word # "signed"
    \/ /\ id = "P-03" /\ DeclaresRegion(s)
       /\ s.declared_region.word \notin allowed
       /\ s.attributes["region_exception"].word # "signed"
    \/ id = "P-05" /\ s.uses_fine_tuning /\ s.uses_pii
    \/ id = "P-12" /\ ~s.has_exit_plan

NeedsInfoRule(s, id) ==
    \/ id = "P-03" /\ ~DeclaresRegion(s)
    \/ id = "P-04" /\ s.uses_pii /\ "dlp" \notin DeclaredControls(s)
    \/ id = "P-05" /\ s.uses_fine_tuning /\ ~s.uses_rag
    \/ id = "P-07" /\ "model_card" \notin DeclaredControls(s)
    \/ id = "P-09" /\ "least_privilege_iam" \notin DeclaredControls(s)
    \/ id = "P-10" /\ DeclaredControls(s) \cap {"kill_switch", "circuit_breaker"} = {}
    \/ id = "P-11" /\ DeclaredControls(s) \cap {"model_routing", "caching", "token_budget"} = {}

\* A failing rule is reported before one that needs information.
CatalogueStatus(s, id, allowed) ==
    IF FailRule(s, id, allowed) THEN "FAIL"
    ELSE IF id = "P-04" /\ ~s.uses_pii THEN "NOT_APPLICABLE"
    ELSE IF NeedsInfoRule(s, id) THEN "NEEDS_INFO" ELSE "PASS"
====
