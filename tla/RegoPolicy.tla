---- MODULE RegoPolicy ----
(***************************************************************************)
(* The rego bundle OPA evaluates on the managed path                       *)
(* (policies/principles.rego, assembled by policies/validate.rego). It is  *)
(* written here from the rego text, independently of PrinciplesEval, so    *)
(* that the two can be compared.                                           *)
(***************************************************************************)
EXTENDS IntakeDomain

\* has_control: lower-cased, never stripped.
RegoHas(s, control) == [word |-> control, padded |-> FALSE] \in s.declared_controls

\* region_exception: lower-cased, never stripped.
RegoException(s) == s.attributes["region_exception"] = [word |-> "signed", padded |-> FALSE]

RegoVerdict(status, severity) == [status |-> status, severity |-> severity]

Rego01(s) == RegoVerdict(IF RegoHas(s, "vpc_sc") THEN "PASS" ELSE "FAIL", "high")

Rego02(s) == RegoVerdict(IF RegoHas(s, "ports_and_adapters") THEN "PASS" ELSE "FAIL", "medium")

\* `not region` holds only when declared_region is undefined or false, and the
\* adapter always sends it, as null when it is None: the first rule never fires.
Rego03(s, allowed) ==
    IF \/ \E a \in allowed : s.declared_region = [word |-> a, padded |-> FALSE]
       \/ RegoException(s)
    THEN RegoVerdict("PASS", "high")
    ELSE RegoVerdict("FAIL", "critical")

Rego04(s) ==
    IF ~s.uses_pii THEN RegoVerdict("NOT_APPLICABLE", "low")
    ELSE RegoVerdict(IF RegoHas(s, "dlp") THEN "PASS" ELSE "NEEDS_INFO", "high")

Rego05(s) ==
    CASE s.uses_fine_tuning /\ s.uses_pii                 -> RegoVerdict("FAIL", "critical")
      [] s.uses_fine_tuning /\ ~s.uses_pii /\ ~s.uses_rag -> RegoVerdict("NEEDS_INFO", "medium")
      [] OTHER                                            -> RegoVerdict("PASS", "medium")

Rego06(s) == RegoVerdict(IF RegoHas(s, "maker_checker") THEN "PASS" ELSE "FAIL", "high")

Rego07(s) ==
    IF ~RegoHas(s, "audit_logging") THEN RegoVerdict("FAIL", "high")
    ELSE IF ~RegoHas(s, "model_card") THEN RegoVerdict("NEEDS_INFO", "medium")
    ELSE RegoVerdict("PASS", "high")

Rego08(s) == RegoVerdict(IF RegoHas(s, "eval_gate") THEN "PASS" ELSE "FAIL", "high")

\* A bug to catch: an unconfirmed least-privilege IAM blocks on this path only.
Rego09Hard(s) ==
    RegoVerdict(IF RegoHas(s, "cmek") /\ RegoHas(s, "least_privilege_iam") THEN "PASS" ELSE "FAIL",
                "high")

Rego09(s) ==
    IF ~RegoHas(s, "cmek") THEN RegoVerdict("FAIL", "high")
    ELSE IF ~RegoHas(s, "least_privilege_iam") THEN RegoVerdict("NEEDS_INFO", "medium")
    ELSE RegoVerdict("PASS", "high")

Rego10(s) ==
    RegoVerdict(IF \E c \in {"kill_switch", "circuit_breaker"} : RegoHas(s, c)
                THEN "PASS" ELSE "NEEDS_INFO", "high")

Rego11(s) ==
    RegoVerdict(IF \E c \in {"model_routing", "caching", "token_budget"} : RegoHas(s, c)
                THEN "PASS" ELSE "NEEDS_INFO", "low")

Rego12(s) == RegoVerdict(IF s.has_exit_plan THEN "PASS" ELSE "FAIL", "medium")

RegoCheck(s, id, allowed) ==
    CASE id = "P-01" -> Rego01(s) [] id = "P-02" -> Rego02(s) [] id = "P-03" -> Rego03(s, allowed)
      [] id = "P-04" -> Rego04(s) [] id = "P-05" -> Rego05(s) [] id = "P-06" -> Rego06(s)
      [] id = "P-07" -> Rego07(s) [] id = "P-08" -> Rego08(s) [] id = "P-09" -> Rego09(s)
      [] id = "P-10" -> Rego10(s) [] id = "P-11" -> Rego11(s) [] OTHER -> Rego12(s)

\* `findings`: p01..p12 in order, each with its id, status and severity.
RegoFindings(s, allowed) ==
    [i \in 1..12 |->
        [principle_id |-> PrincipleIds[i],
         status       |-> RegoCheck(s, PrincipleIds[i], allowed).status,
         severity     |-> RegoCheck(s, PrincipleIds[i], allowed).severity]]
====
