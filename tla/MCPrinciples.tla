---- MODULE MCPrinciples ----
(* Constants for checking the ruleset with TLC. *)
EXTENDS PrincipleRevision

MCRegion == {Blank, "asia-southeast1", "us-east1"}
MCAllowed == {"asia-southeast1"}
MCRegions == {NoRegion} \cup Text({"asia-southeast1"})
               \cup {[word |-> w, padded |-> FALSE] : w \in {Blank, "us-east1"}}

MCSignatures == Text({"signed"}) \cup {[word |-> "other", padded |-> FALSE]}

\* Controls that share a principle, one of them also with blanks around it.
MCOffered ==
    {[word |-> c, padded |-> FALSE] :
        c \in {"audit_logging", "model_card", "cmek", "least_privilege_iam",
               "kill_switch", "ports_and_adapters"}}
    \cup {[word |-> "cmek", padded |-> TRUE]}

\* A project that has declared the controls that stand alone, and nothing else.
MCDrafts ==
    {[declared_controls |->
          {[word |-> c, padded |-> FALSE] :
              c \in {"vpc_sc", "maker_checker", "eval_gate", "token_budget"}},
      declared_region |-> NoRegion,
      attributes |-> [k \in AttributeKey |-> [word |-> "other", padded |-> FALSE]],
      uses_pii |-> FALSE, uses_rag |-> FALSE, uses_fine_tuning |-> FALSE,
      has_exit_plan |-> FALSE]}
====
