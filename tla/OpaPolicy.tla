---- MODULE OpaPolicy ----
(***************************************************************************)
(* The HTTP client of the managed policy engine                            *)
(* (adapters/gcp/opa_policy.py): what OpaPolicyAdapter.evaluate returns or *)
(* raises for each answer the OPA data API can give.                       *)
(*                                                                         *)
(* An answer is a record. Its kind is                                      *)
(*   "unreachable"  a transport error, or a status outside 2xx             *)
(*   "malformed"    a 2xx body that is not JSON, or a non-empty scalar or   *)
(*                  array                                                  *)
(*   "no_findings"  an object whose result holds no findings array         *)
(*   "findings"     an object that does, and raw is that array.            *)
(* A raw finding says whether it is an object; a blank principle_id is Blank. *)
(***************************************************************************)
EXTENDS RegoPolicy, Sequences

RawFinding ==
    [object       : BOOLEAN,
     principle_id : PrincipleRef \cup {Blank},
     status       : CheckStatus \cup {"other"},
     severity     : Severity \cup {"other"}]

OpaAnswer ==
    [kind : {"unreachable", "malformed", "no_findings"}]
        \cup [kind : {"findings"}, raw : Seq(RawFinding)]

\* The answer of a healthy OPA that serves the bundle of this repository.
BundleAnswer(s, allowed) ==
    [kind |-> "findings",
     raw  |-> [i \in 1..12 |->
                 [object       |-> TRUE,
                  principle_id |-> RegoFindings(s, allowed)[i].principle_id,
                  status       |-> RegoFindings(s, allowed)[i].status,
                  severity     |-> RegoFindings(s, allowed)[i].severity]]]

\* A bug to catch: a status the service does not know is passed on as it came.
ParseVerbatim(raw) ==
    [i \in {i \in DOMAIN raw : raw[i].object /\ raw[i].principle_id # Blank} |->
        [principle_id |-> raw[i].principle_id,
         status       |-> raw[i].status,
         severity     |-> raw[i].severity]]

\* _parse_findings: entries that are not objects or name no principle are
\* dropped; an unknown status or severity becomes the cautious default.
ParseFindings(raw) ==
    [i \in {i \in DOMAIN raw : raw[i].object /\ raw[i].principle_id # Blank} |->
        [principle_id |-> raw[i].principle_id,
         status       |-> IF raw[i].status \in CheckStatus THEN raw[i].status ELSE "NEEDS_INFO",
         severity     |-> IF raw[i].severity \in Severity THEN raw[i].severity ELSE "medium"]]

\* The answers on which evaluate raises PolicyEvaluationError.
RaisesPolicyError(answer) == answer.kind \in {"unreachable", "no_findings"}

\* response.json() and the lookups on its value are not guarded: another exception.
RaisesOther(answer) == answer.kind = "malformed"
====
