---- MODULE IntakeGate ----
(***************************************************************************)
(* What the intake gate promises, seen from outside: every request gets at *)
(* most one verdict; the verdict is on the audit trail, if it gets there,  *)
(* before the hand-off to the human checkers; and what the caller is told  *)
(* about that hand-off is true.                                            *)
(***************************************************************************)

CONSTANT Request

VARIABLES
    verdict,    \* the verdict reached for a request, or "none"
    recorded,   \* the pairs <<request, decision>> on the audit trail
    queued,     \* the requests whose report is queued for a human checker
    answer      \* what the caller was told, or "none"

vars == <<verdict, recorded, queued, answer>>

Init ==
    /\ verdict = [r \in Request |-> "none"]
    /\ recorded = {}
    /\ queued = {}
    /\ answer = [r \in Request |-> "none"]

Undecided(r) == verdict[r] = "none" /\ answer[r] = "none"

Pending(r) == verdict[r] # "none" /\ answer[r] = "none"

Decide(r) ==
    /\ Undecided(r)
    /\ \E v \in {"passed", "blocked"} : verdict' = [verdict EXCEPT ![r] = v]
    /\ UNCHANGED <<recorded, queued, answer>>

\* No request is decided: it ends in an error and leaves nothing behind.
Fail(r) ==
    /\ Undecided(r)
    /\ answer' = [answer EXCEPT ![r] = "error"]
    /\ UNCHANGED <<verdict, recorded, queued>>

Record(r) ==
    /\ Pending(r)
    /\ r \notin queued
    /\ \A entry \in recorded : entry[1] # r
    /\ recorded' = recorded
           \cup {<<r, IF verdict[r] = "passed" THEN "ALLOWED" ELSE "ESCALATED">>}
    /\ UNCHANGED <<verdict, queued, answer>>

\* A hand-off that was reported as failed, or whose request was lost, may still
\* arrive; one that was reported as switched off never does.
Queue(r) ==
    /\ verdict[r] # "none"
    /\ answer[r] \in {"none", "failed", "lost"}
    /\ r \notin queued
    /\ queued' = queued \cup {r}
    /\ UNCHANGED <<verdict, recorded, answer>>

Answer(r) ==
    /\ Pending(r)
    /\ \E routing \in {"routed", "failed", "off"} :
           /\ routing = "routed" => r \in queued
           /\ routing = "off" => r \notin queued
           /\ answer' = [answer EXCEPT ![r] = routing]
    /\ UNCHANGED <<verdict, recorded, queued>>

\* The process stops while it works on some requests: none of them is answered.
Lose(lost) ==
    /\ lost # {}
    /\ \A r \in lost : answer[r] = "none"
    /\ answer' = [r \in Request |-> IF r \in lost THEN "lost" ELSE answer[r]]
    /\ UNCHANGED <<verdict, recorded, queued>>

Next ==
    \/ \E r \in Request : Decide(r) \/ Fail(r) \/ Record(r) \/ Queue(r) \/ Answer(r)
    \/ \E lost \in SUBSET Request : Lose(lost)

Spec == Init /\ [][Next]_vars
====
