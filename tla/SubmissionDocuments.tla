---- MODULE SubmissionDocuments ----
(***************************************************************************)
(* The JSON document that describes a project, and the submission each of  *)
(* the five entry points reads out of it: POST /validate (api/schemas.py), *)
(* the commands (cli/main.py), the agent's tools (agent/tools.py), the MCP *)
(* server (mcp/server.py) and the golden set of the evaluation gate        *)
(* (eval/run_eval.py). Each has conversions of its own.                    *)
(***************************************************************************)
EXTENDS PrinciplesEval

Flags == {"uses_pii", "uses_rag", "uses_fine_tuning", "has_exit_plan"}

\* A key that is left out is "absent" (for the region NoRegion, for the controls
\* the empty list), a null is "null", and "text" is a text where the schema has
\* another type: for a flag the text "false".
Document ==
    [object            : BOOLEAN,    \* whether it is a JSON object at all
     named             : BOOLEAN,    \* id and name are there, and not empty
     declared_region   : Text(Region) \cup {NoRegion},
     controls_form     : {"list", "null", "text"},
     declared_controls : SUBSET Text(Control),
     attributes        : [AttributeKey -> Text(AttributeWord)],
     flags             : [Flags -> {"absent", "true", "false", "null", "text"}]]

\* The flags that are true. bool() of what json decodes: a text that is not empty
\* is.
Truthy(d) == {f \in Flags : d.flags[f] \in {"true", "text"}}

\* pydantic reads the text for what it says.
Coerced(d) == {f \in Flags : d.flags[f] = "true"}

\* tuple(x or ()): the characters of a text name no control.
Listed(d) == IF d.controls_form = "list" THEN d.declared_controls ELSE {}

Unattributed == [k \in AttributeKey |-> [word |-> "other", padded |-> FALSE]]

SubmissionOf(d, attributes, raised) ==
    [declared_controls |-> Listed(d),
     declared_region   |-> d.declared_region,
     attributes        |-> attributes,
     uses_pii          |-> "uses_pii" \in raised,
     uses_rag          |-> "uses_rag" \in raised,
     uses_fine_tuning  |-> "uses_fine_tuning" \in raised,
     has_exit_plan     |-> "has_exit_plan" \in raised]

\* What the domain defaults make of an object without a key.
EmptyDocument ==
    [object |-> TRUE, named |-> FALSE, declared_region |-> NoRegion,
     controls_form |-> "list", declared_controls |-> {}, attributes |-> Unattributed,
     flags |-> [f \in Flags |-> "absent"]]

----------------------------------------------------------------------------
\* SubmissionModel: whatever has the wrong type is a 422.
SchemaRefuses(d) ==
    \/ ~d.object \/ ~d.named
    \/ d.controls_form # "list"
    \/ \E f \in Flags : d.flags[f] = "null"

FromRequest(d) == SubmissionOf(d, d.attributes, Coerced(d))

\* A bug to catch: an object without the key has an exit plan.
FromFileOptimistic(d) ==
    [SubmissionOf(d, d.attributes, Truthy(d)) EXCEPT
        !.has_exit_plan = d.flags["has_exit_plan"] # "false"]

\* _load_submission of the commands.
FromFile(d) == SubmissionOf(d, d.attributes, Truthy(d))

\* _to_submission of the agent's tools.
FromArguments(d) == SubmissionOf(d, d.attributes, Truthy(d))

\* _submission_from of the golden set.
FromGolden(d) == SubmissionOf(d, d.attributes, Truthy(d))

\* _submission of the MCP server: refuses nothing, and reads no attributes.
FromTool(d) ==
    LET read == IF d.object THEN d ELSE EmptyDocument
    IN  SubmissionOf(read, Unattributed, Truthy(read))

\* A document with the types the request schema asks for.
Typed(d) == ~SchemaRefuses(d) /\ \A f \in Flags : d.flags[f] # "text"
====
