---- MODULE RequirementInjection ----
(***************************************************************************)
(* Auto-injected non-functional requirements                               *)
(* (domain/injection_service.py, domain/_grounded.py): for each unmet      *)
(* finding the requirement the model drafted, or the deterministic one.    *)
(*                                                                         *)
(* The model's reply is a record whose kind is "raised" (the call failed), *)
(* "unusable" (no items list could be read out of it) or "items". An item  *)
(* says whether it is an object and whether its text is there; a severity  *)
(* the service does not know is "other", and a source it does not hold is  *)
(* "invented".                                                             *)
(***************************************************************************)
EXTENDS IntakeDomain, Sequences
Sets == INSTANCE FiniteSetsExt

CONSTANT Source    \* what the knowledge base and the sibling services can cite

\* A finding cites its own principle.
SourceId == PrincipleRef \cup Source

ModelItem ==
    [object       : BOOLEAN,
     principle_id : PrincipleRef \cup {Blank},
     text         : BOOLEAN,
     severity     : Severity \cup {"other"},
     used         : SUBSET (SourceId \cup {"invented"})]

ModelReply == [kind : {"raised", "unusable"}] \cup [kind : {"items"}, items : Seq(ModelItem)]

ASSUME SourceAssumption == "invented" \notin SourceId

Requirement ==
    [principle_id : PrincipleRef, severity : Severity, citations : SUBSET SourceId]

\* unmet_by_id: of two unmet findings of one principle the later one is kept.
Owner(findings, id) == Sets!Max({i \in Unmet(findings) : findings[i].principle_id = id})

\* The items that become a draft for principle id.
Drafts(findings, reply, id) ==
    IF reply.kind # "items" \/ ~ \E i \in Unmet(findings) : findings[i].principle_id = id
    THEN {}
    ELSE {k \in DOMAIN reply.items : /\ reply.items[k].object
                                     /\ reply.items[k].text
                                     /\ reply.items[k].principle_id = id}

\* A bug to catch: whatever the model says it used is cited, or nothing.
CitedVerbatim(used, available) == used

\* citations_for_source_ids: invented sources are dropped, and a requirement
\* that names none we hold cites them all.
Cited(used, available) ==
    IF used \cap available # {} THEN used \cap available ELSE available

\* _draft_with_llm: of two drafts for one principle the later one is kept.
Drafted(findings, kb, reply, id) ==
    LET item == reply.items[Sets!Max(Drafts(findings, reply, id))]
    IN  [principle_id |-> id,
         severity     |-> IF item.severity \in Severity THEN item.severity
                          ELSE findings[Owner(findings, id)].severity,
         citations    |-> Cited(item.used, {id} \cup kb)]

\* _fallback_requirement
Fallback(finding, kb) ==
    [principle_id |-> finding.principle_id,
     severity     |-> finding.severity,
     citations    |-> {finding.principle_id} \cup kb]

\* A bug to catch: a principle the model skipped is left without a requirement.
InjectDraftedOnly(findings, kb, reply) ==
    [i \in {i \in Unmet(findings) : Drafts(findings, reply, findings[i].principle_id) # {}} |->
        Drafted(findings, kb, reply, findings[i].principle_id)]

\* inject: one requirement per unmet finding, in finding order.
Inject(findings, kb, reply) ==
    [i \in Unmet(findings) |->
        IF Drafts(findings, reply, findings[i].principle_id) # {}
        THEN Drafted(findings, kb, reply, findings[i].principle_id)
        ELSE Fallback(findings[i], kb)]
====
