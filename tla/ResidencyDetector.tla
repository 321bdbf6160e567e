---- MODULE ResidencyDetector ----
(***************************************************************************)
(* The deterministic residency rules (domain/residency/detector.py), the   *)
(* gate verdict (verdict.py) and the review rule (hitl.py) over what they  *)
(* find.                                                                   *)
(*                                                                         *)
(* The detector strips every text it reads and folds the case of attribute *)
(* values and of the global tokens, so an attribute value is the class it  *)
(* falls in and a region is a name; only the comparison with the allowed   *)
(* regions is sensitive to case.                                           *)
(***************************************************************************)
EXTENDS IntakeDomain

CONSTANT LowerCase    \* str.lower, on the region names

ASSUME CaseAssumption == LowerCase \in [Region -> Region] /\ LowerCase[Blank] = Blank

ResidencyControl == {"cmek", "vpc_sc", "no_public_egress", "no_global_endpoint"}

ResidencyPolicy ==
    [allowed_regions   : SUBSET (Region \ {Blank}),
     required_controls : SUBSET ResidencyControl,
     gate_severity     : Severity]

DataResourceTypes ==
    {"google_storage_bucket", "google_bigquery_dataset", "google_bigquery_table",
     "google_sql_database_instance", "google_alloydb_cluster", "google_alloydb_instance",
     "google_spanner_instance", "google_spanner_database", "google_firestore_database",
     "google_bigtable_instance", "google_pubsub_topic", "google_redis_instance",
     "google_filestore_instance", "google_dataproc_cluster", "google_kms_key_ring",
     "google_logging_project_bucket_config", "google_discovery_engine_data_store",
     "google_vertex_ai_index"}

\* Every type without a data taxonomy entry is graded alike.
ResourceType == DataResourceTypes \cup {"google_compute_instance"}

GlobalRegionTokens ==
    {"global", "us", "eu", "asia", "us-central1-and-multi", "nam", "multi-region"}

CmekKeys ==
    {"kms_key_name", "kms_key_id", "encryption_key", "customer_managed_key", "cmek_key", "kms_key"}

PublicEgressTrueKeys ==
    {"public_access", "publicly_accessible", "ipv4_enabled", "assign_public_ip",
     "allow_public_egress"}

VpcScKeys == {"service_perimeter", "vpc_sc_perimeter", "access_policy"}

\* Spelled as the asset inventory spells them; no rule reads these.
LiveKeys == {"kmsKeyName", "publicAccessPrevention", "ipv4Enabled"}

ControlKeys == CmekKeys \cup PublicEgressTrueKeys \cup VpcScKeys \cup {"public_access_prevention"}

\* "true" and "false" stand for every spelling of them, "absent" for no entry.
AttributeValue == {Blank, "true", "false", "inherited", "other", "absent"}

Resource ==
    [type       : ResourceType,
     region     : Region \cup {NoRegion},
     attributes : [ControlKeys \cup LiveKeys -> AttributeValue]]

ViolationKind ==
    {"region_not_allowed", "residency_control_missing", "global_endpoint", "missing_cmek",
     "public_egress", "unknown_region"}

KindSeverity(kind) ==
    CASE kind \in {"region_not_allowed", "global_endpoint"}           -> "critical"
      [] kind \in {"unknown_region", "missing_cmek", "public_egress"} -> "high"
      [] OTHER                                                        -> "medium"

----------------------------------------------------------------------------
IsData(resource) == resource.type \in DataResourceTypes

IsUnknown(region) == region \in {NoRegion, Blank}

\* A bug to catch: the token is compared as it is written.
IsGlobalAsWritten(region) == region \in GlobalRegionTokens

IsGlobal(region) == LowerCase[region] \in GlobalRegionTokens

\* A bug to catch: a policy that lists no region allows every one.
AllowedUnlessUnset(region, policy) ==
    policy.allowed_regions = {} \/ region \in policy.allowed_regions

IsRegionAllowed(region, policy) == region \in policy.allowed_regions

Evidenced(attrs, keys) == \E k \in keys : attrs[k] \notin {"absent", Blank}

\* A bug to catch: only a control that is prevented says so.
HasPublicEgressUnlessEnforced(attrs) ==
    \/ \E k \in PublicEgressTrueKeys : attrs[k] = "true"
    \/ attrs["public_access_prevention"] = "other"

HasPublicEgress(attrs) ==
    \/ \E k \in PublicEgressTrueKeys : attrs[k] = "true"
    \/ attrs["public_access_prevention"] \in {"false", "inherited"}

\* The region rules, of which the first that fits is applied. A global location
\* is one whatever the policy allows or requires.
RegionViolations(resource, policy) ==
    {kind \in ViolationKind :
        \/ kind = "unknown_region" /\ IsUnknown(resource.region) /\ IsData(resource)
        \/ /\ kind = "global_endpoint"
           /\ ~IsUnknown(resource.region) /\ IsGlobal(resource.region)
        \/ /\ kind = "region_not_allowed"
           /\ ~IsUnknown(resource.region) /\ ~IsGlobal(resource.region)
           /\ ~IsRegionAllowed(resource.region, policy)}

\* _control_checks
ControlViolations(attrs, policy) ==
    {kind \in ViolationKind :
        \/ /\ kind = "missing_cmek"
           /\ "cmek" \in policy.required_controls /\ ~Evidenced(attrs, CmekKeys)
        \/ /\ kind = "public_egress"
           /\ "no_public_egress" \in policy.required_controls /\ HasPublicEgress(attrs)
        \/ /\ kind = "residency_control_missing"
           /\ "vpc_sc" \in policy.required_controls /\ ~Evidenced(attrs, VpcScKeys)}

\* _detect_one: the kinds of violation of one resource.
DetectOne(resource, policy) ==
    RegionViolations(resource, policy)
        \cup IF IsData(resource) THEN ControlViolations(resource.attributes, policy) ELSE {}

\* detect: the kinds of violation of an estate.
Detect(resources, policy) == UNION {DetectOne(resource, policy) : resource \in resources}

----------------------------------------------------------------------------
GatingViolations(kinds, gate) ==
    {kind \in kinds : SeverityRank(KindSeverity(kind)) >= SeverityRank(gate)}

\* compute_verdict
Passes(kinds, policy) == GatingViolations(kinds, policy.gate_severity) = {}

\* HumanReviewPolicy.requires_review: a floor of its own, whatever the gate is.
NeedsReview(kinds) == \E kind \in kinds : KindSeverity(kind) \in HighSeverity
====
