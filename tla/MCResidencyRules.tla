---- MODULE MCResidencyRules ----
(* Constants for checking the residency rules with TLC. *)
EXTENDS ResidencyRules

MCRegion == {Blank, "other", "asia-southeast1", "us-east1", "GLOBAL", "global"}
MCLower == [r \in MCRegion |-> IF r = "GLOBAL" THEN "global" ELSE r]

MCTypes == {"google_sql_database_instance", "google_compute_instance"}

Assign(key, value, form, block, deep) ==
    [key |-> key, value |-> value, form |-> form, block |-> block, deep |-> deep]

\* Regions in both spellings of a global token, in a nested block, left open,
\* left blank and left to a variable; a key, a perimeter and two egress settings
\* in the block, one level down, deeper, and commented out.
MCOffered ==
    {Assign("region", r, "literal", 0, FALSE) : r \in MCRegion \ {"other"}}
    \cup {Assign("region", "us-east1", f, 0, FALSE) : f \in {"null", "reference"}}
    \cup {Assign("location", r, "literal", 0, FALSE) : r \in {"asia-southeast1", "us-east1"}}
    \cup {Assign("location", "us-east1", "literal", 1, FALSE)}
    \cup {Assign("kms_key_name", v, "literal", b, FALSE) : v \in {Blank, "other"}, b \in 0..1}
    \cup {Assign("kms_key", "other", f, 0, FALSE) : f \in {"null", "comment"}}
    \cup {Assign("ipv4_enabled", v, "literal", b, FALSE) : v \in {"true", "false"}, b \in 0..2}
    \cup {Assign("ipv4_enabled", "true", "literal", 1, TRUE)}
    \cup {Assign("public_access_prevention", v, "literal", b, FALSE) :
             v \in {"inherited", "other"}, b \in 0..1}
    \cup {Assign("service_perimeter", "other", "literal", b, FALSE) : b \in 0..1}

Policy(allowed, required, gate) ==
    [allowed_regions |-> allowed, required_controls |-> required, gate_severity |-> gate]

Sg == {"asia-southeast1"}
Loose == Sg \cup {"us-east1", "GLOBAL"}

MCPolicies ==
    {Policy({}, {}, "critical"), Policy(Sg, {}, "critical"), Policy(Loose, {}, "critical"),
     Policy(Loose, {}, "high"), Policy(Sg, ResidencyControl, "critical"),
     Policy(Sg, ResidencyControl, "high"), Policy(Sg, ResidencyControl, "medium")}
====
