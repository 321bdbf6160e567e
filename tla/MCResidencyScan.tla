---- MODULE MCResidencyScan ----
(* Constants for checking the residency scan with TLC. *)
EXTENDS ScanProperties

CONSTANT s1    \* the scan, as a model value

MCRegion == {Blank, "other", "asia-southeast1", "us-east1"}
MCLower == [r \in MCRegion |-> r]

Bucket(region, key) ==
    [type |-> "google_storage_bucket", region |-> region,
     attributes |-> [NoAttributes EXCEPT !["kms_key_name"] = key,
                                         !["service_perimeter"] = key]]

\* No violation; one of high severity; a critical one.
Good == Bucket("asia-southeast1", "other")
Keyless == Bucket("asia-southeast1", "absent")
Abroad == Bucket("us-east1", "other")

Policy(required, gate) ==
    [allowed_regions |-> {"asia-southeast1"}, required_controls |-> required,
     gate_severity |-> gate]

\* The first fails a scan no review is asked for, the second passes one it is.
MCPolicies == {Policy({"vpc_sc"}, "medium"), Policy({"cmek"}, "critical")}

MCContents == {{Good}, {Keyless}}

Entry(resource, usable) == [usable |-> usable, resource |-> resource]

Module(entries, children) == [entries |-> entries, children |-> children]

Plan(modules) == [kind |-> "plan", resource_changes |-> TRUE, modules |-> modules]

NoPlan(kind) == [kind |-> kind, resource_changes |-> FALSE, modules |-> << >>]

Call(entry, given, target, doc, estate) ==
    [entry |-> entry, given |-> given, target |-> target, doc |-> doc, estate |-> estate]

Broken == NoPlan("invalid")

\* A plan whose offending resource is called from a called module, beside junk.
Deep ==
    Plan(<<Module({Entry(Good, TRUE)}, {2}), Module({Entry(Abroad, FALSE)}, {3}),
           Module({Entry(Abroad, TRUE)}, {})>>)

MCCalls ==
    {Call("cli", {"dir"}, "directory", Broken, {}), Call("api", {}, "missing", Broken, {}),
     Call("cli", {"plan"}, "plan", Deep, {}),
     Call("cli", {"plan"}, "plan", Broken, {}), Call("cli", {"plan"}, "missing", Broken, {}),
     Call("api", {"plan_json", "target"}, "missing", Plan(<< >>), {}),
     Call("api", {"resources", "plan_json"}, "missing", Deep, {Good, Keyless}),
     Call("api", {"target"}, "scope", Broken, {Abroad}),
     Call("cli", {"project"}, "missing", Broken, {Abroad}),
     Call("cli", {"plan", "dir"}, "plan", Deep, {})}

OneScan == {s1}
TwoFiles == 1..2
TwoGoodFiles == {[f \in TwoFiles |-> [status |-> "text", resources |-> {Good}]]}
AllProfiles == {"local", "gcp", "onprem"}
====
