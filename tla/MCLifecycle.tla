----------------------------- MODULE MCLifecycle -----------------------------
(* Small deployments for TLC. *)
EXTENDS Lifecycle

CONSTANTS r1, r2

One == {r1}
Two == {r1, r2}

\* A complete S3 configuration with one folder and one replica.
Base ==
    [storage |-> "s3", given |-> {"S3_BUCKET"}, usersParse |-> TRUE, rulesParse |-> TRUE,
     autoCreate |-> TRUE, paths |-> <<<<1>>>>, existing |-> {}, files |-> {}, flaws |-> {},
     names |-> {<<1>>}, replicas |-> One]

Azure(given) == [Base EXCEPT !.storage = "azure", !.given = {"AZURE_CONTAINER"} \cup given]

\* Local storage serves one replica: two "never share the volume"
\* (docs/kubernetes.md:38).
Local(paths, existing) ==
    [Base EXCEPT !.storage = "local", !.given = {}, !.paths = paths, !.existing = existing]

Complete_ ==
    {[Base EXCEPT !.replicas = Two],
     [Base EXCEPT !.paths = <<<<1, 2>>, <<1>>>>, !.names = {<<1>>, <<1, 2>>}],
     [Base EXCEPT !.storage = "gcs", !.given = {"GCS_BUCKET"}, !.autoCreate = FALSE],
     Azure({"AZURE_STORAGE_CONNECTION_STRING"}),
     Azure({"AZURE_STORAGE_ACCOUNT", "AZURE_STORAGE_KEY"}),
     [Local(<<<<1>>, <<1, 2>>>>, {}) EXCEPT !.names = {<<1>>, <<1, 2>>}],
     [Local(<<<<1>>, <<2>>>>, {<<1>>}) EXCEPT !.files = {<<1, 3>>}]}

Incomplete ==
    {[Base EXCEPT !.given = {}], [Base EXCEPT !.storage = "gcs"], [Base EXCEPT !.storage = "ftp"],
     [Base EXCEPT !.usersParse = FALSE], [Base EXCEPT !.rulesParse = FALSE],
     Azure({"AZURE_STORAGE_ACCOUNT"})}

Nested == {Local(<<<<1, 2>>>>, {})}

\* A file where a folder is configured.
Occupied == {[Base EXCEPT !.files = {<<1>>}], [Local(<<<<1>>>>, {}) EXCEPT !.files = {<<1>>}]}

\* What Load lets through.
Flawed(flaw) == [Base EXCEPT !.flaws = {flaw}]
LongPassword == {Flawed("password")}

ManyDeployments ==
    Complete_ \cup Incomplete \cup Nested \cup Occupied \cup {Flawed(flaw) : flaw \in Flaws}
=============================================================================
