----------------------------- MODULE MCCluster -----------------------------
(* Model-checking instance of Cluster. *)
EXTENDS Cluster

MCStandard == << "ducklake", "httpfs", "icu" >>
MCWarmable == { "ducklake", "httpfs", "icu", "iceberg", "avro" }
MCNeeds == [ e \in MCWarmable |-> IF e = "iceberg" THEN { "avro" } ELSE {} ]
MCSettings == { "auth", "public_url", "backend_url" }
=============================================================================
