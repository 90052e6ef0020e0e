---- MODULE MCReplicationManager ----
(* The replication manager of the deployed size, MAX_REPLICAS = 3. *)
EXTENDS ReplicationManager
====
