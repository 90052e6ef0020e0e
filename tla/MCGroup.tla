---- MODULE MCGroup ----
(***************************************************************************)
(* The deployed size, MAX_REPLICAS = 3: a cold start without crashes, and  *)
(* crashes in two of the states it leads to, all servers just started and  *)
(* the group in service.                                                   *)
(***************************************************************************)
EXTENDS Group

CONSTANTS
    StartCrashes,     \* bound on the crashes of a group that has just started
    ServiceCrashes    \* bound on the crashes of a group in service

\* The detectors have reported every server faulted, the first one first, all
\* have been started and no heartbeat has been sent yet.
JustStarted ==
    /\ mode \in {0, 1}
    /\ report = NoReport /\ locked = FALSE
    /\ primary = IF mode = 1 THEN -1 ELSE 0
    /\ node_state = [i \in Replica |-> "FAULTED"]
    /\ last_heartbeat = [i \in Replica |-> TRUE]
    /\ server_status = [i \in Replica |-> FALSE] /\ num_servers = 0
    /\ needs_checkpoint = [i \in Replica |-> mode = 0 /\ i # 0]
    /\ role = [i \in Replica |-> "none"]
    /\ faulted = [i \in Replica |-> mode = 1 \/ i # 0]
    /\ asked = [i \in Replica |-> FALSE]
    /\ reports = [i \in Replica |-> <<>>]
    /\ first_time = [i \in Replica |-> TRUE]
    /\ connection = [i \in Replica |-> TRUE]
    /\ inbox = [i \in Replica |-> <<>>] /\ join = "no"
    /\ state = [i \in Replica |-> "UNKNOWN_STATE"]
    /\ prev_state = [i \in Replica |-> "UNKNOWN_STATE"]
    /\ seeded = [i \in Replica |-> TRUE]
    /\ served = FALSE /\ stalled = FALSE /\ crashes = StartCrashes /\ aborts = 0

\* The replicas have come up in the order of their numbers and joined.
InService ==
    /\ mode \in {0, 1}
    /\ report = NoReport /\ locked = FALSE /\ primary = 0
    /\ node_state = [i \in Replica |-> "RUNNING"]
    /\ last_heartbeat = [i \in Replica |-> TRUE]
    /\ server_status = [i \in Replica |-> TRUE] /\ num_servers = N
    /\ needs_checkpoint = [i \in Replica |-> mode = 0 /\ i # 0]
    /\ role = [i \in Replica |-> IF i = 0 \/ mode = 1 THEN PrimaryState
                                                     ELSE "PASSIVE_BACKUP"]
    /\ faulted = [i \in Replica |-> mode = 1 \/ i # 0]
    /\ asked = [i \in Replica |-> i # 0]
    /\ reports = [i \in Replica |-> <<>>]
    /\ first_time = [i \in Replica |-> FALSE]
    /\ connection = [i \in Replica |-> FALSE]
    /\ inbox = [i \in Replica |-> <<>>] /\ join = "no"
    /\ state = [i \in Replica |->
                  IF mode = 1 THEN "ACTIVE_RUNNING"
                  ELSE IF i = 0 THEN "PASSIVE_PRIMARY" ELSE "PASSIVE_BACKUP"]
    /\ prev_state = [i \in Replica |->
                       IF mode = 0 THEN "UNKNOWN_STATE"
                       ELSE IF i = N - 1 THEN "ACTIVE_RECOVER" ELSE "ACTIVE_RUNNING"]
    /\ seeded = [i \in Replica |-> TRUE]
    /\ served = TRUE /\ stalled = FALSE /\ crashes = ServiceCrashes /\ aborts = 0

MCSpec == (GInit \/ JustStarted \/ InService) /\ [][GNext]_gvars /\ GFairness
====
