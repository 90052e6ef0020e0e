---- MODULE ReplicationManager ----
(***************************************************************************)
(* replication_manager.c: the process that follows the replicas' health,   *)
(* chooses the primary and tells every replica its role.                   *)
(*                                                                         *)
(* main accepts one report of a fault detector at a time and handles it    *)
(* under the lock; gfd_hbt is a second thread that sweeps the heartbeat    *)
(* marks under the same lock.  Nothing else runs, so a handler and a sweep *)
(* are one action each.  A message to a factory may fail: connect_to_server*)
(* or write answers -1.  Except for the checkpoint request of a passive    *)
(* rejoin, a failure only changes handle_state's return value, which main  *)
(* ignores.                                                                *)
(***************************************************************************)
EXTENDS Integers, FiniteSets

CONSTANTS N   \* MAX_REPLICAS, and data.num_replicas of the configuration

ASSUME NAssumption == N \in Nat \ {0}

Replica == 0 .. N - 1

VARIABLES
    mode,              \* 0 passive, 1 active: read from the configuration
    report,            \* what main has read: an id and a state, or NoReport
    locked,            \* the mutex is held although no handler is running
    node_state,        \* data.node[i].state
    last_heartbeat,    \* data.node[i].last_heartbeat is not 0
    primary,           \* primary_replica_id, -1 when there is none
    server_status,     \* membership.server_status[i] is 1
    num_servers,       \* membership.num_servers
    needs_checkpoint,  \* membership.needs_checkpoint[i] is 1
    role,              \* history: the state last addressed to replica i
    faulted,           \* history: i was reported FAULTED under a primary
    asked              \* history: since i's latest FAULTED report a
                       \* checkpoint has been requested for it

vars == <<mode, report, locked, node_state, last_heartbeat, primary,
          server_status, num_servers, needs_checkpoint, role, faulted, asked>>

NoReport == [id |-> -1, state |-> "none"]

----------------------------------------------------------------------------

\* memset of the membership, init_gfd_hbt, init_server_state.
Init ==
    /\ mode \in {0, 1}
    /\ report = NoReport
    /\ locked = FALSE
    /\ node_state = [i \in Replica |-> "FAULTED"]
    /\ last_heartbeat = [i \in Replica |-> TRUE]
    /\ primary = -1
    /\ server_status = [i \in Replica |-> FALSE]
    /\ num_servers = 0
    /\ needs_checkpoint = [i \in Replica |-> FALSE]
    /\ role = [i \in Replica |-> "none"]
    /\ faulted = [i \in Replica |-> FALSE]
    /\ asked = [i \in Replica |-> FALSE]

\* main accepts a connection and handle_fault_detector_message parses it.
handle_fault_detector_message(i, s) ==
    /\ report = NoReport
    /\ report' = [id |-> i, state |-> s]
    /\ UNCHANGED <<mode, locked, node_state, last_heartbeat, primary,
                   server_status, num_servers, needs_checkpoint, role, faulted,
                   asked>>

\* The part of handle_state that every report of replica i goes through: the
\* lock is free, the report is consumed and the heartbeat mark is set.
Handle(i, s) ==
    /\ ~locked
    /\ report = [id |-> i, state |-> s]
    /\ report' = NoReport
    /\ last_heartbeat' = [last_heartbeat EXCEPT ![i] = TRUE]
    /\ UNCHANGED mode

\* Faulty variant: the count is not capped at MAX_REPLICAS.
print_uncapped(i, s) ==
    /\ server_status' = [server_status EXCEPT ![i] = s = "RUNNING"]
    /\ num_servers' =
         CASE s = "RUNNING" /\ ~server_status[i] -> num_servers + 1
           [] s = "FAULTED" /\ server_status[i] -> num_servers - 1
           [] OTHER -> num_servers

\* The table that print_current_state_info keeps on the way.
print_current_state_info(i, s) ==
    /\ server_status' = [server_status EXCEPT ![i] = s = "RUNNING"]
    /\ num_servers' =
         CASE s = "RUNNING" /\ ~server_status[i] ->
                IF num_servers + 1 > N THEN N ELSE num_servers + 1
           [] s = "FAULTED" /\ server_status[i] -> num_servers - 1
           [] OTHER -> num_servers

\* The end of handle_state on every path but one.
Finish(i, s) ==
    /\ node_state' = [node_state EXCEPT ![i] = s]
    /\ print_current_state_info(i, s)
    /\ UNCHANGED locked

\* elect_new_primary and send_change_status_to_server with the role's state.
PrimaryState == IF mode = 0 THEN "PASSIVE_PREPRIMARY" ELSE "ACTIVE_RUNNING"

\* The next replica in the ring takes over, whatever its state.
Successor(i) == (i + 1) % N

----------------------------------------------------------------------------
(* handle_state: reports of a running replica *)

\* A heartbeat of a replica already known to be running.
running_again(i) ==
    /\ Handle(i, "RUNNING")
    /\ node_state[i] # "FAULTED"
    /\ Finish(i, "RUNNING")
    /\ UNCHANGED <<primary, needs_checkpoint, role, faulted, asked>>

\* The first heartbeat in passive mode: the role follows from primary, and a
\* replica that has been down before gets a checkpoint from the primary.
running_passive(i) ==
    /\ Handle(i, "RUNNING")
    /\ node_state[i] = "FAULTED" /\ mode = 0
    /\ role' = [role EXCEPT ![i] =
                   IF i = primary THEN PrimaryState ELSE "PASSIVE_BACKUP"]
    /\ asked' = [asked EXCEPT ![i] = @ \/ needs_checkpoint[i]]
    /\ Finish(i, "RUNNING")
    /\ UNCHANGED <<primary, needs_checkpoint, faulted>>

\* The same, but the request for the checkpoint cannot be sent: handle_state
\* returns at once, without the unlock.
running_passive_leak(i) ==
    /\ Handle(i, "RUNNING")
    /\ node_state[i] = "FAULTED" /\ mode = 0 /\ needs_checkpoint[i]
    /\ role' = [role EXCEPT ![i] =
                   IF i = primary THEN PrimaryState ELSE "PASSIVE_BACKUP"]
    /\ locked' = TRUE
    /\ UNCHANGED <<node_state, primary, server_status, num_servers,
                   needs_checkpoint, faulted, asked>>

\* The first replica of an active group.
running_active_first(i) ==
    /\ Handle(i, "RUNNING")
    /\ node_state[i] = "FAULTED" /\ mode = 1 /\ primary = -1
    /\ primary' = i
    /\ role' = [role EXCEPT ![i] = PrimaryState]
    /\ Finish(i, "RUNNING")
    /\ UNCHANGED <<needs_checkpoint, faulted, asked>>

\* A replica joins an active group: RECOVER, quiesce_all, checkpoint from the
\* primary, stop_quiesce_all, RUNNING.  The lock is held over both sleeps.
running_active_join(i) ==
    /\ Handle(i, "RUNNING")
    /\ node_state[i] = "FAULTED" /\ mode = 1 /\ primary # -1
    /\ role' = [role EXCEPT ![i] = "ACTIVE_RUNNING"]
    /\ \E sent \in BOOLEAN : asked' = [asked EXCEPT ![i] = @ \/ sent]
    /\ Finish(i, "RUNNING")
    /\ UNCHANGED <<primary, needs_checkpoint, faulted>>

----------------------------------------------------------------------------
(* handle_state: reports of a faulted replica.  Each restarts the replica:  *)
(* restart_server sets SENT_STARTUP_REQ, but the end of the branch sets     *)
(* FAULTED over it, so the guard against a start already requested passes   *)
(* for every report.                                                        *)

\* Passive mode without a primary: the faulted replica is to be the first.
faulted_passive_first(i) ==
    /\ Handle(i, "FAULTED")
    /\ node_state[i] # "SENT_STARTUP_REQ" /\ mode = 0 /\ primary = -1
    /\ primary' = i
    /\ asked' = [asked EXCEPT ![i] = FALSE]
    /\ Finish(i, "FAULTED")
    /\ UNCHANGED <<needs_checkpoint, role, faulted>>

\* Faulty variant: the election is left to the next heartbeat.
faulted_primary_unset(i) ==
    /\ Handle(i, "FAULTED")
    /\ mode = 0 /\ primary = i
    /\ primary' = -1
    /\ needs_checkpoint' = [needs_checkpoint EXCEPT ![i] = TRUE]
    /\ faulted' = [faulted EXCEPT ![i] = TRUE]
    /\ asked' = [asked EXCEPT ![i] = FALSE]
    /\ Finish(i, "FAULTED")
    /\ UNCHANGED role

\* Faulty variant: the new primary is not told.
faulted_primary_silent(i) ==
    /\ Handle(i, "FAULTED")
    /\ mode = 0 /\ primary = i
    /\ primary' = Successor(i)
    /\ needs_checkpoint' = [needs_checkpoint EXCEPT ![i] = TRUE]
    /\ faulted' = [faulted EXCEPT ![i] = TRUE]
    /\ asked' = [asked EXCEPT ![i] = FALSE]
    /\ Finish(i, "FAULTED")
    /\ UNCHANGED role

\* Faulty variant: a primary that goes down is not owed a checkpoint.
faulted_primary_unowed(i) ==
    /\ Handle(i, "FAULTED")
    /\ mode = 0 /\ primary = i
    /\ primary' = Successor(i)
    /\ role' = [role EXCEPT ![primary'] = PrimaryState]
    /\ faulted' = [faulted EXCEPT ![i] = TRUE]
    /\ asked' = [asked EXCEPT ![i] = FALSE]
    /\ Finish(i, "FAULTED")
    /\ UNCHANGED needs_checkpoint

\* Passive mode, the primary: the next replica takes over.
faulted_passive_primary(i) ==
    /\ Handle(i, "FAULTED")
    /\ node_state[i] # "SENT_STARTUP_REQ" /\ mode = 0 /\ primary = i
    /\ primary' = Successor(i)
    /\ role' = [role EXCEPT ![primary'] = PrimaryState]
    /\ needs_checkpoint' = [needs_checkpoint EXCEPT ![i] = TRUE]
    /\ faulted' = [faulted EXCEPT ![i] = TRUE]
    /\ asked' = [asked EXCEPT ![i] = FALSE]
    /\ Finish(i, "FAULTED")

\* Passive mode, a backup.
faulted_passive_backup(i) ==
    /\ Handle(i, "FAULTED")
    /\ node_state[i] # "SENT_STARTUP_REQ" /\ mode = 0 /\ primary \notin {-1, i}
    /\ needs_checkpoint' = [needs_checkpoint EXCEPT ![i] = TRUE]
    /\ faulted' = [faulted EXCEPT ![i] = TRUE]
    /\ asked' = [asked EXCEPT ![i] = FALSE]
    /\ Finish(i, "FAULTED")
    /\ UNCHANGED <<primary, role>>

\* Active mode: the primary only matters as the source of checkpoints.
faulted_active(i) ==
    /\ Handle(i, "FAULTED")
    /\ node_state[i] # "SENT_STARTUP_REQ" /\ mode = 1
    /\ IF primary = i
         THEN /\ primary' = Successor(i)
              /\ role' = [role EXCEPT ![primary'] = PrimaryState]
         ELSE UNCHANGED <<primary, role>>
    /\ faulted' = [faulted EXCEPT ![i] = TRUE]
    /\ asked' = [asked EXCEPT ![i] = FALSE]
    /\ Finish(i, "FAULTED")
    /\ UNCHANGED needs_checkpoint

----------------------------------------------------------------------------

\* Faulty variant: every silent replica is counted down.
gfd_hbt_counting ==
    /\ ~locked
    /\ server_status' = [i \in Replica |-> server_status[i] /\ last_heartbeat[i]]
    /\ num_servers' = num_servers - Cardinality({i \in Replica : ~last_heartbeat[i]})
    /\ last_heartbeat' = [i \in Replica |-> FALSE]
    /\ UNCHANGED <<mode, report, locked, node_state, primary,
                   needs_checkpoint, role, faulted, asked>>

\* One sweep of gfd_hbt: a replica not heard of since the last sweep leaves
\* the table; num_servers and the node's state are left alone.
gfd_hbt ==
    /\ ~locked
    /\ server_status' = [i \in Replica |-> server_status[i] /\ last_heartbeat[i]]
    /\ last_heartbeat' = [i \in Replica |-> FALSE]
    /\ UNCHANGED <<mode, report, locked, node_state, primary, num_servers,
                   needs_checkpoint, role, faulted, asked>>

handle_state(i) ==
    \/ running_again(i)
    \/ running_passive(i)
    \/ running_passive_leak(i)
    \/ running_active_first(i)
    \/ running_active_join(i)
    \/ faulted_passive_first(i)
    \/ faulted_passive_primary(i)
    \/ faulted_passive_backup(i)
    \/ faulted_active(i)

Next ==
    \/ \E i \in Replica, s \in {"RUNNING", "FAULTED"} :
           handle_fault_detector_message(i, s)
    \/ \E i \in Replica : handle_state(i)
    \/ gfd_hbt

Spec == Init /\ [][Next]_vars

\* The manager's own thread is scheduled; nobody is obliged to report.
FairSpec == Spec /\ WF_vars(\E i \in Replica : handle_state(i))

----------------------------------------------------------------------------
(* Properties *)

\* Every variable keeps its type; in particular no replica is left in
\* SENT_STARTUP_REQ when the lock is released.
TypeOK ==
    /\ mode \in {0, 1}
    /\ report \in [id : Replica, state : {"RUNNING", "FAULTED"}] \cup {NoReport}
    /\ locked \in BOOLEAN
    /\ node_state \in [Replica -> {"RUNNING", "FAULTED"}]
    /\ last_heartbeat \in [Replica -> BOOLEAN]
    /\ primary \in Replica \cup {-1}
    /\ server_status \in [Replica -> BOOLEAN]
    /\ num_servers \in 0 .. N
    /\ needs_checkpoint \in [Replica -> BOOLEAN]
    /\ role \in [Replica -> {"none", "PASSIVE_BACKUP", "PASSIVE_PREPRIMARY",
                             "ACTIVE_RUNNING"}]
    /\ faulted \in [Replica -> BOOLEAN]
    /\ asked \in [Replica -> BOOLEAN]

\* The replica that must send a checkpoint exists: handle_state never indexes
\* its tables with a primary of -1 when a replica that owes one returns.
DonorExists == \A i \in Replica : needs_checkpoint[i] => primary # -1

\* The role last addressed to a running replica agrees with primary: in
\* passive mode the primary has been told PREPRIMARY and every other BACKUP,
\* in whatever order faults, restarts and elections were reported.
RoleAgreement ==
    \A i \in Replica : node_state[i] = "RUNNING" =>
        role[i] = IF i = primary \/ mode = 1 THEN PrimaryState
                                             ELSE "PASSIVE_BACKUP"

\* In passive mode a backup that has been down is not running again before a
\* checkpoint has been requested for it: needs_checkpoint survives every
\* election in between, and a request that fails leaves the replica FAULTED.
RejoinerCovered ==
    mode = 0 => \A i \in Replica :
        node_state[i] = "RUNNING" /\ faulted[i] /\ i # primary => asked[i]

\* Why RejoinerCovered holds: who has been down is owed a checkpoint for ever.
Owed ==
    mode = 0 => \A i \in Replica :
        /\ faulted[i] => needs_checkpoint[i]
        /\ node_state[i] = "RUNNING" /\ faulted[i] => asked[i]

\* The number of active servers that is printed is never less than the number
\* of servers listed as active, and never negative or above MAX_REPLICAS,
\* although the sweep removes servers without counting down.
CountCoversMembers ==
    Cardinality({i \in Replica : server_status[i]}) <= num_servers

\* The inductive invariant.
RMInv == TypeOK /\ DonorExists /\ RoleAgreement /\ Owed /\ CountCoversMembers

\* When a fault moves the primary, a running replica takes over if there is
\* one.
ElectsRunning ==
    [][(primary # -1 /\ primary' # primary /\
        \E i \in Replica : node_state'[i] = "RUNNING")
          => node_state'[primary'] = "RUNNING"]_vars

\* A report that main has read is handled.
ReportsHandled == report # NoReport ~> report = NoReport

====
