---- MODULE Group ----
(***************************************************************************)
(* The whole deployment: the replication manager of ReplicationManager,    *)
(* and for every replica a factory (factory.c) that starts the server and  *)
(* relays the manager's commands to it, a local fault detector             *)
(* (local_f_detector.c) that reports on it, and the server, reduced here   *)
(* to its state, its prev_state and whether it is seeded: whether it       *)
(* descends from the servers that have been answering clients, or is a new *)
(* process with an empty table.  Servers crash and come back empty;        *)
(* commands to a server that is down are logged by the factory and lost; a *)
(* checkpoint overwrites what the receiver had.                            *)
(*                                                                         *)
(* Assumed of the environment: the manager, the factories and the          *)
(* detectors stay up and can be reached; a server applies the commands     *)
(* relayed to it in order, except for QUIESCE_STOP and the RUNNING behind  *)
(* it; the manager's sleeps outlast the relays they wait for; a checkpoint *)
(* is logged whole by every server that is up; no server hangs in          *)
(* search_list; a server crashes only while every other one is up and      *)
(* seeded.  The sweep gfd_hbt is left out: nothing reads its table.        *)
(*                                                                         *)
(* Single requests are not followed here.  A seeded server may lack a      *)
(* request that was acknowledged: a backup drops what it logged behind a   *)
(* checkpoint, a checkpoint carries the table and not the log, and a       *)
(* server in UNKNOWN_STATE answers clients too (Server, TaskStore).        *)
(***************************************************************************)
EXTENDS ReplicationManager, Sequences, ServerState

CONSTANTS
    MaxCrashes,   \* bound on the crashes of servers after a cold start
    MaxStartups   \* bound on the STARTUP requests waiting at one factory

ASSUME GroupAssumption == MaxCrashes \in Nat /\ MaxStartups \in Nat \ {0}

VARIABLES
    reports,      \* reports[i]: what detector i has sent and main not read
    first_time,   \* heartbeat_signal's locals of detector i
    connection,
    inbox,        \* inbox[i]: the requests waiting at factory i, in order
    join,         \* how far handle_state is with a replica that joins an
                  \* active group: "no", "recover", "quiesce"
    state,        \* state[i]: "down", or server_state.state of server i
    prev_state,   \* prev_state[i]: worker.c's prev_state of server i
    seeded,       \* history: server i has run since before anybody had a role
                  \* that answers clients, or a checkpoint of a seeded server
                  \* has come to its log in its present life
    served,       \* history: somebody has had such a role
    stalled,      \* history: the manager's primary has lost a RUNNING to the
                  \* RECOVER it was quiesced in
    crashes,      \* the crashes that may still happen
    aborts        \* the servers that died of an assertion

detVars == <<reports, first_time, connection>>
srvVars == <<state, prev_state, seeded, served, stalled, crashes, aborts>>
gvars == <<vars, detVars, inbox, join, srvVars>>

\* connect_to_server succeeds for server i.
Up(i) == state[i] # "down"

GInit ==
    /\ Init
    /\ reports = [i \in Replica |-> <<>>]
    /\ first_time = [i \in Replica |-> TRUE]
    /\ connection = [i \in Replica |-> FALSE]
    /\ inbox = [i \in Replica |-> <<>>]
    /\ join = "no"
    /\ state = [i \in Replica |-> "down"]
    /\ prev_state = [i \in Replica |-> "UNKNOWN_STATE"]
    /\ seeded = [i \in Replica |-> TRUE]
    /\ served = FALSE /\ stalled = FALSE
    /\ crashes = MaxCrashes /\ aborts = 0

----------------------------------------------------------------------------
(* Detector i *)

\* No report of i is on its way: a heartbeat interval is longer than the
\* manager takes.
Idle(i) == reports[i] = <<>> /\ report.id # i

\* The reports of one iteration, each over a connection of its own.
inform_rep_manager(i, s) == reports' = [reports EXCEPT ![i] = s]

\* An iteration of heartbeat_signal that cannot connect.
heartbeat_failed(i) ==
    /\ Idle(i) /\ ~Up(i)
    /\ Cardinality({p \in DOMAIN inbox[i] : inbox[i][p] = "STARTUP"}) < MaxStartups
    /\ connection' = [connection EXCEPT ![i] = TRUE]
    /\ inform_rep_manager(i, <<"FAULTED">>)
    /\ UNCHANGED <<vars, first_time, inbox, join, srvVars>>

\* An iteration that connects.  The result of get_response_from_server is
\* ignored and the response structure is kept from one iteration to the next,
\* so the heartbeat counts as answered even if the server dies meanwhile.
\* A heartbeat that changes nothing waits until no report is pending.
heartbeat_signal(i) ==
    /\ Idle(i) /\ Up(i)
    /\ \/ first_time[i] \/ connection[i]
       \/ report = NoReport /\ \A j \in Replica : reports[j] = <<>>
    /\ inform_rep_manager(i,
           (IF first_time[i] THEN <<"RUNNING">> ELSE <<>>)
           \o (IF connection[i] THEN <<"RUNNING">> ELSE <<>>) \o <<"RUNNING">>)
    /\ first_time' = [first_time EXCEPT ![i] = FALSE]
    /\ connection' = [connection EXCEPT ![i] = FALSE]
    /\ UNCHANGED <<vars, inbox, join, srvVars>>

----------------------------------------------------------------------------
(* The manager: ReplicationManager's steps and the requests they send *)

\* The requests q[j] reach factory j after those already waiting there.
Send(q) == inbox' = [j \in Replica |-> inbox[j] \o q[j]]

To(i, c) == [j \in Replica |-> IF j = i THEN <<c>> ELSE <<>>]

Then(p, q) == [j \in Replica |-> p[j] \o q[j]]

Nothing == [j \in Replica |-> <<>>]

rm_accept(i) ==
    /\ join = "no" /\ reports[i] # <<>>
    /\ handle_fault_detector_message(i, Head(reports[i]))
    /\ reports' = [reports EXCEPT ![i] = Tail(@)]
    /\ UNCHANGED <<first_time, connection, inbox, join, srvVars>>

rm_running_again(i) ==
    /\ running_again(i) /\ Send(Nothing)
    /\ UNCHANGED <<detVars, join, srvVars>>

\* Faulty variant: a replica that returns is given the role it had.
rm_running_passive_old_role(i) ==
    /\ running_passive(i)
    /\ Send(Then(To(i, IF role[i] = "none" THEN role'[i] ELSE role[i]),
                 IF needs_checkpoint[i] THEN To(primary, "SEND_CHKPT") ELSE Nothing))
    /\ UNCHANGED <<detVars, join, srvVars>>

rm_running_passive(i) ==
    /\ running_passive(i)
    /\ Send(Then(To(i, role'[i]),
                 IF needs_checkpoint[i] THEN To(primary, "SEND_CHKPT") ELSE Nothing))
    /\ UNCHANGED <<detVars, join, srvVars>>

rm_running_active_first(i) ==
    /\ running_active_first(i) /\ Send(To(i, "ACTIVE_RUNNING"))
    /\ UNCHANGED <<detVars, join, srvVars>>

\* Faulty variant: the joiner is not told RECOVER.
rm_join_recover_silent(i) ==
    /\ join = "no" /\ report = [id |-> i, state |-> "RUNNING"]
    /\ node_state[i] = "FAULTED" /\ mode = 1 /\ primary # -1
    /\ Send(Nothing)
    /\ join' = "recover"
    /\ UNCHANGED <<vars, detVars, srvVars>>

\* A joiner is told RECOVER; the lock stays held until join_stop.
rm_join_recover(i) ==
    /\ join = "no" /\ report = [id |-> i, state |-> "RUNNING"]
    /\ node_state[i] = "FAULTED" /\ mode = 1 /\ primary # -1
    /\ Send(To(i, "ACTIVE_RECOVER"))
    /\ join' = "recover"
    /\ UNCHANGED <<vars, detVars, srvVars>>

\* The joiner's own state has been set to RUNNING before quiesce_all.
Quiesced(i) == {i} \cup {j \in Replica : node_state[j] = "RUNNING"}

ToAll(S, c) == [j \in Replica |-> IF j \in S THEN <<c>> ELSE <<>>]

\* Faulty variant: no checkpoint is asked for.
rm_join_quiesce_only(i) ==
    /\ join = "recover" /\ report.id = i /\ inbox[i] = <<>>
    /\ Send(ToAll(Quiesced(i), "QUIESCE_BEGIN"))
    /\ join' = "quiesce"
    /\ UNCHANGED <<vars, detVars, srvVars>>

\* sleep(1) has outlasted the relay of RECOVER: quiesce_all and
\* instruct_primary_to_send_chkpt.
rm_join_quiesce(i) ==
    /\ join = "recover" /\ report.id = i /\ inbox[i] = <<>>
    /\ Send(Then(ToAll(Quiesced(i), "QUIESCE_BEGIN"), To(primary, "SEND_CHKPT")))
    /\ join' = "quiesce"
    /\ UNCHANGED <<vars, detVars, srvVars>>

\* Faulty variant: the primary is left out of stop_quiesce_all.
rm_join_stop_others(i) ==
    /\ join = "quiesce" /\ report.id = i
    /\ \A j \in Quiesced(i) \cup {primary} : inbox[j] = <<>>
    /\ running_active_join(i) /\ asked'[i]
    /\ Send(Then(ToAll(Quiesced(i) \ {primary}, "QUIESCE_STOP"), To(i, "ACTIVE_RUNNING")))
    /\ join' = "no"
    /\ UNCHANGED <<detVars, srvVars>>

\* sleep(2) has outlasted the checkpoint: stop_quiesce_all and RUNNING.
rm_join_stop(i) ==
    /\ join = "quiesce" /\ report.id = i
    /\ \A j \in Quiesced(i) \cup {primary} : inbox[j] = <<>>
    /\ running_active_join(i) /\ asked'[i]
    /\ Send(Then(ToAll(Quiesced(i), "QUIESCE_STOP"), To(i, "ACTIVE_RUNNING")))
    /\ join' = "no"
    /\ UNCHANGED <<detVars, srvVars>>

\* restart_server, and elect_new_primary where the primary moves.
rm_faulted(i) ==
    /\ \/ faulted_passive_first(i) /\ Send(To(i, "STARTUP"))
       \/ /\ faulted_passive_primary(i) \/ (faulted_active(i) /\ primary = i)
          /\ Send(Then(To(i, "STARTUP"), To(primary', PrimaryState)))
       \/ /\ faulted_passive_backup(i) \/ (faulted_active(i) /\ primary # i)
          /\ Send(To(i, "STARTUP"))
    /\ UNCHANGED <<detVars, join, srvVars>>

RM ==
    \E i \in Replica :
        \/ rm_accept(i) \/ rm_running_again(i) \/ rm_running_passive(i)
        \/ rm_running_active_first(i)
        \/ rm_join_recover(i) \/ rm_join_quiesce(i) \/ rm_join_stop(i)
        \/ rm_faulted(i)

----------------------------------------------------------------------------
(* Factory i and what its request does to server i *)

\* The part of handle_rep_man_command common to all requests.
Command(i, c) ==
    /\ inbox[i] # <<>> /\ Head(inbox[i]) = c
    /\ inbox' = [inbox EXCEPT ![i] = Tail(@)]
    /\ UNCHANGED <<vars, detVars, join, stalled, crashes>>

\* spawn_server: the new process has an empty table; it counts as seeded only
\* before anybody has served.  A second process cannot bind the port and exits.
spawn_server(i) ==
    /\ Command(i, "STARTUP")
    /\ IF Up(i) THEN UNCHANGED <<state, prev_state, seeded>>
       ELSE /\ state' = [state EXCEPT ![i] = "UNKNOWN_STATE"]
            /\ prev_state' = [prev_state EXCEPT ![i] = "UNKNOWN_STATE"]
            /\ seeded' = [seeded EXCEPT ![i] = ~served]
    /\ UNCHANGED <<served, aborts>>

\* The connection to the server fails: logged, and the request is gone.
relay_failed(i, c) ==
    /\ ~Up(i) /\ c # "STARTUP"
    /\ Command(i, c)
    /\ UNCHANGED <<state, prev_state, seeded, served, aborts>>

\* send_change_state_message and the server's handle_rep_msg.
send_change_state_message(i, s) ==
    /\ Up(i) /\ Command(i, s)
    /\ state' = [state EXCEPT ![i] = s]
    /\ served' = (served \/ s \in {"ACTIVE_RUNNING", "PASSIVE_PREPRIMARY"})
    /\ UNCHANGED <<prev_state, seeded, aborts>>

\* The addresses in bckup_svr are those of the latest role message; only the
\* messages for a primary and for a running active replica carry any.
KnowsBackups(i) ==
    \/ state[i] \in {"PASSIVE_PREPRIMARY", "PASSIVE_PRIMARY", "ACTIVE_RUNNING"}
    \/ state[i] = "QUIESCE" /\ prev_state[i] = "ACTIVE_RUNNING"

\* A checkpoint of server i goes to the log of every other server that is up,
\* ahead of all that is logged later.
Checkpoint(i) ==
    seeded' = [j \in Replica |-> IF j # i /\ Up(j) THEN seeded[i] ELSE seeded[j]]

\* send_checkpoint_to_bkps and the server's send_checkpoint_ondemand.
send_checkpoint_to_bkps(i) ==
    /\ Up(i) /\ Command(i, "SEND_CHKPT")
    /\ IF prev_state[i] # "ACTIVE_RECOVER" /\ KnowsBackups(i)
         THEN Checkpoint(i) ELSE UNCHANGED seeded
    /\ UNCHANGED <<state, prev_state, served, aborts>>

\* An assertion of set_state fails: the process is gone.
Abort(i) ==
    /\ state' = [state EXCEPT ![i] = "down"]
    /\ seeded' = [seeded EXCEPT ![i] = FALSE]
    /\ aborts' = aborts + 1
    /\ UNCHANGED prev_state

\* send_start_quiesce and put_in_quiesence.
send_start_quiesce(i) ==
    /\ Up(i) /\ Command(i, "QUIESCE_BEGIN")
    /\ IF state[i] = "UNKNOWN_STATE" THEN Abort(i)
       ELSE /\ prev_state' = [prev_state EXCEPT ![i] = state[i]]
            /\ state' = [state EXCEPT ![i] = "QUIESCE"]
            /\ UNCHANGED <<seeded, aborts>>
    /\ UNCHANGED served

\* send_stop_quiesce and remove_from_quiesence.
send_stop_quiesce(i) ==
    /\ Up(i) /\ Command(i, "QUIESCE_STOP")
    /\ IF state[i] = "UNKNOWN_STATE" \/ ~LegalState("ACTIVE_REP", prev_state[i])
         THEN Abort(i)
         ELSE /\ state' = [state EXCEPT ![i] = prev_state[i]]
              /\ UNCHANGED <<prev_state, seeded, aborts>>
    /\ UNCHANGED served

\* QUIESCE_STOP is carried out by its connection's thread and the RUNNING
\* relayed next by the control worker: RUNNING may come first, and set_state
\* (prev_state) overwrites it, or between the two lines of
\* remove_from_quiesence.
stop_quiesce_overtaken(i) ==
    /\ Up(i) /\ Len(inbox[i]) > 1
    /\ inbox[i][1] = "QUIESCE_STOP" /\ inbox[i][2] = "ACTIVE_RUNNING"
    /\ inbox' = [inbox EXCEPT ![i] = Tail(Tail(@))]
    /\ served' = TRUE
    /\ IF ~LegalState("ACTIVE_REP", prev_state[i]) THEN Abort(i)
       ELSE /\ \/ state' = [state EXCEPT ![i] = prev_state[i]] /\ UNCHANGED prev_state
               \/ /\ state' = [state EXCEPT ![i] = "ACTIVE_RUNNING"]
                  /\ prev_state' = [prev_state EXCEPT ![i] = "ACTIVE_RUNNING"]
            /\ UNCHANGED <<seeded, aborts>>
    /\ stalled' = (stalled \/ (primary = i /\ prev_state[i] # "ACTIVE_RUNNING"))
    /\ UNCHANGED <<vars, detVars, join, crashes>>

Roles == {"ACTIVE_RUNNING", "ACTIVE_RECOVER", "PASSIVE_BACKUP", "PASSIVE_PREPRIMARY"}

Requests == Roles \cup {"STARTUP", "SEND_CHKPT", "QUIESCE_BEGIN", "QUIESCE_STOP"}

handle_rep_man_command(i) ==
    \/ spawn_server(i)
    \/ \E c \in Requests : relay_failed(i, c)
    \/ \E s \in Roles : send_change_state_message(i, s)
    \/ send_checkpoint_to_bkps(i)
    \/ send_start_quiesce(i)
    \/ send_stop_quiesce(i)
    \/ stop_quiesce_overtaken(i)

----------------------------------------------------------------------------
(* Server i by itself *)

\* run(NORMAL) has emptied the log of a server told to become primary.
promote(i) ==
    /\ state[i] = "PASSIVE_PREPRIMARY"
    /\ state' = [state EXCEPT ![i] = "PASSIVE_PRIMARY"]
    /\ UNCHANGED <<vars, detVars, inbox, join, prev_state, seeded, served, stalled,
                   crashes, aborts>>

\* The periodic checkpoint of a primary.  Not every primary has a thread for
\* it (start_ckhpt_thread may start none), so nothing says that it happens.
send_checkpoint(i) ==
    /\ state[i] = "PASSIVE_PRIMARY"
    /\ Checkpoint(i)
    /\ UNCHANGED <<vars, detVars, inbox, join, state, prev_state, served, stalled,
                   crashes, aborts>>

\* A crash, while every other server is up and seeded.
crash(i) ==
    /\ Up(i) /\ crashes > 0
    /\ \A j \in Replica \ {i} : Up(j) /\ seeded[j]
    /\ state' = [state EXCEPT ![i] = "down"]
    /\ seeded' = [seeded EXCEPT ![i] = ~served]
    /\ crashes' = crashes - 1
    /\ UNCHANGED <<vars, detVars, inbox, join, prev_state, served, stalled, aborts>>

GNext ==
    \/ RM
    \/ \E i \in Replica :
          \/ heartbeat_failed(i) \/ heartbeat_signal(i)
          \/ handle_rep_man_command(i)
          \/ promote(i) \/ send_checkpoint(i) \/ crash(i)

GSpec == GInit /\ [][GNext]_gvars

\* The manager, each factory, each detector and the workers of each server keep
\* running.  Neither crashes nor periodic checkpoints have to happen.
GFairness ==
    /\ WF_gvars(RM)
    /\ \A i \in Replica :
          /\ WF_gvars(heartbeat_failed(i) \/ heartbeat_signal(i))
          /\ WF_gvars(handle_rep_man_command(i))
          /\ WF_gvars(promote(i))

GFairSpec == GSpec /\ GFairness

----------------------------------------------------------------------------
(* Properties *)

\* Every variable keeps its type.
GTypeOK ==
    /\ TypeOK
    /\ reports \in [Replica -> Seq({"RUNNING", "FAULTED"})]
    /\ first_time \in [Replica -> BOOLEAN] /\ connection \in [Replica -> BOOLEAN]
    /\ inbox \in [Replica -> Seq(Requests)]
    /\ join \in {"no", "recover", "quiesce"}
    /\ state \in [Replica -> States \cup {"down"}]
    /\ prev_state \in [Replica -> States]
    /\ seeded \in [Replica -> BOOLEAN]
    /\ served \in BOOLEAN /\ stalled \in BOOLEAN
    /\ crashes \in Nat

\* No command of the manager makes a server abort: whatever the order of
\* crashes, restarts and joins, a QUIESCE reaches no server that has not been
\* given a role in its present life.
NoAborts == aborts = 0

GroupInv == GTypeOK /\ NoAborts

IsPrimary(i) == state[i] \in {"PASSIVE_PREPRIMARY", "PASSIVE_PRIMARY"}

\* Never two primaries in passive mode, from the crash of one over the
\* election of the next to the return of the first.
AtMostOnePrimary ==
    \A i, j \in Replica : IsPrimary(i) /\ IsPrimary(j) => i = j

\* A server that others would take a checkpoint from is seeded: a process that
\* was restarted empty is never primary, nor an active replica that serves
\* clients, before a checkpoint of the others has come to it.  The exception
\* is a primary that was left in RECOVER: it sends no checkpoint to those that
\* join after it.
NeverServesEmpty ==
    \A i \in Replica :
        IsPrimary(i) \/ state[i] = "ACTIVE_RUNNING" => seeded[i] \/ stalled

\* All servers are up and seeded, in the roles the manager has for them; a
\* replica that joined an active group may have been left in RECOVER, where it
\* executes every request and answers none.
Whole ==
    /\ \A i \in Replica : seeded[i]
    /\ IF mode = 1
         THEN \A i \in Replica : state[i] \in {"ACTIVE_RUNNING", "ACTIVE_RECOVER"}
         ELSE /\ primary # -1
              /\ \A i \in Replica : state[i] = IF i = primary THEN "PASSIVE_PRIMARY"
                                                              ELSE "PASSIVE_BACKUP"

\* After the last crash the group becomes whole again and stays so, without
\* the help of periodic checkpoints, unless the primary has been stalled.
Recovers == <>[](Whole \/ stalled)

====
