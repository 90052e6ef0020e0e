---- MODULE Server ----
(***************************************************************************)
(* One replica of the to-do list: server.c, worker.c, chkpt.c, state.c.    *)
(*                                                                         *)
(* Four kinds of threads share the process's globals:                      *)
(*   - handle_connection, one per accepted connection, which classifies    *)
(*     the message and puts it in the normal or the control log;           *)
(*   - run(NORMAL), which executes or prunes the normal log and finishes   *)
(*     a promotion to primary;                                             *)
(*   - run(CONTROL), which executes the replication manager's commands;    *)
(*   - send_checkpoint, the periodic checkpoint thread of a primary.       *)
(* An action is the longest stretch of one thread that makes one access to *)
(* a global another thread may change.  The logs are bounded FIFOs here;   *)
(* LogQueue shows that log.c's pointer structure implements them.  What a  *)
(* request does to the task table is not kept: storage is a lock and an    *)
(* order of executions.                                                    *)
(***************************************************************************)
EXTENDS Naturals, Sequences, FiniteSets, ServerState

CONSTANTS
    Req,           \* connections that carry a client's task operation
    Chk,           \* connections that carry a primary's checkpoint
    Cmd,           \* connections from the factory or the fault detector
    Tid,           \* identities for checkpoint threads
    None,          \* no connection
    NrlLimit,      \* capacity of the normal log  (50 in server.c:540)
    CtrlLimit,     \* capacity of the control log (50 in server.c:540)
    DeployedMode,  \* the mode the replication manager is configured with
    ServerId,      \* argv[3] of the server
    SleepsSuffice, \* TRUE: the manager's sleeps outlast the work they wait for
    Heartbeats     \* TRUE: connections of Cmd may also carry heartbeats

Conn == Req \cup Chk \cup Cmd

ASSUME ConnAssumption ==
    /\ Req \cap Chk = {} /\ Req \cap Cmd = {} /\ Chk \cap Cmd = {}
    /\ None \notin Conn

ASSUME LimitAssumption ==
    /\ NrlLimit \in Nat \ {0} /\ CtrlLimit \in Nat \ {0} /\ ServerId \in Nat

ASSUME ModeAssumption ==
    /\ DeployedMode \in {"ACTIVE_REP", "PASSIVE_REP"}
    /\ SleepsSuffice \in BOOLEAN /\ Heartbeats \in BOOLEAN

VARIABLES
    mode,          \* server_state.rep_mode
    state,         \* server_state.state
    prev_state,    \* worker.c's prev_state, set by the quiesce commands
    is_prune,      \* worker.c's is_prune
    nrl,           \* the NORMAL log, head first
    ctrl,          \* the CONTROL log, head first
    pc,            \* pc[c]: where c's handle_connection thread is
    backlog,       \* backlog[c]: client_ctx->is_backlog
    closes,        \* closes[c]: how often c's descriptor has been closed
    cmd,           \* cmd[c]: the message a connection of Cmd carries
    lastCmd,       \* active mode: the manager's latest command to this server
    npc,           \* where run(NORMAL) is
    ncur,          \* the message run(NORMAL) holds
    nloop,         \* where run(NORMAL) resumes after hdl_nrl
    kpc,           \* where run(CONTROL) is
    kcur,          \* the message run(CONTROL) holds
    tpc,           \* tpc[t]: where checkpoint thread t is, "none" if absent
    running,       \* is_chkpt_thrd_running
    signal,        \* signal_exit_checkpt_thread
    tmp,           \* names of the received checkpoint files on disk
    stragglers,    \* requests executed since the server was quiesced
    aborted        \* the process has died of an assertion or a bad FILE *

stateVars == <<mode, state, prev_state>>
logVars   == <<is_prune, nrl, ctrl>>
connVars  == <<pc, backlog, closes, cmd, lastCmd>>
nrlVars   == <<npc, ncur, nloop>>
ctrlVars  == <<kpc, kcur>>
chkVars   == <<tpc, running, signal>>
dataVars  == <<tmp, stragglers, aborted>>
vars == <<stateVars, logVars, connVars, nrlVars, ctrlVars, chkVars, dataVars>>

----------------------------------------------------------------------------
(* Vocabulary *)

RepMgrCmds == {"ACTIVE_RUNNING", "ACTIVE_RECOVER",
               "PASSIVE_BACKUP", "PASSIVE_PREPRIMARY"}   \* MSG_REP_MGR
CmdKinds == RepMgrCmds \cup {"SEND_CHKPT", "HEARTBEAT", "QSTART", "QSTOP"}

ConnPCs == {"absent", "classify", "prune", "enqueue", "post", "touch",
            "q1", "q2", "s1", "s2", "done"}
SetPrimaryPCs == {"start", "create", "mark", "prim"}
NrlPCs  == {"top", "drain", "gate", "count", "promo", "pick", "deq",
            "lock", "store", "loop", "reply"} \cup SetPrimaryPCs
CtrlPCs == {"idle", "mode", "kill1", "spin1", "kill2", "spin2", "commit",
            "demand", "export", "reply"}
ChkPCs  == {"none", "check", "doze", "export", "clear"}

Elems(q) == {q[i] : i \in DOMAIN q}

IsBackup == mode = "PASSIVE_REP" /\ state = "PASSIVE_BACKUP"

 
\* Faulty variant: a server on its way to primary sleeps as well.
sleep_preprimary == mode = "PASSIVE_REP" /\ state \in {"PASSIVE_BACKUP", "PASSIVE_PREPRIMARY"}

\* should_nrl_thrd_sleep
should_nrl_thrd_sleep == IsBackup

\* "tmp-%u" of rand() * server_id: distinct on every server but server 0,
\* where the product is always 0.
TmpName(k) == IF ServerId = 0 THEN "tmp-0" ELSE k

\* run(NORMAL) is in search_list's loop, from which it does not return.
Hung == npc = "loop"

\* storage_lock is held by run(NORMAL) from execute_msg's lock to its unlock;
\* the two exporters lock, export and unlock in one action.
StorageLocked == npc = "store" \/ Hung \/ (npc \in SetPrimaryPCs /\ ncur # None)

\* A connection's context is allocated and not yet freed.
Live(c) == c \in Elems(nrl) \cup Elems(ctrl) \cup {ncur, kcur}

Close(c) == closes' = [closes EXCEPT ![c] = @ + 1]

\* Close the descriptor and free the context with what it holds: free_msg, the
\* ends of execute_msg and execute_msg_ctrl, and the _EXIT of
\* handle_connection.
Release(c) == /\ Close(c)
              /\ backlog' = [backlog EXCEPT ![c] = FALSE]
              /\ cmd' = [k \in Cmd |-> IF k = c THEN "none" ELSE cmd[k]]

Threads == {t \in Tid : tpc[t] # "none"}

----------------------------------------------------------------------------
(* Initial state: main has started the workers, nothing has been accepted *)

Init ==
    /\ mode = "UNKNOWN_REP" /\ state = "UNKNOWN_STATE"
    /\ prev_state = "UNKNOWN_STATE"
    /\ is_prune = FALSE /\ nrl = <<>> /\ ctrl = <<>>
    /\ pc = [c \in Conn |-> "absent"]
    /\ backlog = [c \in Conn |-> FALSE]
    /\ closes = [c \in Conn |-> 0]
    /\ cmd = [c \in Cmd |-> "none"]
    /\ lastCmd = "none"
    /\ npc = "top" /\ ncur = None /\ nloop = "top"
    /\ kpc = "idle" /\ kcur = None
    /\ tpc = [t \in Tid |-> "none"] /\ running = FALSE /\ signal = FALSE
    /\ tmp = {} /\ stragglers = 0 /\ aborted = FALSE

----------------------------------------------------------------------------
(* What reaches the server *)

\* Every command the manager has sent to this server has been carried out.
Settled == \A c \in Cmd : cmd[c] \notin {"none", "HEARTBEAT"} =>
               pc[c] \in {"post", "touch", "done"} /\ ~Live(c)

\* The commands handle_state of the replication manager can send next.  In
\* passive mode the role follows reports about other replicas, so any order
\* is possible.  In active mode a server is started RUNNING or joins with
\* RECOVER, and every join brackets a checkpoint with quiesce and stop; the
\* manager sleeps before it quiesces (line 443) and before it stops (458).
RmMaySend(k) ==
    \/ k = "HEARTBEAT" /\ Heartbeats
    \/ /\ DeployedMode = "PASSIVE_REP"
       /\ k \in {"PASSIVE_BACKUP", "PASSIVE_PREPRIMARY", "SEND_CHKPT"}
    \/ /\ DeployedMode = "ACTIVE_REP"
       /\ k \in CASE lastCmd = "none"           -> {"ACTIVE_RUNNING", "ACTIVE_RECOVER"}
                  [] lastCmd = "ACTIVE_RECOVER" -> {"QSTART"}
                  [] lastCmd = "ACTIVE_RUNNING" -> {"QSTART", "ACTIVE_RUNNING"}
                  [] lastCmd = "QSTART"         -> {"SEND_CHKPT", "QSTOP"}
                  [] lastCmd = "SEND_CHKPT"     -> {"QSTOP"}
                  [] lastCmd = "QSTOP"          -> {"ACTIVE_RUNNING", "QSTART"}
       /\ (SleepsSuffice /\ k \in {"QSTART", "QSTOP"}) => Settled

\* main accepts the connection and handle_connection reads the header.
accept_command(c, k) ==
    /\ ~aborted
    /\ pc[c] = "absent"
    /\ RmMaySend(k)
    /\ pc' = [pc EXCEPT ![c] = CASE k = "QSTART" -> "q1"
                                 [] k = "QSTOP"  -> "s1"
                                 [] OTHER        -> "enqueue"]
    /\ cmd' = [cmd EXCEPT ![c] = k]
    /\ lastCmd' = IF DeployedMode = "ACTIVE_REP" /\ k # "HEARTBEAT" THEN k ELSE lastCmd
    /\ UNCHANGED <<stateVars, logVars, backlog, closes, nrlVars, ctrlVars,
                   chkVars, dataVars>>

\* A checkpoint carries a payload, which is written to a file of its own.
handle_connection_payload(k) ==
    /\ ~aborted
    /\ pc[k] = "absent"
    /\ pc' = [pc EXCEPT ![k] = "classify"]
    /\ tmp' = tmp \cup {TmpName(k)}
    /\ UNCHANGED <<stateVars, logVars, backlog, closes, cmd, lastCmd, nrlVars,
                   ctrlVars, chkVars, stragglers, aborted>>

----------------------------------------------------------------------------
(* handle_connection *)

\* enqueue_client_req decides whether the message is backlog from the state
\* of the moment.  For a client's request nothing before it is shared, so
\* accepting the connection and reading the request are part of this step.
enqueue_client_req_classify(c) ==
    /\ ~aborted
    /\ pc[c] = (IF c \in Req THEN "absent" ELSE "classify")
    /\ backlog' = [backlog EXCEPT ![c] = IsBackup]
    /\ pc' = [pc EXCEPT ![c] = IF c \in Chk /\ IsBackup THEN "prune" ELSE "enqueue"]
    /\ UNCHANGED <<stateVars, logVars, closes, cmd, lastCmd, nrlVars, ctrlVars,
                   chkVars, dataVars>>

set_worker_prune(k) ==
    /\ ~aborted
    /\ pc[k] = "prune"
    /\ is_prune' = TRUE
    /\ pc' = [pc EXCEPT ![k] = "enqueue"]
    /\ UNCHANGED <<stateVars, nrl, ctrl, backlog, closes, cmd, lastCmd, nrlVars,
                   ctrlVars, chkVars, dataVars>>

\* Faulty variant: the limit is tested with <=.
enqueue_normal_limit(c) ==
    /\ ~aborted
    /\ c \in Req \cup Chk
    /\ pc[c] = "enqueue"
    /\ Len(nrl) <= NrlLimit
    /\ nrl' = Append(nrl, c)
    /\ pc' = [pc EXCEPT ![c] = "post"]
    /\ UNCHANGED <<stateVars, is_prune, ctrl, backlog, closes, cmd, lastCmd,
                   nrlVars, ctrlVars, chkVars, dataVars>>

\* Faulty variant: a message that was logged falls through to _EXIT.
enqueue_normal_exit(c) ==
    /\ ~aborted
    /\ c \in Req \cup Chk
    /\ pc[c] = "enqueue"
    /\ nrl' = IF Len(nrl) < NrlLimit THEN Append(nrl, c) ELSE nrl
    /\ Release(c)
    /\ pc' = [pc EXCEPT ![c] = "done"]
    /\ UNCHANGED <<stateVars, is_prune, ctrl, lastCmd, nrlVars, ctrlVars,
                   chkVars, dataVars>>

\* enqueue on the NORMAL log; a full log makes handle_connection drop the
\* connection.
enqueue_normal(c) ==
    /\ ~aborted
    /\ c \in Req \cup Chk
    /\ pc[c] = "enqueue"
    /\ IF Len(nrl) < NrlLimit
         THEN /\ nrl' = Append(nrl, c)
              /\ pc' = [pc EXCEPT ![c] = "post"]
              /\ UNCHANGED <<closes, backlog, cmd>>
         ELSE /\ Release(c)
              /\ pc' = [pc EXCEPT ![c] = "done"]
              /\ UNCHANGED nrl
    /\ UNCHANGED <<stateVars, is_prune, ctrl, lastCmd, nrlVars, ctrlVars,
                   chkVars, dataVars>>

\* enqueue on the CONTROL log.
enqueue_control(c) ==
    /\ ~aborted
    /\ c \in Cmd
    /\ pc[c] = "enqueue"
    /\ IF Len(ctrl) < CtrlLimit
         THEN /\ ctrl' = Append(ctrl, c)
              /\ pc' = [pc EXCEPT ![c] = "post"]
              /\ UNCHANGED <<closes, backlog, cmd>>
         ELSE /\ Release(c)
              /\ pc' = [pc EXCEPT ![c] = "done"]
              /\ UNCHANGED ctrl
    /\ UNCHANGED <<stateVars, is_prune, nrl, lastCmd, nrlVars,
                   ctrlVars, chkVars, dataVars>>

\* After the enqueue the thread still looks at the state ...
handle_connection_post(c) ==
    /\ ~aborted
    /\ pc[c] = "post"
    /\ pc' = [pc EXCEPT ![c] = IF mode = "ACTIVE_REP" /\ state = "ACTIVE_RECOVER"
                               THEN "touch" ELSE "done"]
    /\ UNCHANGED <<stateVars, logVars, backlog, closes, cmd, lastCmd, nrlVars,
                   ctrlVars, chkVars, dataVars>>

\* ... and in ACTIVE_RECOVER closes the descriptor of a context it no longer
\* owns.  If a worker has freed the context, what is read is undefined.
handle_connection_touch(c) ==
    /\ ~aborted
    /\ pc[c] = "touch"
    /\ pc' = [pc EXCEPT ![c] = "done"]
    /\ \/ /\ Live(c) => c \in Cmd /\ cmd[c] # "SEND_CHKPT"
          /\ UNCHANGED closes
       \/ /\ Live(c) => ~(c \in Cmd /\ cmd[c] # "SEND_CHKPT")
          /\ Close(c)
    /\ UNCHANGED <<stateVars, logVars, backlog, cmd, lastCmd, nrlVars,
                   ctrlVars, chkVars, dataVars>>

\* Faulty variant: the state is not remembered.
put_in_quiesence_no_save(c) ==
    /\ ~aborted
    /\ pc[c] = "q1"
    /\ pc' = [pc EXCEPT ![c] = "q2"]
    /\ UNCHANGED <<stateVars, logVars, backlog, closes, cmd, lastCmd, nrlVars,
                   ctrlVars, chkVars, dataVars>>

\* Faulty variant: the state is remembered after it has been set.
put_in_quiesence_late_save(c) ==
    /\ ~aborted
    /\ pc[c] = "q1"
    /\ prev_state' = "QUIESCE"
    /\ pc' = [pc EXCEPT ![c] = "q2"]
    /\ UNCHANGED <<mode, state, logVars, backlog, closes, cmd, lastCmd, nrlVars,
                   ctrlVars, chkVars, dataVars>>

\* put_in_quiesence, in the connection's own thread: remember the state ...
put_in_quiesence_save(c) ==
    /\ ~aborted
    /\ pc[c] = "q1"
    /\ prev_state' = state
    /\ pc' = [pc EXCEPT ![c] = "q2"]
    /\ UNCHANGED <<mode, state, logVars, backlog, closes, cmd, lastCmd, nrlVars,
                   ctrlVars, chkVars, dataVars>>

\* ... then set_state(QUIESCE).
put_in_quiesence_set(c) ==
    /\ ~aborted
    /\ pc[c] = "q2"
    /\ pc' = [pc EXCEPT ![c] = "done"]
    /\ aborted' = ~LegalState(mode, "QUIESCE")
    /\ state' = IF aborted' THEN state ELSE "QUIESCE"
    /\ stragglers' = 0
    /\ Release(c)
    /\ UNCHANGED <<mode, prev_state, logVars, lastCmd, nrlVars, ctrlVars,
                   chkVars, tmp>>

\* remove_from_quiesence: set_state(prev_state) ...
remove_from_quiesence_set(c) ==
    /\ ~aborted
    /\ pc[c] = "s1"
    /\ pc' = [pc EXCEPT ![c] = "s2"]
    /\ aborted' = ~LegalState(mode, prev_state)
    /\ state' = IF aborted' THEN state ELSE prev_state
    /\ UNCHANGED <<mode, prev_state, logVars, backlog, closes, cmd, lastCmd,
                   nrlVars, ctrlVars, chkVars, tmp, stragglers>>

\* ... then prev_state = get_state().
remove_from_quiesence_save(c) ==
    /\ ~aborted
    /\ pc[c] = "s2"
    /\ prev_state' = state
    /\ pc' = [pc EXCEPT ![c] = "done"]
    /\ Release(c)
    /\ UNCHANGED <<mode, state, logVars, lastCmd, nrlVars, ctrlVars, chkVars,
                   dataVars>>

----------------------------------------------------------------------------
(* run(NORMAL) *)

\* The test of is_prune at the top of the loop.
run_top ==
    /\ ~aborted
    /\ npc = "top"
    /\ npc' = IF is_prune THEN "drain" ELSE "gate"
    /\ UNCHANGED <<stateVars, logVars, connVars, ncur, nloop, ctrlVars,
                   chkVars, dataVars>>

\* One turn of the prune loop: discard a request, or execute a checkpoint,
\* which ends the pruning but not the loop.
run_prune ==
    /\ ~aborted
    /\ npc = "drain" /\ nrl # <<>>
    /\ nrl' = Tail(nrl)
    /\ IF Head(nrl) \in Chk
         THEN /\ is_prune' = FALSE
              /\ ncur' = Head(nrl) /\ nloop' = "drain" /\ npc' = "lock"
              /\ UNCHANGED <<closes, backlog, cmd>>
         ELSE /\ Release(Head(nrl))
              /\ UNCHANGED <<is_prune, ncur, nloop, npc>>
    /\ UNCHANGED <<stateVars, ctrl, pc, lastCmd, ctrlVars, chkVars, dataVars>>

run_prune_end ==
    /\ ~aborted
    /\ npc = "drain" /\ nrl = <<>>
    /\ npc' = "gate"
    /\ UNCHANGED <<stateVars, logVars, connVars, ncur, nloop, ctrlVars,
                   chkVars, dataVars>>

\* A backup with nothing to prune sleeps and starts over.
run_gate ==
    /\ ~aborted
    /\ npc = "gate"
    /\ npc' = IF ~is_prune /\ should_nrl_thrd_sleep THEN "top" ELSE "count"
    /\ UNCHANGED <<stateVars, logVars, connVars, ncur, nloop, ctrlVars,
                   chkVars, dataVars>>

\* Faulty variant: the log is taken to hold something.
run_count_untested ==
    /\ ~aborted
    /\ npc = "count"
    /\ npc' = "pick"
    /\ UNCHANGED <<stateVars, logVars, connVars, ncur, nloop, ctrlVars,
                   chkVars, dataVars>>

\* n_count = get_count(svr, NORMAL); what follows depends on n_count == 0.
run_count ==
    /\ ~aborted
    /\ npc = "count"
    /\ npc' = IF nrl = <<>> THEN "promo" ELSE "pick"
    /\ UNCHANGED <<stateVars, logVars, connVars, ncur, nloop, ctrlVars,
                   chkVars, dataVars>>

\* A server being promoted whose log was empty becomes primary.
run_promote ==
    /\ ~aborted
    /\ npc = "promo"
    /\ npc' = IF mode = "PASSIVE_REP" /\ state = "PASSIVE_PREPRIMARY"
              THEN "start" ELSE "top"
    /\ UNCHANGED <<stateVars, logVars, connVars, ncur, nloop, ctrlVars,
                   chkVars, dataVars>>

\* Faulty variant: QUIESCE is not tested.
run_pick_always ==
    /\ ~aborted
    /\ npc = "pick"
    /\ npc' = "deq"
    /\ UNCHANGED <<stateVars, logVars, connVars, ncur, nloop, ctrlVars,
                   chkVars, dataVars>>

\* Faulty variant: only a primary executes its log.
run_pick_primary ==
    /\ ~aborted
    /\ npc = "pick"
    /\ npc' = IF state = "PASSIVE_PRIMARY" THEN "deq" ELSE "top"
    /\ UNCHANGED <<stateVars, logVars, connVars, ncur, nloop, ctrlVars,
                   chkVars, dataVars>>

\* A quiesced server leaves its log alone.
run_pick ==
    /\ ~aborted
    /\ npc = "pick"
    /\ npc' = IF state # "QUIESCE" THEN "deq" ELSE "top"
    /\ UNCHANGED <<stateVars, logVars, connVars, ncur, nloop, ctrlVars,
                   chkVars, dataVars>>

run_dequeue ==
    /\ ~aborted
    /\ npc = "deq"
    /\ nrl' = Tail(nrl)
    /\ ncur' = Head(nrl) /\ nloop' = "top" /\ npc' = "lock"
    /\ UNCHANGED <<stateVars, is_prune, ctrl, connVars, ctrlVars,
                   chkVars, dataVars>>

\* execute_msg takes storage_lock; the first message that is not backlog
\* completes a promotion.
execute_msg_lock ==
    /\ ~aborted
    /\ npc = "lock"
    /\ npc' = IF /\ mode = "PASSIVE_REP" /\ state = "PASSIVE_PREPRIMARY"
                 /\ ~backlog[ncur]
              THEN "start" ELSE "store"
    /\ UNCHANGED <<stateVars, logVars, connVars, ncur, nloop, ctrlVars,
                   chkVars, dataVars>>

\* Faulty variant: is_chkpt_thrd_running is not tested.
start_ckhpt_thread_untested ==
    /\ ~aborted
    /\ npc = "start"
    /\ npc' = "create"
    /\ UNCHANGED <<stateVars, logVars, connVars, ncur, nloop, ctrlVars,
                   chkVars, dataVars>>

\* set_state(PASSIVE_PRIMARY) calls start_ckhpt_thread: test the flag, ...
start_ckhpt_thread_test ==
    /\ ~aborted
    /\ npc = "start"
    /\ npc' = IF running THEN "prim" ELSE "create"
    /\ UNCHANGED <<stateVars, logVars, connVars, ncur, nloop, ctrlVars,
                   chkVars, dataVars>>

\* ... create the thread, ...
start_ckhpt_thread_create(t) ==
    /\ ~aborted
    /\ npc = "create"
    /\ tpc[t] = "none"
    /\ tpc' = [tpc EXCEPT ![t] = "check"]
    /\ npc' = "mark"
    /\ UNCHANGED <<stateVars, logVars, connVars, ncur, nloop, ctrlVars,
                   running, signal, dataVars>>

\* ... and only then raise the flag.
start_ckhpt_thread_mark ==
    /\ ~aborted
    /\ npc = "mark"
    /\ running' = TRUE
    /\ npc' = "prim"
    /\ UNCHANGED <<stateVars, logVars, connVars, ncur, nloop, ctrlVars,
                   tpc, signal, dataVars>>

\* The assignment at the end of set_state(PASSIVE_PRIMARY); the caller is
\* execute_msg when a message is held and the loop of run otherwise.
set_state_primary ==
    /\ ~aborted
    /\ npc = "prim"
    /\ state' = "PASSIVE_PRIMARY"
    /\ npc' = IF ncur = None THEN "top" ELSE "store"
    /\ UNCHANGED <<mode, prev_state, logVars, connVars, ncur, nloop,
                   ctrlVars, chkVars, dataVars>>

\* handle_storage returns, and the unlock.  Importing a checkpoint opens the file and
\* removes it afterwards; a missing file is read through a NULL FILE pointer.
execute_msg_store ==
    /\ ~aborted
    /\ npc = "store"
    /\ npc' = "reply"
    /\ aborted' = (ncur \in Chk /\ TmpName(ncur) \notin tmp)
    /\ tmp' = IF ncur \in Chk THEN tmp \ {TmpName(ncur)} ELSE tmp
    /\ stragglers' = IF state = "QUIESCE" /\ stragglers < 2 THEN stragglers + 1
                                                            ELSE stragglers
    /\ UNCHANGED <<stateVars, logVars, connVars, ncur, nloop, ctrlVars,
                   chkVars>>

\* handle_storage of a MODIFY whose key is not the first of its bucket: no
\* turn of search_list's loop advances, and storage_lock stays held.  Which
\* requests meet such a bucket depends on the table (TaskStore); here any may.
search_list ==
    /\ ~aborted
    /\ npc \in {"store", "loop"} /\ ncur \in Req
    /\ npc' = "loop"
    /\ UNCHANGED <<stateVars, logVars, connVars, ncur, nloop, ctrlVars,
                   chkVars, dataVars>>

\* The answer is written, the descriptor closed and the context freed.
execute_msg_reply ==
    /\ ~aborted
    /\ npc = "reply"
    /\ Release(ncur)
    /\ ncur' = None
    /\ npc' = nloop /\ nloop' = "top"
    /\ UNCHANGED <<stateVars, logVars, pc, lastCmd, ctrlVars, chkVars, dataVars>>

----------------------------------------------------------------------------
(* run(CONTROL) *)

run_control_dequeue ==
    /\ ~aborted
    /\ kpc = "idle" /\ ctrl # <<>>
    /\ ctrl' = Tail(ctrl)
    /\ kcur' = Head(ctrl)
    /\ kpc' = CASE cmd[Head(ctrl)] \in RepMgrCmds  -> "mode"
                [] cmd[Head(ctrl)] = "SEND_CHKPT"  -> "demand"
                [] OTHER                           -> "reply"
    /\ UNCHANGED <<stateVars, is_prune, nrl, connVars, nrlVars, chkVars, dataVars>>

\* Faulty variant: the mode is never set.
set_mode_never ==
    /\ ~aborted
    /\ kpc = "mode"
    /\ kpc' = "kill1"
    /\ UNCHANGED <<stateVars, logVars, connVars, nrlVars, kcur, chkVars, dataVars>>

\* handle_rep_msg: the first command fixes the mode.
set_mode ==
    /\ ~aborted
    /\ kpc = "mode"
    /\ mode' = IF mode = "UNKNOWN_REP" THEN DeployedMode ELSE mode
    /\ kpc' = "kill1"
    /\ UNCHANGED <<state, prev_state, logVars, connVars, nrlVars, kcur, chkVars,
                   dataVars>>

\* kill_chkpt_thrd_if_running: signal the thread and spin until it clears
\* the signal.  handle_rep_msg calls it, and set_state(PASSIVE_BACKUP)
\* calls it again; stop is where the caller waits and go where it resumes.
kill_chkpt_thrd_if_running(here, stop, go) ==
    /\ kpc = here
    /\ signal' = (running \/ signal)
    /\ kpc' = IF running THEN stop ELSE go

stop_chk_pt_thread_spin(stop, go) ==
    /\ kpc = stop /\ ~signal
    /\ kpc' = go
    /\ UNCHANGED signal

\* The call in handle_rep_msg; set_bckup_servers and set_checkpoint_freq
\* follow it.
handle_rep_msg_kill ==
    /\ ~aborted
    /\ \/ kill_chkpt_thrd_if_running("kill1", "spin1", "kill2")
       \/ stop_chk_pt_thread_spin("spin1", "kill2")
    /\ UNCHANGED <<stateVars, logVars, connVars, nrlVars, kcur, tpc, running,
                   dataVars>>

\* set_state of the commanded state: its assertions, and for PASSIVE_BACKUP
\* the second kill.
set_state_check ==
    /\ ~aborted
    /\ \/ /\ kpc = "kill2"
          /\ aborted' = ~LegalState(mode, cmd[kcur])
          /\ IF cmd[kcur] = "PASSIVE_BACKUP"
               THEN kill_chkpt_thrd_if_running("kill2", "spin2", "commit")
               ELSE kpc' = "commit" /\ UNCHANGED signal
       \/ stop_chk_pt_thread_spin("spin2", "commit") /\ UNCHANGED aborted
    /\ UNCHANGED <<stateVars, logVars, connVars, nrlVars, kcur, tpc, running,
                   tmp, stragglers>>

\* The assignment at the end of set_state.
set_state_commit ==
    /\ ~aborted
    /\ kpc = "commit"
    /\ state' = cmd[kcur]
    /\ kpc' = "reply"
    /\ UNCHANGED <<mode, prev_state, logVars, connVars, nrlVars, kcur, chkVars,
                   dataVars>>

\* MSG_SEND_CHKPT is ignored by a server that is itself recovering.
execute_msg_ctrl_demand ==
    /\ ~aborted
    /\ kpc = "demand"
    /\ kpc' = IF prev_state # "ACTIVE_RECOVER" THEN "export" ELSE "reply"
    /\ UNCHANGED <<stateVars, logVars, connVars, nrlVars, kcur, chkVars, dataVars>>

\* send_checkpoint_ondemand: export under storage_lock, then send.
send_checkpoint_ondemand ==
    /\ ~aborted
    /\ kpc = "export" /\ ~StorageLocked
    /\ kpc' = "reply"
    /\ UNCHANGED <<stateVars, logVars, connVars, nrlVars, kcur, chkVars, dataVars>>

execute_msg_ctrl_reply ==
    /\ ~aborted
    /\ kpc = "reply"
    /\ Release(kcur)
    /\ kcur' = None
    /\ kpc' = "idle"
    /\ UNCHANGED <<stateVars, logVars, pc, lastCmd, nrlVars, chkVars, dataVars>>

----------------------------------------------------------------------------
(* send_checkpoint, the periodic checkpoint thread *)

\* The test of the signal, once per second of the waiting loop.
send_checkpoint_check(t) ==
    /\ ~aborted
    /\ tpc[t] = "check"
    /\ tpc' = [tpc EXCEPT ![t] = IF signal THEN "clear" ELSE "doze"]
    /\ signal' = FALSE
    /\ UNCHANGED <<stateVars, logVars, connVars, nrlVars, ctrlVars, running,
                   dataVars>>

\* The second passes; after checkpoint_freq of them the loop is left.
send_checkpoint_wait(t) ==
    /\ ~aborted
    /\ tpc[t] = "doze"
    /\ \E next \in {"check", "export"} : tpc' = [tpc EXCEPT ![t] = next]
    /\ UNCHANGED <<stateVars, logVars, connVars, nrlVars, ctrlVars, running,
                   signal, dataVars>>

\* Export under storage_lock and send to both backups.
send_checkpoint_export(t) ==
    /\ ~aborted
    /\ tpc[t] = "export" /\ ~StorageLocked
    /\ tpc' = [tpc EXCEPT ![t] = "check"]
    /\ UNCHANGED <<stateVars, logVars, connVars, nrlVars, ctrlVars, running,
                   signal, dataVars>>

\* The signal has been cleared; only now the running flag, and the end.
send_checkpoint_exit(t) ==
    /\ ~aborted
    /\ tpc[t] = "clear"
    /\ running' = FALSE
    /\ tpc' = [tpc EXCEPT ![t] = "none"]
    /\ UNCHANGED <<stateVars, logVars, connVars, nrlVars, ctrlVars, signal,
                   dataVars>>

----------------------------------------------------------------------------
(* Threads and specification *)

ConnectionThread(c) ==
    \/ enqueue_client_req_classify(c) /\ c \in Chk
    \/ set_worker_prune(c)
    \/ enqueue_normal(c)
    \/ enqueue_control(c)
    \/ handle_connection_post(c)
    \/ handle_connection_touch(c)
    \/ put_in_quiesence_save(c)
    \/ put_in_quiesence_set(c)
    \/ remove_from_quiesence_set(c)
    \/ remove_from_quiesence_save(c)

NormalWorker ==
    \/ run_top
    \/ run_prune
    \/ run_prune_end
    \/ run_gate
    \/ run_count
    \/ run_promote
    \/ run_pick
    \/ run_dequeue
    \/ execute_msg_lock
    \/ start_ckhpt_thread_test
    \/ \E t \in Tid : start_ckhpt_thread_create(t)
    \/ start_ckhpt_thread_mark
    \/ set_state_primary
    \/ execute_msg_store
    \/ search_list
    \/ execute_msg_reply

ControlWorker ==
    \/ run_control_dequeue
    \/ set_mode
    \/ handle_rep_msg_kill
    \/ set_state_check
    \/ set_state_commit
    \/ execute_msg_ctrl_demand
    \/ send_checkpoint_ondemand
    \/ execute_msg_ctrl_reply

CheckpointThread(t) ==
    \/ send_checkpoint_check(t)
    \/ send_checkpoint_wait(t)
    \/ send_checkpoint_export(t)
    \/ send_checkpoint_exit(t)

Environment ==
    \/ \E c \in Cmd, k \in CmdKinds : accept_command(c, k)
    \/ \E k \in Chk : handle_connection_payload(k)
    \/ \E r \in Req : enqueue_client_req_classify(r)

Next ==
    \/ Environment
    \/ \E c \in Conn : ConnectionThread(c)
    \/ NormalWorker
    \/ ControlWorker
    \/ \E t \in Tid : CheckpointThread(t)

Spec == Init /\ [][Next]_vars

\* Every thread is scheduled by the kernel; nobody is obliged to connect.
Fairness ==
    /\ WF_vars(NormalWorker)
    /\ WF_vars(ControlWorker)
    /\ \A c \in Conn : WF_vars(ConnectionThread(c))
    /\ \A t \in Tid : WF_vars(CheckpointThread(t))

FairSpec == Spec /\ Fairness

----------------------------------------------------------------------------
(* Properties *)

\* Every variable keeps its type; the logs never exceed their limits.
TypeOK ==
    /\ mode \in {"UNKNOWN_REP", DeployedMode}
    /\ state \in States /\ prev_state \in States
    /\ is_prune \in BOOLEAN
    /\ nrl \in Seq(Req \cup Chk) /\ Len(nrl) <= NrlLimit
    /\ ctrl \in Seq(Cmd) /\ Len(ctrl) <= CtrlLimit
    /\ pc \in [Conn -> ConnPCs]
    /\ backlog \in [Conn -> BOOLEAN]
    /\ closes \in [Conn -> Nat]
    /\ cmd \in [Cmd -> CmdKinds \cup {"none"}]
    /\ lastCmd \in CmdKinds \cup {"none"}
    /\ npc \in NrlPCs /\ ncur \in Req \cup Chk \cup {None}
    /\ nloop \in {"top", "drain"}
    /\ kpc \in CtrlPCs /\ kcur \in Cmd \cup {None}
    /\ tpc \in [Tid -> ChkPCs] /\ running \in BOOLEAN /\ signal \in BOOLEAN
    /\ tmp \subseteq Chk \cup {"tmp-0"}
    /\ stragglers \in 0..2 /\ aborted \in BOOLEAN

NoDup(q) == \A i, j \in DOMAIN q : q[i] = q[j] => i = j

\* A connection whose thread has given its context to a log.
Handed == {"post", "touch", "done"}

RepMgrPCs == {"mode", "kill1", "spin1", "kill2", "spin2", "commit"}

\* What each worker knows at each of its steps: the normal worker found the
\* log not empty and only it removes; the message a worker handles is there;
\* the mode is set before the first state.
WorkerInv ==
    /\ npc \in {"pick", "deq"} => nrl # <<>>
    /\ npc \in {"lock", "store", "loop", "reply"} => ncur # None
    /\ kpc # "idle" => kcur # None
    /\ kpc \in RepMgrPCs => cmd[kcur] \in RepMgrCmds
    /\ kpc \in RepMgrPCs \ {"mode"} => mode = DeployedMode

\* A context is in one place: in one log once, or with one worker, and its
\* connection's thread has let go of it.
OwnerInv ==
    /\ NoDup(nrl) /\ NoDup(ctrl)
    /\ ncur \notin Elems(nrl) /\ kcur \notin Elems(ctrl)
    /\ \A c \in Conn : Live(c) => pc[c] \in Handed

\* What holds besides in passive mode: no quiesce, nobody touches a context
\* it has handed over, and a checkpoint's file waits for its import.
PassiveInv == DeployedMode = "PASSIVE_REP" =>
    /\ \A c \in Conn : pc[c] \notin {"touch", "q1", "q2", "s1", "s2"}
    /\ \A c \in Conn : closes[c] <= 1
    /\ \A c \in Conn : Live(c) \/ pc[c] \notin Handed => closes[c] = 0
    /\ \A c \in Cmd : cmd[c] \notin {"ACTIVE_RUNNING", "ACTIVE_RECOVER"}
    /\ \A k \in Chk : (/\ ServerId # 0
                        /\ \/ k \in Elems(nrl)
                           \/ k = ncur /\ npc # "reply"
                           \/ pc[k] \notin Handed \cup {"absent"})
                       => k \in tmp
    /\ ServerId # 0 => ~aborted

\* The checkpoint thread and its flag: without the flag there is no thread,
\* except between the creation and the raising of the flag.
ChkptInv ==
    /\ \A t, u \in Threads : t = u
    /\ npc = "create" => Threads = {}
    /\ ~running /\ npc # "mark" => Threads = {}

\* The inductive invariant: it implies AtMostOneChkptThread in both modes,
\* and ReleasedOnce and NoAbort in passive mode.
ServerInv == TypeOK /\ WorkerInv /\ OwnerInv /\ PassiveInv /\ ChkptInv

\* At most one checkpoint thread exists: start_ckhpt_thread creates the
\* thread before it raises is_chkpt_thrd_running, and the thread clears the
\* exit signal before it lowers the flag, yet no interleaving of promotions
\* and demotions starts a second one.
AtMostOneChkptThread == \A t, u \in Threads : t = u

\* The process never dies of set_state's assertions or of a checkpoint file
\* that is no longer there.
NoAbort == ~aborted

\* The server has carried out a role, and a stop command would give it back
\* one that it had.
Ready == "UNKNOWN_STATE" \notin {state, prev_state}

\* A process that is ready never dies of set_state's assertions or of a missing
\* checkpoint file, and never stops being ready, however commands overtake
\* each other between their connections' threads and the control log.
ReadyNeverDies == [][Ready /\ ~aborted => Ready' /\ ~aborted']_vars

\* A connection is closed at most once, and its context is not in a log or in
\* a worker's hands once it has been: handle_connection, the prune loop and
\* the two workers never release the same context.
ReleasedOnce == \A c \in Conn : closes[c] <= 1 /\ (closes[c] = 1 => ~Live(c))

\* When QUIESCE takes effect the normal worker may already have passed its
\* test of the state: one request is still executed, never a second.
AtMostOneStraggler == stragglers <= 1

\* After the manager's stop command has been carried out the server is not
\* left in QUIESCE, whatever the control worker did in between.
ResumesAfterQuiesce == lastCmd = "QSTOP" /\ Settled => state # "QUIESCE"

\* A backup becomes primary only by a PASSIVE_PREPRIMARY command: no step
\* takes it from BACKUP to PRIMARY.
NoSelfPromotion ==
    [][~(state = "PASSIVE_BACKUP" /\ state' = "PASSIVE_PRIMARY")]_vars

\* The prune loop discards a request only for a checkpoint that is ahead of
\* the worker: queued behind the request, or in its connection's thread.
DiscardedOnlyIfCovered ==
    [][(npc = "drain" /\ nrl # <<>> /\ Head(nrl) \in Req /\ nrl' = Tail(nrl)) =>
          \E k \in Chk : k \in Elems(nrl) \/ pc[k] \in {"prune", "enqueue"}]_vars

\* A server told to take over becomes primary or is given another role: its
\* worker works off the backlog it found, or hangs for ever on a request of
\* it in search_list's loop, which is the only thing that can keep it.
PromotionCompletes ==
    state = "PASSIVE_PREPRIMARY" ~> (state # "PASSIVE_PREPRIMARY" \/ Hung)

\* On a server that does not stay a backup, in particular one that was a
\* backup when the request was logged and is promoted later, every logged
\* request is answered or discarded, unless the worker hangs on one of them.
LoggedIsReleased ==
    <>[]~IsBackup =>
        \A r \in Req : pc[r] = "post" ~> (closes[r] > 0 \/ Hung)

\* A message that reached the control log is answered; heartbeats go this way.
ControlAnswers ==
    \A c \in Cmd : c \in Elems(ctrl) ~> closes[c] > 0

====
