---- MODULE ServerActiveProofs ----
(***************************************************************************)
(* Proofs about one server process in active replication, where every join *)
(* of a replica brackets a checkpoint with quiesce and stop commands that  *)
(* the connections' own threads carry out beside the two workers.          *)
(* OneStraggler and Resumes assume that the manager's sleeps outlast the   *)
(* work they wait for, ReadyServerLives does not.                          *)
(***************************************************************************)
EXTENDS ServerProofs

USE DEF stateVars, logVars, connVars, nrlVars, ctrlVars, chkVars, dataVars

\* Commands of the manager that have reached the server and have not been
\* carried out.
Pending == {c \in Cmd : cmd[c] \notin {"none", "HEARTBEAT"}}

Roles == {"ACTIVE_RUNNING", "ACTIVE_RECOVER"}

\* The commands that may be pending after the latest one.
MayBePending(last) ==
    CASE last = "ACTIVE_RECOVER" -> {"ACTIVE_RECOVER"}
      [] last = "ACTIVE_RUNNING" -> {"ACTIVE_RUNNING", "QSTOP"}
      [] last = "QSTART"         -> {"QSTART"}
      [] last = "SEND_CHKPT"     -> {"QSTART", "SEND_CHKPT"}
      [] last = "QSTOP"          -> {"QSTOP"}
      [] OTHER                   -> {}

\* Where a message of the factory or the detector is, from its header to its
\* release: with its thread, in the control log or with the control worker.
CommandInv ==
    /\ \A c \in Conn : pc[c] \in {"q1", "q2"} <=> c \in Cmd /\ cmd[c] = "QSTART"
    /\ \A c \in Conn : pc[c] \in {"s1", "s2"} <=> c \in Cmd /\ cmd[c] = "QSTOP"
    /\ \A c \in Cmd : cmd[c] # "none" <=>
          \/ pc[c] \in {"enqueue", "q1", "q2", "s1", "s2"}
          \/ c \in Elems(ctrl) \cup {kcur}
    /\ \A c \in Cmd : pc[c] \notin {"classify", "prune"}
    /\ kpc = "idle" => kcur = None
    /\ lastCmd \in {"none", "QSTART", "SEND_CHKPT", "QSTOP"} \cup Roles

\* The bracket: one quiesce or stop is under way at a time, QUIESCE is never
\* the state to return to, and QUIESCE lasts from the quiesce command to the
\* stop command.
BracketInv ==
    /\ \A c \in Pending : cmd[c] \in MayBePending(lastCmd)
    /\ \A c, d \in Cmd : cmd[c] = cmd[d] /\ cmd[c] \in {"QSTART", "QSTOP"} => c = d
    /\ prev_state # "QUIESCE"
    /\ state = "QUIESCE" =>
          \/ /\ lastCmd \in {"QSTART", "SEND_CHKPT"}
             /\ \A c \in Cmd : cmd[c] # "QSTART"
          \/ \E c \in Cmd : cmd[c] = "QSTOP" /\ (pc[c] = "s1" \/ aborted)

\* In active mode nothing is pruned and nobody is promoted.
IdleInv ==
    /\ ~is_prune /\ nloop = "top"
    /\ \A c \in Conn : pc[c] # "prune"
    /\ npc \notin {"drain"} \cup SetPrimaryPCs

\* Once a request has been executed in QUIESCE the normal worker is no longer
\* past its test of the state.
StragglerInv ==
    /\ stragglers <= 1
    /\ state = "QUIESCE" /\ stragglers = 1 => npc \notin {"deq", "lock", "store"}

----------------------------------------------------------------------------
(* Where a command is *)

\* The head and the tail of a log are all of it.
LEMMA ElemsSplit ==
  ASSUME NEW S, NEW s \in Seq(S), s # <<>>
  PROVE  Elems(s) = Elems(Tail(s)) \cup {Head(s)}
  <1>1. /\ Len(s) \in Nat \ {0} /\ DOMAIN s = 1 .. Len(s)
        /\ DOMAIN Tail(s) = 1 .. Len(s) - 1 /\ Head(s) = s[1]
    OBVIOUS
  <1>2. \A i \in 1 .. Len(s) - 1 : Tail(s)[i] = s[i + 1]
    OBVIOUS
  <1>3. ASSUME NEW i \in 1 .. Len(s)
        PROVE  s[i] \in Elems(Tail(s)) \cup {Head(s)}
    <2>1. CASE i = 1
      BY <1>1, <2>1
    <2>2. CASE i # 1
      <3>1. i - 1 \in 1 .. Len(s) - 1 /\ Tail(s)[i - 1] = s[i]
        BY <1>1, <1>2, <2>2
      <3> QED BY <1>1, <3>1 DEF Elems
    <2> QED BY <2>1, <2>2
  <1>4. Elems(s) \subseteq Elems(Tail(s)) \cup {Head(s)}
    BY <1>1, <1>3 DEF Elems
  <1> QED BY <1>4, ElemsTail

\* No command has been sent.
LEMMA CommandInit == Init => CommandInv
  BY ConnAssumption DEF Init, CommandInv, Elems, Conn

\* Steps that move no command keep the invariant.
LEMMA CommandFrame ==
  ASSUME CommandInv, UNCHANGED <<ctrl, kcur, lastCmd>>,
         kpc' = "idle" => kpc = "idle",
         \A c \in Cmd : cmd'[c] = cmd[c],
         \A c \in Conn :
            \/ pc'[c] = pc[c]
            \/ {pc[c], pc'[c]} \subseteq {"q1", "q2"}
            \/ {pc[c], pc'[c]} \subseteq {"s1", "s2"}
            \/ /\ {pc[c], pc'[c]} \cap {"q1", "q2", "s1", "s2"} = {}
               /\ c \in Cmd => /\ pc[c] # "enqueue"
                               /\ pc'[c] \notin {"enqueue", "classify", "prune"},
         Elems(ctrl) \subseteq Cmd, kcur \in Cmd \cup {None}
  PROVE  CommandInv'
  <1>1. Elems(ctrl') = Elems(ctrl)
    BY DEF Elems
  <1>2. Cmd \subseteq Conn
    BY DEF Conn
  <1>3. \A c \in Conn : pc'[c] \in {"q1", "q2"} <=> pc[c] \in {"q1", "q2"}
    OBVIOUS
  <1>4. \A c \in Conn : pc'[c] \in {"s1", "s2"} <=> pc[c] \in {"s1", "s2"}
    OBVIOUS
  <1>5. \A c \in Cmd : /\ pc[c] = "enqueue" <=> pc'[c] = "enqueue"
                       /\ pc'[c] \notin {"classify", "prune"}
    BY <1>2 DEF CommandInv
  <1> QED BY <1>1, <1>2, <1>3, <1>4, <1>5 DEF CommandInv

\* The release of a context that carries no command.
LEMMA OtherRelease ==
  ASSUME TypeOK, NEW c \in Req \cup Chk, Release(c)
  PROVE  \A d \in Cmd : cmd'[d] = cmd[d]
  BY ConnAssumption DEF Release, TypeOK

\* The release of a command whose thread, or whose worker, is done with it.
LEMMA CommandRelease ==
  ASSUME TypeOK, OwnerInv, CommandInv, NEW c \in Cmd, Release(c),
         UNCHANGED <<ctrl, lastCmd>>, c \notin Elems(ctrl),
         kcur' = (IF kcur = c THEN None ELSE kcur),
         kpc' = "idle" => kpc = "idle" \/ kcur' = None,
         \A d \in Conn : \/ pc'[d] = pc[d] /\ (d = c => kcur = c)
                         \/ pc'[d] = "done" /\ d = c
  PROVE  CommandInv'
  <1>1. Elems(ctrl') = Elems(ctrl) /\ Elems(ctrl) \subseteq Cmd
    BY ElemsType DEF Elems
  <1>2. Cmd \subseteq Conn /\ kcur \in Cmd \cup {None} /\ None \notin Cmd
    BY ConnAssumption DEF Conn, TypeOK
  <1>3. \A d \in Cmd : cmd'[d] = IF d = c THEN "none" ELSE cmd[d]
    BY DEF Release
  <1>4. kcur = c => pc[c] \in Handed
    BY <1>2 DEF OwnerInv, Live
  <1>5. pc'[c] \notin {"q1", "q2", "s1", "s2"}
    BY <1>2, <1>4 DEF Handed
  <1>6. \A d \in Conn \ {c} : pc'[d] = pc[d]
    OBVIOUS
  <1>7. \A d \in Conn : pc'[d] \in {"q1", "q2"} <=> d \in Cmd /\ cmd'[d] = "QSTART"
    BY <1>3, <1>5, <1>6 DEF CommandInv
  <1>8. \A d \in Conn : pc'[d] \in {"s1", "s2"} <=> d \in Cmd /\ cmd'[d] = "QSTOP"
    BY <1>3, <1>5, <1>6 DEF CommandInv
  <1>9. \A d \in Cmd : cmd'[d] # "none" <=>
          \/ pc'[d] \in {"enqueue", "q1", "q2", "s1", "s2"}
          \/ d \in Elems(ctrl') \cup {kcur'}
    <2>1. pc'[c] # "enqueue" /\ c # kcur'
      BY <1>2, <1>4 DEF Handed
    <2> QED BY <1>1, <1>2, <1>3, <1>5, <1>6, <2>1 DEF CommandInv
  <1>10. \A d \in Cmd : pc'[d] \notin {"classify", "prune"}
    BY <1>2 DEF CommandInv
  <1>11. kpc' = "idle" => kcur' = None
    BY <1>2 DEF CommandInv
  <1> QED BY <1>7, <1>8, <1>9, <1>10, <1>11 DEF CommandInv

\* The threads of the connections.
LEMMA CommandConnection ==
  ASSUME TypeOK, OwnerInv, CommandInv, NEW c \in Conn, ConnectionThread(c)
  PROVE  CommandInv'
  <1>1. /\ pc \in [Conn -> ConnPCs] /\ Cmd \subseteq Conn
        /\ Elems(ctrl) \subseteq Cmd /\ kcur \in Cmd \cup {None}
        /\ (Req \cup Chk) \cap Cmd = {}
    BY ElemsType, ConnAssumption DEF TypeOK, Conn
  <1>2. CASE \/ enqueue_client_req_classify(c) /\ c \in Chk
             \/ set_worker_prune(c) \/ handle_connection_post(c)
             \/ handle_connection_touch(c) \/ put_in_quiesence_save(c)
             \/ remove_from_quiesence_set(c)
    <2>1. /\ UNCHANGED <<ctrl, kcur, kpc, cmd, lastCmd>>
          /\ \A d \in Conn \ {c} : pc'[d] = pc[d]
          /\ \/ {pc[c], pc'[c]} \subseteq {"q1", "q2"}
             \/ {pc[c], pc'[c]} \subseteq {"s1", "s2"}
             \/ /\ {pc[c], pc'[c]} \cap {"q1", "q2", "s1", "s2"} = {}
                /\ c \in Cmd => /\ pc[c] # "enqueue"
                                /\ pc'[c] \notin {"enqueue", "classify", "prune"}
      BY <1>1, <1>2
      DEF enqueue_client_req_classify, set_worker_prune, handle_connection_post,
          handle_connection_touch, put_in_quiesence_save,
          remove_from_quiesence_set, CommandInv
    <2> QED BY <1>1, <2>1, CommandFrame
  <1>3. CASE enqueue_normal(c)
    <2>1. /\ c \in Req \cup Chk /\ c \notin Cmd
          /\ UNCHANGED <<ctrl, kcur, kpc, lastCmd>> /\ pc[c] = "enqueue"
          /\ pc' = [pc EXCEPT ![c] = pc'[c]] /\ pc'[c] \in {"post", "done"}
      BY <1>1, <1>3 DEF enqueue_normal
    <2>2. \A d \in Cmd : cmd'[d] = cmd[d]
      BY <1>3, <2>1, OtherRelease DEF enqueue_normal
    <2>3. \A d \in Conn : \/ pc'[d] = pc[d]
                          \/ /\ {pc[d], pc'[d]} \cap {"q1", "q2", "s1", "s2"} = {}
                             /\ d \notin Cmd
      BY <1>1, <2>1
    <2> QED BY <1>1, <2>1, <2>2, <2>3, CommandFrame
  <1>4. CASE enqueue_control(c)
    <2>1. /\ c \in Cmd /\ pc[c] = "enqueue" /\ UNCHANGED <<kcur, kpc, lastCmd>>
      BY <1>4 DEF enqueue_control
    <2>2. ~Live(c)
      BY <2>1 DEF OwnerInv, Handed
    <2>3. CASE Len(ctrl) < CtrlLimit
      <3>1. /\ ctrl' = Append(ctrl, c) /\ cmd' = cmd
            /\ pc' = [pc EXCEPT ![c] = "post"] /\ ctrl \in Seq(Cmd)
        BY <1>4, <2>3 DEF enqueue_control, TypeOK
      <3>2. Elems(ctrl') = Elems(ctrl) \cup {c}
        BY <2>1, <3>1, ElemsAppend
      <3>3. cmd[c] # "none" /\ cmd[c] \notin {"QSTART", "QSTOP"}
        BY <1>1, <2>1 DEF CommandInv
      <3>4. \A d \in Conn : \/ pc'[d] = pc[d]
                            \/ d = c /\ pc'[d] = "post"
        BY <1>1, <3>1
      <3> QED BY <1>1, <2>1, <3>1, <3>2, <3>3, <3>4 DEF CommandInv
    <2>4. CASE ~(Len(ctrl) < CtrlLimit)
      <3>1. /\ Release(c) /\ ctrl' = ctrl /\ c \notin Elems(ctrl) /\ kcur # c
            /\ pc' = [pc EXCEPT ![c] = "done"]
        BY <1>4, <2>2, <2>4 DEF enqueue_control, Live
      <3>2. \A d \in Conn : \/ pc'[d] = pc[d] /\ d # c
                            \/ pc'[d] = "done" /\ d = c
        BY <1>1, <3>1
      <3> QED BY <2>1, <3>1, <3>2, CommandRelease
    <2> QED BY <2>3, <2>4
  <1>5. CASE put_in_quiesence_set(c) \/ remove_from_quiesence_save(c)
    <2>1. /\ pc[c] \in {"q2", "s2"} /\ Release(c)
          /\ UNCHANGED <<ctrl, kcur, kpc, lastCmd>>
          /\ pc' = [pc EXCEPT ![c] = "done"]
      BY <1>5 DEF put_in_quiesence_set, remove_from_quiesence_save
    <2>2. c \in Cmd /\ ~Live(c)
      BY <2>1 DEF CommandInv, OwnerInv, Handed
    <2>3. \A d \in Conn : \/ pc'[d] = pc[d] /\ d # c
                          \/ pc'[d] = "done" /\ d = c
      BY <1>1, <2>1
    <2> QED BY <2>1, <2>2, <2>3, CommandRelease DEF Live
  <1> QED BY <1>2, <1>3, <1>4, <1>5 DEF ConnectionThread

\* What reaches the server.
LEMMA CommandEnvironment ==
  ASSUME TypeOK, OwnerInv, CommandInv, Environment
  PROVE  CommandInv'
  <1>1. /\ pc \in [Conn -> ConnPCs] /\ Cmd \subseteq Conn
        /\ Elems(ctrl) \subseteq Cmd /\ kcur \in Cmd \cup {None}
        /\ Chk \cap Cmd = {} /\ Req \cap Cmd = {} /\ Req \cup Chk \subseteq Conn
        /\ None \notin Cmd
    BY ElemsType, ConnAssumption DEF TypeOK, Conn
  <1>2. ASSUME NEW c \in Cmd, NEW k \in CmdKinds, accept_command(c, k)
        PROVE  CommandInv'
    <2>1. /\ pc[c] = "absent" /\ UNCHANGED <<ctrl, kcur, kpc>>
          /\ cmd' = [cmd EXCEPT ![c] = k] /\ cmd \in [Cmd -> CmdKinds \cup {"none"}]
          /\ pc' = [pc EXCEPT ![c] = CASE k = "QSTART" -> "q1"
                                       [] k = "QSTOP"  -> "s1"
                                       [] OTHER        -> "enqueue"]
      BY <1>2 DEF accept_command, TypeOK
    <2>2. lastCmd' \in {"none", "QSTART", "SEND_CHKPT", "QSTOP"} \cup Roles
      BY <1>2, ModeAssumption DEF accept_command, RmMaySend, CommandInv, Roles
    <2>3. k # "none"
      BY DEF CmdKinds, RepMgrCmds
    <2>4. Elems(ctrl') = Elems(ctrl)
      BY <2>1 DEF Elems
    <2>5. ~Live(c)
      BY <1>1, <2>1 DEF OwnerInv, Handed
    <2>6. \A d \in Conn \ {c} : pc'[d] = pc[d] /\ (d \in Cmd => cmd'[d] = cmd[d])
      BY <1>1, <2>1
    <2>7. /\ cmd'[c] = k
          /\ pc'[c] = CASE k = "QSTART" -> "q1"
                       [] k = "QSTOP"  -> "s1"
                       [] OTHER        -> "enqueue"
      BY <1>1, <2>1
    <2>8. /\ pc'[c] \in {"enqueue", "q1", "s1"}
          /\ pc'[c] \in {"q1", "q2"} <=> k = "QSTART"
          /\ pc'[c] \in {"s1", "s2"} <=> k = "QSTOP"
      BY <2>7
    <2>9. c \notin Elems(ctrl) /\ c # kcur
      BY <2>5 DEF Live
    <2> QED BY <1>1, <2>1, <2>3, <2>4, <2>6, <2>7, <2>8, <2>9, <2>2
        DEF CommandInv
  <1>3. ASSUME NEW c \in Req \cup Chk,
               handle_connection_payload(c) \/ enqueue_client_req_classify(c)
        PROVE  CommandInv'
    <2>1. /\ UNCHANGED <<ctrl, kcur, kpc, cmd, lastCmd>> /\ c \notin Cmd
          /\ \A d \in Conn \ {c} : pc'[d] = pc[d]
          /\ {pc[c], pc'[c]} \cap {"q1", "q2", "s1", "s2"} = {}
      BY <1>1, <1>3 DEF handle_connection_payload, enqueue_client_req_classify
    <2> QED BY <1>1, <2>1, CommandFrame
  <1> QED BY <1>2, <1>3 DEF Environment

\* The normal worker releases no command.
LEMMA CommandNormal ==
  ASSUME TypeOK, WorkerInv, CommandInv, NormalWorker
  PROVE  CommandInv' /\ \A d \in Cmd : cmd'[d] = cmd[d]
  <1>1. Elems(ctrl) \subseteq Cmd /\ kcur \in Cmd \cup {None}
    BY ElemsType DEF TypeOK
  <1>2. UNCHANGED <<ctrl, kcur, kpc, pc, lastCmd>>
    BY DEF NormalWorker, run_top, run_prune, run_prune_end, run_gate, run_count,
           run_promote, run_pick, run_dequeue, execute_msg_lock,
           start_ckhpt_thread_test, start_ckhpt_thread_create,
           start_ckhpt_thread_mark, set_state_primary, execute_msg_store, search_list,
           execute_msg_reply
  <1>3. \A d \in Cmd : cmd'[d] = cmd[d]
    <2>1. CASE run_prune
      <3>1. Head(nrl) \in Req \cup Chk
        BY <2>1, ElemsTail DEF TypeOK, run_prune
      <3> QED BY <2>1, <3>1, OtherRelease DEF run_prune
    <2>2. CASE execute_msg_reply
      <3>1. ncur \in Req \cup Chk
        BY <2>2 DEF TypeOK, WorkerInv, execute_msg_reply
      <3> QED BY <2>2, <3>1, OtherRelease DEF execute_msg_reply
    <2>3. CASE ~run_prune /\ ~execute_msg_reply
      BY <2>3
      DEF NormalWorker, run_top, run_prune_end, run_gate, run_count,
          run_promote, run_pick, run_dequeue, execute_msg_lock,
          start_ckhpt_thread_test, start_ckhpt_thread_create,
          start_ckhpt_thread_mark, set_state_primary, execute_msg_store, search_list
    <2> QED BY <2>1, <2>2, <2>3
  <1> QED BY <1>1, <1>2, <1>3, CommandFrame

\* The control worker takes commands from the log in turn.
LEMMA CommandControl ==
  ASSUME TypeOK, WorkerInv, OwnerInv, CommandInv, ControlWorker
  PROVE  CommandInv'
  <1>1. /\ Elems(ctrl) \subseteq Cmd /\ kcur \in Cmd \cup {None}
        /\ None \notin Cmd /\ Cmd \subseteq Conn
    BY ElemsType, ConnAssumption DEF TypeOK, Conn
  <1>2. CASE run_control_dequeue
    <2>1. /\ ctrl \in Seq(Cmd) /\ ctrl # <<>> /\ ctrl' = Tail(ctrl)
          /\ kcur' = Head(ctrl) /\ UNCHANGED <<pc, cmd, lastCmd>> /\ kcur = None
          /\ kpc' # "idle"
      BY <1>2 DEF run_control_dequeue, TypeOK, CommandInv
    <2>2. Elems(ctrl) = Elems(ctrl') \cup {kcur'}
      BY <2>1, ElemsSplit
    <2> QED BY <1>1, <2>1, <2>2 DEF CommandInv
  <1>3. CASE execute_msg_ctrl_reply
    <2>1. /\ kcur \in Cmd /\ Release(kcur) /\ kcur' = None
          /\ UNCHANGED <<ctrl, pc, lastCmd>> /\ kcur \notin Elems(ctrl)
      BY <1>1, <1>3 DEF execute_msg_ctrl_reply, WorkerInv, OwnerInv
    <2> QED BY <2>1, CommandRelease
  <1>4. CASE ~run_control_dequeue /\ ~execute_msg_ctrl_reply
    <2>1. UNCHANGED <<ctrl, kcur, cmd, pc, lastCmd>> /\ kpc' # "idle"
      BY <1>4
      DEF ControlWorker, set_mode, handle_rep_msg_kill, set_state_check,
          kill_chkpt_thrd_if_running, stop_chk_pt_thread_spin,
          set_state_commit, execute_msg_ctrl_demand, send_checkpoint_ondemand
    <2> QED BY <1>1, <2>1, CommandFrame
  <1> QED BY <1>2, <1>3, <1>4

\* Every step keeps the commands in order.
LEMMA CommandStep ==
  ASSUME ServerInv, CommandInv, [Next]_vars
  PROVE  CommandInv'
  <1>1. Elems(ctrl) \subseteq Cmd /\ kcur \in Cmd \cup {None}
    BY ElemsType DEF ServerInv, TypeOK
  <1>2. ASSUME \/ \E t \in Tid : CheckpointThread(t)
               \/ UNCHANGED vars
        PROVE  CommandInv'
    <2>1. UNCHANGED <<ctrl, kcur, kpc, cmd, pc, lastCmd>>
      BY <1>2 DEF CheckpointThread, send_checkpoint_check, send_checkpoint_wait,
                  send_checkpoint_export, send_checkpoint_exit, vars
    <2> QED BY <1>1, <2>1, CommandFrame
  <1> QED BY <1>2, CommandEnvironment, CommandConnection, CommandNormal,
             CommandControl DEF Next, ServerInv

\* A command that has not been carried out is with its thread, in the control
\* log or with the control worker.
LEMMA CommandInvariant == Spec => []CommandInv
  BY CommandInit, CommandStep, ServerInvariant, PTL DEF Spec

\* So the manager may rely on its sleeps exactly when nothing is pending.
LEMMA SettledIsIdle ==
  ASSUME TypeOK, OwnerInv, CommandInv
  PROVE  Settled <=> Pending = {}
  <1>1. ASSUME NEW c \in Pending
        PROVE  ~(pc[c] \in {"post", "touch", "done"} /\ ~Live(c))
    BY <1>1 DEF Pending, CommandInv, Live
  <1> QED BY <1>1 DEF Settled, Pending

----------------------------------------------------------------------------
(* The normal worker of an active replica *)

\* Nothing is pruned and nobody is promoted.
LEMMA IdleInit == Init => IdleInv
  BY DEF Init, IdleInv, SetPrimaryPCs

\* Without a backup's role nothing starts a pruning or a promotion.
LEMMA IdleStep ==
  ASSUME TypeOK, IdleInv, DeployedMode = "ACTIVE_REP", [Next]_vars
  PROVE  IdleInv'
  <1>1. /\ mode # "PASSIVE_REP" /\ ~IsBackup /\ pc \in [Conn -> ConnPCs]
        /\ Cmd \subseteq Conn /\ Req \subseteq Conn /\ Chk \subseteq Conn
    BY DEF TypeOK, IsBackup, Conn
  <1>2. CASE Environment
    BY <1>1, <1>2
    DEF Environment, accept_command, handle_connection_payload,
        enqueue_client_req_classify, IdleInv, SetPrimaryPCs
  <1>3. ASSUME NEW c \in Conn, ConnectionThread(c) PROVE IdleInv'
    BY <1>1, <1>3
    DEF ConnectionThread, enqueue_client_req_classify, set_worker_prune,
        enqueue_normal, enqueue_control, handle_connection_post,
        handle_connection_touch, put_in_quiesence_save, put_in_quiesence_set,
        remove_from_quiesence_set, remove_from_quiesence_save, IdleInv,
        SetPrimaryPCs
  <1>4. CASE NormalWorker
    BY <1>1, <1>4
    DEF NormalWorker, run_top, run_prune, run_prune_end, run_gate, run_count,
        run_promote, run_pick, run_dequeue, execute_msg_lock,
        start_ckhpt_thread_test, start_ckhpt_thread_create,
        start_ckhpt_thread_mark, set_state_primary, execute_msg_store,
        search_list, execute_msg_reply, IdleInv, SetPrimaryPCs
  <1>5. CASE ControlWorker
    BY <1>5
    DEF ControlWorker, run_control_dequeue, set_mode, handle_rep_msg_kill,
        set_state_check, set_state_commit, execute_msg_ctrl_demand,
        send_checkpoint_ondemand, execute_msg_ctrl_reply, IdleInv
  <1>6. CASE (\E t \in Tid : CheckpointThread(t)) \/ UNCHANGED vars
    BY <1>6
    DEF CheckpointThread, send_checkpoint_check, send_checkpoint_wait,
        send_checkpoint_export, send_checkpoint_exit, vars, IdleInv
  <1> QED BY <1>2, <1>3, <1>4, <1>5, <1>6 DEF Next

----------------------------------------------------------------------------
(* The bracket of quiesce and stop *)

\* Nothing is quiesced.
LEMMA BracketInit == Init => BracketInv
  BY DEF Init, BracketInv, Pending

\* Steps that neither receive nor carry out a quiesce or a stop.
LEMMA BracketFrame ==
  ASSUME BracketInv, lastCmd' = lastCmd, prev_state' # "QUIESCE",
         \A c \in Cmd : \/ cmd'[c] = cmd[c]
                        \/ cmd'[c] = "none" /\ cmd[c] # "QSTOP",
         state' = "QUIESCE" => state = "QUIESCE",
         \A c \in Cmd : pc[c] = "s1" => pc'[c] = "s1",
         aborted => aborted'
  PROVE  BracketInv'
  BY DEF BracketInv, Pending

\* A command arrives: a quiesce or a stop only when nothing is pending.
LEMMA BracketAccept ==
  ASSUME TypeOK, OwnerInv, CommandInv, BracketInv, SleepsSuffice,
         DeployedMode = "ACTIVE_REP",
         NEW c \in Cmd, NEW k \in CmdKinds, accept_command(c, k)
  PROVE  BracketInv'
  <1>1. /\ pc[c] = "absent" /\ RmMaySend(k) /\ ~aborted
        /\ UNCHANGED <<state, prev_state, aborted>>
        /\ lastCmd' = IF k # "HEARTBEAT" THEN k ELSE lastCmd
        /\ pc' = [pc EXCEPT ![c] = CASE k = "QSTART" -> "q1"
                                     [] k = "QSTOP"  -> "s1"
                                     [] OTHER        -> "enqueue"]
        /\ cmd' = [cmd EXCEPT ![c] = k]
    BY DEF accept_command
  <1>2. /\ \A d \in Cmd \ {c} : cmd'[d] = cmd[d] /\ pc'[d] = pc[d]
        /\ cmd'[c] = k /\ c \in Conn
        /\ k = "QSTOP" => pc'[c] = "s1"
    BY <1>1 DEF TypeOK, Conn
  <1>3. cmd[c] = "none"
    BY <1>1, <1>2 DEF CommandInv, OwnerInv, Handed, Live
  <1>4. CASE k = "HEARTBEAT"
    BY <1>1, <1>2, <1>3, <1>4 DEF BracketInv, Pending
  <1>5. CASE k \in {"QSTART", "QSTOP"}
    <2>1. Pending = {}
      BY <1>1, <1>5, SettledIsIdle DEF RmMaySend
    <2>2. \A d \in Cmd : cmd[d] \notin {"QSTART", "QSTOP"}
      BY <2>1 DEF Pending
    <2>3. \A d \in Cmd : cmd'[d] \in {"none", "HEARTBEAT"} \/ d = c
      BY <1>2, <2>1 DEF Pending
    <2>4. k = "QSTART" => state # "QUIESCE"
      <3>1. k = "QSTART" => lastCmd \notin {"QSTART", "SEND_CHKPT"}
        BY <1>1 DEF RmMaySend
      <3> QED BY <2>2, <3>1 DEF BracketInv
    <2>5. lastCmd' = k
      BY <1>1, <1>5
    <2>6. k \in MayBePending(k)
      BY <1>5 DEF MayBePending
    <2>7. \A d \in Pending' : cmd'[d] \in MayBePending(lastCmd')
      BY <1>2, <2>3, <2>5, <2>6 DEF Pending
    <2>8. \A d, e \in Cmd : cmd'[d] = cmd'[e] /\ cmd'[d] \in {"QSTART", "QSTOP"}
                            => d = e
      BY <2>3
    <2> QED BY <1>1, <1>2, <1>5, <2>4, <2>7, <2>8 DEF BracketInv
  <1>6. CASE k \notin {"HEARTBEAT", "QSTART", "QSTOP"}
    <2>1. \/ k = "SEND_CHKPT" /\ lastCmd = "QSTART"
          \/ k = "ACTIVE_RUNNING" /\ lastCmd \in {"none", "ACTIVE_RUNNING", "QSTOP"}
          \/ k = "ACTIVE_RECOVER" /\ lastCmd = "none"
      BY <1>1, <1>6 DEF RmMaySend, CommandInv, Roles
    <2>2. lastCmd' = k /\ k \in MayBePending(k)
      BY <1>1, <1>6, <2>1 DEF MayBePending
    <2>3. MayBePending(lastCmd) \subseteq MayBePending(k)
      BY <2>1 DEF MayBePending
    <2>4. \A d \in Pending' : cmd'[d] \in MayBePending(lastCmd')
      BY <1>2, <2>2, <2>3 DEF Pending, BracketInv
    <2>5. \A d, e \in Cmd : cmd'[d] = cmd'[e] /\ cmd'[d] \in {"QSTART", "QSTOP"}
                            => d = e
      BY <1>2, <1>6 DEF BracketInv
    <2>6. ASSUME state' = "QUIESCE"
          PROVE  \/ /\ lastCmd' \in {"QSTART", "SEND_CHKPT"}
                    /\ \A d \in Cmd : cmd'[d] # "QSTART"
                 \/ \E d \in Cmd : cmd'[d] = "QSTOP" /\ (pc'[d] = "s1" \/ aborted')
      BY <1>1, <1>2, <1>3, <1>6, <2>1, <2>2, <2>6 DEF BracketInv
    <2> QED BY <1>1, <2>4, <2>5, <2>6 DEF BracketInv
  <1> QED BY <1>4, <1>5, <1>6

\* The threads that carry out a quiesce or a stop.
LEMMA BracketQuiesce ==
  ASSUME TypeOK, OwnerInv, CommandInv, BracketInv, NEW c \in Conn,
         \/ put_in_quiesence_save(c) \/ put_in_quiesence_set(c)
         \/ remove_from_quiesence_set(c) \/ remove_from_quiesence_save(c)
  PROVE  BracketInv'
  <1>1. pc \in [Conn -> ConnPCs] /\ Cmd \subseteq Conn
    BY DEF TypeOK, Conn
  <1>2. CASE put_in_quiesence_save(c)
    <2>1. /\ pc[c] = "q1" /\ prev_state' = state
          /\ UNCHANGED <<state, lastCmd, cmd, aborted>>
          /\ \A d \in Conn : d # c => pc'[d] = pc[d]
      BY <1>1, <1>2 DEF put_in_quiesence_save
    <2>2. c \in Cmd /\ cmd[c] = "QSTART" /\ c \in Pending
      BY <2>1 DEF CommandInv, Pending
    <2>3. state # "QUIESCE"
      <3>1. MayBePending(lastCmd) \subseteq {"QSTART", "SEND_CHKPT"}
        BY <2>2 DEF BracketInv, MayBePending
      <3>2. \A d \in Cmd : cmd[d] # "QSTOP"
        BY <3>1 DEF BracketInv, Pending
      <3> QED BY <2>2, <3>2 DEF BracketInv
    <2> QED BY <1>1, <2>1, <2>3, BracketFrame
  <1>3. CASE put_in_quiesence_set(c)
    <2>1. /\ pc[c] = "q2" /\ Release(c) /\ UNCHANGED <<prev_state, lastCmd>>
      BY <1>3 DEF put_in_quiesence_set
    <2>2. c \in Cmd /\ cmd[c] = "QSTART" /\ c \in Pending
      BY <2>1 DEF CommandInv, Pending
    <2>3. \A d \in Cmd : cmd'[d] = IF d = c THEN "none" ELSE cmd[d]
      BY <2>1 DEF Release
    <2>4. \A d \in Cmd : cmd'[d] # "QSTART"
      BY <2>2, <2>3 DEF BracketInv
    <2>5. lastCmd \in {"QSTART", "SEND_CHKPT"}
      BY <2>2 DEF BracketInv, MayBePending
    <2>6. \A d \in Pending' : cmd'[d] \in MayBePending(lastCmd')
      BY <2>1, <2>3 DEF BracketInv, Pending
    <2>7. \A d, e \in Cmd : cmd'[d] = cmd'[e] /\ cmd'[d] \in {"QSTART", "QSTOP"}
                            => d = e
      BY <2>3 DEF BracketInv
    <2> QED BY <2>1, <2>4, <2>5, <2>6, <2>7 DEF BracketInv
  <1>4. CASE remove_from_quiesence_set(c)
    <2>1. /\ pc[c] = "s1" /\ UNCHANGED <<prev_state, lastCmd, cmd>>
          /\ aborted' = ~LegalState(mode, prev_state)
          /\ state' = IF aborted' THEN state ELSE prev_state
          /\ prev_state # "QUIESCE"
      BY <1>4 DEF remove_from_quiesence_set, BracketInv
    <2>2. c \in Cmd /\ cmd[c] = "QSTOP"
      BY <2>1 DEF CommandInv
    <2>3. state' = "QUIESCE" => aborted'
      BY <2>1
    <2> QED BY <2>1, <2>2, <2>3 DEF BracketInv, Pending
  <1>5. CASE remove_from_quiesence_save(c)
    <2>1. /\ pc[c] = "s2" /\ Release(c) /\ prev_state' = state /\ ~aborted
          /\ UNCHANGED <<state, lastCmd, aborted>>
      BY <1>5 DEF remove_from_quiesence_save
    <2>2. c \in Cmd /\ cmd[c] = "QSTOP" /\ c \in Pending
      BY <2>1 DEF CommandInv, Pending
    <2>3. lastCmd \notin {"QSTART", "SEND_CHKPT"}
      BY <2>2 DEF BracketInv, MayBePending
    <2>4. \A d \in Cmd : cmd[d] = "QSTOP" => d = c
      BY <2>2 DEF BracketInv
    <2>5. state # "QUIESCE"
      BY <2>1, <2>3, <2>4 DEF BracketInv
    <2>6. \A d \in Cmd : cmd'[d] = IF d = c THEN "none" ELSE cmd[d]
      BY <2>1 DEF Release
    <2>7. \A d \in Pending' : cmd'[d] \in MayBePending(lastCmd')
      BY <2>1, <2>6 DEF BracketInv, Pending
    <2>8. \A d, e \in Cmd : cmd'[d] = cmd'[e] /\ cmd'[d] \in {"QSTART", "QSTOP"}
                            => d = e
      BY <2>6 DEF BracketInv
    <2> QED BY <2>1, <2>5, <2>7, <2>8 DEF BracketInv
  <1> QED BY <1>2, <1>3, <1>4, <1>5

\* Everything else: the workers set no QUIESCE, and release no stop command.
LEMMA BracketStep ==
  ASSUME ServerInv, CommandInv, BracketInv, IdleInv, SleepsSuffice,
         DeployedMode = "ACTIVE_REP", [Next]_vars
  PROVE  BracketInv'
  <1>1. /\ TypeOK /\ WorkerInv /\ OwnerInv /\ pc \in [Conn -> ConnPCs]
        /\ Cmd \subseteq Conn /\ (Req \cup Chk) \cap Cmd = {}
        /\ Req \cup Chk \subseteq Conn
    BY ConnAssumption DEF ServerInv, TypeOK, Conn
  <1>2. CASE Environment
    <2>1. ASSUME NEW c \in Req \cup Chk,
                 handle_connection_payload(c) \/ enqueue_client_req_classify(c)
          PROVE  BracketInv'
      <3>1. /\ UNCHANGED <<cmd, lastCmd, state, prev_state, aborted>>
            /\ \A d \in Cmd : pc'[d] = pc[d]
        BY <1>1, <2>1 DEF handle_connection_payload, enqueue_client_req_classify
      <3> QED BY <3>1, BracketFrame DEF BracketInv
    <2> QED BY <1>1, <1>2, <2>1, BracketAccept DEF Environment
  <1>3. ASSUME NEW c \in Conn, ConnectionThread(c) PROVE BracketInv'
    <2>1. CASE \/ put_in_quiesence_save(c) \/ put_in_quiesence_set(c)
               \/ remove_from_quiesence_set(c) \/ remove_from_quiesence_save(c)
      BY <1>1, <2>1, BracketQuiesce
    <2>2. CASE \/ enqueue_client_req_classify(c) \/ set_worker_prune(c)
               \/ enqueue_normal(c) \/ enqueue_control(c)
               \/ handle_connection_post(c) \/ handle_connection_touch(c)
      <3>1. /\ UNCHANGED <<lastCmd, state, prev_state, aborted>>
            /\ pc[c] # "s1" /\ \A d \in Conn : d # c => pc'[d] = pc[d]
        BY <1>1, <2>2
        DEF enqueue_client_req_classify, set_worker_prune, enqueue_normal,
            enqueue_control, handle_connection_post, handle_connection_touch
      <3>2. cmd' = cmd \/ (Release(c) /\ pc[c] = "enqueue")
        BY <2>2
        DEF enqueue_client_req_classify, set_worker_prune, enqueue_normal,
            enqueue_control, handle_connection_post, handle_connection_touch
      <3>3. \A d \in Cmd : \/ cmd'[d] = cmd[d]
                           \/ cmd'[d] = "none" /\ cmd[d] # "QSTOP"
        BY <1>1, <3>2 DEF Release, CommandInv
      <3> QED BY <1>1, <3>1, <3>3, BracketFrame DEF BracketInv
    <2> QED BY <1>3, <2>1, <2>2 DEF ConnectionThread
  <1>4. CASE NormalWorker
    <2>1. /\ UNCHANGED <<lastCmd, prev_state, pc>> /\ state' = state
          /\ aborted => aborted'
      BY <1>4
      DEF NormalWorker, run_top, run_prune, run_prune_end, run_gate, run_count,
          run_promote, run_pick, run_dequeue, execute_msg_lock,
          start_ckhpt_thread_test, start_ckhpt_thread_create,
          start_ckhpt_thread_mark, set_state_primary, execute_msg_store,
          search_list, execute_msg_reply, IdleInv, SetPrimaryPCs
    <2>2. \A d \in Cmd : cmd'[d] = cmd[d]
      BY <1>1, <1>4, CommandNormal
    <2> QED BY <2>1, <2>2, BracketFrame DEF BracketInv
  <1>5. CASE ControlWorker
    <2>1. UNCHANGED <<lastCmd, prev_state, pc>> /\ (aborted => aborted')
      BY <1>5
      DEF ControlWorker, run_control_dequeue, set_mode, handle_rep_msg_kill,
          set_state_check, set_state_commit, execute_msg_ctrl_demand,
          send_checkpoint_ondemand, execute_msg_ctrl_reply
    <2>2. state' = "QUIESCE" => state = "QUIESCE"
      BY <1>1, <1>5
      DEF ControlWorker, run_control_dequeue, set_mode, handle_rep_msg_kill,
          set_state_check, set_state_commit, execute_msg_ctrl_demand,
          send_checkpoint_ondemand, execute_msg_ctrl_reply, WorkerInv,
          RepMgrPCs, RepMgrCmds
    <2>3. \A d \in Cmd : cmd'[d] = cmd[d] \/ (cmd'[d] = "none" /\ d = kcur)
      BY <1>5
      DEF ControlWorker, run_control_dequeue, set_mode, handle_rep_msg_kill,
          set_state_check, set_state_commit, execute_msg_ctrl_demand,
          send_checkpoint_ondemand, execute_msg_ctrl_reply, Release
    <2>4. kcur \in Cmd => cmd[kcur] # "QSTOP"
      BY <1>1 DEF OwnerInv, Live, Handed, CommandInv
    <2> QED BY <2>1, <2>2, <2>3, <2>4, BracketFrame DEF BracketInv
  <1>6. CASE (\E t \in Tid : CheckpointThread(t)) \/ UNCHANGED vars
    <2>1. UNCHANGED <<cmd, lastCmd, state, prev_state, aborted, pc>>
      BY <1>6
      DEF CheckpointThread, send_checkpoint_check, send_checkpoint_wait,
          send_checkpoint_export, send_checkpoint_exit, vars
    <2> QED BY <2>1, BracketFrame DEF BracketInv
  <1> QED BY <1>2, <1>3, <1>4, <1>5, <1>6 DEF Next

----------------------------------------------------------------------------
(* The request that slips past QUIESCE *)

\* Nobody straggles.
LEMMA StragglerInit == Init => StragglerInv
  BY DEF Init, StragglerInv

\* QUIESCE is entered only by put_in_quiesence, which starts the count anew;
\* after one execution the worker meets its test of the state first.
LEMMA StragglerStep ==
  ASSUME ServerInv, BracketInv, IdleInv, StragglerInv, [Next]_vars
  PROVE  StragglerInv'
  <1>1. TypeOK /\ WorkerInv /\ stragglers \in 0 .. 2 /\ prev_state # "QUIESCE"
    BY DEF ServerInv, TypeOK, BracketInv
  <1>2. CASE NormalWorker
    BY <1>1, <1>2
    DEF NormalWorker, run_top, run_prune, run_prune_end, run_gate, run_count,
        run_promote, run_pick, run_dequeue, execute_msg_lock,
        start_ckhpt_thread_test, start_ckhpt_thread_create,
        start_ckhpt_thread_mark, set_state_primary, execute_msg_store,
        search_list, execute_msg_reply, IdleInv, SetPrimaryPCs, StragglerInv
  <1>3. ASSUME NEW c \in Conn, put_in_quiesence_set(c) PROVE StragglerInv'
    BY <1>3 DEF put_in_quiesence_set, StragglerInv
  <1>4. ASSUME NEW c \in Conn, ConnectionThread(c), ~put_in_quiesence_set(c)
        PROVE  StragglerInv'
    BY <1>1, <1>4
    DEF ConnectionThread, enqueue_client_req_classify, set_worker_prune,
        enqueue_normal, enqueue_control, handle_connection_post,
        handle_connection_touch, put_in_quiesence_save,
        remove_from_quiesence_set, remove_from_quiesence_save, StragglerInv
  <1>5. CASE Environment
    BY <1>5 DEF Environment, accept_command, handle_connection_payload,
                enqueue_client_req_classify, StragglerInv
  <1>6. CASE ControlWorker
    BY <1>1, <1>6
    DEF ControlWorker, run_control_dequeue, set_mode, handle_rep_msg_kill,
        set_state_check, set_state_commit, execute_msg_ctrl_demand,
        send_checkpoint_ondemand, execute_msg_ctrl_reply, WorkerInv,
        RepMgrPCs, RepMgrCmds, StragglerInv
  <1>7. CASE (\E t \in Tid : CheckpointThread(t)) \/ UNCHANGED vars
    BY <1>7
    DEF CheckpointThread, send_checkpoint_check, send_checkpoint_wait,
        send_checkpoint_export, send_checkpoint_exit, vars, StragglerInv
  <1> QED BY <1>2, <1>3, <1>4, <1>5, <1>6, <1>7 DEF Next

\* In passive mode there is no QUIESCE at all.
LEMMA PassiveNeverQuiesced ==
  ASSUME ServerInv, state # "QUIESCE", stragglers = 0,
         DeployedMode = "PASSIVE_REP", [Next]_vars
  PROVE  state' # "QUIESCE" /\ stragglers' = 0
  <1>1. /\ WorkerInv
        /\ \A c \in Conn : pc[c] \notin {"touch", "q1", "q2", "s1", "s2"}
    BY DEF ServerInv, PassiveInv
  <1>2. CASE NormalWorker
    BY <1>2
    DEF NormalWorker, run_top, run_prune, run_prune_end, run_gate, run_count,
        run_promote, run_pick, run_dequeue, execute_msg_lock,
        start_ckhpt_thread_test, start_ckhpt_thread_create,
        start_ckhpt_thread_mark, set_state_primary, execute_msg_store,
        search_list, execute_msg_reply
  <1>3. ASSUME NEW c \in Conn, ConnectionThread(c)
        PROVE  state' # "QUIESCE" /\ stragglers' = 0
    BY <1>1, <1>3
    DEF ConnectionThread, enqueue_client_req_classify, set_worker_prune,
        enqueue_normal, enqueue_control, handle_connection_post,
        handle_connection_touch, put_in_quiesence_save, put_in_quiesence_set,
        remove_from_quiesence_set, remove_from_quiesence_save
  <1>4. CASE Environment
    BY <1>4 DEF Environment, accept_command, handle_connection_payload,
                enqueue_client_req_classify
  <1>5. CASE ControlWorker
    BY <1>1, <1>5
    DEF ControlWorker, run_control_dequeue, set_mode, handle_rep_msg_kill,
        set_state_check, set_state_commit, execute_msg_ctrl_demand,
        send_checkpoint_ondemand, execute_msg_ctrl_reply, WorkerInv,
        RepMgrPCs, RepMgrCmds
  <1>6. CASE (\E t \in Tid : CheckpointThread(t)) \/ UNCHANGED vars
    BY <1>6
    DEF CheckpointThread, send_checkpoint_check, send_checkpoint_wait,
        send_checkpoint_export, send_checkpoint_exit, vars
  <1> QED BY <1>2, <1>3, <1>4, <1>5, <1>6 DEF Next

\* The invariant of the bracket, in whichever mode the server is deployed.
QuiesceInv ==
    /\ DeployedMode = "ACTIVE_REP" => BracketInv /\ IdleInv /\ StragglerInv
    /\ DeployedMode = "PASSIVE_REP" => state # "QUIESCE" /\ stragglers = 0

\* The brackets of QUIESCE and the stragglers in them.
LEMMA QuiesceInvariant == SleepsSuffice => (Spec => []QuiesceInv)
  <1> SUFFICES ASSUME SleepsSuffice PROVE Spec => []QuiesceInv
    OBVIOUS
  <1>1. Init => QuiesceInv
    <2>1. Init => state # "QUIESCE" /\ stragglers = 0
      BY DEF Init
    <2> QED BY <2>1, BracketInit, IdleInit, StragglerInit DEF QuiesceInv
  <1>2. ServerInv /\ CommandInv /\ QuiesceInv /\ [Next]_vars => QuiesceInv'
    <2> SUFFICES ASSUME ServerInv, CommandInv, QuiesceInv, [Next]_vars
                 PROVE  QuiesceInv'
      OBVIOUS
    <2>1. CASE DeployedMode = "ACTIVE_REP"
      <3>1. TypeOK /\ BracketInv /\ IdleInv /\ StragglerInv
        BY <2>1 DEF QuiesceInv, ServerInv
      <3> QED BY <2>1, <3>1, BracketStep, IdleStep, StragglerStep DEF QuiesceInv
    <2>2. CASE DeployedMode = "PASSIVE_REP"
      BY <2>2, PassiveNeverQuiesced DEF QuiesceInv
    <2> QED BY <2>1, <2>2, ModeAssumption
  <1> QED BY <1>1, <1>2, ServerInvariant, CommandInvariant, PTL DEF Spec

\* If the manager's sleeps suffice, at most one request is executed after
\* QUIESCE has taken effect: the one run(NORMAL) had already picked.  That
\* holds of every quiesce in the life of the server.
THEOREM OneStraggler == SleepsSuffice => (Spec => []AtMostOneStraggler)
  <1> SUFFICES ASSUME SleepsSuffice PROVE Spec => []AtMostOneStraggler
    OBVIOUS
  <1>1. QuiesceInv => AtMostOneStraggler
    BY ModeAssumption DEF QuiesceInv, StragglerInv, AtMostOneStraggler
  <1> QED BY <1>1, QuiesceInvariant, PTL

\* If the manager's sleeps suffice, a server whose stop command has been
\* carried out is not left in QUIESCE, whatever run(CONTROL) executed between
\* the commands of the bracket.
THEOREM Resumes == SleepsSuffice => (Spec => []ResumesAfterQuiesce)
  <1> SUFFICES ASSUME SleepsSuffice PROVE Spec => []ResumesAfterQuiesce
    OBVIOUS
  <1>1. ServerInv /\ CommandInv /\ QuiesceInv => ResumesAfterQuiesce
    <2> SUFFICES ASSUME ServerInv, CommandInv, QuiesceInv,
                        lastCmd = "QSTOP", Settled, state = "QUIESCE"
                 PROVE  FALSE
      BY DEF ResumesAfterQuiesce
    <2>1. BracketInv /\ Pending = {}
      BY ModeAssumption, SettledIsIdle DEF QuiesceInv, ServerInv
    <2>2. \A c \in Cmd : cmd[c] # "QSTOP"
      BY <2>1 DEF Pending
    <2> QED BY <2>1, <2>2 DEF BracketInv
  <1> QED BY <1>1, ServerInvariant, CommandInvariant, QuiesceInvariant, PTL

----------------------------------------------------------------------------
(* What can end the process in active mode *)

\* Checkpoint k has been received and not yet been imported.
Waits(k) == \/ k \in Elems(nrl)
            \/ k = ncur /\ npc # "reply"
            \/ pc[k] \notin Handed \cup {"absent"}

\* The file of a checkpoint that waits is on disk.
TmpInv == \A k \in Chk : Waits(k) => k \in tmp

\* No checkpoint waits when the server starts.
LEMMA TmpInit == Init => TmpInv
  BY ConnAssumption DEF Init, TmpInv, Waits, Elems, Handed, Conn

\* Steps that leave tmp alone and make nobody wait for it.
LEMMA TmpFrame ==
  ASSUME TmpInv, tmp' = tmp, \A k \in Chk : Waits(k)' => Waits(k)
  PROVE  TmpInv'
  BY DEF TmpInv

\* Only the import of a checkpoint removes its file.
LEMMA TmpStep ==
  ASSUME ServerInv, TmpInv, ServerId # 0, [Next]_vars
  PROVE  TmpInv'
  <1>1. /\ TypeOK /\ WorkerInv /\ OwnerInv /\ pc \in [Conn -> ConnPCs]
        /\ nrl \in Seq(Req \cup Chk)
        /\ Chk \subseteq Conn /\ Chk \cap Cmd = {} /\ Chk \cap Req = {}
        /\ None \notin Chk
    BY ConnAssumption DEF ServerInv, TypeOK, Conn
  <1>2. CASE Environment
    <2>1. UNCHANGED <<nrl, ncur, npc>> /\ Elems(nrl') = Elems(nrl)
      BY <1>2 DEF Environment, accept_command, handle_connection_payload,
                  enqueue_client_req_classify, Elems
    <2>2. ASSUME NEW c \in Chk, handle_connection_payload(c) PROVE TmpInv'
      <3>1. tmp' = tmp \cup {c} /\ \A d \in Conn : d # c => pc'[d] = pc[d]
        BY <1>1, <2>2 DEF handle_connection_payload, TmpName
      <3> QED BY <1>1, <2>1, <3>1 DEF TmpInv, Waits
    <2>3. ASSUME NEW c \in Cmd, NEW k \in CmdKinds, accept_command(c, k)
          PROVE  TmpInv'
      <3>1. tmp' = tmp /\ \A d \in Chk : pc'[d] = pc[d]
        BY <1>1, <2>3 DEF accept_command
      <3> QED BY <1>1, <2>1, <3>1, TmpFrame DEF Waits
    <2>4. ASSUME NEW r \in Req, enqueue_client_req_classify(r) PROVE TmpInv'
      <3>1. tmp' = tmp /\ \A d \in Chk : pc'[d] = pc[d]
        BY <1>1, <2>4 DEF enqueue_client_req_classify
      <3> QED BY <1>1, <2>1, <3>1, TmpFrame DEF Waits
    <2> QED BY <1>2, <2>2, <2>3, <2>4 DEF Environment
  <1>3. ASSUME NEW c \in Conn, ConnectionThread(c) PROVE TmpInv'
    <2>1. /\ \A d \in Conn : d # c => pc'[d] = pc[d]
          /\ pc[c] \in Handed => pc'[c] \in Handed
          /\ c \in Chk => pc[c] # "absent"
          /\ UNCHANGED <<ncur, npc, tmp>>
      BY <1>1, <1>3, ConnAssumption
      DEF ConnectionThread, enqueue_client_req_classify, set_worker_prune,
          enqueue_normal, enqueue_control, handle_connection_post,
          handle_connection_touch, put_in_quiesence_save, put_in_quiesence_set,
          remove_from_quiesence_set, remove_from_quiesence_save, Handed
    <2>2. Elems(nrl') \subseteq Elems(nrl) \/ (/\ pc[c] = "enqueue"
                                              /\ Elems(nrl') = Elems(nrl) \cup {c})
      <3>1. CASE enqueue_normal(c)
        <4>1. nrl' = nrl \/ (nrl' = Append(nrl, c) /\ c \in Req \cup Chk
                             /\ pc[c] = "enqueue")
          BY <3>1 DEF enqueue_normal
        <4>2. CASE nrl' = nrl
          BY <4>2
        <4>3. CASE nrl' = Append(nrl, c) /\ c \in Req \cup Chk
                   /\ pc[c] = "enqueue"
          BY <1>1, <4>3, ElemsAppend
        <4> QED BY <4>1, <4>2, <4>3
      <3>2. CASE ~enqueue_normal(c)
        <4>1. nrl' = nrl
          BY <1>3, <3>2
          DEF ConnectionThread, enqueue_client_req_classify, set_worker_prune,
              enqueue_control, handle_connection_post, handle_connection_touch,
              put_in_quiesence_save, put_in_quiesence_set,
              remove_from_quiesence_set, remove_from_quiesence_save
        <4> QED BY <4>1
      <3> QED BY <3>1, <3>2
    <2>3. \A k \in Chk : Waits(k)' => Waits(k)
      BY <1>1, <2>1, <2>2 DEF Waits, Handed
    <2> QED BY <2>1, <2>3, TmpFrame
  <1>4. CASE NormalWorker
    <2>1. CASE run_prune \/ run_dequeue
      <3>1. /\ nrl # <<>> /\ nrl' = Tail(nrl) /\ UNCHANGED <<pc, tmp>>
            /\ ncur' = Head(nrl) \/ (UNCHANGED <<ncur, npc>>)
        BY <1>1, <2>1 DEF run_prune, run_dequeue, WorkerInv
      <3>2. Elems(nrl') \subseteq Elems(nrl) /\ Head(nrl) \in Elems(nrl)
        BY <1>1, <3>1, ElemsTail
      <3> QED BY <3>1, <3>2, TmpFrame DEF Waits
    <2>2. CASE execute_msg_store
      <3>1. /\ npc' = "reply" /\ UNCHANGED <<nrl, ncur, pc>> /\ npc = "store"
            /\ tmp' = IF ncur \in Chk THEN tmp \ {ncur} ELSE tmp
        BY <2>2 DEF execute_msg_store, TmpName
      <3>2. ncur \in Chk => ~Waits(ncur)'
        BY <1>1, <3>1 DEF OwnerInv, Live, Waits, Handed, Elems
      <3>3. \A k \in Chk : Waits(k)' => Waits(k) /\ k # ncur
        BY <3>1, <3>2 DEF Waits, Elems
      <3> QED BY <3>1, <3>3 DEF TmpInv
    <2>3. CASE execute_msg_reply
      <3>1. UNCHANGED <<nrl, pc, tmp>> /\ ncur' = None
        BY <2>3 DEF execute_msg_reply
      <3> QED BY <1>1, <3>1, TmpFrame DEF Waits, Elems
    <2>4. CASE ~run_prune /\ ~run_dequeue /\ ~execute_msg_store
               /\ ~execute_msg_reply
      <3>1. UNCHANGED <<nrl, ncur, pc, tmp>> /\ npc # "reply"
        BY <1>4, <2>4
        DEF NormalWorker, run_top, run_prune_end, run_gate, run_count,
            run_promote, run_pick, execute_msg_lock, start_ckhpt_thread_test,
            start_ckhpt_thread_create, start_ckhpt_thread_mark,
            set_state_primary, search_list
      <3> QED BY <3>1, TmpFrame DEF Waits, Elems
    <2> QED BY <2>1, <2>2, <2>3, <2>4
  <1>5. CASE ControlWorker
    <2>1. UNCHANGED <<nrl, ncur, npc, pc, tmp>>
      BY <1>5
      DEF ControlWorker, run_control_dequeue, set_mode, handle_rep_msg_kill,
          set_state_check, set_state_commit, execute_msg_ctrl_demand,
          send_checkpoint_ondemand, execute_msg_ctrl_reply
    <2> QED BY <2>1, TmpFrame DEF Waits, Elems
  <1>6. CASE (\E t \in Tid : CheckpointThread(t)) \/ UNCHANGED vars
    <2>1. UNCHANGED <<nrl, ncur, npc, pc, tmp>>
      BY <1>6
      DEF CheckpointThread, send_checkpoint_check, send_checkpoint_wait,
          send_checkpoint_export, send_checkpoint_exit, vars
    <2> QED BY <2>1, TmpFrame DEF Waits, Elems
  <1> QED BY <1>2, <1>3, <1>4, <1>5, <1>6 DEF Next

\* What the assertions of set_state depend on: the commands are those of active
\* replication, and no state is taken or remembered before the mode is set.
LegalInv ==
    /\ \A c \in Cmd : cmd[c] \notin {"PASSIVE_BACKUP", "PASSIVE_PREPRIMARY"}
    /\ \A s \in {state, prev_state} :
          /\ s \in ActiveStates \cup {"UNKNOWN_STATE"}
          /\ s # "UNKNOWN_STATE" => mode = "ACTIVE_REP"

\* The server starts without a role.
LEMMA LegalInit == Init => LegalInv
  BY DEF Init, LegalInv

\* Steps that leave the run state alone.
LEMMA LegalFrame ==
  ASSUME LegalInv, Ready, UNCHANGED <<state, prev_state>>,
         mode' = mode \/ mode' = "ACTIVE_REP",
         \A c \in Cmd : cmd'[c] \in {cmd[c], "none"}
  PROVE  LegalInv' /\ Ready'
  BY DEF LegalInv, Ready

\* The same before the server is ready.
LEMMA LegalFrameUnready ==
  ASSUME LegalInv, UNCHANGED <<state, prev_state>>,
         mode' = mode \/ mode' = "ACTIVE_REP",
         \A c \in Cmd : cmd'[c] \in {cmd[c], "none"}
  PROVE  LegalInv'
  BY DEF LegalInv

\* The threads of the connections: a quiesce remembers the state there is, and
\* a stop brings back one that was remembered.
LEMMA LegalConnection ==
  ASSUME ServerInv, LegalInv, NEW c \in Conn, ConnectionThread(c)
  PROVE  LegalInv' /\ (Ready => Ready' /\ ~aborted')
  <1>1. \A d \in Cmd : cmd'[d] \in {cmd[d], "none"}
    BY DEF ServerInv, TypeOK, ConnectionThread, enqueue_client_req_classify,
           set_worker_prune, enqueue_normal, enqueue_control,
           handle_connection_post, handle_connection_touch,
           put_in_quiesence_save, put_in_quiesence_set,
           remove_from_quiesence_set, remove_from_quiesence_save, Release
  <1>2. CASE \/ enqueue_client_req_classify(c) \/ set_worker_prune(c)
             \/ enqueue_normal(c) \/ enqueue_control(c)
             \/ handle_connection_post(c) \/ handle_connection_touch(c)
    <2>1. ~aborted' /\ UNCHANGED <<mode, state, prev_state>>
      BY <1>2
      DEF enqueue_client_req_classify, set_worker_prune, enqueue_normal,
          enqueue_control, handle_connection_post, handle_connection_touch
    <2> QED BY <1>1, <2>1, LegalFrame, LegalFrameUnready
  <1>3. CASE put_in_quiesence_save(c) \/ remove_from_quiesence_save(c)
    <2>1. ~aborted' /\ UNCHANGED <<mode, state>> /\ prev_state' = state
      BY <1>3 DEF put_in_quiesence_save, remove_from_quiesence_save
    <2> QED BY <1>1, <2>1 DEF LegalInv, Ready
  <1>4. CASE put_in_quiesence_set(c)
    <2>1. /\ UNCHANGED <<mode, prev_state>>
          /\ aborted' = ~LegalState(mode, "QUIESCE")
          /\ state' = IF aborted' THEN state ELSE "QUIESCE"
      BY <1>4 DEF put_in_quiesence_set
    <2>2. ~aborted' => mode = "ACTIVE_REP"
      BY <2>1 DEF LegalState, PassiveStates
    <2>3. Ready => ~aborted'
      BY <2>1 DEF Ready, LegalInv, LegalState, ActiveStates
    <2> QED BY <1>1, <2>1, <2>2, <2>3 DEF LegalInv, Ready, ActiveStates
  <1>5. CASE remove_from_quiesence_set(c)
    <2>1. /\ UNCHANGED <<mode, prev_state>>
          /\ aborted' = ~LegalState(mode, prev_state)
          /\ state' = IF aborted' THEN state ELSE prev_state
      BY <1>5 DEF remove_from_quiesence_set
    <2>2. Ready => ~aborted'
      BY <2>1 DEF Ready, LegalInv, LegalState
    <2> QED BY <1>1, <2>1, <2>2 DEF LegalInv, Ready
  <1> QED BY <1>2, <1>3, <1>4, <1>5 DEF ConnectionThread

\* The control worker sets the mode before the state.
LEMMA LegalControl ==
  ASSUME ServerInv, LegalInv, DeployedMode = "ACTIVE_REP", ControlWorker
  PROVE  LegalInv' /\ (Ready => Ready' /\ ~aborted')
  <1>1. /\ WorkerInv /\ mode \in {"UNKNOWN_REP", "ACTIVE_REP"}
        /\ kpc # "idle" => kcur \in Cmd
    BY DEF ServerInv, TypeOK, WorkerInv
  <1>2. kpc \in RepMgrPCs => cmd[kcur] \in Roles
    BY <1>1 DEF WorkerInv, RepMgrPCs, RepMgrCmds, LegalInv, Roles
  <1>3. CASE set_state_commit
    <2>1. /\ UNCHANGED <<mode, prev_state, cmd, aborted>> /\ ~aborted
          /\ kpc = "commit" /\ state' = cmd[kcur]
      BY <1>3 DEF set_state_commit
    <2>2. state' \in ActiveStates /\ mode = "ACTIVE_REP"
      BY <1>1, <1>2, <2>1 DEF WorkerInv, RepMgrPCs, Roles, ActiveStates
    <2> QED BY <2>1, <2>2 DEF LegalInv, Ready, ActiveStates
  <1>4. CASE set_state_check
    <2>1. /\ UNCHANGED <<mode, state, prev_state, cmd>> /\ ~aborted
          /\ \/ kpc = "kill2" /\ aborted' = ~LegalState(mode, cmd[kcur])
             \/ UNCHANGED aborted
      BY <1>4 DEF set_state_check
    <2>2. kpc = "kill2" => LegalState(mode, cmd[kcur])
      BY <1>1, <1>2 DEF WorkerInv, RepMgrPCs, LegalState, Roles, ActiveStates
    <2>3. ~aborted'
      BY <2>1, <2>2, Zenon
    <2> QED BY <2>1, <2>3, LegalFrame, LegalFrameUnready
  <1>5. CASE ~set_state_commit /\ ~set_state_check
    <2>1. /\ UNCHANGED <<state, prev_state>> /\ ~aborted'
          /\ mode' = mode \/ mode' = "ACTIVE_REP"
      BY <1>5
      DEF ControlWorker, run_control_dequeue, set_mode, handle_rep_msg_kill,
          execute_msg_ctrl_demand, send_checkpoint_ondemand,
          execute_msg_ctrl_reply
    <2>2. \A c \in Cmd : cmd'[c] \in {cmd[c], "none"}
      BY <1>5
      DEF ServerInv, TypeOK, ControlWorker, run_control_dequeue, set_mode,
          handle_rep_msg_kill, execute_msg_ctrl_demand,
          send_checkpoint_ondemand, execute_msg_ctrl_reply, Release
    <2> QED BY <2>1, <2>2, LegalFrame, LegalFrameUnready
  <1> QED BY <1>3, <1>4, <1>5

\* Every step keeps the run state legal, and a ready server alive.
LEMMA LegalStep ==
  ASSUME ServerInv, CommandInv, IdleInv, TmpInv, LegalInv, ServerId # 0,
         DeployedMode = "ACTIVE_REP", [Next]_vars
  PROVE  LegalInv' /\ (Ready /\ ~aborted => Ready' /\ ~aborted')
  <1>1. CASE Environment
    <2>1. UNCHANGED <<mode, state, prev_state, aborted>>
      BY <1>1 DEF Environment, accept_command, handle_connection_payload,
                  enqueue_client_req_classify
    <2>2. \A c \in Cmd : cmd'[c] \notin {"PASSIVE_BACKUP", "PASSIVE_PREPRIMARY"}
      <3>1. ASSUME NEW c \in Cmd, NEW k \in CmdKinds, accept_command(c, k)
            PROVE  k \notin {"PASSIVE_BACKUP", "PASSIVE_PREPRIMARY"}
        BY <3>1 DEF accept_command, RmMaySend, CommandInv, Roles
      <3>2. ASSUME NEW c \in Cmd, NEW k \in CmdKinds, accept_command(c, k)
            PROVE  cmd' = [cmd EXCEPT ![c] = k]
        BY <3>2 DEF accept_command
      <3>3. CASE UNCHANGED cmd
        BY <3>3 DEF LegalInv
      <3> QED BY <1>1, <3>1, <3>2, <3>3
              DEF Environment, handle_connection_payload,
                  enqueue_client_req_classify, LegalInv, ServerInv, TypeOK
    <2> QED BY <2>1, <2>2 DEF LegalInv, Ready
  <1>2. CASE NormalWorker
    <2>1. /\ UNCHANGED <<mode, state, prev_state>>
          /\ aborted' = aborted \/ execute_msg_store
      BY <1>2
      DEF NormalWorker, run_top, run_prune, run_prune_end, run_gate, run_count,
          run_promote, run_pick, run_dequeue, execute_msg_lock,
          start_ckhpt_thread_test, start_ckhpt_thread_create,
          start_ckhpt_thread_mark, set_state_primary, execute_msg_store,
          search_list, execute_msg_reply, IdleInv, SetPrimaryPCs
    <2>2. \A d \in Cmd : cmd'[d] = cmd[d]
      <3>1. TypeOK /\ WorkerInv /\ OwnerInv
        BY DEF ServerInv
      <3> QED BY <1>2, <3>1, CommandNormal
    <2>3. execute_msg_store => ~aborted'
      BY DEF execute_msg_store, TmpName, TmpInv, Waits
    <2> QED BY <2>1, <2>2, <2>3, LegalFrame, LegalFrameUnready
  <1>3. CASE (\E t \in Tid : CheckpointThread(t)) \/ UNCHANGED vars
    <2>1. UNCHANGED <<cmd, mode, state, prev_state, aborted>>
      BY <1>3
      DEF CheckpointThread, send_checkpoint_check, send_checkpoint_wait,
          send_checkpoint_export, send_checkpoint_exit, vars
    <2> QED BY <2>1, LegalFrame, LegalFrameUnready
  <1> QED BY <1>1, <1>2, <1>3, LegalConnection, LegalControl DEF Next

\* In active mode, on every server but server 0, no timing of quiesce and stop
\* commands, roles, checkpoints and heartbeats ends a process that has a role
\* and a remembered one: set_state's assertions can only fail when a quiesce
\* overtakes the first role or a stop the first quiesce.  No sleep of the
\* manager is relied on, and the logs may be full at any time.
THEOREM ReadyServerLives ==
    DeployedMode = "ACTIVE_REP" /\ ServerId # 0 => (Spec => ReadyNeverDies)
  <1> SUFFICES ASSUME DeployedMode = "ACTIVE_REP", ServerId # 0
               PROVE  Spec => ReadyNeverDies
    OBVIOUS
  <1>1. Init => IdleInv /\ TmpInv /\ LegalInv
    BY IdleInit, TmpInit, LegalInit
  <1>2. /\ ServerInv /\ CommandInv /\ IdleInv /\ TmpInv /\ LegalInv
        /\ [Next]_vars
        => /\ IdleInv' /\ TmpInv' /\ LegalInv'
           /\ [Ready /\ ~aborted => Ready' /\ ~aborted']_vars
    BY IdleStep, TmpStep, LegalStep DEF ServerInv
  <1> QED BY <1>1, <1>2, ServerInvariant, CommandInvariant, PTL
          DEF Spec, ReadyNeverDies

====
