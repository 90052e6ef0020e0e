---- MODULE ServerProofs ----
(***************************************************************************)
(* Proofs about one server process, for any number of connections,         *)
(* checkpoint threads and any log limits.                                  *)
(***************************************************************************)
EXTENDS Server, TLAPS

USE DEF stateVars, logVars, connVars, nrlVars, ctrlVars, chkVars, dataVars

----------------------------------------------------------------------------
(* The checkpoint thread and its flag *)

\* There is no checkpoint thread.
LEMMA ChkptInit == Init => ChkptInv
  BY DEF Init, ChkptInv, Threads

\* No interleaving of start_ckhpt_thread with the thread's own exit breaks
\* the relation between the thread and is_chkpt_thrd_running.
LEMMA ChkptStep ==
  ASSUME ChkptInv, TypeOK, Next
  PROVE  ChkptInv'
  <1>0. tpc \in [Tid -> ChkPCs] /\ nloop \in {"top", "drain"}
    BY DEF TypeOK
  <1> USE <1>0 DEF ChkptInv, Threads, ChkPCs
  <1>1. CASE Environment
    BY <1>1 DEF Environment, accept_command, handle_connection_payload,
                enqueue_client_req_classify
  <1>2. ASSUME NEW c \in Conn, ConnectionThread(c) PROVE ChkptInv'
    BY <1>2 DEF ConnectionThread, enqueue_client_req_classify, set_worker_prune,
                enqueue_normal, enqueue_control, handle_connection_post,
                handle_connection_touch, put_in_quiesence_save,
                put_in_quiesence_set, remove_from_quiesence_set,
                remove_from_quiesence_save
  <1>3. CASE \/ run_top \/ run_prune \/ run_prune_end \/ run_gate \/ run_count
             \/ run_promote \/ run_pick \/ run_dequeue \/ execute_msg_lock
             \/ set_state_primary \/ execute_msg_store \/ search_list
    BY <1>3 DEF run_top, run_prune, run_prune_end, run_gate, run_count,
                run_promote, run_pick, run_dequeue, execute_msg_lock,
                set_state_primary, execute_msg_store, search_list
  <1>4. CASE execute_msg_reply
    BY <1>4 DEF execute_msg_reply
  <1>5. CASE start_ckhpt_thread_test
    BY <1>5 DEF start_ckhpt_thread_test
  <1>6. ASSUME NEW t \in Tid, start_ckhpt_thread_create(t) PROVE ChkptInv'
    BY <1>6 DEF start_ckhpt_thread_create
  <1>7. CASE start_ckhpt_thread_mark
    BY <1>7 DEF start_ckhpt_thread_mark
  <1>8. CASE ControlWorker
    BY <1>8 DEF ControlWorker, run_control_dequeue, set_mode, handle_rep_msg_kill,
                kill_chkpt_thrd_if_running, stop_chk_pt_thread_spin,
                set_state_check, set_state_commit, execute_msg_ctrl_demand,
                send_checkpoint_ondemand, execute_msg_ctrl_reply
  <1>9. ASSUME NEW t \in Tid, CheckpointThread(t) PROVE ChkptInv'
    BY <1>9 DEF CheckpointThread, send_checkpoint_check, send_checkpoint_wait,
                send_checkpoint_export, send_checkpoint_exit
  <1> QED BY <1>1, <1>2, <1>3, <1>4, <1>5, <1>6, <1>7, <1>8, <1>9
         DEF Next, NormalWorker

----------------------------------------------------------------------------
(* The logs as sets *)

\* Append adds one element.
LEMMA ElemsAppend ==
  ASSUME NEW S, NEW s \in Seq(S), NEW x \in S
  PROVE  /\ Append(s, x) \in Seq(S) /\ Len(Append(s, x)) = Len(s) + 1
         /\ Append(s, x) # <<>>
         /\ Elems(Append(s, x)) = Elems(s) \cup {x}
  <1>1. \A i \in 1 .. Len(s) : Append(s, x)[i] = s[i]
    OBVIOUS
  <1>2. Append(s, x)[Len(s) + 1] = x /\ Len(Append(s, x)) = Len(s) + 1
        /\ Append(s, x) \in Seq(S)
    OBVIOUS
  <1>3. DOMAIN s = 1 .. Len(s) /\ DOMAIN Append(s, x) = 1 .. Len(s) + 1
    BY <1>2
  <1>4. Elems(s) \cup {x} \subseteq Elems(Append(s, x))
    BY <1>1, <1>2, <1>3 DEF Elems
  <1>5. ASSUME NEW i \in 1 .. Len(s) + 1
        PROVE  Append(s, x)[i] \in Elems(s) \cup {x}
    BY <1>1, <1>2, <1>3 DEF Elems
  <1>6. Elems(Append(s, x)) \subseteq Elems(s) \cup {x}
    BY <1>5, <1>3 DEF Elems
  <1>7. Append(s, x) # <<>>
    BY <1>2
  <1> QED BY <1>2, <1>4, <1>6, <1>7

\* Append of a new element keeps a sequence free of duplicates.
LEMMA NoDupAppend ==
  ASSUME NEW S, NEW s \in Seq(S), NEW x \in S, NoDup(s), x \notin Elems(s)
  PROVE  NoDup(Append(s, x))
  <1>1. \A i \in 1 .. Len(s) : Append(s, x)[i] = s[i] /\ s[i] # x
    BY DEF Elems
  <1>2. Append(s, x)[Len(s) + 1] = x /\ DOMAIN Append(s, x) = 1 .. Len(s) + 1
        /\ DOMAIN s = 1 .. Len(s) /\ Len(s) \in Nat
    OBVIOUS
  <1> SUFFICES ASSUME NEW i \in 1 .. Len(s) + 1, NEW j \in 1 .. Len(s) + 1,
                      Append(s, x)[i] = Append(s, x)[j]
               PROVE  i = j
    BY <1>2 DEF NoDup
  <1>3. CASE i = Len(s) + 1 \/ j = Len(s) + 1
    BY <1>1, <1>2, <1>3
  <1>4. CASE i \in 1 .. Len(s) /\ j \in 1 .. Len(s)
    BY <1>1, <1>2, <1>4 DEF NoDup
  <1> QED BY <1>2, <1>3, <1>4

\* Tail and Head split the elements.
LEMMA ElemsTail ==
  ASSUME NEW S, NEW s \in Seq(S), s # <<>>
  PROVE  /\ Tail(s) \in Seq(S) /\ Len(Tail(s)) <= Len(s)
         /\ Head(s) \in S /\ Head(s) \in Elems(s)
         /\ Elems(Tail(s)) \subseteq Elems(s)
         /\ NoDup(s) => NoDup(Tail(s)) /\ Head(s) \notin Elems(Tail(s))
  <1>1. /\ Len(s) \in Nat \ {0} /\ DOMAIN s = 1 .. Len(s)
        /\ Tail(s) \in Seq(S) /\ Len(Tail(s)) = Len(s) - 1
        /\ DOMAIN Tail(s) = 1 .. Len(s) - 1
        /\ Head(s) = s[1] /\ s[1] \in S
    OBVIOUS
  <1>2. \A i \in 1 .. Len(s) - 1 : Tail(s)[i] = s[i + 1] /\ i + 1 \in 1 .. Len(s)
    OBVIOUS
  <1>3. 1 \in 1 .. Len(s) /\ Len(Tail(s)) <= Len(s)
    BY <1>1
  <1>4. Elems(Tail(s)) \subseteq Elems(s)
    BY <1>1, <1>2 DEF Elems
  <1>5. ASSUME NoDup(s) PROVE NoDup(Tail(s))
    <2> SUFFICES ASSUME NEW i \in 1 .. Len(s) - 1, NEW j \in 1 .. Len(s) - 1,
                        Tail(s)[i] = Tail(s)[j]
                 PROVE  i = j
      BY <1>1 DEF NoDup
    <2>1. s[i + 1] = s[j + 1] /\ i + 1 \in 1 .. Len(s) /\ j + 1 \in 1 .. Len(s)
      BY <1>2
    <2>2. i + 1 = j + 1
      BY <2>1, <1>1, <1>5 DEF NoDup
    <2> QED BY <2>2, <1>1
  <1>6. ASSUME NoDup(s) PROVE Head(s) \notin Elems(Tail(s))
    <2> SUFFICES ASSUME NEW i \in 1 .. Len(s) - 1, Tail(s)[i] = s[1] PROVE FALSE
      BY <1>1 DEF Elems
    <2>1. s[i + 1] = s[1] /\ i + 1 \in 1 .. Len(s) /\ i + 1 # 1
      BY <1>1, <1>2
    <2> QED BY <2>1, <1>1, <1>3, <1>6 DEF NoDup
  <1>7. Head(s) \in Elems(s)
    BY <1>1, <1>3 DEF Elems
  <1> QED BY <1>1, <1>3, <1>4, <1>5, <1>6, <1>7

\* What the type invariant says of the elements of the logs.
LEMMA ElemsType ==
  ASSUME TypeOK
  PROVE  Elems(nrl) \subseteq Req \cup Chk /\ Elems(ctrl) \subseteq Cmd
  BY DEF TypeOK, Elems

----------------------------------------------------------------------------
(* The type invariant *)

\* The variables start in their types.
LEMMA TypeInit == Init => TypeOK
  <1> SUFFICES ASSUME Init PROVE TypeOK
    OBVIOUS
  <1>1. /\ nrl \in Seq(Req \cup Chk) /\ Len(nrl) <= NrlLimit
        /\ ctrl \in Seq(Cmd) /\ Len(ctrl) <= CtrlLimit
    BY LimitAssumption DEF Init
  <1>2. /\ pc \in [Conn -> ConnPCs] /\ backlog \in [Conn -> BOOLEAN]
        /\ closes \in [Conn -> Nat] /\ cmd \in [Cmd -> CmdKinds \cup {"none"}]
        /\ tpc \in [Tid -> ChkPCs] /\ lastCmd \in CmdKinds \cup {"none"}
    BY DEF Init, ConnPCs, ChkPCs
  <1>3. /\ mode \in {"UNKNOWN_REP", DeployedMode}
        /\ state \in States /\ prev_state \in States
        /\ npc \in NrlPCs /\ nloop \in {"top", "drain"} /\ kpc \in CtrlPCs
        /\ ncur \in Req \cup Chk \cup {None} /\ kcur \in Cmd \cup {None}
        /\ tmp \subseteq Chk \cup {"tmp-0"} /\ stragglers \in 0 .. 2
    BY DEF Init, States, NrlPCs, CtrlPCs
  <1>4. /\ is_prune \in BOOLEAN /\ running \in BOOLEAN
        /\ signal \in BOOLEAN /\ aborted \in BOOLEAN
    BY DEF Init
  <1> QED BY <1>1, <1>2, <1>3, <1>4 DEF TypeOK

\* Closing and freeing a context keeps the types of what it held.
LEMMA ReleaseType ==
  ASSUME TypeOK, NEW c \in Conn, Release(c)
  PROVE  /\ closes' \in [Conn -> Nat]
         /\ backlog' \in [Conn -> BOOLEAN]
         /\ cmd' \in [Cmd -> CmdKinds \cup {"none"}]
  BY DEF TypeOK, Release, Close

\* The threads of the connections keep the types.
LEMMA TypeConnection ==
  ASSUME TypeOK, NEW c \in Conn, ConnectionThread(c)
  PROVE  TypeOK'
  <1>1. CASE enqueue_client_req_classify(c)
    BY <1>1 DEF TypeOK, enqueue_client_req_classify, IsBackup, ConnPCs
  <1>2. CASE set_worker_prune(c)
    BY <1>2 DEF TypeOK, set_worker_prune, ConnPCs
  <1>3. CASE enqueue_normal(c)
    <2>1. CASE Len(nrl) < NrlLimit
      <3>1. nrl' \in Seq(Req \cup Chk) /\ Len(nrl') <= NrlLimit
        <4>1. nrl' = Append(nrl, c) /\ c \in Req \cup Chk /\ nrl \in Seq(Req \cup Chk)
          BY <1>3, <2>1 DEF TypeOK, enqueue_normal
        <4>2. Len(nrl) \in Nat
          BY <4>1
        <4> QED BY <4>1, <4>2, <2>1, ElemsAppend, LimitAssumption
      <3> QED BY <1>3, <2>1, <3>1 DEF TypeOK, enqueue_normal, ConnPCs
    <2>2. CASE ~(Len(nrl) < NrlLimit)
      BY <1>3, <2>2, ReleaseType, ZenonT(30) DEF TypeOK, enqueue_normal, ConnPCs
    <2> QED BY <2>1, <2>2
  <1>4. CASE enqueue_control(c)
    <2>1. CASE Len(ctrl) < CtrlLimit
      <3>1. ctrl' \in Seq(Cmd) /\ Len(ctrl') <= CtrlLimit
        <4>1. ctrl' = Append(ctrl, c) /\ c \in Cmd /\ ctrl \in Seq(Cmd)
          BY <1>4, <2>1 DEF TypeOK, enqueue_control
        <4>2. Len(ctrl) \in Nat
          BY <4>1
        <4> QED BY <4>1, <4>2, <2>1, ElemsAppend, LimitAssumption
      <3> QED BY <1>4, <2>1, <3>1 DEF TypeOK, enqueue_control, ConnPCs
    <2>2. CASE ~(Len(ctrl) < CtrlLimit)
      BY <1>4, <2>2, ReleaseType, ZenonT(30) DEF TypeOK, enqueue_control, ConnPCs
    <2> QED BY <2>1, <2>2
  <1>5. CASE handle_connection_post(c)
    BY <1>5 DEF TypeOK, handle_connection_post, ConnPCs
  <1>6. CASE handle_connection_touch(c)
    <2>1. closes' \in [Conn -> Nat]
      BY <1>6 DEF TypeOK, handle_connection_touch, Close
    <2> QED BY <1>6, <2>1 DEF TypeOK, handle_connection_touch, ConnPCs
  <1>7. CASE put_in_quiesence_save(c)
    BY <1>7 DEF TypeOK, put_in_quiesence_save, ConnPCs
  <1>8. CASE put_in_quiesence_set(c)
    <2>1. state' \in States /\ aborted' \in BOOLEAN
      BY <1>8 DEF TypeOK, put_in_quiesence_set, States, ActiveStates, LegalState
    <2> QED BY <1>8, <2>1, ReleaseType DEF TypeOK, put_in_quiesence_set, ConnPCs
  <1>9. CASE remove_from_quiesence_set(c)
    <2>1. state' \in States /\ aborted' \in BOOLEAN
      BY <1>9 DEF TypeOK, remove_from_quiesence_set, LegalState
    <2> QED BY <1>9, <2>1 DEF TypeOK, remove_from_quiesence_set, ConnPCs
  <1>10. CASE remove_from_quiesence_save(c)
    BY <1>10, ReleaseType DEF TypeOK, remove_from_quiesence_save, ConnPCs
  <1> QED BY <1>1, <1>2, <1>3, <1>4, <1>5, <1>6, <1>7, <1>8, <1>9, <1>10
          DEF ConnectionThread

\* What reaches the server keeps the types.
LEMMA TypeEnvironment ==
  ASSUME TypeOK, Environment
  PROVE  TypeOK'
  <1>1. ASSUME NEW c \in Cmd, NEW k \in CmdKinds, accept_command(c, k)
        PROVE  TypeOK'
    BY <1>1 DEF TypeOK, accept_command, Conn, ConnPCs
  <1>2. ASSUME NEW k \in Chk, handle_connection_payload(k) PROVE TypeOK'
    BY <1>2 DEF TypeOK, handle_connection_payload, TmpName, Conn, ConnPCs
  <1>3. ASSUME NEW r \in Req, enqueue_client_req_classify(r) PROVE TypeOK'
    BY <1>3 DEF TypeOK, enqueue_client_req_classify, IsBackup, Conn, ConnPCs
  <1> QED BY <1>1, <1>2, <1>3 DEF Environment

\* The normal worker keeps the types: it dequeues only from a log that is not
\* empty.
LEMMA TypeNormal ==
  ASSUME TypeOK, WorkerInv, NormalWorker
  PROVE  TypeOK'
  <1> USE DEF NrlPCs, SetPrimaryPCs
  <1>1. CASE run_top
    BY <1>1 DEF TypeOK, run_top
  <1>2. CASE run_prune
    <2>1. /\ nrl' \in Seq(Req \cup Chk) /\ Len(nrl') <= NrlLimit
          /\ Head(nrl) \in Req \cup Chk
      BY <1>2, ElemsTail, LimitAssumption DEF TypeOK, run_prune
    <2>2. CASE Head(nrl) \in Chk
      BY <1>2, <2>1, <2>2 DEF TypeOK, run_prune
    <2>3. CASE Head(nrl) \notin Chk
      <3>1. Head(nrl) \in Conn /\ Release(Head(nrl))
        BY <1>2, <2>1, <2>3 DEF run_prune, Conn
      <3> QED BY <1>2, <2>1, <2>3, <3>1, ReleaseType DEF TypeOK, run_prune
    <2> QED BY <2>2, <2>3
  <1>3. CASE run_prune_end
    BY <1>3 DEF TypeOK, run_prune_end
  <1>4. CASE run_gate
    BY <1>4 DEF TypeOK, run_gate
  <1>5. CASE run_count
    BY <1>5 DEF TypeOK, run_count
  <1>6. CASE run_promote
    BY <1>6 DEF TypeOK, run_promote
  <1>7. CASE run_pick
    BY <1>7 DEF TypeOK, run_pick
  <1>8. CASE run_dequeue
    <2>1. /\ nrl' \in Seq(Req \cup Chk) /\ Len(nrl') <= NrlLimit
          /\ Head(nrl) \in Req \cup Chk
      BY <1>8, ElemsTail, LimitAssumption DEF TypeOK, run_dequeue, WorkerInv
    <2> QED BY <1>8, <2>1 DEF TypeOK, run_dequeue
  <1>9. CASE execute_msg_lock
    BY <1>9 DEF TypeOK, execute_msg_lock
  <1>10. CASE start_ckhpt_thread_test
    BY <1>10 DEF TypeOK, start_ckhpt_thread_test
  <1>11. ASSUME NEW t \in Tid, start_ckhpt_thread_create(t) PROVE TypeOK'
    BY <1>11 DEF TypeOK, start_ckhpt_thread_create, ChkPCs
  <1>12. CASE start_ckhpt_thread_mark
    BY <1>12 DEF TypeOK, start_ckhpt_thread_mark
  <1>13. CASE set_state_primary
    BY <1>13 DEF TypeOK, set_state_primary, States, PassiveStates
  <1>14. CASE execute_msg_store
    <2>1. /\ stragglers' \in 0 .. 2 /\ aborted' \in BOOLEAN
          /\ tmp' \subseteq Chk \cup {"tmp-0"}
      BY <1>14 DEF TypeOK, execute_msg_store
    <2> QED BY <1>14, <2>1 DEF TypeOK, execute_msg_store
  <1>15. CASE execute_msg_reply
    <2>1. ncur \in Conn
      BY <1>15 DEF TypeOK, WorkerInv, execute_msg_reply, Conn
    <2> QED BY <1>15, <2>1, ReleaseType DEF TypeOK, execute_msg_reply
  <1>16. CASE search_list
    BY <1>16 DEF TypeOK, search_list
  <1> QED BY <1>1, <1>2, <1>3, <1>4, <1>5, <1>6, <1>7, <1>8, <1>9, <1>10,
             <1>11, <1>12, <1>13, <1>14, <1>15, <1>16 DEF NormalWorker

\* The control worker keeps the types: a state it sets was commanded.
LEMMA TypeControl ==
  ASSUME TypeOK, WorkerInv, ControlWorker
  PROVE  TypeOK'
  <1> USE DEF CtrlPCs
  <1>1. CASE run_control_dequeue
    <2>1. ctrl' \in Seq(Cmd) /\ Len(ctrl') <= CtrlLimit /\ Head(ctrl) \in Cmd
      BY <1>1, ElemsTail, LimitAssumption DEF TypeOK, run_control_dequeue
    <2> QED BY <1>1, <2>1 DEF TypeOK, run_control_dequeue
  <1>2. CASE set_mode
    BY <1>2 DEF TypeOK, set_mode
  <1>3. CASE handle_rep_msg_kill
    BY <1>3 DEF TypeOK, handle_rep_msg_kill, kill_chkpt_thrd_if_running,
                stop_chk_pt_thread_spin
  <1>4. CASE set_state_check
    <2>1. kpc' \in CtrlPCs /\ signal' \in BOOLEAN /\ aborted' \in BOOLEAN
      BY <1>4 DEF TypeOK, set_state_check, kill_chkpt_thrd_if_running,
                  stop_chk_pt_thread_spin, LegalState
    <2> QED BY <1>4, <2>1 DEF TypeOK, set_state_check
  <1>5. CASE set_state_commit
    <2>1. state' \in States
      BY <1>5 DEF WorkerInv, set_state_commit, RepMgrCmds, RepMgrPCs, States,
                  ActiveStates, PassiveStates
    <2> QED BY <1>5, <2>1 DEF TypeOK, set_state_commit
  <1>6. CASE execute_msg_ctrl_demand
    BY <1>6 DEF TypeOK, execute_msg_ctrl_demand
  <1>7. CASE send_checkpoint_ondemand
    BY <1>7 DEF TypeOK, send_checkpoint_ondemand
  <1>8. CASE execute_msg_ctrl_reply
    <2>1. kcur \in Conn
      BY <1>8 DEF TypeOK, WorkerInv, execute_msg_ctrl_reply, Conn
    <2> QED BY <1>8, <2>1, ReleaseType DEF TypeOK, execute_msg_ctrl_reply
  <1> QED BY <1>1, <1>2, <1>3, <1>4, <1>5, <1>6, <1>7, <1>8 DEF ControlWorker

\* The checkpoint thread keeps the types.
LEMMA TypeCheckpoint ==
  ASSUME TypeOK, NEW t \in Tid, CheckpointThread(t)
  PROVE  TypeOK'
  BY DEF TypeOK, CheckpointThread, send_checkpoint_check, send_checkpoint_wait,
         send_checkpoint_export, send_checkpoint_exit, ChkPCs

\* Every step keeps the types.
LEMMA TypeStep ==
  ASSUME TypeOK, WorkerInv, Next
  PROVE  TypeOK'
  BY TypeEnvironment, TypeConnection, TypeNormal, TypeControl, TypeCheckpoint
     DEF Next

----------------------------------------------------------------------------
(* What the workers know *)

\* The worker starts with nothing in hand.
LEMMA WorkerInit == Init => WorkerInv
  BY DEF Init, WorkerInv, RepMgrPCs

\* A context released by a thread other than the control worker is not the
\* one the control worker holds.
LEMMA OthersCommand ==
  ASSUME TypeOK, NEW c \in Conn, Release(c), kcur # c
  PROVE  kcur # None => cmd'[kcur] = cmd[kcur]
  BY DEF TypeOK, Release

\* The threads of the connections and the environment leave the message of
\* the control worker alone.
LEMMA WorkerConnection ==
  ASSUME TypeOK, WorkerInv, OwnerInv, NEW c \in Conn,
         ConnectionThread(c) \/ Environment
  PROVE  WorkerInv'
  <1> USE DEF WorkerInv, RepMgrPCs
  <1>0. kcur # None => kcur \in Cmd /\ kcur \in Conn /\ pc[kcur] \in Handed
    BY DEF TypeOK, OwnerInv, Live, Conn
  <1>a. ASSUME NEW d \in Conn, pc[d] \notin Handed, Release(d)
        PROVE  kcur # None => cmd'[kcur] = cmd[kcur]
    BY <1>a, <1>0, OthersCommand
  <1>1. CASE enqueue_normal(c)
    <2>1. CASE Len(nrl) < NrlLimit
      <3>1. nrl' # <<>>
        <4>1. nrl' = Append(nrl, c) /\ c \in Req \cup Chk /\ nrl \in Seq(Req \cup Chk)
          BY <1>1, <2>1 DEF enqueue_normal, TypeOK
        <4> QED BY <4>1, ElemsAppend
      <3> QED BY <1>1, <2>1, <3>1 DEF enqueue_normal
    <2>2. CASE ~(Len(nrl) < NrlLimit)
      BY <1>1, <2>2, <1>a DEF enqueue_normal, Handed
    <2> QED BY <2>1, <2>2
  <1>2. CASE enqueue_control(c)
    BY <1>2, <1>a DEF enqueue_control, Handed
  <1>3. CASE put_in_quiesence_set(c) \/ remove_from_quiesence_save(c)
    BY <1>3, <1>a DEF put_in_quiesence_set, remove_from_quiesence_save, Handed
  <1>4. CASE \/ enqueue_client_req_classify(c) \/ set_worker_prune(c)
             \/ handle_connection_post(c) \/ handle_connection_touch(c)
             \/ put_in_quiesence_save(c) \/ remove_from_quiesence_set(c)
    BY <1>4 DEF enqueue_client_req_classify, set_worker_prune,
                handle_connection_post, handle_connection_touch,
                put_in_quiesence_save, remove_from_quiesence_set
  <1>5. ASSUME NEW d \in Cmd, NEW k \in CmdKinds, accept_command(d, k)
        PROVE  WorkerInv'
    <2>1. kcur # None => cmd'[kcur] = cmd[kcur]
      BY <1>5, <1>0 DEF accept_command, TypeOK, Handed
    <2> QED BY <1>5, <2>1 DEF accept_command
  <1>6. ASSUME NEW k \in Chk, handle_connection_payload(k) PROVE WorkerInv'
    BY <1>6 DEF handle_connection_payload
  <1>7. ASSUME NEW r \in Req, enqueue_client_req_classify(r) PROVE WorkerInv'
    BY <1>7 DEF enqueue_client_req_classify
  <1> QED BY <1>1, <1>2, <1>3, <1>4, <1>5, <1>6, <1>7
          DEF ConnectionThread, Environment

\* The normal worker finds the log as it left it, or longer.
LEMMA WorkerNormal ==
  ASSUME TypeOK, WorkerInv, NormalWorker
  PROVE  WorkerInv'
  <1> USE DEF WorkerInv, RepMgrPCs
  <1>1. CASE run_prune
    <2>1. /\ Head(nrl) \in Req \cup Chk /\ Head(nrl) \in Conn
          /\ Head(nrl) # None /\ Head(nrl) # kcur
      BY <1>1, ElemsTail, ConnAssumption DEF TypeOK, run_prune, Conn
    <2>2. kcur # None => cmd'[kcur] = cmd[kcur]
      BY <1>1, <2>1, OthersCommand DEF run_prune
    <2> QED BY <1>1, <2>1, <2>2 DEF run_prune
  <1>2. CASE run_dequeue
    <2>1. Head(nrl) # None
      BY <1>2, ElemsTail, ConnAssumption DEF TypeOK, run_dequeue, Conn
    <2> QED BY <1>2, <2>1 DEF run_dequeue
  <1>3. CASE execute_msg_reply
    <2>1. ncur \in Conn /\ ncur # kcur
      BY <1>3, ConnAssumption DEF TypeOK, execute_msg_reply, Conn
    <2>2. kcur # None => cmd'[kcur] = cmd[kcur]
      BY <1>3, <2>1, OthersCommand DEF execute_msg_reply
    <2>3. npc' \in {"top", "drain"}
      BY <1>3 DEF TypeOK, execute_msg_reply
    <2> QED BY <1>3, <2>2, <2>3 DEF execute_msg_reply
  <1>4. CASE \/ run_top \/ run_prune_end \/ run_gate \/ run_count \/ run_promote
             \/ run_pick \/ execute_msg_lock \/ start_ckhpt_thread_test
             \/ start_ckhpt_thread_mark \/ set_state_primary
             \/ execute_msg_store \/ search_list
    BY <1>4 DEF run_top, run_prune_end, run_gate, run_count, run_promote,
                run_pick, execute_msg_lock, start_ckhpt_thread_test,
                start_ckhpt_thread_mark, set_state_primary, execute_msg_store,
                search_list
  <1>5. ASSUME NEW t \in Tid, start_ckhpt_thread_create(t) PROVE WorkerInv'
    BY <1>5 DEF start_ckhpt_thread_create
  <1> QED BY <1>1, <1>2, <1>3, <1>4, <1>5 DEF NormalWorker

\* The control worker sets the mode before anything that needs it.
LEMMA WorkerControl ==
  ASSUME TypeOK, WorkerInv, ControlWorker
  PROVE  WorkerInv'
  <1> USE DEF WorkerInv, RepMgrPCs
  <1>1. CASE run_control_dequeue
    <2>1. Head(ctrl) # None
      BY <1>1, ElemsTail, ConnAssumption DEF TypeOK, run_control_dequeue, Conn
    <2> QED BY <1>1, <2>1 DEF run_control_dequeue
  <1>2. CASE set_mode
    BY <1>2 DEF set_mode, TypeOK
  <1>3. CASE handle_rep_msg_kill \/ set_state_check
    BY <1>3 DEF handle_rep_msg_kill, set_state_check,
                kill_chkpt_thrd_if_running, stop_chk_pt_thread_spin
  <1>4. CASE set_state_commit \/ execute_msg_ctrl_demand
             \/ send_checkpoint_ondemand \/ execute_msg_ctrl_reply
    BY <1>4 DEF set_state_commit, execute_msg_ctrl_demand,
                send_checkpoint_ondemand, execute_msg_ctrl_reply
  <1> QED BY <1>1, <1>2, <1>3, <1>4 DEF ControlWorker

\* Every step keeps what the worker holds.
LEMMA WorkerStep ==
  ASSUME TypeOK, WorkerInv, OwnerInv, Next
  PROVE  WorkerInv'
  <1>1. ASSUME NEW t \in Tid, CheckpointThread(t) PROVE WorkerInv'
    BY <1>1 DEF WorkerInv, CheckpointThread, send_checkpoint_check,
                send_checkpoint_wait, send_checkpoint_export, send_checkpoint_exit
  <1>2. CASE Environment
    <2>1. PICK c \in Conn : TRUE
      BY <1>2 DEF Environment, Conn
    <2> QED BY <1>2, <2>1, WorkerConnection
  <1> QED BY <1>1, <1>2, WorkerConnection, WorkerNormal, WorkerControl DEF Next

----------------------------------------------------------------------------
(* One owner for every context *)

\* No connection is in use.
LEMMA OwnerInit == Init => OwnerInv
  BY ConnAssumption DEF Init, OwnerInv, NoDup, Elems, Live

\* Steps that move no context keep the invariant if they only advance the
\* thread of a connection that is not yet handed over, or leave it handed.
LEMMA OwnerFrame ==
  ASSUME OwnerInv, UNCHANGED <<nrl, ctrl, ncur, kcur>>,
         \A c \in Conn : pc[c] \in Handed => pc'[c] \in Handed
  PROVE  OwnerInv'
  BY DEF OwnerInv, Live, NoDup, Elems

\* A context enters a log only from the thread that still owns it.
LEMMA OwnerConnection ==
  ASSUME TypeOK, OwnerInv, NEW c \in Conn, ConnectionThread(c)
  PROVE  OwnerInv'
  <1>0. ASSUME pc[c] \notin Handed PROVE ~Live(c)
    BY <1>0 DEF OwnerInv
  <1>1. CASE enqueue_normal(c)
    <2>1. CASE Len(nrl) < NrlLimit
      <3>1. /\ nrl' = Append(nrl, c) /\ c \in Req \cup Chk
            /\ nrl \in Seq(Req \cup Chk) /\ ctrl' = ctrl
            /\ ncur' = ncur /\ kcur' = kcur
            /\ pc' = [pc EXCEPT ![c] = "post"] /\ ~Live(c)
        BY <1>1, <2>1, <1>0 DEF enqueue_normal, TypeOK, Handed
      <3>2. Elems(nrl') = Elems(nrl) \cup {c}
        BY <3>1, ElemsAppend
      <3>3. NoDup(nrl')
        BY <3>1, NoDupAppend DEF OwnerInv, Live
      <3>4. ncur' \notin Elems(nrl') /\ kcur' \notin Elems(ctrl') /\ NoDup(ctrl')
        BY <3>1, <3>2 DEF OwnerInv, Live
      <3>5. ASSUME NEW d \in Conn, Live(d)' PROVE pc'[d] \in Handed
        <4>1. d = c \/ Live(d)
          BY <3>1, <3>2, <3>5 DEF Live
        <4> QED BY <4>1, <3>1 DEF OwnerInv, TypeOK, Handed
      <3> QED BY <3>3, <3>4, <3>5 DEF OwnerInv
    <2>2. CASE ~(Len(nrl) < NrlLimit)
      BY <1>1, <2>2, OwnerFrame DEF enqueue_normal, TypeOK, Handed
    <2> QED BY <2>1, <2>2
  <1>2. CASE enqueue_control(c)
    <2>1. CASE Len(ctrl) < CtrlLimit
      <3>1. /\ ctrl' = Append(ctrl, c) /\ c \in Cmd
            /\ ctrl \in Seq(Cmd) /\ nrl' = nrl
            /\ ncur' = ncur /\ kcur' = kcur
            /\ pc' = [pc EXCEPT ![c] = "post"] /\ ~Live(c)
        BY <1>2, <2>1, <1>0 DEF enqueue_control, TypeOK, Handed
      <3>2. Elems(ctrl') = Elems(ctrl) \cup {c}
        BY <3>1, ElemsAppend
      <3>3. NoDup(ctrl')
        BY <3>1, NoDupAppend DEF OwnerInv, Live
      <3>4. ncur' \notin Elems(nrl') /\ kcur' \notin Elems(ctrl') /\ NoDup(nrl')
        BY <3>1, <3>2 DEF OwnerInv, Live
      <3>5. ASSUME NEW d \in Conn, Live(d)' PROVE pc'[d] \in Handed
        <4>1. d = c \/ Live(d)
          BY <3>1, <3>2, <3>5 DEF Live
        <4> QED BY <4>1, <3>1 DEF OwnerInv, TypeOK, Handed
      <3> QED BY <3>3, <3>4, <3>5 DEF OwnerInv
    <2>2. CASE ~(Len(ctrl) < CtrlLimit)
      BY <1>2, <2>2, OwnerFrame DEF enqueue_control, TypeOK, Handed
    <2> QED BY <2>1, <2>2
  <1>3. CASE \/ enqueue_client_req_classify(c) \/ set_worker_prune(c)
             \/ handle_connection_post(c) \/ handle_connection_touch(c)
             \/ put_in_quiesence_save(c) \/ put_in_quiesence_set(c)
             \/ remove_from_quiesence_set(c) \/ remove_from_quiesence_save(c)
    <2>1. UNCHANGED <<nrl, ctrl, ncur, kcur>>
      BY <1>3 DEF enqueue_client_req_classify, set_worker_prune,
           handle_connection_post, handle_connection_touch,
           put_in_quiesence_save, put_in_quiesence_set,
           remove_from_quiesence_set, remove_from_quiesence_save
    <2>2. \A d \in Conn : pc[d] \in Handed => pc'[d] \in Handed
      BY <1>3 DEF enqueue_client_req_classify, set_worker_prune,
           handle_connection_post, handle_connection_touch,
           put_in_quiesence_save, put_in_quiesence_set,
           remove_from_quiesence_set, remove_from_quiesence_save,
           TypeOK, Handed
    <2> QED BY <2>1, <2>2, OwnerFrame
  <1> QED BY <1>1, <1>2, <1>3 DEF ConnectionThread

\* Steps of the clients and of the manager.
LEMMA OwnerEnvironment ==
  ASSUME TypeOK, OwnerInv, Environment
  PROVE  OwnerInv'
  <1>1. UNCHANGED <<nrl, ctrl, ncur, kcur>>
    BY DEF Environment, accept_command, handle_connection_payload,
           enqueue_client_req_classify
  <1>2. \A d \in Conn : pc[d] \in Handed => pc'[d] \in Handed
    BY DEF Environment, accept_command, handle_connection_payload,
           enqueue_client_req_classify, TypeOK, Handed
  <1> QED BY <1>1, <1>2, OwnerFrame

\* A context leaves the normal log for the worker's hands, or for good.
LEMMA OwnerNormal ==
  ASSUME TypeOK, WorkerInv, OwnerInv, NormalWorker
  PROVE  OwnerInv'
  <1>1. CASE run_prune \/ run_dequeue
    <2>1. /\ nrl \in Seq(Req \cup Chk) /\ nrl # <<>> /\ nrl' = Tail(nrl)
          /\ ctrl' = ctrl /\ kcur' = kcur /\ pc' = pc
          /\ ncur' \in {ncur, Head(nrl)}
      BY <1>1 DEF run_prune, run_dequeue, TypeOK, WorkerInv
    <2>2. /\ NoDup(nrl') /\ Head(nrl) \notin Elems(nrl')
          /\ Elems(nrl') \subseteq Elems(nrl) /\ Head(nrl) \in Elems(nrl)
      BY <2>1, ElemsTail DEF OwnerInv
    <2>3. ncur' \notin Elems(nrl')
      BY <2>1, <2>2 DEF OwnerInv
    <2>4. ASSUME NEW d \in Conn, Live(d)' PROVE Live(d)
      BY <2>1, <2>2, <2>4 DEF Live
    <2> QED BY <2>1, <2>2, <2>3, <2>4 DEF OwnerInv
  <1>2. CASE execute_msg_reply
    <2>1. /\ UNCHANGED <<nrl, ctrl, kcur, pc>> /\ ncur' = None
      BY <1>2 DEF execute_msg_reply
    <2>2. None \notin Elems(nrl)
      BY ElemsType, ConnAssumption DEF Conn
    <2>3. ASSUME NEW d \in Conn, Live(d)' PROVE Live(d)
      BY <2>1, <2>3, ConnAssumption DEF Live
    <2> QED BY <2>1, <2>2, <2>3 DEF OwnerInv
  <1>3. CASE \/ run_top \/ run_prune_end \/ run_gate \/ run_count \/ run_promote
             \/ run_pick \/ execute_msg_lock \/ start_ckhpt_thread_test
             \/ (\E t \in Tid : start_ckhpt_thread_create(t))
             \/ start_ckhpt_thread_mark \/ set_state_primary
             \/ execute_msg_store \/ search_list
    <2>1. UNCHANGED <<nrl, ctrl, ncur, kcur, pc>>
      BY <1>3 DEF run_top, run_prune_end, run_gate, run_count, run_promote,
                run_pick, execute_msg_lock, start_ckhpt_thread_test,
                start_ckhpt_thread_create, start_ckhpt_thread_mark,
                set_state_primary, execute_msg_store, search_list
    <2> QED BY <2>1, OwnerFrame
  <1> QED BY <1>1, <1>2, <1>3 DEF NormalWorker

\* The same for the control log.
LEMMA OwnerControl ==
  ASSUME TypeOK, OwnerInv, ControlWorker
  PROVE  OwnerInv'
  <1>1. CASE run_control_dequeue
    <2>1. /\ ctrl \in Seq(Cmd) /\ ctrl # <<>> /\ ctrl' = Tail(ctrl)
          /\ nrl' = nrl /\ ncur' = ncur /\ pc' = pc
          /\ kcur' = Head(ctrl)
      BY <1>1 DEF run_control_dequeue, TypeOK
    <2>2. /\ NoDup(ctrl') /\ Head(ctrl) \notin Elems(ctrl')
          /\ Elems(ctrl') \subseteq Elems(ctrl) /\ Head(ctrl) \in Elems(ctrl)
      BY <2>1, ElemsTail DEF OwnerInv
    <2>3. ASSUME NEW d \in Conn, Live(d)' PROVE Live(d)
      BY <2>1, <2>2, <2>3 DEF Live
    <2> QED BY <2>1, <2>2, <2>3 DEF OwnerInv
  <1>2. CASE execute_msg_ctrl_reply
    <2>1. /\ UNCHANGED <<nrl, ctrl, ncur, pc>> /\ kcur' = None
      BY <1>2 DEF execute_msg_ctrl_reply
    <2>2. None \notin Elems(ctrl)
      BY ElemsType, ConnAssumption DEF Conn
    <2>3. ASSUME NEW d \in Conn, Live(d)' PROVE Live(d)
      BY <2>1, <2>3, ConnAssumption DEF Live
    <2> QED BY <2>1, <2>2, <2>3 DEF OwnerInv
  <1>3. CASE \/ set_mode \/ handle_rep_msg_kill \/ set_state_check
             \/ set_state_commit \/ execute_msg_ctrl_demand
             \/ send_checkpoint_ondemand
    <2>1. UNCHANGED <<nrl, ctrl, ncur, kcur, pc>>
      BY <1>3 DEF set_mode, handle_rep_msg_kill, set_state_check,
                  set_state_commit, execute_msg_ctrl_demand,
                  send_checkpoint_ondemand
    <2> QED BY <2>1, OwnerFrame
  <1> QED BY <1>1, <1>2, <1>3 DEF ControlWorker

\* Every step keeps each connection with one owner.
LEMMA OwnerStep ==
  ASSUME TypeOK, WorkerInv, OwnerInv, Next
  PROVE  OwnerInv'
  <1>1. ASSUME NEW t \in Tid, CheckpointThread(t) PROVE OwnerInv'
    <2>1. UNCHANGED <<nrl, ctrl, ncur, kcur, pc>>
      BY <1>1 DEF CheckpointThread, send_checkpoint_check,
                send_checkpoint_wait, send_checkpoint_export, send_checkpoint_exit
    <2> QED BY <2>1, OwnerFrame
  <1> QED BY <1>1, OwnerEnvironment, OwnerConnection, OwnerNormal, OwnerControl
          DEF Next

----------------------------------------------------------------------------
(* Passive mode *)

\* No connection has been accepted or closed.
LEMMA PassiveInit == Init => PassiveInv
  <1> SUFFICES ASSUME Init PROVE PassiveInv
    OBVIOUS
  <1>1. Elems(nrl) = {} /\ Elems(ctrl) = {} /\ ncur = None
    BY DEF Init, Elems
  <1> QED BY <1>1, ConnAssumption DEF Init, PassiveInv, Handed, Conn

\* Steps that move no context, close nothing and import nothing.
LEMMA PassiveFrame ==
  ASSUME PassiveInv, UNCHANGED <<nrl, ctrl, ncur, kcur, closes, cmd, tmp, aborted>>,
         npc = "reply" => npc' = "reply",
         \A c \in Conn : \/ pc'[c] = pc[c]
                         \/ /\ pc[c] \in Handed <=> pc'[c] \in Handed
                            /\ pc'[c] \notin {"touch", "q1", "q2", "s1", "s2"}
                            /\ c \in Chk => pc[c] # "absent"
  PROVE  PassiveInv'
  <1> SUFFICES ASSUME DeployedMode = "PASSIVE_REP" PROVE PassiveInv'
    BY DEF PassiveInv
  <1>1. \A c \in Conn : Live(c)' <=> Live(c)
    BY DEF Live, Elems
  <1>2. Elems(nrl') = Elems(nrl)
    BY DEF Elems
  <1>3. Chk \subseteq Conn
    BY DEF Conn
  <1>4. \A c \in Conn : pc'[c] \notin {"touch", "q1", "q2", "s1", "s2"}
    BY DEF PassiveInv
  <1>5. \A c \in Conn : Live(c)' \/ pc'[c] \notin Handed => closes'[c] = 0
    BY <1>1 DEF PassiveInv
  <1>6. ASSUME NEW k \in Chk, ServerId # 0,
               \/ k \in Elems(nrl')
               \/ k = ncur' /\ npc' # "reply"
               \/ pc'[k] \notin Handed \cup {"absent"}
        PROVE  k \in tmp'
    <2>1. \/ k \in Elems(nrl)
          \/ k = ncur /\ npc # "reply"
          \/ pc[k] \notin Handed \cup {"absent"}
      BY <1>2, <1>3, <1>6
    <2> QED BY <2>1, <1>6 DEF PassiveInv
  <1> QED BY <1>4, <1>5, <1>6 DEF PassiveInv

\* Closing a context that is live or not yet handed over, once.
LEMMA PassiveRelease ==
  ASSUME TypeOK, PassiveInv, DeployedMode = "PASSIVE_REP",
         NEW c \in Conn, Release(c), closes[c] = 0,
         ~Live(c)', pc'[c] \in Handed,
         \A d \in Conn \ {c} : /\ Live(d)' => Live(d)
                               /\ pc'[d] = pc[d]
  PROVE  /\ \A d \in Conn : closes'[d] <= 1
         /\ \A d \in Conn : Live(d)' \/ pc'[d] \notin Handed => closes'[d] = 0
         /\ \A d \in Cmd : cmd'[d] \notin {"ACTIVE_RUNNING", "ACTIVE_RECOVER"}
  <1>1. closes' = [closes EXCEPT ![c] = @ + 1] /\ closes \in [Conn -> Nat]
    BY DEF Release, Close, TypeOK
  <1>2. \A d \in Conn : closes'[d] = IF d = c THEN 1 ELSE closes[d]
    BY <1>1
  <1>3. \A d \in Conn : closes'[d] <= 1
    BY <1>2 DEF PassiveInv
  <1>4. \A d \in Conn : Live(d)' \/ pc'[d] \notin Handed => closes'[d] = 0
    BY <1>2 DEF PassiveInv
  <1>5. \A d \in Cmd : cmd'[d] \notin {"ACTIVE_RUNNING", "ACTIVE_RECOVER"}
    BY DEF PassiveInv, Release
  <1> QED BY <1>3, <1>4, <1>5

\* enqueue hands the context over or closes it, never both.
LEMMA PassiveEnqueue ==
  ASSUME TypeOK, OwnerInv, PassiveInv, DeployedMode = "PASSIVE_REP",
         NEW c \in Conn, enqueue_normal(c) \/ enqueue_control(c)
  PROVE  PassiveInv'
  <1>0. /\ pc[c] = "enqueue" /\ pc[c] \notin Handed /\ ~Live(c) /\ closes[c] = 0
        /\ pc \in [Conn -> ConnPCs]
    BY DEF enqueue_normal, enqueue_control, Handed, OwnerInv, PassiveInv, TypeOK
  <1>1. UNCHANGED <<ncur, kcur, npc, tmp, aborted>>
    BY DEF enqueue_normal, enqueue_control
  <1>2. CASE UNCHANGED <<closes, cmd>> /\ pc' = [pc EXCEPT ![c] = "post"]
    <2>1. /\ Elems(nrl') \subseteq Elems(nrl) \cup {c}
          /\ Elems(ctrl') \subseteq Elems(ctrl) \cup {c}
      <3>1. /\ \/ nrl' = nrl
               \/ nrl' = Append(nrl, c) /\ c \in Req \cup Chk
            /\ \/ ctrl' = ctrl
               \/ ctrl' = Append(ctrl, c) /\ c \in Cmd
        BY DEF enqueue_normal, enqueue_control
      <3>2. nrl \in Seq(Req \cup Chk) /\ ctrl \in Seq(Cmd)
        BY DEF TypeOK
      <3>3. Elems(nrl') \subseteq Elems(nrl) \cup {c}
        <4>1. CASE nrl' = nrl
          BY <4>1 DEF Elems
        <4>2. CASE nrl' = Append(nrl, c) /\ c \in Req \cup Chk
          <5>1. Elems(Append(nrl, c)) = Elems(nrl) \cup {c}
            BY <4>2, <3>2, ElemsAppend
          <5> QED BY <5>1, <4>2
        <4> QED BY <3>1, <4>1, <4>2
      <3>4. Elems(ctrl') \subseteq Elems(ctrl) \cup {c}
        <4>1. CASE ctrl' = ctrl
          BY <4>1 DEF Elems
        <4>2. CASE ctrl' = Append(ctrl, c) /\ c \in Cmd
          <5>1. Elems(Append(ctrl, c)) = Elems(ctrl) \cup {c}
            BY <4>2, <3>2, ElemsAppend
          <5> QED BY <5>1, <4>2
        <4> QED BY <3>1, <4>1, <4>2
      <3> QED BY <3>3, <3>4
    <2>2. ASSUME NEW d \in Conn, Live(d)' PROVE d = c \/ Live(d)
      BY <2>1, <2>2, <1>1 DEF Live
    <2>3. \A d \in Conn : pc'[d] = IF d = c THEN "post" ELSE pc[d]
      BY <1>2, <1>0
    <2>4. \A d \in Conn : pc'[d] \notin {"touch", "q1", "q2", "s1", "s2"}
      BY <2>3 DEF PassiveInv
    <2>5. ASSUME NEW d \in Conn, Live(d)' \/ pc'[d] \notin Handed
          PROVE  closes'[d] = 0
      <3>1. CASE d = c
        BY <3>1, <1>0, <1>2
      <3>2. CASE d # c
        BY <3>2, <2>2, <2>3, <2>5, <1>2 DEF PassiveInv
      <3> QED BY <3>1, <3>2
    <2>6. ASSUME NEW k \in Chk, ServerId # 0,
                 \/ k \in Elems(nrl')
                 \/ k = ncur' /\ npc' # "reply"
                 \/ pc'[k] \notin Handed \cup {"absent"}
          PROVE  k \in tmp'
      <3>1. CASE k = c
        BY <3>1, <1>0, <1>1, <2>6 DEF PassiveInv
      <3>2. CASE k # c
        BY <3>2, <1>1, <2>1, <2>3, <2>6 DEF PassiveInv, Conn
      <3> QED BY <3>1, <3>2
    <2> QED BY <2>4, <2>5, <2>6, <1>1, <1>2 DEF PassiveInv
  <1>3. CASE Release(c) /\ pc' = [pc EXCEPT ![c] = "done"] /\ UNCHANGED <<nrl, ctrl>>
    <2>1. \A d \in Conn : pc'[d] = IF d = c THEN "done" ELSE pc[d]
      BY <1>3, <1>0
    <2>2. \A d \in Conn : Live(d)' = Live(d)
      BY <1>1, <1>3 DEF Live, Elems
    <2>3. /\ \A d \in Conn : closes'[d] <= 1
          /\ \A d \in Conn : Live(d)' \/ pc'[d] \notin Handed => closes'[d] = 0
          /\ \A d \in Cmd : cmd'[d] \notin {"ACTIVE_RUNNING", "ACTIVE_RECOVER"}
      <3>1. ~Live(c)' /\ pc'[c] \in Handed
        BY <1>0, <2>1, <2>2 DEF Handed, Live
      <3>2. \A d \in Conn \ {c} : (Live(d)' => Live(d)) /\ pc'[d] = pc[d]
        BY <2>1, <2>2
      <3> QED BY <3>1, <3>2, <1>0, <1>3, PassiveRelease
    <2>4. \A d \in Conn : pc'[d] \notin {"touch", "q1", "q2", "s1", "s2"}
      BY <2>1 DEF PassiveInv
    <2>5. ASSUME NEW k \in Chk, ServerId # 0,
                 \/ k \in Elems(nrl')
                 \/ k = ncur' /\ npc' # "reply"
                 \/ pc'[k] \notin Handed \cup {"absent"}
          PROVE  k \in tmp'
      <3>1. Elems(nrl') = Elems(nrl)
        BY <1>3 DEF Elems
      <3>2. \/ k \in Elems(nrl)
            \/ k = ncur /\ npc # "reply"
            \/ pc[k] \notin Handed \cup {"absent"}
        BY <3>1, <2>1, <2>5, <1>1 DEF Conn, Handed
      <3> QED BY <3>2, <2>5, <1>1 DEF PassiveInv
    <2> QED BY <2>3, <2>4, <2>5, <1>1 DEF PassiveInv
  <1> QED BY <1>2, <1>3 DEF enqueue_normal, enqueue_control

\* The threads of the connections: none of them quiesces, none touches a
\* context after handing it over.
LEMMA PassiveConnection ==
  ASSUME TypeOK, OwnerInv, PassiveInv, DeployedMode = "PASSIVE_REP",
         NEW c \in Conn, ConnectionThread(c)
  PROVE  PassiveInv'
  <1>0. pc \in [Conn -> ConnPCs] /\ mode # "ACTIVE_REP"
    BY DEF TypeOK
  <1>1. CASE enqueue_normal(c) \/ enqueue_control(c)
    BY <1>1, PassiveEnqueue
  <1>2. CASE \/ handle_connection_touch(c)
             \/ put_in_quiesence_save(c) \/ put_in_quiesence_set(c)
             \/ remove_from_quiesence_set(c) \/ remove_from_quiesence_save(c)
    <2>1. pc[c] \in {"touch", "q1", "q2", "s1", "s2"}
      BY <1>2 DEF handle_connection_touch, put_in_quiesence_save,
                  put_in_quiesence_set, remove_from_quiesence_set,
                  remove_from_quiesence_save
    <2> QED BY <2>1 DEF PassiveInv
  <1>3. CASE \/ enqueue_client_req_classify(c) /\ c \in Chk
             \/ set_worker_prune(c) \/ handle_connection_post(c)
    <2>1. UNCHANGED <<nrl, ctrl, ncur, kcur, closes, cmd, tmp, aborted, npc>>
      BY <1>3 DEF enqueue_client_req_classify, set_worker_prune,
                  handle_connection_post
    <2>2. \/ pc[c] \in {"classify", "prune"} /\ c \in Conn
             /\ \E v \in {"prune", "enqueue"} : pc' = [pc EXCEPT ![c] = v]
          \/ pc[c] = "post" /\ pc' = [pc EXCEPT ![c] = "done"]
      BY <1>3, <1>0, ConnAssumption DEF enqueue_client_req_classify,
         set_worker_prune, handle_connection_post
    <2>3. \A d \in Conn : \/ pc'[d] = pc[d]
                          \/ /\ pc[d] \in Handed <=> pc'[d] \in Handed
                             /\ pc'[d] \notin {"touch", "q1", "q2", "s1", "s2"}
                             /\ d \in Chk => pc[d] # "absent"
      BY <2>2, <1>0 DEF Handed
    <2> QED BY <2>1, <2>3, PassiveFrame
  <1> QED BY <1>1, <1>2, <1>3 DEF ConnectionThread

\* What the manager sends in passive mode are roles and checkpoint requests.
LEMMA PassiveEnvironment ==
  ASSUME TypeOK, PassiveInv, DeployedMode = "PASSIVE_REP", Environment
  PROVE  PassiveInv'
  <1>0. pc \in [Conn -> ConnPCs] /\ cmd \in [Cmd -> CmdKinds \cup {"none"}]
        /\ Chk \subseteq Conn /\ Cmd \subseteq Conn /\ Req \subseteq Conn
    BY DEF TypeOK, Conn
  <1>1. ASSUME NEW c \in Cmd, NEW k \in CmdKinds, accept_command(c, k)
        PROVE  PassiveInv'
    <2>1. /\ k \notin {"ACTIVE_RUNNING", "ACTIVE_RECOVER", "QSTART", "QSTOP"}
          /\ pc[c] = "absent" /\ cmd' = [cmd EXCEPT ![c] = k]
      BY <1>1 DEF accept_command, RmMaySend
    <2>2. pc' = [pc EXCEPT ![c] = "enqueue"]
      BY <1>1, <2>1 DEF accept_command
    <2>3. UNCHANGED <<nrl, ctrl, ncur, kcur, closes, tmp, aborted, npc>>
      BY <1>1 DEF accept_command
    <2>4. \A d \in Conn : Live(d)' = Live(d)
      BY <2>3 DEF Live, Elems
    <2>5. Elems(nrl') = Elems(nrl)
      BY <2>3 DEF Elems
    <2>6. \A d \in Conn : pc'[d] = IF d = c THEN "enqueue" ELSE pc[d]
      BY <2>2, <1>0
    <2>7. \A d \in Cmd : cmd'[d] \notin {"ACTIVE_RUNNING", "ACTIVE_RECOVER"}
      BY <2>1, <1>0 DEF PassiveInv
    <2>8. \A d \in Conn : Live(d)' \/ pc'[d] \notin Handed => closes'[d] = 0
      BY <2>1, <2>3, <2>4, <2>6 DEF PassiveInv, Handed
    <2>9. c \notin Chk
      BY ConnAssumption
    <2>10. \A d \in Chk : pc'[d] = pc[d]
      BY <2>6, <2>9, <1>0
    <2>11. \A d \in Conn : pc'[d] \notin {"touch", "q1", "q2", "s1", "s2"}
      BY <2>6 DEF PassiveInv
    <2> QED BY <2>3, <2>5, <2>7, <2>8, <2>10, <2>11 DEF PassiveInv
  <1>2. ASSUME NEW c \in Chk, handle_connection_payload(c) PROVE PassiveInv'
    <2>1. /\ pc[c] = "absent" /\ pc' = [pc EXCEPT ![c] = "classify"]
          /\ tmp' = tmp \cup {TmpName(c)}
          /\ UNCHANGED <<nrl, ctrl, ncur, kcur, closes, cmd, aborted, npc>>
      BY <1>2 DEF handle_connection_payload
    <2>2. \A d \in Conn : Live(d)' = Live(d)
      BY <2>1 DEF Live, Elems
    <2>3. Elems(nrl') = Elems(nrl)
      BY <2>1 DEF Elems
    <2>4. \A d \in Conn : pc'[d] = IF d = c THEN "classify" ELSE pc[d]
      BY <2>1, <1>0
    <2>5. ServerId # 0 => c \in tmp'
      BY <2>1 DEF TmpName
    <2>6. \A d \in Conn : Live(d)' \/ pc'[d] \notin Handed => closes'[d] = 0
      BY <2>1, <2>2, <2>4, <1>0 DEF PassiveInv, Handed
    <2>7. ASSUME NEW k \in Chk, ServerId # 0,
                 \/ k \in Elems(nrl')
                 \/ k = ncur' /\ npc' # "reply"
                 \/ pc'[k] \notin Handed \cup {"absent"}
          PROVE  k \in tmp'
      <3>1. CASE k = c
        BY <3>1, <2>5, <2>7
      <3>2. CASE k # c
        BY <3>2, <2>1, <2>3, <2>4, <2>7, <1>0 DEF PassiveInv
      <3> QED BY <3>1, <3>2
    <2>8. \A d \in Conn : pc'[d] \notin {"touch", "q1", "q2", "s1", "s2"}
      BY <2>4 DEF PassiveInv
    <2> QED BY <2>1, <2>6, <2>7, <2>8 DEF PassiveInv
  <1>3. ASSUME NEW r \in Req, enqueue_client_req_classify(r) PROVE PassiveInv'
    <2>1. UNCHANGED <<nrl, ctrl, ncur, kcur, closes, cmd, tmp, aborted, npc>>
      BY <1>3 DEF enqueue_client_req_classify
    <2>2. pc[r] = "absent" /\ pc' = [pc EXCEPT ![r] = "enqueue"] /\ r \notin Chk
      BY <1>3, ConnAssumption DEF enqueue_client_req_classify
    <2>3. \A d \in Conn : \/ pc'[d] = pc[d]
                          \/ /\ pc[d] \in Handed <=> pc'[d] \in Handed
                             /\ pc'[d] \notin {"touch", "q1", "q2", "s1", "s2"}
                             /\ d \in Chk => pc[d] # "absent"
      BY <2>2, <1>0 DEF Handed
    <2> QED BY <2>1, <2>3, PassiveFrame
  <1> QED BY <1>1, <1>2, <1>3 DEF Environment

\* The normal worker closes what it discards or answers, and imports a
\* checkpoint whose file is still there.
LEMMA PassiveNormal ==
  ASSUME TypeOK, WorkerInv, OwnerInv, PassiveInv, DeployedMode = "PASSIVE_REP",
         NormalWorker
  PROVE  PassiveInv'
  <1>0. pc \in [Conn -> ConnPCs] /\ Chk \subseteq Conn /\ Req \subseteq Conn
        /\ Elems(nrl) \subseteq Conn /\ Elems(nrl) \cap Cmd = {}
    BY ElemsType, ConnAssumption DEF TypeOK, Conn
  <1>1. CASE run_dequeue \/ (run_prune /\ Head(nrl) \in Chk)
    <2>1. /\ nrl \in Seq(Req \cup Chk) /\ nrl # <<>> /\ nrl' = Tail(nrl)
          /\ ncur' = Head(nrl) /\ npc' = "lock"
          /\ UNCHANGED <<ctrl, kcur, pc, closes, cmd, tmp, aborted>>
      BY <1>1 DEF run_dequeue, run_prune, TypeOK, WorkerInv
    <2>2. Elems(nrl') \subseteq Elems(nrl) /\ Head(nrl) \in Elems(nrl)
      BY <2>1, ElemsTail
    <2>3. \A d \in Conn : Live(d)' => Live(d)
      BY <2>1, <2>2 DEF Live
    <2>4. \A d \in Conn : Live(d)' \/ pc'[d] \notin Handed => closes'[d] = 0
      BY <2>1, <2>3 DEF PassiveInv
    <2>5. \A k \in Chk : (k \in Elems(nrl') \/ k = ncur') => k \in Elems(nrl)
      BY <2>1, <2>2
    <2> QED BY <2>1, <2>4, <2>5 DEF PassiveInv
  <1>2. CASE run_prune /\ Head(nrl) \notin Chk
    <2>1. /\ nrl \in Seq(Req \cup Chk) /\ nrl # <<>> /\ nrl' = Tail(nrl)
          /\ Release(Head(nrl))
          /\ UNCHANGED <<ctrl, kcur, ncur, npc, pc, tmp, aborted>>
      BY <1>2 DEF run_prune, TypeOK
    <2>2. /\ Elems(nrl') \subseteq Elems(nrl) /\ Head(nrl) \in Elems(nrl)
          /\ Head(nrl) \notin Elems(nrl')
      BY <2>1, ElemsTail DEF OwnerInv
    <2>3. \A d \in Conn : Live(d)' => Live(d)
      BY <2>1, <2>2 DEF Live
    <2>4. PICK c \in Conn : c = Head(nrl)
      BY <2>2, <1>0
    <2>5. closes[c] = 0 /\ pc'[c] \in Handed
      BY <2>1, <2>2, <2>4 DEF PassiveInv, OwnerInv, Live
    <2>6. ~Live(c)'
      <3>1. c # ncur
        BY <2>2, <2>4 DEF OwnerInv
      <3>2. c \notin Elems(ctrl) /\ c # kcur
        BY <2>2, <2>4, <1>0, ElemsType, ConnAssumption DEF TypeOK
      <3>3. Elems(ctrl') = Elems(ctrl)
        BY <2>1 DEF Elems
      <3> QED BY <3>1, <3>2, <3>3, <2>1, <2>2, <2>4 DEF Live
    <2>7. /\ \A d \in Conn : closes'[d] <= 1
          /\ \A d \in Conn : Live(d)' \/ pc'[d] \notin Handed => closes'[d] = 0
          /\ \A d \in Cmd : cmd'[d] \notin {"ACTIVE_RUNNING", "ACTIVE_RECOVER"}
      <3>1. \A d \in Conn \ {c} : (Live(d)' => Live(d)) /\ pc'[d] = pc[d]
        BY <2>1, <2>3
      <3>2. Release(c)
        BY <2>1, <2>4
      <3> QED BY <3>1, <3>2, <2>5, <2>6, PassiveRelease
    <2> QED BY <2>1, <2>2, <2>7 DEF PassiveInv
  <1>3. CASE execute_msg_reply
    <2>1. /\ Release(ncur) /\ ncur' = None /\ ncur # None
          /\ UNCHANGED <<nrl, ctrl, kcur, pc, tmp, aborted>>
      BY <1>3 DEF execute_msg_reply, WorkerInv
    <2>2. PICK c \in Conn : c = ncur /\ c \notin Cmd
      BY <2>1, ConnAssumption DEF TypeOK, Conn
    <2>3. closes[c] = 0 /\ pc'[c] \in Handed /\ Release(c)
      BY <2>1, <2>2 DEF PassiveInv, OwnerInv, Live
    <2>4. Elems(nrl') = Elems(nrl) /\ Elems(ctrl') = Elems(ctrl)
      BY <2>1 DEF Elems
    <2>5. ~Live(c)'
      <3>1. c \notin Elems(nrl)
        BY <2>2 DEF OwnerInv
      <3>2. c \notin Elems(ctrl) /\ c # kcur /\ c # None
        BY <2>1, <2>2, ElemsType DEF TypeOK
      <3> QED BY <3>1, <3>2, <2>1, <2>4 DEF Live
    <2>6. \A d \in Conn : (Live(d)' => Live(d)) /\ pc'[d] = pc[d]
      BY <2>1, <2>4, ConnAssumption DEF Live
    <2>7. /\ \A d \in Conn : closes'[d] <= 1
          /\ \A d \in Conn : Live(d)' \/ pc'[d] \notin Handed => closes'[d] = 0
          /\ \A d \in Cmd : cmd'[d] \notin {"ACTIVE_RUNNING", "ACTIVE_RECOVER"}
      BY <2>3, <2>5, <2>6, PassiveRelease
    <2>8. \A k \in Chk : k # ncur'
      BY <2>1, ConnAssumption DEF Conn
    <2> QED BY <2>1, <2>4, <2>7, <2>8 DEF PassiveInv
  <1>4. CASE execute_msg_store
    <2>1. /\ npc = "store" /\ npc' = "reply" /\ ncur # None
          /\ UNCHANGED <<nrl, ctrl, ncur, kcur, pc, closes, cmd>>
          /\ tmp' = IF ncur \in Chk THEN tmp \ {TmpName(ncur)} ELSE tmp
          /\ aborted' = (ncur \in Chk /\ TmpName(ncur) \notin tmp)
      BY <1>4 DEF execute_msg_store, WorkerInv
    <2>2. Elems(nrl') = Elems(nrl) /\ \A d \in Conn : Live(d)' = Live(d)
      BY <2>1 DEF Elems, Live
    <2>3. ServerId # 0 => ~aborted'
      BY <2>1 DEF PassiveInv, TmpName
    <2>4. ASSUME NEW k \in Chk, ServerId # 0,
                 \/ k \in Elems(nrl')
                 \/ k = ncur' /\ npc' # "reply"
                 \/ pc'[k] \notin Handed \cup {"absent"}
          PROVE  k \in tmp'
      <3>1. k \in Elems(nrl) \/ pc[k] \notin Handed \cup {"absent"}
        BY <2>1, <2>2, <2>4
      <3>2. k \in tmp
        BY <3>1, <2>4 DEF PassiveInv
      <3>3. k # ncur
        <4>1. CASE k \in Elems(nrl)
          BY <4>1 DEF OwnerInv
        <4>2. CASE pc[k] \notin Handed
          BY <4>2, <1>0 DEF OwnerInv, Live
        <4> QED BY <3>1, <4>1, <4>2
      <3> QED BY <3>2, <3>3, <2>1, <2>4 DEF TmpName
    <2>5. \A d \in Conn : Live(d)' \/ pc'[d] \notin Handed => closes'[d] = 0
      BY <2>1, <2>2 DEF PassiveInv
    <2> QED BY <2>1, <2>3, <2>4, <2>5 DEF PassiveInv
  <1>5. CASE \/ run_top \/ run_prune_end \/ run_gate \/ run_count \/ run_promote
             \/ run_pick \/ execute_msg_lock \/ start_ckhpt_thread_test
             \/ (\E t \in Tid : start_ckhpt_thread_create(t))
             \/ start_ckhpt_thread_mark \/ set_state_primary \/ search_list
    <2>1. /\ UNCHANGED <<nrl, ctrl, ncur, kcur, closes, cmd, tmp, aborted, pc>>
          /\ npc # "reply"
      BY <1>5 DEF run_top, run_prune_end, run_gate, run_count, run_promote,
                run_pick, execute_msg_lock, start_ckhpt_thread_test,
                start_ckhpt_thread_create, start_ckhpt_thread_mark,
                set_state_primary, search_list
    <2> QED BY <2>1, PassiveFrame
  <1> QED BY <1>1, <1>2, <1>3, <1>4, <1>5 DEF NormalWorker

\* The control worker closes what it answers; the states it is told to set
\* are states of passive mode.
LEMMA PassiveControl ==
  ASSUME TypeOK, WorkerInv, OwnerInv, PassiveInv, DeployedMode = "PASSIVE_REP",
         ControlWorker
  PROVE  PassiveInv'
  <1>1. CASE run_control_dequeue
    <2>1. /\ ctrl \in Seq(Cmd) /\ ctrl # <<>> /\ ctrl' = Tail(ctrl)
          /\ kcur' = Head(ctrl)
          /\ UNCHANGED <<nrl, ncur, npc, pc, closes, cmd, tmp, aborted>>
      BY <1>1 DEF run_control_dequeue, TypeOK
    <2>2. Elems(ctrl') \subseteq Elems(ctrl) /\ Head(ctrl) \in Elems(ctrl)
      BY <2>1, ElemsTail
    <2>3. Elems(nrl') = Elems(nrl) /\ \A d \in Conn : Live(d)' => Live(d)
      BY <2>1, <2>2 DEF Live, Elems
    <2>4. \A d \in Conn : Live(d)' \/ pc'[d] \notin Handed => closes'[d] = 0
      BY <2>1, <2>3 DEF PassiveInv
    <2> QED BY <2>1, <2>3, <2>4 DEF PassiveInv
  <1>2. CASE execute_msg_ctrl_reply
    <2>1. /\ Release(kcur) /\ kcur' = None /\ kcur # None
          /\ UNCHANGED <<nrl, ctrl, ncur, npc, pc, tmp, aborted>>
      BY <1>2 DEF execute_msg_ctrl_reply, WorkerInv
    <2>2. PICK c \in Conn : c = kcur /\ c \in Cmd
      BY <2>1 DEF TypeOK, Conn
    <2>3. closes[c] = 0 /\ pc'[c] \in Handed /\ Release(c)
      BY <2>1, <2>2 DEF PassiveInv, OwnerInv, Live
    <2>4. Elems(nrl') = Elems(nrl) /\ Elems(ctrl') = Elems(ctrl)
      BY <2>1 DEF Elems
    <2>5. ~Live(c)'
      <3>1. c \notin Elems(ctrl)
        BY <2>2 DEF OwnerInv
      <3>2. c \notin Elems(nrl) /\ c # ncur /\ c # None
        BY <2>1, <2>2, ElemsType, ConnAssumption DEF TypeOK
      <3> QED BY <3>1, <3>2, <2>1, <2>4 DEF Live
    <2>6. \A d \in Conn : (Live(d)' => Live(d)) /\ pc'[d] = pc[d]
      BY <2>1, <2>4, ConnAssumption DEF Live
    <2>7. /\ \A d \in Conn : closes'[d] <= 1
          /\ \A d \in Conn : Live(d)' \/ pc'[d] \notin Handed => closes'[d] = 0
          /\ \A d \in Cmd : cmd'[d] \notin {"ACTIVE_RUNNING", "ACTIVE_RECOVER"}
      BY <2>3, <2>5, <2>6, PassiveRelease
    <2> QED BY <2>1, <2>4, <2>7 DEF PassiveInv
  <1>3. CASE set_state_check
    <2>1. UNCHANGED <<nrl, ctrl, ncur, kcur, closes, cmd, tmp, npc, pc>>
      BY <1>3 DEF set_state_check
    <2>2. ServerId # 0 => aborted' = aborted
      <3>1. CASE kpc = "kill2"
        <4>1. /\ kcur \in Cmd /\ cmd[kcur] \in RepMgrCmds /\ mode = DeployedMode
          BY <3>1, ConnAssumption DEF WorkerInv, RepMgrPCs, TypeOK
        <4>2. cmd[kcur] \in PassiveStates
          BY <4>1 DEF PassiveInv, RepMgrCmds, PassiveStates
        <4>3. LegalState(mode, cmd[kcur])
          BY <4>1, <4>2 DEF LegalState
        <4>4. aborted' = ~LegalState(mode, cmd[kcur]) /\ ~aborted
          BY <1>3, <3>1 DEF set_state_check, stop_chk_pt_thread_spin
        <4>5. aborted' = FALSE
          BY <4>3, <4>4
        <4>6. aborted = FALSE
          BY <4>4 DEF TypeOK
        <4> QED BY <4>5, <4>6
      <3>2. CASE kpc # "kill2"
        BY <1>3, <3>2 DEF set_state_check
      <3> QED BY <3>1, <3>2
    <2>3. Elems(nrl') = Elems(nrl) /\ \A d \in Conn : Live(d)' = Live(d)
      BY <2>1 DEF Elems, Live
    <2>4. \A d \in Conn : Live(d)' \/ pc'[d] \notin Handed => closes'[d] = 0
      BY <2>1, <2>3 DEF PassiveInv
    <2> QED BY <2>1, <2>2, <2>3, <2>4 DEF PassiveInv
  <1>4. CASE \/ set_mode \/ handle_rep_msg_kill \/ set_state_commit
             \/ execute_msg_ctrl_demand \/ send_checkpoint_ondemand
    <2>1. UNCHANGED <<nrl, ctrl, ncur, kcur, closes, cmd, tmp, aborted, npc, pc>>
      BY <1>4 DEF set_mode, handle_rep_msg_kill, set_state_commit,
                  execute_msg_ctrl_demand, send_checkpoint_ondemand
    <2> QED BY <2>1, PassiveFrame
  <1> QED BY <1>1, <1>2, <1>3, <1>4 DEF ControlWorker

\* Every step keeps what holds besides in passive mode.
LEMMA PassiveStep ==
  ASSUME TypeOK, WorkerInv, OwnerInv, PassiveInv, Next
  PROVE  PassiveInv'
  <1> SUFFICES ASSUME DeployedMode = "PASSIVE_REP" PROVE PassiveInv'
    BY DEF PassiveInv
  <1>1. ASSUME NEW t \in Tid, CheckpointThread(t) PROVE PassiveInv'
    <2>1. UNCHANGED <<nrl, ctrl, ncur, kcur, closes, cmd, tmp, aborted, npc, pc>>
      BY <1>1 DEF CheckpointThread, send_checkpoint_check,
                send_checkpoint_wait, send_checkpoint_export, send_checkpoint_exit
    <2> QED BY <2>1, PassiveFrame
  <1> QED BY <1>1, PassiveEnvironment, PassiveConnection, PassiveNormal,
             PassiveControl DEF Next

----------------------------------------------------------------------------
(* Theorems *)

\* The invariant of the server process, in both modes: the types, what the
\* workers know, one owner for every context, the checkpoint thread's flag,
\* and in passive mode the bookkeeping of descriptors and checkpoint files.
THEOREM ServerInvariant == Spec => []ServerInv
  <1>1. Init => ServerInv
    BY TypeInit, WorkerInit, OwnerInit, PassiveInit, ChkptInit DEF ServerInv
  <1>2. ServerInv /\ [Next]_vars => ServerInv'
    <2> SUFFICES ASSUME ServerInv, [Next]_vars PROVE ServerInv'
      OBVIOUS
    <2>1. CASE Next
      BY <2>1, TypeStep, WorkerStep, OwnerStep, PassiveStep, ChkptStep DEF ServerInv
    <2>2. CASE UNCHANGED vars
      <3>1. TypeOK' /\ WorkerInv' /\ ChkptInv'
        BY <2>2 DEF ServerInv, TypeOK, WorkerInv, ChkptInv, Threads, vars
      <3>2. OwnerInv'
        BY <2>2, OwnerFrame DEF ServerInv, vars
      <3>3. PassiveInv'
        BY <2>2, PassiveFrame DEF ServerInv, vars
      <3> QED BY <3>1, <3>2, <3>3 DEF ServerInv
    <2> QED BY <2>1, <2>2
  <1> QED BY <1>1, <1>2, PTL DEF Spec

\* Every variable keeps its type and the logs stay within their limits.
THEOREM TypeCorrect == Spec => []TypeOK
  BY ServerInvariant, PTL DEF ServerInv

\* There is never a second checkpoint thread, whatever promotions, demotions
\* and exits of the thread interleave.
THEOREM OneChkptThread == Spec => []AtMostOneChkptThread
  <1>1. ServerInv => AtMostOneChkptThread
    BY DEF ServerInv, ChkptInv, AtMostOneChkptThread
  <1> QED BY <1>1, ServerInvariant, PTL

\* In passive mode no connection is closed twice and no context is used after
\* it was freed.
THEOREM PassiveReleasedOnce ==
    DeployedMode = "PASSIVE_REP" => (Spec => []ReleasedOnce)
  <1> SUFFICES ASSUME DeployedMode = "PASSIVE_REP" PROVE Spec => []ReleasedOnce
    OBVIOUS
  <1>1. ServerInv => ReleasedOnce
    BY DEF ServerInv, PassiveInv, ReleasedOnce
  <1> QED BY <1>1, ServerInvariant, PTL

\* In passive mode a server other than server 0 never dies of an assertion of
\* set_state or of a missing checkpoint file.
THEOREM PassiveNoAbort ==
    DeployedMode = "PASSIVE_REP" /\ ServerId # 0 => (Spec => []NoAbort)
  <1> SUFFICES ASSUME DeployedMode = "PASSIVE_REP", ServerId # 0
               PROVE  Spec => []NoAbort
    OBVIOUS
  <1>1. ServerInv => NoAbort
    BY DEF ServerInv, PassiveInv, NoAbort
  <1> QED BY <1>1, ServerInvariant, PTL

====
