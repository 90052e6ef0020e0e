---- MODULE ReplicationManagerProofs ----
(***************************************************************************)
(* RMInv is an inductive invariant of the replication manager, for any     *)
(* number of replicas.                                                     *)
(***************************************************************************)
EXTENDS ReplicationManager, FiniteSetTheorems, TLAPS

Members == {i \in Replica : server_status[i]}

\* The successor in the ring is a replica.
LEMMA SuccessorType ==
  ASSUME NEW i \in Replica
  PROVE  Successor(i) \in Replica
  <1>1. i + 1 \in Nat /\ N \in Nat /\ N > 0
    BY NAssumption DEF Replica
  <1>2. (i + 1) % N \in 0 .. N - 1
    BY <1>1
  <1> QED BY <1>2 DEF Successor, Replica

\* Any set of replicas is finite and has at most N members.
LEMMA ReplicaFinite ==
  ASSUME NEW S \in SUBSET Replica
  PROVE  IsFiniteSet(S) /\ Cardinality(S) \in 0 .. N
  <1>1. IsFiniteSet(Replica) /\ Cardinality(Replica) = N
    <2>1. 0 \in Int /\ N - 1 \in Int
      BY NAssumption
    <2>2. IsFiniteSet(0 .. N - 1) /\ Cardinality(0 .. N - 1) =
             IF 0 > N - 1 THEN 0 ELSE (N - 1) - 0 + 1
      BY <2>1, FS_Interval
    <2> QED BY <2>2, NAssumption DEF Replica
  <1>2. IsFiniteSet(S) /\ Cardinality(S) <= Cardinality(Replica)
    BY <1>1, FS_Subset
  <1>3. Cardinality(S) \in Nat
    BY <1>2, FS_CardinalityType
  <1> QED BY <1>1, <1>2, <1>3, NAssumption

\* print_current_state_info keeps the count at or above the membership: it
\* counts up and down exactly when a member comes or goes, and the cap at
\* MAX_REPLICAS does not bite below the number of members.
LEMMA CountStep ==
  ASSUME TypeOK, CountCoversMembers, NEW i \in Replica,
         NEW s \in {"RUNNING", "FAULTED"}, print_current_state_info(i, s)
  PROVE  /\ server_status' \in [Replica -> BOOLEAN]
         /\ num_servers' \in 0 .. N
         /\ CountCoversMembers'
  <1>1. server_status \in [Replica -> BOOLEAN] /\ num_servers \in 0 .. N
        /\ server_status' = [server_status EXCEPT ![i] = s = "RUNNING"]
    BY DEF TypeOK, print_current_state_info
  <1>2. IsFiniteSet(Members) /\ Cardinality(Members) <= num_servers
        /\ Cardinality(Members) \in Nat
    BY ReplicaFinite DEF Members, CountCoversMembers
  <1>3. server_status' \in [Replica -> BOOLEAN]
    BY <1>1
  <1>4. Cardinality(Members') \in 0 .. N
    BY ReplicaFinite DEF Members
  <1>5. CASE s = "RUNNING"
    <2>1. Members' = Members \cup {i}
      BY <1>1, <1>5 DEF Members
    <2>2. Cardinality(Members') = IF i \in Members THEN Cardinality(Members)
                                                  ELSE Cardinality(Members) + 1
      BY <1>2, <2>1, FS_AddElement
    <2>3. i \in Members <=> server_status[i]
      BY DEF Members
    <2>4. num_servers' = IF server_status[i] THEN num_servers
                         ELSE IF num_servers + 1 > N THEN N ELSE num_servers + 1
      BY <1>5 DEF print_current_state_info
    <2>5. num_servers' \in 0 .. N /\ Cardinality(Members') <= num_servers'
      BY <1>1, <1>2, <1>4, <2>2, <2>3, <2>4, NAssumption
    <2> QED BY <1>3, <2>5 DEF CountCoversMembers, Members
  <1>6. CASE s = "FAULTED"
    <2>1. Members' = Members \ {i}
      BY <1>1, <1>6 DEF Members
    <2>2. Cardinality(Members') = IF i \in Members THEN Cardinality(Members) - 1
                                                  ELSE Cardinality(Members)
      BY <1>2, <2>1, FS_RemoveElement
    <2>3. i \in Members <=> server_status[i]
      BY DEF Members
    <2>4. num_servers' = IF server_status[i] THEN num_servers - 1 ELSE num_servers
      BY <1>6 DEF print_current_state_info
    <2>5. num_servers' \in 0 .. N /\ Cardinality(Members') <= num_servers'
      BY <1>1, <1>2, <1>4, <2>2, <2>3, <2>4, NAssumption
    <2> QED BY <1>3, <2>5 DEF CountCoversMembers, Members
  <1> QED BY <1>5, <1>6

\* The sweep only shrinks the membership.
LEMMA SweepStep ==
  ASSUME RMInv, gfd_hbt
  PROVE  RMInv'
  <1>1. TypeOK'
    BY DEF RMInv, TypeOK, gfd_hbt
  <1>2. /\ DonorExists'
        /\ RoleAgreement'
        /\ Owed'
    BY DEF RMInv, gfd_hbt, DonorExists, RoleAgreement, PrimaryState, Owed
  <1>3. Members' \subseteq Members /\ IsFiniteSet(Members)
    BY ReplicaFinite DEF Members, gfd_hbt
  <1>4. Cardinality(Members') <= Cardinality(Members)
    BY <1>3, FS_Subset
  <1>5. /\ Cardinality(Members) \in 0 .. N /\ Cardinality(Members') \in 0 .. N
        /\ Cardinality(Members) <= num_servers
        /\ num_servers' = num_servers /\ num_servers \in 0 .. N
    BY ReplicaFinite DEF Members, RMInv, CountCoversMembers, gfd_hbt, TypeOK
  <1>6. Cardinality(Members') <= num_servers'
    BY <1>4, <1>5, NAssumption
  <1>7. CountCoversMembers'
    BY <1>6 DEF CountCoversMembers, Members
  <1> QED BY <1>1, <1>2, <1>7 DEF RMInv

\* Reading a report touches nothing the invariant is about.
LEMMA ReportStep ==
  ASSUME RMInv, NEW i \in Replica, NEW s \in {"RUNNING", "FAULTED"},
         handle_fault_detector_message(i, s)
  PROVE  RMInv'
  BY DEF RMInv, TypeOK, DonorExists, RoleAgreement, PrimaryState, Owed, CountCoversMembers,
         handle_fault_detector_message

\* What every report that reaches the end of handle_state leaves typed.
LEMMA HandleTyped ==
  ASSUME TypeOK, CountCoversMembers, NEW i \in Replica,
         NEW s \in {"RUNNING", "FAULTED"}, Handle(i, s), Finish(i, s)
  PROVE  /\ mode' \in {0, 1} /\ mode' = mode /\ report' = NoReport
         /\ locked' \in BOOLEAN
         /\ node_state' \in [Replica -> {"RUNNING", "FAULTED"}]
         /\ node_state' = [node_state EXCEPT ![i] = s]
         /\ last_heartbeat' \in [Replica -> BOOLEAN]
         /\ server_status' \in [Replica -> BOOLEAN]
         /\ num_servers' \in 0 .. N
         /\ CountCoversMembers'
  <1>1. /\ server_status' \in [Replica -> BOOLEAN]
        /\ num_servers' \in 0 .. N
        /\ CountCoversMembers'
    BY CountStep DEF Finish
  <1>2. /\ mode' \in {0, 1} /\ mode' = mode /\ report' = NoReport
        /\ locked' \in BOOLEAN
        /\ node_state' \in [Replica -> {"RUNNING", "FAULTED"}]
        /\ node_state' = [node_state EXCEPT ![i] = s]
        /\ last_heartbeat' \in [Replica -> BOOLEAN]
    BY DEF TypeOK, Handle, Finish
  <1> QED BY <1>1, <1>2

\* Reports of a running replica: roles follow the primary, and the owed
\* checkpoint is requested before the replica counts as running.
LEMMA RunningStep ==
  ASSUME RMInv, NEW i \in Replica,
         \/ running_again(i) \/ running_passive(i)
         \/ running_active_first(i) \/ running_active_join(i)
  PROVE  RMInv'
  <1>0. Handle(i, "RUNNING") /\ Finish(i, "RUNNING")
    BY DEF running_again, running_passive, running_active_first, running_active_join
  <1>1. /\ mode' \in {0, 1} /\ mode' = mode /\ report' = NoReport
        /\ locked' \in BOOLEAN
        /\ node_state' \in [Replica -> {"RUNNING", "FAULTED"}]
        /\ node_state' = [node_state EXCEPT ![i] = "RUNNING"]
        /\ last_heartbeat' \in [Replica -> BOOLEAN]
        /\ server_status' \in [Replica -> BOOLEAN]
        /\ num_servers' \in 0 .. N
        /\ CountCoversMembers'
    BY <1>0, HandleTyped DEF RMInv
  <1>2. CASE running_again(i)
    <2>1. UNCHANGED <<primary, needs_checkpoint, role, faulted, asked>>
          /\ node_state[i] = "RUNNING"
      BY <1>2 DEF running_again, RMInv, TypeOK
    <2>2. node_state' = node_state
      BY <2>1, <1>1 DEF RMInv, TypeOK
    <2> QED BY <1>1, <2>1, <2>2 DEF RMInv, TypeOK, DonorExists, RoleAgreement, PrimaryState, Owed
  <1>3. CASE running_passive(i)
    <2>1. /\ mode = 0
          /\ role' = [role EXCEPT ![i] = IF i = primary THEN "PASSIVE_PREPRIMARY"
                                                        ELSE "PASSIVE_BACKUP"]
          /\ asked' = [asked EXCEPT ![i] = asked[i] \/ needs_checkpoint[i]]
          /\ UNCHANGED <<primary, needs_checkpoint, faulted>>
      BY <1>3 DEF running_passive, PrimaryState
    <2>2. TypeOK'
      BY <1>1, <2>1 DEF RMInv, TypeOK
    <2>3. DonorExists' /\ RoleAgreement'
      BY <1>1, <2>1 DEF RMInv, TypeOK, DonorExists, RoleAgreement, PrimaryState
    <2>4. Owed'
      BY <1>1, <2>1 DEF RMInv, TypeOK, Owed
    <2> QED BY <1>1, <2>2, <2>3, <2>4 DEF RMInv
  <1>4. CASE running_active_first(i) \/ running_active_join(i)
    <2>1. /\ mode = 1 /\ role' = [role EXCEPT ![i] = "ACTIVE_RUNNING"]
          /\ UNCHANGED <<needs_checkpoint, faulted>>
          /\ primary' \in {primary, i}
          /\ asked' \in [Replica -> BOOLEAN]
      BY <1>4 DEF running_active_first, running_active_join, PrimaryState, RMInv, TypeOK
    <2>2. TypeOK'
      BY <1>1, <2>1 DEF RMInv, TypeOK
    <2>3. DonorExists'
      BY <2>1 DEF RMInv, DonorExists, Replica
    <2>4. RoleAgreement' /\ Owed'
      BY <1>1, <2>1 DEF RMInv, TypeOK, RoleAgreement, PrimaryState, Owed
    <2> QED BY <1>1, <2>2, <2>3, <2>4 DEF RMInv
  <1> QED BY <1>2, <1>3, <1>4

\* The path that keeps the lock: the replica is told its role and stays
\* FAULTED.
LEMMA LeakStep ==
  ASSUME RMInv, NEW i \in Replica, running_passive_leak(i)
  PROVE  RMInv'
  <1>1. /\ mode = 0 /\ mode' = mode /\ report' = NoReport /\ locked' = TRUE
        /\ node_state[i] = "FAULTED"
        /\ last_heartbeat' = [last_heartbeat EXCEPT ![i] = TRUE]
        /\ role' = [role EXCEPT ![i] = IF i = primary THEN "PASSIVE_PREPRIMARY"
                                                      ELSE "PASSIVE_BACKUP"]
        /\ UNCHANGED <<node_state, primary, server_status, num_servers,
                       needs_checkpoint, faulted, asked>>
    BY DEF running_passive_leak, Handle, PrimaryState
  <1>2. TypeOK'
    BY <1>1 DEF RMInv, TypeOK
  <1>3. DonorExists' /\ RoleAgreement' /\ Owed' /\ CountCoversMembers'
    BY <1>1 DEF RMInv, TypeOK, DonorExists, RoleAgreement, PrimaryState, Owed, CountCoversMembers
  <1> QED BY <1>2, <1>3 DEF RMInv

\* Reports of a faulted replica: it stops running, so only the role of its
\* successor has to follow the election.
LEMMA FaultedStep ==
  ASSUME RMInv, NEW i \in Replica,
         \/ faulted_passive_first(i) \/ faulted_passive_primary(i)
         \/ faulted_passive_backup(i) \/ faulted_active(i)
  PROVE  RMInv'
  <1>0. Handle(i, "FAULTED") /\ Finish(i, "FAULTED")
    BY DEF faulted_passive_first, faulted_passive_primary,
           faulted_passive_backup, faulted_active
  <1>1. /\ mode' \in {0, 1} /\ mode' = mode /\ report' = NoReport
        /\ locked' \in BOOLEAN
        /\ node_state' \in [Replica -> {"RUNNING", "FAULTED"}]
        /\ node_state' = [node_state EXCEPT ![i] = "FAULTED"]
        /\ last_heartbeat' \in [Replica -> BOOLEAN]
        /\ server_status' \in [Replica -> BOOLEAN]
        /\ num_servers' \in 0 .. N
        /\ CountCoversMembers'
    BY <1>0, HandleTyped DEF RMInv
  <1>2. asked' = [asked EXCEPT ![i] = FALSE]
    BY DEF faulted_passive_first, faulted_passive_primary,
           faulted_passive_backup, faulted_active
  <1>3. CASE faulted_passive_first(i)
    <2>1. /\ mode = 0 /\ primary = -1 /\ primary' = i
          /\ UNCHANGED <<needs_checkpoint, role, faulted>>
      BY <1>3 DEF faulted_passive_first
    <2>2. TypeOK'
      BY <1>1, <1>2, <2>1 DEF RMInv, TypeOK
    <2>3. DonorExists'
      BY <2>1 DEF Replica, DonorExists
    <2>4. RoleAgreement' /\ Owed'
      BY <1>1, <1>2, <2>1 DEF RMInv, TypeOK, RoleAgreement, PrimaryState, Owed, Replica
    <2> QED BY <1>1, <2>2, <2>3, <2>4 DEF RMInv
  <1>4. CASE faulted_passive_primary(i)
    <2>1. PICK p \in Replica : p = Successor(i)
      BY SuccessorType
    <2>2. /\ mode = 0 /\ primary = i /\ primary' = p
          /\ role' = [role EXCEPT ![p] = "PASSIVE_PREPRIMARY"]
          /\ needs_checkpoint' = [needs_checkpoint EXCEPT ![i] = TRUE]
          /\ faulted' = [faulted EXCEPT ![i] = TRUE]
      BY <1>4, <2>1 DEF faulted_passive_primary, PrimaryState
    <2>3. TypeOK'
      BY <1>1, <1>2, <2>2 DEF RMInv, TypeOK
    <2>4. DonorExists'
      BY <2>2 DEF Replica, DonorExists
    <2>5. RoleAgreement' /\ Owed'
      BY <1>1, <1>2, <2>2 DEF RMInv, TypeOK, RoleAgreement, PrimaryState, Owed
    <2> QED BY <1>1, <2>3, <2>4, <2>5 DEF RMInv
  <1>5. CASE faulted_passive_backup(i)
    <2>1. /\ mode = 0 /\ primary # -1
          /\ needs_checkpoint' = [needs_checkpoint EXCEPT ![i] = TRUE]
          /\ faulted' = [faulted EXCEPT ![i] = TRUE]
          /\ UNCHANGED <<primary, role>>
      BY <1>5 DEF faulted_passive_backup
    <2>2. TypeOK'
      BY <1>1, <1>2, <2>1 DEF RMInv, TypeOK
    <2>3. DonorExists' /\ RoleAgreement' /\ Owed'
      BY <1>1, <1>2, <2>1 DEF RMInv, TypeOK, DonorExists, RoleAgreement, PrimaryState, Owed
    <2> QED BY <1>1, <2>2, <2>3 DEF RMInv
  <1>6. CASE faulted_active(i)
    <2>1. PICK p \in Replica : p = Successor(i)
      BY SuccessorType
    <2>2. /\ mode = 1
          /\ \/ primary' = p /\ role' = [role EXCEPT ![p] = "ACTIVE_RUNNING"]
             \/ UNCHANGED <<primary, role>>
          /\ faulted' = [faulted EXCEPT ![i] = TRUE]
          /\ UNCHANGED needs_checkpoint
      BY <1>6, <2>1 DEF faulted_active, PrimaryState
    <2>3. TypeOK'
      BY <1>1, <1>2, <2>2 DEF RMInv, TypeOK
    <2>4. DonorExists'
      BY <2>2 DEF RMInv, Replica, DonorExists
    <2>5. RoleAgreement' /\ Owed'
      BY <1>1, <1>2, <2>2 DEF RMInv, TypeOK, RoleAgreement, PrimaryState, Owed
    <2> QED BY <1>1, <2>3, <2>4, <2>5 DEF RMInv
  <1> QED BY <1>3, <1>4, <1>5, <1>6

\* The initial state: nobody runs, nobody is owed anything.
LEMMA InitInv == Init => RMInv
  <1> SUFFICES ASSUME Init PROVE RMInv
    OBVIOUS
  <1>1. TypeOK
    <2>1. num_servers \in 0 .. N
      BY NAssumption DEF Init
    <2>2. primary \in Replica \cup {-1} /\ mode \in {0, 1} /\ locked \in BOOLEAN
      BY DEF Init
    <2>3. /\ node_state \in [Replica -> {"RUNNING", "FAULTED"}]
          /\ last_heartbeat \in [Replica -> BOOLEAN]
          /\ server_status \in [Replica -> BOOLEAN]
          /\ needs_checkpoint \in [Replica -> BOOLEAN]
          /\ role \in [Replica -> {"none", "PASSIVE_BACKUP", "PASSIVE_PREPRIMARY",
                                   "ACTIVE_RUNNING"}]
          /\ faulted \in [Replica -> BOOLEAN]
          /\ asked \in [Replica -> BOOLEAN]
      BY DEF Init
    <2> QED BY <2>1, <2>2, <2>3 DEF Init, TypeOK
  <1>2. DonorExists /\ RoleAgreement /\ Owed
    BY DEF Init, DonorExists, RoleAgreement, Owed
  <1>3. {i \in Replica : server_status[i]} = {} /\ num_servers = 0
    BY DEF Init
  <1>4. CountCoversMembers
    BY <1>3, FS_EmptySet DEF CountCoversMembers
  <1> QED BY <1>1, <1>2, <1>4 DEF RMInv

\* RMInv holds in every reachable state, for every number of replicas.
THEOREM ManagerInvariant == Spec => []RMInv
  <1>1. RMInv /\ [Next]_vars => RMInv'
    <2> SUFFICES ASSUME RMInv, [Next]_vars PROVE RMInv'
      OBVIOUS
    <2>1. CASE Next
      <3>1. ASSUME NEW i \in Replica, handle_state(i)
            PROVE  RMInv'
        BY <3>1, RunningStep, LeakStep, FaultedStep DEF handle_state
      <3> QED BY <2>1, <3>1, ReportStep, SweepStep DEF Next
    <2>2. CASE UNCHANGED vars
      BY <2>2 DEF vars, RMInv, TypeOK, DonorExists, RoleAgreement, PrimaryState, Owed,
                  CountCoversMembers
    <2> QED BY <2>1, <2>2
  <1> QED BY <1>1, InitInv, PTL DEF Spec

\* In every order of faults, restarts and elections the role last addressed
\* to a running replica is the one primary_replica_id gives it.
THEOREM RolesAgree == Spec => []RoleAgreement
  <1>1. RMInv => RoleAgreement
    BY DEF RMInv
  <1> QED BY <1>1, ManagerInvariant, PTL

\* A backup that has been down runs again only after a checkpoint has been
\* requested for it.
THEOREM RejoinersCovered == Spec => []RejoinerCovered
  <1>1. RMInv => RejoinerCovered
    BY DEF RMInv, Owed, RejoinerCovered
  <1> QED BY <1>1, ManagerInvariant, PTL

\* A checkpoint is never requested from replica -1.
THEOREM DonorAlwaysExists == Spec => []DonorExists
  <1>1. RMInv => DonorExists
    BY DEF RMInv
  <1> QED BY <1>1, ManagerInvariant, PTL

\* The number of active servers that is printed covers the servers that are
\* listed as active, although the sweep removes some without counting down.
THEOREM CountCovers == Spec => []CountCoversMembers
  <1>1. RMInv => CountCoversMembers
    BY DEF RMInv
  <1> QED BY <1>1, ManagerInvariant, PTL

====
