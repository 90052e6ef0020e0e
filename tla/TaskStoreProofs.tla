---- MODULE TaskStoreProofs ----
(***************************************************************************)
(* The table's inductive invariant and the size it keeps of itself, for    *)
(* any number of replicas, buckets, keys and requests; and what each       *)
(* operation on the table does to the tasks of one key.                    *)
(***************************************************************************)
EXTENDS TaskStore, TLAPS, WellFoundedInduction

\* A key has a bucket.
LEMMA HashInRange ==
    ASSUME NEW k \in Keys PROVE hash_func(k) \in Bucket
  <1>1. k \in Nat BY KeysAssumption
  <1>2. hash_table_len \in Nat /\ hash_table_len > 0 BY LenAssumption
  <1> QED BY <1>1, <1>2 DEF hash_func, Bucket

\* What removing one element of a sequence leaves.
LEMMA RemoveAtElements ==
    ASSUME NEW S, NEW s \in Seq(S), NEW p \in 1 .. Len(s)
    PROVE  /\ RemoveAt(s, p) \in Seq(S)
           /\ Len(RemoveAt(s, p)) = Len(s) - 1
           /\ \A i \in 1 .. Len(s) - 1 :
                  RemoveAt(s, p)[i] = IF i < p THEN s[i] ELSE s[i + 1]
  <1> DEFINE a == SubSeq(s, 1, p - 1)
             b == SubSeq(s, p + 1, Len(s))
  <1>1. Len(s) \in Nat /\ p \in 1 .. Len(s) OBVIOUS
  <1>2. a \in Seq(S) /\ Len(a) = p - 1 /\ \A i \in 1 .. p - 1 : a[i] = s[i]
    OBVIOUS
  <1>3. b \in Seq(S) /\ Len(b) = Len(s) - p
        /\ \A i \in 1 .. Len(s) - p : b[i] = s[i + p]
    OBVIOUS
  <1>4. RemoveAt(s, p) = a \o b BY DEF RemoveAt
  <1>5. a \o b \in Seq(S) BY <1>2, <1>3
  <1> HIDE DEF a, b
  <1>6. a \o b \in Seq(S) /\ Len(a \o b) = Len(a) + Len(b)
    <2>1. a \in Seq(S) /\ b \in Seq(S) BY <1>2, <1>3
    <2>2. Len(a \o b) = Len(a) + Len(b) BY <2>1
    <2> QED BY <1>5, <2>2
  <1>7. Len(a) + Len(b) = Len(s) - 1 BY <1>1, <1>2, <1>3
  <1>8. ASSUME NEW i \in 1 .. Len(s) - 1
        PROVE  (a \o b)[i] = IF i < p THEN s[i] ELSE s[i + 1]
    <2>1. CASE i < p BY <1>2, <1>3, <2>1
    <2>2. CASE i >= p
      <3>1. (a \o b)[i] = b[i - Len(a)] BY <1>2, <1>3, <2>2
      <3>2. i - Len(a) \in 1 .. Len(s) - p /\ i - Len(a) + p = i + 1
        BY <1>2, <1>3, <2>2
      <3>3. b[i - Len(a)] = s[i + 1] BY <1>3, <3>2
      <3>4. ~(i < p) BY <1>1, <2>2
      <3> QED BY <3>1, <3>3, <3>4
    <2>3. i < p \/ i >= p BY <1>1
    <2> QED BY <2>1, <2>2, <2>3
  <1> QED BY <1>4, <1>6, <1>8, <1>7

\* What is left are elements that were there.
LEMMA RemoveAtIsSeq ==
    ASSUME NEW S, NEW s \in Seq(S), NEW p \in 1 .. Len(s)
    PROVE  /\ RemoveAt(s, p) \in Seq(S)
           /\ \A i \in DOMAIN RemoveAt(s, p) :
                  \E j \in DOMAIN s : RemoveAt(s, p)[i] = s[j]
  <1> DEFINE t == RemoveAt(s, p)
  <1>1. t \in Seq(S) /\ Len(t) = Len(s) - 1 /\ Len(s) \in Nat
        /\ \A i \in 1 .. Len(s) - 1 : t[i] = IF i < p THEN s[i] ELSE s[i + 1]
    BY RemoveAtElements
  <1> HIDE DEF t
  <1>2. ASSUME NEW i \in DOMAIN t PROVE \E j \in DOMAIN s : t[i] = s[j]
    <2>1. i \in 1 .. Len(s) - 1 BY <1>1
    <2>2. i \in DOMAIN s /\ i + 1 \in DOMAIN s BY <2>1
    <2> QED BY <1>1, <2>1, <2>2
  <1> QED BY <1>1, <1>2 DEF t

\* The tables start empty.
LEMMA InitInv == Init => StoreInv
  <1> SUFFICES ASSUME Init PROVE StoreInv
    OBVIOUS
  <1>1. Empty \in [Bucket -> Seq(Node)] BY DEF Empty
  <1>2. Idle \in Walk BY DEF Walk
  <1>3. TypeOK
    BY <1>1, <1>2, BoundsAssumption DEF Init, TypeOK
  <1>4. Placed
    BY DEF Init, Placed, Empty
  <1>5. LoopIsForEver
    BY DEF Init, LoopIsForEver
  <1> QED BY <1>3, <1>4, <1>5 DEF StoreInv

\* The part of the invariant that is about table and data_size.
TableOK ==
    /\ table \in [Replica -> [Bucket -> Seq(Node)]]
    /\ data_size \in [Replica -> Int]
    /\ Placed

\* The part that is about everything else.
RestOK ==
    /\ ret \in [Replica -> {0, -1}]
    /\ looping \in [Replica -> BOOLEAN]
    /\ walk \in [Replica -> Walk]
    /\ \A f \in files :
           f.to \in Replica /\ f.records \in Seq(Record) /\ f.done \in 0 .. Len(requests)
    /\ taken \in 0 .. MaxTaken
    /\ requests \in Seq(Request)
    /\ done \in [Replica -> 0 .. Len(requests)]

\* The invariant in the parts that a step changes together.
LEMMA InvParts == StoreInv <=> TableOK /\ RestOK /\ LoopIsForEver
  BY DEF StoreInv, TypeOK, TableOK, RestOK

\* Appending to the bucket of the key keeps every node in its place.
LEMMA InsertKeepsTable ==
    ASSUME TableOK, NEW r \in Replica, NEW node \in Node,
           hash_table_insert(r, node)
    PROVE  TableOK'
  <1> DEFINE h == hash_func(node.key)
  <1>1. h \in Bucket BY HashInRange DEF Node
  <1>2. table[r][h] \in Seq(Node) BY <1>1 DEF TableOK
  <1>3. Append(table[r][h], node) \in Seq(Node)
        /\ Len(Append(table[r][h], node)) = Len(table[r][h]) + 1
        /\ \A i \in 1 .. Len(table[r][h]) :
               Append(table[r][h], node)[i] = table[r][h][i]
        /\ Append(table[r][h], node)[Len(table[r][h]) + 1] = node
    BY <1>2
  <1>4. table' = [table EXCEPT ![r][h] = Append(@, node)]
    BY DEF hash_table_insert
  <1>5. table' \in [Replica -> [Bucket -> Seq(Node)]]
    <2> HIDE DEF h
    <2> QED BY <1>1, <1>3, <1>4 DEF TableOK
  <1>6. TaskLen[node.task] \in Int BY TaskLenAssumption DEF Node
  <1>7. data_size' \in [Replica -> Int]
    BY <1>6 DEF TableOK, hash_table_insert
  <1>8. ASSUME NEW q \in Replica, NEW b \in Bucket, NEW i \in DOMAIN table'[q][b]
        PROVE  hash_func(table'[q][b][i].key) = b
    <2>1. CASE q = r /\ b = h
      <3>1. table'[q][b] = Append(table[r][h], node)
        BY <1>1, <1>4, <2>1 DEF TableOK
      <3>2. i \in 1 .. Len(table[r][h]) \/ i = Len(table[r][h]) + 1
        BY <1>2, <1>3, <1>8, <3>1
      <3> QED BY <1>2, <1>3, <2>1, <3>1, <3>2 DEF TableOK, Placed
    <2>2. CASE ~(q = r /\ b = h)
      <3>1. table'[q][b] = table[q][b] BY <1>1, <1>4, <2>2 DEF TableOK
      <3> QED BY <1>8, <3>1 DEF TableOK, Placed
    <2> QED BY <2>1, <2>2
  <1> QED BY <1>5, <1>7, <1>8 DEF TableOK, Placed

\* So does unlinking one node.
LEMMA DeleteKeepsTable ==
    ASSUME TableOK, NEW r \in Replica, NEW k \in Keys, hash_table_delete(r, k)
    PROVE  TableOK'
  <1> DEFINE h == hash_func(k)
  <1>1. h \in Bucket BY HashInRange
  <1>2. table[r][h] \in Seq(Node) BY <1>1 DEF TableOK
  <1>3. PICK p \in DOMAIN table[r][h] :
            /\ table' = [table EXCEPT ![r][h] = RemoveAt(@, p)]
            /\ data_size' = [data_size EXCEPT ![r] = @ - TaskLen[table[r][h][p].task]]
    BY DEF hash_table_delete
  <1>4. p \in 1 .. Len(table[r][h]) BY <1>2, <1>3
  <1>5. /\ RemoveAt(table[r][h], p) \in Seq(Node)
        /\ \A i \in DOMAIN RemoveAt(table[r][h], p) :
               \E j \in DOMAIN table[r][h] :
                   RemoveAt(table[r][h], p)[i] = table[r][h][j]
    <2> HIDE DEF h
    <2> QED BY <1>2, <1>4, RemoveAtIsSeq
  <1>6. table' \in [Replica -> [Bucket -> Seq(Node)]]
    <2> HIDE DEF h
    <2> QED BY <1>1, <1>3, <1>5 DEF TableOK
  <1>7. data_size' \in [Replica -> Int]
    <2>1. table[r][h][p] \in Node BY <1>2, <1>4
    <2>2. TaskLen[table[r][h][p].task] \in Int BY <2>1, TaskLenAssumption DEF Node
    <2> QED BY <1>3, <2>2 DEF TableOK
  <1>8. ASSUME NEW q \in Replica, NEW b \in Bucket, NEW i \in DOMAIN table'[q][b]
        PROVE  hash_func(table'[q][b][i].key) = b
    <2>1. CASE q = r /\ b = h
      <3>1. table'[q][b] = RemoveAt(table[r][h], p)
        BY <1>1, <1>3, <2>1 DEF TableOK
      <3>2. PICK j \in DOMAIN table[r][h] : table'[q][b][i] = table[r][h][j]
        BY <1>5, <1>8, <3>1
      <3> QED BY <1>1, <2>1, <3>2 DEF TableOK, Placed
    <2>2. CASE ~(q = r /\ b = h)
      <3>1. table'[q][b] = table[q][b] BY <1>1, <1>3, <2>2 DEF TableOK
      <3> QED BY <1>8, <3>1 DEF TableOK, Placed
    <2> QED BY <2>1, <2>2
  <1> QED BY <1>6, <1>7, <1>8 DEF TableOK, Placed

\* Setting a status moves no node.
LEMMA ModifyKeepsTable ==
    ASSUME TableOK, NEW r \in Replica, NEW k \in Keys, NEW st \in Status,
           Finds(r, k), UNCHANGED data_size,
           table' = [table EXCEPT ![r][hash_func(k)][1].status = st]
    PROVE  TableOK'
  <1> DEFINE h == hash_func(k)
             b0 == table[r][h]
  <1>1. h \in Bucket BY HashInRange
  <1>2. b0 \in Seq(Node) /\ b0 # <<>> BY <1>1 DEF TableOK, Finds
  <1>3. 1 \in DOMAIN b0 /\ b0[1] \in Node BY <1>2
  <1>4. [b0[1] EXCEPT !.status = st] \in Node
        /\ [b0[1] EXCEPT !.status = st].key = b0[1].key
    BY <1>3 DEF Node
  <1> DEFINE b1 == [b0 EXCEPT ![1] = [b0[1] EXCEPT !.status = st]]
  <1>5. b1 \in Seq(Node) /\ DOMAIN b1 = DOMAIN b0
        /\ \A i \in DOMAIN b0 : b1[i].key = b0[i].key
    <2> HIDE DEF b0
    <2> QED BY <1>2, <1>3, <1>4
  <1>6. table' = [table EXCEPT ![r] = [table[r] EXCEPT ![h] = b1]]
    BY <1>1, <1>3 DEF TableOK
  <1>7. table' \in [Replica -> [Bucket -> Seq(Node)]]
    <2>1. [table[r] EXCEPT ![h] = b1] \in [Bucket -> Seq(Node)]
      <3> HIDE DEF b1, h
      <3> QED BY <1>5 DEF TableOK
    <2> HIDE DEF b1, h
    <2> QED BY <1>6, <2>1 DEF TableOK
  <1>8. ASSUME NEW q \in Replica, NEW b \in Bucket, NEW i \in DOMAIN table'[q][b]
        PROVE  hash_func(table'[q][b][i].key) = b
    <2>1. CASE q = r /\ b = h
      <3>1. table'[q][b] = b1
        <4> HIDE DEF b1
        <4> QED BY <1>1, <1>6, <2>1 DEF TableOK
      <3>2. i \in DOMAIN b0 /\ table'[q][b][i].key = b0[i].key
        <4> HIDE DEF b1, b0
        <4> QED BY <1>5, <1>8, <3>1
      <3> QED BY <1>1, <2>1, <3>2 DEF TableOK, Placed
    <2>2. CASE ~(q = r /\ b = h)
      <3>1. table'[q][b] = table[q][b]
        <4> HIDE DEF b1
        <4> QED BY <1>1, <1>6, <2>2 DEF TableOK
      <3> QED BY <1>8, <3>1 DEF TableOK, Placed
    <2> QED BY <2>1, <2>2
  <1> QED BY <1>7, <1>8 DEF TableOK, Placed

----------------------------------------------------------------------------
(* LoopIsForEver and RestOK, step by step. *)

\* A step of replica r while its lock is free, or held by a walk, leaves the
\* threads that loop alone: they belong to other replicas.
LEMMA LoopersUntouched ==
    ASSUME StoreInv, NEW r \in Replica, ~looping[r], looping' = looping,
           \A s \in Replica \ {r} : table'[s] = table[s] /\ walk'[s] = walk[s]
                                    /\ done'[s] = done[s],
           \A n \in 1 .. Len(requests) : requests'[n] = requests[n]
    PROVE  LoopIsForEver'
  <1> DEFINE L(q, t) == q.type = "MODIFY" /\ t[hash_func(q.key)] # <<>>
                        /\ t[hash_func(q.key)][1].key # q.key
  <1>1. LoopIsForEver <=> \A s \in Replica : looping[s] =>
            walk[s] = Idle /\ done[s] > 0 /\ L(requests[done[s]], table[s])
    BY DEF LoopIsForEver, Loops
  <1>2. LoopIsForEver' <=> \A s \in Replica : looping'[s] =>
            walk'[s] = Idle /\ done'[s] > 0 /\ L(requests'[done'[s]], table'[s])
    BY DEF LoopIsForEver, Loops, Idle
  <1>3. ASSUME NEW s \in Replica, looping'[s]
        PROVE  walk'[s] = Idle /\ done'[s] > 0 /\ L(requests'[done'[s]], table'[s])
    <2>1. s \in Replica \ {r} /\ looping[s] BY <1>3
    <2>2. walk[s] = Idle /\ done[s] > 0 /\ L(requests[done[s]], table[s])
      BY <1>1, <2>1 DEF StoreInv
    <2>3. done[s] \in 1 .. Len(requests) BY <2>2 DEF StoreInv, TypeOK
    <2>4. requests'[done'[s]] = requests[done[s]] BY <2>1, <2>3
    <2> HIDE DEF L
    <2> QED BY <2>1, <2>2, <2>4
  <1> HIDE DEF L
  <1> QED BY <1>2, <1>3

\* What Handles does to the history.
LEMMA HandlesHistory ==
    ASSUME StoreInv, NEW r \in Replica, NEW q \in Request, Handles(r, q)
    PROVE  /\ ~looping[r] /\ walk[r] = Idle
           /\ requests' \in Seq(Request)
           /\ Len(requests) <= Len(requests')
           /\ \A n \in 1 .. Len(requests) : requests'[n] = requests[n]
           /\ done' = [done EXCEPT ![r] = @ + 1]
           /\ done' \in [Replica -> 0 .. Len(requests')]
           /\ requests'[done'[r]] = q /\ done'[r] > 0
           /\ walk' = walk /\ files' = files /\ taken' = taken
  <1>1. requests \in Seq(Request) /\ done \in [Replica -> 0 .. Len(requests)]
    BY DEF StoreInv, TypeOK
  <1>2. CASE done[r] = Len(requests)
    <2>1. requests' = Append(requests, q) /\ done' = [done EXCEPT ![r] = @ + 1]
      BY <1>2 DEF Handles
    <2>2. /\ Len(requests') = Len(requests) + 1
          /\ requests' \in Seq(Request)
          /\ \A n \in 1 .. Len(requests) : requests'[n] = requests[n]
          /\ requests'[Len(requests) + 1] = q
      BY <1>1, <2>1
    <2>3. done' \in [Replica -> 0 .. Len(requests')]
      BY <1>1, <2>1, <2>2
    <2>4. done'[r] = Len(requests) + 1 BY <1>1, <1>2, <2>1
    <2> QED BY <1>1, <2>1, <2>2, <2>3, <2>4 DEF Handles, Free
  <1>3. CASE done[r] # Len(requests)
    <2>1. requests' = requests /\ done' = [done EXCEPT ![r] = @ + 1]
          /\ q = requests[done[r] + 1]
      BY <1>3 DEF Handles
    <2>2. done[r] + 1 \in 1 .. Len(requests) BY <1>1, <1>3
    <2>3. done' \in [Replica -> 0 .. Len(requests')]
      BY <1>1, <2>1, <2>2
    <2> QED BY <1>1, <2>1, <2>2, <2>3 DEF Handles, Free
  <1> QED BY <1>2, <1>3

\* A request other than the one that loops.
LEMMA ReturnKeepsInv ==
    ASSUME StoreInv, NEW r \in Replica, NEW q \in Request, Handles(r, q),
           NEW result \in {0, -1}, Return(r, result), TableOK',
           \A s \in Replica \ {r} : table'[s] = table[s]
    PROVE  StoreInv'
  <1>1. /\ ~looping[r] /\ walk[r] = Idle
        /\ requests' \in Seq(Request)
        /\ Len(requests) <= Len(requests')
        /\ \A n \in 1 .. Len(requests) : requests'[n] = requests[n]
        /\ done' = [done EXCEPT ![r] = @ + 1]
        /\ done' \in [Replica -> 0 .. Len(requests')]
        /\ walk' = walk /\ files' = files /\ taken' = taken
    BY HandlesHistory
  <1>2. looping' = looping /\ ret' \in [Replica -> {0, -1}]
    BY DEF Return, StoreInv, TypeOK
  <1>3. \A s \in Replica \ {r} : done'[s] = done[s]
    BY <1>1 DEF StoreInv, TypeOK
  <1>4. LoopIsForEver'
    BY <1>1, <1>2, <1>3, LoopersUntouched
  <1>5. \A f \in files' : f.to \in Replica /\ f.records \in Seq(Record)
                          /\ f.done \in 0 .. Len(requests')
    <2>1. Len(requests) \in Nat /\ Len(requests') \in Nat
      BY <1>1 DEF StoreInv, TypeOK
    <2> QED BY <1>1, <2>1 DEF StoreInv, TypeOK
  <1>6. RestOK'
    BY <1>1, <1>2, <1>5 DEF RestOK, StoreInv, TypeOK
  <1> QED BY <1>4, <1>6, InvParts, PTL

\* Every request keeps the invariant.
LEMMA RequestKeepsInv ==
    ASSUME StoreInv, NEW r \in Replica, NEW q \in Request, Handles(r, q),
           \/ handle_storage_add(r, q) \/ handle_storage_add_refused(r, q)
           \/ handle_storage_remove(r, q) \/ handle_storage_remove_absent(r, q)
           \/ handle_storage_modify(r, q) \/ handle_storage_modify_absent(r, q)
           \/ handle_storage_modify_loop(r, q)
           \/ handle_storage_other(r, q)
    PROVE  StoreInv'
  <1> USE DEF Request
  <1>1. TableOK /\ table \in [Replica -> [Bucket -> Seq(Node)]]
    BY InvParts DEF TableOK
  <1>2. ASSUME UNCHANGED <<table, data_size>> PROVE TableOK'
    BY <1>1, <1>2 DEF TableOK, Placed
  <1>3. CASE handle_storage_add(r, q)
    <2>1. PICK st \in Status :
              hash_table_insert(r, [key |-> KeyOf[q.task], task |-> q.task,
                                    status |-> st])
      BY <1>3 DEF handle_storage_add
    <2>2. [key |-> KeyOf[q.task], task |-> q.task, status |-> st] \in Node
      BY <1>3, KeyOfAssumption DEF handle_storage_add, Node
    <2>3. TableOK' BY <1>1, <2>1, <2>2, InsertKeepsTable
    <2>4. \A s \in Replica \ {r} : table'[s] = table[s]
      BY <1>1, <2>1 DEF hash_table_insert
    <2>5. Return(r, 0) BY <1>3 DEF handle_storage_add
    <2> QED BY <2>3, <2>4, <2>5, ReturnKeepsInv
  <1>4. CASE handle_storage_remove(r, q)
    <2>1. q.key \in Keys /\ hash_table_delete(r, q.key) /\ Return(r, 0)
      BY <1>4 DEF handle_storage_remove
    <2>2. TableOK' BY <1>1, <2>1, DeleteKeepsTable
    <2>3. \A s \in Replica \ {r} : table'[s] = table[s]
      BY <1>1, <2>1 DEF hash_table_delete
    <2> QED BY <2>1, <2>2, <2>3, ReturnKeepsInv
  <1>5. CASE handle_storage_modify(r, q)
    <2>1. /\ q.key \in Keys /\ q.status \in Status /\ Finds(r, q.key)
          /\ UNCHANGED data_size /\ Return(r, 0)
          /\ table' = [table EXCEPT ![r][hash_func(q.key)][1].status = q.status]
      BY <1>5 DEF handle_storage_modify
    <2>2. TableOK' BY <1>1, <2>1, ModifyKeepsTable
    <2>3. \A s \in Replica \ {r} : table'[s] = table[s]
      BY <1>1, <2>1
    <2> QED BY <2>1, <2>2, <2>3, ReturnKeepsInv
  <1>6. CASE \/ handle_storage_add_refused(r, q)
             \/ handle_storage_remove_absent(r, q)
             \/ handle_storage_modify_absent(r, q)
             \/ handle_storage_other(r, q)
    <2>1. UNCHANGED <<table, data_size>> /\ \E result \in {0, -1} : Return(r, result)
      BY <1>6 DEF handle_storage_add_refused, handle_storage_remove_absent,
                  handle_storage_modify_absent, handle_storage_other
    <2>2. TableOK' BY <1>2, <2>1
    <2> QED BY <2>1, <2>2, ReturnKeepsInv
  <1>7. CASE handle_storage_modify_loop(r, q)
    <2>1. /\ q.type = "MODIFY" /\ Loops(r, q.key)
          /\ looping' = [looping EXCEPT ![r] = TRUE]
          /\ UNCHANGED <<table, data_size, ret>>
      BY <1>7 DEF handle_storage_modify_loop
    <2>2. /\ ~looping[r] /\ walk[r] = Idle
          /\ requests' \in Seq(Request)
          /\ Len(requests) <= Len(requests')
          /\ \A n \in 1 .. Len(requests) : requests'[n] = requests[n]
          /\ done' = [done EXCEPT ![r] = @ + 1]
          /\ done' \in [Replica -> 0 .. Len(requests')]
          /\ requests'[done'[r]] = q /\ done'[r] > 0
          /\ walk' = walk /\ files' = files /\ taken' = taken
      BY HandlesHistory
    <2>3. TableOK' BY <1>2, <2>1
    <2>4. RestOK'
      <3>1. Len(requests) \in Nat /\ Len(requests') \in Nat
        BY <2>2 DEF StoreInv, TypeOK
      <3>2. \A f \in files' : f.to \in Replica /\ f.records \in Seq(Record)
                              /\ f.done \in 0 .. Len(requests')
        BY <2>2, <3>1 DEF StoreInv, TypeOK
      <3> QED BY <2>1, <2>2, <3>2 DEF RestOK, StoreInv, TypeOK
    <2>5. ASSUME NEW s \in Replica, looping'[s]
          PROVE  /\ walk'[s] = Idle /\ done'[s] > 0
                 /\ requests'[done'[s]].type = "MODIFY"
                 /\ table'[s][hash_func(requests'[done'[s]].key)] # <<>>
                 /\ table'[s][hash_func(requests'[done'[s]].key)][1].key
                        # requests'[done'[s]].key
      <3>1. CASE s = r BY <2>1, <2>2, <3>1 DEF Loops
      <3>2. CASE s # r
        <4>1. looping[s] /\ done'[s] = done[s]
          BY <2>1, <2>2, <2>5, <3>2 DEF StoreInv, TypeOK
        <4>2. /\ walk[s] = Idle /\ done[s] > 0
              /\ requests[done[s]].type = "MODIFY"
              /\ Loops(s, requests[done[s]].key)
          BY <4>1 DEF StoreInv, LoopIsForEver
        <4>3. done[s] \in 1 .. Len(requests) BY <4>2 DEF StoreInv, TypeOK
        <4>4. requests'[done'[s]] = requests[done[s]] BY <2>2, <4>1, <4>3
        <4> QED BY <2>1, <2>2, <4>1, <4>2, <4>4 DEF Loops
      <3> QED BY <3>1, <3>2
    <2>6. LoopIsForEver' BY <2>5 DEF LoopIsForEver, Loops, Idle
    <2> QED BY <2>3, <2>4, <2>6, InvParts, PTL
  <1> QED BY <1>3, <1>4, <1>5, <1>6, <1>7

\* Writing and reading a checkpoint keep the invariant.
LEMMA WalkKeepsInv ==
    ASSUME StoreInv, NEW r \in Replica,
           \/ export_db_begin(r) \/ export_db_bucket(r) \/ export_db_end(r)
           \/ import_db_begin(r) \/ import_db_record(r) \/ import_db_end(r)
    PROVE  StoreInv'
  <1>1. TableOK /\ RestOK /\ LoopIsForEver /\ requests \in Seq(Request)
    BY InvParts DEF RestOK
  <1>2. ASSUME UNCHANGED <<table, data_size>> PROVE TableOK'
    BY <1>1, <1>2 DEF TableOK, Placed
  <1>3. ~looping[r]
    <2>1. Idle.op = "none" BY DEF Idle
    <2>2. walk[r] # Idle \/ Free(r)
      BY <2>1 DEF export_db_begin, export_db_bucket, export_db_end,
                  import_db_begin, import_db_record, import_db_end
    <2> QED BY <1>1, <2>2 DEF Free, LoopIsForEver
  <1>4. ASSUME UNCHANGED <<looping, requests>>,
               \A s \in Replica \ {r} : table'[s] = table[s] /\ walk'[s] = walk[s]
                                        /\ done'[s] = done[s]
        PROVE  LoopIsForEver'
    BY <1>3, <1>4, LoopersUntouched
  <1>5. CASE export_db_begin(r)
    <2>1. [op |-> "export", index |-> 0, out |-> <<>>] \in Walk
      BY LenAssumption DEF Walk
    <2>2. taken' \in 0 .. MaxTaken
      BY <1>1, <1>5, BoundsAssumption DEF export_db_begin, RestOK
    <2>3. RestOK' BY <1>1, <1>5, <2>1, <2>2 DEF RestOK, export_db_begin
    <2>4. TableOK' BY <1>2, <1>5 DEF export_db_begin
    <2>5. LoopIsForEver' BY <1>1, <1>4, <1>5 DEF export_db_begin, RestOK
    <2> QED BY <2>4, <2>5, <2>3, InvParts, PTL
  <1>6. CASE export_db_bucket(r)
    <2> DEFINE w == walk[r]
               b == table[r][w.index]
               o == [i \in DOMAIN b |-> ToRecord(b[i])]
    <2>1. w \in [op : {"export"}, index : 0 .. hash_table_len, out : Seq(Record)]
          /\ w.index < hash_table_len
      BY <1>1, <1>6 DEF RestOK, Walk, export_db_bucket, Idle
    <2>2. w.index \in Bucket BY <2>1, LenAssumption DEF Bucket
    <2>3. b \in Seq(Node) BY <1>1, <2>2 DEF TableOK
    <2>4. ASSUME NEW i \in DOMAIN b PROVE ToRecord(b[i]) \in Record
      <3> HIDE DEF b
      <3>1. b[i] \in Node BY <2>3
      <3> QED BY <3>1 DEF ToRecord, Node, Record
    <2>5. o \in Seq(Record)
      <3> HIDE DEF b
      <3> QED BY <2>3, <2>4
    <2>6. w.out \o o \in Seq(Record)
      <3> HIDE DEF o
      <3> QED BY <2>1, <2>5
    <2>7. walk' = [walk EXCEPT ![r] = [w EXCEPT !.out = w.out \o o, !.index = w.index + 1]]
      BY <1>1, <1>6 DEF export_db_bucket, RestOK
    <2>8. [w EXCEPT !.out = w.out \o o, !.index = w.index + 1] \in Walk
      <3>1. w.index + 1 \in 0 .. hash_table_len BY <2>1, LenAssumption
      <3> HIDE DEF o, w
      <3>2. [w EXCEPT !.out = w.out \o o, !.index = w.index + 1]
              \in [op : {"export"}, index : 0 .. hash_table_len, out : Seq(Record)]
        BY <2>1, <2>6, <3>1
      <3> QED BY <3>2 DEF Walk
    <2>9. walk' \in [Replica -> Walk] /\ \A s \in Replica \ {r} : walk'[s] = walk[s]
      <3> HIDE DEF o, w
      <3> QED BY <1>1, <2>7, <2>8 DEF RestOK
    <2>10. RestOK' BY <1>1, <1>6, <2>9 DEF RestOK, export_db_bucket
    <2>11. TableOK' BY <1>2, <1>6 DEF export_db_bucket
    <2>12. LoopIsForEver' BY <1>4, <1>6, <2>9 DEF export_db_bucket
    <2> QED BY <2>10, <2>11, <2>12, InvParts, PTL
  <1>7. CASE export_db_end(r)
    <2>1. walk[r] \in [op : {"export"}, index : 0 .. hash_table_len, out : Seq(Record)]
      BY <1>1, <1>7 DEF RestOK, Walk, export_db_end, Idle
    <2>2. \A f \in files' : f.to \in Replica /\ f.records \in Seq(Record)
                            /\ f.done \in 0 .. Len(requests)
      BY <1>1, <1>7, <2>1 DEF RestOK, export_db_end
    <2>3. RestOK' BY <1>1, <1>7, <2>2 DEF RestOK, export_db_end, Walk
    <2>4. TableOK' BY <1>2, <1>7 DEF export_db_end
    <2>5. LoopIsForEver' BY <1>1, <1>4, <1>7 DEF export_db_end, RestOK
    <2> QED BY <2>4, <2>5, <2>3, InvParts, PTL
  <1>8. CASE import_db_begin(r)
    <2>1. PICK f \in files : \E st \in [DOMAIN f.records -> Status] :
              /\ walk' = [walk EXCEPT ![r] =
                    [op |-> "import",
                     nodes |-> [i \in DOMAIN f.records |->
                        [key |-> f.records[i].key, task |-> f.records[i].task,
                         status |-> st[i]]]]]
              /\ files' = files \ {f}
              /\ done' = [done EXCEPT ![r] = f.done]
      BY <1>8 DEF import_db_begin
    <2>2. PICK st \in [DOMAIN f.records -> Status] :
              /\ walk' = [walk EXCEPT ![r] =
                    [op |-> "import",
                     nodes |-> [i \in DOMAIN f.records |->
                        [key |-> f.records[i].key, task |-> f.records[i].task,
                         status |-> st[i]]]]]
              /\ files' = files \ {f}
              /\ done' = [done EXCEPT ![r] = f.done]
      BY <2>1
    <2> DEFINE n == [i \in DOMAIN f.records |->
                        [key |-> f.records[i].key, task |-> f.records[i].task,
                         status |-> st[i]]]
    <2>3. f.records \in Seq(Record) /\ f.done \in 0 .. Len(requests)
      BY <1>1 DEF RestOK
    <2>4. ASSUME NEW i \in DOMAIN f.records PROVE n[i] \in Node
      <3>1. f.records[i] \in Record BY <2>3
      <3> QED BY <3>1 DEF Record, Node
    <2>5. n \in Seq(Node)
      <3>1. DOMAIN n = 1 .. Len(f.records) /\ Len(f.records) \in Nat BY <2>3
      <3>2. n = [i \in DOMAIN f.records |-> n[i]] OBVIOUS
      <3>3. DOMAIN f.records = 1 .. Len(f.records) BY <2>3
      <3> HIDE DEF n
      <3> QED BY <2>4, <3>1, <3>2, <3>3
    <2>6. [op |-> "import", nodes |-> n] \in Walk
      <3> HIDE DEF n
      <3> QED BY <2>5 DEF Walk
    <2>7. walk' \in [Replica -> Walk] /\ \A s \in Replica \ {r} : walk'[s] = walk[s]
      <3>1. walk' = [walk EXCEPT ![r] = [op |-> "import", nodes |-> n]] BY <2>2
      <3> HIDE DEF n
      <3> QED BY <1>1, <2>6, <3>1 DEF RestOK
    <2>8. RestOK'
      BY <1>1, <1>8, <2>2, <2>3, <2>7 DEF RestOK, import_db_begin
    <2>9. TableOK'
      BY <1>1, <1>8 DEF TableOK, Placed, import_db_begin, import_db_clear, Empty
    <2>10. LoopIsForEver'
      BY <1>1, <1>4, <1>8, <2>2, <2>7
         DEF import_db_begin, import_db_clear, TableOK, RestOK
    <2> QED BY <2>8, <2>9, <2>10, InvParts, PTL
  <1>9. CASE import_db_record(r)
    <2>1. walk[r] \in [op : {"import"}, nodes : Seq(Node)] /\ walk[r].nodes # <<>>
      BY <1>1, <1>9 DEF RestOK, Walk, import_db_record, Idle
    <2>2. Head(walk[r].nodes) \in Node /\ Tail(walk[r].nodes) \in Seq(Node)
      BY <2>1
    <2>3. hash_table_insert(r, Head(walk[r].nodes)) BY <1>9 DEF import_db_record
    <2>4. TableOK' BY <1>1, <2>2, <2>3, InsertKeepsTable
    <2>5. [walk[r] EXCEPT !.nodes = Tail(walk[r].nodes)] \in Walk
      BY <2>1, <2>2 DEF Walk
    <2>6. walk' = [walk EXCEPT ![r] = [walk[r] EXCEPT !.nodes = Tail(walk[r].nodes)]]
      BY <1>1, <1>9 DEF import_db_record, RestOK
    <2>7. walk' \in [Replica -> Walk] /\ \A s \in Replica \ {r} : walk'[s] = walk[s]
      BY <1>1, <2>5, <2>6 DEF RestOK
    <2>8. RestOK' BY <1>1, <1>9, <2>7 DEF RestOK, import_db_record
    <2>9. LoopIsForEver'
      BY <1>1, <1>4, <1>9, <2>3, <2>7
         DEF import_db_record, hash_table_insert, TableOK
    <2> QED BY <2>4, <2>8, <2>9, InvParts, PTL
  <1>10. CASE import_db_end(r)
    <2>1. RestOK' BY <1>1, <1>10 DEF RestOK, import_db_end, Walk
    <2>2. TableOK' BY <1>2, <1>10 DEF import_db_end
    <2>3. LoopIsForEver' BY <1>1, <1>4, <1>10 DEF import_db_end, RestOK
    <2> QED BY <2>2, <2>3, <2>1, InvParts, PTL
  <1> QED BY <1>5, <1>6, <1>7, <1>8, <1>9, <1>10

\* Every step keeps the invariant.
LEMMA NextInv == StoreInv /\ [Next]_vars => StoreInv'
  <1> SUFFICES ASSUME StoreInv, [Next]_vars PROVE StoreInv'
    OBVIOUS
  <1>1. CASE UNCHANGED vars
    <2>1. TableOK' BY <1>1, InvParts DEF vars, TableOK, Placed
    <2>2. RestOK' BY <1>1, InvParts DEF vars, RestOK
    <2>3. LoopIsForEver' BY <1>1 DEF vars, StoreInv, LoopIsForEver, Loops
    <2> QED BY <2>1, <2>2, <2>3, InvParts, PTL
  <1>2. CASE Next
    <2>1. PICK r \in Replica : handle_storage(r) \/ export_db(r) BY <1>2 DEF Next
    <2> QED BY <2>1, RequestKeepsInv, WalkKeepsInv DEF handle_storage, export_db
  <1> QED BY <1>1, <1>2

----------------------------------------------------------------------------
(* Induction over data.  The library's induction theorems have an operator *)
(* as parameter; here a property is the set of numbers that have it, and   *)
(* one step of a recursive definition a function.                          *)

\* A set of numbers has a smallest one.
LEMMA Smallest ==
    ASSUME NEW S \in SUBSET Nat, S # {}
    PROVE  \E x \in S : \A y \in S : x <= y
  <1> DEFINE R == OpToRel(<, Nat)
  <1>1. IsWellFoundedOn(R, Nat) BY NatLessThanWellFounded
  <1>2. R = {ss \in Nat \X Nat : ss[1] < ss[2]} BY DEF OpToRel
  <1> HIDE DEF R
  <1>3. PICK x \in S : \A y \in S : ~(<<y, x>> \in R) BY <1>1, WFMin
  <1>4. ASSUME NEW y \in S PROVE x <= y
    <2> DEFINE p == <<y, x>>
    <2>1. x \in Nat /\ y \in Nat /\ p \in Nat \X Nat /\ p[1] = y /\ p[2] = x OBVIOUS
    <2>2. ~(p \in R) BY <1>3, <1>4
    <2> HIDE DEF p
    <2> QED BY <1>2, <2>1, <2>2
  <1> QED BY <1>4

\* Induction, for a property given as the set of numbers that have it.
LEMMA Induction ==
    ASSUME NEW S, 0 \in S, \A n \in Nat : n \in S => n + 1 \in S
    PROVE  \A n \in Nat : n \in S
  <1> SUFFICES ASSUME NEW n \in Nat, n \notin S PROVE FALSE OBVIOUS
  <1> DEFINE B == Nat \ S
  <1>1. B \in SUBSET Nat /\ B # {} OBVIOUS
  <1> HIDE DEF B
  <1>2. PICK x \in B : \A y \in B : x <= y BY <1>1, Smallest
  <1>3. x \in Nat /\ x \notin S /\ x # 0 BY <1>2 DEF B
  <1>4. x - 1 \in Nat /\ x - 1 \notin B BY <1>2, <1>3
  <1>5. x - 1 \in S BY <1>4 DEF B
  <1>6. (x - 1) + 1 = x BY <1>3
  <1> QED BY <1>3, <1>4, <1>5, <1>6

\* step[n] takes a value to the next, of the same type.
Steps(step, S, N) == \A v \in S : \A n \in 1 .. N : step[n][v] \in S

\* f starts at base and goes on with step.
Follows(f, base, step, S, N) ==
    f \in [0 .. N -> S] /\ f[0] = base /\ \A n \in 1 .. N : f[n] = step[n][f[n - 1]]

\* A function defined by what it is at 0 and by what each value makes of the
\* one before exists.
LEMMA Recursion ==
    ASSUME NEW S, NEW N \in Nat, NEW base \in S, NEW step,
           Steps(step, S, N)
    PROVE  \E f : Follows(f, base, step, S, N)
  <1> DEFINE Good(m) == \E f \in [0 .. m -> S] :
               f[0] = base /\ \A n \in 1 .. m : f[n] = step[n][f[n - 1]]
             G == {m \in Nat : m <= N => Good(m)}
  <1>1. Good(0)
    <2> DEFINE g == [x \in 0 .. 0 |-> base]
    <2>1. g \in [0 .. 0 -> S] /\ g[0] = base
          /\ \A n \in 1 .. 0 : g[n] = step[n][g[n - 1]]
      OBVIOUS
    <2> HIDE DEF g
    <2> QED BY <2>1
  <1>2. ASSUME NEW m \in Nat, m + 1 <= N, Good(m) PROVE Good(m + 1)
    <2>1. PICK f \in [0 .. m -> S] :
               f[0] = base /\ \A n \in 1 .. m : f[n] = step[n][f[n - 1]]
      BY <1>2
    <2> DEFINE g == [n \in 0 .. m + 1 |-> IF n <= m THEN f[n] ELSE step[m + 1][f[m]]]
    <2>2. f[m] \in S /\ m + 1 \in 1 .. N BY <1>2
    <2>3. step[m + 1][f[m]] \in S BY <2>2 DEF Steps
    <2>4. g \in [0 .. m + 1 -> S] BY <2>3
    <2>5. g[0] = base BY <2>1
    <2>6. ASSUME NEW n \in 1 .. m + 1 PROVE g[n] = step[n][g[n - 1]]
      <3>1. CASE n <= m
        <4>1. n \in 1 .. m /\ n - 1 <= m BY <3>1
        <4>2. g[n] = f[n] /\ g[n - 1] = f[n - 1] BY <4>1
        <4> HIDE DEF g
        <4> QED BY <2>1, <4>1, <4>2
      <3>2. CASE n = m + 1
        <4>1. g[n] = step[m + 1][f[m]] /\ g[n - 1] = f[m] BY <3>2
        <4> HIDE DEF g
        <4> QED BY <3>2, <4>1
      <3> QED BY <3>1, <3>2
    <2> HIDE DEF g
    <2> QED BY <2>4, <2>5, <2>6
  <1> HIDE DEF Good
  <1>3. 0 \in G BY <1>1
  <1>4. \A m \in Nat : m \in G => m + 1 \in G BY <1>2
  <1> HIDE DEF G
  <1>5. N \in G BY <1>3, <1>4, Induction
  <1>6. Good(N) BY <1>5 DEF G
  <1> QED BY <1>6 DEF Good, Follows

----------------------------------------------------------------------------
(* Sums *)

\* The partial sums.
LEMMA SumDef ==
    ASSUME NEW N \in Nat, NEW f \in [1 .. N -> Int]
    PROVE  \E s \in [0 .. N -> Int] :
               /\ s[0] = 0 /\ \A n \in 1 .. N : s[n] = s[n - 1] + f[n]
               /\ Sum(f, N) = s[N]
  <1> DEFINE P(s) == s = [n \in 0 .. N |-> IF n = 0 THEN 0 ELSE s[n - 1] + f[n]]
             sum == CHOOSE s : P(s)
  <1>1. PICK step :
            /\ \A v \in Int : \A n \in 1 .. N : step[n][v] \in Int
            /\ \A v \in Int : \A n \in 1 .. N : step[n][v] = v + f[n]
    <2> DEFINE st == [n \in 1 .. N |-> [v \in Int |-> v + f[n]]]
    <2>1. \A v \in Int : \A n \in 1 .. N : st[n][v] = v + f[n] OBVIOUS
    <2>2. \A v \in Int : \A n \in 1 .. N : st[n][v] \in Int OBVIOUS
    <2> HIDE DEF st
    <2> QED BY <2>1, <2>2
  <1>2. PICK s \in [0 .. N -> Int] :
            s[0] = 0 /\ \A n \in 1 .. N : s[n] = step[n][s[n - 1]]
    <2>1. 0 \in Int /\ Steps(step, Int, N) BY <1>1 DEF Steps
    <2>2. \E g : Follows(g, 0, step, Int, N) BY <2>1, Recursion
    <2> QED BY <2>2 DEF Follows
  <1>3. ASSUME NEW n \in 1 .. N PROVE s[n] = s[n - 1] + f[n]
    <2>1. s[n - 1] \in Int OBVIOUS
    <2> QED BY <1>1, <1>2, <2>1
  <1>4. P(s) BY <1>2, <1>3
  <1>5. P(sum)
    <2> HIDE DEF P
    <2> QED BY <1>4
  <1>6. sum[0] = 0 /\ \A n \in 1 .. N : sum[n] = sum[n - 1] + f[n]
    <2> HIDE DEF sum
    <2> QED BY <1>5
  <1>7. sum \in [0 .. N -> Int]
    <2> DEFINE G == {n \in Nat : n <= N => sum[n] \in Int}
    <2> HIDE DEF sum
    <2>1. 0 \in G BY <1>6
    <2>2. ASSUME NEW n \in Nat, n \in G PROVE n + 1 \in G
      <3>1. CASE n + 1 <= N
        <4>1. n + 1 \in 1 .. N /\ (n + 1) - 1 = n /\ n <= N BY <3>1
        <4>2. sum[n + 1] = sum[n] + f[n + 1] /\ f[n + 1] \in Int BY <1>6, <4>1
        <4> QED BY <2>2, <4>1, <4>2
      <3>2. CASE ~(n + 1 <= N) BY <3>2
      <3> QED BY <3>1, <3>2
    <2> HIDE DEF G
    <2>3. \A n \in Nat : n \in G BY <2>1, <2>2, Induction
    <2>4. \A n \in 0 .. N : sum[n] \in Int BY <2>3 DEF G
    <2>5. sum = [n \in 0 .. N |-> sum[n]] BY <1>5
    <2> QED BY <2>4, <2>5
  <1>8. Sum(f, N) = sum[N] BY DEF Sum
  <1> HIDE DEF sum, P
  <1> QED BY <1>6, <1>7, <1>8

\* The sum of no numbers.
LEMMA SumEmpty == ASSUME NEW f \in [1 .. 0 -> Int] PROVE Sum(f, 0) = 0
  BY SumDef

\* The sum of one number more.
LEMMA SumNext ==
    ASSUME NEW N \in Nat, NEW f \in [1 .. N + 1 -> Int], NEW g \in [1 .. N -> Int],
           \A i \in 1 .. N : g[i] = f[i]
    PROVE  Sum(f, N + 1) = Sum(g, N) + f[N + 1] /\ Sum(g, N) \in Int
  <1>1. PICK s \in [0 .. N + 1 -> Int] :
            /\ s[0] = 0 /\ \A n \in 1 .. N + 1 : s[n] = s[n - 1] + f[n]
            /\ Sum(f, N + 1) = s[N + 1]
    <2>1. N + 1 \in Nat OBVIOUS
    <2> QED BY <2>1, SumDef
  <1>2. PICK t \in [0 .. N -> Int] :
            /\ t[0] = 0 /\ \A n \in 1 .. N : t[n] = t[n - 1] + g[n]
            /\ Sum(g, N) = t[N]
    BY SumDef
  <1> DEFINE G == {n \in Nat : n <= N => s[n] = t[n]}
  <1>3. 0 \in G BY <1>1, <1>2
  <1>4. ASSUME NEW n \in Nat, n \in G PROVE n + 1 \in G
    <2>1. CASE n + 1 <= N
      <3>1. n + 1 \in 1 .. N /\ n + 1 \in 1 .. N + 1 /\ (n + 1) - 1 = n /\ n <= N
        BY <2>1
      <3>2. s[n + 1] = s[n] + f[n + 1] BY <1>1, <3>1
      <3>3. t[n + 1] = t[n] + f[n + 1] BY <1>2, <3>1
      <3> QED BY <1>4, <3>1, <3>2, <3>3
    <2>2. CASE ~(n + 1 <= N) BY <2>2
    <2> QED BY <2>1, <2>2
  <1> HIDE DEF G
  <1>5. N \in G BY <1>3, <1>4, Induction
  <1>6. s[N] = t[N] BY <1>5 DEF G
  <1>7. s[N + 1] = s[N] + f[N + 1] BY <1>1
  <1> QED BY <1>1, <1>2, <1>6, <1>7

\* The sum of zeros.
LEMMA SumZero ==
    ASSUME NEW N \in Nat, NEW f \in [1 .. N -> Int], \A i \in 1 .. N : f[i] = 0
    PROVE  Sum(f, N) = 0
  <1>1. PICK s \in [0 .. N -> Int] :
            /\ s[0] = 0 /\ \A n \in 1 .. N : s[n] = s[n - 1] + f[n]
            /\ Sum(f, N) = s[N]
    BY SumDef
  <1> DEFINE G == {n \in Nat : n <= N => s[n] = 0}
  <1>2. 0 \in G BY <1>1
  <1>3. ASSUME NEW n \in Nat, n \in G PROVE n + 1 \in G
    <2>1. CASE n + 1 <= N
      <3>1. n + 1 \in 1 .. N /\ (n + 1) - 1 = n /\ n <= N BY <2>1
      <3>2. s[n + 1] = s[n] + 0 BY <1>1, <3>1
      <3> QED BY <1>3, <3>1, <3>2
    <2>2. CASE ~(n + 1 <= N) BY <2>2
    <2> QED BY <2>1, <2>2
  <1> HIDE DEF G
  <1>4. N \in G BY <1>2, <1>3, Induction
  <1>5. s[N] = 0 BY <1>4 DEF G
  <1> QED BY <1>1, <1>5

\* One number is replaced.
LEMMA SumReplace ==
    ASSUME NEW N \in Nat, NEW f \in [1 .. N -> Int], NEW g \in [1 .. N -> Int],
           NEW j \in 1 .. N, \A i \in 1 .. N : i # j => g[i] = f[i]
    PROVE  Sum(g, N) = Sum(f, N) - f[j] + g[j] /\ Sum(f, N) \in Int
  <1>1. PICK s \in [0 .. N -> Int] :
            /\ s[0] = 0 /\ \A n \in 1 .. N : s[n] = s[n - 1] + f[n]
            /\ Sum(f, N) = s[N]
    BY SumDef
  <1>2. PICK t \in [0 .. N -> Int] :
            /\ t[0] = 0 /\ \A n \in 1 .. N : t[n] = t[n - 1] + g[n]
            /\ Sum(g, N) = t[N]
    BY SumDef
  <1>3. f[j] \in Int /\ g[j] \in Int OBVIOUS
  <1> DEFINE G == {n \in Nat : n <= N =>
                      t[n] = IF n < j THEN s[n] ELSE s[n] - f[j] + g[j]}
  <1>4. 0 \in G BY <1>1, <1>2
  <1>5. ASSUME NEW n \in Nat, n \in G PROVE n + 1 \in G
    <2>1. CASE n + 1 <= N
      <3> DEFINE m == n + 1
      <3>1. m \in 1 .. N /\ m - 1 = n /\ n \in 0 .. N /\ m \in 0 .. N BY <2>1
      <3> HIDE DEF m
      <3>2. s[m] = s[n] + f[m] /\ t[m] = t[n] + g[m] BY <1>1, <1>2, <3>1
      <3>3. s[n] \in Int /\ t[n] \in Int /\ f[m] \in Int /\ g[m] \in Int BY <3>1
      <3>4. t[n] = IF n < j THEN s[n] ELSE s[n] - f[j] + g[j] BY <1>5, <3>1
      <3>5. m # j => g[m] = f[m] BY <3>1
      <3>6. t[m] = IF m < j THEN s[m] ELSE s[m] - f[j] + g[j]
        <4>1. CASE m < j BY <3>1, <3>2, <3>4, <3>5, <4>1
        <4>2. CASE m = j BY <3>1, <3>2, <3>3, <3>4, <4>2
        <4>3. CASE m > j
          <5>1. t[n] = s[n] - f[j] + g[j] /\ g[m] = f[m] BY <3>1, <3>4, <3>5, <4>3
          <5>2. t[m] = (s[n] - f[j] + g[j]) + f[m] BY <3>2, <5>1
          <5>3. (s[n] - f[j] + g[j]) + f[m] = (s[n] + f[m]) - f[j] + g[j]
            <6>1. \A a, d \in Int : \A b, c \in Int : (a - b + c) + d = (a + d) - b + c
              OBVIOUS
            <6>2. s[n] \in Int /\ f[m] \in Int BY <3>3
            <6>3. \A b, c \in Int : (s[n] - b + c) + f[m] = (s[n] + f[m]) - b + c
              BY <6>1, <6>2, Zenon
            <6> QED BY <1>3, <6>3, Zenon
          <5>4. t[m] = s[m] - f[j] + g[j] BY <3>2, <5>2, <5>3
          <5> QED BY <3>1, <4>3, <5>4
        <4> QED BY <3>1, <4>1, <4>2, <4>3
      <3>7. m \in G BY <3>1, <3>6
      <3> QED BY <3>7 DEF m
    <2>2. CASE ~(n + 1 <= N) BY <2>2
    <2> QED BY <2>1, <2>2
  <1> HIDE DEF G
  <1>6. N \in G BY <1>4, <1>5, Induction
  <1>7. t[N] = s[N] - f[j] + g[j] BY <1>6 DEF G
  <1> QED BY <1>1, <1>2, <1>7

\* One number is taken out.
LEMMA SumRemove ==
    ASSUME NEW N \in Nat, NEW f \in [1 .. N + 1 -> Int], NEW g \in [1 .. N -> Int],
           NEW p \in 1 .. N + 1,
           \A i \in 1 .. N : g[i] = IF i < p THEN f[i] ELSE f[i + 1]
    PROVE  Sum(g, N) = Sum(f, N + 1) - f[p]
  <1>1. PICK s \in [0 .. N + 1 -> Int] :
            /\ s[0] = 0 /\ \A n \in 1 .. N + 1 : s[n] = s[n - 1] + f[n]
            /\ Sum(f, N + 1) = s[N + 1]
    <2>1. N + 1 \in Nat OBVIOUS
    <2> QED BY <2>1, SumDef
  <1>2. PICK t \in [0 .. N -> Int] :
            /\ t[0] = 0 /\ \A n \in 1 .. N : t[n] = t[n - 1] + g[n]
            /\ Sum(g, N) = t[N]
    BY SumDef
  <1>3. f[p] \in Int OBVIOUS
  <1> DEFINE G == {n \in Nat : n <= N =>
                      t[n] = IF n < p THEN s[n] ELSE s[n + 1] - f[p]}
  <1>4. 0 \in G BY <1>1, <1>2
  <1>5. ASSUME NEW n \in Nat, n \in G PROVE n + 1 \in G
    <2>1. CASE n + 1 <= N
      <3> DEFINE m == n + 1
                 l == m + 1
      <3>1. /\ m \in 1 .. N /\ m - 1 = n /\ m \in 1 .. N + 1 /\ m = n + 1
            /\ l \in 1 .. N + 1 /\ l - 1 = m /\ l = m + 1
            /\ n \in 0 .. N /\ n \in 0 .. N + 1 /\ m \in 0 .. N + 1
        BY <2>1
      <3> HIDE DEF m, l
      <3>2. s[m] = s[n] + f[m] /\ s[l] = s[m] + f[l] /\ t[m] = t[n] + g[m]
        BY <1>1, <1>2, <3>1
      <3>3. s[n] \in Int /\ s[m] \in Int /\ t[n] \in Int /\ f[m] \in Int /\ f[l] \in Int
        BY <3>1
      <3>4. t[n] = IF n < p THEN s[n] ELSE s[m] - f[p] BY <1>5, <3>1
      <3>5. g[m] = IF m < p THEN f[m] ELSE f[l] BY <3>1
      <3>6. t[m] = IF m < p THEN s[m] ELSE s[l] - f[p]
        <4>1. CASE m < p BY <3>1, <3>2, <3>4, <3>5, <4>1
        <4>2. CASE m = p
          <5>1. t[n] = s[n] /\ g[m] = f[l] BY <3>1, <3>4, <3>5, <4>2
          <5>2. t[m] = s[n] + f[l] /\ s[l] = (s[n] + f[m]) + f[l] BY <3>2, <5>1
          <5>3. s[n] + f[l] = ((s[n] + f[m]) + f[l]) - f[m]
            <6>1. \A a, b, c \in Int : a + c = ((a + b) + c) - b OBVIOUS
            <6> QED BY <3>3, <6>1, Zenon
          <5>4. t[m] = s[l] - f[p] BY <4>2, <5>2, <5>3
          <5>5. ~(m < p) BY <3>1, <4>2
          <5> QED BY <5>4, <5>5
        <4>3. CASE m > p
          <5>1. t[n] = s[m] - f[p] /\ g[m] = f[l] BY <3>1, <3>4, <3>5, <4>3
          <5>2. t[m] = (s[m] - f[p]) + f[l] /\ s[l] = s[m] + f[l] BY <3>2, <5>1
          <5>3. (s[m] - f[p]) + f[l] = (s[m] + f[l]) - f[p]
            <6>1. \A a, b, c \in Int : (a - b) + c = (a + c) - b OBVIOUS
            <6> QED BY <1>3, <3>3, <6>1, Zenon
          <5>4. t[m] = s[l] - f[p] BY <5>2, <5>3
          <5> QED BY <3>1, <4>3, <5>4
        <4> QED BY <3>1, <4>1, <4>2, <4>3
      <3>7. m \in G BY <3>1, <3>6
      <3> QED BY <3>7 DEF m
    <2>2. CASE ~(n + 1 <= N) BY <2>2
    <2> QED BY <2>1, <2>2
  <1> HIDE DEF G
  <1>6. N \in G BY <1>4, <1>5, Induction
  <1>7. t[N] = s[N + 1] - f[p]
    <2>1. t[N] = IF N < p THEN s[N] ELSE s[N + 1] - f[p] BY <1>6 DEF G
    <2>2. s[N + 1] = s[N] + f[N + 1] /\ s[N] \in Int /\ f[N + 1] \in Int BY <1>1
    <2>3. CASE N < p
      <3>1. p = N + 1 BY <2>3
      <3> QED BY <2>1, <2>2, <2>3, <3>1
    <2>4. CASE ~(N < p) BY <2>1, <2>4
    <2> QED BY <2>3, <2>4
  <1> QED BY <1>1, <1>2, <1>7

----------------------------------------------------------------------------
(* data_size *)

\* The lengths of the texts of a list.
LEMMA TextLengths ==
    ASSUME NEW s \in Seq(Node)
    PROVE  /\ Len(s) \in Nat /\ TextLength(s) \in Int
           /\ [i \in DOMAIN s |-> TaskLen[s[i].task]] \in [1 .. Len(s) -> Int]
           /\ \A i \in 1 .. Len(s) :
                  [j \in DOMAIN s |-> TaskLen[s[j].task]][i] = TaskLen[s[i].task]
  <1> DEFINE f == [i \in DOMAIN s |-> TaskLen[s[i].task]]
  <1>1. Len(s) \in Nat /\ DOMAIN s = 1 .. Len(s) OBVIOUS
  <1>2. \A i \in 1 .. Len(s) : TaskLen[s[i].task] \in Int
    <2> SUFFICES ASSUME NEW i \in 1 .. Len(s) PROVE TaskLen[s[i].task] \in Int OBVIOUS
    <2>1. s[i] \in Node BY <1>1
    <2>2. s[i].task \in Task BY <2>1 DEF Node
    <2> QED BY <2>2, TaskLenAssumption
  <1>3. f \in [1 .. Len(s) -> Int] BY <1>1, <1>2
  <1>4. TextLength(s) = Sum(f, Len(s)) BY DEF TextLength
  <1>5. \A i \in 1 .. Len(s) : f[i] = TaskLen[s[i].task] BY <1>1
  <1> HIDE DEF f
  <1>6. Sum(f, Len(s)) \in Int BY <1>1, <1>3, SumDef
  <1> QED BY <1>1, <1>3, <1>4, <1>5, <1>6 DEF f

\* No text has length 0.
LEMMA TextLengthEmpty == TextLength(<<>>) = 0
  <1> DEFINE f == [i \in DOMAIN <<>> |-> TaskLen[<<>>[i].task]]
  <1>1. f \in [1 .. 0 -> Int] OBVIOUS
  <1>2. TextLength(<<>>) = Sum(f, 0) BY DEF TextLength
  <1> HIDE DEF f
  <1> QED BY <1>1, <1>2, SumEmpty

\* A node is added, ...
LEMMA TextLengthAppend ==
    ASSUME NEW s \in Seq(Node), NEW x \in Node
    PROVE  TextLength(Append(s, x)) = TextLength(s) + TaskLen[x.task]
  <1> DEFINE a == Append(s, x)
             f == [i \in DOMAIN a |-> TaskLen[a[i].task]]
             g == [i \in DOMAIN s |-> TaskLen[s[i].task]]
  <1>1. a \in Seq(Node) /\ Len(a) = Len(s) + 1 /\ Len(s) \in Nat
        /\ (\A i \in 1 .. Len(s) : a[i] = s[i]) /\ a[Len(s) + 1] = x
    OBVIOUS
  <1>2. TextLength(a) = Sum(f, Len(a)) /\ TextLength(s) = Sum(g, Len(s))
    BY DEF TextLength
  <1> HIDE DEF a
  <1>3. f \in [1 .. Len(a) -> Int] /\ \A i \in 1 .. Len(a) : f[i] = TaskLen[a[i].task]
    BY <1>1, TextLengths
  <1>4. g \in [1 .. Len(s) -> Int] /\ \A i \in 1 .. Len(s) : g[i] = TaskLen[s[i].task]
    BY TextLengths
  <1> HIDE DEF f, g
  <1>5. \A i \in 1 .. Len(s) : g[i] = f[i] BY <1>1, <1>3, <1>4
  <1>6. f[Len(s) + 1] = TaskLen[x.task] BY <1>1, <1>3
  <1>7. Sum(f, Len(s) + 1) = Sum(g, Len(s)) + f[Len(s) + 1]
    BY <1>1, <1>3, <1>4, <1>5, SumNext
  <1> QED BY <1>1, <1>2, <1>6, <1>7 DEF a

\* ... taken out, ...
LEMMA TextLengthRemove ==
    ASSUME NEW s \in Seq(Node), NEW p \in 1 .. Len(s)
    PROVE  TextLength(RemoveAt(s, p)) = TextLength(s) - TaskLen[s[p].task]
  <1> DEFINE a == RemoveAt(s, p)
             f == [i \in DOMAIN a |-> TaskLen[a[i].task]]
             g == [i \in DOMAIN s |-> TaskLen[s[i].task]]
             N == Len(s) - 1
  <1>1. a \in Seq(Node) /\ Len(a) = N
        /\ \A i \in 1 .. N : a[i] = IF i < p THEN s[i] ELSE s[i + 1]
    BY RemoveAtElements
  <1>2. TextLength(a) = Sum(f, Len(a)) /\ TextLength(s) = Sum(g, Len(s))
    BY DEF TextLength
  <1>3. N \in Nat /\ N + 1 = Len(s) OBVIOUS
  <1> HIDE DEF a, N
  <1>4. f \in [1 .. Len(a) -> Int] /\ \A i \in 1 .. Len(a) : f[i] = TaskLen[a[i].task]
    BY <1>1, TextLengths
  <1>5. g \in [1 .. Len(s) -> Int] /\ \A i \in 1 .. Len(s) : g[i] = TaskLen[s[i].task]
    BY TextLengths
  <1> HIDE DEF f, g
  <1>6. ASSUME NEW i \in 1 .. N PROVE f[i] = IF i < p THEN g[i] ELSE g[i + 1]
    <2>1. i \in 1 .. Len(s) /\ i + 1 \in 1 .. Len(s) /\ i \in 1 .. Len(a) BY <1>1, <1>3
    <2>2. f[i] = TaskLen[a[i].task] /\ g[i] = TaskLen[s[i].task]
          /\ g[i + 1] = TaskLen[s[i + 1].task]
      BY <1>4, <1>5, <2>1
    <2>3. a[i] = IF i < p THEN s[i] ELSE s[i + 1] BY <1>1, <1>6
    <2> QED BY <2>2, <2>3
  <1>7. Sum(f, N) = Sum(g, N + 1) - g[p]
    <2>1. f \in [1 .. N -> Int] /\ g \in [1 .. N + 1 -> Int] /\ p \in 1 .. N + 1
      BY <1>1, <1>3, <1>4, <1>5
    <2> QED BY <1>3, <1>6, <2>1, SumRemove
  <1> QED BY <1>1, <1>2, <1>3, <1>5, <1>7 DEF a

\* ... or keeps its text.
LEMMA TextLengthSame ==
    ASSUME NEW s \in Seq(Node), NEW t \in Seq(Node), Len(s) = Len(t),
           \A i \in 1 .. Len(s) : t[i].task = s[i].task
    PROVE  TextLength(t) = TextLength(s)
  <1>1. [i \in DOMAIN t |-> TaskLen[t[i].task]] = [i \in DOMAIN s |-> TaskLen[s[i].task]]
    OBVIOUS
  <1> QED BY <1>1 DEF TextLength

\* The lengths of the buckets.
LEMMA BucketLengths ==
    ASSUME NEW t \in [Bucket -> Seq(Node)]
    PROVE  [n \in 1 .. hash_table_len |-> TextLength(t[n - 1])]
               \in [1 .. hash_table_len -> Int]
  <1>1. ASSUME NEW n \in 1 .. hash_table_len PROVE TextLength(t[n - 1]) \in Int
    <2>1. n - 1 \in Bucket BY LenAssumption DEF Bucket
    <2>2. t[n - 1] \in Seq(Node) BY <2>1
    <2> QED BY <2>2, TextLengths
  <1> QED BY <1>1

\* An empty table has no text.
LEMMA TableLengthEmpty == TableLength(Empty) = 0
  <1> DEFINE f == [n \in 1 .. hash_table_len |-> TextLength(Empty[n - 1])]
  <1>1. Empty \in [Bucket -> Seq(Node)] BY DEF Empty
  <1>2. f \in [1 .. hash_table_len -> Int] BY <1>1, BucketLengths
  <1>3. ASSUME NEW n \in 1 .. hash_table_len PROVE f[n] = 0
    <2>1. n - 1 \in Bucket BY LenAssumption DEF Bucket
    <2>2. Empty[n - 1] = <<>> BY <2>1 DEF Empty
    <2>3. f[n] = TextLength(Empty[n - 1]) OBVIOUS
    <2> HIDE DEF f
    <2> QED BY <2>2, <2>3, TextLengthEmpty
  <1>4. TableLength(Empty) = Sum(f, hash_table_len) BY DEF TableLength
  <1> HIDE DEF f
  <1>5. hash_table_len \in Nat BY LenAssumption
  <1> QED BY <1>2, <1>3, <1>4, <1>5, SumZero

\* One bucket changes.
LEMMA TableLengthReplace ==
    ASSUME NEW t \in [Bucket -> Seq(Node)], NEW h \in Bucket, NEW s \in Seq(Node)
    PROVE  TableLength([t EXCEPT ![h] = s])
               = TableLength(t) - TextLength(t[h]) + TextLength(s)
  <1> DEFINE u == [t EXCEPT ![h] = s]
             f == [n \in 1 .. hash_table_len |-> TextLength(t[n - 1])]
             g == [n \in 1 .. hash_table_len |-> TextLength(u[n - 1])]
  <1>1. u \in [Bucket -> Seq(Node)] /\ u[h] = s /\ \A b \in Bucket : b # h => u[b] = t[b]
    OBVIOUS
  <1>2. TableLength(t) = Sum(f, hash_table_len) /\ TableLength(u) = Sum(g, hash_table_len)
    BY DEF TableLength
  <1>3. \A n \in 1 .. hash_table_len :
            f[n] = TextLength(t[n - 1]) /\ g[n] = TextLength(u[n - 1])
    OBVIOUS
  <1> HIDE DEF u
  <1>4. f \in [1 .. hash_table_len -> Int] /\ g \in [1 .. hash_table_len -> Int]
    BY <1>1, BucketLengths
  <1> HIDE DEF f, g
  <1>5. hash_table_len \in Nat /\ h + 1 \in 1 .. hash_table_len /\ (h + 1) - 1 = h
    BY LenAssumption DEF Bucket
  <1>6. ASSUME NEW n \in 1 .. hash_table_len, n # h + 1 PROVE g[n] = f[n]
    <2>1. n - 1 \in Bucket /\ n - 1 # h BY <1>5, <1>6 DEF Bucket
    <2>2. u[n - 1] = t[n - 1] BY <1>1, <2>1
    <2> QED BY <1>3, <2>2
  <1>7. Sum(g, hash_table_len) = Sum(f, hash_table_len) - f[h + 1] + g[h + 1]
    BY <1>4, <1>5, <1>6, SumReplace
  <1>8. f[h + 1] = TextLength(t[h]) /\ g[h + 1] = TextLength(s) BY <1>1, <1>3, <1>5
  <1> QED BY <1>2, <1>7, <1>8 DEF u

\* The size of replica r's table is right after a step that was right for r.
LEMMA SizeOfOne ==
    ASSUME SizeMatches, NEW r \in Replica, data_size'[r] = TableLength(table'[r]),
           \A s \in Replica \ {r} : table'[s] = table[s] /\ data_size'[s] = data_size[s]
    PROVE  SizeMatches'
  BY DEF SizeMatches

\* hash_table_insert counts the text.
LEMMA InsertKeepsSize ==
    ASSUME TableOK, SizeMatches, NEW r \in Replica, NEW node \in Node,
           hash_table_insert(r, node)
    PROVE  SizeMatches'
  <1> DEFINE h == hash_func(node.key)
             s == Append(table[r][h], node)
  <1>1. h \in Bucket BY HashInRange DEF Node
  <1>2. table[r] \in [Bucket -> Seq(Node)] /\ table[r][h] \in Seq(Node) BY <1>1 DEF TableOK
  <1>3. s \in Seq(Node) BY <1>2
  <1>4. TextLength(s) = TextLength(table[r][h]) + TaskLen[node.task]
        /\ TextLength(table[r][h]) \in Int
    BY <1>2, TextLengthAppend, TextLengths
  <1>5. table' = [table EXCEPT ![r][h] = s] /\ data_size'[r] = data_size[r] + TaskLen[node.task]
        /\ data_size' = [data_size EXCEPT ![r] = @ + TaskLen[node.task]]
    BY DEF hash_table_insert, TableOK
  <1> HIDE DEF h, s
  <1>6. table'[r] = [table[r] EXCEPT ![h] = s] BY <1>5 DEF TableOK
  <1>7. TableLength(table'[r]) = TableLength(table[r]) - TextLength(table[r][h]) + TextLength(s)
    BY <1>1, <1>2, <1>3, <1>6, TableLengthReplace
  <1>8. data_size[r] = TableLength(table[r]) /\ data_size[r] \in Int
    BY DEF SizeMatches, TableOK
  <1>9. TaskLen[node.task] \in Int BY TaskLenAssumption DEF Node
  <1>10. data_size'[r] = TableLength(table'[r]) BY <1>4, <1>5, <1>7, <1>8, <1>9
  <1>11. \A q \in Replica \ {r} : table'[q] = table[q] /\ data_size'[q] = data_size[q]
    BY <1>5 DEF TableOK
  <1> QED BY <1>10, <1>11, SizeOfOne

\* hash_table_delete counts the text of the node it unlinks, no other's.
LEMMA DeleteKeepsSize ==
    ASSUME TableOK, SizeMatches, NEW r \in Replica, NEW k \in Keys,
           hash_table_delete(r, k)
    PROVE  SizeMatches'
  <1> DEFINE h == hash_func(k)
             l == table[r][h]
  <1>1. h \in Bucket BY HashInRange
  <1>2. table[r] \in [Bucket -> Seq(Node)] /\ l \in Seq(Node) BY <1>1 DEF TableOK
  <1>3. PICK p \in DOMAIN l :
            /\ table' = [table EXCEPT ![r][h] = RemoveAt(@, p)]
            /\ data_size' = [data_size EXCEPT ![r] = @ - TaskLen[l[p].task]]
    BY DEF hash_table_delete
  <1> DEFINE s == RemoveAt(l, p)
  <1>4. p \in 1 .. Len(l) BY <1>2, <1>3
  <1>5. table'[r] = [table[r] EXCEPT ![h] = s] BY <1>1, <1>3 DEF TableOK
  <1>6. data_size'[r] = data_size[r] - TaskLen[l[p].task] BY <1>3 DEF TableOK
  <1>7. \A q \in Replica \ {r} : table'[q] = table[q] /\ data_size'[q] = data_size[q]
    BY <1>3 DEF TableOK
  <1>8. s \in Seq(Node) /\ TextLength(s) = TextLength(l) - TaskLen[l[p].task]
        /\ TextLength(l) \in Int
    <2> HIDE DEF l
    <2> QED BY <1>2, <1>4, RemoveAtIsSeq, TextLengthRemove, TextLengths
  <1>9. TaskLen[l[p].task] \in Int
    <2>1. l[p] \in Node BY <1>2, <1>4
    <2> QED BY <2>1, TaskLenAssumption DEF Node
  <1> HIDE DEF h, s
  <1>10. TableLength(table'[r]) = TableLength(table[r]) - TextLength(l) + TextLength(s)
    BY <1>1, <1>2, <1>5, <1>8, TableLengthReplace
  <1>11. data_size[r] = TableLength(table[r]) /\ data_size[r] \in Int
    BY DEF SizeMatches, TableOK
  <1> HIDE DEF l
  <1>12. data_size'[r] = TableLength(table'[r]) BY <1>6, <1>8, <1>9, <1>10, <1>11
  <1> QED BY <1>7, <1>12, SizeOfOne

\* A status has no length.
LEMMA ModifyKeepsSize ==
    ASSUME TableOK, SizeMatches, NEW r \in Replica, NEW k \in Keys, NEW st \in Status,
           Finds(r, k), UNCHANGED data_size,
           table' = [table EXCEPT ![r][hash_func(k)][1].status = st]
    PROVE  SizeMatches'
  <1> DEFINE h == hash_func(k)
             l == table[r][h]
             x == [l[1] EXCEPT !.status = st]
             s == [l EXCEPT ![1] = x]
  <1>1. h \in Bucket BY HashInRange
  <1>2. table[r] \in [Bucket -> Seq(Node)] /\ l \in Seq(Node) /\ l # <<>>
    BY <1>1 DEF TableOK, Finds
  <1>3. table'[r] = [table[r] EXCEPT ![h] = s] BY <1>1 DEF TableOK
  <1>4. \A q \in Replica \ {r} : table'[q] = table[q] BY DEF TableOK
  <1> HIDE DEF l
  <1>5. 1 \in 1 .. Len(l) /\ l[1] \in Node BY <1>2
  <1>6. x \in Node /\ x.task = l[1].task BY <1>5 DEF Node
  <1> HIDE DEF x
  <1>7. s \in Seq(Node) /\ Len(s) = Len(l) /\ \A i \in 1 .. Len(l) : s[i].task = l[i].task
    BY <1>2, <1>5, <1>6
  <1> HIDE DEF s, h
  <1>8. TextLength(s) = TextLength(l) /\ TextLength(l) \in Int
    BY <1>2, <1>7, TextLengthSame, TextLengths
  <1>9. TableLength(table'[r]) = TableLength(table[r]) - TextLength(l) + TextLength(s)
    BY <1>1, <1>2, <1>3, <1>7, TableLengthReplace DEF l
  <1>10. data_size[r] = TableLength(table[r]) /\ data_size[r] \in Int
    BY DEF SizeMatches, TableOK
  <1>11. data_size'[r] = TableLength(table'[r]) BY <1>8, <1>9, <1>10
  <1> QED BY <1>4, <1>11, SizeOfOne

\* Every step keeps the size.
LEMMA NextSize == StoreInv /\ SizeMatches /\ [Next]_vars => SizeMatches'
  <1> SUFFICES ASSUME StoreInv, SizeMatches, [Next]_vars PROVE SizeMatches'
    OBVIOUS
  <1>1. TableOK /\ RestOK BY InvParts
  <1>2. ASSUME UNCHANGED <<table, data_size>> PROVE SizeMatches'
    BY <1>2 DEF SizeMatches
  <1>3. CASE UNCHANGED vars BY <1>2, <1>3 DEF vars
  <1>4. ASSUME NEW r \in Replica, NEW q \in Request, handle_storage_add(r, q)
        PROVE  SizeMatches'
    <2>1. PICK st \in Status :
              hash_table_insert(r, [key |-> KeyOf[q.task], task |-> q.task,
                                    status |-> st])
      BY <1>4 DEF handle_storage_add
    <2>2. [key |-> KeyOf[q.task], task |-> q.task, status |-> st] \in Node
      BY <1>4, KeyOfAssumption DEF handle_storage_add, Node, Request
    <2> QED BY <1>1, <2>1, <2>2, InsertKeepsSize
  <1>5. ASSUME NEW r \in Replica, NEW q \in Request, handle_storage_remove(r, q)
        PROVE  SizeMatches'
    <2>1. q.key \in Keys /\ hash_table_delete(r, q.key)
      BY <1>5 DEF handle_storage_remove, Request
    <2> QED BY <1>1, <2>1, DeleteKeepsSize
  <1>6. ASSUME NEW r \in Replica, NEW q \in Request, handle_storage_modify(r, q)
        PROVE  SizeMatches'
    <2>1. /\ q.key \in Keys /\ q.status \in Status /\ Finds(r, q.key)
          /\ UNCHANGED data_size
          /\ table' = [table EXCEPT ![r][hash_func(q.key)][1].status = q.status]
      BY <1>6 DEF handle_storage_modify, Request
    <2> QED BY <1>1, <2>1, ModifyKeepsSize
  <1>7. ASSUME NEW r \in Replica, NEW q \in Request,
               \/ handle_storage_add_refused(r, q) \/ handle_storage_remove_absent(r, q)
               \/ handle_storage_modify_absent(r, q) \/ handle_storage_modify_loop(r, q)
               \/ handle_storage_other(r, q)
        PROVE  SizeMatches'
    <2>1. UNCHANGED <<table, data_size>>
      BY <1>7 DEF handle_storage_add_refused, handle_storage_remove_absent,
                  handle_storage_modify_absent, handle_storage_modify_loop,
                  handle_storage_other
    <2> QED BY <1>2, <2>1
  <1>8. ASSUME NEW r \in Replica,
               \/ export_db_begin(r) \/ export_db_bucket(r) \/ export_db_end(r)
               \/ import_db_end(r)
        PROVE  SizeMatches'
    <2>1. UNCHANGED <<table, data_size>>
      BY <1>8 DEF export_db_begin, export_db_bucket, export_db_end, import_db_end
    <2> QED BY <1>2, <2>1
  <1>9. ASSUME NEW r \in Replica, import_db_begin(r) PROVE SizeMatches'
    <2>1. table' = [table EXCEPT ![r] = Empty] /\ data_size' = [data_size EXCEPT ![r] = 0]
      BY <1>9 DEF import_db_begin, import_db_clear
    <2>2. data_size'[r] = 0 /\ table'[r] = Empty
          /\ \A q \in Replica \ {r} : table'[q] = table[q] /\ data_size'[q] = data_size[q]
      BY <1>1, <2>1 DEF TableOK
    <2>3. data_size'[r] = TableLength(table'[r]) BY <2>2, TableLengthEmpty
    <2> QED BY <2>2, <2>3, SizeOfOne
  <1>10. ASSUME NEW r \in Replica, import_db_record(r) PROVE SizeMatches'
    <2>1. walk[r] \in [op : {"import"}, nodes : Seq(Node)] /\ walk[r].nodes # <<>>
      BY <1>1, <1>10 DEF RestOK, Walk, import_db_record, Idle
    <2>2. Head(walk[r].nodes) \in Node BY <2>1
    <2>3. hash_table_insert(r, Head(walk[r].nodes)) BY <1>10 DEF import_db_record
    <2> QED BY <1>1, <2>2, <2>3, InsertKeepsSize
  <1>11. CASE Next
    <2>1. PICK r \in Replica : handle_storage(r) \/ export_db(r) BY <1>11 DEF Next
    <2> QED BY <2>1, <1>4, <1>5, <1>6, <1>7, <1>8, <1>9, <1>10
            DEF handle_storage, export_db
  <1> QED BY <1>3, <1>11

----------------------------------------------------------------------------
(* The elements of one key *)

\* Two lists are the same if they have the same elements.
LEMMA SameList ==
    ASSUME NEW S, NEW s \in Seq(S), NEW t \in Seq(S), Len(s) = Len(t),
           \A i \in 1 .. Len(s) : s[i] = t[i]
    PROVE  s = t
  OBVIOUS

\* Induction over lists, for a property given as the set of lists that have it.
LEMMA ListInduction ==
    ASSUME NEW S, NEW P, <<>> \in P,
           \A s \in Seq(S) : \A x \in S : s \in P => Append(s, x) \in P
    PROVE  \A s \in Seq(S) : s \in P
  <1> DEFINE G == {n \in Nat : \A s \in Seq(S) : Len(s) = n => s \in P}
  <1>1. 0 \in G
    <2>1. \A s \in Seq(S) : Len(s) = 0 => s = <<>> OBVIOUS
    <2> QED BY <2>1
  <1>2. ASSUME NEW n \in Nat, n \in G PROVE n + 1 \in G
    <2> SUFFICES ASSUME NEW s \in Seq(S), Len(s) = n + 1 PROVE s \in P OBVIOUS
    <2> DEFINE t == SubSeq(s, 1, n)
               x == s[n + 1]
    <2>1. t \in Seq(S) /\ Len(t) = n /\ x \in S /\ s = Append(t, x) OBVIOUS
    <2> HIDE DEF t, x
    <2>2. t \in P BY <1>2, <2>1
    <2> QED BY <2>1, <2>2
  <1> HIDE DEF G
  <1>3. \A n \in Nat : n \in G BY <1>1, <1>2, Induction
  <1>4. ASSUME NEW s \in Seq(S) PROVE s \in P
    <2>1. Len(s) \in G BY <1>3
    <2> QED BY <2>1 DEF G
  <1> QED BY <1>4

\* f[n] is what the first n elements of s have of key k.
Scans(f, s, k, S) ==
    /\ f \in [0 .. Len(s) -> Seq(S)] /\ f[0] = <<>>
    /\ \A n \in 1 .. Len(s) :
           f[n] = IF s[n].key = k THEN Append(f[n - 1], s[n]) ELSE f[n - 1]
    /\ OfKey(s, k) = f[Len(s)]

\* OfKey is well defined.
LEMMA OfKeyDef ==
    ASSUME NEW S, NEW s \in Seq(S), NEW k
    PROVE  \E f : Scans(f, s, k, S)
  <1> DEFINE N == Len(s)
             P(f) == f = [n \in 0 .. N |->
                             IF n = 0 THEN <<>>
                             ELSE IF s[n].key = k THEN Append(f[n - 1], s[n]) ELSE f[n - 1]]
             found == CHOOSE f : P(f)
  <1>1. N \in Nat /\ \A n \in 1 .. N : s[n] \in S OBVIOUS
  <1>2. OfKey(s, k) = found[N] BY DEF OfKey
  <1>3. PICK step :
            \A v \in Seq(S) : \A n \in 1 .. N :
                step[n][v] = IF s[n].key = k THEN Append(v, s[n]) ELSE v
    <2> DEFINE st == [n \in 1 .. N |-> [v \in Seq(S) |->
                         IF s[n].key = k THEN Append(v, s[n]) ELSE v]]
    <2> HIDE DEF N
    <2>1. \A v \in Seq(S) : \A n \in 1 .. N :
              st[n][v] = IF s[n].key = k THEN Append(v, s[n]) ELSE v
      OBVIOUS
    <2> HIDE DEF st
    <2> QED BY <2>1
  <1> HIDE DEF N, found
  <1>4. Steps(step, Seq(S), N)
    <2> SUFFICES ASSUME NEW v \in Seq(S), NEW n \in 1 .. N PROVE step[n][v] \in Seq(S)
      BY DEF Steps
    <2>1. Append(v, s[n]) \in Seq(S) BY <1>1
    <2>2. step[n][v] = Append(v, s[n]) \/ step[n][v] = v BY <1>3
    <2> QED BY <2>1, <2>2
  <1>5. <<>> \in Seq(S) OBVIOUS
  <1>6. PICK f : Follows(f, <<>>, step, Seq(S), N)
    BY <1>1, <1>4, <1>5, Recursion
  <1>7. f \in [0 .. N -> Seq(S)] /\ f[0] = <<>> BY <1>6 DEF Follows
  <1>8. ASSUME NEW n \in 1 .. N
        PROVE  f[n] = IF s[n].key = k THEN Append(f[n - 1], s[n]) ELSE f[n - 1]
    <2>1. n - 1 \in 0 .. N BY <1>1
    <2>2. f[n - 1] \in Seq(S) BY <1>7, <2>1
    <2>3. f[n] = step[n][f[n - 1]] BY <1>6 DEF Follows
    <2> QED BY <1>3, <2>2, <2>3
  <1>9. P(f)
    <2>1. f = [n \in 0 .. N |-> f[n]] BY <1>7
    <2>2. ASSUME NEW n \in 0 .. N
          PROVE  f[n] = IF n = 0 THEN <<>>
                        ELSE IF s[n].key = k THEN Append(f[n - 1], s[n]) ELSE f[n - 1]
      <3>1. CASE n = 0 BY <1>7, <3>1
      <3>2. CASE n \in 1 .. N BY <1>8, <3>2
      <3> QED BY <1>1, <3>1, <3>2
    <2> QED BY <2>1, <2>2, Zenon
  <1>10. P(found)
    <2> HIDE DEF P
    <2> QED BY <1>9 DEF found
  <1>11. found[0] = <<>> /\ \A n \in 1 .. N :
             found[n] = IF s[n].key = k THEN Append(found[n - 1], s[n]) ELSE found[n - 1]
    <2>1. 0 \in 0 .. N /\ \A n \in 1 .. N : n \in 0 .. N /\ n # 0 BY <1>1
    <2>2. ASSUME NEW n \in 0 .. N
          PROVE  found[n] = IF n = 0 THEN <<>>
                            ELSE IF s[n].key = k THEN Append(found[n - 1], s[n])
                            ELSE found[n - 1]
      BY <1>10, Zenon
    <2> QED BY <2>1, <2>2
  <1>12. found \in [0 .. N -> Seq(S)]
    <2> DEFINE G == {n \in Nat : n <= N => found[n] \in Seq(S)}
    <2>1. 0 \in G BY <1>5, <1>11
    <2>2. ASSUME NEW n \in Nat, n \in G PROVE n + 1 \in G
      <3>1. CASE n + 1 <= N
        <4> DEFINE m == n + 1
        <4>1. m \in 1 .. N /\ m - 1 = n /\ n <= N BY <1>1, <3>1
        <4> HIDE DEF m
        <4>2. found[n] \in Seq(S) /\ s[m] \in S BY <1>1, <2>2, <4>1
        <4>3. found[m] = IF s[m].key = k THEN Append(found[n], s[m]) ELSE found[n]
          BY <1>11, <4>1
        <4>4. found[m] \in Seq(S) BY <4>2, <4>3
        <4> QED BY <4>4 DEF m
      <3>2. CASE ~(n + 1 <= N) BY <3>2
      <3> QED BY <3>1, <3>2
    <2> HIDE DEF G
    <2>3. \A n \in Nat : n \in G BY <2>1, <2>2, Induction
    <2>4. \A n \in 0 .. N : found[n] \in Seq(S) BY <2>3 DEF G
    <2>5. found = [n \in 0 .. N |-> found[n]] BY <1>10
    <2> QED BY <2>4, <2>5
  <1> HIDE DEF P
  <1>13. Scans(found, s, k, S) BY <1>2, <1>11, <1>12 DEF N, Scans
  <1> QED BY <1>13

\* An empty list has none.
LEMMA OfKeyEmpty == ASSUME NEW k PROVE OfKey(<<>>, k) = <<>>
  <1>1. <<>> \in Seq({}) /\ Len(<<>>) = 0 OBVIOUS
  <1>2. PICK f : Scans(f, <<>>, k, {}) BY <1>1, OfKeyDef
  <1> QED BY <1>1, <1>2 DEF Scans

\* The element at the end comes last.
LEMMA OfKeyAppend ==
    ASSUME NEW S, NEW s \in Seq(S), NEW x \in S, NEW k
    PROVE  /\ OfKey(s, k) \in Seq(S)
           /\ OfKey(Append(s, x), k) = IF x.key = k THEN Append(OfKey(s, k), x) ELSE OfKey(s, k)
  <1> DEFINE a == Append(s, x)
             N == Len(s)
             M == N + 1
  <1>1. /\ a \in Seq(S) /\ Len(a) = M /\ N \in Nat /\ a[M] = x
        /\ M \in Nat /\ M - 1 = N /\ M \in 1 .. M /\ N \in 0 .. M
        /\ \A n \in 1 .. N : a[n] = s[n] /\ n \in 1 .. M /\ n - 1 \in 0 .. N
    OBVIOUS
  <1>2. PICK f \in [0 .. N -> Seq(S)] :
            /\ f[0] = <<>>
            /\ \A n \in 1 .. N :
                   f[n] = IF s[n].key = k THEN Append(f[n - 1], s[n]) ELSE f[n - 1]
            /\ OfKey(s, k) = f[N]
    <2>1. \E f : Scans(f, s, k, S) BY OfKeyDef
    <2> QED BY <2>1 DEF Scans
  <1> HIDE DEF a
  <1>3. PICK g \in [0 .. Len(a) -> Seq(S)] :
            /\ g[0] = <<>>
            /\ \A n \in 1 .. Len(a) :
                   g[n] = IF a[n].key = k THEN Append(g[n - 1], a[n]) ELSE g[n - 1]
            /\ OfKey(a, k) = g[Len(a)]
    <2>1. \E g : Scans(g, a, k, S) BY <1>1, OfKeyDef
    <2> QED BY <2>1 DEF Scans
  <1> HIDE DEF N, M
  <1> DEFINE G == {n \in Nat : n <= N => g[n] = f[n]}
  <1>4. 0 \in G BY <1>2, <1>3
  <1>5. ASSUME NEW n \in Nat, n \in G PROVE n + 1 \in G
    <2>1. CASE n + 1 <= N
      <3> DEFINE m == n + 1
      <3>1. m \in 1 .. N /\ m - 1 = n /\ n <= N BY <1>1, <2>1
      <3> HIDE DEF m
      <3>2. m \in 1 .. Len(a) /\ a[m] = s[m] BY <1>1, <3>1
      <3>3. g[n] = f[n] BY <1>5, <3>1
      <3>4. f[m] = IF s[m].key = k THEN Append(f[n], s[m]) ELSE f[n] BY <1>2, <3>1
      <3>5. g[m] = IF a[m].key = k THEN Append(g[n], a[m]) ELSE g[n] BY <1>3, <3>1, <3>2
      <3>6. g[m] = f[m] BY <3>2, <3>3, <3>4, <3>5
      <3> QED BY <3>6 DEF m
    <2>2. CASE ~(n + 1 <= N) BY <2>2
    <2> QED BY <2>1, <2>2
  <1> HIDE DEF G
  <1>6. N \in G BY <1>1, <1>4, <1>5, Induction
  <1>7. g[N] = f[N] BY <1>1, <1>6 DEF G
  <1>8. g[M] = IF x.key = k THEN Append(g[N], x) ELSE g[N] BY <1>1, <1>3
  <1>9. f[N] \in Seq(S) BY <1>1, <1>2
  <1> QED BY <1>1, <1>2, <1>3, <1>7, <1>8, <1>9 DEF a

\* They are elements of the list.
LEMMA OfKeyIsSeq ==
    ASSUME NEW S, NEW s \in Seq(S), NEW k PROVE OfKey(s, k) \in Seq(S)
  <1>1. PICK f : Scans(f, s, k, S) BY OfKeyDef
  <1>2. Len(s) \in 0 .. Len(s) OBVIOUS
  <1> QED BY <1>1, <1>2 DEF Scans

\* Those of two lists, one after the other.
LEMMA OfKeyConcat ==
    ASSUME NEW S, NEW s \in Seq(S), NEW t \in Seq(S), NEW k
    PROVE  OfKey(s \o t, k) = OfKey(s, k) \o OfKey(t, k)
  <1> DEFINE P == {u \in Seq(S) : OfKey(s \o u, k) = OfKey(s, k) \o OfKey(u, k)}
  <1>1. <<>> \in P
    <2>1. OfKey(s, k) \in Seq(S) BY OfKeyIsSeq
    <2>2. OfKey(<<>>, k) = <<>> BY OfKeyEmpty
    <2>3. s \o <<>> = s /\ OfKey(s, k) \o <<>> = OfKey(s, k) BY <2>1
    <2>4. OfKey(s \o <<>>, k) = OfKey(s, k) \o OfKey(<<>>, k) BY <2>2, <2>3
    <2>5. <<>> \in Seq(S) OBVIOUS
    <2> QED BY <2>4, <2>5
  <1>2. ASSUME NEW u \in Seq(S), NEW x \in S, u \in P PROVE Append(u, x) \in P
    <2>1. s \o Append(u, x) = Append(s \o u, x) /\ s \o u \in Seq(S) /\ Append(u, x) \in Seq(S)
      OBVIOUS
    <2> DEFINE a == OfKey(s, k)
               b == OfKey(u, k)
    <2>2. a \in Seq(S) /\ b \in Seq(S) BY OfKeyIsSeq
    <2>3. OfKey(s \o u, k) = a \o b BY <1>2
    <2>4. OfKey(Append(s \o u, x), k) = IF x.key = k THEN Append(a \o b, x) ELSE a \o b
      <3> DEFINE v == s \o u
      <3>1. v \in Seq(S) BY <2>1
      <3> HIDE DEF v
      <3>2. OfKey(Append(v, x), k) = IF x.key = k THEN Append(OfKey(v, k), x) ELSE OfKey(v, k)
        BY <3>1, OfKeyAppend
      <3> QED BY <2>3, <3>2 DEF v
    <2>5. OfKey(Append(u, x), k) = IF x.key = k THEN Append(b, x) ELSE b
      BY OfKeyAppend
    <2> HIDE DEF a, b
    <2>6. a \o Append(b, x) = Append(a \o b, x) BY <2>2
    <2>7. OfKey(s \o Append(u, x), k) = a \o OfKey(Append(u, x), k)
      BY <2>1, <2>4, <2>5, <2>6
    <2> QED BY <2>1, <2>7 DEF a
  <1> HIDE DEF P
  <1>3. t \in P BY <1>1, <1>2, ListInduction
  <1> QED BY <1>3 DEF P

\* A list without the key has none.
LEMMA OfKeyNone ==
    ASSUME NEW S, NEW s \in Seq(S), NEW k, \A i \in 1 .. Len(s) : s[i].key # k
    PROVE  OfKey(s, k) = <<>>
  <1> DEFINE P == {u \in Seq(S) : (\A i \in 1 .. Len(u) : u[i].key # k) => OfKey(u, k) = <<>>}
  <1>1. <<>> \in P
    <2>1. <<>> \in Seq(S) OBVIOUS
    <2> QED BY <2>1, OfKeyEmpty
  <1>2. ASSUME NEW u \in Seq(S), NEW x \in S, u \in P PROVE Append(u, x) \in P
    <2> DEFINE a == Append(u, x)
    <2>1. a \in Seq(S) /\ Len(a) = Len(u) + 1 /\ Len(u) \in Nat /\ a[Len(u) + 1] = x
          /\ \A i \in 1 .. Len(u) : a[i] = u[i] /\ i \in 1 .. Len(a)
      OBVIOUS
    <2>2. OfKey(a, k) = IF x.key = k THEN Append(OfKey(u, k), x) ELSE OfKey(u, k)
      BY OfKeyAppend
    <2> HIDE DEF a
    <2>3. ASSUME \A i \in 1 .. Len(a) : a[i].key # k PROVE OfKey(a, k) = <<>>
      <3>1. x.key # k BY <2>1, <2>3
      <3>2. \A i \in 1 .. Len(u) : u[i].key # k BY <2>1, <2>3
      <3> QED BY <1>2, <2>2, <3>1, <3>2
    <2> QED BY <2>1, <2>3 DEF a
  <1> HIDE DEF P
  <1>3. s \in P BY <1>1, <1>2, ListInduction
  <1> QED BY <1>3 DEF P

\* A list of one element.
LEMMA OfKeyOne ==
    ASSUME NEW x, NEW k PROVE OfKey(<<x>>, k) = IF x.key = k THEN <<x>> ELSE <<>>
  <1>1. <<>> \in Seq({x}) /\ x \in {x} /\ <<x>> = Append(<<>>, x) OBVIOUS
  <1>2. OfKey(Append(<<>>, x), k)
            = IF x.key = k THEN Append(OfKey(<<>>, k), x) ELSE OfKey(<<>>, k)
    <2> DEFINE s == <<>>
               S == {x}
    <2>1. s \in Seq(S) /\ x \in S BY <1>1
    <2> HIDE DEF s, S
    <2>2. OfKey(Append(s, x), k) = IF x.key = k THEN Append(OfKey(s, k), x) ELSE OfKey(s, k)
      BY <2>1, OfKeyAppend
    <2> QED BY <2>2 DEF s
  <1>3. OfKey(<<>>, k) = <<>> BY OfKeyEmpty
  <1>4. CASE x.key = k BY <1>1, <1>2, <1>3, <1>4
  <1>5. CASE x.key # k BY <1>1, <1>2, <1>3, <1>5
  <1> QED BY <1>4, <1>5

\* The list around its p-th element: what OfKey finds before it, it itself if
\* it has the key, and what OfKey finds after it.
LEMMA OfKeyAround ==
    ASSUME NEW S, NEW s \in Seq(S), NEW p \in 1 .. Len(s), NEW k
    PROVE  LET a == SubSeq(s, 1, p - 1)
               b == SubSeq(s, p + 1, Len(s))
           IN  /\ OfKey(a, k) \in Seq(S) /\ OfKey(b, k) \in Seq(S)
               /\ OfKey(s, k) = OfKey(a, k) \o (OfKey(<<s[p]>>, k) \o OfKey(b, k))
               /\ OfKey(RemoveAt(s, p), k) = OfKey(a, k) \o OfKey(b, k)
  <1> DEFINE a == SubSeq(s, 1, p - 1)
             b == SubSeq(s, p + 1, Len(s))
             x == s[p]
  <1>1. a \in Seq(S) /\ b \in Seq(S) /\ x \in S /\ <<x>> \in Seq(S)
    OBVIOUS
  <1>2. Len(a) = p - 1 /\ Len(b) = Len(s) - p /\ Len(s) \in Nat
        /\ (\A i \in 1 .. p - 1 : a[i] = s[i])
        /\ (\A i \in 1 .. Len(s) - p : b[i] = s[i + p])
    OBVIOUS
  <1>3. RemoveAt(s, p) = a \o b BY DEF RemoveAt
  <1>4. s[p] = x OBVIOUS
  <1> HIDE DEF a, b, x
  <1>5. <<x>> \o b \in Seq(S) /\ a \o (<<x>> \o b) \in Seq(S) BY <1>1
  <1>6. s = a \o (<<x>> \o b)
    <2> DEFINE c == <<x>> \o b
               d == a \o c
    <2>1. c \in Seq(S) /\ Len(c) = Len(b) + 1 /\ c[1] = x
          /\ \A i \in 1 .. Len(b) : c[i + 1] = b[i]
      BY <1>1
    <2> HIDE DEF c
    <2>2. d \in Seq(S) /\ Len(d) = Len(a) + Len(c)
          /\ (\A i \in 1 .. Len(a) : d[i] = a[i])
          /\ (\A i \in 1 .. Len(c) : d[Len(a) + i] = c[i])
      <3>1. d \in Seq(S) /\ Len(d) = Len(a) + Len(c)
        <4>1. a \in Seq(S) BY <1>1
        <4>2. c \in Seq(S) BY <2>1
        <4> QED BY <4>1, <4>2
      <3>2. ASSUME NEW i \in 1 .. Len(a) PROVE d[i] = a[i]
        <4>1. i \in 1 .. Len(a) + Len(c) /\ i <= Len(a) BY <1>1, <2>1
        <4> QED BY <1>1, <2>1, <4>1
      <3>3. ASSUME NEW i \in 1 .. Len(c) PROVE d[Len(a) + i] = c[i]
        <4> DEFINE j == Len(a) + i
        <4>1. j \in 1 .. Len(a) + Len(c) /\ j > Len(a) /\ j - Len(a) = i
          BY <1>1, <2>1
        <4> HIDE DEF j
        <4>2. d[j] = c[j - Len(a)] BY <1>1, <2>1, <4>1
        <4> QED BY <4>1, <4>2 DEF j
      <3> QED BY <3>1, <3>3, <3>2
    <2> HIDE DEF d
    <2>3. Len(d) = Len(s) BY <1>2, <2>1, <2>2
    <2>4. ASSUME NEW i \in 1 .. Len(s) PROVE d[i] = s[i]
      <3>1. CASE i < p
        <4>1. i \in 1 .. p - 1 /\ i \in 1 .. Len(a) BY <1>2, <3>1
        <4> QED BY <1>2, <2>2, <4>1
      <3>2. CASE i = p
        <4>1. 1 \in 1 .. Len(c) /\ Len(a) + 1 = i BY <1>2, <2>1, <3>2
        <4> QED BY <1>4, <2>1, <2>2, <3>2, <4>1
      <3>3. CASE i > p
        <4> DEFINE j == i - p
        <4>1. j \in 1 .. Len(b) /\ j \in 1 .. Len(s) - p /\ j + p = i
              /\ j + 1 \in 1 .. Len(c) /\ Len(a) + (j + 1) = i
          BY <1>2, <2>1, <3>3
        <4> HIDE DEF j
        <4>2. d[i] = c[j + 1] BY <2>2, <4>1
        <4>3. c[j + 1] = b[j] BY <2>1, <4>1
        <4>4. b[j] = s[i] BY <1>2, <4>1
        <4> QED BY <4>2, <4>3, <4>4
      <3> QED BY <3>1, <3>2, <3>3
    <2>5. d = s BY <2>2, <2>3, <2>4, SameList
    <2> QED BY <2>5 DEF c, d
  <1> DEFINE e == <<x>>
             c == e \o b
  <1>7. OfKey(s, k) = OfKey(a, k) \o OfKey(c, k)
    <2>1. c \in Seq(S) /\ s = a \o c BY <1>5, <1>6
    <2> HIDE DEF c
    <2> QED BY <1>1, <2>1, OfKeyConcat
  <1>8. OfKey(c, k) = OfKey(e, k) \o OfKey(b, k)
    <2>1. e \in Seq(S) /\ b \in Seq(S) BY <1>1
    <2> HIDE DEF e
    <2>2. OfKey(e \o b, k) = OfKey(e, k) \o OfKey(b, k) BY <2>1, OfKeyConcat
    <2> QED BY <2>2
  <1>9. OfKey(a \o b, k) = OfKey(a, k) \o OfKey(b, k) BY <1>1, OfKeyConcat
  <1>10. OfKey(a, k) \in Seq(S) /\ OfKey(b, k) \in Seq(S) BY <1>1, OfKeyIsSeq
  <1> QED BY <1>3, <1>7, <1>8, <1>9, <1>10 DEF a, b, x

\* Taking out the first element of key k takes out the first that OfKey finds,
\* ...
LEMMA OfKeyRemoveFirst ==
    ASSUME NEW S, NEW s \in Seq(S), NEW k, NEW p \in 1 .. Len(s), FirstAt(s, k, p)
    PROVE  /\ OfKey(s, k) # <<>>
           /\ OfKey(RemoveAt(s, p), k) = Tail(OfKey(s, k))
  <1> DEFINE a == SubSeq(s, 1, p - 1)
             b == SubSeq(s, p + 1, Len(s))
             x == s[p]
             t == OfKey(b, k)
  <1>1. /\ OfKey(a, k) \in Seq(S) /\ t \in Seq(S)
        /\ OfKey(s, k) = OfKey(a, k) \o (OfKey(<<x>>, k) \o t)
        /\ OfKey(RemoveAt(s, p), k) = OfKey(a, k) \o t
    BY OfKeyAround
  <1>2. x \in S /\ x.key = k BY DEF FirstAt
  <1>3. a \in Seq(S) /\ \A i \in 1 .. Len(a) : a[i].key # k
    <2>1. a \in Seq(S) /\ Len(a) = p - 1 /\ \A i \in 1 .. p - 1 : a[i] = s[i] OBVIOUS
    <2>2. \A i \in 1 .. p - 1 : i \in DOMAIN s /\ i < p OBVIOUS
    <2> HIDE DEF a
    <2> QED BY <2>1, <2>2 DEF FirstAt
  <1> HIDE DEF a, b, x
  <1>4. OfKey(a, k) = <<>> BY <1>3, OfKeyNone
  <1>5. OfKey(<<x>>, k) = <<x>> BY <1>2, OfKeyOne
  <1> HIDE DEF t
  <1>6. <<>> \o t = t /\ <<>> \o (<<x>> \o t) = <<x>> \o t
        /\ <<x>> \o t # <<>> /\ Tail(<<x>> \o t) = t
    BY <1>1, <1>2
  <1> QED BY <1>1, <1>4, <1>5, <1>6

\* ... and nothing of another key.
LEMMA OfKeyRemoveOther ==
    ASSUME NEW S, NEW s \in Seq(S), NEW k, NEW p \in 1 .. Len(s), s[p].key # k
    PROVE  OfKey(RemoveAt(s, p), k) = OfKey(s, k)
  <1> DEFINE a == OfKey(SubSeq(s, 1, p - 1), k)
             b == OfKey(SubSeq(s, p + 1, Len(s)), k)
  <1>1. /\ a \in Seq(S) /\ b \in Seq(S)
        /\ OfKey(s, k) = a \o (OfKey(<<s[p]>>, k) \o b)
        /\ OfKey(RemoveAt(s, p), k) = a \o b
    BY OfKeyAround
  <1>2. OfKey(<<s[p]>>, k) = <<>> BY OfKeyOne
  <1> HIDE DEF a, b
  <1>3. <<>> \o b = b BY <1>1
  <1> QED BY <1>1, <1>2, <1>3

\* A list with an element of the key has a first.
LEMMA OfKeySome ==
    ASSUME NEW S, NEW s \in Seq(S), NEW k, NEW p \in 1 .. Len(s), s[p].key = k
    PROVE  OfKey(s, k) # <<>>
  <1> DEFINE a == OfKey(SubSeq(s, 1, p - 1), k)
             b == OfKey(SubSeq(s, p + 1, Len(s)), k)
             x == s[p]
  <1>1. a \in Seq(S) /\ b \in Seq(S) /\ OfKey(s, k) = a \o (OfKey(<<x>>, k) \o b)
    BY OfKeyAround
  <1>2. OfKey(<<x>>, k) = <<x>> /\ x \in S BY OfKeyOne
  <1> HIDE DEF a, b, x
  <1>3. Len(a \o (<<x>> \o b)) > 0 BY <1>1, <1>2
  <1>4. a \o (<<x>> \o b) # <<>> BY <1>3
  <1> QED BY <1>1, <1>2, <1>4

\* The head and what follows it.
LEMMA OfKeyHead ==
    ASSUME NEW S, NEW s \in Seq(S), s # <<>>, NEW k
    PROVE  /\ OfKey(Tail(s), k) \in Seq(S)
           /\ OfKey(s, k) = OfKey(<<s[1]>>, k) \o OfKey(Tail(s), k)
  <1>1. Tail(s) \in Seq(S) /\ s[1] \in S /\ <<s[1]>> \in Seq(S) /\ s = <<s[1]>> \o Tail(s)
    OBVIOUS
  <1> DEFINE e == <<s[1]>>
             t == Tail(s)
  <1>2. e \in Seq(S) /\ t \in Seq(S) /\ s = e \o t BY <1>1
  <1> HIDE DEF e, t
  <1>3. OfKey(e \o t, k) = OfKey(e, k) \o OfKey(t, k) BY <1>2, OfKeyConcat
  <1>4. OfKey(t, k) \in Seq(S) BY <1>2, OfKeyIsSeq
  <1> QED BY <1>2, <1>3, <1>4 DEF e, t

\* u is s with x in the place of its head.
NewHead(s, u, x) == u = [s EXCEPT ![1] = x]

\* Replacing the head by an element x of the same key.
LEMMA OfKeyNewHead ==
    ASSUME NEW S, NEW s \in Seq(S), s # <<>>, NEW x \in S, x.key = s[1].key,
           NEW u, NewHead(s, u, x), NEW k
    PROVE  IF x.key = k THEN NewHead(OfKey(s, k), OfKey(u, k), x)
                        ELSE OfKey(u, k) = OfKey(s, k)
  <1> DEFINE t == OfKey(Tail(s), k)
             y == s[1]
  <1>1. u \in Seq(S) /\ u # <<>> /\ u[1] = x /\ Tail(u) = Tail(s) BY DEF NewHead
  <1>2. t \in Seq(S) /\ OfKey(s, k) = OfKey(<<y>>, k) \o t BY OfKeyHead
  <1>3. OfKey(u, k) = OfKey(<<x>>, k) \o t BY <1>1, OfKeyHead
  <1>4. y \in S /\ y.key = x.key OBVIOUS
  <1>5. OfKey(<<x>>, k) = IF x.key = k THEN <<x>> ELSE <<>> BY OfKeyOne
  <1>6. OfKey(<<y>>, k) = IF y.key = k THEN <<y>> ELSE <<>> BY OfKeyOne
  <1> HIDE DEF t, y
  <1>7. CASE x.key = k
    <2>1. <<x>> \o t = [<<y>> \o t EXCEPT ![1] = x]
      <3> DEFINE v == <<x>> \o t
                 w == <<y>> \o t
                 z == [w EXCEPT ![1] = x]
      <3>1. v \in Seq(S) /\ Len(v) = Len(t) + 1 /\ v[1] = x /\ Len(t) \in Nat
            /\ \A i \in 1 .. Len(t) : v[i + 1] = t[i]
        BY <1>2
      <3>2. w \in Seq(S) /\ Len(w) = Len(t) + 1
            /\ \A i \in 1 .. Len(t) : w[i + 1] = t[i]
        BY <1>2, <1>4
      <3> HIDE DEF v, w
      <3>3. z \in Seq(S) /\ Len(z) = Len(t) + 1 /\ z[1] = x
            /\ \A i \in 1 .. Len(t) : z[i + 1] = t[i]
        BY <3>1, <3>2
      <3> HIDE DEF z
      <3>4. ASSUME NEW i \in 1 .. Len(v) PROVE v[i] = z[i]
        <4>1. CASE i = 1 BY <3>1, <3>3, <4>1
        <4>2. CASE i # 1
          <5>1. i - 1 \in 1 .. Len(t) /\ (i - 1) + 1 = i BY <3>1, <4>2
          <5> QED BY <3>1, <3>3, <5>1
        <4> QED BY <4>1, <4>2
      <3>5. v = z BY <3>1, <3>3, <3>4, SameList
      <3> QED BY <3>5 DEF v, z, w
    <2> QED BY <1>2, <1>3, <1>4, <1>5, <1>6, <1>7, <2>1 DEF NewHead
  <1>8. CASE x.key # k BY <1>2, <1>3, <1>4, <1>5, <1>6, <1>8
  <1> QED BY <1>7, <1>8

----------------------------------------------------------------------------
(* Lists of tasks *)

Entry == [task : Task, status : Status]
EntryOf(x) == [task |-> x.task, status |-> x.status]

\* The tasks of a list of nodes, one for each node.
LEMMA EntriesFacts ==
    ASSUME NEW s \in Seq(Node)
    PROVE  /\ Entries(s) \in Seq(Entry) /\ Len(Entries(s)) = Len(s) /\ Len(s) \in Nat
           /\ DOMAIN Entries(s) = 1 .. Len(s)
           /\ \A i \in 1 .. Len(s) : Entries(s)[i] = EntryOf(s[i]) /\ s[i] \in Node
  <1>1. Len(s) \in Nat /\ DOMAIN s = 1 .. Len(s) OBVIOUS
  <1>2. ASSUME NEW i \in 1 .. Len(s) PROVE s[i] \in Node /\ EntryOf(s[i]) \in Entry
    <2>1. s[i] \in Node OBVIOUS
    <2> QED BY <2>1 DEF Node, Entry, EntryOf
  <1>3. Entries(s) = [i \in 1 .. Len(s) |-> EntryOf(s[i])] BY <1>1 DEF Entries, EntryOf
  <1> QED BY <1>1, <1>2, <1>3

\* No node, no task.
LEMMA EntriesEmpty ==
    ASSUME NEW s \in Seq(Node) PROVE Entries(s) = <<>> <=> s = <<>>
  <1> DEFINE e == Entries(s)
  <1>1. e \in Seq(Entry) /\ Len(e) = Len(s) BY EntriesFacts
  <1> HIDE DEF e
  <1>2. e = <<>> <=> s = <<>> BY <1>1
  <1> QED BY <1>2 DEF e

\* A node at the end is a task at the end.
LEMMA EntriesAppend ==
    ASSUME NEW s \in Seq(Node), NEW x \in Node
    PROVE  Entries(Append(s, x)) = Append(Entries(s), EntryOf(x))
  <1> DEFINE a == Append(s, x)
             e == Entries(s)
             y == EntryOf(x)
             u == Entries(a)
             v == Append(e, y)
  <1>1. a \in Seq(Node) /\ Len(a) = Len(s) + 1 /\ a[Len(s) + 1] = x
        /\ \A i \in 1 .. Len(s) : a[i] = s[i]
    OBVIOUS
  <1>2. e \in Seq(Entry) /\ Len(e) = Len(s) /\ Len(s) \in Nat
        /\ \A i \in 1 .. Len(s) : e[i] = EntryOf(s[i])
    BY EntriesFacts
  <1>3. y \in Entry BY DEF Node, Entry, EntryOf
  <1> HIDE DEF a, e
  <1>4. u \in Seq(Entry) /\ Len(u) = Len(a) /\ \A i \in 1 .. Len(a) : u[i] = EntryOf(a[i])
    BY <1>1, EntriesFacts
  <1> HIDE DEF u, y
  <1>5. v \in Seq(Entry) /\ Len(v) = Len(e) + 1 /\ v[Len(e) + 1] = y
        /\ \A i \in 1 .. Len(e) : v[i] = e[i]
    BY <1>2, <1>3
  <1> HIDE DEF v
  <1>6. \A i \in 1 .. Len(u) : u[i] = v[i]
    <2> SUFFICES ASSUME NEW i \in 1 .. Len(u) PROVE u[i] = v[i] OBVIOUS
    <2>1. i \in 1 .. Len(a) /\ (i \in 1 .. Len(s) \/ i = Len(s) + 1) BY <1>1, <1>2, <1>4
    <2>2. CASE i \in 1 .. Len(s) BY <1>1, <1>2, <1>4, <1>5, <2>1, <2>2
    <2>3. CASE i = Len(s) + 1
      <3>1. u[i] = EntryOf(x) BY <1>1, <1>4, <2>1, <2>3
      <3> QED BY <1>2, <1>5, <2>3, <3>1 DEF y
    <2> QED BY <2>1, <2>2, <2>3
  <1>7. Len(u) = Len(v) BY <1>1, <1>2, <1>4, <1>5
  <1>8. u = v BY <1>4, <1>5, <1>6, <1>7, SameList
  <1> QED BY <1>8 DEF u, v, a, e, y

\* Without the first node, without the first task.
LEMMA EntriesTail ==
    ASSUME NEW s \in Seq(Node), s # <<>>
    PROVE  Entries(Tail(s)) = Tail(Entries(s))
  <1> DEFINE a == Tail(s)
             e == Entries(s)
             u == Entries(a)
             v == Tail(e)
  <1>1. a \in Seq(Node) /\ Len(a) = Len(s) - 1 /\ Len(s) \in Nat /\ Len(s) # 0
        /\ \A i \in 1 .. Len(s) - 1 : a[i] = s[i + 1]
    OBVIOUS
  <1>2. e \in Seq(Entry) /\ Len(e) = Len(s)
        /\ \A i \in 1 .. Len(s) : e[i] = EntryOf(s[i])
    BY EntriesFacts
  <1> HIDE DEF a, e
  <1>3. u \in Seq(Entry) /\ Len(u) = Len(a) /\ \A i \in 1 .. Len(a) : u[i] = EntryOf(a[i])
    BY <1>1, EntriesFacts
  <1>4. e # <<>> BY <1>1, <1>2
  <1>5. v \in Seq(Entry) /\ Len(v) = Len(e) - 1 /\ \A i \in 1 .. Len(e) - 1 : v[i] = e[i + 1]
    BY <1>2, <1>4
  <1> HIDE DEF u, v
  <1>6. \A i \in 1 .. Len(u) : u[i] = v[i]
    <2> SUFFICES ASSUME NEW i \in 1 .. Len(u) PROVE u[i] = v[i] OBVIOUS
    <2>1. i \in 1 .. Len(a) /\ i \in 1 .. Len(s) - 1 /\ i + 1 \in 1 .. Len(s)
          /\ i \in 1 .. Len(e) - 1
      BY <1>1, <1>2, <1>3
    <2>2. u[i] = EntryOf(s[i + 1]) BY <1>1, <1>3, <2>1
    <2>3. v[i] = EntryOf(s[i + 1]) BY <1>2, <1>5, <2>1
    <2> QED BY <2>2, <2>3
  <1>7. Len(u) = Len(v) BY <1>1, <1>2, <1>3, <1>5
  <1>8. u = v BY <1>3, <1>5, <1>6, <1>7, SameList
  <1> QED BY <1>8 DEF u, v, a, e

\* A new status of the first node is a new status of the first task.
LEMMA EntriesNewHead ==
    ASSUME NEW s \in Seq(Node), s # <<>>, NEW x \in Node, x.task = s[1].task,
           NEW a, NewHead(s, a, x)
    PROVE  Entries(a) = [Entries(s) EXCEPT ![1].status = x.status]
  <1> DEFINE e == Entries(s)
             y == EntryOf(x)
             u == Entries(a)
             v == [e EXCEPT ![1] = y]
  <1>1. a \in Seq(Node) /\ Len(a) = Len(s) /\ Len(s) \in Nat /\ Len(s) # 0 /\ a[1] = x
        /\ 1 \in 1 .. Len(s) /\ \A i \in 1 .. Len(s) : i # 1 => a[i] = s[i]
    BY DEF NewHead
  <1>2. e \in Seq(Entry) /\ Len(e) = Len(s)
        /\ \A i \in 1 .. Len(s) : e[i] = EntryOf(s[i])
    BY EntriesFacts
  <1>3. y \in Entry BY DEF Node, Entry, EntryOf
  <1>4. [e EXCEPT ![1].status = x.status] = v
    <2>1. e[1] = [task |-> x.task, status |-> s[1].status] BY <1>1, <1>2 DEF EntryOf
    <2> HIDE DEF e
    <2>2. [e[1] EXCEPT !.status = x.status] = y BY <2>1 DEF EntryOf
    <2> QED BY <2>2
  <1> HIDE DEF e
  <1>5. u \in Seq(Entry) /\ Len(u) = Len(a) /\ \A i \in 1 .. Len(a) : u[i] = EntryOf(a[i])
    BY <1>1, EntriesFacts
  <1> HIDE DEF u, y
  <1>6. v \in Seq(Entry) /\ Len(v) = Len(e) /\ v[1] = y
        /\ \A i \in 1 .. Len(e) : i # 1 => v[i] = e[i]
    BY <1>1, <1>2, <1>3
  <1>7. \A i \in 1 .. Len(u) : u[i] = v[i]
    <2> HIDE DEF v
    <2> SUFFICES ASSUME NEW i \in 1 .. Len(u) PROVE u[i] = v[i] OBVIOUS
    <2>1. i \in 1 .. Len(s) /\ u[i] = EntryOf(a[i]) BY <1>1, <1>5
    <2>2. CASE i = 1 BY <1>1, <1>6, <2>1, <2>2 DEF y
    <2>3. CASE i # 1 BY <1>1, <1>2, <1>6, <2>1, <2>3
    <2> QED BY <2>2, <2>3
  <1>8. u = v
    <2> HIDE DEF v
    <2>1. Len(u) = Len(v) BY <1>1, <1>2, <1>5, <1>6
    <2> QED BY <1>5, <1>6, <1>7, <2>1, SameList
  <1> QED BY <1>4, <1>8 DEF u, e

----------------------------------------------------------------------------
(* The lists of a table *)

Tables == [Bucket -> Seq(Node)]

\* What the requests do to one list among others: f becomes g.
Appends(f, g, i, x) == g = [f EXCEPT ![i] = Append(@, x)]
Drops(f, g, i, p) == g = [f EXCEPT ![i] = RemoveAt(@, p)]
Pops(f, g, i) == g = [f EXCEPT ![i] = Tail(@)]
Marks(f, g, i, st) == g = [f EXCEPT ![i][1].status = st]

\* The nodes of key k in a table t and on their way to it.
LEMMA ListNodes ==
    ASSUME NEW t \in Tables, NEW w, Pending(w) \in Seq(Node), NEW k \in Keys
    PROVE  /\ hash_func(k) \in Bucket /\ t[hash_func(k)] \in Seq(Node)
           /\ OfKey(t[hash_func(k)] \o Pending(w), k)
                  = OfKey(t[hash_func(k)], k) \o OfKey(Pending(w), k)
           /\ OfKey(t[hash_func(k)], k) \in Seq(Node) /\ OfKey(Pending(w), k) \in Seq(Node)
           /\ ListIn(t, w)[k] = Entries(OfKey(t[hash_func(k)], k) \o OfKey(Pending(w), k))
  <1>1. hash_func(k) \in Bucket BY HashInRange
  <1> DEFINE b == t[hash_func(k)]
             n == Pending(w)
  <1>2. b \in Seq(Node) BY <1>1 DEF Tables
  <1>3. ListIn(t, w)[k] = Entries(OfKey(b \o n, k)) BY DEF ListIn
  <1> HIDE DEF b, n
  <1>4. n \in Seq(Node) BY DEF n
  <1>5. OfKey(b \o n, k) = OfKey(b, k) \o OfKey(n, k) BY <1>2, <1>4, OfKeyConcat
  <1>6. OfKey(b, k) \in Seq(Node) BY <1>2, OfKeyIsSeq
  <1>7. OfKey(n, k) \in Seq(Node) BY <1>4, OfKeyIsSeq
  <1> QED BY <1>1, <1>2, <1>3, <1>5, <1>6, <1>7 DEF b, n

\* ... when nothing is on its way.
LEMMA ListAtRest ==
    ASSUME NEW t \in Tables, NEW w, Pending(w) = <<>>, NEW k \in Keys
    PROVE  /\ hash_func(k) \in Bucket /\ t[hash_func(k)] \in Seq(Node)
           /\ OfKey(t[hash_func(k)], k) \in Seq(Node)
           /\ ListIn(t, w)[k] = Entries(OfKey(t[hash_func(k)], k))
  <1> DEFINE b == t[hash_func(k)]
             o == OfKey(b, k)
  <1>1. Pending(w) \in Seq(Node) OBVIOUS
  <1>2. /\ hash_func(k) \in Bucket /\ b \in Seq(Node) /\ o \in Seq(Node)
        /\ ListIn(t, w)[k] = Entries(o \o OfKey(Pending(w), k))
    BY <1>1, ListNodes
  <1> HIDE DEF b, o
  <1>3. OfKey(Pending(w), k) = <<>> BY OfKeyEmpty
  <1>4. o \o <<>> = o BY <1>2
  <1> QED BY <1>2, <1>3, <1>4 DEF b, o

\* Lists are the same if they are the same for each key.
LEMMA SameLists ==
    ASSUME NEW a \in [Keys -> Seq(Entry)], NEW b \in [Keys -> Seq(Entry)],
           \A k \in Keys : a[k] = b[k]
    PROVE  a = b
  OBVIOUS

\* A table has a list of tasks for each key.
LEMMA ListType ==
    ASSUME NEW t \in Tables, NEW w, Pending(w) \in Seq(Node)
    PROVE  ListIn(t, w) \in [Keys -> Seq(Entry)]
  <1>1. ASSUME NEW k \in Keys PROVE ListIn(t, w)[k] \in Seq(Entry)
    <2> DEFINE a == OfKey(t[hash_func(k)], k)
               b == OfKey(Pending(w), k)
               o == a \o b
    <2>1. a \in Seq(Node) /\ b \in Seq(Node) /\ ListIn(t, w)[k] = Entries(o) BY ListNodes
    <2>2. o \in Seq(Node)
      <3> HIDE DEF a, b
      <3> QED BY <2>1
    <2> HIDE DEF o
    <2>3. Entries(o) \in Seq(Entry) BY <2>2, EntriesFacts
    <2> QED BY <2>1, <2>3
  <1>2. ListIn(t, w) = [k \in Keys |-> ListIn(t, w)[k]] BY DEF ListIn
  <1> HIDE DEF ListIn
  <1> QED BY <1>1, <1>2

\* A node at the end of its bucket is the youngest task of its key.
LEMMA ListInsert ==
    ASSUME NEW t \in Tables, NEW w, Pending(w) = <<>>, NEW x \in Node,
           NEW u \in Tables, Appends(t, u, hash_func(x.key), x)
    PROVE  Appends(ListIn(t, w), ListIn(u, w), x.key, EntryOf(x))
  <1> USE DEF Appends
  <1> DEFINE L == ListIn(t, w)
             j == x.key
             e == EntryOf(x)
             l == [L EXCEPT ![j] = Append(@, e)]
  <1>1. j \in Keys /\ e \in Entry BY DEF Node, Entry, EntryOf
  <1>2. Pending(w) \in Seq(Node) OBVIOUS
  <1>3. L \in [Keys -> Seq(Entry)] BY <1>2, ListType
  <1>4. ASSUME NEW k \in Keys
        PROVE  ListIn(u, w)[k] = IF k = j THEN Append(L[k], e) ELSE L[k]
    <2> DEFINE h == hash_func(k)
               b == t[h]
    <2>1. h \in Bucket /\ b \in Seq(Node) /\ OfKey(b, k) \in Seq(Node)
          /\ L[k] = Entries(OfKey(b, k))
      BY ListAtRest
    <2>2. ListIn(u, w)[k] = Entries(OfKey(u[h], k)) BY ListAtRest
    <2> HIDE DEF L, h, b
    <2>3. CASE h = hash_func(j)
      <3>1. u[h] = Append(b, x) BY <2>1, <2>3 DEF Tables, b
      <3>2. OfKey(u[h], k) = IF j = k THEN Append(OfKey(b, k), x) ELSE OfKey(b, k)
        <4>1. OfKey(Append(b, x), k) = IF x.key = k THEN Append(OfKey(b, k), x) ELSE OfKey(b, k)
          BY <2>1, OfKeyAppend
        <4> QED BY <3>1, <4>1
      <3> DEFINE o == OfKey(b, k)
      <3> HIDE DEF o
      <3>3. Entries(Append(o, x)) = Append(Entries(o), e) BY <2>1, EntriesAppend DEF o
      <3> QED BY <2>1, <2>2, <3>2, <3>3 DEF o
    <2>4. CASE h # hash_func(j)
      <3>1. u[h] = b /\ k # j BY <2>1, <2>4 DEF Tables, b, h
      <3> QED BY <2>1, <2>2, <3>1
    <2> QED BY <2>3, <2>4
  <1> HIDE DEF L, e, j
  <1>5. l \in [Keys -> Seq(Entry)] /\ \A k \in Keys : l[k] = IF k = j THEN Append(L[k], e) ELSE L[k]
    BY <1>1, <1>3
  <1> HIDE DEF l
  <1>6. \A k \in Keys : ListIn(u, w)[k] = l[k] BY <1>4, <1>5
  <1>7. ListIn(u, w) \in [Keys -> Seq(Entry)] BY <1>2, ListType
  <1>8. ListIn(u, w) = l BY <1>5, <1>6, <1>7, SameLists
  <1> QED BY <1>8 DEF l, L, e, j

\* The first node of a key is its oldest task.
LEMMA ListRemove ==
    ASSUME NEW t \in Tables, NEW w, Pending(w) = <<>>, NEW j \in Keys,
           NEW p \in DOMAIN t[hash_func(j)], FirstAt(t[hash_func(j)], j, p),
           NEW u \in Tables, Drops(t, u, hash_func(j), p)
    PROVE  ListIn(t, w)[j] # <<>> /\ Pops(ListIn(t, w), ListIn(u, w), j)
  <1> USE DEF Drops, Pops
  <1> DEFINE L == ListIn(t, w)
             l == [L EXCEPT ![j] = Tail(@)]
             g == hash_func(j)
             c == t[g]
  <1>1. Pending(w) \in Seq(Node) OBVIOUS
  <1>2. L \in [Keys -> Seq(Entry)] BY <1>1, ListType
  <1>3. g \in Bucket /\ c \in Seq(Node) /\ OfKey(c, j) \in Seq(Node)
        /\ L[j] = Entries(OfKey(c, j))
    BY ListAtRest
  <1>4. p \in 1 .. Len(c) /\ FirstAt(c, j, p) /\ c[p].key = j
    <2>1. DOMAIN c = 1 .. Len(c) BY <1>3
    <2> QED BY <2>1 DEF FirstAt
  <1>5. OfKey(c, j) # <<>> /\ OfKey(RemoveAt(c, p), j) = Tail(OfKey(c, j))
    <2> HIDE DEF c
    <2> QED BY <1>3, <1>4, OfKeyRemoveFirst
  <1>6. L[j] # <<>> BY <1>3, <1>5, EntriesEmpty
  <1>7. u[g] = RemoveAt(c, p) /\ \A h \in Bucket : h # g => u[h] = t[h]
    BY <1>3 DEF Tables
  <1>8. ASSUME NEW k \in Keys
        PROVE  ListIn(u, w)[k] = IF k = j THEN Tail(L[k]) ELSE L[k]
    <2> DEFINE h == hash_func(k)
               b == t[h]
    <2>1. h \in Bucket /\ b \in Seq(Node) /\ OfKey(b, k) \in Seq(Node)
          /\ L[k] = Entries(OfKey(b, k))
      BY ListAtRest
    <2>2. ListIn(u, w)[k] = Entries(OfKey(u[h], k)) BY ListAtRest
    <2> HIDE DEF L, h, c
    <2>3. CASE k = j
      <3>1. h = g BY <2>3 DEF h
      <3>2. OfKey(u[h], k) = Tail(OfKey(c, j)) BY <1>5, <1>7, <2>3, <3>1
      <3> DEFINE o == OfKey(c, j)
      <3> HIDE DEF o
      <3>3. Entries(Tail(o)) = Tail(Entries(o)) BY <1>3, <1>5, EntriesTail DEF o
      <3>4. ListIn(u, w)[k] = Tail(L[j]) BY <1>3, <2>2, <3>2, <3>3 DEF o
      <3> QED BY <2>3, <3>4
    <2>4. CASE k # j /\ h = g
      <3>1. OfKey(RemoveAt(c, p), k) = OfKey(c, k) BY <1>3, <1>4, <2>4, OfKeyRemoveOther
      <3>2. b = c BY <2>4 DEF c
      <3> QED BY <1>7, <2>1, <2>2, <2>4, <3>1, <3>2
    <2>5. CASE k # j /\ h # g
      <3>1. u[h] = b BY <1>7, <2>1, <2>5
      <3> QED BY <2>1, <2>2, <2>5, <3>1
    <2> QED BY <2>3, <2>4, <2>5
  <1> HIDE DEF L
  <1>9. L[j] \in Seq(Entry) /\ Tail(L[j]) \in Seq(Entry) BY <1>2, <1>6
  <1>10. l \in [Keys -> Seq(Entry)] /\ \A k \in Keys : l[k] = IF k = j THEN Tail(L[k]) ELSE L[k]
    BY <1>2, <1>9
  <1> HIDE DEF l
  <1>11. \A k \in Keys : ListIn(u, w)[k] = l[k] BY <1>8, <1>10
  <1>12. ListIn(u, w) \in [Keys -> Seq(Entry)] BY <1>1, ListType
  <1>13. ListIn(u, w) = l BY <1>10, <1>11, <1>12, SameLists
  <1> QED BY <1>6, <1>13 DEF l, L

\* A key that no node of its bucket has, has no task.
LEMMA ListAbsent ==
    ASSUME NEW t \in Tables, NEW w, Pending(w) = <<>>, NEW j \in Keys,
           \A i \in DOMAIN t[hash_func(j)] : t[hash_func(j)][i].key # j
    PROVE  ListIn(t, w)[j] = <<>>
  <1> DEFINE b == t[hash_func(j)]
  <1>1. b \in Seq(Node) /\ ListIn(t, w)[j] = Entries(OfKey(b, j)) BY ListAtRest
  <1>2. \A i \in 1 .. Len(b) : b[i].key # j
    <2>1. DOMAIN b = 1 .. Len(b) BY <1>1
    <2> QED BY <2>1
  <1> HIDE DEF b
  <1>3. OfKey(b, j) = <<>> BY <1>1, <1>2, OfKeyNone
  <1>4. <<>> \in Seq(Node) OBVIOUS
  <1>5. Entries(<<>>) = <<>> BY <1>4, EntriesEmpty
  <1> QED BY <1>1, <1>3, <1>5

\* The key of a node of the table has a task.
LEMMA ListSome ==
    ASSUME NEW t \in Tables, NEW w, Pending(w) = <<>>, NEW j \in Keys,
           NEW p \in DOMAIN t[hash_func(j)], t[hash_func(j)][p].key = j
    PROVE  ListIn(t, w)[j] # <<>>
  <1> DEFINE b == t[hash_func(j)]
  <1>1. b \in Seq(Node) /\ OfKey(b, j) \in Seq(Node) /\ ListIn(t, w)[j] = Entries(OfKey(b, j))
    BY ListAtRest
  <1>2. p \in 1 .. Len(b) /\ b[p].key = j
    <2>1. DOMAIN b = 1 .. Len(b) BY <1>1
    <2> QED BY <2>1
  <1> HIDE DEF b
  <1>3. OfKey(b, j) # <<>> BY <1>1, <1>2, OfKeySome
  <1> QED BY <1>1, <1>3, EntriesEmpty

\* The first node of a bucket is the oldest task of its key; its status is
\* the task's.
LEMMA ListModify ==
    ASSUME NEW t \in Tables, NEW w, Pending(w) = <<>>, NEW j \in Keys, NEW st \in Status,
           t[hash_func(j)] # <<>>, t[hash_func(j)][1].key = j,
           NEW u \in Tables, Marks(t, u, hash_func(j), st)
    PROVE  ListIn(t, w)[j] # <<>> /\ Marks(ListIn(t, w), ListIn(u, w), j, st)
  <1> USE DEF Marks
  <1> DEFINE L == ListIn(t, w)
             l == [L EXCEPT ![j][1].status = st]
             g == hash_func(j)
             c == t[g]
             y == c[1]
             x == [key |-> y.key, task |-> y.task, status |-> st]
  <1>1. Pending(w) \in Seq(Node) OBVIOUS
  <1>2. L \in [Keys -> Seq(Entry)] BY <1>1, ListType
  <1>3. g \in Bucket /\ c \in Seq(Node) /\ OfKey(c, j) \in Seq(Node)
        /\ L[j] = Entries(OfKey(c, j))
    BY ListAtRest
  <1>4. c # <<>> /\ 1 \in 1 .. Len(c) /\ 1 \in DOMAIN c /\ y \in Node /\ y.key = j
    <2>1. c # <<>> /\ y.key = j OBVIOUS
    <2> HIDE DEF c
    <2> QED BY <1>3, <2>1
  <1>5. x \in Node /\ x.key = j /\ x.task = y.task /\ x.status = st
        /\ [y EXCEPT !.status = st] = x
    BY <1>4 DEF Node
  <1>6. NewHead(c, u[g], x) /\ \A h \in Bucket : h # g => u[h] = t[h]
    <2>1. u[g] = [c EXCEPT ![1].status = st] BY <1>3 DEF Tables
    <2>2. [c EXCEPT ![1].status = st] = [c EXCEPT ![1] = [y EXCEPT !.status = st]] OBVIOUS
    <2>3. \A h \in Bucket : h # g => u[h] = t[h] BY <1>3 DEF Tables
    <2> QED BY <1>5, <2>1, <2>2, <2>3 DEF NewHead
  <1> HIDE DEF x
  <1>7. L[j] # <<>> BY <1>4, ListSome
  <1> DEFINE o == OfKey(c, j)
  <1>8. o \in Seq(Node) /\ L[j] = Entries(o) /\ o # <<>> BY <1>3, <1>7, EntriesEmpty
  <1>9. o[1].task = y.task
    <2>1. OfKey(Tail(c), j) \in Seq(Node)
          /\ OfKey(c, j) = OfKey(<<c[1]>>, j) \o OfKey(Tail(c), j)
      <3> HIDE DEF c
      <3> QED BY <1>3, <1>4, OfKeyHead
    <2>2. OfKey(<<y>>, j) = <<y>> BY <1>4, OfKeyOne
    <2> DEFINE z == OfKey(Tail(c), j)
    <2>3. o = <<y>> \o z /\ z \in Seq(Node) BY <2>1, <2>2
    <2> HIDE DEF o, y, z
    <2>4. o[1] = y BY <1>4, <2>3
    <2> QED BY <2>4
  <1>10. ASSUME NEW z, NewHead(o, z, x)
         PROVE  Entries(z) = [Entries(o) EXCEPT ![1].status = st]
    <2>1. x.task = o[1].task BY <1>5, <1>9
    <2> HIDE DEF o
    <2>2. Entries(z) = [Entries(o) EXCEPT ![1].status = x.status]
      BY <1>5, <1>8, <1>10, <2>1, EntriesNewHead
    <2> QED BY <1>5, <2>2
  <1>11. ASSUME NEW k \in Keys
         PROVE  ListIn(u, w)[k] = IF k = j THEN [L[k] EXCEPT ![1].status = st] ELSE L[k]
    <2> DEFINE h == hash_func(k)
               b == t[h]
    <2>1. h \in Bucket /\ b \in Seq(Node) /\ L[k] = Entries(OfKey(b, k)) BY ListAtRest
    <2>2. ListIn(u, w)[k] = Entries(OfKey(u[h], k)) BY ListAtRest
    <2>3. CASE h # g
      <3>1. u[h] = b /\ k # j BY <1>6, <2>1, <2>3
      <3> HIDE DEF L
      <3> QED BY <2>1, <2>2, <3>1
    <2>4. CASE h = g
      <3>1. NewHead(c, u[h], x) /\ b = c BY <1>6, <2>4
      <3>2. IF x.key = k THEN NewHead(OfKey(c, k), OfKey(u[h], k), x)
                         ELSE OfKey(u[h], k) = OfKey(c, k)
        <4> HIDE DEF c
        <4>1. x.key = c[1].key BY <1>4, <1>5
        <4> QED BY <1>3, <1>4, <1>5, <3>1, <4>1, OfKeyNewHead
      <3>3. CASE k = j
        <4>1. NewHead(o, OfKey(u[h], k), x) BY <1>5, <3>2, <3>3
        <4>2. Entries(OfKey(u[h], k)) = [Entries(o) EXCEPT ![1].status = st] BY <1>10, <4>1
        <4> HIDE DEF L, o
        <4>3. ListIn(u, w)[k] = [L[j] EXCEPT ![1].status = st] BY <1>8, <2>2, <4>2
        <4> QED BY <3>3, <4>3
      <3>4. CASE k # j
        <4>1. OfKey(u[h], k) = OfKey(b, k) BY <1>5, <3>1, <3>2, <3>4
        <4> HIDE DEF L, h, b
        <4> QED BY <2>1, <2>2, <3>4, <4>1
      <3> QED BY <3>3, <3>4
    <2> QED BY <2>3, <2>4
  <1>12. ListIn(u, w) \in [Keys -> Seq(Entry)] BY <1>1, ListType
  <1> HIDE DEF L
  <1>13. l = [L EXCEPT ![j] = [L[j] EXCEPT ![1].status = st]] OBVIOUS
  <1>14. /\ l = [k \in Keys |-> l[k]]
         /\ \A k \in Keys : l[k] = IF k = j THEN [L[k] EXCEPT ![1].status = st] ELSE L[k]
    <2> DEFINE v == [L[j] EXCEPT ![1].status = st]
    <2>1. v = ListIn(u, w)[j] BY <1>11
    <2> HIDE DEF v, l
    <2>2. l = [L EXCEPT ![j] = v] BY <1>13 DEF v
    <2>3. \A k \in Keys : l[k] = IF k = j THEN v ELSE L[k] BY <1>2, <2>2
    <2> QED BY <1>2, <2>1, <2>2, <2>3 DEF v
  <1> HIDE DEF l
  <1>15. \A k \in Keys : ListIn(u, w)[k] = l[k] BY <1>11, <1>14
  <1>16. l \in [Keys -> Seq(Entry)]
    <2>1. \A k \in Keys : l[k] \in Seq(Entry) BY <1>12, <1>15
    <2> QED BY <1>14, <2>1
  <1>17. ListIn(u, w) = l BY <1>12, <1>15, <1>16, SameLists
  <1> QED BY <1>7, <1>17 DEF l, L

\* The first record of a checkpoint moves from the file to the table.
LEMMA ListRecord ==
    ASSUME NEW t \in Tables, NEW w, NEW v, NEW n \in Seq(Node), n # <<>>,
           Pending(w) = n, Pending(v) = Tail(n),
           NEW u \in Tables, Appends(t, u, hash_func(n[1].key), n[1])
    PROVE  ListIn(u, v) = ListIn(t, w)
  <1> USE DEF Appends
  <1> DEFINE x == n[1]
             m == Tail(n)
             g == hash_func(x.key)
  <1>1. x \in Node /\ m \in Seq(Node) /\ Len(n) \in Nat OBVIOUS
  <1>2. x.key \in Keys BY <1>1 DEF Node
  <1>3. g \in Bucket BY <1>2, HashInRange
  <1>4. ListIn(u, v) \in [Keys -> Seq(Entry)] BY <1>1, ListType
  <1>5. ListIn(t, w) \in [Keys -> Seq(Entry)] BY ListType
  <1>6. ASSUME NEW k \in Keys PROVE ListIn(u, v)[k] = ListIn(t, w)[k]
    <2> DEFINE h == hash_func(k)
               a == OfKey(t[h], k)
               y == OfKey(<<x>>, k)
               z == OfKey(m, k)
    <2>1. h \in Bucket /\ t[h] \in Seq(Node) /\ a \in Seq(Node)
          /\ ListIn(t, w)[k] = Entries(a \o OfKey(n, k))
      BY ListNodes
    <2>2. z \in Seq(Node) /\ ListIn(u, v)[k] = Entries(OfKey(u[h], k) \o z)
      <3>1. Pending(v) = m /\ Pending(v) \in Seq(Node) BY <1>1
      <3> HIDE DEF m
      <3>2. OfKey(Pending(v), k) \in Seq(Node)
            /\ ListIn(u, v)[k] = Entries(OfKey(u[h], k) \o OfKey(Pending(v), k))
        BY <3>1, ListNodes
      <3> QED BY <3>1, <3>2
    <2>3. OfKey(n, k) = y \o z BY OfKeyHead
    <2>4. y = IF x.key = k THEN <<x>> ELSE <<>> BY OfKeyOne
    <2>5. OfKey(u[h], k) = a \o y
      <3>1. CASE h = g
        <4>1. u[h] = Append(t[h], x) BY <1>3, <3>1 DEF Tables
        <4> DEFINE b == t[h]
        <4>2. OfKey(Append(b, x), k) = IF x.key = k THEN Append(OfKey(b, k), x) ELSE OfKey(b, k)
          <5>1. b \in Seq(Node) /\ x \in Node BY <1>1, <2>1
          <5> HIDE DEF b, x
          <5> QED BY <5>1, OfKeyAppend
        <4>3. Append(a, x) = a \o <<x>> /\ a \o <<>> = a
          <5>1. a \in Seq(Node) /\ x \in Node BY <1>1, <2>1
          <5> HIDE DEF a, x
          <5>2. Append(a, x) = a \o <<x>> BY <5>1
          <5>3. a \o <<>> = a BY <5>1
          <5> QED BY <5>2, <5>3
        <4> HIDE DEF x, y, a, h
        <4> QED BY <2>4, <4>1, <4>2, <4>3 DEF a
      <3>2. CASE h # g
        <4>1. u[h] = t[h] /\ x.key # k BY <1>3, <2>1, <3>2 DEF Tables
        <4>2. a \o <<>> = a
          <5> HIDE DEF a
          <5> QED BY <2>1
        <4>3. y = <<>> BY <2>4, <4>1
        <4> QED BY <4>1, <4>2, <4>3
      <3> QED BY <3>1, <3>2
    <2>6. y \in Seq(Node)
      <3> HIDE DEF x, y
      <3>1. <<x>> \in Seq(Node) /\ <<>> \in Seq(Node) BY <1>1
      <3> QED BY <2>4, <3>1
    <2> HIDE DEF a, y, z
    <2>7. a \in Seq(Node) /\ z \in Seq(Node) BY <2>1, <2>2
    <2>8. (a \o y) \o z = a \o (y \o z) BY <2>6, <2>7, SMTT(30)
    <2> QED BY <2>1, <2>2, <2>3, <2>5, <2>8
  <1> QED BY <1>4, <1>5, <1>6, SameLists

----------------------------------------------------------------------------

\* StoreInv holds in every state of every replica group: every node stays in
\* the bucket its key hashes to, whatever requests and checkpoints change the
\* table, and a thread in search_list's loop never leaves it.
THEOREM StoreInvariant == Spec => []StoreInv
  BY InitInv, NextInv, PTL DEF Spec

\* data_size, which sizes the buffer of hash_table_get_all, is the sum of the
\* lengths of the texts in the table in every state, whatever was inserted,
\* unlinked from the middle of a list or rebuilt from a checkpoint: it cannot
\* drift away from the table.
THEOREM SizeIsRight == Spec => []SizeMatches
  <1>1. Init => SizeMatches
    <2> SUFFICES ASSUME Init PROVE SizeMatches
      OBVIOUS
    <2>1. \A r \in Replica : table[r] = Empty /\ data_size[r] = 0 BY DEF Init
    <2> QED BY <2>1, TableLengthEmpty DEF SizeMatches
  <1> QED BY <1>1, InitInv, NextInv, NextSize, PTL DEF Spec

====
