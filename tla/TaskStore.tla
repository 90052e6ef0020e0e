---- MODULE TaskStore ----
(***************************************************************************)
(* db.c and storage.c: the hash table of tasks each server keeps, the      *)
(* requests that change it, and the checkpoints that carry it from one     *)
(* server to another.                                                      *)
(*                                                                         *)
(* Every operation runs with storage_lock held (execute_msg in server.c,   *)
(* the checkpoint senders in chkpt.c), so a request is one step.  The walk *)
(* over the table that writes a checkpoint and the loop that reads one are *)
(* modelled bucket by bucket and record by record, with the lock held.     *)
(*                                                                         *)
(* The replicas execute one sequence of requests, each at its own pace.    *)
(* Nothing in the code makes the order the same on all of them; the        *)
(* properties that compare replicas are about those that share it.         *)
(***************************************************************************)
EXTENDS Integers, Sequences, SequencesExt

CONSTANTS
    Replica,         \* the servers
    hash_table_len,  \* the number of buckets
    Keys,            \* the keys a client may name in a request
    Task,            \* the texts of tasks
    KeyOf,           \* generate_key: the SHA-1 of a text, cut to 64 bits
    TaskLen,         \* task_len, the length of a text
    Status,          \* what a task_status field can hold
    MaxRequests,     \* bound on the requests of the clients
    MaxTaken         \* bound on the checkpoints taken

ASSUME LenAssumption == hash_table_len \in Nat \ {0}
ASSUME KeysAssumption == Keys \subseteq Nat \ {0}
ASSUME KeyOfAssumption == KeyOf \in [Task -> Keys \cup {0}]
ASSUME TaskLenAssumption == TaskLen \in [Task -> Nat \ {0}]
ASSUME BoundsAssumption == MaxRequests \in Nat /\ MaxTaken \in Nat

VARIABLES
    table,      \* table[r][b]: the nodes from htable->data[b] on, in order
    data_size,  \* htable->data_size
    ret,        \* what handle_storage returned last
    looping,    \* a thread is in search_list's loop for ever, lock held
    walk,       \* the checkpoint being written or read, lock held
    files,      \* the checkpoints sent to a replica and not yet executed
    taken,      \* how many checkpoints have been taken
    requests,   \* the requests of the clients, in the order of execution
    done        \* how many of them r's table stands for

vars == <<table, data_size, ret, looping, walk, files, taken, requests, done>>

Bucket == 0 .. hash_table_len - 1

hash_func(val) == val % hash_table_len

Node == [key : Keys, task : Task, status : Status]
Record == [key : Keys, task : Task]

Idle == [op |-> "none"]

\* Faulty variant: search_list runs without the lock.
Free_unlocked(r) == walk[r] = Idle

\* storage_lock can be taken.
Free(r) == ~looping[r] /\ walk[r] = Idle

Empty == [b \in Bucket |-> <<>>]

\* MSG_GET_ALL, like INVALID and MSG_HEARTBEAT, returns 0 and a type without
\* a case -1; none of them changes the table.
Request ==
    [type : {"ADD"}, task : Task]
    \cup [type : {"REMOVE"}, key : Keys]
    \cup [type : {"MODIFY"}, key : Keys, status : Status]
    \cup [type : {"GET_ALL", "UNKNOWN"}]

Init ==
    /\ table = [r \in Replica |-> Empty]
    /\ data_size = [r \in Replica |-> 0]
    /\ ret = [r \in Replica |-> 0]
    /\ looping = [r \in Replica |-> FALSE]
    /\ walk = [r \in Replica |-> Idle]
    /\ files = {}
    /\ taken = 0
    /\ requests = <<>>
    /\ done = [r \in Replica |-> 0]

\* q is the request replica r handles next, and the lock is free: any
\* request of a client if no replica has gone this far, else the same.
Handles(r, q) ==
    /\ Free(r)
    /\ IF done[r] = Len(requests)
         THEN done[r] < MaxRequests /\ requests' = Append(requests, q)
         ELSE q = requests[done[r] + 1] /\ UNCHANGED requests
    /\ done' = [done EXCEPT ![r] = @ + 1]
    /\ UNCHANGED <<walk, files, taken>>

Return(r, result) == ret' = [ret EXCEPT ![r] = result] /\ UNCHANGED looping

----------------------------------------------------------------------------
(* MSG_ADD *)

\* hash_table_insert with insert_data_point: the new node goes to the end of
\* its bucket, also if its key is there already.
hash_table_insert(r, node) ==
    /\ table' = [table EXCEPT ![r][hash_func(node.key)] = Append(@, node)]
    /\ data_size' = [data_size EXCEPT ![r] = @ + TaskLen[node.task]]

\* The status field of a new node is whatever malloc returned.
handle_storage_add(r, q) ==
    /\ q.type = "ADD" /\ KeyOf[q.task] # 0
    /\ \E st \in Status :
           hash_table_insert(r, [key |-> KeyOf[q.task], task |-> q.task,
                                 status |-> st])
    /\ Return(r, 0)

\* Key 0 is refused.
handle_storage_add_refused(r, q) ==
    /\ q.type = "ADD" /\ KeyOf[q.task] = 0
    /\ Return(r, -1)
    /\ UNCHANGED <<table, data_size>>

----------------------------------------------------------------------------
(* MSG_REMOVE *)

\* The node at position p is the first of bucket b with key k.
FirstAt(b, k, p) ==
    /\ p \in DOMAIN b /\ b[p].key = k
    /\ \A i \in DOMAIN b : i < p => b[i].key # k

\* Faulty variant: the node before the match is unlinked.
hash_table_delete_prev(r, k) ==
    LET h == hash_func(k) IN
    \E p \in DOMAIN table[r][h] :
        /\ FirstAt(table[r][h], k, p)
        /\ table' = [table EXCEPT ![r][h] = RemoveAt(@, IF p = 1 THEN 1 ELSE p - 1)]
        /\ data_size' = [data_size EXCEPT ![r] = @ - TaskLen[table[r][h][p].task]]

\* Faulty variant: data_size is not counted down.
hash_table_delete_uncounted(r, k) ==
    LET h == hash_func(k) IN
    \E p \in DOMAIN table[r][h] :
        /\ FirstAt(table[r][h], k, p)
        /\ table' = [table EXCEPT ![r][h] = RemoveAt(@, p)]
        /\ UNCHANGED data_size

\* hash_table_delete: the first node with the key is unlinked and freed.
hash_table_delete(r, k) ==
    LET h == hash_func(k) IN
    \E p \in DOMAIN table[r][h] :
        /\ FirstAt(table[r][h], k, p)
        /\ table' = [table EXCEPT ![r][h] = RemoveAt(@, p)]
        /\ data_size' = [data_size EXCEPT ![r] = @ - TaskLen[table[r][h][p].task]]

handle_storage_remove(r, q) ==
    /\ q.type = "REMOVE"
    /\ hash_table_delete(r, q.key)
    /\ Return(r, 0)

handle_storage_remove_absent(r, q) ==
    /\ q.type = "REMOVE"
    /\ LET b == table[r][hash_func(q.key)] IN \A i \in DOMAIN b : b[i].key # q.key
    /\ Return(r, -1)
    /\ UNCHANGED <<table, data_size>>

----------------------------------------------------------------------------
(* MSG_MODIFY *)

\* search_list looks at the head of the bucket only and never moves on: it
\* finds a key that is the head's, answers NULL for an empty bucket, ...
Finds(r, k) ==
    table[r][hash_func(k)] # <<>> /\ table[r][hash_func(k)][1].key = k

\* ... and does not return when the head has another key.
Loops(r, k) ==
    table[r][hash_func(k)] # <<>> /\ table[r][hash_func(k)][1].key # k

handle_storage_modify(r, q) ==
    /\ q.type = "MODIFY" /\ Finds(r, q.key)
    /\ table' = [table EXCEPT ![r][hash_func(q.key)][1].status = q.status]
    /\ Return(r, 0)
    /\ UNCHANGED data_size

\* The -1 of hash_table_modify is not looked at: the client is told OK.
handle_storage_modify_absent(r, q) ==
    /\ q.type = "MODIFY" /\ table[r][hash_func(q.key)] = <<>>
    /\ Return(r, 0)
    /\ UNCHANGED <<table, data_size>>

handle_storage_modify_loop(r, q) ==
    /\ q.type = "MODIFY" /\ Loops(r, q.key)
    /\ looping' = [looping EXCEPT ![r] = TRUE]
    /\ UNCHANGED <<table, data_size, ret>>

handle_storage_other(r, q) ==
    /\ q.type \in {"GET_ALL", "UNKNOWN"}
    /\ Return(r, IF q.type = "UNKNOWN" THEN -1 ELSE 0)
    /\ UNCHANGED <<table, data_size>>

----------------------------------------------------------------------------
(* Checkpoints *)

\* export_db_internal opens a file of a name of its own.
export_db_begin(r) ==
    /\ Free(r)
    /\ taken < MaxTaken /\ taken' = taken + 1
    /\ walk' = [walk EXCEPT ![r] = [op |-> "export", index |-> 0, out |-> <<>>]]
    /\ UNCHANGED <<table, data_size, ret, looping, files, requests, done>>

\* What is written of a node and read back: the status is printed as the
\* address of its name and skipped by the reader.
ToRecord(node) == [key |-> node.key, task |-> node.task]

\* One round of the loop over the buckets.
export_db_bucket(r) ==
    /\ walk[r].op = "export" /\ walk[r].index < hash_table_len
    /\ LET b == table[r][walk[r].index] IN
           walk' = [walk EXCEPT
                       ![r].out = @ \o [i \in DOMAIN b |-> ToRecord(b[i])],
                       ![r].index = @ + 1]
    /\ UNCHANGED <<table, data_size, ret, looping, files, taken, requests, done>>

\* FILE_END is written, the lock released, and write_check_point sends the
\* file to the other replicas.
export_db_end(r) ==
    /\ walk[r].op = "export" /\ walk[r].index = hash_table_len
    /\ files' = files \cup {[to |-> s, records |-> walk[r].out, done |-> done[r]] :
                              s \in Replica \ {r}}
    /\ walk' = [walk EXCEPT ![r] = Idle]
    /\ UNCHANGED <<table, data_size, ret, looping, taken, requests, done>>

\* Faulty variant: the old table is kept.
import_db_keep(r) ==
    UNCHANGED <<table, data_size>>

\* hash_table_deinit and hash_table_init.
import_db_clear(r) ==
    /\ table' = [table EXCEPT ![r] = Empty]
    /\ data_size' = [data_size EXCEPT ![r] = 0]

\* MSG_CHK_PT: import_db_internal starts from an empty table and reads the
\* file, which is removed afterwards.  The nodes' statuses are again malloc's.
import_db_begin(r) ==
    /\ Free(r)
    /\ \E f \in {g \in files : g.to = r} : \E st \in [DOMAIN f.records -> Status] :
           /\ walk' = [walk EXCEPT ![r] =
                 [op |-> "import",
                  nodes |-> [i \in DOMAIN f.records |->
                     [key |-> f.records[i].key, task |-> f.records[i].task,
                      status |-> st[i]]]]]
           /\ files' = files \ {f}
           /\ done' = [done EXCEPT ![r] = f.done]
    /\ import_db_clear(r)
    /\ UNCHANGED <<ret, looping, taken, requests>>

\* DATA_END: the record that has been read is inserted.
import_db_record(r) ==
    /\ walk[r].op = "import" /\ walk[r].nodes # <<>>
    /\ hash_table_insert(r, Head(walk[r].nodes))
    /\ walk' = [walk EXCEPT ![r].nodes = Tail(@)]
    /\ UNCHANGED <<ret, looping, files, taken, requests, done>>

\* FILE_END: handle_storage returns.
import_db_end(r) ==
    /\ walk[r].op = "import" /\ walk[r].nodes = <<>>
    /\ walk' = [walk EXCEPT ![r] = Idle]
    /\ ret' = [ret EXCEPT ![r] = 0]
    /\ UNCHANGED <<table, data_size, looping, files, taken, requests, done>>

handle_storage(r) ==
    \/ \E q \in Request :
           /\ Handles(r, q)
           /\ \/ handle_storage_add(r, q) \/ handle_storage_add_refused(r, q)
              \/ handle_storage_remove(r, q) \/ handle_storage_remove_absent(r, q)
              \/ handle_storage_modify(r, q) \/ handle_storage_modify_absent(r, q)
              \/ handle_storage_modify_loop(r, q)
              \/ handle_storage_other(r, q)
    \/ import_db_begin(r) \/ import_db_record(r) \/ import_db_end(r)

export_db(r) == export_db_begin(r) \/ export_db_bucket(r) \/ export_db_end(r)

Next == \E r \in Replica : handle_storage(r) \/ export_db(r)

Spec == Init /\ [][Next]_vars

----------------------------------------------------------------------------
(* Properties *)

Walk ==
    {Idle}
    \cup [op : {"export"}, index : 0 .. hash_table_len, out : Seq(Record)]
    \cup [op : {"import"}, nodes : Seq(Node)]

\* Every variable keeps its type.
TypeOK ==
    /\ table \in [Replica -> [Bucket -> Seq(Node)]]
    /\ data_size \in [Replica -> Int]
    /\ ret \in [Replica -> {0, -1}]
    /\ looping \in [Replica -> BOOLEAN]
    /\ walk \in [Replica -> Walk]
    /\ \A f \in files :
           f.to \in Replica /\ f.records \in Seq(Record) /\ f.done \in 0 .. Len(requests)
    /\ taken \in 0 .. MaxTaken
    /\ requests \in Seq(Request)
    /\ done \in [Replica -> 0 .. Len(requests)]

\* Every node is in the bucket its key hashes to, through insertions,
\* removals in the middle of a list and the rebuilding from a checkpoint:
\* otherwise a later request for its key would not find it.
Placed ==
    \A r \in Replica : \A b \in Bucket : \A i \in DOMAIN table[r][b] :
        hash_func(table[r][b][i].key) = b

\* A thread in search_list's loop never leaves it: the head of the bucket it
\* looks at keeps its other key, because the thread holds the lock for ever.
LoopIsForEver ==
    \A r \in Replica : looping[r] =>
        /\ walk[r] = Idle
        /\ done[r] > 0
        /\ LET q == requests[done[r]] IN q.type = "MODIFY" /\ Loops(r, q.key)

\* The inductive invariant: types, placement, and threads that loop.
StoreInv == TypeOK /\ Placed /\ LoopIsForEver

\* f[1] + ... + f[N]
Sum(f, N) ==
    LET sum[n \in 0 .. N] == IF n = 0 THEN 0 ELSE sum[n - 1] + f[n] IN sum[N]

TextLength(s) == Sum([i \in DOMAIN s |-> TaskLen[s[i].task]], Len(s))

TableLength(t) ==
    Sum([n \in 1 .. hash_table_len |-> TextLength(t[n - 1])], hash_table_len)

\* data_size is the sum of the lengths of the texts in the table, also in
\* the middle of an import: hash_table_get_all's buffer is sized by it.
SizeMatches == \A r \in Replica : data_size[r] = TableLength(table[r])

Content(r) == [b \in Bucket |-> [i \in DOMAIN table[r][b] |-> ToRecord(table[r][b][i])]]

\* Replicas whose tables stand for the same requests in the same order hold
\* the same keys and texts, in the same places, and hang at the same request,
\* wherever checkpoints replaced the execution of requests.  (Their statuses
\* may differ: nobody initialises or transfers them.)
Agreement ==
    \A r, s \in Replica :
        done[r] = done[s] /\ walk[r] = Idle /\ walk[s] = Idle
            => Content(r) = Content(s) /\ looping[r] = looping[s]

\* The elements of s with key k, in order.
OfKey(s, k) ==
    LET found[n \in 0 .. Len(s)] ==
            IF n = 0 THEN <<>>
            ELSE IF s[n].key = k THEN Append(found[n - 1], s[n]) ELSE found[n - 1]
    IN  found[Len(s)]

\* What a list of tasks says of a node, and a checkpoint of a record.
Entries(s) == [i \in DOMAIN s |-> [task |-> s[i].task, status |-> s[i].status]]
TasksIn(s) == [i \in DOMAIN s |-> s[i].task]

\* For each key its nodes, oldest first; those that walk w has read from a
\* checkpoint and not yet inserted into table t count.
Pending(w) == IF w.op = "import" THEN w.nodes ELSE <<>>
ListIn(t, w) == [k \in Keys |-> Entries(OfKey(t[hash_func(k)] \o Pending(w), k))]
Lists == [r \in Replica |-> ListIn(table[r], walk[r])]

\* A checkpoint file is a list of texts for each key.
SavedIn(f) ==
    [to |-> f.to, texts |-> [k \in Keys |-> TasksIn(OfKey(f.records, k))], done |-> f.done]
Saved == {SavedIn(f) : f \in files}

Abstract == INSTANCE TaskList WITH list <- Lists, saved <- Saved, stuck <- looping

\* The table with its buckets, and the files with their records, implement
\* one list of tasks per key: a request for one key never touches the tasks
\* of another, a removal takes the oldest, each is answered as it should, and
\* a checkpoint carries all texts.
IsTaskList == Abstract!ListSpec

====
