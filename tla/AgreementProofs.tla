---- MODULE AgreementProofs ----
(***************************************************************************)
(* Agreement of the replicas' tables, and that they implement the lists of *)
(* TaskList, for any number of replicas, buckets, keys and requests.       *)
(*                                                                         *)
(* The invariant names the history of the table: h[n] is what a table      *)
(* holds after the first n requests.  A replica at rest holds h[done[r]];  *)
(* a checkpoint file holds the records of h[f.done], bucket by bucket; and *)
(* a walk is somewhere in between.  The history is not a variable, so the  *)
(* invariant says that there is one.  For the refinement the same          *)
(* invariant shows that a file has the texts of the list it was taken of,  *)
(* and that no two files on their way to a replica can be confused.        *)
(***************************************************************************)
EXTENDS TaskStoreProofs

\* What a checkpoint keeps of a list of nodes, and of a table.
Records(s) == [i \in DOMAIN s |-> ToRecord(s[i])]
ContentOf(t) == [b \in Bucket |-> Records(t[b])]

\* The contents a table can have.
Contents ==
    {c \in [Bucket -> Seq(Record)] :
        \A b \in Bucket : \A i \in 1 .. Len(c[b]) : hash_func(c[b][i].key) = b}

Adds(q) == q.type = "ADD" /\ KeyOf[q.task] # 0
Removes(c, q) ==
    /\ q.type = "REMOVE"
    /\ \E p \in DOMAIN c[hash_func(q.key)] : c[hash_func(q.key)][p].key = q.key

\* Request q takes content c to content d.
After(c, q, d) ==
    \/ /\ Adds(q)
       /\ d = [c EXCEPT ![hash_func(KeyOf[q.task])] =
                   Append(@, [key |-> KeyOf[q.task], task |-> q.task])]
    \/ /\ q.type = "REMOVE"
       /\ \E p \in DOMAIN c[hash_func(q.key)] :
              /\ FirstAt(c[hash_func(q.key)], q.key, p)
              /\ d = [c EXCEPT ![hash_func(q.key)] = RemoveAt(@, p)]
    \/ ~Adds(q) /\ ~Removes(c, q) /\ d = c

\* Request q does not return on content c.
Hangs(c, q) ==
    /\ q.type = "MODIFY"
    /\ c[hash_func(q.key)] # <<>> /\ c[hash_func(q.key)][1].key # q.key

\* h[n] is the content after the first n requests of rq.
IsHistory(h, rq) ==
    /\ h \in [0 .. Len(rq) -> Contents]
    /\ h[0] = Empty
    /\ \A n \in 1 .. Len(rq) : After(h[n - 1], rq[n], h[n])

Hung(h, rq, n) == n > 0 /\ Hangs(h[n], rq[n])

\* Of each bucket b, recs holds what follows the first l[b] records of c[b],
\* in one piece that starts after position o[b]; it holds nothing else.
FlatBy(o, recs, c, l) ==
    /\ \A b \in Bucket :
           /\ o[b] + (Len(c[b]) - l[b]) <= Len(recs)
           /\ \A i \in 1 .. Len(c[b]) - l[b] : recs[o[b] + i] = c[b][l[b] + i]
    /\ \A p \in 1 .. Len(recs) :
           LET b == hash_func(recs[p].key)
           IN  o[b] < p /\ p <= o[b] + (Len(c[b]) - l[b])

Flat(recs, c, l) == \E o \in [Bucket -> Nat] : FlatBy(o, recs, c, l)

None == [b \in Bucket |-> 0]

\* out is what the loop over the buckets has written of content c in its first
\* n rounds; w[i] is what it had written after round i.
Rounds(w, c, n) ==
    /\ w \in [0 .. n -> Seq(Record)]
    /\ w[0] = <<>>
    /\ \A i \in 1 .. n : w[i] = w[i - 1] \o c[i - 1]

Written(out, c, n) == \E w : Rounds(w, c, n) /\ out = w[n]

\* The table t of a replica with walk w stands for content c.
Stands(c, t, w) ==
    /\ w.op # "import" => ContentOf(t) = c
    /\ w.op = "export" => Written(w.out, c, w.index)
    /\ w.op = "import" =>
           /\ \A b \in Bucket :
                  /\ Len(t[b]) <= Len(c[b])
                  /\ \A i \in 1 .. Len(t[b]) : ToRecord(t[b][i]) = c[b][i]
           /\ Flat(Records(w.nodes), c, [b \in Bucket |-> Len(t[b])])

\* Replicas and files stand for points of the history h.
ReplicasStand(h) ==
    \A r \in Replica :
        /\ Stands(h[done[r]], table[r], walk[r])
        /\ looping[r] <=> Hung(h, requests, done[r])

FileStands(f, h, rq) ==
    /\ f = [to |-> f.to, records |-> f.records, done |-> f.done]
    /\ ~Hung(h, rq, f.done)
    /\ Written(f.records, h[f.done], hash_table_len)

FilesStand(h) == \A f \in files : FileStands(f, h, requests)

HistoryInv == \E h : IsHistory(h, requests) /\ ReplicasStand(h) /\ FilesStand(h)

----------------------------------------------------------------------------
(* Lists of nodes and of records *)

\* A bucket is saved record by record, in order.
LEMMA RecordsIsSeq ==
    ASSUME NEW s \in Seq(Node)
    PROVE  /\ Records(s) \in Seq(Record)
           /\ Len(Records(s)) = Len(s) /\ DOMAIN Records(s) = 1 .. Len(s)
           /\ \A i \in 1 .. Len(s) : /\ Records(s)[i] = ToRecord(s[i])
                                     /\ Records(s)[i].key = s[i].key
                                     /\ s[i] \in Node
  <1>1. Len(s) \in Nat /\ DOMAIN s = 1 .. Len(s) OBVIOUS
  <1>2. ASSUME NEW i \in 1 .. Len(s)
        PROVE  s[i] \in Node /\ ToRecord(s[i]) \in Record /\ ToRecord(s[i]).key = s[i].key
    <2>1. s[i] \in Node OBVIOUS
    <2> QED BY <2>1 DEF Node, Record, ToRecord
  <1>3. Records(s) = [i \in 1 .. Len(s) |-> ToRecord(s[i])] BY <1>1 DEF Records
  <1> QED BY <1>1, <1>2, <1>3

\* Adding a node adds its record at the end.
LEMMA RecordsAppend ==
    ASSUME NEW s \in Seq(Node), NEW x \in Node
    PROVE  Records(Append(s, x)) = Append(Records(s), ToRecord(x))
  <1> DEFINE a == Append(s, x)
             b == Append(Records(s), ToRecord(x))
  <1>1. a \in Seq(Node) /\ Len(a) = Len(s) + 1 /\ Len(s) \in Nat
        /\ (\A i \in 1 .. Len(s) : a[i] = s[i]) /\ a[Len(s) + 1] = x
    OBVIOUS
  <1>2. ToRecord(x) \in Record BY DEF ToRecord, Node, Record
  <1>3. Records(s) \in Seq(Record) /\ Len(Records(s)) = Len(s)
        /\ \A i \in 1 .. Len(s) : Records(s)[i] = ToRecord(s[i])
    BY RecordsIsSeq
  <1>4. b \in Seq(Record) /\ Len(b) = Len(s) + 1
        /\ (\A i \in 1 .. Len(s) : b[i] = ToRecord(s[i]))
        /\ b[Len(s) + 1] = ToRecord(x)
    BY <1>1, <1>2, <1>3
  <1> HIDE DEF a, b
  <1>5. Records(a) \in Seq(Record) /\ Len(Records(a)) = Len(s) + 1
        /\ \A i \in 1 .. Len(s) + 1 : Records(a)[i] = ToRecord(a[i])
    BY <1>1, RecordsIsSeq
  <1>6. \A i \in 1 .. Len(s) + 1 : Records(a)[i] = b[i]
    BY <1>1, <1>4, <1>5
  <1>7. Records(a) = b BY <1>4, <1>5, <1>6, SameList
  <1> QED BY <1>7 DEF a, b

\* Removing a node removes its record.
LEMMA RecordsRemoveAt ==
    ASSUME NEW s \in Seq(Node), NEW p \in 1 .. Len(s)
    PROVE  Records(RemoveAt(s, p)) = RemoveAt(Records(s), p)
  <1> DEFINE a == RemoveAt(s, p)
             b == RemoveAt(Records(s), p)
  <1>1. Records(s) \in Seq(Record) /\ Len(Records(s)) = Len(s)
        /\ \A i \in 1 .. Len(s) : Records(s)[i] = ToRecord(s[i])
    BY RecordsIsSeq
  <1>2. a \in Seq(Node) /\ Len(a) = Len(s) - 1
        /\ \A i \in 1 .. Len(s) - 1 : a[i] = IF i < p THEN s[i] ELSE s[i + 1]
    BY RemoveAtElements
  <1>3. b \in Seq(Record) /\ Len(b) = Len(s) - 1
        /\ \A i \in 1 .. Len(s) - 1 :
               b[i] = IF i < p THEN Records(s)[i] ELSE Records(s)[i + 1]
    <2> HIDE DEF b
    <2>1. \A t \in Seq(Record) : \A n \in 1 .. Len(t) :
              /\ RemoveAt(t, n) \in Seq(Record)
              /\ Len(RemoveAt(t, n)) = Len(t) - 1
              /\ \A i \in 1 .. Len(t) - 1 :
                     RemoveAt(t, n)[i] = IF i < n THEN t[i] ELSE t[i + 1]
      BY RemoveAtElements
    <2> QED BY <1>1, <2>1 DEF b
  <1> HIDE DEF a, b
  <1>4. Records(a) \in Seq(Record) /\ Len(Records(a)) = Len(s) - 1
        /\ \A i \in 1 .. Len(s) - 1 : Records(a)[i] = ToRecord(a[i])
    BY <1>2, RecordsIsSeq
  <1>5. ASSUME NEW i \in 1 .. Len(s) - 1 PROVE Records(a)[i] = b[i]
    <2>1. i \in 1 .. Len(s) /\ i + 1 \in 1 .. Len(s) OBVIOUS
    <2> QED BY <1>1, <1>2, <1>3, <1>4, <2>1
  <1>6. Records(a) = b BY <1>3, <1>4, <1>5, SameList
  <1> QED BY <1>6 DEF a, b

----------------------------------------------------------------------------
(* One request *)

\* A well-placed table holds well-placed records.
LEMMA ContentIsContent ==
    ASSUME NEW t \in [Bucket -> Seq(Node)],
           \A b \in Bucket : \A i \in DOMAIN t[b] : hash_func(t[b][i].key) = b
    PROVE  ContentOf(t) \in Contents
  <1>1. ASSUME NEW b \in Bucket
        PROVE  /\ Records(t[b]) \in Seq(Record)
               /\ \A i \in 1 .. Len(Records(t[b])) : hash_func(Records(t[b])[i].key) = b
    <2>1. t[b] \in Seq(Node) OBVIOUS
    <2>2. DOMAIN t[b] = 1 .. Len(t[b]) BY <2>1
    <2> QED BY <2>1, <2>2, RecordsIsSeq
  <1> QED BY <1>1 DEF ContentOf, Contents

\* A request has one effect on a content.
LEMMA AfterIsFunction ==
    ASSUME NEW c \in Contents, NEW q \in Request, NEW d, NEW e,
           After(c, q, d), After(c, q, e)
    PROVE  d = e
  <1>1. CASE Adds(q) BY <1>1 DEF After, Adds
  <1>2. CASE Removes(c, q)
    <2> DEFINE s == c[hash_func(q.key)]
    <2>1. q.type = "REMOVE" /\ ~Adds(q) /\ q.key \in Keys
      BY <1>2 DEF Removes, Adds, Request
    <2>2. s \in Seq(Record) BY <2>1, HashInRange DEF Contents
    <2>3. DOMAIN s \subseteq Nat BY <2>2
    <2>4. PICK p \in DOMAIN s : FirstAt(s, q.key, p)
                                /\ d = [c EXCEPT ![hash_func(q.key)] = RemoveAt(@, p)]
      BY <1>2, <2>1 DEF After
    <2>5. PICK n \in DOMAIN s : FirstAt(s, q.key, n)
                                /\ e = [c EXCEPT ![hash_func(q.key)] = RemoveAt(@, n)]
      BY <1>2, <2>1 DEF After
    <2>6. p = n
      <3>1. p \in Nat /\ n \in Nat BY <2>3
      <3>2. ~(p < n) /\ ~(n < p) BY <2>4, <2>5 DEF FirstAt
      <3> QED BY <3>1, <3>2
    <2> QED BY <2>4, <2>5, <2>6
  <1>3. CASE ~Adds(q) /\ ~Removes(c, q)
    BY <1>3 DEF After, Removes, FirstAt
  <1> QED BY <1>1, <1>2, <1>3

\* An ADD changes the records as the history says, whatever the replica holds besides.
LEMMA AddIsAfter ==
    ASSUME TableOK, NEW r \in Replica, NEW q \in Request, handle_storage_add(r, q)
    PROVE  /\ After(ContentOf(table[r]), q, ContentOf(table'[r]))
           /\ q.type = "ADD"
  <1>1. PICK st \in Status :
            hash_table_insert(r, [key |-> KeyOf[q.task], task |-> q.task, status |-> st])
    BY DEF handle_storage_add
  <1> DEFINE x == [key |-> KeyOf[q.task], task |-> q.task, status |-> st]
             k == KeyOf[q.task]
             h == hash_func(k)
             t == table[r]
  <1>2. q.type = "ADD" /\ q.task \in Task /\ k \in Keys /\ k # 0
    BY KeyOfAssumption DEF handle_storage_add, Request
  <1>3. x \in Node BY <1>2 DEF Node
  <1>4. h \in Bucket BY <1>2, HashInRange
  <1>5. t \in [Bucket -> Seq(Node)] BY DEF TableOK
  <1>6. table' = [table EXCEPT ![r][h] = Append(@, x)]
    BY <1>1 DEF hash_table_insert
  <1>7. ToRecord(x) = [key |-> k, task |-> q.task] BY DEF ToRecord
  <1>8. Adds(q) BY <1>2 DEF Adds
  <1> HIDE DEF x, h, k
  <1>9. table'[r] = [t EXCEPT ![h] = Append(t[h], x)]
    BY <1>6 DEF TableOK
  <1>10. t[h] \in Seq(Node) BY <1>4, <1>5
  <1>11. Records(Append(t[h], x)) = Append(Records(t[h]), ToRecord(x))
    BY <1>3, <1>10, RecordsAppend
  <1>12. ContentOf(table'[r]) = [ContentOf(t) EXCEPT ![h] = Records(Append(t[h], x))]
    BY <1>4, <1>5, <1>9 DEF ContentOf
  <1>13. ContentOf(t)[h] = Records(t[h]) BY <1>4 DEF ContentOf
  <1>14. ContentOf(table'[r])
           = [ContentOf(t) EXCEPT ![h] = Append(@, [key |-> k, task |-> q.task])]
    BY <1>7, <1>11, <1>12, <1>13
  <1> QED BY <1>2, <1>8, <1>14 DEF After, h, k

\* So does a REMOVE.
LEMMA RemoveIsAfter ==
    ASSUME TableOK, NEW r \in Replica, NEW q \in Request, handle_storage_remove(r, q)
    PROVE  /\ After(ContentOf(table[r]), q, ContentOf(table'[r]))
           /\ q.type = "REMOVE"
  <1> DEFINE h == hash_func(q.key)
             t == table[r]
             c == ContentOf(t)
  <1>1. q.type = "REMOVE" /\ q.key \in Keys /\ hash_table_delete(r, q.key)
    BY DEF handle_storage_remove, Request
  <1>2. PICK p \in DOMAIN t[h] :
            /\ FirstAt(t[h], q.key, p)
            /\ table' = [table EXCEPT ![r][h] = RemoveAt(@, p)]
    BY <1>1 DEF hash_table_delete
  <1>3. h \in Bucket BY <1>1, HashInRange
  <1>4. t \in [Bucket -> Seq(Node)] BY DEF TableOK
  <1> HIDE DEF h
  <1>5. t[h] \in Seq(Node) BY <1>3, <1>4
  <1>6. p \in 1 .. Len(t[h]) BY <1>2, <1>5
  <1>7. table'[r] = [t EXCEPT ![h] = RemoveAt(t[h], p)]
    BY <1>2 DEF TableOK
  <1>8. Records(RemoveAt(t[h], p)) = RemoveAt(Records(t[h]), p)
    BY <1>5, <1>6, RecordsRemoveAt
  <1>9. c[h] = Records(t[h]) BY <1>3 DEF ContentOf
  <1>10. ContentOf(table'[r]) = [c EXCEPT ![h] = RemoveAt(@, p)]
    BY <1>3, <1>4, <1>7, <1>8, <1>9 DEF ContentOf
  <1>11. p \in DOMAIN c[h] /\ FirstAt(c[h], q.key, p)
    <2>1. DOMAIN c[h] = 1 .. Len(t[h])
          /\ \A i \in 1 .. Len(t[h]) : c[h][i].key = t[h][i].key
      BY <1>5, <1>9, RecordsIsSeq
    <2>2. DOMAIN t[h] = 1 .. Len(t[h]) BY <1>5
    <2> HIDE DEF c
    <2> QED BY <1>2, <1>6, <2>1, <2>2 DEF FirstAt
  <1> HIDE DEF c
  <1>12. After(c, q, ContentOf(table'[r]))
    BY <1>1, <1>10, <1>11 DEF After, h
  <1> QED BY <1>1, <1>12 DEF c

\* The contents of bucket h have what the nodes have.
LEMMA ContentBucket ==
    ASSUME NEW t \in [Bucket -> Seq(Node)], NEW h \in Bucket
    PROVE  /\ ContentOf(t)[h] = Records(t[h])
           /\ ContentOf(t)[h] \in Seq(Record)
           /\ Len(ContentOf(t)[h]) = Len(t[h])
           /\ DOMAIN ContentOf(t)[h] = 1 .. Len(t[h]) /\ DOMAIN t[h] = 1 .. Len(t[h])
           /\ \A i \in 1 .. Len(t[h]) : ContentOf(t)[h][i].key = t[h][i].key
           /\ ContentOf(t)[h] = <<>> <=> t[h] = <<>>
           /\ t[h] # <<>> => ContentOf(t)[h][1].key = t[h][1].key
  <1>1. t[h] \in Seq(Node) OBVIOUS
  <1>2. ContentOf(t)[h] = Records(t[h]) BY DEF ContentOf
  <1> DEFINE s == t[h]
             c == ContentOf(t)[h]
  <1>3. s \in Seq(Node) /\ c \in Seq(Record) /\ Len(c) = Len(s)
        /\ DOMAIN c = 1 .. Len(s) /\ DOMAIN s = 1 .. Len(s)
        /\ \A i \in 1 .. Len(s) : c[i].key = s[i].key
    BY <1>1, <1>2, RecordsIsSeq
  <1> HIDE DEF s, c
  <1>4. (c = <<>> <=> s = <<>>) /\ (s # <<>> => 1 \in 1 .. Len(s))
    BY <1>3
  <1> QED BY <1>2, <1>3, <1>4 DEF s, c

\* So does a MODIFY that finds its key, and it does not hang.
LEMMA ModifyIsAfter ==
    ASSUME TableOK, NEW r \in Replica, NEW q \in Request, handle_storage_modify(r, q)
    PROVE  /\ After(ContentOf(table[r]), q, ContentOf(table'[r]))
           /\ ~Hangs(ContentOf(table'[r]), q)
  <1> DEFINE h == hash_func(q.key)
             t == table[r]
             s == t[h]
             x == [s[1] EXCEPT !.status = q.status]
             u == [s EXCEPT ![1] = x]
  <1>1. /\ q.type = "MODIFY" /\ q.key \in Keys /\ q.status \in Status
        /\ s # <<>> /\ s[1].key = q.key
        /\ table' = [table EXCEPT ![r][h][1].status = q.status]
    BY DEF handle_storage_modify, Request, Finds
  <1>2. h \in Bucket BY <1>1, HashInRange
  <1>3. t \in [Bucket -> Seq(Node)] BY DEF TableOK
  <1>4. s \in Seq(Node) BY <1>2, <1>3
  <1>5. 1 \in 1 .. Len(s) /\ s[1] \in Node BY <1>1, <1>4
  <1>6. table'[r] = [t EXCEPT ![h] = u]
    BY <1>1, <1>2, <1>5 DEF TableOK
  <1>7. x \in Node /\ ToRecord(x) = ToRecord(s[1])
    BY <1>1, <1>5 DEF Node, ToRecord
  <1> HIDE DEF x
  <1>8. u \in Seq(Node) /\ Len(u) = Len(s) /\ u[1] = x
        /\ \A i \in 1 .. Len(s) : i # 1 => u[i] = s[i]
    <2> HIDE DEF s
    <2> QED BY <1>4, <1>5, <1>7
  <1> HIDE DEF u, s
  <1>9. \A i \in 1 .. Len(s) : Records(u)[i] = Records(s)[i]
    BY <1>4, <1>7, <1>8, RecordsIsSeq
  <1>10. Records(u) = Records(s)
    BY <1>4, <1>8, <1>9, RecordsIsSeq, SameList
  <1>11. ContentOf(table'[r]) = ContentOf(t)
    <2>1. ContentOf(table'[r]) = [ContentOf(t) EXCEPT ![h] = Records(s)]
      BY <1>2, <1>3, <1>6, <1>10 DEF ContentOf
    <2>2. ContentOf(t)[h] = Records(s) BY <1>2 DEF ContentOf, s
    <2>3. ContentOf(t) = [ContentOf(t) EXCEPT ![h] = ContentOf(t)[h]]
      BY DEF ContentOf
    <2> QED BY <2>1, <2>2, <2>3
  <1>12. ContentOf(t)[h][1].key = q.key
    BY <1>1, <1>2, <1>3, ContentBucket DEF s
  <1> QED BY <1>1, <1>11, <1>12 DEF After, Hangs, Adds, Removes

\* The requests that leave the table as it is.
LEMMA OtherIsAfter ==
    ASSUME TableOK, NEW r \in Replica, NEW q \in Request,
           \/ handle_storage_add_refused(r, q) \/ handle_storage_remove_absent(r, q)
           \/ handle_storage_modify_absent(r, q) \/ handle_storage_modify_loop(r, q)
           \/ handle_storage_other(r, q)
    PROVE  /\ After(ContentOf(table[r]), q, ContentOf(table'[r]))
           /\ table' = table
           /\ Hangs(ContentOf(table'[r]), q) <=> handle_storage_modify_loop(r, q)
  <1> DEFINE t == table[r]
             c == ContentOf(t)
  <1>1. table' = table
    BY DEF handle_storage_add_refused, handle_storage_remove_absent,
           handle_storage_modify_absent, handle_storage_modify_loop,
           handle_storage_other
  <1>2. t \in [Bucket -> Seq(Node)] BY DEF TableOK
  <1>3. ASSUME q.type \in {"REMOVE", "MODIFY"} PROVE hash_func(q.key) \in Bucket
    BY <1>3, HashInRange DEF Request
  <1>4. ~Adds(q)
    BY DEF handle_storage_add_refused, handle_storage_remove_absent,
           handle_storage_modify_absent, handle_storage_modify_loop,
           handle_storage_other, Adds
  <1>5. ~Removes(c, q)
    <2>1. SUFFICES ASSUME q.type = "REMOVE"
                   PROVE  ~\E p \in DOMAIN c[hash_func(q.key)] :
                              c[hash_func(q.key)][p].key = q.key
      BY DEF Removes
    <2>2. \A i \in DOMAIN t[hash_func(q.key)] : t[hash_func(q.key)][i].key # q.key
      BY <2>1 DEF handle_storage_add_refused, handle_storage_remove_absent,
           handle_storage_modify_absent, handle_storage_modify_loop,
           handle_storage_other
    <2> HIDE DEF c, t
    <2>3. hash_func(q.key) \in Bucket BY <1>3, <2>1
    <2>4. PICK h \in Bucket : h = hash_func(q.key) BY <2>3
    <2>5. /\ DOMAIN c[h] = 1 .. Len(t[h]) /\ DOMAIN t[h] = 1 .. Len(t[h])
          /\ \A i \in 1 .. Len(t[h]) : c[h][i].key = t[h][i].key
      BY <1>2, ContentBucket DEF c
    <2>6. \A i \in 1 .. Len(t[h]) : c[h][i].key # q.key BY <2>2, <2>4, <2>5
    <2> QED BY <2>4, <2>5, <2>6
  <1>6. Hangs(c, q) <=> handle_storage_modify_loop(r, q)
    <2>1. CASE q.type = "MODIFY"
      <3>1. hash_func(q.key) \in Bucket BY <1>3, <2>1
      <3>2. Hangs(c, q) <=> Loops(r, q.key)
        BY <1>2, <2>1, <3>1, ContentBucket DEF Hangs, Loops
      <3>3. Loops(r, q.key) <=> t[hash_func(q.key)] # <<>>
                                /\ t[hash_func(q.key)][1].key # q.key
        BY DEF Loops
      <3> QED
        BY <2>1, <3>2, <3>3
           DEF handle_storage_add_refused, handle_storage_remove_absent,
               handle_storage_modify_absent, handle_storage_modify_loop,
               handle_storage_other
    <2>2. CASE q.type # "MODIFY" BY <2>2 DEF Hangs, handle_storage_modify_loop
    <2> QED BY <2>1, <2>2
  <1> HIDE DEF c
  <1>7. After(c, q, c) BY <1>4, <1>5 DEF After
  <1> QED BY <1>1, <1>6, <1>7 DEF c

----------------------------------------------------------------------------
(* Checkpoints as records bucket by bucket *)

\* The records of a bucket are finitely many and belong there.
LEMMA ContentTypes ==
    ASSUME NEW c \in Contents, NEW b \in Bucket
    PROVE  /\ c[b] \in Seq(Record) /\ Len(c[b]) \in Nat
           /\ \A i \in 1 .. Len(c[b]) : hash_func(c[b][i].key) = b
  BY DEF Contents

\* An empty file, before the first bucket.
LEMMA FlatStart ==
    ASSUME NEW c \in Contents
    PROVE  Flat(<<>>, c, [b \in Bucket |-> IF b < 0 THEN 0 ELSE Len(c[b])])
  <1> DEFINE l == [b \in Bucket |-> IF b < 0 THEN 0 ELSE Len(c[b])]
  <1>1. \A b \in Bucket : l[b] = Len(c[b]) /\ Len(c[b]) - l[b] = 0
    <2> SUFFICES ASSUME NEW b \in Bucket PROVE l[b] = Len(c[b]) /\ Len(c[b]) - l[b] = 0
      OBVIOUS
    <2>1. b \in Int /\ ~(b < 0) BY LenAssumption DEF Bucket
    <2>2. Len(c[b]) \in Nat BY ContentTypes
    <2>3. l[b] = Len(c[b]) BY <2>1
    <2> HIDE DEF l
    <2> QED BY <2>2, <2>3
  <1> HIDE DEF l
  <1>2. None \in [Bucket -> Nat] /\ \A b \in Bucket : None[b] = 0 BY DEF None
  <1>3. Len(<<>>) = 0 OBVIOUS
  <1>4. FlatBy(None, <<>>, c, l)
    <2>1. ASSUME NEW b \in Bucket
          PROVE  /\ None[b] + (Len(c[b]) - l[b]) <= Len(<<>>)
                 /\ \A i \in 1 .. Len(c[b]) - l[b] : <<>>[None[b] + i] = c[b][l[b] + i]
      BY <1>1, <1>2, <1>3
    <2>2. 1 .. Len(<<>>) = {} BY <1>3
    <2> QED BY <2>1, <2>2 DEF FlatBy
  <1>5. Flat(<<>>, c, l) BY <1>2, <1>4 DEF Flat
  <1> QED BY <1>5 DEF l

\* Bucket j is written at the end of the file.
LEMMA FlatExtend ==
    ASSUME NEW c \in Contents, NEW recs \in Seq(Record), NEW j \in Bucket,
           Flat(recs, c, [b \in Bucket |-> IF b < j THEN 0 ELSE Len(c[b])])
    PROVE  Flat(recs \o c[j], c, [b \in Bucket |-> IF b < j + 1 THEN 0 ELSE Len(c[b])])
  <1> DEFINE l == [b \in Bucket |-> IF b < j THEN 0 ELSE Len(c[b])]
             m == [b \in Bucket |-> IF b < j + 1 THEN 0 ELSE Len(c[b])]
             out == recs \o c[j]
  <1>1. PICK o \in [Bucket -> Nat] : FlatBy(o, recs, c, l) BY DEF Flat
  <1> DEFINE u == [o EXCEPT ![j] = Len(recs)]
  <1>2. Len(recs) \in Nat /\ c[j] \in Seq(Record) /\ Len(c[j]) \in Nat
        /\ \A b \in Bucket : b \in Int /\ Len(c[b]) \in Nat
    BY ContentTypes, LenAssumption DEF Bucket
  <1>3. u \in [Bucket -> Nat] /\ u[j] = Len(recs) /\ \A b \in Bucket : b # j => u[b] = o[b]
    BY <1>2
  <1>4. l[j] = Len(c[j]) /\ m[j] = 0 /\ \A b \in Bucket : b # j => m[b] = l[b]
    BY <1>2
  <1>5. \A b \in Bucket : l[b] \in Nat /\ m[b] \in Nat BY <1>2
  <1>6. out \in Seq(Record) /\ Len(out) = Len(recs) + Len(c[j])
        /\ (\A p \in 1 .. Len(recs) : out[p] = recs[p])
        /\ (\A i \in 1 .. Len(c[j]) : out[Len(recs) + i] = c[j][i])
    BY <1>2
  <1> HIDE DEF l, m, out, u
  <1>7. ASSUME NEW b \in Bucket
        PROVE  /\ u[b] + (Len(c[b]) - m[b]) <= Len(out)
               /\ \A i \in 1 .. Len(c[b]) - m[b] : out[u[b] + i] = c[b][m[b] + i]
    <2>1. CASE b = j
      <3>1. u[b] = Len(recs) /\ m[b] = 0 /\ Len(c[b]) = Len(c[j]) /\ c[b] = c[j]
        BY <1>3, <1>4, <2>1
      <3>2. Len(c[b]) - m[b] = Len(c[j]) BY <1>2, <3>1
      <3>3. \A i \in 1 .. Len(c[j]) : m[b] + i = i BY <1>2, <3>1
      <3>4. u[b] + (Len(c[b]) - m[b]) <= Len(out) BY <1>2, <1>6, <3>1, <3>2
      <3> QED BY <1>6, <3>1, <3>2, <3>3, <3>4
    <2>2. CASE b # j
      <3>1. u[b] = o[b] /\ m[b] = l[b] /\ o[b] \in Nat /\ l[b] \in Nat /\ Len(c[b]) \in Nat
        <4>1. u[b] = o[b] /\ m[b] = l[b] BY <1>3, <1>4, <2>2
        <4> QED BY <1>2, <1>3, <1>5, <4>1
      <3>2. /\ o[b] + (Len(c[b]) - l[b]) <= Len(recs)
            /\ \A i \in 1 .. Len(c[b]) - l[b] : recs[o[b] + i] = c[b][l[b] + i]
        BY <1>1 DEF FlatBy
      <3>3. \A i \in 1 .. Len(c[b]) - l[b] : o[b] + i \in 1 .. Len(recs)
        <4> DEFINE n == Len(c[b]) - l[b]
                   w == o[b]
        <4>1. n \in Int /\ w \in Nat /\ w + n <= Len(recs) /\ Len(recs) \in Nat
          BY <1>2, <3>1, <3>2
        <4> HIDE DEF n, w
        <4>2. \A i \in 1 .. n : w + i \in 1 .. Len(recs) BY <4>1
        <4> QED BY <4>2 DEF n, w
      <3>4. o[b] + (Len(c[b]) - l[b]) <= Len(out)
        <4>1. Len(recs) <= Len(out) BY <1>2, <1>6
        <4> QED BY <1>2, <1>6, <3>1, <3>2, <4>1, SMTT(30)
      <3>5. \A i \in 1 .. Len(c[b]) - l[b] : out[o[b] + i] = c[b][l[b] + i]
        BY <1>6, <3>2, <3>3
      <3> QED BY <3>1, <3>4, <3>5
    <2> QED BY <2>1, <2>2
  <1>8. ASSUME NEW p \in 1 .. Len(out)
        PROVE  LET b == hash_func(out[p].key)
               IN  u[b] < p /\ p <= u[b] + (Len(c[b]) - m[b])
    <2>1. CASE p <= Len(recs)
      <3> DEFINE b == hash_func(recs[p].key)
      <3>1. p \in 1 .. Len(recs) /\ out[p] = recs[p] BY <1>2, <1>6, <2>1
      <3>2. recs[p] \in Record BY <3>1
      <3>3. b \in Bucket BY <3>2, HashInRange DEF Record
      <3>4. o[b] < p /\ p <= o[b] + (Len(c[b]) - l[b]) BY <1>1, <3>1 DEF FlatBy
      <3> HIDE DEF b
      <3>5. o[b] \in Nat /\ Len(c[b]) \in Nat /\ l[b] \in Nat BY <1>2, <1>5, <3>3
      <3>6. b # j BY <1>4, <3>1, <3>4, <3>5
      <3>7. u[b] < p /\ p <= u[b] + (Len(c[b]) - m[b])
        BY <1>3, <1>4, <3>3, <3>4, <3>6
      <3> QED BY <3>1, <3>7 DEF b
    <2>2. CASE p > Len(recs)
      <3>1. PICK i \in 1 .. Len(c[j]) : p = Len(recs) + i
        <4>1. p - Len(recs) \in 1 .. Len(c[j]) /\ p = Len(recs) + (p - Len(recs))
          BY <1>2, <1>6, <2>2
        <4> QED BY <4>1
      <3>2. out[p] = c[j][i] BY <1>6, <3>1
      <3>3. hash_func(out[p].key) = j BY <3>2, ContentTypes
      <3> QED BY <1>2, <1>3, <1>4, <3>1, <3>3
    <2> QED BY <1>2, <1>6, <2>1, <2>2
  <1>9. Flat(out, c, m)
    <2>1. FlatBy(u, out, c, m) BY <1>7, <1>8 DEF FlatBy
    <2> QED BY <1>3, <2>1 DEF Flat
  <1> QED BY <1>9 DEF out, m

\* After the last bucket the file holds the whole table.
LEMMA FlatEnd ==
    ASSUME NEW c
    PROVE  [b \in Bucket |-> IF b < hash_table_len THEN 0 ELSE Len(c[b])] = None
  <1>1. \A b \in Bucket : b < hash_table_len BY LenAssumption DEF Bucket
  <1> QED BY <1>1 DEF None

\* Nothing has been written before the first round.
LEMMA WrittenNothing == ASSUME NEW c PROVE Written(<<>>, c, 0)
  <1> DEFINE w == [i \in 0 .. 0 |-> <<>>]
  <1>1. w \in [0 .. 0 -> Seq(Record)] /\ w[0] = <<>> /\ 1 .. 0 = {} OBVIOUS
  <1> HIDE DEF w
  <1>2. Rounds(w, c, 0) BY <1>1 DEF Rounds
  <1> QED BY <1>1, <1>2 DEF Written

\* A round writes one bucket.
LEMMA WrittenMore ==
    ASSUME NEW c \in Contents, NEW n \in Bucket, NEW out, Written(out, c, n)
    PROVE  Written(out \o c[n], c, n + 1)
  <1>1. PICK w : Rounds(w, c, n) /\ out = w[n] BY DEF Written
  <1>2. /\ w \in [0 .. n -> Seq(Record)] /\ w[0] = <<>>
        /\ \A i \in 1 .. n : w[i] = w[i - 1] \o c[i - 1]
    BY <1>1 DEF Rounds
  <1>3. n \in Nat /\ c[n] \in Seq(Record) BY LenAssumption, ContentTypes DEF Bucket
  <1> DEFINE m == n + 1
             x == out \o c[n]
             v == [i \in 0 .. m |-> IF i = m THEN x ELSE w[i]]
  <1>4. m \in Nat /\ m - 1 = n /\ m \in 0 .. m /\ m # 0 /\ n # m
        /\ \A i \in 0 .. m : i = m \/ i \in 0 .. n
    BY <1>3
  <1>5. out \in Seq(Record) BY <1>1, <1>2, <1>3
  <1>6. x \in Seq(Record) BY <1>3, <1>5
  <1> HIDE DEF x
  <1>7. v \in [0 .. m -> Seq(Record)] /\ v[m] = x /\ \A i \in 0 .. n : v[i] = w[i]
    <2>1. \A i \in 0 .. n : i # m /\ i \in 0 .. m BY <1>3
    <2> HIDE DEF m
    <2> QED BY <1>2, <1>4, <1>6, <2>1
  <1> HIDE DEF v
  <1>8. ASSUME NEW i \in 1 .. m PROVE v[i] = v[i - 1] \o c[i - 1]
    <2>1. CASE i = m
      <3>1. n \in 0 .. n /\ i - 1 = n BY <1>3, <2>1
      <3>2. v[i - 1] = out /\ v[i] = x BY <1>1, <1>7, <2>1, <3>1
      <3> QED BY <3>1, <3>2 DEF x
    <2>2. CASE i # m
      <3>1. i \in 1 .. n /\ i \in 0 .. n /\ i - 1 \in 0 .. n BY <1>3, <2>2
      <3>2. v[i - 1] = w[i - 1] /\ v[i] = w[i] BY <1>7, <3>1
      <3> QED BY <1>2, <3>1, <3>2
    <2> QED BY <2>1, <2>2
  <1>9. v[0] = <<>> BY <1>2, <1>3, <1>7
  <1>10. Rounds(v, c, m) BY <1>7, <1>8, <1>9 DEF Rounds
  <1>11. Written(x, c, m) BY <1>7, <1>10 DEF Written
  <1> QED BY <1>11 DEF x

\* What is written of a content is determined.
LEMMA WrittenIsFunction ==
    ASSUME NEW c, NEW n \in Nat, NEW a, NEW b, Written(a, c, n), Written(b, c, n)
    PROVE  a = b
  <1>1. PICK v : Rounds(v, c, n) /\ a = v[n] BY DEF Written
  <1>2. PICK w : Rounds(w, c, n) /\ b = w[n] BY DEF Written
  <1> DEFINE G == {i \in Nat : i <= n => v[i] = w[i]}
  <1>3. 0 \in G BY <1>1, <1>2 DEF Rounds
  <1>4. ASSUME NEW i \in Nat, i \in G PROVE i + 1 \in G
    <2> DEFINE j == i + 1
    <2>1. j \in Nat /\ j - 1 = i OBVIOUS
    <2>2. CASE j <= n
      <3>1. j \in 1 .. n /\ i <= n BY <2>2
      <3>2. v[i] = w[i] BY <1>4, <3>1
      <3> HIDE DEF j
      <3>3. v[j] = v[i] \o c[i] /\ w[j] = w[i] \o c[i] BY <1>1, <1>2, <2>1, <3>1 DEF Rounds
      <3>4. v[j] = w[j] BY <3>2, <3>3
      <3> QED BY <2>1, <3>4 DEF j
    <2>3. CASE ~(j <= n) BY <2>1, <2>3
    <2> QED BY <2>2, <2>3
  <1> HIDE DEF G
  <1>5. n \in G BY <1>3, <1>4, Induction
  <1>6. v[n] = w[n] BY <1>5 DEF G
  <1> QED BY <1>1, <1>2, <1>6

\* The file that all rounds have written is the table, bucket by bucket.
LEMMA WrittenIsFlat ==
    ASSUME NEW c \in Contents, NEW out, Written(out, c, hash_table_len)
    PROVE  Flat(out, c, None)
  <1>1. PICK w : Rounds(w, c, hash_table_len) /\ out = w[hash_table_len] BY DEF Written
  <1> DEFINE F(n) == Flat(w[n], c, [b \in Bucket |-> IF b < n THEN 0 ELSE Len(c[b])])
             G == {n \in Nat : n <= hash_table_len => F(n)}
  <1>2. /\ w \in [0 .. hash_table_len -> Seq(Record)] /\ w[0] = <<>>
        /\ \A i \in 1 .. hash_table_len : w[i] = w[i - 1] \o c[i - 1]
    BY <1>1 DEF Rounds
  <1>3. 0 \in G
    <2>1. F(0) BY <1>2, FlatStart
    <2> HIDE DEF F
    <2> QED BY <2>1
  <1>4. ASSUME NEW n \in Nat, n \in G PROVE n + 1 \in G
    <2>1. CASE n + 1 <= hash_table_len
      <3>1. n + 1 \in 1 .. hash_table_len /\ (n + 1) - 1 = n /\ n \in Bucket
            /\ n \in 0 .. hash_table_len /\ n <= hash_table_len
        BY <2>1, LenAssumption DEF Bucket
      <3>2. w[n] \in Seq(Record) /\ w[n + 1] = w[n] \o c[n] BY <1>2, <3>1
      <3>3. F(n) BY <1>4, <3>1
      <3>4. F(n + 1)
        <4>1. Flat(w[n] \o c[n], c, [b \in Bucket |-> IF b < n + 1 THEN 0 ELSE Len(c[b])])
          BY <3>1, <3>2, <3>3, FlatExtend
        <4> QED BY <3>2, <4>1
      <3> HIDE DEF F
      <3> QED BY <3>4
    <2>2. CASE ~(n + 1 <= hash_table_len) BY <2>2
    <2> QED BY <2>1, <2>2
  <1> HIDE DEF G
  <1>5. hash_table_len \in G BY <1>3, <1>4, Induction, LenAssumption
  <1>6. F(hash_table_len)
    <2> HIDE DEF F
    <2> QED BY <1>5, LenAssumption DEF G
  <1> QED BY <1>1, <1>6, FlatEnd

\* The first record of a file is the next of its bucket; the rest of the file
\* is the rest of the table.
LEMMA FlatPop ==
    ASSUME NEW c \in Contents, NEW recs \in Seq(Record), recs # <<>>,
           NEW l \in [Bucket -> Nat], \A b \in Bucket : l[b] <= Len(c[b]),
           Flat(recs, c, l),
           NEW h, h = hash_func(recs[1].key)
    PROVE  /\ h \in Bucket /\ l[h] < Len(c[h]) /\ recs[1] = c[h][l[h] + 1]
           /\ Flat(Tail(recs), c, [l EXCEPT ![h] = l[h] + 1])
  <1>1. PICK o \in [Bucket -> Nat] : FlatBy(o, recs, c, l) BY DEF Flat
  <1> DEFINE m == [l EXCEPT ![h] = l[h] + 1]
             u == [b \in Bucket |-> IF o[b] = 0 THEN 0 ELSE o[b] - 1]
             rest == Tail(recs)
  <1>2. Len(recs) \in Nat /\ 1 \in 1 .. Len(recs) /\ recs[1] \in Record OBVIOUS
  <1>3. h \in Bucket BY <1>2, HashInRange DEF Record
  <1>4. ASSUME NEW b \in Bucket
        PROVE  o[b] \in Nat /\ l[b] \in Nat /\ Len(c[b]) \in Nat /\ l[b] <= Len(c[b])
    BY ContentTypes
  <1>5. o[h] = 0 /\ l[h] < Len(c[h]) /\ recs[1] = c[h][l[h] + 1]
    <2>1. o[h] < 1 /\ 1 <= o[h] + (Len(c[h]) - l[h]) BY <1>1, <1>2 DEF FlatBy
    <2>2. o[h] = 0 /\ l[h] < Len(c[h]) BY <1>3, <1>4, <2>1
    <2>3. 1 \in 1 .. Len(c[h]) - l[h] BY <1>3, <1>4, <2>2
    <2>4. recs[o[h] + 1] = c[h][l[h] + 1] BY <1>1, <1>3, <2>3 DEF FlatBy
    <2> QED BY <2>2, <2>4
  <1>6. rest \in Seq(Record) /\ Len(rest) = Len(recs) - 1
        /\ \A p \in 1 .. Len(recs) - 1 : rest[p] = recs[p + 1]
    OBVIOUS
  <1>7. m[h] = l[h] + 1 /\ \A b \in Bucket : b # h => m[b] = l[b] BY <1>3
  <1>8. u \in [Bucket -> Nat]
        /\ \A b \in Bucket : u[b] = IF o[b] = 0 THEN 0 ELSE o[b] - 1
    BY <1>4
  <1> HIDE DEF m, u, rest
  \* A bucket with records left that does not come first starts later.
  <1>9. ASSUME NEW b \in Bucket, b # h, l[b] < Len(c[b]) PROVE o[b] > 0
    <2> SUFFICES ASSUME o[b] = 0 PROVE FALSE BY <1>4
    <2>1. 1 \in 1 .. Len(c[b]) - l[b] BY <1>4, <1>9
    <2>2. recs[o[b] + 1] = c[b][l[b] + 1] BY <1>1, <2>1 DEF FlatBy
    <2>3. l[b] + 1 \in 1 .. Len(c[b]) BY <1>4, <1>9
    <2>4. recs[1] = c[b][l[b] + 1] BY <2>2
    <2> QED BY <1>9, <2>3, <2>4, ContentTypes
  <1>10. ASSUME NEW b \in Bucket
         PROVE  /\ u[b] + (Len(c[b]) - m[b]) <= Len(rest)
                /\ \A i \in 1 .. Len(c[b]) - m[b] : rest[u[b] + i] = c[b][m[b] + i]
    <2>1. /\ o[b] + (Len(c[b]) - l[b]) <= Len(recs)
          /\ \A i \in 1 .. Len(c[b]) - l[b] : recs[o[b] + i] = c[b][l[b] + i]
      BY <1>1 DEF FlatBy
    <2>2. /\ o[b] \in Nat /\ l[b] \in Nat /\ Len(c[b]) \in Nat /\ l[b] <= Len(c[b])
          /\ Len(recs) \in Nat /\ Len(recs) >= 1 /\ Len(rest) = Len(recs) - 1
      BY <1>2, <1>4, <1>6
    <2>3. CASE b = h
      <3>1. u[b] = 0 /\ m[b] = l[b] + 1 BY <1>5, <1>7, <1>8, <2>3
      <3>2. u[b] + (Len(c[b]) - m[b]) <= Len(rest)
        <4>1. o[b] = 0 BY <1>5, <2>3
        <4> QED BY <2>2, <2>1, <3>1, <4>1
      <3>3. ASSUME NEW i \in 1 .. Len(c[b]) - m[b]
            PROVE  rest[u[b] + i] = c[b][m[b] + i]
        <4>1. i \in Nat /\ i + 1 \in 1 .. Len(c[b]) - l[b] /\ i \in 1 .. Len(recs) - 1
          <5>1. o[b] = 0 BY <1>5, <2>3
          <5>2. i \in Nat /\ i >= 1 /\ i <= Len(c[b]) - (l[b] + 1) BY <2>2, <3>1
          <5> QED BY <2>2, <2>1, <5>1, <5>2
        <4>2. recs[o[b] + (i + 1)] = c[b][l[b] + (i + 1)] BY <2>1, <4>1
        <4>3. o[b] + (i + 1) = i + 1 /\ l[b] + (i + 1) = m[b] + i /\ u[b] + i = i
          <5>1. o[b] = 0 BY <1>5, <2>3
          <5> QED BY <2>2, <3>1, <4>1, <5>1
        <4>4. rest[i] = recs[i + 1] BY <1>6, <4>1
        <4> QED BY <4>2, <4>3, <4>4
      <3> QED BY <3>2, <3>3
    <2>4. CASE b # h /\ l[b] < Len(c[b])
      <3>1. o[b] > 0 /\ u[b] = o[b] - 1 /\ m[b] = l[b] BY <1>4, <1>7, <1>8, <1>9, <2>4
      <3>2. u[b] + (Len(c[b]) - m[b]) <= Len(rest)
        BY <1>2, <1>4, <1>6, <2>1, <3>1
      <3>3. ASSUME NEW i \in 1 .. Len(c[b]) - m[b]
            PROVE  rest[u[b] + i] = c[b][m[b] + i]
        <4>1. i \in 1 .. Len(c[b]) - l[b] /\ i \in Nat /\ u[b] + i \in 1 .. Len(recs) - 1
              /\ u[b] + i + 1 = o[b] + i
          <5>1. i \in Nat /\ i >= 1 /\ i <= Len(c[b]) - l[b] BY <2>2, <3>1
          <5> QED BY <2>2, <2>1, <3>1, <5>1, SMTT(30)
        <4>2. rest[u[b] + i] = recs[u[b] + i + 1] BY <1>6, <4>1
        <4> QED BY <2>1, <3>1, <4>1, <4>2
      <3> QED BY <3>2, <3>3
    <2>5. CASE b # h /\ l[b] = Len(c[b])
      <3>1. m[b] = l[b] BY <1>7, <2>5
      <3>2. u[b] <= Len(recs) - 1 BY <1>2, <1>4, <1>8, <2>1, <2>5
      <3> QED BY <1>2, <1>4, <1>6, <1>8, <2>5, <3>1, <3>2
    <2> QED BY <1>4, <2>3, <2>4, <2>5
  <1>11. ASSUME NEW p \in 1 .. Len(rest)
         PROVE  LET b == hash_func(rest[p].key)
                IN  u[b] < p /\ p <= u[b] + (Len(c[b]) - m[b])
    <2> DEFINE b == hash_func(rest[p].key)
    <2>1. p \in Nat /\ p + 1 \in 1 .. Len(recs) /\ rest[p] = recs[p + 1] /\ p >= 1
      BY <1>2, <1>6
    <2>2. rest[p] \in Record BY <2>1
    <2>3. b \in Bucket BY <2>2, HashInRange DEF Record
    <2>4. o[b] < p + 1 /\ p + 1 <= o[b] + (Len(c[b]) - l[b])
      BY <1>1, <2>1 DEF FlatBy
    <2> HIDE DEF b
    <2>5. CASE b = h
      <3>1. o[b] = 0 /\ l[b] \in Nat /\ Len(c[b]) \in Nat /\ m[b] = l[b] + 1 /\ u[b] = 0
        BY <1>4, <1>5, <1>7, <1>8, <2>3, <2>5
      <3>2. u[b] < p /\ p <= u[b] + (Len(c[b]) - m[b]) BY <2>1, <2>4, <3>1
      <3> QED BY <3>2 DEF b
    <2>6. CASE b # h
      <3>1. o[b] \in Nat /\ l[b] \in Nat /\ Len(c[b]) \in Nat /\ m[b] = l[b]
        BY <1>4, <1>7, <2>3, <2>6
      <3>2. l[b] < Len(c[b])  BY <2>1, <2>4, <3>1
      <3>3. o[b] > 0 /\ u[b] = o[b] - 1 BY <1>8, <1>9, <2>3, <2>6, <3>1, <3>2
      <3>4. \A x, y, z \in Nat : x > 0 /\ x < p + 1 /\ p + 1 <= x + (y - z)
                => x - 1 < p /\ p <= (x - 1) + (y - z)
        BY <2>1
      <3>5. o[b] - 1 < p /\ p <= (o[b] - 1) + (Len(c[b]) - l[b]) BY <2>4, <3>1, <3>3, <3>4
      <3>6. u[b] < p /\ p <= u[b] + (Len(c[b]) - m[b]) BY <3>1, <3>3, <3>5
      <3> QED BY <3>6 DEF b
    <2> QED BY <2>5, <2>6 DEF b
  <1>12. Flat(rest, c, m)
    <2>1. FlatBy(u, rest, c, m) BY <1>10, <1>11 DEF FlatBy
    <2> QED BY <1>8, <2>1 DEF Flat
  <1> QED BY <1>3, <1>5, <1>12 DEF rest, m

\* A file with no record left has nothing left of the table.
LEMMA FlatDone ==
    ASSUME NEW c \in Contents, NEW l \in [Bucket -> Nat], Flat(<<>>, c, l)
    PROVE  \A b \in Bucket : Len(c[b]) <= l[b]
  <1>1. PICK o \in [Bucket -> Nat] : FlatBy(o, <<>>, c, l) BY DEF Flat
  <1>2. ASSUME NEW b \in Bucket PROVE Len(c[b]) <= l[b]
    <2>1. o[b] + (Len(c[b]) - l[b]) <= Len(<<>>) BY <1>1 DEF FlatBy
    <2>2. o[b] \in Nat /\ l[b] \in Nat /\ Len(c[b]) \in Nat BY ContentTypes
    <2> QED BY <2>1, <2>2
  <1> QED BY <1>2

----------------------------------------------------------------------------
(* The invariant, step by step *)

\* The empty table holds no record.
LEMMA EmptyContent ==
    Empty \in Contents /\ Empty \in [Bucket -> Seq(Node)] /\ ContentOf(Empty) = Empty
  <1>1. Records(<<>>) = <<>> BY DEF Records
  <1>2. ContentOf(Empty) = Empty BY <1>1 DEF ContentOf, Empty
  <1> QED BY <1>2 DEF Empty, Contents

\* Nothing has been handled and every table is empty.
LEMMA InitHistory == Init => HistoryInv
  <1> SUFFICES ASSUME Init PROVE HistoryInv
    OBVIOUS
  <1> DEFINE h == [n \in 0 .. 0 |-> Empty]
  <1>1. requests = <<>> /\ Len(requests) = 0 BY DEF Init
  <1>2. IsHistory(h, requests) BY <1>1, EmptyContent DEF IsHistory
  <1>3. ASSUME NEW r \in Replica
        PROVE  Stands(h[done[r]], table[r], walk[r]) /\ ~Hung(h, requests, done[r])
    <2>1. table[r] = Empty /\ walk[r].op = "none" /\ done[r] = 0 BY DEF Init, Idle
    <2>2. h[done[r]] = Empty BY <2>1
    <2> HIDE DEF h
    <2> QED BY <2>1, <2>2, EmptyContent DEF Stands, Hung
  <1> HIDE DEF h
  <1>4. ReplicasStand(h) BY <1>3 DEF ReplicasStand, Init
  <1>5. FilesStand(h) BY DEF FilesStand, Init
  <1> QED BY <1>2, <1>4, <1>5 DEF HistoryInv

\* A step of replica r that carries the history on, if at all: the other
\* replicas and the files that were there stand where they stood.
LEMMA OthersStand ==
    ASSUME StoreInv, NEW h, IsHistory(h, requests), ReplicasStand(h), FilesStand(h),
           NEW g, IsHistory(g, requests'),
           \A n \in 0 .. Len(requests) : g[n] = h[n],
           \A n \in 1 .. Len(requests) : requests'[n] = requests[n],
           NEW r \in Replica,
           \A s \in Replica \ {r} :
               /\ table'[s] = table[s] /\ walk'[s] = walk[s]
               /\ done'[s] = done[s] /\ looping'[s] = looping[s],
           Stands(g[done'[r]], table'[r], walk'[r]),
           looping'[r] <=> Hung(g, requests', done'[r]),
           \A f \in files' : f \in files \/ FileStands(f, g, requests')
    PROVE  HistoryInv'
  <1>1. ASSUME NEW n \in 0 .. Len(requests)
        PROVE  g[n] = h[n] /\ (Hung(g, requests', n) <=> Hung(h, requests, n))
    <2>1. g[n] = h[n] OBVIOUS
    <2>2. n > 0 => n \in 1 .. Len(requests) OBVIOUS
    <2> QED BY <2>1, <2>2 DEF Hung
  <1>2. ASSUME NEW s \in Replica
        PROVE  /\ Stands(g[done'[s]], table'[s], walk'[s])
               /\ looping'[s] <=> Hung(g, requests', done'[s])
    <2>1. CASE s = r BY <2>1
    <2>2. CASE s # r
      <3>1. done[s] \in 0 .. Len(requests) BY DEF StoreInv, TypeOK
      <3>2. done'[s] = done[s] /\ table'[s] = table[s] /\ walk'[s] = walk[s]
            /\ looping'[s] = looping[s]
        BY <2>2
      <3>3. /\ Stands(h[done[s]], table[s], walk[s])
            /\ looping[s] <=> Hung(h, requests, done[s])
        BY DEF ReplicasStand
      <3> QED BY <1>1, <3>1, <3>2, <3>3
    <2> QED BY <2>1, <2>2
  <1>3. ASSUME NEW f \in files' PROVE FileStands(f, g, requests')
    <2>1. CASE f \in files
      <3>1. f.done \in 0 .. Len(requests) BY <2>1 DEF StoreInv, TypeOK
      <3>2. FileStands(f, h, requests) BY <2>1 DEF FilesStand
      <3> QED BY <1>1, <3>1, <3>2 DEF FileStands
    <2>2. CASE f \notin files BY <2>2
    <2> QED BY <2>1, <2>2
  <1>4. ReplicasStand(g)' BY <1>2 DEF ReplicasStand
  <1>5. FilesStand(g)' BY <1>3 DEF FilesStand
  <1> QED BY <1>4, <1>5 DEF HistoryInv

\* Request q carries the history on, or is one the history has.
LEMMA HistoryGoesOn ==
    ASSUME StoreInv, NEW h, IsHistory(h, requests), NEW r \in Replica,
           NEW q \in Request, Handles(r, q), NEW d \in Contents,
           After(h[done[r]], q, d)
    PROVE  \E g : /\ IsHistory(g, requests')
                  /\ \A n \in 0 .. Len(requests) : g[n] = h[n]
                  /\ g[done'[r]] = d
  <1>1. requests \in Seq(Request) /\ done \in [Replica -> 0 .. Len(requests)]
        /\ Len(requests) \in Nat
    BY DEF StoreInv, TypeOK
  <1>2. h \in [0 .. Len(requests) -> Contents] /\ h[0] = Empty
        /\ \A n \in 1 .. Len(requests) : After(h[n - 1], requests[n], h[n])
    BY DEF IsHistory
  <1>3. done'[r] = done[r] + 1 BY <1>1 DEF Handles
  <1>4. CASE done[r] = Len(requests)
    <2>1. requests' = Append(requests, q) BY <1>4 DEF Handles
    <2>2. Len(requests') = Len(requests) + 1 /\ requests'[Len(requests) + 1] = q
          /\ \A n \in 1 .. Len(requests) : requests'[n] = requests[n]
      BY <1>1, <2>1
    <2> DEFINE g == [n \in 0 .. Len(requests) + 1 |-> IF n <= Len(requests) THEN h[n] ELSE d]
    <2>3. g \in [0 .. Len(requests) + 1 -> Contents]
          /\ (\A n \in 0 .. Len(requests) : g[n] = h[n]) /\ g[Len(requests) + 1] = d
      BY <1>1, <1>2
    <2> HIDE DEF g
    <2>4. ASSUME NEW n \in 1 .. Len(requests) + 1
          PROVE  After(g[n - 1], requests'[n], g[n])
      <3>1. n - 1 \in 0 .. Len(requests) BY <1>1
      <3>2. CASE n \in 1 .. Len(requests)
        <4>1. n \in 0 .. Len(requests) BY <3>2
        <4> QED BY <1>2, <2>2, <2>3, <3>1, <3>2, <4>1
      <3>3. CASE n = Len(requests) + 1
        <4>1. n - 1 = done[r] BY <1>1, <1>4, <3>3
        <4>2. g[n - 1] = h[done[r]] BY <2>3, <3>1, <4>1
        <4> QED BY <2>2, <2>3, <3>3, <4>2
      <3> QED BY <1>1, <3>2, <3>3
    <2>5. g[0] = Empty BY <1>1, <1>2, <2>3
    <2>6. IsHistory(g, requests') BY <2>2, <2>3, <2>4, <2>5 DEF IsHistory
    <2> QED BY <1>3, <1>4, <2>3, <2>6
  <1>5. CASE done[r] # Len(requests)
    <2>1. requests' = requests /\ q = requests[done[r] + 1] BY <1>5 DEF Handles
    <2>2. done[r] + 1 \in 1 .. Len(requests) /\ done[r] + 1 - 1 = done[r]
          /\ done[r] \in 0 .. Len(requests)
      BY <1>1, <1>5
    <2>3. After(h[done[r]], q, h[done[r] + 1]) BY <1>2, <2>1, <2>2
    <2>4. h[done[r]] \in Contents BY <1>2, <2>2
    <2>5. h[done[r] + 1] = d BY <2>3, <2>4, AfterIsFunction
    <2> QED BY <1>3, <2>1, <2>5
  <1> QED BY <1>4, <1>5

\* One request, handled or refused, extends or follows the history.
LEMMA RequestHistory ==
    ASSUME StoreInv, StoreInv', HistoryInv, NEW r \in Replica, NEW q \in Request,
           Handles(r, q),
           \/ handle_storage_add(r, q) \/ handle_storage_add_refused(r, q)
           \/ handle_storage_remove(r, q) \/ handle_storage_remove_absent(r, q)
           \/ handle_storage_modify(r, q) \/ handle_storage_modify_absent(r, q)
           \/ handle_storage_modify_loop(r, q)
           \/ handle_storage_other(r, q)
    PROVE  HistoryInv'
  <1>1. PICK h : IsHistory(h, requests) /\ ReplicasStand(h) /\ FilesStand(h)
    BY DEF HistoryInv
  <1>2. /\ ~looping[r] /\ walk[r] = Idle
        /\ \A n \in 1 .. Len(requests) : requests'[n] = requests[n]
        /\ done' = [done EXCEPT ![r] = @ + 1]
        /\ requests'[done'[r]] = q /\ done'[r] > 0
        /\ walk' = walk /\ files' = files
    BY HandlesHistory
  <1>3. TableOK /\ TableOK' BY InvParts, PTL
  <1> DEFINE c == ContentOf(table[r])
             d == ContentOf(table'[r])
  <1>4. d \in Contents
    BY <1>3, ContentIsContent DEF TableOK, Placed
  <1>5. walk[r].op = "none" BY <1>2 DEF Idle
  <1>6. h[done[r]] = c BY <1>1, <1>5 DEF ReplicasStand, Stands
  <1>7. /\ After(c, q, d)
        /\ looping' \in [Replica -> BOOLEAN] /\ (looping'[r] <=> Hangs(d, q))
        /\ \A s \in Replica \ {r} : table'[s] = table[s] /\ looping'[s] = looping[s]
    <2>1. looping \in [Replica -> BOOLEAN] /\ table \in [Replica -> [Bucket -> Seq(Node)]]
      BY DEF StoreInv, TypeOK
    <2>2. CASE handle_storage_add(r, q)
      <3>1. After(c, q, d) /\ ~Hangs(d, q) BY <1>3, <2>2, AddIsAfter DEF Hangs
      <3>2. looping' = looping BY <2>2 DEF handle_storage_add, Return
      <3>3. \A s \in Replica \ {r} : table'[s] = table[s]
        BY <2>1, <2>2 DEF handle_storage_add, hash_table_insert
      <3> QED BY <1>2, <2>1, <3>1, <3>2, <3>3
    <2>3. CASE handle_storage_remove(r, q)
      <3>1. After(c, q, d) /\ ~Hangs(d, q) BY <1>3, <2>3, RemoveIsAfter DEF Hangs
      <3>2. looping' = looping BY <2>3 DEF handle_storage_remove, Return
      <3>3. \A s \in Replica \ {r} : table'[s] = table[s]
        BY <2>1, <2>3 DEF handle_storage_remove, hash_table_delete
      <3> QED BY <1>2, <2>1, <3>1, <3>2, <3>3
    <2>4. CASE handle_storage_modify(r, q)
      <3>1. After(c, q, d) /\ ~Hangs(d, q) BY <1>3, <2>4, ModifyIsAfter
      <3>2. looping' = looping BY <2>4 DEF handle_storage_modify, Return
      <3>3. \A s \in Replica \ {r} : table'[s] = table[s]
        BY <2>1, <2>4 DEF handle_storage_modify
      <3> QED BY <1>2, <2>1, <3>1, <3>2, <3>3
    <2>5. CASE handle_storage_modify_loop(r, q)
      <3>1. After(c, q, d) /\ Hangs(d, q) /\ table' = table
        BY <1>3, <2>5, OtherIsAfter
      <3>2. looping' = [looping EXCEPT ![r] = TRUE]
        BY <2>5 DEF handle_storage_modify_loop
      <3>3. looping'[r] = TRUE /\ looping' \in [Replica -> BOOLEAN]
            /\ \A s \in Replica \ {r} : looping'[s] = looping[s]
        BY <2>1, <3>2
      <3> HIDE DEF c, d
      <3> QED BY <3>1, <3>3
    <2>6. CASE \/ handle_storage_add_refused(r, q) \/ handle_storage_remove_absent(r, q)
               \/ handle_storage_modify_absent(r, q) \/ handle_storage_other(r, q)
      <3>1. ~handle_storage_modify_loop(r, q)
        BY <2>6 DEF handle_storage_add_refused, handle_storage_remove_absent,
                    handle_storage_modify_absent, handle_storage_other,
                    handle_storage_modify_loop, Loops
      <3>2. After(c, q, d) /\ ~Hangs(d, q) /\ table' = table
        BY <1>3, <2>6, <3>1, OtherIsAfter
      <3>3. looping' = looping
        BY <2>6 DEF handle_storage_add_refused, handle_storage_remove_absent,
                    handle_storage_modify_absent, handle_storage_other, Return
      <3> QED BY <1>2, <2>1, <3>2, <3>3
    <2> QED BY <2>2, <2>3, <2>4, <2>5, <2>6
  <1> HIDE DEF c, d
  <1>8. PICK g : /\ IsHistory(g, requests')
                 /\ \A n \in 0 .. Len(requests) : g[n] = h[n]
                 /\ g[done'[r]] = d
    BY <1>1, <1>4, <1>6, <1>7, HistoryGoesOn
  <1>9. Stands(g[done'[r]], table'[r], walk'[r])
    BY <1>2, <1>5, <1>8 DEF Stands, d
  <1>10. looping'[r] <=> Hung(g, requests', done'[r])
    <2>1. Hung(g, requests', done'[r]) <=> Hangs(g[done'[r]], q) BY <1>2 DEF Hung
    <2>2. g[done'[r]] = d BY <1>8
    <2>3. looping'[r] <=> Hangs(d, q) BY <1>7
    <2> QED BY <2>1, <2>2, <2>3
  <1>11. \A s \in Replica \ {r} : /\ table'[s] = table[s] /\ walk'[s] = walk[s]
                                  /\ done'[s] = done[s] /\ looping'[s] = looping[s]
    BY <1>2, <1>7 DEF StoreInv, TypeOK
  <1> QED BY <1>1, <1>2, <1>8, <1>9, <1>10, <1>11, OthersStand

\* Writing and reading a checkpoint leave the history as it is.
LEMMA WalkHistory ==
    ASSUME StoreInv, StoreInv', HistoryInv, NEW r \in Replica,
           \/ export_db_begin(r) \/ export_db_bucket(r) \/ export_db_end(r)
           \/ import_db_begin(r) \/ import_db_record(r) \/ import_db_end(r)
    PROVE  HistoryInv'
  <1>1. PICK h : IsHistory(h, requests) /\ ReplicasStand(h) /\ FilesStand(h)
    BY DEF HistoryInv
  <1>2. TableOK /\ RestOK /\ LoopIsForEver /\ RestOK' BY InvParts, PTL
  <1>3. /\ table \in [Replica -> [Bucket -> Seq(Node)]] /\ table[r] \in [Bucket -> Seq(Node)]
        /\ looping \in [Replica -> BOOLEAN] /\ walk \in [Replica -> Walk]
        /\ done \in [Replica -> 0 .. Len(requests)] /\ requests \in Seq(Request)
        /\ Len(requests) \in Nat
    BY <1>2 DEF TableOK, RestOK
  <1>4. ~looping[r] /\ requests' = requests /\ looping' = looping
    <2>1. Idle.op = "none" BY DEF Idle
    <2>2. walk[r] # Idle \/ Free(r)
      BY <2>1 DEF export_db_begin, export_db_bucket, export_db_end,
             import_db_begin, import_db_record, import_db_end
    <2>3. ~looping[r] BY <1>2, <2>2 DEF Free, LoopIsForEver
    <2> QED
      BY <2>3 DEF export_db_begin, export_db_bucket, export_db_end,
                  import_db_begin, import_db_record, import_db_end
  <1> DEFINE c == h[done[r]]
  <1>5. \A n \in 0 .. Len(requests) : h[n] \in Contents BY <1>1 DEF IsHistory
  <1>6. c \in Contents BY <1>3, <1>5
  <1>7. Stands(c, table[r], walk[r]) /\ ~Hung(h, requests, done[r])
    BY <1>1, <1>4 DEF ReplicasStand
  \* What is left to show of a step.
  <1>8. ASSUME Stands(h[done'[r]], table'[r], walk'[r]),
               ~Hung(h, requests, done'[r]),
               \A s \in Replica \ {r} :
                   table'[s] = table[s] /\ walk'[s] = walk[s] /\ done'[s] = done[s],
               \A f \in files' : f \in files \/ FileStands(f, h, requests)
        PROVE  HistoryInv'
    BY <1>1, <1>4, <1>8, OthersStand
  <1> HIDE DEF c
  <1>9. CASE export_db_begin(r)
    <2>1. Free(r) /\ table' = table /\ done' = done /\ files' = files
          /\ walk' = [walk EXCEPT ![r] = [op |-> "export", index |-> 0, out |-> <<>>]]
      BY <1>9 DEF export_db_begin
    <2>2. walk'[r] = [op |-> "export", index |-> 0, out |-> <<>>]
          /\ \A s \in Replica \ {r} : walk'[s] = walk[s]
      BY <1>3, <2>1
    <2>3. ContentOf(table[r]) = c BY <1>7, <2>1 DEF Free, Idle, Stands
    <2>4. walk'[r].op = "export" /\ walk'[r].index = 0 /\ walk'[r].out = <<>> BY <2>2
    <2>5. Stands(c, table[r], walk'[r])
      BY <2>3, <2>4, WrittenNothing DEF Stands
    <2> QED BY <1>7, <1>8, <2>1, <2>2, <2>5 DEF c
  <1>10. CASE export_db_bucket(r)
    <2> DEFINE w == walk[r]
               b == table[r][w.index]
    <2>1. /\ w.op = "export" /\ w.index < hash_table_len
          /\ walk' = [walk EXCEPT ![r].out = @ \o Records(b), ![r].index = @ + 1]
          /\ table' = table /\ done' = done /\ files' = files
      BY <1>10 DEF export_db_bucket, Records
    <2>2. w \in [op : {"export"}, index : 0 .. hash_table_len, out : Seq(Record)]
      BY <1>3, <2>1 DEF Walk, Idle
    <2>3. w.index \in Bucket BY <2>1, <2>2, LenAssumption DEF Bucket
    <2>4. walk' = [walk EXCEPT ![r] = [w EXCEPT !.out = w.out \o Records(b),
                                                !.index = w.index + 1]]
      BY <1>3, <2>1
    <2>5. walk'[r] = [w EXCEPT !.out = w.out \o Records(b), !.index = w.index + 1]
          /\ \A s \in Replica \ {r} : walk'[s] = walk[s]
      <3> HIDE DEF w, b
      <3> QED BY <1>3, <2>4
    <2>6. walk'[r].op = "export" /\ walk'[r].index = w.index + 1
          /\ walk'[r].out = w.out \o Records(b)
      <3> HIDE DEF w, b
      <3> QED BY <2>2, <2>5
    <2>7. ContentOf(table[r]) = c /\ Written(w.out, c, w.index)
      BY <1>7, <2>1 DEF Stands
    <2>8. Records(b) = c[w.index] BY <2>3, <2>7 DEF ContentOf
    <2>9. Written(w.out \o c[w.index], c, w.index + 1)
      <3> HIDE DEF w
      <3> QED BY <1>6, <2>3, <2>7, WrittenMore
    <2>10. Stands(c, table[r], walk'[r])
      <3> HIDE DEF w, b
      <3> QED BY <2>6, <2>7, <2>8, <2>9 DEF Stands
    <2> QED BY <1>7, <1>8, <2>1, <2>5, <2>10 DEF c
  <1>11. CASE export_db_end(r)
    <2>1. /\ walk[r].op = "export" /\ walk[r].index = hash_table_len
          /\ files' = files \cup {[to |-> s, records |-> walk[r].out, done |-> done[r]] :
                                    s \in Replica \ {r}}
          /\ walk' = [walk EXCEPT ![r] = Idle]
          /\ table' = table /\ done' = done
      BY <1>11 DEF export_db_end
    <2>2. walk'[r].op = "none" /\ \A s \in Replica \ {r} : walk'[s] = walk[s]
      BY <1>3, <2>1 DEF Idle
    <2>3. ContentOf(table[r]) = c BY <1>7, <2>1 DEF Stands
    <2>4. Written(walk[r].out, c, hash_table_len) BY <1>7, <2>1 DEF Stands
    <2>5. Stands(c, table[r], walk'[r]) BY <2>2, <2>3 DEF Stands
    <2>6. \A f \in files' : f \in files \/ FileStands(f, h, requests)
      BY <1>7, <2>1, <2>4 DEF c, FileStands
    <2> QED BY <1>7, <1>8, <2>1, <2>2, <2>5, <2>6 DEF c
  <1>12. CASE import_db_begin(r)
    <2>1. PICK f \in files : \E st \in [DOMAIN f.records -> Status] :
              /\ walk' = [walk EXCEPT ![r] =
                    [op |-> "import",
                     nodes |-> [i \in DOMAIN f.records |->
                        [key |-> f.records[i].key, task |-> f.records[i].task,
                         status |-> st[i]]]]]
              /\ files' = files \ {f}
              /\ done' = [done EXCEPT ![r] = f.done]
      BY <1>12 DEF import_db_begin
    <2>2. PICK st \in [DOMAIN f.records -> Status] :
              /\ walk' = [walk EXCEPT ![r] =
                    [op |-> "import",
                     nodes |-> [i \in DOMAIN f.records |->
                        [key |-> f.records[i].key, task |-> f.records[i].task,
                         status |-> st[i]]]]]
              /\ files' = files \ {f}
              /\ done' = [done EXCEPT ![r] = f.done]
      BY <2>1
    <2> DEFINE n == [i \in DOMAIN f.records |->
                        [key |-> f.records[i].key, task |-> f.records[i].task,
                         status |-> st[i]]]
    <2>3. f.records \in Seq(Record) /\ f.done \in 0 .. Len(requests)
      BY <1>2 DEF RestOK
    <2>4. Records(n) = f.records
      <3>1. DOMAIN n = DOMAIN f.records OBVIOUS
      <3>2. ASSUME NEW i \in DOMAIN f.records PROVE ToRecord(n[i]) = f.records[i]
        <4>1. f.records[i] \in Record BY <2>3
        <4> QED BY <4>1 DEF Record, ToRecord
      <3>3. f.records = [i \in DOMAIN f.records |-> f.records[i]] BY <2>3
      <3> HIDE DEF n
      <3> QED BY <3>1, <3>2, <3>3 DEF Records
    <2>5. walk'[r] = [op |-> "import", nodes |-> n]
          /\ \A s \in Replica \ {r} : walk'[s] = walk[s]
      <3>1. walk' = [walk EXCEPT ![r] = [op |-> "import", nodes |-> n]] BY <2>2
      <3> HIDE DEF n
      <3> QED BY <1>3, <3>1
    <2>6. walk'[r].op = "import" /\ walk'[r].nodes = n
      <3> HIDE DEF n
      <3> QED BY <2>5
    <2>7. done'[r] = f.done /\ (\A s \in Replica \ {r} : done'[s] = done[s])
          /\ files' \subseteq files
      BY <1>3, <2>2
    <2>8. table'[r] = Empty /\ \A s \in Replica \ {r} : table'[s] = table[s]
      BY <1>3, <1>12 DEF import_db_begin, import_db_clear
    <2>9. ~Hung(h, requests, f.done) /\ Flat(f.records, h[f.done], None)
      <3>1. ~Hung(h, requests, f.done) /\ Written(f.records, h[f.done], hash_table_len)
        BY <1>1 DEF FilesStand, FileStands
      <3> QED BY <1>5, <2>3, <3>1, WrittenIsFlat
    <2>10. h[f.done] \in Contents BY <1>5, <2>3
    <2>11. Stands(h[f.done], Empty, walk'[r])
      <3>1. \A b \in Bucket : Len(Empty[b]) = 0 BY DEF Empty
      <3>2. [b \in Bucket |-> Len(Empty[b])] = None BY <3>1 DEF None
      <3>3. \A b \in Bucket : Len(Empty[b]) <= Len(h[f.done][b])
        BY <2>10, <3>1, ContentTypes
      <3> HIDE DEF n
      <3> QED BY <2>4, <2>6, <2>9, <3>1, <3>2, <3>3 DEF Stands
    <2> HIDE DEF n
    <2> QED BY <1>8, <2>5, <2>7, <2>8, <2>9, <2>11
  <1>13. CASE import_db_record(r)
    <2> DEFINE w == walk[r]
               x == Head(w.nodes)
               k == hash_func(x.key)
               recs == Records(w.nodes)
               l == [b \in Bucket |-> Len(table[r][b])]
    <2>1. /\ w.op = "import" /\ w.nodes # <<>>
          /\ hash_table_insert(r, x)
          /\ walk' = [walk EXCEPT ![r].nodes = Tail(@)]
          /\ done' = done /\ files' = files
      BY <1>13 DEF import_db_record
    <2>2. w \in [op : {"import"}, nodes : Seq(Node)]
      BY <1>3, <2>1 DEF Walk, Idle
    <2>3. w.nodes \in Seq(Node) /\ x \in Node /\ x = w.nodes[1]
          /\ Tail(w.nodes) \in Seq(Node)
      BY <2>1, <2>2
    <2>4. walk' = [walk EXCEPT ![r] = [w EXCEPT !.nodes = Tail(w.nodes)]]
      BY <1>3, <2>1
    <2>5. walk'[r].op = "import" /\ walk'[r].nodes = Tail(w.nodes)
          /\ \A s \in Replica \ {r} : walk'[s] = walk[s]
      <3> HIDE DEF w
      <3> QED BY <1>3, <2>1, <2>2, <2>4
    <2>6. recs \in Seq(Record) /\ recs # <<>> /\ recs[1] = ToRecord(x)
          /\ recs[1].key = x.key /\ Len(recs) = Len(w.nodes) /\ Len(recs) \in Nat
      <3> HIDE DEF w, x
      <3>1. Len(w.nodes) \in Nat /\ 1 \in 1 .. Len(w.nodes) BY <2>1, <2>3
      <3>2. recs \in Seq(Record) /\ Len(recs) = Len(w.nodes)
            /\ recs[1] = ToRecord(w.nodes[1]) /\ recs[1].key = w.nodes[1].key
        BY <2>3, <3>1, RecordsIsSeq
      <3> HIDE DEF recs
      <3> QED BY <2>3, <3>1, <3>2
    <2>7. Records(Tail(w.nodes)) = Tail(recs)
      <3> HIDE DEF w
      <3> DEFINE s == w.nodes
                 a == Records(Tail(s))
                 z == Tail(recs)
      <3>1. s \in Seq(Node) /\ s # <<>> BY <2>1, <2>3
      <3>2. Tail(s) \in Seq(Node) /\ Len(Tail(s)) = Len(s) - 1 /\ Len(s) \in Nat
            /\ \A i \in 1 .. Len(s) - 1 : Tail(s)[i] = s[i + 1]
        <4> HIDE DEF s
        <4> QED BY <3>1
      <3>3. a \in Seq(Record) /\ Len(a) = Len(s) - 1
            /\ \A i \in 1 .. Len(s) - 1 : a[i] = ToRecord(Tail(s)[i])
        BY <3>2, RecordsIsSeq
      <3>4. \A i \in 1 .. Len(s) : recs[i] = ToRecord(s[i]) BY <3>1, RecordsIsSeq
      <3> HIDE DEF recs
      <3>5. z \in Seq(Record) /\ Len(z) = Len(s) - 1
            /\ \A i \in 1 .. Len(s) - 1 : z[i] = recs[i + 1]
        BY <2>6
      <3> HIDE DEF s, a, z
      <3>6. \A i \in 1 .. Len(s) - 1 : a[i] = z[i]
        <4> SUFFICES ASSUME NEW i \in 1 .. Len(s) - 1 PROVE a[i] = z[i] OBVIOUS
        <4>1. i + 1 \in 1 .. Len(s) BY <3>2
        <4> QED BY <3>2, <3>3, <3>4, <3>5, <4>1
      <3>7. a = z BY <3>3, <3>5, <3>6, SameList
      <3> QED BY <3>7 DEF a, z, s
    <2>8. /\ \A b \in Bucket :
                 /\ Len(table[r][b]) <= Len(c[b])
                 /\ \A i \in 1 .. Len(table[r][b]) : ToRecord(table[r][b][i]) = c[b][i]
          /\ Flat(recs, c, l)
      BY <1>7, <2>1 DEF Stands
    <2>9. l \in [Bucket -> Nat] /\ \A b \in Bucket : l[b] = Len(table[r][b]) /\ l[b] <= Len(c[b])
      BY <1>3, <2>8
    <2>10. /\ k \in Bucket /\ l[k] < Len(c[k]) /\ recs[1] = c[k][l[k] + 1]
           /\ Flat(Tail(recs), c, [l EXCEPT ![k] = l[k] + 1])
      <3>1. k = hash_func(recs[1].key) BY <2>6
      <3> HIDE DEF k, recs, l
      <3> QED BY <1>6, <2>6, <2>8, <2>9, <3>1, FlatPop
    <2>11. table' = [table EXCEPT ![r][k] = Append(@, x)]
      BY <2>1 DEF hash_table_insert
    <2> DEFINE t == table[r]
               u == table'[r]
    <2>12. /\ u[k] = Append(t[k], x) /\ (\A b \in Bucket : b # k => u[b] = t[b])
           /\ \A s \in Replica \ {r} : table'[s] = table[s]
      <3> HIDE DEF k, x
      <3> QED BY <1>3, <2>10, <2>11
    <2>13. t[k] \in Seq(Node) /\ Len(t[k]) \in Nat /\ Len(u[k]) = Len(t[k]) + 1
           /\ (\A i \in 1 .. Len(t[k]) : u[k][i] = t[k][i]) /\ u[k][Len(t[k]) + 1] = x
      <3>1. t[k] \in Seq(Node) BY <1>3, <2>10
      <3> HIDE DEF t, u, k, x
      <3> QED BY <2>3, <2>12, <3>1
    <2>14. [b \in Bucket |-> Len(u[b])] = [l EXCEPT ![k] = l[k] + 1]
      <3>1. \A b \in Bucket : Len(u[b]) = IF b = k THEN l[k] + 1 ELSE l[b]
        <4> HIDE DEF l, k, u
        <4> QED BY <2>9, <2>12, <2>13
      <3> HIDE DEF u, k
      <3> QED BY <3>1
    <2>15. ASSUME NEW b \in Bucket
           PROVE  /\ Len(u[b]) <= Len(c[b])
                  /\ \A i \in 1 .. Len(u[b]) : ToRecord(u[b][i]) = c[b][i]
      <3>1. CASE b # k BY <2>8, <2>12, <3>1
      <3>2. CASE b = k
        <4>1. l[k] = Len(t[k]) /\ Len(c[k]) \in Nat BY <1>6, <2>9, <2>10, ContentTypes
        <4>2. \A i \in 1 .. Len(t[k]) : ToRecord(t[k][i]) = c[k][i] BY <2>8, <2>10
        <4> HIDE DEF l, t, u, k, x, recs
        <4>3. Len(u[k]) <= Len(c[k]) BY <2>10, <2>13, <4>1
        <4>4. ASSUME NEW i \in 1 .. Len(u[k]) PROVE ToRecord(u[k][i]) = c[k][i]
          <5>1. i \in 1 .. Len(t[k]) \/ i = Len(t[k]) + 1 BY <2>13
          <5>2. CASE i \in 1 .. Len(t[k]) BY <2>13, <4>2, <5>2
          <5>3. CASE i = Len(t[k]) + 1 BY <2>6, <2>10, <2>13, <4>1, <5>3
          <5> QED BY <5>1, <5>2, <5>3
        <4> QED BY <3>2, <4>3, <4>4
      <3> QED BY <3>1, <3>2
    <2> HIDE DEF w, x, k, recs, l, t, u
    <2>16. Stands(c, u, walk'[r])
      BY <2>5, <2>7, <2>10, <2>14, <2>15 DEF Stands
    <2> QED BY <1>7, <1>8, <2>1, <2>5, <2>12, <2>16 DEF c, u
  <1>14. CASE import_db_end(r)
    <2>1. /\ walk[r].op = "import" /\ walk[r].nodes = <<>>
          /\ walk' = [walk EXCEPT ![r] = Idle]
          /\ table' = table /\ done' = done /\ files' = files
      BY <1>14 DEF import_db_end
    <2>2. walk'[r].op = "none" /\ \A s \in Replica \ {r} : walk'[s] = walk[s]
      BY <1>3, <2>1 DEF Idle
    <2> DEFINE t == table[r]
               l == [b \in Bucket |-> Len(t[b])]
    <2>3. Records(<<>>) = <<>> BY DEF Records
    <2>4. /\ \A b \in Bucket :
                 /\ Len(t[b]) <= Len(c[b])
                 /\ \A i \in 1 .. Len(t[b]) : ToRecord(t[b][i]) = c[b][i]
          /\ Flat(<<>>, c, l)
      BY <1>7, <2>1, <2>3 DEF Stands
    <2>5. l \in [Bucket -> Nat] BY <1>3
    <2>6. \A b \in Bucket : Len(c[b]) <= l[b]
      <3> HIDE DEF l
      <3> QED BY <1>6, <2>4, <2>5, FlatDone
    <2>7. ASSUME NEW b \in Bucket PROVE Records(t[b]) = c[b]
      <3>1. t[b] \in Seq(Node) /\ Len(t[b]) \in Nat BY <1>3
      <3>2. c[b] \in Seq(Record) /\ Len(c[b]) \in Nat BY <1>6, ContentTypes
      <3>3. Len(c[b]) = Len(t[b]) BY <2>4, <2>6, <3>1, <3>2
      <3> HIDE DEF t
      <3>4. Records(t[b]) \in Seq(Record) /\ Len(Records(t[b])) = Len(t[b])
            /\ \A i \in 1 .. Len(t[b]) : Records(t[b])[i] = c[b][i]
        BY <2>4, <3>1, RecordsIsSeq
      <3> QED BY <3>2, <3>3, <3>4, SameList
    <2>8. ContentOf(t) = c
      <3>1. c = [b \in Bucket |-> c[b]] BY <1>6 DEF Contents
      <3> HIDE DEF t
      <3> QED BY <2>7, <3>1 DEF ContentOf
    <2>9. Stands(c, t, walk'[r]) BY <2>2, <2>8 DEF Stands
    <2> QED BY <1>7, <1>8, <2>1, <2>2, <2>9 DEF c
  <1> QED BY <1>9, <1>10, <1>11, <1>12, <1>13, <1>14

\* Every step of the store keeps the history.
LEMMA NextHistory == StoreInv /\ StoreInv' /\ HistoryInv /\ [Next]_vars => HistoryInv'
  <1> SUFFICES ASSUME StoreInv, StoreInv', HistoryInv, [Next]_vars PROVE HistoryInv'
    OBVIOUS
  <1>1. CASE UNCHANGED vars
    BY <1>1 DEF vars, HistoryInv, ReplicasStand, FilesStand
  <1>2. CASE Next
    <2>1. PICK r \in Replica : handle_storage(r) \/ export_db(r) BY <1>2 DEF Next
    <2> QED BY <2>1, RequestHistory, WalkHistory DEF handle_storage, export_db
  <1> QED BY <1>1, <1>2

----------------------------------------------------------------------------

\* Replicas that stand for the same requests stand for the same content.
LEMMA HistoryAgrees == StoreInv /\ HistoryInv => Agreement
  <1> SUFFICES ASSUME StoreInv, HistoryInv, NEW r \in Replica, NEW s \in Replica,
                      done[r] = done[s], walk[r] = Idle, walk[s] = Idle
               PROVE  Content(r) = Content(s) /\ looping[r] = looping[s]
    BY DEF Agreement
  <1>1. PICK h : IsHistory(h, requests) /\ ReplicasStand(h) BY DEF HistoryInv
  <1>2. Idle.op = "none" BY DEF Idle
  <1>3. ContentOf(table[r]) = h[done[r]] /\ ContentOf(table[s]) = h[done[r]]
    BY <1>1, <1>2 DEF ReplicasStand, Stands
  <1>4. Content(r) = ContentOf(table[r]) /\ Content(s) = ContentOf(table[s])
    BY DEF Content, ContentOf, Records
  <1>5. (looping[r] <=> Hung(h, requests, done[r]))
        /\ (looping[s] <=> Hung(h, requests, done[r]))
    BY <1>1 DEF ReplicasStand
  <1>6. looping[r] \in BOOLEAN /\ looping[s] \in BOOLEAN BY DEF StoreInv, TypeOK
  <1>7. looping[r] = looping[s] BY <1>5, <1>6
  <1> QED BY <1>3, <1>4, <1>7

\* Replicas that have executed the same requests hold the same keys and texts
\* in the same places and hang at the same request (handle_storage), whichever
\* of the requests came to them through a checkpoint (export_db_internal,
\* import_db_internal), with any number of checkpoints under way, executed in
\* any order, and of any age.
THEOREM ReplicasAgree == Spec => []Agreement
  <1>1. Spec => []StoreInv BY StoreInvariant
  <1>2. StoreInv /\ StoreInv' /\ HistoryInv /\ [Next]_vars => HistoryInv'
    BY NextHistory
  <1>3. Init => HistoryInv BY InitHistory
  <1>4. StoreInv /\ HistoryInv => Agreement BY HistoryAgrees
  <1> QED BY <1>1, <1>2, <1>3, <1>4, PTL DEF Spec

----------------------------------------------------------------------------
(* Checkpoints and lists *)

\* The records of a key are those of its nodes.
LEMMA OfKeyRecords ==
    ASSUME NEW s \in Seq(Node), NEW k
    PROVE  OfKey(Records(s), k) = Records(OfKey(s, k))
  <1> DEFINE P == {u \in Seq(Node) : OfKey(Records(u), k) = Records(OfKey(u, k))}
  <1>1. <<>> \in P
    <2>1. <<>> \in Seq(Node) /\ Records(<<>>) = <<>> BY DEF Records
    <2> QED BY <2>1, OfKeyEmpty
  <1>2. ASSUME NEW u \in Seq(Node), NEW x \in Node, u \in P PROVE Append(u, x) \in P
    <2> DEFINE y == ToRecord(x)
    <2>1. y \in Record /\ y.key = x.key BY DEF ToRecord, Node, Record
    <2>2. Records(Append(u, x)) = Append(Records(u), y) BY RecordsAppend
    <2>3. Records(u) \in Seq(Record) BY RecordsIsSeq
    <2> HIDE DEF y
    <2>4. OfKey(Append(Records(u), y), k)
              = IF y.key = k THEN Append(OfKey(Records(u), k), y) ELSE OfKey(Records(u), k)
      BY <2>1, <2>3, OfKeyAppend
    <2>5. OfKey(u, k) \in Seq(Node)
          /\ OfKey(Append(u, x), k) = IF x.key = k THEN Append(OfKey(u, k), x) ELSE OfKey(u, k)
      BY OfKeyAppend
    <2>6. Records(Append(OfKey(u, k), x)) = Append(Records(OfKey(u, k)), y)
      BY <2>5, RecordsAppend DEF y
    <2>7. OfKey(Records(u), k) = Records(OfKey(u, k)) BY <1>2
    <2>8. OfKey(Records(Append(u, x)), k) = Records(OfKey(Append(u, x), k))
      BY <2>1, <2>2, <2>4, <2>5, <2>6, <2>7
    <2>9. Append(u, x) \in Seq(Node) OBVIOUS
    <2> QED BY <2>8, <2>9
  <1> HIDE DEF P
  <1>3. s \in P BY <1>1, <1>2, ListInduction
  <1> QED BY <1>3 DEF P

\* The texts are those that a checkpoint keeps.
LEMMA EntriesTexts ==
    ASSUME NEW s \in Seq(Node)
    PROVE  [i \in DOMAIN Entries(s) |-> Entries(s)[i].task] = TasksIn(Records(s))
  <1>1. DOMAIN Entries(s) = 1 .. Len(s) /\ \A i \in 1 .. Len(s) : Entries(s)[i] = EntryOf(s[i])
    BY EntriesFacts
  <1>2. DOMAIN Records(s) = 1 .. Len(s) /\ \A i \in 1 .. Len(s) : Records(s)[i] = ToRecord(s[i])
    BY RecordsIsSeq
  <1>3. \A i \in 1 .. Len(s) : Entries(s)[i].task = s[i].task BY <1>1 DEF EntryOf
  <1>4. \A i \in 1 .. Len(s) : Records(s)[i].task = s[i].task BY <1>2 DEF ToRecord
  <1> QED BY <1>1, <1>2, <1>3, <1>4 DEF TasksIn

\* What a checkpoint keeps of one key is what the table kept of it.
LEMMA WrittenOfKey ==
    ASSUME NEW c \in Contents, NEW out, Written(out, c, hash_table_len), NEW k \in Keys
    PROVE  OfKey(out, k) = OfKey(c[hash_func(k)], k)
  <1>1. PICK w : Rounds(w, c, hash_table_len) /\ out = w[hash_table_len] BY DEF Written
  <1>2. /\ w \in [0 .. hash_table_len -> Seq(Record)] /\ w[0] = <<>>
        /\ \A i \in 1 .. hash_table_len : w[i] = w[i - 1] \o c[i - 1]
    BY <1>1 DEF Rounds
  <1> DEFINE h == hash_func(k)
             o == OfKey(c[h], k)
             G == {n \in Nat : n <= hash_table_len =>
                      OfKey(w[n], k) = IF h < n THEN o ELSE <<>>}
  <1>3. h \in Bucket BY HashInRange
  <1>4. h \in Nat /\ h < hash_table_len BY <1>3, LenAssumption DEF Bucket
  <1>5. o \in Seq(Record)
    <2>1. c[h] \in Seq(Record) BY <1>3, ContentTypes
    <2> QED BY <2>1, OfKeyIsSeq
  <1> HIDE DEF o, h
  <1>6. 0 \in G
    <2>1. OfKey(w[0], k) = <<>> BY <1>2, OfKeyEmpty
    <2>2. ~(h < 0) BY <1>4
    <2> QED BY <2>1, <2>2
  <1>7. ASSUME NEW n \in Nat, n \in G PROVE n + 1 \in G
    <2> DEFINE m == n + 1
               a == OfKey(w[n], k)
               b == OfKey(c[n], k)
    <2>1. SUFFICES ASSUME m <= hash_table_len
                   PROVE  OfKey(w[m], k) = IF h < m THEN o ELSE <<>>
      BY DEF G
    <2>2. m \in 1 .. hash_table_len /\ m - 1 = n /\ n \in Bucket
          /\ n \in 0 .. hash_table_len /\ n <= hash_table_len
      BY <2>1, LenAssumption DEF Bucket
    <2>3. w[n] \in Seq(Record) /\ c[n] \in Seq(Record) BY <1>2, <2>2, ContentTypes
    <2>4. w[m] = w[n] \o c[n] BY <1>2, <2>2
    <2>5. OfKey(w[m], k) = a \o b
      <3> DEFINE x == w[n]
                 y == c[n]
      <3> HIDE DEF x, y
      <3>1. x \in Seq(Record) /\ y \in Seq(Record) BY <2>3 DEF x, y
      <3>2. OfKey(x \o y, k) = OfKey(x, k) \o OfKey(y, k) BY <3>1, OfKeyConcat
      <3> HIDE DEF m
      <3> QED BY <2>4, <3>2 DEF x, y
    <2>6. a = IF h < n THEN o ELSE <<>> BY <1>7, <2>2
    <2>7. CASE n = h
      <3>1. a = <<>> /\ b = o BY <1>4, <2>6, <2>7 DEF o
      <3>2. <<>> \o o = o BY <1>5
      <3>3. h < m BY <1>4, <2>7
      <3> HIDE DEF a, b, m
      <3> QED BY <2>5, <3>1, <3>2, <3>3
    <2>8. CASE n # h
      <3>1. \A i \in 1 .. Len(c[n]) : c[n][i].key # k
        <4>1. \A i \in 1 .. Len(c[n]) : hash_func(c[n][i].key) = n BY <2>2, ContentTypes
        <4> QED BY <2>8, <4>1 DEF h
      <3>2. b = <<>> BY <2>3, <3>1, OfKeyNone
      <3>3. h < m <=> h < n BY <1>4, <2>8
      <3>4. a \in Seq(Record) BY <1>5, <2>6
      <3> HIDE DEF a, b, m
      <3>5. a \o <<>> = a BY <3>4
      <3> QED BY <2>5, <2>6, <3>2, <3>3, <3>5
    <2> QED BY <2>7, <2>8
  <1> HIDE DEF G
  <1>8. hash_table_len \in Nat BY LenAssumption
  <1>9. hash_table_len \in G BY <1>6, <1>7, <1>8, Induction
  <1>10. OfKey(w[hash_table_len], k) = o BY <1>4, <1>8, <1>9 DEF G
  <1> QED BY <1>1, <1>10 DEF o, h

\* The texts of a table at rest are those of the file written of it.
LEMMA TextsWritten ==
    ASSUME NEW t \in Tables, NEW w, Pending(w) = <<>>, ContentOf(t) \in Contents,
           NEW out, Written(out, ContentOf(t), hash_table_len)
    PROVE  Abstract!Texts(ListIn(t, w)) = [k \in Keys |-> TasksIn(OfKey(out, k))]
  <1>1. ASSUME NEW k \in Keys
        PROVE  [i \in DOMAIN ListIn(t, w)[k] |-> ListIn(t, w)[k][i].task] = TasksIn(OfKey(out, k))
    <2> DEFINE h == hash_func(k)
               o == OfKey(t[h], k)
    <2>1. h \in Bucket /\ t[h] \in Seq(Node) /\ o \in Seq(Node) /\ ListIn(t, w)[k] = Entries(o)
      BY ListAtRest
    <2>2. OfKey(out, k) = OfKey(ContentOf(t)[h], k) BY WrittenOfKey
    <2>3. ContentOf(t)[h] = Records(t[h]) BY <2>1 DEF ContentOf
    <2>4. OfKey(Records(t[h]), k) = Records(o) BY <2>1, OfKeyRecords
    <2> HIDE DEF h, o
    <2>5. [i \in DOMAIN Entries(o) |-> Entries(o)[i].task] = TasksIn(Records(o))
      BY <2>1, EntriesTexts
    <2> QED BY <2>1, <2>2, <2>3, <2>4, <2>5
  <1> HIDE DEF ListIn
  <1> QED BY <1>1 DEF Abstract!Texts

\* The texts on their way to an empty table are those of the file.
LEMMA TextsRead ==
    ASSUME NEW n \in Seq(Node), NEW w, Pending(w) = n
    PROVE  Abstract!Texts(ListIn(Empty, w)) = [k \in Keys |-> TasksIn(OfKey(Records(n), k))]
  <1>1. Empty \in Tables BY EmptyContent DEF Tables
  <1>2. ASSUME NEW k \in Keys
        PROVE  [i \in DOMAIN ListIn(Empty, w)[k] |-> ListIn(Empty, w)[k][i].task]
                   = TasksIn(OfKey(Records(n), k))
    <2> DEFINE o == OfKey(n, k)
    <2>1. hash_func(k) \in Bucket /\ o \in Seq(Node)
          /\ ListIn(Empty, w)[k] = Entries(OfKey(Empty[hash_func(k)], k) \o o)
      BY <1>1, ListNodes
    <2>2. OfKey(Empty[hash_func(k)], k) = <<>> BY <2>1, OfKeyEmpty DEF Empty
    <2>3. OfKey(Records(n), k) = Records(o) BY OfKeyRecords
    <2> HIDE DEF o
    <2>4. <<>> \o o = o BY <2>1
    <2>5. [i \in DOMAIN Entries(o) |-> Entries(o)[i].task] = TasksIn(Records(o))
      BY <2>1, EntriesTexts
    <2> QED BY <2>1, <2>2, <2>3, <2>4, <2>5
  <1> HIDE DEF ListIn
  <1> QED BY <1>2 DEF Abstract!Texts

----------------------------------------------------------------------------
(* The table implements the lists *)

\* A step of one replica changes one list.
LEMMA ListsStep ==
    ASSUME NEW r \in Replica,
           \A s \in Replica \ {r} : table'[s] = table[s] /\ walk'[s] = walk[s]
    PROVE  Lists' = [Lists EXCEPT ![r] = ListIn(table'[r], walk'[r])]
  <1>1. Lists' = [s \in Replica |-> ListIn(table'[s], walk'[s])] BY DEF Lists
  <1>2. Lists = [s \in Replica |-> ListIn(table[s], walk[s])] BY DEF Lists
  <1> HIDE DEF Lists
  <1>3. \A s \in Replica : s # r => ListIn(table'[s], walk'[s]) = ListIn(table[s], walk[s])
    OBVIOUS
  <1> HIDE DEF ListIn
  <1> QED BY <1>1, <1>2, <1>3

\* ... or none.
LEMMA ListsSame ==
    ASSUME NEW r \in Replica,
           \A s \in Replica \ {r} : table'[s] = table[s] /\ walk'[s] = walk[s],
           ListIn(table'[r], walk'[r]) = ListIn(table[r], walk[r])
    PROVE  Lists' = Lists
  <1>1. Lists' = [s \in Replica |-> ListIn(table'[s], walk'[s])] BY DEF Lists
  <1>2. Lists = [s \in Replica |-> ListIn(table[s], walk[s])] BY DEF Lists
  <1> HIDE DEF Lists
  <1>3. \A s \in Replica : ListIn(table'[s], walk'[s]) = ListIn(table[s], walk[s])
    OBVIOUS
  <1> HIDE DEF ListIn
  <1> QED BY <1>1, <1>2, <1>3

\* The files that are there are the checkpoints that are there.
LEMMA SavedSame == files' = files => Saved' = Saved
  BY DEF Saved

\* Handling a request takes the next request.
LEMMA HandlesTakes ==
    ASSUME StoreInv, NEW r \in Replica, NEW q \in Request, Handles(r, q)
    PROVE  /\ Abstract!Take(r, q)
           /\ done[r] + 1 \in {done[r] + 1} \cap DOMAIN requests'
           /\ requests'[done[r] + 1] = q
  <1>1. /\ ~looping[r] /\ requests' \in Seq(Request)
        /\ done' = [done EXCEPT ![r] = @ + 1]
        /\ done' \in [Replica -> 0 .. Len(requests')]
        /\ requests'[done'[r]] = q /\ done'[r] > 0 /\ files' = files
    BY HandlesHistory
  <1>2. done \in [Replica -> 0 .. Len(requests)] BY DEF StoreInv, TypeOK
  <1>3. done'[r] = done[r] + 1 BY <1>1, <1>2
  <1>4. done'[r] \in DOMAIN requests' BY <1>1
  <1>5. requests' \in {requests, Append(requests, q)} BY DEF Handles
  <1>6. Saved' = Saved BY <1>1, SavedSame
  <1>7. Abstract!Take(r, q) BY <1>1, <1>5, <1>6 DEF Abstract!Take
  <1> QED BY <1>1, <1>3, <1>4, <1>7

\* Each request does to the list what the abstract request does.
LEMMA RequestRefines ==
    ASSUME StoreInv, StoreInv', NEW r \in Replica, NEW q \in Request, Handles(r, q),
           \/ handle_storage_add(r, q) \/ handle_storage_add_refused(r, q)
           \/ handle_storage_remove(r, q) \/ handle_storage_remove_absent(r, q)
           \/ handle_storage_modify(r, q) \/ handle_storage_modify_absent(r, q)
           \/ handle_storage_modify_loop(r, q)
           \/ handle_storage_other(r, q)
    PROVE  Abstract!ListNext
  <1> DEFINE t == table[r]
             u == table'[r]
             w == walk[r]
  <1>1. walk' = walk /\ walk[r] = Idle BY HandlesHistory
  <1>2. Pending(w) = <<>> BY <1>1 DEF Pending, Idle
  <1>3. table \in [Replica -> Tables] /\ table' \in [Replica -> Tables]
    BY DEF StoreInv, TypeOK, Tables
  <1>4. t \in Tables /\ u \in Tables /\ Lists[r] = ListIn(t, w) BY <1>3 DEF Lists
  <1>5. ASSUME \A s \in Replica \ {r} : table'[s] = table[s]
        PROVE  Lists' = [Lists EXCEPT ![r] = ListIn(u, w)]
    BY <1>1, <1>5, ListsStep
  <1>6. ASSUME UNCHANGED table PROVE Lists' = Lists
    BY <1>1, <1>6 DEF Lists
  <1>7. CASE handle_storage_add(r, q)
    <2> DEFINE k == KeyOf[q.task]
    <2>1. q.type = "ADD" /\ k # 0 /\ Return(r, 0) BY <1>7 DEF handle_storage_add
    <2>2. PICK st \in Status :
              hash_table_insert(r, [key |-> k, task |-> q.task, status |-> st])
      BY <1>7 DEF handle_storage_add
    <2> DEFINE x == [key |-> k, task |-> q.task, status |-> st]
    <2>3. q.task \in Task BY <2>1 DEF Request
    <2>4. k \in Keys BY <2>1, <2>3, KeyOfAssumption
    <2>5. x \in Node /\ x.key = k /\ EntryOf(x) = [task |-> q.task, status |-> st]
      BY <2>3, <2>4 DEF Node, EntryOf
    <2>6. table' = [table EXCEPT ![r][hash_func(x.key)] = Append(@, x)]
      BY <2>2 DEF hash_table_insert
    <2> HIDE DEF x
    <2>7. Appends(t, u, hash_func(x.key), x) /\ \A s \in Replica \ {r} : table'[s] = table[s]
      BY <1>3, <2>6 DEF Appends
    <2>8. ListIn(u, w) = [ListIn(t, w) EXCEPT ![k] = Append(@, EntryOf(x))]
      <3> HIDE DEF t, u, w, k
      <3>1. Appends(ListIn(t, w), ListIn(u, w), x.key, EntryOf(x))
        BY <1>2, <1>4, <2>5, <2>7, ListInsert
      <3> QED BY <2>5, <3>1 DEF Appends
    <2>9. Lists' = [Lists EXCEPT ![r][k] = Append(@, [task |-> q.task, status |-> st])]
      <3>1. Lists' = [Lists EXCEPT ![r] = ListIn(u, w)] BY <1>5, <2>7
      <3>2. ListIn(u, w) = [Lists[r] EXCEPT ![k] = Append(@, [task |-> q.task, status |-> st])]
        BY <1>4, <2>5, <2>8
      <3> HIDE DEF Lists, ListIn, t, u, w, k
      <3> QED BY <3>1, <3>2
    <2>10. Abstract!Answer(r, 0) BY <2>1 DEF Return, Abstract!Answer
    <2>11. Abstract!Add(r, q) BY <2>1, <2>9, <2>10 DEF Abstract!Add
    <2> QED BY <2>11, HandlesTakes DEF Abstract!ListNext
  <1>8. CASE handle_storage_add_refused(r, q)
    <2>1. q.type = "ADD" /\ KeyOf[q.task] = 0 /\ Return(r, -1) /\ Lists' = Lists
      BY <1>6, <1>8 DEF handle_storage_add_refused
    <2>2. Abstract!Answer(r, -1) BY <2>1 DEF Return, Abstract!Answer
    <2>3. Abstract!Add(r, q) BY <2>1, <2>2 DEF Abstract!Add
    <2> QED BY <2>3, HandlesTakes DEF Abstract!ListNext
  <1>9. CASE handle_storage_remove(r, q)
    <2> DEFINE k == q.key
               g == hash_func(k)
    <2>1. q.type = "REMOVE" /\ hash_table_delete(r, k) /\ Return(r, 0)
      BY <1>9 DEF handle_storage_remove
    <2>2. k \in Keys BY <2>1 DEF Request
    <2>3. PICK p \in DOMAIN table[r][g] :
              /\ FirstAt(table[r][g], k, p)
              /\ table' = [table EXCEPT ![r][g] = RemoveAt(@, p)]
      BY <2>1 DEF hash_table_delete
    <2>4. Drops(t, u, g, p) /\ \A s \in Replica \ {r} : table'[s] = table[s]
      BY <1>3, <2>3 DEF Drops
    <2>5. ListIn(t, w)[k] # <<>> /\ ListIn(u, w) = [ListIn(t, w) EXCEPT ![k] = Tail(@)]
      <3>1. p \in DOMAIN t[g] /\ FirstAt(t[g], k, p) BY <2>3
      <3> HIDE DEF t, u, w, k
      <3>2. ListIn(t, w)[k] # <<>> /\ Pops(ListIn(t, w), ListIn(u, w), k)
        BY <1>2, <1>4, <2>2, <2>4, <3>1, ListRemove
      <3> QED BY <3>2 DEF Pops
    <2>6. Lists[r][k] # <<>> /\ Lists' = [Lists EXCEPT ![r][k] = Tail(@)]
      <3>1. Lists' = [Lists EXCEPT ![r] = ListIn(u, w)] BY <1>5, <2>4
      <3>2. ListIn(u, w) = [Lists[r] EXCEPT ![k] = Tail(@)] BY <1>4, <2>5
      <3> HIDE DEF Lists, ListIn, t, u, w, k
      <3> QED BY <1>4, <2>5, <3>1, <3>2
    <2>7. Abstract!Answer(r, 0) BY <2>1 DEF Return, Abstract!Answer
    <2>8. Abstract!Remove(r, q) BY <2>1, <2>6, <2>7 DEF Abstract!Remove
    <2> QED BY <2>8, HandlesTakes DEF Abstract!ListNext
  <1>10. CASE handle_storage_remove_absent(r, q)
    <2>1. q.type = "REMOVE" /\ Return(r, -1) /\ Lists' = Lists
          /\ \A i \in DOMAIN t[hash_func(q.key)] : t[hash_func(q.key)][i].key # q.key
      BY <1>6, <1>10 DEF handle_storage_remove_absent
    <2>2. q.key \in Keys BY <2>1 DEF Request
    <2>3. Lists[r][q.key] = <<>>
      <3> HIDE DEF t, w
      <3> QED BY <1>2, <1>4, <2>1, <2>2, ListAbsent
    <2>4. Abstract!Answer(r, -1) BY <2>1 DEF Return, Abstract!Answer
    <2>5. Abstract!Remove(r, q) BY <2>1, <2>3, <2>4 DEF Abstract!Remove
    <2> QED BY <2>5, HandlesTakes DEF Abstract!ListNext
  <1>11. CASE handle_storage_modify(r, q)
    <2> DEFINE k == q.key
               g == hash_func(k)
               st == q.status
    <2>1. q.type = "MODIFY" /\ Finds(r, k) /\ Return(r, 0)
          /\ table' = [table EXCEPT ![r][g][1].status = st]
      BY <1>11 DEF handle_storage_modify
    <2>2. k \in Keys /\ st \in Status BY <2>1 DEF Request
    <2>3. Marks(t, u, g, st) /\ \A s \in Replica \ {r} : table'[s] = table[s]
      BY <1>3, <2>1 DEF Marks
    <2>4. ListIn(t, w)[k] # <<>> /\ ListIn(u, w) = [ListIn(t, w) EXCEPT ![k][1].status = st]
      <3>1. t[g] # <<>> /\ t[g][1].key = k BY <2>1 DEF Finds
      <3> HIDE DEF t, u, w, k, st
      <3>2. ListIn(t, w)[k] # <<>> /\ Marks(ListIn(t, w), ListIn(u, w), k, st)
        BY <1>2, <1>4, <2>2, <2>3, <3>1, ListModify
      <3> QED BY <3>2 DEF Marks
    <2>5. Lists[r][k] # <<>> /\ Lists' = [Lists EXCEPT ![r][k][1].status = st]
      <3>1. Lists' = [Lists EXCEPT ![r] = ListIn(u, w)] BY <1>5, <2>3
      <3>2. ListIn(u, w) = [Lists[r] EXCEPT ![k][1].status = st] BY <1>4, <2>4
      <3> HIDE DEF Lists, ListIn, t, u, w, k, st
      <3> QED BY <1>4, <2>4, <3>1, <3>2
    <2>6. Abstract!Answer(r, 0) BY <2>1 DEF Return, Abstract!Answer
    <2>7. Abstract!Modify(r, q) BY <2>1, <2>5, <2>6 DEF Abstract!Modify
    <2> QED BY <2>7, HandlesTakes DEF Abstract!ListNext
  <1>12. CASE handle_storage_modify_absent(r, q)
    <2>1. q.type = "MODIFY" /\ Return(r, 0) /\ Lists' = Lists /\ t[hash_func(q.key)] = <<>>
      BY <1>6, <1>12 DEF handle_storage_modify_absent
    <2>2. q.key \in Keys BY <2>1 DEF Request
    <2>3. Lists[r][q.key] = <<>>
      <3>1. \A i \in DOMAIN t[hash_func(q.key)] : t[hash_func(q.key)][i].key # q.key
        BY <2>1
      <3> HIDE DEF t, w
      <3> QED BY <1>2, <1>4, <2>2, <3>1, ListAbsent
    <2>4. Abstract!Answer(r, 0) BY <2>1 DEF Return, Abstract!Answer
    <2>5. Abstract!Modify(r, q) BY <2>1, <2>3, <2>4 DEF Abstract!Modify
    <2> QED BY <2>5, HandlesTakes DEF Abstract!ListNext
  <1>13. CASE handle_storage_modify_loop(r, q)
    <2> DEFINE g == hash_func(q.key)
               j == t[g][1].key
    <2>1. q.type = "MODIFY" /\ Loops(r, q.key) /\ Lists' = Lists /\ ret' = ret
          /\ looping' = [looping EXCEPT ![r] = TRUE]
      BY <1>6, <1>13 DEF handle_storage_modify_loop
    <2>2. q.key \in Keys BY <2>1 DEF Request
    <2>3. g \in Bucket BY <2>2, HashInRange
    <2>4. t[g] \in Seq(Node) /\ t[g] # <<>> /\ j # q.key BY <1>4, <2>1, <2>3 DEF Tables, Loops
    <2>5. 1 \in DOMAIN t[g] /\ t[g][1] \in Node
      <3> DEFINE b == t[g]
      <3>1. b \in Seq(Node) /\ b # <<>> BY <2>4
      <3> HIDE DEF b
      <3>2. 1 \in DOMAIN b /\ b[1] \in Node BY <3>1
      <3> QED BY <3>2 DEF b
    <2>6. j \in Keys BY <2>5 DEF Node
    <2>7. hash_func(j) = g BY <2>3, <2>5 DEF StoreInv, Placed
    <2>8. Lists[r][j] # <<>>
      <3>1. 1 \in DOMAIN t[hash_func(j)] /\ t[hash_func(j)][1].key = j BY <2>5, <2>7
      <3> HIDE DEF t, w, j
      <3> QED BY <1>2, <1>4, <2>6, <3>1, ListSome
    <2>9. Abstract!Hang(r, q)
      <3> HIDE DEF j
      <3> QED BY <2>1, <2>4, <2>6, <2>8 DEF Abstract!Hang
    <2> QED BY <2>9, HandlesTakes DEF Abstract!ListNext
  <1>14. CASE handle_storage_other(r, q)
    <2>1. q.type \in {"GET_ALL", "UNKNOWN"} /\ Lists' = Lists
          /\ Return(r, IF q.type = "UNKNOWN" THEN -1 ELSE 0)
      BY <1>6, <1>14 DEF handle_storage_other
    <2>2. Abstract!Other(r, q) BY <2>1 DEF Return, Abstract!Answer, Abstract!Other
    <2> QED BY <2>2, HandlesTakes DEF Abstract!ListNext
  <1> QED BY <1>7, <1>8, <1>9, <1>10, <1>11, <1>12, <1>13, <1>14

\* A walk counts by what it has yet to insert.
LEMMA ListByPending ==
    ASSUME NEW t, NEW w, NEW v, Pending(v) = Pending(w) PROVE ListIn(t, v) = ListIn(t, w)
  BY DEF ListIn

\* Two files to the same replica, of the same age, are the same file.
LEMMA SavedInjective ==
    ASSUME StoreInv, HistoryInv, NEW f \in files, NEW g \in files, SavedIn(f) = SavedIn(g)
    PROVE  f = g
  <1>1. f.to = g.to /\ f.done = g.done
    <2>1. SavedIn(f).to = f.to /\ SavedIn(f).done = f.done BY DEF SavedIn
    <2>2. SavedIn(g).to = g.to /\ SavedIn(g).done = g.done BY DEF SavedIn
    <2> QED BY <2>1, <2>2
  <1>2. PICK h : IsHistory(h, requests) /\ FilesStand(h) BY DEF HistoryInv
  <1>3. FileStands(f, h, requests) /\ FileStands(g, h, requests) BY <1>2 DEF FilesStand
  <1>4. Written(f.records, h[f.done], hash_table_len)
        /\ Written(g.records, h[f.done], hash_table_len)
    BY <1>1, <1>3 DEF FileStands
  <1>5. hash_table_len \in Nat BY LenAssumption
  <1>6. f.records = g.records BY <1>4, <1>5, WrittenIsFunction
  <1>7. f = [to |-> f.to, records |-> f.records, done |-> f.done]
        /\ g = [to |-> g.to, records |-> g.records, done |-> g.done]
    BY <1>3 DEF FileStands
  <1> QED BY <1>1, <1>6, <1>7

\* Writing a checkpoint bucket by bucket, and reading one record by record,
\* are not seen.
LEMMA WalkStutters ==
    ASSUME StoreInv, StoreInv', NEW r \in Replica,
           export_db_begin(r) \/ export_db_bucket(r) \/ import_db_record(r)
    PROVE  UNCHANGED Abstract!listVars
  <1>1. /\ ret' = ret /\ looping' = looping /\ files' = files
        /\ requests' = requests /\ done' = done
    BY DEF export_db_begin, export_db_bucket, import_db_record
  <1>2. Saved' = Saved BY <1>1, SavedSame
  <1>3. /\ walk \in [Replica -> Walk]
        /\ table \in [Replica -> Tables] /\ table' \in [Replica -> Tables]
    BY DEF StoreInv, TypeOK, Tables
  <1>4. SUFFICES Lists' = Lists BY <1>1, <1>2 DEF Abstract!listVars
  <1> DEFINE w == walk[r]
             v == walk'[r]
  <1>5. CASE export_db_begin(r)
    <2>1. table' = table /\ w = Idle
          /\ walk' = [walk EXCEPT ![r] = [op |-> "export", index |-> 0, out |-> <<>>]]
      BY <1>5 DEF export_db_begin, Free
    <2>2. v.op = "export" /\ \A s \in Replica \ {r} : walk'[s] = walk[s] BY <1>3, <2>1
    <2>3. Pending(v) = <<>> /\ Pending(w) = <<>> BY <2>1, <2>2 DEF Pending, Idle
    <2> QED BY <2>1, <2>2, <2>3, ListByPending, ListsSame
  <1>6. CASE export_db_bucket(r)
    <2>1. table' = table /\ w.op = "export" BY <1>6 DEF export_db_bucket
    <2>2. v.op = "export" /\ \A s \in Replica \ {r} : walk'[s] = walk[s]
      <3>1. w \in [op : {"export"}, index : 0 .. hash_table_len, out : Seq(Record)]
        BY <1>3, <2>1 DEF Walk, Idle
      <3>2. \E a, b : walk' = [walk EXCEPT ![r].out = a, ![r].index = b]
        BY <1>6 DEF export_db_bucket
      <3>3. PICK a, b : walk' = [walk EXCEPT ![r].out = a, ![r].index = b] BY <3>2
      <3>4. walk' = [walk EXCEPT ![r] = [w EXCEPT !.out = a, !.index = b]] BY <1>3, <3>3
      <3>5. v = [w EXCEPT !.out = a, !.index = b] /\ \A s \in Replica \ {r} : walk'[s] = walk[s]
        BY <1>3, <3>4
      <3> HIDE DEF w, v
      <3> QED BY <3>1, <3>5
    <2>3. Pending(v) = <<>> /\ Pending(w) = <<>> BY <2>1, <2>2 DEF Pending
    <2> QED BY <2>1, <2>2, <2>3, ListByPending, ListsSame
  <1>7. CASE import_db_record(r)
    <2> DEFINE n == w.nodes
               t == table[r]
               u == table'[r]
    <2>1. /\ w.op = "import" /\ n # <<>> /\ hash_table_insert(r, Head(n))
          /\ walk' = [walk EXCEPT ![r].nodes = Tail(@)]
      BY <1>7 DEF import_db_record
    <2>2. w \in [op : {"import"}, nodes : Seq(Node)] BY <1>3, <2>1 DEF Walk, Idle
    <2>3. n \in Seq(Node) /\ Head(n) = n[1] BY <2>2
    <2>4. v.op = "import" /\ v.nodes = Tail(n) /\ \A s \in Replica \ {r} : walk'[s] = walk[s]
      <3>1. walk' = [walk EXCEPT ![r] = [w EXCEPT !.nodes = Tail(n)]] BY <1>3, <2>1
      <3>2. v = [w EXCEPT !.nodes = Tail(n)] /\ \A s \in Replica \ {r} : walk'[s] = walk[s]
        <4> DEFINE z == [w EXCEPT !.nodes = Tail(n)]
        <4> HIDE DEF z
        <4>1. walk' = [walk EXCEPT ![r] = z] BY <3>1 DEF z
        <4>2. v = z /\ \A s \in Replica \ {r} : walk'[s] = walk[s] BY <1>3, <4>1
        <4> QED BY <4>2 DEF z
      <3> HIDE DEF w, v
      <3> QED BY <2>2, <3>2
    <2>5. Pending(w) = n /\ Pending(v) = Tail(n) BY <2>1, <2>4 DEF Pending
    <2>6. t \in Tables /\ u \in Tables BY <1>3
    <2>7. Appends(t, u, hash_func(n[1].key), n[1]) /\ \A s \in Replica \ {r} : table'[s] = table[s]
      <3> DEFINE x == n[1]
      <3> HIDE DEF x
      <3>1. table' = [table EXCEPT ![r][hash_func(x.key)] = Append(@, x)]
        BY <2>1, <2>3 DEF hash_table_insert, x
      <3>2. Appends(t, u, hash_func(x.key), x) /\ \A s \in Replica \ {r} : table'[s] = table[s]
        BY <1>3, <3>1 DEF Appends
      <3> QED BY <3>2 DEF x
    <2>8. ListIn(u, v) = ListIn(t, w)
      <3> HIDE DEF t, u, w, v, n
      <3> QED BY <2>1, <2>3, <2>5, <2>6, <2>7, ListRecord
    <2> QED BY <2>4, <2>7, <2>8, ListsSame
  <1> QED BY <1>5, <1>6, <1>7

\* The end of the file: the checkpoint has been saved.
LEMMA ExportRefines ==
    ASSUME StoreInv, StoreInv', HistoryInv, NEW r \in Replica, export_db_end(r)
    PROVE  Abstract!Save(r)
  <1> DEFINE w == walk[r]
             t == table[r]
             out == w.out
  <1>1. /\ w.op = "export" /\ w.index = hash_table_len
        /\ files' = files \cup {[to |-> s, records |-> out, done |-> done[r]] :
                                  s \in Replica \ {r}}
        /\ walk' = [walk EXCEPT ![r] = Idle]
        /\ table' = table /\ ret' = ret /\ looping' = looping
        /\ requests' = requests /\ done' = done
    BY DEF export_db_end
  <1>2. walk \in [Replica -> Walk] /\ t \in Tables BY DEF StoreInv, TypeOK, Tables
  <1>3. ~looping[r] BY <1>1 DEF StoreInv, LoopIsForEver, Idle
  <1>4. walk'[r] = Idle /\ \A s \in Replica \ {r} : walk'[s] = walk[s] BY <1>1, <1>2
  <1>5. Pending(walk'[r]) = <<>> /\ Pending(w) = <<>> BY <1>1, <1>4 DEF Pending, Idle
  <1>6. Lists' = Lists BY <1>1, <1>4, <1>5, ListByPending, ListsSame
  <1>7. Lists[r] = ListIn(t, w) BY DEF Lists
  <1>8. Written(out, ContentOf(t), hash_table_len) /\ ContentOf(t) \in Contents
    <2>1. PICK h : IsHistory(h, requests) /\ ReplicasStand(h) BY DEF HistoryInv
    <2>2. Stands(h[done[r]], t, w) BY <2>1 DEF ReplicasStand
    <2>3. done[r] \in 0 .. Len(requests) BY DEF StoreInv, TypeOK
    <2>4. h[done[r]] \in Contents BY <2>1, <2>3 DEF IsHistory
    <2> QED BY <1>1, <2>2, <2>4 DEF Stands
  <1> DEFINE x == [k \in Keys |-> TasksIn(OfKey(out, k))]
  <1>9. Abstract!Texts(Lists[r]) = x
    <2> HIDE DEF w, t, out
    <2> QED BY <1>2, <1>5, <1>7, <1>8, TextsWritten
  <1>10. \A s : SavedIn([to |-> s, records |-> out, done |-> done[r]])
                    = [to |-> s, texts |-> x, done |-> done[r]]
    BY DEF SavedIn
  <1> HIDE DEF x, out
  <1>11. Saved' = Saved \cup {[to |-> s, texts |-> x, done |-> done[r]] : s \in Replica \ {r}}
    <2> DEFINE F == {[to |-> s, records |-> out, done |-> done[r]] : s \in Replica \ {r}}
               X == {[to |-> s, texts |-> x, done |-> done[r]] : s \in Replica \ {r}}
    <2>1. Saved' = {SavedIn(f) : f \in files'} /\ Saved = {SavedIn(f) : f \in files} BY DEF Saved
    <2>2. files' = files \cup F BY <1>1
    <2>3. {SavedIn(f) : f \in F} = X
      <3>1. {SavedIn(f) : f \in F}
                = {SavedIn([to |-> s, records |-> out, done |-> done[r]]) : s \in Replica \ {r}}
        OBVIOUS
      <3> QED BY <1>10, <3>1
    <2> HIDE DEF F, X
    <2>4. Saved' = Saved \cup {SavedIn(f) : f \in F} BY <2>1, <2>2
    <2>5. Saved' = Saved \cup X BY <2>3, <2>4
    <2> QED BY <2>5 DEF X
  <1> QED BY <1>1, <1>3, <1>6, <1>9, <1>11 DEF Abstract!Save

\* A file is opened: the list is the one that was saved in it.
LEMMA ImportRefines ==
    ASSUME StoreInv, StoreInv', HistoryInv, NEW r \in Replica, import_db_begin(r)
    PROVE  Abstract!Restore(r)
  <1>1. ~looping[r] /\ ret' = ret /\ looping' = looping /\ requests' = requests
        /\ import_db_clear(r)
    BY DEF import_db_begin, Free
  <1>2. PICK f \in files : f.to = r /\ \E st \in [DOMAIN f.records -> Status] :
            /\ walk' = [walk EXCEPT ![r] =
                  [op |-> "import",
                   nodes |-> [i \in DOMAIN f.records |->
                      [key |-> f.records[i].key, task |-> f.records[i].task,
                       status |-> st[i]]]]]
            /\ files' = files \ {f}
            /\ done' = [done EXCEPT ![r] = f.done]
    BY DEF import_db_begin
  <1>3. PICK st \in [DOMAIN f.records -> Status] :
            walk' = [walk EXCEPT ![r] =
                  [op |-> "import",
                   nodes |-> [i \in DOMAIN f.records |->
                      [key |-> f.records[i].key, task |-> f.records[i].task,
                       status |-> st[i]]]]]
    BY <1>2
  <1> DEFINE n == [i \in DOMAIN f.records |->
                      [key |-> f.records[i].key, task |-> f.records[i].task,
                       status |-> st[i]]]
             v == walk'[r]
  <1>4. walk \in [Replica -> Walk] /\ table \in [Replica -> Tables]
        /\ done \in [Replica -> 0 .. Len(requests)] /\ f.records \in Seq(Record)
    BY DEF StoreInv, TypeOK, Tables
  <1>5. n \in Seq(Node) /\ Records(n) = f.records
    <2> DEFINE s == f.records
    <2>1. s \in Seq(Record) /\ Len(s) \in Nat /\ DOMAIN s = 1 .. Len(s) BY <1>4
    <2>2. ASSUME NEW i \in 1 .. Len(s) PROVE n[i] \in Node /\ ToRecord(n[i]) = s[i]
      <3>1. s[i] \in Record /\ st[i] \in Status
            /\ n[i] = [key |-> s[i].key, task |-> s[i].task, status |-> st[i]]
        BY <2>1
      <3> HIDE DEF n, s
      <3> QED BY <3>1 DEF Record, Node, ToRecord
    <2>3. n = [i \in 1 .. Len(s) |-> n[i]] BY <2>1
    <2>4. s = [i \in 1 .. Len(s) |-> s[i]] BY <2>1
    <2> HIDE DEF n, s
    <2>5. n \in Seq(Node) /\ DOMAIN n = 1 .. Len(s) BY <2>1, <2>2, <2>3
    <2>6. Records(n) = s BY <2>2, <2>4, <2>5 DEF Records
    <2> QED BY <2>5, <2>6 DEF s
  <1>6. v = [op |-> "import", nodes |-> n] /\ \A s \in Replica \ {r} : walk'[s] = walk[s]
    <2>1. walk' = [walk EXCEPT ![r] = [op |-> "import", nodes |-> n]] BY <1>3
    <2> HIDE DEF n
    <2> QED BY <1>4, <2>1
  <1> HIDE DEF n
  <1>7. Pending(v) = n BY <1>6 DEF Pending
  <1>8. table'[r] = Empty /\ \A s \in Replica \ {r} : table'[s] = table[s]
    BY <1>1, <1>4 DEF import_db_clear
  <1> DEFINE L == ListIn(Empty, v)
  <1>9. Lists' = [Lists EXCEPT ![r] = L] BY <1>6, <1>8, ListsStep
  <1>10. Lists'[r] = L
    <2> HIDE DEF L
    <2>1. Lists = [s \in Replica |-> Lists[s]] BY DEF Lists
    <2> HIDE DEF Lists
    <2> QED BY <1>9, <2>1
  <1>11. Abstract!Texts(Lists'[r]) = [k \in Keys |-> TasksIn(OfKey(f.records, k))]
    <2> HIDE DEF v
    <2>1. Abstract!Texts(L) = [k \in Keys |-> TasksIn(OfKey(Records(n), k))]
      BY <1>5, <1>7, TextsRead
    <2> QED BY <1>5, <1>10, <2>1
  <1>12. done'[r] = f.done /\ done' = [done EXCEPT ![r] = done'[r]] BY <1>2, <1>4
  <1>13. [to |-> r, texts |-> Abstract!Texts(Lists'[r]), done |-> done'[r]] = SavedIn(f)
    BY <1>2, <1>11, <1>12 DEF SavedIn
  <1>14. SavedIn(f) \in Saved /\ Saved' = Saved \ {SavedIn(f)}
    <2>1. Saved' = {SavedIn(g) : g \in files'} /\ Saved = {SavedIn(g) : g \in files} BY DEF Saved
    <2>2. files' = files \ {f} BY <1>2
    <2>3. \A g \in files : SavedIn(g) = SavedIn(f) => g = f BY SavedInjective
    <2> QED BY <2>1, <2>2, <2>3
  <1>15. Lists' = [Lists EXCEPT ![r] = Lists'[r]] BY <1>9, <1>10
  <1> QED BY <1>1, <1>12, <1>13, <1>14, <1>15 DEF Abstract!Restore

\* The end of the file is reached: the checkpoint is answered.
LEMMA EndRefines ==
    ASSUME StoreInv, StoreInv', NEW r \in Replica, import_db_end(r)
    PROVE  Abstract!Restored(r)
  <1>1. /\ walk[r].op = "import" /\ walk[r].nodes = <<>>
        /\ walk' = [walk EXCEPT ![r] = Idle]
        /\ ret' = [ret EXCEPT ![r] = 0]
        /\ table' = table /\ looping' = looping /\ files' = files
        /\ requests' = requests /\ done' = done
    BY DEF import_db_end
  <1>2. walk \in [Replica -> Walk] BY DEF StoreInv, TypeOK
  <1>3. ~looping[r] BY <1>1 DEF StoreInv, LoopIsForEver, Idle
  <1>4. walk'[r] = Idle /\ \A s \in Replica \ {r} : walk'[s] = walk[s] BY <1>1, <1>2
  <1>5. Pending(walk'[r]) = <<>> /\ Pending(walk[r]) = <<>> BY <1>1, <1>4 DEF Pending, Idle
  <1>6. Lists' = Lists BY <1>1, <1>4, <1>5, ListByPending, ListsSame
  <1>7. Saved' = Saved BY <1>1, SavedSame
  <1> QED BY <1>1, <1>3, <1>6, <1>7 DEF Abstract!Restored, Abstract!Answer

\* The store starts with empty lists.
LEMMA InitRefines == Init => Abstract!ListInit
  <1> SUFFICES ASSUME Init PROVE Abstract!ListInit OBVIOUS
  <1>1. ASSUME NEW r \in Replica PROVE ListIn(table[r], walk[r]) = [k \in Keys |-> <<>>]
    <2>1. table[r] = Empty /\ walk[r] = Idle BY DEF Init
    <2>2. Pending(Idle) = <<>> BY DEF Pending, Idle
    <2>3. Empty \in Tables BY EmptyContent DEF Tables
    <2>4. ASSUME NEW k \in Keys PROVE ListIn(Empty, Idle)[k] = <<>>
      <3>1. hash_func(k) \in Bucket BY HashInRange
      <3>2. \A i \in DOMAIN Empty[hash_func(k)] : Empty[hash_func(k)][i].key # k
        BY <3>1 DEF Empty
      <3> QED BY <2>2, <2>3, <3>2, ListAbsent
    <2>5. ListIn(Empty, Idle) = [k \in Keys |-> ListIn(Empty, Idle)[k]] BY DEF ListIn
    <2> HIDE DEF ListIn
    <2>6. ListIn(Empty, Idle) = [k \in Keys |-> <<>>] BY <2>4, <2>5
    <2> QED BY <2>1, <2>6
  <1>2. Lists = [r \in Replica |-> [k \in Keys |-> <<>>]] BY <1>1 DEF Lists
  <1>3. Saved = {} BY DEF Saved, Init
  <1> QED BY <1>2, <1>3 DEF Init, Abstract!ListInit

\* Every step of the store is one of the lists, or none.
LEMMA NextRefines ==
    StoreInv /\ StoreInv' /\ HistoryInv /\ [Next]_vars
        => [Abstract!ListNext]_(Abstract!listVars)
  <1> SUFFICES ASSUME StoreInv, StoreInv', HistoryInv, [Next]_vars
               PROVE  Abstract!ListNext \/ UNCHANGED Abstract!listVars
    OBVIOUS
  <1>1. CASE UNCHANGED vars
    <2>1. table' = table /\ walk' = walk /\ files' = files /\ looping' = looping
          /\ ret' = ret /\ requests' = requests /\ done' = done
      BY <1>1 DEF vars
    <2>2. Lists' = Lists BY <2>1 DEF Lists
    <2>3. Saved' = Saved BY <2>1, SavedSame
    <2> QED BY <2>1, <2>2, <2>3 DEF Abstract!listVars
  <1>2. ASSUME NEW r \in Replica, handle_storage(r) \/ export_db(r)
        PROVE  Abstract!ListNext \/ UNCHANGED Abstract!listVars
    <2>1. CASE \E q \in Request :
                   /\ Handles(r, q)
                   /\ \/ handle_storage_add(r, q) \/ handle_storage_add_refused(r, q)
                      \/ handle_storage_remove(r, q) \/ handle_storage_remove_absent(r, q)
                      \/ handle_storage_modify(r, q) \/ handle_storage_modify_absent(r, q)
                      \/ handle_storage_modify_loop(r, q)
                      \/ handle_storage_other(r, q)
      BY <2>1, RequestRefines
    <2>2. CASE export_db_begin(r) \/ export_db_bucket(r) \/ import_db_record(r)
      BY <2>2, WalkStutters
    <2>3. CASE export_db_end(r) BY <2>3, ExportRefines DEF Abstract!ListNext
    <2>4. CASE import_db_begin(r) BY <2>4, ImportRefines DEF Abstract!ListNext
    <2>5. CASE import_db_end(r) BY <2>5, EndRefines DEF Abstract!ListNext
    <2> QED BY <1>2, <2>1, <2>2, <2>3, <2>4, <2>5 DEF handle_storage, export_db
  <1> QED BY <1>1, <1>2 DEF Next

\* db.c and storage.c implement one list of tasks for each key: the buckets,
\* the nodes of other keys in them (hash_table_insert, hash_table_delete,
\* search_list) and the loops that write and read a checkpoint
\* (export_db_internal, import_db_internal) are not seen, except that a
\* modification may hang.
THEOREM ImplementsTaskList == Spec => IsTaskList
  <1>1. Spec => []StoreInv BY StoreInvariant
  <1>2. StoreInv /\ StoreInv' /\ HistoryInv /\ [Next]_vars => HistoryInv' BY NextHistory
  <1>3. Init => HistoryInv BY InitHistory
  <1>4. Init => Abstract!ListInit BY InitRefines
  <1>5. StoreInv /\ StoreInv' /\ HistoryInv /\ [Next]_vars
            => [Abstract!ListNext]_(Abstract!listVars)
    BY NextRefines
  <1> QED BY <1>1, <1>2, <1>3, <1>4, <1>5, PTL DEF Spec, IsTaskList, Abstract!ListSpec

====
