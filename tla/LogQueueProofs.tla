---- MODULE LogQueueProofs ----
(***************************************************************************)
(* Proofs about log.c's linked lists, for any set of nodes, any set of     *)
(* logs and any limits.                                                    *)
(***************************************************************************)
EXTENDS LogQueue, TLAPS

\* The invariant holds of the zeroed structure.
LEMMA QueueInvInit == Init => QueueInv
  BY NodeAssumption, LimitAssumption DEF Init, QueueInv, TypeOK, Linked, Owned

\* Appending to a sequence keeps its elements and adds one at the end.
LEMMA AppendFacts ==
  ASSUME NEW S, NEW s \in Seq(S), NEW x \in S
  PROVE  /\ Append(s, x) \in Seq(S)
         /\ Len(Append(s, x)) = Len(s) + 1
         /\ \A i \in 1 .. Len(s) : Append(s, x)[i] = s[i]
         /\ Append(s, x)[Len(s) + 1] = x
  OBVIOUS

\* The tail of a sequence that is not empty is the sequence shifted by one.
LEMMA TailFacts ==
  ASSUME NEW S, NEW s \in Seq(S), Len(s) > 0
  PROVE  /\ Tail(s) \in Seq(S)
         /\ Len(Tail(s)) = Len(s) - 1
         /\ \A i \in 1 .. Len(s) - 1 : Tail(s)[i] = s[i + 1]
         /\ Head(s) = s[1]
         /\ s # <<>>
         /\ \A i \in 1 .. Len(s) : s[i] \in S
  OBVIOUS

\* The ends of a log that is not empty are nodes of the log.
LEMMA EndsQueued ==
  ASSUME QueueInv, NEW t \in Type, count[t] > 0
  PROVE  /\ head[t] \in Node /\ tail[t] \in Node
         /\ where[head[t]] = "queued" /\ where[tail[t]] = "queued"
         /\ count[t] \in 1 .. Len(order[t])
         /\ Len(order[t]) > 0 /\ order[t] \in Seq(Node)
         /\ head[t] = order[t][1] /\ tail[t] = order[t][count[t]]
  BY TailFacts DEF QueueInv, TypeOK, Linked, Owned

\* What a dequeue of a log with two or more nodes relies on.
LEMMA SecondQueued ==
  ASSUME QueueInv, NEW t \in Type, count[t] > 1
  PROVE  /\ next[head[t]] = order[t][2]
         /\ next[head[t]] \in Node /\ where[next[head[t]]] = "queued"
         /\ next[head[t]] # head[t]
  <1>1. 1 \in 1 .. Len(order[t]) - 1 /\ 2 \in 1 .. Len(order[t])
    BY DEF QueueInv, TypeOK, Linked
  <1>2. order[t][1] \in Node /\ order[t][2] \in Node
    BY <1>1 DEF QueueInv, TypeOK
  <1>3. next[order[t][1]] = order[t][2] /\ head[t] = order[t][1]
    BY <1>1 DEF QueueInv, TypeOK, Linked
  <1>4. order[t][1] # order[t][2] /\ where[order[t][2]] = "queued"
    BY <1>1 DEF QueueInv, Owned
  <1> QED BY <1>2, <1>3, <1>4

\* enqueue_full touches nothing but the node it leaks.
LEMMA EnqueueFullKeeps ==
  ASSUME QueueInv, NEW t \in Type, NEW n \in Node, enqueue_full(t, n)
  PROVE  QueueInv'
  BY DEF QueueInv, TypeOK, Linked, Owned, enqueue_full

\* enqueue links a free node behind the tail.
LEMMA EnqueueKeeps ==
  ASSUME QueueInv, NEW t \in Type, NEW n \in Node, enqueue(t, n)
  PROVE  QueueInv'
  <1> DEFINE h == IF count[t] = 0 THEN n ELSE head[t]
             l == IF count[t] = 0 THEN n ELSE tail[t]
  <1>1. h \in Node /\ l \in Node
    BY EndsQueued DEF QueueInv, TypeOK
  <1>2. TypeOK'
    BY <1>1 DEF QueueInv, TypeOK, enqueue
  <1>3. /\ order[t] \in Seq(Node) /\ count[t] = Len(order[t])
        /\ count[t] < Limit[t] /\ Limit[t] \in Nat /\ where[n] = "free"
        /\ order'[t] = Append(order[t], n)
        /\ \A u \in Type \ {t} : order'[u] = order[u]
    BY LimitAssumption DEF QueueInv, TypeOK, Linked, enqueue
  <1>4. /\ Len(order'[t]) = Len(order[t]) + 1
        /\ \A i \in 1 .. Len(order[t]) : order'[t][i] = order[t][i]
        /\ order'[t][Len(order[t]) + 1] = n
    BY <1>3, AppendFacts
  <1>5. \A u \in Type : \A i \in 1 .. Len(order[u]) :
           order[u][i] \in Node /\ order[u][i] # n
    BY <1>3 DEF QueueInv, TypeOK, Owned
  <1>6. Linked'
    <2> SUFFICES ASSUME NEW u \in Type
                 PROVE  /\ count'[u] = Len(order'[u])
                        /\ count'[u] <= Limit[u]
                        /\ count'[u] > 0 => /\ head'[u] = order'[u][1]
                                            /\ tail'[u] = order'[u][count'[u]]
                        /\ \A i \in 1 .. Len(order'[u]) - 1 :
                              next'[order'[u][i]] = order'[u][i + 1]
      BY DEF Linked
    <2>1. CASE u # t
      <3>1. /\ count'[u] = count[u] /\ order'[u] = order[u]
            /\ head'[u] = head[u] /\ tail'[u] = tail[u]
        BY <2>1, <1>3 DEF enqueue, QueueInv, TypeOK
      <3>2. ASSUME NEW i \in 1 .. Len(order[u]) - 1
            PROVE  next'[order[u][i]] = next[order[u][i]]
        <4>1. i \in 1 .. Len(order[u]) /\ order[u][i] \in Node /\ order[u][i] # n
          BY <1>5 DEF QueueInv, TypeOK
        <4>2. order[u][i] # l
          <5>1. CASE count[t] = 0
            BY <5>1, <4>1
          <5>2. CASE count[t] # 0
            <6>1. count[t] \in 1 .. Len(order[t]) /\ tail[t] = order[t][count[t]]
              BY <5>2, EndsQueued DEF QueueInv, TypeOK
            <6> QED BY <6>1, <4>1, <2>1, <5>2 DEF QueueInv, Owned
          <5> QED BY <5>1, <5>2
        <4> QED BY <4>1, <4>2, <1>1 DEF enqueue, QueueInv, TypeOK
      <3> QED BY <3>1, <3>2 DEF QueueInv, Linked
    <2>2. CASE u = t
      <3>1. count'[t] = Len(order'[t]) /\ count'[t] <= Limit[t]
        BY <1>3, <1>4 DEF enqueue, QueueInv, TypeOK
      <3>2. head'[t] = h /\ tail'[t] = n
        BY DEF enqueue, QueueInv, TypeOK
      <3>3. head'[t] = order'[t][1] /\ tail'[t] = order'[t][count'[t]]
        <4>1. CASE count[t] = 0
          BY <4>1, <3>1, <3>2, <1>3, <1>4
        <4>2. CASE count[t] # 0
          <5>1. head[t] = order[t][1] /\ 1 \in 1 .. Len(order[t])
            BY <4>2, EndsQueued DEF QueueInv, TypeOK
          <5> QED BY <5>1, <4>2, <3>1, <3>2, <1>3, <1>4
        <4> QED BY <4>1, <4>2
      <3>4. ASSUME NEW i \in 1 .. Len(order[t])
            PROVE  next'[order'[t][i]] = order'[t][i + 1]
        <4>1. order'[t][i] = order[t][i] /\ order[t][i] # n /\ order[t][i] \in Node
          BY <1>4, <1>5
        <4>2. count[t] # 0 /\ tail[t] = order[t][count[t]] /\ count[t] \in 1 .. Len(order[t])
          BY <1>3, EndsQueued
        <4>3. CASE i = Len(order[t])
          <5>1. order[t][i] = tail[t] /\ l = tail[t]
            BY <4>3, <4>2, <1>3
          <5> QED BY <5>1, <4>1, <4>3, <1>4, <1>1 DEF enqueue, QueueInv, TypeOK
        <4>4. CASE i # Len(order[t])
          <5>1. i \in 1 .. Len(order[t]) - 1 /\ i + 1 \in 1 .. Len(order[t])
            BY <4>4, <1>3
          <5>2. order[t][i] # tail[t]
            BY <4>2, <4>4, <1>3 DEF QueueInv, Owned
          <5>3. next'[order[t][i]] = next[order[t][i]]
            BY <5>2, <4>1, <4>2, <1>1 DEF enqueue, QueueInv, TypeOK
          <5>4. next[order[t][i]] = order[t][i + 1]
            BY <5>1 DEF QueueInv, Linked
          <5> QED BY <5>1, <5>3, <5>4, <4>1, <1>4
        <4> QED BY <4>3, <4>4
      <3>5. Len(order'[t]) - 1 = Len(order[t])
        BY <1>3, <1>4
      <3> QED BY <2>2, <3>1, <3>3, <3>4, <3>5
    <2> QED BY <2>1, <2>2
  <1>7. Owned'
    <2> SUFFICES ASSUME NEW u \in Type, NEW v \in Type,
                        NEW i \in 1 .. Len(order'[u]), NEW j \in 1 .. Len(order'[v])
                 PROVE  /\ where'[order'[u][i]] = "queued"
                        /\ order'[u][i] = order'[v][j] => u = v /\ i = j
      BY DEF Owned
    <2>1. ASSUME NEW w \in Type, NEW k \in 1 .. Len(order'[w])
          PROVE  \/ w = t /\ k = Len(order[t]) + 1 /\ order'[w][k] = n
                 \/ /\ k \in 1 .. Len(order[w])
                    /\ order'[w][k] = order[w][k] /\ order[w][k] # n
                    /\ order[w][k] \in Node
      <3>1. CASE w # t
        <4>1. k \in 1 .. Len(order[w]) /\ order'[w][k] = order[w][k]
          BY <3>1, <1>3
        <4> QED BY <4>1, <1>5
      <3>2. CASE w = t /\ k = Len(order[t]) + 1
        BY <3>2, <1>4
      <3>3. CASE w = t /\ k # Len(order[t]) + 1
        <4>1. k \in 1 .. Len(order[t])
          BY <3>3, <1>3, <1>4
        <4> QED BY <3>3, <4>1, <1>4, <1>5
      <3> QED BY <3>1, <3>2, <3>3
    <2>2. where'[n] = "queued" /\ \A m \in Node \ {n} : where'[m] = where[m]
      BY DEF enqueue, QueueInv, TypeOK
    <2>3. ASSUME NEW w \in Type, NEW k \in 1 .. Len(order[w])
          PROVE  where[order[w][k]] = "queued"
      BY DEF QueueInv, Owned
    <2>4. where'[order'[u][i]] = "queued"
      BY <2>1, <2>2, <2>3
    <2>5. ASSUME order'[u][i] = order'[v][j] PROVE u = v /\ i = j
      <3>1. CASE u = t /\ i = Len(order[t]) + 1 /\ order'[u][i] = n
        <4>1. order'[v][j] = n
          BY <3>1, <2>5
        <4> QED BY <4>1, <3>1, <2>1
      <3>2. CASE /\ i \in 1 .. Len(order[u])
                 /\ order'[u][i] = order[u][i] /\ order[u][i] # n
        <4>1. j \in 1 .. Len(order[v]) /\ order'[v][j] = order[v][j]
          BY <3>2, <2>5, <2>1
        <4>2. order[u][i] = order[v][j]
          BY <4>1, <3>2, <2>5
        <4> QED BY <4>1, <4>2, <3>2 DEF QueueInv, Owned
      <3> QED BY <3>1, <3>2, <2>1
    <2> QED BY <2>4, <2>5
  <1> QED BY <1>2, <1>6, <1>7 DEF QueueInv

\* What both forms of dequeue do: they take the head out of the log and leave
\* next alone; head then is the second node if there is one.
LEMMA DequeueKeeps ==
  ASSUME QueueInv, NEW t \in Type, dequeue_last(t) \/ dequeue(t)
  PROVE  QueueInv'
  <1>1. /\ count[t] > 0 /\ count[t] = Len(order[t]) /\ order[t] \in Seq(Node)
        /\ head[t] \in Node /\ head[t] = order[t][1]
    BY EndsQueued DEF dequeue_last, dequeue, QueueInv, TypeOK, Linked
  <1>2. /\ order' = [order EXCEPT ![t] = Tail(@)]
        /\ where' = [where EXCEPT ![head[t]] = "out"]
        /\ count' = [count EXCEPT ![t] = @ - 1]
        /\ next' = next
        /\ got' = [got EXCEPT ![t] = head[t]]
    BY DEF dequeue_last, dequeue
  <1>3. /\ order'[t] = Tail(order[t])
        /\ \A u \in Type \ {t} : order'[u] = order[u]
    BY <1>2 DEF QueueInv, TypeOK
  <1>4. /\ Tail(order[t]) \in Seq(Node)
        /\ Len(order'[t]) = Len(order[t]) - 1
        /\ \A i \in 1 .. Len(order[t]) - 1 : order'[t][i] = order[t][i + 1]
    BY <1>1, <1>3, TailFacts
  <1>5. TypeOK'
    <2>1. order' \in [Type -> Seq(Node)]
      BY <1>2, <1>4 DEF QueueInv, TypeOK
    <2>2. count' \in [Type -> Nat]
      BY <1>1, <1>2 DEF QueueInv, TypeOK
    <2>3. CASE dequeue_last(t)
      <3>1. /\ head' \in [Type -> Node \cup {NULL}]
            /\ tail' \in [Type -> Node \cup {NULL}]
            /\ prev' \in [Node -> Node \cup {NULL}]
        BY <2>3 DEF dequeue_last, QueueInv, TypeOK
      <3> QED BY <3>1, <2>1, <2>2, <1>1, <1>2 DEF QueueInv, TypeOK
    <2>4. CASE dequeue(t)
      <3>1. next[head[t]] \in Node /\ tail[t] \in Node
        BY <2>4, <1>1, SecondQueued, EndsQueued DEF dequeue
      <3>2. /\ head' \in [Type -> Node \cup {NULL}]
            /\ tail' \in [Type -> Node \cup {NULL}]
            /\ prev' \in [Node -> Node \cup {NULL}]
        BY <2>4, <3>1 DEF dequeue, QueueInv, TypeOK
      <3> QED BY <3>2, <2>1, <2>2, <1>1, <1>2 DEF QueueInv, TypeOK
    <2> QED BY <2>3, <2>4
  <1>6. Linked'
    <2> SUFFICES ASSUME NEW u \in Type
                 PROVE  /\ count'[u] = Len(order'[u])
                        /\ count'[u] <= Limit[u]
                        /\ count'[u] > 0 => /\ head'[u] = order'[u][1]
                                            /\ tail'[u] = order'[u][count'[u]]
                        /\ \A i \in 1 .. Len(order'[u]) - 1 :
                              next'[order'[u][i]] = order'[u][i + 1]
      BY DEF Linked
    <2>1. CASE u # t
      <3>1. /\ count'[u] = count[u] /\ order'[u] = order[u]
            /\ head'[u] = head[u] /\ tail'[u] = tail[u]
        BY <2>1, <1>2, <1>3 DEF dequeue_last, dequeue, QueueInv, TypeOK
      <3> QED BY <3>1, <1>2 DEF QueueInv, Linked
    <2>2. CASE u = t
      <3>1. count'[t] = Len(order'[t]) /\ count'[t] = count[t] - 1
        BY <1>1, <1>2, <1>4 DEF QueueInv, TypeOK
      <3>2. count'[t] <= Limit[t]
        BY <3>1, <1>1, LimitAssumption DEF QueueInv, TypeOK, Linked
      <3>3. ASSUME count'[t] > 0
            PROVE  head'[t] = order'[t][1] /\ tail'[t] = order'[t][count'[t]]
        <4>1. dequeue(t) /\ count[t] > 1
          BY <3>1, <3>3 DEF dequeue_last, dequeue
        <4>2. head'[t] = order[t][2] /\ tail'[t] = tail[t]
          BY <4>1, SecondQueued DEF dequeue, QueueInv, TypeOK
        <4>3. tail[t] = order[t][count[t]]
          BY <1>1, EndsQueued
        <4>4. order'[t][1] = order[t][2]
          BY <4>1, <1>1, <1>4
        <4>5. order'[t][count'[t]] = order[t][count[t]]
          BY <4>1, <1>1, <1>4, <3>1
        <4> QED BY <4>2, <4>3, <4>4, <4>5
      <3>4. ASSUME NEW i \in 1 .. Len(order'[t]) - 1
            PROVE  next'[order'[t][i]] = order'[t][i + 1]
        <4>1. /\ i \in 1 .. Len(order[t]) - 1 /\ i + 1 \in 1 .. Len(order[t]) - 1
          BY <1>1, <1>4
        <4>2. order'[t][i] = order[t][i + 1] /\ order'[t][i + 1] = order[t][i + 2]
          BY <4>1, <1>4
        <4>3. next[order[t][i + 1]] = order[t][i + 2]
          BY <4>1 DEF QueueInv, Linked
        <4> QED BY <4>2, <4>3, <1>2
      <3> QED BY <2>2, <3>1, <3>2, <3>3, <3>4
    <2> QED BY <2>1, <2>2
  <1>7. Owned'
    <2> SUFFICES ASSUME NEW u \in Type, NEW v \in Type,
                        NEW i \in 1 .. Len(order'[u]), NEW j \in 1 .. Len(order'[v])
                 PROVE  /\ where'[order'[u][i]] = "queued"
                        /\ order'[u][i] = order'[v][j] => u = v /\ i = j
      BY DEF Owned
    <2> DEFINE old(w, k) == IF w = t THEN k + 1 ELSE k
    <2>1. ASSUME NEW w \in Type, NEW k \in 1 .. Len(order'[w])
          PROVE  /\ old(w, k) \in 1 .. Len(order[w])
                 /\ order'[w][k] = order[w][old(w, k)]
                 /\ w = t => old(w, k) # 1
      <3>1. CASE w = t
        BY <3>1, <1>1, <1>4
      <3>2. CASE w # t
        BY <3>2, <1>3
      <3> QED BY <3>1, <3>2
    <2>2. order'[u][i] # head[t] /\ order'[u][i] \in Node
      <3>1. order[u][old(u, i)] # order[t][1] /\ order[u][old(u, i)] \in Node
        BY <2>1, <1>1 DEF QueueInv, TypeOK, Owned
      <3> QED BY <3>1, <2>1, <1>1
    <2>3. where[order'[u][i]] = "queued"
      BY <2>1 DEF QueueInv, Owned
    <2>4. where'[order'[u][i]] = "queued"
      BY <2>2, <2>3, <1>2 DEF QueueInv, TypeOK
    <2>5. ASSUME order'[u][i] = order'[v][j] PROVE u = v /\ i = j
      <3>1. order[u][old(u, i)] = order[v][old(v, j)]
        BY <2>1, <2>5
      <3>2. u = v /\ old(u, i) = old(v, j)
        BY <2>1, <3>1 DEF QueueInv, Owned
      <3> QED BY <3>2, <2>1
    <2> QED BY <2>4, <2>5
  <1> QED BY <1>5, <1>6, <1>7 DEF QueueInv

\* Freeing a node that has left the log does not disturb the log.
LEMMA FreeKeeps ==
  ASSUME QueueInv, NEW n \in Node, free_node(n)
  PROVE  QueueInv'
  BY DEF QueueInv, TypeOK, Linked, Owned, free_node

\* The pointers and the order of arrival agree in every reachable state of
\* the logs, whatever is enqueued, dequeued, freed and allocated again.
THEOREM QueueInvariant == Spec => []QueueInv
  <1>1. QueueInv /\ [Next]_vars => QueueInv'
    <2> SUFFICES ASSUME QueueInv, [Next]_vars PROVE QueueInv'
      OBVIOUS
    <2>1. ASSUME NEW t \in Type, NEW n \in Node, enqueue_full(t, n) \/ enqueue(t, n)
          PROVE  QueueInv'
      BY <2>1, EnqueueFullKeeps, EnqueueKeeps
    <2>2. ASSUME NEW t \in Type, dequeue_last(t) \/ dequeue(t)
          PROVE  QueueInv'
      BY <2>2, DequeueKeeps
    <2>3. ASSUME NEW t \in Type, dequeue_empty(t) PROVE QueueInv'
      BY <2>3 DEF QueueInv, TypeOK, Linked, Owned, dequeue_empty
    <2>4. ASSUME NEW n \in Node, free_node(n) PROVE QueueInv'
      BY <2>4, FreeKeeps
    <2>5. CASE UNCHANGED vars
      BY <2>5 DEF QueueInv, TypeOK, Linked, Owned, vars
    <2> QED BY <2>1, <2>2, <2>3, <2>4, <2>5 DEF Next
  <1> QED BY <1>1, QueueInvInit, PTL DEF Spec

\* enqueue and dequeue never follow a pointer to a node that is not in the
\* log, although tail->next may point to one that has been freed.
THEOREM NoDanglingDeref == Spec => []DerefsQueued
  <1>1. QueueInv => DerefsQueued
    BY EndsQueued, SecondQueued DEF DerefsQueued
  <1> QED BY <1>1, QueueInvariant, PTL

\* log.c implements the two bounded first-in first-out logs.
THEOREM ImplementsFifo == Spec => IsFifo
  <1>1. Init => Fifo!FifoInit
    BY DEF Init, Fifo!FifoInit
  <1>2. QueueInv /\ [Next]_vars => [Fifo!FifoNext]_(Fifo!fifoVars)
    <2> SUFFICES ASSUME QueueInv, [Next]_vars
                 PROVE  [Fifo!FifoNext]_(Fifo!fifoVars)
      OBVIOUS
    <2> USE DEF Fifo!FifoNext, Fifo!fifoVars
    <2>1. ASSUME NEW t \in Type, NEW n \in Node, enqueue_full(t, n)
          PROVE  UNCHANGED Fifo!fifoVars
      BY <2>1 DEF enqueue_full
    <2>2. ASSUME NEW t \in Type, NEW n \in Node, enqueue(t, n)
          PROVE  Fifo!Put(t, n)
      BY <2>2 DEF enqueue, Fifo!Put, QueueInv, Linked
    <2>3. ASSUME NEW t \in Type, dequeue_last(t) \/ dequeue(t)
          PROVE  Fifo!Get(t)
      <3>0. count[t] > 0
        BY <2>3 DEF dequeue_last, dequeue, QueueInv, TypeOK
      <3>1. /\ Len(order[t]) > 0 /\ order[t] \in Seq(Node)
            /\ head[t] = order[t][1]
        BY <3>0, EndsQueued
      <3>2. order[t] # <<>> /\ Head(order[t]) = head[t]
        BY <3>1, TailFacts
      <3> QED BY <2>3, <3>2 DEF dequeue_last, dequeue, Fifo!Get
    <2>4. ASSUME NEW t \in Type, dequeue_empty(t)
          PROVE  Fifo!GetNothing(t)
      <3>1. order[t] \in Seq(Node) /\ Len(order[t]) = 0
        BY <2>4 DEF dequeue_empty, QueueInv, TypeOK, Linked
      <3>2. order[t] = <<>>
        BY <3>1
      <3> QED BY <2>4, <3>2 DEF dequeue_empty, Fifo!GetNothing
    <2>5. ASSUME NEW n \in Node, free_node(n) PROVE UNCHANGED Fifo!fifoVars
      BY <2>5 DEF free_node
    <2>6. CASE UNCHANGED vars
      BY <2>6 DEF vars
    <2> QED BY <2>1, <2>2, <2>3, <2>4, <2>5, <2>6 DEF Next
  <1> QED BY <1>1, <1>2, QueueInvariant, PTL DEF Spec, IsFifo, Fifo!FifoSpec

====
