---- MODULE LogQueue ----
(***************************************************************************)
(* log.c: the two logs as circular doubly linked lists in shared memory.   *)
(* Every operation runs under q_mutex and is one action.  Nodes come from  *)
(* malloc and go back to free, so a node is used again with the pointers   *)
(* of its former life in it; the last node's next may still point to a     *)
(* node that has been freed.                                               *)
(***************************************************************************)
EXTENDS Naturals, Sequences

CONSTANTS Node, Type, Limit, NULL

ASSUME NodeAssumption == NULL \notin Node

ASSUME LimitAssumption == Limit \in [Type -> Nat]

VARIABLES
    head, tail, count,  \* the fields of server_log_t, per log
    next, prev,         \* the links of log_node_t
    where,              \* where[n]: free, queued, out (with a worker), leaked
    got,                \* got[t]: what the latest dequeue of t returned
    order               \* history: the nodes of t in the order they came

vars == <<head, tail, count, next, prev, where, got, order>>

\* init_log_queue: memset to zero.
Init ==
    /\ head = [t \in Type |-> NULL]
    /\ tail = [t \in Type |-> NULL]
    /\ count = [t \in Type |-> 0]
    /\ next = [n \in Node |-> NULL]
    /\ prev = [n \in Node |-> NULL]
    /\ where = [n \in Node |-> "free"]
    /\ got = [t \in Type |-> NULL]
    /\ order = [t \in Type |-> <<>>]

\* enqueue_client_req allocates the node; when enqueue answers -1 neither it
\* nor handle_connection frees it.
enqueue_full(t, n) ==
    /\ where[n] = "free"
    /\ count[t] >= Limit[t]
    /\ where' = [where EXCEPT ![n] = "leaked"]
    /\ UNCHANGED <<head, tail, count, next, prev, got, order>>

\* Faulty variant: the limit is tested with <=.
enqueue_limit(t, n) ==
    LET h == IF count[t] = 0 THEN n ELSE head[t]
        l == IF count[t] = 0 THEN n ELSE tail[t]
    IN  /\ where[n] = "free"
        /\ count[t] <= Limit[t]
        /\ next' = [next EXCEPT ![n] = h, ![l] = n]
        /\ prev' = [prev EXCEPT ![n] = l, ![h] = n]
        /\ head' = [head EXCEPT ![t] = h]
        /\ tail' = [tail EXCEPT ![t] = n]
        /\ count' = [count EXCEPT ![t] = @ + 1]
        /\ where' = [where EXCEPT ![n] = "queued"]
        /\ order' = [order EXCEPT ![t] = Append(@, n)]
        /\ UNCHANGED got

\* Faulty variant: head, not tail, moves to the new node.
enqueue_front(t, n) ==
    LET h == IF count[t] = 0 THEN n ELSE head[t]
        l == IF count[t] = 0 THEN n ELSE tail[t]
    IN  /\ where[n] = "free"
        /\ count[t] < Limit[t]
        /\ next' = [next EXCEPT ![n] = h, ![l] = n]
        /\ prev' = [prev EXCEPT ![n] = l, ![h] = n]
        /\ head' = [head EXCEPT ![t] = n]
        /\ tail' = [tail EXCEPT ![t] = l]
        /\ count' = [count EXCEPT ![t] = @ + 1]
        /\ where' = [where EXCEPT ![n] = "queued"]
        /\ order' = [order EXCEPT ![t] = Append(@, n)]
        /\ UNCHANGED got

\* h and l are head and tail after the count == 0 case has set them.
enqueue(t, n) ==
    LET h == IF count[t] = 0 THEN n ELSE head[t]
        l == IF count[t] = 0 THEN n ELSE tail[t]
    IN  /\ where[n] = "free"
        /\ count[t] < Limit[t]
        /\ next' = [next EXCEPT ![n] = h, ![l] = n]
        /\ prev' = [prev EXCEPT ![n] = l, ![h] = n]
        /\ head' = [head EXCEPT ![t] = h]
        /\ tail' = [tail EXCEPT ![t] = n]
        /\ count' = [count EXCEPT ![t] = @ + 1]
        /\ where' = [where EXCEPT ![n] = "queued"]
        /\ order' = [order EXCEPT ![t] = Append(@, n)]
        /\ UNCHANGED got

\* dequeue of the only node.
dequeue_last(t) ==
    /\ count[t] = 1
    /\ got' = [got EXCEPT ![t] = head[t]]
    /\ head' = [head EXCEPT ![t] = NULL]
    /\ tail' = [tail EXCEPT ![t] = NULL]
    /\ count' = [count EXCEPT ![t] = @ - 1]
    /\ where' = [where EXCEPT ![head[t]] = "out"]
    /\ order' = [order EXCEPT ![t] = Tail(@)]
    /\ UNCHANGED <<next, prev>>

\* Faulty variant: the new head is found through prev.
dequeue_backwards(t) ==
    /\ count[t] > 1
    /\ got' = [got EXCEPT ![t] = head[t]]
    /\ head' = [head EXCEPT ![t] = prev[head[t]]]
    /\ count' = [count EXCEPT ![t] = @ - 1]
    /\ where' = [where EXCEPT ![head[t]] = "out"]
    /\ order' = [order EXCEPT ![t] = Tail(@)]
    /\ UNCHANGED <<tail, next, prev>>

\* dequeue with more behind it: the new head's prev becomes the tail; the
\* tail's next keeps pointing to the node that leaves.
dequeue(t) ==
    /\ count[t] > 1
    /\ got' = [got EXCEPT ![t] = head[t]]
    /\ prev' = [prev EXCEPT ![next[head[t]]] = tail[t]]
    /\ head' = [head EXCEPT ![t] = next[head[t]]]
    /\ count' = [count EXCEPT ![t] = @ - 1]
    /\ where' = [where EXCEPT ![head[t]] = "out"]
    /\ order' = [order EXCEPT ![t] = Tail(@)]
    /\ UNCHANGED <<tail, next>>

dequeue_empty(t) ==
    /\ count[t] = 0
    /\ got' = [got EXCEPT ![t] = NULL]
    /\ UNCHANGED <<head, tail, count, next, prev, where, order>>

\* The worker frees the node when it has handled its message.
free_node(n) ==
    /\ where[n] = "out"
    /\ where' = [where EXCEPT ![n] = "free"]
    /\ UNCHANGED <<head, tail, count, next, prev, got, order>>

Next ==
    \/ \E t \in Type, n \in Node : enqueue_full(t, n) \/ enqueue(t, n)
    \/ \E t \in Type : dequeue_last(t) \/ dequeue(t) \/ dequeue_empty(t)
    \/ \E n \in Node : free_node(n)

Spec == Init /\ [][Next]_vars

----------------------------------------------------------------------------
(* Properties *)

\* Every variable keeps its type.
TypeOK ==
    /\ head \in [Type -> Node \cup {NULL}]
    /\ tail \in [Type -> Node \cup {NULL}]
    /\ count \in [Type -> Nat]
    /\ next \in [Node -> Node \cup {NULL}]
    /\ prev \in [Node -> Node \cup {NULL}]
    /\ where \in [Node -> {"free", "queued", "out", "leaked"}]
    /\ got \in [Type -> Node \cup {NULL}]
    /\ order \in [Type -> Seq(Node)]

\* The pointers and the order agree: count is the length, head and tail are
\* the ends, and next leads from each node to the one that came after it.
Linked ==
    \A t \in Type :
        /\ count[t] = Len(order[t])
        /\ count[t] <= Limit[t]
        /\ count[t] > 0 => /\ head[t] = order[t][1]
                           /\ tail[t] = order[t][count[t]]
        /\ \A i \in 1 .. Len(order[t]) - 1 : next[order[t][i]] = order[t][i + 1]

\* A queued node is in one log, at one place in it.
Owned ==
    \A t, u \in Type : \A i \in 1 .. Len(order[t]), j \in 1 .. Len(order[u]) :
        /\ where[order[t][i]] = "queued"
        /\ order[t][i] = order[u][j] => t = u /\ i = j

\* The inductive invariant.
QueueInv == TypeOK /\ Linked /\ Owned

\* enqueue and dequeue follow a pointer only to a node that is in the log:
\* head and tail of a log that is not empty, and head->next of one that
\* holds two or more.  (tail->next may dangle, and is never followed.)
DerefsQueued ==
    \A t \in Type :
        /\ count[t] > 0 => /\ head[t] \in Node /\ where[head[t]] = "queued"
                           /\ tail[t] \in Node /\ where[tail[t]] = "queued"
        /\ count[t] > 1 => /\ next[head[t]] \in Node
                           /\ where[next[head[t]]] = "queued"
                           /\ next[head[t]] # head[t]

\* The linked lists implement the two bounded first-in first-out logs: what
\* dequeue returns is the oldest node not yet returned.
Fifo == INSTANCE BoundedFifo WITH q <- order

IsFifo == Fifo!FifoSpec

====
