---- MODULE BoundedFifo ----
(***************************************************************************)
(* What log.h promises: two logs, NORMAL and CONTROL, each a first-in      *)
(* first-out queue that refuses an element when it holds its limit.        *)
(* Server uses the logs through this abstraction.                          *)
(***************************************************************************)
EXTENDS Naturals, Sequences

CONSTANTS Node,   \* log nodes
          Type,   \* the log_msg_type values that name a queue
          Limit,  \* Limit[t]: NRL_Q_LIMIT and CTRL_Q_LIMIT
          NULL

VARIABLES q,      \* q[t]: the nodes in log t, oldest first
          got     \* got[t]: what the latest dequeue of t returned

fifoVars == <<q, got>>

FifoInit == /\ q = [t \in Type |-> <<>>]
            /\ got = [t \in Type |-> NULL]

Put(t, n) == /\ Len(q[t]) < Limit[t]
             /\ q' = [q EXCEPT ![t] = Append(@, n)]
             /\ UNCHANGED got

Get(t) == /\ q[t] # <<>>
          /\ got' = [got EXCEPT ![t] = Head(q[t])]
          /\ q' = [q EXCEPT ![t] = Tail(@)]

GetNothing(t) == /\ q[t] = <<>>
                 /\ got' = [got EXCEPT ![t] = NULL]
                 /\ UNCHANGED q

FifoNext == \E t \in Type : \/ \E n \in Node : Put(t, n)
                            \/ Get(t)
                            \/ GetNothing(t)

FifoSpec == FifoInit /\ [][FifoNext]_fifoVars

====
