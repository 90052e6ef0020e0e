---- MODULE TaskList ----
(***************************************************************************)
(* What a replica's task table promises: for every key the list of the     *)
(* tasks filed under it, oldest first.  Adding appends, removing and       *)
(* modifying concern the oldest, and a checkpoint brings back the texts    *)
(* that another replica held when it was taken.  Nothing is promised about *)
(* the status of a task that was added or brought by a checkpoint and has  *)
(* not been modified since.                                                *)
(***************************************************************************)
EXTENDS Integers, Sequences

CONSTANTS
    Replica,   \* the servers, each with a table of its own
    Keys,      \* the keys a client may name
    Task,      \* the texts of tasks
    KeyOf,     \* the key of a text
    Status     \* the values a task_status field can hold

VARIABLES
    list,      \* list[r][k]: the tasks of replica r under key k
    saved,     \* the checkpoints on their way, each to one replica
    stuck,     \* replica r will not come back from its latest request
    ret,       \* the result of the latest request r has handled
    requests,  \* the requests, in the order in which they are handled
    done       \* how many of them r's list stands for

listVars == <<list, saved, stuck, ret, requests, done>>

\* What a checkpoint says of a list.
Texts(l) == [k \in Keys |-> [i \in DOMAIN l[k] |-> l[k][i].task]]

ListInit ==
    /\ list = [r \in Replica |-> [k \in Keys |-> <<>>]]
    /\ saved = {}
    /\ stuck = [r \in Replica |-> FALSE]
    /\ ret = [r \in Replica |-> 0]
    /\ requests = <<>>
    /\ done = [r \in Replica |-> 0]

\* Replica r takes request q, which is new or has been handled elsewhere.
Take(r, q) ==
    /\ ~stuck[r]
    /\ requests' \in {requests, Append(requests, q)}
    /\ done' = [done EXCEPT ![r] = @ + 1]
    /\ UNCHANGED saved

Answer(r, result) == ret' = [ret EXCEPT ![r] = result] /\ UNCHANGED stuck

\* A task whose key is 0 is refused.
Add(r, q) ==
    /\ q.type = "ADD"
    /\ IF KeyOf[q.task] = 0
         THEN Answer(r, -1) /\ UNCHANGED list
         ELSE /\ Answer(r, 0)
              /\ \E st \in Status :
                     list' = [list EXCEPT ![r][KeyOf[q.task]] =
                                 Append(@, [task |-> q.task, status |-> st])]

Remove(r, q) ==
    /\ q.type = "REMOVE"
    /\ IF list[r][q.key] = <<>>
         THEN Answer(r, -1) /\ UNCHANGED list
         ELSE Answer(r, 0) /\ list' = [list EXCEPT ![r][q.key] = Tail(@)]

\* The result is 0 even if there is no such task.
Modify(r, q) ==
    /\ q.type = "MODIFY"
    /\ Answer(r, 0)
    /\ list' = IF list[r][q.key] = <<>> THEN list
               ELSE [list EXCEPT ![r][q.key][1].status = q.status]

\* A modification may never return, but only past a task with another key.
Hang(r, q) ==
    /\ q.type = "MODIFY"
    /\ \E j \in Keys \ {q.key} : list[r][j] # <<>>
    /\ stuck' = [stuck EXCEPT ![r] = TRUE]
    /\ UNCHANGED <<list, ret>>

\* A request that leaves the tasks alone.
Other(r, q) ==
    /\ q.type \in {"GET_ALL", "UNKNOWN"}
    /\ Answer(r, IF q.type = "UNKNOWN" THEN -1 ELSE 0)
    /\ UNCHANGED list

Save(r) ==
    /\ ~stuck[r]
    /\ saved' = saved \cup {[to |-> s, texts |-> Texts(list[r]), done |-> done[r]] :
                              s \in Replica \ {r}}
    /\ UNCHANGED <<list, stuck, ret, requests, done>>

Restore(r) ==
    /\ ~stuck[r]
    /\ list' = [list EXCEPT ![r] = list'[r]]
    /\ done' = [done EXCEPT ![r] = done'[r]]
    /\ LET c == [to |-> r, texts |-> Texts(list'[r]), done |-> done'[r]]
       IN  c \in saved /\ saved' = saved \ {c}
    /\ UNCHANGED <<stuck, ret, requests>>

\* The checkpoint's own answer.
Restored(r) == ~stuck[r] /\ Answer(r, 0) /\ UNCHANGED <<list, saved, requests, done>>

ListNext ==
    \E r \in Replica :
        \/ \E n \in {done[r] + 1} \cap DOMAIN requests' :
               LET q == requests'[n] IN
                   /\ Take(r, q)
                   /\ \/ Add(r, q) \/ Remove(r, q) \/ Modify(r, q)
                      \/ Hang(r, q) \/ Other(r, q)
        \/ Save(r) \/ Restore(r) \/ Restored(r)

ListSpec == ListInit /\ [][ListNext]_listVars
====
