---- MODULE Client ----
(***************************************************************************)
(* client.c: one request at a time is written to every server that can be  *)
(* reached, and the first answer decides.  send_and_get_response keeps an  *)
(* array of descriptors for poll and counts of how many are in use; all    *)
(* that is hard about it is that the array has one entry per server, the   *)
(* counts one per connection, and that servers answer, refuse, close or    *)
(* stay silent in any order.                                               *)
(***************************************************************************)
EXTENDS Integers, Sequences, FiniteSets

CONSTANTS
    Count,        \* server_arr.count
    Reach,        \* the sets of servers a request may find reachable
    MaxRequests   \* bound on the requests of the user

Server == 0 .. Count - 1

ASSUME CountAssumption == Count \in Nat \ {0}
ASSUME ReachAssumption == Reach \subseteq SUBSET Server
ASSUME MaxRequestsAssumption == MaxRequests \in Nat

VARIABLES
    pc,             \* menu, connect, poll, scan: where the client is
    stdin,          \* descriptor 0 is still the user's input
    sockets,        \* how many sockets the process has open
    before,         \* history: sockets when the request at hand began
    request_no_g, response_no_g,
    reach,          \* the servers this request can connect to
    written,        \* history: the servers it has been written to
    i,              \* the loop's index while connecting
    fd,             \* pfds[j].fd: "zero" as memset left it, "conn" an open
                    \* connection, "stale" a closed one, "minus" for -1
    nfds, num_open_fds, success,
    revents,        \* the entries poll has flagged and the scan has not met
    conn,           \* conn[j]: nothing, a request waiting at server j, or
                    \* what j has answered
    answers         \* history: the answers taken from this request's servers

vars == <<pc, stdin, sockets, before, request_no_g, response_no_g, reach,
          written, i, fd, nfds, num_open_fds, success, revents, conn, answers>>

Polled == 0 .. nfds - 1

Init ==
    /\ pc = "menu"
    /\ stdin = TRUE /\ sockets = 0 /\ before = 0
    /\ request_no_g = 0 /\ response_no_g = 0
    /\ reach = Server /\ written = {} /\ i = 0
    /\ fd = [j \in Server |-> "zero"]
    /\ nfds = 0 /\ num_open_fds = 0 /\ success = FALSE
    /\ revents = {}
    /\ conn = [j \in Server |-> "none"]
    /\ answers = <<>>

\* Faulty variant: a request keeps the number of the one before.
handle_task_same_no ==
    /\ pc = "menu" /\ stdin /\ request_no_g < MaxRequests
    /\ request_no_g' = IF request_no_g = 0 THEN 1 ELSE request_no_g
    /\ pc' = "connect"
    /\ reach' \in Reach /\ written' = {} /\ before' = sockets
    /\ i' = 0
    /\ fd' = [j \in Server |-> "zero"]
    /\ nfds' = 0 /\ num_open_fds' = 0 /\ success' = FALSE
    /\ answers' = <<>>
    /\ UNCHANGED <<stdin, sockets, response_no_g, revents, conn>>

\* handle_new_task, handle_remove_task, handle_mod_task: the user is asked,
\* the request is numbered and send_and_get_response starts.
handle_task ==
    /\ pc = "menu" /\ stdin /\ request_no_g < MaxRequests
    /\ request_no_g' = request_no_g + 1
    /\ pc' = "connect"
    /\ reach' \in Reach /\ written' = {} /\ before' = sockets
    /\ i' = 0
    /\ fd' = [j \in Server |-> "zero"]
    /\ nfds' = 0 /\ num_open_fds' = 0 /\ success' = FALSE
    /\ answers' = <<>>
    /\ UNCHANGED <<stdin, sockets, response_no_g, revents, conn>>

\* Choice 4.
quit ==
    /\ pc = "menu" /\ stdin
    /\ pc' = "exit"
    /\ UNCHANGED <<stdin, sockets, before, request_no_g, response_no_g, reach,
                   written, i, fd, nfds, num_open_fds, success, revents, conn,
                   answers>>

----------------------------------------------------------------------------
(* The loop over the servers *)

\* socket, connect and write succeed.
connect_to_server ==
    /\ pc = "connect" /\ i < Count /\ i \in reach
    /\ sockets' = sockets + 1
    /\ written' = written \cup {i}
    /\ fd' = [fd EXCEPT ![i] = "conn"]
    /\ conn' = [conn EXCEPT ![i] = "wait"]
    /\ nfds' = nfds + 1
    /\ i' = i + 1
    /\ UNCHANGED <<pc, stdin, before, request_no_g, response_no_g, reach,
                   num_open_fds, success, revents, answers>>

\* connect fails: connect_to_server returns -1 and leaves its socket open, the
\* entry keeps the 0 of memset.
connect_failed ==
    /\ pc = "connect" /\ i < Count /\ i \notin reach
    /\ sockets' = sockets + 1
    /\ i' = i + 1
    /\ UNCHANGED <<pc, stdin, before, request_no_g, response_no_g, reach,
                   written, fd, nfds, num_open_fds, success, revents, conn,
                   answers>>

\* write fails: the socket is closed, the entry keeps the 0 of memset.
write_failed ==
    /\ pc = "connect" /\ i < Count /\ i \in reach
    /\ i' = i + 1
    /\ UNCHANGED <<pc, stdin, sockets, before, request_no_g, response_no_g,
                   reach, written, fd, nfds, num_open_fds, success, revents,
                   conn, answers>>

connect_done ==
    /\ pc = "connect" /\ i = Count
    /\ num_open_fds' = nfds
    /\ pc' = IF nfds > 0 THEN "poll" ELSE "menu"
    /\ UNCHANGED <<stdin, sockets, before, request_no_g, response_no_g, reach,
                   written, i, fd, nfds, success, revents, conn, answers>>

\* Server j answers and closes, or closes without an answer (a backup that
\* drops the request after a checkpoint, a server that is recovering or has
\* crashed).
answer(j, a) ==
    /\ conn[j] = "wait"
    /\ conn' = [conn EXCEPT ![j] = a]
    /\ UNCHANGED <<pc, stdin, sockets, before, request_no_g, response_no_g,
                   reach, written, i, fd, nfds, num_open_fds, success, revents,
                   answers>>

----------------------------------------------------------------------------
(* The poll loop *)

\* The entries poll(pfds, nfds, -1) flags: connections with something to
\* read, and descriptors that have been closed (POLLNVAL).  Entries left at 0
\* ask for no events.
Events ==
    {j \in Polled : fd[j] = "stale"
                    \/ (fd[j] = "conn" /\ conn[j] \in {"OK", "FAIL", "eof"})}

poll ==
    /\ pc = "poll" /\ Events # {}
    /\ revents' = Events
    /\ pc' = "scan"
    /\ UNCHANGED <<stdin, sockets, before, request_no_g, response_no_g, reach,
                   written, i, fd, nfds, num_open_fds, success, conn, answers>>

\* The scan has come to entry j.
At(j) == pc = "scan" /\ j \in revents /\ \A k \in revents : j <= k

\* A flag other than POLLIN is passed over.
scan_stale(j) ==
    /\ At(j) /\ fd[j] = "stale"
    /\ revents' = revents \ {j}
    /\ UNCHANGED <<pc, stdin, sockets, before, request_no_g, response_no_g,
                   reach, written, i, fd, nfds, num_open_fds, success, conn,
                   answers>>

\* The stream of j holds an answer up to its blank line; at the end of the
\* stream before that the result is -1.
get_response_from_server(j) == conn[j] \in {"OK", "FAIL"}

parse_response_from_server(status) == IF status = "FAIL" THEN -1 ELSE 0

\* No answer: the descriptor is closed, but its entry and the count stay.
scan_eof(j) ==
    /\ At(j) /\ fd[j] = "conn" /\ ~get_response_from_server(j)
    /\ revents' = revents \ {j}
    /\ sockets' = sockets - 1
    /\ fd' = [fd EXCEPT ![j] = "stale"]
    /\ conn' = [conn EXCEPT ![j] = "none"]
    /\ UNCHANGED <<pc, stdin, before, request_no_g, response_no_g, reach,
                   written, i, nfds, num_open_fds, success, answers>>

\* Faulty variant: a duplicate answer ends the entry without the count.
scan_answer_uncounted(j) ==
    /\ At(j) /\ fd[j] = "conn" /\ get_response_from_server(j)
    /\ revents' = revents \ {j}
    /\ sockets' = sockets - 1
    /\ fd' = [fd EXCEPT ![j] = "minus"]
    /\ conn' = [conn EXCEPT ![j] = "none"]
    /\ answers' = Append(answers, conn[j])
    /\ IF request_no_g = response_no_g
         THEN UNCHANGED <<response_no_g, success, num_open_fds>>
         ELSE /\ response_no_g' = response_no_g + 1
              /\ num_open_fds' = num_open_fds - 1
              /\ success' = (success \/ parse_response_from_server(conn[j]) = 0)
    /\ UNCHANGED <<pc, stdin, before, request_no_g, reach, written, i, nfds>>

\* Faulty variant: every answer is counted as a new one.
scan_answer_all(j) ==
    /\ At(j) /\ fd[j] = "conn" /\ get_response_from_server(j)
    /\ revents' = revents \ {j}
    /\ sockets' = sockets - 1
    /\ fd' = [fd EXCEPT ![j] = "minus"]
    /\ conn' = [conn EXCEPT ![j] = "none"]
    /\ num_open_fds' = num_open_fds - 1
    /\ answers' = Append(answers, conn[j])
    /\ response_no_g' = response_no_g + 1
    /\ success' = (success \/ parse_response_from_server(conn[j]) = 0)
    /\ UNCHANGED <<pc, stdin, before, request_no_g, reach, written, i, nfds>>

\* An answer: the entry is done with.  The answer is looked at unless one
\* with the number response_no_g has been seen; FAIL is not a success.
scan_answer(j) ==
    /\ At(j) /\ fd[j] = "conn" /\ get_response_from_server(j)
    /\ revents' = revents \ {j}
    /\ sockets' = sockets - 1
    /\ fd' = [fd EXCEPT ![j] = "minus"]
    /\ conn' = [conn EXCEPT ![j] = "none"]
    /\ num_open_fds' = num_open_fds - 1
    /\ answers' = Append(answers, conn[j])
    /\ IF request_no_g = response_no_g
         THEN UNCHANGED <<response_no_g, success>>
         ELSE /\ response_no_g' = response_no_g + 1
              /\ success' = (success \/ parse_response_from_server(conn[j]) = 0)
    /\ UNCHANGED <<pc, stdin, before, request_no_g, reach, written, i, nfds>>

\* Faulty variant: after a success the loop ends and leaves the rest open.
scan_success_break ==
    /\ pc = "scan" /\ revents = {} /\ success
    /\ num_open_fds' = 0
    /\ pc' = "menu"
    /\ UNCHANGED <<stdin, sockets, before, request_no_g, response_no_g, reach,
                   written, i, fd, nfds, success, revents, conn, answers>>

\* After a success every polled entry that is not -1 is closed, an entry that
\* was never connected (descriptor 0, the user's input) like the others.  To
\* close a stale one again has no effect.
scan_success ==
    LET rest == {j \in Polled : fd[j] # "minus"} IN
    /\ pc = "scan" /\ revents = {} /\ success
    /\ stdin' = (stdin /\ \A j \in rest : fd[j] # "zero")
    /\ sockets' = sockets - Cardinality({j \in rest : fd[j] = "conn"})
    /\ conn' = [j \in Server |-> IF j \in rest THEN "none" ELSE conn[j]]
    /\ fd' = [j \in Server |-> IF j \in rest THEN "minus" ELSE fd[j]]
    /\ num_open_fds' = num_open_fds - Cardinality(rest)
    /\ pc' = IF num_open_fds' > 0 THEN "poll" ELSE "menu"
    /\ UNCHANGED <<before, request_no_g, response_no_g, reach, written, i, nfds,
                   success, revents, answers>>

scan_again ==
    /\ pc = "scan" /\ revents = {} /\ ~success
    /\ pc' = IF num_open_fds > 0 THEN "poll" ELSE "menu"
    /\ UNCHANGED <<stdin, sockets, before, request_no_g, response_no_g, reach,
                   written, i, fd, nfds, num_open_fds, success, revents, conn,
                   answers>>

----------------------------------------------------------------------------

send_and_get_response ==
    \/ connect_to_server \/ connect_failed \/ write_failed \/ connect_done
    \/ poll
    \/ \E j \in Server : scan_stale(j) \/ scan_eof(j) \/ scan_answer(j)
    \/ scan_success \/ scan_again

Answers(j) == \E a \in {"OK", "FAIL", "eof"} : answer(j, a)

Next ==
    \/ handle_task \/ quit
    \/ send_and_get_response
    \/ \E j \in Server : Answers(j)

Spec == Init /\ [][Next]_vars

\* The client runs, and every server that was sent a request answers it or
\* closes the connection some day.  The second half is an assumption about the
\* servers and not a fact: poll has no timeout, and a server whose worker hangs
\* in search_list keeps the connections of all requests it has logged, as a
\* backup does whose primary sends no more checkpoints.
FairSpec ==
    /\ Spec
    /\ WF_vars(send_and_get_response)
    /\ \A j \in Server : WF_vars(Answers(j))

----------------------------------------------------------------------------
(* Properties *)

\* Every variable keeps its type.
TypeOK ==
    /\ pc \in {"menu", "connect", "poll", "scan", "exit"}
    /\ stdin \in BOOLEAN /\ sockets \in Nat /\ before \in Nat
    /\ request_no_g \in 0 .. MaxRequests /\ response_no_g \in Nat
    /\ reach \subseteq Server /\ written \subseteq reach /\ i \in 0 .. Count
    /\ fd \in [Server -> {"zero", "conn", "stale", "minus"}]
    /\ nfds \in 0 .. Count /\ num_open_fds \in 0 .. Count
    /\ success \in BOOLEAN
    /\ revents \subseteq Server
    /\ conn \in [Server -> {"none", "wait", "OK", "FAIL", "eof"}]
    /\ answers \in Seq({"OK", "FAIL"})

\* num_open_fds counts the polled entries that are not -1, whichever servers
\* were reached and however entries ended: the loop neither ends early nor
\* counts below zero.
OpenCount ==
    pc \in {"poll", "scan"} =>
        num_open_fds = Cardinality({j \in Polled : fd[j] # "minus"})

\* The number of answers seen never passes the number of the request, and a
\* new request is ahead of it until its first answer: that answer is never
\* mistaken for a duplicate, even after requests that nobody answered.
NumbersInStep ==
    /\ response_no_g <= request_no_g
    /\ pc \notin {"menu", "exit"} /\ answers = <<>>
        => response_no_g < request_no_g

\* What the user is told is what the servers said: a success needs an OK, and
\* a request that has been answered and failed was answered FAIL first.
Truthful ==
    /\ success => \E n \in DOMAIN answers : answers[n] = "OK"
    /\ answers # <<>> /\ ~success => answers[1] = "FAIL"

ClientInv == TypeOK /\ OpenCount /\ NumbersInStep

\* The connections of a request that poll never looks at: pfds is indexed by
\* server and nfds counts connections.
Unpolled == {j \in written : j >= nfds}

\* What a request leaves behind, exactly: back at the menu the process has one
\* socket more for every server that could not be connected to, and for every
\* connection poll never looked at; all others are closed, whatever their
\* servers answered and when.  The user's input is closed if and only if the
\* request succeeded with an entry among the polled that was never connected.
LeavesBehind ==
    pc = "menu" =>
        /\ sockets = before + Cardinality(Server \ reach) + Cardinality(Unpolled)
        /\ stdin <=> ~(success /\ \E j \in Polled : j \notin written)


\* Nobody who was polled said OK, nobody is left to do so, and an entry still
\* counts as open: a server closed without an answer, and the loop turns for
\* ever on the closed descriptor, or the entry was never connected, and poll
\* waits for ever.
Starved ==
    /\ pc \in {"poll", "scan"} /\ ~success
    /\ \A j \in Polled : fd[j] # "conn"
    /\ \E j \in Polled : fd[j] # "minus"

\* Every request returns to the menu, except when it is starved.
Returns == (pc # "menu") ~> (pc \in {"menu", "exit"} \/ Starved)

====
