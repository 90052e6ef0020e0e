---- MODULE ClientProofs ----
(***************************************************************************)
(* Proofs about client.c's send_and_get_response, for any number of        *)
(* servers, any requests and any order of answers, refusals and closes.    *)
(***************************************************************************)
EXTENDS Client, FiniteSetTheorems, TLAPS

\* The polled entries that the count of open descriptors is meant to count.
Open == {j \in Polled : fd[j] # "minus"}

\* What the poll loop relies on: a scan only meets polled entries, and while
\* the client connects, no entry has ended and the entries number no more
\* than the servers tried, and the servers ahead have none.
Scanning ==
    /\ revents \subseteq Polled
    /\ pc # "scan" => revents = {}
    /\ pc = "connect" => /\ nfds <= i
                         /\ \A j \in Server : fd[j] # "minus"
                         /\ \A j \in Server : j >= i => fd[j] = "zero"

\* The servers this request has failed to connect to, and its connections.
Lost == {j \in Server : j < i /\ j \notin reach}
Conns == {j \in Server : fd[j] = "conn"}

\* Every socket opened since the request began is a connection of the array
\* or the one that a failed connect left open.
Account == sockets = before + Cardinality(Lost) + Cardinality(Conns)

\* The inductive invariant of the counts and the numbers.
CountInv == ClientInv /\ Scanning /\ Account

\* There are finitely many servers.
LEMMA ServersFinite ==
  /\ IsFiniteSet(Server)
  /\ \A S \in SUBSET Server : IsFiniteSet(S) /\ Cardinality(S) \in Nat
  <1>1. IsFiniteSet(Server)
    BY FS_Interval, CountAssumption DEF Server
  <1> QED BY <1>1, FS_Subset, FS_CardinalityType

\* What the process has open covers any connections of the array.
LEMMA SocketsCover ==
  ASSUME CountInv, NEW S, S \subseteq Conns
  PROVE  /\ sockets - Cardinality(S) \in Nat
         /\ Cardinality(Conns \ S) = Cardinality(Conns) - Cardinality(S)
  <1>1. /\ Lost \subseteq Server /\ Conns \subseteq Server
        /\ S \subseteq Server /\ Conns \ S \subseteq Server
    BY DEF Lost, Conns
  <1>2. /\ IsFiniteSet(Conns) /\ IsFiniteSet(S) /\ IsFiniteSet(Conns \ S)
        /\ Cardinality(Lost) \in Nat /\ Cardinality(Conns) \in Nat
        /\ Cardinality(S) \in Nat /\ Cardinality(Conns \ S) \in Nat
    BY <1>1, ServersFinite
  <1>3. Conns \cap S = S
    OBVIOUS
  <1>4. Cardinality(Conns \ S) = Cardinality(Conns) - Cardinality(S)
    <2>1. Cardinality(Conns \ S) = Cardinality(Conns) - Cardinality(Conns \cap S)
      BY <1>2, FS_Difference
    <2> QED BY <1>3, <2>1
  <1>5. before \in Nat /\ sockets = before + Cardinality(Lost) + Cardinality(Conns)
    BY DEF CountInv, ClientInv, TypeOK, Account
  <1> QED BY <1>2, <1>4, <1>5

\* In particular, one of them.
LEMMA OneSocket ==
  ASSUME CountInv, NEW j \in Server, fd[j] = "conn"
  PROVE  /\ sockets - 1 \in Nat
         /\ Cardinality(Conns \ {j}) = Cardinality(Conns) - 1
  <1>1. {j} \subseteq Conns /\ Cardinality({j}) = 1
    BY FS_Singleton DEF Conns
  <1> QED BY <1>1, SocketsCover

\* Nothing is connected before the first request.
LEMMA CountInvInit == Init => CountInv
  <1> SUFFICES ASSUME Init PROVE CountInv
    OBVIOUS
  <1>1. ClientInv /\ Scanning
    BY CountAssumption, MaxRequestsAssumption, SMTT(30)
    DEF Init, ClientInv, TypeOK, OpenCount, NumbersInStep, Scanning, Polled,
        Server
  <1>2. Lost = {} /\ Conns = {}
    BY DEF Init, Lost, Conns
  <1> QED BY <1>1, <1>2, FS_EmptySet DEF Init, CountInv, Account

\* The entries poll looks at are finitely many.
LEMMA PolledFinite ==
  ASSUME nfds \in Nat
  PROVE  /\ IsFiniteSet(Polled) /\ Cardinality(Polled) = nfds
         /\ IsFiniteSet(Open) /\ Cardinality(Open) \in 0 .. nfds
  <1>1. /\ IsFiniteSet(Polled) /\ Cardinality(Polled) = nfds
    BY FS_Interval DEF Polled
  <1>2. Open \subseteq Polled
    BY DEF Open
  <1>3. IsFiniteSet(Open) /\ Cardinality(Open) <= nfds
    BY <1>1, <1>2, FS_Subset
  <1> QED BY <1>1, <1>3, FS_CardinalityType

\* Requests and the menu.
LEMMA TaskCounts ==
  ASSUME CountInv, handle_task \/ quit
  PROVE  ClientInv' /\ Scanning'
  <1>1. CASE handle_task
    <2>1. reach' \subseteq Server /\ request_no_g' \in 0 .. MaxRequests
      BY <1>1, MaxRequestsAssumption, ReachAssumption
      DEF CountInv, ClientInv, TypeOK, handle_task
    <2>2. fd' \in [Server -> {"zero", "conn", "stale", "minus"}]
      BY <1>1 DEF handle_task
    <2>3. /\ nfds' \in 0 .. Count /\ num_open_fds' \in 0 .. Count
          /\ i' \in 0 .. Count /\ pc' = "connect"
      BY <1>1, CountAssumption DEF handle_task
    <2>4. answers' \in Seq({"OK", "FAIL"})
      BY <1>1 DEF handle_task
    <2>5. success' \in BOOLEAN
      BY <1>1, Zenon DEF handle_task
    <2>6. /\ stdin' \in BOOLEAN /\ response_no_g' \in Nat
          /\ revents' \subseteq Server /\ written' \subseteq reach'
          /\ sockets' \in Nat /\ before' \in Nat
          /\ conn' \in [Server -> {"none", "wait", "OK", "FAIL", "eof"}]
      BY <1>1 DEF CountInv, ClientInv, TypeOK, handle_task
    <2>7. TypeOK'
      BY <2>1, <2>2, <2>3, <2>4, <2>6, <2>5 DEF TypeOK
    <2>8. OpenCount' /\ NumbersInStep' /\ Scanning'
      BY <1>1
      DEF CountInv, ClientInv, TypeOK, OpenCount, NumbersInStep, Scanning,
          Polled, handle_task
    <2> QED BY <2>7, <2>8 DEF CountInv, ClientInv
  <1>2. CASE quit
    BY <1>2
    DEF CountInv, ClientInv, TypeOK, OpenCount, NumbersInStep, Scanning,
        Polled, quit
  <1> QED BY <1>1, <1>2

\* The loop over the servers.
LEMMA ConnectCounts ==
  ASSUME CountInv, connect_to_server \/ connect_failed \/ write_failed
  PROVE  ClientInv' /\ Scanning'
  <1>1. CASE connect_to_server
    <2>1. i \in Server
      BY <1>1, CountAssumption
      DEF CountInv, ClientInv, TypeOK, connect_to_server, Server
    <2>2. TypeOK'
      BY <1>1, <2>1, CountAssumption
      DEF CountInv, ClientInv, TypeOK, Scanning, connect_to_server
    <2>3. OpenCount' /\ NumbersInStep' /\ Scanning'
      BY <1>1, <2>1, CountAssumption
      DEF CountInv, ClientInv, TypeOK, OpenCount, NumbersInStep, Scanning,
          Polled, connect_to_server
    <2> QED BY <2>2, <2>3 DEF CountInv, ClientInv
  <1>2. CASE connect_failed \/ write_failed
    <2>1. TypeOK'
      <3>1. /\ i' \in 0 .. Count /\ sockets' \in Nat
            /\ UNCHANGED <<pc, stdin, before, request_no_g, response_no_g, reach,
                           written, fd, nfds, num_open_fds, success, revents,
                           conn, answers>>
        BY <1>2, CountAssumption
        DEF CountInv, ClientInv, TypeOK, connect_failed, write_failed
      <3> QED BY <3>1 DEF CountInv, ClientInv, TypeOK
    <2>2. /\ pc = "connect" /\ i \in 0 .. Count /\ nfds \in Nat /\ i' = i + 1
          /\ UNCHANGED <<pc, request_no_g, response_no_g, fd, nfds, revents,
                         answers>>
      BY <1>2 DEF CountInv, ClientInv, TypeOK, connect_failed, write_failed
    <2>3. OpenCount' /\ NumbersInStep'
      BY <2>2 DEF CountInv, ClientInv, OpenCount, NumbersInStep
    <2>4. Scanning'
      BY <2>2 DEF CountInv, Scanning, Polled, Server
    <2> QED BY <2>1, <2>3, <2>4 DEF ClientInv
  <1> QED BY <1>1, <1>2

\* When every server has been tried, each entry below nfds is open.
LEMMA ConnectDoneCounts ==
  ASSUME CountInv, connect_done
  PROVE  ClientInv' /\ Scanning'
  <1>1. /\ nfds \in 0 .. Count /\ nfds' = nfds /\ fd' = fd
        /\ num_open_fds' = nfds
    BY DEF CountInv, ClientInv, TypeOK, connect_done
  <1>2. Open = Polled
    BY <1>1, CountAssumption
    DEF CountInv, ClientInv, TypeOK, Scanning, connect_done, Open, Polled,
        Server
  <1>3. num_open_fds' = Cardinality(Open)
    BY <1>1, <1>2, PolledFinite
  <1>4. Open' = Open
    BY <1>1 DEF Open, Polled
  <1>5. OpenCount'
    BY <1>3, <1>4 DEF OpenCount, Open
  <1>6. TypeOK' /\ NumbersInStep' /\ Scanning'
    BY CountAssumption
    DEF CountInv, ClientInv, TypeOK, NumbersInStep, Scanning, Polled,
        connect_done
  <1> QED BY <1>5, <1>6 DEF CountInv, ClientInv

\* A server's answer, poll, and the steps of the scan that pass an entry over
\* or end a connection without an answer, change no count.
LEMMA QuietCounts ==
  ASSUME CountInv, NEW j \in Server,
         Answers(j) \/ poll \/ scan_stale(j) \/ scan_eof(j) \/ scan_again
  PROVE  ClientInv' /\ Scanning'
  <1>1. TypeOK' /\ NumbersInStep' /\ Scanning'
    <2>1. CASE Answers(j)
      BY <2>1 DEF CountInv, ClientInv, TypeOK, NumbersInStep, Scanning, Polled,
                  Answers, answer
    <2>2. CASE poll
      <3>1. Events \subseteq Polled /\ Events \subseteq Server
        BY CountAssumption
        DEF Events, Polled, Server, CountInv, ClientInv, TypeOK
      <3> QED BY <2>2, <3>1 DEF CountInv, ClientInv, TypeOK, NumbersInStep,
                                Scanning, Polled, poll
    <2>3. CASE scan_stale(j)
      BY <2>3 DEF CountInv, ClientInv, TypeOK, NumbersInStep, Scanning, Polled,
                  scan_stale, At
    <2>4. CASE scan_eof(j)
      <3>1. sockets' \in Nat
        BY <2>4, OneSocket DEF scan_eof
      <3> QED
      BY <2>4, <3>1 DEF CountInv, ClientInv, TypeOK, NumbersInStep, Scanning, Polled,
                  scan_eof, At
    <2>5. CASE scan_again
      BY <2>5 DEF CountInv, ClientInv, TypeOK, NumbersInStep, Scanning, Polled,
                  scan_again
    <2> QED BY <2>1, <2>2, <2>3, <2>4, <2>5
  <1>2. /\ nfds' = nfds /\ num_open_fds' = num_open_fds
        /\ \A k \in Server : (fd'[k] = "minus") <=> (fd[k] = "minus")
        /\ pc' \in {"poll", "scan"} => pc \in {"poll", "scan"}
    BY DEF CountInv, ClientInv, TypeOK, Answers, answer, poll, scan_stale,
           scan_eof, scan_again, At
  <1>3. Polled \subseteq Server /\ Polled' = Polled
    BY <1>2, CountAssumption DEF CountInv, ClientInv, TypeOK, Polled, Server
  <1>4. Open' = Open
    BY <1>2, <1>3 DEF Open
  <1>5. OpenCount'
    BY <1>2, <1>4 DEF OpenCount, Open, CountInv, ClientInv
  <1> QED BY <1>1, <1>5 DEF CountInv, ClientInv

\* An answer ends one open entry and lowers the count by one.
LEMMA AnswerCounts ==
  ASSUME CountInv, NEW j \in Server, scan_answer(j)
  PROVE  ClientInv' /\ Scanning'
  <1>1. /\ pc = "scan" /\ pc' = "scan" /\ nfds' = nfds
        /\ j \in Polled /\ fd[j] # "minus"
        /\ fd' = [fd EXCEPT ![j] = "minus"]
        /\ num_open_fds' = num_open_fds - 1
        /\ nfds \in 0 .. Count /\ num_open_fds \in 0 .. Count
        /\ Polled \subseteq Server /\ Polled' = Polled
    BY CountAssumption
    DEF CountInv, ClientInv, TypeOK, Scanning, Polled, Server, scan_answer, At
  <1>2. j \in Open /\ Open' = Open \ {j}
    BY <1>1 DEF Open, CountInv, ClientInv, TypeOK
  <1>3. /\ IsFiniteSet(Open) /\ Cardinality(Open) \in Nat
        /\ Cardinality(Open') = Cardinality(Open) - 1
        /\ Cardinality(Open') \in Nat
    BY <1>1, <1>2, PolledFinite, FS_RemoveElement, FS_CardinalityType
  <1>4. num_open_fds = Cardinality(Open)
    BY <1>1 DEF CountInv, ClientInv, OpenCount, Open
  <1>5. OpenCount' /\ num_open_fds' \in 0 .. Count
    <2>1. num_open_fds' = Cardinality(Open') /\ num_open_fds' \in 0 .. Count
      BY <1>1, <1>3, <1>4, CountAssumption
    <2> QED BY <2>1 DEF OpenCount, Open
  <1>6. success' \in BOOLEAN
    BY DEF CountInv, ClientInv, TypeOK, scan_answer
  <1>7. answers' \in Seq({"OK", "FAIL"}) /\ answers' # <<>>
    BY DEF CountInv, ClientInv, TypeOK, scan_answer, get_response_from_server
  <1>8. NumbersInStep' /\ response_no_g' \in Nat
    BY <1>7 DEF CountInv, ClientInv, TypeOK, NumbersInStep, scan_answer
  <1>9. sockets' \in Nat
    BY OneSocket DEF scan_answer
  <1>10. TypeOK'
    BY <1>5, <1>6, <1>7, <1>8, <1>9 DEF CountInv, ClientInv, TypeOK, scan_answer
  <1>11. Scanning'
    BY <1>1 DEF CountInv, Scanning, scan_answer
  <1> QED BY <1>5, <1>10, <1>11, <1>8 DEF CountInv, ClientInv

\* A success ends every entry that is still open, so the count comes to zero
\* and the loop is left.
LEMMA SuccessCounts ==
  ASSUME CountInv, scan_success
  PROVE  ClientInv' /\ Scanning' /\ num_open_fds' = 0 /\ pc' = "menu"
  <1>1. /\ num_open_fds = Cardinality(Open) /\ num_open_fds \in 0 .. Count
        /\ num_open_fds' = num_open_fds - Cardinality(Open)
    BY DEF CountInv, ClientInv, TypeOK, OpenCount, Open, scan_success
  <1>2. num_open_fds' = 0
    BY <1>1
  <1>3. pc' = "menu"
    BY <1>2 DEF scan_success
  <1>4. sockets' \in Nat
    <2>1. {j \in Open : fd[j] = "conn"} \subseteq Conns
      BY CountAssumption
      DEF Open, Conns, Polled, Server, CountInv, ClientInv, TypeOK
    <2> QED BY <2>1, SocketsCover DEF scan_success, Open
  <1>5. ClientInv' /\ Scanning'
    BY <1>2, <1>3, <1>4, CountAssumption
    DEF CountInv, ClientInv, TypeOK, OpenCount, NumbersInStep, Scanning,
        Polled, scan_success
  <1> QED BY <1>2, <1>3, <1>5

\* A request begins with nothing lost and nothing connected; trying a server
\* adds at most one socket to the one or to the other.
LEMMA ConnectAccounts ==
  ASSUME CountInv,
         handle_task \/ connect_to_server \/ connect_failed \/ write_failed
  PROVE  Account'
  <1>1. CASE handle_task
    <2>1. Lost' = {} /\ Conns' = {}
      BY <1>1 DEF handle_task, Lost, Conns, Server
    <2> QED BY <1>1, <2>1, FS_EmptySet
            DEF handle_task, Account, CountInv, ClientInv, TypeOK
  <1>2. CASE connect_to_server \/ connect_failed \/ write_failed
    <2>1. /\ i \in Server /\ i' = i + 1 /\ reach' = reach /\ before' = before
          /\ Lost \subseteq Server /\ Conns \subseteq Server
      BY <1>2, CountAssumption
      DEF connect_to_server, connect_failed, write_failed, CountInv, ClientInv,
          TypeOK, Server, Lost, Conns
    <2>2. /\ IsFiniteSet(Lost) /\ IsFiniteSet(Conns) /\ before \in Nat
          /\ Cardinality(Lost) \in Nat /\ Cardinality(Conns) \in Nat
          /\ sockets = before + Cardinality(Lost) + Cardinality(Conns)
      BY <2>1, ServersFinite DEF CountInv, ClientInv, TypeOK, Account
    <2>3. CASE connect_to_server
      <3>1. Lost' = Lost /\ Conns' = Conns \cup {i} /\ i \notin Conns
        BY <2>1, <2>3
        DEF connect_to_server, Lost, Conns, Server, CountInv, ClientInv, TypeOK,
            Scanning
      <3>2. Cardinality(Conns') = Cardinality(Conns) + 1
        BY <2>2, <3>1, FS_AddElement
      <3> QED BY <2>1, <2>2, <2>3, <3>1, <3>2 DEF connect_to_server, Account
    <2>4. CASE connect_failed
      <3>1. Lost' = Lost \cup {i} /\ i \notin Lost /\ Conns' = Conns
        BY <2>1, <2>4 DEF connect_failed, Lost, Conns, Server
      <3>2. Cardinality(Lost') = Cardinality(Lost) + 1
        BY <2>2, <3>1, FS_AddElement
      <3> QED BY <2>1, <2>2, <2>4, <3>1, <3>2 DEF connect_failed, Account
    <2>5. CASE write_failed
      <3>1. Lost' = Lost /\ Conns' = Conns
        BY <2>1, <2>5 DEF write_failed, Lost, Conns, Server
      <3> QED BY <2>1, <2>5, <3>1 DEF write_failed, Account, CountInv
    <2> QED BY <1>2, <2>3, <2>4, <2>5
  <1> QED BY <1>1, <1>2

\* Reading the end of a stream or an answer closes one connection, a success
\* closes those that are polled.
LEMMA CloseAccounts ==
  ASSUME CountInv,
         \/ \E j \in Server : scan_eof(j) \/ scan_answer(j)
         \/ scan_success
  PROVE  Account'
  <1>1. Lost \subseteq Server /\ Conns \subseteq Server
    BY DEF Lost, Conns
  <1>2. /\ Cardinality(Lost) \in Nat /\ Cardinality(Conns) \in Nat
        /\ before \in Nat
        /\ sockets = before + Cardinality(Lost) + Cardinality(Conns)
    BY <1>1, ServersFinite DEF CountInv, ClientInv, TypeOK, Account
  <1>3. Lost' = Lost /\ before' = before
    BY DEF Lost, scan_eof, scan_answer, scan_success
  <1>4. CASE \E j \in Server : scan_eof(j) \/ scan_answer(j)
    <2>1. PICK j \in Server : scan_eof(j) \/ scan_answer(j)
      BY <1>4
    <2>2. /\ fd[j] = "conn" /\ sockets' = sockets - 1
          /\ \A k \in Server : fd'[k] = "conn" <=> fd[k] = "conn" /\ k # j
      BY <2>1 DEF scan_eof, scan_answer, CountInv, ClientInv, TypeOK
    <2>3. Conns' = Conns \ {j}
      BY <2>2 DEF Conns
    <2>4. Cardinality(Conns') = Cardinality(Conns) - 1
      BY <2>2, <2>3, OneSocket
    <2> QED BY <1>2, <1>3, <2>2, <2>4 DEF Account
  <1>5. CASE scan_success
    <2> DEFINE S == {j \in Open : fd[j] = "conn"}
    <2>1. S \subseteq Conns
      BY CountAssumption
      DEF Open, Conns, Polled, Server, CountInv, ClientInv, TypeOK
    <2>2. Conns' = Conns \ S
      BY <1>5 DEF scan_success, Conns, Open
    <2>3. sockets' = sockets - Cardinality(S)
      BY <1>5 DEF scan_success, Open
    <2>4. Cardinality(Conns') = Cardinality(Conns) - Cardinality(S)
      BY <2>1, <2>2, SocketsCover
    <2>5. Cardinality(S) \in Nat
      BY <1>1, <2>1, ServersFinite
    <2> QED BY <1>2, <1>3, <2>3, <2>4, <2>5 DEF Account
  <1> QED BY <1>4, <1>5

\* Every step keeps the counts.
LEMMA CountInvStep ==
  ASSUME CountInv, [Next]_vars
  PROVE  CountInv'
  <1>1. ClientInv' /\ Scanning'
    <2>1. CASE UNCHANGED vars
      BY <2>1 DEF vars, CountInv, ClientInv, TypeOK, OpenCount, NumbersInStep,
                  Scanning, Polled
    <2>2. CASE handle_task \/ quit
      BY <2>2, TaskCounts
    <2>3. CASE connect_to_server \/ connect_failed \/ write_failed
      BY <2>3, ConnectCounts
    <2>4. CASE connect_done
      BY <2>4, ConnectDoneCounts
    <2>5. CASE poll \/ scan_again
      <3>1. 0 \in Server
        BY CountAssumption DEF Server
      <3> QED BY <2>5, <3>1, QuietCounts
    <2>6. CASE \E j \in Server : Answers(j) \/ scan_stale(j) \/ scan_eof(j)
      BY <2>6, QuietCounts
    <2>7. CASE \E j \in Server : scan_answer(j)
      BY <2>7, AnswerCounts
    <2>8. CASE scan_success
      BY <2>8, SuccessCounts
    <2> QED
      BY <2>1, <2>2, <2>3, <2>4, <2>5, <2>6, <2>7, <2>8
      DEF Next, send_and_get_response
  <1>2. Account'
    <2>1. CASE handle_task \/ connect_to_server \/ connect_failed \/ write_failed
      BY <2>1, ConnectAccounts
    <2>2. CASE \/ \E j \in Server : scan_eof(j) \/ scan_answer(j)
               \/ scan_success
      BY <2>2, CloseAccounts
    <2>3. CASE UNCHANGED <<sockets, before, i, reach, fd>>
      BY <2>3 DEF CountInv, Account, Lost, Conns
    <2> QED
      BY <2>1, <2>2, <2>3
      DEF Next, vars, send_and_get_response, quit, connect_done, Answers, answer,
          poll, scan_stale, scan_again
  <1> QED BY <1>1, <1>2 DEF CountInv

\* The counts of the client are right throughout.
LEMMA CountInvariant == Spec => []CountInv
  BY CountInvInit, CountInvStep, PTL DEF Spec

\* num_open_fds always counts the polled entries that have not ended, and the
\* first answer of a request is never taken for a duplicate, whichever servers
\* send_and_get_response reaches and in whatever order they answer or close.
THEOREM ClientInvariant == Spec => []ClientInv
  <1>1. CountInv => ClientInv
    BY DEF CountInv
  <1> QED BY <1>1, CountInvariant, PTL

----------------------------------------------------------------------------
(* What the user is told *)

\* One answer more: the first is looked at, the later ones add to it.
LEMMA AnswerTruthful ==
  ASSUME CountInv, Truthful, NEW j \in Server, scan_answer(j)
  PROVE  Truthful'
  <1> DEFINE n == Len(answers)
  <1>1. /\ answers \in Seq({"OK", "FAIL"}) /\ conn[j] \in {"OK", "FAIL"}
        /\ answers' = Append(answers, conn[j])
    BY DEF CountInv, ClientInv, TypeOK, scan_answer, get_response_from_server
  <1>2. /\ n \in Nat /\ Len(answers') = n + 1
        /\ DOMAIN answers = 1 .. n /\ DOMAIN answers' = 1 .. n + 1
        /\ answers'[n + 1] = conn[j]
        /\ \A m \in 1 .. n : answers'[m] = answers[m]
    BY <1>1
  <1>3. answers' # <<>>
    BY <1>1, <1>2
  <1>4. CASE answers = <<>>
    <2>1. n = 0 /\ answers'[1] = conn[j] /\ ~success
      BY <1>2, <1>4 DEF Truthful
    <2>2. request_no_g # response_no_g
      BY <1>4 DEF CountInv, ClientInv, TypeOK, NumbersInStep, scan_answer, At
    <2>3. success' = (success \/ parse_response_from_server(conn[j]) = 0)
      BY <2>2 DEF scan_answer
    <2>4. parse_response_from_server(conn[j]) = 0 <=> conn[j] = "OK"
      BY <1>1 DEF parse_response_from_server
    <2>5. success' <=> conn[j] = "OK"
      BY <2>1, <2>3, <2>4
    <2>6. 1 \in DOMAIN answers'
      BY <1>2, <2>1
    <2> QED BY <1>1, <2>1, <2>5, <2>6 DEF Truthful
  <1>5. CASE answers # <<>>
    <2>1. n > 0 /\ answers'[1] = answers[1]
      BY <1>1, <1>2, <1>5
    <2>2. success => success'
      BY DEF scan_answer
    <2>3. ~success' => answers'[1] = "FAIL"
      BY <1>5, <2>1, <2>2 DEF Truthful
    <2>4. parse_response_from_server(conn[j]) = 0 <=> conn[j] = "OK"
      BY <1>1 DEF parse_response_from_server
    <2>5. success' => success \/ conn[j] = "OK"
      BY <2>4 DEF scan_answer
    <2>6. success' => \E m \in DOMAIN answers' : answers'[m] = "OK"
      <3>1. CASE success
        <4>1. PICK m \in 1 .. n : answers[m] = "OK"
          BY <1>2, <3>1 DEF Truthful
        <4>2. m \in DOMAIN answers' /\ answers'[m] = "OK"
          BY <1>2, <4>1
        <4> QED BY <4>2
      <3>2. CASE conn[j] = "OK"
        <4>1. n + 1 \in DOMAIN answers' /\ answers'[n + 1] = "OK"
          BY <1>2, <3>2
        <4> QED BY <4>1
      <3> QED BY <2>5, <3>1, <3>2
    <2> QED BY <2>3, <2>6 DEF Truthful
  <1> QED BY <1>4, <1>5

\* No other step touches the answers without starting over.
LEMMA TruthfulStep ==
  ASSUME CountInv, Truthful, [Next]_vars
  PROVE  Truthful'
  <1>1. CASE \E j \in Server : scan_answer(j)
    BY <1>1, AnswerTruthful
  <1>2. CASE handle_task
    BY <1>2 DEF handle_task, Truthful
  <1>3. CASE UNCHANGED <<answers, success>>
    BY <1>3 DEF Truthful
  <1> QED
    BY <1>1, <1>2, <1>3
    DEF Next, vars, send_and_get_response, quit, connect_to_server,
        connect_failed, write_failed, connect_done, Answers, answer, poll,
        scan_stale, scan_eof, scan_success, scan_again

\* What the user is told is what the servers said: a success needs an OK from
\* some server, and a request answered without a success was first answered
\* FAIL, however the answers of the replicas interleave.
THEOREM TruthfulAnswers == Spec => []Truthful
  <1>1. Init => Truthful
    BY DEF Init, Truthful
  <1> QED BY <1>1, CountInvariant, TruthfulStep, PTL DEF Spec


----------------------------------------------------------------------------
(* Coming back to the menu *)

\* While a request runs the user's input is open and a server has been written
\* to if and only if its entry is no longer the 0 of memset; an entry that poll
\* never looks at stays as connecting left it; and when the request is over,
\* the open entries are those.
LeavingInv ==
    /\ \A j \in Server : pc = "connect" \/ j >= nfds => fd[j] \in {"zero", "conn"}
    /\ pc \in {"connect", "poll", "scan"} =>
         stdin /\ \A j \in Server : j \in written <=> fd[j] # "zero"
    /\ pc = "connect" => ~success
    /\ pc \in {"poll", "scan"} => i = Count
    /\ pc = "menu" => /\ stdin <=> ~(success /\ \E j \in Polled : j \notin written)
                      /\ Conns = Unpolled
                      /\ Lost = Server \ reach

\* With every server tried, the ones lost are the ones out of reach.
LEMMA AllTried ==
  ASSUME i = Count
  PROVE  Lost = Server \ reach
  BY CountAssumption DEF Lost, Server

\* When no polled entry is open, the connections that are left are those poll
\* never looked at.
LEMMA NoneOpen ==
  ASSUME CountInv, LeavingInv, pc \in {"connect", "poll", "scan"}, Open = {}
  PROVE  Conns = Unpolled
  <1>1. /\ written \subseteq Server /\ nfds \in Nat
        /\ \A j \in Server : j \in Polled <=> ~(j >= nfds)
    BY DEF CountInv, ClientInv, TypeOK, Polled, Server
  <1>2. \A j \in Server : j < nfds => fd[j] = "minus"
    BY <1>1 DEF Open, Polled, Server
  <1>3. \A j \in Server : j >= nfds => fd[j] \in {"zero", "conn"}
    BY DEF LeavingInv
  <1>4. \A j \in Server : j \in written <=> fd[j] # "zero"
    BY DEF LeavingInv
  <1>5. \A j \in Server : j < nfds <=> ~(j >= nfds)
    BY <1>1 DEF Server
  <1> QED BY <1>1, <1>2, <1>3, <1>4, <1>5 DEF Conns, Unpolled

\* Connecting.
LEMMA LeavingConnect ==
  ASSUME CountInv, LeavingInv,
         \/ connect_to_server \/ connect_failed \/ write_failed \/ connect_done
  PROVE  LeavingInv'
  <1>1. CASE connect_to_server \/ connect_failed \/ write_failed
    <2>1. CASE connect_to_server
      <3>1. i \in Server
        BY <2>1, CountAssumption
        DEF connect_to_server, CountInv, ClientInv, TypeOK, Server
      <3> QED BY <2>1, <3>1
              DEF connect_to_server, LeavingInv, CountInv, ClientInv, TypeOK
    <2>2. CASE connect_failed \/ write_failed
      BY <2>2 DEF connect_failed, write_failed, LeavingInv
    <2> QED BY <1>1, <2>1, <2>2
  <1>2. CASE connect_done
    <2>1. /\ pc = "connect" /\ i = Count /\ ~success /\ stdin
          /\ i' = i /\ nfds' = nfds /\ fd' = fd /\ written' = written
          /\ reach' = reach /\ success' = success /\ stdin' = stdin
          /\ pc' = IF nfds > 0 THEN "poll" ELSE "menu"
          /\ nfds \in 0 .. Count
      BY <1>2 DEF connect_done, LeavingInv, CountInv, ClientInv, TypeOK
    <2>2. CASE nfds > 0
      BY <2>1, <2>2 DEF LeavingInv
    <2>3. CASE nfds = 0
      <3>1. Open = {}
        BY <2>3 DEF Open, Polled
      <3>2. Conns = Unpolled /\ Lost = Server \ reach
        BY <2>1, <3>1, NoneOpen, AllTried
      <3>3. Conns' = Conns /\ Unpolled' = Unpolled /\ Lost' = Lost
        BY <2>1 DEF Conns, Unpolled, Lost
      <3> QED BY <2>1, <2>3, <3>2, <3>3 DEF LeavingInv
    <2> QED BY <2>1, <2>2, <2>3
  <1> QED BY <1>1, <1>2

\* Polling and reading the answers.
LEMMA LeavingScan ==
  ASSUME CountInv, LeavingInv, NEW j \in Server,
         \/ poll \/ scan_stale(j) \/ scan_eof(j) \/ scan_answer(j) \/ scan_again
  PROVE  LeavingInv'
  <1>1. CASE poll \/ scan_stale(j)
    BY <1>1 DEF LeavingInv, poll, scan_stale, At
  <1>2. CASE scan_eof(j) \/ scan_answer(j)
    <2>1. /\ pc = "scan" /\ pc' = "scan" /\ nfds' = nfds /\ stdin' = stdin
          /\ i' = i /\ written' = written /\ fd[j] = "conn" /\ j \in Polled
          /\ fd' = [fd EXCEPT ![j] = "stale"] \/ fd' = [fd EXCEPT ![j] = "minus"]
      BY <1>2 DEF scan_eof, scan_answer, At, CountInv, Scanning
    <2>2. ~(j >= nfds)
      BY <2>1 DEF Polled, CountInv, ClientInv, TypeOK, Server
    <2> QED BY <2>1, <2>2 DEF CountInv, ClientInv, TypeOK, LeavingInv
  <1>3. CASE scan_again
    <2>1. /\ pc = "scan" /\ ~success /\ i = Count /\ stdin
          /\ nfds \in Nat /\ num_open_fds \in Nat
          /\ num_open_fds = Cardinality(Open)
          /\ i' = i /\ nfds' = nfds /\ fd' = fd /\ written' = written
          /\ reach' = reach /\ success' = success /\ stdin' = stdin
          /\ pc' = IF num_open_fds > 0 THEN "poll" ELSE "menu"
      BY <1>3 DEF scan_again, LeavingInv, CountInv, ClientInv, TypeOK, OpenCount,
                  Open
    <2>2. CASE num_open_fds > 0
      BY <2>1, <2>2 DEF LeavingInv
    <2>3. CASE num_open_fds = 0
      <3>1. Open = {}
        BY <2>1, <2>3, PolledFinite, FS_EmptySet
      <3>2. Conns = Unpolled /\ Lost = Server \ reach
        BY <2>1, <3>1, NoneOpen, AllTried
      <3>3. Conns' = Conns /\ Unpolled' = Unpolled /\ Lost' = Lost
        BY <2>1 DEF Conns, Unpolled, Lost
      <3> QED BY <2>1, <2>3, <3>2, <3>3 DEF LeavingInv
    <2> QED BY <2>1, <2>2, <2>3
  <1> QED BY <1>1, <1>2, <1>3

\* The request has its answer: every polled entry ends, and descriptor 0 is
\* closed with them if one of them was never connected.
LEMMA LeavingSuccess ==
  ASSUME CountInv, LeavingInv, scan_success
  PROVE  LeavingInv'
  <1>1. /\ pc' = "menu" /\ pc = "scan" /\ success /\ success' = success
        /\ i' = i /\ nfds' = nfds /\ written' = written /\ reach' = reach
    BY SuccessCounts DEF scan_success
  <1>2. /\ stdin' = (stdin /\ \A j \in Open : fd[j] # "zero")
        /\ fd' = [j \in Server |-> IF j \in Open THEN "minus" ELSE fd[j]]
    BY DEF scan_success, Open
  <1>3. /\ Polled \subseteq Server /\ Polled' = Polled /\ nfds \in Nat
        /\ Open \subseteq Polled /\ \A j \in Server : j \in Polled <=> ~(j >= nfds)
    BY <1>1, CountAssumption
    DEF Open, Polled, Server, CountInv, ClientInv, TypeOK
  <1>4. stdin /\ \A j \in Server : j \in written <=> fd[j] # "zero"
    BY <1>1 DEF LeavingInv
  <1>5. stdin' <=> ~(\E j \in Polled : j \notin written)
    <2>1. stdin' <=> \A j \in Open : fd[j] # "zero"
      BY <1>2, <1>4
    <2>2. \A j \in Polled : fd[j] = "zero" => j \in Open
      BY DEF Open
    <2> QED BY <1>3, <1>4, <2>1, <2>2
  <1>6. \A j \in Server : /\ j \in Polled => fd'[j] = "minus"
                          /\ j \notin Polled => fd'[j] = fd[j]
    BY <1>2, <1>3 DEF Open
  <1>7. Conns' = Unpolled'
    <2>1. written \subseteq Server
      BY DEF CountInv, ClientInv, TypeOK
    <2> QED BY <1>1, <1>3, <1>4, <1>6, <2>1 DEF Conns, Unpolled, LeavingInv
  <1>8. Lost' = Server \ reach'
    <2>1. Lost' = Lost /\ Lost = Server \ reach
      BY <1>1, AllTried DEF Lost, LeavingInv
    <2> QED BY <1>1, <2>1
  <1>9. \A j \in Server : j >= nfds' => fd'[j] \in {"zero", "conn"}
    BY <1>1, <1>3, <1>6 DEF LeavingInv
  <1> QED BY <1>1, <1>3, <1>5, <1>7, <1>8, <1>9 DEF LeavingInv

\* Every step keeps it.
LEMMA LeavingStep ==
  ASSUME CountInv, LeavingInv, [Next]_vars
  PROVE  LeavingInv'
  <1>1. CASE UNCHANGED vars \/ \E j \in Server : Answers(j)
    <2>1. UNCHANGED <<pc, stdin, reach, written, i, fd, nfds, success>>
      BY <1>1 DEF vars, Answers, answer
    <2> QED BY <2>1 DEF LeavingInv, Conns, Unpolled, Lost, Polled
  <1>2. CASE handle_task
    BY <1>2 DEF handle_task, LeavingInv
  <1>3. CASE quit
    BY <1>3 DEF quit, LeavingInv
  <1>4. CASE connect_to_server \/ connect_failed \/ write_failed \/ connect_done
    BY <1>4, LeavingConnect
  <1>5. CASE poll \/ scan_again
    <2>1. 0 \in Server
      BY CountAssumption DEF Server
    <2> QED BY <1>5, <2>1, LeavingScan
  <1>6. CASE \E j \in Server : scan_stale(j) \/ scan_eof(j) \/ scan_answer(j)
    BY <1>6, LeavingScan
  <1>7. CASE scan_success
    BY <1>7, LeavingSuccess
  <1> QED
    BY <1>1, <1>2, <1>3, <1>4, <1>5, <1>6, <1>7 DEF Next, send_and_get_response

\* What a request leaves behind, whichever servers it reaches, whichever writes
\* fail, and in whatever order the servers answer or close: the sockets
\* connect_to_server never closed, the connections beyond nfds and nothing
\* else, and a closed standard input exactly after a success with a polled
\* entry that was never connected.
THEOREM LeftBehind == Spec => []LeavesBehind
  <1>1. Init => LeavingInv
    BY CountAssumption
    DEF Init, LeavingInv, Conns, Unpolled, Lost, Polled, Server
  <1>2. CountInv /\ LeavingInv => LeavesBehind
    BY DEF CountInv, Account, LeavingInv, LeavesBehind
  <1> QED BY <1>1, <1>2, CountInvariant, LeavingStep, PTL DEF Spec

====
