---- MODULE GroupProofs ----
(***************************************************************************)
(* The group of manager, factories, detectors and servers, for any number  *)
(* of replicas above one and any number of crashes.                        *)
(*                                                                         *)
(* Assumed throughout: a start is quicker than a heartbeat interval, so    *)
(* that at most one request to start waits at a factory (QuickStarts).     *)
(***************************************************************************)
EXTENDS Group, ReplicationManagerProofs

QuickStarts == N > 1 /\ MaxStartups = 1

\* Command c is in s.
Has(s, c) == \E p \in 1 .. Len(s) : s[p] = c

\* Server i is down and nothing will start it yet.
Fallen(i) == ~Up(i) /\ ~Has(inbox[i], "STARTUP")

\* Server i is seeded, or the primary has been stalled and nothing is promised.
Sound == [i \in Replica |-> seeded[i] \/ stalled]

OthersSound(i) == \A j \in Replica \ {i} : Up(j) /\ Sound[j]

\* A report of a fault is true until the manager has acted on it, and it is
\* the only report of its detector.
ReportInv ==
    \A i \in Replica :
        /\ Has(reports[i], "FAULTED") =>
              Fallen(i) /\ reports[i] = <<"FAULTED">> /\ report.id # i
        /\ report = [id |-> i, state |-> "FAULTED"] => Fallen(i) /\ reports[i] = <<>>

\* Behind a request to start, only requests for checkpoints wait in s.
Behind(s) ==
    \A p, q \in 1 .. Len(s) : p < q /\ s[p] = "STARTUP" => s[q] = "SEND_CHKPT"

\* A server is started only while it is down, its detector is silent and the
\* manager takes it for faulted; commands from before the start are lost.
StartupInv ==
    \A i \in Replica :
        /\ Has(inbox[i], "STARTUP") => ~Up(i) /\ Idle(i) /\ node_state[i] = "FAULTED"
        /\ Behind(inbox[i])

\* The manager handles no other report while a replica joins.
JoinInv ==
    join # "no" => /\ mode = 1 /\ primary # -1
                   /\ report.state = "RUNNING" /\ node_state[report.id] = "FAULTED"

\* The manager takes i for running, or for the primary, or is about to.
Seen(i) ==
    \/ primary = i \/ node_state[i] = "RUNNING" \/ Has(reports[i], "RUNNING")
    \/ report = [id |-> i, state |-> "RUNNING"]

\* A server that fell, rather than never having been started, fell alone, and
\* it is alone as long as it is down.
FallenInv == \A i \in Replica : Fallen(i) /\ Seen(i) => OthersSound(i)

PassiveCommands == {"STARTUP", "SEND_CHKPT", "PASSIVE_BACKUP", "PASSIVE_PREPRIMARY"}
ActiveRoles == {"ACTIVE_RUNNING", "ACTIVE_RECOVER"}
Setters == ActiveRoles \cup {"QUIESCE_BEGIN", "QUIESCE_STOP"}
ActiveCommands == {"STARTUP", "SEND_CHKPT"} \cup Setters

\* Commands and states are those of the mode.
ModeInv ==
    \A i \in Replica :
        /\ mode = 0 => /\ \A c \in Requests : Has(inbox[i], c) => c \in PassiveCommands
                       /\ state[i] \in {"down", "UNKNOWN_STATE"} \cup PassiveStates
        /\ mode = 1 => /\ \A c \in Requests : Has(inbox[i], c) => c \in ActiveCommands
                       /\ state[i] \in {"down", "UNKNOWN_STATE"} \cup ActiveStates
                       /\ prev_state[i] \in {"UNKNOWN_STATE"} \cup ActiveStates

\* Nobody is behind before somebody has served, and nobody serves without a
\* primary.
ServedInv ==
    /\ ~served => \A i \in Replica : Sound[i]
    /\ primary = -1 => ~served

\* Passive mode: who is primary, or will be told so in its present life, is
\* the manager's primary; that one is started before anybody has served,
\* or it was up and seeded when it was elected.
PassiveInv ==
    mode = 0 => \A i \in Replica :
        /\ IsPrimary(i) => primary = i
        /\ Up(i) /\ Has(inbox[i], "PASSIVE_PREPRIMARY") => primary = i
        /\ primary = i /\ Has(inbox[i], "STARTUP") => ~served
        /\ primary = i /\ Up(i) => Sound[i]

\* Replica i is the one that joins.
Joins(i) == join # "no" /\ report.id = i

\* Every QUIESCE_BEGIN in s comes after a role.
Led(s) ==
    \A q \in 1 .. Len(s) : s[q] = "QUIESCE_BEGIN" =>
        \E p \in 1 .. q - 1 : s[p] \in ActiveRoles

\* Active mode: what QUIESCE finds.
BracketInv ==
    mode = 1 => \A i \in Replica : Up(i) =>
        /\ state[i] # "UNKNOWN_STATE" \/ Led(inbox[i])
        /\ node_state[i] = "RUNNING" \/ Joins(i) =>
              state[i] # "UNKNOWN_STATE" \/ \E c \in ActiveRoles : Has(inbox[i], c)
        /\ Has(inbox[i], "QUIESCE_STOP") =>
              state[i] # "UNKNOWN_STATE" /\ prev_state[i] \in ActiveStates
        /\ join = "quiesce" /\ i \in Quiesced(report.id) =>
              \/ Has(inbox[i], "QUIESCE_BEGIN")
              \/ state[i] # "UNKNOWN_STATE" /\ prev_state[i] \in ActiveStates

\* The first n commands of s take a server from state st, with pv remembered,
\* to ACTIVE_RUNNING.
Runs(s, st, pv, n) ==
    \/ st = "ACTIVE_RUNNING" /\ \A q \in 1 .. n : s[q] \notin Setters
    \/ \E p \in 1 .. n :
          /\ \A q \in p + 1 .. n : s[q] \notin Setters
          /\ \/ s[p] = "ACTIVE_RUNNING"
             \/ /\ s[p] = "QUIESCE_STOP" /\ pv = "ACTIVE_RUNNING"
                /\ \A q \in 1 .. n : s[q] # "QUIESCE_BEGIN"

\* All of s takes the server to QUIESCE with ACTIVE_RUNNING remembered.
Halts(s, st, pv) ==
    \/ /\ st = "QUIESCE" /\ pv = "ACTIVE_RUNNING"
       /\ \A q \in 1 .. Len(s) : s[q] \notin Setters
    \/ \E b \in 1 .. Len(s) :
          /\ s[b] = "QUIESCE_BEGIN" /\ \A q \in b + 1 .. Len(s) : s[q] \notin Setters
          /\ Runs(s, st, pv, b - 1)

\* Active mode: who serves, or will in its present life, is seeded, and so is
\* the primary, which is never one that waits for its start.
SeedInv ==
    mode = 1 =>
        /\ primary = -1 => \A i \in Replica : ~Has(inbox[i], "ACTIVE_RUNNING")
        /\ \A i \in Replica : primary = i => ~Has(inbox[i], "STARTUP")
        /\ \A i \in Replica :
              /\ Up(i)
              /\ \/ state[i] = "ACTIVE_RUNNING" \/ prev_state[i] = "ACTIVE_RUNNING"
                 \/ Has(inbox[i], "ACTIVE_RUNNING") \/ primary = i
              => Sound[i]

\* Active mode: a server not yet reported has not been quiesced.
FreshInv ==
    mode = 1 => \A i \in Replica :
        Up(i) /\ node_state[i] = "FAULTED" /\ ~Joins(i) =>
            prev_state[i] = "UNKNOWN_STATE" /\ ~Has(inbox[i], "QUIESCE_BEGIN")

\* Active mode: the primary is on its way to a state it sends checkpoints in.
SourceInv ==
    mode = 1 /\ ~stalled => \A i \in Replica :
        primary = i /\ Up(i) /\ ~Joins(i) =>
            IF join = "quiesce" /\ i \in Quiesced(report.id)
              THEN Halts(inbox[i], state[i], prev_state[i])
              ELSE Runs(inbox[i], state[i], prev_state[i], Len(inbox[i]))

\* A request for a checkpoint waits at the end of s.
Asked(s) == s # <<>> /\ s[Len(s)] = "SEND_CHKPT"

\* Active mode: a joiner that is not seeded gets a checkpoint before it is told
\* to run.
CheckpointInv ==
    join = "quiesce" /\ Up(report.id) =>
        \/ Sound[report.id]
        \/ primary # report.id /\ Up(primary) /\ Asked(inbox[primary])

\* The inductive invariant.
GInv ==
    /\ GTypeOK /\ NoAborts
    /\ ReportInv /\ StartupInv /\ JoinInv /\ FallenInv
    /\ ModeInv /\ ServedInv /\ PassiveInv
    /\ BracketInv /\ SeedInv /\ FreshInv /\ SourceInv /\ CheckpointInv

----------------------------------------------------------------------------
(* Lists of commands *)

\* A command is in a concatenation if it is in a part.
LEMMA HasConcat ==
  ASSUME NEW S, NEW s \in Seq(S), NEW t \in Seq(S), NEW c
  PROVE  Has(s \o t, c) <=> Has(s, c) \/ Has(t, c)
  <1>1. /\ Len(s) \in Nat /\ Len(t) \in Nat /\ Len(s \o t) = Len(s) + Len(t)
        /\ \A p \in 1 .. Len(s) : (s \o t)[p] = s[p]
        /\ \A p \in 1 .. Len(t) : (s \o t)[Len(s) + p] = t[p]
    OBVIOUS
  <1> DEFINE u == s \o t
  <1>2. \A p \in 1 .. Len(s) : p \in 1 .. Len(u) BY <1>1
  <1>3. \A p \in 1 .. Len(t) : Len(s) + p \in 1 .. Len(u) BY <1>1
  <1>4. ASSUME NEW p \in 1 .. Len(u)
        PROVE  p \in 1 .. Len(s) \/ \E n \in 1 .. Len(t) : p = Len(s) + n
    <2>1. CASE p <= Len(s) BY <1>1, <2>1
    <2>2. CASE p > Len(s)
      <3>1. p - Len(s) \in 1 .. Len(t) /\ p = Len(s) + (p - Len(s)) BY <1>1, <2>2
      <3> QED BY <3>1
    <2> QED BY <1>1, <2>1, <2>2
  <1> HIDE DEF u
  <1>5. Has(u, c) <=> Has(s, c) \/ Has(t, c)
    <2>1. Has(s, c) => Has(u, c) BY <1>1, <1>2 DEF Has, u
    <2>2. Has(t, c) => Has(u, c) BY <1>1, <1>3 DEF Has, u
    <2>3. ASSUME NEW p \in 1 .. Len(u), u[p] = c PROVE Has(s, c) \/ Has(t, c)
      <3>1. CASE p \in 1 .. Len(s) BY <1>1, <2>3, <3>1 DEF Has, u
      <3>2. CASE \E n \in 1 .. Len(t) : p = Len(s) + n BY <1>1, <2>3, <3>2 DEF Has, u
      <3> QED BY <1>4, <3>1, <3>2
    <2>4. Has(u, c) => Has(s, c) \/ Has(t, c) BY <2>3 DEF Has
    <2> QED BY <2>1, <2>2, <2>4
  <1> QED BY <1>5 DEF u

\* A command is at the head or in the tail.
LEMMA HasTail ==
  ASSUME NEW S, NEW s \in Seq(S), s # <<>>, NEW c
  PROVE  Has(s, c) <=> Head(s) = c \/ Has(Tail(s), c)
  <1>1. /\ Len(s) \in Nat /\ Len(s) >= 1 /\ Len(Tail(s)) = Len(s) - 1 /\ Head(s) = s[1]
        /\ \A p \in 1 .. Len(s) - 1 : Tail(s)[p] = s[p + 1]
    OBVIOUS
  <1>2. \A p \in 1 .. Len(s) - 1 : p + 1 \in 1 .. Len(s) BY <1>1
  <1>3. \A p \in 1 .. Len(s) : p = 1 \/ (p - 1 \in 1 .. Len(s) - 1 /\ p = (p - 1) + 1)
    BY <1>1
  <1>4. 1 \in 1 .. Len(s) BY <1>1
  <1>5. Head(s) = c => Has(s, c) BY <1>1, <1>4 DEF Has
  <1>6. Has(Tail(s), c) => Has(s, c) BY <1>1, <1>2 DEF Has
  <1>7. ASSUME NEW p \in 1 .. Len(s), s[p] = c, p # 1 PROVE Has(Tail(s), c)
    <2>1. p - 1 \in 1 .. Len(Tail(s)) /\ Tail(s)[p - 1] = c BY <1>1, <1>3, <1>7
    <2> QED BY <2>1 DEF Has
  <1>8. Has(s, c) => Head(s) = c \/ Has(Tail(s), c) BY <1>1, <1>7 DEF Has
  <1> QED BY <1>5, <1>6, <1>8

\* The commands of a short sequence.
LEMMA HasShort ==
  ASSUME NEW a, NEW b, NEW c
  PROVE  /\ ~Has(<<>>, c)
         /\ Has(<<a>>, c) <=> a = c
         /\ Has(<<a, b>>, c) <=> a = c \/ b = c
  <1>1. ~Has(<<>>, c) BY DEF Has
  <1>2. Has(<<a>>, c) <=> a = c BY DEF Has
  <1>3. 1 .. Len(<<a, b>>) = {1, 2} OBVIOUS
  <1>4. Has(<<a, b>>, c) <=> a = c \/ b = c BY <1>3 DEF Has
  <1> QED BY <1>1, <1>2, <1>4

\* What a step of the manager adds to the factories' requests.
LEMMA SendEffect ==
  ASSUME NEW S, inbox \in [Replica -> Seq(S)], NEW q \in [Replica -> Seq(S)], Send(q)
  PROVE  /\ inbox' \in [Replica -> Seq(S)]
         /\ \A j \in Replica : inbox'[j] = inbox[j] \o q[j]
         /\ \A j \in Replica : \A c : Has(inbox'[j], c) <=> Has(inbox[j], c) \/ Has(q[j], c)
         /\ \A j \in Replica : q[j] = <<>> => inbox'[j] = inbox[j]
  <1>1. \A j \in Replica : inbox'[j] = inbox[j] \o q[j] BY DEF Send
  <1>2. ASSUME NEW j \in Replica
        PROVE  /\ inbox[j] \o q[j] \in Seq(S)
               /\ q[j] = <<>> => inbox[j] \o q[j] = inbox[j]
               /\ \A c : Has(inbox[j] \o q[j], c) <=> Has(inbox[j], c) \/ Has(q[j], c)
    <2>1. inbox[j] \in Seq(S) /\ q[j] \in Seq(S) OBVIOUS
    <2>2. ASSUME NEW c PROVE Has(inbox[j] \o q[j], c) <=> Has(inbox[j], c) \/ Has(q[j], c)
      BY <2>1, HasConcat
    <2>3. inbox[j] \o q[j] \in Seq(S) /\ (q[j] = <<>> => inbox[j] \o q[j] = inbox[j])
      BY <2>1
    <2> QED BY <2>2, <2>3
  <1>3. inbox' \in [Replica -> Seq(S)] BY <1>2 DEF Send
  <1> QED BY <1>1, <1>2, <1>3

\* Concatenations of short sequences.
LEMMA PairConcat ==
  ASSUME NEW a, NEW b
  PROVE  /\ <<a>> \o <<b>> = <<a, b>> /\ <<>> \o <<b>> = <<b>>
         /\ <<a>> \o <<>> = <<a>> /\ <<>> \o <<>> = <<>>
  <1> DEFINE S == {a, b}
  <1>1. <<a>> \o <<b>> = <<a, b>>
    <2> DEFINE u == <<a>> \o <<b>>
    <2>1. u \in Seq(S) /\ Len(u) = 2 /\ u[1] = a /\ u[2] = b OBVIOUS
    <2> HIDE DEF u
    <2>2. u = <<u[1], u[2]>> BY <2>1
    <2> QED BY <2>1, <2>2 DEF u
  <1>2. <<a>> \in Seq(S) /\ <<b>> \in Seq(S) /\ <<>> \in Seq(S) OBVIOUS
  <1>3. \A s \in Seq(S) : s \o <<>> = s /\ <<>> \o s = s OBVIOUS
  <1> QED BY <1>1, <1>2, <1>3

\* One message to one factory.
LEMMA MessageTo ==
  ASSUME NEW S, NEW a \in S, NEW i
  PROVE  /\ To(i, a) \in [Replica -> Seq(S)]
         /\ \A j \in Replica : To(i, a)[j] = IF j = i THEN <<a>> ELSE <<>>
         /\ Then(To(i, a), Nothing) \in [Replica -> Seq(S)]
         /\ \A j \in Replica : Then(To(i, a), Nothing)[j] = IF j = i THEN <<a>> ELSE <<>>
  <1>1. <<a>> \o <<>> = <<a>> /\ <<>> \o <<>> = <<>> BY PairConcat
  <1>2. <<a>> \in Seq(S) /\ <<>> \in Seq(S) OBVIOUS
  <1> QED BY <1>1, <1>2 DEF To, Then, Nothing

\* A message to one factory, then one to the same or another.
LEMMA MessagePair ==
  ASSUME NEW S, NEW a \in S, NEW b \in S, NEW i, NEW k
  PROVE  /\ Then(To(i, a), To(k, b)) \in [Replica -> Seq(S)]
         /\ \A j \in Replica : Then(To(i, a), To(k, b))[j] =
               IF j = i THEN IF j = k THEN <<a, b>> ELSE <<a>>
                        ELSE IF j = k THEN <<b>> ELSE <<>>
  <1>1. /\ <<a>> \o <<b>> = <<a, b>> /\ <<>> \o <<b>> = <<b>>
        /\ <<a>> \o <<>> = <<a>> /\ <<>> \o <<>> = <<>>
    BY PairConcat
  <1>2. <<a>> \in Seq(S) /\ <<b>> \in Seq(S) /\ <<a, b>> \in Seq(S) /\ <<>> \in Seq(S)
    OBVIOUS
  <1>3. \A j \in Replica : Then(To(i, a), To(k, b))[j] =
               IF j = i THEN IF j = k THEN <<a, b>> ELSE <<a>>
                        ELSE IF j = k THEN <<b>> ELSE <<>>
    BY <1>1 DEF To, Then
  <1>4. Then(To(i, a), To(k, b)) = [j \in Replica |-> Then(To(i, a), To(k, b))[j]]
    BY DEF Then
  <1> QED BY <1>2, <1>3, <1>4

\* A message to several factories, then one to one factory.
LEMMA MessageAll ==
  ASSUME NEW S, NEW a \in S, NEW b \in S, NEW Q, NEW k
  PROVE  /\ Then(ToAll(Q, a), To(k, b)) \in [Replica -> Seq(S)]
         /\ \A j \in Replica : Then(ToAll(Q, a), To(k, b))[j] =
               IF j \in Q THEN IF j = k THEN <<a, b>> ELSE <<a>>
                          ELSE IF j = k THEN <<b>> ELSE <<>>
  <1>1. /\ <<a>> \o <<b>> = <<a, b>> /\ <<>> \o <<b>> = <<b>>
        /\ <<a>> \o <<>> = <<a>> /\ <<>> \o <<>> = <<>>
    BY PairConcat
  <1>2. <<a>> \in Seq(S) /\ <<b>> \in Seq(S) /\ <<a, b>> \in Seq(S) /\ <<>> \in Seq(S)
    OBVIOUS
  <1>3. \A j \in Replica : Then(ToAll(Q, a), To(k, b))[j] =
               IF j \in Q THEN IF j = k THEN <<a, b>> ELSE <<a>>
                          ELSE IF j = k THEN <<b>> ELSE <<>>
    BY <1>1 DEF ToAll, To, Then
  <1>4. Then(ToAll(Q, a), To(k, b)) = [j \in Replica |-> Then(ToAll(Q, a), To(k, b))[j]]
    BY DEF Then
  <1> QED BY <1>2, <1>3, <1>4

\* What may be added after a request to start.
LEMMA BehindConcat ==
  ASSUME NEW S, NEW s \in Seq(S), NEW t \in Seq(S), Behind(s),
         \/ ~Has(s, "STARTUP") /\ Behind(t)
         \/ t = <<"SEND_CHKPT">>
  PROVE  Behind(s \o t)
  <1>1. /\ Len(s) \in Nat /\ Len(t) \in Nat /\ Len(s \o t) = Len(s) + Len(t)
        /\ \A p \in 1 .. Len(s) : (s \o t)[p] = s[p]
        /\ \A p \in 1 .. Len(t) : (s \o t)[Len(s) + p] = t[p]
    OBVIOUS
  <1> DEFINE u == s \o t
  <1> SUFFICES ASSUME NEW p \in 1 .. Len(u), NEW q \in 1 .. Len(u), p < q,
                      u[p] = "STARTUP"
               PROVE  u[q] = "SEND_CHKPT"
    BY DEF Behind
  <1>2. p \in Int /\ q \in Int OBVIOUS
  <1>3. CASE q <= Len(s)
    <2>1. p \in 1 .. Len(s) /\ q \in 1 .. Len(s) BY <1>1, <1>2, <1>3
    <2>2. u[p] = s[p] /\ u[q] = s[q] BY <1>1, <2>1
    <2> QED BY <2>1, <2>2 DEF Behind
  <1>4. CASE q > Len(s)
    <2>1. q - Len(s) \in 1 .. Len(t) /\ q = Len(s) + (q - Len(s)) BY <1>1, <1>2, <1>4
    <2>2. u[q] = t[q - Len(s)] BY <1>1, <2>1
    <2>3. CASE t = <<"SEND_CHKPT">> BY <2>1, <2>2, <2>3
    <2>4. CASE ~Has(s, "STARTUP") /\ Behind(t)
      <3>1. p > Len(s)
        <4>1. SUFFICES ASSUME p <= Len(s) PROVE FALSE BY <1>1, <1>2
        <4>2. p \in 1 .. Len(s) BY <1>1, <1>2, <4>1
        <4>3. s[p] = "STARTUP" BY <1>1, <4>2
        <4> QED BY <2>4, <4>2, <4>3 DEF Has
      <3>2. p - Len(s) \in 1 .. Len(t) /\ p = Len(s) + (p - Len(s)) BY <1>1, <1>2, <3>1
      <3>3. u[p] = t[p - Len(s)] BY <1>1, <3>2
      <3>4. p - Len(s) < q - Len(s) BY <1>1, <1>2
      <3> QED BY <2>1, <2>2, <2>4, <3>2, <3>3, <3>4 DEF Behind
    <2> QED BY <2>3, <2>4
  <1> QED BY <1>1, <1>2, <1>3, <1>4

\* Taking a command keeps the order; after a start only requests for checkpoints are left.
LEMMA BehindTail ==
  ASSUME NEW S, NEW s \in Seq(S), s # <<>>, Behind(s)
  PROVE  /\ Behind(Tail(s))
         /\ Head(s) = "STARTUP" => \A c : Has(Tail(s), c) => c = "SEND_CHKPT"
  <1>1. /\ Len(s) \in Nat /\ Len(s) >= 1 /\ Len(Tail(s)) = Len(s) - 1 /\ Head(s) = s[1]
        /\ \A p \in 1 .. Len(s) - 1 : Tail(s)[p] = s[p + 1]
    OBVIOUS
  <1> DEFINE t == Tail(s)
  <1>2. \A p \in 1 .. Len(t) : p + 1 \in 1 .. Len(s) /\ 1 < p + 1 /\ t[p] = s[p + 1] BY <1>1
  <1>3. 1 \in 1 .. Len(s) BY <1>1
  <1>4. Behind(t)
    <2> SUFFICES ASSUME NEW p \in 1 .. Len(t), NEW q \in 1 .. Len(t), p < q,
                        t[p] = "STARTUP"
                 PROVE  t[q] = "SEND_CHKPT"
      BY DEF Behind
    <2>1. p + 1 < q + 1 BY <1>1
    <2> QED BY <1>2, <2>1 DEF Behind
  <1>5. ASSUME Head(s) = "STARTUP", NEW c, Has(t, c) PROVE c = "SEND_CHKPT"
    <2>1. PICK p \in 1 .. Len(t) : t[p] = c BY <1>5 DEF Has
    <2> QED BY <1>1, <1>2, <1>3, <1>5, <2>1 DEF Behind
  <1> QED BY <1>4, <1>5

\* Short sequences in that order.
LEMMA BehindShort ==
  ASSUME NEW a, NEW b
  PROVE  /\ Behind(<<>>) /\ Behind(<<a>>)
         /\ a # "STARTUP" => Behind(<<a, b>>)
  <1>1. Behind(<<>>) /\ Behind(<<a>>) BY DEF Behind
  <1>2. 1 .. Len(<<a, b>>) = {1, 2} OBVIOUS
  <1>3. ASSUME a # "STARTUP" PROVE Behind(<<a, b>>) BY <1>2, <1>3 DEF Behind
  <1> QED BY <1>1, <1>3

\* Adding commands keeps every QUIESCE_BEGIN after a role.
LEMMA LedConcat ==
  ASSUME NEW S, NEW s \in Seq(S), NEW t \in Seq(S), Led(s),
         \/ \E c \in ActiveRoles : Has(s, c)
         \/ Led(t)
  PROVE  Led(s \o t)
  <1>1. /\ Len(s) \in Nat /\ Len(t) \in Nat /\ Len(s \o t) = Len(s) + Len(t)
        /\ \A p \in 1 .. Len(s) : (s \o t)[p] = s[p]
        /\ \A p \in 1 .. Len(t) : (s \o t)[Len(s) + p] = t[p]
    OBVIOUS
  <1> DEFINE u == s \o t
  <1> SUFFICES ASSUME NEW q \in 1 .. Len(u), u[q] = "QUIESCE_BEGIN"
               PROVE  \E p \in 1 .. q - 1 : u[p] \in ActiveRoles
    BY DEF Led
  <1>2. q \in Int OBVIOUS
  <1>3. CASE q <= Len(s)
    <2>1. q \in 1 .. Len(s) /\ s[q] = "QUIESCE_BEGIN" BY <1>1, <1>2, <1>3
    <2>2. PICK p \in 1 .. q - 1 : s[p] \in ActiveRoles BY <2>1 DEF Led
    <2>3. p \in 1 .. Len(s) BY <1>1, <1>2, <1>3
    <2> QED BY <1>1, <2>2, <2>3
  <1>4. CASE q > Len(s)
    <2>1. q - Len(s) \in 1 .. Len(t) /\ q = Len(s) + (q - Len(s)) BY <1>1, <1>2, <1>4
    <2>2. t[q - Len(s)] = "QUIESCE_BEGIN" BY <1>1, <2>1
    <2>3. CASE \E c \in ActiveRoles : Has(s, c)
      <3>1. PICK p \in 1 .. Len(s) : s[p] \in ActiveRoles BY <2>3 DEF Has
      <3>2. p \in 1 .. q - 1 BY <1>1, <1>2, <1>4
      <3> QED BY <1>1, <3>1, <3>2
    <2>4. CASE Led(t)
      <3>1. PICK p \in 1 .. (q - Len(s)) - 1 : t[p] \in ActiveRoles
        BY <2>1, <2>2, <2>4 DEF Led
      <3>2. p \in 1 .. Len(t) /\ Len(s) + p \in 1 .. q - 1 BY <1>1, <1>2, <2>1
      <3> QED BY <1>1, <3>1, <3>2
    <2> QED BY <2>3, <2>4
  <1> QED BY <1>1, <1>2, <1>3, <1>4

\* Without a QUIESCE_BEGIN there is nothing to lead.
LEMMA LedShort ==
  ASSUME NEW s, ~Has(s, "QUIESCE_BEGIN")
  PROVE  Led(s)
  BY DEF Has, Led

\* Taking a command that is no role keeps the rest led, and it is no QUIESCE_BEGIN.
LEMMA LedTail ==
  ASSUME NEW S, NEW s \in Seq(S), s # <<>>, Led(s), Head(s) \notin ActiveRoles
  PROVE  Led(Tail(s)) /\ Head(s) # "QUIESCE_BEGIN"
  <1>1. /\ Len(s) \in Nat /\ Len(s) >= 1 /\ Len(Tail(s)) = Len(s) - 1 /\ Head(s) = s[1]
        /\ \A p \in 1 .. Len(s) - 1 : Tail(s)[p] = s[p + 1]
    OBVIOUS
  <1> DEFINE t == Tail(s)
  <1>2. ASSUME NEW q \in 1 .. Len(t), t[q] = "QUIESCE_BEGIN"
        PROVE  \E p \in 1 .. q - 1 : t[p] \in ActiveRoles
    <2>1. q \in Int /\ q + 1 \in 1 .. Len(s) /\ s[q + 1] = "QUIESCE_BEGIN" BY <1>1, <1>2
    <2>2. PICK p \in 1 .. (q + 1) - 1 : s[p] \in ActiveRoles BY <2>1 DEF Led
    <2>3. p # 1 BY <1>1, <2>2
    <2>4. p - 1 \in 1 .. q - 1 /\ p - 1 \in 1 .. Len(s) - 1 /\ (p - 1) + 1 = p
      BY <1>1, <2>1, <2>3
    <2>5. t[p - 1] = s[p] BY <1>1, <2>4
    <2> QED BY <2>2, <2>4, <2>5
  <1>3. Head(s) # "QUIESCE_BEGIN"
    <2>1. 1 \in 1 .. Len(s) /\ 1 .. 1 - 1 = {} BY <1>1
    <2> QED BY <1>1, <2>1 DEF Led
  <1> QED BY <1>2, <1>3 DEF Led

\* Adding a command that tells to run, or one that changes no state.
LEMMA RunsConcat ==
  ASSUME NEW S, NEW s \in Seq(S), NEW t \in Seq(S), NEW st, NEW pv, t # <<>>
  PROVE  /\ t[Len(t)] = "ACTIVE_RUNNING" => Runs(s \o t, st, pv, Len(s \o t))
         /\ t = <<"SEND_CHKPT">> /\ Runs(s, st, pv, Len(s)) =>
               Runs(s \o t, st, pv, Len(s \o t))
  <1>1. /\ Len(s) \in Nat /\ Len(t) \in Nat /\ Len(s \o t) = Len(s) + Len(t)
        /\ \A p \in 1 .. Len(s) : (s \o t)[p] = s[p]
        /\ \A p \in 1 .. Len(t) : (s \o t)[Len(s) + p] = t[p]
        /\ Len(t) > 0
    OBVIOUS
  <1> DEFINE u == s \o t
  <1>2. ASSUME t[Len(t)] = "ACTIVE_RUNNING" PROVE Runs(u, st, pv, Len(u))
    <2>1. Len(t) \in 1 .. Len(t) /\ Len(u) \in 1 .. Len(u) /\ Len(u) + 1 .. Len(u) = {}
      BY <1>1
    <2>2. u[Len(u)] = "ACTIVE_RUNNING" BY <1>1, <1>2, <2>1
    <2> HIDE DEF u
    <2> QED BY <2>1, <2>2 DEF Runs
  <1>3. ASSUME t = <<"SEND_CHKPT">>, Runs(s, st, pv, Len(s)) PROVE Runs(u, st, pv, Len(u))
    <2>1. Len(u) = Len(s) + 1 /\ Len(s) \in Nat BY <1>1, <1>3
    <2>2. u[Len(s) + 1] = "SEND_CHKPT" BY <1>1, <1>3
    <2>3. \A p \in 1 .. Len(s) : u[p] = s[p] BY <1>1
    <2>4. \A p \in 1 .. Len(u) : p \in 1 .. Len(s) \/ p = Len(s) + 1 BY <2>1
    <2>5. \A p \in 1 .. Len(s) : p \in 1 .. Len(u) BY <2>1
    <2> HIDE DEF u
    <2>6. CASE st = "ACTIVE_RUNNING" /\ \A q \in 1 .. Len(s) : s[q] \notin Setters
      BY <2>2, <2>3, <2>4, <2>6 DEF Runs, Setters, ActiveRoles
    <2>7. CASE \E p \in 1 .. Len(s) :
                  /\ \A q \in p + 1 .. Len(s) : s[q] \notin Setters
                  /\ \/ s[p] = "ACTIVE_RUNNING"
                     \/ /\ s[p] = "QUIESCE_STOP" /\ pv = "ACTIVE_RUNNING"
                        /\ \A q \in 1 .. Len(s) : s[q] # "QUIESCE_BEGIN"
      <3>1. PICK p \in 1 .. Len(s) :
                  /\ \A q \in p + 1 .. Len(s) : s[q] \notin Setters
                  /\ \/ s[p] = "ACTIVE_RUNNING"
                     \/ /\ s[p] = "QUIESCE_STOP" /\ pv = "ACTIVE_RUNNING"
                        /\ \A q \in 1 .. Len(s) : s[q] # "QUIESCE_BEGIN"
        BY <2>7
      <3>2. \A q \in p + 1 .. Len(u) :
               (q \in p + 1 .. Len(s) /\ q \in 1 .. Len(s)) \/ q = Len(s) + 1
        BY <2>1
      <3>3. \A q \in p + 1 .. Len(u) : u[q] \notin Setters
        BY <2>2, <2>3, <3>1, <3>2 DEF Setters, ActiveRoles
      <3>4. (\A q \in 1 .. Len(s) : s[q] # "QUIESCE_BEGIN") =>
               \A q \in 1 .. Len(u) : u[q] # "QUIESCE_BEGIN"
        BY <2>2, <2>3, <2>4
      <3>5. u[p] = s[p] /\ p \in 1 .. Len(u) BY <2>3, <2>5
      <3> QED BY <3>1, <3>3, <3>4, <3>5 DEF Runs
    <2> QED BY <1>3, <2>6, <2>7 DEF Runs
  <1> QED BY <1>2, <1>3

\* What command c does to the state st and the prev_state pv of a server.
StateAfter(c, st, pv) ==
    IF c \in ActiveRoles THEN c
    ELSE IF c = "QUIESCE_BEGIN" THEN "QUIESCE"
    ELSE IF c = "QUIESCE_STOP" THEN pv ELSE st

PrevAfter(c, st, pv) == IF c = "QUIESCE_BEGIN" THEN st ELSE pv

\* Carrying out the first command brings the server one command nearer.
LEMMA RunsTail ==
  ASSUME NEW S, NEW s \in Seq(S), NEW n \in 1 .. Len(s), NEW st, NEW pv,
         Runs(s, st, pv, n)
  PROVE  Runs(Tail(s), StateAfter(Head(s), st, pv), PrevAfter(Head(s), st, pv), n - 1)
  <1>1. /\ Len(s) \in Nat /\ Len(s) >= 1 /\ Len(Tail(s)) = Len(s) - 1 /\ Head(s) = s[1]
        /\ \A p \in 1 .. Len(s) - 1 : Tail(s)[p] = s[p + 1]
    <2>1. s # <<>> OBVIOUS
    <2> QED BY <2>1
  <1> DEFINE t == Tail(s)
             c == s[1]
             sa == StateAfter(c, st, pv)
             pa == PrevAfter(c, st, pv)
  <1>2. /\ \A q \in 1 .. n - 1 : q + 1 \in 1 .. n /\ t[q] = s[q + 1]
        /\ 1 \in 1 .. n
    BY <1>1
  <1>3. t = Tail(s) /\ c = Head(s) BY <1>1
  <1> HIDE DEF t
  <1>4. CASE st = "ACTIVE_RUNNING" /\ \A q \in 1 .. n : s[q] \notin Setters
    <2>1. c \notin Setters /\ \A q \in 1 .. n - 1 : t[q] \notin Setters BY <1>2, <1>4
    <2>2. sa = "ACTIVE_RUNNING" BY <1>4, <2>1 DEF StateAfter, Setters
    <2> QED BY <1>3, <2>1, <2>2 DEF Runs
  <1>5. CASE \E p \in 1 .. n :
                /\ \A q \in p + 1 .. n : s[q] \notin Setters
                /\ \/ s[p] = "ACTIVE_RUNNING"
                   \/ /\ s[p] = "QUIESCE_STOP" /\ pv = "ACTIVE_RUNNING"
                      /\ \A q \in 1 .. n : s[q] # "QUIESCE_BEGIN"
    <2>1. PICK p \in 1 .. n :
                /\ \A q \in p + 1 .. n : s[q] \notin Setters
                /\ \/ s[p] = "ACTIVE_RUNNING"
                   \/ /\ s[p] = "QUIESCE_STOP" /\ pv = "ACTIVE_RUNNING"
                      /\ \A q \in 1 .. n : s[q] # "QUIESCE_BEGIN"
      BY <1>5
    <2>2. CASE p = 1
      <3>1. \A q \in 1 .. n - 1 : q + 1 \in p + 1 .. n BY <2>2
      <3>2. \A q \in 1 .. n - 1 : t[q] \notin Setters BY <1>2, <2>1, <3>1
      <3>3. sa = "ACTIVE_RUNNING" BY <2>1, <2>2 DEF StateAfter, ActiveRoles
      <3> QED BY <1>3, <3>2, <3>3 DEF Runs
    <2>3. CASE p # 1
      <3>1. p - 1 \in 1 .. n - 1 /\ p = (p - 1) + 1 BY <2>3
      <3>2. t[p - 1] = s[p] BY <1>2, <3>1
      <3>3. \A q \in (p - 1) + 1 .. n - 1 : q + 1 \in p + 1 .. n /\ q \in 1 .. n - 1
        BY <3>1
      <3>4. \A q \in (p - 1) + 1 .. n - 1 : t[q] \notin Setters BY <1>2, <2>1, <3>3
      <3>5. (\A q \in 1 .. n : s[q] # "QUIESCE_BEGIN") =>
               pa = pv /\ \A q \in 1 .. n - 1 : t[q] # "QUIESCE_BEGIN"
        BY <1>2 DEF PrevAfter
      <3> QED BY <1>3, <2>1, <3>1, <3>2, <3>4, <3>5 DEF Runs
    <2> QED BY <2>2, <2>3
  <1> QED BY <1>4, <1>5 DEF Runs

\* A server on its way to run that is quiesced is on its way to halt.
LEMMA HaltsConcat ==
  ASSUME NEW S, NEW s \in Seq(S), NEW st, NEW pv, Runs(s, st, pv, Len(s)),
         "QUIESCE_BEGIN" \in S, "SEND_CHKPT" \in S
  PROVE  Halts(s \o <<"QUIESCE_BEGIN", "SEND_CHKPT">>, st, pv)
  <1> DEFINE u == s \o <<"QUIESCE_BEGIN", "SEND_CHKPT">>
             n == Len(s)
  <1>1. /\ n \in Nat /\ Len(u) = n + 2 /\ u[n + 1] = "QUIESCE_BEGIN"
        /\ u[n + 2] = "SEND_CHKPT" /\ \A p \in 1 .. n : u[p] = s[p]
    OBVIOUS
  <1> HIDE DEF u
  <1>2. n + 1 \in 1 .. Len(u) /\ (n + 1) - 1 = n BY <1>1
  <1>3. \A q \in (n + 1) + 1 .. Len(u) : u[q] \notin Setters
    <2>1. \A q \in (n + 1) + 1 .. Len(u) : q = n + 2 BY <1>1
    <2> QED BY <1>1, <2>1 DEF Setters, ActiveRoles
  <1>4. Runs(u, st, pv, n)
    <2>1. \A p \in 1 .. n : \A q \in p + 1 .. n : q \in 1 .. n BY <1>1
    <2> QED BY <1>1, <2>1 DEF Runs
  <1>5. Halts(u, st, pv) BY <1>1, <1>2, <1>3, <1>4 DEF Halts
  <1> QED BY <1>5 DEF u

\* Carrying out the first command, for a server that is to halt.
LEMMA HaltsTail ==
  ASSUME NEW S, NEW s \in Seq(S), s # <<>>, NEW st, NEW pv, Halts(s, st, pv)
  PROVE  Halts(Tail(s), StateAfter(Head(s), st, pv), PrevAfter(Head(s), st, pv))
  <1>1. /\ Len(s) \in Nat /\ Len(s) >= 1 /\ Len(Tail(s)) = Len(s) - 1 /\ Head(s) = s[1]
        /\ \A p \in 1 .. Len(s) - 1 : Tail(s)[p] = s[p + 1]
    OBVIOUS
  <1> DEFINE t == Tail(s)
             c == s[1]
             sa == StateAfter(c, st, pv)
             pa == PrevAfter(c, st, pv)
  <1>2. /\ \A q \in 1 .. Len(t) : q + 1 \in 1 .. Len(s) /\ t[q] = s[q + 1]
        /\ 1 \in 1 .. Len(s)
    BY <1>1
  <1>3. t = Tail(s) /\ c = Head(s) BY <1>1
  <1>4. Len(t) = Len(s) - 1 BY <1>1
  <1> HIDE DEF t
  <1>5. CASE /\ st = "QUIESCE" /\ pv = "ACTIVE_RUNNING"
             /\ \A q \in 1 .. Len(s) : s[q] \notin Setters
    <2>1. c \notin Setters /\ \A q \in 1 .. Len(t) : t[q] \notin Setters BY <1>2, <1>5
    <2>2. sa = st /\ pa = pv BY <2>1 DEF StateAfter, PrevAfter, Setters
    <2> QED BY <1>3, <1>5, <2>1, <2>2 DEF Halts
  <1>6. CASE \E b \in 1 .. Len(s) :
                /\ s[b] = "QUIESCE_BEGIN" /\ \A q \in b + 1 .. Len(s) : s[q] \notin Setters
                /\ Runs(s, st, pv, b - 1)
    <2>1. PICK b \in 1 .. Len(s) :
                /\ s[b] = "QUIESCE_BEGIN" /\ \A q \in b + 1 .. Len(s) : s[q] \notin Setters
                /\ Runs(s, st, pv, b - 1)
      BY <1>6
    <2>2. CASE b = 1
      <3>1. \A q \in 1 .. Len(t) : q + 1 \in b + 1 .. Len(s) BY <1>1, <1>4, <2>2
      <3>2. \A q \in 1 .. Len(t) : t[q] \notin Setters BY <1>2, <2>1, <3>1
      <3>3. 1 .. b - 1 = {} BY <2>2
      <3>4. st = "ACTIVE_RUNNING" BY <2>1, <3>3 DEF Runs
      <3>5. sa = "QUIESCE" /\ pa = "ACTIVE_RUNNING"
        BY <2>1, <2>2, <3>4 DEF StateAfter, PrevAfter, ActiveRoles
      <3> QED BY <1>3, <3>2, <3>5 DEF Halts
    <2>3. CASE b # 1
      <3>1. /\ b - 1 \in 1 .. Len(s) /\ b - 1 \in 1 .. Len(t) /\ b = (b - 1) + 1
        BY <1>1, <1>4, <2>3
      <3>2. t[b - 1] = "QUIESCE_BEGIN" BY <1>2, <2>1, <3>1
      <3>3. \A q \in (b - 1) + 1 .. Len(t) : q + 1 \in b + 1 .. Len(s) /\ q \in 1 .. Len(t)
        BY <1>1, <1>4, <3>1
      <3>4. \A q \in (b - 1) + 1 .. Len(t) : t[q] \notin Setters BY <1>2, <2>1, <3>3
      <3>5. Runs(t, sa, pa, (b - 1) - 1) BY <1>3, <2>1, <3>1, RunsTail
      <3> QED BY <1>3, <3>1, <3>2, <3>4, <3>5 DEF Halts
    <2> QED BY <2>2, <2>3
  <1> QED BY <1>5, <1>6 DEF Halts

\* A primary that has carried out all its commands.
LEMMA HaltsEmpty ==
  ASSUME NEW st, NEW pv
  PROVE  /\ Halts(<<>>, st, pv) => st = "QUIESCE" /\ pv = "ACTIVE_RUNNING"
         /\ Halts(<<"SEND_CHKPT">>, st, pv) => st = "QUIESCE" /\ pv = "ACTIVE_RUNNING"
         /\ Runs(<<"SEND_CHKPT">>, st, pv, 1) => st = "ACTIVE_RUNNING"
         /\ pv = "ACTIVE_RUNNING" => Runs(<<"QUIESCE_STOP">>, st, pv, 1)
  <1>1. Halts(<<>>, st, pv) => st = "QUIESCE" /\ pv = "ACTIVE_RUNNING" BY DEF Halts
  <1>2. Halts(<<"SEND_CHKPT">>, st, pv) => st = "QUIESCE" /\ pv = "ACTIVE_RUNNING"
    BY DEF Halts
  <1>3. Runs(<<"SEND_CHKPT">>, st, pv, 1) => st = "ACTIVE_RUNNING" BY DEF Runs
  <1>4. pv = "ACTIVE_RUNNING" => Runs(<<"QUIESCE_STOP">>, st, pv, 1)
    <2> DEFINE s == <<"QUIESCE_STOP">>
    <2>1. s[1] = "QUIESCE_STOP" /\ 1 .. 1 = {1} /\ 1 + 1 .. 1 = {} OBVIOUS
    <2> HIDE DEF s
    <2>2. pv = "ACTIVE_RUNNING" => Runs(s, st, pv, 1) BY <2>1 DEF Runs
    <2> QED BY <2>2 DEF s
  <1> QED BY <1>1, <1>2, <1>3, <1>4

\* A request for a checkpoint stays last until it is taken.
LEMMA AskedTail ==
  ASSUME NEW S, NEW s \in Seq(S), Asked(s)
  PROVE  \/ s = <<"SEND_CHKPT">>
         \/ Asked(Tail(s))
  <1>1. s # <<>> /\ Len(s) \in Nat /\ Len(s) > 0 /\ Len(Tail(s)) = Len(s) - 1
    BY DEF Asked
  <1>2. CASE Len(s) = 1
    <2>1. s = <<s[1]>> BY <1>2
    <2> QED BY <1>2, <2>1 DEF Asked
  <1>3. CASE Len(s) > 1
    <2>1. Len(s) - 1 \in 1 .. Len(s) - 1 /\ Len(Tail(s)) # 0 BY <1>1, <1>3
    <2>2. Tail(s)[Len(s) - 1] = s[Len(s)] BY <1>1, <1>3
    <2>3. Tail(s) # <<>>
      <3>1. Len(<<>>) = 0 OBVIOUS
      <3> QED BY <2>1, <3>1
    <2> QED BY <1>1, <2>2, <2>3 DEF Asked
  <1> QED BY <1>1, <1>2, <1>3

\* The manager asks for the checkpoint last.
LEMMA AskedConcat ==
  ASSUME NEW S, NEW s \in Seq(S), "QUIESCE_BEGIN" \in S, "SEND_CHKPT" \in S
  PROVE  /\ Asked(s \o <<"SEND_CHKPT">>)
         /\ Asked(s \o <<"QUIESCE_BEGIN", "SEND_CHKPT">>)
  <1> DEFINE u == s \o <<"SEND_CHKPT">>
             v == s \o <<"QUIESCE_BEGIN", "SEND_CHKPT">>
  <1>1. /\ Len(s) \in Nat /\ Len(u) = Len(s) + 1 /\ u[Len(s) + 1] = "SEND_CHKPT"
        /\ Len(v) = Len(s) + 2 /\ v[Len(s) + 2] = "SEND_CHKPT"
    OBVIOUS
  <1>2. Len(<<>>) = 0 OBVIOUS
  <1> HIDE DEF u, v
  <1>3. u # <<>> /\ v # <<>> BY <1>1, <1>2
  <1>4. Asked(u) /\ Asked(v) BY <1>1, <1>3 DEF Asked
  <1> QED BY <1>4 DEF u, v

----------------------------------------------------------------------------
(* The manager in the group is ReplicationManager's. *)

ReportsTyped == reports \in [Replica -> Seq({"RUNNING", "FAULTED"})]

\* What a detector sends is a state.
LEMMA ReportsInv == GSpec => []ReportsTyped
  <1>1. GInit => ReportsTyped BY DEF GInit, ReportsTyped
  <1>2. ASSUME ReportsTyped, [GNext]_gvars PROVE ReportsTyped'
    <2> DEFINE T == {"RUNNING", "FAULTED"}
    <2> USE DEF ReportsTyped
    <2>1. CASE \E i \in Replica : heartbeat_failed(i) \/ heartbeat_signal(i)
      <3>1. PICK i \in Replica : heartbeat_failed(i) \/ heartbeat_signal(i) BY <2>1
      <3>2. PICK s \in Seq(T) : reports' = [reports EXCEPT ![i] = s]
        <4>1. /\ <<"FAULTED">> \in Seq(T) /\ <<"RUNNING">> \in Seq(T)
              /\ <<>> \in Seq(T) /\ \A a, b \in Seq(T) : a \o b \in Seq(T)
          OBVIOUS
        <4>2. CASE heartbeat_failed(i)
          BY <4>1, <4>2 DEF heartbeat_failed, inform_rep_manager
        <4>3. CASE heartbeat_signal(i)
          <5>1. reports' = [reports EXCEPT ![i] =
                  (IF first_time[i] THEN <<"RUNNING">> ELSE <<>>)
                  \o (IF connection[i] THEN <<"RUNNING">> ELSE <<>>) \o <<"RUNNING">>]
            BY <4>3 DEF heartbeat_signal, inform_rep_manager
          <5> QED BY <4>1, <5>1
        <4> QED BY <3>1, <4>2, <4>3
      <3> QED BY <1>2, <3>2
    <2>2. CASE \E i \in Replica : rm_accept(i) BY <1>2, <2>2 DEF rm_accept
    <2>3. CASE UNCHANGED reports BY <1>2, <2>3
    <2> QED BY <1>2, <2>1, <2>2, <2>3
      DEF GNext, RM, rm_running_again, rm_running_passive, rm_running_active_first,
          rm_join_recover, rm_join_quiesce, rm_join_stop, rm_faulted,
          handle_rep_man_command, spawn_server, relay_failed,
          send_change_state_message, send_checkpoint_to_bkps, send_start_quiesce,
          send_stop_quiesce, stop_quiesce_overtaken, Command, promote, send_checkpoint,
          crash, gvars, detVars
  <1> QED BY <1>1, <1>2, PTL DEF GSpec

\* Every behaviour of the group is one of the manager as ReplicationManager
\* specifies it: what is proved of the manager alone holds in the group.
THEOREM GroupRefinesManager == GSpec => Spec
  <1>1. GInit => Init BY DEF GInit
  <1>2. ASSUME ReportsTyped, [GNext]_gvars PROVE [Next]_vars
    <2>1. CASE UNCHANGED gvars BY <2>1 DEF gvars
    <2>2. CASE RM
      <3>1. PICK i \in Replica :
               \/ rm_accept(i) \/ rm_running_again(i) \/ rm_running_passive(i)
               \/ rm_running_active_first(i)
               \/ rm_join_recover(i) \/ rm_join_quiesce(i) \/ rm_join_stop(i)
               \/ rm_faulted(i)
        BY <2>2 DEF RM
      <3>2. CASE rm_accept(i)
        <4>1. handle_fault_detector_message(i, Head(reports[i])) /\ reports[i] # <<>>
          BY <3>2 DEF rm_accept
        <4>2. Head(reports[i]) \in {"RUNNING", "FAULTED"} BY <1>2, <4>1 DEF ReportsTyped
        <4> QED BY <4>1, <4>2 DEF Next
      <3>3. CASE rm_join_recover(i) \/ rm_join_quiesce(i)
        BY <3>3 DEF rm_join_recover, rm_join_quiesce
      <3>4. CASE \/ rm_running_again(i) \/ rm_running_passive(i)
                 \/ rm_running_active_first(i) \/ rm_join_stop(i) \/ rm_faulted(i)
        <4>1. handle_state(i)
          BY <3>4 DEF rm_running_again, rm_running_passive, rm_running_active_first,
                      rm_join_stop, rm_faulted, handle_state
        <4> QED BY <4>1 DEF Next
      <3> QED BY <3>1, <3>2, <3>3, <3>4
    <2>3. CASE ~RM /\ GNext
      BY <2>3 DEF GNext, heartbeat_failed, heartbeat_signal, handle_rep_man_command,
        spawn_server, relay_failed, send_change_state_message, send_checkpoint_to_bkps,
        send_start_quiesce, send_stop_quiesce, stop_quiesce_overtaken, Command, promote,
        send_checkpoint, crash
    <2> QED BY <1>2, <2>1, <2>2, <2>3
  <1> QED BY <1>1, <1>2, ReportsInv, PTL DEF GSpec, Spec

----------------------------------------------------------------------------
(* What each step changes *)

\* No report is that of a replica.
LEMMA NoReportFacts ==
  /\ NoReport.id = -1 /\ NoReport.state = "none" /\ -1 \notin Replica
  /\ \A i \in Replica : \A s : NoReport # [id |-> i, state |-> s]
  BY NAssumption DEF NoReport, Replica

\* The replica that is elected is another one.
LEMMA SuccessorOther ==
  ASSUME NEW i \in Replica, N > 1
  PROVE  Successor(i) \in Replica /\ Successor(i) # i
  <1>1. i \in 0 .. N - 1 /\ N \in Nat BY NAssumption DEF Replica
  <1>2. CASE i = N - 1
    <2>1. (i + 1) % N = 0 BY <1>1, <1>2
    <2> QED BY <1>1, <1>2, <2>1, SuccessorType DEF Successor
  <1>3. CASE i # N - 1
    <2>1. (i + 1) % N = i + 1 BY <1>1, <1>3
    <2> QED BY <1>1, <2>1, SuccessorType DEF Successor
  <1> QED BY <1>2, <1>3

\* A request that a factory takes.
LEMMA CommandEffect ==
  ASSUME GTypeOK, NEW i \in Replica, NEW c, Command(i, c)
  PROVE  /\ inbox[i] \in Seq(Requests) /\ inbox[i] # <<>> /\ Head(inbox[i]) = c
         /\ inbox'[i] = Tail(inbox[i]) /\ inbox' \in [Replica -> Seq(Requests)]
         /\ \A j \in Replica \ {i} : inbox'[j] = inbox[j]
         /\ Has(inbox[i], c) /\ c \in Requests
         /\ \A j \in Replica : \A d : Has(inbox'[j], d) => Has(inbox[j], d)
         /\ \A j \in Replica : \A d : Has(inbox[j], d) => (j = i /\ d = c) \/ Has(inbox'[j], d)
         /\ UNCHANGED <<vars, detVars, join, stalled, crashes>>
  <1>1. /\ inbox[i] \in Seq(Requests) /\ inbox[i] # <<>> /\ Head(inbox[i]) = c
        /\ inbox' = [inbox EXCEPT ![i] = Tail(inbox[i])]
        /\ UNCHANGED <<vars, detVars, join, stalled, crashes>>
        /\ inbox \in [Replica -> Seq(Requests)]
    BY DEF GTypeOK, Command
  <1>2. \A d : Has(inbox[i], d) <=> Head(inbox[i]) = d \/ Has(Tail(inbox[i]), d)
    BY <1>1, HasTail
  <1>3. Tail(inbox[i]) \in Seq(Requests) /\ Head(inbox[i]) \in Requests BY <1>1
  <1>4. /\ inbox'[i] = Tail(inbox[i]) /\ inbox' \in [Replica -> Seq(Requests)]
        /\ \A j \in Replica \ {i} : inbox'[j] = inbox[j]
    BY <1>1, <1>3
  <1> QED BY <1>1, <1>2, <1>3, <1>4

\* Messages to factories leave at most requests for checkpoints behind a start.
LEMMA BehindSend ==
  ASSUME GTypeOK, StartupInv, NEW q \in [Replica -> Seq(Requests)], Send(q),
         \A j \in Replica : \/ q[j] = <<>> \/ q[j] = <<"SEND_CHKPT">>
                            \/ ~Has(inbox[j], "STARTUP") /\ Behind(q[j])
  PROVE  \A j \in Replica : Behind(inbox'[j])
  <1>1. inbox \in [Replica -> Seq(Requests)] BY DEF GTypeOK
  <1> SUFFICES ASSUME NEW j \in Replica PROVE Behind(inbox'[j])
    OBVIOUS
  <1>2. inbox'[j] = inbox[j] \o q[j] /\ (q[j] = <<>> => inbox'[j] = inbox[j])
    BY <1>1, SendEffect
  <1>3. inbox[j] \in Seq(Requests) /\ q[j] \in Seq(Requests) /\ Behind(inbox[j])
    BY <1>1 DEF StartupInv
  <1> QED BY <1>2, <1>3, BehindConcat

\* While a replica joins, the manager does nothing else.
LEMMA ManagerJoin ==
  ASSUME GTypeOK, JoinInv, NEW i \in Replica,
         \/ rm_running_again(i) \/ rm_running_passive(i)
         \/ rm_running_active_first(i) \/ rm_faulted(i)
  PROVE  join = "no"
  <1> SUFFICES ASSUME join # "no" PROVE FALSE
    OBVIOUS
  <1>1. /\ mode = 1 /\ primary # -1
        /\ report.state = "RUNNING" /\ node_state[report.id] = "FAULTED"
    BY DEF JoinInv
  <1>2. CASE rm_running_again(i)
    BY <1>1, <1>2 DEF rm_running_again, running_again, Handle
  <1>3. CASE rm_running_passive(i)
    BY <1>1, <1>3 DEF rm_running_passive, running_passive
  <1>4. CASE rm_running_active_first(i)
    BY <1>1, <1>4 DEF rm_running_active_first, running_active_first
  <1>5. CASE rm_faulted(i)
    <2>1. Handle(i, "FAULTED")
      BY <1>5 DEF rm_faulted, faulted_passive_first, faulted_passive_primary,
                  faulted_passive_backup, faulted_active
    <2> QED BY <1>1, <2>1 DEF Handle
  <1> QED BY <1>2, <1>3, <1>4, <1>5

\* A heartbeat that tells nothing new.
LEMMA AgainEffect ==
  ASSUME GTypeOK, JoinInv, NEW i \in Replica, rm_running_again(i)
  PROVE  /\ join = "no" /\ report = [id |-> i, state |-> "RUNNING"]
         /\ report' = NoReport /\ node_state' = node_state /\ inbox' = inbox
         /\ UNCHANGED <<mode, primary, detVars, join, srvVars>>
  <1>1. /\ Handle(i, "RUNNING") /\ Finish(i, "RUNNING") /\ node_state[i] # "FAULTED"
        /\ UNCHANGED primary /\ Send(Nothing) /\ UNCHANGED <<detVars, join, srvVars>>
    BY DEF rm_running_again, running_again
  <1>2. node_state \in [Replica -> {"RUNNING", "FAULTED"}] /\ inbox \in [Replica -> Seq(Requests)]
    BY DEF GTypeOK, TypeOK
  <1>3. node_state' = node_state BY <1>1, <1>2 DEF Finish
  <1>4. Nothing \in [Replica -> Seq(Requests)] /\ \A j \in Replica : Nothing[j] = <<>>
    BY DEF Nothing
  <1>5. inbox' \in [Replica -> Seq(Requests)] /\ \A j \in Replica : inbox'[j] = inbox[j]
    BY <1>1, <1>2, <1>4, SendEffect
  <1>6. inbox' = inbox BY <1>2, <1>5
  <1> QED BY <1>1, <1>3, <1>6, ManagerJoin DEF Handle

\* The first heartbeat in passive mode.
LEMMA PassiveEffect ==
  ASSUME GTypeOK, JoinInv, StartupInv, NEW i \in Replica, rm_running_passive(i)
  PROVE  /\ mode = 0 /\ join = "no" /\ report = [id |-> i, state |-> "RUNNING"]
         /\ report' = NoReport /\ node_state' = [node_state EXCEPT ![i] = "RUNNING"]
         /\ UNCHANGED <<mode, primary, detVars, join, srvVars>>
         /\ inbox' \in [Replica -> Seq(Requests)]
         /\ \A j \in Replica : Behind(inbox'[j])
         /\ \A j \in Replica : \A c : Has(inbox'[j], c) => 
               \/ Has(inbox[j], c) \/ c = "SEND_CHKPT"
               \/ j = i /\ c = IF i = primary THEN "PASSIVE_PREPRIMARY" ELSE "PASSIVE_BACKUP"
         /\ \A j \in Replica : \A c : Has(inbox[j], c) => Has(inbox'[j], c)
  <1> DEFINE r == IF i = primary THEN "PASSIVE_PREPRIMARY" ELSE "PASSIVE_BACKUP"
  <1>1. /\ Handle(i, "RUNNING") /\ Finish(i, "RUNNING") /\ mode = 0
        /\ UNCHANGED <<primary, detVars, join, srvVars>>
        /\ role' = [role EXCEPT ![i] = r]
        /\ Send(Then(To(i, role'[i]),
                     IF needs_checkpoint[i] THEN To(primary, "SEND_CHKPT") ELSE Nothing))
    BY DEF rm_running_passive, running_passive, PrimaryState
  <1>2. role'[i] = r /\ inbox \in [Replica -> Seq(Requests)] BY <1>1 DEF GTypeOK, TypeOK
  <1>3. r \in Requests /\ "SEND_CHKPT" \in Requests /\ r # "STARTUP"
    BY DEF Requests, Roles
  <1> HIDE DEF r
  <1>4. PICK q : /\ q \in [Replica -> Seq(Requests)] /\ Send(q)
                 /\ \A j \in Replica : \/ q[j] = <<>> \/ q[j] = <<"SEND_CHKPT">>
                                       \/ j = i /\ q[j] \in {<<r>>, <<r, "SEND_CHKPT">>}
    <2>1. CASE needs_checkpoint[i]
      <3> DEFINE m == Then(To(i, r), To(primary, "SEND_CHKPT"))
      <3>1. /\ m \in [Replica -> Seq(Requests)]
            /\ \A j \in Replica : m[j] =
                    IF j = i THEN IF j = primary THEN <<r, "SEND_CHKPT">> ELSE <<r>>
                             ELSE IF j = primary THEN <<"SEND_CHKPT">> ELSE <<>>
        BY <1>3, MessagePair
      <3>2. Send(m) BY <1>1, <1>2, <2>1
      <3> HIDE DEF m
      <3> QED BY <3>1, <3>2
    <2>2. CASE ~needs_checkpoint[i]
      <3> DEFINE m == Then(To(i, r), Nothing)
      <3>1. /\ m \in [Replica -> Seq(Requests)]
            /\ \A j \in Replica : m[j] = IF j = i THEN <<r>> ELSE <<>>
        BY <1>3, MessageTo
      <3>2. Send(m) BY <1>1, <1>2, <2>2
      <3> HIDE DEF m
      <3> QED BY <3>1, <3>2
    <2> QED BY <2>1, <2>2
  <1>5. report = [id |-> i, state |-> "RUNNING"] BY <1>1 DEF Handle
  <1>6. ~Has(inbox[i], "STARTUP") BY <1>5 DEF StartupInv, Idle
  <1>7. Behind(<<r>>) /\ Behind(<<r, "SEND_CHKPT">>) BY <1>3, BehindShort
  <1>8. \A j \in Replica : Behind(inbox'[j]) BY <1>4, <1>6, <1>7, BehindSend
  <1>9. /\ inbox' \in [Replica -> Seq(Requests)]
        /\ \A j \in Replica : \A c : Has(inbox'[j], c) <=> Has(inbox[j], c) \/ Has(q[j], c)
    BY <1>2, <1>4, SendEffect
  <1>10. \A c : /\ ~Has(<<>>, c) /\ (Has(<<r>>, c) <=> c = r)
                /\ (Has(<<"SEND_CHKPT">>, c) <=> c = "SEND_CHKPT")
                /\ (Has(<<r, "SEND_CHKPT">>, c) <=> c = r \/ c = "SEND_CHKPT")
    BY HasShort
  <1>11. \A j \in Replica : \A c : Has(q[j], c) => c = "SEND_CHKPT" \/ (j = i /\ c = r)
    BY <1>4, <1>10
  <1>12. report' = NoReport /\ node_state' = [node_state EXCEPT ![i] = "RUNNING"]
         /\ UNCHANGED mode
    BY <1>1 DEF Handle, Finish
  <1> QED BY <1>1, <1>5, <1>8, <1>9, <1>11, <1>12, ManagerJoin DEF r

\* One request to one factory.
LEMMA SendOne ==
  ASSUME GTypeOK, StartupInv, NEW i \in Replica, NEW c \in Requests, Send(To(i, c)),
         ~Has(inbox[i], "STARTUP")
  PROVE  /\ inbox' \in [Replica -> Seq(Requests)] /\ inbox'[i] = inbox[i] \o <<c>>
         /\ \A j \in Replica \ {i} : inbox'[j] = inbox[j]
         /\ \A j \in Replica : Behind(inbox'[j])
         /\ \A j \in Replica : \A d :
               Has(inbox'[j], d) <=> Has(inbox[j], d) \/ (j = i /\ d = c)
  <1> DEFINE q == To(i, c)
  <1>1. /\ q \in [Replica -> Seq(Requests)] /\ Send(q)
        /\ \A j \in Replica : q[j] = IF j = i THEN <<c>> ELSE <<>>
    BY MessageTo
  <1> HIDE DEF q
  <1>2. inbox \in [Replica -> Seq(Requests)] BY DEF GTypeOK
  <1>3. /\ inbox' \in [Replica -> Seq(Requests)]
        /\ \A j \in Replica : inbox'[j] = inbox[j] \o q[j]
        /\ \A j \in Replica : \A d : Has(inbox'[j], d) <=> Has(inbox[j], d) \/ Has(q[j], d)
        /\ \A j \in Replica : q[j] = <<>> => inbox'[j] = inbox[j]
    BY <1>1, <1>2, SendEffect
  <1>4. \A d : ~Has(<<>>, d) /\ (Has(<<c>>, d) <=> c = d) BY HasShort
  <1>5. Behind(<<c>>) BY BehindShort
  <1>6. \A j \in Replica : Behind(inbox'[j]) BY <1>1, <1>5, BehindSend
  <1> QED BY <1>1, <1>3, <1>4, <1>6

\* The effect of a to i and b to k.
DeliveredBoth(i, a, k, b) ==
    /\ inbox' \in [Replica -> Seq(Requests)]
    /\ inbox'[i] = inbox[i] \o <<a>> /\ inbox'[k] = inbox[k] \o <<b>>
    /\ \A j \in Replica \ {i, k} : inbox'[j] = inbox[j]
    /\ \A j \in Replica : Behind(inbox'[j])
    /\ \A j \in Replica : \A d :
          Has(inbox'[j], d) <=> Has(inbox[j], d) \/ (j = i /\ d = a) \/ (j = k /\ d = b)

\* A request to each of two factories.
LEMMA SendTwo ==
  ASSUME GTypeOK, StartupInv, NEW i \in Replica, NEW k \in Replica, i # k,
         NEW a \in Requests, NEW b \in Requests, Send(Then(To(i, a), To(k, b))),
         ~Has(inbox[i], "STARTUP"), ~Has(inbox[k], "STARTUP")
  PROVE  DeliveredBoth(i, a, k, b)
  <1> DEFINE q == Then(To(i, a), To(k, b))
  <1>1. /\ q \in [Replica -> Seq(Requests)] /\ Send(q)
        /\ \A j \in Replica : q[j] = IF j = i THEN IF j = k THEN <<a, b>> ELSE <<a>>
                                              ELSE IF j = k THEN <<b>> ELSE <<>>
    BY MessagePair
  <1> HIDE DEF q
  <1>2. inbox \in [Replica -> Seq(Requests)] BY DEF GTypeOK
  <1>3. /\ inbox' \in [Replica -> Seq(Requests)]
        /\ \A j \in Replica : inbox'[j] = inbox[j] \o q[j]
        /\ \A j \in Replica : \A d : Has(inbox'[j], d) <=> Has(inbox[j], d) \/ Has(q[j], d)
        /\ \A j \in Replica : q[j] = <<>> => inbox'[j] = inbox[j]
    BY <1>1, <1>2, SendEffect
  <1>4. \A d : ~Has(<<>>, d) /\ (Has(<<a>>, d) <=> a = d) /\ (Has(<<b>>, d) <=> b = d)
    BY HasShort
  <1>5. Behind(<<a>>) /\ Behind(<<b>>) BY BehindShort
  <1>6. \A j \in Replica : Behind(inbox'[j]) BY <1>1, <1>5, BehindSend
  <1> QED BY <1>1, <1>3, <1>4, <1>6 DEF DeliveredBoth

\* The effect of a to all of Q and then b to k.
Delivered(Q, a, k, b) ==
    /\ inbox' \in [Replica -> Seq(Requests)]
    /\ \A j \in Replica : j \in Q /\ j = k => inbox'[j] = inbox[j] \o <<a, b>>
    /\ \A j \in Replica : j \in Q /\ j # k => inbox'[j] = inbox[j] \o <<a>>
    /\ \A j \in Replica : j \notin Q /\ j = k => inbox'[j] = inbox[j] \o <<b>>
    /\ \A j \in Replica : j \notin Q /\ j # k => inbox'[j] = inbox[j]
    /\ \A j \in Replica : Behind(inbox'[j])
    /\ \A j \in Replica : \A d :
          Has(inbox'[j], d) <=> Has(inbox[j], d) \/ (j \in Q /\ d = a) \/ (j = k /\ d = b)

\* The same request to several factories and then another to one.
LEMMA SendAll ==
  ASSUME GTypeOK, StartupInv, NEW Q, NEW k, NEW a \in Requests, NEW b \in Requests,
         Send(Then(ToAll(Q, a), To(k, b))), a # "STARTUP",
         \A j \in Replica : j \in Q => ~Has(inbox[j], "STARTUP"),
         k \in Q \/ b = "SEND_CHKPT"
  PROVE  Delivered(Q, a, k, b)
  <1> DEFINE q == Then(ToAll(Q, a), To(k, b))
  <1>1. /\ q \in [Replica -> Seq(Requests)] /\ Send(q)
        /\ \A j \in Replica : q[j] = IF j \in Q THEN IF j = k THEN <<a, b>> ELSE <<a>>
                                                ELSE IF j = k THEN <<b>> ELSE <<>>
    BY MessageAll
  <1> HIDE DEF q
  <1>2. inbox \in [Replica -> Seq(Requests)] BY DEF GTypeOK
  <1>3. /\ inbox' \in [Replica -> Seq(Requests)]
        /\ \A j \in Replica : inbox'[j] = inbox[j] \o q[j]
        /\ \A j \in Replica : \A d : Has(inbox'[j], d) <=> Has(inbox[j], d) \/ Has(q[j], d)
        /\ \A j \in Replica : q[j] = <<>> => inbox'[j] = inbox[j]
    BY <1>1, <1>2, SendEffect
  <1>4. \A d : /\ ~Has(<<>>, d) /\ (Has(<<a>>, d) <=> a = d) /\ (Has(<<b>>, d) <=> b = d)
               /\ (Has(<<a, b>>, d) <=> a = d \/ b = d)
    BY HasShort
  <1>5. Behind(<<a>>) /\ Behind(<<a, b>>) BY BehindShort
  <1>6. \A j \in Replica : Behind(inbox'[j])
    <2>1. \A j \in Replica : \/ q[j] = <<>> \/ q[j] = <<"SEND_CHKPT">>
                             \/ ~Has(inbox[j], "STARTUP") /\ Behind(q[j])
      BY <1>1, <1>5
    <2> QED BY <1>1, <2>1, BehindSend
  <1> QED BY <1>1, <1>3, <1>4, <1>6 DEF Delivered

\* The first replica of an active group is reported.
LEMMA FirstEffect ==
  ASSUME GTypeOK, JoinInv, StartupInv, NEW i \in Replica, rm_running_active_first(i)
  PROVE  /\ mode = 1 /\ join = "no" /\ report = [id |-> i, state |-> "RUNNING"]
         /\ report' = NoReport /\ node_state' = [node_state EXCEPT ![i] = "RUNNING"]
         /\ primary = -1 /\ primary' = i
         /\ UNCHANGED <<mode, detVars, join, srvVars>>
         /\ ~Has(inbox[i], "STARTUP") /\ Send(To(i, "ACTIVE_RUNNING"))
  <1>1. /\ Handle(i, "RUNNING") /\ Finish(i, "RUNNING") /\ mode = 1
        /\ primary = -1 /\ primary' = i /\ Send(To(i, "ACTIVE_RUNNING"))
        /\ UNCHANGED <<detVars, join, srvVars>>
    BY DEF rm_running_active_first, running_active_first
  <1>2. report = [id |-> i, state |-> "RUNNING"] /\ report' = NoReport /\ UNCHANGED mode
        /\ node_state' = [node_state EXCEPT ![i] = "RUNNING"]
    BY <1>1 DEF Handle, Finish
  <1>3. ~Has(inbox[i], "STARTUP") BY <1>2 DEF StartupInv, Idle
  <1> QED BY <1>1, <1>2, <1>3, ManagerJoin

\* A replica that is being told what to do is not waiting for its start.
LEMMA QuiescedStarted ==
  ASSUME GTypeOK, StartupInv, NEW i \in Replica, report.id = i
  PROVE  \A j \in Quiesced(i) : j \in Replica /\ ~Has(inbox[j], "STARTUP")
  BY DEF StartupInv, Idle, Quiesced

\* A replica that fails is restarted; if it was the primary, another one that
\* is up and seeded takes over.
LEMMA FaultedEffect ==
  ASSUME GInv, QuickStarts, NEW i \in Replica, rm_faulted(i)
  PROVE  /\ join = "no" /\ report = [id |-> i, state |-> "FAULTED"]
         /\ report' = NoReport /\ node_state' = [node_state EXCEPT ![i] = "FAULTED"]
         /\ UNCHANGED <<mode, detVars, join, srvVars>>
         /\ ~Has(inbox[i], "STARTUP") /\ ~Up(i) /\ reports[i] = <<>>
         /\ \/ /\ mode = 0 /\ primary = -1 /\ primary' = i /\ Send(To(i, "STARTUP"))
            \/ /\ primary # i /\ (mode = 0 => primary # -1) /\ primary' = primary
               /\ Send(To(i, "STARTUP"))
            \/ \E k \in Replica \ {i} :
                  /\ primary = i /\ primary' = k /\ Up(k) /\ Sound[k]
                  /\ ~Has(inbox[k], "STARTUP")
                  /\ Send(Then(To(i, "STARTUP"), To(k, PrimaryState)))
  <1>1. /\ Handle(i, "FAULTED") /\ Finish(i, "FAULTED")
        /\ UNCHANGED <<detVars, join, srvVars>>
    BY DEF rm_faulted, faulted_passive_first, faulted_passive_primary,
           faulted_passive_backup, faulted_active
  <1>2. report = [id |-> i, state |-> "FAULTED"] /\ report' = NoReport /\ UNCHANGED mode
        /\ node_state' = [node_state EXCEPT ![i] = "FAULTED"]
    BY <1>1 DEF Handle, Finish
  <1>3. ~Has(inbox[i], "STARTUP") /\ ~Up(i) /\ reports[i] = <<>>
    BY <1>2 DEF GInv, ReportInv, Fallen
  <1>4. join = "no" BY ManagerJoin DEF GInv
  <1>5. PICK k \in Replica \ {i} : k = Successor(i) BY SuccessorOther DEF QuickStarts
  <1>6. primary = i => Up(k) /\ Sound[k] BY <1>3 DEF GInv, FallenInv, Fallen, Seen, OthersSound
  <1>7. Up(k) => ~Has(inbox[k], "STARTUP") BY DEF GInv, StartupInv
  <1>8. \/ /\ mode = 0 /\ primary = -1 /\ primary' = i /\ Send(To(i, "STARTUP"))
        \/ /\ primary # i /\ (mode = 0 => primary # -1) /\ primary' = primary
           /\ Send(To(i, "STARTUP"))
        \/ /\ primary = i /\ primary' = k
           /\ Send(Then(To(i, "STARTUP"), To(k, PrimaryState)))
    <2>1. CASE faulted_passive_first(i) /\ Send(To(i, "STARTUP"))
      BY <2>1 DEF faulted_passive_first
    <2>2. CASE /\ faulted_passive_primary(i) \/ (faulted_active(i) /\ primary = i)
               /\ Send(Then(To(i, "STARTUP"), To(primary', PrimaryState)))
      <3>1. primary = i /\ primary' = k
        BY <1>5, <2>2 DEF faulted_passive_primary, faulted_active
      <3> QED BY <2>2, <3>1
    <2>3. CASE /\ faulted_passive_backup(i) \/ (faulted_active(i) /\ primary # i)
               /\ Send(To(i, "STARTUP"))
      BY <2>3 DEF faulted_passive_backup, faulted_active
    <2> QED BY <2>1, <2>2, <2>3 DEF rm_faulted
  <1> QED BY <1>1, <1>2, <1>3, <1>4, <1>6, <1>7, <1>8

----------------------------------------------------------------------------
(* Every step keeps GInv: detectors *)

\* Parts of the invariant that only a change of the manager, the requests or
\* the servers can disturb.
LEMMA ServersUntouched ==
  ASSUME GInv, UNCHANGED <<vars, inbox, join, srvVars>>
  PROVE  /\ NoAborts' /\ JoinInv' /\ ModeInv' /\ ServedInv' /\ PassiveInv'
         /\ BracketInv' /\ SeedInv' /\ FreshInv' /\ SourceInv' /\ CheckpointInv'
  <1>0. UNCHANGED Sound BY DEF srvVars, Sound
  <1> USE <1>0 DEF GInv, vars, srvVars
  <1>1. NoAborts' /\ JoinInv' /\ ServedInv' BY DEF NoAborts, JoinInv, ServedInv
  <1>2. ModeInv' BY DEF ModeInv
  <1>3. PassiveInv' BY DEF PassiveInv, IsPrimary, Up
  <1>4. BracketInv' BY DEF BracketInv, Up, Joins, Quiesced
  <1>5. SeedInv' BY DEF SeedInv, Up
  <1>6. FreshInv' BY DEF FreshInv, Up, Joins
  <1>7. SourceInv' BY DEF SourceInv, Up, Joins, Quiesced
  <1>8. CheckpointInv' BY DEF CheckpointInv, Up
  <1> QED BY <1>1, <1>2, <1>3, <1>4, <1>5, <1>6, <1>7, <1>8

\* A report of a fault is made while no start is under way.
LEMMA FailedStep ==
  ASSUME GInv, TypeOK', QuickStarts, NEW i \in Replica, heartbeat_failed(i)
  PROVE  GInv'
  <1>1. /\ reports[i] = <<>> /\ report.id # i /\ ~Up(i)
        /\ reports' = [reports EXCEPT ![i] = <<"FAULTED">>]
        /\ connection' = [connection EXCEPT ![i] = TRUE]
        /\ UNCHANGED <<vars, first_time, inbox, join, srvVars>>
    BY DEF heartbeat_failed, Idle, inform_rep_manager
  <1>2. ~Has(inbox[i], "STARTUP")
    <2> DEFINE P == {p \in DOMAIN inbox[i] : inbox[i][p] = "STARTUP"}
    <2>1. inbox[i] \in Seq(Requests) BY DEF GInv, GTypeOK
    <2>2. DOMAIN inbox[i] = 1 .. Len(inbox[i]) /\ Len(inbox[i]) \in Nat BY <2>1
    <2>3. IsFiniteSet(P)
      <3>1. IsFiniteSet(1 .. Len(inbox[i])) BY <2>2, FS_Interval
      <3> QED BY <2>2, <3>1, FS_Subset
    <2>4. Cardinality(P) \in Nat /\ (Cardinality(P) = 0 <=> P = {})
      BY <2>3, FS_CardinalityType, FS_EmptySet
    <2>5. Cardinality(P) < 1 BY DEF heartbeat_failed, QuickStarts
    <2>6. P = {} BY <2>4, <2>5
    <2> QED BY <2>2, <2>6 DEF Has
  <1>3. GTypeOK'
    <2>1. <<"FAULTED">> \in Seq({"RUNNING", "FAULTED"}) OBVIOUS
    <2> QED BY <1>1, <2>1 DEF GInv, GTypeOK, srvVars
  <1>4. Has(<<"FAULTED">>, "FAULTED") /\ ~Has(<<"FAULTED">>, "RUNNING") BY HasShort
  <1>5. /\ reports'[i] = <<"FAULTED">> /\ \A j \in Replica \ {i} : reports'[j] = reports[j]
        /\ UNCHANGED <<report, node_state, primary, inbox, state, seeded, stalled, Sound>>
    BY <1>1 DEF GInv, GTypeOK, vars, srvVars, Sound
  <1>6. ReportInv' BY <1>1, <1>2, <1>5 DEF GInv, ReportInv, Fallen, Up, GTypeOK, TypeOK
  <1>7. StartupInv' BY <1>2, <1>5 DEF GInv, StartupInv, Idle, Up
  <1>8. FallenInv'
    BY <1>4, <1>5 DEF GInv, FallenInv, Fallen, Seen, OthersSound, Up
  <1> QED BY <1>1, <1>3, <1>6, <1>7, <1>8, ServersUntouched DEF GInv

\* A heartbeat is reported of a server that is up.
LEMMA SignalStep ==
  ASSUME GInv, TypeOK', NEW i \in Replica, heartbeat_signal(i)
  PROVE  GInv'
  <1> DEFINE s == (IF first_time[i] THEN <<"RUNNING">> ELSE <<>>)
                  \o (IF connection[i] THEN <<"RUNNING">> ELSE <<>>) \o <<"RUNNING">>
  <1>1. /\ reports[i] = <<>> /\ report.id # i /\ Up(i)
        /\ reports' = [reports EXCEPT ![i] = s]
        /\ first_time' = [first_time EXCEPT ![i] = FALSE]
        /\ connection' = [connection EXCEPT ![i] = FALSE]
        /\ UNCHANGED <<vars, inbox, join, srvVars>>
    BY DEF heartbeat_signal, Idle, inform_rep_manager
  <1>2. s \in Seq({"RUNNING"})
    <2>1. /\ <<"RUNNING">> \in Seq({"RUNNING"}) /\ <<>> \in Seq({"RUNNING"})
          /\ \A a, b \in Seq({"RUNNING"}) : a \o b \in Seq({"RUNNING"})
      OBVIOUS
    <2> QED BY <2>1
  <1> HIDE DEF s
  <1>3. s \in Seq({"RUNNING", "FAULTED"}) /\ ~Has(s, "FAULTED")
    <2>1. \A p \in 1 .. Len(s) : s[p] = "RUNNING" BY <1>2
    <2>2. s \in Seq({"RUNNING", "FAULTED"}) BY <1>2
    <2> QED BY <2>1, <2>2 DEF Has
  <1>4. GTypeOK' BY <1>1, <1>3 DEF GInv, GTypeOK, srvVars
  <1>5. /\ reports'[i] = s /\ \A j \in Replica \ {i} : reports'[j] = reports[j]
        /\ UNCHANGED <<report, node_state, primary, inbox, state, seeded, stalled, Sound>>
    BY <1>1 DEF GInv, GTypeOK, vars, srvVars, Sound
  <1>6. ReportInv' BY <1>1, <1>3, <1>5 DEF GInv, ReportInv, Fallen, Up, GTypeOK, TypeOK
  <1>7. StartupInv' BY <1>1, <1>5 DEF GInv, StartupInv, Idle, Up
  <1>8. FallenInv'
    BY <1>1, <1>5 DEF GInv, FallenInv, Fallen, Seen, OthersSound, Up
  <1> QED BY <1>1, <1>4, <1>6, <1>7, <1>8, ServersUntouched DEF GInv

\* The manager takes a report.
LEMMA AcceptStep ==
  ASSUME GInv, TypeOK', NEW i \in Replica, rm_accept(i)
  PROVE  GInv'
  <1> DEFINE s == reports[i]
             h == Head(reports[i])
  <1>1. /\ join = "no" /\ s # <<>> /\ report = NoReport
        /\ report' = [id |-> i, state |-> h]
        /\ reports' = [reports EXCEPT ![i] = Tail(s)]
        /\ UNCHANGED <<mode, node_state, primary, first_time, connection, inbox,
                       join, srvVars>>
    BY DEF rm_accept, handle_fault_detector_message
  <1>2. /\ s \in Seq({"RUNNING", "FAULTED"}) /\ Tail(s) \in Seq({"RUNNING", "FAULTED"})
        /\ h \in {"RUNNING", "FAULTED"}
    BY <1>1 DEF GInv, GTypeOK
  <1>3. \A c : Has(s, c) <=> h = c \/ Has(Tail(s), c) BY <1>1, <1>2, HasTail
  <1>4. /\ reports'[i] = Tail(s) /\ \A j \in Replica \ {i} : reports'[j] = reports[j]
        /\ UNCHANGED <<state, prev_state, seeded, stalled, Sound, served, crashes, aborts>>
    BY <1>1 DEF GInv, GTypeOK, srvVars, Sound
  <1>5. GTypeOK' BY <1>1, <1>2, <1>4 DEF GInv, GTypeOK
  <1>6. Has(s, "FAULTED") => Fallen(i) /\ s = <<"FAULTED">>
    BY DEF GInv, ReportInv
  <1>7. h = "FAULTED" => Tail(s) = <<>>
    <2>1. ASSUME h = "FAULTED" PROVE Tail(s) = <<>>
      <3>1. s = <<"FAULTED">> BY <1>3, <1>6, <2>1
      <3> HIDE DEF s
      <3> QED BY <3>1
    <2> QED BY <2>1
  <1>8. ~Has(Tail(s), "FAULTED")
    <2>1. CASE h = "FAULTED"
      <3>1. ~Has(<<>>, "FAULTED") BY DEF Has
      <3> QED BY <1>7, <2>1, <3>1
    <2>2. CASE h # "FAULTED"
      <3>1. ASSUME Has(Tail(s), "FAULTED") PROVE FALSE
        <4>1. s = <<"FAULTED">> BY <1>3, <1>6, <3>1
        <4> HIDE DEF s
        <4>2. Head(s) = "FAULTED" BY <4>1
        <4> QED BY <2>2, <4>2 DEF s
      <3> QED BY <3>1
    <2> QED BY <2>1, <2>2
  <1> HIDE DEF s, h
  <1>9. ReportInv'
    <2> SUFFICES ASSUME NEW j \in Replica
                 PROVE  /\ Has(reports'[j], "FAULTED") =>
                              Fallen(j)' /\ reports'[j] = <<"FAULTED">> /\ report'.id # j
                        /\ report' = [id |-> j, state |-> "FAULTED"] =>
                              Fallen(j)' /\ reports'[j] = <<>>
      BY DEF ReportInv
    <2>1. Fallen(j)' <=> Fallen(j) BY <1>1, <1>4 DEF Fallen, Up
    <2>2. CASE j = i BY <1>1, <1>3, <1>4, <1>6, <1>7, <1>8, <2>1, <2>2
    <2>3. CASE j # i BY <1>1, <1>4, <2>1, <2>3 DEF GInv, ReportInv
    <2> QED BY <2>2, <2>3
  <1>10. StartupInv'
    <2>1. ~Has(inbox[i], "STARTUP") BY <1>1 DEF GInv, StartupInv, Idle, s
    <2> QED BY <1>1, <1>4, <2>1 DEF GInv, StartupInv, Idle, Up
  <1>11. FallenInv'
    BY <1>1, <1>3, <1>4 DEF GInv, FallenInv, Fallen, Seen, OthersSound, Up, s
  <1>12. NoAborts' /\ JoinInv' /\ ServedInv'
    BY <1>1, <1>4 DEF GInv, NoAborts, JoinInv, ServedInv
  <1>13. ModeInv' BY <1>1, <1>4 DEF GInv, ModeInv
  <1>14. PassiveInv' BY <1>1, <1>4 DEF GInv, PassiveInv, IsPrimary, Up
  <1>15. BracketInv' BY <1>1, <1>4 DEF GInv, BracketInv, Up, Joins
  <1>16. SeedInv' BY <1>1, <1>4 DEF GInv, SeedInv, Up
  <1>17. FreshInv' BY <1>1, <1>4 DEF GInv, FreshInv, Up, Joins
  <1>18. SourceInv' /\ CheckpointInv'
    BY <1>1, <1>4 DEF GInv, SourceInv, CheckpointInv, Up, Joins
  <1> QED BY <1>5, <1>9, <1>10, <1>11, <1>12, <1>13, <1>14, <1>15, <1>16, <1>17, <1>18
      DEF GInv

----------------------------------------------------------------------------
(* Every step keeps GInv: the manager *)

\* Reports of faults outlive the handling of a report.
LEMMA ReportsKept ==
  ASSUME GInv, report' = NoReport, UNCHANGED <<reports, state>>,
         \A j \in Replica : Has(inbox'[j], "STARTUP") =>
             Has(inbox[j], "STARTUP") \/ reports[j] = <<>>
  PROVE  ReportInv'
  <1> SUFFICES ASSUME NEW j \in Replica, Has(reports[j], "FAULTED")
               PROVE  Fallen(j)' /\ reports[j] = <<"FAULTED">> /\ NoReport.id # j
    BY NoReportFacts DEF ReportInv
  <1>1. Fallen(j) /\ reports[j] = <<"FAULTED">> BY DEF GInv, ReportInv
  <1>2. ~Has(<<>>, "FAULTED") BY DEF Has
  <1>3. reports[j] # <<>> BY <1>2
  <1>4. Fallen(j)' BY <1>1, <1>3 DEF Fallen, Up
  <1> QED BY <1>1, <1>4, NoReportFacts

\* A heartbeat that changes nothing is taken note of.
LEMMA AgainStep ==
  ASSUME GInv, TypeOK', NEW i \in Replica, rm_running_again(i)
  PROVE  GInv'
  <1>1. /\ join = "no" /\ report = [id |-> i, state |-> "RUNNING"]
        /\ report' = NoReport /\ node_state' = node_state /\ inbox' = inbox
        /\ UNCHANGED <<mode, primary, reports, first_time, connection, join, state,
                       prev_state, seeded, stalled, Sound, served, crashes, aborts>>
    BY AgainEffect DEF GInv, detVars, srvVars, Sound
  <1>2. GTypeOK' BY <1>1 DEF GInv, GTypeOK
  <1>3. ReportInv' BY <1>1, ReportsKept
  <1>4. StartupInv' BY <1>1, NoReportFacts DEF GInv, StartupInv, Idle, Up
  <1>5. FallenInv'
    BY <1>1, NoReportFacts DEF GInv, FallenInv, Fallen, Seen, OthersSound, Up
  <1>6. NoAborts' /\ JoinInv' /\ ServedInv' BY <1>1 DEF GInv, NoAborts, JoinInv, ServedInv
  <1>7. ModeInv' BY <1>1 DEF GInv, ModeInv
  <1>8. PassiveInv' BY <1>1 DEF GInv, PassiveInv, IsPrimary, Up
  <1>9. BracketInv' BY <1>1 DEF GInv, BracketInv, Up, Joins
  <1>10. SeedInv' BY <1>1 DEF GInv, SeedInv, Up
  <1>11. FreshInv' BY <1>1 DEF GInv, FreshInv, Up, Joins
  <1>12. SourceInv' /\ CheckpointInv'
    BY <1>1 DEF GInv, SourceInv, CheckpointInv, Up, Joins
  <1> QED BY <1>2, <1>3, <1>4, <1>5, <1>6, <1>7, <1>8, <1>9, <1>10, <1>11, <1>12 DEF GInv

\* A replica is given its role in passive mode: PREPRIMARY only if it is the
\* manager's primary.
LEMMA PassiveStep ==
  ASSUME GInv, TypeOK', NEW i \in Replica, rm_running_passive(i)
  PROVE  GInv'
  <1>1. /\ mode = 0 /\ join = "no" /\ report = [id |-> i, state |-> "RUNNING"]
        /\ report' = NoReport /\ node_state' = [node_state EXCEPT ![i] = "RUNNING"]
        /\ UNCHANGED <<mode, primary, reports, first_time, connection, join, state,
                       prev_state, seeded, stalled, Sound, served, crashes, aborts>>
        /\ inbox' \in [Replica -> Seq(Requests)]
        /\ \A j \in Replica : Behind(inbox'[j])
    BY PassiveEffect DEF GInv, detVars, srvVars, Sound
  <1>2. \A j \in Replica : \A c : Has(inbox'[j], c) =>
               \/ Has(inbox[j], c) \/ c = "SEND_CHKPT"
               \/ j = i /\ c = IF i = primary THEN "PASSIVE_PREPRIMARY" ELSE "PASSIVE_BACKUP"
    BY PassiveEffect DEF GInv
  <1>3. \A j \in Replica : \A c : Has(inbox[j], c) => Has(inbox'[j], c)
    BY PassiveEffect DEF GInv
  <1>4. \A j \in Replica : node_state'[j] = IF j = i THEN "RUNNING" ELSE node_state[j]
    BY <1>1 DEF GInv, GTypeOK, TypeOK
  <1>5. \A j \in Replica : Has(inbox'[j], "STARTUP") <=> Has(inbox[j], "STARTUP")
    BY <1>2, <1>3
  <1>6. GTypeOK' BY <1>1 DEF GInv, GTypeOK
  <1>7. ReportInv' BY <1>1, <1>5, ReportsKept
  <1>8. ~Has(inbox[i], "STARTUP") BY <1>1 DEF GInv, StartupInv, Idle
  <1>9. StartupInv' BY <1>1, <1>4, <1>5, <1>8, NoReportFacts DEF GInv, StartupInv, Idle, Up
  <1>10. FallenInv'
    BY <1>1, <1>4, <1>5, NoReportFacts DEF GInv, FallenInv, Fallen, Seen, OthersSound, Up
  <1>11. NoAborts' /\ JoinInv' /\ ServedInv' BY <1>1 DEF GInv, NoAborts, JoinInv, ServedInv
  <1>12. ModeInv' BY <1>1, <1>2 DEF GInv, ModeInv, PassiveCommands
  <1>13. PassiveInv' BY <1>1, <1>2, <1>5 DEF GInv, PassiveInv, IsPrimary, Up
  <1>14. BracketInv' /\ SeedInv' /\ FreshInv' /\ SourceInv' /\ CheckpointInv'
    BY <1>1 DEF BracketInv, SeedInv, FreshInv, SourceInv, CheckpointInv
  <1> QED BY <1>6, <1>7, <1>9, <1>10, <1>11, <1>12, <1>13, <1>14 DEF GInv

\* The first replica of an active group becomes the primary, with all there is.
LEMMA FirstStep ==
  ASSUME GInv, TypeOK', NEW i \in Replica, rm_running_active_first(i)
  PROVE  GInv'
  <1>1. /\ mode = 1 /\ join = "no" /\ report = [id |-> i, state |-> "RUNNING"]
        /\ report' = NoReport /\ node_state' = [node_state EXCEPT ![i] = "RUNNING"]
        /\ primary = -1 /\ primary' = i
        /\ UNCHANGED <<mode, reports, first_time, connection, join, state,
                       prev_state, seeded, stalled, Sound, served, crashes, aborts>>
        /\ ~Has(inbox[i], "STARTUP") /\ Send(To(i, "ACTIVE_RUNNING"))
    BY FirstEffect DEF GInv, detVars, srvVars, Sound
  <1> DEFINE c == "ACTIVE_RUNNING"
  <1>2. /\ inbox' \in [Replica -> Seq(Requests)] /\ inbox'[i] = inbox[i] \o <<c>>
        /\ \A j \in Replica \ {i} : inbox'[j] = inbox[j]
        /\ \A j \in Replica : Behind(inbox'[j])
        /\ \A j \in Replica : \A d :
               Has(inbox'[j], d) <=> Has(inbox[j], d) \/ (j = i /\ d = c)
    <2>1. c \in Requests BY DEF Requests, Roles
    <2> QED BY <1>1, <2>1, SendOne DEF GInv
  <1>3. \A j \in Replica : node_state'[j] = IF j = i THEN "RUNNING" ELSE node_state[j]
    BY <1>1 DEF GInv, GTypeOK, TypeOK
  <1>4. GTypeOK' BY <1>1, <1>2 DEF GInv, GTypeOK
  <1>5. ReportInv' BY <1>1, <1>2, ReportsKept
  <1>6. StartupInv' BY <1>1, <1>2, <1>3, NoReportFacts DEF GInv, StartupInv, Idle, Up
  <1>7. FallenInv'
    <2>1. \A j \in Replica : Fallen(j)' => Fallen(j) BY <1>1, <1>2 DEF Fallen, Up
    <2>2. \A j \in Replica : Seen(j)' => Seen(j)
      BY <1>1, <1>3, NoReportFacts DEF Seen
    <2>3. \A j \in Replica : OthersSound(j) => OthersSound(j)' BY <1>1 DEF OthersSound, Up
    <2> QED BY <2>1, <2>2, <2>3 DEF GInv, FallenInv
  <1>8. i # -1 BY NoReportFacts
  <1>9. NoAborts' /\ JoinInv' /\ ServedInv'
    BY <1>1, <1>8 DEF GInv, NoAborts, JoinInv, ServedInv
  <1>10. ModeInv' BY <1>1, <1>2 DEF GInv, ModeInv, ActiveCommands, Setters, ActiveRoles
  <1>11. PassiveInv' BY <1>1 DEF PassiveInv
  <1>12. inbox[i] \in Seq(Requests) /\ <<c>> \in Seq(Requests)
    BY DEF GInv, GTypeOK, Requests, Roles
  <1>13. BracketInv'
    <2>1. Led(inbox[i]) => Led(inbox'[i])
      <3>1. ~Has(<<c>>, "QUIESCE_BEGIN") BY HasShort
      <3>2. Led(<<c>>) BY <3>1, LedShort
      <3> QED BY <1>2, <1>12, <3>2, LedConcat
    <2> QED BY <1>1, <1>2, <1>3, <2>1 DEF GInv, BracketInv, Up, Joins, ActiveRoles
  <1>14. SeedInv' BY <1>1, <1>2, <1>8 DEF GInv, SeedInv, ServedInv, Up
  <1>15. FreshInv' BY <1>1, <1>2, <1>3 DEF GInv, FreshInv, Up, Joins
  <1>16. SourceInv'
    <2>1. <<c>> # <<>> /\ <<c>>[Len(<<c>>)] = "ACTIVE_RUNNING" OBVIOUS
    <2>2. Runs(inbox[i] \o <<c>>, state[i], prev_state[i], Len(inbox[i] \o <<c>>))
      BY <1>12, <2>1, RunsConcat
    <2> QED BY <1>1, <1>2, <2>2 DEF SourceInv
  <1>17. CheckpointInv' BY <1>1 DEF CheckpointInv
  <1> QED BY <1>4, <1>5, <1>6, <1>7, <1>9, <1>10, <1>11, <1>13, <1>14, <1>15, <1>16, <1>17
      DEF GInv

\* A joiner is told RECOVER.
LEMMA RecoverStep ==
  ASSUME GInv, TypeOK', NEW i \in Replica, rm_join_recover(i)
  PROVE  GInv'
  <1>1. /\ join = "no" /\ report = [id |-> i, state |-> "RUNNING"]
        /\ node_state[i] = "FAULTED" /\ mode = 1 /\ primary # -1
        /\ Send(To(i, "ACTIVE_RECOVER")) /\ join' = "recover"
        /\ UNCHANGED <<mode, report, node_state, primary, reports, first_time, connection,
                       state, prev_state, seeded, stalled, Sound, served, crashes, aborts>>
    BY DEF rm_join_recover, vars, detVars, srvVars, Sound
  <1> DEFINE c == "ACTIVE_RECOVER"
  <1>2. ~Has(inbox[i], "STARTUP") BY <1>1 DEF GInv, StartupInv, Idle
  <1>3. /\ inbox' \in [Replica -> Seq(Requests)] /\ inbox'[i] = inbox[i] \o <<c>>
        /\ \A j \in Replica \ {i} : inbox'[j] = inbox[j]
        /\ \A j \in Replica : Behind(inbox'[j])
        /\ \A j \in Replica : \A d :
               Has(inbox'[j], d) <=> Has(inbox[j], d) \/ (j = i /\ d = c)
    <2>1. c \in Requests BY DEF Requests, Roles
    <2> QED BY <1>1, <1>2, <2>1, SendOne DEF GInv
  <1>4. GTypeOK' BY <1>1, <1>3 DEF GInv, GTypeOK
  <1>5. \A j \in Replica : Fallen(j)' <=> Fallen(j) BY <1>1, <1>3 DEF Fallen, Up
  <1>6. ReportInv' BY <1>1, <1>5 DEF GInv, ReportInv
  <1>7. StartupInv' BY <1>1, <1>3 DEF GInv, StartupInv, Idle, Up
  <1>8. FallenInv' BY <1>1, <1>5 DEF GInv, FallenInv, Seen, OthersSound, Up
  <1>9. NoAborts' /\ JoinInv' /\ ServedInv'
    BY <1>1 DEF GInv, NoAborts, JoinInv, ServedInv
  <1>10. ModeInv' BY <1>1, <1>3 DEF GInv, ModeInv, ActiveCommands, Setters, ActiveRoles
  <1>11. PassiveInv' BY <1>1 DEF PassiveInv
  <1>12. BracketInv'
    <2>1. Led(inbox[i]) => Led(inbox'[i])
      <3>1. inbox[i] \in Seq(Requests) /\ <<c>> \in Seq(Requests)
        BY DEF GInv, GTypeOK, Requests, Roles
      <3>2. ~Has(<<c>>, "QUIESCE_BEGIN") BY HasShort
      <3>3. Led(<<c>>) BY <3>2, LedShort
      <3> QED BY <1>3, <3>1, <3>3, LedConcat
    <2> QED BY <1>1, <1>3, <2>1 DEF GInv, BracketInv, Up, Joins, ActiveRoles
  <1>13. SeedInv' BY <1>1, <1>3 DEF GInv, SeedInv, Up
  <1>14. FreshInv' BY <1>1, <1>3 DEF GInv, FreshInv, Up, Joins
  <1>15. SourceInv' BY <1>1, <1>3 DEF GInv, SourceInv, Up, Joins
  <1>16. CheckpointInv' BY <1>1 DEF CheckpointInv
  <1> QED BY <1>4, <1>6, <1>7, <1>8, <1>9, <1>10, <1>11, <1>12, <1>13, <1>14, <1>15, <1>16
      DEF GInv

\* The group is quiesced and the primary is asked for a checkpoint: it is on
\* its way to serving and seeded, unless it has just fallen, in which case all
\* others are seeded.
LEMMA QuiesceStep ==
  ASSUME GInv, TypeOK', NEW i \in Replica, rm_join_quiesce(i)
  PROVE  GInv'
  <1> DEFINE a == "QUIESCE_BEGIN"
             b == "SEND_CHKPT"
  <1>1. PICK Q, k : Q = Quiesced(i) /\ k = primary OBVIOUS
  <1>2. /\ join = "recover" /\ report.id = i /\ inbox[i] = <<>>
        /\ Send(Then(ToAll(Q, a), To(k, b))) /\ join' = "quiesce"
        /\ UNCHANGED <<mode, report, node_state, primary, reports, first_time, connection,
                       state, prev_state, seeded, stalled, Sound, served, crashes, aborts>>
    BY <1>1 DEF rm_join_quiesce, vars, detVars, srvVars, Sound
  <1>3. mode = 1 /\ k \in Replica /\ node_state[i] = "FAULTED"
    BY <1>1, <1>2 DEF GInv, JoinInv, GTypeOK, TypeOK
  <1>4. \A j \in Replica : j \in Q => ~Has(inbox[j], "STARTUP")
    BY <1>1, <1>2, QuiescedStarted DEF GInv
  <1>5. a \in Requests /\ b \in Requests BY DEF Requests
  <1>6. \A j \in Replica : j \in Q <=> j = i \/ node_state[j] = "RUNNING"
    BY <1>1 DEF Quiesced
  <1>7. GTypeOK /\ StartupInv /\ a # "STARTUP" /\ b = "SEND_CHKPT" BY DEF GInv
  <1> HIDE DEF a, b
  <1>8. Delivered(Q, a, k, b) BY <1>2, <1>4, <1>5, <1>7, SendAll
  <1>9. /\ inbox' \in [Replica -> Seq(Requests)]
        /\ \A j \in Replica : j \in Q /\ j = k => inbox'[j] = inbox[j] \o <<a, b>>
        /\ \A j \in Replica : j \in Q /\ j # k => inbox'[j] = inbox[j] \o <<a>>
        /\ \A j \in Replica : j \notin Q /\ j = k => inbox'[j] = inbox[j] \o <<b>>
        /\ \A j \in Replica : j \notin Q /\ j # k => inbox'[j] = inbox[j]
        /\ \A j \in Replica : Behind(inbox'[j])
    BY <1>8 DEF Delivered
  <1>10. \A j \in Replica : \A d :
           Has(inbox'[j], d) <=> Has(inbox[j], d) \/ (j \in Q /\ d = a) \/ (j = k /\ d = b)
    BY <1>8 DEF Delivered
  <1> USE DEF a, b
  <1>11. GTypeOK' BY <1>2, <1>9 DEF GInv, GTypeOK
  <1>12. \A j \in Replica : Has(inbox'[j], "STARTUP") <=> Has(inbox[j], "STARTUP") BY <1>10
  <1>13. \A j \in Replica : Fallen(j)' <=> Fallen(j) BY <1>2, <1>12 DEF Fallen, Up
  <1>14. ReportInv' BY <1>2, <1>13 DEF GInv, ReportInv
  <1>15. StartupInv' BY <1>2, <1>9, <1>12 DEF GInv, StartupInv, Idle, Up
  <1>16. FallenInv' BY <1>2, <1>13 DEF GInv, FallenInv, Seen, OthersSound, Up
  <1>17. NoAborts' /\ JoinInv' /\ ServedInv'
    BY <1>2 DEF GInv, NoAborts, JoinInv, ServedInv
  <1>18. ModeInv' BY <1>2, <1>3, <1>10 DEF GInv, ModeInv, ActiveCommands, Setters, ActiveRoles
  <1>19. PassiveInv' BY <1>2, <1>3 DEF PassiveInv
  <1>20. \A j \in Replica : inbox[j] \in Seq(Requests) BY DEF GInv, GTypeOK
  <1>21. <<a>> \in Seq(Requests) /\ <<b>> \in Seq(Requests) /\ <<a, b>> \in Seq(Requests)
    BY <1>5
  <1>22. BracketInv'
    <2>1. ASSUME NEW j \in Replica, Up(j), state[j] = "UNKNOWN_STATE"
          PROVE  Led(inbox'[j])
      <3>1. Led(inbox[j]) BY <1>3, <2>1 DEF GInv, BracketInv
      <3>2. CASE j \in Q
        <4>1. \E c \in ActiveRoles : Has(inbox[j], c)
          BY <1>2, <1>3, <1>6, <2>1, <3>2 DEF GInv, BracketInv, Joins
        <4>2. Led(inbox[j] \o <<a>>) /\ Led(inbox[j] \o <<a, b>>)
          BY <1>20, <1>21, <3>1, <4>1, LedConcat
        <4> QED BY <1>9, <3>2, <4>2
      <3>3. CASE j \notin Q
        <4>1. ~Has(<<b>>, "QUIESCE_BEGIN") BY HasShort
        <4>2. Led(<<b>>) BY <4>1, LedShort
        <4>3. Led(inbox[j] \o <<b>>) BY <1>20, <1>21, <3>1, <4>2, LedConcat
        <4> QED BY <1>9, <3>1, <3>3, <4>3
      <3> QED BY <3>2, <3>3
    <2>2. \A j \in Replica : j \in Quiesced(report.id)' <=> j \in Q
      BY <1>2, <1>6 DEF Quiesced
    <2>3. ASSUME NEW j \in Replica, Up(j)
          PROVE  /\ state[j] # "UNKNOWN_STATE" \/ Led(inbox'[j])
                 /\ node_state[j] = "RUNNING" \/ Joins(j)' =>
                       state[j] # "UNKNOWN_STATE" \/ \E c \in ActiveRoles : Has(inbox'[j], c)
                 /\ Has(inbox'[j], "QUIESCE_STOP") =>
                       state[j] # "UNKNOWN_STATE" /\ prev_state[j] \in ActiveStates
                 /\ j \in Q => Has(inbox'[j], "QUIESCE_BEGIN")
      BY <1>2, <1>3, <1>10, <2>1, <2>3 DEF GInv, BracketInv, Joins
    <2> QED BY <1>2, <2>2, <2>3 DEF BracketInv, Up
  <1>23. SeedInv'
    <2>1. \A j \in Replica :
             /\ Has(inbox'[j], "ACTIVE_RUNNING") <=> Has(inbox[j], "ACTIVE_RUNNING")
             /\ Has(inbox'[j], "STARTUP") <=> Has(inbox[j], "STARTUP")
      BY <1>10
    <2> QED BY <1>2, <2>1 DEF GInv, SeedInv, Up
  <1>24. FreshInv' BY <1>2, <1>3, <1>6, <1>10 DEF GInv, FreshInv, Up, Joins
  <1>25. SourceInv'
    <2> DEFINE p == k
    <2>1. ASSUME ~stalled, Up(p), p # i
          PROVE  IF p \in Q THEN Halts(inbox'[p], state[p], prev_state[p])
                            ELSE Runs(inbox'[p], state[p], prev_state[p], Len(inbox'[p]))
      <3>1. Runs(inbox[p], state[p], prev_state[p], Len(inbox[p]))
        BY <1>1, <1>2, <1>3, <2>1 DEF GInv, SourceInv, Joins
      <3>2. CASE p \in Q
        <4>1. inbox'[p] = inbox[p] \o <<a, b>> BY <1>3, <1>9, <3>2
        <4>2. Halts(inbox[p] \o <<a, b>>, state[p], prev_state[p])
          BY <1>3, <1>5, <1>20, <3>1, HaltsConcat
        <4> QED BY <3>2, <4>1, <4>2
      <3>3. CASE p \notin Q
        <4>1. inbox'[p] = inbox[p] \o <<b>> BY <1>3, <1>9, <3>3
        <4>2. <<b>> # <<>> OBVIOUS
        <4>3. Runs(inbox[p] \o <<b>>, state[p], prev_state[p], Len(inbox[p] \o <<b>>))
          BY <1>3, <1>20, <1>21, <3>1, <4>2, RunsConcat
        <4> QED BY <3>3, <4>1, <4>3
      <3> QED BY <3>2, <3>3
    <2>2. \A j \in Replica : j \in Quiesced(report.id)' <=> j \in Q
      BY <1>2, <1>6 DEF Quiesced
    <2> QED BY <1>1, <1>2, <2>1, <2>2 DEF SourceInv, Up, Joins
  <1>26. CheckpointInv'
    <2> SUFFICES ASSUME Up(i), ~Sound[i]
                 PROVE  k # i /\ Up(k) /\ Asked(inbox'[k])
      BY <1>1, <1>2 DEF CheckpointInv, Up
    <2>1. k # i BY <1>1, <1>3 DEF GInv, SeedInv
    <2>2. Up(k)
      <3>1. ~Has(inbox[k], "STARTUP") BY <1>1, <1>3 DEF GInv, SeedInv
      <3> QED BY <1>1, <1>3, <2>1, <3>1 DEF GInv, FallenInv, Fallen, Seen, OthersSound
    <2>3. Asked(inbox[k] \o <<b>>) /\ Asked(inbox[k] \o <<a, b>>)
      BY <1>3, <1>5, <1>20, AskedConcat
    <2> QED BY <1>3, <1>9, <2>1, <2>2, <2>3
  <1> QED BY <1>11, <1>14, <1>15, <1>16, <1>17, <1>18, <1>19, <1>22, <1>23, <1>24, <1>25, <1>26
      DEF GInv

\* The joiner and the group go on: all commands before have been carried out,
\* so the joiner has its checkpoint and everybody is in QUIESCE.
LEMMA StopStep ==
  ASSUME GInv, TypeOK', NEW i \in Replica, rm_join_stop(i)
  PROVE  GInv'
  <1> DEFINE a == "QUIESCE_STOP"
             b == "ACTIVE_RUNNING"
  <1>1. PICK Q, k : Q = Quiesced(i) /\ k = primary OBVIOUS
  <1>2. /\ join = "quiesce" /\ report.id = i
        /\ \A j \in Q \cup {k} : inbox[j] = <<>>
        /\ Handle(i, "RUNNING") /\ Finish(i, "RUNNING") /\ primary' = primary
        /\ Send(Then(ToAll(Q, a), To(i, b))) /\ join' = "no"
        /\ UNCHANGED <<reports, first_time, connection,
                       state, prev_state, seeded, stalled, Sound, served, crashes, aborts>>
    BY <1>1 DEF rm_join_stop, running_active_join, detVars, srvVars, Sound
  <1>3. /\ mode = 1 /\ mode' = 1 /\ k \in Replica /\ node_state[i] = "FAULTED"
        /\ report = [id |-> i, state |-> "RUNNING"] /\ report' = NoReport
        /\ \A j \in Replica : node_state'[j] = IF j = i THEN "RUNNING" ELSE node_state[j]
    BY <1>1, <1>2 DEF GInv, JoinInv, GTypeOK, TypeOK, Handle, Finish
  <1>4. \A j \in Replica : j \in Q => ~Has(inbox[j], "STARTUP")
    BY <1>1, <1>2, QuiescedStarted DEF GInv
  <1>5. a \in Requests /\ b \in Requests BY DEF Requests, Roles
  <1>6. i \in Q /\ \A j \in Replica : j \in Q <=> j = i \/ node_state[j] = "RUNNING"
    BY <1>1 DEF Quiesced
  <1>7. GTypeOK /\ StartupInv /\ a # "STARTUP" BY DEF GInv
  <1> HIDE DEF a, b
  <1>8. Delivered(Q, a, i, b) BY <1>2, <1>4, <1>5, <1>6, <1>7, SendAll
  <1>9. /\ inbox' \in [Replica -> Seq(Requests)]
        /\ inbox'[i] = inbox[i] \o <<a, b>>
        /\ \A j \in Replica : j \in Q /\ j # i => inbox'[j] = inbox[j] \o <<a>>
        /\ \A j \in Replica : j \notin Q => inbox'[j] = inbox[j]
        /\ \A j \in Replica : Behind(inbox'[j])
    BY <1>6, <1>8 DEF Delivered
  <1>10. \A j \in Replica : \A d :
           Has(inbox'[j], d) <=> Has(inbox[j], d) \/ (j \in Q /\ d = a) \/ (j = i /\ d = b)
    BY <1>6, <1>8 DEF Delivered
  <1> USE DEF a, b
  <1>11. \A d : ~Has(<<>>, d) BY DEF Has
  <1>12. \A j \in Replica : \A d : j \in Q => ~Has(inbox[j], d) BY <1>2, <1>11
  <1>13. \A j \in Replica : Has(inbox'[j], "STARTUP") <=> Has(inbox[j], "STARTUP") BY <1>10
  <1>14. GTypeOK' BY <1>2, <1>9 DEF GInv, GTypeOK
  <1>15. ReportInv' BY <1>2, <1>3, <1>13, ReportsKept
  <1>16. StartupInv'
    BY <1>2, <1>3, <1>4, <1>6, <1>9, <1>13, NoReportFacts DEF GInv, StartupInv, Idle, Up
  <1>17. FallenInv'
    BY <1>2, <1>3, <1>13, NoReportFacts DEF GInv, FallenInv, Fallen, Seen, OthersSound, Up
  <1>18. NoAborts' /\ JoinInv' /\ ServedInv'
    BY <1>2 DEF GInv, NoAborts, JoinInv, ServedInv
  <1>19. ModeInv' BY <1>2, <1>3, <1>10 DEF GInv, ModeInv, ActiveCommands, Setters, ActiveRoles
  <1>20. PassiveInv' /\ CheckpointInv' BY <1>2, <1>3 DEF PassiveInv, CheckpointInv
  <1>21. \A j \in Replica : inbox[j] \in Seq(Requests) BY DEF GInv, GTypeOK
  <1>22. \A j \in Replica : j \in Q /\ Up(j) =>
            state[j] # "UNKNOWN_STATE" /\ prev_state[j] \in ActiveStates
    BY <1>1, <1>2, <1>3, <1>12 DEF GInv, BracketInv
  <1>23. BracketInv'
    <2>1. ASSUME NEW j \in Replica, Up(j)
          PROVE  /\ state[j] # "UNKNOWN_STATE" \/ Led(inbox'[j])
                 /\ node_state'[j] = "RUNNING" =>
                       state[j] # "UNKNOWN_STATE" \/ \E c \in ActiveRoles : Has(inbox'[j], c)
                 /\ Has(inbox'[j], "QUIESCE_STOP") =>
                       state[j] # "UNKNOWN_STATE" /\ prev_state[j] \in ActiveStates
      <3>1. CASE j \in Q BY <1>22, <2>1, <3>1
      <3>2. CASE j \notin Q
        BY <1>3, <1>6, <1>9, <2>1, <3>2 DEF GInv, BracketInv
      <3> QED BY <3>1, <3>2
    <2> QED BY <1>2, <2>1 DEF BracketInv, Up, Joins
  <1>24. Up(i) => Sound[i]
    <2>1. ~Asked(inbox[k]) BY <1>2 DEF Asked
    <2> QED BY <1>1, <1>2, <2>1 DEF GInv, CheckpointInv
  <1>25. SeedInv'
    <2>1. primary' # -1 BY <1>1, <1>2, <1>3, NoReportFacts
    <2>2. \A j \in Replica : Has(inbox'[j], "ACTIVE_RUNNING") =>
             Has(inbox[j], "ACTIVE_RUNNING") \/ j = i
      BY <1>10
    <2> QED BY <1>2, <1>3, <1>13, <1>24, <2>1, <2>2 DEF GInv, SeedInv, Up
  <1>26. FreshInv'
    <2>1. \A j \in Replica : Has(inbox'[j], "QUIESCE_BEGIN") <=> Has(inbox[j], "QUIESCE_BEGIN")
      BY <1>10
    <2> QED BY <1>2, <1>3, <2>1 DEF GInv, FreshInv, Up, Joins
  <1>27. SourceInv'
    <2>1. ASSUME ~stalled, Up(k)
          PROVE  Runs(inbox'[k], state[k], prev_state[k], Len(inbox'[k]))
      <3>1. <<a, b>> \in Seq(Requests) /\ <<a, b>> # <<>> /\ <<a, b>>[Len(<<a, b>>)] = b
            /\ <<a>> \in Seq(Requests)
        BY <1>5
      <3>2. CASE k = i
        <4>1. Runs(inbox[i] \o <<a, b>>, state[i], prev_state[i], Len(inbox[i] \o <<a, b>>))
          BY <1>21, <3>1, RunsConcat
        <4> QED BY <1>9, <3>2, <4>1
      <3>3. CASE k # i /\ k \in Q
        <4>1. Halts(inbox[k], state[k], prev_state[k])
          BY <1>1, <1>2, <1>3, <2>1, <3>3 DEF GInv, SourceInv, Joins
        <4>2. inbox[k] = <<>> BY <1>2
        <4>3. prev_state[k] = "ACTIVE_RUNNING" BY <4>1, <4>2, HaltsEmpty
        <4>4. inbox'[k] = <<a>>
          <5>1. inbox'[k] = <<>> \o <<a>> BY <1>3, <1>9, <3>3, <4>2
          <5> QED BY <5>1, PairConcat
        <4>5. Len(<<a>>) = 1 OBVIOUS
        <4>6. Runs(<<a>>, state[k], prev_state[k], 1) BY <4>3, HaltsEmpty
        <4> QED BY <4>4, <4>5, <4>6
      <3>4. CASE k \notin Q
        <4>1. Runs(inbox[k], state[k], prev_state[k], Len(inbox[k]))
          BY <1>1, <1>2, <1>3, <1>6, <2>1, <3>4 DEF GInv, SourceInv, Joins
        <4> QED BY <1>3, <1>9, <3>4, <4>1
      <3> QED BY <3>2, <3>3, <3>4
    <2> QED BY <1>1, <1>2, <2>1 DEF SourceInv, Up
  <1> QED BY <1>14, <1>15, <1>16, <1>17, <1>18, <1>19, <1>20, <1>23, <1>25, <1>26, <1>27
      DEF GInv

\* A replica that failed is restarted, and only a replica that is up and
\* seeded is elected in its place.
LEMMA RestartStep ==
  ASSUME GInv, TypeOK', QuickStarts, NEW i \in Replica, rm_faulted(i)
  PROVE  GInv'
  <1>1. /\ join = "no" /\ report = [id |-> i, state |-> "FAULTED"]
        /\ report' = NoReport /\ node_state' = [node_state EXCEPT ![i] = "FAULTED"]
        /\ UNCHANGED <<mode, reports, first_time, connection, join, state, prev_state,
                       seeded, stalled, Sound, served, crashes, aborts>>
        /\ ~Has(inbox[i], "STARTUP") /\ ~Up(i) /\ reports[i] = <<>>
    BY FaultedEffect DEF detVars, srvVars, Sound
  <1>2. \A j \in Replica : node_state'[j] = IF j = i THEN "FAULTED" ELSE node_state[j]
    BY <1>1 DEF GInv, GTypeOK, TypeOK
  <1> DEFINE Elected(k) == /\ primary = i /\ primary' = k /\ Up(k) /\ Sound[k]
                           /\ inbox'[k] = inbox[k] \o <<PrimaryState>>
             Moved == \/ mode = 0 /\ primary = -1 /\ primary' = i
                      \/ primary # i /\ primary' = primary /\ (mode = 0 => primary # -1)
             Started == /\ inbox' \in [Replica -> Seq(Requests)]
                        /\ \A j \in Replica : Behind(inbox'[j])
                        /\ Has(inbox'[i], "STARTUP")
  <1>3. /\ Started
        /\ \/ /\ Moved
              /\ \A j \in Replica \ {i} : inbox'[j] = inbox[j]
           \/ \E k \in Replica \ {i} :
                 /\ Elected(k)
                 /\ \A j \in Replica \ {i, k} : inbox'[j] = inbox[j]
                 /\ \A d : Has(inbox'[k], d) <=> Has(inbox[k], d) \/ d = PrimaryState
    <2>1. "STARTUP" \in Requests /\ PrimaryState \in Requests
      BY DEF Requests, Roles, PrimaryState
    <2>2. ASSUME Send(To(i, "STARTUP"))
          PROVE  Started /\ \A j \in Replica \ {i} : inbox'[j] = inbox[j]
      BY <1>1, <2>1, <2>2, SendOne DEF GInv
    <2>3. ASSUME NEW k \in Replica \ {i}, ~Has(inbox[k], "STARTUP"),
                 Send(Then(To(i, "STARTUP"), To(k, PrimaryState)))
          PROVE  /\ Started /\ inbox'[k] = inbox[k] \o <<PrimaryState>>
                 /\ \A j \in Replica \ {i, k} : inbox'[j] = inbox[j]
                 /\ \A d : Has(inbox'[k], d) <=> Has(inbox[k], d) \/ d = PrimaryState
      <3>1. PICK r \in Requests : r = PrimaryState BY <2>1
      <3>2. PICK s \in Requests : s = "STARTUP" BY <2>1
      <3>3. Send(Then(To(i, s), To(k, r))) BY <2>3, <3>1, <3>2
      <3>4. /\ inbox' \in [Replica -> Seq(Requests)] /\ inbox'[k] = inbox[k] \o <<r>>
            /\ \A j \in Replica \ {i, k} : inbox'[j] = inbox[j]
            /\ \A j \in Replica : Behind(inbox'[j])
            /\ \A j \in Replica : \A d : Has(inbox'[j], d) <=>
                  Has(inbox[j], d) \/ (j = i /\ d = s) \/ (j = k /\ d = r)
        <4>1. DeliveredBoth(i, s, k, r) BY <1>1, <2>3, <3>3, SendTwo DEF GInv
        <4> QED BY <4>1 DEF DeliveredBoth
      <3> QED BY <3>1, <3>2, <3>4
    <2> QED BY <2>2, <2>3, FaultedEffect
  <1>4. primary' # -1 \/ (primary = -1 /\ primary' = primary) BY <1>3, NoReportFacts
  <1>5. GTypeOK' BY <1>1, <1>3 DEF GInv, GTypeOK
  <1>6. PrimaryState # "STARTUP" /\ PrimaryState # "QUIESCE_BEGIN"
        /\ PrimaryState # "QUIESCE_STOP" BY DEF PrimaryState
  <1>7. \A j \in Replica \ {i} : Has(inbox'[j], "STARTUP") <=> Has(inbox[j], "STARTUP")
    BY <1>3, <1>6
  <1>8. ReportInv' BY <1>1, <1>7, ReportsKept
  <1>9. StartupInv'
    BY <1>1, <1>2, <1>3, <1>7, NoReportFacts DEF GInv, StartupInv, Idle, Up
  <1>10. FallenInv'
    <2>1. ASSUME NEW j \in Replica, Fallen(j)', Seen(j)' PROVE OthersSound(j)'
      <3>1. j # i BY <1>3, <2>1 DEF Fallen
      <3>2. Fallen(j) BY <1>1, <1>7, <2>1, <3>1 DEF Fallen, Up
      <3>3. Seen(j) BY <1>1, <1>2, <1>3, <2>1, <3>1, <3>2, NoReportFacts DEF Seen, Fallen
      <3> QED BY <1>1, <3>2, <3>3 DEF GInv, FallenInv, OthersSound, Up
    <2> QED BY <2>1 DEF FallenInv
  <1>11. NoAborts' /\ JoinInv' /\ ServedInv'
    BY <1>1, <1>4 DEF GInv, NoAborts, JoinInv, ServedInv
  <1>12. \A j \in Replica : \A d : Has(inbox'[j], d) =>
            \/ Has(inbox[j], d) \/ j = i
            \/ d = PrimaryState /\ Elected(j)
    BY <1>3
  <1>13. \A d : Has(inbox'[i], d) => Has(inbox[i], d) \/ d = "STARTUP"
    <2>1. PICK s \in Requests, r \in Requests : s = "STARTUP" /\ r = PrimaryState
      <3>1. "STARTUP" \in Requests BY DEF Requests
      <3>2. PrimaryState \in Requests BY DEF Requests, Roles, PrimaryState
      <3> QED BY <3>1, <3>2
    <2>2. ASSUME Send(To(i, s)) PROVE \A d : Has(inbox'[i], d) => Has(inbox[i], d) \/ d = s
      <3>1. GTypeOK /\ StartupInv BY DEF GInv
      <3> QED BY <1>1, <2>2, <3>1, SendOne, ZenonT(30)
    <2>3. ASSUME NEW k \in Replica \ {i}, ~Has(inbox[k], "STARTUP"),
                 Send(Then(To(i, s), To(k, r)))
          PROVE  \A d : Has(inbox'[i], d) => Has(inbox[i], d) \/ d = s
      <3>1. DeliveredBoth(i, s, k, r) BY <1>1, <2>3, SendTwo DEF GInv
      <3> QED BY <3>1 DEF DeliveredBoth
    <2> QED BY <2>1, <2>2, <2>3, FaultedEffect
  <1>14. ModeInv'
    <2>1. /\ mode = 0 => PrimaryState \in PassiveCommands
          /\ mode = 1 => PrimaryState \in ActiveCommands
          /\ "STARTUP" \in PassiveCommands /\ "STARTUP" \in ActiveCommands
      BY DEF PassiveCommands, ActiveCommands, Setters, ActiveRoles, PrimaryState
    <2>2. \A j \in Replica : \A d : Has(inbox'[j], d) =>
             Has(inbox[j], d) \/ d = "STARTUP" \/ d = PrimaryState
      BY <1>12, <1>13
    <2>3. UNCHANGED <<mode, state, prev_state>> BY <1>1 DEF srvVars
    <2> QED BY <2>1, <2>2, <2>3 DEF GInv, ModeInv
  <1> HIDE DEF Started
  <1>15. PassiveInv'
    <2> SUFFICES ASSUME mode = 0, NEW j \in Replica
                 PROVE  /\ IsPrimary(j) => primary' = j
                        /\ Up(j) /\ Has(inbox'[j], "PASSIVE_PREPRIMARY") => primary' = j
                        /\ primary' = j /\ Has(inbox'[j], "STARTUP") => ~served
                        /\ primary' = j /\ Up(j) => Sound[j]
      BY <1>1 DEF PassiveInv, IsPrimary, Up
    <2>1. IsPrimary(j) => primary = j /\ j # i
      BY <1>1 DEF GInv, PassiveInv, IsPrimary, Up
    <2>2. Up(j) /\ Has(inbox'[j], "PASSIVE_PREPRIMARY") =>
             (primary = j /\ j # i) \/ Elected(j)
      BY <1>1, <1>12 DEF GInv, PassiveInv
    <2>3. j # i /\ Has(inbox'[j], "STARTUP") => ~Up(j) /\ Has(inbox[j], "STARTUP")
      BY <1>7 DEF GInv, StartupInv
    <2>4. primary = -1 => ~served BY DEF GInv, ServedInv
    <2>5. primary = j /\ Has(inbox[j], "STARTUP") => ~served BY DEF GInv, PassiveInv
    <2>6. primary = j /\ Up(j) => Sound[j] BY DEF GInv, PassiveInv
    <2>7. CASE Moved
      BY <1>1, <2>1, <2>2, <2>3, <2>4, <2>5, <2>6, <2>7, NoReportFacts
    <2>8. ASSUME NEW k \in Replica \ {i}, Elected(k)
          PROVE  /\ IsPrimary(j) => primary' = j
                 /\ Up(j) /\ Has(inbox'[j], "PASSIVE_PREPRIMARY") => primary' = j
                 /\ primary' = j /\ Has(inbox'[j], "STARTUP") => ~served
                 /\ primary' = j /\ Up(j) => Sound[j]
      BY <1>1, <2>1, <2>2, <2>3, <2>8
    <2> QED BY <1>3, <2>7, <2>8
  <1>16. BracketInv'
    <2> SUFFICES ASSUME mode = 1, NEW j \in Replica, Up(j)
                 PROVE  /\ state[j] # "UNKNOWN_STATE" \/ Led(inbox'[j])
                        /\ node_state'[j] = "RUNNING" =>
                              \/ state[j] # "UNKNOWN_STATE"
                              \/ \E c \in ActiveRoles : Has(inbox'[j], c)
                        /\ Has(inbox'[j], "QUIESCE_STOP") =>
                              state[j] # "UNKNOWN_STATE" /\ prev_state[j] \in ActiveStates
      BY <1>1 DEF BracketInv, Up, Joins
    <2>1. j # i BY <1>1
    <2>2. /\ state[j] # "UNKNOWN_STATE" \/ Led(inbox[j])
          /\ node_state[j] = "RUNNING" =>
                state[j] # "UNKNOWN_STATE" \/ \E c \in ActiveRoles : Has(inbox[j], c)
          /\ Has(inbox[j], "QUIESCE_STOP") =>
                state[j] # "UNKNOWN_STATE" /\ prev_state[j] \in ActiveStates
      BY DEF GInv, BracketInv
    <2>3. CASE inbox'[j] = inbox[j] BY <1>2, <2>1, <2>2, <2>3
    <2>4. CASE inbox'[j] = inbox[j] \o <<PrimaryState>> /\ Elected(j)
      <3>1. inbox[j] \in Seq(Requests) /\ <<PrimaryState>> \in Seq(Requests)
        BY DEF GInv, GTypeOK, Requests, Roles, PrimaryState
      <3>2. ~Has(<<PrimaryState>>, "QUIESCE_BEGIN") BY <1>6, HasShort
      <3>3. Led(<<PrimaryState>>) BY <3>2, LedShort
      <3>4. Led(inbox[j]) => Led(inbox'[j]) BY <2>4, <3>1, <3>3, LedConcat
      <3>5. \A d : Has(inbox'[j], d) <=> Has(inbox[j], d) \/ d = PrimaryState
        BY <1>1, <1>3, <2>4
      <3> QED BY <1>2, <1>6, <2>1, <2>2, <3>4, <3>5
    <2> QED BY <1>3, <2>1, <2>3, <2>4
  <1>17. SeedInv'
    <2> SUFFICES ASSUME mode = 1
                 PROVE  /\ primary' = -1 => \A j \in Replica : ~Has(inbox'[j], "ACTIVE_RUNNING")
                        /\ \A j \in Replica : primary' = j => ~Has(inbox'[j], "STARTUP")
                        /\ \A j \in Replica :
                              /\ Up(j)
                              /\ \/ state[j] = "ACTIVE_RUNNING" \/ prev_state[j] = "ACTIVE_RUNNING"
                                 \/ Has(inbox'[j], "ACTIVE_RUNNING") \/ primary' = j
                              => Sound[j]
      BY <1>1 DEF SeedInv, Up
    <2>1. primary' = -1 => \A j \in Replica : ~Has(inbox'[j], "ACTIVE_RUNNING")
      BY <1>3, <1>4, <1>12, <1>13 DEF GInv, SeedInv
    <2>2. \A j \in Replica : primary' = j => ~Has(inbox'[j], "STARTUP")
      BY <1>3, <1>7 DEF GInv, SeedInv, StartupInv
    <2>3. \A j \in Replica : Up(j) /\ Has(inbox'[j], "ACTIVE_RUNNING") =>
             Has(inbox[j], "ACTIVE_RUNNING") \/ Sound[j]
      BY <1>1, <1>12
    <2>4. \A j \in Replica : Up(j) /\ primary' = j => primary = j \/ Sound[j]
      BY <1>1, <1>3
    <2> QED BY <2>1, <2>2, <2>3, <2>4 DEF GInv, SeedInv
  <1>18. FreshInv'
    <2>1. \A j \in Replica \ {i} : Has(inbox'[j], "QUIESCE_BEGIN") =>
             Has(inbox[j], "QUIESCE_BEGIN")
      BY <1>6, <1>12
    <2> QED BY <1>1, <1>2, <2>1 DEF GInv, FreshInv, Up, Joins
  <1>19. SourceInv'
    <2> SUFFICES ASSUME mode = 1, ~stalled, NEW j \in Replica, primary' = j, Up(j)
                 PROVE  Runs(inbox'[j], state[j], prev_state[j], Len(inbox'[j]))
      BY <1>1 DEF SourceInv, Up
    <2>1. CASE Elected(j)
      <3>1. <<PrimaryState>> # <<>> /\ <<PrimaryState>>[Len(<<PrimaryState>>)] = "ACTIVE_RUNNING"
        BY DEF PrimaryState
      <3>2. inbox[j] \in Seq(Requests) /\ <<PrimaryState>> \in Seq(Requests)
        BY DEF GInv, GTypeOK, Requests, Roles, PrimaryState
      <3>3. Runs(inbox[j] \o <<PrimaryState>>, state[j], prev_state[j],
                 Len(inbox[j] \o <<PrimaryState>>))
        BY <3>1, <3>2, RunsConcat
      <3> QED BY <2>1, <3>3
    <2>2. CASE primary = j /\ j # i /\ inbox'[j] = inbox[j]
      BY <1>1, <2>2 DEF GInv, SourceInv, Joins
    <2> QED BY <1>1, <1>3, <2>1, <2>2
  <1>20. CheckpointInv' BY <1>1 DEF CheckpointInv
  <1> QED BY <1>5, <1>8, <1>9, <1>10, <1>11, <1>14, <1>15, <1>16, <1>17, <1>18, <1>19, <1>20
      DEF GInv

----------------------------------------------------------------------------
(* Every step keeps GInv: factories and servers *)

\* Steps in which no server starts or stops and nobody that was
\* seeded ceases to be.
LEMMA SameLives ==
  ASSUME GInv, UNCHANGED <<vars, detVars, join>>,
         \A j \in Replica : /\ Up(j)' <=> Up(j)
                            /\ Sound[j] => Sound'[j]
                            /\ Has(inbox'[j], "STARTUP") <=> Has(inbox[j], "STARTUP")
                            /\ Behind(inbox'[j])
  PROVE  ReportInv' /\ StartupInv' /\ JoinInv' /\ FallenInv'
  <1>1. UNCHANGED <<mode, report, node_state, primary, reports, join>> BY DEF vars, detVars
  <1>2. \A j \in Replica : Fallen(j)' <=> Fallen(j) BY DEF Fallen
  <1>3. ReportInv' BY <1>1, <1>2 DEF GInv, ReportInv
  <1>4. StartupInv' BY <1>1 DEF GInv, StartupInv, Idle
  <1>5. JoinInv' BY <1>1 DEF GInv, JoinInv
  <1>6. FallenInv' BY <1>1, <1>2 DEF GInv, FallenInv, Seen, OthersSound
  <1> QED BY <1>3, <1>4, <1>5, <1>6

\* The same for a command other than a start.
LEMMA CommandLives ==
  ASSUME GInv, NEW i \in Replica, NEW c, Command(i, c), c # "STARTUP",
         \A j \in Replica : (Up(j)' <=> Up(j)) /\ (Sound[j] => Sound'[j])
  PROVE  ReportInv' /\ StartupInv' /\ JoinInv' /\ FallenInv'
  <1>1. GTypeOK BY DEF GInv
  <1>2. /\ inbox[i] \in Seq(Requests) /\ inbox[i] # <<>> /\ inbox'[i] = Tail(inbox[i])
        /\ \A j \in Replica \ {i} : inbox'[j] = inbox[j]
        /\ UNCHANGED <<vars, detVars, join>>
    BY <1>1, CommandEffect
  <1>3. \A j \in Replica : Has(inbox'[j], "STARTUP") <=> Has(inbox[j], "STARTUP")
    BY <1>1, CommandEffect
  <1>4. \A j \in Replica : Behind(inbox[j]) BY DEF GInv, StartupInv
  <1>5. Behind(inbox'[i]) BY <1>2, <1>4, BehindTail
  <1>6. \A j \in Replica : Behind(inbox'[j]) BY <1>2, <1>4, <1>5
  <1> QED BY <1>2, <1>3, <1>6, SameLives

\* The primary of an active group stays on its way.
LEMMA SourceKept ==
  ASSUME GInv, NEW i \in Replica, NEW c, Command(i, c), Up(i),
         \A j \in Replica : Up(j)' => Up(j),
         \A j \in Replica \ {i} : state'[j] = state[j] /\ prev_state'[j] = prev_state[j],
         mode = 1 => /\ state'[i] = StateAfter(c, state[i], prev_state[i])
                     /\ prev_state'[i] = PrevAfter(c, state[i], prev_state[i])
  PROVE  SourceInv'
  <1>1. GTypeOK BY DEF GInv
  <1>2. /\ inbox[i] \in Seq(Requests) /\ inbox[i] # <<>> /\ inbox'[i] = Tail(inbox[i])
        /\ Head(inbox[i]) = c
        /\ \A j \in Replica \ {i} : inbox'[j] = inbox[j]
        /\ UNCHANGED <<mode, report, node_state, primary, join, stalled>>
    BY <1>1, CommandEffect DEF vars
  <1> SUFFICES ASSUME mode = 1, ~stalled, NEW j \in Replica, primary = j, Up(j), ~Joins(j)
               PROVE  IF join = "quiesce" /\ j \in Quiesced(report.id)
                        THEN Halts(inbox'[j], state'[j], prev_state'[j])
                        ELSE Runs(inbox'[j], state'[j], prev_state'[j], Len(inbox'[j]))
    BY <1>2 DEF SourceInv, Joins, Quiesced
  <1>3. IF join = "quiesce" /\ j \in Quiesced(report.id)
          THEN Halts(inbox[j], state[j], prev_state[j])
          ELSE Runs(inbox[j], state[j], prev_state[j], Len(inbox[j]))
    BY DEF GInv, SourceInv
  <1>4. CASE j # i BY <1>2, <1>3, <1>4
  <1>5. CASE j = i
    <2>1. Len(inbox[i]) \in 1 .. Len(inbox[i]) /\ Len(Tail(inbox[i])) = Len(inbox[i]) - 1
      BY <1>2
    <2>2. Halts(inbox[i], state[i], prev_state[i]) =>
             Halts(inbox'[i], state'[i], prev_state'[i])
      BY <1>2, HaltsTail
    <2>3. Runs(inbox[i], state[i], prev_state[i], Len(inbox[i])) =>
             Runs(inbox'[i], state'[i], prev_state'[i], Len(inbox'[i]))
      BY <1>2, <2>1, RunsTail
    <2> QED BY <1>3, <1>5, <2>2, <2>3
  <1> QED BY <1>4, <1>5

\* While a replica joins there is a joiner and a primary.
LEMMA JoinTyped ==
  ASSUME GInv, join # "no"
  PROVE  report.id \in Replica /\ primary \in Replica
  <1>1. report.state = "RUNNING" /\ primary # -1 BY DEF GInv, JoinInv
  <1>2. report # NoReport BY <1>1, NoReportFacts
  <1> QED BY <1>1, <1>2 DEF GInv, GTypeOK, TypeOK

\* A joiner's checkpoint stays on its way unless it is the request for it that
\* is carried out.
LEMMA CheckpointKept ==
  ASSUME GInv, NEW i \in Replica, NEW c, Command(i, c),
         \A j \in Replica : (Up(j)' <=> Up(j)) /\ (Sound[j] => Sound'[j]),
         \/ c # "SEND_CHKPT" \/ ~Up(i) \/ i # primary
         \/ join = "quiesce" /\ i # report.id /\ inbox[i] = <<"SEND_CHKPT">> =>
               \A j \in Replica : Up(j) => Sound'[j]
  PROVE  CheckpointInv'
  <1>1. GTypeOK BY DEF GInv
  <1>2. /\ inbox[i] \in Seq(Requests) /\ inbox[i] # <<>> /\ inbox'[i] = Tail(inbox[i])
        /\ Head(inbox[i]) = c
        /\ \A j \in Replica \ {i} : inbox'[j] = inbox[j]
        /\ UNCHANGED <<mode, report, node_state, primary, join>>
    BY <1>1, CommandEffect DEF vars
  <1> SUFFICES ASSUME join = "quiesce", state'[report.id] # "down"
               PROVE  \/ Sound'[report.id]
                      \/ /\ primary # report.id /\ state'[primary] # "down"
                         /\ Asked(inbox'[primary])
    BY <1>2 DEF CheckpointInv, Up
  <1>3. report.id \in Replica /\ primary \in Replica /\ Up(report.id)
        /\ (state'[primary] # "down" <=> Up(primary))
    BY JoinTyped DEF Up
  <1>4. \/ Sound[report.id]
        \/ primary # report.id /\ Up(primary) /\ Asked(inbox[primary])
    BY <1>3 DEF GInv, CheckpointInv
  <1>5. CASE Sound[report.id] BY <1>3, <1>5
  <1>6. CASE primary # report.id /\ Up(primary) /\ Asked(inbox[primary])
    <2>1. CASE primary # i BY <1>2, <1>3, <1>6, <2>1
    <2>2. CASE primary = i
      <3>1. inbox[i] = <<"SEND_CHKPT">> \/ Asked(Tail(inbox[i]))
        BY <1>2, <1>6, <2>2, AskedTail
      <3>2. CASE Asked(Tail(inbox[i])) BY <1>2, <1>3, <1>6, <2>2, <3>2
      <3>3. CASE inbox[i] = <<"SEND_CHKPT">>
        <4>1. Head(inbox[i]) = "SEND_CHKPT" BY <3>3
        <4> QED BY <1>2, <1>3, <1>6, <2>2, <3>3, <4>1
      <3> QED BY <3>1, <3>2, <3>3
    <2> QED BY <2>1, <2>2
  <1> QED BY <1>4, <1>5, <1>6

\* A start of a server that is down, with nothing but requests for checkpoints
\* behind it.
LEMMA SpawnStep ==
  ASSUME GInv, TypeOK', NEW i \in Replica, spawn_server(i)
  PROVE  GInv'
  <1>1. GTypeOK /\ Command(i, "STARTUP") BY DEF GInv, spawn_server
  <1>2. /\ inbox[i] \in Seq(Requests) /\ inbox[i] # <<>> /\ Head(inbox[i]) = "STARTUP"
        /\ inbox'[i] = Tail(inbox[i]) /\ inbox' \in [Replica -> Seq(Requests)]
        /\ \A j \in Replica \ {i} : inbox'[j] = inbox[j]
        /\ Has(inbox[i], "STARTUP")
    BY <1>1, CommandEffect
  <1>3. UNCHANGED <<mode, report, node_state, primary, reports, first_time, connection, join,
                    stalled, crashes>>
    BY <1>1, CommandEffect DEF vars, detVars
  <1>4. /\ ~Up(i) /\ Idle(i) /\ node_state[i] = "FAULTED" /\ Behind(inbox[i])
    BY <1>2 DEF GInv, StartupInv
  <1>5. /\ state' = [state EXCEPT ![i] = "UNKNOWN_STATE"]
        /\ prev_state' = [prev_state EXCEPT ![i] = "UNKNOWN_STATE"]
        /\ seeded' = [seeded EXCEPT ![i] = ~served]
        /\ UNCHANGED <<served, aborts>>
    BY <1>4 DEF spawn_server
  <1>6. Behind(inbox'[i]) /\ \A c : Has(inbox'[i], c) => c = "SEND_CHKPT"
    BY <1>2, <1>4, BehindTail
  <1>7. /\ state'[i] = "UNKNOWN_STATE" /\ prev_state'[i] = "UNKNOWN_STATE"
        /\ ~served => Sound'[i]
        /\ Up(i)'
        /\ \A j \in Replica \ {i} : /\ state'[j] = state[j] /\ prev_state'[j] = prev_state[j]
                                    /\ Sound'[j] = Sound[j] /\ (Up(j)' <=> Up(j))
    BY <1>3, <1>5 DEF GInv, GTypeOK, Up, Sound
  <1>8. GTypeOK' BY <1>2, <1>3, <1>5 DEF GInv, GTypeOK, States
  <1>9. ReportInv'
    <2>1. ~Has(reports[i], "FAULTED") /\ report.id # i
      <3>1. ~Has(<<>>, "FAULTED") BY DEF Has
      <3> QED BY <1>4, <3>1 DEF Idle
    <2>2. \A j \in Replica \ {i} : Fallen(j)' <=> Fallen(j) BY <1>2, <1>7 DEF Fallen
    <2> QED BY <1>3, <2>1, <2>2 DEF GInv, ReportInv
  <1>10. StartupInv' BY <1>2, <1>3, <1>6, <1>7 DEF GInv, StartupInv, Idle
  <1>11. FallenInv'
    <2>1. ASSUME NEW j \in Replica, Fallen(j)', Seen(j)' PROVE FALSE
      <3>1. j # i BY <1>7, <2>1 DEF Fallen
      <3>2. Fallen(j) /\ Seen(j) BY <1>2, <1>3, <1>7, <2>1, <3>1 DEF Fallen, Seen
      <3> QED BY <1>4, <3>1, <3>2 DEF GInv, FallenInv, OthersSound
    <2> QED BY <2>1 DEF FallenInv
  <1>12. NoAborts' /\ JoinInv' BY <1>3, <1>5 DEF GInv, NoAborts, JoinInv
  <1>13. ServedInv' BY <1>3, <1>5, <1>7 DEF GInv, ServedInv
  <1>14. ModeInv'
    BY <1>2, <1>3, <1>6, <1>7 DEF GInv, ModeInv, PassiveCommands, ActiveCommands
  <1>15. PassiveInv'
    BY <1>2, <1>3, <1>5, <1>6, <1>7 DEF GInv, PassiveInv, IsPrimary
  <1>16. ~Joins(i)' /\ \A j \in Replica : Joins(j)' <=> Joins(j)
    BY <1>3, <1>4 DEF Joins, Idle
  <1>17. BracketInv'
    <2>1. Led(inbox'[i])
      <3>1. ~Has(inbox'[i], "QUIESCE_BEGIN") BY <1>6
      <3> QED BY <3>1, LedShort
    <2>2. join = "quiesce" => ~(i \in Quiesced(report.id)) BY <1>4 DEF Quiesced, Idle
    <2>3. \A j : j \in Quiesced(report.id)' <=> j \in Quiesced(report.id)
      BY <1>3 DEF Quiesced
    <2> QED BY <1>2, <1>3, <1>4, <1>6, <1>7, <1>16, <2>1, <2>2, <2>3 DEF GInv, BracketInv
  <1>18. SeedInv' BY <1>2, <1>3, <1>6, <1>7 DEF GInv, SeedInv
  <1>19. FreshInv' BY <1>2, <1>3, <1>6, <1>7, <1>16 DEF GInv, FreshInv
  <1>20. SourceInv'
    <2>1. mode = 1 => primary # i BY <1>2 DEF GInv, SeedInv
    <2> QED BY <1>2, <1>3, <1>7, <1>16, <2>1 DEF GInv, SourceInv, Quiesced
  <1>21. CheckpointInv'
    <2>1. join = "quiesce" => report.id # i /\ report.id \in Replica /\ primary \in Replica
      BY <1>4, JoinTyped DEF Idle
    <2> QED BY <1>2, <1>3, <1>4, <1>7, <2>1 DEF GInv, CheckpointInv
  <1> QED BY <1>8, <1>9, <1>10, <1>11, <1>12, <1>13, <1>14, <1>15, <1>17, <1>18, <1>19, <1>20,
             <1>21 DEF GInv

\* A command that cannot be relayed is lost, and with it nothing that matters
\* for a server that is up.
LEMMA RelayFailedStep ==
  ASSUME GInv, TypeOK', NEW i \in Replica, NEW c, relay_failed(i, c)
  PROVE  GInv'
  <1>1. GTypeOK /\ Command(i, c) /\ ~Up(i) /\ c # "STARTUP" BY DEF GInv, relay_failed
  <1>2. /\ inbox' \in [Replica -> Seq(Requests)]
        /\ \A j \in Replica \ {i} : inbox'[j] = inbox[j]
        /\ \A j \in Replica : \A d : Has(inbox'[j], d) => Has(inbox[j], d)
    BY <1>1, CommandEffect
  <1>3. UNCHANGED <<mode, report, node_state, primary, reports, first_time, connection, join,
                    crashes, state, prev_state, seeded, stalled, Sound, served, aborts>>
    BY <1>1, CommandEffect DEF vars, detVars, relay_failed, Sound
  <1>4. \A j \in Replica : /\ Up(j)' <=> Up(j)
                           /\ Sound'[j] = Sound[j]
                           /\ Up(j) => inbox'[j] = inbox[j]
                           /\ Joins(j)' <=> Joins(j)
    BY <1>1, <1>2, <1>3 DEF Up, Joins
  <1>5. ReportInv' /\ StartupInv' /\ JoinInv' /\ FallenInv' BY <1>1, <1>4, CommandLives
  <1>6. GTypeOK' BY <1>2, <1>3 DEF GInv, GTypeOK
  <1>7. NoAborts' /\ ServedInv' BY <1>3 DEF GInv, NoAborts, ServedInv
  <1>8. ModeInv' BY <1>2, <1>3 DEF GInv, ModeInv
  <1>9. PassiveInv' BY <1>2, <1>3, <1>4 DEF GInv, PassiveInv, IsPrimary
  <1>10. BracketInv' BY <1>3, <1>4 DEF GInv, BracketInv, Quiesced
  <1>11. SeedInv' BY <1>2, <1>3, <1>4 DEF GInv, SeedInv
  <1>12. FreshInv' BY <1>2, <1>3, <1>4 DEF GInv, FreshInv
  <1>13. SourceInv' BY <1>3, <1>4 DEF GInv, SourceInv, Quiesced
  <1>14. CheckpointInv' BY <1>1, <1>4, CheckpointKept
  <1> QED BY <1>5, <1>6, <1>7, <1>8, <1>9, <1>10, <1>11, <1>12, <1>13, <1>14 DEF GInv

\* A server takes the role it is told: in passive mode only the manager's
\* primary is told PREPRIMARY, in active mode only who is seeded RUNNING.
LEMMA ChangeStateStep ==
  ASSUME GInv, TypeOK', NEW i \in Replica, NEW s \in Roles, send_change_state_message(i, s)
  PROVE  GInv'
  <1>1. GTypeOK /\ Command(i, s) /\ Up(i) BY DEF GInv, send_change_state_message
  <1>2. /\ inbox' \in [Replica -> Seq(Requests)] /\ Has(inbox[i], s)
        /\ \A j \in Replica \ {i} : inbox'[j] = inbox[j]
        /\ \A j \in Replica : \A d : Has(inbox'[j], d) => Has(inbox[j], d)
    BY <1>1, CommandEffect
  <1>3. \A j \in Replica : \A d : Has(inbox[j], d) => (j = i /\ d = s) \/ Has(inbox'[j], d)
    BY <1>1, CommandEffect
  <1>4. /\ UNCHANGED <<mode, report, node_state, primary, reports, first_time, connection, join,
                       crashes, prev_state, seeded, stalled, Sound, aborts>>
        /\ state' = [state EXCEPT ![i] = s]
        /\ served' = (served \/ s \in {"ACTIVE_RUNNING", "PASSIVE_PREPRIMARY"})
    BY <1>1, CommandEffect DEF vars, detVars, send_change_state_message, Sound
  <1>5. s # "down" /\ s # "UNKNOWN_STATE" /\ s \in States /\ s # "STARTUP" /\ s # "SEND_CHKPT"
        /\ s # "QUIESCE_BEGIN" /\ s # "PASSIVE_PRIMARY" /\ s \in Requests
    BY DEF Roles, States, ActiveStates, PassiveStates, Requests
  <1>6. /\ state'[i] = s
        /\ \A j \in Replica \ {i} : state'[j] = state[j]
    BY <1>4 DEF GInv, GTypeOK
  <1>7. \A j \in Replica : /\ Up(j)' <=> Up(j)
                           /\ Sound[j] => Sound'[j]
                           /\ Joins(j)' <=> Joins(j)
    BY <1>1, <1>4, <1>5, <1>6 DEF Up, Joins
  <1>8. ReportInv' /\ StartupInv' /\ JoinInv' /\ FallenInv' BY <1>1, <1>5, <1>7, CommandLives
  <1>9. GTypeOK' BY <1>2, <1>4, <1>5 DEF GInv, GTypeOK
  <1>10. NoAborts' BY <1>4 DEF GInv, NoAborts
  <1>11. /\ mode = 0 => s \in {"PASSIVE_BACKUP", "PASSIVE_PREPRIMARY"}
         /\ mode = 1 => s \in ActiveRoles
    BY <1>2, <1>5 DEF GInv, ModeInv, PassiveCommands, ActiveCommands, Setters, ActiveRoles, Roles
  <1>12. /\ s = "PASSIVE_PREPRIMARY" => primary = i
         /\ s = "ACTIVE_RUNNING" => mode = 1 /\ primary # -1 /\ Sound[i]
         /\ mode \in {0, 1}
    <2>1. s = "PASSIVE_PREPRIMARY" => mode = 0
      BY <1>11 DEF ActiveRoles, GInv, GTypeOK, TypeOK
    <2>2. s = "ACTIVE_RUNNING" => mode = 1 BY <1>11 DEF GInv, GTypeOK, TypeOK
    <2>3. mode \in {0, 1} BY DEF GInv, GTypeOK, TypeOK
    <2>4. s = "PASSIVE_PREPRIMARY" => primary = i BY <1>1, <1>2, <2>1 DEF GInv, PassiveInv
    <2>5. s = "ACTIVE_RUNNING" => primary # -1 /\ Sound[i]
      BY <1>1, <1>2, <2>2 DEF GInv, SeedInv
    <2> QED BY <2>2, <2>3, <2>4, <2>5
  <1>13. ServedInv' BY <1>4, <1>12, NoReportFacts DEF GInv, ServedInv
  <1>14. ModeInv'
    BY <1>2, <1>4, <1>6, <1>11 DEF GInv, ModeInv, ActiveRoles, ActiveStates, PassiveStates
  <1>15. PassiveInv'
    <2>1. ~Has(inbox[i], "STARTUP") BY <1>1 DEF GInv, StartupInv
    <2>2. \A j \in Replica : IsPrimary(j)' => IsPrimary(j) \/ (j = i /\ primary = i)
      BY <1>5, <1>6, <1>12 DEF IsPrimary
    <2>3. \A j \in Replica : primary = j /\ Has(inbox'[j], "STARTUP") =>
             Has(inbox[j], "STARTUP") /\ j # i
      BY <1>2, <2>1
    <2>4. served' /\ ~served => primary = i \/ mode = 1 BY <1>4, <1>12
    <2> QED BY <1>2, <1>4, <1>7, <2>2, <2>3, <2>4 DEF GInv, PassiveInv
  <1>16. BracketInv'
    <2>1. \A j : j \in Quiesced(report.id)' <=> j \in Quiesced(report.id)
      BY <1>4 DEF Quiesced
    <2> SUFFICES ASSUME mode = 1, NEW j \in Replica, Up(j)
                 PROVE  /\ state'[j] # "UNKNOWN_STATE" \/ Led(inbox'[j])
                        /\ node_state[j] = "RUNNING" \/ Joins(j) =>
                              \/ state'[j] # "UNKNOWN_STATE"
                              \/ \E c \in ActiveRoles : Has(inbox'[j], c)
                        /\ Has(inbox'[j], "QUIESCE_STOP") =>
                              state'[j] # "UNKNOWN_STATE" /\ prev_state[j] \in ActiveStates
                        /\ join = "quiesce" /\ j \in Quiesced(report.id) =>
                              \/ Has(inbox'[j], "QUIESCE_BEGIN")
                              \/ state'[j] # "UNKNOWN_STATE" /\ prev_state[j] \in ActiveStates
      BY <1>4, <1>7, <2>1 DEF BracketInv
    <2>2. CASE j # i BY <1>2, <1>6, <2>2 DEF GInv, BracketInv
    <2>3. CASE j = i
      BY <1>2, <1>3, <1>5, <1>6, <2>3 DEF GInv, BracketInv
    <2> QED BY <2>2, <2>3
  <1>17. SeedInv'
    BY <1>2, <1>4, <1>6, <1>7, <1>12 DEF GInv, SeedInv
  <1>18. FreshInv' BY <1>2, <1>4, <1>7 DEF GInv, FreshInv
  <1>19. SourceInv'
    <2>1. mode = 1 => /\ state'[i] = StateAfter(s, state[i], prev_state[i])
                      /\ prev_state'[i] = PrevAfter(s, state[i], prev_state[i])
      BY <1>4, <1>5, <1>6, <1>11 DEF StateAfter, PrevAfter
    <2> QED BY <1>1, <1>4, <1>6, <1>7, <2>1, SourceKept
  <1>20. CheckpointInv' BY <1>1, <1>5, <1>7, CheckpointKept
  <1> QED BY <1>8, <1>9, <1>10, <1>13, <1>14, <1>15, <1>16, <1>17, <1>18, <1>19, <1>20
      DEF GInv

\* Whoever sends a checkpoint is seeded.
LEMMA DonorSound ==
  ASSUME GInv, NEW i \in Replica, Up(i), KnowsBackups(i)
  PROVE  Sound[i]
  <1>1. mode \in {0, 1} BY DEF GInv, GTypeOK, TypeOK
  <1>2. CASE mode = 0
    <2>1. state[i] \in {"down", "UNKNOWN_STATE"} \cup PassiveStates
      BY <1>2 DEF GInv, ModeInv
    <2>2. IsPrimary(i) BY <2>1 DEF KnowsBackups, PassiveStates, IsPrimary
    <2> QED BY <1>2, <2>2 DEF GInv, PassiveInv
  <1>3. CASE mode = 1
    <2>1. state[i] \in {"down", "UNKNOWN_STATE"} \cup ActiveStates
      BY <1>3 DEF GInv, ModeInv
    <2>2. state[i] = "ACTIVE_RUNNING" \/ prev_state[i] = "ACTIVE_RUNNING"
      BY <2>1 DEF KnowsBackups, ActiveStates
    <2> QED BY <1>3, <2>2 DEF GInv, SeedInv
  <1> QED BY <1>1, <1>2, <1>3

\* A checkpoint of a seeded server makes all that are up seeded.
LEMMA CheckpointEffect ==
  ASSUME GTypeOK, NEW i \in Replica, Sound[i], Checkpoint(i), UNCHANGED stalled
  PROVE  /\ seeded' \in [Replica -> BOOLEAN]
         /\ \A j \in Replica : (Sound[j] => Sound'[j]) /\ (Up(j) => Sound'[j])
  BY DEF GTypeOK, Checkpoint, Sound

\* Checkpoints only add to those who are seeded: the invariants about them
\* survive a step that changes nothing else, and commands other than roles and
\* starts.
LEMMA DataSpreads ==
  ASSUME GInv, UNCHANGED <<vars, detVars, join, state, prev_state, served, stalled, crashes,
                       aborts>>,
         seeded' \in [Replica -> BOOLEAN], inbox' \in [Replica -> Seq(Requests)],
         \A j \in Replica : Sound[j] => Sound'[j],
         \A j \in Replica : \A d : Has(inbox'[j], d) => Has(inbox[j], d)
  PROVE  /\ TypeOK' => GTypeOK'
         /\ NoAborts' /\ ServedInv' /\ ModeInv' /\ PassiveInv' /\ SeedInv' /\ FreshInv'
  <1>1. UNCHANGED <<mode, report, node_state, primary, reports, first_time, connection>>
    BY DEF vars, detVars
  <1>2. \A j \in Replica : (Up(j)' <=> Up(j)) /\ (Joins(j)' <=> Joins(j))
    BY <1>1 DEF Up, Joins
  <1>3. TypeOK' => GTypeOK' BY <1>1 DEF GInv, GTypeOK
  <1>4. NoAborts' /\ ServedInv' BY <1>1 DEF GInv, NoAborts, ServedInv
  <1>5. ModeInv' BY <1>1 DEF GInv, ModeInv
  <1>6. PassiveInv' BY <1>1, <1>2 DEF GInv, PassiveInv, IsPrimary
  <1>7. SeedInv' BY <1>1, <1>2 DEF GInv, SeedInv
  <1>8. FreshInv' BY <1>1, <1>2 DEF GInv, FreshInv
  <1> QED BY <1>3, <1>4, <1>5, <1>6, <1>7, <1>8

\* A checkpoint on request.  The primary of a quiesced group does send it.
LEMMA OnDemandStep ==
  ASSUME GInv, TypeOK', NEW i \in Replica, send_checkpoint_to_bkps(i)
  PROVE  GInv'
  <1> DEFINE c == "SEND_CHKPT"
             sends == prev_state[i] # "ACTIVE_RECOVER" /\ KnowsBackups(i)
  <1>1. GTypeOK /\ Command(i, c) /\ Up(i) BY DEF GInv, send_checkpoint_to_bkps
  <1>2. /\ inbox[i] \in Seq(Requests) /\ inbox[i] # <<>> /\ Head(inbox[i]) = c
        /\ inbox'[i] = Tail(inbox[i]) /\ inbox' \in [Replica -> Seq(Requests)]
        /\ \A j \in Replica \ {i} : inbox'[j] = inbox[j]
        /\ \A j \in Replica : \A d : Has(inbox'[j], d) => Has(inbox[j], d)
    BY <1>1, CommandEffect
  <1>3. \A j \in Replica : \A d : Has(inbox[j], d) => (j = i /\ d = c) \/ Has(inbox'[j], d)
    BY <1>1, CommandEffect
  <1>4. UNCHANGED <<vars, detVars, join, state, prev_state, served, stalled, crashes,
                       aborts>>
    BY <1>1, CommandEffect DEF send_checkpoint_to_bkps
  <1>5. UNCHANGED <<mode, report, node_state, primary, join>> BY <1>4 DEF vars
  <1>6. /\ seeded' \in [Replica -> BOOLEAN]
        /\ \A j \in Replica : Sound[j] => Sound'[j]
        /\ sends => \A j \in Replica : Up(j) => Sound'[j]
    <2>1. CASE sends
      BY <1>1, <1>4, <2>1, DonorSound, CheckpointEffect DEF send_checkpoint_to_bkps
    <2>2. CASE ~sends BY <1>4, <2>2 DEF send_checkpoint_to_bkps, GInv, GTypeOK, Sound
    <2> QED BY <2>1, <2>2
  <1>7. \A j \in Replica : /\ Up(j)' <=> Up(j)
                           /\ Joins(j)' <=> Joins(j)
    BY <1>4, <1>5 DEF Up, Joins
  <1>8. ReportInv' /\ StartupInv' /\ JoinInv' /\ FallenInv' BY <1>1, <1>6, <1>7, CommandLives
  <1>9. GTypeOK' /\ NoAborts' /\ ServedInv' /\ ModeInv' /\ PassiveInv' /\ SeedInv' /\ FreshInv'
    BY <1>2, <1>4, <1>6, DataSpreads
  <1>10. BracketInv'
    <2>1. Led(inbox[i]) => Led(inbox'[i])
      <3>1. Head(inbox[i]) \notin ActiveRoles BY <1>2 DEF ActiveRoles
      <3> QED BY <1>2, <3>1, LedTail
    <2>2. \A j : j \in Quiesced(report.id)' <=> j \in Quiesced(report.id)
      BY <1>5 DEF Quiesced
    <2>3. \A j \in Replica : /\ Led(inbox[j]) => Led(inbox'[j])
                             /\ \A d \in ActiveRoles : Has(inbox[j], d) => Has(inbox'[j], d)
                             /\ Has(inbox'[j], "QUIESCE_STOP") => Has(inbox[j], "QUIESCE_STOP")
                             /\ Has(inbox[j], "QUIESCE_BEGIN") => Has(inbox'[j], "QUIESCE_BEGIN")
      BY <1>2, <1>3, <2>1 DEF ActiveRoles
    <2> QED BY <1>4, <1>5, <1>7, <2>2, <2>3 DEF GInv, BracketInv
  <1>11. SourceInv'
    <2>1. /\ state'[i] = StateAfter(c, state[i], prev_state[i])
          /\ prev_state'[i] = PrevAfter(c, state[i], prev_state[i])
      BY <1>4 DEF StateAfter, PrevAfter, ActiveRoles
    <2> QED BY <1>1, <1>4, <1>7, <2>1, SourceKept
  <1>12. CheckpointInv'
    <2>1. ASSUME ~stalled, primary = i, join = "quiesce", i # report.id, inbox[i] = <<c>>
          PROVE  sends
      <3>1. mode = 1 /\ ~Joins(i) BY <2>1 DEF GInv, JoinInv, Joins
      <3>2. CASE i \in Quiesced(report.id)
        <4>1. Halts(<<c>>, state[i], prev_state[i])
          BY <1>1, <2>1, <3>1, <3>2 DEF GInv, SourceInv
        <4>2. state[i] = "QUIESCE" /\ prev_state[i] = "ACTIVE_RUNNING" BY <4>1, HaltsEmpty
        <4> QED BY <4>2 DEF KnowsBackups
      <3>3. CASE i \notin Quiesced(report.id)
        <4>1. Runs(<<c>>, state[i], prev_state[i], Len(<<c>>))
          BY <1>1, <2>1, <3>1, <3>3 DEF GInv, SourceInv
        <4>2. Len(<<c>>) = 1 OBVIOUS
        <4>3. state[i] = "ACTIVE_RUNNING" BY <4>1, <4>2, HaltsEmpty
        <4>4. node_state[i] = "FAULTED" BY <3>3 DEF Quiesced, GInv, GTypeOK, TypeOK
        <4>5. prev_state[i] = "UNKNOWN_STATE" BY <1>1, <3>1, <4>4 DEF GInv, FreshInv
        <4> QED BY <4>3, <4>5 DEF KnowsBackups
      <3> QED BY <3>2, <3>3
    <2>2. stalled => \A j \in Replica : Sound'[j] BY <1>4 DEF Sound
    <2> QED BY <1>1, <1>6, <1>7, <2>1, <2>2, CheckpointKept
  <1> QED BY <1>8, <1>9, <1>10, <1>11, <1>12 DEF GInv

\* A server is quiesced in a life in which it has been given a role.
LEMMA BeginStep ==
  ASSUME GInv, TypeOK', NEW i \in Replica, send_start_quiesce(i)
  PROVE  GInv'
  <1> DEFINE c == "QUIESCE_BEGIN"
  <1>1. GTypeOK /\ Command(i, c) /\ Up(i) BY DEF GInv, send_start_quiesce
  <1>2. /\ inbox[i] \in Seq(Requests) /\ inbox[i] # <<>> /\ Head(inbox[i]) = c
        /\ inbox' \in [Replica -> Seq(Requests)] /\ Has(inbox[i], c)
        /\ \A j \in Replica \ {i} : inbox'[j] = inbox[j]
        /\ \A j \in Replica : \A d : Has(inbox'[j], d) => Has(inbox[j], d)
        /\ UNCHANGED <<vars, detVars, join, stalled, crashes>>
    BY <1>1, CommandEffect
  <1>3. mode = 1
    <2>1. mode # 0
      <3>1. c \in Requests /\ c \notin PassiveCommands BY DEF Requests, PassiveCommands
      <3> QED BY <1>2, <3>1 DEF GInv, ModeInv
    <2> QED BY <2>1 DEF GInv, GTypeOK, TypeOK
  <1>4. state[i] # "UNKNOWN_STATE"
    <2>1. Head(inbox[i]) \notin ActiveRoles BY <1>2 DEF ActiveRoles
    <2>2. ~Led(inbox[i]) BY <1>2, <2>1, LedTail
    <2> QED BY <1>1, <1>3, <2>2 DEF GInv, BracketInv
  <1>5. state[i] \in ActiveStates BY <1>1, <1>3, <1>4 DEF GInv, ModeInv, Up
  <1>6. /\ prev_state' = [prev_state EXCEPT ![i] = state[i]]
        /\ state' = [state EXCEPT ![i] = "QUIESCE"]
        /\ UNCHANGED <<seeded, stalled, Sound, aborts, served>>
    BY <1>2, <1>4 DEF send_start_quiesce, Sound
  <1>7. UNCHANGED <<mode, report, node_state, primary, reports, first_time, connection, join,
                    crashes>>
    BY <1>2 DEF vars, detVars
  <1>8. /\ state'[i] = "QUIESCE" /\ prev_state'[i] = state[i]
        /\ \A j \in Replica \ {i} : state'[j] = state[j] /\ prev_state'[j] = prev_state[j]
    BY <1>6 DEF GInv, GTypeOK
  <1>9. \A j \in Replica : /\ Up(j)' <=> Up(j)
                           /\ Sound[j] => Sound'[j]
                           /\ Joins(j)' <=> Joins(j)
    BY <1>1, <1>6, <1>7, <1>8 DEF Up, Joins
  <1>10. ReportInv' /\ StartupInv' /\ JoinInv' /\ FallenInv' BY <1>1, <1>9, CommandLives
  <1>11. GTypeOK' BY <1>2, <1>5, <1>6, <1>7 DEF GInv, GTypeOK, States, ActiveStates
  <1>12. NoAborts' /\ ServedInv' BY <1>6, <1>7 DEF GInv, NoAborts, ServedInv
  <1>13. ModeInv' BY <1>2, <1>3, <1>5, <1>7, <1>8 DEF GInv, ModeInv, ActiveStates
  <1>14. PassiveInv' BY <1>3, <1>7 DEF PassiveInv
  <1>15. BracketInv'
    <2>1. \A j : j \in Quiesced(report.id)' <=> j \in Quiesced(report.id)
      BY <1>7 DEF Quiesced
    <2> SUFFICES ASSUME NEW j \in Replica, Up(j)
                 PROVE  /\ state'[j] # "UNKNOWN_STATE" \/ Led(inbox'[j])
                        /\ node_state[j] = "RUNNING" \/ Joins(j) =>
                              \/ state'[j] # "UNKNOWN_STATE"
                              \/ \E d \in ActiveRoles : Has(inbox'[j], d)
                        /\ Has(inbox'[j], "QUIESCE_STOP") =>
                              state'[j] # "UNKNOWN_STATE" /\ prev_state'[j] \in ActiveStates
                        /\ join = "quiesce" /\ j \in Quiesced(report.id) =>
                              \/ Has(inbox'[j], "QUIESCE_BEGIN")
                              \/ state'[j] # "UNKNOWN_STATE" /\ prev_state'[j] \in ActiveStates
      BY <1>7, <1>9, <2>1 DEF BracketInv
    <2>2. CASE j # i BY <1>2, <1>3, <1>8, <2>2 DEF GInv, BracketInv
    <2>3. CASE j = i BY <1>5, <1>8, <2>3
    <2> QED BY <2>2, <2>3
  <1>16. SeedInv' BY <1>2, <1>6, <1>7, <1>8, <1>9 DEF GInv, SeedInv
  <1>17. FreshInv'
    <2>1. ~(node_state[i] = "FAULTED" /\ ~Joins(i))
      BY <1>1, <1>2, <1>3 DEF GInv, FreshInv
    <2> QED BY <1>2, <1>7, <1>8, <1>9, <2>1 DEF GInv, FreshInv
  <1>18. SourceInv'
    <2>1. /\ state'[i] = StateAfter(c, state[i], prev_state[i])
          /\ prev_state'[i] = PrevAfter(c, state[i], prev_state[i])
      BY <1>8 DEF StateAfter, PrevAfter, ActiveRoles
    <2> QED BY <1>1, <1>8, <1>9, <2>1, SourceKept
  <1>19. CheckpointInv' BY <1>1, <1>9, CheckpointKept
  <1> QED BY <1>10, <1>11, <1>12, <1>13, <1>14, <1>15, <1>16, <1>17, <1>18, <1>19 DEF GInv

\* A server that is told to go on goes back to an active state.
LEMMA StopQuiesceStep ==
  ASSUME GInv, TypeOK', NEW i \in Replica, send_stop_quiesce(i)
  PROVE  GInv'
  <1> DEFINE c == "QUIESCE_STOP"
  <1>1. GTypeOK /\ Command(i, c) /\ Up(i) BY DEF GInv, send_stop_quiesce
  <1>2. /\ inbox[i] \in Seq(Requests) /\ inbox[i] # <<>> /\ Head(inbox[i]) = c
        /\ inbox' \in [Replica -> Seq(Requests)] /\ Has(inbox[i], c)
        /\ \A j \in Replica \ {i} : inbox'[j] = inbox[j]
        /\ \A j \in Replica : \A d : Has(inbox'[j], d) => Has(inbox[j], d)
        /\ UNCHANGED <<vars, detVars, join, stalled, crashes>>
    BY <1>1, CommandEffect
  <1>3. mode = 1
    <2>1. mode # 0
      <3>1. c \in Requests /\ c \notin PassiveCommands BY DEF Requests, PassiveCommands
      <3> QED BY <1>2, <3>1 DEF GInv, ModeInv
    <2> QED BY <2>1 DEF GInv, GTypeOK, TypeOK
  <1>4. state[i] # "UNKNOWN_STATE" /\ prev_state[i] \in ActiveStates
    BY <1>1, <1>2, <1>3 DEF GInv, BracketInv
  <1>5. /\ state' = [state EXCEPT ![i] = prev_state[i]]
        /\ UNCHANGED <<prev_state, seeded, stalled, Sound, aborts, served>>
    BY <1>2, <1>4 DEF send_stop_quiesce, LegalState, Sound
  <1>6. UNCHANGED <<mode, report, node_state, primary, reports, first_time, connection, join,
                    crashes>>
    BY <1>2 DEF vars, detVars
  <1>7. /\ state'[i] = prev_state[i] /\ state'[i] # "UNKNOWN_STATE" /\ state'[i] # "down"
        /\ \A j \in Replica \ {i} : state'[j] = state[j]
    BY <1>4, <1>5 DEF GInv, GTypeOK, ActiveStates
  <1>8. \A j \in Replica : /\ Up(j)' <=> Up(j)
                           /\ Sound[j] => Sound'[j]
                           /\ Joins(j)' <=> Joins(j)
    BY <1>1, <1>5, <1>6, <1>7 DEF Up, Joins
  <1>9. ReportInv' /\ StartupInv' /\ JoinInv' /\ FallenInv' BY <1>1, <1>8, CommandLives
  <1>10. GTypeOK' BY <1>2, <1>4, <1>5, <1>6 DEF GInv, GTypeOK, States
  <1>11. NoAborts' /\ ServedInv' BY <1>5, <1>6 DEF GInv, NoAborts, ServedInv
  <1>12. ModeInv' BY <1>2, <1>3, <1>4, <1>5, <1>6, <1>7 DEF GInv, ModeInv
  <1>13. PassiveInv' BY <1>3, <1>6 DEF PassiveInv
  <1>14. BracketInv'
    <2>1. \A j : j \in Quiesced(report.id)' <=> j \in Quiesced(report.id)
      BY <1>6 DEF Quiesced
    <2> SUFFICES ASSUME NEW j \in Replica, Up(j)
                 PROVE  /\ state'[j] # "UNKNOWN_STATE" \/ Led(inbox'[j])
                        /\ node_state[j] = "RUNNING" \/ Joins(j) =>
                              \/ state'[j] # "UNKNOWN_STATE"
                              \/ \E d \in ActiveRoles : Has(inbox'[j], d)
                        /\ Has(inbox'[j], "QUIESCE_STOP") =>
                              state'[j] # "UNKNOWN_STATE" /\ prev_state[j] \in ActiveStates
                        /\ join = "quiesce" /\ j \in Quiesced(report.id) =>
                              \/ Has(inbox'[j], "QUIESCE_BEGIN")
                              \/ state'[j] # "UNKNOWN_STATE" /\ prev_state[j] \in ActiveStates
      BY <1>5, <1>6, <1>8, <2>1 DEF BracketInv
    <2>2. CASE j # i BY <1>2, <1>3, <1>7, <2>2 DEF GInv, BracketInv
    <2>3. CASE j = i BY <1>4, <1>7, <2>3
    <2> QED BY <2>2, <2>3
  <1>15. SeedInv' BY <1>2, <1>5, <1>6, <1>7, <1>8 DEF GInv, SeedInv
  <1>16. FreshInv' BY <1>2, <1>5, <1>6, <1>8 DEF GInv, FreshInv
  <1>17. SourceInv'
    <2>1. /\ state'[i] = StateAfter(c, state[i], prev_state[i])
          /\ prev_state'[i] = PrevAfter(c, state[i], prev_state[i])
      BY <1>5, <1>7 DEF StateAfter, PrevAfter, ActiveRoles
    <2> QED BY <1>1, <1>5, <1>7, <1>8, <2>1, SourceKept
  <1>18. CheckpointInv' BY <1>1, <1>8, CheckpointKept
  <1> QED BY <1>9, <1>10, <1>11, <1>12, <1>13, <1>14, <1>15, <1>16, <1>17, <1>18 DEF GInv

\* Two commands are gone from a list.
LEMMA TwoTaken ==
  ASSUME NEW S, NEW s \in Seq(S), Len(s) > 1
  PROVE  /\ s # <<>> /\ Head(s) = s[1]
         /\ Tail(s) \in Seq(S) /\ Tail(s) # <<>> /\ Head(Tail(s)) = s[2]
         /\ Len(Tail(s)) = Len(s) - 1 /\ Tail(Tail(s)) \in Seq(S)
         /\ Len(Tail(Tail(s))) = Len(s) - 2
  <1>1. s # <<>> /\ Head(s) = s[1] /\ Tail(s) \in Seq(S) /\ Len(Tail(s)) = Len(s) - 1
    OBVIOUS
  <1>2. Tail(s)[1] = s[2] BY <1>1
  <1> DEFINE t == Tail(s)
  <1>3. t \in Seq(S) /\ Len(t) >= 1 /\ t[1] = s[2] BY <1>1, <1>2
  <1> HIDE DEF t
  <1>4. t # <<>> /\ Head(t) = s[2] /\ Tail(t) \in Seq(S) /\ Len(Tail(t)) = Len(t) - 1
    BY <1>3
  <1> QED BY <1>1, <1>3, <1>4 DEF t

\* RUNNING is carried out before QUIESCE_STOP is.  A primary that was quiesced
\* in ACTIVE_RUNNING is back there all the same; any other is stalled.
LEMMA OvertakenStep ==
  ASSUME GInv, TypeOK', NEW i \in Replica, stop_quiesce_overtaken(i)
  PROVE  GInv'
  <1> DEFINE s == inbox[i]
             t == Tail(inbox[i])
             a == "QUIESCE_STOP"
             b == "ACTIVE_RUNNING"
  <1>1. /\ s \in Seq(Requests) /\ Len(s) > 1 /\ s[1] = a /\ s[2] = b
        /\ inbox' = [inbox EXCEPT ![i] = Tail(t)] /\ Up(i)
    BY DEF stop_quiesce_overtaken, GInv, GTypeOK
  <1>2. /\ s # <<>> /\ Head(s) = a /\ t \in Seq(Requests) /\ t # <<>> /\ Head(t) = b
        /\ Len(t) = Len(s) - 1 /\ Tail(t) \in Seq(Requests) /\ Len(Tail(t)) = Len(s) - 2
    BY <1>1, TwoTaken
  <1>3. /\ inbox'[i] = Tail(t) /\ inbox' \in [Replica -> Seq(Requests)]
        /\ \A j \in Replica \ {i} : inbox'[j] = inbox[j]
    BY <1>1, <1>2 DEF GInv, GTypeOK
  <1>4. \A d : Has(s, d) <=> d = a \/ d = b \/ Has(Tail(t), d)
    <2>1. \A d : Has(s, d) <=> a = d \/ Has(t, d) BY <1>2, HasTail
    <2>2. \A d : Has(t, d) <=> b = d \/ Has(Tail(t), d) BY <1>2, HasTail
    <2> QED BY <2>1, <2>2
  <1>5. UNCHANGED <<vars, detVars, join, crashes>> BY DEF stop_quiesce_overtaken
  <1>6. UNCHANGED <<mode, report, node_state, primary, reports, first_time, connection>>
    BY <1>5 DEF vars, detVars
  <1>7. mode = 1
    <2>1. a \in Requests /\ a \notin PassiveCommands BY DEF Requests, PassiveCommands
    <2>2. mode # 0 BY <1>4, <2>1 DEF GInv, ModeInv
    <2> QED BY <2>2 DEF GInv, GTypeOK, TypeOK
  <1>8. /\ prev_state[i] \in ActiveStates /\ prev_state[i] # "UNKNOWN_STATE"
        /\ prev_state[i] # "down" /\ Sound[i] /\ primary # -1
    <2>1. prev_state[i] \in ActiveStates BY <1>1, <1>4, <1>7 DEF GInv, BracketInv
    <2>2. Sound[i] /\ primary # -1 BY <1>1, <1>4, <1>7 DEF GInv, SeedInv
    <2> QED BY <2>1, <2>2 DEF ActiveStates
  <1>9. /\ \/ state' = [state EXCEPT ![i] = prev_state[i]] /\ prev_state' = prev_state
           \/ /\ state' = [state EXCEPT ![i] = b]
              /\ prev_state' = [prev_state EXCEPT ![i] = b]
        /\ UNCHANGED <<seeded, aborts>> /\ served' = TRUE
    BY <1>8 DEF stop_quiesce_overtaken, LegalState
  <1>10. /\ stalled' \in BOOLEAN /\ (stalled => stalled')
         /\ ~stalled' /\ primary = i => prev_state[i] = b
    BY DEF stop_quiesce_overtaken, GInv, GTypeOK
  <1>11. /\ state'[i] \in {prev_state[i], b} /\ prev_state'[i] \in {prev_state[i], b}
         /\ \A j \in Replica \ {i} : state'[j] = state[j] /\ prev_state'[j] = prev_state[j]
    BY <1>9 DEF GInv, GTypeOK
  <1>12. /\ state'[i] \in ActiveStates /\ prev_state'[i] \in ActiveStates
         /\ state'[i] # "UNKNOWN_STATE" /\ state'[i] # "down"
    BY <1>8, <1>11 DEF ActiveStates
  <1>13. \A j \in Replica : /\ Up(j)' <=> Up(j)
                            /\ Sound[j] => Sound'[j]
                            /\ Joins(j)' <=> Joins(j)
    BY <1>1, <1>5, <1>6, <1>9, <1>10, <1>11, <1>12 DEF Up, Joins, Sound
  <1>14. ReportInv' /\ StartupInv' /\ JoinInv' /\ FallenInv'
    <2>1. \A j \in Replica : Has(inbox'[j], "STARTUP") <=> Has(inbox[j], "STARTUP")
      BY <1>3, <1>4
    <2>2. \A j \in Replica : Behind(inbox[j]) BY DEF GInv, StartupInv
    <2>3. Behind(t) BY <1>2, <2>2, BehindTail
    <2>4. Behind(Tail(t)) BY <1>2, <2>3, BehindTail
    <2>5. \A j \in Replica : Behind(inbox'[j]) BY <1>3, <2>2, <2>4
    <2> QED BY <1>5, <1>13, <2>1, <2>5, SameLives
  <1>15. GTypeOK'
    <2>1. /\ state' \in [Replica -> States \cup {"down"}]
          /\ prev_state' \in [Replica -> States]
      BY <1>8, <1>9 DEF GInv, GTypeOK, States, ActiveStates
    <2> QED BY <1>3, <1>5, <1>6, <1>9, <1>10, <2>1 DEF GInv, GTypeOK
  <1>16. NoAborts' /\ ServedInv' BY <1>6, <1>8, <1>9 DEF GInv, NoAborts, ServedInv
  <1>17. ModeInv'
    <2>1. \A j \in Replica : \A d : Has(inbox'[j], d) => Has(inbox[j], d) BY <1>3, <1>4
    <2>2. \A j \in Replica :
             /\ \A c \in Requests : Has(inbox[j], c) => c \in ActiveCommands
             /\ state[j] \in {"down", "UNKNOWN_STATE"} \cup ActiveStates
             /\ prev_state[j] \in {"UNKNOWN_STATE"} \cup ActiveStates
      BY <1>7 DEF GInv, ModeInv
    <2>3. \A j \in Replica :
             /\ state'[j] \in {"down", "UNKNOWN_STATE"} \cup ActiveStates
             /\ prev_state'[j] \in {"UNKNOWN_STATE"} \cup ActiveStates
      BY <1>11, <1>12, <2>2
    <2> QED BY <1>6, <1>7, <2>1, <2>2, <2>3 DEF ModeInv
  <1>18. PassiveInv' BY <1>6, <1>7 DEF PassiveInv
  <1>19. BracketInv'
    <2>1. \A j : j \in Quiesced(report.id)' <=> j \in Quiesced(report.id)
      BY <1>6 DEF Quiesced
    <2> QED BY <1>3, <1>5, <1>6, <1>7, <1>11, <1>12, <1>13, <2>1 DEF GInv, BracketInv
  <1>20. SeedInv'
    <2>1. \A j \in Replica : \A d : Has(inbox'[j], d) => Has(inbox[j], d) BY <1>3, <1>4
    <2>2. Sound'[i] BY <1>8, <1>13
    <2> QED BY <1>6, <1>7, <1>8, <1>11, <1>13, <2>1, <2>2 DEF GInv, SeedInv
  <1>21. FreshInv'
    <2>1. ~(node_state[i] = "FAULTED" /\ ~Joins(i)) BY <1>1, <1>7, <1>8 DEF GInv, FreshInv
    <2> QED BY <1>3, <1>6, <1>7, <1>11, <1>13, <2>1 DEF GInv, FreshInv
  <1>22. SourceInv'
    <2> SUFFICES ASSUME ~stalled, ~stalled', NEW j \in Replica, primary = j, Up(j), ~Joins(j)
                 PROVE  IF join = "quiesce" /\ j \in Quiesced(report.id)
                          THEN Halts(inbox'[j], state'[j], prev_state'[j])
                          ELSE Runs(inbox'[j], state'[j], prev_state'[j], Len(inbox'[j]))
      BY <1>5, <1>6, <1>10, <1>13 DEF SourceInv, Quiesced
    <2>1. IF join = "quiesce" /\ j \in Quiesced(report.id)
            THEN Halts(inbox[j], state[j], prev_state[j])
            ELSE Runs(inbox[j], state[j], prev_state[j], Len(inbox[j]))
      BY <1>7 DEF GInv, SourceInv
    <2>2. CASE j # i BY <1>3, <1>11, <2>1, <2>2
    <2>3. CASE j = i
      <3>1. prev_state[i] = b /\ state'[i] = b /\ prev_state'[i] = b
        BY <1>10, <1>11, <2>3
      <3>2. /\ StateAfter(a, state[i], b) = b /\ PrevAfter(a, state[i], b) = b
            /\ StateAfter(b, b, b) = b /\ PrevAfter(b, b, b) = b
        BY DEF StateAfter, PrevAfter, ActiveRoles
      <3>3. Halts(s, state[i], b) => Halts(Tail(t), b, b)
        <4>1. Halts(s, state[i], b) => Halts(t, b, b) BY <1>2, <3>2, HaltsTail
        <4>2. Halts(t, b, b) => Halts(Tail(t), b, b) BY <1>2, <3>2, HaltsTail
        <4> QED BY <4>1, <4>2
      <3>4. Runs(s, state[i], b, Len(s)) => Runs(Tail(t), b, b, Len(Tail(t)))
        <4>1. /\ Len(s) \in 1 .. Len(s) /\ Len(t) \in 1 .. Len(t)
              /\ Len(s) - 1 = Len(t) /\ Len(t) - 1 = Len(Tail(t))
          <5>1. Len(s) \in Nat BY <1>1
          <5>2. \A n \in Nat : n > 1 => n \in 1 .. n /\ n - 1 \in 1 .. n - 1
                                         /\ (n - 1) - 1 = n - 2
            OBVIOUS
          <5> QED BY ONLY <1>1, <1>2, <5>1, <5>2
        <4>2. ASSUME Runs(s, state[i], b, Len(s)) PROVE Runs(t, b, b, Len(s) - 1)
          <5>1. Runs(t, StateAfter(Head(s), state[i], b), PrevAfter(Head(s), state[i], b),
                     Len(s) - 1)
            BY <1>1, <4>1, <4>2, RunsTail
          <5> QED BY <1>2, <3>2, <5>1
        <4>3. ASSUME Runs(t, b, b, Len(t)) PROVE Runs(Tail(t), b, b, Len(t) - 1)
          <5>1. Runs(Tail(t), StateAfter(Head(t), b, b), PrevAfter(Head(t), b, b),
                     Len(t) - 1)
            BY <1>2, <4>1, <4>3, RunsTail
          <5> QED BY <1>2, <3>2, <5>1
        <4> QED BY <4>1, <4>2, <4>3
      <3> QED BY <1>3, <2>1, <2>3, <3>1, <3>3, <3>4
    <2> QED BY <2>2, <2>3
  <1>23. CheckpointInv'
    <2> SUFFICES ASSUME join = "quiesce", Up(report.id)'
                 PROVE  \/ Sound'[report.id]
                        \/ primary # report.id /\ Up(primary)' /\ Asked(inbox'[primary])
      BY <1>5, <1>6 DEF CheckpointInv, Up
    <2>1. report.id \in Replica /\ primary \in Replica BY JoinTyped
    <2>2. \/ Sound[report.id]
          \/ primary # report.id /\ Up(primary) /\ Asked(inbox[primary])
      BY <1>6, <1>13, <2>1 DEF GInv, CheckpointInv, Up
    <2>3. Asked(s) => Asked(Tail(t))
      <3>1. <<"SEND_CHKPT">>[1] = "SEND_CHKPT" /\ Head(<<"SEND_CHKPT">>) = "SEND_CHKPT"
        OBVIOUS
      <3>2. s # <<"SEND_CHKPT">> /\ t # <<"SEND_CHKPT">> BY <1>2, <3>1
      <3>3. Asked(s) => Asked(t) BY <1>2, <3>2, AskedTail
      <3>4. Asked(t) => Asked(Tail(t)) BY <1>2, <3>2, AskedTail
      <3> QED BY <3>3, <3>4
    <2>4. Asked(inbox[primary]) => Asked(inbox'[primary]) BY <1>3, <2>1, <2>3
    <2>5. /\ Sound[report.id] => Sound'[report.id]
          /\ Up(primary) => Up(primary)'
      BY <1>6, <1>13, <2>1 DEF Up
    <2> QED BY <2>2, <2>4, <2>5
  <1> QED BY <1>14, <1>15, <1>16, <1>17, <1>18, <1>19, <1>20, <1>21, <1>22, <1>23 DEF GInv

\* The primary has emptied its log: it stays the primary.
LEMMA PromoteStep ==
  ASSUME GInv, TypeOK', NEW i \in Replica, promote(i)
  PROVE  GInv'
  <1>1. /\ state[i] = "PASSIVE_PREPRIMARY"
        /\ state' = [state EXCEPT ![i] = "PASSIVE_PRIMARY"]
        /\ UNCHANGED <<vars, detVars, inbox, join, prev_state, seeded, stalled, Sound,
                       served, crashes, aborts>>
    BY DEF promote, Sound
  <1>2. UNCHANGED <<mode, report, node_state, primary, reports, first_time, connection>>
    BY <1>1 DEF vars, detVars
  <1>3. /\ state'[i] = "PASSIVE_PRIMARY"
        /\ \A j \in Replica \ {i} : state'[j] = state[j]
    BY <1>1 DEF GInv, GTypeOK
  <1>4. mode = 0
    <2>1. mode # 1 BY <1>1 DEF GInv, ModeInv, ActiveStates
    <2> QED BY <2>1 DEF GInv, GTypeOK, TypeOK
  <1>5. \A j \in Replica : /\ Up(j)' <=> Up(j)
                           /\ IsPrimary(j)' <=> IsPrimary(j)
    BY <1>1, <1>3 DEF Up, IsPrimary
  <1>6. ReportInv' /\ StartupInv' /\ JoinInv' /\ FallenInv'
    <2>1. \A j \in Replica : Behind(inbox[j]) BY DEF GInv, StartupInv
    <2> QED BY <1>1, <1>5, <2>1, SameLives
  <1>7. GTypeOK' BY <1>1, <1>2 DEF GInv, GTypeOK, States, PassiveStates
  <1>8. NoAborts' /\ ServedInv' BY <1>1, <1>2 DEF GInv, NoAborts, ServedInv
  <1>9. ModeInv' BY <1>1, <1>2, <1>3, <1>4 DEF GInv, ModeInv, PassiveStates
  <1>10. PassiveInv' BY <1>1, <1>2, <1>5 DEF GInv, PassiveInv
  <1>11. BracketInv' /\ SeedInv' /\ FreshInv' /\ SourceInv'
    BY <1>2, <1>4 DEF BracketInv, SeedInv, FreshInv, SourceInv
  <1>12. CheckpointInv'
    <2>1. join # "quiesce" BY <1>4 DEF GInv, JoinInv
    <2> QED BY <1>1, <2>1 DEF CheckpointInv
  <1> QED BY <1>6, <1>7, <1>8, <1>9, <1>10, <1>11, <1>12 DEF GInv

\* The periodic checkpoint overwrites nothing that the primary lacks.
LEMMA PeriodicStep ==
  ASSUME GInv, TypeOK', NEW i \in Replica, send_checkpoint(i)
  PROVE  GInv'
  <1>1. /\ state[i] = "PASSIVE_PRIMARY" /\ Checkpoint(i)
        /\ UNCHANGED <<vars, detVars, inbox, join, state, prev_state, served, stalled, crashes,
                       aborts>>
    BY DEF send_checkpoint
  <1>2. UNCHANGED <<mode, report, node_state, primary>> BY <1>1 DEF vars
  <1>3. seeded' \in [Replica -> BOOLEAN] /\ \A j \in Replica : Sound[j] => Sound'[j]
    <2>1. Sound[i] BY <1>1, DonorSound DEF Up, KnowsBackups
    <2> QED BY <1>1, <2>1, CheckpointEffect DEF GInv
  <1>4. \A j \in Replica : (Up(j)' <=> Up(j)) /\ (Joins(j)' <=> Joins(j))
    BY <1>1, <1>2 DEF Up, Joins
  <1>5. ReportInv' /\ StartupInv' /\ JoinInv' /\ FallenInv'
    <2>1. \A j \in Replica : Behind(inbox[j]) BY DEF GInv, StartupInv
    <2> QED BY <1>1, <1>3, <1>4, <2>1, SameLives
  <1>6. GTypeOK' /\ NoAborts' /\ ServedInv' /\ ModeInv' /\ PassiveInv' /\ SeedInv' /\ FreshInv'
    <2>1. inbox' \in [Replica -> Seq(Requests)] BY <1>1 DEF GInv, GTypeOK
    <2> QED BY <1>1, <1>3, <2>1, DataSpreads
  <1>7. BracketInv' BY <1>1, <1>2, <1>4 DEF GInv, BracketInv, Quiesced
  <1>8. SourceInv' BY <1>1, <1>2, <1>4 DEF GInv, SourceInv, Quiesced
  <1>9. CheckpointInv'
    <2> SUFFICES ASSUME join = "quiesce", Up(report.id)
                 PROVE  \/ Sound'[report.id]
                        \/ primary # report.id /\ Up(primary) /\ Asked(inbox[primary])
      BY <1>1, <1>2 DEF CheckpointInv, Up
    <2>1. report.id \in Replica BY JoinTyped
    <2> QED BY <1>3, <2>1 DEF GInv, CheckpointInv
  <1> QED BY <1>5, <1>6, <1>7, <1>8, <1>9 DEF GInv

\* A server falls alone.
LEMMA CrashStep ==
  ASSUME GInv, TypeOK', NEW i \in Replica, crash(i)
  PROVE  GInv'
  <1>1. /\ Up(i) /\ crashes > 0
        /\ \A j \in Replica \ {i} : Up(j) /\ Sound[j]
        /\ state' = [state EXCEPT ![i] = "down"]
        /\ seeded' = [seeded EXCEPT ![i] = ~served]
        /\ crashes' = crashes - 1
        /\ UNCHANGED <<vars, detVars, inbox, join, prev_state, served, stalled, aborts>>
    BY DEF crash, Sound
  <1>2. UNCHANGED <<mode, report, node_state, primary, reports, first_time, connection>>
    BY <1>1 DEF vars, detVars
  <1>3. /\ state'[i] = "down" /\ (~served => Sound'[i])
        /\ \A j \in Replica \ {i} : state'[j] = state[j] /\ Sound'[j] = Sound[j]
    BY <1>1 DEF GInv, GTypeOK, Sound
  <1>4. /\ ~Up(i)'
        /\ \A j \in Replica \ {i} : Up(j)' /\ Sound'[j]
        /\ \A j \in Replica : Joins(j)' <=> Joins(j)
    BY <1>1, <1>2, <1>3 DEF Up, Joins
  <1>5. \A j \in Replica : Up(j)' => /\ j # i /\ Up(j) /\ state'[j] = state[j]
                                     /\ Sound[j] /\ Sound'[j]
    BY <1>1, <1>3, <1>4
  <1>6. GTypeOK'
    <2>1. crashes' \in Nat BY <1>1 DEF GInv, GTypeOK
    <2> QED BY <1>1, <1>2, <2>1 DEF GInv, GTypeOK
  <1>7. ReportInv'
    <2>1. \A j \in Replica : Fallen(j) => Fallen(j)' BY <1>1, <1>4 DEF Fallen
    <2> QED BY <1>2, <2>1 DEF GInv, ReportInv
  <1>8. StartupInv'
    <2>1. \A j \in Replica : ~Up(j) => ~Up(j)' BY <1>1, <1>4
    <2> QED BY <1>1, <1>2, <2>1 DEF GInv, StartupInv, Idle
  <1>9. JoinInv' BY <1>1, <1>2 DEF GInv, JoinInv
  <1>10. FallenInv'
    <2>1. OthersSound(i)' BY <1>4 DEF OthersSound
    <2>2. \A j \in Replica : Fallen(j)' => j = i BY <1>4 DEF Fallen
    <2> QED BY <2>1, <2>2 DEF FallenInv
  <1>11. NoAborts' BY <1>1 DEF GInv, NoAborts
  <1>12. ServedInv' BY <1>1, <1>2, <1>3 DEF GInv, ServedInv
  <1>13. ModeInv' BY <1>1, <1>2, <1>3 DEF GInv, ModeInv
  <1>14. PassiveInv'
    <2>1. \A j \in Replica : IsPrimary(j)' => IsPrimary(j) BY <1>3 DEF IsPrimary
    <2> QED BY <1>1, <1>2, <1>5, <2>1 DEF GInv, PassiveInv
  <1>15. BracketInv' BY <1>1, <1>2, <1>4, <1>5 DEF GInv, BracketInv, Quiesced
  <1>16. SeedInv' BY <1>1, <1>2, <1>5 DEF GInv, SeedInv
  <1>17. FreshInv' BY <1>1, <1>2, <1>4, <1>5 DEF GInv, FreshInv
  <1>18. SourceInv' BY <1>1, <1>2, <1>4, <1>5 DEF GInv, SourceInv, Quiesced
  <1>19. CheckpointInv'
    <2>1. join = "quiesce" => report.id \in Replica BY JoinTyped
    <2>2. join = "quiesce" /\ Up(report.id)' => Sound'[report.id]
      BY <1>2, <1>5, <2>1 DEF Up
    <2> QED BY <1>1, <1>2, <2>2 DEF CheckpointInv
  <1> QED BY <1>6, <1>7, <1>8, <1>9, <1>10, <1>11, <1>12, <1>13, <1>14, <1>15, <1>16, <1>17,
             <1>18, <1>19 DEF GInv

----------------------------------------------------------------------------
(* The theorems *)

\* Before the cold start nothing runs and nothing waits.
LEMMA GroupStarts == GInit => GInv
  <1> SUFFICES ASSUME GInit PROVE GInv OBVIOUS
  <1> USE DEF GInit
  <1>1. TypeOK /\ primary = -1 /\ report = NoReport /\ mode \in {0, 1}
        /\ \A i \in Replica : node_state[i] = "FAULTED"
    BY InitInv DEF RMInv, Init
  <1>2. \A i \in Replica : /\ ~Up(i) /\ inbox[i] = <<>> /\ reports[i] = <<>> /\ Sound[i]
                           /\ prev_state[i] = "UNKNOWN_STATE" /\ primary # i
    BY <1>1, NoReportFacts DEF Up, Sound
  <1>3. \A c : ~Has(<<>>, c) BY HasShort
  <1>4. Behind(<<>>) BY BehindShort
  <1>5. GTypeOK
    <2>1. reports \in [Replica -> Seq({"RUNNING", "FAULTED"})] OBVIOUS
    <2>2. inbox \in [Replica -> Seq(Requests)] OBVIOUS
    <2>3. /\ first_time \in [Replica -> BOOLEAN] /\ connection \in [Replica -> BOOLEAN]
          /\ seeded \in [Replica -> BOOLEAN] /\ served \in BOOLEAN /\ stalled \in BOOLEAN
      OBVIOUS
    <2>4. /\ state \in [Replica -> States \cup {"down"}] /\ prev_state \in [Replica -> States]
          /\ join \in {"no", "recover", "quiesce"} /\ crashes \in Nat
      BY GroupAssumption DEF States
    <2> QED BY <1>1, <2>1, <2>2, <2>3, <2>4 DEF GTypeOK
  <1>6. NoAborts /\ JoinInv /\ CheckpointInv BY DEF NoAborts, JoinInv, CheckpointInv
  <1>7. ReportInv BY <1>1, <1>2, <1>3, NoReportFacts DEF ReportInv
  <1>8. StartupInv BY <1>2, <1>3, <1>4 DEF StartupInv
  <1>9. FallenInv BY <1>1, <1>2, <1>3, NoReportFacts DEF FallenInv, Seen
  <1>10. ModeInv BY <1>2, <1>3 DEF ModeInv, Up
  <1>11. ServedInv BY <1>2 DEF ServedInv
  <1>12. PassiveInv BY <1>2, <1>3 DEF PassiveInv, IsPrimary, Up
  <1>13. BracketInv /\ FreshInv /\ SourceInv BY <1>2 DEF BracketInv, FreshInv, SourceInv
  <1>14. SeedInv BY <1>2, <1>3 DEF SeedInv
  <1> QED BY <1>5, <1>6, <1>7, <1>8, <1>9, <1>10, <1>11, <1>12, <1>13, <1>14 DEF GInv

\* Every step of the group keeps the invariant, given the type of the
\* manager's variables, which the manager's own proofs provide.
LEMMA GroupStep ==
  ASSUME QuickStarts, GInv, TypeOK', [GNext]_gvars
  PROVE  GInv'
  <1>1. CASE RM
    <2>1. PICK i \in Replica :
             \/ rm_accept(i) \/ rm_running_again(i) \/ rm_running_passive(i)
             \/ rm_running_active_first(i)
             \/ rm_join_recover(i) \/ rm_join_quiesce(i) \/ rm_join_stop(i)
             \/ rm_faulted(i)
      BY <1>1 DEF RM
    <2>2. CASE rm_accept(i) BY <2>2, AcceptStep
    <2>3. CASE rm_running_again(i) BY <2>3, AgainStep
    <2>4. CASE rm_running_passive(i) BY <2>4, PassiveStep
    <2>5. CASE rm_running_active_first(i) BY <2>5, FirstStep
    <2>6. CASE rm_join_recover(i) BY <2>6, RecoverStep
    <2>7. CASE rm_join_quiesce(i) BY <2>7, QuiesceStep
    <2>8. CASE rm_join_stop(i) BY <2>8, StopStep
    <2>9. CASE rm_faulted(i) BY <2>9, RestartStep
    <2> QED BY <2>1, <2>2, <2>3, <2>4, <2>5, <2>6, <2>7, <2>8, <2>9
  <1>2. ASSUME NEW i \in Replica, heartbeat_failed(i) \/ heartbeat_signal(i) PROVE GInv'
    BY <1>2, FailedStep, SignalStep
  <1>3. ASSUME NEW i \in Replica, handle_rep_man_command(i) PROVE GInv'
    <2>1. CASE spawn_server(i) BY <2>1, SpawnStep
    <2>2. CASE \E c \in Requests : relay_failed(i, c)
      <3>1. PICK c \in Requests : relay_failed(i, c) BY <2>2
      <3> QED BY <3>1, RelayFailedStep
    <2>3. CASE \E s \in Roles : send_change_state_message(i, s)
      <3>1. PICK s \in Roles : send_change_state_message(i, s) BY <2>3
      <3> QED BY <3>1, ChangeStateStep
    <2>4. CASE send_checkpoint_to_bkps(i) BY <2>4, OnDemandStep
    <2>5. CASE send_start_quiesce(i) BY <2>5, BeginStep
    <2>6. CASE send_stop_quiesce(i) BY <2>6, StopQuiesceStep
    <2>7. CASE stop_quiesce_overtaken(i) BY <2>7, OvertakenStep
    <2> QED BY <1>3, <2>1, <2>2, <2>3, <2>4, <2>5, <2>6, <2>7 DEF handle_rep_man_command
  <1>4. ASSUME NEW i \in Replica, promote(i) \/ send_checkpoint(i) \/ crash(i) PROVE GInv'
    <2>1. CASE promote(i) BY <2>1, PromoteStep
    <2>2. CASE send_checkpoint(i) BY <2>2, PeriodicStep
    <2>3. CASE crash(i) BY <2>3, CrashStep
    <2> QED BY <1>4, <2>1, <2>2, <2>3
  <1>5. CASE UNCHANGED gvars
    <2>1. UNCHANGED <<vars, inbox, join, srvVars, reports, first_time, connection>>
      BY <1>5 DEF gvars, detVars
    <2>2. UNCHANGED <<report, node_state, primary, state, prev_state, seeded, stalled,
                      Sound, served, crashes>>
      BY <2>1 DEF vars, srvVars, Sound
    <2>3. GTypeOK' BY <2>1, <2>2 DEF GInv, GTypeOK
    <2>4. ReportInv' BY <2>1, <2>2 DEF GInv, ReportInv, Fallen, Up
    <2>5. StartupInv' BY <2>1, <2>2 DEF GInv, StartupInv, Idle, Up
    <2>6. FallenInv' BY <2>1, <2>2 DEF GInv, FallenInv, Fallen, Seen, OthersSound, Up
    <2> QED BY <2>1, <2>3, <2>4, <2>5, <2>6, ServersUntouched DEF GInv
  <1> QED BY <1>1, <1>2, <1>3, <1>4, <1>5 DEF GNext

\* The invariant above holds throughout: whatever handle_state, the factories,
\* the detectors and crashing servers do in whatever order.
THEOREM GroupInvariant == QuickStarts => (GSpec => []GInv)
  <1> SUFFICES ASSUME QuickStarts PROVE GSpec => []GInv OBVIOUS
  <1>1. RMInv => TypeOK BY DEF RMInv
  <1>2. ASSUME GInv, TypeOK', [GNext]_gvars PROVE GInv' BY <1>2, GroupStep
  <1> QED BY <1>1, <1>2, GroupStarts, GroupRefinesManager, ManagerInvariant, PTL DEF GSpec

\* No command of the manager makes a server abort in set_state, whatever the
\* order of crashes, restarts and joins: QUIESCE reaches no server that has not
\* been given a role in its present life.  And every variable keeps its type.
THEOREM GroupSafe == QuickStarts => (GSpec => []GroupInv)
  <1> SUFFICES ASSUME QuickStarts PROVE GSpec => []GroupInv OBVIOUS
  <1>1. GInv => GroupInv BY DEF GInv, GroupInv
  <1> QED BY <1>1, GroupInvariant, PTL

\* Never two primaries, from a crash over elect_new_primary to the return of
\* the old primary, which is told PASSIVE_BACKUP before it was anything else.
THEOREM OnePrimary == QuickStarts => (GSpec => []AtMostOnePrimary)
  <1> SUFFICES ASSUME QuickStarts PROVE GSpec => []AtMostOnePrimary OBVIOUS
  <1>1. ASSUME GInv PROVE AtMostOnePrimary
    <2> SUFFICES ASSUME NEW i \in Replica, NEW j \in Replica, IsPrimary(i), IsPrimary(j)
                 PROVE  i = j
      BY DEF AtMostOnePrimary
    <2>1. mode = 0
      <3>1. mode # 1 BY <1>1 DEF GInv, ModeInv, IsPrimary, ActiveStates
      <3> QED BY <1>1, <3>1 DEF GInv, GTypeOK, TypeOK
    <2> QED BY <1>1, <2>1 DEF GInv, PassiveInv
  <1> QED BY <1>1, GroupInvariant, PTL

\* A server that was restarted with an empty table is never primary, nor runs
\* as an active replica, before a checkpoint that descends from the servers
\* that have served has come to its log (handle_state, elect_new_primary,
\* send_checkpoint_ondemand), unless the primary has lost a RUNNING to the
\* RECOVER it was quiesced in (remove_from_quiesence).
THEOREM NeverEmpty == QuickStarts => (GSpec => []NeverServesEmpty)
  <1> SUFFICES ASSUME QuickStarts PROVE GSpec => []NeverServesEmpty OBVIOUS
  <1>1. ASSUME GInv PROVE NeverServesEmpty
    <2> SUFFICES ASSUME NEW i \in Replica, IsPrimary(i) \/ state[i] = "ACTIVE_RUNNING"
                 PROVE  Sound[i]
      BY DEF NeverServesEmpty, Sound
    <2>1. Up(i) /\ KnowsBackups(i) BY DEF IsPrimary, Up, KnowsBackups
    <2> QED BY <1>1, <2>1, DonorSound
  <1> QED BY <1>1, GroupInvariant, PTL

====
