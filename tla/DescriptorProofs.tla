--------------------------- MODULE DescriptorProofs ---------------------------
(***************************************************************************)
(* Descriptors that change hands: those a listening stream or a pipe gets  *)
(* and hands on by uv_accept, and those uv_spawn gives to a child, for any *)
(* numbers and any limits of the system.  Then the messages a signal       *)
(* handler hands to the loops, and the queues of uv__wait_children.        *)
(***************************************************************************)
EXTENDS Listener, Spawn, Process, Signal, Lemmas

-----------------------------------------------------------------------------
(* Increasing sequences.                                                    *)

Pos == Nat \ {0}

\* What a concatenation links, and when it increases.
LEMMA IncreasingConcat ==
  ASSUME NEW s \in Seq(Pos), NEW t \in Seq(Pos)
  PROVE  /\ s \o t \in Seq(Pos) /\ Len(s \o t) = Len(s) + Len(t)
         /\ \A n : Linked(s \o t, n) <=> Linked(s, n) \/ Linked(t, n)
         /\ Increasing(s \o t) <=>
              /\ Increasing(s) /\ Increasing(t)
              /\ \A m, n : Linked(s, m) /\ Linked(t, n) => m < n
<1> DEFINE c == s \o t
<1>1. /\ c \in Seq(Pos) /\ Len(c) = Len(s) + Len(t) /\ Len(s) \in Nat /\ Len(t) \in Nat
      /\ \A i \in 1..Len(s) : c[i] = s[i] /\ s[i] \in Pos
      /\ \A i \in 1..Len(t) : c[Len(s) + i] = t[i] /\ t[i] \in Pos
  BY ConcatProperties, LenProperties, ElementOfSeq
<1>2. \A i \in 1..Len(c) : i \in 1..Len(s) \/ (i - Len(s) \in 1..Len(t) /\ i = Len(s) + (i - Len(s)))
  BY <1>1
<1> HIDE DEF c
<1>3. \A i \in 1..Len(s) : i \in 1..Len(c)
  BY <1>1
<1>4. \A i \in 1..Len(t) : Len(s) + i \in 1..Len(c)
  BY <1>1
<1>5. ASSUME NEW n PROVE Linked(c, n) <=> Linked(s, n) \/ Linked(t, n)
  <2>1. ASSUME Linked(c, n) PROVE Linked(s, n) \/ Linked(t, n)
    BY <2>1, <1>1, <1>2 DEF Linked
  <2>2. ASSUME Linked(s, n) PROVE Linked(c, n)
    BY <2>2, <1>1, <1>3 DEF Linked
  <2>3. ASSUME Linked(t, n) PROVE Linked(c, n)
    BY <2>3, <1>1, <1>4 DEF Linked
  <2> QED BY <2>1, <2>2, <2>3
<1>6. ASSUME Increasing(c)
      PROVE  /\ Increasing(s) /\ Increasing(t)
             /\ \A m, n : Linked(s, m) /\ Linked(t, n) => m < n
  <2>1. Increasing(s)
    BY <1>6, <1>1, <1>3 DEF Increasing
  <2>2. ASSUME NEW i \in 1..Len(t), NEW j \in 1..Len(t), i < j PROVE t[i] < t[j]
    <3>1. Len(s) + i < Len(s) + j
      BY <2>2, <1>1
    <3> QED BY <3>1, <1>6, <1>1, <1>4 DEF Increasing
  <2>3. ASSUME NEW i \in 1..Len(s), NEW j \in 1..Len(t) PROVE s[i] < t[j]
    <3>1. i < Len(s) + j
      BY <1>1
    <3> QED BY <3>1, <1>6, <1>1, <1>3, <1>4 DEF Increasing
  <2> QED BY <2>1, <2>2, <2>3 DEF Increasing, Linked
<1>7. ASSUME Increasing(s), Increasing(t), \A m, n : Linked(s, m) /\ Linked(t, n) => m < n
      PROVE  Increasing(c)
  <2> SUFFICES ASSUME NEW i \in 1..Len(c), NEW j \in 1..Len(c), i < j PROVE c[i] < c[j]
    BY DEF Increasing
  <2>1. CASE j \in 1..Len(s)
    <3>1. i \in 1..Len(s)
      BY <2>1, <1>1
    <3> QED BY <2>1, <3>1, <1>1, <1>7 DEF Increasing
  <2>2. CASE i \in 1..Len(s) /\ j \notin 1..Len(s)
    <3>1. c[i] = s[i] /\ c[j] = t[j - Len(s)] /\ j - Len(s) \in 1..Len(t)
      BY <2>2, <1>1, <1>2
    <3> QED BY <2>2, <3>1, <1>7 DEF Linked
  <2>3. CASE i \notin 1..Len(s) /\ j \notin 1..Len(s)
    <3>1. /\ c[i] = t[i - Len(s)] /\ i - Len(s) \in 1..Len(t)
          /\ c[j] = t[j - Len(s)] /\ j - Len(s) \in 1..Len(t)
      BY <2>3, <1>1, <1>2
    <3>2. i - Len(s) < j - Len(s)
      BY <1>1
    <3> QED BY <3>1, <3>2, <1>7 DEF Increasing
  <2> QED BY <2>1, <2>2, <2>3
<1> QED BY <1>1, <1>5, <1>6, <1>7 DEF c

\* One descriptor as a sequence.
LEMMA OneDescriptor ==
  ASSUME NEW a \in Pos
  PROVE  /\ <<a>> \in Seq(Pos) /\ Len(<<a>>) = 1 /\ Increasing(<<a>>)
         /\ \A n : Linked(<<a>>, n) <=> n = a
BY DEF Increasing, Linked

\* The head of an increasing sequence is the least.
LEMMA HeadIsLeast ==
  ASSUME NEW s \in Seq(Pos), Increasing(s), s # <<>>
  PROVE  /\ Head(s) \in Pos /\ Tail(s) \in Seq(Pos) /\ Len(Tail(s)) = Len(s) - 1
         /\ Increasing(Tail(s))
         /\ \A n : Linked(Tail(s), n) => Head(s) < n
         /\ \A n : Linked(s, n) <=> n = Head(s) \/ Linked(Tail(s), n)
<1> DEFINE t == Tail(s)
<1>1. /\ Len(s) \in Nat /\ Len(s) > 0 /\ Head(s) = s[1] /\ Head(s) \in Pos
      /\ t \in Seq(Pos) /\ Len(t) = Len(s) - 1
      /\ \A k \in 1..(Len(s) - 1) : t[k] = s[k + 1]
  BY HeadTailProperties, LenProperties, EmptySeq
<1> HIDE DEF t
<1>2. \A k \in 1..Len(t) : k + 1 \in 1..Len(s) /\ 1 < k + 1 /\ t[k] = s[k + 1]
  BY <1>1
<1>3. Increasing(t)
  <2> SUFFICES ASSUME NEW i \in 1..Len(t), NEW j \in 1..Len(t), i < j PROVE t[i] < t[j]
    BY DEF Increasing
  <2>1. i + 1 < j + 1
    OBVIOUS
  <2> QED BY <2>1, <1>2 DEF Increasing
<1>4. \A n : Linked(t, n) => Head(s) < n
  <2>1. 1 \in 1..Len(s)
    BY <1>1
  <2> QED BY <2>1, <1>1, <1>2 DEF Increasing, Linked
<1>5. ASSUME NEW n PROVE Linked(s, n) <=> n = Head(s) \/ Linked(t, n)
  <2>1. 1 \in 1..Len(s)
    BY <1>1
  <2>2. ASSUME NEW i \in 1..Len(s), s[i] = n PROVE n = Head(s) \/ Linked(t, n)
    <3>1. CASE i = 1
      BY <3>1, <2>2, <1>1
    <3>2. CASE i # 1
      <4>1. i - 1 \in 1..Len(t) /\ t[i - 1] = s[i]
        BY <3>2, <1>1
      <4> QED BY <4>1, <2>2 DEF Linked
    <3> QED BY <3>1, <3>2
  <2>3. ASSUME Linked(t, n) PROVE Linked(s, n)
    BY <2>3, <1>2 DEF Linked
  <2> QED BY <2>1, <2>2, <2>3, <1>1 DEF Linked
<1> QED BY <1>1, <1>3, <1>4, <1>5 DEF t

\* The first k of an increasing sequence, and the others.
LEMMA FirstOnes ==
  ASSUME NEW s \in Seq(Pos), Increasing(s), NEW k \in 0..Len(s)
  PROVE  /\ SubSeq(s, 1, k) \in Seq(Pos) /\ Len(SubSeq(s, 1, k)) = k
         /\ Increasing(SubSeq(s, 1, k))
         /\ \A n : Linked(s, n) <=> Linked(SubSeq(s, 1, k), n) \/ n \in {s[i] : i \in (k + 1)..Len(s)}
         /\ \A n : Linked(SubSeq(s, 1, k), n) => n \notin {s[i] : i \in (k + 1)..Len(s)}
<1> DEFINE a == SubSeq(s, 1, k)
<1>1. Len(s) \in Nat /\ k \in Nat /\ k <= Len(s) /\ \A i \in 1..Len(s) : s[i] \in Pos
  BY LenProperties, ElementOfSeq
<1>2. a \in Seq(Pos) /\ Len(a) = k /\ \A i \in 1..k : a[i] = s[i]
  BY <1>1, SubSeqProperties
<1> HIDE DEF a
<1>3. Increasing(a)
  BY <1>1, <1>2 DEF Increasing
<1>4. ASSUME NEW n PROVE Linked(s, n) <=> Linked(a, n) \/ n \in {s[i] : i \in (k + 1)..Len(s)}
  <2>1. \A i \in 1..Len(s) : i \in 1..k \/ i \in (k + 1)..Len(s)
    BY <1>1
  <2>2. \A i \in 1..k : i \in 1..Len(s)
    BY <1>1
  <2>3. \A i \in (k + 1)..Len(s) : i \in 1..Len(s)
    BY <1>1
  <2> QED BY <2>1, <2>2, <2>3, <1>2 DEF Linked
<1>5. ASSUME NEW i \in 1..k, NEW j \in (k + 1)..Len(s) PROVE a[i] # s[j]
  <2>1. i \in 1..Len(s) /\ j \in 1..Len(s) /\ i < j /\ s[i] \in Pos /\ s[j] \in Pos
    BY <1>1
  <2>2. s[i] < s[j]
    BY <2>1 DEF Increasing
  <2>3. a[i] = s[i]
    BY <1>2
  <2> QED BY <2>1, <2>2, <2>3 DEF Pos
<1> QED BY SMTT(30), <1>2, <1>3, <1>4, <1>5 DEF Linked, a

-----------------------------------------------------------------------------
(* The invariant of the listener.                                           *)

ListenTypes ==
  /\ server_kind \in {"listen", "ipc"}
  /\ server_at \in {"new", "idle", "callback", "shedding", "aborted", "closed"}
  /\ backlog \in Seq(Seq(Pos)) /\ sent_fds \in Nat
  /\ accepted_fd \in Nat /\ queued_fds \in Seq(Pos) /\ taken_fds \in Seq(Pos)
  /\ pollin \in BOOLEAN /\ emfile_fd \in BOOLEAN /\ other_fds \in Nat
  /\ IsFiniteSet(user_fds)

\* Nothing is queued behind nothing, and nothing at all behind a connection.
QueueBehindAccepted ==
  /\ accepted_fd = 0 => queued_fds = <<>>
  /\ server_kind = "listen" => queued_fds = <<>>
  /\ server_at = "closed" => accepted_fd = 0
  /\ server_at = "shedding" => server_kind = "listen"

Holds(n) == (n # 0 /\ n = accepted_fd) \/ Linked(queued_fds, n)
Waits(n) == \E j \in 1..Len(backlog) : Linked(backlog[j], n)
Left(n) == Linked(taken_fds, n) \/ Holds(n) \/ n \in dropped_fds

\* What is in the kernel, is held, or was taken, each in the order it came ...
InOrderEach ==
  /\ \A j \in 1..Len(backlog) :
       /\ Len(backlog[j]) > 0 /\ Increasing(backlog[j])
       /\ server_kind = "listen" => Len(backlog[j]) = 1
  /\ Increasing(queued_fds) /\ Increasing(taken_fds)

\* ... and one after the other.
InOrderAll ==
  /\ \A i, j \in 1..Len(backlog) : i < j =>
       \A m, n : Linked(backlog[i], m) /\ Linked(backlog[j], n) => m < n
  /\ \A n : Linked(queued_fds, n) => accepted_fd < n
  /\ \A m, n : Linked(taken_fds, m) /\ Holds(n) => m < n
  /\ \A m, n : Left(m) /\ Waits(n) => m < n

\* Each is somewhere, and what is closed is not held or taken.
NoneLost ==
  /\ \A n : Left(n) \/ Waits(n) <=> n \in 1..sent_fds
  /\ \A n \in dropped_fds : ~Linked(taken_fds, n) /\ ~Holds(n)

NumbersSuffice ==
  (IF accepted_fd = 0 THEN 0 ELSE 1) + Len(queued_fds) + Cardinality(user_fds) + other_fds
    + (IF emfile_fd THEN 1 ELSE 0) <= FdLimit

ListenInv ==
  /\ ListenTypes /\ QueueBehindAccepted /\ InOrderEach /\ InOrderAll /\ NoneLost /\ NumbersSuffice

-----------------------------------------------------------------------------
\* Held is what Holds says.
LEMMA HeldLinks ==
  ASSUME ListenTypes, QueueBehindAccepted, InOrderEach, InOrderAll
  PROVE  /\ Held \in Seq(Pos) /\ Increasing(Held) /\ \A n : Linked(Held, n) <=> Holds(n)
         /\ Len(Held) = (IF accepted_fd = 0 THEN 0 ELSE 1) + Len(queued_fds)
         /\ Held = <<>> <=> accepted_fd = 0
<1>0. Len(queued_fds) \in Nat
  BY LenProperties DEF ListenTypes
<1>1. CASE accepted_fd = 0
  <2>1. queued_fds = <<>> /\ Held = <<>> \o <<>>
    BY <1>1 DEF QueueBehindAccepted, Held
  <2>2. <<>> \o <<>> = <<>> /\ Len(<<>>) = 0 /\ <<>> \in Seq(Pos)
    OBVIOUS
  <2>3. Held = <<>>
    BY <2>1, <2>2
  <2>4. Increasing(<<>>)
    BY <2>2 DEF Increasing
  <2>5. \A n : ~Linked(<<>>, n)
    BY EmptyLinksNothing
  <2> QED BY <1>1, <2>1, <2>2, <2>3, <2>4, <2>5 DEF Holds
<1>2. CASE accepted_fd # 0
  <2>1. accepted_fd \in Pos /\ Held = <<accepted_fd>> \o queued_fds
    BY <1>2 DEF ListenTypes, Pos, Held
  <2>2. /\ <<accepted_fd>> \in Seq(Pos) /\ Len(<<accepted_fd>>) = 1 /\ Increasing(<<accepted_fd>>)
        /\ \A n : Linked(<<accepted_fd>>, n) <=> n = accepted_fd
    BY <2>1, OneDescriptor
  <2>3. queued_fds \in Seq(Pos) /\ Increasing(queued_fds)
    BY DEF ListenTypes, InOrderEach
  <2>4. /\ Held \in Seq(Pos) /\ Len(Held) = 1 + Len(queued_fds)
        /\ \A n : Linked(Held, n) <=> Linked(<<accepted_fd>>, n) \/ Linked(queued_fds, n)
        /\ Increasing(Held) <=>
             /\ Increasing(<<accepted_fd>>) /\ Increasing(queued_fds)
             /\ \A m, n : Linked(<<accepted_fd>>, m) /\ Linked(queued_fds, n) => m < n
    BY <2>1, <2>2, <2>3, IncreasingConcat
  <2>5. Increasing(Held)
    BY <2>2, <2>3, <2>4 DEF InOrderAll
  <2>6. Held # <<>>
    BY <2>4, <1>0
  <2> QED BY <1>2, <2>2, <2>4, <2>5, <2>6 DEF Holds
<1> QED BY <1>1, <1>2

\* FdRoom and UsedFds in these terms.
LEMMA NumbersCounted ==
  ASSUME ListenTypes, QueueBehindAccepted, InOrderEach, InOrderAll
  PROVE  /\ UsedFds = (IF accepted_fd = 0 THEN 0 ELSE 1) + Len(queued_fds) + Cardinality(user_fds)
                        + other_fds + (IF emfile_fd THEN 1 ELSE 0)
         /\ Len(queued_fds) \in Nat /\ Cardinality(user_fds) \in Nat /\ other_fds \in Nat
<1>1. Len(queued_fds) \in Nat /\ Cardinality(user_fds) \in Nat /\ other_fds \in Nat
  BY LenProperties, FS_CardinalityType DEF ListenTypes
<1> QED BY <1>1, HeldLinks DEF UsedFds

\* The invariant says what DescriptorsInOrder says.
LEMMA InvGivesOrder == ASSUME ListenInv PROVE DescriptorsInOrder
<1> DEFINE waiting == UNION {{m[i] : i \in 1..Len(m)} : m \in {backlog[j] : j \in 1..Len(backlog)}}
           taken == {taken_fds[i] : i \in 1..Len(taken_fds)}
           held == {Held[i] : i \in 1..Len(Held)}
<1>1. /\ Held \in Seq(Pos) /\ Increasing(Held) /\ \A n : Linked(Held, n) <=> Holds(n)
      /\ Held = <<>> <=> accepted_fd = 0
  BY HeldLinks DEF ListenInv
<1>2. taken_fds \in Seq(Pos) /\ Increasing(taken_fds)
  BY DEF ListenInv, ListenTypes, InOrderEach
<1>3. Increasing(taken_fds \o Held) <=>
         /\ Increasing(taken_fds) /\ Increasing(Held)
         /\ \A m, n : Linked(taken_fds, m) /\ Linked(Held, n) => m < n
  BY <1>1, <1>2, IncreasingConcat
<1>4. Increasing(taken_fds \o Held)
  BY <1>1, <1>2, <1>3 DEF ListenInv, InOrderAll
<1>5. \A n : n \in waiting <=> Waits(n)
  BY DEF Waits, Linked
<1>6. \A n : n \in taken <=> Linked(taken_fds, n)
  BY DEF Linked
<1>7. \A n : n \in held <=> Holds(n)
  BY <1>1 DEF Linked
<1> HIDE DEF waiting, taken, held
<1>8. held \cap dropped_fds = {} /\ taken \cap dropped_fds = {}
  BY <1>6, <1>7 DEF ListenInv, NoneLost
<1>9. taken \cup held \cup dropped_fds \cup waiting = 1..sent_fds
  BY <1>5, <1>6, <1>7 DEF ListenInv, NoneLost, Left
<1>10. server_at = "closed" => held = {}
  <2>1. server_at = "closed" => \A n : ~Holds(n)
    BY EmptyLinksNothing DEF ListenInv, QueueBehindAccepted, Holds
  <2> QED BY <2>1, <1>7
<1>11. UsedFds <= FdLimit
  BY NumbersCounted DEF ListenInv, NumbersSuffice
<1> QED BY <1>4, <1>8, <1>9, <1>10, <1>11 DEF DescriptorsInOrder, waiting, taken, held

-----------------------------------------------------------------------------
(* The steps.                                                               *)

LEMMA ListenInvInit == ASSUME ListenerInit PROVE ListenInv
<1> USE DEF ListenerInit
<1>0. /\ <<>> \in Seq(Pos) /\ <<>> \in Seq(Seq(Pos)) /\ Len(<<>>) = 0 /\ Increasing(<<>>)
      /\ \A n : ~Linked(<<>>, n)
  BY EmptyLinksNothing DEF Increasing
<1>1. ListenTypes
  BY <1>0, FS_EmptySet DEF ListenTypes
<1>2. QueueBehindAccepted
  BY DEF QueueBehindAccepted
<1>3. InOrderEach
  BY <1>0 DEF InOrderEach
<1>4. InOrderAll
  BY <1>0 DEF InOrderAll, Waits
<1>5. NoneLost
  <2>1. \A n : ~Left(n) /\ ~Waits(n)
    BY <1>0 DEF Left, Holds, Waits
  <2>2. 1..0 = {}
    OBVIOUS
  <2> QED BY <2>1, <2>2 DEF NoneLost
<1>6. NumbersSuffice
  BY <1>0, FS_EmptySet, ListenerAssumption DEF NumbersSuffice
<1> QED BY <1>1, <1>2, <1>3, <1>4, <1>5, <1>6 DEF ListenInv

\* A step that moves no descriptor.
LEMMA NothingMoves ==
  ASSUME ListenInv,
         UNCHANGED <<server_kind, backlog, sent_fds, accepted_fd, queued_fds, taken_fds, dropped_fds>>
  PROVE  InOrderEach' /\ InOrderAll' /\ NoneLost'
<1>1. \A n : (Holds(n) <=> Holds(n)') /\ (Waits(n) <=> Waits(n)') /\ (Left(n) <=> Left(n)')
  BY DEF Holds, Waits, Left
<1>2. InOrderEach'
  BY DEF ListenInv, InOrderEach
<1>3. InOrderAll'
  BY <1>1 DEF ListenInv, InOrderAll
<1>4. NoneLost'
  BY <1>1 DEF ListenInv, NoneLost
<1> QED BY <1>2, <1>3, <1>4

LEMMA ListenIdleSteps ==
  ASSUME ListenInv,
         \/ uv_listen \/ OtherThread \/ ShedEnds \/ ListenCallbackReturns \/ ListenerOver
         \/ \E on \in BOOLEAN : ReadStartStop(on)
         \/ \E fd \in user_fds : CloseClient(fd)
  PROVE  ListenInv'
<1> USE DEF ListenInv
<1>0. /\ UsedFds = (IF accepted_fd = 0 THEN 0 ELSE 1) + Len(queued_fds) + Cardinality(user_fds)
                     + other_fds + (IF emfile_fd THEN 1 ELSE 0)
      /\ Len(queued_fds) \in Nat /\ Cardinality(user_fds) \in Nat /\ other_fds \in Nat
      /\ FdLimit \in Nat
  BY NumbersCounted, ListenerAssumption
<1>1. CASE uv_listen
  <2>1. UNCHANGED <<server_kind, backlog, sent_fds, accepted_fd, queued_fds, taken_fds, dropped_fds,
                    user_fds, emfile_fd, other_fds>>
        /\ pollin' = TRUE /\ server_at # "closed"
        /\ server_at' \in {server_at, "idle"}
    BY <1>1 DEF uv_listen, UserMayCall, serverFdVars
  <2> QED BY <2>1, NothingMoves DEF ListenTypes, QueueBehindAccepted, NumbersSuffice
<1>2. CASE OtherThread
  <2>1. UNCHANGED <<server_kind, server_at, backlog, sent_fds, accepted_fd, queued_fds, taken_fds, dropped_fds,
                    user_fds, emfile_fd, pollin>>
        /\ ((FdRoom /\ other_fds' = other_fds + 1) \/ (other_fds > 0 /\ other_fds' = other_fds - 1))
    BY <1>2 DEF OtherThread, serverFdVars
  <2>2. NumbersSuffice'
    BY SMTT(30), <2>1, <1>0 DEF NumbersSuffice, FdRoom
  <2>3. ListenTypes'
    BY <2>1, <1>0 DEF ListenTypes
  <2> QED BY <2>1, <2>2, <2>3, NothingMoves DEF QueueBehindAccepted
<1>3. CASE ShedEnds
  <2>1. UNCHANGED <<server_kind, backlog, sent_fds, accepted_fd, queued_fds, taken_fds, dropped_fds,
                    user_fds, other_fds, pollin>>
        /\ server_at' = "idle" /\ server_at = "shedding" /\ emfile_fd' = FdRoom
    BY <1>3 DEF ShedEnds, SpareReopened, serverFdVars
  <2>2. NumbersSuffice'
    <3>1. CASE FdRoom
      BY <3>1, <2>1, <1>0 DEF NumbersSuffice, FdRoom
    <3>2. CASE ~FdRoom
      <4>1. emfile_fd' = FALSE
        BY <3>2, <2>1
      <4> QED BY <4>1, <2>1, <1>0 DEF NumbersSuffice
    <3> QED BY <3>1, <3>2
  <2>3. ListenTypes'
    BY <2>1, <1>0 DEF ListenTypes, FdRoom
  <2> QED BY <2>1, <2>2, <2>3, NothingMoves DEF QueueBehindAccepted
<1>4. CASE ListenCallbackReturns
  <2>1. UNCHANGED <<server_kind, backlog, sent_fds, accepted_fd, queued_fds, taken_fds, dropped_fds,
                    user_fds, other_fds, emfile_fd>>
        /\ server_at' = "idle" /\ server_at = "callback" /\ pollin' \in BOOLEAN
    BY <1>4 DEF ListenCallbackReturns, StopsIfWaiting, serverFdVars
  <2> QED BY <2>1, NothingMoves DEF ListenTypes, QueueBehindAccepted, NumbersSuffice
<1>5. CASE ListenerOver
  <2>1. UNCHANGED <<server_kind, server_at, backlog, sent_fds, accepted_fd, queued_fds, taken_fds, dropped_fds,
                    user_fds, other_fds, emfile_fd, pollin>>
    BY <1>5 DEF ListenerOver, listenVars
  <2> QED BY <2>1, NothingMoves DEF ListenTypes, QueueBehindAccepted, NumbersSuffice
<1>6. ASSUME NEW on \in BOOLEAN, ReadStartStop(on) PROVE ListenInv'
  <2>1. UNCHANGED <<server_kind, backlog, sent_fds, accepted_fd, queued_fds, taken_fds, dropped_fds,
                    user_fds, other_fds, emfile_fd>>
        /\ server_at # "closed" /\ server_at' \in {server_at, "idle"} /\ pollin' \in BOOLEAN
    BY <1>6 DEF ReadStartStop, UserMayCall, serverFdVars
  <2> QED BY <2>1, NothingMoves DEF ListenTypes, QueueBehindAccepted, NumbersSuffice
<1>7. ASSUME NEW fd \in user_fds, CloseClient(fd) PROVE ListenInv'
  <2>1. UNCHANGED <<server_kind, server_at, backlog, sent_fds, accepted_fd, queued_fds, taken_fds, dropped_fds,
                    other_fds, emfile_fd, pollin>>
        /\ user_fds' = user_fds \ {fd}
    BY <1>7 DEF CloseClient
  <2>2. IsFiniteSet(user_fds') /\ Cardinality(user_fds') = Cardinality(user_fds) - 1
    BY <2>1, FS_RemoveElement DEF ListenTypes
  <2>3. NumbersSuffice'
    BY SMTT(30), <2>1, <2>2, <1>0 DEF NumbersSuffice
  <2>4. ListenTypes'
    BY <2>1, <2>2 DEF ListenTypes
  <2> QED BY <2>1, <2>3, <2>4, NothingMoves DEF QueueBehindAccepted
<1> QED BY <1>1, <1>2, <1>3, <1>4, <1>5, <1>6, <1>7

\* uv_accept: the next one moves up.
LEMMA AcceptKeepsInv ==
  ASSUME ListenInv, NEW ok \in BOOLEAN, uv_accept(ok)
  PROVE  ListenInv'
<1> USE DEF ListenInv
<1>0. /\ Len(queued_fds) \in Nat /\ Cardinality(user_fds) \in Nat /\ other_fds \in Nat /\ FdLimit \in Nat
      /\ accepted_fd \in Pos /\ accepted_fd # 0 /\ server_at # "closed" /\ taken_fds \in Seq(Pos)
      /\ queued_fds \in Seq(Pos) /\ Increasing(queued_fds) /\ Increasing(taken_fds)
  BY NumbersCounted, ListenerAssumption DEF uv_accept, UserMayCall, ListenTypes, Pos, InOrderEach
<1>1. /\ UNCHANGED <<server_kind, server_at, backlog, sent_fds, emfile_fd, other_fds>>
      /\ pollin' \in BOOLEAN
  BY DEF uv_accept, WatchesAgain, ListenTypes
\* What moves up.
<1>2. /\ accepted_fd' \in Nat /\ queued_fds' \in Seq(Pos) /\ Increasing(queued_fds')
      /\ accepted_fd' = 0 => queued_fds' = <<>>
      /\ server_kind = "listen" => queued_fds' = <<>>
      /\ (IF accepted_fd' = 0 THEN 0 ELSE 1) + Len(queued_fds') = Len(queued_fds)
      /\ \A n : Linked(queued_fds', n) => accepted_fd' < n
      /\ \A n : Linked(queued_fds, n) <=> Holds(n)'
  <2>1. CASE queued_fds = <<>>
    <3>1. accepted_fd' = 0 /\ queued_fds' = <<>>
      BY <2>1 DEF uv_accept
    <3>2. Len(<<>>) = 0
      OBVIOUS
    <3> QED BY <2>1, <3>1, <3>2, <1>0, EmptyLinksNothing DEF Holds
  <2>2. CASE queued_fds # <<>>
    <3>1. accepted_fd' = Head(queued_fds) /\ queued_fds' = Tail(queued_fds)
      BY <2>2 DEF uv_accept, Shifted
    <3>2. /\ Head(queued_fds) \in Pos /\ Tail(queued_fds) \in Seq(Pos)
          /\ Len(Tail(queued_fds)) = Len(queued_fds) - 1 /\ Increasing(Tail(queued_fds))
          /\ \A n : Linked(Tail(queued_fds), n) => Head(queued_fds) < n
          /\ \A n : Linked(queued_fds, n) <=> n = Head(queued_fds) \/ Linked(Tail(queued_fds), n)
      BY <2>2, <1>0, HeadIsLeast
    <3>3. accepted_fd' # 0 /\ accepted_fd' \in Nat
      BY <3>1, <3>2 DEF Pos
    <3>4. \A n : Linked(queued_fds, n) <=> Holds(n)'
      BY <3>1, <3>2, <3>3 DEF Holds
    <3>5. server_kind # "listen"
      BY <2>2 DEF QueueBehindAccepted
    <3> QED BY <3>1, <3>2, <3>3, <3>4, <3>5, <1>0
  <2> QED BY <2>1, <2>2
<1>3. \A n : Holds(n) <=> n = accepted_fd \/ Holds(n)'
  BY <1>0, <1>2 DEF Holds
<1>4. \A n : Holds(n)' => accepted_fd < n
  BY <1>2 DEF InOrderAll
\* Where it goes.
<1>5. /\ taken_fds' \in Seq(Pos) /\ Increasing(taken_fds')
      /\ \A n : Linked(taken_fds', n) \/ n \in dropped_fds' <=>
                  Linked(taken_fds, n) \/ n \in dropped_fds \/ n = accepted_fd
      /\ \A n : Linked(taken_fds', n) => Linked(taken_fds, n) \/ n = accepted_fd
      /\ \A n \in dropped_fds' : ~Linked(taken_fds', n)
      /\ IsFiniteSet(user_fds') /\ Cardinality(user_fds') <= Cardinality(user_fds) + 1
  <2>1. CASE ok
    <3>1. taken_fds' = Append(taken_fds, accepted_fd) /\ user_fds' = user_fds \cup {accepted_fd}
          /\ UNCHANGED dropped_fds
      BY <2>1 DEF uv_accept
    <3>2. Append(taken_fds, accepted_fd) = taken_fds \o <<accepted_fd>>
      BY <1>0, AppendIsConcat
    <3>3. /\ <<accepted_fd>> \in Seq(Pos) /\ Increasing(<<accepted_fd>>)
          /\ \A n : Linked(<<accepted_fd>>, n) <=> n = accepted_fd
      BY <1>0, OneDescriptor
    <3>4. \A m : Linked(taken_fds, m) => m < accepted_fd
      BY <1>0 DEF InOrderAll, Holds
    <3>5. /\ taken_fds' \in Seq(Pos) /\ Increasing(taken_fds')
          /\ \A n : Linked(taken_fds', n) <=> Linked(taken_fds, n) \/ n = accepted_fd
      <4>1. /\ taken_fds \o <<accepted_fd>> \in Seq(Pos)
            /\ \A n : Linked(taken_fds \o <<accepted_fd>>, n) <=>
                        Linked(taken_fds, n) \/ Linked(<<accepted_fd>>, n)
            /\ Increasing(taken_fds \o <<accepted_fd>>) <=>
                 /\ Increasing(taken_fds) /\ Increasing(<<accepted_fd>>)
                 /\ \A m, n : Linked(taken_fds, m) /\ Linked(<<accepted_fd>>, n) => m < n
        BY <3>3, <1>0, IncreasingConcat
      <4>2. Increasing(taken_fds \o <<accepted_fd>>)
        BY <4>1, <3>3, <3>4, <1>0
      <4>3. taken_fds' = taken_fds \o <<accepted_fd>>
        BY <3>1, <3>2
      <4> QED BY <4>1, <4>2, <4>3, <3>3
    <3>6. accepted_fd \notin dropped_fds
      BY <1>0 DEF NoneLost, Holds
    <3>7. IsFiniteSet(user_fds') /\ Cardinality(user_fds') <= Cardinality(user_fds) + 1
      <4>1. IsFiniteSet(user_fds)
        BY DEF ListenTypes
      <4>2. /\ IsFiniteSet(user_fds \cup {accepted_fd})
            /\ Cardinality(user_fds \cup {accepted_fd}) =
                 IF accepted_fd \in user_fds THEN Cardinality(user_fds) ELSE Cardinality(user_fds) + 1
        BY <4>1, FS_AddElement
      <4> QED BY <4>2, <3>1, <1>0
    <3> QED BY <3>1, <3>5, <3>6, <3>7 DEF NoneLost
  <2>2. CASE ~ok
    <3>1. dropped_fds' = dropped_fds \cup {accepted_fd} /\ UNCHANGED <<taken_fds, user_fds>>
      BY <2>2 DEF uv_accept
    <3>2. \A m : Linked(taken_fds, m) => m < accepted_fd
      BY <1>0 DEF InOrderAll, Holds
    <3>3. ~Linked(taken_fds, accepted_fd)
      BY <3>2, <1>0 DEF Pos
    <3>4. IsFiniteSet(user_fds') /\ Cardinality(user_fds') <= Cardinality(user_fds) + 1
      BY <3>1, <1>0 DEF ListenTypes
    <3> QED BY <3>1, <3>3, <3>4, <1>0 DEF NoneLost
  <2> QED BY <2>1, <2>2
<1>6. \A n : (Waits(n) <=> Waits(n)') /\ (Left(n) <=> Left(n)')
  BY <1>1, <1>3, <1>5 DEF Waits, Left
<1>7. ListenTypes'
  BY <1>1, <1>2, <1>5 DEF ListenTypes
<1>8. QueueBehindAccepted'
  BY <1>0, <1>1, <1>2 DEF QueueBehindAccepted
<1>9. InOrderEach'
  BY <1>1, <1>2, <1>5 DEF InOrderEach
<1>10. InOrderAll'
  <2>1. ASSUME NEW m, NEW n, Linked(taken_fds', m), Holds(n)' PROVE m < n
    BY <2>1, <1>3, <1>4, <1>5 DEF InOrderAll
  <2>2. ASSUME NEW m, NEW n, Left(m)', Waits(n)' PROVE m < n
    BY <2>2, <1>6 DEF InOrderAll
  <2>3. \A i, j \in 1..Len(backlog') : i < j =>
           \A m, n : Linked(backlog'[i], m) /\ Linked(backlog'[j], n) => m < n
    BY <1>1 DEF InOrderAll
  <2> QED BY <2>1, <2>2, <2>3, <1>2 DEF InOrderAll
<1>11. NoneLost'
  <2>1. \A n : Left(n)' \/ Waits(n)' <=> n \in 1..sent_fds'
    BY <1>1, <1>6 DEF NoneLost
  <2>2. ASSUME NEW n \in dropped_fds', Holds(n)' PROVE FALSE
    <3>1. Holds(n) /\ accepted_fd < n
      BY <2>2, <1>3, <1>4
    <3>2. ~Linked(taken_fds, n) /\ n \notin dropped_fds /\ n # accepted_fd
      <4>1. n \notin dropped_fds
        BY <3>1 DEF NoneLost
      <4>2. n # accepted_fd
        BY <3>1, <1>0 DEF Pos
      <4>3. ~Linked(taken_fds, n)
        <5>1. Linked(taken_fds, n) => n < n /\ n \in Pos
          BY <3>1, <1>0, ElementOfSeq DEF InOrderAll, Linked
        <5> QED BY <5>1 DEF Pos
      <4> QED BY <4>1, <4>2, <4>3
    <3> QED BY <3>2, <1>5
  <2> QED BY <2>1, <2>2, <1>5 DEF NoneLost
<1>12. NumbersSuffice'
  <2>1. Cardinality(user_fds') \in Nat /\ Len(queued_fds') \in Nat
    BY <1>2, <1>5, FS_CardinalityType, LenProperties
  <2>2. /\ (IF accepted_fd' = 0 THEN 0 ELSE 1) + Len(queued_fds') = Len(queued_fds)
        /\ Cardinality(user_fds') <= Cardinality(user_fds) + 1
        /\ UNCHANGED <<other_fds, emfile_fd>>
    BY <1>1, <1>2, <1>5
  <2>3. /\ Cardinality(user_fds) \in Nat /\ Len(queued_fds) \in Nat /\ other_fds \in Nat
        /\ accepted_fd # 0 /\ FdLimit \in Nat /\ NumbersSuffice
    BY <1>0, <1>1
  <2> QED BY SMTT(30), <2>1, <2>2, <2>3 DEF NumbersSuffice
<1> QED BY <1>7, <1>8, <1>9, <1>10, <1>11, <1>12

\* A message at the head of the backlog, and those behind it.
LEMMA BacklogHead ==
  ASSUME ListenInv, backlog # <<>>, backlog' = Tail(backlog)
  PROVE  /\ Head(backlog) \in Seq(Pos) /\ Len(Head(backlog)) > 0 /\ Increasing(Head(backlog))
         /\ server_kind = "listen" => Len(Head(backlog)) = 1
         /\ backlog' \in Seq(Seq(Pos))
         /\ \A n : Waits(n) <=> Linked(Head(backlog), n) \/ Waits(n)'
         /\ \A m, n : Linked(Head(backlog), m) /\ Waits(n)' => m < n
         /\ \A j \in 1..Len(backlog') : j + 1 \in 1..Len(backlog) /\ backlog'[j] = backlog[j + 1]
<1>1. /\ Len(backlog) \in Nat /\ Len(backlog) > 0 /\ Head(backlog) = backlog[1] /\ 1 \in 1..Len(backlog)
      /\ backlog' \in Seq(Seq(Pos)) /\ Len(backlog') = Len(backlog) - 1 /\ Head(backlog) \in Seq(Pos)
      /\ \A j \in 1..(Len(backlog) - 1) : backlog'[j] = backlog[j + 1]
  BY HeadTailProperties, LenProperties, EmptySeq DEF ListenInv, ListenTypes
<1>2. \A j \in 1..Len(backlog') : j + 1 \in 1..Len(backlog) /\ 1 < j + 1 /\ backlog'[j] = backlog[j + 1]
  BY <1>1
<1>3. \A j \in 1..Len(backlog) : j = 1 \/ (j - 1 \in 1..Len(backlog') /\ backlog'[j - 1] = backlog[j])
  BY <1>1
<1>4. /\ Len(Head(backlog)) > 0 /\ Increasing(Head(backlog))
      /\ server_kind = "listen" => Len(Head(backlog)) = 1
  BY <1>1 DEF ListenInv, InOrderEach
<1>5. ASSUME NEW n PROVE Waits(n) <=> Linked(Head(backlog), n) \/ Waits(n)'
  <2>1. ASSUME Waits(n) PROVE Linked(Head(backlog), n) \/ Waits(n)'
    <3>1. PICK j \in 1..Len(backlog) : Linked(backlog[j], n)
      BY <2>1 DEF Waits
    <3>2. CASE j = 1
      BY <3>1, <3>2, <1>1
    <3>3. CASE j # 1
      <4>1. j - 1 \in 1..Len(backlog') /\ Linked(backlog'[j - 1], n)
        BY <3>1, <3>3, <1>3
      <4> QED BY <4>1 DEF Waits
    <3> QED BY <3>2, <3>3
  <2>2. ASSUME Linked(Head(backlog), n) PROVE Waits(n)
    BY <2>2, <1>1 DEF Waits
  <2>3. ASSUME Waits(n)' PROVE Waits(n)
    BY <2>3, <1>2 DEF Waits
  <2> QED BY <2>1, <2>2, <2>3
<1>6. ASSUME NEW m, NEW n, Linked(Head(backlog), m), Waits(n)' PROVE m < n
  <2>1. PICK j \in 1..Len(backlog') : Linked(backlog'[j], n)
    BY <1>6 DEF Waits
  <2>2. j + 1 \in 1..Len(backlog) /\ 1 < j + 1 /\ Linked(backlog[j + 1], n)
    BY <2>1, <1>2
  <2> QED BY <2>2, <1>1, <1>6 DEF ListenInv, InOrderAll
<1> QED BY <1>1, <1>2, <1>4, <1>5, <1>6

\* Of the first message some are held from now on, and some are closed.
LEMMA MessageTaken ==
  ASSUME ListenInv, NEW kept, NEW closed,
         backlog # <<>>, backlog' = Tail(backlog), UNCHANGED <<server_kind, sent_fds, taken_fds>>,
         Increasing(queued_fds'), \A n : Linked(queued_fds', n) => accepted_fd' < n,
         \A n : Linked(Head(backlog), n) <=> n \in kept \/ n \in closed,
         \A n \in kept : n \notin closed,
         \A n : Holds(n)' <=> Holds(n) \/ n \in kept,
         dropped_fds' = dropped_fds \cup closed
  PROVE  InOrderEach' /\ InOrderAll' /\ NoneLost'
<1> USE DEF ListenInv
<1>1. /\ \A n : Waits(n) <=> Linked(Head(backlog), n) \/ Waits(n)'
      /\ \A m, n : Linked(Head(backlog), m) /\ Waits(n)' => m < n
      /\ \A j \in 1..Len(backlog') : j + 1 \in 1..Len(backlog) /\ backlog'[j] = backlog[j + 1]
  BY BacklogHead
<1>2. \A n : Left(n)' <=> Left(n) \/ n \in kept \/ n \in closed
  BY DEF Left
<1>3. \A n : n \in kept \/ n \in closed => Waits(n)
  BY <1>1
<1>4. \A n : Waits(n) => n \in Pos /\ ~(n < n)
  <2>1. ASSUME NEW n, Waits(n) PROVE n \in Pos
    <3>1. PICK j \in 1..Len(backlog) : Linked(backlog[j], n)
      BY <2>1 DEF Waits
    <3>2. backlog[j] \in Seq(Pos)
      BY <3>1, ElementOfSeq DEF ListenTypes
    <3> QED BY <3>1, <3>2, ElementOfSeq DEF Linked
  <2>2. \A n \in Pos : ~(n < n)
    BY DEF Pos
  <2> QED BY <2>1, <2>2
<1>5. InOrderEach'
  <2>1. ASSUME NEW j \in 1..Len(backlog')
        PROVE  /\ Len(backlog'[j]) > 0 /\ Increasing(backlog'[j])
               /\ server_kind' = "listen" => Len(backlog'[j]) = 1
    BY <1>1 DEF InOrderEach
  <2>2. Increasing(taken_fds')
    BY DEF InOrderEach
  <2> QED BY <2>1, <2>2 DEF InOrderEach
<1>6. InOrderAll'
  <2>1. ASSUME NEW i \in 1..Len(backlog'), NEW j \in 1..Len(backlog'), i < j,
               NEW m, NEW n, Linked(backlog'[i], m), Linked(backlog'[j], n)
        PROVE  m < n
    <3>1. /\ i + 1 \in 1..Len(backlog) /\ j + 1 \in 1..Len(backlog) /\ i + 1 < j + 1
          /\ Linked(backlog[i + 1], m) /\ Linked(backlog[j + 1], n)
      BY <2>1, <1>1
    <3> QED BY <3>1 DEF InOrderAll
  <2>2. ASSUME NEW m, NEW n, Linked(taken_fds', m), Holds(n)' PROVE m < n
    <3>1. Linked(taken_fds, m) /\ Left(m)
      BY <2>2 DEF Left
    <3>2. CASE Holds(n)
      BY <3>1, <3>2 DEF InOrderAll
    <3>3. CASE n \in kept
      BY <3>1, <3>3, <1>3 DEF InOrderAll
    <3> QED BY <2>2, <3>2, <3>3
  <2>3. ASSUME NEW m, NEW n, Left(m)', Waits(n)' PROVE m < n
    <3>1. CASE Left(m)
      BY <3>1, <2>3, <1>1 DEF InOrderAll
    <3>2. CASE m \in kept \/ m \in closed
      BY <3>2, <2>3, <1>1
    <3> QED BY <2>3, <3>1, <3>2, <1>2
  <2> QED BY <2>1, <2>2, <2>3 DEF InOrderAll
<1>7. NoneLost'
  <2>1. ASSUME NEW n PROVE Left(n)' \/ Waits(n)' <=> n \in 1..sent_fds'
    BY <1>1, <1>2 DEF NoneLost
  <2>2. \A n : Left(n) => n \notin kept /\ n \notin closed
    BY <1>3, <1>4 DEF InOrderAll
  <2>3. ASSUME NEW n \in dropped_fds' PROVE ~Linked(taken_fds', n) /\ ~Holds(n)'
    <3>1. CASE n \in dropped_fds
      <4>1. Left(n)
        BY <3>1 DEF Left
      <4> QED BY <3>1, <4>1, <2>2 DEF NoneLost
    <3>2. CASE n \in closed
      <4>1. ~Left(n) /\ n \notin kept
        BY <3>2, <2>2
      <4> QED BY <4>1 DEF Left
    <3> QED BY <2>3, <3>1, <3>2
  <2> QED BY <2>1, <2>3 DEF NoneLost
<1> QED BY <1>5, <1>6, <1>7

\* uv__server_io.
LEMMA ServerIoKeepsInv == ASSUME ListenInv, uv__server_io PROVE ListenInv'
<1> USE DEF ListenInv
<1>0. /\ UsedFds = (IF accepted_fd = 0 THEN 0 ELSE 1) + Len(queued_fds) + Cardinality(user_fds)
                     + other_fds + (IF emfile_fd THEN 1 ELSE 0)
      /\ Len(queued_fds) \in Nat /\ Cardinality(user_fds) \in Nat /\ other_fds \in Nat
      /\ FdLimit \in Nat
  BY NumbersCounted, ListenerAssumption
<1>1. /\ server_kind = "listen" /\ server_at = "idle" /\ backlog # <<>> /\ queued_fds = <<>>
      /\ UNCHANGED <<server_kind, sent_fds, queued_fds, taken_fds, user_fds, dropped_fds, pollin, other_fds>>
  BY DEF uv__server_io, Readable, QueueBehindAccepted
<1>2. CASE accepted_fd # 0
  <2>1. server_at' = "aborted" /\ UNCHANGED <<accepted_fd, backlog, emfile_fd>>
    BY <1>2 DEF uv__server_io
  <2> QED BY <1>1, <2>1, NothingMoves DEF ListenTypes, QueueBehindAccepted, NumbersSuffice
<1>3. CASE accepted_fd = 0 /\ FdRoom
  <2>1. /\ accepted_fd' = Head(backlog)[1] /\ backlog' = Tail(backlog) /\ server_at' = "callback"
        /\ UNCHANGED emfile_fd
    BY <1>3 DEF uv__server_io
  <2>2. Head(backlog) \in Seq(Pos) /\ Len(Head(backlog)) = 1 /\ backlog' \in Seq(Seq(Pos))
    BY <1>1, <2>1, BacklogHead
  <2>3. accepted_fd' \in Pos /\ accepted_fd' \in Nat /\ accepted_fd' # 0
    <3>1. Head(backlog)[1] \in Pos
      BY <2>2, ElementOfSeq
    <3> QED BY <3>1, <2>1 DEF Pos
  <2>4. \A n : Linked(Head(backlog), n) <=> n \in {accepted_fd'} \/ n \in {}
    BY SMTT(30), <2>1, <2>2 DEF Linked
  <2>5. \A n : Holds(n)' <=> Holds(n) \/ n \in {accepted_fd'}
    BY <1>1, <1>3, <2>3, EmptyLinksNothing DEF Holds
  <2>6. Increasing(queued_fds') /\ \A n : ~Linked(queued_fds', n)
    BY <1>1, EmptyLinksNothing DEF InOrderEach
  <2>7. InOrderEach' /\ InOrderAll' /\ NoneLost'
    <3>1. dropped_fds' = dropped_fds \cup {}
      BY <1>1
    <3> HIDE DEF ListenInv
    <3> QED BY <1>1, <2>1, <2>4, <2>5, <2>6, <3>1, MessageTaken
  <2>8. NumbersSuffice'
    BY <1>0, <1>1, <1>3, <2>1, <2>3 DEF NumbersSuffice, FdRoom
  <2>9. ListenTypes' /\ QueueBehindAccepted'
    BY <1>1, <2>1, <2>2, <2>3 DEF ListenTypes, QueueBehindAccepted
  <2> QED BY <2>7, <2>8, <2>9
<1>4. CASE accepted_fd = 0 /\ ~FdRoom
  <2>1. server_at' = "shedding" /\ emfile_fd' = FALSE /\ UNCHANGED <<accepted_fd, backlog>>
    BY <1>4 DEF uv__server_io
  <2>2. NumbersSuffice'
    BY <1>0, <1>1, <2>1 DEF NumbersSuffice
  <2> QED BY <1>1, <2>1, <2>2, NothingMoves DEF ListenTypes, QueueBehindAccepted
<1> QED BY <1>2, <1>3, <1>4

\* The trick: accepted and closed.
LEMMA ShedKeepsInv == ASSUME ListenInv, Shed PROVE ListenInv'
<1> USE DEF ListenInv
<1>1. /\ backlog # <<>> /\ backlog' = Tail(backlog) /\ server_at = "shedding"
      /\ dropped_fds' = dropped_fds \cup {Head(backlog)[1]}
      /\ UNCHANGED <<server_kind, server_at, sent_fds, accepted_fd, queued_fds, taken_fds, user_fds, pollin,
                     emfile_fd, other_fds>>
  BY DEF Shed
<1>2. Head(backlog) \in Seq(Pos) /\ Len(Head(backlog)) = 1 /\ backlog' \in Seq(Seq(Pos))
  BY <1>1, BacklogHead DEF QueueBehindAccepted
<1>3. \A n : Linked(Head(backlog), n) <=> n \in {} \/ n \in {Head(backlog)[1]}
  BY <1>2 DEF Linked
<1>4. \A n : Holds(n)' <=> Holds(n) \/ n \in {}
  BY <1>1 DEF Holds
<1>5. Increasing(queued_fds') /\ \A n : Linked(queued_fds', n) => accepted_fd' < n
  BY <1>1 DEF InOrderEach, InOrderAll
<1>6. InOrderEach' /\ InOrderAll' /\ NoneLost'
  <2> DEFINE K == {}
             C == {Head(backlog)[1]}
  <2>1. /\ \A n : Linked(Head(backlog), n) <=> n \in K \/ n \in C
        /\ \A n : Holds(n)' <=> Holds(n) \/ n \in K
        /\ \A n \in K : n \notin C
        /\ dropped_fds' = dropped_fds \cup C
    BY <1>1, <1>3, <1>4
  <2> HIDE DEF K, C, ListenInv
  <2> QED BY <1>1, <1>5, <2>1, MessageTaken
<1> QED BY <1>1, <1>2, <1>6 DEF ListenTypes, QueueBehindAccepted, NumbersSuffice

\* The descriptors of a message join those that wait, as far as there is room.
LEMMA RecvKeepsInv == ASSUME ListenInv, uv__stream_recv_cmsg PROVE ListenInv'
<1> USE DEF ListenInv
<1>0. /\ UsedFds = (IF accepted_fd = 0 THEN 0 ELSE 1) + Len(queued_fds) + Cardinality(user_fds)
                     + other_fds + (IF emfile_fd THEN 1 ELSE 0)
      /\ Len(queued_fds) \in Nat /\ Cardinality(user_fds) \in Nat /\ other_fds \in Nat
      /\ FdLimit \in Nat
  BY NumbersCounted, ListenerAssumption
<1> DEFINE m == Head(backlog)
<1>1. /\ server_kind = "ipc" /\ backlog # <<>> /\ backlog' = Tail(backlog) /\ server_at' = "callback"
      /\ UNCHANGED <<server_kind, sent_fds, taken_fds, user_fds, pollin, emfile_fd, other_fds>>
  BY DEF uv__stream_recv_cmsg, Readable
<1>2. /\ m \in Seq(Pos) /\ Increasing(m) /\ backlog' \in Seq(Seq(Pos))
      /\ \A n : Waits(n) <=> Linked(m, n) \/ Waits(n)'
  BY <1>1, BacklogHead
<1>3. PICK kept \in 0..Len(m) :
        LET got == Held \o SubSeq(m, 1, kept)
        IN /\ UsedFds + kept <= FdLimit
           /\ accepted_fd' = IF got = <<>> THEN 0 ELSE Head(got)
           /\ queued_fds' = IF got = <<>> THEN <<>> ELSE Tail(got)
           /\ dropped_fds' = dropped_fds \cup {m[i] : i \in (kept + 1)..Len(m)}
  BY DEF uv__stream_recv_cmsg
<1> DEFINE new == SubSeq(m, 1, kept)
           got == Held \o new
           closed == {m[i] : i \in (kept + 1)..Len(m)}
<1> HIDE DEF m
<1>4. /\ new \in Seq(Pos) /\ Len(new) = kept /\ Increasing(new)
      /\ \A n : Linked(m, n) <=> Linked(new, n) \/ n \in closed
      /\ \A n : Linked(new, n) => n \notin closed
  BY <1>2, FirstOnes
<1> HIDE DEF closed, new
<1>5. /\ Held \in Seq(Pos) /\ Increasing(Held) /\ \A n : Linked(Held, n) <=> Holds(n)
      /\ Len(Held) = (IF accepted_fd = 0 THEN 0 ELSE 1) + Len(queued_fds)
  BY HeldLinks
<1>6. /\ got \in Seq(Pos) /\ Len(got) = Len(Held) + kept
      /\ \A n : Linked(got, n) <=> Holds(n) \/ Linked(new, n)
      /\ Increasing(got)
  <2>1. \A a, b : Linked(Held, a) /\ Linked(new, b) => a < b
    BY <1>2, <1>4, <1>5 DEF InOrderAll, Left
  <2>2. /\ Held \o new \in Seq(Pos) /\ Len(Held \o new) = Len(Held) + Len(new)
        /\ \A n : Linked(Held \o new, n) <=> Linked(Held, n) \/ Linked(new, n)
        /\ Increasing(Held \o new) <=>
              /\ Increasing(Held) /\ Increasing(new)
              /\ \A a, b : Linked(Held, a) /\ Linked(new, b) => a < b
    BY <1>4, <1>5, IncreasingConcat
  <2> QED BY <2>1, <2>2, <1>4, <1>5
<1>7. /\ accepted_fd' = IF got = <<>> THEN 0 ELSE Head(got)
      /\ queued_fds' = IF got = <<>> THEN <<>> ELSE Tail(got)
      /\ dropped_fds' = dropped_fds \cup closed
      /\ UsedFds + kept <= FdLimit
  BY <1>3 DEF closed, new
<1> HIDE DEF got
<1>8. /\ accepted_fd' \in Nat /\ queued_fds' \in Seq(Pos) /\ Increasing(queued_fds')
      /\ accepted_fd' = 0 => queued_fds' = <<>>
      /\ \A n : Linked(queued_fds', n) => accepted_fd' < n
      /\ \A n : Linked(got, n) <=> Holds(n)'
      /\ (IF accepted_fd' = 0 THEN 0 ELSE 1) + Len(queued_fds') = Len(got)
  <2>1. CASE got = <<>>
    <3>1. accepted_fd' = 0 /\ queued_fds' = <<>>
      BY <2>1, <1>7
    <3>2. Len(<<>>) = 0 /\ Increasing(<<>>) /\ <<>> \in Seq(Pos)
      BY DEF Increasing
    <3> QED BY <2>1, <3>1, <3>2, EmptyLinksNothing DEF Holds
  <2>2. CASE got # <<>>
    <3>1. accepted_fd' = Head(got) /\ queued_fds' = Tail(got)
      BY <2>2, <1>7
    <3>2. /\ Head(got) \in Pos /\ Tail(got) \in Seq(Pos) /\ Len(Tail(got)) = Len(got) - 1
          /\ Increasing(Tail(got))
          /\ \A n : Linked(Tail(got), n) => Head(got) < n
          /\ \A n : Linked(got, n) <=> n = Head(got) \/ Linked(Tail(got), n)
      BY <2>2, <1>6, HeadIsLeast
    <3>3. accepted_fd' # 0 /\ accepted_fd' \in Nat /\ Len(got) \in Nat
      BY <3>1, <3>2, <1>6, LenProperties DEF Pos
    <3>4. \A n : Linked(got, n) <=> Holds(n)'
      BY <3>1, <3>2, <3>3 DEF Holds
    <3> QED BY <3>1, <3>2, <3>3, <3>4
  <2> QED BY <2>1, <2>2
<1>9. InOrderEach' /\ InOrderAll' /\ NoneLost'
  <2> DEFINE K == {n \in Pos : Linked(new, n)}
  <2>1. \A n : Linked(new, n) <=> n \in K
    BY <1>4, ElementOfSeq DEF Linked
  <2> HIDE DEF K, ListenInv
  <2>2. \A n : Linked(Head(backlog), n) <=> n \in K \/ n \in closed
    BY <2>1, <1>4 DEF m
  <2>3. \A n \in K : n \notin closed
    BY <2>1, <1>4
  <2>4. \A n : Holds(n)' <=> Holds(n) \/ n \in K
    BY <2>1, <1>6, <1>8
  <2> QED BY <1>1, <1>7, <1>8, <2>2, <2>3, <2>4, MessageTaken
<1>10. ListenTypes' /\ QueueBehindAccepted'
  BY <1>1, <1>2, <1>8 DEF ListenTypes, QueueBehindAccepted
<1>11. NumbersSuffice'
  <2>1. kept \in Nat
    BY <1>2, LenProperties
  <2>2. (IF accepted_fd' = 0 THEN 0 ELSE 1) + Len(queued_fds')
          = (IF accepted_fd = 0 THEN 0 ELSE 1) + Len(queued_fds) + kept
    BY <1>5, <1>6, <1>8
  <2>3. UsedFds + kept = (IF accepted_fd' = 0 THEN 0 ELSE 1) + Len(queued_fds') + Cardinality(user_fds)
                     + other_fds + (IF emfile_fd THEN 1 ELSE 0)
    <3> DEFINE a == (IF accepted_fd' = 0 THEN 0 ELSE 1) + Len(queued_fds')
               b == (IF accepted_fd = 0 THEN 0 ELSE 1) + Len(queued_fds)
               e == IF emfile_fd THEN 1 ELSE 0
    <3>1. a = b + kept /\ b \in Nat /\ e \in Nat /\ UsedFds = b + Cardinality(user_fds) + other_fds + e
      BY <2>2, <1>0
    <3> HIDE DEF a, b, e
    <3>2. UsedFds + kept = a + Cardinality(user_fds) + other_fds + e
      BY <3>1, <2>1, <1>0
    <3> QED BY <3>2 DEF a, e
  <2> QED BY <2>3, <1>1, <1>7 DEF NumbersSuffice
<1> QED BY <1>9, <1>10, <1>11

\* What comes is greater than all that was there.
LEMMA SendKeepsInv == ASSUME ListenInv, NEW k \in 1..MaxMessage, SendFds(k) PROVE ListenInv'
<1> USE DEF ListenInv
<1> DEFINE m == [i \in 1..k |-> sent_fds + i]
<1>0. k \in Nat /\ k > 0 /\ sent_fds \in Nat /\ backlog \in Seq(Seq(Pos)) /\ Len(backlog) \in Nat
  BY ListenerAssumption, LenProperties DEF ListenTypes
<1>1. /\ backlog' = Append(backlog, m) /\ sent_fds' = sent_fds + k
      /\ server_at # "closed" /\ (server_kind = "listen" => k = 1)
      /\ UNCHANGED <<server_kind, server_at, accepted_fd, queued_fds, taken_fds, user_fds, dropped_fds,
                     pollin, emfile_fd, other_fds>>
  BY <1>0 DEF SendFds, serverFdVars
<1>2. /\ m \in Seq(Pos) /\ Len(m) = k
      /\ \A i \in 1..k : m[i] = sent_fds + i
  <2>1. m \in [1..k -> Pos]
    BY <1>0 DEF Pos
  <2>2. m \in Seq(Pos)
    <3>1. \A i \in 1..k : m[i] \in Pos
      BY <2>1
    <3> QED BY <3>1, <1>0, SeqDef
  <2>3. Len(m) = k
    BY <2>1, <2>2, <1>0, LenProperties
  <2> QED BY <2>2, <2>3
<1>3. Increasing(m) /\ \A n : Linked(m, n) <=> n \in (sent_fds + 1)..(sent_fds + k)
  <2>1. Increasing(m)
    BY <1>0, <1>2 DEF Increasing
  <2>2. ASSUME NEW n \in (sent_fds + 1)..(sent_fds + k) PROVE Linked(m, n)
    <3>1. n - sent_fds \in 1..k /\ m[n - sent_fds] = n
      BY <1>0, <1>2
    <3> QED BY <3>1, <1>2 DEF Linked
  <2>3. ASSUME NEW n, Linked(m, n) PROVE n \in (sent_fds + 1)..(sent_fds + k)
    BY <2>3, <1>0, <1>2 DEF Linked
  <2> QED BY <2>1, <2>2, <2>3
<1> HIDE DEF m
<1>4. /\ backlog' \in Seq(Seq(Pos)) /\ Len(backlog') = Len(backlog) + 1
      /\ \A j \in 1..Len(backlog) : backlog'[j] = backlog[j] /\ j \in 1..Len(backlog')
      /\ backlog'[Len(backlog) + 1] = m /\ Len(backlog) + 1 \in 1..Len(backlog')
  BY <1>0, <1>1, <1>2, AppendProperties
<1>5. \A j \in 1..Len(backlog') : j \in 1..Len(backlog) \/ j = Len(backlog) + 1
  BY <1>0, <1>4
<1>6. \A n : Waits(n)' <=> Waits(n) \/ n \in (sent_fds + 1)..(sent_fds + k)
  BY <1>3, <1>4, <1>5 DEF Waits
<1>7. \A n : (Holds(n)' <=> Holds(n)) /\ (Left(n)' <=> Left(n))
  BY <1>1 DEF Left, Holds
<1>8. \A n : Left(n) \/ Waits(n) => n \in 1..sent_fds
  BY DEF NoneLost
<1>9. \A a, n : a \in 1..sent_fds /\ n \in (sent_fds + 1)..(sent_fds + k) => a < n
  BY <1>0
<1>10. InOrderEach'
  BY <1>0, <1>1, <1>2, <1>3, <1>4, <1>5 DEF InOrderEach
<1>11. InOrderAll'
  <2>1. ASSUME NEW i \in 1..Len(backlog'), NEW j \in 1..Len(backlog'), i < j,
               NEW a, NEW n, Linked(backlog'[i], a), Linked(backlog'[j], n)
        PROVE  a < n
    <3>1. i \in 1..Len(backlog) /\ Linked(backlog[i], a)
      <4>1. i # Len(backlog) + 1
        BY <2>1, <1>0, <1>4
      <4>2. i \in 1..Len(backlog)
        BY <4>1, <1>5
      <4> QED BY <4>2, <2>1, <1>4
    <3>2. CASE j \in 1..Len(backlog)
      BY <2>1, <3>1, <3>2, <1>4 DEF InOrderAll
    <3>3. CASE j = Len(backlog) + 1
      <4>1. Waits(a)
        BY <3>1 DEF Waits
      <4> QED BY <2>1, <3>3, <4>1, <1>3, <1>4, <1>8, <1>9
    <3> QED BY <3>2, <3>3, <1>5
  <2>2. ASSUME NEW a, NEW n, Left(a)', Waits(n)' PROVE a < n
    <3>1. Left(a) /\ a \in 1..sent_fds
      BY <2>2, <1>7, <1>8
    <3> QED BY <2>2, <3>1, <1>6, <1>9 DEF InOrderAll
  <2>3. /\ \A n : Linked(queued_fds', n) => accepted_fd' < n
        /\ \A a, n : Linked(taken_fds', a) /\ Holds(n)' => a < n
    BY <1>1, <1>7 DEF InOrderAll
  <2> QED BY <2>1, <2>2, <2>3 DEF InOrderAll
<1>12. NoneLost'
  <2>1. \A n : n \in 1..(sent_fds + k) <=> n \in 1..sent_fds \/ n \in (sent_fds + 1)..(sent_fds + k)
    BY <1>0
  <2>2. ASSUME NEW n PROVE Left(n)' \/ Waits(n)' <=> n \in 1..sent_fds'
    BY <2>1, <1>1, <1>6, <1>7 DEF NoneLost
  <2> QED BY <2>2, <1>1, <1>7 DEF NoneLost
<1> QED BY <1>0, <1>1, <1>4, <1>10, <1>11, <1>12 DEF ListenTypes, QueueBehindAccepted, NumbersSuffice

\* uv__stream_close closes all that is held.
LEMMA StreamCloseKeepsInv == ASSUME ListenInv, uv__stream_close PROVE ListenInv'
<1> USE DEF ListenInv
<1>1. /\ server_at' = "closed" /\ dropped_fds' = dropped_fds \cup LeftForClose
      /\ accepted_fd' = 0 /\ queued_fds' = <<>> /\ pollin' = FALSE
      /\ UNCHANGED <<server_kind, backlog, sent_fds, emfile_fd, other_fds, taken_fds, user_fds>>
  BY DEF uv__stream_close
<1>2. \A n : n \in LeftForClose <=> Holds(n)
  <2>1. \A n : Linked(Held, n) <=> Holds(n)
    BY HeldLinks
  <2> QED BY <2>1 DEF LeftForClose, Linked
<1>3. \A n : ~Linked(queued_fds', n) /\ ~Holds(n)'
  BY <1>1, EmptyLinksNothing DEF Holds
<1>4. \A n : (Left(n)' <=> Left(n)) /\ (Waits(n)' <=> Waits(n))
  BY <1>1, <1>2, <1>3 DEF Left, Waits
<1>5. <<>> \in Seq(Pos) /\ Len(<<>>) = 0 /\ Increasing(<<>>)
  BY DEF Increasing
<1>6. ListenTypes' /\ QueueBehindAccepted'
  BY <1>1, <1>5 DEF ListenTypes, QueueBehindAccepted
<1>7. InOrderEach' /\ InOrderAll'
  BY <1>1, <1>3, <1>4, <1>5 DEF InOrderEach, InOrderAll
<1>8. NoneLost'
  <2>1. ASSUME NEW n, Holds(n) PROVE ~Linked(taken_fds, n)
    <3>1. Linked(taken_fds, n) => n < n /\ n \in Pos
      BY <2>1, ElementOfSeq DEF InOrderAll, ListenTypes, Linked
    <3> QED BY <3>1 DEF Pos
  <2>2. \A n \in dropped_fds' : ~Linked(taken_fds', n)
    BY <2>1, <1>1, <1>2 DEF NoneLost
  <2> QED BY <2>2, <1>1, <1>3, <1>4 DEF NoneLost
<1>9. NumbersSuffice'
  <2>1. Len(queued_fds) \in Nat /\ Cardinality(user_fds) \in Nat /\ other_fds \in Nat /\ FdLimit \in Nat
    BY NumbersCounted, ListenerAssumption
  <2> QED BY <2>1, <1>1, <1>5 DEF NumbersSuffice
<1> QED BY <1>6, <1>7, <1>8, <1>9

LEMMA ListenInvStep == ASSUME ListenInv, [ListenerNext]_listenVars PROVE ListenInv'
<1>1. CASE UNCHANGED listenVars
  <2>1. UNCHANGED <<server_kind, server_at, backlog, sent_fds, accepted_fd, queued_fds, taken_fds, dropped_fds,
                    user_fds, other_fds, emfile_fd, pollin>>
    BY <1>1 DEF listenVars
  <2> QED BY <2>1, NothingMoves DEF ListenInv, ListenTypes, QueueBehindAccepted, NumbersSuffice
<1>2. CASE ListenerNext
  BY <1>2, ListenIdleSteps, AcceptKeepsInv, ServerIoKeepsInv, ShedKeepsInv, RecvKeepsInv, SendKeepsInv,
     StreamCloseKeepsInv DEF ListenerNext, ListenerLoop
<1> QED BY <1>1, <1>2

\* Every connection and every descriptor of another process is in one place,
\* is handed out once and in order, or is closed (uv_accept, uv__stream_close,
\* uv__emfile_trick): whatever the limit of descriptors, the messages and what
\* the user does.
THEOREM DescriptorsKeepOrder == ListenerSpec => []DescriptorsInOrder
<1>1. ListenerSpec => []ListenInv
  <2>1. ListenerInit => ListenInv
    BY ListenInvInit
  <2>2. ListenInv /\ [ListenerNext]_listenVars => ListenInv'
    BY ListenInvStep
  <2> QED BY <2>1, <2>2, PTL DEF ListenerSpec
<1>2. ListenInv => DescriptorsInOrder
  BY InvGivesOrder
<1> QED BY <1>1, <1>2, PTL

-----------------------------------------------------------------------------
(* What a listening socket is watched for, if it is not told to listen      *)
(* twice and a client that could not be opened is tried within the callback *)

WatchInv ==
  /\ server_at # "aborted"
  /\ server_kind = "listen" =>
       /\ server_at \in {"callback", "shedding"} => pollin
       /\ server_at \in {"shedding", "new"} => accepted_fd = 0
       /\ server_at = "idle" => (pollin <=> accepted_fd = 0)
       /\ queued_fds = <<>>

LEMMA WatchInvStep ==
  ASSUME ~ListenAgain, ~LateFailures, WatchInv, [ListenerNext]_listenVars
  PROVE  WatchInv'
<1>1. CASE UNCHANGED listenVars
  BY <1>1 DEF listenVars, WatchInv
<1>2. CASE ListenerNext
  <2>1. CASE ListenerOver
    BY <2>1 DEF ListenerOver, listenVars, WatchInv
  <2>2. CASE uv__server_io
    BY <2>2 DEF uv__server_io, Readable, WatchInv
  <2>3. CASE Shed \/ ShedEnds \/ ListenCallbackReturns
    BY <2>3 DEF Shed, ShedEnds, ListenCallbackReturns, StopsIfWaiting, serverFdVars, WatchInv
  <2>4. CASE uv_listen \/ uv__stream_close \/ OtherThread
    BY <2>4 DEF uv_listen, uv__stream_close, OtherThread, UserMayCall, serverFdVars, WatchInv
  <2>5. ASSUME NEW k \in 1..MaxMessage, SendFds(k) PROVE WatchInv'
    BY <2>5 DEF SendFds, serverFdVars, WatchInv
  <2>6. ASSUME NEW ok \in BOOLEAN, uv_accept(ok) PROVE WatchInv'
    <3>1. /\ UNCHANGED <<server_at, server_kind>>
          /\ accepted_fd # 0 /\ (ok \/ server_at = "callback") /\ UserMayCall
      BY <2>6 DEF uv_accept
    <3>2. CASE queued_fds = <<>>
      <4>1. accepted_fd' = 0 /\ queued_fds' = <<>> /\ pollin' = (pollin \/ ok)
        BY <2>6, <3>2 DEF uv_accept, WatchesAgain
      <4> QED BY <3>1, <4>1 DEF WatchInv, UserMayCall
    <3>3. CASE queued_fds # <<>>
      BY <3>1, <3>3 DEF WatchInv
    <3> QED BY <3>2, <3>3
  <2>7. ASSUME NEW fd \in user_fds, CloseClient(fd) PROVE WatchInv'
    BY <2>7 DEF CloseClient, WatchInv
  <2>8. CASE uv__stream_recv_cmsg
    BY <2>8 DEF uv__stream_recv_cmsg, WatchInv
  <2>9. ASSUME NEW on \in BOOLEAN, ReadStartStop(on) PROVE WatchInv'
    BY <2>9 DEF ReadStartStop, WatchInv
  <2> QED BY <1>2, <2>1, <2>2, <2>3, <2>4, <2>5, <2>6, <2>7, <2>8, <2>9 DEF ListenerNext, ListenerLoop
<1> QED BY <1>1, <1>2

\* All that the run checks: a listening socket never goes deaf and never
\* overwrites what waits.
THEOREM ListenersKeepPromise == ~ListenAgain /\ ~LateFailures => (ListenerSpec => []ListenerPromise)
<1> SUFFICES ASSUME ~ListenAgain, ~LateFailures PROVE ListenerSpec => []ListenerPromise
  OBVIOUS
<1>1. ListenerInit => ListenInv /\ WatchInv
  <2>1. ListenerInit => WatchInv
    BY DEF ListenerInit, WatchInv
  <2> QED BY <2>1, ListenInvInit
<1>2. ListenInv /\ WatchInv /\ [ListenerNext]_listenVars => (ListenInv /\ WatchInv)'
  BY ListenInvStep, WatchInvStep
<1>3. ListenInv /\ WatchInv => ListenerPromise
  <2>1. ListenInv /\ WatchInv => ListensOn /\ NothingOverwritten
    BY DEF ListenInv, WatchInv, ListensOn, NothingOverwritten
  <2> QED BY <2>1, InvGivesOrder DEF ListenerPromise
<1> QED BY <1>1, <1>2, <1>3, PTL DEF ListenerSpec

-----------------------------------------------------------------------------
(* A child's descriptors (uv_spawn with fork).                              *)

Has(t, n, f) == n \in DOMAIN t /\ t[n] = f

\* Until the pipes are opened as streams or given up.
Preparing == {"init_stdio", "make_pipe", "fork", "read_result"}

SpawnTypes ==
  /\ stdio \in Seq(Containers)
  /\ open_before \subseteq 0..LastFd
  /\ \A i \in 1..Len(stdio) : stdio[i].kind = "inherit" => stdio[i].of \in open_before \cup {-1, NotOpen}
  /\ DOMAIN files \subseteq 0..LastFd
  /\ pipes \in [Slots -> Int \X Int]
  /\ stream_fd \in [Pipes -> Int]
  /\ slot \in 0..Len(stdio)
  /\ signal_pipe \in Int \X Int
  /\ spawn_at \in Preparing \cup {"open", "undo", "done"}

\* What the slots have: the ends of the pipe that is made, a number that is
\* inherited, or nothing.
InitDone(i) == spawn_at = "init_stdio" => i < slot
IsOpened(i) == spawn_at = "open" /\ i < slot

SlotSound(i) ==
  /\ IsPipe(i) /\ InitDone(i) =>
       /\ Has(files, pipes[i][1], End(i, 0))
       /\ IF IsOpened(i) THEN pipes[i][2] = -1 /\ stream_fd[stdio[i + 1].of] = pipes[i][1]
                         ELSE Has(files, pipes[i][2], End(i, 1))
  /\ Inherits(i) /\ InitDone(i) => pipes[i] = <<-1, stdio[i + 1].of>> /\ stdio[i + 1].of # -1
  /\ ~(IsPipe(i) \/ Inherits(i)) \/ ~InitDone(i) => pipes[i] = <<-1, -1>>

SlotToUndo(i) ==
  ~Inherits(i) => /\ pipes[i][1] = -1 \/ Has(files, pipes[i][1], End(i, 0))
                  /\ pipes[i][2] = -1 \/ Has(files, pipes[i][2], End(i, 1))

\* Every descriptor of the parent is an old one, or an end in its place.
Accounted(m) ==
  \/ m \in open_before /\ files[m] = Old(m)
  \/ \E i \in Slots : IsPipe(i) /\ (\/ pipes[i][1] = m /\ files[m] = End(i, 0)
                                    \/ pipes[i][2] = m /\ files[m] = End(i, 1))
  \/ spawn_at \in {"fork", "read_result"} /\ m = signal_pipe[1] /\ files[m] = SignalEnd(0)
  \/ spawn_at = "fork" /\ m = signal_pipe[2] /\ files[m] = SignalEnd(1)

ParentInv ==
  /\ \A i \in Slots : spawn_at \in Preparing \cup {"open"} => SlotSound(i)
  /\ spawn_at = "undo" /\ ~StreamTaken => \A i \in Slots : SlotToUndo(i)
  /\ spawn_at # "done" => \A m \in DOMAIN files : Accounted(m)
  /\ spawn_at = "done" =>
       \A n \in DOMAIN files : files[n][1] # "old" =>
         \E i \in Slots : IsPipe(i) /\ files[n] = End(i, 0) /\ stream_fd[stdio[i + 1].of] = n
  /\ spawn_at \in {"fork", "read_result"} => Has(files, signal_pipe[1], SignalEnd(0))
  /\ spawn_at = "fork" => Has(files, signal_pipe[2], SignalEnd(1))
  /\ \A s \in Pipes : stream_fd[s] # -1 /\ spawn_at \in Preparing \cup {"open"} =>
       s \in InUse \/ (\E j \in Slots : IsOpened(j) /\ IsPipe(j) /\ stdio[j + 1].of = s)
  /\ ~StreamTaken \/ spawn_at \in Preparing => ParentKeepsItsOwn

\* What the child knows of its slots: slot i has number use.
Use(i) == child_pipes[i][2]
IsPlaced(i) == child_at = "running" \/ (child_at = "place" /\ i < child_slot)

UseSound(i) ==
  /\ Use(i) < 0 => Asked(i) = {}
  /\ Use(i) >= 0 => /\ Use(i) \in DOMAIN child \cup {NotOpen}
                    /\ Use(i) \in DOMAIN child => Asked(i) = {child[Use(i)]}
  /\ child_at = "place" \/ i < child_slot => Use(i) < 0 \/ Use(i) >= i

PlaceSound(i) ==
  /\ Asked(i) # {} \/ i < 3 => i \in DOMAIN child /\ i \notin cloexec
  /\ \A f \in Asked(i) : child[i] = f
  /\ Asked(i) = {} /\ i < 3 => child[i] = DevNull

ChildInv ==
  /\ child_at \in {"none", "low", "place", "running", "exited", "reaped"}
  /\ child_at \in {"low", "place"} =>
       /\ child_slot \in 0..stdio_count
       /\ DOMAIN child \subseteq 0..LastFd
       /\ child_pipes \in [Slots -> Int \X Int]
       /\ \A i \in Slots : ~IsPlaced(i) => UseSound(i)
       /\ \A i \in Slots : IsPlaced(i) => PlaceSound(i)
       /\ \A n \in DOMAIN child :
            child[n][1] = "old" \/ n \in cloexec \/ (n \in Slots /\ IsPlaced(n) /\ child[n] \in {DevNull, End(n, 1)})
       /\ ~ErrorInTheWay => Has(child, signal_pipe[2], SignalEnd(1))
  /\ ChildHasItsStdio
  /\ child_at = "running" => \A n \in DOMAIN child : child[n][1] # "old" /\ child[n] # DevNull => child[n] = End(n, 1)
  /\ ModesKept

\* What the parent is told of the child.
ResultInv ==
  /\ told \in {0, ERROR}
  /\ told # 0 => child_at \in {"exited", "reaped"}
  /\ spawn_at \in {"init_stdio", "make_pipe", "fork"} => child_at = "none"
  /\ spawn_at \in Preparing => exec_errorno = 0 /\ ~spawn_active /\ child_at # "reaped"
  /\ spawn_at = "read_result" => child_at # "none"
  /\ ~ErrorInTheWay =>
       /\ child_at = "exited" => told # 0
       /\ spawn_at \in {"open", "undo", "done"} =>
            (spawn_active <=> child_at = "running") /\ child_at \in {"none", "running", "reaped"}
  /\ spawn_at = "open" /\ exec_errorno = 0 => spawn_active
  /\ spawn_at = "undo" => spawn_result # 0
  /\ spawn_at = "done" /\ spawn_result = 0 => spawn_active

ForkInv == SpawnTypes /\ ParentInv /\ ChildInv /\ ResultInv
SpawnInv == way = "fork" => ForkInv

-----------------------------------------------------------------------------
\* Files of one kind are not of another.
LEMMA FileKinds ==
  /\ \A n : Old(n)[1] = "old"
  /\ \A i, k : End(i, k)[1] = "end"
  /\ \A k : SignalEnd(k)[1] = "signal"
  /\ DevNull[1] = "null"
  /\ \A m, n : Old(m) = Old(n) => m = n
  /\ \A i, j, k, l : End(i, k) = End(j, l) => i = j /\ k = l
  /\ \A k, l : SignalEnd(k) = SignalEnd(l) => k = l
BY DEF Old, End, SignalEnd, DevNull

\* The slots, and what one asks for.
LEMMA SlotFacts ==
  ASSUME stdio \in Seq(Containers)
  PROVE  /\ Len(stdio) \in Nat /\ stdio_count \in Nat /\ stdio_count >= 3 /\ stdio_count >= Len(stdio)
         /\ Slots = 0..(stdio_count - 1)
         /\ \A i \in Nat : i < Len(stdio) => i \in Slots /\ i + 1 \in 1..Len(stdio) /\ stdio[i + 1] \in Containers
         /\ \A i \in Slots : i \in Nat /\ ~(IsPipe(i) /\ Inherits(i))
         /\ \A i \in Slots : IsPipe(i) \/ Inherits(i) => i < Len(stdio) /\ stdio[i + 1] \in Containers
         /\ \A i \in Slots : IsPipe(i) => Asked(i) = {End(i, 1)} /\ stdio[i + 1].of \in Pipes
         /\ \A i \in Slots : Inherits(i) => Asked(i) = {Old(stdio[i + 1].of)}
         /\ \A i \in Slots : ~IsPipe(i) /\ ~Inherits(i) => Asked(i) = {}
<1>1. Len(stdio) \in Nat /\ stdio_count \in Nat /\ stdio_count >= 3 /\ stdio_count >= Len(stdio)
  BY LenProperties DEF stdio_count
<1>2. Slots = 0..(stdio_count - 1)
  BY DEF Slots
<1>3. \A i \in Nat : i < Len(stdio) => i \in Slots /\ i + 1 \in 1..Len(stdio) /\ stdio[i + 1] \in Containers
  BY <1>1, <1>2, ElementOfSeq
<1>4. \A i \in Slots : i \in Nat /\ ~(IsPipe(i) /\ Inherits(i))
  BY <1>1, <1>2 DEF IsPipe, Inherits
<1>5. \A i \in Slots : IsPipe(i) \/ Inherits(i) => i < Len(stdio) /\ stdio[i + 1] \in Containers
  BY <1>3, <1>4 DEF IsPipe, Inherits
<1>6. ASSUME NEW i \in Slots
      PROVE  /\ IsPipe(i) => Asked(i) = {End(i, 1)} /\ stdio[i + 1].of \in Pipes
             /\ Inherits(i) => Asked(i) = {Old(stdio[i + 1].of)}
             /\ ~IsPipe(i) /\ ~Inherits(i) => Asked(i) = {}
  <2>1. CASE i < Len(stdio)
    <3>1. stdio[i + 1] \in Containers
      BY <1>3, <1>4, <2>1
    <3>2. /\ stdio[i + 1].kind \in {"ignore", "pipe", "inherit"}
          /\ stdio[i + 1].kind = "pipe" => stdio[i + 1].of \in Pipes
      BY <3>1 DEF Containers
    <3>3. ~(i >= Len(stdio))
      BY <2>1, <1>1, <1>4
    <3> QED BY <3>2, <3>3, <2>1 DEF IsPipe, Inherits, Asked
  <2>2. CASE ~(i < Len(stdio))
    <3>1. i >= Len(stdio)
      BY <2>2, <1>1, <1>4
    <3> QED BY <2>2, <3>1 DEF IsPipe, Inherits, Asked
  <2> QED BY <2>1, <2>2
<1> QED BY <1>1, <1>2, <1>3, <1>4, <1>5, <1>6

\* What uv_spawn is asked for stays as it is.
LEMMA SlotsStand ==
  ASSUME stdio' = stdio
  PROVE  /\ Slots' = Slots /\ stdio_count' = stdio_count /\ StreamTaken' = StreamTaken
         /\ \A i : (IsPipe(i)' <=> IsPipe(i)) /\ (Inherits(i)' <=> Inherits(i)) /\ Asked(i)' = Asked(i)
<1>1. Slots' = Slots /\ stdio_count' = stdio_count
  BY DEF Slots, stdio_count
<1>2. \A i : (IsPipe(i)' <=> IsPipe(i)) /\ (Inherits(i)' <=> Inherits(i)) /\ Asked(i)' = Asked(i)
  BY DEF IsPipe, Inherits, Asked
<1>3. StreamTaken' = StreamTaken
  BY <1>1, <1>2 DEF StreamTaken
<1> QED BY <1>1, <1>2, <1>3

\* Opening and closing numbers of a table.
LEMMA TableFacts ==
  /\ \A t, n, f : DOMAIN With(t, n, f) = DOMAIN t \cup {n} /\ With(t, n, f)[n] = f
  /\ \A t, n, f : \A k \in DOMAIN t : k # n => With(t, n, f)[k] = t[k]
  /\ \A t, ns : DOMAIN Without(t, ns) = DOMAIN t \ ns
  /\ \A t, ns : \A k \in DOMAIN t \ ns : Without(t, ns)[k] = t[k]
  /\ \A t, n : \A k \in Free(t, n) : k \in n..LastFd /\ k \notin DOMAIN t
BY DEF With, Without, Free

-----------------------------------------------------------------------------
(* The child.                                                               *)

\* The modes of files change only where a slot asks for them.
LEMMA ModesStand ==
  ASSUME ModesKept, stdio' = stdio, open_before' = open_before,
         \A n \in open_before : Old(n) \in nonblocking =>
           Old(n) \in nonblocking' \/ \E i \in Slots : Old(n) \in Asked(i)
  PROVE  ModesKept'
<1>1. ASSUME NEW n \in open_before
      PROVE  Old(n) \in nonblocking' \/ n < 3 \/ \E i \in Slots : Old(n) \in Asked(i)
  BY DEF ModesKept
<1>2. Slots' = Slots /\ \A i : Asked(i)' = Asked(i)
  BY SlotsStand
<1>3. ASSUME NEW n \in open_before'
      PROVE  Old(n)' \in nonblocking' \/ n < 3 \/ \E i \in Slots' : Old(n)' \in Asked(i)'
  <2>1. Old(n)' = Old(n)
    BY DEF Old
  <2> QED BY <1>1, <1>2, <2>1
<1> QED BY <1>3 DEF ModesKept

\* Where neither the child nor what it was asked for changes, or it ends.
LEMMA ChildStands ==
  ASSUME ChildInv, stdio' = stdio, open_before' = open_before, nonblocking \subseteq nonblocking',
         \/ UNCHANGED childVars /\ (signal_pipe' = signal_pipe \/ child_at \notin {"low", "place"})
         \/ child_at' \in {"exited", "reaped"}
  PROVE  ChildInv'
<1>1. ModesKept'
  BY ModesStand DEF ChildInv
<1>2. CASE child_at' \in {"exited", "reaped"}
  BY <1>1, <1>2 DEF ChildInv, ChildHasItsStdio
<1>3. CASE UNCHANGED childVars /\ (signal_pipe' = signal_pipe \/ child_at \notin {"low", "place"})
  <2>1. /\ Slots' = Slots /\ stdio_count' = stdio_count
        /\ \A i : Asked(i)' = Asked(i)
    BY SlotsStand
  <2>2. UNCHANGED <<child, cloexec, child_pipes, child_at, child_slot>>
    BY <1>3 DEF childVars
  <2>3. ChildHasItsStdio'
    BY <2>1, <2>2 DEF ChildInv, ChildHasItsStdio, DevNull
  <2>4. \A i : /\ UseSound(i) => UseSound(i)'
               /\ PlaceSound(i) => PlaceSound(i)'
               /\ IsPlaced(i)' <=> IsPlaced(i)
    BY <2>1, <2>2 DEF UseSound, PlaceSound, IsPlaced, Use, NotOpen, DevNull
  <2>5. child_at \in {"low", "place"} => (ErrorInTheWay' <=> ErrorInTheWay)
    BY <1>3, <2>1, <2>2 DEF ErrorInTheWay
  <2> QED BY <1>1, <1>3, <2>1, <2>2, <2>3, <2>4, <2>5 DEF ChildInv, Has, DevNull, End, SignalEnd
<1> QED BY <1>2, <1>3

\* What all steps of the child leave alone.
ChildOnly == UNCHANGED <<stdio, open_before, signal_pipe>>

LEMMA SaveLowKeepsChild ==
  ASSUME SpawnTypes, ChildInv, ChildOnly, SaveLow
  PROVE  ChildInv'
<1> DEFINE use == child_pipes[child_slot][2]
<1>0. /\ Slots' = Slots /\ stdio_count' = stdio_count /\ \A i : Asked(i)' = Asked(i)
      /\ stdio_count \in Nat /\ stdio_count >= 3 /\ Slots = 0..(stdio_count - 1)
  BY SlotsStand, SlotFacts DEF ChildOnly, SpawnTypes
<1>1. /\ child_at = "low" /\ child_slot \in Slots /\ child_slot \in Nat
      /\ DOMAIN child \subseteq 0..LastFd /\ child_pipes \in [Slots -> Int \X Int]
      /\ \A i \in Slots : ~IsPlaced(i) /\ UseSound(i)
      /\ \A n \in DOMAIN child : child[n][1] = "old" \/ n \in cloexec
      /\ ~ErrorInTheWay => Has(child, signal_pipe[2], SignalEnd(1))
      /\ \A i \in Slots : i \in Nat
  BY <1>0 DEF ChildInv, SaveLow, IsPlaced
<1>2. use \in Int /\ UseSound(child_slot) /\ Use(child_slot) = use
  BY <1>1 DEF Use
<1>3. ErrorInTheWay' <=> ErrorInTheWay
  BY <1>0 DEF ErrorInTheWay, ChildOnly
<1>4. CASE /\ ~IsLow(use, child_slot)
           /\ child_slot' = child_slot + 1 /\ UNCHANGED <<child, cloexec, child_pipes, child_at, told, nonblocking>>
  <2>1. ModesKept'
    BY <1>4, ModesStand DEF ChildInv, ChildOnly
  <2>2. \A i \in Slots : ~IsPlaced(i)'
    BY <1>1, <1>4 DEF IsPlaced
  <2>3. ASSUME NEW i \in Slots PROVE UseSound(i)'
    <3>1. Use(i)' = Use(i)
      BY <1>4 DEF Use
    <3>2. i < child_slot' => Use(i) < 0 \/ Use(i) >= i
      <4>1. CASE i = child_slot
        BY <4>1, <1>2, <1>4, <1>1 DEF IsLow
      <4>2. CASE i # child_slot
        BY <4>2, <1>1, <1>4 DEF UseSound
      <4> QED BY <4>1, <4>2
    <3> QED BY <3>1, <3>2, <1>0, <1>1, <1>4 DEF UseSound, NotOpen
  <2>4. child_slot' \in 0..stdio_count
    BY <1>0, <1>1, <1>4
  <2> QED BY <1>0, <1>1, <1>3, <1>4, <2>1, <2>2, <2>3, <2>4 DEF ChildInv, ChildHasItsStdio, Has, SignalEnd, ChildOnly
<1>5. ASSUME NEW n \in Free(child, stdio_count), IsLow(use, child_slot), use \in DOMAIN child,
             child' = With(child, n, child[use]), cloexec' = cloexec \cup {n},
             child_pipes' = [child_pipes EXCEPT ![child_slot][2] = n],
             child_slot' = child_slot + 1, UNCHANGED <<child_at, told, nonblocking>>
      PROVE ChildInv'
  <2>1. ModesKept'
    BY <1>5, ModesStand DEF ChildInv, ChildOnly
  <2>2. \A i \in Slots : ~IsPlaced(i)'
    BY <1>1, <1>5 DEF IsPlaced
  <2>3. n \in stdio_count..LastFd /\ n \notin DOMAIN child /\ n \in Int
    BY <1>0, TableFacts
  <2>4. /\ DOMAIN child' = DOMAIN child \cup {n} /\ child'[n] = child[use]
        /\ \A k \in DOMAIN child : child'[k] = child[k]
    BY <1>5, <2>3 DEF With
  <2>5. /\ child_pipes' \in [Slots -> Int \X Int]
        /\ \A i \in Slots : Use(i)' = IF i = child_slot THEN n ELSE Use(i)
    BY <1>1, <1>5, <2>3 DEF Use
  <2>6. ASSUME NEW i \in Slots PROVE UseSound(i)'
    <3>1. CASE i = child_slot
      <4>1. Asked(i) = {child[use]}
        BY <1>2, <1>5, <3>1, <1>1 DEF UseSound, IsLow
      <4>2. Use(i)' = n /\ n >= 0 /\ n >= i /\ n \in DOMAIN child'
        BY <3>1, <2>3, <2>4, <2>5, <1>0, <1>1
      <4> QED BY <4>1, <4>2, <2>3, <2>4, <1>0 DEF UseSound, NotOpen
    <3>2. CASE i # child_slot
      <4>0. Use(i)' = Use(i) /\ child_slot' = child_slot + 1 /\ i \in Nat /\ child_slot \in Nat /\ child_at' = child_at
        BY <3>2, <2>5, <1>1, <1>5
      <4>1. i < child_slot' => i < child_slot
        BY <3>2, <4>0
      <4>2. Use(i) \in DOMAIN child' /\ Use(i) # n => Use(i) \in DOMAIN child /\ child'[Use(i)] = child[Use(i)]
        BY <2>4
      <4>3. Use(i) >= 0 => Use(i) # n
        BY <1>1, <2>3, SpawnAssumption DEF UseSound, NotOpen
      <4> QED BY <4>0, <4>1, <4>2, <4>3, <2>4, <1>0, <1>1 DEF UseSound, NotOpen
    <3> QED BY <3>1, <3>2
  <2>7. child_slot' \in 0..stdio_count
    BY <1>0, <1>1, <1>5
  <2>8. DOMAIN child' \subseteq 0..LastFd
    BY <2>3, <2>4, <1>0, <1>1
  <2>9. \A k \in DOMAIN child' : child'[k][1] = "old" \/ k \in cloexec'
    BY <2>4, <1>1, <1>5
  <2>10. ~ErrorInTheWay => Has(child', signal_pipe'[2], SignalEnd(1))
    BY <2>4, <1>1, <2>3 DEF Has, ChildOnly
  <2> QED BY <1>0, <1>1, <1>3, <1>5, <2>1, <2>2, <2>5, <2>6, <2>7, <2>8, <2>9, <2>10
             DEF ChildInv, ChildHasItsStdio, Has, SignalEnd, ChildOnly
<1>6. CASE ChildFails
  <2>1. child_at' \in {"exited", "reaped"} /\ nonblocking \subseteq nonblocking'
    BY <1>6 DEF ChildFails
  <2> QED BY <2>1, ChildStands DEF ChildOnly
<1> QED BY <1>4, <1>5, <1>6 DEF SaveLow

LEMMA LowSavedKeepsChild ==
  ASSUME SpawnTypes, ChildInv, ChildOnly, LowSaved
  PROVE  ChildInv'
<1>0. /\ Slots' = Slots /\ stdio_count' = stdio_count /\ \A i : Asked(i)' = Asked(i)
      /\ stdio_count \in Nat /\ stdio_count >= 3 /\ Slots = 0..(stdio_count - 1)
  BY SlotsStand, SlotFacts DEF ChildOnly, SpawnTypes
<1>1. /\ child_at = "low" /\ child_slot = stdio_count /\ child_at' = "place" /\ child_slot' = 0
      /\ UNCHANGED <<child, cloexec, child_pipes, told, nonblocking>>
  BY DEF LowSaved
<1>2. \A i \in Slots : ~IsPlaced(i) /\ ~IsPlaced(i)' /\ UseSound(i) /\ Use(i)' = Use(i) /\ i < child_slot
  BY <1>0, <1>1 DEF IsPlaced, Use, ChildInv
<1>3. ModesKept'
  BY <1>1, ModesStand DEF ChildInv, ChildOnly
<1>4. \A i \in Slots : UseSound(i)'
  BY <1>0, <1>1, <1>2 DEF UseSound, NotOpen
<1>5. ErrorInTheWay' <=> ErrorInTheWay
  BY <1>0 DEF ErrorInTheWay, ChildOnly
<1> QED BY SMTT(30), <1>0, <1>1, <1>2, <1>3, <1>4, <1>5 DEF ChildInv, ChildHasItsStdio, Has, SignalEnd, ChildOnly, DevNull, End

\* A slot is put into its place: the numbers that later slots use are not
\* overwritten, because low ones were saved.
LEMMA PlacingKeepsChild ==
  ASSUME SpawnTypes, ChildInv, ChildOnly, child_at = "place", child_slot < stdio_count,
         child_slot <= LastFd, NEW f,
         \/ Asked(child_slot) = {f}
         \/ Asked(child_slot) = {} /\ child_slot < 3 /\ f = DevNull,
         child' = With(child, child_slot, f), cloexec' = cloexec \ {child_slot},
         child_slot' = child_slot + 1, UNCHANGED <<child_pipes, child_at>>,
         nonblocking' \in {nonblocking, nonblocking \ {f}}
  PROVE  ChildInv'
<1>0. /\ Slots' = Slots /\ stdio_count' = stdio_count /\ \A i : Asked(i)' = Asked(i)
      /\ stdio_count \in Nat /\ stdio_count >= 3 /\ Slots = 0..(stdio_count - 1)
      /\ \A i \in Slots : Asked(i) = {} \/ Asked(i) = {End(i, 1)} \/ \E n : Asked(i) = {Old(n)}
  BY SlotsStand, SlotFacts DEF ChildOnly, SpawnTypes
<1>1. /\ child_slot \in Slots /\ child_slot \in Nat
      /\ DOMAIN child \subseteq 0..LastFd /\ child_pipes \in [Slots -> Int \X Int]
      /\ \A i \in Slots : ~IsPlaced(i) => UseSound(i)
      /\ \A i \in Slots : IsPlaced(i) => PlaceSound(i)
      /\ \A n \in DOMAIN child :
           child[n][1] = "old" \/ n \in cloexec \/ (n \in Slots /\ IsPlaced(n) /\ child[n] \in {DevNull, End(n, 1)})
      /\ ~ErrorInTheWay => Has(child, signal_pipe[2], SignalEnd(1))
      /\ \A i \in Slots : i \in Nat
  BY SMTT(30), <1>0 DEF ChildInv
<1>2. ErrorInTheWay' <=> ErrorInTheWay
  BY <1>0 DEF ErrorInTheWay, ChildOnly
<1>3. /\ DOMAIN child' = DOMAIN child \cup {child_slot} /\ child'[child_slot] = f
      /\ \A k \in DOMAIN child : k # child_slot => child'[k] = child[k]
  BY DEF With
<1>4. \A i \in Slots : (IsPlaced(i) <=> i < child_slot) /\ (IsPlaced(i)' <=> i = child_slot \/ IsPlaced(i))
  BY SMTT(30), <1>0, <1>1 DEF IsPlaced
<1>5. ModesKept'
  <2>1. \A n \in open_before : Old(n) \in nonblocking => Old(n) \in nonblocking' \/ Old(n) = f
    OBVIOUS
  <2>2. \A n : Old(n) = f => f \in Asked(child_slot)
    BY FileKinds
  <2> QED BY <2>1, <2>2, <1>1, ModesStand DEF ChildInv, ChildOnly
<1>6. ASSUME NEW i \in Slots, IsPlaced(i)' PROVE PlaceSound(i)'
  <2>1. CASE i = child_slot
    <3>1. i \in DOMAIN child' /\ i \notin cloexec' /\ child'[i] = f
      BY <2>1, <1>3
    <3>2. (\A g \in Asked(i) : g = f) /\ (Asked(i) = {} /\ i < 3 => f = DevNull)
      BY <2>1
    <3> QED BY <3>1, <3>2, <1>0 DEF PlaceSound, DevNull
  <2>2. CASE i # child_slot
    <3>1. PlaceSound(i)
      BY <2>2, <1>1, <1>4, <1>6
    <3>2. i \in DOMAIN child => child'[i] = child[i]
      BY <2>2, <1>3
    <3>3. Asked(i)' = Asked(i) /\ DevNull' = DevNull
      BY <1>0 DEF DevNull
    <3>4. i \in DOMAIN child => i \in DOMAIN child'
      BY <1>3
    <3>5. \A g \in Asked(i) : i \in DOMAIN child /\ child[i] = g
      BY <3>1 DEF PlaceSound
    <3> QED BY <3>1, <3>2, <3>3, <3>4, <3>5 DEF PlaceSound
  <2> QED BY <2>1, <2>2
<1>7. ASSUME NEW i \in Slots, ~IsPlaced(i)' PROVE UseSound(i)'
  <2>1. ~IsPlaced(i) /\ ~(i < child_slot) /\ i # child_slot
    BY <1>4, <1>7
  <2>2. UseSound(i) /\ i > child_slot
    BY <2>1, <1>1
  <2>3. Use(i)' = Use(i)
    BY DEF Use
  <2>4. Use(i) >= 0 => Use(i) # child_slot
    <3>1. Use(i) \in Int /\ i \in Nat
      BY <1>1 DEF Use
    <3>2. Use(i) < 0 \/ Use(i) >= i
      BY <2>2 DEF UseSound
    <3> QED BY <2>2, <3>1, <3>2, <1>1
  <2>5. Use(i) \in DOMAIN child' /\ Use(i) # child_slot => Use(i) \in DOMAIN child /\ child'[Use(i)] = child[Use(i)]
    BY <1>3
  <2> QED BY <2>5, <2>2, <2>3, <2>4, <1>0, <1>3 DEF UseSound, NotOpen
<1>8. ASSUME NEW n \in DOMAIN child'
      PROVE  \/ child'[n][1] = "old" \/ n \in cloexec'
             \/ n \in Slots /\ IsPlaced(n)' /\ child'[n] \in {DevNull, End(n, 1)}
  <2>1. CASE n = child_slot
    <3>1. f \in {DevNull, End(n, 1)} \/ \E m : f = Old(m)
      BY <2>1, <1>0, <1>1
    <3> QED BY <3>1, <2>1, <1>1, <1>3, <1>4, FileKinds
  <2>2. CASE n # child_slot
    BY <2>2, <1>1, <1>3, <1>4
  <2> QED BY <2>1, <2>2
<1>9. ~ErrorInTheWay => Has(child', signal_pipe'[2], SignalEnd(1))
  BY <1>0, <1>1, <1>3 DEF Has, ChildOnly, ErrorInTheWay
<1>10. child_slot' \in 0..stdio_count /\ DOMAIN child' \subseteq 0..LastFd
  <2>1. child_slot \in 0..LastFd
    BY <1>1, SpawnAssumption
  <2> QED BY SMTT(30), <2>1, <1>0, <1>1, <1>3
<1> QED BY <1>0, <1>1, <1>2, <1>5, <1>6, <1>7, <1>8, <1>9, <1>10
           DEF ChildInv, ChildHasItsStdio, Has, SignalEnd, ChildOnly, DevNull, End

LEMMA PlaceKeepsChild ==
  ASSUME SpawnTypes, ChildInv, ChildOnly, Place
  PROVE  ChildInv'
<1> DEFINE use == child_pipes[child_slot][2]
<1>0. /\ Slots' = Slots /\ stdio_count' = stdio_count /\ \A i : Asked(i)' = Asked(i)
      /\ stdio_count \in Nat /\ stdio_count >= 3 /\ Slots = 0..(stdio_count - 1)
  BY SlotsStand, SlotFacts DEF ChildOnly, SpawnTypes
<1>1. /\ child_at = "place" /\ child_slot < stdio_count
      /\ child_slot \in Slots /\ child_slot \in Nat
      /\ DOMAIN child \subseteq 0..LastFd /\ child_pipes \in [Slots -> Int \X Int]
      /\ \A i \in Slots : ~IsPlaced(i) => UseSound(i)
      /\ \A i \in Slots : IsPlaced(i) => PlaceSound(i)
      /\ \A n \in DOMAIN child :
           child[n][1] = "old" \/ n \in cloexec \/ (n \in Slots /\ IsPlaced(n) /\ child[n] \in {DevNull, End(n, 1)})
      /\ ~ErrorInTheWay => Has(child, signal_pipe[2], SignalEnd(1))
      /\ \A i \in Slots : i \in Nat
  BY SMTT(30), <1>0 DEF ChildInv, Place
<1>2. \A i \in Slots : IsPlaced(i) <=> i < child_slot
  BY <1>0, <1>1 DEF IsPlaced
<1>3. use \in Int /\ UseSound(child_slot) /\ Use(child_slot) = use
  BY <1>1, <1>2 DEF Use
<1>4. CASE /\ use < 0 /\ child_slot >= 3
           /\ child_slot' = child_slot + 1
           /\ UNCHANGED <<child, cloexec, child_pipes, child_at, told, nonblocking>>
  <2>1. ModesKept'
    BY <1>4, ModesStand DEF ChildInv, ChildOnly
  <2>2. \A i \in Slots : IsPlaced(i)' <=> i = child_slot \/ IsPlaced(i)
    BY <1>0, <1>1, <1>2, <1>4 DEF IsPlaced
  <2>3. Asked(child_slot) = {}
    BY <1>3, <1>4 DEF UseSound
  <2>4. ASSUME NEW i \in Slots, IsPlaced(i)' PROVE PlaceSound(i)'
    <3>1. PlaceSound(i)
      <4>1. CASE i = child_slot
        BY <4>1, <2>3, <1>4, <1>1 DEF PlaceSound
      <4>2. CASE i # child_slot
        BY <4>2, <2>2, <2>4, <1>1
      <4> QED BY <4>1, <4>2
    <3> QED BY <3>1, <1>0, <1>4 DEF PlaceSound, DevNull
  <2>5. ASSUME NEW i \in Slots, ~IsPlaced(i)' PROVE UseSound(i)'
    <3>1. UseSound(i)
      BY <2>5, <2>2, <1>1
    <3> QED BY <3>1, <1>0, <1>1, <1>4 DEF UseSound, Use, NotOpen
  <2>6. child_slot' \in 0..stdio_count
    BY SMTT(30), <1>0, <1>1, <1>4
  <2>7. ErrorInTheWay' <=> ErrorInTheWay
    BY <1>0 DEF ErrorInTheWay, ChildOnly
  <2>8. \A n \in DOMAIN child' :
          \/ child'[n][1] = "old" \/ n \in cloexec'
          \/ n \in Slots /\ IsPlaced(n)' /\ child'[n] \in {DevNull, End(n, 1)}
    BY <1>1, <1>4, <2>2
  <2> QED BY <1>0, <1>1, <1>4, <2>1, <2>4, <2>5, <2>6, <2>7, <2>8
             DEF ChildInv, ChildHasItsStdio, Has, SignalEnd, ChildOnly, DevNull, End
<1>5. CASE /\ use < 0 /\ child_slot < 3 /\ PlaceNull(child_slot)
           /\ child_slot' = child_slot + 1 /\ UNCHANGED <<child_pipes, child_at, told, nonblocking>>
  <2> DEFINE closed == Without(child, {child_slot})
  <2>1. PICK n \in Free(closed, 0) :
          /\ child' = With(With(closed, n, DevNull), child_slot, DevNull)
          /\ cloexec' = cloexec \ {n, child_slot}
    BY <1>5 DEF PlaceNull
  <2>2. DOMAIN closed = DOMAIN child \ {child_slot} /\ \A k \in DOMAIN closed : closed[k] = child[k]
    BY DEF Without
  <2>3. n \in 0..LastFd /\ n \notin DOMAIN closed /\ \A j \in 0..(n - 1) : j \in DOMAIN closed
    BY DEF Free
  <2>4. n = child_slot
    <3>1. ~(child_slot < n)
      <4>1. child_slot < n => child_slot \in 0..(n - 1)
        BY <1>1, <2>3
      <4> QED BY <4>1, <2>2, <2>3
    <3>2. ~(n < child_slot)
      <4>1. ASSUME n < child_slot PROVE n \in DOMAIN child /\ n # child_slot
        <5>1. n \in Slots /\ n < 3 /\ n # child_slot
          BY <4>1, <1>5, <1>0, <1>1, <2>3
        <5>2. PlaceSound(n)
          BY <5>1, <4>1, <1>1, <1>2
        <5> QED BY <5>1, <5>2 DEF PlaceSound
      <4> QED BY <4>1, <2>2, <2>3
    <3> QED BY <3>1, <3>2, <1>1, <2>3
  <2>5. child' = With(child, child_slot, DevNull) /\ cloexec' = cloexec \ {child_slot}
    <3>1. With(With(closed, child_slot, DevNull), child_slot, DevNull) = With(child, child_slot, DevNull)
      BY <2>2 DEF With
    <3> QED BY <3>1, <2>1, <2>4
  <2>6. Asked(child_slot) = {} /\ child_slot <= LastFd
    BY <1>3, <1>5, <2>3, <2>4 DEF UseSound
  <2> QED BY <2>5, <2>6, <1>1, <1>5, PlacingKeepsChild
<1>6. CASE /\ use \in DOMAIN child /\ child_slot <= LastFd
           /\ child' = With(child, child_slot, child[use]) /\ cloexec' = cloexec \ {child_slot}
           /\ nonblocking' = IF child_slot <= 2 THEN nonblocking \ {child[use]} ELSE nonblocking
           /\ child_slot' = child_slot + 1 /\ UNCHANGED <<child_pipes, child_at, told>>
  <2>1. use >= 0
    BY <1>6, <1>1
  <2>2. Asked(child_slot) = {child[use]}
    BY <2>1, <1>6, <1>3 DEF UseSound
  <2>3. nonblocking' \in {nonblocking, nonblocking \ {child[use]}}
    BY <1>6
  <2> QED BY <2>2, <2>3, <1>1, <1>6, PlacingKeepsChild
<1>7. CASE ChildFails
  <2>1. child_at' \in {"exited", "reaped"} /\ nonblocking \subseteq nonblocking'
    BY <1>7 DEF ChildFails
  <2> QED BY <2>1, ChildStands DEF ChildOnly
<1> QED BY <1>4, <1>5, <1>6, <1>7 DEF Place

\* What exec leaves is what was asked for.
LEMMA ExecKeepsChild ==
  ASSUME SpawnTypes, ChildInv, ChildOnly, Exec
  PROVE  ChildInv'
<1>0. /\ Slots' = Slots /\ stdio_count' = stdio_count /\ \A i : Asked(i)' = Asked(i)
      /\ stdio_count \in Nat /\ stdio_count >= 3 /\ Slots = 0..(stdio_count - 1)
  BY SlotsStand, SlotFacts DEF ChildOnly, SpawnTypes
<1>1. CASE ChildFails
  <2>1. child_at' \in {"exited", "reaped"} /\ nonblocking \subseteq nonblocking'
    BY <1>1 DEF ChildFails
  <2> QED BY <2>1, ChildStands DEF ChildOnly
<1>2. CASE /\ child' = Without(child, cloexec) /\ child_at' = "running"
           /\ UNCHANGED <<cloexec, child_pipes, child_slot, told, nonblocking>>
  <2>1. /\ child_at = "place" /\ child_slot = stdio_count
        /\ \A i \in Slots : IsPlaced(i) /\ PlaceSound(i)
    BY <1>0 DEF Exec, ChildInv, IsPlaced
  <2>2. /\ DOMAIN child' = DOMAIN child \ cloexec
        /\ \A k \in DOMAIN child \ cloexec : child'[k] = child[k]
    BY <1>2 DEF Without
  <2>3. ModesKept'
    BY <1>2, ModesStand DEF ChildInv, ChildOnly
  <2>4. ASSUME NEW i \in Slots
        PROVE  /\ \A f \in Asked(i) : i \in DOMAIN child' /\ child'[i] = f
               /\ (Asked(i) = {} /\ i < 3) => i \in DOMAIN child' /\ child'[i] = DevNull
    BY <2>1, <2>2 DEF PlaceSound
  <2>5. \A n \in DOMAIN child' : child'[n][1] # "old" /\ child'[n] # DevNull => child'[n] = End(n, 1)
    BY <2>1, <2>2 DEF ChildInv
  <2> QED BY <1>0, <1>2, <2>3, <2>4, <2>5 DEF ChildInv, ChildHasItsStdio, DevNull, End
<1> QED BY <1>1, <1>2 DEF Exec

\* A step of the child as a whole.
LEMMA ChildStepKeepsInv ==
  ASSUME ForkInv, ChildStep
  PROVE  ForkInv'
<1>1. /\ stdio' = stdio /\ open_before' = open_before /\ signal_pipe' = signal_pipe
      /\ UNCHANGED <<files, pipes, stream_fd, spawn_at, slot, exec_errorno, spawn_result, spawn_active, misclosed>>
      /\ SaveLow \/ LowSaved \/ Place \/ Exec
  BY DEF ChildStep, parentVars
<1>2. /\ Slots' = Slots /\ StreamTaken' = StreamTaken
      /\ \A i : (IsPipe(i)' <=> IsPipe(i)) /\ (Inherits(i)' <=> Inherits(i)) /\ Asked(i)' = Asked(i)
      /\ ErrorInTheWay' = ErrorInTheWay
  BY <1>1, SlotsStand DEF ErrorInTheWay
<1>3. ChildInv'
  BY <1>1, SaveLowKeepsChild, LowSavedKeepsChild, PlaceKeepsChild, ExecKeepsChild DEF ForkInv, ChildOnly
<1>4. SpawnTypes'
  BY <1>1, <1>2 DEF ForkInv, SpawnTypes, NotOpen
<1>5. ParentInv'
  <2>1. ASSUME NEW i \in Slots
        PROVE  /\ SlotSound(i) => SlotSound(i)'
               /\ SlotToUndo(i) => SlotToUndo(i)'
    BY <1>1, <1>2 DEF SlotSound, SlotToUndo, InitDone, IsOpened, Has, End
  <2>2. \A m : Accounted(m) => Accounted(m)'
    BY <1>1, <1>2 DEF Accounted, Old, End, SignalEnd
  <2>3. ParentKeepsItsOwn => ParentKeepsItsOwn'
    BY <1>1 DEF ParentKeepsItsOwn, Old
  <2>4. \A s \in Pipes : \A j \in Slots : IsOpened(j)' <=> IsOpened(j)
    BY <1>1 DEF IsOpened
  <2> QED BY <1>1, <1>2, <2>1, <2>2, <2>3, <2>4 DEF ForkInv, ParentInv, Has, End, SignalEnd
<1>6. /\ child_at \in {"low", "place"} /\ child_at' \in {"low", "place", "running", "exited"}
      /\ \/ told' = told /\ child_at' # "exited"
         \/ told' \in {told, ERROR} /\ child_at' = "exited"
            /\ (signal_pipe[2] \in DOMAIN child /\ child[signal_pipe[2]] = SignalEnd(1) => told' = ERROR)
  BY <1>1 DEF SaveLow, LowSaved, Place, Exec, ChildFails, PlaceNull
<1>7. ResultInv'
  BY <1>1, <1>2, <1>6 DEF ForkInv, ResultInv, ChildInv, Has, ERROR, Preparing
<1> QED BY <1>3, <1>4, <1>5, <1>7 DEF ForkInv

-----------------------------------------------------------------------------
(* The parent.                                                              *)

LEMMA SpawnInvInit == ASSUME SpawnInit PROVE ForkInv \/ way # "fork"
<1>1. stdio \in Seq(Containers)
  <2>1. PICK n \in 0..MaxStdio : stdio \in [1..n -> Containers]
    BY DEF SpawnInit
  <2>2. n \in Nat
    BY <2>1
  <2> QED BY <2>1, <2>2, SeqDef
<1>2. /\ Len(stdio) \in Nat /\ Slots = 0..(stdio_count - 1) /\ stdio_count \in Nat /\ stdio_count >= 3
      /\ \A i \in Slots : i \in Nat /\ (IsPipe(i) \/ Inherits(i) => i < Len(stdio))
  BY <1>1, SlotFacts
<1>3. open_before \subseteq 0..LastFd
  BY SpawnAssumption DEF SpawnInit
<1>4. /\ DOMAIN files = open_before /\ \A n \in open_before : files[n] = Old(n)
      /\ pipes = [i \in Slots |-> <<-1, -1>>]
      /\ slot = 0 /\ spawn_at = "init_stdio" /\ signal_pipe = <<-1, -1>>
  BY DEF SpawnInit
<1>5. SpawnTypes
  <2>1. stream_fd \in [Pipes -> Int]
    BY SpawnAssumption DEF SpawnInit, NotOpen
  <2>2. pipes \in [Slots -> Int \X Int] /\ slot \in 0..Len(stdio) /\ signal_pipe \in Int \X Int
    BY <1>2, <1>4
  <2> QED BY <1>1, <1>3, <1>4, <2>1, <2>2 DEF SpawnInit, SpawnTypes, Preparing
<1>6. ParentInv
  <2>1. \A i \in Slots : ~InitDone(i) /\ SlotSound(i)
    BY <1>2, <1>4 DEF SlotSound, InitDone
  <2>2. ParentKeepsItsOwn
    BY <1>4 DEF SpawnInit, ParentKeepsItsOwn
  <2>3. \A s \in Pipes : stream_fd[s] # -1 => s \in InUse
    BY DEF SpawnInit
  <2> QED BY <1>4, <2>1, <2>2, <2>3 DEF ParentInv, Accounted
<1>7. ChildInv
  <2>1. ModesKept
    BY <1>3, SpawnAssumption DEF ModesKept, SpawnInit
  <2> QED BY <2>1 DEF SpawnInit, ChildInv, ChildHasItsStdio
<1>8. ResultInv
  BY DEF SpawnInit, ResultInv, ERROR, Preparing
<1> QED BY <1>5, <1>6, <1>7, <1>8 DEF ForkInv

\* One slot more is done; the numbers it took were free.
LEMMA InitSlotKeepsParent ==
  ASSUME SpawnTypes, ParentInv, spawn_at = "init_stdio", slot < Len(stdio), NEW p \in Int \X Int,
         UNCHANGED <<stdio, open_before, stream_fd, spawn_at, signal_pipe, misclosed>>, slot' = slot + 1,
         pipes' = [pipes EXCEPT ![slot] = p],
         DOMAIN files \subseteq DOMAIN files', DOMAIN files' \subseteq 0..LastFd,
         \A m \in DOMAIN files : files'[m] = files[m],
         \A m \in DOMAIN files' \ DOMAIN files :
           IsPipe(slot) /\ (\/ p[1] = m /\ files'[m] = End(slot, 0)
                            \/ p[2] = m /\ files'[m] = End(slot, 1)),
         IsPipe(slot) => Has(files', p[1], End(slot, 0)) /\ Has(files', p[2], End(slot, 1)),
         Inherits(slot) => p = <<-1, stdio[slot + 1].of>> /\ stdio[slot + 1].of # -1,
         ~IsPipe(slot) /\ ~Inherits(slot) => p = <<-1, -1>>
  PROVE  SpawnTypes' /\ ParentInv'
<1>0. /\ Slots' = Slots /\ StreamTaken' = StreamTaken
      /\ \A i : (IsPipe(i)' <=> IsPipe(i)) /\ (Inherits(i)' <=> Inherits(i))
      /\ Len(stdio) \in Nat /\ slot \in Slots /\ slot \in Nat
      /\ \A i \in Slots : i \in Nat
  <2>1. stdio \in Seq(Containers) /\ slot \in Nat
    BY DEF SpawnTypes
  <2> QED BY <2>1, SlotsStand, SlotFacts
<1>1. pipes' \in [Slots -> Int \X Int] /\ pipes'[slot] = p /\ \A i \in Slots : i # slot => pipes'[i] = pipes[i]
  BY <1>0 DEF SpawnTypes
<1>2. SpawnTypes'
  <2>1. slot' \in 0..Len(stdio)
    BY <1>0
  <2> QED BY <1>0, <1>1, <2>1 DEF SpawnTypes, NotOpen
<1>3. ASSUME NEW i \in Slots PROVE SlotSound(i)'
  <2>1. (InitDone(i)' <=> i = slot \/ InitDone(i)) /\ ~IsOpened(i) /\ ~IsOpened(i)' /\ ~InitDone(slot)
    BY <1>0 DEF InitDone, IsOpened
  <2>2. CASE i = slot
    <3>1. pipes'[i] = p /\ (IsPipe(i)' <=> IsPipe(i)) /\ (Inherits(i)' <=> Inherits(i))
      BY <2>2, <1>0, <1>1
    <3>2. ~(IsPipe(i) /\ Inherits(i))
      BY DEF IsPipe, Inherits
    <3> QED BY <2>1, <2>2, <3>1, <3>2 DEF SlotSound, Has, End
  <2>3. CASE i # slot
    <3>1. /\ pipes'[i] = pipes[i] /\ (InitDone(i)' <=> InitDone(i))
          /\ (IsPipe(i)' <=> IsPipe(i)) /\ (Inherits(i)' <=> Inherits(i))
      BY <2>3, <2>1, <1>0, <1>1
    <3>2. SlotSound(i)
      BY DEF ParentInv, Preparing
    <3> QED BY <3>1, <3>2, <2>1 DEF SlotSound, Has, End
  <2> QED BY <2>2, <2>3
<1>4. ASSUME NEW m \in DOMAIN files' PROVE Accounted(m)'
  <2>1. CASE m \in DOMAIN files
    <3>1. Accounted(m) /\ files'[m] = files[m]
      BY <2>1 DEF ParentInv
    <3>2. CASE m \in open_before /\ files[m] = Old(m)
      BY <3>1, <3>2 DEF Accounted, Old
    <3>3. ASSUME NEW i \in Slots, IsPipe(i),
                 (pipes[i][1] = m /\ files[m] = End(i, 0)) \/ (pipes[i][2] = m /\ files[m] = End(i, 1))
          PROVE  Accounted(m)'
      <4>1. i # slot
        <5>1. SlotSound(slot) /\ ~InitDone(slot)
          BY <1>0 DEF ParentInv, Preparing, InitDone
        <5>2. pipes[slot] = <<-1, -1>>
          BY <5>1 DEF SlotSound
        <5>3. m \in Nat
          BY <2>1 DEF SpawnTypes
        <5> QED BY <5>2, <5>3, <3>3
      <4> QED BY <4>1, <3>1, <3>3, <1>0, <1>1 DEF Accounted, End
    <3> QED BY <3>1, <3>2, <3>3 DEF Accounted
  <2>2. CASE m \notin DOMAIN files
    BY <2>2, <1>0, <1>1 DEF Accounted, End
  <2> QED BY <2>1, <2>2
<1>5. ParentKeepsItsOwn'
  BY DEF ParentInv, Preparing, ParentKeepsItsOwn, Old
<1>6. \A s \in Pipes : stream_fd[s] # -1 => s \in InUse
  BY DEF ParentInv, Preparing, IsOpened
<1> QED BY <1>0, <1>2, <1>3, <1>4, <1>5, <1>6 DEF ParentInv

LEMMA InitStdioKeepsInv == ASSUME ForkInv, InitStdio PROVE ForkInv'
<1> USE DEF ForkInv
<1> DEFINE c == stdio[slot + 1]
<1>0. /\ Slots' = Slots /\ StreamTaken' = StreamTaken
      /\ \A i : (IsPipe(i)' <=> IsPipe(i)) /\ (Inherits(i)' <=> Inherits(i))
      /\ slot \in Slots /\ slot \in Nat /\ slot < Len(stdio)
      /\ c \in Containers /\ c.kind \in {"ignore", "pipe", "inherit"}
      /\ (IsPipe(slot) <=> c.kind = "pipe") /\ (Inherits(slot) <=> c.kind = "inherit")
  <2>1. stdio \in Seq(Containers) /\ slot \in Nat /\ stdio' = stdio /\ slot < Len(stdio)
    BY DEF SpawnTypes, InitStdio
  <2>2. slot \in Slots /\ slot + 1 \in 1..Len(stdio) /\ c \in Containers
    BY <2>1, SlotFacts
  <2> QED BY <2>1, <2>2, SlotsStand DEF Containers, IsPipe, Inherits
<1>1. /\ spawn_at = "init_stdio" /\ UNCHANGED <<stdio, open_before, stream_fd, signal_pipe, misclosed, spawn_active>>
      /\ UNCHANGED <<nonblocking, childVars>> /\ child_at = "none"
  BY DEF InitStdio, ResultInv
<1>2. ChildInv'
  BY <1>1, ChildStands DEF childVars
<1>3. ErrorInTheWay' = ErrorInTheWay /\ UNCHANGED <<told, child_at>>
  BY <1>0, <1>1 DEF ErrorInTheWay, childVars
<1>4. ASSUME spawn_at' = spawn_at, UNCHANGED <<exec_errorno, spawn_result>> PROVE ResultInv'
  BY <1>1, <1>3, <1>4 DEF ResultInv, Preparing
<1>5. pipes[slot] = <<-1, -1>> /\ pipes \in [Slots -> Int \X Int]
  <2>1. SlotSound(slot) /\ ~InitDone(slot)
    BY <1>0, <1>1 DEF ParentInv, Preparing, InitDone
  <2> QED BY <2>1 DEF SlotSound, SpawnTypes
<1>6. CASE c.kind = "ignore" /\ slot' = slot + 1 /\ UNCHANGED <<files, pipes, spawn_at, exec_errorno, spawn_result>>
  <2>1. pipes' = [pipes EXCEPT ![slot] = <<-1, -1>>]
    BY <1>5, <1>6
  <2>2. ~IsPipe(slot) /\ ~Inherits(slot) /\ <<-1, -1>> \in Int \X Int /\ DOMAIN files \subseteq 0..LastFd
    BY <1>0, <1>6 DEF SpawnTypes
  <2>3. SpawnTypes' /\ ParentInv'
    BY <1>0, <1>1, <1>6, <2>1, <2>2, InitSlotKeepsParent
  <2> QED BY <1>2, <1>4, <1>6, <2>3
<1>7. CASE /\ c.kind = "inherit" /\ c.of # -1
           /\ pipes' = [pipes EXCEPT ![slot] = <<-1, c.of>>] /\ slot' = slot + 1
           /\ UNCHANGED <<files, spawn_at, exec_errorno, spawn_result>>
  <2>1. ~IsPipe(slot) /\ Inherits(slot) /\ DOMAIN files \subseteq 0..LastFd
    BY <1>0, <1>7 DEF SpawnTypes
  <2>2. <<-1, c.of>> \in Int \X Int
    <3>1. c.of \in Inheritable
      BY <1>0, <1>7 DEF Containers
    <3>2. Inheritable \subseteq Int
      BY SpawnAssumption
    <3>3. c.of \in Int
      BY <3>1, <3>2
    <3> HIDE DEF c
    <3> QED BY <3>3
  <2>3. SpawnTypes' /\ ParentInv'
    BY <1>0, <1>1, <1>7, <2>1, <2>2, InitSlotKeepsParent
  <2> QED BY <1>2, <1>4, <1>7, <2>3
<1>8. ASSUME c.kind = "pipe",
             NEW a \in Free(files, 0), NEW b \in Free(With(files, a, End(slot, 0)), 0),
             files' = With(With(files, a, End(slot, 0)), b, End(slot, 1)),
             pipes' = [pipes EXCEPT ![slot] = <<a, b>>], slot' = slot + 1,
             UNCHANGED <<spawn_at, exec_errorno, spawn_result>>
      PROVE  ForkInv'
  <2>1. IsPipe(slot) /\ ~Inherits(slot) /\ DOMAIN files \subseteq 0..LastFd
    BY <1>0, <1>8 DEF SpawnTypes
  <2>2. a \in 0..LastFd /\ a \notin DOMAIN files
    BY DEF Free
  <2>3. b \in 0..LastFd /\ b \notin DOMAIN files /\ b # a
    BY DEF Free, With
  <2>4. /\ DOMAIN files' = DOMAIN files \cup {a, b} /\ files'[a] = End(slot, 0) /\ files'[b] = End(slot, 1)
        /\ \A m \in DOMAIN files : files'[m] = files[m]
    BY <1>8, <2>2, <2>3 DEF With
  <2>5. <<a, b>> \in Int \X Int /\ <<a, b>>[1] = a /\ <<a, b>>[2] = b
    BY <2>2, <2>3
  <2> DEFINE p == <<a, b>>
  <2>6. /\ DOMAIN files \subseteq DOMAIN files' /\ DOMAIN files' \subseteq 0..LastFd
        /\ \A m \in DOMAIN files' \ DOMAIN files :
             IsPipe(slot) /\ (\/ p[1] = m /\ files'[m] = End(slot, 0)
                              \/ p[2] = m /\ files'[m] = End(slot, 1))
        /\ Has(files', p[1], End(slot, 0)) /\ Has(files', p[2], End(slot, 1))
    BY <2>1, <2>2, <2>3, <2>4, <2>5 DEF Has
  <2>7. p \in Int \X Int /\ pipes' = [pipes EXCEPT ![slot] = p]
    BY <2>5, <1>8
  <2> HIDE DEF p
  <2>8. SpawnTypes' /\ ParentInv'
    BY <1>0, <1>1, <1>8, <2>1, <2>4, <2>6, <2>7, InitSlotKeepsParent
  <2> QED BY <1>2, <1>4, <1>8, <2>8
<1>9. CASE SpawnError("undo", ERROR) /\ UNCHANGED <<files, pipes>>
  <2>1. spawn_at' = "undo" /\ slot' = 0 /\ spawn_result' = ERROR /\ exec_errorno' = exec_errorno
    BY <1>9 DEF SpawnError
  <2>2. SpawnTypes'
    <3>1. slot' \in 0..Len(stdio)
      BY <1>0, <2>1
    <3> QED BY <1>0, <1>1, <1>9, <2>1, <3>1 DEF SpawnTypes, NotOpen, Preparing
  <2>3. ASSUME NEW i \in Slots PROVE SlotToUndo(i)'
    <3>1. SlotSound(i) /\ ~IsOpened(i)
      BY <1>1 DEF ParentInv, Preparing, IsOpened
    <3> QED BY <3>1, <1>0, <1>9 DEF SlotSound, SlotToUndo, Has, End
  <2>4. ASSUME NEW m \in DOMAIN files PROVE Accounted(m)'
    <3>1. Accounted(m)
      BY <1>1 DEF ParentInv
    <3> QED BY <3>1, <1>0, <1>1, <1>9, <2>1 DEF Accounted, Old, End
  <2>5. ParentKeepsItsOwn'
    BY <1>1, <1>9 DEF ParentInv, Preparing, ParentKeepsItsOwn, Old
  <2>6. ParentInv'
    BY <1>0, <1>1, <1>9, <2>1, <2>3, <2>4, <2>5 DEF ParentInv, Preparing
  <2>7. ResultInv'
    BY <1>1, <1>3, <2>1 DEF ResultInv, Preparing, ERROR
  <2> QED BY <1>2, <2>2, <2>6, <2>7
<1> QED BY <1>6, <1>7, <1>8, <1>9 DEF InitStdio

LEMMA ChooseWayKeepsInv == ASSUME ForkInv, way = "fork", ChooseWay PROVE ForkInv'
<1> USE DEF ForkInv
<1>1. /\ spawn_at = "init_stdio" /\ slot = Len(stdio) /\ spawn_at' = "make_pipe"
      /\ UNCHANGED <<stdio, open_before, nonblocking, childVars, files, pipes, stream_fd, slot, signal_pipe,
                     exec_errorno, spawn_result, spawn_active, misclosed>>
  BY DEF ChooseWay
<1>0. /\ Slots' = Slots /\ StreamTaken' = StreamTaken
      /\ \A i : (IsPipe(i)' <=> IsPipe(i)) /\ (Inherits(i)' <=> Inherits(i))
      /\ \A i \in Slots : IsPipe(i) \/ Inherits(i) => i < Len(stdio)
  BY <1>1, SlotsStand, SlotFacts DEF SpawnTypes
<1>2. ChildInv'
  BY <1>1, ChildStands DEF childVars
<1>3. ErrorInTheWay' = ErrorInTheWay /\ UNCHANGED <<told, child_at>>
  BY <1>0, <1>1 DEF ErrorInTheWay, childVars
<1>4. ResultInv'
  BY <1>1, <1>3 DEF ResultInv, Preparing
<1>5. SpawnTypes'
  BY <1>0, <1>1 DEF SpawnTypes, NotOpen, Preparing
<1>6. ASSUME NEW i \in Slots PROVE SlotSound(i)'
  <2>1. SlotSound(i) /\ ~IsOpened(i) /\ ~IsOpened(i)' /\ (IsPipe(i) \/ Inherits(i) => InitDone(i)) /\ InitDone(i)'
    BY <1>0, <1>1 DEF ParentInv, Preparing, IsOpened, InitDone
  <2> QED BY <2>1, <1>0, <1>1 DEF SlotSound, Has, End
<1>7. ASSUME NEW m \in DOMAIN files PROVE Accounted(m)'
  <2>1. Accounted(m)
    BY <1>1 DEF ParentInv
  <2> QED BY <2>1, <1>0, <1>1 DEF Accounted, Old, End
<1>8. ParentKeepsItsOwn'
  BY <1>1 DEF ParentInv, Preparing, ParentKeepsItsOwn, Old
<1>9. \A s \in Pipes : stream_fd[s] # -1 => s \in InUse
  BY <1>1 DEF ParentInv, Preparing, IsOpened
<1>10. ParentInv'
  BY <1>0, <1>1, <1>6, <1>7, <1>8, <1>9 DEF ParentInv
<1> QED BY <1>2, <1>4, <1>5, <1>10

\* The pipe that reports errors takes numbers that were free.
LEMMA MakePipeKeepsInv == ASSUME ForkInv, MakePipe PROVE ForkInv'
<1> USE DEF ForkInv
<1>1. /\ spawn_at = "make_pipe" /\ child_at = "none"
      /\ UNCHANGED <<stdio, open_before, nonblocking, childVars, pipes, stream_fd, spawn_active, misclosed>>
  BY DEF MakePipe, ResultInv
<1>0. /\ Slots' = Slots /\ StreamTaken' = StreamTaken
      /\ \A i : (IsPipe(i)' <=> IsPipe(i)) /\ (Inherits(i)' <=> Inherits(i))
      /\ \A i \in Slots : i \in Nat /\ (IsPipe(i) \/ Inherits(i) => i < Len(stdio))
      /\ Len(stdio) \in Nat
  BY <1>1, SlotsStand, SlotFacts DEF SpawnTypes
<1>2. ChildInv'
  BY <1>1, ChildStands DEF childVars
<1>3. UNCHANGED <<told, child_at>>
  BY <1>1 DEF childVars
<1>4. \A i \in Slots : SlotSound(i) /\ InitDone(i) /\ ~IsOpened(i)
  BY <1>1 DEF ParentInv, Preparing, IsOpened, InitDone
<1>5. \A s \in Pipes : stream_fd[s] # -1 => s \in InUse
  BY <1>1 DEF ParentInv, Preparing, IsOpened
<1>6. \A m \in DOMAIN files : Accounted(m)
  BY <1>1 DEF ParentInv
<1>7. ASSUME NEW a \in Free(files, 0), NEW b \in Free(With(files, a, SignalEnd(0)), 0),
             files' = With(With(files, a, SignalEnd(0)), b, SignalEnd(1)), signal_pipe' = <<a, b>>,
             spawn_at' = "fork", UNCHANGED <<exec_errorno, spawn_result, slot>>
      PROVE  ForkInv'
  <2>1. a \in 0..LastFd /\ a \notin DOMAIN files
    BY DEF Free
  <2>2. b \in 0..LastFd /\ b \notin DOMAIN files /\ b # a
    BY DEF Free, With
  <2>3. /\ DOMAIN files' = DOMAIN files \cup {a, b} /\ files'[a] = SignalEnd(0) /\ files'[b] = SignalEnd(1)
        /\ \A m \in DOMAIN files : files'[m] = files[m]
    BY <1>7, <2>1, <2>2 DEF With
  <2>4. signal_pipe' \in Int \X Int /\ signal_pipe'[1] = a /\ signal_pipe'[2] = b
    BY <1>7, <2>1, <2>2
  <2>5. SpawnTypes'
    BY <1>0, <1>1, <1>7, <2>1, <2>2, <2>3, <2>4 DEF SpawnTypes, NotOpen, Preparing
  <2>6. ASSUME NEW i \in Slots PROVE SlotSound(i)'
    <3>1. InitDone(i)' /\ ~IsOpened(i)'
      BY <1>7 DEF InitDone, IsOpened
    <3> QED BY <3>1, <1>0, <1>1, <1>4, <2>3 DEF SlotSound, Has, End
  <2>7. ASSUME NEW m \in DOMAIN files' PROVE Accounted(m)'
    <3>1. CASE m \in DOMAIN files
      <4>1. Accounted(m) /\ files'[m] = files[m]
        BY <3>1, <1>6, <2>3
      <4> QED BY <4>1, <1>0, <1>1, <1>7 DEF Accounted, Old, End
    <3>2. CASE m = a
      BY <3>2, <1>7, <2>3, <2>4 DEF Accounted, SignalEnd
    <3>3. CASE m = b
      BY <3>3, <1>7, <2>3, <2>4 DEF Accounted, SignalEnd
    <3> QED BY <3>1, <3>2, <3>3, <2>3
  <2>8. ParentKeepsItsOwn'
    BY <1>1, <2>3 DEF ParentInv, Preparing, ParentKeepsItsOwn, Old
  <2>9. Has(files, signal_pipe[1], SignalEnd(0))' /\ Has(files, signal_pipe[2], SignalEnd(1))'
    BY <2>3, <2>4 DEF Has, SignalEnd
  <2>10. ParentInv'
    BY <1>0, <1>1, <1>5, <1>7, <2>6, <2>7, <2>8, <2>9 DEF ParentInv
  <2>11. ResultInv'
    BY <1>1, <1>3, <1>7 DEF ResultInv, Preparing
  <2> QED BY <1>2, <2>5, <2>10, <2>11
<1>8. CASE SpawnError("open", ERROR) /\ UNCHANGED <<files, signal_pipe>>
  <2>1. spawn_at' = "open" /\ slot' = 0 /\ spawn_result' = ERROR /\ exec_errorno' = ERROR
    BY <1>8 DEF SpawnError
  <2>2. SpawnTypes'
    BY <1>0, <1>1, <1>8, <2>1 DEF SpawnTypes, NotOpen, Preparing
  <2>3. \A i \in Slots : InitDone(i)' /\ ~IsOpened(i)'
    BY <1>0, <2>1 DEF InitDone, IsOpened
  <2>4. ASSUME NEW i \in Slots PROVE SlotSound(i)'
    BY <2>3, <1>0, <1>1, <1>4, <1>8 DEF SlotSound, Has, End
  <2>5. ASSUME NEW m \in DOMAIN files PROVE Accounted(m)'
    <3>1. Accounted(m)
      BY <1>6
    <3> QED BY <3>1, <1>0, <1>1, <1>8, <2>1 DEF Accounted, Old, End
  <2>6. ParentKeepsItsOwn'
    BY <1>1, <1>8 DEF ParentInv, Preparing, ParentKeepsItsOwn, Old
  <2>7. ParentInv'
    BY <1>0, <1>1, <1>5, <1>8, <2>1, <2>4, <2>5, <2>6 DEF ParentInv
  <2>8. ResultInv'
    BY <1>1, <1>3, <2>1 DEF ResultInv, Preparing, ERROR
  <2> QED BY <1>2, <2>2, <2>7, <2>8
<1> QED BY <1>7, <1>8 DEF MakePipe

\* To close the pipe of errors leaves all else.
LEMMA SignalsApart ==
  ASSUME NEW t, NEW ns, \A n \in ns : n \in DOMAIN t => t[n][1] = "signal"
  PROVE  /\ DOMAIN Without(t, ns) = DOMAIN t \ ns
         /\ \A m \in DOMAIN Without(t, ns) : Without(t, ns)[m] = t[m]
         /\ \A m, f : Has(t, m, f) /\ f[1] # "signal" => Has(Without(t, ns), m, f)
BY DEF Has, Without

\* What the child begins with.
LEMMA SpawnForkKeepsInv == ASSUME ForkInv, SpawnFork PROVE ForkInv'
<1> USE DEF ForkInv
<1>1. /\ spawn_at = "fork" /\ child_at = "none"
      /\ UNCHANGED <<stdio, open_before, nonblocking, told, pipes, stream_fd, signal_pipe, spawn_active, misclosed>>
  BY DEF SpawnFork, ResultInv
<1>0. /\ Slots' = Slots /\ StreamTaken' = StreamTaken /\ stdio_count' = stdio_count
      /\ \A i : (IsPipe(i)' <=> IsPipe(i)) /\ (Inherits(i)' <=> Inherits(i)) /\ Asked(i)' = Asked(i)
      /\ \A i \in Slots : i \in Nat /\ (IsPipe(i) \/ Inherits(i) => i < Len(stdio) /\ i + 1 \in 1..Len(stdio))
      /\ \A i \in Slots : IsPipe(i) => Asked(i) = {End(i, 1)}
      /\ \A i \in Slots : Inherits(i) => Asked(i) = {Old(stdio[i + 1].of)}
      /\ \A i \in Slots : ~IsPipe(i) /\ ~Inherits(i) => Asked(i) = {}
      /\ Len(stdio) \in Nat /\ stdio_count \in Nat
  BY <1>1, SlotsStand, SlotFacts DEF SpawnTypes
<1>3. ErrorInTheWay' = ErrorInTheWay
  BY <1>0, <1>1 DEF ErrorInTheWay
<1>4. \A i \in Slots : SlotSound(i) /\ InitDone(i) /\ ~IsOpened(i)
  BY <1>1 DEF ParentInv, Preparing, IsOpened, InitDone
<1>5. \A s \in Pipes : stream_fd[s] # -1 => s \in InUse
  BY <1>1 DEF ParentInv, Preparing, IsOpened
<1>6. \A m \in DOMAIN files : Accounted(m)
  BY <1>1 DEF ParentInv
<1>7. Has(files, signal_pipe[1], SignalEnd(0)) /\ Has(files, signal_pipe[2], SignalEnd(1))
  BY <1>1 DEF ParentInv
<1>8. /\ \A n \in {signal_pipe[2]} : n \in DOMAIN files => files[n][1] = "signal"
      /\ \A n \in {signal_pipe[1], signal_pipe[2]} : n \in DOMAIN files => files[n][1] = "signal"
      /\ signal_pipe[1] # signal_pipe[2]
  BY <1>7, FileKinds DEF Has
<1>9. ParentKeepsItsOwn
  BY <1>1 DEF ParentInv, Preparing
<1>10. ASSUME NEW ns \in {{signal_pipe[2]}, {signal_pipe[1], signal_pipe[2]}}, files' = Without(files, ns),
              spawn_at' \in {"read_result", "open"}, spawn_at' = "open" => slot' = 0,
              spawn_at' = "read_result" => slot' = slot /\ ns = {signal_pipe[2]},
              spawn_at' = "open" => ns = {signal_pipe[1], signal_pipe[2]}
       PROVE  SpawnTypes' /\ ParentInv'
  <2>1. /\ DOMAIN files' = DOMAIN files \ ns /\ \A m \in DOMAIN files' : files'[m] = files[m]
        /\ \A m, f : Has(files, m, f) /\ f[1] # "signal" => Has(files', m, f)
    <3>1. \A n \in ns : n \in DOMAIN files => files[n][1] = "signal"
      BY <1>8
    <3>2. /\ DOMAIN Without(files, ns) = DOMAIN files \ ns
          /\ \A m \in DOMAIN Without(files, ns) : Without(files, ns)[m] = files[m]
          /\ \A m, f : Has(files, m, f) /\ f[1] # "signal" => Has(Without(files, ns), m, f)
      BY <3>1, SignalsApart
    <3> QED BY <3>2, <1>10
  <2>2. SpawnTypes'
    <3>1. slot' \in 0..Len(stdio)
      BY <1>0, <1>10 DEF SpawnTypes
    <3> QED BY <1>0, <1>1, <1>10, <2>1, <3>1 DEF SpawnTypes, NotOpen, Preparing
  <2>3. ASSUME NEW i \in Slots PROVE SlotSound(i)'
    <3>1. InitDone(i)' /\ ~IsOpened(i)'
      BY <1>0, <1>10 DEF InitDone, IsOpened
    <3>2. \A m, k : Has(files, m, End(i, k)) => Has(files', m, End(i, k))
      BY <2>1, FileKinds
    <3>3. \A m, k : Has(files, m, End(i, k))' <=> Has(files', m, End(i, k))
      BY DEF Has, End
    <3> QED BY <3>1, <3>2, <3>3, <1>0, <1>1, <1>4 DEF SlotSound
  <2>4. ASSUME NEW m \in DOMAIN files' PROVE Accounted(m)'
    <3>1. Accounted(m) /\ files'[m] = files[m] /\ m \notin ns
      BY <1>6, <2>1
    <3> QED BY <3>1, <1>0, <1>1, <1>10 DEF Accounted, Old, End, SignalEnd
  <2>5. ParentKeepsItsOwn'
    <3>1. ASSUME NEW n \in open_before PROVE Has(files', n, Old(n))
      BY <1>9, <2>1, FileKinds DEF ParentKeepsItsOwn, Has
    <3> QED BY <3>1, <1>1, <1>9 DEF ParentKeepsItsOwn, Has, Old
  <2>6. spawn_at' = "read_result" => Has(files, signal_pipe[1], SignalEnd(0))'
    BY <1>1, <1>7, <1>8, <1>10, <2>1 DEF Has, SignalEnd
  <2>7. ParentInv'
    BY <1>0, <1>1, <1>5, <1>10, <2>3, <2>4, <2>5, <2>6 DEF ParentInv
  <2> QED BY <2>2, <2>7
<1>11. CASE /\ child' = files /\ cloexec' = {n \in DOMAIN files : files[n][1] # "old"}
            /\ child_pipes' = pipes /\ child_at' = "low" /\ child_slot' = 0
            /\ files' = Without(files, {signal_pipe[2]}) /\ spawn_at' = "read_result"
            /\ UNCHANGED <<slot, exec_errorno, spawn_result>>
  <2>1. SpawnTypes' /\ ParentInv'
    BY <1>10, <1>11
  <2>2. ResultInv'
    BY <1>1, <1>3, <1>11 DEF ResultInv, Preparing
  <2>3. ModesKept'
    BY <1>1, ModesStand DEF ChildInv
  <2>4. \A i \in Slots : ~IsPlaced(i)'
    BY <1>0, <1>11 DEF IsPlaced
  <2>5. ASSUME NEW i \in Slots PROVE UseSound(i)'
    <3>1. Use(i)' = pipes[i][2] /\ ~(i < child_slot') /\ child_at' = "low" /\ Asked(i)' = Asked(i) /\ child' = files
      BY <1>0, <1>11 DEF Use
    <3>2. CASE IsPipe(i)
      <4>1. Has(files, pipes[i][2], End(i, 1)) /\ Asked(i) = {End(i, 1)}
        BY <3>2, <1>0, <1>4 DEF SlotSound
      <4>2. pipes[i][2] \in Nat
        BY <4>1 DEF Has, SpawnTypes
      <4> QED BY <3>1, <4>1, <4>2 DEF UseSound, Has
    <3>3. CASE Inherits(i)
      <4> DEFINE of == stdio[i + 1].of
      <4>1. pipes[i][2] = of /\ of # -1 /\ Asked(i) = {Old(of)}
        BY <3>3, <1>0, <1>4 DEF SlotSound
      <4>2. of \in open_before \cup {NotOpen}
        BY <3>3, <4>1, <1>0 DEF SpawnTypes, Inherits
      <4>3. of \in open_before => of \in DOMAIN files /\ files[of] = Old(of)
        BY <1>9 DEF ParentKeepsItsOwn
      <4>4. NotOpen \notin DOMAIN files /\ NotOpen \in Nat /\ of \in Nat
        <5>1. NotOpen \in Nat /\ NotOpen \notin 0..LastFd /\ open_before \subseteq Nat
          BY SpawnAssumption DEF SpawnTypes, NotOpen
        <5> QED BY <5>1, <4>2 DEF SpawnTypes
      <4> HIDE DEF of
      <4> QED BY <3>1, <4>1, <4>2, <4>3, <4>4 DEF UseSound
    <3>4. CASE ~IsPipe(i) /\ ~Inherits(i)
      <4>1. pipes[i][2] = -1 /\ Asked(i) = {}
        BY <3>4, <1>0, <1>4 DEF SlotSound
      <4> QED BY <3>1, <4>1 DEF UseSound
    <3> QED BY <3>2, <3>3, <3>4
  <2>6. ChildInv'
    BY <1>0, <1>1, <1>3, <1>7, <1>11, <2>3, <2>4, <2>5 DEF ChildInv, SpawnTypes, ChildHasItsStdio, Has, SignalEnd
  <2> QED BY <2>1, <2>2, <2>6
<1>12. CASE /\ SpawnError("open", ERROR)
            /\ files' = Without(files, {signal_pipe[1], signal_pipe[2]})
            /\ UNCHANGED <<child, cloexec, child_pipes, child_at, child_slot>>
  <2>1. spawn_at' = "open" /\ slot' = 0 /\ spawn_result' = ERROR /\ exec_errorno' = ERROR
    BY <1>12 DEF SpawnError
  <2>2. SpawnTypes' /\ ParentInv'
    BY <1>10, <1>12, <2>1
  <2>3. ResultInv'
    BY <1>1, <1>3, <1>12, <2>1 DEF ResultInv, Preparing, ERROR
  <2>4. ChildInv'
    BY <1>1, <1>12, ChildStands DEF childVars
  <2> QED BY <2>2, <2>3, <2>4
<1> QED BY <1>11, <1>12 DEF SpawnFork

LEMMA ReadResultKeepsInv == ASSUME ForkInv, ReadResult PROVE ForkInv'
<1> USE DEF ForkInv
<1>1. /\ spawn_at = "read_result" /\ spawn_at' = "open" /\ slot' = 0
      /\ files' = Without(files, {signal_pipe[1]})
      /\ UNCHANGED <<stdio, open_before, nonblocking, child, cloexec, child_pipes, child_slot, told, pipes, stream_fd,
                     signal_pipe, misclosed>>
  BY DEF ReadResult
<1>0. /\ Slots' = Slots /\ StreamTaken' = StreamTaken
      /\ \A i : (IsPipe(i)' <=> IsPipe(i)) /\ (Inherits(i)' <=> Inherits(i))
      /\ \A i \in Slots : i \in Nat
      /\ Len(stdio) \in Nat
  BY <1>1, SlotsStand, SlotFacts DEF SpawnTypes
<1>2. ErrorInTheWay' = ErrorInTheWay
  BY <1>0, <1>1 DEF ErrorInTheWay
<1>3. \A n \in {signal_pipe[1]} : n \in DOMAIN files => files[n][1] = "signal"
  BY <1>1, FileKinds DEF ParentInv, Has
<1>4. /\ DOMAIN files' = DOMAIN files \ {signal_pipe[1]} /\ \A m \in DOMAIN files' : files'[m] = files[m]
      /\ \A m, f : Has(files, m, f) /\ f[1] # "signal" => Has(files', m, f)
  <2>1. /\ DOMAIN Without(files, {signal_pipe[1]}) = DOMAIN files \ {signal_pipe[1]}
        /\ \A m \in DOMAIN Without(files, {signal_pipe[1]}) : Without(files, {signal_pipe[1]})[m] = files[m]
        /\ \A m, f : Has(files, m, f) /\ f[1] # "signal" => Has(Without(files, {signal_pipe[1]}), m, f)
    BY <1>3, SignalsApart
  <2> QED BY <2>1, <1>1
<1>5. SpawnTypes'
  <2>1. slot' \in 0..Len(stdio)
    BY <1>0, <1>1
  <2> QED BY <2>1, <1>0, <1>1, <1>4 DEF SpawnTypes, NotOpen, Preparing
<1>6. ASSUME NEW i \in Slots PROVE SlotSound(i)'
  <2>1. SlotSound(i) /\ InitDone(i) /\ ~IsOpened(i) /\ InitDone(i)' /\ ~IsOpened(i)'
    BY <1>0, <1>1 DEF ParentInv, Preparing, InitDone, IsOpened
  <2>2. \A m, k : Has(files, m, End(i, k)) => Has(files', m, End(i, k))
    BY <1>4, FileKinds
  <2>3. \A m, k : Has(files, m, End(i, k))' <=> Has(files', m, End(i, k))
    BY DEF Has, End
  <2> QED BY <2>1, <2>2, <2>3, <1>0, <1>1 DEF SlotSound
<1>7. ASSUME NEW m \in DOMAIN files' PROVE Accounted(m)'
  <2>1. Accounted(m) /\ files'[m] = files[m] /\ m # signal_pipe[1]
    BY <1>1, <1>4 DEF ParentInv
  <2> QED BY <2>1, <1>0, <1>1 DEF Accounted, Old, End, SignalEnd
<1>8. ParentKeepsItsOwn'
  <2>1. ParentKeepsItsOwn
    BY <1>1 DEF ParentInv, Preparing
  <2>2. ASSUME NEW n \in open_before PROVE Has(files', n, Old(n))
    BY <2>1, <1>4, FileKinds DEF ParentKeepsItsOwn, Has
  <2> QED BY <2>1, <2>2, <1>1 DEF ParentKeepsItsOwn, Has, Old
<1>9. \A s \in Pipes : stream_fd[s] # -1 => s \in InUse
  BY <1>1 DEF ParentInv, Preparing, IsOpened
<1>10. ParentInv'
  BY <1>0, <1>1, <1>6, <1>7, <1>8, <1>9 DEF ParentInv
<1>11. CASE told # 0 /\ child_at' = "reaped" /\ exec_errorno' = told /\ spawn_result' = told /\ UNCHANGED spawn_active
  <2>1. ChildInv'
    BY <1>1, <1>11, ChildStands
  <2>2. ResultInv'
    BY <1>1, <1>2, <1>11 DEF ResultInv, Preparing
  <2> QED BY <1>5, <1>10, <2>1, <2>2
<1>12. CASE /\ told = 0 /\ \A n \in DOMAIN child : child[n] # SignalEnd(1)
            /\ spawn_active' = TRUE /\ UNCHANGED <<child_at, exec_errorno, spawn_result>>
  <2>1. ChildInv'
    BY <1>1, <1>12, ChildStands DEF childVars
  <2>2. ~ErrorInTheWay => child_at = "running"
    BY <1>1, <1>12 DEF ResultInv, ChildInv, Has, Preparing
  <2>3. ResultInv'
    BY <1>1, <1>2, <1>12, <2>2 DEF ResultInv, Preparing
  <2> QED BY <1>5, <1>10, <2>1, <2>3
<1> QED BY <1>11, <1>12 DEF ReadResult

LEMMA SpawnReturnsKeepsInv == ASSUME ForkInv, SpawnReturns PROVE ForkInv'
<1> USE DEF ForkInv
<1>1. /\ spawn_at = "open" /\ spawn_at' = "done" /\ slot = Len(stdio) /\ spawn_result' = exec_errorno
      /\ UNCHANGED <<stdio, open_before, nonblocking, childVars, files, pipes, stream_fd, slot, signal_pipe,
                     exec_errorno, spawn_active, misclosed>>
  BY DEF SpawnReturns
<1>0. /\ Slots' = Slots /\ StreamTaken' = StreamTaken
      /\ \A i : (IsPipe(i)' <=> IsPipe(i)) /\ (Inherits(i)' <=> Inherits(i))
      /\ \A i \in Slots : IsPipe(i) => i < Len(stdio)
  BY <1>1, SlotsStand, SlotFacts DEF SpawnTypes
<1>2. ErrorInTheWay' = ErrorInTheWay /\ UNCHANGED <<told, child_at>>
  BY <1>0, <1>1 DEF ErrorInTheWay, childVars
<1>3. ChildInv'
  BY <1>1, ChildStands DEF childVars
<1>4. SpawnTypes'
  BY <1>0, <1>1 DEF SpawnTypes, NotOpen, Preparing
<1>5. ResultInv'
  BY <1>1, <1>2 DEF ResultInv, Preparing
<1>6. ASSUME NEW n \in DOMAIN files, files[n][1] # "old"
      PROVE  \E i \in Slots : IsPipe(i) /\ files[n] = End(i, 0) /\ stream_fd[stdio[i + 1].of] = n
  <2>1. Accounted(n) /\ n \in Nat
    BY <1>1 DEF ParentInv, SpawnTypes
  <2>2. PICK i \in Slots : IsPipe(i) /\ (\/ pipes[i][1] = n /\ files[n] = End(i, 0)
                                         \/ pipes[i][2] = n /\ files[n] = End(i, 1))
    BY <2>1, <1>1, <1>6, FileKinds DEF Accounted
  <2>3. pipes[i][2] = -1 /\ stream_fd[stdio[i + 1].of] = pipes[i][1]
    BY <2>2, <1>0, <1>1 DEF ParentInv, SlotSound, InitDone, IsOpened
  <2> QED BY <2>1, <2>2, <2>3
<1>7. ~StreamTaken => ParentKeepsItsOwn'
  BY <1>1 DEF ParentInv, ParentKeepsItsOwn, Old
<1>8. ASSUME NEW n \in DOMAIN files', files'[n][1] # "old"
      PROVE  \E i \in Slots' : IsPipe(i)' /\ files'[n] = End(i, 0)' /\ stream_fd'[stdio'[i + 1].of] = n
  <2>1. \A i : End(i, 0)' = End(i, 0)
    BY DEF End
  <2> QED BY <1>0, <1>1, <1>6, <1>8, <2>1
<1>9. ParentInv'
  BY <1>0, <1>1, <1>7, <1>8 DEF ParentInv, Preparing
<1> QED BY <1>3, <1>4, <1>5, <1>9

\* The label error: what is left of the pipes is closed.
LEMMA UndoKeepsInv == ASSUME ForkInv, Undo PROVE ForkInv'
<1> USE DEF ForkInv
<1> DEFINE ns == OwnNumbers \ {-1}
<1>1. /\ spawn_at = "undo" /\ spawn_at' = "done" /\ files' = Without(files, ns)
      /\ misclosed' = (misclosed \/ \E n \in ns : n \notin DOMAIN files \/ files[n][1] # "end")
      /\ UNCHANGED <<stdio, open_before, nonblocking, childVars, pipes, stream_fd, slot, signal_pipe,
                     exec_errorno, spawn_result, spawn_active>>
  BY DEF Undo
<1>0. /\ Slots' = Slots /\ StreamTaken' = StreamTaken
      /\ \A i \in Slots : ~(IsPipe(i) /\ Inherits(i))
  BY <1>1, SlotsStand, SlotFacts DEF SpawnTypes
<1>2. ErrorInTheWay' = ErrorInTheWay /\ UNCHANGED <<told, child_at>>
  BY <1>0, <1>1 DEF ErrorInTheWay, childVars
<1>3. ChildInv'
  BY <1>1, ChildStands DEF childVars
<1>4. DOMAIN files' = DOMAIN files \ ns /\ \A m \in DOMAIN files' : files'[m] = files[m]
  BY <1>1 DEF Without
<1>5. SpawnTypes'
  BY <1>0, <1>1, <1>4 DEF SpawnTypes, NotOpen, Preparing
<1>6. ResultInv'
  BY <1>1, <1>2 DEF ResultInv, Preparing
<1>7. ASSUME NEW n \in DOMAIN files' PROVE files'[n][1] = "old"
  <2>1. Accounted(n) /\ n \in Nat /\ n \notin OwnNumbers
    BY <1>1, <1>4 DEF ParentInv, SpawnTypes
  <2>2. \A i \in Slots : IsPipe(i) => pipes[i][1] # n /\ pipes[i][2] # n
    BY <2>1, <1>0 DEF OwnNumbers
  <2>3. spawn_at = "undo" /\ n \in DOMAIN files /\ files'[n] = files[n]
    BY <1>1, <1>4
  <2>4. files[n] = Old(n)
    BY <2>1, <2>2, <2>3 DEF Accounted
  <2> QED BY <2>3, <2>4, FileKinds
<1>8. ASSUME ~StreamTaken PROVE ParentKeepsItsOwn'
  <2>1. ParentKeepsItsOwn /\ \A i \in Slots : SlotToUndo(i)
    BY <1>1, <1>8 DEF ParentInv
  <2>2. ASSUME NEW n \in ns PROVE n \in DOMAIN files /\ files[n][1] = "end"
    <3>1. PICK i \in Slots : ~Inherits(i) /\ n \in {pipes[i][1], pipes[i][2]}
      BY DEF OwnNumbers
    <3> QED BY <3>1, <2>1, FileKinds DEF SlotToUndo, Has
  <2>3. ~misclosed'
    BY <2>1, <2>2, <1>1 DEF ParentKeepsItsOwn
  <2>4. ASSUME NEW n \in open_before PROVE n \in DOMAIN files' /\ files'[n] = Old(n)
    <3>1. n \in DOMAIN files /\ files[n] = Old(n) /\ files[n][1] = "old"
      BY <2>1, FileKinds DEF ParentKeepsItsOwn
    <3> QED BY <3>1, <2>2, <1>4
  <2> QED BY <2>3, <2>4, <1>1 DEF ParentKeepsItsOwn, Old
<1>9. ParentInv'
  BY <1>0, <1>1, <1>7, <1>8 DEF ParentInv, Preparing
<1> QED BY <1>3, <1>5, <1>6, <1>9

\* A stream takes the parent's end; the child's end is closed.
LEMMA OpenStreamKeepsInv == ASSUME ForkInv, OpenStream PROVE ForkInv'
<1> USE DEF ForkInv
<1>1. /\ spawn_at = "open" /\ slot < Len(stdio)
      /\ UNCHANGED <<stdio, open_before, childVars, signal_pipe, exec_errorno, spawn_active>>
  BY DEF OpenStream
<1>0. /\ Slots' = Slots /\ StreamTaken' = StreamTaken
      /\ \A i : (IsPipe(i)' <=> IsPipe(i)) /\ (Inherits(i)' <=> Inherits(i))
      /\ \A i \in Slots : i \in Nat /\ ~(IsPipe(i) /\ Inherits(i))
      /\ \A i \in Slots : IsPipe(i) => stdio[i + 1].of \in Pipes
      /\ Len(stdio) \in Nat /\ slot \in Slots /\ slot \in Nat
  <2>1. stdio \in Seq(Containers) /\ slot \in Nat
    BY DEF SpawnTypes
  <2> QED BY <1>1, <2>1, SlotsStand, SlotFacts
<1>2. ErrorInTheWay' = ErrorInTheWay /\ UNCHANGED <<told, child_at>>
  BY <1>0, <1>1 DEF ErrorInTheWay, childVars
<1>3. ASSUME nonblocking \subseteq nonblocking' PROVE ChildInv'
  BY <1>1, <1>3, ChildStands
<1>4. \A i \in Slots : SlotSound(i) /\ InitDone(i) /\ (IsOpened(i) <=> i < slot)
  BY <1>1 DEF ParentInv, IsOpened, InitDone
<1>5. \A m \in DOMAIN files : Accounted(m)
  BY <1>1 DEF ParentInv
<1>6. ~StreamTaken => ParentKeepsItsOwn
  BY <1>1 DEF ParentInv
<1>7. CASE /\ ~IsPipe(slot) /\ slot' = slot + 1
           /\ UNCHANGED <<files, pipes, stream_fd, nonblocking, misclosed, spawn_at, spawn_result>>
  <2>1. SpawnTypes'
    <3>1. slot' \in 0..Len(stdio)
      BY <1>0, <1>1, <1>7
    <3> QED BY <3>1, <1>0, <1>1, <1>7 DEF SpawnTypes, NotOpen, Preparing
  <2>2. ASSUME NEW i \in Slots PROVE SlotSound(i)'
    <3>1. InitDone(i)' /\ (IsPipe(i) => (IsOpened(i)' <=> IsOpened(i)))
      BY <1>0, <1>1, <1>7 DEF InitDone, IsOpened
    <3> QED BY <3>1, <1>0, <1>1, <1>4, <1>7 DEF SlotSound, Has, End
  <2>3. ASSUME NEW m \in DOMAIN files PROVE Accounted(m)'
    <3>1. Accounted(m)
      BY <1>5
    <3> QED BY <3>1, <1>0, <1>1, <1>7 DEF Accounted, Old, End
  <2>4. ~StreamTaken => ParentKeepsItsOwn'
    BY <1>1, <1>6, <1>7 DEF ParentKeepsItsOwn, Old
  <2>5. ASSUME NEW s \in Pipes, stream_fd[s] # -1
        PROVE  s \in InUse \/ (\E j \in Slots : IsOpened(j)' /\ IsPipe(j) /\ stdio[j + 1].of = s)
    <3>1. \A j \in Slots : IsOpened(j) => IsOpened(j)'
      BY <1>0, <1>1, <1>7 DEF IsOpened
    <3> QED BY <3>1, <2>5, <1>1 DEF ParentInv
  <2>6. ParentInv'
    BY <1>0, <1>1, <1>7, <2>2, <2>3, <2>4, <2>5 DEF ParentInv, Preparing
  <2>7. ResultInv'
    BY <1>1, <1>2, <1>7 DEF ResultInv, Preparing
  <2> QED BY <2>1, <2>6, <2>7, <1>3, <1>7
<1>8. CASE IsPipe(slot)
  <2> DEFINE s == stdio[slot + 1].of
             near == pipes[slot][1]
             far == pipes[slot][2]
             here == Without(files, {far})
             opened == StreamNumbers(slot)
  <2>1. /\ pipes' = [pipes EXCEPT ![slot][2] = -1]
        /\ nonblocking' = nonblocking \cup {End(slot, 0)}
        /\ misclosed' = (misclosed \/ far \notin DOMAIN files \/ files[far] # End(slot, 1))
    BY <1>8 DEF OpenStream
  <2>2. /\ Has(files, near, End(slot, 0)) /\ Has(files, far, End(slot, 1))
        /\ near \in Nat /\ far \in Nat /\ s \in Pipes
    <3>1. SlotSound(slot) /\ InitDone(slot) /\ ~IsOpened(slot)
      BY <1>0, <1>4
    <3>2. Has(files, near, End(slot, 0)) /\ Has(files, far, End(slot, 1))
      BY <3>1, <1>8 DEF SlotSound
    <3> QED BY <3>2, <1>0, <1>8 DEF Has, SpawnTypes
  <2>3. /\ pipes' \in [Slots -> Int \X Int]
        /\ pipes'[slot] = <<near, -1>> /\ \A i \in Slots : i # slot => pipes'[i] = pipes[i]
    <3>1. pipes[slot] \in Int \X Int /\ pipes[slot] = <<near, far>>
      BY <1>0 DEF SpawnTypes
    <3>2. pipes' = [pipes EXCEPT ![slot] = <<near, -1>>]
      <4>1. [<<near, far>> EXCEPT ![2] = -1] = <<near, -1>>
        OBVIOUS
      <4>2. pipes' = [pipes EXCEPT ![slot] = [pipes[slot] EXCEPT ![2] = -1]]
        BY <2>1
      <4> HIDE DEF near, far
      <4> QED BY <3>1, <4>1, <4>2
    <3>3. <<near, -1>> \in Int \X Int
      BY <2>2
    <3> HIDE DEF near, far
    <3> QED BY <3>2, <3>3, <1>0 DEF SpawnTypes
  <2>4. ~misclosed => ~misclosed'
    BY <2>1, <2>2 DEF Has
  <2>5. DOMAIN here = DOMAIN files \ {far} /\ \A m \in DOMAIN here : here[m] = files[m]
    BY DEF Without
  <2> HIDE DEF near, far, here, opened, s
  <2>6. ASSUME NEW m \in DOMAIN files, m # far, files'[m] = files[m] PROVE Accounted(m)'
    <3>1. Accounted(m)
      BY <1>5
    <3>2. CASE m \in open_before /\ files[m] = Old(m)
      BY <3>2, <2>6, <1>1 DEF Accounted, Old
    <3>3. ASSUME NEW i \in Slots, IsPipe(i),
                 (pipes[i][1] = m /\ files[m] = End(i, 0)) \/ (pipes[i][2] = m /\ files[m] = End(i, 1))
          PROVE  Accounted(m)'
      <4>1. (pipes'[i][1] = m /\ files[m] = End(i, 0)) \/ (pipes'[i][2] = m /\ files[m] = End(i, 1))
        <5>1. CASE i = slot
          <6>1. pipes[i][1] = near /\ pipes[i][2] = far
            BY <5>1 DEF near, far
          <6> QED BY <5>1, <6>1, <3>3, <2>3, <2>6
        <5>2. CASE i # slot
          BY <5>2, <3>3, <2>3
        <5> QED BY <5>1, <5>2
      <4> QED BY <4>1, <3>3, <2>6, <1>0 DEF Accounted, End
    <3> QED BY <3>1, <3>2, <3>3, <1>1 DEF Accounted
  <2>7. CASE /\ stream_fd[s] \in {-1, near}
             /\ stream_fd' = [stream_fd EXCEPT ![s] = near] /\ files' = here
             /\ slot' = slot + 1 /\ UNCHANGED <<spawn_at, spawn_result>>
    <3>1. /\ stream_fd' \in [Pipes -> Int] /\ stream_fd'[s] = near
          /\ \A q \in Pipes : q # s => stream_fd'[q] = stream_fd[q]
      BY <2>2, <2>7 DEF SpawnTypes
    <3>2. SpawnTypes'
      <4>1. slot' \in 0..Len(stdio)
        BY <1>0, <1>1, <2>7
      <4> QED BY <4>1, <3>1, <2>3, <2>5, <2>7, <1>0, <1>1 DEF SpawnTypes, NotOpen, Preparing
    <3>3. \A i \in Slots : InitDone(i)' /\ (IsOpened(i)' <=> i = slot \/ IsOpened(i))
      BY <1>0, <1>1, <2>7 DEF InitDone, IsOpened
    <3>4. \A m, i, k : Has(files, m, End(i, k)) /\ m # far => Has(files', m, End(i, k))
      BY <2>5, <2>7 DEF Has
    <3>5. ASSUME NEW i \in Slots PROVE SlotSound(i)'
      <4>1. \A m, k : Has(files, m, End(i, k))' <=> Has(files', m, End(i, k))
        BY DEF Has, End
      <4>2. CASE i = slot
        <5>1. near # far
          BY <2>2, FileKinds DEF Has
        <5>2. Has(files', near, End(i, 0)) /\ stream_fd'[stdio[i + 1].of] = near
          BY <5>1, <3>1, <3>4, <4>2, <2>2 DEF s
        <5>3. IsPipe(i) /\ ~Inherits(i) /\ IsOpened(i)' /\ pipes'[i] = <<near, -1>> /\ InitDone(i)'
          BY <4>2, <3>3, <1>0, <1>8, <2>3
        <5> QED BY <5>2, <5>3, <4>1, <1>0, <1>1 DEF SlotSound
      <4>3. CASE i # slot
        <5>1. pipes'[i] = pipes[i] /\ (IsOpened(i)' <=> IsOpened(i)) /\ InitDone(i) /\ InitDone(i)' /\ SlotSound(i)
          BY <4>3, <3>3, <2>3, <1>4
        <5>2. ASSUME IsPipe(i)
              PROVE  /\ pipes[i][1] # far /\ pipes[i][2] # far
                     /\ IsOpened(i) => stream_fd'[stdio[i + 1].of] = pipes[i][1]
          <6>1. Has(files, pipes[i][1], End(i, 0)) /\ (~IsOpened(i) => Has(files, pipes[i][2], End(i, 1)))
                /\ (IsOpened(i) => pipes[i][2] = -1 /\ stream_fd[stdio[i + 1].of] = pipes[i][1])
            BY <5>1, <5>2 DEF SlotSound
          <6>2. pipes[i][1] # far /\ pipes[i][2] # far /\ pipes[i][1] # near /\ pipes[i][1] \in Nat
            BY <6>1, <4>3, <2>2, FileKinds DEF Has, SpawnTypes
          <6>3. IsOpened(i) => stdio[i + 1].of # s
            BY <6>1, <6>2, <2>7
          <6> QED BY <6>1, <6>2, <6>3, <3>1, <5>2, <1>0
        <5> QED BY <5>1, <5>2, <3>4, <4>1, <1>0, <1>1 DEF SlotSound
      <4> QED BY <4>2, <4>3
    <3>6. ASSUME NEW m \in DOMAIN files' PROVE Accounted(m)'
      BY <2>5, <2>6, <2>7
    <3>7. ~StreamTaken => ParentKeepsItsOwn'
      <4>1. ASSUME ~StreamTaken, NEW n \in open_before PROVE n \in DOMAIN files' /\ files'[n] = Old(n)
        <5>1. n \in DOMAIN files /\ files[n] = Old(n) /\ n # far
          BY <4>1, <1>6, <2>2, FileKinds DEF ParentKeepsItsOwn, Has
        <5> QED BY <5>1, <2>5, <2>7
      <4> QED BY <4>1, <1>1, <1>6, <2>4 DEF ParentKeepsItsOwn, Old
    <3>8. ASSUME NEW q \in Pipes, stream_fd'[q] # -1
          PROVE  q \in InUse \/ (\E j \in Slots : IsOpened(j)' /\ IsPipe(j) /\ stdio[j + 1].of = q)
      <4>1. CASE q = s
        BY <4>1, <3>3, <1>0, <1>8 DEF s
      <4>2. CASE q # s
        BY <4>2, <3>1, <3>3, <3>8, <1>1 DEF ParentInv
      <4> QED BY <4>1, <4>2
    <3>9. ParentInv'
      BY <1>0, <1>1, <2>7, <3>5, <3>6, <3>7, <3>8 DEF ParentInv, Preparing
    <3>10. ResultInv'
      BY <1>1, <1>2, <2>7 DEF ResultInv, Preparing
    <3>11. ChildInv'
      BY <1>3, <2>1
    <3> QED BY <3>2, <3>9, <3>10, <3>11
  <2>8. CASE /\ ~(stream_fd[s] \in {-1, near})
             /\ files' = Without(here, opened \cap 3..LastFd)
             /\ stream_fd' = [q \in Pipes |-> IF \E j \in 0..(slot - 1) : IsPipe(j) /\ stdio[j + 1].of = q
                                              THEN -1 ELSE stream_fd[q]]
             /\ spawn_at' = "undo" /\ spawn_result' = ERROR /\ UNCHANGED slot
    <3>1. StreamTaken
      <4>1. s \in InUse \/ \E j \in Slots : IsOpened(j) /\ IsPipe(j) /\ stdio[j + 1].of = s
        BY <2>2, <2>8, <1>1 DEF ParentInv
      <4>2. CASE s \in InUse
        BY <4>2, <1>0, <1>8 DEF StreamTaken, s
      <4>3. ASSUME NEW j \in Slots, IsOpened(j), IsPipe(j), stdio[j + 1].of = s PROVE StreamTaken
        <5>1. slot \in Slots /\ IsPipe(slot) /\ stdio[slot + 1].of = s
          BY <1>0, <1>8 DEF s
        <5>2. j < slot
          BY <4>3, <1>4
        <5>3. j # slot
          BY <5>2, <1>0
        <5> QED BY <4>3, <5>1, <5>3 DEF StreamTaken
      <4> QED BY <4>1, <4>2, <4>3
    <3>2. DOMAIN files' \subseteq DOMAIN files \ {far} /\ \A m \in DOMAIN files' : files'[m] = files[m]
      BY <2>5, <2>8 DEF Without
    <3>3. stream_fd' \in [Pipes -> Int]
      BY <2>8 DEF SpawnTypes
    <3>4. SpawnTypes'
      BY <3>2, <3>3, <2>3, <2>8, <1>0, <1>1 DEF SpawnTypes, NotOpen, Preparing
    <3>5. \A m \in DOMAIN files' : Accounted(m)'
      BY <3>2, <2>6
    <3>6. ParentInv'
      BY <3>1, <3>5, <2>8, <1>0 DEF ParentInv, Preparing
    <3>7. ResultInv'
      BY <1>1, <1>2, <2>8 DEF ResultInv, Preparing, ERROR
    <3>8. ChildInv'
      BY <1>3, <2>1
    <3> QED BY <3>4, <3>6, <3>7, <3>8
  <2> QED BY <1>8, <2>7, <2>8 DEF OpenStream, near, far, here, opened, s
<1> QED BY <1>7, <1>8 DEF OpenStream

LEMMA SpawnInvStep == ASSUME SpawnInv, [SpawnNext]_spawnVars PROVE SpawnInv'
<1>1. way' = way
  BY DEF SpawnNext, InitStdio, ChooseWay, MakePipe, SpawnFork, ReadResult, OpenStream, SpawnReturns, Undo, ChildStep,
         PosixSpawn, Spawned, spawnVars
<1>2. SUFFICES ASSUME way = "fork", ForkInv PROVE ForkInv'
  BY <1>1 DEF SpawnInv
<1>3. CASE UNCHANGED spawnVars
  <2>1. /\ UNCHANGED <<stdio, open_before, nonblocking, childVars>>
        /\ UNCHANGED <<files, pipes, stream_fd, spawn_at, slot, signal_pipe, exec_errorno, spawn_result,
                       spawn_active, misclosed>>
    BY <1>3 DEF spawnVars, parentVars
  <2>2. /\ Slots' = Slots /\ StreamTaken' = StreamTaken
        /\ \A i : (IsPipe(i)' <=> IsPipe(i)) /\ (Inherits(i)' <=> Inherits(i)) /\ Asked(i)' = Asked(i)
        /\ ErrorInTheWay' = ErrorInTheWay
    BY <2>1, SlotsStand DEF ErrorInTheWay
  <2>3. ChildInv'
    BY <2>1, ChildStands, <1>2 DEF ForkInv
  <2>4. ASSUME NEW i \in Slots
        PROVE  /\ SlotSound(i) => SlotSound(i)'
               /\ SlotToUndo(i) => SlotToUndo(i)'
    BY <2>1, <2>2 DEF SlotSound, SlotToUndo, InitDone, IsOpened, Has, End
  <2>5. \A m : Accounted(m) => Accounted(m)'
    BY <2>1, <2>2 DEF Accounted, Old, End, SignalEnd
  <2>6. ParentKeepsItsOwn => ParentKeepsItsOwn'
    BY <2>1 DEF ParentKeepsItsOwn, Old
  <2>7. \A j \in Slots : IsOpened(j)' <=> IsOpened(j)
    BY <2>1 DEF IsOpened
  <2>8. ParentInv'
    BY <1>2, <2>1, <2>2, <2>4, <2>5, <2>6, <2>7 DEF ForkInv, ParentInv, Has, End, SignalEnd
  <2>9. SpawnTypes'
    BY <1>2, <2>1, <2>2 DEF ForkInv, SpawnTypes, NotOpen
  <2>10. ResultInv'
    BY <1>2, <2>1, <2>2 DEF ForkInv, ResultInv, childVars
  <2> QED BY <2>3, <2>8, <2>9, <2>10 DEF ForkInv
<1>4. ~PosixSpawn
  BY <1>2 DEF PosixSpawn, ForkInv, SpawnTypes, Preparing
<1>5. Spawned => UNCHANGED spawnVars
  BY DEF Spawned
<1>6. CASE SpawnNext
  BY <1>2, <1>3, <1>4, <1>5, <1>6, InitStdioKeepsInv, ChooseWayKeepsInv, MakePipeKeepsInv, SpawnForkKeepsInv,
     ReadResultKeepsInv, OpenStreamKeepsInv, SpawnReturnsKeepsInv, UndoKeepsInv, ChildStepKeepsInv DEF SpawnNext
<1> QED BY <1>3, <1>6

\* A child made by fork has at each slot the file that was asked for, /dev/null
\* at a standard one that nothing was asked for, and no end of a pipe besides;
\* the parent keeps one end in each stream and what it had before, and says that
\* the program runs exactly if it does; the modes of its files stay.  For any
\* slots and open numbers, whichever call fails: except that a stream must not be
\* in use or named twice, and that an error is lost if its pipe has the number of
\* a slot, as SpawnPromise says.
THEOREM ForkedChildrenGetTheirStdio == SpawnSpec => [](way = "fork" => SpawnPromise)
<1>1. SpawnInit => SpawnInv
  BY SpawnInvInit DEF SpawnInv
<1>2. SpawnInv /\ [SpawnNext]_spawnVars => SpawnInv'
  BY SpawnInvStep
<1>3. SpawnInv => (way = "fork" => SpawnPromise)
  <2> SUFFICES ASSUME ForkInv, way = "fork" PROVE SpawnPromise
    BY DEF SpawnInv
  <2>1. ~EndsInTheWay
    BY DEF EndsInTheWay
  <2>2. ChildHasItsStdio /\ EndsAreFew /\ ModesKept
    BY DEF ForkInv, ChildInv, ParentInv, EndsAreFew
  <2>3. StreamTaken \/ ParentKeepsItsOwn
    <3>1. spawn_at \in Preparing \/ spawn_at \notin Preparing
      OBVIOUS
    <3> QED BY DEF ForkInv, ParentInv
  <2>4. ErrorInTheWay \/ ResultTells
    BY DEF ForkInv, ResultInv, ResultTells
  <2> QED BY <2>1, <2>2, <2>3, <2>4 DEF SpawnPromise
<1> QED BY <1>1, <1>2, <1>3, PTL DEF SpawnSpec

-----------------------------------------------------------------------------
(* Signals: the inductive invariant.                                        *)

Message == [handle : Handles, signum : Signums]

SignalTypes ==
  /\ life \in [Handles -> {"none", "open", "closing"}]
  /\ signum \in [Handles -> Signums \cup {NoSignal}]
  /\ oneshot \subseteq Handles /\ lost \subseteq Handles
  /\ trapped \in [Handles -> Int]
  /\ disposition \in [Signums -> {"default", "handler", "reset"}]
  /\ raised \subseteq Signums
  /\ lock \in Signums \cup {NoSignal}
  /\ walk \in Seq(Handles) /\ written \in BOOLEAN
  /\ pipe \in [Loops -> Seq(Message)] /\ buf \in [Loops -> Seq(Message)]
  /\ full \in [Loops -> BOOLEAN]
  /\ pc \in [Loops -> {"loop", "next", "cb", "after"}]

\* The handler holds the lock while it walks, so what it has to visit goes on
\* watching the signal, and is open.
WalkHolds ==
  /\ \A h \in Handles : signum[h] # NoSignal => life[h] = "open"
  /\ lock = NoSignal => walk = <<>>
  /\ lock # NoSignal => lock \in raised
  /\ written => walk # <<>>
  /\ Distinct(walk)
  /\ \A h \in Handles : Linked(walk, h) => signum[h] = lock

\* A loop dispatches messages to its own handles, and has one while it does.
LoopHolds ==
  \A l \in Loops :
    /\ pc[l] = "loop" => buf[l] = <<>>
    /\ pc[l] \in {"cb", "after"} => buf[l] # <<>>
    /\ \A i \in 1..Len(Caught(l)) : LoopOf[Caught(l)[i].handle] = l

Uncounted(h) == IF written /\ Head(walk) = h THEN 1 ELSE 0
Exact ==
  /\ \A h \in Handles : trapped[h] = Cardinality(MessagesTo(h)) - Uncounted(h)
  /\ \A h \in Handles : life[h] = "none" => MessagesTo(h) = {}

StaleInv == SignalTypes /\ WalkHolds /\ LoopHolds /\ Exact

\* A regular watcher has its handler, whatever the one-shot ones do.
RegularServed ==
  \A h \in Handles : signum[h] # NoSignal /\ h \notin oneshot => disposition[signum[h]] = "handler"

\* A one-shot watcher has the handler, or what the handler has done or will do.
ToVisit(h) == Linked(walk, h) /\ ~(written /\ Head(walk) = h)
Reaches(h, s) == \E i \in MessagesTo(h) : Caught(LoopOf[h])[i].signum = s
Served(s, h) ==
  \/ disposition[s] # "default"
  \/ s \in raised /\ lock # s
  \/ lock = s /\ ToVisit(h)
  \/ Reaches(h, s)
  \/ h \in lost
AllServed == \A s \in Signums : \A h \in Watchers(s) : Served(s, h)

ServedInv == RegularServed /\ AllServed

-----------------------------------------------------------------------------
(* What a step does to the messages under way.                              *)

To(h) == {m \in Message : m.handle = h}

LEMMA MessagesArePlaces ==
  ASSUME NEW q \in Seq(Message), NEW h
  PROVE  {i \in 1..Len(q) : q[i].handle = h} = PositionsIn(q, To(h))
<1>1. \A i \in 1..Len(q) : q[i] \in Message
  BY ElementOfSeq
<1> QED BY <1>1 DEF PositionsIn, To

LEMMA CaughtType ==
  ASSUME SignalTypes, NEW l \in Loops
  PROVE  Caught(l) \in Seq(Message) /\ buf[l] \in Seq(Message) /\ pipe[l] \in Seq(Message)
<1>1. buf[l] \in Seq(Message) /\ pipe[l] \in Seq(Message)
  BY DEF SignalTypes
<1> QED BY <1>1, ConcatProperties DEF Caught

\* Nothing is written or dispatched, only read from the pipe, or not even that.
CaughtSame == \A l \in Loops : Caught(l)' = Caught(l)
\* A message is written.
CaughtMore(m) ==
  \A l \in Loops : Caught(l)' = IF l = LoopOf[m.handle] THEN Append(Caught(l), m) ELSE Caught(l)
\* Loop k has dispatched one.
CaughtLess(k) == \A l \in Loops : Caught(l)' = IF l = k THEN Tail(Caught(l)) ELSE Caught(l)

LEMMA ReadKeepsCaught ==
  ASSUME SignalTypes, LoopHolds, NEW k \in Loops, Read(k)
  PROVE  CaughtSame
<1> SUFFICES ASSUME NEW l \in Loops PROVE Caught(l)' = Caught(l)
  BY DEF CaughtSame
<1>0. buf[l] \in Seq(Message) /\ pipe[l] \in Seq(Message)
  BY CaughtType
<1>1. CASE l # k
  <2>1. buf'[l] = buf[l] /\ pipe'[l] = pipe[l]
    BY <1>1 DEF Read, SignalTypes
  <2> QED BY <2>1 DEF Caught
<1>2. CASE l = k
  <2> DEFINE n == Batch(k)
  <2>1. buf[k] = << >> /\ pipe[k] # << >>
    BY DEF Read, LoopHolds
  <2>2. Len(pipe[k]) \in Nat /\ n \in 0..Len(pipe[k]) /\ 1 \in 1..Len(pipe[k]) + 1
    BY <1>0, <1>2, LenProperties, SizesAssumption DEF Batch, Least
  <2>3. buf'[k] = SubSeq(pipe[k], 1, n) /\ pipe'[k] = SubSeq(pipe[k], n + 1, Len(pipe[k]))
    BY DEF Read, SignalTypes
  <2> HIDE DEF n
  <2>4. n \in 1 - 1..Len(pipe[k]) /\ Len(pipe[k]) \in n..Len(pipe[k])
    BY <2>2
  <2>5. SubSeq(pipe[k], 1, n) \o SubSeq(pipe[k], n + 1, Len(pipe[k])) = SubSeq(pipe[k], 1, Len(pipe[k]))
    BY <1>0, <1>2, <2>2, <2>4, ConcatAdjacentSubSeq
  <2>6. SubSeq(pipe[k], 1, Len(pipe[k])) = pipe[k]
    BY <1>0, <1>2, SubSeqFull
  <2>7. << >> \o pipe[k] = pipe[k]
    BY <1>0, <1>2, ConcatEmptySeq
  <2> QED BY <1>2, <2>1, <2>3, <2>5, <2>6, <2>7 DEF Caught
<1> QED BY <1>1, <1>2

LEMMA WriteAddsMessage ==
  ASSUME SignalTypes, NEW m \in Message, UNCHANGED buf,
         pipe' = [pipe EXCEPT ![LoopOf[m.handle]] = Append(@, m)]
  PROVE  CaughtMore(m)
<1> SUFFICES ASSUME NEW l \in Loops
             PROVE  Caught(l)' = IF l = LoopOf[m.handle] THEN Append(Caught(l), m) ELSE Caught(l)
  BY DEF CaughtMore
<1>0. buf[l] \in Seq(Message) /\ pipe[l] \in Seq(Message)
  BY CaughtType
<1>1. CASE l # LoopOf[m.handle]
  <2>1. pipe'[l] = pipe[l]
    BY <1>1 DEF SignalTypes
  <2>2. Caught(l)' = Caught(l)
    BY <2>1 DEF Caught
  <2> QED BY <1>1, <2>2
<1>2. CASE l = LoopOf[m.handle]
  <2>1. pipe'[l] = Append(pipe[l], m)
    BY <1>2 DEF SignalTypes
  <2>2. buf[l] \o Append(pipe[l], m) = Append(buf[l] \o pipe[l], m)
    <3> DEFINE b == buf[l]
               p == pipe[l]
    <3>1. b \in Seq(Message) /\ p \in Seq(Message)
      BY <1>0
    <3> HIDE DEF b, p
    <3>2. b \o Append(p, m) = Append(b \o p, m)
      BY <3>1, AppendOfConcat
    <3> QED BY <3>2 DEF b, p
  <2>3. Caught(l)' = Append(Caught(l), m)
    BY <2>1, <2>2 DEF Caught
  <2> QED BY <1>2, <2>3
<1> QED BY <1>1, <1>2

LEMMA DispatchRemovesMessage ==
  ASSUME SignalTypes, NEW k \in Loops, buf[k] # << >>, UNCHANGED pipe,
         buf' = [buf EXCEPT ![k] = Tail(@)]
  PROVE  CaughtLess(k) /\ Caught(k) # << >> /\ Head(Caught(k)) = Head(buf[k])
<1>0. \A l \in Loops : buf[l] \in Seq(Message) /\ pipe[l] \in Seq(Message)
  BY CaughtType
<1>1. ASSUME NEW l \in Loops, l # k PROVE Caught(l)' = Caught(l)
  <2>1. buf'[l] = buf[l]
    BY <1>1 DEF SignalTypes
  <2> QED BY <2>1 DEF Caught
<1>2. buf'[k] = Tail(buf[k])
  BY DEF SignalTypes
<1>3. /\ buf[k] \o pipe[k] # << >> /\ Head(buf[k] \o pipe[k]) = Head(buf[k])
      /\ Tail(buf[k] \o pipe[k]) = Tail(buf[k]) \o pipe[k]
  BY <1>0, TailOfConcat
<1>4. Caught(k)' = Tail(Caught(k))
  BY <1>2, <1>3 DEF Caught
<1> QED BY <1>1, <1>3, <1>4 DEF Caught, CaughtLess

LEMMA SameMessages ==
  ASSUME CaughtSame, NEW h \in Handles
  PROVE  /\ MessagesTo(h)' = MessagesTo(h)
         /\ \A s : Reaches(h, s) => Reaches(h, s)'
<1>1. Caught(LoopOf[h])' = Caught(LoopOf[h])
  BY LoopsAssumption DEF CaughtSame
<1>2. MessagesTo(h)' = MessagesTo(h)
  BY <1>1 DEF MessagesTo
<1> QED BY <1>1, <1>2 DEF Reaches

LEMMA MoreMessages ==
  ASSUME SignalTypes, NEW m \in Message, CaughtMore(m), NEW h \in Handles
  PROVE  /\ Cardinality(MessagesTo(h)) \in Nat
         /\ Cardinality(MessagesTo(h)') =
              Cardinality(MessagesTo(h)) + (IF m.handle = h THEN 1 ELSE 0)
         /\ m.handle # h => MessagesTo(h)' = MessagesTo(h)
         /\ \A s : Reaches(h, s) => Reaches(h, s)'
         /\ m.handle = h => Reaches(h, m.signum)'
<1> DEFINE q == Caught(LoopOf[h])
           a == Append(q, m)
<1>0. LoopOf[h] \in Loops /\ q \in Seq(Message) /\ m \in To(m.handle) /\ m \in Message
  BY CaughtType, LoopsAssumption DEF To
<1>1. MessagesTo(h) = PositionsIn(q, To(h))
  BY <1>0, MessagesArePlaces DEF MessagesTo
<1>2. Cardinality(MessagesTo(h)) \in Nat
  BY <1>0, <1>1, PlacesFinite
<1>3. CASE LoopOf[m.handle] # LoopOf[h]
  <2>1. Caught(LoopOf[h])' = q
    BY <1>0, <1>3 DEF CaughtMore
  <2>2. MessagesTo(h)' = MessagesTo(h) /\ m.handle # h
    BY <1>3, <2>1 DEF MessagesTo
  <2> QED BY <1>2, <2>1, <2>2 DEF Reaches
<1>4. CASE LoopOf[m.handle] = LoopOf[h]
  <2>1. Caught(LoopOf[h])' = a
    BY <1>0, <1>4 DEF CaughtMore
  <2>2. /\ a \in Seq(Message) /\ Len(a) = Len(q) + 1 /\ Len(q) \in Nat
        /\ \A i \in 1..Len(q) : a[i] = q[i]
        /\ a[Len(q) + 1] = m
    BY <1>0, AppendProperties, LenProperties
  <2>3. MessagesTo(h)' = PositionsIn(a, To(h))
    BY <2>1, <2>2, MessagesArePlaces DEF MessagesTo
  <2>4. /\ PositionsIn(a, To(h)) = PositionsIn(q, To(h)) \cup (IF m \in To(h) THEN {Len(q) + 1} ELSE {})
        /\ Cardinality(PositionsIn(a, To(h))) =
             Cardinality(PositionsIn(q, To(h))) + (IF m \in To(h) THEN 1 ELSE 0)
    BY <1>0, PlacesOfAppend
  <2>5. m \in To(h) <=> m.handle = h
    BY DEF To
  <2>6. PositionsIn(q, To(h)) \subseteq 1..Len(q)
    BY DEF PositionsIn
  <2> HIDE DEF q, a
  <2>7. ASSUME NEW s, Reaches(h, s) PROVE Reaches(h, s)'
    <3>1. PICK i \in PositionsIn(q, To(h)) : q[i].signum = s
      BY <1>1, <2>7 DEF Reaches, q
    <3>2. i \in MessagesTo(h)' /\ a[i].signum = s
      BY <2>2, <2>3, <2>4, <2>6, <3>1
    <3> QED BY <2>1, <3>2 DEF Reaches
  <2>8. ASSUME m.handle = h PROVE Reaches(h, m.signum)'
    <3>1. Len(q) + 1 \in MessagesTo(h)' /\ a[Len(q) + 1].signum = m.signum
      BY <2>2, <2>3, <2>4, <2>5, <2>8
    <3> QED BY <2>1, <3>1 DEF Reaches
  <2>9. Cardinality(MessagesTo(h)') = Cardinality(MessagesTo(h)) + (IF m.handle = h THEN 1 ELSE 0)
    BY <1>1, <2>3, <2>4, <2>5
  <2>10. m.handle # h => MessagesTo(h)' = MessagesTo(h)
    BY <1>1, <2>3, <2>4, <2>5
  <2> QED BY <1>2, <2>7, <2>8, <2>9, <2>10
<1> QED BY <1>3, <1>4

LEMMA LessMessages ==
  ASSUME SignalTypes, NEW k \in Loops, CaughtLess(k), Caught(k) # << >>,
         LoopOf[Head(Caught(k)).handle] = k, NEW h \in Handles
  PROVE  LET m == Head(Caught(k))
         IN /\ m \in Message
            /\ Cardinality(MessagesTo(h)) \in Nat
            /\ Cardinality(MessagesTo(h)') =
                 Cardinality(MessagesTo(h)) - (IF m.handle = h THEN 1 ELSE 0)
            /\ MessagesTo(h) = {} => MessagesTo(h)' = {}
            /\ m.handle = h => MessagesTo(h) # {}
            /\ m.handle # h => \A s : Reaches(h, s) => Reaches(h, s)'
<1> DEFINE q == Caught(LoopOf[h])
           m == Head(Caught(k))
<1>0. LoopOf[h] \in Loops /\ q \in Seq(Message) /\ m \in Message
  BY CaughtType, HeadTailProperties, LoopsAssumption
<1>1. MessagesTo(h) = PositionsIn(q, To(h))
  BY <1>0, MessagesArePlaces DEF MessagesTo
<1>2. Cardinality(MessagesTo(h)) \in Nat
  BY <1>0, <1>1, PlacesFinite
<1>3. CASE k # LoopOf[h]
  <2>1. Caught(LoopOf[h])' = q
    BY <1>0, <1>3 DEF CaughtLess
  <2>2. MessagesTo(h)' = MessagesTo(h) /\ m.handle # h
    BY <1>3, <2>1 DEF MessagesTo
  <2> QED BY <1>0, <1>2, <2>1, <2>2 DEF Reaches
<1>4. CASE k = LoopOf[h]
  <2> DEFINE t == Tail(q)
  <2>1. Caught(LoopOf[h])' = t /\ m = Head(q) /\ q # << >>
    BY <1>0, <1>4 DEF CaughtLess
  <2>2. t \in Seq(Message)
    BY <1>0, <2>1, HeadTailProperties
  <2>3. MessagesTo(h)' = PositionsIn(t, To(h))
    BY <2>1, <2>2, MessagesArePlaces DEF MessagesTo
  <2>4. /\ \A i \in PositionsIn(t, To(h)) : i + 1 \in PositionsIn(q, To(h))
        /\ \A i \in PositionsIn(q, To(h)) : i = 1 \/ (i - 1 \in PositionsIn(t, To(h)) /\ q[i] = t[i - 1])
        /\ 1 \in PositionsIn(q, To(h)) <=> m \in To(h)
        /\ Cardinality(PositionsIn(t, To(h))) =
             Cardinality(PositionsIn(q, To(h))) - (IF m \in To(h) THEN 1 ELSE 0)
    <3>1. q \in Seq(Message) /\ q # << >> /\ m = Head(q)
      BY <1>0, <2>1
    <3> HIDE DEF q, m
    <3>2. /\ \A i \in PositionsIn(Tail(q), To(h)) : i + 1 \in PositionsIn(q, To(h)) /\ Tail(q)[i] = q[i + 1]
          /\ \A i \in PositionsIn(q, To(h)) :
               i = 1 \/ (i - 1 \in PositionsIn(Tail(q), To(h)) /\ q[i] = Tail(q)[i - 1])
          /\ 1 \in PositionsIn(q, To(h)) <=> Head(q) \in To(h)
          /\ Cardinality(PositionsIn(Tail(q), To(h))) =
               Cardinality(PositionsIn(q, To(h))) - (IF Head(q) \in To(h) THEN 1 ELSE 0)
      BY <3>1, PlacesOfTail, Zenon
    <3> QED BY <3>1, <3>2
  <2>5. m \in To(h) <=> m.handle = h
    BY <1>0 DEF To
  <2> HIDE DEF q, t, m
  <2>6. ASSUME m.handle # h, NEW s, Reaches(h, s) PROVE Reaches(h, s)'
    <3>1. PICK i \in PositionsIn(q, To(h)) : q[i].signum = s
      BY <1>1, <2>6 DEF Reaches, q
    <3>2. i - 1 \in PositionsIn(t, To(h)) /\ t[i - 1].signum = s
      BY <2>4, <2>5, <2>6, <3>1
    <3> QED BY <2>1, <2>3, <3>2 DEF Reaches
  <2>7. Cardinality(MessagesTo(h)') = Cardinality(MessagesTo(h)) - (IF m.handle = h THEN 1 ELSE 0)
    BY <1>1, <2>3, <2>4, <2>5
  <2>8. MessagesTo(h) = {} => MessagesTo(h)' = {}
    BY <1>1, <2>3, <2>4
  <2>9. m.handle = h => MessagesTo(h) # {}
    BY <1>1, <2>4, <2>5
  <2> QED BY <1>0, <1>2, <2>6, <2>7, <2>8, <2>9 DEF m
<1> QED BY <1>3, <1>4

-----------------------------------------------------------------------------
(* Signals: every step keeps the invariant.                                 *)

\* The walk is over all watchers of the signal.
LEMMA WatchersInOrder ==
  ASSUME NEW A, NEW B, IsFiniteSet(A), IsFiniteSet(B), A \cap B = {}
  PROVE  LET s == SetToSeq(A) \o SetToSeq(B)
         IN s \in Seq(A \cup B) /\ Distinct(s) /\ \A x : Linked(s, x) <=> x \in A \cup B
<1>1. ASSUME NEW S, IsFiniteSet(S)
      PROVE  /\ SetToSeq(S) \in Seq(S) /\ Distinct(SetToSeq(S))
             /\ \A x : Linked(SetToSeq(S), x) <=> x \in S
  <2> DEFINE n == Cardinality(S)
  <2>1. n \in Nat /\ ExistsBijection(1..n, S)
    BY <1>1, FS_CardinalityType
  <2>2. \E f \in [1..n -> S] : IsInjective(f)
    <3>1. PICK f : f \in Bijection(1..n, S)
      BY <2>1 DEF ExistsBijection
    <3> QED BY <3>1 DEF Bijection, Injection, IsInjective
  <2> DEFINE s == SetToSeq(S)
  <2>3. s \in [1..n -> S] /\ IsInjective(s)
    BY <2>2 DEF SetToSeq
  <2> HIDE DEF s
  <2>4. s \in Seq(S) /\ Len(s) = n
    BY <2>1, <2>3
  <2>5. Distinct(s)
    BY <2>3, <2>4 DEF Distinct, IsInjective
  <2>6. s \in Surjection(1..n, S)
    <3>1. s \in Injection(1..n, S)
      BY <2>3 DEF Injection, IsInjective
    <3>2. Cardinality(1..n) = n
      BY <2>1, FS_Interval
    <3> HIDE DEF n
    <3> QED BY <1>1, <3>1, <3>2, FS_Injection DEF n
  <2>7. ASSUME NEW x PROVE Linked(s, x) <=> x \in S
    BY <2>3, <2>4, <2>6 DEF Linked, Surjection
  <2> QED BY <2>4, <2>5, <2>7 DEF s
<1> DEFINE s == SetToSeq(A)
           t == SetToSeq(B)
<1>2. s \in Seq(A) /\ Distinct(s) /\ \A x : Linked(s, x) <=> x \in A
  BY <1>1
<1>3. t \in Seq(B) /\ Distinct(t) /\ \A x : Linked(t, x) <=> x \in B
  BY <1>1
<1> HIDE DEF s, t
<1>4. s \in Seq(A \cup B) /\ t \in Seq(A \cup B)
  BY <1>2, <1>3, SeqMonotonic
<1>5. /\ s \o t \in Seq(A \cup B)
      /\ \A x : Linked(s \o t, x) <=> Linked(s, x) \/ Linked(t, x)
      /\ Distinct(s \o t)
  BY <1>2, <1>3, <1>4, ConcatDistinct
<1> QED BY <1>2, <1>3, <1>5 DEF s, t

LEMMA LockedWalk ==
  ASSUME NEW s \in Signums
  PROVE  InOrder(s) \in Seq(Handles) /\ Distinct(InOrder(s))
         /\ \A h : Linked(InOrder(s), h) <=> h \in Watchers(s)
<1> DEFINE A == Watchers(s) \ oneshot
           B == Watchers(s) \cap oneshot
<1>1. A \in SUBSET Handles /\ B \in SUBSET Handles /\ A \cap B = {} /\ A \cup B = Watchers(s)
  BY DEF Watchers
<1>2. IsFiniteSet(A) /\ IsFiniteSet(B)
  BY <1>1, LoopsAssumption, FS_Subset
<1>3. InOrder(s) = SetToSeq(A) \o SetToSeq(B)
  BY DEF InOrder
<1> HIDE DEF A, B
<1>4. LET w == SetToSeq(A) \o SetToSeq(B)
      IN w \in Seq(A \cup B) /\ Distinct(w) /\ \A h : Linked(w, h) <=> h \in A \cup B
  BY <1>1, <1>2, WatchersInOrder
<1>5. InOrder(s) \in Seq(Handles)
  BY <1>1, <1>3, <1>4, SeqMonotonic
<1> QED BY <1>1, <1>3, <1>4, <1>5

\* What stopping a watcher does, if it watches; else nothing.
LEMMA Stopped ==
  ASSUME SignalTypes, NEW h \in Handles, StopWatcher(h)
  PROVE  /\ signum' \in [Handles -> Signums \cup {NoSignal}] /\ signum'[h] = NoSignal
         /\ \A g \in Handles : g # h => signum'[g] = signum[g]
         /\ disposition' \in [Signums -> {"default", "handler", "reset"}]
         /\ lost' \subseteq Handles /\ lost \ {h} \subseteq lost'
         /\ signum[h] # NoSignal => lock = NoSignal
         /\ \A s \in Signums : s # signum[h] => disposition'[s] = disposition[s]
         /\ signum[h] # NoSignal => disposition'[signum[h]] = DispositionWithout(h)
<1>1. CASE signum[h] = NoSignal
  BY <1>1 DEF StopWatcher, SignalTypes
<1>2. CASE signum[h] # NoSignal
  <2>1. signum[h] \in Signums /\ DispositionWithout(h) \in {"default", "handler", "reset"}
    BY <1>2 DEF DispositionWithout, SignalTypes
  <2> QED BY <1>2, <2>1 DEF StopWatcher, SignalTypes
<1> QED BY <1>1, <1>2

LEMMA SignalInitInv == Init => StaleInv /\ ServedInv
<1> SUFFICES ASSUME Init PROVE StaleInv /\ ServedInv
  OBVIOUS
<1>1. << >> \in Seq(Message) /\ << >> \in Seq(Handles) /\ Len(<< >>) = 0 /\ << >> \o << >> = << >>
  BY EmptySeq, ConcatEmptySeq
<1>2. SignalTypes
  <2>1. /\ pipe \in [Loops -> Seq(Message)] /\ buf \in [Loops -> Seq(Message)] /\ walk \in Seq(Handles)
    BY <1>1 DEF Init
  <2>2. /\ life \in [Handles -> {"none", "open", "closing"}]
        /\ signum \in [Handles -> Signums \cup {NoSignal}] /\ trapped \in [Handles -> Int]
        /\ disposition \in [Signums -> {"default", "handler", "reset"}]
        /\ full \in [Loops -> BOOLEAN] /\ pc \in [Loops -> {"loop", "next", "cb", "after"}]
    BY DEF Init
  <2> QED BY <2>1, <2>2 DEF Init, SignalTypes
<1>3. WalkHolds
  BY <1>1 DEF Init, WalkHolds, Linked, Distinct
<1>4. \A l \in Loops : Caught(l) = << >>
  BY <1>1 DEF Init, Caught
<1>5. LoopHolds
  BY <1>1, <1>4 DEF Init, LoopHolds
<1>6. \A h \in Handles : MessagesTo(h) = {}
  BY <1>1, <1>4, LoopsAssumption DEF MessagesTo
<1>7. Exact
  <2>1. Cardinality({}) = 0
    BY FS_EmptySet
  <2>2. ASSUME NEW h \in Handles PROVE trapped[h] = 0 /\ Uncounted(h) = 0
    BY DEF Init, Uncounted
  <2>3. ASSUME NEW h \in Handles PROVE Cardinality(MessagesTo(h)) = 0
    BY <1>6, <2>1
  <2> QED BY <1>6, <2>2, <2>3 DEF Exact
<1>8. ServedInv
  BY SignumsAssumption DEF ServedInv, RegularServed, AllServed, Watchers, Init
<1> QED BY <1>2, <1>3, <1>5, <1>7, <1>8 DEF StaleInv

LEMMA SignalTypesStep ==
  ASSUME SignalTypes, WalkHolds, LoopHolds, [Next]_vars
  PROVE  SignalTypes'
<1> USE DEF SignalTypes
<1>1. ASSUME NEW h \in Handles, uv_signal_init(h) PROVE SignalTypes'
  BY <1>1 DEF uv_signal_init, handlerVars, loopVars
<1>2. ASSUME NEW h \in Handles, NEW s \in Signums, NEW once \in BOOLEAN, uv_signal_start(h, s, once)
      PROVE  SignalTypes'
  BY <1>2 DEF uv_signal_start, handlerVars, loopVars
<1>3. ASSUME NEW h \in Handles, uv_signal_stop(h) PROVE SignalTypes'
  BY <1>3, Stopped DEF uv_signal_stop, handlerVars, loopVars
<1>4. ASSUME NEW h \in Handles, uv_close(h) PROVE SignalTypes'
  BY <1>4, Stopped DEF uv_close, handlerVars, loopVars
<1>5. ASSUME NEW h \in Handles, FinishClose(h) PROVE SignalTypes'
  BY <1>5 DEF FinishClose, handlerVars, loopVars
<1>6. ASSUME NEW s \in Signums, Raise(s) PROVE SignalTypes'
  BY <1>6 DEF Raise, handleVars, loopVars
<1>7. ASSUME NEW s \in Signums, HandlerLock(s) PROVE SignalTypes'
  BY <1>7, LockedWalk DEF HandlerLock, handleVars, loopVars
<1>8. CASE HandlerWrite
  <2> DEFINE h == Head(walk)
             m == [handle |-> h, signum |-> lock]
  <2>1. h \in Handles /\ Tail(walk) \in Seq(Handles)
    BY <1>8, HeadTailProperties DEF HandlerWrite
  <2>2. lock \in Signums
    BY <1>8 DEF HandlerWrite, WalkHolds
  <2>3. m \in Message /\ LoopOf[h] \in Loops
    BY <2>1, <2>2, LoopsAssumption DEF Message
  <2>4. Append(pipe[LoopOf[h]], m) \in Seq(Message)
    BY <2>3, AppendProperties
  <2>5. pipe' \in [Loops -> Seq(Message)] /\ walk' \in Seq(Handles) /\ lost' \subseteq Handles
        /\ written' \in BOOLEAN
    BY <1>8, <2>1, <2>3, <2>4 DEF HandlerWrite
  <2> QED BY <1>8, <2>5 DEF HandlerWrite, handleVars, loopVars
<1>9. CASE HandlerCount
  <2>1. Head(walk) \in Handles /\ Tail(walk) \in Seq(Handles)
    BY <1>9, HeadTailProperties DEF HandlerCount, WalkHolds
  <2>2. walk' \in Seq(Handles) /\ written' \in BOOLEAN
    BY <1>9, <2>1 DEF HandlerCount
  <2>3. trapped' \in [Handles -> Int]
    <3> DEFINE h == Head(walk)
    <3>1. h \in Handles /\ trapped' = [trapped EXCEPT ![h] = @ + 1]
      BY <1>9, <2>1 DEF HandlerCount
    <3> HIDE DEF h
    <3> QED BY <3>1
  <2> QED BY <1>9, <2>2, <2>3 DEF HandlerCount, loopVars
<1>10. CASE HandlerUnlock
  BY <1>10 DEF HandlerUnlock, handleVars, loopVars
<1>11. ASSUME NEW l \in Loops, Read(l) PROVE SignalTypes'
  <2>1. /\ SubSeq(pipe[l], 1, Batch(l)) \in Seq(Message)
        /\ SubSeq(pipe[l], Batch(l) + 1, Len(pipe[l])) \in Seq(Message)
    <3>1. Len(pipe[l]) \in Nat /\ \A i \in 1..Len(pipe[l]) : pipe[l][i] \in Message
      BY LenProperties, ElementOfSeq
    <3>2. Batch(l) \in 0..Len(pipe[l])
      BY <3>1, SizesAssumption DEF Batch, Least
    <3> DEFINE n == Batch(l)
    <3> HIDE DEF n
    <3>3. n \in 0..Len(pipe[l])
      BY <3>2 DEF n
    <3>4. /\ \A i \in 1..n : pipe[l][i] \in Message
          /\ \A i \in n + 1..Len(pipe[l]) : pipe[l][i] \in Message
          /\ n \in Int /\ n + 1 \in Int /\ Len(pipe[l]) \in Int /\ 1 \in Int
      BY <3>1, <3>3
    <3>5. SubSeq(pipe[l], 1, n) \in Seq(Message) /\ SubSeq(pipe[l], n + 1, Len(pipe[l])) \in Seq(Message)
      BY <3>4, SubSeqProperties, Zenon
    <3> QED BY <3>5 DEF n
  <2> QED BY <1>11, <2>1 DEF Read, handleVars, handlerVars
<1>12. ASSUME NEW l \in Loops, Dispatch(l) PROVE SignalTypes'
  BY <1>12 DEF Dispatch, handleVars, handlerVars
<1>13. ASSUME NEW l \in Loops, CallbackReturns(l) PROVE SignalTypes'
  BY <1>13 DEF CallbackReturns, handleVars, handlerVars
<1>14. ASSUME NEW l \in Loops, Dispatched(l) PROVE SignalTypes'
  <2>1. buf[l] # << >> /\ buf[l] \in Seq(Message)
    BY <1>14 DEF Dispatched, LoopHolds
  <2>2. Tail(buf[l]) \in Seq(Message) /\ Head(buf[l]) \in Message
    BY <2>1, HeadTailProperties
  <2> DEFINE h == Head(buf[l]).handle
  <2>3. h \in Handles
    BY <2>2 DEF Message
  <2>4. /\ signum' \in [Handles -> Signums \cup {NoSignal}] /\ lost' \subseteq Handles
        /\ disposition' \in [Signums -> {"default", "handler", "reset"}]
    <3> HIDE DEF h
    <3>1. IF h \in oneshot THEN StopWatcher(h) ELSE UNCHANGED <<signum, lost, disposition>>
      BY <1>14 DEF Dispatched, h
    <3> QED BY <2>3, <3>1, Stopped
  <2>5. trapped' \in [Handles -> Int]
    BY <1>14, <2>3 DEF Dispatched
  <2>6. buf' \in [Loops -> Seq(Message)] /\ pc' \in [Loops -> {"loop", "next", "cb", "after"}]
    BY <1>14, <2>2 DEF Dispatched
  <2> QED BY <1>14, <2>4, <2>5, <2>6 DEF Dispatched, handlerVars
<1>15. ASSUME NEW l \in Loops, EventDone(l) PROVE SignalTypes'
  BY <1>15 DEF EventDone, handleVars, handlerVars
<1>16. CASE UNCHANGED vars
  BY <1>16 DEF vars, handleVars, handlerVars, loopVars
<1> QED BY <1>1, <1>2, <1>3, <1>4, <1>5, <1>6, <1>7, <1>8, <1>9, <1>10, <1>11, <1>12, <1>13,
           <1>14, <1>15, <1>16 DEF Next, User, HandlerStep, EventStep

LEMMA WalkStep ==
  ASSUME SignalTypes, WalkHolds, LoopHolds, [Next]_vars
  PROVE  WalkHolds'
<1> USE DEF WalkHolds
\* An action that keeps the walk and changes neither life nor signum of others
\* keeps the conjuncts.
<1>1. ASSUME NEW h \in Handles, uv_signal_init(h) PROVE WalkHolds'
  <2>1. signum[h] = NoSignal
    BY <1>1 DEF uv_signal_init
  <2>2. signum' = signum
    BY <1>1, <2>1 DEF uv_signal_init, SignalTypes
  <2>3. \A g \in Handles : life[g] = "open" => life'[g] = "open"
    BY <1>1 DEF uv_signal_init, SignalTypes
  <2> QED BY <1>1, <2>2, <2>3 DEF uv_signal_init, handlerVars
<1>2. ASSUME NEW h \in Handles, NEW s \in Signums, NEW once \in BOOLEAN, uv_signal_start(h, s, once)
      PROVE  WalkHolds'
  <2>1. life[h] = "open" /\ lock = NoSignal
    BY <1>2 DEF uv_signal_start, Mine
  <2>2. \A g \in Handles : g # h => signum'[g] = signum[g]
    BY <1>2 DEF uv_signal_start, SignalTypes
  <2>3. walk = << >> /\ \A g : ~Linked(walk, g)
    BY <2>1, EmptyLinksNothing
  <2> QED BY <1>2, <2>1, <2>2, <2>3 DEF uv_signal_start, handlerVars
<1>3. ASSUME NEW h \in Handles, StopWatcher(h), UNCHANGED handlerVars,
             \A g \in Handles : g # h => life'[g] = life[g], signum[h] # NoSignal => lock = NoSignal
      PROVE  WalkHolds'
  <2>1. /\ signum'[h] = NoSignal /\ \A g \in Handles : g # h => signum'[g] = signum[g]
    BY <1>3, Stopped
  <2>2. \A g \in Handles : signum'[g] # NoSignal => life'[g] = "open"
    BY <1>3, <2>1
  <2>3. ASSUME NEW g \in Handles, Linked(walk, g) PROVE signum'[g] = lock
    <3>1. CASE signum[h] = NoSignal
      BY <2>1, <2>3, <3>1
    <3>2. CASE signum[h] # NoSignal
      BY <1>3, <2>3, <3>2, EmptyLinksNothing
    <3> QED BY <3>1, <3>2
  <2> QED BY <1>3, <2>2, <2>3 DEF handlerVars
<1>4. ASSUME NEW h \in Handles, uv_signal_stop(h) PROVE WalkHolds'
  <2>1. StopWatcher(h) /\ UNCHANGED handlerVars /\ life' = life
    BY <1>4 DEF uv_signal_stop
  <2> QED BY <1>3, <2>1, Stopped
<1>5. ASSUME NEW h \in Handles, uv_close(h) PROVE WalkHolds'
  <2>1. StopWatcher(h) /\ UNCHANGED handlerVars /\ \A g \in Handles : g # h => life'[g] = life[g]
    BY <1>5 DEF uv_close, SignalTypes
  <2> QED BY <1>3, <2>1, Stopped
<1>6. ASSUME NEW h \in Handles, FinishClose(h) PROVE WalkHolds'
  <2>1. \A g \in Handles : life[g] = "open" => life'[g] = "open"
    BY <1>6 DEF FinishClose, SignalTypes
  <2> QED BY <1>6, <2>1 DEF FinishClose, handlerVars
<1>7. ASSUME NEW s \in Signums, Raise(s) PROVE WalkHolds'
  BY <1>7 DEF Raise, handleVars
<1>8. ASSUME NEW s \in Signums, HandlerLock(s) PROVE WalkHolds'
  <2>1. Distinct(walk') /\ \A h \in Handles : Linked(walk', h) => signum[h] = s
    BY <1>8, LockedWalk DEF HandlerLock, Watchers
  <2>2. ~written
    BY <1>8 DEF HandlerLock, SignalTypes
  <2> QED BY <1>8, <2>1, <2>2, SignumsAssumption DEF HandlerLock, handleVars
<1>9. CASE walk # << >> /\ walk' = Tail(walk) /\ written' = FALSE
           /\ UNCHANGED <<life, signum, lock, raised>>
  <2>1. Distinct(walk') /\ \A h : Linked(walk', h) => Linked(walk, h)
    BY <1>9, TailDistinct DEF SignalTypes
  <2> QED BY <1>9, <2>1
<1>10. CASE HandlerWrite
  <2>1. CASE Len(pipe[LoopOf[Head(walk)]]) < PipeSize
    BY <1>10, <2>1 DEF HandlerWrite, handleVars
  <2>2. CASE ~(Len(pipe[LoopOf[Head(walk)]]) < PipeSize)
    <3>1. walk # << >> /\ walk' = Tail(walk) /\ written' = FALSE /\ UNCHANGED <<life, signum, lock, raised>>
      BY <1>10, <2>2 DEF HandlerWrite, handleVars, SignalTypes
    <3> QED BY <1>9, <3>1
  <2> QED BY <2>1, <2>2
<1>11. CASE HandlerCount
  BY <1>9, <1>11 DEF HandlerCount
<1>12. CASE HandlerUnlock
  BY <1>12, EmptyLinksNothing DEF HandlerUnlock, handleVars
<1>13. ASSUME NEW l \in Loops, Read(l) \/ Dispatch(l) \/ CallbackReturns(l) \/ EventDone(l)
       PROVE  WalkHolds'
  BY <1>13 DEF Read, Dispatch, CallbackReturns, EventDone, handleVars, handlerVars
<1>14. ASSUME NEW l \in Loops, Dispatched(l) PROVE WalkHolds'
  <2> DEFINE h == Head(buf[l]).handle
  <2>1. buf[l] # << >> /\ buf[l] \in Seq(Message)
    BY <1>14 DEF Dispatched, LoopHolds, SignalTypes
  <2>2. h \in Handles
    <3>1. Head(buf[l]) \in Message
      BY <2>1, HeadTailProperties
    <3> QED BY <3>1 DEF Message
  <2>3. /\ IF h \in oneshot THEN StopWatcher(h) ELSE UNCHANGED <<signum, lost, disposition>>
        /\ UNCHANGED handlerVars /\ life' = life
    BY <1>14 DEF Dispatched
  <2> HIDE DEF h
  <2>4. CASE h \in oneshot
    BY <1>3, <2>2, <2>3, <2>4, Stopped
  <2>5. CASE h \notin oneshot
    BY <2>3, <2>5 DEF handlerVars
  <2> QED BY <2>4, <2>5
<1>15. CASE UNCHANGED vars
  BY <1>15 DEF vars, handleVars, handlerVars
<1> QED BY <1>1, <1>2, <1>4, <1>5, <1>6, <1>7, <1>8, <1>10, <1>11, <1>12, <1>13, <1>14, <1>15
        DEF Next, User, HandlerStep, EventStep

\* The handler writes a message, or a full pipe takes none.
LEMMA WriteEffect ==
  ASSUME SignalTypes, WalkHolds, HandlerWrite
  PROVE  /\ Head(walk) \in Handles /\ lock \in Signums
         /\ [handle |-> Head(walk), signum |-> lock] \in Message
         /\ UNCHANGED <<buf, pc, life, signum, oneshot, trapped, disposition, raised, lock>>
         /\ \/ /\ CaughtMore([handle |-> Head(walk), signum |-> lock])
               /\ written' = TRUE /\ UNCHANGED <<walk, lost>>
            \/ /\ CaughtSame
               /\ walk' = Tail(walk) /\ written' = FALSE
               /\ lost' = lost \cup ({Head(walk)} \cap oneshot)
<1> DEFINE h == Head(walk)
           m == [handle |-> h, signum |-> lock]
<1>1. h \in Handles /\ lock \in Signums
  BY HeadTailProperties DEF HandlerWrite, SignalTypes, WalkHolds
<1>2. m \in Message /\ m.handle = h
  BY <1>1 DEF Message
<1>3. UNCHANGED <<buf, pc, life, signum, oneshot, trapped, disposition, raised, lock>>
  BY DEF HandlerWrite, handleVars, loopVars
<1>4. CASE Len(pipe[LoopOf[h]]) < PipeSize
  <2>1. pipe' = [pipe EXCEPT ![LoopOf[h]] = Append(@, m)] /\ written' = TRUE /\ UNCHANGED <<walk, lost>>
    BY <1>4 DEF HandlerWrite
  <2> HIDE DEF m, h
  <2>2. CaughtMore(m)
    BY <1>2, <1>3, <2>1, WriteAddsMessage
  <2> QED BY <1>1, <1>2, <1>3, <2>1, <2>2 DEF m, h
<1>5. CASE ~(Len(pipe[LoopOf[h]]) < PipeSize)
  <2>1. pipe' = pipe /\ walk' = Tail(walk) /\ written' = FALSE /\ lost' = lost \cup ({h} \cap oneshot)
    BY <1>5 DEF HandlerWrite, SignalTypes
  <2>2. CaughtSame
    BY <1>3, <2>1 DEF CaughtSame, Caught
  <2> QED BY <1>1, <1>2, <1>3, <2>1, <2>2
<1> QED BY <1>4, <1>5

LEMMA DispatchEffect ==
  ASSUME SignalTypes, LoopHolds, NEW l \in Loops, Dispatched(l)
  PROVE  /\ CaughtLess(l) /\ Caught(l) # << >> /\ Head(Caught(l)) = Head(buf[l])
         /\ LoopOf[Head(Caught(l)).handle] = l /\ Head(buf[l]).handle \in Handles
<1>1. buf[l] # << >> /\ UNCHANGED pipe /\ buf' = [buf EXCEPT ![l] = Tail(@)]
  BY DEF Dispatched, LoopHolds
<1>2. CaughtLess(l) /\ Caught(l) # << >> /\ Head(Caught(l)) = Head(buf[l])
  BY <1>1, DispatchRemovesMessage
<1>3. Len(Caught(l)) \in Nat \ {0} /\ Head(Caught(l)) = Caught(l)[1] /\ Head(Caught(l)) \in Message
  BY <1>2, CaughtType, EmptySeq, HeadTailProperties
<1>4. LoopOf[Head(Caught(l)).handle] = l
  BY <1>3 DEF LoopHolds
<1>5. Head(buf[l]).handle \in Handles
  BY <1>2, <1>3 DEF Message
<1> QED BY <1>2, <1>4, <1>5

\* All other steps leave the messages alone.
LEMMA OthersKeepCaught ==
  ASSUME SignalTypes, LoopHolds, [Next]_vars, ~HandlerWrite, \A l \in Loops : ~Dispatched(l)
  PROVE  CaughtSame
<1>1. CASE UNCHANGED <<pipe, buf>>
  BY <1>1 DEF CaughtSame, Caught
<1> QED BY <1>1, ReadKeepsCaught
        DEF Next, User, HandlerStep, EventStep, uv_signal_init, uv_signal_start, uv_signal_stop, uv_close,
            FinishClose, Raise, HandlerLock, HandlerCount, HandlerUnlock, Dispatch, CallbackReturns,
            EventDone, loopVars, vars

LEMMA CaughtStep ==
  ASSUME SignalTypes, WalkHolds, LoopHolds, [Next]_vars
  PROVE  \/ CaughtSame
         \/ \E m \in Message : CaughtMore(m)
         \/ \E l \in Loops : CaughtLess(l) /\ Caught(l) # << >>
BY WriteEffect, DispatchEffect, OthersKeepCaught

LEMMA LoopStep ==
  ASSUME SignalTypes, SignalTypes', WalkHolds, LoopHolds, [Next]_vars
  PROVE  LoopHolds'
<1>1. ASSUME NEW l \in Loops
      PROVE  /\ pc'[l] = "loop" => buf'[l] = << >>
             /\ pc'[l] \in {"cb", "after"} => buf'[l] # << >>
  <2>1. CASE UNCHANGED <<buf, pc>>
    BY <2>1 DEF LoopHolds
  <2>2. ASSUME NEW k \in Loops, Read(k) \/ Dispatch(k) \/ CallbackReturns(k) \/ Dispatched(k) \/ EventDone(k)
        PROVE  /\ pc'[l] = "loop" => buf'[l] = << >>
               /\ pc'[l] \in {"cb", "after"} => buf'[l] # << >>
    <3>1. CASE k = l
      BY SMTT(30), <2>2, <3>1 DEF LoopHolds, SignalTypes, Read, Dispatch, CallbackReturns, Dispatched, EventDone
    <3>2. CASE k # l
      <4>1. pc'[l] = pc[l] /\ buf'[l] = buf[l]
        BY SMTT(30), <2>2, <3>2 DEF SignalTypes, Read, Dispatch, CallbackReturns, Dispatched, EventDone
      <4> QED BY <4>1 DEF LoopHolds
    <3> QED BY <3>1, <3>2
  <2> QED BY <2>1, <2>2
          DEF Next, User, HandlerStep, EventStep, uv_signal_init, uv_signal_start, uv_signal_stop,
              uv_close, FinishClose, Raise, HandlerLock, HandlerWrite, HandlerCount, HandlerUnlock,
              loopVars, vars
<1>2. ASSUME NEW l \in Loops, NEW i \in 1..Len(Caught(l)')
      PROVE  LoopOf[Caught(l)'[i].handle] = l
  <2>0. Caught(l) \in Seq(Message) /\ Len(Caught(l)) \in Nat
    BY CaughtType, LenProperties
  <2>1. CASE CaughtSame
    BY <1>2, <2>1 DEF CaughtSame, LoopHolds
  <2>2. ASSUME NEW m \in Message, CaughtMore(m)
        PROVE  LoopOf[Caught(l)'[i].handle] = l
    <3>1. m \in Message /\ CaughtMore(m)
      BY <2>2
    <3>2. CASE l = LoopOf[m.handle]
      <4>1. Caught(l)' = Append(Caught(l), m)
        BY <3>1, <3>2 DEF CaughtMore
      <4>2. /\ Len(Append(Caught(l), m)) = Len(Caught(l)) + 1
            /\ \A j \in 1..Len(Caught(l)) : Append(Caught(l), m)[j] = Caught(l)[j]
            /\ Append(Caught(l), m)[Len(Caught(l)) + 1] = m
        BY <2>0, <3>1, AppendProperties
      <4> QED BY <1>2, <2>0, <3>2, <4>1, <4>2 DEF LoopHolds
    <3>3. CASE l # LoopOf[m.handle]
      <4>1. Caught(l)' = Caught(l)
        BY <3>1, <3>3 DEF CaughtMore
      <4> QED BY <1>2, <4>1 DEF LoopHolds
    <3> QED BY <3>2, <3>3
  <2>3. ASSUME NEW k \in Loops, CaughtLess(k), Caught(k) # << >>
        PROVE  LoopOf[Caught(l)'[i].handle] = l
    <3>1. CASE l = k
      <4>1. Caught(l)' = Tail(Caught(l))
        BY <2>3, <3>1 DEF CaughtLess
      <4>2. /\ Len(Tail(Caught(l))) = Len(Caught(l)) - 1
            /\ \A j \in 1..Len(Tail(Caught(l))) : Tail(Caught(l))[j] = Caught(l)[j + 1]
        BY <2>0, <2>3, <3>1, HeadTailProperties
      <4>3. i + 1 \in 1..Len(Caught(l)) /\ Caught(l)'[i] = Caught(l)[i + 1]
        BY <1>2, <2>0, <4>1, <4>2
      <4> QED BY <4>3 DEF LoopHolds
    <3>2. CASE l # k
      <4>1. Caught(l)' = Caught(l)
        BY <2>3, <3>2 DEF CaughtLess
      <4> QED BY <1>2, <4>1 DEF LoopHolds
    <3> QED BY <3>1, <3>2
  <2> QED BY <2>1, <2>2, <2>3, CaughtStep
<1> QED BY <1>1, <1>2 DEF LoopHolds

\* Only init, counting and dispatching change the count; only the handler's
\* steps change what is uncounted.
LEMMA ExactStep ==
  ASSUME StaleInv, WalkHolds', [Next]_vars
  PROVE  Exact'
<1> USE DEF StaleInv
<1>0. ASSUME NEW g \in Handles, life[g] # "open" PROVE Uncounted(g) = 0
  <2>1. CASE written /\ Head(walk) = g
    <3>1. Linked(walk, g) /\ walk # << >>
      BY <2>1, TailDistinct DEF WalkHolds, SignalTypes
    <3> QED BY <1>0, <3>1 DEF WalkHolds
  <2> QED BY <2>1 DEF Uncounted
\* The messages, the walk and the counters stay.
<1>1. ASSUME CaughtSame, UNCHANGED <<trapped, walk, written>>,
             \A g \in Handles : life'[g] = "none" => life[g] = "none"
      PROVE  Exact'
  <2>1. \A g \in Handles : MessagesTo(g)' = MessagesTo(g)
    BY <1>1, SameMessages
  <2> QED BY <1>1, <2>1 DEF Exact, Uncounted
<1>2. ASSUME NEW h \in Handles, uv_signal_init(h) PROVE Exact'
  <2>1. CaughtSame
    BY <1>2 DEF uv_signal_init, loopVars, CaughtSame, Caught
  <2>2. MessagesTo(h) = {} /\ Cardinality({}) = 0 /\ Uncounted(h) = 0
    BY <1>0, <1>2, FS_EmptySet DEF uv_signal_init, Exact
  <2>3. ASSUME NEW g \in Handles PROVE MessagesTo(g)' = MessagesTo(g) /\ Uncounted(g)' = Uncounted(g)
    BY <1>2, <2>1, SameMessages DEF uv_signal_init, handlerVars, Uncounted
  <2>4. ASSUME NEW g \in Handles
        PROVE  /\ trapped'[g] = IF g = h THEN 0 ELSE trapped[g]
               /\ life'[g] = "none" => life[g] = "none"
    BY <1>2 DEF uv_signal_init, SignalTypes
  <2> QED BY <2>2, <2>3, <2>4 DEF Exact
<1>3. ASSUME NEW h \in Handles, FinishClose(h) PROVE Exact'
  <2>1. CaughtSame /\ UNCHANGED <<trapped, walk, written>>
    BY <1>3 DEF FinishClose, handlerVars, loopVars, CaughtSame, Caught
  <2>2. \A g \in Handles : MessagesTo(g)' = MessagesTo(g)
    BY <2>1, SameMessages
  <2>3. MessagesTo(h) = {}
    <3>1. trapped[h] <= 0 /\ Uncounted(h) = 0
      BY <1>0, <1>3 DEF FinishClose, AllDispatched
    <3>2. Caught(LoopOf[h]) \in Seq(Message)
      BY CaughtType, LoopsAssumption
    <3>3. MessagesTo(h) = PositionsIn(Caught(LoopOf[h]), To(h))
      BY <3>2, MessagesArePlaces DEF MessagesTo
    <3>4. IsFiniteSet(MessagesTo(h)) /\ Cardinality(MessagesTo(h)) \in Nat
      BY <3>2, <3>3, PlacesFinite
    <3>5. Cardinality(MessagesTo(h)) = 0
      BY <3>1, <3>4 DEF Exact
    <3> QED BY <3>4, <3>5, FS_EmptySet
  <2>4. \A g \in Handles : g # h => life'[g] = life[g]
    BY <1>3 DEF FinishClose, SignalTypes
  <2> QED BY <2>1, <2>2, <2>3, <2>4 DEF Exact, Uncounted
<1>4. ASSUME NEW s \in Signums, HandlerLock(s) PROVE Exact'
  <2>1. CaughtSame /\ UNCHANGED <<trapped, written, life>>
    BY <1>4 DEF HandlerLock, handleVars, loopVars, CaughtSame, Caught
  <2>2. \A g \in Handles : MessagesTo(g)' = MessagesTo(g)
    BY <2>1, SameMessages
  <2>3. written = FALSE
    BY <1>4 DEF HandlerLock, WalkHolds, SignalTypes
  <2> QED BY <2>1, <2>2, <2>3 DEF Exact, Uncounted
<1>5. CASE HandlerWrite
  <2> DEFINE h == Head(walk)
             m == [handle |-> h, signum |-> lock]
  <2>0. h \in Handles /\ m \in Message /\ m.handle = h /\ UNCHANGED <<life, trapped>>
        /\ written = FALSE /\ walk # << >> /\ life[h] = "open"
    <3>1. h \in Handles /\ m \in Message /\ m.handle = h /\ UNCHANGED <<life, trapped>> /\ lock \in Signums
      BY <1>5, WriteEffect
    <3>2. written = FALSE /\ walk # << >>
      BY <1>5 DEF HandlerWrite, SignalTypes
    <3>3. Linked(walk, h)
      BY <3>2, TailDistinct DEF WalkHolds, SignalTypes
    <3> QED BY <3>1, <3>2, <3>3, SignumsAssumption DEF WalkHolds
  <2>1. CASE CaughtMore(m) /\ written' = TRUE /\ UNCHANGED walk
    <3> HIDE DEF m
    <3>1. ASSUME NEW g \in Handles
          PROVE  /\ Cardinality(MessagesTo(g)) \in Nat
                 /\ Cardinality(MessagesTo(g)') = Cardinality(MessagesTo(g)) + (IF h = g THEN 1 ELSE 0)
                 /\ h # g => MessagesTo(g)' = MessagesTo(g)
      BY <2>0, <2>1, MoreMessages
    <3>2. ASSUME NEW g \in Handles PROVE Uncounted(g) = 0 /\ Uncounted(g)' = IF h = g THEN 1 ELSE 0
      BY <2>0, <2>1 DEF Uncounted
    <3> HIDE DEF h
    <3>3. ASSUME NEW g \in Handles PROVE trapped'[g] = Cardinality(MessagesTo(g)') - Uncounted(g)'
      BY <2>0, <3>1, <3>2 DEF Exact
    <3>4. ASSUME NEW g \in Handles, life'[g] = "none" PROVE MessagesTo(g)' = {}
      BY <2>0, <3>1, <3>4 DEF Exact
    <3> QED BY <3>3, <3>4 DEF Exact
  <2>2. CASE CaughtSame /\ written' = FALSE
    <3>1. \A g \in Handles : MessagesTo(g)' = MessagesTo(g)
      BY <2>2, SameMessages
    <3> QED BY <2>0, <2>2, <3>1 DEF Exact, Uncounted
  <2> QED BY <1>5, <2>1, <2>2, WriteEffect
<1>6. CASE HandlerCount
  <2> DEFINE h == Head(walk)
  <2>1. CaughtSame /\ UNCHANGED life
    BY <1>6 DEF HandlerCount, loopVars, CaughtSame, Caught
  <2>2. \A g \in Handles : MessagesTo(g)' = MessagesTo(g)
    BY <2>1, SameMessages
  <2>3. ASSUME NEW g \in Handles PROVE Uncounted(g)' = 0 /\ Uncounted(g) = IF h = g THEN 1 ELSE 0
    BY <1>6 DEF HandlerCount, Uncounted
  <2>4. trapped' = [trapped EXCEPT ![h] = @ + 1] /\ trapped \in [Handles -> Int]
    BY <1>6 DEF HandlerCount, SignalTypes
  <2>5. ASSUME NEW g \in Handles PROVE Cardinality(MessagesTo(g)) \in Int
    <3>1. Caught(LoopOf[g]) \in Seq(Message)
      BY CaughtType, LoopsAssumption
    <3>2. MessagesTo(g) = PositionsIn(Caught(LoopOf[g]), To(g))
      BY <3>1, MessagesArePlaces DEF MessagesTo
    <3> QED BY <3>1, <3>2, PlacesFinite
  <2> HIDE DEF h
  <2>6. ASSUME NEW g \in Handles PROVE trapped'[g] = Cardinality(MessagesTo(g)') - Uncounted(g)'
    BY <2>2, <2>3, <2>4, <2>5 DEF Exact
  <2> QED BY <2>1, <2>2, <2>6 DEF Exact
<1>7. ASSUME NEW l \in Loops, Dispatched(l) PROVE Exact'
  <2> DEFINE m == Head(Caught(l))
             h == m.handle
  <2>1. CaughtLess(l) /\ Caught(l) # << >> /\ Head(buf[l]) = m /\ LoopOf[h] = l /\ h \in Handles
    BY <1>7, DispatchEffect
  <2>2. UNCHANGED <<life, walk, written>> /\ trapped' = [trapped EXCEPT ![h] = @ - 1]
        /\ trapped \in [Handles -> Int]
    BY <1>7, <2>1 DEF Dispatched, handlerVars, SignalTypes
  <2>3. ASSUME NEW g \in Handles
        PROVE  /\ Cardinality(MessagesTo(g)) \in Nat
               /\ Cardinality(MessagesTo(g)') = Cardinality(MessagesTo(g)) - (IF h = g THEN 1 ELSE 0)
               /\ MessagesTo(g) = {} => MessagesTo(g)' = {}
    BY <2>1, LessMessages
  <2>4. ASSUME NEW g \in Handles PROVE Uncounted(g)' = Uncounted(g) /\ Uncounted(g) \in Int
    BY <2>2 DEF Uncounted
  <2> HIDE DEF h
  <2>5. ASSUME NEW g \in Handles PROVE trapped'[g] = Cardinality(MessagesTo(g)') - Uncounted(g)'
    BY <2>1, <2>2, <2>3, <2>4 DEF Exact
  <2> QED BY <2>2, <2>3, <2>5 DEF Exact
<1>8. CASE /\ ~HandlerWrite /\ \A l \in Loops : ~Dispatched(l)
           /\ UNCHANGED <<trapped, walk, written>>
           /\ \A g \in Handles : life'[g] = "none" => life[g] = "none"
  BY <1>1, <1>8, OthersKeepCaught
<1>9. ASSUME NEW h \in Handles, uv_close(h)
      PROVE  UNCHANGED <<trapped, walk, written>> /\ \A g \in Handles : life'[g] = "none" => life[g] = "none"
  BY <1>9 DEF uv_close, handlerVars, SignalTypes
<1>10. ASSUME NEW l \in Loops, Read(l) PROVE Exact'
  BY <1>1, <1>10, ReadKeepsCaught DEF Read, handleVars, handlerVars
<1>11. ASSUME NEW h \in Handles, NEW s \in Signums, NEW once \in BOOLEAN, uv_signal_start(h, s, once)
       PROVE  Exact'
  BY <1>1, <1>11 DEF uv_signal_start, handlerVars, loopVars, CaughtSame, Caught
<1>12. ASSUME NEW h \in Handles, uv_signal_stop(h) \/ uv_close(h) PROVE Exact'
  BY <1>1, <1>9, <1>12 DEF uv_signal_stop, uv_close, handlerVars, loopVars, CaughtSame, Caught
<1>13. ASSUME NEW s \in Signums, Raise(s) PROVE Exact'
  BY <1>1, <1>13 DEF Raise, handleVars, loopVars, CaughtSame, Caught
<1>14. CASE HandlerUnlock
  BY <1>1, <1>14 DEF HandlerUnlock, handleVars, loopVars, CaughtSame, Caught
<1>15. ASSUME NEW l \in Loops, Dispatch(l) \/ CallbackReturns(l) \/ EventDone(l) PROVE Exact'
  BY <1>1, <1>15 DEF Dispatch, CallbackReturns, EventDone, handleVars, handlerVars, CaughtSame, Caught
<1>16. CASE UNCHANGED vars
  BY <1>1, <1>16 DEF vars, handleVars, handlerVars, loopVars, CaughtSame, Caught
<1> QED BY <1>2, <1>3, <1>4, <1>5, <1>6, <1>7, <1>10, <1>11, <1>12, <1>13, <1>14, <1>15, <1>16
        DEF Next, User, HandlerStep, EventStep

\* For every number of handles, loops and signals, and every size of the pipes
\* and of the buffer: uv__finish_close gives a handle back only when nothing
\* that is under way points to it, and the difference of the two counters is
\* the number of messages under way, apart from one that the handler has
\* written and not counted.
THEOREM NoSignalToAStaleHandle == Spec => []NoStaleHandle
<1>1. StaleInv /\ [Next]_vars => StaleInv'
  BY SignalTypesStep, WalkStep, LoopStep, ExactStep DEF StaleInv
<1>2. StaleInv => NoStaleHandle
  <2> SUFFICES ASSUME StaleInv, NEW h \in Handles
               PROVE  /\ trapped[h] = Cardinality(MessagesTo(h)) - IF written /\ Head(walk) = h THEN 1 ELSE 0
                      /\ life[h] = "none" => MessagesTo(h) = {} /\ ~Contains(walk, h)
    BY DEF NoStaleHandle
  <2>1. trapped[h] = Cardinality(MessagesTo(h)) - IF written /\ Head(walk) = h THEN 1 ELSE 0
    BY DEF StaleInv, Exact, Uncounted
  <2>2. ASSUME life[h] = "none", Contains(walk, h) PROVE FALSE
    <3>1. Linked(walk, h)
      BY <2>2 DEF Linked, Contains
    <3>2. signum[h] = lock /\ signum[h] = NoSignal
      BY <2>2, <3>1 DEF StaleInv, WalkHolds
    <3> QED BY <3>1, <3>2, EmptyLinksNothing DEF StaleInv, WalkHolds
  <2>3. life[h] = "none" => MessagesTo(h) = {}
    BY DEF StaleInv, Exact
  <2> QED BY <2>1, <2>2, <2>3
<1> QED BY <1>1, <1>2, SignalInitInv, PTL DEF Spec

\* A watcher that goes on keeps what the signal is handled by.
LEMMA StopServes ==
  ASSUME SignalTypes, NEW h \in Handles, StopWatcher(h), NEW s \in Signums, NEW g \in Watchers(s), g # h
  PROVE  /\ g \in Watchers(s)' /\ disposition[s] # "default" => disposition'[s] # "default"
         /\ g \notin oneshot /\ disposition[s] = "handler" => disposition'[s] = "handler"
         /\ g \in lost => g \in lost'
<1>1. /\ \A f \in Handles : f # h => signum'[f] = signum[f]
      /\ lost \ {h} \subseteq lost'
      /\ \A t \in Signums : t # signum[h] => disposition'[t] = disposition[t]
      /\ signum[h] # NoSignal => disposition'[signum[h]] = DispositionWithout(h)
  BY Stopped
<1>2. g \in Handles /\ signum[g] = s
  BY DEF Watchers
<1>3. CASE s # signum[h]
  BY <1>1, <1>2, <1>3 DEF Watchers
<1>4. CASE s = signum[h]
  <2> DEFINE others == Watchers(signum[h]) \ {h}
  <2>1. g \in others /\ signum[h] # NoSignal
    BY <1>2, <1>4, SignumsAssumption
  <2>2. others # {} /\ (g \notin oneshot => ~FirstIsOneshot(others))
    BY <2>1 DEF FirstIsOneshot
  <2>3. DispositionWithout(h) = "reset" \/ DispositionWithout(h) = disposition[s]
    BY <1>4, <2>2 DEF DispositionWithout
  <2>4. g \notin oneshot => DispositionWithout(h) = disposition[s]
    BY <1>4, <2>2 DEF DispositionWithout
  <2> QED BY <1>1, <1>2, <1>4, <2>1, <2>3, <2>4 DEF Watchers
<1> QED BY <1>3, <1>4

LEMMA RegularStep ==
  ASSUME StaleInv, RegularServed, [Next]_vars
  PROVE  RegularServed'
<1> USE DEF StaleInv, SignalTypes
<1>1. ASSUME NEW h \in Handles, uv_signal_init(h) PROVE RegularServed'
  <2>1. signum' = signum /\ disposition' = disposition /\ oneshot' = oneshot \ {h} /\ signum[h] = NoSignal
    BY <1>1 DEF uv_signal_init, WalkHolds
  <2> QED BY <2>1 DEF RegularServed
<1>2. ASSUME NEW h \in Handles, NEW s \in Signums, NEW once \in BOOLEAN, uv_signal_start(h, s, once)
      PROVE  RegularServed'
  <2> SUFFICES ASSUME NEW g \in Handles, signum'[g] # NoSignal, g \notin oneshot'
               PROVE  disposition'[signum'[g]] = "handler"
    BY DEF RegularServed
  <2>1. /\ signum[h] = NoSignal /\ signum' = [signum EXCEPT ![h] = s]
        /\ disposition' = IF Registers(s, once)
                          THEN [disposition EXCEPT ![s] = IF once THEN "reset" ELSE "handler"]
                          ELSE disposition
        /\ oneshot' = IF once THEN oneshot \cup {h} ELSE oneshot
    BY <1>2 DEF uv_signal_start
  <2>2. g \notin oneshot
    BY <2>1
  <2>3. CASE g = h
    <3>1. once = FALSE /\ signum'[g] = s
      BY <2>1, <2>3
    <3>2. CASE Registers(s, once)
      BY <2>1, <3>1, <3>2
    <3>3. CASE ~Registers(s, once)
      <4>1. PICK k \in Watchers(s) : k \notin oneshot
        BY <3>1, <3>3 DEF Registers, FirstIsOneshot
      <4>2. disposition[s] = "handler"
        BY <4>1, SignumsAssumption DEF RegularServed, Watchers
      <4> QED BY <2>1, <3>1, <3>3, <4>2
    <3> QED BY <3>2, <3>3
  <2>4. CASE g # h
    <3>1. signum'[g] = signum[g] /\ disposition[signum[g]] = "handler" /\ g \in Watchers(signum[g])
      BY <2>1, <2>2, <2>4 DEF RegularServed, Watchers
    <3>2. CASE Registers(s, once) /\ signum[g] = s
      <4>1. once = FALSE
        BY <2>2, <3>1, <3>2 DEF Registers
      <4> QED BY <2>1, <3>1, <3>2, <4>1
    <3>3. CASE ~(Registers(s, once) /\ signum[g] = s)
      BY <2>1, <3>1, <3>3
    <3> QED BY <3>2, <3>3
  <2> QED BY <2>3, <2>4
<1>3. ASSUME NEW h \in Handles, StopWatcher(h), UNCHANGED oneshot PROVE RegularServed'
  <2> SUFFICES ASSUME NEW g \in Handles, signum'[g] # NoSignal, g \notin oneshot
               PROVE  disposition'[signum'[g]] = "handler"
    BY <1>3 DEF RegularServed
  <2>1. g # h /\ signum'[g] = signum[g]
    BY <1>3, Stopped
  <2>2. signum[g] \in Signums /\ g \in Watchers(signum[g]) /\ disposition[signum[g]] = "handler"
    BY <2>1 DEF Watchers, RegularServed
  <2> QED BY <1>3, <2>1, <2>2, StopServes
<1>4. ASSUME NEW s \in Signums, Raise(s) PROVE RegularServed'
  <2>1. \A t \in Signums : disposition[t] = "handler" => disposition'[t] = "handler"
    BY <1>4 DEF Raise
  <2> QED BY <1>4, <2>1 DEF RegularServed, Raise, handleVars
<1>5. CASE UNCHANGED <<signum, oneshot, disposition>>
  BY <1>5 DEF RegularServed
<1>6. ASSUME NEW l \in Loops, Dispatched(l) PROVE RegularServed'
  <2> DEFINE h == Head(buf[l]).handle
  <2>1. h \in Handles
    BY <1>6, DispatchEffect
  <2>2. /\ UNCHANGED oneshot
        /\ IF h \in oneshot THEN StopWatcher(h) ELSE UNCHANGED <<signum, lost, disposition>>
    BY <1>6 DEF Dispatched
  <2> HIDE DEF h
  <2> QED BY <1>3, <1>5, <2>1, <2>2
<1>7. ASSUME NEW h \in Handles, uv_signal_stop(h) \/ uv_close(h) PROVE RegularServed'
  BY <1>3, <1>7 DEF uv_signal_stop, uv_close
<1>8. CASE HandlerStep \/ UNCHANGED vars \/ (\E h \in Handles : FinishClose(h))
           \/ \E l \in Loops : Read(l) \/ Dispatch(l) \/ CallbackReturns(l) \/ EventDone(l)
  BY <1>5, <1>8 DEF HandlerStep, HandlerLock, HandlerWrite, HandlerCount, HandlerUnlock, FinishClose,
                    Read, Dispatch, CallbackReturns, EventDone, vars, handleVars
<1> QED BY <1>1, <1>2, <1>4, <1>6, <1>7, <1>8 DEF Next, User, EventStep

LEMMA ServedStep ==
  ASSUME StaleInv, ServedInv, Careful, [Next]_vars
  PROVE  AllServed'
<1> USE DEF StaleInv, ServedInv
\* No watcher is added, and what serves one goes on serving it.
<1>1. ASSUME \A s \in Signums : \A g \in Watchers(s)' : g \in Watchers(s) /\ (Served(s, g) => Served(s, g)')
      PROVE  AllServed'
  BY <1>1 DEF AllServed
<1>2. ASSUME CaughtSame, UNCHANGED <<signum, disposition, raised, lock, walk, written, lost>>
      PROVE  AllServed'
  <2>1. \A s \in Signums : Watchers(s)' = Watchers(s)
    BY <1>2 DEF Watchers
  <2>2. ASSUME NEW s \in Signums, NEW g \in Handles, Served(s, g) PROVE Served(s, g)'
    BY <1>2, <2>2, SameMessages DEF Served, Reaches, ToVisit
  <2> QED BY <1>1, <2>1, <2>2 DEF Watchers
<1>3. ASSUME NEW h \in Handles, uv_signal_init(h) PROVE AllServed'
  <2>1. signum' = signum
    BY <1>3 DEF uv_signal_init, WalkHolds, SignalTypes
  <2> QED BY <1>2, <1>3, <2>1 DEF uv_signal_init, handlerVars, loopVars, CaughtSame, Caught
<1>4. ASSUME NEW h \in Handles, NEW s0 \in Signums, NEW once \in BOOLEAN, uv_signal_start(h, s0, once)
      PROVE  AllServed'
  <2> SUFFICES ASSUME NEW s \in Signums, NEW g \in Watchers(s)' PROVE Served(s, g)'
    BY DEF AllServed
  <2>1. /\ signum[h] = NoSignal /\ signum' = [signum EXCEPT ![h] = s0]
        /\ disposition' = IF Registers(s0, once)
                          THEN [disposition EXCEPT ![s0] = IF once THEN "reset" ELSE "handler"]
                          ELSE disposition
        /\ once => Watchers(s0) \cap oneshot = {}
        /\ CaughtSame /\ UNCHANGED <<raised, lock, walk, written, lost>>
    BY <1>4 DEF uv_signal_start, handlerVars, loopVars, CaughtSame, Caught
  <2>2. g \in Handles /\ signum'[g] = s
    BY DEF Watchers
  <2>3. CASE disposition'[s] # "default"
    BY <2>3 DEF Served
  <2>4. CASE g # h /\ disposition'[s] = "default"
    <3>1. disposition[s] = "default"
      BY <2>1, <2>4 DEF SignalTypes
    <3>2. g \in Watchers(s)
      BY <2>1, <2>2, <2>4 DEF Watchers, SignalTypes
    <3>3. Served(s, g)
      BY <3>2 DEF AllServed
    <3> QED BY <2>1, <2>2, <3>1, <3>3, SameMessages DEF Served, Reaches, ToVisit
  <2>5. CASE g = h /\ disposition'[s] = "default"
    <3>1. s = s0
      BY <2>1, <2>2, <2>5 DEF SignalTypes
    <3>2. ~Registers(s, once) /\ disposition[s] = "default"
      BY <2>1, <2>5, <3>1 DEF SignalTypes
    <3>3. PICK k \in Watchers(s) : k \notin oneshot
      BY <2>1, <3>1, <3>2 DEF Registers, FirstIsOneshot
    <3>4. disposition[s] = "handler"
      BY <3>3, SignumsAssumption DEF RegularServed, Watchers
    <3> QED BY <3>2, <3>4
  <2> QED BY <2>3, <2>4, <2>5
\* h stops, and its messages may go.
<1>5. ASSUME NEW h \in Handles, StopWatcher(h), UNCHANGED handlerVars,
             \A g \in Handles : \A s : g # h /\ Reaches(g, s) => Reaches(g, s)'
      PROVE  AllServed'
  <2> SUFFICES ASSUME NEW s \in Signums, NEW g \in Watchers(s)'
               PROVE  g \in Watchers(s) /\ (Served(s, g) => Served(s, g)')
    BY <1>1
  <2>1. g \in Handles /\ g # h /\ g \in Watchers(s)
    BY <1>5, Stopped, SignumsAssumption DEF Watchers
  <2>2. /\ disposition[s] # "default" => disposition'[s] # "default"
        /\ g \in lost => g \in lost'
    BY <1>5, <2>1, StopServes
  <2> QED BY <1>5, <2>1, <2>2 DEF Served, Reaches, ToVisit, handlerVars
<1>6. ASSUME NEW h \in Handles, uv_signal_stop(h) \/ uv_close(h) PROVE AllServed'
  <2>1. StopWatcher(h) /\ UNCHANGED handlerVars /\ CaughtSame
    BY <1>6 DEF uv_signal_stop, uv_close, loopVars, CaughtSame, Caught
  <2>2. \A g \in Handles : \A s : g # h /\ Reaches(g, s) => Reaches(g, s)'
    BY <2>1, SameMessages
  <2> QED BY <1>5, <2>1, <2>2
<1>7. ASSUME NEW s0 \in Signums, Raise(s0) PROVE AllServed'
  <2> SUFFICES ASSUME NEW s \in Signums, NEW g \in Watchers(s)'
               PROVE  g \in Watchers(s) /\ (Served(s, g) => Served(s, g)')
    BY <1>1
  <2>1. /\ CaughtSame /\ UNCHANGED <<signum, lock, walk, written, lost>>
        /\ s0 \notin raised /\ raised' = raised \cup {s0}
        /\ \A t \in Signums : t # s0 => disposition'[t] = disposition[t]
    BY <1>7 DEF Raise, handleVars, loopVars, CaughtSame, Caught, SignalTypes
  <2>2. g \in Handles /\ g \in Watchers(s)
    BY <2>1 DEF Watchers
  <2>3. CASE s = s0
    <3>1. lock # s
      BY <2>1, <2>3, SignumsAssumption DEF WalkHolds
    <3> QED BY <2>1, <2>2, <2>3, <3>1 DEF Served
  <2>4. CASE s # s0
    BY <2>1, <2>2, <2>4, SameMessages DEF Served, Reaches, ToVisit
  <2> QED BY <2>3, <2>4
<1>8. ASSUME NEW s0 \in Signums, HandlerLock(s0) PROVE AllServed'
  <2> SUFFICES ASSUME NEW s \in Signums, NEW g \in Watchers(s)'
               PROVE  g \in Watchers(s) /\ (Served(s, g) => Served(s, g)')
    BY <1>1
  <2>1. /\ CaughtSame /\ UNCHANGED <<signum, disposition, raised, written, lost>>
        /\ lock = NoSignal /\ lock' = s0 /\ walk' = InOrder(s0)
        /\ written = FALSE
    BY <1>8 DEF HandlerLock, handleVars, loopVars, CaughtSame, Caught, SignalTypes, WalkHolds
  <2>2. g \in Handles /\ g \in Watchers(s)
    BY <2>1 DEF Watchers
  <2>3. CASE s = s0
    <3>1. Linked(walk', g)
      BY <2>1, <2>2, <2>3, LockedWalk
    <3> QED BY <2>1, <2>2, <2>3, <3>1 DEF Served, ToVisit
  <2>4. CASE s # s0
    <3>1. lock # s
      BY <2>1, SignumsAssumption
    <3> QED BY <2>1, <2>2, <2>4, <3>1, SameMessages DEF Served, Reaches
  <2> QED BY <2>3, <2>4
<1>9. CASE HandlerWrite
  <2> DEFINE h == Head(walk)
             m == [handle |-> h, signum |-> lock]
  <2> SUFFICES ASSUME NEW s \in Signums, NEW g \in Watchers(s)'
               PROVE  g \in Watchers(s) /\ (Served(s, g) => Served(s, g)')
    BY <1>1
  <2>1. /\ h \in Handles /\ m \in Message /\ m.handle = h /\ m.signum = lock
        /\ UNCHANGED <<signum, oneshot, disposition, raised, lock>>
        /\ \/ CaughtMore(m) /\ written' = TRUE /\ UNCHANGED <<walk, lost>>
           \/ CaughtSame /\ walk' = Tail(walk) /\ written' = FALSE
              /\ lost' = lost \cup ({h} \cap oneshot)
        /\ walk # << >> /\ written = FALSE
    <3>1. walk # << >> /\ written = FALSE
      BY <1>9 DEF HandlerWrite, SignalTypes
    <3>2. UNCHANGED <<signum, oneshot, disposition, raised, lock>>
      BY <1>9 DEF HandlerWrite, handleVars
    <3>3. /\ h \in Handles /\ m \in Message /\ m.handle = h /\ m.signum = lock
          /\ \/ CaughtMore(m) /\ written' = TRUE /\ UNCHANGED <<walk, lost>>
             \/ CaughtSame /\ walk' = Tail(walk) /\ written' = FALSE
                /\ lost' = lost \cup ({h} \cap oneshot)
      BY <1>9, WriteEffect
    <3> QED BY <3>1, <3>2, <3>3
  <2>2. g \in Handles /\ g \in Watchers(s) /\ signum[g] = s
    BY <2>1 DEF Watchers
  <2>3. CASE CaughtMore(m) /\ written' = TRUE /\ UNCHANGED <<walk, lost>>
    <3> HIDE DEF m
    <3>1. /\ \A t : Reaches(g, t) => Reaches(g, t)'
          /\ h = g => Reaches(g, lock)'
      BY <2>1, <2>2, <2>3, MoreMessages
    <3> HIDE DEF h
    <3>2. CASE g = h /\ lock = s
      BY <2>1, <2>2, <3>1, <3>2 DEF Served
    <3>3. CASE ~(g = h /\ lock = s)
      <4>1. lock = s /\ ToVisit(g) => ToVisit(g)'
        BY <2>1, <2>3, <3>3 DEF ToVisit, h
      <4> QED BY <2>1, <2>2, <2>3, <3>1, <4>1 DEF Served
    <3> QED BY <3>2, <3>3
  <2>4. CASE CaughtSame /\ walk' = Tail(walk) /\ written' = FALSE /\ lost' = lost \cup ({h} \cap oneshot)
    <3>1. CASE g = h /\ g \in oneshot
      BY <2>4, <3>1, <2>2 DEF Served
    <3>2. CASE g = h /\ g \notin oneshot
      <4>1. disposition[s] = "handler"
        BY <2>2, <3>2, SignumsAssumption DEF RegularServed
      <4> QED BY <2>1, <2>2, <4>1 DEF Served
    <3>3. CASE g # h
      <4>1. ToVisit(g) => ToVisit(g)'
        BY <2>1, <2>4, <3>3, TailDistinct DEF ToVisit, WalkHolds, SignalTypes
      <4>2. \A t : Reaches(g, t) => Reaches(g, t)'
        BY <2>2, <2>4, SameMessages
      <4> QED BY <2>1, <2>2, <2>4, <4>1, <4>2 DEF Served, Reaches
    <3> QED BY <3>1, <3>2, <3>3
  <2> QED BY <2>1, <2>3, <2>4
<1>10. CASE HandlerCount
  <2> SUFFICES ASSUME NEW s \in Signums, NEW g \in Watchers(s)'
               PROVE  g \in Watchers(s) /\ (Served(s, g) => Served(s, g)')
    BY <1>1
  <2>1. /\ CaughtSame /\ UNCHANGED <<signum, disposition, raised, lock, lost>>
        /\ walk # << >> /\ written = TRUE /\ written' = FALSE /\ walk' = Tail(walk)
    BY <1>10 DEF HandlerCount, loopVars, CaughtSame, Caught, WalkHolds, SignalTypes
  <2>2. g \in Handles /\ g \in Watchers(s)
    BY <2>1 DEF Watchers
  <2>3. ToVisit(g) => ToVisit(g)'
    BY <2>1, TailDistinct DEF ToVisit, WalkHolds, SignalTypes
  <2>4. \A t : Reaches(g, t) => Reaches(g, t)'
    BY <2>1, <2>2, SameMessages
  <2> QED BY <2>1, <2>2, <2>3, <2>4 DEF Served, Reaches
<1>11. CASE HandlerUnlock
  <2> SUFFICES ASSUME NEW s \in Signums, NEW g \in Watchers(s)'
               PROVE  g \in Watchers(s) /\ (Served(s, g) => Served(s, g)')
    BY <1>1
  <2>1. /\ CaughtSame /\ UNCHANGED <<signum, disposition, lost>>
        /\ walk = << >> /\ lock' = NoSignal /\ raised' = raised \ {lock}
    BY <1>11 DEF HandlerUnlock, handleVars, loopVars, CaughtSame, Caught
  <2>2. g \in Handles /\ g \in Watchers(s)
    BY <2>1 DEF Watchers
  <2>3. ~ToVisit(g)
    BY <2>1, EmptyLinksNothing DEF ToVisit
  <2>4. \A t : Reaches(g, t) => Reaches(g, t)'
    BY <2>1, <2>2, SameMessages
  <2> QED BY <2>1, <2>2, <2>3, <2>4, SignumsAssumption DEF Served, Reaches
<1>12. ASSUME NEW l \in Loops, Dispatched(l) PROVE AllServed'
  <2> DEFINE h == Head(buf[l]).handle
  <2>1. /\ CaughtLess(l) /\ Caught(l) # << >> /\ Head(Caught(l)).handle = h
        /\ LoopOf[Head(Caught(l)).handle] = l /\ h \in Handles
    BY <1>12, DispatchEffect
  <2>2. /\ UNCHANGED handlerVars
        /\ IF h \in oneshot THEN StopWatcher(h) ELSE UNCHANGED <<signum, lost, disposition>>
    BY <1>12 DEF Dispatched
  <2> HIDE DEF h
  <2>3. \A g \in Handles : \A s : g # h /\ Reaches(g, s) => Reaches(g, s)'
    BY <2>1, LessMessages
  <2>4. CASE h \in oneshot
    BY <1>5, <2>1, <2>2, <2>3, <2>4
  <2>5. CASE h \notin oneshot
    <3> SUFFICES ASSUME NEW s \in Signums, NEW g \in Watchers(s)'
                 PROVE  g \in Watchers(s) /\ (Served(s, g) => Served(s, g)')
      BY <1>1
    <3>1. g \in Handles /\ g \in Watchers(s) /\ signum[g] = s
      BY <2>2, <2>5 DEF Watchers
    <3>2. CASE g = h
      <4>1. disposition[s] = "handler"
        BY <2>5, <3>1, <3>2, SignumsAssumption DEF RegularServed
      <4> QED BY <2>2, <2>5, <3>1, <4>1 DEF Served
    <3>3. CASE g # h
      BY <2>2, <2>3, <2>5, <3>1, <3>3 DEF Served, Reaches, ToVisit, handlerVars
    <3> QED BY <3>2, <3>3
  <2> QED BY <2>4, <2>5
<1>13. ASSUME NEW l \in Loops, Read(l) PROVE AllServed'
  BY <1>2, <1>13, ReadKeepsCaught DEF Read, handleVars, handlerVars
<1>14. CASE UNCHANGED vars \/ (\E h \in Handles : FinishClose(h))
            \/ \E l \in Loops : Dispatch(l) \/ CallbackReturns(l) \/ EventDone(l)
  BY <1>2, <1>14 DEF FinishClose, Dispatch, CallbackReturns, EventDone, vars, handleVars, handlerVars,
                     loopVars, CaughtSame, Caught
<1> QED BY <1>3, <1>4, <1>6, <1>7, <1>8, <1>9, <1>10, <1>11, <1>12, <1>13, <1>14
        DEF Next, User, HandlerStep, EventStep

\* For every number of handles, loops and signals, if the user has one one-shot
\* watcher of a signal at a time: a signal that is watched has its handler, or
\* it is on its way, whatever watchers come and go.
THEOREM WatchedSignalsAreHandled == ASSUME Careful PROVE Spec => []HandlerInstalled
<1>1. StaleInv /\ ServedInv /\ [Next]_vars => StaleInv' /\ ServedInv'
  BY SignalTypesStep, WalkStep, LoopStep, ExactStep, RegularStep, ServedStep DEF StaleInv, ServedInv
<1>2. StaleInv /\ ServedInv => HandlerInstalled
  <2> SUFFICES ASSUME StaleInv, ServedInv, NEW s \in Signums, NEW h \in Watchers(s)
               PROVE  \/ disposition[s] # "default"
                      \/ s \in raised
                      \/ \E i \in MessagesTo(h) : Caught(LoopOf[h])[i].signum = s
                      \/ h \in lost
    BY DEF HandlerInstalled
  <2>1. Served(s, h)
    BY DEF ServedInv, AllServed
  <2>2. lock = s => s \in raised
    BY SignumsAssumption DEF StaleInv, WalkHolds
  <2> QED BY <2>1, <2>2 DEF Served, Reaches
<1> QED BY <1>1, <1>2, SignalInitInv, PTL DEF Spec

\* Both together, to such a user.
THEOREM SignalsKeepPromise == ASSUME Careful PROVE Spec => []SignalPromise
BY NoSignalToAStaleHandle, WatchedSignalsAreHandled, PTL DEF SignalPromise

-----------------------------------------------------------------------------
(* Rings of nodes: next and prev are inverse, and no part is closed.        *)

ClosedUnder(nx, S) == \A m \in S : nx[m] \in S
Ring(nx, pv, A, h) ==
  /\ h \in A
  /\ \A n \in A : nx[n] \in A /\ pv[n] \in A /\ pv[nx[n]] = n /\ nx[pv[n]] = n
  /\ \A S \in SUBSET A : h \in S /\ ClosedUnder(nx, S) => A \subseteq S

\* Nobody links to a ring from inside but its nodes, once.
LEMMA RingSame ==
  ASSUME NEW nx, NEW pv, NEW nx2, NEW pv2, NEW A, NEW h, Ring(nx, pv, A, h),
         \A n \in A : nx2[n] = nx[n] /\ pv2[n] = pv[n]
  PROVE  Ring(nx2, pv2, A, h)
BY DEF Ring, ClosedUnder

LEMMA RingAlone ==
  ASSUME NEW nx, NEW pv, NEW h, nx[h] = h, pv[h] = h
  PROVE  Ring(nx, pv, {h}, h)
BY DEF Ring, ClosedUnder

\* A node is linked at the tail.
LEMMA RingAdd ==
  ASSUME NEW nx, NEW pv, NEW nx2, NEW pv2, NEW A, NEW h, Ring(nx, pv, A, h), NEW n, n \notin A,
         NEW A2, A2 = A \cup {n}, nx2[n] = h, nx2[pv[h]] = n, \A m \in A : m # pv[h] => nx2[m] = nx[m],
         pv2[n] = pv[h], pv2[h] = n, \A m \in A : m # h => pv2[m] = pv[m]
  PROVE  Ring(nx2, pv2, A2, h)
<1> DEFINE t == pv[h]
<1>1. h \in A /\ t \in A /\ nx[t] = h /\ \A m \in A : nx[m] = h => m = t
  BY DEF Ring
<1>2. ASSUME NEW m \in A \cup {n}
      PROVE  nx2[m] \in A \cup {n} /\ pv2[m] \in A \cup {n} /\ pv2[nx2[m]] = m /\ nx2[pv2[m]] = m
  <2>1. CASE m = n
    BY <1>1, <2>1
  <2>2. CASE m \in A
    <3>1. m # n
      BY <2>2
    <3>2. nx2[m] \in A \cup {n} /\ pv2[nx2[m]] = m
      <4>1. CASE m = t
        BY <1>1, <4>1
      <4>2. CASE m # t
        BY <1>1, <2>2, <4>2 DEF Ring
      <4> QED BY <4>1, <4>2
    <3>3. pv2[m] \in A \cup {n} /\ nx2[pv2[m]] = m
      <4>1. CASE m = h
        BY <1>1, <4>1
      <4>2. CASE m # h
        BY <1>1, <2>2, <4>2 DEF Ring
      <4> QED BY <4>1, <4>2
    <3> QED BY <3>2, <3>3
  <2> QED BY <2>1, <2>2
<1>3. ASSUME NEW S \in SUBSET (A \cup {n}), h \in S, ClosedUnder(nx2, S) PROVE A \cup {n} \subseteq S
  <2>1. S \ {n} \in SUBSET A /\ h \in S \ {n}
    BY <1>1, <1>3
  <2>2. ClosedUnder(nx, S \ {n})
    BY <1>1, <1>3 DEF ClosedUnder, Ring
  <2>3. A \subseteq S
    BY <2>1, <2>2 DEF Ring
  <2> QED BY <1>1, <1>3, <2>3 DEF ClosedUnder
<1> QED BY <1>1, <1>2, <1>3 DEF Ring

\* A node is taken out.
LEMMA RingRemove ==
  ASSUME NEW nx, NEW pv, NEW nx2, NEW pv2, NEW A, NEW h, Ring(nx, pv, A, h), NEW n \in A, n # h,
         nx2[pv[n]] = nx[n], \A m \in A : m # n /\ m # pv[n] => nx2[m] = nx[m],
         pv2[nx[n]] = pv[n], \A m \in A : m # n /\ m # nx[n] => pv2[m] = pv[m]
  PROVE  Ring(nx2, pv2, A \ {n}, h)
<1> DEFINE t == pv[n]
<1>1. /\ h \in A /\ t \in A /\ nx[t] = n /\ (\A m \in A : nx[m] = n => m = t)
      /\ nx[n] \in A /\ pv[nx[n]] = n /\ (\A m \in A : pv[m] = n => m = nx[n])
  BY DEF Ring
<1>2. nx[n] # n
  <2>1. SUFFICES ASSUME nx[n] = n PROVE FALSE
    OBVIOUS
  <2>2. ClosedUnder(nx, A \ {n})
    BY <2>1, <1>1 DEF ClosedUnder, Ring
  <2> QED BY <1>1, <2>2 DEF Ring
<1>3. t # n
  BY <1>1, <1>2
<1>4. ASSUME NEW m \in A \ {n}
      PROVE  nx2[m] \in A \ {n} /\ pv2[m] \in A \ {n} /\ pv2[nx2[m]] = m /\ nx2[pv2[m]] = m
  <2>1. nx2[m] \in A \ {n} /\ pv2[nx2[m]] = m
    <3>1. CASE m = t
      BY <1>1, <1>2, <3>1
    <3>2. CASE m # t
      <4>1. nx[m] \in A /\ pv[nx[m]] = m /\ nx[m] # n /\ nx[m] # nx[n]
        BY <1>1, <1>4, <3>2 DEF Ring
      <4> QED BY <3>2, <4>1
    <3> QED BY <3>1, <3>2
  <2>2. pv2[m] \in A \ {n} /\ nx2[pv2[m]] = m
    <3>1. CASE m = nx[n]
      BY <1>1, <1>3, <3>1
    <3>2. CASE m # nx[n]
      <4>1. pv[m] \in A /\ nx[pv[m]] = m /\ pv[m] # n /\ pv[m] # t
        BY <1>1, <1>4, <3>2 DEF Ring
      <4> QED BY <3>2, <4>1
    <3> QED BY <3>1, <3>2
  <2> QED BY <2>1, <2>2
<1>5. ASSUME NEW S \in SUBSET (A \ {n}), h \in S, ClosedUnder(nx2, S) PROVE A \ {n} \subseteq S
  <2> DEFINE W == IF t \in S THEN S \cup {n} ELSE S
  <2>1. W \in SUBSET A /\ h \in W
    BY <1>5
  <2>2. ASSUME NEW m \in W PROVE nx[m] \in W
    <3>1. CASE m = n
      <4>1. t \in S
        BY <2>2, <3>1, <1>5
      <4>2. nx2[t] \in S
        BY <4>1, <1>5 DEF ClosedUnder
      <4> QED BY <3>1, <4>2
    <3>2. CASE m = t
      BY <1>1, <1>3, <2>2, <3>2
    <3>3. CASE m # n /\ m # t
      <4>1. m \in S /\ nx2[m] = nx[m]
        BY <1>5, <2>2, <3>3
      <4> QED BY <4>1, <1>5 DEF ClosedUnder
    <3> QED BY <3>1, <3>2, <3>3
  <2>3. A \subseteq W
    <3> HIDE DEF W
    <3>1. ClosedUnder(nx, W)
      BY <2>2 DEF ClosedUnder
    <3> QED BY <2>1, <3>1 DEF Ring
  <2> QED BY <2>3
<1> QED BY <1>4, <1>5, n # h DEF Ring

\* What is reached from its head is the ring.
LEMMA RingReached ==
  ASSUME NEW A \in SUBSET QueueNodes, NEW h, Ring(next, prev, A, h)
  PROVE  Reached(h) = A \ {h}
<1>1. h \in A /\ ClosedUnder(next, A)
  BY DEF Ring, ClosedUnder
<1>2. ASSUME NEW S \in SUBSET QueueNodes, h \in S, \A m \in S : next[m] \in S PROVE A \subseteq S
  <2>1. S \cap A \in SUBSET A /\ h \in S \cap A /\ ClosedUnder(next, S \cap A)
    BY <1>1, <1>2 DEF ClosedUnder
  <2> QED BY <2>1 DEF Ring
<1>3. \A n \in A : n \in QueueNodes
  OBVIOUS
<1> QED BY <1>1, <1>2, <1>3 DEF Reached, ClosedUnder

-----------------------------------------------------------------------------
(* The invariant                                                            *)

\* The processes to wait for, those that are to be called, and the called.
Waited == {p \in Procs : proc_life[p] = "open" /\ proc_child[p] # "reaped"}
DueCalls == {p \in Procs : proc_life[p] = "open" /\ proc_child[p] = "reaped" /\ exit_called[p] = 0}
Called == {p \in Procs : proc_life[p] = "open" /\ proc_child[p] = "reaped" /\ exit_called[p] # 0}

ProcTypes ==
  /\ sigchld \in BOOLEAN
  /\ proc_life \in [Procs -> {"none", "open", "closing", "closed"}]
  /\ proc_child \in [Procs -> {"none", "running", "zombie", "reaped", "lost"}]
  /\ exit_called \in [Procs -> {0, 1}]
  /\ next \in [QueueNodes -> QueueNodes] /\ prev \in [QueueNodes -> QueueNodes]
  /\ proc_pc \in {"loop", "wait", "call", "callback"} /\ proc_q \in QueueNodes

\* Only the reaped are called; a fresh handle has no child.
CallsRight ==
  /\ \A p \in Procs : proc_child[p] # "reaped" => exit_called[p] = 0
  /\ \A p \in Procs : proc_life[p] = "none" => proc_child[p] = "none"

\* The queue of the loop, and the nodes that are in none.
LoopQueueRight ==
  /\ Ring(next, prev, Waited \cup {ListHead}, ListHead)
  /\ \A p \in Called : next[p] = p /\ prev[p] = p

\* The queue of uv__wait_children while it fills.
WaitPhase ==
  proc_pc \in {"loop", "wait"} =>
    /\ Ring(next, prev, DueCalls \cup {PendingHead}, PendingHead)
    /\ proc_pc = "loop" => DueCalls = {}
    /\ proc_pc = "wait" => proc_q \in Waited \cup {ListHead}

\* While it is emptied: first is the first handle in it that is open.  The next
\* one to be called may be among those that were closed when they were the
\* first: they link to each other, and then to the first.
Emptying(gone, first) ==
  /\ gone \subseteq {p \in Procs : /\ proc_life[p] \in {"closing", "closed"}
                                  /\ proc_child[p] = "reaped" /\ exit_called[p] = 0}
  /\ first \in DueCalls \cup {PendingHead}
  /\ Ring([next EXCEPT ![PendingHead] = first], prev, DueCalls \cup {PendingHead}, PendingHead)
  /\ next[PendingHead] \in {first, proc_q}
  /\ proc_q \in gone \cup {first}
  /\ \A p \in gone : prev[p] = PendingHead /\ next[p] \in gone \cup {first} /\ next[p] # proc_q
  /\ \A p, r \in gone : next[p] = next[r] => p = r
CallPhase ==
  proc_pc \in {"call", "callback"} =>
    \E gone \in SUBSET Procs, first \in QueueNodes : Emptying(gone, first)

ProcInv == ProcTypes /\ CallsRight /\ LoopQueueRight /\ WaitPhase /\ CallPhase

\* Which nodes are which: no node is in two places.
LEMMA NodePlaces ==
  ASSUME ProcInv
  PROVE  /\ Waited \in SUBSET QueueNodes /\ DueCalls \in SUBSET QueueNodes /\ Called \in SUBSET QueueNodes
         /\ ListHead \in QueueNodes /\ PendingHead \in QueueNodes /\ ListHead # PendingHead
         /\ ListHead \notin Procs /\ PendingHead \notin Procs
         /\ Waited \cap DueCalls = {} /\ Waited \cap Called = {} /\ DueCalls \cap Called = {}
         /\ Waited \subseteq Procs /\ DueCalls \subseteq Procs /\ Called \subseteq Procs
BY ProcessAssumption DEF QueueNodes, Waited, DueCalls, Called

FirstFollows(gone, first) ==
  /\ prev[first] = PendingHead
  /\ \A p \in DueCalls : /\ next[p] \in DueCalls \cup {PendingHead} /\ next[p] # p
                   /\ prev[p] \in DueCalls \cup {PendingHead} /\ prev[p] # p
                   /\ (prev[p] = PendingHead => p = first)
  /\ gone \cap DueCalls = {} /\ gone \subseteq Procs /\ gone \cap Waited = {} /\ gone \cap Called = {}

\* The first of the pending follows their head.
LEMMA FirstIsFirst ==
  ASSUME ProcInv, NEW gone, NEW first, Emptying(gone, first)
  PROVE  FirstFollows(gone, first)
<1> DEFINE G == [next EXCEPT ![PendingHead] = first]
           A == DueCalls \cup {PendingHead}
<1>1. G[PendingHead] = first /\ \A p \in DueCalls : G[p] = next[p]
  BY NodePlaces DEF ProcInv, ProcTypes
<1>2. Ring(G, prev, A, PendingHead)
  BY DEF Emptying
<1>3. ASSUME NEW p \in DueCalls PROVE next[p] # p
  <2>1. SUFFICES ASSUME next[p] = p PROVE FALSE
    OBVIOUS
  <2>2. ClosedUnder(G, A \ {p}) /\ PendingHead \in A \ {p}
    <3>1. \A m \in A \ {p} : G[m] \in A /\ prev[G[m]] = m
      BY <1>2 DEF Ring
    <3>2. prev[p] = p
      BY <1>1, <1>2, <2>1 DEF Ring
    <3> QED BY <3>1, <3>2, NodePlaces DEF ClosedUnder
  <2> QED BY <1>2, <2>2 DEF Ring
<1> HIDE DEF G
<1>4. ASSUME NEW p \in DueCalls
      PROVE  /\ next[p] \in A /\ prev[p] \in A /\ prev[p] # p
             /\ (prev[p] = PendingHead => p = first)
  BY <1>1, <1>2, <1>3 DEF Ring
<1>5. prev[first] = PendingHead
  BY <1>1, <1>2 DEF Ring
<1>6. gone \cap DueCalls = {} /\ gone \subseteq Procs /\ gone \cap Waited = {} /\ gone \cap Called = {}
  BY DEF Emptying, DueCalls, Waited, Called
<1> QED BY <1>3, <1>4, <1>5, <1>6 DEF FirstFollows

\* A step that leaves the pending ones alone.
LEMMA EmptyingSame ==
  ASSUME ProcInv, NEW gone, NEW first, Emptying(gone, first), DueCalls' = DueCalls, proc_q' = proc_q,
         next' \in [QueueNodes -> QueueNodes],
         \A p \in gone : /\ proc_life'[p] \in {"closing", "closed"} /\ proc_child'[p] = "reaped"
                        /\ exit_called'[p] = 0,
         \A n \in DueCalls \cup {PendingHead} \cup gone : next'[n] = next[n] /\ prev'[n] = prev[n]
  PROVE  Emptying(gone, first)'
<1> DEFINE G == [next EXCEPT ![PendingHead] = first]
           H == [next' EXCEPT ![PendingHead] = first]
<1>1. \A n \in DueCalls \cup {PendingHead} : H[n] = G[n] /\ prev'[n] = prev[n]
  BY NodePlaces DEF ProcInv, ProcTypes
<1>2. Ring(G, prev, DueCalls \cup {PendingHead}, PendingHead)
  BY DEF Emptying
<1> HIDE DEF G, H
<1>3. Ring(H, prev', DueCalls \cup {PendingHead}, PendingHead)
  BY <1>1, <1>2, RingSame
<1> QED BY <1>3 DEF Emptying, H

\* A step that leaves all queues alone.
LEMMA QueuesSame ==
  ASSUME ProcInv, ProcTypes', UNCHANGED <<procVars, exit_called>>,
         Waited' = Waited, DueCalls' = DueCalls, Called' = Called,
         \A p \in Procs : exit_called[p] = 0 =>
            (proc_life[p] \in {"closing", "closed"} /\ proc_child[p] = "reaped" =>
              proc_life'[p] \in {"closing", "closed"} /\ proc_child'[p] = "reaped"),
         \A p \in Procs : proc_child'[p] # "reaped" => exit_called[p] = 0,
         \A p \in Procs : proc_life'[p] = "none" => proc_child'[p] = "none",
         \/ UNCHANGED <<proc_pc, proc_q>>
         \/ proc_pc = "wait" /\ proc_pc' = "wait" /\ proc_q' \in Waited \cup {ListHead}
         \/ proc_pc = "loop" /\ proc_pc' = "wait" /\ proc_q' = next[ListHead]
         \/ proc_pc = "wait" /\ proc_pc' = "call" /\ proc_q' = next[PendingHead]
         \/ proc_pc = "callback" /\ proc_pc' = "call" /\ proc_q' = proc_q
         \/ proc_pc = "call" /\ proc_q = PendingHead /\ proc_pc' = "loop"
  PROVE  ProcInv'
<1>0. next' = next /\ prev' = prev /\ exit_called' = exit_called
  BY DEF procVars
<1>1. CallsRight'
  BY <1>0 DEF CallsRight
<1>2. LoopQueueRight'
  <2>1. Ring(next', prev', Waited \cup {ListHead}, ListHead)
    BY <1>0 DEF ProcInv, LoopQueueRight
  <2> QED BY <1>0, <2>1 DEF ProcInv, LoopQueueRight
<1>3. ASSUME NEW gone, NEW first, Emptying(gone, first), proc_q' = proc_q PROVE Emptying(gone, first)'
  <2>1. \A p \in gone : /\ proc_life'[p] \in {"closing", "closed"} /\ proc_child'[p] = "reaped"
                        /\ exit_called'[p] = 0
    BY <1>0, <1>3 DEF Emptying
  <2> QED BY <1>0, <1>3, <2>1, EmptyingSame DEF ProcTypes
<1>4. CASE UNCHANGED <<proc_pc, proc_q>>
  <2>1. WaitPhase'
    <3>1. Ring(next, prev, DueCalls \cup {PendingHead}, PendingHead) => Ring(next', prev', DueCalls' \cup {PendingHead}, PendingHead)
      BY <1>0
    <3> QED BY <1>0, <1>4, <3>1 DEF ProcInv, WaitPhase
  <2>2. proc_pc' = proc_pc /\ proc_q' = proc_q
    BY <1>4
  <2>3. CallPhase'
    BY <1>3, <2>2 DEF ProcInv, CallPhase
  <2> QED BY <1>1, <1>2, <2>1, <2>3 DEF ProcInv
<1>5. CASE proc_pc = "loop" /\ proc_pc' = "wait" /\ proc_q' = next[ListHead]
  <2>1. next[ListHead] \in Waited \cup {ListHead}
    BY DEF ProcInv, LoopQueueRight, Ring
  <2>2. Ring(next', prev', DueCalls' \cup {PendingHead}, PendingHead)
    BY <1>0, <1>5 DEF ProcInv, WaitPhase
  <2> QED BY <1>1, <1>2, <1>5, <2>1, <2>2 DEF ProcInv, WaitPhase, CallPhase
<1>6. CASE proc_pc = "wait" /\ proc_pc' = "call" /\ proc_q' = next[PendingHead]
  <2>0. PICK f \in QueueNodes : f = next[PendingHead]
    BY NodePlaces DEF ProcInv, ProcTypes
  <2> DEFINE G == [next EXCEPT ![PendingHead] = f]
  <2>1. f \in DueCalls \cup {PendingHead}
    BY <1>6, <2>0, NodePlaces DEF ProcInv, WaitPhase, Ring
  <2>2. \A n \in DueCalls \cup {PendingHead} : G[n] = next[n]
    BY <2>0, NodePlaces DEF ProcInv, ProcTypes
  <2>3. Ring(next, prev, DueCalls \cup {PendingHead}, PendingHead)
    BY <1>6 DEF ProcInv, WaitPhase
  <2>4. Ring(G, prev, DueCalls \cup {PendingHead}, PendingHead)
    <3> HIDE DEF G
    <3> QED BY <2>2, <2>3, RingSame
  <2>5. Emptying({}, f)'
    BY <1>0, <1>6, <2>0, <2>1, <2>4 DEF Emptying
  <2>6. CallPhase' /\ WaitPhase'
    BY <1>6, <2>5 DEF WaitPhase, CallPhase
  <2> QED BY <1>1, <1>2, <2>6 DEF ProcInv
<1>7. CASE proc_pc = "callback" /\ proc_pc' = "call" /\ proc_q' = proc_q
  <2>1. CallPhase'
    BY <1>3, <1>7 DEF ProcInv, CallPhase, QueueNodes
  <2> QED BY <1>1, <1>2, <1>7, <2>1 DEF ProcInv, WaitPhase
<1>8. CASE proc_pc = "call" /\ proc_q = PendingHead /\ proc_pc' = "loop"
  <2>1. PICK gone \in SUBSET Procs, first \in QueueNodes : Emptying(gone, first)
    BY <1>8 DEF ProcInv, CallPhase
  <2> DEFINE G == [next EXCEPT ![PendingHead] = first]
             A == DueCalls \cup {PendingHead}
  <2>2. first = PendingHead /\ next[PendingHead] = PendingHead
    BY <1>8, <2>1, NodePlaces DEF Emptying
  <2>3. Ring(G, prev, A, PendingHead) /\ G[PendingHead] = PendingHead /\ \A n \in A : G[n] = next[n]
    BY <2>1, <2>2, NodePlaces DEF Emptying, ProcInv, ProcTypes
  <2> HIDE DEF G
  <2>4. Ring(next, prev, A, PendingHead)
    BY <2>3, RingSame
  <2>5. A \subseteq {PendingHead}
    <3>1. ClosedUnder(next, {PendingHead}) /\ {PendingHead} \in SUBSET A
      BY <2>2 DEF ClosedUnder
    <3> QED BY <2>4, <3>1 DEF Ring
  <2>6. DueCalls = {}
    BY <2>5, NodePlaces
  <2> QED BY <1>0, <1>1, <1>2, <1>8, <2>4, <2>6 DEF ProcInv, WaitPhase, CallPhase
<1>9. CASE proc_pc = "wait" /\ proc_pc' = "wait" /\ proc_q' \in Waited \cup {ListHead}
  <2>1. Ring(next', prev', DueCalls' \cup {PendingHead}, PendingHead)
    BY <1>0, <1>9 DEF ProcInv, WaitPhase
  <2> QED BY <1>1, <1>2, <1>9, <2>1 DEF ProcInv, WaitPhase, CallPhase
<1> QED BY <1>4, <1>5, <1>6, <1>7, <1>8, <1>9

\* A step of user code that leaves the pending ones alone.
LEMMA PendingSame ==
  ASSUME ProcInv, ProcTypes', proc_pc \in {"loop", "callback"},
         UNCHANGED <<proc_pc, proc_q, exit_called>>, DueCalls' = DueCalls,
         \A p \in Procs : proc_life[p] \in {"closing", "closed"} =>
            proc_life'[p] \in {"closing", "closed"} /\ proc_child'[p] = proc_child[p],
         \A n \in DueCalls \cup {PendingHead} \cup {p \in Procs : proc_life[p] \in {"closing", "closed"}} :
            next'[n] = next[n] /\ prev'[n] = prev[n]
  PROVE  WaitPhase' /\ CallPhase'
<1>1. proc_pc' = proc_pc /\ proc_q' = proc_q /\ exit_called' = exit_called
  OBVIOUS
<1>2. WaitPhase'
  <2>1. SUFFICES ASSUME proc_pc = "loop" PROVE WaitPhase'
    BY <1>1 DEF WaitPhase
  <2>2. Ring(next, prev, DueCalls \cup {PendingHead}, PendingHead)
    BY <2>1 DEF ProcInv, WaitPhase
  <2>3. Ring(next', prev', DueCalls \cup {PendingHead}, PendingHead)
    BY <2>2, RingSame
  <2> QED BY <1>1, <2>1, <2>3 DEF ProcInv, WaitPhase
<1>3. ASSUME NEW gone, NEW first, Emptying(gone, first) PROVE Emptying(gone, first)'
  <2>1. /\ \A p \in gone : /\ proc_life'[p] \in {"closing", "closed"} /\ proc_child'[p] = "reaped"
                           /\ exit_called'[p] = 0
        /\ \A n \in DueCalls \cup {PendingHead} \cup gone : next'[n] = next[n] /\ prev'[n] = prev[n]
    BY <1>1, <1>3 DEF Emptying
  <2> QED BY <1>1, <1>3, <2>1, EmptyingSame DEF ProcTypes
<1>4. CallPhase'
  BY <1>1, <1>3 DEF ProcInv, CallPhase
<1> QED BY <1>2, <1>4

\* A step that leaves the loop's queue alone.
LEMMA LoopQueueSame ==
  ASSUME ProcInv, Waited' = Waited,
         \A n \in Waited \cup {ListHead} : next'[n] = next[n] /\ prev'[n] = prev[n],
         \A p \in Called' : next'[p] = p /\ prev'[p] = p
  PROVE  LoopQueueRight'
<1>1. Ring(next, prev, Waited \cup {ListHead}, ListHead)
  BY DEF ProcInv, LoopQueueRight
<1>2. Ring(next', prev', Waited \cup {ListHead}, ListHead)
  BY <1>1, RingSame
<1> QED BY <1>2 DEF LoopQueueRight

-----------------------------------------------------------------------------
(* The steps                                                                *)

LEMMA SpawnKeeps == ASSUME ProcInv, NEW p \in Procs, uv_spawn(p) PROVE ProcInv'
<1> DEFINE t == prev[ListHead]
<1>1. /\ proc_life[p] = "none" /\ proc_life' = [proc_life EXCEPT ![p] = "open"]
      /\ proc_child[p] = "none" /\ exit_called' = exit_called /\ exit_called[p] = 0
      /\ \/ proc_child' = [proc_child EXCEPT ![p] = "running"]
         \/ proc_child' = [proc_child EXCEPT ![p] = "zombie"]
      /\ proc_pc' = proc_pc /\ proc_q' = proc_q /\ sigchld' = sigchld /\ proc_pc \in {"loop", "callback"}
  BY DEF uv_spawn, ProcUserCode, ProcInv, CallsRight
<1>2. p \in QueueNodes /\ p # ListHead /\ p # PendingHead /\ p \notin Waited \cup DueCalls \cup Called
  BY <1>1, NodePlaces DEF QueueNodes, Waited, DueCalls, Called
<1>3. t \in Waited \cup {ListHead} /\ t \in QueueNodes /\ t # p
  BY <1>2, NodePlaces DEF ProcInv, LoopQueueRight, Ring
<1>4. /\ next' \in [QueueNodes -> QueueNodes] /\ prev' \in [QueueNodes -> QueueNodes]
      /\ next'[p] = ListHead /\ next'[t] = p /\ prev'[p] = t /\ prev'[ListHead] = p
      /\ \A m \in QueueNodes : /\ m # p /\ m # t => next'[m] = next[m]
                               /\ m # p /\ m # ListHead => prev'[m] = prev[m]
  BY <1>2, <1>3, NodePlaces DEF uv_spawn, Relinked, AtTail, InitedNode, Links, ProcInv, ProcTypes
<1>5. Waited' = Waited \cup {p} /\ DueCalls' = DueCalls /\ Called' = Called
  BY <1>1 DEF Waited, DueCalls, Called, ProcInv, ProcTypes
<1>6. ProcTypes' /\ CallsRight'
  BY <1>1, <1>4 DEF ProcInv, ProcTypes, CallsRight
<1>7. LoopQueueRight'
  <2>1. Ring(next, prev, Waited \cup {ListHead}, ListHead)
    BY DEF ProcInv, LoopQueueRight
  <2>2. Ring(next', prev', (Waited \cup {ListHead}) \cup {p}, ListHead)
    <3> DEFINE A == Waited \cup {ListHead}
    <3>1. \A m \in A : m \in QueueNodes /\ m # p
      BY <1>2, NodePlaces
    <3>2. /\ \A m \in A : m # prev[ListHead] => next'[m] = next[m]
          /\ \A m \in A : m # ListHead => prev'[m] = prev[m]
      BY <1>4, <3>1
    <3>3. p \notin A
      BY <3>1
    <3>4. /\ next'[p] = ListHead /\ next'[prev[ListHead]] = p
          /\ prev'[p] = prev[ListHead] /\ prev'[ListHead] = p
      BY <1>4
    <3>5. Ring(next, prev, A, ListHead)
      BY <2>1
    <3> HIDE DEF A
    <3>6. Ring(next', prev', A \cup {p}, ListHead)
      BY <3>2, <3>3, <3>4, <3>5, RingAdd
    <3> QED BY <3>6 DEF A
  <2>3. (Waited \cup {ListHead}) \cup {p} = Waited' \cup {ListHead}
    BY <1>5
  <2>4. \A q \in Called : next'[q] = q /\ prev'[q] = q
    BY <1>2, <1>3, <1>4, NodePlaces DEF ProcInv, LoopQueueRight
  <2> QED BY <1>5, <2>2, <2>3, <2>4 DEF LoopQueueRight
<1>8. WaitPhase' /\ CallPhase'
  <2>1. \A q \in Procs : proc_life[q] \in {"closing", "closed"} =>
            proc_life'[q] \in {"closing", "closed"} /\ proc_child'[q] = proc_child[q]
    BY <1>1 DEF ProcInv, ProcTypes
  <2>2. \A q \in Procs : proc_life[q] \in {"closing", "closed"} => q \notin Waited /\ q # p /\ q # ListHead
    BY <1>1, NodePlaces DEF Waited
  <2>3. \A n \in DueCalls \cup {PendingHead} \cup {q \in Procs : proc_life[q] \in {"closing", "closed"}} :
            next'[n] = next[n] /\ prev'[n] = prev[n]
    BY <1>2, <1>3, <1>4, <2>2, NodePlaces DEF QueueNodes
  <2> QED BY <1>1, <1>5, <1>6, <2>1, <2>3, PendingSame
<1> QED BY <1>6, <1>7, <1>8 DEF ProcInv

\* What closing a handle does: its node is taken out of where it is.
Unlinked(p) ==
  /\ proc_life[p] = "open" /\ proc_life' = [proc_life EXCEPT ![p] = "closing"]
  /\ proc_child' = proc_child /\ exit_called' = exit_called
  /\ proc_pc' = proc_pc /\ proc_q' = proc_q /\ proc_pc \in {"loop", "callback"}
  /\ p \in QueueNodes /\ prev[p] \in QueueNodes /\ next[p] \in QueueNodes
  /\ next'[prev[p]] = next[p] /\ prev'[next[p]] = prev[p]
  /\ \A m \in QueueNodes : /\ m # prev[p] => next'[m] = next[m]
                           /\ m # next[p] => prev'[m] = prev[m]
  /\ p \in Waited \cup DueCalls \cup Called
  /\ Waited' = Waited \ {p} /\ DueCalls' = DueCalls \ {p} /\ Called' = Called \ {p}
  /\ ProcTypes' /\ CallsRight'
  /\ \A q \in Procs : proc_life[q] \in {"closing", "closed"} =>
        proc_life'[q] \in {"closing", "closed"} /\ proc_child'[q] = proc_child[q]

LEMMA CloseTypes ==
  ASSUME ProcInv, NEW p \in Procs, uv__process_close(p)
  PROVE  Unlinked(p)
<1>1. /\ proc_life[p] = "open" /\ proc_life' = [proc_life EXCEPT ![p] = "closing"]
      /\ proc_child' = proc_child /\ exit_called' = exit_called
      /\ proc_pc' = proc_pc /\ proc_q' = proc_q /\ sigchld' = sigchld /\ proc_pc \in {"loop", "callback"}
  BY DEF uv__process_close, ProcUserCode
<1>2. p \in QueueNodes /\ prev[p] \in QueueNodes /\ next[p] \in QueueNodes
  BY DEF ProcInv, ProcTypes, QueueNodes
<1>3. next' = [next EXCEPT ![prev[p]] = next[p]] /\ prev' = [prev EXCEPT ![next[p]] = prev[p]]
  BY DEF uv__process_close, Relinked, RemovedNode, Links
<1>4. /\ next' \in [QueueNodes -> QueueNodes] /\ prev' \in [QueueNodes -> QueueNodes]
      /\ next'[prev[p]] = next[p] /\ prev'[next[p]] = prev[p]
      /\ \A m \in QueueNodes : /\ m # prev[p] => next'[m] = next[m]
                               /\ m # next[p] => prev'[m] = prev[m]
  BY <1>2, <1>3 DEF ProcInv, ProcTypes
<1>5. p \in Waited \cup DueCalls \cup Called /\ Waited' = Waited \ {p} /\ DueCalls' = DueCalls \ {p} /\ Called' = Called \ {p}
  BY <1>1 DEF Waited, DueCalls, Called, ProcInv, ProcTypes
<1>6. ProcTypes' /\ CallsRight'
  BY <1>1, <1>4 DEF ProcInv, ProcTypes, CallsRight
<1>7. \A q \in Procs : proc_life[q] \in {"closing", "closed"} =>
               proc_life'[q] \in {"closing", "closed"} /\ proc_child'[q] = proc_child[q]
  BY <1>1 DEF ProcInv, ProcTypes
<1> QED BY <1>1, <1>2, <1>4, <1>5, <1>6, <1>7 DEF Unlinked

LEMMA CloseKeeps == ASSUME ProcInv, NEW p \in Procs, uv__process_close(p) PROVE ProcInv'
<1> DEFINE A == Waited \cup {ListHead}
           B == DueCalls \cup {PendingHead}
           C == {q \in Procs : proc_life[q] \in {"closing", "closed"}}
<1>1. Unlinked(p)
  BY CloseTypes
<1> USE DEF Unlinked
<1>2. C \subseteq Procs /\ C \cap Waited = {} /\ C \cap DueCalls = {} /\ C \cap Called = {} /\ C \subseteq QueueNodes
  BY DEF Waited, DueCalls, Called, QueueNodes
<1>3. CASE p \in Waited
  <2>1. prev[p] \in A /\ next[p] \in A /\ Ring(next, prev, A, ListHead) /\ p \in A /\ p # ListHead
    BY <1>3, NodePlaces DEF ProcInv, LoopQueueRight, Ring
  <2>2. DueCalls' = DueCalls /\ Called' = Called
    BY <1>1, <1>3, NodePlaces
  <2>3. Ring(next', prev', A \ {p}, ListHead)
    <3>1. /\ \A m \in A : m # p /\ m # prev[p] => next'[m] = next[m]
          /\ \A m \in A : m # p /\ m # next[p] => prev'[m] = prev[m]
      BY <1>1, NodePlaces
    <3>2. next'[prev[p]] = next[p] /\ prev'[next[p]] = prev[p]
      BY <1>1
    <3> HIDE DEF A
    <3> QED BY <2>1, <3>1, <3>2, RingRemove
  <2>4. LoopQueueRight'
    <3>1. A \ {p} = Waited' \cup {ListHead}
      BY <1>1, <2>1
    <3>2. \A q \in Called : next'[q] = q /\ prev'[q] = q
      BY <1>1, <2>1, NodePlaces DEF ProcInv, LoopQueueRight
    <3> QED BY <2>2, <2>3, <3>1, <3>2 DEF LoopQueueRight
  <2>5. \A n \in B \cup C : next'[n] = next[n] /\ prev'[n] = prev[n]
    <3>1. \A n \in B \cup C : n \notin A /\ n \in QueueNodes
      BY <1>2, NodePlaces
    <3> QED BY <1>1, <2>1, <3>1
  <2>6. WaitPhase' /\ CallPhase'
    BY <1>1, <2>2, <2>5, PendingSame
  <2> QED BY <1>1, <2>4, <2>6 DEF ProcInv
<1>4. CASE p \in Called
  <2>1. next[p] = p /\ prev[p] = p
    BY <1>4 DEF ProcInv, LoopQueueRight
  <2>2. \A m \in QueueNodes : next'[m] = next[m] /\ prev'[m] = prev[m]
    BY <1>1, <2>1
  <2>3. DueCalls' = DueCalls /\ Waited' = Waited
    BY <1>1, <1>4, NodePlaces
  <2>4. LoopQueueRight'
    <3>1. \A q \in Called' : next'[q] = q /\ prev'[q] = q
      BY <1>1, <2>2, NodePlaces DEF ProcInv, LoopQueueRight
    <3> QED BY <2>2, <2>3, <3>1, NodePlaces, LoopQueueSame
  <2>5. \A n \in B \cup C : next'[n] = next[n] /\ prev'[n] = prev[n]
    BY <1>2, <2>2, NodePlaces
  <2>6. WaitPhase' /\ CallPhase'
    BY <1>1, <2>3, <2>5, PendingSame
  <2> QED BY <1>1, <2>4, <2>6 DEF ProcInv
<1>5. CASE p \in DueCalls
  <2>1. proc_pc = "callback"
    BY <1>1, <1>5 DEF ProcInv, WaitPhase
  <2>2. PICK gone \in SUBSET Procs, first \in QueueNodes : Emptying(gone, first)
    BY <2>1 DEF ProcInv, CallPhase
  <2>3. FirstFollows(gone, first)
    BY <2>2, FirstIsFirst
  <2> USE DEF FirstFollows
  <2>4. Waited' = Waited /\ Called' = Called
    BY <1>1, <1>5, NodePlaces
  <2>5. prev[p] \in B /\ next[p] \in B
    BY <1>5, <2>3
  <2>6. LoopQueueRight'
    <3>1. \A n \in A \cup Called : next'[n] = next[n] /\ prev'[n] = prev[n]
      BY <1>1, <2>5, NodePlaces
    <3>2. \A q \in Called' : next'[q] = q /\ prev'[q] = q
      BY <2>4, <3>1 DEF ProcInv, LoopQueueRight
    <3> QED BY <2>4, <3>1, <3>2, LoopQueueSame
  <2> DEFINE G == [next EXCEPT ![PendingHead] = first]
  <2>7. Ring(G, prev, B, PendingHead) /\ p \in B /\ p # PendingHead /\ G[PendingHead] = first
        /\ (\A m \in DueCalls : G[m] = next[m]) /\ G[p] = next[p]
    BY <1>5, <2>2, NodePlaces DEF Emptying, ProcInv, ProcTypes
  <2>8. CASE p = first
    <3>1. PICK f \in QueueNodes : f = next[first]
      BY <1>1, <2>8
    <3>2. f \in B /\ f # first /\ f \notin gone /\ prev[first] = PendingHead
      BY <1>5, <2>3, <2>8, <3>1, NodePlaces
    <3> DEFINE H == [next' EXCEPT ![PendingHead] = f]
    <3>3. H[PendingHead] = f /\ \A m \in DueCalls : H[m] = next'[m]
      BY <1>1, NodePlaces DEF ProcTypes
    <3>4. /\ H[prev[p]] = G[p]
          /\ \A m \in B : m # p /\ m # prev[p] => H[m] = G[m]
          /\ prev'[G[p]] = prev[p]
          /\ \A m \in B : m # p /\ m # G[p] => prev'[m] = prev[m]
      BY <1>1, <2>7, <2>8, <3>1, <3>2, <3>3, NodePlaces
    <3>5. Ring(H, prev', B \ {p}, PendingHead)
      <4> HIDE DEF H, G, B
      <4> QED BY <2>7, <3>4, RingRemove
    <3>6. B \ {p} = DueCalls' \cup {PendingHead}
      BY <1>1, <2>7
    <3>7. Emptying(gone \cup {first}, f)'
      <4>1. gone \cup {first} \subseteq {q \in Procs : /\ proc_life'[q] \in {"closing", "closed"}
                                  /\ proc_child'[q] = "reaped" /\ exit_called'[q] = 0}
        BY <1>1, <1>5, <2>2, <2>8 DEF Emptying, DueCalls, ProcInv, ProcTypes
      <4>2. f \in DueCalls' \cup {PendingHead}
        BY <2>8, <3>2, <3>6
      <4>3. next'[PendingHead] = f /\ proc_q' \in gone \cup {first}
        BY <1>1, <2>2, <2>8, <3>1, <3>2 DEF Emptying
      <4>4. \A q \in gone : prev'[q] = prev[q] /\ next'[q] = next[q]
        BY <1>1, <2>3, <2>8, <3>1, <3>2, NodePlaces DEF QueueNodes
      <4>5. prev'[first] = prev[first] /\ next'[first] = next[first]
        BY <1>1, <2>8, <3>1, <3>2, <2>7
      <4>6. \A q \in gone \cup {first} : prev'[q] = PendingHead /\ next'[q] \in gone \cup {first, f} /\ next'[q] # proc_q'
        BY <1>1, <2>2, <3>1, <3>2, <4>4, <4>5 DEF Emptying
      <4>7. \A q, r \in gone \cup {first} : next'[q] = next'[r] => q = r
        BY <2>2, <3>1, <3>2, <4>4, <4>5 DEF Emptying
      <4>8. Ring(H, prev', DueCalls' \cup {PendingHead}, PendingHead)
        BY <3>5, <3>6
      <4> QED BY <4>1, <4>2, <4>3, <4>6, <4>7, <4>8 DEF Emptying
    <3>8. CallPhase' /\ WaitPhase'
      <4>1. gone \cup {first} \in SUBSET Procs
        BY <2>8
      <4> QED BY <1>1, <2>1, <3>7, <4>1 DEF CallPhase, WaitPhase
    <3> QED BY <1>1, <2>6, <3>8 DEF ProcInv
  <2>9. CASE p # first
    <3>1. prev[p] \in DueCalls /\ next[p] \in B /\ prev[p] # p /\ next[p] # p
      BY <1>5, <2>3, <2>9
    <3> DEFINE H == [next' EXCEPT ![PendingHead] = first]
    <3>2. H[PendingHead] = first /\ \A m \in DueCalls : H[m] = next'[m]
      BY <1>1, NodePlaces DEF ProcTypes
    <3>3. /\ H[prev[p]] = G[p]
          /\ \A m \in B : m # p /\ m # prev[p] => H[m] = G[m]
          /\ prev'[G[p]] = prev[p]
          /\ \A m \in B : m # p /\ m # G[p] => prev'[m] = prev[m]
      BY <1>1, <2>7, <3>1, <3>2, NodePlaces
    <3>4. Ring(H, prev', B \ {p}, PendingHead)
      <4> HIDE DEF H, G, B
      <4> QED BY <2>7, <3>3, RingRemove
    <3>5. B \ {p} = DueCalls' \cup {PendingHead}
      BY <1>1, <2>7
    <3>6. Emptying(gone, first)'
      <4>1. gone \subseteq {q \in Procs : /\ proc_life'[q] \in {"closing", "closed"}
                                  /\ proc_child'[q] = "reaped" /\ exit_called'[q] = 0}
        BY <1>1, <2>2 DEF Emptying
      <4>2. first \in DueCalls' \cup {PendingHead}
        BY <1>1, <2>2, <2>9 DEF Emptying
      <4>3. next'[PendingHead] = next[PendingHead] /\ proc_q' = proc_q
        BY <1>1, <3>1, NodePlaces
      <4>4. \A q \in gone : prev'[q] = prev[q] /\ next'[q] = next[q]
        BY <1>1, <2>3, <3>1, NodePlaces DEF QueueNodes
      <4>5. Ring(H, prev', DueCalls' \cup {PendingHead}, PendingHead)
        BY <3>4, <3>5
      <4> QED BY <2>2, <4>1, <4>2, <4>3, <4>4, <4>5 DEF Emptying
    <3>7. CallPhase' /\ WaitPhase'
      BY <1>1, <2>1, <2>2, <3>6 DEF CallPhase, WaitPhase
    <3> QED BY <1>1, <2>6, <3>7 DEF ProcInv
  <2> QED BY <2>8, <2>9
<1> QED BY <1>1, <1>3, <1>4, <1>5

LEMMA WaitForKeeps == ASSUME ProcInv, WaitFor PROVE ProcInv'
<1> DEFINE p == proc_q
           A == Waited \cup {ListHead}
           B == DueCalls \cup {PendingHead}
<1>1. /\ proc_pc = "wait" /\ proc_pc' = "wait" /\ p # ListHead /\ proc_q' = next[p]
      /\ sigchld' = sigchld /\ proc_life' = proc_life /\ exit_called' = exit_called
  BY DEF WaitFor
<1>2. /\ p \in Waited /\ p \in Procs /\ p \in QueueNodes
      /\ Ring(next, prev, A, ListHead) /\ Ring(next, prev, B, PendingHead)
  BY <1>1, NodePlaces DEF ProcInv, WaitPhase, LoopQueueRight
<1>3. next[p] \in A /\ prev[p] \in A
  BY <1>2 DEF Ring
<1>4. CASE proc_child' = proc_child /\ UNCHANGED procVars
  <2>1. Waited' = Waited /\ DueCalls' = DueCalls /\ Called' = Called
    BY <1>1, <1>4 DEF Waited, DueCalls, Called
  <2>2. ProcTypes'
    BY <1>1, <1>3, <1>4, NodePlaces DEF ProcInv, ProcTypes, procVars
  <2> QED BY <1>1, <1>3, <1>4, <2>1, <2>2, QueuesSame DEF ProcInv, CallsRight
<1>5. CASE /\ proc_child[p] = "zombie" /\ proc_child' = [proc_child EXCEPT ![p] = "reaped"]
           /\ Relinked(AtTail(RemovedNode(Links, p), PendingHead, p))
  <2> DEFINE t == prev[PendingHead]
  <2>1. t \in B /\ t \in QueueNodes /\ PendingHead \in B /\ PendingHead \in QueueNodes /\ p \notin B /\ p # PendingHead
    BY <1>2, NodePlaces DEF Ring
  <2>2. next[p] # p
    <3>1. SUFFICES ASSUME next[p] = p PROVE FALSE
      OBVIOUS
    <3>2. ClosedUnder(next, A \ {p}) /\ A \ {p} \in SUBSET A /\ ListHead \in A \ {p}
      BY <1>1, <1>2, <3>1 DEF ClosedUnder, Ring
    <3> QED BY <1>2, <3>2 DEF Ring
  <2>3. A \cap B = {} /\ A \subseteq QueueNodes /\ B \subseteq QueueNodes
    BY NodePlaces
  <2>4. prev[p] # p
    BY <1>2, <2>2 DEF Ring
  <2>5. /\ next' = [[next EXCEPT ![prev[p]] = next[p]] EXCEPT ![p] = PendingHead, ![t] = p]
        /\ prev' = [[prev EXCEPT ![next[p]] = prev[p]] EXCEPT ![p] = t, ![PendingHead] = p]
    <3>1. next[p] # PendingHead /\ PendingHead \in DOMAIN prev
      BY <1>3, <2>1, <2>3 DEF ProcInv, ProcTypes
    <3> QED BY <1>5, <3>1 DEF Relinked, AtTail, RemovedNode, Links
  <2>6. /\ next' \in [QueueNodes -> QueueNodes] /\ prev' \in [QueueNodes -> QueueNodes]
        /\ next'[p] = PendingHead /\ next'[t] = p /\ next'[prev[p]] = next[p]
        /\ prev'[p] = t /\ prev'[PendingHead] = p /\ prev'[next[p]] = prev[p]
        /\ \A m \in QueueNodes : /\ m # p /\ m # t /\ m # prev[p] => next'[m] = next[m]
                                 /\ m # p /\ m # PendingHead /\ m # next[p] => prev'[m] = prev[m]
    BY <1>2, <1>3, <2>1, <2>2, <2>3, <2>4, <2>5 DEF ProcInv, ProcTypes
  <2>7. exit_called[p] = 0
    BY <1>2, <1>5 DEF ProcInv, CallsRight
  <2>8. Waited' = Waited \ {p} /\ DueCalls' = DueCalls \cup {p} /\ Called' = Called
    BY <1>1, <1>2, <1>5, <2>7 DEF Waited, DueCalls, Called, ProcInv, ProcTypes
  <2>9. ProcTypes' /\ CallsRight'
    <3>1. proc_q' \in QueueNodes
      BY <1>1, <1>3, <2>3
    <3> QED BY <1>1, <1>5, <2>6, <3>1 DEF ProcInv, ProcTypes, CallsRight
  <2>10. LoopQueueRight'
    <3>1. p \in A /\ p # ListHead /\ next'[prev[p]] = next[p] /\ prev'[next[p]] = prev[p]
      BY <1>1, <1>2, <2>6
    <3>2. /\ \A m \in A : m # p /\ m # prev[p] => next'[m] = next[m]
          /\ \A m \in A : m # p /\ m # next[p] => prev'[m] = prev[m]
      BY <2>1, <2>3, <2>6
    <3>3. Ring(next', prev', A \ {p}, ListHead)
      <4> HIDE DEF A, p
      <4> QED BY <1>2, <3>1, <3>2, RingRemove
    <3>4. A \ {p} = Waited' \cup {ListHead}
      BY <1>1, <2>8
    <3>5. \A q \in Called : next'[q] = q /\ prev'[q] = q
      <4>1. \A q \in Called : q \notin A /\ q \notin B /\ q # p /\ q \in QueueNodes
        BY <1>2, NodePlaces
      <4> QED BY <1>3, <2>1, <2>6, <4>1 DEF ProcInv, LoopQueueRight
    <3> QED BY <2>8, <3>3, <3>4, <3>5 DEF LoopQueueRight
  <2>11. WaitPhase'
    <3>1. /\ p \notin B /\ next'[p] = PendingHead /\ next'[prev[PendingHead]] = p
          /\ prev'[p] = prev[PendingHead] /\ prev'[PendingHead] = p
      BY <2>1, <2>6
    <3>2. /\ \A m \in B : m # prev[PendingHead] => next'[m] = next[m]
          /\ \A m \in B : m # PendingHead => prev'[m] = prev[m]
      BY <1>3, <2>1, <2>3, <2>6
    <3>3. Ring(next', prev', B \cup {p}, PendingHead)
      <4> HIDE DEF B, p
      <4> QED BY <1>2, <3>1, <3>2, RingAdd
    <3>4. B \cup {p} = DueCalls' \cup {PendingHead}
      BY <2>8
    <3>5. proc_q' \in Waited' \cup {ListHead}
      BY <1>1, <1>3, <2>2, <2>8
    <3> QED BY <1>1, <3>3, <3>4, <3>5 DEF WaitPhase
  <2>12. CallPhase'
    BY <1>1 DEF CallPhase
  <2> QED BY <2>9, <2>10, <2>11, <2>12 DEF ProcInv
<1> QED BY <1>4, <1>5 DEF WaitFor

LEMMA CallExitKeeps == ASSUME ProcInv, CallExit PROVE ProcInv'
<1> DEFINE B == DueCalls \cup {PendingHead}
<1>1. /\ proc_pc = "call" /\ proc_pc' = "callback" /\ proc_q # PendingHead /\ proc_q' = next[proc_q]
      /\ sigchld' = sigchld /\ proc_life' = proc_life /\ proc_child' = proc_child
      /\ exit_called' = [exit_called EXCEPT ![proc_q] = @ + 1]
  BY DEF CallExit
<1>2. PICK gone \in SUBSET Procs, first \in QueueNodes : Emptying(gone, first)
  BY <1>1 DEF ProcInv, CallPhase
<1>3. PICK n \in QueueNodes : n = proc_q
  BY DEF ProcInv, ProcTypes
<1>4. FirstFollows(gone, first)
  BY <1>2, FirstIsFirst
<1>5. n \in gone \cup {first} /\ n \in Procs /\ prev[n] = PendingHead /\ n # PendingHead /\ exit_called[n] = 0
      /\ proc_child[n] = "reaped" /\ n \notin Waited \cup Called \cup {ListHead}
  BY <1>1, <1>2, <1>3, <1>4, NodePlaces DEF Emptying, FirstFollows, DueCalls
<1>6. next[n] \in QueueNodes /\ next[n] # n /\ next[n] \in gone \cup B
  BY <1>2, <1>3, <1>4, <1>5 DEF Emptying, FirstFollows, ProcInv, ProcTypes
<1>7. /\ next' = [[next EXCEPT ![PendingHead] = next[n]] EXCEPT ![n] = n]
      /\ prev' = [[prev EXCEPT ![next[n]] = PendingHead] EXCEPT ![n] = n]
  BY <1>3, <1>5 DEF CallExit, Relinked, TakenOut, RemovedNode, InitedNode, Links
<1>8. /\ next' \in [QueueNodes -> QueueNodes] /\ prev' \in [QueueNodes -> QueueNodes]
      /\ next'[PendingHead] = next[n] /\ prev'[next[n]] = PendingHead /\ next'[n] = n /\ prev'[n] = n
      /\ \A m \in QueueNodes : /\ m # n /\ m # PendingHead => next'[m] = next[m]
                               /\ m # n /\ m # next[n] => prev'[m] = prev[m]
  BY <1>5, <1>6, <1>7, NodePlaces DEF ProcInv, ProcTypes
<1>9. exit_called' \in [Procs -> {0, 1}] /\ \A q \in Procs : exit_called'[q] = IF q = n THEN 1 ELSE exit_called[q]
  BY <1>1, <1>3, <1>5 DEF ProcInv, ProcTypes
<1>10. ProcTypes' /\ CallsRight'
  <2>1. ProcTypes'
    BY <1>1, <1>3, <1>6, <1>8, <1>9 DEF ProcInv, ProcTypes
  <2> QED BY <1>1, <1>5, <1>9, <2>1 DEF ProcInv, CallsRight
<1>11. Waited' = Waited /\ DueCalls' = DueCalls \ {n} /\ Called' \subseteq Called \cup {n}
  BY <1>1, <1>5, <1>9 DEF Waited, DueCalls, Called
<1>12. LoopQueueRight'
  <2>1. \A m \in Waited \cup {ListHead} \cup Called : m \in QueueNodes /\ m # n /\ m # PendingHead /\ m # next[n]
    BY <1>4, <1>5, <1>6, NodePlaces DEF FirstFollows
  <2>2. \A q \in Called' : next'[q] = q /\ prev'[q] = q
    BY <1>8, <1>11, <2>1 DEF ProcInv, LoopQueueRight
  <2> QED BY <1>8, <1>11, <2>1, <2>2, LoopQueueSame
<1> DEFINE G == [next EXCEPT ![PendingHead] = first]
<1>13. Ring(G, prev, B, PendingHead) /\ G[PendingHead] = first /\ \A m \in DueCalls : G[m] = next[m]
  BY <1>2, NodePlaces DEF Emptying, ProcInv, ProcTypes
<1>14. CASE n = first
  <2>1. first \in DueCalls /\ prev[first] = PendingHead
    BY <1>2, <1>4, <1>5, <1>14 DEF Emptying, FirstFollows
  <2>2. PICK f \in QueueNodes : f = next[first]
    BY <1>6, <1>14
  <2>3. f \in B /\ f # first
    BY <1>4, <2>1, <2>2 DEF FirstFollows
  <2> DEFINE H == [next' EXCEPT ![PendingHead] = f]
  <2>4. H[PendingHead] = f /\ \A m \in DueCalls : H[m] = next'[m]
    BY <1>8, NodePlaces
  <2>5. /\ n \in B /\ H[prev[n]] = G[n] /\ prev'[G[n]] = prev[n]
        /\ \A m \in B : m # n /\ m # prev[n] => H[m] = G[m]
        /\ \A m \in B : m # n /\ m # G[n] => prev'[m] = prev[m]
    BY <1>5, <1>8, <1>13, <1>14, <2>1, <2>2, <2>4, NodePlaces
  <2>6. Ring(H, prev', B \ {n}, PendingHead)
    <3> HIDE DEF H, G, B
    <3> QED BY <1>5, <1>13, <2>5, RingRemove
  <2>7. B \ {n} = DueCalls' \cup {PendingHead}
    BY <1>5, <1>11
  <2>8. f \in DueCalls' \cup {PendingHead} /\ next'[PendingHead] = f /\ proc_q' = f
    BY <1>1, <1>3, <1>8, <1>14, <2>2, <2>3, <2>7
  <2>9. Emptying({}, f)'
    BY <2>6, <2>7, <2>8 DEF Emptying
  <2> QED BY <1>1, <1>10, <1>12, <2>9 DEF ProcInv, WaitPhase, CallPhase
<1>15. CASE n \in gone /\ n # first
  <2>1. n \notin B /\ DueCalls' = DueCalls
    BY <1>4, <1>5, <1>11, <1>15 DEF FirstFollows
  <2>2. next[n] \in gone \cup {first} /\ prev[next[n]] = PendingHead /\ prev[first] = PendingHead
    BY <1>2, <1>4, <1>15 DEF Emptying, FirstFollows
  <2>3. \A m \in QueueNodes : m # n => prev'[m] = prev[m]
    BY <1>6, <1>8, <2>2
  <2> DEFINE H == [next' EXCEPT ![PendingHead] = first]
  <2>4. \A m \in B : H[m] = G[m] /\ prev'[m] = prev[m]
    BY <1>8, <1>13, <2>1, <2>3, NodePlaces
  <2>5. Ring(H, prev', B, PendingHead)
    <3> HIDE DEF H, G, B
    <3> QED BY <1>13, <2>4, RingSame
  <2>6. Emptying(gone \ {n}, first)'
    <3>1. gone \ {n} \subseteq {q \in Procs : /\ proc_life'[q] \in {"closing", "closed"}
                                  /\ proc_child'[q] = "reaped" /\ exit_called'[q] = 0}
      BY <1>1, <1>2, <1>9 DEF Emptying
    <3>2. \A q \in gone \ {n} : q \in QueueNodes /\ q # n /\ q # PendingHead
      BY <1>4, NodePlaces DEF FirstFollows, QueueNodes
    <3>3. \A q \in gone \ {n} : prev'[q] = PendingHead /\ next'[q] = next[q]
      BY <1>2, <1>8, <2>3, <3>2 DEF Emptying
    <3>4. next'[PendingHead] = next[n] /\ proc_q' = next[n] /\ next[n] \in (gone \ {n}) \cup {first}
      BY <1>1, <1>3, <1>6, <1>8, <2>2
    <3>5. \A q \in gone \ {n} : next'[q] \in (gone \ {n}) \cup {first} /\ next'[q] # proc_q'
      BY <1>2, <1>3, <1>15, <3>3, <3>4 DEF Emptying
    <3>6. \A q, r \in gone \ {n} : next'[q] = next'[r] => q = r
      BY <1>2, <3>3 DEF Emptying
    <3>7. first \in DueCalls' \cup {PendingHead} /\ Ring(H, prev', DueCalls' \cup {PendingHead}, PendingHead)
      BY <1>2, <2>1, <2>5 DEF Emptying
    <3> QED BY <3>1, <3>3, <3>4, <3>5, <3>6, <3>7 DEF Emptying
  <2>7. gone \ {n} \in SUBSET Procs
    OBVIOUS
  <2> QED BY <1>1, <1>10, <1>12, <2>6, <2>7 DEF ProcInv, WaitPhase, CallPhase
<1> QED BY <1>5, <1>14, <1>15

LEMMA ProcInitHolds == ProcessInit => ProcInv
<1> SUFFICES ASSUME ProcessInit PROVE ProcInv
  OBVIOUS
<1>1. ProcTypes /\ CallsRight
  BY DEF ProcessInit, ProcTypes, CallsRight, QueueNodes
<1>2. Waited = {} /\ DueCalls = {} /\ Called = {}
  BY DEF ProcessInit, Waited, DueCalls, Called
<1>3. /\ next[ListHead] = ListHead /\ prev[ListHead] = ListHead
      /\ next[PendingHead] = PendingHead /\ prev[PendingHead] = PendingHead
  BY DEF ProcessInit, QueueNodes
<1>4. Ring(next, prev, {ListHead}, ListHead) /\ Ring(next, prev, {PendingHead}, PendingHead)
  BY <1>3, RingAlone
<1>5. Waited \cup {ListHead} = {ListHead} /\ DueCalls \cup {PendingHead} = {PendingHead}
  BY <1>2
<1>6. LoopQueueRight /\ WaitPhase /\ CallPhase
  BY <1>2, <1>4, <1>5 DEF LoopQueueRight, WaitPhase, CallPhase, ProcessInit
<1> QED BY <1>1, <1>6 DEF ProcInv

\* The steps that leave the queues alone.
LEMMA ProcNextKeeps == ProcInv /\ [ProcessNext]_processVars => ProcInv'
<1> SUFFICES ASSUME ProcInv, [ProcessNext]_processVars PROVE ProcInv'
  OBVIOUS
<1> DEFINE Quiet == /\ ProcTypes' /\ UNCHANGED <<procVars, exit_called, proc_life>>
                    /\ \A p \in Procs : \/ proc_child'[p] = proc_child[p]
                                        \/ /\ proc_child[p] \in {"running", "zombie"}
                                           /\ proc_child'[p] \in {"zombie", "lost"}
<1>0. ListHead \in QueueNodes /\ next[ListHead] \in QueueNodes /\ next[PendingHead] \in QueueNodes
  BY DEF QueueNodes, ProcInv, ProcTypes
<1>1. ASSUME Quiet,
             \/ UNCHANGED <<proc_pc, proc_q>>
             \/ proc_pc = "loop" /\ proc_pc' = "wait" /\ proc_q' = next[ListHead]
             \/ proc_pc = "wait" /\ proc_pc' = "call" /\ proc_q' = next[PendingHead]
             \/ proc_pc = "callback" /\ proc_pc' = "call" /\ proc_q' = proc_q
             \/ proc_pc = "call" /\ proc_q = PendingHead /\ proc_pc' = "loop"
      PROVE  ProcInv'
  <2>1. Waited' = Waited /\ DueCalls' = DueCalls /\ Called' = Called
    BY <1>1 DEF Waited, DueCalls, Called
  <2>2. /\ \A p \in Procs : proc_child'[p] # "reaped" => exit_called[p] = 0
        /\ \A p \in Procs : proc_life'[p] = "none" => proc_child'[p] = "none"
        /\ \A p \in Procs : proc_life[p] \in {"closing", "closed"} /\ proc_child[p] = "reaped" =>
              proc_life'[p] \in {"closing", "closed"} /\ proc_child'[p] = "reaped"
    BY <1>1 DEF ProcInv, CallsRight
  <2> QED BY <1>1, <2>1, <2>2, QueuesSame
<1>2. CASE UNCHANGED processVars
  BY <1>1, <1>2 DEF processVars, procVars, ProcInv, ProcTypes
<1>3. CASE uv__chld
  BY <1>0, <1>1, <1>3 DEF uv__chld, StartWaiting, procVars, ProcInv, ProcTypes
<1>4. CASE ReapChildren
  BY <1>0, <1>1, <1>4 DEF ReapChildren, StartWaiting, procVars, ProcInv, ProcTypes
<1>5. CASE WaitedForAll
  BY <1>0, <1>1, <1>5 DEF WaitedForAll, procVars, ProcInv, ProcTypes
<1>6. CASE ExitCbEnds
  BY <1>1, <1>6 DEF ExitCbEnds, procVars, ProcInv, ProcTypes
<1>7. CASE CalledAll
  BY <1>1, <1>7 DEF CalledAll, procVars, ProcInv, ProcTypes
<1>8. CASE SpawnFails
  BY <1>1, <1>8 DEF SpawnFails, procVars, ProcInv, ProcTypes
<1>9. ASSUME NEW p \in Procs, NoteExit(p) PROVE ProcInv'
  BY <1>1, <1>9 DEF NoteExit, procVars, ProcInv, ProcTypes
<1>10. ASSUME NEW p \in Procs, ChildExits(p) \/ Stolen(p) PROVE ProcInv'
  <2>1. Quiet
    BY <1>10 DEF ChildExits, Stolen, procVars, ProcInv, ProcTypes
  <2>2. UNCHANGED <<proc_pc, proc_q>>
    BY <1>10 DEF ChildExits, Stolen
  <2> QED BY <1>1, <2>1, <2>2
<1>11. ASSUME NEW p \in Procs, uv__process_finish_close(p) PROVE ProcInv'
  <2>1. /\ proc_life[p] = "closing" /\ proc_life' = [proc_life EXCEPT ![p] = "closed"]
        /\ UNCHANGED <<sigchld, proc_child, procVars, exit_called, proc_pc, proc_q>>
    BY <1>11 DEF uv__process_finish_close
  <2>2. ProcTypes'
    BY <2>1 DEF procVars, ProcInv, ProcTypes
  <2>3. Waited' = Waited /\ DueCalls' = DueCalls /\ Called' = Called
    BY <2>1 DEF Waited, DueCalls, Called, ProcInv, ProcTypes
  <2>4. /\ \A q \in Procs : proc_child'[q] # "reaped" => exit_called[q] = 0
        /\ \A q \in Procs : proc_life'[q] = "none" => proc_child'[q] = "none"
        /\ \A q \in Procs : proc_life[q] \in {"closing", "closed"} /\ proc_child[q] = "reaped" =>
              proc_life'[q] \in {"closing", "closed"} /\ proc_child'[q] = "reaped"
    BY <2>1 DEF ProcInv, CallsRight, ProcTypes
  <2> QED BY <2>1, <2>2, <2>3, <2>4, QueuesSame
<1>12. CASE ProcessNext
  BY <1>2, <1>3, <1>4, <1>5, <1>6, <1>7, <1>8, <1>9, <1>10, <1>11, <1>12,
     SpawnKeeps, CloseKeeps, WaitForKeeps, CallExitKeeps DEF ProcessNext, ProcessLoop, ProcessOver
<1> QED BY <1>2, <1>12

LEMMA ProcInvImplies == ProcInv => ProcessQueues
<1> SUFFICES ASSUME ProcInv PROVE ProcessQueues
  OBVIOUS
<1> DEFINE A == Waited \cup {ListHead}
<1>1. Ring(next, prev, A, ListHead) /\ A \in SUBSET QueueNodes /\ ListHead \notin Waited
  BY NodePlaces DEF ProcInv, LoopQueueRight
<1>2. Reached(ListHead) = Waited
  <2> HIDE DEF A
  <2>1. Reached(ListHead) = A \ {ListHead}
    BY <1>1, RingReached
  <2> QED BY <1>1, <2>1 DEF A
<1>3. \A n \in Reached(ListHead) \cup {ListHead} : prev[next[n]] = n
  BY <1>1, <1>2 DEF Ring
<1>4. ASSUME proc_pc = "loop" PROVE next[PendingHead] = PendingHead /\ prev[PendingHead] = PendingHead
  BY <1>4 DEF ProcInv, WaitPhase, Ring
<1>5. \A p \in Procs : exit_called[p] <= 1
  BY DEF ProcInv, ProcTypes
<1> QED BY <1>2, <1>3, <1>4, <1>5 DEF ProcessQueues, Waited

\* Whatever the exit callbacks spawn and close, the loop's queue holds exactly the
\* processes to wait for, uv__wait_children empties its own queue, and no
\* exit is reported twice.
THEOREM ProcessQueuesHold == ProcessSpec => []ProcessQueues
<1>1. ProcessInit => ProcInv
  BY ProcInitHolds
<1>2. ProcInv /\ [ProcessNext]_processVars => ProcInv'
  BY ProcNextKeeps
<1>3. ProcInv => ProcessQueues
  BY ProcInvImplies
<1> QED BY <1>1, <1>2, <1>3, PTL DEF ProcessSpec
=============================================================================
