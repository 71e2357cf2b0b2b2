------------------------------ MODULE PollProofs ------------------------------
(***************************************************************************)
(* Polling: every mask reaches the kernel through the submission ring, for *)
(* any descriptors, masks and size of the ring; no event of a closed file  *)
(* reaches a handle, for any handles and descriptors; and the two requests *)
(* of a poll handle of Windows together see all that is asked for.         *)
(***************************************************************************)
EXTENDS PollHandle, EpollRing, WinPoll, Lemmas, FunctionTheorems

-----------------------------------------------------------------------------
(* The submission ring.  A descriptor is under way at most once, what is   *)
(* under way says the mask that is asked for, and a ring of submissions    *)
(* has no slot twice.  A retry cannot run ahead of its caller, because the *)
(* ring has room for what may be handed over again: submissions and        *)
(* completions together never exceed it.                                   *)

Registrations == [RingFds -> Masks \cup {NoMask}]
Arrays == [Slots -> Masks \cup {NoMask}]
Entries == [op : {"add", "mod"}, fd : RingFds, slot : Slots,
            res : {"none", "ok", "exists", "noent"}]

RingTypes ==
  /\ asked \in Registrations /\ known \in Registrations /\ registered \in Registrations
  /\ queued \subseteq RingFds
  /\ phase \in {"out", "register", "wait", "aborted"}
  /\ sq \in Seq(Entries) /\ cq \in Seq(Entries)
  /\ sqtail \in Slots /\ prep \in Arrays /\ frames \in Seq(Arrays)

\* The kth slot before the tail of the ring.
Back(tail, k) == IF k <= tail THEN tail - k ELSE tail - k + RingSize

\* The ring has room for what a completion may hand over again, so that a call of
\* uv__epoll_ctl_flush within another finds no completion of its caller's; the
\* submissions use the last slots, each its own.
RingRoom ==
  /\ Len(sq) + Len(cq) <= RingSize
  /\ frames = <<>> => cq = <<>>
  /\ \A i \in 1..Len(sq) : sq[i].slot = Back(sqtail, Len(sq) + 1 - i)

\* A descriptor is under way at most once, and then is no longer in the queue.
OnceUnderWay ==
  /\ \A i, j \in 1..Len(sq) : sq[i].fd = sq[j].fd => i = j
  /\ \A i, j \in 1..Len(cq) : cq[i].fd = cq[j].fd => i = j
  /\ \A i \in 1..Len(sq), j \in 1..Len(cq) : sq[i].fd # cq[j].fd
  /\ \A i \in 1..Len(sq) : sq[i].fd \notin queued
  /\ \A i \in 1..Len(cq) : cq[i].fd \notin queued

\* What is submitted, and what has come back, says the mask that is asked for.
Submitted(e) ==
  /\ asked[e.fd] # NoMask /\ prep[e.slot] = asked[e.fd]
  /\ e.op = "mod" => registered[e.fd] # NoMask

CameBack(e) ==
  /\ asked[e.fd] # NoMask
  /\ \/ e.res = "ok" /\ registered[e.fd] = asked[e.fd]
     \/ e.res = "exists" /\ registered[e.fd] # NoMask /\ frames[Len(frames)][e.slot] = asked[e.fd]

UnderWay(f) == (\E i \in 1..Len(sq) : sq[i].fd = f) \/ (\E i \in 1..Len(cq) : cq[i].fd = f)

MasksRight ==
  /\ \A i \in 1..Len(sq) : Submitted(sq[i])
  /\ \A i \in 1..Len(cq) : CameBack(cq[i])
  /\ \A f \in RingFds : f \in queued => asked[f] # NoMask
  /\ \A f \in RingFds : f \notin queued => known[f] = asked[f]
  /\ \A f \in RingFds : known[f] # NoMask /\ ~UnderWay(f) => registered[f] = known[f]

Phases ==
  /\ phase # "aborted"
  /\ phase # "register" => sq = <<>> /\ frames = <<>>
  /\ phase = "wait" => queued = {}

RingInv == RingTypes /\ RingRoom /\ OnceUnderWay /\ MasksRight /\ Phases

-----------------------------------------------------------------------------
(* What the kernel makes of a batch.                                        *)

\* The recursive function of History exists, so it is what its equation says.
LEMMA HistoryEquation ==
  ASSUME NEW ents \in Seq(Entries)
  PROVE  History(ents) = [i \in 0..Len(ents) |->
           IF i = 0 THEN registered ELSE Applied(History(ents)[i - 1], ents[i])]
<1> DEFINE Solves(g, n) ==
      g = [i \in 0..n |-> IF i = 0 THEN registered ELSE Applied(g[i - 1], ents[i])]
<1>1. \E g : Solves(g, 0)
  <2> DEFINE g == [i \in 0..0 |-> registered]
  <2>1. Solves(g, 0)
    OBVIOUS
  <2> QED BY <2>1
<1>2. ASSUME NEW n \in Nat, \E g : Solves(g, n) PROVE \E g : Solves(g, n + 1)
  <2>1. PICK g : Solves(g, n)
    BY <1>2
  <2> DEFINE h == [i \in 0..(n + 1) |-> IF i <= n THEN g[i] ELSE Applied(g[n], ents[n + 1])]
  <2>2. \A i \in 0..n : h[i] = g[i]
    OBVIOUS
  <2>3. \A i \in 0..n : i # 0 => h[i] = Applied(g[i - 1], ents[i])
    BY <2>1
  <2>4. \A i \in 1..(n + 1) : h[i] = Applied(h[i - 1], ents[i])
    BY <2>1
  <2>5. h[0] = registered
    BY <2>1
  <2> HIDE DEF h
  <2>6. h = [i \in 0..(n + 1) |-> h[i]]
    BY DEF h
  <2>7. \A i \in 0..(n + 1) : h[i] = IF i = 0 THEN registered ELSE Applied(h[i - 1], ents[i])
    BY <2>4, <2>5
  <2>8. [i \in 0..(n + 1) |-> h[i]]
        = [i \in 0..(n + 1) |-> IF i = 0 THEN registered ELSE Applied(h[i - 1], ents[i])]
    BY <2>7, Zenon
  <2> QED BY <2>6, <2>8
<1>3. Len(ents) \in Nat
  BY LenProperties
<1>4. \E g : Solves(g, Len(ents))
  <2> DEFINE S == {n \in Nat : \E g : Solves(g, n)}
  <2> HIDE DEF Solves
  <2>1. 0 \in S
    BY <1>1
  <2>2. \A n \in Nat : n \in S => n + 1 \in S
    BY <1>2
  <2>3. Nat \subseteq S
    <3> HIDE DEF S
    <3> QED BY <2>1, <2>2, SetInduction
  <2> QED BY <1>3, <2>3
<1>5. History(ents) = CHOOSE g : Solves(g, Len(ents))
  BY DEF History
<1> HIDE DEF Solves
<1>6. Solves(History(ents), Len(ents))
  BY <1>4, <1>5
<1> QED BY <1>6 DEF Solves

\* A batch that names no descriptor twice changes each by the entry that names it,
\* and finds it as it was before.
LEMMA BatchEffect ==
  ASSUME NEW ents \in Seq(Entries), RingTypes,
         \A i, j \in 1..Len(ents) : ents[i].fd = ents[j].fd => i = j
  PROVE  LET reg == History(ents)
             n == Len(ents)
         IN  /\ reg[n] \in Registrations
             /\ \A f \in RingFds : (\A i \in 1..n : ents[i].fd # f) => reg[n][f] = registered[f]
             /\ \A i \in 1..n :
                  /\ reg[i - 1][ents[i].fd] = registered[ents[i].fd]
                  /\ reg[n][ents[i].fd] = Applied(registered, ents[i])[ents[i].fd]
<1> DEFINE reg == History(ents)
           n == Len(ents)
           Upto(k) ==
             /\ reg[k] \in Registrations
             /\ \A f \in RingFds : (\A i \in 1..k : ents[i].fd # f) => reg[k][f] = registered[f]
             /\ \A i \in 1..k : reg[k][ents[i].fd] = Applied(registered, ents[i])[ents[i].fd]
<1>1. n \in Nat /\ \A i \in 1..n : ents[i] \in Entries
  BY LenProperties
<1>2. reg[0] = registered /\ \A i \in 1..n : reg[i] = Applied(reg[i - 1], ents[i])
  BY <1>1, HistoryEquation
<1> HIDE DEF reg, n
<1>3. Upto(0)
  BY <1>2 DEF RingTypes
<1>4. ASSUME NEW k \in Nat, k + 1 <= n, Upto(k) PROVE Upto(k + 1)
  <2> DEFINE e == ents[k + 1]
  <2>1. k + 1 \in 1..n /\ e \in Entries /\ e.fd \in RingFds /\ e.slot \in Slots /\ 1..k \subseteq 1..n
    BY <1>1, <1>4 DEF Entries
  <2>2. reg[k + 1] = Applied(reg[k], e)
    BY <1>2, <2>1
  <2>3. \A i \in 1..k : ents[i].fd # e.fd
    BY <2>1 DEF n
  <2> HIDE DEF e
  <2>4. reg[k][e.fd] = registered[e.fd] /\ reg[k] \in Registrations
    BY <1>4, <2>1, <2>3
  <2>5. prep[e.slot] \in Masks \cup {NoMask} /\ registered \in Registrations
    BY <2>1 DEF RingTypes, Arrays
  <2>6. /\ reg[k + 1] \in Registrations
        /\ \A f \in RingFds : f # e.fd => reg[k + 1][f] = reg[k][f]
        /\ reg[k + 1][e.fd] = Applied(registered, e)[e.fd]
    BY <2>1, <2>2, <2>4, <2>5 DEF Applied, Registrations
  <2>7. ASSUME NEW f \in RingFds, \A i \in 1..(k + 1) : ents[i].fd # f
        PROVE  reg[k + 1][f] = registered[f]
    BY <1>4, <2>1, <2>6, <2>7 DEF e
  <2>8. ASSUME NEW i \in 1..(k + 1)
        PROVE  reg[k + 1][ents[i].fd] = Applied(registered, ents[i])[ents[i].fd]
    <3>1. CASE i = k + 1
      BY <2>6, <3>1 DEF e
    <3>2. CASE i # k + 1
      <4>1. i \in 1..k /\ i \in 1..n
        BY <2>1, <3>2
      <4>2. ents[i].fd \in RingFds /\ ents[i].fd # e.fd
        BY <1>1, <2>3, <4>1 DEF Entries
      <4> QED BY <1>4, <2>6, <4>1, <4>2
    <3> QED BY <3>1, <3>2
  <2> QED BY <2>6, <2>7, <2>8
<1> DEFINE S == {k \in Nat : k <= n => Upto(k)}
<1>5. \A k \in 0..n : Upto(k)
  <2> HIDE DEF Upto
  <2>1. 0 \in S
    BY <1>3
  <2>2. \A k \in Nat : k \in S => k + 1 \in S
    BY <1>1, <1>4
  <2>3. Nat \subseteq S
    <3> HIDE DEF S
    <3> QED BY <2>1, <2>2, SetInduction
  <2> QED BY <1>1, <2>3
<1>6. ASSUME NEW i \in 1..n PROVE reg[i - 1][ents[i].fd] = registered[ents[i].fd]
  <2>1. i - 1 \in 0..n /\ ents[i].fd \in RingFds
    BY <1>1 DEF Entries
  <2>2. Upto(i - 1)
    BY <1>5, <2>1
  <2>3. \A j \in 1..(i - 1) : ents[j].fd # ents[i].fd
    BY <1>1 DEF n
  <2> QED BY <2>1, <2>2, <2>3
<1>7. Upto(n)
  BY <1>1, <1>5
<1> QED BY <1>6, <1>7 DEF reg, n

\* The completions of a batch, in whatever order, are those of its entries.
LEMMA FlushEffect ==
  ASSUME RingTypes, OnceUnderWay, cq = <<>>, Flush(sq, prep)
  PROVE  /\ registered' \in Registrations
         /\ \A f \in RingFds : (\A i \in 1..Len(sq) : sq[i].fd # f) => registered'[f] = registered[f]
         /\ \A i \in 1..Len(sq) : registered'[sq[i].fd] = Applied(registered, sq[i])[sq[i].fd]
         /\ cq' \in Seq(Entries) /\ Len(cq') = Len(sq)
         /\ \E p \in Bijection(1..Len(sq), 1..Len(sq)) : \A j \in 1..Len(sq) :
              cq'[j] = [sq[p[j]] EXCEPT !.res = Outcome(registered, sq[p[j]])]
<1> DEFINE n == Len(sq)
           reg == History(sq)
           done == [i \in DOMAIN sq |-> [sq[i] EXCEPT !.res = Outcome(reg[i - 1], sq[i])]]
<1>1. /\ sq \in Seq(Entries) /\ n \in Nat /\ DOMAIN sq = 1..n
      /\ \A i \in 1..n : sq[i] \in Entries /\ sq[i].fd \in RingFds
  <2>1. sq \in Seq(Entries)
    BY DEF RingTypes
  <2>2. n \in Nat /\ DOMAIN sq = 1..n /\ \A i \in 1..n : sq[i] \in Entries
    BY <2>1, LenProperties
  <2> QED BY <2>1, <2>2 DEF Entries
<1>2. /\ reg[n] \in Registrations
      /\ \A f \in RingFds : (\A i \in 1..n : sq[i].fd # f) => reg[n][f] = registered[f]
      /\ \A i \in 1..n : /\ reg[i - 1][sq[i].fd] = registered[sq[i].fd]
                         /\ reg[n][sq[i].fd] = Applied(registered, sq[i])[sq[i].fd]
  BY BatchEffect, <1>1 DEF OnceUnderWay
<1>3. registered' = reg[n]
  BY DEF Flush
<1>4. \A i \in 1..n : /\ done[i] = [sq[i] EXCEPT !.res = Outcome(registered, sq[i])]
                      /\ done[i] \in Entries
  BY <1>1, <1>2 DEF Outcome, Entries
<1>5. PICK p \in Bijection(1..n, 1..n) : cq' = cq \o [i \in 1..n |-> done[p[i]]]
  BY <1>1 DEF Flush
<1> HIDE DEF done, reg, n
<1>6. p \in [1..n -> 1..n]
  BY Fun_BijectionProperties
<1> DEFINE c == [i \in 1..n |-> done[p[i]]]
<1>7. c \in Seq(Entries) /\ Len(c) = n
  <2>1. c \in [1..n -> Entries]
    BY <1>4, <1>6
  <2> HIDE DEF c
  <2> QED BY <1>1, <2>1, SeqDef, LenProperties
<1>8. cq' = c
  <2> HIDE DEF c
  <2>1. <<>> \o c = c
    BY <1>7, ConcatEmptySeq
  <2> QED BY <1>5, <2>1 DEF c
<1>9. \A j \in 1..n : cq'[j] = [sq[p[j]] EXCEPT !.res = Outcome(registered, sq[p[j]])]
  BY <1>4, <1>6, <1>8
<1> HIDE DEF c
<1> QED BY <1>2, <1>3, <1>5, <1>7, <1>8, <1>9 DEF n

-----------------------------------------------------------------------------
(* The slots of the ring.                                                   *)

\* uv__epoll_ctl_prep uses a slot that no waiting submission points into.
LEMMA PreparedEffect ==
  ASSUME RingTypes, RingRoom, ~Full(sq), NEW op \in {"add", "mod"}, NEW f \in RingFds,
         NEW mask \in Masks \cup {NoMask}, Prepared(op, f, mask)
  PROVE  /\ sq' \in Seq(Entries) /\ Len(sq') = Len(sq) + 1 /\ Len(sq) \in Nat
         /\ \A i \in 1..Len(sq) : sq'[i] = sq[i]
         /\ sq'[Len(sq) + 1] = Entry(op, f, sqtail)
         /\ sqtail' \in Slots /\ prep' \in Arrays
         /\ prep'[sqtail] = mask
         /\ \A i \in 1..Len(sq) : prep'[sq[i].slot] = prep[sq[i].slot]
         /\ \A i \in 1..Len(sq') : sq'[i].slot = Back(sqtail', Len(sq') + 1 - i)
<1>1. /\ sq \in Seq(Entries) /\ Len(sq) \in Nat /\ Len(cq) \in Nat
      /\ sqtail \in Slots /\ prep \in Arrays /\ RingSize \in Nat \ {0}
  <2>1. sq \in Seq(Entries) /\ cq \in Seq(Entries)
    BY DEF RingTypes
  <2>2. Len(sq) \in Nat /\ Len(cq) \in Nat
    BY <2>1, LenProperties
  <2> QED BY <2>1, <2>2, EpollRingAssumption DEF RingTypes
<1>2. Len(sq) < RingSize
  BY <1>1 DEF RingRoom, Full
<1>3. Entry(op, f, sqtail) \in Entries
  BY <1>1 DEF Entry, Entries
<1>4. sq' = Append(sq, Entry(op, f, sqtail)) /\ prep' = [prep EXCEPT ![sqtail] = mask]
  BY DEF Prepared
<1>5. /\ sq' \in Seq(Entries) /\ Len(sq') = Len(sq) + 1
      /\ \A i \in 1..Len(sq) : sq'[i] = sq[i]
      /\ sq'[Len(sq) + 1] = Entry(op, f, sqtail)
  BY <1>1, <1>3, <1>4, AppendProperties
<1>6. sqtail' = IF sqtail + 1 = RingSize THEN 0 ELSE sqtail + 1
  <2>1. sqtail \in 0..(RingSize - 1) /\ sqtail' = (sqtail + 1) % RingSize
    BY <1>1 DEF Prepared, Slots
  <2> QED BY <1>1, <2>1
<1>7. sqtail' \in Slots /\ prep' \in Arrays /\ prep'[sqtail] = mask
  <2>1. sqtail' \in Slots
    BY <1>1, <1>6 DEF Slots
  <2> QED BY <1>1, <1>4, <2>1 DEF Arrays
<1> DEFINE n == Len(sq)
<1>8. ASSUME NEW i \in 1..Len(sq) PROVE prep'[sq[i].slot] = prep[sq[i].slot]
  <2>1. sq[i].slot = Back(sqtail, n + 1 - i)
    BY DEF RingRoom
  <2>2. n + 1 - i \in 1..(RingSize - 1)
    BY <1>1, <1>2
  <2> HIDE DEF n
  <2>3. Back(sqtail, n + 1 - i) \in Slots /\ Back(sqtail, n + 1 - i) # sqtail
    BY <1>1, <2>2 DEF Back, Slots
  <2> QED BY <1>1, <1>4, <2>1, <2>3 DEF Arrays
<1>9. ASSUME NEW i \in 1..(n + 1) PROVE sq'[i].slot = Back(sqtail', n + 2 - i)
  <2>1. CASE i = n + 1
    <3>1. sq'[i].slot = sqtail
      BY <1>5, <2>1 DEF Entry
    <3> HIDE DEF n
    <3>2. Back(sqtail', 1) = sqtail
      BY <1>1, <1>6 DEF Back, Slots
    <3>3. n + 2 - i = 1
      BY <1>1, <2>1 DEF n
    <3> QED BY <3>1, <3>2, <3>3
  <2>2. CASE i # n + 1
    <3>1. i \in 1..n /\ sq'[i].slot = Back(sqtail, n + 1 - i)
      BY <1>1, <1>5, <2>2 DEF RingRoom
    <3>2. n + 1 - i \in 1..(RingSize - 1) /\ n + 2 - i = (n + 1 - i) + 1
      BY <1>1, <1>2, <3>1
    <3>3. \A k \in 1..(RingSize - 1) : Back(sqtail', k + 1) = Back(sqtail, k)
      <4> SUFFICES ASSUME NEW k \in 1..(RingSize - 1) PROVE Back(sqtail', k + 1) = Back(sqtail, k)
        OBVIOUS
      <4>1. CASE sqtail + 1 = RingSize
        BY <1>1, <1>6, <4>1 DEF Back, Slots
      <4>2. CASE sqtail + 1 # RingSize
        BY <1>1, <1>6, <4>2 DEF Back, Slots
      <4> QED BY <4>1, <4>2
    <3> HIDE DEF n
    <3> QED BY <3>1, <3>2, <3>3
  <2> QED BY <2>1, <2>2
<1>10. \A i \in 1..Len(sq') : sq'[i].slot = Back(sqtail', Len(sq') + 1 - i)
  <2>1. Len(sq') = n + 1 /\ \A i \in 1..(n + 1) : n + 2 - i = n + 1 + 1 - i
    BY <1>1, <1>5
  <2> HIDE DEF n
  <2> QED BY <1>9, <2>1
<1> QED BY <1>1, <1>5, <1>7, <1>8, <1>10

-----------------------------------------------------------------------------
(* The invariant, step by step.                                             *)

\* The types of what is in the rings.
LEMMA RingElements ==
  ASSUME RingTypes
  PROVE  /\ Len(sq) \in Nat /\ Len(cq) \in Nat /\ Len(frames) \in Nat
         /\ \A i \in 1..Len(sq) : sq[i] \in Entries /\ sq[i].fd \in RingFds
         /\ \A i \in 1..Len(cq) : cq[i] \in Entries /\ cq[i].fd \in RingFds
         /\ sq = <<>> <=> Len(sq) = 0
         /\ cq = <<>> <=> Len(cq) = 0
         /\ frames = <<>> <=> Len(frames) = 0
<1>1. sq \in Seq(Entries) /\ cq \in Seq(Entries) /\ frames \in Seq(Arrays)
  BY DEF RingTypes
<1>2. /\ Len(sq) \in Nat /\ Len(cq) \in Nat /\ Len(frames) \in Nat
      /\ \A i \in 1..Len(sq) : sq[i] \in Entries
      /\ \A i \in 1..Len(cq) : cq[i] \in Entries
  BY <1>1, LenProperties, ElementOfSeq
<1>3. \A e \in Entries : e.fd \in RingFds
  BY DEF Entries
<1>4. /\ sq = <<>> <=> Len(sq) = 0
      /\ cq = <<>> <=> Len(cq) = 0
      /\ frames = <<>> <=> Len(frames) = 0
  BY <1>1, EmptySeq
<1> QED BY <1>2, <1>3, <1>4

\* A call of uv__epoll_ctl_flush submits all there is.
LEMMA FlushStep ==
  ASSUME RingInv, cq = <<>>, phase = "register", Flush(sq, prep),
         UNCHANGED <<askVars, phase, sqtail, prep>>
  PROVE  RingInv'
<1> DEFINE n == Len(sq)
<1>0. RingTypes /\ RingRoom /\ OnceUnderWay /\ MasksRight /\ Phases
  BY DEF RingInv
<1>1. /\ n \in Nat /\ Len(cq) = 0 /\ Len(frames) \in Nat /\ n <= RingSize
      /\ \A i \in 1..n : sq[i] \in Entries /\ sq[i].fd \in RingFds
      /\ sq' = <<>> /\ Len(sq') = 0
      /\ UNCHANGED <<asked, known, queued, phase, sqtail, prep>>
  BY <1>0, RingElements DEF RingRoom, Flush, askVars
<1>2. /\ registered' \in Registrations
      /\ \A f \in RingFds : (\A i \in 1..n : sq[i].fd # f) => registered'[f] = registered[f]
      /\ \A i \in 1..n : registered'[sq[i].fd] = Applied(registered, sq[i])[sq[i].fd]
      /\ cq' \in Seq(Entries) /\ Len(cq') = n
  BY <1>0, FlushEffect
<1>3. PICK p \in Bijection(1..n, 1..n) : \A j \in 1..n :
        cq'[j] = [sq[p[j]] EXCEPT !.res = Outcome(registered, sq[p[j]])]
  BY <1>0, FlushEffect
<1> HIDE DEF n
<1>4. /\ p \in [1..n -> 1..n]
      /\ \A i, j \in 1..n : p[i] = p[j] => i = j
      /\ \A i \in 1..n : \E j \in 1..n : p[j] = i
  BY Fun_BijectionProperties
<1>5. \A j \in 1..n : /\ p[j] \in 1..n /\ cq'[j].fd = sq[p[j]].fd /\ cq'[j].slot = sq[p[j]].slot
                      /\ cq'[j].res = Outcome(registered, sq[p[j]])
  <2> SUFFICES ASSUME NEW j \in 1..n
               PROVE  /\ p[j] \in 1..n /\ cq'[j].fd = sq[p[j]].fd /\ cq'[j].slot = sq[p[j]].slot
                      /\ cq'[j].res = Outcome(registered, sq[p[j]])
    OBVIOUS
  <2> DEFINE e == sq[p[j]]
  <2>1. p[j] \in 1..n /\ e \in Entries
    BY <1>1, <1>4
  <2>2. cq'[j] = [e EXCEPT !.res = Outcome(registered, e)]
    BY <1>3
  <2> HIDE DEF e
  <2>3. cq'[j].fd = e.fd /\ cq'[j].slot = e.slot /\ cq'[j].res = Outcome(registered, e)
    BY <2>1, <2>2 DEF Entries
  <2> QED BY <2>1, <2>3 DEF e
<1>6. /\ frames' = Append(frames, prep) /\ frames' \in Seq(Arrays)
      /\ Len(frames') = Len(frames) + 1 /\ frames'[Len(frames')] = prep
  BY <1>0, <1>1, AppendProperties DEF Flush, RingTypes
<1>7. RingTypes'
  BY <1>0, <1>1, <1>2, <1>6, EmptySeq DEF RingTypes
<1>8. RingRoom'
  <2>1. frames' # <<>>
    BY <1>1, <1>6
  <2> QED BY <1>1, <1>2, <2>1 DEF RingRoom
<1>9. OnceUnderWay'
  <2>1. \A i, j \in 1..n : sq[i].fd = sq[j].fd => i = j
    BY <1>0 DEF OnceUnderWay, n
  <2>2. \A i \in 1..n : sq[i].fd \notin queued
    BY <1>0 DEF OnceUnderWay, n
  <2>3. ASSUME NEW i \in 1..n, NEW j \in 1..n, cq'[i].fd = cq'[j].fd PROVE i = j
    <3>1. p[i] \in 1..n /\ p[j] \in 1..n /\ sq[p[i]].fd = sq[p[j]].fd
      BY <1>5, <2>3
    <3>2. p[i] = p[j]
      BY <2>1, <3>1
    <3> QED BY <1>4, <3>2
  <2> QED BY SMTT(30), <1>1, <1>2, <1>5, <2>2, <2>3 DEF OnceUnderWay
<1>10. MasksRight'
  <2>1. ASSUME NEW j \in 1..n PROVE CameBack(cq[j])'
    <3> DEFINE e == sq[p[j]]
               c == cq'[j]
    <3>1. e \in Entries /\ e.fd \in RingFds /\ e.slot \in Slots /\ e.op \in {"add", "mod"}
      BY <1>1, <1>5 DEF Entries
    <3>2. Submitted(e)
      BY <1>0, <1>5 DEF MasksRight, n
    <3>3. c.fd = e.fd /\ c.slot = e.slot /\ c.res = Outcome(registered, e)
      BY <1>5
    <3>4. registered'[e.fd] = Applied(registered, e)[e.fd]
      BY <1>2, <1>5
    <3> HIDE DEF e, c
    <3>5. \/ c.res = "ok" /\ registered'[c.fd] = asked'[c.fd]
          \/ c.res = "exists" /\ registered'[c.fd] # NoMask
      <4>1. registered \in Registrations
        BY <1>0 DEF RingTypes
      <4>2. CASE e.op = "add"
        BY <1>1, <3>1, <3>2, <3>3, <3>4, <4>1, <4>2 DEF Submitted, Applied, Outcome, Registrations
      <4>3. CASE e.op = "mod"
        BY <1>1, <3>1, <3>2, <3>3, <3>4, <4>1, <4>3 DEF Submitted, Applied, Outcome, Registrations
      <4> QED BY <3>1, <4>2, <4>3
    <3>6. asked'[c.fd] # NoMask /\ frames'[Len(frames')][c.slot] = asked'[c.fd]
      BY <1>1, <1>6, <3>2, <3>3 DEF Submitted
    <3>7. /\ asked'[c.fd] # NoMask
          /\ \/ c.res = "ok" /\ registered'[c.fd] = asked'[c.fd]
             \/ /\ c.res = "exists" /\ registered'[c.fd] # NoMask
                /\ frames'[Len(frames')][c.slot] = asked'[c.fd]
      BY <3>5, <3>6
    <3> QED BY <3>7 DEF CameBack, c
  <2>2. ASSUME NEW f \in RingFds, known[f] # NoMask, ~UnderWay(f)'
        PROVE  registered'[f] = known[f]
    <3>1. \A j \in 1..n : cq'[j].fd # f
      BY <1>2, <2>2 DEF UnderWay
    <3>2. \A i \in 1..n : sq[i].fd # f
      BY SMTT(30), <1>4, <1>5, <3>1
    <3>3. ~UnderWay(f)
      BY <1>1, <3>2 DEF UnderWay, n
    <3> QED BY <1>0, <1>2, <2>2, <3>2, <3>3 DEF MasksRight
  <2>3. \A i \in 1..Len(cq') : CameBack(cq[i])'
    BY <1>2, <2>1
  <2> QED BY <1>0, <1>1, <2>2, <2>3 DEF MasksRight
<1>11. Phases'
  BY <1>0, <1>1 DEF Phases
<1> QED BY <1>7, <1>8, <1>9, <1>10, <1>11 DEF RingInv

\* The completion that is looked at leaves the ring.
LEMMA TailEffect ==
  ASSUME RingTypes, cq # <<>>
  PROVE  /\ Head(cq) = cq[1] /\ 1 \in 1..Len(cq)
         /\ Tail(cq) \in Seq(Entries) /\ Len(Tail(cq)) = Len(cq) - 1 /\ Len(cq) \in Nat
         /\ \A i \in 1..(Len(cq) - 1) : Tail(cq)[i] = cq[i + 1] /\ i + 1 \in 1..Len(cq)
<1>1. cq \in Seq(Entries)
  BY DEF RingTypes
<1>2. Len(cq) \in Nat /\ Len(cq) # 0
  BY <1>1, LenProperties, EmptySeq
<1>3. Head(cq) = cq[1] /\ 1 \in 1..Len(cq)
  BY <1>1, <1>2
<1>4. Tail(cq) \in Seq(Entries) /\ Len(Tail(cq)) = Len(cq) - 1
      /\ \A i \in 1..(Len(cq) - 1) : Tail(cq)[i] = cq[i + 1]
  BY <1>1, HeadTailProperties
<1> QED BY <1>2, <1>3, <1>4

\* The first loop of uv__io_poll takes a descriptor from the queue.
LEMMA RegisterStep ==
  ASSUME RingInv, NEW f \in RingFds, RegisterOne(f)
  PROVE  RingInv'
<1> DEFINE n == Len(sq)
           op == IF known[f] = NoMask THEN "add" ELSE "mod"
<1>0. RingTypes /\ RingRoom /\ OnceUnderWay /\ MasksRight /\ Phases
  BY DEF RingInv
<1>1. /\ f \in queued /\ queued' = queued \ {f}
      /\ known' = [known EXCEPT ![f] = asked[f]]
      /\ phase = "register" /\ frames = <<>> /\ ~Full(sq) /\ cq = <<>>
      /\ UNCHANGED <<asked, registered, phase, cq, frames>>
      /\ Prepared(op, f, asked[f])
  BY <1>0 DEF RegisterOne, RingRoom
<1>2. /\ asked \in Registrations /\ known \in Registrations
      /\ asked[f] \in Masks \cup {NoMask} /\ op \in {"add", "mod"} /\ Len(cq) = 0
  BY <1>0, <1>1, RingElements DEF RingTypes, Registrations
<1> HIDE DEF op
<1>3. /\ sq' \in Seq(Entries) /\ Len(sq') = n + 1 /\ n \in Nat
      /\ \A i \in 1..n : sq'[i] = sq[i]
      /\ sq'[n + 1] = Entry(op, f, sqtail)
      /\ sqtail' \in Slots /\ prep' \in Arrays
      /\ prep'[sqtail] = asked[f]
      /\ \A i \in 1..n : prep'[sq[i].slot] = prep[sq[i].slot]
      /\ \A i \in 1..Len(sq') : sq'[i].slot = Back(sqtail', Len(sq') + 1 - i)
  BY <1>0, <1>1, <1>2, PreparedEffect
<1>4. /\ \A i \in 1..n : sq[i].fd # f /\ sq[i].fd \notin queued /\ sq[i].fd \in RingFds
      /\ \A i, j \in 1..n : sq[i].fd = sq[j].fd => i = j
      /\ ~UnderWay(f)
  BY <1>0, <1>1, <1>2, RingElements DEF OnceUnderWay, UnderWay
<1>5. n < RingSize
  BY <1>0, <1>1, <1>2, <1>3, EpollRingAssumption DEF RingRoom, Full
<1>6. /\ sq'[n + 1].fd = f /\ sq'[n + 1].slot = sqtail /\ sq'[n + 1].op = op
  BY <1>3 DEF Entry
<1> HIDE DEF n
<1>7. RingTypes'
  BY <1>0, <1>1, <1>2, <1>3 DEF RingTypes, Registrations
<1>8. RingRoom'
  BY <1>0, <1>1, <1>2, <1>3, <1>5, EpollRingAssumption DEF RingRoom
<1>9. OnceUnderWay'
  <2>1. \A i \in 1..Len(sq') : i \in 1..n \/ i = n + 1
    BY <1>3
  <2>2. \A i, j \in 1..Len(sq') : sq'[i].fd = sq'[j].fd => i = j
    BY <1>3, <1>4, <1>6, <2>1
  <2>3. \A i \in 1..Len(sq') : sq'[i].fd \notin queued'
    BY <1>1, <1>3, <1>4, <1>6, <2>1
  <2> QED BY <1>1, <1>2, <2>2, <2>3 DEF OnceUnderWay
<1>10. MasksRight'
  <2>1. asked[f] # NoMask
    BY <1>0, <1>1 DEF MasksRight
  <2>2. op = "mod" => registered[f] # NoMask
    BY <1>0, <1>4 DEF MasksRight, op
  <2>3. ASSUME NEW i \in 1..Len(sq') PROVE Submitted(sq[i])'
    <3>1. CASE i \in 1..n
      <4>1. Submitted(sq[i])
        BY <1>0, <3>1 DEF MasksRight, n
      <4> QED BY <1>1, <1>3, <3>1, <4>1 DEF Submitted
    <3>2. CASE i = n + 1
      BY <1>1, <1>3, <1>6, <2>1, <2>2, <3>2 DEF Submitted
    <3> QED BY <1>3, <3>1, <3>2
  <2>4. ASSUME NEW g \in RingFds
        PROVE  /\ g \in queued' => asked'[g] # NoMask
               /\ g \notin queued' => known'[g] = asked'[g]
    BY <1>0, <1>1, <1>2 DEF MasksRight, Registrations
  <2>5. ASSUME NEW g \in RingFds, known'[g] # NoMask, ~UnderWay(g)'
        PROVE  registered'[g] = known'[g]
    <3>1. n + 1 \in 1..Len(sq') /\ 1..n \subseteq 1..Len(sq')
      BY <1>3
    <3>2. g # f /\ \A i \in 1..n : sq[i].fd # g
      BY <1>3, <1>6, <2>5, <3>1 DEF UnderWay
    <3>3. ~UnderWay(g)
      BY <1>2, <3>2 DEF UnderWay, n
    <3> QED BY <1>0, <1>1, <1>2, <2>5, <3>2, <3>3 DEF MasksRight, Registrations
  <2> QED BY <1>1, <1>2, <2>3, <2>4, <2>5 DEF MasksRight
<1>11. Phases'
  BY <1>1 DEF Phases
<1> QED BY <1>7, <1>8, <1>9, <1>10, <1>11 DEF RingInv

\* A completion is looked at: the descriptor is done, or handed over once more.
LEMMA CompleteStep ==
  ASSUME RingInv, Complete
  PROVE  RingInv'
<1> DEFINE n == Len(sq)
           m == Len(cq)
           e == cq[1]
<1>0. RingTypes /\ RingRoom /\ OnceUnderWay /\ MasksRight /\ Phases
  BY DEF RingInv
<1>1. /\ frames # <<>> /\ ~Full(sq) /\ cq # <<>> /\ phase = "register"
      /\ UNCHANGED <<asked, known, queued, registered, frames>>
      /\ cq' = Tail(cq) /\ Head(cq) = e
  BY <1>0, TailEffect DEF Complete, askVars, Phases
<1>2. /\ n \in Nat /\ m \in Nat /\ 1 \in 1..m
      /\ \A i \in 1..n : sq[i] \in Entries /\ sq[i].fd \in RingFds
      /\ \A i \in 1..m : cq[i] \in Entries /\ cq[i].fd \in RingFds
      /\ e \in Entries /\ e.fd \in RingFds /\ e.slot \in Slots
  <2>1. e \in Entries
    BY <1>0, <1>1, RingElements, TailEffect
  <2> QED BY <1>0, <1>1, <2>1, RingElements, TailEffect DEF Entries
<1>3. /\ cq' \in Seq(Entries) /\ Len(cq') = m - 1
      /\ \A i \in 1..(m - 1) : cq'[i] = cq[i + 1] /\ i + 1 \in 1..m
  BY <1>0, <1>1, TailEffect
<1>4. CameBack(e)
  BY <1>0, <1>2 DEF MasksRight
<1>5. /\ \A i, j \in 1..n : sq[i].fd = sq[j].fd => i = j
      /\ \A i, j \in 1..m : cq[i].fd = cq[j].fd => i = j
      /\ \A i \in 1..n, j \in 1..m : sq[i].fd # cq[j].fd
      /\ \A i \in 1..n : sq[i].fd \notin queued
      /\ \A i \in 1..m : cq[i].fd \notin queued
  BY <1>0 DEF OnceUnderWay
<1>6. e.fd \notin queued /\ known[e.fd] = asked[e.fd]
  BY <1>0, <1>2, <1>5 DEF MasksRight
<1>7. ASSUME NEW f \in RingFds, \A i \in 1..n : sq[i].fd # f, \A i \in 1..(m - 1) : cq'[i].fd # f, f # e.fd
      PROVE  ~UnderWay(f)
  <2>1. \A i \in 1..m : i = 1 \/ (i - 1 \in 1..(m - 1) /\ (i - 1) + 1 = i)
    BY <1>2
  <2>2. ASSUME NEW i \in 1..m PROVE cq[i].fd # f
    <3>1. CASE i = 1
      BY <1>7, <3>1
    <3>2. CASE i # 1
      <4>1. i - 1 \in 1..(m - 1) /\ (i - 1) + 1 = i
        BY <2>1, <3>2
      <4>2. cq'[i - 1] = cq[i]
        BY <1>3, <4>1
      <4> QED BY <1>7, <4>1, <4>2
    <3> QED BY <3>1, <3>2
  <2> QED BY <1>7, <2>2 DEF UnderWay
<1>8. \A i \in 1..(m - 1) : CameBack(cq[i])'
  <2> SUFFICES ASSUME NEW i \in 1..(m - 1) PROVE CameBack(cq[i])'
    OBVIOUS
  <2>1. CameBack(cq[i + 1]) /\ cq'[i] = cq[i + 1]
    BY <1>0, <1>3 DEF MasksRight
  <2> QED BY <1>1, <2>1 DEF CameBack
<1>9. /\ \A i, j \in 1..(m - 1) : cq'[i].fd = cq'[j].fd => i = j
      /\ \A i \in 1..n, j \in 1..(m - 1) : sq[i].fd # cq'[j].fd
      /\ \A j \in 1..(m - 1) : cq'[j].fd \notin queued /\ cq'[j].fd # e.fd
  <2>1. ASSUME NEW i \in 1..(m - 1), NEW j \in 1..(m - 1), cq'[i].fd = cq'[j].fd PROVE i = j
    <3>1. i + 1 = j + 1
      BY <1>3, <1>5, <2>1
    <3> QED BY <1>2, <3>1
  <2>2. ASSUME NEW j \in 1..(m - 1) PROVE cq'[j].fd # e.fd
    <3>1. j + 1 # 1
      BY <1>2
    <3> QED BY <1>2, <1>3, <1>5, <3>1
  <2>3. \A i \in 1..n, j \in 1..(m - 1) : sq[i].fd # cq'[j].fd
    BY SMTT(30), <1>3, <1>5
  <2>4. \A j \in 1..(m - 1) : cq'[j].fd \notin queued
    BY <1>3, <1>5
  <2> HIDE DEF n, m, e
  <2> QED BY <2>1, <2>2, <2>3, <2>4
<1>10. \A f \in RingFds : /\ f \in queued => asked[f] # NoMask
                          /\ f \notin queued => known[f] = asked[f]
  BY <1>0 DEF MasksRight
<1>11. n + m <= RingSize
  BY <1>0 DEF RingRoom
<1> HIDE DEF e
<1>12. CASE e.res = "ok"
  <2>1. UNCHANGED <<phase, sq, sqtail, prep>> /\ registered[e.fd] = asked[e.fd]
    BY <1>1, <1>4, <1>12 DEF Complete, CameBack
  <2>2. RingTypes'
    BY <1>0, <1>1, <1>3, <2>1 DEF RingTypes
  <2>3. RingRoom'
    <3>1. \A i \in 1..n : sq[i].slot = Back(sqtail, n + 1 - i)
      BY <1>0 DEF RingRoom
    <3>2. Len(sq') = n /\ n + (m - 1) <= RingSize
      BY <1>2, <1>11, <2>1, EpollRingAssumption
    <3> HIDE DEF n, m
    <3> QED BY <1>1, <1>3, <2>1, <3>1, <3>2 DEF RingRoom
  <2>4. OnceUnderWay'
    BY <1>1, <1>3, <1>5, <1>9, <2>1 DEF OnceUnderWay
  <2>5. MasksRight'
    <3>1. \A i \in 1..Len(sq') : Submitted(sq[i])'
      BY <1>0, <1>1, <2>1 DEF MasksRight, Submitted
    <3>2. ASSUME NEW f \in RingFds, known[f] # NoMask, ~UnderWay(f)'
          PROVE  registered[f] = known[f]
      <4>1. CASE f = e.fd
        BY <1>6, <2>1, <4>1
      <4>2. CASE f # e.fd
        <5>1. ~UnderWay(f)
          BY <1>3, <1>7, <2>1, <3>2, <4>2 DEF UnderWay
        <5> QED BY <1>0, <3>2, <5>1 DEF MasksRight
      <4> QED BY <4>1, <4>2
    <3> QED BY <1>1, <1>3, <1>8, <1>10, <3>1, <3>2 DEF MasksRight
  <2>6. Phases'
    BY <1>1, <2>1 DEF Phases
  <2> QED BY <2>2, <2>3, <2>4, <2>5, <2>6 DEF RingInv
<1>13. CASE e.res = "exists"
  <2>1. /\ registered[e.fd] # NoMask /\ Retried(e) = asked[e.fd]
        /\ asked[e.fd] # NoMask /\ asked[e.fd] \in Masks \cup {NoMask}
    BY <1>0, <1>2, <1>4, <1>13 DEF CameBack, Retried, RingTypes, Registrations
  <2>2. Prepared("mod", e.fd, asked[e.fd]) /\ UNCHANGED phase
    BY <1>1, <1>13, <2>1 DEF Complete
  <2>3. /\ sq' \in Seq(Entries) /\ Len(sq') = n + 1
        /\ \A i \in 1..n : sq'[i] = sq[i]
        /\ sq'[n + 1] = Entry("mod", e.fd, sqtail)
        /\ sqtail' \in Slots /\ prep' \in Arrays
        /\ prep'[sqtail] = asked[e.fd]
        /\ \A i \in 1..n : prep'[sq[i].slot] = prep[sq[i].slot]
        /\ \A i \in 1..Len(sq') : sq'[i].slot = Back(sqtail', Len(sq') + 1 - i)
    BY <1>0, <1>1, <1>2, <2>1, <2>2, PreparedEffect
  <2>4. sq'[n + 1].fd = e.fd /\ sq'[n + 1].slot = sqtail /\ sq'[n + 1].op = "mod"
    BY <2>3 DEF Entry
  <2>5. \A i \in 1..n : sq[i].fd # e.fd
    BY <1>2, <1>5 DEF e
  <2> HIDE DEF n, m
  <2>6. \A i \in 1..Len(sq') : i \in 1..n \/ i = n + 1
    BY <1>2, <2>3
  <2>7. RingTypes'
    BY <1>0, <1>1, <1>3, <2>2, <2>3 DEF RingTypes
  <2>8. RingRoom'
    BY <1>1, <1>2, <1>3, <1>11, <2>3, EpollRingAssumption DEF RingRoom
  <2>9. OnceUnderWay'
    <3>1. \A i, j \in 1..Len(sq') : sq'[i].fd = sq'[j].fd => i = j
      BY SMTT(30), <1>5, <2>3, <2>4, <2>5, <2>6 DEF n
    <3>2. \A i \in 1..Len(sq') : sq'[i].fd \notin queued
      BY <1>5, <1>6, <2>3, <2>4, <2>6
    <3>3. ASSUME NEW i \in 1..Len(sq'), NEW j \in 1..Len(cq') PROVE sq'[i].fd # cq'[j].fd
      <4>1. j \in 1..(m - 1)
        BY <1>3
      <4>2. CASE i \in 1..n
        BY <1>9, <2>3, <4>1, <4>2
      <4>3. CASE i = n + 1
        BY <1>9, <2>4, <4>1, <4>3
      <4> QED BY <2>6, <4>2, <4>3
    <3> QED BY <1>1, <1>3, <1>9, <3>1, <3>2, <3>3 DEF OnceUnderWay
  <2>10. MasksRight'
    <3>1. ASSUME NEW i \in 1..Len(sq') PROVE Submitted(sq[i])'
      <4>1. CASE i \in 1..n
        <5>1. Submitted(sq[i])
          BY <1>0, <4>1 DEF MasksRight, n
        <5> QED BY <1>1, <2>3, <4>1, <5>1 DEF Submitted
      <4>2. CASE i = n + 1
        BY <1>1, <2>1, <2>3, <2>4, <4>2 DEF Submitted
      <4> QED BY <2>6, <4>1, <4>2
    <3>2. ASSUME NEW f \in RingFds, known[f] # NoMask, ~UnderWay(f)'
          PROVE  registered[f] = known[f]
      <4>1. 1..n \subseteq 1..Len(sq') /\ n + 1 \in 1..Len(sq')
        BY <1>2, <2>3
      <4>2. f # e.fd /\ \A i \in 1..n : sq[i].fd # f
        BY <2>3, <2>4, <3>2, <4>1 DEF UnderWay
      <4>3. ~UnderWay(f)
        BY <1>3, <1>7, <3>2, <4>2 DEF UnderWay
      <4> QED BY <1>0, <3>2, <4>3 DEF MasksRight
    <3> QED BY <1>1, <1>3, <1>8, <1>10, <3>1, <3>2 DEF MasksRight
  <2>11. Phases'
    BY <1>1, <2>2 DEF Phases
  <2> QED BY <2>7, <2>8, <2>9, <2>10, <2>11 DEF RingInv
<1> QED BY <1>4, <1>12, <1>13 DEF CameBack

\* The invariant holds at first ...
LEMMA RingStart == EpollRingInit => RingInv
<1> SUFFICES ASSUME EpollRingInit PROVE RingInv
  OBVIOUS
<1>1. /\ asked = [f \in RingFds |-> NoMask] /\ known = asked /\ registered = asked
      /\ queued = {} /\ phase = "out"
      /\ sq = <<>> /\ sqtail = 0 /\ prep = [s \in Slots |-> NoMask] /\ cq = <<>> /\ frames = <<>>
  BY DEF EpollRingInit
<1>2. RingTypes
  <2>1. 0 \in Slots
    BY EpollRingAssumption DEF Slots
  <2>2. sq \in Seq(Entries) /\ cq \in Seq(Entries) /\ frames \in Seq(Arrays)
    BY <1>1, EmptySeq
  <2> QED BY <1>1, <2>1, <2>2 DEF RingTypes, Registrations, Arrays
<1>3. Len(sq) = 0 /\ Len(cq) = 0
  BY <1>1
<1>4. RingRoom
  BY <1>1, <1>3, EpollRingAssumption DEF RingRoom
<1>5. OnceUnderWay
  BY <1>3 DEF OnceUnderWay
<1>6. MasksRight
  BY <1>1, <1>3 DEF MasksRight
<1>7. Phases
  BY <1>1 DEF Phases
<1> QED BY <1>2, <1>4, <1>5, <1>6, <1>7 DEF RingInv

\* ... and every step keeps it.
LEMMA RingStep == RingInv /\ [EpollRingNext]_epollRingVars => RingInv'
<1> SUFFICES ASSUME RingInv, [EpollRingNext]_epollRingVars PROVE RingInv'
  OBVIOUS
<1>0. RingTypes /\ RingRoom /\ OnceUnderWay /\ MasksRight /\ Phases
  BY DEF RingInv
<1>1. CASE UNCHANGED epollRingVars
  <2>1. UNCHANGED <<asked, known, queued, registered, phase, sq, sqtail, prep, cq, frames>>
    BY <1>1 DEF epollRingVars, askVars, ctlVars
  <2> QED BY <1>0, <2>1
       DEF RingInv, RingTypes, RingRoom, OnceUnderWay, MasksRight, Phases, Submitted, CameBack, UnderWay
<1>2. ASSUME \/ EnterPoll \/ EpollWait \/ LeavePoll
      PROVE  RingInv'
  <2>1. UNCHANGED <<asked, known, queued, registered, sq, sqtail, prep, cq, frames>>
    BY <1>2 DEF EnterPoll, EpollWait, LeavePoll, askVars, ctlVars
  <2>2. RingTypes' /\ Phases'
    BY <1>0, <1>2, <2>1 DEF RingTypes, Phases, EnterPoll, EpollWait, LeavePoll
  <2> QED BY <1>0, <2>1, <2>2
       DEF RingInv, RingRoom, OnceUnderWay, MasksRight, Submitted, CameBack, UnderWay
<1>3. ASSUME NEW f \in RingFds,
             \/ \E mask \in Masks : Ask(f, mask)
             \/ \E close \in BOOLEAN : Forget(f, close)
      PROVE  RingInv'
  <2>1. /\ phase = "out" /\ sq = <<>> /\ frames = <<>> /\ cq = <<>>
        /\ UNCHANGED <<phase, sq, sqtail, prep, cq, frames>>
    BY <1>0, <1>3 DEF Ask, Forget, ctlVars, Phases, RingRoom
  <2>2. Len(sq) = 0 /\ Len(cq) = 0
    BY <2>1
  <2>3. \A g \in RingFds : ~UnderWay(g)
    BY <2>2 DEF UnderWay
  <2>4. /\ asked' \in Registrations /\ known' \in Registrations /\ registered' \in Registrations
        /\ queued' \subseteq RingFds
    BY <1>0, <1>3 DEF Ask, Forget, RingTypes, Registrations
  <2>5. RingTypes' /\ RingRoom' /\ OnceUnderWay' /\ Phases'
    BY <1>0, <2>1, <2>2, <2>4 DEF RingTypes, RingRoom, OnceUnderWay, Phases
  <2>6. \A g \in RingFds : /\ g \in queued' => asked'[g] # NoMask
                           /\ g \notin queued' => known'[g] = asked'[g]
                           /\ known'[g] # NoMask => registered'[g] = known'[g]
    <3>1. \A g \in RingFds : /\ g \in queued => asked[g] # NoMask
                             /\ g \notin queued => known[g] = asked[g]
                             /\ known[g] # NoMask => registered[g] = known[g]
      BY <1>0, <2>3 DEF MasksRight
    <3>2. CASE \E mask \in Masks : Ask(f, mask)
      BY <1>0, <3>1, <3>2, EpollRingAssumption DEF Ask, RingTypes, Registrations
    <3>3. CASE \E close \in BOOLEAN : Forget(f, close)
      BY <1>0, <3>1, <3>3 DEF Forget, RingTypes, Registrations
    <3> QED BY <1>3, <3>2, <3>3
  <2>7. MasksRight'
    BY <2>1, <2>2, <2>6 DEF MasksRight
  <2> QED BY <2>5, <2>7 DEF RingInv
<1>4. CASE FlushFull
  <2>1. Len(sq) = RingSize /\ Flush(sq, prep) /\ UNCHANGED <<askVars, phase, sqtail, prep>>
    BY <1>4 DEF FlushFull, Full
  <2>2. Len(cq) = 0 /\ Len(sq) # 0
    BY <1>0, <2>1, RingElements, EpollRingAssumption DEF RingRoom
  <2>3. cq = <<>> /\ sq # <<>>
    BY <1>0, <2>2, RingElements
  <2>4. phase = "register"
    BY <1>0, <2>3 DEF Phases
  <2> QED BY <2>1, <2>3, <2>4, FlushStep
<1>5. CASE FlushRest
  <2>1. cq = <<>> /\ phase = "register" /\ Flush(sq, prep) /\ UNCHANGED <<askVars, phase, sqtail, prep>>
    BY <1>0, <1>5 DEF FlushRest, RingRoom
  <2> QED BY <2>1, FlushStep
<1>6. CASE Complete
  BY <1>6, CompleteStep
<1>7. CASE FlushReturns
  <2>1. /\ cq = <<>> /\ frames # <<>> /\ frames' = SubSeq(frames, 1, Len(frames) - 1)
        /\ UNCHANGED <<asked, known, queued, registered, phase, sq, sqtail, prep, cq>>
    BY <1>7 DEF FlushReturns, askVars
  <2>2. frames \in Seq(Arrays) /\ Len(frames) \in Nat /\ Len(frames) # 0 /\ Len(cq) = 0
    BY <1>0, <2>1, RingElements DEF RingTypes
  <2>3. frames' \in Seq(Arrays)
    <3>1. \A i \in 1..(Len(frames) - 1) : frames[i] \in Arrays
      BY <2>2, ElementOfSeq
    <3>2. Len(frames) - 1 \in Nat
      BY <2>2
    <3> QED BY <2>1, <2>2, <3>1, <3>2, SubSeqProperties
  <2>4. phase = "register"
    BY <1>0, <2>1 DEF Phases
  <2>5. RingTypes' /\ RingRoom' /\ OnceUnderWay' /\ Phases'
    BY <1>0, <2>1, <2>2, <2>3, <2>4 DEF RingTypes, RingRoom, OnceUnderWay, Phases
  <2>6. MasksRight'
    BY <1>0, <2>1, <2>2 DEF MasksRight, Submitted, UnderWay
  <2> QED BY <2>5, <2>6 DEF RingInv
<1>8. ASSUME NEW f \in RingFds, RegisterOne(f) PROVE RingInv'
  BY <1>8, RegisterStep
<1> QED BY <1>1, <1>2, <1>3, <1>4, <1>5, <1>6, <1>7, <1>8 DEF EpollRingNext

\* When the loop waits, nothing is queued or under way: what is asked for is known,
\* and what is known is registered.
LEMMA RingEnough == RingInv => MasksReachKernel
<1> SUFFICES ASSUME RingInv PROVE MasksReachKernel
  OBVIOUS
<1>1. phase # "aborted"
  BY DEF RingInv, Phases
<1>2. ASSUME phase = "wait", NEW f \in RingFds, asked[f] # NoMask
      PROVE  registered[f] = asked[f]
  <2>1. sq = <<>> /\ cq = <<>> /\ queued = {}
    BY <1>2 DEF RingInv, Phases, RingRoom
  <2>2. ~UnderWay(f)
    BY <2>1 DEF UnderWay
  <2> QED BY <1>2, <2>1, <2>2 DEF RingInv, MasksRight
<1> QED BY <1>1, <1>2 DEF MasksReachKernel

\* uv__epoll_ctl_prep and uv__epoll_ctl_flush: whatever the size of the ring, and
\* however deep the retries of a full ring nest, the masks that were asked for are
\* with the kernel when uv__io_poll waits, and neither abort() nor an assertion of
\* the two is reached.
THEOREM MasksAlwaysReachKernel == EpollRingSpec => []MasksReachKernel
BY RingStart, RingStep, RingEnough, PTL DEF EpollRingSpec

-----------------------------------------------------------------------------
(* I/O watchers and poll handles.  An open handle has its descriptor to    *)
(* itself, and only open handles are known to epoll: so a descriptor that  *)
(* is closed is unknown to epoll, and no event of it is left in the array. *)

Reported == [fd : Fds \cup {-1}, mask : SUBSET (Events \cup {"err"}), stale : BOOLEAN]

PollTypes ==
  /\ fd \in [IoHandles -> Fds \cup {-1}]
  /\ events \in [IoHandles -> SUBSET Events]
  /\ pevents \in [IoHandles -> SUBSET Events]
  /\ watcher_queue \in Seq(IoHandles)
  /\ watchers \in [Fds -> IoHandles \cup {NULL}]
  /\ nwatchers \in Nat /\ nfds \in Nat
  /\ pollpc \in {"out", "register", "wait", "events", "aborted"}
  /\ batch \in Seq(Reported)
  /\ full \in BOOLEAN
  /\ files \subseteq Fds
  /\ epoll \in [Fds -> {NULL} \cup SUBSET Events]
  /\ life \in [IoHandles -> {"none", "open", "closing", "idle"}]
  /\ active \subseteq Polls
  /\ in_cb \in BOOLEAN

\* A handle that is open has a descriptor to itself; one that is not asks for nothing.
Owned ==
  /\ \A w \in IoHandles : life[w] # "idle"
  /\ \A w \in IoHandles : life[w] = "open" => fd[w] \in files
  /\ \A v, w \in IoHandles : life[v] = "open" /\ life[w] = "open" /\ fd[v] = fd[w] => v = w

\* The table has just the handles that ask for something, each at its descriptor, and is
\* long enough for them; nfds counts them, and the uv_poll_t among them are active.
TableRight ==
  /\ \A w \in IoHandles : pevents[w] # {} =>
       /\ life[w] = "open" /\ watchers[fd[w]] = w /\ fd[w] < nwatchers
  /\ \A f \in Fds : watchers[f] # NULL => fd[watchers[f]] = f /\ pevents[watchers[f]] # {}
  /\ nfds = Cardinality({f \in Fds : watchers[f] # NULL})
  /\ \A w \in Polls : w \in active <=> pevents[w] # {}

\* What the loop believes that epoll knows of a descriptor is what epoll knows; a handle
\* that asks for something else is queued; epoll knows nothing of a descriptor that no
\* open handle has.
KernelRight ==
  /\ Distinct(watcher_queue)
  /\ \A w \in IoHandles : Linked(watcher_queue, w) => pevents[w] # {}
  /\ \A w \in IoHandles : pevents[w] # {} /\ ~Linked(watcher_queue, w) => events[w] = pevents[w]
  /\ \A w \in IoHandles : events[w] # {} => pevents[w] # {} /\ epoll[fd[w]] = events[w]
  /\ \A f \in Fds : epoll[f] # NULL => f \in files /\ \E w \in IoHandles : life[w] = "open" /\ fd[w] = f

\* Each event that is left in the array is of a descriptor that an open handle has.
BatchRight ==
  /\ junk = {}
  /\ \A i \in DOMAIN batch : batch[i].fd # -1 =>
       ~batch[i].stale /\ \E w \in IoHandles : life[w] = "open" /\ fd[w] = batch[i].fd

\* The loop waits only after it has told the kernel of all handles, or at once after a full array.
PollPhases ==
  /\ in_cb => pollpc = "events"
  /\ pollpc \in {"out", "register"} => ~full
  /\ pollpc = "wait" /\ ~full => watcher_queue = <<>>
  /\ pollpc # "aborted"

PollInv == PollTypes /\ Owned /\ TableRight /\ KernelRight /\ BatchRight /\ PollPhases
-----------------------------------------------------------------------------
\* What is asked of the kernel for w becomes m, and what it is believed to know e; the
\* table and the queue follow.
SetsMasks(w, m, e) ==
  /\ pevents' = [pevents EXCEPT ![w] = m]
  /\ events' = [events EXCEPT ![w] = e]
  /\ e # {} => m # {} /\ e = events[w]
  /\ watchers' = [watchers EXCEPT ![fd[w]] = IF m = {} THEN NULL ELSE w]
  /\ nfds' = IF m = {} /\ pevents[w] # {} THEN nfds - 1
             ELSE IF m # {} /\ pevents[w] = {} THEN nfds + 1 ELSE nfds
  /\ nwatchers' \in Nat /\ nwatchers <= nwatchers' /\ (m # {} => fd[w] < nwatchers')
  /\ watcher_queue' \in Seq(IoHandles) /\ Distinct(watcher_queue')
  /\ \A v \in IoHandles : v # w => (Linked(watcher_queue', v) <=> Linked(watcher_queue, v))
  /\ Linked(watcher_queue', w) => m # {}
  /\ m # {} /\ ~Linked(watcher_queue', w) => e = m

\* The kernel is told nothing, or to forget the descriptor.
Forgets(f) == epoll' = [epoll EXCEPT ![f] = NULL]

\* The powers of two that the table's length can be are numbers, and one is long enough.
LEMMA PowerIsNumber == \A i \in 0..30 : 2^i \in Nat
<1>1. /\ 2^0 \in Nat /\ 2^1 \in Nat /\ 2^2 \in Nat /\ 2^3 \in Nat /\ 2^4 \in Nat /\ 2^5 \in Nat
      /\ 2^6 \in Nat /\ 2^7 \in Nat /\ 2^8 \in Nat /\ 2^9 \in Nat /\ 2^10 \in Nat /\ 2^11 \in Nat
      /\ 2^12 \in Nat /\ 2^13 \in Nat /\ 2^14 \in Nat /\ 2^15 \in Nat /\ 2^16 \in Nat
      /\ 2^17 \in Nat /\ 2^18 \in Nat /\ 2^19 \in Nat /\ 2^20 \in Nat /\ 2^21 \in Nat
      /\ 2^22 \in Nat /\ 2^23 \in Nat /\ 2^24 \in Nat /\ 2^25 \in Nat /\ 2^26 \in Nat
      /\ 2^27 \in Nat /\ 2^28 \in Nat /\ 2^29 \in Nat /\ 2^30 \in Nat
  BY SMT
<1>2. \A i \in 0..30 : \/ i = 0 \/ i = 1 \/ i = 2 \/ i = 3 \/ i = 4 \/ i = 5 \/ i = 6 \/ i = 7
                       \/ i = 8 \/ i = 9 \/ i = 10 \/ i = 11 \/ i = 12 \/ i = 13 \/ i = 14
                       \/ i = 15 \/ i = 16 \/ i = 17 \/ i = 18 \/ i = 19 \/ i = 20 \/ i = 21
                       \/ i = 22 \/ i = 23 \/ i = 24 \/ i = 25 \/ i = 26 \/ i = 27 \/ i = 28
                       \/ i = 29 \/ i = 30
  OBVIOUS
<1> QED BY <1>1, <1>2, Zenon

LEMMA ResizedFits ==
  ASSUME PollTypes, NEW f \in Fds
  PROVE  Resized(f) \in Nat /\ nwatchers <= Resized(f) /\ f < Resized(f)
<1> DEFINE S == {p \in {2 ^ i : i \in 0..30} : p >= f + 3}
<1>0. f \in Nat /\ nwatchers \in Nat /\ f + 3 <= 2^30 /\ 2^30 \in Nat
  BY FdsAssumption DEF PollTypes
<1>1. S \subseteq Nat
  BY PowerIsNumber
<1>2. 2^30 \in S
  <2>1. 30 \in 0..30
    OBVIOUS
  <2> QED BY <1>0, <2>1
<1>3. PICK m \in S : \A n \in S : m <= n
  BY <1>1, <1>2, LeastNat, Zenon
<1>4. NextPowerOfTwo(f + 3) \in S
  BY <1>3 DEF NextPowerOfTwo, Min
<1>5. NextPowerOfTwo(f + 3) \in Nat /\ NextPowerOfTwo(f + 3) >= f + 3
  BY <1>1, <1>4
<1> HIDE DEF S
<1> QED BY <1>0, <1>5 DEF Resized

\* An open handle has its place of the table to itself.
LEMMA OwnPlace ==
  ASSUME PollInv, NEW w \in IoHandles, life[w] = "open"
  PROVE  /\ fd[w] \in files /\ fd[w] \in Fds /\ fd[w] # -1
         /\ watchers[fd[w]] = IF pevents[w] = {} THEN NULL ELSE w
         /\ pevents[w] # {} => fd[w] < nwatchers
         /\ pevents[w] = {} => events[w] = {} /\ ~Linked(watcher_queue, w)
<1>1. fd[w] \in files /\ fd[w] \in Fds /\ fd[w] # -1
  BY FdsAssumption DEF PollInv, PollTypes, Owned
<1>2. watchers[fd[w]] # NULL => watchers[fd[w]] = w /\ pevents[w] # {}
  BY <1>1 DEF PollInv, PollTypes, Owned, TableRight
<1> QED BY <1>1, <1>2, NullAssumption DEF PollInv, TableRight, KernelRight

LEMMA UnlinkFits ==
  ASSUME PollInv, NEW w \in IoHandles
  PROVE  /\ Unlink(watcher_queue, w) \in Seq(IoHandles) /\ Distinct(Unlink(watcher_queue, w))
         /\ \A v : Linked(Unlink(watcher_queue, w), v) <=> Linked(watcher_queue, v) /\ v # w
BY UnlinkType, UnlinkDistinct DEF PollInv, PollTypes, KernelRight

LEMMA EnqueuedFits ==
  ASSUME PollInv, NEW w \in IoHandles
  PROVE  /\ Enqueued(watcher_queue, w) \in Seq(IoHandles) /\ Distinct(Enqueued(watcher_queue, w))
         /\ \A v : Linked(Enqueued(watcher_queue, w), v) <=> Linked(watcher_queue, v) \/ v = w
BY AppendDistinct DEF PollInv, PollTypes, KernelRight, Enqueued

\* uv__io_stop
LEMMA StopSets ==
  ASSUME PollInv, NEW w \in IoHandles, life[w] = "open", NEW mask \in SUBSET Events,
         uv__io_stop(w, mask)
  PROVE  SetsMasks(w, pevents[w] \ mask, IF pevents[w] \subseteq mask THEN {} ELSE events[w])
<1> DEFINE m == pevents[w] \ mask
           e == IF pevents[w] \subseteq mask THEN {} ELSE events[w]
<1>0. /\ fd[w] \in Fds /\ fd[w] # -1 /\ nwatchers \in Nat /\ fd[w] \in Nat
      /\ watchers \in [Fds -> IoHandles \cup {NULL}] /\ watcher_queue \in Seq(IoHandles)
      /\ Distinct(watcher_queue)
      /\ pevents[w] = {} => events[w] = {} /\ ~Linked(watcher_queue, w)
      /\ pevents[w] # {} => fd[w] < nwatchers
      /\ watchers[fd[w]] = IF pevents[w] = {} THEN NULL ELSE w
      /\ w # NULL
  BY OwnPlace, FdsAssumption, NullAssumption DEF PollInv, PollTypes, KernelRight
<1>1. PeventsStopped(w, mask) = m
  BY <1>0 DEF PeventsStopped, Stops
<1>2. EventsStopped(w, mask) = e
  BY <1>0 DEF EventsStopped, StopsAll, Stops
<1>3. TableStopped(w, mask) = [watchers EXCEPT ![fd[w]] = IF m = {} THEN NULL ELSE w]
  <2>1. CASE m = {} /\ pevents[w] # {}
    BY <1>0, <2>1 DEF TableStopped, Unwatches, StopsAll, Stops
  <2>2. CASE m = {} /\ pevents[w] = {}
    BY <1>0, <2>2 DEF TableStopped, Unwatches
  <2>3. CASE m # {}
    BY <1>0, <2>3 DEF TableStopped, Unwatches, StopsAll
  <2> QED BY <2>1, <2>2, <2>3
<1>4. NfdsStopped(w, mask) = IF m = {} /\ pevents[w] # {} THEN nfds - 1 ELSE nfds
  BY <1>0 DEF NfdsStopped, Unwatches, StopsAll, Stops
<1>5. QueueStopped(w, mask) = IF m = {} THEN Unlink(watcher_queue, w) ELSE Enqueued(watcher_queue, w)
  <2>1. CASE Stops(w)
    BY <1>0, <2>1 DEF QueueStopped, StopsAll
  <2>2. CASE ~Stops(w)
    BY <1>0, <2>2 DEF QueueStopped, Stops, Unlink
  <2> QED BY <2>1, <2>2
<1>6. /\ QueueStopped(w, mask) \in Seq(IoHandles) /\ Distinct(QueueStopped(w, mask))
      /\ \A v \in IoHandles : v # w => (Linked(QueueStopped(w, mask), v) <=> Linked(watcher_queue, v))
      /\ Linked(QueueStopped(w, mask), w) <=> m # {}
  BY <1>5, UnlinkFits, EnqueuedFits
<1>7. m # {} => pevents[w] # {}
  OBVIOUS
<1>8. e # {} => m # {} /\ e = events[w]
  OBVIOUS
<1> HIDE DEF m, e
<1> QED BY <1>0, <1>1, <1>2, <1>3, <1>4, <1>6, <1>7, <1>8 DEF SetsMasks, uv__io_stop, m, e
\* uv__io_start
LEMMA StartSets ==
  ASSUME PollInv, NEW w \in IoHandles, life[w] = "open", NEW mask \in SUBSET Events, mask # {},
         uv__io_start(w, mask)
  PROVE  SetsMasks(w, pevents[w] \cup mask, events[w])
<1> DEFINE m == pevents[w] \cup mask
<1>0. /\ fd[w] \in Fds /\ m # {} /\ events[w] \in SUBSET Events
      /\ watchers \in [Fds -> IoHandles \cup {NULL}] /\ watcher_queue \in Seq(IoHandles)
      /\ events \in [IoHandles -> SUBSET Events]
      /\ Distinct(watcher_queue)
      /\ pevents[w] = {} => events[w] = {}
      /\ watchers[fd[w]] = IF pevents[w] = {} THEN NULL ELSE w
      /\ w # NULL
  BY OwnPlace, NullAssumption DEF PollInv, PollTypes, KernelRight
<1>1. nwatchers' \in Nat /\ nwatchers <= nwatchers' /\ fd[w] < nwatchers'
  BY <1>0, ResizedFits DEF uv__io_start, PollInv
<1>2. pevents[w] = {} => events[w] # m /\ watchers[fd[w]] = NULL
  BY <1>0
<1>3. watchers' = [watchers EXCEPT ![fd[w]] = w]
  BY <1>0, <1>2 DEF uv__io_start
<1>4. nfds' = IF pevents[w] = {} THEN nfds + 1 ELSE nfds
  BY <1>0, <1>2 DEF uv__io_start
<1>5. /\ watcher_queue' \in Seq(IoHandles) /\ Distinct(watcher_queue')
      /\ \A v \in IoHandles : v # w => (Linked(watcher_queue', v) <=> Linked(watcher_queue, v))
      /\ ~Linked(watcher_queue', w) => events[w] = m
  BY <1>0, EnqueuedFits DEF uv__io_start
<1>6. pevents' = [pevents EXCEPT ![w] = m] /\ events' = [events EXCEPT ![w] = events[w]]
  BY <1>0 DEF uv__io_start
<1> HIDE DEF m
<1> QED BY <1>0, <1>1, <1>3, <1>4, <1>5, <1>6 DEF SetsMasks, m

LEMMA PollStartSets ==
  ASSUME PollInv, NEW w \in IoHandles, NEW mask \in (SUBSET Events) \ {{}}, uv_poll_start(w, mask)
  PROVE  SetsMasks(w, mask, {})
<1>0. /\ life[w] = "open"
  BY DEF uv_poll_start
<1>1. /\ fd[w] \in Fds /\ mask # {} /\ w # NULL
      /\ watchers[fd[w]] = IF pevents[w] = {} THEN NULL ELSE w
  BY <1>0, OwnPlace, NullAssumption
<1>2. nwatchers' \in Nat /\ nwatchers <= nwatchers' /\ fd[w] < nwatchers'
  BY <1>1, ResizedFits DEF uv_poll_start, PollInv
<1>3. /\ watcher_queue' \in Seq(IoHandles) /\ Distinct(watcher_queue')
      /\ \A v \in IoHandles : v # w => (Linked(watcher_queue', v) <=> Linked(watcher_queue, v))
      /\ Linked(watcher_queue', w)
  <2> DEFINE q == Unlink(watcher_queue, w)
  <2>1. q \in Seq(IoHandles) /\ Distinct(q) /\ \A v : Linked(q, v) <=> Linked(watcher_queue, v) /\ v # w
    BY UnlinkFits
  <2>2. watcher_queue' = Append(q, w)
    BY DEF uv_poll_start
  <2> HIDE DEF q
  <2> QED BY <2>1, <2>2, AppendDistinct
<1>4. nfds' = IF pevents[w] = {} THEN nfds + 1 ELSE nfds
  BY <1>1 DEF uv_poll_start
<1> QED BY <1>1, <1>2, <1>3, <1>4 DEF SetsMasks, uv_poll_start

\* uv__platform_invalidate_fd, or close(2) after it: the descriptor of w is forgotten.
LEMMA ForgottenIs ==
  ASSUME PollInv, NEW w \in IoHandles, life[w] = "open"
  PROVE  Deleted(fd[w]) = [epoll EXCEPT ![fd[w]] = NULL]
BY OwnPlace DEF Deleted

\* Who uses which descriptor, and for what, after the masks of w have changed.
LEMMA MasksKept ==
  ASSUME PollInv, NEW w \in IoHandles, life[w] = "open",
         NEW m \in SUBSET Events, NEW e \in SUBSET Events, SetsMasks(w, m, e),
         \A v \in Polls : v # w => (v \in active' <=> v \in active),
         w \in Polls => (w \in active' <=> m # {}),
         \/ UNCHANGED <<fd, life, files>> /\ (UNCHANGED epoll \/ (e = {} /\ Forgets(fd[w])))
         \/ /\ m = {} /\ Forgets(fd[w])
            /\ life' = [life EXCEPT ![w] = "closing"]
            /\ \/ UNCHANGED <<fd, files>>
               \/ fd' = [fd EXCEPT ![w] = -1] /\ files' = files \ {fd[w]}
  PROVE  Owned' /\ TableRight' /\ KernelRight'
<1>0. /\ fd[w] \in Fds /\ fd[w] \in files /\ w # NULL /\ NULL \notin SUBSET Events
      /\ fd \in [IoHandles -> Fds \cup {-1}] /\ life \in [IoHandles -> {"none", "open", "closing", "idle"}]
      /\ events \in [IoHandles -> SUBSET Events] /\ pevents \in [IoHandles -> SUBSET Events]
      /\ watchers \in [Fds -> IoHandles \cup {NULL}] /\ epoll \in [Fds -> {NULL} \cup SUBSET Events]
      /\ nwatchers \in Nat /\ nfds \in Nat /\ files \subseteq Fds /\ IsFiniteSet(Fds) /\ NULL \notin IoHandles
  BY OwnPlace, NullAssumption, FdsAssumption DEF PollInv, PollTypes
<1>1. /\ Owned /\ TableRight /\ KernelRight /\ fd[w] # -1 /\ -1 \notin Fds
      /\ watchers[fd[w]] = IF pevents[w] = {} THEN NULL ELSE w
  BY OwnPlace, FdsAssumption DEF PollInv
<1>2. Owned'
  BY <1>0, <1>1 DEF Owned
<1>3. \A v \in IoHandles : v # w => /\ pevents'[v] = pevents[v] /\ events'[v] = events[v]
                                    /\ fd'[v] = fd[v] /\ life'[v] = life[v]
  BY <1>0 DEF SetsMasks
<1>4. \A f \in Fds : f # fd[w] => watchers'[f] = watchers[f]
  BY <1>0 DEF SetsMasks
<1>5. /\ pevents'[w] = m /\ events'[w] = e /\ watchers'[fd[w]] = IF m = {} THEN NULL ELSE w
      /\ m # {} => fd'[w] = fd[w] /\ life'[w] = "open" /\ fd[w] < nwatchers'
      /\ nwatchers' \in Nat /\ nwatchers <= nwatchers'
  BY <1>0 DEF SetsMasks
<1>6. \A v \in IoHandles : v # w /\ pevents[v] # {} =>
        life[v] = "open" /\ fd[v] \in Fds /\ fd[v] # fd[w] /\ watchers[fd[v]] = v /\ fd[v] < nwatchers
  BY <1>0, <1>1 DEF Owned, TableRight
<1>7. \A v \in IoHandles : pevents'[v] # {} =>
         life'[v] = "open" /\ watchers'[fd'[v]] = v /\ fd'[v] < nwatchers'
  <2> SUFFICES ASSUME NEW v \in IoHandles, pevents'[v] # {}
               PROVE  life'[v] = "open" /\ watchers'[fd'[v]] = v /\ fd'[v] < nwatchers'
    OBVIOUS
  <2>1. CASE v = w
    BY <1>5, <2>1
  <2>2. CASE v # w
    <3>1. fd[v] \in Nat
      BY <1>3, <1>6, <2>2, FdsAssumption
    <3> QED BY <1>0, <1>3, <1>4, <1>5, <1>6, <2>2, <3>1
  <2> QED BY <2>1, <2>2
<1>8. \A f \in Fds : watchers'[f] # NULL => fd'[watchers'[f]] = f /\ pevents'[watchers'[f]] # {}
  <2> SUFFICES ASSUME NEW f \in Fds, watchers'[f] # NULL
               PROVE  fd'[watchers'[f]] = f /\ pevents'[watchers'[f]] # {}
    OBVIOUS
  <2>1. CASE f = fd[w]
    BY <1>5, <2>1
  <2>2. CASE f # fd[w]
    <3>1. watchers'[f] = watchers[f] /\ watchers[f] \in IoHandles
      BY <1>0, <1>4, <2>2
    <3>2. fd[watchers[f]] = f /\ pevents[watchers[f]] # {}
      BY <1>1, <2>2, <3>1 DEF TableRight
    <3> QED BY <1>3, <2>2, <3>1, <3>2
  <2> QED BY <2>1, <2>2
<1>9. nfds' = Cardinality({f \in Fds : watchers'[f] # NULL})
  <2> DEFINE S == {f \in Fds : watchers[f] # NULL}
             T == {f \in Fds : watchers'[f] # NULL}
  <2>1. IsFiniteSet(S) /\ nfds = Cardinality(S)
    BY <1>0, <1>1, FS_Subset DEF TableRight
  <2>2. fd[w] \in S <=> pevents[w] # {}
    BY <1>0, <1>1
  <2>3. T = IF m = {} THEN S \ {fd[w]} ELSE S \cup {fd[w]}
    BY <1>0, <1>4, <1>5
  <2>4. Cardinality(S) \in Nat
    BY <2>1, FS_CardinalityType
  <2> HIDE DEF S, T
  <2>5. Cardinality(S \ {fd[w]}) = IF fd[w] \in S THEN Cardinality(S) - 1 ELSE Cardinality(S)
    BY <2>1, FS_RemoveElement
  <2>6. Cardinality(S \cup {fd[w]}) = IF fd[w] \in S THEN Cardinality(S) ELSE Cardinality(S) + 1
    BY <2>1, FS_AddElement
  <2>7. nfds' = Cardinality(T)
    BY <2>1, <2>2, <2>3, <2>4, <2>5, <2>6 DEF SetsMasks
  <2> QED BY <2>7 DEF T
<1>10. \A v \in Polls : v \in active' <=> pevents'[v] # {}
  BY <1>1, <1>3, <1>5 DEF TableRight, Polls
<1>11. TableRight'
  BY <1>7, <1>8, <1>9, <1>10 DEF TableRight
<1>12. /\ Distinct(watcher_queue')
       /\ \A v \in IoHandles : Linked(watcher_queue', v) => pevents'[v] # {}
       /\ \A v \in IoHandles : pevents'[v] # {} /\ ~Linked(watcher_queue', v) => events'[v] = pevents'[v]
  BY <1>1, <1>3, <1>5 DEF KernelRight, SetsMasks
<1>13. \A v \in IoHandles : events'[v] # {} => pevents'[v] # {} /\ epoll'[fd'[v]] = events'[v]
  <2> SUFFICES ASSUME NEW v \in IoHandles, events'[v] # {}
               PROVE  pevents'[v] # {} /\ epoll'[fd'[v]] = events'[v]
    OBVIOUS
  <2>1. CASE v = w
    <3>1. e # {} /\ m # {} /\ e = events[w]
      BY <1>5, <2>1 DEF SetsMasks
    <3>2. epoll' = epoll /\ fd' = fd
      BY <3>1
    <3> QED BY <1>1, <1>5, <2>1, <3>1, <3>2 DEF KernelRight
  <2>2. CASE v # w
    <3>1. events[v] # {} /\ pevents[v] # {} /\ epoll[fd[v]] = events[v] /\ pevents'[v] # {}
      BY <1>1, <1>3, <2>2 DEF KernelRight
    <3>2. fd[v] \in Fds /\ fd[v] # fd[w]
      BY <1>6, <2>2, <3>1
    <3>3. epoll'[fd[v]] = epoll[fd[v]]
      BY <1>0, <3>2 DEF Forgets
    <3> QED BY <1>3, <2>2, <3>1, <3>3
  <2> QED BY <2>1, <2>2
<1>14. \A f \in Fds : epoll'[f] # NULL =>
         f \in files' /\ \E v \in IoHandles : life'[v] = "open" /\ fd'[v] = f
  <2> SUFFICES ASSUME NEW f \in Fds, epoll'[f] # NULL
               PROVE  f \in files' /\ \E v \in IoHandles : life'[v] = "open" /\ fd'[v] = f
    OBVIOUS
  <2>1. epoll[f] # NULL /\ (Forgets(fd[w]) => f # fd[w])
    BY <1>0 DEF Forgets
  <2>2. f \in files
    BY <1>1, <2>1 DEF KernelRight
  <2>3. PICK v \in IoHandles : life[v] = "open" /\ fd[v] = f
    BY <1>1, <2>1 DEF KernelRight
  <2>4. f \in files'
    BY <2>1, <2>2
  <2>5. life'[v] = "open" /\ fd'[v] = f
    <3>1. CASE v = w
      BY <2>1, <2>3, <3>1
    <3>2. CASE v # w
      BY <1>3, <2>3, <3>2
    <3> QED BY <3>1, <3>2
  <2> QED BY <2>4, <2>5
<1>15. KernelRight'
  BY <1>12, <1>13, <1>14 DEF KernelRight
<1> QED BY <1>2, <1>11, <1>15
-----------------------------------------------------------------------------
(* Types                                                                    *)

LEMMA BatchTypes ==
  ASSUME PollInv, NEW f \in Fds
  PROVE  /\ Invalidated(f) \in Seq(Reported) /\ Len(Invalidated(f)) = Len(batch)
         /\ \A i \in 1..Len(batch) :
              Invalidated(f)[i] = IF batch[i].fd = f THEN [batch[i] EXCEPT !.fd = -1] ELSE batch[i]
<1>0. batch \in Seq(Reported) /\ Len(batch) \in Nat /\ DOMAIN batch = 1..Len(batch)
  BY LenProperties DEF PollInv, PollTypes
<1>1. \A i \in 1..Len(batch) : batch[i] \in Reported
  BY <1>0, ElementOfSeq
<1>2. \A i \in 1..Len(batch) : [batch[i] EXCEPT !.fd = -1] \in Reported
  BY <1>1 DEF Reported
<1>3. Invalidated(f) \in [1..Len(batch) -> Reported]
  BY <1>0, <1>1, <1>2 DEF Invalidated
<1>4. Invalidated(f) \in Seq(Reported) /\ Len(Invalidated(f)) = Len(batch)
  BY <1>0, <1>3, LenProperties, SeqDef
<1> QED BY <1>0, <1>4 DEF Invalidated

\* After a descriptor is forgotten no event of it is left.
LEMMA InvalidatedRight ==
  ASSUME PollInv, NEW w \in IoHandles, life[w] = "open", NEW evs, evs = Invalidated(fd[w])
  PROVE  \A i \in DOMAIN evs : evs[i].fd # -1 =>
           ~evs[i].stale /\ evs[i].fd # fd[w] /\ \E v \in IoHandles : life[v] = "open" /\ fd[v] = evs[i].fd
<1>0. fd[w] \in Fds
  BY OwnPlace
<1>1. batch \in Seq(Reported) /\ Len(batch) \in Nat /\ DOMAIN batch = 1..Len(batch) /\ BatchRight
  BY LenProperties DEF PollInv, PollTypes
<1>2. DOMAIN evs = 1..Len(batch)
  BY <1>1 DEF Invalidated
<1>3. \A i \in 1..Len(batch) :
        evs[i] = IF batch[i].fd = fd[w] THEN [batch[i] EXCEPT !.fd = -1] ELSE batch[i]
  BY <1>0, BatchTypes
<1>4. \A i \in 1..Len(batch) : batch[i] \in Reported
  BY <1>1, ElementOfSeq
<1> SUFFICES ASSUME NEW i \in 1..Len(batch), evs[i].fd # -1
             PROVE  ~evs[i].stale /\ evs[i].fd # fd[w]
                    /\ \E v \in IoHandles : life[v] = "open" /\ fd[v] = evs[i].fd
  BY <1>2
<1>5. [batch[i] EXCEPT !.fd = -1].fd = -1
  BY <1>4 DEF Reported
<1>6. evs[i] = batch[i] /\ batch[i].fd # fd[w]
  BY <1>3, <1>5
<1> QED BY <1>1, <1>6 DEF BatchRight

-----------------------------------------------------------------------------
(* One lemma per operation                                                  *)

LEMMA SameWatchers ==
  ASSUME PollInv, UNCHANGED <<fd, events, pevents, tableVars, files, epoll, life, active>>
  PROVE  Owned' /\ TableRight' /\ KernelRight'
BY DEF PollInv, Owned, TableRight, KernelRight, tableVars

LEMMA SameBatch ==
  ASSUME PollInv, UNCHANGED <<fd, batch, junk, life>>
  PROVE  BatchRight'
BY DEF PollInv, BatchRight

LEMMA TailBatch ==
  ASSUME PollInv, batch # <<>>, batch' = Tail(batch), UNCHANGED <<fd, junk, life>>
  PROVE  BatchRight' /\ batch' \in Seq(Reported)
<1>1. batch \in Seq(Reported) /\ Len(batch) \in Nat /\ Len(batch) > 0
  BY LenProperties, EmptySeq DEF PollInv, PollTypes
<1>2. /\ Tail(batch) \in Seq(Reported) /\ Len(Tail(batch)) = Len(batch) - 1
      /\ \A i \in 1..Len(Tail(batch)) : Tail(batch)[i] = batch[i + 1]
  BY <1>1, HeadTailProperties, Zenon
<1>3. \A i \in DOMAIN Tail(batch) : i + 1 \in DOMAIN batch /\ Tail(batch)[i] = batch[i + 1]
  BY <1>1, <1>2, LenProperties
<1> QED BY <1>2, <1>3 DEF PollInv, BatchRight

LEMMA OpenStep ==
  ASSUME PollInv, NEW f \in Fds, Open(f), UserCode, UNCHANGED in_cb
  PROVE  PollInv'
<1>1. PollTypes'
  BY DEF PollInv, PollTypes, Open, tableVars, pollVars
<1>2. Owned' /\ TableRight' /\ KernelRight'
  BY DEF PollInv, Owned, TableRight, KernelRight, Open, tableVars
<1>3. BatchRight' /\ PollPhases'
  BY DEF PollInv, BatchRight, PollPhases, Open, pollVars, tableVars
<1> QED BY <1>1, <1>2, <1>3 DEF PollInv

\* With no open handle on the descriptor, the kernel knows nothing of it any more, and no
\* event of it is left.
LEMMA CloseStep ==
  ASSUME ~EarlyClose, PollInv, NEW f \in Fds, Close(f), UserCode, UNCHANGED in_cb
  PROVE  PollInv'
<1>0. /\ f \in files /\ \A w \in IoHandles : ~(life[w] = "open" /\ fd[w] = f)
      /\ CloseFile(f, epoll, batch)
      /\ UNCHANGED <<fd, events, pevents, tableVars, pollpc, full, active>>
  BY DEF Close
<1>1. life' = life
  BY <1>0 DEF PollInv, PollTypes, Close
<1>2. epoll[f] = NULL
  BY <1>0 DEF PollInv, KernelRight
<1>3. epoll' = epoll /\ junk' = junk /\ files' = files \ {f}
  BY <1>0, <1>2 DEF CloseFile, PollInv, PollTypes
<1>4. batch' = batch
  <2>1. batch \in Seq(Reported) /\ DOMAIN batch = 1..Len(batch)
    BY LenProperties DEF PollInv, PollTypes
  <2>2. \A i \in DOMAIN batch : batch[i].fd # f
    <3>1. f # -1
      BY FdsAssumption
    <3> QED BY <1>0, <3>1 DEF PollInv, BatchRight
  <2>3. batch' = [i \in DOMAIN batch |-> batch[i]]
    BY <1>0, <2>2 DEF CloseFile
  <2> QED BY <2>1, <2>3
<1>5. PollTypes'
  BY <1>0, <1>1, <1>3, <1>4 DEF PollInv, PollTypes, tableVars
<1>6. Owned' /\ TableRight'
  BY <1>0, <1>1, <1>3 DEF PollInv, Owned, TableRight, tableVars
<1>7. KernelRight'
  BY <1>0, <1>1, <1>2, <1>3 DEF PollInv, KernelRight, tableVars
<1>8. BatchRight' /\ PollPhases'
  BY <1>0, <1>1, <1>3, <1>4 DEF PollInv, BatchRight, PollPhases, tableVars
<1> QED BY <1>5, <1>6, <1>7, <1>8 DEF PollInv
\* What an operation that changes the masks of w has in common with the others.
LEMMA MaskStep ==
  ASSUME PollInv, NEW w \in IoHandles, life[w] = "open",
         NEW m \in SUBSET Events, NEW e \in SUBSET Events, SetsMasks(w, m, e),
         active' \subseteq Polls, in_cb' \in BOOLEAN, nfds' \in Nat,
         fd' \in [IoHandles -> Fds \cup {-1}], files' \subseteq Fds,
         life' \in [IoHandles -> {"none", "open", "closing", "idle"}],
         UNCHANGED epoll \/ Forgets(fd[w]),
         batch' \in Seq(Reported), UNCHANGED <<pollpc, full>>
  PROVE  PollTypes'
<1>0. /\ fd[w] \in Fds
      /\ events \in [IoHandles -> SUBSET Events] /\ pevents \in [IoHandles -> SUBSET Events]
      /\ watchers \in [Fds -> IoHandles \cup {NULL}] /\ epoll \in [Fds -> {NULL} \cup SUBSET Events]
      /\ pollpc \in {"out", "register", "wait", "events", "aborted"} /\ full \in BOOLEAN
  BY OwnPlace DEF PollInv, PollTypes
<1>1. /\ events' \in [IoHandles -> SUBSET Events] /\ pevents' \in [IoHandles -> SUBSET Events]
      /\ watchers' \in [Fds -> IoHandles \cup {NULL}] /\ watcher_queue' \in Seq(IoHandles)
      /\ nwatchers' \in Nat
  BY <1>0 DEF SetsMasks
<1>2. epoll' \in [Fds -> {NULL} \cup SUBSET Events]
  BY <1>0 DEF Forgets
<1> QED BY <1>0, <1>1, <1>2 DEF PollTypes

LEMMA NfdsIsNumber ==
  ASSUME PollInv, NEW w \in IoHandles, NEW m \in SUBSET Events, NEW e, SetsMasks(w, m, e)
  PROVE  nfds' \in Nat
<1>0. IsFiniteSet(Fds)
  BY FdsAssumption
<1> DEFINE S == {f \in Fds : watchers[f] # NULL}
<1>1. IsFiniteSet(S) /\ nfds = Cardinality(S) /\ nfds \in Nat
  BY <1>0, FS_Subset DEF PollInv, PollTypes, TableRight
<1>2. pevents[w] # {} => fd[w] \in S
  BY NullAssumption DEF PollInv, PollTypes, TableRight, Owned
<1>3. fd[w] \in S => nfds # 0
  BY <1>1, FS_EmptySet
<1> QED BY <1>1, <1>2, <1>3 DEF SetsMasks

\* uv__poll_stop, when a uv_poll_t is stopped or closed.
LEMMA StopPollStep ==
  ASSUME PollInv, NEW w \in Polls, life[w] = "open", StopPoll(w), UserCode, UNCHANGED in_cb,
         UNCHANGED life \/ life' = [life EXCEPT ![w] = "closing"]
  PROVE  PollInv'
<1>0. /\ w \in IoHandles /\ fd[w] \in Fds /\ active \subseteq Polls
      /\ files \subseteq Fds /\ fd \in [IoHandles -> Fds \cup {-1}] /\ in_cb \in BOOLEAN
      /\ life \in [IoHandles -> {"none", "open", "closing", "idle"}]
      /\ pevents[w] \in SUBSET Events
  BY OwnPlace DEF Polls, PollInv, PollTypes
<1>1. /\ uv__io_stop(w, Events) /\ active' = active \ {w}
      /\ batch' = Invalidated(fd[w]) /\ Forgets(fd[w])
      /\ UNCHANGED <<fd, pollpc, full, files, junk>>
  BY <1>0, ForgottenIs DEF StopPoll, invalidate_fd, Forgets
<1>2. SetsMasks(w, {}, {})
  <2>1. SetsMasks(w, pevents[w] \ Events, IF pevents[w] \subseteq Events THEN {} ELSE events[w])
    BY <1>0, <1>1, StopSets
  <2>2. pevents[w] \ Events = {} /\ pevents[w] \subseteq Events
    BY <1>0
  <2> QED BY <2>1, <2>2
<1>3. Owned' /\ TableRight' /\ KernelRight'
  BY <1>0, <1>1, <1>2, MasksKept
<1>4. PollTypes'
  <2>1. nfds' \in Nat
    BY <1>0, <1>2, NfdsIsNumber
  <2>2. life' \in [IoHandles -> {"none", "open", "closing", "idle"}]
    BY <1>0
  <2> QED BY <1>0, <1>1, <1>2, <2>1, <2>2, MaskStep, BatchTypes
<1>5. BatchRight'
  <2>1. \A i \in DOMAIN batch' : batch'[i].fd # -1 =>
           ~batch'[i].stale /\ batch'[i].fd # fd[w]
           /\ \E v \in IoHandles : life[v] = "open" /\ fd[v] = batch'[i].fd
    BY <1>0, <1>1, InvalidatedRight
  <2>2. \A v \in IoHandles : life[v] = "open" /\ fd[v] # fd[w] => life'[v] = "open" /\ fd'[v] = fd[v]
    BY <1>0, <1>1
  <2>3. junk' = {}
    BY <1>1 DEF PollInv, BatchRight
  <2> QED BY <2>1, <2>2, <2>3 DEF BatchRight
<1>6. PollPhases'
  BY <1>1 DEF PollInv, PollPhases, UserCode
<1> QED BY <1>3, <1>4, <1>5, <1>6 DEF PollInv

LEMMA PollStartStep ==
  ASSUME PollInv, NEW w \in Polls, NEW mask \in (SUBSET Events) \ {{}}, uv_poll_start(w, mask),
         UserCode, UNCHANGED in_cb
  PROVE  PollInv'
<1>0. life[w] = "open"
  BY DEF uv_poll_start
<1>1. /\ w \in IoHandles /\ fd[w] \in Fds /\ active \subseteq Polls /\ {} \in SUBSET Events
      /\ files \subseteq Fds /\ fd \in [IoHandles -> Fds \cup {-1}] /\ in_cb \in BOOLEAN
      /\ life \in [IoHandles -> {"none", "open", "closing", "idle"}]
      /\ mask \in SUBSET Events /\ mask # {}
  BY <1>0, OwnPlace DEF Polls, PollInv, PollTypes
<1>2. /\ active' = active \cup {w}
      /\ batch' = Invalidated(fd[w]) /\ Forgets(fd[w])
      /\ UNCHANGED <<fd, pollpc, full, files, junk, life>>
  BY <1>0, <1>1, ForgottenIs DEF uv_poll_start, invalidate_fd, Forgets
<1>3. SetsMasks(w, mask, {})
  BY <1>1, PollStartSets
<1>4. Owned' /\ TableRight' /\ KernelRight'
  BY <1>0, <1>1, <1>2, <1>3, MasksKept
<1>5. PollTypes'
  <2>1. nfds' \in Nat
    BY <1>1, <1>3, NfdsIsNumber
  <2> QED BY <1>0, <1>1, <1>2, <1>3, <2>1, MaskStep, BatchTypes
<1>6. BatchRight'
  BY <1>0, <1>1, <1>2, InvalidatedRight DEF BatchRight, PollInv
<1>7. PollPhases'
  BY <1>2 DEF PollInv, PollPhases, UserCode
<1> QED BY <1>4, <1>5, <1>6, <1>7 DEF PollInv

LEMMA PollInitStep ==
  ASSUME PollInv, NEW w \in Polls, NEW f \in Fds, uv_poll_init(w, f), UserCode, UNCHANGED in_cb
  PROVE  PollInv'
<1>0. /\ w \in IoHandles /\ life[w] = "none" /\ f \in files /\ ~Used(f) /\ f # -1
      /\ life' = [life EXCEPT ![w] = "open"] /\ fd' = [fd EXCEPT ![w] = f]
      /\ events' = [events EXCEPT ![w] = {}] /\ pevents' = [pevents EXCEPT ![w] = {}]
      /\ epoll' = [epoll EXCEPT ![f] = NULL]
      /\ UNCHANGED <<tableVars, pollVars, files, junk, active>>
  BY FdsAssumption DEF uv_poll_init, Polls, Deleted
<1>1. /\ fd \in [IoHandles -> Fds \cup {-1}] /\ life \in [IoHandles -> {"none", "open", "closing", "idle"}]
      /\ events \in [IoHandles -> SUBSET Events] /\ pevents \in [IoHandles -> SUBSET Events]
      /\ watchers \in [Fds -> IoHandles \cup {NULL}] /\ epoll \in [Fds -> {NULL} \cup SUBSET Events]
      /\ files \subseteq Fds /\ PollTypes /\ Owned /\ TableRight /\ KernelRight /\ BatchRight /\ PollPhases
  BY DEF PollInv, PollTypes
<1>2. pevents[w] = {} /\ events[w] = {} /\ pevents' = pevents /\ events' = events
  BY <1>0, <1>1 DEF TableRight, KernelRight
<1>3. \A v \in IoHandles : life[v] = "open" => v # w /\ fd[v] # f /\ life'[v] = "open" /\ fd'[v] = fd[v]
  BY <1>0, <1>1 DEF Used
<1>4. PollTypes'
  BY <1>0, <1>1 DEF PollTypes, tableVars, pollVars
<1>5. Owned'
  BY <1>0, <1>1, <1>3 DEF Owned
<1>6. TableRight'
  <2>1. \A v \in IoHandles : pevents[v] # {} => life[v] = "open" /\ fd'[v] = fd[v] /\ life'[v] = "open"
    BY <1>1, <1>3 DEF TableRight
  <2>2. \A g \in Fds : watchers[g] # NULL => watchers[g] \in IoHandles /\ pevents[watchers[g]] # {}
    BY <1>1 DEF TableRight
  <2> QED BY <1>0, <1>1, <1>2, <2>1, <2>2 DEF TableRight, tableVars
<1>7. KernelRight'
  <2>1. \A v \in IoHandles : events[v] # {} => fd'[v] = fd[v] /\ fd[v] # f /\ fd[v] \in Fds
    BY <1>1, <1>3 DEF TableRight, KernelRight, Owned
  <2>2. \A g \in Fds : epoll'[g] # NULL => epoll[g] # NULL /\ g # f
    BY <1>0, <1>1
  <2>3. \A v \in IoHandles : events'[v] # {} => pevents'[v] # {} /\ epoll'[fd'[v]] = events'[v]
    BY <1>0, <1>1, <1>2, <2>1 DEF KernelRight
  <2>4. \A g \in Fds : epoll'[g] # NULL =>
          g \in files' /\ \E v \in IoHandles : life'[v] = "open" /\ fd'[v] = g
    BY <1>0, <1>1, <1>3, <2>2 DEF KernelRight
  <2>5. watcher_queue' = watcher_queue
    BY <1>0 DEF tableVars
  <2> QED BY <1>1, <1>2, <2>3, <2>4, <2>5 DEF KernelRight
<1>8. BatchRight'
  BY <1>0, <1>1, <1>3 DEF BatchRight, pollVars
<1>9. PollPhases'
  BY <1>0, <1>1 DEF PollPhases, pollVars, tableVars
<1> QED BY <1>4, <1>5, <1>6, <1>7, <1>8, <1>9 DEF PollInv

LEMMA StreamOpenStep ==
  ASSUME PollInv, NEW w \in Streams, NEW f \in Fds, uv__stream_open(w, f), UserCode, UNCHANGED in_cb
  PROVE  PollInv'
<1>0. /\ w \in IoHandles /\ life[w] = "none" /\ f \notin files /\ f # -1
      /\ life' = [life EXCEPT ![w] = "open"] /\ fd' = [fd EXCEPT ![w] = f]
      /\ events' = [events EXCEPT ![w] = {}] /\ pevents' = [pevents EXCEPT ![w] = {}]
      /\ files' = files \cup {f}
      /\ UNCHANGED <<tableVars, pollVars, epoll, junk, active>>
  BY FdsAssumption, StreamsAssumption DEF uv__stream_open
<1>1. /\ fd \in [IoHandles -> Fds \cup {-1}] /\ life \in [IoHandles -> {"none", "open", "closing", "idle"}]
      /\ events \in [IoHandles -> SUBSET Events] /\ pevents \in [IoHandles -> SUBSET Events]
      /\ watchers \in [Fds -> IoHandles \cup {NULL}] /\ epoll \in [Fds -> {NULL} \cup SUBSET Events]
      /\ PollTypes /\ Owned /\ TableRight /\ KernelRight /\ BatchRight /\ PollPhases
  BY DEF PollInv, PollTypes
<1>2. pevents[w] = {} /\ events[w] = {} /\ pevents' = pevents /\ events' = events
  BY <1>0, <1>1 DEF TableRight, KernelRight
<1>3. \A v \in IoHandles : life[v] = "open" => v # w /\ fd[v] # f /\ life'[v] = "open" /\ fd'[v] = fd[v]
  BY <1>0, <1>1 DEF Owned
<1>4. PollTypes'
  BY <1>0, <1>1 DEF PollTypes, tableVars, pollVars
<1>5. Owned'
  BY <1>0, <1>1, <1>3 DEF Owned
<1>6. TableRight'
  <2>1. \A v \in IoHandles : pevents[v] # {} => life[v] = "open" /\ fd'[v] = fd[v] /\ life'[v] = "open"
    BY <1>1, <1>3 DEF TableRight
  <2>2. \A g \in Fds : watchers[g] # NULL => watchers[g] \in IoHandles /\ pevents[watchers[g]] # {}
    BY <1>1 DEF TableRight
  <2> QED BY <1>0, <1>1, <1>2, <2>1, <2>2 DEF TableRight, tableVars
<1>7. KernelRight'
  <2>1. \A v \in IoHandles : events[v] # {} => fd'[v] = fd[v]
    BY <1>1, <1>3 DEF TableRight, KernelRight
  <2>2. \A v \in IoHandles : events'[v] # {} => pevents'[v] # {} /\ epoll'[fd'[v]] = events'[v]
    BY <1>0, <1>1, <1>2, <2>1 DEF KernelRight
  <2>3. \A g \in Fds : epoll'[g] # NULL =>
          g \in files' /\ \E v \in IoHandles : life'[v] = "open" /\ fd'[v] = g
    BY <1>0, <1>1, <1>3 DEF KernelRight
  <2>4. watcher_queue' = watcher_queue
    BY <1>0 DEF tableVars
  <2> QED BY <1>1, <1>2, <2>2, <2>3, <2>4 DEF KernelRight
<1>8. BatchRight'
  BY <1>0, <1>1, <1>3 DEF BatchRight, pollVars
<1>9. PollPhases'
  BY <1>0, <1>1 DEF PollPhases, pollVars, tableVars
<1> QED BY <1>4, <1>5, <1>6, <1>7, <1>8, <1>9 DEF PollInv
LEMMA StreamCloseStep ==
  ASSUME PollInv, NEW w \in Streams, uv__stream_close(w), UserCode, UNCHANGED in_cb
  PROVE  PollInv'
<1>0. /\ w \in IoHandles /\ w \notin Polls /\ life[w] = "open" /\ uv__io_stop(w, Events)
      /\ life' = [life EXCEPT ![w] = "closing"] /\ fd' = [fd EXCEPT ![w] = -1]
      /\ CloseFile(fd[w], Deleted(fd[w]), Invalidated(fd[w]))
      /\ UNCHANGED <<pollpc, full, active>>
  BY StreamsAssumption DEF uv__stream_close, Polls
<1>1. /\ fd[w] \in Fds /\ active \subseteq Polls
      /\ files \subseteq Fds /\ fd \in [IoHandles -> Fds \cup {-1}] /\ in_cb \in BOOLEAN
      /\ life \in [IoHandles -> {"none", "open", "closing", "idle"}]
      /\ epoll \in [Fds -> {NULL} \cup SUBSET Events] /\ pevents[w] \in SUBSET Events
      /\ {} \in SUBSET Events
  BY <1>0, OwnPlace DEF PollInv, PollTypes
<1>2. SetsMasks(w, {}, {})
  <2>1. SetsMasks(w, pevents[w] \ Events, IF pevents[w] \subseteq Events THEN {} ELSE events[w])
    BY <1>0, <1>1, StopSets
  <2>2. pevents[w] \ Events = {} /\ pevents[w] \subseteq Events
    BY <1>1
  <2> QED BY <2>1, <2>2
<1>3. Forgets(fd[w]) /\ files' = files \ {fd[w]} /\ junk' = junk
  <2>1. Deleted(fd[w]) = [epoll EXCEPT ![fd[w]] = NULL] /\ Deleted(fd[w])[fd[w]] = NULL
    BY <1>0, <1>1, ForgottenIs
  <2> QED BY <1>0, <1>1, <2>1 DEF CloseFile, Forgets
<1>4. batch' = Invalidated(fd[w])
  <2> DEFINE evs == Invalidated(fd[w])
  <2>1. evs \in Seq(Reported) /\ DOMAIN evs = 1..Len(evs)
    BY <1>1, BatchTypes, LenProperties
  <2>2. \A i \in DOMAIN evs : evs[i].fd # fd[w]
    <3>1. fd[w] # -1
      BY <1>1, FdsAssumption
    <3> QED BY <1>0, <3>1, InvalidatedRight
  <2>3. batch' = [i \in DOMAIN evs |-> IF evs[i].fd = fd[w] THEN [evs[i] EXCEPT !.stale = TRUE] ELSE evs[i]]
    BY <1>0 DEF CloseFile
  <2> HIDE DEF evs
  <2>4. batch' = [i \in DOMAIN evs |-> evs[i]]
    BY <2>2, <2>3
  <2> QED BY <2>1, <2>4 DEF evs
<1>5. Owned' /\ TableRight' /\ KernelRight'
  BY <1>0, <1>1, <1>2, <1>3, MasksKept
<1>6. PollTypes'
  <2>1. nfds' \in Nat
    BY <1>0, <1>1, <1>2, NfdsIsNumber
  <2> QED BY <1>0, <1>1, <1>2, <1>3, <1>4, <2>1, MaskStep, BatchTypes
<1>7. BatchRight'
  <2>1. \A i \in DOMAIN batch' : batch'[i].fd # -1 =>
           ~batch'[i].stale /\ batch'[i].fd # fd[w]
           /\ \E v \in IoHandles : life[v] = "open" /\ fd[v] = batch'[i].fd
    BY <1>0, <1>4, InvalidatedRight
  <2>2. \A v \in IoHandles : life[v] = "open" /\ fd[v] # fd[w] => life'[v] = "open" /\ fd'[v] = fd[v]
    BY <1>0, <1>1
  <2>3. junk' = {}
    BY <1>3 DEF PollInv, BatchRight
  <2> QED BY <2>1, <2>2, <2>3 DEF BatchRight
<1>8. PollPhases'
  BY <1>0 DEF PollInv, PollPhases, UserCode
<1> QED BY <1>5, <1>6, <1>7, <1>8 DEF PollInv

LEMMA StreamMaskStep ==
  ASSUME PollInv, NEW w \in Streams, NEW v \in Events, StartStream(w, v) \/ StopStream(w, v),
         UserCode, UNCHANGED in_cb
  PROVE  PollInv'
<1>0. /\ w \in IoHandles /\ w \notin Polls /\ life[w] = "open"
      /\ UNCHANGED <<fd, pollVars, kernelVars, life, active>>
  BY StreamsAssumption DEF StartStream, StopStream, Polls
<1>1. /\ fd[w] \in Fds /\ active \subseteq Polls /\ pevents[w] \in SUBSET Events
      /\ events[w] \in SUBSET Events /\ {} \in SUBSET Events /\ {v} \in SUBSET Events
      /\ files \subseteq Fds /\ fd \in [IoHandles -> Fds \cup {-1}] /\ in_cb \in BOOLEAN
      /\ life \in [IoHandles -> {"none", "open", "closing", "idle"}] /\ batch \in Seq(Reported)
      /\ UNCHANGED <<files, epoll, junk, pollpc, batch, full>>
  BY <1>0, OwnPlace DEF PollInv, PollTypes, pollVars, kernelVars
<1>2. \E m, e \in SUBSET Events : SetsMasks(w, m, e)
  <2>1. CASE StartStream(w, v)
    <3>1. SetsMasks(w, pevents[w] \cup {v}, events[w])
      BY <1>0, <1>1, <2>1, StartSets DEF StartStream
    <3> QED BY <1>1, <3>1
  <2>2. CASE StopStream(w, v)
    <3>1. SetsMasks(w, pevents[w] \ {v}, IF pevents[w] \subseteq {v} THEN {} ELSE events[w])
      BY <1>0, <1>1, <2>2, StopSets DEF StopStream
    <3> QED BY <1>1, <3>1
  <2> QED BY <2>1, <2>2
<1>3. PICK m, e \in SUBSET Events : SetsMasks(w, m, e)
  BY <1>2
<1>4. Owned' /\ TableRight' /\ KernelRight'
  BY <1>0, <1>1, <1>3, MasksKept
<1>5. PollTypes'
  <2>1. nfds' \in Nat
    BY <1>0, <1>3, NfdsIsNumber
  <2> QED BY <1>0, <1>1, <1>3, <2>1, MaskStep
<1>6. BatchRight'
  BY <1>0, <1>1, SameBatch
<1>7. PollPhases'
  BY <1>1 DEF PollInv, PollPhases, UserCode
<1> QED BY <1>4, <1>5, <1>6, <1>7 DEF PollInv

LEMMA FinishCloseStep ==
  ASSUME PollInv, NEW w \in IoHandles, FinishClose(w)
  PROVE  PollInv'
<1>0. /\ life[w] = "closing" /\ life' = [life EXCEPT ![w] = "none"] /\ fd' = [fd EXCEPT ![w] = -1]
      /\ UNCHANGED <<events, pevents, tableVars, pollVars, kernelVars, active, in_cb>>
  BY DEF FinishClose
<1>1. /\ fd \in [IoHandles -> Fds \cup {-1}] /\ life \in [IoHandles -> {"none", "open", "closing", "idle"}]
      /\ PollTypes /\ Owned /\ TableRight /\ KernelRight /\ BatchRight /\ PollPhases
  BY DEF PollInv, PollTypes
<1>2. \A v \in IoHandles : (life'[v] = "open" <=> life[v] = "open")
                           /\ (life[v] = "open" => fd'[v] = fd[v])
  BY <1>0, <1>1
<1>3. \A v \in IoHandles : pevents[v] # {} => life[v] = "open"
  BY <1>1 DEF TableRight
<1>4. PollTypes'
  BY <1>0, <1>1 DEF PollTypes, tableVars, pollVars, kernelVars
<1>5. Owned'
  BY <1>0, <1>1, <1>2 DEF Owned, kernelVars
<1>6. TableRight'
  <2>1. \A g \in Fds : watchers[g] # NULL => watchers[g] \in IoHandles /\ pevents[watchers[g]] # {}
    BY <1>1 DEF TableRight, PollTypes
  <2> QED BY <1>0, <1>1, <1>2, <1>3, <2>1 DEF TableRight, tableVars
<1>7. KernelRight'
  BY <1>0, <1>1, <1>2, <1>3 DEF KernelRight, tableVars, kernelVars
<1>8. BatchRight' /\ PollPhases'
  BY <1>0, <1>1, <1>2 DEF BatchRight, PollPhases, pollVars, kernelVars, tableVars
<1> QED BY <1>4, <1>5, <1>6, <1>7, <1>8 DEF PollInv

LEMMA CallbackStep ==
  ASSUME PollInv, Callback
  PROVE  PollInv'
<1> DEFINE w == watchers[Head(batch).fd]
<1>0. /\ batch # <<>> /\ batch' = Tail(batch) /\ in_cb' = TRUE /\ pollpc = "events"
      /\ UNCHANGED <<fd, pollpc, full, kernelVars, life>>
      /\ Head(batch).fd # -1 /\ w # NULL
  BY DEF Callback, Due
<1>1. Head(batch).fd \in Fds /\ w \in IoHandles
  <2>1. Head(batch) \in Reported
    BY <1>0, HeadTailProperties DEF PollInv, PollTypes
  <2> QED BY <1>0, <2>1 DEF Reported, PollInv, PollTypes
<1>2. BatchRight' /\ batch' \in Seq(Reported)
  BY <1>0, TailBatch DEF kernelVars
<1>3. PollPhases'
  BY <1>0 DEF PollInv, PollPhases
<1>4. CASE UNCHANGED <<events, pevents, tableVars, active>>
  <2>1. Owned' /\ TableRight' /\ KernelRight'
    BY <1>0, <1>4, SameWatchers DEF kernelVars
  <2>2. PollTypes'
    BY <1>0, <1>2, <1>4 DEF PollInv, PollTypes, tableVars, kernelVars
  <2> QED BY <1>2, <1>3, <2>1, <2>2 DEF PollInv
<1>5. CASE w \in Polls /\ uv__io_stop(w, Events) /\ active' = active \ {w}
  <2>0. life[w] = "open" /\ pevents[w] \in SUBSET Events /\ {} \in SUBSET Events
    BY <1>0, <1>1 DEF PollInv, PollTypes, TableRight
  <2> HIDE DEF w
  <2>1. SetsMasks(w, {}, {})
    <3>1. SetsMasks(w, pevents[w] \ Events, IF pevents[w] \subseteq Events THEN {} ELSE events[w])
      BY <1>1, <1>5, <2>0, StopSets
    <3>2. pevents[w] \ Events = {} /\ pevents[w] \subseteq Events
      BY <2>0
    <3> QED BY <3>1, <3>2
  <2>2. Owned' /\ TableRight' /\ KernelRight'
    BY <1>0, <1>1, <1>5, <2>0, <2>1, MasksKept DEF kernelVars
  <2>3. PollTypes'
    <3>1. nfds' \in Nat
      BY <1>1, <2>0, <2>1, NfdsIsNumber
    <3>2. /\ active \subseteq Polls /\ fd \in [IoHandles -> Fds \cup {-1}] /\ files \subseteq Fds
          /\ life \in [IoHandles -> {"none", "open", "closing", "idle"}]
      BY DEF PollInv, PollTypes
    <3> QED BY <1>0, <1>1, <1>2, <1>5, <2>0, <2>1, <3>1, <3>2, MaskStep DEF kernelVars
  <2> QED BY <1>2, <1>3, <2>2, <2>3 DEF PollInv
<1> QED BY <1>4, <1>5 DEF Callback

LEMMA RegisterWatcherStep ==
  ASSUME PollInv, Register, UNCHANGED <<life, active, in_cb>>
  PROVE  PollInv'
<1> DEFINE w == Head(watcher_queue)
           ok == fd[w] \in files /\ (events[w] = {} \/ epoll[fd[w]] # NULL)
<1>0. /\ pollpc = "register" /\ watcher_queue # <<>>
      /\ watcher_queue' = Tail(watcher_queue)
      /\ events' = [events EXCEPT ![w] = pevents[w]]
      /\ pollpc' = IF ok THEN pollpc ELSE "aborted"
      /\ epoll' = IF ok THEN [epoll EXCEPT ![fd[w]] = pevents[w]] ELSE epoll
      /\ UNCHANGED <<fd, pevents, watchers, nwatchers, nfds, batch, full, files, junk>>
  BY DEF Register
<1>1. /\ w \in IoHandles /\ Linked(watcher_queue, w)
      /\ Tail(watcher_queue) \in Seq(IoHandles) /\ Distinct(Tail(watcher_queue))
      /\ \A v : Linked(Tail(watcher_queue), v) <=> Linked(watcher_queue, v) /\ v # w
  BY <1>0, TailDistinct DEF PollInv, PollTypes, KernelRight
<1> HIDE DEF w
<1>2. pevents[w] # {} /\ life[w] = "open"
  BY <1>1 DEF PollInv, KernelRight, TableRight
<1>3. fd[w] \in files /\ fd[w] \in Fds
  BY <1>1, <1>2, OwnPlace
<1>4. ok
  BY ZenonT(40), <1>1, <1>3, NullAssumption DEF PollInv, PollTypes, KernelRight
<1>5. /\ events \in [IoHandles -> SUBSET Events] /\ pevents \in [IoHandles -> SUBSET Events]
      /\ epoll \in [Fds -> {NULL} \cup SUBSET Events]
      /\ PollTypes /\ Owned /\ TableRight /\ KernelRight /\ BatchRight /\ PollPhases
  BY DEF PollInv, PollTypes
<1>6. epoll' = [epoll EXCEPT ![fd[w]] = pevents[w]] /\ pollpc' = pollpc
  BY <1>0, <1>4
<1>7. PollTypes'
  BY <1>0, <1>1, <1>3, <1>5, <1>6 DEF PollTypes
<1>8. Owned' /\ TableRight' /\ BatchRight' /\ PollPhases'
  BY <1>0, <1>5, <1>6 DEF Owned, TableRight, BatchRight, PollPhases
<1>9. KernelRight'
  <2>1. \A v \in IoHandles : pevents[v] # {} /\ v # w => fd[v] # fd[w] /\ fd[v] \in Fds
    BY <1>1, <1>2, <1>5 DEF TableRight, Owned, PollTypes
  <2>2. \A v \in IoHandles : v # w => events'[v] = events[v]
    BY <1>0, <1>5
  <2>3. events'[w] = pevents[w] /\ epoll'[fd[w]] = pevents[w]
    BY <1>0, <1>1, <1>3, <1>5, <1>6
  <2>4. \A g \in Fds : g # fd[w] => epoll'[g] = epoll[g]
    BY <1>5, <1>6
  <2>5. \A v \in IoHandles : events'[v] # {} => pevents'[v] # {} /\ epoll'[fd'[v]] = events'[v]
    BY <1>0, <1>2, <1>5, <2>1, <2>2, <2>3, <2>4 DEF KernelRight
  <2>6. \A g \in Fds : epoll'[g] # NULL =>
          g \in files' /\ \E v \in IoHandles : life'[v] = "open" /\ fd'[v] = g
    BY <1>0, <1>1, <1>2, <1>3, <1>5, <2>4 DEF KernelRight
  <2> QED BY <1>0, <1>1, <1>5, <2>2, <2>3, <2>5, <2>6 DEF KernelRight
<1> QED BY <1>7, <1>8, <1>9 DEF PollInv
LEMMA HarvestStep ==
  ASSUME PollInv, Harvest, UNCHANGED <<life, active, in_cb>>
  PROVE  PollInv'
<1>0. /\ pollpc = "wait" /\ pollpc' = "events"
      /\ UNCHANGED <<fd, events, pevents, tableVars, kernelVars>>
      /\ batch' \in SeqOf({e \in Reports : Possible(e)}, MaxEvents) /\ full' \in BOOLEAN
  BY DEF Harvest
<1>1. \A e \in Reports : /\ e \in Reported /\ ~e.stale
                         /\ \E w \in IoHandles : life[w] = "open" /\ fd[w] = e.fd
  <2>1. junk = {}
    BY DEF PollInv, BatchRight
  <2>2. Reports = {Event(f, m, FALSE) : f \in {g \in files : epoll[g] # NULL},
                                        m \in SUBSET (Events \cup {"err"})}
    BY <2>1 DEF Reports
  <2> SUFFICES ASSUME NEW e \in Reports
               PROVE  /\ e \in Reported /\ ~e.stale
                      /\ \E w \in IoHandles : life[w] = "open" /\ fd[w] = e.fd
    OBVIOUS
  <2>3. PICK f \in files, m \in SUBSET (Events \cup {"err"}) :
          epoll[f] # NULL /\ e = Event(f, m, FALSE)
    BY <2>2 DEF Event
  <2>4. f \in Fds
    BY DEF PollInv, PollTypes
  <2>5. \E w \in IoHandles : life[w] = "open" /\ fd[w] = f
    BY <2>3, <2>4 DEF PollInv, KernelRight
  <2>6. e \in Reported /\ ~e.stale /\ e.fd = f
    BY <2>3, <2>4 DEF Event, Reported
  <2> QED BY <2>5, <2>6
<1>2. batch' \in Seq(Reported) /\ \A i \in DOMAIN batch' : batch'[i] \in Reports
  <2>1. PICK n \in 0..MaxEvents : batch' \in [1..n -> {e \in Reports : Possible(e)}]
    BY <1>0 DEF SeqOf
  <2>2. batch' \in [1..n -> Reported] /\ n \in Nat
    BY <1>1, <2>1
  <2> QED BY <2>1, <2>2, SeqDef
<1>3. PollTypes'
  BY <1>0, <1>2 DEF PollInv, PollTypes, tableVars, kernelVars
<1>4. Owned' /\ TableRight' /\ KernelRight'
  BY <1>0, SameWatchers DEF kernelVars
<1>5. BatchRight'
  BY <1>0, <1>1, <1>2 DEF PollInv, BatchRight, kernelVars
<1>6. PollPhases'
  BY <1>0 DEF PollInv, PollPhases
<1> QED BY <1>3, <1>4, <1>5, <1>6 DEF PollInv

LEMMA SkipStep ==
  ASSUME PollInv, Skip, UNCHANGED <<life, active, in_cb>>
  PROVE  PollInv'
<1>0. /\ batch # <<>> /\ batch' = Tail(batch) /\ pollpc = "events"
      /\ UNCHANGED <<fd, events, pevents, tableVars, pollpc, full, files, junk>>
      /\ \/ UNCHANGED epoll
         \/ \E f \in Fds : watchers[f] = NULL /\ epoll' = Deleted(f)
  <2>1. batch # <<>> => Head(batch) \in Reported
    BY HeadTailProperties DEF PollInv, PollTypes
  <2>2. batch # <<>> => Head(batch).fd \in Fds \cup {-1}
    BY <2>1 DEF Reported
  <2> QED BY <2>2 DEF Skip, Skipped
<1>1. BatchRight' /\ batch' \in Seq(Reported)
  BY <1>0, TailBatch
<1>2. CASE UNCHANGED epoll
  <2>1. Owned' /\ TableRight' /\ KernelRight'
    BY <1>0, <1>2, SameWatchers
  <2> QED BY <1>0, <1>1, <1>2, <2>1 DEF PollInv, PollTypes, PollPhases, tableVars
<1>3. ASSUME NEW f \in Fds, watchers[f] = NULL, epoll' = Deleted(f)
      PROVE  PollInv'
  <2>1. epoll \in [Fds -> {NULL} \cup SUBSET Events]
    BY DEF PollInv, PollTypes
  <2>2. /\ epoll' \in [Fds -> {NULL} \cup SUBSET Events]
        /\ \A g \in Fds : g # f => epoll'[g] = epoll[g]
        /\ \A g \in Fds : epoll'[g] # NULL => epoll[g] # NULL
    BY <1>3, <2>1 DEF Deleted
  <2>3. PollTypes'
    BY <1>0, <1>1, <2>2 DEF PollInv, PollTypes, tableVars
  <2>4. Owned' /\ TableRight' /\ PollPhases'
    BY <1>0 DEF PollInv, Owned, TableRight, PollPhases, tableVars
  <2>5. \A v \in IoHandles : events[v] # {} => fd[v] # f /\ fd[v] \in Fds
    <3>1. \A v \in IoHandles : events[v] # {} => life[v] = "open" /\ watchers[fd[v]] = v
      BY DEF PollInv, KernelRight, TableRight
    <3> QED BY <1>3, <3>1, OwnPlace, NullAssumption
  <2>6. KernelRight'
    BY <1>0, <2>2, <2>5 DEF PollInv, KernelRight, tableVars
  <2> QED BY <1>1, <2>3, <2>4, <2>6 DEF PollInv
<1> QED BY <1>0, <1>2, <1>3

LEMMA PollStep ==
  ASSUME PollInv, Poll \/ Registered \/ Timeout \/ BatchDone \/ CallbackReturns,
         UNCHANGED <<life, active>>, in_cb' = in_cb \/ CallbackReturns,
         in_cb => CallbackReturns
  PROVE  PollInv'
<1>1. /\ UNCHANGED <<fd, events, pevents, tableVars, batch, kernelVars>>
      /\ pollpc' \in {"out", "register", "wait", "events", "aborted"} /\ full' \in BOOLEAN
      /\ in_cb' \in BOOLEAN
  BY DEF Poll, Registered, Timeout, BatchDone, CallbackReturns, PollInv, PollTypes, ioVars, pollVars
<1>2. Owned' /\ TableRight' /\ KernelRight'
  BY <1>1, SameWatchers DEF kernelVars
<1>3. BatchRight'
  BY <1>1, SameBatch DEF kernelVars
<1>4. PollTypes'
  BY <1>1 DEF PollInv, PollTypes, tableVars, kernelVars
<1>5. PollPhases'
  <2>1. PollPhases /\ watcher_queue' = watcher_queue
    BY <1>1 DEF PollInv, tableVars
  <2> QED BY <2>1 DEF PollPhases, Poll, Registered, Timeout, BatchDone, CallbackReturns, ioVars, pollVars
<1> QED BY <1>2, <1>3, <1>4, <1>5 DEF PollInv

LEMMA PollInvInit == Init => PollInv
<1> SUFFICES ASSUME Init PROVE PollInv
  OBVIOUS
<1>0. /\ fd = [w \in IoHandles |-> -1] /\ events = [w \in IoHandles |-> {}]
      /\ pevents = [w \in IoHandles |-> {}] /\ watcher_queue = <<>>
      /\ watchers = [f \in Fds |-> NULL] /\ nwatchers = 0 /\ nfds = 0
      /\ pollpc = "out" /\ batch = <<>> /\ full = FALSE
      /\ files = {} /\ epoll = [f \in Fds |-> NULL] /\ junk = {}
      /\ life = [w \in IoHandles |-> "none"] /\ active = {} /\ in_cb = FALSE
  BY DEF Init, IoInit
<1>1. PollTypes
  BY <1>0, EmptySeq DEF PollTypes
<1>2. Owned /\ PollPhases
  BY <1>0 DEF Owned, PollPhases
<1>3. TableRight
  <2>1. {f \in Fds : watchers[f] # NULL} = {}
    BY <1>0
  <2>2. nfds = Cardinality({f \in Fds : watchers[f] # NULL})
    BY <1>0, <2>1, FS_EmptySet
  <2> QED BY <1>0, <2>2 DEF TableRight, Polls
<1>4. KernelRight
  <2>1. Distinct(watcher_queue) /\ \A w : ~Linked(watcher_queue, w)
    BY <1>0, EmptyLinksNothing DEF Distinct
  <2> QED BY <1>0, <2>1 DEF KernelRight
<1>5. BatchRight
  BY <1>0 DEF BatchRight
<1> QED BY <1>1, <1>2, <1>3, <1>4, <1>5 DEF PollInv

LEMMA PollInvStep ==
  ASSUME ~EarlyClose, PollInv, [Next]_vars
  PROVE  PollInv'
<1>1. CASE User
  <2>1. ASSUME NEW f \in Fds, Open(f) PROVE PollInv'
    BY <1>1, <2>1, OpenStep DEF User
  <2>2. ASSUME NEW f \in Fds, Close(f) PROVE PollInv'
    BY <1>1, <2>2, CloseStep DEF User
  <2>3. ASSUME NEW w \in Polls, uv_poll_stop(w) \/ ClosePoll(w) PROVE PollInv'
    <3>1. life[w] = "open" /\ StopPoll(w)
      BY <2>3 DEF uv_poll_stop, ClosePoll, PollInv, Owned, Polls
    <3>2. UNCHANGED life \/ life' = [life EXCEPT ![w] = "closing"]
      BY <2>3 DEF uv_poll_stop, ClosePoll
    <3> QED BY <1>1, <3>1, <3>2, StopPollStep DEF User
  <2>4. ASSUME NEW w \in Polls, NEW f \in Fds, uv_poll_init(w, f) PROVE PollInv'
    BY <1>1, <2>4, PollInitStep DEF User
  <2>5. ASSUME NEW w \in Polls, NEW mask \in (SUBSET Events) \ {{}}, uv_poll_start(w, mask)
        PROVE  PollInv'
    BY <1>1, <2>5, PollStartStep DEF User
  <2>6. ASSUME NEW w \in Streams, uv__stream_close(w) PROVE PollInv'
    BY <1>1, <2>6, StreamCloseStep DEF User
  <2>7. ASSUME NEW w \in Streams, NEW f \in Fds, uv__stream_open(w, f) PROVE PollInv'
    BY <1>1, <2>7, StreamOpenStep DEF User
  <2>8. ASSUME NEW w \in Streams, NEW e \in Events, StartStream(w, e) \/ StopStream(w, e)
        PROVE  PollInv'
    BY <1>1, <2>8, StreamMaskStep DEF User
  <2> QED BY <1>1, <2>1, <2>2, <2>3, <2>4, <2>5, <2>6, <2>7, <2>8 DEF User
<1>2. CASE \E w \in IoHandles : FinishClose(w)
  BY <1>2, FinishCloseStep
<1>3. CASE Callback
  BY <1>3, CallbackStep
<1>4. CASE CallbackReturns
  BY <1>4, PollStep DEF CallbackReturns
<1>5. CASE IoStep
  BY <1>5, RegisterWatcherStep, HarvestStep, SkipStep, PollStep DEF IoStep
<1>6. CASE UNCHANGED vars
  <2>1. UNCHANGED <<fd, events, pevents, tableVars, pollVars, kernelVars, life, active, in_cb>>
    BY <1>6 DEF vars, ioVars
  <2>2. Owned' /\ TableRight' /\ KernelRight'
    BY <2>1, SameWatchers DEF kernelVars
  <2>3. BatchRight'
    BY <2>1, SameBatch DEF kernelVars, pollVars
  <2>4. PollTypes' /\ PollPhases'
    BY <2>1 DEF PollInv, PollTypes, PollPhases, tableVars, pollVars, kernelVars
  <2> QED BY <2>2, <2>3, <2>4 DEF PollInv
<1> QED BY <1>1, <1>2, <1>3, <1>4, <1>5, <1>6 DEF Next

LEMMA SoundIfRight == PollInv => PollSound /\ RegistrationSucceeds
<1> SUFFICES ASSUME PollInv PROVE PollSound /\ RegistrationSucceeds
  OBVIOUS
<1>1. RegistrationSucceeds
  BY DEF PollInv, PollPhases, RegistrationSucceeds
<1>2. NoStaleEvent
  <2>1. Due => 1 \in DOMAIN batch /\ Head(batch) = batch[1]
    BY LenProperties, EmptySeq DEF Due, PollInv, PollTypes
  <2> QED BY <2>1 DEF PollInv, BatchRight, NoStaleEvent, Due
<1>3. ASSUME pollpc = "wait", ~full, NEW f \in Fds, watchers[f] # NULL
      PROVE  epoll[f] = pevents[watchers[f]]
  <2>1. watcher_queue = <<>>
    BY <1>3 DEF PollInv, PollPhases
  <2>2. watchers[f] \in IoHandles /\ fd[watchers[f]] = f /\ pevents[watchers[f]] # {}
    BY <1>3 DEF PollInv, PollTypes, TableRight
  <2>3. events[watchers[f]] = pevents[watchers[f]]
    BY <2>1, <2>2, EmptyLinksNothing DEF PollInv, KernelRight
  <2> QED BY <2>2, <2>3 DEF PollInv, KernelRight
<1>4. WaitsForWhatIsAsked
  BY <1>3 DEF WaitsForWhatIsAsked, PollInv, TableRight
<1> QED BY <1>1, <1>2, <1>4 DEF PollSound

\* uv__io_poll, uv__io_start, uv__io_stop, uv__platform_invalidate_fd: a callback is never run
\* for an event of a file that was closed before, though callbacks close descriptors and
\* open others with the same numbers; whenever the loop waits, the kernel knows what the
\* handles ask for, and what uv__io_poll registers is accepted. This holds if the user
\* closes a descriptor only after uv_close.
THEOREM PollHandlesAreSound ==
  ASSUME ~EarlyClose
  PROVE  Spec => [](PollSound /\ RegistrationSucceeds)
<1>1. PollInv /\ [Next]_vars => PollInv'
  BY PollInvStep
<1>2. Spec => []PollInv
  BY <1>1, PollInvInit, PTL DEF Spec
<1> QED BY <1>2, SoundIfRight, PTL

-----------------------------------------------------------------------------
(* Poll handles of Windows: what is true of the two requests, their masks   *)
(* and the port.                                                            *)

PollEventNames == {"readable", "writable", "disconnect"}
AfdNames == {"receive", "send", "disconnect"}

Orders == {<<>>, <<1>>, <<2>>, <<1, 2>>, <<2, 1>>}

WinPollTypes ==
  /\ slow \in BOOLEAN /\ wp_life \in {"open", "closing", "endgame", "closed"} /\ wp_active \in BOOLEAN
  /\ wp_events \in SUBSET PollEventNames
  /\ submitted \in [PollReqs -> SUBSET PollEventNames]
  /\ mask_events \in [PollReqs -> SUBSET PollEventNames]
  /\ req_at \in [PollReqs -> {"idle", "thread", "kernel", "port"}]
  /\ sought \in [PollReqs -> SUBSET AfdNames]
  /\ answer \in [PollReqs -> (SUBSET (AfdNames \cup {"local_close"})) \cup {{"error"}}]
  /\ port_order \in Orders
  /\ socket \in (SUBSET AfdNames) \cup {{"local_close"}}
  /\ wp_at \in {"idle", "callback", "processed"}

\* The port holds the requests that came back, each of them once.
PortRight ==
  \A j, k \in PollReqs : j # k => (req_at[k] = "port" <=> port_order \in {<<k>>, <<j, k>>, <<k, j>>})

\* Nothing is asked for after uv_close.
ClosedAsksNothing == wp_life # "open" => wp_events = {}

\* The driver has one poll at a time, for what was submitted, and finds no more.
OnePoll ==
  ~slow =>
    /\ \A k \in PollReqs : req_at[k] # "thread"
    /\ req_at[1] # "kernel" \/ req_at[2] # "kernel"
    /\ \A k \in PollReqs : req_at[k] = "kernel" => sought[k] = AfdEvents(submitted[k])
    /\ \A k \in PollReqs : req_at[k] # "port" => answer[k] = {}
    /\ \A k \in PollReqs : "send" \in answer[k] => "writable" \in submitted[k]

\* A request that may tell that the socket is writable was not told yet, ...
MayTell(k) ==
  "writable" \in submitted[k] /\ (req_at[k] = "kernel" \/ (req_at[k] = "port" /\ "send" \in answer[k]))
ArmedFor == ~slow => \A k \in PollReqs : MayTell(k) => "writable" \in armed

\* ... and of two, the one that comes back first leaves it to the other.
LeavesTo(j, k) == answer[j] # {"error"} /\ "writable" \in submitted[k] => "writable" \in mask_events[j]
FirstLeaves ==
  ~slow => \A j, k \in PollReqs : j # k =>
    /\ req_at[j] = "port" /\ req_at[k] = "kernel" => LeavesTo(j, k)
    /\ port_order = <<j, k>> /\ answer[k] # {"error"} => LeavesTo(j, k)

WinPollInv ==
  WinPollTypes /\ PortRight /\ ClosedAsksNothing /\ OnePoll /\ ArmedFor /\ FirstLeaves
  /\ NoneAfterClose /\ AllPolled

-----------------------------------------------------------------------------
\* The orders of two requests, and how one follows from another.
LEMMA OrderFacts ==
  /\ \A j, k \in PollReqs : <<>> # <<j>> /\ <<>> # <<j, k>> /\ \A i \in PollReqs : <<i>> # <<j, k>>
  /\ \A j, k \in PollReqs : <<j>> = <<k>> => j = k
  /\ \A h, i, j, k \in PollReqs : <<h, i>> = <<j, k>> => h = j /\ i = k
  /\ \A k \in PollReqs : Head(<<k>>) = k /\ Tail(<<k>>) = <<>>
  /\ \A j, k \in PollReqs : Head(<<j, k>>) = j /\ Tail(<<j, k>>) = <<k>>
  /\ \A k \in PollReqs : <<k>> \o <<>> = <<k>> /\ <<>> \o <<k>> = <<k>> /\ Append(<<>>, k) = <<k>>
  /\ \A j, k \in PollReqs : <<j>> \o <<k>> = <<j, k>> /\ Append(<<j>>, k) = <<j, k>>
  /\ <<>> \o <<>> = <<>>
  /\ \A j, k \in PollReqs : <<j, k>> \o <<>> = <<j, k>>
<1>1. PollReqs \subseteq Nat
  BY DEF PollReqs
<1>2. /\ \A j, k \in PollReqs : <<>> # <<j>> /\ <<>> # <<j, k>> /\ \A i \in PollReqs : <<i>> # <<j, k>>
      /\ \A j, k \in PollReqs : <<j>> = <<k>> => j = k
      /\ \A h, i, j, k \in PollReqs : <<h, i>> = <<j, k>> => h = j /\ i = k
  BY <1>1
<1>3. /\ \A k \in PollReqs : Head(<<k>>) = k /\ Tail(<<k>>) = <<>>
      /\ \A j, k \in PollReqs : Head(<<j, k>>) = j /\ Tail(<<j, k>>) = <<k>>
  BY <1>1
<1>4. ASSUME NEW k \in PollReqs
      PROVE  <<k>> \o <<>> = <<k>> /\ <<>> \o <<k>> = <<k>> /\ Append(<<>>, k) = <<k>>
  <2>1. <<k>> \o <<>> = <<k>>
    OBVIOUS
  <2>2. <<>> \o <<k>> = <<k>>
    OBVIOUS
  <2>3. Append(<<>>, k) = <<k>>
    OBVIOUS
  <2> QED BY <2>1, <2>2, <2>3
<1>6. ASSUME NEW j \in PollReqs, NEW k \in PollReqs
      PROVE  <<j>> \o <<k>> = <<j, k>> /\ Append(<<j>>, k) = <<j, k>>
  <2>0. <<j>> \in Seq(Nat) /\ <<k>> \in Seq(Nat) /\ <<j, k>> \in Seq(Nat) /\ k \in Nat
    BY <1>1
  <2>1. <<j>> \o <<k>> = <<j, k>>
    <3> DEFINE c == <<j>> \o <<k>>
    <3>1. c \in Seq(Nat) /\ Len(c) = 2 /\ c[1] = j /\ c[2] = k
      BY <2>0, ConcatProperties
    <3> HIDE DEF c
    <3>2. c = <<j, k>>
      BY <3>1
    <3> QED BY <3>2 DEF c
  <2>2. Append(<<j>>, k) = <<j, k>>
    <3> DEFINE c == Append(<<j>>, k)
    <3>1. c \in Seq(Nat) /\ Len(c) = 2 /\ c[1] = j /\ c[2] = k
      BY <2>0, AppendProperties
    <3> HIDE DEF c
    <3>2. c = <<j, k>>
      BY <3>1
    <3> QED BY <3>2 DEF c
  <2> QED BY <2>1, <2>2
<1>7. <<>> \o <<>> = <<>>
  OBVIOUS
<1>5. \A j, k \in PollReqs : <<j, k>> \o <<>> = <<j, k>>
  BY <1>1
<1> QED BY <1>2, <1>3, <1>4, <1>5, <1>6, <1>7

\* What the driver looks for.
LEMMA AfdFacts ==
  /\ \A ev \in SUBSET PollEventNames : AfdEvents(ev) \in SUBSET AfdNames
  /\ \A ev : "send" \in AfdEvents(ev) => "writable" \in ev
  /\ \A ev, a, b : ev \subseteq a \cup b => AfdEvents(ev) \subseteq AfdEvents(a) \cup AfdEvents(b)
  /\ AfdEvents({}) = {}
BY DEF AfdEvents, PollEventNames, AfdNames

\* Where two requests are says how the port can look, and the other way round.
LEMMA OrderCases ==
  ASSUME WinPollTypes, PortRight, NEW j \in PollReqs, NEW k \in PollReqs, j # k
  PROVE  /\ req_at[j] = "port" /\ req_at[k] = "port" => port_order \in {<<j, k>>, <<k, j>>}
         /\ req_at[j] = "port" /\ req_at[k] # "port" => port_order = <<j>>
         /\ req_at[j] # "port" /\ req_at[k] # "port" => port_order = <<>>
<1>1. port_order \in {<<>>, <<j>>, <<k>>, <<j, k>>, <<k, j>>}
  BY DEF WinPollTypes, Orders, PollReqs
<1>2. /\ req_at[k] = "port" <=> port_order \in {<<k>>, <<j, k>>, <<k, j>>}
      /\ req_at[j] = "port" <=> port_order \in {<<j>>, <<j, k>>, <<k, j>>}
  BY DEF PortRight
<1> QED BY <1>1, <1>2, OrderFacts

\* A port that looks like that is right.
LEMMA OrderOfPort ==
  ASSUME NEW j \in PollReqs, NEW k \in PollReqs, j # k, NEW at, NEW o,
         \/ at[j] = "port" /\ at[k] = "port" /\ o \in {<<j, k>>, <<k, j>>}
         \/ at[j] = "port" /\ at[k] # "port" /\ o = <<j>>
         \/ at[j] # "port" /\ at[k] = "port" /\ o = <<k>>
         \/ at[j] # "port" /\ at[k] # "port" /\ o = <<>>
  PROVE  /\ o \in Orders
         /\ \A m, n \in PollReqs : m # n => (at[n] = "port" <=> o \in {<<n>>, <<m, n>>, <<n, m>>})
<1>1. o \in Orders
  BY DEF Orders, PollReqs
<1>2. /\ at[k] = "port" <=> o \in {<<k>>, <<j, k>>, <<k, j>>}
      /\ at[j] = "port" <=> o \in {<<j>>, <<j, k>>, <<k, j>>}
  BY OrderFacts
<1>3. ASSUME NEW m \in PollReqs, NEW n \in PollReqs, m # n
      PROVE  (m = j /\ n = k) \/ (m = k /\ n = j)
  BY <1>3 DEF PollReqs
<1> QED BY <1>1, <1>2, <1>3

\* What is true of the requests, whether or not they are asked for enough.
ReqInv == WinPollTypes /\ PortRight /\ OnePoll /\ ArmedFor /\ FirstLeaves
          /\ \A k \in PollReqs : req_at[k] # "idle" <=> submitted[k] # {}

\* The requests in the kernel come back after those in the port.
LEMMA SentBackOrder ==
  ASSUME ReqInv, ~slow, NEW j \in PollReqs, NEW k \in PollReqs, j # k, req_at[k] # "kernel"
  PROVE  /\ SentBack = [i \in PollReqs |-> IF req_at[i] = "kernel" THEN "port" ELSE req_at[i]]
         /\ InKernel = IF req_at[j] = "kernel" THEN <<j>> ELSE <<>>
         /\ req_at[k] # "port" =>
              port_order \o InKernel = IF req_at[j] \in {"kernel", "port"} THEN <<j>> ELSE <<>>
         /\ req_at[k] = "port" /\ req_at[j] = "kernel" =>
              port_order = <<k>> /\ port_order \o InKernel = <<k, j>>
         /\ req_at[j] # "kernel" => port_order \o InKernel = port_order
<1>1. (j = 1 /\ k = 2) \/ (j = 2 /\ k = 1)
  BY DEF PollReqs
<1>2. InKernel = IF req_at[j] = "kernel" THEN <<j>> ELSE <<>>
  BY <1>1, OrderFacts DEF InKernel
<1>3. /\ req_at[j] = "port" /\ req_at[k] # "port" => port_order = <<j>>
      /\ req_at[j] # "port" /\ req_at[k] = "port" => port_order = <<k>>
      /\ req_at[j] # "port" /\ req_at[k] # "port" => port_order = <<>>
  BY OrderCases DEF ReqInv
<1>4. \A o \in Orders : o \o <<>> = o
  BY OrderFacts DEF Orders, PollReqs
<1>5. port_order \in Orders
  BY DEF ReqInv, WinPollTypes
<1>6. req_at[j] # "kernel" => port_order \o InKernel = port_order
  BY <1>2, <1>4, <1>5
<1>7. req_at[k] # "port" =>
        port_order \o InKernel = IF req_at[j] \in {"kernel", "port"} THEN <<j>> ELSE <<>>
  BY <1>2, <1>3, <1>6, OrderFacts
<1>8. ASSUME req_at[k] = "port", req_at[j] = "kernel"
      PROVE  port_order = <<k>> /\ port_order \o InKernel = <<k, j>>
  <2>1. port_order = <<k>> /\ InKernel = <<j>>
    BY <1>2, <1>3, <1>8
  <2>2. <<k>> \o <<j>> = <<k, j>>
    BY OrderFacts
  <2> QED BY <2>1, <2>2
<1> QED BY <1>2, <1>6, <1>7, <1>8 DEF SentBack

\* What submitting does: nothing, or one of its three outcomes.
LEMMA SubmitEffect ==
  ASSUME ReqInv, SubmitPollReq
  PROVE  \/ (\A i \in PollReqs : submitted[i] # {}) /\ UNCHANGED reqVars
         \/ \E j, k \in PollReqs :
              /\ j # k /\ submitted[k] = {} /\ req_at[k] = "idle"
              /\ submitted' = [submitted EXCEPT ![k] = wp_events']
              /\ mask_events' = [i \in PollReqs |-> IF i = k \/ submitted[i] = {} THEN {} ELSE wp_events']
              /\ armed' = armed \cup (wp_events' \cap {"writable"})
              /\ \/ /\ slow
                    /\ req_at' = [req_at EXCEPT ![k] = "thread"]
                    /\ UNCHANGED <<sought, answer, port_order>>
                 \/ /\ ~slow
                    /\ req_at' = [i \in PollReqs |-> IF i = k THEN "kernel"
                                                    ELSE IF req_at[i] = "kernel" THEN "port" ELSE req_at[i]]
                    /\ port_order' = IF req_at'[j] = "port" THEN <<j>> ELSE <<>>
                    /\ sought' = [sought EXCEPT ![k] = AfdEvents(wp_events')]
                    /\ UNCHANGED answer
                 \/ /\ req_at' = [req_at EXCEPT ![k] = "port"]
                    /\ answer' = [answer EXCEPT ![k] = {"error"}]
                    /\ IF req_at[j] = "port" THEN port_order' \in {<<k, j>>, <<j, k>>}
                       ELSE port_order' = <<k>>
                    /\ UNCHANGED sought
<1>1. CASE Unsubmitted = 0
  BY <1>1 DEF SubmitPollReq, Unsubmitted, PollReqs
<1>2. CASE Unsubmitted # 0
  <2>1. PICK k \in PollReqs : k = Unsubmitted /\ submitted[k] = {}
    BY <1>2 DEF Unsubmitted, PollReqs
  <2>2. PICK j \in PollReqs : j # k
    BY DEF PollReqs
  <2>3. req_at[k] = "idle"
    BY <2>1 DEF ReqInv, WinPollTypes
  <2>4. /\ submitted' = [submitted EXCEPT ![k] = wp_events']
        /\ mask_events' = [i \in PollReqs |-> IF i = k \/ submitted[i] = {} THEN {} ELSE wp_events']
        /\ armed' = armed \cup (wp_events' \cap {"writable"})
    BY <1>2, <2>1 DEF SubmitPollReq, MasksSet
  <2>5. \/ /\ slow
           /\ req_at' = [req_at EXCEPT ![k] = "thread"]
           /\ UNCHANGED <<sought, answer, port_order>>
        \/ /\ ~slow
           /\ req_at' = [SentBack EXCEPT ![k] = "kernel"]
           /\ port_order' = port_order \o InKernel
           /\ sought' = [sought EXCEPT ![k] = AfdEvents(wp_events')]
           /\ UNCHANGED answer
        \/ /\ req_at' = [req_at EXCEPT ![k] = "port"]
           /\ answer' = [answer EXCEPT ![k] = {"error"}]
           /\ port_order' \in {<<k>> \o port_order, Append(port_order, k)}
           /\ UNCHANGED sought
    BY <1>2, <2>1 DEF SubmitPollReq
  <2>6. ASSUME ~slow, req_at' = [SentBack EXCEPT ![k] = "kernel"], port_order' = port_order \o InKernel
        PROVE  /\ req_at' = [i \in PollReqs |-> IF i = k THEN "kernel"
                                               ELSE IF req_at[i] = "kernel" THEN "port" ELSE req_at[i]]
               /\ port_order' = IF req_at'[j] = "port" THEN <<j>> ELSE <<>>
    BY <2>2, <2>3, <2>6, SentBackOrder
  <2>7. ASSUME port_order' \in {<<k>> \o port_order, Append(port_order, k)}
        PROVE  IF req_at[j] = "port" THEN port_order' \in {<<k, j>>, <<j, k>>} ELSE port_order' = <<k>>
    <3>1. port_order = IF req_at[j] = "port" THEN <<j>> ELSE <<>>
      BY <2>2, <2>3, OrderCases DEF ReqInv
    <3> QED BY <2>7, <3>1, OrderFacts
  <2> QED BY <2>1, <2>2, <2>3, <2>4, <2>5, <2>6, <2>7
<1> QED BY <1>1, <1>2

\* The ports and orders of two requests after a step.
LEMMA PortAfter ==
  ASSUME NEW j \in PollReqs, NEW k \in PollReqs, j # k,
         \/ req_at'[j] = "port" /\ req_at'[k] = "port" /\ port_order' \in {<<j, k>>, <<k, j>>}
         \/ req_at'[j] = "port" /\ req_at'[k] # "port" /\ port_order' = <<j>>
         \/ req_at'[j] # "port" /\ req_at'[k] = "port" /\ port_order' = <<k>>
         \/ req_at'[j] # "port" /\ req_at'[k] # "port" /\ port_order' = <<>>
  PROVE  port_order' \in Orders /\ PortRight'
<1>1. /\ port_order' \in Orders
      /\ \A m, n \in PollReqs : m # n => (req_at'[n] = "port" <=> port_order' \in {<<n>>, <<m, n>>, <<n, m>>})
  BY ONLY OrderOfPort, j \in PollReqs, k \in PollReqs, j # k,
          \/ req_at'[j] = "port" /\ req_at'[k] = "port" /\ port_order' \in {<<j, k>>, <<k, j>>}
          \/ req_at'[j] = "port" /\ req_at'[k] # "port" /\ port_order' = <<j>>
          \/ req_at'[j] # "port" /\ req_at'[k] = "port" /\ port_order' = <<k>>
          \/ req_at'[j] # "port" /\ req_at'[k] # "port" /\ port_order' = <<>>
<1> QED BY <1>1 DEF PortRight

\* Other variables keep their types.
RestTypes ==
  /\ slow \in BOOLEAN /\ wp_life \in {"open", "closing", "endgame", "closed"} /\ wp_active \in BOOLEAN
  /\ wp_events \in SUBSET PollEventNames
  /\ socket \in (SUBSET AfdNames) \cup {{"local_close"}}
  /\ wp_at \in {"idle", "callback", "processed"}

\* A request is submitted: nothing that was promised of the others is lost.
LEMMA SubmitKeeps ==
  ASSUME ReqInv, SubmitPollReq, wp_events' # {}, RestTypes', slow' = slow
  PROVE  /\ ReqInv'
         /\ ~slow => \/ \E k \in PollReqs : req_at'[k] = "port"
                     \/ \E k \in PollReqs : req_at'[k] = "kernel" /\ submitted'[k] = wp_events'
<1> USE DEF ReqInv
<1>1. CASE (\A i \in PollReqs : submitted[i] # {}) /\ UNCHANGED reqVars
  <2>1. ReqInv'
    BY <1>1 DEF reqVars, RestTypes, WinPollTypes, PortRight, OnePoll, ArmedFor, MayTell, FirstLeaves, LeavesTo
  <2>2. \A k \in PollReqs : req_at[k] \in {"thread", "kernel", "port"}
    BY <1>1 DEF WinPollTypes
  <2>3. ~slow => \E k \in PollReqs : req_at[k] = "port"
    BY <2>2 DEF OnePoll, PollReqs
  <2> QED BY <1>1, <2>1, <2>3 DEF reqVars
<1>2. ASSUME NEW j \in PollReqs, NEW k \in PollReqs,
             j # k, submitted[k] = {}, req_at[k] = "idle",
             submitted' = [submitted EXCEPT ![k] = wp_events'],
             mask_events' = [i \in PollReqs |-> IF i = k \/ submitted[i] = {} THEN {} ELSE wp_events'],
             armed' = armed \cup (wp_events' \cap {"writable"}),
             \/ /\ slow
                /\ req_at' = [req_at EXCEPT ![k] = "thread"]
                /\ UNCHANGED <<sought, answer, port_order>>
             \/ /\ ~slow
                /\ req_at' = [i \in PollReqs |-> IF i = k THEN "kernel"
                                                ELSE IF req_at[i] = "kernel" THEN "port" ELSE req_at[i]]
                /\ port_order' = IF req_at'[j] = "port" THEN <<j>> ELSE <<>>
                /\ sought' = [sought EXCEPT ![k] = AfdEvents(wp_events')]
                /\ UNCHANGED answer
             \/ /\ req_at' = [req_at EXCEPT ![k] = "port"]
                /\ answer' = [answer EXCEPT ![k] = {"error"}]
                /\ IF req_at[j] = "port" THEN port_order' \in {<<k, j>>, <<j, k>>}
                   ELSE port_order' = <<k>>
                /\ UNCHANGED sought
      PROVE  /\ ReqInv'
             /\ ~slow => \/ \E n \in PollReqs : req_at'[n] = "port"
                         \/ \E n \in PollReqs : req_at'[n] = "kernel" /\ submitted'[n] = wp_events'
  <2>0. /\ \A i \in PollReqs : i = j \/ i = k
        /\ submitted'[j] = submitted[j] /\ submitted'[k] = wp_events'
        /\ mask_events'[j] = (IF submitted[j] = {} THEN {} ELSE wp_events') /\ mask_events'[k] = {}
        /\ submitted \in [PollReqs -> SUBSET PollEventNames]
    BY <1>2 DEF WinPollTypes, PollReqs
  <2>1. CASE req_at' = [req_at EXCEPT ![k] = "thread"] /\ UNCHANGED <<sought, answer, port_order>> /\ slow
    <3>1. \A i \in PollReqs : req_at'[i] = (IF i = k THEN "thread" ELSE req_at[i])
      BY <2>1 DEF WinPollTypes
    <3>2. PortRight'
      BY <1>2, <2>1, <3>1 DEF PortRight
    <3>3. WinPollTypes'
      BY <1>2, <2>1 DEF WinPollTypes, RestTypes
    <3>4. \A i \in PollReqs : req_at'[i] # "idle" <=> submitted'[i] # {}
      BY <1>2, <2>0, <3>1
    <3> QED BY <2>1, <3>2, <3>3, <3>4 DEF OnePoll, ArmedFor, FirstLeaves
  <2>2. CASE /\ ~slow
             /\ req_at' = [i \in PollReqs |-> IF i = k THEN "kernel"
                                             ELSE IF req_at[i] = "kernel" THEN "port" ELSE req_at[i]]
             /\ port_order' = IF req_at'[j] = "port" THEN <<j>> ELSE <<>>
             /\ sought' = [sought EXCEPT ![k] = AfdEvents(wp_events')]
             /\ UNCHANGED answer
    <3>1. /\ req_at'[k] = "kernel" /\ req_at'[j] = (IF req_at[j] = "kernel" THEN "port" ELSE req_at[j])
          /\ req_at'[j] # "kernel"
      BY <1>2, <2>2
    <3>2. PortRight' /\ port_order' \in Orders
      BY <1>2, <2>2, <3>1, PortAfter
    <3>3. /\ sought'[k] = AfdEvents(wp_events') /\ sought'[j] = sought[j]
          /\ answer'[k] = answer[k] /\ answer'[j] = answer[j]
      BY <1>2, <2>2 DEF WinPollTypes
    <3>4. WinPollTypes'
      <4>1. AfdEvents(wp_events') \in SUBSET AfdNames
        BY AfdFacts DEF RestTypes
      <4>2. /\ req_at' \in [PollReqs -> {"idle", "thread", "kernel", "port"}]
            /\ sought' \in [PollReqs -> SUBSET AfdNames]
        BY <2>2, <4>1 DEF WinPollTypes
      <4> QED BY <1>2, <2>2, <3>2, <4>2 DEF WinPollTypes, RestTypes
    <3>5. \A i \in PollReqs : req_at'[i] # "idle" <=> submitted'[i] # {}
      BY <1>2, <2>0, <3>1
    <3>6. answer[k] = {}
      BY <1>2, <2>2 DEF OnePoll
    <3>7. OnePoll'
      BY SMTT(30), <1>2, <2>0, <2>2, <3>1, <3>3, <3>6 DEF OnePoll
    <3>8. ArmedFor'
      BY <1>2, <2>0, <2>2, <3>1, <3>3 DEF OnePoll, ArmedFor, MayTell
    <3>9. FirstLeaves'
      <4>1. port_order' # <<j, k>> /\ port_order' # <<k, j>>
        BY <1>2, <2>2, OrderFacts
      <4>2. "writable" \in submitted'[k] => submitted[j] = {} \/ "writable" \in mask_events'[j]
        BY <2>0
      <4>3. req_at'[j] = "port" => submitted[j] # {}
        BY <1>2, <3>1
      <4> QED BY <1>2, <2>0, <3>1, <4>1, <4>2, <4>3 DEF FirstLeaves, LeavesTo
    <3> QED BY <1>2, <2>0, <3>1, <3>2, <3>4, <3>5, <3>7, <3>8, <3>9
  <2>3. CASE /\ req_at' = [req_at EXCEPT ![k] = "port"]
             /\ answer' = [answer EXCEPT ![k] = {"error"}]
             /\ IF req_at[j] = "port" THEN port_order' \in {<<k, j>>, <<j, k>>}
                ELSE port_order' = <<k>>
             /\ UNCHANGED sought
    <3>1. /\ req_at'[k] = "port" /\ req_at'[j] = req_at[j]
          /\ answer'[k] = {"error"} /\ answer'[j] = answer[j]
      BY <1>2, <2>3 DEF WinPollTypes
    <3>2. PortRight' /\ port_order' \in Orders
      BY <1>2, <2>3, <3>1, PortAfter
    <3>3. WinPollTypes'
      <4>1. /\ req_at' \in [PollReqs -> {"idle", "thread", "kernel", "port"}]
            /\ answer' \in [PollReqs -> (SUBSET (AfdNames \cup {"local_close"})) \cup {{"error"}}]
        <5> DEFINE Answers == (SUBSET (AfdNames \cup {"local_close"})) \cup {{"error"}}
        <5>1. {"error"} \in Answers
          BY Zenon
        <5>4. answer \in [PollReqs -> Answers]
          BY DEF WinPollTypes
        <5> HIDE DEF Answers
        <5>2. answer' \in [PollReqs -> Answers]
          BY <2>3, <5>1, <5>4
        <5>3. req_at' \in [PollReqs -> {"idle", "thread", "kernel", "port"}]
          BY <2>3 DEF WinPollTypes
        <5> QED BY <5>2, <5>3 DEF Answers
      <4>0. wp_events' \in SUBSET PollEventNames
        BY DEF RestTypes
      <4>2. /\ submitted' \in [PollReqs -> SUBSET PollEventNames]
            /\ mask_events' \in [PollReqs -> SUBSET PollEventNames]
        BY <1>2, <4>0 DEF WinPollTypes
      <4> QED BY <1>2, <2>3, <3>2, <4>1, <4>2 DEF WinPollTypes, RestTypes
    <3>4. \A i \in PollReqs : req_at'[i] # "idle" <=> submitted'[i] # {}
      BY <1>2, <2>0, <3>1
    <3>5. OnePoll'
      BY <1>2, <2>0, <2>3, <3>1 DEF OnePoll, WinPollTypes
    <3>6. ArmedFor'
      BY <1>2, <2>0, <2>3, <3>1 DEF ArmedFor, MayTell
    <3>7. FirstLeaves'
      BY <1>2, <2>0, <3>1, OrderFacts DEF FirstLeaves, LeavesTo
    <3> QED BY <1>2, <3>1, <3>2, <3>3, <3>4, <3>5, <3>6, <3>7
  <2> QED BY <1>2, <2>1, <2>2, <2>3
<1> QED BY <1>1, <1>2, SubmitEffect

\* A step that leaves the requests alone.
LEMMA RestKeeps ==
  ASSUME ReqInv, RestTypes', UNCHANGED <<slow, reqVars>>
  PROVE  ReqInv'
BY DEF ReqInv, reqVars, RestTypes, WinPollTypes, PortRight, OnePoll, ArmedFor, MayTell, FirstLeaves, LeavesTo

\* What is covered by submitted requests is polled for.
LEMMA CoveredIsPolled ==
  ASSUME ReqInv',
         \/ wp_events' \subseteq submitted'[1] \cup submitted'[2]
         \/ \E k \in PollReqs : req_at'[k] = "port"
         \/ \E k \in PollReqs : req_at'[k] = "kernel" /\ submitted'[k] = wp_events'
  PROVE  AllPolled'
<1> SUFFICES ASSUME ~slow', \A k \in PollReqs : req_at'[k] # "port"
             PROVE  AfdEvents(wp_events')
                      \subseteq UNION {sought'[k] : k \in {j \in PollReqs : req_at'[j] = "kernel"}}
  BY DEF AllPolled, AfdEvents
<1>1. \A k \in PollReqs : req_at'[k] = "kernel" => sought'[k] = AfdEvents(submitted'[k])
  BY DEF ReqInv, OnePoll, AfdEvents
<1>2. \A k \in PollReqs : req_at'[k] # "kernel" => submitted'[k] = {}
  BY DEF ReqInv, OnePoll, WinPollTypes
<1>3. CASE \E k \in PollReqs : req_at'[k] = "kernel" /\ submitted'[k] = wp_events'
  BY <1>1, <1>3
<1>4. CASE wp_events' \subseteq submitted'[1] \cup submitted'[2]
  <2>1. AfdEvents(wp_events') \subseteq AfdEvents(submitted'[1]) \cup AfdEvents(submitted'[2])
    BY <1>4, AfdFacts
  <2>2. ASSUME NEW k \in PollReqs
        PROVE  AfdEvents(submitted'[k])
                 \subseteq UNION {sought'[i] : i \in {j \in PollReqs : req_at'[j] = "kernel"}}
    BY <1>1, <1>2, AfdFacts
  <2> QED BY <2>1, <2>2 DEF PollReqs
<1> QED BY <1>3, <1>4

-----------------------------------------------------------------------------
(* Each action                                                              *)

\* The user asks for something else: what no request covers is submitted.
LEMMA PollSetKeeps ==
  ASSUME WinPollInv, NEW ev \in SUBSET PollEvents, uv__poll_set(ev)
  PROVE  WinPollInv'
<1>1. /\ wp_life = "open" /\ wp_life' = "open" /\ wp_events' = ev /\ slow' = slow
      /\ IF ev # {} /\ Uncovered THEN SubmitPollReq ELSE UNCHANGED reqVars
  BY DEF uv__poll_set, PollUser
<1>2. RestTypes' /\ ReqInv
  BY WinPollAssumption DEF uv__poll_set, WinPollInv, WinPollTypes, RestTypes, PollEventNames,
     ReqInv, NoneAfterClose
<1>3. ReqInv' /\ AllPolled'
  <2>1. CASE ev # {} /\ Uncovered
    BY <1>1, <1>2, <2>1, SubmitKeeps, CoveredIsPolled DEF AllPolled, AfdEvents
  <2>2. CASE ~(ev # {} /\ Uncovered)
    <3>1. ReqInv' /\ wp_events' \subseteq submitted[1] \cup submitted[2] /\ submitted' = submitted
      BY <1>1, <1>2, <2>2, RestKeeps DEF Uncovered, reqVars
    <3> QED BY <3>1, CoveredIsPolled
  <2> QED BY <2>1, <2>2
<1> QED BY <1>1, <1>3 DEF WinPollInv, ReqInv, ClosedAsksNothing, NoneAfterClose

\* After a callback the same, and a closing handle may come to its end.
LEMMA PollProcessedKeeps ==
  ASSUME WinPollInv, PollProcessed
  PROVE  WinPollInv'
<1>1. /\ wp_events' = wp_events /\ slow' = slow
      /\ IF Uncovered THEN SubmitPollReq /\ UNCHANGED wp_life
         ELSE wp_life' = (IF Ends THEN "endgame" ELSE wp_life) /\ UNCHANGED reqVars
  BY DEF PollProcessed
<1>2. RestTypes' /\ ReqInv
  BY DEF PollProcessed, WinPollInv, WinPollTypes, RestTypes, ReqInv, NoneAfterClose
<1>3. CASE Uncovered
  <2>1. wp_events' # {} /\ wp_life = "open" /\ wp_life' = "open"
    BY <1>1, <1>3 DEF Uncovered, WinPollInv, ClosedAsksNothing
  <2>2. ReqInv' /\ AllPolled'
    BY <1>1, <1>2, <1>3, <2>1, SubmitKeeps, CoveredIsPolled DEF AllPolled, AfdEvents
  <2> QED BY <2>1, <2>2 DEF WinPollInv, ReqInv, ClosedAsksNothing, NoneAfterClose
<1>4. CASE ~Uncovered
  <2>1. ReqInv' /\ wp_events' \subseteq submitted'[1] \cup submitted'[2] /\ UNCHANGED reqVars
    BY <1>1, <1>2, <1>4, RestKeeps DEF Uncovered, reqVars
  <2>2. AllPolled'
    BY <2>1, CoveredIsPolled
  <2>3. ClosedAsksNothing' /\ NoneAfterClose'
    BY <1>1, <1>4, <2>1 DEF WinPollInv, ClosedAsksNothing, NoneAfterClose, Ends, NoneSubmitted,
       PollReqs, reqVars
  <2> QED BY <2>1, <2>2, <2>3 DEF WinPollInv, ReqInv
<1> QED BY <1>3, <1>4

\* The steps that leave the requests alone.
LEMMA RestStepsKeep ==
  ASSUME WinPollInv,
         \/ PollOver \/ PollCbReturns \/ uv__poll_endgame \/ SocketIsClosed
         \/ (\E c \in SUBSET Conditions : SocketChanges(c)) \/ UNCHANGED winPollVars
  PROVE  WinPollInv'
<1>1. UNCHANGED <<slow, reqVars>> /\ wp_events' = wp_events
  BY DEF PollOver, PollCbReturns, uv__poll_endgame, SocketIsClosed, SocketChanges, winPollVars
<1>2. RestTypes' /\ ReqInv
  <2>1. ReqInv /\ RestTypes
    BY DEF WinPollInv, WinPollTypes, RestTypes, ReqInv, NoneAfterClose
  <2>2. socket' \in (SUBSET AfdNames) \cup {{"local_close"}}
    <3>1. socket' = socket \/ socket' \in SUBSET Conditions \/ socket' = {"local_close"}
      BY DEF PollOver, PollCbReturns, uv__poll_endgame, SocketIsClosed, SocketChanges, winPollVars
    <3>2. SUBSET Conditions \subseteq SUBSET AfdNames
      BY WinPollAssumption DEF AfdNames
    <3> QED BY <2>1, <3>1, <3>2 DEF RestTypes
  <2>3. /\ slow' = slow /\ wp_active' = wp_active /\ wp_events' = wp_events
        /\ wp_life' \in {wp_life, "closed"} /\ wp_at' \in {wp_at, "processed"}
    BY DEF PollOver, PollCbReturns, uv__poll_endgame, SocketIsClosed, SocketChanges, winPollVars
  <2> QED BY <2>1, <2>2, <2>3 DEF RestTypes
<1>3. ReqInv'
  BY <1>1, <1>2, RestKeeps
<1>4. wp_life' = wp_life \/ (wp_life = "endgame" /\ wp_life' = "closed")
  BY DEF PollOver, PollCbReturns, uv__poll_endgame, SocketIsClosed, SocketChanges, winPollVars
<1>5. wp_at' = "idle" => wp_at = "idle"
  BY DEF PollOver, PollCbReturns, uv__poll_endgame, SocketIsClosed, SocketChanges, winPollVars
<1>6. ClosedAsksNothing' /\ NoneAfterClose'
  BY <1>1, <1>4 DEF WinPollInv, ClosedAsksNothing, NoneAfterClose, reqVars
<1>7. AllPolled'
  BY <1>1, <1>4, <1>5 DEF WinPollInv, AllPolled, AfdEvents, reqVars
<1> QED BY <1>3, <1>6, <1>7 DEF WinPollInv, ReqInv

\* uv_close sends the requests back: they follow those that came back before.
LEMMA PollCloseKeeps ==
  ASSUME WinPollInv, uv__poll_close
  PROVE  WinPollInv'
<1>1. /\ wp_events' = {} /\ wp_active' = FALSE /\ wp_life' = IF NoneSubmitted THEN "endgame" ELSE "closing"
      /\ IF slow THEN UNCHANGED <<req_at, port_order>>
                 ELSE req_at' = SentBack /\ port_order' = port_order \o InKernel
      /\ UNCHANGED <<slow, submitted, mask_events, sought, answer, armed, socket, wp_at, told>>
  BY DEF uv__poll_close
<1>2. ReqInv /\ RestTypes'
  BY <1>1 DEF WinPollInv, WinPollTypes, RestTypes, ReqInv, NoneAfterClose
<1>3. ReqInv'
  <2>1. CASE UNCHANGED <<req_at, port_order>>
    BY <1>1, <1>2, <2>1, RestKeeps DEF reqVars
  <2>2. CASE ~slow
    <3>1. PICK j \in PollReqs, k \in PollReqs : j # k /\ req_at[k] # "kernel"
      BY <1>2, <2>2 DEF ReqInv, OnePoll, PollReqs
    <3>2. /\ \A i \in PollReqs : i = j \/ i = k
          /\ req_at'[k] = req_at[k] /\ req_at'[j] = (IF req_at[j] = "kernel" THEN "port" ELSE req_at[j])
      BY <1>1, <2>2, <3>1 DEF SentBack, PollReqs
    <3>3. CASE req_at[j] = "kernel"
      <4>1. /\ req_at[k] # "port" => port_order' = <<j>>
            /\ req_at[k] = "port" => port_order = <<k>> /\ port_order' = <<k, j>>
        BY <1>1, <1>2, <2>2, <3>1, <3>3, SentBackOrder
      <4>2. PortRight' /\ port_order' \in Orders
        BY <3>1, <3>2, <3>3, <4>1, PortAfter
      <4>3. req_at' \in [PollReqs -> {"idle", "thread", "kernel", "port"}]
        BY <1>1, <1>2, <2>2 DEF SentBack, ReqInv, WinPollTypes
      <4>4. WinPollTypes'
        BY <1>1, <1>2, <4>2, <4>3 DEF ReqInv, WinPollTypes, RestTypes
      <4>5. \A i \in PollReqs : req_at'[i] # "idle" <=> submitted'[i] # {}
        BY <1>1, <1>2, <3>1, <3>2 DEF ReqInv
      <4>6. OnePoll'
        <5>1. \A i \in PollReqs : req_at'[i] \notin {"kernel", "thread"} /\ answer'[i] = answer[i]
                                 /\ (req_at'[i] # "port" => req_at[i] # "port")
          BY <1>1, <1>2, <2>2, <3>1, <3>2, <3>3 DEF ReqInv, OnePoll
        <5> QED BY <1>1, <1>2, <2>2, <5>1 DEF ReqInv, OnePoll, PollReqs
      <4>7. ArmedFor'
        BY <1>1, <1>2, <2>2, <3>1, <3>2, <3>3 DEF ReqInv, ArmedFor, MayTell
      <4>8. FirstLeaves'
        <5>1. req_at[k] = "port" => LeavesTo(k, j)
          BY <1>2, <2>2, <3>1, <3>3 DEF ReqInv, FirstLeaves
        <5>2. \A a, b \in PollReqs : port_order' = <<a, b>> => req_at[k] = "port" /\ a = k /\ b = j
          BY <3>1, <4>1, OrderFacts
        <5>3. \A i \in PollReqs : req_at'[i] # "kernel"
          BY <3>1, <3>2, <3>3
        <5> QED BY <1>1, <5>1, <5>2, <5>3 DEF FirstLeaves, LeavesTo
      <4> QED BY <4>2, <4>4, <4>5, <4>6, <4>7, <4>8 DEF ReqInv
    <3>4. CASE req_at[j] # "kernel"
      <4>1. port_order' = port_order
        BY <1>1, <1>2, <2>2, <3>1, <3>4, SentBackOrder
      <4>2. req_at' = req_at
        <5>1. /\ req_at' \in [PollReqs -> {"idle", "thread", "kernel", "port"}]
              /\ \A i \in PollReqs : req_at'[i] = req_at[i]
          BY <1>1, <1>2, <2>2, <3>1, <3>2, <3>4 DEF SentBack, ReqInv, WinPollTypes
        <5> QED BY <1>2, <5>1 DEF ReqInv, WinPollTypes
      <4> QED BY <2>1, <4>1, <4>2
    <3> QED BY <3>3, <3>4
  <2> QED BY <1>1, <2>1, <2>2 DEF ReqInv, WinPollTypes
<1>4. wp_life' = "endgame" => \A k \in PollReqs : req_at'[k] = "idle"
  BY <1>1, <1>2, <1>3 DEF NoneSubmitted, ReqInv, PollReqs
<1> QED BY <1>1, <1>3, <1>4 DEF WinPollInv, ReqInv, ClosedAsksNothing, NoneAfterClose, AllPolled

\* The port gets one more request, which is the last.
LEMMA PostedEffect ==
  ASSUME WinPollTypes, PortRight, NEW k \in PollReqs, NEW a, req_at[k] # "port", Posted(k, a)
  PROVE  \E j \in PollReqs :
           /\ j # k /\ (\A i \in PollReqs : i = j \/ i = k)
           /\ req_at'[k] = "port" /\ req_at'[j] = req_at[j] /\ answer'[k] = a /\ answer'[j] = answer[j]
           /\ port_order' = IF req_at[j] = "port" THEN <<j, k>> ELSE <<k>>
           /\ PortRight' /\ port_order' \in Orders
           /\ req_at' \in [PollReqs -> {"idle", "thread", "kernel", "port"}]
           /\ answer' = [answer EXCEPT ![k] = a]
<1>1. PICK j \in PollReqs : j # k /\ \A i \in PollReqs : i = j \/ i = k
  BY DEF PollReqs
<1>2. /\ req_at'[k] = "port" /\ req_at'[j] = req_at[j] /\ answer'[k] = a /\ answer'[j] = answer[j]
      /\ req_at' \in [PollReqs -> {"idle", "thread", "kernel", "port"}]
  BY <1>1 DEF Posted, WinPollTypes
<1>3. port_order = IF req_at[j] = "port" THEN <<j>> ELSE <<>>
  BY <1>1, OrderCases
<1>4. port_order' = IF req_at[j] = "port" THEN <<j, k>> ELSE <<k>>
  BY <1>3, OrderFacts DEF Posted
<1>5. PortRight' /\ port_order' \in Orders
  BY <1>1, <1>2, <1>4, PortAfter
<1> QED BY <1>1, <1>2, <1>4, <1>5 DEF Posted

\* An answer comes after those that are in the port, which leave it theirs.
LEMMA KernelAnswersKeeps ==
  ASSUME WinPollInv, NEW k \in PollReqs, KernelAnswers(k)
  PROVE  WinPollInv'
<1>1. /\ ~slow /\ req_at[k] = "kernel" /\ Posted(k, Found(k))
      /\ UNCHANGED <<slow, wp_life, wp_active, wp_events, submitted, mask_events, sought, armed, socket,
                     wp_at, told>>
  BY DEF KernelAnswers
<1>2. PICK j \in PollReqs :
           /\ j # k /\ (\A i \in PollReqs : i = j \/ i = k)
           /\ req_at'[k] = "port" /\ req_at'[j] = req_at[j] /\ answer'[k] = Found(k) /\ answer'[j] = answer[j]
           /\ port_order' = IF req_at[j] = "port" THEN <<j, k>> ELSE <<k>>
           /\ PortRight' /\ port_order' \in Orders
           /\ req_at' \in [PollReqs -> {"idle", "thread", "kernel", "port"}]
           /\ answer' = [answer EXCEPT ![k] = Found(k)]
  BY <1>1, PostedEffect DEF WinPollInv
<1>3. /\ Found(k) \in SUBSET (AfdNames \cup {"local_close"})
      /\ "send" \in Found(k) => "writable" \in submitted[k]
  <2>1. sought[k] = AfdEvents(submitted[k]) /\ sought[k] \in SUBSET AfdNames
    BY <1>1 DEF WinPollInv, OnePoll, WinPollTypes
  <2> QED BY <2>1, AfdFacts DEF Found
<1>4. WinPollTypes'
  <2> DEFINE Answers == (SUBSET (AfdNames \cup {"local_close"})) \cup {{"error"}}
  <2>1. Found(k) \in Answers /\ answer \in [PollReqs -> Answers]
    BY <1>3 DEF WinPollInv, WinPollTypes
  <2> HIDE DEF Answers
  <2>2. answer' \in [PollReqs -> Answers]
    BY <1>2, <2>1
  <2> QED BY <1>1, <1>2, <2>2 DEF Answers, WinPollInv, WinPollTypes
<1>5. OnePoll'
  <2>1. \A i \in PollReqs : req_at'[i] \notin {"kernel", "thread"}
    BY <1>1, <1>2 DEF WinPollInv, OnePoll, PollReqs
  <2>2. /\ \A i \in PollReqs : req_at'[i] # "port" => answer'[i] = {}
        /\ \A i \in PollReqs : "send" \in answer'[i] => "writable" \in submitted'[i]
    BY <1>1, <1>2, <1>3 DEF WinPollInv, OnePoll
  <2> QED BY <2>1, <2>2 DEF OnePoll, PollReqs
<1>6. ArmedFor'
  BY <1>1, <1>2 DEF WinPollInv, ArmedFor, MayTell, WinPollTypes
<1>7. FirstLeaves'
  <2>1. req_at[j] = "port" => LeavesTo(j, k)
    BY <1>1, <1>2 DEF WinPollInv, FirstLeaves
  <2>2. \A a, b \in PollReqs : port_order' = <<a, b>> => req_at[j] = "port" /\ a = j /\ b = k
    BY <1>2, OrderFacts
  <2>3. \A i \in PollReqs : req_at'[i] # "kernel"
    BY <1>1, <1>2 DEF WinPollInv, OnePoll, PollReqs
  <2> QED BY <1>1, <1>2, <2>1, <2>2, <2>3 DEF FirstLeaves, LeavesTo
<1>8. ClosedAsksNothing' /\ NoneAfterClose' /\ AllPolled'
  BY <1>1, <1>2 DEF WinPollInv, ClosedAsksNothing, NoneAfterClose, AllPolled
<1> QED BY <1>2, <1>4, <1>5, <1>6, <1>7, <1>8 DEF WinPollInv

\* The threads of the slow kind.
LEMMA ThreadKeeps ==
  ASSUME WinPollInv, NEW k \in PollReqs, ThreadStarts(k) \/ ThreadEnds(k)
  PROVE  WinPollInv'
<1>1. /\ slow /\ req_at[k] \in {"thread", "kernel"}
      /\ UNCHANGED <<slow, wp_life, wp_active, wp_events, submitted, mask_events, armed, socket, wp_at, told>>
  BY DEF ThreadStarts, ThreadEnds, WinPollInv, OnePoll
<1>2. OnePoll' /\ ArmedFor' /\ FirstLeaves' /\ AllPolled' /\ ClosedAsksNothing'
  BY <1>1 DEF WinPollInv, OnePoll, ArmedFor, FirstLeaves, AllPolled, ClosedAsksNothing
<1>3. sought' \in [PollReqs -> SUBSET AfdNames]
  <2>1. AfdEvents(wp_events) \in SUBSET AfdNames
    BY AfdFacts DEF WinPollInv, WinPollTypes
  <2>2. sought \in [PollReqs -> SUBSET AfdNames]
    BY DEF WinPollInv, WinPollTypes
  <2>3. sought' = sought \/ sought' = [sought EXCEPT ![k] = AfdEvents(wp_events)]
    BY DEF ThreadStarts, ThreadEnds
  <2> QED BY <2>1, <2>2, <2>3
<1>4. CASE \E a \in {{"error"}, socket \cap sought[k]} : Posted(k, a)
  <2>1. PICK a \in {{"error"}, socket \cap sought[k]} : Posted(k, a)
    BY <1>4
  <2>2. PICK j \in PollReqs :
           /\ j # k /\ (\A i \in PollReqs : i = j \/ i = k)
           /\ req_at'[k] = "port" /\ req_at'[j] = req_at[j] /\ answer'[k] = a /\ answer'[j] = answer[j]
           /\ port_order' = IF req_at[j] = "port" THEN <<j, k>> ELSE <<k>>
           /\ PortRight' /\ port_order' \in Orders
           /\ req_at' \in [PollReqs -> {"idle", "thread", "kernel", "port"}]
           /\ answer' = [answer EXCEPT ![k] = a]
    BY <1>1, <2>1, PostedEffect DEF WinPollInv
  <2>3. WinPollTypes'
    <3> DEFINE Answers == (SUBSET (AfdNames \cup {"local_close"})) \cup {{"error"}}
    <3>1. socket \cap sought[k] \in Answers
      BY DEF WinPollInv, WinPollTypes
    <3>2. {"error"} \in Answers
      OBVIOUS
    <3>3. answer \in [PollReqs -> Answers]
      BY DEF WinPollInv, WinPollTypes
    <3> HIDE DEF Answers
    <3>4. a \in Answers
      BY <2>1, <3>1, <3>2
    <3>5. answer' \in [PollReqs -> Answers]
      BY <2>2, <3>3, <3>4
    <3> QED BY <1>1, <1>3, <2>2, <3>5 DEF Answers, WinPollInv, WinPollTypes
  <2>4. NoneAfterClose'
    BY <1>1, <2>2 DEF WinPollInv, NoneAfterClose
  <2> QED BY <1>2, <2>2, <2>3, <2>4 DEF WinPollInv
<1>5. CASE req_at' = [req_at EXCEPT ![k] = "kernel"] /\ UNCHANGED <<answer, port_order>>
  <2>1. \A i \in PollReqs : req_at'[i] = IF i = k THEN "kernel" ELSE req_at[i]
    BY <1>5 DEF WinPollInv, WinPollTypes
  <2>2. PortRight' /\ NoneAfterClose'
    BY <1>1, <1>5, <2>1 DEF WinPollInv, PortRight, NoneAfterClose
  <2>3. WinPollTypes'
    BY <1>1, <1>3, <1>5 DEF WinPollInv, WinPollTypes
  <2> QED BY <1>2, <2>2, <2>3 DEF WinPollInv
<1> QED BY <1>4, <1>5 DEF ThreadStarts, ThreadEnds

\* The first in the port is processed: it tells nothing that another, still
\* under way, was left to tell.
LEMMA ProcessKeeps ==
  ASSUME WinPollInv, NEW k \in PollReqs, uv__process_poll_req(k)
  PROVE  /\ WinPollInv'
         /\ ~slow => told' \cap {"writable"} \subseteq armed
<1>1. /\ port_order # <<>> /\ k = Head(port_order) /\ port_order' = Tail(port_order)
      /\ req_at' = [req_at EXCEPT ![k] = "idle"] /\ submitted' = [submitted EXCEPT ![k] = {}]
      /\ sought' = [sought EXCEPT ![k] = {}] /\ answer' = [answer EXCEPT ![k] = {}]
      /\ mask_events' = [mask_events EXCEPT ![k] = {}]
      /\ armed' = armed \ told' /\ slow' = slow /\ wp_life' = wp_life /\ socket' = socket
      /\ wp_at' \in {"processed", "callback"}
      /\ wp_events' \in {wp_events, {}} /\ wp_active' \in {wp_active, FALSE}
  BY DEF uv__process_poll_req
<1>2. /\ answer[k] = {"error"} => "writable" \notin told'
      /\ ~slow /\ "writable" \in told' => "send" \in answer[k] /\ "writable" \notin mask_events[k]
  BY SMTT(30) DEF uv__process_poll_req, UvEvents
<1>3. PICK j \in PollReqs : j # k /\ \A i \in PollReqs : i = j \/ i = k
  BY DEF PollReqs
<1>4. /\ req_at[k] = "port"
      /\ port_order = IF req_at[j] = "port" THEN <<k, j>> ELSE <<k>>
      /\ port_order' = IF req_at[j] = "port" THEN <<j>> ELSE <<>>
  <2>1. /\ req_at[j] = "port" /\ req_at[k] = "port" => port_order \in {<<j, k>>, <<k, j>>}
        /\ req_at[j] = "port" /\ req_at[k] # "port" => port_order = <<j>>
        /\ req_at[j] # "port" /\ req_at[k] = "port" => port_order = <<k>>
        /\ req_at[j] # "port" /\ req_at[k] # "port" => port_order = <<>>
    BY <1>3, OrderCases DEF WinPollInv
  <2>2. /\ Head(<<j>>) = j /\ Head(<<k>>) = k /\ Head(<<j, k>>) = j /\ Head(<<k, j>>) = k
        /\ Tail(<<k>>) = <<>> /\ Tail(<<k, j>>) = <<j>>
    BY OrderFacts
  <2>3. /\ req_at[j] = "port" /\ req_at[k] = "port" => port_order = <<k, j>>
        /\ ~(req_at[j] = "port" /\ req_at[k] # "port")
    BY <1>1, <1>3, <2>1, <2>2
  <2>4. req_at[k] = "port"
    BY <1>1, <2>1, <2>3
  <2> QED BY <1>1, <2>1, <2>2, <2>3, <2>4
<1>5. /\ req_at'[k] = "idle" /\ req_at'[j] = req_at[j]
      /\ submitted'[k] = {} /\ submitted'[j] = submitted[j]
      /\ answer'[k] = {} /\ answer'[j] = answer[j]
      /\ sought'[j] = sought[j] /\ mask_events'[j] = mask_events[j]
  BY <1>1, <1>3 DEF WinPollInv, WinPollTypes
<1>6. PortRight' /\ port_order' \in Orders
  BY <1>3, <1>4, <1>5, PortAfter
<1>7. WinPollTypes'
  <2> DEFINE Answers == (SUBSET (AfdNames \cup {"local_close"})) \cup {{"error"}}
  <2>1. {} \in Answers /\ answer \in [PollReqs -> Answers]
    BY DEF WinPollInv, WinPollTypes
  <2> HIDE DEF Answers
  <2>2. answer' \in [PollReqs -> Answers]
    BY <1>1, <2>1
  <2>3. /\ submitted' \in [PollReqs -> SUBSET PollEventNames]
        /\ mask_events' \in [PollReqs -> SUBSET PollEventNames]
        /\ sought' \in [PollReqs -> SUBSET AfdNames]
        /\ req_at' \in [PollReqs -> {"idle", "thread", "kernel", "port"}]
    BY <1>1 DEF WinPollInv, WinPollTypes
  <2>4. /\ wp_events' \in SUBSET PollEventNames /\ wp_active' \in BOOLEAN
        /\ wp_at' \in {"idle", "callback", "processed"}
    BY <1>1 DEF WinPollInv, WinPollTypes
  <2> QED BY <1>1, <1>6, <2>2, <2>3, <2>4 DEF Answers, WinPollInv, WinPollTypes
<1>8. OnePoll'
  <2>1. ASSUME ~slow
        PROVE  /\ req_at'[j] # "thread"
               /\ (req_at'[j] = "kernel" => sought'[j] = AfdEvents(submitted'[j]))
               /\ (req_at'[j] # "port" => answer'[j] = {})
               /\ ("send" \in answer'[j] => "writable" \in submitted'[j])
    BY <1>3, <1>5, <2>1 DEF WinPollInv, OnePoll
  <2>2. \A i \in PollReqs : AfdEvents(submitted[i])' = AfdEvents(submitted'[i])
    BY DEF AfdEvents
  <2>3. req_at'[1] # "kernel" \/ req_at'[2] # "kernel"
    BY <1>5 DEF PollReqs
  <2> QED BY <1>1, <1>3, <1>5, <2>1, <2>2, <2>3 DEF OnePoll
<1>9. ASSUME ~slow, "writable" \in told' PROVE MayTell(k) /\ ~MayTell(j)
  <2>1. "send" \in answer[k] /\ answer[k] # {"error"} /\ "writable" \notin mask_events[k]
    BY <1>2, <1>9
  <2>2. MayTell(k)
    BY <1>4, <1>9, <2>1 DEF WinPollInv, OnePoll, MayTell
  <2>3. req_at[j] = "kernel" => "writable" \notin submitted[j]
    BY <1>3, <1>4, <1>9, <2>1 DEF WinPollInv, FirstLeaves, LeavesTo
  <2>4. req_at[j] = "port" /\ "send" \in answer[j] => "writable" \notin submitted[j]
    <3>1. "send" \in answer[j] => answer[j] # {"error"}
      OBVIOUS
    <3> QED BY <1>3, <1>4, <1>9, <2>1, <3>1 DEF WinPollInv, FirstLeaves, LeavesTo
  <2> QED BY <2>2, <2>3, <2>4 DEF MayTell
<1>10. ArmedFor'
  <2>1. MayTell(k)' = FALSE /\ MayTell(j)' = MayTell(j)
    BY <1>5 DEF MayTell
  <2>2. ~slow /\ MayTell(j) => "writable" \in armed'
    BY <1>1, <1>3, <1>9 DEF WinPollInv, ArmedFor
  <2> QED BY <1>1, <1>3, <2>1, <2>2 DEF ArmedFor
<1>11. FirstLeaves'
  <2>1. \A a, b \in PollReqs : port_order' # <<a, b>>
    BY <1>3, <1>4, OrderFacts
  <2>2. ASSUME NEW a \in PollReqs, NEW b \in PollReqs, a # b
        PROVE  ~(req_at'[a] = "port" /\ req_at'[b] = "kernel")
    BY <1>3, <1>5, <2>2
  <2> QED BY <2>1, <2>2 DEF FirstLeaves
<1>12. ClosedAsksNothing' /\ AllPolled'
  BY <1>1 DEF WinPollInv, ClosedAsksNothing, AllPolled
<1>13. NoneAfterClose'
  BY <1>1, <1>3, <1>4, <1>5 DEF WinPollInv, NoneAfterClose
<1>14. ~slow => told' \cap {"writable"} \subseteq armed
  BY <1>9 DEF WinPollInv, ArmedFor
<1> QED BY <1>6, <1>7, <1>8, <1>10, <1>11, <1>12, <1>13, <1>14 DEF WinPollInv

\* Initially, and in every step.
LEMMA WinPollStarts == WinPollInit => WinPollInv
<1> SUFFICES ASSUME WinPollInit PROVE WinPollInv
  OBVIOUS
<1>1. WinPollTypes
  BY DEF WinPollInit, WinPollTypes, Orders
<1>2. PortRight
  BY OrderFacts DEF WinPollInit, PortRight
<1>3. ClosedAsksNothing /\ NoneAfterClose
  BY DEF WinPollInit, ClosedAsksNothing, NoneAfterClose
<1>4. AllPolled
  BY AfdFacts DEF WinPollInit, AllPolled
<1>5. OnePoll /\ ArmedFor /\ FirstLeaves
  BY DEF WinPollInit, OnePoll, ArmedFor, MayTell, FirstLeaves, PollReqs
<1> QED BY <1>1, <1>2, <1>3, <1>4, <1>5 DEF WinPollInv

LEMMA WinPollStep ==
  ASSUME WinPollInv, [WinPollNext]_winPollVars
  PROVE  WinPollInv' /\ (~slow => told' \cap {"writable"} \subseteq armed \cup told)
<1>1. CASE \E k \in PollReqs : uv__process_poll_req(k)
  BY <1>1, ProcessKeeps
<1>2. CASE \/ PollOver \/ PollCbReturns \/ uv__poll_endgame \/ SocketIsClosed
           \/ (\E c \in SUBSET Conditions : SocketChanges(c)) \/ UNCHANGED winPollVars
  <2>1. told' \in {told, {}}
    BY <1>2 DEF PollOver, PollCbReturns, uv__poll_endgame, SocketIsClosed, SocketChanges, winPollVars
  <2> QED BY <1>2, <2>1, RestStepsKeep
<1>3. CASE PollProcessed
  BY <1>3, PollProcessedKeeps DEF PollProcessed
<1>4. CASE uv__poll_close
  BY <1>4, PollCloseKeeps DEF uv__poll_close
<1>5. ASSUME NEW ev \in SUBSET PollEvents, uv__poll_set(ev)
      PROVE  WinPollInv' /\ told' = told
  BY <1>5, PollSetKeeps DEF uv__poll_set
<1>6. ASSUME NEW k \in PollReqs, KernelAnswers(k) PROVE WinPollInv' /\ told' = told
  BY <1>6, KernelAnswersKeeps DEF KernelAnswers
<1>7. ASSUME NEW k \in PollReqs, ThreadStarts(k) \/ ThreadEnds(k) PROVE WinPollInv' /\ told' = told
  BY <1>7, ThreadKeeps DEF ThreadStarts, ThreadEnds
<1> QED BY <1>1, <1>2, <1>3, <1>4, <1>5, <1>6, <1>7 DEF WinPollNext, PollLoop

\* A poll handle of Windows, whatever is asked for and whatever the socket
\* does: it is closed only when no request of it is under way, the driver
\* polls for all that is asked for, and one submission is told once
\* (uv__fast_poll_submit_poll_req, uv__fast_poll_process_poll_req, uv__poll_close).
THEOREM WinPollKeepsPromise == WinPollSpec => WinPollPromise
<1>1. WinPollInit => WinPollInv
  BY WinPollStarts
<1>2. WinPollInv /\ [WinPollNext]_winPollVars => WinPollInv'
  BY WinPollStep
<1>3. WinPollInv => NoneAfterClose /\ AllPolled
  BY DEF WinPollInv
<1>4. WinPollInv /\ [WinPollNext]_winPollVars
        => [~slow => told' \cap {"writable"} \subseteq armed \cup told]_winPollVars
  BY WinPollStep
<1> QED BY <1>1, <1>2, <1>3, <1>4, PTL DEF WinPollSpec, WinPollPromise, TellsOnce
===============================================================================
