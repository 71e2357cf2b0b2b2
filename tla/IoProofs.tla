-------------------------------- MODULE IoProofs --------------------------------
(***************************************************************************)
(* Files: a copy is exact, for any sizes of the file and of the buffer, a  *)
(* request frees exactly what it allocated, for any requests and any sizes *)
(* of the rings of io_uring, an event of a watched file reaches every      *)
(* handle that watches it, whatever the callbacks do, and a file that is   *)
(* polled is polled by one context, each freed when nothing refers to it.  *)
(* Streams: the bytes and the requests that a stream counts are those it   *)
(* holds, and the callbacks come in the order of the calls.                *)
(***************************************************************************)
EXTENDS FsCopy, FsRequest, Inotify, FsPoll, Stream, Lemmas

-----------------------------------------------------------------------------
(* Copies (uv__fs_copyfile, uv__fs_sendfile).                               *)

\* The steps at which a copy is under way.
Copying == {"attributes", "clone", "chunk", "kernel", "emul"}

CopyTypes ==
  /\ setting \in Settings /\ (setting.ranges \/ setting.sendfile => setting.positional)
  /\ exists \in BOOLEAN /\ copied \in {"ok", "err"} /\ use_pread \in BOOLEAN
  /\ in_offset \in Nat /\ nsent \in Nat /\ position \in Nat

\* What is open, and what the destination is before anything is copied.
CopyPhases ==
  /\ step \in Copying \cup {"open", "open_dst", "truncate", "close_src", "close_dst", "done"}
  /\ step \notin {"close_src", "close_dst", "done"} => copied = "ok"
  /\ step \in {"open", "done"} => opened = {}
  /\ step = "open_dst" => opened = {"src"}
  /\ step \in Copying \cup {"truncate"} => opened = {"src", "dst"} /\ exists
  /\ step \in {"open", "open_dst"} =>
       dst = (IF exists THEN <<"old">> ELSE <<>>) /\ (setting.same => exists)
  /\ step = "truncate" => (setting.same => dst = <<"old">>)
  /\ step \in Copying => ~setting.same
  /\ step \in {"open", "open_dst", "truncate", "attributes", "clone"} => in_offset = 0 /\ position = 0
  /\ step \in {"attributes", "clone"} => dst = <<>>

\* What a copy that is finished leaves, whatever it is still to close.
CopyEnds ==
  LET whole == exists /\ dst = IF setting.same THEN <<"old">> ELSE Units(0, FileSize)
  IN /\ step = "close_src" =>
          /\ opened = {"src"} \/ opened = {"src", "dst"}
          /\ copied = "ok" => whole /\ "dst" \in opened
          /\ "dst" \notin opened => ~exists \/ dst = <<"old">>
     /\ step = "close_dst" => opened = {"dst"} /\ (copied = "ok" => whole)
     /\ step = "done" => /\ copied = "ok" => whole
                         /\ copied = "err" => ~exists \/ dst = <<"old">>

\* A copy of readable units.  The destination holds the source up to where the copy is,
\* what is read and not written comes next, and a sequential read is where that ends.
CopyMoves ==
  /\ step \in {"chunk", "kernel"} =>
       /\ in_offset <= FileSize /\ dst = Units(0, in_offset)
       /\ ~setting.positional => position = in_offset
  /\ step = "emul" =>
       \E n \in Nat : /\ buf = Units(in_offset + nsent, n)
                      /\ in_offset + nsent + n <= FileSize
                      /\ dst = Units(0, in_offset + nsent)
                      /\ IF setting.positional THEN use_pread ELSE position = in_offset + nsent + n

\* The inductive invariant.
CopyInv == CopyTypes /\ CopyPhases /\ CopyEnds /\ CopyMoves

\* What a sequence of units is.
LEMMA UnitsAreSeq ==
  ASSUME NEW a \in Nat, NEW n \in Nat
  PROVE  /\ Units(a, n) \in Seq(Nat) /\ Len(Units(a, n)) = n
         /\ \A i \in 1..n : Units(a, n)[i] = a + i
         /\ Units(a, n) = <<>> <=> n = 0
<1>1. Units(a, n) \in Seq(Nat)
  BY DEF Units
<1>2. Len(Units(a, n)) = n
  BY <1>1 DEF Units
<1>3. \A i \in 1..n : Units(a, n)[i] = a + i
  BY DEF Units
<1>4. Units(a, n) = <<>> => n = 0
  BY <1>2, EmptySeq
<1>5. n = 0 => Units(a, n) = <<>>
  BY <1>1, <1>2, EmptySeq
<1> QED BY <1>1, <1>2, <1>3, <1>4, <1>5

LEMMA UnitsKnown ==
  ASSUME NEW a \in Nat, NEW n \in Nat, NEW s \in Seq(Nat), Len(s) = n,
         \A i \in 1..n : s[i] = a + i
  PROVE  s = Units(a, n)
<1> DEFINE t == Units(a, n)
<1>1. t \in Seq(Nat) /\ Len(t) = n /\ \A i \in 1..n : t[i] = a + i
  BY UnitsAreSeq
<1> HIDE DEF t
<1>2. s = t
  BY <1>1, SeqEqual
<1> QED BY <1>2 DEF t

LEMMA UnitsConcat ==
  ASSUME NEW n \in Nat, NEW k \in Nat
  PROVE  Units(0, n) \o Units(n, k) = Units(0, n + k)
<1> DEFINE s == Units(0, n)
           t == Units(n, k)
<1>1. s \in Seq(Nat) /\ Len(s) = n /\ \A i \in 1..n : s[i] = i
  <2>1. s \in Seq(Nat) /\ Len(s) = n
    BY UnitsAreSeq
  <2>2. \A i \in 1..n : s[i] = i
    BY DEF Units
  <2> QED BY <2>1, <2>2
<1>2. t \in Seq(Nat) /\ Len(t) = k /\ \A i \in 1..k : t[i] = n + i
  BY UnitsAreSeq
<1> HIDE DEF s, t
<1> DEFINE c == s \o t
<1>3. /\ c \in Seq(Nat) /\ Len(c) = n + k
      /\ \A i \in 1..(n + k) : c[i] = IF i <= n THEN s[i] ELSE t[i - n]
  BY ZenonT(40), <1>1, <1>2, ConcatProperties
<1> HIDE DEF c
<1>4. ASSUME NEW i \in 1..(n + k) PROVE c[i] = i
  <2>1. CASE i <= n
    BY <1>1, <1>3, <2>1
  <2>2. CASE i > n
    <3>1. i - n \in 1..k /\ c[i] = t[i - n]
      BY <1>3, <2>2
    <3> QED BY <1>2, <3>1
  <2> QED BY <2>1, <2>2
<1>5. n + k \in Nat
  OBVIOUS
<1>6. c = Units(0, n + k)
  BY <1>3, <1>4, <1>5, UnitsKnown
<1> QED BY <1>6 DEF s, t, c

LEMMA UnitsSplit ==
  ASSUME NEW a \in Nat, NEW n \in Nat, NEW k \in 1..n
  PROVE  /\ SubSeq(Units(a, n), 1, k) = Units(a, k)
         /\ SubSeq(Units(a, n), k + 1, n) = Units(a + k, n - k)
<1> DEFINE s == Units(a, n)
<1>0. k \in Nat /\ n - k \in Nat /\ a + k \in Nat /\ 1 <= k /\ k <= n
  OBVIOUS
<1>1. s \in Seq(Nat) /\ Len(s) = n /\ \A i \in 1..n : s[i] = a + i
  BY UnitsAreSeq
<1> HIDE DEF s
<1>2. \A i \in 1..n : s[i] \in Nat
  BY <1>1
<1>3. SubSeq(s, 1, k) = Units(a, k)
  <2>1. /\ SubSeq(s, 1, k) \in Seq(Nat) /\ Len(SubSeq(s, 1, k)) = k
        /\ \A i \in 1..k : SubSeq(s, 1, k)[i] = s[i]
    BY <1>0, <1>2, SubSeqProperties
  <2>2. \A i \in 1..k : SubSeq(s, 1, k)[i] = a + i
    BY <1>0, <1>1, <2>1
  <2> QED BY <1>0, <2>1, <2>2, UnitsKnown
<1>4. SubSeq(s, k + 1, n) = Units(a + k, n - k)
  <2> DEFINE u == SubSeq(s, k + 1, n)
  <2>1. /\ u \in Seq(Nat) /\ Len(u) = n - k
        /\ \A i \in 1..(n - k) : u[i] = s[k + i]
    BY <1>0, <1>2, SubSeqProperties
  <2> HIDE DEF u
  <2>2. \A i \in 1..(n - k) : u[i] = a + k + i
    BY <1>0, <1>1, <2>1
  <2>3. u = Units(a + k, n - k)
    BY <1>0, <2>1, <2>2, UnitsKnown
  <2> QED BY <2>3 DEF u
<1> QED BY <1>3, <1>4 DEF s

LEMMA CopyStarts == FsCopyInit => CopyInv
<1> SUFFICES ASSUME FsCopyInit PROVE CopyInv
  OBVIOUS
<1> QED BY DEF FsCopyInit, CopyInv, CopyTypes, CopyPhases, CopyEnds, CopyMoves, Copying, Settings

\* Every unit can be read: a read makes progress, and the kernel never gives up halfway.
LEMMA AllReadable ==
  ASSUME BadUnits = {}, NEW f \in Nat, NEW n \in Nat
  PROVE  /\ ~ReadFails(f)
         /\ \A k \in Progress(f, n) : k \in 1..n /\ f + k <= FileSize
BY DEF ReadFails, Progress

LEMMA CopyStep ==
  ASSUME BadUnits = {}, CopyInv, [FsCopyNext]_fsCopyVars
  PROVE  CopyInv'
<1>0. FileSize \in Nat /\ CopyTypes /\ CopyPhases /\ CopyEnds /\ CopyMoves /\ CloseFails \in BOOLEAN
  BY FsCopyAssumption DEF CopyInv
<1>1. CASE OpenSource
  BY <1>0, <1>1
      DEF OpenSource, GiveUp, emulVars, CopyInv, CopyTypes, CopyPhases, CopyEnds, CopyMoves, Copying
<1>2. CASE OpenDest
  <2>1. opened = {"src"} /\ dst = (IF exists THEN <<"old">> ELSE <<>>) /\ (setting.same => exists)
        /\ exists \in BOOLEAN /\ copied = "ok" /\ in_offset = 0 /\ position = 0 /\ step = "open_dst"
    BY <1>0, <1>2 DEF OpenDest, CopyPhases, CopyTypes
  <2>2. CASE GiveUp /\ UNCHANGED <<opened, exists>>
    BY <1>0, <1>2, <2>1, <2>2
    DEF OpenDest, GiveUp, emulVars, CopyInv, CopyTypes, CopyPhases, CopyEnds, CopyMoves, Copying
  <2>3. CASE ~(setting.excl /\ exists) /\ opened' = opened \cup {"dst"} /\ exists' = TRUE
             /\ step' = (IF setting.excl THEN "attributes" ELSE "truncate") /\ UNCHANGED copied
    <3>1. opened' = {"src", "dst"}
      BY <2>1, <2>3
    <3> QED BY <1>0, <1>2, <2>1, <2>3, <3>1
            DEF OpenDest, emulVars, CopyInv, CopyTypes, CopyPhases, CopyEnds, CopyMoves, Copying
  <2> QED BY <1>2, <2>2, <2>3 DEF OpenDest
<1>3. CASE Truncate
  BY <1>0, <1>3
      DEF Truncate, GiveUp, emulVars, CopyInv, CopyTypes, CopyPhases, CopyEnds, CopyMoves, Copying
<1>4. CASE Attributes
  <2>1. Units(0, 0) = <<>>
    BY UnitsAreSeq
  <2> QED BY <1>0, <1>4, <2>1
      DEF Attributes, GiveUp, emulVars, CopyInv, CopyTypes, CopyPhases, CopyEnds, CopyMoves, Copying
<1>5. CASE Clone
  <2>1. Units(0, 0) = <<>> /\ Units(0, FileSize) = [i \in 1..FileSize |-> i]
    BY <1>0, UnitsAreSeq DEF Units
  <2> QED BY <1>0, <1>5, <2>1
      DEF Clone, GiveUp, emulVars, CopyInv, CopyTypes, CopyPhases, CopyEnds, CopyMoves, Copying
<1>6. CASE NextChunk
  BY <1>0, <1>6
      DEF NextChunk, toSend, emulVars, CopyInv, CopyTypes, CopyPhases, CopyEnds, CopyMoves, Copying
<1>7. CASE KernelMoves
  <2>1. PICK k \in Progress(in_offset, toSend) :
          dst' = dst \o Units(in_offset, k) /\ in_offset' = in_offset + k
    BY <1>7 DEF KernelMoves
  <2>2. in_offset <= FileSize /\ dst = Units(0, in_offset) /\ setting.positional /\ in_offset \in Nat
        /\ toSend \in Nat
    BY <1>0, <1>7 DEF KernelMoves, CopyMoves, CopyTypes, toSend
  <2>3. k \in Nat /\ in_offset + k <= FileSize
    BY <2>1, <2>2, AllReadable
  <2>4. dst' = Units(0, in_offset')
    <3>1. Units(0, in_offset) \o Units(in_offset, k) = Units(0, in_offset + k)
      BY <2>2, <2>3, UnitsConcat, Zenon
    <3> QED BY <2>1, <2>2, <3>1
  <2> QED BY <1>0, <1>7, <2>1, <2>2, <2>3, <2>4
          DEF KernelMoves, emulVars, CopyInv, CopyTypes, CopyPhases, CopyEnds, CopyMoves, Copying
<1>8. CASE KernelRefuses
  <2>1. Units(in_offset, 0) = <<>>
    BY <1>0, UnitsAreSeq DEF CopyTypes
  <2>2. ~setting.ranges /\ ~setting.sendfile
    BY <1>0, <1>8, AllReadable DEF KernelRefuses, CopyTypes
  <2>3. CopyMoves'
    <3>1. /\ buf' = Units(in_offset' + nsent', 0) /\ in_offset' + nsent' + 0 <= FileSize
          /\ dst' = Units(0, in_offset' + nsent')
          /\ IF setting'.positional THEN use_pread' ELSE position' = in_offset' + nsent' + 0
      BY <1>0, <1>8, <2>1 DEF KernelRefuses, CopyMoves, CopyTypes
    <3> QED BY <1>8, <3>1 DEF KernelRefuses, CopyMoves
  <2> QED BY <1>0, <1>8, <2>3
      DEF KernelRefuses, emulVars, CopyInv, CopyTypes, CopyPhases, CopyEnds, Copying
<1>9. CASE KernelFails
  BY <1>0, <1>9
      DEF KernelFails, GiveUp, emulVars, CopyInv, CopyTypes, CopyPhases, CopyEnds, CopyMoves, Copying
<1>10. ASSUME step = "emul", NEW n \in Nat, buf = Units(in_offset + nsent, n),
              in_offset + nsent + n <= FileSize, dst = Units(0, in_offset + nsent),
              IF setting.positional THEN use_pread ELSE position = in_offset + nsent + n,
              EmulRead \/ EmulReadFails \/ EmulEnd \/ EmulWrite
       PROVE  CopyInv'
  <2>0. /\ in_offset \in Nat /\ nsent \in Nat /\ position \in Nat /\ in_offset + nsent \in Nat
        /\ (buf = <<>> <=> n = 0) /\ Len(buf) = n
    <3>1. in_offset \in Nat /\ nsent \in Nat /\ position \in Nat /\ in_offset + nsent \in Nat
      BY <1>0 DEF CopyTypes
    <3>2. (Units(in_offset + nsent, n) = <<>> <=> n = 0) /\ Len(Units(in_offset + nsent, n)) = n
      BY <3>1, UnitsAreSeq
    <3> QED BY <1>10, <3>1, <3>2
  <2>1. CASE EmulRead
    <3>1. n = 0 /\ EmulOffset = in_offset + nsent
      BY <2>0, <2>1, <1>10 DEF EmulRead, EmulOffset, CanRead
    <3>2. PICK k \in Progress(EmulOffset, toSend - nsent) :
            /\ buf' = Units(EmulOffset, k)
            /\ position' = IF use_pread THEN position ELSE position + k
      BY <2>1 DEF EmulRead
    <3>3. toSend - nsent \in Nat
      BY <1>0, <2>0, <2>1 DEF EmulRead, toSend
    <3>4. k \in Nat /\ in_offset + nsent + k <= FileSize
      BY <2>0, <3>1, <3>2, <3>3, AllReadable
    <3>5. CopyMoves'
      <4>1. /\ buf' = Units(in_offset' + nsent', k) /\ in_offset' + nsent' + k <= FileSize
            /\ dst' = Units(0, in_offset' + nsent')
            /\ IF setting'.positional THEN use_pread' ELSE position' = in_offset' + nsent' + k
        BY <1>0, <1>10, <2>0, <2>1, <3>1, <3>2, <3>4 DEF EmulRead, CanRead, CopyTypes
      <4> QED BY <2>1, <1>10, <3>4, <4>1 DEF EmulRead, CopyMoves
    <3> QED BY <1>0, <2>1, <2>0, <3>2, <3>4, <3>5
        DEF EmulRead, CopyInv, CopyTypes, CopyPhases, CopyEnds, Copying
  <2>2. CASE EmulReadFails
    <3>1. n = 0
      BY <2>0, <2>2 DEF EmulReadFails
    <3>2. ~CanRead
      <4>1. EmulOffset \in Nat
        BY <2>0 DEF EmulOffset
      <4> QED BY <2>2, <4>1, AllReadable DEF EmulReadFails
    <3>3. ~setting.positional /\ use_pread /\ position = in_offset + nsent
      BY <1>0, <1>10, <2>0, <3>1, <3>2 DEF CanRead, CopyTypes
    <3>4. CASE Falls
      <4>1. CopyMoves'
        <5>1. /\ buf' = Units(in_offset' + nsent', 0) /\ in_offset' + nsent' + 0 <= FileSize
              /\ dst' = Units(0, in_offset' + nsent')
              /\ IF setting'.positional THEN use_pread' ELSE position' = in_offset' + nsent' + 0
          BY <1>10, <2>0, <2>2, <3>1, <3>3, <3>4 DEF EmulReadFails
        <5> QED BY <1>10, <2>2, <3>4, <5>1 DEF EmulReadFails, CopyMoves
      <4> QED BY <1>0, <1>10, <2>2, <3>4, <4>1
          DEF EmulReadFails, CopyInv, CopyTypes, CopyPhases, CopyEnds, Copying
    <3>5. CASE ~Falls
      BY <1>0, <1>10, <2>0, <2>2, <3>1, <3>3, <3>5
      DEF EmulReadFails, Falls, EmulReturns, CopyInv, CopyTypes, CopyPhases, CopyEnds, CopyMoves, Copying
    <3> QED BY <3>4, <3>5
  <2>3. CASE EmulEnd
    BY <1>0, <1>10, <2>0, <2>3
    DEF EmulEnd, EmulReturns, emulVars, CopyInv, CopyTypes, CopyPhases, CopyEnds, CopyMoves, Copying
  <2>4. CASE EmulWrite
    <3>1. CASE GiveUp /\ UNCHANGED <<dst, buf, nsent>>
      BY <1>0, <1>10, <2>4, <3>1
      DEF EmulWrite, GiveUp, CopyInv, CopyTypes, CopyPhases, CopyEnds, CopyMoves, Copying
    <3>2. ASSUME NEW k \in 1..Len(buf),
                 dst' = dst \o SubSeq(buf, 1, k), buf' = Unwritten(k),
                 nsent' = nsent + Len(buf) - Len(Unwritten(k)), UNCHANGED <<step, copied>>
          PROVE  CopyInv'
      <4>1. k \in 1..n /\ n - k \in Nat /\ k \in Nat /\ in_offset + nsent + k \in Nat
        BY <2>0, <3>2
      <4>2. SubSeq(buf, 1, k) = Units(in_offset + nsent, k)
            /\ Unwritten(k) = Units(in_offset + nsent + k, n - k)
        <5> DEFINE m == in_offset + nsent
        <5>1. m \in Nat /\ buf = Units(m, n) /\ Unwritten(k) = SubSeq(buf, k + 1, n)
          BY <1>10, <2>0 DEF Unwritten
        <5> HIDE DEF m
        <5>2. SubSeq(buf, 1, k) = Units(m, k) /\ Unwritten(k) = Units(m + k, n - k)
          <6>1. SubSeq(Units(m, n), 1, k) = Units(m, k)
                /\ SubSeq(Units(m, n), k + 1, n) = Units(m + k, n - k)
            BY <4>1, <5>1, UnitsSplit, Zenon
          <6> QED BY <5>1, <6>1, Zenon
        <5> QED BY <5>2 DEF m
      <4>3. Len(Unwritten(k)) = n - k
        <5>1. Len(Units(in_offset + nsent + k, n - k)) = n - k
          BY <4>1, UnitsAreSeq, Zenon
        <5> QED BY <4>2, <5>1, Zenon
      <4>4. nsent' = nsent + k
        BY <2>0, <3>2, <4>1, <4>3
      <4>5. dst' = Units(0, in_offset + nsent + k)
        <5> DEFINE m == in_offset + nsent
        <5>1. m \in Nat
          BY <2>0
        <5>2. dst = Units(0, m) /\ SubSeq(buf, 1, k) = Units(m, k)
          BY <1>10, <4>2
        <5> HIDE DEF m
        <5>3. dst' = Units(0, m + k)
          <6>1. Units(0, m) \o Units(m, k) = Units(0, m + k)
            BY <4>1, <5>1, UnitsConcat, Zenon
          <6> QED BY <3>2, <5>2, <6>1, Zenon
        <5> QED BY <5>3 DEF m
      <4>6. CopyMoves'
        <5>1. /\ buf' = Units(in_offset' + nsent', n - k) /\ in_offset' + nsent' + (n - k) <= FileSize
              /\ dst' = Units(0, in_offset' + nsent')
              /\ IF setting'.positional THEN use_pread' ELSE position' = in_offset' + nsent' + (n - k)
          <6>1. in_offset' = in_offset /\ in_offset' + nsent' = in_offset + nsent + k
            BY <2>0, <2>4, <4>1, <4>4 DEF EmulWrite
          <6>2. in_offset + nsent + k + (n - k) = in_offset + nsent + n
            BY <2>0, <4>1
          <6> QED BY <1>10, <2>4, <3>2, <4>2, <4>5, <6>1, <6>2 DEF EmulWrite
        <5> QED BY <1>10, <3>2, <4>1, <5>1 DEF CopyMoves
      <4> QED BY SMTT(30), <1>0, <1>10, <2>4, <3>2, <4>1, <4>4, <4>6
              DEF EmulWrite, CopyInv, CopyTypes, CopyPhases, CopyEnds, Copying
    <3> QED BY <2>4, <3>1, <3>2 DEF EmulWrite
  <2> QED BY <1>10, <2>1, <2>2, <2>3, <2>4
<1>11. CASE EmulRead \/ EmulReadFails \/ EmulEnd \/ EmulWrite
  BY <1>0, <1>10, <1>11 DEF EmulRead, EmulReadFails, EmulEnd, EmulWrite, CopyMoves
<1>12. CASE CloseSource
  BY <1>0, <1>12
      DEF CloseSource, Closed, emulVars, CopyInv, CopyTypes, CopyPhases, CopyEnds, CopyMoves, Copying
<1>13. CASE CloseDest
  BY <1>0, <1>13
      DEF CloseDest, Closed, emulVars, CopyInv, CopyTypes, CopyPhases, CopyEnds, CopyMoves, Copying
<1>14. CASE UNCHANGED fsCopyVars
  BY <1>0, <1>14 DEF fsCopyVars, emulVars, CopyInv, CopyTypes, CopyPhases, CopyEnds, CopyMoves
<1> QED BY <1>1, <1>2, <1>3, <1>4, <1>5, <1>6, <1>7, <1>8, <1>9, <1>11, <1>12, <1>13, <1>14
        DEF FsCopyNext, CopyDone

\* uv__fs_copyfile: a copy that succeeds holds the source exactly, however the calls that
\* move the data share the work; one that fails leaves no half of it.
THEOREM CopiesAreExact ==
  ASSUME BadUnits = {}
  PROVE  FsCopySpec => []CopyIsExact
<1>1. CopyInv => CopyIsExact
  BY DEF CopyInv, CopyPhases, CopyEnds, CopyIsExact
<1>2. FsCopyInit => CopyInv
  BY CopyStarts
<1>3. CopyInv /\ [FsCopyNext]_fsCopyVars => CopyInv'
  BY CopyStep
<1> QED BY <1>1, <1>2, <1>3, PTL DEF FsCopySpec

-----------------------------------------------------------------------------
(* Requests.  The inductive invariant of the ring is RingInv, that of what  *)
(* the requests own is MemoryInv; the second rests on the first, since the  *)
(* completion that is handled next belongs to a request in the ring.        *)

\* What can be allocated for a request.
Memory == {"path", "bufs", "statx", "answer", "dents", "names", "entry1", "entry2"}
Stages == {"free", "ring", "pool", "running", "worked", "called"}

StageTypes == stage \in [FsReqs -> Stages]

FieldTypes ==
  /\ StageTypes /\ fs_type \in [FsReqs -> FsKinds]
  /\ with_cb \in [FsReqs -> BOOLEAN] /\ path \in [FsReqs -> {"null", "user", "heap"}]
  /\ bufs \in [FsReqs -> {"null", "small", "heap"}]
  /\ ptr \in [FsReqs -> {"null", "statbuf", "statx", "answer", "dents", "dir"}]
  /\ fs_result \in [FsReqs -> {"none", "ok", "err", "cancelled"}]
  /\ nbufs \in [FsReqs -> 0..Entries] /\ allocated \in [FsReqs -> SUBSET Memory]

\* What the fields of a request say of each other, at each stage.
FieldsAgree(q) ==
  /\ path[q] = "user" => ~with_cb[q] /\ fs_type[q] # "mkdtemp"
  /\ path[q] = "heap" => with_cb[q] \/ fs_type[q] = "mkdtemp"
  /\ bufs[q] = "heap" => TakesBufs(fs_type[q])
  /\ ptr[q] = "statx" => stage[q] = "ring"
  /\ ptr[q] = "statbuf" => fs_type[q] = "stat"
  /\ ptr[q] = "answer" => fs_type[q] = "readlink"
  /\ ptr[q] = "dents" => fs_type[q] = "scandir"
  /\ ptr[q] = "dir" => fs_type[q] \in {"opendir", "readdir"}
  /\ fs_type[q] = "readdir" => ptr[q] = "dir"
  /\ stage[q] \in {"ring", "pool", "running"} => fs_result[q] = "none" /\ nbufs[q] = 0
  /\ stage[q] \in {"pool", "running"} /\ fs_type[q] # "readdir" => ptr[q] = "null"
  /\ stage[q] = "ring" => /\ fs_type[q] \in {"open", "stat", "close", "read", "write"}
                          /\ ptr[q] = IF fs_type[q] = "stat" THEN "statx" ELSE "null"
  /\ stage[q] = "free" => path[q] = "null" /\ bufs[q] = "null" /\ ptr[q] = "null"

\* What is allocated follows from the fields.
FieldsOwn(q) ==
  /\ "path" \in allocated[q] <=> path[q] = "heap"
  /\ "bufs" \in allocated[q] <=> bufs[q] = "heap"
  /\ "statx" \in allocated[q] <=> ptr[q] = "statx"
  /\ "answer" \in allocated[q] <=> ptr[q] = "answer"
  /\ "dents" \in allocated[q] <=> ptr[q] = "dents"
  /\ "names" \in allocated[q] <=> fs_type[q] = "readdir" /\ fs_result[q] = "ok"
  /\ "entry1" \in allocated[q] <=> ptr[q] = "dents" /\ nbufs[q] <= 1
  /\ "entry2" \in allocated[q] <=> ptr[q] = "dents"

Right(q) == FieldsAgree(q) /\ FieldsOwn(q)

\* The completions uv__poll_io_uring does not see: they came after it began.
Unhandled == SubSeq(cq, reaping + 1, Len(cq))

\* A request that is in the ring is in one of its parts, once.
RingTypes ==
  /\ sq \in Seq(FsReqs) /\ seen \in Seq(FsReqs) /\ cq \in Seq(FsReqs) /\ overflow \in Seq(FsReqs)
  /\ in_kernel \subseteq FsReqs
  /\ reaping \in 0..Len(cq) /\ (reaping = 0 => seen = <<>>)

InOnePlace(q) ==
  /\ stage[q] = "ring" <=> \/ Linked(sq, q) \/ q \in in_kernel \/ Linked(seen, q)
                           \/ Linked(Unhandled, q) \/ Linked(overflow, q)
  /\ Linked(sq, q) => q \notin in_kernel
  /\ Linked(sq, q) \/ q \in in_kernel => ~Linked(seen, q)
  /\ Linked(sq, q) \/ q \in in_kernel \/ Linked(seen, q) => ~Linked(Unhandled, q)
  /\ Linked(sq, q) \/ q \in in_kernel \/ Linked(seen, q) \/ Linked(Unhandled, q)
       => ~Linked(overflow, q)

RingPlaces ==
  /\ Distinct(sq) /\ Distinct(seen) /\ Distinct(Unhandled) /\ Distinct(overflow)
  /\ \A q \in FsReqs : InOnePlace(q)

InRing == {q \in FsReqs : stage[q] = "ring"}
ToCallBack == {q \in FsReqs : stage[q] \in {"ring", "pool", "running", "worked"}}

Counts ==
  /\ IsFiniteSet(InRing) /\ in_flight = Cardinality(InRing)
  /\ IsFiniteSet(ToCallBack) /\ active_reqs = Cardinality(ToCallBack)

RingInv == StageTypes /\ RingTypes /\ RingPlaces /\ Counts
MemoryInv == FieldTypes /\ (\A q \in FsReqs : Right(q)) /\ wild = FALSE

LEMMA EntriesAre ==
  /\ Entry(1) = "entry1" /\ Entry(2) = "entry2"
  /\ EntriesFrom(1) = {"entry1", "entry2"} /\ EntriesFrom(2) = {"entry2"} /\ EntriesFrom(3) = {}
<1>1. Entry(1) = "entry1" /\ Entry(2) = "entry2"
  BY DEF Entry
<1>2. 1..Entries = {1, 2} /\ 2..Entries = {2} /\ 3..Entries = {}
  BY DEF Entries
<1> QED BY <1>1, <1>2 DEF EntriesFrom

\* What a request is like; the others stay as they are.
Look(q) == <<stage[q], fs_type[q], with_cb[q], path[q], bufs[q], ptr[q], fs_result[q], nbufs[q],
             allocated[q]>>

LEMMA Elsewhere ==
  ASSUME NEW q, \A p \in FsReqs : Right(p), \A p \in FsReqs : p # q => Look(p)' = Look(p),
         q \in FsReqs => Right(q)'
  PROVE  \A p \in FsReqs : Right(p)'
<1> SUFFICES ASSUME NEW p \in FsReqs, p # q PROVE Right(p)'
  OBVIOUS
<1> QED BY DEF Look, Right, FieldsAgree, FieldsOwn, TakesBufs

LEMMA FsRequestStarts == FsRequestInit => RingInv /\ MemoryInv
<1> SUFFICES ASSUME FsRequestInit PROVE RingInv /\ MemoryInv
  OBVIOUS
<1>1. FieldTypes /\ wild = FALSE
  BY DEF FsRequestInit, FieldTypes, StageTypes, FsKinds, Stages, Entries
<1>2. ASSUME NEW q \in FsReqs PROVE Right(q)
  BY DEF FsRequestInit, Right, FieldsAgree, FieldsOwn
<1>3. RingTypes /\ RingPlaces
  <2>1. /\ sq = <<>> /\ seen = <<>> /\ cq = <<>> /\ overflow = <<>> /\ in_kernel = {} /\ reaping = 0
        /\ \A q \in FsReqs : stage[q] # "ring"
    BY DEF FsRequestInit
  <2>2. <<>> \in Seq(FsReqs) /\ Len(<<>>) = 0 /\ Distinct(<<>>)
    BY EmptySeq DEF Distinct
  <2>3. Unhandled = <<>>
    BY <2>1, <2>2, SubSeqEmpty DEF Unhandled
  <2> QED BY <2>1, <2>2, <2>3, EmptyLinksNothing DEF RingTypes, RingPlaces, InOnePlace
<1>4. InRing = {} /\ ToCallBack = {}
  BY DEF FsRequestInit, InRing, ToCallBack
<1>5. Counts
  BY <1>4, FS_EmptySet DEF FsRequestInit, Counts
<1> QED BY <1>1, <1>2, <1>3, <1>5 DEF RingInv, MemoryInv, FieldTypes

LEMMA SubmitAsyncFields ==
  ASSUME FieldTypes, \A p \in FsReqs : Right(p), NEW q \in FsReqs, NEW k \in FsKinds, SubmitAsync(q, k)
  PROVE  FieldTypes' /\ \A p \in FsReqs : Right(p)'
<1>1. PICK b \in BufsOf(k, TRUE) :
        /\ Prepared(q, k, TRUE, b)
        /\ \/ /\ k \in RingKinds
              /\ stage' = [stage EXCEPT ![q] = "ring"]
              /\ ptr' = [ptr EXCEPT ![q] = IF k = "stat" THEN "statx" ELSE "null"]
              /\ allocated' = [allocated EXCEPT ![q] = Owned(PathOf(k, TRUE), b)
                                               \cup (IF k = "stat" THEN {"statx"} ELSE {})]
           \/ /\ stage' = [stage EXCEPT ![q] = "pool"]
              /\ ptr' = [ptr EXCEPT ![q] = IF k = "readdir" THEN "dir" ELSE "null"]
              /\ allocated' = [allocated EXCEPT ![q] = Owned(PathOf(k, TRUE), b)]
        /\ fs_result' = [fs_result EXCEPT ![q] = "none"]
  BY DEF SubmitAsync
<1>2. /\ b \in {"null", "small", "heap"} /\ (b = "heap" => TakesBufs(k))
      /\ PathOf(k, TRUE) \in {"null", "heap"}
  BY <1>1 DEF BufsOf, TakesBufs, PathOf
<1>3. k \in RingKinds => k \in {"open", "stat", "close", "read", "write"}
  BY FsRequestAssumption
<1>4. /\ stage[q]' \in {"ring", "pool"} /\ fs_type[q]' = k /\ with_cb[q]' = TRUE
      /\ path[q]' = PathOf(k, TRUE) /\ bufs[q]' = b /\ nbufs[q]' = 0 /\ fs_result[q]' = "none"
      /\ stage[q]' = "ring" => /\ k \in RingKinds
                               /\ ptr[q]' = IF k = "stat" THEN "statx" ELSE "null"
                               /\ allocated[q]' = Owned(PathOf(k, TRUE), b)
                                                   \cup (IF k = "stat" THEN {"statx"} ELSE {})
      /\ stage[q]' = "pool" => /\ ptr[q]' = IF k = "readdir" THEN "dir" ELSE "null"
                               /\ allocated[q]' = Owned(PathOf(k, TRUE), b)
  BY ZenonT(40), <1>1 DEF Prepared, FieldTypes, StageTypes
<1>5. \A p \in FsReqs : p # q => Look(p)' = Look(p)
  BY ZenonT(40), <1>1 DEF Prepared, FieldTypes, StageTypes, Look
<1>6. FieldsAgree(q)'
  BY <1>2, <1>3, <1>4 DEF FieldsAgree
<1>7. FieldsOwn(q)'
  BY <1>2, <1>3, <1>4 DEF FieldsOwn, Owned
<1>8. FieldTypes'
  <2>1. Owned(PathOf(k, TRUE), b) \subseteq Memory
    BY DEF Owned, Memory
  <2>2. "statx" \in Memory
    BY DEF Memory
  <2>3. 0 \in 0..Entries
    BY DEF Entries
  <2>4. allocated' \in [FsReqs -> SUBSET Memory]
    <3>1. PICK A \in SUBSET Memory : allocated' = [allocated EXCEPT ![q] = A]
      BY <1>1, <2>1, <2>2
    <3> QED BY <3>1 DEF FieldTypes, StageTypes
  <2>5. stage' \in [FsReqs -> Stages]
    BY <1>1 DEF FieldTypes, StageTypes, Stages
  <2>6. ptr' \in [FsReqs -> {"null", "statbuf", "statx", "answer", "dents", "dir"}]
    BY <1>1 DEF FieldTypes, StageTypes
  <2> QED BY <1>1, <1>2, <2>3, <2>4, <2>5, <2>6 DEF Prepared, FieldTypes, StageTypes
<1> QED BY <1>5, <1>6, <1>7, <1>8, Elsewhere DEF Right

LEMMA GainedAre ==
  ASSUME NEW k \in FsKinds
  PROVE  /\ Gained(k) \subseteq Memory
         /\ "dents" \in Gained(k) <=> k = "scandir"
         /\ "entry1" \in Gained(k) <=> k = "scandir"
         /\ "entry2" \in Gained(k) <=> k = "scandir"
         /\ "names" \in Gained(k) <=> k = "readdir"
         /\ "answer" \in Gained(k) <=> k = "readlink"
         /\ "path" \notin Gained(k) /\ "bufs" \notin Gained(k) /\ "statx" \notin Gained(k)
BY EntriesAre DEF Gained, Memory

LEMMA PtrAfterIs ==
  ASSUME NEW k \in FsKinds, NEW p, NEW r
  PROVE  PtrAfter(k, p, r) = IF r # "ok" THEN p
                             ELSE IF k = "stat" THEN "statbuf"
                             ELSE IF k = "scandir" THEN "dents"
                             ELSE IF k = "readlink" THEN "answer"
                             ELSE IF k = "opendir" THEN "dir" ELSE p
<1>1. DOMAIN Results = {"stat", "scandir", "readlink", "opendir"}
      /\ Results["stat"] = "statbuf" /\ Results["scandir"] = "dents"
      /\ Results["readlink"] = "answer" /\ Results["opendir"] = "dir"
  BY DEF Results
<1> QED BY <1>1 DEF PtrAfter

LEMMA SubmitSyncFields ==
  ASSUME FieldTypes, \A p \in FsReqs : Right(p), NEW q \in FsReqs, NEW k \in FsKinds, SubmitSync(q, k)
  PROVE  FieldTypes' /\ \A p \in FsReqs : Right(p)'
<1>1. PICK b \in BufsOf(k, FALSE), r \in {"ok", "err"} :
       /\ fs_type' = [fs_type EXCEPT ![q] = k]
       /\ with_cb' = [with_cb EXCEPT ![q] = FALSE]
       /\ path' = [path EXCEPT ![q] = PathOf(k, FALSE)]
       /\ bufs' = [bufs EXCEPT ![q] = "null"]
       /\ nbufs' = [nbufs EXCEPT ![q] = 0]
       /\ fs_result' = [fs_result EXCEPT ![q] = r]
       /\ ptr' = [ptr EXCEPT ![q] = PtrAfter(k, IF k = "readdir" THEN "dir" ELSE "null", r)]
       /\ allocated' = [allocated EXCEPT ![q] = HeapAfter(k, Owned(PathOf(k, FALSE), b), b, r)]
       /\ stage' = [stage EXCEPT ![q] = "called"]
  BY DEF SubmitSync
<1> DEFINE A == HeapAfter(k, Owned(PathOf(k, FALSE), b), b, r)
           P == PtrAfter(k, IF k = "readdir" THEN "dir" ELSE "null", r)
           T == PathOf(k, FALSE)
<1>2. /\ T = IF ~TakesPath(k) THEN "null"
                             ELSE IF k = "mkdtemp" THEN "heap" ELSE "user"
      /\ b = "heap" => TakesBufs(k)
  BY <1>1 DEF BufsOf, PathOf
<1>3. /\ A \subseteq Memory /\ "bufs" \notin A /\ "statx" \notin A
      /\ "path" \in A <=> T = "heap"
      /\ "dents" \in A <=> k = "scandir" /\ r = "ok"
      /\ "entry1" \in A <=> k = "scandir" /\ r = "ok"
      /\ "entry2" \in A <=> k = "scandir" /\ r = "ok"
      /\ "names" \in A <=> k = "readdir" /\ r = "ok"
      /\ "answer" \in A <=> k = "readlink" /\ r = "ok"
  BY <1>2, GainedAre DEF HeapAfter, Owned, BufsFreed, Memory
<1>4. P = IF k = "readdir" THEN "dir" ELSE IF r # "ok" THEN "null"
          ELSE IF k = "stat" THEN "statbuf" ELSE IF k = "scandir" THEN "dents"
          ELSE IF k = "readlink" THEN "answer" ELSE IF k = "opendir" THEN "dir" ELSE "null"
  BY PtrAfterIs
<1> HIDE DEF A, P, T
<1>5. /\ stage[q]' = "called" /\ fs_type[q]' = k /\ with_cb[q]' = FALSE
      /\ path[q]' = T /\ bufs[q]' = "null" /\ nbufs[q]' = 0 /\ fs_result[q]' = r
      /\ ptr[q]' = P /\ allocated[q]' = A
  BY <1>1 DEF FieldTypes, StageTypes, A, P, T
<1>6. \A p \in FsReqs : p # q => Look(p)' = Look(p)
  BY <1>1 DEF FieldTypes, StageTypes, Look
<1>7. FieldsAgree(q)'
  BY <1>2, <1>4, <1>5 DEF FieldsAgree
<1>8. FieldsOwn(q)'
  <2>1. P = "dents" <=> k = "scandir" /\ r = "ok"
    BY <1>4
  <2>2. P = "answer" <=> k = "readlink" /\ r = "ok"
    BY <1>4
  <2>3. P # "statx"
    BY <1>4
  <2> QED BY <1>3, <1>5, <2>1, <2>2, <2>3 DEF FieldsOwn
<1>9. FieldTypes'
  <2>0. 0 \in 0..Entries
    BY DEF Entries
  <2>1. T \in {"null", "user", "heap"} /\ path' = [path EXCEPT ![q] = T]
    BY <1>1, <1>2 DEF T
  <2>3. P \in {"null", "statbuf", "statx", "answer", "dents", "dir"}
    BY <1>4
  <2>2. allocated' = [allocated EXCEPT ![q] = A] /\ ptr' = [ptr EXCEPT ![q] = P]
    BY <1>1 DEF A, P
  <2>4. /\ stage' = [stage EXCEPT ![q] = "called"] /\ fs_type' = [fs_type EXCEPT ![q] = k]
        /\ bufs' = [bufs EXCEPT ![q] = "null"] /\ nbufs' = [nbufs EXCEPT ![q] = 0]
        /\ fs_result' = [fs_result EXCEPT ![q] = r]
    BY <1>1
  <2>5. with_cb' \in [FsReqs -> BOOLEAN]
    BY <1>1 DEF FieldTypes, StageTypes
  <2>6. allocated' \in [FsReqs -> SUBSET Memory]
    BY <1>3, <2>2 DEF FieldTypes, StageTypes
  <2> QED BY <2>0, <2>1, <2>2, <2>3, <2>4, <2>5, <2>6 DEF FieldTypes, StageTypes, Stages
<1> QED BY <1>6, <1>7, <1>8, <1>9, Elsewhere DEF Right

LEMMA WorkFields ==
  ASSUME FieldTypes, \A p \in FsReqs : Right(p), NEW q \in FsReqs, uv__fs_work(q)
  PROVE  FieldTypes' /\ \A p \in FsReqs : Right(p)'
<1> DEFINE k == fs_type[q]
<1>1. PICK r \in {"ok", "err"} :
       /\ stage[q] = "running" /\ stage' = [stage EXCEPT ![q] = "worked"]
       /\ fs_result' = [fs_result EXCEPT ![q] = r]
       /\ ptr' = [ptr EXCEPT ![q] = PtrAfter(k, ptr[q], r)]
       /\ allocated' = [allocated EXCEPT ![q] = HeapAfter(k, allocated[q], bufs[q], r)]
       /\ bufs' = [bufs EXCEPT ![q] = IF TakesBufs(k) THEN "null" ELSE bufs[q]]
       /\ UNCHANGED <<fs_type, with_cb, path, nbufs>>
  BY DEF uv__fs_work, FieldTypes, StageTypes
<1> DEFINE A == HeapAfter(k, allocated[q], bufs[q], r)
           P == PtrAfter(k, ptr[q], r)
<1>2. /\ k \in FsKinds /\ allocated[q] \subseteq Memory /\ Right(q) /\ nbufs[q] = 0
      /\ ptr[q] = IF k = "readdir" THEN "dir" ELSE "null"
      /\ fs_result[q] = "none"
  BY <1>1 DEF FieldTypes, StageTypes, Right, FieldsAgree
<1>3. /\ A \subseteq Memory /\ "statx" \notin A
      /\ "bufs" \in A <=> bufs[q] = "heap" /\ ~TakesBufs(k)
      /\ "path" \in A <=> path[q] = "heap"
      /\ "dents" \in A <=> k = "scandir" /\ r = "ok"
      /\ "entry1" \in A <=> k = "scandir" /\ r = "ok"
      /\ "entry2" \in A <=> k = "scandir" /\ r = "ok"
      /\ "names" \in A <=> k = "readdir" /\ r = "ok"
      /\ "answer" \in A <=> k = "readlink" /\ r = "ok"
  BY <1>2, GainedAre DEF HeapAfter, BufsFreed, Right, FieldsOwn, Memory
<1>4. P = IF k = "readdir" THEN "dir" ELSE IF r # "ok" THEN "null"
          ELSE IF k = "stat" THEN "statbuf" ELSE IF k = "scandir" THEN "dents"
          ELSE IF k = "readlink" THEN "answer" ELSE IF k = "opendir" THEN "dir" ELSE "null"
  BY <1>2, PtrAfterIs
<1> HIDE DEF A, P
<1>5. /\ stage[q]' = "worked" /\ fs_type[q]' = k /\ with_cb[q]' = with_cb[q]
      /\ path[q]' = path[q] /\ bufs[q]' = (IF TakesBufs(k) THEN "null" ELSE bufs[q])
      /\ nbufs[q]' = 0 /\ fs_result[q]' = r /\ ptr[q]' = P /\ allocated[q]' = A
  BY <1>1, <1>2 DEF FieldTypes, StageTypes, A, P
<1>6. \A p \in FsReqs : p # q => Look(p)' = Look(p)
  BY <1>1 DEF FieldTypes, StageTypes, Look
<1>7. FieldsAgree(q)'
  BY <1>2, <1>4, <1>5 DEF FieldsAgree, Right
<1>8. FieldsOwn(q)'
  BY <1>2, <1>3, <1>4, <1>5 DEF FieldsOwn, FieldsAgree, Right
<1>9. FieldTypes'
  <2>1. allocated' = [allocated EXCEPT ![q] = A] /\ ptr' = [ptr EXCEPT ![q] = P]
    BY <1>1 DEF A, P
  <2> QED BY <1>1, <1>3, <1>4, <2>1 DEF FieldTypes, StageTypes, Stages
<1> QED BY <1>6, <1>7, <1>8, <1>9, Elsewhere DEF Right

\* The steps of a request that only move it on.
LEMMA MovedFields ==
  ASSUME FieldTypes, \A p \in FsReqs : Right(p), NEW q \in FsReqs,
         StartWork(q) \/ uv_cancel(q) \/ uv__fs_done(q)
  PROVE  FieldTypes' /\ \A p \in FsReqs : Right(p)'
<1>1. /\ UNCHANGED <<fs_type, with_cb, path, bufs, ptr, nbufs, allocated>>
      /\ \/ fs_result' = fs_result
         \/ fs_result' = [fs_result EXCEPT ![q] = "cancelled"] /\ stage'[q] = "worked"
      /\ \E s \in Stages : stage' = [stage EXCEPT ![q] = s]
      /\ stage[q] \in {"pool", "running", "worked"} /\ stage'[q] \in {"running", "worked", "called"}
      /\ stage'[q] = "running" => stage[q] = "pool" /\ fs_result' = fs_result
      /\ stage[q] = "worked" => fs_result' = fs_result
  BY DEF StartWork, uv_cancel, uv__fs_done, reqFields, FieldTypes, StageTypes, Stages
<1>2. \A p \in FsReqs : p # q => Look(p)' = Look(p)
  BY <1>1 DEF FieldTypes, StageTypes, Look
<1>3. FieldsAgree(q) /\ FieldsOwn(q)
  BY DEF Right
<1>4. FieldsAgree(q)'
  BY <1>1, <1>3 DEF FieldsAgree
<1>5. fs_result'[q] = "ok" <=> fs_result[q] = "ok"
  BY <1>1, <1>3 DEF FieldsAgree, FieldTypes, StageTypes
<1>6. FieldsOwn(q)'
  BY <1>1, <1>3, <1>5 DEF FieldsOwn
<1>7. FieldTypes'
  BY <1>1 DEF FieldTypes, StageTypes
<1> QED BY <1>2, <1>4, <1>6, <1>7, Elsewhere DEF Right

LEMMA ReapFields ==
  ASSUME ~StatxLacking, FieldTypes, \A p \in FsReqs : Right(p), Reap,
         NEW q \in FsReqs, q = Head(seen), stage[q] = "ring"
  PROVE  FieldTypes' /\ \A p \in FsReqs : Right(p)'
<1>0. q \in FsReqs /\ stage[q] = "ring" /\ FieldsAgree(q) /\ FieldsOwn(q)
      /\ UNCHANGED <<fs_type, with_cb, path, bufs, nbufs>>
  BY DEF Right, Reap
<1>1. \/ /\ stage' = [stage EXCEPT ![q] = "pool"] /\ fs_type[q] # "stat"
         /\ UNCHANGED <<ptr, allocated, fs_result>>
      \/ /\ stage' = [stage EXCEPT ![q] = "called"]
         /\ allocated' = [allocated EXCEPT ![q] = allocated[q] \ {"statx"}]
         /\ \E r \in {"ok", "err"} :
              /\ fs_result' = [fs_result EXCEPT ![q] = r]
              /\ ptr' = [ptr EXCEPT ![q] = IF fs_type[q] = "stat" /\ r = "ok" THEN "statbuf"
                                           ELSE "null"]
  BY DEF Reap, StatxFreed
<1>2. \A p \in FsReqs : p # q => Look(p)' = Look(p)
  BY <1>0, <1>1 DEF FieldTypes, StageTypes, Look
<1>3. CASE /\ stage' = [stage EXCEPT ![q] = "pool"] /\ fs_type[q] # "stat"
           /\ UNCHANGED <<ptr, allocated, fs_result>>
  <2>1. stage'[q] = "pool" /\ FieldTypes'
    BY <1>0, <1>3 DEF FieldTypes, StageTypes, Stages
  <2>2. FieldsAgree(q)' /\ FieldsOwn(q)'
    BY <1>0, <1>3, <2>1 DEF FieldsAgree, FieldsOwn
  <2> QED BY <1>2, <2>1, <2>2, Elsewhere DEF Right
<1>4. ASSUME NEW r \in {"ok", "err"},
             stage' = [stage EXCEPT ![q] = "called"],
             allocated' = [allocated EXCEPT ![q] = allocated[q] \ {"statx"}],
             fs_result' = [fs_result EXCEPT ![q] = r],
             ptr' = [ptr EXCEPT ![q] = IF fs_type[q] = "stat" /\ r = "ok" THEN "statbuf" ELSE "null"]
      PROVE  FieldTypes' /\ \A p \in FsReqs : Right(p)'
  <2>1. /\ stage'[q] = "called" /\ fs_result'[q] = r /\ allocated'[q] = allocated[q] \ {"statx"}
        /\ ptr'[q] = IF fs_type[q] = "stat" /\ r = "ok" THEN "statbuf" ELSE "null"
    BY <1>0, <1>4 DEF FieldTypes, StageTypes
  <2>2. ptr[q] \in {"statx", "null"} /\ fs_type[q] # "readdir"
    BY <1>0 DEF FieldsAgree
  <2>3. FieldsAgree(q)'
    BY <1>0, <2>1, <2>2 DEF FieldsAgree
  <2>4. FieldsOwn(q)'
    BY <1>0, <2>1, <2>2 DEF FieldsOwn
  <2>5. FieldTypes'
    <3>1. allocated[q] \ {"statx"} \in SUBSET Memory
      BY <1>0 DEF FieldTypes, StageTypes
    <3>2. allocated' \in [FsReqs -> SUBSET Memory]
      BY <1>4, <3>1 DEF FieldTypes, StageTypes
    <3> QED BY <1>0, <1>4, <3>2 DEF FieldTypes, StageTypes, Stages
  <2> QED BY <1>2, <2>3, <2>4, <2>5, Elsewhere DEF Right
<1> QED BY <1>1, <1>3, <1>4

LEMMA ScandirNextFields ==
  ASSUME FieldTypes, \A p \in FsReqs : Right(p), NEW q \in FsReqs, uv_fs_scandir_next(q), wild = FALSE
  PROVE  FieldTypes' /\ (\A p \in FsReqs : Right(p)') /\ wild' = FALSE
<1>0. /\ FieldsAgree(q) /\ FieldsOwn(q) /\ stage[q] = "called" /\ fs_type[q] = "scandir"
      /\ ptr[q] = "dents" /\ allocated[q] \subseteq Memory /\ nbufs[q] \in 0..2
      /\ UNCHANGED <<stage, fs_type, with_cb, path, bufs, fs_result>>
  BY DEF Right, uv_fs_scandir_next, FieldTypes, StageTypes, Entries
<1> DEFINE last == IF nbufs[q] > 0 THEN {Entry(nbufs[q])} ELSE {}
<1>1. last = IF nbufs[q] = 0 THEN {} ELSE IF nbufs[q] = 1 THEN {"entry1"} ELSE {"entry2"}
  BY <1>0, EntriesAre
<1>2. CASE nbufs[q] = 2
  <2>1. /\ allocated' = [allocated EXCEPT ![q] = @ \ {"entry2", "dents"}]
        /\ wild' = (wild \/ ~({"entry2", "dents"} \subseteq allocated[q]))
        /\ ptr' = [ptr EXCEPT ![q] = "null"] /\ nbufs' = nbufs
    BY <1>1, <1>2 DEF uv_fs_scandir_next, Free, Entries
  <2>2. wild' = FALSE
    BY <1>0, <2>1 DEF FieldsOwn
  <2>3. /\ allocated'[q] = allocated[q] \ {"entry2", "dents"} /\ ptr'[q] = "null" /\ nbufs'[q] = 2
        /\ \A p \in FsReqs : p # q => Look(p)' = Look(p)
    BY <1>0, <1>2, <2>1 DEF FieldTypes, StageTypes, Look
  <2>4. FieldsAgree(q)'
    BY <1>0, <2>3 DEF FieldsAgree
  <2>5. FieldsOwn(q)'
    BY <1>0, <1>2, <2>3 DEF FieldsOwn
  <2>6. FieldTypes'
    BY <1>0, <2>1 DEF FieldTypes, StageTypes
  <2> QED BY <2>2, <2>3, <2>4, <2>5, <2>6, Elsewhere DEF Right
<1>3. CASE nbufs[q] # 2
  <2>1. /\ allocated' = [allocated EXCEPT ![q] = @ \ last]
        /\ wild' = (wild \/ ~(last \subseteq allocated[q]))
        /\ nbufs' = [nbufs EXCEPT ![q] = @ + 1] /\ ptr' = ptr
    BY <1>3 DEF uv_fs_scandir_next, Free, Entries
  <2>2. wild' = FALSE
    <3>1. CASE nbufs[q] = 0
      BY <1>1, <2>1, <3>1
    <3>2. CASE nbufs[q] = 1
      <4>1. last = {"entry1"}
        BY <1>1, <3>2
      <4>2. "entry1" \in allocated[q]
        BY <1>0, <3>2 DEF FieldsOwn
      <4> QED BY <2>1, <4>1, <4>2
    <3>3. nbufs[q] = 0 \/ nbufs[q] = 1
      BY <1>0, <1>3
    <3> QED BY <3>1, <3>2, <3>3
  <2>3. /\ allocated'[q] = allocated[q] \ last /\ nbufs'[q] = nbufs[q] + 1
        /\ \A p \in FsReqs : p # q => Look(p)' = Look(p)
    BY <1>0, <2>1 DEF FieldTypes, StageTypes, Look
  <2>4. FieldsAgree(q)'
    BY <1>0, <2>1, <2>3 DEF FieldsAgree
  <2>5. FieldsOwn(q)'
    <3>1. CASE nbufs[q] = 0
      <4>1. allocated'[q] = allocated[q] /\ nbufs'[q] = 1
        BY <1>1, <2>3, <3>1
      <4> QED BY <1>0, <2>1, <3>1, <4>1 DEF FieldsOwn
    <3>2. CASE nbufs[q] = 1
      <4>1. allocated'[q] = allocated[q] \ {"entry1"} /\ nbufs'[q] = 2
        BY <1>1, <2>3, <3>2
      <4> QED BY <1>0, <2>1, <3>2, <4>1 DEF FieldsOwn
    <3> QED BY <1>0, <1>3, <3>1, <3>2
  <2>6. FieldTypes'
    <3>1. nbufs' \in [FsReqs -> 0..Entries]
      BY <1>0, <1>3, <2>1 DEF FieldTypes, StageTypes, Entries
    <3>2. allocated' \in [FsReqs -> SUBSET Memory]
      BY <2>1 DEF FieldTypes, StageTypes
    <3> QED BY <1>0, <2>1, <3>1, <3>2 DEF FieldTypes, StageTypes
  <2> QED BY <2>2, <2>3, <2>4, <2>5, <2>6, Elsewhere DEF Right
<1> QED BY <1>2, <1>3

\* uv_fs_req_cleanup frees what there is, all of it.
LEMMA CleanupFields ==
  ASSUME FieldTypes, \A p \in FsReqs : Right(p), NEW q \in FsReqs, uv_fs_req_cleanup(q), wild = FALSE
  PROVE  FieldTypes' /\ (\A p \in FsReqs : Right(p)') /\ wild' = FALSE
<1> DEFINE freed == PathFreed(q) \cup NamesFreed(q) \cup DentsFreed(q) \cup BufsOfCleanup(q)
                    \cup PtrFreed(q)
<1>0. FieldsAgree(q) /\ FieldsOwn(q) /\ stage[q] = "called" /\ allocated[q] \subseteq Memory
      /\ bufs[q] \in {"null", "small", "heap"} /\ path[q] \in {"null", "user", "heap"}
      /\ ptr[q] \in {"null", "statbuf", "statx", "answer", "dents", "dir"} /\ nbufs[q] \in 0..2
  BY DEF Right, uv_fs_req_cleanup, FieldTypes, StageTypes, Entries
<1>1. /\ allocated' = [allocated EXCEPT ![q] = @ \ freed]
      /\ wild' = (wild \/ ~(freed \subseteq allocated[q]))
      /\ path' = [path EXCEPT ![q] = "null"] /\ bufs' = [bufs EXCEPT ![q] = "null"]
      /\ ptr' = [ptr EXCEPT ![q] = "null"] /\ stage' = [stage EXCEPT ![q] = "free"]
      /\ nbufs' = [nbufs EXCEPT ![q] = 0] /\ fs_type' = [fs_type EXCEPT ![q] = "open"]
      /\ with_cb' = [with_cb EXCEPT ![q] = FALSE] /\ fs_result' = [fs_result EXCEPT ![q] = "none"]
  BY DEF uv_fs_req_cleanup, Free
<1>2. freed = allocated[q]
  <2>1. PathFreed(q) = {x \in allocated[q] : x = "path"}
    BY <1>0 DEF PathFreed, FieldsAgree, FieldsOwn
  <2>2. NamesFreed(q) = {x \in allocated[q] : x = "names"}
    BY <1>0 DEF NamesFreed, FieldsAgree, FieldsOwn
  <2>3. DentsFreed(q) = {x \in allocated[q] : x \in {"dents", "entry1", "entry2"}}
    <3>1. CASE ptr[q] # "dents"
      BY <1>0, <3>1 DEF DentsFreed, FieldsOwn
    <3>2. CASE ptr[q] = "dents" /\ nbufs[q] <= 1
      <4>1. DentsFreed(q) = {"dents", "entry1", "entry2"}
        BY <1>0, <3>2, EntriesAre DEF DentsFreed
      <4> QED BY <1>0, <3>2, <4>1 DEF FieldsOwn
    <3>3. CASE ptr[q] = "dents" /\ ~(nbufs[q] <= 1)
      <4>1. DentsFreed(q) = {"dents", "entry2"}
        BY <1>0, <3>3, EntriesAre DEF DentsFreed
      <4> QED BY <1>0, <3>3, <4>1 DEF FieldsOwn
    <3> QED BY <3>1, <3>2, <3>3
  <2>4. BufsOfCleanup(q) = {x \in allocated[q] : x = "bufs"}
    BY <1>0 DEF BufsOfCleanup, FieldsOwn
  <2>5. PtrFreed(q) = {x \in allocated[q] : x \in {"statx", "answer"}}
    BY <1>0 DEF PtrFreed, FieldsAgree, FieldsOwn
  <2>6. \A x \in allocated[q] : x \in {"path", "bufs", "statx", "answer", "dents", "names", "entry1", "entry2"}
    BY <1>0 DEF Memory
  <2> QED BY <2>1, <2>2, <2>3, <2>4, <2>5, <2>6
<1> HIDE DEF freed
<1>3. wild' = FALSE
  BY <1>1, <1>2
<1>4. /\ allocated'[q] = {} /\ path'[q] = "null" /\ bufs'[q] = "null" /\ ptr'[q] = "null"
      /\ stage'[q] = "free" /\ nbufs'[q] = 0 /\ fs_type'[q] = "open" /\ ~with_cb'[q]
      /\ fs_result'[q] = "none"
      /\ \A p \in FsReqs : p # q => Look(p)' = Look(p)
  BY <1>1, <1>2 DEF FieldTypes, StageTypes, Look
<1>5. FieldsAgree(q)' /\ FieldsOwn(q)'
  BY <1>4 DEF FieldsAgree, FieldsOwn
<1>6. FieldTypes'
  <2>1. allocated' \in [FsReqs -> SUBSET Memory]
    BY <1>1 DEF FieldTypes, StageTypes
  <2>2. with_cb' \in [FsReqs -> BOOLEAN]
    BY <1>1 DEF FieldTypes, StageTypes
  <2>3. nbufs' \in [FsReqs -> 0..Entries]
    BY <1>1 DEF FieldTypes, StageTypes, Entries
  <2>4. "open" \in FsKinds
    BY DEF FsKinds
  <2> QED BY <1>1, <2>1, <2>2, <2>3, <2>4 DEF FieldTypes, StageTypes, Stages
<1> QED BY <1>3, <1>4, <1>5, <1>6, Elsewhere DEF Right

-----------------------------------------------------------------------------
(* The ring.                                                                *)

LEMMA RingStays ==
  ASSUME RingTypes, RingPlaces, UNCHANGED ringVars,
         \A p \in FsReqs : stage'[p] = "ring" <=> stage[p] = "ring"
  PROVE  RingTypes' /\ RingPlaces'
<1>1. UNCHANGED <<sq, in_kernel, cq, overflow, seen, reaping>> /\ Unhandled' = Unhandled
  BY DEF ringVars, Unhandled
<1> QED BY <1>1 DEF RingTypes, RingPlaces, InOnePlace

LEMMA SubmitRing ==
  ASSUME StageTypes, RingTypes, RingPlaces, NEW q \in FsReqs, stage[q] = "free", ToRing(q),
         stage' = [stage EXCEPT ![q] = "ring"]
  PROVE  RingTypes' /\ RingPlaces'
<1>1. /\ sq' = Append(sq, q) /\ UNCHANGED <<in_kernel, cq, overflow, seen, reaping>>
      /\ Unhandled' = Unhandled
  BY DEF ToRing, Unhandled
<1>2. /\ stage'[q] = "ring" /\ \A p \in FsReqs : p # q => stage'[p] = stage[p]
  BY DEF StageTypes
<1>3. /\ ~Linked(sq, q) /\ q \notin in_kernel /\ ~Linked(seen, q) /\ ~Linked(Unhandled, q)
      /\ ~Linked(overflow, q)
  BY DEF RingPlaces, InOnePlace
<1>4. /\ sq' \in Seq(FsReqs) /\ Distinct(sq') /\ \A m : Linked(sq', m) <=> Linked(sq, m) \/ m = q
  BY <1>1, <1>3, AppendDistinct DEF RingTypes, RingPlaces
<1>5. ASSUME NEW p \in FsReqs PROVE InOnePlace(p)'
  BY <1>1, <1>2, <1>3, <1>4 DEF RingPlaces, InOnePlace
<1> QED BY <1>1, <1>4, <1>5 DEF RingTypes, RingPlaces

LEMMA KernelTakesRing ==
  ASSUME RingTypes, RingPlaces, KernelTakes
  PROVE  RingTypes' /\ RingPlaces'
<1>1. /\ sq # <<>> /\ sq' = Tail(sq) /\ in_kernel' = in_kernel \cup {Head(sq)}
      /\ UNCHANGED <<stage, cq, overflow, seen, reaping>> /\ Unhandled' = Unhandled
  BY DEF KernelTakes, Unhandled
<1>2. /\ Head(sq) \in FsReqs /\ Linked(sq, Head(sq)) /\ sq' \in Seq(FsReqs) /\ Distinct(sq')
      /\ \A m : Linked(sq', m) <=> Linked(sq, m) /\ m # Head(sq)
  BY <1>1, TailDistinct DEF RingTypes, RingPlaces
<1>3. ASSUME NEW p \in FsReqs PROVE InOnePlace(p)'
  BY <1>1, <1>2 DEF RingPlaces, InOnePlace
<1> QED BY <1>1, <1>2, <1>3 DEF RingTypes, RingPlaces

LEMMA KernelCompletesRing ==
  ASSUME RingTypes, RingPlaces, NEW q \in FsReqs, KernelCompletes(q)
  PROVE  RingTypes' /\ RingPlaces'
<1>1. /\ q \in in_kernel /\ in_kernel' = in_kernel \ {q}
      /\ UNCHANGED <<stage, sq, seen, reaping>>
      /\ \/ cq' = Append(cq, q) /\ overflow' = overflow
         \/ cq' = cq /\ overflow' = Append(overflow, q)
  BY DEF KernelCompletes
<1>2. ~Linked(Unhandled, q) /\ ~Linked(overflow, q) /\ ~Linked(sq, q) /\ ~Linked(seen, q)
  BY <1>1 DEF RingPlaces, InOnePlace
<1>3. CASE cq' = Append(cq, q) /\ overflow' = overflow
  <2>1. /\ cq' \in Seq(FsReqs) /\ Len(cq') = Len(cq) + 1 /\ Len(cq) \in Nat
    BY <1>3, AppendProperties, LenProperties DEF RingTypes
  <2>2. Unhandled' = Append(Unhandled, q)
    BY <1>1, <1>3, <2>1, AppendToEnd DEF RingTypes, Unhandled
  <2>3. Unhandled \in Seq(FsReqs)
    <3>1. \A i \in reaping + 1..Len(cq) : cq[i] \in FsReqs
      BY <2>1, ElementOfSeq DEF RingTypes
    <3> QED BY <2>1, <3>1, SubSeqProperties DEF RingTypes, Unhandled
  <2>4. /\ Distinct(Unhandled')
        /\ \A m : Linked(Unhandled', m) <=> Linked(Unhandled, m) \/ m = q
    BY <1>2, <2>2, <2>3, AppendDistinct DEF RingPlaces
  <2>5. ASSUME NEW p \in FsReqs PROVE InOnePlace(p)'
    BY <1>1, <1>2, <1>3, <2>4 DEF RingPlaces, InOnePlace
  <2>6. RingTypes'
    BY <1>1, <1>3, <2>1 DEF RingTypes
  <2> QED BY <1>1, <1>3, <2>4, <2>5, <2>6 DEF RingPlaces
<1>4. CASE cq' = cq /\ overflow' = Append(overflow, q)
  <2>1. /\ overflow' \in Seq(FsReqs) /\ Distinct(overflow')
        /\ \A m : Linked(overflow', m) <=> Linked(overflow, m) \/ m = q
    BY <1>2, <1>4, AppendDistinct DEF RingTypes, RingPlaces
  <2>2. Unhandled' = Unhandled
    BY <1>1, <1>4 DEF Unhandled
  <2>3. ASSUME NEW p \in FsReqs PROVE InOnePlace(p)'
    BY <1>1, <1>2, <2>1, <2>2 DEF RingPlaces, InOnePlace
  <2> QED BY <1>1, <1>4, <2>1, <2>2, <2>3 DEF RingTypes, RingPlaces
<1> QED BY <1>1, <1>3, <1>4

LEMMA PollRing ==
  ASSUME RingTypes, RingPlaces, PollIoUring
  PROVE  RingTypes' /\ RingPlaces'
<1>1. /\ reaping = 0 /\ seen' = cq /\ reaping' = Len(cq)
      /\ UNCHANGED <<stage, sq, in_kernel, cq, overflow>>
  BY DEF PollIoUring
<1>2. Len(cq) \in Nat /\ seen = <<>> /\ (Len(cq) = 0 => cq = <<>>)
  BY <1>1, LenProperties, EmptySeq DEF RingTypes
<1>3. Unhandled = cq
  BY <1>1, SubSeqFull DEF Unhandled, RingTypes
<1>4. Unhandled' = <<>>
  BY <1>1, <1>2, SubSeqEmpty DEF Unhandled
<1>5. Distinct(<<>>)
  BY EmptySeq DEF Distinct
<1>6. ASSUME NEW p \in FsReqs PROVE InOnePlace(p)'
  BY <1>1, <1>2, <1>3, <1>4, EmptyLinksNothing DEF RingPlaces, InOnePlace
<1>7. RingTypes'
  BY <1>1, <1>2 DEF RingTypes
<1> QED BY <1>1, <1>3, <1>4, <1>5, <1>6, <1>7 DEF RingPlaces

LEMMA ReapRing ==
  ASSUME StageTypes, RingTypes, RingPlaces, Reap
  PROVE  /\ Head(seen) \in FsReqs /\ stage[Head(seen)] = "ring"
         /\ RingTypes' /\ RingPlaces'
<1>1. /\ reaping > 0 /\ seen # <<>> /\ seen' = Tail(seen)
      /\ UNCHANGED <<sq, in_kernel, cq, overflow, reaping>> /\ Unhandled' = Unhandled
      /\ \/ stage' = [stage EXCEPT ![Head(seen)] = "pool"]
         \/ stage' = [stage EXCEPT ![Head(seen)] = "called"]
  BY DEF Reap, Unhandled
<1>2. /\ Head(seen) \in FsReqs /\ Linked(seen, Head(seen)) /\ seen' \in Seq(FsReqs)
      /\ Distinct(seen') /\ \A m : Linked(seen', m) <=> Linked(seen, m) /\ m # Head(seen)
  BY <1>1, TailDistinct DEF RingTypes, RingPlaces
<1>3. /\ stage[Head(seen)] = "ring" /\ stage'[Head(seen)] # "ring"
      /\ \A p \in FsReqs : p # Head(seen) => stage'[p] = stage[p]
  BY <1>1, <1>2 DEF RingPlaces, InOnePlace, StageTypes
<1>4. ASSUME NEW p \in FsReqs PROVE InOnePlace(p)'
  BY <1>1, <1>2, <1>3 DEF RingPlaces, InOnePlace
<1>5. RingTypes'
  BY <1>1, <1>2 DEF RingTypes
<1> QED BY <1>1, <1>2, <1>3, <1>4, <1>5 DEF RingPlaces

LEMMA ReapedRing ==
  ASSUME RingTypes, RingPlaces, Reaped
  PROVE  RingTypes' /\ RingPlaces'
<1> DEFINE rest == Unhandled \o overflow
           fits == IF Len(rest) < CqRoom THEN Len(rest) ELSE CqRoom
<1>1. /\ seen = <<>> /\ reaping' = 0 /\ cq' = SubSeq(rest, 1, fits)
      /\ overflow' = SubSeq(rest, fits + 1, Len(rest))
      /\ UNCHANGED <<stage, sq, in_kernel, seen>>
  BY DEF Reaped, Unhandled
<1>2. Unhandled \in Seq(FsReqs)
  <2>1. Len(cq) \in Nat
    BY LenProperties DEF RingTypes
  <2>2. \A i \in reaping + 1..Len(cq) : cq[i] \in FsReqs
    BY <2>1, ElementOfSeq DEF RingTypes
  <2> QED BY <2>1, <2>2, SubSeqProperties DEF RingTypes, Unhandled
<1>3. \A m : Linked(Unhandled, m) => m \in FsReqs /\ ~Linked(overflow, m)
  <2> SUFFICES ASSUME NEW m, Linked(Unhandled, m) PROVE m \in FsReqs /\ ~Linked(overflow, m)
    OBVIOUS
  <2>1. m \in FsReqs
    BY <1>2, ElementOfSeq DEF Linked
  <2> QED BY <2>1 DEF RingPlaces, InOnePlace
<1>4. /\ rest \in Seq(FsReqs) /\ Distinct(rest)
      /\ \A m : Linked(rest, m) <=> Linked(Unhandled, m) \/ Linked(overflow, m)
  BY <1>2, <1>3, ConcatDistinct DEF RingTypes, RingPlaces
<1> HIDE DEF rest
<1>5. Len(rest) \in Nat /\ fits \in 0..Len(rest)
  BY <1>4, LenProperties, FsRequestAssumption
<1> HIDE DEF fits
<1>6. /\ cq' \in Seq(FsReqs) /\ Distinct(cq') /\ overflow' \in Seq(FsReqs) /\ Distinct(overflow')
      /\ \A m : Linked(rest, m) <=> Linked(cq', m) \/ Linked(overflow', m)
      /\ \A m : Linked(cq', m) => ~Linked(overflow', m)
  BY <1>1, <1>4, <1>5, SplitDistinct
<1>7. Unhandled' = cq' /\ Len(cq') \in Nat
  <2>1. SubSeq(cq', 1, Len(cq')) = cq' /\ Len(cq') \in Nat
    BY <1>6, SubSeqFull, LenProperties
  <2>2. Unhandled' = SubSeq(cq', reaping' + 1, Len(cq'))
    BY DEF Unhandled
  <2>3. reaping' + 1 = 1
    BY <1>1
  <2> QED BY <2>1, <2>2, <2>3, Zenon
<1>8. RingTypes'
  BY <1>1, <1>6, <1>7 DEF RingTypes
<1>9. ASSUME NEW p \in FsReqs PROVE InOnePlace(p)'
  <2>1. /\ Linked(Unhandled', p) \/ Linked(overflow', p) <=> Linked(Unhandled, p) \/ Linked(overflow, p)
        /\ Linked(Unhandled', p) => ~Linked(overflow', p)
    BY <1>4, <1>6, <1>7
  <2> QED BY <1>1, <2>1 DEF RingPlaces, InOnePlace
<1> QED BY <1>1, <1>6, <1>7, <1>8, <1>9 DEF RingPlaces

-----------------------------------------------------------------------------
(* The counters.                                                            *)

LEMMA StageMoves ==
  ASSUME StageTypes, IsFiniteSet(InRing), IsFiniteSet(ToCallBack), NEW q \in FsReqs,
         NEW s \in Stages, stage' = [stage EXCEPT ![q] = s]
  PROVE  /\ IsFiniteSet(InRing') /\ IsFiniteSet(ToCallBack')
         /\ Cardinality(InRing') =
              IF s = "ring" THEN IF stage[q] = "ring" THEN Cardinality(InRing) ELSE Cardinality(InRing) + 1
              ELSE IF stage[q] = "ring" THEN Cardinality(InRing) - 1 ELSE Cardinality(InRing)
         /\ Cardinality(ToCallBack') =
              IF s \in {"free", "called"}
                THEN IF stage[q] \in {"free", "called"} THEN Cardinality(ToCallBack)
                                                        ELSE Cardinality(ToCallBack) - 1
              ELSE IF stage[q] \in {"free", "called"} THEN Cardinality(ToCallBack) + 1
                                                      ELSE Cardinality(ToCallBack)
<1>1. stage'[q] = s /\ stage[q] \in Stages /\ \A p \in FsReqs : p # q => stage'[p] = stage[p]
  BY DEF StageTypes
<1>2. q \in InRing <=> stage[q] = "ring"
  BY DEF InRing
<1>3. q \in ToCallBack <=> stage[q] \notin {"free", "called"}
  BY <1>1 DEF ToCallBack, Stages
<1>4. InRing' = IF s = "ring" THEN InRing \cup {q} ELSE InRing \ {q}
  BY <1>1 DEF InRing
<1>5. ToCallBack' = IF s \in {"free", "called"} THEN ToCallBack \ {q} ELSE ToCallBack \cup {q}
  BY <1>1 DEF ToCallBack, Stages
<1>6. /\ IsFiniteSet(InRing \cup {q})
      /\ Cardinality(InRing \cup {q}) = IF q \in InRing THEN Cardinality(InRing) ELSE Cardinality(InRing) + 1
      /\ IsFiniteSet(InRing \ {q})
      /\ Cardinality(InRing \ {q}) = IF q \in InRing THEN Cardinality(InRing) - 1 ELSE Cardinality(InRing)
  BY FS_AddElement, FS_RemoveElement
<1>7. /\ IsFiniteSet(ToCallBack \cup {q})
      /\ Cardinality(ToCallBack \cup {q}) = IF q \in ToCallBack THEN Cardinality(ToCallBack)
                                            ELSE Cardinality(ToCallBack) + 1
      /\ IsFiniteSet(ToCallBack \ {q})
      /\ Cardinality(ToCallBack \ {q}) = IF q \in ToCallBack THEN Cardinality(ToCallBack) - 1
                                         ELSE Cardinality(ToCallBack)
  BY FS_AddElement, FS_RemoveElement
<1>8. CASE s = "ring"
  BY <1>2, <1>3, <1>4, <1>5, <1>6, <1>7, <1>8
<1>9. CASE s \in {"free", "called"}
  BY <1>2, <1>3, <1>4, <1>5, <1>6, <1>7, <1>9
<1>10. CASE s \notin {"ring", "free", "called"}
  BY <1>2, <1>3, <1>4, <1>5, <1>6, <1>7, <1>10
<1> QED BY <1>8, <1>9, <1>10

-----------------------------------------------------------------------------
(* The steps, and what follows.                                             *)

LEMMA StagesKept ==
  ASSUME StageTypes, [FsRequestNext]_fsRequestVars
  PROVE  StageTypes'
<1> USE DEF StageTypes, Stages
<1>1. ASSUME NEW q \in FsReqs, NEW k \in FsKinds, SubmitAsync(q, k) \/ SubmitSync(q, k)
      PROVE  StageTypes'
  BY <1>1 DEF SubmitAsync, SubmitSync
<1>2. ASSUME NEW q \in FsReqs,
             \/ StartWork(q) \/ uv__fs_work(q) \/ uv_cancel(q) \/ uv__fs_done(q)
             \/ uv_fs_scandir_next(q) \/ uv_fs_req_cleanup(q) \/ KernelCompletes(q)
      PROVE  StageTypes'
  BY <1>2 DEF StartWork, uv__fs_work, uv_cancel, uv__fs_done, uv_fs_scandir_next, uv_fs_req_cleanup,
              KernelCompletes
<1>3. CASE RingStep
  BY <1>3 DEF RingStep, KernelTakes, PollIoUring, Reap, Reaped
<1>4. CASE UNCHANGED fsRequestVars
  BY <1>4 DEF fsRequestVars
<1> QED BY <1>1, <1>2, <1>3, <1>4 DEF FsRequestNext, FsRequestStep

LEMMA RingStepKeeps ==
  ASSUME RingInv, [FsRequestNext]_fsRequestVars
  PROVE  RingInv'
<1> USE DEF RingInv
<1>0. StageTypes'
  BY StagesKept
<1>m. /\ Counts <=> /\ IsFiniteSet(InRing) /\ in_flight = Cardinality(InRing)
                    /\ IsFiniteSet(ToCallBack) /\ active_reqs = Cardinality(ToCallBack)
      /\ Cardinality(InRing) \in Nat /\ Cardinality(ToCallBack) \in Nat
  BY FS_CardinalityType DEF Counts
<1>k. ASSUME UNCHANGED <<stage, in_flight, active_reqs>> PROVE Counts'
  BY <1>k, <1>m DEF Counts, InRing, ToCallBack
<1>1. ASSUME NEW q \in FsReqs, NEW k \in FsKinds, SubmitAsync(q, k) PROVE RingInv'
  <2>1. /\ stage[q] = "free" /\ active_reqs' = active_reqs + 1
        /\ \/ stage' = [stage EXCEPT ![q] = "ring"] /\ ToRing(q)
           \/ stage' = [stage EXCEPT ![q] = "pool"] /\ UNCHANGED ringVars
    BY <1>1 DEF SubmitAsync, Prepared
  <2>2. CASE stage' = [stage EXCEPT ![q] = "ring"] /\ ToRing(q)
    <3>1. RingTypes' /\ RingPlaces'
      BY <2>1, <2>2, SubmitRing
    <3>2. in_flight' = in_flight + 1
      BY <2>2 DEF ToRing
    <3>3. Counts'
      BY <1>m, <2>1, <2>2, <3>2, StageMoves DEF Counts, Stages
    <3> QED BY <1>0, <3>1, <3>3
  <2>3. CASE stage' = [stage EXCEPT ![q] = "pool"] /\ UNCHANGED ringVars
    <3>1. RingTypes' /\ RingPlaces'
      BY <2>1, <2>3, RingStays DEF StageTypes
    <3>2. in_flight' = in_flight
      BY <2>3 DEF ringVars
    <3>3. Counts'
      BY <1>m, <2>1, <2>3, <3>2, StageMoves DEF Counts, Stages
    <3> QED BY <1>0, <3>1, <3>3
  <2> QED BY <2>1, <2>2, <2>3
<1>2. ASSUME NEW q \in FsReqs,
             \/ StartWork(q) \/ uv__fs_work(q) \/ uv_cancel(q) \/ uv__fs_done(q)
             \/ uv_fs_req_cleanup(q) \/ \E k \in FsKinds : SubmitSync(q, k)
      PROVE  RingInv'
  <2>1. /\ UNCHANGED ringVars /\ in_flight' = in_flight
        /\ \/ /\ stage[q] \in {"pool", "running"} /\ active_reqs' = active_reqs
              /\ \E s \in {"running", "worked"} : stage' = [stage EXCEPT ![q] = s]
           \/ /\ stage[q] \in {"free", "called"} /\ active_reqs' = active_reqs
              /\ \E s \in {"free", "called"} : stage' = [stage EXCEPT ![q] = s]
           \/ /\ stage[q] = "worked" /\ active_reqs' = active_reqs - 1
              /\ stage' = [stage EXCEPT ![q] = "called"]
    BY <1>2 DEF StartWork, uv__fs_work, uv_cancel, uv__fs_done, uv_fs_req_cleanup, SubmitSync, ringVars
  <2>2. RingTypes' /\ RingPlaces'
    BY <2>1, RingStays DEF StageTypes
  <2>3. Counts'
    BY <1>m, <2>1, StageMoves DEF Counts, Stages
  <2> QED BY <1>0, <2>2, <2>3
<1>3. ASSUME UNCHANGED <<stage, ringVars, active_reqs>> PROVE RingInv'
  BY <1>0, <1>3, <1>k, RingStays DEF ringVars
<1>4. ASSUME KernelTakes \/ PollIoUring \/ Reaped \/ \E q \in FsReqs : KernelCompletes(q)
      PROVE  RingInv'
  <2>1. UNCHANGED <<stage, in_flight, active_reqs>>
    BY <1>4 DEF KernelTakes, PollIoUring, Reaped, KernelCompletes
  <2>2. RingTypes' /\ RingPlaces'
    BY <1>4, KernelTakesRing, PollRing, ReapedRing, KernelCompletesRing
  <2> QED BY <1>0, <1>k, <2>1, <2>2
<1>5. ASSUME Reap PROVE RingInv'
  <2>1. PICK q \in FsReqs : q = Head(seen) /\ stage[q] = "ring"
    BY <1>5, ReapRing
  <2>2. RingTypes' /\ RingPlaces'
    BY <1>5, ReapRing
  <2>3. /\ in_flight' = in_flight - 1
        /\ \/ stage' = [stage EXCEPT ![q] = "pool"] /\ active_reqs' = active_reqs
           \/ stage' = [stage EXCEPT ![q] = "called"] /\ active_reqs' = active_reqs - 1
    BY <1>5, <2>1 DEF Reap
  <2>4. Counts'
    BY <1>m, <2>1, <2>3, StageMoves DEF Counts, Stages
  <2> QED BY <1>0, <2>2, <2>4
<1>6. \A q \in FsReqs : uv_fs_scandir_next(q) => UNCHANGED <<stage, ringVars, active_reqs>>
  BY DEF uv_fs_scandir_next
<1>7. UNCHANGED fsRequestVars => UNCHANGED <<stage, ringVars, active_reqs>>
  BY DEF fsRequestVars
<1> QED BY <1>1, <1>2, <1>3, <1>4, <1>5, <1>6, <1>7 DEF FsRequestNext, FsRequestStep, RingStep

LEMMA MemoryStepKeeps ==
  ASSUME ~StatxLacking, RingInv, MemoryInv, [FsRequestNext]_fsRequestVars
  PROVE  MemoryInv'
<1> USE DEF MemoryInv
<1>1. ASSUME NEW q \in FsReqs, NEW k \in FsKinds, SubmitAsync(q, k) PROVE MemoryInv'
  BY <1>1, SubmitAsyncFields DEF SubmitAsync
<1>2. ASSUME NEW q \in FsReqs, NEW k \in FsKinds, SubmitSync(q, k) PROVE MemoryInv'
  BY ZenonT(40), <1>2, SubmitSyncFields DEF SubmitSync
<1>3. ASSUME NEW q \in FsReqs, StartWork(q) \/ uv__fs_work(q) \/ uv_cancel(q) \/ uv__fs_done(q)
      PROVE  MemoryInv'
  BY <1>3, WorkFields, MovedFields DEF StartWork, uv__fs_work, uv_cancel, uv__fs_done, reqFields
<1>4. ASSUME NEW q \in FsReqs, uv_fs_scandir_next(q) \/ uv_fs_req_cleanup(q) PROVE MemoryInv'
  BY <1>4, ScandirNextFields, CleanupFields
<1>5. ASSUME UNCHANGED <<stage, reqFields>> PROVE MemoryInv'
  BY <1>5 DEF reqFields, FieldTypes, StageTypes, Right, FieldsAgree, FieldsOwn
<1>6. ASSUME Reap PROVE MemoryInv'
  <2>1. PICK q \in FsReqs : q = Head(seen) /\ stage[q] = "ring"
    BY <1>6, ReapRing DEF RingInv
  <2> QED BY <1>6, <2>1, ReapFields DEF Reap
<1>7. ASSUME KernelTakes \/ PollIoUring \/ Reaped \/ \E q \in FsReqs : KernelCompletes(q)
      PROVE  UNCHANGED <<stage, reqFields>>
  BY <1>7 DEF KernelTakes, PollIoUring, Reaped, KernelCompletes
<1>8. UNCHANGED fsRequestVars => UNCHANGED <<stage, reqFields>>
  BY DEF fsRequestVars
<1> QED BY <1>1, <1>2, <1>3, <1>4, <1>5, <1>6, <1>7, <1>8
        DEF FsRequestNext, FsRequestStep, RingStep

LEMMA MemoryIsOwned ==
  ASSUME MemoryInv
  PROVE  MemoryOwned
<1>1. ASSUME NEW q \in FsReqs
      PROVE  /\ "path" \in allocated[q] => path[q] = "heap"
             /\ "bufs" \in allocated[q] => bufs[q] = "heap"
             /\ "statx" \in allocated[q] => ptr[q] = "statx"
             /\ \A what \in {"dents", "answer"} : what \in allocated[q] <=> ptr[q] = what
  BY DEF MemoryInv, Right, FieldsOwn
<1>2. ASSUME NEW q \in FsReqs, stage[q] = "free" PROVE allocated[q] = {}
  <2>1. path[q] = "null" /\ bufs[q] = "null" /\ ptr[q] = "null" /\ fs_type[q] # "readdir"
    BY <1>2 DEF MemoryInv, Right, FieldsAgree
  <2>2. \A what \in Memory : what \notin allocated[q]
    BY <2>1 DEF MemoryInv, Right, FieldsOwn, Memory
  <2>3. allocated[q] \subseteq Memory
    BY DEF MemoryInv, FieldTypes
  <2> QED BY <2>2, <2>3
<1>3. ~wild
  BY DEF MemoryInv
<1> QED BY <1>1, <1>2, <1>3 DEF MemoryOwned

LEMMA RingIsKept == FsRequestSpec => []RingInv
<1>1. FsRequestInit => RingInv
  BY FsRequestStarts
<1>2. RingInv /\ [FsRequestNext]_fsRequestVars => RingInv'
  BY RingStepKeeps
<1> QED BY <1>1, <1>2, PTL DEF FsRequestSpec

\* uv__io_poll waits for exactly the requests in the ring, and the loop stays
\* alive for exactly those that are still to call back.
THEOREM InFlightIsExact == FsRequestSpec => []InFlightExact
<1>1. RingInv => InFlightExact
  BY DEF RingInv, Counts, InRing, ToCallBack, InFlightExact
<1> QED BY <1>1, RingIsKept, PTL

\* A request frees exactly what it has allocated.  The kernel has statx if it has
\* the ring: the memory of a statx that is retried in the pool is lost.
THEOREM FsRequestsOwnTheirMemory ==
  ASSUME ~StatxLacking
  PROVE  FsRequestSpec => []MemoryOwned
<1>1. FsRequestInit => MemoryInv
  BY FsRequestStarts
<1>2. RingInv /\ MemoryInv /\ [FsRequestNext]_fsRequestVars => MemoryInv'
  BY MemoryStepKeeps
<1>3. MemoryInv => MemoryOwned
  BY MemoryIsOwned
<1> QED BY <1>1, <1>2, <1>3, RingIsKept, PTL DEF FsRequestSpec

\* Both together, on such a kernel.
THEOREM FsRequestsKeepPromise ==
  ASSUME ~StatxLacking
  PROVE  FsRequestSpec => []FsRequestPromise
BY InFlightIsExact, FsRequestsOwnTheirMemory, PTL DEF FsRequestPromise

-----------------------------------------------------------------------------
(* Inotify: the lists of handles.                                           *)

WatchList == [path : Paths, watchers : Seq(Watching), iterating : BOOLEAN]

InotifyTypes ==
  /\ life \in [Handles -> {"none", "open", "closing", "closed"}]
  /\ wd \in [Watching -> Int]
  /\ next_wd \in Nat \ {0}
  /\ \A d \in DOMAIN inotify_watchers :
       inotify_watchers[d] \in WatchList /\ d \in Nat /\ 0 < d /\ d < next_wd
  /\ walked = -1 \/ walked \in DOMAIN inotify_watchers
  /\ todo \in Seq(Watching) /\ Distinct(todo)

\* What a list links, the part of it that is being walked included.
On(d, h) == Linked(inotify_watchers[d].watchers, h) \/ (d = walked /\ Linked(todo, h))

ListSound(d) ==
  /\ Distinct(inotify_watchers[d].watchers)
  /\ d = walked => \A h : Linked(inotify_watchers[d].watchers, h) => ~Linked(todo, h)
  /\ \A h : On(d, h) <=> h \in active \cap Watching /\ wd[h] = d
  /\ inotify_watchers[d].iterating <=> d = walked
  /\ inotify_watchers[d].watchers = <<>> => d = walked

HandlesListed == \A h \in active \cap Watching : life[h] = "open" /\ wd[h] \in DOMAIN inotify_watchers

WalkSound ==
  /\ walked = -1 => todo = <<>> /\ ~in_event_cb
  /\ \A h : Linked(todo, h) <=> h \in owed

RestartSound ==
  /\ restart \in Seq(Watching \X Paths)
  /\ restart # <<>> => walked = -1 /\ batch = <<>>
  /\ \A i, j \in 1..Len(restart) :
       /\ life[restart[i][1]] = "open" /\ restart[i][1] \notin active
       /\ restart[i][1] = restart[j][1] => i = j

InotifyInv ==
  /\ InotifyTypes
  /\ \A d \in DOMAIN inotify_watchers : ListSound(d)
  /\ DOMAIN kernel \subseteq DOMAIN inotify_watchers
  /\ HandlesListed /\ WalkSound /\ RestartSound

-----------------------------------------------------------------------------
LEMMA InotifyInvGivesPromise == ASSUME InotifyInv PROVE InotifyPromise
<1> USE DEF InotifyInv
<1>1. ASSUME NEW d \in DOMAIN inotify_watchers
      PROVE  LET all == inotify_watchers[d].watchers \o (IF d = walked THEN todo ELSE <<>>)
             IN /\ Distinct(all)
                /\ {all[i] : i \in 1..Len(all)} = {h \in active \cap Watching : wd[h] = d}
                /\ all # <<>> \/ d = walked
  <2> DEFINE w == inotify_watchers[d].watchers
             t == IF d = walked THEN todo ELSE <<>>
             all == w \o t
  <2>1. w \in Seq(Watching) /\ t \in Seq(Watching)
    BY <1>1 DEF InotifyTypes, WatchList
  <2>2. Distinct(w) /\ Distinct(t)
    <3>1. Distinct(w) /\ Distinct(todo) /\ Distinct(<<>>)
      BY <1>1 DEF InotifyTypes, ListSound, Distinct
    <3> QED BY <3>1
  <2>3. \A m : Linked(w, m) => ~Linked(t, m)
    BY <1>1, EmptyLinksNothing DEF ListSound
  <2>4. \A m : On(d, m) <=> Linked(w, m) \/ Linked(t, m)
    BY EmptyLinksNothing DEF On
  <2> HIDE DEF w, t
  <2>5. /\ all \in Seq(Watching) /\ Distinct(all)
        /\ \A m : Linked(all, m) <=> Linked(w, m) \/ Linked(t, m)
    BY <2>1, <2>2, <2>3, ConcatDistinct
  <2> HIDE DEF all
  <2>6. \A m : Linked(all, m) <=> m \in active \cap Watching /\ wd[m] = d
    BY <1>1, <2>4, <2>5 DEF ListSound
  <2>7. {all[i] : i \in 1..Len(all)} = {h \in active \cap Watching : wd[h] = d}
    BY <2>6 DEF Linked
  <2>8. all # <<>> \/ d = walked
    <3>1. CASE all = <<>>
      <4>1. \A m : ~Linked(w, m)
        BY <2>5, <3>1, EmptyLinksNothing
      <4>2. w = <<>>
        BY <4>1, <2>1, EmptyOrLinked
      <4> QED BY <4>2, <1>1 DEF ListSound, w
    <3> QED BY <3>1
  <2> QED BY <2>5, <2>7, <2>8 DEF all, w, t
<1>2. /\ walked # -1 => Watched(walked) /\ inotify_watchers[walked].iterating
      /\ walked = -1 => todo = <<>>
      /\ \A h \in active \cap Watching : Watched(wd[h])
  BY DEF InotifyTypes, ListSound, WalkSound, HandlesListed, Watched
<1>3. EventReachesAll
  BY DEF EventReachesAll, WalkSound, Linked
<1> QED BY <1>1, <1>2, <1>3 DEF InotifyPromise, ListsSound, RestartSound

LEMMA InotifyInvInit == ASSUME NoHandles, InotifyInit PROVE InotifyInv
<1> USE DEF NoHandles, InotifyInit
<1>0. <<>> \in Seq(Watching) /\ <<>> \in Seq(Watching \X Paths) /\ Len(<<>>) = 0 /\ DOMAIN <<>> = {}
  OBVIOUS
<1>1. InotifyTypes
  BY <1>0 DEF InotifyTypes, Distinct
<1>2. HandlesListed /\ RestartSound
  BY <1>0 DEF HandlesListed, RestartSound
<1>3. WalkSound
  BY EmptyLinksNothing DEF WalkSound
<1> QED BY <1>0, <1>1, <1>2, <1>3 DEF InotifyInv

\* A step that leaves the lists, the walk and the handles that watch alone.
LEMMA ListsStand ==
  ASSUME InotifyInv,
         UNCHANGED <<next_wd, inotify_watchers, wd, walked, todo, owed, restart, active>>,
         restart # <<>> => batch' = <<>>, in_event_cb' => in_event_cb,
         DOMAIN kernel' \subseteq DOMAIN kernel,
         life' \in [Handles -> {"none", "open", "closing", "closed"}],
         \A h \in Handles : life[h] = "open" => life'[h] = "open"
  PROVE  InotifyInv'
<1> USE DEF InotifyInv
<1>0. Watching \subseteq Handles
  BY WatchingAssumption
<1>1. InotifyTypes'
  BY DEF InotifyTypes
<1>2. ASSUME NEW d \in DOMAIN inotify_watchers' PROVE ListSound(d)'
  BY <1>2 DEF ListSound, On
<1>3. HandlesListed' /\ WalkSound'
  BY <1>0 DEF HandlesListed, WalkSound
<1>4. RestartSound'
  <2>1. \A i \in 1..Len(restart) : restart[i][1] \in Handles
    BY <1>0, ElementOfSeq DEF RestartSound
  <2> QED BY <2>1 DEF RestartSound
<1> QED BY <1>1, <1>2, <1>3, <1>4

-----------------------------------------------------------------------------
(* The steps.                                                               *)

\* All but what is to be started again.
WatchInv ==
  /\ InotifyTypes
  /\ \A d \in DOMAIN inotify_watchers : ListSound(d)
  /\ DOMAIN kernel \subseteq DOMAIN inotify_watchers
  /\ HandlesListed /\ WalkSound

\* uv_fs_event_start puts the handle at the end of the list of its descriptor.
LEMMA StartKeepsLists ==
  ASSUME InotifyInv, NEW h \in Watching, NEW p \in Paths,
         life[h] = "open", h \notin active, StartWatching(h, p)
  PROVE  WatchInv'
<1> USE DEF InotifyInv
<1> DEFINE d == WdOf(p)
<1>1. /\ kernel' = With(kernel, d, p)
      /\ next_wd' = IF HasWd(p) THEN next_wd ELSE next_wd + 1
      /\ inotify_watchers' = Enlisted(inotify_watchers, d, p, h)
      /\ wd' = [wd EXCEPT ![h] = d] /\ active' = active \cup {h}
      /\ UNCHANGED <<events, batch, walked, in_event_cb, todo, owed, forked, life, ref>>
  BY DEF StartWatching, walkVars, HandleStart
\* The descriptor has a list, or is new.
<1>2. /\ d \in DOMAIN inotify_watchers \/ (d = next_wd /\ d \notin DOMAIN inotify_watchers)
      /\ d \in Nat /\ 0 < d /\ d < next_wd' /\ next_wd' \in Nat /\ next_wd <= next_wd'
  <2>1. CASE HasWd(p)
    <3>1. d \in DOMAIN kernel
      BY <2>1 DEF WdOf, HasWd
    <3> QED BY <3>1, <2>1, <1>1 DEF InotifyTypes
  <2>2. CASE ~HasWd(p)
    <3>1. d = next_wd /\ next_wd' = next_wd + 1 /\ next_wd \in Nat
      BY <2>2, <1>1 DEF WdOf, InotifyTypes
    <3>2. d \notin DOMAIN inotify_watchers
      BY <3>1 DEF InotifyTypes
    <3>3. 0 < next_wd
      BY DEF InotifyTypes
    <3> QED BY <3>1, <3>2, <3>3
  <2> QED BY <2>1, <2>2
<1> HIDE DEF d
<1>3. /\ DOMAIN inotify_watchers' = DOMAIN inotify_watchers \cup {d}
      /\ \A e \in DOMAIN inotify_watchers : e # d => inotify_watchers'[e] = inotify_watchers[e]
      /\ DOMAIN kernel' = DOMAIN kernel \cup {d}
  BY <1>1 DEF Enlisted, With
\* The list, with one more.
<1>4. /\ inotify_watchers'[d] \in WatchList
      /\ Distinct(inotify_watchers'[d].watchers)
      /\ \A x : Linked(inotify_watchers'[d].watchers, x) <=>
                  x = h \/ (d \in DOMAIN inotify_watchers /\ Linked(inotify_watchers[d].watchers, x))
      /\ inotify_watchers'[d].iterating <=> d \in DOMAIN inotify_watchers /\ d = walked
      /\ inotify_watchers'[d].watchers # <<>>
  <2>1. CASE d \in DOMAIN inotify_watchers
    <3> DEFINE w == inotify_watchers[d].watchers
    <3>1. inotify_watchers'[d] = [inotify_watchers[d] EXCEPT !.watchers = Append(w, h)]
      BY <2>1, <1>1 DEF Enlisted, With
    <3>2. inotify_watchers[d] \in WatchList /\ Distinct(w)
          /\ (inotify_watchers[d].iterating <=> d = walked)
      BY <2>1 DEF InotifyTypes, ListSound
    <3>3. w \in Seq(Watching)
      BY <3>2 DEF WatchList
    <3>4. ~Linked(w, h)
      BY <2>1 DEF ListSound, On
    <3>5. /\ inotify_watchers'[d].watchers = Append(w, h)
          /\ inotify_watchers'[d].iterating = inotify_watchers[d].iterating
          /\ inotify_watchers'[d].path = inotify_watchers[d].path
          /\ inotify_watchers'[d] = [path |-> inotify_watchers[d].path, watchers |-> Append(w, h),
                                     iterating |-> inotify_watchers[d].iterating]
      BY <3>1, <3>2 DEF WatchList
    <3> HIDE DEF w
    <3>6. /\ Append(w, h) \in Seq(Watching) /\ Distinct(Append(w, h))
          /\ \A m : Linked(Append(w, h), m) <=> Linked(w, m) \/ m = h
      BY <3>3, <3>2, <3>4, AppendDistinct
    <3>7. Append(w, h) # <<>>
      BY <3>6, EmptyLinksNothing
    <3>8. inotify_watchers'[d] \in WatchList
      BY <3>2, <3>5, <3>6 DEF WatchList
    <3> QED BY <2>1, <3>2, <3>5, <3>6, <3>7, <3>8 DEF w
  <2>2. CASE d \notin DOMAIN inotify_watchers
    <3>1. inotify_watchers'[d] = [path |-> p, watchers |-> <<h>>, iterating |-> FALSE]
      BY <2>2, <1>1 DEF Enlisted, With
    <3>2. <<h>> \in Seq(Watching) /\ Distinct(<<h>>) /\ <<h>> # <<>> /\ \A x : Linked(<<h>>, x) <=> x = h
      BY DEF Distinct, Linked
    <3> QED BY <2>2, <3>1, <3>2 DEF WatchList
  <2> QED BY <2>1, <2>2
<1>5. walked = -1 \/ walked \in DOMAIN inotify_watchers
  BY DEF InotifyTypes
<1>6. ~Linked(todo, h)
  <2>1. CASE walked = -1
    BY <2>1, EmptyLinksNothing DEF WalkSound
  <2>2. CASE walked \in DOMAIN inotify_watchers
    BY <2>2 DEF ListSound, On
  <2> QED BY <2>1, <2>2, <1>5
<1>7. d # -1
  BY <1>2
<1>8. wd'[h] = d /\ \A x \in Watching : x # h => wd'[x] = wd[x]
  BY <1>1 DEF InotifyTypes
<1>9. InotifyTypes'
  <2>1. ASSUME NEW e \in DOMAIN inotify_watchers'
        PROVE  inotify_watchers'[e] \in WatchList /\ e \in Nat /\ 0 < e /\ e < next_wd'
    <3>1. CASE e = d
      BY <3>1, <1>2, <1>4
    <3>2. CASE e # d
      <4>1. e \in DOMAIN inotify_watchers /\ inotify_watchers'[e] = inotify_watchers[e]
        BY <3>2, <1>3
      <4>2. inotify_watchers[e] \in WatchList /\ e \in Nat /\ 0 < e /\ e < next_wd /\ next_wd \in Nat
        BY <4>1 DEF InotifyTypes
      <4> QED BY <4>1, <4>2, <1>2
    <3> QED BY <3>1, <3>2
  <2>2. wd' \in [Watching -> Int]
    BY <1>1, <1>2 DEF InotifyTypes
  <2>3. walked' = -1 \/ walked' \in DOMAIN inotify_watchers'
    BY <1>1, <1>3, <1>5
  <2> QED BY <2>1, <2>2, <2>3, <1>1, <1>2 DEF InotifyTypes
<1>10. ASSUME NEW e \in DOMAIN inotify_watchers' PROVE ListSound(e)'
  <2>1. CASE e = d
    <3>1. e = walked' <=> d \in DOMAIN inotify_watchers /\ d = walked
      BY <2>1, <1>1, <1>2, <1>5
    <3>2. \A x : On(e, x)' <=> x \in active' \cap Watching /\ wd'[x] = e
      <4>1. CASE d \in DOMAIN inotify_watchers
        <5>1. \A x : On(d, x) <=> x \in active \cap Watching /\ wd[x] = d
          BY <4>1 DEF ListSound
        <5>2. \A x : On(e, x)' <=> x = h \/ On(d, x)
          BY <4>1, <2>1, <1>1, <1>4 DEF On
        <5> QED BY <5>1, <5>2, <2>1, <1>1, <1>8
      <4>2. CASE d \notin DOMAIN inotify_watchers
        <5>1. \A x \in active \cap Watching : wd[x] # d
          BY <4>2 DEF HandlesListed
        <5>2. \A x : On(e, x)' <=> x = h
          BY <4>2, <2>1, <1>1, <1>4, <1>5, <1>7 DEF On
        <5> QED BY <5>1, <5>2, <2>1, <1>1, <1>8
      <4> QED BY <4>1, <4>2
    <3>3. e = walked' => \A x : Linked(inotify_watchers'[e].watchers, x) => ~Linked(todo', x)
      BY <2>1, <3>1, <1>1, <1>4, <1>6 DEF ListSound
    <3> QED BY <2>1, <3>1, <3>2, <3>3, <1>4 DEF ListSound
  <2>2. CASE e # d
    <3>1. e \in DOMAIN inotify_watchers /\ inotify_watchers'[e] = inotify_watchers[e]
      BY <2>2, <1>3
    <3>2. ListSound(e)
      BY <3>1
    <3>3. \A x : On(e, x)' <=> On(e, x)
      BY <3>1, <1>1 DEF On
    <3>4. ~On(e, h)
      BY <3>2 DEF ListSound
    <3>5. \A x : On(e, x)' <=> x \in active' \cap Watching /\ wd'[x] = e
      BY <2>2, <3>2, <3>3, <3>4, <1>1, <1>8 DEF ListSound
    <3> QED BY <3>1, <3>2, <3>5, <1>1 DEF ListSound
  <2> QED BY <2>1, <2>2
<1>11. HandlesListed' /\ WalkSound'
  BY <1>1, <1>3, <1>8 DEF HandlesListed, WalkSound
<1>12. DOMAIN kernel' \subseteq DOMAIN inotify_watchers'
  BY <1>3
<1> QED BY <1>9, <1>10, <1>11, <1>12 DEF WatchInv

\* uv_fs_event_stop takes it out of its list and out of the walk, whichever it
\* is in, and frees a list that nobody needs.
LEMMA StopKeepsLists ==
  ASSUME InotifyInv, NEW h \in Watching, h \in active,
         StopWatching(h), active' = active \ {h}, owed' = owed \ {h},
         life' \in [Handles -> {"none", "open", "closing", "closed"}],
         \A x \in Watching \ {h} : life[x] = "open" => life'[x] = "open",
         UNCHANGED <<next_wd, walked, in_event_cb>>
  PROVE  WatchInv'
<1> USE DEF InotifyInv
<1> DEFINE d == wd[h]
           w == inotify_watchers[d].watchers
           rest == [inotify_watchers[d] EXCEPT !.watchers = Unlink(@, h)]
<1>1. d \in DOMAIN inotify_watchers /\ ListSound(d) /\ inotify_watchers[d] \in WatchList
  BY DEF HandlesListed, InotifyTypes
<1>2. /\ inotify_watchers' = IF Freeable(rest) THEN Without(inotify_watchers, d) ELSE With(inotify_watchers, d, rest)
      /\ kernel' = KernelAfter(inotify_watchers')
      /\ todo' = Unlink(todo, h)
      /\ wd' = [wd EXCEPT ![h] = -1]
  BY DEF StopWatching, ListsWithout
<1>3. /\ w \in Seq(Watching) /\ Unlink(w, h) \in Seq(Watching) /\ Distinct(Unlink(w, h))
      /\ \A x : Linked(Unlink(w, h), x) <=> Linked(w, x) /\ x # h
  <2>1. w \in Seq(Watching) /\ Distinct(w)
    BY <1>1 DEF WatchList, ListSound
  <2> QED BY <2>1, UnlinkType, UnlinkDistinct
<1>4. /\ todo' \in Seq(Watching) /\ Distinct(todo')
      /\ \A x : Linked(todo', x) <=> Linked(todo, x) /\ x # h
  <2>1. todo \in Seq(Watching) /\ Distinct(todo)
    BY DEF InotifyTypes
  <2> QED BY <2>1, <1>2, UnlinkType, UnlinkDistinct
<1>5. /\ rest = [path |-> inotify_watchers[d].path, watchers |-> Unlink(w, h),
                 iterating |-> inotify_watchers[d].iterating]
      /\ rest.watchers = Unlink(w, h) /\ rest.iterating = inotify_watchers[d].iterating
      /\ rest \in WatchList
  BY <1>1, <1>3 DEF WatchList
<1>6. Freeable(rest) <=> d # walked /\ Unlink(w, h) = <<>>
  BY <1>1, <1>5 DEF Freeable, ListSound
<1>7. /\ DOMAIN inotify_watchers' \subseteq DOMAIN inotify_watchers
      /\ \A e \in DOMAIN inotify_watchers : e # d =>
           e \in DOMAIN inotify_watchers' /\ inotify_watchers'[e] = inotify_watchers[e]
      /\ d \in DOMAIN inotify_watchers' <=> ~Freeable(rest)
      /\ d \in DOMAIN inotify_watchers' => inotify_watchers'[d] = rest
  <2>1. CASE Freeable(rest)
    <3>1. inotify_watchers' = Without(inotify_watchers, d)
      BY <2>1, <1>2
    <3> HIDE DEF rest
    <3> QED BY <2>1, <3>1, <1>1 DEF Without
  <2>2. CASE ~Freeable(rest)
    <3>1. inotify_watchers' = With(inotify_watchers, d, rest)
      BY <2>2, <1>2
    <3> HIDE DEF rest
    <3> QED BY <2>2, <3>1, <1>1 DEF With
  <2> QED BY <2>1, <2>2
<1> HIDE DEF rest
<1>8. wd'[h] = -1 /\ \A x \in Watching : x # h => wd'[x] = wd[x]
  BY <1>2 DEF InotifyTypes
<1>9. d # -1 /\ -1 \notin DOMAIN inotify_watchers
  BY <1>1 DEF InotifyTypes
<1>10. InotifyTypes'
  <2>1. ASSUME NEW e \in DOMAIN inotify_watchers'
        PROVE  inotify_watchers'[e] \in WatchList /\ e \in Nat /\ 0 < e /\ e < next_wd'
    BY <1>5, <1>7 DEF InotifyTypes
  <2>2. wd' \in [Watching -> Int]
    BY <1>2 DEF InotifyTypes
  <2>3. walked' = -1 \/ walked' \in DOMAIN inotify_watchers'
    BY <1>6, <1>7 DEF InotifyTypes
  <2> QED BY <2>1, <2>2, <2>3, <1>4 DEF InotifyTypes
<1>11. ASSUME NEW e \in DOMAIN inotify_watchers' PROVE ListSound(e)'
  <2>0. ListSound(e) /\ e # -1
    BY <1>7, <1>9
  <2>1. \A x : On(e, x)' <=> On(e, x) /\ x # h
    <3>1. CASE e = d
      BY <3>1, <1>3, <1>4, <1>5, <1>7 DEF On
    <3>2. CASE e # d
      <4>1. ~On(e, h)
        BY <3>2, <2>0 DEF ListSound
      <4>2. inotify_watchers'[e] = inotify_watchers[e]
        BY <3>2, <1>7
      <4> QED BY <4>1, <4>2, <1>4 DEF On
    <3> QED BY <3>1, <3>2
  <2>2. \A x : On(e, x)' <=> x \in active' \cap Watching /\ wd'[x] = e
    BY <2>0, <2>1, <1>8 DEF ListSound
  <2>3. /\ Distinct(inotify_watchers'[e].watchers)
        /\ \A x : Linked(inotify_watchers'[e].watchers, x) => Linked(inotify_watchers[e].watchers, x)
        /\ inotify_watchers'[e].iterating = inotify_watchers[e].iterating
    <3>1. CASE e = d
      BY <3>1, <1>3, <1>5, <1>7
    <3>2. CASE e # d
      BY <3>2, <2>0, <1>7 DEF ListSound
    <3> QED BY <3>1, <3>2
  <2>4. inotify_watchers'[e].watchers = <<>> => e = walked'
    <3>1. CASE e = d
      BY <3>1, <1>5, <1>6, <1>7
    <3>2. CASE e # d
      BY <3>2, <2>0, <1>7 DEF ListSound
    <3> QED BY <3>1, <3>2
  <2> QED BY <2>0, <2>2, <2>3, <2>4, <1>4 DEF ListSound
<1>12. HandlesListed'
  <2> SUFFICES ASSUME NEW x \in active' \cap Watching
               PROVE  life'[x] = "open" /\ wd'[x] \in DOMAIN inotify_watchers'
    BY DEF HandlesListed
  <2>1. x \in active \cap Watching /\ x # h /\ life[x] = "open" /\ wd[x] \in DOMAIN inotify_watchers
        /\ wd'[x] = wd[x]
    BY <1>8 DEF HandlesListed
  <2>2. CASE wd[x] # d
    BY <2>1, <2>2, <1>7
  <2>3. CASE wd[x] = d
    <3>1. On(d, x)
      BY <2>1, <2>3, <1>1 DEF ListSound
    <3>2. d = walked \/ Linked(Unlink(w, h), x)
      BY <2>1, <3>1, <1>3 DEF On
    <3>3. ~Freeable(rest)
      BY <3>2, <1>6, EmptyLinksNothing
    <3> QED BY <2>1, <2>3, <3>3, <1>7
  <2> QED BY <2>2, <2>3
<1>13. WalkSound'
  <2>1. walked' = -1 => todo' = <<>>
    <3>1. ASSUME walked = -1 PROVE todo' = <<>>
      <4>1. \A x : ~Linked(todo', x)
        BY <3>1, <1>4, EmptyLinksNothing DEF WalkSound
      <4> QED BY <4>1, <1>4, EmptyOrLinked
    <3> QED BY <3>1
  <2> QED BY <2>1, <1>4 DEF WalkSound
<1>14. DOMAIN kernel' \subseteq DOMAIN inotify_watchers'
  BY <1>2 DEF KernelAfter
<1> QED BY <1>10, <1>11, <1>12, <1>13, <1>14 DEF WatchInv

-----------------------------------------------------------------------------
(* uv__inotify_read.                                                        *)

LEMMA NextEventKeepsInv == ASSUME InotifyInv, NextEvent PROVE InotifyInv'
<1> USE DEF InotifyInv
<1> DEFINE d == Head(batch)
<1>1. /\ walked = -1 /\ todo = <<>> /\ ~in_event_cb
      /\ UNCHANGED <<kernel, next_wd, wd, in_event_cb, restart, life, active>>
  BY DEF NextEvent, kernelVars, forkVars, handleVars, WalkSound
<1>2. CASE ~Watched(d)
  <2>1. UNCHANGED <<walked, todo, inotify_watchers, owed>>
    BY <1>2 DEF NextEvent
  <2>2. life' \in [Handles -> {"none", "open", "closing", "closed"}]
    BY <1>1 DEF InotifyTypes
  <2>3. restart = <<>>
    BY DEF NextEvent, RestartSound
  <2> QED BY <1>1, <2>1, <2>2, <2>3, ListsStand
<1>3. CASE Watched(d)
  <2>0. /\ d \in DOMAIN inotify_watchers /\ ListSound(d) /\ inotify_watchers[d] \in WatchList /\ d # -1
        /\ d \in Nat /\ -1 \notin DOMAIN inotify_watchers
    BY <1>3 DEF Watched, InotifyTypes
  <2>1. /\ walked' = d /\ todo' = inotify_watchers[d].watchers
        /\ inotify_watchers' = [inotify_watchers EXCEPT ![d].iterating = TRUE, ![d].watchers = <<>>]
        /\ owed' = {h \in active \cap Watching : wd[h] = d}
    BY <1>3 DEF NextEvent
  <2> HIDE DEF d
  <2>2. /\ DOMAIN inotify_watchers' = DOMAIN inotify_watchers
        /\ \A e \in DOMAIN inotify_watchers : e # d => inotify_watchers'[e] = inotify_watchers[e]
        /\ inotify_watchers'[d] = [path |-> inotify_watchers[d].path, watchers |-> <<>>, iterating |-> TRUE]
    BY <2>0, <2>1 DEF WatchList
  <2>3. inotify_watchers'[d].watchers = <<>> /\ inotify_watchers'[d].iterating
        /\ inotify_watchers'[d] \in WatchList
    BY <2>0, <2>2 DEF WatchList
  <2>4. \A x : Linked(todo', x) <=> x \in active \cap Watching /\ wd[x] = d
    BY <2>0, <2>1, <1>1 DEF ListSound, On
  <2>5. todo' \in Seq(Watching) /\ Distinct(todo')
    BY <2>0, <2>1 DEF WatchList, ListSound
  <2>6. InotifyTypes'
    BY <1>1, <2>0, <2>1, <2>2, <2>3, <2>5 DEF InotifyTypes
  <2>7. ASSUME NEW e \in DOMAIN inotify_watchers' PROVE ListSound(e)'
    <3>1. CASE e = d
      <4>1. \A x : ~Linked(inotify_watchers'[d].watchers, x)
        BY <2>3, EmptyLinksNothing
      <4> QED BY <3>1, <4>1, <1>1, <2>1, <2>3, <2>4 DEF ListSound, On, Distinct
    <3>2. CASE e # d
      <4>1. ListSound(e) /\ e # walked /\ e # walked' /\ inotify_watchers'[e] = inotify_watchers[e]
        BY <3>2, <1>1, <2>0, <2>1, <2>2
      <4> QED BY <4>1, <1>1 DEF ListSound, On
    <3> QED BY <3>1, <3>2
  <2>8. HandlesListed' /\ WalkSound'
    BY <1>1, <2>0, <2>1, <2>2, <2>4 DEF HandlesListed, WalkSound
  <2>9. RestartSound'
    <3>1. restart = <<>>
      BY DEF NextEvent, RestartSound
    <3> QED BY <3>1, <1>1 DEF RestartSound
  <2> QED BY <2>2, <2>6, <2>7, <2>8, <2>9, <1>1
<1> QED BY <1>2, <1>3

\* A handle goes from the walk to the end of its list.
LEMMA CallHandleKeepsInv == ASSUME InotifyInv, CallHandle PROVE InotifyInv'
<1> USE DEF InotifyInv
<1> DEFINE d == walked
           h == Head(todo)
           w == inotify_watchers[d].watchers
<1>1. /\ todo # <<>> /\ todo' = Tail(todo) /\ owed' = owed \ {h}
      /\ inotify_watchers' = [inotify_watchers EXCEPT ![d].watchers = Append(@, h)]
      /\ UNCHANGED <<kernel, next_wd, wd, batch, walked, restart, life, active>> /\ d # -1
  BY DEF CallHandle, kernelVars, forkVars, handleVars
<1>2. d \in DOMAIN inotify_watchers /\ ListSound(d) /\ inotify_watchers[d] \in WatchList
  BY <1>1 DEF InotifyTypes
<1>3. /\ h \in Watching /\ Linked(todo, h) /\ Tail(todo) \in Seq(Watching) /\ Distinct(Tail(todo))
      /\ \A m : Linked(Tail(todo), m) <=> Linked(todo, m) /\ m # h
  BY <1>1, TailDistinct DEF InotifyTypes
<1> HIDE DEF h
<1>4. /\ Append(w, h) \in Seq(Watching) /\ Distinct(Append(w, h))
      /\ \A m : Linked(Append(w, h), m) <=> Linked(w, m) \/ m = h
  <2>1. w \in Seq(Watching) /\ Distinct(w) /\ ~Linked(w, h)
    BY <1>2, <1>3 DEF WatchList, ListSound
  <2> QED BY <2>1, <1>3, AppendDistinct
<1>5. /\ DOMAIN inotify_watchers' = DOMAIN inotify_watchers
      /\ \A e \in DOMAIN inotify_watchers : e # d => inotify_watchers'[e] = inotify_watchers[e]
      /\ inotify_watchers'[d] = [path |-> inotify_watchers[d].path, watchers |-> Append(w, h),
                                 iterating |-> inotify_watchers[d].iterating]
  BY <1>1, <1>2 DEF WatchList
<1>6. /\ inotify_watchers'[d].watchers = Append(w, h)
      /\ inotify_watchers'[d].iterating = inotify_watchers[d].iterating
      /\ inotify_watchers'[d] \in WatchList
  BY <1>2, <1>4, <1>5 DEF WatchList
<1>7. InotifyTypes'
  BY <1>1, <1>3, <1>5, <1>6 DEF InotifyTypes
<1>8. ASSUME NEW e \in DOMAIN inotify_watchers' PROVE ListSound(e)'
  <2>1. CASE e = d
    <3>1. \A x : On(e, x)' <=> On(e, x)
      BY <2>1, <1>1, <1>3, <1>4, <1>6 DEF On
    <3>2. \A x : Linked(inotify_watchers'[e].watchers, x) => ~Linked(todo', x)
      <4>1. \A x : Linked(inotify_watchers'[e].watchers, x) => Linked(w, x) \/ x = h
        BY <2>1, <1>4, <1>6
      <4>2. \A x : Linked(w, x) => ~Linked(todo, x)
        BY <1>2 DEF ListSound
      <4> QED BY <4>1, <4>2, <1>1, <1>3
    <3> QED BY <2>1, <3>1, <3>2, <1>1, <1>2, <1>4, <1>6 DEF ListSound
  <2>2. CASE e # d
    <3>1. ListSound(e) /\ inotify_watchers'[e] = inotify_watchers[e] /\ e # walked'
      BY <2>2, <1>1, <1>5
    <3> QED BY <2>2, <3>1, <1>1 DEF ListSound, On
  <2> QED BY <2>1, <2>2
<1>9. HandlesListed' /\ WalkSound' /\ RestartSound'
  BY <1>1, <1>3, <1>5 DEF HandlesListed, WalkSound, RestartSound
<1> QED BY <1>1, <1>5, <1>7, <1>8, <1>9

\* The list that was walked may be freed.
LEMMA WalkDoneKeepsInv == ASSUME InotifyInv, WalkDone PROVE InotifyInv'
<1> USE DEF InotifyInv
<1> DEFINE d == walked
           rest == [inotify_watchers[d] EXCEPT !.iterating = FALSE]
           w == inotify_watchers[d].watchers
<1>1. /\ d # -1 /\ todo = <<>> /\ walked' = -1
      /\ inotify_watchers' = IF Freeable(rest) THEN Without(inotify_watchers, d)
                                               ELSE With(inotify_watchers, d, rest)
      /\ kernel' = KernelAfter(inotify_watchers')
      /\ UNCHANGED <<next_wd, wd, batch, todo, in_event_cb, owed, restart, life, active>>
      /\ ~in_event_cb
  BY DEF WalkDone, forkVars, handleVars
<1>2. /\ d \in DOMAIN inotify_watchers /\ ListSound(d) /\ inotify_watchers[d] \in WatchList
      /\ -1 \notin DOMAIN inotify_watchers
  BY <1>1 DEF InotifyTypes
<1>3. /\ rest.watchers = w /\ rest.iterating = FALSE /\ rest \in WatchList
      /\ (Freeable(rest) <=> w = <<>>)
  BY <1>2 DEF WatchList, Freeable
<1> HIDE DEF rest
<1>4. /\ DOMAIN inotify_watchers' \subseteq DOMAIN inotify_watchers
      /\ \A e \in DOMAIN inotify_watchers : e # d =>
           e \in DOMAIN inotify_watchers' /\ inotify_watchers'[e] = inotify_watchers[e]
      /\ d \in DOMAIN inotify_watchers' <=> w # <<>>
      /\ d \in DOMAIN inotify_watchers' => inotify_watchers'[d] = rest
  BY <1>1, <1>2, <1>3 DEF With, Without
<1>5. InotifyTypes'
  BY <1>1, <1>3, <1>4 DEF InotifyTypes
<1>6. ASSUME NEW e \in DOMAIN inotify_watchers' PROVE ListSound(e)'
  <2>1. ListSound(e) /\ e # -1
    BY <1>2, <1>4
  <2>2. \A x : On(e, x)' <=> On(e, x)
    <3>1. inotify_watchers'[e].watchers = inotify_watchers[e].watchers
      BY <1>3, <1>4
    <3> QED BY <3>1, <2>1, <1>1, EmptyLinksNothing DEF On
  <2>3. CASE e = d
    BY <2>1, <2>2, <2>3, <1>1, <1>3, <1>4 DEF ListSound
  <2>4. CASE e # d
    <3>1. inotify_watchers'[e] = inotify_watchers[e] /\ e # walked
      BY <2>4, <1>4
    <3> QED BY <3>1, <2>1, <2>2, <1>1 DEF ListSound
  <2> QED BY <2>3, <2>4
<1>7. HandlesListed'
  <2> SUFFICES ASSUME NEW x \in active \cap Watching
               PROVE  life[x] = "open" /\ wd[x] \in DOMAIN inotify_watchers'
    BY <1>1 DEF HandlesListed
  <2>1. life[x] = "open" /\ wd[x] \in DOMAIN inotify_watchers
    BY DEF HandlesListed
  <2>2. wd[x] = d => w # <<>>
    BY <1>1, <1>2, EmptyLinksNothing DEF ListSound, On
  <2> QED BY <2>1, <2>2, <1>4
<1>8. WalkSound' /\ RestartSound'
  BY <1>1 DEF WalkSound, RestartSound
<1>9. DOMAIN kernel' \subseteq DOMAIN inotify_watchers'
  BY <1>1 DEF KernelAfter
<1> QED BY <1>5, <1>6, <1>7, <1>8, <1>9

-----------------------------------------------------------------------------
(* The user's calls and the kernel.                                         *)

LEMMA InotifyUserKeepsInv == ASSUME InotifyInv, InotifyUser PROVE InotifyInv'
<1>0. /\ restart = <<>> /\ life \in [Handles -> {"none", "open", "closing", "closed"}]
      /\ Watching \subseteq Handles
  BY WatchingAssumption DEF InotifyUser, LoopIsFree, InotifyInv, InotifyTypes, RestartSound, WalkSound
<1>1. ASSUME restart' = restart, WatchInv' PROVE InotifyInv'
  BY <1>0, <1>1 DEF InotifyInv, WatchInv, RestartSound
<1>2. ASSUME NEW h \in Watching, uv_fs_event_init(h) PROVE InotifyInv'
  <2>1. /\ UNCHANGED inotifyVars /\ life[h] \in {"none", "closed"}
        /\ life' = [life EXCEPT ![h] = "open"] /\ active' = active \ {h}
    BY <1>2 DEF uv_fs_event_init, HandleInit
  <2>2. active' = active
    BY <2>1 DEF InotifyInv, HandlesListed
  <2>3. UNCHANGED <<kernel, next_wd, inotify_watchers, wd, walked, batch, todo, in_event_cb, owed, restart>>
    BY <2>1 DEF inotifyVars, kernelVars, walkVars, forkVars
  <2>4. /\ life' \in [Handles -> {"none", "open", "closing", "closed"}]
        /\ \A x \in Handles : life[x] = "open" => life'[x] = "open"
    BY <2>1, <1>0
  <2> QED BY <1>0, <2>2, <2>3, <2>4, ListsStand
<1>3. ASSUME NEW h \in Watching, uv_fs_event_stop(h) PROVE InotifyInv'
  <2>1. /\ h \in active /\ StopWatching(h) /\ active' = active \ {h} /\ owed' = owed \ {h}
        /\ UNCHANGED <<next_wd, walked, in_event_cb, restart, life>>
    BY <1>3 DEF uv_fs_event_stop, HandleStop, walkVars, forkVars
  <2> QED BY <1>0, <1>1, <2>1, StopKeepsLists
<1>4. ASSUME NEW h \in Watching, uv__fs_event_close(h) PROVE InotifyInv'
  <2>1. /\ life[h] = "open" /\ StopWatching(h) /\ active' = active \ {h} /\ owed' = owed \ {h}
        /\ life' = [life EXCEPT ![h] = "closing"]
        /\ UNCHANGED <<next_wd, walked, in_event_cb, batch, restart>>
    BY <1>4 DEF uv__fs_event_close, HandleStop, walkVars, forkVars
  <2>2. /\ life' \in [Handles -> {"none", "open", "closing", "closed"}]
        /\ \A x \in Watching \ {h} : life[x] = "open" => life'[x] = "open"
    BY <2>1, <1>0
  <2>3. CASE h \in active
    BY <1>0, <1>1, <2>1, <2>2, <2>3, StopKeepsLists
  <2>4. CASE h \notin active
    <3>1. UNCHANGED <<inotify_watchers, kernel, todo, wd>> /\ active' = active
      BY <2>1, <2>4 DEF StopWatching
    <3>2. owed' = owed
      <4>1. ~Linked(todo, h)
        BY <2>4, EmptyLinksNothing DEF InotifyInv, InotifyTypes, ListSound, On, WalkSound
      <4> QED BY <2>1, <4>1 DEF InotifyInv, WalkSound
    <3>3. WatchInv'
      <4>1. InotifyTypes'
        BY <2>1, <2>2, <3>1 DEF InotifyInv, InotifyTypes
      <4>2. ASSUME NEW e \in DOMAIN inotify_watchers' PROVE ListSound(e)'
        BY <2>1, <3>1, <4>2 DEF InotifyInv, ListSound, On
      <4>3. HandlesListed' /\ WalkSound'
        BY <2>1, <2>2, <2>4, <3>1, <3>2 DEF InotifyInv, HandlesListed, WalkSound
      <4> QED BY <3>1, <4>1, <4>2, <4>3 DEF WatchInv, InotifyInv
    <3> QED BY <1>1, <2>1, <3>3
  <2> QED BY <2>3, <2>4
<1>5. ASSUME NEW h \in Watching, NEW p \in Paths, uv_fs_event_start(h, p) PROVE InotifyInv'
  <2>1. life[h] = "open" /\ h \notin active /\ StartWatching(h, p) /\ restart' = restart
    BY <1>5 DEF uv_fs_event_start
  <2> QED BY <1>1, <2>1, StartKeepsLists
<1> QED BY <1>2, <1>3, <1>4, <1>5 DEF InotifyUser

LEMMA KernelKeepsInv ==
  ASSUME InotifyInv,
         \/ \E d \in 1..MaxWd : FileEvent(d)
         \/ \E h \in Watching : FinishFsEvent(h)
         \/ ReadEvents \/ EventCallbackReturns
  PROVE  InotifyInv'
<1>0. life \in [Handles -> {"none", "open", "closing", "closed"}] /\ Watching \subseteq Handles
  BY WatchingAssumption DEF InotifyInv, InotifyTypes
<1>00. restart # <<>> => batch = <<>>
  BY DEF InotifyInv, RestartSound
<1>1. ASSUME NEW d \in 1..MaxWd, FileEvent(d) PROVE InotifyInv'
  <2>1. /\ UNCHANGED <<next_wd, inotify_watchers, wd, walked, batch, todo, in_event_cb, owed, restart, active, life>>
        /\ DOMAIN kernel' \subseteq DOMAIN kernel
    BY <1>1 DEF FileEvent, walkVars, forkVars, handleVars, Without
  <2> QED BY <1>0, <1>00, <2>1, ListsStand
<1>2. ASSUME NEW h \in Watching, FinishFsEvent(h) PROVE InotifyInv'
  <2>1. /\ UNCHANGED <<next_wd, inotify_watchers, kernel, wd, walked, batch, todo, in_event_cb, owed, restart, active>>
        /\ life[h] = "closing" /\ life' = [life EXCEPT ![h] = "closed"]
    BY <1>2 DEF FinishFsEvent, inotifyVars, kernelVars, walkVars, forkVars
  <2>2. /\ life' \in [Handles -> {"none", "open", "closing", "closed"}]
        /\ \A x \in Handles : life[x] = "open" => life'[x] = "open"
    BY <2>1, <1>0
  <2> QED BY <1>00, <2>1, <2>2, ListsStand
<1>3. CASE ReadEvents
  <2>1. /\ UNCHANGED <<next_wd, inotify_watchers, kernel, wd, walked, todo, in_event_cb, owed, restart, active, life>>
        /\ restart = <<>>
    BY <1>3 DEF ReadEvents, LoopIsFree, forkVars, handleVars
  <2> QED BY <1>0, <2>1, ListsStand
<1>4. CASE EventCallbackReturns
  <2>1. /\ UNCHANGED <<next_wd, inotify_watchers, kernel, wd, walked, batch, todo, owed, restart, active, life>>
        /\ in_event_cb' = FALSE
    BY <1>4 DEF EventCallbackReturns, kernelVars, forkVars, handleVars
  <2> QED BY <1>0, <1>00, <2>1, ListsStand
<1> QED BY <1>1, <1>2, <1>3, <1>4

-----------------------------------------------------------------------------
(* uv__inotify_fork.                                                        *)

LEMMA ForkKeepsInv == ASSUME InotifyInv, uv__inotify_fork PROVE InotifyInv'
<1> USE DEF InotifyInv
<1> DEFINE listed == active \cap Watching
<1>1. /\ walked = -1 /\ batch = <<>> /\ todo = <<>>
      /\ active' = active \ listed /\ wd' = [h \in Watching |-> -1]
      /\ kernel' = <<>> /\ next_wd' = 1 /\ inotify_watchers' = <<>>
      /\ UNCHANGED <<walked, batch, todo, in_event_cb, owed, life>>
  BY DEF uv__inotify_fork, LoopIsFree, walkVars, WalkSound
<1>2. PICK order \in [1..Cardinality(listed) -> listed] :
        /\ InTreeOrder(order)
        /\ restart' = [i \in 1..Cardinality(listed) |-> <<order[i], ListOf(order[i]).path>>]
  BY DEF uv__inotify_fork
<1> DEFINE n == Cardinality(listed)
<1>3. IsFiniteSet(listed) /\ n \in Nat
  <2>1. listed \subseteq Handles
    BY WatchingAssumption
  <2> QED BY <2>1, HandlesAssumption, FS_Subset, FS_CardinalityType
<1> HIDE DEF listed
<1>4. \A i \in 1..n : order[i] \in listed /\ order[i] \in Watching /\ life[order[i]] = "open"
                        /\ wd[order[i]] \in DOMAIN inotify_watchers /\ ListOf(order[i]).path \in Paths
  BY <1>2 DEF listed, HandlesListed, InotifyTypes, WatchList, ListOf
<1>5. restart' \in Seq(Watching \X Paths) /\ Len(restart') = n
  <2>1. restart' \in [1..n -> Watching \X Paths]
    BY <1>2, <1>4
  <2> QED BY <2>1, <1>3, SeqDef, LenProperties
\* No handle is behind itself, so none is there twice.
<1>6. \A i \in 1..n : restart'[i][1] = order[i]
  BY <1>2
<1>7. ASSUME NEW i \in 1..n, NEW j \in 1..n, i < j PROVE order[i] # order[j]
  <2>1. Len(order) = n
    BY <1>2, <1>3
  <2>2. Behind(order[i], order[j])
    BY <2>1, <1>2, <1>7 DEF InTreeOrder
  <2>3. ASSUME NEW h \in listed, Behind(h, h) PROVE FALSE
    <3>1. h \in Watching /\ wd[h] \in DOMAIN inotify_watchers /\ wd[h] \in Int
      BY <2>3 DEF listed, HandlesListed, InotifyTypes
    <3>2. Distinct(ListOf(h).watchers)
      BY <3>1 DEF ListOf, ListSound
    <3>3. PICK k, m \in 1..Len(ListOf(h).watchers) :
            k < m /\ ListOf(h).watchers[k] = h /\ ListOf(h).watchers[m] = h
      BY <2>3, <3>1 DEF Behind
    <3>4. ListOf(h).watchers \in Seq(Watching)
      BY <3>1 DEF ListOf, InotifyTypes, WatchList
    <3> QED BY <3>2, <3>3 DEF Distinct
  <2> QED BY <2>2, <2>3, <1>4
<1>8. RestartSound'
  BY <1>1, <1>3, <1>4, <1>5, <1>6, <1>7 DEF RestartSound
<1>9. DOMAIN <<>> = {}
  OBVIOUS
<1>10. InotifyTypes' /\ HandlesListed' /\ WalkSound'
  BY <1>1, <1>9 DEF InotifyTypes, HandlesListed, WalkSound, listed
<1> QED BY <1>1, <1>8, <1>9, <1>10

LEMMA StartAgainKeepsInv == ASSUME InotifyInv, StartAgain \/ StartAgainFails PROVE InotifyInv'
<1>0. /\ restart # <<>> /\ restart \in Seq(Watching \X Paths) /\ Len(restart) \in Nat /\ Len(restart) > 0
      /\ Head(restart) = restart[1] /\ restart[1] \in Watching \X Paths
      /\ Tail(restart) \in Seq(Watching \X Paths) /\ Len(Tail(restart)) = Len(restart) - 1
      /\ \A i \in 1..(Len(restart) - 1) : Tail(restart)[i] = restart[i + 1]
  <2>1. restart # <<>> /\ restart \in Seq(Watching \X Paths)
    BY DEF StartAgain, StartAgainFails, InotifyInv, RestartSound
  <2> QED BY <2>1, HeadTailProperties, LenProperties, EmptySeq
<1>1. CASE StartAgain
  <2> DEFINE h == Head(restart)[1]
             p == Head(restart)[2]
  <2>1. h \in Watching /\ p \in Paths /\ life[h] = "open" /\ h \notin active
    BY <1>0 DEF InotifyInv, RestartSound
  <2>2. StartWatching(h, p) /\ restart' = Tail(restart)
    BY <1>1 DEF StartAgain
  <2>3. active' = active \cup {h} /\ UNCHANGED <<walked, batch, life>>
    BY <2>2 DEF StartWatching, HandleStart, walkVars
  <2>4. WatchInv'
    BY <2>1, <2>2, StartKeepsLists
  <2> HIDE DEF h, p
  <2>5. RestartSound'
    <3>1. \A i \in 1..Len(restart') : i + 1 \in 1..Len(restart) /\ i + 1 # 1
          /\ restart'[i] = restart[i + 1]
      BY <1>0, <2>2
    <3>2. \A i \in 1..Len(restart') : restart[i + 1][1] # h
      <4>1. 1 \in 1..Len(restart) /\ restart[1][1] = h
        BY <1>0 DEF h
      <4> QED BY <3>1, <4>1 DEF InotifyInv, RestartSound
    <3>3. ASSUME NEW i \in 1..Len(restart')
          PROVE  life'[restart'[i][1]] = "open" /\ restart'[i][1] \notin active'
      <4>1. i + 1 \in 1..Len(restart) /\ restart'[i] = restart[i + 1] /\ restart[i + 1][1] # h
        BY <3>1, <3>2
      <4>2. life[restart[i + 1][1]] = "open" /\ restart[i + 1][1] \notin active
        BY <4>1 DEF InotifyInv, RestartSound
      <4> QED BY <2>3, <4>1, <4>2
    <3>4. ASSUME NEW i \in 1..Len(restart'), NEW j \in 1..Len(restart'), restart'[i][1] = restart'[j][1]
          PROVE  i = j
      <4>1. i + 1 = j + 1
        <5>1. /\ i + 1 \in 1..Len(restart) /\ j + 1 \in 1..Len(restart)
              /\ restart[i + 1][1] = restart[j + 1][1]
          BY <3>1, <3>4
        <5> QED BY <5>1 DEF InotifyInv, RestartSound
      <4> QED BY <4>1
    <3> QED BY <1>0, <2>2, <2>3, <3>3, <3>4 DEF InotifyInv, RestartSound
  <2> QED BY <2>4, <2>5 DEF InotifyInv, WatchInv
<1>2. CASE StartAgainFails
  <2>1. /\ restart' = <<>>
        /\ UNCHANGED <<kernel, next_wd, inotify_watchers, wd, walked, batch, todo, in_event_cb, owed, life, active>>
    BY <1>2 DEF StartAgainFails, kernelVars, walkVars, handleVars
  <2>2. RestartSound'
    BY <2>1 DEF RestartSound
  <2>3. ASSUME NEW e \in DOMAIN inotify_watchers' PROVE ListSound(e)'
    BY <2>1, <2>3 DEF InotifyInv, ListSound, On
  <2> QED BY <2>1, <2>2, <2>3 DEF InotifyInv, InotifyTypes, HandlesListed, WalkSound
<1> QED BY <1>1, <1>2

LEMMA InotifyInvStep ==
  ASSUME InotifyInv, [InotifyNext]_<<handleVars, inotifyVars>> PROVE InotifyInv'
<1>1. CASE UNCHANGED <<handleVars, inotifyVars>>
  <2>1. UNCHANGED <<kernel, next_wd, inotify_watchers, wd, walked, batch, todo, in_event_cb, owed, restart, life, active>>
    BY <1>1 DEF handleVars, inotifyVars, kernelVars, walkVars, forkVars
  <2>2. life \in [Handles -> {"none", "open", "closing", "closed"}] /\ (restart # <<>> => batch = <<>>)
    BY DEF InotifyInv, InotifyTypes, RestartSound
  <2> QED BY <2>1, <2>2, ListsStand
<1>2. CASE InotifyNext
  BY <1>2, InotifyUserKeepsInv, KernelKeepsInv, NextEventKeepsInv, CallHandleKeepsInv, WalkDoneKeepsInv,
     ForkKeepsInv, StartAgainKeepsInv DEF InotifyNext, InotifyRead, InotifyFork
<1> QED BY <1>1, <1>2

\* The list that uv__inotify_read walks outlives the walk, an event reaches
\* each handle that watched when it came, once, and a handle is linked exactly
\* where it is said to be: whatever callbacks start, stop and close, for any
\* handles, files and forks.
THEOREM WatchersGetEvents == InotifySpec => []InotifyPromise
<1>1. NoHandles /\ InotifyInit => InotifyInv
  BY InotifyInvInit
<1>2. InotifyInv /\ [InotifyNext]_<<handleVars, inotifyVars>> => InotifyInv'
  BY InotifyInvStep
<1>3. InotifyInv => InotifyPromise
  BY InotifyInvGivesPromise
<1> QED BY <1>1, <1>2, <1>3, PTL DEF InotifySpec

-----------------------------------------------------------------------------
(* Polling a file (fs-poll.c): the chain of contexts, and what they know.   *)

PollTypes ==
  /\ life \in [Handles -> {"none", "open", "closing", "closed"}]
  /\ poll_ctx \in Seq(Contexts) /\ polling \in Contexts \cup {0} /\ close_ready \in BOOLEAN
  /\ fs_req \in [Contexts -> {"none", "stat", "done", "told", "quiet"}]
  /\ timer \in [Contexts -> {"idle", "armed", "closing"}]
  /\ result \in [Contexts -> Int] /\ statbuf \in [Contexts -> Int] /\ reported \in [Contexts -> Int]
  /\ busy_polling \in [Contexts -> Int]
  /\ \A c \in Contexts : busy_polling[c] \in {0, 1} \/ busy_polling[c] < 0

\* A context waits for one thing at a time, and is on the chain as long as it does.
ContextsPlaced ==
  /\ Distinct(poll_ctx)
  /\ \A c \in Contexts : /\ Linked(poll_ctx, c) <=> Busy(c) \/ timer[c] # "idle"
                         /\ Busy(c) => timer[c] = "idle"
                         /\ fs_req[c] \in {"told", "quiet"} <=> polling = c

\* The handle is closed after its contexts, and the newest goes on while it is active.
PollerWaits ==
  /\ close_ready => poll_ctx = <<>> /\ life[poller] = "closing"
  /\ life[poller] \in {"none", "closed"} => poll_ctx = <<>>
  /\ poller \in active => life[poller] = "open" /\ poll_ctx # <<>> /\ timer[Head(poll_ctx)] # "closing"

\* Only the newest goes on, if the user starts again only when no stat is in flight.
NewestGoesOn ==
  ~StartOver => \A c \in Contexts :
                  /\ Busy(c) \/ timer[c] = "armed" => Head(poll_ctx) = c
                  /\ timer[c] = "armed" => poller \in active

FsPollInv == PollTypes /\ ContextsPlaced /\ PollerWaits /\ NewestGoesOn /\ NothingMissed

-----------------------------------------------------------------------------
\* The head of a chain after an insertion at it, and after a removal elsewhere.
LEMMA InsertedIsHead ==
  ASSUME NEW S, NEW q \in Seq(S), NEW n \in S
  PROVE  <<n>> \o q # <<>> /\ Head(<<n>> \o q) = n
<1> DEFINE c == <<n>> \o q
<1>1. <<n>> \in Seq(S) /\ Len(<<n>>) = 1 /\ <<n>>[1] = n /\ Len(q) \in Nat
  BY LenProperties
<1>2. /\ c \in Seq(S) /\ Len(c) = 1 + Len(q)
      /\ \A i \in 1..1 + Len(q) : c[i] = IF i <= 1 THEN <<n>>[i] ELSE q[i - 1]
  BY <1>1, ConcatProperties
<1>3. c[1] = n
  BY <1>1, <1>2
<1> HIDE DEF c
<1>4. c # <<>>
  BY <1>1, <1>2, EmptySeq
<1>5. Head(c) = c[1]
  BY <1>2, <1>4, HeadTailProperties
<1> QED BY <1>3, <1>4, <1>5 DEF c

LEMMA UnlinkKeepsHead ==
  ASSUME NEW S, NEW q \in Seq(S), q # <<>>, NEW n, n # Head(q)
  PROVE  Unlink(q, n) # <<>> /\ Head(Unlink(q, n)) = Head(q)
<1>1. Head(q) = q[1] /\ Len(q) \in Nat \ {0}
  BY HeadTailProperties, EmptySeq, LenProperties
<1>2. CASE Linked(q, n)
  <2> DEFINE u == Unlink(q, n)
             p == Position(q, n)
  <2>1. /\ p \in 1..Len(q) /\ q[p] = n /\ Len(u) = Len(q) - 1
        /\ \A k \in 1..(Len(q) - 1) : u[k] = IF k < p THEN q[k] ELSE q[k + 1]
    BY <1>2, UnlinkElements
  <2>2. u \in Seq(S)
    BY UnlinkType
  <2> HIDE DEF u, p
  <2>3. p # 1
    BY <1>1, <2>1
  <2>4. u[1] = q[1] /\ Len(u) # 0
    BY <1>1, <2>1, <2>3
  <2>5. u # <<>>
    BY <2>2, <2>4, EmptySeq
  <2>6. Head(u) = u[1]
    BY <2>2, <2>5, HeadTailProperties
  <2> QED BY <1>1, <2>4, <2>5, <2>6 DEF u
<1>3. CASE ~Linked(q, n)
  BY <1>3 DEF Unlink
<1> QED BY <1>2, <1>3

\* What is at the head of the chain is a context on it.
LEMMA HeadIsContext ==
  ASSUME FsPollInv, poll_ctx # <<>>
  PROVE  Head(poll_ctx) \in Contexts /\ Linked(poll_ctx, Head(poll_ctx))
<1>1. poll_ctx \in Seq(Contexts)
  BY DEF FsPollInv, PollTypes
<1>2. Len(poll_ctx) \in Nat /\ Len(poll_ctx) # 0 /\ Head(poll_ctx) = poll_ctx[1]
  BY <1>1, LenProperties, EmptySeq, HeadTailProperties
<1>3. 1 \in 1..Len(poll_ctx)
  BY <1>2
<1> QED BY <1>1, <1>2, <1>3, ElementOfSeq DEF Linked

LEMMA ContextsArePositive == poller \in Handles /\ \A c \in Contexts : c \in Nat /\ c # 0
BY PollAssumption

\* The user starts: a new context is the newest.
LEMMA StartKeepsFsPoll ==
  ASSUME FsPollInv, NEW c \in Contexts, uv_fs_poll_start(c)
  PROVE  FsPollInv'
<1> USE DEF FsPollInv
<1>1. /\ life[poller] = "open" /\ poller \notin active /\ ~Linked(poll_ctx, c)
      /\ StartOver \/ \A b \in Contexts : ~Busy(b) /\ polling # b
      /\ poll_ctx' = <<c>> \o poll_ctx
      /\ fs_req' = [fs_req EXCEPT ![c] = "stat"]
      /\ busy_polling' = [busy_polling EXCEPT ![c] = 0]
      /\ statbuf' = [statbuf EXCEPT ![c] = 0]
      /\ reported' = [reported EXCEPT ![c] = 0]
      /\ active' = active \cup {poller}
      /\ UNCHANGED <<timer, result, polling, close_ready, life>>
  BY DEF uv_fs_poll_start, Fresh, HandleStart
<1>2. /\ poll_ctx' \in Seq(Contexts) /\ Distinct(poll_ctx') /\ poll_ctx' # <<>> /\ Head(poll_ctx') = c
      /\ \A m : Linked(poll_ctx', m) <=> Linked(poll_ctx, m) \/ m = c
  <2>1. poll_ctx \in Seq(Contexts) /\ Distinct(poll_ctx)
    BY DEF PollTypes, ContextsPlaced
  <2> HIDE DEF FsPollInv
  <2> DEFINE d == <<c>> \o poll_ctx
  <2>2. /\ d \in Seq(Contexts) /\ (Distinct(poll_ctx) /\ ~Linked(poll_ctx, c) => Distinct(d))
        /\ \A m : Linked(d, m) <=> Linked(poll_ctx, m) \/ m = c
    BY <2>1, InsertHeadDistinct
  <2>3. d # <<>> /\ Head(d) = c
    BY <2>1, InsertedIsHead
  <2>4. poll_ctx' = d
    BY <1>1
  <2> HIDE DEF d
  <2> QED BY <1>1, <2>1, <2>2, <2>3, <2>4 DEF Linked, Distinct
<1>3. fs_req[c] = "none" /\ timer[c] = "idle"
  BY <1>1 DEF ContextsPlaced, Busy
<1>4. PollTypes'
  BY <1>1, <1>2 DEF PollTypes
<1>5. ContextsPlaced'
  BY <1>1, <1>2, <1>3 DEF ContextsPlaced, Busy, PollTypes
<1>6. PollerWaits'
  BY <1>1, <1>2, <1>3 DEF PollerWaits, PollTypes
<1>7. NewestGoesOn'
  BY <1>1, <1>2, <1>3 DEF NewestGoesOn, Busy, PollTypes
<1>8. NothingMissed'
  BY <1>1, <1>2 DEF NothingMissed, PollTypes
<1> QED BY <1>4, <1>5, <1>6, <1>7, <1>8

\* What stopping does to the timer of the newest.
LEMMA TimerStoppedIs ==
  ASSUME FsPollInv, poll_ctx # <<>>
  PROVE  /\ TimerStopped \in [Contexts -> {"idle", "armed", "closing"}]
         /\ TimerStopped[Head(poll_ctx)] # "armed"
         /\ \A c \in Contexts : TimerStopped[c] = "idle" <=> timer[c] = "idle"
         /\ \A c \in Contexts : TimerStopped[c] = "armed" => timer[c] = "armed" /\ Head(poll_ctx) # c
BY HeadIsContext DEF FsPollInv, PollTypes, TimerStopped

\* The other calls of the user.
LEMMA CallsKeepFsPoll ==
  ASSUME FsPollInv, uv_fs_poll_init \/ uv_fs_poll_stop \/ uv__fs_poll_close
  PROVE  FsPollInv'
<1> USE DEF FsPollInv
<1>0. poller \in Handles
  BY ContextsArePositive
<1>1. UNCHANGED <<poll_ctx, fs_req, result, busy_polling, statbuf, reported, polling>>
  BY DEF uv_fs_poll_init, uv_fs_poll_stop, uv__fs_poll_close, fsPollVars, ctxVars
<1>2. NothingMissed'
  BY <1>1 DEF NothingMissed
<1>3. CASE uv_fs_poll_init
  <2>1. /\ life[poller] \in {"none", "closed"} /\ life' = [life EXCEPT ![poller] = "open"]
        /\ active' = active \ {poller} /\ UNCHANGED <<timer, close_ready>>
    BY <1>3 DEF uv_fs_poll_init, HandleInit, fsPollVars, ctxVars
  <2>2. ~close_ready /\ poller \notin active
    BY <2>1 DEF PollerWaits
  <2>3. PollTypes'
    BY <1>0, <1>1, <2>1 DEF PollTypes
  <2>4. ContextsPlaced'
    BY <1>1, <2>1 DEF ContextsPlaced, Busy
  <2>5. PollerWaits'
    BY <1>0, <1>1, <2>1, <2>2 DEF PollerWaits, PollTypes
  <2>6. NewestGoesOn'
    BY <1>1, <2>1, <2>2 DEF NewestGoesOn, Busy
  <2> QED BY <1>2, <2>3, <2>4, <2>5, <2>6
<1>4. CASE uv_fs_poll_stop
  <2>1. poller \in active /\ timer' = TimerStopped /\ active' = active \ {poller}
        /\ UNCHANGED <<life, close_ready>>
    BY <1>4 DEF uv_fs_poll_stop, HandleStop
  <2>2. poll_ctx # <<>>
    BY <2>1 DEF PollerWaits
  <2>3. /\ timer' \in [Contexts -> {"idle", "armed", "closing"}]
        /\ timer'[Head(poll_ctx)] # "armed"
        /\ \A c \in Contexts : timer'[c] = "idle" <=> timer[c] = "idle"
        /\ \A c \in Contexts : timer'[c] = "armed" => timer[c] = "armed" /\ Head(poll_ctx) # c
    BY <2>1, <2>2, TimerStoppedIs
  <2>4. PollTypes'
    BY <1>1, <2>1, <2>3 DEF PollTypes
  <2>5. ContextsPlaced'
    BY <1>1, <2>3 DEF ContextsPlaced, Busy
  <2>6. PollerWaits'
    BY <1>1, <2>1 DEF PollerWaits
  <2>7. NewestGoesOn'
    BY <1>1, <2>1, <2>3 DEF NewestGoesOn, Busy
  <2> QED BY <1>2, <2>4, <2>5, <2>6, <2>7
<1>5. CASE uv__fs_poll_close
  <2>1. /\ life[poller] = "open" /\ life' = [life EXCEPT ![poller] = "closing"]
        /\ timer' = (IF poller \in active THEN TimerStopped ELSE timer)
        /\ active' = active \ {poller} /\ close_ready' = (poll_ctx = <<>>)
    BY <1>5 DEF uv__fs_poll_close, HandleStop, ReadyIfNoContext
  <2>2. poller \in active => poll_ctx # <<>>
    BY DEF PollerWaits
  <2>3. /\ timer' \in [Contexts -> {"idle", "armed", "closing"}]
        /\ \A c \in Contexts : timer'[c] = "idle" <=> timer[c] = "idle"
        /\ \A c \in Contexts : timer'[c] = "armed" =>
             timer[c] = "armed" /\ (poller \in active => Head(poll_ctx) # c)
    <3>1. CASE poller \in active
      BY <2>1, <2>2, <3>1, TimerStoppedIs
    <3>2. CASE poller \notin active
      BY <2>1, <3>2 DEF PollTypes
    <3> QED BY <3>1, <3>2
  <2>4. PollTypes'
    BY <1>0, <1>1, <2>1, <2>3 DEF PollTypes
  <2>5. ContextsPlaced'
    BY <1>1, <2>3 DEF ContextsPlaced, Busy
  <2>6. PollerWaits'
    BY <1>0, <1>1, <2>1 DEF PollerWaits, PollTypes
  <2>7. NewestGoesOn'
    BY <1>1, <2>1, <2>3 DEF NewestGoesOn, Busy
  <2> QED BY <1>2, <2>4, <2>5, <2>6, <2>7
<1> QED BY <1>3, <1>4, <1>5

\* The pool answers, the timer is due, and poll_cb looks at the answer.
LEMMA AnswersKeepFsPoll ==
  ASSUME FsPollInv, NEW c \in Contexts,
         timer_cb(c) \/ poll_cb(c) \/ \E outcome \in Versions \cup Errors : Stat(c, outcome)
  PROVE  FsPollInv'
<1> USE DEF FsPollInv
<1>0. c \in Nat /\ c # 0
  BY ContextsArePositive
<1>1. UNCHANGED <<poll_ctx, close_ready, life, active>>
  BY DEF timer_cb, poll_cb, Stat, handleVars
<1>2. CASE timer_cb(c)
  <2>1. /\ timer[c] = "armed" /\ polling = 0 /\ timer' = [timer EXCEPT ![c] = "idle"]
        /\ fs_req' = [fs_req EXCEPT ![c] = "stat"]
        /\ UNCHANGED <<result, busy_polling, statbuf, reported, polling>>
    BY <1>2 DEF timer_cb
  <2>2. PollTypes'
    BY <1>1, <2>1 DEF PollTypes
  <2>3. ContextsPlaced'
    BY <1>0, <1>1, <2>1 DEF ContextsPlaced, Busy, PollTypes
  <2>4. PollerWaits'
    <3>1. poll_ctx # <<>> /\ timer'[Head(poll_ctx)] = "closing" => timer[Head(poll_ctx)] = "closing"
      BY <2>1, HeadIsContext DEF PollTypes
    <3> QED BY <1>1, <3>1 DEF PollerWaits
  <2>5. NewestGoesOn'
    BY <1>1, <2>1 DEF NewestGoesOn, Busy, PollTypes
  <2>6. NothingMissed'
    BY <1>1, <2>1 DEF NothingMissed
  <2> QED BY <2>2, <2>3, <2>4, <2>5, <2>6
<1>3. ASSUME NEW outcome \in Versions \cup Errors, Stat(c, outcome) PROVE FsPollInv'
  <2>1. /\ fs_req[c] = "stat" /\ fs_req' = [fs_req EXCEPT ![c] = "done"]
        /\ result' = [result EXCEPT ![c] = outcome]
        /\ UNCHANGED <<timer, busy_polling, statbuf, reported, polling>>
    BY <1>3 DEF Stat
  <2>2. outcome \in Int
    BY PollAssumption
  <2>3. PollTypes'
    BY <1>1, <2>1, <2>2 DEF PollTypes
  <2>4. ContextsPlaced' /\ NewestGoesOn'
    <3>1. \A b \in Contexts : (Busy(b)' <=> Busy(b)) /\ timer'[b] = timer[b]
                             /\ (fs_req'[b] \in {"told", "quiet"} <=> fs_req[b] \in {"told", "quiet"})
      BY <2>1 DEF Busy, PollTypes
    <3>2. ContextsPlaced'
      BY <1>1, <2>1, <3>1 DEF ContextsPlaced
    <3>3. NewestGoesOn'
      BY <1>1, <3>1 DEF NewestGoesOn
    <3> QED BY <3>2, <3>3
  <2>5. PollerWaits' /\ NothingMissed'
    BY <1>1, <2>1 DEF PollerWaits, NothingMissed
  <2> QED BY <2>3, <2>4, <2>5
<1>4. CASE poll_cb(c)
  <2>1. /\ fs_req[c] = "done" /\ polling = 0 /\ polling' = c
        /\ fs_req' = [fs_req EXCEPT ![c] = IF ~NotPolling /\ News(c) THEN "told" ELSE "quiet"]
        /\ UNCHANGED <<timer, result>>
    BY <1>4 DEF poll_cb
  <2>2. ContextsPlaced' /\ NewestGoesOn'
    <3>1. fs_req'[c] \in {"told", "quiet"} /\ \A b \in Contexts \ {c} : fs_req'[b] = fs_req[b]
      BY <2>1 DEF PollTypes
    <3>2. \A b \in Contexts : fs_req[b] \notin {"told", "quiet"}
      BY <2>1, ContextsArePositive DEF ContextsPlaced
    <3>3. \A b \in Contexts : (Busy(b)' <=> Busy(b)) /\ timer'[b] = timer[b]
                             /\ (fs_req'[b] \in {"told", "quiet"} <=> b = c)
      BY <2>1, <3>1, <3>2 DEF Busy
    <3>4. ContextsPlaced'
      BY <1>1, <2>1, <3>3 DEF ContextsPlaced
    <3>5. NewestGoesOn'
      BY <1>1, <3>3 DEF NewestGoesOn
    <3> QED BY <3>4, <3>5
  <2>3. PollerWaits'
    BY <1>1, <2>1 DEF PollerWaits
  <2>4. CASE NotPolling
    <3>1. UNCHANGED <<busy_polling, statbuf, reported>>
      BY <1>4, <2>4 DEF poll_cb
    <3>2. PollTypes'
      BY <1>1, <2>1, <3>1 DEF PollTypes
    <3>3. NothingMissed'
      BY <1>1, <3>1 DEF NothingMissed
    <3> QED BY <2>2, <2>3, <3>2, <3>3
  <2>5. CASE ~NotPolling
    <3>1. /\ busy_polling' = [busy_polling EXCEPT ![c] = IF result[c] < 0 THEN result[c] ELSE 1]
          /\ statbuf' = [statbuf EXCEPT ![c] = IF result[c] < 0 THEN statbuf[c] ELSE result[c]]
          /\ reported' = [reported EXCEPT ![c] =
               IF News(c) \/ busy_polling[c] = 0 THEN result[c] ELSE reported[c]]
      BY <1>4, <2>5 DEF poll_cb
    <3>2. /\ result[c] \in Int /\ statbuf[c] \in Int /\ busy_polling[c] \in Int /\ reported[c] \in Int
          /\ busy_polling[c] \in {0, 1} \/ busy_polling[c] < 0
      BY DEF PollTypes
    <3>3. PollTypes'
      BY <1>1, <2>1, <3>1, <3>2 DEF PollTypes
    <3>4. Linked(poll_ctx, c)
      BY <2>1 DEF ContextsPlaced, Busy
    <3>5. reported'[c] = IF busy_polling'[c] = 1 THEN statbuf'[c] ELSE busy_polling'[c]
      <4>1. /\ busy_polling'[c] = IF result[c] < 0 THEN result[c] ELSE 1
            /\ statbuf'[c] = IF result[c] < 0 THEN statbuf[c] ELSE result[c]
            /\ reported'[c] = IF News(c) \/ busy_polling[c] = 0 THEN result[c] ELSE reported[c]
        BY <3>1 DEF PollTypes
      <4>2. reported[c] = IF busy_polling[c] = 1 THEN statbuf[c] ELSE busy_polling[c]
        BY <3>4 DEF NothingMissed
      <4>3. CASE result[c] < 0
        <5>1. News(c) <=> busy_polling[c] # result[c]
          BY <4>3 DEF News
        <5> QED BY <3>2, <4>1, <4>2, <4>3, <5>1
      <4>4. CASE ~(result[c] < 0)
        <5>1. News(c) <=> busy_polling[c] # 0 /\ (busy_polling[c] < 0 \/ statbuf[c] # result[c])
          BY <4>4 DEF News
        <5> QED BY <3>2, <4>1, <4>2, <4>4, <5>1
      <4> QED BY <4>3, <4>4
    <3>6. \A b \in Contexts : b # c => /\ reported'[b] = reported[b] /\ statbuf'[b] = statbuf[b]
                                       /\ busy_polling'[b] = busy_polling[b]
      BY <3>1 DEF PollTypes
    <3>7. NothingMissed'
      BY <1>1, <3>5, <3>6 DEF NothingMissed
    <3> QED BY <2>2, <2>3, <3>3, <3>7
  <2> QED BY <2>4, <2>5
<1> QED BY <1>2, <1>3, <1>4

\* poll_cb arms or closes the timer; the timer is closed; the handle is finished.
LEMMA TimersKeepFsPoll ==
  ASSUME FsPollInv, PollCbReturns \/ FinishFsPoll \/ \E c \in Contexts : timer_close_cb(c)
  PROVE  FsPollInv'
<1> USE DEF FsPollInv
<1>1. CASE PollCbReturns
  <2> DEFINE c == polling
  <2>1. /\ c # 0 /\ timer' = [timer EXCEPT ![c] = IF NotPolling THEN "closing" ELSE "armed"]
        /\ fs_req' = [fs_req EXCEPT ![c] = "none"] /\ polling' = 0
        /\ result' = [result EXCEPT ![c] = 0]
        /\ UNCHANGED <<poll_ctx, busy_polling, statbuf, reported, close_ready, life, active>>
    BY <1>1 DEF PollCbReturns, Rearm, handleVars
  <2>2. c \in Contexts /\ Busy(c) /\ Linked(poll_ctx, c) /\ 0 \notin Contexts
    BY <2>1, ContextsArePositive DEF PollTypes, ContextsPlaced, Busy
  <2> HIDE DEF c
  <2>3. PollTypes'
    BY <2>1, <2>2 DEF PollTypes
  <2>4. ContextsPlaced'
    <3>1. \A b \in Contexts : fs_req[b] \in {"told", "quiet"} => b = c
      BY DEF ContextsPlaced, c
    <3> QED BY <2>1, <2>2, <3>1 DEF ContextsPlaced, Busy, PollTypes
  <2>5. PollerWaits'
    <3>1. poller \in active => ~NotPolling /\ poll_ctx # <<>>
      BY DEF PollerWaits, NotPolling, IsClosing
    <3>2. poller \in active => timer'[Head(poll_ctx)] # "closing"
      BY <2>1, <2>2, <3>1, HeadIsContext DEF PollerWaits, PollTypes
    <3> QED BY <2>1, <3>2 DEF PollerWaits
  <2>6. NewestGoesOn'
    <3>1. ~NotPolling => poller \in active
      BY DEF NotPolling
    <3> QED BY <2>1, <2>2, <3>1 DEF NewestGoesOn, Busy, PollTypes
  <2>7. NothingMissed'
    BY <2>1 DEF NothingMissed
  <2> QED BY <2>3, <2>4, <2>5, <2>6, <2>7
<1>2. CASE FinishFsPoll
  <2>1. /\ close_ready /\ close_ready' = FALSE /\ life' = [life EXCEPT ![poller] = "closed"]
        /\ UNCHANGED <<poll_ctx, fs_req, result, timer, busy_polling, statbuf, reported, polling, active>>
    BY <1>2 DEF FinishFsPoll, ctxVars
  <2>2. poller \in Handles /\ poll_ctx = <<>> /\ poller \notin active
    BY <2>1, ContextsArePositive DEF PollerWaits
  <2>3. PollTypes' /\ ContextsPlaced' /\ PollerWaits' /\ NewestGoesOn' /\ NothingMissed'
    BY <2>1, <2>2 DEF PollTypes, ContextsPlaced, PollerWaits, NewestGoesOn, NothingMissed, Busy
  <2> QED BY <2>3
<1>3. ASSUME NEW c \in Contexts, timer_close_cb(c) PROVE FsPollInv'
  <2>1. /\ timer[c] = "closing" /\ polling = 0 /\ poll_ctx' = Unlink(poll_ctx, c)
        /\ timer' = [timer EXCEPT ![c] = "idle"]
        /\ close_ready' = (close_ready \/ (poll_ctx = <<c>> /\ IsClosing(poller)))
        /\ busy_polling' = [busy_polling EXCEPT ![c] = 0]
        /\ statbuf' = [statbuf EXCEPT ![c] = 0]
        /\ reported' = [reported EXCEPT ![c] = 0]
        /\ UNCHANGED <<fs_req, result, polling, life, active>>
    BY <1>3 DEF timer_close_cb, Fresh, handleVars
  <2>2. Linked(poll_ctx, c) /\ ~Busy(c) /\ poll_ctx \in Seq(Contexts) /\ Distinct(poll_ctx)
    BY <2>1 DEF ContextsPlaced, PollTypes, Busy
  <2>3. poll_ctx # <<>>
    BY <2>2 DEF Linked
  <2>4. /\ poll_ctx' \in Seq(Contexts) /\ Distinct(poll_ctx')
        /\ \A m : Linked(poll_ctx', m) <=> Linked(poll_ctx, m) /\ m # c
    <3> DEFINE u == Unlink(poll_ctx, c)
    <3>1. u \in Seq(Contexts) /\ Distinct(u) /\ \A m : Linked(u, m) <=> Linked(poll_ctx, m) /\ m # c
      BY <2>2, UnlinkType, UnlinkDistinct
    <3>2. poll_ctx' = u
      BY <2>1
    <3> HIDE DEF u
    <3> QED BY <3>1, <3>2 DEF Linked, Distinct
  <2>5. c # Head(poll_ctx) => poll_ctx' # <<>> /\ Head(poll_ctx') = Head(poll_ctx)
    BY <2>1, <2>2, <2>3, UnlinkKeepsHead
  <2>6. PollTypes'
    BY SMTT(30), <2>1, <2>4 DEF PollTypes
  <2>7. ContextsPlaced'
    BY <2>1, <2>2, <2>4 DEF ContextsPlaced, Busy, PollTypes
  <2>8. PollerWaits'
    <3>1. ~close_ready /\ life[poller] \in {"open", "closing"}
      BY <2>3, ContextsArePositive DEF PollerWaits, PollTypes
    <3>2. close_ready' => poll_ctx' = <<>> /\ life'[poller] = "closing"
      <4> SUFFICES ASSUME close_ready' PROVE poll_ctx' = <<>> /\ life'[poller] = "closing"
        OBVIOUS
      <4>1. poll_ctx = <<c>> /\ life[poller] = "closing"
        BY <2>1, <3>1 DEF IsClosing
      <4>2. \A m : ~Linked(poll_ctx', m)
        BY <2>4, <4>1 DEF Linked
      <4>3. poll_ctx' = <<>>
        BY <2>4, <4>2, EmptyOrLinked
      <4> QED BY <2>1, <4>1, <4>3
    <3>3. poller \in active => poll_ctx' # <<>> /\ timer'[Head(poll_ctx')] # "closing"
      <4> SUFFICES ASSUME poller \in active PROVE poll_ctx' # <<>> /\ timer'[Head(poll_ctx')] # "closing"
        OBVIOUS
      <4>1. timer[Head(poll_ctx)] # "closing"
        BY DEF PollerWaits
      <4>2. poll_ctx' # <<>> /\ Head(poll_ctx') = Head(poll_ctx) /\ Head(poll_ctx) # c
        BY <2>1, <2>5, <4>1
      <4>3. timer'[Head(poll_ctx)] = timer[Head(poll_ctx)]
        BY <2>1, <2>3, <4>2, HeadIsContext DEF PollTypes
      <4> QED BY <4>1, <4>2, <4>3
    <3> QED BY <2>1, <3>1, <3>2, <3>3 DEF PollerWaits
  <2>9. NewestGoesOn'
    <3> SUFFICES ASSUME ~StartOver, NEW b \in Contexts, Busy(b)' \/ timer'[b] = "armed"
                 PROVE  Head(poll_ctx') = b /\ (timer'[b] = "armed" => poller \in active')
      BY DEF NewestGoesOn
    <3>1. b # c /\ (Busy(b) \/ timer[b] = "armed") /\ timer'[b] = timer[b]
      BY <2>1, <2>2 DEF Busy, PollTypes
    <3>2. Head(poll_ctx) = b /\ (timer[b] = "armed" => poller \in active)
      BY <3>1 DEF NewestGoesOn
    <3> QED BY <2>1, <2>5, <3>1, <3>2
  <2>10. NothingMissed'
    BY <2>1, <2>4 DEF NothingMissed, PollTypes
  <2> QED BY <2>6, <2>7, <2>8, <2>9, <2>10
<1> QED BY <1>1, <1>2, <1>3

LEMMA FsPollIsKept == FsPollSpec => []FsPollInv
<1>1. NoHandles /\ FsPollInit => FsPollInv
  <2> SUFFICES ASSUME NoHandles, FsPollInit PROVE FsPollInv
    OBVIOUS
  <2>1. poll_ctx = <<>> /\ poller \notin active /\ \A m : ~Linked(poll_ctx, m)
    BY EmptyLinksNothing DEF NoHandles, FsPollInit
  <2>2. poll_ctx \in Seq(Contexts)
    BY <2>1
  <2>3. PollTypes
    <3>1. /\ life \in [Handles -> {"none", "open", "closing", "closed"}]
          /\ polling \in Contexts \cup {0} /\ close_ready \in BOOLEAN
      BY DEF NoHandles, FsPollInit
    <3>2. /\ fs_req \in [Contexts -> {"none", "stat", "done", "told", "quiet"}]
          /\ timer \in [Contexts -> {"idle", "armed", "closing"}]
          /\ result \in [Contexts -> Int] /\ statbuf \in [Contexts -> Int]
          /\ reported \in [Contexts -> Int]
          /\ busy_polling \in [Contexts -> Int] /\ \A c \in Contexts : busy_polling[c] = 0
      BY DEF FsPollInit
    <3> QED BY <2>2, <3>1, <3>2 DEF PollTypes
  <2>4. ContextsPlaced
    BY <2>1, ContextsArePositive DEF FsPollInit, ContextsPlaced, Busy, Distinct
  <2>5. PollerWaits
    BY <2>1, ContextsArePositive DEF NoHandles, FsPollInit, PollerWaits
  <2>6. NewestGoesOn /\ NothingMissed
    BY <2>1 DEF FsPollInit, NewestGoesOn, Busy, NothingMissed
  <2> QED BY <2>3, <2>4, <2>5, <2>6 DEF FsPollInv
<1>2. FsPollInv /\ [FsPollNext]_<<fsPollVars, handleVars>> => FsPollInv'
  <2> SUFFICES ASSUME FsPollInv, [FsPollNext]_<<fsPollVars, handleVars>> PROVE FsPollInv'
    OBVIOUS
  <2>1. CASE UNCHANGED <<fsPollVars, handleVars>>
    BY <2>1 DEF fsPollVars, ctxVars, handleVars, FsPollInv, PollTypes, ContextsPlaced, PollerWaits,
        NewestGoesOn,
                NothingMissed, Busy
  <2>2. CASE FsPollNext
    BY <2>2, StartKeepsFsPoll, CallsKeepFsPoll, AnswersKeepFsPoll, TimersKeepFsPoll
       DEF FsPollNext, FsPollUser, FsPollLoop
  <2> QED BY <2>1, <2>2
<1> QED BY <1>1, <1>2, PTL DEF FsPollSpec

\* For any contexts, versions and errors, also when the user starts again while
\* stats of earlier periods are in flight (uv_fs_poll_start, uv_fs_poll_stop): a
\* context is on the chain exactly while something refers to it, the handle is
\* closed after all of them, and no change that a stat saw goes unreported.
THEOREM PolledFilesAreReported == FsPollSpec => [](ContextsHeld /\ NothingMissed)
<1>1. FsPollInv => ContextsHeld /\ NothingMissed
  BY DEF FsPollInv, ContextsPlaced, PollerWaits, ContextsHeld
<1> QED BY <1>1, FsPollIsKept, PTL

\* The assertion of timer_cb (fs-poll.c:177) holds if the user starts the handle
\* again only when no stat is in flight.
THEOREM OnlyTheNewestPolls == ASSUME ~StartOver PROVE FsPollSpec => TimerOfNewest
<1>1. FsPollInv /\ [FsPollNext]_<<fsPollVars, handleVars>>
        => [\A c \in Contexts : timer_cb(c) => Head(poll_ctx) = c]_fsPollVars
  BY DEF FsPollInv, NewestGoesOn, timer_cb
<1> QED BY <1>1, FsPollIsKept, PTL DEF FsPollSpec, TimerOfNewest

\* What polling promises, to such a user.
THEOREM FsPollKeepsPromise == ASSUME ~StartOver PROVE FsPollSpec => FsPollPromise
BY PolledFilesAreReported, OnlyTheNewestPolls, PTL DEF FsPollPromise

-----------------------------------------------------------------------------
(* A stream: its queues, its counters and its thread.                       *)

\* Where the thread is, or where it goes on after the callback it is in.
At == IF pc \in {"user", "uv_write"} THEN ret ELSE pc

StreamTypes ==
  /\ stream_life \in {"open", "closing", "closed"}
  /\ sys \in {"none", "connecting", "up", "refused", "reset"}
  /\ readable \in BOOLEAN /\ writable \in BOOLEAN /\ reading \in BOOLEAN /\ read_eof \in BOOLEAN
  /\ read_partial \in BOOLEAN /\ shut \in BOOLEAN /\ connect_req \in BOOLEAN
  /\ delayed_error \in BOOLEAN /\ shutdown_req \in BOOLEAN /\ fed \in BOOLEAN

InterestType == \A e \in pevents : e \in {"in", "out"}

\* The counter of uv__read's or uv__write's loop.
CountInRange == count \in Int /\ 0 <= count /\ (count <= MaxReads \/ count <= MaxWrites)

\* The thread: one list of callbacks at a time.
ThreadIsSomewhere ==
  /\ fn \in {"none", "io", "connect", "destroy"}
  /\ fn = "none" => At = "none"
  /\ fn = "io" => At \in {"read", "read_short", "read_error", "read_done", "write_check",
                          "io_write", "callbacks", "next_callback", "drain", "done"}
  /\ fn = "connect" => At \in {"flush", "callbacks", "next_callback", "done"}
  /\ fn = "destroy" => At \in {"destroy", "callbacks", "next_callback", "drain", "done"}
  /\ pc \notin {"user", "uv_write"} => ret = "none"
  /\ ret # "io_write"
  /\ pq # <<>> => At = "next_callback"

\* A closed stream asks for nothing, and uv__stream_destroy empties its queues.
ClosedIsQuiet ==
  /\ stream_life # "open" => /\ ~reading /\ ~readable /\ ~writable /\ ~fed /\ pevents = {}
                             /\ pc \notin {"uv_write", "io_write"}
  /\ fn = "destroy" => stream_life = "closed"
  /\ stream_life = "closed" =>
       /\ fn \in {"none", "destroy"}
       /\ At \notin {"destroy"} => write_queue = <<>>
       /\ At \notin {"destroy", "callbacks"} => write_completed_queue = <<>>
       /\ At \in {"done", "none"} => ~shutdown_req

\* Those whose callbacks are due.
Called == pq \o write_completed_queue

\* The requests: each waits in one list, and those that wait to be written
\* have not failed and have bytes left, the others are complete or have failed.
RequestsWait ==
  /\ write_queue \in Seq(Writes) /\ write_completed_queue \in Seq(Writes) /\ pq \in Seq(Writes)
  /\ left \in [Writes -> 0..Max(Lengths)]
  /\ error \in [Writes -> {"ok", "failed", "ECANCELED"}]
  /\ Distinct(Waiting)
  /\ \A w \in Writes : Linked(write_queue, w) => error[w] = "ok" /\ (left[w] # 0 \/ 0 \in Lengths)
  /\ \A w \in Writes : Linked(Called, w) =>
       IF error[w] = "ok" THEN left[w] = 0 ELSE left[w] # 0 \/ 0 \in Lengths

Using == {w \in Writes : InUse(w)}
One(b) == IF b THEN 1 ELSE 0
Listed == Len(Waiting)
Shutting == One(shutdown_req)
Connecting == One(connect_req /\ stream_life # "closed")

CountersAgree ==
  /\ write_queue_size = SumOf(left, Using)
  /\ stream_reqs = Listed + Shutting + Connecting

StreamInv ==
  StreamTypes /\ InterestType /\ CountInRange /\ ThreadIsSomewhere /\ ClosedIsQuiet /\ RequestsWait
  /\ CountersAgree

LEMMA StreamInitInv == Init => StreamInv
<1> SUFFICES ASSUME Init PROVE StreamInv
  OBVIOUS
<1>1. <<>> \in Seq(Writes)
  OBVIOUS
<1>2. Waiting = <<>>
  BY <1>1, EmptyConcat DEF Init, Waiting
<1>3. Len(Waiting) = 0 /\ \A n : ~Linked(Waiting, n)
  BY <1>2, EmptyLinksNothing
<1>4. 0 \in 0..Max(Lengths)
  <2>1. Max(Lengths) \in Nat
    BY LengthsAssumption, MaxIsLargest
  <2> QED BY <2>1
<1>5. StreamTypes /\ InterestType
  BY DEF Init, StreamTypes, InterestType
<1>9. CountInRange
  <2>1. count = 0 /\ MaxReads \in Nat
    BY CountsAssumption DEF Init
  <2> QED BY <2>1 DEF CountInRange
<1>6. ThreadIsSomewhere /\ ClosedIsQuiet
  BY DEF Init, ThreadIsSomewhere, ClosedIsQuiet, At
<1>7. RequestsWait
  <2>1. Called = <<>>
    BY <1>1, EmptyConcat DEF Init, Called
  <2>2. Distinct(Waiting)
    BY <1>2 DEF Distinct
  <2> QED BY <1>1, <1>4, <2>1, <2>2, EmptyLinksNothing DEF Init, RequestsWait
<1>8. CountersAgree
  <2>1. Using = {}
    BY <1>3 DEF Using, InUse
  <2>2. SumOf(left, Using) = 0
    BY <2>1, SumOfNothing
  <2>3. /\ write_queue_size = 0 /\ stream_reqs = 0 /\ shutdown_req = FALSE /\ connect_req = FALSE
    BY DEF Init
  <2>4. Shutting = 0 /\ Connecting = 0 /\ Listed = 0
    BY <1>3, <2>3 DEF One, Shutting, Connecting, Listed
  <2> QED BY <2>2, <2>3, <2>4 DEF CountersAgree
<1> QED BY <1>5, <1>6, <1>7, <1>8, <1>9 DEF StreamInv

\* The flags, the kernel's part and the counter of a loop.
\* The flags and the kernel's part.
LEMMA StreamTypesStep ==
  ASSUME StreamTypes, Next
  PROVE  StreamTypes'
<1> USE DEF StreamTypes, flagVars, connVars, queueVars, ioVars
<1>1. ASSUME User PROVE StreamTypes'
  <2>1. CASE Connect
    BY <2>1 DEF Connect
  <2>2. CASE uv_shutdown
    BY <2>2 DEF uv_shutdown, FeedForShutdown
  <2>3. CASE uv_read_start
    BY <2>3 DEF uv_read_start
  <2>4. CASE uv_read_stop
    BY ZenonT(40), <2>4 DEF uv_read_stop, StopReading
  <2>5. CASE uv_close
    BY <2>5 DEF uv_close
  <2>6. ASSUME NEW w \in Writes, NEW n \in Lengths, uv_write(w, n) PROVE StreamTypes'
    BY <2>6 DEF uv_write
  <2> QED BY <1>1, <2>1, <2>2, <2>3, <2>4, <2>5, <2>6 DEF User
<1>2. CASE ConnectFailed
  BY <1>2 DEF ConnectFailed, Flush, Goto
<1>3. CASE WriteCallbacks
  BY <1>3 DEF WriteCallbacks, Goto
<1>4. CASE NextCallback
  BY <1>4 DEF NextCallback, CallThen
<1>5. CASE CallbacksDone
  BY <1>5 DEF CallbacksDone, Goto
<1>6. CASE uv__drain
  <2>1. shutdown_req' \in BOOLEAN
    BY <1>6 DEF uv__drain
  <2>2. shut' \in BOOLEAN
    BY <1>6 DEF uv__drain
  <2>3. UNCHANGED <<stream_life, readable, writable, reading, read_eof, read_partial, connVars, fed>>
    BY <1>6 DEF uv__drain
  <2> QED BY <2>1, <2>2, <2>3
<1>7. CASE ReadData
  BY <1>7 DEF ReadData, ReadLoop, ReadStep, CallThen
<1>8. CASE ReadNothing
  BY <1>8 DEF ReadNothing, ReadLoop, ReadStep, CallThen
<1>9. CASE ReadEof
  BY ZenonT(40), <1>9 DEF ReadEof, ReadLoop, ReadStep, StreamEof, StopReading, CallThen
<1>10. CASE ReadError
  BY ZenonT(40), <1>10 DEF ReadError, ReadLoop, CallThen
<1>11. CASE AfterReadCallback
  <2>1. reading' \in BOOLEAN
    BY <1>11 DEF AfterReadCallback, StopReading
  <2>2. read_partial' \in BOOLEAN
    BY <1>11 DEF AfterReadCallback
  <2>3. UNCHANGED <<stream_life, readable, writable, read_eof, shut, connVars, shutdown_req, fed>>
    BY <1>11 DEF AfterReadCallback
  <2> QED BY <2>1, <2>2, <2>3
<1>12. CASE ReadDone
  <2>1. reading' \in BOOLEAN
    BY <1>12 DEF ReadDone, StreamEof, StopReading
  <2>2. read_eof' \in BOOLEAN
    BY <1>12 DEF ReadDone, StreamEof
  <2>3. UNCHANGED <<stream_life, readable, writable, read_partial, shut, connVars, shutdown_req, fed>>
    BY <1>12 DEF ReadDone
  <2> QED BY <2>1, <2>2, <2>3
<1>13. CASE WriteCheck
  BY <1>13 DEF WriteCheck, FdClosed, WriteUnchanged, Goto
<1>14. CASE WriteEmpty
  BY <1>14 DEF WriteEmpty, Writing, WriteReturns, WriteUnchanged, Goto
<1>15. CASE WriteAgain
  BY <1>15 DEF WriteAgain, Writing, WriteReturns, WriteUnchanged, Goto
<1>16. CASE WriteError
  BY <1>16 DEF WriteError, Writing, WriteReturns, Finish, Goto
<1>17. CASE DestroyFlush
  BY ZenonT(40), <1>17 DEF DestroyFlush, Flush, Goto
<1>18. CASE CallbackReturns
  BY <1>18 DEF CallbackReturns
<1>19. CASE Done
  BY ZenonT(40), <1>19 DEF Done
<1>20. CASE Kernel
  BY <1>20 DEF Kernel
<1>21. CASE Finished
  BY <1>21 DEF Finished, vars
<1>22. CASE StreamDestroy
  BY <1>22 DEF StreamDestroy, AtLoop, Goto, CallThen
<1>23. CASE RunPending
  <2>1. read_partial' \in BOOLEAN
    BY <1>23 DEF RunPending, PollEvent, StreamConnect, StreamIo
  <2>2. connect_req' \in BOOLEAN /\ delayed_error' \in BOOLEAN
    BY <1>23 DEF RunPending, PollEvent, StreamConnect, StreamIo
  <2>3. fed' \in BOOLEAN
    BY <1>23 DEF RunPending, PollEvent
  <2>4. UNCHANGED <<stream_life, sys, readable, writable, reading, read_eof, shut, shutdown_req>>
    BY <1>23 DEF RunPending, PollEvent, StreamConnect, StreamIo
  <2> QED BY <2>1, <2>2, <2>3, <2>4
<1>24. ASSUME NEW e \in EventSets, PollEvent(e) PROVE StreamTypes'
  <2>1. read_partial' \in BOOLEAN
    BY <1>24 DEF RunPending, PollEvent, StreamConnect, StreamIo
  <2>2. connect_req' \in BOOLEAN /\ delayed_error' \in BOOLEAN
    BY <1>24 DEF RunPending, PollEvent, StreamConnect, StreamIo
  <2>3. fed' \in BOOLEAN
    BY <1>24 DEF RunPending, PollEvent
  <2>4. UNCHANGED <<stream_life, sys, readable, writable, reading, read_eof, shut, shutdown_req>>
    BY <1>24 DEF RunPending, PollEvent, StreamConnect, StreamIo
  <2> QED BY <2>1, <2>2, <2>3, <2>4
<1>25. ASSUME NEW n \in 0..Max(Lengths), WriteSent(n) PROVE StreamTypes'
  <2>1. CASE n = left[Head(write_queue)]
    BY <1>25, <2>1 DEF WriteSent, Writing, WriteReturns, WriteUnchanged, Finish, Goto
  <2>2. CASE n # left[Head(write_queue)]
    BY <1>25, <2>2 DEF WriteSent, Writing, WriteReturns, WriteUnchanged, Goto
  <2> QED BY <2>1, <2>2
<1> QED BY <1>1, <1>2, <1>3, <1>4, <1>5, <1>6, <1>7, <1>8, <1>9, <1>10, <1>11, <1>12, <1>13,
           <1>14, <1>15, <1>16, <1>17, <1>18, <1>19, <1>20, <1>21, <1>22, <1>23, <1>24, <1>25
           DEF Next, StreamStep

LEMMA InterestStep ==
  ASSUME InterestType, Next
  PROVE  InterestType'
<1> USE DEF InterestType, flagVars, connVars, queueVars, ioVars
<1>1. ASSUME User PROVE InterestType'
  <2>1. CASE Connect
    BY <2>1 DEF Connect
  <2>2. CASE uv_shutdown
    BY <2>2 DEF uv_shutdown, FeedForShutdown
  <2>3. CASE uv_read_start
    BY <2>3 DEF uv_read_start
  <2>4. CASE uv_read_stop
    BY <2>4 DEF uv_read_stop, StopReading
  <2>5. CASE uv_close
    BY <2>5 DEF uv_close
  <2>6. ASSUME NEW w \in Writes, NEW n \in Lengths, uv_write(w, n) PROVE InterestType'
    BY <2>6 DEF uv_write
  <2> QED BY <1>1, <2>1, <2>2, <2>3, <2>4, <2>5, <2>6 DEF User
<1>2. CASE ConnectFailed
  BY <1>2 DEF ConnectFailed, Flush, Goto
<1>3. CASE WriteCallbacks
  BY <1>3 DEF WriteCallbacks, Goto
<1>4. CASE NextCallback
  BY <1>4 DEF NextCallback, CallThen
<1>5. CASE CallbacksDone
  BY <1>5 DEF CallbacksDone, Goto
<1>6. CASE uv__drain
  BY <1>6 DEF uv__drain, Goto, CallThen
<1>7. CASE ReadData
  BY <1>7 DEF ReadData, ReadLoop, ReadStep, CallThen
<1>8. CASE ReadNothing
  BY <1>8 DEF ReadNothing, ReadLoop, ReadStep, CallThen
<1>9. CASE ReadEof
  BY <1>9 DEF ReadEof, ReadLoop, ReadStep, StreamEof, StopReading, CallThen
<1>10. CASE ReadError
  BY <1>10 DEF ReadError, ReadLoop, CallThen
<1>11. CASE AfterReadCallback
  BY <1>11 DEF AfterReadCallback, StopReading, Goto
<1>12. CASE ReadDone
  BY <1>12 DEF ReadDone, FdClosed, StreamEof, StopReading, Goto, CallThen
<1>13. CASE WriteCheck
  BY <1>13 DEF WriteCheck, FdClosed, WriteUnchanged, Goto
<1>14. CASE WriteEmpty
  BY <1>14 DEF WriteEmpty, Writing, WriteReturns, WriteUnchanged, Goto
<1>15. CASE WriteAgain
  BY <1>15 DEF WriteAgain, Writing, WriteReturns, WriteUnchanged, Goto
<1>16. CASE WriteError
  BY <1>16 DEF WriteError, Writing, WriteReturns, Finish, Goto
<1>17. CASE DestroyFlush
  BY <1>17 DEF DestroyFlush, Flush, Goto
<1>18. CASE CallbackReturns
  BY <1>18 DEF CallbackReturns
<1>19. CASE Done
  BY <1>19 DEF Done
<1>20. CASE Kernel
  BY <1>20 DEF Kernel
<1>21. CASE Finished
  BY <1>21 DEF Finished, vars
<1>22. CASE StreamDestroy
  BY <1>22 DEF StreamDestroy, AtLoop, Goto, CallThen
<1>23. CASE RunPending
  BY <1>23 DEF RunPending, StreamConnect, StreamIo, AtLoop, Goto, CallThen
<1>24. ASSUME NEW e \in EventSets, PollEvent(e) PROVE InterestType'
  <2>1. CASE connect_req
    BY <1>24, <2>1 DEF PollEvent, StreamConnect, AtLoop, Goto, CallThen
  <2>2. CASE ~connect_req
    BY <1>24, <2>2 DEF PollEvent, StreamIo, AtLoop, Goto, CallThen
  <2> QED BY <2>1, <2>2
<1>25. ASSUME NEW n \in 0..Max(Lengths), WriteSent(n) PROVE InterestType'
  <2>1. CASE n = left[Head(write_queue)]
    BY <1>25, <2>1 DEF WriteSent, Writing, WriteReturns, WriteUnchanged, Finish, Goto
  <2>2. CASE n # left[Head(write_queue)]
    BY <1>25, <2>2 DEF WriteSent, Writing, WriteReturns, WriteUnchanged, Goto
  <2> QED BY <2>1, <2>2
<1> QED BY <1>1, <1>2, <1>3, <1>4, <1>5, <1>6, <1>7, <1>8, <1>9, <1>10, <1>11, <1>12, <1>13,
           <1>14, <1>15, <1>16, <1>17, <1>18, <1>19, <1>20, <1>21, <1>22, <1>23, <1>24, <1>25
           DEF Next, StreamStep

\* The counter.
LEMMA CountStep ==
  ASSUME CountInRange, Next
  PROVE  CountInRange'
<1> USE CountsAssumption DEF CountInRange
<1>1. ASSUME User PROVE CountInRange'
  <2>1. CASE Connect
    BY <2>1 DEF Connect
  <2>2. CASE uv_shutdown
    BY <2>2 DEF uv_shutdown, FeedForShutdown
  <2>3. CASE uv_read_start
    BY <2>3 DEF uv_read_start
  <2>4. CASE uv_read_stop
    BY <2>4 DEF uv_read_stop, StopReading
  <2>5. CASE uv_close
    BY <2>5 DEF uv_close
  <2>6. ASSUME NEW w \in Writes, NEW n \in Lengths, uv_write(w, n) PROVE CountInRange'
    BY <2>6 DEF uv_write
  <2> QED BY <1>1, <2>1, <2>2, <2>3, <2>4, <2>5, <2>6 DEF User
<1>2. CASE ConnectFailed
  BY <1>2 DEF ConnectFailed, Flush, Goto
<1>3. CASE WriteCallbacks
  BY <1>3 DEF WriteCallbacks, Goto
<1>4. CASE NextCallback
  BY <1>4 DEF NextCallback, CallThen
<1>5. CASE CallbacksDone
  BY <1>5 DEF CallbacksDone, Goto
<1>6. CASE uv__drain
  BY <1>6 DEF uv__drain, Goto, CallThen
<1>7. CASE ReadData
  BY <1>7 DEF ReadData, ReadLoop, ReadStep, CallThen
<1>8. CASE ReadNothing
  BY <1>8 DEF ReadNothing, ReadLoop, ReadStep, CallThen
<1>9. CASE ReadEof
  BY <1>9 DEF ReadEof, ReadLoop, ReadStep, StreamEof, StopReading, CallThen
<1>10. CASE ReadError
  BY <1>10 DEF ReadError, ReadLoop, CallThen
<1>11. CASE AfterReadCallback
  BY <1>11 DEF AfterReadCallback, StopReading, Goto
<1>12. CASE ReadDone
  BY <1>12 DEF ReadDone, FdClosed, StreamEof, StopReading, Goto, CallThen
<1>13. CASE WriteCheck
  BY <1>13 DEF WriteCheck, FdClosed, WriteUnchanged, Goto
<1>14. CASE WriteEmpty
  BY <1>14 DEF WriteEmpty, Writing, WriteReturns, WriteUnchanged, Goto
<1>15. CASE WriteAgain
  BY <1>15 DEF WriteAgain, Writing, WriteReturns, WriteUnchanged, Goto
<1>16. CASE WriteError
  BY <1>16 DEF WriteError, Writing, WriteReturns, Finish, Goto
<1>17. CASE DestroyFlush
  BY <1>17 DEF DestroyFlush, Flush, Goto
<1>18. CASE CallbackReturns
  BY <1>18 DEF CallbackReturns
<1>19. CASE Done
  BY <1>19 DEF Done
<1>20. CASE Kernel
  BY <1>20 DEF Kernel
<1>21. CASE Finished
  BY <1>21 DEF Finished, vars
<1>22. CASE StreamDestroy
  BY <1>22 DEF StreamDestroy, AtLoop, Goto, CallThen
<1>23. CASE RunPending
  BY <1>23 DEF RunPending, StreamConnect, StreamIo, AtLoop, Goto, CallThen
<1>24. ASSUME NEW e \in EventSets, PollEvent(e) PROVE CountInRange'
  <2>1. CASE connect_req
    BY <1>24, <2>1 DEF PollEvent, StreamConnect, AtLoop, Goto, CallThen
  <2>2. CASE ~connect_req
    BY <1>24, <2>2 DEF PollEvent, StreamIo, AtLoop, Goto, CallThen
  <2> QED BY <2>1, <2>2
<1>25. ASSUME NEW n \in 0..Max(Lengths), WriteSent(n) PROVE CountInRange'
  <2>1. CASE n = left[Head(write_queue)]
    BY <1>25, <2>1 DEF WriteSent, Writing, WriteReturns, WriteUnchanged, Finish, Goto
  <2>2. CASE n # left[Head(write_queue)]
    BY <1>25, <2>2 DEF WriteSent, Writing, WriteReturns, WriteUnchanged, Goto
  <2> QED BY <2>1, <2>2
<1> QED BY <1>1, <1>2, <1>3, <1>4, <1>5, <1>6, <1>7, <1>8, <1>9, <1>10, <1>11, <1>12, <1>13,
           <1>14, <1>15, <1>16, <1>17, <1>18, <1>19, <1>20, <1>21, <1>22, <1>23, <1>24, <1>25
           DEF Next, StreamStep

\* Where the thread goes.
LEMMA ThreadStep ==
  ASSUME ThreadIsSomewhere, Next
  PROVE  ThreadIsSomewhere'
<1> USE DEF ThreadIsSomewhere, At, flagVars, connVars, queueVars, ioVars
<1>1. ASSUME User PROVE ThreadIsSomewhere'
  <2>1. CASE Connect
    BY <2>1 DEF Connect
  <2>2. CASE uv_shutdown
    BY <2>2 DEF uv_shutdown, FeedForShutdown
  <2>3. CASE uv_read_start
    BY <2>3 DEF uv_read_start
  <2>4. CASE uv_read_stop
    BY <2>4 DEF uv_read_stop, StopReading
  <2>5. CASE uv_close
    BY <2>5 DEF uv_close
  <2>6. ASSUME NEW w \in Writes, NEW n \in Lengths, uv_write(w, n) PROVE ThreadIsSomewhere'
    BY <2>6 DEF uv_write
  <2> QED BY <1>1, <2>1, <2>2, <2>3, <2>4, <2>5, <2>6 DEF User
<1>2. CASE ConnectFailed
  BY <1>2 DEF ConnectFailed, Flush, Goto
<1>3. CASE WriteCallbacks
  BY <1>3 DEF WriteCallbacks, Goto
<1>4. CASE NextCallback
  BY <1>4 DEF NextCallback, CallThen
<1>5. CASE CallbacksDone
  BY <1>5 DEF CallbacksDone, Goto
<1>6. CASE uv__drain
  BY <1>6 DEF uv__drain, Goto, CallThen
<1>7. CASE ReadData
  BY <1>7 DEF ReadData, ReadLoop, ReadStep, CallThen
<1>8. CASE ReadNothing
  BY <1>8 DEF ReadNothing, ReadLoop, ReadStep, CallThen
<1>9. CASE ReadEof
  BY <1>9 DEF ReadEof, ReadLoop, ReadStep, StreamEof, StopReading, CallThen
<1>10. CASE ReadError
  BY <1>10 DEF ReadError, ReadLoop, CallThen
<1>11. CASE AfterReadCallback
  BY <1>11 DEF AfterReadCallback, StopReading, Goto
<1>12. CASE ReadDone
  BY <1>12 DEF ReadDone, FdClosed, StreamEof, StopReading, Goto, CallThen
<1>13. CASE WriteCheck
  BY <1>13 DEF WriteCheck, FdClosed, WriteUnchanged, Goto
<1>14. CASE WriteEmpty
  BY <1>14 DEF WriteEmpty, Writing, WriteReturns, WriteUnchanged, Goto
<1>15. CASE WriteAgain
  BY <1>15 DEF WriteAgain, Writing, WriteReturns, WriteUnchanged, Goto
<1>16. CASE WriteError
  BY <1>16 DEF WriteError, Writing, WriteReturns, Finish, Goto
<1>17. CASE DestroyFlush
  BY <1>17 DEF DestroyFlush, Flush, Goto
<1>18. CASE CallbackReturns
  BY <1>18 DEF CallbackReturns
<1>19. CASE Done
  BY <1>19 DEF Done
<1>20. CASE Kernel
  BY <1>20 DEF Kernel
<1>21. CASE Finished
  BY <1>21 DEF Finished, vars
<1>22. CASE StreamDestroy
  BY <1>22 DEF StreamDestroy, AtLoop, Goto, CallThen
<1>23. CASE RunPending
  BY <1>23 DEF RunPending, StreamConnect, StreamIo, AtLoop, Goto, CallThen
<1>24. ASSUME NEW e \in EventSets, PollEvent(e) PROVE ThreadIsSomewhere'
  <2>1. CASE connect_req
    BY <1>24, <2>1 DEF PollEvent, StreamConnect, AtLoop, Goto, CallThen
  <2>2. CASE ~connect_req
    BY <1>24, <2>2 DEF PollEvent, StreamIo, AtLoop, Goto, CallThen
  <2> QED BY <2>1, <2>2
<1>25. ASSUME NEW n \in 0..Max(Lengths), WriteSent(n) PROVE ThreadIsSomewhere'
  <2>1. pq' = pq /\ fn' = fn /\ Writing /\ (UNCHANGED <<pc, ret>> \/ WriteReturns)
    BY <1>25 DEF WriteSent, WriteUnchanged
  <2> QED BY <2>1 DEF Writing, WriteReturns, Goto
<1> QED BY <1>1, <1>2, <1>3, <1>4, <1>5, <1>6, <1>7, <1>8, <1>9, <1>10, <1>11, <1>12, <1>13,
           <1>14, <1>15, <1>16, <1>17, <1>18, <1>19, <1>20, <1>21, <1>22, <1>23, <1>24, <1>25
           DEF Next, StreamStep

\* A stream that is closed stays quiet, and its queues empty in their order.
LEMMA ClosedStep ==
  ASSUME StreamTypes, ThreadIsSomewhere, ClosedIsQuiet, Next
  PROVE  ClosedIsQuiet'
<1> USE DEF StreamTypes, ThreadIsSomewhere, ClosedIsQuiet, At, flagVars, connVars, queueVars, ioVars
<1>1. ASSUME User PROVE ClosedIsQuiet'
  <2>1. CASE Connect
    BY <2>1 DEF Connect
  <2>2. CASE uv_shutdown
    BY <2>2 DEF uv_shutdown, FeedForShutdown
  <2>3. CASE uv_read_start
    BY <2>3 DEF uv_read_start
  <2>4. CASE uv_read_stop
    BY <2>4 DEF uv_read_stop, StopReading
  <2>5. CASE uv_close
    BY <2>5 DEF uv_close
  <2>6. ASSUME NEW w \in Writes, NEW n \in Lengths, uv_write(w, n) PROVE ClosedIsQuiet'
    BY <2>6 DEF uv_write
  <2> QED BY <1>1, <2>1, <2>2, <2>3, <2>4, <2>5, <2>6 DEF User
<1>2. CASE ConnectFailed
  BY <1>2 DEF ConnectFailed, Flush, Goto
<1>3. CASE WriteCallbacks
  BY <1>3 DEF WriteCallbacks, Goto
<1>4. CASE NextCallback
  BY <1>4 DEF NextCallback, CallThen
<1>5. CASE CallbacksDone
  BY <1>5 DEF CallbacksDone, Goto
<1>6. CASE uv__drain
  BY <1>6 DEF uv__drain, Goto, CallThen
<1>7. CASE ReadData
  BY <1>7 DEF ReadData, ReadLoop, ReadStep, CallThen
<1>8. CASE ReadNothing
  BY <1>8 DEF ReadNothing, ReadLoop, ReadStep, CallThen
<1>9. CASE ReadEof
  BY <1>9 DEF ReadEof, ReadLoop, ReadStep, StreamEof, StopReading, CallThen
<1>10. CASE ReadError
  BY <1>10 DEF ReadError, ReadLoop, CallThen
<1>11. CASE AfterReadCallback
  BY <1>11 DEF AfterReadCallback, StopReading, Goto
<1>12. CASE ReadDone
  BY <1>12 DEF ReadDone, FdClosed, StreamEof, StopReading, Goto, CallThen
<1>13. CASE WriteCheck
  BY <1>13 DEF WriteCheck, FdClosed, WriteUnchanged, Goto
<1>14. CASE WriteEmpty
  <2>1. stream_life = "open" /\ stream_life' = stream_life /\ fn' = fn
    BY <1>14 DEF WriteEmpty, WriteAgain, WriteError, WriteSent, Writing, WriteUnchanged
  <2> QED BY <2>1
<1>15. CASE WriteAgain
  <2>1. stream_life = "open" /\ stream_life' = stream_life /\ fn' = fn
    BY <1>15 DEF WriteEmpty, WriteAgain, WriteError, WriteSent, Writing, WriteUnchanged
  <2> QED BY <2>1
<1>16. CASE WriteError
  <2>1. stream_life = "open" /\ stream_life' = stream_life /\ fn' = fn
    BY <1>16 DEF WriteEmpty, WriteAgain, WriteError, WriteSent, Writing, WriteUnchanged
  <2> QED BY <2>1
<1>17. CASE DestroyFlush
  BY <1>17 DEF DestroyFlush, Flush, Goto
<1>18. CASE CallbackReturns
  BY <1>18 DEF CallbackReturns
<1>19. CASE Done
  BY <1>19 DEF Done
<1>20. CASE Kernel
  BY <1>20 DEF Kernel
<1>21. CASE Finished
  BY <1>21 DEF Finished, vars
<1>22. CASE StreamDestroy
  BY <1>22 DEF StreamDestroy, AtLoop, Goto, CallThen
<1>23. CASE RunPending
  <2>1. stream_life = "open" /\ stream_life' = stream_life /\ fn' # "destroy"
    BY <1>23 DEF RunPending, PollEvent, StreamConnect, StreamIo
  <2>2. pc' \notin {"uv_write", "io_write"}
    BY <1>23 DEF RunPending, PollEvent, StreamConnect, StreamIo, Goto, CallThen
  <2> QED BY <2>1, <2>2
<1>24. ASSUME NEW e \in EventSets, PollEvent(e) PROVE ClosedIsQuiet'
  <2>1. stream_life = "open" /\ stream_life' = stream_life /\ fn' # "destroy"
    BY <1>24 DEF RunPending, PollEvent, StreamConnect, StreamIo
  <2>2. pc' \notin {"uv_write", "io_write"}
    BY <1>24 DEF RunPending, PollEvent, StreamConnect, StreamIo, Goto, CallThen
  <2> QED BY <2>1, <2>2
<1>25. ASSUME NEW n \in 0..Max(Lengths), WriteSent(n) PROVE ClosedIsQuiet'
  <2>1. stream_life = "open" /\ stream_life' = stream_life /\ fn' = fn
    BY <1>25 DEF WriteEmpty, WriteAgain, WriteError, WriteSent, Writing, WriteUnchanged
  <2> QED BY <2>1
<1> QED BY <1>1, <1>2, <1>3, <1>4, <1>5, <1>6, <1>7, <1>8, <1>9, <1>10, <1>11, <1>12, <1>13,
           <1>14, <1>15, <1>16, <1>17, <1>18, <1>19, <1>20, <1>21, <1>22, <1>23, <1>24, <1>25
           DEF Next, StreamStep

\* The three lists of requests, whatever moves between them.
LEMMA FlushKeepsOrder ==
  ASSUME NEW S, NEW a \in Seq(S), NEW b \in Seq(S), NEW c \in Seq(S)
  PROVE  (a \o (b \o c)) \o <<>> = (a \o b) \o c
<1>1. a \o (b \o c) = (a \o b) \o c
  BY SMTT(30), ConcatAssociative
<1>2. (a \o b) \o c \in Seq(S)
  <2>1. a \o b \in Seq(S)
    BY ConcatProperties
  <2> DEFINE d == a \o b
  <2>2. d \in Seq(S)
    BY <2>1
  <2> HIDE DEF d
  <2>3. d \o c \in Seq(S)
    BY <2>2, ConcatProperties
  <2> QED BY <2>3 DEF d
<1> DEFINE e == (a \o b) \o c
<1>3. e \in Seq(S)
  BY <1>2
<1> HIDE DEF e
<1>4. e \o <<>> = e
  BY <1>3, EmptyConcat
<1> QED BY <1>1, <1>4 DEF e

LEMMA NextTakesFirst ==
  ASSUME NEW S, NEW a \in Seq(S), NEW b \in Seq(S), NEW c \in Seq(S), a # <<>>
  PROVE  /\ (Tail(a) \o b) \o c = Tail((a \o b) \o c) /\ Tail(a) \o b = Tail(a \o b)
         /\ (a \o b) \o c # <<>> /\ a \o b # <<>>
         /\ Head((a \o b) \o c) = Head(a) /\ Head(a \o b) = Head(a)
<1> DEFINE d == a \o b
<1>1. d \in Seq(S)
  BY ConcatProperties
<1>2. d # <<>> /\ Head(d) = Head(a) /\ Tail(d) = Tail(a) \o b
  BY TailOfConcat
<1> HIDE DEF d
<1>3. d \o c # <<>> /\ Head(d \o c) = Head(d) /\ Tail(d \o c) = Tail(d) \o c
  BY SMTT(30), <1>1, <1>2, TailOfConcat
<1> QED BY <1>2, <1>3 DEF d

LEMMA AddedLast ==
  ASSUME NEW S, NEW a \in Seq(S), NEW b \in Seq(S), NEW c \in Seq(S), NEW x \in S
  PROVE  (a \o b) \o Append(c, x) = Append((a \o b) \o c, x)
<1> DEFINE d == a \o b
<1>1. d \in Seq(S)
  BY ConcatProperties
<1> HIDE DEF d
<1>2. d \o Append(c, x) = Append(d \o c, x)
  BY <1>1, AppendOfConcat
<1> QED BY <1>2 DEF d

LEMMA WaitingType ==
  ASSUME RequestsWait
  PROVE  /\ Called \in Seq(Writes) /\ Waiting \in Seq(Writes) /\ Distinct(Waiting)
         /\ \A w : InUse(w) <=> Linked(Called, w) \/ Linked(write_queue, w)
         /\ \A w : Linked(Called, w) => ~Linked(write_queue, w)
<1>1. pq \in Seq(Writes) /\ write_completed_queue \in Seq(Writes) /\ write_queue \in Seq(Writes)
  BY DEF RequestsWait
<1>2. Called \in Seq(Writes)
  BY <1>1, ConcatProperties DEF Called
<1>3. Waiting = Called \o write_queue /\ Distinct(Waiting)
  BY DEF Called, Waiting, RequestsWait
<1>4. Called \o write_queue \in Seq(Writes)
      /\ \A m : Linked(Called \o write_queue, m) <=> Linked(Called, m) \/ Linked(write_queue, m)
  BY ONLY <1>1, <1>2, ConcatLinks
<1>5. Distinct(Called \o write_queue)
  BY <1>3
<1>6. \A m : Linked(Called, m) => ~Linked(write_queue, m)
  BY ONLY <1>1, <1>2, <1>5, ConcatIsDistinct
<1> QED BY <1>2, <1>3, <1>4, <1>6 DEF InUse

LEMMA FlushWaits ==
  ASSUME RequestsWait, Flush
  PROVE  Waiting' = Waiting /\ Called' = Waiting
<1>1. pq \in Seq(Writes) /\ write_completed_queue \in Seq(Writes) /\ write_queue \in Seq(Writes)
  BY DEF RequestsWait
<1>2. /\ pq' = pq /\ write_completed_queue' = write_completed_queue \o write_queue
      /\ write_queue' = <<>>
  BY DEF Flush, Flushed
<1>3. (pq \o (write_completed_queue \o write_queue)) \o <<>>
        = (pq \o write_completed_queue) \o write_queue
  BY ONLY <1>1, FlushKeepsOrder
<1>4. pq \o (write_completed_queue \o write_queue) = (pq \o write_completed_queue) \o write_queue
  BY ONLY <1>1, ConcatAssociative
<1> QED BY <1>2, <1>3, <1>4 DEF Waiting, Called

LEMMA FinishWaits ==
  ASSUME RequestsWait, write_queue # <<>>, Finish, pq' = pq
  PROVE  Waiting' = Waiting /\ Called' = Append(Called, Head(write_queue))
<1>1. /\ pq \in Seq(Writes) /\ write_completed_queue \in Seq(Writes) /\ write_queue \in Seq(Writes)
      /\ write_queue # <<>>
  BY DEF RequestsWait
<1>2. /\ write_completed_queue' = Append(write_completed_queue, Head(write_queue))
      /\ write_queue' = Tail(write_queue)
  BY DEF Finish
<1>3. /\ (pq \o Append(write_completed_queue, Head(write_queue))) \o Tail(write_queue)
           = (pq \o write_completed_queue) \o write_queue
      /\ pq \o Append(write_completed_queue, Head(write_queue))
           = Append(pq \o write_completed_queue, Head(write_queue))
  <2>1. Head(write_queue) \in Writes
    BY <1>1, HeadTailProperties
  <2>2. pq \o Append(write_completed_queue, Head(write_queue))
          = Append(pq \o write_completed_queue, Head(write_queue))
    BY ONLY <1>1, <2>1, AppendOfConcat
  <2> DEFINE d == pq \o write_completed_queue
  <2>3. d \in Seq(Writes)
    BY ONLY <1>1, ConcatProperties
  <2> HIDE DEF d
  <2>4. Append(d, Head(write_queue)) \o Tail(write_queue) = d \o write_queue
    BY ONLY <1>1, <2>3, HeadMovesOver
  <2>5. pq \o Append(write_completed_queue, Head(write_queue)) = Append(d, Head(write_queue))
    BY <2>2 DEF d
  <2> DEFINE e == pq \o Append(write_completed_queue, Head(write_queue))
  <2>6. e \o Tail(write_queue) = d \o write_queue
    BY <2>4, <2>5
  <2> HIDE DEF e
  <2> QED BY <2>2, <2>6 DEF d, e
<1> QED BY <1>2, <1>3 DEF Waiting, Called

LEMMA CallbacksWait ==
  ASSUME RequestsWait, ThreadIsSomewhere, WriteCallbacks
  PROVE  Waiting' = Waiting /\ Called' = Called
<1>1. pq = <<>>
  BY DEF ThreadIsSomewhere, WriteCallbacks, At
<1>2. write_completed_queue \in Seq(Writes)
  BY DEF RequestsWait
<1>3. write_completed_queue \o <<>> = write_completed_queue
      /\ <<>> \o write_completed_queue = write_completed_queue
  BY ONLY <1>2, EmptyConcat
<1>4. /\ pq' = write_completed_queue /\ write_completed_queue' = <<>>
      /\ write_queue' = write_queue
  BY DEF WriteCallbacks
<1>5. Called' = Called
  BY <1>1, <1>3, <1>4 DEF Called
<1> QED BY <1>4, <1>5 DEF Called, Waiting

LEMMA NextWaits ==
  ASSUME RequestsWait, NextCallback
  PROVE  /\ Waiting # <<>> /\ Waiting' = Tail(Waiting) /\ Head(Waiting) = Head(pq)
         /\ Called # <<>> /\ Called' = Tail(Called) /\ Head(Called) = Head(pq)
<1>1. /\ pq \in Seq(Writes) /\ write_completed_queue \in Seq(Writes) /\ write_queue \in Seq(Writes)
      /\ pq # <<>>
  BY DEF RequestsWait, NextCallback
<1>2. /\ pq' = Tail(pq) /\ write_completed_queue' = write_completed_queue
      /\ write_queue' = write_queue
  BY DEF NextCallback
<1>3. /\ (Tail(pq) \o write_completed_queue) \o write_queue
           = Tail((pq \o write_completed_queue) \o write_queue)
      /\ Tail(pq) \o write_completed_queue = Tail(pq \o write_completed_queue)
      /\ (pq \o write_completed_queue) \o write_queue # <<>> /\ pq \o write_completed_queue # <<>>
      /\ Head((pq \o write_completed_queue) \o write_queue) = Head(pq)
      /\ Head(pq \o write_completed_queue) = Head(pq)
  BY ONLY ZenonT(40), <1>1, NextTakesFirst
<1> QED BY <1>2, <1>3 DEF Waiting, Called

LEMMA WriteWaits ==
  ASSUME RequestsWait, NEW w \in Writes, NEW n \in Lengths, uv_write(w, n)
  PROVE  Waiting' = Append(Waiting, w) /\ Called' = Called /\ ~Linked(Waiting, w)
<1>1. /\ pq \in Seq(Writes) /\ write_completed_queue \in Seq(Writes) /\ write_queue \in Seq(Writes)
      /\ w \in Writes
  BY DEF RequestsWait
<1>2. /\ pq' = pq /\ write_completed_queue' = write_completed_queue
      /\ write_queue' = Append(write_queue, w) /\ ~InUse(w)
  BY DEF uv_write
<1>3. (pq \o write_completed_queue) \o Append(write_queue, w)
        = Append((pq \o write_completed_queue) \o write_queue, w)
  BY ONLY SMTT(30), <1>1, AddedLast
<1> QED BY <1>2, <1>3 DEF Waiting, Called, InUse

\* Only these steps touch a queue or a request.
LEMMA QueueSteps ==
  ASSUME Next
  PROVE  \/ UNCHANGED queueVars \/ Flush \/ WriteError \/ WriteCallbacks \/ NextCallback
         \/ \E w \in Writes, n \in Lengths : uv_write(w, n)
         \/ \E n \in 0..Max(Lengths) : WriteSent(n)
<1>1. ASSUME User PROVE UNCHANGED queueVars \/ \E w \in Writes, n \in Lengths : uv_write(w, n)
  BY <1>1 DEF User, Connect, uv_shutdown, uv_read_start, uv_read_stop, uv_close
<1>2. CASE RunPending \/ StreamDestroy \/ Kernel \/ Finished
  BY <1>2 DEF RunPending, StreamDestroy, Kernel, Finished, vars, StreamConnect, StreamIo
<1>3. ASSUME NEW e \in EventSets, PollEvent(e) PROVE UNCHANGED queueVars
  BY <1>3 DEF PollEvent, StreamConnect, StreamIo
<1>4. CASE ReadData \/ ReadNothing \/ ReadEof \/ ReadError \/ AfterReadCallback \/ ReadDone
  BY <1>4 DEF ReadData, ReadNothing, ReadEof, ReadError, AfterReadCallback, ReadDone, ReadStep
<1>5. CASE WriteCheck \/ WriteEmpty \/ WriteAgain \/ CallbacksDone \/ uv__drain \/ CallbackReturns \/ Done
  BY <1>5 DEF WriteCheck, WriteEmpty, WriteAgain, CallbacksDone, uv__drain, CallbackReturns, Done
<1>6. CASE ConnectFailed \/ DestroyFlush
  BY <1>6 DEF ConnectFailed, DestroyFlush
<1> QED BY <1>1, <1>2, <1>3, <1>4, <1>5, <1>6 DEF Next, StreamStep

LEMMA RequestsStep ==
  ASSUME ThreadIsSomewhere, RequestsWait, Next
  PROVE  RequestsWait'
<1>1. /\ Called \in Seq(Writes) /\ Waiting \in Seq(Writes) /\ Distinct(Waiting)
      /\ \A w : InUse(w) <=> Linked(Called, w) \/ Linked(write_queue, w)
      /\ \A w : Linked(Called, w) => ~Linked(write_queue, w)
  BY WaitingType
<1>2. /\ write_queue \in Seq(Writes) /\ write_completed_queue \in Seq(Writes) /\ pq \in Seq(Writes)
      /\ left \in [Writes -> 0..Max(Lengths)] /\ error \in [Writes -> {"ok", "failed", "ECANCELED"}]
      /\ \A w \in Writes : Linked(write_queue, w) => error[w] = "ok" /\ (left[w] # 0 \/ 0 \in Lengths)
      /\ \A w \in Writes : Linked(Called, w) =>
           IF error[w] = "ok" THEN left[w] = 0 ELSE left[w] # 0 \/ 0 \in Lengths
  BY DEF RequestsWait
<1>3. Max(Lengths) \in Nat /\ \A n \in Lengths : n \in 0..Max(Lengths)
  <2>1. Max(Lengths) \in Nat /\ Lengths \subseteq Nat /\ \A n \in Lengths : n <= Max(Lengths)
    BY LengthsAssumption, MaxIsLargest
  <2> QED BY <2>1
<1>4. CASE UNCHANGED queueVars
  <2>1. Called' = Called /\ Waiting' = Waiting
    BY <1>4 DEF queueVars, Called, Waiting
  <2> QED BY <1>1, <1>2, <1>4, <2>1 DEF RequestsWait, queueVars
<1>5. CASE Flush
  <2>1. Waiting' = Waiting /\ Called' = Waiting
    BY <1>5, FlushWaits
  <2>2. /\ error' = [w \in Writes |-> IF Linked(write_queue, w) THEN "ECANCELED" ELSE error[w]]
        /\ write_queue' = <<>> /\ pq' = pq /\ left' = left
        /\ write_completed_queue' = write_completed_queue \o write_queue
    BY <1>5 DEF Flush, Flushed
  <2>3. write_completed_queue' \in Seq(Writes) /\ write_queue' \in Seq(Writes)
    <3>1. write_completed_queue \o write_queue \in Seq(Writes)
      BY ONLY <1>2, ConcatProperties
    <3>2. <<>> \in Seq(Writes)
      OBVIOUS
    <3> QED BY <2>2, <3>1, <3>2
  <2>4. error' \in [Writes -> {"ok", "failed", "ECANCELED"}]
    BY <1>2, <2>2
  <2>5. ASSUME NEW w \in Writes, Linked(Called', w)
        PROVE  IF error'[w] = "ok" THEN left'[w] = 0 ELSE left'[w] # 0 \/ 0 \in Lengths
    <3>1. Linked(Called, w) \/ Linked(write_queue, w)
      BY <1>1, <2>1, <2>5 DEF InUse
    <3>2. error'[w] = IF Linked(write_queue, w) THEN "ECANCELED" ELSE error[w]
      BY <2>2
    <3> QED BY <1>2, <2>2, <3>1, <3>2
  <2>6. \A w : ~Linked(write_queue', w)
    BY <2>2, EmptyLinksNothing
  <2> QED BY <1>1, <1>2, <2>1, <2>2, <2>3, <2>4, <2>5, <2>6 DEF RequestsWait
<1>6. ASSUME WriteError \/ \E n \in 0..Max(Lengths) : WriteSent(n) PROVE RequestsWait'
  <2> DEFINE h == Head(write_queue)
  <2>1. write_queue # <<>> /\ pq' = pq
    BY <1>6 DEF WriteError, WriteSent
  <2>2. /\ h \in Writes /\ Linked(write_queue, h) /\ Tail(write_queue) \in Seq(Writes)
        /\ \A m : Linked(Tail(write_queue), m) <=> Linked(write_queue, m) /\ m # h
    <3>1. Distinct(write_queue)
      <4>1. Waiting = Called \o write_queue
        BY DEF Waiting, Called
      <4>2. Distinct(Called \o write_queue)
        BY <1>1, <4>1
      <4> QED BY ONLY <1>1, <1>2, <4>2, ConcatIsDistinct
    <3> QED BY <1>2, <2>1, <3>1, TailDistinct
  <2>3. Append(write_completed_queue, h) \in Seq(Writes)
    BY <1>2, <2>2, AppendProperties
  <2>4. \A m : Linked(Append(Called, h), m) <=> Linked(Called, m) \/ m = h
    BY <1>1, <2>2, AppendDistinct
  <2>5. error[h] = "ok" /\ (left[h] # 0 \/ 0 \in Lengths) /\ ~Linked(Called, h)
    BY <1>1, <1>2, <2>2
  <2>6. ASSUME Finish PROVE /\ Waiting' = Waiting /\ Called' = Append(Called, h)
                            /\ write_queue' = Tail(write_queue) /\ write_queue' \in Seq(Writes)
                            /\ write_completed_queue' \in Seq(Writes)
    <3>1. Waiting' = Waiting /\ Called' = Append(Called, h)
      BY <2>1, <2>6, FinishWaits
    <3> QED BY <2>2, <2>3, <2>6, <3>1 DEF Finish
  <2>7. CASE WriteError
    <3>1. Finish /\ left' = left /\ error' = [error EXCEPT ![h] = "failed"]
      BY <2>7 DEF WriteError
    <3>2. /\ Waiting' = Waiting /\ Called' = Append(Called, h)
          /\ write_queue' = Tail(write_queue) /\ write_queue' \in Seq(Writes)
          /\ write_completed_queue' \in Seq(Writes)
      BY <2>6, <3>1
    <3>3. error' \in [Writes -> {"ok", "failed", "ECANCELED"}]
          /\ error'[h] = "failed" /\ \A w \in Writes \ {h} : error'[w] = error[w]
      BY <1>2, <2>2, <3>1
    <3> HIDE DEF h
    <3>4. ASSUME NEW w \in Writes, Linked(write_queue', w)
          PROVE  error'[w] = "ok" /\ (left'[w] # 0 \/ 0 \in Lengths)
      BY <1>2, <2>2, <3>1, <3>2, <3>3, <3>4
    <3>5. ASSUME NEW w \in Writes, Linked(Called', w)
          PROVE  IF error'[w] = "ok" THEN left'[w] = 0 ELSE left'[w] # 0 \/ 0 \in Lengths
      BY <1>2, <2>4, <2>5, <3>1, <3>2, <3>3, <3>5
    <3> QED BY <1>1, <1>2, <2>1, <3>1, <3>2, <3>3, <3>4, <3>5 DEF RequestsWait
  <2>8. ASSUME NEW n \in 0..Max(Lengths), WriteSent(n) PROVE RequestsWait'
    <3>1. /\ n <= left[h] /\ (n = 0 => left[h] = 0) /\ left' = [left EXCEPT ![h] = @ - n]
          /\ error' = error
          /\ IF n = left[h] THEN Finish ELSE UNCHANGED <<write_queue, write_completed_queue>>
      BY <2>8 DEF WriteSent
    <3> HIDE DEF h
    <3>2. n \in Nat /\ left[h] \in 0..Max(Lengths) /\ left[h] - n \in 0..Max(Lengths)
      BY <1>2, <1>3, <2>2, <3>1
    <3>3. /\ left' \in [Writes -> 0..Max(Lengths)] /\ left'[h] = left[h] - n
          /\ \A w \in Writes \ {h} : left'[w] = left[w]
      BY <1>2, <2>2, <3>1, <3>2
    <3>4. CASE n = left[h]
      <4>1. Finish
        BY <3>1, <3>4
      <4>2. /\ Waiting' = Waiting /\ Called' = Append(Called, h)
            /\ write_queue' = Tail(write_queue) /\ write_queue' \in Seq(Writes)
            /\ write_completed_queue' \in Seq(Writes)
        BY <2>6, <4>1
      <4>3. left'[h] = 0
        BY <3>2, <3>3, <3>4
      <4>4. ASSUME NEW w \in Writes, Linked(write_queue', w)
            PROVE  error'[w] = "ok" /\ (left'[w] # 0 \/ 0 \in Lengths)
        BY <1>2, <2>2, <3>1, <3>3, <4>2, <4>4
      <4>5. ASSUME NEW w \in Writes, Linked(Called', w)
            PROVE  IF error'[w] = "ok" THEN left'[w] = 0 ELSE left'[w] # 0 \/ 0 \in Lengths
        BY <1>2, <2>4, <2>5, <3>1, <3>3, <4>2, <4>3, <4>5
      <4> QED BY <1>1, <1>2, <2>1, <3>1, <3>3, <4>2, <4>4, <4>5 DEF RequestsWait
    <3>5. CASE n # left[h]
      <4>1. /\ write_queue' = write_queue /\ write_completed_queue' = write_completed_queue
            /\ Waiting' = Waiting /\ Called' = Called
        BY <2>1, <3>1, <3>5 DEF Waiting, Called
      <4>2. left'[h] # 0
        BY <3>2, <3>3, <3>5
      <4>3. ASSUME NEW w \in Writes, Linked(write_queue, w)
            PROVE  error[w] = "ok" /\ (left'[w] # 0 \/ 0 \in Lengths)
        BY <1>2, <3>3, <4>2, <4>3
      <4>4. ASSUME NEW w \in Writes, Linked(Called, w)
            PROVE  IF error[w] = "ok" THEN left'[w] = 0 ELSE left'[w] # 0 \/ 0 \in Lengths
        <5>1. w # h
          BY <2>5, <4>4
        <5> QED BY <1>2, <3>3, <4>4, <5>1
      <4> QED BY <1>1, <1>2, <2>1, <3>1, <3>3, <4>1, <4>3, <4>4 DEF RequestsWait
    <3> QED BY <3>4, <3>5
  <2> QED BY <1>6, <2>7, <2>8
<1>7. CASE WriteCallbacks
  <2>1. Waiting' = Waiting /\ Called' = Called
    BY <1>7, CallbacksWait
  <2>2. /\ pq' = write_completed_queue /\ write_completed_queue' = <<>> /\ write_queue' = write_queue
        /\ left' = left /\ error' = error
    BY <1>7 DEF WriteCallbacks
  <2>3. write_completed_queue' \in Seq(Writes)
    BY <2>2
  <2> QED BY <1>1, <1>2, <2>1, <2>2, <2>3 DEF RequestsWait
<1>8. CASE NextCallback
  <2> DEFINE h == Head(pq)
  <2>1. /\ Waiting # <<>> /\ Waiting' = Tail(Waiting) /\ Head(Waiting) = h
        /\ Called # <<>> /\ Called' = Tail(Called) /\ Head(Called) = h
    BY <1>8, NextWaits
  <2>2. /\ pq # <<>> /\ pq' = Tail(pq) /\ write_completed_queue' = write_completed_queue
        /\ write_queue' = write_queue
        /\ left' = [left EXCEPT ![h] = 0] /\ error' = [error EXCEPT ![h] = "ok"]
    BY <1>8 DEF NextCallback
  <2>3. h \in Writes /\ Tail(pq) \in Seq(Writes)
    BY <1>2, <2>2, HeadTailProperties
  <2> HIDE DEF h
  <2>4. Tail(Waiting) \in Seq(Writes) /\ Distinct(Tail(Waiting))
    BY ONLY <1>1, <2>1, TailDistinct
  <2>5. Linked(Called, h) /\ \A m : Linked(Tail(Called), m) <=> Linked(Called, m) /\ m # h
    <3>1. Distinct(Called)
      <4>1. Waiting = Called \o write_queue
        BY DEF Waiting, Called
      <4>2. Distinct(Called \o write_queue)
        BY <1>1, <4>1
      <4> QED BY ONLY <1>1, <1>2, <4>2, ConcatIsDistinct
    <3>2. /\ Linked(Called, Head(Called))
          /\ \A m : Linked(Tail(Called), m) <=> Linked(Called, m) /\ m # Head(Called)
      BY ONLY <1>1, <2>1, <3>1, TailDistinct
    <3> QED BY <2>1, <3>2
  <2>6. ~Linked(write_queue, h)
    BY <1>1, <2>5
  <2>7. /\ left' \in [Writes -> 0..Max(Lengths)] /\ \A w \in Writes \ {h} : left'[w] = left[w]
        /\ error' \in [Writes -> {"ok", "failed", "ECANCELED"}]
        /\ \A w \in Writes \ {h} : error'[w] = error[w]
    <3>1. 0 \in 0..Max(Lengths)
      BY <1>3
    <3> QED BY <1>2, <2>2, <2>3, <3>1
  <2>8. ASSUME NEW w \in Writes, Linked(write_queue', w)
        PROVE  error'[w] = "ok" /\ (left'[w] # 0 \/ 0 \in Lengths)
    BY <1>2, <2>2, <2>6, <2>7, <2>8
  <2>9. ASSUME NEW w \in Writes, Linked(Called', w)
        PROVE  IF error'[w] = "ok" THEN left'[w] = 0 ELSE left'[w] # 0 \/ 0 \in Lengths
    BY <1>2, <2>1, <2>5, <2>7, <2>9
  <2>10. /\ pq' \in Seq(Writes) /\ write_completed_queue' \in Seq(Writes)
         /\ write_queue' \in Seq(Writes) /\ Distinct(Waiting')
    BY <1>2, <2>1, <2>2, <2>3, <2>4
  <2> QED BY <2>7, <2>8, <2>9, <2>10 DEF RequestsWait
<1>9. ASSUME NEW v \in Writes, NEW n \in Lengths, uv_write(v, n) PROVE RequestsWait'
  <2>1. Waiting' = Append(Waiting, v) /\ Called' = Called /\ ~Linked(Waiting, v)
    BY <1>9, WriteWaits
  <2>2. /\ left' = [left EXCEPT ![v] = n] /\ error' = [error EXCEPT ![v] = "ok"]
        /\ write_queue' = Append(write_queue, v)
        /\ pq' = pq /\ write_completed_queue' = write_completed_queue
    BY <1>9 DEF uv_write
  <2>3. Append(Waiting, v) \in Seq(Writes) /\ Distinct(Append(Waiting, v))
    BY ONLY <1>1, <2>1, v \in Writes, AppendDistinct
  <2>4. /\ Append(write_queue, v) \in Seq(Writes)
        /\ \A m : Linked(Append(write_queue, v), m) <=> Linked(write_queue, m) \/ m = v
    BY ONLY <1>2, v \in Writes, AppendDistinct
  <2>5. ~Linked(Called, v)
    BY <1>1, <2>1 DEF InUse
  <2>6. /\ left' \in [Writes -> 0..Max(Lengths)] /\ left'[v] = n /\ n \in Lengths
        /\ error' \in [Writes -> {"ok", "failed", "ECANCELED"}] /\ error'[v] = "ok"
        /\ \A w \in Writes \ {v} : left'[w] = left[w] /\ error'[w] = error[w]
    BY <1>2, <1>3, <2>2
  <2>7. ASSUME NEW w \in Writes, Linked(write_queue', w)
        PROVE  error'[w] = "ok" /\ (left'[w] # 0 \/ 0 \in Lengths)
    BY <1>2, <2>2, <2>4, <2>6, <2>7
  <2>8. ASSUME NEW w \in Writes, Linked(Called', w)
        PROVE  IF error'[w] = "ok" THEN left'[w] = 0 ELSE left'[w] # 0 \/ 0 \in Lengths
    BY <1>2, <2>1, <2>5, <2>6, <2>8
  <2> QED BY <1>2, <2>1, <2>2, <2>3, <2>4, <2>6, <2>7, <2>8 DEF RequestsWait
<1> QED BY <1>4, <1>5, <1>6, <1>7, <1>8, <1>9, QueueSteps

\* write_queue_size through every step that writes, fails or gives back bytes.
LEMMA SizeStep ==
  ASSUME ThreadIsSomewhere, RequestsWait, CountersAgree, Next
  PROVE  write_queue_size' = SumOf(left, Using)'
<1>1. /\ Called \in Seq(Writes) /\ Waiting \in Seq(Writes) /\ Distinct(Waiting)
      /\ \A w : InUse(w) <=> Linked(Called, w) \/ Linked(write_queue, w)
  BY WaitingType
<1>2. /\ write_queue \in Seq(Writes) /\ pq \in Seq(Writes) /\ left \in [Writes -> 0..Max(Lengths)]
      /\ write_queue_size = SumOf(left, Using)
  BY DEF RequestsWait, CountersAgree
<1>3. Max(Lengths) \in Nat /\ \A n \in Lengths : n \in Nat
  BY LengthsAssumption, MaxIsLargest
<1>4. left' \in [Writes -> 0..Max(Lengths)]
  BY RequestsStep DEF RequestsWait
<1>5. Using = {w \in Writes : Linked(Waiting, w)} /\ Using' = {w \in Writes : Linked(Waiting', w)}
  BY DEF Using, InUse
<1>6. IsFiniteSet(Using)
  <2>1. IsFiniteSet({w \in Writes : Linked(Waiting, w)})
    BY ONLY <1>1, LinkedFinite
  <2> QED BY <1>5, <2>1
<1>7. Numbers(left, Using) /\ Numbers(left', Using)
  <2>1. \A w \in Writes : left[w] \in Int /\ left'[w] \in Int
    BY <1>2, <1>3, <1>4
  <2>2. \A w \in Using : w \in Writes
    BY <1>5
  <2> QED BY <1>6, <2>1, <2>2 DEF Numbers
<1>8. ASSUME Waiting' = Waiting, left' = left, write_queue_size' = write_queue_size
      PROVE  write_queue_size' = SumOf(left, Using)'
  <2>1. Using' = Using
    BY <1>5, <1>8
  <2> QED BY <1>2, <1>8, <2>1
<1>9. CASE UNCHANGED queueVars
  <2>1. Waiting' = Waiting
    BY <1>9 DEF queueVars, Waiting
  <2> QED BY <1>8, <1>9, <2>1 DEF queueVars
<1>10. CASE Flush
  BY <1>8, <1>10, FlushWaits DEF Flush
<1>11. CASE WriteError
  BY <1>8, <1>11, FinishWaits DEF WriteError
<1>12. CASE WriteCallbacks
  BY <1>8, <1>12, CallbacksWait DEF WriteCallbacks
<1>13. ASSUME NEW n \in 0..Max(Lengths), WriteSent(n)
       PROVE  write_queue_size' = SumOf(left, Using)'
  <2> DEFINE h == Head(write_queue)
  <2>1. /\ write_queue # <<>> /\ pq' = pq /\ write_queue_size' = write_queue_size - n
        /\ left' = [left EXCEPT ![h] = @ - n]
        /\ Finish \/ UNCHANGED <<write_queue, write_completed_queue>>
    BY <1>13 DEF WriteSent
  <2>2. Waiting' = Waiting
    <3>1. CASE Finish
      BY <2>1, <3>1, FinishWaits
    <3>2. CASE UNCHANGED <<write_queue, write_completed_queue>>
      BY <2>1, <3>2 DEF Waiting
    <3> QED BY <2>1, <3>1, <3>2
  <2>3. h \in Writes /\ h \in Using
    <3>1. h \in Writes /\ Len(write_queue) \in Nat \ {0} /\ h = write_queue[1]
      BY <1>2, <2>1, HeadTailProperties, EmptySeq
    <3>2. Linked(write_queue, h)
      BY <3>1 DEF Linked
    <3> QED BY <1>1, <3>1, <3>2 DEF Using
  <2> HIDE DEF h
  <2>4. left'[h] = left[h] - n /\ \A w \in Using \ {h} : left[w] = left'[w]
    <3>1. \A w \in Writes \ {h} : left[w] = left'[w]
      BY <1>2, <2>1
    <3>2. left'[h] = left[h] - n
      BY <1>2, <2>1, <2>3
    <3> QED BY <1>5, <3>1, <3>2
  <2>5. Using' = Using
    BY <1>5, <2>2
  <2>6. ASSUME NEW g, g = left', NEW u, u = Using PROVE SumOf(g, u) = SumOf(left, u) - left[h] + g[h]
    <3>1. Numbers(left, u) /\ Numbers(g, u) /\ h \in u /\ \A x \in u \ {h} : left[x] = g[x]
      BY <1>7, <2>3, <2>4, <2>6
    <3> QED BY ONLY <3>1, SumChanges
  <2>7. SumOf(left', Using) = SumOf(left, Using) - left[h] + left'[h]
    BY <2>6
  <2>8. SumOf(left, Using) \in Int /\ left[h] \in Int /\ n \in Int
    BY <1>2, <1>3, <1>7, <2>3, SumType
  <2>9. SumOf(left', Using) = SumOf(left, Using) - n
    BY <2>4, <2>7, <2>8
  <2> QED BY <1>2, <2>1, <2>5, <2>9
<1>14. CASE NextCallback
  <2> DEFINE h == Head(pq)
  <2>1. Waiting # <<>> /\ Waiting' = Tail(Waiting) /\ Head(Waiting) = h
    BY <1>14, NextWaits
  <2>2. left' = [left EXCEPT ![h] = 0] /\ write_queue_size' = write_queue_size - left[h]
    BY <1>14 DEF NextCallback, GivenBack
  <2> HIDE DEF h
  <2>3. /\ h \in Writes /\ Linked(Waiting, h)
        /\ \A m : Linked(Tail(Waiting), m) <=> Linked(Waiting, m) /\ m # h
    <3>1. /\ Head(Waiting) \in Writes /\ Linked(Waiting, Head(Waiting))
          /\ \A m : Linked(Tail(Waiting), m) <=> Linked(Waiting, m) /\ m # Head(Waiting)
      BY ONLY <1>1, <2>1, TailDistinct
    <3> QED BY <2>1, <3>1
  <2>4. h \in Using /\ Using' = Using \ {h}
    BY <1>5, <2>1, <2>3
  <2>5. \A w \in Using \ {h} : left[w] = left'[w]
    BY <1>2, <1>5, <2>2
  <2>6. ASSUME NEW g, g = left', NEW u, u = Using
        PROVE  SumOf(left, u) = left[h] + SumOf(g, u \ {h}) /\ SumOf(g, u \ {h}) \in Int
    <3>1. Numbers(left, u) /\ h \in u /\ \A x \in u \ {h} : left[x] = g[x]
      BY <1>7, <2>4, <2>5, <2>6
    <3>2. SumOf(left, u) = left[h] + SumOf(left, u \ {h})
      BY ONLY <3>1, SumTakesOut
    <3>3. Numbers(left, u \ {h})
      BY <3>1, FS_Subset DEF Numbers
    <3> DEFINE v == u \ {h}
    <3>4. Numbers(left, v) /\ \A x \in v : left[x] = g[x]
      BY <3>1, <3>3
    <3> HIDE DEF v
    <3>5. SumOf(left, v) = SumOf(g, v) /\ SumOf(left, v) \in Int
      BY ONLY <3>4, SumIsTheSame, SumType
    <3> QED BY <3>2, <3>5 DEF v
  <2>7. SumOf(left, Using) = left[h] + SumOf(left', Using \ {h}) /\ SumOf(left', Using \ {h}) \in Int
    BY <2>6
  <2>8. left[h] \in Int
    BY <1>7, <2>4 DEF Numbers
  <2>9. SumOf(left', Using') = SumOf(left', Using \ {h})
    BY <2>4
  <2> QED BY <1>2, <2>2, <2>7, <2>8, <2>9
<1>15. ASSUME NEW v \in Writes, NEW n \in Lengths, uv_write(v, n)
       PROVE  write_queue_size' = SumOf(left, Using)'
  <2>1. Waiting' = Append(Waiting, v) /\ ~Linked(Waiting, v)
    BY <1>15, WriteWaits
  <2>2. left' = [left EXCEPT ![v] = n] /\ write_queue_size' = write_queue_size + n
    BY <1>15 DEF uv_write
  <2>3. \A m : Linked(Append(Waiting, v), m) <=> Linked(Waiting, m) \/ m = v
    BY ONLY <1>1, v \in Writes, AppendDistinct
  <2>4. v \notin Using /\ Using' = Using \cup {v}
    BY <1>5, <2>1, <2>3
  <2>5. left'[v] = n /\ \A w \in Using : left[w] = left'[w]
    BY <1>2, <1>5, <2>2, <2>4
  <2>6. ASSUME NEW g, g = left', NEW u, u = Using
        PROVE  SumOf(g, u \cup {v}) = SumOf(left, u) + g[v]
    <3>1. /\ Numbers(left, u) /\ Numbers(g, u) /\ v \notin u /\ \A x \in u : left[x] = g[x]
          /\ g[v] \in Int
      BY <1>3, <1>7, <2>4, <2>5, <2>6
    <3>2. SumOf(left, u) = SumOf(g, u)
      BY ONLY <3>1, SumIsTheSame
    <3>3. SumOf(g, u \cup {v}) = SumOf(g, u) + g[v]
      BY ONLY <3>1, SumWithOneMore
    <3> QED BY <3>2, <3>3
  <2>7. SumOf(left', Using \cup {v}) = SumOf(left, Using) + left'[v]
    BY <2>6
  <2>8. SumOf(left', Using') = SumOf(left', Using \cup {v})
    BY <2>4
  <2> QED BY <1>2, <2>2, <2>5, <2>7, <2>8
<1> QED BY <1>9, <1>10, <1>11, <1>12, <1>13, <1>14, <1>15, QueueSteps

\* The loop's count of active requests, through every call and callback.
LEMMA ReqsStep ==
  ASSUME StreamTypes, ThreadIsSomewhere, ClosedIsQuiet, RequestsWait, CountersAgree, Next
  PROVE  stream_reqs' = Listed' + Shutting' + Connecting'
<1>1. stream_reqs = Listed + Shutting + Connecting
  BY DEF CountersAgree
<1>2. Waiting \in Seq(Writes)
  BY WaitingType
<1>3. Listed \in Nat /\ (Waiting # <<>> => Listed > 0 /\ Len(Tail(Waiting)) = Listed - 1)
      /\ \A w \in Writes : Len(Append(Waiting, w)) = Listed + 1
  BY <1>2, LenProperties, HeadTailProperties, AppendProperties, EmptySeq DEF Listed
<1>4. Shutting \in {0, 1} /\ Connecting \in {0, 1} /\ Shutting' \in {0, 1} /\ Connecting' \in {0, 1}
  BY DEF One, Shutting, Connecting
<1>5. UNCHANGED <<pq, write_completed_queue, write_queue>> => Listed' = Listed
  BY DEF Waiting, Listed
<1>6. UNCHANGED <<connect_req, stream_life>> => Connecting' = Connecting
  BY DEF Connecting
<1>7. UNCHANGED shutdown_req => Shutting' = Shutting
  BY DEF Shutting
<1>8. ASSUME Shutting' = Shutting, Connecting' = Connecting, Listed' = Listed, stream_reqs' = stream_reqs
      PROVE  stream_reqs' = Listed' + Shutting' + Connecting'
  BY <1>1, <1>8
<1>9. CASE Connect
  <2>1. Connecting = 0 /\ Connecting' = 1
    BY <1>9 DEF Connect, One, Shutting, Connecting
  <2>2. Listed' = Listed /\ Shutting' = Shutting /\ stream_reqs' = stream_reqs + 1
    BY <1>5, <1>7, <1>9 DEF Connect, queueVars
  <2> QED BY <1>1, <1>3, <1>4, <2>1, <2>2
<1>10. CASE uv_shutdown
  <2>1. Shutting = 0 /\ Shutting' = 1
    BY <1>10 DEF uv_shutdown, One, Shutting, Connecting
  <2>2. Listed' = Listed /\ Connecting' = Connecting /\ stream_reqs' = stream_reqs + 1
    BY <1>5, <1>6, <1>10 DEF uv_shutdown, queueVars, connVars
  <2> QED BY <1>1, <1>3, <1>4, <2>1, <2>2
<1>11. CASE uv_read_start \/ uv_read_stop
  BY <1>5, <1>6, <1>7, <1>8, <1>11 DEF uv_read_start, uv_read_stop, queueVars, connVars
<1>12. CASE uv_close
  <2>1. Connecting' = Connecting
    BY <1>12 DEF uv_close, One, Shutting, Connecting
  <2> QED BY <1>5, <1>7, <1>8, <1>12, <2>1 DEF uv_close, queueVars
<1>13. ASSUME NEW w \in Writes, NEW n \in Lengths, uv_write(w, n)
       PROVE  stream_reqs' = Listed' + Shutting' + Connecting'
  <2>1. Listed' = Listed + 1
    BY <1>3, <1>13, WriteWaits DEF Listed
  <2>2. Shutting' = Shutting /\ Connecting' = Connecting /\ stream_reqs' = stream_reqs + 1
    BY <1>6, <1>7, <1>13 DEF uv_write, connVars
  <2> QED BY <1>1, <1>3, <1>4, <2>1, <2>2
<1>14. ASSUME RunPending \/ \E e \in EventSets : PollEvent(e)
       PROVE  stream_reqs' = Listed' + Shutting' + Connecting'
  <2>1. stream_life = "open" /\ (IF connect_req THEN StreamConnect ELSE \E e : StreamIo(e))
    BY <1>14 DEF RunPending, PollEvent, ClosedIsQuiet
  <2>2. CASE connect_req
    <3>1. StreamConnect
      BY <2>1, <2>2
    <3>2. Connecting = 1 /\ Connecting' = 0
      BY <2>1, <2>2, <3>1 DEF StreamConnect, One, Shutting, Connecting
    <3>3. Listed' = Listed /\ Shutting' = Shutting /\ stream_reqs' = stream_reqs - 1
      BY <1>5, <1>7, <3>1 DEF StreamConnect, queueVars
    <3> QED BY <1>1, <1>3, <1>4, <3>2, <3>3
  <2>3. CASE ~connect_req
    <3>1. PICK e : StreamIo(e)
      BY <2>1, <2>3
    <3> QED BY <1>5, <1>6, <1>7, <1>8, <3>1 DEF StreamIo, queueVars, connVars
  <2> QED BY <2>2, <2>3
<1>15. CASE ConnectFailed
  <2>1. Listed' = Listed
    BY <1>5, <1>15, FlushWaits DEF ConnectFailed, queueVars, Listed
  <2> QED BY <1>6, <1>7, <1>8, <1>15, <2>1 DEF ConnectFailed, connVars
<1>16. CASE ReadData \/ ReadNothing \/ ReadEof \/ ReadError \/ AfterReadCallback \/ ReadDone
  BY <1>5, <1>6, <1>7, <1>8, <1>16 DEF ReadData, ReadNothing, ReadEof, ReadError,
     AfterReadCallback, ReadDone, ReadStep, queueVars, connVars
<1>17. CASE WriteCheck \/ WriteEmpty \/ WriteAgain
  BY <1>5, <1>6, <1>7, <1>8, <1>17 DEF WriteCheck, WriteEmpty, WriteAgain, WriteUnchanged,
     queueVars, connVars
<1>18. CASE WriteError
  <2>1. Listed' = Listed
    BY <1>18, FinishWaits DEF WriteError, Listed
  <2>2. UNCHANGED <<connect_req, stream_life, shutdown_req, stream_reqs>>
    BY <1>18 DEF WriteError
  <2> QED BY <1>6, <1>7, <1>8, <2>1, <2>2
<1>19. ASSUME NEW n \in 0..Max(Lengths), WriteSent(n)
       PROVE stream_reqs' = Listed' + Shutting' + Connecting'
  <2>1. /\ write_queue # <<>> /\ pq' = pq
        /\ UNCHANGED <<connect_req, stream_life, shutdown_req, stream_reqs>>
        /\ Finish \/ UNCHANGED <<write_queue, write_completed_queue>>
    BY <1>19 DEF WriteSent, WriteUnchanged, connVars
  <2>2. Listed' = Listed
    BY <1>5, <2>1, FinishWaits DEF Listed
  <2> QED BY <1>6, <1>7, <1>8, <2>1, <2>2
<1>20. CASE WriteCallbacks
  <2>1. Listed' = Listed
    BY <1>20, CallbacksWait DEF Listed
  <2> QED BY <1>6, <1>7, <1>8, <1>20, <2>1 DEF WriteCallbacks, connVars
<1>21. CASE NextCallback
  <2>1. Listed' = Listed - 1
    BY <1>3, <1>21, NextWaits DEF Listed
  <2>2. Shutting' = Shutting /\ Connecting' = Connecting /\ stream_reqs' = stream_reqs - 1
    BY <1>6, <1>7, <1>21 DEF NextCallback, connVars
  <2> QED BY <1>1, <1>3, <1>4, <2>1, <2>2
<1>22. CASE CallbacksDone \/ CallbackReturns \/ Done \/ Kernel \/ Finished
  BY <1>5, <1>6, <1>7, <1>8, <1>22 DEF CallbacksDone, CallbackReturns, Done, Kernel, Finished,
     vars, queueVars, connVars
<1>23. CASE uv__drain
  <2>1. Listed' = Listed /\ Connecting' = Connecting
    BY <1>5, <1>6, <1>23 DEF uv__drain, queueVars, connVars
  <2>2. CASE shutdown_req
    <3>1. Shutting = 1 /\ Shutting' = 0 /\ stream_reqs' = stream_reqs - 1
      BY <1>23, <2>2 DEF uv__drain, One, Shutting, Connecting
    <3> QED BY <1>1, <1>3, <1>4, <2>1, <3>1
  <2>3. CASE ~shutdown_req
    <3>1. UNCHANGED <<shutdown_req, stream_reqs>>
      BY <1>23, <2>3 DEF uv__drain
    <3> QED BY <1>7, <1>8, <2>1, <3>1
  <2> QED BY <2>2, <2>3
<1>24. CASE StreamDestroy
  <2>1. Listed' = Listed /\ Shutting' = Shutting
    BY <1>5, <1>7, <1>24 DEF StreamDestroy, queueVars
  <2>2. CASE connect_req
    <3>1. Connecting = 1 /\ Connecting' = 0 /\ stream_reqs' = stream_reqs - 1
      BY <1>24, <2>2 DEF StreamDestroy, One, Shutting, Connecting
    <3> QED BY <1>1, <1>3, <1>4, <2>1, <3>1
  <2>3. CASE ~connect_req
    <3>1. Connecting = 0 /\ Connecting' = 0 /\ stream_reqs' = stream_reqs
      BY <1>24, <2>3 DEF StreamDestroy, One, Shutting, Connecting, connVars
    <3> QED BY <1>8, <2>1, <3>1
  <2> QED BY <2>2, <2>3
<1>25. CASE DestroyFlush
  <2>1. Listed' = Listed
    BY <1>25, FlushWaits DEF DestroyFlush, Listed
  <2>2. stream_life = "closed" /\ stream_life' = "closed"
    BY <1>25 DEF DestroyFlush, ThreadIsSomewhere, ClosedIsQuiet, At
  <2>3. Connecting' = Connecting
    BY <2>2 DEF One, Shutting, Connecting
  <2> QED BY <1>7, <1>8, <1>25, <2>1, <2>3 DEF DestroyFlush
<1> QED BY <1>9, <1>10, <1>11, <1>12, <1>13, <1>14, <1>15, <1>16, <1>17, <1>18, <1>19, <1>20,
           <1>21, <1>22, <1>23, <1>24, <1>25 DEF Next, User, StreamStep

LEMMA StreamStepInv ==
  ASSUME StreamInv, Next
  PROVE  StreamInv'
<1> USE DEF StreamInv
<1>1. StreamTypes' /\ InterestType' /\ CountInRange' /\ ThreadIsSomewhere'
  BY StreamTypesStep, InterestStep, CountStep, ThreadStep
<1>2. ClosedIsQuiet'
  BY ClosedStep
<1>3. RequestsWait'
  BY RequestsStep
<1>4. CountersAgree'
  BY SizeStep, ReqsStep DEF CountersAgree
<1> QED BY <1>1, <1>2, <1>3, <1>4

LEMMA StreamStutters ==
  ASSUME StreamInv, UNCHANGED vars
  PROVE  StreamInv'
<1> USE DEF vars, flagVars, connVars, queueVars, ioVars
<1>1. Waiting' = Waiting /\ Called' = Called
  BY DEF Waiting, Called
<1>2. Using' = Using
  BY <1>1 DEF Using, InUse
<1>3. /\ UNCHANGED <<stream_life, sys, shutdown_req, stream_reqs, pc, fn, ret, count>>
      /\ UNCHANGED <<readable, writable, reading, read_eof, read_partial, shut, connect_req>>
      /\ UNCHANGED <<delayed_error, write_queue, write_completed_queue, pq, left, error>>
      /\ UNCHANGED <<write_queue_size, pevents, fed>>
  OBVIOUS
<1>4. StreamTypes' /\ InterestType' /\ CountInRange' /\ ThreadIsSomewhere' /\ ClosedIsQuiet'
  BY <1>3 DEF StreamInv, StreamTypes, InterestType, CountInRange, ThreadIsSomewhere, ClosedIsQuiet, At
<1>5. RequestsWait'
  BY <1>1, <1>3 DEF StreamInv, RequestsWait
<1>6. CountersAgree'
  <2>1. Listed' = Listed /\ Shutting' = Shutting /\ Connecting' = Connecting
    BY <1>1, <1>3 DEF Listed, Shutting, Connecting
  <2> QED BY <1>2, <1>3, <2>1 DEF StreamInv, CountersAgree
<1> QED BY <1>4, <1>5, <1>6 DEF StreamInv

LEMMA StreamAlways == Spec => []StreamInv
BY StreamInitInv, StreamStepInv, StreamStutters, PTL DEF Spec

LEMMA InvKeepsAccounts ==
  ASSUME StreamInv
  PROVE  TypeOK /\ Accounting
<1> USE DEF StreamInv
<1>1. /\ Called \in Seq(Writes) /\ Waiting \in Seq(Writes) /\ Distinct(Waiting)
      /\ Len(Waiting) \in Nat
  BY WaitingType, LenProperties
<1>2. Max(Lengths) \in Nat
  BY LengthsAssumption, MaxIsLargest
<1>3. IsFiniteSet(Using)
  <2>1. IsFiniteSet({w \in Writes : Linked(Waiting, w)})
    BY ONLY <1>1, LinkedFinite
  <2> QED BY <2>1 DEF Using, InUse
<1>4. \A w \in Using : left[w] \in Nat
  BY <1>2 DEF Using, RequestsWait
<1>5. write_queue_size \in Nat
  <2>1. SumOf(left, Using) \in Nat
    BY ONLY <1>3, <1>4, SumIsNatural
  <2> QED BY <2>1 DEF CountersAgree
<1>6. Shutting \in {0, 1} /\ Connecting \in {0, 1} /\ Listed \in Nat
  BY <1>1 DEF One, Shutting, Connecting, Listed
<1>7. stream_reqs \in Nat
  BY <1>6 DEF CountersAgree
<1>8. count \in 0..Max({MaxReads, MaxWrites})
  <2> DEFINE b == {MaxReads, MaxWrites}
  <2>1. b \subseteq Nat /\ b # {} /\ IsFiniteSet(b)
    <3>1. IsFiniteSet({MaxReads}) /\ b = {MaxReads} \cup {MaxWrites}
      BY FS_Singleton
    <3>2. IsFiniteSet({MaxReads} \cup {MaxWrites})
      BY <3>1, FS_AddElement
    <3> QED BY <3>1, <3>2, CountsAssumption
  <2>2. Max(b) \in Nat /\ MaxReads <= Max(b) /\ MaxWrites <= Max(b)
    BY <2>1, MaxIsLargest
  <2> HIDE DEF b
  <2>3. MaxReads \in Nat /\ MaxWrites \in Nat
    BY CountsAssumption
  <2> QED BY <2>2, <2>3 DEF CountInRange, b
<1>9. AtLoop => ret = "none" /\ pq = <<>>
  BY DEF AtLoop, ThreadIsSomewhere, At
<1>10. TypeOK
  <2>1. {readable, writable, reading, read_eof, read_partial, shut, connect_req,
         delayed_error, shutdown_req, fed} \subseteq BOOLEAN
    BY DEF StreamTypes
  <2>2. pevents \subseteq {"in", "out"} /\ stream_life \in {"open", "closing", "closed"}
        /\ sys \in {"none", "connecting", "up", "refused", "reset"}
        /\ fn \in {"none", "io", "connect", "destroy"}
    BY DEF StreamTypes, InterestType, ThreadIsSomewhere
  <2>3. {write_queue, write_completed_queue, pq} \subseteq Seq(Writes)
        /\ left \in [Writes -> 0..Max(Lengths)]
        /\ error \in [Writes -> {"ok", "failed", "ECANCELED"}]
    BY DEF RequestsWait
  <2> QED BY <1>5, <1>7, <1>8, <1>9, <2>1, <2>2, <2>3 DEF TypeOK
<1>11. write_queue_size = FoldFunctionOnSet(+, 0, left, {w \in Writes : InUse(w)})
  BY DEF CountersAgree, SumOf, Using
<1>12. \A w \in Writes : Occurrences(Waiting, w) <= 1
  <2> SUFFICES ASSUME NEW w \in Writes PROVE Occurrences(Waiting, w) <= 1
    OBVIOUS
  <2>1. Occurrences(Waiting, w) = IF Linked(Waiting, w) THEN 1 ELSE 0
    BY <1>1, OccursOnce
  <2> QED BY <2>1
<1>13. stream_reqs = Len(Waiting) + Cardinality({x \in {"shutdown"} : shutdown_req})
                     + Cardinality({x \in {"connect"} : connect_req /\ stream_life # "closed"})
  <2>1. ASSUME NEW b, NEW e PROVE Cardinality({x \in {e} : b}) = One(b)
    <3>1. CASE b
      <4>1. {x \in {e} : b} = {e}
        BY <3>1
      <4>2. Cardinality({e}) = 1
        BY FS_Singleton
      <4> QED BY <3>1, <4>1, <4>2 DEF One
    <3>2. CASE ~b
      <4>1. {x \in {e} : b} = {}
        BY <3>2
      <4>2. Cardinality({}) = 0
        BY FS_EmptySet
      <4> QED BY <3>2, <4>1, <4>2 DEF One
    <3> QED BY <3>1, <3>2
  <2>2. Cardinality({x \in {"shutdown"} : shutdown_req}) = One(shutdown_req)
    BY <2>1
  <2>3. Cardinality({x \in {"connect"} : connect_req /\ stream_life # "closed"})
          = One(connect_req /\ stream_life # "closed")
    BY <2>1
  <2> QED BY <2>2, <2>3 DEF CountersAgree, Listed, Shutting, Connecting
<1>14. stream_life = "closed" /\ fn = "none" => stream_reqs = 0 /\ pevents = {} /\ ~fed
  <2> SUFFICES ASSUME stream_life = "closed", fn = "none" PROVE stream_reqs = 0 /\ pevents = {} /\ ~fed
    OBVIOUS
  <2>1. At = "none"
    BY DEF ThreadIsSomewhere
  <2>2. /\ pq = <<>> /\ write_queue = <<>> /\ write_completed_queue = <<>> /\ ~shutdown_req
        /\ pevents = {} /\ ~fed
    BY <2>1 DEF ThreadIsSomewhere, ClosedIsQuiet
  <2>3. Waiting = <<>>
    <3>1. <<>> \in Seq(Writes)
      OBVIOUS
    <3>2. <<>> \o <<>> = <<>>
      BY <3>1, EmptyConcat
    <3> QED BY <2>2, <3>2 DEF Waiting
  <2>4. Listed = 0
    BY <2>3 DEF Listed
  <2>5. Shutting = 0 /\ Connecting = 0
    BY <2>2 DEF One, Shutting, Connecting
  <2> QED BY <2>2, <2>4, <2>5 DEF CountersAgree
<1> QED BY <1>10, <1>11, <1>12, <1>13, <1>14 DEF Accounting

LEMMA InOrderStep ==
  ASSUME StreamInv, Next
  PROVE  \/ Waiting' = Waiting
         \/ \E w \in Writes : Waiting' = Append(Waiting, w)
         \/ /\ Waiting' = Tail(Waiting) /\ pc = "next_callback"
            /\ error[Head(Waiting)] = "ok" => left[Head(Waiting)] = 0
            /\ left[Head(Waiting)] = 0 => error[Head(Waiting)] = "ok" \/ 0 \in Lengths
<1> USE DEF StreamInv
<1>1. CASE UNCHANGED queueVars
  BY <1>1 DEF queueVars, Waiting
<1>2. CASE Flush \/ WriteCallbacks
  BY <1>2, FlushWaits, CallbacksWait
<1>3. CASE WriteError
  BY <1>3, FinishWaits DEF WriteError
<1>4. ASSUME NEW n \in 0..Max(Lengths), WriteSent(n) PROVE Waiting' = Waiting
  <2>1. write_queue # <<>> /\ pq' = pq /\ (Finish \/ UNCHANGED <<write_queue, write_completed_queue>>)
    BY <1>4 DEF WriteSent
  <2> QED BY <2>1, FinishWaits DEF Waiting
<1>5. ASSUME NEW w \in Writes, NEW n \in Lengths, uv_write(w, n) PROVE Waiting' = Append(Waiting, w)
  BY <1>5, WriteWaits
<1>6. ASSUME NextCallback
      PROVE  /\ Waiting' = Tail(Waiting) /\ pc = "next_callback"
             /\ error[Head(Waiting)] = "ok" => left[Head(Waiting)] = 0
             /\ left[Head(Waiting)] = 0 => error[Head(Waiting)] = "ok" \/ 0 \in Lengths
  <2>1. Waiting' = Tail(Waiting) /\ Head(Waiting) = Head(Called) /\ Called # <<>>
    BY <1>6, NextWaits
  <2>2. Head(Called) \in Writes /\ Linked(Called, Head(Called))
    <3>1. Called \in Seq(Writes)
      BY WaitingType
    <3>2. Head(Called) \in Writes /\ Len(Called) \in Nat \ {0} /\ Head(Called) = Called[1]
      BY <2>1, <3>1, HeadTailProperties, EmptySeq
    <3> QED BY <3>2 DEF Linked
  <2>3. IF error[Head(Waiting)] = "ok" THEN left[Head(Waiting)] = 0
                                       ELSE left[Head(Waiting)] # 0 \/ 0 \in Lengths
    BY <2>1, <2>2 DEF RequestsWait
  <2> QED BY <1>6, <2>1, <2>3 DEF NextCallback
<1> QED BY <1>1, <1>2, <1>3, <1>4, <1>5, <1>6, QueueSteps

\* Whatever is written, cancelled, failed or closed in whatever callbacks, for
\* any requests of any lengths: write_queue_size is what the waiting requests
\* have left and the count of active requests is theirs.
THEOREM StreamAccounts == Spec => [](TypeOK /\ Accounting)
BY StreamAlways, InvKeepsAccounts, PTL

\* Write callbacks come in the order of the calls, and say "written" of
\* exactly what was written.
THEOREM StreamCallsBackInOrder == Spec => CallbacksInOrder
<1>1. StreamInv /\ [Next]_vars =>
        [\/ Waiting' = Waiting
         \/ \E w \in Writes : Waiting' = Append(Waiting, w)
         \/ /\ Waiting' = Tail(Waiting) /\ pc = "next_callback"
            /\ error[Head(Waiting)] = "ok" => left[Head(Waiting)] = 0
            /\ left[Head(Waiting)] = 0 =>
                 error[Head(Waiting)] = "ok" \/ 0 \in Lengths]_vars
  BY InOrderStep
<1> QED BY <1>1, StreamAlways, PTL DEF Spec, CallbacksInOrder

\* What a stream promises, but for the end of its requests: for any requests,
\* lengths and bounds of the two loops, and any user.
THEOREM StreamKeepsPromise == Spec => StreamPromise
BY StreamAccounts, StreamCallsBackInOrder, PTL DEF StreamPromise
=============================================================================
