------------------------------- MODULE AsyncProofs -------------------------------
(***************************************************************************)
(* Safety of what goes between threads, and of UDP handles.                *)
(* uv_async_send, for any number of threads and handles, and that it       *)
(* implements AsyncSignal: a thread that meets the flag of a closed handle *)
(* finds it up and writes nothing; a thread that may still write is        *)
(* counted in busy, and the spin waits for it.                             *)
(* fsevents: while the loop waits for the CoreFoundation thread, exactly   *)
(* one answer is to come: queued, being split, or the semaphore is up.     *)
(* UDP: called back, completed and queued requests are, in this order,     *)
(* what uv_udp_send was called with.                                       *)
(***************************************************************************)
EXTENDS Async, FsEvents, Udp, Lemmas, FunctionTheorems

\* The threads between the two updates of the busy count of a handle.
Inside(h) == {s \in Senders : tgt[s] = h /\ spc[s] \in {"exchange", "write", "done"}}

Stopping == lpc \in {"stop", "stop_spin", "down"}

\* Every open handle is on the list of the loop or on the local queue of the walk, and
\* nothing else is, but for the handle being closed; once the loop is cleaned up, the
\* list only has what was closed.
Lists ==
  /\ Distinct(async_handles) /\ Distinct(queue)
  /\ \A h \in Handles : hs[h] = "active" => Linked(async_handles, h) \/ Linked(queue, h)
  /\ \A h \in Handles : Linked(async_handles, h) =>
       /\ ~Linked(queue, h)
       /\ IF Stopping THEN hs[h] # "active" ELSE hs[h] = "active" \/ h = target
  /\ \A h \in Handles : Linked(queue, h) => hs[h] = "active" \/ h = target

\* Where the loop's thread is, and what it holds there.
Places ==
  /\ lpc \in {"spin", "stop_spin"} <=> target # None
  /\ target # None => hs[target] = "closing"
  /\ lpc = "stop_spin" => ~Linked(queue, target)
  /\ \A h \in Handles : hs[h] = "closing" => h = target
  /\ lpc \in {"move", "io"} \/ Stopping => in_cb = None
  /\ queue # <<>> => in_cb # None \/ lpc \in {"io", "stop", "stop_spin"}
  /\ efd = "closed" => lpc = "down"

\* A thread inside uv_async_send with a handle that is no longer open finds its flag up,
\* and nothing is owed for such a handle.
Raised ==
  /\ \A s \in Senders : spc[s] = "idle" <=> tgt[s] = None
  /\ \A s \in Senders : tgt[s] # None /\ hs[tgt[s]] # "active" => pending[tgt[s]] = 1
  /\ \A h \in owed : hs[h] = "active"

\* The busy count is never below the number of threads it counts.
Counted == \A h \in Handles : Cardinality(Inside(h)) <= busy[h]

AsyncInv ==
  TypeOK /\ Lists /\ Places /\ Raised /\ Counted /\ NoLostSend /\ NoWriteAfterSpin

-----------------------------------------------------------------------------
(* The threads that are counted.                                            *)

LEMMA InsideFinite ==
  ASSUME NEW h
  PROVE  IsFiniteSet(Inside(h)) /\ Cardinality(Inside(h)) \in Nat
BY SendersAssumption, FS_Subset, FS_CardinalityType DEF Inside

\* One more, and one less.
LEMMA OneEnters ==
  ASSUME NEW h, NEW s, s \notin Inside(h), Inside(h)' = Inside(h) \cup {s}
  PROVE  Cardinality(Inside(h))' = Cardinality(Inside(h)) + 1
BY InsideFinite, FS_AddElement

LEMMA OneLeaves ==
  ASSUME NEW h, NEW s, s \in Inside(h), Inside(h)' = Inside(h) \ {s}
  PROVE  /\ Cardinality(Inside(h))' = Cardinality(Inside(h)) - 1
         /\ Cardinality(Inside(h)) >= 1
<1>1. /\ Cardinality(Inside(h) \ {s}) = Cardinality(Inside(h)) - 1
      /\ IsFiniteSet(Inside(h) \ {s})
  BY InsideFinite, FS_RemoveElement
<1>2. Cardinality(Inside(h) \ {s}) \in Nat
  BY <1>1, FS_CardinalityType
<1> QED BY <1>1, <1>2, InsideFinite

\* Nobody is counted where the count is zero.
LEMMA NobodyInside ==
  ASSUME NEW h \in Handles, Counted, busy[h] = 0
  PROVE  Inside(h) = {}
<1>1. Cardinality(Inside(h)) = 0
  BY InsideFinite DEF Counted
<1> QED BY <1>1, InsideFinite, FS_EmptySet

-----------------------------------------------------------------------------
(* The threads that send.                                                   *)

\* What a step of uv_async_send does to the list and to the loop: nothing.
LEMMA ListsUntouched ==
  ASSUME Lists, Places, UNCHANGED <<hs, loopVars>>, efd' = "closed" => efd = "closed"
  PROVE  Lists' /\ Places'
BY DEF Lists, Places, Stopping, loopVars

LEMMA SendReadStep ==
  ASSUME AsyncInv, NEW s \in Senders, NEW h \in Handles, SendRead(s, h)
  PROVE  AsyncInv'
<1> USE DEF AsyncInv
<1>0. /\ spc[s] = "idle" /\ hs[h] = "active" /\ lpc # "down"
      /\ UNCHANGED <<hs, pending, busy, async_handles, queue, lpc, in_cb, target, efd>>
  BY DEF SendRead, handleVars, loopVars
<1>1. Lists' /\ Places'
  BY <1>0, ListsUntouched DEF loopVars
<1>2. CASE pending[h] # 0
  <2>1. owed' = owed \cup {h} /\ UNCHANGED <<spc, tgt>>
    BY <1>2 DEF SendRead, senderVars
  <2>2. TypeOK'
    BY <1>0, <2>1 DEF TypeOK
  <2>3. Counted' /\ Raised' /\ NoWriteAfterSpin'
    BY <1>0, <2>1 DEF Counted, Inside, Raised, NoWriteAfterSpin
  <2>4. NoLostSend'
    <3>1. pending[h] = 1
      BY <1>2 DEF TypeOK
    <3> QED BY <1>0, <2>1, <3>1 DEF NoLostSend
  <2> QED BY <1>1, <2>2, <2>3, <2>4
<1>3. CASE pending[h] = 0
  <2>1. /\ spc' = [spc EXCEPT ![s] = "busy"] /\ tgt' = [tgt EXCEPT ![s] = h]
        /\ UNCHANGED owed
    BY <1>3 DEF SendRead
  <2>2. TypeOK'
    BY <1>0, <2>1 DEF TypeOK
  <2>3. \A g \in Handles : Inside(g)' = Inside(g)
    BY <1>0, <2>1 DEF Inside, TypeOK
  <2>4. Counted'
    BY <1>0, <2>3 DEF Counted
  <2>5. Raised'
    BY <1>0, <2>1, HandlesAssumption DEF Raised, TypeOK
  <2>6. NoWriteAfterSpin'
    BY <1>0, <2>1 DEF NoWriteAfterSpin, TypeOK
  <2>7. NoLostSend'
    BY <1>0, <2>1 DEF NoLostSend, TypeOK
  <2> QED BY <1>1, <2>2, <2>4, <2>5, <2>6, <2>7
<1> QED BY <1>2, <1>3

LEMMA SendBusyStep ==
  ASSUME AsyncInv, NEW s \in Senders, SendBusy(s)
  PROVE  AsyncInv'
<1> USE DEF AsyncInv
<1>a. tgt[s] \in Handles
  BY DEF SendBusy, Raised, TypeOK
<1>b. PICK h \in Handles : h = tgt[s]
  BY <1>a
<1>0. /\ spc[s] = "busy"
      /\ busy' = [busy EXCEPT ![h] = @ + 1] /\ spc' = [spc EXCEPT ![s] = "exchange"]
      /\ UNCHANGED <<hs, pending, async_handles, queue, lpc, in_cb, target, tgt, efd, owed>>
  BY <1>b DEF SendBusy, loopVars, Raised, TypeOK
<1>1. Lists' /\ Places'
  BY <1>0, ListsUntouched DEF loopVars
<1>2. TypeOK'
  BY <1>0 DEF TypeOK
<1>3. s \notin Inside(h) /\ Inside(h)' = Inside(h) \cup {s}
  BY <1>0, <1>b DEF Inside, TypeOK
<1>4. \A g \in Handles : g # h => Inside(g)' = Inside(g)
  BY <1>0, <1>b DEF Inside, TypeOK
<1>5. Counted'
  <2> SUFFICES ASSUME NEW g \in Handles PROVE (Cardinality(Inside(g)) <= busy[g])'
    BY DEF Counted
  <2>1. Cardinality(Inside(g)) <= busy[g] /\ Cardinality(Inside(g)) \in Nat /\ busy[g] \in Nat
    BY InsideFinite DEF Counted, TypeOK
  <2>2. CASE g = h
    <3>1. Cardinality(Inside(g))' = Cardinality(Inside(g)) + 1
      BY <1>3, <2>2, OneEnters
    <3>2. busy'[g] = busy[g] + 1
      BY <1>0, <2>2 DEF TypeOK
    <3> QED BY <2>1, <3>1, <3>2
  <2>3. CASE g # h
    <3>1. busy'[g] = busy[g] /\ Inside(g)' = Inside(g)
      BY <1>0, <1>4, <2>3 DEF TypeOK
    <3> QED BY <2>1, <3>1
  <2> QED BY <2>2, <2>3
<1>6. Raised' /\ NoWriteAfterSpin' /\ NoLostSend'
  BY <1>0 DEF Raised, NoWriteAfterSpin, NoLostSend, TypeOK
<1> QED BY <1>1, <1>2, <1>5, <1>6

\* The exchange raises the flag; who finds it down has an open handle, and writes.
LEMMA SendExchangeStep ==
  ASSUME AsyncInv, NEW s \in Senders, SendExchange(s)
  PROVE  AsyncInv'
<1> USE DEF AsyncInv
<1> DEFINE h == tgt[s]
<1>0. /\ spc[s] = "exchange" /\ h \in Handles
      /\ pending' = [pending EXCEPT ![h] = 1]
      /\ spc' = [spc EXCEPT ![s] = IF pending[h] = 0 THEN "write" ELSE "done"]
      /\ owed' = IF hs[h] = "active" THEN owed \cup {h} ELSE owed
      /\ UNCHANGED <<hs, busy, async_handles, queue, lpc, in_cb, target, tgt, efd>>
  BY HandlesAssumption DEF SendExchange, loopVars, Raised, TypeOK
<1>1. Lists' /\ Places'
  BY <1>0, ListsUntouched DEF loopVars
<1>2. TypeOK'
  BY <1>0 DEF TypeOK
<1>3. \A g \in Handles : Inside(g)' = Inside(g)
  BY <1>0 DEF Inside, TypeOK
<1>4. Counted'
  BY <1>0, <1>3 DEF Counted
<1>5. Raised'
  <2>1. \A u \in Senders : spc'[u] = "idle" <=> tgt[u] = None
    BY <1>0 DEF Raised, TypeOK
  <2>2. ASSUME NEW u \in Senders, tgt[u] # None, hs[tgt[u]] # "active" PROVE pending'[tgt[u]] = 1
    BY <1>0, <2>2 DEF Raised, TypeOK
  <2>3. \A g \in owed' : hs[g] = "active"
    BY <1>0 DEF Raised
  <2> QED BY <1>0, <2>1, <2>2, <2>3 DEF Raised
<1>6. NoWriteAfterSpin'
  <2>1. pending[h] = 0 => hs[h] = "active"
    BY <1>0, HandlesAssumption DEF Raised
  <2>2. hs[h] = "active" => efd # "closed"
    BY <1>0 DEF Lists, Places, Stopping, Linked
  <2>3. ASSUME NEW u \in Senders, spc'[u] = "write"
        PROVE  efd # "closed" /\ hs[tgt[u]] \in {"active", "closing"}
    BY <1>0, <2>1, <2>2, <2>3 DEF NoWriteAfterSpin, TypeOK
  <2> QED BY <1>0, <2>3 DEF NoWriteAfterSpin
<1>7. NoLostSend'
  <2> SUFFICES ASSUME NEW g \in Handles, hs[g] = "active"
               PROVE  /\ g \in owed' => pending'[g] = 1
                      /\ pending'[g] = 1 => \/ efd = "set"
                                            \/ \E u \in Senders : spc'[u] = "write"
                                            \/ lpc = "move"
                                            \/ Linked(queue, g)
    BY <1>0 DEF NoLostSend
  <2>1. g \in owed' => pending'[g] = 1
    BY <1>0 DEF NoLostSend, TypeOK
  <2>2. ASSUME pending[h] = 0 PROVE spc'[s] = "write"
    BY <1>0, <2>2 DEF TypeOK
  <2>3. ASSUME pending[h] # 0, pending'[g] = 1
        PROVE  \/ efd = "set"
               \/ \E u \in Senders : spc'[u] = "write"
               \/ lpc = "move"
               \/ Linked(queue, g)
    <3>1. pending[g] = 1
      BY <1>0, <2>3 DEF TypeOK
    <3>2. \A u \in Senders : spc[u] = "write" => spc'[u] = "write"
      BY <1>0 DEF TypeOK
    <3> QED BY <3>1, <3>2 DEF NoLostSend
  <2> QED BY <2>1, <2>2, <2>3
<1> QED BY <1>1, <1>2, <1>4, <1>5, <1>6, <1>7

LEMMA SendWriteStep ==
  ASSUME AsyncInv, NEW s \in Senders, SendWrite(s)
  PROVE  AsyncInv'
<1> USE DEF AsyncInv
<1>0. /\ spc[s] = "write" /\ efd' = "set" /\ spc' = [spc EXCEPT ![s] = "done"]
      /\ UNCHANGED <<hs, pending, busy, async_handles, queue, lpc, in_cb, target, tgt, owed>>
  BY DEF SendWrite, handleVars, loopVars
<1>1. Lists' /\ Places'
  BY <1>0, ListsUntouched DEF loopVars
<1>2. TypeOK'
  BY <1>0 DEF TypeOK
<1>3. \A g \in Handles : Inside(g)' = Inside(g)
  BY <1>0 DEF Inside, TypeOK
<1>4. Counted'
  BY <1>0, <1>3 DEF Counted
<1>5. Raised' /\ NoWriteAfterSpin' /\ NoLostSend'
  BY <1>0 DEF Raised, NoWriteAfterSpin, NoLostSend, TypeOK
<1> QED BY <1>1, <1>2, <1>4, <1>5

LEMMA SendDoneStep ==
  ASSUME AsyncInv, NEW s \in Senders, SendDone(s)
  PROVE  AsyncInv'
<1> USE DEF AsyncInv
<1>a. tgt[s] \in Handles
  BY DEF SendDone, Raised, TypeOK
<1>b. PICK h \in Handles : h = tgt[s]
  BY <1>a
<1>0. /\ spc[s] = "done"
      /\ busy' = [busy EXCEPT ![h] = @ - 1]
      /\ spc' = [spc EXCEPT ![s] = "idle"] /\ tgt' = [tgt EXCEPT ![s] = None]
      /\ UNCHANGED <<hs, pending, async_handles, queue, lpc, in_cb, target, efd, owed>>
  BY <1>b DEF SendDone, loopVars, Raised, TypeOK
<1>1. Lists' /\ Places'
  BY <1>0, ListsUntouched DEF loopVars
<1>2. s \in Inside(h) /\ Inside(h)' = Inside(h) \ {s}
  BY <1>0, <1>b, HandlesAssumption DEF Inside, TypeOK
<1>3. \A g \in Handles : g # h => Inside(g)' = Inside(g)
  BY <1>0, <1>b, HandlesAssumption DEF Inside, TypeOK
<1>4. Cardinality(Inside(h))' = Cardinality(Inside(h)) - 1 /\ Cardinality(Inside(h)) >= 1
  BY <1>2, OneLeaves
<1>5. busy[h] \in Nat /\ busy[h] >= 1
  <2>1. Cardinality(Inside(h)) \in Nat /\ Cardinality(Inside(h)) <= busy[h] /\ busy[h] \in Nat
    BY <1>0, InsideFinite DEF Counted, TypeOK
  <2> QED BY <1>4, <2>1
<1>6. TypeOK'
  <2>1. busy' \in [Handles -> Nat]
    BY <1>0, <1>5 DEF TypeOK
  <2> QED BY <1>0, <2>1 DEF TypeOK
<1>7. Counted'
  <2> SUFFICES ASSUME NEW g \in Handles PROVE (Cardinality(Inside(g)) <= busy[g])'
    BY DEF Counted
  <2>1. Cardinality(Inside(g)) <= busy[g] /\ Cardinality(Inside(g)) \in Nat /\ busy[g] \in Nat
    BY InsideFinite DEF Counted, TypeOK
  <2>2. CASE g = h
    <3>1. busy'[g] = busy[g] - 1
      BY <1>0, <2>2 DEF TypeOK
    <3> QED BY <1>4, <2>1, <2>2, <3>1
  <2>3. CASE g # h
    <3>1. busy'[g] = busy[g] /\ Inside(g)' = Inside(g)
      BY <1>0, <1>3, <2>3 DEF TypeOK
    <3> QED BY <2>1, <3>1
  <2> QED BY <2>2, <2>3
<1>8. Raised' /\ NoWriteAfterSpin' /\ NoLostSend'
  BY <1>0 DEF Raised, NoWriteAfterSpin, NoLostSend, TypeOK
<1> QED BY <1>1, <1>6, <1>7, <1>8

-----------------------------------------------------------------------------
(* The loop's thread.                                                       *)

LEMMA EmptyList == \A h : ~Linked(<<>>, h)
BY DEF Linked

\* What the loop does without touching what the senders use.
LEMMA SendersUntouched ==
  ASSUME Counted, UNCHANGED <<busy, spc, tgt>>
  PROVE  Counted'
BY DEF Counted, Inside

LEMMA AsyncInitStep ==
  ASSUME AsyncInv, NEW h \in Handles, AsyncInit(h)
  PROVE  AsyncInv'
<1> USE DEF AsyncInv
<1>0. /\ lpc = "user" /\ hs[h] \in {"unused", "closed"} /\ \A s \in Senders : tgt[s] # h
      /\ hs' = [hs EXCEPT ![h] = "active"]
      /\ pending' = [pending EXCEPT ![h] = 0] /\ busy' = [busy EXCEPT ![h] = 0]
      /\ async_handles' = Append(async_handles, h)
      /\ UNCHANGED <<queue, lpc, in_cb, target, spc, tgt, efd, owed>>
  BY DEF AsyncInit, UserCode, senderVars
<1>1. target = None /\ ~Stopping
  BY <1>0 DEF Places, Stopping
<1>2. ~Linked(async_handles, h) /\ ~Linked(queue, h)
  BY <1>0, <1>1, HandlesAssumption DEF Lists
<1>3. /\ async_handles' \in Seq(Handles) /\ Distinct(async_handles')
      /\ \A g : Linked(async_handles', g) <=> Linked(async_handles, g) \/ g = h
  BY <1>0, <1>2, AppendDistinct DEF Lists, TypeOK
<1>4. TypeOK'
  BY <1>0, <1>3 DEF TypeOK
<1>5. Lists'
  BY <1>0, <1>1, <1>2, <1>3 DEF Lists, Stopping, TypeOK
<1>6. Places'
  BY <1>0, <1>1 DEF Places, Stopping, TypeOK
<1>7. Raised'
  BY <1>0 DEF Raised, TypeOK
<1>8. Counted'
  <2> SUFFICES ASSUME NEW g \in Handles PROVE (Cardinality(Inside(g)) <= busy[g])'
    BY DEF Counted
  <2>1. Inside(g)' = Inside(g)
    BY <1>0 DEF Inside
  <2>2. CASE g = h
    <3>1. Inside(g) = {}
      BY <1>0, <2>2 DEF Inside
    <3>2. busy'[g] = 0
      BY <1>0, <2>2 DEF TypeOK
    <3> QED BY <2>1, <3>1, <3>2, FS_EmptySet
  <2>3. CASE g # h
    <3>1. busy'[g] = busy[g]
      BY <1>0, <2>3 DEF TypeOK
    <3> QED BY <2>1, <3>1 DEF Counted
  <2> QED BY <2>2, <2>3
<1>9. NoLostSend'
  <2>1. h \notin owed
    BY <1>0 DEF Raised
  <2> QED BY <1>0, <1>2, <2>1 DEF NoLostSend, TypeOK
<1>10. NoWriteAfterSpin'
  BY <1>0 DEF NoWriteAfterSpin, TypeOK
<1> QED BY <1>4, <1>5, <1>6, <1>7, <1>8, <1>9, <1>10

\* The steps of uv__async_io that move no handle.
LEMMA WalkStep ==
  ASSUME AsyncInv, IoRead \/ IoEnd \/ CallbackReturns
  PROVE  AsyncInv'
<1> USE DEF AsyncInv
<1>0. UNCHANGED <<hs, pending, busy, async_handles, queue, target, spc, tgt, owed>>
  BY DEF IoRead, IoEnd, CallbackReturns, handleVars, senderVars
<1>1. TypeOK'
  BY <1>0 DEF TypeOK, IoRead, IoEnd, CallbackReturns
<1>2. target = None /\ ~Stopping /\ ~Stopping'
  BY DEF Places, Stopping, IoRead, IoEnd, CallbackReturns, UserCode
<1>3. Lists'
  BY <1>0, <1>2 DEF Lists
<1>4. Places'
  BY <1>0, <1>2 DEF Places, Stopping, IoRead, IoEnd, CallbackReturns, UserCode
<1>5. Raised' /\ Counted'
  BY <1>0, SendersUntouched DEF Raised
<1>6. NoWriteAfterSpin'
  BY <1>0 DEF NoWriteAfterSpin, IoRead, IoEnd, CallbackReturns
<1>7. NoLostSend'
  <2>1. CASE IoRead
    BY <1>0, <2>1 DEF NoLostSend, IoRead
  <2>2. CASE IoEnd
    BY <1>0, <2>2, EmptyList DEF NoLostSend, IoEnd
  <2>3. CASE CallbackReturns
    BY <1>0, <2>3 DEF NoLostSend, CallbackReturns, UserCode
  <2> QED BY <2>1, <2>2, <2>3
<1> QED BY <1>1, <1>3, <1>4, <1>5, <1>6, <1>7

\* All handles go to the local queue, to be visited or to be stopped.
LEMMA MoveStep ==
  ASSUME AsyncInv, IoMove \/ Stop
  PROVE  AsyncInv'
<1> USE DEF AsyncInv
<1>0. /\ UNCHANGED <<hs, pending, busy, in_cb, target, spc, tgt, efd, owed>>
      /\ queue' = async_handles /\ async_handles' = <<>>
      /\ lpc \in {"move", "user"} /\ lpc' \in {"io", "stop"}
  BY DEF IoMove, Stop, UserCode, handleVars, senderVars
<1>1. in_cb = None /\ target = None /\ queue = <<>> /\ ~Stopping /\ efd # "closed"
  BY <1>0 DEF IoMove, Stop, Places, Stopping
<1>2. TypeOK'
  <2>1. <<>> \in Seq(Handles)
    BY EmptySeq
  <2> QED BY <1>0, <2>1 DEF TypeOK
<1>3. Lists'
  <2>1. Distinct(<<>>)
    BY DEF Distinct
  <2> QED BY <1>0, <1>1, <2>1, EmptyList DEF Lists
<1>4. Places'
  BY <1>0, <1>1 DEF Places, Stopping
<1>5. Raised' /\ Counted' /\ NoWriteAfterSpin'
  BY <1>0, SendersUntouched DEF Raised, NoWriteAfterSpin
<1>6. NoLostSend'
  BY <1>0, <1>1, EmptyList DEF NoLostSend, Lists
<1> QED BY <1>2, <1>3, <1>4, <1>5, <1>6

\* A handle goes from the local queue to the end of the list.
LEMMA HeadMoves ==
  ASSUME AsyncInv, queue # <<>>, lpc \in {"io", "stop"}
  PROVE  /\ Head(queue) \in Handles /\ hs[Head(queue)] = "active" /\ target = None /\ in_cb = None
         /\ Tail(queue) \in Seq(Handles) /\ Append(async_handles, Head(queue)) \in Seq(Handles)
         /\ Distinct(Tail(queue)) /\ Distinct(Append(async_handles, Head(queue)))
         /\ Linked(queue, Head(queue)) /\ ~Linked(async_handles, Head(queue))
         /\ \A g : Linked(Tail(queue), g) <=> Linked(queue, g) /\ g # Head(queue)
         /\ \A g : Linked(Append(async_handles, Head(queue)), g)
                     <=> Linked(async_handles, g) \/ g = Head(queue)
<1> USE DEF AsyncInv
<1>1. /\ Head(queue) \in Handles /\ Linked(queue, Head(queue))
      /\ Tail(queue) \in Seq(Handles) /\ Distinct(Tail(queue))
      /\ \A g : Linked(Tail(queue), g) <=> Linked(queue, g) /\ g # Head(queue)
  BY TailDistinct DEF TypeOK, Lists
<1>2. target = None /\ in_cb = None
  BY DEF Places, Stopping
<1>3. hs[Head(queue)] = "active" /\ ~Linked(async_handles, Head(queue))
  BY <1>1, <1>2, HandlesAssumption DEF Lists
<1> QED BY <1>1, <1>2, <1>3, AppendDistinct DEF TypeOK, Lists

LEMMA IoVisitStep ==
  ASSUME AsyncInv, IoVisit
  PROVE  AsyncInv'
<1> USE DEF AsyncInv
<1>a. queue # <<>> /\ lpc = "io"
  BY DEF IoVisit
<1>b. PICK h \in Handles : h = Head(queue)
  BY <1>a, HeadMoves
<1>0. /\ queue' = Tail(queue) /\ async_handles' = Append(async_handles, h)
      /\ pending' = [pending EXCEPT ![h] = 0]
      /\ \/ pending[h] # 0 /\ lpc' = "user" /\ in_cb' = h /\ owed' = owed \ {h}
         \/ pending[h] = 0 /\ UNCHANGED <<lpc, in_cb, owed>>
      /\ UNCHANGED <<hs, busy, target, spc, tgt, efd>>
  BY <1>b DEF IoVisit, Cleared, senderVars
<1>1. /\ hs[h] = "active" /\ target = None /\ in_cb = None
      /\ Linked(queue, h) /\ ~Linked(async_handles, h)
      /\ queue' \in Seq(Handles) /\ async_handles' \in Seq(Handles)
      /\ Distinct(queue') /\ Distinct(async_handles')
      /\ \A g : Linked(queue', g) <=> Linked(queue, g) /\ g # h
      /\ \A g : Linked(async_handles', g) <=> Linked(async_handles, g) \/ g = h
  BY <1>a, <1>b, <1>0, HeadMoves
<1>2. TypeOK'
  BY <1>a, <1>0, <1>1 DEF TypeOK
<1>3. Lists'
  BY <1>a, <1>0, <1>1 DEF Lists, Stopping
<1>4. Places'
  BY <1>a, <1>0, <1>1, HandlesAssumption DEF Places, Stopping
<1>5. Raised'
  BY <1>0, <1>1 DEF Raised, TypeOK
<1>6. Counted' /\ NoWriteAfterSpin'
  BY <1>0, SendersUntouched DEF NoWriteAfterSpin
<1>7. NoLostSend'
  <2> SUFFICES ASSUME NEW g \in Handles, hs[g] = "active"
               PROVE  /\ g \in owed' => pending'[g] = 1
                      /\ pending'[g] = 1 => \/ efd = "set"
                                            \/ \E u \in Senders : spc[u] = "write"
                                            \/ lpc' = "move"
                                            \/ Linked(queue', g)
    BY <1>0 DEF NoLostSend
  <2>1. CASE g = h
    <3>1. pending'[h] = 0
      BY <1>0 DEF TypeOK
    <3>2. h \notin owed'
      BY <1>0, <1>1 DEF NoLostSend
    <3> QED BY <2>1, <3>1, <3>2
  <2>2. CASE g # h
    <3>1. pending'[g] = pending[g]
      BY <1>0, <2>2 DEF TypeOK
    <3>2. g \in owed' => g \in owed
      BY <1>0
    <3> QED BY <1>a, <1>1, <2>2, <3>1, <3>2 DEF NoLostSend
  <2> QED BY <2>1, <2>2
<1> QED BY <1>2, <1>3, <1>4, <1>5, <1>6, <1>7

\* uv_close raises the flag: who sends from now on writes nothing.
LEMMA CloseStep ==
  ASSUME AsyncInv, NEW h \in Handles, Close(h)
  PROVE  AsyncInv'
<1> USE DEF AsyncInv
<1>0. /\ lpc = "user" /\ hs[h] = "active"
      /\ hs' = [hs EXCEPT ![h] = "closing"] /\ pending' = [pending EXCEPT ![h] = 1]
      /\ target' = h /\ lpc' = "spin" /\ owed' = owed \ {h}
      /\ UNCHANGED <<busy, async_handles, queue, in_cb, spc, tgt, efd>>
  BY DEF Close, UserCode, SpinPending, senderVars
<1>1. target = None /\ ~Stopping /\ ~Stopping'
  BY <1>0 DEF Places, Stopping
<1>2. TypeOK'
  BY <1>0 DEF TypeOK
<1>3. Lists'
  BY <1>0, <1>1, HandlesAssumption DEF Lists, TypeOK
<1>4. Places'
  BY <1>0, <1>1, HandlesAssumption DEF Places, Stopping, TypeOK
<1>5. Raised'
  BY <1>0 DEF Raised, TypeOK
<1>6. Counted' /\ NoWriteAfterSpin'
  BY <1>0, SendersUntouched DEF NoWriteAfterSpin, TypeOK
<1>7. NoLostSend'
  BY <1>0 DEF NoLostSend, TypeOK
<1> QED BY <1>2, <1>3, <1>4, <1>5, <1>6, <1>7

\* The spin ends when nobody is counted, so nobody is left who may write.
LEMMA NobodyWrites ==
  ASSUME AsyncInv, NEW h \in Handles, busy[h] = 0, NEW s \in Senders, spc[s] = "write"
  PROVE  tgt[s] # h
<1>1. Inside(h) = {}
  BY NobodyInside DEF AsyncInv
<1> QED BY <1>1 DEF Inside

LEMMA CloseSpunStep ==
  ASSUME AsyncInv, CloseSpun
  PROVE  AsyncInv'
<1> USE DEF AsyncInv
<1>a. target \in Handles /\ hs[target] = "closing"
  BY DEF CloseSpun, Places, TypeOK
<1>b. PICK h \in Handles : h = target
  BY <1>a
<1>0. /\ lpc = "spin" /\ busy[h] = 0 /\ hs' = [hs EXCEPT ![h] = "spun"]
      /\ async_handles' = Unlink(async_handles, h) /\ queue' = Unlink(queue, h)
      /\ target' = None /\ lpc' = "user"
      /\ UNCHANGED <<pending, busy, in_cb, spc, tgt, efd, owed>>
  BY <1>b DEF CloseSpun, SpinEnds, senderVars
<1>1. /\ async_handles' \in Seq(Handles) /\ Distinct(async_handles')
      /\ queue' \in Seq(Handles) /\ Distinct(queue')
      /\ \A g : Linked(async_handles', g) <=> Linked(async_handles, g) /\ g # h
      /\ \A g : Linked(queue', g) <=> Linked(queue, g) /\ g # h
  BY <1>0, UnlinkType, UnlinkDistinct DEF Lists, TypeOK
<1>2. TypeOK'
  BY <1>0, <1>1 DEF TypeOK
<1>3. Lists'
  BY <1>a, <1>b, <1>0, <1>1 DEF Lists, Stopping, TypeOK
<1>4. Places'
  <2>1. queue = <<>> => queue' = <<>>
    BY <1>0, EmptyList DEF Unlink
  <2>2. \A g \in Handles : hs'[g] # "closing"
    BY <1>b, <1>0 DEF Places, TypeOK
  <2> QED BY <1>0, <2>1, <2>2 DEF Places, Stopping
<1>5. Raised'
  BY <1>a, <1>b, <1>0 DEF Raised, TypeOK
<1>6. Counted'
  BY <1>0, SendersUntouched
<1>7. NoWriteAfterSpin'
  BY <1>0, NobodyWrites DEF NoWriteAfterSpin, TypeOK
<1>8. NoLostSend'
  BY <1>a, <1>b, <1>0, <1>1 DEF NoLostSend, TypeOK
<1> QED BY <1>2, <1>3, <1>4, <1>5, <1>6, <1>7, <1>8

LEMMA FinishCloseStep ==
  ASSUME AsyncInv, NEW h \in Handles, FinishClose(h)
  PROVE  AsyncInv'
<1> USE DEF AsyncInv
<1>0. /\ hs[h] = "spun" /\ hs' = [hs EXCEPT ![h] = "closed"]
      /\ UNCHANGED <<pending, busy, async_handles, queue, lpc, in_cb, target, spc, tgt, efd, owed>>
  BY DEF FinishClose, loopVars, senderVars
<1>1. TypeOK'
  BY <1>0 DEF TypeOK
<1>2. \A g \in Handles : /\ hs'[g] = "active" <=> hs[g] = "active"
                         /\ hs'[g] = "closing" <=> hs[g] = "closing"
  BY <1>0 DEF TypeOK
<1>3. Lists'
  BY <1>0, <1>2 DEF Lists, Stopping
<1>4. Places'
  BY <1>0, <1>2 DEF Places, Stopping, TypeOK
<1>5. Raised'
  BY <1>0, <1>2 DEF Raised, TypeOK
<1>6. Counted'
  BY <1>0, SendersUntouched
<1>7. NoWriteAfterSpin'
  BY <1>0 DEF NoWriteAfterSpin, TypeOK
<1>8. NoLostSend'
  BY <1>0, <1>2 DEF NoLostSend
<1> QED BY <1>1, <1>3, <1>4, <1>5, <1>6, <1>7, <1>8

LEMMA StopVisitStep ==
  ASSUME AsyncInv, StopVisit
  PROVE  AsyncInv'
<1> USE DEF AsyncInv
<1>a. queue # <<>> /\ lpc = "stop"
  BY DEF StopVisit
<1>b. PICK h \in Handles : h = Head(queue)
  BY <1>a, HeadMoves
<1>0. /\ queue' = Tail(queue) /\ async_handles' = Append(async_handles, h)
      /\ pending' = [pending EXCEPT ![h] = 1] /\ hs' = [hs EXCEPT ![h] = "closing"]
      /\ target' = h /\ lpc' = "stop_spin" /\ owed' = owed \ {h}
      /\ UNCHANGED <<busy, in_cb, spc, tgt, efd>>
  BY <1>b DEF StopVisit, SpinPending, senderVars
<1>1. /\ hs[h] = "active" /\ target = None /\ in_cb = None
      /\ Linked(queue, h) /\ ~Linked(async_handles, h)
      /\ queue' \in Seq(Handles) /\ async_handles' \in Seq(Handles)
      /\ Distinct(queue') /\ Distinct(async_handles')
      /\ \A g : Linked(queue', g) <=> Linked(queue, g) /\ g # h
      /\ \A g : Linked(async_handles', g) <=> Linked(async_handles, g) \/ g = h
  BY <1>a, <1>b, <1>0, HeadMoves
<1>2. TypeOK'
  BY <1>a, <1>0, <1>1 DEF TypeOK
<1>3. Lists'
  BY <1>a, <1>0, <1>1, HandlesAssumption DEF Lists, Stopping, TypeOK
<1>4. Places'
  BY <1>a, <1>0, <1>1, HandlesAssumption DEF Places, Stopping, TypeOK
<1>5. Raised'
  BY <1>0, <1>1 DEF Raised, TypeOK
<1>6. Counted' /\ NoWriteAfterSpin'
  BY <1>0, SendersUntouched DEF NoWriteAfterSpin, TypeOK
<1>7. NoLostSend'
  BY <1>a, <1>0, <1>1 DEF NoLostSend, TypeOK
<1> QED BY <1>2, <1>3, <1>4, <1>5, <1>6, <1>7

LEMMA StopSpunStep ==
  ASSUME AsyncInv, StopSpun
  PROVE  AsyncInv'
<1> USE DEF AsyncInv
<1>a. target \in Handles /\ hs[target] = "closing" /\ ~Linked(queue, target)
  BY DEF StopSpun, Places, TypeOK
<1>b. PICK h \in Handles : h = target
  BY <1>a
<1>0. /\ lpc = "stop_spin" /\ busy[h] = 0 /\ hs' = [hs EXCEPT ![h] = "closed"]
      /\ target' = None /\ lpc' = "stop"
      /\ UNCHANGED <<pending, busy, async_handles, queue, in_cb, spc, tgt, efd, owed>>
  BY <1>b DEF StopSpun, SpinEnds, senderVars
<1>1. TypeOK'
  BY <1>0 DEF TypeOK
<1>2. Lists'
  BY <1>a, <1>b, <1>0 DEF Lists, Stopping, TypeOK
<1>3. Places'
  BY <1>b, <1>0 DEF Places, Stopping, TypeOK
<1>4. Raised'
  BY <1>a, <1>b, <1>0 DEF Raised, TypeOK
<1>5. Counted'
  BY <1>0, SendersUntouched
<1>6. NoWriteAfterSpin'
  BY <1>0, NobodyWrites DEF NoWriteAfterSpin, TypeOK
<1>7. NoLostSend'
  BY <1>a, <1>b, <1>0 DEF NoLostSend, TypeOK
<1> QED BY <1>1, <1>2, <1>3, <1>4, <1>5, <1>6, <1>7

\* No handle is open or closing when the descriptor is closed, so nobody writes.
LEMMA StopEndStep ==
  ASSUME AsyncInv, StopEnd
  PROVE  AsyncInv'
<1> USE DEF AsyncInv
<1>0. /\ lpc = "stop" /\ queue = <<>> /\ efd' = "closed" /\ lpc' = "down"
      /\ UNCHANGED <<hs, pending, busy, async_handles, queue, in_cb, target, spc, tgt, owed>>
  BY DEF StopEnd, handleVars, senderVars
<1>1. TypeOK'
  BY <1>0 DEF TypeOK
<1>2. Stopping /\ Stopping' /\ target = None
  BY <1>0 DEF Places, Stopping
<1>3. \A h \in Handles : hs[h] \notin {"active", "closing"}
  BY <1>0, <1>2, EmptyList, HandlesAssumption DEF Lists, Places
<1>4. Lists'
  BY <1>0, <1>2 DEF Lists
<1>5. Places'
  BY <1>0, <1>2 DEF Places, Stopping
<1>6. Raised' /\ Counted'
  BY <1>0, SendersUntouched DEF Raised
<1>7. \A s \in Senders : spc[s] # "write"
  <2> SUFFICES ASSUME NEW s \in Senders, spc[s] = "write" PROVE FALSE
    OBVIOUS
  <2>1. tgt[s] \in Handles
    BY DEF Raised, TypeOK
  <2> QED BY <1>3, <2>1 DEF NoWriteAfterSpin
<1>8. NoWriteAfterSpin' /\ NoLostSend'
  BY <1>0, <1>3, <1>7 DEF NoWriteAfterSpin, NoLostSend
<1> QED BY <1>1, <1>4, <1>5, <1>6, <1>8

\* In a child all threads are gone; a fork inside a callback leaves handles that wait to
\* be visited with their flags and counts, which harms no send.
LEMMA ForkStep ==
  ASSUME AsyncInv, Fork
  PROVE  AsyncInv'
<1> USE DEF AsyncInv
<1>0. /\ lpc = "user"
      /\ pending' = [h \in Handles |-> IF Linked(async_handles, h) THEN 0 ELSE pending[h]]
      /\ busy' = [h \in Handles |-> IF Linked(async_handles, h) THEN 0 ELSE busy[h]]
      /\ efd' = "empty" /\ spc' = [s \in Senders |-> "idle"] /\ tgt' = [s \in Senders |-> None]
      /\ owed' = {}
      /\ UNCHANGED <<hs, async_handles, queue, lpc, in_cb, target>>
  BY DEF Fork, UserCode, ForkedBusy, OnList, loopVars
<1>1. Lists' /\ Places'
  BY <1>0, ListsUntouched DEF loopVars
<1>2. TypeOK'
  BY <1>0 DEF TypeOK
<1>3. Raised' /\ NoWriteAfterSpin'
  BY <1>0 DEF Raised, NoWriteAfterSpin
<1>4. Counted'
  <2> SUFFICES ASSUME NEW h \in Handles PROVE (Cardinality(Inside(h)) <= busy[h])'
    BY DEF Counted
  <2>1. Inside(h)' = {}
    BY <1>0 DEF Inside
  <2>2. busy'[h] \in Nat
    BY <1>2 DEF TypeOK
  <2> QED BY <2>1, <2>2, FS_EmptySet
<1>5. NoLostSend'
  BY <1>0 DEF NoLostSend, Lists, TypeOK
<1> QED BY <1>1, <1>2, <1>3, <1>4, <1>5

-----------------------------------------------------------------------------
(* Together.                                                                *)

\* A list of the elements of a set, each once.
LEMMA ListOfSet ==
  ASSUME NEW S, NEW n \in Nat, NEW f \in Bijection(1..n, S)
  PROVE  /\ f \in Seq(S) /\ Len(f) = n
         /\ Distinct(f) /\ \A h : Linked(f, h) <=> h \in S
<1>1. f \in [1..n -> S]
  BY Fun_BijectionProperties
<1>2. \A i, j \in 1..n : f[i] = f[j] => i = j
  BY Fun_BijectionProperties
<1>3. \A h \in S : \E i \in 1..n : f[i] = h
  BY Fun_BijectionProperties
<1>4. f \in Seq(S) /\ Len(f) = n
  BY <1>1, SeqDef, LenProperties
<1> QED BY <1>1, <1>2, <1>3, <1>4 DEF Distinct, Linked

LEMMA AsyncStarts == Init => AsyncInv
<1> SUFFICES ASSUME Init PROVE AsyncInv
  OBVIOUS
<1>1. /\ hs = [h \in Handles |-> IF h \in Internal THEN "active" ELSE "unused"]
      /\ pending = [h \in Handles |-> 0] /\ busy = [h \in Handles |-> 0]
      /\ queue = <<>> /\ efd = "empty" /\ lpc = "user" /\ in_cb = None /\ target = None
      /\ spc = [s \in Senders |-> "idle"] /\ tgt = [s \in Senders |-> None] /\ owed = {}
  BY DEF Init
<1>2. Cardinality(Internal) \in Nat
  BY HandlesAssumption, FS_CardinalityType
<1>3. PICK f \in Bijection(1..Cardinality(Internal), Internal) : async_handles = f
  BY DEF Init
<1>4. /\ async_handles \in Seq(Internal) /\ Distinct(async_handles)
      /\ \A h : Linked(async_handles, h) <=> h \in Internal
  BY <1>2, <1>3, ListOfSet
<1>5. async_handles \in Seq(Handles)
  BY <1>4, HandlesAssumption, SeqDef
<1>6. TypeOK
  <2>1. <<>> \in Seq(Handles)
    BY EmptySeq
  <2> QED BY <1>1, <1>5, <2>1 DEF TypeOK
<1>7. Lists
  <2>1. Distinct(<<>>)
    BY DEF Distinct
  <2> QED BY <1>1, <1>4, <2>1, EmptyList DEF Lists, Stopping
<1>8. Places /\ Raised
  BY <1>1 DEF Places, Raised, Stopping
<1>9. Counted
  <2> SUFFICES ASSUME NEW h \in Handles PROVE Cardinality(Inside(h)) <= busy[h]
    BY DEF Counted
  <2>1. Inside(h) = {} /\ busy[h] = 0
    BY <1>1 DEF Inside
  <2> QED BY <2>1, FS_EmptySet
<1>10. NoLostSend /\ NoWriteAfterSpin
  BY <1>1 DEF NoLostSend, NoWriteAfterSpin
<1> QED BY <1>6, <1>7, <1>8, <1>9, <1>10 DEF AsyncInv

LEMMA AsyncStep == AsyncInv /\ [Next]_vars => AsyncInv'
<1> SUFFICES ASSUME AsyncInv, [Next]_vars PROVE AsyncInv'
  OBVIOUS
<1>1. ASSUME NEW s \in Senders, SendStep(s) \/ \E h \in Handles : SendRead(s, h) PROVE AsyncInv'
  BY <1>1, SendReadStep, SendBusyStep, SendExchangeStep, SendWriteStep, SendDoneStep DEF SendStep
<1>2. ASSUME NEW h \in Handles, AsyncInit(h) \/ Close(h) \/ FinishClose(h) PROVE AsyncInv'
  BY <1>2, AsyncInitStep, CloseStep, FinishCloseStep
<1>3. ASSUME IoRead \/ LoopStep \/ Stop \/ Fork PROVE AsyncInv'
  BY <1>3, WalkStep, MoveStep, IoVisitStep, CloseSpunStep, StopVisitStep, StopSpunStep, StopEndStep,
     ForkStep DEF LoopStep
<1>4. CASE UNCHANGED vars
  <2>1. UNCHANGED <<hs, pending, busy, async_handles, queue, lpc, in_cb, target, spc, tgt, efd, owed>>
    BY <1>4 DEF vars, handleVars, loopVars, senderVars
  <2>2. Lists' /\ Places'
    BY <2>1, ListsUntouched DEF AsyncInv, loopVars
  <2>3. Counted'
    BY <2>1, SendersUntouched DEF AsyncInv
  <2> QED BY <2>1, <2>2, <2>3 DEF AsyncInv, TypeOK, Raised, NoLostSend, NoWriteAfterSpin
<1> QED BY <1>1, <1>2, <1>3, <1>4 DEF Next, Finished

LEMMA AsyncInvariant == Spec => []AsyncInv
BY AsyncStarts, AsyncStep, PTL DEF Spec

\* uv_async_send: whatever other threads, the loop, closing handles and forks do between
\* its atomic operations, a send to an open handle keeps the flag up, and the eventfd
\* readable or a thread about to write it, until the loop visits the handle; it never
\* writes for a handle that was spun on, nor to a descriptor that is closed.
THEOREM SendsAreSafe == Spec => []SendsSound
<1>1. AsyncInv => SendsSound
  BY DEF AsyncInv, SendsSound
<1> QED BY <1>1, AsyncInvariant, PTL

-----------------------------------------------------------------------------
(* If nobody forks inside an async callback.                                *)

\* Then a fork finds every open handle on the list.
LEMMA ForkFindsAll ==
  ASSUME ~ForkInCallback, AsyncInv, Fork
  PROVE  \A h \in Handles : /\ hs[h] = "active" <=> Linked(async_handles, h)
                            /\ hs[h] # "closing"
<1>1. in_cb = None /\ lpc = "user"
  BY DEF Fork, UserCode
<1>2. queue = <<>> /\ target = None /\ ~Stopping
  BY <1>1 DEF AsyncInv, Places, Stopping
<1> QED BY <1>1, <1>2, EmptyList, HandlesAssumption DEF AsyncInv, Lists, Places

LEMMA BusyStep ==
  ASSUME ~ForkInCallback, AsyncInv, BusyCount, [Next]_vars
  PROVE  BusyCount'
<1>0. TypeOK
  BY DEF AsyncInv
<1>1. \A h \in Handles : hs[h] \in {"active", "closing"} => busy[h] = Cardinality(Inside(h))
  BY DEF BusyCount, Inside
<1> SUFFICES ASSUME NEW g \in Handles, hs'[g] \in {"active", "closing"}
             PROVE  busy'[g] = Cardinality(Inside(g))'
  BY DEF BusyCount, Inside
<1>2. Cardinality(Inside(g)) \in Nat /\ busy[g] \in Nat
  BY <1>0, InsideFinite DEF TypeOK
<1>3. ASSUME hs[g] \in {"active", "closing"}, busy'[g] = busy[g], Inside(g)' = Inside(g)
      PROVE  busy'[g] = Cardinality(Inside(g))'
  BY <1>1, <1>3
<1>4. ASSUME NEW s \in Senders, SendBusy(s) PROVE busy'[g] = Cardinality(Inside(g))'
  <2>1. hs[g] \in {"active", "closing"}
    BY <1>4 DEF SendBusy
  <2>2. /\ spc[s] = "busy" /\ spc' = [spc EXCEPT ![s] = "exchange"] /\ tgt' = tgt
        /\ busy' = [busy EXCEPT ![tgt[s]] = @ + 1]
    BY <1>4 DEF SendBusy
  <2>3. CASE g = tgt[s]
    <3>1. s \notin Inside(g) /\ Inside(g)' = Inside(g) \cup {s}
      BY <1>0, <2>2, <2>3 DEF Inside, TypeOK
    <3>2. busy'[g] = busy[g] + 1
      BY <1>0, <2>2, <2>3 DEF TypeOK
    <3> QED BY <1>1, <1>2, <2>1, <3>1, <3>2, OneEnters
  <2>4. CASE g # tgt[s]
    <3>1. busy'[g] = busy[g] /\ Inside(g)' = Inside(g)
      BY <1>0, <2>2, <2>4 DEF Inside, TypeOK
    <3> QED BY <1>3, <2>1, <3>1
  <2> QED BY <2>3, <2>4
<1>5. ASSUME NEW s \in Senders, SendDone(s) PROVE busy'[g] = Cardinality(Inside(g))'
  <2>1. hs[g] \in {"active", "closing"}
    BY <1>5 DEF SendDone
  <2>2. /\ spc[s] = "done" /\ spc' = [spc EXCEPT ![s] = "idle"] /\ tgt' = [tgt EXCEPT ![s] = None]
        /\ busy' = [busy EXCEPT ![tgt[s]] = @ - 1]
    BY <1>5 DEF SendDone
  <2>3. CASE g = tgt[s]
    <3>1. s \in Inside(g) /\ Inside(g)' = Inside(g) \ {s}
      BY <1>0, <2>2, <2>3, HandlesAssumption DEF Inside, TypeOK
    <3>2. busy'[g] = busy[g] - 1
      BY <1>0, <2>2, <2>3 DEF TypeOK
    <3> QED BY <1>1, <1>2, <2>1, <3>1, <3>2, OneLeaves
  <2>4. CASE g # tgt[s]
    <3>1. busy'[g] = busy[g] /\ Inside(g)' = Inside(g)
      BY <1>0, <2>2, <2>4, HandlesAssumption DEF Inside, TypeOK
    <3> QED BY <1>3, <2>1, <3>1
  <2> QED BY <2>3, <2>4
<1>6. ASSUME NEW s \in Senders, SendExchange(s) \/ SendWrite(s) \/ \E h \in Handles : SendRead(s, h)
      PROVE  busy'[g] = Cardinality(Inside(g))'
  <2>1. hs[g] \in {"active", "closing"} /\ busy'[g] = busy[g]
    BY <1>6 DEF SendExchange, SendWrite, SendRead, handleVars
  <2>2. CASE SendExchange(s)
    BY <1>0, <1>3, <2>1, <2>2 DEF SendExchange, Inside, TypeOK
  <2>3. CASE SendWrite(s)
    BY <1>0, <1>3, <2>1, <2>3 DEF SendWrite, Inside, TypeOK
  <2>4. ASSUME NEW h \in Handles, SendRead(s, h) PROVE Inside(g)' = Inside(g)
    <3>1. CASE pending[h] # 0
      BY <2>4, <3>1 DEF SendRead, senderVars, Inside
    <3>2. CASE pending[h] = 0
      BY <1>0, <2>4, <3>2 DEF SendRead, Inside, TypeOK
    <3> QED BY <3>1, <3>2
  <2> QED BY <1>3, <1>6, <2>1, <2>2, <2>3, <2>4
<1>7. ASSUME NEW h \in Handles, AsyncInit(h) PROVE busy'[g] = Cardinality(Inside(g))'
  <2>1. Inside(g)' = Inside(g)
    BY <1>7 DEF AsyncInit, senderVars, Inside
  <2>2. CASE g = h
    <3>1. Inside(g) = {} /\ busy'[g] = 0
      BY <1>0, <1>7, <2>2 DEF AsyncInit, Inside, TypeOK
    <3> QED BY <2>1, <3>1, FS_EmptySet
  <2>3. CASE g # h
    <3>1. hs[g] \in {"active", "closing"} /\ busy'[g] = busy[g]
      BY <1>0, <1>7, <2>3 DEF AsyncInit, TypeOK
    <3> QED BY <1>3, <2>1, <3>1
  <2> QED BY <2>2, <2>3
<1>8. CASE Fork
  <2>1. Inside(g)' = {}
    BY <1>8 DEF Fork, Inside
  <2>2. hs[g] \in {"active", "closing"}
    BY <1>8 DEF Fork
  <2>3. Linked(async_handles, g)
    BY <1>8, <2>2, ForkFindsAll
  <2>4. busy'[g] = 0
    BY <1>8, <2>3 DEF Fork, ForkedBusy, OnList
  <2> QED BY <2>1, <2>4, FS_EmptySet
<1>9. ASSUME UNCHANGED <<busy, spc, tgt>>, hs[g] \in {"active", "closing"}
      PROVE  busy'[g] = Cardinality(Inside(g))'
  BY <1>3, <1>9 DEF Inside
<1>10. ASSUME NEW h \in Handles, Close(h) \/ FinishClose(h) PROVE busy'[g] = Cardinality(Inside(g))'
  BY <1>0, <1>9, <1>10 DEF Close, FinishClose, senderVars, TypeOK
<1>11. ASSUME IoRead \/ LoopStep \/ Stop PROVE busy'[g] = Cardinality(Inside(g))'
  <2>1. UNCHANGED <<busy, spc, tgt>>
    BY <1>11 DEF IoRead, LoopStep, Stop, IoMove, IoVisit, IoEnd, CallbackReturns, CloseSpun, StopVisit,
                 StopSpun, StopEnd, handleVars, senderVars
  <2>2. hs[g] \in {"active", "closing"}
    <3>1. CASE CloseSpun
      BY <1>0, <3>1 DEF CloseSpun, TypeOK
    <3>2. CASE StopSpun
      BY <1>0, <3>2 DEF StopSpun, TypeOK
    <3>3. CASE StopVisit
      BY <1>0, <3>3, HeadMoves DEF StopVisit, TypeOK
    <3>4. CASE IoRead \/ IoMove \/ IoVisit \/ IoEnd \/ CallbackReturns \/ Stop \/ StopEnd
      BY <3>4 DEF IoRead, Stop, IoMove, IoVisit, IoEnd, CallbackReturns, StopEnd, handleVars
    <3> QED BY <1>11, <3>1, <3>2, <3>3, <3>4 DEF LoopStep
  <2> QED BY <1>9, <2>1, <2>2
<1>12. CASE UNCHANGED vars
  BY <1>9, <1>12 DEF vars, handleVars, senderVars
<1> QED BY <1>4, <1>5, <1>6, <1>7, <1>8, <1>10, <1>11, <1>12 DEF Next, SendStep, Finished

\* The busy count of an open or closing handle is the number of threads inside
\* uv_async_send with it, so the spin of uv_close waits for these and for no one else.
THEOREM BusyIsExact ==
  ASSUME ~ForkInCallback
  PROVE  Spec => []BusyCount
<1>1. Init => BusyCount
  <2> SUFFICES ASSUME Init, NEW h \in Handles PROVE busy[h] = Cardinality(Inside(h))
    BY DEF BusyCount, Inside
  <2>1. Inside(h) = {} /\ busy[h] = 0
    BY DEF Init, Inside
  <2> QED BY <2>1, FS_EmptySet
<1>2. AsyncInv /\ BusyCount /\ [Next]_vars => BusyCount'
  BY BusyStep
<1> QED BY <1>1, <1>2, AsyncInvariant, PTL DEF Spec

-----------------------------------------------------------------------------
(* unix/async.c implements AsyncSignal.                                     *)

\* The state of AsyncSignal that stands for one of the code.
Opened == {h \in Handles : hs[h] = "active"}
Signalled == {h \in Handles : hs[h] = "active" /\ pending[h] = 1}
SignalState == <<Opened, Signalled, in_cb>>

\* A step that opens, closes, flags and calls nothing is a stutter.
Silent == UNCHANGED SignalState

LEMMA NoNewFlag ==
  ASSUME UNCHANGED <<hs, pending, in_cb>>
  PROVE  Silent
BY DEF Silent, SignalState, Opened, Signalled

\* The exchange is the send, if the handle is still open.
LEMMA ExchangeSends ==
  ASSUME AsyncInv, NEW s \in Senders, SendExchange(s)
  PROVE  (\E h \in Handles : Signal!Send(h)) \/ Silent
<1>a. tgt[s] \in Handles
  BY DEF AsyncInv, SendExchange, Raised, TypeOK
<1>b. PICK h \in Handles : h = tgt[s]
  BY <1>a
<1>0. /\ pending' = [pending EXCEPT ![h] = 1]
      /\ pending \in [Handles -> {0, 1}] /\ hs' = hs /\ in_cb' = in_cb
  BY <1>b DEF AsyncInv, SendExchange, TypeOK, loopVars
<1>1. Opened' = Opened
  BY <1>0 DEF Opened
<1>2. CASE hs[h] = "active"
  <2>1. Signalled' = Signalled \cup {h} /\ h \in Opened
    BY <1>0, <1>2 DEF Signalled, Opened
  <2>2. Signal!Send(h)
    BY <1>0, <1>1, <2>1 DEF Signal!Send, Opened, Signalled
  <2> QED BY <2>2
<1>3. CASE hs[h] # "active"
  <2>1. Signalled' = Signalled
    BY <1>0, <1>3 DEF Signalled
  <2> QED BY <1>0, <1>1, <2>1 DEF Silent, SignalState
<1> QED BY <1>2, <1>3

\* The visit of a handle whose flag is up is the callback.
LEMMA VisitCalls ==
  ASSUME AsyncInv, IoVisit
  PROVE  (\E h \in Handles : Signal!Callback(h)) \/ Silent
<1>a. queue # <<>> /\ lpc = "io"
  BY DEF IoVisit
<1>b. PICK h \in Handles : h = Head(queue)
  BY <1>a, HeadMoves
<1>0. /\ hs[h] = "active" /\ in_cb = None /\ hs' = hs
      /\ pending' = [pending EXCEPT ![h] = 0] /\ pending \in [Handles -> {0, 1}]
      /\ in_cb' = IF pending[h] # 0 THEN h ELSE in_cb
  BY <1>a, <1>b, HeadMoves DEF IoVisit, Cleared, AsyncInv, TypeOK
<1>1. Opened' = Opened
  BY <1>0 DEF Opened
<1>2. Signalled' = Signalled \ {h}
  BY <1>0 DEF Signalled
<1>3. CASE pending[h] # 0
  <2>1. h \in Signalled
    BY <1>0, <1>3 DEF Signalled
  <2>2. Signal!Callback(h)
    BY <1>0, <1>1, <1>2, <1>3, <2>1 DEF Signal!Callback, Opened, Signalled
  <2> QED BY <2>2
<1>4. CASE pending[h] = 0
  <2>1. h \notin Signalled
    BY <1>4 DEF Signalled
  <2> QED BY <1>0, <1>1, <1>2, <1>4, <2>1 DEF Silent, SignalState
<1> QED BY <1>3, <1>4

\* uv_close and uv__async_stop take back what was sent.
LEMMA CloseCloses ==
  ASSUME TypeOK, NEW h \in Handles, hs[h] = "active", hs' = [hs EXCEPT ![h] = "closing"],
         pending' = [pending EXCEPT ![h] = 1], UNCHANGED in_cb
  PROVE  Signal!Close(h)
<1>1. h \in Opened /\ Opened' = Opened \ {h} /\ Signalled' = Signalled \ {h}
  BY DEF Opened, Signalled, TypeOK
<1> QED BY <1>1 DEF Signal!Close, Opened, Signalled

LEMMA InitOpens ==
  ASSUME TypeOK, NEW h \in Handles, AsyncInit(h)
  PROVE  Signal!Open(h)
<1>0. /\ hs[h] # "active" /\ hs' = [hs EXCEPT ![h] = "active"]
      /\ pending' = [pending EXCEPT ![h] = 0] /\ in_cb' = in_cb
  BY DEF AsyncInit
<1>1. h \notin Opened /\ Opened' = Opened \cup {h} /\ Signalled' = Signalled
  BY <1>0 DEF Opened, Signalled, TypeOK
<1> QED BY <1>0, <1>1 DEF Signal!Open, Opened, Signalled

\* A handle that is closing goes on without AsyncSignal's taking notice.
LEMMA EndIsSilent ==
  ASSUME TypeOK, NEW h \in Handles, NEW stage \in {"spun", "closed"}, hs[h] # "active",
         hs' = [hs EXCEPT ![h] = stage], UNCHANGED <<pending, in_cb>>
  PROVE  Silent
<1>1. \A g \in Handles : hs'[g] = "active" <=> hs[g] = "active"
  BY DEF TypeOK
<1> QED BY <1>1 DEF Silent, SignalState, Opened, Signalled

LEMMA ForkDiscards ==
  ASSUME ~ForkInCallback, AsyncInv, Fork
  PROVE  Signal!Discard
<1>0. hs' = hs /\ in_cb' = in_cb
  BY DEF Fork, loopVars
<1>1. \A h \in Handles : hs[h] = "active" => pending'[h] = 0
  BY ForkFindsAll DEF Fork, OnList
<1>2. Opened' = Opened /\ Signalled' = {}
  BY <1>0, <1>1 DEF Opened, Signalled
<1> QED BY <1>0, <1>2 DEF Signal!Discard, Opened, Signalled

\* With its atomics, its two loops over the list and its spin, unix/async.c is the
\* coalescing signal: callbacks run one at a time and each consumes the sends before it,
\* none without a send since the last, none for a handle that is not open.
THEOREM AsyncImplementsSignal ==
  ASSUME ~ForkInCallback
  PROVE  Spec => ImplementsSignal
<1>1. Init => Signal!Init
  <2> SUFFICES ASSUME Init PROVE Signal!Init
    OBVIOUS
  <2>1. Signalled = {} /\ Opened \subseteq Handles /\ in_cb = None
    BY DEF Init, Signalled, Opened
  <2> QED BY <2>1 DEF Signal!Init, Signalled, Opened
<1>2. AsyncInv /\ [Next]_vars => [Signal!Next]_SignalState
  <2> SUFFICES ASSUME AsyncInv, [Next]_vars PROVE Signal!Next \/ Silent
    BY DEF Silent
  <2>0. TypeOK
    BY DEF AsyncInv
  <2>1. ASSUME NEW s \in Senders, SendStep(s) \/ \E h \in Handles : SendRead(s, h)
        PROVE  Signal!Next \/ Silent
    <3>1. CASE SendExchange(s)
      BY <3>1, ExchangeSends DEF Signal!Next
    <3>2. CASE SendBusy(s) \/ SendWrite(s) \/ SendDone(s) \/ \E h \in Handles : SendRead(s, h)
      <4>1. UNCHANGED <<hs, pending, in_cb>>
        BY <3>2 DEF SendBusy, SendWrite, SendDone, SendRead, handleVars, loopVars
      <4> QED BY <4>1, NoNewFlag
    <3> QED BY <2>1, <3>1, <3>2 DEF SendStep
  <2>2. ASSUME NEW h \in Handles, AsyncInit(h) \/ Close(h) \/ FinishClose(h)
        PROVE  Signal!Next \/ Silent
    <3>1. CASE AsyncInit(h)
      BY <2>0, <3>1, InitOpens DEF Signal!Next
    <3>2. CASE Close(h)
      <4>1. Signal!Close(h)
        BY <2>0, <3>2, CloseCloses DEF Close, SpinPending
      <4> QED BY <4>1 DEF Signal!Next
    <3>3. CASE FinishClose(h)
      BY <2>0, <3>3, EndIsSilent DEF FinishClose, loopVars
    <3> QED BY <2>2, <3>1, <3>2, <3>3
  <2>3. CASE IoRead \/ IoMove \/ IoEnd \/ Stop \/ StopEnd
    <3>1. UNCHANGED <<hs, pending, in_cb>>
      BY <2>3 DEF IoRead, IoMove, IoEnd, Stop, StopEnd, handleVars
    <3> QED BY <3>1, NoNewFlag
  <2>4. CASE IoVisit
    BY <2>4, VisitCalls DEF Signal!Next
  <2>5. CASE CallbackReturns
    <3>1. Opened' = Opened /\ Signalled' = Signalled /\ in_cb # None /\ in_cb' = None
      BY <2>5 DEF CallbackReturns, handleVars, Opened, Signalled
    <3> QED BY <3>1 DEF Signal!Next, Signal!Return, Opened, Signalled
  <2>6. CASE CloseSpun \/ StopSpun
    <3>1. target \in Handles /\ hs[target] = "closing"
      BY <2>6 DEF AsyncInv, Places, TypeOK, CloseSpun, StopSpun
    <3>2. PICK h \in Handles : h = target
      BY <3>1
    <3>3. /\ \/ hs' = [hs EXCEPT ![h] = "spun"]
             \/ hs' = [hs EXCEPT ![h] = "closed"]
          /\ UNCHANGED <<pending, in_cb>>
      BY <2>6, <3>2 DEF CloseSpun, StopSpun
    <3> QED BY <2>0, <3>1, <3>2, <3>3, EndIsSilent
  <2>7. CASE StopVisit
    <3>1. queue # <<>> /\ lpc = "stop"
      BY <2>7 DEF StopVisit
    <3>2. PICK h \in Handles : h = Head(queue)
      BY <3>1, HeadMoves
    <3>3. Signal!Close(h)
      BY <2>0, <2>7, <3>1, <3>2, HeadMoves, CloseCloses DEF StopVisit, SpinPending
    <3> QED BY <3>3 DEF Signal!Next
  <2>8. CASE Fork
    BY <2>8, ForkDiscards DEF Signal!Next
  <2>9. CASE UNCHANGED vars
    BY <2>9, NoNewFlag DEF vars, handleVars, loopVars
  <2> QED BY <2>1, <2>2, <2>3, <2>4, <2>5, <2>6, <2>7, <2>8, <2>9 DEF Next, LoopStep, Finished
<1>3. [][Signal!Next]_SignalState => [][Signal!Next]_Signal!vars
  <2>1. Signal!vars = SignalState /\ Signal!vars' = SignalState'
    BY DEF Signal!vars, SignalState, Opened, Signalled
  <2>2. [Signal!Next]_SignalState => [Signal!Next]_Signal!vars
    BY <2>1
  <2> QED BY <2>2, PTL
<1> QED BY <1>1, <1>2, <1>3, AsyncInvariant, PTL DEF Spec, ImplementsSignal, Signal!Spec

-----------------------------------------------------------------------------
(* fsevents (macOS): what the CoreFoundation thread knows of a handle.      *)

FsSignals == [handle : FsHandles, type : {"regular", "closing"}]
               \cup [handle : {NoHandle}, type : {"regular"}]
Closes == {s \in FsSignals : s.type = "closing"}
ToClose(q) == Cardinality(PositionsIn(q, Closes))

FsTypes ==
  /\ watching \subseteq FsHandles
  /\ fsevent_handles = watching
  /\ need_reschedule \in BOOLEAN
  /\ cf_signals \in Seq(FsSignals) /\ split \in Seq(FsSignals)
  /\ fsevent_sem \in Nat
  /\ cf_events \in [FsHandles -> Nat]
  /\ lt \in {"idle", "callback", "process", "wait", "join"} /\ back \in {"idle", "callback"}
  /\ cf \in {"none", "run", "signals", "collect", "create", "exit"}

\* One answer is owed to the loop thread while it waits, and none otherwise:
\* its signal is on its way, or the semaphore is up.
OneAnswer == ToClose(cf_signals) + ToClose(split) + fsevent_sem = IF lt = "wait" THEN 1 ELSE 0

\* Where the CF thread is, and what it has there.
CfPlaces ==
  /\ cf \in {"none", "run", "exit"} => split = <<>>
  /\ cf \in {"collect", "create"} => split # <<>>
  /\ cf # "create" => collected = {}
  /\ cf \in {"collect", "create"} /\ Head(split) \in Closes => ~need_reschedule
  /\ cf = "none" => watching = {} /\ cf_stream = {} /\ cf_signals = <<>>
  /\ lt = "join" => watching = {}

\* What was stopped is in no stream: once the loop thread may go on, and as
\* soon as the CF thread has looked at the list again.
StreamForgets ==
  lt # "wait" \/ fsevent_sem > 0 \/ ~need_reschedule => cf_stream \cup collected \subseteq watching

\* Nothing is queued for what was stopped.
QueuesForget ==
  lt # "wait" => /\ sent \cup cf_error \subseteq watching
                 /\ \A h \in FsHandles \ watching : cf_events[h] = 0

FsEventsInv == FsTypes /\ OneAnswer /\ CfPlaces /\ StreamForgets /\ QueuesForget

-----------------------------------------------------------------------------
LEMMA ToCloseOf ==
  /\ ToClose(<<>>) = 0
  /\ \A q \in Seq(FsSignals) : ToClose(q) \in Nat
  /\ \A q \in Seq(FsSignals) : \A s \in FsSignals :
       /\ Append(q, s) \in Seq(FsSignals)
       /\ ToClose(Append(q, s)) = ToClose(q) + (IF s \in Closes THEN 1 ELSE 0)
  /\ \A q \in Seq(FsSignals) : q # <<>> =>
       /\ Tail(q) \in Seq(FsSignals) /\ Head(q) \in FsSignals
       /\ ToClose(Tail(q)) = ToClose(q) - (IF Head(q) \in Closes THEN 1 ELSE 0)
<1>1. ToClose(<<>>) = 0
  <2>1. PositionsIn(<<>>, Closes) = {}
    BY DEF PositionsIn
  <2> QED BY <2>1, FS_EmptySet DEF ToClose
<1>2. \A q \in Seq(FsSignals) : ToClose(q) \in Nat
  BY PlacesFinite DEF ToClose
<1>3. \A q \in Seq(FsSignals) : \A s \in FsSignals :
        /\ Append(q, s) \in Seq(FsSignals)
        /\ ToClose(Append(q, s)) = ToClose(q) + (IF s \in Closes THEN 1 ELSE 0)
  BY PlacesOfAppend, AppendProperties DEF ToClose
<1>4. \A q \in Seq(FsSignals) : q # <<>> =>
        /\ Tail(q) \in Seq(FsSignals) /\ Head(q) \in FsSignals
        /\ ToClose(Tail(q)) = ToClose(q) - (IF Head(q) \in Closes THEN 1 ELSE 0)
  BY PlacesOfTail, HeadTailProperties DEF ToClose
<1> QED BY <1>1, <1>2, <1>3, <1>4

\* The loop thread's part: what it adds to the list of signals.
LEMMA LoopSignals ==
  ASSUME FsEventsInv, NEW h \in FsHandles, NEW type \in {"regular", "closing"}, CfLoopSignal(h, type)
  PROVE  /\ cf_signals' \in Seq(FsSignals)
         /\ ToClose(cf_signals') = ToClose(cf_signals) + (IF type = "closing" THEN 1 ELSE 0)
<1> DEFINE s == [handle |-> h, type |-> type]
<1>1. s \in FsSignals /\ (s \in Closes <=> type = "closing")
  BY DEF FsSignals, Closes
<1>2. cf_signals' = Append(cf_signals, s)
  BY DEF CfLoopSignal
<1> QED BY <1>1, <1>2, ToCloseOf DEF FsEventsInv, FsTypes

\* While the loop thread does not wait there is no signal to answer.
LEMMA NothingToAnswer ==
  ASSUME FsEventsInv, lt # "wait"
  PROVE  /\ ToClose(cf_signals) = 0 /\ ToClose(split) = 0 /\ fsevent_sem = 0
         /\ split # <<>> => Head(split) \notin Closes
<1>1. ToClose(cf_signals) \in Nat /\ ToClose(split) \in Nat /\ fsevent_sem \in Nat
  BY ToCloseOf DEF FsEventsInv, FsTypes
<1>2. ToClose(cf_signals) + ToClose(split) + fsevent_sem = 0
  BY DEF FsEventsInv, OneAnswer
<1>3. ToClose(cf_signals) = 0 /\ ToClose(split) = 0 /\ fsevent_sem = 0
  BY <1>1, <1>2
<1>4. ASSUME split # <<>>, Head(split) \in Closes PROVE FALSE
  <2>1. ToClose(Tail(split)) \in Nat /\ ToClose(Tail(split)) = ToClose(split) - 1
    BY <1>4, ToCloseOf DEF FsEventsInv, FsTypes
  <2> QED BY <1>3, <2>1
<1> QED BY <1>3, <1>4

LEMMA UserStepsKeepFsEvents ==
  ASSUME FsEventsInv, NEW h \in FsHandles, uv__fsevents_init(h) \/ uv__fsevents_close(h)
  PROVE  FsEventsInv'
<1> USE DEF FsEventsInv
<1>0. /\ UserRuns /\ lt # "wait" /\ lt # "join" /\ need_reschedule'
      /\ UNCHANGED <<split, collected, cf_stream, fsevent_sem, sent>>
  BY DEF uv__fsevents_init, uv__fsevents_close, UserRuns, cfVars
<1>1. /\ ToClose(cf_signals) = 0 /\ ToClose(split) = 0 /\ fsevent_sem = 0
      /\ split # <<>> => Head(split) \notin Closes
  BY <1>0, NothingToAnswer
<1>2. CASE uv__fsevents_init(h)
  <2>1. cf_signals' \in Seq(FsSignals) /\ ToClose(cf_signals') = 0
    BY <1>1, <1>2, LoopSignals DEF uv__fsevents_init
  <2>2. FsTypes'
    BY <1>0, <1>2, <2>1 DEF FsTypes, uv__fsevents_init, fsLoopVars
  <2>3. OneAnswer'
    BY <1>0, <1>1, <1>2, <2>1 DEF OneAnswer, uv__fsevents_init, fsLoopVars
  <2>4. CfPlaces'
    BY <1>0, <1>1, <1>2 DEF CfPlaces, FsTypes, uv__fsevents_init, fsLoopVars
  <2>5. StreamForgets'
    BY <1>0, <1>2 DEF StreamForgets, uv__fsevents_init, fsLoopVars
  <2>6. QueuesForget'
    BY <1>0, <1>2 DEF QueuesForget, FsTypes, uv__fsevents_init, fsLoopVars
  <2> QED BY <2>2, <2>3, <2>4, <2>5, <2>6
<1>3. CASE uv__fsevents_close(h)
  <2>1. cf_signals' \in Seq(FsSignals) /\ ToClose(cf_signals') = 1
    BY <1>1, <1>3, LoopSignals DEF uv__fsevents_close
  <2>2. FsTypes'
    BY <1>0, <1>3, <2>1 DEF FsTypes, uv__fsevents_close, cfVars, UserRuns
  <2>3. OneAnswer'
    BY <1>0, <1>1, <1>3, <2>1 DEF OneAnswer, uv__fsevents_close
  <2>4. CfPlaces'
    BY <1>0, <1>1, <1>3 DEF CfPlaces, uv__fsevents_close, cfVars
  <2>5. StreamForgets'
    BY <1>0, <1>1, <1>3 DEF StreamForgets, uv__fsevents_close
  <2>6. QueuesForget'
    BY <1>3 DEF QueuesForget, uv__fsevents_close
  <2> QED BY <2>2, <2>3, <2>4, <2>5, <2>6
<1> QED BY <1>2, <1>3

\* A signal is done with: if the loop thread waits for it, it may go on.
LEMMA SignalDone ==
  ASSUME FsEventsInv, split # <<>>, Posts, NextSignal, UNCHANGED <<cf_signals, lt>>
  PROVE  /\ split' \in Seq(FsSignals) /\ fsevent_sem' \in Nat /\ OneAnswer'
         /\ fsevent_sem' > 0 => fsevent_sem > 0 \/ Head(split) \in Closes
<1>1. /\ Tail(split) \in Seq(FsSignals) /\ Head(split) \in FsSignals
      /\ ToClose(split) \in Nat /\ ToClose(Tail(split)) \in Nat /\ ToClose(cf_signals) \in Nat
      /\ ToClose(Tail(split)) = ToClose(split) - (IF Head(split) \in Closes THEN 1 ELSE 0)
  BY ToCloseOf DEF FsEventsInv, FsTypes
<1>2. Head(split) \in Closes <=> Head(split).type = "closing"
  BY <1>1 DEF Closes
<1>3. /\ fsevent_sem' = fsevent_sem + (IF Head(split) \in Closes THEN 1 ELSE 0)
      /\ split' = Tail(split) /\ fsevent_sem \in Nat
  BY <1>2 DEF Posts, NextSignal, FsEventsInv, FsTypes
<1>4. CASE Head(split) \in Closes
  BY <1>1, <1>3, <1>4 DEF OneAnswer, FsEventsInv
<1>5. CASE Head(split) \notin Closes
  BY <1>1, <1>3, <1>5 DEF OneAnswer, FsEventsInv
<1> QED BY <1>1, <1>3, <1>4, <1>5

LEMMA CfThreadKeepsFsEvents ==
  ASSUME FsEventsInv, CfThread
  PROVE  FsEventsInv'
<1> USE DEF FsEventsInv
<1>1. CASE CfLoopCb
  <2>1. split = <<>> /\ split' = cf_signals /\ cf_signals' = <<>> /\ <<>> \in Seq(FsSignals)
    BY <1>1 DEF CfLoopCb, CfPlaces
  <2>2. OneAnswer'
    <3>1. ToClose(cf_signals') = ToClose(split) /\ ToClose(split') = ToClose(cf_signals)
      BY <2>1
    <3>2. UNCHANGED <<fsevent_sem, lt>>
      BY <1>1 DEF CfLoopCb, fsLoopVars
    <3>3. ToClose(cf_signals) \in Nat /\ ToClose(split) \in Nat /\ fsevent_sem \in Nat
      BY ToCloseOf DEF FsTypes
    <3> QED BY <3>1, <3>2, <3>3 DEF OneAnswer
  <2> QED BY <1>1, <2>1, <2>2
      DEF CfLoopCb, fsHandleVars, fsLoopVars, FsTypes, CfPlaces, StreamForgets, QueuesForget
<1>2. CASE SkipSignal
  <2>1. /\ split' \in Seq(FsSignals) /\ fsevent_sem' \in Nat /\ OneAnswer'
        /\ fsevent_sem' > 0 => fsevent_sem > 0 \/ Head(split) \in Closes
    BY <1>2, SignalDone DEF SkipSignal, fsLoopVars
  <2>2. Head(split) \in Closes => ~need_reschedule
    BY <1>2, FsEventsAssumption DEF SkipSignal, Closes, FsSignals
  <2> QED BY <1>2, <2>1, <2>2
          DEF SkipSignal, NextSignal, fsHandleVars, fsLoopVars, FsTypes, CfPlaces, StreamForgets,
              QueuesForget
<1>3. CASE Reschedule
  BY <1>3 DEF Reschedule, fsHandleVars, fsLoopVars, FsTypes, CfPlaces, StreamForgets, QueuesForget,
      OneAnswer
<1>4. CASE Collect
  BY <1>4 DEF Collect, fsSharedVars, fsHandleVars, fsLoopVars, FsTypes, CfPlaces, StreamForgets,
      QueuesForget,
              OneAnswer
<1>5. CASE Create
  <2>1. /\ split' \in Seq(FsSignals) /\ fsevent_sem' \in Nat /\ OneAnswer'
        /\ fsevent_sem' > 0 => fsevent_sem > 0 \/ Head(split) \in Closes
    BY <1>5, SignalDone DEF Create, CfPlaces, fsLoopVars
  <2>2. Head(split) \in Closes => ~need_reschedule
    BY <1>5 DEF Create, CfPlaces
  <2> QED BY <1>5, <2>1, <2>2
          DEF Create, NextSignal, fsLoopVars, FsTypes, CfPlaces, StreamForgets, QueuesForget
<1>6. CASE CfLoopCbEnds
  BY <1>6 DEF CfLoopCbEnds, fsSharedVars, fsHandleVars, fsLoopVars, FsTypes, CfPlaces, StreamForgets,
              QueuesForget, OneAnswer
<1> QED BY <1>1, <1>2, <1>3, <1>4, <1>5, <1>6 DEF CfThread

LEMMA FsEventsStep ==
  ASSUME FsEventsInv, [FsEventsNext]_fsEventsVars
  PROVE  FsEventsInv'
<1> USE DEF FsEventsInv
<1>1. CASE UNCHANGED fsEventsVars
  BY <1>1 DEF fsEventsVars, fsSharedVars, fsHandleVars, cfVars, fsLoopVars, FsTypes, CfPlaces,
      StreamForgets,
              QueuesForget, OneAnswer
<1>2. CASE CfThread
  BY <1>2, CfThreadKeepsFsEvents
<1>3. CASE ProcessEvent \/ Processed \/ FsCallbackEnds
  <2>1. /\ UNCHANGED <<fsSharedVars, fsHandleVars, cfVars, back>> /\ lt \notin {"wait", "join"}
        /\ lt' \in {"idle", "callback", "process"}
    BY <1>3 DEF ProcessEvent, Processed, FsCallbackEnds, FsTypes
  <2> QED BY <2>1
      DEF fsSharedVars, fsHandleVars, cfVars, FsTypes, CfPlaces, StreamForgets, QueuesForget, OneAnswer
<1>4. CASE Joined
  <2>1. lt = "join" /\ watching = {} /\ split = <<>> /\ ToClose(split) = 0 /\ <<>> \in Seq(FsSignals)
    BY <1>4, ToCloseOf DEF Joined, CfPlaces
  <2>2. OneAnswer'
    <3>1. cf_signals' = <<>> /\ split' = <<>> /\ fsevent_sem' = 0 /\ lt' = "idle"
      BY <1>4, <2>1 DEF Joined
    <3>2. ToClose(cf_signals') = 0 /\ ToClose(split') = 0
      BY <3>1, ToCloseOf
    <3> QED BY <3>1, <3>2 DEF OneAnswer
  <2> QED BY <1>4, <2>1, <2>2 DEF Joined, fsHandleVars, FsTypes, CfPlaces, StreamForgets, QueuesForget
<1>5. ASSUME NEW h \in FsHandles, CloseGoesOn(h) PROVE FsEventsInv'
  <2>1. /\ lt = "wait" /\ fsevent_sem > 0 /\ fsevent_sem' = fsevent_sem - 1 /\ lt' = back
        /\ UNCHANGED <<cf_signals, split, watching, fsevent_handles, need_reschedule, cf_stream, collected, cf, back>>
        /\ sent' \cup cf_error' \subseteq watching
        /\ cf_events' = [g \in FsHandles |-> IF g \in watching THEN cf_events[g] ELSE 0]
    BY <1>5 DEF CloseGoesOn, cfVars
  <2>2. ToClose(cf_signals) \in Nat /\ ToClose(split) \in Nat /\ fsevent_sem \in Nat
    BY ToCloseOf DEF FsTypes
  <2>3. OneAnswer' /\ fsevent_sem' \in Nat
    BY <2>1, <2>2 DEF OneAnswer, FsTypes
  <2> QED BY <2>1, <2>3 DEF FsTypes, CfPlaces, StreamForgets, QueuesForget
<1>6. CASE uv__fsevents_loop_delete
  <2> DEFINE s == [handle |-> NoHandle, type |-> "regular"]
  <2>1. s \in FsSignals /\ s \notin Closes
    BY DEF FsSignals, Closes
  <2>2. cf_signals' \in Seq(FsSignals) /\ ToClose(cf_signals') = ToClose(cf_signals)
    <3>1. cf_signals' = Append(cf_signals, s)
      BY <1>6 DEF uv__fsevents_loop_delete, CfLoopSignal
    <3>2. ToClose(cf_signals) \in Nat
      BY ToCloseOf DEF FsTypes
    <3> QED BY <2>1, <3>1, <3>2, ToCloseOf DEF FsTypes
  <2>3. OneAnswer'
    BY <1>6, <2>2 DEF uv__fsevents_loop_delete, cfVars, OneAnswer
  <2> QED BY <1>6, <2>2, <2>3
      DEF uv__fsevents_loop_delete, fsHandleVars, cfVars, FsTypes, CfPlaces, StreamForgets,
          QueuesForget
<1>7. ASSUME NEW h \in FsHandles, uv__fsevents_init(h) \/ uv__fsevents_close(h) PROVE FsEventsInv'
  BY <1>7, UserStepsKeepFsEvents
<1>8. ASSUME NEW h \in FsHandles, uv__fsevents_cb(h) PROVE FsEventsInv'
  BY <1>8 DEF uv__fsevents_cb, fsSharedVars, cfVars, FsTypes, CfPlaces, StreamForgets, QueuesForget,
      OneAnswer
<1>9. ASSUME NEW h \in FsHandles, uv__fsevents_event_cb(h) PROVE FsEventsInv'
  BY <1>9 DEF uv__fsevents_event_cb, fsSharedVars, cfVars, fsLoopVars, FsTypes, CfPlaces, StreamForgets,
              QueuesForget, OneAnswer
<1> QED BY <1>1, <1>2, <1>3, <1>4, <1>5, <1>6, <1>7, <1>8, <1>9 DEF FsEventsNext, FsLoopThread

\* For any handles: when uv__fsevents_close has returned, nothing of the CF
\* thread leads to the handle any more.
THEOREM StoppedHandlesAreForgotten == FsEventsSpec => []StoppedIsForgotten
<1>1. FsEventsInit => FsEventsInv
  <2> SUFFICES ASSUME FsEventsInit PROVE FsEventsInv
    OBVIOUS
  <2>1. <<>> \in Seq(FsSignals) /\ cf_signals = <<>> /\ split = <<>> /\ fsevent_sem = 0 /\ lt = "idle"
    BY DEF FsEventsInit
  <2>2. ToClose(cf_signals) = 0 /\ ToClose(split) = 0
    BY <2>1, ToCloseOf
  <2>3. OneAnswer
    BY <2>1, <2>2 DEF OneAnswer
  <2>4. FsTypes
    <3>1. cf_signals \in Seq(FsSignals) /\ split \in Seq(FsSignals)
      BY <2>1
    <3> QED BY <3>1 DEF FsEventsInit, FsTypes
  <2>5. CfPlaces /\ StreamForgets /\ QueuesForget
    BY <2>1 DEF FsEventsInit, CfPlaces, StreamForgets, QueuesForget
  <2> QED BY <2>3, <2>4, <2>5 DEF FsEventsInv
<1>2. FsEventsInv /\ [FsEventsNext]_fsEventsVars => FsEventsInv'
  BY FsEventsStep
<1>3. FsEventsInv => StoppedIsForgotten
  <2> SUFFICES ASSUME FsEventsInv PROVE StoppedIsForgotten
    OBVIOUS
  <2>1. ToClose(cf_signals) \in Nat /\ ToClose(split) \in Nat /\ fsevent_sem \in Nat
    BY ToCloseOf DEF FsEventsInv, FsTypes
  <2>2. fsevent_sem <= 1
    BY <2>1 DEF FsEventsInv, OneAnswer
  <2> QED BY <2>2 DEF FsEventsInv, FsTypes, CfPlaces, StreamForgets, QueuesForget, StoppedIsForgotten
<1> QED BY <1>1, <1>2, <1>3, PTL DEF FsEventsSpec

-----------------------------------------------------------------------------
(* UDP: what is to be sent, what is watched for, and the shared buffer.     *)

SendSteps == {"send", "completed", "send_cb"}
RecvSteps == {"recv", "chunks", "recv_cb", "chunk_cb", "free_cb", "last_cb"}

UdpTypes ==
  /\ udp_life \in {"open", "closing", "finishing", "closed"}
  /\ udp_at \in {"idle"} \cup SendSteps \cup RecvSteps
  /\ udp_pevents \subseteq {"in", "out"} /\ udp_active \in BOOLEAN /\ udp_fed \in BOOLEAN
  /\ recv_cb \in BOOLEAN /\ recv_buf \in BOOLEAN
  /\ udp_queue \in Seq(Sends) /\ udp_completed \in Seq(Sends)
  /\ sent_order \in Seq(Sends) /\ called_back \in Seq(Sends)
  /\ send_status \in [Sends -> {"none", "sent", "failed", "cancelled"}]

SendsQueued ==
  /\ (called_back \o udp_completed) \o udp_queue = sent_order
  /\ send_queue_count = Len(udp_completed) + Len(udp_queue) /\ udp_reqs = send_queue_count
  /\ \A r \in Sends : Linked(udp_completed, r) => send_status[r] # "none"

UdpPlaces ==
  /\ udp_processing <=> udp_at \in {"completed", "send_cb"}
  /\ udp_at = "send" => udp_life = "open"
  /\ udp_at = "recv" => udp_life = "open" /\ recv_cb
  /\ udp_life # "open" => udp_pevents = {} /\ ~udp_fed /\ ~udp_socket
  /\ udp_life = "finishing" => udp_at \in {"completed", "send_cb"} /\ udp_queue = <<>>
  /\ udp_life = "closed" => udp_at = "idle" /\ udp_queue = <<>> /\ udp_completed = <<>>

Watched ==
  udp_life = "open" =>
    /\ udp_queue # <<>> => "out" \in udp_pevents
    /\ udp_completed # <<>> \/ (udp_active /\ udp_pevents = {}) =>
         udp_fed \/ "out" \in udp_pevents \/ udp_at \in SendSteps
    /\ udp_pevents # {} => udp_active
    /\ recv_cb <=> "in" \in udp_pevents

\* As long as the user does not stop in the midst of a buffer.
BufferHeld ==
  KeepsReading => /\ recv_buf => udp_at \in {"chunks", "chunk_cb"}
                  /\ udp_at \in {"chunks", "chunk_cb"} => recv_cb

UdpInv == UdpTypes /\ SendsQueued /\ UdpPlaces /\ Watched /\ BufferHeld

-----------------------------------------------------------------------------
\* What uv__udp_sendmsg does to the two lists.
LEMMA SendsMoveKeeps ==
  ASSUME UdpInv, NEW q \in Seq(Sends), NEW o \in SendOutcomes(Len(q)), SendsMove(q, udp_completed, o)
  PROVE  /\ udp_queue' \in Seq(Sends) /\ udp_completed' \in Seq(Sends)
         /\ send_status' \in [Sends -> {"none", "sent", "failed", "cancelled"}]
         /\ udp_fed' \in BOOLEAN /\ (udp_fed => udp_fed')
         /\ (called_back \o udp_completed') \o udp_queue' = (called_back \o udp_completed) \o q
         /\ Len(udp_completed') + Len(udp_queue') = Len(udp_completed) + Len(q)
         /\ \A r \in Sends : Linked(udp_completed', r) => send_status'[r] # "none"
         /\ q # <<>> => udp_fed' \/ udp_queue' # <<>>
         /\ q = <<>> => udp_queue' = <<>>
<1> USE DEF UdpInv
<1> DEFINE k == o.sent + o.failed
<1>1. /\ o.sent \in 0..Len(q) /\ o.failed \in 0..Len(q) /\ Len(q) \in Nat
      /\ o.failed = 0 \/ o.failed <= Len(q) - o.sent
  BY LenProperties, UdpAssumption DEF SendOutcomes
<1>2. k \in 0..Len(q)
  BY <1>1
<1>3. /\ udp_queue' = SubSeq(q, k + 1, Len(q)) /\ udp_completed' = udp_completed \o SubSeq(q, 1, k)
      /\ send_status' = [r \in Sends |->
           IF r \in {q[i] : i \in 1..o.sent} THEN "sent"
           ELSE IF r \in {q[i] : i \in (o.sent + 1)..k} THEN "failed" ELSE send_status[r]]
      /\ udp_fed' = (udp_fed \/ o.failed > 0 \/ (q # <<>> /\ k = Len(q)))
  BY DEF SendsMove
<1>4. \A r \in {q[i] : i \in 1..k} : r \in {q[i] : i \in 1..o.sent} \/ r \in {q[i] : i \in (o.sent + 1)..k}
  BY <1>1
<1> HIDE DEF k
<1>5. udp_completed \in Seq(Sends) /\ called_back \in Seq(Sends) /\ Len(udp_completed) \in Nat
      /\ udp_fed \in BOOLEAN /\ send_status \in [Sends -> {"none", "sent", "failed", "cancelled"}]
  BY LenProperties DEF UdpTypes
<1>6. /\ udp_completed' \in Seq(Sends) /\ udp_queue' \in Seq(Sends)
      /\ udp_completed' \o udp_queue' = udp_completed \o q
      /\ Len(udp_completed') = Len(udp_completed) + k /\ Len(udp_queue') = Len(q) - k
      /\ \A n : Linked(udp_completed', n) => Linked(udp_completed, n) \/ \E i \in 1..k : q[i] = n
  <2> DEFINE c == udp_completed \o SubSeq(q, 1, k)
             d == SubSeq(q, k + 1, Len(q))
  <2>1. /\ udp_completed \in Seq(Sends) /\ q \in Seq(Sends) /\ k \in 0..Len(q)
        /\ c = udp_completed \o SubSeq(q, 1, k) /\ d = SubSeq(q, k + 1, Len(q))
        /\ udp_completed' = c /\ udp_queue' = d
    BY <1>2, <1>3, <1>5
  <2> HIDE DEF c, d, UdpInv
  <2>2. /\ c \in Seq(Sends) /\ d \in Seq(Sends)
        /\ c \o d = udp_completed \o q
        /\ Len(c) = Len(udp_completed) + k /\ Len(d) = Len(q) - k
        /\ \A n : Linked(c, n) => Linked(udp_completed, n) \/ \E i \in 1..k : q[i] = n
    <3>1. c \o d = udp_completed \o q
      BY ONLY <2>1, FirstMoveKeepsOrder
    <3>2. /\ c \in Seq(Sends) /\ d \in Seq(Sends)
          /\ Len(c) = Len(udp_completed) + k /\ Len(d) = Len(q) - k
      BY ONLY <2>1, FirstMoveLengths
    <3>3. \A n : Linked(c, n) => Linked(udp_completed, n) \/ \E i \in 1..k : q[i] = n
      BY ONLY <2>1, FirstMoveMembers
    <3> QED BY <3>1, <3>2, <3>3
  <2>3. ASSUME NEW n, Linked(udp_completed', n) PROVE Linked(c, n)
    BY <2>1, <2>3 DEF Linked
  <2> QED BY <2>1, <2>2, <2>3
<1>7. (called_back \o udp_completed') \o udp_queue' = (called_back \o udp_completed) \o q
  <2>1. (called_back \o udp_completed') \o udp_queue' = called_back \o (udp_completed' \o udp_queue')
    <3> SUFFICES ASSUME NEW c \in Seq(Sends), NEW d \in Seq(Sends)
                 PROVE  (called_back \o c) \o d = called_back \o (c \o d)
      BY <1>6
    <3>1. called_back \in Seq(Sends)
      BY <1>5
    <3> HIDE DEF UdpInv
    <3> QED BY <3>1, ConcatAssociative
  <2>2. (called_back \o udp_completed) \o q = called_back \o (udp_completed \o q)
    BY <1>5, ConcatAssociative
  <2> QED BY <1>6, <2>1, <2>2
<1>8. ASSUME NEW r \in Sends, Linked(udp_completed', r) PROVE send_status'[r] # "none"
  <2>1. CASE r \in {q[i] : i \in 1..k}
    BY <1>3, <1>4, <2>1
  <2>2. CASE Linked(udp_completed, r)
    BY <1>3, <2>2 DEF SendsQueued
  <2> QED BY <1>6, <1>8, <2>1, <2>2
<1>9. Len(udp_completed') + Len(udp_queue') = Len(udp_completed) + Len(q)
  BY <1>1, <1>2, <1>5, <1>6
<1>10. send_status' \in [Sends -> {"none", "sent", "failed", "cancelled"}]
  BY <1>3, <1>5
<1>11. q # <<>> => udp_fed' \/ udp_queue' # <<>>
  <2>1. udp_queue' = <<>> => Len(udp_queue') = 0
    BY EmptySeq
  <2>2. Len(udp_queue') = 0 => k = Len(q)
    BY <1>1, <1>2, <1>6
  <2> QED BY <1>3, <2>1, <2>2
<1>12. q = <<>> => udp_queue' = <<>>
  <2>1. ASSUME q = <<>> PROVE Len(udp_queue') = 0
    BY <1>1, <1>2, <1>6, <2>1, EmptySeq
  <2> QED BY <1>6, <2>1, EmptySeq
<1> QED BY <1>3, <1>5, <1>6, <1>7, <1>8, <1>9, <1>10, <1>11, <1>12

LEMMA SendsQueuedKeeps ==
  ASSUME UdpInv,
  UNCHANGED <<udp_queue, udp_completed, send_status, send_queue_count, udp_reqs, sent_order, called_back>>
  PROVE  SendsQueued'
BY DEF UdpInv, SendsQueued

\* A request is handed over: it is sent at once, or queued behind the others.
LEMMA SendKeepsUdp ==
  ASSUME UdpInv, NEW r \in Sends, uv_udp_send(r)
  PROVE  UdpInv'
<1> USE DEF UdpInv
<1> DEFINE q == Append(udp_queue, r)
<1>1. /\ q \in Seq(Sends) /\ q # <<>> /\ Len(q) = Len(udp_queue) + 1
      /\ Append(sent_order, r) \in Seq(Sends)
      /\ Len(udp_queue) \in Nat /\ Len(udp_completed) \in Nat
  BY AppendProperties, LenProperties DEF UdpTypes
<1>2. /\ UdpUserCode /\ udp_life = "open" /\ udp_active' /\ sent_order' = Append(sent_order, r)
      /\ send_queue_count' = send_queue_count + 1 /\ udp_reqs' = udp_reqs + 1
      /\ UNCHANGED <<udp_life, recv_cb, udp_processing, udp_at, recv_buf, called_back>>
  BY DEF uv_udp_send, recvVars
<1>3. (called_back \o udp_completed) \o q = Append((called_back \o udp_completed) \o udp_queue, r)
  <2>1. called_back \o udp_completed \in Seq(Sends)
    BY ConcatProperties DEF UdpTypes
  <2> QED BY <2>1, AppendOfConcat DEF UdpTypes
<1> HIDE DEF q
<1>4. CASE SendsAtOnce
  <2>1. PICK o \in SendOutcomes(Len(udp_queue) + 1) :
          /\ SendsMove(q, udp_completed, o)
          /\ udp_pevents' = IF udp_queue' = <<>> THEN udp_pevents ELSE udp_pevents \cup {"out"}
    BY <1>4 DEF uv_udp_send, q
  <2>2. o \in SendOutcomes(Len(q))
    BY <1>1
  <2>3. /\ udp_queue' \in Seq(Sends) /\ udp_completed' \in Seq(Sends)
        /\ send_status' \in [Sends -> {"none", "sent", "failed", "cancelled"}]
        /\ udp_fed' \in BOOLEAN /\ (udp_fed => udp_fed')
        /\ (called_back \o udp_completed') \o udp_queue' = (called_back \o udp_completed) \o q
        /\ Len(udp_completed') + Len(udp_queue') = Len(udp_completed) + Len(q)
        /\ \A s \in Sends : Linked(udp_completed', s) => send_status'[s] # "none"
        /\ udp_fed' \/ udp_queue' # <<>>
    BY <1>1, <2>1, <2>2, SendsMoveKeeps
  <2>4. UdpTypes'
    BY <1>1, <1>2, <2>1, <2>3 DEF UdpTypes
  <2>5. SendsQueued'
    <3>1. (called_back' \o udp_completed') \o udp_queue' = sent_order'
      BY <1>2, <1>3, <2>3 DEF SendsQueued
    <3>2. send_queue_count' = Len(udp_completed') + Len(udp_queue') /\ udp_reqs' = send_queue_count'
      BY <1>1, <1>2, <2>3 DEF SendsQueued
    <3> QED BY <2>3, <3>1, <3>2 DEF SendsQueued
  <2>6. UdpPlaces'
    BY <1>2 DEF UdpPlaces
  <2>7. Watched'
    BY <1>2, <2>1, <2>3 DEF Watched
  <2>8. BufferHeld'
    BY <1>2 DEF BufferHeld
  <2> QED BY <2>4, <2>5, <2>6, <2>7, <2>8
<1>5. CASE ~SendsAtOnce
  <2>1. /\ udp_queue' = q /\ udp_pevents' = udp_pevents \cup {"out"}
        /\ UNCHANGED <<udp_completed, send_status, udp_fed>>
    BY <1>5 DEF uv_udp_send, q
  <2>4. UdpTypes'
    BY <1>1, <1>2, <2>1 DEF UdpTypes
  <2>5. SendsQueued'
    <3>1. (called_back' \o udp_completed') \o udp_queue' = sent_order'
      BY <1>2, <1>3, <2>1 DEF SendsQueued
    <3>2. send_queue_count' = Len(udp_completed') + Len(udp_queue') /\ udp_reqs' = send_queue_count'
      BY <1>1, <1>2, <2>1 DEF SendsQueued
    <3> QED BY <2>1, <3>1, <3>2 DEF SendsQueued
  <2>6. UdpPlaces'
    BY <1>2 DEF UdpPlaces
  <2>7. Watched'
    BY <1>2, <2>1 DEF Watched
  <2>8. BufferHeld'
    BY <1>2 DEF BufferHeld
  <2> QED BY <2>4, <2>5, <2>6, <2>7, <2>8
<1> QED BY <1>4, <1>5

\* The other calls and what arrives: the queues stay.
LEMMA CallsKeepUdp ==
  ASSUME UdpInv, UdpOpen \/ uv_udp_recv_start \/ uv_udp_recv_stop \/ uv__udp_close \/ Arrive
  PROVE  UdpInv'
<1> USE DEF UdpInv
<1>1. UNCHANGED <<udp_queue, udp_completed, send_status, send_queue_count, udp_reqs, sent_order, called_back,
                  udp_at, udp_processing, recv_buf>>
  BY DEF UdpOpen, uv_udp_recv_start, uv_udp_recv_stop, uv__udp_close, Arrive, sendVars, recvVars,
      historyVars
<1>2. SendsQueued'
  BY <1>1, SendsQueuedKeeps
<1>3. CASE UdpOpen \/ Arrive
  <2>1. UNCHANGED <<udp_life, recv_cb, udp_pevents, udp_active, udp_fed>>
        /\ (udp_life # "open" => udp_socket' = udp_socket)
    BY <1>3 DEF UdpOpen, Arrive, sendVars
  <2> QED BY <1>1, <1>2, <2>1 DEF UdpTypes, UdpPlaces, Watched, BufferHeld
<1>4. CASE uv_udp_recv_start
  <2>1. UNCHANGED udp_fed
    BY <1>4 DEF uv_udp_recv_start, sendVars
  <2> QED BY <1>1, <1>2, <1>4, <2>1 DEF uv_udp_recv_start, UdpTypes, UdpPlaces, Watched, BufferHeld
<1>5. CASE uv_udp_recv_stop
  <2>1. UNCHANGED udp_fed /\ udp_life' = "open" /\ udp_at \notin {"recv", "chunks"}
        /\ (KeepsReading => udp_at # "chunk_cb")
    BY <1>5 DEF uv_udp_recv_stop, sendVars, UdpUserCode, MayPause
  <2>2. /\ udp_pevents' = udp_pevents \ {"in"} /\ udp_active' = (udp_active /\ "out" \in udp_pevents)
        /\ recv_cb' = FALSE /\ udp_life = "open"
    BY <1>5 DEF uv_udp_recv_stop
  <2>3. UdpTypes'
    BY <1>1, <2>1, <2>2 DEF UdpTypes
  <2>4. UdpPlaces' /\ BufferHeld'
    BY <1>1, <2>1, <2>2 DEF UdpPlaces, BufferHeld
  <2>5. Watched'
    BY <1>1, <2>1, <2>2 DEF Watched, UdpTypes
  <2> QED BY <1>2, <2>3, <2>4, <2>5
<1>6. CASE uv__udp_close
  <2>1. udp_at \notin {"recv", "chunks", "send"} /\ (KeepsReading => udp_at # "chunk_cb")
    BY <1>6 DEF uv__udp_close, UdpUserCode, MayPause
  <2>2. /\ udp_life' = "closing" /\ udp_pevents' = {} /\ ~udp_fed' /\ ~udp_socket' /\ udp_active' = FALSE
        /\ udp_life = "open" /\ UNCHANGED recv_cb /\ udp_fed' = FALSE
    BY <1>6 DEF uv__udp_close
  <2>3. UdpTypes'
    BY <1>1, <2>1, <2>2 DEF UdpTypes
  <2>4. UdpPlaces' /\ BufferHeld'
    BY <1>1, <2>1, <2>2 DEF UdpPlaces, BufferHeld
  <2> QED BY <1>2, <2>2, <2>3, <2>4 DEF Watched
<1> QED BY <1>3, <1>4, <1>5, <1>6

\* An event, and receiving.
LEMMA ReceivingKeepsUdp ==
  ASSUME UdpInv,
         \/ UdpRunPending \/ RecvTurn \/ ChunkTurn \/ RecvReturns
         \/ \E ev \in SUBSET {"in", "out"} : UdpPollEvent(ev)
  PROVE  UdpInv'
<1> USE DEF UdpInv
<1>1. UNCHANGED <<udp_queue, udp_completed, send_status, send_queue_count, udp_reqs, sent_order, called_back,
                  udp_life, recv_cb, udp_pevents, udp_active, udp_processing, udp_socket>>
  BY DEF UdpRunPending, UdpPollEvent, UdpIo, RecvTurn, ChunkTurn, RecvReturns, RecvCallbackReturns,
      sendVars, historyVars
<1>2. SendsQueued'
  BY <1>1, SendsQueuedKeeps
<1>3. CASE UdpRunPending
  <2>1. /\ udp_fed /\ udp_fed' = FALSE /\ udp_at = "idle" /\ udp_at' = "send" /\ udp_life = "open"
        /\ recv_buf' = recv_buf
    BY <1>3 DEF UdpRunPending, UdpIo, UdpPlaces
  <2> QED BY <1>1, <1>2, <2>1 DEF SendSteps, UdpTypes, UdpPlaces, Watched, BufferHeld
<1>4. ASSUME NEW ev \in SUBSET {"in", "out"}, UdpPollEvent(ev) PROVE UdpInv'
  <2>1. udp_at = "idle" /\ udp_life = "open" /\ udp_fed' = udp_fed /\ recv_buf' = recv_buf
    BY <1>4 DEF UdpPollEvent, UdpIo, UdpPlaces
  <2>2. CASE "in" \in ev
    <3>1. udp_at' = "recv" /\ recv_cb
      BY <1>4, <2>1, <2>2 DEF UdpPollEvent, UdpIo, Watched
    <3> QED BY <1>1, <1>2, <2>1, <3>1 DEF SendSteps, RecvSteps, UdpTypes, UdpPlaces, Watched, BufferHeld
  <2>3. CASE "in" \notin ev
    <3>1. udp_at' = "send"
      BY <1>4, <2>3 DEF UdpPollEvent, UdpIo
    <3> QED BY <1>1, <1>2, <2>1, <3>1 DEF SendSteps, RecvSteps, UdpTypes, UdpPlaces, Watched, BufferHeld
  <2> QED BY <2>2, <2>3
<1>5. ASSUME AfterRecv # "idle" PROVE udp_life = "open" /\ AfterRecv = "send"
  BY <1>5 DEF AfterRecv
<1>6. CASE RecvTurn
  <2>1. /\ udp_at = "recv" /\ udp_at' \in {"last_cb", "recv_cb", "chunks"} /\ udp_fed' = udp_fed
        /\ recv_buf' \in BOOLEAN
        /\ recv_buf' = recv_buf \/ udp_at' = "chunks"
    BY <1>6 DEF RecvTurn, sendVars, recvVars, UdpTypes
  <2> QED BY <1>1, <1>2, <2>1 DEF SendSteps, RecvSteps, UdpTypes, UdpPlaces, Watched, BufferHeld
<1>7. CASE ChunkTurn
  <2>1. /\ udp_at = "chunks" /\ udp_fed' = udp_fed /\ recv_buf' \in BOOLEAN
        /\ \/ udp_at' = "chunk_cb" /\ recv_cb /\ recv_buf' = recv_buf
           \/ udp_at' = "free_cb" /\ recv_cb /\ ~recv_buf'
           \/ udp_at' = AfterRecv /\ ~recv_cb
    BY <1>7 DEF ChunkTurn, sendVars, UdpTypes
  <2> QED BY <1>1, <1>2, <1>5, <2>1 DEF SendSteps, RecvSteps, UdpTypes, UdpPlaces, Watched, BufferHeld
<1>8. CASE RecvReturns
  <2>1. /\ udp_at \in {"recv_cb", "chunk_cb", "free_cb", "last_cb"} /\ UNCHANGED <<udp_fed, recv_buf>>
        /\ \/ udp_at = "chunk_cb" /\ udp_at' = "chunks"
           \/ udp_at # "chunk_cb" /\ ReadsOn /\ udp_at' = "recv"
           \/ udp_at # "chunk_cb" /\ udp_at' = AfterRecv
    BY <1>8 DEF RecvReturns, RecvCallbackReturns, sendVars, recvVars
  <2>2. udp_at' = "recv" => udp_life = "open" /\ recv_cb
    BY <2>1, <1>5 DEF ReadsOn, UdpPlaces
  <2> QED BY <1>1, <1>2, <1>5, <2>1, <2>2
      DEF SendSteps, RecvSteps, UdpTypes, UdpPlaces, Watched, BufferHeld
<1> QED BY <1>3, <1>4, <1>6, <1>7, <1>8

\* Sending, and the end of the handle.
LEMMA SendingKeepsUdp ==
  ASSUME UdpInv,
  uv__udp_sendmsg \/ RunOneCompleted \/ SendCbReturns \/ CompletedDone \/ uv__udp_finish_close
  PROVE  UdpInv'
<1> USE DEF UdpInv
<1>0. /\ udp_queue \in Seq(Sends) /\ udp_completed \in Seq(Sends) /\ called_back \in Seq(Sends)
      /\ Len(udp_queue) \in Nat /\ Len(udp_completed) \in Nat
  BY LenProperties DEF UdpTypes
<1>1. CASE uv__udp_sendmsg
  <2>1. PICK o \in SendOutcomes(Len(udp_queue)) : SendsMove(udp_queue, udp_completed, o)
    BY <1>1 DEF uv__udp_sendmsg
  <2>2. /\ udp_at = "send" /\ udp_at' = "completed" /\ udp_processing' = TRUE /\ udp_life = "open"
        /\ UNCHANGED <<udp_life, udp_socket, udp_active, recv_cb, udp_pevents, send_queue_count, udp_reqs,
                       recv_buf, sent_order, called_back>>
    BY <1>1 DEF uv__udp_sendmsg, recvVars, historyVars, UdpPlaces
  <2>3. /\ udp_queue' \in Seq(Sends) /\ udp_completed' \in Seq(Sends)
        /\ send_status' \in [Sends -> {"none", "sent", "failed", "cancelled"}]
        /\ udp_fed' \in BOOLEAN
        /\ (called_back \o udp_completed') \o udp_queue' = (called_back \o udp_completed) \o udp_queue
        /\ Len(udp_completed') + Len(udp_queue') = Len(udp_completed) + Len(udp_queue)
        /\ \A r \in Sends : Linked(udp_completed', r) => send_status'[r] # "none"
        /\ udp_queue = <<>> => udp_queue' = <<>>
    BY <1>0, <2>1, SendsMoveKeeps
  <2>4. UdpTypes'
    BY <2>2, <2>3 DEF UdpTypes, SendSteps
  <2>5. SendsQueued'
    BY <2>2, <2>3 DEF SendsQueued
  <2>6. UdpPlaces' /\ BufferHeld'
    BY <2>2 DEF UdpPlaces, BufferHeld
  <2>7. Watched'
    BY <2>2, <2>3 DEF Watched, SendSteps
  <2> QED BY <2>4, <2>5, <2>6, <2>7
<1>2. CASE RunOneCompleted
  <2>1. /\ udp_at = "completed" /\ udp_at' = "send_cb" /\ udp_completed # <<>>
        /\ udp_completed' = Tail(udp_completed)
        /\ called_back' = Append(called_back, Head(udp_completed))
        /\ send_queue_count' = send_queue_count - 1 /\ udp_reqs' = udp_reqs - 1
        /\ UNCHANGED <<udp_life, udp_socket, udp_active, recv_cb, udp_pevents, udp_queue, send_status, udp_fed,
                       udp_processing, recv_buf, sent_order>>
    BY <1>2 DEF RunOneCompleted, recvVars
  <2>2. /\ udp_completed' \in Seq(Sends) /\ Len(udp_completed') = Len(udp_completed) - 1
        /\ called_back' \in Seq(Sends)
        /\ called_back' \o udp_completed' = called_back \o udp_completed
    <3>1. udp_completed \in Seq(Sends) /\ called_back \in Seq(Sends) /\ udp_completed # <<>>
      BY <1>0, <2>1
    <3>2. /\ Append(called_back, Head(udp_completed)) \o Tail(udp_completed) = called_back \o udp_completed
          /\ Append(called_back, Head(udp_completed)) \in Seq(Sends)
          /\ Tail(udp_completed) \in Seq(Sends)
          /\ Len(Tail(udp_completed)) = Len(udp_completed) - 1
      BY ONLY <3>1, HeadMovesOver
    <3> QED BY <2>1, <3>2
  <2>3. \A r \in Sends : Linked(udp_completed', r) => Linked(udp_completed, r)
    <3>1. Len(udp_completed') = Len(udp_completed) - 1
          /\ \A i \in 1..Len(udp_completed') : udp_completed'[i] = udp_completed[i + 1]
      BY <1>0, <2>1, HeadTailProperties
    <3>2. \A i \in 1..Len(udp_completed') : i + 1 \in 1..Len(udp_completed)
      BY <1>0, <3>1
    <3> QED BY <3>1, <3>2 DEF Linked
  <2>4. UdpTypes'
    BY <2>1, <2>2 DEF UdpTypes, SendSteps
  <2>5. SendsQueued'
    <3>1. (called_back' \o udp_completed') \o udp_queue' = sent_order'
      BY <2>1, <2>2 DEF SendsQueued
    <3>2. send_queue_count' = Len(udp_completed') + Len(udp_queue') /\ udp_reqs' = send_queue_count'
      BY <1>0, <2>1, <2>2 DEF SendsQueued
    <3>3. \A r \in Sends : Linked(udp_completed', r) => send_status'[r] # "none"
      BY <2>1, <2>3 DEF SendsQueued
    <3> QED BY <3>1, <3>2, <3>3 DEF SendsQueued
  <2>6. UdpPlaces' /\ BufferHeld'
    BY <2>1 DEF UdpPlaces, BufferHeld
  <2>7. Watched'
    BY <2>1 DEF Watched, SendSteps
  <2> QED BY <2>4, <2>5, <2>6, <2>7
<1>3. CASE SendCbReturns
  <2>1. /\ udp_at = "send_cb" /\ udp_at' = "completed"
        /\ UNCHANGED <<udp_life, udp_socket, udp_active, recv_cb, udp_pevents, udp_queue, udp_completed, send_status,
                       send_queue_count, udp_reqs, udp_fed, udp_processing, recv_buf, sent_order,
                       called_back>>
    BY <1>3 DEF SendCbReturns, sendVars, recvVars, historyVars
  <2>2. SendsQueued'
    BY <2>1, SendsQueuedKeeps
  <2> QED BY <2>1, <2>2 DEF UdpTypes, SendSteps, UdpPlaces, BufferHeld, Watched
<1>4. CASE CompletedDone
  <2>1. /\ udp_at = "completed" /\ udp_completed = <<>> /\ udp_at' = "idle" /\ udp_processing' = FALSE
        /\ udp_life' = IF udp_life = "finishing" THEN "closed" ELSE udp_life
        /\ recv_cb' = (recv_cb /\ udp_life # "finishing")
        /\ UNCHANGED <<udp_socket, udp_queue, udp_completed, send_status, send_queue_count, udp_reqs, udp_fed, recv_buf,
                       sent_order, called_back>>
    BY <1>4 DEF CompletedDone, sendVars, recvVars, historyVars
  <2>2. /\ udp_queue = <<>> => /\ udp_pevents' = udp_pevents \ {"out"}
                               /\ udp_active' = (udp_active /\ "in" \in udp_pevents)
        /\ udp_queue # <<>> => UNCHANGED <<udp_pevents, udp_active>>
    BY <1>4 DEF CompletedDone, StopsPolling
  <2>3. SendsQueued'
    BY <2>1, SendsQueuedKeeps
  <2>4. UdpTypes'
    BY <2>1, <2>2 DEF UdpTypes
  <2>5. UdpPlaces' /\ BufferHeld'
    BY <2>1, <2>2 DEF UdpPlaces, BufferHeld
  <2>6. Watched'
    <3> SUFFICES ASSUME udp_life' = "open" PROVE Watched'
      BY DEF Watched
    <3>0. udp_life = "open" /\ recv_cb' = recv_cb /\ recv_cb \in BOOLEAN
      BY <2>1 DEF UdpTypes
    <3>1. CASE udp_queue = <<>>
      <4>1. udp_pevents' = udp_pevents \ {"out"} /\ udp_active' = (udp_active /\ "in" \in udp_pevents)
        BY <2>2, <3>1
      <4>2. udp_pevents' # {} => "in" \in udp_pevents
        BY <4>1 DEF UdpTypes
      <4> QED BY <2>1, <3>0, <3>1, <4>1, <4>2 DEF Watched
    <3>2. CASE udp_queue # <<>>
      BY <2>1, <2>2, <3>0, <3>2 DEF Watched
    <3> QED BY <3>1, <3>2
  <2> QED BY <2>3, <2>4, <2>5, <2>6
<1>5. CASE uv__udp_finish_close
  <2>1. /\ udp_at = "idle" /\ udp_life = "closing" /\ udp_life' = "finishing" /\ udp_queue' = <<>>
        /\ udp_completed' = udp_completed \o udp_queue
        /\ send_status' = [r \in Sends |-> IF Contains(udp_queue, r) THEN "cancelled" ELSE send_status[r]]
        /\ udp_at' = "completed" /\ udp_processing' = TRUE
        /\ UNCHANGED <<udp_socket, udp_active, recv_cb, udp_pevents, udp_fed, send_queue_count, udp_reqs, recv_buf,
                       sent_order, called_back>>
    BY <1>5 DEF uv__udp_finish_close, recvVars, historyVars
  <2>2. /\ udp_completed' \in Seq(Sends) /\ Len(udp_completed') = Len(udp_completed) + Len(udp_queue)
        /\ \A i \in 1..Len(udp_completed) + Len(udp_queue) :
             udp_completed'[i] = IF i <= Len(udp_completed) THEN udp_completed[i]
                                                           ELSE udp_queue[i - Len(udp_completed)]
    BY <1>0, <2>1, ConcatProperties
  <2>3. (called_back' \o udp_completed') \o udp_queue' = sent_order'
    <3>1. called_back \o (udp_completed \o udp_queue) = (called_back \o udp_completed) \o udp_queue
      BY SMTT(30), <1>0, ConcatAssociative
    <3>2. called_back \o udp_completed' \in Seq(Sends)
      BY <1>0, <2>2, ConcatProperties
    <3>3. (called_back \o udp_completed') \o <<>> = called_back \o udp_completed'
      BY <3>2, ConcatEmptySeq
    <3> QED BY <2>1, <3>1, <3>3 DEF SendsQueued
  <2>4. ASSUME NEW r \in Sends, Linked(udp_completed', r) PROVE send_status'[r] # "none"
    <3>1. PICK i \in 1..Len(udp_completed) + Len(udp_queue) : udp_completed'[i] = r
      BY <2>2, <2>4 DEF Linked
    <3>2. CASE i <= Len(udp_completed)
      <4>1. Linked(udp_completed, r)
        <5>1. i \in 1..Len(udp_completed) /\ udp_completed[i] = r
          BY <1>0, <2>2, <3>1, <3>2
        <5> QED BY <5>1 DEF Linked
      <4> QED BY <2>1, <4>1 DEF SendsQueued
    <3>3. CASE ~(i <= Len(udp_completed))
      <4>1. i - Len(udp_completed) \in 1..Len(udp_queue)
        BY <1>0, <3>3
      <4>2. Contains(udp_queue, r)
        BY <2>2, <3>1, <3>3, <4>1 DEF Contains
      <4> QED BY <2>1, <4>2
    <3> QED BY <3>2, <3>3
  <2>5. SendsQueued'
    <3>1. Len(udp_queue') = 0
      BY <2>1
    <3>2. send_queue_count' = Len(udp_completed') + Len(udp_queue') /\ udp_reqs' = send_queue_count'
      BY <1>0, <2>1, <2>2, <3>1 DEF SendsQueued
    <3> QED BY <2>3, <2>4, <3>2 DEF SendsQueued
  <2>6. UdpTypes'
    <3>1. send_status' \in [Sends -> {"none", "sent", "failed", "cancelled"}]
      BY <2>1 DEF UdpTypes
    <3>2. udp_queue' \in Seq(Sends)
      BY <2>1
    <3> QED BY <2>1, <2>2, <3>1, <3>2 DEF UdpTypes, SendSteps
  <2>7. UdpPlaces' /\ BufferHeld' /\ Watched'
    BY <2>1 DEF UdpPlaces, BufferHeld, Watched
  <2> QED BY <2>5, <2>6, <2>7
<1> QED BY <1>1, <1>2, <1>3, <1>4, <1>5

LEMMA UdpInvIsKept == UdpSpec => []UdpInv
<1>1. UdpInit => UdpInv
  <2> SUFFICES ASSUME UdpInit PROVE UdpInv
    OBVIOUS
  <2>1. /\ udp_queue = <<>> /\ udp_completed = <<>> /\ sent_order = <<>> /\ called_back = <<>>
        /\ <<>> \in Seq(Sends) /\ Len(<<>>) = 0
    BY DEF UdpInit
  <2>2. udp_queue \in Seq(Sends) /\ udp_completed \in Seq(Sends) /\ sent_order \in Seq(Sends)
        /\ called_back \in Seq(Sends)
    BY <2>1
  <2>3. UdpTypes
    BY <2>2 DEF UdpInit, UdpTypes
  <2>4. SendsQueued
    <3>1. (called_back \o udp_completed) \o udp_queue = sent_order
      BY <2>1, <2>2, ConcatEmptySeq
    <3>2. \A r : ~Linked(udp_completed, r)
      BY <2>1 DEF Linked
    <3> QED BY <2>1, <3>1, <3>2 DEF UdpInit, SendsQueued
  <2>5. UdpPlaces /\ Watched /\ BufferHeld
    BY DEF UdpInit, UdpPlaces, Watched, BufferHeld
  <2> QED BY <2>3, <2>4, <2>5 DEF UdpInv
<1>2. UdpInv /\ [UdpNext]_udpVars => UdpInv'
  <2> SUFFICES ASSUME UdpInv, [UdpNext]_udpVars PROVE UdpInv'
    OBVIOUS
  <2>1. CASE UNCHANGED udpVars
    <3>1. SendsQueued'
      BY <2>1, SendsQueuedKeeps DEF udpVars, sendVars, historyVars
    <3> QED BY <2>1, <3>1
        DEF udpVars, sendVars, recvVars, historyVars, UdpInv, UdpTypes, UdpPlaces, Watched, BufferHeld
  <2> QED BY <2>1, SendKeepsUdp, CallsKeepUdp, ReceivingKeepsUdp, SendingKeepsUdp
          DEF UdpNext, UdpOver, UdpUser, UdpLoop
<1> QED BY <1>1, <1>2, PTL DEF UdpSpec

\* For any requests and sizes of the batches: send_cb is called in the order of
\* uv_udp_send, once for each, the counts are exact, and between the callbacks
\* everything that waits is watched for, whatever the callbacks call.
THEOREM UdpKeepsOrderAndGoesOn == UdpSpec => [](SendsInOrder /\ NothingStalls)
<1>1. UdpInv => SendsInOrder
  <2> SUFFICES ASSUME UdpInv PROVE SendsInOrder
    OBVIOUS
  <2>0. /\ udp_queue \in Seq(Sends) /\ udp_completed \in Seq(Sends) /\ called_back \in Seq(Sends)
        /\ (called_back \o udp_completed) \o udp_queue = sent_order
    BY DEF UdpInv, UdpTypes, SendsQueued
  <2>1. IsPrefix(called_back, sent_order)
    <3> DEFINE t == udp_completed \o udp_queue
               s == called_back
    <3>1. t \in Seq(Sends) /\ sent_order = s \o t
      <4>0. /\ udp_queue \in Seq(Sends) /\ udp_completed \in Seq(Sends) /\ called_back \in Seq(Sends)
        BY <2>0
      <4>1. (called_back \o udp_completed) \o udp_queue = called_back \o (udp_completed \o udp_queue)
        BY ONLY <4>0, ConcatAssociative
      <4>2. udp_completed \o udp_queue \in Seq(Sends)
        BY ONLY <4>0, ConcatProperties
      <4> QED BY <2>0, <4>1, <4>2
    <3> HIDE DEF t
    <3>2. /\ Len(s) \in Nat /\ Len(t) \in Nat /\ Len(s \o t) = Len(s) + Len(t) /\ s \o t \in Seq(Sends)
          /\ \A i \in 1..Len(s) + Len(t) : (s \o t)[i] = IF i <= Len(s) THEN s[i] ELSE t[i - Len(s)]
      BY <2>0, <3>1, ConcatProperties, LenProperties
    <3>3. SubSeq(s \o t, 1, Len(s)) = SubSeq(s, 1, Len(s))
      <4>1. CASE Len(s) = 0
        BY <3>2, <4>1, SubSeqEmpty
      <4>2. CASE Len(s) # 0
        <5>1. 1 \in 1..Len(s) /\ Len(s) \in 1..Len(s)
          BY <3>2, <4>2
        <5> QED BY <2>0, <3>1, <5>1, SubSeqOfConcat1
      <4> QED BY <4>1, <4>2
    <3>4. Len(s) <= Len(s \o t)
      BY <3>2
    <3> QED BY <3>1, <3>3, <3>4 DEF IsPrefix
  <2>2. udp_life = "closed" => called_back = sent_order
    <3> SUFFICES ASSUME udp_life = "closed" PROVE called_back = sent_order
      OBVIOUS
    <3>1. udp_queue = <<>> /\ udp_completed = <<>>
      BY DEF UdpInv, UdpPlaces
    <3>2. (called_back \o <<>>) \o <<>> = called_back
      BY <2>0, ConcatEmptySeq
    <3> QED BY <2>0, <3>1, <3>2
  <2>3. ASSUME NEW i \in 1..Len(udp_completed) PROVE send_status[udp_completed[i]] # "none"
    <3>1. udp_completed[i] \in Sends /\ Linked(udp_completed, udp_completed[i])
      BY <2>0, ElementOfSeq DEF Linked
    <3> QED BY <3>1 DEF UdpInv, SendsQueued
  <2> QED BY <2>0, <2>1, <2>2, <2>3 DEF SendsInOrder, UdpInv, SendsQueued
<1>2. UdpInv => NothingStalls
  BY DEF UdpInv, UdpTypes, UdpPlaces, Watched, SendSteps, NothingStalls
<1> QED BY <1>1, <1>2, UdpInvIsKept, PTL

\* The buffer that the datagrams of a batch share is given back, unless the user
\* stops in the callback of one of them.
THEOREM UdpGivesBuffersBack == ASSUME KeepsReading PROVE UdpSpec => []BufferGivenBack
<1>1. UdpInv => BufferGivenBack
  BY DEF UdpInv, BufferHeld, BufferGivenBack
<1> QED BY <1>1, UdpInvIsKept, PTL

\* What a UDP handle promises, to a user who does not stop reading in the
\* callback of a chunk.
THEOREM UdpKeepsPromise == ASSUME KeepsReading PROVE UdpSpec => []UdpPromise
BY UdpKeepsOrderAndGoesOn, UdpGivesBuffersBack, PTL DEF UdpPromise
=============================================================================
