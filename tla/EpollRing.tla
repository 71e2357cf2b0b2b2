------------------------------- MODULE EpollRing -------------------------------
(***************************************************************************)
(* How uv__io_poll tells the kernel about new masks when the loop has an   *)
(* io_uring for it (unix/linux.c): the requests are collected in a ring    *)
(* whose slots are used again, an ADD that finds the descriptor registered *)
(* is retried as a MOD, and filling the ring up submits it, also from      *)
(* within the submission.  IoPoll does the same with epoll_ctl.            *)
(***************************************************************************)
EXTENDS Integers, Sequences, Functions

CONSTANTS
  RingFds,    \* descriptors
  Masks,      \* event masks a watcher may ask for
  NoMask,     \* "not registered", "nothing asked for"
  RingSize    \* entries of the submission ring (256)

ASSUME EpollRingAssumption == NoMask \notin Masks /\ RingSize \in Nat \ {0}

VARIABLES
  asked,     \* w->pevents of the watcher of a descriptor
  known,     \* w->events: what it believes to be registered
  queued,    \* loop->watcher_queue
  registered,\* kernel: the mask of each descriptor
  phase,     \* uv__io_poll: "out", "register", "wait" or "aborted"
  sq,        \* submissions of the ring: operation, descriptor and slot
  sqtail,    \* *ctl->sqtail & ctl->sqmask
  prep,      \* the events[] the submissions point into, by slot
  cq,        \* completions
  frames     \* running calls of uv__epoll_ctl_flush: the oldevents of each

askVars == <<asked, known, queued>>
ctlVars == <<sq, sqtail, prep, cq, frames>>
epollRingVars == <<askVars, registered, phase, ctlVars>>

Slots == 0..(RingSize - 1)

EpollRingInit ==
  /\ asked = [f \in RingFds |-> NoMask]
  /\ known = [f \in RingFds |-> NoMask]
  /\ queued = {}
  /\ registered = [f \in RingFds |-> NoMask]
  /\ phase = "out"
  /\ sq = <<>> /\ sqtail = 0 /\ prep = [s \in Slots |-> NoMask]
  /\ cq = <<>> /\ frames = <<>>

-----------------------------------------------------------------------------
(* Between two polls: a mask changes, all of it goes (which the kernel is   *)
(* not told), or the descriptor is closed and its number used again.        *)

Ask(f, mask) ==
  /\ phase = "out"
  /\ asked' = [asked EXCEPT ![f] = mask]
  /\ queued' = IF known[f] = mask THEN queued ELSE queued \cup {f}
  /\ UNCHANGED <<known, registered, phase, ctlVars>>

Forget(f, close) ==
  /\ phase = "out"
  /\ asked' = [asked EXCEPT ![f] = NoMask]
  /\ known' = [known EXCEPT ![f] = NoMask]
  /\ queued' = queued \ {f}
  /\ registered' = IF close THEN [registered EXCEPT ![f] = NoMask] ELSE registered
  /\ UNCHANGED <<phase, ctlVars>>

EnterPoll == /\ phase = "out"
             /\ phase' = "register"
             /\ UNCHANGED <<askVars, registered, ctlVars>>

-----------------------------------------------------------------------------
(* The kernel runs a batch in order; the completions come in any order.     *)

Applied(reg, e) ==
  IF (e.op = "add") = (reg[e.fd] = NoMask) THEN [reg EXCEPT ![e.fd] = prep[e.slot]] ELSE reg

\* The registrations before each entry of the batch, and after the last.
History(batch) ==
  LET reg[i \in 0..Len(batch)] ==
        IF i = 0 THEN registered ELSE Applied(reg[i - 1], batch[i])
  IN reg

Outcome(reg, e) == IF (e.op = "add") = (reg[e.fd] = NoMask) THEN "ok"
                   ELSE IF e.op = "add" THEN "exists" ELSE "noent"

\* uv__epoll_ctl_flush up to its loop; oldevents is a copy of the whole array.
Flush(batch, array) ==
  LET reg == History(batch)
      done == [i \in DOMAIN batch |-> [batch[i] EXCEPT !.res = Outcome(reg[i - 1], batch[i])]]
  IN /\ registered' = reg[Len(batch)]
     /\ \E p \in Bijection(DOMAIN batch, DOMAIN batch) : cq' = cq \o [i \in DOMAIN batch |-> done[p[i]]]
     /\ frames' = Append(frames, array)
     /\ sq' = <<>>

\* uv__epoll_ctl_prep leaves the entry in the next slot ...
Entry(op, f, slot) == [op |-> op, fd |-> f, slot |-> slot, res |-> "none"]

Prepared(op, f, mask) ==
  /\ sq' = Append(sq, Entry(op, f, sqtail))
  /\ prep' = [prep EXCEPT ![sqtail] = mask]
  /\ sqtail' = (sqtail + 1) % RingSize

\* ... and a full ring is flushed before anything else happens.
Full(entries) == Len(entries) = RingSize

FlushFull ==
  /\ Full(sq)
  /\ Flush(sq, prep)
  /\ UNCHANGED <<askVars, phase, sqtail, prep>>

-----------------------------------------------------------------------------
\* The first loop of uv__io_poll.
RegisterOne(f) ==
  /\ phase = "register" /\ frames = <<>> /\ ~Full(sq)
  /\ f \in queued
  /\ queued' = queued \ {f}
  /\ known' = [known EXCEPT ![f] = asked[f]]
  /\ Prepared(IF known[f] = NoMask THEN "add" ELSE "mod", f, asked[f])
  /\ UNCHANGED <<asked, registered, phase, cq, frames>>

\* The events a retry hands over.
RetriedFromArray(e) == prep[e.slot]
Retried(e) == frames[Len(frames)][e.slot]

\* The loop of the innermost uv__epoll_ctl_flush, one completion at a time.
Complete ==
  /\ frames # <<>> /\ ~Full(sq) /\ cq # <<>>
  /\ cq' = Tail(cq)
  /\ LET e == Head(cq)
     IN CASE e.res = "ok" -> UNCHANGED <<phase, sq, sqtail, prep>>
          [] e.res = "exists" -> Prepared("mod", e.fd, Retried(e)) /\ UNCHANGED phase
          [] e.res = "noent" -> phase' = "aborted" /\ UNCHANGED <<sq, sqtail, prep>>
  /\ UNCHANGED <<askVars, registered, frames>>

FlushReturns ==
  /\ frames # <<>> /\ ~Full(sq) /\ cq = <<>>
  /\ frames' = SubSeq(frames, 1, Len(frames) - 1)
  /\ UNCHANGED <<askVars, registered, phase, sq, sqtail, prep, cq>>

\* Before epoll_pwait all that is left is flushed, again and again.
FlushRest ==
  /\ phase = "register" /\ frames = <<>> /\ queued = {} /\ sq # <<>> /\ ~Full(sq)
  /\ Flush(sq, prep)
  /\ UNCHANGED <<askVars, phase, sqtail, prep>>

EpollWait ==
  /\ phase = "register" /\ frames = <<>> /\ queued = {} /\ sq = <<>>
  /\ phase' = "wait"
  /\ UNCHANGED <<askVars, registered, ctlVars>>

LeavePoll == /\ phase = "wait"
             /\ phase' = "out"
             /\ UNCHANGED <<askVars, registered, ctlVars>>

EpollRingNext ==
  \/ EnterPoll \/ FlushFull \/ Complete \/ FlushReturns \/ FlushRest \/ EpollWait \/ LeavePoll
  \/ \E f \in RingFds : \/ RegisterOne(f)
                        \/ \E mask \in Masks : Ask(f, mask)
                        \/ \E close \in BOOLEAN : Forget(f, close)

EpollRingSpec == EpollRingInit /\ [][EpollRingNext]_epollRingVars

-----------------------------------------------------------------------------
(* Properties *)

\* When the loop waits the kernel has the mask of every watcher, whichever way
\* the submissions were batched, retried and completed; and the calls of
\* abort() and the assertions of uv__epoll_ctl_flush are not reached.
MasksReachKernel ==
  /\ phase # "aborted"
  /\ phase = "wait" => \A f \in RingFds : asked[f] # NoMask => registered[f] = asked[f]
=============================================================================
