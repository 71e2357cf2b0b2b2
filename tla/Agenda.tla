-------------------------------- MODULE Agenda --------------------------------
(***************************************************************************)
(* What timers promise, without heap, ready queue or 64-bit arithmetic: an *)
(* agenda of armed timers in the order in which they go off.  A timer goes *)
(* off when it heads the agenda and its time has come, never earlier, and  *)
(* a timer that was stopped does not go off.                               *)
(***************************************************************************)
EXTENDS Integers, Queue

CONSTANTS Timers, MaxTime

VARIABLES now, agenda, at, calling

vars == <<now, agenda, at, calling>>

Init == now \in 0..MaxTime /\ agenda = <<>> /\ at = [t \in Timers |-> 0] /\ calling = FALSE

\* The time `to` from now, or the end of time.
In(to) == IF now + to > MaxTime THEN MaxTime ELSE now + to

Without(t) == Unlink(agenda, t)

\* t goes behind all timers that go off no later than it, before the others.
Enter(t, to) ==
  /\ at' = [at EXCEPT ![t] = In(to)]
  /\ \E k \in 1..Len(Without(t)) + 1 :
       /\ agenda' = InsertAt(Without(t), k, t)
       /\ \A i \in 1..Len(Without(t)) : i < k <=> at[Without(t)[i]] <= In(to)

Start(t, to) == UNCHANGED <<now, calling>> /\ Enter(t, to)

Stop(t) == UNCHANGED <<now, at, calling>> /\ agenda' = Without(t)

\* A handle's memory is set up anew; it is not armed.
Clear(t) == UNCHANGED <<now, calling>> /\ at' = [at EXCEPT ![t] = 0] /\ agenda' = Without(t)

Tick == now' \in now..MaxTime /\ UNCHANGED <<at, calling, agenda>>

GoOff(t) ==
  /\ ~calling /\ calling' = TRUE /\ UNCHANGED now /\ at[t] <= now
  /\ agenda # <<>> /\ t = Head(agenda)
  /\ \/ agenda' = Tail(agenda) /\ UNCHANGED at
     \/ \E to \in 0..MaxTime : Enter(t, to)

Return == calling /\ calling' = FALSE /\ UNCHANGED <<now, agenda, at>>

Next == \/ Tick \/ Return
        \/ \E t \in Timers : \/ Stop(t) \/ Clear(t) \/ GoOff(t)
                             \/ \E to \in 0..MaxTime : Start(t, to)

Spec == Init /\ [][Next]_vars
=============================================================================
