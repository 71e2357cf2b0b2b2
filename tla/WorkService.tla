------------------------------ MODULE WorkService ------------------------------
(***************************************************************************)
(* What uv_queue_work, uv_cancel and the other submitters of work promise  *)
(* their user, without threads, queues or locks: a request is run once or  *)
(* cancelled, never both, and then its callback is called; the pool runs a *)
(* bounded number at a time, and of the slow ones a smaller number still.  *)
(***************************************************************************)
EXTENDS Integers, FiniteSets

CONSTANTS Work, SlowWork, MaxRunning, MaxSlow

VARIABLE state      \* of each request

Init == state = [w \in Work |-> "idle"]

Running == {w \in Work : state[w] = "running"}

Move(w, from, to) == state[w] = from /\ state' = [state EXCEPT ![w] = to]

Submit(w)  == Move(w, "idle", "queued")
Cancel(w)  == Move(w, "queued", "cancelled")
Finish(w)  == Move(w, "running", "ran")
Deliver(w) == Move(w, "ran", "idle") \/ Move(w, "cancelled", "idle")

Start(w) == /\ Cardinality(Running) < MaxRunning
            /\ w \in SlowWork => Cardinality(Running \cap SlowWork) < MaxSlow
            /\ Move(w, "queued", "running")

Next == \E w \in Work : Submit(w) \/ Cancel(w) \/ Start(w) \/ Finish(w) \/ Deliver(w)

Spec == Init /\ [][Next]_state
=============================================================================
