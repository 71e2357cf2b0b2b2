----------------------------- MODULE MCThreadPool -----------------------------
(* ThreadPool for TLC: model values for the threads, loops and requests.   *)
EXTENDS ThreadPool, TLC

CONSTANTS t1, t2, t3, l1, l2, c1, s1, s2

\* One loop, CPU and slow work.
Loops1 == {l1}
Work1 == {c1, s1, s2}
Slow1 == {s1, s2}
LoopOf1 == [w \in Work1 |-> l1]

\* Two loops that share the pool, one with CPU and slow work.
Loops2 == {l1, l2}
Work2 == {c1, s1, s2}
Slow2 == {s1, s2}
LoopOf2 == [w \in Work2 |-> IF w = s2 THEN l2 ELSE l1]

\* For liveness, where symmetry is unsound, the user cancels one slow request
\* and the CPU request; the other slow request keeps its thread.
CancelsFew == \A l \in Loops : lpc[l] = "run" /\ lpc'[l] = "cancel" => arg'[l] # s2
LiveSpec == Init /\ [][Next /\ NoRecancel /\ CancelsFew]_vars /\ Fairness

Symmetry == Permutations(Threads)
=============================================================================
