--------------------------------- MODULE Queue ---------------------------------
(***************************************************************************)
(* The intrusive doubly linked list of queue.h, seen as the sequence of    *)
(* the nodes behind a list head.  uv__queue_move is assignment, insert_tail*)
(* is Append, insert_head is concatenation at the front; removal names the *)
(* node and not its list.                                                  *)
(***************************************************************************)
EXTENDS Integers, Sequences, FiniteSets, SequencesExt

Linked(q, n) == \E i \in 1..Len(q) : q[i] = n
Position(q, n) == CHOOSE i \in 1..Len(q) : q[i] = n

\* uv__queue_remove.  Removing a node that links to itself changes no list.
Unlink(q, n) == IF Linked(q, n) THEN RemoveAt(q, Position(q, n)) ELSE q

\* No node is in the queue twice.
Distinct(q) == \A i, j \in 1..Len(q) : q[i] = q[j] => i = j

\* How often a node is in a queue.
Occurrences(q, n) == Cardinality({i \in 1..Len(q) : q[i] = n})
=============================================================================
