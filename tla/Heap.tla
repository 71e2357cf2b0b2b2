--------------------------------- MODULE Heap ---------------------------------
(***************************************************************************)
(* The intrusive binary heap of heap-inl.h, with its pointers: each node   *)
(* has a left, a right and a parent, and the heap its root and the number  *)
(* of nodes.  Timer takes from it only that min is the least node.         *)
(***************************************************************************)
EXTENDS Integers

CONSTANTS
  Nodes,     \* the nodes, in the order of less_than
  NoNode     \* NULL

ASSUME NodesAssumption == Nodes \subseteq Nat /\ NoNode \notin Nodes

VARIABLES
  heap,      \* struct heap and the three pointers of each node
  inserted   \* history: the nodes inserted and not yet removed

heapVars == <<heap, inserted>>

\* A node outside the heap has no pointers here; heap_insert clears them.
HeapInit ==
  /\ heap = [min |-> NoNode, nelts |-> 0, left |-> [n \in Nodes |-> NoNode],
             right |-> [n \in Nodes |-> NoNode], parent |-> [n \in Nodes |-> NoNode]]
  /\ inserted = {}

less_than(a, b) == a < b

\* The pointer to n, in its parent or in the heap itself, comes to point to m.
Redirected(hp, n, m) ==
  LET p == hp.parent[n]
  IN IF p = NoNode THEN [hp EXCEPT !.min = m]
     ELSE IF hp.left[p] = n THEN [hp EXCEPT !.left[p] = m] ELSE [hp EXCEPT !.right[p] = m]

\* The children of n get n for their parent.
WithParent(hp, c, n) == IF c = NoNode THEN hp ELSE [hp EXCEPT !.parent[c] = n]
Adopted(hp, n) == WithParent(WithParent(hp, hp.left[n], n), hp.right[n], n)

\* heap_node_swap: child moves up to the place of its parent p.
heap_node_swap(hp, p, c) ==
  LET up == Redirected(hp, p, c)
      own == [up EXCEPT !.left[c] = IF hp.left[p] = c THEN p ELSE hp.left[p],
                        !.right[c] = IF hp.left[p] = c THEN hp.right[p] ELSE p,
                        !.left[p] = hp.left[c], !.right[p] = hp.right[c],
                        !.parent[c] = hp.parent[p]]
  IN Adopted(Adopted(own, c), p)

RECURSIVE At(_, _), SiftUp(_, _), SiftDown(_, _)

\* The k-th node of the complete tree: the bits of k below the leading one are
\* the path to it from the root.
At(hp, k) == IF k = 1 THEN hp.min
             ELSE IF k % 2 = 1 THEN hp.right[At(hp, k \div 2)] ELSE hp.left[At(hp, k \div 2)]

SiftUp(hp, n) ==
  IF hp.parent[n] # NoNode /\ less_than(n, hp.parent[n])
    THEN SiftUp(heap_node_swap(hp, hp.parent[n], n), n) ELSE hp

SiftDown(hp, n) ==
  LET children == {hp.left[n], hp.right[n]} \ {NoNode}
      least == CHOOSE c \in children : \A d \in children : ~less_than(d, c)
  IN IF children # {} /\ less_than(least, n)
       THEN SiftDown(heap_node_swap(hp, n, least), n) ELSE hp

\* The new node becomes the leftmost free one of the bottom row and moves up.
heap_insert(hp, n) ==
  LET k == hp.nelts + 1
      p == IF k = 1 THEN NoNode ELSE At(hp, k \div 2)
      linked == IF k = 1 THEN [hp EXCEPT !.min = n]
                ELSE IF k % 2 = 1 THEN [hp EXCEPT !.right[p] = n] ELSE [hp EXCEPT !.left[p] = n]
  IN SiftUp([linked EXCEPT !.nelts = k, !.parent[n] = p], n)

\* The last node of the bottom row takes the place of the removed one; it may
\* have to move down, or, coming from another subtree, up.
Emptied(hp, n) == [hp EXCEPT !.left[n] = NoNode, !.right[n] = NoNode, !.parent[n] = NoNode]

Replaced(hp, n, last) ==
  LET placed == [Redirected(hp, n, last) EXCEPT !.left[last] = hp.left[n],
                   !.right[last] = hp.right[n], !.parent[last] = hp.parent[n]]
  IN Emptied(Adopted(placed, last), n)

SettledDownOnly(hp, last) == SiftDown(hp, last)
Settled(hp, last) == SiftUp(SiftDown(hp, last), last)

heap_remove(hp, n) ==
  LET last == At(hp, hp.nelts)
      cut == [Redirected(hp, last, NoNode) EXCEPT !.nelts = @ - 1]
  IN IF hp.nelts = 0 THEN hp
     ELSE IF last = n THEN Emptied(cut, n)
     ELSE Settled(Replaced(cut, n, last), last)

heap_dequeue(hp) == heap_remove(hp, hp.min)

HeapNext ==
  \/ \E n \in Nodes \ inserted : heap' = heap_insert(heap, n) /\ inserted' = inserted \cup {n}
  \/ \E n \in inserted : heap' = heap_remove(heap, n) /\ inserted' = inserted \ {n}
  \/ heap' = heap_dequeue(heap) /\ inserted' = inserted \ {heap.min}

-----------------------------------------------------------------------------
(* Properties *)

\* Whatever is inserted and removed in whatever order, the pointers form a
\* complete binary tree of exactly the nodes inserted, each above its children
\* in the order: min is the least, and no node is lost or linked twice.
HeapSound ==
  LET position == 1..heap.nelts
  IN /\ heap.nelts = 0 => heap.min = NoNode
     /\ {At(heap, k) : k \in position} = inserted
     /\ \A j, k \in position : At(heap, j) = At(heap, k) => j = k
     /\ \A k \in position :
          LET n == At(heap, k)
          IN /\ heap.parent[n] = IF k = 1 THEN NoNode ELSE At(heap, k \div 2)
             /\ heap.left[n] = IF 2 * k \in position THEN At(heap, 2 * k) ELSE NoNode
             /\ heap.right[n] = IF 2 * k + 1 \in position THEN At(heap, 2 * k + 1) ELSE NoNode
             /\ k > 1 => ~less_than(n, heap.parent[n])
=============================================================================
