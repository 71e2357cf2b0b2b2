-------------------------------- MODULE Lemmas --------------------------------
(***************************************************************************)
(* What the proofs share: what the operations of queue.h do to a list of   *)
(* any nodes, and induction for sets of numbers.                           *)
(***************************************************************************)
EXTENDS Queue, SequenceTheorems, FiniteSetTheorems, WellFoundedInduction, TLAPS

\* Unlinking a node from a queue leaves a queue of the same nodes.
LEMMA UnlinkType ==
  ASSUME NEW S, NEW q \in Seq(S), NEW n
  PROVE  Unlink(q, n) \in Seq(S)
<1>1. CASE Linked(q, n)
  <2> DEFINE i == Position(q, n)
  <2>1. i \in 1..Len(q)
    BY <1>1 DEF Position, Linked
  <2>2. SubSeq(q, 1, i - 1) \in Seq(S)
    <3>1. 1 \in 1..(Len(q)+1) /\ i - 1 \in 0..Len(q)
      BY <2>1, LenProperties
    <3> HIDE DEF i
    <3> QED BY <3>1, SubSeqProperties, LenProperties
  <2>3. SubSeq(q, i + 1, Len(q)) \in Seq(S)
    <3>1. i + 1 \in 1..(Len(q)+1) /\ Len(q) \in 0..Len(q)
      BY <2>1, LenProperties
    <3> HIDE DEF i
    <3> QED BY <3>1, SubSeqProperties, LenProperties
  <2>4. Unlink(q, n) = SubSeq(q, 1, i - 1) \o SubSeq(q, i + 1, Len(q))
    BY <1>1 DEF Unlink, RemoveAt
  <2> HIDE DEF i
  <2> QED BY <2>2, <2>3, <2>4, ConcatProperties
<1>2. CASE ~Linked(q, n)
  BY <1>2 DEF Unlink
<1> QED BY <1>1, <1>2

\* The elements of the result, one by one, when the node is in the queue.
LEMMA UnlinkElements ==
  ASSUME NEW S, NEW q \in Seq(S), NEW n, Linked(q, n)
  PROVE  /\ Position(q, n) \in 1..Len(q)
         /\ q[Position(q, n)] = n
         /\ Len(Unlink(q, n)) = Len(q) - 1
         /\ \A k \in 1..(Len(q) - 1) :
              Unlink(q, n)[k] = IF k < Position(q, n) THEN q[k] ELSE q[k + 1]
<1> DEFINE i == Position(q, n)
           a == SubSeq(q, 1, i - 1)
           b == SubSeq(q, i + 1, Len(q))
<1>1. i \in 1..Len(q) /\ q[i] = n
  BY DEF Position, Linked
<1>2. Len(q) \in Nat
  BY LenProperties
<1>3. /\ a \in Seq(S) /\ Len(a) = i - 1
      /\ \A k \in 1..(i - 1) : a[k] = q[k]
  <2>1. 1 \in 1..(Len(q)+1) /\ i - 1 \in 0..Len(q)
    BY <1>1, <1>2
  <2> HIDE DEF i
  <2>2. QED BY <1>1, <1>2, <2>1, SubSeqProperties
<1>4. /\ b \in Seq(S) /\ Len(b) = Len(q) - i
      /\ \A k \in 1..(Len(q) - i) : b[k] = q[k + i]
  <2>1. i + 1 \in 1..(Len(q)+1) /\ Len(q) \in 0..Len(q)
    BY <1>1, <1>2
  <2> HIDE DEF i
  <2>2. QED BY <1>1, <1>2, <2>1, SubSeqProperties
<1>5. Unlink(q, n) = a \o b
  BY DEF Unlink, RemoveAt
<1> HIDE DEF i, a, b
<1>0. /\ Len(a \o b) = Len(a) + Len(b)
      /\ \A k \in 1..(Len(a) + Len(b)) :
           (a \o b)[k] = IF k <= Len(a) THEN a[k] ELSE b[k - Len(a)]
  BY <1>3, <1>4, ConcatProperties
<1>6. Len(a \o b) = Len(q) - 1
  BY <1>0, <1>1, <1>2, <1>3, <1>4
<1>7. ASSUME NEW k \in 1..(Len(q) - 1)
      PROVE  (a \o b)[k] = IF k < i THEN q[k] ELSE q[k + 1]
  <2>1. CASE k < i
    BY <2>1, <1>0, <1>1, <1>2, <1>3, <1>4
  <2>2. CASE ~(k < i)
    <3>1. (a \o b)[k] = b[k - Len(a)]
      BY <2>2, <1>0, <1>1, <1>2, <1>3, <1>4
    <3>2. k - Len(a) = k - i + 1 /\ k - i + 1 \in 1..(Len(q) - i)
      BY <2>2, <1>1, <1>2, <1>3
    <3>3. b[k - i + 1] = q[k + 1]
      BY <3>2, <1>1, <1>2, <1>4
    <3> QED BY <2>2, <3>1, <3>2, <3>3
  <2> QED BY <2>1, <2>2
<1> QED BY <1>1, <1>5, <1>6, <1>7 DEF i

\* Unlinking takes away exactly the node, and keeps a queue without
\* duplicates free of them.
LEMMA UnlinkDistinct ==
  ASSUME NEW S, NEW q \in Seq(S), NEW n, Distinct(q)
  PROVE  /\ Distinct(Unlink(q, n))
         /\ \A m : Linked(Unlink(q, n), m) <=> Linked(q, m) /\ m # n
<1>0. Len(q) \in Nat
  BY LenProperties
<1>1. CASE Linked(q, n)
  <2> DEFINE i == Position(q, n)
             u == Unlink(q, n)
  <2>1. /\ i \in 1..Len(q) /\ q[i] = n /\ Len(u) = Len(q) - 1
        /\ \A k \in 1..(Len(q) - 1) : u[k] = IF k < i THEN q[k] ELSE q[k + 1]
    BY <1>1, UnlinkElements
  <2> HIDE DEF i, u
  <2>2. Distinct(u)
    <3>1. \A x, y \in 1..Len(q) : q[x] = q[y] => x = y
      BY DEF Distinct
    <3>2. ASSUME NEW x \in 1..Len(u), NEW y \in 1..Len(u), u[x] = u[y] PROVE x = y
      <4> DEFINE at(k) == IF k < i THEN k ELSE k + 1
      <4>1. at(x) \in 1..Len(q) /\ u[x] = q[at(x)]
        BY <1>0, <2>1
      <4>2. at(y) \in 1..Len(q) /\ u[y] = q[at(y)]
        BY <1>0, <2>1
      <4>3. at(x) = at(y)
        <5> HIDE DEF at
        <5> QED BY <3>1, <3>2, <4>1, <4>2
      <4> QED BY <1>0, <2>1, <4>3
    <3> QED BY <3>2 DEF Distinct
  <2>3. ASSUME NEW m, Linked(u, m) PROVE Linked(q, m) /\ m # n
    BY <1>0, <2>1, <2>3 DEF Distinct, Linked
  <2>4. ASSUME NEW m, Linked(q, m), m # n PROVE Linked(u, m)
    <3>1. PICK k \in 1..Len(q) : q[k] = m
      BY <2>4 DEF Linked
    <3>2. k # i
      BY <2>1, <2>4, <3>1
    <3>3. CASE k < i
      <4>1. k \in 1..(Len(q) - 1) /\ u[k] = m
        BY <1>0, <2>1, <3>1, <3>3
      <4> QED BY <4>1, <2>1 DEF Linked
    <3>4. CASE k > i
      <4>1. k - 1 \in 1..(Len(q) - 1) /\ u[k - 1] = m
        BY <1>0, <2>1, <3>1, <3>4
      <4> QED BY <4>1, <2>1 DEF Linked
    <3> QED BY <3>2, <3>3, <3>4, <2>1, <1>0
  <2> QED BY <2>2, <2>3, <2>4 DEF u
<1>2. CASE ~Linked(q, n)
  BY <1>2 DEF Unlink, Linked
<1> QED BY <1>1, <1>2

\* uv__queue_insert_tail of a node that is in no queue.
LEMMA AppendDistinct ==
  ASSUME NEW S, NEW q \in Seq(S), NEW n \in S
  PROVE  /\ Append(q, n) \in Seq(S)
         /\ Distinct(q) /\ ~Linked(q, n) => Distinct(Append(q, n))
         /\ \A m : Linked(Append(q, n), m) <=> Linked(q, m) \/ m = n
<1>1. /\ Len(q) \in Nat /\ Append(q, n) \in Seq(S)
      /\ Len(Append(q, n)) = Len(q) + 1
      /\ \A k \in 1..Len(q) : Append(q, n)[k] = q[k]
      /\ Append(q, n)[Len(q) + 1] = n
  BY AppendProperties, LenProperties
<1> DEFINE a == Append(q, n)
<1> HIDE DEF a
<1>2. ASSUME Distinct(q), ~Linked(q, n) PROVE Distinct(a)
  BY <1>1, <1>2 DEF Distinct, Linked, a
<1>3. ASSUME NEW m PROVE Linked(a, m) <=> Linked(q, m) \/ m = n
  BY <1>1 DEF Linked, a
<1> QED BY <1>1, <1>2, <1>3 DEF a

\* The head of a queue, removed as every walk over a list does.
LEMMA TailDistinct ==
  ASSUME NEW S, NEW q \in Seq(S), q # << >>, Distinct(q)
  PROVE  /\ Head(q) \in S /\ Linked(q, Head(q))
         /\ Tail(q) \in Seq(S) /\ Distinct(Tail(q))
         /\ \A m : Linked(Tail(q), m) <=> Linked(q, m) /\ m # Head(q)
<1>1. /\ Len(q) \in Nat /\ Len(q) > 0 /\ Head(q) = q[1] /\ Head(q) \in S
      /\ Tail(q) \in Seq(S) /\ Len(Tail(q)) = Len(q) - 1
      /\ \A k \in 1..(Len(q) - 1) : Tail(q)[k] = q[k + 1]
  BY HeadTailProperties, LenProperties, EmptySeq
<1> DEFINE t == Tail(q)
<1> HIDE DEF t
<1>2. Distinct(t)
  BY <1>1 DEF Distinct, t
<1>3. ASSUME NEW m, Linked(t, m) PROVE Linked(q, m) /\ m # Head(q)
  BY <1>1, <1>3 DEF Distinct, Linked, t
<1>4. ASSUME NEW m, Linked(q, m), m # Head(q) PROVE Linked(t, m)
  <2>1. PICK k \in 1..Len(q) : q[k] = m
    BY <1>4 DEF Linked
  <2>2. k - 1 \in 1..(Len(q) - 1) /\ t[k - 1] = m
    BY <1>1, <1>4, <2>1 DEF t
  <2> QED BY <1>1, <2>2 DEF Linked, t
<1>5. Linked(q, Head(q))
  BY <1>1 DEF Linked
<1> QED BY <1>1, <1>2, <1>3, <1>4, <1>5 DEF t

LEMMA EmptyLinksNothing == \A n : ~Linked(<<>>, n)
BY DEF Linked

\* ... and any other links its head.
LEMMA EmptyOrLinked ==
  ASSUME NEW S, NEW q \in Seq(S)
  PROVE  q = << >> <=> \A n : ~Linked(q, n)
<1>1. Len(q) \in Nat /\ (q = << >> <=> Len(q) = 0)
  BY LenProperties, EmptySeq
<1>2. CASE Len(q) = 0
  BY <1>1, <1>2 DEF Linked
<1>3. CASE Len(q) > 0
  <2>1. Linked(q, q[1])
    BY <1>1, <1>3 DEF Linked
  <2> QED BY <1>1, <1>3, <2>1
<1> QED BY <1>1, <1>2, <1>3

\* uv__queue_insert_head of a node that is in no queue.
LEMMA InsertHeadDistinct ==
  ASSUME NEW S, NEW q \in Seq(S), NEW n \in S
  PROVE  /\ <<n>> \o q \in Seq(S)
         /\ Distinct(q) /\ ~Linked(q, n) => Distinct(<<n>> \o q)
         /\ \A m : Linked(<<n>> \o q, m) <=> Linked(q, m) \/ m = n
<1> DEFINE c == <<n>> \o q
<1>1. /\ Len(q) \in Nat /\ c \in Seq(S) /\ Len(c) = Len(q) + 1
      /\ c[1] = n /\ \A k \in 1..Len(q) : c[k + 1] = q[k]
  <2>1. /\ <<n>> \in Seq(S) /\ Len(<<n>>) = 1 /\ <<n>>[1] = n
        /\ Len(q) \in Nat
    BY LenProperties
  <2>2. /\ c \in Seq(S) /\ Len(c) = Len(<<n>>) + Len(q)
        /\ \A k \in 1..(Len(<<n>>) + Len(q)) :
             c[k] = IF k <= Len(<<n>>) THEN <<n>>[k] ELSE q[k - Len(<<n>>)]
    BY <2>1, ConcatProperties
  <2> HIDE DEF c
  <2> QED BY <2>1, <2>2
<1> HIDE DEF c
<1>2. \A k \in 2..Len(c) : k - 1 \in 1..Len(q) /\ c[k] = q[k - 1]
  <2> SUFFICES ASSUME NEW k \in 2..Len(c) PROVE k - 1 \in 1..Len(q) /\ c[k] = q[k - 1]
    OBVIOUS
  <2>1. k - 1 \in 1..Len(q) /\ (k - 1) + 1 = k
    BY <1>1
  <2> QED BY <1>1, <2>1
<1>3. ASSUME Distinct(q), ~Linked(q, n), NEW i \in 1..Len(c), NEW j \in 1..Len(c), c[i] = c[j]
      PROVE  i = j
  <2>1. CASE i = 1 /\ j # 1
    BY <1>1, <1>2, <1>3, <2>1 DEF Linked
  <2>2. CASE i # 1 /\ j = 1
    BY <1>1, <1>2, <1>3, <2>2 DEF Linked
  <2>3. CASE i # 1 /\ j # 1
    <3>1. i - 1 \in 1..Len(q) /\ j - 1 \in 1..Len(q) /\ q[i - 1] = q[j - 1]
      BY <1>1, <1>2, <1>3, <2>3
    <3>2. i - 1 = j - 1
      BY <1>3, <3>1 DEF Distinct
    <3> QED BY <3>2
  <2> QED BY <2>1, <2>2, <2>3
<1>4. ASSUME NEW m PROVE Linked(c, m) <=> Linked(q, m) \/ m = n
  <2>1. ASSUME NEW k \in 1..Len(q), q[k] = m PROVE Linked(c, m)
    <3>1. k + 1 \in 1..Len(c) /\ c[k + 1] = m
      BY <1>1, <2>1
    <3> QED BY <3>1 DEF Linked
  <2>2. Linked(c, n)
    BY <1>1 DEF Linked
  <2>3. ASSUME NEW k \in 1..Len(c), c[k] = m PROVE Linked(q, m) \/ m = n
    <3>1. CASE k = 1
      BY <1>1, <2>3, <3>1
    <3>2. CASE k # 1
      BY <1>1, <1>2, <2>3, <3>2 DEF Linked
    <3> QED BY <3>1, <3>2
  <2> QED BY <2>1, <2>2, <2>3 DEF Linked
<1> QED BY <1>1, <1>3, <1>4 DEF c, Distinct

\* Two lists without duplicates that have no node in common, one after the other.
LEMMA ConcatDistinct ==
  ASSUME NEW S, NEW s \in Seq(S), NEW t \in Seq(S), Distinct(s), Distinct(t),
         \A m : Linked(s, m) => ~Linked(t, m)
  PROVE  /\ s \o t \in Seq(S) /\ Distinct(s \o t)
         /\ \A m : Linked(s \o t, m) <=> Linked(s, m) \/ Linked(t, m)
<1> DEFINE c == s \o t
<1>1. /\ c \in Seq(S) /\ Len(c) = Len(s) + Len(t) /\ Len(s) \in Nat /\ Len(t) \in Nat
      /\ \A i \in 1..Len(s) + Len(t) : c[i] = IF i <= Len(s) THEN s[i] ELSE t[i - Len(s)]
  BY ConcatProperties, LenProperties
<1> HIDE DEF c
<1>2. ASSUME NEW i \in 1..Len(c)
      PROVE  \/ i \in 1..Len(s) /\ c[i] = s[i]
             \/ i > Len(s) /\ i - Len(s) \in 1..Len(t) /\ c[i] = t[i - Len(s)]
  BY <1>1
<1>3. ASSUME NEW m, Linked(c, m) PROVE Linked(s, m) \/ Linked(t, m)
  BY <1>2, <1>3 DEF Linked
<1>4. ASSUME NEW m, Linked(s, m) PROVE Linked(c, m)
  <2>1. PICK i \in 1..Len(s) : s[i] = m
    BY <1>4 DEF Linked
  <2>2. i \in 1..Len(c) /\ c[i] = m
    BY <1>1, <2>1
  <2> QED BY <2>2 DEF Linked
<1>5. ASSUME NEW m, Linked(t, m) PROVE Linked(c, m)
  <2>1. PICK i \in 1..Len(t) : t[i] = m
    BY <1>5 DEF Linked
  <2>2. Len(s) + i \in 1..Len(c) /\ c[Len(s) + i] = m
    BY SMTT(30), <1>1, <2>1
  <2> QED BY <2>2 DEF Linked
<1>6. ASSUME NEW i \in 1..Len(c), NEW j \in 1..Len(c), c[i] = c[j] PROVE i = j
  <2>0. i \in Nat /\ j \in Nat
    BY <1>1
  <2>1. CASE i <= Len(s) /\ j <= Len(s)
    <3>1. i \in 1..Len(s) /\ j \in 1..Len(s) /\ s[i] = s[j]
      BY <1>1, <1>2, <1>6, <2>0, <2>1
    <3> QED BY <3>1 DEF Distinct
  <2>2. CASE i > Len(s) /\ j > Len(s)
    <3>1. /\ i - Len(s) \in 1..Len(t) /\ j - Len(s) \in 1..Len(t)
          /\ t[i - Len(s)] = t[j - Len(s)]
      BY <1>1, <1>2, <1>6, <2>0, <2>2
    <3>2. i - Len(s) = j - Len(s)
      BY <3>1 DEF Distinct
    <3> QED BY <1>1, <2>0, <3>2
  <2>3. ASSUME NEW k \in 1..Len(c), NEW l \in 1..Len(c), k <= Len(s), l > Len(s), c[k] = c[l]
        PROVE  FALSE
    <3>1. k \in 1..Len(s) /\ s[k] = c[k] /\ l - Len(s) \in 1..Len(t) /\ t[l - Len(s)] = c[k]
      BY <1>1, <1>2, <2>3
    <3>2. Linked(s, c[k]) /\ Linked(t, c[k])
      BY <3>1 DEF Linked
    <3> QED BY <3>2
  <2>4. i <= Len(s) \/ i > Len(s)
    BY <1>1, <2>0
  <2>5. j <= Len(s) \/ j > Len(s)
    BY <1>1, <2>0
  <2> QED BY <1>6, <2>1, <2>2, <2>3, <2>4, <2>5
<1> QED BY <1>1, <1>3, <1>4, <1>5, <1>6 DEF c, Distinct

\* A list without duplicates, cut in two.
LEMMA SplitDistinct ==
  ASSUME NEW S, NEW s \in Seq(S), Distinct(s), NEW n \in 0..Len(s)
  PROVE  /\ SubSeq(s, 1, n) \in Seq(S) /\ Distinct(SubSeq(s, 1, n))
         /\ SubSeq(s, n + 1, Len(s)) \in Seq(S) /\ Distinct(SubSeq(s, n + 1, Len(s)))
         /\ \A m : Linked(s, m) <=> Linked(SubSeq(s, 1, n), m) \/ Linked(SubSeq(s, n + 1, Len(s)), m)
         /\ \A m : Linked(SubSeq(s, 1, n), m) => ~Linked(SubSeq(s, n + 1, Len(s)), m)
<1> DEFINE a == SubSeq(s, 1, n)
           b == SubSeq(s, n + 1, Len(s))
<1>0. Len(s) \in Nat /\ n \in Nat /\ n <= Len(s) /\ \A i \in 1..Len(s) : s[i] \in S
  BY LenProperties, ElementOfSeq
<1>1. a \in Seq(S) /\ Len(a) = n /\ \A i \in 1..n : a[i] = s[i]
  BY <1>0, SubSeqProperties
<1>2. b \in Seq(S) /\ Len(b) = Len(s) - n /\ \A i \in 1..Len(s) - n : b[i] = s[n + i]
  <2>1. \A i \in n + 1..Len(s) : s[i] \in S
    BY <1>0
  <2>2. /\ b \in Seq(S) /\ Len(b) = IF n + 1 <= Len(s) THEN Len(s) - (n + 1) + 1 ELSE 0
        /\ \A i \in 1..Len(s) - (n + 1) + 1 : b[i] = s[n + 1 + i - 1]
    BY <1>0, <2>1, SubSeqProperties
  <2> HIDE DEF b
  <2> QED BY <1>0, <2>2
<1> HIDE DEF a, b
<1>3. Distinct(a) /\ Distinct(b)
  <2>1. Distinct(a)
    BY <1>0, <1>1 DEF Distinct
  <2>2. ASSUME NEW i \in 1..Len(b), NEW j \in 1..Len(b), b[i] = b[j] PROVE i = j
    <3>1. n + i \in 1..Len(s) /\ n + j \in 1..Len(s) /\ s[n + i] = s[n + j]
      BY <1>0, <1>2, <2>2
    <3>2. n + i = n + j
      BY <3>1 DEF Distinct
    <3> QED BY <1>0, <1>2, <3>2
  <2> QED BY <2>1, <2>2 DEF Distinct
<1>4. ASSUME NEW m, Linked(s, m) PROVE Linked(a, m) \/ Linked(b, m)
  <2>1. PICK i \in 1..Len(s) : s[i] = m
    BY <1>4 DEF Linked
  <2>2. CASE i <= n
    BY <1>0, <1>1, <2>1, <2>2 DEF Linked
  <2>3. CASE i > n
    <3>1. i - n \in 1..Len(b) /\ b[i - n] = m
      BY <1>0, <1>2, <2>1, <2>3
    <3> QED BY <3>1 DEF Linked
  <2> QED BY <1>0, <2>2, <2>3
<1>5. ASSUME NEW m, Linked(a, m) PROVE Linked(s, m)
  BY <1>0, <1>1, <1>5 DEF Linked
<1>6. ASSUME NEW m, Linked(b, m) PROVE Linked(s, m)
  <2>1. PICK i \in 1..Len(b) : b[i] = m
    BY <1>6 DEF Linked
  <2>2. n + i \in 1..Len(s) /\ s[n + i] = m
    BY <1>0, <1>2, <2>1
  <2> QED BY <2>2 DEF Linked
<1>7. ASSUME NEW m, Linked(a, m), Linked(b, m) PROVE FALSE
  <2>1. PICK i \in 1..Len(a), j \in 1..Len(b) : a[i] = m /\ b[j] = m
    BY <1>7 DEF Linked
  <2>2. i \in 1..Len(s) /\ n + j \in 1..Len(s) /\ s[i] = s[n + j] /\ i # n + j
    BY <1>0, <1>1, <1>2, <2>1
  <2> QED BY <2>2 DEF Distinct
<1> QED BY <1>1, <1>2, <1>3, <1>4, <1>5, <1>6, <1>7 DEF a, b

\* What is appended to a list is appended to its end.
LEMMA AppendToEnd ==
  ASSUME NEW S, NEW s \in Seq(S), NEW x \in S, NEW n \in 0..Len(s)
  PROVE  SubSeq(Append(s, x), n + 1, Len(s) + 1) = Append(SubSeq(s, n + 1, Len(s)), x)
<1> DEFINE c == Append(s, x)
           b == SubSeq(s, n + 1, Len(s))
           d == SubSeq(c, n + 1, Len(s) + 1)
<1>0. Len(s) \in Nat /\ n \in Nat /\ n <= Len(s) /\ \A i \in 1..Len(s) : s[i] \in S
  BY LenProperties, ElementOfSeq
<1>1. Len(c) = Len(s) + 1 /\ c[Len(s) + 1] = x /\ \A i \in 1..Len(s) : c[i] = s[i]
  BY AppendProperties
<1>2. b \in Seq(S) /\ Len(b) = Len(s) - n /\ \A i \in 1..Len(s) - n : b[i] = s[n + i]
  <2>1. \A i \in n + 1..Len(s) : s[i] \in S
    BY <1>0
  <2>2. /\ b \in Seq(S) /\ Len(b) = IF n + 1 <= Len(s) THEN Len(s) - (n + 1) + 1 ELSE 0
        /\ \A i \in 1..Len(s) - (n + 1) + 1 : b[i] = s[n + 1 + i - 1]
    BY <1>0, <2>1, SubSeqProperties
  <2> HIDE DEF b
  <2> QED BY <1>0, <2>2
<1> HIDE DEF c
<1>3. d \in Seq(S) /\ Len(d) = Len(s) - n + 1 /\ \A i \in 1..Len(s) - n + 1 : d[i] = c[n + i]
  <2>1. \A i \in n + 1..Len(s) + 1 : c[i] \in S
    BY <1>0, <1>1
  <2>2. /\ d \in Seq(S) /\ Len(d) = Len(s) + 1 - (n + 1) + 1
        /\ \A i \in 1..Len(s) + 1 - (n + 1) + 1 : d[i] = c[n + 1 + i - 1]
    BY <1>0, <2>1, SubSeqProperties
  <2> HIDE DEF d
  <2> QED BY <1>0, <2>2
<1> HIDE DEF b, d
<1>4. /\ Append(b, x) \in Seq(S) /\ Len(Append(b, x)) = Len(b) + 1
      /\ Append(b, x)[Len(b) + 1] = x /\ \A i \in 1..Len(b) : Append(b, x)[i] = b[i]
  BY <1>2, AppendProperties
<1>5. ASSUME NEW i \in 1..Len(d) PROVE d[i] = Append(b, x)[i]
  <2>1. CASE i = Len(s) - n + 1
    <3>1. d[i] = c[Len(s) + 1]
      BY <1>0, <1>3, <2>1
    <3> QED BY <1>0, <1>1, <1>2, <1>4, <2>1, <3>1
  <2>2. CASE i # Len(s) - n + 1
    <3>1. i \in 1..Len(s) - n /\ n + i \in 1..Len(s) /\ i \in 1..Len(b)
      BY <1>0, <1>2, <1>3, <2>2
    <3> QED BY <1>0, <1>1, <1>2, <1>3, <1>4, <3>1
  <2> QED BY <2>1, <2>2
<1>6. Len(d) = Len(Append(b, x))
  BY <1>0, <1>2, <1>3, <1>4
<1>7. d = Append(b, x)
  BY <1>3, <1>4, <1>5, <1>6, SeqEqual
<1> QED BY <1>7 DEF b, c, d

\* In a queue without duplicates a node is once, or not at all.
LEMMA OccursOnce ==
  ASSUME NEW q, NEW n, Distinct(q)
  PROVE  Occurrences(q, n) = IF Linked(q, n) THEN 1 ELSE 0
<1>1. CASE Linked(q, n)
  <2>1. PICK i \in 1..Len(q) : q[i] = n
    BY <1>1 DEF Linked
  <2>2. {j \in 1..Len(q) : q[j] = n} = {i}
    BY <2>1 DEF Distinct
  <2>3. Cardinality({i}) = 1
    BY FS_Singleton
  <2>4. Occurrences(q, n) = 1
    BY <2>2, <2>3, Zenon DEF Occurrences
  <2> QED BY <1>1, <2>4
<1>2. CASE ~Linked(q, n)
  <2>1. {j \in 1..Len(q) : q[j] = n} = {}
    BY <1>2 DEF Linked
  <2>2. Cardinality({}) = 0
    BY FS_EmptySet
  <2>3. Occurrences(q, n) = 0
    BY <2>1, <2>2, Zenon DEF Occurrences
  <2> QED BY <1>2, <2>3
<1> QED BY <1>1, <1>2

-----------------------------------------------------------------------------
(* Induction, without an operator for a parameter.                          *)

\* Every set of natural numbers has a least one.
LEMMA LeastNat ==
  ASSUME NEW T \in SUBSET Nat, T # {}
  PROVE  \E m \in T : \A n \in T : m <= n
<1> DEFINE F == {0..m : m \in T}
           R == StrictSubsetOrdering(Nat)
<1>1. F \subseteq FiniteSubsetsOf(Nat) /\ F # {}
  <2>1. ASSUME NEW m \in Nat PROVE 0..m \in FiniteSubsetsOf(Nat)
    <3>1. IsFiniteSet(0..m) /\ 0..m \subseteq Nat
      BY FS_Interval
    <3> QED BY <3>1 DEF FiniteSubsetsOf
  <2> QED BY <2>1
<1>2. IsWellFoundedOn(R, FiniteSubsetsOf(Nat))
  BY FS_StrictSubsetOrderingWellFounded
<1> HIDE DEF F, R
<1>3. PICK x \in F : \A y \in F : <<y, x>> \notin R
  BY <1>1, <1>2, WFMin
<1>4. PICK m \in T : x = 0..m
  BY DEF F
<1>5. ASSUME NEW n \in T, n < m PROVE FALSE
  <2>1. 0..n \in F /\ 0..n \subseteq 0..m /\ 0..n # 0..m
    BY <1>5 DEF F
  <2>2. <<0..n, 0..m>> \in R
    BY <2>1 DEF R, StrictSubsetOrdering
  <2> QED BY <1>3, <1>4, <2>1, <2>2
<1> QED BY <1>5

\* Induction over the natural numbers, for a set instead of a property.
LEMMA SetInduction ==
  ASSUME NEW S, 0 \in S, \A n \in Nat : n \in S => n + 1 \in S
  PROVE  Nat \subseteq S
<1> SUFFICES ASSUME Nat \ S # {} PROVE FALSE
  OBVIOUS
<1>1. PICK m \in Nat \ S : \A n \in Nat \ S : m <= n
  BY LeastNat
<1>2. m # 0 /\ m - 1 \in Nat
  BY <1>1
<1> QED BY <1>1, <1>2

-----------------------------------------------------------------------------
(* Two lists one behind the other, and counting in a list.                  *)

\* Tail of the first, if it has one.
LEMMA TailOfConcat ==
  ASSUME NEW S, NEW s \in Seq(S), NEW t \in Seq(S), s # << >>
  PROVE  s \o t # << >> /\ Head(s \o t) = Head(s) /\ Tail(s \o t) = Tail(s) \o t
<1> DEFINE c == s \o t
           d == Tail(s) \o t
<1>1. /\ Len(s) \in Nat \ {0} /\ Len(t) \in Nat
      /\ c \in Seq(S) /\ Len(c) = Len(s) + Len(t)
      /\ \A i \in 1..Len(s) + Len(t) : c[i] = IF i <= Len(s) THEN s[i] ELSE t[i - Len(s)]
  BY ConcatProperties, LenProperties, EmptySeq
<1>2. /\ Tail(s) \in Seq(S) /\ Len(Tail(s)) = Len(s) - 1
      /\ \A i \in 1..Len(s) - 1 : Tail(s)[i] = s[i + 1]
  BY HeadTailProperties
<1>3. /\ d \in Seq(S) /\ Len(d) = Len(s) - 1 + Len(t)
      /\ \A i \in 1..Len(s) - 1 + Len(t) :
           d[i] = IF i <= Len(s) - 1 THEN Tail(s)[i] ELSE t[i - (Len(s) - 1)]
  BY <1>2, ConcatProperties
<1> HIDE DEF c, d
<1>4. c # << >>
  BY <1>1, EmptySeq
<1>5. /\ Tail(c) \in Seq(S) /\ Len(Tail(c)) = Len(c) - 1
      /\ \A i \in 1..Len(Tail(c)) : Tail(c)[i] = c[i + 1]
  BY <1>1, <1>4, HeadTailProperties
<1>6. ASSUME NEW i \in 1..Len(Tail(c)) PROVE Tail(c)[i] = d[i]
  <2>1. i \in Nat /\ i + 1 \in 1..Len(s) + Len(t) /\ i \in 1..Len(s) - 1 + Len(t)
    BY <1>1, <1>5
  <2>2. CASE i <= Len(s) - 1
    BY <1>1, <1>2, <1>3, <1>5, <2>1, <2>2
  <2>3. CASE ~(i <= Len(s) - 1)
    BY <1>1, <1>3, <1>5, <2>1, <2>3
  <2> QED BY <2>2, <2>3
<1>7. Tail(c) = d
  BY <1>1, <1>3, <1>5, <1>6, SeqEqual
<1>8. Head(c) = Head(s)
  BY <1>1, <1>4
<1> QED BY <1>4, <1>7, <1>8 DEF c, d

\* What is appended to the second is appended to both.
LEMMA AppendOfConcat ==
  ASSUME NEW S, NEW s \in Seq(S), NEW t \in Seq(S), NEW x \in S
  PROVE  s \o Append(t, x) = Append(s \o t, x)
<1> DEFINE u == Append(t, x)
           c == s \o t
           a == s \o u
           b == Append(c, x)
<1>1. /\ Len(s) \in Nat /\ Len(t) \in Nat
      /\ c \in Seq(S) /\ Len(c) = Len(s) + Len(t)
      /\ \A i \in 1..Len(s) + Len(t) : c[i] = IF i <= Len(s) THEN s[i] ELSE t[i - Len(s)]
  BY ConcatProperties, LenProperties
<1>2. /\ u \in Seq(S) /\ Len(u) = Len(t) + 1 /\ u[Len(t) + 1] = x
      /\ \A i \in 1..Len(t) : u[i] = t[i]
  BY AppendProperties
<1> HIDE DEF c, u
<1>3. /\ a \in Seq(S) /\ Len(a) = Len(s) + Len(u)
      /\ \A i \in 1..Len(s) + Len(u) : a[i] = IF i <= Len(s) THEN s[i] ELSE u[i - Len(s)]
  BY <1>2, ConcatProperties
<1>4. /\ b \in Seq(S) /\ Len(b) = Len(c) + 1 /\ b[Len(c) + 1] = x
      /\ \A i \in 1..Len(c) : b[i] = c[i]
  BY <1>1, AppendProperties
<1> HIDE DEF a, b
<1>5. ASSUME NEW i \in 1..Len(a) PROVE a[i] = b[i]
  <2>1. i \in Nat /\ i \in 1..Len(s) + Len(t) + 1
    BY <1>1, <1>2, <1>3
  <2>2. CASE i <= Len(s)
    <3>1. i \in 1..Len(s) + Len(t) /\ i \in 1..Len(c) /\ i \in 1..Len(s) + Len(u)
      BY <1>1, <1>2, <2>1, <2>2
    <3>2. a[i] = s[i] /\ c[i] = s[i] /\ b[i] = c[i]
      BY <1>1, <1>3, <1>4, <2>2, <3>1
    <3> QED BY <3>2
  <2>3. CASE i > Len(s) /\ i <= Len(s) + Len(t)
    <3>1. i - Len(s) \in 1..Len(t) /\ ~(i <= Len(s))
      BY <1>1, <2>1, <2>3
    <3>2. i \in 1..Len(s) + Len(t) /\ i \in 1..Len(c) /\ i \in 1..Len(s) + Len(u)
      BY <1>1, <1>2, <2>1, <2>3
    <3>3. a[i] = u[i - Len(s)] /\ u[i - Len(s)] = t[i - Len(s)] /\ c[i] = t[i - Len(s)] /\ b[i] = c[i]
      BY <1>1, <1>2, <1>3, <1>4, <3>1, <3>2
    <3> QED BY <3>3
  <2>4. CASE i = Len(s) + Len(t) + 1
    <3>1. i - Len(s) = Len(t) + 1 /\ ~(i <= Len(s)) /\ i = Len(c) + 1
      BY <1>1, <2>4
    <3> QED BY <1>1, <1>2, <1>3, <1>4, <2>1, <3>1
  <2> QED BY <1>1, <2>1, <2>2, <2>3, <2>4
<1>6. Len(a) = Len(b)
  BY <1>1, <1>2, <1>3, <1>4
<1>7. a = b
  BY <1>3, <1>4, <1>5, <1>6, SeqEqual
<1> QED BY <1>7 DEF a, b, c, u

\* The places of a list that hold something of T.
PositionsIn(q, T) == {i \in 1..Len(q) : q[i] \in T}

LEMMA PlacesFinite ==
  ASSUME NEW S, NEW q \in Seq(S), NEW T
  PROVE  IsFiniteSet(PositionsIn(q, T)) /\ Cardinality(PositionsIn(q, T)) \in Nat
<1>1. IsFiniteSet(1..Len(q))
  BY LenProperties, FS_Interval
<1>2. PositionsIn(q, T) \in SUBSET (1..Len(q))
  BY DEF PositionsIn
<1> HIDE DEF PositionsIn
<1>3. IsFiniteSet(PositionsIn(q, T))
  BY <1>1, <1>2, FS_Subset
<1> QED BY <1>3, FS_CardinalityType

LEMMA PlacesOfAppend ==
  ASSUME NEW S, NEW q \in Seq(S), NEW x \in S, NEW T
  PROVE  /\ PositionsIn(Append(q, x), T) = PositionsIn(q, T) \cup (IF x \in T THEN {Len(q) + 1} ELSE {})
         /\ Cardinality(PositionsIn(Append(q, x), T)) =
              Cardinality(PositionsIn(q, T)) + (IF x \in T THEN 1 ELSE 0)
<1>0. Len(q) \in Nat
  BY LenProperties
<1>1. PositionsIn(Append(q, x), T) = PositionsIn(q, T) \cup (IF x \in T THEN {Len(q) + 1} ELSE {})
  <2> DEFINE a == Append(q, x)
  <2>1. Len(a) = Len(q) + 1 /\ a[Len(q) + 1] = x /\ \A i \in 1..Len(q) : a[i] = q[i]
    BY AppendProperties
  <2> HIDE DEF a
  <2> QED BY <1>0, <2>1 DEF a, PositionsIn
<1>2. IsFiniteSet(PositionsIn(q, T)) /\ Cardinality(PositionsIn(q, T)) \in Nat
  BY PlacesFinite
<1>3. Len(q) + 1 \notin PositionsIn(q, T)
  BY <1>0 DEF PositionsIn
<1>4. Cardinality(PositionsIn(q, T) \cup {Len(q) + 1}) = Cardinality(PositionsIn(q, T)) + 1
  BY <1>2, <1>3, FS_AddElement
<1> HIDE DEF PositionsIn
<1>5. PositionsIn(q, T) \cup {} = PositionsIn(q, T)
  OBVIOUS
<1>6. CASE x \in T
  BY <1>1, <1>2, <1>4, <1>6
<1>7. CASE x \notin T
  BY <1>1, <1>2, <1>5, <1>7
<1> QED BY <1>6, <1>7

LEMMA PlacesOfTail ==
  ASSUME NEW S, NEW q \in Seq(S), q # << >>, NEW T
  PROVE  /\ \A i \in PositionsIn(Tail(q), T) : i + 1 \in PositionsIn(q, T) /\ Tail(q)[i] = q[i + 1]
         /\ \A i \in PositionsIn(q, T) : i = 1 \/ (i - 1 \in PositionsIn(Tail(q), T) /\ q[i] = Tail(q)[i - 1])
         /\ 1 \in PositionsIn(q, T) <=> Head(q) \in T
         /\ Cardinality(PositionsIn(Tail(q), T)) =
              Cardinality(PositionsIn(q, T)) - (IF Head(q) \in T THEN 1 ELSE 0)
<1> DEFINE P == PositionsIn(q, T)
           R == PositionsIn(Tail(q), T)
<1>0. /\ Len(q) \in Nat \ {0} /\ Head(q) = q[1]
      /\ Tail(q) \in Seq(S) /\ Len(Tail(q)) = Len(q) - 1
      /\ \A i \in 1..Len(q) - 1 : Tail(q)[i] = q[i + 1]
  BY HeadTailProperties, EmptySeq
<1>1. \A i \in R : i + 1 \in P /\ i + 1 # 1 /\ Tail(q)[i] = q[i + 1]
  BY <1>0 DEF PositionsIn
<1>2. \A i \in P : i # 1 => i - 1 \in R /\ q[i] = Tail(q)[i - 1]
  <2> TAKE i \in P
  <2> HAVE i # 1
  <2>1. i \in 1..Len(q) /\ q[i] \in T
    BY DEF PositionsIn
  <2>2. i - 1 \in 1..Len(q) - 1 /\ Tail(q)[i - 1] = q[i]
    BY <1>0, <2>1
  <2> QED BY <1>0, <2>1, <2>2 DEF PositionsIn
<1>3. 1 \in P <=> Head(q) \in T
  BY <1>0 DEF PositionsIn
<1>4. IsFiniteSet(P) /\ Cardinality(P) \in Nat /\ IsFiniteSet(R)
  BY <1>0, PlacesFinite, Zenon
<1>8. P \subseteq Int /\ R \subseteq Int
  BY <1>0 DEF PositionsIn
<1> HIDE DEF P, R
<1>5. Cardinality(P \ {1}) = Cardinality(R)
  <2> DEFINE f == [i \in R |-> i + 1]
  <2>1. f \in [R -> P \ {1}]
    BY <1>1
  <2>2. \A i, j \in R : f[i] = f[j] => i = j
    BY <1>8
  <2>3. \A k \in P \ {1} : \E i \in R : f[i] = k
    <3> TAKE k \in P \ {1}
    <3>1. k - 1 \in R /\ f[k - 1] = k
      BY <1>2, <1>8
    <3> QED BY <3>1
  <2> HIDE DEF f
  <2>4. f \in Bijection(R, P \ {1})
    BY <2>1, <2>2, <2>3 DEF Bijection, Injection, Surjection, IsInjective
  <2> QED BY <1>4, <2>4, FS_Bijection DEF ExistsBijection
<1>6. Cardinality(P \ {1}) = IF 1 \in P THEN Cardinality(P) - 1 ELSE Cardinality(P)
  BY <1>4, FS_RemoveElement
<1>7. \A i \in P : i = 1 \/ (i - 1 \in R /\ q[i] = Tail(q)[i - 1])
  BY <1>2
<1>9. Cardinality(R) = Cardinality(P) - (IF Head(q) \in T THEN 1 ELSE 0)
  BY <1>3, <1>4, <1>5, <1>6
<1> QED BY <1>1, <1>3, <1>7, <1>9, Zenon DEF P, R

-----------------------------------------------------------------------------
(* Sorted lists.                                                            *)

StrictOrder(R, E) ==
  /\ \A x \in E : <<x, x>> \notin R
  /\ \A x, y, z \in E : <<x, y>> \in R /\ <<y, z>> \in R => <<x, z>> \in R
  /\ \A x, y \in E : x # y => <<x, y>> \in R \/ <<y, x>> \in R

InOrderOf(R, s) == \A i, j \in 1..Len(s) : i < j => <<s[i], s[j]>> \in R

\* Where one of two sorted lists of the same elements differs from the other, it
\* has the lesser element.
LEMMA SortedDiffers ==
  ASSUME NEW E, NEW R, StrictOrder(R, E), NEW s \in Seq(E), NEW t \in Seq(E),
         InOrderOf(R, s), InOrderOf(R, t), \A x : Linked(s, x) => Linked(t, x),
         NEW k \in 1..Len(s), k <= Len(t) => s[k] # t[k],
         \A i \in 1..k - 1 : i <= Len(t) => s[i] = t[i]
  PROVE  k <= Len(t) /\ <<t[k], s[k]>> \in R
<1>0. /\ Len(s) \in Nat /\ Len(t) \in Nat /\ k \in Nat /\ 1 <= k /\ k <= Len(s)
      /\ \A i \in 1..Len(s) : s[i] \in E
      /\ \A i \in 1..Len(t) : t[i] \in E
  BY LenProperties, ElementOfSeq
<1>1. Linked(s, s[k])
  BY <1>0 DEF Linked
<1>2. PICK j \in 1..Len(t) : t[j] = s[k]
  BY <1>1 DEF Linked
<1>3. ~(j < k)
  <2> SUFFICES ASSUME j < k PROVE FALSE
    OBVIOUS
  <2>1. j \in 1..k - 1 /\ j \in 1..Len(s) /\ s[j] = t[j]
    BY <1>0, <1>2
  <2>2. <<s[j], s[k]>> \in R /\ s[j] = s[k] /\ s[k] \in E
    BY <1>0, <1>2, <2>1 DEF InOrderOf
  <2> QED BY <2>2 DEF StrictOrder
<1>4. j # k
  BY <1>0, <1>2
<1>5. k < j /\ k \in 1..Len(t)
  BY <1>0, <1>2, <1>3, <1>4
<1> QED BY <1>0, <1>2, <1>5 DEF InOrderOf

\* There is one sorted list of a set.
LEMMA SortedUnique ==
  ASSUME NEW E, NEW R, StrictOrder(R, E), NEW s \in Seq(E), NEW t \in Seq(E),
         InOrderOf(R, s), InOrderOf(R, t), \A x : Linked(s, x) <=> Linked(t, x)
  PROVE  s = t
<1>0. /\ Len(s) \in Nat /\ Len(t) \in Nat
      /\ \A i \in 1..Len(s) : s[i] \in E
      /\ \A i \in 1..Len(t) : t[i] \in E
  BY LenProperties, ElementOfSeq
<1> DEFINE D == {k \in Nat \ {0} : \/ k <= Len(s) /\ (k <= Len(t) => s[k] # t[k])
                                   \/ k <= Len(t) /\ (k <= Len(s) => s[k] # t[k])}
<1>1. D = {}
  <2> SUFFICES ASSUME D # {} PROVE FALSE
    OBVIOUS
  <2>1. PICK k \in D : \A n \in D : k <= n
    <3>1. D \in SUBSET Nat
      OBVIOUS
    <3> HIDE DEF D
    <3> QED BY <3>1, LeastNat
  <2>2. /\ k \in Nat /\ 1 <= k
        /\ \/ k <= Len(s) /\ (k <= Len(t) => s[k] # t[k])
           \/ k <= Len(t) /\ (k <= Len(s) => s[k] # t[k])
    BY <2>1
  <2>3. \A i \in 1..k - 1 : i \notin D /\ i \in Nat \ {0}
    <3> HIDE DEF D
    <3> QED BY <2>1, <2>2
  <2>4. \A i \in 1..k - 1 : (i <= Len(s) <=> i <= Len(t)) /\ (i <= Len(s) => s[i] = t[i])
    BY <1>0, <2>3
  <2>5. /\ k \in 1..Len(s) /\ (k <= Len(t) => s[k] # t[k]) => k <= Len(t) /\ <<t[k], s[k]>> \in R
        /\ k \in 1..Len(t) /\ (k <= Len(s) => t[k] # s[k]) => k <= Len(s) /\ <<s[k], t[k]>> \in R
    <3>1. \A i \in 1..k - 1 : i <= Len(t) => s[i] = t[i]
      BY <2>4
    <3>2. \A i \in 1..k - 1 : i <= Len(s) => t[i] = s[i]
      BY <2>4
    <3> HIDE DEF D
    <3>3. ASSUME k \in 1..Len(s), k <= Len(t) => s[k] # t[k] PROVE k <= Len(t) /\ <<t[k], s[k]>> \in R
      BY <3>1, <3>3, SortedDiffers
    <3>4. ASSUME k \in 1..Len(t), k <= Len(s) => t[k] # s[k] PROVE k <= Len(s) /\ <<s[k], t[k]>> \in R
      BY <3>2, <3>4, SortedDiffers
    <3> QED BY <3>3, <3>4
  <2>6. k <= Len(s) /\ k <= Len(t) /\ <<t[k], s[k]>> \in R /\ <<s[k], t[k]>> \in R
    <3> HIDE DEF D
    <3> QED BY <1>0, <2>2, <2>5
  <2>7. s[k] \in E /\ t[k] \in E
    BY <1>0, <2>2, <2>6
  <2> QED BY <2>6, <2>7 DEF StrictOrder
<1>2. ASSUME NEW k \in Nat \ {0} PROVE k \notin D
  BY <1>1
<1>3. Len(s) = Len(t)
  <2>1. CASE Len(s) < Len(t)
    <3>1. Len(s) + 1 \in Nat \ {0} /\ Len(s) + 1 <= Len(t) /\ ~(Len(s) + 1 <= Len(s))
      BY <1>0, <2>1
    <3>2. Len(s) + 1 \in D
      BY <3>1
    <3> QED BY <1>1, <3>2
  <2>2. CASE Len(t) < Len(s)
    <3>1. Len(t) + 1 \in Nat \ {0} /\ Len(t) + 1 <= Len(s) /\ ~(Len(t) + 1 <= Len(t))
      BY <1>0, <2>2
    <3>2. Len(t) + 1 \in D
      BY <3>1
    <3> QED BY <1>1, <3>2
  <2> QED BY <1>0, <2>1, <2>2
<1>4. ASSUME NEW i \in 1..Len(s) PROVE s[i] = t[i]
  <2>1. i \in Nat \ {0} /\ i <= Len(s) /\ i <= Len(t)
    BY <1>0, <1>3
  <2> QED BY <1>2, <2>1
<1> HIDE DEF D
<1> QED BY <1>3, <1>4, SeqEqual

\* A list of as many elements as the set has, in order, lists the set.
LEMMA SortedCovers ==
  ASSUME NEW E, IsFiniteSet(E), NEW R, StrictOrder(R, E),
         NEW s \in [1..Cardinality(E) -> E],
         \A i, j \in 1..Cardinality(E) : i < j => <<s[i], s[j]>> \in R
  PROVE  /\ s \in Seq(E) /\ Len(s) = Cardinality(E) /\ InOrderOf(R, s)
         /\ \A x : Linked(s, x) <=> x \in E
<1> DEFINE n == Cardinality(E)
<1>0. n \in Nat
  BY FS_CardinalityType
<1>1. s \in Seq(E) /\ Len(s) = n
  <2> HIDE DEF n
  <2>1. s \in [1..n -> E]
    BY DEF n
  <2>2. s \in Seq(E)
    BY <1>0, <2>1, SeqDef
  <2>3. DOMAIN s = 1..n /\ DOMAIN s = 1..Len(s) /\ Len(s) \in Nat
    BY <2>1, <2>2, LenProperties
  <2>4. Len(s) = n
    BY <1>0, <2>3
  <2> QED BY <2>2, <2>4
<1>2. s \in Injection(1..n, E)
  <2>1. ASSUME NEW i \in 1..n, NEW j \in 1..n, i < j, s[i] = s[j] PROVE FALSE
    <3>1. <<s[i], s[i]>> \in R /\ s[i] \in E
      BY <2>1
    <3> QED BY <3>1 DEF StrictOrder
  <2>2. ASSUME NEW i \in 1..n, NEW j \in 1..n, s[i] = s[j] PROVE i = j
    <3>1. i < j \/ j < i \/ i = j
      BY <1>0
    <3> QED BY <2>1, <2>2, <3>1
  <2> QED BY <2>2 DEF Injection, IsInjective
<1>3. Cardinality(1..n) = n
  BY <1>0, FS_Interval
<1>4. s \in Surjection(1..n, E)
  BY <1>2, <1>3, FS_Injection
<1>5. \A x \in E : \E i \in 1..n : s[i] = x
  BY <1>4 DEF Surjection
<1> HIDE DEF n
<1>6. \A x : Linked(s, x) <=> x \in E
  BY <1>1, <1>5, ElementOfSeq DEF Linked
<1>7. InOrderOf(R, s)
  BY <1>1 DEF InOrderOf, n
<1> QED BY <1>1, <1>6, <1>7 DEF n

\* Every finite set can be sorted: an element has its place by the number of those
\* before it.
LEMMA SortedExists ==
  ASSUME NEW E, IsFiniteSet(E), NEW R, StrictOrder(R, E)
  PROVE  \E s \in [1..Cardinality(E) -> E] :
           \A i, j \in 1..Cardinality(E) : i < j => <<s[i], s[j]>> \in R
<1> DEFINE n == Cardinality(E)
           Before(x) == {y \in E : <<y, x>> \in R}
           rank == [x \in E |-> Cardinality(Before(x)) + 1]
<1>0. n \in Nat
  BY FS_CardinalityType
<1>1. \A x \in E : IsFiniteSet(Before(x)) /\ Cardinality(Before(x)) \in Nat
  <2> SUFFICES ASSUME NEW x \in E PROVE IsFiniteSet(Before(x)) /\ Cardinality(Before(x)) \in Nat
    OBVIOUS
  <2>1. Before(x) \in SUBSET E
    OBVIOUS
  <2> HIDE DEF Before
  <2>2. IsFiniteSet(Before(x))
    BY <2>1, FS_Subset
  <2> QED BY <2>2, FS_CardinalityType
<1>2. ASSUME NEW x \in E PROVE rank[x] \in 1..n
  <2>1. IsFiniteSet(E \ {x}) /\ Cardinality(E \ {x}) = n - 1
    BY FS_RemoveElement
  <2>2. Before(x) \in SUBSET (E \ {x})
    BY DEF StrictOrder
  <2> HIDE DEF Before, n
  <2>3. Cardinality(Before(x)) <= Cardinality(E \ {x})
    BY <2>1, <2>2, FS_Subset
  <2> QED BY <1>0, <1>1, <2>1, <2>3
<1>3. ASSUME NEW x \in E, NEW y \in E, <<x, y>> \in R PROVE rank[x] < rank[y]
  <2>1. Before(x) \in SUBSET Before(y) /\ Before(x) # Before(y)
    <3>1. Before(x) \in SUBSET Before(y)
      BY <1>3 DEF StrictOrder
    <3>2. x \in Before(y) /\ x \notin Before(x)
      BY <1>3 DEF StrictOrder
    <3> QED BY <3>1, <3>2
  <2> HIDE DEF Before
  <2>2. Cardinality(Before(x)) <= Cardinality(Before(y)) /\ Cardinality(Before(x)) # Cardinality(Before(y))
    BY <1>1, <2>1, FS_Subset
  <2> QED BY <1>1, <2>2
<1>4. rank \in Injection(E, 1..n)
  <2>1. rank \in [E -> 1..n]
    BY <1>2
  <2>2. ASSUME NEW x \in E, NEW y \in E, rank[x] = rank[y] PROVE x = y
    <3>1. rank[x] \in Nat /\ rank[y] \in Nat
      BY <1>2
    <3>2. \A v, w \in E : <<v, w>> \in R => rank[v] < rank[w]
      BY <1>3
    <3> HIDE DEF rank
    <3>3. <<x, y>> \notin R /\ <<y, x>> \notin R
      BY <2>2, <3>1, <3>2
    <3> QED BY <3>3 DEF StrictOrder
  <2> HIDE DEF rank, n
  <2> QED BY <2>1, <2>2 DEF Injection, IsInjective
<1>5. rank \in Surjection(E, 1..n)
  <2>1. IsFiniteSet(1..n) /\ Cardinality(1..n) = n
    BY <1>0, FS_Interval
  <2> HIDE DEF rank
  <2> QED BY <1>4, <2>1, FS_Injection
<1> DEFINE s == [i \in 1..n |-> CHOOSE x \in E : rank[x] = i]
<1>6. ASSUME NEW i \in 1..n PROVE s[i] \in E /\ rank[s[i]] = i
  <2> HIDE DEF rank, n
  <2>1. \E x \in E : rank[x] = i
    BY <1>5 DEF Surjection
  <2> QED BY <2>1
<1>7. ASSUME NEW i \in 1..n, NEW j \in 1..n, i < j PROVE <<s[i], s[j]>> \in R
  <2>1. /\ s[i] \in E /\ s[j] \in E /\ rank[s[i]] = i /\ rank[s[j]] = j
    BY <1>6
  <2> HIDE DEF s, rank, n
  <2>2. i \in Nat /\ j \in Nat /\ s[i] # s[j]
    BY <1>0, <1>7, <2>1
  <2>3. <<s[j], s[i]>> \notin R
    BY <1>3, <1>7, <2>1, <2>2
  <2> QED BY <2>1, <2>2, <2>3 DEF StrictOrder
<1>8. s \in [1..n -> E]
  BY <1>6
<1> HIDE DEF s
<1> QED BY <1>7, <1>8

\* A node that is unlinked and put where it was.
LEMMA InsertUnlinked ==
  ASSUME NEW E, NEW s \in Seq(E), NEW n, Linked(s, n)
  PROVE  InsertAt(Unlink(s, n), Position(s, n), n) = s
<1> DEFINE u == Unlink(s, n)
           k == Position(s, n)
           a == SubSeq(u, 1, k - 1)
           b == SubSeq(u, k, Len(u))
           c == a \o <<n>>
<1>0. Len(s) \in Nat /\ (\A i \in 1..Len(s) : s[i] \in E) /\ u \in Seq(E)
  BY LenProperties, ElementOfSeq, UnlinkType
<1>1. /\ k \in 1..Len(s) /\ s[k] = n /\ Len(u) = Len(s) - 1
      /\ \A i \in 1..Len(s) - 1 : u[i] = IF i < k THEN s[i] ELSE s[i + 1]
  BY UnlinkElements
<1>2. InsertAt(u, k, n) = c \o b
  BY DEF InsertAt
<1> HIDE DEF u, k
<1>3. a \in Seq(E) /\ Len(a) = k - 1 /\ \A i \in 1..k - 1 : a[i] = s[i]
  <2>1. 1 \in 1..Len(u) + 1 /\ k - 1 \in 0..Len(u)
    BY <1>0, <1>1
  <2>2. a \in Seq(E) /\ Len(a) = k - 1 /\ \A i \in 1..k - 1 : a[i] = u[1 + i - 1]
    BY <1>0, <1>1, <2>1, SubSeqProperties
  <2> HIDE DEF a
  <2>3. \A i \in 1..k - 1 : 1 + i - 1 = i /\ i \in 1..Len(s) - 1 /\ u[i] = s[i]
    BY <1>0, <1>1
  <2> QED BY <2>2, <2>3
<1>4. b \in Seq(E) /\ Len(b) = Len(s) - k /\ \A i \in 1..Len(s) - k : b[i] = s[k + i]
  <2>1. k \in 1..Len(u) + 1 /\ Len(u) \in 0..Len(u)
    BY <1>0, <1>1
  <2>2. b \in Seq(E) /\ Len(b) = Len(u) - k + 1 /\ \A i \in 1..Len(u) - k + 1 : b[i] = u[k + i - 1]
    BY <1>0, <1>1, <2>1, SubSeqProperties
  <2> HIDE DEF b
  <2>3. \A i \in 1..Len(s) - k : k + i - 1 \in 1..Len(s) - 1 /\ u[k + i - 1] = s[k + i]
    BY <1>0, <1>1
  <2> QED BY <1>0, <1>1, <2>2, <2>3
<1> HIDE DEF a, b
<1>5. c \in Seq(E) /\ Len(c) = k /\ c[k] = n /\ \A i \in 1..k - 1 : c[i] = s[i]
  <2>1. n \in E /\ <<n>> \in Seq(E) /\ Len(<<n>>) = 1 /\ <<n>>[1] = n
    BY <1>0, <1>1
  <2>2. /\ c \in Seq(E) /\ Len(c) = Len(a) + Len(<<n>>)
        /\ \A i \in 1..Len(a) + Len(<<n>>) : c[i] = IF i <= Len(a) THEN a[i] ELSE <<n>>[i - Len(a)]
    BY <1>3, <2>1, ConcatProperties
  <2> HIDE DEF c
  <2> QED BY <1>0, <1>1, <1>3, <2>1, <2>2
<1> HIDE DEF c
<1>6. /\ c \o b \in Seq(E) /\ Len(c \o b) = Len(s)
      /\ \A i \in 1..Len(s) : (c \o b)[i] = IF i <= k THEN c[i] ELSE b[i - k]
  BY <1>0, <1>1, <1>4, <1>5, ConcatProperties
<1> DEFINE d == c \o b
<1> HIDE DEF d
<1>7. ASSUME NEW i \in 1..Len(s) PROVE d[i] = s[i]
  <2>1. CASE i < k
    BY <1>0, <1>1, <1>5, <1>6, <2>1 DEF d
  <2>2. CASE i = k
    BY <1>0, <1>1, <1>5, <1>6, <2>2 DEF d
  <2>3. CASE i > k
    BY <1>0, <1>1, <1>4, <1>6, <2>3 DEF d
  <2> QED BY <1>0, <1>1, <2>1, <2>2, <2>3
<1>8. d = s
  BY <1>6, <1>7, SeqEqual DEF d
<1> QED BY <1>2, <1>8 DEF d, u, k

\* A sorted list without one of its elements is sorted.
LEMMA UnlinkSorted ==
  ASSUME NEW E, NEW R, StrictOrder(R, E), NEW s \in Seq(E), InOrderOf(R, s), NEW n
  PROVE  /\ Distinct(s) /\ Unlink(s, n) \in Seq(E) /\ InOrderOf(R, Unlink(s, n))
         /\ \A u : Linked(Unlink(s, n), u) <=> Linked(s, u) /\ u # n
<1> DEFINE q == Unlink(s, n)
           k == Position(s, n)
           at_(i) == IF Linked(s, n) /\ i >= k THEN i + 1 ELSE i
<1>0. q \in Seq(E) /\ Len(s) \in Nat /\ \A i \in 1..Len(s) : s[i] \in E
  BY UnlinkType, LenProperties, ElementOfSeq
<1>1. Distinct(s)
  <2>1. ASSUME NEW i \in 1..Len(s), NEW j \in 1..Len(s), s[i] = s[j], i < j PROVE FALSE
    <3>1. <<s[i], s[i]>> \in R
      BY <2>1 DEF InOrderOf
    <3> QED BY <1>0, <3>1 DEF StrictOrder
  <2>2. ASSUME NEW i \in 1..Len(s), NEW j \in 1..Len(s), s[i] = s[j] PROVE i = j
    <3>1. i < j \/ j < i \/ i = j
      BY <1>0
    <3> QED BY <2>1, <2>2, <3>1
  <2> QED BY <2>2 DEF Distinct
<1>2. \A u : Linked(q, u) <=> Linked(s, u) /\ u # n
  BY <1>0, <1>1, UnlinkDistinct
<1>3. \A i \in 1..Len(q) : at_(i) \in 1..Len(s) /\ q[i] = s[at_(i)]
  <2>1. CASE Linked(s, n)
    <3>1. /\ k \in 1..Len(s) /\ Len(q) = Len(s) - 1
          /\ \A i \in 1..Len(s) - 1 : q[i] = IF i < k THEN s[i] ELSE s[i + 1]
      BY <1>0, <2>1, UnlinkElements
    <3> HIDE DEF q, k
    <3> QED BY <1>0, <2>1, <3>1
  <2>2. CASE ~Linked(s, n)
    <3>1. q = s
      BY <2>2 DEF Unlink
    <3> HIDE DEF q
    <3> QED BY <2>2, <3>1
  <2> QED BY <2>1, <2>2
<1>4. \A i, j \in 1..Len(q) : i < j => at_(i) < at_(j)
  <2>1. Len(q) \in Nat /\ (Linked(s, n) => k \in 1..Len(s))
    BY <1>0, LenProperties, UnlinkElements
  <2> HIDE DEF q, k
  <2> QED BY <1>0, <2>1
<1> HIDE DEF q, at_
<1>5. ASSUME NEW i \in 1..Len(q), NEW j \in 1..Len(q), i < j PROVE <<q[i], q[j]>> \in R
  BY <1>3, <1>4, <1>5 DEF InOrderOf
<1> QED BY <1>0, <1>1, <1>2, <1>5 DEF InOrderOf, q

-----------------------------------------------------------------------------
(* What moves from the front of a list to the end of another.               *)

\* The first of a list becomes the last of the one before it.
LEMMA HeadMovesOver ==
  ASSUME NEW S, NEW a \in Seq(S), NEW b \in Seq(S), b # <<>>
  PROVE  /\ Append(a, Head(b)) \o Tail(b) = a \o b
         /\ Append(a, Head(b)) \in Seq(S) /\ Tail(b) \in Seq(S) /\ Len(Tail(b)) = Len(b) - 1
<1> DEFINE h == Head(b)
           t == Tail(b)
           c == Append(a, h)
           d == c \o t
           e == a \o b
<1>1. /\ h \in S /\ t \in Seq(S) /\ Len(b) \in Nat \ {0} /\ Len(t) = Len(b) - 1 /\ h = b[1]
      /\ \A i \in 1..Len(b) - 1 : t[i] = b[i + 1]
  BY HeadTailProperties, EmptySeq
<1> HIDE DEF h, t
<1>2. /\ c \in Seq(S) /\ Len(a) \in Nat /\ Len(c) = Len(a) + 1 /\ c[Len(a) + 1] = h
      /\ \A i \in 1..Len(a) : c[i] = a[i]
  BY <1>1, AppendProperties, LenProperties
<1> HIDE DEF c
<1>3. /\ d \in Seq(S) /\ Len(d) = Len(c) + Len(t)
      /\ \A i \in 1..Len(c) + Len(t) : d[i] = IF i <= Len(c) THEN c[i] ELSE t[i - Len(c)]
  BY <1>1, <1>2, ConcatProperties
<1>4. /\ e \in Seq(S) /\ Len(e) = Len(a) + Len(b)
      /\ \A i \in 1..Len(a) + Len(b) : e[i] = IF i <= Len(a) THEN a[i] ELSE b[i - Len(a)]
  BY ConcatProperties
<1> HIDE DEF d, e
<1>5. Len(d) = Len(e)
  BY <1>1, <1>2, <1>3, <1>4
<1>6. ASSUME NEW i \in 1..Len(d) PROVE d[i] = e[i]
  <2>1. i \in 1..Len(c) + Len(t) /\ i \in 1..Len(a) + Len(b) /\ i \in Nat
    BY <1>1, <1>2, <1>3
  <2>2. CASE i <= Len(a)
    BY SMTT(30), <1>2, <1>3, <1>4, <2>1, <2>2
  <2>3. CASE i = Len(a) + 1
    <3>1. i - Len(a) = 1 /\ ~(i <= Len(a)) /\ i <= Len(c)
      BY <1>2, <2>3
    <3> QED BY <1>1, <1>2, <1>3, <1>4, <2>1, <2>3, <3>1
  <2>4. CASE i > Len(a) + 1
    <3>1. /\ ~(i <= Len(c)) /\ ~(i <= Len(a)) /\ i - Len(c) \in 1..Len(b) - 1
          /\ (i - Len(c)) + 1 = i - Len(a)
      BY <1>1, <1>2, <2>1, <2>4
    <3> QED BY <1>1, <1>3, <1>4, <2>1, <3>1
  <2> QED BY <1>2, <2>1, <2>2, <2>3, <2>4
<1>7. d = e
  BY <1>3, <1>4, <1>5, <1>6, SeqEqual
<1> QED BY <1>1, <1>2, <1>7 DEF c, d, e, h, t

\* The first k of a list, and what is left of it.
LEMMA FirstOfList ==
  ASSUME NEW S, NEW b \in Seq(S), NEW k \in 0..Len(b)
  PROVE  /\ SubSeq(b, 1, k) \in Seq(S) /\ Len(SubSeq(b, 1, k)) = k
         /\ \A i \in 1..k : SubSeq(b, 1, k)[i] = b[i]
         /\ SubSeq(b, k + 1, Len(b)) \in Seq(S) /\ Len(SubSeq(b, k + 1, Len(b))) = Len(b) - k
         /\ SubSeq(b, 1, k) \o SubSeq(b, k + 1, Len(b)) = b
<1>1. Len(b) \in Nat /\ k \in Nat /\ k <= Len(b) /\ \A i \in 1..Len(b) : b[i] \in S
  BY LenProperties, ElementOfSeq
<1>2. SubSeq(b, 1, k) \in Seq(S) /\ Len(SubSeq(b, 1, k)) = k /\ \A i \in 1..k : SubSeq(b, 1, k)[i] = b[i]
  BY <1>1, SubSeqProperties
<1>3. SubSeq(b, k + 1, Len(b)) \in Seq(S) /\ Len(SubSeq(b, k + 1, Len(b))) = Len(b) - k
  BY <1>1, SubSeqProperties
<1>4. SubSeq(b, 1, k) \o SubSeq(b, k + 1, Len(b)) = b
  <2>1. SubSeq(b, 1, k) \o SubSeq(b, k + 1, Len(b)) = SubSeq(b, 1, Len(b))
    <3>1. 1 \in 1..Len(b) + 1 /\ k \in (1 - 1)..Len(b) /\ Len(b) \in k..Len(b)
      BY <1>1
    <3> QED BY <3>1, ConcatAdjacentSubSeq
  <2> QED BY <2>1, SubSeqFull
<1> QED BY <1>2, <1>3, <1>4

\* They move to the end of another list: nothing is reordered or lost.
LEMMA FirstMoveKeepsOrder ==
  ASSUME NEW S, NEW a \in Seq(S), NEW b \in Seq(S), NEW k \in 0..Len(b)
  PROVE  (a \o SubSeq(b, 1, k)) \o SubSeq(b, k + 1, Len(b)) = a \o b
<1> DEFINE f == SubSeq(b, 1, k)
           d == SubSeq(b, k + 1, Len(b))
<1>1. a \in Seq(S) /\ f \in Seq(S) /\ d \in Seq(S) /\ f \o d = b
  BY FirstOfList
<1> HIDE DEF f, d
<1>2. (a \o f) \o d = a \o (f \o d)
  <2>1. a \in Seq(S) /\ f \in Seq(S) /\ d \in Seq(S)
    BY <1>1
  <2> QED BY ONLY SMTT(30), <2>1, ConcatAssociative
<1> QED BY <1>1, <1>2 DEF f, d

LEMMA FirstMoveLengths ==
  ASSUME NEW S, NEW a \in Seq(S), NEW b \in Seq(S), NEW k \in 0..Len(b)
  PROVE  /\ a \o SubSeq(b, 1, k) \in Seq(S) /\ SubSeq(b, k + 1, Len(b)) \in Seq(S)
         /\ Len(a \o SubSeq(b, 1, k)) = Len(a) + k /\ Len(SubSeq(b, k + 1, Len(b))) = Len(b) - k
<1> DEFINE f == SubSeq(b, 1, k)
<1>1. a \in Seq(S) /\ f \in Seq(S) /\ Len(f) = k
      /\ SubSeq(b, k + 1, Len(b)) \in Seq(S) /\ Len(SubSeq(b, k + 1, Len(b))) = Len(b) - k
  BY FirstOfList
<1> HIDE DEF f
<1>2. a \o f \in Seq(S) /\ Len(a \o f) = Len(a) + Len(f)
  BY ONLY <1>1, ConcatProperties
<1> QED BY <1>1, <1>2 DEF f

LEMMA FirstMoveMembers ==
  ASSUME NEW S, NEW a \in Seq(S), NEW b \in Seq(S), NEW k \in 0..Len(b)
  PROVE  \A n : Linked(a \o SubSeq(b, 1, k), n) => Linked(a, n) \/ \E i \in 1..k : b[i] = n
<1> DEFINE f == SubSeq(b, 1, k)
           c == a \o f
<1>1. /\ a \in Seq(S) /\ f \in Seq(S) /\ Len(f) = k /\ Len(a) \in Nat /\ k \in Nat
      /\ \A i \in 1..k : f[i] = b[i]
  BY FirstOfList, LenProperties
<1> HIDE DEF f
<1>2. /\ Len(c) = Len(a) + Len(f)
      /\ \A i \in 1..Len(a) + Len(f) : c[i] = IF i <= Len(a) THEN a[i] ELSE f[i - Len(a)]
  BY ONLY <1>1, ConcatProperties DEF c
<1> HIDE DEF c
<1>3. ASSUME NEW n, Linked(c, n) PROVE Linked(a, n) \/ \E i \in 1..k : b[i] = n
  <2>1. PICK i \in 1..Len(a) + k : c[i] = n
    BY <1>1, <1>2, <1>3 DEF Linked
  <2>2. CASE i <= Len(a)
    BY <1>1, <1>2, <2>1, <2>2 DEF Linked
  <2>3. CASE ~(i <= Len(a))
    <3>1. i - Len(a) \in 1..k
      BY <1>1, <2>3
    <3>2. b[i - Len(a)] = n
      BY <1>1, <1>2, <2>1, <2>3, <3>1
    <3> QED BY <3>1, <3>2
  <2> QED BY <2>2, <2>3
<1> QED BY <1>3 DEF c, f

-----------------------------------------------------------------------------
(* Lists one behind the other.                                              *)

LEMMA ConcatLinks ==
  ASSUME NEW S, NEW s \in Seq(S), NEW t \in Seq(S)
  PROVE  /\ s \o t \in Seq(S) /\ Len(s \o t) = Len(s) + Len(t)
         /\ \A m : Linked(s \o t, m) <=> Linked(s, m) \/ Linked(t, m)
<1> DEFINE c == s \o t
<1>1. /\ c \in Seq(S) /\ Len(c) = Len(s) + Len(t) /\ Len(s) \in Nat /\ Len(t) \in Nat
      /\ \A i \in 1..Len(s) + Len(t) : c[i] = IF i <= Len(s) THEN s[i] ELSE t[i - Len(s)]
  BY ConcatProperties, LenProperties
<1> HIDE DEF c
<1>2. ASSUME NEW m, Linked(c, m) PROVE Linked(s, m) \/ Linked(t, m)
  <2>1. PICK i \in 1..Len(s) + Len(t) : c[i] = m
    BY <1>1, <1>2 DEF Linked
  <2>2. CASE i <= Len(s)
    BY <1>1, <2>1, <2>2 DEF Linked
  <2>3. CASE ~(i <= Len(s))
    <3>1. i - Len(s) \in 1..Len(t)
      BY <1>1, <2>3
    <3> QED BY <1>1, <2>1, <2>3, <3>1 DEF Linked
  <2> QED BY <2>2, <2>3
<1>3. ASSUME NEW m, Linked(s, m) PROVE Linked(c, m)
  <2>1. PICK i \in 1..Len(s) : s[i] = m
    BY <1>3 DEF Linked
  <2>2. i \in 1..Len(c) /\ c[i] = m
    BY <1>1, <2>1
  <2> QED BY <2>2 DEF Linked
<1>4. ASSUME NEW m, Linked(t, m) PROVE Linked(c, m)
  <2>1. PICK i \in 1..Len(t) : t[i] = m
    BY <1>4 DEF Linked
  <2>2. i + Len(s) \in 1..Len(s) + Len(t) /\ ~(i + Len(s) <= Len(s)) /\ i + Len(s) - Len(s) = i
    BY <1>1
  <2>3. i + Len(s) \in 1..Len(c) /\ c[i + Len(s)] = m
    BY <1>1, <2>1, <2>2
  <2> QED BY <2>3 DEF Linked
<1> QED BY <1>1, <1>2, <1>3, <1>4 DEF c

\* No node is in both of two lists that have no duplicates together.
LEMMA ConcatIsDistinct ==
  ASSUME NEW S, NEW s \in Seq(S), NEW t \in Seq(S), Distinct(s \o t)
  PROVE  Distinct(s) /\ Distinct(t) /\ \A m : Linked(s, m) => ~Linked(t, m)
<1> DEFINE c == s \o t
<1>1. /\ c \in Seq(S) /\ Len(c) = Len(s) + Len(t) /\ Len(s) \in Nat /\ Len(t) \in Nat
      /\ \A i \in 1..Len(s) + Len(t) : c[i] = IF i <= Len(s) THEN s[i] ELSE t[i - Len(s)]
  BY ConcatProperties, LenProperties
<1>2. Distinct(c)
  OBVIOUS
<1> HIDE DEF c
<1>3. \A i \in 1..Len(s) : i \in 1..Len(c) /\ c[i] = s[i]
  BY <1>1
<1>4. \A i \in 1..Len(t) : i + Len(s) \in 1..Len(c) /\ c[i + Len(s)] = t[i]
  <2> SUFFICES ASSUME NEW i \in 1..Len(t) PROVE i + Len(s) \in 1..Len(c) /\ c[i + Len(s)] = t[i]
    OBVIOUS
  <2>1. i + Len(s) \in 1..Len(s) + Len(t) /\ ~(i + Len(s) <= Len(s)) /\ i + Len(s) - Len(s) = i
    BY <1>1
  <2> QED BY <1>1, <2>1
<1>5. Distinct(s)
  BY <1>2, <1>3 DEF Distinct
<1>6. ASSUME NEW i \in 1..Len(t), NEW j \in 1..Len(t), t[i] = t[j] PROVE i = j
  <2>1. i + Len(s) = j + Len(s)
    BY <1>2, <1>4, <1>6 DEF Distinct
  <2> QED BY <1>1, <2>1
<1>7. ASSUME NEW m, Linked(s, m), Linked(t, m) PROVE FALSE
  <2>1. PICK i \in 1..Len(s) : s[i] = m
    BY <1>7 DEF Linked
  <2>2. PICK j \in 1..Len(t) : t[j] = m
    BY <1>7 DEF Linked
  <2>3. i = j + Len(s)
    BY <1>2, <1>3, <1>4, <2>1, <2>2 DEF Distinct
  <2> QED BY <1>1, <2>3
<1> QED BY <1>5, <1>6, <1>7 DEF Distinct

LEMMA EmptyConcat ==
  ASSUME NEW S, NEW s \in Seq(S)
  PROVE  s \o <<>> = s /\ <<>> \o s = s
BY ConcatEmptySeq

\* The members of a list are finitely many.
LEMMA LinkedFinite ==
  ASSUME NEW S, NEW q \in Seq(S)
  PROVE  IsFiniteSet({x \in S : Linked(q, x)})
<1> DEFINE T == {x \in S : Linked(q, x)}
           f == [i \in 1..Len(q) |-> q[i]]
<1>1. Len(q) \in Nat /\ \A i \in 1..Len(q) : q[i] \in S
  BY LenProperties, ElementOfSeq
<1>2. f \in Surjection(1..Len(q), T)
  BY <1>1 DEF Surjection, Linked
<1>3. IsFiniteSet(1..Len(q))
  BY <1>1, FS_Interval
<1> HIDE DEF f, T
<1> QED BY <1>2, <1>3, FS_Surjection DEF T

-----------------------------------------------------------------------------
(* Sums: FoldFunctionOnSet(+, 0, f, S) adds in the order of CHOOSE.  It is  *)
(* the value at S of a function on the subsets of S that is defined by      *)
(* recursion: there is one, and the order is of no consequence.             *)

SumStep(f, s, g) == IF s = {} THEN 0 ELSE LET x == CHOOSE x \in s : TRUE IN f[x] + g[s \ {x}]
Adds(f, g, F) == g \in [F -> Int] /\ \A s \in F : g[s] = SumStep(f, s, g)
SumsBelow(f, S) == CHOOSE g : g = [s \in SUBSET S |-> SumStep(f, s, g)]
SumOf(f, S) == FoldFunctionOnSet(+, 0, f, S)
Numbers(f, S) == IsFiniteSet(S) /\ \A x \in S : f[x] \in Int

LEMMA FoldIsSum == ASSUME NEW f, NEW S PROVE SumOf(f, S) = SumsBelow(f, S)[S]
BY DEF FoldFunctionOnSet, MapThenFoldSet, SumStep, SumsBelow, SumOf

\* A property of the subsets of a finite set that the smaller ones pass on.
LEMMA SubsetInduction ==
  ASSUME NEW S, IsFiniteSet(S), NEW G,
         \A T \in SUBSET S : (\A x \in T : T \ {x} \in G) => T \in G
  PROVE  SUBSET S \subseteq G
<1> DEFINE K == {k \in Nat : \A T \in SUBSET S : Cardinality(T) <= k => T \in G}
<1>1. \A T \in SUBSET S : IsFiniteSet(T) /\ Cardinality(T) \in Nat
  BY FS_Subset, FS_CardinalityType
<1>2. 0 \in K
  <2>1. ASSUME NEW T \in SUBSET S, Cardinality(T) <= 0 PROVE T \in G
    <3>1. T = {}
      BY <1>1, <2>1, FS_EmptySet
    <3> QED BY <3>1
  <2> QED BY <2>1
<1>3. ASSUME NEW k \in Nat, k \in K PROVE k + 1 \in K
  <2>1. ASSUME NEW T \in SUBSET S, Cardinality(T) <= k + 1 PROVE T \in G
    <3>1. ASSUME NEW x \in T PROVE T \ {x} \in G
      <4>1. Cardinality(T \ {x}) = Cardinality(T) - 1
        BY <1>1, FS_RemoveElement
      <4>2. T \ {x} \in SUBSET S /\ Cardinality(T \ {x}) <= k
        BY <1>1, <2>1, <4>1
      <4> QED BY <1>3, <4>2
    <3> QED BY <3>1
  <2> QED BY <2>1
<1> HIDE DEF K
<1>4. Nat \subseteq K
  BY <1>2, <1>3, SetInduction
<1>5. ASSUME NEW T \in SUBSET S PROVE T \in G
  <2>1. Cardinality(T) \in K
    BY <1>1, <1>4
  <2> QED BY <1>1, <2>1 DEF K
<1> QED BY <1>5

\* There is such a function, and any two agree where both are defined.
LEMMA SumsExist ==
  ASSUME NEW f, NEW S, Numbers(f, S)
  PROVE  \E g : Adds(f, g, SUBSET S)
<1> DEFINE Small(k) == {T \in SUBSET S : Cardinality(T) <= k}
           K == {k \in Nat : \E g : Adds(f, g, Small(k))}
<1>1. \A T \in SUBSET S : IsFiniteSet(T) /\ Cardinality(T) \in Nat
  BY FS_Subset, FS_CardinalityType DEF Numbers
<1>2. 0 \in K
  <2>1. Small(0) = {{}}
    BY <1>1, FS_EmptySet
  <2>2. Adds(f, [T \in {{}} |-> 0], {{}})
    BY DEF Adds, SumStep
  <2> QED BY <2>1, <2>2
<1>3. ASSUME NEW k \in Nat, k \in K PROVE k + 1 \in K
  <2>1. PICK g : Adds(f, g, Small(k))
    BY <1>3
  <2> DEFINE h == [T \in Small(k + 1) |-> SumStep(f, T, g)]
  <2>2. ASSUME NEW T \in Small(k + 1), T # {}, NEW x \in T
        PROVE  T \ {x} \in Small(k) /\ T \ {x} \in Small(k + 1)
    <3>1. Cardinality(T \ {x}) = Cardinality(T) - 1 /\ Cardinality(T) \in Nat
      BY <1>1, FS_RemoveElement
    <3> QED BY <3>1
  <2> HIDE DEF Small
  <2>3. ASSUME NEW T \in Small(k) PROVE g[T] \in Int /\ g[T] = SumStep(f, T, g)
    BY <2>1 DEF Adds
  <2>4. ASSUME NEW T \in Small(k + 1) PROVE h[T] \in Int /\ h[T] = SumStep(f, T, h)
    <3>1. CASE T = {}
      BY <3>1 DEF SumStep
    <3>2. CASE T # {}
      <4> DEFINE x == CHOOSE x \in T : TRUE
      <4>1. x \in T
        BY <3>2
      <4>2. T \ {x} \in Small(k) /\ T \ {x} \in Small(k + 1) /\ x \in S
        BY <2>2, <3>2, <4>1 DEF Small
      <4>3. f[x] \in Int
        BY <4>2 DEF Numbers
      <4>4. h[T] = f[x] + g[T \ {x}] /\ SumStep(f, T, h) = f[x] + h[T \ {x}]
        BY <3>2 DEF SumStep
      <4>5. h[T \ {x}] = g[T \ {x}] /\ g[T \ {x}] \in Int
        BY <2>3, <4>2
      <4> HIDE DEF h, x
      <4> QED BY <4>3, <4>4, <4>5
    <3> QED BY <3>1, <3>2
  <2>5. Adds(f, h, Small(k + 1))
    <3>1. h \in [Small(k + 1) -> Int]
      BY <2>4
    <3> HIDE DEF h
    <3> QED BY <2>4, <3>1 DEF Adds
  <2> HIDE DEF h
  <2> QED BY <2>5
<1> HIDE DEF K
<1>4. Nat \subseteq K
  BY <1>2, <1>3, SetInduction
<1>5. Cardinality(S) \in Nat /\ Small(Cardinality(S)) = SUBSET S
  BY <1>1, FS_Subset DEF Numbers
<1> HIDE DEF Small
<1> QED BY <1>4, <1>5 DEF K

LEMMA SumsBelowAdds ==
  ASSUME NEW f, NEW S, Numbers(f, S)
  PROVE  Adds(f, SumsBelow(f, S), SUBSET S)
<1>1. PICK g : Adds(f, g, SUBSET S)
  BY SumsExist
<1>2. g = [s \in SUBSET S |-> SumStep(f, s, g)]
  BY <1>1 DEF Adds
<1> DEFINE b == SumsBelow(f, S)
<1>3. b = [s \in SUBSET S |-> SumStep(f, s, b)]
  BY <1>2 DEF SumsBelow
<1> HIDE DEF b
<1>4. \A s \in SUBSET S : b[s] = SumStep(f, s, b)
  BY <1>3
<1> DEFINE G == {s \in SUBSET S : b[s] \in Int}
<1>5. ASSUME NEW T \in SUBSET S, \A x \in T : T \ {x} \in G PROVE T \in G
  <2>1. CASE T = {}
    <3>1. b[T] = SumStep(f, T, b)
      BY <1>4
    <3> QED BY <2>1, <3>1 DEF SumStep
  <2>2. CASE T # {}
    <3> DEFINE x == CHOOSE x \in T : TRUE
    <3>1. x \in T /\ f[x] \in Int
      BY <2>2 DEF Numbers
    <3>2. b[T] = f[x] + b[T \ {x}]
      BY <1>4, <2>2 DEF SumStep
    <3> HIDE DEF x
    <3> QED BY <1>5, <3>1, <3>2
  <2> QED BY <2>1, <2>2
<1>6. SUBSET S \subseteq G
  <2> HIDE DEF G
  <2>1. IsFiniteSet(S)
    BY DEF Numbers
  <2> QED BY <1>5, <2>1, SubsetInduction
<1>7. b \in [SUBSET S -> Int]
  <2>1. \A s \in SUBSET S : b[s] \in Int
    BY <1>6
  <2> QED BY <1>3, <2>1
<1> QED BY <1>4, <1>7 DEF Adds, b

LEMMA SumsAgree ==
  ASSUME NEW S, IsFiniteSet(S), NEW A, S \in SUBSET A,
         NEW f, NEW g, \A x \in S : f[x] = g[x],
         NEW a, Adds(f, a, SUBSET A), NEW b, Adds(g, b, SUBSET S)
  PROVE  a[S] = b[S]
<1> DEFINE G == {T \in SUBSET S : a[T] = b[T]}
<1>1. ASSUME NEW T \in SUBSET S, \A x \in T : T \ {x} \in G PROVE T \in G
  <2>1. T \in SUBSET A /\ T \in SUBSET S /\ a[T] = SumStep(f, T, a) /\ b[T] = SumStep(g, T, b)
    BY DEF Adds
  <2>2. CASE T = {}
    BY <2>1, <2>2 DEF SumStep
  <2>3. CASE T # {}
    <3> DEFINE x == CHOOSE x \in T : TRUE
    <3>1. x \in T /\ f[x] = g[x]
      BY <2>3
    <3>2. a[T] = f[x] + a[T \ {x}] /\ b[T] = g[x] + b[T \ {x}]
      BY <2>1, <2>3 DEF SumStep
    <3> HIDE DEF x
    <3>3. a[T \ {x}] = b[T \ {x}]
      BY <1>1, <3>1
    <3> QED BY <3>1, <3>2, <3>3
  <2> QED BY <2>2, <2>3
<1> HIDE DEF G
<1>2. SUBSET S \subseteq G
  BY <1>1, SubsetInduction
<1> QED BY <1>2 DEF G

\* Any member may be taken out first.
LEMMA SumTakesOut ==
  ASSUME NEW f, NEW S, Numbers(f, S), NEW y \in S
  PROVE  SumOf(f, S) \in Int /\ SumOf(f, S) = f[y] + SumOf(f, S \ {y})
<1> DEFINE b == SumsBelow(f, S)
           G == {T \in SUBSET S : \A z \in T : b[T] = f[z] + b[T \ {z}]}
<1>1. b \in [SUBSET S -> Int] /\ \A T \in SUBSET S : b[T] = SumStep(f, T, b)
  BY SumsBelowAdds DEF Adds
<1>2. SumOf(f, S) = b[S]
  BY FoldIsSum
<1> HIDE DEF b
<1>3. ASSUME NEW T \in SUBSET S, \A x \in T : T \ {x} \in G PROVE T \in G
  <2> SUFFICES ASSUME NEW z \in T PROVE b[T] = f[z] + b[T \ {z}]
    OBVIOUS
  <2> DEFINE x == CHOOSE x \in T : TRUE
  <2>1. x \in T /\ b[T] = f[x] + b[T \ {x}]
    BY <1>1 DEF SumStep
  <2> HIDE DEF x
  <2>2. CASE x = z
    BY <2>1, <2>2
  <2>3. CASE x # z
    <3>1. b[T \ {x}] = f[z] + b[(T \ {x}) \ {z}]
      BY <1>3, <2>1, <2>3
    <3>2. b[T \ {z}] = f[x] + b[(T \ {z}) \ {x}]
      BY <1>3, <2>1, <2>3
    <3>3. (T \ {x}) \ {z} = (T \ {z}) \ {x}
      OBVIOUS
    <3>4. f[x] \in Int /\ f[z] \in Int /\ b[(T \ {z}) \ {x}] \in Int
      BY <1>1, <2>1 DEF Numbers
    <3>5. b[T] = f[x] + (f[z] + b[(T \ {z}) \ {x}])
      BY <2>1, <3>1, <3>3
    <3> HIDE DEF G
    <3> QED BY <3>2, <3>4, <3>5
  <2> QED BY <2>2, <2>3
<1>4. IsFiniteSet(S)
  BY DEF Numbers
<1>5. SUBSET S \subseteq G
  <2> HIDE DEF G
  <2> QED BY <1>3, <1>4, SubsetInduction
<1>6. b[S] = f[y] + b[S \ {y}]
  BY <1>5
<1>7. SumOf(f, S \ {y}) = b[S \ {y}]
  <2>1. Numbers(f, S \ {y})
    BY FS_Subset DEF Numbers
  <2>2. Adds(f, SumsBelow(f, S \ {y}), SUBSET (S \ {y})) /\ Adds(f, b, SUBSET S)
    BY <2>1, SumsBelowAdds DEF b
  <2>3. SumsBelow(f, S \ {y})[S \ {y}] = b[S \ {y}]
    <3> DEFINE c == SumsBelow(f, S \ {y})
               W == S \ {y}
    <3>1. Adds(f, c, SUBSET W) /\ IsFiniteSet(W) /\ W \in SUBSET S
      BY <2>1, <2>2 DEF Numbers
    <3>2. ASSUME NEW g, g = f PROVE b[W] = c[W]
      <4> HIDE DEF c, W, G
      <4>1. Adds(f, b, SUBSET S) /\ Adds(g, c, SUBSET W) /\ \A x \in W : f[x] = g[x]
        BY <2>2, <3>1, <3>2
      <4> QED BY ONLY SMTT(30), <3>1, <4>1, SumsAgree
    <3> QED BY <3>2
  <2> QED BY <2>3, FoldIsSum
<1> QED BY <1>1, <1>2, <1>6, <1>7

\* The sum of nothing, of one more, and of other numbers that are the same.
LEMMA SumOfNothing == \A f : SumOf(f, {}) = 0
<1> SUFFICES ASSUME NEW f PROVE SumOf(f, {}) = 0
  OBVIOUS
<1>1. Numbers(f, {})
  BY FS_EmptySet DEF Numbers
<1> DEFINE b == SumsBelow(f, {})
<1>2. Adds(f, b, SUBSET {}) /\ SumOf(f, {}) = b[{}]
  BY <1>1, FoldIsSum, SumsBelowAdds
<1> HIDE DEF b
<1> QED BY <1>2 DEF Adds, SumStep

LEMMA SumType ==
  ASSUME NEW f, NEW S, Numbers(f, S)
  PROVE  SumOf(f, S) \in Int
<1> DEFINE b == SumsBelow(f, S)
<1>1. Adds(f, b, SUBSET S) /\ SumOf(f, S) = b[S]
  BY FoldIsSum, SumsBelowAdds
<1> HIDE DEF b
<1> QED BY <1>1 DEF Adds

LEMMA SumWithOneMore ==
  ASSUME NEW f, NEW S, Numbers(f, S), NEW y, y \notin S, f[y] \in Int
  PROVE  SumOf(f, S \cup {y}) = SumOf(f, S) + f[y]
<1>1. Numbers(f, S \cup {y})
  BY FS_AddElement DEF Numbers
<1>2. (S \cup {y}) \ {y} = S
  OBVIOUS
<1>3. SumOf(f, S \cup {y}) = f[y] + SumOf(f, (S \cup {y}) \ {y})
  BY <1>1, SumTakesOut
<1>4. SumOf(f, S) \in Int
  BY SumType
<1>5. SumOf(f, S \cup {y}) = f[y] + SumOf(f, S)
  BY <1>2, <1>3
<1> QED BY <1>4, <1>5

LEMMA SumIsTheSame ==
  ASSUME NEW f, NEW g, NEW S, Numbers(f, S), \A x \in S : f[x] = g[x]
  PROVE  SumOf(f, S) = SumOf(g, S)
<1>1. Numbers(g, S)
  BY DEF Numbers
<1> DEFINE a == SumsBelow(f, S)
           b == SumsBelow(g, S)
<1>2. Adds(f, a, SUBSET S) /\ Adds(g, b, SUBSET S) /\ SumOf(f, S) = a[S] /\ SumOf(g, S) = b[S]
  BY <1>1, SumsBelowAdds, FoldIsSum
<1>3. IsFiniteSet(S) /\ S \in SUBSET S /\ \A x \in S : f[x] = g[x]
  BY DEF Numbers
<1> HIDE DEF a, b
<1>4. a[S] = b[S]
  BY ONLY <1>2, <1>3, SumsAgree
<1> QED BY <1>2, <1>4

LEMMA SumIsNatural ==
  ASSUME NEW f, NEW S, IsFiniteSet(S), \A x \in S : f[x] \in Nat
  PROVE  SumOf(f, S) \in Nat /\ \A y \in S : f[y] <= SumOf(f, S)
<1> DEFINE G == {T \in SUBSET S : SumOf(f, T) \in Nat}
<1>1. ASSUME NEW T \in SUBSET S, \A x \in T : T \ {x} \in G PROVE T \in G
  <2>1. CASE T = {}
    BY <2>1, SumOfNothing
  <2>2. CASE T # {}
    <3>1. PICK y \in T : TRUE
      BY <2>2
    <3>2. Numbers(f, T)
      BY FS_Subset DEF Numbers
    <3>3. SumOf(f, T) = f[y] + SumOf(f, T \ {y})
      BY <3>2, SumTakesOut
    <3>4. SumOf(f, T \ {y}) \in Nat /\ f[y] \in Nat
      BY <1>1
    <3> QED BY <3>3, <3>4
  <2> QED BY <2>1, <2>2
<1>2. SUBSET S \subseteq G
  <2> HIDE DEF G
  <2> QED BY <1>1, SubsetInduction
<1>3. SumOf(f, S) \in Nat
  BY <1>2
<1>4. ASSUME NEW y \in S PROVE f[y] <= SumOf(f, S)
  <2>1. SumOf(f, S) = f[y] + SumOf(f, S \ {y})
    BY SumTakesOut DEF Numbers
  <2>2. SumOf(f, S \ {y}) \in Nat
    BY <1>2
  <2> QED BY <2>1, <2>2
<1> QED BY <1>3, <1>4

\* One number changes, or one member leaves.
LEMMA SumChanges ==
  ASSUME NEW f, NEW g, NEW S, Numbers(f, S), Numbers(g, S), NEW y \in S,
         \A x \in S \ {y} : f[x] = g[x]
  PROVE  SumOf(g, S) = SumOf(f, S) - f[y] + g[y]
<1>1. Numbers(f, S \ {y})
  BY FS_Subset DEF Numbers
<1>2. SumOf(f, S \ {y}) = SumOf(g, S \ {y})
  BY <1>1, SumIsTheSame
<1>3. SumOf(f, S) = f[y] + SumOf(f, S \ {y}) /\ SumOf(g, S) = g[y] + SumOf(g, S \ {y})
  BY SumTakesOut
<1>4. SumOf(f, S \ {y}) \in Int /\ f[y] \in Int /\ g[y] \in Int
  BY <1>1, SumType DEF Numbers
<1> QED BY <1>2, <1>3, <1>4

\* A finite set of numbers has a largest.
LEMMA MaxIsLargest ==
  ASSUME NEW S, S \subseteq Nat, S # {}, IsFiniteSet(S)
  PROVE  Max(S) \in S /\ Max(S) \in Nat /\ \A x \in S : x <= Max(S)
<1> DEFINE G == {T \in SUBSET S : T = {} \/ \E m \in T : \A x \in T : m >= x}
<1>1. ASSUME NEW T \in SUBSET S, \A x \in T : T \ {x} \in G PROVE T \in G
  <2> SUFFICES ASSUME T # {} PROVE \E m \in T : \A x \in T : m >= x
    OBVIOUS
  <2>1. PICK y \in T : TRUE
    OBVIOUS
  <2>2. T \ {y} = {} \/ \E m \in T \ {y} : \A x \in T \ {y} : m >= x
    BY <1>1
  <2>3. CASE T \ {y} = {}
    BY <2>3
  <2>4. CASE \E m \in T \ {y} : \A x \in T \ {y} : m >= x
    <3>1. PICK m \in T \ {y} : \A x \in T \ {y} : m >= x
      BY <2>4
    <3>2. m \in Nat /\ y \in Nat
      OBVIOUS
    <3>3. CASE m >= y
      BY <3>1, <3>3
    <3>4. CASE ~(m >= y)
      <4>1. \A x \in T : y >= x
        BY <3>1, <3>2, <3>4
      <4> QED BY <4>1
    <3> QED BY <3>3, <3>4
  <2> QED BY <2>2, <2>3, <2>4
<1>2. SUBSET S \subseteq G
  <2> HIDE DEF G
  <2> QED BY <1>1, SubsetInduction
<1>3. \E m \in S : \A x \in S : m >= x
  BY <1>2
<1>4. Max(S) \in S /\ \A x \in S : Max(S) >= x
  BY <1>3 DEF Max
<1> QED BY <1>4
=============================================================================
