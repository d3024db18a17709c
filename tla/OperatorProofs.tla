---------------------------- MODULE OperatorProofs ----------------------------
(***************************************************************************)
(* What the pure operators of the modules return.                          *)
(*                                                                         *)
(* Merkle tree: for a given length the root determines every entry of the  *)
(* log, and for unknown lengths still the set of entries.                  *)
(*                                                                         *)
(* Graph queries: labels, depths and the walk back, for every finite       *)
(* graph.                                                                  *)
(*                                                                         *)
(* Their recursions are counted by induction over sets of numbers.         *)
(***************************************************************************)
EXTENDS Merkle, GraphQueries, WellFoundedInduction, SequenceTheorems,
        FiniteSetTheorems, TLAPS

\* Every set of numbers that is not empty has a least member.
LEMMA LeastNumber ==
    ASSUME NEW S \in SUBSET Nat, S # {}
    PROVE  \E n \in S : \A m \in S : n <= m
  <1> DEFINE R == OpToRel(<, Nat)
  <1>1. IsWellFoundedOn(R, Nat)
    BY NatLessThanWellFounded
  <1>2. \A x, y \in Nat : y < x => <<y, x>> \in R
    BY DEF OpToRel
  <1> HIDE DEF R
  <1>3. PICK n \in S : \A m \in S : ~(<<m, n>> \in R)
    BY <1>1, WFMin
  <1>4. \A m \in S : n <= m
    <2> SUFFICES ASSUME NEW m \in S
                 PROVE  n <= m
      OBVIOUS
    <2>1. m \in Nat /\ n \in Nat /\ ~(m < n)
      BY <1>2, <1>3
    <2> QED
      BY <2>1
  <1> QED
    BY <1>4

\* Induction in the form the provers can use: a set with 0 and all successors is Nat.
LEMMA SetInduction ==
    ASSUME NEW P \in SUBSET Nat, 0 \in P, \A n \in P : n + 1 \in P
    PROVE  P = Nat
  <1> DEFINE S == Nat \ P
  <1>1. SUFFICES ASSUME S # {}
                 PROVE  FALSE
    OBVIOUS
  <1>2. PICK n \in S : \A m \in S : n <= m
    BY <1>1, LeastNumber
  <1>3. n \in Nat /\ n # 0 /\ n - 1 \in Nat /\ ~(n <= n - 1)
    BY <1>2
  <1>4. n - 1 \in P
    BY <1>2, <1>3
  <1> QED
    BY <1>2, <1>3, <1>4

-----------------------------------------------------------------------------
(***************************************************************************)
(* The levels of a tree.                                                   *)
(***************************************************************************)

LeafLevel(a) == [i \in DOMAIN a |-> LeafNode(a[i])]

NodesOf(level) == {level[i] : i \in DOMAIN level}

\* A level: at least one node.
IsLevel(level) == level \in Seq(NodesOf(level)) /\ Len(level) >= 1

LEMMA NodeHashes ==
    /\ \A x, y : LeafNode(x) = LeafNode(y) => x = y
    /\ \A l, r, x, y : InternalNode(l, r) = InternalNode(x, y) => l = x /\ r = y
    /\ \A x, l, r : LeafNode(x) # InternalNode(l, r)
    /\ \A x, l, r : EmptyRoot # LeafNode(x) /\ EmptyRoot # InternalNode(l, r)
  BY DEF LeafNode, InternalNode, EmptyRoot

\* The recursion of Levels has a solution.
LEMMA LevelsDefined ==
    ASSUME NEW a, Len(a) \in Nat
    PROVE  /\ Levels(a)[0] = LeafLevel(a)
           /\ \A k \in 0 .. Len(a) : k + 1 <= Len(a) => Levels(a)[k + 1] = NextLevel(Levels(a)[k])
  <1> DEFINE n == Len(a)
             Solves(f, m) == f = [k \in 0 .. m |-> IF k = 0 THEN LeafLevel(a) ELSE NextLevel(f[k - 1])]
             P == {m \in Nat : \E f : Solves(f, m)}
  <1>1. 0 \in P
    <2> DEFINE f == [k \in 0 .. 0 |-> LeafLevel(a)]
    <2>1. f = [k \in 0 .. 0 |-> IF k = 0 THEN LeafLevel(a) ELSE NextLevel(f[k - 1])]
      OBVIOUS
    <2> HIDE DEF f
    <2>2. \E g : Solves(g, 0)
      BY <2>1
    <2> QED
      BY <2>2
  <1>2. ASSUME NEW m \in P
        PROVE  m + 1 \in P
    <2>1. m \in Nat
      OBVIOUS
    <2>2. PICK f : Solves(f, m)
      OBVIOUS
    <2> DEFINE g == [k \in 0 .. m + 1 |-> IF k <= m THEN f[k] ELSE NextLevel(f[m])]
    <2>3. \A k \in 0 .. m : f[k] = IF k = 0 THEN LeafLevel(a) ELSE NextLevel(f[k - 1])
      <3> HIDE DEF P
      <3> QED
        BY <2>2
    <2>4. ASSUME NEW k \in 0 .. m + 1
          PROVE  g[k] = IF k = 0 THEN LeafLevel(a) ELSE NextLevel(g[k - 1])
      <3>1. CASE k <= m
        <4>1. k \in 0 .. m /\ (k # 0 => k - 1 \in 0 .. m + 1 /\ k - 1 <= m)
          BY <2>1, <3>1
        <4>2. g[k] = f[k] /\ (k # 0 => g[k - 1] = f[k - 1])
          BY <3>1, <4>1
        <4> QED
          BY <2>3, <4>1, <4>2
      <3>2. CASE ~(k <= m)
        <4>1. k = m + 1 /\ k # 0 /\ k - 1 = m /\ m \in 0 .. m + 1 /\ m <= m
          BY <2>1, <3>2
        <4>2. g[k] = NextLevel(f[m]) /\ g[m] = f[m]
          BY <3>2, <4>1
        <4> QED
          BY <4>1, <4>2
      <3> QED
        BY <3>1, <3>2
    <2>5. g = [k \in 0 .. m + 1 |-> g[k]]
      OBVIOUS
    <2> HIDE DEF g
    <2>6. Solves(g, m + 1)
      BY <2>4, <2>5
    <2> HIDE DEF Solves
    <2> QED
      BY <2>1, <2>6
  <1>3. n \in P
    <2>1. P \in SUBSET Nat
      OBVIOUS
    <2> HIDE DEF P
    <2>2. P = Nat
      BY <1>1, <1>2, <2>1, SetInduction
    <2> QED
      BY <2>2
  <1>4. \E f : Solves(f, n)
    BY <1>3
  <1> DEFINE level == CHOOSE f : Solves(f, n)
  <1>5. Solves(level, n)
    <2> HIDE DEF Solves
    <2> QED
      BY <1>4
  <1>6. Levels(a) = level
    BY DEF Levels, LeafLevel
  <1> HIDE DEF level
  <1>7. \A k \in 0 .. n : level[k] = IF k = 0 THEN LeafLevel(a) ELSE NextLevel(level[k - 1])
    BY <1>5
  <1>8. 0 \in 0 .. n /\ \A k \in 0 .. n : k + 1 <= n => k + 1 \in 0 .. n /\ k + 1 # 0 /\ (k + 1) - 1 = k
    OBVIOUS
  <1> QED
    BY <1>6, <1>7, <1>8

\* One round: a level of one node stays, a longer one is halved; each pair is hashed.
LEMMA OneRound ==
    ASSUME NEW a, IsLevel(a)
    PROVE  LET b == NextLevel(a)
               pairs == (Len(a) + 1) \div 2
           IN  /\ Len(a) <= 1 => b = a
               /\ Len(a) > 1 =>
                      /\ b \in Seq(NodesOf(b)) /\ Len(b) = pairs /\ DOMAIN b = 1 .. pairs
                      /\ \A i \in 1 .. pairs :
                             b[i] = InternalNode(a[2 * i - 1],
                                                 IF 2 * i <= Len(a) THEN a[2 * i] ELSE a[2 * i - 1])
               /\ IsLevel(b) /\ (Len(b) = 1 \/ Len(b) <= Len(a) - 1)
  <1> DEFINE b == NextLevel(a)
             pairs == (Len(a) + 1) \div 2
  <1>0. Len(a) \in Nat /\ Len(a) >= 1
    BY DEF IsLevel
  <1>1. CASE Len(a) <= 1
    <2>1. Len(a) = 1 /\ ~(Len(a) > 1)
      <3>1. \A k \in Nat : k >= 1 /\ k <= 1 => k = 1 /\ ~(k > 1)
        OBVIOUS
      <3> QED
        BY <1>0, <1>1, <3>1
    <2>2. b = a
      BY <1>1 DEF NextLevel
    <2> HIDE DEF b, pairs
    <2>3. /\ Len(a) <= 1 => b = a
          /\ Len(a) > 1 => FALSE
          /\ IsLevel(b) /\ Len(b) = 1
      BY <2>1, <2>2
    <2> QED
      BY <2>3 DEF b
  <1>2. CASE Len(a) > 1
    <2>1. pairs \in Nat /\ pairs >= 1 /\ pairs <= Len(a) - 1
      BY <1>0, <1>2
    <2> HIDE DEF pairs
    <2>2. b = [i \in 1 .. pairs |->
                  InternalNode(a[2 * i - 1], IF 2 * i <= Len(a) THEN a[2 * i] ELSE a[2 * i - 1])]
      BY <1>0, <1>2 DEF NextLevel, pairs
    <2> HIDE DEF b
    <2>3. DOMAIN b = 1 .. pairs
      BY <2>2
    <2>4. \A i \in 1 .. pairs :
              b[i] = InternalNode(a[2 * i - 1], IF 2 * i <= Len(a) THEN a[2 * i] ELSE a[2 * i - 1])
      BY <2>2
    <2>5. b \in [1 .. pairs -> NodesOf(b)]
      <3>1. b = [i \in 1 .. pairs |-> b[i]]
        BY <2>2
      <3>2. \A i \in 1 .. pairs : b[i] \in NodesOf(b)
        BY <2>3 DEF NodesOf
      <3> QED
        BY <3>1, <3>2
    <2>6. b \in Seq(NodesOf(b)) /\ Len(b) = pairs
      BY <2>1, <2>5
    <2>7. IsLevel(b)
      BY <2>1, <2>6 DEF IsLevel
    <2> QED
      BY <1>2, <2>1, <2>3, <2>4, <2>6, <2>7 DEF b, pairs
  <1> QED
    BY <1>0, <1>1, <1>2

\* The children of a level's nodes are the nodes of the level below.
LEMMA ChildrenAreBelow ==
    ASSUME NEW a, IsLevel(a), Len(a) > 1
    PROVE  /\ \A x \in NodesOf(a) :
                  \E y \in NodesOf(a) : \/ InternalNode(x, y) \in NodesOf(NextLevel(a))
                                        \/ InternalNode(y, x) \in NodesOf(NextLevel(a))
           /\ \A x, y : InternalNode(x, y) \in NodesOf(NextLevel(a)) => x \in NodesOf(a) /\ y \in NodesOf(a)
           /\ \A h \in NodesOf(NextLevel(a)) : \E x, y : h = InternalNode(x, y)
  <1> DEFINE b == NextLevel(a)
             pairs == (Len(a) + 1) \div 2
             right(i) == IF 2 * i <= Len(a) THEN a[2 * i] ELSE a[2 * i - 1]
  <1>0. Len(a) \in Nat /\ DOMAIN a = 1 .. Len(a) /\ pairs \in Nat
    BY DEF IsLevel
  <1>1. DOMAIN b = 1 .. pairs /\ \A i \in 1 .. pairs : b[i] = InternalNode(a[2 * i - 1], right(i))
    BY OneRound
  <1>2. ASSUME NEW i \in 1 .. pairs
        PROVE  a[2 * i - 1] \in NodesOf(a) /\ right(i) \in NodesOf(a) /\ b[i] \in NodesOf(b)
    <2>1. 2 * i - 1 \in 1 .. Len(a) /\ (2 * i <= Len(a) => 2 * i \in 1 .. Len(a))
      BY <1>0
    <2> HIDE DEF b
    <2> QED
      BY <1>0, <1>1, <2>1 DEF NodesOf
  <1>3. ASSUME NEW x \in NodesOf(a)
        PROVE  \E y \in NodesOf(a) : InternalNode(x, y) \in NodesOf(b) \/ InternalNode(y, x) \in NodesOf(b)
    <2>1. PICK j \in 1 .. Len(a) : x = a[j]
      BY <1>0 DEF NodesOf
    <2> DEFINE i == (j + 1) \div 2
    <2>2. i \in 1 .. pairs /\ (j = 2 * i - 1 \/ (j = 2 * i /\ 2 * i <= Len(a)))
      BY <1>0
    <2> HIDE DEF i, b, pairs
    <2>3. b[i] = InternalNode(a[2 * i - 1], right(i)) /\ (x = a[2 * i - 1] \/ x = right(i))
      BY <1>1, <2>1, <2>2
    <2> QED
      BY <1>2, <2>2, <2>3
  <1>4. ASSUME NEW h \in NodesOf(b)
        PROVE  \E x \in NodesOf(a), y \in NodesOf(a) : h = InternalNode(x, y)
    <2>1. PICK i \in 1 .. pairs : h = b[i]
      BY <1>1 DEF NodesOf
    <2> HIDE DEF b
    <2>2. h = InternalNode(a[2 * i - 1], right(i))
      BY <1>1, <2>1
    <2> QED
      BY <1>2, <2>2
  <1> QED
    BY <1>3, <1>4, NodeHashes

\* Every level has nodes, and Len(a) rounds leave one.
LEMMA LevelsShrink ==
    ASSUME NEW S, NEW a \in Seq(S), a # <<>>
    PROVE  /\ \A k \in 0 .. Len(a) : IsLevel(Levels(a)[k]) /\ EmptyRoot \notin NodesOf(Levels(a)[k])
           /\ Len(Levels(a)[Len(a)]) = 1
  <1> DEFINE n == Len(a)
             Small(k) == /\ IsLevel(Levels(a)[k]) /\ EmptyRoot \notin NodesOf(Levels(a)[k])
                         /\ Len(Levels(a)[k]) = 1 \/ Len(Levels(a)[k]) <= n - k
             P == {k \in Nat : k <= n => Small(k)}
  <1>0. n \in Nat /\ n >= 1
    OBVIOUS
  <1>1. 0 \in P
    <2>1. Levels(a)[0] = LeafLevel(a)
      BY <1>0, LevelsDefined
    <2>2. LeafLevel(a) \in [1 .. n -> NodesOf(LeafLevel(a))]
      BY DEF LeafLevel, NodesOf
    <2>3. LeafLevel(a) \in Seq(NodesOf(LeafLevel(a))) /\ Len(LeafLevel(a)) = n
      BY <1>0, <2>2
    <2>4. EmptyRoot \notin NodesOf(LeafLevel(a))
      BY NodeHashes DEF NodesOf, LeafLevel
    <2> QED
      BY <1>0, <2>1, <2>3, <2>4 DEF IsLevel
  <1>2. ASSUME NEW k \in P
        PROVE  k + 1 \in P
    <2>1. k \in Nat /\ k + 1 \in Nat
      OBVIOUS
    <2>2. SUFFICES ASSUME k + 1 <= n
                   PROVE  Small(k + 1)
      BY <2>1
    <2>3. Small(k) /\ k \in 0 .. n
      BY <1>0, <2>1, <2>2
    <2> DEFINE A == Levels(a)[k]
               B == Levels(a)[k + 1]
    <2>4. B = NextLevel(A)
      BY <1>0, <2>2, <2>3, LevelsDefined
    <2>5. IsLevel(A) /\ EmptyRoot \notin NodesOf(A) /\ (Len(A) = 1 \/ Len(A) <= n - k)
      BY <2>3
    <2> HIDE DEF A, B
    <2>6. IsLevel(B) /\ (Len(B) = 1 \/ Len(B) <= Len(A) - 1) /\ (Len(A) <= 1 => B = A)
      BY <2>4, <2>5, OneRound
    <2>7. Len(A) \in Nat /\ Len(B) \in Nat /\ Len(B) >= 1
      BY <2>5, <2>6 DEF IsLevel
    <2>8. Len(B) = 1 \/ Len(B) <= n - (k + 1)
      <3>1. CASE Len(A) <= n - k
        BY <1>0, <2>1, <2>6, <2>7, <3>1
      <3>2. CASE Len(A) = 1
        BY <2>6, <3>2
      <3> QED
        BY <2>5, <3>1, <3>2
    <2>9. EmptyRoot \notin NodesOf(B)
      <3>1. Len(A) > 1 => \A h \in NodesOf(B) : \E x, y : h = InternalNode(x, y)
        BY <2>4, <2>5, ChildrenAreBelow
      <3>2. Len(A) > 1 \/ Len(A) <= 1
        BY <2>7
      <3> QED
        BY <2>5, <2>6, <3>1, <3>2, NodeHashes
    <2> QED
      BY <2>6, <2>8, <2>9 DEF B
  <1>3. P = Nat
    <2>1. P \in SUBSET Nat
      OBVIOUS
    <2> HIDE DEF P
    <2> QED
      BY <1>1, <1>2, <2>1, SetInduction
  <1>4. \A k \in 0 .. n : Small(k)
    <2> SUFFICES ASSUME NEW k \in 0 .. n
                 PROVE  Small(k)
      OBVIOUS
    <2>1. k \in P /\ k <= n
      BY <1>0, <1>3
    <2> QED
      BY <2>1
  <1>5. Len(Levels(a)[n]) = 1
    <2>1. Small(n)
      BY <1>0, <1>4
    <2>2. Len(Levels(a)[n]) >= 1 /\ Len(Levels(a)[n]) \in Nat
      BY <2>1 DEF IsLevel
    <2> QED
      BY <1>0, <2>1, <2>2
  <1> QED
    BY <1>4, <1>5

\* Two long levels with the same nodes above them have the same nodes.
LEMMA SameAboveSameBelow ==
    ASSUME NEW a, NEW b, IsLevel(a), IsLevel(b), Len(a) > 1, Len(b) > 1,
           NodesOf(NextLevel(a)) = NodesOf(NextLevel(b))
    PROVE  NodesOf(a) = NodesOf(b)
  <1>1. \A x \in NodesOf(a) : x \in NodesOf(b)
    BY ChildrenAreBelow
  <1>2. \A x \in NodesOf(b) : x \in NodesOf(a)
    BY ChildrenAreBelow
  <1> QED
    BY <1>1, <1>2

-----------------------------------------------------------------------------
(***************************************************************************)
(* Two trees with the same root.                                           *)
(***************************************************************************)

\* The two trees are taken apart from their tops; a level of leaves is never a level of
\* pairs, so that they come to their leaves together.
LEMMA SameNodesSameLeaves ==
    ASSUME NEW S, NEW a \in Seq(S), NEW b \in Seq(S), a # <<>>, b # <<>>,
           NEW k \in 0 .. Len(a), NEW l \in 0 .. Len(b),
           NodesOf(Levels(a)[k]) = NodesOf(Levels(b)[l])
    PROVE  NodesOf(LeafLevel(a)) = NodesOf(LeafLevel(b))
  <1> DEFINE na == Len(a)
             nb == Len(b)
             A(i) == NodesOf(Levels(a)[i])
             B(j) == NodesOf(Levels(b)[j])
             Same == NodesOf(LeafLevel(a)) = NodesOf(LeafLevel(b))
             Q(s) == \A i \in 0 .. na, j \in 0 .. nb : i + j <= s /\ A(i) = B(j) => Same
             P == {s \in Nat : Q(s)}
  <1>0. na \in Nat /\ nb \in Nat
    OBVIOUS
  <1>1. /\ \A i \in 0 .. na : IsLevel(Levels(a)[i])
        /\ \A j \in 0 .. nb : IsLevel(Levels(b)[j])
    BY LevelsShrink
  <1>2. /\ Levels(a)[0] = LeafLevel(a) /\ Levels(b)[0] = LeafLevel(b)
        /\ \A i \in 0 .. na : i + 1 <= na => Levels(a)[i + 1] = NextLevel(Levels(a)[i])
        /\ \A j \in 0 .. nb : j + 1 <= nb => Levels(b)[j + 1] = NextLevel(Levels(b)[j])
    BY <1>0, LevelsDefined
  <1>3. /\ \A h \in NodesOf(LeafLevel(a)) : \E x : h = LeafNode(x)
        /\ \A h \in NodesOf(LeafLevel(b)) : \E x : h = LeafNode(x)
    BY DEF NodesOf, LeafLevel
  <1>4. \A c : IsLevel(c) => NodesOf(c) # {}
    BY DEF IsLevel, NodesOf
  <1>5. 0 \in P
    <2>1. ASSUME NEW i \in 0 .. na, NEW j \in 0 .. nb, i + j <= 0, A(i) = B(j)
          PROVE  Same
      <3>1. i = 0 /\ j = 0
        BY <1>0, <2>1
      <3> QED
        BY <1>2, <2>1, <3>1
    <2> QED
      BY <2>1
  <1>6. ASSUME NEW s \in P
        PROVE  s + 1 \in P
    <2>1. s \in Nat /\ Q(s)
      OBVIOUS
    <2>2. ASSUME NEW i \in 0 .. na, NEW j \in 0 .. nb, i + j <= s + 1, A(i) = B(j)
          PROVE  Same
      <3>0. /\ i \in Nat /\ j \in Nat
            /\ i > 0 => i - 1 \in 0 .. na /\ (i - 1) + j <= s /\ (i - 1) + 1 = i /\ i <= na
            /\ j > 0 => j - 1 \in 0 .. nb /\ i + (j - 1) <= s /\ (j - 1) + 1 = j /\ j <= nb
            /\ i > 0 /\ j > 0 => (i - 1) + (j - 1) <= s
        BY <1>0, <2>1, <2>2
      <3>1. i > 0 => IsLevel(Levels(a)[i - 1]) /\ Levels(a)[i] = NextLevel(Levels(a)[i - 1])
        BY <1>1, <1>2, <3>0
      <3>2. j > 0 => IsLevel(Levels(b)[j - 1]) /\ Levels(b)[j] = NextLevel(Levels(b)[j - 1])
        BY <1>1, <1>2, <3>0
      <3> DEFINE pairedA == i > 0 /\ Len(Levels(a)[i - 1]) > 1
                 pairedB == j > 0 /\ Len(Levels(b)[j - 1]) > 1
      <3>3. CASE i > 0 /\ ~pairedA
        <4>1. Levels(a)[i] = Levels(a)[i - 1]
          BY <3>1, <3>3, OneRound DEF IsLevel
        <4>2. A(i - 1) = B(j)
          BY <2>2, <4>1
        <4> HIDE DEF A, B, Same
        <4> QED
          BY <2>1, <3>0, <3>3, <4>2
      <3>4. CASE j > 0 /\ ~pairedB
        <4>1. Levels(b)[j] = Levels(b)[j - 1]
          BY <3>2, <3>4, OneRound DEF IsLevel
        <4>2. A(i) = B(j - 1)
          BY <2>2, <4>1
        <4> HIDE DEF A, B, Same
        <4> QED
          BY <2>1, <3>0, <3>4, <4>2
      <3>5. CASE pairedA /\ pairedB
        <4>1. A(i - 1) = B(j - 1)
          BY <2>2, <3>1, <3>2, <3>5, SameAboveSameBelow
        <4> HIDE DEF A, B, Same
        <4> QED
          BY <2>1, <3>0, <3>5, <4>1
      <3>6. CASE i = 0 /\ j = 0
        BY <1>2, <2>2, <3>6
      <3>7. CASE i = 0 /\ pairedB
        <4>1. \A h \in B(j) : \E x, y : h = InternalNode(x, y)
          BY <3>2, <3>7, ChildrenAreBelow
        <4>2. A(i) # {} /\ \A h \in A(i) : \E x : h = LeafNode(x)
          BY <1>1, <1>2, <1>3, <1>4, <3>7
        <4> HIDE DEF A, B
        <4> QED
          BY <2>2, <4>1, <4>2, NodeHashes
      <3>8. CASE pairedA /\ j = 0
        <4>1. \A h \in A(i) : \E x, y : h = InternalNode(x, y)
          BY <3>1, <3>8, ChildrenAreBelow
        <4>2. B(j) # {} /\ \A h \in B(j) : \E x : h = LeafNode(x)
          BY <1>1, <1>2, <1>3, <1>4, <3>8
        <4> HIDE DEF A, B
        <4> QED
          BY <2>2, <4>1, <4>2, NodeHashes
      <3> QED
        BY <3>0, <3>3, <3>4, <3>5, <3>6, <3>7, <3>8
    <2>3. Q(s + 1)
      <3> HIDE DEF A, B, Same
      <3> QED
        BY <2>2
    <2> HIDE DEF Q
    <2> QED
      BY <2>1, <2>3
  <1>7. P = Nat
    <2>1. P \in SUBSET Nat
      OBVIOUS
    <2> HIDE DEF P
    <2> QED
      BY <1>5, <1>6, <2>1, SetInduction
  <1>8. Q(k + l)
    <2>1. k + l \in Nat
      BY <1>0
    <2> HIDE DEF Q
    <2> QED
      BY <1>7, <2>1
  <1>9. A(k) = B(l) /\ k + l <= k + l
    BY <1>0
  <1> HIDE DEF A, B, Same
  <1>10. Same
    BY <1>8, <1>9
  <1> QED
    BY <1>10 DEF Same

\* Logs of any two lengths: with the same root they hold the same entries.
LEMMA SameRootSameEntries ==
    ASSUME NEW S, NEW a \in Seq(S), NEW b \in Seq(S), root_hash(a) = root_hash(b)
    PROVE  /\ \A i \in DOMAIN a : \E j \in DOMAIN b : a[i] = b[j]
           /\ \A j \in DOMAIN b : \E i \in DOMAIN a : b[j] = a[i]
  <1>1. ASSUME NEW c \in Seq(S), c # <<>>
        PROVE  /\ NodesOf(Levels(c)[Len(c)]) = {root_hash(c)}
               /\ Len(c) \in 0 .. Len(c)
               /\ root_hash(c) # EmptyRoot
               /\ NodesOf(LeafLevel(c)) = {LeafNode(c[i]) : i \in DOMAIN c}
    <2>1. Len(c) \in 0 .. Len(c) /\ Len(c) \in Nat /\ Len(c) >= 1
      BY <1>1
    <2> DEFINE top == Levels(c)[Len(c)]
    <2>2. IsLevel(top) /\ Len(top) = 1
      BY <1>1, <2>1, LevelsShrink
    <2>3. root_hash(c) = top[1]
      BY <1>1 DEF root_hash
    <2> HIDE DEF top
    <2>4. NodesOf(top) = {top[1]}
      BY <2>2 DEF IsLevel, NodesOf
    <2>5. top[1] # EmptyRoot
      <3>1. EmptyRoot \notin NodesOf(top)
        BY <1>1, <2>1, LevelsShrink DEF top
      <3> QED
        BY <2>4, <3>1
    <2>6. NodesOf(LeafLevel(c)) = {LeafNode(c[i]) : i \in DOMAIN c}
      BY DEF NodesOf, LeafLevel
    <2> QED
      BY <2>1, <2>3, <2>4, <2>5, <2>6 DEF top
  <1>2. CASE a = <<>> \/ b = <<>>
    <2>1. root_hash(<<>>) = EmptyRoot
      BY DEF root_hash
    <2>2. a = b
      BY <1>1, <1>2, <2>1
    <2> QED
      BY <2>2
  <1>3. CASE a # <<>> /\ b # <<>>
    <2>1. NodesOf(LeafLevel(a)) = NodesOf(LeafLevel(b))
      <3>1. NodesOf(Levels(a)[Len(a)]) = {root_hash(a)} /\ Len(a) \in 0 .. Len(a)
        BY <1>1, <1>3
      <3>2. NodesOf(Levels(b)[Len(b)]) = {root_hash(b)} /\ Len(b) \in 0 .. Len(b)
        BY <1>1, <1>3
      <3>3. NodesOf(Levels(a)[Len(a)]) = NodesOf(Levels(b)[Len(b)])
        BY <3>1, <3>2
      <3> QED
        BY <1>3, <3>1, <3>2, <3>3, SameNodesSameLeaves
    <2>2. {LeafNode(a[i]) : i \in DOMAIN a} = {LeafNode(b[i]) : i \in DOMAIN b}
      BY <1>1, <1>3, <2>1
    <2>3. ASSUME NEW i \in DOMAIN a
          PROVE  \E j \in DOMAIN b : a[i] = b[j]
      <3>1. LeafNode(a[i]) \in {LeafNode(b[j]) : j \in DOMAIN b}
        BY <2>2
      <3>2. PICK j \in DOMAIN b : LeafNode(a[i]) = LeafNode(b[j])
        BY <3>1
      <3> QED
        BY <3>2, NodeHashes
    <2>4. ASSUME NEW j \in DOMAIN b
          PROVE  \E i \in DOMAIN a : b[j] = a[i]
      <3>1. LeafNode(b[j]) \in {LeafNode(a[i]) : i \in DOMAIN a}
        BY <2>2
      <3>2. PICK i \in DOMAIN a : LeafNode(b[j]) = LeafNode(a[i])
        BY <3>1
      <3> QED
        BY <3>2, NodeHashes
    <2> QED
      BY <2>3, <2>4
  <1> QED
    BY <1>2, <1>3

-----------------------------------------------------------------------------
(***************************************************************************)
(* Inclusion proofs.                                                       *)
(***************************************************************************)

\* The recursion of Position has a solution.
LEMMA PositionDefined ==
    ASSUME NEW index \in Nat, NEW n \in Nat
    PROVE  /\ Position(index, n)[0] = index
           /\ \A k \in 0 .. n : Position(index, n)[k] \in Nat
           /\ \A k \in 0 .. n : k + 1 <= n => Position(index, n)[k + 1] = Position(index, n)[k] \div 2
  <1> DEFINE Solves(f, m) == /\ f = [k \in 0 .. m |-> IF k = 0 THEN index ELSE f[k - 1] \div 2]
                             /\ \A k \in 0 .. m : f[k] \in Nat
             P == {m \in Nat : \E f : Solves(f, m)}
  <1>1. 0 \in P
    <2> DEFINE f == [k \in 0 .. 0 |-> index]
    <2>1. f = [k \in 0 .. 0 |-> IF k = 0 THEN index ELSE f[k - 1] \div 2] /\ \A k \in 0 .. 0 : f[k] \in Nat
      OBVIOUS
    <2> HIDE DEF f
    <2>2. \E g : Solves(g, 0)
      BY <2>1
    <2> QED
      BY <2>2
  <1>2. ASSUME NEW m \in P
        PROVE  m + 1 \in P
    <2>1. m \in Nat
      OBVIOUS
    <2>2. PICK f : Solves(f, m)
      OBVIOUS
    <2> DEFINE g == [k \in 0 .. m + 1 |-> IF k <= m THEN f[k] ELSE f[m] \div 2]
    <2>3. \A k \in 0 .. m : f[k] \in Nat /\ f[k] = IF k = 0 THEN index ELSE f[k - 1] \div 2
      <3> HIDE DEF P
      <3> QED
        BY <2>2
    <2>4. ASSUME NEW k \in 0 .. m + 1
          PROVE  g[k] \in Nat /\ g[k] = IF k = 0 THEN index ELSE g[k - 1] \div 2
      <3>1. CASE k <= m
        <4>1. k \in 0 .. m /\ (k # 0 => k - 1 \in 0 .. m + 1 /\ k - 1 <= m)
          BY <2>1, <3>1
        <4>2. g[k] = f[k] /\ (k # 0 => g[k - 1] = f[k - 1])
          BY <3>1, <4>1
        <4> HIDE DEF g
        <4> QED
          BY <2>3, <4>1, <4>2
      <3>2. CASE ~(k <= m)
        <4>1. k = m + 1 /\ k # 0 /\ k - 1 = m /\ m \in 0 .. m + 1 /\ m <= m /\ m \in 0 .. m
          BY <2>1, <3>2
        <4>2. g[k] = f[m] \div 2 /\ g[m] = f[m] /\ f[m] \in Nat
          BY <2>3, <3>2, <4>1
        <4> HIDE DEF g
        <4> QED
          BY <4>1, <4>2
      <3> QED
        BY <3>1, <3>2
    <2>5. g = [k \in 0 .. m + 1 |-> g[k]]
      OBVIOUS
    <2> HIDE DEF g
    <2>6. Solves(g, m + 1)
      BY <2>4, <2>5
    <2> HIDE DEF Solves
    <2> QED
      BY <2>1, <2>6
  <1>3. n \in P
    <2>1. P \in SUBSET Nat
      OBVIOUS
    <2> HIDE DEF P
    <2> QED
      BY <1>1, <1>2, <2>1, SetInduction
  <1> DEFINE Idx(f) == f = [k \in 0 .. n |-> IF k = 0 THEN index ELSE f[k - 1] \div 2]
             idx == CHOOSE f : Idx(f)
  <1>4. Idx(idx)
    <2>1. \E f : Idx(f)
      BY <1>3
    <2> HIDE DEF Idx
    <2> QED
      BY <2>1
  <1>5. Position(index, n) = idx
    BY DEF Position
  <1> HIDE DEF idx
  <1>6. \A k \in 0 .. n : idx[k] = IF k = 0 THEN index ELSE idx[k - 1] \div 2
    BY <1>4
  <1>7. 0 \in 0 .. n /\ \A k \in 0 .. n : k + 1 <= n => k + 1 \in 0 .. n /\ k + 1 # 0 /\ (k + 1) - 1 = k
    OBVIOUS
  <1>8. \A k \in 0 .. n : k + 1 <= n => idx[k + 1] = idx[k] \div 2
    BY <1>6, <1>7
  <1>9. \A k \in 0 .. n : idx[k] \in Nat
    <2> DEFINE N == {k \in Nat : k <= n => idx[k] \in Nat}
    <2>1. 0 \in N
      BY <1>6, <1>7
    <2>2. ASSUME NEW k \in N
          PROVE  k + 1 \in N
      <3>1. k + 1 <= n => k \in 0 .. n /\ idx[k] \in Nat
        OBVIOUS
      <3>2. k + 1 <= n => idx[k + 1] \in Nat
        BY <1>8, <3>1
      <3> QED
        BY <3>2
    <2>3. N = Nat
      <3>1. N \in SUBSET Nat
        OBVIOUS
      <3> HIDE DEF N
      <3> QED
        BY <2>1, <2>2, <3>1, SetInduction
    <2> QED
      BY <2>3
  <1> QED
    BY <1>5, <1>6, <1>7, <1>8, <1>9

\* The recursion of verify_inclusion has a solution.
LEMMA ClimbedDefined ==
    ASSUME NEW p, Len(p.path) \in Nat
    PROVE  /\ Climbed(p)[0] = LeafNode(p.leaf_hash)
           /\ \A k \in 0 .. Len(p.path) : k + 1 <= Len(p.path) =>
                  Climbed(p)[k + 1] = Climb(p, k + 1, Climbed(p)[k], p.path[k + 1])
  <1> DEFINE n == Len(p.path)
             Solves(f, m) == f = [k \in 0 .. m |-> IF k = 0 THEN LeafNode(p.leaf_hash)
                                                   ELSE Climb(p, k, f[k - 1], p.path[k])]
             P == {m \in Nat : \E f : Solves(f, m)}
  <1>1. 0 \in P
    <2> DEFINE f == [k \in 0 .. 0 |-> LeafNode(p.leaf_hash)]
    <2>1. f = [k \in 0 .. 0 |-> IF k = 0 THEN LeafNode(p.leaf_hash) ELSE Climb(p, k, f[k - 1], p.path[k])]
      OBVIOUS
    <2> HIDE DEF f
    <2>2. \E g : Solves(g, 0)
      BY <2>1
    <2> QED
      BY <2>2
  <1>2. ASSUME NEW m \in P
        PROVE  m + 1 \in P
    <2>1. m \in Nat
      OBVIOUS
    <2>2. PICK f : Solves(f, m)
      OBVIOUS
    <2> DEFINE g == [k \in 0 .. m + 1 |-> IF k <= m THEN f[k] ELSE Climb(p, m + 1, f[m], p.path[m + 1])]
    <2>3. \A k \in 0 .. m : f[k] = IF k = 0 THEN LeafNode(p.leaf_hash) ELSE Climb(p, k, f[k - 1], p.path[k])
      <3> HIDE DEF P
      <3> QED
        BY <2>2
    <2>4. ASSUME NEW k \in 0 .. m + 1
          PROVE  g[k] = IF k = 0 THEN LeafNode(p.leaf_hash) ELSE Climb(p, k, g[k - 1], p.path[k])
      <3>1. CASE k <= m
        <4>1. k \in 0 .. m /\ (k # 0 => k - 1 \in 0 .. m + 1 /\ k - 1 <= m)
          BY <2>1, <3>1
        <4>2. g[k] = f[k] /\ (k # 0 => g[k - 1] = f[k - 1])
          BY <3>1, <4>1
        <4> QED
          BY <2>3, <4>1, <4>2
      <3>2. CASE ~(k <= m)
        <4>1. k = m + 1 /\ k # 0 /\ k - 1 = m /\ m \in 0 .. m + 1 /\ m <= m
          BY <2>1, <3>2
        <4>2. g[k] = Climb(p, m + 1, f[m], p.path[m + 1]) /\ g[m] = f[m]
          BY <3>2, <4>1
        <4> QED
          BY <4>1, <4>2
      <3> QED
        BY <3>1, <3>2
    <2>5. g = [k \in 0 .. m + 1 |-> g[k]]
      OBVIOUS
    <2> HIDE DEF g
    <2>6. Solves(g, m + 1)
      BY <2>4, <2>5
    <2> HIDE DEF Solves
    <2> QED
      BY <2>1, <2>6
  <1>3. n \in P
    <2>1. P \in SUBSET Nat
      OBVIOUS
    <2> HIDE DEF P
    <2>2. P = Nat
      BY <1>1, <1>2, <2>1, SetInduction
    <2> QED
      BY <2>2
  <1>4. \E f : Solves(f, n)
    BY <1>3
  <1> DEFINE current == CHOOSE f : Solves(f, n)
  <1>5. Solves(current, n)
    <2> HIDE DEF Solves
    <2> QED
      BY <1>4
  <1>6. Climbed(p) = current
    BY DEF Climbed
  <1> HIDE DEF current
  <1>7. \A k \in 0 .. n : current[k] = IF k = 0 THEN LeafNode(p.leaf_hash)
                                       ELSE Climb(p, k, current[k - 1], p.path[k])
    BY <1>5
  <1>8. 0 \in 0 .. n /\ \A k \in 0 .. n : k + 1 <= n => k + 1 \in 0 .. n /\ k + 1 # 0 /\ (k + 1) - 1 = k
    OBVIOUS
  <1> QED
    BY <1>6, <1>7, <1>8

\* One round of the climb, at position p of a level: with the sibling it reaches the
\* node above, and nothing else that stands at p does, whatever the sibling.
LEMMA ClimbOneLevel ==
    ASSUME NEW a, IsLevel(a), Len(a) > 1, NEW p \in Nat, p < Len(a)
    PROVE  LET above == NextLevel(a)[(p \div 2) + 1]
           IN  /\ p \div 2 \in Nat /\ p \div 2 < Len(NextLevel(a))
               /\ p % 2 = 0 =>
                      /\ InternalNode(a[p + 1], Sibling(a, p)) = above
                      /\ \A x, y : InternalNode(x, y) = above => x = a[p + 1]
               /\ p % 2 # 0 =>
                      /\ InternalNode(Sibling(a, p), a[p + 1]) = above
                      /\ \A x, y : InternalNode(y, x) = above => x = a[p + 1]
  <1> DEFINE q == p \div 2
             pairs == (Len(a) + 1) \div 2
             above == NextLevel(a)[q + 1]
  <1>0. Len(a) \in Nat
    BY DEF IsLevel
  <1>1. q \in Nat /\ q < pairs /\ q + 1 \in 1 .. pairs
    BY <1>0
  <1>2. Len(NextLevel(a)) = pairs
    BY OneRound
  <1>3. above = InternalNode(a[2 * (q + 1) - 1],
                             IF 2 * (q + 1) <= Len(a) THEN a[2 * (q + 1)] ELSE a[2 * (q + 1) - 1])
    <2> HIDE DEF q, pairs
    <2>1. \A i \in 1 .. (Len(a) + 1) \div 2 :
              NextLevel(a)[i] = InternalNode(a[2 * i - 1], IF 2 * i <= Len(a) THEN a[2 * i] ELSE a[2 * i - 1])
      BY OneRound
    <2> QED
      BY <1>1, <2>1 DEF pairs
  <1>4. CASE p % 2 = 0
    <2>1. p = 2 * q
      BY <1>4
    <2> HIDE DEF q, pairs, above
    <2>2. 2 * (q + 1) - 1 = p + 1 /\ 2 * (q + 1) = p + 2 /\ (p + 2 <= Len(a) <=> p + 1 < Len(a))
      BY <1>0, <1>1, <2>1
    <2>3. above = InternalNode(a[p + 1], IF p + 1 < Len(a) THEN a[p + 2] ELSE a[p + 1])
      BY <1>3, <2>2
    <2>4. Sibling(a, p) = IF p + 1 < Len(a) THEN a[p + 2] ELSE a[p + 1]
      BY <1>4 DEF Sibling
    <2>5. InternalNode(a[p + 1], Sibling(a, p)) = above
      BY <2>3, <2>4
    <2>6. \A x, y : InternalNode(x, y) = above => x = a[p + 1]
      BY <2>3, NodeHashes
    <2> QED
      BY <1>1, <1>2, <1>4, <2>5, <2>6 DEF q, above
  <1>5. CASE p % 2 # 0
    <2>1. p = 2 * q + 1
      BY <1>5
    <2> HIDE DEF q, pairs, above
    <2>2. 2 * (q + 1) - 1 = p /\ 2 * (q + 1) = p + 1 /\ p + 1 <= Len(a)
      BY <1>0, <1>1, <2>1
    <2>3. above = InternalNode(a[p], a[p + 1])
      BY <1>3, <2>2
    <2>4. Sibling(a, p) = a[p]
      BY <1>5 DEF Sibling
    <2>5. InternalNode(Sibling(a, p), a[p + 1]) = above
      BY <2>3, <2>4
    <2>6. \A x, y : InternalNode(y, x) = above => x = a[p + 1]
      BY <2>3, NodeHashes
    <2> QED
      BY <1>1, <1>2, <1>5, <2>5, <2>6 DEF q, above
  <1> QED
    BY <1>4, <1>5

\* The loops stop at the first level of one node, and that node is the root.
LEMMA DepthValues ==
    ASSUME NEW S, NEW a \in Seq(S), a # <<>>
    PROVE  /\ Depth(a) \in 0 .. Len(a)
           /\ Len(Levels(a)[Depth(a)]) = 1
           /\ \A k \in 0 .. Depth(a) - 1 : Len(Levels(a)[k]) > 1
           /\ root_hash(a) = Levels(a)[Depth(a)][1]
  <1> DEFINE n == Len(a)
             D == {k \in Nat : k <= n /\ Len(Levels(a)[k]) = 1}
             d == Depth(a)
  <1>0. n \in Nat /\ n >= 1
    OBVIOUS
  <1>1. \A k \in 0 .. n : IsLevel(Levels(a)[k])
    BY LevelsShrink
  <1>2. n \in D
    BY <1>0, LevelsShrink
  <1>3. PICK k \in D : \A j \in D : k <= j
    <2>1. D \in SUBSET Nat /\ D # {}
      BY <1>2
    <2> HIDE DEF D
    <2> QED
      BY <2>1, LeastNumber
  <1>4. ASSUME NEW j \in 0 .. k - 1
        PROVE  Len(Levels(a)[j]) > 1
    <2>1. j \in Nat /\ j < k /\ k <= n /\ j \in 0 .. n
      BY <1>0, <1>3
    <2>2. j \notin D
      BY <1>3, <2>1
    <2>3. Len(Levels(a)[j]) # 1
      BY <2>1, <2>2
    <2>4. Len(Levels(a)[j]) \in Nat /\ Len(Levels(a)[j]) >= 1
      BY <1>1, <2>1 DEF IsLevel
    <2>5. \A x \in Nat : x >= 1 /\ x # 1 => x > 1
      OBVIOUS
    <2> QED
      BY <2>3, <2>4, <2>5
  <1>5. d \in 0 .. n /\ Len(Levels(a)[d]) = 1 /\ \A j \in 0 .. d - 1 : Len(Levels(a)[j]) > 1
    <2>1. k \in 0 .. n /\ Len(Levels(a)[k]) = 1
      BY <1>0, <1>3
    <2> QED
      BY <1>4, <2>1 DEF Depth
  <1> HIDE DEF d
  <1> DEFINE P == {i \in Nat : d <= i /\ i <= n => Levels(a)[i] = Levels(a)[d]}
  <1>6. P = Nat
    <2>1. P \in SUBSET Nat
      OBVIOUS
    <2>2. 0 \in P
      BY <1>0, <1>5
    <2>3. ASSUME NEW i \in P
          PROVE  i + 1 \in P
      <3>1. i \in Nat
        OBVIOUS
      <3>2. SUFFICES ASSUME d <= i + 1, i + 1 <= n
                     PROVE  Levels(a)[i + 1] = Levels(a)[d]
        BY <3>1
      <3>3. CASE d = i + 1
        BY <3>3
      <3>4. CASE d <= i
        <4>1. Levels(a)[i] = Levels(a)[d] /\ i \in 0 .. n
          BY <1>0, <3>1, <3>2, <3>4
        <4>2. Levels(a)[i + 1] = NextLevel(Levels(a)[i])
          BY <1>0, <3>2, <4>1, LevelsDefined
        <4>3. NextLevel(Levels(a)[i]) = Levels(a)[i]
          <5>1. Len(Levels(a)[i]) <= 1
            <6>1. Len(Levels(a)[i]) = 1
              BY <1>5, <4>1
            <6> QED
              BY <6>1
          <5> QED
            BY <1>1, <4>1, <5>1, OneRound
        <4> QED
          BY <4>1, <4>2, <4>3
      <3> QED
        BY <1>0, <1>5, <3>1, <3>2, <3>3, <3>4
    <2> HIDE DEF P
    <2> QED
      BY <2>1, <2>2, <2>3, SetInduction
  <1>7. Levels(a)[n] = Levels(a)[d]
    <2>1. n \in P
      BY <1>0, <1>6
    <2>2. d <= n /\ n <= n
      BY <1>0, <1>5
    <2> QED
      BY <2>1, <2>2
  <1> QED
    BY <1>5, <1>7 DEF d, root_hash

\* The position of what stands above a leaf is one of its level.
LEMMA PositionInLevel ==
    ASSUME NEW S, NEW a \in Seq(S), a # <<>>, NEW index \in 0 .. Len(a) - 1
    PROVE  \A k \in 0 .. Depth(a) :
               /\ Position(index, Depth(a))[k] \in Nat
               /\ Position(index, Depth(a))[k] < Len(Levels(a)[k])
  <1> DEFINE d == Depth(a)
             pos(k) == Position(index, d)[k]
             P == {k \in Nat : k <= d => pos(k) < Len(Levels(a)[k])}
  <1>0. Len(a) \in Nat /\ index \in Nat /\ d \in Nat /\ d <= Len(a) /\ index < Len(a)
    BY DepthValues
  <1>1. 0 \in P
    <2>1. Levels(a)[0] = LeafLevel(a) /\ pos(0) = index
      BY <1>0, LevelsDefined, PositionDefined
    <2>2. Len(LeafLevel(a)) = Len(a)
      BY <1>0 DEF LeafLevel
    <2> QED
      BY <1>0, <2>1, <2>2
  <1>2. ASSUME NEW k \in P
        PROVE  k + 1 \in P
    <2>1. k \in Nat
      OBVIOUS
    <2>2. SUFFICES ASSUME k + 1 <= d
                   PROVE  pos(k + 1) < Len(Levels(a)[k + 1])
      BY <2>1
    <2>3. k \in 0 .. d - 1 /\ k \in 0 .. d /\ k \in 0 .. Len(a) /\ k + 1 <= Len(a) /\ pos(k) < Len(Levels(a)[k])
      BY <1>0, <2>1, <2>2
    <2>4. Levels(a)[k + 1] = NextLevel(Levels(a)[k])
      BY <1>0, <2>3, LevelsDefined
    <2>5. IsLevel(Levels(a)[k]) /\ Len(Levels(a)[k]) > 1
      BY <2>3, LevelsShrink, DepthValues
    <2>6. pos(k) \in Nat /\ pos(k + 1) = pos(k) \div 2
      BY <1>0, <2>2, <2>3, PositionDefined
    <2> HIDE DEF pos, P
    <2> QED
      BY <2>3, <2>4, <2>5, <2>6, ClimbOneLevel
  <1>3. P = Nat
    <2>1. P \in SUBSET Nat
      OBVIOUS
    <2> HIDE DEF P
    <2> QED
      BY <1>1, <1>2, <2>1, SetInduction
  <1>4. ASSUME NEW k \in 0 .. d
        PROVE  pos(k) \in Nat /\ pos(k) < Len(Levels(a)[k])
    <2>1. k \in P /\ k <= d
      BY <1>0, <1>3
    <2>2. pos(k) \in Nat
      BY <1>0, PositionDefined
    <2> QED
      BY <2>1, <2>2
  <1> QED
    BY <1>4

\* With as many siblings as the tree has levels, the climb from an index reaches the
\* root only from the leaf at that index, and does reach it by the tree's siblings.
LEMMA Climbing ==
    ASSUME NEW S, NEW a \in Seq(S), a # <<>>, NEW index \in 0 .. Len(a) - 1,
           NEW p, p.index = index, Len(p.path) = Depth(a)
    PROVE  /\ verify_inclusion(p, root_hash(a)) => p.leaf_hash = a[index + 1]
           /\ /\ p.leaf_hash = a[index + 1]
              /\ \A k \in 1 .. Depth(a) :
                     p.path[k] = Sibling(Levels(a)[k - 1], Position(index, Depth(a))[k - 1])
              => verify_inclusion(p, root_hash(a))
  <1> DEFINE d == Depth(a)
             pos(k) == Position(index, d)[k]
             cur(k) == Climbed(p)[k]
             node(k) == Levels(a)[k][pos(k) + 1]
             Siblings == \A k \in 1 .. d : p.path[k] = Sibling(Levels(a)[k - 1], pos(k - 1))
             P == {k \in Nat : k <= d =>
                       /\ cur(k) = node(k) => p.leaf_hash = a[index + 1]
                       /\ p.leaf_hash = a[index + 1] /\ Siblings => cur(k) = node(k)}
  <1>0. /\ Len(a) \in Nat /\ DOMAIN a = 1 .. Len(a) /\ index \in Nat /\ index + 1 \in 1 .. Len(a)
        /\ d \in Nat /\ d <= Len(a)
    BY DepthValues
  <1>1. 0 \in P
    <2>1. Levels(a)[0] = LeafLevel(a) /\ pos(0) = index
      BY <1>0, LevelsDefined, PositionDefined
    <2>2. node(0) = LeafNode(a[index + 1])
      BY <1>0, <2>1 DEF LeafLevel
    <2>3. cur(0) = LeafNode(p.leaf_hash)
      BY <1>0, ClimbedDefined
    <2> HIDE DEF node, cur, Siblings
    <2> QED
      BY <2>2, <2>3, NodeHashes
  <1>2. ASSUME NEW k \in P
        PROVE  k + 1 \in P
    <2>1. k \in Nat
      OBVIOUS
    <2>2. CASE ~(k + 1 <= d)
      BY <2>1, <2>2
    <2>3. CASE k + 1 <= d
      <3> DEFINE A == Levels(a)[k]
      <3>1. k \in 0 .. d - 1 /\ k \in 0 .. d /\ k \in 0 .. Len(a) /\ k + 1 <= Len(a) /\ k <= d
            /\ k + 1 \in 1 .. d /\ (k + 1) - 1 = k
        BY <1>0, <2>1, <2>3
      <3>2. Levels(a)[k + 1] = NextLevel(A)
        BY <1>0, <3>1, LevelsDefined
      <3>3. IsLevel(A) /\ Len(A) > 1
        BY <3>1, LevelsShrink, DepthValues
      <3>4. pos(k) \in Nat /\ pos(k) < Len(A) /\ pos(k + 1) = pos(k) \div 2
        BY <1>0, <2>3, <3>1, PositionDefined, PositionInLevel
      <3>5. cur(k + 1) = IF pos(k) % 2 = 0 THEN InternalNode(cur(k), p.path[k + 1])
                         ELSE InternalNode(p.path[k + 1], cur(k))
        <4>1. cur(k + 1) = Climb(p, k + 1, cur(k), p.path[k + 1])
          BY <1>0, <2>3, <3>1, ClimbedDefined
        <4> HIDE DEF cur
        <4> QED
          BY <3>1, <4>1 DEF Climb
      <3>6. node(k) = A[pos(k) + 1] /\ node(k + 1) = NextLevel(A)[(pos(k) \div 2) + 1]
        BY <3>2, <3>4
      <3>7. Siblings => p.path[k + 1] = Sibling(A, pos(k))
        BY <3>1
      <3>8. k \in P /\ k <= d
        BY <3>1
      <3>9. /\ cur(k) = node(k) => p.leaf_hash = a[index + 1]
            /\ p.leaf_hash = a[index + 1] /\ Siblings => cur(k) = node(k)
        BY <3>8
      <3> HIDE DEF A, pos, cur, node, Siblings, P
      <3>10. cur(k + 1) = node(k + 1) => cur(k) = node(k)
        <4> HAVE cur(k + 1) = node(k + 1)
        <4>1. CASE pos(k) % 2 = 0
          <5>1. InternalNode(cur(k), p.path[k + 1]) = NextLevel(A)[(pos(k) \div 2) + 1]
            BY <3>5, <3>6, <4>1
          <5> QED
            BY <3>3, <3>4, <3>6, <4>1, <5>1, ClimbOneLevel
        <4>2. CASE pos(k) % 2 # 0
          <5>1. InternalNode(p.path[k + 1], cur(k)) = NextLevel(A)[(pos(k) \div 2) + 1]
            BY <3>5, <3>6, <4>2
          <5> QED
            BY <3>3, <3>4, <3>6, <4>2, <5>1, ClimbOneLevel
        <4> QED
          BY <4>1, <4>2
      <3>11. cur(k) = node(k) /\ Siblings => cur(k + 1) = node(k + 1)
        BY <3>3, <3>4, <3>5, <3>6, <3>7, ClimbOneLevel
      <3> QED
        BY <2>1, <3>9, <3>10, <3>11 DEF P
    <2> QED
      BY <2>2, <2>3
  <1>3. P = Nat
    <2>1. P \in SUBSET Nat
      OBVIOUS
    <2> HIDE DEF P
    <2> QED
      BY <1>1, <1>2, <2>1, SetInduction
  <1>4. /\ cur(d) = node(d) => p.leaf_hash = a[index + 1]
        /\ p.leaf_hash = a[index + 1] /\ Siblings => cur(d) = node(d)
    <2>1. d \in P /\ d <= d
      BY <1>0, <1>3
    <2> HIDE DEF cur, node, Siblings, d
    <2> QED
      BY <2>1
  <1>5. node(d) = root_hash(a)
    <2>1. d \in 0 .. d
      BY <1>0
    <2>2. pos(d) \in Nat /\ pos(d) < 1
      BY <2>1, DepthValues, PositionInLevel
    <2>3. pos(d) + 1 = 1
      BY <2>2
    <2> QED
      BY <2>3, DepthValues
  <1>6. verify_inclusion(p, root_hash(a)) <=> cur(d) = root_hash(a)
    BY DEF verify_inclusion
  <1> HIDE DEF cur, node, P
  <1> QED
    BY <1>4, <1>5, <1>6

-----------------------------------------------------------------------------
(***************************************************************************)
(* The results.                                                            *)
(***************************************************************************)

\* Two levels of one length with the same pairs above them are the same.
LEMMA PairsDetermineLevel ==
    ASSUME NEW a, NEW b, IsLevel(a), IsLevel(b), Len(a) = Len(b), NextLevel(a) = NextLevel(b)
    PROVE  a = b
  <1>0. Len(a) \in Nat /\ Len(a) >= 1 /\ DOMAIN a = 1 .. Len(a) /\ DOMAIN b = 1 .. Len(a)
    BY DEF IsLevel
  <1>1. CASE Len(a) <= 1
    <2>1. NextLevel(a) = a /\ NextLevel(b) = b
      BY <1>1, OneRound
    <2> QED
      BY <2>1
  <1>2. CASE Len(a) > 1
    <2> DEFINE pairs == (Len(a) + 1) \div 2
    <2>1. ASSUME NEW j \in 1 .. Len(a)
          PROVE  a[j] = b[j]
      <3> DEFINE i == (j + 1) \div 2
      <3>1. i \in 1 .. pairs /\ (j = 2 * i - 1 \/ (j = 2 * i /\ 2 * i <= Len(a)))
        BY <1>0
      <3> HIDE DEF i
      <3>2. /\ NextLevel(a)[i] = InternalNode(a[2 * i - 1], IF 2 * i <= Len(a) THEN a[2 * i] ELSE a[2 * i - 1])
            /\ NextLevel(b)[i] = InternalNode(b[2 * i - 1], IF 2 * i <= Len(a) THEN b[2 * i] ELSE b[2 * i - 1])
        BY <1>2, <3>1, OneRound
      <3>3. /\ a[2 * i - 1] = b[2 * i - 1]
            /\ 2 * i <= Len(a) => a[2 * i] = b[2 * i]
        BY <3>2, NodeHashes
      <3> QED
        BY <3>1, <3>3
    <2>2. a = [j \in 1 .. Len(a) |-> a[j]] /\ b = [j \in 1 .. Len(a) |-> b[j]]
      <3>1. a \in [1 .. Len(a) -> NodesOf(a)] /\ b \in [1 .. Len(a) -> NodesOf(b)]
        BY DEF IsLevel
      <3> QED
        BY <3>1
    <2> QED
      BY <2>1, <2>2
  <1> QED
    BY <1>0, <1>1, <1>2

\* Logs of one length: with the same root they are the same.
LEMMA SameRootSameLog ==
    ASSUME NEW S, NEW a \in Seq(S), NEW b \in Seq(S), Len(a) = Len(b), root_hash(a) = root_hash(b)
    PROVE  a = b
  <1> DEFINE n == Len(a)
             A(k) == Levels(a)[k]
             B(k) == Levels(b)[k]
             Q(k) == Len(A(k)) = Len(B(k)) /\ (A(k) = B(k) => a = b)
             P == {k \in Nat : k <= n => Q(k)}
  <1>1. SUFFICES ASSUME a # <<>>
                 PROVE  a = b
    OBVIOUS
  <1>0. n \in Nat /\ n >= 1 /\ b # <<>> /\ Len(b) = n
    BY <1>1
  <1>2. \A k \in 0 .. n : IsLevel(A(k)) /\ IsLevel(B(k))
    BY <1>0, <1>1, LevelsShrink
  <1>3. 0 \in P
    <2>1. A(0) = LeafLevel(a) /\ B(0) = LeafLevel(b)
      BY <1>0, LevelsDefined
    <2>2. DOMAIN a = 1 .. n /\ DOMAIN b = 1 .. n
      BY <1>0
    <2>3. Len(LeafLevel(a)) = n /\ Len(LeafLevel(b)) = n
      BY <1>0, <2>2 DEF LeafLevel
    <2>4. ASSUME LeafLevel(a) = LeafLevel(b)
          PROVE  a = b
      <3>1. \A i \in 1 .. n : LeafLevel(a)[i] = LeafNode(a[i]) /\ LeafLevel(b)[i] = LeafNode(b[i])
        BY <2>2 DEF LeafLevel
      <3>2. \A i \in 1 .. n : a[i] = b[i]
        BY <2>4, <3>1, NodeHashes
      <3> QED
        BY <1>0, <2>2, <3>2
    <2> QED
      BY <2>1, <2>3, <2>4
  <1>4. ASSUME NEW k \in P
        PROVE  k + 1 \in P
    <2>1. k \in Nat /\ k + 1 \in Nat
      OBVIOUS
    <2>2. SUFFICES ASSUME k + 1 <= n
                   PROVE  Q(k + 1)
      BY <2>1
    <2>3. Q(k) /\ k \in 0 .. n /\ k + 1 \in 0 .. n
      BY <1>0, <2>1, <2>2
    <2>4. A(k + 1) = NextLevel(A(k)) /\ B(k + 1) = NextLevel(B(k))
      BY <1>0, <2>2, <2>3, LevelsDefined
    <2>5. IsLevel(A(k)) /\ IsLevel(B(k)) /\ Len(A(k)) = Len(B(k))
      BY <1>2, <2>3
    <2>6. Len(NextLevel(A(k))) = Len(NextLevel(B(k)))
      <3> HIDE DEF A, B
      <3>1. Len(A(k)) \in Nat
        BY <2>5 DEF IsLevel
      <3>2. CASE Len(A(k)) <= 1
        BY <2>5, <3>2, OneRound
      <3>3. CASE Len(A(k)) > 1
        BY <2>5, <3>3, OneRound
      <3> QED
        BY <3>1, <3>2, <3>3
    <2>7. NextLevel(A(k)) = NextLevel(B(k)) => A(k) = B(k)
      BY <2>5, PairsDetermineLevel
    <2> HIDE DEF A, B
    <2> QED
      BY <2>3, <2>4, <2>6, <2>7
  <1>5. P = Nat
    <2>1. P \in SUBSET Nat
      OBVIOUS
    <2> HIDE DEF P
    <2> QED
      BY <1>3, <1>4, <2>1, SetInduction
  <1>6. Q(n)
    <2>1. n \in P /\ n <= n
      BY <1>0, <1>5
    <2> QED
      BY <2>1
  <1>7. A(n) = B(n)
    <2> DEFINE X == A(n)
               Y == B(n)
    <2>1. IsLevel(X) /\ IsLevel(Y) /\ Len(X) = 1 /\ Len(Y) = 1
      BY <1>0, <1>1, <1>2, LevelsShrink
    <2>2. X[1] = Y[1]
      BY <1>0, <1>1 DEF root_hash
    <2> HIDE DEF X, Y
    <2>3. X = Y
      <3>1. \A T : \A s \in Seq(T) : Len(s) = 1 => s = <<s[1]>>
        OBVIOUS
      <3>2. X = <<X[1]>> /\ Y = <<Y[1]>>
        BY <2>1, <3>1 DEF IsLevel
      <3> QED
        BY <2>2, <3>2
    <2> QED
      BY <2>3 DEF X, Y
  <1> QED
    BY <1>6, <1>7

\* What a proof has at each of its rounds, in the words of Climbing.
LEMMA PathOfProof ==
    ASSUME NEW S, NEW a \in Seq(S), NEW i \in DOMAIN a
    PROVE  /\ a # <<>> /\ i - 1 \in 0 .. Len(a) - 1 /\ (i - 1) + 1 = i
           /\ Depth(a) \in Nat /\ Len(inclusion_proof(a, i - 1).path) = Depth(a)
           /\ \A k \in 1 .. Depth(a) :
                  inclusion_proof(a, i - 1).path[k] =
                      Sibling(Levels(a)[k - 1], Position(i - 1, Depth(a))[k - 1])
  <1>1. a # <<>> /\ i - 1 \in 0 .. Len(a) - 1 /\ (i - 1) + 1 = i
    OBVIOUS
  <1>2. Depth(a) \in Nat
    BY <1>1, DepthValues
  <1> QED
    BY <1>1, <1>2 DEF inclusion_proof

\* The proof of an entry verifies.
LEMMA EntryVerifies ==
    ASSUME NEW S, NEW a \in Seq(S), NEW i \in DOMAIN a
    PROVE  verify_inclusion(inclusion_proof(a, i - 1), root_hash(a))
  <1> DEFINE p == inclusion_proof(a, i - 1)
  <1>1. p.index = i - 1 /\ p.leaf_hash = a[(i - 1) + 1]
    BY DEF inclusion_proof
  <1> HIDE DEF p
  <1>2. verify_inclusion(p, root_hash(a))
    BY <1>1, PathOfProof, Climbing DEF p
  <1> QED
    BY <1>2 DEF p

\* Its path verifies at its place for nothing else, and elsewhere only for what stands there.
LEMMA OnlyEntryVerifies ==
    ASSUME NEW S, NEW a \in Seq(S), NEW i \in DOMAIN a, NEW j \in DOMAIN a, NEW h,
           verify_inclusion([leaf_hash |-> h, index |-> j - 1,
                             path |-> inclusion_proof(a, i - 1).path],
                            root_hash(a))
    PROVE  a[j] = h
  <1> DEFINE p == [leaf_hash |-> h, index |-> j - 1, path |-> inclusion_proof(a, i - 1).path]
  <1>1. p.index = j - 1 /\ p.leaf_hash = h /\ Len(p.path) = Depth(a)
    BY PathOfProof
  <1>2. verify_inclusion(p, root_hash(a))
    OBVIOUS
  <1> HIDE DEF p
  <1>3. p.leaf_hash = a[(j - 1) + 1]
    BY PathOfProof, <1>1, <1>2, Climbing
  <1> QED
    BY PathOfProof, <1>1, <1>3

-----------------------------------------------------------------------------
(***************************************************************************)
(* Rounds: sets of nodes that grow by a step, as in Within and Reached.    *)
(***************************************************************************)

IsRounds(f, base, step, m) ==
    /\ f \in [0 .. m -> SUBSET Node]
    /\ f[0] = base
    /\ \A i \in 0 .. m : i + 1 <= m => f[i + 1] = step[f[i]]

LEMMA RoundsExist ==
    ASSUME NEW base \in SUBSET Node, NEW step \in [SUBSET Node -> SUBSET Node], NEW m \in Nat
    PROVE  \E f : IsRounds(f, base, step, m)
  <1> DEFINE P == {k \in Nat : \E f : IsRounds(f, base, step, k)}
  <1>1. 0 \in P
    <2>1. IsRounds([i \in 0 .. 0 |-> base], base, step, 0)
      BY DEF IsRounds
    <2> QED
      BY <2>1
  <1>2. ASSUME NEW k \in P
        PROVE  k + 1 \in P
    <2>1. PICK f : IsRounds(f, base, step, k)
      OBVIOUS
    <2>2. /\ k \in Nat /\ f \in [0 .. k -> SUBSET Node] /\ f[0] = base
          /\ \A i \in 0 .. k : i + 1 <= k => f[i + 1] = step[f[i]]
      BY <2>1 DEF IsRounds
    <2> DEFINE g == [i \in 0 .. k + 1 |-> IF i <= k THEN f[i] ELSE step[f[k]]]
    <2> HIDE DEF P
    <2>3. ASSUME NEW i \in 0 .. k + 1
          PROVE  g[i] \in SUBSET Node
      <3>1. CASE i <= k
        BY <2>2, <3>1
      <3>2. CASE ~(i <= k)
        <4>1. k \in 0 .. k
          BY <2>2
        <4>2. f[k] \in SUBSET Node
          BY <2>2, <4>1
        <4> QED
          BY <3>2, <4>2
      <3> QED
        BY <3>1, <3>2
    <2>4. g[0] = base
      BY <2>2
    <2>5. ASSUME NEW i \in 0 .. k + 1, i + 1 <= k + 1
          PROVE  g[i + 1] = step[g[i]]
      <3>1. i \in 0 .. k /\ i <= k /\ i + 1 \in 0 .. k + 1
        BY <2>2, <2>5
      <3>2. g[i] = f[i]
        BY <3>1
      <3>3. CASE i + 1 <= k
        BY <2>2, <3>1, <3>2, <3>3
      <3>4. CASE ~(i + 1 <= k)
        <4>1. i = k
          BY <2>2, <3>1, <3>4
        <4> QED
          BY <3>1, <3>2, <3>4, <4>1
      <3> QED
        BY <3>3, <3>4
    <2>6. g \in [0 .. k + 1 -> SUBSET Node]
      BY <2>3
    <2> HIDE DEF g
    <2>7. IsRounds(g, base, step, k + 1)
      BY <2>4, <2>5, <2>6 DEF IsRounds
    <2> QED
      BY <2>2, <2>7 DEF P
  <1>3. P = Nat
    <2>1. P \in SUBSET Nat
      OBVIOUS
    <2> HIDE DEF P
    <2> QED
      BY <1>1, <1>2, <2>1, SetInduction
  <1> QED
    BY <1>3

\* The number of rounds does not change what the first ones hold.
LEMMA RoundsAgree ==
    ASSUME NEW base, NEW step, NEW f, NEW g, NEW m \in Nat, NEW l \in Nat,
           IsRounds(f, base, step, m), IsRounds(g, base, step, l)
    PROVE  \A i \in Nat : i <= m /\ i <= l => f[i] = g[i]
  <1> DEFINE P == {i \in Nat : i <= m /\ i <= l => f[i] = g[i]}
  <1>1. 0 \in P
    BY DEF IsRounds
  <1>2. ASSUME NEW i \in P
        PROVE  i + 1 \in P
    <2>1. CASE i + 1 <= m /\ i + 1 <= l
      <3>1. i \in 0 .. m /\ i \in 0 .. l /\ f[i] = g[i]
        BY <2>1
      <3> HIDE DEF P
      <3>2. f[i + 1] = step[f[i]] /\ g[i + 1] = step[g[i]]
        BY <2>1, <3>1 DEF IsRounds
      <3> QED
        BY <3>1, <3>2 DEF P
    <2> QED
      BY <2>1
  <1>3. P = Nat
    <2>1. P \in SUBSET Nat
      OBVIOUS
    <2> HIDE DEF P
    <2> QED
      BY <1>1, <1>2, <2>1, SetInduction
  <1> QED
    BY <1>3

\* What follows the step from sets of nodes has these rounds.
LEMMA RoundsFollowed ==
    ASSUME NEW base, NEW step, NEW m \in Nat, NEW f, IsRounds(f, base, step, m),
           NEW g, g[0] = base,
           \A i \in 0 .. m : i + 1 <= m /\ g[i] \in SUBSET Node => g[i + 1] = step[g[i]]
    PROVE  g[m] = f[m]
  <1> DEFINE P == {i \in Nat : i <= m => g[i] = f[i]}
  <1>1. 0 \in P
    BY DEF IsRounds
  <1>2. ASSUME NEW i \in P
        PROVE  i + 1 \in P
    <2>1. i \in Nat /\ (i + 1 <= m => i \in 0 .. m /\ g[i] = f[i])
      OBVIOUS
    <2>2. i + 1 <= m => g[i + 1] = f[i + 1]
      BY <2>1 DEF IsRounds
    <2> QED
      BY <2>1, <2>2
  <1>3. P = Nat
    <2>1. P \in SUBSET Nat
      OBVIOUS
    <2> HIDE DEF P
    <2> QED
      BY <1>1, <1>2, <2>1, SetInduction
  <1> QED
    BY <1>3

\* The rounds solve the equation of a recursive function, and so does what it defines.
LEMMA RoundsSolve ==
    ASSUME NEW base, NEW step, NEW m \in Nat, NEW f, IsRounds(f, base, step, m)
    PROVE  f = [i \in 0 .. m |-> IF i = 0 THEN base ELSE step[f[i - 1]]]
  <1>1. \A i \in 0 .. m : f[i] = IF i = 0 THEN base ELSE step[f[i - 1]]
    <2> SUFFICES ASSUME NEW i \in 0 .. m, i # 0
                 PROVE  f[i] = step[f[i - 1]]
      BY DEF IsRounds
    <2>1. i - 1 \in 0 .. m /\ (i - 1) + 1 = i /\ i <= m
      OBVIOUS
    <2>2. f[(i - 1) + 1] = step[f[i - 1]]
      BY <2>1 DEF IsRounds
    <2> QED
      BY <2>1, <2>2
  <1>2. f = [i \in 0 .. m |-> f[i]]
    BY DEF IsRounds
  <1> QED
    BY <1>1, <1>2

\* Every round that is not the last marks something new.
Marking(mark, base, step) ==
    /\ \A N \in SUBSET Node :
           /\ N \subseteq step[N] /\ mark[N] \subseteq mark[step[N]]
           /\ mark[step[N]] = mark[N] => step[step[N]] = step[N]
    /\ step[base] = base \/ mark[base] # {}

SettledIn(R, base, step) == base \subseteq R /\ R \in SUBSET Node /\ step[R] = R

\* If the marks are members of a finite set, one round for each of them is enough.
LEMMA RoundsSettle ==
    ASSUME NEW base \in SUBSET Node, NEW step \in [SUBSET Node -> SUBSET Node],
           NEW U, IsFiniteSet(U), NEW mark \in [SUBSET Node -> SUBSET U],
           Marking(mark, base, step),
           NEW f, IsRounds(f, base, step, Cardinality(U))
    PROVE  SettledIn(f[Cardinality(U)], base, step)
  <1> DEFINE n == Cardinality(U)
             Settled(N) == step[N] = N
             Marked(N) == Cardinality(mark[N])
             Stage(k) == /\ base \subseteq f[k] /\ f[k] \in SUBSET Node
                         /\ Settled(f[k]) \/ Marked(f[k]) >= k + 1
             P == {k \in Nat : k <= n => Stage(k)}
  <1>0. n \in Nat
    BY FS_CardinalityType
  <1>1. \A N \in SUBSET Node : /\ mark[N] \in SUBSET U /\ IsFiniteSet(mark[N])
                               /\ Marked(N) \in Nat /\ Marked(N) <= n
    <2> SUFFICES ASSUME NEW N \in SUBSET Node
                 PROVE  /\ mark[N] \in SUBSET U /\ IsFiniteSet(mark[N])
                        /\ Marked(N) \in Nat /\ Marked(N) <= n
      OBVIOUS
    <2>1. mark[N] \in SUBSET U
      OBVIOUS
    <2> QED
      BY <2>1, FS_Subset, FS_CardinalityType
  <1>2. 0 \in P
    <2>1. f[0] = base
      BY DEF IsRounds
    <2>2. Settled(base) \/ Marked(base) >= 1
      <3>1. CASE mark[base] # {}
        <4>1. Marked(base) # 0
          BY <1>1, <3>1, FS_EmptySet
        <4> QED
          BY <1>1, <4>1
      <3> QED
        BY <3>1 DEF Marking
    <2>3. Stage(0)
      BY <2>1, <2>2
    <2> QED
      BY <2>3
  <1>3. ASSUME NEW k \in P, k + 1 <= n
        PROVE  Stage(k + 1)
    <2>1. k \in 0 .. n /\ Stage(k)
      BY <1>0, <1>3
    <2> DEFINE N == f[k]
               M == f[k + 1]
    <2>2. M = step[N] /\ N \in SUBSET Node /\ base \subseteq N
      BY <1>3, <2>1 DEF IsRounds
    <2>3. Settled(N) \/ Marked(N) >= k + 1
      BY <2>1
    <2> HIDE DEF N, M
    <2>4. M \in SUBSET Node /\ N \subseteq M /\ mark[N] \subseteq mark[M]
          /\ (mark[M] = mark[N] => Settled(M))
      BY <2>2 DEF Marking
    <2>5. Settled(M) \/ Marked(M) >= (k + 1) + 1
      <3>1. CASE Settled(N)
        BY <2>2, <3>1
      <3>2. CASE ~Settled(N) /\ mark[M] = mark[N]
        BY <2>4, <3>2
      <3>3. CASE ~Settled(N) /\ mark[M] # mark[N]
        <4>1. Marked(N) <= Marked(M) /\ (Marked(M) = Marked(N) => mark[M] = mark[N])
          BY <1>1, <2>2, <2>4, FS_Subset
        <4>2. Marked(N) \in Nat /\ Marked(M) \in Nat /\ Marked(N) >= k + 1
          BY <1>1, <2>2, <2>3, <2>4, <3>3
        <4>3. k \in Nat /\ Marked(M) # Marked(N)
          BY <2>1, <3>3, <4>1
        <4> HIDE DEF Marked
        <4> QED
          BY <4>1, <4>2, <4>3
      <3> QED
        BY <3>1, <3>2, <3>3
    <2>6. base \subseteq M
      BY <2>2, <2>4
    <2> QED
      BY <2>4, <2>5, <2>6 DEF M
  <1>4. Stage(n)
    <2>1. P \in SUBSET Nat /\ \A k \in P : k + 1 \in P
      <3> HIDE DEF Stage
      <3> QED
        BY <1>3
    <2> HIDE DEF P, Stage
    <2>2. P = Nat
      BY <1>2, <2>1, SetInduction
    <2>3. n \in P /\ n <= n
      BY <1>0, <2>2
    <2> QED
      BY <2>3 DEF P
  <1>5. Settled(f[n])
    <2>1. f[n] \in SUBSET Node
      BY <1>4
    <2>2. Marked(f[n]) \in Nat /\ ~(Marked(f[n]) >= n + 1)
      BY <1>0, <1>1, <2>1
    <2> QED
      BY <1>4, <2>2
  <1> QED
    BY <1>4, <1>5 DEF SettledIn

-----------------------------------------------------------------------------
(***************************************************************************)
(* The graph that a query works on.                                        *)
(***************************************************************************)

FiniteGraph ==
    /\ IsFiniteSet(Node)
    /\ PremiseSet \in [Edge -> SUBSET Node]
    /\ conclusion \in [Edge -> Node]
    /\ strength \in [Edge -> Kappa]

Strong(edges, k) == {e \in edges : strength[e] >= k}

\* What one more round adds.
Derived(edges, k, N) ==
    N \cup {conclusion[e] : e \in {f \in Strong(edges, k) : PremiseSet[f] \subseteq N}}

ClosedForward(edges, k, C) ==
    \A e \in edges : strength[e] >= k /\ PremiseSet[e] \subseteq C => conclusion[e] \in C

\* The least closed set that holds N.
Closure(edges, k, N) ==
    {n \in Node : \A C \in SUBSET Node : N \subseteq C /\ ClosedForward(edges, k, C) => n \in C}

LEMMA ClosureValues ==
    ASSUME FiniteGraph, NEW edges \in SUBSET Edge, NEW k, NEW N \in SUBSET Node
    PROVE  /\ Derived(edges, k, N) \in SUBSET Node /\ N \subseteq Derived(edges, k, N)
           /\ Closure(edges, k, N) = IF Derived(edges, k, N) = N THEN N
                                     ELSE Closure(edges, k, Derived(edges, k, N))
  <1> DEFINE M == Derived(edges, k, N)
  <1>1. M \in SUBSET Node /\ N \subseteq M
    BY DEF Derived, Strong, FiniteGraph
  <1>2. \A C \in SUBSET Node : ClosedForward(edges, k, C) => (N \subseteq C <=> M \subseteq C)
    BY DEF Derived, Strong, ClosedForward
  <1>3. M = N => ClosedForward(edges, k, N)
    BY DEF Derived, Strong, ClosedForward
  <1> HIDE DEF M
  <1>4. Closure(edges, k, N) = Closure(edges, k, M)
    BY <1>2 DEF Closure
  <1>5. M = N => Closure(edges, k, N) = N
    BY <1>3 DEF Closure
  <1>6. Closure(edges, k, N) = IF M = N THEN N ELSE Closure(edges, k, M)
    BY <1>4, <1>5
  <1> QED
    BY <1>1, <1>6 DEF M

\* Closure solves the recursion of Established, and nothing else does: every round but
\* the last leaves fewer nodes outside.
LEMMA EstablishedIsClosure ==
    ASSUME FiniteGraph, NEW edges \in SUBSET Edge, NEW k
    PROVE  Established(edges, k) = Closure(edges, k, {})
  <1> DEFINE next(N) == Derived(edges, k, N)
             Solves(f) == f = [N \in SUBSET Node |-> IF next(N) = N THEN N ELSE f[next(N)]]
             close == CHOOSE f : Solves(f)
             least == [N \in SUBSET Node |-> Closure(edges, k, N)]
  <1>1. \A N \in SUBSET Node : next(N) \in SUBSET Node /\ N \subseteq next(N)
    BY ClosureValues
  <1>2. \A N \in SUBSET Node : least[N] = IF next(N) = N THEN N ELSE least[next(N)]
    <2> SUFFICES ASSUME NEW N \in SUBSET Node
                 PROVE  least[N] = IF next(N) = N THEN N ELSE least[next(N)]
      OBVIOUS
    <2>1. next(N) \in SUBSET Node
      BY <1>1
    <2>2. least[N] = Closure(edges, k, N) /\ least[next(N)] = Closure(edges, k, next(N))
      BY <2>1
    <2>3. Closure(edges, k, N) = IF next(N) = N THEN N ELSE Closure(edges, k, next(N))
      BY ClosureValues
    <2> QED
      BY <2>2, <2>3
  <1>3. Established(edges, k) = close[{}]
    BY DEF Established, Derived, Strong
  <1> HIDE DEF next, close
  <1>4. Solves(least)
    <2>1. least = [N \in SUBSET Node |-> least[N]]
      OBVIOUS
    <2> HIDE DEF least
    <2> QED
      BY <1>2, <2>1
  <1>5. Solves(close)
    <2> HIDE DEF Solves
    <2> QED
      BY <1>4 DEF close
  <1>6. \A N \in SUBSET Node : close[N] = IF next(N) = N THEN N ELSE close[next(N)]
    BY <1>5
  <1> HIDE DEF least, Solves
  <1> DEFINE Outside(N) == Cardinality(Node \ N)
             P == {m \in Nat : \A N \in SUBSET Node : Outside(N) <= m => close[N] = least[N]}
  <1>7. \A N \in SUBSET Node : Outside(N) \in Nat
    <2> SUFFICES ASSUME NEW N \in SUBSET Node
                 PROVE  Outside(N) \in Nat
      OBVIOUS
    <2>1. Node \ N \in SUBSET Node
      OBVIOUS
    <2> QED
      BY <2>1, FS_Subset, FS_CardinalityType DEF FiniteGraph
  <1>8. \A N \in SUBSET Node : next(N) = N \/ Outside(next(N)) < Outside(N)
    <2> SUFFICES ASSUME NEW N \in SUBSET Node, next(N) # N
                 PROVE  Outside(next(N)) < Outside(N)
      OBVIOUS
    <2> DEFINE A == Node \ N
               B == Node \ next(N)
    <2>1. A \in SUBSET Node /\ B \in SUBSET A /\ A # B
      BY <1>1
    <2>2. IsFiniteSet(A)
      BY <2>1, FS_Subset DEF FiniteGraph
    <2>3. Cardinality(B) <= Cardinality(A) /\ Cardinality(A) # Cardinality(B)
      BY <2>1, <2>2, FS_Subset
    <2>4. Outside(N) \in Nat /\ Outside(next(N)) \in Nat
      BY <1>1, <1>7
    <2> HIDE DEF A, B
    <2>5. Cardinality(A) = Outside(N) /\ Cardinality(B) = Outside(next(N))
      BY DEF A, B
    <2> HIDE DEF Outside
    <2> QED
      BY <2>3, <2>4, <2>5
  <1>9. 0 \in P
    <2> SUFFICES ASSUME NEW N \in SUBSET Node, Outside(N) <= 0
                 PROVE  close[N] = least[N]
      OBVIOUS
    <2>1. next(N) = N
      <3>1. CASE Outside(next(N)) < Outside(N)
        <4>1. Outside(next(N)) \in Nat /\ Outside(N) \in Nat
          BY <1>1, <1>7
        <4> HIDE DEF Outside
        <4> QED
          BY <3>1, <4>1
      <3> QED
        BY <1>8, <3>1
    <2> QED
      BY <1>2, <1>6, <2>1
  <1>10. ASSUME NEW m \in P
         PROVE  m + 1 \in P
    <2>1. m \in Nat /\ \A N \in SUBSET Node : Outside(N) <= m => close[N] = least[N]
      OBVIOUS
    <2> HIDE DEF P
    <2>2. ASSUME NEW N \in SUBSET Node, Outside(N) <= m + 1
          PROVE  close[N] = least[N]
      <3>1. CASE next(N) = N
        BY <1>2, <1>6, <3>1
      <3>2. CASE next(N) # N
        <4>1. Outside(next(N)) <= m
          <5>1. /\ Outside(next(N)) \in Nat /\ Outside(N) \in Nat
                /\ Outside(next(N)) < Outside(N)
            BY <1>1, <1>7, <1>8, <3>2
          <5> HIDE DEF Outside
          <5> QED
            BY <2>1, <2>2, <5>1
        <4>2. close[next(N)] = least[next(N)]
          BY <1>1, <2>1, <4>1
        <4> QED
          BY <1>2, <1>6, <3>2, <4>2
      <3> QED
        BY <3>1, <3>2
    <2> HIDE DEF Outside
    <2> QED
      BY <2>1, <2>2 DEF P
  <1>11. close[{}] = least[{}]
    <2>1. P \in SUBSET Nat
      OBVIOUS
    <2> HIDE DEF P, Outside
    <2>2. P = Nat
      BY <1>9, <1>10, <2>1, SetInduction
    <2>3. Outside({}) \in P /\ Outside({}) <= Outside({})
      BY <1>7, <2>2
    <2> QED
      BY <2>3 DEF P
  <1> QED
    BY <1>3, <1>11 DEF least

(***************************************************************************)
(* What reachable calls established at strength k is closed under the      *)
(* edges of at least that strength, and is within every set that is.       *)
(***************************************************************************)
THEOREM EstablishedIsLeast ==
    ASSUME FiniteGraph, NEW edges \in SUBSET Edge, NEW k
    PROVE  /\ Established(edges, k) \in SUBSET Node
           /\ ClosedForward(edges, k, Established(edges, k))
           /\ \A C \in SUBSET Node : ClosedForward(edges, k, C) => Established(edges, k) \subseteq C
  <1> DEFINE L == Closure(edges, k, {})
  <1>1. L \in SUBSET Node /\ \A C \in SUBSET Node : ClosedForward(edges, k, C) => L \subseteq C
    BY DEF Closure
  <1>2. ASSUME NEW e \in edges, strength[e] >= k, PremiseSet[e] \subseteq L
        PROVE  conclusion[e] \in L
    <2>1. conclusion[e] \in Node
      BY DEF FiniteGraph
    <2>2. \A C \in SUBSET Node : ClosedForward(edges, k, C) => conclusion[e] \in C
      BY <1>1, <1>2 DEF ClosedForward
    <2> QED
      BY <2>1, <2>2 DEF Closure
  <1>3. ClosedForward(edges, k, L)
    <2> HIDE DEF L
    <2> QED
      BY <1>2 DEF ClosedForward
  <1> QED
    BY <1>1, <1>3, EstablishedIsClosure

-----------------------------------------------------------------------------
(***************************************************************************)
(* The rounds of Within, and that there are enough of them.                *)
(***************************************************************************)

LEMMA WithinRounds ==
    ASSUME FiniteGraph, NEW edges \in SUBSET Edge, NEW k, NEW d \in Nat
    PROVE  /\ [N \in SUBSET Node |-> Derived(edges, k, N)] \in [SUBSET Node -> SUBSET Node]
           /\ Derived(edges, k, {}) \in SUBSET Node
           /\ \E f : /\ IsRounds(f, Derived(edges, k, {}), [N \in SUBSET Node |-> Derived(edges, k, N)], d)
                     /\ Within(edges, k, d) = f[d]
  <1> DEFINE m == d
             start == Derived(edges, k, {})
             step == [N \in SUBSET Node |-> Derived(edges, k, N)]
             Solves(f) == f = [i \in 0 .. m |-> Derived(edges, k, IF i = 0 THEN {} ELSE f[i - 1])]
             level == CHOOSE f : Solves(f)
  <1>0. m \in Nat
    OBVIOUS
  <1>1. step \in [SUBSET Node -> SUBSET Node] /\ start \in SUBSET Node
    <2>1. \A N \in SUBSET Node : Derived(edges, k, N) \in SUBSET Node
      BY ClosureValues
    <2>2. {} \in SUBSET Node
      OBVIOUS
    <2> QED
      BY <2>1, <2>2
  <1>2. Within(edges, k, d) = level[m]
    BY DEF Within, Derived, Strong
  <1> HIDE DEF level, m
  <1>3. PICK f : IsRounds(f, start, step, m)
    <2> HIDE DEF step, start
    <2> QED
      BY <1>0, <1>1, RoundsExist
  <1>4. Solves(f)
    <2>1. /\ f = [i \in 0 .. m |-> IF i = 0 THEN start ELSE step[f[i - 1]]]
          /\ f \in [0 .. m -> SUBSET Node]
      <3> HIDE DEF step, start
      <3> QED
        BY <1>0, <1>3, RoundsSolve DEF IsRounds
    <2>2. \A i \in 0 .. m : i # 0 => i - 1 \in 0 .. m
      BY <1>0
    <2>3. \A i \in 0 .. m : i # 0 => step[f[i - 1]] = Derived(edges, k, f[i - 1])
      BY <2>1, <2>2
    <2>4. \A i \in 0 .. m : (IF i = 0 THEN start ELSE step[f[i - 1]])
                                = Derived(edges, k, IF i = 0 THEN {} ELSE f[i - 1])
      BY <2>3
    <2> HIDE DEF step, start
    <2> QED
      BY <2>1, <2>4
  <1>5. Solves(level)
    <2> HIDE DEF Solves
    <2> QED
      BY <1>4 DEF level
  <1>6. /\ level[0] = start
        /\ \A i \in 0 .. m : i + 1 <= m => level[i + 1] = Derived(edges, k, level[i])
    <2>1. \A i \in 0 .. m : level[i] = Derived(edges, k, IF i = 0 THEN {} ELSE level[i - 1])
      BY <1>5
    <2>2. 0 \in 0 .. m /\ \A i \in 0 .. m : i + 1 <= m => i + 1 \in 0 .. m /\ i + 1 # 0 /\ (i + 1) - 1 = i
      BY <1>0
    <2> QED
      BY <2>1, <2>2
  <1>7. \A i \in 0 .. m : i + 1 <= m /\ level[i] \in SUBSET Node => level[i + 1] = step[level[i]]
    BY <1>6
  <1>8. level[m] = f[m]
    <2> HIDE DEF step, start
    <2> QED
      BY <1>0, <1>3, <1>6, <1>7, RoundsFollowed
  <1> QED
    BY <1>1, <1>2, <1>3, <1>8 DEF m

LEMMA WithinValues ==
    ASSUME FiniteGraph, NEW edges \in SUBSET Edge, NEW k
    PROVE  /\ Within(edges, k, 0) = Derived(edges, k, {})
           /\ \A d \in Nat : /\ Within(edges, k, d) \in SUBSET Node
                             /\ Within(edges, k, d + 1) = Derived(edges, k, Within(edges, k, d))
  <1> DEFINE step == [N \in SUBSET Node |-> Derived(edges, k, N)]
             start == Derived(edges, k, {})
  <1>1. \A d \in Nat : \E f : IsRounds(f, start, step, d) /\ Within(edges, k, d) = f[d]
    BY WithinRounds
  <1> HIDE DEF start
  <1>2. Within(edges, k, 0) = start
    <2>1. \E f : IsRounds(f, start, step, 0) /\ Within(edges, k, 0) = f[0]
      <3> HIDE DEF step
      <3> QED
        BY <1>1
    <2>2. PICK f : IsRounds(f, start, step, 0) /\ Within(edges, k, 0) = f[0]
      BY <2>1
    <2> QED
      BY <2>2 DEF IsRounds
  <1>3. ASSUME NEW d \in Nat
        PROVE  /\ Within(edges, k, d) \in SUBSET Node
               /\ Within(edges, k, d + 1) = Derived(edges, k, Within(edges, k, d))
    <2>1. PICK f : IsRounds(f, start, step, d) /\ Within(edges, k, d) = f[d]
      BY <1>1
    <2>n. d + 1 \in Nat
      OBVIOUS
    <2>2. PICK g : IsRounds(g, start, step, d + 1) /\ Within(edges, k, d + 1) = g[d + 1]
      <3> HIDE DEF step
      <3> QED
        BY <1>1, <2>n
    <2>3. d \in 0 .. d /\ d \in 0 .. d + 1 /\ d <= d + 1 /\ d + 1 \in Nat
      OBVIOUS
    <2>4. Within(edges, k, d) \in SUBSET Node
      BY <2>1, <2>3 DEF IsRounds
    <2>5. f[d] = g[d]
      <3> HIDE DEF step
      <3> QED
        BY <2>1, <2>2, <2>3, RoundsAgree
    <2>6. g[d + 1] = step[g[d]]
      <3> HIDE DEF step
      <3> QED
        BY <2>2, <2>3 DEF IsRounds
    <2> QED
      BY <2>1, <2>2, <2>4, <2>5, <2>6
  <1> QED
    BY <1>2, <1>3 DEF start

LEMMA WithinGrows ==
    ASSUME FiniteGraph, NEW edges \in SUBSET Edge, NEW k
    PROVE  \A d, e \in Nat : d <= e => Within(edges, k, d) \subseteq Within(edges, k, e)
  <1> DEFINE W(d) == Within(edges, k, d)
  <1>0. \A d \in Nat : W(d) \subseteq W(d + 1)
    <2>1. \A d \in Nat : W(d) \in SUBSET Node /\ W(d + 1) = Derived(edges, k, W(d))
      BY WithinValues
    <2>2. \A N \in SUBSET Node : N \subseteq Derived(edges, k, N)
      BY ClosureValues
    <2> HIDE DEF W
    <2> QED
      BY <2>1, <2>2
  <1> HIDE DEF W
  <1> SUFFICES ASSUME NEW d \in Nat
               PROVE  \A e \in Nat : d <= e => W(d) \subseteq W(e)
    BY DEF W
  <1> DEFINE P == {e \in Nat : d <= e => W(d) \subseteq W(e)}
  <1>1. 0 \in P
    OBVIOUS
  <1>2. ASSUME NEW e \in P
        PROVE  e + 1 \in P
    <2>1. e \in Nat /\ W(e) \subseteq W(e + 1)
      BY <1>0
    <2>2. d <= e \/ d = e + 1 \/ ~(d <= e + 1)
      BY <2>1
    <2> QED
      BY <2>1, <2>2
  <1>3. P = Nat
    <2>1. P \in SUBSET Nat
      OBVIOUS
    <2> HIDE DEF P
    <2> QED
      BY <1>1, <1>2, <2>1, SetInduction
  <1> QED
    BY <1>3

\* Rounds only derive what every closed set holds.
LEMMA WithinEstablished ==
    ASSUME FiniteGraph, NEW edges \in SUBSET Edge, NEW k
    PROVE  \A d \in Nat : Within(edges, k, d) \subseteq Established(edges, k)
  <1> DEFINE E == Established(edges, k)
             P == {d \in Nat : Within(edges, k, d) \subseteq E}
  <1>1. E \in SUBSET Node /\ \A N \in SUBSET Node : N \subseteq E => Derived(edges, k, N) \subseteq E
    <2>1. E \in SUBSET Node /\ ClosedForward(edges, k, E)
      BY EstablishedIsLeast
    <2> HIDE DEF E
    <2> QED
      BY <2>1 DEF ClosedForward, Derived, Strong
  <1> HIDE DEF E
  <1>2. 0 \in P
    <2>1. {} \in SUBSET Node /\ {} \subseteq E
      OBVIOUS
    <2> QED
      BY <1>1, <2>1, WithinValues
  <1>3. ASSUME NEW d \in P
        PROVE  d + 1 \in P
    BY <1>1, WithinValues
  <1>4. P = Nat
    <2>1. P \in SUBSET Nat
      OBVIOUS
    <2> HIDE DEF P
    <2> QED
      BY <1>2, <1>3, <2>1, SetInduction
  <1> QED
    BY <1>4 DEF E

(***************************************************************************)
(* One round for each node derives everything there is to derive.          *)
(***************************************************************************)
THEOREM RoundsSuffice ==
    ASSUME FiniteGraph, NEW edges \in SUBSET Edge, NEW k
    PROVE  Established(edges, k) = Within(edges, k, Cardinality(Node))
  <1> DEFINE n == Cardinality(Node)
             start == Derived(edges, k, {})
             step == [N \in SUBSET Node |-> Derived(edges, k, N)]
             mark == [N \in SUBSET Node |-> N]
  <1>0. n \in Nat /\ IsFiniteSet(Node)
    BY FS_CardinalityType DEF FiniteGraph
  <1>1. PICK f : IsRounds(f, start, step, n) /\ Within(edges, k, n) = f[n]
    BY <1>0, WithinRounds
  <1>2. step \in [SUBSET Node -> SUBSET Node] /\ start \in SUBSET Node
    BY <1>0, WithinRounds
  <1>3. \A N \in SUBSET Node : step[N] = Derived(edges, k, N) /\ N \subseteq step[N] /\ mark[N] = N
    BY ClosureValues
  <1>4. {} \in SUBSET Node /\ step[{}] = start
    BY <1>3
  <1> HIDE DEF step, start, mark
  <1>5. Marking(mark, start, step)
    BY <1>2, <1>3, <1>4 DEF Marking
  <1>6. mark \in [SUBSET Node -> SUBSET Node]
    BY DEF mark
  <1>7. SettledIn(f[n], start, step)
    BY <1>0, <1>1, <1>2, <1>5, <1>6, RoundsSettle
  <1> DEFINE R == f[n]
  <1>8. R \in SUBSET Node /\ Derived(edges, k, R) = R
    BY <1>3, <1>7 DEF SettledIn
  <1> HIDE DEF R
  <1>9. ClosedForward(edges, k, R)
    BY <1>8 DEF ClosedForward, Derived, Strong
  <1>10. Established(edges, k) \subseteq R
    BY <1>8, <1>9, EstablishedIsLeast
  <1>11. R \subseteq Established(edges, k)
    BY <1>0, <1>1, WithinEstablished DEF R
  <1> QED
    BY <1>1, <1>10, <1>11 DEF R

-----------------------------------------------------------------------------
(***************************************************************************)
(* The labels say what these sets hold.                                    *)
(***************************************************************************)

\* A condition on more strength holds of fewer edges.
LEMMA EstablishedShrinks ==
    ASSUME FiniteGraph, NEW edges \in SUBSET Edge
    PROVE  \A k, l \in Int : k <= l => Established(edges, l) \subseteq Established(edges, k)
  <1> SUFFICES ASSUME NEW k \in Int, NEW l \in Int, k <= l
               PROVE  Established(edges, l) \subseteq Established(edges, k)
    OBVIOUS
  <1> DEFINE E == Established(edges, k)
  <1>1. E \in SUBSET Node /\ ClosedForward(edges, k, E)
    BY EstablishedIsLeast
  <1>2. \A e \in edges : strength[e] \in Int
    BY DEF FiniteGraph, Kappa
  <1> HIDE DEF E
  <1>3. ClosedForward(edges, l, E)
    BY <1>1, <1>2 DEF ClosedForward
  <1> QED
    BY <1>1, <1>3, EstablishedIsLeast DEF E

\* KappaOf is the strongest label at which a node is established, and Absent if it is
\* established at none.
THEOREM KappaOfIsStrongest ==
    ASSUME FiniteGraph, NEW edges \in SUBSET Edge, NEW n
    PROVE  /\ KappaOf(edges, n) \in Kappa \cup {Absent}
           /\ \A k \in Kappa : n \in Established(edges, k) <=> KappaOf(edges, n) >= k
  <1> DEFINE S == {Absent} \cup {k \in Kappa : n \in Established(edges, k)}
             x == Max(S)
  <1>1. S \subseteq {-1, 0, 1, 2, 3, 4} /\ -1 \in S
    BY DEF Absent, Kappa
  <1>2. KappaOf(edges, n) = x
    BY DEF KappaOf
  <1>3. \A k \in Kappa : n \in Established(edges, k) <=> k \in S
    BY DEF Absent, Kappa
  <1>4. \A k, l \in Kappa : k <= l /\ l \in S => k \in S
    <2>1. \A k, l \in Kappa : k <= l => Established(edges, l) \subseteq Established(edges, k)
      BY EstablishedShrinks DEF Kappa
    <2> HIDE DEF S
    <2> QED
      BY <1>3, <2>1
  <1> HIDE DEF S
  <1>5. \E m \in S : \A l \in S : m >= l
    <2>1. CASE 4 \in S
      BY <1>1, <2>1
    <2>2. CASE 4 \notin S /\ 3 \in S
      BY <1>1, <2>2
    <2>3. CASE 4 \notin S /\ 3 \notin S /\ 2 \in S
      BY <1>1, <2>3
    <2>4. CASE 4 \notin S /\ 3 \notin S /\ 2 \notin S /\ 1 \in S
      BY <1>1, <2>4
    <2>5. CASE 4 \notin S /\ 3 \notin S /\ 2 \notin S /\ 1 \notin S
      BY <1>1, <2>5
    <2> QED
      BY <2>1, <2>2, <2>3, <2>4, <2>5
  <1>6. x \in S /\ \A l \in S : x >= l
    BY <1>5 DEF Max
  <1> HIDE DEF x
  <1>7. x \in Kappa \cup {Absent}
    BY <1>1, <1>6 DEF Kappa, Absent
  <1>8. \A k \in Kappa : k \in S <=> x >= k
    <2> SUFFICES ASSUME NEW k \in Kappa, x >= k
                 PROVE  k \in S
      BY <1>6
    <2>1. x \in Kappa /\ k <= x
      BY <1>7 DEF Kappa, Absent
    <2> QED
      BY <1>4, <1>6, <2>1
  <1> QED
    BY <1>2, <1>3, <1>7, <1>8

\* DepthOf is the least number of rounds in which a node is derived, and Absent if no
\* number of rounds derives it.
THEOREM DepthOfIsLeast ==
    ASSUME FiniteGraph, NEW edges \in SUBSET Edge, NEW n
    PROVE  /\ DepthOf(edges, n) \in Nat \cup {Absent}
           /\ DepthOf(edges, n) = Absent <=> n \notin Established(edges, 0)
           /\ \A d \in Nat : n \in Within(edges, 0, d) <=>
                                 DepthOf(edges, n) # Absent /\ DepthOf(edges, n) <= d
  <1> DEFINE m == Cardinality(Node)
             S == {d \in 0 .. m : n \in Within(edges, 0, d)}
             x == Min(S)
  <1>0. m \in Nat
    BY FS_CardinalityType DEF FiniteGraph
  <1>1. DepthOf(edges, n) = IF n \in Established(edges, 0) THEN x ELSE Absent
    BY DEF DepthOf
  <1>2. \A d \in Nat : n \in Within(edges, 0, d) => n \in Established(edges, 0)
    BY WithinEstablished
  <1>3. n \in Established(edges, 0) <=> m \in S
    <2>1. m \in 0 .. m
      BY <1>0
    <2>2. n \in Established(edges, 0) <=> n \in Within(edges, 0, m)
      BY RoundsSuffice
    <2> HIDE DEF m
    <2> QED
      BY <2>1, <2>2
  <1>4. S \in SUBSET Nat /\ \A d \in S : d <= m /\ n \in Within(edges, 0, d)
    BY <1>0
  <1>5. \A d \in Nat : d <= m => (d \in S <=> n \in Within(edges, 0, d))
    BY <1>0
  <1>6. ASSUME n \in Established(edges, 0)
        PROVE  x \in S /\ \A l \in S : x <= l
    <2>1. \E d \in S : \A l \in S : d <= l
      <3> HIDE DEF S
      <3> QED
        BY <1>3, <1>4, <1>6, LeastNumber
    <2> HIDE DEF S
    <2> QED
      BY <2>1 DEF Min
  <1> HIDE DEF S, x, m
  <1>7. ASSUME n \in Established(edges, 0), NEW d \in Nat
        PROVE  n \in Within(edges, 0, d) <=> x <= d
    <2>1. x \in Nat /\ x <= m /\ n \in Within(edges, 0, x)
      BY <1>4, <1>6, <1>7
    <2>2. x <= d => n \in Within(edges, 0, d)
      BY <1>7, <2>1, WithinGrows
    <2>3. n \in Within(edges, 0, d) => x <= d
      <3>1. CASE d <= m
        BY <1>5, <1>6, <1>7, <3>1
      <3>2. CASE ~(d <= m)
        BY <1>0, <1>7, <2>1, <3>2
      <3> QED
        BY <3>1, <3>2
    <2> QED
      BY <2>2, <2>3
  <1>8. CASE n \in Established(edges, 0)
    <2>1. x \in S
      BY <1>6, <1>8
    <2>2. x \in Nat
      BY <1>4, <2>1
    <2>3. x # Absent
      BY <2>2 DEF Absent
    <2>4. DepthOf(edges, n) = x
      BY <1>1, <1>8
    <2> QED
      BY <1>7, <1>8, <2>2, <2>3, <2>4
  <1>9. CASE n \notin Established(edges, 0)
    BY <1>1, <1>2, <1>9
  <1> QED
    BY <1>8, <1>9

-----------------------------------------------------------------------------
(***************************************************************************)
(* The nodes that the walk back from a target reaches.                     *)
(***************************************************************************)

\* What one more round adds.
Further(edges, enough, N) ==
    N \cup UNION {Blocking(e, enough) : e \in {f \in edges : conclusion[f] \in N}}

ClosedBack(edges, enough, C) ==
    \A e \in edges : conclusion[e] \in C => Blocking(e, enough) \subseteq C

LEMMA FurtherValues ==
    ASSUME FiniteGraph, NEW edges \in SUBSET Edge, NEW enough, NEW N \in SUBSET Node
    PROVE  /\ N \subseteq Further(edges, enough, N)
           /\ Further(edges, enough, N) \in SUBSET Node
           /\ ClosedBack(edges, enough, N) <=> Further(edges, enough, N) = N
           /\ \A C : N \subseteq C /\ ClosedBack(edges, enough, C) => Further(edges, enough, N) \subseteq C
  <1>1. \A e \in Edge : Blocking(e, enough) \subseteq Node
    BY DEF Blocking, FiniteGraph
  <1> QED
    BY <1>1 DEF Further, ClosedBack

LEMMA ReachedRounds ==
    ASSUME FiniteGraph, NEW edges \in SUBSET Edge, NEW enough, NEW target \in Node
    PROVE  /\ [N \in SUBSET Node |-> Further(edges, enough, N)] \in [SUBSET Node -> SUBSET Node]
           /\ {target} \in SUBSET Node
           /\ \E f : /\ IsRounds(f, {target}, [N \in SUBSET Node |-> Further(edges, enough, N)], Cardinality(Node))
                     /\ Reached(edges, target, enough) = f[Cardinality(Node)]
  <1> DEFINE m == Cardinality(Node)
             start == {target}
             step == [N \in SUBSET Node |-> Further(edges, enough, N)]
             Solves(f) == f = [i \in 0 .. m |-> IF i = 0 THEN start ELSE Further(edges, enough, f[i - 1])]
             level == CHOOSE f : Solves(f)
  <1>0. m \in Nat
    BY FS_CardinalityType DEF FiniteGraph
  <1>1. step \in [SUBSET Node -> SUBSET Node] /\ start \in SUBSET Node
    BY FurtherValues
  <1>2. Reached(edges, target, enough) = level[m]
    BY DEF Reached, Further
  <1> HIDE DEF level, m, start
  <1>3. PICK f : IsRounds(f, start, step, m)
    <2> HIDE DEF step
    <2> QED
      BY <1>0, <1>1, RoundsExist
  <1>4. Solves(f)
    <2>1. /\ f = [i \in 0 .. m |-> IF i = 0 THEN start ELSE step[f[i - 1]]]
          /\ f \in [0 .. m -> SUBSET Node]
      <3> HIDE DEF step
      <3> QED
        BY <1>0, <1>3, RoundsSolve DEF IsRounds
    <2>2. \A i \in 0 .. m : i # 0 => i - 1 \in 0 .. m
      BY <1>0
    <2>3. \A i \in 0 .. m : i # 0 => step[f[i - 1]] = Further(edges, enough, f[i - 1])
      BY <2>1, <2>2
    <2> QED
      BY <2>1, <2>3
  <1>5. Solves(level)
    <2> HIDE DEF Solves
    <2> QED
      BY <1>4 DEF level
  <1>6. /\ level[0] = start
        /\ \A i \in 0 .. m : i + 1 <= m => level[i + 1] = Further(edges, enough, level[i])
    <2>1. \A i \in 0 .. m : level[i] = IF i = 0 THEN start ELSE Further(edges, enough, level[i - 1])
      BY <1>5
    <2>2. 0 \in 0 .. m /\ \A i \in 0 .. m : i + 1 <= m => i + 1 \in 0 .. m /\ i + 1 # 0 /\ (i + 1) - 1 = i
      BY <1>0
    <2> QED
      BY <2>1, <2>2
  <1>7. \A i \in 0 .. m : i + 1 <= m /\ level[i] \in SUBSET Node => level[i + 1] = step[level[i]]
    BY <1>6
  <1>8. level[m] = f[m]
    <2> HIDE DEF step
    <2> QED
      BY <1>0, <1>3, <1>6, <1>7, RoundsFollowed
  <1> QED
    BY <1>1, <1>2, <1>3, <1>8 DEF m, start

\* A family of rounds that stays within every closed set.
LEMMA RoundsWithin ==
    ASSUME NEW base, NEW step, NEW m \in Nat, NEW f, IsRounds(f, base, step, m),
           NEW C, base \subseteq C,
           \A N \in SUBSET Node : N \subseteq C => step[N] \subseteq C
    PROVE  f[m] \subseteq C
  <1> DEFINE P == {i \in Nat : i <= m => f[i] \subseteq C}
  <1>1. 0 \in P
    BY DEF IsRounds
  <1>2. ASSUME NEW i \in P
        PROVE  i + 1 \in P
    <2>1. i \in Nat /\ (i + 1 <= m => i \in 0 .. m /\ f[i] \subseteq C)
      OBVIOUS
    <2>2. i + 1 <= m => f[i + 1] = step[f[i]] /\ f[i] \in SUBSET Node
      BY <2>1 DEF IsRounds
    <2> QED
      BY <2>1, <2>2
  <1>3. P = Nat
    <2>1. P \in SUBSET Nat
      OBVIOUS
    <2> HIDE DEF P
    <2> QED
      BY <1>1, <1>2, <2>1, SetInduction
  <1> QED
    BY <1>3

(***************************************************************************)
(* The walk reaches the least set that holds the target and, with a node,  *)
(* what blocks the edges that conclude it.                                 *)
(***************************************************************************)
THEOREM ReachedIsLeast ==
    ASSUME FiniteGraph, NEW edges \in SUBSET Edge, NEW target \in Node, NEW enough
    PROVE  LET R == Reached(edges, target, enough)
           IN  /\ target \in R /\ R \in SUBSET Node
               /\ ClosedBack(edges, enough, R)
               /\ \A C : target \in C /\ ClosedBack(edges, enough, C) => R \subseteq C
  <1> DEFINE n == Cardinality(Node)
             start == {target}
             step == [N \in SUBSET Node |-> Further(edges, enough, N)]
             mark == [N \in SUBSET Node |-> N]
  <1>0. n \in Nat /\ IsFiniteSet(Node)
    BY FS_CardinalityType DEF FiniteGraph
  <1>1. PICK f : IsRounds(f, start, step, n) /\ Reached(edges, target, enough) = f[n]
    BY ReachedRounds
  <1>2. step \in [SUBSET Node -> SUBSET Node] /\ start \in SUBSET Node
    BY ReachedRounds
  <1>3. \A N \in SUBSET Node : step[N] = Further(edges, enough, N) /\ N \subseteq step[N] /\ mark[N] = N
    BY FurtherValues
  <1>4. start # {} /\ mark \in [SUBSET Node -> SUBSET Node]
    OBVIOUS
  <1> HIDE DEF step, mark
  <1>5. Marking(mark, start, step)
    <2> HIDE DEF start
    <2> QED
      BY <1>2, <1>3, <1>4 DEF Marking
  <1>6. SettledIn(f[n], start, step)
    <2> HIDE DEF start
    <2> QED
      BY <1>0, <1>1, <1>2, <1>4, <1>5, RoundsSettle
  <1> DEFINE R == f[n]
  <1>7. R \in SUBSET Node /\ target \in R /\ Further(edges, enough, R) = R
    BY <1>3, <1>6 DEF SettledIn
  <1>8. ASSUME NEW C, target \in C, ClosedBack(edges, enough, C)
        PROVE  R \subseteq C
    <2>1. \A N \in SUBSET Node : N \subseteq C => step[N] \subseteq C
      BY <1>3, <1>8, FurtherValues
    <2>2. start \subseteq C
      BY <1>8
    <2> HIDE DEF start
    <2> QED
      BY <1>0, <1>1, <2>1, <2>2, RoundsWithin
  <1> HIDE DEF R
  <1>9. ClosedBack(edges, enough, R)
    BY <1>7, FurtherValues
  <1>10. Reached(edges, target, enough) = R
    BY <1>1 DEF R
  <1> QED
    BY <1>7, <1>8, <1>9, <1>10

=============================================================================
