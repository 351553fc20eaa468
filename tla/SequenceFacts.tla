---------------------------- MODULE SequenceFacts ----------------------------
(***************************************************************************)
(* What the proofs about byte strings need of numbers and sequences.       *)
(* Induction is stated for sets: that a set holds 0 and the successor of   *)
(* each of its elements is a fact that the provers can be given, whatever  *)
(* the set is.  It rests on the smallest element that every non-empty set  *)
(* of natural numbers has.  The same fact gives recursive functions their  *)
(* equations: a recursion whose ranks are bounded has a solution.          *)
(***************************************************************************)
EXTENDS Dict, SequenceTheorems, FiniteSetTheorems,
        WellFoundedInduction, TLAPS

-----------------------------------------------------------------------------
(* Induction and recursion *)

\* A non-empty set of natural numbers has a smallest element.
LEMMA SmallestOfNaturals ==
    ASSUME NEW T \in SUBSET Nat, T # {}
    PROVE  \E x \in T : \A y \in T : x <= y
<1>1. \E x \in T : \A y \in T : ~ (<<y, x>> \in OpToRel(<, Nat))
  BY NatLessThanWellFounded, WFMin, Zenon
<1>2. \A x, y \in Nat : y < x => <<y, x>> \in OpToRel(<, Nat)
  BY Zenon DEF OpToRel
<1>3. PICK x \in T : \A y \in T : ~ (y < x)
  BY <1>1, <1>2, Zenon
<1> QED
  BY <1>3

\* Induction over the natural numbers, for a set that is to hold them all.
LEMMA SetInduction ==
    ASSUME NEW S, 0 \in S, \A n \in Nat \ {0} : n - 1 \in S => n \in S
    PROVE  \A n \in Nat : n \in S
<1> SUFFICES ASSUME Nat \ S # {} PROVE FALSE
  OBVIOUS
<1>1. PICK x \in Nat \ S : \A y \in Nat \ S : x <= y
  BY SmallestOfNaturals
<1>2. x \in Nat \ {0} /\ x - 1 \in Nat
  BY <1>1
<1>3. x - 1 \in S
  BY <1>1, <1>2
<1> QED
  BY <1>1, <1>2, <1>3

\* The same, with every smaller number at hand.
LEMMA StrongSetInduction ==
    ASSUME NEW S, \A n \in Nat : (\A m \in 0..(n - 1) : m \in S) => n \in S
    PROVE  \A n \in Nat : n \in S
<1> SUFFICES ASSUME Nat \ S # {} PROVE FALSE
  OBVIOUS
<1>1. PICK x \in Nat \ S : \A y \in Nat \ S : x <= y
  BY SmallestOfNaturals
<1> QED
  BY <1>1

\* Induction from n down to 1: what a loop over positions finds from position i
\* on depends on the positions after i.
LEMMA DownwardInduction ==
    ASSUME NEW n \in Nat, NEW S,
           \A i \in 1..n : (\A k \in (i + 1)..n : k \in S) => i \in S
    PROVE  1..n \subseteq S
<1> DEFINE W == {j \in Nat : \A i \in 1..n : i + j = n => i \in S}
<1>1. ASSUME NEW j \in Nat, \A m \in 0..(j - 1) : m \in W
      PROVE  j \in W
  <2>1. ASSUME NEW i \in 1..n, i + j = n
        PROVE  i \in S
    <3>1. ASSUME NEW k \in (i + 1)..n
          PROVE  k \in S
      <4>1. n - k \in 0..(j - 1) /\ k + (n - k) = n /\ k \in 1..n
        BY <2>1
      <4> QED
        BY <1>1, <4>1
    <3> QED
      BY <3>1
  <2> QED
    BY <2>1
<1>2. \A j \in Nat : j \in W
  <2> HIDE DEF W
  <2> QED
    BY <1>1, StrongSetInduction
<1>3. \A i \in 1..n : n - i \in Nat /\ i + (n - i) = n
  OBVIOUS
<1> QED
  BY <1>2, <1>3

\* F[i][g] depends on g only where the rank is smaller than that of i, and
\* ranks are bounded.
Recurs(F, D, V, rank, bound) ==
    /\ V # {}
    /\ bound \in Nat
    /\ rank \in [D -> Nat]
    /\ \A i \in D : rank[i] <= bound
    /\ F \in [D -> [[D -> V] -> V]]
    /\ \A i \in D : \A g, h \in [D -> V] :
         (\A j \in D : rank[j] < rank[i] => g[j] = h[j]) => F[i][g] = F[i][h]

Solves(g, F, D, V) == g \in [D -> V] /\ \A i \in D : g[i] = F[i][g]

\* A recursive definition whose ranks are bounded has a solution: it is reached
\* after as many rounds as there are ranks.
LEMMA RankedRecursion ==
    ASSUME NEW F, NEW D, NEW V, NEW rank, NEW bound, Recurs(F, D, V, rank, bound)
    PROVE  \E g : Solves(g, F, D, V)
<1> USE DEF Recurs, Solves
<1> DEFINE Reached(k, g) == \A i \in D : rank[i] < k => g[i] = F[i][g]
           S == {k \in Nat : \E g \in [D -> V] : Reached(k, g)}
<1>1. 0 \in S
  <2>1. PICK v \in V : TRUE
    OBVIOUS
  <2>2. [i \in D |-> v] \in [D -> V]
    OBVIOUS
  <2>3. Reached(0, [i \in D |-> v])
    OBVIOUS
  <2> QED
    BY <2>2, <2>3
<1>2. ASSUME NEW k \in Nat \ {0}, k - 1 \in S
      PROVE  k \in S
  <2>1. PICK g \in [D -> V] : Reached(k - 1, g)
    BY <1>2
  <2> DEFINE h == [i \in D |-> IF rank[i] < k - 1 THEN g[i] ELSE F[i][g]]
  <2>2. h \in [D -> V]
    OBVIOUS
  <2>3. \A i \in D : h[i] = F[i][g]
    BY <2>1
  <2>4. \A i \in D : rank[i] < k - 1 => h[i] = g[i]
    OBVIOUS
  <2> HIDE DEF h
  <2>5. ASSUME NEW i \in D, rank[i] < k
        PROVE  F[i][h] = F[i][g]
    <3>1. \A j \in D : rank[j] < rank[i] => rank[j] < k - 1
      <4>1. rank[i] \in Nat /\ \A j \in D : rank[j] \in Nat
        OBVIOUS
      <4> QED
        BY <2>5, <4>1
    <3> QED
      BY <2>2, <2>4, <3>1
  <2>6. Reached(k, h)
    BY <2>3, <2>5
  <2> QED
    BY <2>2, <2>6
<1>3. bound + 1 \in S
  <2> HIDE DEF S
  <2> QED
    BY <1>1, <1>2, SetInduction
<1>4. PICK g \in [D -> V] : Reached(bound + 1, g)
  BY <1>3
<1>5. \A i \in D : g[i] = F[i][g]
  BY <1>4
<1> QED
  BY <1>5

\* A recursive function on positions whose values depend on later ones only.
LooksAhead(F, n, V) ==
    /\ n \in Nat /\ V # {}
    /\ F \in [1..n -> [[1..n -> V] -> V]]
    /\ \A i \in 1..n : \A g, h \in [1..n -> V] :
         (\A j \in 1..n : j > i => g[j] = h[j]) => F[i][g] = F[i][h]

\* Such a recursive function exists.
LEMMA AheadExists ==
    ASSUME NEW F, NEW n, NEW V, LooksAhead(F, n, V)
    PROVE  \E g : Solves(g, F, 1..n, V)
<1> DEFINE D == 1..n
           rank == [i \in D |-> n - i]
<1>1. /\ n \in Nat /\ V # {} /\ F \in [D -> [[D -> V] -> V]]
      /\ \A i \in D : \A g, h \in [D -> V] :
           (\A j \in D : j > i => g[j] = h[j]) => F[i][g] = F[i][h]
  BY Zenon DEF LooksAhead
<1>2. rank \in [D -> Nat] /\ \A i \in D : rank[i] <= n
  BY <1>1
<1>3. ASSUME NEW i \in D, NEW g \in [D -> V], NEW h \in [D -> V],
             \A j \in D : rank[j] < rank[i] => g[j] = h[j]
      PROVE  F[i][g] = F[i][h]
  <2>1. \A j \in D : j > i => rank[j] < rank[i]
    BY <1>1
  <2>2. \A j \in D : j > i => g[j] = h[j]
    BY <1>3, <2>1
  <2> HIDE DEF D, rank
  <2> QED
    BY <1>1, <2>2
<1> HIDE DEF D, rank
<1>4. Recurs(F, D, V, rank, n)
  BY <1>1, <1>2, <1>3 DEF Recurs
<1> QED
  BY <1>4, RankedRecursion, Zenon DEF D

-----------------------------------------------------------------------------
(* Induction on sequences, for a set G of sequences *)

\* A set of sequences that is closed under appending holds them all.
LEMMA AppendInduction ==
    ASSUME NEW X, NEW G, <<>> \in G,
           \A s \in Seq(X), x \in X : s \in G => Append(s, x) \in G
    PROVE  Seq(X) \subseteq G
<1> DEFINE S == {n \in Nat : \A s \in Seq(X) : Len(s) = n => s \in G}
<1>1. 0 \in S
  OBVIOUS
<1>2. ASSUME NEW n \in Nat \ {0}, n - 1 \in S
      PROVE  n \in S
  <2>1. ASSUME NEW s \in Seq(X), Len(s) = n
        PROVE  s \in G
    <3> DEFINE t == SubSeq(s, 1, n - 1)
               x == s[n]
    <3>1. t \in Seq(X) /\ Len(t) = n - 1 /\ x \in X
      BY <2>1
    <3>2. s = Append(t, x)
      BY <2>1
    <3>3. t \in G
      BY <1>2, <3>1
    <3> HIDE DEF t, x
    <3> QED
      BY <3>1, <3>2, <3>3
  <2> QED
    BY <2>1
<1>3. \A n \in Nat : n \in S
  <2> HIDE DEF S
  <2> QED
    BY <1>1, <1>2, SetInduction
<1> QED
  BY <1>3

\* A set of sequences that is closed under putting an element in front holds
\* them all.
LEMMA ConsInduction ==
    ASSUME NEW X, NEW G, <<>> \in G,
           \A s \in Seq(X), x \in X : s \in G => <<x>> \o s \in G
    PROVE  Seq(X) \subseteq G
<1> DEFINE S == {n \in Nat : \A s \in Seq(X) : Len(s) = n => s \in G}
<1>1. 0 \in S
  OBVIOUS
<1>2. ASSUME NEW n \in Nat \ {0}, n - 1 \in S
      PROVE  n \in S
  <2>1. ASSUME NEW s \in Seq(X), Len(s) = n
        PROVE  s \in G
    <3> DEFINE t == SubSeq(s, 2, n)
               x == s[1]
    <3>1. t \in Seq(X) /\ Len(t) = n - 1 /\ x \in X
      BY <2>1
    <3>2. s = <<x>> \o t
      BY <2>1
    <3>3. t \in G
      BY <1>2, <3>1
    <3> HIDE DEF t, x
    <3> QED
      BY <3>1, <3>2, <3>3
  <2> QED
    BY <2>1
<1>3. \A n \in Nat : n \in S
  <2> HIDE DEF S
  <2> QED
    BY <1>1, <1>2, SetInduction
<1> QED
  BY <1>3

-----------------------------------------------------------------------------
(* Parts of a sequence *)

\* A sequence is the part before a position and the part from there on, also
\* when another sequence follows.
LEMMA SplitAt ==
    ASSUME NEW T, NEW a \in Seq(T), NEW b \in Seq(T), NEW r \in 1..(Len(a) + 1)
    PROVE  a \o b = SubSeq(a, 1, r - 1) \o (SubSeq(a, r, Len(a)) \o b)
<1> DEFINE n == Len(a)
           w == r - 1
           p == SubSeq(a, 1, r - 1)
           t == SubSeq(a, r, n)
           u == p \o t
<1>1. /\ n \in Nat /\ w \in Nat /\ w <= n
      /\ p \in Seq(T) /\ Len(p) = w /\ t \in Seq(T) /\ Len(t) = n - w
      /\ \A i \in 1..w : p[i] = a[i]
      /\ \A i \in 1..(n - w) : t[i] = a[w + i]
  OBVIOUS
<1> HIDE DEF p, t, w
<1>2. u \in Seq(T) /\ Len(u) = n
  <2>1. p \in Seq(T) /\ t \in Seq(T) /\ Len(p) + Len(t) = n
    BY <1>1
  <2> HIDE DEF n
  <2>2. u \in Seq(T) /\ Len(u) = Len(p) + Len(t)
    BY <2>1
  <2> QED
    BY <2>1, <2>2
<1>3. ASSUME NEW i \in 1..n
      PROVE  u[i] = a[i]
  <2>1. CASE i <= w
    BY <1>1, <2>1
  <2>2. CASE i > w
    <3>1. i - w \in 1..(n - w) /\ w + (i - w) = i
      BY <1>1, <2>2
    <3>2. u[i] = t[i - w]
      BY <1>1, <2>2
    <3>3. t[i - w] = a[w + (i - w)]
      BY <1>1, <3>1
    <3> QED
      BY <3>1, <3>2, <3>3
  <2> QED
    BY <1>1, <2>1, <2>2
<1>4. a = u
  <2> HIDE DEF u
  <2> QED
    BY <1>2, <1>3
<1>5. u \o b = p \o (t \o b)
  <2>1. p \in Seq(T) /\ t \in Seq(T)
    BY <1>1
  <2> QED
    BY <2>1, ConcatAssociative, SMTT(30)
<1> QED
  BY <1>4, <1>5 DEF p, t, w

\* A part of the right one of two joined sequences.
LEMMA SubSeqOfRight ==
    ASSUME NEW T, NEW p \in Seq(T), NEW t \in Seq(T),
           NEW i \in Nat \ {0}, NEW j \in Int, j <= Len(t),
           NEW x \in Int, NEW y \in Int, x = Len(p) + i, y = Len(p) + j
    PROVE  SubSeq(p \o t, x, y) = SubSeq(t, i, j)
OBVIOUS

\* What follows position k of the right one of two joined sequences.
LEMMA DropLeft ==
    ASSUME NEW T, NEW p \in Seq(T), NEW t \in Seq(T), NEW k \in 1..(Len(t) + 1)
    PROVE  SubSeq(p \o t, Len(p) + k, Len(p \o t)) = SubSeq(t, k, Len(t))
OBVIOUS

\* The part of one element.
LEMMA SubSeqOfOne ==
    ASSUME NEW T, NEW s \in Seq(T), NEW i \in 1..Len(s)
    PROVE  SubSeq(s, i, i) = <<s[i]>>
<1> DEFINE u == SubSeq(s, i, i)
           v == <<s[i]>>
<1>1. u \in Seq(T) /\ Len(u) = 1 /\ u[1] = s[i]
  OBVIOUS
<1>2. v \in Seq(T) /\ Len(v) = 1 /\ v[1] = s[i]
  OBVIOUS
<1> HIDE DEF u, v
<1>3. u = v
  BY <1>1, <1>2
<1> QED
  BY <1>3 DEF u, v

\* The part after the end.
LEMMA SubSeqOfNone ==
    ASSUME NEW T, NEW s \in Seq(T)
    PROVE  SubSeq(s, Len(s) + 1, Len(s)) = <<>>
OBVIOUS

\* Joining one element makes a sequence one longer.
LEMMA OneMore ==
    ASSUME NEW T, NEW z \in Seq(T), NEW y \in Seq(T), NEW n \in Nat,
           Len(z) <= n, Len(y) = 1
    PROVE  z \o y \in Seq(T) /\ Len(z \o y) <= n + 1 /\ z \o y # <<>>
<1> DEFINE u == z \o y
<1>1. u \in Seq(T) /\ Len(u) = Len(z) + 1 /\ Len(z) \in Nat
  <2>1. u \in Seq(T)
    BY ConcatProperties
  <2>2. Len(u) = Len(z) + Len(y)
    BY ConcatProperties
  <2>3. Len(z) \in Nat
    OBVIOUS
  <2> HIDE DEF u
  <2> QED
    BY <2>1, <2>2, <2>3
<1> HIDE DEF u
<1>2. u # <<>> /\ Len(u) <= n + 1
  BY <1>1
<1> QED
  BY <1>1, <1>2, Zenon DEF u

\* The first n positions are the ones that were kept.
LEMMA FirstOnes ==
    ASSUME NEW n \in Nat
    PROVE  /\ Cardinality(1..n) = n
           /\ \A i \in 1..n :
                (CHOOSE k \in 1..n : Cardinality({j \in 1..n : j <= k}) = i) = i
<1>1. \A m \in Nat : Cardinality(1..m) = m
  <2>1. ASSUME NEW m \in Nat
        PROVE  Cardinality(1..m) = m
    <3>1. Cardinality(1..m) = IF 1 > m THEN 0 ELSE m - 1 + 1
      BY FS_Interval
    <3> QED
      BY <3>1
  <2> QED
    BY <2>1
<1>2. ASSUME NEW k \in 1..n
      PROVE  Cardinality({j \in 1..n : j <= k}) = k
  <2>1. {j \in 1..n : j <= k} = 1..k /\ k \in Nat
    OBVIOUS
  <2> QED
    BY <1>1, <2>1, Zenon
<1> QED
  BY <1>1, <1>2, Zenon

\* Sequences of one length and with the same elements are equal.
LEMMA SameElements ==
    ASSUME NEW T, NEW s \in Seq(T), NEW t \in Seq(T), Len(s) = Len(t),
           \A i \in 1..Len(s) : s[i] = t[i]
    PROVE  s = t
OBVIOUS

\* The elements of two joined sequences.
Joined(u, s, t, T) ==
    /\ u \in Seq(T)
    /\ Len(u) = Len(s) + Len(t)
    /\ \A i \in 1..Len(s) : u[i] = s[i]
    /\ \A i \in 1..Len(t), k \in Nat : k = Len(s) + i => u[k] = t[i]

LEMMA JoinedElements ==
    ASSUME NEW T, NEW s \in Seq(T), NEW t \in Seq(T)
    PROVE  Joined(s \o t, s, t, T)
BY DEF Joined

\* What follows two elements.
LEMMA PastTwo ==
    ASSUME NEW T, NEW h \in Seq(T), NEW v \in Seq(T), Len(h) = 2,
           NEW d \in Nat, d <= Len(v)
    PROVE  SubSeq(h \o v, 3, d + 2) = SubSeq(v, 1, d)
<1> DEFINE u == h \o v
           a == SubSeq(u, 3, d + 2)
           b == SubSeq(v, 1, d)
<1>1. Joined(u, h, v, T)
  BY JoinedElements, Zenon
<1> HIDE DEF u
<1>2. /\ u \in Seq(T) /\ Len(u) = 2 + Len(v)
      /\ \A i \in 1..Len(v) : u[2 + i] = v[i]
  BY <1>1 DEF Joined
<1>3. a \in Seq(T) /\ Len(a) = d /\ \A i \in 1..d : a[i] = u[2 + i]
  BY <1>2
<1>4. b \in Seq(T) /\ Len(b) = d /\ \A i \in 1..d : b[i] = v[i]
  OBVIOUS
<1> HIDE DEF a, b
<1>5. \A i \in 1..d : a[i] = b[i]
  <2>1. \A i \in 1..d : i \in 1..Len(v)
    OBVIOUS
  <2> QED
    BY <1>2, <1>3, <1>4, <2>1
<1>6. a = b
  BY <1>3, <1>4, <1>5, SameElements
<1> QED
  BY <1>6 DEF a, b, u

\* Joining is associative.
LEMMA Regrouped ==
    ASSUME NEW T, NEW a \in Seq(T), NEW b \in Seq(T), NEW c \in Seq(T)
    PROVE  (a \o b) \o c = a \o (b \o c)
BY ConcatAssociative, SMTT(30)

\* The first elements of two joined sequences.
LEMMA FirstOfJoined ==
    ASSUME NEW T, NEW a \in Seq(T), NEW b \in Seq(T), NEW n \in Nat
    PROVE  /\ n <= Len(a) => SubSeq(a \o b, 1, n) = SubSeq(a, 1, n)
           /\ \A m \in Nat : n = Len(a) + m /\ m <= Len(b) =>
                SubSeq(a \o b, 1, n) = a \o SubSeq(b, 1, m)
<1> DEFINE u == a \o b
           p == SubSeq(u, 1, n)
<1>1. Joined(u, a, b, T)
  BY JoinedElements, Zenon
<1>2. Len(a) \in Nat /\ Len(b) \in Nat
  OBVIOUS
<1> HIDE DEF u
<1>3. u \in Seq(T) /\ Len(u) = Len(a) + Len(b)
  BY <1>1 DEF Joined
<1>4. n <= Len(u) => p \in Seq(T) /\ Len(p) = n /\ \A i \in 1..n : p[i] = u[i]
  BY <1>3
<1>5. ASSUME n <= Len(a)
      PROVE  p = SubSeq(a, 1, n)
  <2> DEFINE q == SubSeq(a, 1, n)
  <2>1. q \in Seq(T) /\ Len(q) = n /\ \A i \in 1..n : q[i] = a[i]
    BY <1>5
  <2>2. p \in Seq(T) /\ Len(p) = n /\ \A i \in 1..n : p[i] = u[i]
    BY <1>2, <1>3, <1>4, <1>5
  <2> HIDE DEF p, q
  <2>3. \A i \in 1..n : p[i] = q[i]
    <3>1. \A i \in 1..n : i \in 1..Len(a)
      BY <1>2, <1>5
    <3>2. \A i \in 1..Len(a) : u[i] = a[i]
      BY <1>1 DEF Joined
    <3> QED
      BY <2>1, <2>2, <3>1, <3>2
  <2>4. p = q
    BY <2>1, <2>2, <2>3, SameElements
  <2> QED
    BY <2>4 DEF q
<1>6. ASSUME NEW m \in Nat, n = Len(a) + m, m <= Len(b)
      PROVE  p = a \o SubSeq(b, 1, m)
  <2> DEFINE c == SubSeq(b, 1, m)
             q == a \o c
  <2>1. c \in Seq(T) /\ Len(c) = m /\ \A i \in 1..m : c[i] = b[i]
    BY <1>6
  <2> HIDE DEF c
  <2>2. Joined(q, a, c, T)
    BY <2>1, JoinedElements, Zenon
  <2> HIDE DEF q
  <2>3. q \in Seq(T) /\ Len(q) = n
    BY <1>6, <2>1, <2>2 DEF Joined
  <2>4. p \in Seq(T) /\ Len(p) = n /\ \A i \in 1..n : p[i] = u[i]
    BY <1>2, <1>3, <1>4, <1>6
  <2> HIDE DEF p
  <2>5. ASSUME NEW i \in 1..n
        PROVE  p[i] = q[i]
    <3>1. CASE i <= Len(a)
      <4>1. i \in 1..Len(a)
        BY <1>2, <3>1
      <4>2. u[i] = a[i] /\ q[i] = a[i]
        BY <1>1, <2>2, <4>1 DEF Joined
      <4> QED
        BY <2>4, <4>2
    <3>2. CASE ~ (i <= Len(a))
      <4> DEFINE k == i - Len(a)
      <4>1. k \in 1..m /\ k \in 1..Len(b) /\ i \in Nat /\ i = Len(a) + k
        BY <1>2, <1>6, <3>2
      <4> HIDE DEF k
      <4>2. u[i] = b[k]
        BY <1>1, <4>1 DEF Joined
      <4>3. q[i] = c[k]
        BY <2>1, <2>2, <4>1 DEF Joined
      <4> QED
        BY <2>1, <2>4, <4>1, <4>2, <4>3
    <3> QED
      BY <3>1, <3>2
  <2>6. p = q
    BY <2>3, <2>4, <2>5, SameElements
  <2> QED
    BY <2>6 DEF q, c
<1> QED
  BY <1>5, <1>6 DEF u

\* The first elements if they reach into the second sequence.
LEMMA FirstOfBoth ==
    ASSUME NEW T, NEW a \in Seq(T), NEW b \in Seq(T), NEW n \in Nat,
           NEW m \in Nat, n = Len(a) + m, m <= Len(b)
    PROVE  SubSeq(a \o b, 1, n) = a \o SubSeq(b, 1, m)
BY FirstOfJoined

\* A sequence around one of its elements.
LEMMA SplitAround ==
    ASSUME NEW T, NEW s \in Seq(T), NEW k \in Nat, k < Len(s)
    PROVE  /\ SubSeq(s, 1, k) \in Seq(T) /\ Len(SubSeq(s, 1, k)) = k
           /\ SubSeq(s, k + 2, Len(s)) \in Seq(T)
           /\ s[k + 1] \in T
           /\ SubSeq(s, 1, k + 1) = Append(SubSeq(s, 1, k), s[k + 1])
           /\ s = Append(SubSeq(s, 1, k), s[k + 1]) \o SubSeq(s, k + 2, Len(s))
<1> DEFINE n == Len(s)
           a == SubSeq(s, 1, k)
           x == s[k + 1]
           b == Append(a, x)
           c == SubSeq(s, 1, k + 1)
           r == SubSeq(s, k + 2, n)
           u == b \o r
<1>1. n \in Nat /\ k + 1 <= n /\ x \in T
  OBVIOUS
<1>2. a \in Seq(T) /\ Len(a) = k /\ \A i \in 1..k : a[i] = s[i]
  BY <1>1
<1>3. r \in Seq(T) /\ Len(r) = n - (k + 1) /\ \A i \in 1..(n - (k + 1)) : r[i] = s[k + 1 + i]
  BY <1>1
<1>4. c \in Seq(T) /\ Len(c) = k + 1 /\ \A i \in 1..(k + 1) : c[i] = s[i]
  BY <1>1
<1> HIDE DEF n, a, r, c
<1>5. b \in Seq(T) /\ Len(b) = k + 1 /\ \A i \in 1..(k + 1) : b[i] = s[i]
  <2>1. b \in Seq(T) /\ Len(b) = k + 1 /\ b[k + 1] = x /\ \A i \in 1..k : b[i] = a[i]
    BY <1>1, <1>2
  <2>2. \A i \in 1..(k + 1) : i = k + 1 \/ i \in 1..k
    OBVIOUS
  <2> HIDE DEF b
  <2> QED
    BY <1>2, <2>1, <2>2
<1> HIDE DEF b
<1>6. c = b
  <2>1. \A i \in 1..(k + 1) : b[i] = c[i]
    BY <1>4, <1>5
  <2>2. b = c
    BY <1>4, <1>5, <2>1, SameElements
  <2> QED
    BY <2>2
<1>7. u = s
  <2>1. Joined(u, b, r, T)
    BY <1>3, <1>5, JoinedElements, Zenon
  <2> HIDE DEF u
  <2>2. u \in Seq(T) /\ Len(u) = n
    BY <1>1, <1>3, <1>5, <2>1 DEF Joined
  <2>3. ASSUME NEW i \in 1..n
        PROVE  u[i] = s[i]
    <3>1. CASE i <= k + 1
      <4>1. i \in 1..(k + 1)
        BY <3>1
      <4>2. u[i] = b[i]
        BY <1>5, <2>1, <4>1 DEF Joined
      <4> QED
        BY <1>5, <4>1, <4>2
    <3>2. CASE ~ (i <= k + 1)
      <4> DEFINE q == i - (k + 1)
      <4>1. q \in 1..(n - (k + 1)) /\ i \in Nat /\ i = k + 1 + q
        BY <1>1, <3>2
      <4> HIDE DEF q
      <4>2. u[i] = r[q]
        BY <1>3, <1>5, <2>1, <4>1 DEF Joined
      <4> QED
        BY <1>3, <4>1, <4>2
    <3> QED
      BY <3>1, <3>2
  <2> QED
    BY <2>2, <2>3, SameElements DEF n
<1> QED
  BY <1>1, <1>2, <1>3, <1>6, <1>7 DEF n, a, b, c, r

-----------------------------------------------------------------------------
(* The greatest element *)

\* The largest of some numbers.
LEMMA MaxIs ==
    ASSUME NEW S, S \subseteq Nat, NEW m \in S, \A y \in S : y <= m
    PROVE  Max(S) = m
<1>1. Max(S) \in S /\ \A y \in S : y <= Max(S)
  BY Zenon DEF Max
<1> DEFINE w == Max(S)
<1> HIDE DEF w
<1>2. w \in S /\ \A y \in S : y <= w
  BY <1>1 DEF w
<1>3. w \in Nat /\ m \in Nat /\ m <= w /\ w <= m
  BY <1>2
<1>4. w = m
  BY <1>3
<1> QED
  BY <1>4 DEF w

\* A non-empty set of positions has a last one.
LEMMA MaxOfPositions ==
    ASSUME NEW n \in Nat, NEW S, S \subseteq 0..n, S # {}
    PROVE  /\ Max(S) \in S
           /\ \A y \in S : y <= Max(S)
<1> DEFINE T == {n - x : x \in S}
<1>1. T \in SUBSET Nat /\ T # {}
  <2>1. \A x \in S : n - x \in Nat
    OBVIOUS
  <2>2. T \subseteq Nat
    BY <2>1
  <2>3. T # {}
    OBVIOUS
  <2> QED
    BY <2>2, <2>3
<1>2. PICK a \in T : \A b \in T : a <= b
  <2> HIDE DEF T
  <2> QED
    BY <1>1, SmallestOfNaturals
<1>3. PICK m \in S : a = n - m
  BY <1>2
<1>4. \A y \in S : y <= m
  <2> TAKE y \in S
  <2>1. n - y \in T /\ y \in Nat /\ m \in Nat
    OBVIOUS
  <2>2. a <= n - y
    BY <1>2, <2>1
  <2> QED
    BY <1>3, <2>1, <2>2
<1>5. S \subseteq Nat
  OBVIOUS
<1>6. Max(S) = m
  BY <1>4, <1>5, MaxIs
<1> QED
  BY <1>4, <1>6

-----------------------------------------------------------------------------
(* FlattenSeq joins the sequences of a sequence *)

\* The recursion of FlattenSeq has a solution.
LEMMA FlattenExists ==
    ASSUME NEW T, NEW ss \in Seq(Seq(T)), ss # <<>>
    PROVE  \E f : f = [i \in 1..Len(ss) |->
                          IF i = 1 THEN ss[i] ELSE f[i - 1] \o ss[i]]
<1> DEFINE n == Len(ss)
           D == 1..n
           V == Seq(T)
           rank == [i \in D |-> i]
           Step(i, g) == IF i = 1 THEN ss[i] ELSE g[i - 1] \o ss[i]
           F == [i \in D |-> [g \in [D -> V] |-> Step(i, g)]]
<1>1. n \in Nat /\ V # {} /\ \A i \in D : ss[i] \in V
  OBVIOUS
<1> HIDE DEF n
<1>2. ASSUME NEW i \in D, NEW g \in [D -> V]
      PROVE  Step(i, g) \in V
  <2>1. CASE i = 1
    BY <1>1, <2>1
  <2>2. CASE i # 1
    <3>1. i - 1 \in D
      BY <1>1, <2>2
    <3>2. g[i - 1] \in V /\ ss[i] \in V
      BY <1>1, <3>1
    <3> QED
      BY <2>2, <3>2
  <2> QED
    BY <2>1, <2>2
<1>3. F \in [D -> [[D -> V] -> V]]
  BY <1>2
<1>4. ASSUME NEW i \in D, NEW g \in [D -> V], NEW h \in [D -> V],
             \A j \in D : rank[j] < rank[i] => g[j] = h[j]
      PROVE  F[i][g] = F[i][h]
  <2>1. i # 1 => i - 1 \in D
    BY <1>1
  <2>2. i # 1 => g[i - 1] = h[i - 1]
    BY <1>1, <1>4, <2>1
  <2>3. Step(i, g) = Step(i, h)
    BY <2>2
  <2> HIDE DEF Step
  <2> QED
    BY <2>3
<1>5. rank \in [D -> Nat] /\ (\A i \in D : rank[i] <= n)
  BY <1>1
<1>6. PICK g : Solves(g, F, D, V)
  <2> HIDE DEF D, V, rank, F
  <2>1. Recurs(F, D, V, rank, n)
    BY <1>1, <1>3, <1>4, <1>5 DEF Recurs
  <2> QED
    BY <2>1, RankedRecursion, Zenon
<1>7. g \in [D -> V] /\ \A i \in D : g[i] = Step(i, g)
  BY <1>6 DEF Solves
<1>8. g = [i \in D |-> Step(i, g)]
  BY <1>7
<1> QED
  BY <1>8 DEF n

\* FlattenSeq is its last value.
LEMMA FlattenUnfolds ==
    ASSUME NEW T, NEW ss \in Seq(Seq(T)), ss # <<>>
    PROVE  \E f : /\ f[1] = ss[1]
                  /\ \A i \in 2..Len(ss) : f[i] = f[i - 1] \o ss[i]
                  /\ FlattenSeq(ss) = f[Len(ss)]
<1> DEFINE f == CHOOSE f : f = [i \in 1..Len(ss) |->
                           IF i = 1 THEN ss[i] ELSE f[i - 1] \o ss[i]]
<1>1. f = [i \in 1..Len(ss) |-> IF i = 1 THEN ss[i] ELSE f[i - 1] \o ss[i]]
  BY FlattenExists, Zenon
<1>2. Len(ss) \in Nat \ {0}
  OBVIOUS
<1>3. FlattenSeq(ss) = f[Len(ss)]
  BY <1>2, Zenon DEF FlattenSeq
<1> HIDE DEF f
<1>4. \A i \in 1..Len(ss) : f[i] = IF i = 1 THEN ss[i] ELSE f[i - 1] \o ss[i]
  BY <1>1, Zenon
<1>5. 1 \in 1..Len(ss) /\ \A i \in 2..Len(ss) : i \in 1..Len(ss) /\ i # 1
  BY <1>2
<1> QED
  BY <1>3, <1>4, <1>5, Zenon

\* Nothing joined is nothing.
LEMMA FlattenEmpty == FlattenSeq(<<>>) = <<>>
BY DEF FlattenSeq

\* One sequence joined is that sequence.
LEMMA FlattenOne ==
    ASSUME NEW T, NEW s \in Seq(T)
    PROVE  FlattenSeq(<<s>>) = s
<1> DEFINE ss == <<s>>
<1>1. ss \in Seq(Seq(T)) /\ ss # <<>> /\ Len(ss) = 1 /\ ss[1] = s
  OBVIOUS
<1> HIDE DEF ss
<1>2. PICK f : /\ f[1] = ss[1]
               /\ \A i \in 2..Len(ss) : f[i] = f[i - 1] \o ss[i]
               /\ FlattenSeq(ss) = f[Len(ss)]
  BY <1>1, FlattenUnfolds, Zenon
<1>3. FlattenSeq(ss) = s
  BY <1>1, <1>2, Zenon
<1> QED
  BY <1>3 DEF ss

\* What is appended to one sequence or more is joined at the end.
LEMMA FlattenAppendToSome ==
    ASSUME NEW T, NEW ss \in Seq(Seq(T)), NEW s \in Seq(T), ss # <<>>
    PROVE  FlattenSeq(Append(ss, s)) = FlattenSeq(ss) \o s
<1> DEFINE n == Len(ss)
           tt == Append(ss, s)
<1>1. /\ n \in Nat /\ n >= 1
      /\ tt \in Seq(Seq(T)) /\ tt # <<>> /\ Len(tt) = n + 1
      /\ \A i \in 1..n : tt[i] = ss[i]
      /\ tt[n + 1] = s
  OBVIOUS
<1> HIDE DEF tt
<1>2. PICK f : /\ f[1] = tt[1]
               /\ \A i \in 2..Len(tt) : f[i] = f[i - 1] \o tt[i]
               /\ FlattenSeq(tt) = f[Len(tt)]
  BY <1>1, FlattenUnfolds, Zenon
<1>3. PICK g : /\ g[1] = ss[1]
               /\ \A i \in 2..Len(ss) : g[i] = g[i - 1] \o ss[i]
               /\ FlattenSeq(ss) = g[Len(ss)]
  BY FlattenUnfolds, Zenon
<1> HIDE DEF n
<1> DEFINE S == {k \in Nat : k \in 1..n => f[k] = g[k]}
<1>4. ASSUME NEW k \in Nat \ {0}, k - 1 \in S, k \in 1..n
      PROVE  f[k] = g[k]
  <2>1. CASE k = 1
    BY <1>1, <1>2, <1>3, <2>1
  <2>2. CASE k # 1
    <3>1. k \in 2..n /\ k \in 2..(n + 1) /\ k - 1 \in 1..n
      BY <1>1, <1>4, <2>2
    <3>2. f[k] = f[k - 1] \o tt[k] /\ g[k] = g[k - 1] \o ss[k]
      BY <1>1, <1>2, <1>3, <3>1 DEF n
    <3> QED
      BY <1>1, <1>4, <3>1, <3>2
  <2> QED
    BY <2>1, <2>2
<1>5. \A k \in Nat : k \in S
  <2>1. 0 \in S
    OBVIOUS
  <2>2. \A k \in Nat \ {0} : k - 1 \in S => k \in S
    BY <1>4
  <2> HIDE DEF S
  <2> QED
    BY <2>1, <2>2, SetInduction
<1>6. f[n] = g[n]
  <2>1. n \in Nat /\ n \in 1..n
    BY <1>1
  <2> QED
    BY <1>5, <2>1
<1> DEFINE m == n + 1
<1>7. m \in 2..Len(tt) /\ m - 1 = n /\ m = Len(tt) /\ tt[m] = s
  BY <1>1
<1> HIDE DEF m
<1>8. f[m] = f[m - 1] \o tt[m]
  BY <1>2, <1>7
<1>9. FlattenSeq(tt) = f[n] \o s
  BY <1>2, <1>7, <1>8
<1>10. FlattenSeq(ss) = g[n]
  BY <1>3, Zenon DEF n
<1> QED
  BY <1>6, <1>9, <1>10 DEF tt

\* The same, also for none.
LEMMA FlattenAppend ==
    ASSUME NEW T, NEW ss \in Seq(Seq(T)), NEW s \in Seq(T)
    PROVE  FlattenSeq(Append(ss, s)) = FlattenSeq(ss) \o s
<1>1. CASE ss = <<>>
  <2>1. Append(ss, s) = <<s>> /\ <<>> \o s = s
    BY <1>1
  <2> QED
    BY <1>1, <2>1, FlattenOne, FlattenEmpty
<1>2. CASE ss # <<>>
  BY <1>2, FlattenAppendToSome
<1> QED
  BY <1>1, <1>2

\* The elements of what is joined are those of the pieces.
LEMMA FlattenType ==
    ASSUME NEW T, NEW ss \in Seq(Seq(T))
    PROVE  FlattenSeq(ss) \in Seq(T)
<1> DEFINE G == {tt \in Seq(Seq(T)) : FlattenSeq(tt) \in Seq(T)}
<1>1. <<>> \in G
  <2>1. <<>> \in Seq(Seq(T)) /\ <<>> \in Seq(T)
    OBVIOUS
  <2> QED
    BY <2>1, FlattenEmpty, Zenon
<1>2. ASSUME NEW tt \in Seq(Seq(T)), NEW s \in Seq(T), tt \in G
      PROVE  Append(tt, s) \in G
  <2>1. FlattenSeq(tt) \in Seq(T)
    BY <1>2, Zenon
  <2>2. FlattenSeq(Append(tt, s)) = FlattenSeq(tt) \o s
    BY FlattenAppend
  <2>3. FlattenSeq(tt) \o s \in Seq(T)
    BY <2>1
  <2>4. Append(tt, s) \in Seq(Seq(T))
    OBVIOUS
  <2> QED
    BY <2>2, <2>3, <2>4, Zenon
<1>3. Seq(Seq(T)) \subseteq G
  <2> HIDE DEF G
  <2> QED
    BY <1>1, <1>2, AppendInduction
<1> QED
  BY <1>3

-----------------------------------------------------------------------------
(* Joining what a function gives for each element *)

FlatMap(h, s) == FlattenSeq([i \in 1..Len(s) |-> h[s[i]]])

\* No element gives nothing.
LEMMA FlatMapEmpty ==
    ASSUME NEW h
    PROVE  FlatMap(h, <<>>) = <<>>
<1>1. [i \in 1..Len(<<>>) |-> h[<<>>[i]]] = <<>>
  OBVIOUS
<1> QED
  BY <1>1, FlattenEmpty, Zenon DEF FlatMap

\* The elements of the result are those that h gives.
LEMMA FlatMapType ==
    ASSUME NEW X, NEW T, NEW h \in [X -> Seq(T)], NEW s \in Seq(X)
    PROVE  FlatMap(h, s) \in Seq(T)
<1>1. [i \in 1..Len(s) |-> h[s[i]]] \in Seq(Seq(T))
  OBVIOUS
<1> QED
  BY <1>1, FlattenType, Zenon DEF FlatMap

\* An appended element adds what h gives for it.
LEMMA FlatMapAppend ==
    ASSUME NEW X, NEW T, NEW h \in [X -> Seq(T)], NEW s \in Seq(X), NEW x \in X
    PROVE  FlatMap(h, Append(s, x)) = FlatMap(h, s) \o h[x]
<1> DEFINE ss == [i \in 1..Len(s) |-> h[s[i]]]
           y == Append(s, x)
           tt == [i \in 1..Len(y) |-> h[y[i]]]
<1>1. ss \in Seq(Seq(T)) /\ h[x] \in Seq(T)
  OBVIOUS
<1>2. tt = Append(ss, h[x])
  OBVIOUS
<1>3. FlattenSeq(Append(ss, h[x])) = FlattenSeq(ss) \o h[x]
  <2> HIDE DEF ss
  <2> QED
    BY <1>1, FlattenAppend, Zenon
<1> QED
  BY <1>2, <1>3, Zenon DEF FlatMap

\* One element gives what h gives for it.
LEMMA FlatMapOne ==
    ASSUME NEW X, NEW T, NEW h \in [X -> Seq(T)], NEW x \in X
    PROVE  FlatMap(h, <<x>>) = h[x]
<1>1. [i \in 1..Len(<<x>>) |-> h[<<x>>[i]]] = <<h[x]>> /\ h[x] \in Seq(T)
  OBVIOUS
<1> QED
  BY <1>1, FlattenOne, Zenon DEF FlatMap

\* The results for two joined sequences are joined.
LEMMA FlatMapConcat ==
    ASSUME NEW X, NEW T, NEW h \in [X -> Seq(T)],
           NEW s \in Seq(X), NEW t \in Seq(X)
    PROVE  FlatMap(h, s \o t) = FlatMap(h, s) \o FlatMap(h, t)
<1> DEFINE G == {u \in Seq(X) : FlatMap(h, s \o u) = FlatMap(h, s) \o FlatMap(h, u)}
<1>1. FlatMap(h, s) \in Seq(T)
  BY FlatMapType
<1>2. <<>> \in G
  <2>1. s \o <<>> = s /\ FlatMap(h, s) \o <<>> = FlatMap(h, s) /\ <<>> \in Seq(X)
    BY <1>1
  <2> QED
    BY <2>1, FlatMapEmpty, Zenon
<1>3. ASSUME NEW u \in Seq(X), NEW x \in X, u \in G
      PROVE  Append(u, x) \in G
  <2>1. s \o Append(u, x) = Append(s \o u, x) /\ s \o u \in Seq(X)
    BY SMTT(30)
  <2>2. FlatMap(h, Append(s \o u, x)) = FlatMap(h, s \o u) \o h[x]
    BY <2>1, FlatMapAppend, Zenon
  <2>3. FlatMap(h, Append(u, x)) = FlatMap(h, u) \o h[x]
    BY FlatMapAppend, Zenon
  <2>4. FlatMap(h, u) \in Seq(T) /\ h[x] \in Seq(T)
    BY FlatMapType
  <2>5. (FlatMap(h, s) \o FlatMap(h, u)) \o h[x]
          = FlatMap(h, s) \o (FlatMap(h, u) \o h[x])
    BY <1>1, <2>4, ConcatAssociative, SMTT(30)
  <2>6. FlatMap(h, s \o u) = FlatMap(h, s) \o FlatMap(h, u)
    BY <1>3, Zenon
  <2>7. Append(u, x) \in Seq(X)
    OBVIOUS
  <2>8. FlatMap(h, s \o Append(u, x)) = FlatMap(h, s) \o FlatMap(h, Append(u, x))
    BY <2>1, <2>2, <2>3, <2>5, <2>6, Zenon
  <2> QED
    BY <2>7, <2>8, Zenon
<1>4. Seq(X) \subseteq G
  <2> HIDE DEF G
  <2> QED
    BY <1>2, <1>3, AppendInduction
<1> QED
  BY <1>4

-----------------------------------------------------------------------------
(* Dictionaries, from keys of K to values of V *)

Dicts(K, V) == UNION {[D -> V] : D \in SUBSET K}

\* Every dictionary is a function on its own keys.
LEMMA DictIs ==
    ASSUME NEW K, NEW V, NEW f \in Dicts(K, V)
    PROVE  /\ f = [x \in DOMAIN f |-> f[x]]
           /\ DOMAIN f \subseteq K
           /\ \A x \in DOMAIN f : f[x] \in V
<1>1. PICK D \in SUBSET K : f \in [D -> V]
  BY DEF Dicts
<1>2. DOMAIN f = D /\ f = [x \in D |-> f[x]] /\ \A x \in D : f[x] \in V
  BY <1>1
<1> QED
  BY <1>2

\* No key is one.
LEMMA NoFieldsIsDict ==
    ASSUME NEW K, NEW V
    PROVE  NoFields \in Dicts(K, V)
<1>1. NoFields \in [{} -> V]
  BY DEF NoFields
<1> QED
  BY <1>1 DEF Dicts

\* One key is one.
LEMMA FieldIsDict ==
    ASSUME NEW K, NEW V, NEW name \in K, NEW v \in V
    PROVE  Field(name, v) \in Dicts(K, V)
<1>1. Field(name, v) \in [{name} -> V]
  BY DEF Field
<1> QED
  BY <1>1 DEF Dicts

\* Two make one.
LEMMA UpdatedIsDict ==
    ASSUME NEW K, NEW V, NEW f \in Dicts(K, V), NEW g \in Dicts(K, V)
    PROVE  Updated(f, g) \in Dicts(K, V)
<1>1. /\ DOMAIN f \subseteq K /\ \A x \in DOMAIN f : f[x] \in V
      /\ DOMAIN g \subseteq K /\ \A x \in DOMAIN g : g[x] \in V
  BY DictIs
<1>2. Updated(f, g) \in [DOMAIN f \cup DOMAIN g -> V]
  BY <1>1 DEF Updated
<1>3. DOMAIN f \cup DOMAIN g \in SUBSET K
  BY <1>1
<1> QED
  BY <1>2, <1>3 DEF Dicts

\* Updating is associative.
LEMMA UpdatedTwice ==
    ASSUME NEW f, NEW g, NEW h
    PROVE  Updated(Updated(f, g), h) = Updated(f, Updated(g, h))
BY DEF Updated

\* Updating with nothing, or nothing with something, changes nothing.
LEMMA UpdatedWithNothing ==
    ASSUME NEW K, NEW V, NEW f \in Dicts(K, V)
    PROVE  Updated(f, NoFields) = f /\ Updated(NoFields, f) = f
<1> DEFINE D == DOMAIN f
<1>1. f = [x \in D |-> f[x]]
  BY DictIs
<1> HIDE DEF D
<1>2. DOMAIN f = D /\ DOMAIN NoFields = {}
  BY DEF D, NoFields
<1>3. Updated(f, NoFields) = [x \in D |-> f[x]]
  BY <1>2 DEF Updated
<1>4. Updated(NoFields, f) = [x \in D |-> f[x]]
  BY <1>2 DEF Updated
<1> QED
  BY <1>1, <1>3, <1>4

-----------------------------------------------------------------------------
(* Dictionaries: what is said last *)

\* Who speaks of a field.
Speakers(says, f) == {i \in DOMAIN says : f \in DOMAIN says[i]}
Spoken(says) == UNION {DOMAIN says[i] : i \in DOMAIN says}

\* What is said, in these terms.
LEMMA SaidBy ==
    ASSUME NEW says
    PROVE  Said(says) = [f \in Spoken(says) |-> says[Max(Speakers(says, f))][f]]
BY Zenon DEF Said, Spoken, Speakers

\* Nobody says nothing.
LEMMA SaidOfNone == Said(<<>>) = NoFields
<1> DEFINE F == Spoken(<<>>)
<1>1. F = {}
  BY DEF Spoken
<1> HIDE DEF F
<1>2. Said(<<>>) = [f \in F |-> <<>>[Max(Speakers(<<>>, f))][f]]
  BY SaidBy, Zenon DEF F
<1> DEFINE v(f) == <<>>[Max(Speakers(<<>>, f))][f]
<1> HIDE DEF v
<1>3. [f \in F |-> v(f)] = [f \in {} |-> 0]
  BY <1>1
<1> QED
  BY <1>2, <1>3, Zenon DEF v, NoFields

\* What is said last overrides what was said before.
LEMMA SaidAppend ==
    ASSUME NEW M, NEW says \in Seq(M), NEW new \in M
    PROVE  Said(Append(says, new)) = Updated(Said(says), new)
<1> DEFINE n == Len(says)
           tt == Append(says, new)
           z == n + 1
           D == DOMAIN new
           A == Spoken(says)
           B == Spoken(tt)
           a(f) == says[Max(Speakers(says, f))][f]
           b(f) == tt[Max(Speakers(tt, f))][f]
<1>1. /\ n \in Nat /\ DOMAIN says = 1..n /\ DOMAIN tt = 1..z
      /\ \A i \in 1..n : tt[i] = says[i]
      /\ tt[z] = new
  OBVIOUS
<1> HIDE DEF tt
<1>2. B = A \cup D
  <2>1. B \subseteq A \cup D
    <3> SUFFICES ASSUME NEW f \in B PROVE f \in A \cup D
      OBVIOUS
    <3>1. PICK i \in 1..z : f \in DOMAIN tt[i]
      BY <1>1 DEF Spoken
    <3>2. CASE i = z
      BY <1>1, <3>1, <3>2
    <3>3. CASE i # z
      <4>1. i \in 1..n
        BY <1>1, <3>1, <3>3
      <4>2. f \in DOMAIN says[i]
        BY <1>1, <3>1, <4>1
      <4> QED
        BY <1>1, <4>1, <4>2 DEF Spoken
    <3> QED
      BY <3>2, <3>3
  <2>2. A \subseteq B
    <3> SUFFICES ASSUME NEW f \in A PROVE f \in B
      OBVIOUS
    <3>1. PICK i \in 1..n : f \in DOMAIN says[i]
      BY <1>1 DEF Spoken
    <3>2. i \in 1..z /\ f \in DOMAIN tt[i]
      BY <1>1, <3>1
    <3> QED
      BY <1>1, <3>2 DEF Spoken
  <2>3. D \subseteq B
    <3>1. z \in 1..z
      BY <1>1
    <3> QED
      BY <1>1, <3>1 DEF Spoken
  <2> QED
    BY <2>1, <2>2, <2>3
<1>3. ASSUME NEW f \in D
      PROVE  b(f) = new[f]
  <2>1. Speakers(tt, f) \subseteq Nat /\ \A y \in Speakers(tt, f) : y <= z
    BY <1>1 DEF Speakers
  <2>2. z \in Speakers(tt, f)
    BY <1>1 DEF Speakers
  <2>3. Max(Speakers(tt, f)) = z
    BY <2>1, <2>2, MaxIs
  <2> QED
    BY <1>1, <2>3
<1>4. ASSUME NEW f \in A, f \notin D
      PROVE  b(f) = a(f)
  <2>1. Speakers(tt, f) = Speakers(says, f)
    <3>1. \A i \in 1..z : i # z => i \in 1..n
      BY <1>1
    <3>2. \A i \in 1..n : i \in 1..z
      BY <1>1
    <3>3. \A i \in 1..z : f \in DOMAIN tt[i] => i \in 1..n /\ f \in DOMAIN says[i]
      BY <1>1, <1>4, <3>1
    <3>4. \A i \in 1..n : f \in DOMAIN says[i] => i \in 1..z /\ f \in DOMAIN tt[i]
      BY <1>1, <3>2
    <3> QED
      BY <1>1, <3>3, <3>4 DEF Speakers
  <2>2. Speakers(says, f) \subseteq 0..n /\ Speakers(says, f) # {}
    <3>1. Speakers(says, f) \subseteq 0..n
      BY <1>1 DEF Speakers
    <3>2. PICK i \in 1..n : f \in DOMAIN says[i]
      BY <1>1 DEF Spoken
    <3>3. i \in Speakers(says, f)
      BY <1>1, <3>2 DEF Speakers
    <3> QED
      BY <3>1, <3>3
  <2>3. Max(Speakers(says, f)) \in Speakers(says, f)
    BY <1>1, <2>2, MaxOfPositions
  <2>4. Max(Speakers(says, f)) \in 1..n
    BY <1>1, <2>3 DEF Speakers
  <2> QED
    BY <1>1, <2>1, <2>4
<1> HIDE DEF a, b, A, B, D
<1>5. Said(says) = [f \in A |-> a(f)] /\ Said(tt) = [f \in B |-> b(f)]
  BY SaidBy, Zenon DEF a, b, A, B
<1>6. Updated(Said(says), new) = [f \in A \cup D |-> IF f \in D THEN new[f] ELSE a(f)]
  <2> DEFINE s == Said(says)
  <2>1. DOMAIN s = A /\ \A f \in A : s[f] = a(f)
    BY <1>5
  <2> HIDE DEF s
  <2>2. Updated(s, new) = [f \in A \cup D |-> IF f \in D THEN new[f] ELSE s[f]]
    BY <2>1, Zenon DEF Updated, D
  <2>3. \A f \in A \cup D : (IF f \in D THEN new[f] ELSE s[f])
                              = (IF f \in D THEN new[f] ELSE a(f))
    BY <2>1
  <2>4. [f \in A \cup D |-> IF f \in D THEN new[f] ELSE s[f]]
          = [f \in A \cup D |-> IF f \in D THEN new[f] ELSE a(f)]
    BY <2>3
  <2> QED
    BY <2>2, <2>4 DEF s
<1>7. \A f \in A \cup D : b(f) = IF f \in D THEN new[f] ELSE a(f)
  BY <1>3, <1>4
<1>8. Said(tt) = [f \in A \cup D |-> b(f)]
  BY <1>2, <1>5
<1> QED
  BY <1>6, <1>7, <1>8 DEF tt

-----------------------------------------------------------------------------
(* Loops over the positions of a sequence *)

\* Where one sequence goes on as another one, so do the values of a loop.
AsFrom(i, f, p, g, t) == \A k \in i..(Len(t) + 1) : f[Len(p) + k] = g[k]

=============================================================================
