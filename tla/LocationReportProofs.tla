------------------------ MODULE LocationReportProofs ------------------------
(***************************************************************************)
(* Proofs about location reports.  Both loops are recursive functions on   *)
(* positions; what they read from a position on depends on the bytes from  *)
(* there on only, so that an item can be taken off the front and the rest  *)
(* be read on its own.  By induction on the items, whole items say what    *)
(* each of them says, the later one overriding the earlier, whatever bytes *)
(* follow them: nothing, or the first bytes of one more item.  The proofs  *)
(* hold for reports of any length made of items that are read as told.     *)
(* Every item is, if what is told of it is what the parsers make of it     *)
(* alone; of the items of the run it is told in MCLocationReport.          *)
(***************************************************************************)
EXTENDS MCLocationReport, SequenceFacts

-----------------------------------------------------------------------------
(* Fields *)

\* Mappings from names of fields to numbers.
Names == {row.field : row \in JtItems} \cup {"alarm_status", "ecu_ignition"}
Mappings == Dicts(Names, Nat)

\* Every mapping is one from its own domain.
LEMMA MappingIs ==
    ASSUME NEW f \in Mappings
    PROVE  /\ f = [x \in DOMAIN f |-> f[x]]
           /\ DOMAIN f \subseteq Names
           /\ \A x \in DOMAIN f : f[x] \in Nat
BY DictIs DEF Mappings

\* What maps names to numbers.
LEMMA IsMapping ==
    ASSUME NEW D \in SUBSET Names, NEW f \in [D -> Nat]
    PROVE  f \in Mappings
BY DEF Mappings, Dicts

\* No fields are a mapping.
LEMMA NoFieldsIsMapping == NoFields \in Mappings
BY NoFieldsIsDict DEF Mappings

\* One field is a mapping.
LEMMA FieldIsMapping ==
    ASSUME NEW name \in Names, NEW n \in Nat
    PROVE  Field(name, n) \in Mappings
BY FieldIsDict DEF Mappings

\* The fields of two mappings are one.
LEMMA UpdatedIsMapping ==
    ASSUME NEW f \in Mappings, NEW g \in Mappings
    PROVE  Updated(f, g) \in Mappings
BY UpdatedIsDict DEF Mappings

\* Updating with nothing, or nothing with something, changes nothing.
LEMMA MappingWithNothing ==
    ASSUME NEW f \in Mappings
    PROVE  Updated(f, NoFields) = f /\ Updated(NoFields, f) = f
BY UpdatedWithNothing DEF Mappings

-----------------------------------------------------------------------------
(* Numbers *)

\* The same with values that depend on the one before.
LEMMA ValueExists ==
    ASSUME NEW data \in Seq(Nat)
    PROVE  \E f : f = [i \in 0..Len(data) |->
                         IF i = 0 THEN 0 ELSE 256 * f[i - 1] + data[i]]
<1> DEFINE n == Len(data)
           D == 0..n
           rank == [i \in D |-> i]
           Step(i, g) == IF i = 0 THEN 0 ELSE 256 * g[i - 1] + data[i]
           F == [i \in D |-> [g \in [D -> Nat] |-> Step(i, g)]]
<1>1. n \in Nat /\ \A i \in D : i # 0 => data[i] \in Nat /\ i - 1 \in D
  OBVIOUS
<1> HIDE DEF n
<1>2. ASSUME NEW i \in D, NEW g \in [D -> Nat]
      PROVE  Step(i, g) \in Nat
  <2>1. CASE i # 0
    <3>1. g[i - 1] \in Nat /\ data[i] \in Nat
      BY <1>1, <2>1
    <3> QED
      BY <2>1, <3>1
  <2> QED
    BY <2>1
<1>3. F \in [D -> [[D -> Nat] -> Nat]]
  BY <1>2
<1>4. ASSUME NEW i \in D, NEW g \in [D -> Nat], NEW h \in [D -> Nat],
             \A j \in D : rank[j] < rank[i] => g[j] = h[j]
      PROVE  F[i][g] = F[i][h]
  <2>1. i # 0 => i - 1 \in D
    BY <1>1
  <2>2. i # 0 => g[i - 1] = h[i - 1]
    BY <1>1, <1>4, <2>1
  <2>3. Step(i, g) = Step(i, h)
    BY <2>2
  <2> HIDE DEF Step
  <2> QED
    BY <2>3
<1>5. rank \in [D -> Nat] /\ (\A i \in D : rank[i] <= n)
  BY <1>1
<1>6. PICK g : Solves(g, F, D, Nat)
  <2> HIDE DEF D, rank, F
  <2>1. Recurs(F, D, Nat, rank, n)
    BY <1>1, <1>3, <1>4, <1>5 DEF Recurs
  <2> QED
    BY <2>1, RankedRecursion, Zenon
<1>7. g \in [D -> Nat] /\ \A i \in D : g[i] = Step(i, g)
  BY <1>6 DEF Solves
<1>8. g = [i \in D |-> Step(i, g)]
  BY <1>7
<1> QED
  BY <1>8 DEF n

\* A number is made of its bytes.
LEMMA ValueUnfolds ==
    ASSUME NEW data \in Seq(Nat)
    PROVE  \E f : /\ f[0] = 0
                  /\ \A i \in 1..Len(data) : f[i] = 256 * f[i - 1] + data[i]
                  /\ Value(data) = f[Len(data)]
                  /\ Value(data) \in Nat
<1> DEFINE f == CHOOSE f : f = [i \in 0..Len(data) |->
                                  IF i = 0 THEN 0 ELSE 256 * f[i - 1] + data[i]]
           n == Len(data)
<1>1. f = [i \in 0..Len(data) |-> IF i = 0 THEN 0 ELSE 256 * f[i - 1] + data[i]]
  BY ValueExists, Zenon
<1>2. Value(data) = f[Len(data)]
  BY Zenon DEF Value
<1> HIDE DEF f
<1>3. n \in Nat /\ \A i \in 1..n : data[i] \in Nat
  OBVIOUS
<1>4. \A i \in 0..n : f[i] = IF i = 0 THEN 0 ELSE 256 * f[i - 1] + data[i]
  BY <1>1, Zenon
<1> HIDE DEF n
<1>5. f[0] = 0 /\ \A i \in 1..n : f[i] = 256 * f[i - 1] + data[i]
  BY <1>3, <1>4
<1> DEFINE S == {i \in Nat : i \in 0..n => f[i] \in Nat}
<1>6. 0 \in S
  BY <1>5
<1>7. ASSUME NEW i \in Nat \ {0}, i - 1 \in S
      PROVE  i \in S
  <2>1. CASE i \in 1..n
    <3>1. f[i - 1] \in Nat
      BY <1>3, <1>7, <2>1
    <3>2. f[i] = 256 * f[i - 1] + data[i] /\ data[i] \in Nat
      BY <1>3, <1>5, <2>1
    <3> DEFINE a == f[i - 1]
               b == data[i]
    <3>3. a \in Nat /\ b \in Nat /\ f[i] = 256 * a + b
      BY <3>1, <3>2
    <3> HIDE DEF a, b
    <3>4. f[i] \in Nat
      BY <3>3
    <3> QED
      BY <3>4
  <2>2. CASE i \notin 1..n
    BY <1>3, <2>2
  <2> QED
    BY <2>1, <2>2
<1>8. \A i \in Nat : i \in S
  <2> HIDE DEF S
  <2> QED
    BY <1>6, <1>7, SetInduction
<1>9. f[n] \in Nat
  BY <1>3, <1>8
<1> QED
  BY <1>2, <1>5, <1>9 DEF n

\* It is a natural number.
LEMMA ValueIsNumber ==
    ASSUME NEW data \in Seq(Nat)
    PROVE  Value(data) \in Nat
BY ValueUnfolds, Zenon

\* The number of one byte is that byte.
LEMMA ValueOfOne ==
    ASSUME NEW a \in Nat
    PROVE  Value(<<a>>) = a
<1> DEFINE data == <<a>>
<1>1. data \in Seq(Nat) /\ Len(data) = 1 /\ data[1] = a
  OBVIOUS
<1> HIDE DEF data
<1>2. PICK f : /\ f[0] = 0
               /\ \A i \in 1..Len(data) : f[i] = 256 * f[i - 1] + data[i]
               /\ Value(data) = f[Len(data)]
  BY <1>1, ValueUnfolds
<1>3. f[1] = 256 * f[0] + data[1]
  BY <1>1, <1>2
<1> QED
  BY <1>1, <1>2, <1>3 DEF data

\* And of two bytes.
LEMMA ValueOfTwo ==
    ASSUME NEW a \in Nat, NEW b \in Nat
    PROVE  Value(<<a, b>>) = 256 * a + b
<1> DEFINE data == <<a, b>>
<1>1. data \in Seq(Nat) /\ Len(data) = 2 /\ data[1] = a /\ data[2] = b
  OBVIOUS
<1> HIDE DEF data
<1>2. PICK f : /\ f[0] = 0
               /\ \A i \in 1..Len(data) : f[i] = 256 * f[i - 1] + data[i]
               /\ Value(data) = f[Len(data)]
  BY <1>1, ValueUnfolds
<1>3. f[1] = 256 * f[0] + data[1] /\ f[2] = 256 * f[1] + data[2]
  BY <1>1, <1>2
<1> QED
  BY <1>1, <1>2, <1>3 DEF data

\* And of four.
LEMMA ValueOfFour ==
    ASSUME NEW a \in Nat, NEW b \in Nat, NEW c \in Nat, NEW d \in Nat
    PROVE  Value(<<a, b, c, d>>) = 256 * (256 * (256 * a + b) + c) + d
<1> DEFINE data == <<a, b, c, d>>
<1>1. /\ data \in Seq(Nat) /\ Len(data) = 4 /\ data[1] = a /\ data[2] = b
      /\ data[3] = c /\ data[4] = d
  OBVIOUS
<1> HIDE DEF data
<1>2. PICK f : /\ f[0] = 0
               /\ \A i \in 1..Len(data) : f[i] = 256 * f[i - 1] + data[i]
               /\ Value(data) = f[Len(data)]
  BY <1>1, ValueUnfolds
<1>3. /\ f[1] = 256 * f[0] + data[1] /\ f[2] = 256 * f[1] + data[2]
      /\ f[3] = 256 * f[2] + data[3] /\ f[4] = 256 * f[3] + data[4]
  BY <1>1, <1>2
<1> QED
  BY <1>1, <1>2, <1>3 DEF data

-----------------------------------------------------------------------------
(* The loop of jt808 and its equations *)

\* What the two loops find from a position on.
JtFinds == [raised : BOOLEAN, fields : Mappings]

\* Known items fill fields with names.
LEMMA KnownFields ==
    ASSUME NEW known, known \subseteq JtItems, NEW n \in Nat
    PROVE  FieldsOf(known, n) \in Mappings
<1> DEFINE D == {row.field : row \in known}
<1>1. D \in SUBSET Names
  BY DEF Names
<1> HIDE DEF D
<1>2. [f \in D |-> n] \in [D -> Nat]
  OBVIOUS
<1> QED
  BY <1>1, <1>2, IsMapping DEF FieldsOf, D

\* So do custom items.
LEMMA CustomIsMapping ==
    ASSUME NEW a \in Nat, NEW b \in Nat
    PROVE  Updated(Field("alarm_status", a), Field("ecu_ignition", b)) \in Mappings
<1>1. "alarm_status" \in Names /\ "ecu_ignition" \in Names
  BY DEF Names
<1>2. Field("alarm_status", a) \in Mappings /\ Field("ecu_ignition", b) \in Mappings
  BY <1>1, FieldIsMapping
<1> QED
  BY <1>2, UpdatedIsMapping, Zenon

\* An item gives fields or raises.
LEMMA JtItemType ==
    ASSUME NEW id \in Nat, NEW size \in Nat, NEW data \in Seq(Nat)
    PROVE  JtItem(id, size, data) \in JtFinds
<1>1. Raised \in JtFinds
  BY NoFieldsIsMapping DEF Raised, JtFinds
<1>2. \A fields \in Mappings : Read(fields) \in JtFinds
  BY DEF Read, JtFinds
<1>3. ASSUME ~ (Len(data) < 2)
      PROVE  Custom(data) \in Mappings
  <2>1. data[1] \in Nat /\ data[2] \in Nat
    BY <1>3
  <2> QED
    BY <2>1, CustomIsMapping DEF Custom
<1>4. FieldsOf(JtKnown(id, size), Value(data)) \in Mappings
  <2>1. Value(data) \in Nat
    BY ValueIsNumber
  <2>2. JtKnown(id, size) \subseteq JtItems
    BY DEF JtKnown
  <2> QED
    BY <2>1, <2>2, KnownFields
<1> QED
  BY <1>1, <1>2, <1>3, <1>4, Zenon DEF JtItem

\* So does an item with what follows it.
LEMMA FollowedType ==
    ASSUME NEW item \in JtFinds, NEW rest \in JtFinds
    PROVE  Followed(item, rest) \in JtFinds
<1>1. item.fields \in Mappings /\ rest.fields \in Mappings
  BY DEF JtFinds
<1>2. Updated(item.fields, rest.fields) \in Mappings
  BY <1>1, UpdatedIsMapping
<1> QED
  BY <1>2 DEF Followed, JtFinds

\* The position after an item that begins within the bytes is a later one.
LEMMA JtIterationType ==
    ASSUME NEW extra \in Seq(Nat), NEW i \in 1..(Len(extra) + 1), NEW g,
           \A j \in 1..(Len(extra) + 1) : j > i => g[j] \in JtFinds
    PROVE  JtIteration(extra, i, g, 2) \in JtFinds
<1> DEFINE end == Len(extra)
           size == extra[i + 1]
           last == IF i + 1 + size > end THEN end ELSE i + 1 + size
           next == i + 2 + size
           part == SubSeq(extra, i + 2, last)
           rest == IF next > end THEN Read(NoFields) ELSE g[next]
<1>1. Read(NoFields) \in JtFinds
  BY NoFieldsIsMapping DEF Read, JtFinds
<1>2. CASE i + 1 > end
  BY <1>1, <1>2, Zenon DEF JtIteration
<1>3. CASE ~ (i + 1 > end)
  <2>1. end \in Nat /\ i \in Nat /\ i + 1 <= end /\ extra[i] \in Nat /\ size \in Nat
    BY <1>3
  <2>2. part \in Seq(Nat)
    <3>1. last \in Nat /\ last <= end
      BY <2>1
    <3> HIDE DEF last
    <3> QED
      BY <2>1, <3>1, SMTT(30)
  <2>3. rest \in JtFinds
    <3>1. CASE next > end
      BY <1>1, <3>1
    <3>2. CASE ~ (next > end)
      <4>1. next \in 1..(Len(extra) + 1) /\ next > i
        BY <2>1, <3>2, SMTT(30)
      <4>2. g[next] \in JtFinds
        BY <4>1
      <4> QED
        BY <3>2, <4>2
    <3> QED
      BY <3>1, <3>2
  <2> HIDE DEF size, part, rest
  <2>4. JtItem(extra[i], size, part) \in JtFinds
    BY <2>1, <2>2, JtItemType
  <2>5. Followed(JtItem(extra[i], size, part), rest) \in JtFinds
    BY <2>3, <2>4, FollowedType
  <2>6. JtIteration(extra, i, g, 2) = Followed(JtItem(extra[i], size, part), rest)
    BY <1>3, Zenon DEF JtIteration, size, part, rest
  <2> QED
    BY <2>5, <2>6
<1> QED
  BY <1>2, <1>3

\* What the loop reads from a position on depends on later positions only.
LEMMA JtIterationLooksAhead ==
    ASSUME NEW extra \in Seq(Nat), NEW i \in 1..(Len(extra) + 1), NEW g, NEW h,
           \A j \in 1..(Len(extra) + 1) : j > i => g[j] = h[j]
    PROVE  JtIteration(extra, i, g, 2) = JtIteration(extra, i, h, 2)
<1> DEFINE end == Len(extra)
           size == extra[i + 1]
           next == i + 2 + size
           rest(f) == IF next > end THEN Read(NoFields) ELSE f[next]
<1>1. CASE i + 1 > end
  BY <1>1, Zenon DEF JtIteration
<1>2. CASE ~ (i + 1 > end)
  <2>1. end \in Nat /\ i \in Nat /\ i + 1 <= end /\ size \in Nat
    BY <1>2
  <2>2. rest(g) = rest(h)
    <3>1. CASE ~ (next > end)
      <4>1. next \in 1..(Len(extra) + 1) /\ next > i
        BY <2>1, <3>1
      <4> QED
        BY <3>1, <4>1
    <3> QED
      BY <3>1
  <2> QED
    BY <2>2, Zenon DEF JtIteration
<1> QED
  BY <1>1, <1>2

\* f holds what the loop of jt808 reads from every position on.
JtFrom(f, extra) == \A i \in 1..(Len(extra) + 1) : f[i] = JtIteration(extra, i, f, 2)

\* The loop of jt808 finds what its equations say.
LEMMA JtUnfolds ==
    ASSUME NEW extra \in Seq(Nat)
    PROVE  \E f : JtFrom(f, extra) /\ JtExtras(extra) = f[1]
<1> DEFINE n == Len(extra) + 1
           V == JtFinds
           F == [i \in 1..n |-> [g \in [1..n -> V] |-> JtIteration(extra, i, g, 2)]]
<1>1. n \in Nat /\ V # {}
  <2>1. n \in Nat
    OBVIOUS
  <2>2. Read(NoFields) \in JtFinds
    BY NoFieldsIsMapping DEF Read, JtFinds
  <2> HIDE DEF n
  <2> QED
    BY <2>1, <2>2
<1>2. ASSUME NEW i \in 1..n, NEW g \in [1..n -> V]
      PROVE  JtIteration(extra, i, g, 2) \in V
  <2>1. \A j \in 1..n : j > i => g[j] \in V
    OBVIOUS
  <2> QED
    BY <2>1, JtIterationType
<1>3. ASSUME NEW i \in 1..n, NEW g \in [1..n -> V], NEW h \in [1..n -> V],
             \A j \in 1..n : j > i => g[j] = h[j]
      PROVE  JtIteration(extra, i, g, 2) = JtIteration(extra, i, h, 2)
  BY <1>3, JtIterationLooksAhead
<1>4. PICK g : Solves(g, F, 1..n, V)
  <2> HIDE DEF n, V
  <2>1. F \in [1..n -> [[1..n -> V] -> V]]
    BY <1>2
  <2>2. \A i \in 1..n : \A g, h \in [1..n -> V] :
          (\A j \in 1..n : j > i => g[j] = h[j]) => F[i][g] = F[i][h]
    BY <1>3
  <2> HIDE DEF F
  <2>3. LooksAhead(F, n, V)
    BY <1>1, <2>1, <2>2, Zenon DEF LooksAhead
  <2> QED
    BY <2>3, AheadExists, Zenon
<1>5. g = [i \in 1..n |-> JtIteration(extra, i, g, 2)]
  <2> HIDE DEF n, V
  <2> QED
    BY <1>4 DEF Solves
<1> DEFINE f == CHOOSE f : f = [i \in 1..(Len(extra) + 1) |-> JtIteration(extra, i, f, 2)]
<1>6. f = [i \in 1..n |-> JtIteration(extra, i, f, 2)]
  BY <1>5, Zenon
<1>7. JtExtras(extra) = f[1]
  BY Zenon DEF JtExtras, JtLoop
<1> HIDE DEF f
<1>8. \A i \in 1..n : f[i] = JtIteration(extra, i, f, 2)
  BY <1>6, Zenon
<1> QED
  BY <1>7, <1>8, Zenon DEF JtFrom

-----------------------------------------------------------------------------
(* The loop of jt808 reads an item *)

\* One round of the loop reads the same in both.
LEMMA JtIterationShifted ==
    ASSUME NEW p \in Seq(Nat), NEW t \in Seq(Nat), NEW f, NEW g,
           NEW i \in 1..(Len(t) + 1), AsFrom(i + 1, f, p, g, t)
    PROVE  JtIteration(p \o t, Len(p) + i, f, 2) = JtIteration(t, i, g, 2)
<1> DEFINE u == p \o t
           m == Len(p)
           n == Len(t)
           size == t[i + 1]
           last == IF i + 1 + size > n THEN n ELSE i + 1 + size
           next == i + 2 + size
           Last1 == IF m + i + 1 + size > m + n THEN m + n ELSE m + i + 1 + size
           Next1 == m + i + 2 + size
           part == SubSeq(t, i + 2, last)
           Part1 == SubSeq(u, m + i + 2, Last1)
           rest == IF next > n THEN Read(NoFields) ELSE g[next]
           Rest == IF Next1 > m + n THEN Read(NoFields) ELSE f[Next1]
<1>1. /\ m \in Nat /\ n \in Nat /\ i \in Nat /\ i > 0 /\ i <= n + 1
      /\ u \in Seq(Nat) /\ Len(u) = m + n
  OBVIOUS
<1>2. CASE i + 1 > n
  <2>1. m + i + 1 > Len(u)
    BY <1>1, <1>2
  <2> HIDE DEF u, m
  <2> QED
    BY <1>2, <2>1, Zenon DEF JtIteration, u, m, n
<1>3. CASE ~ (i + 1 > n)
  <2>1. u[m + i] = t[i] /\ u[m + i + 1] = size /\ size \in Nat /\ t[i] \in Nat
    BY <1>1, <1>3
  <2> HIDE DEF size
  <2>2. Last1 = m + last /\ last \in Nat /\ last <= n
    BY <1>1, <2>1
  <2>3. Part1 = part
    <3> DEFINE x == m + i + 2
               a == i + 2
    <3>1. /\ a \in Nat \ {0} /\ last \in Int /\ x \in Int /\ Last1 \in Int
          /\ x = Len(p) + a /\ Last1 = Len(p) + last /\ last <= Len(t)
      BY <1>1, <2>2
    <3> HIDE DEF last, Last1, x, a, m, u
    <3>2. SubSeq(p \o t, x, Last1) = SubSeq(t, a, last)
      BY <3>1, SubSeqOfRight, SMTT(30)
    <3> QED
      BY <3>2, Zenon DEF x, a, u
  <2>4. Rest = rest
    <3>1. CASE next > n
      <4>1. Next1 > m + n
        BY <1>1, <2>1, <3>1
      <4> QED
        BY <3>1, <4>1
    <3>2. CASE ~ (next > n)
      <4>1. ~ (Next1 > m + n) /\ Next1 = m + next /\ next \in (i + 1)..(Len(t) + 1)
        BY <1>1, <2>1, <3>2
      <4>2. f[m + next] = g[next]
        BY <4>1, Zenon DEF AsFrom, m
      <4> QED
        BY <3>2, <4>1, <4>2
    <3> QED
      BY <3>1, <3>2
  <2>5. ~ (m + i + 1 > Len(u))
    BY <1>1, <1>3
  <2> DEFINE j == m + i
  <2>6. /\ JtIteration(u, j, f, 2) = Followed(JtItem(t[i], size, Part1), Rest)
    <3>1. u[j] = t[i] /\ u[j + 1] = size
      BY <2>1
    <3>2. ~ (j + 1 > Len(u)) /\ Len(u) = m + n
      BY <1>1, <2>5
    <3> DEFINE L1 == IF j + 1 + size > m + n THEN m + n ELSE j + 1 + size
    <3>3. SubSeq(u, j + 2, L1) = Part1
      OBVIOUS
    <3>4. (IF j + 2 + size > m + n THEN Read(NoFields) ELSE f[j + 2 + size]) = Rest
      OBVIOUS
    <3> HIDE DEF j, u, m, n, Part1, Rest
    <3> QED
      BY <3>1, <3>2, <3>3, <3>4, Zenon DEF JtIteration
  <2>7. JtIteration(t, i, g, 2) = Followed(JtItem(t[i], size, part), rest)
    BY <1>3, Zenon DEF JtIteration, size
  <2> HIDE DEF u, m, n, part, Part1, rest, Rest
  <2> QED
    BY <2>3, <2>4, <2>6, <2>7, Zenon DEF u, m
<1> QED
  BY <1>2, <1>3

\* So do all rounds.
LEMMA JtShifted ==
    ASSUME NEW p \in Seq(Nat), NEW t \in Seq(Nat), NEW f, NEW g,
           JtFrom(f, p \o t), JtFrom(g, t)
    PROVE  AsFrom(1, f, p, g, t)
<1> DEFINE n == Len(t) + 1
           m == Len(p)
           S == {i \in Nat : f[m + i] = g[i]}
<1>1. n \in Nat /\ m \in Nat /\ Len(p \o t) + 1 = m + n
  OBVIOUS
<1>2. ASSUME NEW i \in 1..n, \A k \in (i + 1)..n : k \in S
      PROVE  i \in S
  <2>1. \A k \in (i + 1)..n : f[m + k] = g[k]
    BY <1>2
  <2>2. JtIteration(p \o t, m + i, f, 2) = JtIteration(t, i, g, 2)
    <3>1. AsFrom(i + 1, f, p, g, t)
      BY <2>1 DEF AsFrom
    <3>2. i \in 1..(Len(t) + 1)
      OBVIOUS
    <3> HIDE DEF n
    <3>3. JtIteration(p \o t, Len(p) + i, f, 2) = JtIteration(t, i, g, 2)
      BY <3>1, <3>2, JtIterationShifted
    <3> QED
      BY <3>3, Zenon DEF m
  <2>3. m + i \in 1..(Len(p \o t) + 1)
    BY <1>1
  <2>4. f[m + i] = JtIteration(p \o t, m + i, f, 2)
    BY <2>3, Zenon DEF JtFrom
  <2>5. g[i] = JtIteration(t, i, g, 2)
    BY Zenon DEF JtFrom
  <2>6. f[m + i] = g[i] /\ i \in Nat
    BY <2>2, <2>4, <2>5
  <2> QED
    BY <2>6
<1>3. 1..n \subseteq S
  <2> HIDE DEF S, n
  <2> QED
    BY <1>1, <1>2, DownwardInduction
<1> QED
  BY <1>3 DEF AsFrom

\* Where the parts of an item are found.
ItemAt(u, id, size, data, t) ==
    /\ u \in Seq(Nat)
    /\ Len(u) = Len(data) + Len(t) + 2
    /\ u[1] = id
    /\ u[2] = size
    /\ SubSeq(u, 3, Len(data) + 2) = data

\* The parts of an item are found there.
LEMMA ItemLaidOut ==
    ASSUME NEW id \in Nat, NEW size \in Nat, NEW data \in Seq(Nat), NEW t \in Seq(Nat)
    PROVE  ItemAt(<<id, size>> \o data \o t, id, size, data, t)
<1> DEFINE h == <<id, size>>
           v == data \o t
           u == h \o v
           d == Len(data)
           w == d + 2
           y == 3
<1>1. /\ h \in Seq(Nat) /\ Len(h) = 2 /\ h[1] = id /\ h[2] = size
      /\ d \in Nat /\ Len(t) \in Nat
  OBVIOUS
<1>2. v \in Seq(Nat) /\ Len(v) = d + Len(t) /\ SubSeq(v, 1, d) = data
  <2>1. v \in Seq(Nat) /\ Len(v) = d + Len(t) /\ \A i \in 1..d : v[i] = data[i]
    OBVIOUS
  <2> DEFINE a == SubSeq(v, 1, d)
  <2> HIDE DEF v
  <2>2. a \in Seq(Nat) /\ Len(a) = d /\ \A i \in 1..d : a[i] = v[i]
    BY <2>1
  <2> HIDE DEF a
  <2>3. a = data
    BY <2>1, <2>2, SameElements
  <2> QED
    BY <2>1, <2>3 DEF a
<1>3. <<id, size>> \o data \o t = u
  <2> HIDE DEF h
  <2>1. h \in Seq(Nat)
    BY <1>1
  <2>2. (h \o data) \o t = h \o (data \o t)
    BY <2>1, Regrouped
  <2> QED
    BY <2>2, Zenon DEF h
<1> HIDE DEF h, v
<1>4. u \in Seq(Nat) /\ Len(u) = d + Len(t) + 2 /\ u[1] = id /\ u[2] = size
  <2>1. Joined(u, h, v, Nat)
    BY <1>1, <1>2, JoinedElements, Zenon
  <2> HIDE DEF u
  <2> QED
    BY <1>1, <1>2, <2>1 DEF Joined
<1>5. SubSeq(u, y, w) = SubSeq(v, 1, d)
  <2>1. d <= Len(v)
    BY <1>1, <1>2
  <2> HIDE DEF d
  <2> QED
    BY <1>1, <1>2, <2>1, PastTwo, Zenon DEF w, y
<1> QED
  BY <1>2, <1>3, <1>4, <1>5 DEF ItemAt

\* What an item that is whole says, and what the bytes after it say.
LEMMA JtReadsItem ==
    ASSUME NEW id \in Nat, NEW data \in Seq(Nat), NEW t \in Seq(Nat)
    PROVE  JtExtras(BuildItem(id, data) \o t)
             = Followed(JtItem(id, Len(data), data), JtExtras(t))
<1> DEFINE p == BuildItem(id, data)
           u == p \o t
           d == Len(data)
           n == Len(t)
           w == d + 2
<1>1. d \in Nat /\ n \in Nat /\ p \in Seq(Nat) /\ Len(p) = w
  BY DEF BuildItem
<1>2. ItemAt(u, id, d, data, t)
  BY <1>1, ItemLaidOut DEF BuildItem
<1> HIDE DEF p
<1>3. u \in Seq(Nat) /\ Len(u) = w + n /\ u[1] = id /\ u[2] = d
  BY <1>1, <1>2 DEF ItemAt
<1>4. SubSeq(u, 3, w) = data
  BY <1>2 DEF ItemAt
<1>5. PICK f : JtFrom(f, u) /\ JtExtras(u) = f[1]
  BY <1>3, JtUnfolds, Zenon
<1>6. PICK g : JtFrom(g, t) /\ JtExtras(t) = g[1]
  BY JtUnfolds, Zenon
<1>7. \A i \in 1..(n + 1) : f[w + i] = g[i]
  <2>1. AsFrom(1, f, p, g, t)
    BY <1>1, <1>5, <1>6, JtShifted, Zenon DEF u
  <2> QED
    BY <1>1, <2>1 DEF AsFrom
<1> HIDE DEF u
<1>8. f[1] = Followed(JtItem(id, d, data),
                      IF w + 1 > w + n THEN Read(NoFields) ELSE f[w + 1])
  <2>1. f[1] = JtIteration(u, 1, f, 2)
    <3>1. 1 \in 1..(Len(u) + 1)
      BY <1>1, <1>3
    <3> QED
      BY <1>5, <3>1, Zenon DEF JtFrom
  <2>2. /\ 1 + 1 = 2 /\ 1 + 2 = 3 /\ 2 + d = w /\ 3 + d = w + 1
        /\ ~ (2 > w + n) /\ ~ (w > w + n)
    BY <1>1
  <2>3. JtIteration(u, 1, f, 2)
          = Followed(JtItem(u[1], d, SubSeq(u, 3, w)),
                     IF w + 1 > w + n THEN Read(NoFields) ELSE f[w + 1])
    <3> HIDE DEF w
    <3> QED
      BY <1>3, <2>2, Zenon DEF JtIteration
  <2> HIDE DEF w
  <2> QED
    BY <1>3, <1>4, <2>1, <2>3, Zenon
<1>9. (IF w + 1 > w + n THEN Read(NoFields) ELSE f[w + 1]) = g[1]
  <2>1. 1 \in 1..(n + 1)
    BY <1>1
  <2>2. f[w + 1] = g[1]
    BY <1>7, <2>1
  <2>3. CASE w + 1 > w + n
    <3>1. 1 + 1 > Len(t)
      BY <1>1, <2>3
    <3>2. g[1] = JtIteration(t, 1, g, 2)
      BY <1>6, <2>1, Zenon DEF JtFrom
    <3>3. JtIteration(t, 1, g, 2) = Read(NoFields)
      BY <3>1, Zenon DEF JtIteration
    <3> QED
      BY <2>3, <3>2, <3>3
  <2> QED
    BY <2>2, <2>3
<1> QED
  BY <1>5, <1>6, <1>8, <1>9, Zenon DEF u, p

\* An item that is cut, and a single byte.
LEMMA JtReadsCut ==
    ASSUME NEW id \in Nat, NEW size \in Nat, NEW data \in Seq(Nat),
           Len(data) < size
    PROVE  JtExtras(<<id, size>> \o data)
             = Followed(JtItem(id, size, data), Read(NoFields))
<1> DEFINE u == <<id, size>> \o data
           d == Len(data)
           w == d + 2
<1>1. d \in Nat /\ u \in Seq(Nat) /\ Len(u) = w /\ u[1] = id /\ u[2] = size
  OBVIOUS
<1>2. SubSeq(u, 3, w) = data
  <2>1. <<>> \in Seq(Nat) /\ u \o <<>> = u
    BY <1>1
  <2>2. ItemAt(u \o <<>>, id, size, data, <<>>)
    BY <2>1, ItemLaidOut
  <2> QED
    BY <2>1, <2>2 DEF ItemAt
<1> HIDE DEF u
<1>3. PICK f : JtFrom(f, u) /\ JtExtras(u) = f[1]
  BY <1>1, JtUnfolds, Zenon
<1>4. f[1] = JtIteration(u, 1, f, 2)
  <2>1. 1 \in 1..(Len(u) + 1)
    BY <1>1
  <2> QED
    BY <1>3, <2>1, Zenon DEF JtFrom
<1>5. /\ 1 + 1 = 2 /\ 1 + 2 = 3
      /\ ~ (2 > w) /\ 2 + size > w /\ 3 + size > w
  BY <1>1
<1>6. JtIteration(u, 1, f, 2)
        = Followed(JtItem(u[1], size, SubSeq(u, 3, w)), Read(NoFields))
  <2> HIDE DEF w
  <2> QED
    BY <1>1, <1>5, Zenon DEF JtIteration
<1> QED
  BY <1>1, <1>3, <1>2, <1>4, <1>6, Zenon DEF u

\* A single byte says nothing.
LEMMA JtReadsNothing ==
    ASSUME NEW t \in Seq(Nat), Len(t) < 2
    PROVE  JtExtras(t) = Read(NoFields)
<1>1. PICK g : JtFrom(g, t) /\ JtExtras(t) = g[1]
  BY JtUnfolds, Zenon
<1>2. 1 \in 1..(Len(t) + 1) /\ 1 + 1 > Len(t)
  OBVIOUS
<1>3. g[1] = JtIteration(t, 1, g, 2)
  BY <1>1, <1>2, Zenon DEF JtFrom
<1>4. JtIteration(t, 1, g, 2) = Read(NoFields)
  BY <1>2, Zenon DEF JtIteration
<1> QED
  BY <1>1, <1>3, <1>4, Zenon

-----------------------------------------------------------------------------
(* The loop of the legacy parser *)

\* The number of an item that the legacy parser knows is within its data.
LEMMA LegacyRow ==
    ASSUME NEW id \in Nat, NEW n \in Nat, LegacyKnown(id, n) # {}
    PROVE  LET size == (CHOOSE row \in LegacyKnown(id, n) : TRUE).size
           IN  size \in Nat /\ size <= n
<1> DEFINE row == CHOOSE row \in LegacyKnown(id, n) : TRUE
<1>1. row \in LegacyKnown(id, n)
  BY Zenon
<1> HIDE DEF row
<1>2. row \in CommonItems /\ row.size <= n
  BY <1>1 DEF LegacyKnown
<1>3. \A r \in CommonItems : r.size \in Nat
  BY DEF CommonItems, Fixed
<1>4. row.size \in Nat /\ row.size <= n
  BY <1>2, <1>3
<1> QED
  BY <1>4 DEF row

\* An item gives fields.
LEMMA LegacyItemType ==
    ASSUME NEW id \in Nat, NEW data \in Seq(Nat)
    PROVE  LegacyItem(id, data) \in Mappings
<1> DEFINE known == LegacyKnown(id, Len(data))
           size == (CHOOSE row \in known : TRUE).size
           n == Value(SubSeq(data, 1, size))
<1>1. CASE IsCustom(id, Len(data))
  <2>1. data[1] \in Nat /\ data[2] \in Nat
    BY <1>1 DEF IsCustom
  <2>2. Custom(data) \in Mappings
    BY <2>1, CustomIsMapping DEF Custom
  <2> QED
    BY <1>1, <2>2, Zenon DEF LegacyItem
<1>2. CASE ~ IsCustom(id, Len(data))
  <2>1. FieldsOf(known, n) \in Mappings
    <3>1. CASE known = {}
      <4>1. FieldsOf({}, n) = NoFields
        BY DEF FieldsOf, NoFields
      <4> HIDE DEF n
      <4> QED
        BY <3>1, <4>1, NoFieldsIsMapping
    <3>2. CASE known # {}
      <4>1. Len(data) \in Nat
        OBVIOUS
      <4>2. size \in Nat /\ size <= Len(data)
        BY <3>2, <4>1, LegacyRow, Zenon
      <4>3. SubSeq(data, 1, size) \in Seq(Nat)
        <5> HIDE DEF size
        <5> QED
          BY <4>2
      <4>4. n \in Nat
        BY <4>3, ValueIsNumber
      <4>5. known \subseteq JtItems
        BY DEF LegacyKnown, JtItems
      <4> HIDE DEF n, known
      <4> QED
        BY <4>4, <4>5, KnownFields
    <3> QED
      BY <3>1, <3>2
  <2>2. LegacyItem(id, data) = FieldsOf(known, n)
    BY <1>2, Zenon DEF LegacyItem
  <2> QED
    BY <2>1, <2>2
<1> QED
  BY <1>1, <1>2

\* So does a round of the loop, whose next position is a later one.
LEMMA LegacyIterationType ==
    ASSUME NEW extra \in Seq(Nat), NEW i \in 1..(Len(extra) + 1), NEW g,
           \A j \in 1..(Len(extra) + 1) : j > i => g[j] \in Mappings
    PROVE  LegacyIteration(extra, i, g, Len(extra)) \in Mappings
<1> DEFINE end == Len(extra)
           last == i + 1 + extra[i + 1]
           part == SubSeq(extra, i + 2, last)
<1>1. LegacyIteration(extra, i, g, end)
        = IF i + 1 > end \/ last > end THEN NoFields
          ELSE Updated(LegacyItem(extra[i], part), g[last + 1])
  BY Zenon DEF LegacyIteration
<1>2. CASE i + 1 > end \/ last > end
  BY <1>1, <1>2, NoFieldsIsMapping
<1>3. CASE ~ (i + 1 > end \/ last > end)
  <2>1. /\ end \in Nat /\ i \in Nat /\ i + 1 <= end /\ extra[i] \in Nat
        /\ last \in Nat /\ last <= end /\ last + 1 > i
    BY <1>3
  <2>2. part \in Seq(Nat)
    <3> HIDE DEF last
    <3> QED
      BY <2>1
  <2>3. g[last + 1] \in Mappings
    <3>1. last + 1 \in 1..(Len(extra) + 1)
      BY <2>1
    <3> QED
      BY <2>1, <3>1
  <2> HIDE DEF part, last
  <2>4. LegacyItem(extra[i], part) \in Mappings
    BY <2>1, <2>2, LegacyItemType
  <2>5. Updated(LegacyItem(extra[i], part), g[last + 1]) \in Mappings
    BY <2>3, <2>4, UpdatedIsMapping
  <2> QED
    BY <1>1, <1>3, <2>5
<1> QED
  BY <1>2, <1>3

\* What the loop reads from a position on depends on later positions only.
LEMMA LegacyIterationLooksAhead ==
    ASSUME NEW extra \in Seq(Nat), NEW i \in 1..(Len(extra) + 1), NEW g, NEW h,
           \A j \in 1..(Len(extra) + 1) : j > i => g[j] = h[j]
    PROVE  LegacyIteration(extra, i, g, Len(extra))
             = LegacyIteration(extra, i, h, Len(extra))
<1> DEFINE end == Len(extra)
           last == i + 1 + extra[i + 1]
           part == SubSeq(extra, i + 2, last)
<1>1. LegacyIteration(extra, i, g, end)
        = IF i + 1 > end \/ last > end THEN NoFields
          ELSE Updated(LegacyItem(extra[i], part), g[last + 1])
  BY Zenon DEF LegacyIteration
<1>2. LegacyIteration(extra, i, h, end)
        = IF i + 1 > end \/ last > end THEN NoFields
          ELSE Updated(LegacyItem(extra[i], part), h[last + 1])
  BY Zenon DEF LegacyIteration
<1>3. CASE ~ (i + 1 > end \/ last > end)
  <2>1. last + 1 \in 1..(Len(extra) + 1) /\ last + 1 > i
    BY <1>3
  <2>2. g[last + 1] = h[last + 1]
    <3> HIDE DEF last
    <3> QED
      BY <2>1
  <2> HIDE DEF part, last, end
  <2> QED
    BY <1>1, <1>2, <1>3, <2>2, Zenon DEF end
<1>4. CASE i + 1 > end \/ last > end
  <2> HIDE DEF part, last, end
  <2> QED
    BY <1>1, <1>2, <1>4, Zenon DEF end
<1> QED
  BY <1>3, <1>4

\* f holds what the loop of the legacy parser reads from every position on.
LegacyFrom(f, extra) ==
    \A i \in 1..(Len(extra) + 1) : f[i] = LegacyIteration(extra, i, f, Len(extra))

\* The loop of the legacy parser finds what its equations say.
LEMMA LegacyUnfolds ==
    ASSUME NEW extra \in Seq(Nat)
    PROVE  \E f : LegacyFrom(f, extra) /\ LegacyExtras(extra) = f[1]
<1> DEFINE n == Len(extra) + 1
           end == Len(extra)
           V == Mappings
           F == [i \in 1..n |-> [g \in [1..n -> V] |-> LegacyIteration(extra, i, g, end)]]
<1>1. n \in Nat /\ V # {}
  <2>1. n \in Nat
    OBVIOUS
  <2> HIDE DEF n
  <2> QED
    BY <2>1, NoFieldsIsMapping
<1>2. ASSUME NEW i \in 1..n, NEW g \in [1..n -> V]
      PROVE  LegacyIteration(extra, i, g, end) \in V
  <2>1. \A j \in 1..n : j > i => g[j] \in V
    OBVIOUS
  <2> QED
    BY <2>1, LegacyIterationType
<1>3. ASSUME NEW i \in 1..n, NEW g \in [1..n -> V], NEW h \in [1..n -> V],
             \A j \in 1..n : j > i => g[j] = h[j]
      PROVE  LegacyIteration(extra, i, g, end) = LegacyIteration(extra, i, h, end)
  BY <1>3, LegacyIterationLooksAhead
<1>4. PICK g : Solves(g, F, 1..n, V)
  <2> HIDE DEF n, V
  <2>1. F \in [1..n -> [[1..n -> V] -> V]]
    BY <1>2
  <2>2. \A i \in 1..n : \A g, h \in [1..n -> V] :
          (\A j \in 1..n : j > i => g[j] = h[j]) => F[i][g] = F[i][h]
    BY <1>3
  <2> HIDE DEF F
  <2>3. LooksAhead(F, n, V)
    BY <1>1, <2>1, <2>2, Zenon DEF LooksAhead
  <2> QED
    BY <2>3, AheadExists, Zenon
<1>5. g = [i \in 1..n |-> LegacyIteration(extra, i, g, end)]
  <2> HIDE DEF n, V
  <2> QED
    BY <1>4 DEF Solves
<1> DEFINE f == CHOOSE f :
                  f = [i \in 1..(Len(extra) + 1) |->
                         LegacyIteration(extra, i, f, Len(extra))]
<1>6. f = [i \in 1..n |-> LegacyIteration(extra, i, f, end)]
  BY <1>5, Zenon
<1>7. LegacyExtras(extra) = f[1]
  BY Zenon DEF LegacyExtras, LegacyLoop
<1> HIDE DEF f
<1>8. \A i \in 1..n : f[i] = LegacyIteration(extra, i, f, end)
  BY <1>6, Zenon
<1> QED
  BY <1>7, <1>8, Zenon DEF LegacyFrom

\* One round of the loop reads the same in both.
LEMMA LegacyIterationShifted ==
    ASSUME NEW p \in Seq(Nat), NEW t \in Seq(Nat), NEW f, NEW g,
           NEW i \in 1..(Len(t) + 1), AsFrom(i + 1, f, p, g, t)
    PROVE  LegacyIteration(p \o t, Len(p) + i, f, Len(p \o t))
             = LegacyIteration(t, i, g, Len(t))
<1> DEFINE u == p \o t
           m == Len(p)
           n == Len(t)
           j == m + i
           end == Len(u)
           last == i + 1 + t[i + 1]
           last2 == j + 1 + u[j + 1]
           part == SubSeq(t, i + 2, last)
           part2 == SubSeq(u, j + 2, last2)
<1>1. /\ m \in Nat /\ n \in Nat /\ i \in Nat /\ i > 0 /\ i <= n + 1
      /\ u \in Seq(Nat) /\ end = m + n
  OBVIOUS
<1>2. LegacyIteration(u, j, f, end)
        = IF j + 1 > end \/ last2 > end THEN NoFields
          ELSE Updated(LegacyItem(u[j], part2), f[last2 + 1])
  BY Zenon DEF LegacyIteration
<1>3. LegacyIteration(t, i, g, n)
        = IF i + 1 > n \/ last > n THEN NoFields
          ELSE Updated(LegacyItem(t[i], part), g[last + 1])
  BY Zenon DEF LegacyIteration
<1>4. CASE i + 1 > n
  <2>1. j + 1 > end
    BY <1>1, <1>4
  <2> HIDE DEF u, end, n, last, last2, part, part2, j
  <2> QED
    BY <1>2, <1>3, <1>4, <2>1, Zenon DEF u, end, n, j, m
<1>5. CASE ~ (i + 1 > n)
  <2>1. u[j] = t[i] /\ u[j + 1] = t[i + 1] /\ t[i + 1] \in Nat /\ t[i] \in Nat
    BY <1>1, <1>5
  <2> HIDE DEF u, m
  <2>2. last2 = m + last /\ last \in Nat
    <3> DEFINE b == u[j + 1]
               c == t[i + 1]
    <3>1. b = c /\ c \in Nat /\ last = i + 1 + c /\ last2 = j + 1 + b
      BY <2>1
    <3> HIDE DEF b, c, last, last2
    <3> QED
      BY <1>1, <3>1
  <2>3. ~ (j + 1 > end) /\ (last2 > end <=> last > n)
    <3> HIDE DEF u, end, last, last2
    <3> QED
      BY <1>1, <1>5, <2>2
  <2>4. last >= i + 1
    <3> DEFINE c == t[i + 1]
    <3>1. c \in Nat /\ last = i + 1 + c
      BY <2>1
    <3> HIDE DEF c, last
    <3> QED
      BY <1>1, <3>1
  <2>5. CASE last > n
    <3> HIDE DEF u, end, n, last, last2, part, part2, j
    <3> QED
      BY <1>2, <1>3, <2>3, <2>5, Zenon DEF u, end, n, j, m
  <2>6. CASE ~ (last > n)
    <3>1. part2 = part
      <4> DEFINE x == j + 2
                 a == i + 2
      <4> HIDE DEF last, last2
      <4>1. /\ a \in Nat \ {0} /\ last \in Int /\ x \in Int /\ last2 \in Int
            /\ x = Len(p) + a /\ last2 = Len(p) + last /\ last <= Len(t)
        BY <1>1, <2>2, <2>6 DEF m
      <4> HIDE DEF x, a
      <4>2. SubSeq(p \o t, x, last2) = SubSeq(t, a, last)
        BY <4>1, SubSeqOfRight, SMTT(30)
      <4> QED
        BY <4>2, Zenon DEF x, a, u
    <3>2. f[last2 + 1] = g[last + 1]
      <4> HIDE DEF last, last2
      <4> DEFINE k == last + 1
      <4>1. k \in (i + 1)..(Len(t) + 1) /\ last2 + 1 = m + k
        BY <1>1, <2>2, <2>6, <2>4
      <4> HIDE DEF k
      <4>2. f[m + k] = g[k]
        BY <4>1, Zenon DEF AsFrom, m
      <4> QED
        BY <4>1, <4>2, Zenon DEF k
    <3>3. ~ (last2 > end)
      BY <2>3, <2>6
    <3> HIDE DEF u, end, n, last, last2, part, part2, j
    <3> QED
      BY <1>2, <1>3, <1>5, <2>1, <2>3, <2>6, <3>1, <3>2, <3>3, Zenon
      DEF u, end, n, j, m
  <2> QED
    BY <2>5, <2>6
<1> QED
  BY <1>4, <1>5

\* So do all rounds.
LEMMA LegacyShifted ==
    ASSUME NEW p \in Seq(Nat), NEW t \in Seq(Nat), NEW f, NEW g,
           LegacyFrom(f, p \o t), LegacyFrom(g, t)
    PROVE  AsFrom(1, f, p, g, t)
<1> DEFINE n == Len(t) + 1
           m == Len(p)
           S == {i \in Nat : f[m + i] = g[i]}
<1>1. n \in Nat /\ m \in Nat /\ Len(p \o t) + 1 = m + n
  OBVIOUS
<1>2. ASSUME NEW i \in 1..n, \A k \in (i + 1)..n : k \in S
      PROVE  i \in S
  <2>1. \A k \in (i + 1)..n : f[m + k] = g[k]
    BY <1>2
  <2>2. LegacyIteration(p \o t, m + i, f, Len(p \o t)) = LegacyIteration(t, i, g, Len(t))
    <3>1. AsFrom(i + 1, f, p, g, t)
      BY <2>1 DEF AsFrom
    <3>2. i \in 1..(Len(t) + 1)
      OBVIOUS
    <3> HIDE DEF n
    <3>3. LegacyIteration(p \o t, Len(p) + i, f, Len(p \o t))
            = LegacyIteration(t, i, g, Len(t))
      BY <3>1, <3>2, LegacyIterationShifted
    <3> QED
      BY <3>3, Zenon DEF m
  <2>3. m + i \in 1..(Len(p \o t) + 1)
    BY <1>1
  <2>4. f[m + i] = LegacyIteration(p \o t, m + i, f, Len(p \o t))
    BY <2>3, Zenon DEF LegacyFrom
  <2>5. g[i] = LegacyIteration(t, i, g, Len(t))
    BY Zenon DEF LegacyFrom
  <2>6. f[m + i] = g[i] /\ i \in Nat
    BY <2>2, <2>4, <2>5
  <2> QED
    BY <2>6
<1>3. 1..n \subseteq S
  <2> HIDE DEF S, n
  <2> QED
    BY <1>1, <1>2, DownwardInduction
<1> QED
  BY <1>3 DEF AsFrom

\* What an item that is whole says, and what the bytes after it say.
LEMMA LegacyReadsItem ==
    ASSUME NEW id \in Nat, NEW data \in Seq(Nat), NEW t \in Seq(Nat)
    PROVE  LegacyExtras(BuildItem(id, data) \o t)
             = Updated(LegacyItem(id, data), LegacyExtras(t))
<1> DEFINE p == BuildItem(id, data)
           u == p \o t
           d == Len(data)
           n == Len(t)
           w == d + 2
<1>1. d \in Nat /\ n \in Nat /\ p \in Seq(Nat) /\ Len(p) = w
  BY DEF BuildItem
<1>2. ItemAt(u, id, d, data, t)
  BY <1>1, ItemLaidOut DEF BuildItem
<1> HIDE DEF p
<1>3. u \in Seq(Nat) /\ Len(u) = w + n /\ u[1] = id /\ u[2] = d
  BY <1>1, <1>2 DEF ItemAt
<1>4. SubSeq(u, 3, w) = data
  BY <1>2 DEF ItemAt
<1>5. PICK f : LegacyFrom(f, u) /\ LegacyExtras(u) = f[1]
  BY <1>3, LegacyUnfolds, Zenon
<1>6. PICK g : LegacyFrom(g, t) /\ LegacyExtras(t) = g[1]
  BY LegacyUnfolds, Zenon
<1>7. f[w + 1] = g[1]
  <2>1. AsFrom(1, f, p, g, t)
    BY <1>1, <1>5, <1>6, LegacyShifted, Zenon DEF u
  <2>2. 1 \in 1..(n + 1)
    BY <1>1
  <2> QED
    BY <1>1, <2>1, <2>2 DEF AsFrom
<1> HIDE DEF u
<1>8. f[1] = LegacyIteration(u, 1, f, Len(u))
  <2>1. 1 \in 1..(Len(u) + 1)
    BY <1>1, <1>3
  <2> QED
    BY <1>5, <2>1, Zenon DEF LegacyFrom
<1>9. w = 1 + 1 + u[1 + 1] /\ ~ (1 + 1 > Len(u) \/ w > Len(u)) /\ 1 + 2 = 3
  BY <1>1, <1>3, SMTT(30)
<1> HIDE DEF w
<1>10. LegacyIteration(u, 1, f, Len(u))
         = Updated(LegacyItem(u[1], SubSeq(u, 1 + 2, w)), f[w + 1])
  BY <1>9, Zenon DEF LegacyIteration
<1> QED
  BY <1>3, <1>4, <1>5, <1>6, <1>7, <1>8, <1>9, <1>10, Zenon DEF u, p

\* An item that is cut says nothing, and neither does a single byte.
LEMMA LegacyReadsCut ==
    ASSUME NEW id \in Nat, NEW size \in Nat, NEW data \in Seq(Nat),
           Len(data) < size
    PROVE  LegacyExtras(<<id, size>> \o data) = NoFields
<1> DEFINE u == <<id, size>> \o data
           d == Len(data)
           last == size + 2
<1>1. d \in Nat /\ u \in Seq(Nat) /\ Len(u) = d + 2 /\ u[1] = id /\ u[2] = size
  OBVIOUS
<1> HIDE DEF u
<1>2. PICK f : LegacyFrom(f, u) /\ LegacyExtras(u) = f[1]
  BY <1>1, LegacyUnfolds, Zenon
<1>3. f[1] = LegacyIteration(u, 1, f, Len(u))
  <2>1. 1 \in 1..(Len(u) + 1)
    BY <1>1
  <2> QED
    BY <1>2, <2>1, Zenon DEF LegacyFrom
<1>4. last = 1 + 1 + u[1 + 1] /\ last > Len(u)
  BY <1>1
<1> HIDE DEF last
<1>5. LegacyIteration(u, 1, f, Len(u)) = NoFields
  BY <1>4, Zenon DEF LegacyIteration
<1> QED
  BY <1>2, <1>3, <1>5, Zenon DEF u

\* A single byte says nothing.
LEMMA LegacyReadsNothing ==
    ASSUME NEW t \in Seq(Nat), Len(t) < 2
    PROVE  LegacyExtras(t) = NoFields
<1>1. PICK g : LegacyFrom(g, t) /\ LegacyExtras(t) = g[1]
  BY LegacyUnfolds, Zenon
<1>2. 1 \in 1..(Len(t) + 1) /\ 1 + 1 > Len(t)
  OBVIOUS
<1>3. g[1] = LegacyIteration(t, 1, g, Len(t))
  BY <1>1, <1>2, Zenon DEF LegacyFrom
<1>4. LegacyIteration(t, 1, g, Len(t)) = NoFields
  BY <1>2, Zenon DEF LegacyIteration
<1> QED
  BY <1>1, <1>3, <1>4, Zenon

-----------------------------------------------------------------------------
(* What follows what *)

\* What the loop of jt808 finds is a record of two fields.
LEMMA JtFindsForm ==
    ASSUME NEW r \in JtFinds
    PROVE  /\ r.raised \in BOOLEAN /\ r.fields \in Mappings
           /\ r = [raised |-> r.raised, fields |-> r.fields]
BY DEF JtFinds

\* Followed by nothing, nothing changes.
LEMMA FollowedByNothing ==
    ASSUME NEW f \in Mappings
    PROVE  Followed(Read(f), Read(NoFields)) = Read(f)
<1>1. Updated(f, NoFields) = f
  BY MappingWithNothing
<1> QED
  BY <1>1 DEF Followed, Read

\* Following nothing changes nothing.
LEMMA FollowingNothing ==
    ASSUME NEW r \in JtFinds
    PROVE  Followed(Read(NoFields), r) = r
<1>1. /\ r.raised \in BOOLEAN /\ r.fields \in Mappings
      /\ r = [raised |-> r.raised, fields |-> r.fields]
  BY JtFindsForm
<1>2. Updated(NoFields, r.fields) = r.fields
  BY <1>1, MappingWithNothing
<1> QED
  BY <1>1, <1>2 DEF Followed, Read

\* What follows may be taken together.
LEMMA FollowedTwice ==
    ASSUME NEW f, NEW g, NEW r \in JtFinds
    PROVE  Followed(Read(f), Followed(Read(g), r)) = Followed(Read(Updated(f, g)), r)
<1>1. r.raised \in BOOLEAN
  BY JtFindsForm
<1>2. Updated(Updated(f, g), r.fields) = Updated(f, Updated(g, r.fields))
  BY UpdatedTwice
<1> QED
  BY <1>1, <1>2 DEF Followed, Read

\* Whatever the bytes are, the loop of jt808 finds fields or raises.
LEMMA JtExtrasType ==
    ASSUME NEW extra \in Seq(Nat)
    PROVE  JtExtras(extra) \in JtFinds
<1> DEFINE n == Len(extra) + 1
<1>1. PICK f : JtFrom(f, extra) /\ JtExtras(extra) = f[1]
  BY JtUnfolds, Zenon
<1> DEFINE S == {i \in Nat : f[i] \in JtFinds}
<1>2. n \in Nat /\ 1 \in 1..n
  OBVIOUS
<1>3. ASSUME NEW i \in 1..n, \A k \in (i + 1)..n : k \in S
      PROVE  i \in S
  <2>1. \A k \in 1..n : k > i => f[k] \in JtFinds
    BY <1>3
  <2>2. JtIteration(extra, i, f, 2) \in JtFinds
    BY <2>1, JtIterationType
  <2>3. f[i] = JtIteration(extra, i, f, 2)
    BY <1>1, Zenon DEF JtFrom
  <2> QED
    BY <2>2, <2>3
<1>4. 1..n \subseteq S
  <2> HIDE DEF S, n
  <2> QED
    BY <1>2, <1>3, DownwardInduction
<1> QED
  BY <1>1, <1>2, <1>4

\* Whatever the bytes are, the loop of the legacy parser finds fields.
LEMMA LegacyExtrasType ==
    ASSUME NEW extra \in Seq(Nat)
    PROVE  LegacyExtras(extra) \in Mappings
<1> DEFINE n == Len(extra) + 1
<1>1. PICK f : LegacyFrom(f, extra) /\ LegacyExtras(extra) = f[1]
  BY LegacyUnfolds, Zenon
<1> DEFINE S == {i \in Nat : f[i] \in Mappings}
<1>2. n \in Nat /\ 1 \in 1..n
  OBVIOUS
<1>3. ASSUME NEW i \in 1..n, \A k \in (i + 1)..n : k \in S
      PROVE  i \in S
  <2>1. \A k \in 1..n : k > i => f[k] \in Mappings
    BY <1>3
  <2>2. LegacyIteration(extra, i, f, Len(extra)) \in Mappings
    BY <2>1, LegacyIterationType
  <2>3. f[i] = LegacyIteration(extra, i, f, Len(extra))
    BY <1>1, Zenon DEF LegacyFrom
  <2> QED
    BY <2>2, <2>3
<1>4. 1..n \subseteq S
  <2> HIDE DEF S, n
  <2> QED
    BY <1>2, <1>3, DownwardInduction
<1> QED
  BY <1>1, <1>2, <1>4

-----------------------------------------------------------------------------
(* Reports of whole items *)

\* An item, what the two parsers make of it, and what jt808 makes of it when it
\* is cut.
IsRead(x) ==
    /\ x.id \in Nat
    /\ x.data \in Seq(Nat)
    /\ x.jt \in Mappings
    /\ x.legacy \in Mappings
    /\ JtItem(x.id, Len(x.data), x.data) = Read(x.jt)
    /\ LegacyItem(x.id, x.data) = x.legacy

\* The first bytes of an item are read if jt808 needs no more of them.
IsReadCut(x) ==
    /\ x.needs \in Nat
    /\ \A k \in Nat :
         k < Len(x.data) =>
           JtItem(x.id, Len(x.data), SubSeq(x.data, 1, k))
             = IF k < x.needs THEN Raised ELSE Read(x.jt)

\* What is sent for an item.
Sent(X) == [x \in X |-> BuildItem(x.id, x.data)]

\* It is a sequence of bytes.
LEMMA SentType ==
    ASSUME NEW X, \A x \in X : IsRead(x)
    PROVE  Sent(X) \in [X -> Seq(Nat)]
<1>1. \A x \in X : BuildItem(x.id, x.data) \in Seq(Nat)
  <2> TAKE x \in X
  <2>1. x.id \in Nat /\ x.data \in Seq(Nat)
    BY DEF IsRead
  <2> DEFINE a == x.id
             b == x.data
  <2>2. a \in Nat /\ b \in Seq(Nat)
    BY <2>1
  <2> HIDE DEF a, b
  <2>3. <<a, Len(b)>> \o b \in Seq(Nat)
    BY <2>2
  <2> QED
    BY <2>3 DEF BuildItem, a, b
<1> QED
  BY <1>1 DEF Sent

\* A report holds what is sent for its items.
LEMMA ItemizedIs ==
    ASSUME NEW X, NEW s \in Seq(X)
    PROVE  Itemized(s) = FlatMap(Sent(X), s)
<1>1. \A i \in 1..Len(s) : s[i] \in X
  OBVIOUS
<1>2. \A i \in 1..Len(s) : BuildItem(s[i].id, s[i].data) = Sent(X)[s[i]]
  BY <1>1, Zenon DEF Sent
<1> DEFINE n == Len(s)
           a(i) == BuildItem(s[i].id, s[i].data)
           b(i) == Sent(X)[s[i]]
<1>3. \A i \in 1..n : a(i) = b(i)
  BY <1>2
<1> HIDE DEF n, a, b
<1>4. [i \in 1..n |-> a(i)] = [i \in 1..n |-> b(i)]
  BY <1>3
<1> QED
  BY <1>4, Zenon DEF Itemized, FlatMap, n, a, b

\* That is a sequence of bytes.
LEMMA ItemizedType ==
    ASSUME NEW X, \A x \in X : IsRead(x), NEW s \in Seq(X)
    PROVE  Itemized(s) \in Seq(Nat)
<1>1. Sent(X) \in [X -> Seq(Nat)]
  BY SentType
<1>2. FlatMap(Sent(X), s) \in Seq(Nat)
  BY <1>1, FlatMapType
<1> QED
  BY <1>2, ItemizedIs, Zenon

\* An item more is added at its end.
LEMMA ItemizedAppend ==
    ASSUME NEW X, \A x \in X : IsRead(x), NEW s \in Seq(X), NEW x \in X
    PROVE  Itemized(Append(s, x)) = Itemized(s) \o BuildItem(x.id, x.data)
<1>1. Sent(X) \in [X -> Seq(Nat)]
  BY SentType
<1>2. FlatMap(Sent(X), Append(s, x)) = FlatMap(Sent(X), s) \o Sent(X)[x]
  BY <1>1, FlatMapAppend, Zenon
<1>3. Append(s, x) \in Seq(X)
  OBVIOUS
<1>4. Sent(X)[x] = BuildItem(x.id, x.data)
  BY Zenon DEF Sent
<1> QED
  BY <1>2, <1>3, <1>4, ItemizedIs, Zenon

\* The bytes of two sequences of items are joined.
LEMMA ItemizedConcat ==
    ASSUME NEW X, \A x \in X : IsRead(x), NEW s \in Seq(X), NEW t \in Seq(X)
    PROVE  Itemized(s \o t) = Itemized(s) \o Itemized(t)
<1> DEFINE h == Sent(X)
<1>1. h \in [X -> Seq(Nat)]
  BY SentType
<1> HIDE DEF h
<1>2. FlatMap(h, s \o t) = FlatMap(h, s) \o FlatMap(h, t)
  BY <1>1, FlatMapConcat
<1>3. s \o t \in Seq(X)
  OBVIOUS
<1> QED
  BY <1>2, <1>3, ItemizedIs, Zenon DEF h

\* No items, no bytes.
LEMMA ItemizedNone == Itemized(<<>>) = <<>>
<1>1. <<>> \in Seq({})
  OBVIOUS
<1> QED
  BY <1>1, ItemizedIs, FlatMapEmpty, Zenon

\* An item more overrides what is said.
LEMMA JtSaidAppend ==
    ASSUME NEW X, \A x \in X : IsRead(x), NEW s \in Seq(X), NEW x \in X
    PROVE  JtSaid(Append(s, x)) = Updated(JtSaid(s), x.jt)
<1> DEFINE a == [i \in 1..Len(s) |-> s[i].jt]
           y == Append(s, x)
           b == [i \in 1..Len(y) |-> y[i].jt]
<1>1. \A u \in X : u.jt \in Mappings
  BY DEF IsRead
<1>2. a \in Seq(Mappings) /\ x.jt \in Mappings
  BY <1>1
<1>3. b = Append(a, x.jt)
  OBVIOUS
<1> HIDE DEF a
<1>4. Said(Append(a, x.jt)) = Updated(Said(a), x.jt)
  BY <1>2, SaidAppend, Zenon
<1> QED
  BY <1>3, <1>4, Zenon DEF JtSaid, a

\* Also for the legacy parser.
LEMMA LegacySaidAppend ==
    ASSUME NEW X, \A x \in X : IsRead(x), NEW s \in Seq(X), NEW x \in X
    PROVE  LegacySaid(Append(s, x)) = Updated(LegacySaid(s), x.legacy)
<1> DEFINE a == [i \in 1..Len(s) |-> s[i].legacy]
           y == Append(s, x)
           b == [i \in 1..Len(y) |-> y[i].legacy]
<1>1. \A u \in X : u.legacy \in Mappings
  BY DEF IsRead
<1>2. a \in Seq(Mappings) /\ x.legacy \in Mappings
  BY <1>1
<1>3. b = Append(a, x.legacy)
  OBVIOUS
<1> HIDE DEF a
<1>4. Said(Append(a, x.legacy)) = Updated(Said(a), x.legacy)
  BY <1>2, SaidAppend, Zenon
<1> QED
  BY <1>3, <1>4, Zenon DEF LegacySaid, a

\* No items say nothing.
LEMMA SaidNone == JtSaid(<<>>) = NoFields /\ LegacySaid(<<>>) = NoFields
<1>1. [i \in 1..Len(<<>>) |-> <<>>[i].jt] = <<>>
  OBVIOUS
<1>2. [i \in 1..Len(<<>>) |-> <<>>[i].legacy] = <<>>
  OBVIOUS
<1> QED
  BY <1>1, <1>2, SaidOfNone, Zenon DEF JtSaid, LegacySaid

\* What whole items say, whatever bytes follow them.
JtReads(s, t) == JtExtras(Itemized(s) \o t) = Followed(Read(JtSaid(s)), JtExtras(t))
LegacyReads(s, t) ==
    LegacyExtras(Itemized(s) \o t) = Updated(LegacySaid(s), LegacyExtras(t))

\* Whole items are read, whatever bytes follow them: by induction on the items.
LEMMA ItemsAreRead ==
    ASSUME NEW X, \A x \in X : IsRead(x)
    PROVE  \A s \in Seq(X) :
             /\ JtSaid(s) \in Mappings /\ LegacySaid(s) \in Mappings
             /\ \A t \in Seq(Nat) : JtReads(s, t) /\ LegacyReads(s, t)
<1> DEFINE Fine(s) ==
             /\ JtSaid(s) \in Mappings /\ LegacySaid(s) \in Mappings
             /\ \A t \in Seq(Nat) : JtReads(s, t) /\ LegacyReads(s, t)
           G == {s \in Seq(X) : Fine(s)}
<1>1. <<>> \in G
  <2>1. JtSaid(<<>>) \in Mappings /\ LegacySaid(<<>>) \in Mappings
    BY SaidNone, NoFieldsIsMapping
  <2>2. ASSUME NEW t \in Seq(Nat)
        PROVE  JtReads(<<>>, t) /\ LegacyReads(<<>>, t)
    <3>1. Itemized(<<>>) \o t = t
      <4>1. <<>> \o t = t
        OBVIOUS
      <4> QED
        BY <4>1, ItemizedNone, Zenon
    <3>2. Followed(Read(NoFields), JtExtras(t)) = JtExtras(t)
      BY JtExtrasType, FollowingNothing
    <3>3. Updated(NoFields, LegacyExtras(t)) = LegacyExtras(t)
      BY LegacyExtrasType, MappingWithNothing
    <3> QED
      BY <3>1, <3>2, <3>3, SaidNone, Zenon DEF JtReads, LegacyReads
  <2>3. <<>> \in Seq(X)
    OBVIOUS
  <2> QED
    BY <2>1, <2>2, <2>3, Zenon
<1>2. ASSUME NEW s \in Seq(X), NEW x \in X, s \in G
      PROVE  Append(s, x) \in G
  <2>1. Fine(s)
    BY <1>2, Zenon
  <2>2. IsRead(x)
    OBVIOUS
  <2> DEFINE y == Append(s, x)
             p == BuildItem(x.id, x.data)
             j == x.jt
             l == x.legacy
             m == Itemized(s)
  <2>3. /\ y \in Seq(X) /\ m \in Seq(Nat)
        /\ j \in Mappings /\ l \in Mappings
        /\ p \in Seq(Nat)
    <3>1. y \in Seq(X)
      OBVIOUS
    <3>2. m \in Seq(Nat)
      BY ItemizedType, Zenon
    <3>3. j \in Mappings /\ l \in Mappings
      BY <2>2 DEF IsRead
    <3>4. p \in Seq(Nat)
      <4>1. Sent(X) \in [X -> Seq(Nat)] /\ Sent(X)[x] = p
        BY SentType, Zenon DEF Sent
      <4> HIDE DEF p
      <4> QED
        BY <4>1
    <3> QED
      BY <3>1, <3>2, <3>3, <3>4
  <2>4. Itemized(y) = m \o p
    BY ItemizedAppend, Zenon
  <2>5. JtSaid(y) = Updated(JtSaid(s), j) /\ LegacySaid(y) = Updated(LegacySaid(s), l)
    BY JtSaidAppend, LegacySaidAppend, Zenon
  <2>6. JtSaid(y) \in Mappings /\ LegacySaid(y) \in Mappings
    <3> HIDE DEF j, l, y
    <3> QED
      BY <2>1, <2>3, <2>5, UpdatedIsMapping
  <2>7. ASSUME NEW t \in Seq(Nat)
        PROVE  JtReads(y, t) /\ LegacyReads(y, t)
    <3> DEFINE u == p \o t
    <3>1. u \in Seq(Nat)
      <4> HIDE DEF p
      <4> QED
        BY <2>3
    <3>2. Itemized(y) \o t = m \o u
      <4> HIDE DEF y, p, m
      <4>1. m \in Seq(Nat) /\ p \in Seq(Nat)
        BY <2>3
      <4>2. (m \o p) \o t = m \o (p \o t)
        BY <4>1, Regrouped, SMTT(30)
      <4> QED
        BY <2>4, <4>2
    <3>3. /\ JtExtras(m \o u) = Followed(Read(JtSaid(s)), JtExtras(u))
          /\ LegacyExtras(m \o u) = Updated(LegacySaid(s), LegacyExtras(u))
      <4> HIDE DEF u
      <4>1. JtReads(s, u) /\ LegacyReads(s, u)
        BY <2>1, <3>1
      <4> QED
        BY <4>1, Zenon DEF JtReads, LegacyReads
    <3>4. x.id \in Nat /\ x.data \in Seq(Nat)
      BY <2>2 DEF IsRead
    <3>5. JtExtras(u) = Followed(JtItem(x.id, Len(x.data), x.data), JtExtras(t))
      BY <3>4, JtReadsItem, Zenon
    <3>6. LegacyExtras(u) = Updated(LegacyItem(x.id, x.data), LegacyExtras(t))
      BY <3>4, LegacyReadsItem, Zenon
    <3>7. JtItem(x.id, Len(x.data), x.data) = Read(j) /\ LegacyItem(x.id, x.data) = l
      BY <2>2, Zenon DEF IsRead
    <3>8. Followed(Read(JtSaid(s)), Followed(Read(j), JtExtras(t)))
            = Followed(Read(Updated(JtSaid(s), j)), JtExtras(t))
      BY JtExtrasType, FollowedTwice
    <3>9. Updated(Updated(LegacySaid(s), l), LegacyExtras(t))
            = Updated(LegacySaid(s), Updated(l, LegacyExtras(t)))
      BY UpdatedTwice
    <3> HIDE DEF u, y, m, j, l
    <3>10. JtReads(y, t)
      BY <2>5, <3>2, <3>3, <3>5, <3>7, <3>8, Zenon DEF JtReads
    <3>11. LegacyReads(y, t)
      BY <2>5, <3>2, <3>3, <3>6, <3>7, <3>9, Zenon DEF LegacyReads
    <3> QED
      BY <3>10, <3>11
  <2> QED
    BY <2>3, <2>6, <2>7, Zenon
<1>3. Seq(X) \subseteq G
  <2> HIDE DEF G
  <2> QED
    BY <1>1, <1>2, AppendInduction
<1> QED
  BY <1>3

-----------------------------------------------------------------------------
(* Reports that end early *)

\* All items are whole among the first n bytes.
AllWhole(n) ==
    /\ Whole(n) = items
    /\ n = Len(Itemized(items))
    /\ SubSeq(Itemized(items), 1, n) = Itemized(items)

\* After some whole items m bytes of the next one follow.
EndsWithin(n, x, m) ==
    LET whole == Whole(n)
    IN  /\ x = items[Len(whole) + 1]
        /\ m < Len(x.data) + 2
        /\ n = Len(Itemized(whole)) + m
        /\ SubSeq(Itemized(items), 1, n)
             = Itemized(whole) \o SubSeq(BuildItem(x.id, x.data), 1, m)

\* Either all items are whole or the report ends within the next one.
LEMMA WholeOnes ==
    ASSUME NEW X, \A x \in X : IsRead(x), items \in Seq(X),
           NEW n \in 0..Len(Itemized(items))
    PROVE  /\ Whole(n) \in Seq(X)
           /\ AllWhole(n) \/ \E x \in X, m \in Nat : EndsWithin(n, x, m)
<1> DEFINE s == items
           I == Itemized(s)
           z == Len(s)
           K == {j \in 0..z : Len(Itemized(SubSeq(s, 1, j))) <= n}
           k == Max(K)
           a == SubSeq(s, 1, k)
           A == Itemized(a)
<1>1. s \in Seq(X) /\ z \in Nat
  OBVIOUS
<1>2. I \in Seq(Nat) /\ n \in Nat /\ n <= Len(I)
  <2>1. I \in Seq(Nat)
    BY ItemizedType, Zenon
  <2> HIDE DEF I
  <2> QED
    BY <2>1 DEF I
<1>3. 0 \in K
  <2>1. SubSeq(s, 1, 0) = <<>>
    BY <1>1
  <2>2. Len(Itemized(SubSeq(s, 1, 0))) = 0
    <3>1. Itemized(SubSeq(s, 1, 0)) = <<>>
      BY <2>1, ItemizedNone, Zenon
    <3>2. Len(<<>>) = 0
      OBVIOUS
    <3> QED
      BY <3>1, <3>2, Zenon
  <2> QED
    BY <1>1, <1>2, <2>2
<1>4. k \in K /\ \A y \in K : y <= k
  <2>1. K \subseteq 0..z /\ K # {}
    BY <1>3
  <2> HIDE DEF K
  <2> QED
    BY <1>1, <2>1, MaxOfPositions
<1>5. Whole(n) = a
  BY Zenon DEF Whole
<1> HIDE DEF k
<1>6. k \in Nat /\ k <= z /\ Len(Itemized(SubSeq(s, 1, k))) <= n
  BY <1>1, <1>4
<1>7. k + 1 <= z => ~ (Len(Itemized(SubSeq(s, 1, k + 1))) <= n)
  <2>1. k + 1 \notin K
    BY <1>4, <1>6
  <2> QED
    BY <1>1, <1>6, <2>1
<1> HIDE DEF K
<1>8. CASE k = z
  <2>1. a = s
    BY <1>1, <1>8
  <2>2. n = Len(I)
    <3>1. Len(I) <= n
      BY <1>6, <2>1
    <3> HIDE DEF I
    <3> QED
      BY <1>2, <3>1
  <2>3. SubSeq(I, 1, n) = I
    <3> HIDE DEF I
    <3> QED
      BY <1>2, <2>2
  <2>4. AllWhole(n)
    BY <1>5, <2>1, <2>2, <2>3, Zenon DEF AllWhole
  <2> QED
    BY <1>1, <1>5, <2>1, <2>4
<1>9. CASE k < z
  <2> DEFINE x == s[k + 1]
             r == SubSeq(s, k + 2, z)
             y == Append(a, x)
             B == BuildItem(x.id, x.data)
             P == A \o B
             R == Itemized(r)
             m == n - Len(A)
  <2>1. /\ a \in Seq(X) /\ Len(a) = k /\ r \in Seq(X) /\ x \in X
        /\ SubSeq(s, 1, k + 1) = y /\ s = y \o r
    BY <1>1, <1>6, <1>9, SplitAround, Zenon
  <2>2. y \in Seq(X)
    <3> HIDE DEF a, x
    <3> QED
      BY <2>1
  <2> HIDE DEF a, x, r
  <2>3. A \in Seq(Nat) /\ R \in Seq(Nat)
    BY <2>1, ItemizedType, Zenon
  <2>4. B \in Seq(Nat) /\ Len(B) = Len(x.data) + 2 /\ Len(x.data) \in Nat
    <3>1. IsRead(x)
      BY <2>1
    <3> DEFINE d == x.data
               id == x.id
    <3>2. id \in Nat /\ d \in Seq(Nat)
      BY <3>1 DEF IsRead
    <3> HIDE DEF d, id
    <3>3. <<id, Len(d)>> \o d \in Seq(Nat) /\ Len(<<id, Len(d)>> \o d) = Len(d) + 2
      BY <3>2
    <3>4. Len(d) \in Nat
      BY <3>2
    <3> QED
      BY <3>3, <3>4 DEF d, id, BuildItem
  <2>5. Itemized(y) = P
    BY <2>1, ItemizedAppend, Zenon
  <2>6. I = P \o R
    <3>1. Itemized(y \o r) = Itemized(y) \o R
      <4> HIDE DEF y
      <4> QED
        BY <2>1, <2>2, ItemizedConcat, Zenon
    <3> QED
      BY <2>1, <2>5, <3>1
  <2> HIDE DEF I, A, B, R
  <2>7. P \in Seq(Nat) /\ Len(P) = Len(A) + Len(B)
    <3>1. Joined(P, A, B, Nat)
      BY <2>3, <2>4, JoinedElements, Zenon
    <3> HIDE DEF P
    <3> QED
      BY <3>1 DEF Joined
  <2>8. n < Len(P) /\ Len(A) <= n /\ Len(A) \in Nat
    <3>1. ~ (Len(P) <= n)
      <4>1. k + 1 <= z
        BY <1>1, <1>6, <1>9
      <4>2. Itemized(SubSeq(s, 1, k + 1)) = P
        BY <2>1, <2>5, Zenon
      <4> HIDE DEF P
      <4> QED
        BY <1>7, <4>1, <4>2
    <3>2. Len(A) <= n
      BY <1>6 DEF A, a
    <3>3. Len(A) \in Nat /\ Len(P) \in Nat
      BY <2>3, <2>7
    <3> HIDE DEF P
    <3> QED
      BY <1>2, <3>1, <3>2, <3>3
  <2>9. m \in Nat /\ m < Len(x.data) + 2 /\ n = Len(A) + m /\ m <= Len(B)
    <3> DEFINE q == Len(x.data)
               e == Len(A)
    <3>1. q \in Nat /\ Len(B) = q + 2
      BY <2>4
    <3>2. e \in Nat /\ e <= n /\ n < e + Len(B)
      <4> HIDE DEF P
      <4> QED
        BY <2>7, <2>8
    <3> HIDE DEF q, e
    <3>3. n - e \in Nat /\ n - e < q + 2 /\ n = e + (n - e) /\ n - e <= Len(B)
      BY <1>2, <3>1, <3>2
    <3> QED
      BY <3>3 DEF q, e
  <2>10. SubSeq(I, 1, n) = A \o SubSeq(B, 1, m)
    <3>1. SubSeq(P \o R, 1, n) = SubSeq(P, 1, n)
      <4>1. n <= Len(P)
        <5> HIDE DEF P
        <5> QED
          BY <1>2, <2>7, <2>8
      <4> HIDE DEF P
      <4> QED
        BY <1>2, <2>3, <2>7, <4>1, FirstOfJoined, Zenon
    <3> HIDE DEF m
    <3>2. SubSeq(A \o B, 1, n) = A \o SubSeq(B, 1, m)
      <4>1. /\ A \in Seq(Nat) /\ B \in Seq(Nat) /\ n \in Nat
            /\ m \in Nat /\ n = Len(A) + m /\ m <= Len(B)
        BY <1>2, <2>3, <2>4, <2>9
      <4> QED
        BY <4>1, FirstOfBoth, SMTT(30)
    <3> QED
      BY <2>6, <3>1, <3>2
  <2> HIDE DEF m
  <2>11. EndsWithin(n, x, m)
    <3>1. x = items[Len(Whole(n)) + 1]
      BY <1>5, <2>1 DEF x
    <3> QED
      BY <1>5, <2>9, <2>10, <3>1, Zenon DEF EndsWithin, A, B, I
  <2> QED
    BY <1>5, <2>1, <2>9, <2>11
<1> QED
  BY <1>6, <1>8, <1>9

\* Two items that are read.
LEMMA ReadTwice ==
    ASSUME NEW f, NEW g
    PROVE  Followed(Read(f), Read(g)) = Read(Updated(f, g))
BY DEF Followed, Read

\* What raises.
LEMMA CutRaises ==
    ASSUME NEW f
    PROVE  Followed(Raised, Read(f)).raised
BY DEF Followed, Raised, Read

\* What raises after an item raises.
LEMMA RaisedStays ==
    ASSUME NEW f, NEW r \in JtFinds, r.raised
    PROVE  Followed(Read(f), r).raised
BY JtFindsForm DEF Followed, Read

\* What the bytes of an item that is cut say.
LEMMA CutIsRead ==
    ASSUME NEW x, IsRead(x), IsReadCut(x), NEW m \in Nat, m < Len(x.data) + 2
    PROVE  LET c == SubSeq(BuildItem(x.id, x.data), 1, m)
           IN  /\ c \in Seq(Nat)
               /\ LegacyExtras(c) = NoFields
               /\ m < 2 => JtExtras(c) = Read(NoFields)
               /\ m >= 2 => /\ m - 2 < x.needs => JtExtras(c).raised
                            /\ ~ (m - 2 < x.needs) => JtExtras(c) = Read(x.jt)
<1> DEFINE d == x.data
           id == x.id
           h == <<id, Len(d)>>
           B == BuildItem(id, d)
           c == SubSeq(B, 1, m)
<1>1. id \in Nat /\ d \in Seq(Nat) /\ x.jt \in Mappings
  BY DEF IsRead
<1> HIDE DEF d, id
<1>2. h \in Seq(Nat) /\ Len(h) = 2 /\ Len(d) \in Nat
  BY <1>1
<1>3. B = h \o d /\ m < Len(d) + 2
  BY DEF BuildItem, d
<1> HIDE DEF h, B
<1>4. B \in Seq(Nat) /\ Len(B) = Len(d) + 2
  <2> DEFINE u == h \o d
  <2>1. Joined(u, h, d, Nat)
    BY <1>1, <1>2, JoinedElements, Zenon
  <2> HIDE DEF u
  <2>2. u \in Seq(Nat) /\ Len(u) = 2 + Len(d)
    BY <1>2, <2>1 DEF Joined
  <2>3. B = u
    BY <1>3 DEF u
  <2> QED
    BY <1>2, <2>2, <2>3
<1>5. c \in Seq(Nat) /\ Len(c) = m
  <2> DEFINE q == Len(d)
  <2>1. q \in Nat /\ m < q + 2 /\ Len(B) = q + 2
    BY <1>2, <1>3, <1>4
  <2> HIDE DEF q
  <2> QED
    BY <1>4, <2>1
<1>6. CASE m < 2
  <2> HIDE DEF c
  <2>1. JtExtras(c) = Read(NoFields) /\ LegacyExtras(c) = NoFields
    BY <1>5, <1>6, JtReadsNothing, LegacyReadsNothing
  <2>2. ~ (m >= 2)
    BY <1>6
  <2> QED
    BY <1>5, <1>6, <2>1, <2>2, Zenon DEF c, B, d, id
<1>7. CASE ~ (m < 2)
  <2> DEFINE k == m - 2
             e == SubSeq(d, 1, k)
  <2>1. k \in Nat /\ k < Len(d) /\ m = Len(h) + k /\ k <= Len(d)
    <3> DEFINE q == Len(d)
    <3>1. q \in Nat /\ m < q + 2
      BY <1>2, <1>3
    <3> HIDE DEF q
    <3>2. k \in Nat /\ k < q /\ m = 2 + k /\ k <= q
      BY <1>7, <3>1
    <3> QED
      BY <1>2, <3>2 DEF q
  <2> HIDE DEF k
  <2>2. e \in Seq(Nat) /\ Len(e) = k
    BY <1>1, <2>1
  <2>3. c = h \o e
    <3>1. /\ h \in Seq(Nat) /\ d \in Seq(Nat)
          /\ k \in Nat /\ m = Len(h) + k /\ k <= Len(d)
      BY <1>1, <1>2, <2>1
    <3>2. SubSeq(h \o d, 1, m) = h \o SubSeq(d, 1, k)
      BY <3>1, FirstOfBoth, SMTT(30)
    <3> QED
      BY <1>3, <3>2
  <2> HIDE DEF e
  <2>4. JtExtras(c) = Followed(JtItem(id, Len(d), e), Read(NoFields))
    <3>1. JtExtras(<<id, Len(d)>> \o e) = Followed(JtItem(id, Len(d), e), Read(NoFields))
      BY <1>1, <1>2, <2>1, <2>2, JtReadsCut
    <3> QED
      BY <2>3, <3>1, Zenon DEF h
  <2>5. LegacyExtras(c) = NoFields
    <3>1. LegacyExtras(<<id, Len(d)>> \o e) = NoFields
      BY <1>1, <1>2, <2>1, <2>2, LegacyReadsCut
    <3> QED
      BY <2>3, <3>1, Zenon DEF h
  <2>6. JtItem(id, Len(d), e) = IF k < x.needs THEN Raised ELSE Read(x.jt)
    BY <2>1, Zenon DEF IsReadCut, d, e, id
  <2> HIDE DEF c
  <2>7. ASSUME k < x.needs
        PROVE  JtExtras(c).raised
    <3>1. JtExtras(c) = Followed(Raised, Read(NoFields))
      BY <2>4, <2>6, <2>7
    <3> QED
      BY <3>1, CutRaises
  <2>8. ASSUME ~ (k < x.needs)
        PROVE  JtExtras(c) = Read(x.jt)
    <3>1. JtExtras(c) = Followed(Read(x.jt), Read(NoFields))
      BY <2>4, <2>6, <2>8
    <3> QED
      BY <1>1, <3>1, FollowedByNothing
  <2> QED
    BY <1>5, <1>7, <2>5, <2>7, <2>8, Zenon DEF c, B, d, id, k
<1> QED
  BY <1>6, <1>7

\* What jt808 makes of a report whose position is in some quadrant.
LEMMA LocationIs ==
    ASSUME NEW lat \in Int, NEW lng \in Int, NEW extra \in Seq(Nat)
    PROVE  /\ JtLocation(BuildHead(lat, lng), extra)
                = IF JtExtras(extra).raised THEN Refused
                  ELSE Report(lat, lng, JtExtras(extra).fields)
           /\ LegacyLocation(BuildHead(lat, lng), extra).fields = LegacyExtras(extra)
<1> DEFINE H == BuildHead(lat, lng)
<1>1. /\ H.whole /\ H.dated
      /\ H.lat = Distance(lat) /\ H.lng = Distance(lng)
      /\ (4 \in H.status <=> lat < 0) /\ (5 \in H.status <=> lng < 0)
  BY DEF BuildHead
<1>2. /\ Signed(Distance(lat), lat < 0) = lat
      /\ Signed(Distance(lng), lng < 0) = lng
  BY DEF Signed, Distance
<1> HIDE DEF H
<1>3. Signed(H.lat, 4 \in H.status) = lat /\ Signed(H.lng, 5 \in H.status) = lng
  BY <1>1, <1>2 DEF Signed
<1>4. JtLocation(H, extra)
        = IF JtExtras(extra).raised THEN Refused
          ELSE Report(lat, lng, JtExtras(extra).fields)
  BY <1>1, <1>3 DEF JtLocation
<1>5. LegacyLocation(H, extra).fields = LegacyExtras(extra)
  BY <1>1 DEF LegacyLocation, Report
<1> QED
  BY <1>4, <1>5 DEF H

\* Items that both parsers read as told, whole and cut.
AreRead(X) == \A x \in X : IsRead(x) /\ IsReadCut(x)

\* Reports of such items are read.
LEMMA ReportIsReadIf ==
    ASSUME NEW X, AreRead(X), items \in Seq(X)
    PROVE  ReportIsRead
<1> DEFINE s == items
           I == Itemized(s)
           f == JtSaid(s)
<1>1. \A x \in X : IsRead(x)
  BY DEF AreRead
<1>2. I \in Seq(Nat)
  BY <1>1, ItemizedType, Zenon
<1>3. f \in Mappings /\ JtReads(s, <<>>)
  <2>1. <<>> \in Seq(Nat)
    OBVIOUS
  <2> QED
    BY <1>1, <2>1, ItemsAreRead
<1>4. JtExtras(I) = Read(f)
  <2>1. JtExtras(<<>>) = Read(NoFields)
    <3>1. <<>> \in Seq(Nat) /\ Len(<<>>) < 2
      OBVIOUS
    <3> QED
      BY <3>1, JtReadsNothing
  <2>2. JtExtras(I \o <<>>) = Followed(Read(f), JtExtras(<<>>))
    BY <1>3, Zenon DEF JtReads
  <2> HIDE DEF I, f
  <2>3. I \o <<>> = I
    BY <1>2
  <2>4. Followed(Read(f), Read(NoFields)) = Read(f)
    BY <1>3, FollowedByNothing
  <2> QED
    BY <2>1, <2>2, <2>3, <2>4
<1> HIDE DEF I, f
<1>5. ASSUME NEW lat \in -1..1, NEW lng \in -1..1
      PROVE  JtLocation(BuildHead(lat, lng), I) = Report(lat, lng, f)
  <2>1. lat \in Int /\ lng \in Int
    OBVIOUS
  <2>2. ~ JtExtras(I).raised /\ JtExtras(I).fields = f
    BY <1>4 DEF Read
  <2> QED
    BY <1>2, <2>1, <2>2, LocationIs
<1> QED
  BY <1>5, Zenon DEF ReportIsRead, I, f

\* So are their cuts, wherever the report ends.
LEMMA CutIsHarmlessIf ==
    ASSUME NEW X, AreRead(X), items \in Seq(X)
    PROVE  CutIsRefusedOrHarmless /\ LegacyReadsWholeItems
<1>1. \A x \in X : IsRead(x)
  BY DEF AreRead
<1> DEFINE I == Itemized(items)
           P(n) ==
              LET whole == Whole(n)
                  tail == n - Len(Itemized(whole)) - 2
                  cut == items[Len(whole) + 1]
                  report == JtLocation(BuildHead(1, 0), SubSeq(I, 1, n))
              IN  IF tail < 0 THEN report = Report(1, 0, JtSaid(whole))
                  ELSE IF tail < cut.needs THEN report = Refused
                  ELSE report = Report(1, 0, JtSaid(Append(whole, cut)))
           Q(n) ==
              LegacyLocation(BuildHead(1, 0), SubSeq(I, 1, n)).fields
                = LegacySaid(Whole(n))
<1>2. ASSUME NEW n \in 0..Len(I)
      PROVE  P(n) /\ Q(n)
  <2> DEFINE w == Whole(n)
             A == Itemized(w)
             tail == n - Len(A) - 2
             u == SubSeq(I, 1, n)
             report == JtLocation(BuildHead(1, 0), u)
             legacy == LegacyLocation(BuildHead(1, 0), u)
  <2>1. /\ w \in Seq(X)
        /\ AllWhole(n) \/ \E x \in X, m \in Nat : EndsWithin(n, x, m)
    BY <1>1, WholeOnes, Zenon
  <2>2. A \in Seq(Nat) /\ Len(A) \in Nat
    <3>1. A \in Seq(Nat)
      BY <1>1, <2>1, ItemizedType, Zenon
    <3> HIDE DEF A
    <3> QED
      BY <3>1
  <2>3. /\ JtSaid(w) \in Mappings /\ LegacySaid(w) \in Mappings
        /\ \A t \in Seq(Nat) : JtReads(w, t) /\ LegacyReads(w, t)
    BY <1>1, <2>1, ItemsAreRead, Zenon
  <2>4. 1 \in Int /\ 0 \in Int
    OBVIOUS
  \* What follows the whole items decides.
  <2>5. ASSUME NEW c \in Seq(Nat), u = A \o c
        PROVE  /\ u \in Seq(Nat)
               /\ JtExtras(u) = Followed(Read(JtSaid(w)), JtExtras(c))
               /\ LegacyExtras(u) = Updated(LegacySaid(w), LegacyExtras(c))
               /\ report = IF JtExtras(u).raised THEN Refused
                           ELSE Report(1, 0, JtExtras(u).fields)
               /\ legacy.fields = LegacyExtras(u)
    <3>1. u \in Seq(Nat)
      <4> HIDE DEF u, A
      <4> QED
        BY <2>2, <2>5
    <3>2. JtReads(w, c) /\ LegacyReads(w, c)
      BY <2>3
    <3>3. /\ JtExtras(u) = Followed(Read(JtSaid(w)), JtExtras(c))
          /\ LegacyExtras(u) = Updated(LegacySaid(w), LegacyExtras(c))
      <4> HIDE DEF u, w
      <4> QED
        BY <2>5, <3>2, Zenon DEF JtReads, LegacyReads
    <3> HIDE DEF u
    <3>4. /\ report = IF JtExtras(u).raised THEN Refused
                      ELSE Report(1, 0, JtExtras(u).fields)
          /\ legacy.fields = LegacyExtras(u)
      BY <2>4, <3>1, LocationIs
    <3> QED
      BY <3>1, <3>3, <3>4
  <2> HIDE DEF report, legacy, u
  \* The bytes after the whole items say nothing.
  <2>6. ASSUME NEW c \in Seq(Nat), u = A \o c,
               JtExtras(c) = Read(NoFields), LegacyExtras(c) = NoFields
        PROVE  report = Report(1, 0, JtSaid(w)) /\ legacy.fields = LegacySaid(w)
    <3>1. JtExtras(u) = Read(JtSaid(w))
      BY <2>3, <2>5, <2>6, FollowedByNothing
    <3>2. LegacyExtras(u) = LegacySaid(w)
      BY <2>3, <2>5, <2>6, MappingWithNothing
    <3>3. ~ JtExtras(u).raised /\ JtExtras(u).fields = JtSaid(w)
      BY <3>1 DEF Read
    <3> HIDE DEF w, A
    <3> QED
      BY <2>5, <2>6, <3>2, <3>3
  <2>7. CASE AllWhole(n)
    <3>1. w = items /\ n = Len(A) /\ u = A
      BY <2>7, Zenon DEF AllWhole, u
    <3>2. u = A \o <<>> /\ <<>> \in Seq(Nat) /\ Len(<<>>) < 2
      <4> HIDE DEF A
      <4> QED
        BY <2>2, <3>1
    <3>3. JtExtras(<<>>) = Read(NoFields) /\ LegacyExtras(<<>>) = NoFields
      BY <3>2, JtReadsNothing, LegacyReadsNothing
    <3>4. report = Report(1, 0, JtSaid(w)) /\ legacy.fields = LegacySaid(w)
      BY <2>6, <3>2, <3>3
    <3>5. tail < 0
      <4> HIDE DEF A
      <4> QED
        BY <2>2, <3>1
    <3> QED
      BY <3>4, <3>5, Zenon DEF report, legacy, u
  <2>8. ASSUME NEW x \in X, NEW m \in Nat, EndsWithin(n, x, m)
        PROVE  P(n) /\ Q(n)
    <3> DEFINE B == BuildItem(x.id, x.data)
               c == SubSeq(B, 1, m)
    <3>1. /\ x = items[Len(w) + 1] /\ m < Len(x.data) + 2 /\ n = Len(A) + m
          /\ u = A \o c
      BY <2>8, Zenon DEF EndsWithin, u
    <3>2. IsRead(x) /\ IsReadCut(x)
      BY DEF AreRead
    <3>3. /\ c \in Seq(Nat)
          /\ LegacyExtras(c) = NoFields
          /\ m < 2 => JtExtras(c) = Read(NoFields)
          /\ m >= 2 => /\ m - 2 < x.needs => JtExtras(c).raised
                       /\ ~ (m - 2 < x.needs) => JtExtras(c) = Read(x.jt)
      BY <3>1, <3>2, CutIsRead, Zenon
    <3> HIDE DEF c, B
    <3>4. tail = m - 2
      <4> HIDE DEF A
      <4> QED
        BY <2>2, <3>1
    <3>5. legacy.fields = LegacySaid(w)
      <4>1. LegacyExtras(u) = LegacySaid(w)
        BY <2>3, <2>5, <3>1, <3>3, MappingWithNothing
      <4> HIDE DEF w, A
      <4> QED
        BY <2>5, <3>1, <3>3, <4>1
    <3>6. Q(n)
      BY <3>5, Zenon DEF legacy, u
    <3>7. CASE m < 2
      <4>1. report = Report(1, 0, JtSaid(w))
        BY <2>6, <3>1, <3>3, <3>7
      <4>2. tail < 0
        <5> HIDE DEF tail
        <5> QED
          BY <3>4, <3>7
      <4> QED
        BY <3>6, <4>1, <4>2, Zenon DEF report, u
    <3>8. CASE ~ (m < 2) /\ m - 2 < x.needs
      <4>1. JtExtras(c).raised
        BY <3>3, <3>8
      <4>2. JtExtras(u).raised
        <5>1. JtExtras(u) = Followed(Read(JtSaid(w)), JtExtras(c))
          BY <2>5, <3>1, <3>3, Zenon
        <5>2. JtExtras(c) \in JtFinds
          BY <3>3, JtExtrasType
        <5> QED
          BY <4>1, <5>1, <5>2, RaisedStays
      <4>3. report = Refused
        <5>1. report = IF JtExtras(u).raised THEN Refused
                       ELSE Report(1, 0, JtExtras(u).fields)
          BY <2>5, <3>1, <3>3, Zenon
        <5> QED
          BY <4>2, <5>1
      <4>4. ~ (tail < 0) /\ tail < x.needs
        <5> HIDE DEF tail
        <5> QED
          BY <3>4, <3>8
      <4> QED
        BY <3>1, <3>6, <4>3, <4>4, Zenon DEF report, u
    <3>9. CASE ~ (m < 2) /\ ~ (m - 2 < x.needs)
      <4>1. JtExtras(c) = Read(x.jt) /\ x.jt \in Mappings
        BY <3>2, <3>3, <3>9 DEF IsRead
      <4>2. JtExtras(u) = Read(Updated(JtSaid(w), x.jt))
        <5>1. JtExtras(u) = Followed(Read(JtSaid(w)), JtExtras(c))
          BY <2>5, <3>1, <3>3, Zenon
        <5> QED
          BY <4>1, <5>1, ReadTwice
      <4>3. JtSaid(Append(w, x)) = Updated(JtSaid(w), x.jt)
        BY <1>1, <2>1, JtSaidAppend, Zenon
      <4>4. report = Report(1, 0, JtSaid(Append(w, x)))
        <5>1. report = IF JtExtras(u).raised THEN Refused
                       ELSE Report(1, 0, JtExtras(u).fields)
          BY <2>5, <3>1, <3>3, Zenon
        <5>2. ~ JtExtras(u).raised /\ JtExtras(u).fields = Updated(JtSaid(w), x.jt)
          BY <4>2 DEF Read
        <5> QED
          BY <4>3, <5>1, <5>2
      <4>5. ~ (tail < 0) /\ ~ (tail < x.needs)
        <5> HIDE DEF tail
        <5> QED
          BY <3>4, <3>9
      <4> QED
        BY <3>1, <3>6, <4>4, <4>5, Zenon DEF report, u
    <3> QED
      BY <3>7, <3>8, <3>9
  <2> QED
    BY <2>1, <2>7, <2>8
<1> QED
  BY <1>2, Zenon DEF CutIsRefusedOrHarmless, LegacyReadsWholeItems

-----------------------------------------------------------------------------
(* Single items *)

\* One known item fills one field.
LEMMA OneField ==
    ASSUME NEW id, NEW name, NEW size, NEW n
    PROVE  FieldsOf({Fixed(id, name, size)}, n) = Field(name, n)
<1> DEFINE D == {row.field : row \in {Fixed(id, name, size)}}
<1>1. D = {name}
  BY DEF Fixed
<1> QED
  BY <1>1, Zenon DEF FieldsOf, Field

\* An unknown item fills none.
LEMMA NoField ==
    ASSUME NEW n
    PROVE  FieldsOf({}, n) = NoFields
<1>1. {row.field : row \in {}} = {}
  OBVIOUS
<1>2. [f \in {} |-> n] = [f \in {} |-> 0]
  OBVIOUS
<1> QED
  BY <1>1, <1>2, Zenon DEF FieldsOf, NoFields

\* What jt808 and the legacy parser make of an item that is no custom one.
JtCase(id, data, says, needs) ==
    \/ /\ JtKnown(id, Len(data)) = {}
       /\ says = NoFields /\ needs = 0
    \/ \E name \in Names :
         /\ JtKnown(id, Len(data)) = {Fixed(id, name, Len(data))}
         /\ says = Field(name, Value(data)) /\ needs = Len(data)

\* Its cases for the legacy parser.
LegacyCase(id, data, says) ==
    \/ LegacyKnown(id, Len(data)) = {} /\ says = NoFields
    \/ \E name \in Names, size \in 0..Len(data) :
         /\ LegacyKnown(id, Len(data)) = {Fixed(id, name, size)}
         /\ says = Field(name, Value(SubSeq(data, 1, size)))

\* An item is read as told in these cases.
LEMMA ItemIsRead ==
    ASSUME NEW id \in Nat, id # CUSTOM, NEW data \in Seq(Nat),
           NEW jt, NEW legacy, NEW needs,
           JtCase(id, data, jt, needs), LegacyCase(id, data, legacy)
    PROVE  LET x == An(id, data, jt, legacy, needs) IN IsRead(x) /\ IsReadCut(x)
<1> DEFINE x == An(id, data, jt, legacy, needs)
           n == Len(data)
<1>1. /\ x.id = id /\ x.data = data /\ x.jt = jt /\ x.legacy = legacy
      /\ x.needs = needs
  BY DEF An
<1> HIDE DEF x
<1>2. n \in Nat /\ ~ IsCustom(id, n) /\ ~ (n < n)
  BY DEF IsCustom
<1>3. Value(data) \in Nat
  BY ValueIsNumber
<1>4. /\ jt \in Mappings
      /\ needs \in Nat
      /\ JtItem(id, n, data) = Read(jt)
      /\ \A k \in Nat : k < n =>
           JtItem(id, n, SubSeq(data, 1, k)) = IF k < needs THEN Raised ELSE Read(jt)
  <2>1. CASE JtKnown(id, n) = {} /\ jt = NoFields /\ needs = 0
    <3>1. \A d : JtItem(id, n, d) = Read(NoFields)
      BY <1>2, <2>1, NoField, Zenon DEF JtItem
    <3>2. \A k \in Nat : ~ (k < needs)
      BY <2>1
    <3>3. jt \in Mappings /\ needs \in Nat
      BY <2>1, NoFieldsIsMapping
    <3> QED
      BY <2>1, <3>1, <3>2, <3>3, Zenon
  <2>2. ASSUME NEW name \in Names, JtKnown(id, n) = {Fixed(id, name, n)},
               jt = Field(name, Value(data)), needs = n
        PROVE  <1>4!:
    <3>1. JtKnown(id, n) # {}
      BY <2>2
    <3>2. jt \in Mappings /\ needs \in Nat
      BY <1>2, <1>3, <2>2, FieldIsMapping
    <3>3. JtItem(id, n, data) = Read(jt)
      <4>1. FieldsOf(JtKnown(id, n), Value(data)) = jt
        <5>1. FieldsOf({Fixed(id, name, n)}, Value(data)) = Field(name, Value(data))
          BY OneField
        <5> QED
          BY <2>2, <5>1
      <4> QED
        BY <1>2, <4>1, Zenon DEF JtItem
    <3>4. ASSUME NEW k \in Nat, k < n
          PROVE  JtItem(id, n, SubSeq(data, 1, k)) = Raised /\ k < needs
      <4> DEFINE c == SubSeq(data, 1, k)
      <4>1. Len(c) = k
        BY <3>4
      <4>2. Len(c) < n
        <5> HIDE DEF c
        <5> QED
          BY <3>4, <4>1
      <4> HIDE DEF c
      <4>3. JtItem(id, n, c) = Raised
        BY <1>2, <3>1, <4>2, Zenon DEF JtItem
      <4> QED
        BY <2>2, <3>4, <4>3 DEF c
    <3> QED
      BY <3>2, <3>3, <3>4, Zenon
  <2> QED
    BY <2>1, <2>2, Zenon DEF JtCase
<1>5. legacy \in Mappings /\ LegacyItem(id, data) = legacy
  <2>1. CASE LegacyKnown(id, n) = {} /\ legacy = NoFields
    <3>1. LegacyItem(id, data) = NoFields
      BY <1>2, <2>1, NoField, Zenon DEF LegacyItem
    <3> QED
      BY <2>1, <3>1, NoFieldsIsMapping
  <2>2. ASSUME NEW name \in Names, NEW size \in 0..n,
               LegacyKnown(id, n) = {Fixed(id, name, size)},
               legacy = Field(name, Value(SubSeq(data, 1, size)))
        PROVE  <1>5!:
    <3> DEFINE row == Fixed(id, name, size)
               v == Value(SubSeq(data, 1, size))
    <3>1. row.size = size
      BY DEF Fixed
    <3>2. (CHOOSE r \in {row} : TRUE) = row
      OBVIOUS
    <3>3. (CHOOSE r \in LegacyKnown(id, n) : TRUE).size = size
      <4> HIDE DEF row
      <4> QED
        BY <2>2, <3>1, <3>2, Zenon DEF row
    <3>4. FieldsOf(LegacyKnown(id, n), v) = legacy
      <4> HIDE DEF v
      <4>1. FieldsOf({row}, v) = Field(name, v)
        BY OneField
      <4>2. LegacyKnown(id, n) = {row} /\ legacy = Field(name, v)
        BY <2>2, Zenon DEF v
      <4> HIDE DEF row
      <4> QED
        BY <4>1, <4>2, Zenon
    <3>5. LegacyItem(id, data) = legacy
      BY <1>2, <3>3, <3>4, Zenon DEF LegacyItem
    <3>6. v \in Nat
      <4>1. SubSeq(data, 1, size) \in Seq(Nat)
        BY <1>2
      <4> QED
        BY <4>1, ValueIsNumber
    <3> QED
      BY <2>2, <3>5, <3>6, FieldIsMapping
  <2> QED
    BY <2>1, <2>2, Zenon DEF LegacyCase
<1>6. IsRead(x)
  BY <1>1, <1>4, <1>5, Zenon DEF IsRead
<1>7. IsReadCut(x)
  BY <1>1, <1>4, Zenon DEF IsReadCut
<1> QED
  BY <1>6, <1>7 DEF x

\* A custom item.
LEMMA AlarmIsCustom ==
    ASSUME NEW a, NEW b
    PROVE  Updated(Field("alarm_status", a), Field("ecu_ignition", b)) = Alarm(a, b)
BY DEF Updated, Field, Alarm

\* It is read as told, whole and cut.
LEMMA CustomIsRead ==
    ASSUME NEW a \in Nat, NEW b \in Nat, NEW data \in Seq(Nat),
           Len(data) >= 2, data[1] = a, data[2] = b
    PROVE  LET x == An(CUSTOM, data, Alarm(a, b), Alarm(a, b), 2)
           IN  IsRead(x) /\ IsReadCut(x)
<1> DEFINE x == An(CUSTOM, data, Alarm(a, b), Alarm(a, b), 2)
           n == Len(data)
<1>1. /\ x.id = CUSTOM /\ x.data = data /\ x.jt = Alarm(a, b)
      /\ x.legacy = Alarm(a, b) /\ x.needs = 2
  BY DEF An
<1> HIDE DEF x
<1>2. n \in Nat /\ CUSTOM \in Nat /\ ~ (n < 2)
  BY DEF CUSTOM
<1>3. IsCustom(CUSTOM, n)
  BY DEF IsCustom
<1>4. Alarm(a, b) \in Mappings
  BY CustomIsMapping, AlarmIsCustom
<1>5. Custom(data) = Alarm(a, b)
  BY AlarmIsCustom, Zenon DEF Custom
<1>6. JtItem(CUSTOM, n, data) = Read(Alarm(a, b)) /\ LegacyItem(CUSTOM, data) = Alarm(a, b)
  BY <1>2, <1>3, <1>5, Zenon DEF JtItem, LegacyItem
<1>7. ASSUME NEW k \in Nat, k < n
      PROVE  JtItem(CUSTOM, n, SubSeq(data, 1, k))
               = IF k < 2 THEN Raised ELSE Read(Alarm(a, b))
  <2> DEFINE c == SubSeq(data, 1, k)
  <2>1. c \in Seq(Nat) /\ Len(c) = k /\ \A i \in 1..k : c[i] = data[i]
    BY <1>2, <1>7
  <2> HIDE DEF c
  <2>2. CASE k < 2
    <3>1. Len(c) < 2
      BY <2>1, <2>2
    <3> QED
      BY <1>3, <2>2, <3>1, Zenon DEF JtItem, c
  <2>3. CASE ~ (k < 2)
    <3>1. ~ (Len(c) < 2) /\ c[1] = a /\ c[2] = b
      BY <2>1, <2>3
    <3>2. Custom(c) = Alarm(a, b)
      BY <3>1, AlarmIsCustom, Zenon DEF Custom
    <3>3. JtItem(CUSTOM, n, c) = Read(Alarm(a, b))
      BY <1>3, <3>1, <3>2, Zenon DEF JtItem
    <3> QED
      BY <2>3, <3>3, Zenon DEF c
  <2> QED
    BY <2>2, <2>3
<1>8. IsRead(x)
  BY <1>1, <1>2, <1>4, <1>6, Zenon DEF IsRead
<1>9. IsReadCut(x)
  <2>1. 2 \in Nat
    OBVIOUS
  <2> QED
    BY <1>1, <1>7, <2>1, Zenon DEF IsReadCut
<1> QED
  BY <1>8, <1>9 DEF x

-----------------------------------------------------------------------------
(* Reports of any items *)

\* An item of any id and any bytes, what each parser makes of it alone, and how
\* many of its bytes jt808 looks at.
Needed(id, data) ==
    IF IsCustom(id, Len(data)) THEN 2
    ELSE IF JtKnown(id, Len(data)) # {} THEN Len(data) ELSE 0
Alone(id, data) ==
    An(id, data, JtItem(id, Len(data), data).fields, LegacyItem(id, data),
       Needed(id, data))
AnyItems == {Alone(id, data) : id \in Nat, data \in Seq(Nat)}

\* jt808 reads an item that is whole, and one that is cut if nothing is missing.
LEMMA WholeOrCut ==
    ASSUME NEW id \in Nat, NEW data \in Seq(Nat)
    PROVE  LET n == Len(data)
               item == JtItem(id, n, data)
               needs == Needed(id, data)
           IN  /\ item = Read(item.fields) /\ item.fields \in Mappings
               /\ needs \in Nat
               /\ \A k \in Nat : k < n =>
                    JtItem(id, n, SubSeq(data, 1, k))
                      = IF k < needs THEN Raised ELSE Read(item.fields)
<1> DEFINE n == Len(data)
           item == JtItem(id, n, data)
           needs == Needed(id, data)
           Says(fields) == item = Read(fields) /\ item.fields = fields
<1>1. n \in Nat /\ ~ (n < n)
  OBVIOUS
<1>2. \A fields : Read(fields).fields = fields
  BY DEF Read
<1>3. item \in JtFinds
  BY <1>1, JtItemType
<1>4. item.fields \in Mappings
  BY <1>3 DEF JtFinds
<1>5. CASE IsCustom(id, n)
  <2>1. needs = 2 /\ ~ (n < 2)
    BY <1>5 DEF Needed, IsCustom
  <2>2. item = Read(Custom(data))
    BY <1>5, <2>1, Zenon DEF JtItem
  <2>3. item.fields = Custom(data)
    BY <1>2, <2>2, Zenon
  <2>4. ASSUME NEW k \in Nat, k < n
        PROVE  JtItem(id, n, SubSeq(data, 1, k))
                 = IF k < 2 THEN Raised ELSE Read(item.fields)
    <3> DEFINE c == SubSeq(data, 1, k)
    <3>1. Len(c) = k /\ \A i \in 1..k : c[i] = data[i]
      BY <2>4
    <3> HIDE DEF c, item
    <3>2. CASE k < 2
      BY <1>5, <3>1, <3>2, Zenon DEF JtItem, c
    <3>3. CASE ~ (k < 2)
      <4>1. c[1] = data[1] /\ c[2] = data[2]
        BY <3>1, <3>3
      <4>2. Custom(c) = Custom(data)
        BY <4>1, Zenon DEF Custom
      <4>3. JtItem(id, n, c) = Read(Custom(data))
        BY <1>5, <3>1, <3>3, <4>2, Zenon DEF JtItem
      <4> QED
        BY <2>3, <3>3, <4>3, Zenon DEF c
    <3> QED
      BY <3>2, <3>3
  <2>5. 2 \in Nat
    OBVIOUS
  <2> HIDE DEF item, needs
  <2> QED
    BY <1>4, <2>1, <2>2, <2>3, <2>4, <2>5, Zenon DEF item, needs
<1>6. CASE ~ IsCustom(id, n) /\ JtKnown(id, n) # {}
  <2>1. needs = n
    BY <1>6, Zenon DEF Needed
  <2>2. item = Read(FieldsOf(JtKnown(id, n), Value(data)))
    BY <1>1, <1>6, Zenon DEF JtItem
  <2>3. item = Read(item.fields)
    BY <1>2, <2>2, Zenon
  <2>4. ASSUME NEW k \in Nat, k < n
        PROVE  JtItem(id, n, SubSeq(data, 1, k)) = Raised
    <3> DEFINE c == SubSeq(data, 1, k)
    <3>1. Len(c) = k
      BY <2>4
    <3>2. Len(c) < n
      <4> HIDE DEF c
      <4> QED
        BY <2>4, <3>1
    <3> HIDE DEF c
    <3> QED
      BY <1>6, <3>2, Zenon DEF JtItem, c
  <2> HIDE DEF item, needs
  <2> QED
    BY <1>1, <1>4, <2>1, <2>3, <2>4, Zenon DEF item, needs
<1>7. CASE ~ IsCustom(id, n) /\ JtKnown(id, n) = {}
  <2>1. needs = 0
    BY <1>7, Zenon DEF Needed
  <2>2. \A d : JtItem(id, n, d) = Read(NoFields)
    BY <1>7, NoField, Zenon DEF JtItem
  <2>3. item.fields = NoFields
    BY <1>2, <2>2, Zenon
  <2>4. \A k \in Nat : ~ (k < 0)
    OBVIOUS
  <2>5. 0 \in Nat
    OBVIOUS
  <2> HIDE DEF item, needs
  <2>6. item = Read(item.fields)
    BY <2>2, <2>3, Zenon DEF item
  <2> QED
    BY <1>4, <2>1, <2>2, <2>3, <2>4, <2>5, <2>6, Zenon DEF item, needs
<1> QED
  BY <1>5, <1>6, <1>7, Zenon

\* So every item is read as it is alone, whole and cut.
LEMMA AnyItemsAreRead == AreRead(AnyItems)
<1>1. ASSUME NEW id \in Nat, NEW data \in Seq(Nat)
      PROVE  IsRead(Alone(id, data)) /\ IsReadCut(Alone(id, data))
  <2> DEFINE x == Alone(id, data)
             n == Len(data)
             fields == JtItem(id, n, data).fields
  <2>1. /\ x.id = id /\ x.data = data /\ x.jt = fields
        /\ x.legacy = LegacyItem(id, data) /\ x.needs = Needed(id, data)
    BY DEF Alone, An
  <2>2. LegacyItem(id, data) \in Mappings
    BY LegacyItemType
  <2> HIDE DEF x
  <2>3. IsRead(x)
    BY <2>1, <2>2, WholeOrCut, Zenon DEF IsRead
  <2>4. IsReadCut(x)
    <3>1. Needed(id, data) \in Nat
      BY WholeOrCut, Zenon
    <3>2. ASSUME NEW k \in Nat, k < n
          PROVE  JtItem(id, n, SubSeq(data, 1, k))
                   = IF k < Needed(id, data) THEN Raised ELSE Read(fields)
      BY <3>2, WholeOrCut, Zenon
    <3> HIDE DEF n, fields
    <3>3. \A k \in Nat : k < Len(x.data) =>
            JtItem(x.id, Len(x.data), SubSeq(x.data, 1, k))
              = IF k < x.needs THEN Raised ELSE Read(x.jt)
      BY <2>1, <3>2, Zenon DEF n
    <3> QED
      BY <2>1, <3>1, <3>3, Zenon DEF IsReadCut
  <2> QED
    BY <2>3, <2>4 DEF x
<1>2. ASSUME NEW x \in AnyItems
      PROVE  IsRead(x) /\ IsReadCut(x)
  <2>1. PICK id \in Nat, data \in Seq(Nat) : x = Alone(id, data)
    BY DEF AnyItems
  <2> QED
    BY <1>1, <2>1
<1> QED
  BY <1>2, Zenon DEF AreRead

\* A report of any items, known or not, well-formed or not, is read as these
\* items are read one by one, the later ones overriding the earlier; a cut loses
\* the item that it cuts and nothing before it, or makes jt808 refuse it all.
THEOREM AnyReportIsRead ==
    items \in Seq(AnyItems) =>
        ReportIsRead /\ CutIsRefusedOrHarmless /\ LegacyReadsWholeItems
BY AnyItemsAreRead, ReportIsReadIf, CutIsHarmlessIf

-----------------------------------------------------------------------------
(* The items of the run *)

\* Which rows of the tables an item is looked up in.
LEMMA TableRows ==
    /\ JtKnown(1, 4) = {Fixed(1, "mileage", 4)}
    /\ JtKnown(2, 2) = {Fixed(2, "fuel", 2)}
    /\ JtKnown(2, 1) = {}
    /\ JtKnown(48, 1) = {Fixed(48, "signal_strength", 1)}
    /\ JtKnown(48, 3) = {}
    /\ JtKnown(42, 2) = {Fixed(42, "io_status", 2)}
    /\ JtKnown(99, 3) = {} /\ JtKnown(99, 0) = {}
    /\ LegacyKnown(1, 4) = {Fixed(1, "mileage", 4)}
    /\ LegacyKnown(2, 2) = {Fixed(2, "fuel", 2)}
    /\ LegacyKnown(2, 1) = {}
    /\ LegacyKnown(48, 1) = {Fixed(48, "signal_strength", 1)}
    /\ LegacyKnown(48, 3) = {Fixed(48, "signal_strength", 1)}
    /\ LegacyKnown(42, 2) = {}
    /\ LegacyKnown(99, 3) = {} /\ LegacyKnown(99, 0) = {}
<1>1. JtKnown(1, 4) = {Fixed(1, "mileage", 4)}
  BY DEF JtKnown, JtItems, CommonItems, Fixed
<1>2. JtKnown(2, 2) = {Fixed(2, "fuel", 2)}
  BY DEF JtKnown, JtItems, CommonItems, Fixed
<1>3. JtKnown(2, 1) = {}
  BY DEF JtKnown, JtItems, CommonItems, Fixed
<1>4. JtKnown(48, 1) = {Fixed(48, "signal_strength", 1)}
  BY DEF JtKnown, JtItems, CommonItems, Fixed
<1>5. JtKnown(48, 3) = {}
  BY DEF JtKnown, JtItems, CommonItems, Fixed
<1>6. JtKnown(42, 2) = {Fixed(42, "io_status", 2)}
  BY DEF JtKnown, JtItems, CommonItems, Fixed
<1>7. JtKnown(99, 3) = {} /\ JtKnown(99, 0) = {}
  BY DEF JtKnown, JtItems, CommonItems, Fixed
<1>8. LegacyKnown(1, 4) = {Fixed(1, "mileage", 4)}
  BY DEF LegacyKnown, CommonItems, Fixed
<1>9. LegacyKnown(2, 2) = {Fixed(2, "fuel", 2)}
  BY DEF LegacyKnown, CommonItems, Fixed
<1>10. LegacyKnown(2, 1) = {}
  BY DEF LegacyKnown, CommonItems, Fixed
<1>11. LegacyKnown(48, 1) = {Fixed(48, "signal_strength", 1)}
  BY DEF LegacyKnown, CommonItems, Fixed
<1>12. LegacyKnown(48, 3) = {Fixed(48, "signal_strength", 1)}
  BY DEF LegacyKnown, CommonItems, Fixed
<1>13. LegacyKnown(42, 2) = {}
  BY DEF LegacyKnown, CommonItems, Fixed
<1>14. LegacyKnown(99, 3) = {} /\ LegacyKnown(99, 0) = {}
  BY DEF LegacyKnown, CommonItems, Fixed
<1> QED
  BY <1>1, <1>2, <1>3, <1>4, <1>5, <1>6, <1>7, <1>8, <1>9, <1>10, <1>11, <1>12,
     <1>13, <1>14

\* The names of fields that the items of the run fill.
LEMMA SomeNames ==
    {"mileage", "fuel", "signal_strength", "io_status"} \subseteq Names
<1>1. /\ Fixed(1, "mileage", 4) \in JtItems /\ Fixed(2, "fuel", 2) \in JtItems
      /\ Fixed(48, "signal_strength", 1) \in JtItems
      /\ Fixed(42, "io_status", 2) \in JtItems
  BY DEF JtItems, CommonItems
<1>2. /\ Fixed(1, "mileage", 4).field = "mileage" /\ Fixed(2, "fuel", 2).field = "fuel"
      /\ Fixed(48, "signal_strength", 1).field = "signal_strength"
      /\ Fixed(42, "io_status", 2).field = "io_status"
  BY DEF Fixed
<1> QED
  BY <1>1, <1>2 DEF Names

\* An item that both parsers know by its size.
LEMMA SameNumberIsRead ==
    ASSUME NEW id \in Nat, id # CUSTOM, NEW data \in Seq(Nat),
           NEW name \in Names, NEW v, v = Value(data),
           JtKnown(id, Len(data)) = {Fixed(id, name, Len(data))},
           LegacyKnown(id, Len(data)) = {Fixed(id, name, Len(data))}
    PROVE  LET x == Same(id, data, Field(name, v)) IN IsRead(x) /\ IsReadCut(x)
<1> DEFINE n == Len(data)
           f == Field(name, v)
<1>1. n \in 0..n /\ SubSeq(data, 1, n) = data
  OBVIOUS
<1>2. JtCase(id, data, f, n)
  BY Zenon DEF JtCase
<1>3. LegacyCase(id, data, f)
  BY <1>1, Zenon DEF LegacyCase
<1> HIDE DEF n, f
<1>4. IsRead(An(id, data, f, f, n)) /\ IsReadCut(An(id, data, f, f, n))
  BY <1>2, <1>3, ItemIsRead, Zenon
<1> QED
  BY <1>4, Zenon DEF Same, n, f

\* The items of the run are read as told.
LEMMA SomeItemsAreRead == AreRead(SomeItems)
<1> DEFINE Fine(x) == IsRead(x) /\ IsReadCut(x)
<1>1. CUSTOM = 238
  BY DEF CUSTOM
<1>2. Fine(Same(1, <<0, 0, 1, 2>>, Field("mileage", 258)))
  <2> DEFINE d == <<0, 0, 1, 2>>
             v == 258
  <2>1. d \in Seq(Nat) /\ Len(d) = 4 /\ 1 \in Nat /\ 1 # CUSTOM
    BY <1>1
  <2>2. v = Value(d)
    BY ValueOfFour
  <2>3. "mileage" \in Names
    BY SomeNames
  <2> HIDE DEF d
  <2>4. /\ JtKnown(1, Len(d)) = {Fixed(1, "mileage", Len(d))}
        /\ LegacyKnown(1, Len(d)) = {Fixed(1, "mileage", Len(d))}
    BY <2>1, TableRows
  <2> HIDE DEF v
  <2>5. Fine(Same(1, d, Field("mileage", v)))
    BY <2>1, <2>2, <2>3, <2>4, SameNumberIsRead
  <2> QED
    BY <2>5 DEF d, v
<1>3. Fine(Same(2, <<1, 4>>, Field("fuel", 260)))
  <2> DEFINE d == <<1, 4>>
             v == 260
  <2>1. d \in Seq(Nat) /\ Len(d) = 2 /\ 2 \in Nat /\ 2 # CUSTOM
    BY <1>1
  <2>2. v = Value(d)
    BY ValueOfTwo
  <2>3. "fuel" \in Names
    BY SomeNames
  <2> HIDE DEF d
  <2>4. /\ JtKnown(2, Len(d)) = {Fixed(2, "fuel", Len(d))}
        /\ LegacyKnown(2, Len(d)) = {Fixed(2, "fuel", Len(d))}
    BY <2>1, TableRows
  <2> HIDE DEF v
  <2>5. Fine(Same(2, d, Field("fuel", v)))
    BY <2>1, <2>2, <2>3, <2>4, SameNumberIsRead
  <2> QED
    BY <2>5 DEF d, v
<1>4. Fine(Same(2, <<48, 1>>, Field("fuel", 12289)))
  <2> DEFINE d == <<48, 1>>
             v == 12289
  <2>1. d \in Seq(Nat) /\ Len(d) = 2 /\ 2 \in Nat /\ 2 # CUSTOM
    BY <1>1
  <2>2. v = Value(d)
    BY ValueOfTwo
  <2>3. "fuel" \in Names
    BY SomeNames
  <2> HIDE DEF d
  <2>4. /\ JtKnown(2, Len(d)) = {Fixed(2, "fuel", Len(d))}
        /\ LegacyKnown(2, Len(d)) = {Fixed(2, "fuel", Len(d))}
    BY <2>1, TableRows
  <2> HIDE DEF v
  <2>5. Fine(Same(2, d, Field("fuel", v)))
    BY <2>1, <2>2, <2>3, <2>4, SameNumberIsRead
  <2> QED
    BY <2>5 DEF d, v
<1>5. Fine(Same(48, <<1>>, Field("signal_strength", 1)))
  <2> DEFINE d == <<1>>
  <2>1. d \in Seq(Nat) /\ Len(d) = 1 /\ 48 \in Nat /\ 48 # CUSTOM
    BY <1>1
  <2>2. 1 = Value(d)
    BY ValueOfOne
  <2>3. "signal_strength" \in Names
    BY SomeNames
  <2> HIDE DEF d
  <2>4. /\ JtKnown(48, Len(d)) = {Fixed(48, "signal_strength", Len(d))}
        /\ LegacyKnown(48, Len(d)) = {Fixed(48, "signal_strength", Len(d))}
    BY <2>1, TableRows
  <2>5. Fine(Same(48, d, Field("signal_strength", 1)))
    BY <2>1, <2>2, <2>3, <2>4, SameNumberIsRead
  <2> QED
    BY <2>5 DEF d
<1>6. Fine(An(48, <<2, 48, 1>>, NoFields, Field("signal_strength", 2), 0))
  <2> DEFINE d == <<2, 48, 1>>
             f == Field("signal_strength", 2)
  <2>1. d \in Seq(Nat) /\ Len(d) = 3 /\ 48 \in Nat /\ 48 # CUSTOM
    BY <1>1
  <2>2. SubSeq(d, 1, 1) = <<2>>
    <3>1. 1 \in 1..Len(d) /\ d[1] = 2
      OBVIOUS
    <3> HIDE DEF d
    <3> QED
      BY <2>1, <3>1, SubSeqOfOne
  <2>3. 2 = Value(<<2>>)
    BY ValueOfOne
  <2>4. "signal_strength" \in Names
    BY SomeNames
  <2> HIDE DEF d
  <2>5. JtCase(48, d, NoFields, 0)
    BY <2>1, TableRows DEF JtCase
  <2>6. LegacyCase(48, d, f)
    <3>1. /\ LegacyKnown(48, Len(d)) = {Fixed(48, "signal_strength", 1)}
          /\ 1 \in 0..Len(d)
      BY <2>1, TableRows
    <3>2. f = Field("signal_strength", Value(SubSeq(d, 1, 1)))
      BY <2>2, <2>3
    <3> QED
      BY <2>4, <3>1, <3>2, Zenon DEF LegacyCase
  <2> HIDE DEF f
  <2>7. Fine(An(48, d, NoFields, f, 0))
    BY <2>1, <2>5, <2>6, ItemIsRead
  <2> QED
    BY <2>7 DEF d, f
<1>7. Fine(An(2, <<1>>, NoFields, NoFields, 0))
  <2> DEFINE d == <<1>>
  <2>1. d \in Seq(Nat) /\ Len(d) = 1 /\ 2 \in Nat /\ 2 # CUSTOM
    BY <1>1
  <2> HIDE DEF d
  <2>2. JtCase(2, d, NoFields, 0) /\ LegacyCase(2, d, NoFields)
    BY <2>1, TableRows DEF JtCase, LegacyCase
  <2>3. Fine(An(2, d, NoFields, NoFields, 0))
    BY <2>1, <2>2, ItemIsRead
  <2> QED
    BY <2>3 DEF d
<1>8. Fine(An(42, <<2, 2>>, Field("io_status", 514), NoFields, 2))
  <2> DEFINE d == <<2, 2>>
             f == Field("io_status", 514)
  <2>1. d \in Seq(Nat) /\ Len(d) = 2 /\ 42 \in Nat /\ 42 # CUSTOM
    BY <1>1
  <2>2. 514 = Value(d)
    BY ValueOfTwo
  <2>3. "io_status" \in Names
    BY SomeNames
  <2> HIDE DEF d
  <2>4. JtCase(42, d, f, 2)
    <3>1. JtKnown(42, Len(d)) = {Fixed(42, "io_status", Len(d))}
      BY <2>1, TableRows
    <3>2. f = Field("io_status", Value(d)) /\ 2 = Len(d)
      BY <2>1, <2>2
    <3> QED
      BY <2>3, <3>1, <3>2, Zenon DEF JtCase
  <2>5. LegacyCase(42, d, NoFields)
    BY <2>1, TableRows DEF LegacyCase
  <2> HIDE DEF f
  <2>6. Fine(An(42, d, f, NoFields, 2))
    BY <2>1, <2>4, <2>5, ItemIsRead
  <2> QED
    BY <2>6 DEF d, f
<1>9. Fine(Same(238, <<1, 0>>, Alarm(1, 0)))
  <2> DEFINE d == <<1, 0>>
             f == Alarm(1, 0)
  <2>1. d \in Seq(Nat) /\ Len(d) = 2 /\ d[1] = 1 /\ d[2] = 0 /\ 1 \in Nat /\ 0 \in Nat
    OBVIOUS
  <2> HIDE DEF d
  <2>2. Fine(An(CUSTOM, d, f, f, 2))
    BY <2>1, CustomIsRead
  <2> HIDE DEF f
  <2>3. Same(238, d, f) = An(CUSTOM, d, f, f, 2)
    BY <1>1, <2>1 DEF Same
  <2> QED
    BY <2>2, <2>3 DEF d, f
<1>10. Fine(An(238, <<0, 1, 1>>, Alarm(0, 1), Alarm(0, 1), 2))
  <2> DEFINE d == <<0, 1, 1>>
             f == Alarm(0, 1)
  <2>1. d \in Seq(Nat) /\ Len(d) = 3 /\ d[1] = 0 /\ d[2] = 1 /\ 1 \in Nat /\ 0 \in Nat
    OBVIOUS
  <2> HIDE DEF d
  <2>2. Fine(An(CUSTOM, d, f, f, 2))
    BY <2>1, CustomIsRead
  <2> HIDE DEF f
  <2> QED
    BY <1>1, <2>2 DEF d, f
<1>11. Fine(An(99, <<1, 4, 2>>, NoFields, NoFields, 0))
  <2> DEFINE d == <<1, 4, 2>>
  <2>1. d \in Seq(Nat) /\ Len(d) = 3 /\ 99 \in Nat /\ 99 # CUSTOM
    BY <1>1
  <2> HIDE DEF d
  <2>2. JtCase(99, d, NoFields, 0) /\ LegacyCase(99, d, NoFields)
    BY <2>1, TableRows DEF JtCase, LegacyCase
  <2>3. Fine(An(99, d, NoFields, NoFields, 0))
    BY <2>1, <2>2, ItemIsRead
  <2> QED
    BY <2>3 DEF d
<1>12. Fine(An(99, <<>>, NoFields, NoFields, 0))
  <2> DEFINE d == <<>>
  <2>1. d \in Seq(Nat) /\ Len(d) = 0 /\ 99 \in Nat /\ 99 # CUSTOM
    BY <1>1
  <2> HIDE DEF d
  <2>2. JtCase(99, d, NoFields, 0) /\ LegacyCase(99, d, NoFields)
    BY <2>1, TableRows DEF JtCase, LegacyCase
  <2>3. Fine(An(99, d, NoFields, NoFields, 0))
    BY <2>1, <2>2, ItemIsRead, ZenonT(60)
  <2> QED
    BY <2>3 DEF d
<1> HIDE DEF Fine
<1>13. \A x \in SomeItems : Fine(x)
  BY <1>2, <1>3, <1>4, <1>5, <1>6, <1>7, <1>8, <1>9, <1>10, <1>11, <1>12
  DEF SomeItems
<1> QED
  BY <1>13, Zenon DEF AreRead, Fine

-----------------------------------------------------------------------------
(* The properties of the run *)

\* A report of the run consists of these items.
ItemsOK == items \in Seq(SomeItems)

\* It always does: LocationNext appends one of them.
LEMMA ItemsStayOK == LocationSpec => []ItemsOK
<1>1. LocationInit => ItemsOK
  BY DEF LocationInit, ItemsOK
<1>2. ItemsOK /\ [LocationNext]_items => ItemsOK'
  <2> SUFFICES ASSUME ItemsOK, [LocationNext]_items PROVE ItemsOK'
    OBVIOUS
  <2>1. CASE LocationNext
    <3>1. PICK item \in SomeItems : items' = Append(items, item)
      BY <2>1, Zenon DEF LocationNext
    <3>2. Append(items, item) \in Seq(SomeItems)
      BY DEF ItemsOK
    <3> QED
      BY <3>1, <3>2, Zenon DEF ItemsOK
  <2>2. CASE UNCHANGED items
    BY <2>2 DEF ItemsOK
  <2> QED
    BY <2>1, <2>2
<1> QED
  BY <1>1, <1>2, PTL DEF LocationSpec

\* From a report of whole items, however many, jt808 reads the position and of
\* every item it knows the latest value (ReportIsRead): no data byte is ever taken
\* for an id or a size.
THEOREM TheReportIsRead == LocationSpec => []ReportIsRead
<1>1. ItemsOK => ReportIsRead
  BY SomeItemsAreRead, ReportIsReadIf DEF ItemsOK
<1> QED
  BY <1>1, ItemsStayOK, PTL

\* A report that is cut anywhere is refused or read up to the last item that
\* jt808 can read (CutIsRefusedOrHarmless).
THEOREM NoCutIsMisread == LocationSpec => []CutIsRefusedOrHarmless
<1>1. ItemsOK => CutIsRefusedOrHarmless
  BY SomeItemsAreRead, CutIsHarmlessIf DEF ItemsOK
<1> QED
  BY <1>1, ItemsStayOK, PTL

\* The legacy parser reads the items that are whole, wherever the report ends,
\* and never anything else (LegacyReadsWholeItems).
THEOREM LegacyReadsWhatIsWhole == LocationSpec => []LegacyReadsWholeItems
<1>1. ItemsOK => LegacyReadsWholeItems
  BY SomeItemsAreRead, CutIsHarmlessIf DEF ItemsOK
<1> QED
  BY <1>1, ItemsStayOK, PTL

=============================================================================
