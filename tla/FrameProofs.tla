----------------------------- MODULE FrameProofs -----------------------------
(***************************************************************************)
(* Proofs about the bytes on a connection: byte stuffing, frame extraction *)
(* and frames in a stream, for strings, payloads and streams of any length *)
(* and for chunks of any length.                                           *)
(*                                                                         *)
(* Unescape and Scan are recursive functions; each is first shown to meet  *)
(* the equations of its definition (UnescapeUnfolds, ScanUnfolds).  The    *)
(* stream then rests on ScanOfConcat: to scan a buffer and a chunk after   *)
(* it is to scan the buffer first, and then what was left of it together   *)
(* with the chunk.                                                         *)
(***************************************************************************)
EXTENDS MCFrameCodec, FrameStream, SequenceFacts

-----------------------------------------------------------------------------
(* Byte stuffing *)

\* The bytes that are told apart are five different ones.
LEMMA BytesDiffer ==
    /\ FLAG \in Bytes /\ ESC \in Bytes /\ "01" \in Bytes /\ "02" \in Bytes
    /\ FLAG # ESC /\ "01" # ESC /\ "02" # ESC /\ "01" # FLAG /\ "02" # FLAG
    /\ "01" # "02"
BY DEF Bytes, FLAG, ESC

\* Joining byte strings.
LEMMA BytesConcat ==
    \A a, b, c \in Seq(Bytes) : /\ a \o b \in Seq(Bytes)
                                /\ (a \o b) \o c = a \o (b \o c)
                                /\ <<>> \o a = a /\ a \o <<>> = a
OBVIOUS

\* A marker is a byte string.
LEMMA FlagType == <<FLAG>> \in Seq(Bytes)
BY BytesDiffer

\* What escape makes of each byte.
LEMMA EscapedBytes ==
    /\ EscapeByte(FLAG) = <<ESC, "02">>
    /\ EscapeByte(ESC) = <<ESC, "01">>
    /\ \A b \in Bytes \ {FLAG, ESC} : EscapeByte(b) = <<b>>
<1> USE DEF EscapeByte
<1>1. EscapeByte(FLAG) = <<ESC, "02">>
  BY BytesDiffer, Zenon
<1>2. EscapeByte(ESC) = <<ESC, "01">>
  BY BytesDiffer, Zenon
<1>3. \A b \in Bytes \ {FLAG, ESC} : EscapeByte(b) = <<b>>
  BY BytesDiffer, Zenon
<1> QED
  BY <1>1, <1>2, <1>3, Zenon

\* What unescape makes of the byte after an escape byte.
LEMMA UnescapedPairs ==
    /\ UnescapePair("02") = <<FLAG>>
    /\ UnescapePair("01") = <<ESC>>
    /\ \A b \in Bytes : UnescapePair(b) \in Seq(Bytes)
<1> USE DEF UnescapePair
<1>1. UnescapePair("02") = <<FLAG>>
  BY BytesDiffer, Zenon
<1>2. UnescapePair("01") = <<ESC>>
  BY BytesDiffer, Zenon
<1>3. \A b \in Bytes \ {"01", "02"} : UnescapePair(b) = <<ESC, b>>
  BY BytesDiffer, Zenon
<1>4. \A b \in Bytes : <<ESC, b>> \in Seq(Bytes) /\ <<b>> \in Seq(Bytes)
  BY BytesDiffer
<1> QED
  BY <1>1, <1>2, <1>3, <1>4, BytesDiffer, Zenon

\* What is unescaped from position i on, later[k] being what is from k on.
UnescapeStep(bytes, i, later) ==
    IF i > Len(bytes) THEN <<>>
    ELSE IF i < Len(bytes) /\ bytes[i] = ESC
         THEN UnescapePair(bytes[i + 1]) \o later[i + 2]
         ELSE <<bytes[i]>> \o later[i + 1]

UnescapesFrom(from, bytes) ==
    /\ from \in [1..(Len(bytes) + 2) -> Seq(Bytes)]
    /\ \A i \in 1..(Len(bytes) + 2) : from[i] = UnescapeStep(bytes, i, from)

\* One step of unescape gives bytes.
LEMMA UnescapeStepType ==
    ASSUME NEW bytes \in Seq(Bytes), NEW i \in 1..(Len(bytes) + 2), NEW g,
           i <= Len(bytes) => g[i + 1] \in Seq(Bytes) /\ g[i + 2] \in Seq(Bytes)
    PROVE  UnescapeStep(bytes, i, g) \in Seq(Bytes)
<1> DEFINE n == Len(bytes)
           V == Seq(Bytes)
<1>1. n \in Nat /\ \A k \in 1..n : bytes[k] \in Bytes
  OBVIOUS
<1>2. CASE i > n
  <2>1. UnescapeStep(bytes, i, g) = <<>>
    BY <1>2, Zenon DEF UnescapeStep
  <2> QED
    BY <2>1
<1>3. CASE i <= n
  <2>1. i \in 1..n /\ (i < n => i + 1 \in 1..n) /\ ~ (i > n)
    BY <1>1, <1>3
  <2>2. <<bytes[i]>> \in V /\ (i < n => UnescapePair(bytes[i + 1]) \in V)
    BY <1>1, <2>1, UnescapedPairs
  <2>3. <<bytes[i]>> \o g[i + 1] \in V
    BY <1>3, <2>2
  <2>4. i < n => UnescapePair(bytes[i + 1]) \o g[i + 2] \in V
    BY <1>3, <2>2
  <2> QED
    BY <2>1, <2>3, <2>4, Zenon DEF UnescapeStep
<1> QED
  BY <1>1, <1>2, <1>3

\* Unescape is what its steps give from the first position on.
LEMMA UnescapeUnfolds ==
    ASSUME NEW bytes \in Seq(Bytes)
    PROVE  \E from : UnescapesFrom(from, bytes) /\ Unescape(bytes) = from[1]
<1> DEFINE n == Len(bytes)
           D == 1..(n + 2)
           V == Seq(Bytes)
           rank == [i \in D |-> n + 2 - i]
           F == [i \in D |-> [g \in [D -> V] |-> UnescapeStep(bytes, i, g)]]
<1>1. n \in Nat /\ V # {} /\ \A i \in 1..n : bytes[i] \in Bytes
  OBVIOUS
<1>2. ASSUME NEW i \in D, NEW g \in [D -> V]
      PROVE  UnescapeStep(bytes, i, g) \in V
  <2>1. i <= n => i + 1 \in D /\ i + 2 \in D
    BY <1>1
  <2>2. i <= n => g[i + 1] \in V /\ g[i + 2] \in V
    BY <2>1
  <2> QED
    BY <2>2, UnescapeStepType, Zenon
<1>3. F \in [D -> [[D -> V] -> V]]
  BY <1>2
<1>4. ASSUME NEW i \in D, NEW g \in [D -> V], NEW h \in [D -> V],
             \A j \in D : rank[j] < rank[i] => g[j] = h[j]
      PROVE  F[i][g] = F[i][h]
  <2>1. i <= n => /\ i + 1 \in D /\ i + 2 \in D
                  /\ rank[i + 1] < rank[i] /\ rank[i + 2] < rank[i]
    BY <1>1
  <2>2. i <= n => g[i + 1] = h[i + 1] /\ g[i + 2] = h[i + 2]
    BY <1>4, <2>1
  <2>3. UnescapeStep(bytes, i, g) = UnescapeStep(bytes, i, h)
    BY <1>1, <2>2 DEF UnescapeStep
  <2> QED
    BY <2>3
<1>5. rank \in [D -> Nat] /\ (\A i \in D : rank[i] <= n + 2)
  BY <1>1
<1>6. PICK g : Solves(g, F, D, V)
  <2> DEFINE bound == n + 2
  <2>1. Recurs(F, D, V, rank, bound)
    <3>1. bound \in Nat
      BY <1>1
    <3> HIDE DEF D, V, rank, F
    <3> QED
      BY <1>1, <1>3, <1>4, <1>5, <3>1 DEF Recurs
  <2> HIDE DEF D, V, rank, F, bound
  <2> QED
    BY <2>1, RankedRecursion, Zenon
<1>7. g \in [D -> V] /\ \A i \in D : g[i] = UnescapeStep(bytes, i, g)
  BY <1>6 DEF Solves
<1>8. g = [i \in D |-> UnescapeStep(bytes, i, g)]
  BY <1>7
<1> DEFINE f == CHOOSE f : f = [i \in 1..(Len(bytes) + 2) |->
                    IF i > Len(bytes) THEN <<>>
                    ELSE IF i < Len(bytes) /\ bytes[i] = ESC
                         THEN UnescapePair(bytes[i + 1]) \o f[i + 2]
                         ELSE <<bytes[i]>> \o f[i + 1]]
<1>9. f = [i \in D |-> UnescapeStep(bytes, i, f)]
  BY <1>8, Zenon DEF UnescapeStep
<1>10. Unescape(bytes) = f[1]
  BY Zenon DEF Unescape
<1> HIDE DEF f
<1>11. \A i \in D : f[i] = UnescapeStep(bytes, i, f)
  BY <1>9, Zenon
<1>12. f \in [D -> V]
  <2> DEFINE S == {i \in D : f[i] \in V}
             m == n + 2
  <2>1. ASSUME NEW i \in 1..m, \A k \in (i + 1)..m : k \in S
        PROVE  i \in S
    <3>1. i \in D /\ (i <= n => i + 1 \in (i + 1)..m /\ i + 2 \in (i + 1)..m)
      BY <1>1
    <3>2. i <= n => f[i + 1] \in V /\ f[i + 2] \in V
      BY <2>1, <3>1
    <3>3. UnescapeStep(bytes, i, f) \in V
      BY <3>1, <3>2, UnescapeStepType, Zenon
    <3> QED
      BY <1>11, <3>1, <3>3, Zenon
  <2>2. 1..m \subseteq S
    <3>1. m \in Nat
      BY <1>1
    <3> HIDE DEF S, m
    <3> QED
      BY <2>1, <3>1, DownwardInduction
  <2>3. \A i \in D : f[i] \in V
    BY <2>2
  <2>4. DOMAIN f = D /\ f = [i \in D |-> f[i]]
    BY <1>9, Zenon
  <2> QED
    BY <2>3, <2>4, Zenon
<1> QED
  BY <1>10, <1>11, <1>12, Zenon DEF UnescapesFrom

\* What is in front of a string plays no part in unescaping the string.
Shifted(f, g, k, m) == \A i \in 1..m, q \in Nat : q = k + i => f[q] = g[i]

\* Steps over a string with p in front of it are those over the string.
LEMMA UnescapeShifts ==
    ASSUME NEW p \in Seq(Bytes), NEW s \in Seq(Bytes), NEW f, NEW g,
           UnescapesFrom(f, p \o s), UnescapesFrom(g, s)
    PROVE  Shifted(f, g, Len(p), Len(s) + 2)
<1> DEFINE d == p \o s
           k == Len(p)
           n == Len(s)
           m == n + 2
           S == {i \in 1..m : \A q \in Nat : q = k + i => f[q] = g[i]}
<1>1. /\ k \in Nat /\ n \in Nat /\ m \in Nat /\ Len(d) = k + n
      /\ \A i \in 1..n, q \in Nat : q = k + i => d[q] = s[i]
  OBVIOUS
<1>2. /\ \A q \in 1..(Len(d) + 2) : f[q] = UnescapeStep(d, q, f)
      /\ \A i \in 1..m : g[i] = UnescapeStep(s, i, g)
  BY DEF UnescapesFrom
<1>3. ASSUME NEW i \in 1..m, \A l \in (i + 1)..m : l \in S
      PROVE  i \in S
  <2>1. ASSUME NEW q \in Nat, q = k + i
        PROVE  f[q] = g[i]
    <3>1. /\ q \in 1..(Len(d) + 2)
          /\ (q > Len(d) <=> i > n) /\ (q < Len(d) <=> i < n)
      BY <1>1, <2>1
    <3>2. ~ (i > n) => d[q] = s[i] /\ f[q + 1] = g[i + 1] /\ f[q + 2] = g[i + 2]
      <4>1. ~ (i > n) => /\ i \in 1..n /\ i + 1 \in (i + 1)..m
                         /\ i + 2 \in (i + 1)..m
                         /\ q + 1 = k + (i + 1) /\ q + 2 = k + (i + 2)
        BY <1>1, <2>1
      <4> QED
        BY <1>1, <1>3, <2>1, <4>1, SMTT(30)
    <3>3. i < n => d[q + 1] = s[i + 1]
      <4>1. i < n => i + 1 \in 1..n /\ q + 1 = k + (i + 1) /\ q + 1 \in Nat
        BY <1>1, <2>1
      <4> HIDE DEF d
      <4> QED
        BY <1>1, <4>1
    <3>4. f[q] = UnescapeStep(d, q, f) /\ g[i] = UnescapeStep(s, i, g)
      BY <1>2, <3>1
    <3>5. UnescapeStep(d, q, f) = UnescapeStep(s, i, g)
      <4>1. CASE i > n
        BY <3>1, <4>1, Zenon DEF UnescapeStep
      <4>2. CASE i < n /\ ~ (i > n) /\ s[i] = ESC
        BY <3>1, <3>2, <3>3, <4>2, Zenon DEF UnescapeStep
      <4>3. CASE ~ (i < n /\ s[i] = ESC) /\ ~ (i > n)
        BY <3>1, <3>2, <3>3, <4>3, Zenon DEF UnescapeStep
      <4> QED
        BY <4>1, <4>2, <4>3, Zenon
    <3> QED
      BY <3>4, <3>5, Zenon
  <2> QED
    BY <2>1
<1>4. 1..m \subseteq S
  <2> HIDE DEF S, m
  <2> QED
    BY <1>1, <1>3, DownwardInduction
<1> QED
  BY <1>4 DEF Shifted

\* Nothing unescaped is nothing.
LEMMA UnescapeEmpty == Unescape(<<>>) = <<>>
<1> DEFINE bytes == <<>>
<1>1. bytes \in Seq(Bytes) /\ Len(bytes) = 0
  OBVIOUS
<1> HIDE DEF bytes
<1>2. PICK f : UnescapesFrom(f, bytes) /\ Unescape(bytes) = f[1]
  BY <1>1, UnescapeUnfolds, Zenon
<1>3. f[1] = UnescapeStep(bytes, 1, f)
  BY <1>1, <1>2 DEF UnescapesFrom
<1>4. 1 > Len(bytes)
  BY <1>1
<1>5. UnescapeStep(bytes, 1, f) = <<>>
  BY <1>4, Zenon DEF UnescapeStep
<1> QED
  BY <1>2, <1>3, <1>5, Zenon DEF bytes

\* What is unescaped is a byte string.
LEMMA UnescapeType ==
    ASSUME NEW bytes \in Seq(Bytes)
    PROVE  Unescape(bytes) \in Seq(Bytes)
<1>1. PICK f : UnescapesFrom(f, bytes) /\ Unescape(bytes) = f[1]
  BY UnescapeUnfolds, Zenon
<1>2. f[1] \in Seq(Bytes)
  BY <1>1 DEF UnescapesFrom
<1> QED
  BY <1>1, <1>2, Zenon

\* A byte that is no escape byte stands for itself.
LEMMA UnescapePlain ==
    ASSUME NEW b \in Bytes \ {ESC}, NEW s \in Seq(Bytes)
    PROVE  Unescape(<<b>> \o s) = <<b>> \o Unescape(s)
<1> DEFINE p == <<b>>
           d == p \o s
<1>1. p \in Seq(Bytes) /\ Len(p) = 1 /\ d \in Seq(Bytes)
      /\ Len(d) = 1 + Len(s) /\ d[1] = b
  OBVIOUS
<1>2. PICK f : UnescapesFrom(f, d) /\ Unescape(d) = f[1]
  <2> HIDE DEF d
  <2> QED
    BY <1>1, UnescapeUnfolds, Zenon
<1>3. PICK g : UnescapesFrom(g, s) /\ Unescape(s) = g[1]
  BY UnescapeUnfolds, Zenon
<1> HIDE DEF p
<1>4. Shifted(f, g, Len(p), Len(s) + 2)
  <2>1. p \in Seq(Bytes) /\ UnescapesFrom(f, p \o s) /\ UnescapesFrom(g, s)
    BY <1>1, <1>2, <1>3, Zenon
  <2> QED
    BY <2>1, UnescapeShifts, Zenon
<1> HIDE DEF d
<1>5. f[1] = UnescapeStep(d, 1, f)
  BY <1>1, <1>2 DEF UnescapesFrom
<1>6. ~ (1 > Len(d)) /\ d[1] # ESC
  BY <1>1
<1>7. UnescapeStep(d, 1, f) = <<d[1]>> \o f[1 + 1]
  BY <1>6, Zenon DEF UnescapeStep
<1>8. f[1 + 1] = g[1]
  <2>1. 1 \in 1..(Len(s) + 2) /\ 1 + 1 \in Nat /\ 1 + 1 = Len(p) + 1
    BY <1>1
  <2> QED
    BY <1>4, <2>1, Zenon DEF Shifted
<1> QED
  BY <1>1, <1>2, <1>3, <1>5, <1>7, <1>8, Zenon DEF p, d

\* An escape byte and the byte after it stand for one pair.
LEMMA UnescapeEscaped ==
    ASSUME NEW b \in Bytes, NEW s \in Seq(Bytes)
    PROVE  Unescape(<<ESC, b>> \o s) = UnescapePair(b) \o Unescape(s)
<1> DEFINE p == <<ESC, b>>
           d == p \o s
<1>1. p \in Seq(Bytes) /\ Len(p) = 2 /\ d \in Seq(Bytes)
      /\ Len(d) = 2 + Len(s) /\ d[1] = ESC /\ d[1 + 1] = b
  BY BytesDiffer
<1>2. PICK f : UnescapesFrom(f, d) /\ Unescape(d) = f[1]
  <2> HIDE DEF d
  <2> QED
    BY <1>1, UnescapeUnfolds, Zenon
<1>3. PICK g : UnescapesFrom(g, s) /\ Unescape(s) = g[1]
  BY UnescapeUnfolds, Zenon
<1> HIDE DEF p
<1>4. Shifted(f, g, Len(p), Len(s) + 2)
  <2>1. p \in Seq(Bytes) /\ UnescapesFrom(f, p \o s) /\ UnescapesFrom(g, s)
    BY <1>1, <1>2, <1>3, Zenon
  <2> QED
    BY <2>1, UnescapeShifts, Zenon
<1> HIDE DEF d
<1>5. f[1] = UnescapeStep(d, 1, f)
  BY <1>1, <1>2 DEF UnescapesFrom
<1>6. ~ (1 > Len(d)) /\ 1 < Len(d)
  BY <1>1
<1>7. UnescapeStep(d, 1, f) = UnescapePair(d[1 + 1]) \o f[1 + 2]
  BY <1>1, <1>6, Zenon DEF UnescapeStep
<1>8. f[1 + 2] = g[1]
  <2>1. 1 \in 1..(Len(s) + 2) /\ 1 + 2 \in Nat /\ 1 + 2 = Len(p) + 1
    BY <1>1
  <2> QED
    BY <1>4, <2>1, Zenon DEF Shifted
<1> QED
  BY <1>1, <1>2, <1>3, <1>5, <1>7, <1>8, Zenon DEF p, d

EscapeMap == [b \in Bytes |-> EscapeByte(b)]

\* Escape joins what it makes of each byte.
LEMMA EscapeIsFlatMap ==
    /\ EscapeMap \in [Bytes -> Seq(Bytes)]
    /\ \A b \in Bytes : EscapeMap[b] = EscapeByte(b)
    /\ \A bytes \in Seq(Bytes) : Escape(bytes) = FlatMap(EscapeMap, bytes)
<1>1. \A b \in Bytes : EscapeByte(b) \in Seq(Bytes)
  <2>1. <<ESC, "02">> \in Seq(Bytes) /\ <<ESC, "01">> \in Seq(Bytes)
        /\ \A b \in Bytes : <<b>> \in Seq(Bytes)
    BY BytesDiffer
  <2> QED
    BY <2>1, EscapedBytes, Zenon
<1>2. \A b \in Bytes : EscapeMap[b] = EscapeByte(b)
  BY Zenon DEF EscapeMap
<1>3. ASSUME NEW bytes \in Seq(Bytes)
      PROVE  Escape(bytes) = FlatMap(EscapeMap, bytes)
  <2>1. \A i \in 1..Len(bytes) : bytes[i] \in Bytes
    OBVIOUS
  <2>2. [i \in 1..Len(bytes) |-> EscapeByte(bytes[i])]
          = [i \in 1..Len(bytes) |-> EscapeMap[bytes[i]]]
    BY <1>2, <2>1, Zenon
  <2> QED
    BY <2>2, Zenon DEF Escape, Concat, FlatMap
<1> QED
  BY <1>1, <1>2, <1>3, Zenon DEF EscapeMap

\* Nothing escaped is nothing.
LEMMA EscapeEmpty == Escape(<<>>) = <<>>
<1>1. <<>> \in Seq(Bytes)
  OBVIOUS
<1> QED
  BY <1>1, EscapeIsFlatMap, FlatMapEmpty, Zenon

\* What is escaped is a byte string.
LEMMA EscapeType ==
    ASSUME NEW s \in Seq(Bytes)
    PROVE  Escape(s) \in Seq(Bytes)
<1>1. EscapeMap \in [Bytes -> Seq(Bytes)]
  BY EscapeIsFlatMap, Zenon
<1>2. FlatMap(EscapeMap, s) \in Seq(Bytes)
  BY <1>1, FlatMapType
<1> QED
  BY <1>2, EscapeIsFlatMap, Zenon

\* One byte becomes a byte string.
LEMMA EscapeByteType ==
    ASSUME NEW b \in Bytes
    PROVE  EscapeByte(b) \in Seq(Bytes)
<1>1. EscapeMap \in [Bytes -> Seq(Bytes)]
  BY EscapeIsFlatMap, Zenon
<1>2. EscapeMap[b] \in Seq(Bytes)
  BY <1>1
<1> QED
  BY <1>2, EscapeIsFlatMap, Zenon

\* The first byte is escaped first.
LEMMA EscapeCons ==
    ASSUME NEW b \in Bytes, NEW s \in Seq(Bytes)
    PROVE  Escape(<<b>> \o s) = EscapeByte(b) \o Escape(s)
<1>1. <<b>> \in Seq(Bytes) /\ <<b>> \o s \in Seq(Bytes)
  OBVIOUS
<1>2. FlatMap(EscapeMap, <<b>> \o s)
        = FlatMap(EscapeMap, <<b>>) \o FlatMap(EscapeMap, s)
  <2>1. EscapeMap \in [Bytes -> Seq(Bytes)]
    BY EscapeIsFlatMap, Zenon
  <2> DEFINE p == <<b>>
  <2>2. p \in Seq(Bytes)
    OBVIOUS
  <2> HIDE DEF p
  <2>3. FlatMap(EscapeMap, p \o s) = FlatMap(EscapeMap, p) \o FlatMap(EscapeMap, s)
    BY <2>1, <2>2, FlatMapConcat
  <2> QED
    BY <2>3 DEF p
<1>3. FlatMap(EscapeMap, <<b>>) = EscapeMap[b]
  <2>1. EscapeMap \in [Bytes -> Seq(Bytes)]
    BY EscapeIsFlatMap, Zenon
  <2> QED
    BY <2>1, FlatMapOne
<1> QED
  BY <1>1, <1>2, <1>3, EscapeIsFlatMap, Zenon

\* Unescaping undoes escaping.
LEMMA UnescapeOfEscape ==
    ASSUME NEW bytes \in Seq(Bytes)
    PROVE  Unescape(Escape(bytes)) = bytes
<1> DEFINE G == {s \in Seq(Bytes) : Unescape(Escape(s)) = s}
<1>1. <<>> \in G
  <2>1. <<>> \in Seq(Bytes)
    OBVIOUS
  <2> QED
    BY <2>1, EscapeEmpty, UnescapeEmpty, Zenon
<1>2. ASSUME NEW s \in Seq(Bytes), NEW b \in Bytes, s \in G
      PROVE  <<b>> \o s \in G
  <2> DEFINE e == Escape(s)
  <2>1. e \in Seq(Bytes) /\ Unescape(e) = s /\ <<b>> \o s \in Seq(Bytes)
    BY <1>2, EscapeType
  <2> HIDE DEF e
  <2>2. Escape(<<b>> \o s) = EscapeByte(b) \o e
    BY EscapeCons, Zenon DEF e
  <2>3. CASE b = FLAG
    <3>1. Unescape(<<ESC, "02">> \o e) = UnescapePair("02") \o Unescape(e)
      BY <2>1, BytesDiffer, UnescapeEscaped, Zenon
    <3> QED
      BY <2>1, <2>2, <2>3, <3>1, EscapedBytes, UnescapedPairs, Zenon
  <2>4. CASE b = ESC
    <3>1. Unescape(<<ESC, "01">> \o e) = UnescapePair("01") \o Unescape(e)
      BY <2>1, BytesDiffer, UnescapeEscaped, Zenon
    <3> QED
      BY <2>1, <2>2, <2>4, <3>1, EscapedBytes, UnescapedPairs, Zenon
  <2>5. CASE b \in Bytes \ {FLAG, ESC}
    <3>1. Unescape(<<b>> \o e) = <<b>> \o Unescape(e)
      BY <2>1, <2>5, UnescapePlain, Zenon
    <3> QED
      BY <2>1, <2>2, <2>5, <3>1, EscapedBytes, Zenon
  <2> QED
    BY <2>3, <2>4, <2>5, Zenon
<1>3. Seq(Bytes) \subseteq G
  <2> HIDE DEF G
  <2> QED
    BY <1>1, <1>2, ConsInduction
<1> QED
  BY <1>3

NoMarker(s) == \A i \in 1..Len(s) : s[i] # FLAG

\* Two strings without a marker make one.
LEMMA NoMarkerConcat ==
    ASSUME NEW a \in Seq(Bytes), NEW b \in Seq(Bytes), NoMarker(a), NoMarker(b)
    PROVE  NoMarker(a \o b)
BY DEF NoMarker

\* For every byte string: nothing of what is escaped is a marker.
LEMMA EscapeHasNoMarker ==
    ASSUME NEW bytes \in Seq(Bytes)
    PROVE  NoMarker(Escape(bytes))
<1> DEFINE G == {s \in Seq(Bytes) : NoMarker(Escape(s))}
<1>1. <<>> \in G
  <2>1. <<>> \in Seq(Bytes) /\ NoMarker(<<>>)
    BY DEF NoMarker
  <2> QED
    BY <2>1, EscapeEmpty, Zenon
<1>2. ASSUME NEW s \in Seq(Bytes), NEW b \in Bytes, s \in G
      PROVE  <<b>> \o s \in G
  <2> DEFINE e == Escape(s)
             x == EscapeByte(b)
  <2>1. e \in Seq(Bytes) /\ x \in Seq(Bytes) /\ <<b>> \o s \in Seq(Bytes)
    BY EscapeType, EscapeByteType
  <2>2. NoMarker(e)
    BY <1>2
  <2> HIDE DEF e, x
  <2>3. Escape(<<b>> \o s) = x \o e
    BY EscapeCons, Zenon DEF e, x
  <2>4. NoMarker(x)
    <3>1. NoMarker(<<ESC, "02">>) /\ NoMarker(<<ESC, "01">>)
          /\ \A c \in Bytes \ {FLAG, ESC} : NoMarker(<<c>>)
      BY BytesDiffer DEF NoMarker
    <3> QED
      BY <3>1, EscapedBytes, Zenon DEF x
  <2>5. NoMarker(x \o e)
    BY <2>1, <2>2, <2>4 DEF NoMarker
  <2> QED
    BY <2>1, <2>3, <2>5, Zenon
<1>3. Seq(Bytes) \subseteq G
  <2> HIDE DEF G
  <2> QED
    BY <1>1, <1>2, ConsInduction
<1> QED
  BY <1>3

CodecType == data \in Seq(Bytes)

\* The strings that are checked are byte strings.
LEMMA CodecTypeCorrect == CodecSpec => []CodecType
<1>1. CodecInit => CodecType
  BY DEF CodecInit, CodecType
<1>2. CodecType /\ [CodecNext]_data => CodecType'
  BY DEF CodecNext, CodecType
<1> QED
  BY <1>1, <1>2, PTL DEF CodecSpec

\* unescape of jt808/protocol.py undoes its escape, whatever markers, escape
\* bytes and bytes that look like escape codes the string holds and however
\* long it is.
THEOREM StuffingIsUndone == CodecSpec => []RoundTrip
<1>1. CodecType => RoundTrip
  BY UnescapeOfEscape, Zenon DEF CodecType, RoundTrip
<1> QED
  BY <1>1, CodecTypeCorrect, PTL

\* What escape of jt808/protocol.py makes of a string holds no marker, so that
\* it can be put between two.
THEOREM StuffedHasNoMarker == CodecSpec => []NoMarkerInside
<1>1. CodecType => NoMarkerInside
  BY EscapeHasNoMarker, Zenon DEF CodecType, NoMarkerInside, NoMarker
<1> QED
  BY <1>1, CodecTypeCorrect, PTL

-----------------------------------------------------------------------------
(* One iteration of the loops that look for frames *)

First(bytes, i, k) ==
    k \in i..Len(bytes) /\ bytes[k] = FLAG /\ \A j \in i..(k - 1) : bytes[j] # FLAG
NoneFrom(bytes, i) == \A j \in i..Len(bytes) : bytes[j] # FLAG

One(bytes, i, k) == First(bytes, i, k) /\ NoneFrom(bytes, k + 1)
Two(bytes, i, k, e) == First(bytes, i, k) /\ First(bytes, k + 1, e)

\* There is a first marker, or none.
LEMMA FirstOrNone ==
    ASSUME NEW bytes \in Seq(Bytes), NEW i \in Nat \ {0}
    PROVE  NoneFrom(bytes, i) \/ \E k \in Nat : First(bytes, i, k)
<1> DEFINE hits == {k \in i..Len(bytes) : bytes[k] = FLAG}
<1>1. CASE hits = {}
  BY <1>1 DEF NoneFrom
<1>2. CASE hits # {}
  <2>1. hits \in SUBSET Nat
    OBVIOUS
  <2>2. PICK k \in hits : \A j \in hits : k <= j
    <3> HIDE DEF hits
    <3> QED
      BY <1>2, <2>1, SmallestOfNaturals
  <2>3. First(bytes, i, k)
    BY <2>2 DEF First
  <2> QED
    BY <2>1, <2>3
<1> QED
  BY <1>1, <1>2

\* Find gives 0 when there is no marker.
LEMMA FindNone ==
    ASSUME NEW bytes \in Seq(Bytes), NEW i \in Nat \ {0}, NoneFrom(bytes, i)
    PROVE  Find(bytes, i) = 0
<1>1. {k \in i..Len(bytes) : bytes[k] = FLAG} = {}
  BY DEF NoneFrom
<1> QED
  BY <1>1, Zenon DEF Find

\* Find gives the first marker.
LEMMA FindFirst ==
    ASSUME NEW bytes \in Seq(Bytes), NEW i \in Nat \ {0}, NEW k, First(bytes, i, k)
    PROVE  Find(bytes, i) = k
<1> DEFINE hits == {j \in i..Len(bytes) : bytes[j] = FLAG}
<1>1. k \in hits /\ \A j \in hits : k <= j
  BY DEF First
<1>2. \A j \in hits : j <= k => j = k
  BY DEF First
<1>3. Find(bytes, i) = Min(hits)
  BY <1>1, Zenon DEF Find
<1> HIDE DEF hits
<1>4. Min(hits) = k
  BY <1>1, <1>2, Zenon DEF Min
<1> QED
  BY <1>3, <1>4, Zenon

\* An iteration that meets no marker.
LEMMA IterationNone ==
    ASSUME NEW bytes \in Seq(Bytes), NEW i \in Nat \ {0}, NEW later, NEW step,
           NEW drops, NoneFrom(bytes, i)
    PROVE  Iteration(bytes, i, later, step, drops)
             = Result(<<>>, IF drops THEN Len(bytes) + 1 ELSE i)
BY FindNone, Zenon DEF Iteration

\* An iteration that meets the start of a frame and not its end.
LEMMA IterationOpen ==
    ASSUME NEW bytes \in Seq(Bytes), NEW i \in Nat \ {0}, NEW later, NEW step,
           NEW drops, NEW k, One(bytes, i, k)
    PROVE  Iteration(bytes, i, later, step, drops) = Result(<<>>, k)
<1>1. k \in Nat \ {0} /\ k + 1 \in Nat \ {0} /\ k # 0
  BY DEF One, First
<1>2. Find(bytes, i) = k /\ Find(bytes, k + 1) = 0
  BY <1>1, FindFirst, FindNone, Zenon DEF One
<1> QED
  BY <1>1, <1>2, Zenon DEF Iteration

\* What an iteration comes to when it meets markers at k and e.
AfterTwo(bytes, later, step, k, e) ==
    IF e = k + 1 THEN later[e + 1]
    ELSE Result(<<Between(bytes, k, e)>> \o later[e + step].frames,
                later[e + step].rest)

\* An iteration that meets two markers.
LEMMA IterationTwo ==
    ASSUME NEW bytes \in Seq(Bytes), NEW i \in Nat \ {0}, NEW later, NEW step,
           NEW drops, NEW k, NEW e, Two(bytes, i, k, e)
    PROVE  Iteration(bytes, i, later, step, drops) = AfterTwo(bytes, later, step, k, e)
<1>1. k \in Nat \ {0} /\ k + 1 \in Nat \ {0} /\ k # 0 /\ e # 0
  BY DEF Two, First
<1>2. Find(bytes, i) = k /\ Find(bytes, k + 1) = e
  BY <1>1, FindFirst, Zenon DEF Two
<1> QED
  BY <1>1, <1>2, Zenon DEF Iteration, AfterTwo

\* What an iteration meets from position i on: no marker, one, or two.
LEMMA ThreeCases ==
    ASSUME NEW bytes \in Seq(Bytes), NEW i \in Nat \ {0}
    PROVE  \/ NoneFrom(bytes, i)
           \/ \E k \in i..Len(bytes) : One(bytes, i, k)
           \/ \E k, e \in i..Len(bytes) : Two(bytes, i, k, e)
<1>1. ASSUME NEW k \in Nat, First(bytes, i, k)
      PROVE  \/ NoneFrom(bytes, k + 1)
             \/ \E e \in i..Len(bytes) : First(bytes, k + 1, e)
  <2>1. k + 1 \in Nat \ {0} /\ k >= i
    BY <1>1 DEF First
  <2>2. NoneFrom(bytes, k + 1) \/ \E e \in Nat : First(bytes, k + 1, e)
    BY <2>1, FirstOrNone
  <2>3. ASSUME NEW e \in Nat, First(bytes, k + 1, e)
        PROVE  e \in i..Len(bytes)
    BY <2>1, <2>3 DEF First
  <2> QED
    BY <2>2, <2>3, Zenon
<1>2. \A k : First(bytes, i, k) => k \in i..Len(bytes)
  BY DEF First
<1> QED
  BY <1>1, <1>2, FirstOrNone, Zenon DEF One, Two

-----------------------------------------------------------------------------
(* The recursion of Scan *)

Found(bytes) == [frames : Seq(Seq(Bytes)), rest : 1..(Len(bytes) + 1)]

ScansFrom(from, bytes, step, drops) ==
    /\ from \in [1..(Len(bytes) + 1) -> Found(bytes)]
    /\ \A i \in 1..(Len(bytes) + 1) : from[i] = Iteration(bytes, i, from, step, drops)

\* What is between two markers is a byte string.
LEMMA BetweenType ==
    ASSUME NEW bytes \in Seq(Bytes), NEW k \in Nat \ {0}, NEW e \in 1..Len(bytes)
    PROVE  Between(bytes, k, e) \in Seq(Bytes)
<1>1. SubSeq(bytes, k + 1, e - 1) \in Seq(Bytes)
  OBVIOUS
<1> QED
  BY <1>1, UnescapeType, Zenon DEF Between

\* An iteration gives frames and a position of the buffer or the one after it.
LEMMA IterationType ==
    ASSUME NEW bytes \in Seq(Bytes), NEW i \in 1..(Len(bytes) + 1), NEW later,
           NEW step \in {0, 1}, NEW drops \in BOOLEAN,
           \A j \in 1..(Len(bytes) + 1) : j > i => later[j] \in Found(bytes)
    PROVE  Iteration(bytes, i, later, step, drops) \in Found(bytes)
<1> DEFINE n == Len(bytes)
           it == Iteration(bytes, i, later, step, drops)
<1>1. n \in Nat /\ i \in Nat \ {0}
  OBVIOUS
<1>2. \A r \in 1..(n + 1) : Result(<<>>, r) \in Found(bytes)
  BY DEF Result, Found
<1>3. CASE NoneFrom(bytes, i)
  <2>1. it = Result(<<>>, IF drops THEN n + 1 ELSE i)
    BY <1>1, <1>3, IterationNone
  <2>2. (IF drops THEN n + 1 ELSE i) \in 1..(n + 1)
    BY <1>1
  <2> QED
    BY <1>2, <2>1, <2>2, Zenon
<1>4. ASSUME NEW k \in i..n, One(bytes, i, k)
      PROVE  it \in Found(bytes)
  <2>1. it = Result(<<>>, k)
    BY <1>1, <1>4, IterationOpen
  <2>2. k \in 1..(n + 1)
    BY <1>1
  <2> QED
    BY <1>2, <2>1, <2>2, Zenon
<1>5. ASSUME NEW k \in i..n, NEW e \in i..n, Two(bytes, i, k, e)
      PROVE  it \in Found(bytes)
  <2>1. it = AfterTwo(bytes, later, step, k, e)
    BY <1>1, <1>5, IterationTwo
  <2>2. CASE e = k + 1
    <3>1. e + 1 \in 1..(n + 1) /\ e + 1 > i
      BY <1>1, <1>5 DEF Two, First
    <3> QED
      BY <2>1, <2>2, <3>1, Zenon DEF AfterTwo
  <2>3. CASE e # k + 1
    <3> DEFINE l == later[e + step]
               b == Between(bytes, k, e)
    <3>1. it = Result(<<b>> \o l.frames, l.rest)
      BY <2>1, <2>3, Zenon DEF AfterTwo
    <3>2. e + step \in 1..(n + 1) /\ e + step > i
      BY <1>1, <1>5 DEF Two, First
    <3>3. l \in Found(bytes)
      BY <3>2
    <3>4. b \in Seq(Bytes)
      BY <1>1, BetweenType
    <3> HIDE DEF l, b
    <3> QED
      BY <3>1, <3>3, <3>4 DEF Result, Found
  <2> QED
    BY <2>2, <2>3
<1> QED
  BY <1>1, <1>3, <1>4, <1>5, ThreeCases, Zenon

\* An iteration depends only on what the loop does further on.
LEMMA IterationLooksAhead ==
    ASSUME NEW bytes \in Seq(Bytes), NEW i \in 1..(Len(bytes) + 1), NEW g, NEW h,
           NEW step \in {0, 1}, NEW drops \in BOOLEAN,
           \A j \in 1..(Len(bytes) + 1) : j > i => g[j] = h[j]
    PROVE  Iteration(bytes, i, g, step, drops) = Iteration(bytes, i, h, step, drops)
<1> DEFINE n == Len(bytes)
           same == Iteration(bytes, i, g, step, drops)
                     = Iteration(bytes, i, h, step, drops)
<1>1. n \in Nat /\ i \in Nat \ {0}
  OBVIOUS
<1>2. CASE NoneFrom(bytes, i)
  BY <1>1, <1>2, IterationNone
<1>3. ASSUME NEW k \in i..n, One(bytes, i, k)
      PROVE  same
  BY <1>1, <1>3, IterationOpen
<1>4. ASSUME NEW k \in i..n, NEW e \in i..n, Two(bytes, i, k, e)
      PROVE  same
  <2>1. /\ e + step \in 1..(n + 1) /\ e + step > i
        /\ e + 1 \in 1..(n + 1) /\ e + 1 > i
    BY <1>1, <1>4 DEF Two, First
  <2>2. g[e + 1] = h[e + 1] /\ g[e + step] = h[e + step]
    BY <2>1, Zenon
  <2>3. AfterTwo(bytes, g, step, k, e) = AfterTwo(bytes, h, step, k, e)
    BY <2>2, Zenon DEF AfterTwo
  <2> QED
    BY <1>1, <1>4, <2>3, IterationTwo
<1> QED
  BY <1>1, <1>2, <1>3, <1>4, ThreeCases, Zenon

\* Scan is what its iterations give from the first position on.
LEMMA ScanUnfolds ==
    ASSUME NEW bytes \in Seq(Bytes), NEW step \in {0, 1}, NEW drops \in BOOLEAN
    PROVE  \E from : /\ ScansFrom(from, bytes, step, drops)
                     /\ Scan(bytes, step, drops)
                          = Result(from[1].frames,
                                   SubSeq(bytes, from[1].rest, Len(bytes)))
<1> DEFINE n == Len(bytes)
           D == 1..(n + 1)
           V == Found(bytes)
           rank == [i \in D |-> n + 1 - i]
           F == [i \in D |-> [g \in [D -> V] |-> Iteration(bytes, i, g, step, drops)]]
<1>1. n \in Nat
  OBVIOUS
<1>2. V # {}
  <2>1. Result(<<>>, 1) \in V
    BY <1>1 DEF Result, Found
  <2> QED
    BY <2>1
<1>3. ASSUME NEW i \in D, NEW g \in [D -> V]
      PROVE  Iteration(bytes, i, g, step, drops) \in V
  <2>1. \A j \in D : j > i => g[j] \in V
    OBVIOUS
  <2> QED
    BY <2>1, IterationType, Zenon
<1>4. F \in [D -> [[D -> V] -> V]]
  <2> HIDE DEF V
  <2> QED
    BY <1>3
<1>5. ASSUME NEW i \in D, NEW g \in [D -> V], NEW h \in [D -> V],
             \A j \in D : rank[j] < rank[i] => g[j] = h[j]
      PROVE  F[i][g] = F[i][h]
  <2>1. \A j \in D : j > i => rank[j] < rank[i]
    BY <1>1
  <2>2. \A j \in D : j > i => g[j] = h[j]
    BY <1>5, <2>1
  <2>3. Iteration(bytes, i, g, step, drops) = Iteration(bytes, i, h, step, drops)
    <3> HIDE DEF V, F, rank
    <3> QED
      BY <2>2, IterationLooksAhead, ZenonT(60)
  <2> HIDE DEF V
  <2> QED
    BY <2>3
<1>6. rank \in [D -> Nat] /\ (\A i \in D : rank[i] <= n + 1)
  BY <1>1
<1>7. PICK g : Solves(g, F, D, V)
  <2> DEFINE bound == n + 1
  <2>1. Recurs(F, D, V, rank, bound)
    <3>1. bound \in Nat
      BY <1>1
    <3> HIDE DEF D, V, rank, F
    <3> QED
      BY <1>2, <1>4, <1>5, <1>6, <3>1 DEF Recurs
  <2> HIDE DEF D, V, rank, F, bound
  <2> QED
    BY <2>1, RankedRecursion, Zenon
<1>8. g \in [D -> V] /\ \A i \in D : g[i] = Iteration(bytes, i, g, step, drops)
  <2> HIDE DEF V
  <2> QED
    BY <1>7 DEF Solves
<1>9. g = [i \in D |-> Iteration(bytes, i, g, step, drops)]
  BY <1>8
<1> DEFINE f == CHOOSE f : f = [i \in 1..(Len(bytes) + 1) |->
                                  Iteration(bytes, i, f, step, drops)]
<1>10. f = [i \in D |-> Iteration(bytes, i, f, step, drops)]
  BY <1>9, Zenon
<1>11. Scan(bytes, step, drops) = Result(f[1].frames, SubSeq(bytes, f[1].rest, n))
  BY Zenon DEF Scan
<1> HIDE DEF f
<1>12. \A i \in D : f[i] = Iteration(bytes, i, f, step, drops)
  BY <1>10, Zenon
<1>13. f \in [D -> V]
  <2> DEFINE S == {i \in D : f[i] \in V}
             m == n + 1
  <2>1. ASSUME NEW i \in 1..m, \A k \in (i + 1)..m : k \in S
        PROVE  i \in S
    <3>1. \A j \in D : j > i => f[j] \in V
      <4>1. \A j \in D : j > i => j \in (i + 1)..m
        BY <1>1
      <4> QED
        BY <2>1, <4>1
    <3>2. Iteration(bytes, i, f, step, drops) \in V
      BY <3>1, IterationType, Zenon
    <3> QED
      BY <1>12, <3>2, Zenon
  <2>2. 1..m \subseteq S
    <3>1. m \in Nat
      BY <1>1
    <3> HIDE DEF S, m
    <3> QED
      BY <2>1, <3>1, DownwardInduction
  <2>3. \A i \in D : f[i] \in V
    <3> HIDE DEF V
    <3> QED
      BY <2>2
  <2>4. DOMAIN f = D /\ f = [i \in D |-> f[i]]
    BY <1>10, Zenon
  <2> QED
    BY <2>3, <2>4, Zenon
<1> QED
  BY <1>11, <1>12, <1>13, Zenon DEF ScansFrom

-----------------------------------------------------------------------------
(* A scan goes on where the scan of a prefix stopped *)

\* There is no marker from position i up to position r.
Plain(bytes, i, r) ==
    i <= r /\ r <= Len(bytes) + 1 /\ \A j \in i..(r - 1) : bytes[j] # FLAG

\* A search that starts where no marker is finds what one finds further on.
LEMMA PlainIsSkipped ==
    ASSUME NEW bytes \in Seq(Bytes), NEW i \in Nat \ {0}, NEW r \in Nat \ {0},
           Plain(bytes, i, r)
    PROVE  Find(bytes, i) = Find(bytes, r)
<1>1. CASE NoneFrom(bytes, r)
  <2>1. NoneFrom(bytes, i)
    BY <1>1 DEF NoneFrom, Plain
  <2> QED
    BY <1>1, <2>1, FindNone, Zenon
<1>2. ASSUME NEW k \in Nat, First(bytes, r, k)
      PROVE  Find(bytes, i) = Find(bytes, r)
  <2>1. First(bytes, i, k)
    BY <1>2 DEF First, Plain
  <2> QED
    BY <1>2, <2>1, FindFirst, Zenon
<1> QED
  BY <1>1, <1>2, FirstOrNone, Zenon

\* Joining frames.
LEMMA ConsFrames ==
    \A x \in Seq(Bytes), s, t \in Seq(Seq(Bytes)) :
      <<x>> \o (s \o t) = (<<x>> \o s) \o t
BY SMTT(30)

\* g is about a longer string than f: where f stopped, g goes on.
Continues(f, g, m) ==
    \A i \in 1..m : /\ g[i].frames = f[i].frames \o g[f[i].rest].frames
                    /\ g[i].rest = g[f[i].rest].rest

\* The scan of a longer buffer finds the frames of the shorter one and then
\* those from where the shorter one left off.
LEMMA ScanContinues ==
    ASSUME NEW a \in Seq(Bytes), NEW b \in Seq(Bytes),
           NEW step \in {0, 1}, NEW drops \in BOOLEAN, NEW f, NEW g,
           ScansFrom(f, a, step, drops), ScansFrom(g, a \o b, step, drops)
    PROVE  Continues(f, g, Len(a) + 1)
<1> DEFINE c == a \o b
           n == Len(a)
           m == n + 1
           goal(i) == /\ g[i].frames = f[i].frames \o g[f[i].rest].frames
                      /\ g[i].rest = g[f[i].rest].rest
           S == {i \in 1..m : goal(i)}
<1>1. /\ n \in Nat /\ m \in Nat /\ c \in Seq(Bytes) /\ Len(c) >= n
      /\ \A k \in 1..n : c[k] = a[k]
      /\ 1..m \subseteq 1..(Len(c) + 1)
      /\ \A k, e \in 1..n : SubSeq(c, k + 1, e - 1) = SubSeq(a, k + 1, e - 1)
  OBVIOUS
<1>2. /\ f \in [1..m -> Found(a)] /\ g \in [1..(Len(c) + 1) -> Found(c)]
      /\ \A i \in 1..m : f[i] = Iteration(a, i, f, step, drops)
      /\ \A i \in 1..(Len(c) + 1) : g[i] = Iteration(c, i, g, step, drops)
  BY DEF ScansFrom
<1>3. \A i \in 1..m : f[i].rest \in 1..m /\ f[i].frames \in Seq(Seq(Bytes))
  BY <1>2 DEF Found
<1>4. \A i \in 1..m : g[i].frames \in Seq(Seq(Bytes))
  BY <1>1, <1>2 DEF Found
<1> HIDE DEF c
<1>5. ASSUME NEW i \in 1..m, \A j \in (i + 1)..m : j \in S
      PROVE  i \in S
  <2>1. /\ i \in Nat \ {0} /\ i \in 1..(Len(c) + 1)
        /\ f[i] = Iteration(a, i, f, step, drops)
        /\ g[i] = Iteration(c, i, g, step, drops)
    BY <1>1, <1>2
  <2>2. ASSUME NEW j \in Nat \ {0}, NEW k, First(a, j, k)
        PROVE  First(c, j, k)
    <3>1. k \in j..n /\ a[k] = FLAG /\ \A l \in j..(k - 1) : a[l] # FLAG
      BY <2>2 DEF First
    <3>2. /\ k \in j..Len(c) /\ k \in 1..n
          /\ \A l \in j..(k - 1) : l \in 1..n
      BY <1>1, <3>1
    <3> QED
      BY <1>1, <3>1, <3>2 DEF First
  <2>3. \A x \in Seq(Seq(Bytes)) : <<>> \o x = x
    OBVIOUS
  <2>4. ASSUME NEW r \in 1..m, f[i] = Result(<<>>, r), g[i] = g[r]
        PROVE  goal(i)
    <3>1. f[i].frames = <<>> /\ f[i].rest = r
      BY <2>4 DEF Result
    <3>2. g[r].frames \in Seq(Seq(Bytes))
      BY <1>4
    <3>3. <<>> \o g[r].frames = g[r].frames
      BY <3>2, <2>3
    <3> QED
      BY <2>4, <3>1, <3>3, Zenon
  <2>5. CASE NoneFrom(a, i)
    <3>1. f[i] = Result(<<>>, IF drops THEN m ELSE i)
      BY <2>1, <2>5, IterationNone
    <3>2. CASE drops
      <4>1. f[i] = Result(<<>>, m)
        BY <3>1, <3>2, Zenon
      <4>2. /\ m \in Nat \ {0} /\ m \in 1..m
            /\ m \in 1..(Len(c) + 1) /\ Plain(c, i, m)
        BY <1>1, <2>5 DEF NoneFrom, Plain
      <4>3. Iteration(c, i, g, step, drops) = Iteration(c, m, g, step, drops)
        <5>1. Find(c, i) = Find(c, m)
          <6> HIDE DEF m
          <6> QED
            BY <1>1, <2>1, <4>2, PlainIsSkipped
        <5> QED
          BY <3>2, <5>1, Zenon DEF Iteration
      <4>4. g[m] = Iteration(c, m, g, step, drops)
        BY <1>2, <4>2
      <4>5. g[i] = g[m]
        BY <2>1, <3>2, <4>3, <4>4
      <4> QED
        BY <2>4, <4>1, <4>2, <4>5
    <3>3. CASE ~ drops
      BY <2>4, <3>1, <3>3
    <3> QED
      BY <3>2, <3>3
  <2>6. ASSUME NEW k \in i..n, One(a, i, k)
        PROVE  goal(i)
    <3>1. f[i] = Result(<<>>, k)
      BY <2>1, <2>6, IterationOpen
    <3>2. /\ First(c, i, k) /\ First(c, k, k)
          /\ k \in Nat \ {0} /\ k \in 1..m /\ k \in 1..(Len(c) + 1)
      BY <1>1, <2>1, <2>2, <2>6, SMTT(30) DEF One, First
    <3>3. Iteration(c, i, g, step, drops) = Iteration(c, k, g, step, drops)
      <4>1. Find(c, i) = k /\ Find(c, k) = k /\ k # 0
        BY <1>1, <2>1, <3>2, FindFirst
      <4> QED
        BY <4>1, Zenon DEF Iteration
    <3>4. g[i] = g[k]
      BY <1>2, <2>1, <3>2, <3>3
    <3> QED
      BY <2>4, <3>1, <3>2, <3>4
  <2>7. ASSUME NEW k \in i..n, NEW e \in i..n, Two(a, i, k, e)
        PROVE  goal(i)
    <3>1. f[i] = AfterTwo(a, f, step, k, e)
      BY <2>1, <2>7, IterationTwo
    <3>2. Two(c, i, k, e)
      <4>1. k + 1 \in Nat \ {0}
        BY <2>1
      <4> QED
        BY <2>1, <2>2, <2>7, <4>1 DEF Two
    <3>3. g[i] = AfterTwo(c, g, step, k, e)
      BY <1>1, <2>1, <3>2, IterationTwo
    <3>4. e + step \in (i + 1)..m /\ e + 1 \in (i + 1)..m /\ k \in 1..n /\ e \in 1..n
      BY <1>1, <2>1, <2>7 DEF Two, First
    <3>5. goal(e + 1) /\ goal(e + step)
      BY <1>5, <3>4
    <3>6. CASE e = k + 1
      <4>1. f[i] = f[e + 1] /\ g[i] = g[e + 1]
        BY <3>1, <3>3, <3>6, Zenon DEF AfterTwo
      <4> QED
        BY <3>5, <4>1, Zenon
    <3>7. CASE e # k + 1
      <4> DEFINE l == f[e + step]
                 h == g[e + step]
                 x == Between(a, k, e)
                 y == g[l.rest]
      <4>1. f[i] = Result(<<x>> \o l.frames, l.rest)
        BY <3>1, <3>7, Zenon DEF AfterTwo
      <4>2. Between(c, k, e) = x
        BY <1>1, <3>4 DEF Between
      <4>3. g[i] = Result(<<x>> \o h.frames, h.rest)
        BY <3>3, <3>7, <4>2, Zenon DEF AfterTwo
      <4>4. h.frames = l.frames \o y.frames /\ h.rest = y.rest
        BY <3>5
      <4>5. x \in Seq(Bytes) /\ e + step \in 1..m
        BY <2>1, <3>4, BetweenType, SMTT(30)
      <4>6. l.frames \in Seq(Seq(Bytes)) /\ l.rest \in 1..m
        BY <1>3, <4>5
      <4>7. y.frames \in Seq(Seq(Bytes))
        BY <1>4, <4>6
      <4>8. <<x>> \o (l.frames \o y.frames) = (<<x>> \o l.frames) \o y.frames
        BY <4>5, <4>6, <4>7, ConsFrames, Zenon
      <4>9. /\ f[i].frames = <<x>> \o l.frames /\ f[i].rest = l.rest
            /\ g[i].frames = <<x>> \o h.frames /\ g[i].rest = h.rest
        <5> HIDE DEF l, h, x, y
        <5> QED
          BY <4>1, <4>3, SMTT(30) DEF Result
      <4> HIDE DEF l, h, x
      <4> QED
        BY <4>4, <4>8, <4>9, Zenon
    <3> QED
      BY <3>6, <3>7
  <2> QED
    BY <2>1, <2>5, <2>6, <2>7, ThreeCases
<1>6. 1..m \subseteq S
  <2> HIDE DEF S, m
  <2> QED
    BY <1>1, <1>5, DownwardInduction
<1> QED
  BY <1>6 DEF Continues

-----------------------------------------------------------------------------
(* What is in front of a buffer plays no part in scanning the buffer *)

\* g is about a longer string than h: k bytes come first.
Moved(g, h, k, m) ==
    \A i \in 1..m, q \in Nat : q = k + i => /\ g[q].frames = h[i].frames
                                            /\ g[q].rest = k + h[i].rest

\* The scan of a string with p in front of it, from the end of p on, is that of
\* the string.
LEMMA ScanMoves ==
    ASSUME NEW p \in Seq(Bytes), NEW s \in Seq(Bytes),
           NEW step \in {0, 1}, NEW drops \in BOOLEAN, NEW g, NEW h,
           ScansFrom(g, p \o s, step, drops), ScansFrom(h, s, step, drops)
    PROVE  Moved(g, h, Len(p), Len(s) + 1)
<1> DEFINE c == p \o s
           w == Len(p)
           n == Len(s)
           m == n + 1
           goal(i, q) == g[q].frames = h[i].frames /\ g[q].rest = w + h[i].rest
           S == {i \in 1..m : \A q \in Nat : q = w + i => goal(i, q)}
<1>1. /\ n \in Nat /\ m \in Nat /\ w \in Nat /\ c \in Seq(Bytes) /\ Len(c) = w + n
      /\ \A i \in 1..n, q \in Nat : q = w + i => c[q] = s[i]
  OBVIOUS
<1>2. /\ h \in [1..m -> Found(s)]
      /\ \A i \in 1..m : h[i] = Iteration(s, i, h, step, drops)
      /\ \A i \in 1..(Len(c) + 1) : g[i] = Iteration(c, i, g, step, drops)
  BY DEF ScansFrom
<1>3. ASSUME NEW k \in 1..n, NEW e \in 1..n
      PROVE  Between(c, w + k, w + e) = Between(s, k, e)
  <2> DEFINE x == w + k + 1
             y == (w + e) - 1
             u == k + 1
             v == e - 1
  <2>1. /\ u \in Nat \ {0} /\ v \in Int /\ v <= Len(s)
        /\ x \in Int /\ y \in Int /\ x = Len(p) + u /\ y = Len(p) + v
    OBVIOUS
  <2>2. SubSeq(c, x, y) = SubSeq(s, u, v)
    <3> HIDE DEF x, y, u, v, w
    <3> QED
      BY <2>1, SubSeqOfRight, SMTT(30)
  <2> QED
    <3>1. Between(c, w + k, w + e) = Unescape(SubSeq(c, x, y))
      BY Zenon DEF Between
    <3>2. Between(s, k, e) = Unescape(SubSeq(s, u, v))
      BY Zenon DEF Between
    <3> HIDE DEF x, y, u, v, c
    <3> QED
      BY <2>2, <3>1, <3>2, Zenon
<1> HIDE DEF c
<1>4. ASSUME NEW i \in Nat \ {0}, NEW q \in Nat, q = w + i,
             NEW k \in 1..n, First(s, i, k)
      PROVE  First(c, q, w + k)
  <2>1. k \in i..n /\ s[k] = FLAG /\ \A l \in i..(k - 1) : s[l] # FLAG
    BY <1>4 DEF First
  <2>2. w + k \in q..Len(c) /\ c[w + k] = FLAG
    BY <1>1, <1>4, <2>1
  <2>3. ASSUME NEW j \in q..(w + k - 1)
        PROVE  c[j] # FLAG
    <3> DEFINE l == j - w
    <3>0. n \in Nat /\ w \in Nat /\ q = w + i
      BY <1>1, <1>4, Zenon
    <3>1. j \in Nat /\ l \in 1..n /\ j = w + l /\ l \in i..(k - 1)
      <4> HIDE DEF n, w
      <4> QED
        BY <3>0
    <3> HIDE DEF l
    <3>2. c[j] = s[l]
      BY <1>1, <3>1, Zenon
    <3> QED
      BY <2>1, <3>1, <3>2, Zenon
  <2> QED
    BY <2>2, <2>3 DEF First
<1>5. ASSUME NEW i \in Nat \ {0}, NEW q \in Nat, q = w + i, NoneFrom(s, i)
      PROVE  NoneFrom(c, q)
  <2>1. ASSUME NEW j \in q..Len(c)
        PROVE  c[j] # FLAG
    <3> DEFINE l == j - w
    <3>0. n \in Nat /\ w \in Nat /\ Len(c) = w + n /\ q = w + i
      BY <1>1, <1>5, Zenon
    <3>1. j \in Nat /\ l \in 1..n /\ j = w + l /\ l \in i..n
      <4> HIDE DEF n, w
      <4> QED
        BY <3>0
    <3> HIDE DEF l
    <3>2. c[j] = s[l]
      BY <1>1, <3>1, Zenon
    <3> QED
      BY <1>5, <3>1, <3>2, Zenon DEF NoneFrom
  <2> QED
    BY <2>1 DEF NoneFrom
<1>6. ASSUME NEW i \in 1..m, \A j \in (i + 1)..m : j \in S,
             NEW q \in Nat, q = w + i
      PROVE  goal(i, q)
  <2>1. /\ i \in Nat \ {0} /\ q \in Nat \ {0} /\ q \in 1..(Len(c) + 1)
        /\ h[i] = Iteration(s, i, h, step, drops)
        /\ g[q] = Iteration(c, q, g, step, drops)
    <3>1. q \in 1..(Len(c) + 1) /\ i \in Nat \ {0} /\ q \in Nat \ {0}
      BY <1>1, <1>6
    <3> QED
      BY <1>2, <3>1
  <2>2. ASSUME NEW x, NEW y, x = w + y, h[i] = Result(<<>>, y), g[q] = Result(<<>>, x)
        PROVE  goal(i, q)
    BY <2>2 DEF Result
  <2>3. CASE NoneFrom(s, i)
    <3>1. NoneFrom(c, q)
      BY <1>5, <1>6, <2>1, <2>3
    <3>2. /\ h[i] = Result(<<>>, IF drops THEN n + 1 ELSE i)
          /\ g[q] = Result(<<>>, IF drops THEN Len(c) + 1 ELSE q)
      <4>1. h[i] = Result(<<>>, IF drops THEN n + 1 ELSE i)
        BY <2>1, <2>3, IterationNone
      <4>2. g[q] = Result(<<>>, IF drops THEN Len(c) + 1 ELSE q)
        BY <1>1, <2>1, <3>1, IterationNone
      <4> QED
        BY <4>1, <4>2
    <3>3. (IF drops THEN Len(c) + 1 ELSE q) = w + (IF drops THEN n + 1 ELSE i)
      BY <1>1, <1>6
    <3> QED
      BY <2>2, <3>2, <3>3, Zenon
  <2>4. ASSUME NEW k \in i..n, One(s, i, k)
        PROVE  goal(i, q)
    <3>1. k \in 1..n /\ k + 1 \in Nat \ {0} /\ w + k \in Nat /\ w + k + 1 \in Nat
          /\ w + k + 1 = w + (k + 1)
      BY <1>1, <2>1
    <3>2. One(c, q, w + k)
      <4>1. First(c, q, w + k)
        BY <1>4, <1>6, <2>1, <2>4, <3>1 DEF One
      <4>2. NoneFrom(c, w + k + 1)
        BY <1>5, <2>4, <3>1 DEF One
      <4> QED
        BY <4>1, <4>2 DEF One
    <3>3. h[i] = Result(<<>>, k)
      BY <2>1, <2>4, IterationOpen
    <3>4. g[q] = Result(<<>>, w + k)
      BY <1>1, <2>1, <3>2, IterationOpen
    <3> QED
      BY <2>2, <3>3, <3>4, Zenon
  <2>5. ASSUME NEW k \in i..n, NEW e \in i..n, Two(s, i, k, e)
        PROVE  goal(i, q)
    <3>1. k \in 1..n /\ e \in 1..n /\ k + 1 \in Nat \ {0} /\ w + k \in Nat
          /\ w + k + 1 \in Nat /\ w + k + 1 = w + (k + 1)
      BY <1>1, <2>1
    <3>2. Two(c, q, w + k, w + e)
      <4>1. First(c, q, w + k)
        BY <1>4, <1>6, <2>1, <2>5, <3>1 DEF Two
      <4>2. First(c, w + k + 1, w + e)
        BY <1>4, <2>5, <3>1 DEF Two
      <4> QED
        BY <4>1, <4>2 DEF Two
    <3>3. h[i] = AfterTwo(s, h, step, k, e)
      BY <2>1, <2>5, IterationTwo
    <3>4. g[q] = AfterTwo(c, g, step, w + k, w + e)
      BY <1>1, <2>1, <3>2, IterationTwo
    <3>5. /\ e + step \in (i + 1)..m /\ e + 1 \in (i + 1)..m
          /\ w + e + step \in Nat /\ w + e + 1 \in Nat
          /\ w + e + step = w + (e + step) /\ w + e + 1 = w + (e + 1)
          /\ (w + e = w + k + 1 <=> e = k + 1)
      <4>1. e >= i + 1
        <5>1. First(s, k + 1, e)
          BY <2>5 DEF Two
        <5>2. e \in (k + 1)..Len(s)
          BY <5>1 DEF First
        <5> QED
          BY <1>1, <2>1, <5>2
      <4>2. e \in Nat /\ i \in Nat /\ e <= n /\ step \in {0, 1}
        BY <1>1, <2>1
      <4>3. e + step \in (i + 1)..m /\ e + 1 \in (i + 1)..m
        BY <1>1, <4>1, <4>2
      <4>4. /\ w + e + step \in Nat /\ w + e + 1 \in Nat
            /\ w + e + step = w + (e + step) /\ w + e + 1 = w + (e + 1)
        BY <1>1, <4>2
      <4>5. w + e = w + k + 1 <=> e = k + 1
        <5>1. w \in Nat /\ e \in Nat /\ k \in Nat
          BY <1>1, <3>1
        <5> HIDE DEF w, n, m
        <5> QED
          BY <5>1
      <4> QED
        BY <4>3, <4>4, <4>5, Zenon
    <3>6. goal(e + 1, w + e + 1) /\ goal(e + step, w + e + step)
      BY <1>6, <3>5
    <3>7. CASE e = k + 1
      <4>1. h[i] = h[e + 1] /\ g[q] = g[w + e + 1]
        BY <3>3, <3>4, <3>5, <3>7, Zenon DEF AfterTwo
      <4> QED
        BY <3>6, <4>1, Zenon
    <3>8. CASE e # k + 1
      <4> DEFINE l == h[e + step]
                 r == g[w + e + step]
                 b == Between(s, k, e)
      <4>1. h[i] = Result(<<b>> \o l.frames, l.rest)
        BY <3>3, <3>8, Zenon DEF AfterTwo
      <4>2. Between(c, w + k, w + e) = b
        BY <1>3, <3>1
      <4>3. g[q] = Result(<<b>> \o r.frames, r.rest)
        BY <3>4, <3>5, <3>8, <4>2, Zenon DEF AfterTwo
      <4>4. r.frames = l.frames /\ r.rest = w + l.rest
        BY <3>6, Zenon
      <4>5. /\ h[i].frames = <<b>> \o l.frames /\ h[i].rest = l.rest
            /\ g[q].frames = <<b>> \o r.frames /\ g[q].rest = r.rest
        <5> HIDE DEF l, r, b
        <5> QED
          BY <4>1, <4>3, SMTT(30) DEF Result
      <4> HIDE DEF l, r, b
      <4> QED
        BY <4>4, <4>5, Zenon
    <3> QED
      BY <3>7, <3>8
  <2> QED
    BY <2>1, <2>3, <2>4, <2>5, ThreeCases
<1>7. ASSUME NEW i \in 1..m, \A j \in (i + 1)..m : j \in S
      PROVE  i \in S
  BY <1>6, <1>7, Zenon
<1>8. 1..m \subseteq S
  <2> HIDE DEF S, m
  <2> QED
    BY <1>1, <1>7, DownwardInduction
<1> QED
  BY <1>8 DEF Moved

\* Scanning a buffer and a chunk after it: first the buffer, then what was left
\* of it together with the chunk.
LEMMA ScanOfConcat ==
    ASSUME NEW a \in Seq(Bytes), NEW b \in Seq(Bytes),
           NEW step \in {0, 1}, NEW drops \in BOOLEAN
    PROVE  LET first == Scan(a, step, drops)
               next == Scan(first.rest \o b, step, drops)
           IN  Scan(a \o b, step, drops) = Result(first.frames \o next.frames, next.rest)
<1> DEFINE c == a \o b
           n == Len(a)
<1>1. c \in Seq(Bytes) /\ n \in Nat /\ Len(c) = n + Len(b)
  OBVIOUS
<1>2. PICK f : /\ ScansFrom(f, a, step, drops)
               /\ Scan(a, step, drops)
                    = Result(f[1].frames, SubSeq(a, f[1].rest, Len(a)))
  BY ScanUnfolds
<1>3. PICK g : /\ ScansFrom(g, c, step, drops)
               /\ Scan(c, step, drops)
                    = Result(g[1].frames, SubSeq(c, g[1].rest, Len(c)))
  <2> HIDE DEF c
  <2> QED
    BY <1>1, ScanUnfolds
<1> DEFINE r == f[1].rest
           p == SubSeq(a, 1, r - 1)
           s == SubSeq(a, r, n)
           t == s \o b
<1>4. r \in 1..(n + 1) /\ f[1].frames \in Seq(Seq(Bytes))
  BY <1>1, <1>2 DEF ScansFrom, Found
<1> HIDE DEF r
<1>5. /\ p \in Seq(Bytes) /\ s \in Seq(Bytes) /\ t \in Seq(Bytes)
      /\ Len(p) = r - 1 /\ c = p \o t
  <2>1. p \in Seq(Bytes) /\ Len(p) = r - 1 /\ s \in Seq(Bytes)
    BY <1>1, <1>4
  <2>2. t \in Seq(Bytes)
    <3> HIDE DEF s
    <3> QED
      BY <2>1
  <2>3. c = p \o t
    BY <1>4, SplitAt
  <2> QED
    BY <2>1, <2>2, <2>3
<1>6. PICK h : /\ ScansFrom(h, t, step, drops)
               /\ Scan(t, step, drops)
                    = Result(h[1].frames, SubSeq(t, h[1].rest, Len(t)))
  <2> HIDE DEF t
  <2> QED
    BY <1>5, ScanUnfolds
<1>7. Continues(f, g, n + 1)
  BY <1>2, <1>3, ScanContinues
<1>8. Moved(g, h, Len(p), Len(t) + 1)
  <2>1. ScansFrom(g, p \o t, step, drops)
    BY <1>3, <1>5, Zenon
  <2> HIDE DEF p, t
  <2> QED
    BY <1>5, <1>6, <2>1, ScanMoves
<1>9. g[1].frames = f[1].frames \o g[r].frames /\ g[1].rest = g[r].rest
  <2>1. 1 \in 1..(n + 1)
    BY <1>1
  <2> QED
    BY <1>7, <2>1, Zenon DEF Continues, r
<1>10. g[r].frames = h[1].frames /\ g[r].rest = Len(p) + h[1].rest
  <2>1. 1 \in 1..(Len(t) + 1) /\ r \in Nat /\ r = Len(p) + 1
    <3> HIDE DEF t, p
    <3> QED
      BY <1>4, <1>5
  <2> QED
    BY <1>8, <2>1, Zenon DEF Moved
<1>11. h[1].rest \in 1..(Len(t) + 1)
  <2> HIDE DEF t
  <2> QED
    BY <1>5, <1>6 DEF ScansFrom, Found
<1>12. SubSeq(c, Len(p) + h[1].rest, Len(c)) = SubSeq(t, h[1].rest, Len(t))
  <2> DEFINE k == h[1].rest
  <2>1. k \in 1..(Len(t) + 1)
    BY <1>11
  <2>2. p \in Seq(Bytes) /\ t \in Seq(Bytes) /\ c = p \o t
    BY <1>5, Zenon
  <2> HIDE DEF k, t, p, c, s
  <2>3. SubSeq(p \o t, Len(p) + k, Len(p \o t)) = SubSeq(t, k, Len(t))
    BY <2>1, <2>2, DropLeft, Zenon
  <2> QED
    BY <2>2, <2>3, Zenon DEF k
<1>13. Scan(a, step, drops).rest = s /\ Scan(a, step, drops).frames = f[1].frames
  <2> DEFINE x == Scan(a, step, drops)
             y == f[1].frames
  <2>1. x = Result(y, s)
    BY <1>2, Zenon DEF r
  <2> HIDE DEF x, y, s
  <2>2. x.rest = s /\ x.frames = y
    BY <2>1 DEF Result
  <2> QED
    BY <2>2, Zenon DEF x, y
<1>14. /\ Scan(t, step, drops).frames = h[1].frames
       /\ Scan(t, step, drops).rest = SubSeq(t, h[1].rest, Len(t))
  <2> DEFINE x == Scan(t, step, drops)
             y == h[1].frames
             v == SubSeq(t, h[1].rest, Len(t))
  <2>1. x = Result(y, v)
    BY <1>6, Zenon
  <2> HIDE DEF x, y, v
  <2>2. x.frames = y /\ x.rest = v
    BY <2>1 DEF Result
  <2> QED
    BY <2>2, Zenon DEF x, y, v
<1> QED
  BY <1>3, <1>9, <1>10, <1>12, <1>13, <1>14, Zenon

-----------------------------------------------------------------------------
(* Three strings whose scan is known *)

\* A buffer without a marker: no frame.
LEMMA ScanPlain ==
    ASSUME NEW z \in Seq(Bytes), NoMarker(z),
           NEW step \in {0, 1}, NEW drops \in BOOLEAN
    PROVE  Scan(z, step, drops) = Result(<<>>, IF drops THEN <<>> ELSE z)
<1>1. PICK f : /\ ScansFrom(f, z, step, drops)
               /\ Scan(z, step, drops)
                    = Result(f[1].frames, SubSeq(z, f[1].rest, Len(z)))
  BY ScanUnfolds
<1>2. NoneFrom(z, 1) /\ 1 \in 1..(Len(z) + 1) /\ 1 \in Nat \ {0}
  BY DEF NoMarker, NoneFrom
<1>3. f[1] = Iteration(z, 1, f, step, drops)
  BY <1>1, <1>2, Zenon DEF ScansFrom
<1>4. f[1] = Result(<<>>, IF drops THEN Len(z) + 1 ELSE 1)
  <2> DEFINE i == 1
  <2>1. i \in Nat \ {0} /\ NoneFrom(z, i) /\ f[i] = Iteration(z, i, f, step, drops)
    BY <1>2, <1>3
  <2> HIDE DEF i
  <2>2. f[i] = Result(<<>>, IF drops THEN Len(z) + 1 ELSE i)
    BY <2>1, IterationNone
  <2> QED
    BY <2>2 DEF i
<1>5. f[1].frames = <<>> /\ f[1].rest = IF drops THEN Len(z) + 1 ELSE 1
  BY <1>4 DEF Result
<1>6. SubSeq(z, Len(z) + 1, Len(z)) = <<>> /\ SubSeq(z, 1, Len(z)) = z
  OBVIOUS
<1> QED
  BY <1>1, <1>5, <1>6, Zenon

\* A buffer with one marker: no frame, and it starts with the marker from now
\* on.
LEMMA ScanOpen ==
    ASSUME NEW z \in Seq(Bytes), NoMarker(z), NEW t \in Seq(Bytes), NoMarker(t),
           NEW step \in {0, 1}, NEW drops \in BOOLEAN
    PROVE  Scan(z \o (<<FLAG>> \o t), step, drops) = Result(<<>>, <<FLAG>> \o t)
<1> DEFINE u == <<FLAG>> \o t
           d == z \o u
           k == Len(z) + 1
<1>1. /\ u \in Seq(Bytes) /\ Len(u) = Len(t) + 1 /\ u[1] = FLAG
      /\ \A i \in 1..Len(t) : u[i + 1] = t[i]
  BY BytesDiffer
<1>2. \A i \in 2..Len(u) : u[i] # FLAG
  <2>1. ASSUME NEW i \in 2..Len(u)
        PROVE  u[i] # FLAG
    <3>1. i - 1 \in 1..Len(t) /\ (i - 1) + 1 = i
      BY <1>1
    <3>2. u[(i - 1) + 1] = t[i - 1]
      <4> HIDE DEF u
      <4> QED
        BY <1>1, <3>1
    <3> HIDE DEF u
    <3> QED
      BY <3>1, <3>2 DEF NoMarker
  <2> QED
    BY <2>1
<1>3. SubSeq(u, 1, Len(u)) = u
  <2> HIDE DEF u
  <2> QED
    BY <1>1
<1> HIDE DEF u
<1>4. /\ d \in Seq(Bytes) /\ Len(d) = Len(z) + Len(u) /\ d[k] = FLAG
      /\ \A i \in 1..Len(z) : d[i] = z[i]
      /\ \A i \in (k + 1)..Len(d) : d[i] = u[i - Len(z)] /\ i - Len(z) \in 2..Len(u)
  <2>1. d \in Seq(Bytes) /\ Len(d) = Len(z) + Len(u)
    <3>1. u \in Seq(Bytes)
      BY <1>1
    <3> QED
      BY <3>1
  <2>2. d[k] = FLAG /\ \A i \in 1..Len(z) : d[i] = z[i]
    BY <1>1
  <2>3. ASSUME NEW i \in (k + 1)..Len(d)
        PROVE  d[i] = u[i - Len(z)] /\ i - Len(z) \in 2..Len(u)
    BY <1>1, <2>1
  <2> QED
    BY <2>1, <2>2, <2>3
<1>5. PICK f : /\ ScansFrom(f, d, step, drops)
               /\ Scan(d, step, drops)
                    = Result(f[1].frames, SubSeq(d, f[1].rest, Len(d)))
  <2> HIDE DEF d
  <2> QED
    BY <1>4, ScanUnfolds
<1>6. SubSeq(d, k, Len(d)) = u
  <2>1. 1 \in 1..(Len(u) + 1)
    BY <1>1
  <2> QED
    BY <1>1, <1>3, <2>1, DropLeft, Zenon
<1>7. Len(d) \in Nat /\ k \in 1..Len(d) /\ 1 \in 1..(Len(d) + 1)
  <2> HIDE DEF d
  <2> QED
    BY <1>1, <1>4
<1> HIDE DEF d
<1>8. One(d, 1, k)
  <2>1. First(d, 1, k)
    BY <1>4, <1>7 DEF First, NoMarker
  <2>2. NoneFrom(d, k + 1)
    BY <1>2, <1>4, Zenon DEF NoneFrom
  <2> QED
    BY <2>1, <2>2 DEF One
<1>9. f[1] = Iteration(d, 1, f, step, drops)
  BY <1>5, <1>7, Zenon DEF ScansFrom
<1>10. f[1] = Result(<<>>, k)
  <2> DEFINE i == 1
  <2>1. /\ i \in Nat \ {0} /\ One(d, i, k) /\ d \in Seq(Bytes)
        /\ f[i] = Iteration(d, i, f, step, drops)
    BY <1>4, <1>8, <1>9
  <2> HIDE DEF i, k
  <2>2. f[i] = Result(<<>>, k)
    BY <2>1, IterationOpen
  <2> QED
    BY <2>2 DEF i
<1>11. f[1].frames = <<>> /\ f[1].rest = k
  BY <1>10 DEF Result
<1> QED
  BY <1>5, <1>6, <1>11, Zenon DEF d, u

\* A string between two markers: one frame.
LEMMA ScanFramed ==
    ASSUME NEW z \in Seq(Bytes), NoMarker(z), z # <<>>,
           NEW step \in {0, 1}, NEW drops \in BOOLEAN
    PROVE  Scan(<<FLAG>> \o z \o <<FLAG>>, step, drops)
             = Result(<<Unescape(z)>>, IF step = 0 THEN <<FLAG>> ELSE <<>>)
<1> DEFINE d == <<FLAG>> \o z \o <<FLAG>>
           e == Len(z) + 2
<1>1. /\ d \in Seq(Bytes) /\ Len(d) = e /\ d[1] = FLAG /\ d[e] = FLAG
      /\ \A i \in 2..(e - 1) : d[i] = z[i - 1] /\ i - 1 \in 1..Len(z)
      /\ SubSeq(d, e, e) = <<FLAG>> /\ SubSeq(d, e + 1, e) = <<>>
  <2>1. d \in Seq(Bytes) /\ Len(d) = e
    BY BytesDiffer
  <2>2. d[1] = FLAG /\ d[e] = FLAG
    BY BytesDiffer
  <2>3. ASSUME NEW i \in 2..(e - 1)
        PROVE  d[i] = z[i - 1] /\ i - 1 \in 1..Len(z)
    OBVIOUS
  <2>4. SubSeq(d, e, e) = <<FLAG>> /\ SubSeq(d, e + 1, e) = <<>>
    <3>1. e \in 1..Len(d) /\ d \in Seq(Bytes) /\ d[e] = FLAG /\ Len(d) = e
      BY <2>1, <2>2
    <3> HIDE DEF d, e
    <3>2. SubSeq(d, e, e) = <<d[e]>> /\ SubSeq(d, Len(d) + 1, Len(d)) = <<>>
      BY <3>1, SubSeqOfOne, SubSeqOfNone
    <3> QED
      BY <3>1, <3>2, Zenon
  <2> QED
    BY <2>1, <2>2, <2>3, <2>4
<1>2. SubSeq(d, 2, e - 1) = z
  OBVIOUS
<1>3. e \in Nat /\ e >= 3
  OBVIOUS
<1> HIDE DEF d
<1>4. PICK f : /\ ScansFrom(f, d, step, drops)
               /\ Scan(d, step, drops)
                    = Result(f[1].frames, SubSeq(d, f[1].rest, Len(d)))
  BY <1>1, ScanUnfolds
<1> HIDE DEF e
<1>5. Two(d, 1, 1, e)
  <2>1. First(d, 1, 1)
    BY <1>1, <1>3 DEF First
  <2>2. First(d, 1 + 1, e)
    BY <1>1, <1>3 DEF First, NoMarker
  <2> QED
    BY <2>1, <2>2 DEF Two
<1>6. /\ f[1] = Iteration(d, 1, f, step, drops)
      /\ f[e + step] = Iteration(d, e + step, f, step, drops)
  <2>1. 1 \in 1..(Len(d) + 1) /\ e + step \in 1..(Len(d) + 1)
    BY <1>1, <1>3
  <2> QED
    BY <1>4, <2>1, Zenon DEF ScansFrom
<1>7. f[1] = AfterTwo(d, f, step, 1, e)
  BY <1>1, <1>5, <1>6, IterationTwo
<1>8. Between(d, 1, e) = Unescape(z)
  <2>1. Between(d, 1, e) = Unescape(SubSeq(d, 1 + 1, e - 1))
    BY Zenon DEF Between
  <2>2. 1 + 1 = 2
    OBVIOUS
  <2> QED
    BY <1>2, <2>1, <2>2, Zenon
<1>9. f[1] = Result(<<Unescape(z)>> \o f[e + step].frames, f[e + step].rest)
  <2>1. e # 1 + 1
    BY <1>3
  <2> QED
    BY <1>7, <1>8, <2>1, Zenon DEF AfterTwo
<1>10. f[e + step] = Result(<<>>, e + step)
  <2>1. CASE step = 0
    <3>1. e + step = e
      BY <1>3, <2>1
    <3>2. One(d, e, e)
      BY <1>1, <1>3 DEF One, First, NoneFrom
    <3>3. f[e] = Iteration(d, e, f, step, drops)
      BY <1>6, <3>1, Zenon
    <3>4. f[e] = Result(<<>>, e)
      <4>1. e \in Nat \ {0}
        BY <1>3
      <4> QED
        BY <1>1, <3>2, <3>3, <4>1, IterationOpen
    <3> QED
      BY <3>1, <3>4, Zenon
  <2>2. CASE step = 1
    <3> DEFINE j == e + step
    <3>1. j \in Nat \ {0} /\ j = Len(d) + 1
      BY <1>1, <1>3, <2>2
    <3>2. NoneFrom(d, j)
      BY <1>1, <1>3, <3>1 DEF NoneFrom
    <3> HIDE DEF j
    <3>3. Iteration(d, j, f, step, drops)
            = Result(<<>>, IF drops THEN Len(d) + 1 ELSE j)
      BY <1>1, <3>1, <3>2, IterationNone
    <3>4. (IF drops THEN Len(d) + 1 ELSE j) = j
      BY <3>1, Zenon
    <3>5. Iteration(d, j, f, step, drops) = Result(<<>>, j)
      BY <3>3, <3>4, Zenon
    <3> QED
      BY <1>6, <3>5, Zenon DEF j
  <2> QED
    BY <2>1, <2>2
<1>11. <<Unescape(z)>> \o <<>> = <<Unescape(z)>>
  <2> DEFINE x == Unescape(z)
  <2>1. x \in Seq(Bytes)
    BY UnescapeType, Zenon
  <2> HIDE DEF x
  <2>2. <<x>> \o <<>> = <<x>>
    OBVIOUS
  <2> QED
    BY <2>2 DEF x
<1>12. f[1] = Result(<<Unescape(z)>>, e + step)
  <2>1. f[e + step].frames = <<>> /\ f[e + step].rest = e + step
    BY <1>10 DEF Result
  <2> QED
    BY <1>9, <1>11, <2>1, Zenon
<1>13. SubSeq(d, e + step, Len(d)) = IF step = 0 THEN <<FLAG>> ELSE <<>>
  <2>1. CASE step = 0
    <3>1. e + step = e
      BY <1>3, <2>1
    <3> QED
      BY <1>1, <2>1, <3>1, Zenon
  <2>2. CASE step = 1
    <3>1. step # 0
      BY <2>2
    <3> QED
      BY <1>1, <2>2, <3>1, Zenon
  <2>3. step = 0 \/ step = 1
    OBVIOUS
  <2> QED
    BY <2>1, <2>2, <2>3, Zenon
<1>14. f[1].frames = <<Unescape(z)>> /\ f[1].rest = e + step
  BY <1>12 DEF Result
<1> QED
  BY <1>4, <1>13, <1>14, Zenon DEF d

-----------------------------------------------------------------------------
(* One framed payload *)

\* What Frame puts together.
LEMMA FrameType ==
    ASSUME NEW p \in Seq(Bytes), p # <<>>
    PROVE  /\ Escape(p) \in Seq(Bytes) /\ NoMarker(Escape(p)) /\ Escape(p) # <<>>
           /\ Frame(p) = <<FLAG>> \o Escape(p) \o <<FLAG>>
           /\ Frame(p) = <<FLAG>> \o (Escape(p) \o <<FLAG>>)
           /\ Tail(Frame(p)) = Escape(p) \o <<FLAG>>
           /\ Frame(p) \in Seq(Bytes)
           /\ Escape(p) \o <<FLAG>> \in Seq(Bytes)
<1> DEFINE e == Escape(p)
<1>1. e \in Seq(Bytes) /\ NoMarker(e)
  BY EscapeType, EscapeHasNoMarker
<1>2. e # <<>>
  BY UnescapeOfEscape, UnescapeEmpty, Zenon
<1>3. Frame(p) = <<FLAG>> \o e \o <<FLAG>>
  BY Zenon DEF Frame
<1> HIDE DEF e
<1>4. /\ <<FLAG>> \o e \o <<FLAG>> = <<FLAG>> \o (e \o <<FLAG>>)
      /\ Tail(<<FLAG>> \o e \o <<FLAG>>) = e \o <<FLAG>>
      /\ <<FLAG>> \o e \o <<FLAG>> \in Seq(Bytes)
      /\ e \o <<FLAG>> \in Seq(Bytes)
  BY <1>1, BytesDiffer
<1> QED
  BY <1>1, <1>2, <1>3, <1>4, Zenon DEF e

\* A framed payload is found.
LEMMA ScanOfFrame ==
    ASSUME NEW p \in Seq(Bytes), p # <<>>, NEW step \in {0, 1}, NEW drops \in BOOLEAN
    PROVE  Scan(Frame(p), step, drops)
             = Result(<<p>>, IF step = 0 THEN <<FLAG>> ELSE <<>>)
<1> DEFINE e == Escape(p)
<1>1. e \in Seq(Bytes) /\ NoMarker(e) /\ e # <<>> /\ Frame(p) = <<FLAG>> \o e \o <<FLAG>>
  BY FrameType, Zenon
<1>2. Unescape(e) = p
  BY UnescapeOfEscape, Zenon
<1> HIDE DEF e
<1>3. Scan(<<FLAG>> \o e \o <<FLAG>>, step, drops)
        = Result(<<Unescape(e)>>, IF step = 0 THEN <<FLAG>> ELSE <<>>)
  BY <1>1, ScanFramed
<1> QED
  BY <1>1, <1>2, <1>3, Zenon

\* For every payload that is not empty: extract_frames gets one framed payload
\* back and keeps the end marker, feed of core/connection.py gets it back and
\* keeps nothing.
THEOREM FramedIsExtracted == CodecSpec => []OneFrameIsExtracted
<1>1. ASSUME CodecType, data # <<>>
      PROVE  /\ ExtractFrames(Frame(data)) = Result(<<data>>, <<FLAG>>)
             /\ FeedFrames(Frame(data)) = Result(<<data>>, <<>>)
  <2> DEFINE drops == FALSE
             takes == TRUE
  <2>1. data \in Seq(Bytes) /\ drops \in BOOLEAN /\ takes \in BOOLEAN
    BY <1>1 DEF CodecType
  <2>2. 0 \in {0, 1} /\ 1 \in {0, 1} /\ 1 # 0
    OBVIOUS
  <2> HIDE DEF drops, takes
  <2>3. Scan(Frame(data), 0, drops)
          = Result(<<data>>, IF 0 = 0 THEN <<FLAG>> ELSE <<>>)
    BY <1>1, <2>1, <2>2, ScanOfFrame, Zenon
  <2>4. Scan(Frame(data), 1, takes)
          = Result(<<data>>, IF 1 = 0 THEN <<FLAG>> ELSE <<>>)
    BY <1>1, <2>1, <2>2, ScanOfFrame, Zenon
  <2> QED
    BY <2>2, <2>3, <2>4, Zenon DEF drops, takes, ExtractFrames, FeedFrames
<1>2. CodecType => OneFrameIsExtracted
  BY <1>1, Zenon DEF OneFrameIsExtracted
<1> QED
  BY <1>2, CodecTypeCorrect, PTL

-----------------------------------------------------------------------------
(* One call of the receiver at the end of a link *)

StepOf(l) == IF l.receiver = "jt808" THEN 0 ELSE 1
DropsOf(l) == l.receiver # "jt808"
Receive(l, bytes) == Scan(bytes, StepOf(l), DropsOf(l))

\* The two ways of scanning.
LEMMA StepType ==
    ASSUME NEW l
    PROVE  StepOf(l) \in {0, 1} /\ DropsOf(l) \in BOOLEAN
BY DEF StepOf, DropsOf

\* One call of the receiver is one scan.
LEMMA ExtractIsReceive ==
    ASSUME NEW bytes
    PROVE  Extract(bytes) = Receive(link, bytes)
<1>1. CASE link.receiver = "jt808"
  <2>1. (link.receiver # "jt808") = FALSE
    BY <1>1
  <2> QED
    BY <1>1, <2>1, Zenon DEF Extract, Receive, StepOf, DropsOf, ExtractFrames
<1>2. CASE link.receiver # "jt808"
  <2>1. (link.receiver # "jt808") = TRUE
    BY <1>2
  <2> QED
    BY <1>2, <2>1, Zenon DEF Extract, Receive, StepOf, DropsOf, FeedFrames
<1> QED
  BY <1>1, <1>2

\* A scan gives byte strings.
LEMMA ScanType ==
    ASSUME NEW bytes \in Seq(Bytes), NEW step \in {0, 1}, NEW drops \in BOOLEAN
    PROVE  /\ Scan(bytes, step, drops).frames \in Seq(Seq(Bytes))
           /\ Scan(bytes, step, drops).rest \in Seq(Bytes)
<1> DEFINE r == Scan(bytes, step, drops)
<1>1. PICK f : /\ ScansFrom(f, bytes, step, drops)
               /\ r = Result(f[1].frames, SubSeq(bytes, f[1].rest, Len(bytes)))
  BY ScanUnfolds
<1>2. f[1] \in Found(bytes)
  BY <1>1 DEF ScansFrom
<1> HIDE DEF r
<1>3. f[1].frames \in Seq(Seq(Bytes)) /\ f[1].rest \in 1..(Len(bytes) + 1)
  BY <1>2 DEF Found
<1> DEFINE x == f[1].frames
           k == f[1].rest
           y == SubSeq(bytes, k, Len(bytes))
<1>4. y \in Seq(Bytes)
  <2>1. k \in 1..(Len(bytes) + 1)
    BY <1>3
  <2> HIDE DEF k
  <2> QED
    BY <2>1
<1> HIDE DEF x, y
<1>5. r.frames = x /\ r.rest = y
  BY <1>1 DEF Result, x, y
<1> QED
  BY <1>3, <1>4, <1>5, Zenon DEF r, x

\* The same for a receiver.
LEMMA ReceiveType ==
    ASSUME NEW l, NEW bytes \in Seq(Bytes)
    PROVE  /\ Receive(l, bytes).frames \in Seq(Seq(Bytes))
           /\ Receive(l, bytes).rest \in Seq(Bytes)
BY StepType, ScanType, Zenon DEF Receive

\* The parts of what a receiver gives.
LEMMA ReceiveFields ==
    ASSUME NEW l, NEW bytes, NEW x, NEW y, Receive(l, bytes) = Result(x, y)
    PROVE  Receive(l, bytes).frames = x /\ Receive(l, bytes).rest = y
<1> DEFINE r == Receive(l, bytes)
<1>1. r = Result(x, y)
  OBVIOUS
<1> HIDE DEF r
<1>2. r.frames = x /\ r.rest = y
  BY <1>1 DEF Result
<1> QED
  BY <1>2, Zenon DEF r

\* A receiver that was given the buffer first and then what was left of it
\* together with the chunk has found the frames of both.
LEMMA ReceiveConcat ==
    ASSUME NEW l, NEW a \in Seq(Bytes), NEW b \in Seq(Bytes)
    PROVE  /\ Receive(l, a \o b).frames
                = Receive(l, a).frames \o Receive(l, Receive(l, a).rest \o b).frames
           /\ Receive(l, a \o b).rest = Receive(l, Receive(l, a).rest \o b).rest
<1> DEFINE first == Receive(l, a)
           next == Receive(l, first.rest \o b)
           r == Receive(l, a \o b)
<1>1. r = Result(first.frames \o next.frames, next.rest)
  BY StepType, ScanOfConcat, Zenon DEF Receive
<1> HIDE DEF r
<1> DEFINE x == first.frames \o next.frames
           y == next.rest
<1>2. r = Result(x, y)
  BY <1>1
<1> HIDE DEF x, y
<1>3. r.frames = x /\ r.rest = y
  BY <1>2 DEF Result
<1> QED
  BY <1>3, Zenon DEF x, y, r

-----------------------------------------------------------------------------
(* The payloads that the checksum accepts *)

Strings == Seq(Bytes)

AcceptMap == [x \in Seq(Bytes) |-> IF x \in Payloads THEN <<x>> ELSE <<>>]

\* Each frame gives one payload or none.
LEMMA AcceptMapType == AcceptMap \in [Seq(Bytes) -> Seq(Payloads)]
<1>1. ASSUME NEW x \in Seq(Bytes)
      PROVE  (IF x \in Payloads THEN <<x>> ELSE <<>>) \in Seq(Payloads)
  OBVIOUS
<1> QED
  BY <1>1, Zenon DEF AcceptMap

\* Accepted joins what each frame gives.
LEMMA AcceptedIsFlatMap ==
    ASSUME NEW s \in Seq(Seq(Bytes))
    PROVE  Accepted(s) = FlatMap(AcceptMap, s)
<1>1. \A i \in 1..Len(s) : s[i] \in Seq(Bytes)
  OBVIOUS
<1>2. \A x \in Seq(Bytes) : AcceptMap[x] = IF x \in Payloads THEN <<x>> ELSE <<>>
  BY Zenon DEF AcceptMap
<1>3. [i \in 1..Len(s) |-> IF s[i] \in Payloads THEN <<s[i]>> ELSE <<>>]
        = [i \in 1..Len(s) |-> AcceptMap[s[i]]]
  BY <1>1, <1>2, Zenon
<1> QED
  BY <1>3, Zenon DEF Accepted, FlatMap, Concat

\* What is accepted are payloads.
LEMMA AcceptedType ==
    ASSUME NEW s \in Seq(Seq(Bytes))
    PROVE  Accepted(s) \in Seq(Payloads)
<1>1. FlatMap(AcceptMap, s) \in Seq(Payloads)
  BY AcceptMapType, FlatMapType
<1> QED
  BY <1>1, AcceptedIsFlatMap, Zenon

\* What two joined sequences of frames give is joined.
LEMMA AcceptMapConcat ==
    \A s, t \in Seq(Strings) :
      FlatMap(AcceptMap, s \o t) = FlatMap(AcceptMap, s) \o FlatMap(AcceptMap, t)
<1>1. AcceptMap \in [Strings -> Seq(Payloads)]
  BY AcceptMapType, Zenon DEF Strings
<1> QED
  BY <1>1, FlatMapConcat

\* The payloads in two sequences of frames are joined.
LEMMA AcceptedConcat ==
    ASSUME NEW s \in Seq(Seq(Bytes)), NEW t \in Seq(Seq(Bytes))
    PROVE  Accepted(s \o t) = Accepted(s) \o Accepted(t)
<1>1. FlatMap(AcceptMap, s \o t) = FlatMap(AcceptMap, s) \o FlatMap(AcceptMap, t)
  BY AcceptMapConcat, Zenon DEF Strings
<1>2. s \o t \in Seq(Seq(Bytes))
  OBVIOUS
<1> QED
  BY <1>1, <1>2, AcceptedIsFlatMap, Zenon

\* No frame, no payload.
LEMMA AcceptedEmpty == Accepted(<<>>) = <<>>
<1>1. <<>> \in Seq(Seq(Bytes))
  OBVIOUS
<1> QED
  BY <1>1, AcceptedIsFlatMap, FlatMapEmpty, Zenon

\* One frame is accepted or not.
LEMMA AcceptedOne ==
    ASSUME NEW x \in Seq(Bytes)
    PROVE  Accepted(<<x>>) = IF x \in Payloads THEN <<x>> ELSE <<>>
<1>1. <<x>> \in Seq(Seq(Bytes))
  OBVIOUS
<1>2. FlatMap(AcceptMap, <<x>>) = AcceptMap[x]
  BY AcceptMapType, FlatMapOne
<1>3. AcceptMap[x] = IF x \in Payloads THEN <<x>> ELSE <<>>
  BY Zenon DEF AcceptMap
<1> QED
  BY <1>1, <1>2, <1>3, AcceptedIsFlatMap, Zenon

\* The payloads found in a buffer and a chunk.
LEMMA FramesOfConcat ==
    ASSUME NEW l, NEW a \in Seq(Bytes), NEW b \in Seq(Bytes)
    PROVE  Accepted(Receive(l, a \o b).frames)
             = Accepted(Receive(l, a).frames)
                 \o Accepted(Receive(l, Receive(l, a).rest \o b).frames)
<1> DEFINE x == Receive(l, a).frames
           q == Receive(l, a).rest
           c == q \o b
           y == Receive(l, c).frames
<1>1. x \in Seq(Seq(Bytes)) /\ q \in Seq(Bytes)
  BY ReceiveType, Zenon
<1>2. c \in Seq(Bytes)
  <2> HIDE DEF q
  <2> QED
    BY <1>1
<1>3. y \in Seq(Seq(Bytes))
  <2> HIDE DEF c
  <2> QED
    BY <1>2, ReceiveType, Zenon
<1>4. Receive(l, a \o b).frames = x \o y
  BY ReceiveConcat, Zenon
<1> HIDE DEF x, y
<1>5. Accepted(x \o y) = Accepted(x) \o Accepted(y)
  BY <1>1, <1>3, AcceptedConcat
<1> QED
  BY <1>4, <1>5, Zenon DEF x, y, c, q

-----------------------------------------------------------------------------
(* The stream *)

StreamTypeOK ==
    /\ link \in Links
    /\ stream \in Seq(Bytes)
    /\ buf \in Seq(Bytes)
    /\ received \in Seq(Payloads)
    /\ sent \in Seq(Payloads)
    /\ read \in Seq(Bytes)
    /\ strays \in 0..MaxStrays
    /\ sharable \in BOOLEAN

\* Payloads and their frames are byte strings.
LEMMA SentType ==
    ASSUME NEW p \in Payloads
    PROVE  /\ p \in Seq(Bytes) /\ p # <<>>
           /\ Frame(p) \in Seq(Bytes) /\ Tail(Frame(p)) \in Seq(Bytes)
<1>1. p \in Seq(Bytes) /\ p # <<>>
  BY PayloadsAssumption, Zenon
<1> QED
  BY <1>1, FrameType, Zenon

\* What a chunk is, and what is left to read after it.
LEMMA ChunkType ==
    ASSUME NEW s \in Seq(Bytes), NEW n \in 1..Len(s)
    PROVE  /\ SubSeq(s, 1, n) \in Seq(Bytes)
           /\ SubSeq(s, n + 1, Len(s)) \in Seq(Bytes)
           /\ s = SubSeq(s, 1, n) \o SubSeq(s, n + 1, Len(s))
<1> DEFINE a == SubSeq(s, 1, n)
           b == SubSeq(s, n + 1, Len(s))
<1>1. a \in Seq(Bytes) /\ b \in Seq(Bytes)
  OBVIOUS
<1>2. s = a \o b
  OBVIOUS
<1> QED
  BY <1>1, <1>2, Zenon

\* Type correctness of the stream: at the start,
LEMMA StreamTypeInit == StreamInit => StreamTypeOK
<1>1. <<>> \in Seq(Bytes) /\ <<>> \in Seq(Payloads) /\ FALSE \in BOOLEAN
  OBVIOUS
<1>2. 0 \in 0..MaxStrays
  BY BoundsAssumption
<1> QED
  BY <1>1, <1>2, Zenon DEF StreamInit, StreamTypeOK

\* after a frame was written,
LEMMA StreamTypeSend ==
    ASSUME StreamTypeOK, NEW p \in Payloads, Send(p)
    PROVE  StreamTypeOK'
<1> DEFINE x == IF link.sharesMarkers /\ sharable THEN Tail(Frame(p)) ELSE Frame(p)
<1>1. x \in Seq(Bytes)
  BY SentType, Zenon
<1>2. stream' = stream \o x
  BY Zenon DEF Send
<1> HIDE DEF x
<1>3. stream' \in Seq(Bytes)
  BY <1>1, <1>2 DEF StreamTypeOK
<1>4. sent' \in Seq(Payloads)
  BY DEF Send, StreamTypeOK
<1> QED
  BY <1>3, <1>4, Zenon DEF Send, StreamTypeOK

\* after a stray byte,
LEMMA StreamTypeStray ==
    ASSUME StreamTypeOK, NEW b \in Strays, Stray(b)
    PROVE  StreamTypeOK'
<1>1. b \in Bytes
  BY StraysAssumption
<1>2. stream' \in Seq(Bytes) /\ strays' \in 0..MaxStrays
  BY <1>1, BoundsAssumption DEF Stray, StreamTypeOK
<1> QED
  BY <1>2, Zenon DEF Stray, StreamTypeOK

\* All that a chunk changes, in terms of one call of the receiver.
LEMMA ReadChunkIs ==
    ASSUME StreamTypeOK, NEW n \in 1..Len(stream), ReadChunk(n)
    PROVE  \E chunk \in Seq(Bytes) :
             /\ stream' \in Seq(Bytes)
             /\ stream = chunk \o stream'
             /\ buf' = Receive(link, buf \o chunk).rest
             /\ received' = received \o Accepted(Receive(link, buf \o chunk).frames)
             /\ read' = read \o chunk
             /\ UNCHANGED <<link, sent, strays, sharable>>
<1> DEFINE chunk == SubSeq(stream, 1, n)
<1>1. stream \in Seq(Bytes)
  BY DEF StreamTypeOK
<1>2. chunk \in Seq(Bytes) /\ stream' \in Seq(Bytes) /\ stream = chunk \o stream'
  <2>1. stream' = SubSeq(stream, n + 1, Len(stream))
    BY Zenon DEF ReadChunk
  <2> QED
    BY <1>1, <2>1, ChunkType, Zenon
<1>3. Extract(buf \o chunk) = Receive(link, buf \o chunk)
  BY ExtractIsReceive, Zenon
<1>4. /\ buf' = Extract(buf \o chunk).rest
      /\ received' = received \o Accepted(Extract(buf \o chunk).frames)
      /\ read' = read \o chunk
      /\ UNCHANGED <<link, sent, strays, sharable>>
  BY Zenon DEF ReadChunk
<1> HIDE DEF chunk
<1> QED
  BY <1>2, <1>3, <1>4, Zenon

\* after a chunk was read,
LEMMA StreamTypeRead ==
    ASSUME StreamTypeOK, NEW n \in 1..Len(stream), ReadChunk(n)
    PROVE  StreamTypeOK'
<1>1. PICK chunk \in Seq(Bytes) :
        /\ stream' \in Seq(Bytes)
        /\ stream = chunk \o stream'
        /\ buf' = Receive(link, buf \o chunk).rest
        /\ received' = received \o Accepted(Receive(link, buf \o chunk).frames)
        /\ read' = read \o chunk
        /\ UNCHANGED <<link, sent, strays, sharable>>
  BY ReadChunkIs, Zenon
<1> DEFINE c == buf \o chunk
<1>2. c \in Seq(Bytes) /\ read' \in Seq(Bytes)
  BY <1>1 DEF StreamTypeOK
<1> HIDE DEF c
<1>3. buf' \in Seq(Bytes)
  BY <1>1, <1>2, ReceiveType, Zenon DEF c
<1> DEFINE a == Accepted(Receive(link, c).frames)
<1>4. a \in Seq(Payloads)
  BY <1>2, ReceiveType, AcceptedType, Zenon
<1>5. received' = received \o a
  BY <1>1, Zenon DEF c
<1> HIDE DEF a
<1>6. received' \in Seq(Payloads)
  BY <1>4, <1>5 DEF StreamTypeOK
<1> QED
  BY <1>1, <1>2, <1>3, <1>6, Zenon DEF StreamTypeOK

\* and always.
LEMMA StreamTypeCorrect == StreamSpec => []StreamTypeOK
<1>1. StreamTypeOK /\ [StreamNext]_streamVars => StreamTypeOK'
  <2> SUFFICES ASSUME StreamTypeOK, [StreamNext]_streamVars PROVE StreamTypeOK'
    OBVIOUS
  <2>1. CASE UNCHANGED streamVars
    BY <2>1, Zenon DEF streamVars, StreamTypeOK
  <2> QED
    BY <2>1, StreamTypeSend, StreamTypeStray, StreamTypeRead, Zenon DEF StreamNext
<1> QED
  BY <1>1, StreamTypeInit, PTL DEF StreamSpec

-----------------------------------------------------------------------------
(* How the bytes are cut makes no difference *)

ReceivesAsOne ==
    /\ received = Accepted(Receive(link, read).frames)
    /\ buf = Receive(link, read).rest

\* The two ways to say it.
LEMMA ReceivesAsOneIs == ReceivesAsOne <=> ChunksDoNotMatter
BY ExtractIsReceive, Zenon DEF ReceivesAsOne, ChunksDoNotMatter

\* A receiver makes nothing of nothing.
LEMMA ReceiveEmpty ==
    ASSUME NEW l
    PROVE  Receive(l, <<>>).frames = <<>> /\ Receive(l, <<>>).rest = <<>>
<1>1. <<>> \in Seq(Bytes) /\ NoMarker(<<>>)
  BY DEF NoMarker
<1>2. Receive(l, <<>>) = Result(<<>>, IF DropsOf(l) THEN <<>> ELSE <<>>)
  BY <1>1, StepType, ScanPlain, Zenon DEF Receive
<1> QED
  BY <1>2 DEF Result

\* A chunk more makes no difference: what the receiver kept together with the
\* chunk is what one call on everything read comes to.
LEMMA ReadKeepsReceivesAsOne ==
    ASSUME StreamTypeOK, ReceivesAsOne, NEW n \in 1..Len(stream), ReadChunk(n)
    PROVE  ReceivesAsOne'
<1>1. PICK chunk \in Seq(Bytes) :
        /\ stream' \in Seq(Bytes)
        /\ stream = chunk \o stream'
        /\ buf' = Receive(link, buf \o chunk).rest
        /\ received' = received \o Accepted(Receive(link, buf \o chunk).frames)
        /\ read' = read \o chunk
        /\ UNCHANGED <<link, sent, strays, sharable>>
  BY ReadChunkIs, Zenon
<1>2. read \in Seq(Bytes)
  BY DEF StreamTypeOK
<1>3. Receive(link, read \o chunk).rest
        = Receive(link, Receive(link, read).rest \o chunk).rest
  BY <1>2, ReceiveConcat, Zenon
<1>4. Accepted(Receive(link, read \o chunk).frames)
        = Accepted(Receive(link, read).frames)
            \o Accepted(Receive(link, Receive(link, read).rest \o chunk).frames)
  BY <1>2, FramesOfConcat, Zenon
<1>5. received' = Accepted(Receive(link, read \o chunk).frames)
      /\ buf' = Receive(link, read \o chunk).rest
  BY <1>1, <1>3, <1>4, Zenon DEF ReceivesAsOne
<1>6. link' = link /\ read' = read \o chunk
  BY <1>1, Zenon
<1> QED
  BY <1>5, <1>6, Zenon DEF ReceivesAsOne, Accepted

\* Only reading changes what is received and kept.
LEMMA ReceivesAsOneCorrect == StreamSpec => []ReceivesAsOne
<1>1. StreamInit => ReceivesAsOne
  BY ReceiveEmpty, AcceptedEmpty, Zenon DEF StreamInit, ReceivesAsOne
<1>2. StreamTypeOK /\ ReceivesAsOne /\ [StreamNext]_streamVars => ReceivesAsOne'
  <2> SUFFICES ASSUME StreamTypeOK, ReceivesAsOne, [StreamNext]_streamVars
               PROVE  ReceivesAsOne'
    OBVIOUS
  <2>1. ASSUME UNCHANGED <<link, buf, received, read>>
        PROVE  ReceivesAsOne'
    BY <2>1, Zenon DEF ReceivesAsOne
  <2>2. CASE UNCHANGED streamVars
    BY <2>1, <2>2, Zenon DEF streamVars
  <2>3. ASSUME NEW p \in Payloads, Send(p) PROVE ReceivesAsOne'
    BY <2>1, <2>3, Zenon DEF Send
  <2>4. ASSUME NEW b \in Strays, Stray(b) PROVE ReceivesAsOne'
    BY <2>1, <2>4, Zenon DEF Stray
  <2> QED
    BY <2>2, <2>3, <2>4, ReadKeepsReceivesAsOne, Zenon DEF StreamNext
<1> QED
  BY <1>1, <1>2, StreamTypeCorrect, PTL DEF StreamSpec

\* However TCP cuts the bytes into chunks, what the read loop of
\* jt808/server.py and the feed of core/connection.py have handed on and what
\* they keep are those of one call on all the bytes read.  It needs nothing of
\* the peer: any bytes, any payloads, any link.
THEOREM ChunkingIsIrrelevant == StreamSpec => []ChunksDoNotMatter
BY ReceivesAsOneCorrect, ReceivesAsOneIs, PTL

-----------------------------------------------------------------------------
(* All that was written, received in one piece *)

whole == read \o stream

\* What the receiver of link l has left of everything written so far, with n
\* stray bytes among it.
Left(l, shares, n, rest) ==
    \/ l.receiver = "core" /\ rest = <<>>
    \/ /\ l.receiver = "jt808"
       /\ ~ shares
       /\ rest \in Seq(Bytes) /\ NoMarker(rest)
    \/ /\ l.receiver = "jt808"
       /\ \E z \in Seq(Strays) : /\ Len(z) <= n
                                 /\ rest = <<FLAG>> \o z
                                 /\ shares <=> z = <<>>

WholeIsSent ==
    /\ Accepted(Receive(link, whole).frames) = sent
    /\ Left(link, sharable, strays, Receive(link, whole).rest)

\* Stray bytes are bytes and no markers.
LEMMA NoiseIsPlain ==
    ASSUME Suited, NEW z \in Seq(Strays)
    PROVE  z \in Seq(Bytes) /\ NoMarker(z)
<1>1. Strays \subseteq Bytes /\ FLAG \notin Strays
  BY StraysAssumption, Zenon DEF Suited
<1>2. z \in Seq(Bytes)
  BY <1>1
<1>3. \A i \in 1..Len(z) : z[i] \in Strays
  OBVIOUS
<1> QED
  BY <1>1, <1>2, <1>3, Zenon DEF NoMarker

\* Stray bytes between two markers are no payload.
LEMMA NoiseIsNoPayload ==
    ASSUME Suited, NEW n \in 0..MaxStrays, NEW z \in Seq(Strays), Len(z) <= n
    PROVE  Unescape(z) \notin Payloads
<1>1. Len(z) \in 0..MaxStrays /\ z \in [1..Len(z) -> Strays]
  BY BoundsAssumption
<1> QED
  BY <1>1, Zenon DEF Suited

\* What each receiver makes of a frame, of a byte that is no marker, and of
\* both after the marker that ended the frame before.
LEMMA CoreReceives ==
    ASSUME NEW l, l.receiver = "core"
    PROVE  /\ \A p \in Payloads : /\ Receive(l, Frame(p)).frames = <<p>>
                                  /\ Receive(l, Frame(p)).rest = <<>>
           /\ \A z \in Seq(Bytes) :
                NoMarker(z) => /\ Receive(l, z).frames = <<>>
                               /\ Receive(l, z).rest = <<>>
<1>1. StepOf(l) = 1 /\ DropsOf(l) = TRUE /\ 1 # 0
  BY DEF StepOf, DropsOf
<1>2. ASSUME NEW p \in Payloads
      PROVE  Receive(l, Frame(p)) = Result(<<p>>, <<>>)
  <2>1. Scan(Frame(p), StepOf(l), DropsOf(l))
          = Result(<<p>>, IF StepOf(l) = 0 THEN <<FLAG>> ELSE <<>>)
    BY SentType, StepType, ScanOfFrame, Zenon
  <2> QED
    BY <1>1, <2>1, Zenon DEF Receive
<1>3. ASSUME NEW z \in Seq(Bytes), NoMarker(z)
      PROVE  Receive(l, z) = Result(<<>>, <<>>)
  <2>1. Scan(z, StepOf(l), DropsOf(l))
          = Result(<<>>, IF DropsOf(l) THEN <<>> ELSE z)
    BY <1>3, StepType, ScanPlain, Zenon
  <2> QED
    BY <1>1, <2>1, Zenon DEF Receive
<1> QED
  BY <1>2, <1>3 DEF Result

\* The same, by extract_frames of the jt808 package.
LEMMA JtReceives ==
    ASSUME NEW l, l.receiver = "jt808"
    PROVE  /\ \A p \in Payloads : /\ Receive(l, Frame(p)).frames = <<p>>
                                  /\ Receive(l, Frame(p)).rest = <<FLAG>>
           /\ \A z \in Seq(Bytes) :
                NoMarker(z) => /\ Receive(l, z).frames = <<>>
                               /\ Receive(l, z).rest = z
                               /\ Receive(l, <<FLAG>> \o z).frames = <<>>
                               /\ Receive(l, <<FLAG>> \o z).rest = <<FLAG>> \o z
                               /\ Receive(l, z \o <<FLAG>>).frames = <<>>
                               /\ Receive(l, z \o <<FLAG>>).rest = <<FLAG>>
           /\ \A z \in Seq(Bytes) :
                NoMarker(z) /\ z # <<>> =>
                  /\ Receive(l, <<FLAG>> \o z \o <<FLAG>>).frames = <<Unescape(z)>>
                  /\ Receive(l, <<FLAG>> \o z \o <<FLAG>>).rest = <<FLAG>>
<1>1. StepOf(l) = 0 /\ DropsOf(l) = FALSE
  BY DEF StepOf, DropsOf
<1>2. ASSUME NEW p \in Payloads
      PROVE  Receive(l, Frame(p)) = Result(<<p>>, <<FLAG>>)
  <2>1. Scan(Frame(p), StepOf(l), DropsOf(l))
          = Result(<<p>>, IF StepOf(l) = 0 THEN <<FLAG>> ELSE <<>>)
    BY SentType, StepType, ScanOfFrame, Zenon
  <2> QED
    BY <1>1, <2>1, Zenon DEF Receive
<1>3. ASSUME NEW z \in Seq(Bytes), NoMarker(z)
      PROVE  Receive(l, z) = Result(<<>>, z)
  <2>1. Scan(z, StepOf(l), DropsOf(l))
          = Result(<<>>, IF DropsOf(l) THEN <<>> ELSE z)
    BY <1>3, StepType, ScanPlain, Zenon
  <2> QED
    BY <1>1, <2>1, Zenon DEF Receive
<1>4. ASSUME NEW z \in Seq(Bytes), NoMarker(z), NEW t \in Seq(Bytes), NoMarker(t)
      PROVE  Receive(l, z \o (<<FLAG>> \o t)) = Result(<<>>, <<FLAG>> \o t)
  BY <1>4, StepType, ScanOpen, Zenon DEF Receive
<1>5. <<>> \in Seq(Bytes) /\ NoMarker(<<>>) /\ <<FLAG>> \o <<>> = <<FLAG>>
  BY DEF NoMarker
<1>6. ASSUME NEW z \in Seq(Bytes), NoMarker(z)
      PROVE  Receive(l, <<FLAG>> \o z) = Result(<<>>, <<FLAG>> \o z)
  <2>1. <<>> \o (<<FLAG>> \o z) = <<FLAG>> \o z
    BY BytesDiffer
  <2> QED
    BY <1>4, <1>5, <1>6, <2>1, Zenon
<1>7. ASSUME NEW z \in Seq(Bytes), NoMarker(z)
      PROVE  Receive(l, z \o <<FLAG>>) = Result(<<>>, <<FLAG>>)
  BY <1>4, <1>5, <1>7, Zenon
<1>8. ASSUME NEW z \in Seq(Bytes), NoMarker(z), z # <<>>
      PROVE  Receive(l, <<FLAG>> \o z \o <<FLAG>>) = Result(<<Unescape(z)>>, <<FLAG>>)
  <2>1. Scan(<<FLAG>> \o z \o <<FLAG>>, StepOf(l), DropsOf(l))
          = Result(<<Unescape(z)>>, IF StepOf(l) = 0 THEN <<FLAG>> ELSE <<>>)
    BY <1>8, StepType, ScanFramed, Zenon
  <2> QED
    BY <1>1, <2>1, Zenon DEF Receive
<1>9. ASSUME NEW z \in Seq(Bytes), NoMarker(z)
      PROVE  /\ Receive(l, z).frames = <<>>
             /\ Receive(l, z).rest = z
             /\ Receive(l, <<FLAG>> \o z).frames = <<>>
             /\ Receive(l, <<FLAG>> \o z).rest = <<FLAG>> \o z
             /\ Receive(l, z \o <<FLAG>>).frames = <<>>
             /\ Receive(l, z \o <<FLAG>>).rest = <<FLAG>>
  <2>1. Receive(l, z).frames = <<>> /\ Receive(l, z).rest = z
    <3> DEFINE x == <<>>
    <3>1. Receive(l, z) = Result(x, z)
      BY <1>3, <1>9, Zenon
    <3> HIDE DEF x
    <3>2. Receive(l, z).frames = x /\ Receive(l, z).rest = z
      BY <3>1, ReceiveFields
    <3> QED
      BY <3>2, Zenon DEF x
  <2>2. /\ Receive(l, <<FLAG>> \o z).frames = <<>>
        /\ Receive(l, <<FLAG>> \o z).rest = <<FLAG>> \o z
    <3> DEFINE x == <<>>
               y == <<FLAG>> \o z
    <3>1. Receive(l, y) = Result(x, y)
      BY <1>6, <1>9, Zenon
    <3> HIDE DEF x, y
    <3>2. Receive(l, y).frames = x /\ Receive(l, y).rest = y
      BY <3>1, ReceiveFields
    <3> QED
      BY <3>2, Zenon DEF x, y
  <2>3. /\ Receive(l, z \o <<FLAG>>).frames = <<>>
        /\ Receive(l, z \o <<FLAG>>).rest = <<FLAG>>
    BY <1>7, <1>9, ReceiveFields, Zenon
  <2> QED
    BY <2>1, <2>2, <2>3, Zenon
<1>10. ASSUME NEW z \in Seq(Bytes), NoMarker(z), z # <<>>
       PROVE  /\ Receive(l, <<FLAG>> \o z \o <<FLAG>>).frames = <<Unescape(z)>>
              /\ Receive(l, <<FLAG>> \o z \o <<FLAG>>).rest = <<FLAG>>
  BY <1>8, <1>10, ReceiveFields, ZenonT(60)
<1>11. ASSUME NEW p \in Payloads
       PROVE  /\ Receive(l, Frame(p)).frames = <<p>>
              /\ Receive(l, Frame(p)).rest = <<FLAG>>
  BY <1>2, ReceiveFields, ZenonT(60)
<1> QED
  BY <1>9, <1>10, <1>11, Zenon

\* The two links that are suited.
LEMMA SuitedLink ==
    ASSUME Suited, NEW l \in Links
    PROVE  \/ l.receiver = "core" /\ l.sharesMarkers = FALSE
           \/ l.receiver = "jt808" /\ l.sharesMarkers = TRUE
<1>1. l \in [receiver : {"jt808", "core"}, sharesMarkers : BOOLEAN]
  BY LinksAssumption
<1>2. l.receiver \in {"jt808", "core"} /\ l.sharesMarkers \in BOOLEAN
  BY <1>1
<1>3. l.sharesMarkers <=> l.receiver = "jt808"
  BY Zenon DEF Suited
<1> QED
  BY <1>2, <1>3

\* The frame that the stray bytes z stand before: they end up in a frame of
\* their own, which the checksum refuses.
LEMMA FrameAfterNoise ==
    ASSUME Suited, NEW l, l.receiver = "jt808", NEW n \in 0..MaxStrays,
           NEW z \in Seq(Strays), Len(z) <= n, z # <<>>, NEW p \in Payloads
    PROVE  /\ Accepted(Receive(l, (<<FLAG>> \o z) \o Frame(p)).frames) = <<p>>
           /\ Receive(l, (<<FLAG>> \o z) \o Frame(p)).rest = <<FLAG>>
<1> DEFINE a == <<FLAG>> \o z \o <<FLAG>>
           e == Escape(p) \o <<FLAG>>
           u == Unescape(z)
<1>1. z \in Seq(Bytes) /\ NoMarker(z) /\ u \notin Payloads
  BY NoiseIsPlain, NoiseIsNoPayload, Zenon
<1>2. u \in Seq(Bytes)
  BY <1>1, UnescapeType, Zenon
<1>3. /\ p \in Seq(Bytes) /\ p # <<>> /\ e \in Seq(Bytes)
      /\ Frame(p) = <<FLAG>> \o e
  BY SentType, FrameType, Zenon
<1>4. Receive(l, a).frames = <<u>> /\ Receive(l, a).rest = <<FLAG>>
  BY <1>1, JtReceives, Zenon
<1>5. Receive(l, Frame(p)).frames = <<p>> /\ Receive(l, Frame(p)).rest = <<FLAG>>
  BY JtReceives, Zenon
<1> HIDE DEF e
<1>6. a \in Seq(Bytes) /\ (<<FLAG>> \o z) \o (<<FLAG>> \o e) = a \o e
  <2> DEFINE m == <<FLAG>>
             f == m \o z
  <2>1. m \in Seq(Bytes) /\ z \in Seq(Bytes) /\ e \in Seq(Bytes)
    BY <1>1, <1>3, FlagType, Zenon
  <2> HIDE DEF m
  <2>2. f \in Seq(Bytes)
    BY <2>1, BytesConcat, Zenon
  <2> HIDE DEF f
  <2>3. f \o m \in Seq(Bytes) /\ (f \o m) \o e = f \o (m \o e)
    BY <2>1, <2>2
  <2> QED
    BY <2>3, Zenon DEF f, m
<1> HIDE DEF a
<1>7. /\ Accepted(Receive(l, a \o e).frames)
           = Accepted(<<u>>) \o Accepted(Receive(l, Frame(p)).frames)
      /\ Receive(l, a \o e).rest = <<FLAG>>
  <2>1. Receive(l, a \o e).rest = Receive(l, Receive(l, a).rest \o e).rest
    BY <1>3, <1>6, ReceiveConcat, ZenonT(60)
  <2>2. Accepted(Receive(l, a \o e).frames)
          = Accepted(Receive(l, a).frames)
              \o Accepted(Receive(l, Receive(l, a).rest \o e).frames)
    BY <1>3, <1>6, FramesOfConcat, ZenonT(60)
  <2>3. Receive(l, a).rest \o e = Frame(p)
    BY <1>3, <1>4, Zenon
  <2> QED
    BY <1>4, <1>5, <2>1, <2>2, <2>3, Zenon
<1>8. Accepted(<<u>>) = <<>> /\ Accepted(<<p>>) = <<p>>
  BY <1>1, <1>2, <1>3, AcceptedOne, Zenon
<1>9. <<>> \o <<p>> = <<p>>
  OBVIOUS
<1> QED
  BY <1>3, <1>5, <1>6, <1>7, <1>8, <1>9, Zenon

\* The bytes that Send(p) writes.
Written(l, shares, p) ==
    IF l.sharesMarkers /\ shares THEN Tail(Frame(p)) ELSE Frame(p)

\* A receiver that has everything gets a frame: its payload is found.
LEMMA LeftBySend ==
    ASSUME Suited, NEW l \in Links, NEW shares \in BOOLEAN, NEW n \in 0..MaxStrays,
           NEW rest, Left(l, shares, n, rest), NEW p \in Payloads
    PROVE  /\ Accepted(Receive(l, rest \o Written(l, shares, p)).frames) = <<p>>
           /\ Left(l, TRUE, n, Receive(l, rest \o Written(l, shares, p)).rest)
<1> DEFINE e == Escape(p) \o <<FLAG>>
           x == Written(l, shares, p)
<1>0. x = IF l.sharesMarkers /\ shares THEN Tail(Frame(p)) ELSE Frame(p)
  BY Zenon DEF Written
<1> HIDE DEF x
<1>1. /\ p \in Seq(Bytes) /\ p # <<>> /\ e \in Seq(Bytes)
      /\ Frame(p) = <<FLAG>> \o e /\ Tail(Frame(p)) = e /\ Frame(p) \in Seq(Bytes)
  BY SentType, FrameType, Zenon
<1> HIDE DEF e
<1>2. Accepted(<<p>>) = <<p>>
  BY <1>1, AcceptedOne, Zenon
<1>3. CASE l.receiver = "core"
  <2>1. rest = <<>> /\ l.sharesMarkers = FALSE
    BY <1>3, SuitedLink DEF Left
  <2>2. x = Frame(p)
    BY <1>0, <2>1, Zenon
  <2>3. rest \o x = Frame(p)
    BY <1>1, <2>1, <2>2, BytesConcat, Zenon
  <2>4. Receive(l, Frame(p)).frames = <<p>> /\ Receive(l, Frame(p)).rest = <<>>
    BY <1>3, CoreReceives, Zenon
  <2> QED
    BY <1>2, <1>3, <2>3, <2>4, Zenon DEF Left, x
<1>4. ASSUME l.receiver = "jt808",
             Accepted(Receive(l, rest \o x).frames) = <<p>>,
             Receive(l, rest \o x).rest = <<FLAG>>
      PROVE  Left(l, TRUE, n, Receive(l, rest \o x).rest)
  <2>1. /\ <<>> \in Seq(Strays) /\ Len(<<>>) <= n
        /\ <<FLAG>> = <<FLAG>> \o <<>>
    BY BytesDiffer
  <2> QED
    BY <1>4, <2>1, Zenon DEF Left
<1>5. CASE l.receiver = "jt808"
  <2>1. l.sharesMarkers = TRUE
    BY <1>5, SuitedLink
  <2>2. Receive(l, Frame(p)).frames = <<p>> /\ Receive(l, Frame(p)).rest = <<FLAG>>
    BY <1>5, JtReceives, Zenon
  <2>3. ASSUME ~ shares, rest \in Seq(Bytes), NoMarker(rest)
        PROVE  /\ Accepted(Receive(l, rest \o x).frames) = <<p>>
               /\ Receive(l, rest \o x).rest = <<FLAG>>
    <3> DEFINE a == rest \o <<FLAG>>
    <3>1. x = Frame(p)
      BY <1>0, <2>3, Zenon
    <3>2. a \in Seq(Bytes) /\ rest \o (<<FLAG>> \o e) = a \o e
      BY <1>1, <2>3, BytesDiffer, SMTT(30)
    <3>3. Receive(l, a).frames = <<>> /\ Receive(l, a).rest = <<FLAG>>
      BY <1>5, <2>3, JtReceives, Zenon
    <3> HIDE DEF a
    <3>4. /\ Accepted(Receive(l, a \o e).frames)
               = Accepted(<<>>) \o Accepted(Receive(l, Frame(p)).frames)
          /\ Receive(l, a \o e).rest = Receive(l, Frame(p)).rest
      <4> a \in Seq(Bytes) /\ e \in Seq(Bytes)
        BY <1>1, <3>2, Zenon
      <4>1. Receive(l, a \o e).rest = Receive(l, Receive(l, a).rest \o e).rest
        BY ReceiveConcat, Zenon
      <4>2. Accepted(Receive(l, a \o e).frames)
              = Accepted(Receive(l, a).frames)
                  \o Accepted(Receive(l, Receive(l, a).rest \o e).frames)
        BY FramesOfConcat, Zenon
      <4>3. Receive(l, a).rest \o e = Frame(p)
        BY <1>1, <3>3, Zenon
      <4> QED
        BY <3>3, <4>1, <4>2, <4>3, Zenon
    <3>5. <<>> \o <<p>> = <<p>>
      OBVIOUS
    <3> QED
      BY <1>1, <1>2, <2>2, <3>1, <3>2, <3>4, <3>5, AcceptedEmpty, Zenon
  <2>4. ASSUME NEW z \in Seq(Strays), Len(z) <= n, rest = <<FLAG>> \o z,
               shares <=> z = <<>>
        PROVE  /\ Accepted(Receive(l, rest \o x).frames) = <<p>>
               /\ Receive(l, rest \o x).rest = <<FLAG>>
    <3>1. CASE z = <<>>
      <4>1. x = e
        BY <1>0, <1>1, <2>1, <2>4, <3>1, Zenon
      <4>2. rest = <<FLAG>>
        BY <2>4, <3>1, FlagType, BytesConcat, Zenon
      <4> QED
        BY <1>1, <1>2, <2>2, <4>1, <4>2, Zenon
    <3>2. CASE z # <<>>
      <4>1. x = Frame(p)
        BY <1>0, <2>4, <3>2, Zenon
      <4> QED
        BY <1>5, <2>4, <3>2, <4>1, FrameAfterNoise, Zenon
    <3> QED
      BY <3>1, <3>2
  <2>5. /\ Accepted(Receive(l, rest \o x).frames) = <<p>>
        /\ Receive(l, rest \o x).rest = <<FLAG>>
    <3>1. l.receiver # "core"
      BY <1>5
    <3> QED
      BY <2>3, <2>4, <3>1, Zenon DEF Left
  <2> QED
    BY <1>4, <1>5, <2>5, Zenon DEF x
<1> QED
  BY <1>3, <1>5, Zenon DEF Left, x

\* A receiver that has everything gets a stray byte: nothing is found.
LEMMA LeftByStray ==
    ASSUME Suited, NEW l \in Links, NEW shares \in BOOLEAN, NEW n \in Nat,
           NEW rest, Left(l, shares, n, rest), NEW b \in Strays
    PROVE  /\ Accepted(Receive(l, rest \o <<b>>).frames) = <<>>
           /\ Left(l, FALSE, n + 1, Receive(l, rest \o <<b>>).rest)
<1> DEFINE y == <<b>>
<1>1. b \in Bytes /\ y \in Seq(Bytes) /\ NoMarker(y) /\ y \in Seq(Strays) /\ Len(y) = 1
  <2>1. y \in Seq(Strays) /\ Len(y) = 1 /\ b \in Bytes
    BY StraysAssumption
  <2> HIDE DEF y
  <2> QED
    BY <2>1, NoiseIsPlain, Zenon
<1> HIDE DEF y
<1>2. CASE l.receiver = "core"
  <2>1. rest = <<>>
    BY <1>2 DEF Left
  <2>2. rest \o y = y
    BY <1>1, <2>1
  <2>3. Receive(l, y).frames = <<>> /\ Receive(l, y).rest = <<>>
    BY <1>1, <1>2, CoreReceives, Zenon
  <2> QED
    BY <1>2, <2>2, <2>3, AcceptedEmpty, Zenon DEF Left, y
<1>3. ASSUME l.receiver = "jt808", rest \in Seq(Bytes), NoMarker(rest)
      PROVE  /\ Accepted(Receive(l, rest \o y).frames) = <<>>
             /\ Left(l, FALSE, n + 1, Receive(l, rest \o y).rest)
  <2> DEFINE u == rest \o y
  <2>1. u \in Seq(Bytes) /\ NoMarker(u)
    BY <1>1, <1>3, BytesConcat, NoMarkerConcat, Zenon
  <2> HIDE DEF u
  <2>2. Receive(l, u).frames = <<>> /\ Receive(l, u).rest = u
    BY <1>3, <2>1, JtReceives, Zenon
  <2> QED
    BY <1>3, <2>1, <2>2, AcceptedEmpty, Zenon DEF Left, u
<1>4. ASSUME l.receiver = "jt808",
             NEW z \in Seq(Strays), Len(z) <= n, rest = <<FLAG>> \o z
      PROVE  /\ Accepted(Receive(l, rest \o y).frames) = <<>>
             /\ Left(l, FALSE, n + 1, Receive(l, rest \o y).rest)
  <2> DEFINE u == z \o y
  <2>1. u \in Seq(Strays) /\ Len(u) <= n + 1 /\ u # <<>>
    <3>1. y \in Seq(Strays) /\ Len(y) = 1
      BY <1>1, Zenon
    <3> QED
      BY <1>4, <3>1, OneMore, Zenon
  <2>2. rest \o y = <<FLAG>> \o u
    <3>1. z \in Seq(Bytes) /\ y \in Seq(Bytes)
      BY <1>1, NoiseIsPlain, Zenon
    <3> DEFINE m == <<FLAG>>
    <3>2. m \in Seq(Bytes)
      BY FlagType, Zenon
    <3> HIDE DEF m
    <3>3. (m \o z) \o y = m \o (z \o y)
      BY <3>1, <3>2
    <3> QED
      BY <1>4, <3>3, Zenon DEF m
  <2> HIDE DEF u
  <2>3. u \in Seq(Bytes) /\ NoMarker(u)
    BY <2>1, NoiseIsPlain, Zenon
  <2>4. /\ Receive(l, <<FLAG>> \o u).frames = <<>>
        /\ Receive(l, <<FLAG>> \o u).rest = <<FLAG>> \o u
    BY <1>4, <2>3, JtReceives, Zenon
  <2> QED
    BY <1>4, <2>1, <2>2, <2>4, AcceptedEmpty, Zenon DEF Left
<1> QED
  BY <1>2, <1>3, <1>4, Zenon DEF Left, y

\* All that was written are bytes.
LEMMA WholeType ==
    ASSUME StreamTypeOK
    PROVE  whole \in Seq(Bytes)
BY BytesConcat, Zenon DEF StreamTypeOK, whole

\* Writing adds at the end of all that was written.
LEMMA WholeGrows ==
    ASSUME StreamTypeOK, NEW x \in Seq(Bytes),
           stream' = stream \o x, read' = read
    PROVE  whole' = whole \o x
<1>1. (read \o stream) \o x = read \o (stream \o x)
  <2>1. read \in Seq(Bytes) /\ stream \in Seq(Bytes)
    BY Zenon DEF StreamTypeOK
  <2> QED
    BY <2>1
<1> QED
  BY <1>1, Zenon DEF whole

\* WholeIsSent holds at the start,
LEMMA WholeIsSentInit ==
    ASSUME StreamInit
    PROVE  WholeIsSent
<1>1. whole = <<>>
  <2>1. <<>> \in Seq(Bytes)
    OBVIOUS
  <2> QED
    BY <2>1, BytesConcat, Zenon DEF StreamInit, whole
<1>2. link.receiver = "core" \/ link.receiver = "jt808"
  BY LinksAssumption DEF StreamInit
<1>3. <<>> \in Seq(Bytes) /\ NoMarker(<<>>)
  BY DEF NoMarker
<1>4. Left(link, sharable, strays, <<>>)
  BY <1>2, <1>3, Zenon DEF Left, StreamInit
<1> QED
  BY <1>1, <1>4, ReceiveEmpty, AcceptedEmpty, Zenon DEF WholeIsSent, StreamInit

\* (what is added to everything is received after it)
LEMMA WholeReceives ==
    ASSUME StreamTypeOK, WholeIsSent, NEW x \in Seq(Bytes)
    PROVE  /\ Accepted(Receive(link, whole \o x).frames)
                = sent \o Accepted(Receive(link, Receive(link, whole).rest \o x).frames)
           /\ Receive(link, whole \o x).rest
                = Receive(link, Receive(link, whole).rest \o x).rest
<1> DEFINE w == whole
<1>1. w \in Seq(Bytes)
  BY WholeType, Zenon
<1>2. Accepted(Receive(link, w).frames) = sent
  BY Zenon DEF WholeIsSent
<1> HIDE DEF w
<1>3. /\ Accepted(Receive(link, w \o x).frames)
           = Accepted(Receive(link, w).frames)
               \o Accepted(Receive(link, Receive(link, w).rest \o x).frames)
  BY <1>1, FramesOfConcat, Zenon
<1>4. Receive(link, w \o x).rest = Receive(link, Receive(link, w).rest \o x).rest
  BY <1>1, ReceiveConcat, Zenon
<1> QED
  BY <1>2, <1>3, <1>4, Zenon DEF w

\* after a frame was written,
LEMMA WholeIsSentBySend ==
    ASSUME Suited, StreamTypeOK, WholeIsSent, NEW p \in Payloads, Send(p)
    PROVE  WholeIsSent'
<1> DEFINE x == Written(link, sharable, p)
           rest == Receive(link, whole).rest
<1>1. x \in Seq(Bytes)
  BY SentType, Zenon DEF Written
<1>2. stream' = stream \o x /\ read' = read
  BY Zenon DEF Send, Written
<1>3. link \in Links /\ sharable \in BOOLEAN /\ strays \in 0..MaxStrays
  BY Zenon DEF StreamTypeOK
<1>4. Left(link, sharable, strays, rest)
  BY Zenon DEF WholeIsSent
<1> HIDE DEF rest
<1>5. /\ Accepted(Receive(link, rest \o x).frames) = <<p>>
      /\ Left(link, TRUE, strays, Receive(link, rest \o x).rest)
  BY <1>3, <1>4, LeftBySend, Zenon
<1> HIDE DEF x
<1>6. whole' = whole \o x
  BY <1>1, <1>2, WholeGrows, Zenon
<1>8. /\ Accepted(Receive(link, whole \o x).frames) = sent \o <<p>>
      /\ Receive(link, whole \o x).rest = Receive(link, rest \o x).rest
  BY <1>1, <1>5, WholeReceives, Zenon DEF rest
<1>9. sent' = sent \o <<p>>
  <2>1. sent \in Seq(Payloads) /\ sent' = Append(sent, p)
    BY Zenon DEF Send, StreamTypeOK
  <2> QED
    BY <2>1
<1>10. link' = link /\ sharable' = TRUE /\ strays' = strays
  BY Zenon DEF Send
<1>11. /\ Accepted(Receive(link, whole').frames) = sent'
       /\ Left(link', sharable', strays', Receive(link, whole').rest)
  BY <1>5, <1>6, <1>8, <1>9, <1>10, Zenon
<1> QED
  BY <1>10, <1>11, Zenon DEF WholeIsSent, Accepted, Receive

\* after a stray byte,
LEMMA WholeIsSentByStray ==
    ASSUME Suited, StreamTypeOK, WholeIsSent, NEW b \in Strays, Stray(b)
    PROVE  WholeIsSent'
<1> DEFINE x == <<b>>
           rest == Receive(link, whole).rest
<1>1. x \in Seq(Bytes)
  BY StraysAssumption
<1>2. stream' = stream \o x /\ read' = read
  <2>1. stream \in Seq(Bytes) /\ b \in Bytes /\ stream' = Append(stream, b)
    BY StraysAssumption DEF Stray, StreamTypeOK
  <2>2. Append(stream, b) = stream \o <<b>>
    BY <2>1
  <2> QED
    BY <2>1, <2>2, Zenon DEF Stray
<1>3. link \in Links /\ sharable \in BOOLEAN /\ strays \in Nat
  BY BoundsAssumption DEF StreamTypeOK
<1>4. Left(link, sharable, strays, rest)
  BY Zenon DEF WholeIsSent
<1> HIDE DEF rest
<1>5. /\ Accepted(Receive(link, rest \o x).frames) = <<>>
      /\ Left(link, FALSE, strays + 1, Receive(link, rest \o x).rest)
  BY <1>3, <1>4, LeftByStray, Zenon
<1> HIDE DEF x
<1>6. whole' = whole \o x
  BY <1>1, <1>2, WholeGrows, Zenon
<1>8. /\ Accepted(Receive(link, whole \o x).frames) = sent \o <<>>
      /\ Receive(link, whole \o x).rest = Receive(link, rest \o x).rest
  BY <1>1, <1>5, WholeReceives, Zenon DEF rest
<1>9. sent' = sent \o <<>>
  <2>1. sent \in Seq(Payloads) /\ sent' = sent
    BY Zenon DEF Stray, StreamTypeOK
  <2> QED
    BY <2>1
<1>10. link' = link /\ sharable' = FALSE /\ strays' = strays + 1
  BY Zenon DEF Stray
<1>11. /\ Accepted(Receive(link, whole').frames) = sent'
       /\ Left(link', sharable', strays', Receive(link, whole').rest)
  BY <1>5, <1>6, <1>8, <1>9, <1>10, Zenon
<1> QED
  BY <1>10, <1>11, Zenon DEF WholeIsSent, Accepted, Receive

\* (reading moves bytes and changes no more of what was written)
LEMMA WholeStaysByRead ==
    ASSUME StreamTypeOK, NEW n \in 1..Len(stream), ReadChunk(n)
    PROVE  whole' = whole /\ UNCHANGED <<link, sent, strays, sharable>>
<1>1. PICK chunk \in Seq(Bytes) :
        /\ stream' \in Seq(Bytes)
        /\ stream = chunk \o stream'
        /\ buf' = Receive(link, buf \o chunk).rest
        /\ received' = received \o Accepted(Receive(link, buf \o chunk).frames)
        /\ read' = read \o chunk
        /\ UNCHANGED <<link, sent, strays, sharable>>
  BY ReadChunkIs, Zenon
<1>2. read \in Seq(Bytes)
  BY Zenon DEF StreamTypeOK
<1>3. (read \o chunk) \o stream' = read \o (chunk \o stream')
  BY <1>1, <1>2
<1> QED
  BY <1>1, <1>3, Zenon DEF whole

\* after a chunk was read,
LEMMA WholeIsSentByRead ==
    ASSUME StreamTypeOK, WholeIsSent, NEW n \in 1..Len(stream), ReadChunk(n)
    PROVE  WholeIsSent'
BY WholeStaysByRead, Zenon DEF WholeIsSent

\* and always.
LEMMA WholeIsSentCorrect ==
    ASSUME Suited
    PROVE  StreamSpec => []WholeIsSent
<1>1. StreamInit => WholeIsSent
  BY WholeIsSentInit
<1>2. StreamTypeOK /\ WholeIsSent /\ [StreamNext]_streamVars => WholeIsSent'
  <2> SUFFICES ASSUME StreamTypeOK, WholeIsSent, [StreamNext]_streamVars
               PROVE  WholeIsSent'
    OBVIOUS
  <2>1. CASE UNCHANGED streamVars
    BY <2>1, Zenon DEF streamVars, WholeIsSent, whole
  <2> QED
    BY <2>1, WholeIsSentBySend, WholeIsSentByStray, WholeIsSentByRead, Zenon
       DEF StreamNext
<1> QED
  BY <1>1, <1>2, StreamTypeCorrect, PTL DEF StreamSpec

\* What was received is what was sent up to some frame.
LEMMA ReceivedIsPrefix ==
    ASSUME StreamTypeOK, ReceivesAsOne, WholeIsSent
    PROVE  /\ \E t \in Seq(Payloads) : sent = received \o t
           /\ stream = <<>> => received = sent
<1>1. read \in Seq(Bytes) /\ stream \in Seq(Bytes)
  BY Zenon DEF StreamTypeOK
<1> DEFINE x == Receive(link, read).rest \o stream
           t == Accepted(Receive(link, x).frames)
<1>2. Receive(link, read).rest \in Seq(Bytes)
  BY <1>1, ReceiveType, Zenon
<1>3. x \in Seq(Bytes)
  BY <1>1, <1>2, BytesConcat, Zenon
<1>4. t \in Seq(Payloads)
  <2> HIDE DEF x
  <2> QED
    BY <1>3, ReceiveType, AcceptedType, Zenon
<1>5. Accepted(Receive(link, read \o stream).frames) = received \o t
  BY <1>1, FramesOfConcat, Zenon DEF ReceivesAsOne
<1>6. sent = received \o t
  BY <1>5, Zenon DEF WholeIsSent, whole
<1>7. ASSUME stream = <<>>
      PROVE  received = sent
  <2>1. whole = read
    BY <1>1, <1>7, BytesConcat, Zenon DEF whole
  <2> QED
    BY <2>1, Zenon DEF WholeIsSent, ReceivesAsOne
<1> HIDE DEF t
<1> QED
  BY <1>4, <1>6, <1>7, Zenon

\* When all was read, all that was sent was received: for any number of
\* payloads of any length, links that are suited, and stray bytes that are no
\* markers and pass for no payload, however many and wherever they are.
THEOREM AllThatIsReadIsReceived ==
    ASSUME Suited
    PROVE  StreamSpec => []AllReadIsReceived
<1>1. StreamTypeOK /\ ReceivesAsOne /\ WholeIsSent => AllReadIsReceived
  BY ReceivedIsPrefix, Zenon DEF AllReadIsReceived
<1> QED
  BY <1>1, StreamTypeCorrect, ReceivesAsOneCorrect, WholeIsSentCorrect, PTL

\* s is u with some of its elements left out.
IsPartOf(s, u) ==
    \E kept \in SUBSET (1..Len(u)) :
        s = [i \in 1..Cardinality(kept) |->
               u[CHOOSE k \in kept : Cardinality({j \in kept : j <= k}) = i]]

\* The first part of a sequence leaves out the rest.
LEMMA PrefixIsKept ==
    ASSUME NEW T, NEW s \in Seq(T), NEW t \in Seq(T), NEW u, u = s \o t
    PROVE  IsPartOf(s, u)
<1> DEFINE n == Len(s)
           kept == 1..n
           pick(i) == CHOOSE k \in kept : Cardinality({j \in kept : j <= k}) = i
<1>1. n \in Nat
  OBVIOUS
<1>2. Cardinality(kept) = n /\ \A i \in 1..n : pick(i) = i
  BY <1>1, FirstOnes, Zenon
<1>3. kept \in SUBSET (1..Len(u))
  OBVIOUS
<1>4. s = [i \in 1..n |-> u[i]]
  OBVIOUS
<1> HIDE DEF n, pick
<1>5. s = [i \in 1..Cardinality(kept) |-> u[pick(i)]]
  BY <1>2, <1>4, Zenon
<1> QED
  BY <1>3, <1>5, Zenon DEF pick, IsPartOf

\* What the handlers get is what the peer sent, in its order and nothing twice,
\* with gaps at most (in fact with none before the last one received), under
\* the same conditions.
THEOREM NothingIsInvented ==
    ASSUME Suited
    PROVE  StreamSpec => []ReceivedWasSent
<1>1. ASSUME StreamTypeOK, ReceivesAsOne, WholeIsSent
      PROVE  ReceivedWasSent
  <2>1. PICK t \in Seq(Payloads) : sent = received \o t
    BY <1>1, ReceivedIsPrefix, Zenon
  <2>2. received \in Seq(Payloads)
    BY <1>1, Zenon DEF StreamTypeOK
  <2> QED
    <3>1. IsPartOf(received, sent)
      BY <2>1, <2>2, PrefixIsKept
    <3> QED
      BY <3>1, Zenon DEF ReceivedWasSent, IsPartOf
<1>2. StreamTypeOK /\ ReceivesAsOne /\ WholeIsSent => ReceivedWasSent
  BY <1>1
<1> QED
  BY <1>2, StreamTypeCorrect, ReceivesAsOneCorrect, WholeIsSentCorrect, PTL

-----------------------------------------------------------------------------
(* How much a buffer keeps *)

\* What a scan leaves holds a marker at its first position or nowhere.
LEMMA RestIsOpen ==
    ASSUME NEW bytes \in Seq(Bytes), NEW step \in {0, 1}, NEW drops \in BOOLEAN
    PROVE  \E k \in 1..(Len(bytes) + 1) :
             /\ Scan(bytes, step, drops).rest = SubSeq(bytes, k, Len(bytes))
             /\ NoneFrom(bytes, k + 1)
<1> DEFINE r == Scan(bytes, step, drops)
           n == Len(bytes)
           m == n + 1
<1>1. PICK f : /\ ScansFrom(f, bytes, step, drops)
               /\ r = Result(f[1].frames, SubSeq(bytes, f[1].rest, n))
  BY ScanUnfolds
<1> HIDE DEF r
<1> DEFINE S == {i \in 1..m : NoneFrom(bytes, f[i].rest + 1)}
<1>2. n \in Nat /\ m \in Nat
  OBVIOUS
<1>3. /\ \A i \in 1..m : f[i] = Iteration(bytes, i, f, step, drops)
      /\ \A i \in 1..m : f[i].rest \in 1..m
  BY <1>1 DEF ScansFrom, Found
<1>4. ASSUME NEW i \in 1..m, \A j \in (i + 1)..m : j \in S
      PROVE  i \in S
  <2>1. i \in Nat \ {0} /\ f[i] = Iteration(bytes, i, f, step, drops)
    BY <1>3
  <2>2. ASSUME NEW x, NEW y, f[i] = Result(x, y), NoneFrom(bytes, y + 1)
        PROVE  i \in S
    BY <2>2 DEF Result
  <2>3. CASE NoneFrom(bytes, i)
    <3>1. f[i] = Result(<<>>, IF drops THEN m ELSE i)
      BY <2>1, <2>3, IterationNone
    <3>2. NoneFrom(bytes, m + 1) /\ NoneFrom(bytes, i + 1)
      BY <1>2, <2>1, <2>3 DEF NoneFrom
    <3> QED
      BY <2>2, <3>1, <3>2
  <2>4. ASSUME NEW k \in i..n, One(bytes, i, k)
        PROVE  i \in S
    <3>1. f[i] = Result(<<>>, k)
      BY <2>1, <2>4, IterationOpen
    <3> QED
      BY <2>2, <2>4, <3>1, Zenon DEF One
  <2>5. ASSUME NEW k \in i..n, NEW e \in i..n, Two(bytes, i, k, e)
        PROVE  i \in S
    <3>1. f[i] = AfterTwo(bytes, f, step, k, e)
      BY <2>1, <2>5, IterationTwo
    <3>2. e + step \in (i + 1)..m /\ e + 1 \in (i + 1)..m
      BY <1>2, <2>1, <2>5 DEF Two, First
    <3>3. NoneFrom(bytes, f[e + 1].rest + 1) /\ NoneFrom(bytes, f[e + step].rest + 1)
      BY <1>4, <3>2
    <3>4. CASE e = k + 1
      BY <3>1, <3>3, <3>4, Zenon DEF AfterTwo
    <3>5. CASE e # k + 1
      <4> DEFINE x == <<Between(bytes, k, e)>> \o f[e + step].frames
                 y == f[e + step].rest
      <4>1. f[i] = Result(x, y)
        BY <3>1, <3>5, Zenon DEF AfterTwo
      <4> HIDE DEF x
      <4> QED
        BY <2>2, <3>3, <4>1
    <3> QED
      BY <3>4, <3>5
  <2> QED
    BY <2>1, <2>3, <2>4, <2>5, ThreeCases
<1>5. 1..m \subseteq S
  <2> HIDE DEF S, m
  <2> QED
    BY <1>2, <1>4, DownwardInduction
<1>6. 1 \in 1..m
  BY <1>2
<1>7. f[1].rest \in 1..m /\ NoneFrom(bytes, f[1].rest + 1)
  BY <1>3, <1>5, <1>6
<1>8. r.rest = SubSeq(bytes, f[1].rest, n)
  <2> DEFINE x == f[1].frames
             y == SubSeq(bytes, f[1].rest, n)
  <2>1. r = Result(x, y)
    BY <1>1
  <2> HIDE DEF x, y
  <2>2. r.rest = y
    BY <2>1 DEF Result
  <2> QED
    BY <2>2, Zenon DEF y
<1> QED
  BY <1>7, <1>8, Zenon DEF r

\* From position i to position j of w there is no marker.
Gap(w, i, j) == i <= j /\ \A k \in i..j : w[k] # FLAG

\* No gap of w is longer than what is between the markers of one frame and n
\* stray bytes; at the end of w there are at most n bytes after a marker.
GapsAreShort(w, n) ==
    \A i, j \in 1..Len(w) :
        Gap(w, i, j) => \E p \in Payloads : (j - i) + 1 <= Len(Escape(p)) + n
EndIsShort(w, n) == \A i \in 1..Len(w) : Gap(w, i, Len(w)) => (Len(w) - i) + 1 <= n
EndIsMarker(w) == w # <<>> /\ w[Len(w)] = FLAG

GapInv ==
    /\ GapsAreShort(whole, strays)
    /\ EndIsShort(whole, strays)
    /\ sharable => EndIsMarker(whole)

\* Lengths are natural numbers.
LEMMA EscapedLength ==
    ASSUME NEW p \in Payloads
    PROVE  Len(Escape(p)) \in Nat
<1>1. Escape(p) \in Seq(Bytes)
  BY SentType, FrameType, Zenon
<1> QED
  BY <1>1

\* A stray byte makes the end of what was written one longer.
LEMMA GapsByStray ==
    ASSUME Payloads # {}, NEW w \in Seq(Bytes), NEW n \in Nat, NEW b \in Bytes,
           GapsAreShort(w, n), EndIsShort(w, n)
    PROVE  GapsAreShort(w \o <<b>>, n + 1) /\ EndIsShort(w \o <<b>>, n + 1)
<1> DEFINE v == w \o <<b>>
           m == Len(w)
<1>1. /\ m \in Nat /\ Len(v) = m + 1
      /\ \A k \in 1..m : v[k] = w[k]
  OBVIOUS
<1> HIDE DEF v, m
<1>2. ASSUME NEW i \in 1..(m + 1), Gap(v, i, m + 1)
      PROVE  ((m + 1) - i) + 1 <= n + 1
  <2>1. CASE i = m + 1
    BY <1>1, <2>1
  <2>2. CASE i # m + 1
    <3>1. i \in 1..m
      BY <1>1, <2>2
    <3>2. Gap(w, i, m)
      BY <1>1, <1>2, <3>1 DEF Gap
    <3>3. (m - i) + 1 <= n
      BY <3>1, <3>2, Zenon DEF EndIsShort, m
    <3> QED
      BY <1>1, <3>1, <3>3
  <2> QED
    BY <2>1, <2>2
<1>3. EndIsShort(v, n + 1)
  BY <1>1, <1>2 DEF EndIsShort
<1>4. ASSUME NEW i \in 1..(m + 1), NEW j \in 1..(m + 1), Gap(v, i, j)
      PROVE  \E p \in Payloads : (j - i) + 1 <= Len(Escape(p)) + (n + 1)
  <2>1. CASE j = m + 1
    <3>1. PICK p \in Payloads : TRUE
      OBVIOUS
    <3>2. Len(Escape(p)) \in Nat
      BY EscapedLength
    <3>3. (j - i) + 1 <= n + 1
      BY <1>2, <1>4, <2>1
    <3>4. (j - i) + 1 <= Len(Escape(p)) + (n + 1)
      BY <1>1, <3>2, <3>3
    <3> QED
      BY <3>4
  <2>2. CASE j # m + 1
    <3>1. i \in 1..m /\ j \in 1..m
      BY <1>1, <1>4, <2>2 DEF Gap
    <3>2. Gap(w, i, j)
      BY <1>1, <1>4, <3>1 DEF Gap
    <3>3. PICK p \in Payloads : (j - i) + 1 <= Len(Escape(p)) + n
      BY <3>1, <3>2, Zenon DEF GapsAreShort, m
    <3>4. Len(Escape(p)) \in Nat
      BY EscapedLength
    <3>5. (j - i) + 1 <= Len(Escape(p)) + (n + 1)
      BY <1>1, <3>1, <3>3, <3>4
    <3> QED
      BY <3>5
  <2> QED
    BY <2>1, <2>2
<1>5. GapsAreShort(v, n + 1)
  BY <1>1, <1>4 DEF GapsAreShort
<1> QED
  BY <1>3, <1>5, Zenon DEF v

\* x ends in the marker of a frame, and starts with one or comes after one.
LEMMA GapsByFrame ==
    ASSUME NEW w \in Seq(Bytes), NEW n \in Nat, NEW p \in Payloads,
           NEW x \in Seq(Bytes),
           GapsAreShort(w, n),
           \/ x = Frame(p)
           \/ x = Tail(Frame(p)) /\ EndIsMarker(w)
    PROVE  /\ GapsAreShort(w \o x, n) /\ EndIsShort(w \o x, n)
           /\ EndIsMarker(w \o x)
<1> DEFINE v == w \o x
           m == Len(w)
           l == Len(x)
           d == Len(Escape(p))
<1>1. d \in Nat
  BY EscapedLength
<1>2. /\ l >= 1 /\ x[l] = FLAG
      /\ \/ l = d + 2 /\ x[1] = FLAG
         \/ l = d + 1 /\ EndIsMarker(w)
  <2> DEFINE e == Escape(p)
  <2>1. /\ e \in Seq(Bytes) /\ Frame(p) = <<FLAG>> \o e \o <<FLAG>>
        /\ Tail(Frame(p)) = e \o <<FLAG>>
    BY SentType, FrameType, Zenon
  <2> HIDE DEF e
  <2>2. CASE x = Frame(p)
    <3>1. x = <<FLAG>> \o e \o <<FLAG>>
      BY <2>1, <2>2, Zenon
    <3>2. Len(<<FLAG>> \o e \o <<FLAG>>) = Len(e) + 2
          /\ (<<FLAG>> \o e \o <<FLAG>>)[1] = FLAG
          /\ (<<FLAG>> \o e \o <<FLAG>>)[Len(e) + 2] = FLAG
      BY <2>1
    <3> QED
      BY <1>1, <3>1, <3>2 DEF e
  <2>3. CASE x = Tail(Frame(p)) /\ EndIsMarker(w)
    <3>1. x = e \o <<FLAG>>
      BY <2>1, <2>3, Zenon
    <3>2. Len(e \o <<FLAG>>) = Len(e) + 1 /\ (e \o <<FLAG>>)[Len(e) + 1] = FLAG
      BY <2>1
    <3>3. l = d + 1 /\ x[d + 1] = FLAG
      BY <3>1, <3>2, Zenon DEF e
    <3> HIDE DEF l, d
    <3>4. l >= 1 /\ x[l] = FLAG
      BY <1>1, <3>3
    <3> QED
      BY <2>3, <3>3, <3>4, Zenon
  <2> QED
    BY <2>2, <2>3
<1>3. /\ m \in Nat /\ l \in Nat /\ Len(v) = m + l /\ v \in Seq(Bytes)
      /\ \A k \in 1..m : v[k] = w[k]
      /\ \A k \in 1..l, q \in Nat : q = m + k => v[q] = x[k]
  OBVIOUS
<1>4. EndIsMarker(w) => m >= 1 /\ w[m] = FLAG
  BY DEF EndIsMarker
<1> HIDE DEF v, m, l, d
<1>5. v[m + l] = FLAG
  <2>1. l \in 1..l /\ m + l \in Nat
    BY <1>2, <1>3
  <2> QED
    BY <1>2, <1>3, <2>1
<1>6. EndIsMarker(v)
  BY <1>2, <1>3, <1>5 DEF EndIsMarker
<1>7. EndIsShort(v, n)
  BY <1>2, <1>3, <1>5 DEF EndIsShort, Gap
<1>8. ASSUME NEW i \in 1..(m + l), NEW j \in 1..(m + l), Gap(v, i, j)
      PROVE  \E q \in Payloads : (j - i) + 1 <= Len(Escape(q)) + n
  <2>1. CASE j <= m
    <3>1. i \in 1..m /\ j \in 1..m
      BY <1>3, <1>8, <2>1 DEF Gap
    <3>2. Gap(w, i, j)
      BY <1>3, <1>8, <3>1 DEF Gap
    <3> QED
      BY <3>1, <3>2, Zenon DEF GapsAreShort, m
  <2>2. CASE j > m
    <3>1. j < m + l
      BY <1>3, <1>5, <1>8 DEF Gap
    <3>2. CASE l = d + 2 /\ x[1] = FLAG
      <4>1. v[m + 1] = FLAG
        <5>1. 1 \in 1..l /\ m + 1 \in Nat
          BY <1>2, <1>3
        <5> QED
          BY <1>3, <3>2, <5>1
      <4>2. i > m + 1
        BY <1>3, <1>8, <2>2, <4>1 DEF Gap
      <4> QED
        BY <1>1, <1>3, <3>1, <3>2, <4>2 DEF d
    <3>3. CASE l = d + 1 /\ EndIsMarker(w)
      <4>1. m \in 1..m /\ v[m] = FLAG
        BY <1>3, <1>4, <3>3
      <4>2. i > m
        BY <1>3, <1>8, <2>2, <4>1 DEF Gap
      <4> QED
        BY <1>1, <1>3, <3>1, <3>3, <4>2 DEF d
    <3> QED
      BY <1>2, <3>2, <3>3
  <2> QED
    BY <1>3, <2>1, <2>2
<1>9. GapsAreShort(v, n)
  BY <1>3, <1>8 DEF GapsAreShort
<1> QED
  BY <1>6, <1>7, <1>9, Zenon DEF v

\* A frame keeps the gaps short,
LEMMA GapInvBySend ==
    ASSUME StreamTypeOK, GapInv, NEW p \in Payloads, Send(p)
    PROVE  GapInv'
<1> DEFINE x == Written(link, sharable, p)
           w == whole
<1>1. x \in Seq(Bytes)
  BY SentType, Zenon DEF Written
<1>2. stream' = stream \o x /\ read' = read /\ strays' = strays
  BY Zenon DEF Send, Written
<1>3. x = Frame(p) \/ (x = Tail(Frame(p)) /\ sharable)
  BY Zenon DEF Written
<1> HIDE DEF x
<1>4. whole' = w \o x
  BY <1>1, <1>2, WholeGrows, Zenon
<1>5. w \in Seq(Bytes) /\ strays \in Nat
  <2>1. strays \in Nat
    BY BoundsAssumption DEF StreamTypeOK
  <2> QED
    BY <2>1, WholeType, Zenon
<1>6. /\ GapsAreShort(w, strays)
      /\ sharable => EndIsMarker(w)
  BY Zenon DEF GapInv
<1> HIDE DEF w
<1>7. /\ GapsAreShort(w \o x, strays) /\ EndIsShort(w \o x, strays)
      /\ EndIsMarker(w \o x)
  BY <1>1, <1>3, <1>5, <1>6, GapsByFrame, Zenon
<1>8. /\ GapsAreShort(whole', strays') /\ EndIsShort(whole', strays')
      /\ EndIsMarker(whole')
  BY <1>2, <1>4, <1>7, Zenon
<1> QED
  BY <1>8, Zenon DEF GapInv, GapsAreShort, EndIsShort, EndIsMarker

\* a stray byte does,
LEMMA GapInvByStray ==
    ASSUME Payloads # {}, StreamTypeOK, GapInv, NEW b \in Strays, Stray(b)
    PROVE  GapInv'
<1> DEFINE x == <<b>>
           w == whole
<1>1. b \in Bytes /\ x \in Seq(Bytes)
  BY StraysAssumption
<1>2. stream' = stream \o x /\ read' = read /\ strays' = strays + 1 /\ sharable' = FALSE
  <2>1. stream \in Seq(Bytes) /\ stream' = Append(stream, b)
    BY Zenon DEF Stray, StreamTypeOK
  <2>2. Append(stream, b) = stream \o <<b>>
    BY <1>1, <2>1
  <2> QED
    BY <2>1, <2>2, Zenon DEF Stray
<1> HIDE DEF x
<1>3. whole' = w \o x
  BY <1>1, <1>2, WholeGrows, Zenon
<1>4. w \in Seq(Bytes) /\ strays \in Nat
  <2>1. strays \in Nat
    BY BoundsAssumption DEF StreamTypeOK
  <2> QED
    BY <2>1, WholeType, Zenon
<1>5. GapsAreShort(w, strays) /\ EndIsShort(w, strays)
  BY Zenon DEF GapInv
<1> HIDE DEF w
<1>6. GapsAreShort(w \o x, strays + 1) /\ EndIsShort(w \o x, strays + 1)
  BY <1>1, <1>4, <1>5, GapsByStray, Zenon DEF x
<1>7. GapsAreShort(whole', strays') /\ EndIsShort(whole', strays') /\ ~ sharable'
  BY <1>2, <1>3, <1>6, Zenon
<1> QED
  BY <1>7, Zenon DEF GapInv, GapsAreShort, EndIsShort

\* and so they always are.
LEMMA GapInvCorrect ==
    ASSUME Payloads # {}
    PROVE  StreamSpec => []GapInv
<1>1. StreamInit => GapInv
  <2> SUFFICES ASSUME StreamInit PROVE GapInv
    OBVIOUS
  <2>1. whole = <<>>
    <3>1. <<>> \in Seq(Bytes)
      OBVIOUS
    <3> QED
      BY <3>1, BytesConcat, Zenon DEF StreamInit, whole
  <2>2. GapsAreShort(<<>>, strays) /\ EndIsShort(<<>>, strays)
    BY DEF GapsAreShort, EndIsShort
  <2> QED
    BY <2>1, <2>2, Zenon DEF GapInv, StreamInit
<1>2. StreamTypeOK /\ GapInv /\ [StreamNext]_streamVars => GapInv'
  <2> SUFFICES ASSUME StreamTypeOK, GapInv, [StreamNext]_streamVars
               PROVE  GapInv'
    OBVIOUS
  <2>1. ASSUME whole' = whole, UNCHANGED <<strays, sharable>>
        PROVE  GapInv'
    BY <2>1, Zenon DEF GapInv, GapsAreShort, EndIsShort, EndIsMarker
  <2>2. CASE UNCHANGED streamVars
    BY <2>1, <2>2, Zenon DEF streamVars, whole
  <2>3. ASSUME NEW n \in 1..Len(stream), ReadChunk(n)
        PROVE  GapInv'
    BY <2>1, <2>3, WholeStaysByRead, Zenon
  <2> QED
    BY <2>2, <2>3, GapInvBySend, GapInvByStray, Zenon DEF StreamNext
<1> QED
  BY <1>1, <1>2, StreamTypeCorrect, PTL DEF StreamSpec

\* However many frames go through it, what extract_frames and feed leave in the
\* buffer is shorter than a frame and the stray bytes so far.  It needs a
\* payload to compare with, and nothing of the link or of the stray bytes.
THEOREM BufferStaysSmall ==
    ASSUME Payloads # {}
    PROVE  StreamSpec => []BufferIsBounded
<1>1. ASSUME StreamTypeOK, ReceivesAsOne, GapInv
      PROVE  BufferIsBounded
  <2> DEFINE n == Len(read)
             w == whole
  <2>1. /\ read \in Seq(Bytes) /\ stream \in Seq(Bytes) /\ n \in Nat
        /\ strays \in Nat
    BY <1>1, BoundsAssumption DEF StreamTypeOK
  <2>2. /\ Len(w) >= n
        /\ \A k \in 1..n : w[k] = read[k]
    BY <2>1 DEF whole
  <2>3. PICK k \in 1..(n + 1) : buf = SubSeq(read, k, n) /\ NoneFrom(read, k + 1)
    BY <1>1, <2>1, StepType, RestIsOpen, Zenon DEF ReceivesAsOne, Receive
  <2>4. Len(buf) = (n - k) + 1
    BY <2>1, <2>3
  <2>5. GapsAreShort(w, strays)
    BY <1>1, Zenon DEF GapInv
  <2> HIDE DEF w
  <2>6. \A p \in Payloads : /\ Len(Escape(p)) \in Nat
                            /\ Len(Frame(p)) = Len(Escape(p)) + 2
    <3>1. ASSUME NEW p \in Payloads
          PROVE  /\ Len(Escape(p)) \in Nat
                 /\ Len(Frame(p)) = Len(Escape(p)) + 2
      <4> DEFINE e == Escape(p)
      <4>1. e \in Seq(Bytes) /\ Frame(p) = <<FLAG>> \o e \o <<FLAG>>
        BY SentType, FrameType, Zenon
      <4> HIDE DEF e
      <4>2. Len(<<FLAG>> \o e \o <<FLAG>>) = Len(e) + 2 /\ Len(e) \in Nat
        BY <4>1
      <4> QED
        BY <4>1, <4>2, Zenon DEF e
    <3> QED
      BY <3>1
  <2>7. CASE k + 1 <= n
    <3>1. w \in Seq(Bytes) /\ Gap(w, k + 1, n) /\ k + 1 \in 1..Len(w) /\ n \in 1..Len(w)
      <4>1. Gap(w, k + 1, n)
        BY <2>1, <2>2, <2>3, <2>7 DEF Gap, NoneFrom
      <4>2. w \in Seq(Bytes)
        BY <1>1, WholeType, Zenon DEF w
      <4>3. Len(w) \in Nat
        BY <4>2
      <4> QED
        BY <2>1, <2>2, <2>7, <4>1, <4>2, <4>3
    <3>2. PICK p \in Payloads : (n - (k + 1)) + 1 <= Len(Escape(p)) + strays
      BY <2>5, <3>1, Zenon DEF GapsAreShort
    <3>3. Len(buf) < Len(Frame(p)) + strays
      BY <2>1, <2>4, <2>6, <3>2
    <3> QED
      BY <3>3, Zenon DEF BufferIsBounded
  <2>8. CASE ~ (k + 1 <= n)
    <3>1. PICK p \in Payloads : TRUE
      OBVIOUS
    <3>2. Len(buf) < Len(Frame(p)) + strays
      BY <2>1, <2>4, <2>6, <2>8
    <3> QED
      BY <3>2, Zenon DEF BufferIsBounded
  <2> QED
    BY <2>7, <2>8
<1>2. StreamTypeOK /\ ReceivesAsOne /\ GapInv => BufferIsBounded
  BY <1>1
<1> QED
  BY <1>2, StreamTypeCorrect, ReceivesAsOneCorrect, GapInvCorrect, PTL

=============================================================================
