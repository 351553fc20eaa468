---------------------------- MODULE PayloadProofs ----------------------------
(***************************************************************************)
(* Proofs about the payloads of Messages: bodies of any length, any phone  *)
(* number of at most twelve digits, any registration whose texts fit.  A   *)
(* payload is six sequences laid one after the other; the proofs find each *)
(* of them where a parser looks for it, and the properties follow from     *)
(* there for every size that MCMessages can reach, which is any natural    *)
(* number.  Parameters are read by a loop whose equations say what it      *)
(* stores from a position on; that each of them is stored follows by       *)
(* induction on how many there are, for parameters of any id and value and *)
(* answers that are cut anywhere.                                          *)
(***************************************************************************)
EXTENDS MCMessages, SequenceFacts

-----------------------------------------------------------------------------
(* Sequences, and the layout of a message *)

\* A message: four fields of fixed lengths, a body and a checksum.
Laid(a, b, p, s, body, c) == Append(a \o b \o p \o s \o body, c)

\* Where the fields are found.
Readable(payload, a, b, p, s, body, c, T) ==
    /\ payload \in Seq(T)
    /\ Len(payload) = 13 + Len(body)
    /\ payload[1] = a[1] /\ payload[2] = a[2]
    /\ payload[3] = b[1] /\ payload[4] = b[2]
    /\ payload[11] = s[1] /\ payload[12] = s[2]
    /\ SubSeq(payload, 5, 10) = p
    /\ \A i \in 1..Len(body), k \in Nat : k = 12 + i => payload[k] = body[i]
    /\ Front(payload) = a \o b \o p \o s \o body
    /\ Last(payload) = c

LEMMA LaidOut ==
    ASSUME NEW T, NEW a \in Seq(T), NEW b \in Seq(T), NEW p \in Seq(T),
           NEW s \in Seq(T), NEW body \in Seq(T), NEW c \in T,
           Len(a) = 2, Len(b) = 2, Len(p) = 6, Len(s) = 2
    PROVE  Readable(Laid(a, b, p, s, body, c), a, b, p, s, body, c, T)
<1> DEFINE x == a \o b
           y == x \o p
           z == y \o s
           w == z \o body
           payload == Append(w, c)
           n == Len(body)
<1>1. /\ x \in Seq(T) /\ Len(x) = 4
      /\ x[1] = a[1] /\ x[2] = a[2] /\ x[3] = b[1] /\ x[4] = b[2]
  <2>1. Joined(x, a, b, T)
    BY JoinedElements, Zenon
  <2> HIDE DEF x
  <2> QED
    BY <2>1 DEF Joined
<1> HIDE DEF x
<1>2. /\ y \in Seq(T) /\ Len(y) = 10 /\ \A i \in 1..4 : y[i] = x[i]
      /\ \A i \in 1..6, k \in Nat : k = 4 + i => y[k] = p[i]
  <2>1. Joined(y, x, p, T)
    BY <1>1, JoinedElements, Zenon
  <2> HIDE DEF y
  <2> QED
    BY <1>1, <2>1 DEF Joined
<1> HIDE DEF y
<1>3. /\ z \in Seq(T) /\ Len(z) = 12 /\ \A i \in 1..10 : z[i] = y[i]
      /\ z[11] = s[1] /\ z[12] = s[2]
  <2>1. Joined(z, y, s, T)
    BY <1>2, JoinedElements, Zenon
  <2> HIDE DEF z
  <2> QED
    BY <1>2, <2>1 DEF Joined
<1> HIDE DEF z
<1>4. /\ w \in Seq(T) /\ Len(w) = 12 + n /\ n \in Nat
      /\ \A i \in 1..12 : w[i] = z[i]
      /\ \A i \in 1..n, k \in Nat : k = 12 + i => w[k] = body[i]
  <2>1. Joined(w, z, body, T)
    BY <1>3, JoinedElements, Zenon
  <2> HIDE DEF w
  <2> QED
    BY <1>3, <2>1 DEF Joined
<1> HIDE DEF w
<1> HIDE DEF n
<1>5. /\ payload \in Seq(T) /\ Len(payload) = 13 + n
      /\ \A i \in 1..(12 + n) : payload[i] = w[i]
      /\ payload[13 + n] = c
  BY <1>4
<1> HIDE DEF payload
<1>6. \A i \in 1..12 : payload[i] = z[i]
  BY <1>4, <1>5, SMTT(30)
<1>7. \A i \in 1..n, k \in Nat : k = 12 + i => payload[k] = body[i]
  BY <1>4, <1>5, SMTT(30)
<1>8. SubSeq(payload, 5, 10) = p
  <2> DEFINE q == SubSeq(payload, 5, 10)
  <2>1. q \in Seq(T) /\ Len(q) = 6 /\ \A i \in 1..6 : q[i] = payload[4 + i]
    BY <1>4, <1>5, SMTT(30)
  <2>2. \A i \in 1..6 : payload[4 + i] = p[i]
    BY <1>2, <1>3, <1>6, SMTT(30)
  <2> HIDE DEF q
  <2>3. Len(q) = Len(p) /\ \A i \in 1..Len(q) : q[i] = p[i]
    BY <2>1, <2>2
  <2>4. q \in Seq(T)
    BY <2>1, Zenon
  <2>5. q = p
    BY <2>3, <2>4, SameElements, Zenon
  <2> QED
    BY <2>5, Zenon DEF q
<1>9. Front(payload) = w
  <2> DEFINE q == SubSeq(payload, 1, 12 + n)
  <2>1. q \in Seq(T) /\ Len(q) = 12 + n /\ \A i \in 1..(12 + n) : q[i] = payload[i]
    BY <1>4, <1>5, SMTT(30)
  <2>2. Front(payload) = q
    BY <1>4, <1>5 DEF Front
  <2> HIDE DEF q
  <2>3. q = w
    BY <1>4, <1>5, <2>1, SameElements, SMTT(30)
  <2> QED
    BY <2>2, <2>3
<1>10. Last(payload) = c
  BY <1>5 DEF Last
<1>11. payload = Laid(a, b, p, s, body, c)
  BY DEF payload, w, z, y, x, Laid
<1>12. w = a \o b \o p \o s \o body
  BY DEF w, z, y, x
<1>13. /\ payload[1] = a[1] /\ payload[2] = a[2]
       /\ payload[3] = b[1] /\ payload[4] = b[2]
       /\ payload[11] = s[1] /\ payload[12] = s[2]
  BY <1>1, <1>2, <1>3, <1>6
<1> QED
  BY <1>5, <1>7, <1>8, <1>9, <1>10, <1>11, <1>12, <1>13, Zenon DEF n, Readable

\* A part of a sequence: u is the m elements after the first o.
Part(u, s, o, m, T) ==
    /\ u \in Seq(T)
    /\ Len(u) = m
    /\ \A i \in 1..m : u[i] = s[o + i]

LEMMA PartOf ==
    ASSUME NEW T, NEW s \in Seq(T), NEW o \in Nat, NEW m \in Nat, o + m <= Len(s)
    PROVE  Part(SubSeq(s, o + 1, o + m), s, o, m, T)
BY DEF Part

\* Two equal parts.
LEMMA SameParts ==
    ASSUME NEW T, NEW s \in Seq(T), NEW t \in Seq(T), NEW i \in Nat, NEW j \in Nat,
           NEW k \in Nat, i + k <= Len(s), j + k <= Len(t),
           \A q \in 1..k : s[i + q] = t[j + q]
    PROVE  SubSeq(s, i + 1, i + k) = SubSeq(t, j + 1, j + k)
<1> DEFINE u == SubSeq(s, i + 1, i + k)
           v == SubSeq(t, j + 1, j + k)
<1>1. u \in Seq(T) /\ Len(u) = k /\ \A q \in 1..k : u[q] = s[i + q]
  OBVIOUS
<1>2. v \in Seq(T) /\ Len(v) = k /\ \A q \in 1..k : v[q] = t[j + q]
  OBVIOUS
<1> HIDE DEF u, v
<1>3. u = v
  BY <1>1, <1>2, SameElements
<1> QED
  BY <1>3 DEF u, v

-----------------------------------------------------------------------------
(* Numbers, phone numbers and the header *)

\* Two bytes hold what a number is made of.
LEMMA TwoBytes ==
    ASSUME NEW n \in Nat
    PROVE  /\ U16(n) \in Seq(Nat) /\ Len(U16(n)) = 2
           /\ 256 * U16(n)[1] + U16(n)[2] = n
<1>1. n \div 256 \in Nat /\ n % 256 \in Nat /\ 256 * (n \div 256) + (n % 256) = n
  OBVIOUS
<1> DEFINE a == n \div 256
           b == n % 256
<1>2. U16(n) = <<a, b>>
  BY DEF U16
<1> HIDE DEF a, b
<1>3. a \in Nat /\ b \in Nat /\ 256 * a + b = n
  BY <1>1 DEF a, b
<1> QED
  BY <1>2, <1>3

Digits == 0..9

\* A phone number is filled up to twelve digits.
LEMMA Filled ==
    ASSUME NEW phone \in Seq(Digits), Len(phone) <= 12
    PROVE  Zfill(phone) \in [1..12 -> Digits]
<1> DEFINE z == [i \in 1..(12 - Len(phone)) |-> 0]
           n == Len(phone)
<1>1. n \in 0..12 /\ 12 - n \in Nat
  <2>1. n \in Nat /\ n <= 12
    BY LenProperties, Zenon
  <2> HIDE DEF n
  <2> QED
    BY <2>1
<1>2. z \in Seq(Digits) /\ Len(z) = 12 - n
  <2> DEFINE m == 12 - n
  <2>1. m \in Nat /\ 0 \in Digits
    BY <1>1 DEF Digits
  <2> HIDE DEF m, Digits
  <2>2. [i \in 1..m |-> 0] \in Seq(Digits) /\ Len([i \in 1..m |-> 0]) = m
    BY <2>1
  <2> QED
    BY <2>2 DEF m
<1>3. Joined(z \o phone, z, phone, Digits)
  BY <1>2, JoinedElements
<1> DEFINE w == z \o phone
<1> HIDE DEF z
<1>4. w \in Seq(Digits) /\ Len(w) = 12
  BY <1>1, <1>2, <1>3 DEF Joined
<1> HIDE DEF w
<1>5. w \in [1..12 -> Digits]
  BY <1>4, LenProperties, Zenon
<1> QED
  BY <1>5 DEF w, z, Zfill

\* Two digits to a byte and back.
LEMMA DigitsOfByte ==
    ASSUME NEW a \in Digits, NEW b \in Digits
    PROVE  /\ 16 * a + b \in Nat
           /\ (16 * a + b) \div 16 = a
           /\ (16 * a + b) % 16 = b
BY DEF Digits

LEMMA BcdIsUndone ==
    ASSUME NEW phone \in Seq(Digits), Len(phone) <= 12
    PROVE  /\ BcdEncode(phone) \in Seq(Nat) /\ Len(BcdEncode(phone)) = 6
           /\ BcdDecode(BcdEncode(phone)) = Zfill(phone)
<1> DEFINE z == Zfill(phone)
           e == [i \in 1..6 |-> 16 * z[2 * i - 1] + z[2 * i]]
           d == [i \in 1..12 |-> IF i % 2 = 1 THEN e[(i + 1) \div 2] \div 16
                                 ELSE e[i \div 2] % 16]
<1>1. z \in [1..12 -> Digits]
  BY Filled
<1> HIDE DEF z
<1>2. ASSUME NEW i \in 1..6
      PROVE  /\ e[i] \in Nat
             /\ e[i] \div 16 = z[2 * i - 1]
             /\ e[i] % 16 = z[2 * i]
  <2>1. 2 * i - 1 \in 1..12 /\ 2 * i \in 1..12
    OBVIOUS
  <2>2. z[2 * i - 1] \in Digits /\ z[2 * i] \in Digits
    BY <1>1, <2>1
  <2> DEFINE a == z[2 * i - 1]
             b == z[2 * i]
  <2>3. e[i] = 16 * a + b
    OBVIOUS
  <2>4. a \in Digits /\ b \in Digits
    BY <2>2
  <2> HIDE DEF a, b, e
  <2>5. e[i] \in Nat /\ e[i] \div 16 = a /\ e[i] % 16 = b
    BY <2>3, <2>4, DigitsOfByte
  <2> QED
    BY <2>5 DEF a, b
<1>3. e \in [1..6 -> Nat]
  BY <1>2
<1>4. e \in Seq(Nat) /\ Len(e) = 6
  BY <1>2
<1>5. ASSUME NEW i \in 1..12
      PROVE  d[i] = z[i]
  <2> HIDE DEF e
  <2>1. CASE i % 2 = 1
    <3> DEFINE j == (i + 1) \div 2
    <3>1. j \in 1..6 /\ 2 * j - 1 = i
      BY <2>1
    <3>2. d[i] = e[j] \div 16
      BY <2>1
    <3> HIDE DEF j, d
    <3> QED
      BY <1>2, <3>1, <3>2
  <2>2. CASE i % 2 # 1
    <3> DEFINE j == i \div 2
    <3>1. j \in 1..6 /\ 2 * j = i
      BY <2>2
    <3>2. d[i] = e[j] % 16
      BY <2>2
    <3> HIDE DEF j, d
    <3> QED
      BY <1>2, <3>1, <3>2
  <2> QED
    BY <2>1, <2>2
<1>6. d = z
  <2>1. d = [i \in 1..12 |-> d[i]] /\ z = [i \in 1..12 |-> z[i]]
    BY <1>1
  <2> HIDE DEF d
  <2> QED
    BY <1>5, <2>1
<1>7. BcdEncode(phone) = e /\ BcdDecode(e) = d
  BY Zenon DEF BcdEncode, BcdDecode, z
<1> HIDE DEF e, d
<1> QED
  BY <1>4, <1>6, <1>7 DEF z

\* A payload with any header.
Sent(id, props, phone, serial, body) ==
    LET inner == U16(id) \o U16(props) \o BcdEncode(phone) \o U16(serial) \o body
    IN  Append(inner, Checksum(inner))

\* A payload is built from numbers, a phone number and a body.
Carries(payload, id, props, phone, serial, body) ==
    /\ payload = Sent(id, props, phone, serial, body)
    /\ id \in Nat /\ props \in Nat /\ serial \in Nat
    /\ phone \in Seq(Digits) /\ Len(phone) <= 12
    /\ body \in Seq(Nat)

\* What is found in a payload.
Headed(payload, id, props, phone, serial, body) ==
    /\ Sound(payload)
    /\ \E T : payload \in Seq(T)
    /\ Len(payload) = 13 + Len(body)
    /\ Number16(payload, 1) = id
    /\ Number16(payload, 3) = props
    /\ BcdDecode(SubSeq(payload, 5, 10)) = Zfill(phone)
    /\ Number16(payload, 11) = serial
    /\ SubSeq(payload, 13, Len(payload) - 1) = body

LEMMA HeaderIsFound ==
    ASSUME NEW payload, NEW id, NEW props, NEW phone, NEW serial, NEW body,
           Carries(payload, id, props, phone, serial, body)
    PROVE  Headed(payload, id, props, phone, serial, body)
<1>0. /\ id \in Nat /\ props \in Nat /\ serial \in Nat
      /\ phone \in Seq(Digits) /\ Len(phone) <= 12
      /\ body \in Seq(Nat)
      /\ payload = Sent(id, props, phone, serial, body)
  BY Zenon DEF Carries
<1> DEFINE a == U16(id)
           b == U16(props)
           p == BcdEncode(phone)
           s == U16(serial)
           c == Checksum(a \o b \o p \o s \o body)
           T == Nat \cup {c}
           n == Len(body)
<1>1. /\ a \in Seq(T) /\ b \in Seq(T) /\ p \in Seq(T) /\ s \in Seq(T) /\ body \in Seq(T)
      /\ c \in T
      /\ Len(a) = 2 /\ Len(b) = 2 /\ Len(p) = 6 /\ Len(s) = 2
      /\ 256 * a[1] + a[2] = id /\ 256 * b[1] + b[2] = props
      /\ 256 * s[1] + s[2] = serial
  <2>1. /\ a \in Seq(Nat) /\ b \in Seq(Nat) /\ p \in Seq(Nat) /\ s \in Seq(Nat)
        /\ Len(a) = 2 /\ Len(b) = 2 /\ Len(p) = 6 /\ Len(s) = 2
        /\ 256 * a[1] + a[2] = id /\ 256 * b[1] + b[2] = props
        /\ 256 * s[1] + s[2] = serial
    BY <1>0, TwoBytes, BcdIsUndone, Zenon
  <2> HIDE DEF a, b, p, s, c
  <2>2. Nat \subseteq T /\ c \in T
    OBVIOUS
  <2> HIDE DEF T
  <2>3. a \in Seq(T) /\ b \in Seq(T) /\ p \in Seq(T) /\ s \in Seq(T) /\ body \in Seq(T)
    BY <1>0, <2>1, <2>2
  <2> QED
    BY <2>1, <2>2, <2>3, Zenon
<1>2. BcdDecode(p) = Zfill(phone)
  BY <1>0, BcdIsUndone, Zenon
<1>3. payload = Laid(a, b, p, s, body, c)
  BY <1>0, Zenon DEF Sent, Laid
<1>4. n \in Nat
  BY <1>0
<1> HIDE DEF T
<1>5. Readable(payload, a, b, p, s, body, c, T)
  BY <1>1, <1>3, LaidOut, Zenon
<1>6. c = Checksum(a \o b \o p \o s \o body)
  OBVIOUS
<1> HIDE DEF a, b, p, s, c, n
<1>7. /\ payload \in Seq(T) /\ Len(payload) = 13 + n
      /\ payload[1] = a[1] /\ payload[2] = a[2]
      /\ payload[3] = b[1] /\ payload[4] = b[2]
      /\ payload[11] = s[1] /\ payload[12] = s[2]
      /\ SubSeq(payload, 5, 10) = p
      /\ \A i \in 1..n, k \in Nat : k = 12 + i => payload[k] = body[i]
      /\ Front(payload) = a \o b \o p \o s \o body
      /\ Last(payload) = c
  BY <1>5, Zenon DEF Readable, n
<1>8. Sound(payload)
  <2>1. Len(payload) >= 13
    BY <1>4, <1>7
  <2> QED
    BY <1>6, <1>7, <2>1, Zenon DEF Sound
<1>9. /\ Number16(payload, 1) = id
      /\ Number16(payload, 3) = props
      /\ Number16(payload, 11) = serial
  <2>1. /\ Number16(payload, 1) = 256 * payload[1] + payload[2]
        /\ Number16(payload, 3) = 256 * payload[3] + payload[4]
        /\ Number16(payload, 11) = 256 * payload[11] + payload[12]
    BY DEF Number16
  <2> QED
    BY <1>1, <1>7, <2>1, ZenonT(60)
<1>10. SubSeq(payload, 13, Len(payload) - 1) = body
  <2> DEFINE q == SubSeq(payload, 13, 12 + n)
  <2>1. q \in Seq(T) /\ Len(q) = n
    BY <1>4, <1>7, SMTT(30)
  <2>2. \A i \in 1..n : q[i] = payload[12 + i]
    BY <1>4, <1>7
  <2>3. \A i \in 1..n : payload[12 + i] = body[i]
    BY <1>4, <1>7
  <2> HIDE DEF q
  <2>4. q = body
    BY <1>1, <2>1, <2>2, <2>3, SameElements DEF n
  <2>5. Len(payload) - 1 = 12 + n
    BY <1>4, <1>7
  <2> QED
    BY <2>4, <2>5, Zenon DEF q
<1> QED
  BY <1>2, <1>3, <1>7, <1>8, <1>9, <1>10, Zenon DEF Headed, n

-----------------------------------------------------------------------------
(* What the two parsers make of one payload *)

\* The part of a payload that a parser takes for the body, up to the checksum and
\* with it.
LEMMA BodyAndChecksum ==
    ASSUME NEW T, NEW payload \in Seq(T), NEW o \in Nat, o + 1 <= Len(payload),
           NEW k \in Nat, o + k <= Len(payload)
    PROVE  SubSeq(payload, o + 1, o + k)
             = SubSeq(Append(SubSeq(payload, o + 1, Len(payload) - 1), Last(payload)),
                      1, k)
<1> DEFINE n == Len(payload)
           m == (n - 1) - o
           c == Last(payload)
           body == SubSeq(payload, o + 1, n - 1)
           full == Append(body, c)
<1>1. n \in Nat /\ m \in Nat /\ o + (m + 1) = n /\ k <= m + 1 /\ c = payload[n] /\ c \in T
  BY DEF Last
<1>2. body \in Seq(T) /\ Len(body) = m /\ \A i \in 1..m : body[i] = payload[o + i]
  <2>1. n - 1 = o + m /\ o + m <= Len(payload)
    BY <1>1
  <2> HIDE DEF m
  <2>2. Part(SubSeq(payload, o + 1, o + m), payload, o, m, T)
    BY <1>1, <2>1, PartOf
  <2>3. Part(body, payload, o, m, T)
    BY <2>1, <2>2, Zenon
  <2> HIDE DEF body
  <2> QED
    BY <2>3, Zenon DEF Part
<1> HIDE DEF body, c, m
<1>3. full \in Seq(T) /\ Len(full) = m + 1 /\ full[m + 1] = c
      /\ \A i \in 1..m : full[i] = body[i]
  <2>1. body \in Seq(T) /\ Len(body) = m /\ c \in T /\ m \in Nat
    BY <1>1, <1>2, Zenon
  <2> QED
    BY <2>1
<1> HIDE DEF full, n
<1>4. ASSUME NEW q \in 1..k
      PROVE  payload[o + q] = full[0 + q]
  <2>1. q \in 1..m \/ q = m + 1
    BY <1>1
  <2>2. CASE q \in 1..m
    BY <1>2, <1>3, <2>2
  <2>3. CASE q = m + 1
    <3>1. o + q = n /\ 0 + q = m + 1
      BY <1>1, <2>3
    <3> QED
      BY <1>1, <1>3, <3>1
  <2> QED
    BY <2>1, <2>2, <2>3
<1>5. SubSeq(payload, o + 1, o + k) = SubSeq(full, 0 + 1, 0 + k)
  <2>1. o + k <= Len(payload) /\ 0 + k <= Len(full) /\ 0 \in Nat
    BY <1>1, <1>3
  <2> DEFINE z == 0
  <2>2. z \in Nat /\ z + k <= Len(full) /\ \A q \in 1..k : payload[o + q] = full[z + q]
    BY <1>4, <2>1
  <2> HIDE DEF z
  <2>3. SubSeq(payload, o + 1, o + k) = SubSeq(full, z + 1, z + k)
    BY <1>3, <2>1, <2>2, SameParts, SMTT(30)
  <2> QED
    BY <2>3, Zenon DEF z
<1>6. 0 + 1 = 1 /\ 0 + k = k
  OBVIOUS
<1> QED
  BY <1>5, <1>6, Zenon DEF full, body, c, n

\* The smaller of two.
LEMMA MinOfTwo ==
    ASSUME NEW a \in Nat, NEW b \in Nat
    PROVE  Min({a, b}) = IF a <= b THEN a ELSE b
<1> DEFINE S == {a, b}
           w == IF a <= b THEN a ELSE b
<1>1. w \in S /\ \A y \in S : w <= y
  OBVIOUS
<1>2. \A x \in S : (\A y \in S : x <= y) => x = w
  OBVIOUS
<1> HIDE DEF S, w
<1>3. \E x \in S : \A y \in S : x <= y
  BY <1>1
<1>4. Min(S) \in S /\ \A y \in S : Min(S) <= y
  BY <1>3, Zenon DEF Min
<1> QED
  BY <1>2, <1>4, Zenon DEF S, w

\* What the two parsers make of any payload with a sound header.
ReadAlike(payload) ==
    LET read == SubSeq(payload, Offset(payload) + 1, Len(payload) - 1) IN
    /\ JtParse(payload) = MessageOf(payload, read)
    /\ LegacyParse(payload)
         = MessageOf(payload, SubSeq(Append(read, Last(payload)), 1,
                                     BodyLength(payload)))

LEMMA BothParse ==
    ASSUME NEW payload, NEW id, NEW props, NEW phone, NEW serial, NEW body,
           Carries(payload, id, props, phone, serial, body)
    PROVE  LegacyParse(payload) # Nothing => ReadAlike(payload)
<1>1. /\ Sound(payload) /\ Len(payload) = 13 + Len(body)
      /\ \E T : payload \in Seq(T)
      /\ Number16(payload, 3) = props
      /\ props \in Nat /\ body \in Seq(Nat)
  <2>1. Headed(payload, id, props, phone, serial, body)
    BY HeaderIsFound, Zenon
  <2> QED
    BY <2>1, Zenon DEF Headed, Carries
<1>2. PICK T : payload \in Seq(T)
  BY <1>1, Zenon
<1> DEFINE o == Offset(payload)
           l == BodyLength(payload)
           n == Len(payload)
           m == Min({n, o + l})
           read == SubSeq(payload, o + 1, n - 1)
           cut == SubSeq(payload, o + 1, m)
<1>3. /\ n \in Nat /\ n >= 13 /\ l \in Nat /\ o \in Nat
      /\ IsSubpackage(payload) => o = 16
      /\ ~ IsSubpackage(payload) => o = 12
  <2>1. n \in Nat /\ n >= 13
    BY <1>1
  <2>2. l \in Nat
    BY <1>1 DEF BodyLength
  <2> QED
    BY <2>1, <2>2 DEF Offset
<1>4. SUFFICES ASSUME LegacyParse(payload) # Nothing
               PROVE  /\ JtParse(payload) = MessageOf(payload, read)
                      /\ LegacyParse(payload)
                           = MessageOf(payload, SubSeq(Append(read, Last(payload)),
                                                       1, l))
  BY Zenon DEF ReadAlike
<1>5. /\ ~ (IsSubpackage(payload) /\ n < 17)
      /\ ~ (Len(cut) < l)
      /\ LegacyParse(payload) = MessageOf(payload, cut)
  BY <1>1, <1>4, Zenon DEF LegacyParse
<1>6. o + 1 <= n /\ ~ (n < o)
  BY <1>3, <1>5
<1>7. JtParse(payload) = MessageOf(payload, read)
  BY <1>1, <1>6, Zenon DEF JtParse
<1>8. m = o + l /\ o + l <= n
  <2>1. m = IF n <= o + l THEN n ELSE o + l
    <3> DEFINE e == o + l
    <3>1. n \in Nat /\ e \in Nat
      BY <1>3
    <3> HIDE DEF e, n
    <3> QED
      BY <3>1, MinOfTwo, Zenon DEF e
  <2> HIDE DEF o, l, n, m
  <2>2. m \in Nat /\ m <= n
    BY <1>3, <2>1
  <2>3. Len(cut) = IF o + 1 <= m THEN m - o ELSE 0
    BY <1>2, <1>3, <2>2 DEF n
  <2> HIDE DEF cut
  <2> QED
    BY <1>3, <1>5, <1>6, <2>1, <2>3
<1>9. cut = SubSeq(Append(read, Last(payload)), 1, l)
  <2> HIDE DEF o, l, m
  <2>1. SubSeq(payload, o + 1, o + l) = SubSeq(Append(read, Last(payload)), 1, l)
    BY <1>2, <1>3, <1>6, <1>8, BodyAndChecksum
  <2> QED
    BY <1>8, <2>1, Zenon
<1> QED
  BY <1>5, <1>7, <1>9, Zenon

-----------------------------------------------------------------------------
(* The stacks agree *)

\* The legacy stack accepts a payload of a single packet if all of its body is
\* there.
LEMMA LegacyAccepts ==
    ASSUME NEW T, NEW payload \in Seq(T), Sound(payload), ~ IsSubpackage(payload),
           NEW l \in Nat, l = BodyLength(payload), 12 + l <= Len(payload)
    PROVE  LegacyParse(payload) # Nothing
<1> DEFINE n == Len(payload)
           m == Min({n, 12 + l})
           cut == SubSeq(payload, 13, m)
<1>1. n \in Nat /\ Offset(payload) = 12 /\ Offset(payload) + 1 = 13
  BY DEF Offset
<1>2. m = 12 + l
  <2> DEFINE e == 12 + l
  <2>1. e \in Nat /\ e <= n
    OBVIOUS
  <2> HIDE DEF e, n
  <2>2. Min({n, e}) = IF n <= e THEN n ELSE e
    BY <1>1, <2>1, MinOfTwo
  <2>3. Min({n, e}) = e
    BY <1>1, <2>1, <2>2
  <2> QED
    BY <2>3, Zenon DEF e
<1> HIDE DEF m
<1>3. ~ (Len(cut) < l)
  <2>1. Len(cut) = l
    BY <1>1, <1>2
  <2> HIDE DEF cut
  <2> QED
    BY <2>1
<1>4. LegacyParse(payload) = MessageOf(payload, cut)
  <2>1. /\ LegacyParse(payload)
             = LET body == SubSeq(payload, 13, Min({Len(payload), 12 + BodyLength(payload)}))
               IN  IF Len(body) < BodyLength(payload) THEN Nothing
                   ELSE MessageOf(payload, body)
    BY <1>1, Zenon DEF LegacyParse
  <2> QED
    BY <1>3, <2>1, Zenon DEF m
<1>5. MessageOf(payload, cut).outcome = "message" /\ Nothing.outcome = "none"
  BY DEF MessageOf, Nothing
<1> QED
  BY <1>4, <1>5

\* The body of a message replaced.
LEMMA BodyReplaced ==
    ASSUME NEW payload, NEW body, NEW other
    PROVE  /\ MessageOf(payload, body).body = body
           /\ MessageOf(payload, body).outcome = "message"
           /\ [MessageOf(payload, body) EXCEPT !.body = other]
                = MessageOf(payload, other)
<1> DEFINE packet == IF IsSubpackage(payload)
                     THEN <<Number16(payload, 13), Number16(payload, 15)>>
                     ELSE <<0, 0>>
           id == Number16(payload, 1)
           phone == BcdDecode(SubSeq(payload, 5, 10))
           serial == Number16(payload, 11)
<1>1. \A b : MessageOf(payload, b)
               = [outcome |-> "message", id |-> id, phone |-> phone,
                  serial_no |-> serial, body |-> b, packet |-> packet]
  BY Zenon DEF MessageOf
<1> HIDE DEF packet, id, phone, serial
<1> QED
  BY <1>1

\* The phone number and the bodies of the checks.
LEMMA SomeValues ==
    /\ Phone11 \in Seq(Digits) /\ Len(Phone11) = 11
    /\ Zfill(Phone11) = <<0>> \o Phone11
    /\ \A n \in Nat : BodyOf(n) \in Seq(Nat) /\ Len(BodyOf(n)) = n
    /\ 512 \in Nat /\ 7 \in Nat
<1>1. Phone11 \in Seq(Digits) /\ Len(Phone11) = 11
  BY DEF Phone11, Digits
<1>2. Zfill(Phone11) = <<0>> \o Phone11
  <2>1. [i \in 1..(12 - 11) |-> 0] = <<0>>
    <3>1. 12 - 11 = 1
      OBVIOUS
    <3>2. [i \in 1..1 |-> 0] = <<0>>
      OBVIOUS
    <3> QED
      BY <3>1, <3>2, Zenon
  <2> QED
    BY <1>1, <2>1, Zenon DEF Zfill
<1>3. ASSUME NEW n \in Nat
      PROVE  BodyOf(n) \in Seq(Nat) /\ Len(BodyOf(n)) = n
  <2>1. \A i \in 1..n : (37 * i) % 256 \in Nat
    OBVIOUS
  <2> QED
    BY <2>1 DEF BodyOf
<1> QED
  BY <1>1, <1>2, <1>3

\* The two stacks agree on a payload with any header that the legacy stack accepts.
LEMMA HeadersAgree ==
    ASSUME NEW payload, NEW id, NEW props, NEW phone, NEW serial, NEW body,
           Carries(payload, id, props, phone, serial, body),
           LegacyParse(payload) # Nothing
    PROVE  Alike(payload, props % 1024)
<1> DEFINE read == SubSeq(payload, Offset(payload) + 1, Len(payload) - 1)
           b == BodyLength(payload)
           l == props % 1024
           cut == SubSeq(Append(read, Last(payload)), 1, b)
           jt == JtParse(payload)
<1>0. ReadAlike(payload)
  BY BothParse
<1>1. JtParse(payload) = MessageOf(payload, read)
  BY <1>0, Zenon DEF ReadAlike
<1>2. LegacyParse(payload) = MessageOf(payload, cut)
  BY <1>0, Zenon DEF ReadAlike
<1>3. b = l
  <2>1. Headed(payload, id, props, phone, serial, body)
    BY HeaderIsFound, Zenon
  <2> QED
    BY <2>1, Zenon DEF Headed, BodyLength
<1> DEFINE m == MessageOf(payload, read)
           c == Last(payload)
<1>4. /\ m.body = read /\ m.outcome = "message"
      /\ [m EXCEPT !.body = cut] = MessageOf(payload, cut)
  <2> HIDE DEF cut, read
  <2> QED
    BY BodyReplaced
<1>5. jt = m
  BY <1>1, Zenon
<1>6. cut = SubSeq(Append(read, c), 1, l)
  BY <1>3, Zenon
<1> HIDE DEF m, read, b, jt, cut, l
<1>7. jt.outcome = "message" /\ jt.body = read
  BY <1>4, <1>5
<1>8. LegacyParse(payload) = [jt EXCEPT !.body = cut]
  BY <1>2, <1>4, <1>5, Zenon
<1>9. SubSeq(Append(jt.body, c), 1, l) = cut
  BY <1>6, <1>7, Zenon
<1>10. LegacyParse(payload) = [jt EXCEPT !.body = SubSeq(Append(@, c), 1, l)]
  BY <1>8, <1>9
<1> QED
  BY <1>7, <1>10, Zenon DEF jt, l, Alike

\* The same for a header of the checks.
LEMMA RawAlike ==
    ASSUME NEW n \in Nat, NEW props \in Nat,
           LegacyParse(Raw(props, n)) # Nothing
    PROVE  Alike(Raw(props, n), props % 1024)
<1> DEFINE payload == Raw(props, n)
           id == 512
           serial == 7
           body == BodyOf(n)
           phone == Phone11
<1>1. payload = Sent(id, props, phone, serial, body)
  BY DEF Raw, Sent
<1>2. body \in Seq(Nat) /\ phone \in Seq(Digits) /\ Len(phone) <= 12
      /\ id \in Nat /\ serial \in Nat
  BY SomeValues
<1>3. LegacyParse(payload) # Nothing
  OBVIOUS
<1> HIDE DEF payload, id, serial, body, phone
<1>4. Carries(payload, id, props, phone, serial, body)
  BY <1>1, <1>2, Zenon DEF Carries
<1>5. Alike(payload, props % 1024)
  BY <1>3, <1>4, HeadersAgree
<1> QED
  BY <1>5, Zenon DEF payload

LEMMA StacksAgreeAlways ==
    ASSUME size \in Nat
    PROVE  StacksAgree
<1>1. ASSUME NEW long \in 0..(size + 2), NEW flag \in {0, 8192},
             LegacyParse(Raw(flag + long, size)) # Nothing
      PROVE  Alike(Raw(flag + long, size), long % 1024)
  <2> DEFINE props == flag + long
             l == long % 1024
  <2>1. props \in Nat /\ props % 1024 = l
    OBVIOUS
  <2>2. LegacyParse(Raw(props, size)) # Nothing
    BY <1>1
  <2> HIDE DEF props, l
  <2>3. Alike(Raw(props, size), props % 1024)
    BY <2>1, <2>2, RawAlike
  <2>4. Alike(Raw(props, size), l)
    BY <2>1, <2>3
  <2> QED
    BY <2>4 DEF props, l
<1> QED
  BY <1>1 DEF StacksAgree

-----------------------------------------------------------------------------
(* What is built is parsed *)

\* What the two stacks make of a message with one packet.
Parsed(payload, id, phone, serial, body) ==
    LET whole == [outcome |-> "message", id |-> id, phone |-> Zfill(phone),
                  serial_no |-> serial, body |-> body, packet |-> <<0, 0>>]
    IN  /\ JtParse(payload) = whole
        /\ LegacyParse(payload)
             = [whole EXCEPT !.body = SubSeq(body, 1, Len(body) % 1024)]

LEMMA AnyMessageIsParsed ==
    ASSUME NEW id \in Nat, NEW phone \in Seq(Digits), Len(phone) <= 12,
           NEW serial \in Nat, NEW body \in Seq(Nat)
    PROVE  Parsed(Payload(id, phone, serial, body), id, phone, serial, body)
<1> DEFINE payload == Payload(id, phone, serial, body)
           n == Len(body)
           l == n % 1024
           c == Last(payload)
<1>1. payload = Sent(id, l, phone, serial, body)
  BY Zenon DEF Payload, Encoded, Sent
<1>2. n \in Nat /\ l \in Nat /\ l <= n
  OBVIOUS
<1>0. l % 1024 = l /\ (l \div 8192) % 2 = 0
  OBVIOUS
<1> HIDE DEF payload, n, l, c
<1>3. Carries(payload, id, l, phone, serial, body)
  BY <1>1, <1>2, Zenon DEF Carries
<1>4. Headed(payload, id, l, phone, serial, body)
  BY <1>3, HeaderIsFound
<1>5. /\ Sound(payload) /\ Len(payload) = 13 + n
      /\ \E T : payload \in Seq(T)
      /\ Number16(payload, 1) = id /\ Number16(payload, 3) = l
      /\ Number16(payload, 11) = serial
      /\ BcdDecode(SubSeq(payload, 5, 10)) = Zfill(phone)
      /\ SubSeq(payload, 13, Len(payload) - 1) = body
  BY <1>4, Zenon DEF Headed, n
<1>6. BodyLength(payload) = l /\ ~ IsSubpackage(payload) /\ Offset(payload) = 12
  <2>1. BodyLength(payload) = l % 1024
    BY <1>5, Zenon DEF BodyLength
  <2>2. IsSubpackage(payload) <=> (l \div 8192) % 2 = 1
    <3>1. Number16(payload, 3) = l
      BY <1>5, Zenon
    <3> QED
      BY <3>1 DEF IsSubpackage
  <2>3. ~ IsSubpackage(payload)
    BY <1>0, <2>2
  <2>4. BodyLength(payload) = l
    BY <1>0, <2>1
  <2> QED
    BY <2>3, <2>4, Zenon DEF Offset
<1>7. LegacyParse(payload) # Nothing
  <2>1. PICK T : payload \in Seq(T)
    BY <1>5, Zenon
  <2>2. 12 + l <= Len(payload)
    BY <1>2, <1>5
  <2> QED
    BY <1>2, <1>5, <1>6, <2>1, <2>2, LegacyAccepts
<1>8. ReadAlike(payload)
  BY <1>3, <1>7, BothParse
<1> DEFINE full == SubSeq(Append(body, c), 1, l)
<1>9. JtParse(payload) = MessageOf(payload, body)
      /\ LegacyParse(payload) = MessageOf(payload, full)
  <2>1. Offset(payload) + 1 = 13
    BY <1>6
  <2>2. SubSeq(payload, Offset(payload) + 1, Len(payload) - 1) = body
    BY <1>5, <2>1, Zenon
  <2> QED
    BY <1>6, <1>8, <2>2, Zenon DEF ReadAlike, c
<1>10. full = SubSeq(body, 1, l)
  <2> DEFINE z == 0
             T == Nat \cup {c}
  <2>1. body \in Seq(T) /\ c \in T
    OBVIOUS
  <2> HIDE DEF T
  <2> DEFINE f == Append(body, c)
  <2>2. f \in Seq(T) /\ Len(f) = n + 1 /\ \A q \in 1..n : f[q] = body[q]
    BY <2>1 DEF n
  <2> HIDE DEF f
  <2>3. z \in Nat /\ z + l <= Len(f) /\ z + l <= Len(body)
        /\ \A q \in 1..l : f[z + q] = body[z + q]
    BY <1>2, <2>2 DEF n
  <2>4. z + 1 = 1 /\ z + l = l
    BY <1>2
  <2> HIDE DEF z
  <2>5. SubSeq(f, z + 1, z + l) = SubSeq(body, z + 1, z + l)
    BY <1>2, <2>1, <2>2, <2>3, SameParts
  <2> QED
    BY <2>4, <2>5, Zenon DEF f
<1> DEFINE whole == [outcome |-> "message", id |-> id, phone |-> Zfill(phone),
                     serial_no |-> serial, body |-> body, packet |-> <<0, 0>>]
           part == SubSeq(body, 1, l)
<1> HIDE DEF full, part
<1>11. MessageOf(payload, body) = whole
  <2> DEFINE p == Zfill(phone)
             none == <<0, 0>>
  <2>1. /\ Number16(payload, 1) = id /\ Number16(payload, 11) = serial
        /\ BcdDecode(SubSeq(payload, 5, 10)) = p
    BY <1>5, Zenon
  <2>2. (IF IsSubpackage(payload)
         THEN <<Number16(payload, 13), Number16(payload, 15)>> ELSE <<0, 0>>) = none
    BY <1>6, Zenon
  <2> HIDE DEF p, none
  <2>3. MessageOf(payload, body)
          = [outcome |-> "message", id |-> id, phone |-> p, serial_no |-> serial,
             body |-> body, packet |-> none]
    BY <2>1, <2>2, Zenon DEF MessageOf
  <2> QED
    BY <2>3, Zenon DEF p, none
<1>12. [whole EXCEPT !.body = part] = MessageOf(payload, part)
  <2>1. [MessageOf(payload, body) EXCEPT !.body = part] = MessageOf(payload, part)
    BY BodyReplaced
  <2> QED
    BY <1>11, <2>1, Zenon
<1>13. full = part
  BY <1>10, Zenon DEF part
<1> HIDE DEF whole
<1>14. JtParse(payload) = whole
       /\ LegacyParse(payload) = [whole EXCEPT !.body = part]
  BY <1>9, <1>11, <1>12, <1>13, Zenon
<1> QED
  BY <1>14, Zenon DEF Parsed, payload, whole, part, l, n

\* A body of the checks cut off is another one.
LEMMA BodyCut ==
    ASSUME NEW n \in Nat, NEW l \in Nat, l <= n
    PROVE  SubSeq(BodyOf(n), 1, l) = BodyOf(l)
<1> DEFINE b == BodyOf(n)
           c == BodyOf(l)
           q == SubSeq(b, 1, l)
<1>1. b \in Seq(Nat) /\ Len(b) = n /\ c \in Seq(Nat) /\ Len(c) = l
  BY SomeValues
<1>2. \A i \in 1..l : b[i] = c[i]
  BY DEF BodyOf
<1> HIDE DEF b, c
<1>3. q \in Seq(Nat) /\ Len(q) = l /\ \A i \in 1..l : q[i] = b[i]
  BY <1>1
<1> HIDE DEF q
<1>4. q = c
  BY <1>1, <1>2, <1>3, SameElements
<1> QED
  BY <1>4 DEF q, b, c

LEMMA BuiltIsParsedAlways ==
    ASSUME size \in Nat
    PROVE  BuiltIsParsed
<1> DEFINE Read(n, serial) ==
             /\ JtParse(Payload(512, Phone11, serial, BodyOf(n)))
                  = AsSent(serial, BodyOf(n))
             /\ LegacyParse(Payload(512, Phone11, serial, BodyOf(n)))
                  = AsSent(serial, BodyOf(n % 1024))
<1>1. ASSUME NEW n \in Nat, NEW serial \in Nat
      PROVE  Read(n, serial)
  <2> DEFINE id == 512
             body == BodyOf(n)
             phone == Phone11
             l == n % 1024
             part == SubSeq(body, 1, l)
             long == Zfill(phone)
             none == <<0, 0>>
             full == [outcome |-> "message", id |-> id, phone |-> long,
                      serial_no |-> serial, body |-> body, packet |-> none]
             payload == Payload(id, phone, serial, body)
  <2>1. phone \in Seq(Digits) /\ long = <<0>> \o Phone11 /\ id \in Nat
    BY SomeValues, Zenon
  <2>2. Len(phone) <= 12
    BY SomeValues
  <2>3. body \in Seq(Nat) /\ Len(body) = n
    BY SomeValues, Zenon
  <2>4. part = BodyOf(l)
    <3>1. l \in Nat /\ l <= n
      OBVIOUS
    <3> HIDE DEF l
    <3> QED
      BY <3>1, BodyCut
  <2>5. JtParse(payload) = full /\ LegacyParse(payload) = [full EXCEPT !.body = part]
    <3> HIDE DEF id, body, phone
    <3>1. Parsed(payload, id, phone, serial, body)
      BY <2>1, <2>2, <2>3, AnyMessageIsParsed
    <3> HIDE DEF payload
    <3> QED
      BY <2>3, <3>1, Zenon DEF Parsed
  <2>6. \A b : AsSent(serial, b)
                 = [outcome |-> "message", id |-> id, phone |-> long,
                    serial_no |-> serial, body |-> b, packet |-> none]
    BY <2>1, Zenon DEF AsSent
  <2>7. full = AsSent(serial, body) /\ [full EXCEPT !.body = part] = AsSent(serial, part)
    <3> HIDE DEF id, long, none, part, body
    <3> QED
      BY <2>6
  <2> HIDE DEF l, part, full, payload, body
  <2>8. /\ JtParse(payload) = AsSent(serial, body)
        /\ LegacyParse(payload) = AsSent(serial, BodyOf(l))
    BY <2>4, <2>5, <2>7, Zenon
  <2> QED
    BY <2>8 DEF l, payload, body
<1> HIDE DEF Read
<1>2. ASSUME NEW n \in {k * size : k \in {1, 64, 93, 205}}, NEW serial \in {0, 65535}
      PROVE  Read(n, serial)
  <2>1. n \in Nat /\ serial \in Nat
    OBVIOUS
  <2> QED
    BY <1>1, <2>1
<1> QED
  BY <1>2 DEF BuiltIsParsed, Read

-----------------------------------------------------------------------------
(* Fields found in a body *)

\* A sequence found in another one, after the first o elements.
At(u, s, o, T) ==
    /\ u \in Seq(T) /\ s \in Seq(T) /\ o \in Nat
    /\ o + Len(s) <= Len(u)
    /\ \A i \in 1..Len(s), k \in Nat : k = o + i => u[k] = s[i]

\* What is found stays where it is when something follows it, and what follows
\* is found there.
LEMMA StillAt ==
    ASSUME NEW T, NEW u, NEW s, NEW o, At(u, s, o, T), NEW t \in Seq(T)
    PROVE  At(u \o t, s, o, T)
<1>1. /\ u \in Seq(T) /\ s \in Seq(T) /\ o \in Nat
      /\ o + Len(s) <= Len(u)
      /\ \A i \in 1..Len(s), k \in Nat : k = o + i => u[k] = s[i]
  BY Zenon DEF At
<1> DEFINE w == u \o t
<1>2. Joined(w, u, t, T)
  BY <1>1, JoinedElements
<1> HIDE DEF w
<1>3. w \in Seq(T) /\ Len(w) = Len(u) + Len(t) /\ \A i \in 1..Len(u) : w[i] = u[i]
  BY <1>2, Zenon DEF Joined
<1>4. o + Len(s) <= Len(w)
  BY <1>1, <1>3
<1>5. ASSUME NEW i \in 1..Len(s), NEW k \in Nat, k = o + i
      PROVE  w[k] = s[i]
  <2>1. u[k] = s[i]
    BY <1>1, <1>5, Zenon
  <2>2. k \in 1..Len(u)
    BY <1>1, <1>5
  <2> QED
    BY <1>3, <2>1, <2>2
<1> QED
  BY <1>1, <1>3, <1>4, <1>5, Zenon DEF At, w

LEMMA NowAt ==
    ASSUME NEW T, NEW u \in Seq(T), NEW t \in Seq(T), NEW o, o = Len(u)
    PROVE  At(u \o t, t, o, T)
<1> DEFINE w == u \o t
<1>1. Joined(w, u, t, T)
  BY JoinedElements
<1> HIDE DEF w
<1>2. /\ w \in Seq(T) /\ Len(w) = Len(u) + Len(t)
      /\ \A i \in 1..Len(t), k \in Nat : k = Len(u) + i => w[k] = t[i]
  BY <1>1, Zenon DEF Joined
<1>3. o \in Nat /\ o + Len(t) <= Len(w)
  BY <1>2
<1> QED
  BY <1>2, <1>3, Zenon DEF At, w

LEMMA StartsAt ==
    ASSUME NEW T, NEW u \in Seq(T)
    PROVE  At(u, u, 0, T)
BY DEF At

\* A part that is found is the one that is cut out.
CutOut(u, s, o) == SubSeq(u, o + 1, o + Len(s)) = s

LEMMA FoundIsCutOut ==
    ASSUME NEW T, NEW u, NEW s, NEW o, At(u, s, o, T)
    PROVE  CutOut(u, s, o)
<1>1. /\ u \in Seq(T) /\ s \in Seq(T) /\ o \in Nat
      /\ o + Len(s) <= Len(u)
      /\ \A q \in 1..Len(s), k \in Nat : k = o + q => u[k] = s[q]
  BY Zenon DEF At
<1> DEFINE m == Len(s)
           q == SubSeq(u, o + 1, o + m)
<1>2. Part(q, u, o, m, T)
  <2>1. m \in Nat
    BY <1>1
  <2> HIDE DEF m
  <2> QED
    BY <1>1, <2>1, PartOf DEF m
<1> HIDE DEF q
<1>3. q \in Seq(T) /\ Len(q) = m /\ \A k \in 1..m : q[k] = u[o + k]
  BY <1>2, Zenon DEF Part
<1>4. ASSUME NEW k \in 1..Len(q)
      PROVE  q[k] = s[k]
  <2> DEFINE e == o + k
  <2>1. k \in 1..Len(s) /\ e \in Nat /\ e = o + k
    BY <1>1, <1>3
  <2>2. q[k] = u[e]
    BY <1>3
  <2> HIDE DEF e
  <2>3. u[e] = s[k]
    BY <1>1, <2>1, Zenon
  <2> QED
    BY <2>2, <2>3
<1>5. q = s
  BY <1>1, <1>3, <1>4, SameElements
<1> QED
  BY <1>5, Zenon DEF q, CutOut

\* Two bytes that are found are read.
LEMMA NumberAt ==
    ASSUME NEW T, NEW u, NEW o, NEW n \in Nat, At(u, U16(n), o, T),
           NEW i, i = o + 1
    PROVE  Number16(u, i) = n
<1> DEFINE s == U16(n)
<1>1. Len(s) = 2 /\ 256 * s[1] + s[2] = n
  BY TwoBytes
<1> HIDE DEF s
<1>2. o \in Nat /\ \A q \in 1..Len(s), k \in Nat : k = o + q => u[k] = s[q]
  BY Zenon DEF At, s
<1>3. u[o + 1] = s[1] /\ u[o + 2] = s[2] /\ i = o + 1 /\ i + 1 = o + 2
  BY <1>1, <1>2
<1>4. Number16(u, i) = 256 * u[i] + u[i + 1]
  BY DEF Number16
<1>5. u[i] = s[1] /\ u[i + 1] = s[2]
  BY <1>3
<1> QED
  BY <1>1, <1>4, <1>5

LEMMA ByteAt ==
    ASSUME NEW T, NEW u, NEW o, NEW c, At(u, <<c>>, o, T), NEW i, i = o + 1
    PROVE  u[i] = c
<1> DEFINE s == <<c>>
<1>1. Len(s) = 1 /\ s[1] = c
  OBVIOUS
<1> HIDE DEF s
<1>2. o \in Nat /\ \A q \in 1..Len(s), k \in Nat : k = o + q => u[k] = s[q]
  BY Zenon DEF At, s
<1> QED
  BY <1>1, <1>2

\* A text does not end with a zero.
Trimmed(text) ==
    /\ text \in Seq(Nat)
    /\ \A i \in Nat : i = Len(text) /\ i > 0 => text[i] # 0

\* What padding adds is taken off.
LEMMA PaddingIsStripped ==
    ASSUME NEW text, Trimmed(text), NEW n \in Nat, Len(text) <= n
    PROVE  /\ Pad(text, n) \in Seq(Nat) /\ Len(Pad(text, n)) = n
           /\ Stripped(Pad(text, n)) = text
<1>0. text \in Seq(Nat) /\ \A i \in Nat : i = Len(text) /\ i > 0 => text[i] # 0
  BY Zenon DEF Trimmed
<1> DEFINE q == Pad(text, n)
           m == Len(text)
           S == {0} \cup {i \in DOMAIN q : q[i] # 0}
<1>1. m \in Nat /\ m <= n
  BY <1>0
<1>2. q \in Seq(Nat) /\ Len(q) = n /\ DOMAIN q = 1..n
      /\ \A i \in 1..m : q[i] = text[i]
  BY <1>0, <1>1 DEF Pad
<1>9. \A i \in 1..n : i > m => q[i] = 0
  BY <1>1 DEF Pad
<1> HIDE DEF q, m
<1>3. S \subseteq Nat /\ \A y \in S : y <= m
  <2>1. ASSUME NEW y \in DOMAIN q, q[y] # 0
        PROVE  y \in Nat /\ y <= m
    <3>1. y \in 1..n /\ DOMAIN q = 1..n
      BY <1>2
    <3>3. ~ (y > m)
      BY <1>9, <2>1, <3>1
    <3> QED
      BY <1>1, <3>1, <3>3
  <2>2. 0 \in Nat /\ 0 <= m
    BY <1>1
  <2> QED
    BY <2>1, <2>2
<1>4. m \in S
  <2>1. CASE m = 0
    BY <2>1
  <2>2. CASE m > 0
    <3>1. m \in 1..m /\ m \in 1..n
      BY <1>1, <2>2
    <3>2. text[m] # 0
      BY <1>0, <1>1, <2>2 DEF m
    <3> QED
      BY <1>2, <3>1, <3>2
  <2> QED
    BY <1>1, <2>1, <2>2
<1> HIDE DEF S
<1>5. Max(S) = m
  BY <1>3, <1>4, MaxIs
<1>6. Stripped(q) = SubSeq(q, 1, m)
  BY <1>5, Zenon DEF Stripped, S
<1> DEFINE t == SubSeq(q, 1, m)
<1>7. t \in Seq(Nat) /\ Len(t) = m /\ \A i \in 1..m : t[i] = q[i]
  BY <1>1, <1>2
<1> HIDE DEF t
<1>8. t = text
  BY <1>0, <1>2, <1>7, SameElements DEF m
<1> QED
  BY <1>2, <1>6, <1>8 DEF q, t

\* A text without a zero at its end is left as it is.
LEMMA NothingIsStripped ==
    ASSUME NEW text, Trimmed(text)
    PROVE  Stripped(text) = text
<1> DEFINE n == Len(text)
<1>1. text \in Seq(Nat) /\ n \in Nat /\ n <= n
  BY DEF Trimmed
<1>2. Pad(text, n) = text
  BY <1>1 DEF Pad
<1>3. Stripped(Pad(text, n)) = text
  BY <1>1, PaddingIsStripped
<1> QED
  BY <1>2, <1>3

-----------------------------------------------------------------------------
(* Registrations *)

\* Two sequences joined.
LEMMA LongerBy ==
    ASSUME NEW T, NEW u \in Seq(T), NEW t \in Seq(T)
    PROVE  u \o t \in Seq(T) /\ Len(u \o t) = Len(u) + Len(t)
OBVIOUS

\* Seven fields laid out as a registration, and where they are.
SevenFields(w, a, b, m, d, e, c, p) ==
    /\ a \in Seq(Nat) /\ b \in Seq(Nat) /\ m \in Seq(Nat) /\ d \in Seq(Nat)
    /\ e \in Seq(Nat) /\ c \in Seq(Nat) /\ p \in Seq(Nat)
    /\ Len(a) = 2 /\ Len(b) = 2 /\ Len(m) = 5 /\ Len(d) = 20 /\ Len(e) = 20
    /\ Len(c) = 1
    /\ w = a \o b \o m \o d \o e \o c \o p

Places(w, a, b, m, d, e, c, p) ==
    /\ w \in Seq(Nat) /\ Len(w) = 50 + Len(p)
    /\ At(w, a, 0, Nat) /\ At(w, b, 2, Nat) /\ At(w, m, 4, Nat)
    /\ At(w, d, 9, Nat) /\ At(w, e, 29, Nat) /\ At(w, c, 49, Nat)
    /\ At(w, p, 50, Nat)

LEMMA RegistrationLaidOut ==
    ASSUME NEW w, NEW a, NEW b, NEW m, NEW d, NEW e, NEW c, NEW p,
           SevenFields(w, a, b, m, d, e, c, p)
    PROVE  Places(w, a, b, m, d, e, c, p)
<1> DEFINE w2 == a \o b
           w3 == w2 \o m
           w4 == w3 \o d
           w5 == w4 \o e
           w6 == w5 \o c
           w7 == w6 \o p
<1>0. /\ a \in Seq(Nat) /\ b \in Seq(Nat) /\ m \in Seq(Nat) /\ d \in Seq(Nat)
      /\ e \in Seq(Nat) /\ c \in Seq(Nat) /\ p \in Seq(Nat)
      /\ Len(a) = 2 /\ Len(b) = 2 /\ Len(m) = 5 /\ Len(d) = 20 /\ Len(e) = 20
      /\ Len(c) = 1
      /\ w = a \o b \o m \o d \o e \o c \o p
  BY Zenon DEF SevenFields
<1>1. At(a, a, 0, Nat)
  BY <1>0, StartsAt
<1>2. /\ w2 \in Seq(Nat) /\ Len(w2) = 4
      /\ At(w2, a, 0, Nat) /\ At(w2, b, 2, Nat)
  <2>1. w2 \in Seq(Nat) /\ Len(w2) = Len(a) + Len(b) /\ a \in Seq(Nat) /\ b \in Seq(Nat)
    BY <1>0, <1>1, LongerBy
  <2>2. Len(a) = 2
    BY <1>0, <1>1
  <2>3. Len(w2) = 4
    BY <1>0, <2>1, <2>2
  <2>4. At(a \o b, b, 2, Nat)
    BY <2>1, <2>2, NowAt
  <2>5. \A x, o : At(a, x, o, Nat) => At(a \o b, x, o, Nat)
    BY <2>1, StillAt, Zenon
  <2> QED
    BY <1>1, <2>1, <2>3, <2>4, <2>5, Zenon
<1> HIDE DEF w2
<1>3. /\ w3 \in Seq(Nat) /\ Len(w3) = 9
      /\ At(w3, a, 0, Nat) /\ At(w3, b, 2, Nat) /\ At(w3, m, 4, Nat)
  <2>1. w3 \in Seq(Nat) /\ Len(w3) = Len(w2) + Len(m) /\ w2 \in Seq(Nat) /\ m \in Seq(Nat)
    BY <1>0, <1>2, LongerBy
  <2>2. Len(w2) = 4
    BY <1>0, <1>2
  <2>3. Len(w3) = 9
    BY <1>0, <2>1, <2>2
  <2>4. At(w2 \o m, m, 4, Nat)
    BY <2>1, <2>2, NowAt
  <2>5. \A x, o : At(w2, x, o, Nat) => At(w2 \o m, x, o, Nat)
    BY <2>1, StillAt, Zenon
  <2> QED
    BY <1>2, <2>1, <2>3, <2>4, <2>5, Zenon
<1> HIDE DEF w3
<1>4. /\ w4 \in Seq(Nat) /\ Len(w4) = 29
      /\ At(w4, a, 0, Nat) /\ At(w4, b, 2, Nat) /\ At(w4, m, 4, Nat)
      /\ At(w4, d, 9, Nat)
  <2>1. w4 \in Seq(Nat) /\ Len(w4) = Len(w3) + Len(d) /\ w3 \in Seq(Nat) /\ d \in Seq(Nat)
    BY <1>0, <1>3, LongerBy
  <2>2. Len(w3) = 9
    BY <1>0, <1>3
  <2>3. Len(w4) = 29
    BY <1>0, <2>1, <2>2
  <2>4. At(w3 \o d, d, 9, Nat)
    BY <2>1, <2>2, NowAt
  <2>5. \A x, o : At(w3, x, o, Nat) => At(w3 \o d, x, o, Nat)
    BY <2>1, StillAt, Zenon
  <2> QED
    BY <1>3, <2>1, <2>3, <2>4, <2>5, Zenon
<1> HIDE DEF w4
<1>5. /\ w5 \in Seq(Nat) /\ Len(w5) = 49
      /\ At(w5, a, 0, Nat) /\ At(w5, b, 2, Nat) /\ At(w5, m, 4, Nat)
      /\ At(w5, d, 9, Nat) /\ At(w5, e, 29, Nat)
  <2>1. w5 \in Seq(Nat) /\ Len(w5) = Len(w4) + Len(e) /\ w4 \in Seq(Nat) /\ e \in Seq(Nat)
    BY <1>0, <1>4, LongerBy
  <2>2. Len(w4) = 29
    BY <1>0, <1>4
  <2>3. Len(w5) = 49
    BY <1>0, <2>1, <2>2
  <2>4. At(w4 \o e, e, 29, Nat)
    BY <2>1, <2>2, NowAt
  <2>5. \A x, o : At(w4, x, o, Nat) => At(w4 \o e, x, o, Nat)
    BY <2>1, StillAt, Zenon
  <2> QED
    BY <1>4, <2>1, <2>3, <2>4, <2>5, Zenon
<1> HIDE DEF w5
<1>6. /\ w6 \in Seq(Nat) /\ Len(w6) = 50
      /\ At(w6, a, 0, Nat) /\ At(w6, b, 2, Nat) /\ At(w6, m, 4, Nat)
      /\ At(w6, d, 9, Nat) /\ At(w6, e, 29, Nat) /\ At(w6, c, 49, Nat)
  <2>1. w6 \in Seq(Nat) /\ Len(w6) = Len(w5) + Len(c) /\ w5 \in Seq(Nat) /\ c \in Seq(Nat)
    BY <1>0, <1>5, LongerBy
  <2>2. Len(w5) = 49
    BY <1>0, <1>5
  <2>3. Len(w6) = 50
    BY <1>0, <2>1, <2>2
  <2>4. At(w5 \o c, c, 49, Nat)
    BY <2>1, <2>2, NowAt
  <2>5. \A x, o : At(w5, x, o, Nat) => At(w5 \o c, x, o, Nat)
    BY <2>1, StillAt, Zenon
  <2> QED
    BY <1>5, <2>1, <2>3, <2>4, <2>5, Zenon
<1> HIDE DEF w6
<1>7. /\ w7 \in Seq(Nat) /\ Len(w7) = 50 + Len(p)
      /\ At(w7, a, 0, Nat) /\ At(w7, b, 2, Nat) /\ At(w7, m, 4, Nat)
      /\ At(w7, d, 9, Nat) /\ At(w7, e, 29, Nat) /\ At(w7, c, 49, Nat)
      /\ At(w7, p, 50, Nat)
  <2>1. w7 \in Seq(Nat) /\ Len(w7) = Len(w6) + Len(p) /\ w6 \in Seq(Nat) /\ p \in Seq(Nat)
    BY <1>0, <1>6, LongerBy, ZenonT(30)
  <2>2. Len(w6) = 50
    BY <1>0, <1>6
  <2>3. Len(w7) = 50 + Len(p)
    BY <1>0, <2>1, <2>2
  <2>4. At(w6 \o p, p, 50, Nat)
    BY <2>1, <2>2, NowAt
  <2>5. \A x, o : At(w6, x, o, Nat) => At(w6 \o p, x, o, Nat)
    BY <2>1, StillAt, Zenon
  <2> QED
    BY <1>6, <2>1, <2>3, <2>4, <2>5, Zenon
<1>8. w = w7
  BY <1>0, Zenon DEF w2, w3, w4, w5, w6
<1> HIDE DEF w7
<1> QED
  BY <1>7, <1>8, Zenon DEF Places

\* A registration: two numbers, three texts that fit, a colour and a plate.
Registration(r) ==
    /\ r.province_id \in Nat /\ r.city_id \in Nat /\ r.plate_color \in Nat
    /\ Trimmed(r.manufacturer) /\ Len(r.manufacturer) <= 5
    /\ Trimmed(r.device_model) /\ Len(r.device_model) <= 20
    /\ Trimmed(r.device_id) /\ Len(r.device_id) <= 20
    /\ Trimmed(r.plate_no)
    /\ r = [province_id |-> r.province_id, city_id |-> r.city_id,
            manufacturer |-> r.manufacturer, device_model |-> r.device_model,
            device_id |-> r.device_id, plate_color |-> r.plate_color,
            plate_no |-> r.plate_no]

LEMMA RegistrationIsRead ==
    ASSUME NEW r, Registration(r)
    PROVE  /\ BuildRegistration(r) \in Seq(Nat)
           /\ Len(BuildRegistration(r)) = 50 + Len(r.plate_no)
           /\ JtRegistration(BuildRegistration(r)) = r
<1> DEFINE a == U16(r.province_id)
           b == U16(r.city_id)
           m == Pad(r.manufacturer, 5)
           d == Pad(r.device_model, 20)
           e == Pad(r.device_id, 20)
           c == <<r.plate_color>>
           p == r.plate_no
           w == a \o b \o m \o d \o e \o c \o p
<1>1. /\ r.province_id \in Nat /\ r.city_id \in Nat /\ r.plate_color \in Nat
      /\ Trimmed(r.manufacturer) /\ Len(r.manufacturer) <= 5
      /\ Trimmed(r.device_model) /\ Len(r.device_model) <= 20
      /\ Trimmed(r.device_id) /\ Len(r.device_id) <= 20
      /\ Trimmed(r.plate_no)
  BY Zenon DEF Registration
<1>2. /\ a \in Seq(Nat) /\ Len(a) = 2 /\ b \in Seq(Nat) /\ Len(b) = 2
  BY <1>1, TwoBytes, Zenon
<1>3. /\ m \in Seq(Nat) /\ Len(m) = 5 /\ Stripped(m) = r.manufacturer
      /\ d \in Seq(Nat) /\ Len(d) = 20 /\ Stripped(d) = r.device_model
      /\ e \in Seq(Nat) /\ Len(e) = 20 /\ Stripped(e) = r.device_id
      /\ Stripped(p) = p /\ p \in Seq(Nat)
  <2>1. 5 \in Nat /\ 20 \in Nat
    OBVIOUS
  <2>2. p \in Seq(Nat)
    BY <1>1, Zenon DEF Trimmed
  <2> QED
    BY <1>1, <2>1, <2>2, PaddingIsStripped, NothingIsStripped
<1>4. c \in Seq(Nat) /\ Len(c) = 1
  BY <1>1
<1> HIDE DEF w
<1>5. w = BuildRegistration(r)
  BY Zenon DEF w, BuildRegistration
<1>6. /\ w \in Seq(Nat) /\ Len(w) = 50 + Len(p)
      /\ At(w, a, 0, Nat) /\ At(w, b, 2, Nat) /\ At(w, m, 4, Nat)
      /\ At(w, d, 9, Nat) /\ At(w, e, 29, Nat) /\ At(w, c, 49, Nat)
      /\ At(w, p, 50, Nat)
  <2>1. w = a \o b \o m \o d \o e \o c \o p
    BY Zenon DEF w
  <2> HIDE DEF a, b, m, d, e, c, p
  <2> QED
    <3>1. SevenFields(w, a, b, m, d, e, c, p)
      BY <1>2, <1>3, <1>4, <2>1, Zenon DEF SevenFields
    <3> QED
      BY <3>1, RegistrationLaidOut, Zenon DEF Places
<1>7. Number16(w, 1) = r.province_id /\ Number16(w, 3) = r.city_id
  <2>1. At(w, U16(r.province_id), 0, Nat) /\ At(w, U16(r.city_id), 2, Nat)
    BY <1>6, Zenon
  <2> QED
    BY <1>1, <2>1, NumberAt
<1>8. w[50] = r.plate_color
  <2>1. At(w, <<r.plate_color>>, 49, Nat)
    BY <1>6, Zenon
  <2> QED
    BY <2>1, ByteAt
<1> HIDE DEF a, b, m, d, e, c
<1>9. SubSeq(w, 5, 9) = m
  <2>1. CutOut(w, m, 4)
    BY <1>6, FoundIsCutOut, Zenon
  <2> QED
    BY <1>3, <2>1 DEF CutOut
<1>10. SubSeq(w, 10, 29) = d
  <2>1. CutOut(w, d, 9)
    BY <1>6, FoundIsCutOut, Zenon
  <2> QED
    BY <1>3, <2>1 DEF CutOut
<1>11. SubSeq(w, 30, 49) = e
  <2>1. CutOut(w, e, 29)
    BY <1>6, FoundIsCutOut, Zenon
  <2> QED
    BY <1>3, <2>1 DEF CutOut
<1>12. SubSeq(w, 51, Len(w)) = p
  <2> HIDE DEF p
  <2>1. CutOut(w, p, 50)
    BY <1>6, FoundIsCutOut, Zenon
  <2>2. Len(w) = 50 + Len(p)
    BY <1>6, Zenon
  <2> QED
    BY <2>1, <2>2 DEF CutOut
<1>13. Fields(w, 49, 51)
         = [province_id |-> r.province_id, city_id |-> r.city_id,
            manufacturer |-> r.manufacturer, device_model |-> r.device_model,
            device_id |-> r.device_id, plate_color |-> r.plate_color,
            plate_no |-> r.plate_no]
  <2>1. Stripped(SubSeq(w, 5, 9)) = r.manufacturer
        /\ Stripped(SubSeq(w, 10, 29)) = r.device_model
        /\ Stripped(SubSeq(w, 30, 49)) = r.device_id
        /\ Stripped(SubSeq(w, 51, Len(w))) = r.plate_no
    BY <1>3, <1>9, <1>10, <1>11, <1>12, Zenon
  <2>2. w[49 + 1] = r.plate_color
    BY <1>8
  <2> QED
    BY <1>7, <2>1, <2>2, Zenon DEF Fields
<1>14. Fields(w, 49, 51) = r
  BY <1>13, Zenon DEF Registration
<1>15. ~ (Len(w) < 50)
  <2>1. Len(p) \in Nat
    BY <1>3, LenProperties, Zenon
  <2> QED
    BY <1>6, <2>1
<1>16. JtRegistration(w) = r
  BY <1>14, <1>15, Zenon DEF JtRegistration
<1> QED
  BY <1>5, <1>6, <1>16, Zenon

-----------------------------------------------------------------------------
(* Answers *)

\* What begins with something begins with it still when it is cut after that.
LEMMA CutAfter ==
    ASSUME NEW T, NEW u, NEW s, NEW o, At(u, s, o, T),
           NEW n \in Nat, n <= Len(u), o + Len(s) <= n
    PROVE  At(SubSeq(u, 1, n), s, o, T)
<1>1. /\ u \in Seq(T) /\ s \in Seq(T) /\ o \in Nat
      /\ \A q \in 1..Len(s), k \in Nat : k = o + q => u[k] = s[q]
  BY Zenon DEF At
<1> DEFINE v == SubSeq(u, 1, n)
<1>2. v \in Seq(T) /\ Len(v) = n /\ \A i \in 1..n : v[i] = u[i]
  BY <1>1
<1> HIDE DEF v
<1>3. ASSUME NEW q \in 1..Len(s), NEW k \in Nat, k = o + q
      PROVE  v[k] = s[q]
  <2>1. u[k] = s[q]
    BY <1>1, <1>3, Zenon
  <2>2. k \in 1..n
    BY <1>1, <1>3
  <2> QED
    BY <1>2, <2>1, <2>2
<1>4. o + Len(s) <= Len(v)
  BY <1>2
<1> QED
  BY <1>1, <1>2, <1>3, <1>4, Zenon DEF At, v

\* A registration that ends before the colour of the plate is refused, and no
\* other one.
LEMMA ShortOnesAreRefused ==
    ASSUME NEW body \in Seq(Nat), NEW n \in 0..Len(body)
    PROVE  JtRegistration(SubSeq(body, 1, n)) = Nothing <=> n < 50
<1> DEFINE b == SubSeq(body, 1, n)
<1>1. Len(b) = n
  OBVIOUS
<1> HIDE DEF b
<1>2. CASE n < 50
  <2>1. JtRegistration(b) = Nothing
    BY <1>1, <1>2 DEF JtRegistration
  <2> QED
    BY <1>2, <2>1 DEF b
<1>3. CASE ~ (n < 50)
  <2>1. JtRegistration(b) = Fields(b, 49, 51)
    BY <1>1, <1>3 DEF JtRegistration
  <2>2. Fields(b, 49, 51) # Nothing
    <3>1. "outcome" \notin DOMAIN Fields(b, 49, 51)
      BY DEF Fields
    <3>2. "outcome" \in DOMAIN Nothing
      BY DEF Nothing
    <3> QED
      BY <3>1, <3>2, Zenon
  <2> QED
    BY <1>3, <2>1, <2>2 DEF b
<1> QED
  BY <1>2, <1>3

\* The terminal reads the answer to its registration.
LEMMA RegisterResponseIsRead ==
    ASSUME NEW serial \in Nat, NEW result \in Nat, NEW code \in Seq(Nat)
    PROVE  ReadRegisterResponse(RegisterResponse(serial, result, code))
             = [result |-> result, code |-> IF result = 0 THEN code ELSE <<>>]
<1> DEFINE a == U16(serial)
           r == <<result>>
           c == IF result = 0 THEN code ELSE <<>>
           w == a \o r
           body == w \o c
<1>1. /\ a \in Seq(Nat) /\ Len(a) = 2 /\ r \in Seq(Nat) /\ Len(r) = 1
      /\ c \in Seq(Nat)
  <2>1. a \in Seq(Nat) /\ Len(a) = 2
    BY TwoBytes, Zenon
  <2>2. r \in Seq(Nat) /\ Len(r) = 1
    OBVIOUS
  <2>3. c \in Seq(Nat)
    OBVIOUS
  <2> QED
    BY <2>1, <2>2, <2>3, Zenon
<1> HIDE DEF a, c
<1>2. w \in Seq(Nat) /\ Len(w) = 3 /\ At(w, r, 2, Nat)
  <2> HIDE DEF r
  <2>1. w \in Seq(Nat) /\ Len(w) = Len(a) + Len(r)
    BY <1>1, LongerBy
  <2>2. At(w, r, 2, Nat)
    BY <1>1, NowAt
  <2> QED
    BY <1>1, <2>1, <2>2
<1> HIDE DEF w
<1>3. body \in Seq(Nat) /\ Len(body) = 3 + Len(c)
      /\ At(body, r, 2, Nat) /\ At(body, c, 3, Nat)
  <2>1. body \in Seq(Nat) /\ Len(body) = Len(w) + Len(c)
    BY <1>1, <1>2, LongerBy
  <2>2. At(body, r, 2, Nat)
    BY <1>1, <1>2, StillAt, Zenon
  <2>3. At(body, c, 3, Nat)
    BY <1>1, <1>2, NowAt
  <2> QED
    BY <1>2, <2>1, <2>2, <2>3
<1>4. body = RegisterResponse(serial, result, code)
  BY Zenon DEF w, a, c, RegisterResponse
<1> HIDE DEF body
<1>5. body[3] = result
  <2>1. At(body, <<result>>, 2, Nat)
    BY <1>3, Zenon
  <2> QED
    BY <2>1, ByteAt
<1>6. SubSeq(body, 4, Len(body)) = c
  <2>1. CutOut(body, c, 3)
    BY <1>3, FoundIsCutOut, Zenon
  <2>2. Len(body) = 3 + Len(c)
    BY <1>3, Zenon
  <2> QED
    BY <2>1, <2>2 DEF CutOut
<1>7. (IF result = 0 THEN c ELSE <<>>) = c
  BY DEF c
<1>8. ReadRegisterResponse(body) = [result |-> result, code |-> c]
  BY <1>5, <1>6, <1>7, Zenon DEF ReadRegisterResponse
<1> QED
  BY <1>4, <1>8, Zenon DEF c

\* The terminal reads a general answer wherever it ends after its five bytes,
\* and refuses a shorter one.
LEMMA GeneralResponseIsRead ==
    ASSUME NEW serial \in Nat, NEW id \in Nat, NEW result \in Nat,
           NEW rest \in Seq(Nat), NEW n \in 0..(5 + Len(rest))
    PROVE  ReadGeneralResponse(SubSeq(GeneralResponse(serial, id, result) \o rest, 1, n))
             = IF n < 5 THEN Nothing
               ELSE [serial |-> serial, id |-> id, result |-> result]
<1> DEFINE a == U16(serial)
           b == U16(id)
           r == <<result>>
           x == a \o b
           w == x \o r
           body == w \o rest
           part == SubSeq(body, 1, n)
<1>1. /\ a \in Seq(Nat) /\ Len(a) = 2 /\ b \in Seq(Nat) /\ Len(b) = 2
      /\ r \in Seq(Nat) /\ Len(r) = 1
  <2>1. a \in Seq(Nat) /\ Len(a) = 2 /\ b \in Seq(Nat) /\ Len(b) = 2
    BY TwoBytes, Zenon
  <2>2. r \in Seq(Nat) /\ Len(r) = 1
    OBVIOUS
  <2> QED
    BY <2>1, <2>2, Zenon
<1> HIDE DEF a, b, r
<1>2. x \in Seq(Nat) /\ Len(x) = 4 /\ At(x, a, 0, Nat) /\ At(x, b, 2, Nat)
  <2>1. x \in Seq(Nat) /\ Len(x) = Len(a) + Len(b)
    BY <1>1, LongerBy
  <2>2. At(a, a, 0, Nat)
    BY <1>1, StartsAt
  <2>3. At(x, a, 0, Nat)
    BY <1>1, <2>2, StillAt, Zenon
  <2>4. At(x, b, 2, Nat)
    BY <1>1, NowAt
  <2> QED
    BY <1>1, <2>1, <2>3, <2>4
<1> HIDE DEF x
<1>3. /\ w \in Seq(Nat) /\ Len(w) = 5
      /\ At(w, a, 0, Nat) /\ At(w, b, 2, Nat) /\ At(w, r, 4, Nat)
  <2>1. w \in Seq(Nat) /\ Len(w) = Len(x) + Len(r)
    BY <1>1, <1>2, LongerBy
  <2>2. At(w, a, 0, Nat) /\ At(w, b, 2, Nat)
    BY <1>1, <1>2, StillAt, Zenon
  <2>3. At(w, r, 4, Nat)
    BY <1>1, <1>2, NowAt
  <2> QED
    BY <1>1, <1>2, <2>1, <2>2, <2>3
<1>4. w = GeneralResponse(serial, id, result)
  BY Zenon DEF w, x, a, b, r, GeneralResponse
<1> HIDE DEF w
<1>5. /\ body \in Seq(Nat) /\ Len(body) = 5 + Len(rest)
      /\ At(body, a, 0, Nat) /\ At(body, b, 2, Nat) /\ At(body, r, 4, Nat)
  <2>1. body \in Seq(Nat) /\ Len(body) = Len(w) + Len(rest)
    BY <1>3, LongerBy
  <2>2. At(body, a, 0, Nat) /\ At(body, b, 2, Nat) /\ At(body, r, 4, Nat)
    BY <1>3, StillAt, Zenon
  <2> QED
    BY <1>3, <2>1, <2>2
<1> HIDE DEF body
<1>6. n \in Nat /\ n <= Len(body) /\ Len(part) = n
  BY <1>5
<1> HIDE DEF part
<1>7. CASE n < 5
  <2>1. ReadGeneralResponse(part) = Nothing
    BY <1>6, <1>7 DEF ReadGeneralResponse
  <2> QED
    BY <1>4, <1>7, <2>1 DEF part, body
<1>8. CASE ~ (n < 5)
  <2>1. At(part, a, 0, Nat) /\ At(part, b, 2, Nat) /\ At(part, r, 4, Nat)
    <3>1. 0 + Len(a) <= n /\ 2 + Len(b) <= n /\ 4 + Len(r) <= n
      BY <1>1, <1>6, <1>8
    <3> QED
      BY <1>5, <1>6, <3>1, CutAfter, Zenon DEF part
  <2>2. At(part, U16(serial), 0, Nat) /\ At(part, U16(id), 2, Nat)
        /\ At(part, <<result>>, 4, Nat)
    BY <2>1, Zenon DEF a, b, r
  <2>3. Number16(part, 1) = serial /\ Number16(part, 3) = id
    BY <2>2, NumberAt
  <2>4. part[5] = result
    BY <2>2, ByteAt
  <2>5. ~ (Len(part) < 5)
    BY <1>6, <1>8
  <2>6. ReadGeneralResponse(part) = [serial |-> serial, id |-> id, result |-> result]
    BY <2>3, <2>4, <2>5, Zenon DEF ReadGeneralResponse
  <2>7. ReadGeneralResponse(SubSeq(GeneralResponse(serial, id, result) \o rest, 1, n))
          = [serial |-> serial, id |-> id, result |-> result]
    BY <1>4, <2>6, Zenon DEF part, body
  <2> QED
    BY <1>8, <2>7, Zenon
<1> QED
  BY <1>7, <1>8

-----------------------------------------------------------------------------
(* The dialogue *)

\* The registrations of the checks are ones.
LEMMA SomeIsARegistration ==
    ASSUME NEW plate, Trimmed(plate)
    PROVE  /\ Registration(SomeRegistration(plate))
           /\ SomeRegistration(plate).plate_no = plate
<1> DEFINE r == SomeRegistration(plate)
           m == <<83, 69, 76>>
           d == <<65, 66, 67>>
           e == [i \in 1..8 |-> 48 + i]
<1>1. Trimmed(m) /\ Len(m) <= 5
  BY DEF Trimmed
<1>2. Trimmed(d) /\ Len(d) <= 20
  BY DEF Trimmed
<1>3. Trimmed(e) /\ Len(e) <= 20
  BY DEF Trimmed
<1>4. r = [province_id |-> 13, city_id |-> 300, manufacturer |-> m,
           device_model |-> d, plate_color |-> 1, plate_no |-> plate,
           device_id |-> e]
  BY Zenon DEF SomeRegistration
<1> HIDE DEF r, m, d, e
<1>5. /\ r.province_id = 13 /\ r.city_id = 300 /\ r.plate_color = 1
      /\ r.manufacturer = m /\ r.device_model = d /\ r.device_id = e
      /\ r.plate_no = plate
  BY <1>4
<1>6. r = [province_id |-> r.province_id, city_id |-> r.city_id,
           manufacturer |-> r.manufacturer, device_model |-> r.device_model,
           device_id |-> r.device_id, plate_color |-> r.plate_color,
           plate_no |-> r.plate_no]
  BY <1>4, <1>5
<1>7. /\ r.province_id \in Nat /\ r.city_id \in Nat /\ r.plate_color \in Nat
  BY <1>5
<1>8. Registration(r)
  BY <1>1, <1>2, <1>3, <1>5, <1>6, <1>7, Zenon DEF Registration
<1> QED
  BY <1>5, <1>8, Zenon DEF r

LEMMA DialogueIsReadAlways ==
    ASSUME size \in Nat
    PROVE  DialogueIsRead
<1> DEFINE plate == [i \in 1..size |-> 64 + i]
           sent == SomeRegistration(plate)
           body == BuildRegistration(sent)
           code == BodyOf(size)
<1>1. Trimmed(plate)
  <2>1. plate \in Seq(Nat) /\ Len(plate) = size
    OBVIOUS
  <2>2. \A i \in Nat : i = size /\ i > 0 => plate[i] # 0
    OBVIOUS
  <2> HIDE DEF plate
  <2> QED
    BY <2>1, <2>2 DEF Trimmed
<1>2. Registration(sent)
  BY <1>1, SomeIsARegistration, Zenon
<1>3. code \in Seq(Nat) /\ Len(code) = size
  BY SomeValues, Zenon
<1> HIDE DEF sent, code
<1>4. JtRegistration(body) = sent /\ body \in Seq(Nat)
  BY <1>2, RegistrationIsRead, Zenon
<1> HIDE DEF body
<1>5. \A n \in 0..Len(body) : JtRegistration(SubSeq(body, 1, n)) = Nothing <=> n < 50
  BY <1>4, ShortOnesAreRefused
<1>6. ReadRegisterResponse(RegisterResponse(7, 0, code)) = [result |-> 0, code |-> code]
  <2> DEFINE serial == 7
             result == 0
  <2>1. serial \in Nat /\ result \in Nat
    OBVIOUS
  <2>2. (IF result = 0 THEN code ELSE <<>>) = code
    OBVIOUS
  <2> HIDE DEF serial, result
  <2>3. ReadRegisterResponse(RegisterResponse(serial, result, code))
          = [result |-> result, code |-> IF result = 0 THEN code ELSE <<>>]
    BY <1>3, <2>1, RegisterResponseIsRead, Zenon
  <2> QED
    BY <2>2, <2>3, Zenon DEF serial, result
<1>7. ReadRegisterResponse(RegisterResponse(7, 1, code)) = [result |-> 1, code |-> <<>>]
  <2> DEFINE serial == 7
             result == 1
  <2>1. serial \in Nat /\ result \in Nat
    OBVIOUS
  <2>2. (IF result = 0 THEN code ELSE <<>>) = <<>>
    OBVIOUS
  <2> HIDE DEF serial, result
  <2>3. ReadRegisterResponse(RegisterResponse(serial, result, code))
          = [result |-> result, code |-> IF result = 0 THEN code ELSE <<>>]
    BY <1>3, <2>1, RegisterResponseIsRead, Zenon
  <2> QED
    BY <2>2, <2>3, Zenon DEF serial, result
<1>8. ASSUME NEW n \in 0..(5 + size)
      PROVE  ReadGeneralResponse(SubSeq(GeneralResponse(300 + size, 512, 0) \o code, 1, n))
               = IF n < 5 THEN Nothing
                 ELSE [serial |-> 300 + size, id |-> 512, result |-> 0]
  <2> DEFINE serial == 300 + size
             id == 512
             result == 0
  <2>1. serial \in Nat /\ id \in Nat /\ result \in Nat /\ n \in 0..(5 + Len(code))
    BY <1>3
  <2> HIDE DEF serial, id, result
  <2>2. ReadGeneralResponse(SubSeq(GeneralResponse(serial, id, result) \o code, 1, n))
          = IF n < 5 THEN Nothing
            ELSE [serial |-> serial, id |-> id, result |-> result]
    BY <1>3, <2>1, GeneralResponseIsRead
  <2> QED
    BY <2>2 DEF serial, id, result
<1> QED
  BY <1>4, <1>5, <1>6, <1>7, <1>8 DEF DialogueIsRead, body, sent, code

-----------------------------------------------------------------------------
(* The loop over the parameters of an answer and its equations *)

\* What the loop stores: values under the bytes of ids.
ParamDicts == Dicts(Seq(Nat), Seq(Nat))

\* No parameter is stored in a dictionary.
LEMMA NothingStored == NoFields \in ParamDicts
BY NoFieldsIsDict DEF ParamDicts

\* So is one parameter.
LEMMA OneStored ==
    ASSUME NEW id \in Seq(Nat), NEW value \in Seq(Nat)
    PROVE  Field(id, value) \in ParamDicts
BY FieldIsDict DEF ParamDicts

\* So is one dictionary after another.
LEMMA BothStored ==
    ASSUME NEW f \in ParamDicts, NEW g \in ParamDicts
    PROVE  Updated(f, g) \in ParamDicts
BY UpdatedIsDict DEF ParamDicts

\* Nothing more, or nothing before, changes nothing.
LEMMA NothingMore ==
    ASSUME NEW f \in ParamDicts
    PROVE  Updated(f, NoFields) = f /\ Updated(NoFields, f) = f
BY UpdatedWithNothing DEF ParamDicts

\* One round of the loop of ReadParams.
Round(data, i, later) == ParamIteration(data, i, later, Len(data) - 4)

\* A round stores a parameter that begins where the round does.
LEMMA RoundIs ==
    ASSUME NEW data \in Seq(Nat), NEW i \in Nat \ {0}, i + 4 <= Len(data), NEW g
    PROVE  LET next == i + 5 + data[i + 4]
               end == IF next > Len(data) THEN Len(data) ELSE next - 1
           IN  /\ data[i + 4] \in Nat
               /\ SubSeq(data, i, i + 3) \in Seq(Nat)
               /\ SubSeq(data, i + 5, end) \in Seq(Nat)
               /\ Round(data, i, g)
                    = Updated(Field(SubSeq(data, i, i + 3), SubSeq(data, i + 5, end)),
                              IF next > Len(data) THEN NoFields ELSE g[next])
<1> DEFINE n == Len(data)
           room == data[i + 4]
           next == i + 5 + room
           end == IF next > n THEN n ELSE next - 1
           key == SubSeq(data, i, i + 3)
           value == SubSeq(data, i + 5, end)
<1>1. n \in Nat /\ room \in Nat /\ next \in Nat /\ end \in Nat /\ end <= n
  OBVIOUS
<1>2. key \in Seq(Nat)
  OBVIOUS
<1>3. value \in Seq(Nat)
  <2> HIDE DEF end
  <2> QED
    BY <1>1
<1>4. ~ (i > n - 4)
  BY <1>1
<1> HIDE DEF key
<1>5. Round(data, i, g) = Updated(Field(key, value), IF next > n THEN NoFields ELSE g[next])
  BY <1>4, Zenon DEF Round, ParamIteration, key
<1> QED
  BY <1>1, <1>2, <1>3, <1>5, Zenon DEF key

\* One that would begin too late stores nothing.
LEMMA RoundAtEnd ==
    ASSUME NEW data \in Seq(Nat), NEW i \in Nat, i + 4 > Len(data), NEW g
    PROVE  Round(data, i, g) = NoFields
<1>1. i > Len(data) - 4
  OBVIOUS
<1> QED
  BY <1>1, Zenon DEF Round, ParamIteration

\* The next round is a later one.
LEMMA NextIsLater ==
    ASSUME NEW data \in Seq(Nat), NEW i \in Nat \ {0}, NEW room \in Nat,
           ~ (i + 5 + room > Len(data))
    PROVE  i + 5 + room \in 1..(Len(data) + 1) /\ i + 5 + room > i
OBVIOUS

\* What a round stores is a dictionary if later rounds store one.
LEMMA RoundType ==
    ASSUME NEW data \in Seq(Nat), NEW i \in 1..(Len(data) + 1), NEW g,
           \A j \in 1..(Len(data) + 1) : j > i => g[j] \in ParamDicts
    PROVE  Round(data, i, g) \in ParamDicts
<1>1. CASE i + 4 > Len(data)
  BY <1>1, RoundAtEnd, NothingStored
<1>2. CASE ~ (i + 4 > Len(data))
  <2> DEFINE next == i + 5 + data[i + 4]
             end == IF next > Len(data) THEN Len(data) ELSE next - 1
             key == SubSeq(data, i, i + 3)
             value == SubSeq(data, i + 5, end)
             rest == IF next > Len(data) THEN NoFields ELSE g[next]
  <2>1. i \in Nat \ {0} /\ i + 4 <= Len(data)
    BY <1>2
  <2>2. /\ data[i + 4] \in Nat /\ key \in Seq(Nat) /\ value \in Seq(Nat)
        /\ Round(data, i, g) = Updated(Field(key, value), rest)
    BY <2>1, RoundIs, Zenon
  <2>3. rest \in ParamDicts
    <3>1. CASE next > Len(data)
      BY <3>1, NothingStored
    <3>2. CASE ~ (next > Len(data))
      <4>1. next \in 1..(Len(data) + 1) /\ next > i
        BY <2>1, <2>2, <3>2, NextIsLater, Zenon
      <4> QED
        BY <3>2, <4>1
    <3> QED
      BY <3>1, <3>2
  <2> HIDE DEF key, value, rest
  <2> QED
    BY <2>2, <2>3, OneStored, BothStored
<1> QED
  BY <1>1, <1>2

\* A round depends on later rounds only.
LEMMA RoundLooksAhead ==
    ASSUME NEW data \in Seq(Nat), NEW i \in 1..(Len(data) + 1), NEW g, NEW h,
           \A j \in 1..(Len(data) + 1) : j > i => g[j] = h[j]
    PROVE  Round(data, i, g) = Round(data, i, h)
<1>1. CASE i + 4 > Len(data)
  BY <1>1, RoundAtEnd
<1>2. CASE ~ (i + 4 > Len(data))
  <2> DEFINE next == i + 5 + data[i + 4]
             rest(f) == IF next > Len(data) THEN NoFields ELSE f[next]
  <2>1. i \in Nat \ {0} /\ i + 4 <= Len(data)
    BY <1>2
  <2>2. data[i + 4] \in Nat
    BY <2>1
  <2>3. rest(g) = rest(h)
    <3>1. CASE ~ (next > Len(data))
      <4>1. next \in 1..(Len(data) + 1) /\ next > i
        BY <2>1, <2>2, <3>1, NextIsLater, Zenon
      <4> QED
        BY <3>1, <4>1
    <3> QED
      BY <3>1
  <2> QED
    BY <2>3, Zenon DEF Round, ParamIteration
<1> QED
  BY <1>1, <1>2

\* f holds what the loop stores from every position on.
Rounds(f, data) == \A i \in 1..(Len(data) + 1) : f[i] = Round(data, i, f)

\* What the loop stores of the parameters in data.
Stored(data) == ParamLoop(data, Len(data) - 4)

\* The loop stores what its equations say.
LEMMA StoredUnfolds ==
    ASSUME NEW data \in Seq(Nat)
    PROVE  \E f : Rounds(f, data) /\ Stored(data) = f[1]
<1> DEFINE n == Len(data) + 1
           V == ParamDicts
           F == [i \in 1..n |-> [g \in [1..n -> V] |-> Round(data, i, g)]]
<1>1. n \in Nat /\ V # {}
  BY NothingStored
<1>2. ASSUME NEW i \in 1..n, NEW g \in [1..n -> V]
      PROVE  Round(data, i, g) \in V
  <2>1. \A j \in 1..n : j > i => g[j] \in V
    OBVIOUS
  <2> QED
    BY <2>1, RoundType
<1>3. ASSUME NEW i \in 1..n, NEW g \in [1..n -> V], NEW h \in [1..n -> V],
             \A j \in 1..n : j > i => g[j] = h[j]
      PROVE  Round(data, i, g) = Round(data, i, h)
  BY <1>3, RoundLooksAhead
<1>4. PICK g : Solves(g, F, 1..n, V)
  <2> HIDE DEF n, V
  <2>1. F \in [1..n -> [[1..n -> V] -> V]]
    BY <1>2
  <2>2. \A i \in 1..n : \A g, h \in [1..n -> V] :
          (\A j \in 1..n : j > i => g[j] = h[j]) => F[i][g] = F[i][h]
    BY <1>3
  <2> HIDE DEF F
  <2>3. LooksAhead(F, n, V)
    BY <1>1, <2>1, <2>2, Zenon DEF LooksAhead
  <2> QED
    BY <2>3, AheadExists, Zenon
<1>5. g = [i \in 1..n |-> Round(data, i, g)]
  <2> HIDE DEF n, V
  <2> QED
    BY <1>4 DEF Solves
<1> DEFINE f == CHOOSE f : f = [i \in 1..(Len(data) + 1) |->
                                  ParamIteration(data, i, f, Len(data) - 4)]
<1>6. f = [i \in 1..n |-> Round(data, i, f)]
  BY <1>5, Zenon DEF Round
<1>7. Stored(data) = f[1]
  BY Zenon DEF Stored, ParamLoop
<1> HIDE DEF f
<1>8. \A i \in 1..n : f[i] = Round(data, i, f)
  BY <1>6, Zenon
<1> QED
  BY <1>7, <1>8, Zenon DEF Rounds

-----------------------------------------------------------------------------
(* The loop stores a parameter *)

\* One round stores the same where one sequence goes on as another one.
LEMMA RoundShifted ==
    ASSUME NEW p \in Seq(Nat), NEW t \in Seq(Nat), NEW f, NEW g,
           NEW i \in 1..(Len(t) + 1), AsFrom(i + 1, f, p, g, t)
    PROVE  Round(p \o t, Len(p) + i, f) = Round(t, i, g)
<1> DEFINE u == p \o t
           m == Len(p)
           n == Len(t)
           j == m + i
<1>1. /\ m \in Nat /\ n \in Nat /\ i \in Nat \ {0} /\ i <= n + 1
      /\ u \in Seq(Nat) /\ Len(u) = m + n /\ j \in Nat \ {0}
  OBVIOUS
<1>2. CASE i + 4 > n
  <2>1. j + 4 > Len(u)
    BY <1>1, <1>2
  <2> HIDE DEF u, j
  <2>2. Round(u, j, f) = NoFields /\ Round(t, i, g) = NoFields
    BY <1>1, <1>2, <2>1, RoundAtEnd
  <2> QED
    BY <2>2, Zenon DEF u, j
<1>3. CASE ~ (i + 4 > n)
  <2> DEFINE room == t[i + 4]
             next == i + 5 + room
             end == IF next > n THEN n ELSE next - 1
             key == SubSeq(t, i, i + 3)
             value == SubSeq(t, i + 5, end)
             rest == IF next > n THEN NoFields ELSE g[next]
             Next1 == j + 5 + u[j + 4]
             End1 == IF Next1 > Len(u) THEN Len(u) ELSE Next1 - 1
             Key1 == SubSeq(u, j, j + 3)
             Value1 == SubSeq(u, j + 5, End1)
             Rest1 == IF Next1 > Len(u) THEN NoFields ELSE f[Next1]
  <2>1. i + 4 <= n /\ j + 4 <= Len(u)
    BY <1>1, <1>3
  <2>2. Round(t, i, g) = Updated(Field(key, value), rest) /\ room \in Nat
    BY <1>1, <2>1, RoundIs, Zenon
  <2>3. Round(u, j, f) = Updated(Field(Key1, Value1), Rest1)
    <3> HIDE DEF u, j
    <3> QED
      BY <1>1, <2>1, RoundIs, Zenon
  <2>4. u[j + 4] = room
    BY <1>1, <2>1
  <2>5. Next1 = m + next /\ next \in Nat /\ next > i
    <3> HIDE DEF u, room
    <3> QED
      BY <1>1, <2>2, <2>4
  <2> HIDE DEF room, Next1, next
  <2>6. End1 = m + end /\ end \in Nat /\ end <= n
    <3> HIDE DEF u
    <3> QED
      BY <1>1, <2>5
  <2>7. Key1 = key
    <3> DEFINE x == j + 3
               y == i + 3
    <3>1. /\ i \in Nat \ {0} /\ y \in Int /\ y <= Len(t) /\ j \in Int /\ x \in Int
          /\ j = Len(p) + i /\ x = Len(p) + y
      BY <1>1, <2>1
    <3> HIDE DEF x, y, j, m, u
    <3>2. SubSeq(p \o t, j, x) = SubSeq(t, i, y)
      BY <3>1, SubSeqOfRight, SMTT(30)
    <3> QED
      BY <3>2, Zenon DEF x, y, u
  <2>8. Value1 = value
    <3> DEFINE x == j + 5
               a == i + 5
    <3>1. /\ a \in Nat \ {0} /\ end \in Int /\ x \in Int /\ End1 \in Int
          /\ x = Len(p) + a /\ End1 = Len(p) + end /\ end <= Len(t)
      BY <1>1, <2>6
    <3> HIDE DEF end, End1, x, a, j, m, u
    <3>2. SubSeq(p \o t, x, End1) = SubSeq(t, a, end)
      BY <3>1, SubSeqOfRight, SMTT(30)
    <3> QED
      BY <3>2, Zenon DEF x, a, u
  <2>9. Rest1 = rest
    <3>1. CASE next > n
      <4>1. Next1 > Len(u)
        <5> HIDE DEF u
        <5> QED
          BY <1>1, <2>5, <3>1
      <4> QED
        BY <3>1, <4>1
    <3>2. CASE ~ (next > n)
      <4>1. ~ (Next1 > Len(u)) /\ next \in (i + 1)..(Len(t) + 1)
        <5>1. next \in (i + 1)..(n + 1)
          <6> HIDE DEF n
          <6> QED
            BY <1>1, <2>5, <3>2
        <5>2. ~ (Next1 > Len(u))
          <6> HIDE DEF u, m, n
          <6> QED
            BY <1>1, <2>5, <3>2
        <5> QED
          BY <5>1, <5>2
      <4>2. f[m + next] = g[next]
        BY <4>1, Zenon DEF AsFrom, m
      <4> QED
        BY <2>5, <3>2, <4>1, <4>2
    <3> QED
      BY <3>1, <3>2
  <2> HIDE DEF u, m, j, key, value, rest, Key1, Value1, Rest1
  <2> QED
    BY <2>2, <2>3, <2>7, <2>8, <2>9, Zenon DEF u, j, m
<1> QED
  BY <1>2, <1>3

\* So do all rounds.
LEMMA RoundsShifted ==
    ASSUME NEW p \in Seq(Nat), NEW t \in Seq(Nat), NEW f, NEW g,
           Rounds(f, p \o t), Rounds(g, t)
    PROVE  AsFrom(1, f, p, g, t)
<1> DEFINE n == Len(t) + 1
           m == Len(p)
           S == {i \in Nat : f[m + i] = g[i]}
<1>1. n \in Nat /\ m \in Nat /\ Len(p \o t) + 1 = m + n
  OBVIOUS
<1>2. ASSUME NEW i \in 1..n, \A k \in (i + 1)..n : k \in S
      PROVE  i \in S
  <2>1. \A k \in (i + 1)..n : f[m + k] = g[k]
    BY <1>2
  <2>2. Round(p \o t, m + i, f) = Round(t, i, g)
    <3>1. AsFrom(i + 1, f, p, g, t)
      BY <2>1 DEF AsFrom
    <3>2. i \in 1..(Len(t) + 1)
      OBVIOUS
    <3> HIDE DEF n
    <3>3. Round(p \o t, Len(p) + i, f) = Round(t, i, g)
      BY <3>1, <3>2, RoundShifted
    <3> QED
      BY <3>3, Zenon DEF m
  <2>3. m + i \in 1..(Len(p \o t) + 1)
    BY <1>1
  <2>4. f[m + i] = Round(p \o t, m + i, f)
    BY <2>3, Zenon DEF Rounds
  <2>5. g[i] = Round(t, i, g)
    BY Zenon DEF Rounds
  <2>6. f[m + i] = g[i] /\ i \in Nat
    BY <2>2, <2>4, <2>5
  <2> QED
    BY <2>6
<1>3. 1..n \subseteq S
  <2> HIDE DEF S, n
  <2> QED
    BY <1>1, <1>2, DownwardInduction
<1> QED
  BY <1>3 DEF AsFrom

\* Where the parts of a parameter are found: the bytes of its id, the length
\* that is told, and the value.
ParamAt(u, id, room, value, t) ==
    /\ u \in Seq(Nat) /\ Len(u) = 5 + Len(value) + Len(t)
    /\ SubSeq(u, 1, 4) = id
    /\ u[5] = room
    /\ SubSeq(u, 6, 5 + Len(value)) = value

\* The parts of a parameter are found there.
LEMMA ParamLaidOut ==
    ASSUME NEW id \in Seq(Nat), Len(id) = 4, NEW room \in Nat,
           NEW value \in Seq(Nat), NEW t \in Seq(Nat)
    PROVE  ParamAt((id \o <<room>> \o value) \o t, id, room, value, t)
<1> DEFINE r == <<room>>
           x == id \o r
           w == x \o value
           u == w \o t
<1>1. r \in Seq(Nat) /\ Len(r) = 1
  OBVIOUS
<1> HIDE DEF r
<1>2. x \in Seq(Nat) /\ Len(x) = 5 /\ At(x, id, 0, Nat) /\ At(x, r, 4, Nat)
  <2>1. x \in Seq(Nat) /\ Len(x) = Len(id) + Len(r)
    BY <1>1, LongerBy
  <2>2. At(id, id, 0, Nat)
    BY StartsAt
  <2>3. At(x, id, 0, Nat)
    BY <1>1, <2>2, StillAt, Zenon
  <2>4. At(x, r, 4, Nat)
    BY <1>1, NowAt
  <2> QED
    BY <1>1, <2>1, <2>3, <2>4
<1> HIDE DEF x
<1>3. /\ w \in Seq(Nat) /\ Len(w) = 5 + Len(value)
      /\ At(w, id, 0, Nat) /\ At(w, r, 4, Nat) /\ At(w, value, 5, Nat)
  <2>1. w \in Seq(Nat) /\ Len(w) = Len(x) + Len(value)
    BY <1>2, LongerBy
  <2>2. At(w, id, 0, Nat) /\ At(w, r, 4, Nat)
    BY <1>1, <1>2, StillAt, Zenon
  <2>3. At(w, value, 5, Nat)
    BY <1>2, NowAt
  <2> QED
    BY <1>2, <2>1, <2>2, <2>3
<1> HIDE DEF w
<1>4. /\ u \in Seq(Nat) /\ Len(u) = 5 + Len(value) + Len(t)
      /\ At(u, id, 0, Nat) /\ At(u, r, 4, Nat) /\ At(u, value, 5, Nat)
  <2>1. u \in Seq(Nat) /\ Len(u) = Len(w) + Len(t)
    BY <1>3, LongerBy
  <2>2. At(u, id, 0, Nat) /\ At(u, r, 4, Nat) /\ At(u, value, 5, Nat)
    BY <1>3, StillAt, Zenon
  <2> QED
    BY <1>3, <2>1, <2>2
<1> HIDE DEF u
<1>5. SubSeq(u, 1, 4) = id
  <2>1. CutOut(u, id, 0)
    BY <1>4, FoundIsCutOut, Zenon
  <2> QED
    BY <2>1 DEF CutOut
<1>6. u[5] = room
  <2>1. At(u, <<room>>, 4, Nat)
    BY <1>4, Zenon DEF r
  <2> QED
    BY <2>1, ByteAt
<1>7. SubSeq(u, 6, 5 + Len(value)) = value
  <2>1. CutOut(u, value, 5)
    BY <1>4, FoundIsCutOut, Zenon
  <2> QED
    BY <2>1 DEF CutOut
<1>8. ParamAt(u, id, room, value, t)
  BY <1>4, <1>5, <1>6, <1>7, Zenon DEF ParamAt
<1> QED
  BY <1>8, Zenon DEF u, w, x, r

\* What the loop stores where there is too little for a parameter.
LEMMA TooShortStoresNothing ==
    ASSUME NEW t \in Seq(Nat), Len(t) < 5
    PROVE  Stored(t) = NoFields
<1>1. PICK g : Rounds(g, t) /\ Stored(t) = g[1]
  BY StoredUnfolds, Zenon
<1>2. 1 \in 1..(Len(t) + 1) /\ 1 + 4 > Len(t) /\ 1 \in Nat
  OBVIOUS
<1>3. g[1] = Round(t, 1, g)
  BY <1>1, <1>2, Zenon DEF Rounds
<1>4. Round(t, 1, g) = NoFields
  BY <1>2, RoundAtEnd
<1> QED
  BY <1>1, <1>3, <1>4, Zenon

\* It is a dictionary.
LEMMA StoredType ==
    ASSUME NEW data \in Seq(Nat)
    PROVE  Stored(data) \in ParamDicts
<1>1. PICK f : Rounds(f, data) /\ Stored(data) = f[1]
  BY StoredUnfolds, Zenon
<1> DEFINE n == Len(data) + 1
           S == {i \in Nat : f[i] \in ParamDicts}
<1>2. n \in Nat /\ 1 \in 1..n
  OBVIOUS
<1>3. ASSUME NEW i \in 1..n, \A k \in (i + 1)..n : k \in S
      PROVE  i \in S
  <2>1. \A j \in 1..n : j > i => j \in (i + 1)..n
    BY <1>2
  <2>2. \A j \in 1..(Len(data) + 1) : j > i => f[j] \in ParamDicts
    BY <1>3, <2>1
  <2>3. Round(data, i, f) \in ParamDicts
    BY <2>2, RoundType
  <2>4. f[i] = Round(data, i, f)
    BY <1>1, Zenon DEF Rounds
  <2> QED
    BY <2>3, <2>4
<1>4. 1..n \subseteq S
  <2> HIDE DEF S, n
  <2> QED
    BY <1>2, <1>3, DownwardInduction
<1> QED
  BY <1>1, <1>2, <1>4

\* The length told is that of the value, or the bytes end within the value.
Fits(room, value, t) == room = Len(value) \/ (room > Len(value) /\ t = <<>>)

\* The first round, for bytes that begin with a parameter.
LEMMA FirstRound ==
    ASSUME NEW id \in Seq(Nat), NEW room \in Nat, NEW value \in Seq(Nat),
           NEW t \in Seq(Nat), NEW u, ParamAt(u, id, room, value, t), NEW f,
           Fits(room, value, t)
    PROVE  Round(u, 1, f)
             = Updated(Field(id, value),
                       IF room + 6 > Len(u) THEN NoFields ELSE f[room + 6])
<1> DEFINE n == Len(u)
           d == Len(value)
           next == 1 + 5 + u[1 + 4]
           end == IF next > n THEN n ELSE next - 1
<1>1. /\ u \in Seq(Nat) /\ n = 5 + d + Len(t) /\ SubSeq(u, 1, 4) = id
      /\ u[5] = room /\ SubSeq(u, 6, 5 + d) = value
  BY Zenon DEF ParamAt
<1>2. d \in Nat /\ Len(t) \in Nat /\ (t = <<>> => Len(t) = 0)
  OBVIOUS
<1>3. 1 \in Nat \ {0} /\ 1 + 4 <= n /\ 1 + 4 = 5 /\ 1 + 3 = 4 /\ 1 + 5 = 6
  <2> HIDE DEF d, n
  <2> QED
    BY <1>1, <1>2
<1>4. Round(u, 1, f) = Updated(Field(SubSeq(u, 1, 1 + 3), SubSeq(u, 1 + 5, end)),
                               IF next > n THEN NoFields ELSE f[next])
  BY <1>1, <1>3, RoundIs, Zenon
<1>5. next = room + 6
  <2>1. u[1 + 4] = room
    BY <1>1, <1>3, Zenon
  <2> DEFINE e == u[1 + 4]
  <2>2. e = room /\ next = 1 + 5 + e
    BY <2>1
  <2> HIDE DEF e, next
  <2> QED
    BY <2>2
<1>6. end = 5 + d
  <2> HIDE DEF next, n, d
  <2>1. CASE room = Len(value)
    <3>1. room = d
      BY <2>1 DEF d
    <3> QED
      BY <1>1, <1>2, <1>5, <3>1
  <2>2. CASE room > Len(value) /\ t = <<>>
    <3>1. room > d /\ Len(t) = 0
      BY <1>2, <2>2 DEF d
    <3> QED
      BY <1>1, <1>2, <1>5, <3>1
  <2> QED
    BY <2>1, <2>2 DEF Fits
<1> HIDE DEF next, end, n
<1> QED
  BY <1>1, <1>3, <1>4, <1>5, <1>6, Zenon DEF n, d

\* A whole parameter is stored, and what follows it is stored as if it stood alone.
LEMMA ParamIsStored ==
    ASSUME NEW id \in Seq(Nat), Len(id) = 4, NEW value \in Seq(Nat), NEW t \in Seq(Nat)
    PROVE  Stored((id \o <<Len(value)>> \o value) \o t)
             = Updated(Field(id, value), Stored(t))
<1> DEFINE d == Len(value)
           n == Len(t)
           p == id \o <<d>> \o value
           u == p \o t
           w == 5 + d
<1>1. d \in Nat /\ n \in Nat
  OBVIOUS
<1>2. ParamAt(u, id, d, value, t)
  BY <1>1, ParamLaidOut, Zenon
<1>3. p \in Seq(Nat) /\ Len(p) = w
  <2>1. <<>> \in Seq(Nat)
    OBVIOUS
  <2>2. ParamAt(p \o <<>>, id, d, value, <<>>)
    BY <1>1, <2>1, ParamLaidOut, Zenon
  <2>3. p \in Seq(Nat)
    <3>1. <<d>> \in Seq(Nat)
      BY <1>1
    <3> DEFINE r == <<d>>
               x == id \o r
    <3> HIDE DEF r
    <3>2. x \in Seq(Nat)
      BY <3>1 DEF r
    <3> HIDE DEF x
    <3>3. x \o value \in Seq(Nat)
      BY <3>2
    <3> QED
      BY <3>3 DEF x, r
  <2> HIDE DEF p
  <2>4. p \o <<>> = p
    BY <2>3
  <2>5. Len(p) = 5 + Len(value) + Len(<<>>)
    BY <2>2, <2>4, Zenon DEF ParamAt
  <2> QED
    BY <1>1, <2>3, <2>5
<1> HIDE DEF p
<1>4. u \in Seq(Nat) /\ Len(u) = w + n
  BY <1>2, Zenon DEF ParamAt
<1>5. PICK f : Rounds(f, u) /\ Stored(u) = f[1]
  BY <1>4, StoredUnfolds, Zenon
<1>6. PICK g : Rounds(g, t) /\ Stored(t) = g[1]
  BY StoredUnfolds, Zenon
<1>7. f[w + 1] = g[1]
  <2>1. AsFrom(1, f, p, g, t)
    BY <1>3, <1>5, <1>6, RoundsShifted, Zenon DEF u
  <2>2. 1 \in 1..(n + 1)
    BY <1>1
  <2> QED
    BY <1>3, <2>1, <2>2, Zenon DEF AsFrom
<1> HIDE DEF u
<1>8. f[1] = Updated(Field(id, value), IF d + 6 > w + n THEN NoFields ELSE f[d + 6])
  <2>1. 1 \in 1..(Len(u) + 1)
    BY <1>1, <1>4
  <2>2. f[1] = Round(u, 1, f)
    BY <1>5, <2>1, Zenon DEF Rounds
  <2>3. Round(u, 1, f) = Updated(Field(id, value),
                                 IF d + 6 > Len(u) THEN NoFields ELSE f[d + 6])
    <3>1. d = Len(value) /\ Fits(d, value, t)
      BY DEF Fits
    <3> HIDE DEF d
    <3> QED
      BY <1>1, <1>2, <3>1, FirstRound
  <2> QED
    BY <1>4, <2>2, <2>3, Zenon
<1>9. (IF d + 6 > w + n THEN NoFields ELSE f[d + 6]) = Stored(t)
  <2>1. d + 6 = w + 1
    BY <1>1
  <2>2. CASE d + 6 > w + n
    <3>1. Len(t) < 5
      BY <1>1, <2>2
    <3> QED
      BY <2>2, <3>1, TooShortStoresNothing
  <2>3. CASE ~ (d + 6 > w + n)
    BY <1>6, <1>7, <2>1, <2>3, Zenon
  <2> QED
    BY <2>2, <2>3
<1> QED
  BY <1>5, <1>8, <1>9, Zenon DEF u, p

\* Of a parameter that is cut in its value, what is there is stored.
LEMMA CutParamIsStored ==
    ASSUME NEW id \in Seq(Nat), Len(id) = 4, NEW room \in Nat,
           NEW value \in Seq(Nat), Len(value) < room
    PROVE  Stored(id \o <<room>> \o value) = Field(id, value)
<1> DEFINE p == id \o <<room>> \o value
           d == Len(value)
<1>1. d \in Nat /\ <<>> \in Seq(Nat) /\ d < room
  OBVIOUS
<1>2. ParamAt(p \o <<>>, id, room, value, <<>>)
  BY <1>1, ParamLaidOut, Zenon
<1>3. p \in Seq(Nat)
  <2> DEFINE r == <<room>>
             x == id \o r
  <2>1. r \in Seq(Nat)
    OBVIOUS
  <2> HIDE DEF r
  <2>2. x \in Seq(Nat)
    BY <2>1
  <2> HIDE DEF x
  <2>3. x \o value \in Seq(Nat)
    BY <2>2
  <2> QED
    BY <2>3 DEF x, r
<1> HIDE DEF p
<1>4. p \o <<>> = p
  BY <1>3
<1>5. ParamAt(p, id, room, value, <<>>)
  BY <1>2, <1>4
<1>6. Len(p) = 5 + d
  <2>1. Len(p) = 5 + d + Len(<<>>)
    BY <1>5, Zenon DEF ParamAt
  <2> QED
    BY <1>1, <2>1
<1>7. PICK f : Rounds(f, p) /\ Stored(p) = f[1]
  BY <1>3, StoredUnfolds, Zenon
<1>8. f[1] = Round(p, 1, f)
  <2>1. 1 \in 1..(Len(p) + 1)
    BY <1>1, <1>6
  <2> QED
    BY <1>7, <2>1, Zenon DEF Rounds
<1>9. room > Len(value) /\ room + 6 > Len(p)
  BY <1>1, <1>6
<1>10. Round(p, 1, f) = Updated(Field(id, value),
                                IF room + 6 > Len(p) THEN NoFields ELSE f[room + 6])
  <2> DEFINE e == <<>>
  <2>1. e \in Seq(Nat) /\ ParamAt(p, id, room, value, e) /\ Fits(room, value, e)
    BY <1>1, <1>5, <1>9, Zenon DEF Fits
  <2> HIDE DEF e
  <2> QED
    BY <2>1, FirstRound
<1>11. Updated(Field(id, value), NoFields) = Field(id, value)
  BY OneStored, NothingMore
<1> QED
  BY <1>7, <1>8, <1>9, <1>10, <1>11, Zenon DEF p

-----------------------------------------------------------------------------
(* Answers of whole parameters *)

\* Parameters of any id and any value.
AnyParams == [id : Nat, value : Seq(Nat)]
\* What is written of a parameter, as a function.
Written == [x \in AnyParams |-> Item(x)]
\* The bytes of parameters.
Body(s) == FlatMap(Written, s)
\* What a parameter says.
Tells(x) == Field(U32(x.id), x.value)

\* An id is written in four bytes.
LEMMA FourBytes ==
    ASSUME NEW n \in Nat
    PROVE  U32(n) \in Seq(Nat) /\ Len(U32(n)) = 4
<1> DEFINE a == n \div 65536
           b == n % 65536
           p == U16(a)
           q == U16(b)
<1>1. a \in Nat /\ b \in Nat
  OBVIOUS
<1>2. U32(n) = p \o q
  BY DEF U32
<1> HIDE DEF a, b
<1>3. p \in Seq(Nat) /\ Len(p) = 2 /\ q \in Seq(Nat) /\ Len(q) = 2
  BY <1>1, TwoBytes
<1> HIDE DEF p, q
<1>4. p \o q \in Seq(Nat) /\ Len(p \o q) = 4
  <2>1. p \o q \in Seq(Nat) /\ Len(p \o q) = Len(p) + Len(q)
    BY <1>3, LongerBy, Zenon
  <2> QED
    BY <1>3, <2>1
<1> QED
  BY <1>2, <1>4

\* A parameter is written as its id, the length of its value, and its value.
LEMMA ItemIs ==
    ASSUME NEW x \in AnyParams
    PROVE  /\ U32(x.id) \in Seq(Nat) /\ Len(U32(x.id)) = 4
           /\ x.value \in Seq(Nat) /\ Len(x.value) \in Nat
           /\ Item(x) = U32(x.id) \o <<Len(x.value)>> \o x.value
           /\ Item(x) \in Seq(Nat) /\ Len(Item(x)) = 5 + Len(x.value)
<1> DEFINE id == U32(x.id)
           v == x.value
           r == <<Len(v)>>
           h == id \o r
<1>1. x.id \in Nat /\ v \in Seq(Nat)
  BY DEF AnyParams
<1>2. id \in Seq(Nat) /\ Len(id) = 4
  BY <1>1, FourBytes
<1> HIDE DEF id, v
<1>3. r \in Seq(Nat) /\ Len(r) = 1 /\ Len(v) \in Nat
  BY <1>1
<1> HIDE DEF r
<1>4. h \in Seq(Nat) /\ Len(h) = 5
  <2>1. h \in Seq(Nat) /\ Len(h) = Len(id) + Len(r)
    BY <1>2, <1>3, LongerBy, Zenon
  <2> HIDE DEF h
  <2> QED
    BY <1>2, <1>3, <2>1
<1> HIDE DEF h
<1>5. h \o v \in Seq(Nat) /\ Len(h \o v) = 5 + Len(v)
  BY <1>1, <1>4, LongerBy
<1>6. Item(x) = h \o v
  BY Zenon DEF Item, h, r, v, id
<1>7. h \o v = id \o <<Len(v)>> \o v
  BY Zenon DEF h, r
<1>8. /\ id \in Seq(Nat) /\ Len(id) = 4 /\ v \in Seq(Nat) /\ Len(v) \in Nat
      /\ Item(x) = id \o <<Len(v)>> \o v
      /\ Item(x) \in Seq(Nat) /\ Len(Item(x)) = 5 + Len(v)
  BY <1>1, <1>2, <1>3, <1>5, <1>6, <1>7
<1> QED
  BY <1>8, Zenon DEF id, v

\* Bytes are written for every parameter.
LEMMA WrittenType == Written \in [AnyParams -> Seq(Nat)]
BY ItemIs DEF Written

\* The bytes of parameters are a sequence.
LEMMA BodyType ==
    ASSUME NEW s \in Seq(AnyParams)
    PROVE  Body(s) \in Seq(Nat) /\ Len(Body(s)) \in Nat
<1>1. Body(s) \in Seq(Nat)
  BY WrittenType, FlatMapType DEF Body
<1> QED
  BY <1>1

\* One parameter more appends its bytes.
LEMMA BodyAppend ==
    ASSUME NEW s \in Seq(AnyParams), NEW x \in AnyParams
    PROVE  Body(Append(s, x)) = Body(s) \o Item(x)
<1>1. FlatMap(Written, Append(s, x)) = FlatMap(Written, s) \o Written[x]
  BY WrittenType, FlatMapAppend, Zenon
<1>2. Written[x] = Item(x)
  BY Zenon DEF Written
<1> QED
  BY <1>1, <1>2, Zenon DEF Body

\* The bytes of two sequences follow each other.
LEMMA BodyConcat ==
    ASSUME NEW s \in Seq(AnyParams), NEW t \in Seq(AnyParams)
    PROVE  Body(s \o t) = Body(s) \o Body(t)
<1>1. FlatMap(Written, s \o t) = FlatMap(Written, s) \o FlatMap(Written, t)
  <2> DEFINE h == Written
  <2>1. h \in [AnyParams -> Seq(Nat)]
    BY WrittenType
  <2> HIDE DEF h
  <2>2. FlatMap(h, s \o t) = FlatMap(h, s) \o FlatMap(h, t)
    BY <2>1, FlatMapConcat
  <2> QED
    BY <2>2, Zenon DEF h
<1> QED
  BY <1>1, Zenon DEF Body

\* One parameter more overrides what is meant.
LEMMA MeaningAppend ==
    ASSUME NEW s \in Seq(AnyParams), NEW x \in AnyParams
    PROVE  Meaning(Append(s, x)) = Updated(Meaning(s), Tells(x))
<1> DEFINE M == {Tells(p) : p \in AnyParams}
           a == [i \in 1..Len(s) |-> Tells(s[i])]
           y == Append(s, x)
           b == [i \in 1..Len(y) |-> Tells(y[i])]
<1>1. /\ Len(s) \in Nat /\ Len(y) = Len(s) + 1 /\ y[Len(s) + 1] = x
      /\ \A i \in 1..Len(s) : y[i] = s[i] /\ s[i] \in AnyParams
  OBVIOUS
<1>2. a \in Seq(M) /\ Tells(x) \in M
  <2> HIDE DEF y
  <2>1. \A i \in 1..Len(s) : Tells(s[i]) \in M
    BY <1>1
  <2> HIDE DEF M
  <2>2. a \in Seq(M)
    BY <1>1, <2>1
  <2>3. Tells(x) \in M
    BY DEF M
  <2> QED
    BY <2>2, <2>3
<1>3. b = Append(a, Tells(x))
  <2> HIDE DEF M, y
  <2> DEFINE n == Len(s)
             z == n + 1
             c == Append(a, Tells(x))
             e(i) == Tells(y[i])
  <2>1. Len(a) = n /\ \A i \in 1..n : a[i] = Tells(s[i])
    BY <1>1
  <2> HIDE DEF a
  <2>2. /\ c \in Seq(M) /\ Len(c) = z /\ c[z] = Tells(x)
        /\ \A i \in 1..n : c[i] = a[i]
    BY <1>1, <1>2, <2>1
  <2> HIDE DEF c
  <2>3. \A i \in 1..z : c[i] = e(i)
    <3>1. \A i \in 1..z : i = z \/ i \in 1..n
      BY <1>1
    <3>2. e(z) = Tells(x)
      BY <1>1
    <3>3. \A i \in 1..n : e(i) = Tells(s[i])
      BY <1>1
    <3> HIDE DEF e
    <3> QED
      BY <2>1, <2>2, <3>1, <3>2, <3>3
  <2> HIDE DEF e
  <2>4. [i \in 1..z |-> e(i)] = c
    <3>1. c = [i \in 1..z |-> c[i]]
      BY <2>2
    <3> HIDE DEF z
    <3> QED
      BY <2>3, <3>1
  <2>5. b = [i \in 1..z |-> e(i)]
    BY <1>1, Zenon DEF e
  <2> QED
    BY <2>4, <2>5 DEF c
<1> HIDE DEF a, b, M
<1>4. Said(Append(a, Tells(x))) = Updated(Said(a), Tells(x))
  BY <1>2, SaidAppend, Zenon
<1>5. Meaning(s) = Said(a) /\ Meaning(y) = Said(b)
  BY Zenon DEF Meaning, Tells, a, b
<1> QED
  BY <1>3, <1>4, <1>5, Zenon

\* No parameters mean nothing.
LEMMA MeaningNone == Meaning(<<>>) = NoFields
<1>1. [i \in 1..Len(<<>>) |-> Field(U32(<<>>[i].id), <<>>[i].value)] = <<>>
  OBVIOUS
<1> QED
  BY <1>1, SaidOfNone, Zenon DEF Meaning

\* What a parameter says is a dictionary.
LEMMA TellsType ==
    ASSUME NEW x \in AnyParams
    PROVE  Tells(x) \in ParamDicts
BY ItemIs, OneStored DEF Tells

\* Parameters and what follows them.
StoredFirst(s, t) == Stored(Body(s) \o t) = Updated(Meaning(s), Stored(t))

\* Whole parameters are stored, whatever bytes follow them: by induction on the
\* parameters.
LEMMA ParamsAreStored ==
    \A s \in Seq(AnyParams) :
      Meaning(s) \in ParamDicts /\ \A t \in Seq(Nat) : StoredFirst(s, t)
<1> DEFINE Fine(s) == Meaning(s) \in ParamDicts /\ \A t \in Seq(Nat) : StoredFirst(s, t)
           G == {s \in Seq(AnyParams) : Fine(s)}
<1>1. <<>> \in G
  <2>1. Meaning(<<>>) \in ParamDicts
    BY MeaningNone, NothingStored
  <2>2. ASSUME NEW t \in Seq(Nat)
        PROVE  StoredFirst(<<>>, t)
    <3>1. Body(<<>>) \o t = t
      <4>1. <<>> \o t = t
        OBVIOUS
      <4> QED
        BY <4>1, FlatMapEmpty, Zenon DEF Body
    <3>2. Updated(NoFields, Stored(t)) = Stored(t)
      BY StoredType, NothingMore
    <3> QED
      BY <3>1, <3>2, MeaningNone, Zenon DEF StoredFirst
  <2>3. <<>> \in Seq(AnyParams)
    OBVIOUS
  <2> QED
    BY <2>1, <2>2, <2>3, Zenon
<1>2. ASSUME NEW s \in Seq(AnyParams), NEW x \in AnyParams, s \in G
      PROVE  Append(s, x) \in G
  <2>1. Fine(s)
    BY <1>2, Zenon
  <2> DEFINE y == Append(s, x)
             p == Item(x)
             m == Body(s)
  <2>2. y \in Seq(AnyParams)
    OBVIOUS
  <2>3. m \in Seq(Nat) /\ p \in Seq(Nat)
    BY BodyType, ItemIs
  <2>4. Body(y) = m \o p /\ Meaning(y) = Updated(Meaning(s), Tells(x))
    BY BodyAppend, MeaningAppend
  <2>5. Meaning(y) \in ParamDicts
    <3> HIDE DEF y
    <3> QED
      BY <2>1, <2>4, TellsType, BothStored
  <2>6. ASSUME NEW t \in Seq(Nat)
        PROVE  StoredFirst(y, t)
    <3> DEFINE u == p \o t
    <3>1. u \in Seq(Nat)
      <4> HIDE DEF p
      <4> QED
        BY <2>3
    <3>2. Body(y) \o t = m \o u
      <4> HIDE DEF y, p, m
      <4>1. m \in Seq(Nat) /\ p \in Seq(Nat)
        BY <2>3
      <4>2. (m \o p) \o t = m \o (p \o t)
        BY <4>1, Regrouped, SMTT(30)
      <4> QED
        BY <2>4, <4>2
    <3>3. Stored(m \o u) = Updated(Meaning(s), Stored(u))
      <4> HIDE DEF u
      <4>1. StoredFirst(s, u)
        BY <2>1, <3>1
      <4> QED
        BY <4>1, Zenon DEF StoredFirst
    <3>4. Stored(u) = Updated(Tells(x), Stored(t))
      <4> DEFINE id == U32(x.id)
                 v == x.value
      <4>1. id \in Seq(Nat) /\ Len(id) = 4 /\ v \in Seq(Nat) /\ p = id \o <<Len(v)>> \o v
        BY ItemIs, Zenon
      <4> HIDE DEF id, v, p
      <4>2. Stored((id \o <<Len(v)>> \o v) \o t) = Updated(Field(id, v), Stored(t))
        BY <4>1, ParamIsStored, Zenon
      <4> QED
        BY <4>1, <4>2, Zenon DEF Tells, id, v
    <3>5. Updated(Updated(Meaning(s), Tells(x)), Stored(t))
            = Updated(Meaning(s), Updated(Tells(x), Stored(t)))
      BY UpdatedTwice
    <3> HIDE DEF u, y, m
    <3> QED
      BY <2>4, <3>2, <3>3, <3>4, <3>5, Zenon DEF StoredFirst
  <2> QED
    BY <2>2, <2>5, <2>6, Zenon
<1>3. Seq(AnyParams) \subseteq G
  <2> HIDE DEF G
  <2> QED
    BY <1>1, <1>2, AppendInduction
<1> QED
  BY <1>3

\* An answer: three bytes and the parameters, of which ReadParams sees those up
\* to the cut.
LEMMA AnswerIs ==
    ASSUME NEW s \in Seq(AnyParams)
    PROVE  /\ Len(Answer(s)) = 3 + Len(Body(s))
           /\ \A n, m \in Nat : n = 3 + m /\ m <= Len(Body(s)) =>
                ReadParams(SubSeq(Answer(s), 1, n)) = Stored(SubSeq(Body(s), 1, m))
<1> DEFINE a == U16(7)
           r == <<Len(s)>>
           B == Body(s)
           h == a \o r
           w == h \o B
<1>1. a \in Seq(Nat) /\ Len(a) = 2 /\ r \in Seq(Nat) /\ Len(r) = 1
  <2>1. a \in Seq(Nat) /\ Len(a) = 2
    BY TwoBytes
  <2>2. r \in Seq(Nat) /\ Len(r) = 1
    OBVIOUS
  <2> QED
    BY <2>1, <2>2
<1>2. B \in Seq(Nat) /\ Len(B) \in Nat
  BY BodyType
<1>3. SetParams(s) = r \o B
  <2>1. \A i \in 1..Len(s) : s[i] \in AnyParams
    OBVIOUS
  <2>2. \A i \in 1..Len(s) : Item(s[i]) = Written[s[i]]
    BY <2>1, Zenon DEF Written
  <2> DEFINE c(i) == Item(s[i])
             d(i) == Written[s[i]]
             n == Len(s)
  <2>3. \A i \in 1..n : c(i) = d(i)
    BY <2>2
  <2>4. DOMAIN s = 1..n
    OBVIOUS
  <2> HIDE DEF c, d, n
  <2>5. [i \in 1..n |-> c(i)] = [i \in 1..n |-> d(i)]
    BY <2>3
  <2> QED
    BY <2>4, <2>5, Zenon DEF SetParams, Body, FlatMap, c, d, n
<1> HIDE DEF a, r, B
<1>4. Answer(s) = w
  <2>1. (a \o r) \o B = a \o (r \o B)
    BY <1>1, <1>2, Regrouped, SMTT(30)
  <2> QED
    BY <1>3, <2>1, Zenon DEF Answer, a
<1>5. h \in Seq(Nat) /\ Len(h) = 3
  <2>1. h \in Seq(Nat) /\ Len(h) = Len(a) + Len(r)
    BY <1>1, LongerBy, Zenon
  <2> HIDE DEF h
  <2> QED
    BY <1>1, <2>1
<1> HIDE DEF h
<1>6. Len(w) = 3 + Len(B)
  BY <1>2, <1>5, LongerBy
<1>7. ASSUME NEW n \in Nat, NEW m \in Nat, n = 3 + m, m <= Len(B)
      PROVE  ReadParams(SubSeq(w, 1, n)) = Stored(SubSeq(B, 1, m))
  <2> DEFINE c == SubSeq(B, 1, m)
             u == h \o c
  <2>1. c \in Seq(Nat) /\ Len(c) = m
    BY <1>2, <1>7
  <2>2. SubSeq(w, 1, n) = u
    <3>1. /\ h \in Seq(Nat) /\ B \in Seq(Nat) /\ n \in Nat
          /\ m \in Nat /\ n = Len(h) + m /\ m <= Len(B)
      BY <1>2, <1>5, <1>7
    <3>2. SubSeq(h \o B, 1, n) = h \o SubSeq(B, 1, m)
      BY <3>1, FirstOfBoth, SMTT(30)
    <3> QED
      BY <3>2, Zenon
  <2> HIDE DEF c
  <2>3. SubSeq(u, Len(h) + 1, Len(u)) = SubSeq(c, 1, Len(c))
    <3>1. 1 \in 1..(Len(c) + 1)
      BY <2>1
    <3> QED
      BY <1>5, <2>1, <3>1, DropLeft, Zenon
  <2>4. SubSeq(c, 1, Len(c)) = c
    BY <2>1
  <2>5. Len(h) + 1 = 4
    BY <1>5
  <2>6. ParamPart(u) = c
    BY <2>3, <2>4, <2>5, Zenon DEF ParamPart
  <2> HIDE DEF u, w
  <2>7. ReadParams(u) = Stored(c)
    BY <2>6, Zenon DEF ReadParams, Stored
  <2> QED
    BY <2>2, <2>7, Zenon DEF c
<1> HIDE DEF w
<1> QED
  BY <1>4, <1>6, <1>7, Zenon DEF B

-----------------------------------------------------------------------------
(* Answers that are cut *)

\* The bytes of parameters are those of the first ones and those of the rest.
LEMMA BodySplit ==
    ASSUME NEW s \in Seq(AnyParams), NEW k \in 0..Len(s)
    PROVE  /\ SubSeq(s, 1, k) \in Seq(AnyParams)
           /\ Len(SubSeq(s, 1, k)) = k
           /\ \E R \in Seq(Nat) : /\ Body(s) = Body(SubSeq(s, 1, k)) \o R
                                  /\ k = Len(s) => R = <<>>
<1> DEFINE n == Len(s)
           a == SubSeq(s, 1, k)
           r == SubSeq(s, k + 1, n)
           R == Body(r)
<1>1. n \in Nat /\ k \in Nat /\ k <= n
  OBVIOUS
<1>2. a \in Seq(AnyParams) /\ Len(a) = k
  BY <1>1
<1>3. r \in Seq(AnyParams)
  BY <1>1
<1>4. k = n => R = <<>>
  <2> SUFFICES ASSUME k = n PROVE R = <<>>
    OBVIOUS
  <2>1. r = <<>>
    OBVIOUS
  <2> QED
    BY <2>1, FlatMapEmpty, Zenon DEF Body
<1>5. s = a \o r
  <2> DEFINE e == <<>>
             q == k + 1
  <2>1. e \in Seq(AnyParams) /\ s \o e = s /\ q \in 1..(Len(s) + 1) /\ q - 1 = k
    BY <1>1
  <2> HIDE DEF e, q
  <2>2. s \o e = SubSeq(s, 1, q - 1) \o (SubSeq(s, q, Len(s)) \o e)
    <3>1. s \in Seq(AnyParams) /\ e \in Seq(AnyParams) /\ q \in 1..(Len(s) + 1)
      BY <2>1
    <3> QED
      BY <3>1, SplitAt, Zenon
  <2>3. r \o e = r
    <3> HIDE DEF r
    <3> QED
      BY <1>3 DEF e
  <2> QED
    BY <2>1, <2>2, <2>3 DEF q
<1> HIDE DEF a, r
<1>6. Body(s) = Body(a) \o R
  BY <1>2, <1>3, <1>5, BodyConcat
<1>7. R \in Seq(Nat)
  BY <1>3, BodyType
<1> HIDE DEF R
<1>8. /\ a \in Seq(AnyParams) /\ Len(a) = k
      /\ \E Q \in Seq(Nat) : Body(s) = Body(a) \o Q /\ (k = Len(s) => Q = <<>>)
  BY <1>2, <1>4, <1>6, <1>7, Zenon
<1> QED
  BY <1>8, Zenon DEF a

\* Whole parameters and fewer than five bytes of the next one: they are stored.
LEMMA WholeOnesAreStored ==
    ASSUME NEW s \in Seq(AnyParams), NEW k \in 0..Len(s), NEW m \in Nat,
           NEW l \in Nat, m = Len(Body(SubSeq(s, 1, k))) + l, l < 5,
           m <= Len(Body(s))
    PROVE  Stored(SubSeq(Body(s), 1, m)) = Meaning(SubSeq(s, 1, k))
<1> DEFINE a == SubSeq(s, 1, k)
           A == Body(a)
           B == Body(s)
<1>1. a \in Seq(AnyParams)
  BY BodySplit, Zenon
<1>2. PICK R \in Seq(Nat) : B = A \o R
  BY BodySplit, Zenon
<1> HIDE DEF a
<1>3. A \in Seq(Nat) /\ Len(A) \in Nat
  BY <1>1, BodyType
<1>4. m = Len(A) + l
  BY DEF a
<1>5. m <= Len(B)
  OBVIOUS
<1>6. Meaning(a) \in ParamDicts /\ \A t \in Seq(Nat) : StoredFirst(a, t)
  BY <1>1, ParamsAreStored, Zenon
<1> DEFINE c == SubSeq(R, 1, l)
<1>7. l <= Len(R) /\ Len(R) \in Nat
  <2> HIDE DEF A, B
  <2>1. Len(B) = Len(A) + Len(R) /\ Len(R) \in Nat
    BY <1>2, <1>3, LongerBy
  <2> QED
    BY <1>3, <1>4, <1>5, <2>1
<1>8. c \in Seq(Nat) /\ Len(c) = l
  BY <1>7
<1>9. SubSeq(B, 1, m) = A \o c
  <2> HIDE DEF A, B
  <2>1. /\ A \in Seq(Nat) /\ R \in Seq(Nat) /\ m \in Nat
        /\ l \in Nat /\ m = Len(A) + l /\ l <= Len(R)
    BY <1>3, <1>4, <1>7
  <2>2. SubSeq(A \o R, 1, m) = A \o SubSeq(R, 1, l)
    BY <2>1, FirstOfBoth, SMTT(30)
  <2> QED
    BY <1>2, <2>2, Zenon
<1> HIDE DEF c
<1>10. Stored(c) = NoFields
  BY <1>8, TooShortStoresNothing
<1>11. Stored(A \o c) = Updated(Meaning(a), Stored(c))
  BY <1>6, <1>8, Zenon DEF StoredFirst
<1>12. Updated(Meaning(a), NoFields) = Meaning(a)
  BY <1>6, NothingMore
<1> QED
  BY <1>9, <1>10, <1>11, <1>12, Zenon DEF a

\* A parameter without the last bytes of its value.
Shortened(x, lost) ==
    [x EXCEPT !.value = SubSeq(@, 1, Len(@) - lost)]

\* It is the parameter itself when nothing is lost.
LEMMA ShortenedIs ==
    ASSUME NEW x \in AnyParams, NEW lost \in 0..Len(x.value)
    PROVE  /\ Shortened(x, lost) \in AnyParams
           /\ Shortened(x, lost).id = x.id
           /\ Shortened(x, lost).value = SubSeq(x.value, 1, Len(x.value) - lost)
           /\ lost = 0 => Shortened(x, lost) = x
<1> DEFINE v == x.value
           d == Len(v) - lost
           w == SubSeq(v, 1, d)
<1>1. /\ x.id \in Nat /\ v \in Seq(Nat)
      /\ x = [id |-> x.id, value |-> v]
  BY DEF AnyParams
<1> HIDE DEF v
<1>2. lost \in 0..Len(v)
  BY DEF v
<1>3. w \in Seq(Nat) /\ (lost = 0 => w = v)
  BY <1>1, <1>2
<1>4. Shortened(x, lost) = [id |-> x.id, value |-> w]
  <2>1. Shortened(x, lost) = [x EXCEPT !.value = w]
    BY Zenon DEF Shortened, v
  <2> HIDE DEF w
  <2> QED
    BY <1>1, <2>1
<1> HIDE DEF w
<1>5. /\ [id |-> x.id, value |-> w] \in AnyParams
      /\ (lost = 0 => [id |-> x.id, value |-> w] = x)
  BY <1>1, <1>3 DEF AnyParams
<1> QED
  BY <1>4, <1>5 DEF w, d, v

\* The first bytes of two parts, when they end within the second one.
StartsWith(a, b, n, m) == SubSeq(a \o b, 1, n) = a \o SubSeq(b, 1, m)

\* They do when they are as many as the first part and m bytes of the second.
LEMMA StartsWithIs ==
    \A a, b \in Seq(Nat) : \A n, m \in Nat :
       n = Len(a) + m /\ m <= Len(b) => StartsWith(a, b, n, m)
<1> SUFFICES ASSUME NEW a \in Seq(Nat), NEW b \in Seq(Nat), NEW n \in Nat,
                    NEW m \in Nat, n = Len(a) + m, m <= Len(b)
             PROVE  StartsWith(a, b, n, m)
  OBVIOUS
<1>1. SubSeq(a \o b, 1, n) = a \o SubSeq(b, 1, m)
  BY FirstOfBoth, SMTT(30)
<1> QED
  BY <1>1, Zenon DEF StartsWith

\* The first bytes of three parts, when they end within the second half of the
\* middle one.
EndsInside(A, h, v, R, m, d) ==
    SubSeq((A \o (h \o v)) \o R, 1, m) = A \o (h \o SubSeq(v, 1, d))

\* They do when they are as many as come before that half and d bytes of it.
LEMMA CutInside ==
    \A A, h, v, R \in Seq(Nat) : \A d, m \in Nat :
       d <= Len(v) /\ m = Len(A) + (Len(h) + d) => EndsInside(A, h, v, R, m, d)
<1> SUFFICES ASSUME NEW A \in Seq(Nat), NEW h \in Seq(Nat), NEW v \in Seq(Nat),
                    NEW R \in Seq(Nat), NEW d \in Nat, NEW m \in Nat,
                    d <= Len(v), m = Len(A) + (Len(h) + d)
             PROVE  EndsInside(A, h, v, R, m, d)
  OBVIOUS
<1> DEFINE I == h \o v
           P == A \o I
           j == Len(h) + d
<1>1. Len(A) \in Nat /\ Len(h) \in Nat /\ Len(v) \in Nat
  OBVIOUS
<1>2. I \in Seq(Nat) /\ Len(I) = Len(h) + Len(v)
  BY LongerBy, Zenon
<1>3. SubSeq(I, 1, j) = h \o SubSeq(v, 1, d)
  <2>1. j \in Nat /\ j = Len(h) + d
    BY <1>1
  <2> HIDE DEF j
  <2>2. /\ h \in Seq(Nat) /\ v \in Seq(Nat) /\ j \in Nat
        /\ d \in Nat /\ j = Len(h) + d /\ d <= Len(v)
    BY <2>1
  <2>3. StartsWith(h, v, j, d)
    BY <2>2, StartsWithIs
  <2> QED
    BY <2>3, Zenon DEF StartsWith
<1>4. P \in Seq(Nat) /\ Len(P) = Len(A) + Len(I)
  <2> HIDE DEF I
  <2> QED
    BY <1>2, LongerBy, Zenon
<1>5. j \in Nat /\ j <= Len(I) /\ m = Len(A) + j
  <2> HIDE DEF I
  <2> QED
    BY <1>1, <1>2
<1> HIDE DEF j, I
<1>6. m <= Len(P)
  <2> HIDE DEF P
  <2> QED
    BY <1>1, <1>4, <1>5
<1>7. SubSeq(P \o R, 1, m) = SubSeq(P, 1, m)
  <2> HIDE DEF P
  <2> QED
    BY <1>4, <1>6, FirstOfJoined, ZenonT(30)
<1>8. SubSeq(A \o I, 1, m) = A \o SubSeq(I, 1, j)
  <2>1. /\ A \in Seq(Nat) /\ I \in Seq(Nat) /\ m \in Nat
        /\ j \in Nat /\ m = Len(A) + j /\ j <= Len(I)
    BY <1>2, <1>5
  <2>2. StartsWith(A, I, m, j)
    BY <2>1, StartsWithIs
  <2> QED
    BY <2>2, Zenon DEF StartsWith
<1> QED
  BY <1>3, <1>7, <1>8, Zenon DEF I, P, EndsInside

\* The first m bytes end after d bytes of the value of the parameter after the
\* first k, and z is that parameter with these bytes for its value.
CutOne(s, k, d, z, m) ==
    /\ k < Len(s) /\ d < Len(s[k + 1].value)
    /\ z.id = s[k + 1].id /\ z.value = SubSeq(s[k + 1].value, 1, d)
    /\ m = Len(Body(SubSeq(s, 1, k))) + (5 + d)

\* What the first m bytes store is what the parameters u mean.
StoredAs(s, m, u) == Stored(SubSeq(Body(s), 1, m)) = Meaning(u)

\* Whole parameters and one that is cut in its value: what is there of it is
\* stored, as if the terminal had sent no more.
LEMMA CutOneIsStored ==
    ASSUME NEW s \in Seq(AnyParams), NEW k \in Nat, NEW d \in Nat,
           NEW z \in AnyParams, NEW m \in Nat, CutOne(s, k, d, z, m)
    PROVE  StoredAs(s, m, Append(SubSeq(s, 1, k), z))
<1> DEFINE x == s[k + 1]
<1>0. /\ k < Len(s) /\ d < Len(x.value)
      /\ z.id = x.id /\ z.value = SubSeq(x.value, 1, d)
      /\ m = Len(Body(SubSeq(s, 1, k))) + (5 + d)
  BY Zenon DEF CutOne
<1> DEFINE a == SubSeq(s, 1, k)
           A == Body(a)
           B == Body(s)
           id == U32(x.id)
           v == x.value
           w == SubSeq(v, 1, d)
           r == <<Len(v)>>
           h == id \o r
           y == Append(a, x)
<1>1. /\ a \in Seq(AnyParams) /\ x \in AnyParams /\ SubSeq(s, 1, k + 1) = y
  BY <1>0, SplitAround, Zenon
<1> HIDE DEF x
<1>2. PICK R \in Seq(Nat) : B = (A \o Item(x)) \o R
  <2> DEFINE q == k + 1
  <2>1. q \in 0..Len(s)
    BY <1>0
  <2> HIDE DEF q
  <2>2. PICK R \in Seq(Nat) : B = Body(SubSeq(s, 1, q)) \o R
    BY <2>1, BodySplit, Zenon
  <2>3. Body(y) = A \o Item(x)
    <3> HIDE DEF a
    <3> QED
      BY <1>1, BodyAppend
  <2>4. SubSeq(s, 1, q) = y
    BY <1>1, Zenon DEF q
  <2> QED
    BY <2>2, <2>3, <2>4, Zenon
<1>3. /\ id \in Seq(Nat) /\ Len(id) = 4 /\ v \in Seq(Nat) /\ Len(v) \in Nat
      /\ Item(x) = h \o v
  BY <1>1, ItemIs, Zenon
<1>4. m = Len(A) + (5 + d) /\ d < Len(v) /\ z.id = x.id /\ z.value = w
  BY <1>0
<1> HIDE DEF a, y, id, v
<1>5. A \in Seq(Nat)
  BY <1>1, BodyType
<1>6. r \in Seq(Nat) /\ Len(r) = 1
  BY <1>3
<1> HIDE DEF r
<1>7. h \in Seq(Nat) /\ Len(h) = 5
  <2>1. h \in Seq(Nat) /\ Len(h) = Len(id) + Len(r)
    BY <1>3, <1>6, LongerBy, Zenon
  <2> HIDE DEF h
  <2> QED
    BY <1>3, <1>6, <2>1
<1> HIDE DEF h, A, B
<1>8. w \in Seq(Nat) /\ Len(w) = d
  BY <1>3, <1>4
<1>9. SubSeq(B, 1, m) = A \o (h \o w)
  <2>1. d <= Len(v) /\ m = Len(A) + (Len(h) + d)
    BY <1>3, <1>4, <1>7
  <2>2. SubSeq((A \o (h \o v)) \o R, 1, m) = A \o (h \o SubSeq(v, 1, d))
    <3>1. /\ A \in Seq(Nat) /\ h \in Seq(Nat) /\ v \in Seq(Nat) /\ R \in Seq(Nat)
          /\ d \in Nat /\ d <= Len(v) /\ m \in Nat /\ m = Len(A) + (Len(h) + d)
      BY <1>3, <1>5, <1>7, <2>1
    <3>2. EndsInside(A, h, v, R, m, d)
      BY <3>1, CutInside
    <3> QED
      BY <3>2, Zenon DEF EndsInside
  <2> QED
    BY <1>2, <1>3, <2>2, Zenon
<1> HIDE DEF w
<1>10. Stored(h \o w) = Field(id, w)
  <2>1. Len(w) < Len(v)
    BY <1>4, <1>8
  <2>2. Stored(id \o <<Len(v)>> \o w) = Field(id, w)
    BY <1>3, <1>8, <2>1, CutParamIsStored
  <2> QED
    BY <2>2, Zenon DEF h, r
<1>11. h \o w \in Seq(Nat)
  BY <1>7, <1>8
<1>12. Stored(A \o (h \o w)) = Updated(Meaning(a), Field(id, w))
  <2>1. StoredFirst(a, h \o w)
    BY <1>1, <1>11, ParamsAreStored, Zenon
  <2> QED
    BY <1>10, <2>1, Zenon DEF StoredFirst, A
<1>13. Meaning(Append(a, z)) = Updated(Meaning(a), Field(id, w))
  <2>1. Meaning(Append(a, z)) = Updated(Meaning(a), Tells(z))
    BY <1>1, MeaningAppend, Zenon
  <2>2. Tells(z) = Field(id, w)
    BY <1>4, Zenon DEF Tells, id
  <2> QED
    BY <2>1, <2>2
<1> QED
  BY <1>9, <1>12, <1>13, Zenon DEF a, B, StoredAs

-----------------------------------------------------------------------------
(* The parameters that are read of an answer that is cut *)

\* The larger of nothing and a difference.
LEMMA MaxOfDifference ==
    ASSUME NEW a \in Nat, NEW b \in Nat
    PROVE  Max({0, a - b}) = IF a > b THEN a - b ELSE 0
<1> DEFINE S == {0, a - b}
           c == IF a > b THEN a - b ELSE 0
<1>1. c \in S /\ \A y \in S : c >= y
  OBVIOUS
<1>2. \A x \in S : (\A y \in S : x >= y) => x = c
  OBVIOUS
<1> HIDE DEF S, c
<1>3. (CHOOSE x \in S : \A y \in S : x >= y) = c
  BY <1>1, <1>2
<1> QED
  BY <1>3 DEF Max, S, c

\* The parameters that are there, the last one without the bytes it has lost.
CutAt(t, k, lost) ==
    [i \in 1..k |-> IF i < k THEN t[i] ELSE Shortened(t[i], lost)]

\* Nothing changes when nothing is lost.
LEMMA NothingIsCut ==
    ASSUME NEW t \in Seq(AnyParams), NEW lost, Len(t) = 0 \/ lost = 0
    PROVE  CutAt(t, Len(t), lost) = t
<1> DEFINE n == Len(t)
           e(i) == IF i < n THEN t[i] ELSE Shortened(t[i], lost)
<1>1. \A i \in 1..n : e(i) = t[i]
  <2> SUFFICES ASSUME NEW i \in 1..n
               PROVE  e(i) = t[i]
    OBVIOUS
  <2>1. t[i] \in AnyParams /\ lost = 0
    OBVIOUS
  <2>2. 0 \in 0..Len(t[i].value)
    <3>1. Len(t[i].value) \in Nat
      BY <2>1, ItemIs, Zenon
    <3> QED
      BY <3>1
  <2>3. Shortened(t[i], lost) = t[i]
    BY <2>1, <2>2, ShortenedIs
  <2> QED
    BY <2>3, Zenon
<1>2. t = [i \in 1..n |-> t[i]]
  OBVIOUS
<1>3. CutAt(t, n, lost) = [i \in 1..n |-> e(i)]
  BY Zenon DEF CutAt
<1> HIDE DEF e, n
<1>4. [i \in 1..n |-> e(i)] = [i \in 1..n |-> t[i]]
  BY <1>1
<1> QED
  BY <1>2, <1>3, <1>4, Zenon DEF n

\* Only the last one is cut.
LEMMA LastIsCut ==
    ASSUME NEW a \in Seq(AnyParams), NEW x \in AnyParams, NEW k \in Nat,
           k = Len(a) + 1, NEW lost \in 0..Len(x.value)
    PROVE  CutAt(Append(a, x), k, lost) = Append(a, Shortened(x, lost))
<1> DEFINE t == Append(a, x)
           z == Shortened(x, lost)
           c == Append(a, z)
           e(i) == IF i < k THEN t[i] ELSE Shortened(t[i], lost)
<1>1. z \in AnyParams
  BY ShortenedIs, Zenon
<1> HIDE DEF z
<1>2. /\ Len(a) \in Nat /\ t[k] = x
      /\ \A i \in 1..Len(a) : t[i] = a[i]
  OBVIOUS
<1>3. /\ c = [i \in 1..k |-> c[i]] /\ c[k] = z
      /\ \A i \in 1..Len(a) : c[i] = a[i]
  <2>1. /\ c \in Seq(AnyParams) /\ Len(c) = k /\ c[k] = z
        /\ \A i \in 1..Len(a) : c[i] = a[i]
    BY <1>1
  <2> HIDE DEF c
  <2>2. c = [i \in 1..Len(c) |-> c[i]]
    BY <2>1
  <2> QED
    BY <2>1, <2>2
<1> HIDE DEF t, c
<1>4. \A i \in 1..k : e(i) = c[i]
  <2> SUFFICES ASSUME NEW i \in 1..k
               PROVE  e(i) = c[i]
    OBVIOUS
  <2>1. CASE i = k
    <3>1. ~ (i < k)
      BY <2>1
    <3>2. e(i) = Shortened(x, lost)
      BY <1>2, <2>1, <3>1, Zenon
    <3> QED
      BY <1>3, <2>1, <3>2, Zenon DEF z
  <2>2. CASE i # k
    <3>1. i < k /\ i \in 1..Len(a)
      BY <1>2, <2>2
    <3> QED
      BY <1>2, <1>3, <3>1, Zenon
  <2> QED
    BY <2>1, <2>2
<1>5. CutAt(t, k, lost) = [i \in 1..k |-> e(i)]
  BY Zenon DEF CutAt
<1> HIDE DEF e
<1>6. [i \in 1..k |-> e(i)] = [i \in 1..k |-> c[i]]
  BY <1>4
<1> QED
  BY <1>3, <1>5, <1>6, Zenon DEF t, c, z

\* The bytes of the first k parameters.
BodyTo(s, k) == Len(Body(SubSeq(s, 1, k)))

\* They are none for k = 0, all for the last k, and grow by a parameter.
LEMMA BodyToIs ==
    ASSUME NEW s \in Seq(AnyParams)
    PROVE  /\ BodyTo(s, 0) = 0
           /\ BodyTo(s, Len(s)) = Len(Body(s))
           /\ \A k \in 0..Len(s) : BodyTo(s, k) \in Nat
           /\ \A k \in 1..Len(s) :
                BodyTo(s, k) = BodyTo(s, k - 1) + (5 + Len(s[k].value))
<1>1. BodyTo(s, 0) = 0
  <2>1. SubSeq(s, 1, 0) = <<>>
    OBVIOUS
  <2>2. Body(<<>>) = <<>>
    BY FlatMapEmpty, Zenon DEF Body
  <2>3. BodyTo(s, 0) = Len(<<>>)
    BY <2>1, <2>2, Zenon DEF BodyTo
  <2> QED
    BY <2>3
<1>2. BodyTo(s, Len(s)) = Len(Body(s))
  <2>1. SubSeq(s, 1, Len(s)) = s
    OBVIOUS
  <2> QED
    BY <2>1, Zenon DEF BodyTo
<1>3. \A k \in 0..Len(s) : BodyTo(s, k) \in Nat
  BY BodySplit, BodyType, Zenon DEF BodyTo
<1>4. ASSUME NEW k \in 1..Len(s)
      PROVE  BodyTo(s, k) = BodyTo(s, k - 1) + (5 + Len(s[k].value))
  <2> DEFINE j == k - 1
             a == SubSeq(s, 1, j)
             x == s[k]
             A == Body(a)
             I == Item(x)
  <2>1. j \in Nat /\ j < Len(s) /\ j + 1 = k
    OBVIOUS
  <2> HIDE DEF j
  <2>2. /\ a \in Seq(AnyParams) /\ x \in AnyParams
        /\ SubSeq(s, 1, k) = Append(a, x)
    <3>1. /\ a \in Seq(AnyParams) /\ s[j + 1] \in AnyParams
          /\ SubSeq(s, 1, j + 1) = Append(a, s[j + 1])
      BY <2>1, SplitAround, Zenon
    <3> QED
      BY <2>1, <3>1
  <2> HIDE DEF a, x
  <2>3. Body(SubSeq(s, 1, k)) = A \o I
    BY <2>2, BodyAppend
  <2>4. A \in Seq(Nat) /\ I \in Seq(Nat) /\ Len(I) = 5 + Len(x.value)
    BY <2>2, BodyType, ItemIs
  <2> HIDE DEF A, I
  <2>5. Len(A \o I) = Len(A) + Len(I)
    BY <2>4, LongerBy, Zenon
  <2>6. BodyTo(s, k) = Len(A) + (5 + Len(x.value))
    BY <2>3, <2>4, <2>5, Zenon DEF BodyTo
  <2> QED
    BY <2>6, Zenon DEF BodyTo, A, a, x, j
<1> QED
  BY <1>1, <1>2, <1>3, <1>4

\* What is stored of the first m bytes: the k parameters that have their head
\* there, the last of them as it was cut.
LEMMA CutIsStored ==
    ASSUME NEW s \in Seq(AnyParams), NEW k \in 0..Len(s), NEW m \in Nat,
           m <= Len(Body(s)),
           k > 0 => BodyTo(s, k - 1) + 5 <= m,
           k < Len(s) => m < BodyTo(s, k) + 5,
           NEW lost,
           lost = IF BodyTo(s, k) > m THEN BodyTo(s, k) - m ELSE 0
    PROVE  Stored(SubSeq(Body(s), 1, m)) = Meaning(CutAt(SubSeq(s, 1, k), k, lost))
<1> DEFINE t == SubSeq(s, 1, k)
           b == BodyTo(s, k)
<1>1. t \in Seq(AnyParams) /\ Len(t) = k
  BY BodySplit, Zenon
<1>2. b \in Nat /\ k \in Nat /\ Len(s) \in Nat
  BY BodyToIs
<1>3. /\ k = Len(s) => m <= b
      /\ k < Len(s) => m < b + 5
      /\ k <= Len(s)
  BY BodyToIs
<1>4. CASE b <= m
  <2> DEFINE l == m - b
  <2>1. l \in Nat /\ m = b + l /\ l < 5
    <3> HIDE DEF b
    <3> QED
      BY <1>2, <1>3, <1>4
  <2>2. m = Len(Body(SubSeq(s, 1, k))) + l
    <3> HIDE DEF l
    <3> QED
      BY <2>1, Zenon DEF BodyTo
  <2> HIDE DEF l
  <2>3. Stored(SubSeq(Body(s), 1, m)) = Meaning(t)
    <3>1. l \in Nat /\ l < 5 /\ m = Len(Body(SubSeq(s, 1, k))) + l
      BY <2>1, <2>2
    <3> QED
      BY <3>1, WholeOnesAreStored
  <2>4. lost = 0
    <3> HIDE DEF b
    <3>1. ~ (b > m)
      BY <1>2, <1>4
    <3> QED
      BY <3>1, Zenon DEF b
  <2>5. CutAt(t, k, lost) = t
    <3> HIDE DEF t
    <3>1. CutAt(t, Len(t), lost) = t
      BY <1>1, <2>4, NothingIsCut, Zenon
    <3> QED
      BY <1>1, <3>1
  <2> QED
    BY <2>3, <2>5, Zenon
<1>5. CASE ~ (b <= m)
  <2> DEFINE j == k - 1
             a == SubSeq(s, 1, j)
             x == s[k]
             v == Len(x.value)
             c == BodyTo(s, j)
             d == m - (c + 5)
             z == Shortened(x, lost)
  <2>1. k > 0
    <3>1. k = 0 => b = 0
      BY BodyToIs
    <3> HIDE DEF b
    <3> QED
      BY <1>2, <1>5, <3>1
  <2>2. j \in Nat /\ j < Len(s) /\ j + 1 = k /\ k \in 1..Len(s) /\ j \in 0..Len(s)
    BY <1>2, <2>1
  <2>3. c \in Nat /\ c + 5 <= m
    <3>1. c \in Nat
      <4> HIDE DEF j
      <4> QED
        BY <2>2, BodyToIs
    <3> QED
      BY <2>1, <3>1
  <2>4. b = c + (5 + v)
    BY <2>2, BodyToIs
  <2> HIDE DEF j
  <2>5. /\ a \in Seq(AnyParams) /\ Len(a) = j /\ x \in AnyParams /\ t = Append(a, x)
    <3>1. /\ a \in Seq(AnyParams) /\ Len(a) = j /\ s[j + 1] \in AnyParams
          /\ SubSeq(s, 1, j + 1) = Append(a, s[j + 1])
      BY <2>2, SplitAround, Zenon
    <3> QED
      BY <2>2, <3>1
  <2>6. v \in Nat
    BY <2>5, ItemIs
  <2>7. lost = b - m
    <3> HIDE DEF b
    <3>1. b > m
      BY <1>2, <1>5
    <3> QED
      BY <3>1, Zenon DEF b
  <2>8. /\ d \in Nat /\ m = c + (5 + d) /\ d < v
        /\ lost \in 0..v /\ v - lost = d
    <3> HIDE DEF b, c, v
    <3> QED
      BY <1>2, <1>5, <2>3, <2>4, <2>6, <2>7
  <2>9. /\ z \in AnyParams /\ z.id = x.id
        /\ z.value = SubSeq(x.value, 1, d)
    <3>1. lost \in 0..Len(x.value)
      BY <2>8
    <3> HIDE DEF x
    <3> QED
      BY <2>5, <2>8, <3>1, ShortenedIs
  <2>10. Stored(SubSeq(Body(s), 1, m)) = Meaning(Append(a, z))
    <3>1. m = Len(Body(SubSeq(s, 1, j))) + (5 + d)
      <4> HIDE DEF d
      <4> QED
        BY <2>8, Zenon DEF BodyTo
    <3>2. x = s[j + 1]
      BY <2>2
    <3>3. /\ j \in Nat /\ j < Len(s) /\ d \in Nat /\ d < Len(x.value)
      BY <2>2, <2>8
    <3> HIDE DEF z, x, d
    <3>4. CutOne(s, j, d, z, m)
      BY <2>9, <3>1, <3>2, <3>3, Zenon DEF CutOne
    <3>5. StoredAs(s, m, Append(SubSeq(s, 1, j), z))
      BY <2>9, <3>3, <3>4, CutOneIsStored, Zenon
    <3> QED
      BY <3>5, Zenon DEF StoredAs
  <2>11. CutAt(t, k, lost) = Append(a, z)
    <3>1. k \in Nat /\ k = Len(a) + 1 /\ lost \in 0..Len(x.value)
      <4> HIDE DEF a
      <4> QED
        BY <1>2, <2>2, <2>5, <2>8
    <3> HIDE DEF a, x, t
    <3>2. CutAt(Append(a, x), k, lost) = Append(a, Shortened(x, lost))
      BY <2>5, <3>1, LastIsCut
    <3> QED
      BY <2>5, <3>2, Zenon
  <2> QED
    BY <2>10, <2>11, Zenon
<1> QED
  BY <1>4, <1>5

\* The parameters that have their head in the first n bytes of an answer: the
\* first k of them, for the k that ParamsAreRead takes.
LEMMA HeadsAre ==
    ASSUME params \in Seq(AnyParams), NEW m \in Nat, NEW n, n = 3 + m,
           NEW k, k = Max({0} \cup Heads(n))
    PROVE  /\ k \in 0..Len(params)
           /\ k > 0 => BodyTo(params, k - 1) + 5 <= m
           /\ k < Len(params) => m < BodyTo(params, k) + 5
           /\ Len(Answer(SubSeq(params, 1, k))) = 3 + BodyTo(params, k)
<1> DEFINE z == Len(params)
           H == Heads(n)
           K == {0} \cup H
<1>1. z \in Nat
  OBVIOUS
<1>2. \A i \in 0..z : Len(Answer(SubSeq(params, 1, i))) = 3 + BodyTo(params, i)
  BY BodySplit, AnswerIs, Zenon DEF BodyTo
<1>3. \A i \in 1..z : i \in H <=> BodyTo(params, i - 1) + 5 <= m
  <2> SUFFICES ASSUME NEW i \in 1..z
               PROVE  i \in H <=> BodyTo(params, i - 1) + 5 <= m
    OBVIOUS
  <2> DEFINE b == BodyTo(params, i)
             j == i - 1
             c == BodyTo(params, j)
             v == Len(params[i].value)
             y == Len(Answer(SubSeq(params, 1, i)))
  <2>1. i \in H <=> y - v <= n
    BY Zenon DEF Heads
  <2>2. i \in 0..z /\ j \in 0..z
    OBVIOUS
  <2>3. y = 3 + b /\ b = c + (5 + v)
    BY <1>2, <2>2, BodyToIs
  <2> HIDE DEF j
  <2>4. c \in Nat
    BY <2>2, BodyToIs
  <2>5. v \in Nat
    <3>1. params[i] \in AnyParams
      OBVIOUS
    <3> QED
      BY <3>1, ItemIs
  <2> HIDE DEF b, c, v, y
  <2>6. y - v <= n <=> c + 5 <= m
    BY <2>3, <2>4, <2>5
  <2> QED
    BY <2>1, <2>6 DEF c, j
<1>4. K \subseteq 0..z /\ K # {}
  <2>1. H \subseteq 1..z
    BY DEF Heads
  <2> HIDE DEF H
  <2> QED
    BY <1>1, <2>1
<1> HIDE DEF H
<1>5. k \in K /\ \A y \in K : y <= k
  <2> HIDE DEF K
  <2>1. Max(K) \in K /\ \A y \in K : y <= Max(K)
    BY <1>1, <1>4, MaxOfPositions
  <2> QED
    BY <2>1, Zenon DEF K, H
<1>6. k \in 0..z
  BY <1>4, <1>5
<1>7. k > 0 => BodyTo(params, k - 1) + 5 <= m
  BY <1>3, <1>5, <1>6
<1>8. k < z => m < BodyTo(params, k) + 5
  <2> SUFFICES ASSUME k < z
               PROVE  m < BodyTo(params, k) + 5
    OBVIOUS
  <2> DEFINE q == k + 1
             b == BodyTo(params, k)
  <2>1. q \in 1..z /\ q - 1 = k /\ ~ (q <= k)
    BY <1>1, <1>6
  <2>2. b \in Nat
    BY <1>6, BodyToIs
  <2>3. q \notin H
    BY <1>5, <2>1
  <2> HIDE DEF q
  <2>4. ~ (b + 5 <= m)
    BY <1>3, <2>1, <2>3
  <2> HIDE DEF b
  <2>5. m < b + 5
    BY <2>2, <2>4
  <2> QED
    BY <2>5 DEF b
<1> QED
  BY <1>2, <1>6, <1>7, <1>8

-----------------------------------------------------------------------------
(* The properties *)

\* The size of a body is a number, whatever was appended.
SizeOK == size \in Nat

LEMMA SizeIsANumber == MessageSpec => []SizeOK
<1>1. MessageInit => SizeOK
  BY DEF MessageInit, SizeOK
<1>2. SizeOK /\ [MessageNext]_messageVars => SizeOK'
  BY SMTT(30) DEF MessageNext, messageVars, SizeOK
<1> QED
  BY <1>1, <1>2, PTL DEF MessageSpec

\* A message that either end builds is read by both stacks, the body up to a
\* multiple of 1024 by the legacy one.
THEOREM WhatIsBuiltIsParsed == MessageSpec => []BuiltIsParsed
<1>1. SizeOK => BuiltIsParsed
  BY BuiltIsParsedAlways DEF SizeOK
<1> QED
  BY <1>1, SizeIsANumber, PTL

\* What the legacy stack accepts, jt808 reads too, and reads alike.
THEOREM TheStacksAgree == MessageSpec => []StacksAgree
<1>1. SizeOK => StacksAgree
  BY StacksAgreeAlways DEF SizeOK
<1> QED
  BY <1>1, SizeIsANumber, PTL

\* Registration and answers are read as they were written, and cut ones are
\* refused.
THEOREM TheDialogueIsRead == MessageSpec => []DialogueIsRead
<1>1. SizeOK => DialogueIsRead
  BY DialogueIsReadAlways DEF SizeOK
<1> QED
  BY <1>1, SizeIsANumber, PTL

\* Whatever the parameters, and wherever their answer is cut (ParamsAreRead).
THEOREM AnyParamsAreRead ==
    params \in Seq([id : Nat, value : Seq(Nat)]) => ParamsAreRead
<1> SUFFICES ASSUME params \in Seq(AnyParams)
             PROVE  ParamsAreRead
  BY Zenon DEF AnyParams
<1> DEFINE kOf(n) == Max({0} \cup Heads(n))
           keptOf(n) == SubSeq(params, 1, kOf(n))
           lostOf(n) == Max({0, Len(Answer(keptOf(n))) - n})
<1>1. ASSUME NEW n \in 3..Len(Answer(params))
      PROVE  ReadParams(SubSeq(Answer(params), 1, n))
               = Meaning(CutAt(keptOf(n), kOf(n), lostOf(n)))
  <2> DEFINE m == n - 3
             k == kOf(n)
             b == BodyTo(params, k)
             y == Len(Answer(keptOf(n)))
             lost == lostOf(n)
             L == Len(Body(params))
             total == Len(Answer(params))
  <2>1. L \in Nat /\ total = 3 + L
    BY AnswerIs, BodyType
  <2>2. n \in 3..total
    OBVIOUS
  <2> HIDE DEF L, total
  <2>3. n \in Nat /\ m \in Nat /\ n = 3 + m /\ m <= L
    BY <2>1, <2>2
  <2> HIDE DEF m
  <2>4. k = Max({0} \cup Heads(n))
    OBVIOUS
  <2> HIDE DEF k
  <2>5. /\ k \in 0..Len(params)
        /\ k > 0 => BodyTo(params, k - 1) + 5 <= m
        /\ k < Len(params) => m < b + 5
        /\ Len(Answer(SubSeq(params, 1, k))) = 3 + b
    BY <2>3, <2>4, HeadsAre
  <2>6. b \in Nat
    BY <2>5, BodyToIs
  <2>7. lost = IF b > m THEN b - m ELSE 0
    <3>1. y = 3 + b
      BY <2>5, Zenon DEF k
    <3> HIDE DEF y, b
    <3>2. y \in Nat
      BY <2>6, <3>1
    <3>3. Max({0, y - n}) = IF y > n THEN y - n ELSE 0
      BY <2>3, <3>2, MaxOfDifference
    <3>4. (IF y > n THEN y - n ELSE 0) = IF b > m THEN b - m ELSE 0
      BY <2>3, <2>6, <3>1
    <3>5. lost = Max({0, y - n})
      BY Zenon DEF y
    <3> HIDE DEF lost
    <3> QED
      BY <3>3, <3>4, <3>5
  <2> HIDE DEF lost
  <2>8. Stored(SubSeq(Body(params), 1, m)) = Meaning(CutAt(SubSeq(params, 1, k), k, lost))
    <3>1. m <= Len(Body(params))
      BY <2>3 DEF L
    <3> QED
      BY <2>3, <2>5, <2>7, <3>1, CutIsStored
  <2>9. ReadParams(SubSeq(Answer(params), 1, n)) = Stored(SubSeq(Body(params), 1, m))
    <3>1. m <= Len(Body(params))
      BY <2>3 DEF L
    <3> QED
      BY <2>3, <3>1, AnswerIs, Zenon
  <2> QED
    BY <2>8, <2>9, Zenon DEF k, lost
<1>2. ParamsAreRead <=>
        \A n \in 3..Len(Answer(params)) :
           ReadParams(SubSeq(Answer(params), 1, n))
             = Meaning(CutAt(keptOf(n), kOf(n), lostOf(n)))
  BY Zenon DEF ParamsAreRead, CutAt, Shortened
<1> QED
  BY <1>1, <1>2, Zenon

\* The parameters of a message are those of SomeParams.
ParamsOK == params \in Seq(SomeParams)

\* They are, in every state.
LEMMA ParamsAlways == MessageSpec => []ParamsOK
<1>1. MessageInit => ParamsOK
  BY DEF MessageInit, ParamsOK
<1>2. ParamsOK /\ [MessageNext]_messageVars => ParamsOK'
  <2> SUFFICES ASSUME ParamsOK, [MessageNext]_messageVars
               PROVE  ParamsOK'
    OBVIOUS
  <2> DEFINE S == SomeParams
  <2>1. params \in Seq(S) /\ (ParamsOK' <=> params' \in Seq(S))
    BY DEF ParamsOK
  <2>2. params' = params \/ \E x \in S : params' = Append(params, x)
    BY Zenon DEF MessageNext, messageVars
  <2> HIDE DEF S
  <2> QED
    BY <2>1, <2>2
<1> QED
  BY <1>1, <1>2, PTL DEF MessageSpec

\* In every state that the check reaches (ParamsAreRead).
THEOREM TheParamsAreRead == MessageSpec => []ParamsAreRead
<1>1. ParamsOK => params \in Seq([id : Nat, value : Seq(Nat)])
  <2> DEFINE S == SomeParams
             N == [id : Nat, value : Seq(Nat)]
  <2>1. S \subseteq N
    BY DEF SomeParams
  <2> HIDE DEF S, N
  <2> SUFFICES ASSUME params \in Seq(S)
               PROVE  params \in Seq(N)
    BY Zenon DEF ParamsOK, S, N
  <2> QED
    BY <2>1
<1>2. ParamsOK => ParamsAreRead
  BY <1>1, AnyParamsAreRead, Zenon
<1> QED
  BY <1>2, ParamsAlways, PTL

=============================================================================
