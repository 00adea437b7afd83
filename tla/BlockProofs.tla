---------------------------- MODULE BlockProofs ----------------------------
(***************************************************************************)
(* Proofs about BlockBuilder, for every template: a block's body reads     *)
(* back as what went into it, and the merkle root commits to the           *)
(* transactions.                                                           *)
(***************************************************************************)
EXTENDS MCAlgorithms, PplnsProofs, SequenceTheorems

(***************************************************************************)
(* Numbers of up to eight bytes.                                           *)
(***************************************************************************)
Bytes == Seq(Nat)

\* The quotients that LittleEndian and PushMinimalInt take the bytes from.
Quotients(q, v, w) == q = [i \in 1..w |-> IF i = 1 THEN v ELSE q[i - 1] \div 256]

\* What is known of the first w of them.
Chain(q, v, w) ==
  /\ q[1] = v
  /\ \A i \in 1..w : q[i] \in Nat
  /\ \A i \in 2..w : q[i] = q[i - 1] \div 256

LEMMA ByteOf ==
  \A n \in Nat : /\ n \div 256 \in Nat /\ n % 256 \in 0..255
                 /\ n = (n % 256) + 256 * (n \div 256)
OBVIOUS

LEMMA QuotientsExist ==
  ASSUME NEW v, NEW w \in 1..8
  PROVE  \E q : Quotients(q, v, w)
<1> DEFINE a2 == v \div 256
           a3 == a2 \div 256
           a4 == a3 \div 256
           a5 == a4 \div 256
           a6 == a5 \div 256
           a7 == a6 \div 256
           a8 == a7 \div 256
           q  == [i \in 1..w |-> IF i = 1 THEN v ELSE IF i = 2 THEN a2 ELSE IF i = 3 THEN a3
                                 ELSE IF i = 4 THEN a4 ELSE IF i = 5 THEN a5
                                 ELSE IF i = 6 THEN a6 ELSE IF i = 7 THEN a7 ELSE a8]
           next(i) == IF i = 1 THEN v ELSE q[i - 1] \div 256
<1>1. ASSUME NEW i \in 1..w PROVE q[i] = next(i)
  <2>1. i \in {1, 2, 3, 4, 5, 6, 7, 8}
    OBVIOUS
  <2>2. i # 1 => i - 1 \in 1..w
    OBVIOUS
  <2> QED BY <2>1, <2>2
<1>2. q = [i \in 1..w |-> q[i]]
  OBVIOUS
<1>3. Quotients(q, v, w)
  <2>1. \A i \in 1..w : q[i] = IF i = 1 THEN v ELSE q[i - 1] \div 256
    BY <1>1
  <2> HIDE DEF q
  <2> DEFINE e == [i \in 1..w |-> IF i = 1 THEN v ELSE q[i - 1] \div 256]
  <2>2. \A i \in 1..w : q[i] = e[i]
    BY <2>1
  <2>3. e = [i \in 1..w |-> e[i]]
    OBVIOUS
  <2> HIDE DEF e
  <2>4. q = e
    BY <1>2, <2>2, <2>3
  <2> QED BY <2>4 DEF e, Quotients
<1> QED BY <1>3

LEMMA QuotientsChain ==
  ASSUME NEW v \in Nat, NEW w \in 1..8, NEW q, Quotients(q, v, w)
  PROVE  Chain(q, v, w)
<1>1. q[1] = v /\ \A i \in 2..w : q[i] = q[i - 1] \div 256
  BY DEF Quotients
<1> DEFINE In(i) == i <= w => q[i] \in Nat
<1>2. ASSUME NEW i \in 1..7, In(i) PROVE In(i + 1)
  BY <1>1, <1>2, ByteOf
<1>3. In(1)
  BY <1>1
<1> HIDE DEF In
<1>4. In(2) /\ In(3) /\ In(4)
  <2>1. In(1 + 1) BY <1>2, <1>3
  <2>2. In(2) BY <2>1
  <2>3. In(2 + 1) BY <2>2, <1>2
  <2>4. In(3) BY <2>3
  <2>5. In(3 + 1) BY <2>4, <1>2
  <2> QED BY <2>2, <2>4, <2>5
<1>5. In(5) /\ In(6) /\ In(7) /\ In(8)
  <2>1. In(4 + 1) BY <1>2, <1>4
  <2>2. In(5) BY <2>1
  <2>3. In(5 + 1) BY <2>2, <1>2
  <2>4. In(6) BY <2>3
  <2>5. In(6 + 1) BY <2>4, <1>2
  <2>6. In(7) BY <2>5
  <2>7. In(7 + 1) BY <2>6, <1>2
  <2> QED BY <2>2, <2>4, <2>6, <2>7
<1>6. \A i \in 1..w : i \in {1, 2, 3, 4, 5, 6, 7, 8}
  OBVIOUS
<1>7. \A i \in 1..w : In(i)
  BY <1>3, <1>4, <1>5, <1>6
<1> QED BY <1>1, <1>7 DEF Chain, In

\* The bytes of s are those of v.
Digits(s, v, w) == \E q : Chain(q, v, w) /\ \A i \in 1..w : s[i] = q[i] % 256

LEMMA LittleEndianIs ==
  ASSUME NEW v \in Nat, NEW w \in 1..8
  PROVE  /\ LittleEndian(v, w) \in Bytes /\ Len(LittleEndian(v, w)) = w
         /\ Digits(LittleEndian(v, w), v, w)
<1> DEFINE q == CHOOSE q : Quotients(q, v, w)
<1>1. Chain(q, v, w)
  BY QuotientsExist, QuotientsChain
<1>2. LittleEndian(v, w) = [i \in 1..w |-> q[i] % 256]
  BY DEF LittleEndian, Quotients
<1> HIDE DEF q
<1>3. \A i \in 1..w : q[i] % 256 \in Nat
  BY <1>1, ByteOf DEF Chain
<1>4. LittleEndian(v, w) \in Bytes
  BY <1>2, <1>3 DEF Bytes
<1> QED BY <1>1, <1>2, <1>4 DEF Digits

\* The sums from the top that Little is the whole of.
Sums(f, b, at, w) ==
  f = [i \in 0..w |-> IF i = w THEN 0 ELSE b[at + i] + 256 * f[i + 1]]

LEMMA SumsSame ==
  ASSUME NEW b, NEW at, NEW w \in 0..8, NEW f, NEW g, Sums(f, b, at, w), Sums(g, b, at, w)
  PROVE  f = g
<1> DEFINE Same(k) == k <= w => f[w - k] = g[w - k]
<1>1. Same(0)
  BY DEF Sums
<1>2. ASSUME NEW k \in 0..7, Same(k) PROVE Same(k + 1)
  <2> SUFFICES ASSUME k + 1 <= w PROVE f[w - (k + 1)] = g[w - (k + 1)]
    OBVIOUS
  <2> DEFINE i == w - (k + 1)
  <2>1. i \in 0..w /\ i # w /\ i + 1 = w - k
    OBVIOUS
  <2>2. f[i + 1] = g[i + 1]
    BY <1>2, <2>1
  <2> HIDE DEF i
  <2>3. f[i] = b[at + i] + 256 * f[i + 1] /\ g[i] = b[at + i] + 256 * g[i + 1]
    BY <2>1 DEF Sums
  <2> QED BY <2>2, <2>3 DEF i
<1> HIDE DEF Same
<1>3. Same(1) /\ Same(2) /\ Same(3) /\ Same(4)
  <2>1. Same(0 + 1) BY <1>1, <1>2
  <2>2. Same(1) BY <2>1
  <2>3. Same(1 + 1) BY <2>2, <1>2
  <2>4. Same(2) BY <2>3
  <2>5. Same(2 + 1) BY <2>4, <1>2
  <2>6. Same(3) BY <2>5
  <2>7. Same(3 + 1) BY <2>6, <1>2
  <2> QED BY <2>2, <2>4, <2>6, <2>7
<1>4. Same(5) /\ Same(6) /\ Same(7) /\ Same(8)
  <2>1. Same(4 + 1) BY <1>3, <1>2
  <2>2. Same(5) BY <2>1
  <2>3. Same(5 + 1) BY <2>2, <1>2
  <2>4. Same(6) BY <2>3
  <2>5. Same(6 + 1) BY <2>4, <1>2
  <2>6. Same(7) BY <2>5
  <2>7. Same(7 + 1) BY <2>6, <1>2
  <2> QED BY <2>2, <2>4, <2>6, <2>7
<1>5. \A i \in 0..w : w - i \in {0, 1, 2, 3, 4, 5, 6, 7, 8} /\ w - (w - i) = i /\ w - i <= w
  OBVIOUS
<1>6. \A i \in 0..w : f[i] = g[i]
  BY <1>1, <1>3, <1>4, <1>5 DEF Same
<1>7. f = [i \in 0..w |-> f[i]] /\ g = [i \in 0..w |-> g[i]]
  BY DEF Sums
<1> QED BY <1>6, <1>7

\* The bytes of a chain stand in b from at on.
Spells(b, at, q, w) == \A i \in 0..(w - 1) : b[at + i] = q[i + 1] % 256

\* Reading the bytes of v gives v, if they are all there.
LEMMA LittleReads ==
  ASSUME NEW v, NEW w \in 1..8, NEW q, Chain(q, v, w), q[w] < 256,
         NEW b, NEW at, Spells(b, at, q, w)
  PROVE  Little(b, at, w) = v
<1>0. \A i \in 0..(w - 1) : b[at + i] = q[i + 1] % 256
  BY DEF Spells
<1> DEFINE g == [i \in 0..w |-> IF i = w THEN 0 ELSE q[i + 1]]
           f == CHOOSE f : Sums(f, b, at, w)
<1>1. ASSUME NEW i \in 0..w
      PROVE  g[i] = IF i = w THEN 0 ELSE b[at + i] + 256 * g[i + 1]
  <2>1. CASE i = w
    BY <2>1
  <2>2. CASE i = w - 1
    <3>0. q[w] \in Nat
      BY DEF Chain
    <3>1. q[w] % 256 = q[w] /\ i + 1 = w
      BY <2>2, <3>0
    <3>2. g[i] = q[w] /\ g[i + 1] = 0 /\ b[at + i] = q[w] % 256 /\ i # w
      BY <1>0, <2>2, <3>1
    <3> QED BY <3>0, <3>1, <3>2
  <2>3. CASE i \in 0..(w - 2)
    <3>1. i + 1 \in 1..w /\ i + 2 \in 2..w /\ (i + 2) - 1 = i + 1 /\ i + 1 # w
      BY <2>3
    <3>2. q[i + 1] \in Nat /\ q[i + 2] = q[i + 1] \div 256
      BY <3>1 DEF Chain
    <3>3. g[i] = q[i + 1] /\ g[i + 1] = q[i + 2] /\ b[at + i] = q[i + 1] % 256
      BY <1>0, <2>3, <3>1
    <3> QED BY <2>3, <3>2, <3>3, ByteOf
  <2> QED BY <2>1, <2>2, <2>3
<1>2. Sums(g, b, at, w)
  <2>1. g = [i \in 0..w |-> g[i]]
    OBVIOUS
  <2> HIDE DEF g
  <2> QED BY <1>1, <2>1 DEF Sums
<1>3. g[0] = v
  BY DEF Chain
<1> HIDE DEF g
<1>4. f = g
  <2>1. Sums(f, b, at, w)
    BY <1>2
  <2> HIDE DEF f
  <2> QED BY <1>2, <2>1, SumsSame
<1>5. Little(b, at, w) = f[0]
  BY DEF Little, Sums
<1> QED BY <1>3, <1>4, <1>5

(***************************************************************************)
(* Bytes at a place, and what the readers make of them there.              *)
(***************************************************************************)
\* The sequence s stands in b from at on.
Holds(b, at, s) == \A i \in 1..Len(s) : b[at - 1 + i] = s[i]

LEMMA HoldsBoth ==
  ASSUME NEW s \in Bytes, NEW u \in Bytes, NEW b, NEW at \in Nat, Holds(b, at, s \o u)
  PROVE  /\ Holds(b, at, s) /\ Holds(b, at + Len(s), u)
         /\ s \o u \in Bytes /\ Len(s \o u) = Len(s) + Len(u) /\ at + Len(s) \in Nat
<1>1. /\ Len(s) \in Nat /\ Len(u) \in Nat /\ Len(s \o u) = Len(s) + Len(u)
      /\ s \o u \in Bytes
      /\ \A i \in 1..(Len(s) + Len(u)) :
           (s \o u)[i] = IF i <= Len(s) THEN s[i] ELSE u[i - Len(s)]
  BY ConcatProperties DEF Bytes
<1>2. ASSUME NEW i \in 1..Len(s) PROVE b[at - 1 + i] = s[i]
  BY <1>1 DEF Holds
<1>3. ASSUME NEW i \in 1..Len(u) PROVE b[at + Len(s) - 1 + i] = u[i]
  <2>1. /\ Len(s) + i \in 1..(Len(s) + Len(u)) /\ ~(Len(s) + i <= Len(s))
        /\ Len(s) + i - Len(s) = i
    BY <1>1
  <2>2. b[at - 1 + (Len(s) + i)] = u[i]
    BY <1>1, <2>1 DEF Holds
  <2>3. at - 1 + (Len(s) + i) = at + Len(s) - 1 + i
    BY <1>1
  <2> QED BY <2>2, <2>3
<1> QED BY <1>1, <1>2, <1>3 DEF Holds

\* A number below 256^w, whose bytes are all in w of them.
Fits(v, w) == \A q : Chain(q, v, w) => q[w] < 256

LEMMA Quotient ==
  ASSUME NEW n \in Nat, NEW k \in Nat, n < 256 * k
  PROVE  n \div 256 \in Nat /\ n \div 256 < k
OBVIOUS

LEMMA FitsTwo ==
  ASSUME NEW v \in Nat, v <= 65535
  PROVE  Fits(v, 2)
<1> SUFFICES ASSUME NEW q, Chain(q, v, 2) PROVE q[2] < 256
  BY DEF Fits
<1>1. q[1] = v /\ q[2] = q[1] \div 256
  BY DEF Chain
<1> QED BY <1>1

LEMMA QuotientTwice ==
  ASSUME NEW n \in Nat
  PROVE  (n \div 256) \div 256 = n \div 65536
OBVIOUS

\* Below 2^32.
FourBytes(v) == v \div 65536 <= 65535

LEMMA FitsFour ==
  ASSUME NEW v \in Nat, FourBytes(v)
  PROVE  Fits(v, 4)
<1> SUFFICES ASSUME NEW q, Chain(q, v, 4) PROVE q[4] < 256
  BY DEF Fits
<1>1. /\ q[1] = v /\ q[2] = q[1] \div 256 /\ q[3] = q[2] \div 256 /\ q[4] = q[3] \div 256
      /\ q[1] \in Nat /\ q[2] \in Nat /\ q[3] \in Nat
  BY DEF Chain
<1>2. q[3] = v \div 65536
  <2>1. q[3] = (v \div 256) \div 256
    BY <1>1
  <2> QED BY ONLY <2>1, QuotientTwice, v \in Nat
<1>3. q[3] <= 65535
  BY <1>2 DEF FourBytes
<1> QED BY ONLY <1>1, <1>3

\* Below 2^64.
EightBytes(v) == v \div 4294967296 < 4294967296

LEMMA QuotientFour ==
  ASSUME NEW n \in Nat
  PROVE  (n \div 65536) \div 65536 = n \div 4294967296
OBVIOUS

\* A bound on the eighth byte.
LEMMA EighthByte ==
  ASSUME NEW v \in Nat, NEW q, Chain(q, v, 8),
         NEW k \in Nat, v \div 4294967296 < 256 * (256 * (256 * k))
  PROVE  q[8] < k
<1>0. k \in Nat /\ 256 * k \in Nat /\ 256 * (256 * k) \in Nat
  OBVIOUS
<1>1. /\ q[1] \in Nat /\ q[2] \in Nat /\ q[3] \in Nat /\ q[4] \in Nat
      /\ q[5] \in Nat /\ q[6] \in Nat /\ q[7] \in Nat
  BY DEF Chain
<1>2. \A i \in 2..8 : q[i] = q[i - 1] \div 256
  BY DEF Chain
<1>3. q[1] = v
  BY DEF Chain
<1>4. q[3] = v \div 65536
  <2>1. q[2] = v \div 256
    <3>1. q[2] = q[2 - 1] \div 256 BY ONLY <1>2
    <3> QED BY ONLY <1>3, <3>1
  <2>2. q[3] = q[2] \div 256
    <3>1. q[3] = q[3 - 1] \div 256 BY ONLY <1>2
    <3> QED BY ONLY <3>1
  <2>3. q[3] = (v \div 256) \div 256
    BY ONLY <2>1, <2>2
  <2> QED BY ONLY <2>3, QuotientTwice, v \in Nat
<1>5. q[5] = q[3] \div 65536
  <2>1. q[4] = q[3] \div 256
    <3>1. q[4] = q[4 - 1] \div 256 BY ONLY <1>2
    <3> QED BY ONLY <3>1
  <2>2. q[5] = q[4] \div 256
    <3>1. q[5] = q[5 - 1] \div 256 BY ONLY <1>2
    <3> QED BY ONLY <3>1
  <2>3. q[5] = (q[3] \div 256) \div 256
    BY ONLY <2>1, <2>2
  <2> QED BY ONLY <2>3, QuotientTwice, <1>1
<1>6. q[5] < 256 * (256 * (256 * k))
  <2>1. q[5] = (v \div 65536) \div 65536
    BY ONLY <1>4, <1>5
  <2>2. q[5] = v \div 4294967296
    BY ONLY <2>1, QuotientFour, v \in Nat
  <2>3. v \div 4294967296 < 256 * (256 * (256 * k))
    OBVIOUS
  <2> QED BY ONLY <2>2, <2>3
<1>7. q[6] < 256 * (256 * k)
  <2>1. q[6] = q[5] \div 256
    <3>1. q[6] = q[6 - 1] \div 256 BY ONLY <1>2
    <3> QED BY ONLY <3>1
  <2>2. q[5] \div 256 < 256 * (256 * k)
    BY ONLY <1>1, <1>6, Quotient, <1>0
  <2> QED BY ONLY <2>1, <2>2
<1>8. q[7] < 256 * k
  <2>1. q[7] = q[6] \div 256
    <3>1. q[7] = q[7 - 1] \div 256 BY ONLY <1>2
    <3> QED BY ONLY <3>1
  <2>2. q[6] \div 256 < 256 * k
    BY ONLY <1>1, <1>7, Quotient, <1>0
  <2> QED BY ONLY <2>1, <2>2
<1>9. q[8] = q[7] \div 256
  <2>1. q[8] = q[8 - 1] \div 256 BY ONLY <1>2
  <2> QED BY ONLY <2>1
<1>10. q[7] \div 256 < k
  BY ONLY <1>1, <1>8, Quotient, k \in Nat
<1> QED BY ONLY <1>9, <1>10

LEMMA FitsEight ==
  ASSUME NEW v \in Nat, EightBytes(v)
  PROVE  Fits(v, 8)
<1>1. v \div 4294967296 < 256 * (256 * (256 * 256))
  BY DEF EightBytes
<1> QED BY <1>1, EighthByte DEF Fits

\* A number written with w bytes is read from them.
LEMMA NumberReads ==
  ASSUME NEW v \in Nat, NEW w \in 1..8, Fits(v, w),
         NEW b, NEW at \in Nat, Holds(b, at, LittleEndian(v, w))
  PROVE  Little(b, at, w) = v
<1>1. PICK q : Chain(q, v, w) /\ \A i \in 1..w : LittleEndian(v, w)[i] = q[i] % 256
  <2>1. Digits(LittleEndian(v, w), v, w)
    BY LittleEndianIs
  <2> QED BY <2>1 DEF Digits
<1>2. Len(LittleEndian(v, w)) = w
  BY LittleEndianIs
<1>3. ASSUME NEW i \in 0..(w - 1) PROVE b[at + i] = q[i + 1] % 256
  <2>1. i + 1 \in 1..w /\ at - 1 + (i + 1) = at + i
    OBVIOUS
  <2> QED BY <1>1, <1>2, <2>1 DEF Holds
<1>4. Spells(b, at, q, w)
  BY <1>3 DEF Spells
<1> QED BY <1>1, <1>4, LittleReads DEF Fits

\* A prefix is read as the number it stands for, and the reader goes past it.
ReadsVarint(b, at, v) ==
  /\ Varint(v) \in Bytes
  /\ ReadVarint(b, at) = [value |-> v, next |-> at + Len(Varint(v))]

LEMMA ReadVarintIs ==
  ASSUME NEW b, NEW at \in Nat, NEW w, w = Width(b[at]), NEW v,
         v = IF w = 0 THEN b[at] ELSE Little(b, at + 1, w)
  PROVE  ReadVarint(b, at) = [value |-> v, next |-> at + 1 + w]
BY DEF ReadVarint

LEMMA VarintShort ==
  ASSUME NEW v \in Nat, v < 253, NEW b, NEW at \in Nat, Holds(b, at, Varint(v))
  PROVE  ReadsVarint(b, at, v)
<1>1. Varint(v) = <<v>>
  BY DEF Varint
<1>2. Len(<<v>>) = 1 /\ <<v>> \in Bytes
  BY DEF Bytes
<1>3. b[at] = v
  BY <1>1 DEF Holds
<1>4. 0 = Width(b[at])
  BY <1>3 DEF Width
<1>5. ReadVarint(b, at) = [value |-> v, next |-> at + 1 + 0]
  BY <1>3, <1>4, ReadVarintIs
<1> QED BY <1>1, <1>2, <1>5 DEF ReadsVarint

\* The three longer forms: a mark for the width, and the bytes.
Marked(v, w, mark) == Varint(v) = <<mark>> \o LittleEndian(v, w)

LEMMA VarintMarked ==
  ASSUME NEW v \in Nat, NEW w \in 1..8, Fits(v, w), NEW mark \in 0..255, w = Width(mark),
         Marked(v, w, mark), NEW b, NEW at \in Nat, Holds(b, at, Varint(v))
  PROVE  ReadsVarint(b, at, v)
<1> DEFINE m == <<mark>>
           u == LittleEndian(v, w)
<1>1. m \in Bytes /\ Len(m) = 1 /\ m[1] = mark
  BY DEF Bytes
<1>2. u \in Bytes /\ Len(u) = w
  BY LittleEndianIs
<1>3. Varint(v) = m \o u
  BY DEF Marked
<1>h. /\ Holds(b, at, m) /\ Holds(b, at + Len(m), u)
      /\ m \o u \in Bytes /\ Len(m \o u) = Len(m) + Len(u)
  <2> HIDE DEF m, u
  <2>1. Holds(b, at, m \o u)
    BY <1>3
  <2> QED BY ONLY <2>1, <1>1, <1>2, at \in Nat, HoldsBoth
<1>4. Little(b, at + 1, w) = v
  <2>1. Holds(b, at + 1, u) /\ at + 1 \in Nat
    <3> HIDE DEF m, u
    <3> QED BY <1>1, <1>h
  <2> QED BY <2>1, NumberReads
<1>5. b[at] = mark
  <2> HIDE DEF m, u
  <2> QED BY <1>h, <1>1 DEF Holds
<1>6. m \o u \in Bytes /\ Len(m \o u) = 1 + w
  <2> HIDE DEF m, u
  <2> QED BY <1>1, <1>2, <1>h
<1>7. ReadVarint(b, at) = [value |-> v, next |-> at + 1 + w]
  BY <1>4, <1>5, ReadVarintIs
<1> HIDE DEF m, u
<1> QED BY <1>3, <1>6, <1>7 DEF ReadsVarint

LEMMA VarintReads ==
  ASSUME NEW v \in Nat, EightBytes(v),
         NEW b, NEW at \in Nat, Holds(b, at, Varint(v))
  PROVE  /\ Varint(v) \in Bytes
         /\ ReadVarint(b, at) = [value |-> v, next |-> at + Len(Varint(v))]
<1> SUFFICES ReadsVarint(b, at, v)
  BY DEF ReadsVarint
<1>1. CASE v < 253
  BY <1>1, VarintShort
<1>2. CASE v >= 253 /\ v <= 65535
  <2>1. Marked(v, 2, 253)
    BY <1>2 DEF Varint, Marked
  <2>2. Fits(v, 2)
    BY <1>2, FitsTwo
  <2>3. 2 = Width(253)
    BY DEF Width
  <2> QED BY <2>1, <2>2, <2>3, VarintMarked
<1>3. CASE v > 65535 /\ v \div 65536 <= 65535
  <2>1. Marked(v, 4, 254)
    BY <1>3 DEF Varint, Marked
  <2>2. Fits(v, 4)
    BY <1>3, FitsFour DEF FourBytes
  <2>3. 4 = Width(254)
    BY DEF Width
  <2> QED BY <2>1, <2>2, <2>3, VarintMarked
<1>4. CASE v > 65535 /\ v \div 65536 > 65535
  <2>1. Marked(v, 8, 255)
    BY <1>4 DEF Varint, Marked
  <2>2. Fits(v, 8)
    BY FitsEight
  <2>3. 8 = Width(255)
    BY DEF Width
  <2> QED BY <2>1, <2>2, <2>3, VarintMarked
<1> QED BY <1>1, <1>2, <1>3, <1>4

\* Bytes that stand at a place are cut out from there.
LEMMA HoldsSubSeq ==
  ASSUME NEW s \in Bytes, NEW b, NEW n \in Nat, Holds(b, n, s)
  PROVE  SubSeq(b, n, n + Len(s) - 1) = s
<1> DEFINE m == n + Len(s) - 1
<1>0. Len(s) \in Nat /\ s \in Seq(Nat)
  BY LenProperties DEF Bytes
<1>1. ASSUME NEW i \in n..m PROVE b[i] \in Nat
  <2>1. i - n + 1 \in 1..Len(s) /\ n - 1 + (i - n + 1) = i
    BY <1>0
  <2>2. b[i] = s[i - n + 1]
    BY <2>1 DEF Holds
  <2> QED BY <1>0, <2>1, <2>2, ElementOfSeq
<1>2. m \in Int /\ n \in Int /\ m - n + 1 = Len(s) /\ (~(n <= m) => Len(s) = 0)
  BY <1>0
<1> HIDE DEF m
<1>3. /\ SubSeq(b, n, m) \in Seq(Nat) /\ Len(SubSeq(b, n, m)) = Len(s)
      /\ \A i \in 1..Len(s) : SubSeq(b, n, m)[i] = b[n + i - 1]
  BY <1>1, <1>2, SubSeqProperties
<1>4. ASSUME NEW i \in 1..Len(s) PROVE SubSeq(b, n, m)[i] = s[i]
  <2>1. n + i - 1 = n - 1 + i
    OBVIOUS
  <2> QED BY <1>3, <2>1 DEF Holds
<1>5. SubSeq(b, n, m) = s
  BY <1>0, <1>3, <1>4, SeqEqual
<1> QED BY <1>5 DEF m

\* Every number is written as bytes.
LEMMA VarintBytes ==
  ASSUME NEW v \in Nat
  PROVE  Varint(v) \in Bytes
<1>1. CASE v < 253
  BY <1>1 DEF Varint, Bytes
<1>2. CASE ~(v < 253)
  <2>1. \A x \in {253, 254, 255} : <<x>> \in Bytes
    BY DEF Bytes
  <2>2. \A w \in {2, 4, 8} : LittleEndian(v, w) \in Bytes
    BY LittleEndianIs
  <2>3. \A x \in {253, 254, 255}, w \in {2, 4, 8} : <<x>> \o LittleEndian(v, w) \in Bytes
    BY <2>1, <2>2, ConcatProperties DEF Bytes
  <2> QED BY <1>2, <2>3 DEF Varint
<1> QED BY <1>1, <1>2

\* Bytes behind their length are read, and the next part begins after them.
LEMMA CountedReads ==
  ASSUME NEW s \in Bytes, EightBytes(Len(s)),
         NEW b, NEW at \in Nat, Holds(b, at, Counted(s))
  PROVE  /\ Counted(s) \in Bytes
         /\ ReadCounted(b, at) = [value |-> s, next |-> at + Len(Counted(s))]
         /\ at + Len(Counted(s)) \in Nat
<1> DEFINE p == Varint(Len(s))
           n == at + Len(p)
<1>0. Len(s) \in Nat
  BY LenProperties DEF Bytes
<1>1. p \in Bytes
  BY <1>0, VarintBytes
<1>2. /\ Holds(b, at, p) /\ Holds(b, n, s) /\ Counted(s) \in Bytes
      /\ Len(Counted(s)) = Len(p) + Len(s) /\ n \in Nat
  BY <1>1, HoldsBoth DEF Counted
<1>3. ReadVarint(b, at) = [value |-> Len(s), next |-> n]
  BY <1>0, <1>2, VarintReads
<1>4. n + Len(s) = at + Len(Counted(s))
  BY <1>0, <1>1, <1>2, LenProperties DEF Bytes
<1> HIDE DEF n
<1>5. SubSeq(b, n, n + Len(s) - 1) = s
  BY <1>2, HoldsSubSeq
<1>6. ReadCounted(b, at) = [value |-> SubSeq(b, n, n + Len(s) - 1), next |-> n + Len(s)]
  BY <1>3 DEF ReadCounted
<1>7. n + Len(s) \in Nat
  BY <1>0, <1>2
<1> QED BY <1>2, <1>4, <1>5, <1>6, <1>7

-----------------------------------------------------------------------------
(***************************************************************************)
(* Induction up to a number, and the folds as recursive functions.         *)
(***************************************************************************)
LEMMA UpTo ==
  ASSUME NEW n \in Nat, NEW P, 0 \in P, \A k \in 0..n : k # n /\ k \in P => k + 1 \in P
  PROVE  \A k \in 0..n : k \in P
<1> DEFINE S == 0..n
           Q == {T \in SUBSET S : \A k \in 0..n : T = 0..k => k \in P}
<1>1. IsFiniteSet(S)
  BY FS_Interval
<1>2. \A T \in SUBSET S : (\A U \in SUBSET T : U # T => U \in Q) => T \in Q
  <2> SUFFICES ASSUME NEW T \in SUBSET S, \A U \in SUBSET T : U # T => U \in Q,
                      NEW k \in 0..n, T = 0..k
               PROVE  k \in P
    OBVIOUS
  <2>1. CASE k = 0
    BY <2>1
  <2>2. CASE k # 0
    <3>1. 0..(k - 1) \in SUBSET T /\ 0..(k - 1) # T /\ k - 1 \in 0..n /\ k - 1 # n
          /\ k - 1 + 1 = k
      BY <2>2
    <3>2. k - 1 \in P
      BY <3>1
    <3> QED BY <3>1, <3>2
  <2> QED BY <2>1, <2>2
<1>3. \A T \in SUBSET S : T \in Q
  <2> HIDE DEF Q, S
  <2> QED BY <1>1, <1>2, SetInduction, Zenon
<1> QED BY <1>3

LEMMA MaxIn ==
  ASSUME NEW n \in Nat, NEW s \in SUBSET (1..n), s # {}
  PROVE  Max(s) \in s /\ \A y \in s : Max(s) >= y
<1> DEFINE S == 1..n
           Q == {T \in SUBSET S : T # {} => \E x \in T : \A y \in T : x >= y}
<1>1. IsFiniteSet(S)
  BY FS_Interval
<1>2. \A T \in SUBSET S : (\A U \in SUBSET T : U # T => U \in Q) => T \in Q
  <2> SUFFICES ASSUME NEW T \in SUBSET S, \A U \in SUBSET T : U # T => U \in Q, T # {}
               PROVE  \E x \in T : \A y \in T : x >= y
    OBVIOUS
  <2>1. PICK e : e \in T
    OBVIOUS
  <2> DEFINE U == T \ {e}
  <2>2. U \in Q
    BY <2>1
  <2>3. CASE U = {}
    BY <2>1, <2>3
  <2>4. CASE U # {}
    <3>1. PICK x \in U : \A y \in U : x >= y
      BY <2>2, <2>4
    <3>2. x >= e \/ e >= x
      BY <2>1, <3>1
    <3>3. CASE x >= e
      BY <3>1, <3>3
    <3>4. CASE e >= x
      BY <2>1, <3>1, <3>4
    <3> QED BY <3>2, <3>3, <3>4
  <2> QED BY <2>3, <2>4
<1>3. \A T \in SUBSET S : T \in Q
  <2> HIDE DEF Q, S
  <2> QED BY <1>1, <1>2, SetInduction, Zenon
<1>4. \E x \in s : \A y \in s : x >= y
  BY <1>3
<1> QED BY <1>4 DEF Max

\* One step of the two folds of the model: concatenation, and a round of pairing.
FoldOp(kind, acc, x) ==
  IF kind = "join" THEN acc \o x ELSE IF Len(acc) = 1 THEN acc ELSE PairUp(acc)

\* The equation of the recursive function behind them.
IsFold(g, kind, base, f, S) ==
  g = [s \in SUBSET S |-> IF s = {} THEN base
                          ELSE FoldOp(kind, g[s \ {Max(s)}], f[Max(s)])]

LEMMA FoldsUnique ==
  ASSUME NEW kind, NEW base, NEW f, NEW n \in Nat, NEW S \in SUBSET (1..n),
         NEW g, NEW h, IsFold(g, kind, base, f, S), IsFold(h, kind, base, f, S)
  PROVE  g = h
<1> DEFINE P == {T \in SUBSET S : g[T] = h[T]}
<1>0. IsFiniteSet(S)
  <2>1. IsFiniteSet(1..n)
    BY FS_Interval
  <2> QED BY <2>1, FS_Subset
<1>1. \A T \in SUBSET S : (\A U \in SUBSET T : U # T => U \in P) => T \in P
  <2> SUFFICES ASSUME NEW T \in SUBSET S, \A U \in SUBSET T : U # T => U \in P
               PROVE  g[T] = h[T]
    OBVIOUS
  <2>1. CASE T = {}
    BY <2>1 DEF IsFold
  <2>2. CASE T # {}
    <3>0. Max(T) \in T
      BY <2>2, MaxIn
    <3>1. T \ {Max(T)} \in SUBSET T /\ T \ {Max(T)} # T
      BY <3>0
    <3>2. g[T \ {Max(T)}] = h[T \ {Max(T)}]
      BY <3>1
    <3>3. /\ g[T] = FoldOp(kind, g[T \ {Max(T)}], f[Max(T)])
          /\ h[T] = FoldOp(kind, h[T \ {Max(T)}], f[Max(T)])
      BY <2>2 DEF IsFold
    <3> QED BY <3>2, <3>3
  <2> QED BY <2>1, <2>2
<1>2. \A T \in SUBSET S : T \in P
  <2> HIDE DEF P
  <2> QED BY <1>0, <1>1, SetInduction, Zenon
<1>3. g = [s \in SUBSET S |-> g[s]] /\ h = [s \in SUBSET S |-> h[s]]
  BY DEF IsFold
<1> QED BY <1>2, <1>3

\* The function on the subsets of a subset.
LEMMA FoldsRestrict ==
  ASSUME NEW kind, NEW base, NEW f, NEW n \in Nat, NEW S \in SUBSET (1..n),
         NEW g, IsFold(g, kind, base, f, S), NEW T \in SUBSET S
  PROVE  IsFold([s \in SUBSET T |-> g[s]], kind, base, f, T)
<1>1. \A s \in SUBSET T : s # {} => Max(s) \in s /\ s \ {Max(s)} \in SUBSET T
  BY MaxIn
<1>2. \A s \in SUBSET T : s # {} => g[s] = FoldOp(kind, g[s \ {Max(s)}], f[Max(s)])
  BY DEF IsFold
<1>3. g[{}] = base
  BY DEF IsFold
<1> QED BY <1>1, <1>2, <1>3 DEF IsFold

LEMMA FoldsExist ==
  ASSUME NEW kind, NEW base, NEW f, NEW n \in Nat, NEW S \in SUBSET (1..n)
  PROVE  \E g : IsFold(g, kind, base, f, S)
<1> DEFINE P == {T \in SUBSET S : \E g : IsFold(g, kind, base, f, T)}
           G(T) == CHOOSE g : IsFold(g, kind, base, f, T)
<1>0. IsFiniteSet(S)
  <2>1. IsFiniteSet(1..n)
    BY FS_Interval
  <2> QED BY <2>1, FS_Subset
<1>1. ASSUME NEW T \in SUBSET S, \A U \in SUBSET T : U # T => U \in P
      PROVE  \E g : IsFold(g, kind, base, f, T)
  <2> DEFINE val(s) == IF s = {} THEN base
                       ELSE FoldOp(kind, G(s \ {Max(s)})[s \ {Max(s)}], f[Max(s)])
             h == [s \in SUBSET T |-> val(s)]
  <2>0. \A s \in SUBSET T : s # {} => Max(s) \in s
    BY MaxIn
  <2>1. ASSUME NEW U \in SUBSET T, U # T PROVE IsFold(G(U), kind, base, f, U)
    BY <1>1, <2>1
  <2>2. ASSUME NEW s \in SUBSET T, s # T PROVE G(s)[s] = val(s)
    <3>0. IsFold(G(s), kind, base, f, s)
      BY <2>1, <2>2
    <3>1. CASE s = {}
      <4>1. G(s)[{}] = base
        <5> HIDE DEF G
        <5> QED BY <3>0 DEF IsFold
      <4> QED BY <3>1, <4>1
    <3>2. CASE s # {}
      <4> DEFINE u == s \ {Max(s)}
      <4>1. u \in SUBSET s /\ u # T /\ u \in SUBSET T /\ u \in SUBSET u /\ s \in SUBSET (1..n)
            /\ u \in SUBSET (1..n)
        BY <2>0, <3>2
      <4>2. G(s)[s] = FoldOp(kind, G(s)[u], f[Max(s)])
        <5> HIDE DEF G
        <5> QED BY <3>0, <3>2 DEF IsFold
      <4>3. IsFold([v \in SUBSET u |-> G(s)[v]], kind, base, f, u)
        <5> HIDE DEF G, u
        <5> QED BY <3>0, <4>1, FoldsRestrict
      <4>4. IsFold(G(u), kind, base, f, u)
        BY <2>1, <4>1
      <4>6. G(u) = [v \in SUBSET u |-> G(s)[v]]
        <5> HIDE DEF u, G
        <5> QED BY <4>1, <4>3, <4>4, FoldsUnique
      <4>7. G(u)[u] = G(s)[u]
        <5> HIDE DEF u, G
        <5> QED BY <4>6, <4>1
      <4>8. val(s) = FoldOp(kind, G(u)[u], f[Max(s)])
        <5> HIDE DEF G
        <5> QED BY <3>2
      <4> HIDE DEF val, u, G
      <4> QED BY ONLY <4>2, <4>7, <4>8
    <3> QED BY <3>1, <3>2
  <2>3. ASSUME NEW s \in SUBSET T, s # {}
        PROVE  h[s] = FoldOp(kind, h[s \ {Max(s)}], f[Max(s)])
    <3> DEFINE u == s \ {Max(s)}
    <3>1. u \in SUBSET T /\ u # T
      BY <2>0, <2>3
    <3>2. h[u] = G(u)[u]
      BY <2>2, <3>1
    <3> QED BY <2>3, <3>2
  <2>4. h[{}] = base
    OBVIOUS
  <2>5. IsFold(h, kind, base, f, T)
    <3> HIDE DEF val
    <3>1. h = [s \in SUBSET T |-> h[s]]
      OBVIOUS
    <3> HIDE DEF h
    <3> QED BY <2>3, <2>4, <3>1 DEF IsFold
  <2> QED BY <2>5
<1>2. \A T \in SUBSET S : (\A U \in SUBSET T : U # T => U \in P) => T \in P
  BY <1>1
<1>3. \A T \in SUBSET S : T \in P
  <2> HIDE DEF P
  <2> QED BY <1>0, <1>2, SetInduction, Zenon
<1> QED BY <1>3

TheFold(kind, base, f, n) == (CHOOSE g : IsFold(g, kind, base, f, 1..n))[1..n]

\* The same, one element after the other.
Rounds(F, kind, base, f, n) ==
  /\ F[0] = base
  /\ \A k \in 0..(n - 1) : F[k + 1] = FoldOp(kind, F[k], f[k + 1])

LEMMA FoldRounds ==
  ASSUME NEW kind, NEW base, NEW f, NEW n \in Nat
  PROVE  \E F : /\ Rounds(F, kind, base, f, n)
                /\ TheFold(kind, base, f, n) = F[n]
<1> DEFINE g == CHOOSE g : IsFold(g, kind, base, f, 1..n)
           F == [k \in 0..n |-> g[1..k]]
<1>1. IsFold(g, kind, base, f, 1..n)
  BY FoldsExist
<1> HIDE DEF g
<1>2. F[0] = base
  <2>1. 1..0 = {}
    OBVIOUS
  <2>2. g[{}] = base
    BY <1>1 DEF IsFold
  <2> QED BY <2>1, <2>2
<1>3. ASSUME NEW k \in 0..(n - 1) PROVE F[k + 1] = FoldOp(kind, F[k], f[k + 1])
  <2> DEFINE s == 1..(k + 1)
  <2>1. s \in SUBSET (1..n) /\ s # {} /\ k + 1 \in s /\ \A y \in s : y <= k + 1
    OBVIOUS
  <2>2. Max(s) = k + 1
    <3>1. Max(s) \in s /\ Max(s) >= k + 1
      BY <2>1, MaxIn
    <3> QED BY <2>1, <3>1
  <2>3. s \ {k + 1} = 1..k
    OBVIOUS
  <2> HIDE DEF s
  <2>4. g[s] = FoldOp(kind, g[s \ {Max(s)}], f[Max(s)])
    BY <1>1, <2>1 DEF IsFold
  <2>5. F[k] = g[1..k] /\ F[k + 1] = g[s]
    BY DEF s
  <2> QED BY <2>2, <2>3, <2>4, <2>5
<1>4. F[n] = g[1..n]
  OBVIOUS
<1> HIDE DEF F
<1> QED BY <1>2, <1>3, <1>4 DEF Rounds, g, TheFold

LEMMA FlattenRounds ==
  ASSUME NEW n \in Nat, NEW f, DOMAIN f = 1..n
  PROVE  \E F : Rounds(F, "join", <<>>, f, n) /\ Flatten(f) = F[n]
<1>1. Flatten(f) = (CHOOSE g : g = [s \in SUBSET (1..n) |->
                      IF s = {} THEN <<>> ELSE g[s \ {Max(s)}] \o f[Max(s)]])[1..n]
  BY DEF Flatten, FoldLeft, MapThenFoldSet
<1>2. Flatten(f) = TheFold("join", <<>>, f, n)
  BY <1>1 DEF IsFold, FoldOp, TheFold
<1> QED BY <1>2, FoldRounds

LEMMA MerkleRounds ==
  ASSUME NEW n \in Nat, NEW l, DOMAIN l = 1..n
  PROVE  \E F : /\ Rounds(F, "pair", [i \in DOMAIN l |-> Flip(l[i])],
                          [i \in DOMAIN l |-> Flip(l[i])], n)
                /\ MerkleRoot(l) = Head(F[n])
<1> DEFINE e == [i \in DOMAIN l |-> Flip(l[i])]
<1>1. MerkleRoot(l) = Head((CHOOSE g : g = [s \in SUBSET (DOMAIN e) |->
                        IF s = {} THEN e
                        ELSE IF Len(g[s \ {Max(s)}]) = 1 THEN g[s \ {Max(s)}]
                             ELSE PairUp(g[s \ {Max(s)}])])[DOMAIN e])
  BY DEF MerkleRoot, FoldLeft, MapThenFoldSet
<1>2. DOMAIN e = 1..n
  OBVIOUS
<1> HIDE DEF e
<1>3. MerkleRoot(l) = Head(TheFold("pair", e, e, n))
  BY <1>1, <1>2 DEF IsFold, FoldOp, TheFold
<1>4. PICK F : Rounds(F, "pair", e, e, n) /\ TheFold("pair", e, e, n) = F[n]
  BY FoldRounds
<1>5. Rounds(F, "pair", e, e, n) /\ MerkleRoot(l) = Head(F[n])
  BY <1>3, <1>4
<1> QED BY <1>5 DEF e

-----------------------------------------------------------------------------
(***************************************************************************)
(* The height a coinbase script begins with.                               *)
(***************************************************************************)
\* Below 2^63.
SignedEight(v) == v \div 4294967296 < 2147483648

\* A quotient that is zero stays zero.
LEMMA ZerosStay ==
  ASSUME NEW v, NEW q, Chain(q, v, 8), NEW i \in 1..8, q[i] = 0, NEW j \in i..8
  PROVE  q[j] = 0
<1> DEFINE P == {k \in 0..(8 - i) : q[i + k] = 0}
<1>1. 0 \in P
  <2>1. i + 0 = i /\ 0 \in 0..(8 - i)
    OBVIOUS
  <2> QED BY <2>1
<1>2. ASSUME NEW k \in 0..(8 - i), k # 8 - i, k \in P PROVE k + 1 \in P
  <2>1. i + (k + 1) \in 2..8 /\ i + (k + 1) - 1 = i + k /\ k + 1 \in 0..(8 - i)
    BY <1>2
  <2>2. q[i + (k + 1)] = q[i + k] \div 256
    BY <2>1 DEF Chain
  <2>3. q[i + k] = 0
    BY <1>2
  <2> QED BY <2>1, <2>2, <2>3
<1>3. \A k \in 0..(8 - i) : k \in P
  <2>1. 8 - i \in Nat
    OBVIOUS
  <2> HIDE DEF P
  <2> QED BY <1>1, <1>2, <2>1, UpTo
<1>4. j - i \in 0..(8 - i) /\ i + (j - i) = j
  OBVIOUS
<1> QED BY <1>3, <1>4

\* The bytes that are not zero at the top are the first m.
LEMMA TopByte ==
  ASSUME NEW v \in Nat, v > 0, NEW q, Chain(q, v, 8)
  PROVE  \E m \in 1..8 : /\ Cardinality({j \in 1..8 : q[j] > 0}) = m
                         /\ m < 8 => q[m + 1] = 0 /\ q[m] < 256
<1> DEFINE J == {j \in 1..8 : q[j] > 0}
           m == Max(J)
<1>1. 1 \in J
  BY DEF Chain
<1>2. m \in J /\ \A j \in J : m >= j
  BY <1>1, MaxIn
<1> HIDE DEF m
<1>3. ASSUME NEW j \in 1..m PROVE j \in J
  <2>1. j \in 1..8 /\ m \in j..8
    BY <1>2
  <2>2. q[j] # 0
    BY <1>2, <2>1, ZerosStay
  <2>3. q[j] \in Nat
    BY <2>1 DEF Chain
  <2> QED BY <2>1, <2>2, <2>3
<1>4. J = 1..m
  <2>1. \A j \in J : j \in 1..m
    BY <1>2
  <2> QED BY <1>3, <2>1
<1>5. Cardinality(J) = m
  <2>1. m \in 1..8
    BY <1>2
  <2>2. Cardinality(1..m) = IF 1 > m THEN 0 ELSE m - 1 + 1
    BY <2>1, FS_Interval
  <2>3. Cardinality(1..m) = m
    BY <2>1, <2>2
  <2> HIDE DEF J
  <2> QED BY <1>4, <2>3
<1>6. ASSUME m < 8 PROVE q[m + 1] = 0 /\ q[m] < 256
  <2>1. m + 1 \in 2..8 /\ m + 1 - 1 = m /\ m \in 1..8
    BY <1>2, <1>6
  <2>2. q[m + 1] = q[m] \div 256 /\ q[m + 1] \in Nat /\ q[m] \in Nat
    BY <2>1 DEF Chain
  <2>3. m + 1 \notin J
    BY <1>2, <2>1
  <2>4. q[m + 1] = 0
    BY <2>1, <2>2, <2>3
  <2> QED BY <2>2, <2>4
<1> QED BY <1>2, <1>5, <1>6

\* The bytes w of a number, with the one for the sign.
Signed(out, v, w) ==
  /\ out \in Bytes /\ Len(out) = w
  /\ \E q : /\ Chain(q, v, w) /\ q[w] < 128
            /\ \A i \in 1..w : out[i] = q[i] % 256

LEMMA ScriptNumberIs ==
  ASSUME NEW v \in Nat, v > 16, SignedEight(v)
  PROVE  \E w \in 1..8, out \in Bytes : PushMinimalInt(v) = <<w>> \o out /\ Signed(out, v, w)
<1> DEFINE q == CHOOSE q : Quotients(q, v, 8)
<1>1. Chain(q, v, 8)
  BY QuotientsExist, QuotientsChain
<1> DEFINE n == Cardinality({j \in 1..8 : q[j] > 0})
           digits == [i \in 1..n |-> q[i] % 256]
           out == ScriptNumber(digits)
<1>2. PushMinimalInt(v) = <<Len(out)>> \o out
  <2>1. PushMinimalInt(v) = IF v = 0 THEN <<0>> ELSE IF v \in 1..16 THEN <<80 + v>>
                            ELSE <<Len(out)>> \o out
    BY DEF PushMinimalInt, Quotients
  <2>2. v # 0 /\ v \notin 1..16
    OBVIOUS
  <2> HIDE DEF out
  <2> QED BY <2>1, <2>2
<1> HIDE DEF q
<1>3. n \in 1..8 /\ (n < 8 => q[n + 1] = 0 /\ q[n] < 256)
  BY <1>1, TopByte
<1>4. q[8] < 128
  <2>1. v \div 4294967296 < 256 * (256 * (256 * 128))
    BY DEF SignedEight
  <2> QED BY <1>1, <2>1, EighthByte
<1> HIDE DEF n
<1>5. \A i \in 1..8 : q[i] \in Nat
  BY <1>1 DEF Chain
<1>6. q[n] % 256 = q[n] /\ (q[n] >= 128 => n < 8)
  BY <1>3, <1>4, <1>5
<1>7. digits \in Bytes /\ Len(digits) = n /\ Last(digits) = q[n]
  <2>1. \A i \in 1..n : q[i] % 256 \in Nat
    BY <1>3, <1>5
  <2>2. digits \in Bytes /\ Len(digits) = n
    BY <1>3, <2>1 DEF Bytes
  <2>3. digits[n] = q[n]
    BY <1>3, <1>6
  <2> HIDE DEF digits
  <2> QED BY <2>2, <2>3 DEF Last
<1>8. ASSUME NEW w \in 1..8 PROVE Chain(q, v, w)
  BY <1>1 DEF Chain
<1>9. CASE q[n] >= 128
  <2>1. out = Append(digits, 0) /\ n + 1 \in 1..8 /\ q[n + 1] = 0
    BY <1>3, <1>6, <1>7, <1>9 DEF ScriptNumber
  <2>2. \A i \in 1..n : digits[i] = q[i] % 256
    OBVIOUS
  <2> HIDE DEF digits, out
  <2>3. /\ out \in Bytes /\ Len(out) = n + 1 /\ out[n + 1] = 0
        /\ \A i \in 1..n : out[i] = digits[i]
    BY <1>3, <1>7, <2>1 DEF Bytes
  <2>4. \A i \in 1..(n + 1) : out[i] = q[i] % 256
    <3> SUFFICES ASSUME NEW i \in 1..(n + 1) PROVE out[i] = q[i] % 256
      OBVIOUS
    <3>1. CASE i = n + 1
      BY <2>1, <2>3, <3>1
    <3>2. CASE i \in 1..n
      BY <2>2, <2>3, <3>2
    <3> QED BY <1>3, <3>1, <3>2
  <2>5. Signed(out, v, n + 1)
    BY <1>8, <2>1, <2>3, <2>4 DEF Signed
  <2> QED BY <1>2, <2>1, <2>3, <2>5
<1>10. CASE q[n] < 128
  <2>1. out = digits
    <3> HIDE DEF digits
    <3>1. q[n] \in Nat
      BY <1>3, <1>5
    <3>2. ~(Last(digits) >= 128)
      BY <1>7, <1>10, <3>1
    <3> QED BY <3>2 DEF ScriptNumber
  <2>2. \A i \in 1..n : digits[i] = q[i] % 256
    OBVIOUS
  <2> HIDE DEF digits, out
  <2>3. Signed(out, v, n)
    BY <1>3, <1>7, <1>8, <1>10, <2>1, <2>2 DEF Signed
  <2> QED BY <1>2, <1>3, <1>7, <2>1, <2>3
<1>11. q[n] >= 128 \/ q[n] < 128
  BY <1>3, <1>5
<1> QED BY <1>9, <1>10, <1>11

LEMMA HoldsItself ==
  ASSUME NEW s \in Bytes
  PROVE  Holds(s, 1, s)
<1>1. \A i \in 1..Len(s) : 1 - 1 + i = i
  OBVIOUS
<1> QED BY <1>1 DEF Holds

\* A script that begins with the push of a height is read as that height.
LEMMA HeightReads ==
  ASSUME NEW v \in Nat, SignedEight(v), NEW rest \in Bytes
  PROVE  /\ PushMinimalInt(v) \in Bytes /\ Len(PushMinimalInt(v)) \in 1..9
         /\ ReadHeight(PushMinimalInt(v) \o rest) = v
<1> DEFINE p == PushMinimalInt(v)
           s == p \o rest
<1>0. \A x \in Nat : <<x>> \in Bytes /\ Len(<<x>>) = 1 /\ <<x>>[1] = x
  BY DEF Bytes
<1>1. ASSUME NEW x \in Nat, p = <<x>>, v = IF x = 0 THEN 0 ELSE x - 80, x = 0 \/ x > 80
      PROVE  ReadHeight(s) = v
  <2>1. p \in Bytes /\ Len(p) = 1
    BY <1>0, <1>1
  <2>2. s \in Bytes /\ Holds(s, 1, p)
    <3>1. s \in Bytes
      BY <2>1, ConcatProperties DEF Bytes
    <3> QED BY <2>1, <3>1, HoldsBoth, HoldsItself
  <2> HIDE DEF s, p
  <2>3. s[1] = x
    BY <1>0, <1>1, <2>1, <2>2 DEF Holds
  <2> QED BY <1>1, <2>3 DEF ReadHeight
<1>2. CASE v = 0
  <2>1. p = <<0>>
    BY <1>2 DEF PushMinimalInt
  <2> QED BY <1>0, <1>1, <1>2, <2>1
<1>3. CASE v \in 1..16
  <2>0. ~(v = 0)
    BY <1>3
  <2> DEFINE x == 80 + v
  <2>1. p = <<x>>
    BY <1>3, <2>0 DEF PushMinimalInt
  <2>2. x \in Nat /\ ~(x = 0) /\ x > 80 /\ v = x - 80
    BY ONLY <1>3
  <2> HIDE DEF p, s, x
  <2>3. v = IF x = 0 THEN 0 ELSE x - 80
    BY ONLY <2>2
  <2>4. p \in Bytes /\ Len(p) \in 1..9
    BY <1>0, <2>1, <2>2
  <2>5. ReadHeight(s) = v
    BY <1>1, <2>1, <2>2, <2>3
  <2> QED BY <2>4, <2>5 DEF p, s
<1>4. CASE v > 16
  <2>1. PICK w \in 1..8, out \in Bytes : p = <<w>> \o out /\ Signed(out, v, w)
    BY <1>4, ScriptNumberIs
  <2>2. <<w>> \in Bytes /\ Len(<<w>>) = 1 /\ <<w>>[1] = w /\ out \in Bytes /\ Len(out) = w
    BY <1>0, <2>1 DEF Signed
  <2>3. p \in Bytes /\ Len(p) = 1 + w
    BY <2>1, <2>2, ConcatProperties DEF Bytes
  <2>4. s \in Bytes
    BY <2>3, ConcatProperties DEF Bytes
  <2> HIDE DEF p
  <2>5. Holds(s, 1, p)
    <3>1. Holds(s, 1, p \o rest)
      BY <2>4, HoldsItself
    <3> HIDE DEF s
    <3> QED BY <2>3, <3>1, HoldsBoth
  <2> HIDE DEF s
  <2>6. Holds(s, 1, <<w>>) /\ Holds(s, 1 + 1, out)
    BY <2>1, <2>2, <2>5, HoldsBoth
  <2>7. s[1] = w
    BY <2>2, <2>6 DEF Holds
  <2>8. ASSUME NEW i \in 1..w PROVE s[1 + i] = out[i]
    <3>1. 1 + 1 - 1 + i = 1 + i
      OBVIOUS
    <3> QED BY <2>2, <2>6, <3>1 DEF Holds
  <2>9. PICK q : Chain(q, v, w) /\ q[w] < 128 /\ \A i \in 1..w : out[i] = q[i] % 256
    BY <2>1 DEF Signed
  <2>10. s[w + 1] < 128
    <3>1. s[w + 1] = q[w] % 256
      <4>1. s[1 + w] = out[w] /\ 1 + w = w + 1
        BY <2>8
      <4> QED BY <2>9, <4>1
    <3>2. q[w] \in Nat
      BY <2>9 DEF Chain
    <3> QED BY <2>9, <3>1, <3>2
  <2>11. Little(s, 2, w) = v
    <3>1. \A i \in 0..(w - 1) : s[2 + i] = q[i + 1] % 256
      <4> SUFFICES ASSUME NEW i \in 0..(w - 1) PROVE s[2 + i] = q[i + 1] % 256
        OBVIOUS
      <4>1. i + 1 \in 1..w /\ 1 + (i + 1) = 2 + i
        OBVIOUS
      <4>2. s[1 + (i + 1)] = out[i + 1]
        BY <2>8, <4>1
      <4> QED BY <2>9, <4>1, <4>2
    <3>2. q[w] < 256
      <4>1. q[w] \in Nat
        BY <2>9 DEF Chain
      <4> QED BY <2>9, <4>1
    <3>3. Spells(s, 2, q, w)
      BY <3>1 DEF Spells
    <3> QED BY <2>9, <3>2, <3>3, LittleReads
  <2>12. ~(s[1] = 0 \/ s[1] > 80) /\ ~(s[w + 1] >= 128)
    <3>1. s[w + 1] \in Nat
      <4>1. s[1 + w] = out[w] /\ 1 + w = w + 1 /\ w \in 1..w
        BY <2>8
      <4>2. out[w] \in Nat
        BY <2>2, <4>1, ElementOfSeq DEF Bytes
      <4> QED BY <4>1, <4>2
    <3> QED BY <2>7, <2>10, <3>1
  <2>13. ReadHeight(s) = v
    BY <2>7, <2>11, <2>12 DEF ReadHeight
  <2>14. Len(p) \in 1..9
    BY <2>3
  <2> QED BY <2>3, <2>13, <2>14 DEF p, s
<1> QED BY <1>2, <1>3, <1>4

-----------------------------------------------------------------------------
(***************************************************************************)
(* The coinbase and the body.                                              *)
(***************************************************************************)
\* What the format has room for: the height below 2^63, the value and the lengths
\* below 2^64, and the pool's tag behind a length of one byte.
Encodable(t, script, tag) ==
  /\ t.height \in Nat /\ SignedEight(t.height)
  /\ t.value \in Nat /\ EightBytes(t.value)
  /\ script \in Bytes /\ EightBytes(Len(script))
  /\ tag \in Bytes /\ Len(tag) <= 255
  /\ t.commitment \in Bytes /\ EightBytes(Len(t.commitment))

\* The reads of a coinbase from at on, which ends before end.
CoinbaseReadsBack(b, at, t, script, end) ==
  LET inputs == ReadVarint(b, at + 6)
      spends == ReadCounted(b, inputs.next + 36)
      outs   == ReadVarint(b, spends.next + 4)
      pays   == ReadCounted(b, outs.next + 8)
      commit == ReadCounted(b, pays.next + 8)
      wits   == ReadVarint(b, commit.next)
      zeros  == ReadCounted(b, wits.next)
  IN  /\ inputs.value = 1 /\ outs.value = 2 /\ wits.value = 1
      /\ ReadHeight(spends.value) = t.height
      /\ Little(b, outs.next, 8) = t.value /\ pays.value = script
      /\ commit.value = t.commitment /\ zeros.value = Zeros(32)
      /\ zeros.next + 4 = end

LEMMA Constants ==
  /\ \A n \in Nat : Zeros(n) \in Bytes /\ Len(Zeros(n)) = n
  /\ \A n \in Nat : Ones(n) \in Bytes /\ Len(Ones(n)) = n
  /\ <<0, 1>> \in Bytes /\ Len(<<0, 1>>) = 2
<1>1. \A n \in Nat : Zeros(n) \in Bytes /\ Len(Zeros(n)) = n
  BY DEF Zeros, Bytes
<1>2. \A n \in Nat : Ones(n) \in Bytes /\ Len(Ones(n)) = n
  BY DEF Ones, Bytes
<1>3. <<0, 1>> \in Bytes /\ Len(<<0, 1>>) = 2
  BY DEF Bytes
<1> QED BY <1>1, <1>2, <1>3

LEMMA Joined ==
  ASSUME NEW s \in Bytes, NEW u \in Bytes
  PROVE  s \o u \in Bytes /\ Len(s \o u) = Len(s) + Len(u)
         /\ Len(s) \in Nat /\ Len(u) \in Nat
BY ConcatProperties, LenProperties DEF Bytes

LEMMA SmallNumber ==
  ASSUME NEW n \in 0..300
  PROVE  n \in Nat /\ EightBytes(n)
<1>1. n \div 4294967296 = 0
  OBVIOUS
<1> QED BY <1>1 DEF EightBytes

LEMMA CountedBytes ==
  ASSUME NEW s \in Bytes
  PROVE  Counted(s) \in Bytes
<1>1. Len(s) \in Nat
  BY LenProperties DEF Bytes
<1> QED BY <1>1, VarintBytes, Joined DEF Counted

\* The script of the coinbase fits behind its length, and begins with the height.
LEMMA ScriptReads ==
  ASSUME NEW v \in Nat, SignedEight(v), NEW tag \in Bytes, Len(tag) <= 255
  PROVE  /\ CoinbaseScript(v, tag) \in Bytes /\ EightBytes(Len(CoinbaseScript(v, tag)))
         /\ ReadHeight(CoinbaseScript(v, tag)) = v
<1> DEFINE p == PushMinimalInt(v)
           l == <<Len(tag)>>
           rest == l \o tag
<1>0. Len(tag) \in 0..255
  <2>1. Len(tag) \in Nat
    BY LenProperties DEF Bytes
  <2> DEFINE n == Len(tag)
  <2>2. n \in Nat /\ n <= 255
    BY <2>1
  <2> HIDE DEF n
  <2>3. n \in 0..255
    BY ONLY <2>2
  <2> QED BY <2>3 DEF n
<1>1. l \in Bytes /\ Len(l) = 1
  BY <1>0 DEF Bytes
<1> HIDE DEF l
<1>2. rest \in Bytes /\ Len(rest) = 1 + Len(tag)
  BY <1>1, Joined
<1>3. p \in Bytes /\ Len(p) \in 1..9 /\ ReadHeight(p \o rest) = v
  BY <1>2, HeightReads
<1> HIDE DEF p
<1>4. (p \o l) \o tag = p \o rest
  <2>1. p \in Seq(Nat) /\ l \in Seq(Nat) /\ tag \in Seq(Nat)
    BY <1>1, <1>3 DEF Bytes
  <2> QED BY ONLY <2>1, ConcatAssociative
<1>5. CoinbaseScript(v, tag) = p \o rest
  BY <1>4 DEF CoinbaseScript, l, p
<1> HIDE DEF rest
<1>6. p \o rest \in Bytes /\ Len(p \o rest) = Len(p) + Len(rest)
  BY <1>2, <1>3, Joined
<1>7. Len(p \o rest) \in 0..300
  <2> DEFINE n == Len(tag)
             m == Len(p)
             k == Len(rest)
             j == Len(p \o rest)
  <2>1. n \in 0..255 /\ m \in 1..9 /\ k = 1 + n /\ j = m + k
    BY <1>0, <1>2, <1>3, <1>6
  <2> HIDE DEF n, m, k, j
  <2>2. j \in 0..300
    BY ONLY <2>1
  <2> QED BY <2>2 DEF j
<1> QED BY <1>3, <1>5, <1>6, <1>7, SmallNumber

LEMMA CoinbaseBytes ==
  ASSUME NEW t, NEW script, NEW tag, Encodable(t, script, tag)
  PROVE  Coinbase(t, script, tag, TRUE) \in Bytes
<1> DEFINE cs == CoinbaseScript(t.height, tag)
           i == Zeros(32) \o Ones(4) \o Counted(cs) \o Ones(4)
           o == LittleEndian(t.value, 8) \o Counted(script) \o Zeros(8)
                  \o Counted(t.commitment)
           w == Varint(1) \o Counted(Zeros(32))
           c == LittleEndian(2, 4) \o <<0, 1>> \o Varint(1) \o i \o Varint(2) \o o \o w
                  \o Zeros(4)
<1>1. Coinbase(t, script, tag, TRUE) = c
  BY DEF Coinbase
<1>2. cs \in Bytes
  BY ScriptReads DEF Encodable
<1> HIDE DEF cs
<1>3. /\ Zeros(32) \in Bytes /\ Zeros(8) \in Bytes /\ Zeros(4) \in Bytes
      /\ Ones(4) \in Bytes /\ <<0, 1>> \in Bytes /\ Varint(1) \in Bytes
      /\ Varint(2) \in Bytes
  BY Constants, VarintBytes
<1>4. LittleEndian(2, 4) \in Bytes /\ LittleEndian(t.value, 8) \in Bytes
  BY LittleEndianIs DEF Encodable
<1>5. /\ Counted(cs) \in Bytes /\ Counted(script) \in Bytes
      /\ Counted(t.commitment) \in Bytes /\ Counted(Zeros(32)) \in Bytes
  BY <1>2, <1>3, CountedBytes DEF Encodable
<1>6. i \in Bytes
  BY <1>3, <1>5, Joined
<1>7. o \in Bytes
  BY <1>3, <1>4, <1>5, Joined
<1>8. w \in Bytes
  BY <1>3, <1>5, Joined
<1> HIDE DEF i, o, w
<1>9. c \in Bytes
  BY <1>3, <1>4, <1>6, <1>7, <1>8, Joined
<1> QED BY <1>1, <1>9

LEMMA CoinbaseReads ==
  ASSUME NEW t, NEW script, NEW tag, Encodable(t, script, tag), NEW b, NEW at \in Nat,
         Holds(b, at, Coinbase(t, script, tag, TRUE))
  PROVE  CoinbaseReadsBack(b, at, t, script, at + Len(Coinbase(t, script, tag, TRUE)))
<1> DEFINE cs == CoinbaseScript(t.height, tag)
           i1 == Zeros(32) \o Ones(4)
           i2 == i1 \o Counted(cs)
           i3 == i2 \o Ones(4)
           o1 == LittleEndian(t.value, 8)
           o2 == o1 \o Counted(script)
           o3 == o2 \o Zeros(8)
           o4 == o3 \o Counted(t.commitment)
           w  == Varint(1) \o Counted(Zeros(32))
           c1 == LittleEndian(2, 4) \o <<0, 1>>
           c2 == c1 \o Varint(1)
           c3 == c2 \o i3
           c4 == c3 \o Varint(2)
           c5 == c4 \o o4
           c6 == c5 \o w
           c7 == c6 \o Zeros(4)
<1>0. Coinbase(t, script, tag, TRUE) = c7
  BY DEF Coinbase
<1>e. /\ t.height \in Nat /\ SignedEight(t.height)
      /\ t.value \in Nat /\ EightBytes(t.value)
      /\ script \in Bytes /\ EightBytes(Len(script))
      /\ tag \in Bytes /\ Len(tag) <= 255
      /\ t.commitment \in Bytes /\ EightBytes(Len(t.commitment))
  BY DEF Encodable
<1>s. cs \in Bytes /\ EightBytes(Len(cs)) /\ ReadHeight(cs) = t.height
  BY <1>e, ScriptReads
<1> HIDE DEF cs
<1>z. /\ Zeros(32) \in Bytes /\ Len(Zeros(32)) = 32 /\ Zeros(8) \in Bytes /\ Len(Zeros(8)) = 8
      /\ Zeros(4) \in Bytes /\ Len(Zeros(4)) = 4 /\ Ones(4) \in Bytes /\ Len(Ones(4)) = 4
      /\ <<0, 1>> \in Bytes /\ Len(<<0, 1>>) = 2
  BY Constants
<1>v. Varint(1) \in Bytes /\ Varint(2) \in Bytes
  BY VarintBytes
<1>k. /\ Counted(cs) \in Bytes /\ Counted(script) \in Bytes /\ Counted(t.commitment) \in Bytes
      /\ Counted(Zeros(32)) \in Bytes
  BY <1>e, <1>s, <1>z, CountedBytes
<1>i1. i1 \in Bytes /\ Len(i1) = 36
  <2> DEFINE m == Len(Zeros(32))
             n == Len(Ones(4))
             j == Len(i1)
  <2>1. i1 \in Bytes /\ j = m + n /\ m = 32 /\ n = 4
    BY <1>z, Joined
  <2> HIDE DEF m, n, j
  <2>2. j = 36
    BY ONLY <2>1
  <2> QED BY <2>1, <2>2 DEF j
<1> HIDE DEF i1
<1>i2. i2 \in Bytes
  BY <1>i1, <1>k, Joined
<1> HIDE DEF i2
<1>i3. i3 \in Bytes
  BY <1>i2, <1>z, Joined
<1> HIDE DEF i3
<1>o1. o1 \in Bytes /\ Len(o1) = 8
  BY <1>e, LittleEndianIs
<1> HIDE DEF o1
<1>o2. o2 \in Bytes
  BY <1>o1, <1>k, Joined
<1> HIDE DEF o2
<1>o3. o3 \in Bytes
  BY <1>o2, <1>z, Joined
<1> HIDE DEF o3
<1>o4. o4 \in Bytes
  BY <1>o3, <1>k, Joined
<1> HIDE DEF o4
<1>w. w \in Bytes
  BY <1>v, <1>k, Joined
<1> HIDE DEF w
<1>c1. c1 \in Bytes /\ Len(c1) = 6
  <2>1. LittleEndian(2, 4) \in Bytes /\ Len(LittleEndian(2, 4)) = 4
    BY LittleEndianIs
  <2> DEFINE m == Len(LittleEndian(2, 4))
             n == Len(<<0, 1>>)
             j == Len(c1)
  <2>2. c1 \in Bytes /\ j = m + n /\ m = 4 /\ n = 2
    BY <1>z, <2>1, Joined
  <2> HIDE DEF m, n, j
  <2>3. j = 6
    BY ONLY <2>2
  <2> QED BY <2>2, <2>3 DEF j
<1> HIDE DEF c1
<1>c2. c2 \in Bytes
  BY <1>c1, <1>v, Joined
<1> HIDE DEF c2
<1>c3. c3 \in Bytes
  BY <1>c2, <1>i3, Joined
<1> HIDE DEF c3
<1>c4. c4 \in Bytes
  BY <1>c3, <1>v, Joined
<1> HIDE DEF c4
<1>c5. c5 \in Bytes
  BY <1>c4, <1>o4, Joined
<1> HIDE DEF c5
<1>c6. c6 \in Bytes
  BY <1>c5, <1>w, Joined
<1> HIDE DEF c6
<1>p7. Holds(b, at, c6) /\ Len(c7) = Len(c6) + 4
  <2>1. Holds(b, at, c6 \o Zeros(4))
    BY <1>0
  <2> QED BY <2>1, <1>c6, <1>z, HoldsBoth
<1> HIDE DEF c7
<1>p6. Holds(b, at, c5) /\ Holds(b, at + Len(c5), w) /\ Len(c6) = Len(c5) + Len(w)
       /\ at + Len(c5) \in Nat
  BY <1>p7, <1>c5, <1>w, HoldsBoth DEF c6
<1>p5. Holds(b, at, c4) /\ Holds(b, at + Len(c4), o4) /\ Len(c5) = Len(c4) + Len(o4)
       /\ at + Len(c4) \in Nat
  BY <1>p6, <1>c4, <1>o4, HoldsBoth DEF c5
<1>p4. Holds(b, at, c3) /\ Holds(b, at + Len(c3), Varint(2)) /\ at + Len(c3) \in Nat
       /\ Len(c4) = Len(c3) + Len(Varint(2))
  BY <1>p5, <1>c3, <1>v, HoldsBoth DEF c4
<1>p3. Holds(b, at, c2) /\ Holds(b, at + Len(c2), i3) /\ Len(c3) = Len(c2) + Len(i3)
       /\ at + Len(c2) \in Nat
  BY <1>p4, <1>c2, <1>i3, HoldsBoth DEF c3
<1>p2. Holds(b, at + 6, Varint(1)) /\ Len(c2) = 6 + Len(Varint(1)) /\ at + 6 \in Nat
  BY <1>p3, <1>c1, <1>v, HoldsBoth DEF c2
<1>n. /\ Len(c2) \in Nat /\ Len(c3) \in Nat /\ Len(c4) \in Nat /\ Len(c5) \in Nat
      /\ Len(i3) \in Nat /\ Len(o4) \in Nat /\ Len(w) \in Nat /\ Len(c6) \in Nat
      /\ Len(Varint(1)) \in Nat /\ Len(Varint(2)) \in Nat /\ Len(i2) \in Nat
      /\ Len(o2) \in Nat /\ Len(o3) \in Nat /\ Len(Counted(cs)) \in Nat
      /\ Len(Counted(script)) \in Nat /\ Len(Counted(t.commitment)) \in Nat
      /\ Len(Counted(Zeros(32))) \in Nat
  BY <1>c2, <1>c3, <1>c4, <1>c5, <1>c6, <1>i2, <1>i3, <1>o2, <1>o3, <1>o4, <1>w, <1>v, <1>k,
     LenProperties DEF Bytes
<1> DEFINE inputs == ReadVarint(b, at + 6)
           spends == ReadCounted(b, inputs.next + 36)
           outs   == ReadVarint(b, spends.next + 4)
           pays   == ReadCounted(b, outs.next + 8)
           commit == ReadCounted(b, pays.next + 8)
           wits   == ReadVarint(b, commit.next)
           zeros  == ReadCounted(b, wits.next)
<1>r1. inputs.value = 1 /\ inputs.next = at + Len(c2)
  <2>1. EightBytes(1)
    BY SmallNumber
  <2>2. ReadVarint(b, at + 6) = [value |-> 1, next |-> at + 6 + Len(Varint(1))]
    BY <1>p2, <2>1, VarintReads
  <2>3. at + 6 + Len(Varint(1)) = at + Len(c2)
    BY <1>p2, <1>n
  <2> QED BY <2>2, <2>3
<1> HIDE DEF inputs
<1>r2. spends.value = cs /\ spends.next + 4 = at + Len(c3)
  <2>1. Holds(b, at + Len(c2), i2) /\ Len(i3) = Len(i2) + 4
    BY <1>p3, <1>i2, <1>z, HoldsBoth DEF i3
  <2>2. Holds(b, at + Len(c2) + 36, Counted(cs)) /\ Len(i2) = 36 + Len(Counted(cs))
        /\ at + Len(c2) + 36 \in Nat
    BY <1>p3, <1>i1, <1>k, <2>1, HoldsBoth DEF i2
  <2>3. ReadCounted(b, at + Len(c2) + 36) =
          [value |-> cs, next |-> at + Len(c2) + 36 + Len(Counted(cs))]
    BY <1>s, <2>2, CountedReads
  <2>4. at + Len(c2) + 36 + Len(Counted(cs)) + 4 = at + Len(c3)
    BY <1>p3, <1>n, <2>1, <2>2
  <2> QED BY <1>r1, <2>3, <2>4
<1> HIDE DEF spends
<1>r3. outs.value = 2 /\ outs.next = at + Len(c4)
  <2>1. EightBytes(2)
    BY SmallNumber
  <2>2. ReadVarint(b, at + Len(c3)) = [value |-> 2, next |-> at + Len(c3) + Len(Varint(2))]
    BY <1>p4, <2>1, VarintReads
  <2>3. at + Len(c3) + Len(Varint(2)) = at + Len(c4)
    BY <1>p4, <1>n
  <2> QED BY <1>r2, <2>2, <2>3
<1> HIDE DEF outs
<1>q. /\ Holds(b, at + Len(c4), o1)
      /\ Holds(b, at + Len(c4) + 8, Counted(script)) /\ at + Len(c4) + 8 \in Nat
      /\ Holds(b, at + Len(c4) + Len(o3), Counted(t.commitment))
      /\ at + Len(c4) + Len(o3) \in Nat
      /\ Len(o4) = Len(o3) + Len(Counted(t.commitment))
      /\ Len(o3) = Len(o2) + 8 /\ Len(o2) = 8 + Len(Counted(script))
  <2>1. Holds(b, at + Len(c4), o3)
        /\ Holds(b, at + Len(c4) + Len(o3), Counted(t.commitment))
        /\ at + Len(c4) + Len(o3) \in Nat
        /\ Len(o4) = Len(o3) + Len(Counted(t.commitment))
    BY <1>p5, <1>o3, <1>k, HoldsBoth DEF o4
  <2>2. Holds(b, at + Len(c4), o2) /\ Len(o3) = Len(o2) + 8
    BY <1>p5, <1>o2, <1>z, <2>1, HoldsBoth DEF o3
  <2>3. Holds(b, at + Len(c4), o1) /\ Holds(b, at + Len(c4) + 8, Counted(script))
        /\ at + Len(c4) + 8 \in Nat /\ Len(o2) = 8 + Len(Counted(script))
    BY <1>p5, <1>o1, <1>k, <2>2, HoldsBoth DEF o2
  <2> QED BY <2>1, <2>2, <2>3
<1>r4. Little(b, outs.next, 8) = t.value
  <2>1. Fits(t.value, 8)
    BY <1>e, FitsEight
  <2>2. Holds(b, at + Len(c4), LittleEndian(t.value, 8))
    BY <1>q DEF o1
  <2> QED BY <1>e, <1>p5, <1>r3, <2>1, <2>2, NumberReads
<1>r5. pays.value = script /\ pays.next + 8 = at + Len(c4) + Len(o3)
  <2>1. ReadCounted(b, at + Len(c4) + 8) =
          [value |-> script, next |-> at + Len(c4) + 8 + Len(Counted(script))]
    BY <1>e, <1>q, CountedReads
  <2>2. at + Len(c4) + 8 + Len(Counted(script)) + 8 = at + Len(c4) + Len(o3)
    BY <1>q, <1>n
  <2> QED BY <1>r3, <2>1, <2>2
<1> HIDE DEF pays
<1>r6. commit.value = t.commitment /\ commit.next = at + Len(c5)
  <2>1. ReadCounted(b, at + Len(c4) + Len(o3)) =
          [value |-> t.commitment,
           next |-> at + Len(c4) + Len(o3) + Len(Counted(t.commitment))]
    BY <1>e, <1>q, CountedReads
  <2>2. at + Len(c4) + Len(o3) + Len(Counted(t.commitment)) = at + Len(c5)
    <3>1. /\ Len(o4) = Len(o3) + Len(Counted(t.commitment)) /\ Len(c5) = Len(c4) + Len(o4)
          /\ Len(o3) \in Nat /\ Len(c4) \in Nat /\ Len(Counted(t.commitment)) \in Nat
      BY <1>q, <1>n, <1>p5
    <3> QED BY ONLY <3>1, at \in Nat
  <2> QED BY <1>r5, <2>1, <2>2
<1> HIDE DEF commit
<1>u. /\ Holds(b, at + Len(c5), Varint(1))
      /\ Holds(b, at + Len(c5) + Len(Varint(1)), Counted(Zeros(32)))
      /\ at + Len(c5) + Len(Varint(1)) \in Nat
      /\ Len(w) = Len(Varint(1)) + Len(Counted(Zeros(32)))
  BY <1>p6, <1>v, <1>k, HoldsBoth DEF w
<1>r7. wits.value = 1 /\ wits.next = at + Len(c5) + Len(Varint(1))
  <2>1. EightBytes(1)
    BY SmallNumber
  <2>2. ReadVarint(b, at + Len(c5)) = [value |-> 1, next |-> at + Len(c5) + Len(Varint(1))]
    BY <1>p6, <1>u, <2>1, VarintReads
  <2> QED BY <1>r6, <2>2
<1> HIDE DEF wits
<1>r8. zeros.value = Zeros(32) /\ zeros.next + 4 = at + Len(c7)
  <2>1. EightBytes(Len(Zeros(32)))
    <3>1. EightBytes(32)
      BY SmallNumber
    <3> QED BY <1>z, <3>1
  <2>2. ReadCounted(b, at + Len(c5) + Len(Varint(1))) =
          [value |-> Zeros(32),
           next |-> at + Len(c5) + Len(Varint(1)) + Len(Counted(Zeros(32)))]
    BY <1>u, <1>z, <2>1, CountedReads
  <2>3. at + Len(c5) + Len(Varint(1)) + Len(Counted(Zeros(32))) + 4 = at + Len(c7)
    BY <1>u, <1>n, <1>p6, <1>p7
  <2> QED BY <1>r7, <2>2, <2>3
<1> HIDE DEF zeros
<1>h. ReadHeight(spends.value) = t.height
  BY <1>r2, <1>s
<1>9. CoinbaseReadsBack(b, at, t, script, at + Len(c7))
  BY <1>r1, <1>r3, <1>r4, <1>r5, <1>r6, <1>r7, <1>r8, <1>h
     DEF CoinbaseReadsBack, inputs, spends, outs, pays, commit, wits, zeros
<1> QED BY <1>0, <1>9

\* Transactions the node has serialised, and a matrix made of words.
Carries(t, matrix) ==
  /\ \E S : t.txs \in Seq(S)
  /\ EightBytes(1 + Len(t.txs))
  /\ \A i \in DOMAIN t.txs : t.txs[i].data \in Bytes
  /\ matrix \in Bytes /\ Len(matrix) % 4 = 0 /\ EightBytes(Len(matrix) \div 4)

Datas(t) == [i \in DOMAIN t.txs |-> t.txs[i].data]

LEMMA FlattenBytes ==
  ASSUME NEW n \in Nat, NEW f, DOMAIN f = 1..n, \A i \in 1..n : f[i] \in Bytes
  PROVE  Flatten(f) \in Bytes
<1>1. PICK F : Rounds(F, "join", <<>>, f, n) /\ Flatten(f) = F[n]
  BY FlattenRounds
<1> DEFINE P == {k \in 0..n : F[k] \in Bytes}
<1>2. 0 \in P
  <2>1. <<>> \in Bytes
    BY DEF Bytes
  <2>2. F[0] = <<>> /\ 0 \in 0..n
    BY <1>1 DEF Rounds
  <2> QED BY <2>1, <2>2
<1>3. ASSUME NEW k \in 0..n, k # n, k \in P PROVE k + 1 \in P
  <2>1. k \in 0..(n - 1) /\ k + 1 \in 1..n /\ k + 1 \in 0..n
    BY <1>3
  <2>2. F[k + 1] = F[k] \o f[k + 1]
    BY <1>1, <2>1 DEF Rounds, FoldOp
  <2>3. F[k] \in Bytes /\ f[k + 1] \in Bytes
    BY <1>3, <2>1
  <2> QED BY <2>1, <2>2, <2>3, Joined
<1>4. \A k \in 0..n : k \in P
  <2> HIDE DEF P
  <2> QED BY <1>2, <1>3, UpTo
<1>5. n \in 0..n
  OBVIOUS
<1> QED BY <1>1, <1>4, <1>5

\* The body of every block reads back as what went into it.
THEOREM BodyReadsBack ==
  ASSUME NEW t, NEW script, NEW tag, NEW matrix,
         Encodable(t, script, tag), Carries(t, matrix)
  PROVE  ReadsBack(Body(t, script, tag, matrix), t, script, Flatten(Datas(t)), matrix)
<1> DEFINE count == 1 + Len(t.txs)
           words == Len(matrix) \div 4
           cb == Coinbase(t, script, tag, TRUE)
           data == Flatten(Datas(t))
           b1 == Varint(count)
           b2 == b1 \o cb
           b3 == b2 \o data
           b4 == b3 \o Varint(0)
           b5 == b4 \o Varint(0)
           b6 == b5 \o Varint(words)
           b  == b6 \o matrix
<1>0. Body(t, script, tag, matrix) = b
  BY DEF Body, Datas
<1>c. /\ Len(t.txs) \in Nat /\ DOMAIN t.txs = 1..Len(t.txs) /\ count \in Nat
      /\ EightBytes(count)
  <2>1. PICK S : t.txs \in Seq(S)
    BY DEF Carries
  <2>2. Len(t.txs) \in Nat /\ DOMAIN t.txs = 1..Len(t.txs)
    BY <2>1, LenProperties
  <2> QED BY <2>2 DEF Carries
<1>m. /\ matrix \in Bytes /\ Len(matrix) \in Nat /\ words \in Nat /\ EightBytes(words)
      /\ 4 * words = Len(matrix)
  <2>1. Len(matrix) \in Nat
    BY LenProperties DEF Carries, Bytes
  <2>2. \A n \in Nat : n % 4 = 0 => n \div 4 \in Nat /\ 4 * (n \div 4) = n
    OBVIOUS
  <2> QED BY <2>1, <2>2 DEF Carries
<1>d. data \in Bytes
  <2>1. DOMAIN Datas(t) = 1..Len(t.txs)
    BY <1>c DEF Datas
  <2>2. \A i \in 1..Len(t.txs) : Datas(t)[i] \in Bytes
    BY <1>c DEF Datas, Carries
  <2> QED BY <1>c, <2>1, <2>2, FlattenBytes
<1> HIDE DEF data
<1>v. /\ b1 \in Bytes /\ Varint(0) \in Bytes /\ Varint(words) \in Bytes
      /\ Varint(0) = <<0>> /\ Len(Varint(0)) = 1
  <2>1. Varint(0) = <<0>> /\ Len(<<0>>) = 1
    BY DEF Varint
  <2> QED BY <1>c, <1>m, <2>1, VarintBytes
<1> HIDE DEF count, words
<1>b. cb \in Bytes
  BY CoinbaseBytes
<1> HIDE DEF cb
<1>b2. b2 \in Bytes
  BY <1>v, <1>b, Joined
<1> HIDE DEF b1, b2
<1>b3. b3 \in Bytes
  BY <1>b2, <1>d, Joined
<1> HIDE DEF b3
<1>b4. b4 \in Bytes
  BY <1>b3, <1>v, Joined
<1> HIDE DEF b4
<1>b5. b5 \in Bytes
  BY <1>b4, <1>v, Joined
<1> HIDE DEF b5
<1>b6. b6 \in Bytes
  BY <1>b5, <1>v, Joined
<1> HIDE DEF b6
<1>b7. b \in Bytes /\ Len(b) = Len(b6) + Len(matrix)
  BY <1>b6, <1>m, Joined
<1> HIDE DEF b
<1>h6. Holds(b, 1, b6) /\ Holds(b, 1 + Len(b6), matrix) /\ 1 + Len(b6) \in Nat
  <2>1. Holds(b, 1, b6 \o matrix)
    BY <1>b7, HoldsItself DEF b
  <2> QED BY <2>1, <1>b6, <1>m, HoldsBoth
<1>h5. Holds(b, 1, b5) /\ Holds(b, 1 + Len(b5), Varint(words)) /\ 1 + Len(b5) \in Nat
       /\ Len(b6) = Len(b5) + Len(Varint(words))
  BY <1>h6, <1>b5, <1>v, HoldsBoth DEF b6
<1>h4. Holds(b, 1, b4) /\ Len(b5) = Len(b4) + Len(Varint(0))
  BY <1>h5, <1>b4, <1>v, HoldsBoth DEF b5
<1>h3. Holds(b, 1, b3) /\ Len(b4) = Len(b3) + Len(Varint(0))
  BY <1>h4, <1>b3, <1>v, HoldsBoth DEF b4
<1>h2. Holds(b, 1, b2) /\ Holds(b, 1 + Len(b2), data) /\ 1 + Len(b2) \in Nat
       /\ Len(b3) = Len(b2) + Len(data)
  BY <1>h3, <1>b2, <1>d, HoldsBoth DEF b3
<1>h1. Holds(b, 1, b1) /\ Holds(b, 1 + Len(b1), cb) /\ 1 + Len(b1) \in Nat
       /\ Len(b2) = Len(b1) + Len(cb)
  BY <1>h2, <1>v, <1>b, HoldsBoth DEF b2
<1>n. /\ Len(b1) \in Nat /\ Len(b2) \in Nat /\ Len(b3) \in Nat /\ Len(b4) \in Nat
      /\ Len(b5) \in Nat /\ Len(b6) \in Nat /\ Len(cb) \in Nat /\ Len(data) \in Nat
      /\ Len(Varint(words)) \in Nat
  BY <1>v, <1>b, <1>b2, <1>b3, <1>b4, <1>b5, <1>b6, <1>d, LenProperties DEF Bytes
<1>r1. ReadVarint(b, 1) = [value |-> count, next |-> 1 + Len(b1)]
  <2>1. Holds(b, 1, Varint(count)) /\ 1 \in Nat
    BY <1>h1 DEF b1
  <2> QED BY <1>c, <2>1, VarintReads DEF b1
<1>r2. CoinbaseReadsBack(b, 1 + Len(b1), t, script, 1 + Len(b2))
  <2>1. CoinbaseReadsBack(b, 1 + Len(b1), t, script, 1 + Len(b1) + Len(cb))
    BY <1>h1, CoinbaseReads DEF cb
  <2>2. 1 + Len(b1) + Len(cb) = 1 + Len(b2)
    BY <1>h1, <1>n
  <2> QED BY <2>1, <2>2
<1>r3. SubSeq(b, 1 + Len(b2), 1 + Len(b2) + Len(data) - 1) = data
  BY <1>h2, <1>d, HoldsSubSeq
<1>r4. ReadVarint(b, 1 + Len(b5)) = [value |-> words, next |-> 1 + Len(b6)]
  <2>1. ReadVarint(b, 1 + Len(b5)) = [value |-> words, next |-> 1 + Len(b5) + Len(Varint(words))]
    BY <1>m, <1>h5, VarintReads
  <2>2. 1 + Len(b5) + Len(Varint(words)) = 1 + Len(b6)
    BY <1>h5, <1>n
  <2> QED BY <2>1, <2>2
<1>r5. 1 + Len(b5) = 1 + Len(b2) + Len(data) + 2
  <2> DEFINE z == Len(Varint(0))
             l2 == Len(b2)
             l3 == Len(b3)
             l4 == Len(b4)
             l5 == Len(b5)
             l == Len(data)
  <2>1. z = 1 /\ l5 = l4 + z /\ l4 = l3 + z /\ l3 = l2 + l /\ l2 \in Nat /\ l \in Nat
    BY <1>v, <1>h2, <1>h3, <1>h4, <1>n
  <2> HIDE DEF z, l2, l3, l4, l5, l
  <2>2. 1 + l5 = 1 + l2 + l + 2
    BY ONLY <2>1
  <2> QED BY <2>2 DEF l5, l2, l
<1>r6. SubSeq(b, 1 + Len(b6), Len(b)) = matrix
  <2>1. SubSeq(b, 1 + Len(b6), 1 + Len(b6) + Len(matrix) - 1) = matrix
    BY <1>m, <1>h6, HoldsSubSeq
  <2>2. 1 + Len(b6) + Len(matrix) - 1 = Len(b)
    BY <1>b7, <1>n, <1>m
  <2> QED BY <2>1, <2>2
<1>9. ReadsBack(b, t, script, data, matrix)
  <2> DEFINE inputs == ReadVarint(b, ReadVarint(b, 1).next + 6)
             spends == ReadCounted(b, inputs.next + 36)
             outs   == ReadVarint(b, spends.next + 4)
             pays   == ReadCounted(b, outs.next + 8)
             commit == ReadCounted(b, pays.next + 8)
             wits   == ReadVarint(b, commit.next)
             zeros  == ReadCounted(b, wits.next)
             txs    == zeros.next + 4
             last   == ReadVarint(b, txs + Len(data) + 2)
  <2>1. ReadVarint(b, 1).value = 1 + Len(t.txs) /\ ReadVarint(b, 1).next = 1 + Len(b1)
    BY <1>r1 DEF count
  <2>2. /\ inputs.value = 1 /\ outs.value = 2 /\ wits.value = 1
        /\ ReadHeight(spends.value) = t.height
        /\ Little(b, outs.next, 8) = t.value /\ pays.value = script
        /\ commit.value = t.commitment /\ zeros.value = Zeros(32)
        /\ txs = 1 + Len(b2)
    BY <1>r2, <2>1 DEF CoinbaseReadsBack
  <2> HIDE DEF txs
  <2>3. SubSeq(b, txs, txs + Len(data) - 1) = data
    BY <1>r3, <2>2
  <2>4. last = [value |-> words, next |-> 1 + Len(b6)]
    BY <1>r4, <1>r5, <2>2
  <2> HIDE DEF last
  <2>a. last.value = words /\ last.next = 1 + Len(b6)
    BY <2>4
  <2>5. 4 * last.value = Len(matrix)
    BY <2>a, <1>m
  <2>7. SubSeq(b, last.next, Len(b)) = matrix
    BY <2>a, <1>r6
  <2>6. <<inputs.value, outs.value, wits.value>> = <<1, 2, 1>>
    BY <2>2
  <2> QED BY <2>1, <2>2, <2>3, <2>5, <2>6, <2>7
      DEF ReadsBack, inputs, spends, outs, pays, commit, wits, zeros, txs, last
<1> QED BY <1>0, <1>9 DEF data

LEMMA OneMore ==
  ASSUME NEW s \in Bytes, NEW k \in Nat, Len(s) = k, NEW x \in Nat
  PROVE  /\ s \o <<x>> \in Bytes /\ Len(s \o <<x>>) = k + 1
         /\ \A i \in 1..k : (s \o <<x>>)[i] = s[i]
         /\ (s \o <<x>>)[k + 1] = x
<1> SUFFICES ASSUME NEW u, u = <<x>>
             PROVE  /\ s \o u \in Bytes /\ Len(s \o u) = k + 1
                    /\ \A i \in 1..k : (s \o u)[i] = s[i]
                    /\ (s \o u)[k + 1] = x
  OBVIOUS
<1>1. u \in Bytes /\ Len(u) = 1 /\ u[1] = x
  BY DEF Bytes
<1>2. /\ s \o u \in Bytes /\ Len(s \o u) = Len(s) + Len(u)
      /\ \A i \in 1..(Len(s) + Len(u)) :
           (s \o u)[i] = IF i <= Len(s) THEN s[i] ELSE u[i - Len(s)]
  BY <1>1, ConcatProperties DEF Bytes
<1>3. \A i \in 1..k : i \in 1..(k + 1) /\ i <= k
  OBVIOUS
<1>4. k + 1 \in 1..(k + 1) /\ ~(k + 1 <= k) /\ k + 1 - k = 1
  OBVIOUS
<1> QED BY <1>1, <1>2, <1>3, <1>4

\* The transactions of the calls, one after the other.
LEMMA FlattenSingles ==
  ASSUME NEW n \in Nat
  PROVE  Flatten([i \in 1..n |-> <<i % 256>>]) = [i \in 1..n |-> i % 256]
<1> SUFFICES ASSUME NEW f, f = [i \in 1..n |-> <<i % 256>>]
             PROVE  Flatten(f) = [i \in 1..n |-> i % 256]
  OBVIOUS
<1>0. DOMAIN f = 1..n
  OBVIOUS
<1>1. PICK F : Rounds(F, "join", <<>>, f, n) /\ Flatten(f) = F[n]
  BY <1>0, FlattenRounds
<1> DEFINE first(k) == [i \in 1..k |-> i % 256]
           P == {k \in 0..n : F[k] = first(k)}
<1>f. ASSUME NEW k \in Nat
      PROVE  first(k) \in Bytes /\ Len(first(k)) = k /\ \A i \in 1..k : first(k)[i] = i % 256
  <2>1. \A i \in 1..k : i % 256 \in Nat
    OBVIOUS
  <2> QED BY <2>1 DEF Bytes
<1>2. 0 \in P
  <2>1. F[0] = <<>> /\ 0 \in 0..n
    BY <1>1 DEF Rounds
  <2>2. first(0) = <<>>
    BY <1>f DEF Bytes
  <2> QED BY <2>1, <2>2
<1>3. ASSUME NEW k \in 0..n, k # n, k \in P PROVE k + 1 \in P
  <2>1. k \in 0..(n - 1) /\ k + 1 \in 1..n /\ k + 1 \in 0..n
    BY <1>3
  <2>2. F[k + 1] = F[k] \o f[k + 1]
    BY <1>1, <2>1 DEF Rounds, FoldOp
  <2> DEFINE last == <<(k + 1) % 256>>
  <2>3. F[k] = first(k) /\ f[k + 1] = last
    BY <1>3, <2>1
  <2>5. first(k) \in Bytes /\ Len(first(k)) = k /\ \A i \in 1..k : first(k)[i] = i % 256
    BY <1>f
  <2>6. /\ first(k + 1) \in Bytes /\ Len(first(k + 1)) = k + 1
        /\ \A i \in 1..(k + 1) : first(k + 1)[i] = i % 256
    BY <1>f
  <2> HIDE DEF first, last
  <2>7. /\ first(k) \o last \in Bytes /\ Len(first(k) \o last) = k + 1
        /\ \A i \in 1..k : (first(k) \o last)[i] = first(k)[i]
        /\ (first(k) \o last)[k + 1] = (k + 1) % 256
    <3>1. (k + 1) % 256 \in Nat
      OBVIOUS
    <3> QED BY <2>5, <3>1, OneMore DEF last
  <2>8. ASSUME NEW i \in 1..(k + 1) PROVE (first(k) \o last)[i] = first(k + 1)[i]
    <3>1. CASE i \in 1..k
      BY <2>5, <2>6, <2>7, <3>1
    <3>2. CASE i = k + 1
      BY <2>6, <2>7, <3>2
    <3>3. i \in 1..k \/ i = k + 1
      OBVIOUS
    <3> QED BY <3>1, <3>2, <3>3
  <2>9. first(k) \o last = first(k + 1)
    BY <2>6, <2>7, <2>8, SeqEqual DEF Bytes
  <2> QED BY <2>1, <2>2, <2>3, <2>9
<1>4. \A k \in 0..n : k \in P
  <2> HIDE DEF P
  <2> QED BY <1>2, <1>3, UpTo
<1>5. n \in 0..n
  OBVIOUS
<1> QED BY <1>1, <1>4, <1>5

\* A call for a block has its arguments, and what it has returned is the body.
BuildInv ==
  /\ call.op = "build" => call \in BuildCalls
  /\ Returned("build") =>
       result.of = Body(Template(call.height, Transactions(call.txs)), Zeros(call.script),
                        Tag, Zeros(4 * call.words))

LEMMA BuildHolds == Spec => []BuildInv
<1>1. Init => BuildInv
  <2>1. call \in WorkCalls => call.op = "work"
    BY DEF WorkCalls, AnyWork
  <2> QED BY <2>1 DEF Init, BuildInv, Returned, AllocateCalls, MerkleCalls
<1>2. BuildInv /\ [Return]_vars => BuildInv'
  <2> SUFFICES ASSUME BuildInv, [Return]_vars PROVE BuildInv'
    OBVIOUS
  <2>1. CASE Build /\ UNCHANGED call
    BY <2>1 DEF Build, BuildInv, Returned
  <2>2. CASE (MineAndValidate \/ Merkle \/ Allocate) /\ UNCHANGED call
    <3>1. call.op # "build"
      BY <2>2 DEF MineAndValidate, Merkle, Allocate
    <3> QED BY <2>2, <3>1 DEF BuildInv, Returned
  <2>3. CASE UNCHANGED vars
    <3>1. UNCHANGED <<call, result>>
      BY <2>3 DEF vars
    <3> QED BY <3>1 DEF BuildInv, Returned
  <2> QED BY <2>1, <2>2, <2>3 DEF Return
<1> QED BY <1>1, <1>2, PTL DEF Spec

\* The bodies of the calls read back, through every change of format.
THEOREM BuiltBlockReadsBack == Spec => []BlockReadsBack
<1>1. BuildInv => BlockReadsBack
  <2> SUFFICES ASSUME BuildInv, Returned("build") PROVE BlockReadsBack
    BY DEF BlockReadsBack
  <2> SUFFICES ASSUME NEW n, n = call.txs, NEW h, h = call.height,
                      NEW t, t = Template(h, Transactions(n)),
                      NEW script, script = Zeros(call.script),
                      NEW matrix, matrix = Zeros(4 * call.words)
               PROVE  BlockReadsBack
    OBVIOUS
  <2>1. /\ call \in BuildCalls /\ result.of = Body(t, script, Tag, matrix)
    BY DEF BuildInv, Returned
  <2>2. /\ n \in Nat /\ n <= 3 /\ h \in Nat /\ h <= 8388608
        /\ call.script \in 0..300 /\ call.words \in 0..300
    BY <2>1 DEF BuildCalls
  <2>3. /\ t.height = h /\ t.value = 50 /\ t.commitment = Zeros(38) /\ t.txs = Transactions(n)
    BY DEF Template
  <2>4. Encodable(t, script, Tag)
    <3>1. h \in Nat /\ SignedEight(h)
      <4>1. h \div 4294967296 = 0
        BY <2>2
      <4> QED BY <2>2, <4>1 DEF SignedEight
    <3>2. EightBytes(50) /\ EightBytes(38) /\ EightBytes(call.script)
      BY <2>2, SmallNumber
    <3>3. script \in Bytes /\ EightBytes(Len(script))
      <4>1. call.script \in Nat
        BY <2>2
      <4>2. Zeros(call.script) \in Bytes /\ Len(Zeros(call.script)) = call.script
        BY <4>1, Constants
      <4> QED BY <3>2, <4>2
    <3>4. t.commitment \in Bytes /\ EightBytes(Len(t.commitment))
      <4>1. Zeros(38) \in Bytes /\ Len(Zeros(38)) = 38
        BY Constants
      <4> QED BY <2>3, <3>2, <4>1
    <3>5. Tag \in Bytes /\ Len(Tag) <= 255
      BY DEF Tag, Bytes
    <3>6. t.value \in Nat /\ EightBytes(t.value)
      BY <2>3, <3>2
    <3>7. t.height \in Nat /\ SignedEight(t.height)
      BY <2>3, <3>1
    <3> QED BY <3>3, <3>4, <3>5, <3>6, <3>7 DEF Encodable
  <2>5. /\ \E S : t.txs \in Seq(S)
        /\ Len(t.txs) = n
        /\ DOMAIN t.txs = 1..n /\ \A i \in 1..n : t.txs[i].data = <<i % 256>>
    <3> DEFINE e(i) == [txid |-> TxId(i), data |-> <<i % 256>>]
    <3>1. t.txs = [i \in 1..n |-> e(i)]
      BY <2>3 DEF Transactions
    <3>2. \A i \in 1..n : e(i).data = <<i % 256>>
      OBVIOUS
    <3> HIDE DEF e
    <3>3. t.txs \in Seq({e(i) : i \in 1..n}) /\ Len(t.txs) = n /\ DOMAIN t.txs = 1..n
      BY <2>2, <3>1
    <3>4. \A i \in 1..n : t.txs[i].data = <<i % 256>>
      BY <3>1, <3>2
    <3>5. \E S : t.txs \in Seq(S)
      BY <3>3
    <3> QED BY <3>3, <3>4, <3>5
  <2>6. matrix \in Bytes /\ Len(matrix) = 4 * call.words
    <3>1. 4 * call.words \in Nat
      BY <2>2
    <3> QED BY <3>1, Constants
  <2>7. Carries(t, matrix)
    <3>1. EightBytes(1 + n)
      <4>1. 1 + n \in 0..300
        BY <2>2
      <4> QED BY <4>1, SmallNumber
    <3>2. \A i \in 1..n : <<i % 256>> \in Bytes
      <4>1. \A i \in 1..n : i % 256 \in Nat
        OBVIOUS
      <4> QED BY <4>1 DEF Bytes
    <3>3. (4 * call.words) % 4 = 0 /\ (4 * call.words) \div 4 = call.words
      BY <2>2
    <3>4. EightBytes(call.words)
      BY <2>2, SmallNumber
    <3>5. EightBytes(1 + Len(t.txs)) /\ \A i \in DOMAIN t.txs : t.txs[i].data \in Bytes
      <4>1. EightBytes(1 + Len(t.txs))
        BY <2>5, <3>1
      <4>2. \A i \in DOMAIN t.txs : t.txs[i].data \in Bytes
        <5> SUFFICES ASSUME NEW i \in 1..n PROVE t.txs[i].data \in Bytes
          BY <2>5
        <5>1. t.txs[i].data = <<i % 256>>
          BY <2>5
        <5>2. <<i % 256>> \in Bytes
          BY <3>2
        <5> QED BY ONLY <5>1, <5>2
      <4> QED BY <4>1, <4>2
    <3>6. Len(matrix) % 4 = 0 /\ EightBytes(Len(matrix) \div 4)
      BY <2>6, <3>3, <3>4
    <3> QED BY <2>5, <2>6, <3>5, <3>6 DEF Carries
  <2>8. Flatten(Datas(t)) = [i \in 1..n |-> i % 256]
    <3>1. Datas(t) = [i \in 1..n |-> <<i % 256>>]
      BY <2>5 DEF Datas
    <3> QED BY <2>2, <3>1, FlattenSingles
  <2>9. ReadsBack(Body(t, script, Tag, matrix), t, script, Flatten(Datas(t)), matrix)
    BY <2>4, <2>7, BodyReadsBack
  <2>10. ReadsBack(result.of, t, script, [i \in 1..n |-> i % 256], matrix)
    BY <2>1, <2>8, <2>9
  <2> QED BY <2>10, SMT DEF BlockReadsBack
<1> QED BY <1>1, BuildHolds, PTL

-----------------------------------------------------------------------------
(***************************************************************************)
(* The merkle root.                                                        *)
(***************************************************************************)
IsList(l) == Len(l) \in Nat \ {0} /\ l = [i \in 1..Len(l) |-> l[i]]

Injective(l) == \A i, j \in 1..Len(l) : l[i] = l[j] => i = j

Pair(a, b) == Sha256d(<<"pair", a, b>>)

\* A hash, and one that is not of two hashes.
IsHash(h) == \E x, r : r \in BOOLEAN /\ h = [of |-> x, reversed |-> r]
IsPaired(h) == \E a, b : h.of = <<"pair", a, b>>

Hashes(l) == IsList(l) /\ Injective(l) /\ \A i \in 1..Len(l) : IsHash(l[i])

Txs(l) == Hashes(l) /\ \A i \in 1..Len(l) : ~IsPaired(l[i])

LEMMA PairIs ==
  ASSUME NEW a, NEW b
  PROVE  IsHash(Pair(a, b)) /\ IsPaired(Pair(a, b))
<1>1. Pair(a, b) = [of |-> <<"pair", a, b>>, reversed |-> FALSE]
  BY DEF Pair, Sha256d
<1>2. Pair(a, b).of = <<"pair", a, b>>
  BY <1>1
<1> QED BY <1>1, <1>2 DEF IsHash, IsPaired

LEMMA PairsDiffer ==
  ASSUME NEW a, NEW b, NEW c, NEW d, Pair(a, b) = Pair(c, d)
  PROVE  a = c /\ b = d
<1>1. Pair(a, b).of = <<"pair", a, b>> /\ Pair(c, d).of = <<"pair", c, d>>
  BY DEF Pair, Sha256d
<1>2. <<"pair", a, b>> = <<"pair", c, d>>
  BY <1>1
<1>3. <<"pair", a, b>>[2] = a /\ <<"pair", c, d>>[2] = c
  OBVIOUS
<1>4. <<"pair", a, b>>[3] = b /\ <<"pair", c, d>>[3] = d
  OBVIOUS
<1> QED BY <1>2, <1>3, <1>4

LEMMA ListsEqual ==
  ASSUME NEW l, NEW m, IsList(l), IsList(m), Len(l) = Len(m),
         \A i \in 1..Len(l) : l[i] = m[i]
  PROVE  l = m
BY DEF IsList

LEMMA Halves ==
  ASSUME NEW m \in Nat \ {0}
  PROVE  /\ (m + 1) \div 2 \in Nat \ {0}
         /\ m > 1 => (m + 1) \div 2 < m
         /\ m = 2 * ((m + 1) \div 2) \/ m = 2 * ((m + 1) \div 2) - 1
OBVIOUS

\* What the other half of a pair is: the last one, when there is no next.
Other(l, i) == IF 2 * i > Len(l) THEN l[Len(l)] ELSE l[2 * i]

LEMMA PairUpIs ==
  ASSUME NEW l, IsList(l)
  PROVE  LET h == (Len(l) + 1) \div 2
         IN  /\ IsList(PairUp(l)) /\ Len(PairUp(l)) = h
             /\ \A i \in 1..h : PairUp(l)[i] = Pair(l[2 * i - 1], Other(l, i))
<1> DEFINE m == Len(l)
           h == (m + 1) \div 2
           at(i) == IF i > m THEN Last(l) ELSE l[i]
           p == [i \in 1..h |-> Pair(at(2 * i - 1), at(2 * i))]
<1>1. PairUp(l) = p
  BY DEF PairUp, Pair
<1>2. m \in Nat \ {0}
  BY DEF IsList
<1>3. h \in Nat \ {0} /\ (m = 2 * h \/ m = 2 * h - 1)
  BY <1>2, Halves
<1>4. Last(l) = l[m]
  BY DEF Last
<1> HIDE DEF m, h
<1>5. ASSUME NEW i \in 1..h PROVE at(2 * i - 1) = l[2 * i - 1] /\ at(2 * i) = Other(l, i)
  <2>1. ~(2 * i - 1 > m)
    BY <1>2, <1>3
  <2> QED BY <1>4, <2>1 DEF Other, m
<1> HIDE DEF at
<1>6. Len(p) = h /\ \A i \in 1..h : p[i] = Pair(at(2 * i - 1), at(2 * i))
  BY <1>3
<1>7. p = [i \in 1..h |-> p[i]]
  OBVIOUS
<1> HIDE DEF p
<1>8. IsList(p)
  BY <1>3, <1>6, <1>7 DEF IsList
<1> QED BY <1>1, <1>5, <1>6, <1>8 DEF h, m

\* A round leaves different hashes.
LEMMA PairUpHashes ==
  ASSUME NEW l, Hashes(l)
  PROVE  /\ Hashes(PairUp(l)) /\ Len(PairUp(l)) = (Len(l) + 1) \div 2
         /\ \A i \in 1..Len(PairUp(l)) : IsPaired(PairUp(l)[i])
<1> DEFINE m == Len(l)
           h == (m + 1) \div 2
           p == PairUp(l)
<1>1. /\ IsList(p) /\ Len(p) = h
      /\ \A i \in 1..h : p[i] = Pair(l[2 * i - 1], Other(l, i))
  BY PairUpIs DEF Hashes
<1>2. m \in Nat \ {0}
  BY DEF Hashes, IsList
<1>3. h \in Nat \ {0} /\ (m = 2 * h \/ m = 2 * h - 1)
  BY <1>2, Halves
<1> HIDE DEF p, h, m
<1>4. \A i \in 1..h : IsHash(p[i]) /\ IsPaired(p[i])
  BY <1>1, PairIs
<1>5. ASSUME NEW i \in 1..h, NEW j \in 1..h, p[i] = p[j] PROVE i = j
  <2>1. l[2 * i - 1] = l[2 * j - 1]
    BY <1>1, <1>5, PairsDiffer
  <2>2. 2 * i - 1 \in 1..m /\ 2 * j - 1 \in 1..m
    BY <1>2, <1>3
  <2>3. 2 * i - 1 = 2 * j - 1
    BY <2>1, <2>2 DEF Hashes, Injective, m
  <2> QED BY <2>3
<1>6. Injective(p)
  BY <1>1, <1>5 DEF Injective
<1>7. Hashes(p)
  BY <1>1, <1>4, <1>6 DEF Hashes
<1> QED BY <1>1, <1>4, <1>7 DEF p, h, m

\* A round can be undone: what an odd last hash makes is not what two make.
LEMMA PairUpUndone ==
  ASSUME NEW l, NEW u, Hashes(l), Hashes(u), PairUp(l) = PairUp(u), Len(l) <= Len(u)
  PROVE  l = u
<1> DEFINE m == Len(l)
           n == Len(u)
           h == (m + 1) \div 2
<1>1. m \in Nat \ {0} /\ n \in Nat \ {0} /\ m <= n
  BY DEF Hashes, IsList
<1>2. h \in Nat \ {0} /\ (m = 2 * h \/ m = 2 * h - 1)
  BY <1>1, Halves
<1>3. /\ (m + 1) \div 2 = h /\ (n + 1) \div 2 = h
      /\ \A i \in 1..h : Pair(l[2 * i - 1], Other(l, i)) = Pair(u[2 * i - 1], Other(u, i))
  <2>1. /\ Len(PairUp(l)) = h
        /\ \A i \in 1..h : PairUp(l)[i] = Pair(l[2 * i - 1], Other(l, i))
    BY PairUpIs DEF Hashes
  <2>2. /\ Len(PairUp(u)) = (n + 1) \div 2
        /\ \A i \in 1..((n + 1) \div 2) : PairUp(u)[i] = Pair(u[2 * i - 1], Other(u, i))
    BY PairUpIs DEF Hashes
  <2> HIDE DEF h
  <2>3. (n + 1) \div 2 = h
    BY <2>1, <2>2
  <2> QED BY <2>1, <2>2, <2>3 DEF h
<1>4. n = 2 * h \/ n = 2 * h - 1
  BY <1>1, <1>3, Halves
<1> HIDE DEF h
<1>5. \A i \in 1..h : l[2 * i - 1] = u[2 * i - 1] /\ Other(l, i) = Other(u, i)
  BY <1>3, PairsDiffer
<1>6. m = n
  <2> SUFFICES ASSUME m = 2 * h - 1, n = 2 * h PROVE FALSE
    BY <1>1, <1>2, <1>4
  <2>1. h \in 1..h /\ 2 * h > m /\ ~(2 * h > n) /\ 2 * h - 1 \in 1..n /\ 2 * h \in 1..n
        /\ 2 * h - 1 # 2 * h
    BY <1>2
  <2>2. Other(l, h) = l[2 * h - 1] /\ Other(u, h) = u[2 * h]
    BY <2>1 DEF Other
  <2>3. u[2 * h - 1] = u[2 * h]
    BY <1>5, <2>1, <2>2
  <2> QED BY <2>1, <2>3 DEF Hashes, Injective
<1>7. ASSUME NEW j \in 1..m PROVE l[j] = u[j]
  <2>1. PICK i \in 1..h : j = 2 * i - 1 \/ j = 2 * i
    <3>1. (j + 1) \div 2 \in 1..h /\ (j = 2 * ((j + 1) \div 2) - 1 \/ j = 2 * ((j + 1) \div 2))
      BY <1>2
    <3> QED BY <3>1
  <2>2. CASE j = 2 * i - 1
    BY <1>5, <2>2
  <2>3. CASE j = 2 * i
    <3>1. ~(2 * i > m) /\ ~(2 * i > n)
      BY <1>1, <1>6, <2>3
    <3>2. Other(l, i) = l[j] /\ Other(u, i) = u[j]
      BY <2>3, <3>1 DEF Other
    <3> QED BY <1>5, <3>2
  <2> QED BY <2>1, <2>2, <2>3
<1> QED BY <1>6, <1>7, ListsEqual DEF Hashes

\* What is known of every round: different hashes, ever fewer of them, and pairs of
\* hashes unless it is still the first list.
RoundsOf(F, l, n) ==
  /\ F[0] = l
  /\ \A k \in 0..(n - 1) :
       F[k + 1] = IF Len(F[k]) = 1 THEN F[k] ELSE PairUp(F[k])

LEMMA RoundsAre ==
  ASSUME NEW F, NEW l, NEW f, NEW n \in Nat, Rounds(F, "pair", l, f, n)
  PROVE  RoundsOf(F, l, n)
BY DEF Rounds, RoundsOf, FoldOp

LEMMA RoundsHold ==
  ASSUME NEW F, NEW l, NEW n \in Nat \ {0}, RoundsOf(F, l, n), Hashes(l), Len(l) = n
  PROVE  /\ \A k \in 0..n : Hashes(F[k])
         /\ Len(F[n]) = 1
<1> DEFINE P == {k \in 0..n : Hashes(F[k]) /\ (Len(F[k]) = 1 \/ Len(F[k]) <= n - k)}
<1>1. 0 \in P
  <2>1. 0 \in 0..n /\ n <= n - 0
    OBVIOUS
  <2> QED BY <2>1 DEF RoundsOf
<1>2. ASSUME NEW k \in 0..n, k # n, k \in P PROVE k + 1 \in P
  <2>1. k \in 0..(n - 1) /\ k + 1 \in 0..n
    BY <1>2
  <2>2. Hashes(F[k]) /\ (Len(F[k]) = 1 \/ Len(F[k]) <= n - k)
    BY <1>2
  <2>3. CASE Len(F[k]) = 1
    <3>1. F[k + 1] = F[k]
      BY <2>1, <2>3 DEF RoundsOf
    <3> QED BY <2>1, <2>2, <2>3, <3>1
  <2>4. CASE Len(F[k]) # 1
    <3>1. F[k + 1] = PairUp(F[k])
      BY <2>1, <2>4 DEF RoundsOf
    <3>2. Hashes(F[k + 1]) /\ Len(F[k + 1]) = (Len(F[k]) + 1) \div 2
      BY <2>2, <3>1, PairUpHashes
    <3>3. Len(F[k + 1]) <= n - (k + 1)
      <4> DEFINE a == Len(F[k])
                 c == Len(F[k + 1])
      <4>1. a \in Nat \ {0} /\ a # 1 /\ a <= n - k /\ c = (a + 1) \div 2
        BY <2>2, <2>4, <3>2 DEF Hashes, IsList
      <4> HIDE DEF a, c
      <4>2. c < a /\ c \in Nat
        BY <4>1, Halves
      <4>3. c <= n - (k + 1)
        BY <4>1, <4>2
      <4> QED BY <4>3 DEF c
    <3> QED BY <2>1, <3>2, <3>3
  <2> QED BY <2>3, <2>4
<1>3. \A k \in 0..n : k \in P
  <2>1. n \in Nat
    OBVIOUS
  <2> HIDE DEF P
  <2> QED BY <1>1, <1>2, <2>1, UpTo
<1>4. Len(F[n]) = 1
  <2> DEFINE a == Len(F[n])
  <2>1. n \in 0..n
    OBVIOUS
  <2>2. a = 1 \/ a <= n - n
    BY <1>3, <2>1
  <2>3. a \in Nat \ {0}
    BY <1>3, <2>1 DEF Hashes, IsList
  <2> HIDE DEF a
  <2>4. a = 1
    BY <2>2, <2>3
  <2> QED BY <2>4 DEF a
<1> QED BY <1>3, <1>4

\* Two trees with a round in common have the same leaves.
Tree(F, l, n) ==
  n \in Nat /\ RoundsOf(F, l, n) /\ Txs(l) /\ \A k \in 0..n : Hashes(F[k])

LEMMA RoundBefore ==
  ASSUME NEW F, NEW l, NEW n, Tree(F, l, n), NEW k \in 1..n
  PROVE  /\ k - 1 \in 0..n /\ Hashes(F[k - 1])
         /\ F[k] = IF Len(F[k - 1]) = 1 THEN F[k - 1] ELSE PairUp(F[k - 1])
<1>1. k - 1 \in 0..(n - 1) /\ k - 1 + 1 = k /\ k - 1 \in 0..n
  BY DEF Tree
<1> QED BY <1>1 DEF Tree, RoundsOf

LEMMA LeavesAreNoRound ==
  ASSUME NEW l, NEW u, Txs(l), Hashes(u), PairUp(u) = l
  PROVE  FALSE
<1>1. Len(l) \in Nat \ {0}
  BY DEF Txs, Hashes, IsList
<1>2. 1 \in 1..Len(l)
  BY <1>1
<1>3. IsPaired(l[1])
  BY <1>2, PairUpHashes
<1> QED BY <1>2, <1>3 DEF Txs

LEMMA SameLeaves ==
  ASSUME NEW F, NEW l, NEW n, Tree(F, l, n), NEW G, NEW u, NEW m, Tree(G, u, m),
         NEW a \in 0..n, NEW c \in 0..m, F[a] = G[c]
  PROVE  l = u
<1> DEFINE P == {s \in 0..(n + m) : \A k \in 0..n, j \in 0..m :
                                      k + j <= s /\ F[k] = G[j] => l = u}
<1>0. n \in Nat /\ m \in Nat
  BY DEF Tree
<1>1. 0 \in P
  <2>1. 0 \in 0..(n + m)
    BY <1>0
  <2>2. \A k \in 0..n, j \in 0..m : k + j <= 0 => k = 0 /\ j = 0
    BY <1>0
  <2>3. F[0] = l /\ G[0] = u
    BY DEF Tree, RoundsOf
  <2> QED BY <2>1, <2>2, <2>3
<1>2. ASSUME NEW s \in 0..(n + m), s # n + m, s \in P PROVE s + 1 \in P
  <2>0. s + 1 \in 0..(n + m)
    BY <1>0, <1>2
  <2> SUFFICES ASSUME NEW k \in 0..n, NEW j \in 0..m, k + j <= s + 1, F[k] = G[j]
               PROVE  l = u
    BY <2>0
  <2>1. \A x \in 0..n, y \in 0..m : x + y <= s /\ F[x] = G[y] => l = u
    BY <1>2
  <2>2. CASE k = 0 /\ j = 0
    BY <2>2 DEF Tree, RoundsOf
  <2>3. CASE k # 0 /\ Len(F[k - 1]) = 1
    <3>1. k \in 1..n
      BY <1>0, <2>3
    <3>2. k - 1 \in 0..n /\ F[k] = F[k - 1]
      BY <2>3, <3>1, RoundBefore
    <3>3. k - 1 + j <= s
      BY <1>0
    <3> QED BY <2>1, <3>2, <3>3
  <2>4. CASE j # 0 /\ Len(G[j - 1]) = 1
    <3>1. j \in 1..m
      BY <1>0, <2>4
    <3>2. j - 1 \in 0..m /\ G[j] = G[j - 1]
      BY <2>4, <3>1, RoundBefore
    <3>3. k + (j - 1) <= s
      BY <1>0
    <3> QED BY <2>1, <3>2, <3>3
  <2>5. CASE k # 0 /\ Len(F[k - 1]) # 1 /\ j = 0
    <3>1. k \in 1..n
      BY <1>0, <2>5
    <3>2. F[k] = PairUp(F[k - 1]) /\ Hashes(F[k - 1])
      BY <2>5, <3>1, RoundBefore
    <3>3. G[0] = u /\ Txs(u)
      BY DEF Tree, RoundsOf
    <3> QED BY <2>5, <3>2, <3>3, LeavesAreNoRound
  <2>6. CASE j # 0 /\ Len(G[j - 1]) # 1 /\ k = 0
    <3>1. j \in 1..m
      BY <1>0, <2>6
    <3>2. G[j] = PairUp(G[j - 1]) /\ Hashes(G[j - 1])
      BY <2>6, <3>1, RoundBefore
    <3>3. F[0] = l /\ Txs(l)
      BY DEF Tree, RoundsOf
    <3> QED BY <2>6, <3>2, <3>3, LeavesAreNoRound
  <2>7. CASE k # 0 /\ Len(F[k - 1]) # 1 /\ j # 0 /\ Len(G[j - 1]) # 1
    <3>1. k \in 1..n /\ j \in 1..m
      BY <1>0, <2>7
    <3>2. F[k] = PairUp(F[k - 1]) /\ Hashes(F[k - 1]) /\ k - 1 \in 0..n
      BY <2>7, <3>1, RoundBefore
    <3>3. G[j] = PairUp(G[j - 1]) /\ Hashes(G[j - 1]) /\ j - 1 \in 0..m
      BY <2>7, <3>1, RoundBefore
    <3>4. Len(F[k - 1]) <= Len(G[j - 1]) \/ Len(G[j - 1]) <= Len(F[k - 1])
      <4>1. Len(F[k - 1]) \in Nat /\ Len(G[j - 1]) \in Nat
        BY <3>2, <3>3 DEF Hashes, IsList
      <4> QED BY <4>1
    <3>5. F[k - 1] = G[j - 1]
      BY <3>2, <3>3, <3>4, PairUpUndone
    <3>6. k - 1 + (j - 1) <= s
      BY <1>0
    <3> QED BY <2>1, <3>2, <3>3, <3>5, <3>6
  <2> QED BY <2>2, <2>3, <2>4, <2>5, <2>6, <2>7
<1>3. \A s \in 0..(n + m) : s \in P
  <2>1. n + m \in Nat
    BY <1>0
  <2> HIDE DEF P
  <2> QED BY <1>1, <1>2, <2>1, UpTo
<1>4. a + c \in 0..(n + m) /\ a + c <= a + c
  BY <1>0
<1> QED BY <1>3, <1>4

LEMMA FlipIs ==
  \A x : /\ Flip([of |-> x, reversed |-> TRUE]) = [of |-> x, reversed |-> FALSE]
         /\ Flip([of |-> x, reversed |-> FALSE]) = [of |-> x, reversed |-> TRUE]
<1> TAKE x
<1>1. \A v, w : [[of |-> x, reversed |-> v] EXCEPT !.reversed = w] = [of |-> x, reversed |-> w]
  OBVIOUS
<1>2. \A h : Flip(h) = [h EXCEPT !.reversed = ~h.reversed]
  BY DEF Flip
<1>3. [of |-> x, reversed |-> TRUE].reversed = TRUE
      /\ [of |-> x, reversed |-> FALSE].reversed = FALSE
  OBVIOUS
<1>4. (~TRUE) = FALSE /\ (~FALSE) = TRUE
  OBVIOUS
<1>5. Flip([of |-> x, reversed |-> TRUE])
        = [[of |-> x, reversed |-> TRUE] EXCEPT !.reversed = FALSE]
  BY <1>2, <1>3, <1>4, Zenon
<1>6. Flip([of |-> x, reversed |-> FALSE])
        = [[of |-> x, reversed |-> FALSE] EXCEPT !.reversed = TRUE]
  BY <1>2, <1>3, <1>4, Zenon
<1> QED BY <1>1, <1>5, <1>6, Zenon

\* The leaves are the txids the other way round.
LEMMA FlipBack ==
  ASSUME NEW h, IsHash(h)
  PROVE  /\ Flip(Flip(h)) = h /\ IsHash(Flip(h))
         /\ (IsPaired(Flip(h)) => IsPaired(h))
<1>1. PICK x, r : r \in BOOLEAN /\ h = [of |-> x, reversed |-> r]
  BY DEF IsHash
<1> DEFINE up == [of |-> x, reversed |-> TRUE]
           down == [of |-> x, reversed |-> FALSE]
<1>2. Flip(up) = down /\ Flip(down) = up /\ up.of = down.of
  BY FlipIs
<1>3. IsHash(up) /\ IsHash(down)
  BY DEF IsHash
<1>4. h = up \/ h = down
  BY <1>1
<1> HIDE DEF up, down
<1>5. Flip(Flip(h)) = h /\ IsHash(Flip(h)) /\ Flip(h).of = h.of
  BY <1>2, <1>3, <1>4
<1> QED BY <1>5 DEF IsPaired

LEMMA LeavesOf ==
  ASSUME NEW l, Txs(l)
  PROVE  LET e == [i \in DOMAIN l |-> Flip(l[i])]
         IN  /\ Txs(e) /\ Len(e) = Len(l) /\ DOMAIN l = 1..Len(l)
             /\ \A i \in 1..Len(l) : Flip(e[i]) = l[i]
<1> DEFINE n == Len(l)
           e == [i \in DOMAIN l |-> Flip(l[i])]
<1>1. n \in Nat \ {0} /\ DOMAIN l = 1..n
  BY DEF Txs, Hashes, IsList
<1>2. \A i \in 1..n : IsHash(l[i]) /\ ~IsPaired(l[i])
  BY DEF Txs, Hashes
<1>3. Len(e) = n /\ \A i \in 1..n : e[i] = Flip(l[i])
  BY <1>1
<1>4. e = [i \in 1..n |-> e[i]]
  BY <1>1
<1> HIDE DEF e, n
<1>5. \A i \in 1..n : Flip(e[i]) = l[i] /\ IsHash(e[i]) /\ ~IsPaired(e[i])
  BY <1>2, <1>3, FlipBack
<1>6. IsList(e)
  BY <1>1, <1>3, <1>4 DEF IsList
<1>7. Injective(e)
  <2> SUFFICES ASSUME NEW i \in 1..n, NEW j \in 1..n, e[i] = e[j] PROVE i = j
    BY <1>3 DEF Injective
  <2>1. l[i] = l[j]
    BY <1>5
  <2> QED BY <2>1 DEF Txs, Hashes, Injective, n
<1>8. Txs(e)
  BY <1>3, <1>5, <1>6, <1>7 DEF Txs, Hashes
<1> QED BY <1>1, <1>3, <1>5, <1>8 DEF e, n

LEMMA TreeOf ==
  ASSUME NEW l, Txs(l)
  PROVE  \E F : /\ Tree(F, [i \in DOMAIN l |-> Flip(l[i])], Len(l))
                /\ Len(F[Len(l)]) = 1 /\ MerkleRoot(l) = F[Len(l)][1]
                /\ Hashes(F[Len(l)])
<1> DEFINE n == Len(l)
           e == [i \in DOMAIN l |-> Flip(l[i])]
<1>1. n \in Nat \ {0} /\ DOMAIN l = 1..n
  BY DEF Txs, Hashes, IsList
<1>2. PICK F : Rounds(F, "pair", e, e, n) /\ MerkleRoot(l) = Head(F[n])
  BY <1>1, MerkleRounds
<1>3. Txs(e) /\ Len(e) = n
  BY LeavesOf
<1> HIDE DEF e, n
<1>4. RoundsOf(F, e, n)
  BY <1>1, <1>2, RoundsAre
<1>5. (\A k \in 0..n : Hashes(F[k])) /\ Len(F[n]) = 1
  BY <1>1, <1>3, <1>4, RoundsHold DEF Txs
<1>6. Tree(F, e, n)
  BY <1>1, <1>3, <1>4, <1>5 DEF Tree
<1>7. Hashes(F[n])
  BY <1>1, <1>5
<1>8. Head(F[n]) = F[n][1]
  OBVIOUS
<1> QED BY <1>2, <1>5, <1>6, <1>7, <1>8 DEF e, n

LEMMA RootIsHash ==
  ASSUME NEW l, Txs(l)
  PROVE  IsHash(MerkleRoot(l))
<1>1. PICK F : /\ Len(F[Len(l)]) = 1 /\ MerkleRoot(l) = F[Len(l)][1]
               /\ Hashes(F[Len(l)])
  BY TreeOf
<1>2. 1 \in 1..Len(F[Len(l)])
  BY <1>1
<1> QED BY <1>1, <1>2 DEF Hashes

\* The merkle root commits to the transactions, of every number: two lists of
\* different txids with the same root are the same list, although an odd hash is
\* paired with itself in every round.
THEOREM MerkleRootCommits ==
  ASSUME NEW l, NEW u, Txs(l), Txs(u), MerkleRoot(l) = MerkleRoot(u)
  PROVE  l = u
<1> DEFINE e == [i \in DOMAIN l |-> Flip(l[i])]
           d == [i \in DOMAIN u |-> Flip(u[i])]
           n == Len(l)
           m == Len(u)
<1>1. PICK F : Tree(F, e, n) /\ Len(F[n]) = 1 /\ MerkleRoot(l) = F[n][1] /\ Hashes(F[n])
  BY TreeOf
<1>2. PICK G : Tree(G, d, m) /\ Len(G[m]) = 1 /\ MerkleRoot(u) = G[m][1] /\ Hashes(G[m])
  BY TreeOf
<1>3. /\ Len(e) = n /\ \A i \in 1..n : Flip(e[i]) = l[i]
      /\ Len(d) = m /\ \A i \in 1..m : Flip(d[i]) = u[i]
  BY LeavesOf
<1>4. n \in Nat /\ m \in Nat /\ IsList(l) /\ IsList(u)
  BY DEF Txs, Hashes, IsList
<1> HIDE DEF e, d, n, m
<1>5. F[n] = G[m]
  <2>1. \A i \in 1..Len(F[n]) : F[n][i] = G[m][i]
    <3>1. F[n][1] = G[m][1] /\ Len(F[n]) = 1
      BY <1>1, <1>2
    <3>2. \A i \in 1..1 : i = 1
      OBVIOUS
    <3> QED BY ONLY <3>1, <3>2
  <2> QED BY <1>1, <1>2, <2>1, ListsEqual DEF Hashes
<1>6. e = d
  <2>1. n \in 0..n /\ m \in 0..m
    BY <1>4
  <2> QED BY <1>1, <1>2, <1>5, <2>1, SameLeaves
<1>7. n = m /\ \A i \in 1..n : l[i] = u[i]
  BY <1>3, <1>6
<1> QED BY <1>4, <1>7, ListsEqual DEF n, m

\* A call for two roots has its arguments, and what it has returned are the roots.
RootOf(n) == MerkleRootForTemplate(Template(1, Transactions(n - 1)), Script, Tag)

MerkleInv ==
  /\ call.op = "merkle" => call \in MerkleCalls
  /\ Returned("merkle") => result.of = [n \in {call.left, call.right} |-> RootOf(n)]

LEMMA MerkleHolds == Spec => []MerkleInv
<1>1. Init => MerkleInv
  <2>1. call \in WorkCalls => call.op = "work"
    BY DEF WorkCalls, AnyWork
  <2> QED BY <2>1 DEF Init, MerkleInv, Returned, AllocateCalls, BuildCalls
<1>2. MerkleInv /\ [Return]_vars => MerkleInv'
  <2> SUFFICES ASSUME MerkleInv, [Return]_vars PROVE MerkleInv'
    OBVIOUS
  <2>1. CASE Merkle /\ UNCHANGED call
    <3>1. result'.of = [n \in {call.left, call.right} |-> RootOf(n)]
      BY <2>1 DEF Merkle, RootOf
    <3> QED BY <2>1, <3>1 DEF MerkleInv, Returned
  <2>2. CASE (MineAndValidate \/ Build \/ Allocate) /\ UNCHANGED call
    <3>1. call.op # "merkle"
      BY <2>2 DEF MineAndValidate, Build, Allocate
    <3> QED BY <2>2, <3>1 DEF MerkleInv, Returned
  <2>3. CASE UNCHANGED vars
    <3>1. UNCHANGED <<call, result>>
      BY <2>3 DEF vars
    <3> QED BY <3>1 DEF MerkleInv, Returned
  <2> QED BY <2>1, <2>2, <2>3 DEF Return
<1> QED BY <1>1, <1>2, PTL DEF Spec

\* The txids of a block of the calls: the coinbase and the others, all different.
LEMMA TxidsOfCall ==
  ASSUME NEW n \in Nat \ {0}
  PROVE  LET l == Txids(Template(1, Transactions(n - 1)), Script, Tag)
         IN  Txs(l) /\ Len(l) = n
<1> DEFINE t == Template(1, Transactions(n - 1))
           coin == <<"coinbase", Coinbase(t, Script, Tag, FALSE)>>
           first == [of |-> coin, reversed |-> TRUE]
           rest == [i \in 1..(n - 1) |-> TxId(i)]
           id(i) == IF i = 1 THEN first ELSE TxId(i - 1)
           l == [i \in 1..n |-> id(i)]
<1>1. Flip(Sha256d(coin)) = first
  BY FlipIs DEF Sha256d
<1>2. [i \in DOMAIN t.txs |-> t.txs[i].txid] = rest
  BY DEF Template, Transactions
<1>3. Txids(t, Script, Tag) = <<first>> \o rest
  BY <1>1, <1>2 DEF Txids
<1>4. \A i : TxId(i) = [of |-> <<"tx", i>>, reversed |-> TRUE]
  BY DEF TxId
<1>5. coin[1] = "coinbase" /\ \A i : <<"tx", i>>[1] = "tx" /\ <<"tx", i>>[2] = i
  OBVIOUS
<1>6. \A a, b : <<"pair", a, b>>[1] = "pair"
  OBVIOUS
<1> HIDE DEF coin
<1>7. IsHash(first) /\ ~IsPaired(first) /\ first.of = coin
  <2>1. \A a, b : coin # <<"pair", a, b>>
    BY <1>5, <1>6
  <2> QED BY <2>1 DEF IsHash, IsPaired
<1> HIDE DEF first
<1>8. \A i : IsHash(TxId(i)) /\ ~IsPaired(TxId(i)) /\ TxId(i).of = <<"tx", i>>
  <2> TAKE i
  <2>1. TxId(i).of = <<"tx", i>>
    BY <1>4
  <2>2. \A a, b : <<"tx", i>> # <<"pair", a, b>>
    BY <1>5, <1>6
  <2> QED BY <1>4, <2>1, <2>2 DEF IsHash, IsPaired
<1>9. \A i : TxId(i) # first
  <2>1. \A i : coin # <<"tx", i>>
    BY <1>5
  <2> QED BY <1>7, <1>8, <2>1
<1>10. \A i, j : TxId(i) = TxId(j) => i = j
  BY <1>5, <1>8
<1>11. <<first>> \o rest = l
  <2>1. \A i \in 1..(n - 1) : rest[i] = TxId(i)
    OBVIOUS
  <2>2. Len(rest) = n - 1 /\ Len(<<first>>) = 1 /\ <<first>>[1] = first
    OBVIOUS
  <2>3. <<first>> \o rest = [i \in 1..(1 + (n - 1)) |->
                               IF i <= 1 THEN <<first>>[i] ELSE rest[i - 1]]
    BY <2>2
  <2>4. 1 + (n - 1) = n
    OBVIOUS
  <2>5. \A i \in 1..n : (IF i <= 1 THEN <<first>>[i] ELSE rest[i - 1]) = id(i)
    <3> SUFFICES ASSUME NEW i \in 1..n
                 PROVE  (IF i <= 1 THEN <<first>>[i] ELSE rest[i - 1]) = id(i)
      OBVIOUS
    <3>1. CASE i = 1
      BY <2>2, <3>1
    <3>2. CASE i # 1
      BY <2>1, <3>2
    <3> QED BY <3>1, <3>2
  <2> QED BY <2>3, <2>4, <2>5
<1> HIDE DEF rest, t
<1>12. Len(l) = n /\ \A i \in 1..n : l[i] = id(i)
  OBVIOUS
<1>13. l = [i \in 1..n |-> l[i]]
  OBVIOUS
<1> HIDE DEF l
<1>14. \A i \in 1..n : IsHash(l[i]) /\ ~IsPaired(l[i])
  BY <1>7, <1>8, <1>12
<1>15. Injective(l)
  <2> SUFFICES ASSUME NEW i \in 1..n, NEW j \in 1..n, l[i] = l[j] PROVE i = j
    BY <1>12 DEF Injective
  <2>1. id(i) = id(j)
    BY <1>12
  <2>2. CASE i = 1 \/ j = 1
    BY <1>9, <2>1, <2>2
  <2>3. CASE i # 1 /\ j # 1
    <3>1. i - 1 = j - 1
      BY <1>10, <2>1, <2>3
    <3> QED BY <3>1
  <2> QED BY <2>2, <2>3
<1>16. Txs(l)
  BY <1>12, <1>13, <1>14, <1>15 DEF Txs, Hashes, IsList
<1> QED BY <1>3, <1>11, <1>12, <1>16 DEF t

\* Blocks of another number of transactions have another root, in the node's order
\* of the bytes too.
THEOREM RootsDiffer == Spec => []MerkleCommits
<1>1. MerkleInv => MerkleCommits
  <2> SUFFICES ASSUME MerkleInv, Returned("merkle"), call.left # call.right,
                      result.of[call.left] = result.of[call.right]
               PROVE  FALSE
    BY DEF MerkleCommits
  <2> SUFFICES ASSUME NEW m, m = call.left, NEW n, n = call.right,
                      NEW l, l = Txids(Template(1, Transactions(m - 1)), Script, Tag),
                      NEW u, u = Txids(Template(1, Transactions(n - 1)), Script, Tag)
               PROVE  FALSE
    OBVIOUS
  <2>1. call \in MerkleCalls /\ result.of = [k \in {call.left, call.right} |-> RootOf(k)]
    BY DEF MerkleInv, Returned
  <2>2. m \in Nat \ {0} /\ n \in Nat \ {0}
    BY <2>1, AlgorithmsAssumption DEF MerkleCalls
  <2>3. RootOf(m) = RootOf(n)
    BY <2>1
  <2>4. Txs(l) /\ Len(l) = m /\ Txs(u) /\ Len(u) = n
    BY <2>2, TxidsOfCall
  <2>5. RootOf(m) = Flip(MerkleRoot(l)) /\ RootOf(n) = Flip(MerkleRoot(u))
    BY DEF RootOf, MerkleRootForTemplate
  <2>6. IsHash(MerkleRoot(l)) /\ IsHash(MerkleRoot(u))
    BY <2>4, RootIsHash
  <2>7. MerkleRoot(l) = MerkleRoot(u)
    <3>1. Flip(Flip(MerkleRoot(l))) = MerkleRoot(l) /\ Flip(Flip(MerkleRoot(u))) = MerkleRoot(u)
      BY <2>6, FlipBack
    <3>2. Flip(MerkleRoot(l)) = Flip(MerkleRoot(u))
      BY <2>3, <2>5
    <3> QED BY ONLY <3>1, <3>2
  <2>8. l = u
    BY <2>4, <2>7, MerkleRootCommits
  <2> QED BY <2>4, <2>8
<1> QED BY <1>1, MerkleHolds, PTL
=============================================================================
