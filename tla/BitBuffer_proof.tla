--------------------------- MODULE BitBuffer_proof ---------------------------
(***************************************************************************)
(* For every width of the word and of the groups that the assumptions of   *)
(* BitBuffer admit: no bit is lost or displaced off the edge, sendBits has *)
(* the room it needs, whole bytes leave, and the overlay holds.            *)
(***************************************************************************)
EXTENDS BitBuffer, TLAPS

Buffer == [buf : [Cells -> Int], valid : Nat, out : Seq(Int)]

\* The parameters as plain numbers
LEMMA Params ==
  /\ Word \in Nat /\ SendGroup \in Nat /\ BlockGroup \in Nat /\ MaxBits \in Nat
  /\ LenExtra \in Nat /\ DistExtra \in Nat /\ LitBufsize \in Nat /\ MaxHeader \in Nat
  /\ 9 <= MaxBits /\ 10 < BlockGroup /\ BlockGroup <= SendGroup
  /\ TreeSends \subseteq 1 .. MaxBits /\ StoredSizes \subseteq Nat
  /\ SendGroup <= Word /\ MaxBits <= SendGroup
  /\ Cells = 0 .. Word - 1
BY WordAssumption, RoomAssumption DEF Cells

LEMMA Multiple ==
  ASSUME NEW n \in Nat, n % 8 = 0
  PROVE  n = 8 * (n \div 8) /\ n \div 8 \in Nat
OBVIOUS

LEMMA ModSum ==
  ASSUME NEW a \in Nat, NEW b \in Nat, a % 8 = 0, b % 8 = 0
  PROVE  (a + b) % 8 = 0
OBVIOUS

LEMMA Joined ==
  ASSUME NEW a \in Seq(Int), NEW b \in Seq(Int)
  PROVE  a \o b \in Seq(Int) /\ Len(a \o b) = Len(a) + Len(b)
OBVIOUS

LEMMA JoinedAt ==
  ASSUME NEW a \in Seq(Int), NEW b \in Seq(Int), NEW i \in 1 .. Len(a) + Len(b)
  PROVE  (a \o b)[i] = IF i <= Len(a) THEN a[i] ELSE b[i - Len(a)]
OBVIOUS

LEMMA Divisible ==
  /\ \E w \in Nat : Word = 8 * w
  /\ \E w \in Nat : SendGroup = 8 * w
  /\ \E w \in Nat : BlockGroup = 8 * w
<1>1. Word % 8 = 0 /\ SendGroup % 8 = 0 /\ BlockGroup % 8 = 0 BY WordAssumption
<1> QED BY <1>1, Params, Multiple

\* Rounding down and up to bytes
LEMMA RoundDown ==
  ASSUME NEW v \in Nat
  PROVE  /\ 8 * (v \div 8) \in Nat /\ 8 * (v \div 8) <= v /\ v - 8 * (v \div 8) < 8
         /\ (8 * (v \div 8)) % 8 = 0
OBVIOUS

LEMMA RoundUp ==
  ASSUME NEW v \in Nat, v <= Word
  PROVE  /\ 8 * ((v + 7) \div 8) \in Nat /\ v <= 8 * ((v + 7) \div 8)
         /\ 8 * ((v + 7) \div 8) <= Word
         /\ (8 * ((v + 7) \div 8)) % 8 = 0
<1>1. PICK w \in Nat : Word = 8 * w BY Divisible
<1>2. v <= 8 * w BY <1>1
<1> QED BY <1>1, <1>2

-----------------------------------------------------------------------------
(* What the operations on the accumulator do                               *)

\* Adding n bits adds n valid bits
LEMMA OrType ==
  ASSUME NEW b \in Buffer, NEW n \in Nat
  PROVE  /\ Or(b, n) \in Buffer
         /\ Or(b, n).valid = b.valid + n /\ Or(b, n).out = b.out
BY Params DEF Or, Buffer

\* ... and, if they fit, behind those that are there
LEMMA OrOrdered ==
  ASSUME NEW b \in Buffer, NEW n \in Nat, Ordered(b), b.valid + n <= Word
  PROVE  Ordered(Or(b, n))
BY Params DEF Or, Buffer, Ordered

\* A drain moves bits, it neither makes nor loses any
LEMMA DrainType ==
  ASSUME NEW b \in Buffer, NEW k \in Nat, k <= b.valid, k <= Word
  PROVE  /\ Drain(b, k) \in Buffer
         /\ Drain(b, k).valid = b.valid - k
         /\ Len(Drain(b, k).out) = Len(b.out) + k
<1> DEFINE moved == [i \in 1 .. k |-> b.buf[i - 1]]
<1>1. moved \in Seq(Int) /\ Len(moved) = k
  BY Params DEF Buffer
<1>2. [p \in Cells |-> IF p + k \in Cells THEN b.buf[p + k] ELSE 0] \in [Cells -> Int]
  BY Params DEF Buffer
<1>3. b.out \o moved \in Seq(Int) /\ Len(b.out \o moved) = Len(b.out) + k
  BY <1>1 DEF Buffer
<1> QED BY <1>2, <1>3 DEF Drain, Buffer

LEMMA DrainOrdered ==
  ASSUME NEW b \in Buffer, NEW k \in Nat, k <= b.valid, b.valid <= Word, Ordered(b)
  PROVE  Ordered(Drain(b, k))
<1> DEFINE moved == [i \in 1 .. k |-> b.buf[i - 1]]
           d == Drain(b, k)
<1>1. moved \in Seq(Int) /\ Len(moved) = k /\ b.out \in Seq(Int) /\ b.valid \in Nat
                  /\ k <= Word
  BY Params DEF Buffer
<1>2. \A i \in 1 .. k : moved[i] = Len(b.out) + i
  BY Params DEF Ordered, Buffer
<1>3. d.out = b.out \o moved /\ d.valid = b.valid - k BY DEF Drain
<1>4. Len(d.out) = Len(b.out) + k BY <1>1, <1>3
<1>5. ASSUME NEW i \in 1 .. Len(d.out) PROVE d.out[i] = i
  <2>1. Len(b.out) \in Nat /\ i \in 1 .. Len(b.out) + k BY <1>1, <1>4
  <2>2. CASE i <= Len(b.out)
    <3> HIDE DEF moved
    <3>1. d.out[i] = b.out[i] BY <1>1, <1>3, <2>1, <2>2, JoinedAt
    <3> QED BY <2>1, <2>2, <3>1 DEF Ordered
  <2>3. CASE ~(i <= Len(b.out))
    <3> HIDE DEF moved
    <3>1. d.out[i] = moved[i - Len(b.out)] BY <1>1, <1>3, <2>1, <2>3, JoinedAt
    <3>2. i - Len(b.out) \in 1 .. k BY <2>1, <2>3
    <3> QED BY <1>2, <2>1, <3>1, <3>2
  <2> QED BY <2>2, <2>3
<1>6. ASSUME NEW p \in Cells
      PROVE  d.buf[p] = IF p < d.valid THEN Len(d.out) + p + 1 ELSE 0
  <2>1. d.buf[p] = IF p + k \in Cells THEN b.buf[p + k] ELSE 0 BY DEF Drain
  <2>2. p \in 0 .. Word - 1 /\ p + k \in Nat BY Params
  <2>3. CASE p + k \in Cells
    BY <1>1, <1>3, <1>4, <2>1, <2>2, <2>3 DEF Ordered
  <2>4. CASE p + k \notin Cells
    <3>1. p + k >= Word BY <2>2, <2>4, Params
    <3>2. ~(p < d.valid) BY <1>1, <1>3, <2>2, <3>1, Params
    <3> QED BY <2>1, <2>4, <3>2
  <2> QED BY <2>3, <2>4
<1> QED BY <1>5, <1>6 DEF Ordered

\* A drain guarded by a group size
LEMMA DrainAtFacts ==
  ASSUME NEW b \in Buffer, NEW g \in Nat, g <= Word, g % 8 = 0, Len(b.out) % 8 = 0
  PROVE  /\ DrainAt(b, g) \in Buffer
         /\ DrainAt(b, g).valid = IF b.valid >= g THEN b.valid - g ELSE b.valid
         /\ Len(DrainAt(b, g).out) + DrainAt(b, g).valid = Len(b.out) + b.valid
         /\ Len(DrainAt(b, g).out) % 8 = 0
         /\ Ordered(b) /\ b.valid <= Word => Ordered(DrainAt(b, g))
<1>1. b.valid \in Nat /\ Len(b.out) \in Nat BY DEF Buffer
<1>2. CASE b.valid >= g
  <2>1. DrainAt(b, g) = Drain(b, g) BY <1>2 DEF DrainAt
  <2>2. /\ Drain(b, g) \in Buffer /\ Drain(b, g).valid = b.valid - g
        /\ Len(Drain(b, g).out) = Len(b.out) + g
    BY <1>1, <1>2, DrainType
  <2>3. (Len(b.out) + g) % 8 = 0 BY <1>1, ModSum
  <2>4. Ordered(b) /\ b.valid <= Word => Ordered(Drain(b, g)) BY <1>1, <1>2, DrainOrdered
  <2> HIDE DEF DrainAt
  <2>5. Len(b.out) + g + (b.valid - g) = Len(b.out) + b.valid BY <1>1
  <2>6. Len(Drain(b, g).out) + Drain(b, g).valid = Len(b.out) + b.valid BY <2>2, <2>5
  <2>7. Len(Drain(b, g).out) % 8 = 0 BY <2>2, <2>3
  <2> QED BY <1>2, <2>1, <2>2, <2>4, <2>6, <2>7
<1>3. CASE ~(b.valid >= g) BY <1>1, <1>3 DEF DrainAt
<1> QED BY <1>2, <1>3

\* Codes of n bits ORed in, and a drain where a group is full: the step of
\* sendBits and of each half of a pair in compressBlock
LEMMA Step ==
  ASSUME NEW b \in Buffer, NEW n \in Nat, NEW g \in Nat, g <= Word, g % 8 = 0,
         Len(b.out) % 8 = 0
  PROVE  LET c == DrainAt(Or(b, n), g)
         IN  /\ c \in Buffer
             /\ c.valid = IF b.valid + n >= g THEN b.valid + n - g ELSE b.valid + n
             /\ Len(c.out) + c.valid = Len(b.out) + b.valid + n
             /\ Len(c.out) % 8 = 0
             /\ Ordered(b) /\ b.valid + n <= Word => Ordered(c)
<1>1. /\ Or(b, n) \in Buffer /\ Or(b, n).valid = b.valid + n /\ Or(b, n).out = b.out
  BY OrType
<1>2. Ordered(b) /\ b.valid + n <= Word => Ordered(Or(b, n)) BY OrOrdered
<1>3. b.valid \in Nat /\ Len(b.out) \in Nat BY DEF Buffer
<1>4. Len(Or(b, n).out) % 8 = 0 BY <1>1
<1> HIDE DEF DrainAt
<1>5. /\ DrainAt(Or(b, n), g) \in Buffer
      /\ DrainAt(Or(b, n), g).valid = IF Or(b, n).valid >= g THEN Or(b, n).valid - g ELSE Or(b, n).valid
      /\ Len(DrainAt(Or(b, n), g).out) + DrainAt(Or(b, n), g).valid = Len(Or(b, n).out) + Or(b, n).valid
      /\ Len(DrainAt(Or(b, n), g).out) % 8 = 0
      /\ Ordered(Or(b, n)) /\ Or(b, n).valid <= Word => Ordered(DrainAt(Or(b, n), g))
  BY <1>1, <1>4, DrainAtFacts
<1>6. Len(Or(b, n).out) + Or(b, n).valid = Len(b.out) + b.valid + n BY <1>1, <1>3
<1> DEFINE c == DrainAt(Or(b, n), g)
<1>7. c \in Buffer /\ Len(c.out) % 8 = 0 BY <1>5
<1>8. c.valid = IF b.valid + n >= g THEN b.valid + n - g ELSE b.valid + n
  <2> DEFINE w == c.valid
             u == Or(b, n).valid
             v == b.valid
  <2>1. w = IF u >= g THEN u - g ELSE u BY <1>5
  <2>2. u = v + n /\ v \in Nat BY <1>1, <1>3
  <2> HIDE DEF w, u, v, c
  <2>3. w = IF v + n >= g THEN v + n - g ELSE v + n BY <2>1, <2>2
  <2> QED BY <2>3 DEF w, v
<1>9. Len(c.out) + c.valid = Len(b.out) + b.valid + n BY <1>5, <1>6
<1>10. Ordered(b) /\ b.valid + n <= Word => Ordered(c) BY <1>1, <1>2, <1>5
<1> QED BY <1>7, <1>8, <1>9, <1>10

\* sendBits, called with the room it asks for
LEMMA SendStep ==
  ASSUME NEW b \in Buffer, NEW n \in Nat, n <= MaxBits, b.valid < SendGroup,
         Len(b.out) % 8 = 0
  PROVE  /\ SendBits(b, n) \in Buffer
         /\ SendBits(b, n).valid < SendGroup
         /\ SendBits(b, n).valid <= b.valid + n
         /\ Len(SendBits(b, n).out) + SendBits(b, n).valid = Len(b.out) + b.valid + n
         /\ Len(SendBits(b, n).out) % 8 = 0
         /\ Ordered(b) => Ordered(SendBits(b, n))
<1>1. SendGroup \in Nat /\ SendGroup <= Word /\ SendGroup % 8 = 0 BY Params, WordAssumption
<1>2. b.valid \in Nat BY DEF Buffer
<1>3. b.valid + n <= Word BY <1>2, Params, RoomAssumption
<1>4. b.valid + n - SendGroup < SendGroup BY <1>2, Params
<1>5. /\ SendBits(b, n) \in Buffer
      /\ SendBits(b, n).valid = IF b.valid + n >= SendGroup THEN b.valid + n - SendGroup ELSE b.valid + n
      /\ Len(SendBits(b, n).out) + SendBits(b, n).valid = Len(b.out) + b.valid + n
      /\ Len(SendBits(b, n).out) % 8 = 0
      /\ Ordered(b) /\ b.valid + n <= Word => Ordered(SendBits(b, n))
  BY <1>1, Step DEF SendBits
<1> DEFINE c == SendBits(b, n)
           v == b.valid
           w == c.valid
<1>6. w = IF v + n >= SendGroup THEN v + n - SendGroup ELSE v + n BY <1>5
<1>7. v \in Nat /\ SendGroup \in Nat /\ v < SendGroup /\ v + n - SendGroup < SendGroup BY <1>1, <1>2, <1>4
<1> HIDE DEF w, v
<1>8. w < SendGroup /\ w <= v + n BY <1>6, <1>7
<1> USE DEF w, v
<1> HIDE DEF c
<1>9. Ordered(b) => Ordered(c) BY <1>3, <1>5 DEF c
<1> QED BY <1>5, <1>8, <1>9 DEF c

\* biFlush: the residue of a byte stays
LEMMA FlushStep ==
  ASSUME NEW b \in Buffer, b.valid <= Word, Len(b.out) % 8 = 0
  PROVE  /\ BiFlush(b) \in Buffer
         /\ BiFlush(b).valid < 8 /\ BiFlush(b).valid <= b.valid
         /\ Len(BiFlush(b).out) % 8 = 0
         /\ Ordered(b) => Ordered(BiFlush(b))
<1> DEFINE k == 8 * (b.valid \div 8)
<1>1. b.valid \in Nat /\ Len(b.out) \in Nat BY DEF Buffer
<1>2. k \in Nat /\ k <= b.valid /\ b.valid - k < 8 /\ k % 8 = 0 BY <1>1, RoundDown
<1>3. BiFlush(b) = Drain(b, k) BY DEF BiFlush
<1> HIDE DEF k
<1>4. k <= Word BY <1>1, <1>2, Params
<1>5. /\ Drain(b, k) \in Buffer /\ Drain(b, k).valid = b.valid - k
      /\ Len(Drain(b, k).out) = Len(b.out) + k
  BY <1>2, <1>4, DrainType
<1>6. (Len(b.out) + k) % 8 = 0 BY <1>1, <1>2, ModSum
<1>7. Ordered(b) => Ordered(Drain(b, k)) BY <1>2, DrainOrdered
<1>8. Len(Drain(b, k).out) % 8 = 0 BY <1>5, <1>6
<1>9. b.valid - k <= b.valid BY <1>1, <1>2
<1> HIDE DEF BiFlush
<1> QED BY <1>2, <1>3, <1>5, <1>7, <1>8, <1>9

\* flushPending: nothing is pending any more
LEMMA PendingStep ==
  ASSUME NEW b \in Buffer, b.valid <= Word, Len(b.out) % 8 = 0
  PROVE  /\ FlushPending(b) \in Buffer
         /\ FlushPending(b).valid < 8 /\ FlushPending(b).out = <<>>
         /\ Ordered(b) => Ordered(FlushPending(b))
<1> DEFINE d == BiFlush(b)
           f == FlushPending(b)
           L == Len(d.out)
<1>1. d \in Buffer /\ d.valid < 8 /\ (Ordered(b) => Ordered(d)) BY FlushStep
<1>2. f = [buf   |-> [p \in Cells |-> IF d.buf[p] = 0 THEN 0 ELSE d.buf[p] - L],
           valid |-> d.valid, out |-> <<>>]
  BY DEF FlushPending
<1>3. L \in Nat /\ d.valid \in Nat /\ d.buf \in [Cells -> Int] BY <1>1 DEF Buffer
<1>4. Ordered(d) => \A p \in Cells : d.buf[p] = IF p < d.valid THEN L + p + 1 ELSE 0
  BY DEF Ordered
<1> HIDE DEF d, f, L
<1>5. [p \in Cells |-> IF d.buf[p] = 0 THEN 0 ELSE d.buf[p] - L] \in [Cells -> Int]
  BY <1>3
<1>6. f \in Buffer
  <2>1. <<>> \in Seq(Int) OBVIOUS
  <2> QED BY <1>2, <1>3, <1>5, <2>1 DEF Buffer
<1>7. f.valid = d.valid /\ f.out = <<>> /\ Len(f.out) = 0 BY <1>2
<1>8. ASSUME Ordered(d), NEW p \in Cells
      PROVE  f.buf[p] = IF p < f.valid THEN Len(f.out) + p + 1 ELSE 0
  <2>1. f.buf[p] = IF d.buf[p] = 0 THEN 0 ELSE d.buf[p] - L BY <1>2
  <2>2. d.buf[p] = IF p < d.valid THEN L + p + 1 ELSE 0 BY <1>4, <1>8
  <2>3. p \in Nat BY <1>8, Params
  <2> QED BY <1>3, <1>7, <2>1, <2>2, <2>3
<1>9. Ordered(d) => Ordered(f) BY <1>7, <1>8 DEF Ordered
<1> QED BY <1>1, <1>6, <1>7, <1>9 DEF f

\* biWindup: up to a byte boundary, and nothing is left
LEMMA WindupStep ==
  ASSUME NEW b \in Buffer, b.valid <= Word, Len(b.out) % 8 = 0
  PROVE  /\ BiWindup(b) \in Buffer
         /\ BiWindup(b).valid = 0
         /\ Len(BiWindup(b).out) = Len(b.out) + 8 * ((b.valid + 7) \div 8)
         /\ Len(BiWindup(b).out) % 8 = 0
         /\ Ordered(b) => Ordered(BiWindup(b))
<1> DEFINE whole == 8 * ((b.valid + 7) \div 8)
           v == b.valid
           o == Or(b, whole - v)
           d == Drain(o, whole)
           c == BiWindup(b)
<1>1. v \in Nat /\ Len(b.out) \in Nat BY DEF Buffer
<1>2. whole \in Nat /\ v <= whole /\ whole <= Word /\ whole % 8 = 0 BY <1>1, RoundUp
<1>3. c = [d EXCEPT !.buf = Blank, !.valid = 0] BY DEF BiWindup
<1>4. Len(b.out) + whole = Len(b.out) + 8 * ((b.valid + 7) \div 8) OBVIOUS
<1> HIDE DEF whole
<1>5. whole - v \in Nat /\ v + (whole - v) = whole BY <1>1, <1>2
<1> HIDE DEF v
<1>6. o \in Buffer /\ o.valid = v + (whole - v) /\ o.out = b.out BY <1>5, OrType DEF v
<1>7. Ordered(b) => Ordered(o) BY <1>2, <1>5, Params, OrOrdered DEF v
<1>8. o.valid = whole BY <1>5, <1>6
<1> HIDE DEF o
<1>9. d \in Buffer /\ d.valid = 0 /\ Len(d.out) = Len(o.out) + whole
  <2>1. d \in Buffer /\ d.valid = o.valid - whole /\ Len(d.out) = Len(o.out) + whole
    <3>1. whole <= o.valid BY <1>2, <1>8
    <3> HIDE DEF d
    <3> QED BY <1>2, <1>6, <3>1, DrainType DEF d
  <2> QED BY <1>2, <1>8, <2>1
<1>10. Ordered(o) => Ordered(d) BY <1>2, <1>6, <1>8, DrainOrdered
<1> HIDE DEF d, c
<1>11. c.buf = Blank /\ c.valid = 0 /\ c.out = d.out /\ c \in Buffer
  <2>1. Blank \in [Cells -> Int] BY DEF Blank
  <2> QED BY <1>3, <1>9, <2>1 DEF Buffer
<1>12. Ordered(d) => Ordered(c)
  <2>1. \A p \in Cells : c.buf[p] = 0 /\ ~(p < c.valid) BY <1>11, Params DEF Blank
  <2> QED BY <1>11, <2>1 DEF Ordered
<1>13. Len(c.out) = Len(b.out) + whole BY <1>6, <1>9, <1>11
<1>14. Len(c.out) % 8 = 0 BY <1>1, <1>2, <1>13, ModSum
<1> QED BY <1>4, <1>7, <1>10, <1>11, <1>12, <1>13, <1>14 DEF c, whole

\* putShort and copy write behind what is pending, when the word is empty
LEMMA PutStep ==
  ASSUME NEW b \in Buffer, NEW n \in Nat, b.valid = 0, Len(b.out) % 8 = 0
  PROVE  /\ PutBytes(b, n) \in Buffer
         /\ PutBytes(b, n).valid = 0
         /\ Len(PutBytes(b, n).out) = Len(b.out) + 8 * n
         /\ Len(PutBytes(b, n).out) % 8 = 0
         /\ Ordered(b) => Ordered(PutBytes(b, n))
<1> DEFINE L == Len(b.out)
           new == [i \in 1 .. 8 * n |-> L + i]
           c == PutBytes(b, n)
<1>1. L \in Nat /\ b.out \in Seq(Int) /\ b.buf \in [Cells -> Int] BY SMTT(40) DEF Buffer
<1>2. new \in Seq(Int) /\ Len(new) = 8 * n
  <2>1. 8 * n \in Nat /\ \A i \in 1 .. 8 * n : L + i \in Int BY <1>1
  <2> HIDE DEF L
  <2> QED BY <2>1
<1>3. b.out \o new \in Seq(Int) /\ Len(b.out \o new) = L + 8 * n
  <2> HIDE DEF new
  <2> QED BY <1>1, <1>2, Joined
<1>4. c = [b EXCEPT !.out = b.out \o new] BY DEF PutBytes
<1>5. c \in Buffer /\ c.valid = 0 /\ c.buf = b.buf /\ c.out = b.out \o new
  <2> HIDE DEF c, new, L
  <2> QED BY <1>3, <1>4 DEF Buffer
<1>6. (8 * n) % 8 = 0 /\ 8 * n \in Nat OBVIOUS
<1>7. (L + 8 * n) % 8 = 0 BY <1>1, <1>6, ModSum
<1>8. ASSUME Ordered(b) PROVE Ordered(c)
  <2>1. ASSUME NEW i \in 1 .. L + 8 * n PROVE (b.out \o new)[i] = i
    <3> DEFINE N == 8 * n
    <3>1. \A j \in 1 .. N : new[j] = L + j OBVIOUS
    <3>2. \A j \in 1 .. L : b.out[j] = j BY <1>8 DEF Ordered
    <3> HIDE DEF new
    <3>3. N \in Nat /\ i \in 1 .. L + N /\ Len(new) = N
      <4>1. N \in Nat OBVIOUS
      <4>2. Len(new) = N BY <1>2
      <4>3. i \in 1 .. L + N BY <2>1
      <4> QED BY <4>1, <4>2, <4>3
    <3> HIDE DEF N
    <3>4. (b.out \o new)[i] = IF i <= L THEN b.out[i] ELSE new[i - L]
      BY <1>1, <1>2, <3>3, JoinedAt
    <3> HIDE DEF L
    <3>5. CASE i <= L BY <1>1, <3>2, <3>3, <3>4, <3>5
    <3>6. CASE ~(i <= L)
      <4>1. i - L \in 1 .. N /\ L + (i - L) = i BY <1>1, <3>3, <3>6
      <4> QED BY <3>1, <3>4, <3>6, <4>1
    <3> QED BY <3>5, <3>6
  <2>2. \A p \in Cells : c.buf[p] = 0 /\ ~(p < c.valid)
    BY <1>5, <1>8, Params DEF Ordered
  <2> HIDE DEF c, new
  <2>3. \A i \in 1 .. Len(c.out) : c.out[i] = i BY <1>3, <1>5, <2>1
  <2> QED BY <2>2, <2>3 DEF Ordered
<1> QED BY <1>3, <1>5, <1>7, <1>8 DEF c

\* trStoredBlock after a flush
LEMMA StoredStep ==
  ASSUME NEW b \in Buffer, NEW n \in Nat, b.valid < 8, b.out = <<>>
  PROVE  /\ TrStoredBlock(b, n) \in Buffer
         /\ TrStoredBlock(b, n).valid = 0
         /\ Len(TrStoredBlock(b, n).out) = 8 * ((b.valid + 42) \div 8 + n)
         /\ Len(TrStoredBlock(b, n).out) % 8 = 0
         /\ Ordered(b) => Ordered(TrStoredBlock(b, n))
<1> DEFINE v == b.valid
           s == SendBits(b, 3)
           w == BiWindup(s)
<1>1. v \in Nat /\ v < 8 /\ Len(b.out) = 0 BY DEF Buffer
<1>2. 3 <= MaxBits /\ v < SendGroup /\ SendGroup <= Word /\ v + 3 < SendGroup
  BY <1>1, Params
<1>3. s = Or(b, 3) /\ s \in Buffer /\ s.valid = v + 3 /\ s.out = <<>>
  <2>1. Or(b, 3) \in Buffer /\ Or(b, 3).valid = v + 3 /\ Or(b, 3).out = b.out BY OrType
  <2> HIDE DEF v
  <2>2. ~(Or(b, 3).valid >= SendGroup) BY <1>1, <1>2, <2>1, Params
  <2>3. s = Or(b, 3) BY <2>2 DEF SendBits, DrainAt
  <2> HIDE DEF s
  <2>4. s.out = <<>> BY <2>1, <2>3
  <2>5. s.valid = v + 3 BY <2>1, <2>3
  <2>6. s \in Buffer BY <2>1, <2>3
  <2> QED BY <2>3, <2>4, <2>5, <2>6
<1>4. Ordered(b) => Ordered(s)
  <2>1. Len(b.out) % 8 = 0 BY <1>1
  <2>2. b.valid < SendGroup BY <1>2
  <2> HIDE DEF s, v
  <2> QED BY <1>2, <2>1, <2>2, SendStep DEF s
<1> HIDE DEF s, v
<1>5. s.valid <= Word /\ Len(s.out) = 0 /\ Len(s.out) % 8 = 0
  <2>1. Len(s.out) = 0 BY <1>3
  <2>2. s.valid <= Word BY <1>1, <1>2, <1>3, Params
  <2>3. 0 % 8 = 0 OBVIOUS
  <2> QED BY <2>1, <2>2, <2>3
<1>6. /\ w \in Buffer /\ w.valid = 0 /\ Len(w.out) % 8 = 0
      /\ Len(w.out) = Len(s.out) + 8 * ((s.valid + 7) \div 8)
      /\ Ordered(s) => Ordered(w)
  BY <1>3, <1>5, WindupStep
<1>7. TrStoredBlock(b, n) = PutBytes(w, 4 + n) BY DEF TrStoredBlock, s
<1> HIDE DEF w
<1>8. /\ PutBytes(w, 4 + n) \in Buffer /\ PutBytes(w, 4 + n).valid = 0
      /\ Len(PutBytes(w, 4 + n).out) = Len(w.out) + 8 * (4 + n)
      /\ Len(PutBytes(w, 4 + n).out) % 8 = 0
      /\ Ordered(w) => Ordered(PutBytes(w, 4 + n))
  <2>1. 4 + n \in Nat OBVIOUS
  <2> QED BY <1>6, <2>1, PutStep
<1>9. Len(w.out) = 8 * ((v + 10) \div 8)
  <2>1. s.valid + 7 = v + 10 BY <1>1, <1>3
  <2>2. Len(w.out) = 0 + 8 * ((v + 10) \div 8) BY <1>5, <1>6, <2>1
  <2> QED BY <1>1, <2>2
<1>10. 8 * ((v + 10) \div 8) + 8 * (4 + n) = 8 * ((v + 42) \div 8 + n)
  <2>1. (v + 42) \div 8 = (v + 10) \div 8 + 4 BY <1>1
  <2>2. (v + 10) \div 8 \in Int BY <1>1
  <2> QED BY <2>1, <2>2
<1>11. Len(PutBytes(w, 4 + n).out) = 8 * ((v + 42) \div 8 + n) BY <1>8, <1>9, <1>10
<1> QED BY <1>4, <1>6, <1>7, <1>8, <1>11 DEF v

-----------------------------------------------------------------------------
(* The inductive invariant                                                 *)

TypeInv ==
  /\ bits \in Buffer
  /\ phase \in Phases /\ kind \in Kinds /\ last \in BOOLEAN
  /\ sent \in 0 .. SymEnd /\ edge \in BOOLEAN

\* How full the word may be, by what comes next
Fill ==
  /\ bits.valid <= Word
  /\ phase = "between" => bits.valid < 8 /\ bits.out = <<>>
  /\ phase \in {"header", "symbols"} => bits.valid < SendGroup
  /\ phase = "symbols" /\ (sent > 0 \/ kind = "fixed") => bits.valid < BlockGroup
  /\ phase = "distance" =>
       \/ bits.valid < BlockGroup
       \/ bits.valid < SendGroup + MaxBits + LenExtra - BlockGroup
  /\ phase \in {"symbols", "distance"} => kind \in {"fixed", "dynamic"}
  /\ phase = "header" => kind = "dynamic" /\ sent = 0
  /\ Len(bits.out) % 8 = 0

\* All the bits of a fixed block so far: a residue, the type and at most
\* 31 bits for each symbol
FixedVolume ==
  kind = "fixed" =>
    /\ phase = "symbols" => Len(bits.out) + bits.valid <= 10 + 31 * sent
    /\ phase = "distance" => Len(bits.out) + bits.valid <= 10 + 31 * sent - FixedDist

IInv == TypeInv /\ Fill /\ FixedVolume /\ InOrderOffEdge

LEMMA Sizes ==
  /\ FixedLit \in Nat /\ FixedLit <= MaxBits /\ FixedLit <= 31
  /\ FixedLen \in Nat /\ FixedLen <= MaxBits + LenExtra
  /\ FixedDist \in Nat /\ FixedDist <= MaxBits + DistExtra
  /\ FixedLen + FixedDist <= 31
  /\ SymEnd \in Nat /\ LitBufsize \in Nat /\ SymEnd = LitBufsize - 1
BY Params, OverlayAssumption DEF FixedLit, FixedLen, FixedDist, FixedPair, SymEnd

LEMMA BlankBuffer ==
  LET b == [buf |-> Blank, valid |-> 0, out |-> <<>>]
  IN  b \in Buffer /\ b.valid = 0 /\ b.out = <<>> /\ Len(b.out) % 8 = 0 /\ Ordered(b)
<1> DEFINE b == [buf |-> Blank, valid |-> 0, out |-> <<>>]
<1>1. Blank \in [Cells -> Int] /\ \A p \in Cells : Blank[p] = 0 /\ ~(p < 0)
  BY Params DEF Blank
<1>2. <<>> \in Seq(Int) /\ Len(<<>>) = 0 /\ 0 % 8 = 0 OBVIOUS
<1>3. b.buf = Blank /\ b.valid = 0 /\ b.out = <<>> OBVIOUS
<1>4. b \in Buffer BY <1>1, <1>2 DEF Buffer
<1> HIDE DEF b
<1>5. Len(b.out) = 0 BY <1>3
<1>6. Ordered(b) BY <1>1, <1>3, <1>5 DEF Ordered
<1> QED BY <1>2, <1>3, <1>4, <1>5, <1>6 DEF b

LEMMA InvInit == Init => IInv
<1> SUFFICES ASSUME Init PROVE IInv OBVIOUS
<1>1. /\ bits \in Buffer /\ bits.valid = 0 /\ bits.out = <<>> /\ Len(bits.out) % 8 = 0
      /\ Ordered(bits)
  BY BlankBuffer DEF Init
<1>2. TypeInv
  <2>1. phase \in Phases /\ kind \in Kinds BY DEF Init, Phases, Kinds
  <2>2. last \in BOOLEAN /\ edge \in BOOLEAN BY DEF Init
  <2>3. sent \in 0 .. SymEnd BY Sizes DEF Init
  <2> QED BY <1>1, <2>1, <2>2, <2>3 DEF TypeInv
<1>3. Fill BY <1>1, Params DEF Init, Fill
<1>4. FixedVolume BY DEF Init, FixedVolume
<1> QED BY <1>1, <1>2, <1>3, <1>4 DEF IInv, InOrderOffEdge

\* A new stream starts with an empty word
LEMMA TrInitStep == ASSUME IInv, TrInit PROVE IInv'
<1>1. /\ bits' \in Buffer /\ bits'.valid = 0 /\ bits'.out = <<>> /\ Len(bits'.out) % 8 = 0
      /\ Ordered(bits')
  BY BlankBuffer DEF TrInit
<1>2. phase' = "between" /\ kind' = "empty" /\ last' = FALSE /\ sent' = 0 /\ edge' = FALSE
  BY DEF TrInit
<1>3. TypeInv'
  <2>1. phase' \in Phases /\ kind' \in Kinds BY <1>2 DEF Phases, Kinds
  <2>2. last' \in BOOLEAN /\ edge' \in BOOLEAN BY <1>2
  <2>3. sent' \in 0 .. SymEnd BY <1>2, Sizes
  <2> QED BY <1>1, <2>1, <2>2, <2>3 DEF TypeInv
<1>4. Fill' BY <1>1, <1>2, Params DEF Fill
<1>5. FixedVolume' BY <1>2 DEF FixedVolume
<1> QED BY <1>1, <1>3, <1>4, <1>5 DEF IInv, InOrderOffEdge

LEMMA StoredBlockStep ==
  ASSUME IInv, NEW n \in StoredSizes, NEW isLast \in BOOLEAN, StoredBlock(n, isLast)
  PROVE  /\ IInv'
         /\ Len(bits'.out) = 8 * ((bits.valid + 42) \div 8 + n)
         /\ bits'.valid = 0
<1>1. bits \in Buffer /\ bits.valid < 8 /\ bits.out = <<>>
  BY DEF IInv, TypeInv, Fill, StoredBlock
<1>2. n \in Nat BY Params
<1>3. bits' = TrStoredBlock(bits, n) BY DEF StoredBlock
<1>4. /\ bits' \in Buffer /\ bits'.valid = 0 /\ Len(bits'.out) % 8 = 0
      /\ Len(bits'.out) = 8 * ((bits.valid + 42) \div 8 + n)
      /\ Ordered(bits) => Ordered(bits')
  BY <1>1, <1>2, <1>3, StoredStep
<1>5. phase' = "written" /\ kind' = "stored" /\ last' = isLast /\ sent' = 0 /\ edge' = edge
  BY DEF StoredBlock
<1>6. TypeInv' BY <1>4, <1>5, Sizes DEF TypeInv, Phases, Kinds, IInv
<1>7. Fill' BY <1>4, <1>5, Params DEF Fill
<1>8. FixedVolume' BY <1>5 DEF FixedVolume
<1> QED BY <1>4, <1>5, <1>6, <1>7, <1>8 DEF IInv, InOrderOffEdge

\* Two values and a byte flush
LEMMA TrAlignStep == ASSUME IInv, TrAlign PROVE IInv'
<1> DEFINE s == SendBits(bits, 3)
           t == SendBits(s, 7)
<1>1. bits \in Buffer /\ bits.valid < 8 /\ Len(bits.out) % 8 = 0 /\ bits.valid \in Nat
  BY DEF IInv, TypeInv, Fill, TrAlign, Buffer
<1>2. bits.valid < SendGroup /\ 3 <= MaxBits /\ 7 <= MaxBits BY <1>1, Params
<1>3. /\ s \in Buffer /\ s.valid < SendGroup /\ Len(s.out) % 8 = 0
      /\ Ordered(bits) => Ordered(s)
  BY <1>1, <1>2, SendStep
<1> HIDE DEF s
<1>4. /\ t \in Buffer /\ t.valid < SendGroup /\ Len(t.out) % 8 = 0
      /\ Ordered(s) => Ordered(t)
  BY <1>2, <1>3, SendStep
<1> HIDE DEF t
<1>5. t.valid \in Nat /\ t.valid <= Word BY <1>4, Params DEF Buffer
<1>6. bits' = BiFlush(t) BY DEF TrAlign, s, t
<1>7. /\ bits' \in Buffer /\ bits'.valid < 8 /\ Len(bits'.out) % 8 = 0
      /\ Ordered(t) => Ordered(bits')
  BY <1>4, <1>5, <1>6, FlushStep
<1>8. phase' = "written" /\ kind' = "empty" /\ last' = last /\ sent' = 0 /\ edge' = edge
  BY DEF TrAlign
<1>9. TypeInv' BY <1>7, <1>8, Sizes DEF TypeInv, Phases, Kinds, IInv
<1>10. Fill'
  <2>1. bits'.valid <= Word BY <1>7, Params DEF Buffer
  <2> QED BY <1>7, <1>8, <2>1 DEF Fill
<1>11. FixedVolume' BY <1>8 DEF FixedVolume
<1> QED BY <1>3, <1>4, <1>7, <1>8, <1>9, <1>10, <1>11 DEF IInv, InOrderOffEdge

LEMMA FixedBlockStep ==
  ASSUME IInv, NEW isLast \in BOOLEAN, FixedBlock(isLast) PROVE IInv'
<1>1. bits \in Buffer /\ bits.valid < 8 /\ bits.out = <<>> /\ bits.valid \in Nat
      /\ Len(bits.out) % 8 = 0
  BY DEF IInv, TypeInv, Fill, FixedBlock, Buffer
<1>2. bits.valid < SendGroup /\ 3 <= MaxBits /\ Len(bits.out) = 0 BY <1>1, Params
<1>3. bits' = SendBits(bits, 3) BY DEF FixedBlock
<1>4. /\ bits' \in Buffer /\ bits'.valid < SendGroup /\ bits'.valid <= bits.valid + 3
      /\ Len(bits'.out) + bits'.valid = Len(bits.out) + bits.valid + 3
      /\ Len(bits'.out) % 8 = 0
      /\ Ordered(bits) => Ordered(bits')
  <2> DEFINE s == SendBits(bits, 3)
  <2> DEFINE v == bits.valid
  <2>1. 3 \in Nat /\ v < SendGroup BY <1>2
  <2> HIDE DEF s
  <2>2. /\ s \in Buffer /\ s.valid < SendGroup /\ s.valid <= v + 3
        /\ Len(s.out) + s.valid = Len(bits.out) + v + 3
        /\ Len(s.out) % 8 = 0
        /\ Ordered(bits) => Ordered(s)
    BY <1>1, <1>2, <2>1, SendStep DEF s
  <2> QED BY <1>3, <2>2 DEF s
<1>5. /\ phase' = "symbols" /\ kind' = "fixed" /\ last' = isLast /\ sent' = 0
      /\ edge' = edge
  BY DEF FixedBlock
<1>6. bits'.valid \in Nat BY <1>4 DEF Buffer
<1>7. bits'.valid <= 10 /\ Len(bits'.out) + bits'.valid <= 10
  BY <1>1, <1>2, <1>4, <1>6
<1>8. bits'.valid <= Word /\ bits'.valid < BlockGroup BY <1>6, <1>7, Params
<1>9. TypeInv' BY <1>4, <1>5, Sizes DEF TypeInv, Phases, Kinds, IInv
<1>10. Fill' BY <1>4, <1>5, <1>8 DEF Fill
<1>11. FixedVolume' BY <1>5, <1>7 DEF FixedVolume
<1> QED BY <1>4, <1>5, <1>9, <1>10, <1>11 DEF IInv, InOrderOffEdge

LEMMA DynamicBlockStep ==
  ASSUME IInv, NEW isLast \in BOOLEAN, DynamicBlock(isLast) PROVE IInv'
<1> DEFINE s == SendBits(bits, 3)
           t == SendBits(s, 5)
           u == SendBits(t, 5)
           w == SendBits(u, 4)
<1>1. bits \in Buffer /\ bits.valid < 8 /\ bits.valid \in Nat /\ Len(bits.out) % 8 = 0
  BY DEF IInv, TypeInv, Fill, DynamicBlock, Buffer
<1>2. bits.valid < SendGroup /\ 3 <= MaxBits /\ 4 <= MaxBits /\ 5 <= MaxBits BY <1>1, Params
<1>3. /\ s \in Buffer /\ s.valid < SendGroup /\ Len(s.out) % 8 = 0
      /\ Ordered(bits) => Ordered(s)
  BY <1>1, <1>2, SendStep
<1> HIDE DEF s
<1>4. /\ t \in Buffer /\ t.valid < SendGroup /\ Len(t.out) % 8 = 0
      /\ Ordered(s) => Ordered(t)
  BY <1>2, <1>3, SendStep
<1> HIDE DEF t
<1>5. /\ u \in Buffer /\ u.valid < SendGroup /\ Len(u.out) % 8 = 0
      /\ Ordered(t) => Ordered(u)
  BY <1>2, <1>4, SendStep
<1> HIDE DEF u
<1>6. /\ w \in Buffer /\ w.valid < SendGroup /\ Len(w.out) % 8 = 0
      /\ Ordered(u) => Ordered(w)
  BY <1>2, <1>5, SendStep
<1> HIDE DEF w
<1>7. bits' = w BY DEF DynamicBlock, s, t, u, w
<1>8. /\ phase' = "header" /\ kind' = "dynamic" /\ last' = isLast /\ sent' = 0
      /\ edge' = edge
  BY DEF DynamicBlock
<1>9. w.valid <= Word BY <1>6, Params DEF Buffer
<1>10. TypeInv' BY <1>6, <1>7, <1>8, Sizes DEF TypeInv, Phases, Kinds, IInv
<1>11. Fill' BY <1>6, <1>7, <1>8, <1>9 DEF Fill
<1>12. FixedVolume' BY <1>8 DEF FixedVolume
<1> QED BY <1>3, <1>4, <1>5, <1>6, <1>7, <1>8, <1>10, <1>11, <1>12 DEF IInv, InOrderOffEdge

LEMMA SendTreesStep ==
  ASSUME IInv, NEW n \in TreeSends, SendTrees(n) PROVE IInv'
<1> DEFINE s == SendBits(bits, n)
<1>1. bits \in Buffer /\ bits.valid < SendGroup /\ Len(bits.out) % 8 = 0
  BY DEF IInv, TypeInv, Fill, SendTrees
<1>2. n \in Nat /\ n <= MaxBits BY Params
<1>3. /\ s \in Buffer /\ s.valid < SendGroup /\ Len(s.out) % 8 = 0
      /\ Ordered(bits) => Ordered(s)
  BY <1>1, <1>2, SendStep
<1> HIDE DEF s
<1>4. bits' = s /\ phase = "header" /\ UNCHANGED <<phase, kind, last, sent, edge>>
  BY DEF SendTrees, s
<1>5. s.valid <= Word BY <1>3, Params DEF Buffer
<1>6. TypeInv' BY <1>3, <1>4 DEF TypeInv, IInv
<1>7. Fill' BY <1>3, <1>4, <1>5 DEF Fill, IInv
<1>8. FixedVolume' BY <1>4 DEF FixedVolume
<1> QED BY <1>3, <1>4, <1>6, <1>7, <1>8 DEF IInv, InOrderOffEdge

LEMMA TreesSentStep ==
  ASSUME IInv, TreesSent PROVE IInv'
<1>1. phase = "header" /\ phase' = "symbols" /\ UNCHANGED <<bits, kind, last, sent, edge>>
  BY DEF TreesSent
<1>2. TypeInv' BY <1>1 DEF TypeInv, IInv, Phases
<1>3. kind = "dynamic" /\ sent = 0 /\ bits.valid <= Word /\ bits.valid < SendGroup
      /\ Len(bits.out) % 8 = 0
  BY <1>1 DEF Fill, IInv
<1>4. Fill'
  <2>1. ~(sent' > 0 \/ kind' = "fixed") BY <1>1, <1>3
  <2>2. kind' = "dynamic" /\ bits' = bits BY <1>1, <1>3
  <2> QED BY <1>1, <1>3, <2>1, <2>2 DEF Fill
<1>5. FixedVolume' BY <1>1, <1>3 DEF FixedVolume
<1> QED BY <1>1, <1>2, <1>4, <1>5 DEF IInv, InOrderOffEdge

\* What one guarded drain of compressBlock does to the state
LEMMA BlockStep ==
  ASSUME IInv, NEW n \in Nat, bits' = DrainAt(Or(bits, n), BlockGroup)
  PROVE  /\ bits' \in Buffer
         /\ bits'.valid = IF bits.valid + n >= BlockGroup
                          THEN bits.valid + n - BlockGroup ELSE bits.valid + n
         /\ Len(bits'.out) + bits'.valid = Len(bits.out) + bits.valid + n
         /\ Len(bits'.out) % 8 = 0
         /\ Ordered(bits) /\ bits.valid + n <= Word => Ordered(bits')
<1> DEFINE c == DrainAt(Or(bits, n), BlockGroup)
           v == bits.valid
<1>1. bits \in Buffer /\ Len(bits.out) % 8 = 0 BY DEF IInv, TypeInv, Fill
<1>2. BlockGroup \in Nat /\ BlockGroup <= Word /\ BlockGroup % 8 = 0
  BY Params, WordAssumption
<1>3. /\ c \in Buffer
      /\ c.valid = IF v + n >= BlockGroup THEN v + n - BlockGroup ELSE v + n
      /\ Len(c.out) + c.valid = Len(bits.out) + v + n
      /\ Len(c.out) % 8 = 0
      /\ Ordered(bits) /\ v + n <= Word => Ordered(c)
  BY <1>1, <1>2, Step
<1>4. bits' = c OBVIOUS
<1> HIDE DEF c
<1> QED BY <1>3, <1>4

LEMMA LiteralStep ==
  ASSUME IInv, NEW n \in 1 .. MaxBits, Literal(n) PROVE IInv'
<1> DEFINE v == bits.valid
           w == bits'.valid
           m == Len(bits.out)
           k == Len(bits'.out)
<1>1. /\ phase = "symbols" /\ sent < SymEnd /\ n <= (IF kind = "fixed" THEN FixedLit ELSE MaxBits)
      /\ bits' = DrainAt(Or(bits, n), BlockGroup) /\ sent' = sent + 1
      /\ UNCHANGED <<phase, kind, last, edge>>
  BY DEF Literal
<1>2. n \in Nat /\ n <= MaxBits BY Params
<1>3. /\ bits' \in Buffer /\ k % 8 = 0
      /\ w = IF v + n >= BlockGroup THEN v + n - BlockGroup ELSE v + n
      /\ k + w = m + v + n
      /\ Ordered(bits) /\ v + n <= Word => Ordered(bits')
  BY <1>1, <1>2, BlockStep
<1>4. v \in Nat /\ w \in Nat /\ m \in Nat /\ k \in Nat /\ v < SendGroup /\ sent \in Nat
      /\ kind \in {"fixed", "dynamic"}
  <2>1. bits \in Buffer /\ sent \in 0 .. SymEnd /\ v < SendGroup /\ kind \in {"fixed", "dynamic"}
    BY <1>1 DEF IInv, TypeInv, Fill
  <2>2. v \in Nat /\ m \in Nat BY <2>1 DEF Buffer
  <2>3. w \in Nat /\ k \in Nat BY SMTT(40), <1>3 DEF Buffer
  <2>4. sent \in Nat BY <2>1, Sizes
  <2> QED BY <2>1, <2>2, <2>3, <2>4
<1>5. kind = "fixed" => m + v <= 10 + 31 * sent BY <1>1 DEF IInv, FixedVolume
<1> HIDE DEF v, w, m, k
<1>6. v + n <= Word /\ w < BlockGroup
  BY <1>2, <1>3, <1>4, Params, RoomAssumption
<1>7. w <= Word /\ w < SendGroup BY <1>4, <1>6, Params
<1>8. TypeInv' BY <1>1, <1>3, <1>4, Sizes DEF TypeInv, IInv
<1>9. Fill' BY <1>1, <1>3, <1>4, <1>6, <1>7 DEF Fill, w, k
<1>10. kind = "fixed" => k + w <= 10 + 31 * (sent + 1)
  BY <1>1, <1>3, <1>4, <1>5, Sizes
<1>11. FixedVolume' BY <1>1, <1>10 DEF FixedVolume, w, k
<1> QED BY <1>1, <1>3, <1>6, <1>8, <1>9, <1>11 DEF IInv, InOrderOffEdge

LEMMA MatchLengthStep ==
  ASSUME IInv, NEW n \in 1 .. MaxBits + LenExtra, MatchLength(n) PROVE IInv'
<1> DEFINE v == bits.valid
           w == bits'.valid
           m == Len(bits.out)
           k == Len(bits'.out)
<1>1. /\ phase = "symbols" /\ sent < SymEnd
      /\ n <= (IF kind = "fixed" THEN FixedLen ELSE MaxBits + LenExtra)
      /\ bits' = DrainAt(Or(bits, n), BlockGroup) /\ sent' = sent + 1
      /\ phase' = "distance" /\ edge' = (edge \/ Edge(n))
      /\ UNCHANGED <<kind, last>>
  BY DEF MatchLength
<1>2. n \in Nat /\ n <= MaxBits + LenExtra BY Params
<1>3. /\ bits' \in Buffer /\ k % 8 = 0
      /\ w = IF v + n >= BlockGroup THEN v + n - BlockGroup ELSE v + n
      /\ k + w = m + v + n
      /\ Ordered(bits) /\ v + n <= Word => Ordered(bits')
  BY <1>1, <1>2, BlockStep
<1>4. v \in Nat /\ w \in Nat /\ m \in Nat /\ k \in Nat /\ v < SendGroup /\ sent \in Nat
      /\ kind \in {"fixed", "dynamic"} /\ (sent > 0 \/ kind = "fixed" => v < BlockGroup)
  BY <1>1, <1>3 DEF IInv, TypeInv, Fill, Buffer
<1>5. kind = "fixed" => m + v <= 10 + 31 * sent BY <1>1 DEF IInv, FixedVolume
<1>6. Edge(n) <=> kind = "dynamic" /\ sent = 0 /\ v + n > Word BY DEF Edge
<1> HIDE DEF v, w, m, k
<1>7. ~Edge(n) => v + n <= Word
  <2>1. CASE kind = "dynamic" /\ sent = 0 BY <1>2, <1>4, <1>6, <2>1, Params
  <2>2. CASE sent > 0 \/ kind = "fixed"
    BY <1>2, <1>4, <2>2, Params, RoomAssumption
  <2> QED BY <1>4, <2>1, <2>2
<1>8. w < BlockGroup \/ w < SendGroup + MaxBits + LenExtra - BlockGroup
  BY <1>2, <1>3, <1>4, Params
<1>9. w <= Word BY <1>4, <1>8, Params, RoomAssumption
<1>10. TypeInv'
  <2>1. edge' \in BOOLEAN BY <1>1 DEF Edge, IInv, TypeInv
  <2> QED BY <1>1, <1>3, <1>4, <2>1, Sizes DEF TypeInv, IInv, Phases
<1>11. Fill' BY <1>1, <1>3, <1>4, <1>8, <1>9 DEF Fill, w, k
<1>12. kind = "fixed" => k + w <= 10 + 31 * (sent + 1) - FixedDist
  BY <1>1, <1>3, <1>4, <1>5, Sizes
<1>13. FixedVolume' BY <1>1, <1>12 DEF FixedVolume, w, k
<1>14. InOrderOffEdge' BY <1>1, <1>3, <1>7 DEF InOrderOffEdge, IInv
<1> QED BY <1>10, <1>11, <1>13, <1>14 DEF IInv

LEMMA MatchDistanceStep ==
  ASSUME IInv, NEW n \in 1 .. MaxBits + DistExtra, MatchDistance(n) PROVE IInv'
<1> DEFINE v == bits.valid
           w == bits'.valid
           m == Len(bits.out)
           k == Len(bits'.out)
<1>1. /\ phase = "distance"
      /\ n <= (IF kind = "fixed" THEN FixedDist ELSE MaxBits + DistExtra)
      /\ bits' = DrainAt(Or(bits, n), BlockGroup)
      /\ phase' = "symbols" /\ UNCHANGED <<kind, last, sent, edge>>
  BY DEF MatchDistance
<1>2. n \in Nat /\ n <= MaxBits + DistExtra BY Params
<1>3. /\ bits' \in Buffer /\ k % 8 = 0
      /\ w = IF v + n >= BlockGroup THEN v + n - BlockGroup ELSE v + n
      /\ k + w = m + v + n
      /\ Ordered(bits) /\ v + n <= Word => Ordered(bits')
  BY <1>1, <1>2, BlockStep
<1>4. /\ v \in Nat /\ w \in Nat /\ m \in Nat /\ k \in Nat /\ sent \in Nat
      /\ v < BlockGroup \/ v < SendGroup + MaxBits + LenExtra - BlockGroup
      /\ kind \in {"fixed", "dynamic"}
  BY <1>1, <1>3 DEF IInv, TypeInv, Fill, Buffer
<1>5. kind = "fixed" => m + v <= 10 + 31 * sent - FixedDist BY <1>1 DEF IInv, FixedVolume
<1> HIDE DEF v, w, m, k
<1>6. v + n <= Word BY <1>2, <1>4, Params, RoomAssumption
<1>7. w < BlockGroup BY <1>2, <1>3, <1>4, Params, RoomAssumption
<1>8. w <= Word /\ w < SendGroup BY <1>4, <1>7, Params
<1>9. TypeInv' BY <1>1, <1>3 DEF TypeInv, IInv, Phases
<1>10. Fill' BY <1>1, <1>3, <1>4, <1>7, <1>8 DEF Fill, w, k
<1>11. kind = "fixed" => k + w <= 10 + 31 * sent BY <1>1, <1>3, <1>4, <1>5, Sizes
<1>12. FixedVolume' BY <1>1, <1>11 DEF FixedVolume, w, k
<1> QED BY <1>1, <1>3, <1>6, <1>9, <1>10, <1>12 DEF IInv, InOrderOffEdge

LEMMA EndBlockStep ==
  ASSUME IInv, NEW n \in 1 .. MaxBits, EndBlock(n) PROVE IInv'
<1> DEFINE o == Or(bits, n)
           v == bits.valid
<1>1. /\ phase = "symbols" /\ phase' = "written" /\ UNCHANGED <<kind, last, sent, edge>>
      /\ bits' = IF last THEN BiWindup(o) ELSE o
  BY DEF EndBlock
<1>2. bits \in Buffer /\ v \in Nat /\ v < SendGroup /\ Len(bits.out) % 8 = 0
  BY <1>1 DEF IInv, TypeInv, Fill, Buffer
<1>3. n \in Nat /\ v + n <= Word BY <1>2, Params, RoomAssumption
<1>4. o \in Buffer /\ o.valid = v + n /\ o.out = bits.out BY <1>2, <1>3, OrType
<1>5. Ordered(bits) => Ordered(o) BY <1>2, <1>3, OrOrdered
<1> HIDE DEF o
<1>6. o.valid <= Word /\ Len(o.out) % 8 = 0 BY <1>2, <1>3, <1>4
<1>7. /\ BiWindup(o) \in Buffer /\ BiWindup(o).valid = 0 /\ Len(BiWindup(o).out) % 8 = 0
      /\ Ordered(o) => Ordered(BiWindup(o))
  BY <1>4, <1>6, WindupStep
<1>8. /\ bits' \in Buffer /\ bits'.valid <= Word /\ Len(bits'.out) % 8 = 0
      /\ Ordered(bits) => Ordered(bits')
  <2>1. CASE last
    <3>1. bits' = BiWindup(o) BY <1>1, <2>1
    <3>2. 0 <= Word BY Params
    <3> QED BY <1>5, <1>7, <3>1, <3>2
  <2>2. CASE ~last BY <1>1, <1>4, <1>5, <1>6, <2>2
  <2> QED BY <2>1, <2>2
<1>9. TypeInv' BY <1>1, <1>8 DEF TypeInv, IInv, Phases
<1>10. Fill' BY <1>1, <1>8 DEF Fill
<1>11. FixedVolume' BY <1>1 DEF FixedVolume
<1> QED BY <1>1, <1>8, <1>9, <1>10, <1>11 DEF IInv, InOrderOffEdge

LEMMA FlushStepInv == ASSUME IInv, Flush PROVE IInv'
<1> DEFINE f == FlushPending(bits)
<1>1. bits' = f /\ phase' = "between" /\ UNCHANGED <<kind, last, sent, edge>> BY DEF Flush
<1>2. bits \in Buffer /\ bits.valid <= Word /\ Len(bits.out) % 8 = 0
  BY DEF IInv, TypeInv, Fill
<1>3. f \in Buffer /\ f.valid < 8 /\ f.out = <<>> /\ (Ordered(bits) => Ordered(f))
  BY <1>2, PendingStep
<1> HIDE DEF f
<1>4. f.valid <= Word /\ Len(f.out) % 8 = 0
  <2>1. Len(f.out) = 0 /\ 0 % 8 = 0 BY <1>3
  <2> QED BY <1>3, <2>1, Params DEF Buffer
<1>5. TypeInv' BY <1>1, <1>3 DEF TypeInv, IInv, Phases
<1>6. Fill' BY <1>1, <1>3, <1>4 DEF Fill
<1>7. FixedVolume' BY <1>1 DEF FixedVolume
<1> QED BY <1>1, <1>3, <1>5, <1>6, <1>7 DEF IInv, InOrderOffEdge

LEMMA InvNext == IInv /\ [Next]_vars => IInv'
<1> SUFFICES ASSUME IInv, [Next]_vars PROVE IInv' OBVIOUS
<1>1. CASE TrInit BY <1>1, TrInitStep
<1>2. CASE \E n \in StoredSizes, isLast \in BOOLEAN : StoredBlock(n, isLast)
  BY <1>2, StoredBlockStep
<1>3. CASE TrAlign BY <1>3, TrAlignStep
<1>4. CASE \E isLast \in BOOLEAN : FixedBlock(isLast) \/ DynamicBlock(isLast)
  BY <1>4, FixedBlockStep, DynamicBlockStep
<1>5. CASE \E n \in TreeSends : SendTrees(n) BY <1>5, SendTreesStep
<1>6. CASE TreesSent BY <1>6, TreesSentStep
<1>7. CASE \E n \in 1 .. MaxBits : Literal(n) BY <1>7, LiteralStep
<1>8. CASE \E n \in 1 .. MaxBits + LenExtra : MatchLength(n) BY <1>8, MatchLengthStep
<1>9. CASE \E n \in 1 .. MaxBits + DistExtra : MatchDistance(n) BY <1>9, MatchDistanceStep
<1>10. CASE \E n \in 1 .. MaxBits : EndBlock(n) BY <1>10, EndBlockStep
<1>11. CASE Flush BY <1>11, FlushStepInv
<1>12. CASE UNCHANGED vars
  BY <1>12 DEF vars, IInv, TypeInv, Fill, FixedVolume, InOrderOffEdge
<1> QED BY <1>1, <1>2, <1>3, <1>4, <1>5, <1>6, <1>7, <1>8, <1>9, <1>10, <1>11, <1>12 DEF Next

LEMMA InvAlways == Spec => []IInv
BY InvInit, InvNext, PTL DEF Spec

-----------------------------------------------------------------------------

\* The accumulator, the pending buffer and the progress of a block have their
\* types: biValid never leaves the word.
THEOREM BitsTyped == Spec => []TypeOK
<1>1. IInv => TypeOK
  BY Params DEF IInv, TypeInv, Fill, Buffer, TypeOK
<1> QED BY <1>1, InvAlways, PTL

\* Off the edge no bit is lost, displaced or overwritten by sendBits,
\* compressBlock, biFlush, biWindup or flushPending.
THEOREM BitsInOrder == Spec => []InOrderOffEdge
<1>1. IInv => InOrderOffEdge BY DEF IInv
<1> QED BY <1>1, InvAlways, PTL

\* sendBits finds biValid below the size of its group whenever it is called.
THEOREM SendsFit == Spec => []SendFits
<1>1. IInv => SendFits
  BY Params DEF IInv, TypeInv, Fill, Buffer, SendFits
<1> QED BY <1>1, InvAlways, PTL

\* Whole bytes are pending, and a flush leaves less than one behind.
THEOREM BytesWhole == Spec => []WholeBytes
<1>1. IInv => WholeBytes BY DEF IInv, Fill, WholeBytes
<1> QED BY <1>1, InvAlways, PTL

\* deflateStored's count of header bytes is what trStoredBlock writes.
THEOREM HeaderBytesCounted == Spec => StoredHeaderBytes
<1> DEFINE Counted ==
      \A n \in StoredSizes, isLast \in BOOLEAN : StoredBlock(n, isLast) =>
        /\ Len(bits'.out) = 8 * ((bits.valid + 42) \div 8 + n)
        /\ bits'.valid = 0
<1>1. IInv => Counted BY StoredBlockStep
<1>2. IInv /\ [Next]_vars => [Counted]_vars BY <1>1
<1> QED BY <1>2, InvAlways, PTL DEF Spec, StoredHeaderBytes

\* In the gziplowmem layout the output of a fixed block stays behind the symbols
\* that are still to be read, whatever the capacity of the buffer.
THEOREM OverlayHolds == Spec => []OverlaySafe
<1>1. IInv => OverlaySafe
  <2> SUFFICES ASSUME IInv, kind = "fixed", phase \in {"symbols", "distance"}
               PROVE  Len(bits.out) <= 8 * (LitBufsize + 3 * sent)
    BY DEF OverlaySafe
  <2> DEFINE m == Len(bits.out)
             v == bits.valid
  <2>1. m \in Nat /\ v \in Nat /\ sent \in 0 .. SymEnd /\ m % 8 = 0
    BY DEF IInv, TypeInv, Buffer, Fill
  <2>2. m + v <= 10 + 31 * sent BY <2>1, Sizes DEF IInv, FixedVolume
  <2> HIDE DEF m, v
  <2>3. m <= 10 + 31 * sent /\ sent <= LitBufsize - 1 /\ 3 <= LitBufsize
    BY <2>1, <2>2, Sizes, OverlayAssumption
  <2>4. m <= 8 * (LitBufsize + 3 * sent) BY <2>1, <2>3, Sizes
  <2> QED BY <2>4 DEF m
<1> QED BY <1>1, InvAlways, PTL
=============================================================================
