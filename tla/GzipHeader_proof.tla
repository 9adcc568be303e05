--------------------------- MODULE GzipHeader_proof ---------------------------
(***************************************************************************)
(* The header of a Writer, for any number of Writers, any fields and any   *)
(* size of a byte: GzipHeader refines GzipWriter, so that what is proved   *)
(* there holds here; no data follows a header that could not be written;   *)
(* and a reader finds the fields as they were set.                         *)
(***************************************************************************)
EXTENDS GzipHeader, GzipWriter_proof, SequenceTheorems

HeaderSet == [comment : Seq(Nat), extra : {Nil} \cup Seq(0 .. Base - 1), modTime : Int,
              name : Seq(Nat), os : Nat, mtime : 0 .. Size32 - 1]
PartSet   == [bad : BOOLEAN, bytes : Seq(Nat)]

\* b is what the first k of these writes make, one after the other
Gathered(todo, k, b) ==
  \E upto \in [0 .. k -> Seq(Nat)] :
    /\ upto[0] = <<>> /\ upto[k] = b
    /\ \A i \in 1 .. k : ~todo[i].bad /\ upto[i] = upto[i - 1] \o todo[i].bytes

\* The header has been sent completely, or has failed
Whole(w)   == Gathered(Parts(asked[w]), Len(Parts(asked[w])), head[w])
Refused(w) == pc[w] = "idle" /\ err[w] # "none" /\ st[w] = None /\ sink[w] = <<Torn>>

HeaderTyped ==
  /\ fields \in [Writers -> HeaderSet] /\ asked \in [Writers -> HeaderSet]
  /\ head \in [Writers -> Seq(Nat)] /\ parts \in [Writers -> Nat]

\* How far the header of a Writer is
Progress(w) ==
  /\ ~wroteHeader[w] => parts[w] = 0 /\ head[w] = <<>> /\ fields[w] = asked[w]
  /\ pc[w] = "header" => /\ fields[w] = asked[w] /\ parts[w] < Len(Parts(asked[w]))
                         /\ Gathered(Parts(asked[w]), parts[w], head[w])
  /\ wroteHeader[w] /\ pc[w] # "header" => Whole(w) \/ Refused(w)

HeaderInv == HeaderTyped /\ \A w \in Writers : Progress(w)

-----------------------------------------------------------------------------
(* GzipHeader refines GzipWriter                                           *)

LEMMA HeaderStepRefines == [HeaderNext]_<<vars, headerVars>> => [Next]_vars
<1>1. ASSUME NEW w \in Writers, NEW h, Assign(w, h) \/ SetHeader(w, h) PROVE UNCHANGED vars
  BY <1>1 DEF Assign, SetHeader, Set
<1>2. ASSUME NEW w \in Writers, ResetHeader(w) \/ Calls(w) PROVE WriterCall(w)
  BY <1>2 DEF ResetHeader, Calls, WriterCall
<1>3. ASSUME NEW w \in Writers, HeaderStep(w) PROVE WriterStep(w) \/ UNCHANGED vars
  <2>1. CASE Steps(w)
    BY <2>1 DEF Steps, WriterStep
  <2>2. CASE SendPart(w)
    BY <2>2 DEF SendPart, WriterStep
  <2> QED BY <1>3, <2>1, <2>2 DEF HeaderStep
<1>4. HeaderNext => Next \/ UNCHANGED vars
  BY <1>1, <1>2, <1>3 DEF HeaderNext, Next
<1>5. UNCHANGED <<vars, headerVars>> => UNCHANGED vars
  OBVIOUS
<1> QED BY <1>4, <1>5

\* Setting fields changes nothing of the Writer, the writes of a header are together
\* one step of GzipWriter, and everything else is a step of it (gzip.go:84-129, 240-291).
THEOREM HeaderRefines == HeaderSpec => Init /\ [][Next]_vars
BY HeaderStepRefines, PTL DEF HeaderSpec, HeaderInit

\* What holds of every Writer holds of one whose header is spelled out
LEMMA WriterInvariants == HeaderSpec => [](IInv /\ LifeInv /\ SinkInv)
<1>1. Init => IInv /\ LifeInv /\ SinkInv
  BY InitIInv, InitLife, InitSink
<1>2. IInv /\ LifeInv /\ SinkInv /\ [Next]_vars => (IInv /\ LifeInv /\ SinkInv)'
  BY NextIInv, NextLife, NextSink
<1> QED BY <1>1, <1>2, HeaderRefines, PTL

-----------------------------------------------------------------------------
(* Numbers and bytes                                                       *)

LEMMA Sizes ==
  /\ Base \in Nat /\ Base > 1
  /\ Size16 \in Nat /\ Size16 > Base /\ Size16 = Base * Base
  /\ Size32 \in Nat /\ Size32 > Size16 /\ Size32 = Size16 * Size16
<1>1. Base \in Nat /\ Base > 1
  BY HeaderAssumption
<1>2. Size16 \in Nat /\ Size16 > Base
  BY <1>1 DEF Size16
<1>3. Size16 > 1
  BY <1>1, <1>2
<1>4. Size32 \in Nat /\ Size32 > Size16
  BY <1>2, <1>3 DEF Size32
<1> QED BY <1>1, <1>2, <1>4 DEF Size16, Size32

\* Quotient and remainder are the only ones
LEMMA Digits ==
  ASSUME NEW n \in Nat, NEW m \in Nat, m > 0
  PROVE  n = m * (n \div m) + (n % m) /\ n \div m \in Nat /\ n % m \in 0 .. m - 1
<1>1. n \div m \in Nat
  OBVIOUS
<1>2. n % m \in 0 .. m - 1
  OBVIOUS
<1>3. n = m * (n \div m) + (n % m)
  BY <1>1, <1>2
<1> QED BY <1>1, <1>2, <1>3

LEMMA DigitsUnique ==
  ASSUME NEW m \in Nat, m > 0, NEW q \in Nat, NEW r \in 0 .. m - 1
  PROVE  (m * q + r) \div m = q /\ (m * q + r) % m = r
OBVIOUS

LEMMA LessByDigits ==
  ASSUME NEW m \in Nat, m > 0, NEW k \in Nat, NEW n \in Nat, n < m * k
  PROVE  n \div m \in 0 .. k - 1
OBVIOUS

LEMMA DigitsCut ==
  ASSUME NEW n \in Nat, NEW m \in Nat, m > 0, NEW k \in Nat, k > 0
  PROVE  (n % (m * k)) % m = n % m /\ (n % (m * k)) \div m = (n \div m) % k
<1> DEFINE M == m * k
           Q == n \div M
           R == n % M
           a == R % m
           c == R \div m
<1>1. M \in Nat /\ M > 0
  OBVIOUS
<1> HIDE DEF M
<1>2. n = M * Q + R /\ Q \in Nat /\ R \in 0 .. M - 1
  BY <1>1, Digits
<1> HIDE DEF Q, R
<1>3. R = m * c + a /\ c \in Nat /\ a \in 0 .. m - 1
  BY <1>1, <1>2, Digits
<1>4. c \in 0 .. k - 1
  BY <1>1, <1>2, LessByDigits DEF M
<1> HIDE DEF a, c
<1> DEFINE x == k * Q + c
<1>5. x \in Nat
  BY <1>2, <1>4
<1>6. M * Q = m * (k * Q)
  BY <1>2 DEF M
<1>7. m * x = m * (k * Q) + m * c
  BY <1>2, <1>3
<1>8. n = m * x + a
  BY <1>1, <1>2, <1>3, <1>5, <1>6, <1>7
<1>9. x % k = c
  BY <1>2, <1>4, DigitsUnique
<1> HIDE DEF x
<1>10. n \div m = x /\ n % m = a
  BY <1>3, <1>5, <1>8, DigitsUnique
<1> QED BY <1>9, <1>10 DEF M, R, a, c

LEMMA TwoDigits ==
  ASSUME NEW n \in Nat, NEW m \in Nat, m > 0
  PROVE  (n % m) + m * ((n \div m) % m) = n % (m * m)
<1> DEFINE R == n % (m * m)
<1>1. m * m \in Nat /\ m * m > 0
  OBVIOUS
<1>2. R \in Nat
  BY <1>1, Digits
<1>3. R % m = n % m /\ R \div m = (n \div m) % m
  BY DigitsCut
<1> HIDE DEF R
<1>4. R = m * (R \div m) + (R % m) /\ R \div m \in Nat /\ R % m \in Nat
  BY <1>2, Digits
<1>5. R = m * ((n \div m) % m) + (n % m)
  BY <1>3, <1>4
<1> QED BY <1>3, <1>4, <1>5 DEF R

LEMMA Concat ==
  ASSUME NEW S, NEW s \in Seq(S), NEW t \in Seq(S)
  PROVE  /\ s \o t \in Seq(S) /\ Len(s \o t) = Len(s) + Len(t)
         /\ \A i \in 1 .. Len(s) : (s \o t)[i] = s[i]
         /\ \A i \in Len(s) + 1 .. Len(s) + Len(t) : (s \o t)[i] = t[i - Len(s)]
OBVIOUS

\* The bytes of a number give its last two, or four, bytes
LEMMA Uint16Is ==
  ASSUME NEW n \in Nat
  PROVE  /\ Uint16(n) \in Seq(Nat) /\ Len(Uint16(n)) = 2
         /\ Uint16(n)[1] + Base * Uint16(n)[2] = n % Size16
<1>1. n % Base \in Nat /\ n \div Base \in Nat /\ (n \div Base) % Base \in Nat
  BY Sizes, Digits
<1>2. /\ Uint16(n) \in Seq(Nat) /\ Len(Uint16(n)) = 2
      /\ Uint16(n)[1] = n % Base /\ Uint16(n)[2] = (n \div Base) % Base
  BY <1>1 DEF Uint16
<1>3. (n % Base) + Base * ((n \div Base) % Base) = n % (Base * Base)
  <2>1. Base \in Nat /\ Base > 0
    BY Sizes
  <2> QED BY <2>1, TwoDigits, Zenon
<1> QED BY <1>2, <1>3 DEF Size16

LEMMA Uint32Is ==
  ASSUME NEW n \in Nat
  PROVE  /\ Uint32(n) \in Seq(Nat) /\ Len(Uint32(n)) = 4
         /\ Double(Uint32(n), 1) = n % Size32
<1> DEFINE a == Uint16(n)
           b == Uint16(n \div Size16)
<1>1. n \div Size16 \in Nat
  BY Sizes, Digits
<1>2. a \in Seq(Nat) /\ Len(a) = 2 /\ a[1] + Base * a[2] = n % Size16
  BY Uint16Is
<1>3. b \in Seq(Nat) /\ Len(b) = 2 /\ b[1] + Base * b[2] = (n \div Size16) % Size16
  BY <1>1, Uint16Is
<1>4. Uint32(n) = a \o b
  BY DEF Uint32
<1> HIDE DEF a, b
<1>5. /\ Uint32(n) \in Seq(Nat) /\ Len(Uint32(n)) = 4
      /\ Uint32(n)[1] = a[1] /\ Uint32(n)[2] = a[2] /\ Uint32(n)[3] = b[1] /\ Uint32(n)[4] = b[2]
  <2>1. /\ a \o b \in Seq(Nat) /\ Len(a \o b) = Len(a) + Len(b)
        /\ \A i \in 1 .. Len(a) : (a \o b)[i] = a[i]
        /\ \A i \in Len(a) + 1 .. Len(a) + Len(b) : (a \o b)[i] = b[i - Len(a)]
    <3>1. a \in Seq(Nat) /\ b \in Seq(Nat)
      BY <1>2, <1>3
    <3> QED BY <3>1, Concat
  <2>2. Len(a) = 2 /\ Len(b) = 2
    BY <1>2, <1>3
  <2> QED BY <1>4, <2>1, <2>2
<1>6. (n % Size16) + Size16 * ((n \div Size16) % Size16) = n % (Size16 * Size16)
  <2>1. Size16 \in Nat /\ Size16 > 0
    BY Sizes
  <2> QED BY <2>1, TwoDigits, Zenon
<1>7. Double(Uint32(n), 1) = (a[1] + Base * a[2]) + Size16 * (b[1] + Base * b[2])
  BY <1>5 DEF Double, Word
<1> QED BY <1>2, <1>3, <1>5, <1>6, <1>7 DEF Size32

LEMMA Uint16Cut ==
  ASSUME NEW n \in Nat
  PROVE  Uint16(n % Size16) = Uint16(n)
<1> DEFINE c == (n \div Base) % Base
<1>1. (n % (Base * Base)) % Base = n % Base /\ (n % (Base * Base)) \div Base = c
  <2>1. Base \in Nat /\ Base > 0
    BY Sizes
  <2> QED BY <2>1, DigitsCut, Zenon
<1>2. c \in 0 .. Base - 1
  BY Sizes, Digits
<1> HIDE DEF c
<1>3. c % Base = c
  BY <1>2, Sizes
<1> QED BY <1>1, <1>3 DEF Uint16, c, Size16

LEMMA Uint32Cut ==
  ASSUME NEW n \in Nat
  PROVE  Uint32(n % Size32) = Uint32(n)
<1> DEFINE R == n % (Size16 * Size16)
<1>1. R \in Nat /\ R \div Size16 \in Nat /\ n \div Size16 \in Nat
  <2>1. Size16 * Size16 \in Nat /\ Size16 * Size16 > 0
    BY Sizes
  <2>2. R \in Nat /\ n \div Size16 \in Nat
    BY <2>1, Sizes, Digits
  <2> QED BY <2>2, Sizes, Digits
<1>2. R % Size16 = n % Size16 /\ R \div Size16 = (n \div Size16) % Size16
  <2>1. Size16 \in Nat /\ Size16 > 0
    BY Sizes
  <2> QED BY <2>1, DigitsCut, Zenon
<1> HIDE DEF R
<1>3. Uint16(R) = Uint16(n)
  BY <1>1, <1>2, Uint16Cut
<1>4. Uint16(R \div Size16) = Uint16(n \div Size16)
  BY <1>1, <1>2, Uint16Cut
<1> QED BY <1>3, <1>4 DEF Uint32, R, Size32

-----------------------------------------------------------------------------
(* The writes of a header                                                  *)

Flags(h) == (IF h.extra # Nil THEN flagExtra ELSE 0) + (IF h.name # <<>> THEN flagName ELSE 0)
            + (IF h.comment # <<>> THEN flagComment ELSE 0)

LEMMA MtimeIs == ASSUME NEW h \in HeaderSet PROVE Mtime(h) \in Nat
BY Sizes DEF HeaderSet, Mtime

LEMMA FixedIs ==
  ASSUME NEW h \in HeaderSet
  PROVE  /\ Fixed(h) \in Seq(Nat) /\ Len(Fixed(h)) = 10
         /\ Fixed(h)[4] = Flags(h) /\ Fixed(h)[10] = h.os
         /\ Double(Fixed(h), 5) = Mtime(h) % Size32
<1> DEFINE a == <<31, 139, 8, Flags(h)>>
           t == Uint32(Mtime(h))
           z == <<0, h.os>>
<1>1. Fixed(h) = (a \o t) \o z
  BY DEF Fixed, Flags
<1>2. t \in Seq(Nat) /\ Len(t) = 4 /\ Double(t, 1) = Mtime(h) % Size32
  BY MtimeIs, Uint32Is
<1>3. a \in Seq(Nat) /\ Len(a) = 4 /\ a[4] = Flags(h)
  BY DEF Flags, flagExtra, flagName, flagComment
<1>4. z \in Seq(Nat) /\ Len(z) = 2 /\ z[2] = h.os
  BY DEF HeaderSet
<1> HIDE DEF a, t, z
<1>5. /\ a \o t \in Seq(Nat) /\ Len(a \o t) = 8
      /\ \A i \in 1 .. 4 : (a \o t)[i] = a[i]
      /\ \A i \in 5 .. 8 : (a \o t)[i] = t[i - 4]
  <2>1. a \in Seq(Nat) /\ t \in Seq(Nat) /\ Len(a) = 4 /\ Len(t) = 4
    BY <1>2, <1>3
  <2>2. /\ a \o t \in Seq(Nat) /\ Len(a \o t) = Len(a) + Len(t)
        /\ \A i \in 1 .. Len(a) : (a \o t)[i] = a[i]
        /\ \A i \in Len(a) + 1 .. Len(a) + Len(t) : (a \o t)[i] = t[i - Len(a)]
    BY <2>1, Concat
  <2> QED BY <2>1, <2>2
<1>6. /\ (a \o t) \o z \in Seq(Nat) /\ Len((a \o t) \o z) = 10
      /\ \A i \in 1 .. 8 : ((a \o t) \o z)[i] = (a \o t)[i]
      /\ \A i \in 9 .. 10 : ((a \o t) \o z)[i] = z[i - 8]
  <2> DEFINE u == a \o t
  <2>1. u \in Seq(Nat) /\ z \in Seq(Nat) /\ Len(u) = 8 /\ Len(z) = 2
    BY <1>4, <1>5
  <2> HIDE DEF u
  <2>2. /\ u \o z \in Seq(Nat) /\ Len(u \o z) = Len(u) + Len(z)
        /\ \A i \in 1 .. Len(u) : (u \o z)[i] = u[i]
        /\ \A i \in Len(u) + 1 .. Len(u) + Len(z) : (u \o z)[i] = z[i - Len(u)]
    BY <2>1, Concat
  <2>3. /\ u \o z \in Seq(Nat) /\ Len(u \o z) = 10
        /\ \A i \in 1 .. 8 : (u \o z)[i] = u[i]
        /\ \A i \in 9 .. 10 : (u \o z)[i] = z[i - 8]
    <3>1. Len(u \o z) = 10 /\ Len(u) + 1 = 9 /\ Len(u) + Len(z) = 10
      BY <2>1, <2>2
    <3>2. \A i \in 9 .. 10 : (u \o z)[i] = z[i - Len(u)]
      BY <2>2, <3>1
    <3> QED BY <2>1, <2>2, <3>1, <3>2
  <2> QED BY <2>3 DEF u
<1> DEFINE b == (a \o t) \o z
<1>7. /\ b[4] = a[4] /\ b[10] = z[2]
      /\ b[5] = t[1] /\ b[6] = t[2] /\ b[7] = t[3] /\ b[8] = t[4]
  <2> DEFINE u == a \o t
  <2>1. /\ \A i \in 1 .. 4 : u[i] = a[i]
        /\ \A i \in 5 .. 8 : u[i] = t[i - 4]
    BY <1>5
  <2>2. /\ \A i \in 1 .. 8 : b[i] = u[i]
        /\ \A i \in 9 .. 10 : b[i] = z[i - 8]
    BY <1>6
  <2> HIDE DEF u, b
  <2>3. u[4] = a[4] /\ u[5] = t[1] /\ u[6] = t[2] /\ u[7] = t[3] /\ u[8] = t[4]
    BY <2>1
  <2> QED BY <2>2, <2>3
<1>8. /\ Fixed(h)[4] = a[4] /\ Fixed(h)[10] = z[2]
      /\ Fixed(h)[5] = t[1] /\ Fixed(h)[6] = t[2] /\ Fixed(h)[7] = t[3] /\ Fixed(h)[8] = t[4]
  BY <1>1, <1>7
<1>9. Double(Fixed(h), 5) = Double(t, 1)
  BY <1>8 DEF Double, Word
<1> QED BY <1>1, <1>2, <1>3, <1>4, <1>6, <1>8, <1>9

\* The writes of the three optional fields
ExtraParts(h) == IF h.extra # Nil THEN WriteBytes(h.extra) ELSE <<>>
TextParts(s)  == IF s # <<>> THEN WriteString(s) ELSE <<>>

Good(todo) == \A i \in 1 .. Len(todo) : ~todo[i].bad

LEMMA PartsAre ==
  ASSUME NEW h \in HeaderSet
  PROVE  Parts(h) = ((<<Sends(Fixed(h))>> \o ExtraParts(h)) \o TextParts(h.name)) \o TextParts(h.comment)
BY DEF Parts, ExtraParts, TextParts

LEMMA SendsIs ==
  /\ Invalid \in PartSet /\ Invalid.bad /\ Invalid.bytes = <<>>
  /\ \A b \in Seq(Nat) : Sends(b) \in PartSet /\ ~Sends(b).bad /\ Sends(b).bytes = b
BY DEF Invalid, Sends, PartSet

LEMMA ExtraPartsAre ==
  ASSUME NEW h \in HeaderSet
  PROVE  /\ ExtraParts(h) \in Seq(PartSet)
         /\ Good(ExtraParts(h)) <=> (h.extra # Nil => Len(h.extra) < Size16)
         /\ h.extra = Nil => ExtraParts(h) = <<>>
         /\ h.extra # Nil /\ Len(h.extra) < Size16 =>
              ExtraParts(h) = <<Sends(Uint16(Len(h.extra))), Sends(h.extra)>>
<1>1. CASE h.extra = Nil
  BY <1>1 DEF ExtraParts, Good
<1>2. CASE h.extra # Nil
  <2>1. h.extra \in Seq(Nat) /\ Len(h.extra) \in Nat
    BY <1>2, Sizes DEF HeaderSet
  <2>2. Uint16(Len(h.extra)) \in Seq(Nat)
    BY <2>1, Uint16Is
  <2>3. CASE Len(h.extra) < Size16
    <3> DEFINE x == Sends(Uint16(Len(h.extra)))
               y == Sends(h.extra)
    <3>1. ExtraParts(h) = <<x, y>>
      BY <1>2, <2>1, <2>3, Sizes DEF ExtraParts, WriteBytes
    <3>2. x \in PartSet /\ y \in PartSet /\ ~x.bad /\ ~y.bad
      BY <2>1, <2>2, SendsIs
    <3> HIDE DEF x, y
    <3>3. <<x, y>> \in Seq(PartSet) /\ Good(<<x, y>>)
      BY <3>2 DEF Good
    <3> QED BY <1>2, <2>3, <3>1, <3>3 DEF x, y
  <2>4. CASE ~(Len(h.extra) < Size16)
    <3>1. ExtraParts(h) = <<Invalid>>
      BY <1>2, <2>1, <2>4, Sizes DEF ExtraParts, WriteBytes
    <3>2. <<Invalid>> \in Seq(PartSet) /\ ~Good(<<Invalid>>)
      BY SendsIs DEF Good
    <3> QED BY <1>2, <2>4, <3>1, <3>2
  <2> QED BY <2>3, <2>4
<1> QED BY <1>1, <1>2

Clean(s) == \A c \in Range(s) : c \in 1 .. Base - 1

LEMMA TextPartsAre ==
  ASSUME NEW s \in Seq(Nat)
  PROVE  /\ TextParts(s) \in Seq(PartSet)
         /\ Good(TextParts(s)) <=> Clean(s)
         /\ s = <<>> => TextParts(s) = <<>>
         /\ s # <<>> /\ Clean(s) => TextParts(s) = <<Sends(s), Sends(<<0>>)>>
<1>1. CASE s = <<>>
  <2>1. Range(s) = {}
    BY <1>1 DEF Range
  <2> QED BY <1>1, <2>1 DEF TextParts, Good, Clean
<1>2. CASE s # <<>>
  <2>1. Clean(s) <=> ~(\E i \in DOMAIN s : s[i] = 0 \/ s[i] >= Base)
    <3>1. \A i \in DOMAIN s : s[i] \in 1 .. Base - 1 <=> ~(s[i] = 0 \/ s[i] >= Base)
      BY Sizes
    <3>2. Clean(s) <=> \A i \in DOMAIN s : s[i] \in 1 .. Base - 1
      BY DEF Clean, Range
    <3> QED BY <3>1, <3>2
  <2>2. CASE Clean(s)
    <3>1. [i \in DOMAIN s |-> s[i] % Base] = s
      <4>1. \A i \in DOMAIN s : s[i] \in 1 .. Base - 1
        BY <2>2 DEF Clean, Range
      <4>2. ASSUME NEW i \in DOMAIN s PROVE s[i] % Base = s[i]
        <5> DEFINE c == s[i]
        <5>1. c \in 1 .. Base - 1
          BY <4>1
        <5> HIDE DEF c
        <5>2. c % Base = c
          BY <5>1, Sizes
        <5> QED BY <5>2 DEF c
      <4> QED BY <4>2
    <3>2. TextParts(s) = <<Sends(s), Sends(<<0>>)>>
      BY <1>2, <2>1, <2>2, <3>1 DEF TextParts, WriteString
    <3> DEFINE x == Sends(s)
               y == Sends(<<0>>)
    <3>3. <<0>> \in Seq(Nat)
      OBVIOUS
    <3>4. x \in PartSet /\ y \in PartSet /\ ~x.bad /\ ~y.bad
      BY <3>3, SendsIs
    <3> HIDE DEF x, y
    <3>5. <<x, y>> \in Seq(PartSet) /\ Good(<<x, y>>)
      BY <3>4 DEF Good
    <3> QED BY <1>2, <2>2, <3>2, <3>5 DEF x, y
  <2>3. CASE ~Clean(s)
    <3>1. TextParts(s) = <<Invalid>>
      BY <1>2, <2>1, <2>3 DEF TextParts, WriteString
    <3>2. <<Invalid>> \in Seq(PartSet) /\ ~Good(<<Invalid>>)
      BY SendsIs DEF Good
    <3> QED BY <1>2, <2>3, <3>1, <3>2
  <2> QED BY <2>2, <2>3
<1> QED BY <1>1, <1>2

LEMMA GoodConcat ==
  ASSUME NEW s \in Seq(PartSet), NEW t \in Seq(PartSet)
  PROVE  s \o t \in Seq(PartSet) /\ (Good(s \o t) <=> Good(s) /\ Good(t))
<1>1. /\ s \o t \in Seq(PartSet) /\ Len(s \o t) = Len(s) + Len(t)
      /\ \A i \in 1 .. Len(s) : (s \o t)[i] = s[i]
      /\ \A i \in Len(s) + 1 .. Len(s) + Len(t) : (s \o t)[i] = t[i - Len(s)]
      /\ Len(s) \in Nat /\ Len(t) \in Nat
  BY Concat
<1> DEFINE u == s \o t
           m == Len(s)
           n == Len(t)
<1>2. /\ m \in Nat /\ n \in Nat /\ Len(u) = m + n
      /\ \A i \in 1 .. m : u[i] = s[i]
      /\ \A i \in m + 1 .. m + n : u[i] = t[i - m]
  BY <1>1
<1>3. /\ Good(u) <=> \A i \in 1 .. m + n : ~u[i].bad
      /\ Good(s) <=> \A i \in 1 .. m : ~s[i].bad
      /\ Good(t) <=> \A i \in 1 .. n : ~t[i].bad
  BY <1>2 DEF Good
<1> HIDE DEF u, m, n
<1>4. ASSUME Good(u) PROVE Good(s) /\ Good(t)
  <2>1. ASSUME NEW i \in 1 .. m PROVE ~s[i].bad
    <3>1. i \in 1 .. m + n /\ u[i] = s[i]
      BY <1>2
    <3> QED BY <1>3, <1>4, <3>1
  <2>2. ASSUME NEW i \in 1 .. n PROVE ~t[i].bad
    <3> DEFINE j == m + i
    <3>1. j \in m + 1 .. m + n /\ j \in 1 .. m + n /\ j - m = i
      BY <1>2
    <3> HIDE DEF j
    <3>2. u[j] = t[i]
      BY <1>2, <3>1
    <3> QED BY <1>3, <1>4, <3>1, <3>2
  <2> QED BY <1>3, <2>1, <2>2
<1>5. ASSUME Good(s), Good(t) PROVE Good(u)
  <2>1. ASSUME NEW i \in 1 .. m + n PROVE ~u[i].bad
    <3>1. CASE i \in 1 .. m
      BY <1>2, <1>3, <1>5, <3>1
    <3>2. CASE i \notin 1 .. m
      <4>1. i \in m + 1 .. m + n /\ i - m \in 1 .. n
        BY <1>2, <3>2
      <4> QED BY <1>2, <1>3, <1>5, <4>1
    <3> QED BY <3>1, <3>2
  <2> QED BY <1>3, <2>1
<1> QED BY <1>1, <1>4, <1>5 DEF u

\* A header has an invalid write exactly if it cannot be encoded
LEMMA PartsTyped ==
  ASSUME NEW h \in HeaderSet
  PROVE  /\ Parts(h) \in Seq(PartSet) /\ Len(Parts(h)) \in Nat \ {0}
         /\ Good(Parts(h)) <=> Encodable(h)
<1> DEFINE f == <<Sends(Fixed(h))>>
           x == ExtraParts(h)
           n == TextParts(h.name)
           c == TextParts(h.comment)
<1>1. f \in Seq(PartSet) /\ Good(f) /\ Len(f) = 1
  <2>1. Sends(Fixed(h)) \in PartSet /\ ~Sends(Fixed(h)).bad
    BY FixedIs, SendsIs
  <2> QED BY <2>1 DEF Good
<1>2. x \in Seq(PartSet) /\ (Good(x) <=> (h.extra # Nil => Len(h.extra) < Size16))
  BY ExtraPartsAre
<1>3. n \in Seq(PartSet) /\ (Good(n) <=> Clean(h.name))
  BY TextPartsAre DEF HeaderSet
<1>4. c \in Seq(PartSet) /\ (Good(c) <=> Clean(h.comment))
  BY TextPartsAre DEF HeaderSet
<1>5. Parts(h) = ((f \o x) \o n) \o c
  BY PartsAre
<1>6. Encodable(h) <=> (h.extra # Nil => Len(h.extra) < Size16) /\ Clean(h.name) /\ Clean(h.comment)
  BY DEF Encodable, Clean
<1> HIDE DEF f, x, n, c
<1>7. f \o x \in Seq(PartSet) /\ (Good(f \o x) <=> Good(x)) /\ Len(f \o x) = 1 + Len(x)
  <2>1. Len(f \o x) = Len(f) + Len(x)
    BY <1>1, <1>2, Concat
  <2> QED BY <1>1, <1>2, <2>1, GoodConcat
<1>8. (f \o x) \o n \in Seq(PartSet) /\ (Good((f \o x) \o n) <=> Good(x) /\ Good(n))
      /\ Len((f \o x) \o n) = 1 + Len(x) + Len(n)
  <2>1. Len((f \o x) \o n) = Len(f \o x) + Len(n)
    BY <1>3, <1>7, Concat
  <2> QED BY <1>3, <1>7, <2>1, GoodConcat
<1>9. /\ ((f \o x) \o n) \o c \in Seq(PartSet)
      /\ Good(((f \o x) \o n) \o c) <=> Good(x) /\ Good(n) /\ Good(c)
      /\ Len(((f \o x) \o n) \o c) = 1 + Len(x) + Len(n) + Len(c)
  <2>1. Len(((f \o x) \o n) \o c) = Len((f \o x) \o n) + Len(c)
    BY <1>4, <1>8, Concat
  <2> QED BY <1>4, <1>8, <2>1, GoodConcat
<1>10. Len(x) \in Nat /\ Len(n) \in Nat /\ Len(c) \in Nat
  BY <1>2, <1>3, <1>4
<1> QED BY <1>2, <1>3, <1>4, <1>5, <1>6, <1>9, <1>10

-----------------------------------------------------------------------------
(* Writes one after the other                                              *)

LEMMA GatheredNone == ASSUME NEW todo PROVE Gathered(todo, 0, <<>>)
<1>1. <<>> \in Seq(Nat)
  OBVIOUS
<1> DEFINE upto == [i \in 0 .. 0 |-> <<>>]
<1>2. upto \in [0 .. 0 -> Seq(Nat)] /\ upto[0] = <<>>
  BY <1>1
<1>3. \A i \in 1 .. 0 : FALSE
  OBVIOUS
<1> HIDE DEF upto
<1> QED BY <1>2, <1>3 DEF Gathered

LEMMA GatheredNext ==
  ASSUME NEW todo \in Seq(PartSet), NEW k \in Nat, k < Len(todo), NEW b \in Seq(Nat),
         Gathered(todo, k, b), ~todo[k + 1].bad
  PROVE  Gathered(todo, k + 1, b \o todo[k + 1].bytes)
<1> DEFINE p == todo[k + 1].bytes
           c == b \o p
<1>1. PICK upto \in [0 .. k -> Seq(Nat)] :
        /\ upto[0] = <<>> /\ upto[k] = b
        /\ \A i \in 1 .. k : ~todo[i].bad /\ upto[i] = upto[i - 1] \o todo[i].bytes
  BY DEF Gathered
<1>2. p \in Seq(Nat)
  <2>1. k + 1 \in 1 .. Len(todo)
    OBVIOUS
  <2>2. todo[k + 1] \in PartSet
    BY <2>1
  <2> QED BY <2>2 DEF PartSet
<1>3. c \in Seq(Nat)
  BY <1>2
<1> DEFINE more == [i \in 0 .. k + 1 |-> IF i = k + 1 THEN c ELSE upto[i]]
<1> HIDE DEF c
<1>4. more \in [0 .. k + 1 -> Seq(Nat)]
  BY <1>1, <1>3
<1>5. more[0] = <<>> /\ more[k + 1] = c /\ more[k] = b
  BY <1>1
<1>6. ASSUME NEW i \in 1 .. k + 1 PROVE ~todo[i].bad /\ more[i] = more[i - 1] \o todo[i].bytes
  <2>1. CASE i = k + 1
    <3>1. more[k + 1] = c /\ more[(k + 1) - 1] = b /\ ~todo[k + 1].bad
      BY <1>5
    <3>2. c = b \o todo[k + 1].bytes
      BY DEF c
    <3> HIDE DEF more
    <3> QED BY <2>1, <3>1, <3>2
  <2>2. CASE i # k + 1
    <3>1. i \in 1 .. k /\ i - 1 \in 0 .. k + 1 /\ i - 1 # k + 1
      BY <2>2
    <3>2. more[i] = upto[i] /\ more[i - 1] = upto[i - 1]
      BY <2>2, <3>1
    <3> QED BY <1>1, <3>1, <3>2
  <2> QED BY <2>1, <2>2
<1> HIDE DEF more
<1>7. Gathered(todo, k + 1, c)
  BY <1>4, <1>5, <1>6 DEF Gathered
<1> QED BY <1>7 DEF c

LEMMA GatheredGood ==
  ASSUME NEW todo, NEW k, NEW b, Gathered(todo, k, b)
  PROVE  \A i \in 1 .. k : ~todo[i].bad
BY DEF Gathered

-----------------------------------------------------------------------------
(* How far the header is: every step                                       *)

Mine(v)  == pc'[v] = pc[v] /\ wroteHeader'[v] = wroteHeader[v] /\ err'[v] = err[v]
            /\ st'[v] = st[v] /\ sink'[v] = sink[v]
Bytes(v) == fields'[v] = fields[v] /\ head'[v] = head[v] /\ parts'[v] = parts[v] /\ asked'[v] = asked[v]

LEMMA ProgressFrame ==
  ASSUME NEW v \in Writers, Progress(v), Mine(v), Bytes(v)
  PROVE  Progress(v)'
BY DEF Progress, Mine, Bytes, Whole, Refused

LEMMA Bystander ==
  ASSUME IInv, NEW w \in Writers, NEW v \in Writers, v # w, WriterCall(w) \/ WriterStep(w)
  PROVE  Mine(v)
<1> USE DEF Mine, Goto, Fail, writerVars, Actors
<1>1. /\ st \in [Actors -> States \cup {None}] /\ pc \in [Actors -> WriterLabels \cup CallerLabels]
      /\ wroteHeader \in [Writers -> BOOLEAN] /\ err \in [Writers -> {"none", "sink", "deflater"}]
      /\ sink \in [Writers -> Seq(Items)]
  BY DEF IInv, TypeOK
<1>2. CloseDeflater(w) => st'[v] = st[v]
  BY CloseDeflaterOthers
<1>3. ASSUME NEW n \in 0 .. MaxWrite, Write(w, n) \/ Flush(w) \/ Close(w) PROVE Mine(v)
  BY <1>1, <1>3 DEF Write, Flush, Close, Begin
<1>4. CASE CloseFailed(w) \/ Reset(w)
  BY <1>1, <1>2, <1>4 DEF CloseFailed, Reset
<1>5. CASE WriteHeader(w) \/ WriteTrailer(w)
  BY <1>1, <1>5 DEF WriteHeader, WriteTrailer
<1>6. CASE InitDeflater(w)
  BY <1>1, <1>6 DEF InitDeflater
<1>7. CASE Enter(w) \/ Acquire(w) \/ Compress(w)
  BY <1>1, <1>7 DEF Enter, Acquire, Compress
<1>8. CASE Emit(w)
  BY <1>1, <1>8 DEF Emit
<1>9. CASE Release(w)
  BY <1>1, <1>2, <1>9 DEF Release
<1> HIDE DEF Mine, Goto, Fail, writerVars, Actors
<1>10. CASE WriterCall(w)
  BY <1>3, <1>4, <1>10, BoundAssumption DEF WriterCall
<1>11. CASE WriterStep(w)
  BY <1>5, <1>6, <1>7, <1>8, <1>9, <1>11 DEF WriterStep
<1> QED BY <1>10, <1>11

LEMMA DefaultTyped == Default \in HeaderSet
<1>1. <<>> \in Seq(Nat) /\ 0 \in 0 .. Size32 - 1
  BY Sizes
<1> QED BY <1>1 DEF Default, HeaderSet

LEMMA InitHeader == HeaderInit => HeaderInv
<1> SUFFICES ASSUME HeaderInit PROVE HeaderInv
  OBVIOUS
<1>1. HeaderTyped
  BY DefaultTyped DEF HeaderInit, HeaderTyped
<1>2. ASSUME NEW w \in Writers PROVE Progress(w)
  BY ActorAssumption DEF HeaderInit, Init, Progress, Actors
<1> QED BY <1>1, <1>2 DEF HeaderInv

\* Setting fields
LEMMA SetProgress ==
  ASSUME IInv, HeaderInv, NEW w \in Writers, NEW h \in HeaderSet, NEW wanted \in HeaderSet, Set(w, h, wanted),
         fields[w] = asked[w] => h = wanted
  PROVE  HeaderInv'
<1>1. /\ pc[w] = "idle" /\ fields' = [fields EXCEPT ![w] = h]
      /\ asked' = IF wroteHeader[w] THEN asked ELSE [asked EXCEPT ![w] = wanted]
      /\ UNCHANGED <<head, parts>> /\ UNCHANGED <<pc, wroteHeader, err, st, sink>>
  BY DEF Set, vars
<1>2. HeaderTyped'
  BY <1>1 DEF HeaderInv, HeaderTyped
<1>3. fields'[w] = h /\ (~wroteHeader[w] => asked'[w] = wanted) /\ (wroteHeader[w] => asked'[w] = asked[w])
  BY <1>1 DEF HeaderInv, HeaderTyped
<1>4. Progress(w)'
  BY <1>1, <1>3 DEF HeaderInv, Progress, Whole, Refused
<1>5. ASSUME NEW v \in Writers, v # w PROVE Progress(v)'
  <2>1. Mine(v) /\ Bytes(v)
    BY <1>1, <1>5 DEF Mine, Bytes, HeaderInv, HeaderTyped
  <2> QED BY <2>1, ProgressFrame DEF HeaderInv
<1> QED BY <1>2, <1>4, <1>5 DEF HeaderInv

LEMMA AssignProgress ==
  ASSUME IInv, HeaderInv, NEW w \in Writers, NEW h \in Headers, Assign(w, h)
  PROVE  HeaderInv'
<1>1. h \in HeaderSet
  BY HeaderAssumption DEF HeaderSet
<1> QED BY <1>1, SetProgress DEF Assign

LEMMA StdHeaderIs ==
  ASSUME NEW old \in HeaderSet, NEW h
  PROVE  WithStdHeader(old, h) =
           [comment |-> h.comment, extra |-> h.extra, modTime |-> h.modTime, name |-> h.name,
            os |-> h.os, mtime |-> old.mtime]
<1>1. ASSUME NEW a, NEW b, NEW c, NEW d, NEW e, NEW f
      PROVE  WithStdHeader([comment |-> a, extra |-> b, modTime |-> c, name |-> d, os |-> e, mtime |-> f], h)
               = [comment |-> h.comment, extra |-> h.extra, modTime |-> h.modTime, name |-> h.name,
                  os |-> h.os, mtime |-> f]
  <2> DEFINE r(u, v, x, y, z) == [comment |-> u, extra |-> v, modTime |-> x, name |-> y, os |-> z, mtime |-> f]
  <2>1. \A u, v, x, y, z : /\ [r(u, v, x, y, z) EXCEPT !.comment = h.comment] = r(h.comment, v, x, y, z)
                           /\ [r(u, v, x, y, z) EXCEPT !.extra = h.extra] = r(u, h.extra, x, y, z)
    OBVIOUS
  <2>2. \A u, v, x, y, z : /\ [r(u, v, x, y, z) EXCEPT !.modTime = h.modTime] = r(u, v, h.modTime, y, z)
                           /\ [r(u, v, x, y, z) EXCEPT !.name = h.name] = r(u, v, x, h.name, z)
    OBVIOUS
  <2>3. \A u, v, x, y, z : [r(u, v, x, y, z) EXCEPT !.os = h.os] = r(u, v, x, y, h.os)
    OBVIOUS
  <2> DEFINE s1 == [r(a, b, c, d, e) EXCEPT !.comment = h.comment]
             s2 == [s1 EXCEPT !.extra = h.extra]
             s3 == [s2 EXCEPT !.modTime = h.modTime]
             s4 == [s3 EXCEPT !.name = h.name]
             s5 == [s4 EXCEPT !.os = h.os]
  <2>4. WithStdHeader(r(a, b, c, d, e), h) = s5
    BY DEF WithStdHeader
  <2> HIDE DEF r
  <2>5. s1 = r(h.comment, b, c, d, e)
    BY <2>1
  <2> HIDE DEF s1
  <2>6. s2 = r(h.comment, h.extra, c, d, e)
    BY <2>1, <2>5
  <2> HIDE DEF s2
  <2>7. s3 = r(h.comment, h.extra, h.modTime, d, e)
    BY <2>2, <2>6
  <2> HIDE DEF s3
  <2>8. s4 = r(h.comment, h.extra, h.modTime, h.name, e)
    BY <2>2, <2>7
  <2> HIDE DEF s4
  <2>9. s5 = r(h.comment, h.extra, h.modTime, h.name, h.os)
    BY <2>3, <2>8
  <2> HIDE DEF s5
  <2>10. WithStdHeader(r(a, b, c, d, e), h) = r(h.comment, h.extra, h.modTime, h.name, h.os)
    BY <2>4, <2>9
  <2> QED BY <2>10 DEF r
<1>2. PICK a, b, c, d, e, f :
        old = [comment |-> a, extra |-> b, modTime |-> c, name |-> d, os |-> e, mtime |-> f]
  <2>1. old = [comment |-> old.comment, extra |-> old.extra, modTime |-> old.modTime,
               name |-> old.name, os |-> old.os, mtime |-> old.mtime]
    BY DEF HeaderSet
  <2> QED BY <2>1, Zenon
<1>3. old.mtime = f
  BY <1>2
<1>4. WithStdHeader([comment |-> a, extra |-> b, modTime |-> c, name |-> d, os |-> e, mtime |-> f], h)
        = [comment |-> h.comment, extra |-> h.extra, modTime |-> h.modTime, name |-> h.name,
           os |-> h.os, mtime |-> f]
  BY <1>1
<1> QED BY <1>2, <1>3, <1>4

LEMMA SetHeaderProgress ==
  ASSUME IInv, HeaderInv, NEW w \in Writers, NEW h \in StdHeaders, SetHeader(w, h)
  PROVE  HeaderInv'
<1> DEFINE old == fields[w]
           want == asked[w]
           new == WithStdHeader(old, h)
           wanted == [f \in DOMAIN Default |-> IF f = "mtime" THEN want.mtime ELSE h[f]]
<1>1. old \in HeaderSet /\ want \in HeaderSet
  BY DEF HeaderInv, HeaderTyped
<1>2. h \in [comment : Seq(Nat), extra : {Nil} \cup Seq(0 .. Base - 1), modTime : Int,
             name : Seq(Nat), os : Nat]
  BY HeaderAssumption
<1>3. Set(w, new, wanted)
  BY DEF SetHeader
<1> HIDE DEF old, want
<1>4. new = [comment |-> h.comment, extra |-> h.extra, modTime |-> h.modTime, name |-> h.name,
             os |-> h.os, mtime |-> old.mtime]
  BY <1>1, StdHeaderIs
<1>5. wanted = [comment |-> h.comment, extra |-> h.extra, modTime |-> h.modTime, name |-> h.name,
                os |-> h.os, mtime |-> want.mtime]
  BY DEF Default
<1>6. new \in HeaderSet
  BY <1>1, <1>2, <1>4 DEF HeaderSet
<1>7. wanted \in HeaderSet
  BY <1>1, <1>2, <1>5 DEF HeaderSet
<1>8. old = want => new = wanted
  BY <1>4, <1>5
<1> HIDE DEF new, wanted
<1>9. fields[w] = asked[w] => new = wanted
  BY <1>8 DEF old, want
<1> QED BY <1>3, <1>6, <1>7, <1>9, SetProgress

LEMMA ResetProgress ==
  ASSUME IInv, HeaderInv, NEW w \in Writers, ResetHeader(w)
  PROVE  HeaderInv'
<1>1. /\ fields' = [fields EXCEPT ![w] = Default] /\ head' = [head EXCEPT ![w] = <<>>]
      /\ parts' = [parts EXCEPT ![w] = 0] /\ asked' = [asked EXCEPT ![w] = Default] /\ Reset(w)
  BY DEF ResetHeader, ResetFields
<1>2. <<>> \in Seq(Nat) /\ Default \in HeaderSet
  BY DefaultTyped
<1>3. HeaderTyped'
  BY <1>1, <1>2 DEF HeaderInv, HeaderTyped
<1>4. ~wroteHeader'[w] /\ pc'[w] = "idle"
  BY <1>1 DEF Reset, IInv, TypeOK
<1>5. Progress(w)'
  BY <1>1, <1>4 DEF HeaderInv, HeaderTyped, Progress
<1>6. ASSUME NEW v \in Writers, v # w PROVE Progress(v)'
  <2>1. Mine(v)
    BY <1>1, <1>6, Bystander DEF WriterCall
  <2>2. Bytes(v)
    BY <1>1, <1>6 DEF Bytes, HeaderInv, HeaderTyped
  <2> QED BY <2>1, <2>2, ProgressFrame DEF HeaderInv
<1> QED BY <1>3, <1>5, <1>6 DEF HeaderInv

\* Calls, and the steps behind the header
LEMMA CallsProgress ==
  ASSUME IInv, LifeInv, HeaderInv, NEW w \in Writers, Calls(w)
  PROVE  HeaderInv'
<1>1. UNCHANGED headerVars /\ WriterCall(w)
  BY DEF Calls, WriterCall
<1>2. HeaderTyped' /\ \A v \in Writers : Bytes(v)
  BY <1>1 DEF headerVars, HeaderInv, HeaderTyped, Bytes
<1>3. pc[w] = "idle" /\ w \in Actors
  BY DEF Calls, Write, Flush, Close, Usable, CloseFailed, Actors
<1>4. Progress(w)'
  <2>1. ASSUME NEW n \in 0 .. MaxWrite, Write(w, n) \/ Flush(w) \/ Close(w) PROVE Progress(w)'
    <3>1. /\ err[w] = "none" /\ wroteHeader'[w]
          /\ pc'[w] = IF wroteHeader[w] THEN "enter" ELSE "header"
      BY <1>3, <2>1 DEF Write, Flush, Close, Usable, Begin, Goto, IInv, TypeOK
    <3>2. CASE wroteHeader[w]
      <4>1. Whole(w)
        BY <1>3, <3>1, <3>2 DEF HeaderInv, Progress, Refused
      <4> QED BY <1>2, <3>1, <3>2, <4>1 DEF Progress, Whole, Bytes
    <3>3. CASE ~wroteHeader[w]
      <4>1. parts[w] = 0 /\ head[w] = <<>> /\ fields[w] = asked[w]
        BY <3>3 DEF HeaderInv, Progress
      <4>2. 0 < Len(Parts(asked[w])) /\ Gathered(Parts(asked[w]), 0, <<>>)
        BY PartsTyped, GatheredNone DEF HeaderInv, HeaderTyped
      <4> QED BY <1>2, <3>1, <3>3, <4>1, <4>2 DEF Progress, Bytes
    <3> QED BY <3>2, <3>3
  <2>2. CASE CloseFailed(w)
    <3>1. UNCHANGED <<pc, wroteHeader, err, sink>> /\ err[w] # "none" /\ CloseDeflater(w)
      BY <2>2 DEF CloseFailed
    <3>2. st'[w] = None \/ st'[w] = st[w]
      BY <1>3, <3>1 DEF CloseDeflater, IInv, TypeOK
    <3> QED BY <1>2, <1>3, <3>1, <3>2 DEF HeaderInv, Progress, Whole, Refused, Bytes
  <2> QED BY <2>1, <2>2, BoundAssumption DEF Calls
<1>5. ASSUME NEW v \in Writers, v # w PROVE Progress(v)'
  BY <1>1, <1>2, <1>5, Bystander, ProgressFrame DEF HeaderInv
<1> QED BY <1>2, <1>4, <1>5 DEF HeaderInv

LEMMA StepsProgress ==
  ASSUME IInv, LifeInv, HeaderInv, NEW w \in Writers, Steps(w)
  PROVE  HeaderInv'
<1>1. UNCHANGED headerVars /\ WriterStep(w)
  BY DEF Steps, WriterStep
<1>2. HeaderTyped' /\ \A v \in Writers : Bytes(v)
  BY <1>1 DEF headerVars, HeaderInv, HeaderTyped, Bytes
<1>3. pc[w] \notin {"idle", "header"} /\ w \in Actors
  BY DEF Steps, InitDeflater, Enter, Acquire, Compress, Emit, Release, WriteTrailer, Actors
<1>4. wroteHeader[w]
  BY <1>3 DEF LifeInv, Life
<1>5. Whole(w)
  BY <1>3, <1>4 DEF HeaderInv, Progress, Refused
<1>6. wroteHeader'[w] = wroteHeader[w]
  BY DEF Steps, InitDeflater, Enter, Acquire, Compress, Emit, Release, WriteTrailer, writerVars
<1>7. pc'[w] # "header"
  <2>1. pc \in [Actors -> WriterLabels \cup CallerLabels]
    BY DEF IInv, TypeOK
  <2>2. CASE InitDeflater(w) \/ Enter(w) \/ Acquire(w) \/ Compress(w)
    BY <1>3, <2>1, <2>2 DEF InitDeflater, Enter, Acquire, Compress, Goto, Fail
  <2>3. CASE Emit(w) \/ Release(w) \/ WriteTrailer(w)
    BY <1>3, <2>1, <2>3 DEF Emit, Release, WriteTrailer, Goto, Fail
  <2> QED BY <2>2, <2>3 DEF Steps
<1>8. Progress(w)'
  BY <1>2, <1>4, <1>5, <1>6, <1>7 DEF Progress, Whole, Bytes
<1>9. ASSUME NEW v \in Writers, v # w PROVE Progress(v)'
  BY <1>1, <1>2, <1>9, Bystander, ProgressFrame DEF HeaderInv
<1> QED BY <1>2, <1>8, <1>9 DEF HeaderInv

\* One write of the header
LEMMA SendPartProgress ==
  ASSUME IInv, LifeInv, SinkInv, HeaderInv, NEW w \in Writers, SendPart(w)
  PROVE  HeaderInv'
<1> DEFINE todo == Parts(asked[w])
           k == parts[w]
           part == todo[k + 1]
           b == head[w]
<1>1. /\ pc[w] = "header" /\ w \in Actors /\ err[w] = "none" /\ wroteHeader[w] /\ st[w] = None
      /\ sink[w] = <<>>
  <2>1. pc[w] = "header" /\ w \in Actors /\ err[w] = "none" /\ wroteHeader[w] /\ st[w] = None
    BY DEF SendPart, LifeInv, Life, Empty, Actors
  <2>2. Len(sink[w]) < HeaderWrites /\ sink[w] \in Seq(Items)
    BY <2>1 DEF SinkInv, Told, IInv, TypeOK
  <2>3. sink[w] = <<>>
    BY <2>2, HeaderAssumption
  <2> QED BY <2>1, <2>3
<1>2. /\ todo \in Seq(PartSet) /\ k \in Nat /\ b \in Seq(Nat) /\ k < Len(todo)
      /\ fields[w] = asked[w] /\ Gathered(todo, k, b)
  BY <1>1, PartsTyped DEF HeaderInv, HeaderTyped, Progress
<1>3. fields' = fields /\ asked' = asked
  BY DEF SendPart
<1>4. part \in PartSet
  <2>1. k + 1 \in 1 .. Len(todo)
    BY <1>2
  <2> QED BY <1>2, <2>1
<1>5. b \o part.bytes \in Seq(Nat)
  BY <1>2, <1>4 DEF PartSet
<1>6. \A v \in Writers : v # w => Mine(v)
  <2>1. ASSUME NEW v \in Writers, v # w, WriteHeader(w) PROVE Mine(v)
    BY <2>1, Bystander DEF WriterStep
  <2>2. WriteHeader(w) \/ UNCHANGED vars
    BY DEF SendPart
  <2>3. UNCHANGED vars => \A v \in Writers : Mine(v)
    BY DEF vars, Mine
  <2> QED BY <2>1, <2>2, <2>3
<1>7. \/ /\ ~part.bad /\ head' = [head EXCEPT ![w] = b \o part.bytes] /\ parts' = [parts EXCEPT ![w] = k + 1]
         /\ IF k + 1 = Len(todo) THEN WriteHeader(w) /\ err'[w] = "none" ELSE UNCHANGED vars
      \/ WriteHeader(w) /\ err'[w] # "none" /\ UNCHANGED <<head, parts>>
  BY <1>2 DEF SendPart
<1>8. HeaderTyped' /\ \A v \in Writers : v # w => Bytes(v)
  <2>1. /\ fields \in [Writers -> HeaderSet] /\ asked \in [Writers -> HeaderSet]
        /\ head \in [Writers -> Seq(Nat)] /\ parts \in [Writers -> Nat]
    BY DEF HeaderInv, HeaderTyped
  <2> DEFINE c == b \o part.bytes
             n == k + 1
  <2>2. c \in Seq(Nat) /\ n \in Nat
    BY <1>2, <1>5
  <2>3. \/ head' = [head EXCEPT ![w] = c] /\ parts' = [parts EXCEPT ![w] = n]
        \/ head' = head /\ parts' = parts
    BY <1>7
  <2> HIDE DEF c, n
  <2> QED BY <1>3, <2>1, <2>2, <2>3 DEF HeaderTyped, Bytes
<1>9. WriteHeader(w) => /\ wroteHeader' = wroteHeader /\ st' = st
                        /\ err'[w] = "none" => pc'[w] = "init"
                        /\ err'[w] # "none" => sink'[w] = <<Torn>> /\ pc'[w] = "idle"
  <2>1. /\ pc \in [Actors -> WriterLabels \cup CallerLabels] /\ err \in [Writers -> {"none", "sink", "deflater"}]
        /\ sink \in [Writers -> Seq(Items)]
    BY DEF IInv, TypeOK
  <2>2. Len(sink[w]) + 1 = HeaderWrites /\ Append(sink[w], Torn) = <<Torn>>
    BY <1>1, HeaderAssumption
  <2> QED BY <1>1, <2>1, <2>2 DEF WriteHeader, Goto, Fail
<1>10. Progress(w)'
  <2>1. asked'[w] = asked[w] /\ fields'[w] = asked[w]
    BY <1>2, <1>3
  <2>2. CASE WriteHeader(w) /\ err'[w] # "none" /\ UNCHANGED <<head, parts>>
    BY <1>1, <1>9, <2>1, <2>2 DEF Progress, Refused
  <2>3. CASE /\ ~part.bad /\ head' = [head EXCEPT ![w] = b \o part.bytes] /\ parts' = [parts EXCEPT ![w] = k + 1]
             /\ IF k + 1 = Len(todo) THEN WriteHeader(w) /\ err'[w] = "none" ELSE UNCHANGED vars
    <3>1. head'[w] = b \o part.bytes /\ parts'[w] = k + 1
      BY <2>3 DEF HeaderInv, HeaderTyped
    <3>2. Gathered(todo, k + 1, b \o part.bytes)
      BY <1>2, <2>3, GatheredNext
    <3> DEFINE c == b \o part.bytes
               n == k + 1
    <3>3. head'[w] = c /\ parts'[w] = n /\ Gathered(todo, n, c)
      BY <3>1, <3>2
    <3>4. CASE n = Len(todo)
      <4>1. WriteHeader(w) /\ err'[w] = "none"
        BY <2>3, <3>4
      <4>2. Gathered(Parts(asked'[w]), Len(Parts(asked'[w])), head'[w])
        BY <2>1, <3>3, <3>4
      <4>3. Whole(w)'
        BY <4>2 DEF Whole
      <4> QED BY <1>1, <1>9, <4>1, <4>3 DEF Progress
    <3>5. CASE n # Len(todo)
      <4>1. UNCHANGED vars
        BY <2>3, <3>5
      <4>2. pc'[w] = "header" /\ wroteHeader'[w]
        BY <1>1, <4>1 DEF vars
      <4>3. n < Len(todo)
        BY <1>2, <3>5
      <4> HIDE DEF n, c
      <4> QED BY <2>1, <3>3, <4>2, <4>3 DEF Progress
    <3> QED BY <3>4, <3>5
  <2> QED BY <1>7, <2>2, <2>3
<1>11. ASSUME NEW v \in Writers, v # w PROVE Progress(v)'
  BY <1>6, <1>8, <1>11, ProgressFrame DEF HeaderInv
<1> QED BY <1>8, <1>10, <1>11 DEF HeaderInv

LEMMA NextHeader ==
  ASSUME IInv, LifeInv, SinkInv, HeaderInv, [HeaderNext]_<<vars, headerVars>>
  PROVE  HeaderInv'
<1>1. CASE UNCHANGED <<vars, headerVars>> \/ (Collect /\ UNCHANGED headerVars)
  <2>1. UNCHANGED headerVars /\ (UNCHANGED vars \/ Collect)
    BY <1>1
  <2>2. HeaderTyped' /\ \A v \in Writers : Bytes(v)
    BY <2>1 DEF headerVars, HeaderInv, HeaderTyped, Bytes
  <2>3. UNCHANGED <<pc, wroteHeader, err, st, sink>>
    BY <2>1 DEF vars, Collect, writerVars
  <2>4. \A v \in Writers : Mine(v)
    BY <2>3 DEF Mine
  <2> QED BY <2>2, <2>4, ProgressFrame DEF HeaderInv
<1>2. ASSUME NEW w \in Writers, NEW h \in Headers, Assign(w, h) PROVE HeaderInv'
  BY <1>2, AssignProgress
<1>3. ASSUME NEW w \in Writers, NEW h \in StdHeaders, SetHeader(w, h) PROVE HeaderInv'
  BY <1>3, SetHeaderProgress
<1>4. ASSUME NEW w \in Writers, ResetHeader(w) \/ Calls(w) PROVE HeaderInv'
  BY <1>4, ResetProgress, CallsProgress
<1>5. ASSUME NEW w \in Writers, HeaderStep(w) PROVE HeaderInv'
  BY <1>5, StepsProgress, SendPartProgress DEF HeaderStep
<1> QED BY <1>1, <1>2, <1>3, <1>4, <1>5 DEF HeaderNext

\* What has been sent of a header are its first writes, one after the other, for the
\* fields as they were at the first call, and a header is complete or has failed
\* once data can follow (gzip.go:242-291).
THEOREM HeaderSent == HeaderSpec => [](IInv /\ LifeInv /\ SinkInv /\ HeaderInv)
<1>1. HeaderInit => HeaderInv
  BY InitHeader
<1>2. IInv /\ LifeInv /\ SinkInv /\ HeaderInv /\ [HeaderNext]_<<vars, headerVars>> => HeaderInv'
  BY NextHeader
<1> QED BY <1>1, <1>2, WriterInvariants, PTL DEF HeaderSpec

\* No data follows a header that could not be written, and the Writer stays failed:
\* Extra, Name and Comment are checked when their turn comes, after the fixed part
\* has been sent (gzip.go:90-92, 195-238, 270-289).
THEOREM InvalidStops == HeaderSpec => []InvalidRefused
<1>1. ASSUME IInv, LifeInv, SinkInv, HeaderInv PROVE InvalidRefused
  <2>1. ASSUME NEW w \in Writers, Encodable(asked[w]) PROVE \A i \in DOMAIN Parts(asked[w]) : ~Parts(asked[w])[i].bad
    <3>1. asked[w] \in HeaderSet
      BY <1>1 DEF HeaderInv, HeaderTyped
    <3>2. Parts(asked[w]) \in Seq(PartSet) /\ Good(Parts(asked[w]))
      BY <2>1, <3>1, PartsTyped
    <3> QED BY <3>2 DEF Good
  <2>2. ASSUME NEW w \in Writers, wroteHeader[w], ~Encodable(asked[w])
        PROVE  /\ \A i \in DOMAIN sink[w] : Kind(sink[w][i]) = "torn"
               /\ pc[w] = "idle" => err[w] # "none"
               /\ st[w] = None
    <3>1. asked[w] \in HeaderSet
      BY <1>1 DEF HeaderInv, HeaderTyped
    <3>2. ~Good(Parts(asked[w]))
      BY <2>2, <3>1, PartsTyped
    <3>3. ~Whole(w)
      BY <3>2, GatheredGood DEF Whole, Good
    <3>4. CASE pc[w] = "header"
      <4>1. Len(sink[w]) < HeaderWrites /\ sink[w] \in Seq(Items) /\ st[w] = None
        BY <1>1, <3>4 DEF SinkInv, Told, LifeInv, Life, Empty, IInv, TypeOK
      <4>2. Len(sink[w]) = 0
        BY <4>1, HeaderAssumption
      <4> QED BY <3>4, <4>1, <4>2
    <3>5. CASE pc[w] # "header"
      <4>1. Refused(w)
        BY <1>1, <2>2, <3>3, <3>5 DEF HeaderInv, Progress
      <4>2. Kind(Torn) = "torn"
        BY ItemFields DEF Kind
      <4> QED BY <4>1, <4>2 DEF Refused
    <3> QED BY <3>4, <3>5
  <2> QED BY <2>1, <2>2 DEF InvalidRefused
<1> QED BY <1>1, HeaderSent, PTL

-----------------------------------------------------------------------------
(* The bytes of a header that has been sent                                *)

ExtraBytes(h) == IF h.extra # Nil THEN Uint16(Len(h.extra)) \o h.extra ELSE <<>>
TextBytes(s)  == IF s # <<>> THEN s \o <<0>> ELSE <<>>
\* The writes of a field that is sent: two, or none
Tails         == {t \in Seq(PartSet) : Len(t) \in {0, 2}}
TailBytes(t)  == IF t # <<>> THEN t[1].bytes \o t[2].bytes ELSE <<>>

LEMMA ConcatAssoc ==
  ASSUME NEW s \in Seq(Nat), NEW t \in Seq(Nat), NEW u \in Seq(Nat)
  PROVE  (s \o t) \o u = s \o (t \o u)
OBVIOUS

LEMMA GatheredTail ==
  ASSUME NEW s \in Seq(PartSet), NEW t \in Tails, NEW b \in Seq(Nat), Gathered(s \o t, Len(s \o t), b)
  PROVE  \E c \in Seq(Nat) : Gathered(s, Len(s), c) /\ b = c \o TailBytes(t)
<1>0. t \in Seq(PartSet) /\ Len(t) \in {0, 2}
  BY DEF Tails
<1> DEFINE u == s \o t
           m == Len(s)
           k == Len(u)
<1>1. /\ m \in Nat /\ k = m + Len(t)
      /\ \A i \in 1 .. m : u[i] = s[i]
      /\ \A i \in m + 1 .. m + Len(t) : u[i] = t[i - m]
  <2>1. /\ s \o t \in Seq(PartSet) /\ Len(s \o t) = Len(s) + Len(t)
        /\ \A i \in 1 .. Len(s) : (s \o t)[i] = s[i]
        /\ \A i \in Len(s) + 1 .. Len(s) + Len(t) : (s \o t)[i] = t[i - Len(s)]
    BY <1>0, Concat, Zenon
  <2>2. Len(s) \in Nat
    OBVIOUS
  <2> QED BY <2>1, <2>2
<1>2. PICK upto \in [0 .. k -> Seq(Nat)] :
        /\ upto[0] = <<>> /\ upto[k] = b
        /\ \A i \in 1 .. k : ~u[i].bad /\ upto[i] = upto[i - 1] \o u[i].bytes
  BY DEF Gathered
<1> HIDE DEF u, m, k
<1> DEFINE c == upto[m]
           less == [i \in 0 .. m |-> upto[i]]
<1>3. m \in 0 .. k /\ k \in Nat
  BY <1>1
<1>4. c \in Seq(Nat)
  BY <1>2, <1>3
<1>5. Gathered(s, m, c)
  <2>1. less \in [0 .. m -> Seq(Nat)] /\ less[0] = <<>> /\ less[m] = c
    <3>1. \A i \in 0 .. m : upto[i] \in Seq(Nat)
      BY <1>1, <1>2, <1>3
    <3>2. 0 \in 0 .. m /\ m \in 0 .. m
      BY <1>1
    <3> QED BY <1>2, <3>1, <3>2
  <2>2. ASSUME NEW i \in 1 .. m PROVE ~s[i].bad /\ less[i] = less[i - 1] \o s[i].bytes
    <3>1. i \in 1 .. k /\ i \in 0 .. m /\ i - 1 \in 0 .. m
      BY <1>1, <1>3
    <3>2. less[i] = upto[i] /\ less[i - 1] = upto[i - 1] /\ u[i] = s[i]
      BY <1>1, <3>1
    <3> QED BY <1>2, <3>1, <3>2
  <2> HIDE DEF less, c
  <2> QED BY <2>1, <2>2 DEF Gathered
<1>6. b = c \o TailBytes(t)
  <2>1. CASE Len(t) = 0
    <3>1. t = <<>> /\ k = m
      BY <1>1, <2>1
    <3>2. c \o <<>> = c
      BY <1>4
    <3> QED BY <1>2, <3>1, <3>2 DEF TailBytes
  <2>2. CASE Len(t) = 2
    <3> DEFINE x == t[1].bytes
               y == t[2].bytes
    <3>1. x \in Seq(Nat) /\ y \in Seq(Nat) /\ t # <<>>
      <4>1. 1 \in 1 .. Len(t) /\ 2 \in 1 .. Len(t) /\ t # <<>>
        <5>1. 1 \in 1 .. 2 /\ 2 \in 1 .. 2 /\ Len(<<>>) # 2
          OBVIOUS
        <5> QED BY <2>2, <5>1, Zenon
      <4>2. t[1] \in PartSet /\ t[2] \in PartSet
        BY <1>0, <4>1
      <4>3. \A p \in PartSet : p.bytes \in Seq(Nat)
        BY DEF PartSet
      <4> QED BY <4>1, <4>2, <4>3
    <3>2. k = m + 2 /\ m + 1 \in 1 .. k /\ m + 2 \in 1 .. k
      BY <1>1, <2>2
    <3>3. u[m + 1] = t[1] /\ u[m + 2] = t[2]
      <4>1. m + 1 \in m + 1 .. m + Len(t) /\ m + 2 \in m + 1 .. m + Len(t)
            /\ (m + 1) - m = 1 /\ (m + 2) - m = 2
        BY <1>1, <2>2
      <4> QED BY <1>1, <4>1
    <3>4. upto[m + 1] = upto[(m + 1) - 1] \o x /\ upto[m + 2] = upto[(m + 2) - 1] \o y
      BY <1>2, <3>2, <3>3
    <3>5. (m + 1) - 1 = m /\ (m + 2) - 1 = m + 1
      BY <1>1
    <3>6. b = (c \o x) \o y
      BY <1>2, <3>2, <3>4, <3>5
    <3> HIDE DEF c, x, y
    <3>7. (c \o x) \o y = c \o (x \o y)
      <4>1. c \in Seq(Nat) /\ x \in Seq(Nat) /\ y \in Seq(Nat)
        BY <1>4, <3>1
      <4> QED BY <4>1, ConcatAssoc, Zenon
    <3>8. TailBytes(t) = x \o y
      BY <3>1 DEF TailBytes, x, y
    <3> QED BY <3>6, <3>7, <3>8
  <2> QED BY <1>0, <2>1, <2>2
<1> QED BY <1>4, <1>5, <1>6 DEF m

LEMMA TailsAre ==
  ASSUME NEW h \in HeaderSet, Encodable(h)
  PROVE  /\ ExtraParts(h) \in Tails /\ TailBytes(ExtraParts(h)) = ExtraBytes(h)
         /\ \A s \in {h.name, h.comment} :
              TextParts(s) \in Tails /\ TailBytes(TextParts(s)) = TextBytes(s)
<1>1. ASSUME NEW a \in Seq(Nat), NEW b \in Seq(Nat), NEW t, t = <<Sends(a), Sends(b)>>
      PROVE  t \in Tails /\ TailBytes(t) = a \o b
  <2>1. TailBytes(t) = a \o b
    BY <1>1 DEF TailBytes, Sends
  <2> DEFINE x == Sends(a)
             y == Sends(b)
  <2>2. x \in PartSet /\ y \in PartSet /\ t = <<x, y>>
    BY <1>1, SendsIs
  <2> HIDE DEF x, y
  <2>3. t \in Tails
    BY <2>2 DEF Tails
  <2> QED BY <2>1, <2>3
<1>2. <<>> \in Tails /\ TailBytes(<<>>) = <<>>
  BY DEF TailBytes, Tails
<1>3. ExtraParts(h) \in Tails /\ TailBytes(ExtraParts(h)) = ExtraBytes(h)
  <2>1. CASE h.extra = Nil
    BY <1>2, <2>1, ExtraPartsAre DEF ExtraBytes
  <2>2. CASE h.extra # Nil
    <3>1. h.extra \in Seq(Nat) /\ Uint16(Len(h.extra)) \in Seq(Nat)
      <4>1. h.extra \in Seq(Nat) /\ Len(h.extra) \in Nat
        BY <2>2, Sizes DEF HeaderSet
      <4> QED BY <4>1, Uint16Is
    <3>2. ExtraParts(h) = <<Sends(Uint16(Len(h.extra))), Sends(h.extra)>>
      BY <2>2, ExtraPartsAre DEF Encodable
    <3>3. ExtraParts(h) \in Tails /\ TailBytes(ExtraParts(h)) = Uint16(Len(h.extra)) \o h.extra
      BY <1>1, <3>1, <3>2
    <3> QED BY <2>2, <3>3 DEF ExtraBytes
  <2> QED BY <2>1, <2>2
<1>4. ASSUME NEW s \in Seq(Nat), Clean(s)
      PROVE  TextParts(s) \in Tails /\ TailBytes(TextParts(s)) = TextBytes(s)
  <2>1. CASE s = <<>>
    BY <1>2, <2>1, TextPartsAre DEF TextBytes
  <2>2. CASE s # <<>>
    <3>1. TextParts(s) = <<Sends(s), Sends(<<0>>)>> /\ <<0>> \in Seq(Nat)
      BY <1>4, <2>2, TextPartsAre
    <3>2. TextParts(s) \in Tails /\ TailBytes(TextParts(s)) = s \o <<0>>
      BY <1>1, <3>1
    <3> QED BY <2>2, <3>2 DEF TextBytes
  <2> QED BY <2>1, <2>2
<1>5. h.name \in Seq(Nat) /\ h.comment \in Seq(Nat) /\ Clean(h.name) /\ Clean(h.comment)
  BY DEF HeaderSet, Encodable, Clean
<1> QED BY <1>3, <1>4, <1>5

LEMMA WholeIs ==
  ASSUME NEW h \in HeaderSet, NEW b \in Seq(Nat), Gathered(Parts(h), Len(Parts(h)), b)
  PROVE  /\ Encodable(h)
         /\ b = ((Fixed(h) \o ExtraBytes(h)) \o TextBytes(h.name)) \o TextBytes(h.comment)
<1>1. Encodable(h)
  BY GatheredGood, PartsTyped DEF Good
<1>2. ASSUME NEW s \in Seq(PartSet), NEW t \in Tails, NEW u, u = s \o t,
             NEW d \in Seq(Nat), Gathered(u, Len(u), d)
      PROVE  u \in Seq(PartSet)
             /\ \E a \in Seq(Nat) : Gathered(s, Len(s), a) /\ d = a \o TailBytes(t)
  <2>1. \E a \in Seq(Nat) : Gathered(s, Len(s), a) /\ d = a \o TailBytes(t)
    BY <1>2, GatheredTail
  <2>2. t \in Seq(PartSet)
    BY DEF Tails
  <2> QED BY <1>2, <2>1, <2>2, GoodConcat
<1>3. <<Sends(Fixed(h))>> \in Seq(PartSet)
  BY FixedIs, SendsIs
<1>4. /\ ExtraParts(h) \in Tails /\ TailBytes(ExtraParts(h)) = ExtraBytes(h)
      /\ TextParts(h.name) \in Tails /\ TailBytes(TextParts(h.name)) = TextBytes(h.name)
      /\ TextParts(h.comment) \in Tails /\ TailBytes(TextParts(h.comment)) = TextBytes(h.comment)
  BY <1>1, TailsAre
<1>5. ASSUME NEW a \in Seq(Nat), NEW f, f = <<Sends(Fixed(h))>>, Gathered(f, Len(f), a)
      PROVE  a = Fixed(h)
  <2>1. Len(f) = 1 /\ f[1].bytes = Fixed(h)
    BY <1>5 DEF Sends
  <2>2. PICK upto \in [0 .. 1 -> Seq(Nat)] :
          /\ upto[0] = <<>> /\ upto[1] = a
          /\ \A i \in 1 .. 1 : ~f[i].bad /\ upto[i] = upto[i - 1] \o f[i].bytes
    <3>1. Gathered(f, 1, a)
      BY <1>5, <2>1
    <3> QED BY <3>1 DEF Gathered
  <2>3. upto[1] = upto[1 - 1] \o f[1].bytes /\ 1 - 1 = 0
    BY <2>2
  <2>4. <<>> \o Fixed(h) = Fixed(h)
    BY FixedIs
  <2> QED BY <2>1, <2>2, <2>3, <2>4
<1>6. PICK f, x, n, c, u, v : /\ f = <<Sends(Fixed(h))>> /\ x = ExtraParts(h)
                              /\ n = TextParts(h.name) /\ c = TextParts(h.comment)
                              /\ u = f \o x /\ v = u \o n
  OBVIOUS
<1>7. f \in Seq(PartSet) /\ x \in Tails /\ n \in Tails /\ c \in Tails
  BY <1>3, <1>4, <1>6
<1>8. Parts(h) = v \o c
  BY <1>6, PartsAre
<1>9. u \in Seq(PartSet) /\ v \in Seq(PartSet)
  <2>1. x \in Seq(PartSet) /\ n \in Seq(PartSet)
    BY <1>7 DEF Tails
  <2> QED BY <1>6, <1>7, <2>1, GoodConcat
<1>10. PICK b3 \in Seq(Nat) : Gathered(v, Len(v), b3) /\ b = b3 \o TailBytes(c)
  BY <1>2, <1>7, <1>8, <1>9
<1>11. PICK b2 \in Seq(Nat) : Gathered(u, Len(u), b2) /\ b3 = b2 \o TailBytes(n)
  <2>1. v = u \o n
    BY <1>6
  <2> QED BY ZenonT(60), <1>2, <1>7, <1>9, <1>10, <2>1
<1>12. PICK a \in Seq(Nat) : Gathered(f, Len(f), a) /\ b2 = a \o TailBytes(x)
  <2>1. u = f \o x
    BY <1>6
  <2> QED BY <1>2, <1>7, <1>11, <2>1
<1>13. a = Fixed(h)
  BY <1>5, <1>6, <1>12
<1>14. /\ TailBytes(x) = ExtraBytes(h) /\ TailBytes(n) = TextBytes(h.name)
       /\ TailBytes(c) = TextBytes(h.comment)
  BY <1>4, <1>6
<1> QED BY <1>1, <1>10, <1>11, <1>12, <1>13, <1>14

\* s lies in b behind p elements
Stands(b, p, s) == p + Len(s) <= Len(b) /\ \A i \in 1 .. Len(s) : b[p + i] = s[i]

LEMMA ConcatAt ==
  ASSUME NEW s \in Seq(Nat), NEW t \in Seq(Nat), NEW u, u = s \o t
  PROVE  /\ u \in Seq(Nat) /\ Len(u) = Len(s) + Len(t)
         /\ Stands(u, 0, s) /\ Stands(u, Len(s), t)
         /\ \A p \in Nat, r \in Seq(Nat) : Stands(s, p, r) => Stands(u, p, r)
<1> DEFINE m == Len(s)
           n == Len(t)
<1>1. m \in Nat /\ n \in Nat
  OBVIOUS
<1>2. /\ u \in Seq(Nat) /\ Len(u) = m + n
      /\ \A i \in 1 .. m : u[i] = s[i]
      /\ \A i \in m + 1 .. m + n : u[i] = t[i - m]
  BY Concat
<1> HIDE DEF m, n
<1>3. Stands(u, 0, s)
  <2>1. Len(s) = m
    BY DEF m
  <2>2. \A i \in 1 .. m : u[0 + i] = s[i]
    <3>1. \A i \in 1 .. m : 0 + i = i
      BY <1>1
    <3> QED BY <1>2, <3>1
  <2> QED BY <1>1, <1>2, <2>1, <2>2 DEF Stands
<1>4. Stands(u, m, t)
  <2>1. Len(t) = n
    BY DEF n
  <2>2. ASSUME NEW i \in 1 .. n PROVE u[m + i] = t[i]
    <3>1. m + i \in m + 1 .. m + n /\ (m + i) - m = i
      BY <1>1
    <3> QED BY <1>2, <3>1
  <2> QED BY <1>1, <1>2, <2>1, <2>2 DEF Stands
<1>5. ASSUME NEW p \in Nat, NEW r \in Seq(Nat), Stands(s, p, r) PROVE Stands(u, p, r)
  <2>1. p + Len(r) <= m /\ \A i \in 1 .. Len(r) : s[p + i] = r[i]
    BY <1>5 DEF Stands, m
  <2>2. Len(r) \in Nat
    OBVIOUS
  <2>3. \A i \in 1 .. Len(r) : p + i \in 1 .. m
    BY <1>1, <2>1, <2>2
  <2> QED BY <1>1, <1>2, <2>1, <2>2, <2>3 DEF Stands
<1> QED BY <1>2, <1>3, <1>4, <1>5 DEF m, n

LEMMA SubSeqAt ==
  ASSUME NEW b \in Seq(Nat), NEW p \in Nat, NEW s \in Seq(Nat), Stands(b, p, s)
  PROVE  SubSeq(b, p + 1, p + Len(s)) = s
<1> DEFINE n == Len(s)
           u == SubSeq(b, p + 1, p + n)
<1>1. n \in Nat /\ p + n <= Len(b) /\ \A i \in 1 .. n : b[p + i] = s[i]
  BY DEF Stands
<1>2. u \in Seq(Nat) /\ Len(u) = n /\ \A i \in 1 .. n : u[i] = b[p + i]
  <2>1. \A i \in p + 1 .. p + n : b[i] \in Nat
    <3>1. \A i \in p + 1 .. p + n : i \in 1 .. Len(b)
      BY <1>1
    <3> QED BY <3>1
  <2>2. p + 1 \in Int /\ p + n \in Int /\ n \in Nat
    BY <1>1
  <2> HIDE DEF n
  <2>3. /\ u \in Seq(Nat) /\ Len(u) = IF p + 1 <= p + n THEN (p + n) - (p + 1) + 1 ELSE 0
        /\ \A i \in 1 .. (p + n) - (p + 1) + 1 : u[i] = b[(p + 1) + i - 1]
    BY SMTT(40), <2>1, <2>2, SubSeqProperties
  <2> HIDE DEF u
  <2>4. (p + n) - (p + 1) + 1 = n /\ \A i \in 1 .. n : (p + 1) + i - 1 = p + i
    BY <2>2
  <2>5. Len(u) = n
    BY <2>2, <2>3
  <2> QED BY <2>3, <2>4, <2>5
<1>3. Len(s) = n
  OBVIOUS
<1> HIDE DEF n, u
<1>4. u = s
  <2>1. Len(u) = Len(s) /\ \A i \in 1 .. Len(u) : u[i] = s[i]
    BY <1>1, <1>2, <1>3
  <2> QED BY <1>2, <2>1, SeqEqual
<1> QED BY <1>4 DEF n, u

\* A string without a NUL ends before the first one
LEMMA StringAtIs ==
  ASSUME NEW b \in Seq(Nat), NEW p \in Nat, NEW s \in Seq(Nat), Clean(s), Stands(b, p, s \o << 0 >>)
  PROVE  StringAt(b, p + 1) = s
<1> DEFINE z == << 0 >>
           n == Len(s)
           e == p + n + 1
<1>1. z \in Seq(Nat) /\ Len(z) = 1 /\ z[1] = 0 /\ n \in Nat
  OBVIOUS
<1>2. /\ Len(s \o z) = n + 1 /\ \A i \in 1 .. n : (s \o z)[i] = s[i]
      /\ (s \o z)[n + 1] = 0
  <2>1. /\ Len(s \o z) = Len(s) + Len(z)
        /\ \A i \in 1 .. Len(s) : (s \o z)[i] = s[i]
        /\ \A i \in Len(s) + 1 .. Len(s) + Len(z) : (s \o z)[i] = z[i - Len(s)]
    BY <1>1, Concat
  <2>2. n + 1 \in n + 1 .. n + 1 /\ (n + 1) - n = 1
    BY <1>1
  <2> HIDE DEF z
  <2> QED BY <1>1, <2>1, <2>2
<1>3. p + (n + 1) <= Len(b) /\ \A i \in 1 .. n + 1 : b[p + i] = (s \o z)[i]
  BY <1>2 DEF Stands
<1>4. Stands(b, p, s)
  <2>1. Len(b) \in Nat /\ Len(s) = n
    OBVIOUS
  <2> HIDE DEF n, z, e
  <2>2. p + n <= Len(b) /\ \A i \in 1 .. n : i \in 1 .. n + 1
    BY <1>1, <1>3, <2>1
  <2> QED BY <1>2, <1>3, <2>1, <2>2 DEF Stands
<1>5. \A i \in 1 .. n : s[i] # 0
  <2>1. \A i \in DOMAIN s : s[i] \in 1 .. Base - 1
    BY DEF Clean, Range
  <2>2. \A i \in 1 .. n : i \in DOMAIN s
    OBVIOUS
  <2> QED BY <2>1, <2>2
<1>6. Len(b) \in Nat
  OBVIOUS
<1> HIDE DEF z, n
<1>7. b[e] = 0 /\ e \in p + 1 .. Len(b)
  <2>1. n + 1 \in 1 .. n + 1 /\ p + (n + 1) = e /\ e \in Nat /\ p + 1 <= e
    BY <1>1
  <2> HIDE DEF e
  <2>2. e <= Len(b)
    BY <1>3, <2>1
  <2>3. b[e] = 0
    BY <1>2, <1>3, <2>1
  <2> QED BY <1>6, <2>1, <2>2, <2>3
<1>8. ASSUME NEW q \in p + 1 .. e - 1 PROVE b[q] # 0
  <2>1. q - p \in 1 .. n /\ q - p \in 1 .. n + 1 /\ p + (q - p) = q
    BY <1>1
  <2> QED BY <1>2, <1>3, <1>5, <2>1
<1> HIDE DEF e
<1> DEFINE Nul(q) == b[q] = 0 /\ \A r \in p + 1 .. q - 1 : b[r] # 0
<1>9. e \in p + 1 .. Len(b) /\ Nul(e)
  BY <1>7, <1>8
<1>10. ASSUME NEW q \in p + 1 .. Len(b), Nul(q) PROVE q = e
  <2>1. ~(q < e)
    <3>1. ASSUME q < e PROVE FALSE
      <4>1. q \in p + 1 .. e - 1
        BY <1>6, <1>7, <3>1
      <4> QED BY <1>8, <1>10, <4>1
    <3> QED BY <3>1
  <2>2. ~(e < q)
    <3>1. ASSUME e < q PROVE FALSE
      <4>1. e \in p + 1 .. q - 1
        BY <1>6, <1>7, <3>1
      <4> QED BY <1>7, <1>10, <4>1
    <3> QED BY <3>1
  <2> QED BY <1>6, <1>7, <2>1, <2>2
<1> DEFINE found == CHOOSE q \in p + 1 .. Len(b) : Nul(q)
<1>11. found = e
  <2>1. found \in p + 1 .. Len(b) /\ Nul(found)
    BY <1>9
  <2> HIDE DEF found
  <2> QED BY <1>10, <2>1
<1>12. StringAt(b, p + 1) = SubSeq(b, p + 1, found - 1)
  BY DEF StringAt
<1> HIDE DEF found
<1>13. e - 1 = p + n
  BY <1>1 DEF e
<1> QED BY <1>4, <1>11, <1>12, <1>13, SubSeqAt DEF n

-----------------------------------------------------------------------------
(* What a reader makes of them                                             *)

SizeIn(b)    == IF Has(b, flagExtra) THEN Word(b, 11) ELSE 0
NameAt(b)    == IF Has(b, flagExtra) THEN 13 + SizeIn(b) ELSE 11
NameIn(b)    == IF Has(b, flagName) THEN StringAt(b, NameAt(b)) ELSE <<>>
CommentAt(b) == IF Has(b, flagName) THEN NameAt(b) + Len(NameIn(b)) + 1 ELSE NameAt(b)
CommentIn(b) == IF Has(b, flagComment) THEN StringAt(b, CommentAt(b)) ELSE <<>>
ExtraIn(b)   == IF Has(b, flagExtra) THEN SubSeq(b, 13, 12 + SizeIn(b)) ELSE Nil
TimeIn(b)    == IF Double(b, 5) > 0 THEN Double(b, 5) ELSE Default.modTime
LengthIn(b)  == IF Has(b, flagComment) THEN CommentAt(b) + Len(CommentIn(b)) ELSE CommentAt(b) - 1

LEMMA ReadHeaderIs ==
  ASSUME NEW b
  PROVE  ReadHeader(b) = [header |-> [comment |-> CommentIn(b), name |-> NameIn(b), os |-> b[10],
                                      extra |-> ExtraIn(b), modTime |-> TimeIn(b)],
                          length |-> LengthIn(b)]
BY DEF ReadHeader, CommentIn, NameIn, ExtraIn, TimeIn, LengthIn, CommentAt, NameAt, SizeIn

LEMMA FlagsRead ==
  ASSUME NEW h, NEW b, b[4] = Flags(h)
  PROVE  /\ Has(b, flagExtra) <=> h.extra # Nil
         /\ Has(b, flagName) <=> h.name # <<>>
         /\ Has(b, flagComment) <=> h.comment # <<>>
<1> DEFINE x == IF h.extra # Nil THEN 4 ELSE 0
           n == IF h.name # <<>> THEN 8 ELSE 0
           c == IF h.comment # <<>> THEN 16 ELSE 0
<1>1. b[4] = x + n + c
  BY DEF Flags, flagExtra, flagName, flagComment
<1>2. x \in {0, 4} /\ n \in {0, 8} /\ c \in {0, 16}
  OBVIOUS
<1>3. (x = 4 <=> h.extra # Nil) /\ (n = 8 <=> h.name # <<>>) /\ (c = 16 <=> h.comment # <<>>)
  OBVIOUS
<1> HIDE DEF x, n, c
<1>4. /\ ((x + n + c) \div 4) % 2 = 1 <=> x = 4
      /\ ((x + n + c) \div 8) % 2 = 1 <=> n = 8
      /\ ((x + n + c) \div 16) % 2 = 1 <=> c = 16
  BY <1>2
<1> QED BY <1>1, <1>3, <1>4 DEF Has, flagExtra, flagName, flagComment

LEMMA StandsAt ==
  ASSUME NEW b \in Seq(Nat), NEW s \in Seq(Nat), NEW r \in Seq(Nat), NEW p \in Nat, NEW q \in Nat,
         Stands(b, p, s), Stands(s, q, r)
  PROVE  Stands(b, p + q, r)
<1> DEFINE n == Len(r)
           m == Len(s)
           k == Len(b)
<1>1. n \in Nat /\ m \in Nat /\ k \in Nat
  OBVIOUS
<1>2. /\ p + m <= k /\ \A i \in 1 .. m : b[p + i] = s[i]
      /\ q + n <= m /\ \A i \in 1 .. n : s[q + i] = r[i]
  BY DEF Stands
<1> HIDE DEF n, m, k
<1>3. (p + q) + n <= k
  BY <1>1, <1>2
<1>4. ASSUME NEW i \in 1 .. n PROVE b[(p + q) + i] = r[i]
  <2>1. q + i \in 1 .. m /\ p + (q + i) = (p + q) + i
    BY <1>1, <1>2
  <2> QED BY <1>2, <2>1
<1> QED BY <1>3, <1>4 DEF Stands, n, k

\* Where the parts of a header are
LEMMA Layout ==
  ASSUME NEW f \in Seq(Nat), NEW e \in Seq(Nat), NEW n \in Seq(Nat), NEW c \in Seq(Nat),
         NEW b, b = ((f \o e) \o n) \o c
  PROVE  /\ b \in Seq(Nat) /\ Len(b) = Len(f) + Len(e) + Len(n) + Len(c)
         /\ Stands(b, 0, f) /\ Stands(b, Len(f), e) /\ Stands(b, Len(f) + Len(e), n)
         /\ Stands(b, Len(f) + Len(e) + Len(n), c)
<1>1. PICK u, v : u = f \o e /\ v = u \o n
  OBVIOUS
<1>2. b = v \o c
  BY <1>1
<1>3. /\ u \in Seq(Nat) /\ Len(u) = Len(f) + Len(e) /\ Stands(u, 0, f) /\ Stands(u, Len(f), e)
  BY <1>1, ConcatAt
<1>4. /\ v \in Seq(Nat) /\ Len(v) = Len(u) + Len(n) /\ Stands(v, Len(u), n)
      /\ \A p \in Nat, r \in Seq(Nat) : Stands(u, p, r) => Stands(v, p, r)
  BY ZenonT(60), <1>1, <1>3, ConcatAt
<1>5. /\ b \in Seq(Nat) /\ Len(b) = Len(v) + Len(c) /\ Stands(b, Len(v), c)
      /\ \A p \in Nat, r \in Seq(Nat) : Stands(v, p, r) => Stands(b, p, r)
  BY <1>2, <1>4, ConcatAt
<1>6. Len(f) \in Nat /\ Len(u) \in Nat /\ 0 \in Nat
  BY <1>3
<1>7. Stands(b, 0, f) /\ Stands(b, Len(f), e) /\ Stands(b, Len(u), n)
  BY <1>3, <1>4, <1>5, <1>6
<1> QED BY <1>3, <1>4, <1>5, <1>7

LEMMA FixedRead ==
  ASSUME NEW h \in HeaderSet, NEW b \in Seq(Nat), Stands(b, 0, Fixed(h))
  PROVE  b[4] = Flags(h) /\ b[10] = h.os /\ Double(b, 5) = Mtime(h) % Size32
<1> DEFINE f == Fixed(h)
<1>1. /\ f \in Seq(Nat) /\ Len(f) = 10 /\ f[4] = Flags(h) /\ f[10] = h.os
      /\ Double(f, 5) = Mtime(h) % Size32
  BY FixedIs
<1> HIDE DEF f
<1>2. Stands(b, 0, f)
  BY DEF f
<1>3. ASSUME NEW i \in 1 .. 10 PROVE b[i] = f[i]
  <2>1. \A j \in 1 .. 10 : b[0 + j] = f[j]
    BY <1>1, <1>2 DEF Stands
  <2>2. 0 + i = i
    OBVIOUS
  <2> QED BY <2>1, <2>2
<1>4. b[4] = f[4] /\ b[10] = f[10] /\ b[5] = f[5] /\ b[6] = f[6] /\ b[7] = f[7] /\ b[8] = f[8]
  BY <1>3
<1>5. Double(b, 5) = Double(f, 5)
  <2>1. 5 + 1 = 6 /\ 5 + 2 = 7 /\ 7 + 1 = 8
    OBVIOUS
  <2> QED BY <1>4, <2>1 DEF Double, Word
<1> QED BY <1>1, <1>4, <1>5

LEMMA ExtraRead ==
  ASSUME NEW h \in HeaderSet, Encodable(h), NEW b \in Seq(Nat), Stands(b, 10, ExtraBytes(h)),
         Has(b, flagExtra) <=> h.extra # Nil
  PROVE  ExtraIn(b) = h.extra /\ NameAt(b) = 10 + Len(ExtraBytes(h)) + 1
<1>1. CASE h.extra = Nil
  <2>1. ExtraBytes(h) = <<>> /\ ~Has(b, flagExtra)
    BY <1>1 DEF ExtraBytes
  <2>2. NameAt(b) = 11 /\ ExtraIn(b) = Nil
    BY <2>1 DEF NameAt, ExtraIn
  <2>3. Len(ExtraBytes(h)) = 0
    BY <2>1
  <2> QED BY <1>1, <2>2, <2>3
<1>2. CASE h.extra # Nil
  <2> DEFINE x == h.extra
             n == Len(x)
             y == Uint16(n)
             e == ExtraBytes(h)
  <2>1. x \in Seq(Nat) /\ n \in Nat /\ n < Size16
    BY <1>2, Sizes DEF HeaderSet, Encodable
  <2>2. y \in Seq(Nat) /\ Len(y) = 2 /\ y[1] + Base * y[2] = n
    <3> HIDE DEF n
    <3>1. y[1] + Base * y[2] = n % Size16 /\ y \in Seq(Nat) /\ Len(y) = 2
      BY <2>1, Uint16Is
    <3>2. n % Size16 = n
      <4>1. n \in Nat /\ n < Size16 /\ Size16 \in Nat
        BY <2>1, Sizes
      <4> QED BY <4>1
    <3> QED BY <3>1, <3>2
  <2>3. e = y \o x /\ Has(b, flagExtra) /\ Stands(b, 10, e)
    BY <1>2 DEF ExtraBytes
  <2> HIDE DEF x, n, y, e
  <2>4. e \in Seq(Nat) /\ Len(e) = 2 + Len(x) /\ Stands(e, 0, y) /\ Stands(e, 2, x)
    <3>1. e \in Seq(Nat) /\ Len(e) = Len(y) + Len(x) /\ Stands(e, 0, y) /\ Stands(e, Len(y), x)
      BY <2>1, <2>2, <2>3, ConcatAt
    <3> QED BY <2>2, <3>1
  <2>5. Stands(b, 10 + 0, y) /\ Stands(b, 10 + 2, x)
    BY <2>1, <2>2, <2>3, <2>4, StandsAt
  <2>6. b[11] = y[1] /\ b[12] = y[2]
    <3>1. Stands(b, 10, y) /\ 1 \in 1 .. 2 /\ 2 \in 1 .. 2 /\ 10 + 1 = 11 /\ 10 + 2 = 12
      BY <2>5
    <3>2. b[10 + 1] = y[1] /\ b[10 + 2] = y[2]
      BY <2>2, <3>1 DEF Stands
    <3> QED BY <3>1, <3>2
  <2>7. SizeIn(b) = n
    <3>1. SizeIn(b) = b[11] + Base * b[12]
      BY <2>3 DEF SizeIn, Word
    <3> QED BY <2>2, <2>6, <3>1
  <2>8. ExtraIn(b) = x
    <3>1. SubSeq(b, 12 + 1, 12 + Len(x)) = x
      <4>1. Stands(b, 12, x)
        BY <2>5
      <4> QED BY <2>1, <4>1, SubSeqAt
    <3>2. ExtraIn(b) = SubSeq(b, 13, 12 + SizeIn(b))
      BY <2>3 DEF ExtraIn
    <3>3. Len(x) = n
      BY DEF n
    <3> QED BY <2>7, <3>1, <3>2, <3>3
  <2>9. NameAt(b) = 10 + Len(e) + 1
    <3>1. NameAt(b) = 13 + n
      BY <2>3, <2>7 DEF NameAt
    <3>2. Len(e) = 2 + n
      BY <2>4 DEF n
    <3> QED BY <2>1, <3>1, <3>2
  <2> QED BY <2>8, <2>9 DEF x, e
<1> QED BY <1>1, <1>2

LEMMA TextRead ==
  ASSUME NEW b \in Seq(Nat), NEW p \in Nat, NEW s \in Seq(Nat), Clean(s), Stands(b, p, TextBytes(s)), s # <<>>
  PROVE  StringAt(b, p + 1) = s /\ Len(TextBytes(s)) = Len(s) + 1
<1> DEFINE z == <<0>>
<1>1. TextBytes(s) = s \o z /\ z \in Seq(Nat) /\ Len(z) = 1
  BY DEF TextBytes
<1>2. StringAt(b, p + 1) = s
  BY <1>1, StringAtIs
<1> HIDE DEF z
<1>3. Len(s \o z) = Len(s) + Len(z)
  BY <1>1, Concat
<1> QED BY <1>1, <1>2, <1>3

LEMMA TextBytesTyped == ASSUME NEW s \in Seq(Nat) PROVE TextBytes(s) \in Seq(Nat)
BY DEF TextBytes

\* A reader of a complete header finds its fields and its end
LEMMA Reads ==
  ASSUME NEW h \in HeaderSet, Encodable(h), NEW b,
         b = ((Fixed(h) \o ExtraBytes(h)) \o TextBytes(h.name)) \o TextBytes(h.comment)
  PROVE  /\ b[10] = h.os /\ Double(b, 5) = Mtime(h) % Size32
         /\ ExtraIn(b) = h.extra /\ NameIn(b) = h.name /\ CommentIn(b) = h.comment
         /\ LengthIn(b) = Len(b)
<1> DEFINE f == Fixed(h)
           e == ExtraBytes(h)
           n == TextBytes(h.name)
           c == TextBytes(h.comment)
           P == 10 + Len(e)
           Q == P + Len(n)
<1>1. f \in Seq(Nat) /\ Len(f) = 10
  BY FixedIs
<1>2. e \in Seq(Nat)
  <2>1. CASE h.extra = Nil
    BY <2>1 DEF ExtraBytes
  <2>2. CASE h.extra # Nil
    <3>1. h.extra \in Seq(Nat) /\ Len(h.extra) \in Nat
      BY <2>2, Sizes DEF HeaderSet
    <3>2. Uint16(Len(h.extra)) \in Seq(Nat)
      BY <3>1, Uint16Is
    <3> QED BY <2>2, <3>1, <3>2 DEF ExtraBytes
  <2> QED BY <2>1, <2>2
<1>3. /\ h.name \in Seq(Nat) /\ h.comment \in Seq(Nat) /\ Clean(h.name) /\ Clean(h.comment)
      /\ n \in Seq(Nat) /\ c \in Seq(Nat)
  <2>1. h.name \in Seq(Nat) /\ h.comment \in Seq(Nat) /\ Clean(h.name) /\ Clean(h.comment)
    BY DEF HeaderSet, Encodable, Clean
  <2> QED BY <2>1, TextBytesTyped
<1>4. b = ((f \o e) \o n) \o c
  OBVIOUS
<1> HIDE DEF f, e, n, c
<1>5. /\ b \in Seq(Nat) /\ Len(b) = Len(f) + Len(e) + Len(n) + Len(c)
      /\ Stands(b, 0, f) /\ Stands(b, Len(f), e) /\ Stands(b, Len(f) + Len(e), n)
      /\ Stands(b, Len(f) + Len(e) + Len(n), c)
  BY <1>1, <1>2, <1>3, <1>4, Layout
<1>6. /\ Stands(b, 0, f) /\ Stands(b, 10, e) /\ Stands(b, P, n) /\ Stands(b, Q, c) /\ Len(b) = Q + Len(c)
      /\ P \in Nat /\ Q \in Nat /\ Len(e) \in Nat /\ Len(n) \in Nat /\ Len(c) \in Nat
  BY <1>1, <1>2, <1>3, <1>5
<1>7. b[4] = Flags(h) /\ b[10] = h.os /\ Double(b, 5) = Mtime(h) % Size32
  BY <1>5, <1>6, FixedRead DEF f
<1>8. /\ Has(b, flagExtra) <=> h.extra # Nil
      /\ Has(b, flagName) <=> h.name # <<>>
      /\ Has(b, flagComment) <=> h.comment # <<>>
  BY <1>7, FlagsRead
<1>9. ExtraIn(b) = h.extra /\ NameAt(b) = P + 1
  BY <1>5, <1>6, <1>8, ExtraRead DEF e
<1> HIDE DEF P
<1>10. NameIn(b) = h.name /\ CommentAt(b) = Q + 1
  <2>1. CASE h.name = <<>>
    <3>1. Len(n) = 0
      BY <2>1 DEF n, TextBytes
    <3>2. NameIn(b) = <<>> /\ CommentAt(b) = P + 1
      BY <1>8, <1>9, <2>1 DEF NameIn, CommentAt
    <3> QED BY <1>6, <2>1, <3>1, <3>2
  <2>2. CASE h.name # <<>>
    <3>1. StringAt(b, P + 1) = h.name /\ Len(n) = Len(h.name) + 1
      BY <1>3, <1>5, <1>6, <2>2, TextRead DEF n
    <3>2. NameIn(b) = h.name
      BY <1>8, <1>9, <2>2, <3>1 DEF NameIn
    <3> DEFINE k == Len(h.name)
    <3>3. CommentAt(b) = (P + 1) + k + 1 /\ k \in Nat /\ Len(n) = k + 1
      BY <1>3, <1>8, <1>9, <2>2, <3>1, <3>2 DEF CommentAt
    <3> HIDE DEF k
    <3>4. CommentAt(b) = (P + Len(n)) + 1
      BY <1>6, <3>3
    <3> QED BY <3>2, <3>4
  <2> QED BY <2>1, <2>2
<1> HIDE DEF Q
<1>11. CommentIn(b) = h.comment /\ LengthIn(b) = Q + Len(c)
  <2>1. CASE h.comment = <<>>
    <3>1. Len(c) = 0
      BY <2>1 DEF c, TextBytes
    <3>2. CommentIn(b) = <<>> /\ LengthIn(b) = CommentAt(b) - 1
      BY <1>8, <2>1 DEF CommentIn, LengthIn
    <3> QED BY <1>6, <1>10, <2>1, <3>1, <3>2
  <2>2. CASE h.comment # <<>>
    <3>1. StringAt(b, Q + 1) = h.comment /\ Len(c) = Len(h.comment) + 1
      BY <1>3, <1>5, <1>6, <2>2, TextRead DEF c
    <3>2. CommentIn(b) = h.comment
      BY <1>8, <1>10, <2>2, <3>1 DEF CommentIn
    <3> DEFINE k == Len(h.comment)
    <3>3. LengthIn(b) = (Q + 1) + k /\ k \in Nat /\ Len(c) = k + 1
      BY <1>3, <1>8, <1>10, <2>2, <3>1, <3>2 DEF LengthIn
    <3> HIDE DEF k
    <3>4. LengthIn(b) = Q + Len(c)
      BY <1>6, <3>3
    <3> QED BY <3>2, <3>4
  <2> QED BY <2>1, <2>2
<1> QED BY <1>6, <1>7, <1>9, <1>10, <1>11

-----------------------------------------------------------------------------
(* A complete header                                                       *)

LEMMA StartedIs ==
  ASSUME IInv, LifeInv, SinkInv, HeaderInv, NEW w \in Writers, Started(w)
  PROVE  asked[w] \in HeaderSet /\ head[w] \in Seq(Nat) /\ Whole(w)
<1>1. asked[w] \in HeaderSet /\ head[w] \in Seq(Nat) /\ Progress(w)
  BY DEF HeaderInv, HeaderTyped
<1>2. sink[w] # <<>> /\ sink[w][1] = Header(1)
  BY DEF Started
<1>3. wroteHeader[w]
  BY <1>2 DEF SinkInv, Told
<1>4. pc[w] # "header"
  <2>1. ASSUME pc[w] = "header" PROVE FALSE
    <3>1. Len(sink[w]) < HeaderWrites /\ sink[w] \in Seq(Items)
      BY <2>1 DEF SinkInv, Told, IInv, TypeOK
    <3>2. Len(sink[w]) = 0
      BY <3>1, HeaderAssumption
    <3> QED BY <1>2, <3>1, <3>2
  <2> QED BY <2>1
<1>5. ~Refused(w)
  <2>1. ASSUME Refused(w) PROVE FALSE
    <3>1. sink[w][1] = Torn
      BY <2>1 DEF Refused
    <3>2. Torn[1] = "torn" /\ Header(1)[1] = "header"
      BY ItemFields
    <3> QED BY <1>2, <3>1, <3>2
  <2> QED BY <2>1
<1> QED BY <1>1, <1>3, <1>4, <1>5 DEF Progress

\* What a reader makes of the header of a started stream
LEMMA StartedReads ==
  ASSUME IInv, LifeInv, SinkInv, HeaderInv, NEW w \in Writers, Started(w)
  PROVE  /\ ReadHeader(head[w]).length = Len(head[w])
         /\ ReadHeader(head[w]).header =
              [comment |-> asked[w].comment, name |-> asked[w].name, os |-> asked[w].os,
               extra |-> asked[w].extra,
               modTime |-> IF Mtime(asked[w]) % Size32 > 0 THEN Mtime(asked[w]) % Size32 ELSE -1]
<1> DEFINE h == asked[w]
           b == head[w]
<1>1. h \in HeaderSet /\ b \in Seq(Nat) /\ Gathered(Parts(h), Len(Parts(h)), b)
  BY StartedIs DEF Whole
<1> HIDE DEF h, b
<1>2. /\ Encodable(h)
      /\ b = ((Fixed(h) \o ExtraBytes(h)) \o TextBytes(h.name)) \o TextBytes(h.comment)
  BY <1>1, WholeIs
<1>3. /\ b[10] = h.os /\ Double(b, 5) = Mtime(h) % Size32
      /\ ExtraIn(b) = h.extra /\ NameIn(b) = h.name /\ CommentIn(b) = h.comment
      /\ LengthIn(b) = Len(b)
  BY <1>1, <1>2, Reads
<1>4. TimeIn(b) = IF Mtime(h) % Size32 > 0 THEN Mtime(h) % Size32 ELSE -1
  BY <1>3 DEF TimeIn, Default
<1>5. ReadHeader(b).length = LengthIn(b)
      /\ ReadHeader(b).header = [comment |-> CommentIn(b), name |-> NameIn(b), os |-> b[10],
                                 extra |-> ExtraIn(b), modTime |-> TimeIn(b)]
  BY ReadHeaderIs
<1> QED BY <1>3, <1>4, <1>5 DEF h, b

\* A reader finds the fields as they were at the first call, whatever was set before
\* or after and whatever stream came before a Reset, and the data directly behind
\* them (gzip.go:84-114, 195-291).
THEOREM ReadsBack == HeaderSpec => []HeaderReadsBack
<1>1. ASSUME IInv, LifeInv, SinkInv, HeaderInv PROVE HeaderReadsBack
  <2>1. ASSUME NEW w \in Writers, Started(w)
        PROVE  LET read == ReadHeader(head[w])
                   time == IF asked[w].mtime # 0 THEN asked[w].mtime ELSE asked[w].modTime
               IN  /\ read.length = Len(head[w])
                   /\ \A f \in StdFields \ {"modTime"} : read.header[f] = asked[w][f]
                   /\ InRange(asked[w]) =>
                        read.header.modTime = IF time > 0 THEN time ELSE Default.modTime
    <3> DEFINE h == asked[w]
               read == ReadHeader(head[w])
               time == IF h.mtime # 0 THEN h.mtime ELSE h.modTime
    <3>1. h \in HeaderSet
      BY <1>1, <2>1, StartedIs
    <3>2. read.length = Len(head[w])
          /\ read.header = [comment |-> h.comment, name |-> h.name, os |-> h.os, extra |-> h.extra,
                            modTime |-> IF Mtime(h) % Size32 > 0 THEN Mtime(h) % Size32 ELSE -1]
      BY <1>1, <2>1, StartedReads
    <3> HIDE DEF h, read
    <3>3. ASSUME NEW f \in StdFields \ {"modTime"} PROVE read.header[f] = h[f]
      <4>1. f \in {"comment", "extra", "name", "os"}
        BY DEF StdFields, Default
      <4> QED BY <3>2, <4>1
    <3>4. ASSUME InRange(h) PROVE read.header.modTime = IF time > 0 THEN time ELSE Default.modTime
      <4>1. h.mtime \in 0 .. Size32 - 1 /\ h.modTime \in Int /\ Size32 \in Nat /\ Size32 > 0
        BY <3>1, Sizes DEF HeaderSet
      <4>2. Mtime(h) = IF time > 0 THEN time ELSE 0
        BY <4>1 DEF Mtime
      <4>3. time \in Int /\ time < Size32
        BY <3>4, <4>1 DEF InRange
      <4> DEFINE m == Mtime(h)
      <4>4. m \in Nat /\ m < Size32
        BY <4>1, <4>2, <4>3
      <4> HIDE DEF m
      <4>5. m % Size32 = m
        BY <4>1, <4>4
      <4>6. read.header.modTime = IF m > 0 THEN m ELSE -1
        BY <3>2, <4>5 DEF m
      <4>7. m = IF time > 0 THEN time ELSE 0
        BY <4>2 DEF m
      <4> HIDE DEF time
      <4> QED BY <4>3, <4>6, <4>7 DEF Default
    <3> QED BY <3>2, <3>3, <3>4 DEF h, read
  <2> QED BY <2>1 DEF HeaderReadsBack
<1> QED BY <1>1, HeaderSent, PTL

LEMMA SameParts ==
  ASSUME NEW g, NEW h, g.extra = h.extra, g.name = h.name, g.comment = h.comment, g.os = h.os,
         Uint32(Mtime(g)) = Uint32(Mtime(h))
  PROVE  Parts(g) = Parts(h)
<1>1. Fixed(g) = Fixed(h)
  BY DEF Fixed
<1> QED BY <1>1 DEF Parts

\* A header read back and carried over is sent again in the same writes: SetHeader
\* goes through ModTime, which MTIME holds modulo its four bytes (gzip.go:117-129).
THEOREM CarriedOver == HeaderSpec => []Recompressed
<1>1. ASSUME IInv, LifeInv, SinkInv, HeaderInv PROVE Recompressed
  <2>1. ASSUME NEW w \in Writers, Started(w)
        PROVE  Parts(WithStdHeader(Default, ReadHeader(head[w]).header)) = Parts(asked[w])
    <3> DEFINE h == asked[w]
               r == ReadHeader(head[w]).header
               g == WithStdHeader(Default, r)
               n == Mtime(h)
               t == n % Size32
    <3>1. h \in HeaderSet
      BY <1>1, <2>1, StartedIs
    <3>2. r = [comment |-> h.comment, name |-> h.name, os |-> h.os, extra |-> h.extra,
               modTime |-> IF t > 0 THEN t ELSE -1]
      BY <1>1, <2>1, StartedReads
    <3>3. n \in Nat /\ t \in Nat
      <4>1. n \in Nat
        BY <3>1, MtimeIs
      <4> HIDE DEF n
      <4> QED BY <4>1, Sizes, Digits
    <3> HIDE DEF h, r, t, n
    <3>4. g = [comment |-> r.comment, extra |-> r.extra, modTime |-> r.modTime, name |-> r.name,
               os |-> r.os, mtime |-> Default.mtime]
      BY DefaultTyped, StdHeaderIs
    <3> HIDE DEF g
    <3>5. /\ g.extra = h.extra /\ g.name = h.name /\ g.comment = h.comment /\ g.os = h.os
          /\ g.modTime = IF t > 0 THEN t ELSE -1
          /\ g.mtime = 0
      BY <3>2, <3>4 DEF Default
    <3>6. Mtime(g) = t
      BY <3>3, <3>5 DEF Mtime
    <3>7. Uint32(t) = Uint32(n)
      BY <3>3, Uint32Cut DEF t
    <3>8. Uint32(Mtime(g)) = Uint32(Mtime(h))
      BY <3>6, <3>7 DEF n
    <3>9. Parts(g) = Parts(h)
      BY <3>5, <3>8, SameParts
    <3> QED BY <3>9 DEF g, h, r
  <2> QED BY <2>1 DEF Recompressed
<1> QED BY <1>1, HeaderSent, PTL
=============================================================================
