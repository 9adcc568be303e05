-------------------------- MODULE TreesBlock_proof --------------------------
(***************************************************************************)
(* The block, for every alphabet, limit and counts: codes tell symbols apart, *)
(* a decoder of the tree header gets every length back, the lengths the    *)
(* choice rests on are exact, and the chosen encoding is the smallest.  Core *)
(* is what holds between the functions of trFlushBlock; Account and Best add *)
(* the lengths of the block and the cost of its codes.                     *)
(***************************************************************************)
EXTENDS Trees_proof

-----------------------------------------------------------------------------
(* biReverse                                                               *)

\* A quotient and a remainder are the only ones
LEMMA DivIs ==
  ASSUME NEW p \in Nat, p >= 1, NEW q \in Nat, NEW r \in 0 .. p - 1
  PROVE  (p * q + r) \div p = q /\ (p * q + r) % p = r
BY Z3

\* What is left of c after shifting out a bit at a time (biReverse, trees.go)
LEMMA HalfDiv ==
  ASSUME NEW c \in Nat, NEW p \in Nat, p >= 1
  PROVE  c \div (2 * p) = (c \div p) \div 2 /\ c \div p \in Nat
<1> DEFINE q == c \div p
           r == c % p
           h == q \div 2
           s == q % 2
<1>1. c = p * q + r /\ q \in Nat /\ r \in 0 .. p - 1
  OBVIOUS
<1> HIDE DEF q, r
<1>2. q = 2 * h + s /\ h \in Nat /\ s \in {0, 1}
  BY <1>1
<1>3. DEFINE z == p * s + r
<1>4. z \in 0 .. 2 * p - 1
  <2>1. CASE s = 0
    BY <1>1, <2>1
  <2>2. CASE s = 1
    BY <1>1, <2>2
  <2> QED BY <1>2, <2>1, <2>2
<1>5. c = (2 * p) * h + z
  <2> HIDE DEF h, s
  <2>1. p * q = p * (2 * h) + p * s
    BY <1>2
  <2>2. p * (2 * h) = (2 * p) * h
    BY <1>2
  <2>3. p * s \in Nat /\ (2 * p) * h \in Nat
    BY <1>2
  <2> QED BY <1>1, <2>1, <2>2, <2>3
<1> HIDE DEF z, h, s
<1>6. c \div (2 * p) = h
  <2> DEFINE e == 2 * p
  <2>1. e \in Nat /\ e >= 1 /\ z \in 0 .. e - 1 /\ c = e * h + z
    BY <1>4, <1>5
  <2> HIDE DEF e
  <2>2. c \div e = h
    BY <1>2, <2>1, DivIs
  <2> QED BY <2>2 DEF e
<1> QED BY <1>1, <1>6 DEF h, q

\* Shifting in two parts
LEMMA DivTwice ==
  ASSUME NEW c \in Nat, NEW i \in Nat, NEW j \in Nat
  PROVE  (c \div Pow2(i)) \div Pow2(j) = c \div Pow2(i + j) /\ c \div Pow2(i) \in Nat
<1>0. \A k \in Nat : Pow2(k) \in Nat /\ Pow2(k) >= 1
  BY Pow2Positive
<1> DEFINE d == c \div Pow2(i)
           K == {k \in Nat : d \div Pow2(k) = c \div Pow2(i + k)}
<1>1. d \in Nat
  <2>1. Pow2(i) \in Nat /\ Pow2(i) >= 1
    BY <1>0
  <2> QED BY <2>1
<1>2. 0 \in K
  <2>1. d \div 1 = d /\ i + 0 = i
    BY <1>1
  <2> QED BY <2>1, Pow2Zero
<1>3. ASSUME NEW k \in 0 .. j - 1, k \in K PROVE k + 1 \in K
  <2>1. k \in Nat /\ k + 1 \in Nat /\ i + k \in Nat /\ i + (k + 1) = (i + k) + 1
    OBVIOUS
  <2>2. /\ Pow2(k + 1) = 2 * Pow2(k) /\ Pow2(k) \in Nat /\ Pow2(k) >= 1
        /\ Pow2((i + k) + 1) = 2 * Pow2(i + k) /\ Pow2(i + k) \in Nat /\ Pow2(i + k) >= 1
    BY <1>0, <2>1, Pow2Step
  <2> HIDE DEF d
  <2>3. d \div (2 * Pow2(k)) = (d \div Pow2(k)) \div 2
    BY <1>1, <2>2, HalfDiv
  <2>4. c \div (2 * Pow2(i + k)) = (c \div Pow2(i + k)) \div 2
    BY <2>2, HalfDiv
  <2>5. d \div Pow2(k) = c \div Pow2(i + k)
    BY <1>3
  <2> QED BY <2>1, <2>2, <2>3, <2>4, <2>5
<1>4. \A k \in 0 .. j : k \in K
  <2> HIDE DEF K
  <2> QED BY <1>2, <1>3, InductionUpTo
<1>5. j \in K
  <2> HIDE DEF K
  <2> QED BY <1>4
<1> QED BY <1>1, <1>5

\* The bit of c with the value Pow2(i)
BitOf(c, i) == (c \div Pow2(i)) % 2

\* biReverse, a bit at a time
LEMMA ReverseIs ==
  ASSUME NEW c \in Nat, NEW n \in Nat
  PROVE  \E r \in [0 .. n -> Nat] :
           BiReverse(c, n) = r[n] /\ r[0] = 0 /\ \A i \in 1 .. n : r[i] = 2 * r[i - 1] + BitOf(c, i - 1)
<1> DEFINE G == [x \in Nat \X (1 .. n) |-> 2 * x[1] + BitOf(c, x[2] - 1)]
           Eqn(p) == p = [i \in 0 .. n |-> IF i = 0 THEN 0 ELSE 2 * p[i - 1] + ((c \div Pow2(i - 1)) % 2)]
           run == CHOOSE p : Eqn(p)
<1>0. \A i \in Nat : BitOf(c, i) \in 0 .. 1
  <2> TAKE i \in Nat
  <2>1. Pow2(i) \in Nat /\ Pow2(i) >= 1
    BY Pow2Positive
  <2>2. c \div Pow2(i) \in Nat
    BY <2>1
  <2> QED BY <2>2 DEF BitOf
<1>1. \A x \in Nat, i \in 1 .. n : G[<<x, i>>] = 2 * x + BitOf(c, i - 1) /\ G[<<x, i>>] \in Nat
  <2> TAKE x \in Nat, i \in 1 .. n
  <2>1. G[<<x, i>>] = 2 * x + BitOf(c, i - 1)
    OBVIOUS
  <2>2. i - 1 \in Nat
    OBVIOUS
  <2>3. BitOf(c, i - 1) \in 0 .. 1
    BY <1>0, <2>2
  <2> HIDE DEF G
  <2> QED BY <2>1, <2>3
<1> HIDE DEF G
<1>2. StepsIn(G, Nat, n)
  BY <1>1 DEF StepsIn
<1>3. PICK f : Loop(f, Nat, 0, n, G)
  BY <1>2, LoopExists
<1>4. f \in [0 .. n -> Nat] /\ f[0] = 0 /\ \A i \in 1 .. n : f[i] = 2 * f[i - 1] + BitOf(c, i - 1)
  <2>1. f \in [0 .. n -> Nat] /\ f[0] = 0 /\ \A i \in 1 .. n : f[i] = G[<<f[i - 1], i>>]
    BY <1>3 DEF Loop
  <2>2. ASSUME NEW i \in 1 .. n PROVE f[i] = 2 * f[i - 1] + BitOf(c, i - 1)
    <3>1. f[i - 1] \in Nat
      BY <2>1
    <3> QED BY <1>1, <2>1, <3>1
  <2> QED BY <2>1, <2>2
<1>5. Eqn(f)
  <2> SUFFICES ASSUME NEW i \in 0 .. n PROVE f[i] = IF i = 0 THEN 0 ELSE 2 * f[i - 1] + BitOf(c, i - 1)
    BY <1>4 DEF BitOf
  <2>1. CASE i = 0
    BY <1>4, <2>1
  <2>2. CASE i # 0
    BY <1>4, <2>2
  <2> QED BY <2>1, <2>2
<1>6. Eqn(run)
  BY <1>5
<1>7. BiReverse(c, n) = run[n]
  BY DEF BiReverse
<1> HIDE DEF run
<1>8. DOMAIN run = 0 .. n /\ run = [i \in DOMAIN run |-> run[i]]
      /\ run[0] = 0 /\ \A i \in 1 .. n : run[i] = 2 * run[i - 1] + BitOf(c, i - 1)
  BY <1>6 DEF BitOf
<1>9. ASSUME NEW i \in 1 .. n, run[i - 1] \in Nat PROVE run[i] = G[<<run[i - 1], i>>]
  BY <1>1, <1>8, <1>9
<1>10. Loop(run, Nat, 0, n, G)
  BY <1>2, <1>8, <1>9, LoopIs
<1> QED BY <1>7, <1>8, <1>10 DEF Loop

\* biReverse takes one bit more (trees.go:164-177)
LEMMA ReverseStep ==
  ASSUME NEW c \in Nat, NEW n \in Nat
  PROVE  BiReverse(c, n) \in Nat /\ BiReverse(c, n + 1) = 2 * BiReverse(c, n) + BitOf(c, n)
<1>1. PICK p \in [0 .. n -> Nat] :
        BiReverse(c, n) = p[n] /\ p[0] = 0 /\ \A i \in 1 .. n : p[i] = 2 * p[i - 1] + BitOf(c, i - 1)
  BY ReverseIs
<1>2. n + 1 \in Nat
  OBVIOUS
<1>3. PICK q \in [0 .. n + 1 -> Nat] :
        /\ BiReverse(c, n + 1) = q[n + 1] /\ q[0] = 0
        /\ \A i \in 1 .. n + 1 : q[i] = 2 * q[i - 1] + BitOf(c, i - 1)
  BY <1>2, ReverseIs
<1> DEFINE K == {k \in Nat : k <= n => p[k] = q[k]}
<1>4. 0 \in K
  BY <1>1, <1>3
<1>5. ASSUME NEW k \in 0 .. n - 1, k \in K PROVE k + 1 \in K
  <2>1. k + 1 \in 1 .. n /\ k + 1 \in 1 .. n + 1 /\ (k + 1) - 1 = k /\ k \in Nat /\ k + 1 \in Nat /\ k <= n
    OBVIOUS
  <2>2. p[k] = q[k]
    BY <1>5, <2>1
  <2>3. p[k + 1] = 2 * p[k] + BitOf(c, k) /\ q[k + 1] = 2 * q[k] + BitOf(c, k)
    BY <1>1, <1>3, <2>1
  <2> QED BY <2>1, <2>2, <2>3
<1>6. \A k \in 0 .. n : k \in K
  <2> HIDE DEF K
  <2> QED BY <1>4, <1>5, InductionUpTo
<1>7. p[n] = q[n]
  BY <1>6
<1>8. n + 1 \in 1 .. n + 1 /\ (n + 1) - 1 = n
  OBVIOUS
<1>9. q[n + 1] = 2 * q[n] + BitOf(c, n)
  BY <1>3, <1>8
<1> QED BY <1>1, <1>3, <1>7, <1>9

LEMMA ReverseZero == \A c \in Nat : BiReverse(c, 0) = 0
<1> TAKE c \in Nat
<1>1. 0 \in Nat
  OBVIOUS
<1> QED BY <1>1, ReverseIs, ZenonT(60)

\* Reversed in two parts
LEMMA ReverseSum ==
  ASSUME NEW c \in Nat, NEW i \in Nat, NEW j \in Nat
  PROVE  BiReverse(c, i + j) = Pow2(j) * BiReverse(c, i) + BiReverse(c \div Pow2(i), j)
<1> DEFINE d == c \div Pow2(i)
           b == BiReverse(c, i)
           K == {k \in Nat : BiReverse(c, i + k) = Pow2(k) * b + BiReverse(d, k)}
<1>1. d \in Nat /\ b \in Nat
  <2>1. 0 \in Nat
    OBVIOUS
  <2> QED BY <2>1, DivTwice, ReverseStep
<1>2. 0 \in K
  <2>1. BiReverse(d, 0) = 0
    BY <1>1, ReverseZero
  <2>2. Pow2(0) = 1 /\ i + 0 = i
    BY Pow2Zero
  <2> HIDE DEF b, d
  <2>3. Pow2(0) * b + BiReverse(d, 0) = b
    BY <1>1, <2>1, <2>2
  <2> QED BY <2>2, <2>3 DEF b
<1>3. ASSUME NEW k \in 0 .. j - 1, k \in K PROVE k + 1 \in K
  <2>1. k \in Nat /\ k + 1 \in Nat /\ i + k \in Nat /\ i + (k + 1) = (i + k) + 1
    OBVIOUS
  <2>2. BiReverse(c, (i + k) + 1) = 2 * BiReverse(c, i + k) + BitOf(c, i + k)
    BY <2>1, ReverseStep
  <2> HIDE DEF b
  <2>3. BiReverse(d, k + 1) = 2 * BiReverse(d, k) + BitOf(d, k) /\ BiReverse(d, k) \in Nat
    <3> HIDE DEF d
    <3> QED BY <1>1, <2>1, ReverseStep
  <2>4. BitOf(d, k) = BitOf(c, i + k) /\ BitOf(d, k) \in Nat
    <3>1. d \div Pow2(k) = c \div Pow2(i + k)
      BY <2>1, DivTwice
    <3>2. d \div Pow2(k) \in Nat
      <4> HIDE DEF d
      <4> QED BY <1>1, <2>1, DivTwice
    <3> HIDE DEF d
    <3>3. BitOf(d, k) \in Nat
      BY <3>2 DEF BitOf
    <3> QED BY <3>1, <3>3 DEF BitOf
  <2>5. BiReverse(c, i + k) = Pow2(k) * b + BiReverse(d, k)
    BY <1>3
  <2>6. Pow2(k + 1) = 2 * Pow2(k) /\ Pow2(k) \in Nat
    BY <2>1, Pow2Step
  <2> DEFINE p == Pow2(k)
             e == BiReverse(d, k)
             z == BitOf(d, k)
  <2>7. BiReverse(c, i + (k + 1)) = 2 * (p * b + e) + z
    BY <2>1, <2>2, <2>4, <2>5
  <2>8. BiReverse(d, k + 1) = 2 * e + z /\ Pow2(k + 1) = 2 * p /\ p \in Nat /\ e \in Nat /\ z \in Nat
    BY <2>3, <2>4, <2>6
  <2> HIDE DEF d, p, e, z
  <2>9. (2 * p) * b + (2 * e + z) = 2 * (p * b + e) + z
    <3>1. (2 * p) * b = 2 * (p * b) /\ p * b \in Nat
      BY <1>1, <2>8
    <3> QED BY <2>8, <3>1
  <2> QED BY <2>1, <2>7, <2>8, <2>9
<1>4. \A k \in 0 .. j : k \in K
  <2> HIDE DEF K
  <2> QED BY <1>2, <1>3, InductionUpTo
<1>5. j \in K
  <2> HIDE DEF K
  <2> QED BY <1>4
<1> QED BY <1>5

LEMMA ReverseBelow ==
  ASSUME NEW c \in Nat, NEW n \in Nat
  PROVE  BiReverse(c, n) \in 0 .. Pow2(n) - 1
<1> DEFINE K == {k \in Nat : BiReverse(c, k) \in 0 .. Pow2(k) - 1}
<1>1. 0 \in K
  BY ReverseZero, Pow2Zero
<1>2. ASSUME NEW k \in 0 .. n - 1, k \in K PROVE k + 1 \in K
  <2>1. k \in Nat /\ k + 1 \in Nat
    OBVIOUS
  <2>2. BiReverse(c, k + 1) = 2 * BiReverse(c, k) + BitOf(c, k) /\ BiReverse(c, k) \in Nat
    BY <2>1, ReverseStep
  <2>3. Pow2(k + 1) = 2 * Pow2(k) /\ Pow2(k) \in Nat
    BY <2>1, Pow2Step
  <2>4. c \div Pow2(k) \in Nat
    BY <2>1, DivTwice
  <2>5. BitOf(c, k) \in 0 .. 1
    BY <2>4 DEF BitOf
  <2>6. BiReverse(c, k) \in 0 .. Pow2(k) - 1
    BY <1>2
  <2> QED BY <2>1, <2>2, <2>3, <2>5, <2>6
<1>3. \A k \in 0 .. n : k \in K
  <2> HIDE DEF K
  <2> QED BY <1>1, <1>2, InductionUpTo
<1>4. n \in K
  <2> HIDE DEF K
  <2> QED BY <1>3
<1> QED BY <1>4

\* Numbers of n bits with the same reverse are the same
LEMMA ReverseInjective ==
  ASSUME NEW n \in Nat
  PROVE  \A c, d \in 0 .. Pow2(n) - 1 : BiReverse(c, n) = BiReverse(d, n) => c = d
<1> DEFINE Inj(k) == \A c, d \in 0 .. Pow2(k) - 1 : BiReverse(c, k) = BiReverse(d, k) => c = d
           K == {k \in Nat : Inj(k)}
<1>1. 0 \in K
  BY Pow2Zero
<1>2. ASSUME NEW k \in 0 .. n - 1, k \in K PROVE k + 1 \in K
  <2>1. k \in Nat /\ k + 1 \in Nat /\ 1 \in Nat /\ 1 + k = k + 1
    OBVIOUS
  <2>2. Pow2(k + 1) = 2 * Pow2(k) /\ Pow2(k) \in Nat /\ Pow2(k) >= 1
    BY <2>1, Pow2Step, Pow2Positive
  <2>3. ASSUME NEW c \in 0 .. Pow2(k + 1) - 1
        PROVE  /\ BiReverse(c, k + 1) = Pow2(k) * (c % 2) + BiReverse(c \div 2, k)
               /\ c \div 2 \in 0 .. Pow2(k) - 1 /\ c % 2 \in 0 .. 1 /\ c = 2 * (c \div 2) + (c % 2)
               /\ BiReverse(c \div 2, k) \in 0 .. Pow2(k) - 1
    <3>1. c \in Nat
      BY <2>2
    <3>2. c \div 2 \in 0 .. Pow2(k) - 1 /\ c % 2 \in 0 .. 1 /\ c = 2 * (c \div 2) + (c % 2)
      BY <2>2, <3>1
    <3>3. Pow2(1) = 2 /\ Pow2(0) = 1
      <4>1. 0 \in Nat /\ 0 + 1 = 1
        OBVIOUS
      <4>2. Pow2(0 + 1) = 2 * Pow2(0)
        BY <4>1, Pow2Step
      <4> QED BY <4>1, <4>2, Pow2Zero
    <3>4. BiReverse(c, 1) = c % 2
      <4>1. 0 \in Nat /\ 0 + 1 = 1 /\ c \div 1 = c
        BY <3>1
      <4>2. BiReverse(c, 0 + 1) = 2 * BiReverse(c, 0) + BitOf(c, 0)
        BY <3>1, <4>1, ReverseStep
      <4>3. BiReverse(c, 0) = 0
        BY <3>1, ReverseZero
      <4>4. BitOf(c, 0) = c % 2
        BY <3>3, <4>1 DEF BitOf
      <4> QED BY <3>2, <4>1, <4>2, <4>3, <4>4
    <3>5. BiReverse(c, 1 + k) = Pow2(k) * BiReverse(c, 1) + BiReverse(c \div Pow2(1), k)
      BY <2>1, <3>1, ReverseSum
    <3>6. BiReverse(c \div 2, k) \in 0 .. Pow2(k) - 1
      <4>1. c \div 2 \in Nat
        BY <3>1
      <4> HIDE DEF Inj, K
      <4> QED BY <2>1, <4>1, ReverseBelow
    <3>7. BiReverse(c, k + 1) = Pow2(k) * (c % 2) + BiReverse(c \div 2, k)
      BY <2>1, <3>3, <3>4, <3>5
    <3> QED BY <3>2, <3>6, <3>7
  <2>4. ASSUME NEW c \in 0 .. Pow2(k + 1) - 1, NEW d \in 0 .. Pow2(k + 1) - 1,
               BiReverse(c, k + 1) = BiReverse(d, k + 1)
        PROVE  c = d
    <3> DEFINE p == Pow2(k)
               x == BiReverse(c \div 2, k)
               y == BiReverse(d \div 2, k)
               r == c % 2
               s == d % 2
    <3>1. p * r + x = p * s + y /\ x \in 0 .. p - 1 /\ y \in 0 .. p - 1 /\ r \in 0 .. 1 /\ s \in 0 .. 1
      BY <2>3, <2>4
    <3>2. p \in Nat
      BY <2>2
    <3> HIDE DEF p, x, y, r, s
    <3>3. r = s /\ x = y
      <4>1. \A v \in 0 .. 1 : p * v = IF v = 0 THEN 0 ELSE p
        BY <3>2
      <4>2. /\ p * r = IF r = 0 THEN 0 ELSE p
            /\ p * s = IF s = 0 THEN 0 ELSE p
        BY <3>1, <4>1
      <4> DEFINE pr == p * r
                 ps == p * s
      <4>3. pr = (IF r = 0 THEN 0 ELSE p) /\ ps = (IF s = 0 THEN 0 ELSE p) /\ pr + x = ps + y
        BY <3>1, <4>2
      <4> HIDE DEF pr, ps
      <4> QED BY <3>1, <3>2, <4>3
    <3>4. c \div 2 = d \div 2
      <4>1. c \div 2 \in 0 .. Pow2(k) - 1 /\ d \div 2 \in 0 .. Pow2(k) - 1
        BY <2>3
      <4>2. BiReverse(c \div 2, k) = BiReverse(d \div 2, k)
        BY <3>3 DEF x, y
      <4>3. Inj(k)
        BY <1>2
      <4> QED BY <4>1, <4>2, <4>3
    <3>5. c % 2 = d % 2
      BY <3>3 DEF r, s
    <3> QED BY <2>3, <3>4, <3>5
  <2> HIDE DEF K
  <2>5. Inj(k + 1)
    BY <2>4
  <2> HIDE DEF Inj
  <2> QED BY <2>1, <2>5 DEF K
<1>3. \A k \in 0 .. n : k \in K
  <2> HIDE DEF K
  <2> QED BY <1>1, <1>2, InductionUpTo
<1>4. n \in K
  <2> HIDE DEF K
  <2> QED BY <1>3
<1> QED BY <1>4

\* A code of k bits begins a longer one, as they are sent, only if it is its top bits
LEMMA ReversedApart ==
  ASSUME NEW k \in Nat, NEW i \in Nat, NEW c \in 0 .. Pow2(k) - 1, NEW d \in Nat,
         d < Pow2(i + k), d \div Pow2(i) # c
  PROVE  BiReverse(c, k) # BiReverse(d, i + k) % Pow2(k)
<1> DEFINE e == d \div Pow2(i)
           p == Pow2(k)
           x == BiReverse(d, i)
           y == BiReverse(e, k)
<1>1. p \in Nat /\ p >= 1 /\ Pow2(i) \in Nat /\ Pow2(i) >= 1 /\ e \in Nat
  BY Pow2Positive, DivTwice
<1>2. BiReverse(d, i + k) = p * x + y
  BY ReverseSum
<1>3. x \in Nat
  BY ReverseStep
<1> HIDE DEF e, p, x
<1>4. y \in 0 .. p - 1
  BY <1>1, ReverseBelow DEF p
<1> HIDE DEF y
<1>5. (p * x + y) % p = y
  BY <1>1, <1>3, <1>4, DivIs
<1>6. e \in 0 .. p - 1
  <2>1. d < Pow2(i) * p
    BY Pow2Sum DEF p
  <2> DEFINE q == Pow2(i)
             r == d % Pow2(i)
  <2>2. q \in Nat /\ q >= 1 /\ d < q * p
    BY <1>1, <2>1
  <2>4. d = q * e + r /\ r \in 0 .. q - 1
    <3> HIDE DEF q
    <3>1. d = q * (d \div q) + (d % q) /\ d % q \in 0 .. q - 1
      BY <2>2
    <3> QED BY <3>1 DEF e, q
  <2> HIDE DEF q, r
  <2>3. ASSUME e >= p PROVE FALSE
    <3>1. PICK z \in Nat : e = p + z
      <4>1. e - p \in Nat /\ e = p + (e - p)
        BY <1>1, <2>3
      <4> QED BY <4>1
    <3>2. q * e = q * p + q * z /\ q * z \in Nat /\ q * p \in Nat
      BY <1>1, <2>2, <3>1
    <3> QED BY <2>2, <2>4, <3>2
  <2> QED BY <1>1, <2>3
<1>7. BiReverse(c, k) # y
  <2>1. c \in 0 .. Pow2(k) - 1 /\ e \in 0 .. Pow2(k) - 1 /\ e # c
    BY <1>6 DEF e, p
  <2> QED BY <2>1, ReverseInjective DEF y
<1> QED BY <1>2, <1>5, <1>7 DEF p

-----------------------------------------------------------------------------
(* genCodes                                                                *)

\* next_code: next[b] is the first code of length b
NextCodes(next, count) ==
  /\ next \in [Levels -> Nat] /\ next[0] = 0
  /\ \A b \in 1 .. Limit : next[b] = 2 * (next[b - 1] + count[b - 1])

\* The symbols before n with a code of the same length
Rank(len, n) == Cardinality({m \in 0 .. n - 1 : len[m] = len[n]})

\* genCodes: a code is its length's first code plus its rank, reversed (trees.go:377-395)
LEMMA GenCodesIs ==
  ASSUME Limit \in Nat, NEW len, NEW m \in Nat,
         NEW count, count = LengthCount(len, m, Limit), count \in [Levels -> Nat]
  PROVE  \E next : /\ NextCodes(next, count)
                   /\ \A n \in Coded(len, m) :
                        GenCodes(len, m, Limit)[n] = BiReverse(next[len[n]] + Rank(len, n), len[n])
<1> DEFINE L == Limit
           G == [x \in Nat \X (1 .. L) |-> 2 * (x[1] + count[x[2] - 1])]
           Eqn(p) == p = [b \in 0 .. L |-> IF b = 0 THEN 0 ELSE 2 * (p[b - 1] + count[b - 1])]
           run == CHOOSE p : Eqn(p)
<1>0. L \in Nat /\ \A i \in 1 .. L : i - 1 \in Levels /\ count[i - 1] \in Nat
  <2>1. \A i \in 1 .. L : i - 1 \in Levels
    BY DEF Levels
  <2> QED BY <2>1
<1>1. \A x \in Nat, i \in 1 .. L : G[<<x, i>>] = 2 * (x + count[i - 1]) /\ G[<<x, i>>] \in Nat
  BY <1>0
<1> HIDE DEF G, L
<1>2. StepsIn(G, Nat, L)
  BY <1>1 DEF StepsIn
<1>3. PICK f : Loop(f, Nat, 0, L, G)
  BY <1>0, <1>2, LoopExists
<1>4. f \in [0 .. L -> Nat] /\ f[0] = 0 /\ \A i \in 1 .. L : f[i] = 2 * (f[i - 1] + count[i - 1])
  <2>1. f \in [0 .. L -> Nat] /\ f[0] = 0 /\ \A i \in 1 .. L : f[i] = G[<<f[i - 1], i>>]
    BY <1>3 DEF Loop
  <2>2. ASSUME NEW i \in 1 .. L PROVE f[i] = 2 * (f[i - 1] + count[i - 1])
    <3>1. f[i - 1] \in Nat
      BY <1>0, <2>1
    <3> QED BY <1>1, <2>1, <3>1
  <2> QED BY <2>1, <2>2
<1>5. Eqn(f)
  <2> SUFFICES ASSUME NEW i \in 0 .. L PROVE f[i] = IF i = 0 THEN 0 ELSE 2 * (f[i - 1] + count[i - 1])
    BY <1>4
  <2>1. CASE i = 0
    BY <1>4, <2>1
  <2>2. CASE i # 0
    <3>1. i \in 1 .. L
      BY <1>0, <2>2
    <3> QED BY <1>4, <2>2, <3>1
  <2> QED BY <2>1, <2>2
<1>6. Eqn(run)
  BY <1>5
<1>7. \A n \in Coded(len, m) : GenCodes(len, m, Limit)[n] = BiReverse(run[len[n]] + Rank(len, n), len[n])
  BY DEF GenCodes, Coded, Rank, L
<1> HIDE DEF run
<1>8. DOMAIN run = 0 .. L /\ run = [i \in DOMAIN run |-> run[i]]
      /\ run[0] = 0 /\ \A i \in 1 .. L : run[i] = 2 * (run[i - 1] + count[i - 1])
  <2>1. DOMAIN run = 0 .. L /\ run = [i \in DOMAIN run |-> run[i]]
    BY <1>6
  <2>2. \A b \in 0 .. L : run[b] = IF b = 0 THEN 0 ELSE 2 * (run[b - 1] + count[b - 1])
    BY <1>6
  <2> HIDE DEF Eqn
  <2>3. 0 \in 0 .. L /\ \A i \in 1 .. L : i \in 0 .. L /\ i # 0
    BY <1>0
  <2> QED BY <2>1, <2>2, <2>3
<1>9. ASSUME NEW i \in 1 .. L, run[i - 1] \in Nat PROVE run[i] = G[<<run[i - 1], i>>]
  BY <1>1, <1>8, <1>9
<1>10. Loop(run, Nat, 0, L, G)
  BY <1>0, <1>2, <1>8, <1>9, LoopIs
<1>11. NextCodes(run, count)
  BY <1>8, <1>10 DEF Loop, NextCodes, Levels, L
<1> QED BY <1>7, <1>11

\* What the codes up to length b take of all the bit patterns
LEMMA NextShares ==
  ASSUME Limit \in Nat, NEW count \in [Levels -> Nat], NEW next, NextCodes(next, count)
  PROVE  \A b \in Levels : (next[b] + count[b]) * Pow(b)
                             = SumOn([c \in Levels |-> count[c] * Pow(c)], 0 .. b)
<1> DEFINE w == [c \in Levels |-> count[c] * Pow(c)]
           L == Limit
           K == {b \in Nat : b <= L => (next[b] + count[b]) * Pow(b) = SumOn(w, 0 .. b)}
<1>1. /\ \A b \in Levels : Pow(b) \in Nat /\ count[b] \in Nat /\ next[b] \in Nat
      /\ next[0] = 0 /\ \A b \in 1 .. L : next[b] = 2 * (next[b - 1] + count[b - 1])
      /\ Levels = 0 .. L /\ L \in Nat
  BY LevelsIs DEF NextCodes, Levels
<1>2. \A b \in Levels : w[b] = count[b] * Pow(b) /\ w[b] \in Nat
  BY <1>1
<1> HIDE DEF w
<1>3. 0 \in K
  <2>1. 0 \in Levels
    BY <1>1
  <2>2. w[0] = (next[0] + count[0]) * Pow(0) /\ w[0] \in Nat
    BY <1>1, <1>2, <2>1
  <2>3. 0 .. 0 = {} \cup {0}
    OBVIOUS
  <2>4. IsFiniteSet({})
    BY FS_EmptySet
  <2> DEFINE E == {}
  <2>5. IsFiniteSet(E) /\ 0 \notin E /\ IntOn(w, E \cup {0}) /\ SumOn(w, E) = 0
    BY <2>2, <2>4, SumOnEmpty DEF IntOn
  <2> HIDE DEF E
  <2>6. SumOn(w, E \cup {0}) = w[0] + SumOn(w, E)
    BY <2>5, SumOnAdd
  <2>7. SumOn(w, 0 .. 0) = w[0]
    BY <2>2, <2>3, <2>5, <2>6 DEF E
  <2> QED BY <2>2, <2>7
<1>4. ASSUME NEW b \in 0 .. L - 1, b \in K PROVE b + 1 \in K
  <2>1. /\ b \in Levels /\ b + 1 \in Levels /\ b \in Nat /\ b + 1 \in Nat /\ b <= L
        /\ b + 1 \in 1 .. L /\ (b + 1) - 1 = b /\ 0 <= b + 1 /\ b \in Int
    BY <1>1
  <2>2. (next[b] + count[b]) * Pow(b) = SumOn(w, 0 .. b)
    BY <1>4, <2>1
  <2>3. SumOn(w, 0 .. b + 1) = SumOn(w, 0 .. b) + w[b + 1]
    <3>1. IntOn(w, 0 .. b + 1)
      <4>1. 0 .. b + 1 \subseteq Levels
        BY <1>1, <2>1
      <4> QED BY <1>2, <4>1 DEF IntOn
    <3> QED BY <2>1, <3>1, IntervalAdd
  <2>4. next[b + 1] = 2 * (next[b] + count[b])
    BY <1>1, <2>1
  <2>5. Pow(b) = 2 * Pow(b + 1)
    <3>1. b < L
      BY <1>1
    <3> HIDE DEF K
    <3>2. Pow2(L - b) = 2 * Pow2(L - (b + 1))
      BY <1>1, <2>1, <3>1, Pow2Half
    <3> QED BY <3>2 DEF Pow, L, Limit
  <2> DEFINE x == next[b] + count[b]
             p == Pow(b + 1)
             c == count[b + 1]
  <2>6. x \in Nat /\ p \in Nat /\ c \in Nat
    BY <1>1, <2>1
  <2>7. w[b + 1] = c * p
    BY <1>2, <2>1
  <2>8. x * (2 * p) = SumOn(w, 0 .. b) /\ next[b + 1] + count[b + 1] = 2 * x + c
    BY <2>2, <2>4, <2>5
  <2> HIDE DEF x, c, K
  <2>9. (2 * x + c) * p = x * (2 * p) + c * p
    <3> HIDE DEF p
    <3>1. (2 * x + c) * p = (2 * x) * p + c * p /\ (2 * x) * p = x * (2 * p)
      BY <2>6
    <3> QED BY <3>1
  <2>10. (next[b + 1] + count[b + 1]) * Pow(b + 1) = SumOn(w, 0 .. b + 1)
    BY <2>3, <2>7, <2>8, <2>9
  <2> QED BY <2>1, <2>10 DEF K
<1>5. \A b \in 0 .. L : b \in K
  <2> HIDE DEF K
  <2> QED BY <1>1, <1>3, <1>4, InductionUpTo
<1> QED BY <1>1, <1>5 DEF w

\* There are as many bit patterns as the codes of each length need
LEMMA NextFits ==
  ASSUME Limit \in Nat, NEW count \in [Levels -> Nat], NEW next, NextCodes(next, count),
         Kraft(count) <= Pow(0)
  PROVE  \A b \in Levels : next[b] + count[b] <= Pow2(b)
<1> TAKE b \in Levels
<1> DEFINE w == [c \in Levels |-> count[c] * Pow(c)]
           x == next[b] + count[b]
           p == Pow(b)
           q == Pow2(b)
<1>1. x * p = SumOn(w, 0 .. b)
  BY NextShares
<1>2. p \in Nat /\ p >= 1 /\ x \in Nat /\ q \in Nat /\ b \in Nat /\ b <= Limit
  <2>1. b \in Nat /\ b <= Limit
    BY DEF Levels
  <2> QED BY <2>1, LevelsIs, Pow2Positive DEF NextCodes
<1>3. \A c \in Levels : w[c] \in Nat
  <2>1. \A c \in Levels : count[c] \in Nat /\ Pow(c) \in Nat
    BY LevelsIs
  <2> QED BY <2>1
<1>4. SumOn(w, 0 .. b) <= SumOn(w, Levels) /\ SumOn(w, 0 .. b) \in Nat /\ SumOn(w, Levels) \in Nat
  <2>1. 0 .. b \in SUBSET Levels
    BY <1>2 DEF Levels
  <2>2. IsFiniteSet(Levels)
    BY LevelsIs
  <2> HIDE DEF w
  <2>3. SumOn(w, Levels) \in Nat
    BY <1>3, <2>2, SumOnNat
  <2> QED BY <1>3, <2>1, <2>2, <2>3, SumOnSubset
<1>5. Pow(0) = q * p
  <2>1. Limit - b \in Nat /\ b + (Limit - b) = Limit /\ Limit - 0 = Limit
    BY <1>2
  <2>2. Pow2(b + (Limit - b)) = Pow2(b) * Pow2(Limit - b)
    BY <1>2, <2>1, Pow2Sum
  <2> QED BY <2>1, <2>2 DEF Pow, Limit
<1>6. x * p <= q * p
  <2>1. Kraft(count) = SumOn(w, Levels)
    BY DEF Kraft
  <2> HIDE DEF w, x, p, q
  <2>2. SumOn(w, Levels) <= q * p
    BY <1>5, <2>1
  <2> DEFINE u == x * p
             v == q * p
             y == SumOn(w, 0 .. b)
             z == SumOn(w, Levels)
  <2>3. u = y /\ y <= z /\ z <= v /\ y \in Int /\ z \in Int
    BY <1>1, <1>4, <2>2
  <2>4. v \in Int
    BY <1>2
  <2> HIDE DEF u, v, y, z
  <2>5. u <= v
    BY <2>3, <2>4
  <2> QED BY <2>5 DEF u, v
<1> HIDE DEF x, p, q
<1>7. ASSUME x > q PROVE FALSE
  <2>1. PICK z \in Nat : x = (q + z) + 1
    <3>1. x - (q + 1) \in Nat /\ x = (q + (x - (q + 1))) + 1
      BY <1>2, <1>7
    <3> QED BY <3>1
  <2>2. x * p = (q * p + z * p) + p /\ z * p \in Nat /\ q * p \in Nat
    BY <1>2, <2>1
  <2> QED BY <1>2, <1>6, <2>2
<1>8. x <= q
  BY <1>2, <1>7
<1> QED BY <1>8 DEF x, q

\* Longer codes start above the shorter ones
LEMMA NextGrows ==
  ASSUME Limit \in Nat, NEW count \in [Levels -> Nat], NEW next, NextCodes(next, count),
         NEW b \in Levels, NEW i \in Nat, i >= 1, b + i <= Limit
  PROVE  (next[b] + count[b]) * Pow2(i) <= next[b + i]
<1> DEFINE x == next[b] + count[b]
           K == {k \in Nat : k < i => x * Pow2(k + 1) <= next[b + (k + 1)]}
<1>1. /\ \A c \in Levels : count[c] \in Nat /\ next[c] \in Nat
      /\ \A c \in 1 .. Limit : next[c] = 2 * (next[c - 1] + count[c - 1])
      /\ b \in Nat /\ b <= Limit /\ x \in Nat /\ \A k \in 0 .. Limit : k \in Levels
  BY DEF NextCodes, Levels
<1> HIDE DEF x
<1>2. 0 \in K
  <2>1. b + 1 \in 1 .. Limit /\ (b + 1) - 1 = b /\ 0 + 1 = 1 /\ 0 \in Nat
    BY <1>1
  <2>2. next[b + 1] = 2 * x
    BY <1>1, <2>1 DEF x
  <2>3. Pow2(1) = 2
    <3>1. Pow2(0 + 1) = 2 * Pow2(0)
      BY <2>1, Pow2Step
    <3> QED BY <2>1, <3>1, Pow2Zero
  <2>4. x * Pow2(1) <= next[b + 1]
    BY <1>1, <2>2, <2>3
  <2> QED BY <2>1, <2>4
<1>3. ASSUME NEW k \in 0 .. i - 1, k \in K PROVE k + 1 \in K
  <2> SUFFICES ASSUME k + 1 < i PROVE x * Pow2((k + 1) + 1) <= next[b + ((k + 1) + 1)]
    <3>1. k + 1 \in Nat
      OBVIOUS
    <3> QED BY <3>1
  <2>1. /\ k \in Nat /\ k + 1 \in Nat /\ k < i
        /\ b + ((k + 1) + 1) \in 1 .. Limit /\ (b + ((k + 1) + 1)) - 1 = b + (k + 1)
        /\ b + (k + 1) \in Levels
    BY <1>1
  <2>2. x * Pow2(k + 1) <= next[b + (k + 1)]
    BY <1>3, <2>1
  <2>3. next[b + ((k + 1) + 1)] = 2 * (next[b + (k + 1)] + count[b + (k + 1)])
    BY <1>1, <2>1
  <2>4. Pow2((k + 1) + 1) = 2 * Pow2(k + 1) /\ Pow2(k + 1) \in Nat
    BY <2>1, Pow2Step
  <2> DEFINE p == Pow2(k + 1)
             n == next[b + (k + 1)]
             c == count[b + (k + 1)]
  <2>5. p \in Nat /\ n \in Nat /\ c \in Nat /\ x * p <= n
    BY <1>1, <2>1, <2>2, <2>4
  <2>6. Pow2((k + 1) + 1) = 2 * p /\ next[b + ((k + 1) + 1)] = 2 * (n + c)
    BY <2>3, <2>4
  <2> HIDE DEF p, n, c, K
  <2>7. x * (2 * p) = 2 * (x * p) /\ x * p \in Nat
    BY <1>1, <2>5
  <2>8. x * (2 * p) <= 2 * (n + c)
    BY <2>5, <2>7
  <2> QED BY <2>6, <2>8
<1>4. \A k \in 0 .. i : k \in K
  <2> HIDE DEF K
  <2> QED BY <1>2, <1>3, InductionUpTo
<1>5. i - 1 \in Nat /\ i - 1 < i /\ (i - 1) + 1 = i /\ i - 1 \in K
  <2>1. i - 1 \in 0 .. i
    OBVIOUS
  <2>2. i - 1 \in K
    <3> HIDE DEF K
    <3> QED BY <1>4, <2>1
  <2> QED BY <2>1, <2>2
<1> QED BY <1>5 DEF x

\* A symbol and those before it with the same length count among those of that length
LEMMA RankIs ==
  ASSUME NEW len, NEW m \in Nat, NEW S, S = Coded(len, m), NEW n \in S
  PROVE  /\ Rank(len, n) \in Nat /\ Rank(len, n) + 1 <= Cardinality(Valued(len, S, len[n]))
         /\ \A k \in S : k < n /\ len[k] = len[n] => Rank(len, k) + 1 <= Rank(len, n)
<1>1. S \subseteq 0 .. m /\ IsFiniteSet(0 .. m) /\ n \in Nat /\ \A k \in S : len[k] # 0 /\ k \in Nat
  BY FS_Interval DEF Coded
<1> DEFINE R(k) == {j \in 0 .. k - 1 : len[j] = len[k]}
<1>2. ASSUME NEW k \in S
      PROVE  /\ IsFiniteSet(R(k)) /\ Rank(len, k) = Cardinality(R(k)) /\ Rank(len, k) \in Nat
             /\ k \notin R(k)
             /\ IsFiniteSet(R(k) \cup {k}) /\ Cardinality(R(k) \cup {k}) = Rank(len, k) + 1
  <2>1. k \in Nat
    BY <1>1
  <2>2. IsFiniteSet(0 .. k - 1) /\ R(k) \subseteq 0 .. k - 1 /\ k \notin R(k)
    <3>1. 0 \in Int /\ k - 1 \in Int
      BY <2>1
    <3>2. IsFiniteSet(0 .. k - 1)
      BY <3>1, FS_Interval
    <3> QED BY <2>1, <3>2
  <2>3. Rank(len, k) = Cardinality(R(k))
    BY DEF Rank
  <2> HIDE DEF R
  <2>4. IsFiniteSet(R(k))
    BY <2>2, FS_Subset
  <2>5. Cardinality(R(k)) \in Nat
    BY <2>4, FS_CardinalityType
  <2>6. IsFiniteSet(R(k) \cup {k}) /\ Cardinality(R(k) \cup {k}) = Cardinality(R(k)) + 1
    BY <2>2, <2>4, FS_AddElement
  <2> QED BY <2>2, <2>3, <2>4, <2>5, <2>6
<1>3. Rank(len, n) + 1 <= Cardinality(Valued(len, S, len[n]))
  <2> DEFINE V == Valued(len, S, len[n])
  <2>1. V \subseteq 0 .. m
    BY <1>1 DEF Valued
  <2>2. IsFiniteSet(V)
    BY <1>1, <2>1, FS_Subset
  <2>3. R(n) \cup {n} \subseteq V
    <3>1. \A j \in R(n) : j \in 0 .. m /\ len[j] # 0 /\ len[j] = len[n]
      BY <1>1
    <3> QED BY <3>1 DEF Valued, Coded
  <2> HIDE DEF R, V
  <2>4. Cardinality(R(n) \cup {n}) <= Cardinality(V)
    BY <2>2, <2>3, FS_Subset
  <2> QED BY <1>2, <2>4 DEF V
<1>4. ASSUME NEW k \in S, k < n, len[k] = len[n] PROVE Rank(len, k) + 1 <= Rank(len, n)
  <2>1. k \in Nat
    BY <1>1
  <2>2. R(k) \cup {k} \subseteq R(n)
    BY <1>1, <1>4, <2>1
  <2> HIDE DEF R
  <2>3. Cardinality(R(k) \cup {k}) <= Cardinality(R(n))
    BY <1>2, <2>2, FS_Subset
  <2> QED BY <1>2, <2>3
<1> QED BY <1>2, <1>3, <1>4

\* The codes genCodes makes of lengths that leave room for them tell the symbols apart,
\* and none of them begins another (trees.go, genCodes)
LEMMA CodesApart ==
  ASSUME Limit \in Nat, NEW len, NEW m \in Nat, NEW S, S = Coded(len, m), S \subseteq DOMAIN len,
         \A n \in S : len[n] \in 1 .. Limit,
         SumOn(Shares(len), S) <= Pow(0)
  PROVE  \A a, b \in S : a # b /\ len[a] <= len[b] =>
           GenCodes(len, m, Limit)[a] # GenCodes(len, m, Limit)[b] % Pow2(len[a])
<1> DEFINE count == LengthCount(len, m, Limit)
<1>1. IsFiniteSet(S) /\ \A n \in S : n \in Nat
  <2>1. S \subseteq 0 .. m /\ IsFiniteSet(0 .. m)
    BY FS_Interval DEF Coded
  <2> QED BY <2>1, FS_Subset
<1>2. count \in [Levels -> Nat] /\ \A b \in Levels : count[b] = Cardinality(Valued(len, S, b))
  <2>1. m \in Int
    OBVIOUS
  <2>2. /\ LengthCount(len, m, Limit) \in [0 .. Limit -> Nat]
        /\ \A i \in 0 .. Limit : LengthCount(len, m, Limit)[i] = Cardinality(Valued(len, Coded(len, m), i))
    BY <2>1, LengthCountOf
  <2> HIDE DEF count
  <2> QED BY <2>2 DEF Levels, count
<1>3. Kraft(count) <= Pow(0)
  <2> HIDE DEF count
  <2>1. Kraft(count) = SumOn(Shares(len), S)
    BY <1>1, <1>2, CountsOf
  <2> QED BY <2>1
<1>4. PICK next : /\ NextCodes(next, count)
                  /\ \A n \in S : GenCodes(len, m, Limit)[n] = BiReverse(next[len[n]] + Rank(len, n), len[n])
  BY <1>2, GenCodesIs
<1> HIDE DEF count
<1> DEFINE c(n) == next[len[n]] + Rank(len, n)
<1>5. ASSUME NEW n \in S
      PROVE  /\ len[n] \in Nat /\ len[n] \in Levels /\ len[n] <= Limit
             /\ c(n) \in Nat /\ c(n) + 1 <= next[len[n]] + count[len[n]]
             /\ next[len[n]] + count[len[n]] <= Pow2(len[n]) /\ Pow2(len[n]) \in Nat
             /\ next[len[n]] \in Nat /\ count[len[n]] \in Nat
  <2>1. len[n] \in Nat /\ len[n] \in Levels /\ len[n] <= Limit
    BY DEF Levels
  <2>2. Rank(len, n) \in Nat /\ Rank(len, n) + 1 <= Cardinality(Valued(len, S, len[n]))
    BY RankIs
  <2>3. next[len[n]] \in Nat /\ count[len[n]] \in Nat
    BY <1>2, <1>4, <2>1 DEF NextCodes
  <2>4. count[len[n]] = Cardinality(Valued(len, S, len[n]))
    BY <1>2, <2>1
  <2>5. next[len[n]] + count[len[n]] <= Pow2(len[n])
    BY <1>2, <1>3, <1>4, <2>1, NextFits
  <2>6. Pow2(len[n]) \in Nat
    BY <2>1, Pow2Positive
  <2>7. Rank(len, n) + 1 <= count[len[n]]
    BY <2>2, <2>4
  <2> QED BY <2>1, <2>2, <2>3, <2>5, <2>6, <2>7
<1> SUFFICES ASSUME NEW a \in S, NEW b \in S, a # b, len[a] <= len[b]
             PROVE  BiReverse(c(a), len[a]) # BiReverse(c(b), len[b]) % Pow2(len[a])
  BY <1>4
<1>6. PICK i \in Nat : len[b] = i + len[a]
  <2>1. len[b] - len[a] \in Nat /\ len[b] = (len[b] - len[a]) + len[a]
    BY <1>5
  <2> QED BY <2>1
<1>7. c(b) \div Pow2(i) # c(a)
  <2>1. CASE i = 0
    <3>1. len[a] = len[b]
      BY <1>5, <1>6, <2>1
    <3>2. Rank(len, a) # Rank(len, b) /\ Rank(len, a) \in Nat /\ Rank(len, b) \in Nat
      <4>1. a < b \/ b < a
        BY <1>1
      <4>2. Rank(len, a) \in Nat /\ Rank(len, b) \in Nat
        BY RankIs
      <4>3. Rank(len, a) + 1 <= Rank(len, b) \/ Rank(len, b) + 1 <= Rank(len, a)
        BY <3>1, <4>1, RankIs
      <4> QED BY <4>2, <4>3
    <3>3. c(a) # c(b)
      BY <1>5, <3>1, <3>2
    <3>4. c(b) \div 1 = c(b)
      <4>1. c(b) \in Nat
        BY <1>5
      <4> HIDE DEF c
      <4> QED BY <4>1
    <3> QED BY <2>1, <3>3, <3>4, Pow2Zero
  <2>2. CASE i # 0
    <3> DEFINE x == next[len[a]] + count[len[a]]
               p == Pow2(i)
               u == c(a)
               v == c(b)
    <3>1. x * p <= next[len[b]]
      <4>1. len[a] \in Levels /\ i >= 1 /\ len[a] + i = len[b] /\ len[a] + i <= Limit
        BY <1>5, <1>6, <2>2
      <4>2. (next[len[a]] + count[len[a]]) * Pow2(i) <= next[len[a] + i]
        BY <1>2, <1>4, <4>1, NextGrows
      <4> QED BY <4>1, <4>2
    <3>2. x \in Nat /\ p \in Nat /\ p >= 1 /\ u \in Nat /\ v \in Nat /\ u + 1 <= x
      BY <1>5, Pow2Positive
    <3>3. next[len[b]] <= v /\ next[len[b]] \in Nat
      <4>1. Rank(len, b) \in Nat
        BY RankIs
      <4> QED BY <1>5, <4>1
    <3> HIDE DEF x, p, u, v
    <3>4. x * p <= v
      <4>1. x * p \in Nat
        BY <3>2
      <4> QED BY <3>1, <3>2, <3>3, <4>1
    <3>5. v = p * (v \div p) + (v % p) /\ v % p \in 0 .. p - 1 /\ v \div p \in Nat
      BY <3>2
    <3>6. ASSUME v \div p = u PROVE FALSE
      <4>1. PICK z \in Nat : x = (u + 1) + z
        <5>1. x - (u + 1) \in Nat /\ x = (u + 1) + (x - (u + 1))
          BY <3>2
        <5> QED BY <5>1
      <4>2. x * p = (p * u + p) + z * p /\ z * p \in Nat /\ p * u \in Nat
        BY <3>2, <4>1
      <4> QED BY <3>2, <3>4, <3>5, <3>6, <4>2
    <3> QED BY <3>6 DEF p, u, v
  <2> QED BY <2>1, <2>2
<1>8. /\ c(a) \in 0 .. Pow2(len[a]) - 1 /\ c(b) \in Nat /\ c(b) < Pow2(i + len[a])
      /\ len[a] \in Nat
  BY <1>5, <1>6
<1> HIDE DEF c
<1>9. BiReverse(c(a), len[a]) # BiReverse(c(b), i + len[a]) % Pow2(len[a])
  BY <1>7, <1>8, ReversedApart
<1> QED BY <1>6, <1>9

-----------------------------------------------------------------------------
(* The runs of the coded header                                            *)

\* A finished tree of literals or distances, as far as its header goes
CodedTree(tree) == tree.maxCode \in Nat /\ \A n \in 0 .. tree.maxCode : tree.len[n] \in 0 .. MaxBits

\* The length after which the tree's are followed by its guard
LenAt(tree, n) == IF n > tree.maxCode THEN Guard ELSE tree.len[n]

RunRec == [len : 0 .. MaxBits, count : Nat, prev : Int, min : Nat]
\* What the loops of scanTree and sendTree carry from turn to turn
RunAcc == [runs : Seq(RunRec), count : Nat, prev : Int, lim : [max : Nat, min : Nat]]

\* The runs end at the places e: each has the length of its places, goes by the limits of
\* its length and the one before, and is preceded by that one
Cuts(runs, e, tree) ==
  /\ runs \in Seq(RunRec) /\ e \in [0 .. Len(runs) -> Nat] /\ e[0] = 0
  /\ \A i \in 1 .. Len(runs) :
       /\ e[i] = e[i - 1] + runs[i].count
       /\ \A k \in e[i - 1] .. e[i] - 1 : tree.len[k] = runs[i].len
       /\ runs[i].prev = IF i = 1 THEN Guard - 1 ELSE runs[i - 1].len
       /\ runs[i].count >= 1 /\ runs[i].count <= Limits(runs[i].prev, runs[i].len).max
       /\ runs[i].min = Limits(runs[i].prev, runs[i].len).min

RunTurn(tree, acc, n) ==
  LET run == [len |-> LenAt(tree, n), count |-> acc.count + 1, prev |-> acc.prev, min |-> acc.lim.min]
  IN  IF run.count < acc.lim.max /\ LenAt(tree, n) = LenAt(tree, n + 1)
      THEN [acc EXCEPT !.count = run.count]
      ELSE [runs |-> Append(acc.runs, run), count |-> 0, prev |-> LenAt(tree, n),
            lim |-> Limits(LenAt(tree, n), LenAt(tree, n + 1))]
RunStart(tree) == [runs |-> <<>>, count |-> 0, prev |-> Guard - 1,
                   lim |-> Limits(Guard - 1, LenAt(tree, 0))]

\* Before the length n: the runs that are cut, and the one that is not
RunsSoFar(acc, tree, n) ==
  /\ acc \in RunAcc
  /\ \E e : Cuts(acc.runs, e, tree) /\ e[Len(acc.runs)] + acc.count = n
  /\ acc.prev = IF Len(acc.runs) = 0 THEN Guard - 1 ELSE acc.runs[Len(acc.runs)].len
  /\ acc.lim = Limits(acc.prev, LenAt(tree, n)) /\ acc.count < acc.lim.max
  /\ \A k \in n - acc.count .. n - 1 : tree.len[k] = LenAt(tree, n)

\* The limits of a run (trees.go:519-528, 575-584)
LEMMA LimitsIs ==
  /\ \A cur, next : /\ Limits(cur, next).max \in Nat /\ Limits(cur, next).max >= 4
                    /\ Limits(cur, next).min \in Nat
                    /\ Limits(cur, next) \in [max : Nat, min : Nat]
  /\ MaxBits \in Nat /\ MaxBits < 16 /\ ZeroShort \in Int /\ ZeroLong \in Int
  /\ ZeroShort > 2 /\ ZeroShort <= 10 /\ ZeroLong > ZeroShort /\ ZeroLong <= ZeroShort + 128
<1>1. /\ MaxBits \in Nat /\ MaxBits < 16 /\ ZeroShort \in Int /\ ZeroLong \in Int
      /\ ZeroShort > 2 /\ ZeroShort <= 10 /\ ZeroLong > ZeroShort /\ ZeroLong <= ZeroShort + 128
  <2>1. /\ ZeroShort \in Nat /\ ZeroLong \in Nat /\ 2 < ZeroShort /\ ZeroShort < ZeroLong
        /\ ZeroShort <= 10 /\ ZeroLong <= ZeroShort + 128
    BY SizesAssumption
  <2>2. MaxBits \in Nat /\ MaxBits < 16
    BY LimitsPositive
  <2> QED BY <2>1, <2>2
<1>2. ASSUME NEW cur, NEW next
      PROVE  /\ Limits(cur, next).max \in Nat /\ Limits(cur, next).max >= 4
             /\ Limits(cur, next).min \in Nat
             /\ Limits(cur, next) \in [max : Nat, min : Nat]
  <2>1. CASE next = 0
    <3>1. Limits(cur, next) = [max |-> ZeroLong, min |-> 3]
      BY <2>1 DEF Limits
    <3>2. ZeroLong \in Nat /\ ZeroLong >= 4 /\ 3 \in Nat
      BY <1>1
    <3> QED BY <3>1, <3>2
  <2>2. CASE next # 0 /\ cur = next
    BY <2>2 DEF Limits, RepMax
  <2>3. CASE next # 0 /\ cur # next
    BY <2>3 DEF Limits, RepMax
  <2> QED BY <2>1, <2>2, <2>3
<1> QED BY <1>1, <1>2

\* Before the first length there is no run (trees.go:487-496)
LEMMA RunStarts ==
  ASSUME NEW tree, CodedTree(tree)
  PROVE  RunsSoFar(RunStart(tree), tree, 0)
<1> DEFINE a == RunStart(tree)
           e == [i \in 0 .. 0 |-> 0]
<1>1. /\ a.runs = <<>> /\ a.count = 0 /\ a.prev = Guard - 1 /\ a.lim = Limits(Guard - 1, LenAt(tree, 0))
      /\ a.prev \in Int /\ Guard - 1 \in Int
  BY DEF RunStart, Guard
<1>2. a \in RunAcc
  <2>1. Limits(Guard - 1, LenAt(tree, 0)) \in [max : Nat, min : Nat]
    BY LimitsIs
  <2> QED BY <2>1 DEF RunStart, RunAcc, Guard
<1> HIDE DEF a
<1>3. Cuts(a.runs, e, tree) /\ e[Len(a.runs)] + a.count = 0
  BY <1>1 DEF Cuts
<1>4. a.count < a.lim.max
  BY <1>1, LimitsIs
<1> HIDE DEF e
<1>5. \A k \in 0 - a.count .. 0 - 1 : tree.len[k] = LenAt(tree, 0)
  BY <1>1
<1>6. Len(a.runs) = 0
  BY <1>1
<1> QED BY <1>1, <1>2, <1>3, <1>4, <1>5, <1>6 DEF RunsSoFar, a

\* A length joins the run, or ends it (scanTree, sendTree)
LEMMA RunsKept ==
  ASSUME NEW tree, CodedTree(tree), NEW n \in 0 .. tree.maxCode, NEW a, RunsSoFar(a, tree, n)
  PROVE  RunsSoFar(RunTurn(tree, a, n), tree, n + 1)
<1> DEFINE run == [len |-> LenAt(tree, n), count |-> a.count + 1, prev |-> a.prev, min |-> a.lim.min]
           l == Len(a.runs)
<1>1. /\ tree.maxCode \in Nat /\ n \in Nat /\ LenAt(tree, n) = tree.len[n] /\ tree.len[n] \in 0 .. MaxBits
  BY DEF CodedTree, LenAt
<1>2. /\ a.runs \in Seq(RunRec) /\ a.count \in Nat /\ a.prev \in Int /\ a.lim \in [max : Nat, min : Nat]
      /\ a = [runs |-> a.runs, count |-> a.count, prev |-> a.prev, lim |-> a.lim]
      /\ a.prev = (IF l = 0 THEN Guard - 1 ELSE a.runs[l].len)
      /\ a.lim = Limits(a.prev, LenAt(tree, n)) /\ a.count < a.lim.max
      /\ \A k \in n - a.count .. n - 1 : tree.len[k] = LenAt(tree, n)
      /\ l \in Nat
  BY DEF RunsSoFar, RunAcc
<1>3. PICK e : Cuts(a.runs, e, tree) /\ e[l] + a.count = n
  BY DEF RunsSoFar
<1>4. /\ e \in [0 .. l -> Nat] /\ e[0] = 0
      /\ \A i \in 1 .. l :
           /\ e[i] = e[i - 1] + a.runs[i].count
           /\ \A k \in e[i - 1] .. e[i] - 1 : tree.len[k] = a.runs[i].len
           /\ a.runs[i].prev = IF i = 1 THEN Guard - 1 ELSE a.runs[i - 1].len
           /\ a.runs[i].count >= 1 /\ a.runs[i].count <= Limits(a.runs[i].prev, a.runs[i].len).max
           /\ a.runs[i].min = Limits(a.runs[i].prev, a.runs[i].len).min
  BY <1>3 DEF Cuts
<1>5. CASE run.count < a.lim.max /\ LenAt(tree, n) = LenAt(tree, n + 1)
  <2> DEFINE b == [a EXCEPT !.count = a.count + 1]
  <2>1. RunTurn(tree, a, n) = b
    BY <1>5 DEF RunTurn
  <2>2. b \in RunAcc /\ b.runs = a.runs /\ b.prev = a.prev /\ b.lim = a.lim /\ b.count = a.count + 1
    BY <1>2 DEF RunAcc
  <2> HIDE DEF b
  <2>3. \A k \in (n + 1) - b.count .. (n + 1) - 1 : tree.len[k] = LenAt(tree, n + 1)
    <3>1. ASSUME NEW k \in (n + 1) - b.count .. (n + 1) - 1 PROVE k = n \/ k \in n - a.count .. n - 1
      BY <1>1, <1>2, <2>2
    <3>2. \A k \in n - a.count .. n - 1 : tree.len[k] = LenAt(tree, n + 1)
      BY <1>2, <1>5
    <3>3. tree.len[n] = LenAt(tree, n + 1)
      BY <1>1, <1>5
    <3> QED BY <3>1, <3>2, <3>3
  <2>4. e[Len(b.runs)] + b.count = n + 1
    <3>1. e[l] \in Nat
      BY <1>2, <1>4
    <3> QED BY <1>2, <1>3, <2>2, <3>1
  <2>5. b.lim = Limits(b.prev, LenAt(tree, n + 1)) /\ b.count < b.lim.max
    BY <1>2, <1>5, <2>2
  <2>6. b.prev = IF Len(b.runs) = 0 THEN Guard - 1 ELSE b.runs[Len(b.runs)].len
    BY <1>2, <2>2
  <2>7. Cuts(b.runs, e, tree)
    BY <1>3, <2>2
  <2> QED BY <2>1, <2>2, <2>3, <2>4, <2>5, <2>6, <2>7 DEF RunsSoFar
<1>6. CASE ~(run.count < a.lim.max /\ LenAt(tree, n) = LenAt(tree, n + 1))
  <2> DEFINE runs == Append(a.runs, run)
             lim == Limits(LenAt(tree, n), LenAt(tree, n + 1))
             b == [runs |-> runs, count |-> 0, prev |-> LenAt(tree, n), lim |-> lim]
             f == [i \in 0 .. l + 1 |-> IF i <= l THEN e[i] ELSE n + 1]
  <2>1. RunTurn(tree, a, n) = b
    BY <1>6 DEF RunTurn
  <2>2. run \in RunRec /\ run.len = tree.len[n] /\ run.count = a.count + 1 /\ run.prev = a.prev
        /\ run.min = a.lim.min
    BY <1>1, <1>2 DEF RunRec
  <2> HIDE DEF run
  <2>3. /\ runs \in Seq(RunRec) /\ Len(runs) = l + 1 /\ runs[l + 1] = run
        /\ \A i \in 1 .. l : runs[i] = a.runs[i]
    BY <1>2, <2>2
  <2>4. b.runs = runs /\ b.count = 0 /\ b.prev = tree.len[n] /\ b.lim = lim
    BY <1>1
  <2>5. b \in RunAcc
    <3>1. lim \in [max : Nat, min : Nat]
      BY LimitsIs
    <3>2. LenAt(tree, n) \in Int /\ 0 \in Nat
      BY <1>1, LimitsIs
    <3> HIDE DEF runs, lim
    <3> QED BY <2>3, <3>1, <3>2 DEF RunAcc
  <2>6. lim.max >= 4 /\ lim.max \in Nat
    BY LimitsIs
  <2> HIDE DEF b, runs
  <2>7. f \in [0 .. l + 1 -> Nat] /\ f[0] = 0 /\ f[l + 1] = n + 1 /\ \A i \in 0 .. l : f[i] = e[i]
    BY <1>1, <1>2, <1>4
  <2> HIDE DEF f
  <2>8. Cuts(runs, f, tree)
    <3>1. f \in [0 .. Len(runs) -> Nat] /\ f[0] = 0
      BY <2>3, <2>7
    <3>2. ASSUME NEW i \in 1 .. Len(runs)
          PROVE  /\ f[i] = f[i - 1] + runs[i].count
                 /\ \A k \in f[i - 1] .. f[i] - 1 : tree.len[k] = runs[i].len
                 /\ runs[i].prev = IF i = 1 THEN Guard - 1 ELSE runs[i - 1].len
                 /\ runs[i].count >= 1 /\ runs[i].count <= Limits(runs[i].prev, runs[i].len).max
                 /\ runs[i].min = Limits(runs[i].prev, runs[i].len).min
      <4>1. CASE i \in 1 .. l
        <5>1. runs[i] = a.runs[i] /\ f[i] = e[i] /\ f[i - 1] = e[i - 1]
              /\ (i # 1 => runs[i - 1] = a.runs[i - 1])
          <6>1. i \in 0 .. l /\ i - 1 \in 0 .. l /\ (i # 1 => i - 1 \in 1 .. l)
            BY <1>2, <4>1
          <6>2. \A j \in 1 .. l : runs[j] = a.runs[j]
            BY <2>3
          <6>3. \A j \in 0 .. l : f[j] = e[j]
            BY <2>7
          <6> QED BY <4>1, <6>1, <6>2, <6>3
        <5> QED BY <1>4, <4>1, <5>1
      <4>2. CASE i = l + 1
        <5>1. runs[i] = run /\ f[i] = n + 1 /\ f[i - 1] = e[l] /\ e[l] \in Nat
          BY <1>2, <1>4, <2>3, <2>7, <4>2
        <5>2. e[l] + a.count = n
          BY <1>3
        <5>3. f[i] = f[i - 1] + runs[i].count
          BY <1>1, <1>2, <2>2, <5>1, <5>2
        <5>4. ASSUME NEW k \in f[i - 1] .. f[i] - 1 PROVE tree.len[k] = runs[i].len
          <6>1. k = n \/ k \in n - a.count .. n - 1
            BY <1>1, <1>2, <5>1, <5>2
          <6> QED BY <1>1, <1>2, <2>2, <5>1, <6>1, SMTT(40)
        <5>5. runs[i].prev = IF i = 1 THEN Guard - 1 ELSE runs[i - 1].len
          <6>1. i = 1 <=> l = 0
            BY <1>2, <4>2
          <6>2. l # 0 => runs[i - 1] = a.runs[l]
            <7>1. l # 0 => i - 1 = l /\ l \in 1 .. l
              BY <1>2, <4>2
            <7> QED BY <2>3, <7>1
          <6> QED BY <1>2, <2>2, <5>1, <6>1, <6>2
        <5>6. runs[i].count >= 1 /\ runs[i].count <= Limits(runs[i].prev, runs[i].len).max
          <6>1. a.lim = Limits(runs[i].prev, runs[i].len) /\ a.lim.max \in Nat
            BY <1>1, <1>2, <2>2, <5>1
          <6> QED BY <1>2, <2>2, <5>1, <6>1
        <5>7. runs[i].min = Limits(runs[i].prev, runs[i].len).min
          BY <1>1, <1>2, <2>2, <5>1
        <5> QED BY <5>3, <5>4, <5>5, <5>6, <5>7
      <4>3. i \in 1 .. l \/ i = l + 1
        BY <1>2, <2>3
      <4> QED BY <4>1, <4>2, <4>3
    <3> QED BY <2>3, <3>1, <3>2 DEF Cuts
  <2>9. f[Len(b.runs)] + b.count = n + 1
    BY <1>1, <2>3, <2>4, <2>7
  <2>10. b.prev = IF Len(b.runs) = 0 THEN Guard - 1 ELSE b.runs[Len(b.runs)].len
    <3>1. Len(b.runs) = l + 1 /\ l + 1 # 0 /\ b.runs[l + 1] = run
      BY <1>2, <2>3, <2>4
    <3> QED BY <2>2, <2>4, <3>1
  <2>11. b.lim = Limits(b.prev, LenAt(tree, n + 1)) /\ b.count < b.lim.max
    BY <1>1, <2>4, <2>6
  <2>12. \A k \in (n + 1) - b.count .. (n + 1) - 1 : tree.len[k] = LenAt(tree, n + 1)
    BY <1>1, <2>4
  <2>13. Cuts(b.runs, f, tree)
    BY <2>4, <2>8
  <2> QED BY <2>1, <2>5, <2>9, <2>10, <2>11, <2>12, <2>13 DEF RunsSoFar
<1> QED BY <1>5, <1>6

LEMMA RunTurnTyped ==
  ASSUME NEW tree, CodedTree(tree), NEW n \in 0 .. tree.maxCode, NEW a \in RunAcc
  PROVE  RunTurn(tree, a, n) \in RunAcc
<1> DEFINE run == [len |-> LenAt(tree, n), count |-> a.count + 1, prev |-> a.prev, min |-> a.lim.min]
<1>1. LenAt(tree, n) \in 0 .. MaxBits /\ LenAt(tree, n) \in Int
  BY LimitsIs DEF CodedTree, LenAt
<1>2. a.runs \in Seq(RunRec) /\ a.count + 1 \in Nat /\ a.prev \in Int /\ a.lim.min \in Nat
  BY DEF RunAcc
<1>3. run \in RunRec
  BY <1>1, <1>2 DEF RunRec
<1>4. [a EXCEPT !.count = a.count + 1] \in RunAcc
  BY <1>2 DEF RunAcc
<1> DEFINE runs == Append(a.runs, run)
           lim == Limits(LenAt(tree, n), LenAt(tree, n + 1))
<1>5. runs \in Seq(RunRec) /\ lim \in [max : Nat, min : Nat] /\ 0 \in Nat
  <2> HIDE DEF run
  <2> QED BY <1>2, <1>3, LimitsIs
<1>6. \/ RunTurn(tree, a, n) = [a EXCEPT !.count = a.count + 1]
      \/ RunTurn(tree, a, n) = [runs |-> runs, count |-> 0, prev |-> LenAt(tree, n), lim |-> lim]
  BY DEF RunTurn
<1> HIDE DEF runs, lim
<1>7. [runs |-> runs, count |-> 0, prev |-> LenAt(tree, n), lim |-> lim] \in RunAcc
  BY <1>1, <1>5 DEF RunAcc
<1> QED BY <1>4, <1>6, <1>7

\* The runs scanTree and sendTree cut a tree's lengths into are those of its lengths,
\* from the first to the last, one after the other (trees.go, scanTree)
LEMMA RunsIs ==
  ASSUME NEW tree, CodedTree(tree)
  PROVE  \E e : Cuts(Runs(tree), e, tree) /\ e[Len(Runs(tree))] = tree.maxCode + 1
<1> DEFINE N == tree.maxCode + 1
           X == RunAcc
           G == [x \in X \X (1 .. N) |-> RunTurn(tree, x[1], x[2] - 1)]
           Eqn(p) == p = [n \in 0 .. N |-> IF n = 0 THEN RunStart(tree) ELSE RunTurn(tree, p[n - 1], n - 1)]
           acc == CHOOSE p : Eqn(p)
<1>0. N \in Nat /\ tree.maxCode \in Nat /\ N = tree.maxCode + 1 /\ \A i \in 1 .. N : i - 1 \in 0 .. tree.maxCode
  BY DEF CodedTree
<1>1. RunStart(tree) \in X /\ RunsSoFar(RunStart(tree), tree, 0)
  BY RunStarts DEF RunsSoFar
<1> HIDE DEF N, X
<1>2. \A x \in X, i \in 1 .. N : G[<<x, i>>] = RunTurn(tree, x, i - 1)
  OBVIOUS
<1>3. \A x \in X, i \in 1 .. N : RunTurn(tree, x, i - 1) \in X
  BY <1>0, RunTurnTyped DEF X
<1> HIDE DEF G
<1>4. StepsIn(G, X, N)
  BY <1>2, <1>3 DEF StepsIn
<1>5. PICK f : Loop(f, X, RunStart(tree), N, G)
  BY <1>0, <1>1, <1>4, LoopExists
<1>6. f \in [0 .. N -> X] /\ f[0] = RunStart(tree) /\ \A i \in 1 .. N : f[i] = RunTurn(tree, f[i - 1], i - 1)
  <2>1. f \in [0 .. N -> X] /\ f[0] = RunStart(tree) /\ \A i \in 1 .. N : f[i] = G[<<f[i - 1], i>>]
    BY <1>5 DEF Loop
  <2>2. \A i \in 1 .. N : i - 1 \in 0 .. N
    BY <1>0
  <2> QED BY <1>2, <2>1, <2>2
<1>7. Eqn(f)
  <2>1. ASSUME NEW n \in 0 .. N
        PROVE  f[n] = IF n = 0 THEN RunStart(tree) ELSE RunTurn(tree, f[n - 1], n - 1)
    <3>1. n = 0 \/ n \in 1 .. N
      BY <1>0
    <3>2. 0 \notin 1 .. N
      BY <1>0
    <3> QED BY <1>6, <3>1, <3>2
  <2>2. f = [n \in 0 .. N |-> f[n]]
    BY <1>6
  <2> QED BY <2>1, <2>2
<1>8. Eqn(acc)
  BY <1>7
<1>9. Runs(tree) = acc[N].runs
  BY DEF Runs, RunTurn, RunStart, LenAt, N
<1> HIDE DEF acc
<1>10. DOMAIN acc = 0 .. N /\ acc = [n \in DOMAIN acc |-> acc[n]] /\ acc[0] = RunStart(tree)
       /\ \A i \in 1 .. N : acc[i] = RunTurn(tree, acc[i - 1], i - 1)
  <2>1. DOMAIN acc = 0 .. N /\ acc = [n \in DOMAIN acc |-> acc[n]]
    BY <1>8
  <2>2. \A n \in 0 .. N : acc[n] = IF n = 0 THEN RunStart(tree) ELSE RunTurn(tree, acc[n - 1], n - 1)
    BY <1>8
  <2> HIDE DEF Eqn
  <2>3. 0 \in 0 .. N /\ \A i \in 1 .. N : i \in 0 .. N /\ i # 0
    BY <1>0
  <2> QED BY <2>1, <2>2, <2>3
<1> HIDE DEF Eqn
<1> DEFINE K == {n \in Nat : n <= N => RunsSoFar(acc[n], tree, n)}
<1>11. 0 \in K
  BY <1>1, <1>10
<1>12. ASSUME NEW n \in 0 .. N - 1, n \in K PROVE n + 1 \in K
  <2>1. n + 1 \in 1 .. N /\ (n + 1) - 1 = n /\ n \in 0 .. tree.maxCode /\ n \in Nat /\ n + 1 \in Nat /\ n <= N
    BY <1>0
  <2>2. RunsSoFar(acc[n], tree, n)
    BY <1>12, <2>1
  <2>3. acc[n + 1] = RunTurn(tree, acc[n], n)
    BY <1>10, <2>1
  <2>4. RunsSoFar(RunTurn(tree, acc[n], n), tree, n + 1)
    BY <2>1, <2>2, RunsKept
  <2> QED BY <2>1, <2>3, <2>4
<1>13. \A n \in 0 .. N : n \in K
  <2> HIDE DEF K
  <2> QED BY <1>0, <1>11, <1>12, InductionUpTo
<1>14. RunsSoFar(acc[N], tree, N)
  <2>1. N \in 0 .. N /\ N <= N
    BY <1>0
  <2> QED BY <1>13, <2>1
<1>15. acc[N].count = 0
  <2> DEFINE c == acc[N].count
  <2>1. c \in Nat /\ \A k \in N - c .. N - 1 : tree.len[k] = LenAt(tree, N)
    BY <1>14 DEF RunsSoFar, RunAcc
  <2>2. LenAt(tree, N) = -1
    BY <1>0 DEF LenAt, Guard
  <2>3. tree.len[N - 1] # -1
    <3>1. N - 1 \in 0 .. tree.maxCode
      BY <1>0
    <3>2. tree.len[N - 1] \in 0 .. MaxBits
      BY <3>1 DEF CodedTree
    <3> QED BY <3>2, LimitsIs
  <2> HIDE DEF c
  <2>4. c # 0 => N - 1 \in N - c .. N - 1
    BY <1>0, <2>1
  <2> QED BY <2>1, <2>2, <2>3, <2>4 DEF c
<1>16. PICK e : Cuts(acc[N].runs, e, tree) /\ e[Len(acc[N].runs)] + acc[N].count = N
  BY <1>14 DEF RunsSoFar
<1>17. e[Len(acc[N].runs)] = N
  <2>1. e[Len(acc[N].runs)] \in Nat
    <3>1. e \in [0 .. Len(acc[N].runs) -> Nat] /\ Len(acc[N].runs) \in Nat
      BY <1>16 DEF Cuts
    <3> QED BY <3>1
  <2> QED BY <1>15, <1>16, <2>1
<1> QED BY <1>9, <1>16, <1>17 DEF N

-----------------------------------------------------------------------------
(* The codes of the runs, and what a decoder makes of them                 *)

BlSome  == (0 .. MaxBits) \cup {Rep3_6, Repz3_10, Repz11_138}
\* Codes a tree is sent as, and the values their extra bits can hold
CodeRec == [code : BlSome, value : Nat]
Fits(c) == c \in CodeRec /\ c.value \in 0 .. Pow2(BlExtra[c.code]) - 1

DecTurn(got, c) ==
  CASE c.code < Rep3_6     -> Append(got, c.code)
    [] c.code = Rep3_6     -> got \o [i \in 1 .. c.value + 3 |-> Last(got)]
    [] c.code = Repz3_10   -> got \o [i \in 1 .. c.value + 3 |-> 0]
    [] c.code = Repz11_138 -> got \o [i \in 1 .. c.value + ZeroShort + 1 |-> 0]

\* l takes a decoder from nothing to out, code by code
Decoded(l, codes, out) ==
  /\ l \in [0 .. Len(codes) -> Seq(Nat)] /\ l[0] = <<>> /\ l[Len(codes)] = out
  /\ \A i \in 1 .. Len(codes) : l[i] = DecTurn(l[i - 1], codes[i])

\* A decoder makes the lengths out of the codes, and each code c is there occ[c] times
Sends(codes, out, occ) ==
  /\ codes \in Seq(CodeRec) /\ \A i \in 1 .. Len(codes) : Fits(codes[i])
  /\ occ \in [0 .. BlCodes - 1 -> Nat]
  /\ \A c \in 0 .. BlCodes - 1 : occ[c] = Cardinality({i \in 1 .. Len(codes) : codes[i].code = c})
  /\ out \in Seq(Nat) /\ Len(codes) <= Len(out)
  /\ \E l : Decoded(l, codes, out)

LEMMA BlSomeIs ==
  /\ BlSome \subseteq 0 .. BlCodes - 1
  /\ \A c \in BlSome : BlExtra[c] = IF c = Rep3_6 THEN 2 ELSE IF c = Repz3_10 THEN 3
                                    ELSE IF c = Repz11_138 THEN 7 ELSE 0
  /\ \A c \in 0 .. MaxBits : c \in BlSome /\ c \in Nat /\ c < 16
<1>1. \A c \in 0 .. MaxBits : c \in BlSome /\ c \in Nat /\ c < 16
  BY LimitsIs DEF BlSome
<1>2. BlSome \subseteq 0 .. BlCodes - 1
  BY LimitsIs DEF BlSome, BlCodes, Rep3_6, Repz3_10, Repz11_138
<1>3. \A c \in 0 .. BlCodes - 1 :
        BlExtra[c] = IF c = Rep3_6 THEN 2 ELSE IF c = Repz3_10 THEN 3
                     ELSE IF c = Repz11_138 THEN 7 ELSE 0
  BY DEF BlExtra, Rep3_6, Repz3_10, Repz11_138
<1> QED BY <1>1, <1>2, <1>3

LEMMA SmallPowers == Pow2(0) = 1 /\ Pow2(2) = 4 /\ Pow2(3) = 8 /\ Pow2(7) = 128
<1>1. \A n \in Nat : Pow2(n + 1) = 2 * Pow2(n)
  BY Pow2Step
<1>2. Pow2(0) = 1
  BY Pow2Zero
<1>3. Pow2(1) = 2 * Pow2(0) /\ Pow2(2) = 2 * Pow2(1) /\ Pow2(3) = 2 * Pow2(2) /\ Pow2(4) = 2 * Pow2(3)
      /\ Pow2(5) = 2 * Pow2(4) /\ Pow2(6) = 2 * Pow2(5) /\ Pow2(7) = 2 * Pow2(6)
  <2>1. 0 + 1 = 1 /\ 1 + 1 = 2 /\ 2 + 1 = 3 /\ 3 + 1 = 4 /\ 4 + 1 = 5 /\ 5 + 1 = 6 /\ 6 + 1 = 7
    OBVIOUS
  <2> QED BY <1>1, <2>1
<1> QED BY <1>2, <1>3

\* One more code
LEMMA SendOne ==
  ASSUME NEW codes, NEW out, NEW occ, Sends(codes, out, occ), NEW c, Fits(c),
         NEW got, got = DecTurn(out, c), got \in Seq(Nat), Len(got) >= Len(out) + 1,
         NEW occ2, occ2 = [occ EXCEPT ![c.code] = @ + 1]
  PROVE  Sends(Append(codes, c), got, occ2)
<1> DEFINE n == Len(codes)
           d == Append(codes, c)
<1>1. n \in Nat /\ codes \in Seq(CodeRec) /\ c \in CodeRec /\ c.code \in 0 .. BlCodes - 1
  <2>1. codes \in Seq(CodeRec) /\ n \in Nat
    BY DEF Sends
  <2>2. c \in CodeRec /\ c.code \in BlSome
    BY DEF Fits, CodeRec
  <2> QED BY <2>1, <2>2, BlSomeIs
<1>0. n \in Nat
  BY <1>1
<1>2. d \in Seq(CodeRec) /\ Len(d) = n + 1 /\ d[n + 1] = c /\ \A i \in 1 .. n : d[i] = codes[i]
  BY <1>1
<1>3. \A i \in 1 .. n : Fits(codes[i])
  BY DEF Sends
<1> HIDE DEF d
<1>4. \A i \in 1 .. n + 1 : Fits(d[i])
  <2> TAKE i \in 1 .. n + 1
  <2>1. i \in 1 .. n \/ i = n + 1
    <3> HIDE DEF n
    <3> QED BY <1>1
  <2> QED BY <1>2, <1>3, <2>1
<1>5. occ \in [0 .. BlCodes - 1 -> Nat]
      /\ \A b \in 0 .. BlCodes - 1 : occ[b] = Cardinality({i \in 1 .. n : codes[i].code = b})
  BY DEF Sends
<1>6. occ2 \in [0 .. BlCodes - 1 -> Nat]
  BY <1>1, <1>5
<1>7. ASSUME NEW b \in 0 .. BlCodes - 1
      PROVE  occ2[b] = Cardinality({i \in 1 .. n + 1 : d[i].code = b})
  <2> DEFINE S == {i \in 1 .. n : codes[i].code = b}
             T == {i \in 1 .. n + 1 : d[i].code = b}
  <2>1. IsFiniteSet(S) /\ n + 1 \notin S
    <3> HIDE DEF n
    <3>1. IsFiniteSet(1 .. n) /\ S \subseteq 1 .. n /\ n + 1 \notin 1 .. n
      BY <1>0, FS_Interval
    <3> QED BY <3>1, FS_Subset
  <2>2. 1 .. n + 1 = (1 .. n) \cup {n + 1}
    <3> HIDE DEF n
    <3> QED BY <1>1
  <2>3. \A i \in 1 .. n : d[i].code = b <=> i \in S
    BY <1>2
  <2>4. c.code = b => T = S \cup {n + 1}
    BY <1>2, <2>2, <2>3
  <2>5. c.code # b => T = S
    BY <1>2, <2>2, <2>3
  <2> HIDE DEF S, T, n
  <2>6. Cardinality(S \cup {n + 1}) = Cardinality(S) + 1
    BY <2>1, FS_AddElement
  <2>7. occ[b] = Cardinality(S)
    BY <1>5 DEF S, n
  <2>8. occ2[b] = IF c.code = b THEN occ[b] + 1 ELSE occ[b]
    BY <1>1, <1>5
  <2>9. occ2[b] = Cardinality(T)
    BY <2>4, <2>5, <2>6, <2>7, <2>8
  <2> QED BY <2>9 DEF T
<1>8. PICK l : Decoded(l, codes, out)
  BY DEF Sends
<1> DEFINE m == [i \in 0 .. n + 1 |-> IF i = n + 1 THEN got ELSE l[i]]
<1>9. /\ l \in [0 .. n -> Seq(Nat)] /\ l[0] = <<>> /\ l[n] = out
      /\ \A i \in 1 .. n : l[i] = DecTurn(l[i - 1], codes[i])
  BY <1>8 DEF Decoded
<1>10. m[n + 1] = got /\ DOMAIN m = 0 .. n + 1 /\ m = [i \in 0 .. n + 1 |-> m[i]] /\ \A i \in 0 .. n : m[i] = l[i]
  <2> HIDE DEF n
  <2>1. n + 1 \in 0 .. n + 1 /\ \A i \in 0 .. n : i \in 0 .. n + 1 /\ i # n + 1
    BY <1>1
  <2> QED BY <2>1
<1> HIDE DEF m, n
<1>11. Decoded(m, d, got)
  <2>1. m[0] = <<>>
    <3>1. 0 \in 0 .. n
      BY <1>0
    <3> QED BY <1>9, <1>10, <3>1
  <2>2. ASSUME NEW i \in 0 .. n + 1 PROVE m[i] \in Seq(Nat)
    <3>1. i \in 0 .. n \/ i = n + 1
      BY <1>1
    <3> QED BY <1>9, <1>10, <3>1
  <2>3. m \in [0 .. n + 1 -> Seq(Nat)]
    BY <1>10, <2>2
  <2>4. ASSUME NEW i \in 1 .. n + 1 PROVE m[i] = DecTurn(m[i - 1], d[i])
    <3>1. CASE i = n + 1
      <4>1. i - 1 = n /\ n \in 0 .. n
        BY <1>1, <3>1
      <4> QED BY <1>2, <1>9, <1>10, <3>1, <4>1
    <3>2. CASE i # n + 1
      <4>1. i \in 1 .. n /\ i \in 0 .. n /\ i - 1 \in 0 .. n
        BY <1>1, <3>2
      <4> QED BY <1>2, <1>9, <1>10, <4>1
    <3> QED BY <3>1, <3>2
  <2> QED BY <1>2, <1>10, <2>1, <2>3, <2>4 DEF Decoded
<1>12. Len(d) <= Len(got)
  <2>1. n <= Len(out) /\ Len(out) \in Nat /\ Len(got) \in Nat
    BY DEF Sends, n
  <2> QED BY <1>1, <1>2, <2>1
<1>13. Sends(d, got, occ2)
  BY <1>2, <1>4, <1>6, <1>7, <1>11, <1>12 DEF Sends
<1> QED BY <1>13 DEF d

Copies(x, k) == [i \in 1 .. k |-> x]

Padded(s, x, k) == s \o Copies(x, k)

PadOf(p, s, x, k) ==
  /\ Len(p) = Len(s) + k /\ \A i \in 1 .. Len(s) : p[i] = s[i]
  /\ \A i \in Len(s) + 1 .. Len(s) + k : p[i] = x

LEMMA PaddedIs ==
  ASSUME NEW V, NEW s \in Seq(V), NEW x \in V, NEW k \in Nat
  PROVE  Padded(s, x, k) \in Seq(V) /\ PadOf(Padded(s, x, k), s, x, k)
<1> DEFINE c == Copies(x, k)
           e == s \o c
<1>2. c \in Seq(V) /\ Len(c) = k /\ \A i \in 1 .. k : c[i] = x
  BY DEF Copies
<1> HIDE DEF c
<1>4. e \in Seq(V) /\ Len(e) = Len(s) + k /\ (\A i \in 1 .. Len(s) : e[i] = s[i])
      /\ \A i \in Len(s) + 1 .. Len(s) + k : e[i] = x
  <2>1. e \in Seq(V) /\ Len(e) = Len(s) + k
    BY <1>2
  <2>2. \A i \in 1 .. Len(s) : e[i] = s[i]
    BY <1>2
  <2>3. ASSUME NEW i \in Len(s) + 1 .. Len(s) + k PROVE e[i] = x
    <3>1. e[i] = c[i - Len(s)] /\ i - Len(s) \in 1 .. k
      BY <1>2
    <3> QED BY <1>2, <3>1
  <2> QED BY <2>1, <2>2, <2>3
<1> HIDE DEF e
<1> QED BY <1>4 DEF Padded, PadOf, c, e

LEMMA PaddedNone ==
  ASSUME NEW V, NEW s \in Seq(V), NEW x \in V
  PROVE  Padded(s, x, 0) = s
<1> DEFINE e == Padded(s, x, 0)
           n == Len(s)
<1>1. e \in Seq(V) /\ Len(e) = n /\ \A i \in 1 .. n : e[i] = s[i]
  <2>1. 0 \in Nat /\ n + 0 = n
    OBVIOUS
  <2>2. Padded(s, x, 0) \in Seq(V) /\ PadOf(Padded(s, x, 0), s, x, 0)
    BY <2>1, PaddedIs
  <2> HIDE DEF e
  <2> QED BY <2>1, <2>2 DEF PadOf, e
<1> HIDE DEF e
<1>2. DOMAIN e = 1 .. n /\ DOMAIN s = 1 .. n
  BY <1>1
<1>3. e = [i \in DOMAIN e |-> e[i]] /\ s = [i \in DOMAIN s |-> s[i]]
  BY <1>1
<1> HIDE DEF n
<1>4. e = s
  BY <1>1, <1>2, <1>3
<1> QED BY <1>4 DEF e

LEMMA SeqIsFunction ==
  ASSUME NEW V, NEW s, s \in Seq(V)
  PROVE  s = [i \in DOMAIN s |-> s[i]]
OBVIOUS

LEMMA PaddedNext ==
  ASSUME NEW V, NEW s \in Seq(V), NEW x \in V, NEW k \in Nat,
         NEW j, j = k + 1, NEW d, d = Append(Padded(s, x, k), x)
  PROVE  Padded(s, x, j) = d
<1> DEFINE n == Len(s)
           e == Padded(s, x, k)
           f == Padded(s, x, j)
<1>1. j \in Nat /\ n \in Nat
  OBVIOUS
<1>2. e \in Seq(V) /\ Len(e) = n + k /\ (\A i \in 1 .. n : e[i] = s[i])
      /\ \A i \in n + 1 .. n + k : e[i] = x
  <2>1. Padded(s, x, k) \in Seq(V) /\ PadOf(Padded(s, x, k), s, x, k)
    BY PaddedIs
  <2> HIDE DEF e
  <2> QED BY <2>1 DEF PadOf, e
<1>3. f \in Seq(V) /\ Len(f) = n + j /\ (\A i \in 1 .. n : f[i] = s[i])
      /\ \A i \in n + 1 .. n + j : f[i] = x
  <2>1. Padded(s, x, j) \in Seq(V) /\ PadOf(Padded(s, x, j), s, x, j)
    BY <1>1, PaddedIs
  <2> HIDE DEF f
  <2> QED BY <2>1 DEF PadOf, f
<1> HIDE DEF e, f
<1>4. d \in Seq(V) /\ Len(d) = (n + k) + 1 /\ (\A i \in 1 .. n + k : d[i] = e[i]) /\ d[(n + k) + 1] = x
  BY <1>2 DEF e
<1>5. DOMAIN f = 1 .. n + j /\ DOMAIN d = 1 .. (n + k) + 1
  BY <1>3, <1>4
<1>6. f = [i \in DOMAIN f |-> f[i]] /\ d = [i \in DOMAIN d |-> d[i]]
  <2>1. f \in Seq(V) /\ d \in Seq(V)
    BY <1>3, <1>4
  <2>2. f = [i \in DOMAIN f |-> f[i]]
    BY <2>1
  <2>3. d = [i \in DOMAIN d |-> d[i]]
    BY <2>1, Zenon, SeqIsFunction
  <2> QED BY <2>2, <2>3
<1> HIDE DEF n
<1>7. 1 .. n + j = 1 .. (n + k) + 1
  BY <1>1
<1>8. ASSUME NEW i \in 1 .. n + j PROVE f[i] = d[i]
  <2>1. i \in 1 .. n \/ i \in n + 1 .. n + k \/ i = (n + k) + 1
    BY <1>1
  <2>2. (n + k) + 1 \in n + 1 .. n + j /\ 1 .. n \subseteq 1 .. n + k
        /\ n + 1 .. n + k \subseteq 1 .. n + k /\ n + 1 .. n + k \subseteq n + 1 .. n + j
    BY <1>1
  <2> QED BY <1>2, <1>3, <1>4, <2>1, <2>2
<1>9. f = d
  BY <1>5, <1>6, <1>7, <1>8
<1> QED BY <1>9 DEF f

\* A length, sent some times
LEMMA SendPlain ==
  ASSUME NEW codes, NEW out, NEW occ, Sends(codes, out, occ), NEW x, x \in 0 .. MaxBits, NEW n \in Nat
  PROVE  Sends(Padded(codes, [code |-> x, value |-> 0], n), Padded(out, x, n),
               [occ EXCEPT ![x] = @ + n])
<1> DEFINE c == [code |-> x, value |-> 0]
           K == {k \in Nat : Sends(Padded(codes, c, k), Padded(out, x, k), [occ EXCEPT ![x] = @ + k])}
<1>1. codes \in Seq(CodeRec) /\ out \in Seq(Nat) /\ occ \in [0 .. BlCodes - 1 -> Nat]
  BY DEF Sends
<1>2. x \in BlSome /\ x \in Nat /\ x < 16 /\ x \in 0 .. BlCodes - 1
  BY BlSomeIs
<1>3. Fits(c) /\ c \in CodeRec /\ c.code = x
  <2>1. BlExtra[x] = 0
    BY <1>2, BlSomeIs DEF Rep3_6, Repz3_10, Repz11_138
  <2>2. c \in CodeRec /\ c.code = x /\ c.value = 0
    BY <1>2 DEF CodeRec
  <2> HIDE DEF c
  <2> QED BY <2>1, <2>2, SmallPowers DEF Fits
<1> HIDE DEF c
<1>7. codes \in Seq(CodeRec) /\ out \in Seq(Nat) /\ x \in Nat /\ c \in CodeRec
  BY <1>1, <1>2, <1>3
<1>4. 0 \in K
  <2>1. Padded(codes, c, 0) = codes
    BY <1>7, PaddedNone
  <2>2. Padded(out, x, 0) = out
    BY <1>7, PaddedNone
  <2>3. [occ EXCEPT ![x] = @ + 0] = occ
    BY <1>1, <1>2
  <2> QED BY <2>1, <2>2, <2>3
<1>5. ASSUME NEW k \in 0 .. n - 1, k \in K PROVE k + 1 \in K
  <2> DEFINE d == Padded(codes, c, k)
             o == Padded(out, x, k)
             f == [occ EXCEPT ![x] = @ + k]
             f2 == [occ EXCEPT ![x] = @ + (k + 1)]
  <2>1. k \in Nat /\ k + 1 \in Nat
    OBVIOUS
  <2>2. Sends(d, o, f)
    BY <1>5
  <2>3. Padded(codes, c, k + 1) = Append(d, c)
    <3> DEFINE z == Append(d, c)
               j == k + 1
    <3>1. z = Append(d, c) /\ j = k + 1
      OBVIOUS
    <3> HIDE DEF z, j
    <3>2. Padded(codes, c, j) = z
      BY <1>7, <2>1, <3>1, PaddedNext
    <3> QED BY <3>2 DEF z, j
  <2>4. Padded(out, x, k + 1) = Append(o, x) /\ o \in Seq(Nat)
    <3> DEFINE z == Append(o, x)
               j == k + 1
               V == Nat
    <3>1. z = Append(Padded(out, x, k), x) /\ j = k + 1 /\ out \in Seq(V) /\ x \in V
      BY <1>7
    <3> HIDE DEF z, j, V
    <3>2. Padded(out, x, j) = z
      BY <2>1, <3>1, PaddedNext
    <3>3. o \in Seq(Nat)
      BY <1>7, <2>1, PaddedIs
    <3> QED BY <3>2, <3>3 DEF z, j
  <2>5. f2 = [f EXCEPT ![x] = @ + 1]
    BY <1>1, <1>2, <2>1
  <2> HIDE DEF d, o, f, f2, K
  <2>6. Append(o, x) = DecTurn(o, c) /\ Append(o, x) \in Seq(Nat) /\ Len(Append(o, x)) >= Len(o) + 1
    <3>1. c.code < Rep3_6
      BY <1>2, <1>3 DEF Rep3_6
    <3>2. Append(o, x) \in Seq(Nat) /\ Len(Append(o, x)) = Len(o) + 1 /\ Len(o) \in Nat
      BY <1>2, <2>4
    <3>3. DecTurn(o, c) = Append(o, c.code)
      <4>1. c.code # Rep3_6 /\ c.code # Repz3_10 /\ c.code # Repz11_138
        BY <1>2, <1>3 DEF Rep3_6, Repz3_10, Repz11_138
      <4> QED BY <3>1, <4>1 DEF DecTurn
    <3> HIDE DEF DecTurn
    <3> QED BY <1>3, <3>2, <3>3
  <2> DEFINE o2 == Append(o, x)
  <2>7. o2 = DecTurn(o, c) /\ o2 \in Seq(Nat) /\ Len(o2) >= Len(o) + 1 /\ f2 = [f EXCEPT ![c.code] = @ + 1]
    BY <1>3, <2>5, <2>6
  <2> HIDE DEF o2
  <2>8. Sends(Append(d, c), o2, f2)
    BY <1>3, <2>2, <2>7, SendOne
  <2>9. Sends(Padded(codes, c, k + 1), Padded(out, x, k + 1), f2)
    BY <2>3, <2>4, <2>8 DEF o2
  <2> QED BY <2>1, <2>9 DEF K, f2
<1>6. \A k \in 0 .. n : k \in K
  <2> HIDE DEF K
  <2> QED BY <1>4, <1>5, InductionUpTo
<1>10. n \in K
  <2> HIDE DEF K
  <2> QED BY <1>6
<1> QED BY <1>10 DEF c

LEMMA Attached ==
  ASSUME NEW V, NEW s \in Seq(V), NEW x \in V, NEW y \in V, NEW d, d = Append(s, x), NEW e, e = Append(d, y)
  PROVE  s \o <<x>> = d /\ s \o (<<>> \o <<x>>) = d /\ s \o (<<x>> \o <<y>>) = e
<1>1. s \o <<x>> = d
  OBVIOUS
<1>2. s \o (<<>> \o <<x>>) = d
  OBVIOUS
<1>3. s \o (<<x>> \o <<y>>) = e
  OBVIOUS
<1> QED BY <1>1, <1>2, <1>3

\* A first, and more of the same
LEMMA PaddedMore ==
  ASSUME NEW V, NEW s \in Seq(V), NEW x \in V, NEW k \in Nat, NEW j, j = k + 1
  PROVE  Padded(Append(s, x), x, k) = Padded(s, x, j)
<1> DEFINE n == Len(s)
           a == Append(s, x)
           e == Padded(a, x, k)
           f == Padded(s, x, j)
<1>1. j \in Nat /\ n \in Nat
  OBVIOUS
<1>2. a \in Seq(V) /\ Len(a) = n + 1 /\ a[n + 1] = x /\ \A i \in 1 .. n : a[i] = s[i]
  OBVIOUS
<1> HIDE DEF a
<1>3. e \in Seq(V) /\ Len(e) = Len(a) + k /\ (\A i \in 1 .. Len(a) : e[i] = a[i])
      /\ \A i \in Len(a) + 1 .. Len(a) + k : e[i] = x
  <2>1. a \in Seq(V)
    BY <1>2
  <2>2. Padded(a, x, k) \in Seq(V) /\ PadOf(Padded(a, x, k), a, x, k)
    BY <2>1, PaddedIs
  <2> HIDE DEF e
  <2> QED BY <2>2 DEF PadOf, e
<1>4. f \in Seq(V) /\ Len(f) = n + j /\ (\A i \in 1 .. n : f[i] = s[i])
      /\ \A i \in n + 1 .. n + j : f[i] = x
  <2>1. Padded(s, x, j) \in Seq(V) /\ PadOf(Padded(s, x, j), s, x, j)
    BY <1>1, PaddedIs
  <2> HIDE DEF f
  <2> QED BY <2>1 DEF PadOf, f
<1> HIDE DEF e, f
<1>5. DOMAIN f = 1 .. n + j /\ DOMAIN e = 1 .. (n + 1) + k
  BY <1>2, <1>3, <1>4
<1>6. f = [i \in DOMAIN f |-> f[i]] /\ e = [i \in DOMAIN e |-> e[i]]
  <2>1. f \in Seq(V) /\ e \in Seq(V)
    BY <1>3, <1>4
  <2> QED BY <2>1, SeqIsFunction
<1> HIDE DEF n
<1>7. 1 .. n + j = 1 .. (n + 1) + k
  BY <1>1
<1>8. /\ \A i \in 1 .. n + 1 : e[i] = a[i]
      /\ \A i \in (n + 1) + 1 .. (n + 1) + k : e[i] = x
  BY <1>2, <1>3
<1>9. ASSUME NEW i \in 1 .. n + j PROVE f[i] = e[i]
  <2>1. i \in 1 .. n \/ i = n + 1 \/ i \in (n + 1) + 1 .. (n + 1) + k
    BY <1>1
  <2>2. n + 1 \in n + 1 .. n + j /\ 1 .. n \subseteq 1 .. n + 1 /\ n + 1 \in 1 .. n + 1
        /\ (n + 1) + 1 .. (n + 1) + k \subseteq n + 1 .. n + j
    BY <1>1
  <2> QED BY <1>2, <1>4, <1>8, <2>1, <2>2
<1>10. e = f
  BY <1>5, <1>6, <1>7, <1>9
<1> QED BY <1>10 DEF a, e, f

\* A length, repeated
LEMMA SendRepeat ==
  ASSUME NEW codes, NEW out, NEW occ, Sends(codes, out, occ),
         NEW c, Fits(c), NEW x, x \in Nat, NEW n, n \in Nat, n >= 1,
         \/ c.code = Rep3_6 /\ n = c.value + 3 /\ Len(out) >= 1 /\ out[Len(out)] = x
         \/ c.code = Repz3_10 /\ n = c.value + 3 /\ x = 0
         \/ c.code = Repz11_138 /\ n = c.value + ZeroShort + 1 /\ x = 0
  PROVE  Sends(Append(codes, c), Padded(out, x, n), [occ EXCEPT ![c.code] = @ + 1])
<1> DEFINE V == Nat
           got == Padded(out, x, n)
           occ2 == [occ EXCEPT ![c.code] = @ + 1]
<1>1. out \in Seq(V) /\ x \in V /\ Len(out) \in Nat
  BY DEF Sends
<1>2. got \in Seq(V) /\ Len(got) = Len(out) + n
  <2> HIDE DEF V
  <2>1. n \in Nat
    OBVIOUS
  <2>2. Padded(out, x, n) \in Seq(V) /\ PadOf(Padded(out, x, n), out, x, n)
    BY <1>1, <2>1, PaddedIs
  <2> HIDE DEF got
  <2> QED BY <2>2 DEF PadOf, got
<1>3. got = DecTurn(out, c)
  <2>1. CASE c.code = Rep3_6 /\ n = c.value + 3 /\ Len(out) >= 1 /\ out[Len(out)] = x
    <3>1. Last(out) = x
      BY <2>1 DEF Last
    <3>2. DecTurn(out, c) = out \o [i \in 1 .. c.value + 3 |-> Last(out)]
      BY <2>1 DEF DecTurn, Rep3_6, Repz3_10, Repz11_138
    <3>3. Copies(x, n) = [i \in 1 .. c.value + 3 |-> Last(out)]
      BY <2>1, <3>1 DEF Copies
    <3> QED BY <3>2, <3>3 DEF Padded
  <2>2. CASE c.code = Repz3_10 /\ n = c.value + 3 /\ x = 0
    <3>2. DecTurn(out, c) = out \o [i \in 1 .. c.value + 3 |-> 0]
      BY <2>2 DEF DecTurn, Rep3_6, Repz3_10, Repz11_138
    <3>3. Copies(x, n) = [i \in 1 .. c.value + 3 |-> 0]
      BY <2>2 DEF Copies
    <3> QED BY <3>2, <3>3 DEF Padded
  <2>3. CASE c.code = Repz11_138 /\ n = c.value + ZeroShort + 1 /\ x = 0
    <3>2. DecTurn(out, c) = out \o [i \in 1 .. c.value + ZeroShort + 1 |-> 0]
      BY <2>3 DEF DecTurn, Rep3_6, Repz3_10, Repz11_138
    <3>3. Copies(x, n) = [i \in 1 .. c.value + ZeroShort + 1 |-> 0]
      BY <2>3 DEF Copies
    <3> QED BY <3>2, <3>3 DEF Padded
  <2> QED BY <2>1, <2>2, <2>3
<1>4. Len(got) >= Len(out) + 1
  BY <1>1, <1>2
<1>5. got \in Seq(Nat)
  BY <1>2
<1>6. occ2 = [occ EXCEPT ![c.code] = @ + 1]
  OBVIOUS
<1> HIDE DEF got, occ2, V
<1>7. Sends(Append(codes, c), got, occ2)
  BY <1>3, <1>4, <1>5, <1>6, SendOne
<1> QED BY <1>7 DEF got, occ2

LEMMA RepeatFits ==
  ASSUME NEW b \in {Rep3_6, Repz3_10, Repz11_138}, NEW v \in Nat,
         v < IF b = Rep3_6 THEN 4 ELSE IF b = Repz3_10 THEN 8 ELSE 128
  PROVE  Fits([code |-> b, value |-> v])
<1> DEFINE c == [code |-> b, value |-> v]
<1>1. b \in BlSome
  BY DEF BlSome
<1>2. c \in CodeRec /\ c.code = b /\ c.value = v
  BY <1>1 DEF CodeRec
<1> HIDE DEF c
<1>3. Pow2(BlExtra[b]) = IF b = Rep3_6 THEN 4 ELSE IF b = Repz3_10 THEN 8 ELSE 128
  BY <1>1, BlSomeIs, SmallPowers
<1>4. v \in 0 .. Pow2(BlExtra[b]) - 1
  BY <1>3
<1> QED BY <1>2, <1>4 DEF Fits, c

\* What sendTree sends for a run is its length as often as the run has it, and scanTree
\* has counted the codes it takes (trees.go, scanTree and sendTree)
LEMMA RunSent ==
  ASSUME NEW codes, NEW out, NEW occ, Sends(codes, out, occ), NEW run \in RunRec,
         run.count >= 1, run.count <= Limits(run.prev, run.len).max,
         run.min = Limits(run.prev, run.len).min,
         run.prev = run.len => Len(out) >= 1 /\ out[Len(out)] = run.len,
         NEW d, d = codes \o SentRun(run)
  PROVE  Sends(d, Padded(out, run.len, run.count), Scanned(occ, run))
<1> DEFINE x == run.len
           n == run.count
           plain == [code |-> x, value |-> 0]
<1>1. codes \in Seq(CodeRec) /\ out \in Seq(Nat) /\ occ \in [0 .. BlCodes - 1 -> Nat]
  BY DEF Sends
<1>2. x \in 0 .. MaxBits /\ n \in Nat /\ run.prev \in Int /\ run.min \in Nat
  BY DEF RunRec
<1>3. x \in Nat /\ x < 16 /\ x \in BlSome /\ x \in 0 .. BlCodes - 1
  BY <1>2, BlSomeIs
<1>4. plain \in CodeRec
  BY <1>3 DEF CodeRec
<1>5. CASE n < run.min
  <2>1. SentRun(run) = Copies(plain, n)
    BY <1>2, <1>5 DEF SentRun, Copies
  <2>2. d = Padded(codes, plain, n)
    BY <2>1 DEF Padded
  <2>3. Scanned(occ, run) = [occ EXCEPT ![x] = @ + n]
    BY <1>2, <1>5 DEF Scanned
  <2>4. Sends(Padded(codes, plain, n), Padded(out, x, n), [occ EXCEPT ![x] = @ + n])
    <3> HIDE DEF x, n
    <3>1. x \in 0 .. MaxBits /\ n \in Nat
      BY <1>2
    <3> QED BY <3>1, SendPlain
  <2> QED BY <2>2, <2>3, <2>4
<1>6. CASE n >= run.min /\ x # 0 /\ x # run.prev
  <2> DEFINE c == [code |-> Rep3_6, value |-> n - 1 - 3]
             out1 == Append(out, x)
             occ1 == [occ EXCEPT ![x] = @ + 1]
             m == n - 1
  <2>1. Limits(run.prev, x) = [max |-> RepMax + 1, min |-> 4]
    BY <1>6 DEF Limits
  <2>2. n >= 4 /\ n <= 7 /\ m \in Nat /\ n = m + 1 /\ n - 1 - 3 \in Nat /\ n - 1 - 3 < 4
        /\ m = (n - 1 - 3) + 3 /\ m >= 1
    BY <1>2, <1>6, <2>1 DEF RepMax
  <2>3. SentRun(run) = <<plain>> \o <<c>>
    BY <1>2, <1>6 DEF SentRun
  <2>4. Fits(c) /\ c \in CodeRec /\ c.code = Rep3_6 /\ m = c.value + 3
    <3>1. Fits(c)
      BY <2>2, RepeatFits DEF Rep3_6, Repz3_10, Repz11_138
    <3> QED BY <2>2, <3>1 DEF Fits
  <2>5. Scanned(occ, run) = [occ1 EXCEPT ![c.code] = @ + 1]
    <3>1. Scanned(occ, run) = [b \in DOMAIN occ |-> occ[b] + (IF b = x /\ x # run.prev THEN 1 ELSE 0)
                                                        + (IF b = Rep3_6 THEN 1 ELSE 0)]
      BY <1>2, <1>6 DEF Scanned
    <3>2. c.code = 16 /\ 16 \in 0 .. BlCodes - 1 /\ 16 # x /\ Rep3_6 = 16
      BY <1>3 DEF Rep3_6, BlCodes
    <3>3. DOMAIN occ = 0 .. BlCodes - 1 /\ \A b \in 0 .. BlCodes - 1 : occ[b] \in Nat
      BY <1>1
    <3>4. \A b \in 0 .. BlCodes - 1 : occ1[b] = occ[b] + (IF b = x THEN 1 ELSE 0)
      BY <1>3, <3>3
    <3>5. DOMAIN occ1 = 0 .. BlCodes - 1
      BY <3>3
    <3> DEFINE f == Scanned(occ, run)
               g == [occ1 EXCEPT ![c.code] = @ + 1]
    <3> HIDE DEF c, x, occ1
    <3>6. DOMAIN f = 0 .. BlCodes - 1 /\ f = [b \in DOMAIN f |-> f[b]]
      BY <3>1, <3>3
    <3>7. DOMAIN g = 0 .. BlCodes - 1 /\ g = [b \in DOMAIN g |-> g[b]]
      BY <3>5
    <3>8. ASSUME NEW b \in 0 .. BlCodes - 1 PROVE f[b] = g[b]
      <4>1. f[b] = occ[b] + (IF b = x /\ x # run.prev THEN 1 ELSE 0) + (IF b = Rep3_6 THEN 1 ELSE 0)
        BY <3>1, <3>3
      <4>2. g[b] = IF b = c.code THEN occ1[b] + 1 ELSE occ1[b]
        BY <3>5
      <4>3. occ1[b] = occ[b] + (IF b = x THEN 1 ELSE 0) /\ occ[b] \in Nat
        BY <3>3, <3>4
      <4> HIDE DEF f, g
      <4>4. c.code = Rep3_6 /\ x # run.prev
        BY <1>6, <3>2
      <4> QED BY <4>1, <4>2, <4>3, <4>4
    <3> HIDE DEF f, g
    <3>9. f = g
      BY <3>6, <3>7, <3>8
    <3> QED BY <3>9 DEF f, g
  <2>6. Padded(codes, plain, 1) = Append(codes, plain) /\ Padded(out, x, 1) = out1
    <3> DEFINE V == Nat
               y == Append(codes, plain)
    <3>1. Padded(codes, plain, 0) = codes
      <4> HIDE DEF plain
      <4> QED BY <1>1, <1>4, PaddedNone
    <3>2. out \in Seq(V) /\ x \in V
      BY <1>1, <1>3
    <3>3. Padded(out, x, 0) = out
      <4> HIDE DEF V, x
      <4> QED BY <3>2, PaddedNone
    <3> DEFINE k == 0
               j == 1
    <3>4. j = k + 1 /\ k \in Nat /\ y = Append(Padded(codes, plain, k), plain)
          /\ out1 = Append(Padded(out, x, k), x)
      BY <3>1, <3>3
    <3>7. codes \in Seq(CodeRec)
      BY <1>1
    <3> HIDE DEF y, out1, V, x, plain, k, j
    <3>5. Padded(codes, plain, j) = y
      BY <1>4, <3>4, <3>7, PaddedNext
    <3>6. Padded(out, x, j) = out1
      BY <3>2, <3>4, PaddedNext
    <3> QED BY <3>5, <3>6 DEF y, j
  <2>7. Sends(Append(codes, plain), out1, occ1)
    <3>1. Sends(Padded(codes, plain, 1), Padded(out, x, 1), [occ EXCEPT ![x] = @ + 1])
      <4> HIDE DEF x
      <4>1. x \in 0 .. MaxBits /\ 1 \in Nat
        BY <1>2
      <4> QED BY <4>1, SendPlain
    <3> QED BY <2>6, <3>1
  <2>8. d = Append(Append(codes, plain), c)
    <3> DEFINE y == Append(codes, plain)
               z == Append(y, c)
    <3>1. y = Append(codes, plain) /\ z = Append(y, c)
      OBVIOUS
    <3> HIDE DEF y, z, plain, c
    <3>2. codes \o (<<plain>> \o <<c>>) = z
      BY <1>1, <1>4, <2>4, <3>1, Attached, SMTT(40)
    <3>3. d = z
      BY <2>3, <3>2
    <3> QED BY <3>3 DEF y, z
  <2>9. /\ Len(out1) >= 1 /\ out1[Len(out1)] = x /\ Padded(out1, x, m) = Padded(out, x, n)
    <3> DEFINE V == Nat
    <3>1. out \in Seq(V) /\ x \in V /\ m \in Nat /\ n = m + 1 /\ out1 = Append(out, x)
      BY <1>1, <1>3, <2>2
    <3> HIDE DEF V, x, n, m, out1
    <3>2. out1[Len(out1)] = x
      BY <3>1
    <3>3. Len(out) \in Nat /\ Len(out1) = Len(out) + 1
      BY <3>1
    <3>4. Padded(out1, x, m) = Padded(out, x, n)
      BY <3>1, PaddedMore
    <3> QED BY <3>2, <3>3, <3>4
  <2> HIDE DEF out1, c, occ1, x, n, m, plain
  <2>10. Sends(Append(Append(codes, plain), c), Padded(out1, x, m), [occ1 EXCEPT ![c.code] = @ + 1])
    BY <1>3, <2>2, <2>4, <2>7, <2>9, SendRepeat
  <2> QED BY <2>5, <2>8, <2>9, <2>10 DEF x, n
<1>7. CASE n >= run.min /\ x # 0 /\ x = run.prev
  <2> DEFINE c == [code |-> Rep3_6, value |-> n - 3]
  <2>1. Limits(run.prev, x) = [max |-> RepMax, min |-> 3]
    BY <1>7 DEF Limits
  <2>2. n >= 3 /\ n <= 6 /\ n - 3 \in Nat /\ n - 3 < 4 /\ n = (n - 3) + 3 /\ n >= 1 /\ n - 0 - 3 = n - 3
    BY <1>2, <1>7, <2>1 DEF RepMax
  <2>3. SentRun(run) = <<>> \o <<c>>
    BY <1>2, <1>7, <2>2 DEF SentRun
  <2>4. Fits(c) /\ c \in CodeRec /\ c.code = Rep3_6 /\ n = c.value + 3
    <3>1. Fits(c)
      BY <2>2, RepeatFits DEF Rep3_6, Repz3_10, Repz11_138
    <3> QED BY <2>2, <3>1 DEF Fits
  <2>5. Scanned(occ, run) = [occ EXCEPT ![c.code] = @ + 1]
    <3>1. Scanned(occ, run) = [b \in DOMAIN occ |-> occ[b] + (IF b = x /\ x # run.prev THEN 1 ELSE 0)
                                                        + (IF b = Rep3_6 THEN 1 ELSE 0)]
      BY <1>2, <1>7 DEF Scanned
    <3>2. c.code = 16 /\ 16 \in 0 .. BlCodes - 1 /\ Rep3_6 = 16
      BY DEF Rep3_6, BlCodes
    <3>3. DOMAIN occ = 0 .. BlCodes - 1 /\ \A b \in 0 .. BlCodes - 1 : occ[b] \in Nat
      BY <1>1
    <3> DEFINE f == Scanned(occ, run)
               g == [occ EXCEPT ![c.code] = @ + 1]
    <3> HIDE DEF c, x
    <3>6. DOMAIN f = 0 .. BlCodes - 1 /\ f = [b \in DOMAIN f |-> f[b]]
      BY <3>1, <3>3
    <3>7. DOMAIN g = 0 .. BlCodes - 1 /\ g = [b \in DOMAIN g |-> g[b]]
      BY <3>3
    <3>8. ASSUME NEW b \in 0 .. BlCodes - 1 PROVE f[b] = g[b]
      <4>1. f[b] = occ[b] + (IF b = x /\ x # run.prev THEN 1 ELSE 0) + (IF b = Rep3_6 THEN 1 ELSE 0)
        BY <3>1, <3>3
      <4>2. g[b] = IF b = c.code THEN occ[b] + 1 ELSE occ[b]
        BY <3>3
      <4>3. occ[b] \in Nat
        BY <3>3
      <4> HIDE DEF f, g
      <4>4. c.code = Rep3_6 /\ x = run.prev
        BY <1>7, <3>2
      <4> QED BY <4>1, <4>2, <4>3, <4>4
    <3> HIDE DEF f, g
    <3>9. f = g
      BY <3>6, <3>7, <3>8
    <3> QED BY <3>9 DEF f, g
  <2>6. d = Append(codes, c)
    <3> DEFINE y == Append(codes, c)
               z == Append(y, c)
    <3>1. y = Append(codes, c) /\ z = Append(y, c)
      OBVIOUS
    <3> HIDE DEF y, z, c
    <3>2. codes \o (<<>> \o <<c>>) = y
      BY <1>1, <2>4, <3>1, Attached
    <3>3. d = y
      BY <2>3, <3>2
    <3> QED BY <3>3 DEF y
  <2>7. Len(out) >= 1 /\ out[Len(out)] = x
    BY <1>7
  <2> HIDE DEF c, x, n
  <2>8. Sends(Append(codes, c), Padded(out, x, n), [occ EXCEPT ![c.code] = @ + 1])
    BY <1>3, <2>2, <1>2, <2>4, <2>7, SendRepeat
  <2> QED BY <2>5, <2>6, <2>8 DEF x, n
<1>8. CASE n >= run.min /\ x = 0
  <2> DEFINE b == IF n <= ZeroShort THEN Repz3_10 ELSE Repz11_138
             c == [code |-> b, value |-> IF n <= ZeroShort THEN n - 3 ELSE n - (ZeroShort + 1)]
  <2>1. Limits(run.prev, x) = [max |-> ZeroLong, min |-> 3]
    BY <1>8 DEF Limits
  <2>2. n >= 3 /\ n <= ZeroLong
    BY <1>2, <1>8, <2>1
  <2>3. SentRun(run) = <<c>>
    BY <1>2, <1>8 DEF SentRun
  <2>4. Fits(c) /\ c \in CodeRec /\ c.code = b
    <3> DEFINE v == IF n <= ZeroShort THEN n - 3 ELSE n - (ZeroShort + 1)
    <3>1. v \in Nat /\ v < IF b = Rep3_6 THEN 4 ELSE IF b = Repz3_10 THEN 8 ELSE 128
      <4>1. b # Rep3_6 /\ (b = Repz3_10 <=> n <= ZeroShort)
        BY DEF Rep3_6, Repz3_10, Repz11_138
      <4> HIDE DEF b, x
      <4> QED BY <1>2, <2>2, <4>1, LimitsIs
    <3>2. b \in {Rep3_6, Repz3_10, Repz11_138}
      OBVIOUS
    <3> HIDE DEF v
    <3>3. Fits([code |-> b, value |-> v])
      <4> HIDE DEF b
      <4> QED BY <3>1, <3>2, RepeatFits
    <3> QED BY <3>3 DEF v, Fits
  <2>5. Scanned(occ, run) = [occ EXCEPT ![c.code] = @ + 1]
    BY <1>2, <1>8 DEF Scanned
  <2>6. d = Append(codes, c)
    <3> DEFINE y == Append(codes, c)
               z == Append(y, c)
    <3>1. y = Append(codes, c) /\ z = Append(y, c)
      OBVIOUS
    <3> HIDE DEF y, z, c
    <3>2. codes \o <<c>> = y
      BY <1>1, <2>4, <3>1, Attached
    <3>3. d = y
      BY <2>3, <3>2
    <3> QED BY <3>3 DEF y
  <2>7. \/ c.code = Repz3_10 /\ n = c.value + 3
        \/ c.code = Repz11_138 /\ n = c.value + ZeroShort + 1
    <3>1. ZeroShort \in Int
      BY LimitsIs
    <3> QED BY <1>2, <3>1
  <2>8. x = 0 /\ x \in Nat /\ n \in Nat /\ n >= 1
    BY <1>2, <1>8
  <2> HIDE DEF c, x, n
  <2>9. Sends(Append(codes, c), Padded(out, x, n), [occ EXCEPT ![c.code] = @ + 1])
    BY <2>4, <2>7, <2>8, SendRepeat
  <2> QED BY <2>5, <2>6, <2>9 DEF x, n
<1> QED BY <1>2, <1>5, <1>6, <1>7, <1>8

-----------------------------------------------------------------------------
(* A tree as it is sent                                                    *)

\* s, and behind it the first k lengths of a tree
Lengthened(s, tree, k) == s \o [j \in 1 .. k |-> tree.len[j - 1]]

LongerBy(p, s, tree, k) ==
  /\ p \in Seq(Nat) /\ Len(p) = Len(s) + k /\ \A i \in 1 .. Len(s) : p[i] = s[i]
  /\ \A j \in 1 .. k : p[Len(s) + j] = tree.len[j - 1]

\* What a decoder has got once a tree was sent
LEMMA LengthenedIs ==
  ASSUME NEW s \in Seq(Nat), NEW tree, CodedTree(tree), NEW k \in 0 .. tree.maxCode + 1
  PROVE  LongerBy(Lengthened(s, tree, k), s, tree, k)
<1> DEFINE c == [j \in 1 .. k |-> tree.len[j - 1]]
           e == s \o c
<1>1. \A j \in 1 .. k : tree.len[j - 1] \in Nat
  <2>1. tree.maxCode \in Nat
    BY DEF CodedTree
  <2>2. ASSUME NEW j \in 1 .. k PROVE tree.len[j - 1] \in Nat
    <3>1. j - 1 \in 0 .. tree.maxCode
      BY <2>1
    <3>2. tree.len[j - 1] \in 0 .. MaxBits
      BY <3>1 DEF CodedTree
    <3> QED BY <3>2, LimitsIs
  <2> QED BY <2>2
<1>2. k \in Nat
  BY DEF CodedTree
<1>3. c \in Seq(Nat) /\ Len(c) = k /\ \A j \in 1 .. k : c[j] = tree.len[j - 1]
  BY <1>1, <1>2
<1> HIDE DEF c
<1>4. e \in Seq(Nat) /\ Len(e) = Len(s) + k
  <2>1. c \in Seq(Nat) /\ Len(c) = k
    BY <1>3
  <2>2. e \in Seq(Nat) /\ Len(e) = Len(s) + Len(c)
    BY <2>1
  <2> QED BY <2>1, <2>2
<1>5. \A i \in 1 .. Len(s) : e[i] = s[i]
  BY <1>3
<1>6. ASSUME NEW j \in 1 .. k PROVE e[Len(s) + j] = tree.len[j - 1]
  <2>1. e[Len(s) + j] = c[j]
    BY <1>2, <1>3
  <2> QED BY <1>3, <2>1
<1>7. e = Lengthened(s, tree, k)
  BY DEF c, Lengthened
<1> HIDE DEF e
<1> QED BY <1>4, <1>5, <1>6, <1>7 DEF LongerBy

LEMMA LengthenedNone ==
  ASSUME NEW s \in Seq(Nat), NEW tree, CodedTree(tree)
  PROVE  Lengthened(s, tree, 0) = s
<1> DEFINE p == Lengthened(s, tree, 0)
           n == Len(s)
<1>1. 0 \in 0 .. tree.maxCode + 1
  BY DEF CodedTree
<1>2. LongerBy(p, s, tree, 0)
  BY <1>1, LengthenedIs
<1> HIDE DEF p
<1>3. p \in Seq(Nat) /\ Len(p) = n /\ \A i \in 1 .. n : p[i] = s[i]
  BY <1>2 DEF LongerBy
<1>4. DOMAIN p = 1 .. n /\ DOMAIN s = 1 .. n
  BY <1>3
<1>5. p = [i \in DOMAIN p |-> p[i]] /\ s = [i \in DOMAIN s |-> s[i]]
  BY <1>3, SeqIsFunction
<1> HIDE DEF n
<1>6. p = s
  BY <1>3, <1>4, <1>5
<1> QED BY <1>6 DEF p

LEMMA LengthenedMore ==
  ASSUME NEW s \in Seq(Nat), NEW tree, CodedTree(tree), NEW k \in Nat, NEW c \in Nat,
         k + c <= tree.maxCode + 1, NEW x, x \in Nat, \A i \in k .. k + c - 1 : tree.len[i] = x
  PROVE  Padded(Lengthened(s, tree, k), x, c) = Lengthened(s, tree, k + c)
<1> DEFINE V == Nat
           a == Lengthened(s, tree, k)
           e == Padded(a, x, c)
           f == Lengthened(s, tree, k + c)
           n == Len(s)
<1>1. k \in 0 .. tree.maxCode + 1 /\ k + c \in 0 .. tree.maxCode + 1 /\ n \in Nat /\ k + c \in Nat
  BY DEF CodedTree
<1>2. LongerBy(a, s, tree, k) /\ LongerBy(f, s, tree, k + c)
  BY <1>1, LengthenedIs
<1> HIDE DEF a, f
<1>3. a \in Seq(Nat) /\ Len(a) = n + k /\ (\A i \in 1 .. n : a[i] = s[i])
      /\ \A j \in 1 .. k : a[n + j] = tree.len[j - 1]
  BY <1>2 DEF LongerBy
<1>4. f \in Seq(Nat) /\ Len(f) = n + (k + c) /\ (\A i \in 1 .. n : f[i] = s[i])
      /\ \A j \in 1 .. k + c : f[n + j] = tree.len[j - 1]
  BY <1>2 DEF LongerBy
<1>5. e \in Seq(Nat) /\ Len(e) = (n + k) + c /\ (\A i \in 1 .. n + k : e[i] = a[i])
      /\ \A i \in (n + k) + 1 .. (n + k) + c : e[i] = x
  <2>1. a \in Seq(V) /\ x \in V
    BY <1>3
  <2> HIDE DEF V
  <2>2. Padded(a, x, c) \in Seq(V) /\ PadOf(Padded(a, x, c), a, x, c)
    BY <2>1, PaddedIs
  <2>3. e \in Seq(Nat)
    BY <2>2 DEF V
  <2>4. PadOf(e, a, x, c)
    BY <2>2
  <2> HIDE DEF e
  <2>5. Len(e) = Len(a) + c /\ (\A i \in 1 .. Len(a) : e[i] = a[i])
        /\ \A i \in Len(a) + 1 .. Len(a) + c : e[i] = x
    BY <2>4 DEF PadOf
  <2>6. Len(a) = n + k
    BY <1>3
  <2> HIDE DEF n
  <2> QED BY <2>3, <2>5, <2>6
<1> HIDE DEF e
<1>6. DOMAIN f = 1 .. n + (k + c) /\ DOMAIN e = 1 .. (n + k) + c
  BY <1>4, <1>5
<1>7. f = [i \in DOMAIN f |-> f[i]] /\ e = [i \in DOMAIN e |-> e[i]]
  BY <1>4, <1>5, SeqIsFunction
<1>8. /\ \A i \in 1 .. n : a[i] = s[i] /\ f[i] = s[i]
      /\ \A j \in 1 .. k : a[n + j] = tree.len[j - 1]
      /\ \A j \in 1 .. k + c : f[n + j] = tree.len[j - 1]
      /\ \A i \in 1 .. n + k : e[i] = a[i]
      /\ \A i \in (n + k) + 1 .. (n + k) + c : e[i] = x
  BY <1>3, <1>4, <1>5
<1> HIDE DEF n
<1>9. 1 .. n + (k + c) = 1 .. (n + k) + c
  BY <1>1
<1>10. ASSUME NEW i \in 1 .. n + (k + c) PROVE f[i] = e[i]
  <2>1. CASE i <= n
    <3>1. i \in 1 .. n /\ i \in 1 .. n + k
      BY <1>1, <2>1
    <3> QED BY <1>8, <3>1
  <2>2. CASE i > n /\ i <= n + k
    <3>1. i - n \in 1 .. k /\ i - n \in 1 .. k + c /\ n + (i - n) = i /\ i \in 1 .. n + k
      BY <1>1, <2>2
    <3> QED BY <1>8, <3>1
  <2>3. CASE i > n + k
    <3>1. i - n \in 1 .. k + c /\ n + (i - n) = i /\ i \in (n + k) + 1 .. (n + k) + c
          /\ (i - n) - 1 \in k .. k + c - 1
      BY <1>1, <2>3
    <3>2. f[i] = tree.len[(i - n) - 1]
      BY <1>8, <3>1
    <3> QED BY <1>8, <3>1, <3>2
  <2> QED BY <1>1, <2>1, <2>2, <2>3
<1>11. e = f
  BY <1>6, <1>7, <1>9, <1>10
<1> QED BY <1>11 DEF e, f, a

CodeSeq == Seq([code : Int, value : Int])

\* A run is sent as codes with their extra bits
LEMMA SentTyped ==
  ASSUME NEW run \in RunRec
  PROVE  SentRun(run) \in CodeSeq
<1> DEFINE R == [code : Int, value : Int]
           plain == [code |-> run.len, value |-> 0]
<1>1. run.len \in Int /\ run.count \in Nat /\ run.min \in Nat /\ run.prev \in Int
  <2>1. run.len \in 0 .. MaxBits /\ run.count \in Nat /\ run.min \in Nat /\ run.prev \in Int
    BY DEF RunRec
  <2> QED BY <2>1, LimitsIs
<1>2. plain \in R /\ \A v \in Int : /\ [code |-> Rep3_6, value |-> v] \in R
                                    /\ [code |-> Repz3_10, value |-> v] \in R
                                    /\ [code |-> Repz11_138, value |-> v] \in R
  BY <1>1 DEF Rep3_6, Repz3_10, Repz11_138
<1>3. CASE run.count < run.min
  <2>1. SentRun(run) = [i \in 1 .. run.count |-> plain]
    BY <1>1, <1>3 DEF SentRun
  <2> HIDE DEF plain, R
  <2>2. [i \in 1 .. run.count |-> plain] \in Seq(R)
    BY <1>1, <1>2
  <2> QED BY <2>1, <2>2 DEF CodeSeq, R
<1>4. CASE run.count >= run.min /\ run.len # 0
  <2> DEFINE v == run.count - (IF run.len # run.prev THEN 1 ELSE 0) - 3
             z == [code |-> Rep3_6, value |-> v]
  <2>1. SentRun(run) = (IF run.len # run.prev THEN <<plain>> ELSE <<>>) \o <<z>>
    BY <1>1, <1>4 DEF SentRun
  <2>2. v \in Int
    BY <1>1
  <2>3. z \in R
    <3> HIDE DEF v
    <3> QED BY <1>2, <2>2
  <2> HIDE DEF plain, R, z
  <2>4. <<plain>> \o <<z>> \in Seq(R) /\ <<>> \o <<z>> \in Seq(R)
    BY <1>2, <2>3
  <2> QED BY <2>1, <2>4 DEF CodeSeq, R
<1>5. CASE run.count >= run.min /\ run.len = 0
  <2> DEFINE u == [code |-> Repz3_10, value |-> run.count - 3]
             z == [code |-> Repz11_138, value |-> run.count - (ZeroShort + 1)]
  <2>1. SentRun(run) = IF run.count <= ZeroShort THEN <<u>> ELSE <<z>>
    BY <1>1, <1>5 DEF SentRun
  <2>2. u \in R /\ z \in R
    BY <1>1, <1>2, LimitsIs
  <2> HIDE DEF R, z, u
  <2>3. <<u>> \in Seq(R) /\ <<z>> \in Seq(R)
    BY <2>2
  <2> QED BY <2>1, <2>3 DEF CodeSeq, R
<1> QED BY <1>1, <1>3, <1>4, <1>5

FreqFun == [0 .. BlCodes - 1 -> Int]

\* A run leaves counts
LEMMA ScannedTyped ==
  ASSUME NEW run \in RunRec, NEW freq \in FreqFun
  PROVE  Scanned(freq, run) \in FreqFun
<1>1. run.len \in 0 .. BlCodes - 1 /\ run.count \in Nat /\ run.min \in Nat /\ run.prev \in Int
  <2>1. run.len \in 0 .. MaxBits /\ run.count \in Nat /\ run.min \in Nat /\ run.prev \in Int
    BY DEF RunRec
  <2> QED BY <2>1, BlSomeIs DEF BlCodes
<1>2. DOMAIN freq = 0 .. BlCodes - 1 /\ \A c \in 0 .. BlCodes - 1 : freq[c] \in Int
  BY DEF FreqFun
<1>3. CASE run.count < run.min
  <2>1. Scanned(freq, run) = [freq EXCEPT ![run.len] = @ + run.count]
    BY <1>1, <1>3 DEF Scanned
  <2> QED BY <1>1, <1>2, <2>1 DEF FreqFun
<1>4. CASE run.count >= run.min /\ run.len # 0
  <2>1. Scanned(freq, run) = [c \in DOMAIN freq |-> freq[c] + (IF c = run.len /\ run.len # run.prev THEN 1 ELSE 0)
                                        + (IF c = Rep3_6 THEN 1 ELSE 0)]
    BY <1>1, <1>4 DEF Scanned
  <2> QED BY <1>1, <1>2, <2>1 DEF FreqFun
<1>5. CASE run.count >= run.min /\ run.len = 0
  <2>1. Scanned(freq, run) = [freq EXCEPT ![IF run.count <= ZeroShort THEN Repz3_10 ELSE Repz11_138] = @ + 1]
    BY <1>1, <1>5 DEF Scanned
  <2> DEFINE b == IF run.count <= ZeroShort THEN Repz3_10 ELSE Repz11_138
  <2>2. b \in 0 .. BlCodes - 1
    BY DEF Repz3_10, Repz11_138, BlCodes
  <2> HIDE DEF b
  <2>3. [freq EXCEPT ![b] = @ + 1] \in FreqFun
    BY <1>2, <2>2 DEF FreqFun
  <2> QED BY <2>1, <2>3 DEF b
<1> QED BY <1>1, <1>3, <1>4, <1>5

LEMMA JoinedTwice ==
  ASSUME NEW V, NEW a \in Seq(V), NEW b \in Seq(V), NEW c \in Seq(V)
  PROVE  (a \o b) \o c = a \o (b \o c)
<1> DEFINE e == (a \o b) \o c
           f == a \o (b \o c)
<1>1. a \o b \in Seq(V) /\ b \o c \in Seq(V) /\ e \in Seq(V) /\ f \in Seq(V)
  OBVIOUS
<1>2. Len(a) \in Nat /\ Len(b) \in Nat /\ Len(c) \in Nat
  OBVIOUS
<1>3. DOMAIN e = 1 .. Len(e) /\ DOMAIN f = 1 .. Len(f)
  BY <1>1
<1>4. Len(e) = (Len(a) + Len(b)) + Len(c) /\ Len(f) = Len(a) + (Len(b) + Len(c))
  OBVIOUS
<1>5. DOMAIN e = DOMAIN f
  BY <1>2, <1>3, <1>4
<1>6. ASSUME NEW i \in DOMAIN e PROVE e[i] = f[i]
  BY <1>2, <1>3, <1>4
<1>7. e = [i \in DOMAIN e |-> e[i]]
  <2> HIDE DEF e
  <2> QED BY <1>1, SeqIsFunction
<1>8. f = [i \in DOMAIN f |-> f[i]]
  <2> HIDE DEF f
  <2> QED BY <1>1, SeqIsFunction
<1>9. e = f
  <2> HIDE DEF e, f
  <2> QED BY <1>5, <1>6, <1>7, <1>8
<1> QED BY <1>9

\* s[i]: the codes of the first i runs, f[i]: their counts on top of freq
SentBy(s, runs) ==
  /\ s \in [0 .. Len(runs) -> CodeSeq] /\ s[0] = <<>>
  /\ \A i \in 1 .. Len(runs) : s[i] = s[i - 1] \o SentRun(runs[i])
ScannedBy(f, freq, runs) ==
  /\ f \in [0 .. Len(runs) -> FreqFun] /\ f[0] = freq
  /\ \A i \in 1 .. Len(runs) : f[i] = Scanned(f[i - 1], runs[i])

\* sendTree sends what its runs are sent as (trees.go:532-586)
LEMMA SendTreeIs ==
  ASSUME NEW tree, Runs(tree) \in Seq(RunRec)
  PROVE  \E s : SentBy(s, Runs(tree)) /\ SendTree(tree) = s[Len(Runs(tree))]
<1> DEFINE runs == Runs(tree)
           N == Len(runs)
           Eqn(f) == f = [i \in 0 .. N |-> IF i = 0 THEN <<>> ELSE f[i - 1] \o SentRun(runs[i])]
           sent == CHOOSE f : Eqn(f)
           G == [p \in CodeSeq \X (1 .. N) |-> p[1] \o SentRun(runs[p[2]])]
<1>0. N \in Nat /\ \A i \in 1 .. N : runs[i] \in RunRec
  OBVIOUS
<1>1. SendTree(tree) = sent[N]
  BY DEF SendTree
<1> HIDE DEF runs, N
<1>2. \A x \in CodeSeq, i \in 1 .. N : x \o SentRun(runs[i]) \in CodeSeq
  <2>1. \A i \in 1 .. N : SentRun(runs[i]) \in CodeSeq
    BY <1>0, SentTyped
  <2> QED BY <2>1 DEF CodeSeq
<1>3. \A x \in CodeSeq, i \in 1 .. N : G[<<x, i>>] = x \o SentRun(runs[i])
  OBVIOUS
<1>4. StepsIn(G, CodeSeq, N)
  <2> HIDE DEF G
  <2> QED BY <1>2, <1>3 DEF StepsIn
<1> HIDE DEF G
<1>5. <<>> \in CodeSeq
  BY DEF CodeSeq
<1>6. PICK g : Loop(g, CodeSeq, <<>>, N, G)
  BY <1>0, <1>4, <1>5, LoopExists
<1>7. g \in [0 .. N -> CodeSeq] /\ g[0] = <<>> /\ \A i \in 1 .. N : g[i] = G[<<g[i - 1], i>>]
  BY <1>6 DEF Loop
<1>8. ASSUME NEW i \in 1 .. N PROVE g[i] = g[i - 1] \o SentRun(runs[i])
  <2>1. i - 1 \in 0 .. N
    BY <1>0
  <2>2. g[i - 1] \in CodeSeq
    BY <1>7, <2>1
  <2> QED BY <1>3, <1>7, <2>2
<1>9. Eqn(g)
  <2>1. ASSUME NEW i \in 0 .. N PROVE g[i] = IF i = 0 THEN <<>> ELSE g[i - 1] \o SentRun(runs[i])
    <3>1. i = 0 \/ i \in 1 .. N
      BY <1>0
    <3>2. 0 \notin 1 .. N
      BY <1>0
    <3>3. CASE i = 0
      BY <1>7, <3>3
    <3>4. CASE i \in 1 .. N
      BY <1>8, <3>2, <3>4
    <3> QED BY <3>1, <3>3, <3>4
  <2>2. g = [i \in 0 .. N |-> g[i]]
    BY <1>7
  <2> QED BY <2>1, <2>2
<1>10. Eqn(sent)
  BY <1>9
<1> HIDE DEF sent
<1>11. DOMAIN sent = 0 .. N /\ sent = [i \in DOMAIN sent |-> sent[i]] /\ sent[0] = <<>>
       /\ \A i \in 1 .. N : sent[i] = sent[i - 1] \o SentRun(runs[i])
  <2>1. DOMAIN sent = 0 .. N /\ sent = [i \in DOMAIN sent |-> sent[i]]
    BY <1>10
  <2>2. \A i \in 0 .. N : sent[i] = IF i = 0 THEN <<>> ELSE sent[i - 1] \o SentRun(runs[i])
    BY <1>10
  <2> HIDE DEF Eqn
  <2>3. 0 \in 0 .. N /\ \A i \in 1 .. N : i \in 0 .. N /\ i # 0
    BY <1>0
  <2> QED BY <2>1, <2>2, <2>3
<1> HIDE DEF Eqn
<1>12. \A i \in 1 .. N : sent[i - 1] \in CodeSeq => sent[i] = G[<<sent[i - 1], i>>]
  BY <1>3, <1>11
<1>13. Loop(sent, CodeSeq, <<>>, N, G)
  BY <1>0, <1>4, <1>5, <1>11, <1>12, LoopIs
<1>14. SentBy(sent, runs)
  <2>1. sent \in [0 .. N -> CodeSeq]
    BY <1>13 DEF Loop
  <2> QED BY <1>11, <2>1 DEF SentBy, N
<1> QED BY <1>1, <1>14 DEF runs, N

\* scanTree counts what its runs are counted as (trees.go:485-530)
LEMMA ScanTreeIs ==
  ASSUME NEW tree, Runs(tree) \in Seq(RunRec), NEW freq \in FreqFun
  PROVE  \E f : ScannedBy(f, freq, Runs(tree)) /\ ScanTree(freq, tree) = f[Len(Runs(tree))]
<1> DEFINE runs == Runs(tree)
           N == Len(runs)
           Eqn(f) == f = [i \in 0 .. N |-> IF i = 0 THEN freq ELSE Scanned(f[i - 1], runs[i])]
           scanned == CHOOSE f : Eqn(f)
           G == [p \in FreqFun \X (1 .. N) |-> Scanned(p[1], runs[p[2]])]
<1>0. N \in Nat /\ \A i \in 1 .. N : runs[i] \in RunRec
  OBVIOUS
<1>1. ScanTree(freq, tree) = scanned[N]
  BY DEF ScanTree
<1> HIDE DEF runs, N
<1>2. \A x \in FreqFun, i \in 1 .. N : Scanned(x, runs[i]) \in FreqFun
  BY <1>0, ScannedTyped
<1>3. \A x \in FreqFun, i \in 1 .. N : G[<<x, i>>] = Scanned(x, runs[i])
  OBVIOUS
<1>4. StepsIn(G, FreqFun, N)
  <2> HIDE DEF G
  <2> QED BY <1>2, <1>3 DEF StepsIn
<1> HIDE DEF G
<1>6. PICK g : Loop(g, FreqFun, freq, N, G)
  BY <1>0, <1>4, LoopExists
<1>7. g \in [0 .. N -> FreqFun] /\ g[0] = freq /\ \A i \in 1 .. N : g[i] = G[<<g[i - 1], i>>]
  BY <1>6 DEF Loop
<1>8. ASSUME NEW i \in 1 .. N PROVE g[i] = Scanned(g[i - 1], runs[i])
  <2>1. i - 1 \in 0 .. N
    BY <1>0
  <2>2. g[i - 1] \in FreqFun
    BY <1>7, <2>1
  <2> QED BY <1>3, <1>7, <2>2
<1>9. Eqn(g)
  <2>1. ASSUME NEW i \in 0 .. N PROVE g[i] = IF i = 0 THEN freq ELSE Scanned(g[i - 1], runs[i])
    <3>1. i = 0 \/ i \in 1 .. N
      BY <1>0
    <3>2. 0 \notin 1 .. N
      BY <1>0
    <3>3. CASE i = 0
      BY <1>7, <3>3
    <3>4. CASE i \in 1 .. N
      BY <1>8, <3>2, <3>4
    <3> QED BY <3>1, <3>3, <3>4
  <2>2. g = [i \in 0 .. N |-> g[i]]
    BY <1>7
  <2> QED BY <2>1, <2>2
<1>10. Eqn(scanned)
  BY <1>9
<1> HIDE DEF scanned
<1>11. DOMAIN scanned = 0 .. N /\ scanned = [i \in DOMAIN scanned |-> scanned[i]] /\ scanned[0] = freq
       /\ \A i \in 1 .. N : scanned[i] = Scanned(scanned[i - 1], runs[i])
  <2>1. DOMAIN scanned = 0 .. N /\ scanned = [i \in DOMAIN scanned |-> scanned[i]]
    BY <1>10
  <2>2. \A i \in 0 .. N : scanned[i] = IF i = 0 THEN freq ELSE Scanned(scanned[i - 1], runs[i])
    BY <1>10
  <2> HIDE DEF Eqn
  <2>3. 0 \in 0 .. N /\ \A i \in 1 .. N : i \in 0 .. N /\ i # 0
    BY <1>0
  <2> QED BY <2>1, <2>2, <2>3
<1> HIDE DEF Eqn
<1>12. \A i \in 1 .. N : scanned[i - 1] \in FreqFun => scanned[i] = G[<<scanned[i - 1], i>>]
  BY <1>3, <1>11
<1>13. Loop(scanned, FreqFun, freq, N, G)
  BY <1>0, <1>4, <1>11, <1>12, LoopIs
<1>14. ScannedBy(scanned, freq, runs)
  <2>1. scanned \in [0 .. N -> FreqFun]
    BY <1>13 DEF Loop
  <2> QED BY <1>11, <2>1 DEF ScannedBy, N
<1> QED BY <1>1, <1>14 DEF runs, N

\* Behind codes that send out, a tree's codes send its lengths, and scanTree counts them
LEMMA TreeSent ==
  ASSUME NEW tree, CodedTree(tree), NEW codes, NEW out, NEW occ, Sends(codes, out, occ),
         NEW d, d = codes \o SendTree(tree)
  PROVE  Sends(d, Lengthened(out, tree, tree.maxCode + 1), ScanTree(occ, tree))
<1> DEFINE runs == Runs(tree)
           N == Len(runs)
<1>1. PICK e : Cuts(runs, e, tree) /\ e[N] = tree.maxCode + 1
  BY RunsIs
<1>2. runs \in Seq(RunRec) /\ N \in Nat /\ e[0] = 0 /\ \A i \in 0 .. N : e[i] \in Nat
  BY <1>1 DEF Cuts
<1>3. occ \in FreqFun /\ codes \in CodeSeq /\ out \in Seq(Nat)
  <2>1. codes \in Seq(CodeRec) /\ occ \in [0 .. BlCodes - 1 -> Nat] /\ out \in Seq(Nat)
    BY DEF Sends
  <2> DEFINE R == [code : Int, value : Int]
  <2>2. BlSome \subseteq Int
    BY BlSomeIs DEF BlCodes
  <2>5. CodeRec \subseteq R
    <3>1. ASSUME NEW c \in CodeRec PROVE c \in R
      <4>1. c = [code |-> c.code, value |-> c.value] /\ c.code \in BlSome /\ c.value \in Nat
        BY DEF CodeRec
      <4>2. c.code \in Int
        BY <2>2, <4>1
      <4> QED BY <4>1, <4>2
    <3> QED BY <3>1
  <2> HIDE DEF R
  <2>3. codes \in Seq(R)
    BY <2>1, <2>5
  <2>4. occ \in [0 .. BlCodes - 1 -> Int]
    BY <2>1
  <2> QED BY <2>1, <2>3, <2>4 DEF CodeSeq, FreqFun, R
<1>4. PICK s : SentBy(s, runs) /\ SendTree(tree) = s[N]
  BY <1>2, SendTreeIs
<1>5. PICK f : ScannedBy(f, occ, runs) /\ ScanTree(occ, tree) = f[N]
  BY <1>2, <1>3, ScanTreeIs
<1>6. /\ \A i \in 0 .. N : s[i] \in CodeSeq
      /\ s[0] = <<>> /\ \A i \in 1 .. N : s[i] = s[i - 1] \o SentRun(runs[i])
  BY <1>4 DEF SentBy
<1>7. /\ f[0] = occ /\ \A i \in 1 .. N : f[i] = Scanned(f[i - 1], runs[i])
  BY <1>5 DEF ScannedBy
<1>8. \A i \in 1 .. N :
        /\ runs[i] \in RunRec /\ e[i] = e[i - 1] + runs[i].count
        /\ \A k \in e[i - 1] .. e[i] - 1 : tree.len[k] = runs[i].len
        /\ runs[i].prev = IF i = 1 THEN Guard - 1 ELSE runs[i - 1].len
        /\ runs[i].count >= 1 /\ runs[i].count <= Limits(runs[i].prev, runs[i].len).max
        /\ runs[i].min = Limits(runs[i].prev, runs[i].len).min
  BY <1>1, <1>2 DEF Cuts
<1>9. tree.maxCode \in Nat
  BY DEF CodedTree
<1> HIDE DEF runs, N
<1>10. \A i \in 0 .. N : e[i] <= tree.maxCode + 1
  <2> DEFINE Ok == {i \in Nat : e[N - i] <= tree.maxCode + 1}
  <2>1. 0 \in Ok
    BY <1>1, <1>2, <1>9
  <2>2. ASSUME NEW i \in 0 .. N - 1, i \in Ok PROVE i + 1 \in Ok
    <3>1. N - i \in 1 .. N /\ N - i \in 0 .. N /\ (N - i) - 1 \in 0 .. N /\ (N - i) - 1 = N - (i + 1)
      BY <1>2
    <3>2. e[N - i] = e[(N - i) - 1] + runs[N - i].count /\ runs[N - i].count >= 1
          /\ runs[N - i].count \in Nat
      BY <1>8, <3>1 DEF RunRec
    <3>3. e[N - i] \in Nat /\ e[(N - i) - 1] \in Nat
      BY <1>2, <3>1
    <3>4. e[N - i] <= tree.maxCode + 1
      BY <2>2
    <3>5. e[(N - i) - 1] <= tree.maxCode + 1
      BY <1>9, <3>2, <3>3, <3>4
    <3> QED BY <3>1, <3>5
  <2>3. \A i \in 0 .. N : i \in Ok
    <3> HIDE DEF Ok
    <3> QED BY <1>2, <2>1, <2>2, InductionUpTo
  <2>4. ASSUME NEW i \in 0 .. N PROVE e[i] <= tree.maxCode + 1
    <3>1. N - i \in 0 .. N /\ N - (N - i) = i
      BY <1>2
    <3> QED BY <2>3, <3>1
  <2> QED BY <2>4
<1> DEFINE J(i) == codes \o s[i]
           K == {i \in Nat : i <= N => Sends(J(i), Lengthened(out, tree, e[i]), f[i])}
<1>11. 0 \in K
  <2>1. J(0) = codes
    BY <1>3, <1>6 DEF CodeSeq
  <2>2. Lengthened(out, tree, 0) = out
    BY <1>3, LengthenedNone
  <2> QED BY <1>2, <1>7, <2>1, <2>2
<1>12. ASSUME NEW i \in 0 .. N - 1, i \in K PROVE i + 1 \in K
  <2> DEFINE j == i + 1
             run == runs[j]
             o == Lengthened(out, tree, e[i])
  <2>0. j \in 1 .. N /\ j - 1 = i /\ i \in 0 .. N /\ i \in Nat /\ i <= N /\ j \in Nat /\ j <= N /\ j \in 0 .. N
    BY <1>2
  <2>1. Sends(J(i), o, f[i])
    BY <1>12, <2>0
  <2>2. /\ run \in RunRec /\ e[j] = e[i] + run.count
        /\ \A k \in e[i] .. e[j] - 1 : tree.len[k] = run.len
        /\ run.prev = IF j = 1 THEN Guard - 1 ELSE runs[i].len
        /\ run.count >= 1 /\ run.count <= Limits(run.prev, run.len).max
        /\ run.min = Limits(run.prev, run.len).min
    BY <1>8, <2>0
  <2>3. e[i] \in 0 .. tree.maxCode + 1 /\ e[j] \in 0 .. tree.maxCode + 1 /\ e[i] \in Nat /\ run.count \in Nat
        /\ run.len \in Nat /\ run.len \in Int
    <3>1. e[i] \in Nat /\ e[j] \in Nat /\ e[i] <= tree.maxCode + 1 /\ e[j] <= tree.maxCode + 1
      BY <1>2, <1>10, <2>0
    <3>2. run.count \in Nat /\ run.len \in 0 .. MaxBits
      BY <2>2 DEF RunRec
    <3> QED BY <1>9, <3>1, <3>2, LimitsIs
  <2>4. LongerBy(o, out, tree, e[i])
    BY <1>3, <2>3, LengthenedIs
  <2>5. run.prev = run.len => Len(o) >= 1 /\ o[Len(o)] = run.len
    <3> SUFFICES ASSUME run.prev = run.len PROVE Len(o) >= 1 /\ o[Len(o)] = run.len
      OBVIOUS
    <3>1. j # 1
      BY <2>2, <2>3 DEF Guard
    <3>2. i \in 1 .. N /\ i - 1 \in 0 .. N
      BY <2>0, <3>1, <1>2
    <3>3. /\ e[i] = e[i - 1] + runs[i].count /\ runs[i].count >= 1 /\ runs[i].count \in Nat
          /\ \A k \in e[i - 1] .. e[i] - 1 : tree.len[k] = runs[i].len
      BY <1>8, <3>2 DEF RunRec
    <3>4. e[i - 1] \in Nat
      BY <1>2, <3>2
    <3>5. e[i] - 1 \in e[i - 1] .. e[i] - 1 /\ e[i] \in 1 .. e[i]
      BY <2>3, <3>3, <3>4
    <3>6. tree.len[e[i] - 1] = run.len
      BY <2>2, <3>1, <3>3, <3>5
    <3>7. Len(o) = Len(out) + e[i] /\ o[Len(out) + e[i]] = tree.len[e[i] - 1]
      BY <2>4, <3>5 DEF LongerBy
    <3>8. Len(out) \in Nat
      BY <1>3
    <3> HIDE DEF o
    <3> QED BY <2>3, <3>5, <3>6, <3>7, <3>8
  <2>6. J(j) = J(i) \o SentRun(run)
    <3>1. s[j] = s[i] \o SentRun(run) /\ s[i] \in CodeSeq /\ SentRun(run) \in CodeSeq
      BY <1>6, <2>0, <2>2, SentTyped
    <3> HIDE DEF run
    <3>2. codes \o (s[i] \o SentRun(run)) = (codes \o s[i]) \o SentRun(run)
      <4> DEFINE a == codes
                 b == s[i]
                 c == SentRun(run)
                 R == [code : Int, value : Int]
      <4>1. a \in Seq(R) /\ b \in Seq(R) /\ c \in Seq(R)
        BY <1>3, <3>1 DEF CodeSeq
      <4> HIDE DEF a, b, c, R
      <4>2. (a \o b) \o c = a \o (b \o c)
        BY <4>1, JoinedTwice, SMTT(40)
      <4> QED BY <4>2 DEF a, b, c
    <3> QED BY <3>1, <3>2
  <2>7. f[j] = Scanned(f[i], run)
    BY <1>7, <2>0
  <2>8. Padded(o, run.len, run.count) = Lengthened(out, tree, e[j])
    <3>1. \A k \in e[i] .. (e[i] + run.count) - 1 : tree.len[k] = run.len
      BY <2>2
    <3>2. e[i] + run.count <= tree.maxCode + 1
      BY <2>2, <2>3
    <3> HIDE DEF run
    <3>3. Padded(o, run.len, run.count) = Lengthened(out, tree, e[i] + run.count)
      <4>1. ASSUME NEW k, k = e[i], NEW c, c = run.count, NEW x, x = run.len
            PROVE  Padded(Lengthened(out, tree, k), x, c) = Lengthened(out, tree, k + c)
        <5>1. k \in Nat /\ c \in Nat /\ x \in Nat /\ k + c <= tree.maxCode + 1
              /\ \A l \in k .. k + c - 1 : tree.len[l] = x
          BY <2>3, <3>1, <3>2, <4>1
        <5>2. out \in Seq(Nat)
          BY <1>3
        <5> QED BY <5>1, <5>2, LengthenedMore, SMTT(40)
      <4> QED BY <4>1 DEF o
    <3> QED BY <2>2, <3>3
  <2> HIDE DEF o, run, J, j
  <2>9. Sends(J(j), Padded(o, run.len, run.count), Scanned(f[i], run))
    BY <2>1, <2>2, <2>5, <2>6, RunSent
  <2>10. Sends(J(j), Lengthened(out, tree, e[j]), f[j])
    BY <2>7, <2>8, <2>9
  <2> QED BY <2>0, <2>10 DEF J, j
<1>13. N \in K
  <2>1. \A i \in 0 .. N : i \in K
    <3> HIDE DEF K
    <3> QED BY <1>2, <1>11, <1>12, InductionUpTo
  <2> QED BY <1>2, <2>1
<1>14. Sends(J(N), Lengthened(out, tree, e[N]), f[N])
  BY <1>2, <1>13
<1> QED BY <1>1, <1>4, <1>5, <1>14 DEF N

-----------------------------------------------------------------------------
(* What holds between the functions of trFlushBlock                        *)

\* The counts a tree is built from
FreqOf(x) == IF x = "l" THEN tally.l ELSE IF x = "d" THEN tally.d ELSE blFreq
Before    == [l |-> {}, d |-> {"l"}, bl |-> {"l", "d"}]
Nothing   == [c \in 0 .. BlCodes - 1 |-> 0]

\* Where trFlushBlock stands: which trees are built
Staged ==
  /\ name \in Names /\ stage \in {"collect", "merge", "codes", "choose", "done"}
  /\ stage \in {"choose", "done"} => name = "bl"
  /\ tally \in Tallies
  /\ DOMAIN built = IF stage \in {"choose", "done"} THEN Names ELSE Before[name]
  /\ optLen \in Int /\ staticLen \in Int

\* No code begins another
Apart(tree) ==
  \A m, n \in Coded(tree.len, tree.maxCode) :
    m # n /\ tree.len[m] <= tree.len[n] => tree.code[m] # tree.code[n] % Pow2(tree.len[m])

\* A tree ready to be sent and coded with
Finished(tree, x) ==
  /\ tree.len \in [0 .. Desc[x].elems - 1 -> 0 .. Desc[x].maxLength]
  /\ tree.maxCode \in 0 .. Desc[x].elems - 1
  /\ \A n \in 0 .. Desc[x].elems - 1 :
       /\ n > tree.maxCode => tree.len[n] = 0
       /\ FreqOf(x)[n] # 0 => tree.len[n] # 0
  /\ Apart(tree)

\* The codes of the two trees, and the lengths they are sent for
Header  == SendTree(built.l) \o SendTree(built.d)
Lengths2 == Lengthened(Lengthened(<<>>, built.l, built.l.maxCode + 1), built.d, built.d.maxCode + 1)
\* The bit length tree is made from the counts of the codes it will be used for
HeaderCounted ==
  /\ name # "bl" => blFreq = Nothing
  /\ name = "bl" => Sends(Header, Lengths2, blFreq)

\* A is the set of forced symbols, among 0 .. 2: they have count 1, and only a tree of two
\* symbols has one
Forcing(tr, A, freq) ==
  /\ A \in SUBSET (Leaves \cap (0 .. 2))
  /\ \A n \in A : freq[n] = 0 /\ tr.fc[n] = 1
  /\ \A n \in Leaves \ A : tr.fc[n] = freq[n]
  /\ A # {} => Cardinality(InTree(tr)) = 2
Collected(tr) == \E A : Forcing(tr, A, FreqOf(name))

\* In the merge loop; and with lengths handed out
AtMerge == /\ Merging(t) /\ Queue(t) /\ Cardinality(InTree(t)) <= Pow2(Limit) /\ Collected(t)
AtCodes == /\ t \in TreeRec /\ Lengths(t.dl, InTree(t)) /\ Collected(t)
           /\ t.maxCode \in InTree(t) /\ \A n \in InTree(t) : n <= t.maxCode

\* The inductive invariant
Core ==
  /\ Staged /\ HeaderCounted
  /\ \A x \in DOMAIN built : Finished(built[x], x)
  /\ stage = "merge" => AtMerge
  /\ stage = "codes" => AtCodes

\* The counts tallyLit and tallyDist leave (sym_split.go:85-104)
LEMMA TallyIs ==
  ASSUME tally \in Tallies
  PROVE  tally.l \in [0 .. LCodes - 1 -> Nat] /\ tally.d \in [0 .. DCodes - 1 -> Nat]
BY TallyAssumption

LEMMA AddAtMost ==
  ASSUME NEW S, IsFiniteSet(S), NEW x, NEW m, m \in Nat, Cardinality(S) <= m, NEW T, T = S \cup {x}
  PROVE  IsFiniteSet(T) /\ Cardinality(T) <= m + 1
<1>1. Cardinality(S) \in Nat
  BY FS_CardinalityType
<1>2. /\ IsFiniteSet(S \cup {x})
      /\ Cardinality(S \cup {x}) = IF x \in S THEN Cardinality(S) ELSE Cardinality(S) + 1
  BY FS_AddElement
<1> QED BY <1>1, <1>2

\* How many different codes a header has
LEMMA SomeCard == IsFiniteSet(BlSome) /\ Cardinality(BlSome) <= MaxBits + 4
<1> DEFINE A == 0 .. MaxBits
           B == A \cup {Rep3_6}
           C == B \cup {Repz3_10}
           D == C \cup {Repz11_138}
           k == MaxBits + 1
<1>1. MaxBits \in Nat /\ k \in Nat /\ k + 1 \in Nat /\ (k + 1) + 1 \in Nat /\ ((k + 1) + 1) + 1 = MaxBits + 4
  BY LimitsPositive
<1>2. IsFiniteSet(A) /\ Cardinality(A) <= k
  <2>1. IsFiniteSet(0 .. MaxBits) /\ Cardinality(0 .. MaxBits) = IF 0 > MaxBits THEN 0 ELSE MaxBits - 0 + 1
    BY <1>1, FS_Interval
  <2> QED BY <1>1, <2>1
<1>3. BlSome = D
  BY DEF BlSome
<1>4. B = A \cup {Rep3_6} /\ C = B \cup {Repz3_10} /\ D = C \cup {Repz11_138}
  OBVIOUS
<1> HIDE DEF A, B, C, D, k
<1>5. IsFiniteSet(B) /\ Cardinality(B) <= k + 1
  BY <1>1, <1>2, <1>4, AddAtMost
<1>6. IsFiniteSet(C) /\ Cardinality(C) <= (k + 1) + 1
  BY <1>1, <1>4, <1>5, AddAtMost
<1>7. IsFiniteSet(D) /\ Cardinality(D) <= ((k + 1) + 1) + 1
  BY <1>1, <1>4, <1>6, AddAtMost
<1> QED BY <1>1, <1>3, <1>7

\* Only codes that are sent have been counted
LEMMA SentCounted ==
  ASSUME NEW codes, NEW out, NEW occ, Sends(codes, out, occ)
  PROVE  /\ occ \in [0 .. BlCodes - 1 -> Nat]
         /\ \A c \in 0 .. BlCodes - 1 : occ[c] # 0 => c \in BlSome
         /\ \A i \in 1 .. Len(codes) : codes[i].code \in 0 .. BlCodes - 1 /\ occ[codes[i].code] # 0
<1>1. /\ codes \in Seq(CodeRec) /\ \A i \in 1 .. Len(codes) : Fits(codes[i])
      /\ occ \in [0 .. BlCodes - 1 -> Nat]
      /\ \A c \in 0 .. BlCodes - 1 : occ[c] = Cardinality({i \in 1 .. Len(codes) : codes[i].code = c})
  BY DEF Sends
<1>2. \A i \in 1 .. Len(codes) : codes[i].code \in BlSome
  BY <1>1 DEF Fits, CodeRec
<1>3. Len(codes) \in Nat
  BY <1>1
<1>4. ASSUME NEW c \in 0 .. BlCodes - 1, occ[c] # 0 PROVE c \in BlSome
  <2>1. {i \in 1 .. Len(codes) : codes[i].code = c} # {}
    BY <1>1, <1>4, FS_EmptySet
  <2> QED BY <1>2, <2>1
<1>5. ASSUME NEW i \in 1 .. Len(codes) PROVE codes[i].code \in 0 .. BlCodes - 1 /\ occ[codes[i].code] # 0
  <2> DEFINE c == codes[i].code
             S == {j \in 1 .. Len(codes) : codes[j].code = c}
  <2>1. c \in 0 .. BlCodes - 1
    BY <1>2, BlSomeIs
  <2>2. i \in S /\ S \subseteq 1 .. Len(codes)
    OBVIOUS
  <2> HIDE DEF S
  <2>3. IsFiniteSet(S)
    <3>1. 0 \in Int /\ 1 \in Int /\ Len(codes) \in Int
      BY <1>3
    <3>2. IsFiniteSet(1 .. Len(codes))
      BY <3>1, FS_Interval
    <3> QED BY <2>2, <3>2, FS_Subset
  <2>4. occ[c] = Cardinality(S)
    BY <1>1, <2>1 DEF S
  <2>5. Cardinality(S) # 0
    BY <2>2, <2>3, FS_EmptySet
  <2> QED BY <2>1, <2>4, <2>5
<1> QED BY <1>1, <1>4, <1>5

\* Before a tree is built its symbols are counted, no more of them than there are codes
LEMMA FreqIs ==
  ASSUME Staged, HeaderCounted
  PROVE  /\ FreqOf(name) \in [Leaves -> Nat] /\ Freq = FreqOf(name)
         /\ IsFiniteSet({n \in Leaves : FreqOf(name)[n] # 0})
         /\ Cardinality({n \in Leaves : FreqOf(name)[n] # 0}) <= Pow2(Limit)
<1> DEFINE S == {n \in Leaves : FreqOf(name)[n] # 0}
<1>1. name \in Names /\ tally \in Tallies
  BY DEF Staged
<1>2. /\ Elems \in Nat /\ Limit \in Nat
      /\ name # "bl" => Limit = MaxBits /\ Elems <= Pow2(Limit)
      /\ name = "bl" => Limit = MaxBlBits /\ Elems = BlCodes
  BY <1>1, DescIs
<1>3. Elems = IF name = "l" THEN LCodes ELSE IF name = "d" THEN DCodes ELSE BlCodes
  BY <1>1 DEF Names, Elems, Desc
<1>4. Freq = FreqOf(name)
  BY <1>1 DEF Names, Freq, FreqOf
<1>5. CASE name # "bl"
  <2>1. FreqOf(name) \in [Leaves -> Nat]
    BY <1>1, <1>3, <1>5, TallyIs DEF Leaves, FreqOf, Names
  <2>2. IsFiniteSet(Leaves) /\ Cardinality(Leaves) = Elems
    <3>1. 0 \in Int /\ Elems - 1 \in Int
      BY <1>2
    <3>2. IsFiniteSet(0 .. Elems - 1) /\ Cardinality(0 .. Elems - 1) = IF 0 > Elems - 1 THEN 0 ELSE (Elems - 1) - 0 + 1
      BY <3>1, FS_Interval
    <3> QED BY <1>2, <3>2 DEF Leaves
  <2>3. S \subseteq Leaves
    OBVIOUS
  <2> HIDE DEF S
  <2>4. IsFiniteSet(S) /\ Cardinality(S) <= Elems /\ Cardinality(S) \in Nat
    BY <2>2, <2>3, FS_Subset, FS_CardinalityType
  <2>5. Pow2(Limit) \in Nat
    BY <1>2, Pow2Positive
  <2>6. Cardinality(S) <= Pow2(Limit)
    BY <1>2, <1>5, <2>4, <2>5
  <2> QED BY <1>4, <2>1, <2>4, <2>6 DEF S
<1>6. CASE name = "bl"
  <2>1. Sends(Header, Lengths2, blFreq) /\ FreqOf(name) = blFreq
    BY <1>6 DEF HeaderCounted, FreqOf
  <2>2. blFreq \in [0 .. BlCodes - 1 -> Nat] /\ \A c \in 0 .. BlCodes - 1 : blFreq[c] # 0 => c \in BlSome
    BY <2>1, SentCounted
  <2>3. S \subseteq BlSome /\ FreqOf(name) \in [Leaves -> Nat]
    BY <1>2, <1>6, <2>1, <2>2 DEF Leaves
  <2> HIDE DEF S
  <2>4. IsFiniteSet(S) /\ Cardinality(S) <= Cardinality(BlSome) /\ Cardinality(S) \in Nat /\ Cardinality(BlSome) \in Nat
    BY <2>3, SomeCard, FS_Subset, FS_CardinalityType
  <2>5. Pow2(Limit) \in Nat /\ MaxBits + 4 <= Pow2(Limit) /\ MaxBits \in Nat
    BY <1>2, <1>6, Pow2Positive, LimitsPositive
  <2>6. Cardinality(S) <= Pow2(Limit)
    BY <2>4, <2>5, SomeCard
  <2> QED BY <1>4, <2>3, <2>4, <2>6 DEF S
<1> QED BY <1>5, <1>6

LEMMA SameTree ==
  ASSUME name' = name
  PROVE  /\ Elems' = Elems /\ Limit' = Limit /\ Leaves' = Leaves /\ Nodes' = Nodes
         /\ TreeRec' = TreeRec
BY DEF Elems, Limit, Leaves, Nodes, TreeRec

LEMMA MergingSame ==
  ASSUME name' = name, Merging(t')
  PROVE  Merging(t)'
BY SameTree DEF Merging, InTree, Turns

LEMMA QueueSame ==
  ASSUME name' = name, Queue(t')
  PROVE  Queue(t)'
BY SameTree DEF Queue, Turns, Heapy, Smaller

LEMMA CollectedSame ==
  ASSUME name' = name, tally' = tally, blFreq' = blFreq, Collected(t')
  PROVE  Collected(t)'
BY SameTree DEF Collected, Forcing, FreqOf, InTree

LEMMA LengthsSame ==
  ASSUME name' = name, Lengths(t'.dl, InTree(t'))
  PROVE  Lengths(t.dl, InTree(t))' /\ InTree(t)' = InTree(t')
BY SameTree DEF Lengths, InTree, Shares, Pow, Limit

LEMMA FinishedSame ==
  ASSUME tally' = tally, built' = built, NEW x \in Names, x = "bl" => blFreq' = blFreq, Finished(built[x], x)
  PROVE  Finished(built[x], x)'
BY DEF Finished, FreqOf, Apart, Coded, Names

LEMMA HeaderSame ==
  ASSUME name' = name, built' = built, blFreq' = blFreq, HeaderCounted
  PROVE  HeaderCounted'
BY DEF HeaderCounted, Header, Lengths2

\* buildTree up to its merge loop keeps what holds between the steps (trees.go:404-442)
LEMMA CollectKeeps == Core /\ Collect => Core'
<1> SUFFICES ASSUME Core, Collect PROVE Core'
  OBVIOUS
<1>1. /\ stage = "collect" /\ stage' = "merge" /\ tally' = tally /\ name' = name /\ built' = built
      /\ blFreq' = blFreq
  BY DEF Collect
<1>2. Staged /\ HeaderCounted /\ \A x \in DOMAIN built : Finished(built[x], x)
  BY DEF Core
<1>3. name \in Names /\ optLen \in Int /\ staticLen \in Int
  BY <1>2 DEF Staged
<1>4. /\ FreqOf(name) \in [Leaves -> Nat] /\ Freq = FreqOf(name)
      /\ IsFiniteSet({n \in Leaves : FreqOf(name)[n] # 0})
      /\ Cardinality({n \in Leaves : FreqOf(name)[n] # 0}) <= Pow2(Limit)
  BY <1>2, FreqIs
<1>5. Merging(t') /\ Queue(t')
  BY <1>3, <1>4, CollectMakes
<1>6. PICK A \in SUBSET (Leaves \cap (0 .. 2)) :
         /\ \A n \in A : Freq[n] = 0 /\ t'.fc[n] = 1
         /\ \A n \in Leaves \ A : t'.fc[n] = Freq[n]
         /\ optLen' = optLen - Cardinality(A)
         /\ staticLen' = staticLen - SumOn(Desc[name].static, A)
         /\ A # {} => Cardinality(InTree(t')) = 2
  BY <1>3, <1>4, CollectMakes
<1>7. Forcing(t', A, FreqOf(name))
  BY <1>4, <1>6 DEF Forcing
<1>8. IsFiniteSet(A) /\ Cardinality(A) \in Nat
  <2>1. IsFiniteSet(0 .. 2)
    <3>1. 0 \in Int /\ 2 \in Int
      OBVIOUS
    <3> QED BY <3>1, FS_Interval
  <2>2. A \subseteq 0 .. 2
    OBVIOUS
  <2> QED BY <2>1, <2>2, FS_Subset, FS_CardinalityType
<1>9. optLen' \in Int /\ staticLen' \in Int
  <2>1. Desc[name].static \in [Leaves -> Nat]
    BY <1>3, DescIs
  <2>2. IntOn(Desc[name].static, A)
    BY <2>1 DEF IntOn
  <2>3. SumOn(Desc[name].static, A) \in Int
    BY <1>8, <2>2, SumOnInt
  <2> QED BY <1>3, <1>6, <1>8, <2>3
<1>10. Cardinality(InTree(t')) <= Pow2(Limit)
  <2>1. CASE A = {}
    <3>1. InTree(t') = {n \in Leaves : FreqOf(name)[n] # 0}
      BY <1>4, <1>6, <2>1 DEF InTree
    <3> QED BY <1>4, <3>1
  <2>2. CASE A # {}
    <3>1. Limit \in Nat /\ Limit >= 1
      BY <1>3, DescIs
    <3>2. Limit - 1 \in Nat /\ (Limit - 1) + 1 = Limit
      BY <3>1
    <3> DEFINE k == Limit - 1
    <3>3. Pow2(k) \in Nat /\ Pow2(k) >= 1 /\ Pow2(k + 1) = 2 * Pow2(k)
      BY <3>2, Pow2Step, Pow2Positive
    <3>4. Pow2(k + 1) >= 2
      <4> HIDE DEF k
      <4> QED BY <3>3
    <3> QED BY <1>6, <2>2, <3>2, <3>4
  <2> QED BY <2>1, <2>2
<1>11. Collected(t')
  BY <1>7 DEF Collected
<1>12. Staged'
  BY <1>1, <1>2, <1>9 DEF Staged
<1>13. HeaderCounted'
  BY <1>1, <1>2, HeaderSame
<1>14. \A x \in (DOMAIN built)' : Finished(built[x], x)'
  <2>1. DOMAIN built \subseteq Names
    BY <1>2 DEF Staged, Before, Names
  <2> QED BY <1>1, <1>2, <2>1, FinishedSame
<1>15. AtMerge'
  <2>1. (Cardinality(InTree(t)) <= Pow2(Limit))'
    <3>1. InTree(t)' = InTree(t')
      BY <1>1, SameTree DEF InTree
    <3> QED BY <1>1, <1>10, <3>1, SameTree
  <2> QED BY <1>1, <1>5, <1>11, <2>1, MergingSame, QueueSame, CollectedSame DEF AtMerge
<1> QED BY <1>1, <1>12, <1>13, <1>14, <1>15 DEF Core

\* and so does a turn of the loop (trees.go:446-471)
LEMMA MergeKeeps == Core /\ Merge => Core'
<1> SUFFICES ASSUME Core, Merge PROVE Core'
  OBVIOUS
<1>1. /\ stage = "merge" /\ stage' = "merge" /\ tally' = tally /\ name' = name /\ built' = built
      /\ blFreq' = blFreq /\ optLen' = optLen /\ staticLen' = staticLen /\ Len(t.heap) >= 2
  BY DEF Merge
<1>2. Staged /\ HeaderCounted /\ (\A x \in DOMAIN built : Finished(built[x], x)) /\ AtMerge
  BY <1>1 DEF Core
<1>3. name \in Names
  BY <1>2 DEF Staged
<1>4. Merging(t) /\ Queue(t) /\ Cardinality(InTree(t)) <= Pow2(Limit) /\ Collected(t)
  BY <1>2 DEF AtMerge
<1>5. Elems \in Nat
  BY <1>3, DescIs
<1>6. PICK n, m, g : Turned(t, t', n, m, g) /\ Heapy(t', g, 1)
  <2>1. Heapy(t, t.heap, 1)
    BY <1>4 DEF Queue
  <2> QED BY <1>4, <1>5, <2>1, MergeStep
<1>7. Merging(t')
  BY <1>1, <1>4, <1>5, <1>6, MergingKept
<1>8. Queue(t')
  BY <1>1, <1>4, <1>5, <1>6, QueueKept
<1>9. /\ InTree(t') = InTree(t) /\ Elems + Turns(t) \notin Leaves
      /\ \A x \in Nodes : x # Elems + Turns(t) => t'.fc[x] = t.fc[x]
  <2>1. /\ InTree(t') = InTree(t)
        /\ \A x \in Nodes : x # Elems + Turns(t) => t'.fc[x] = t.fc[x]
    BY <1>1, <1>4, <1>5, <1>6, TurnedIs
  <2>2. Turns(t) \in Nat
    BY <1>4, <1>5, TurnsIs
  <2>3. Elems + Turns(t) \notin Leaves
    BY <1>5, <2>2 DEF Leaves
  <2> QED BY <2>1, <2>3
<1>10. \A x \in Leaves : t'.fc[x] = t.fc[x]
  <2>1. Leaves \subseteq Nodes
    BY <1>5 DEF Leaves, Nodes
  <2> QED BY <1>9, <2>1
<1>11. Collected(t')
  <2>1. PICK A : Forcing(t, A, FreqOf(name))
    BY <1>4 DEF Collected
  <2>2. Forcing(t', A, FreqOf(name))
    BY <1>9, <1>10, <2>1 DEF Forcing
  <2> QED BY <2>2 DEF Collected
<1>12. Staged'
  BY <1>1, <1>2 DEF Staged
<1>13. HeaderCounted'
  BY <1>1, <1>2, HeaderSame
<1>14. \A x \in (DOMAIN built)' : Finished(built[x], x)'
  <2>1. DOMAIN built \subseteq Names
    BY <1>2 DEF Staged, Before, Names
  <2> QED BY <1>1, <1>2, <2>1, FinishedSame
<1>15. AtMerge'
  <2>1. (Cardinality(InTree(t)) <= Pow2(Limit))'
    <3>1. InTree(t)' = InTree(t')
      BY <1>1, SameTree DEF InTree
    <3> QED BY <1>1, <1>4, <1>9, <3>1, SameTree
  <2> QED BY <1>1, <1>7, <1>8, <1>11, <2>1, MergingSame, QueueSame, CollectedSame DEF AtMerge
<1> QED BY <1>1, <1>12, <1>13, <1>14, <1>15 DEF Core

\* What GenBitlen leaves of the tree
LEMMA Coding ==
  ASSUME Elems \in Nat, Merging(t), NEW D, Lengths(D, InTree(t)), NEW u, u = [WithRoot(t) EXCEPT !.dl = D]
  PROVE  /\ u \in TreeRec /\ u.dl = D /\ u.fc = t.fc /\ u.maxCode = t.maxCode /\ InTree(u) = InTree(t)
         /\ u.sorted = WithRoot(t).sorted
<1>1. t \in TreeRec /\ Len(t.heap) >= 1
  BY DEF Merging
<1>2. WithRoot(t) \in TreeRec /\ WithRoot(t).fc = t.fc /\ WithRoot(t).maxCode = t.maxCode
  BY <1>1, WithRootIs
<1>3. D \in [Nodes -> Nat]
  BY DEF Lengths
<1> DEFINE w == WithRoot(t)
<1> HIDE DEF w
<1>4. w \in TreeRec /\ u = [w EXCEPT !.dl = D]
  BY <1>2 DEF w
<1>5. u \in TreeRec /\ u.dl = D /\ u.fc = w.fc /\ u.maxCode = w.maxCode /\ u.sorted = w.sorted
  BY <1>3, <1>4 DEF TreeRec
<1>6. InTree(u) = InTree(t)
  BY <1>2, <1>5 DEF InTree, w
<1> QED BY <1>2, <1>5, <1>6 DEF w

\* and genBitlen (trees.go:299-375)
LEMMA GenBitlenKeeps == Core /\ GenBitlen => Core'
<1> SUFFICES ASSUME Core, GenBitlen PROVE Core'
  OBVIOUS
<1>1. /\ stage = "merge" /\ stage' = "codes" /\ tally' = tally /\ name' = name /\ built' = built
      /\ blFreq' = blFreq /\ Len(t.heap) = 1
  BY DEF GenBitlen
<1>2. Staged /\ HeaderCounted /\ (\A x \in DOMAIN built : Finished(built[x], x)) /\ AtMerge
  BY <1>1 DEF Core
<1>3. name \in Names /\ optLen \in Int /\ staticLen \in Int
  BY <1>2 DEF Staged
<1>4. Merging(t) /\ Queue(t) /\ Cardinality(InTree(t)) <= Pow2(Limit) /\ Collected(t)
  BY <1>2 DEF AtMerge
<1>5. Elems \in Nat /\ Desc[name].static \in [Leaves -> Nat] /\ Desc[name].extra \in [Leaves -> Nat]
  BY <1>3, DescIs
<1>6. PICK D : /\ t' = [WithRoot(t) EXCEPT !.dl = D] /\ Lengths(D, InTree(t))
                /\ optLen' = optLen + Cost(t, D)
                /\ staticLen' = IF name = "bl" THEN staticLen
                                ELSE staticLen + Cost(t, Desc[name].static)
  BY <1>3, <1>4, GenBitlenMakes
<1>7. /\ t' \in TreeRec /\ t'.dl = D /\ t'.fc = t.fc /\ t'.maxCode = t.maxCode /\ InTree(t') = InTree(t)
  BY <1>4, <1>5, <1>6, Coding
<1>8. Collected(t')
  BY <1>4, <1>7 DEF Collected, Forcing
<1>9. optLen' \in Int /\ staticLen' \in Int
  <2>1. t.fc \in [Nodes -> Nat]
    BY <1>4 DEF Merging, TreeRec
  <2>2. Leaves \subseteq Nodes
    BY <1>5 DEF Leaves, Nodes
  <2>3. \A n \in Leaves : D[n] = 0 <=> n \notin InTree(t)
    <3>1. \A n \in InTree(t) : D[n] \in 1 .. Limit
      BY <1>6 DEF Lengths
    <3>2. \A n \in Leaves \ InTree(t) : D[n] = 0
      BY <1>6 DEF Lengths
    <3>3. Limit \in Nat
      BY <1>3, DescIs
    <3>4. \A n \in InTree(t) : D[n] # 0
      BY <3>1, <3>3
    <3> QED BY <3>2, <3>4
  <2>4. InTree(t) \subseteq Leaves /\ D \in [Nodes -> Nat]
    BY <1>6 DEF InTree, Lengths
  <2>5. Cost(t, D) \in Nat
    <3>1. \A n \in InTree(t) : D[n] \in Nat
      BY <2>2, <2>4
    <3> QED BY <1>5, <2>1, <2>3, <3>1, CostIs
  <2>6. Cost(t, Desc[name].static) \in Nat
    <3>1. \A n \in InTree(t) : Desc[name].static[n] \in Nat
      BY <1>5, <2>4
    <3> QED BY <1>5, <2>1, <2>3, <3>1, CostIs
  <2> QED BY <1>3, <1>6, <2>5, <2>6
<1>10. Staged'
  BY <1>1, <1>2, <1>9 DEF Staged
<1>11. HeaderCounted'
  BY <1>1, <1>2, HeaderSame
<1>12. \A x \in (DOMAIN built)' : Finished(built[x], x)'
  <2>1. DOMAIN built \subseteq Names
    BY <1>2 DEF Staged, Before, Names
  <2> QED BY <1>1, <1>2, <2>1, FinishedSame
<1>13. AtCodes'
  <2>1. Lengths(t'.dl, InTree(t'))
    BY <1>6, <1>7
  <2>2. t'.maxCode \in InTree(t') /\ \A n \in InTree(t') : n <= t'.maxCode
    <3>1. t.maxCode \in InTree(t) /\ \A n \in InTree(t) : n <= t.maxCode
      BY <1>4 DEF Merging
    <3> QED BY <1>7, <3>1
  <2>3. InTree(t)' = InTree(t') /\ Lengths(t.dl, InTree(t))' /\ TreeRec' = TreeRec
    BY <1>1, <2>1, LengthsSame, SameTree
  <2>4. Collected(t)'
    BY <1>1, <1>8, CollectedSame
  <2> QED BY <1>7, <2>2, <2>3, <2>4 DEF AtCodes
<1> QED BY <1>1, <1>10, <1>11, <1>12, <1>13 DEF Core

LEMMA NothingSent == Sends(<<>>, <<>>, Nothing)
<1> DEFINE no == <<>>
<1>1. Len(no) = 0 /\ no \in Seq(CodeRec) /\ no \in Seq(Nat) /\ 1 .. 0 = {} /\ 0 .. 0 = {0}
  OBVIOUS
<1>2. \A c \in 0 .. BlCodes - 1 : Nothing[c] = 0
  BY DEF Nothing
<1>3. Nothing \in [0 .. BlCodes - 1 -> Nat]
  BY DEF Nothing
<1>4. \A c \in 0 .. BlCodes - 1 : {i \in 1 .. Len(no) : no[i].code = c} = {}
  BY <1>1
<1>5. Cardinality({}) = 0
  BY FS_EmptySet
<1>6. Decoded([i \in 0 .. 0 |-> no], no, no)
  <2> DEFINE l == [i \in 0 .. 0 |-> no]
  <2>1. l \in [0 .. Len(no) -> Seq(Nat)] /\ l[0] = no /\ l[Len(no)] = no
    BY <1>1
  <2>2. \A i \in 1 .. Len(no) : l[i] = DecTurn(l[i - 1], no[i])
    BY <1>1
  <2> HIDE DEF l
  <2>3. Decoded(l, no, no)
    BY <2>1, <2>2 DEF Decoded
  <2> QED BY <2>3 DEF l
<1>7. \E l : Decoded(l, no, no)
  BY <1>6
<1>8. \A i \in 1 .. Len(no) : Fits(no[i])
  BY <1>1
<1>9. Len(no) <= Len(no)
  BY <1>1
<1>10. \A c \in 0 .. BlCodes - 1 : Nothing[c] = Cardinality({i \in 1 .. Len(no) : no[i].code = c})
  BY <1>2, <1>4, <1>5
<1>11. no \in Seq(CodeRec) /\ no \in Seq(Nat)
  BY <1>1
<1> HIDE DEF no
<1>12. Sends(no, no, Nothing)
  BY <1>3, <1>7, <1>8, <1>9, <1>10, <1>11 DEF Sends
<1> QED BY <1>12 DEF no

\* Two trees, one after the other, are decoded one after the other (trees.go:605-615)
LEMMA TreesSent ==
  ASSUME NEW a, CodedTree(a), NEW b, CodedTree(b),
         NEW c, c = SendTree(a) \o SendTree(b)
  PROVE  Sends(c, Lengthened(Lengthened(<<>>, a, a.maxCode + 1), b, b.maxCode + 1),
               ScanTree(ScanTree(Nothing, a), b))
<1> DEFINE s == SendTree(a)
           o == Lengthened(<<>>, a, a.maxCode + 1)
           f == ScanTree(Nothing, a)
<1>1. s = <<>> \o SendTree(a)
  <2>1. SendTree(a) \in CodeSeq
    <3>1. PICK e : Cuts(Runs(a), e, a) /\ e[Len(Runs(a))] = a.maxCode + 1
      BY RunsIs
    <3>2. Runs(a) \in Seq(RunRec)
      BY <3>1 DEF Cuts
    <3>3. PICK g : SentBy(g, Runs(a)) /\ SendTree(a) = g[Len(Runs(a))]
      BY <3>2, SendTreeIs
    <3>4. Len(Runs(a)) \in 0 .. Len(Runs(a))
      BY <3>2
    <3> QED BY <3>3, <3>4 DEF SentBy
  <2> HIDE DEF s
  <2>2. \A x \in CodeSeq : <<>> \o x = x
    BY DEF CodeSeq
  <2> QED BY <2>1, <2>2 DEF s
<1>2. Sends(s, o, f)
  <2> HIDE DEF s
  <2>1. Sends(s, Lengthened(<<>>, a, a.maxCode + 1), ScanTree(Nothing, a))
    BY <1>1, NothingSent, TreeSent
  <2> QED BY <2>1
<1> HIDE DEF o, f
<1>3. c = s \o SendTree(b)
  OBVIOUS
<1> HIDE DEF s
<1>4. Sends(c, Lengthened(o, b, b.maxCode + 1), ScanTree(f, b))
  BY <1>2, <1>3, TreeSent
<1> QED BY <1>4 DEF o, f

\* A new tree stays finished
LEMMA FinishedAlso ==
  ASSUME tally' = tally, NEW x \in Names, x = "bl" => blFreq' = blFreq, Finished(built'[x], x)
  PROVE  Finished(built[x], x)'
BY DEF Finished, FreqOf, Apart, Coded, Names

LEMMA FinishedCoded ==
  ASSUME NEW tree, NEW x \in {"l", "d"}, Finished(tree, x)
  PROVE  CodedTree(tree)
<1>1. tree.maxCode \in 0 .. Desc[x].elems - 1 /\ tree.len \in [0 .. Desc[x].elems - 1 -> 0 .. Desc[x].maxLength]
  BY DEF Finished
<1>2. Desc[x].maxLength = MaxBits /\ Desc[x].elems = IF x = "l" THEN LCodes ELSE DCodes
  BY DEF Desc
<1>3. Desc[x].elems \in Nat
  BY <1>2, LensTyped
<1>4. ASSUME NEW n \in 0 .. tree.maxCode PROVE tree.len[n] \in 0 .. MaxBits
  <2>1. n \in 0 .. Desc[x].elems - 1
    BY <1>1, <1>3
  <2> QED BY <1>1, <1>2, <2>1
<1>5. tree.maxCode \in Nat
  BY <1>1
<1> QED BY <1>4, <1>5 DEF CodedTree

\* The tree FinishTree adds
NewTree == [len |-> [n \in Leaves |-> t.dl[n]],
            code |-> GenCodes([n \in Leaves |-> t.dl[n]], t.maxCode, Limit), maxCode |-> t.maxCode]

\* genCodes finishes a tree whose lengths make a code (trees.go:377-395)
LEMMA NewTreeIs ==
  ASSUME name \in Names, AtCodes
  PROVE  Finished(NewTree, name)
<1> DEFINE len == [n \in Leaves |-> t.dl[n]]
           U == InTree(t)
           m == t.maxCode
<1>1. /\ t \in TreeRec /\ m \in U /\ (\A n \in U : n <= m)
      /\ t.dl \in [Nodes -> Nat] /\ (\A n \in U : t.dl[n] \in 1 .. Limit)
      /\ (\A n \in Leaves \ U : t.dl[n] = 0) /\ SumOn(Shares(t.dl), U) = Pow(0)
  BY DEF AtCodes, Lengths
<1>2. Elems \in Nat /\ Limit \in Nat /\ Limit >= 1
  BY DescIs
<1>3. U \subseteq Leaves /\ Leaves \subseteq Nodes /\ Leaves \subseteq Nat /\ m \in Nat
  BY <1>1, <1>2 DEF InTree, Leaves, Nodes
<1>4. \A n \in Leaves : len[n] = t.dl[n] /\ (n \in U => len[n] \in 1 .. Limit) /\ (n \notin U => len[n] = 0)
  BY <1>1
<1>5. DOMAIN len = Leaves
  OBVIOUS
<1>6. NewTree.len = len /\ NewTree.maxCode = m /\ NewTree.code = GenCodes(len, m, Limit)
  BY DEF NewTree
<1> HIDE DEF len, U, m
<1>7. len \in [Leaves -> 0 .. Limit]
  <2>1. \A n \in Leaves : len[n] \in 0 .. Limit
    BY <1>2, <1>4
  <2>2. len = [n \in Leaves |-> len[n]]
    BY DEF len
  <2> QED BY <2>1, <2>2
<1>8. Coded(len, m) = U
  <2>1. ASSUME NEW n \in U PROVE n \in Coded(len, m)
    <3>1. n \in 0 .. m /\ len[n] \in 1 .. Limit
      BY <1>1, <1>3, <1>4
    <3> QED BY <3>1, <1>2 DEF Coded
  <2>2. ASSUME NEW n \in Coded(len, m) PROVE n \in U
    <3>1. n \in 0 .. m /\ len[n] # 0
      BY DEF Coded
    <3>2. n \in Leaves
      BY <1>1, <1>2, <1>3, <3>1 DEF Leaves
    <3> QED BY <1>4, <3>1, <3>2
  <2> QED BY <2>1, <2>2
<1>9. SumOn(Shares(len), U) = Pow(0)
  <2>1. U \subseteq DOMAIN len /\ U \subseteq DOMAIN t.dl /\ \A n \in U : len[n] = t.dl[n]
    BY <1>1, <1>3, <1>4, <1>5
  <2>2. SumOn(Shares(len), U) = SumOn(Shares(t.dl), U)
    BY <2>1, SharesSame
  <2> QED BY <1>1, <2>2
<1>10. \A a, b \in U : a # b /\ len[a] <= len[b] =>
         GenCodes(len, m, Limit)[a] # GenCodes(len, m, Limit)[b] % Pow2(len[a])
  <2>1. U = Coded(len, m) /\ U \subseteq DOMAIN len /\ \A n \in U : len[n] \in 1 .. Limit
    BY <1>3, <1>4, <1>5, <1>8
  <2>2. Pow(0) \in Nat
    BY <1>2, LevelsIs DEF Levels
  <2>3. SumOn(Shares(len), U) <= Pow(0)
    BY <1>9, <2>2
  <2> QED BY <1>2, <1>3, <2>1, <2>3, CodesApart
<1>11. Apart(NewTree)
  BY <1>6, <1>8, <1>10 DEF Apart
<1>12. ASSUME NEW n \in Leaves
       PROVE  (n > m => len[n] = 0) /\ (FreqOf(name)[n] # 0 => len[n] # 0)
  <2>1. n > m => n \notin U
    BY <1>1, <1>3
  <2>2. PICK A : Forcing(t, A, FreqOf(name))
    BY DEF AtCodes, Collected
  <2>3. FreqOf(name)[n] # 0 => t.fc[n] # 0
    BY <2>2 DEF Forcing
  <2>4. FreqOf(name)[n] # 0 => n \in U
    BY <2>3 DEF U, InTree
  <2> QED BY <1>2, <1>4, <2>1, <2>4
<1>13. m \in Leaves
  BY <1>1, <1>3
<1> QED BY <1>6, <1>7, <1>11, <1>12, <1>13 DEF Finished, Leaves, Elems, Limit

LEMMA FinishAdds ==
  ASSUME Staged, FinishTree
  PROVE  /\ DOMAIN built' = DOMAIN built \cup {name} /\ name \notin DOMAIN built
         /\ built'[name] = NewTree /\ \A x \in DOMAIN built : built'[x] = built[x]
<1>1. stage = "codes"
  BY DEF FinishTree
<1>2. name \notin DOMAIN built
  BY <1>1 DEF Staged, Before, Names
<1>3. built' = [x \in DOMAIN built \cup {name} |-> IF x = name THEN NewTree ELSE built[x]]
  BY DEF FinishTree, NewTree, Limit
<1> QED BY <1>2, <1>3

\* The end of buildTree and buildBlTree keep what holds between the steps (trees.go:481-482, 588-603)
LEMMA FinishKeeps == Core /\ FinishTree => Core'
<1> SUFFICES ASSUME Core, FinishTree PROVE Core'
  OBVIOUS
<1>1. /\ stage = "codes" /\ tally' = tally /\ t' = t /\ staticLen' = staticLen
      /\ name' = (CASE name = "l" -> "d" [] OTHER -> "bl")
      /\ stage' = (IF name = "bl" THEN "choose" ELSE "collect")
  BY DEF FinishTree
<1>2. Staged /\ HeaderCounted /\ (\A x \in DOMAIN built : Finished(built[x], x)) /\ AtCodes
  BY <1>1 DEF Core
<1>3. name \in Names /\ optLen \in Int /\ staticLen \in Int /\ DOMAIN built = Before[name] /\ tally \in Tallies
  BY <1>1, <1>2 DEF Staged
<1>4. /\ DOMAIN built' = DOMAIN built \cup {name} /\ name \notin DOMAIN built
      /\ built'[name] = NewTree /\ \A x \in DOMAIN built : built'[x] = built[x]
  BY <1>2, FinishAdds
<1>5. Finished(NewTree, name)
  BY <1>2, <1>3, NewTreeIs
<1>6. \A x \in DOMAIN built' : Finished(built'[x], x)
  BY <1>2, <1>4, <1>5
<1>7. blFreq' = IF name = "d" THEN ScanTree(ScanTree(blFreq, built.l), NewTree) ELSE blFreq
  BY DEF FinishTree, NewTree, Limit
<1>8. \A x \in (DOMAIN built)' : Finished(built[x], x)'
  <2>1. ASSUME NEW x \in DOMAIN built' PROVE Finished(built[x], x)'
    <3>1. x \in Names /\ (x = "bl" => name = "bl")
      BY <1>3, <1>4, <2>1 DEF Before, Names
    <3>2. x = "bl" => blFreq' = blFreq
      BY <1>7, <3>1
    <3>3. Finished(built'[x], x)
      BY <1>6, <2>1
    <3> QED BY <1>1, <3>1, <3>2, <3>3, FinishedAlso
  <2> QED BY <2>1
<1>9. HeaderCounted'
  <2>1. CASE name = "l"
    <3>1. name' = "d" /\ blFreq' = blFreq /\ blFreq = Nothing
      BY <1>1, <1>2, <1>7, <2>1 DEF HeaderCounted
    <3>2. Nothing' = Nothing
      BY DEF Nothing
    <3> QED BY <3>1, <3>2 DEF HeaderCounted
  <2>2. CASE name = "d"
    <3>1. name' = "bl" /\ blFreq' = ScanTree(ScanTree(Nothing, built.l), NewTree)
      BY <1>1, <1>2, <1>7, <2>2 DEF HeaderCounted
    <3>2. "l" \in DOMAIN built
      BY <1>3, <2>2 DEF Before
    <3>3. built'.l = built.l /\ built'.d = NewTree
      BY <1>4, <2>2, <3>2
    <3>4. Finished(built.l, "l") /\ Finished(NewTree, "d")
      BY <1>2, <1>5, <2>2, <3>2
    <3>5. CodedTree(built'.l) /\ CodedTree(built'.d)
      BY <3>3, <3>4, FinishedCoded
    <3>6. ASSUME NEW a, a = built'.l, NEW b, b = built'.d, NEW c, c = SendTree(a) \o SendTree(b)
          PROVE  Sends(c, Lengthened(Lengthened(<<>>, a, a.maxCode + 1), b, b.maxCode + 1),
                       ScanTree(ScanTree(Nothing, a), b))
      BY <3>5, <3>6, TreesSent
    <3>7. Sends(Header', Lengths2', ScanTree(ScanTree(Nothing, built'.l), built'.d))
      BY <3>6 DEF Header, Lengths2
    <3>8. Sends(Header, Lengths2, blFreq)'
      BY <3>1, <3>3, <3>7
    <3> QED BY <3>1, <3>8 DEF HeaderCounted
  <2>3. CASE name = "bl"
    <3>1. name' = "bl" /\ blFreq' = blFreq /\ Sends(Header, Lengths2, blFreq)
      BY <1>1, <1>2, <1>7, <2>3 DEF HeaderCounted
    <3>2. built'.l = built.l /\ built'.d = built.d
      BY <1>3, <1>4, <2>3 DEF Before
    <3>3. Header' = Header /\ Lengths2' = Lengths2
      BY <3>2 DEF Header, Lengths2
    <3> QED BY <3>1, <3>3 DEF HeaderCounted
  <2> QED BY <1>3, <2>1, <2>2, <2>3 DEF Names
<1>10. optLen' \in Int
  <2>1. CASE name = "bl"
    <3> DEFINE len == NewTree.len
               S == {3} \cup {i \in 3 .. BlCodes - 1 : len[BlOrder[i + 1]] # 0}
    <3>1. optLen' = optLen + 3 * (Max(S) + 1) + 5 + 5 + 4
      BY <2>1 DEF FinishTree, MaxBlIndex, NewTree
    <3>2. S # {} /\ S \subseteq 3 .. BlCodes - 1
      BY DEF BlCodes
    <3> HIDE DEF S
    <3>3. IsFiniteSet(S)
      <4>1. 3 \in Int /\ BlCodes - 1 \in Int
        BY DEF BlCodes
      <4> QED BY <4>1, <3>2, FS_Interval, FS_Subset
    <3>4. S \subseteq Nat
      BY <3>2
    <3>5. Max(S) \in S
      BY <3>2, <3>3, <3>4, MaxOfSet
    <3>6. Max(S) \in Nat
      BY <3>4, <3>5
    <3> QED BY <1>3, <3>1, <3>6
  <2>2. CASE name # "bl"
    BY <1>3, <2>2 DEF FinishTree
  <2> QED BY <2>1, <2>2
<1>11. Staged'
  <2>1. name' \in Names /\ (stage' = "choose" => name' = "bl") /\ stage' \in {"collect", "choose"}
    BY <1>1, <1>3 DEF Names
  <2>2. DOMAIN built' = IF stage' \in {"choose", "done"} THEN Names ELSE Before[name']
    BY <1>1, <1>3, <1>4 DEF Names, Before
  <2>3. Before' = Before /\ Names' = Names /\ Tallies' = Tallies
    BY DEF Before, Names
  <2> QED BY <1>1, <1>3, <1>10, <2>1, <2>2, <2>3 DEF Staged
<1>12. stage' # "merge" /\ stage' # "codes"
  BY <1>1
<1> QED BY <1>8, <1>9, <1>11, <1>12 DEF Core

\* and so does the choice (trees.go:637-678)
LEMMA ChooseKeeps ==
  ASSUME NEW k, NEW hasBuf
  PROVE  Core /\ Choose(k, hasBuf) => Core'
<1> SUFFICES ASSUME Core, Choose(k, hasBuf) PROVE Core'
  OBVIOUS
<1>1. stage = "choose" /\ stage' = "done" /\ UNCHANGED <<tally, name, t, built, blFreq, optLen, staticLen>>
  BY DEF Choose
<1>2. Staged /\ HeaderCounted /\ (\A x \in DOMAIN built : Finished(built[x], x))
  BY DEF Core
<1>3. Staged'
  BY <1>1, <1>2 DEF Staged
<1>4. HeaderCounted'
  BY <1>1, <1>2, HeaderSame
<1>5. \A x \in (DOMAIN built)' : Finished(built[x], x)'
  <2>1. DOMAIN built \subseteq Names
    BY <1>2 DEF Staged, Before, Names
  <2> QED BY <1>1, <1>2, <2>1, FinishedSame
<1> QED BY <1>1, <1>3, <1>4, <1>5 DEF Core

LEMMA CoreStutter == Core /\ UNCHANGED vars => Core'
<1> SUFFICES ASSUME Core, UNCHANGED vars PROVE Core'
  OBVIOUS
<1>1. UNCHANGED <<tally, name, stage, t, built, blFreq, optLen, staticLen>>
  BY DEF vars
<1>2. Staged /\ HeaderCounted /\ (\A x \in DOMAIN built : Finished(built[x], x))
  BY DEF Core
<1>3. Staged'
  BY <1>1, <1>2 DEF Staged
<1>4. HeaderCounted'
  BY <1>1, <1>2, HeaderSame
<1>5. \A x \in (DOMAIN built)' : Finished(built[x], x)'
  <2>1. DOMAIN built \subseteq Names
    BY <1>2 DEF Staged, Before, Names
  <2> QED BY <1>1, <1>2, <2>1, FinishedSame
<1>6. stage' = "merge" => AtMerge'
  <2> SUFFICES ASSUME stage' = "merge" PROVE AtMerge'
    OBVIOUS
  <2>1. AtMerge
    BY <1>1 DEF Core
  <2>2. Merging(t') /\ Queue(t') /\ Collected(t') /\ Cardinality(InTree(t')) <= Pow2(Limit)
    BY <1>1, <2>1 DEF AtMerge
  <2>3. (Cardinality(InTree(t)) <= Pow2(Limit))'
    <3>1. InTree(t)' = InTree(t')
      BY <1>1, SameTree DEF InTree
    <3> QED BY <1>1, <2>2, <3>1, SameTree
  <2> QED BY <1>1, <2>2, <2>3, MergingSame, QueueSame, CollectedSame DEF AtMerge
<1>7. stage' = "codes" => AtCodes'
  <2> SUFFICES ASSUME stage' = "codes" PROVE AtCodes'
    OBVIOUS
  <2>1. AtCodes
    BY <1>1 DEF Core
  <2>2. /\ t' \in TreeRec /\ Lengths(t'.dl, InTree(t')) /\ Collected(t')
        /\ t'.maxCode \in InTree(t') /\ \A n \in InTree(t') : n <= t'.maxCode
    BY <1>1, <2>1 DEF AtCodes
  <2>3. InTree(t)' = InTree(t') /\ Lengths(t.dl, InTree(t))' /\ TreeRec' = TreeRec
    BY <1>1, <2>2, LengthsSame, SameTree
  <2> QED BY <1>1, <2>2, <2>3, CollectedSame DEF AtCodes
<1> QED BY <1>3, <1>4, <1>5, <1>6, <1>7 DEF Core

LEMMA CoreStarts == Init => Core
<1> SUFFICES ASSUME Init PROVE Core
  OBVIOUS
<1>1. name = "l" /\ stage = "collect" /\ built = <<>> /\ tally \in Tallies /\ optLen = 0 /\ staticLen = 0
      /\ blFreq = Nothing
  BY DEF Init, Nothing
<1>2. DOMAIN built = {}
  BY <1>1
<1>3. Staged
  BY <1>1, <1>2 DEF Staged, Names, Before
<1> QED BY <1>1, <1>2, <1>3 DEF Core, HeaderCounted

\* What holds between the functions of trFlushBlock, the inductive invariant of the other
\* theorems: heap and list together are the tree built so far, taken in the order of the
\* counts; lengths make a complete code; finished trees have codes for all their symbols;
\* and the counts of the bit length tree are those of the codes both trees are sent as
\* (trees.go:398-483, 588-603)
THEOREM CoreAlways == Spec => []Core
<1>1. Core /\ [Next]_vars => Core'
  <2> SUFFICES ASSUME Core, [Next]_vars PROVE Core'
    OBVIOUS
  <2>1. CASE Collect
    BY <2>1, CollectKeeps
  <2>2. CASE Merge
    BY <2>2, MergeKeeps
  <2>3. CASE GenBitlen
    BY <2>3, GenBitlenKeeps
  <2>4. CASE FinishTree
    BY <2>4, FinishKeeps
  <2>5. CASE \E k \in Slack, hasBuf \in BOOLEAN : Choose(InputLen + k, hasBuf)
    <3>1. PICK k, hasBuf : Choose(InputLen + k, hasBuf)
      BY <2>5
    <3>2. Core /\ Choose(InputLen + k, hasBuf) => Core'
      BY ChooseKeeps
    <3> QED BY <3>1, <3>2
  <2>6. CASE Done
    BY <2>6, CoreStutter DEF Done
  <2>7. CASE UNCHANGED vars
    BY <2>7, CoreStutter
  <2> QED BY <2>1, <2>2, <2>3, <2>4, <2>5, <2>6, <2>7 DEF Next
<1> QED BY <1>1, CoreStarts, PTL DEF Spec

\* At "codes" the symbols with a code are those with a count
LEMMA UsedIs ==
  ASSUME name \in Names, AtCodes
  PROVE  Used = InTree(t) /\ \A n \in Used : t.dl[n] \in 1 .. Limit
<1>1. (\A n \in InTree(t) : t.dl[n] \in 1 .. Limit) /\ (\A n \in Leaves \ InTree(t) : t.dl[n] = 0)
      /\ InTree(t) \subseteq Leaves
  BY DEF AtCodes, Lengths, InTree
<1>2. Limit \in Nat
  BY DescIs
<1>3. \A n \in InTree(t) : t.dl[n] # 0
  BY <1>1, <1>2
<1>4. Used = InTree(t)
  BY <1>1, <1>3 DEF Used
<1> QED BY <1>1, <1>4

\* What holds between the steps makes the code complete and without prefixes
LEMMA CompleteIs == Core => CompleteCode
<1> SUFFICES ASSUME Core PROVE CompleteCode
  OBVIOUS
<1>1. name \in Names
  BY DEF Core, Staged
<1>2. ASSUME Ready
      PROVE  /\ \A n \in Used : t.dl[n] <= Desc[name].maxLength
             /\ Sum([n \in Used |-> Pow(t.dl[n])]) = Pow(0)
             /\ Used = {n \in Leaves : t.fc[n] # 0}
  <2>1. AtCodes
    BY <1>2 DEF Core, Ready
  <2>2. Used = InTree(t) /\ \A n \in Used : t.dl[n] \in 1 .. Limit
    BY <1>1, <2>1, UsedIs
  <2>3. SumOn(Shares(t.dl), InTree(t)) = Pow(0) /\ t.dl \in [Nodes -> Nat]
    BY <2>1 DEF AtCodes, Lengths
  <2>4. Elems \in Nat /\ Limit \in Nat
    BY <1>1, DescIs
  <2>5. InTree(t) \subseteq Nodes
    BY <2>4 DEF InTree, Leaves, Nodes
  <2>6. \A n \in InTree(t) : Shares(t.dl)[n] = Pow(t.dl[n])
    BY <2>3, <2>5 DEF Shares
  <2>7. [n \in Used |-> Pow(t.dl[n])] = [n \in InTree(t) |-> Shares(t.dl)[n]]
    BY <2>2, <2>6
  <2>8. Sum([n \in Used |-> Pow(t.dl[n])]) = Pow(0)
    BY <2>3, <2>7 DEF SumOn
  <2>9. \A n \in Used : t.dl[n] <= Desc[name].maxLength
    BY <2>2, <2>4 DEF Limit
  <2> QED BY <2>2, <2>8, <2>9 DEF InTree
<1>3. PrefixFree
  BY DEF Core, Finished, Apart, Coded, PrefixFree
<1> QED BY <1>2, <1>3 DEF CompleteCode

\* The lengths of every tree stay within the limit and make a complete code, whatever was
\* cut, and no code begins another, for every alphabet, limit and block (trees.go:343-395)
THEOREM CompleteCodeHolds == Spec => []CompleteCode
BY CoreAlways, CompleteIs, PTL

\* A decoder gets from the codes what they were sent for
LEMMA DecodeIs ==
  ASSUME NEW h, NEW out, NEW codes, codes = h.codes, Len(codes) \in Nat, \E l : Decoded(l, codes, out)
  PROVE  Decode(h) = out
<1> DEFINE N == Len(codes)
           Eqn(f) == f = [i \in 0 .. N |-> IF i = 0 THEN <<>> ELSE DecTurn(f[i - 1], codes[i])]
           lens == CHOOSE f : Eqn(f)
<1>1. Decode(h) = lens[N]
  BY DEF Decode, DecTurn
<1>2. PICK l : Decoded(l, codes, out)
  OBVIOUS
<1>3. /\ l \in [0 .. N -> Seq(Nat)] /\ l[0] = <<>> /\ l[N] = out
      /\ \A i \in 1 .. N : l[i] = DecTurn(l[i - 1], codes[i])
  BY <1>2 DEF Decoded
<1>4. N \in Nat
  OBVIOUS
<1> HIDE DEF N
<1>5. Eqn(l)
  <2>1. ASSUME NEW i \in 0 .. N PROVE l[i] = IF i = 0 THEN <<>> ELSE DecTurn(l[i - 1], codes[i])
    <3>1. i = 0 \/ i \in 1 .. N
      BY <1>4
    <3>2. 0 \notin 1 .. N
      BY <1>4
    <3>3. CASE i = 0
      BY <1>3, <3>3
    <3>4. CASE i \in 1 .. N
      BY <1>3, <3>2, <3>4
    <3> QED BY <3>1, <3>3, <3>4
  <2>2. l = [i \in 0 .. N |-> l[i]]
    BY <1>3
  <2> QED BY <2>1, <2>2
<1>6. Eqn(lens)
  BY <1>5
<1> HIDE DEF lens
<1>7. lens[0] = <<>> /\ \A i \in 1 .. N : lens[i] = DecTurn(lens[i - 1], codes[i])
  <2>2. \A i \in 0 .. N : lens[i] = IF i = 0 THEN <<>> ELSE DecTurn(lens[i - 1], codes[i])
    BY <1>6
  <2> HIDE DEF Eqn
  <2>3. 0 \in 0 .. N /\ \A i \in 1 .. N : i \in 0 .. N /\ i # 0
    BY <1>4
  <2> QED BY <2>2, <2>3
<1> HIDE DEF Eqn
<1> DEFINE K == {i \in Nat : i <= N => lens[i] = l[i]}
<1>8. 0 \in K
  BY <1>3, <1>7
<1>9. ASSUME NEW i \in 0 .. N - 1, i \in K PROVE i + 1 \in K
  <2>1. i + 1 \in 1 .. N /\ (i + 1) - 1 = i /\ i \in Nat /\ i <= N /\ i + 1 \in Nat
    BY <1>4
  <2>2. lens[i] = l[i]
    BY <1>9, <2>1
  <2>3. lens[i + 1] = l[i + 1]
    BY <1>3, <1>7, <2>1, <2>2
  <2> QED BY <2>1, <2>3
<1>10. \A i \in 0 .. N : i \in K
  <2> HIDE DEF K
  <2> QED BY <1>4, <1>8, <1>9, InductionUpTo
<1>11. lens[N] = l[N]
  BY <1>4, <1>10
<1> QED BY <1>1, <1>3, <1>11

\* Every bit length code has its one place in BlOrder
BlPlace == <<4, 18, 16, 14, 12, 10, 8, 6, 5, 7, 9, 11, 13, 15, 17, 19, 1, 2, 3>>

\* Every bit length code has one place in blOrder (trees.go:57)
LEMMA BlOrderIs ==
  /\ \A i \in 1 .. BlCodes : BlOrder[i] \in 0 .. BlCodes - 1 /\ BlPlace[BlOrder[i] + 1] = i
  /\ \A c \in 0 .. BlCodes - 1 : BlPlace[c + 1] \in 1 .. BlCodes /\ BlOrder[BlPlace[c + 1]] = c
<1>1. BlCodes = 19
  BY DEF BlCodes
<1>2. ASSUME NEW i \in 1 .. 19 PROVE BlOrder[i] \in 0 .. 18 /\ BlPlace[BlOrder[i] + 1] = i
  <2>1. \/ i = 1 \/ i = 2 \/ i = 3 \/ i = 4 \/ i = 5 \/ i = 6 \/ i = 7 \/ i = 8 \/ i = 9 \/ i = 10
        \/ i = 11 \/ i = 12 \/ i = 13 \/ i = 14 \/ i = 15 \/ i = 16 \/ i = 17 \/ i = 18 \/ i = 19
    OBVIOUS
  <2> QED BY <2>1 DEF BlOrder, BlPlace
<1>3. ASSUME NEW c \in 0 .. 18 PROVE BlPlace[c + 1] \in 1 .. 19 /\ BlOrder[BlPlace[c + 1]] = c
  <2>1. \/ c = 0 \/ c = 1 \/ c = 2 \/ c = 3 \/ c = 4 \/ c = 5 \/ c = 6 \/ c = 7 \/ c = 8 \/ c = 9 \/ c = 10
        \/ c = 11 \/ c = 12 \/ c = 13 \/ c = 14 \/ c = 15 \/ c = 16 \/ c = 17 \/ c = 18
    OBVIOUS
  <2> QED BY <2>1 DEF BlOrder, BlPlace
<1> QED BY <1>1, <1>2, <1>3

\* buildBlTree finds the last code in use (trees.go:588-603)
LEMMA MaxBlIndexIs ==
  ASSUME NEW len
  PROVE  /\ MaxBlIndex(len) \in 3 .. BlCodes - 1
         /\ \A i \in 1 .. BlCodes : len[BlOrder[i]] # 0 => i <= MaxBlIndex(len) + 1
<1> DEFINE S == {3} \cup {i \in 3 .. BlCodes - 1 : len[BlOrder[i + 1]] # 0}
           top == Max(S)
<1>1. MaxBlIndex(len) = top
  BY DEF MaxBlIndex
<1>2. S # {} /\ S \subseteq 3 .. BlCodes - 1 /\ S \subseteq Nat /\ BlCodes = 19
  BY DEF BlCodes
<1>3. ASSUME NEW i \in 1 .. BlCodes, len[BlOrder[i]] # 0 PROVE i <= 4 \/ i - 1 \in S
  <2>1. i > 4 => i - 1 \in 3 .. BlCodes - 1 /\ (i - 1) + 1 = i
    BY <1>2
  <2> QED BY <1>2, <1>3, <2>1
<1> HIDE DEF S
<1>4. IsFiniteSet(S)
  <2>1. 3 \in Int /\ BlCodes - 1 \in Int
    BY <1>2
  <2> QED BY <1>2, <2>1, FS_Interval, FS_Subset
<1>5. Max(S) \in S /\ \A x \in S : x <= Max(S)
  BY <1>2, <1>4, MaxOfSet
<1>6. top \in 3 .. BlCodes - 1 /\ top \in Nat
  BY <1>2, <1>5
<1>7. ASSUME NEW i \in 1 .. BlCodes, len[BlOrder[i]] # 0 PROVE i <= top + 1
  <2>1. i <= 4 \/ (i - 1 \in S /\ i - 1 <= top)
    BY <1>3, <1>5, <1>7
  <2> HIDE DEF top
  <2> QED BY <1>2, <1>6, <2>1
<1> QED BY <1>1, <1>6, <1>7

\* What Choose decides
Chosen(storedLen, hasBuf) ==
  LET best == IF StaticBytes <= OptBytes THEN StaticBytes ELSE OptBytes
      kind == IF storedLen + 4 <= best /\ hasBuf THEN "stored"
              ELSE IF StaticBytes = best THEN "fixed" ELSE "dynamic"
  IN  [kind |-> kind, storedLen |-> storedLen, hasBuf |-> hasBuf,
       header |-> IF kind = "dynamic" THEN SendAllTrees ELSE <<>>]
\* The block is one that trFlushBlock chose
BlockIs ==
  stage = "done" => \E k \in Slack, hasBuf \in BOOLEAN : block = Chosen(InputLen + k, hasBuf)

LEMMA ChosenSame ==
  ASSUME UNCHANGED <<tally, name, t, built, blFreq, optLen, staticLen>>, NEW k \in Slack, NEW hasBuf \in BOOLEAN,
         block' = Chosen(InputLen + k, hasBuf)
  PROVE  BlockIs'
<1>1. InputLen' = InputLen
  BY DEF InputLen
<1>2. SendAllTrees' = SendAllTrees
  BY DEF SendAllTrees
<1>3. StaticBytes' = StaticBytes /\ OptBytes' = OptBytes
  BY DEF StaticBytes, OptBytes
<1>4. block' = [kind |-> IF (InputLen' + k) + 4 <= (IF StaticBytes' <= OptBytes' THEN StaticBytes' ELSE OptBytes') /\ hasBuf THEN "stored"
                  ELSE IF StaticBytes' = (IF StaticBytes' <= OptBytes' THEN StaticBytes' ELSE OptBytes') THEN "fixed" ELSE "dynamic",
        storedLen |-> InputLen' + k, hasBuf |-> hasBuf,
        header |-> IF (IF (InputLen' + k) + 4 <= (IF StaticBytes' <= OptBytes' THEN StaticBytes' ELSE OptBytes') /\ hasBuf THEN "stored"
                  ELSE IF StaticBytes' = (IF StaticBytes' <= OptBytes' THEN StaticBytes' ELSE OptBytes') THEN "fixed" ELSE "dynamic") = "dynamic"
                   THEN SendAllTrees' ELSE <<>>]
  BY <1>1, <1>2, <1>3 DEF Chosen
<1>5. (block = Chosen(InputLen + k, hasBuf))'
  BY <1>4 DEF Chosen
<1>6. Slack' = Slack
  OBVIOUS
<1> QED BY <1>5 DEF BlockIs

LEMMA BlockNext == BlockIs /\ [Next]_vars => BlockIs'
<1> SUFFICES ASSUME BlockIs, [Next]_vars PROVE BlockIs'
  OBVIOUS
<1>1. CASE \E k \in Slack, hasBuf \in BOOLEAN : Choose(InputLen + k, hasBuf)
  <2>1. PICK k \in Slack, hasBuf \in BOOLEAN : Choose(InputLen + k, hasBuf)
    BY <1>1
  <2>2. UNCHANGED <<tally, name, t, built, blFreq, optLen, staticLen>>
    BY <2>1 DEF Choose
  <2>3. block' = Chosen(InputLen + k, hasBuf)
    BY <2>1 DEF Choose, Chosen
  <2> QED BY <2>2, <2>3, ChosenSame
<1>2. CASE Done \/ UNCHANGED vars
  <2> SUFFICES ASSUME stage' = "done" PROVE BlockIs'
    BY DEF BlockIs
  <2>1. UNCHANGED vars
    BY <1>2 DEF Done
  <2>2. stage = "done" /\ UNCHANGED <<tally, name, t, built, blFreq, optLen, staticLen>> /\ block' = block
    BY <2>1 DEF vars
  <2>3. PICK k \in Slack, hasBuf \in BOOLEAN : block = Chosen(InputLen + k, hasBuf)
    BY <2>2 DEF BlockIs
  <2>4. block' = Chosen(InputLen + k, hasBuf)
    BY <2>2, <2>3
  <2> QED BY <2>2, <2>4, ChosenSame
<1>3. CASE Collect \/ Merge \/ GenBitlen \/ FinishTree
  <2>1. stage' # "done"
    BY <1>3 DEF Collect, Merge, GenBitlen, FinishTree
  <2> QED BY <2>1 DEF BlockIs
<1> QED BY <1>1, <1>2, <1>3 DEF Next

LEMMA BlockStarts == Init => BlockIs
BY DEF Init, BlockIs

\* The lengths a decoder of the header puts into the bit length tree
BlRead(h) == [c \in 0 .. BlCodes - 1 |->
                IF \E i \in DOMAIN h.blLengths : BlOrder[i] = c
                THEN h.blLengths[CHOOSE i \in DOMAIN h.blLengths : BlOrder[i] = c] ELSE 0]

\* A decoder gets the bit length tree from the lengths sent in blOrder (trees.go:605-615)
LEMMA BlReadIs ==
  ASSUME NEW len, DOMAIN len = 0 .. BlCodes - 1, len = [c \in DOMAIN len |-> len[c]],
         NEW h, h.blLengths = [i \in 1 .. MaxBlIndex(len) + 1 |-> len[BlOrder[i]]]
  PROVE  BlRead(h) = len
<1> DEFINE m == MaxBlIndex(len) + 1
<1>1. m \in 1 .. BlCodes /\ \A i \in 1 .. BlCodes : len[BlOrder[i]] # 0 => i <= m
  <2>1. MaxBlIndex(len) \in 3 .. BlCodes - 1
        /\ \A i \in 1 .. BlCodes : len[BlOrder[i]] # 0 => i <= MaxBlIndex(len) + 1
    BY MaxBlIndexIs
  <2>2. BlCodes = 19
    BY DEF BlCodes
  <2>3. MaxBlIndex(len) + 1 \in 1 .. BlCodes
    BY <2>1, <2>2
  <2> QED BY <2>1, <2>3
<1>2. DOMAIN h.blLengths = 1 .. m /\ \A i \in 1 .. m : h.blLengths[i] = len[BlOrder[i]]
  OBVIOUS
<1> HIDE DEF m
<1>3. ASSUME NEW c \in 0 .. BlCodes - 1 PROVE BlRead(h)[c] = len[c]
  <2> DEFINE p == BlPlace[c + 1]
             q == CHOOSE i \in 1 .. m : BlOrder[i] = c
  <2>1. p \in 1 .. BlCodes /\ BlOrder[p] = c
    BY BlOrderIs
  <2>2. BlRead(h)[c] = IF \E i \in 1 .. m : BlOrder[i] = c THEN h.blLengths[q] ELSE 0
    BY <1>2 DEF BlRead
  <2> HIDE DEF p
  <2>3. CASE \E i \in 1 .. m : BlOrder[i] = c
    <3>1. q \in 1 .. m /\ BlOrder[q] = c
      BY <2>3
    <3> HIDE DEF q
    <3> QED BY <1>2, <2>2, <2>3, <3>1
  <2>4. CASE ~ \E i \in 1 .. m : BlOrder[i] = c
    <3>1. p \notin 1 .. m
      BY <2>1, <2>4
    <3>2. ~(p <= m)
      BY <1>1, <2>1, <3>1
    <3>3. len[c] = 0
      BY <1>1, <2>1, <3>2
    <3> HIDE DEF q
    <3> QED BY <2>2, <2>4, <3>3
  <2> QED BY <2>3, <2>4
<1>4. DOMAIN BlRead(h) = 0 .. BlCodes - 1 /\ BlRead(h) = [c \in DOMAIN BlRead(h) |-> BlRead(h)[c]]
  BY DEF BlRead
<1> DEFINE f == BlRead(h)
<1>5. DOMAIN f = DOMAIN len /\ f = [c \in DOMAIN f |-> f[c]] /\ \A c \in DOMAIN len : f[c] = len[c]
  BY <1>3, <1>4
<1> HIDE DEF f
<1>6. f = len
  BY <1>5
<1> QED BY <1>6 DEF f

\* What is known once all trees are finished
LEMMA AllFinished ==
  ASSUME Core, stage \in {"choose", "done"}
  PROVE  /\ name = "bl" /\ Finished(built.l, "l") /\ Finished(built.d, "d") /\ Finished(built.bl, "bl")
         /\ CodedTree(built.l) /\ CodedTree(built.d)
         /\ Sends(Header, Lengths2, blFreq)
         /\ built.bl.len \in [0 .. BlCodes - 1 -> 0 .. MaxBlBits]
<1>1. DOMAIN built = Names /\ name = "bl" /\ HeaderCounted /\ \A x \in DOMAIN built : Finished(built[x], x)
  BY DEF Core, Staged
<1>2. Finished(built.l, "l") /\ Finished(built.d, "d") /\ Finished(built.bl, "bl")
  BY <1>1 DEF Names
<1>3. CodedTree(built.l) /\ CodedTree(built.d)
  BY <1>2, FinishedCoded
<1>4. built.bl.len \in [0 .. BlCodes - 1 -> 0 .. MaxBlBits]
  BY <1>2 DEF Finished, Desc
<1> QED BY <1>1, <1>2, <1>3, <1>4 DEF HeaderCounted

\* The header's codes, in parts
LEMMA HeaderIs ==
  ASSUME Core, stage = "done", NEW h, h = SendAllTrees
  PROVE  LET lens == Decode(h)
             bl == BlRead(h)
         IN  /\ Len(lens) = h.counts[1] + h.counts[2]
             /\ \A n \in 1 .. h.counts[1] : lens[n] = built.l.len[n - 1]
             /\ \A n \in 1 .. h.counts[2] : lens[h.counts[1] + n] = built.d.len[n - 1]
             /\ bl = built.bl.len
             /\ \A i \in DOMAIN h.codes :
                  /\ bl[h.codes[i].code] # 0
                  /\ h.codes[i].value \in 0 .. Pow2(BlExtra[h.codes[i].code]) - 1
<1> DEFINE a == built.l.maxCode + 1
           b == built.d.maxCode + 1
           o == Lengthened(<<>>, built.l, a)
           w == Lengthened(o, built.d, b)
           codes == h.codes
<1>1. /\ Finished(built.bl, "bl") /\ CodedTree(built.l) /\ CodedTree(built.d)
      /\ Sends(Header, Lengths2, blFreq) /\ built.bl.len \in [0 .. BlCodes - 1 -> 0 .. MaxBlBits]
  BY AllFinished
<1>2. /\ h.counts[1] = a /\ h.counts[2] = b /\ codes = Header
      /\ h.blLengths = [i \in 1 .. MaxBlIndex(built.bl.len) + 1 |-> built.bl.len[BlOrder[i]]]
  BY DEF SendAllTrees, Header
<1>3. a \in Nat /\ b \in Nat /\ a \in 0 .. built.l.maxCode + 1 /\ b \in 0 .. built.d.maxCode + 1
  BY <1>1 DEF CodedTree
<1>4. Sends(codes, w, blFreq)
  BY <1>1, <1>2 DEF Lengths2
<1> HIDE DEF a, b
<1>5. LongerBy(o, <<>>, built.l, a)
  <2>1. <<>> \in Seq(Nat)
    OBVIOUS
  <2> QED BY <1>1, <1>3, <2>1, LengthenedIs DEF a
<1>6. o \in Seq(Nat) /\ Len(o) = a /\ \A j \in 1 .. a : o[j] = built.l.len[j - 1]
  <2>1. o \in Seq(Nat) /\ Len(o) = Len(<<>>) + a /\ \A j \in 1 .. a : o[Len(<<>>) + j] = built.l.len[j - 1]
    BY <1>5 DEF LongerBy
  <2>2. Len(<<>>) = 0
    OBVIOUS
  <2> HIDE DEF o
  <2>3. \A j \in 1 .. a : Len(<<>>) + j = j
    BY <1>3, <2>2
  <2>4. Len(<<>>) + a = a
    BY <1>3, <2>2
  <2> QED BY <2>1, <2>3, <2>4
<1> HIDE DEF o
<1>7. LongerBy(w, o, built.d, b)
  BY <1>1, <1>3, <1>6, LengthenedIs DEF b
<1>8. Len(w) = a + b /\ (\A i \in 1 .. a : w[i] = o[i]) /\ \A j \in 1 .. b : w[a + j] = built.d.len[j - 1]
  BY <1>6, <1>7 DEF LongerBy
<1> HIDE DEF w
<1>9. Decode(h) = w
  <2>1. Len(codes) \in Nat /\ \E l : Decoded(l, codes, w)
    BY <1>4 DEF Sends
  <2> QED BY <2>1, DecodeIs
<1>10. BlRead(h) = built.bl.len
  <2>1. DOMAIN built.bl.len = 0 .. BlCodes - 1 /\ built.bl.len = [c \in DOMAIN built.bl.len |-> built.bl.len[c]]
    BY <1>1
  <2> QED BY <1>2, <2>1, BlReadIs
<1>11. ASSUME NEW i \in DOMAIN codes
       PROVE  /\ built.bl.len[codes[i].code] # 0
              /\ codes[i].value \in 0 .. Pow2(BlExtra[codes[i].code]) - 1
  <2>1. codes \in Seq(CodeRec) /\ \A j \in 1 .. Len(codes) : Fits(codes[j])
    BY <1>4 DEF Sends
  <2>2. DOMAIN codes = 1 .. Len(codes)
    BY <2>1
  <2> HIDE DEF codes
  <2>3. i \in 1 .. Len(codes)
    BY <2>2
  <2>4. codes[i].code \in 0 .. BlCodes - 1 /\ blFreq[codes[i].code] # 0
    BY <1>4, <2>3, SentCounted
  <2>5. built.bl.len[codes[i].code] # 0
    <3>1. \A n \in 0 .. Desc["bl"].elems - 1 : FreqOf("bl")[n] # 0 => built.bl.len[n] # 0
      BY <1>1 DEF Finished
    <3>2. Desc["bl"].elems = BlCodes /\ FreqOf("bl") = blFreq
      BY DEF Desc, FreqOf
    <3> QED BY <2>4, <3>1, <3>2
  <2> QED BY <2>1, <2>3, <2>5 DEF Fits
<1>12. \A n \in 1 .. a : w[n] = built.l.len[n - 1]
  BY <1>6, <1>8
<1> QED BY <1>2, <1>8, <1>9, <1>10, <1>11, <1>12

\* What holds between the steps makes the header decode
LEMMA HeaderDecodesIs == Core /\ BlockIs => HeaderDecodes
<1> SUFFICES ASSUME Core, BlockIs, stage = "done", block.kind = "dynamic" PROVE HeaderDecodes
  BY DEF HeaderDecodes
<1>1. PICK k \in Slack, hasBuf \in BOOLEAN : block = Chosen(InputLen + k, hasBuf)
  BY DEF BlockIs
<1>2. block.header = SendAllTrees
  BY <1>1 DEF Chosen
<1> QED BY <1>2, HeaderIs DEF HeaderDecodes, BlRead

\* Whatever the trees, a decoder of the coded header gets back the lengths of the literal,
\* the distance and the bit length tree, and every code and count fits the bits it is sent
\* in (trees.go:485-615)
THEOREM HeaderDecodesHolds == Spec => []HeaderDecodes
BY CoreAlways, BlockStarts, BlockNext, HeaderDecodesIs, PTL DEF Spec

-----------------------------------------------------------------------------
(* The bits the symbols take                                               *)

SymbolsOf(x) == 0 .. Desc[x].elems - 1
\* The bits of the symbols of tree x with lengths len
BitsAt(x, len) == [n \in SymbolsOf(x) |-> FreqOf(x)[n] * (len[n] + Desc[x].extra[n])]
BitsOf(x, len) == SumOn(BitsAt(x, len), SymbolsOf(x))

\* A forced symbol costs its code only, and that is taken back
LEMMA CostForced ==
  ASSUME name \in Names, NEW tr, tr.fc \in [Nodes -> Nat], NEW freq \in [Leaves -> Nat],
         NEW A, Forcing(tr, A, freq), NEW len, \A n \in Leaves : len[n] \in Nat,
         NEW h, h = [n \in Leaves |-> freq[n] * (len[n] + Desc[name].extra[n])]
  PROVE  /\ Cost(tr, len) = SumOn(h, Leaves) + SumOn(len, A)
         /\ SumOn(h, Leaves) \in Nat /\ SumOn(len, A) \in Nat
<1> DEFINE ex == Desc[name].extra
           g == [n \in Leaves |-> tr.fc[n] * (len[n] + ex[n])]
           k == [n \in Leaves |-> IF n \in A THEN len[n] ELSE 0]
           U == InTree(tr)
<1>1. Elems \in Nat /\ ex \in [Leaves -> Nat] /\ \A c \in 0 .. 2 : ex[c] = 0
  BY DescIs
<1>2. Leaves \subseteq Nodes /\ IsFiniteSet(Leaves) /\ U \subseteq Leaves
  <2>1. IsFiniteSet(Leaves)
    <3>1. 0 \in Int /\ Elems - 1 \in Int
      BY <1>1
    <3> QED BY <3>1, FS_Interval DEF Leaves
  <2> QED BY <1>1, <2>1 DEF Leaves, Nodes, InTree
<1>3. /\ A \subseteq Leaves /\ A \subseteq 0 .. 2
      /\ (\A n \in A : freq[n] = 0 /\ tr.fc[n] = 1) /\ (\A n \in Leaves \ A : tr.fc[n] = freq[n])
  BY DEF Forcing
<1> HIDE DEF ex
<1>4. \A n \in Leaves : len[n] \in Nat /\ ex[n] \in Nat /\ freq[n] \in Nat /\ tr.fc[n] \in Nat
  BY <1>1, <1>2
<1>5. \A n \in Leaves : h[n] = freq[n] * (len[n] + ex[n]) /\ h[n] \in Nat
  <2>1. \A a, b, c \in Nat : a * (b + c) \in Nat
    OBVIOUS
  <2>2. \A n \in Leaves : h[n] = freq[n] * (len[n] + ex[n])
    BY DEF ex
  <2> QED BY <1>4, <2>1, <2>2
<1>6. \A n \in Leaves : g[n] = tr.fc[n] * (len[n] + ex[n]) /\ k[n] = IF n \in A THEN len[n] ELSE 0
  OBVIOUS
<1>7. Cost(tr, len) = SumOn(g, U)
  BY DEF Cost, ex
<1> HIDE DEF g, k
<1>8. \A n \in Leaves : k[n] \in Nat
  BY <1>4, <1>6
<1>9. ASSUME NEW n \in Leaves PROVE g[n] = h[n] + k[n]
  <2>1. CASE n \in A
    <3>1. freq[n] = 0 /\ tr.fc[n] = 1 /\ ex[n] = 0 /\ k[n] = len[n]
      BY <1>1, <1>3, <1>6, <2>1
    <3>2. \A b \in Nat : 0 * (b + 0) = 0 /\ 1 * (b + 0) = b
      OBVIOUS
    <3>3. h[n] = 0 /\ g[n] = len[n]
      BY <1>4, <1>5, <1>6, <3>1, <3>2
    <3> QED BY <1>4, <3>1, <3>3
  <2>2. CASE n \notin A
    <3>1. g[n] = h[n] /\ k[n] = 0
      BY <1>3, <1>5, <1>6, <2>2
    <3> QED BY <1>5, <3>1
  <2> QED BY <2>1, <2>2
<1>10. IntOn(h, Leaves) /\ IntOn(k, Leaves)
  BY <1>5, <1>8 DEF IntOn
<1>11. SumOn(g, Leaves) = SumOn(h, Leaves) + SumOn(k, Leaves)
  BY <1>2, <1>9, <1>10, SumOnPlus
<1>12. SumOn(g, Leaves) = SumOn(g, U)
  <2>1. \A x \in Leaves \ U : g[x] = 0
    <3>1. ASSUME NEW x \in Leaves \ U PROVE g[x] = 0
      <4>1. tr.fc[x] = 0
        BY DEF InTree
      <4>2. \A b, c \in Nat : 0 * (b + c) = 0
        OBVIOUS
      <4> QED BY <1>4, <1>6, <4>1, <4>2
    <3> QED BY <3>1
  <2>2. IntOn(g, U)
    <3>1. \A n \in Leaves : g[n] \in Int
      BY <1>5, <1>8, <1>9
    <3> QED BY <1>2, <3>1 DEF IntOn
  <2>3. U \in SUBSET Leaves
    BY <1>2
  <2> QED BY <1>2, <2>1, <2>2, <2>3, SumOnPart
<1>13. SumOn(k, Leaves) = SumOn(k, A)
  <2>1. \A x \in Leaves \ A : k[x] = 0
    BY <1>6
  <2>2. IntOn(k, A)
    BY <1>3, <1>8 DEF IntOn
  <2>3. A \in SUBSET Leaves
    BY <1>3
  <2> QED BY <1>2, <2>1, <2>2, <2>3, SumOnPart
<1>14. SumOn(k, A) = SumOn(len, A)
  <2>1. \A x \in A : k[x] = len[x]
    BY <1>3, <1>6
  <2> QED BY <2>1, SumOnSame
<1>15. SumOn(h, Leaves) \in Nat /\ SumOn(len, A) \in Nat
  <2>1. SumOn(h, Leaves) \in Nat
    BY <1>2, <1>5, SumOnNat
  <2>2. IsFiniteSet(A)
    BY <1>2, <1>3, FS_Subset
  <2>3. \A x \in A : len[x] \in Nat
    BY <1>3, <1>4
  <2> QED BY <2>1, <2>2, <2>3, SumOnNat
<1> QED BY <1>7, <1>11, <1>12, <1>13, <1>14, <1>15

\* Two symbols that make a complete code have codes of one bit
LEMMA ShareOne ==
  ASSUME Limit \in Nat, NEW x, x \in 1 .. Limit
  PROVE  /\ Pow(x) \in Nat /\ Pow(1) \in Nat /\ Pow(0) = 2 * Pow(1) /\ Pow(x) <= Pow(1)
         /\ Pow(x) = Pow(1) => x = 1
<1>1. Limit - x \in Nat /\ Limit - 1 \in Nat /\ x - 1 \in Nat /\ x \in Nat /\ x >= 1
      /\ (Limit - x) + (x - 1) = Limit - 1 /\ Limit >= 1
  OBVIOUS
<1>2. Pow(x) = Pow2(Limit - x) /\ Pow(1) = Pow2(Limit - 1) /\ Pow(0) = Pow2(Limit - 0)
  BY DEF Pow, Limit
<1>3. Pow2(Limit - 0) = 2 * Pow2(Limit - (0 + 1))
  <2>1. 0 \in Nat /\ 0 < Limit
    BY <1>1
  <2> QED BY <2>1, Pow2Half
<1> DEFINE p == Pow2(Limit - x)
           q == Pow2(x - 1)
<1>4. p \in Nat /\ p >= 1 /\ q \in Nat /\ q >= 1 /\ Pow2(Limit - 1) = p * q
  BY <1>1, Pow2Positive, Pow2Sum
<1>5. x # 1 => q >= 2
  <2> SUFFICES ASSUME x # 1 PROVE q >= 2
    OBVIOUS
  <2> DEFINE j == x - 2
  <2>1. j \in Nat /\ x - 1 = j + 1
    BY <1>1
  <2> HIDE DEF j
  <2>2. Pow2(j) \in Nat /\ Pow2(j) >= 1 /\ Pow2(j + 1) = 2 * Pow2(j)
    BY <2>1, Pow2Step, Pow2Positive
  <2> QED BY <2>1, <2>2
<1> HIDE DEF p, q
<1>6. \A a, b \in Nat : a >= 1 /\ b >= 1 => a * b \in Nat /\ a * b >= a /\ (b >= 2 => a * b > a)
  <2>1. ASSUME NEW a \in Nat, NEW b \in Nat, a >= 1, b >= 1 PROVE a * b \in Nat /\ a * b >= a /\ (b >= 2 => a * b > a)
    <3>1. b - 1 \in Nat /\ a * b = a + a * (b - 1) /\ a * (b - 1) \in Nat
      BY <2>1
    <3>2. b >= 2 => b - 2 \in Nat /\ a * (b - 1) = a + a * (b - 2) /\ a * (b - 2) \in Nat
      BY <2>1
    <3> DEFINE u == a * (b - 1)
               v == a * (b - 2)
               w == a * b
    <3>3. w = a + u /\ u \in Nat /\ (b >= 2 => u = a + v /\ v \in Nat)
      BY <3>1, <3>2
    <3> HIDE DEF u, v, w
    <3>4. w \in Nat /\ w >= a /\ (b >= 2 => w > a)
      BY <2>1, <3>3
    <3> QED BY <3>4 DEF w
  <2> QED BY <2>1
<1>7. Pow(x) = p /\ Pow(1) = p * q /\ Pow(0) = 2 * Pow(1)
  BY <1>2, <1>3, <1>4 DEF p
<1>8. p * q \in Nat /\ p * q >= p /\ (q >= 2 => p * q > p)
  BY <1>4, <1>6
<1> DEFINE r == p * q
<1>9. r \in Nat /\ r >= p /\ (q >= 2 => r > p) /\ Pow(1) = r
  BY <1>7, <1>8
<1> HIDE DEF r
<1>10. Pow(x) = Pow(1) => x = 1
  BY <1>4, <1>5, <1>7, <1>9
<1> QED BY <1>4, <1>7, <1>9, <1>10

\* A tree of two symbols has codes of one bit
LEMMA PairOnes ==
  ASSUME Limit \in Nat, NEW D, NEW U, Lengths(D, U), U \subseteq Nodes, IsFiniteSet(U), Cardinality(U) = 2
  PROVE  \A n \in U : D[n] = 1
<1> DEFINE s == Shares(D)
<1>1. D \in [Nodes -> Nat] /\ (\A n \in U : D[n] \in 1 .. Limit) /\ SumOn(s, U) = Pow(0)
  BY DEF Lengths
<1>2. \A n \in U : s[n] = Pow(D[n])
  BY <1>1 DEF Shares
<1> HIDE DEF s
<1>3. \A n \in U : s[n] \in Nat /\ Pow(1) \in Nat /\ Pow(0) = 2 * Pow(1) /\ s[n] <= Pow(1)
                   /\ (s[n] = Pow(1) => D[n] = 1)
  BY <1>1, <1>2, ShareOne
<1>4. ASSUME NEW a \in U PROVE D[a] = 1
  <2> DEFINE V == U \ {a}
  <2>1. IsFiniteSet(V) /\ Cardinality(V) = 1
    <3>1. IsFiniteSet(U \ {a}) /\ Cardinality(U \ {a}) = IF a \in U THEN Cardinality(U) - 1 ELSE Cardinality(U)
      BY FS_RemoveElement
    <3> QED BY <3>1
  <2>2. PICK b : V = {b}
    BY <2>1, FS_Singleton
  <2>3. b \in U
    BY <2>2
  <2>4. IntOn(s, U)
    BY <1>3 DEF IntOn
  <2>5. SumOn(s, U) = s[a] + SumOn(s, V)
    BY <2>4, SumOnRemove
  <2>6. SumOn(s, V) = s[b]
    <3>1. IsFiniteSet({}) /\ b \notin {} /\ {} \cup {b} = V
      BY <2>2, FS_EmptySet
    <3>2. IntOn(s, {} \cup {b})
      BY <2>3, <2>4 DEF IntOn
    <3>3. SumOn(s, {} \cup {b}) = s[b] + SumOn(s, {})
      BY <3>1, <3>2, SumOnAdd
    <3>4. SumOn(s, {}) = 0 /\ s[b] \in Nat
      BY <1>3, <2>3, SumOnEmpty
    <3> HIDE DEF V
    <3> QED BY <3>1, <3>3, <3>4
  <2> HIDE DEF V
  <2> DEFINE x == s[a]
             y == s[b]
             p == Pow(1)
  <2>7. x \in Nat /\ y \in Nat /\ p \in Nat /\ x <= p /\ y <= p /\ x + y = 2 * p
    BY <1>1, <1>3, <2>3, <2>5, <2>6
  <2>8. x = p
    <3> HIDE DEF x, y, p
    <3> QED BY <2>7
  <2> QED BY <1>3, <2>8
<1> QED BY <1>4

\* The bits of the symbols of tree x, forced ones refunded
LEMMA ForcedRefund ==
  ASSUME name \in Names, NEW tr, tr.fc \in [Nodes -> Nat], FreqOf(name) \in [Leaves -> Nat],
         NEW A, Forcing(tr, A, FreqOf(name)), NEW D, Lengths(D, InTree(tr))
  PROVE  /\ Cost(tr, D) = BitsOf(name, D) + Cardinality(A)
         /\ Cost(tr, Desc[name].static) = BitsOf(name, Desc[name].static) + SumOn(Desc[name].static, A)
         /\ BitsOf(name, D) \in Nat /\ BitsOf(name, Desc[name].static) \in Nat
         /\ Cardinality(A) \in Nat /\ SumOn(Desc[name].static, A) \in Nat
<1>1. Elems \in Nat /\ Limit \in Nat /\ Desc[name].static \in [Leaves -> Nat]
  BY DescIs
<1>2. Leaves = SymbolsOf(name)
  BY DEF Leaves, SymbolsOf, Elems
<1>3. Leaves \subseteq Nodes /\ IsFiniteSet(Leaves) /\ InTree(tr) \subseteq Leaves
  <2>1. IsFiniteSet(Leaves)
    <3>1. 0 \in Int /\ Elems - 1 \in Int
      BY <1>1
    <3> QED BY <3>1, FS_Interval DEF Leaves
  <2> QED BY <1>1, <2>1 DEF Leaves, Nodes, InTree
<1>4. D \in [Nodes -> Nat]
  BY DEF Lengths
<1>5. \A n \in Leaves : D[n] \in Nat /\ Desc[name].static[n] \in Nat
  BY <1>1, <1>3, <1>4
<1>6. \A len : BitsAt(name, len) = [n \in Leaves |-> FreqOf(name)[n] * (len[n] + Desc[name].extra[n])]
  BY <1>2 DEF BitsAt
<1>7. /\ Cost(tr, D) = BitsOf(name, D) + SumOn(D, A)
      /\ BitsOf(name, D) \in Nat
  BY <1>2, <1>5, <1>6, CostForced DEF BitsOf
<1>8. /\ Cost(tr, Desc[name].static) = BitsOf(name, Desc[name].static) + SumOn(Desc[name].static, A)
      /\ BitsOf(name, Desc[name].static) \in Nat /\ SumOn(Desc[name].static, A) \in Nat
  BY <1>2, <1>5, <1>6, CostForced DEF BitsOf
<1>9. A \subseteq Leaves /\ IsFiniteSet(A) /\ Cardinality(A) \in Nat
  <2>1. A \subseteq Leaves
    BY DEF Forcing
  <2> QED BY <1>3, <2>1, FS_Subset, FS_CardinalityType
<1>10. SumOn(D, A) = Cardinality(A)
  <2>1. CASE A = {}
    <3>1. SumOn(D, {}) = 0 /\ Cardinality({}) = 0
      BY SumOnEmpty, FS_EmptySet
    <3> QED BY <2>1, <3>1
  <2>2. CASE A # {}
    <3>1. Cardinality(InTree(tr)) = 2 /\ \A n \in A : tr.fc[n] = 1
      BY <2>2 DEF Forcing
    <3>2. IsFiniteSet(InTree(tr)) /\ InTree(tr) \subseteq Nodes
      BY <1>3, FS_Subset
    <3>3. \A n \in InTree(tr) : D[n] = 1
      BY <1>1, <3>1, <3>2, PairOnes
    <3>4. \A n \in A : n \in InTree(tr)
      BY <1>9, <3>1 DEF InTree
    <3>5. \A n \in A : D[n] = 1
      BY <3>3, <3>4
    <3> QED BY <1>9, <3>5, CardAsSum
  <2> QED BY <2>1, <2>2
<1> QED BY <1>7, <1>8, <1>9, <1>10

\* The bits of the finished trees' symbols, and with the fixed trees
Spent(x) == IF x \in DOMAIN built THEN BitsOf(x, built[x].len) ELSE 0
Fixed(x) == IF x \in DOMAIN built THEN BitsOf(x, Desc[x].static) ELSE 0
\* The bits counted for the finished trees
AllSpent == (Spent("l") + Spent("d")) + Spent("bl")
AllFixed == Fixed("l") + Fixed("d")

\* What has been added to optLen and staticLen at each point: finished trees in full, the
\* tree at hand less one bit for each forced symbol until genBitlen has run, the header last
Account ==
  /\ \A x \in Names : Spent(x) \in Nat /\ Fixed(x) \in Nat
  /\ stage = "collect" => optLen = AllSpent /\ staticLen = AllFixed
  /\ stage = "merge" => \E A : /\ Forcing(t, A, FreqOf(name))
                               /\ optLen = AllSpent - Cardinality(A)
                               /\ staticLen = AllFixed - SumOn(Desc[name].static, A)
  /\ stage = "codes" =>
       /\ optLen = AllSpent + BitsOf(name, t.dl)
       /\ staticLen = AllFixed + IF name = "bl" THEN 0 ELSE BitsOf(name, Desc[name].static)
  /\ stage \in {"choose", "done"} =>
       /\ optLen = (AllSpent + 3 * (MaxBlIndex(built.bl.len) + 1)) + 14
       /\ staticLen = AllFixed

LEMMA BitsSame ==
  ASSUME tally' = tally, NEW x \in Names, x = "bl" => blFreq' = blFreq
  PROVE  \A len : BitsAt(x, len)' = BitsAt(x, len)
BY DEF BitsAt, FreqOf, SymbolsOf, Names

LEMMA SpentSame ==
  ASSUME tally' = tally, blFreq' = blFreq, built' = built, NEW x \in Names
  PROVE  Spent(x)' = Spent(x) /\ Fixed(x)' = Fixed(x)
BY DEF Spent, Fixed, BitsOf, BitsAt, FreqOf, SymbolsOf

LEMMA AllSame ==
  ASSUME tally' = tally, blFreq' = blFreq, built' = built
  PROVE  /\ AllSpent' = AllSpent /\ AllFixed' = AllFixed
         /\ \A x \in Names : Spent(x)' = Spent(x) /\ Fixed(x)' = Fixed(x)
<1>1. "l" \in Names /\ "d" \in Names /\ "bl" \in Names
  BY DEF Names
<1>2. \A x \in Names : Spent(x)' = Spent(x) /\ Fixed(x)' = Fixed(x)
  BY SpentSame
<1> QED BY <1>1, <1>2 DEF AllSpent, AllFixed

LEMMA ForcingSame ==
  ASSUME name' = name, tally' = tally, blFreq' = blFreq, NEW A, Forcing(t', A, FreqOf(name))
  PROVE  Forcing(t, A, FreqOf(name))'
BY SameTree DEF Forcing, FreqOf, InTree

\* The forced symbols are taken off the lengths (trees.go:419-436)
LEMMA CollectCounts == Core /\ Account /\ Collect => Account'
<1> SUFFICES ASSUME Core, Account, Collect PROVE Account'
  OBVIOUS
<1>1. /\ stage = "collect" /\ stage' = "merge" /\ tally' = tally /\ name' = name /\ built' = built
      /\ blFreq' = blFreq
  BY DEF Collect
<1>2. name \in Names /\ Staged /\ HeaderCounted
  BY DEF Core, Staged
<1>3. FreqOf(name) \in [Leaves -> Nat] /\ Freq = FreqOf(name)
  BY <1>2, FreqIs
<1>4. PICK A \in SUBSET (Leaves \cap (0 .. 2)) :
         /\ \A n \in A : Freq[n] = 0 /\ t'.fc[n] = 1
         /\ \A n \in Leaves \ A : t'.fc[n] = Freq[n]
         /\ optLen' = optLen - Cardinality(A)
         /\ staticLen' = staticLen - SumOn(Desc[name].static, A)
         /\ A # {} => Cardinality(InTree(t')) = 2
  BY <1>2, <1>3, CollectMakes
<1>5. Forcing(t', A, FreqOf(name))
  BY <1>3, <1>4 DEF Forcing
<1>6. optLen = AllSpent /\ staticLen = AllFixed
  BY <1>1 DEF Account
<1>7. /\ AllSpent' = AllSpent /\ AllFixed' = AllFixed
      /\ \A x \in Names : Spent(x)' = Spent(x) /\ Fixed(x)' = Fixed(x)
  BY <1>1, AllSame
<1>8. Forcing(t, A, FreqOf(name))'
  BY <1>1, <1>5, ForcingSame
<1>9. \A x \in Names : Spent(x)' \in Nat /\ Fixed(x)' \in Nat
  BY <1>7 DEF Account
<1>10. optLen' = AllSpent' - Cardinality(A) /\ staticLen' = AllFixed' - SumOn(Desc[name'].static, A)
  BY <1>1, <1>4, <1>6, <1>7
<1>11. \E B : /\ Forcing(t, B, FreqOf(name))'
              /\ optLen' = AllSpent' - Cardinality(B)
              /\ staticLen' = AllFixed' - SumOn(Desc[name'].static, B)
  BY <1>8, <1>10
<1> QED BY <1>1, <1>9, <1>11 DEF Account

LEMMA MergeCounts == Core /\ Account /\ Merge => Account'
<1> SUFFICES ASSUME Core, Account, Merge PROVE Account'
  OBVIOUS
<1>1. /\ stage = "merge" /\ stage' = "merge" /\ tally' = tally /\ name' = name /\ built' = built
      /\ blFreq' = blFreq /\ optLen' = optLen /\ staticLen' = staticLen /\ Len(t.heap) >= 2
  BY DEF Merge
<1>2. name \in Names /\ AtMerge
  BY <1>1 DEF Core, Staged
<1>4. Merging(t) /\ Queue(t)
  BY <1>2 DEF AtMerge
<1>5. Elems \in Nat
  BY <1>2, DescIs
<1>6. PICK n, m, g : Turned(t, t', n, m, g) /\ Heapy(t', g, 1)
  <2>1. Heapy(t, t.heap, 1)
    BY <1>4 DEF Queue
  <2> QED BY <1>4, <1>5, <2>1, MergeStep
<1>9. InTree(t') = InTree(t) /\ \A x \in Leaves : t'.fc[x] = t.fc[x]
  <2>1. /\ InTree(t') = InTree(t)
        /\ \A x \in Nodes : x # Elems + Turns(t) => t'.fc[x] = t.fc[x]
    BY <1>1, <1>4, <1>5, <1>6, TurnedIs
  <2>2. Turns(t) \in Nat
    BY <1>4, <1>5, TurnsIs
  <2>3. Elems + Turns(t) \notin Leaves /\ Leaves \subseteq Nodes
    BY <1>5, <2>2 DEF Leaves, Nodes
  <2> QED BY <2>1, <2>3
<1>10. PICK A : /\ Forcing(t, A, FreqOf(name))
                /\ optLen = AllSpent - Cardinality(A)
                /\ staticLen = AllFixed - SumOn(Desc[name].static, A)
  BY <1>1 DEF Account
<1>11. Forcing(t', A, FreqOf(name))
  BY <1>9, <1>10 DEF Forcing
<1>12. /\ AllSpent' = AllSpent /\ AllFixed' = AllFixed
      /\ \A x \in Names : Spent(x)' = Spent(x) /\ Fixed(x)' = Fixed(x)
  BY <1>1, AllSame
<1>13. Forcing(t, A, FreqOf(name))'
  BY <1>1, <1>11, ForcingSame
<1>14. \A x \in Names : Spent(x)' \in Nat /\ Fixed(x)' \in Nat
  BY <1>12 DEF Account
<1>15. \E B : /\ Forcing(t, B, FreqOf(name))'
              /\ optLen' = AllSpent' - Cardinality(B)
              /\ staticLen' = AllFixed' - SumOn(Desc[name'].static, B)
  BY <1>1, <1>10, <1>12, <1>13
<1> QED BY <1>1, <1>14, <1>15 DEF Account

\* genBitlen adds what the symbols cost (trees.go:299-375)
LEMMA GenBitlenCounts == Core /\ Account /\ GenBitlen => Account'
<1> SUFFICES ASSUME Core, Account, GenBitlen PROVE Account'
  OBVIOUS
<1>1. /\ stage = "merge" /\ stage' = "codes" /\ tally' = tally /\ name' = name /\ built' = built
      /\ blFreq' = blFreq /\ Len(t.heap) = 1
  BY DEF GenBitlen
<1>2. Staged /\ HeaderCounted /\ AtMerge
  BY <1>1 DEF Core
<1>3. name \in Names /\ optLen \in Int /\ staticLen \in Int
  BY <1>2 DEF Staged
<1>4. Merging(t) /\ Cardinality(InTree(t)) <= Pow2(Limit)
  BY <1>2 DEF AtMerge
<1>5. Elems \in Nat
  BY <1>3, DescIs
<1>6. PICK D : /\ t' = [WithRoot(t) EXCEPT !.dl = D] /\ Lengths(D, InTree(t))
                /\ optLen' = optLen + Cost(t, D)
                /\ staticLen' = IF name = "bl" THEN staticLen
                                ELSE staticLen + Cost(t, Desc[name].static)
  BY <1>3, <1>4, GenBitlenMakes
<1>7. t'.dl = D
  BY <1>4, <1>5, <1>6, Coding
<1>8. PICK A : /\ Forcing(t, A, FreqOf(name))
                /\ optLen = AllSpent - Cardinality(A)
                /\ staticLen = AllFixed - SumOn(Desc[name].static, A)
  BY <1>1 DEF Account
<1>9. FreqOf(name) \in [Leaves -> Nat] /\ t.fc \in [Nodes -> Nat]
  BY <1>2, <1>4, FreqIs DEF Merging, TreeRec
<1>10. /\ Cost(t, D) = BitsOf(name, D) + Cardinality(A)
       /\ Cost(t, Desc[name].static) = BitsOf(name, Desc[name].static) + SumOn(Desc[name].static, A)
       /\ BitsOf(name, D) \in Nat /\ BitsOf(name, Desc[name].static) \in Nat
       /\ Cardinality(A) \in Nat /\ SumOn(Desc[name].static, A) \in Nat
  BY <1>3, <1>6, <1>8, <1>9, ForcedRefund
<1>11. /\ AllSpent' = AllSpent /\ AllFixed' = AllFixed
       /\ \A x \in Names : Spent(x)' = Spent(x) /\ Fixed(x)' = Fixed(x)
  BY <1>1, AllSame
<1>12. AllSpent \in Int /\ AllFixed \in Int
  <2>1. \A x \in Names : Spent(x) \in Nat /\ Fixed(x) \in Nat
    BY DEF Account
  <2>2. Spent("l") \in Nat /\ Spent("d") \in Nat /\ Spent("bl") \in Nat /\ Fixed("l") \in Nat /\ Fixed("d") \in Nat
    BY <2>1 DEF Names
  <2> QED BY <2>2 DEF AllSpent, AllFixed
<1>13. optLen' = AllSpent + BitsOf(name, D)
  BY <1>6, <1>8, <1>10, <1>12
<1>14. staticLen' = AllFixed + IF name = "bl" THEN 0 ELSE BitsOf(name, Desc[name].static)
  <2>1. CASE name = "bl"
    <3>1. A \subseteq Leaves /\ A \subseteq 0 .. 2
      BY <1>8 DEF Forcing
    <3>2. IsFiniteSet(A)
      <4>1. 0 \in Int /\ 2 \in Int
        OBVIOUS
      <4> QED BY <3>1, <4>1, FS_Interval, FS_Subset
    <3>3. Desc[name].static = [n \in Leaves |-> 0]
      BY <2>1 DEF Desc, Leaves, Elems
    <3>4. \A n \in A : Desc[name].static[n] = 0
      BY <3>1, <3>3
    <3>5. SumOn(Desc[name].static, A) = 0
      BY <3>2, <3>4, SumOnZero
    <3> QED BY <1>6, <1>8, <1>12, <2>1, <3>5
  <2>2. CASE name # "bl"
    BY <1>6, <1>8, <1>10, <1>12, <2>2
  <2> QED BY <2>1, <2>2
<1>15. \A len : BitsAt(name, len)' = BitsAt(name, len)
  BY <1>1, <1>3, BitsSame
<1>16. BitsOf(name, t.dl)' = BitsOf(name, D) /\ BitsOf(name, Desc[name].static)' = BitsOf(name, Desc[name].static)
  BY <1>1, <1>7 DEF BitsOf, BitsAt, FreqOf, SymbolsOf
<1>17. \A x \in Names : Spent(x)' \in Nat /\ Fixed(x)' \in Nat
  BY <1>11 DEF Account
<1> QED BY <1>1, <1>11, <1>13, <1>14, <1>16, <1>17 DEF Account

LEMMA BitsAlike ==
  ASSUME NEW x \in Names, NEW f, NEW g, \A n \in SymbolsOf(x) : f[n] = g[n]
  PROVE  BitsOf(x, f) = BitsOf(x, g)
<1>1. BitsAt(x, f) = BitsAt(x, g)
  BY DEF BitsAt
<1> QED BY <1>1 DEF BitsOf

\* buildBlTree adds what the header costs (trees.go:588-603)
LEMMA FinishCounts == Core /\ Account /\ FinishTree => Account'
<1> SUFFICES ASSUME Core, Account, FinishTree PROVE Account'
  OBVIOUS
<1>1. /\ stage = "codes" /\ tally' = tally /\ t' = t /\ staticLen' = staticLen
      /\ name' = (CASE name = "l" -> "d" [] OTHER -> "bl")
      /\ stage' = (IF name = "bl" THEN "choose" ELSE "collect")
      /\ optLen' = IF name = "bl" THEN optLen + 3 * (MaxBlIndex(NewTree.len) + 1) + 5 + 5 + 4 ELSE optLen
      /\ (name # "d" => blFreq' = blFreq)
  BY DEF FinishTree, NewTree
<1>2. Staged /\ HeaderCounted /\ AtCodes
  BY <1>1 DEF Core
<1>3. name \in Names /\ optLen \in Int /\ staticLen \in Int /\ DOMAIN built = Before[name] /\ tally \in Tallies
  BY <1>1, <1>2 DEF Staged
<1>4. /\ DOMAIN built' = DOMAIN built \cup {name} /\ name \notin DOMAIN built
      /\ built'[name] = NewTree /\ \A x \in DOMAIN built : built'[x] = built[x]
  BY <1>2, FinishAdds
<1> DEFINE p == BitsOf(name, t.dl)
           q == BitsOf(name, Desc[name].static)
<1>5. p \in Nat /\ q \in Nat
  <2>1. PICK A : Forcing(t, A, FreqOf(name))
    BY <1>2 DEF AtCodes, Collected
  <2>2. FreqOf(name) \in [Leaves -> Nat] /\ t.fc \in [Nodes -> Nat] /\ Lengths(t.dl, InTree(t))
    BY <1>2, FreqIs DEF AtCodes, TreeRec
  <2> QED BY <1>3, <2>1, <2>2, ForcedRefund
<1>6. /\ optLen = AllSpent + p
      /\ staticLen = AllFixed + IF name = "bl" THEN 0 ELSE q
  BY <1>1 DEF Account
<1>7. BitsOf(name, NewTree.len) = p
  <2>1. \A n \in SymbolsOf(name) : NewTree.len[n] = t.dl[n]
    BY DEF SymbolsOf, NewTree, Leaves, Elems
  <2> QED BY <1>3, <2>1, BitsAlike
<1>8. ASSUME NEW x \in DOMAIN built \cup {name}
      PROVE  \A len : BitsOf(x, len)' = BitsOf(x, len)
  <2>1. x \in Names /\ (x = "bl" => name # "d")
    BY <1>3 DEF Before, Names
  <2>2. \A len : BitsAt(x, len)' = BitsAt(x, len)
    BY <1>1, <2>1, BitsSame
  <2>3. SymbolsOf(x)' = SymbolsOf(x)
    BY DEF SymbolsOf
  <2> QED BY <2>2 DEF BitsOf
<1>9. \A x \in Names \ (DOMAIN built \cup {name}) : Spent(x)' = 0 /\ Fixed(x)' = 0 /\ Spent(x) = 0 /\ Fixed(x) = 0
  BY <1>4 DEF Spent, Fixed
<1>10. \A x \in DOMAIN built : Spent(x)' = Spent(x) /\ Fixed(x)' = Fixed(x)
  <2>1. ASSUME NEW x \in DOMAIN built PROVE Spent(x)' = Spent(x) /\ Fixed(x)' = Fixed(x)
    <3>1. x \in DOMAIN built' /\ built'[x] = built[x]
      BY <1>4
    <3>2. Spent(x)' = BitsOf(x, built[x].len)' /\ Fixed(x)' = BitsOf(x, Desc[x].static)'
      BY <3>1 DEF Spent, Fixed
    <3>3. Spent(x) = BitsOf(x, built[x].len) /\ Fixed(x) = BitsOf(x, Desc[x].static)
      BY DEF Spent, Fixed
    <3>4. BitsAt(x, built[x].len)' = BitsAt(x, built[x].len) /\ BitsAt(x, Desc[x].static)' = BitsAt(x, Desc[x].static)
      <4>1. x \in Names /\ (x = "bl" => name # "d")
        BY <1>3 DEF Before, Names
      <4> QED BY <1>1, <3>1, <4>1 DEF BitsAt, FreqOf, SymbolsOf, Names
    <3> QED BY <3>2, <3>3, <3>4 DEF BitsOf, SymbolsOf
  <2> QED BY <2>1
<1>11. \A x \in Names : x = name => Spent(x)' = p /\ Fixed(x)' = q /\ Spent(x) = 0 /\ Fixed(x) = 0
  <2>2. ASSUME NEW x \in Names, x = name
        PROVE  Spent(x)' = p /\ Fixed(x)' = q /\ Spent(x) = 0 /\ Fixed(x) = 0
    <3>1. x \in DOMAIN built' /\ built'[x] = NewTree
      BY <1>4, <2>2
    <3>2. Spent(x)' = BitsOf(x, built[x].len)' /\ Fixed(x)' = BitsOf(x, Desc[x].static)'
      BY <3>1 DEF Spent, Fixed
    <3>3. x = "bl" => blFreq' = blFreq
      BY <1>1, <2>2
    <3>4. BitsAt(x, built[x].len)' = BitsAt(x, NewTree.len) /\ BitsAt(x, Desc[x].static)' = BitsAt(x, Desc[x].static)
      BY <1>1, <3>1, <3>3 DEF BitsAt, FreqOf, SymbolsOf, Names
    <3>5. Spent(x)' = BitsOf(x, NewTree.len) /\ Fixed(x)' = BitsOf(x, Desc[x].static)
      BY <3>2, <3>4 DEF BitsOf, SymbolsOf
    <3>6. Spent(x) = 0 /\ Fixed(x) = 0
      BY <1>4, <2>2 DEF Spent, Fixed
    <3> QED BY <1>7, <2>2, <3>5, <3>6
  <2> QED BY <2>2
<1>12. \A x \in Names : Spent(x) \in Nat /\ Fixed(x) \in Nat
  BY DEF Account
<1> HIDE DEF p, q
<1>13. \A x \in Names : /\ Spent(x)' \in Nat /\ Fixed(x)' \in Nat
                        /\ Spent(x)' = IF x = name THEN p ELSE Spent(x)
                        /\ Fixed(x)' = IF x = name THEN q ELSE Fixed(x)
                        /\ (x = name => Spent(x) = 0 /\ Fixed(x) = 0)
  BY <1>3, <1>5, <1>9, <1>10, <1>11, <1>12
<1>14. "l" \in Names /\ "d" \in Names /\ "bl" \in Names
  BY DEF Names
<1>15. AllSpent' = AllSpent + p
  BY <1>3, <1>5, <1>12, <1>13, <1>14 DEF AllSpent, Names
<1>16. AllFixed' = AllFixed + IF name = "bl" THEN 0 ELSE q
  BY <1>3, <1>5, <1>12, <1>13, <1>14 DEF AllFixed, Names
<1>17. optLen \in Int /\ AllSpent' = optLen /\ AllFixed' = staticLen
  BY <1>3, <1>6, <1>15, <1>16
<1>18. CASE name = "bl"
  <2>1. built'.bl = NewTree
    BY <1>4, <1>18
  <2>2. optLen' = optLen + 3 * (MaxBlIndex(built'.bl.len) + 1) + 5 + 5 + 4
    BY <1>1, <1>18, <2>1
  <2> DEFINE v == 3 * (MaxBlIndex(built'.bl.len) + 1)
  <2>3. v \in Int
    <3>1. MaxBlIndex(built'.bl.len) \in 3 .. BlCodes - 1
      BY MaxBlIndexIs
    <3>2. MaxBlIndex(built'.bl.len) \in Int
      BY <3>1
    <3> QED BY <3>2
  <2>4. optLen' = optLen + v + 5 + 5 + 4
    BY <2>2
  <2> HIDE DEF v
  <2>5. optLen' = (AllSpent' + v) + 14
    BY <1>17, <2>3, <2>4
  <2>6. stage' = "choose"
    BY <1>1, <1>18
  <2> QED BY <1>1, <1>13, <1>17, <2>5, <2>6 DEF Account, v
<1>19. CASE name # "bl"
  <2>1. stage' = "collect" /\ optLen' = AllSpent' /\ staticLen' = AllFixed'
    BY <1>1, <1>17, <1>19
  <2> QED BY <1>13, <2>1 DEF Account
<1> QED BY <1>18, <1>19

LEMMA ChooseCounts ==
  ASSUME NEW k, NEW hasBuf
  PROVE  Core /\ Account /\ Choose(k, hasBuf) => Account'
<1> SUFFICES ASSUME Core, Account, Choose(k, hasBuf) PROVE Account'
  OBVIOUS
<1>1. stage = "choose" /\ stage' = "done" /\ UNCHANGED <<tally, name, t, built, blFreq, optLen, staticLen>>
  BY DEF Choose
<1>2. /\ AllSpent' = AllSpent /\ AllFixed' = AllFixed
      /\ \A x \in Names : Spent(x)' = Spent(x) /\ Fixed(x)' = Fixed(x)
  BY <1>1, AllSame
<1>3. \A x \in Names : Spent(x)' \in Nat /\ Fixed(x)' \in Nat
  BY <1>2 DEF Account
<1>4. /\ optLen' = (AllSpent' + 3 * (MaxBlIndex(built'.bl.len) + 1)) + 14
      /\ staticLen' = AllFixed'
  BY <1>1, <1>2 DEF Account
<1> QED BY <1>1, <1>3, <1>4 DEF Account

LEMMA AccountStutter == Account /\ UNCHANGED vars => Account'
<1> SUFFICES ASSUME Account, UNCHANGED vars PROVE Account'
  OBVIOUS
<1>1. UNCHANGED <<tally, name, stage, t, built, blFreq, optLen, staticLen>>
  BY DEF vars
<1>2. /\ AllSpent' = AllSpent /\ AllFixed' = AllFixed
      /\ \A x \in Names : Spent(x)' = Spent(x) /\ Fixed(x)' = Fixed(x)
  BY <1>1, AllSame
<1>3. \A A : Forcing(t, A, FreqOf(name)) => Forcing(t, A, FreqOf(name))'
  <2>1. ASSUME NEW A, Forcing(t, A, FreqOf(name)) PROVE Forcing(t, A, FreqOf(name))'
    <3>1. Forcing(t', A, FreqOf(name))
      BY <1>1, <2>1
    <3> QED BY <1>1, <3>1, ForcingSame
  <2> QED BY <2>1
<1>4. BitsOf(name, t.dl)' = BitsOf(name, t.dl) /\ BitsOf(name, Desc[name].static)' = BitsOf(name, Desc[name].static)
  BY <1>1 DEF BitsOf, BitsAt, FreqOf, SymbolsOf
<1>5. stage' = "merge" => \E A : /\ Forcing(t, A, FreqOf(name))'
                                 /\ optLen' = AllSpent' - Cardinality(A)
                                 /\ staticLen' = AllFixed' - SumOn(Desc[name'].static, A)
  <2> SUFFICES ASSUME stage' = "merge" PROVE \E A : /\ Forcing(t, A, FreqOf(name))'
                                 /\ optLen' = AllSpent' - Cardinality(A)
                                 /\ staticLen' = AllFixed' - SumOn(Desc[name'].static, A)
    OBVIOUS
  <2>1. PICK A : /\ Forcing(t, A, FreqOf(name))
                 /\ optLen = AllSpent - Cardinality(A)
                 /\ staticLen = AllFixed - SumOn(Desc[name].static, A)
    BY <1>1 DEF Account
  <2> QED BY <1>1, <1>2, <1>3, <2>1
<1>6. \A x \in Names : Spent(x)' \in Nat /\ Fixed(x)' \in Nat
  BY <1>2 DEF Account
<1>7. stage' = "codes" =>
       /\ optLen' = AllSpent' + BitsOf(name, t.dl)'
       /\ staticLen' = AllFixed' + IF name' = "bl" THEN 0 ELSE BitsOf(name, Desc[name].static)'
  BY <1>1, <1>2, <1>4 DEF Account
<1>8. stage' \in {"choose", "done"} =>
       /\ optLen' = (AllSpent' + 3 * (MaxBlIndex(built'.bl.len) + 1)) + 14
       /\ staticLen' = AllFixed'
  BY <1>1, <1>2 DEF Account
<1>9. stage' = "collect" => optLen' = AllSpent' /\ staticLen' = AllFixed'
  BY <1>1, <1>2 DEF Account
<1> QED BY <1>5, <1>6, <1>7, <1>8, <1>9 DEF Account

LEMMA AccountStarts == Init => Account
<1> SUFFICES ASSUME Init PROVE Account
  OBVIOUS
<1>1. stage = "collect" /\ built = <<>> /\ optLen = 0 /\ staticLen = 0
  BY DEF Init
<1>2. DOMAIN built = {}
  BY <1>1
<1>3. \A x \in Names : Spent(x) = 0 /\ Fixed(x) = 0
  BY <1>2 DEF Spent, Fixed
<1>4. AllSpent = 0 /\ AllFixed = 0
  BY <1>3 DEF AllSpent, AllFixed, Names
<1> QED BY <1>1, <1>3, <1>4 DEF Account

\* optLen and staticLen at every point of trFlushBlock: the bits of the symbols of the trees
\* built so far, less what forced symbols take, and of the header (trees.go:299-375, 419-436, 588-603)
THEOREM AccountAlways == Spec => []Account
<1>1. Core /\ Account /\ [Next]_vars => Account'
  <2> SUFFICES ASSUME Core, Account, [Next]_vars PROVE Account'
    OBVIOUS
  <2>1. CASE Collect
    BY <2>1, CollectCounts
  <2>2. CASE Merge
    BY <2>2, MergeCounts
  <2>3. CASE GenBitlen
    BY <2>3, GenBitlenCounts
  <2>4. CASE FinishTree
    BY <2>4, FinishCounts
  <2>5. CASE \E k \in Slack, hasBuf \in BOOLEAN : Choose(InputLen + k, hasBuf)
    <3>1. PICK k, hasBuf : Choose(InputLen + k, hasBuf)
      BY <2>5
    <3>2. Core /\ Account /\ Choose(InputLen + k, hasBuf) => Account'
      BY ChooseCounts
    <3> QED BY <3>1, <3>2
  <2>6. CASE Done
    BY <2>6, AccountStutter DEF Done
  <2>7. CASE UNCHANGED vars
    BY <2>7, AccountStutter
  <2> QED BY <2>1, <2>2, <2>3, <2>4, <2>5, <2>6, <2>7 DEF Next
<1> QED BY <1>1, CoreAlways, AccountStarts, PTL DEF Spec

\* Codes cost what the bit length tree's counts say
LEMMA SentBits ==
  ASSUME NEW codes, NEW out, NEW occ, Sends(codes, out, occ),
         NEW w, \A c \in 0 .. BlCodes - 1 : w[c] \in Nat
  PROVE  /\ Sum([i \in DOMAIN codes |-> w[codes[i].code]])
              = SumOn([c \in 0 .. BlCodes - 1 |-> occ[c] * w[c]], 0 .. BlCodes - 1)
         /\ SumOn(occ, 0 .. BlCodes - 1) = Len(codes)
<1> DEFINE B == 0 .. BlCodes - 1
           S == 1 .. Len(codes)
           f == [i \in S |-> w[codes[i].code]]
           val == [i \in S |-> codes[i].code]
           c1 == [c \in B |-> occ[c] * w[c]]
           one == [i \in S |-> 1]
           ones == [c \in B |-> 1]
<1>1. /\ codes \in Seq(CodeRec)
      /\ occ \in [B -> Nat]
      /\ \A c \in B : occ[c] = Cardinality({i \in S : codes[i].code = c})
  BY DEF Sends
<1>2. Len(codes) \in Nat /\ DOMAIN codes = S
  BY <1>1
<1>3. \A i \in S : val[i] \in B
  BY SentCounted
<1>4. IsFiniteSet(B) /\ IsFiniteSet(S) /\ Cardinality(S) = Len(codes)
  <2>1. 0 \in Int /\ 1 \in Int /\ BlCodes - 1 \in Int /\ Len(codes) \in Int
    BY <1>2 DEF BlCodes
  <2>2. IsFiniteSet(0 .. BlCodes - 1) /\ IsFiniteSet(1 .. Len(codes))
        /\ Cardinality(1 .. Len(codes)) = IF 1 > Len(codes) THEN 0 ELSE Len(codes) - 1 + 1
    BY <2>1, FS_Interval
  <2> QED BY <1>2, <2>2
<1>5. \A c \in B : {i \in S : codes[i].code = c} = Valued(val, S, c)
  BY DEF Valued
<1>6. \A c \in B : occ[c] = Cardinality(Valued(val, S, c)) /\ occ[c] \in Nat
  BY <1>1, <1>5
<1>7. \A i \in S : f[i] = w[val[i]] /\ one[i] = 1 /\ one[i] = ones[val[i]]
  BY <1>3
<1>8. \A c \in B : c1[c] = occ[c] * w[c] /\ ones[c] = 1
  OBVIOUS
<1>9. Sum([i \in DOMAIN codes |-> w[codes[i].code]]) = SumOn(f, S)
  <2>1. f = [i \in S |-> f[i]]
    OBVIOUS
  <2>2. [i \in DOMAIN codes |-> w[codes[i].code]] = f
    BY <1>2
  <2> HIDE DEF f
  <2>3. Sum(f) = SumOn(f, S)
    BY <2>1, SumIsOn
  <2> QED BY <2>2, <2>3
<1> HIDE DEF B, S, f, val, c1, one, ones
<1>10. SumOn(f, S) = SumOn(c1, B)
  <2>1. IntOn(w, B)
    BY DEF IntOn, B
  <2>2. \A b \in B : c1[b] = Cardinality(Valued(val, S, b)) * w[b]
    BY <1>6, <1>8
  <2>3. \A x \in S : f[x] = w[val[x]]
    BY <1>7
  <2> QED BY <1>3, <1>4, <2>1, <2>2, <2>3, SumByValue
<1>11. SumOn(one, S) = SumOn(occ, B)
  <2>1. IntOn(ones, B)
    BY <1>8 DEF IntOn
  <2>2. \A b \in B : occ[b] = Cardinality(Valued(val, S, b)) * ones[b]
    <3>1. \A n \in Nat : n = n * 1
      OBVIOUS
    <3> QED BY <1>6, <1>8, <3>1
  <2>3. \A x \in S : one[x] = ones[val[x]]
    BY <1>7
  <2> QED BY <1>3, <1>4, <2>1, <2>2, <2>3, SumByValue
<1>12. SumOn(one, S) = Cardinality(S)
  BY <1>4, <1>7, CardAsSum
<1> QED BY <1>4, <1>9, <1>10, <1>11, <1>12 DEF B, c1

\* What holds between the steps keeps every variable in range
LEMMA TypesOK == Core /\ Account => TypeOK
<1> SUFFICES ASSUME Core, Account PROVE TypeOK
  OBVIOUS
<1>1. Staged /\ HeaderCounted /\ \A x \in DOMAIN built : Finished(built[x], x)
  BY DEF Core
<1>2. /\ name \in Names /\ stage \in {"collect", "merge", "codes", "choose", "done"}
      /\ DOMAIN built \subseteq Names /\ optLen \in Int /\ staticLen \in Int
  BY <1>1 DEF Staged, Before, Names
<1>3. LCodes \in Nat /\ DCodes \in Nat
  BY LensTyped
<1>4. blFreq \in [0 .. BlCodes - 1 -> Nat] /\ Sum(blFreq) <= LCodes + DCodes
  <2>1. blFreq \in [0 .. BlCodes - 1 -> Nat]
    <3>1. CASE name # "bl"
      BY <1>1, <3>1 DEF HeaderCounted, Nothing
    <3>2. CASE name = "bl"
      BY <1>1, <3>2, SentCounted DEF HeaderCounted
    <3> QED BY <3>1, <3>2
  <2>2. Sum(blFreq) = SumOn(blFreq, 0 .. BlCodes - 1)
    <3>1. blFreq = [c \in 0 .. BlCodes - 1 |-> blFreq[c]]
      BY <2>1
    <3> QED BY <3>1, SumIsOn
  <2>3. CASE name # "bl"
    <3>1. \A c \in 0 .. BlCodes - 1 : blFreq[c] = 0
      BY <1>1, <2>3 DEF HeaderCounted, Nothing
    <3>2. IsFiniteSet(0 .. BlCodes - 1)
      <4>1. 0 \in Int /\ BlCodes - 1 \in Int
        BY DEF BlCodes
      <4> QED BY <4>1, FS_Interval
    <3>3. SumOn(blFreq, 0 .. BlCodes - 1) = 0
      BY <3>1, <3>2, SumOnZero
    <3> QED BY <1>3, <2>1, <2>2, <3>3
  <2>4. CASE name = "bl"
    <3>1. Sends(Header, Lengths2, blFreq)
      BY <1>1, <2>4 DEF HeaderCounted
    <3>2. "l" \in DOMAIN built /\ "d" \in DOMAIN built
      BY <1>1, <2>4 DEF Staged, Names, Before
    <3>3. Finished(built.l, "l") /\ Finished(built.d, "d")
      BY <1>1, <3>2
    <3>4. CodedTree(built.l) /\ CodedTree(built.d)
      BY <3>3, FinishedCoded
    <3> DEFINE a == built.l.maxCode + 1
               b == built.d.maxCode + 1
               o == Lengthened(<<>>, built.l, a)
               w == Lengthened(o, built.d, b)
    <3>5. a \in Nat /\ b \in Nat /\ a \in 0 .. built.l.maxCode + 1 /\ b \in 0 .. built.d.maxCode + 1
          /\ a <= LCodes /\ b <= DCodes
      <4>1. built.l.maxCode \in 0 .. LCodes - 1 /\ built.d.maxCode \in 0 .. DCodes - 1
        BY <3>3 DEF Finished, Desc
      <4> QED BY <1>3, <4>1
    <3>6. LongerBy(o, <<>>, built.l, a)
      <4>1. <<>> \in Seq(Nat)
        OBVIOUS
      <4> QED BY <3>4, <3>5, <4>1, LengthenedIs
    <3>7. o \in Seq(Nat) /\ Len(o) = a
      <4>1. o \in Seq(Nat) /\ Len(o) = Len(<<>>) + a
        BY <3>6 DEF LongerBy
      <4>2. Len(<<>>) = 0
        OBVIOUS
      <4> HIDE DEF o, a
      <4> QED BY <3>5, <4>1, <4>2
    <3> HIDE DEF o
    <3>8. Len(w) = a + b
      <4>1. LongerBy(w, o, built.d, b)
        BY <3>4, <3>5, <3>7, LengthenedIs
      <4> HIDE DEF w
      <4> QED BY <3>7, <4>1 DEF LongerBy
    <3>9. w = Lengths2
      BY DEF Lengths2, o
    <3>10. Len(Header) <= Len(w) /\ Len(Header) \in Nat
      <4>1. Header \in Seq(CodeRec)
        BY <3>1 DEF Sends
      <4> HIDE DEF w
      <4> QED BY <3>1, <3>9, <4>1 DEF Sends
    <3> DEFINE one == [c \in 0 .. BlCodes - 1 |-> 1]
    <3>11. SumOn(blFreq, 0 .. BlCodes - 1) = Len(Header)
      <4>1. \A c \in 0 .. BlCodes - 1 : one[c] \in Nat
        OBVIOUS
      <4> HIDE DEF one
      <4> QED BY <3>1, <4>1, SentBits
    <3> HIDE DEF w, a, b
    <3> QED BY <1>3, <2>1, <2>2, <3>5, <3>8, <3>10, <3>11
  <2> QED BY <2>1, <2>3, <2>4
<1>5. ASSUME stage \in {"choose", "done"} PROVE optLen \in Nat /\ staticLen \in Nat
  <2>1. /\ optLen = (AllSpent + 3 * (MaxBlIndex(built.bl.len) + 1)) + 14
        /\ staticLen = AllFixed /\ \A x \in Names : Spent(x) \in Nat /\ Fixed(x) \in Nat
    BY <1>5 DEF Account
  <2>2. AllSpent \in Nat /\ AllFixed \in Nat
    <3>1. Spent("l") \in Nat /\ Spent("d") \in Nat /\ Spent("bl") \in Nat /\ Fixed("l") \in Nat /\ Fixed("d") \in Nat
      BY <2>1 DEF Names
    <3> QED BY <3>1 DEF AllSpent, AllFixed
  <2>3. MaxBlIndex(built.bl.len) \in Nat
    <3>1. MaxBlIndex(built.bl.len) \in 3 .. BlCodes - 1
      BY MaxBlIndexIs
    <3> QED BY <3>1
  <2> QED BY <2>1, <2>2, <2>3
<1> QED BY <1>2, <1>4, <1>5 DEF TypeOK

\* Every variable stays in its range, and a code length is counted once at most (trees.go:398-483)
THEOREM TypeOKHolds == Spec => []TypeOK
BY CoreAlways, AccountAlways, TypesOK, PTL

\* The bits of the symbols, tree by tree
LEMMA BitsAre ==
  ASSUME NEW llen, NEW dlen
  PROVE  Bits(llen, dlen) = BitsOf("l", llen) + BitsOf("d", dlen)
<1> DEFINE f == [n \in 0 .. LCodes - 1 |-> SymbolBits(llen, n, tally.l, Desc.l.extra)]
           g == [n \in 0 .. DCodes - 1 |-> SymbolBits(dlen, n, tally.d, Desc.d.extra)]
<1>1. Bits(llen, dlen) = Sum(f) + Sum(g)
  BY DEF Bits
<1>2. f = BitsAt("l", llen) /\ SymbolsOf("l") = 0 .. LCodes - 1
  BY DEF BitsAt, SymbolsOf, SymbolBits, FreqOf, Desc
<1>3. g = BitsAt("d", dlen) /\ SymbolsOf("d") = 0 .. DCodes - 1
  BY DEF BitsAt, SymbolsOf, SymbolBits, FreqOf, Desc
<1>4. f = [n \in 0 .. LCodes - 1 |-> f[n]] /\ g = [n \in 0 .. DCodes - 1 |-> g[n]]
  OBVIOUS
<1> HIDE DEF f, g
<1>5. Sum(f) = SumOn(f, 0 .. LCodes - 1) /\ Sum(g) = SumOn(g, 0 .. DCodes - 1)
  BY <1>4, SumIsOn
<1> QED BY <1>1, <1>2, <1>3, <1>5 DEF BitsOf

\* The bits of the header are those buildBlTree counted (trees.go:485-615)
LEMMA HeaderBitsAre ==
  ASSUME Core, stage \in {"choose", "done"}
  PROVE  HeaderBits(SendAllTrees)
           = (14 + 3 * (MaxBlIndex(built.bl.len) + 1)) + BitsOf("bl", built.bl.len)
<1> DEFINE w == [c \in 0 .. BlCodes - 1 |-> built.bl.len[c] + BlExtra[c]]
           h == SendAllTrees
           codes == h.codes
           m == MaxBlIndex(built.bl.len) + 1
<1>1. Sends(Header, Lengths2, blFreq) /\ built.bl.len \in [0 .. BlCodes - 1 -> 0 .. MaxBlBits]
  BY AllFinished
<1>2. codes = Header /\ h.blLengths = [i \in 1 .. m |-> built.bl.len[BlOrder[i]]]
  BY DEF SendAllTrees, Header
<1>3. m \in Nat
  <2>1. MaxBlIndex(built.bl.len) \in 3 .. BlCodes - 1
    BY MaxBlIndexIs
  <2> QED BY <2>1
<1>4. Len(h.blLengths) = m
  BY <1>2, <1>3
<1>5. \A c \in 0 .. BlCodes - 1 : w[c] \in Nat
  <2>1. \A c \in 0 .. BlCodes - 1 : BlExtra[c] \in Nat
    BY DEF BlExtra
  <2> DEFINE len == built.bl.len
  <2>2. len \in [0 .. BlCodes - 1 -> 0 .. MaxBlBits]
    BY <1>1
  <2> HIDE DEF len
  <2>3. \A c \in 0 .. BlCodes - 1 : len[c] \in Nat
    BY <2>2
  <2>4. \A c \in 0 .. BlCodes - 1 : w[c] = len[c] + BlExtra[c]
    BY DEF len
  <2> HIDE DEF w
  <2> QED BY <2>1, <2>3, <2>4
<1>6. [i \in DOMAIN codes |-> built.bl.len[codes[i].code] + BlExtra[codes[i].code]]
        = [i \in DOMAIN codes |-> w[codes[i].code]]
  <2>1. \A i \in 1 .. Len(Header) : Header[i].code \in 0 .. BlCodes - 1
    BY <1>1, SentCounted
  <2>2. DOMAIN Header = 1 .. Len(Header)
    BY <1>1 DEF Sends
  <2>3. \A i \in DOMAIN codes : codes[i].code \in 0 .. BlCodes - 1
    BY <1>2, <2>1, <2>2
  <2> HIDE DEF codes
  <2> QED BY <2>3
<1>7. HeaderBits(h) = 14 + 3 * Len(h.blLengths)
        + Sum([i \in DOMAIN codes |-> built.bl.len[codes[i].code] + BlExtra[codes[i].code]])
  BY DEF HeaderBits
<1> HIDE DEF h, codes, w, m
<1>8. Sum([i \in DOMAIN codes |-> w[codes[i].code]])
        = SumOn([c \in 0 .. BlCodes - 1 |-> blFreq[c] * w[c]], 0 .. BlCodes - 1)
  <2>1. Sends(codes, Lengths2, blFreq)
    BY <1>1, <1>2
  <2> QED BY <2>1, <1>5, SentBits
<1>9. SumOn([c \in 0 .. BlCodes - 1 |-> blFreq[c] * w[c]], 0 .. BlCodes - 1) = BitsOf("bl", built.bl.len)
  <2>1. SymbolsOf("bl") = 0 .. BlCodes - 1 /\ FreqOf("bl") = blFreq /\ Desc["bl"].extra = BlExtra
    BY DEF SymbolsOf, FreqOf, Desc
  <2>2. [c \in 0 .. BlCodes - 1 |-> blFreq[c] * w[c]] = BitsAt("bl", built.bl.len)
    BY <2>1 DEF BitsAt, w
  <2> QED BY <2>1, <2>2 DEF BitsOf
<1> QED BY <1>4, <1>6, <1>7, <1>8, <1>9 DEF h, m

\* optLen and staticLen end as the bits sent
LEMMA LengthsExactIs == Core /\ Account => LengthsExact
<1> SUFFICES ASSUME Core, Account, stage \in {"choose", "done"} PROVE LengthsExact
  BY DEF LengthsExact
<1>1. /\ optLen = (AllSpent + 3 * (MaxBlIndex(built.bl.len) + 1)) + 14
      /\ staticLen = AllFixed /\ \A x \in Names : Spent(x) \in Nat /\ Fixed(x) \in Nat
  BY DEF Account
<1>2. DOMAIN built = Names
  BY DEF Core, Staged
<1>3. Finished(built.l, "l") /\ Finished(built.d, "d")
  BY AllFinished
<1>4. /\ Spent("l") = BitsOf("l", built.l.len) /\ Spent("d") = BitsOf("d", built.d.len)
      /\ Spent("bl") = BitsOf("bl", built.bl.len)
      /\ Fixed("l") = BitsOf("l", StaticL) /\ Fixed("d") = BitsOf("d", StaticD)
  <2>1. "l" \in Names /\ "d" \in Names /\ "bl" \in Names
    BY DEF Names
  <2>2. Desc["l"].static = StaticL /\ Desc["d"].static = StaticD
    BY DEF Desc
  <2> QED BY <1>2, <2>1, <2>2 DEF Spent, Fixed
<1>5. Spent("l") \in Nat /\ Spent("d") \in Nat /\ Spent("bl") \in Nat
  BY <1>1 DEF Names
<1>6. HeaderBits(SendAllTrees)
           = (14 + 3 * (MaxBlIndex(built.bl.len) + 1)) + BitsOf("bl", built.bl.len)
  BY HeaderBitsAre
<1>7. MaxBlIndex(built.bl.len) \in Nat
  <2>1. MaxBlIndex(built.bl.len) \in 3 .. BlCodes - 1
    BY MaxBlIndexIs
  <2> QED BY <2>1
<1>8. optLen = HeaderBits(SendAllTrees) + Bits(built.l.len, built.d.len)
  <2>1. Bits(built.l.len, built.d.len) = Spent("l") + Spent("d")
    BY <1>4, BitsAre
  <2> DEFINE a == Spent("l")
             b == Spent("d")
             c == Spent("bl")
             v == 3 * (MaxBlIndex(built.bl.len) + 1)
  <2>2. v \in Nat
    BY <1>7
  <2>3. /\ optLen = (((a + b) + c) + v) + 14 /\ HeaderBits(SendAllTrees) = (14 + v) + c
        /\ Bits(built.l.len, built.d.len) = a + b /\ a \in Nat /\ b \in Nat /\ c \in Nat
    BY <1>1, <1>4, <1>5, <1>6, <2>1 DEF AllSpent
  <2> HIDE DEF a, b, c, v
  <2> QED BY <2>2, <2>3
<1>9. staticLen = Bits(StaticL, StaticD)
  BY <1>1, <1>4, BitsAre DEF AllFixed
<1>10. \A n \in 0 .. LCodes - 1 : tally.l[n] # 0 => built.l.len[n] # 0
  BY <1>3 DEF Finished, FreqOf, Desc
<1>11. \A n \in 0 .. DCodes - 1 : tally.d[n] # 0 => built.d.len[n] # 0
  BY <1>3 DEF Finished, FreqOf, Desc
<1> QED BY <1>8, <1>9, <1>10, <1>11 DEF LengthsExact

\* The bytes of a block are a number
LEMMA InputTyped ==
  ASSUME tally \in Tallies
  PROVE  InputLen \in Int
<1> DEFINE f == [n \in 0 .. Literals - 1 |-> tally.l[n]]
           g == tally.d
<1>1. tally.l \in [0 .. LCodes - 1 -> Nat] /\ g \in [0 .. DCodes - 1 -> Nat]
  BY TallyIs
<1>2. Literals \in Nat /\ LCodes \in Nat /\ DCodes \in Nat /\ MinMatch \in Nat /\ Literals <= LCodes
  <2>1. LCodes = Literals + 1 + Len(LenExtra) /\ Len(LenExtra) \in Nat /\ Literals \in Nat
    BY LensTyped DEF LCodes
  <2> QED BY <2>1, LensTyped, SizesAssumption
<1>3. \A n \in 0 .. Literals - 1 : f[n] \in Nat
  <2>1. \A n \in 0 .. Literals - 1 : n \in 0 .. LCodes - 1
    BY <1>2
  <2> QED BY <1>1, <2>1
<1>4. IsFiniteSet(0 .. Literals - 1) /\ IsFiniteSet(0 .. DCodes - 1)
  <2>1. 0 \in Int /\ Literals - 1 \in Int /\ DCodes - 1 \in Int
    BY <1>2
  <2> QED BY <2>1, FS_Interval
<1>5. f = [n \in 0 .. Literals - 1 |-> f[n]] /\ g = [n \in 0 .. DCodes - 1 |-> g[n]]
  BY <1>1
<1>6. \A n \in 0 .. DCodes - 1 : g[n] \in Nat
  BY <1>1
<1>7. InputLen = Sum(f) + MinMatch * Sum(g)
  BY DEF InputLen
<1> HIDE DEF f, g
<1>8. Sum(f) \in Nat
  <2>1. Sum(f) = SumOn(f, 0 .. Literals - 1)
    BY <1>5, SumIsOn
  <2>2. SumOn(f, 0 .. Literals - 1) \in Nat
    BY <1>3, <1>4, SumOnNat
  <2> QED BY <2>1, <2>2
<1>9. Sum(g) \in Nat
  <2>1. Sum(g) = SumOn(g, 0 .. DCodes - 1)
    BY <1>5, SumIsOn
  <2>2. SumOn(g, 0 .. DCodes - 1) \in Nat
    BY <1>4, <1>6, SumOnNat
  <2> QED BY <2>1, <2>2
<1>10. MinMatch * Sum(g) \in Nat
  BY <1>2, <1>9
<1> QED BY <1>7, <1>8, <1>10

\* The choice by exact lengths is the smallest
LEMMA SmallestChosenIs == Core /\ Account /\ BlockIs => SmallestChosen
<1> SUFFICES ASSUME Core, Account, BlockIs PROVE SmallestChosen
  OBVIOUS
<1>1. LengthsExact
  BY LengthsExactIs
<1>2. ASSUME stage = "done"
      PROVE  LET bytes(bits) == (3 + bits + 7) \div 8
                 dynamic == bytes(HeaderBits(SendAllTrees) + Bits(built.l.len, built.d.len))
                 fixed   == bytes(Bits(StaticL, StaticD))
                 size == CASE block.kind = "stored"  -> block.storedLen + 4
                           [] block.kind = "fixed"   -> fixed
                           [] block.kind = "dynamic" -> dynamic
             IN  /\ size <= dynamic /\ size <= fixed
                 /\ block.hasBuf => size <= block.storedLen + 4
  <2>1. optLen = HeaderBits(SendAllTrees) + Bits(built.l.len, built.d.len) /\ staticLen = Bits(StaticL, StaticD)
    BY <1>1, <1>2 DEF LengthsExact
  <2>2. optLen \in Int /\ staticLen \in Int /\ tally \in Tallies
    BY DEF Core, Staged
  <2> DEFINE dynamic == (3 + optLen + 7) \div 8
             fixed == (3 + staticLen + 7) \div 8
  <2>3. dynamic = OptBytes /\ fixed = StaticBytes /\ dynamic \in Int /\ fixed \in Int
    <3>1. 3 + optLen + 7 = optLen + 3 + 7 /\ 3 + staticLen + 7 = staticLen + 3 + 7
      BY <2>2
    <3>2. dynamic \in Int /\ fixed \in Int
      BY <2>2
    <3> QED BY <3>1, <3>2 DEF OptBytes, StaticBytes
  <2>4. PICK k \in Slack, hasBuf \in BOOLEAN : block = Chosen(InputLen + k, hasBuf)
    BY <1>2 DEF BlockIs
  <2> DEFINE s == InputLen + k
             best == IF fixed <= dynamic THEN fixed ELSE dynamic
             kind == IF s + 4 <= best /\ hasBuf THEN "stored" ELSE IF fixed = best THEN "fixed" ELSE "dynamic"
  <2>5. s \in Int
    <3>1. InputLen \in Int /\ k \in Nat
      BY <2>2, <2>4, InputTyped, SizesAssumption
    <3> QED BY <3>1
  <2>6. block.kind = kind /\ block.storedLen = s /\ block.hasBuf = hasBuf
    BY <2>3, <2>4 DEF Chosen
  <2> DEFINE size == CASE block.kind = "stored"  -> block.storedLen + 4
                       [] block.kind = "fixed"   -> fixed
                       [] block.kind = "dynamic" -> dynamic
  <2> HIDE DEF s, dynamic, fixed
  <2>7. size = CASE kind = "stored" -> s + 4 [] kind = "fixed" -> fixed [] kind = "dynamic" -> dynamic
    BY <2>6
  <2>8. size <= dynamic /\ size <= fixed /\ (hasBuf => size <= s + 4)
    <3>1. CASE s + 4 <= best /\ hasBuf
      <4>1. kind = "stored" /\ size = s + 4
        BY <2>7, <3>1
      <4> HIDE DEF size, kind
      <4> QED BY <2>3, <2>5, <3>1, <4>1
    <3>2. CASE ~(s + 4 <= best /\ hasBuf) /\ fixed = best
      <4>1. kind = "fixed" /\ size = fixed
        BY <2>7, <3>2
      <4> HIDE DEF size, kind
      <4> QED BY <2>3, <2>5, <3>2, <4>1
    <3>3. CASE ~(s + 4 <= best /\ hasBuf) /\ fixed # best
      <4>1. kind = "dynamic" /\ size = dynamic
        BY <2>7, <3>3
      <4> HIDE DEF size, kind
      <4> QED BY <2>3, <2>5, <3>3, <4>1
    <3> QED BY <3>1, <3>2, <3>3
  <2>9. size <= dynamic /\ size <= fixed /\ (block.hasBuf => size <= block.storedLen + 4)
    BY <2>6, <2>8
  <2> QED BY <2>1, <2>9 DEF dynamic, fixed
<1> QED BY <1>1, <1>2 DEF SmallestChosen

\* The lengths the choice rests on are exactly the bits sent, and no other encoding of the
\* block takes fewer bytes than the one chosen, for every block (trees.go:637-678)
THEOREM SmallestChosenHolds == Spec => []SmallestChosen
BY CoreAlways, AccountAlways, BlockStarts, BlockNext, SmallestChosenIs, PTL DEF Spec

\* What the merge loop keeps, and what it comes to
Best == (stage = "merge" => Cheapest(t)) /\ (stage = "codes" => Cheap(t))

LEMMA CheapestSame ==
  ASSUME name' = name, Cheapest(t')
  PROVE  Cheapest(t)'
<1>1. Limit' = Limit /\ InTree(t)' = InTree(t') /\ InnerNodes(t)' = InnerNodes(t') /\ Levels' = Levels
  BY SameTree DEF InTree, InnerNodes, Turns, Levels
<1>2. \A len, S : Feasible(len, S)' = Feasible(len, S)
  BY <1>1, SameTree DEF Feasible, Levels, Pow, Limit
<1> QED BY <1>1, <1>2 DEF Cheapest

LEMMA CheapSame ==
  ASSUME name' = name, Cheap(t')
  PROVE  Cheap(t)'
<1>1. Limit' = Limit /\ Leaves' = Leaves /\ InTree(t)' = InTree(t') /\ Levels' = Levels
  BY SameTree DEF InTree, Levels
<1>2. \A len, S : Feasible(len, S)' = Feasible(len, S)
  BY <1>1, SameTree DEF Feasible, Levels, Pow, Limit
<1>3. Uncut(t)' = Uncut(t')
  BY <1>1 DEF Uncut
<1> QED BY <1>1, <1>2, <1>3 DEF Cheap

\* The first heap (trees.go:404-442)
LEMMA BestCollect == Core /\ Collect => Best'
<1> SUFFICES ASSUME Core, Collect PROVE Best'
  OBVIOUS
<1>1. stage = "collect" /\ stage' = "merge" /\ name' = name
  BY DEF Collect
<1>2. Staged /\ HeaderCounted /\ name \in Names
  BY DEF Core, Staged
<1>3. Freq \in [Leaves -> Nat]
  BY <1>2, FreqIs
<1>4. Merging(t') /\ Turns(t') = 0
  BY <1>2, <1>3, CollectMakes
<1>5. Elems \in Nat /\ Limit \in Nat
  BY <1>2, DescIs
<1>6. Cheapest(t')
  BY <1>4, <1>5, CheapestStarts
<1> QED BY <1>1, <1>6, CheapestSame DEF Best

\* The merge loop (trees.go:446-471)
LEMMA BestMerge == Core /\ Best /\ Merge => Best'
<1> SUFFICES ASSUME Core, Best, Merge PROVE Best'
  OBVIOUS
<1>1. stage = "merge" /\ stage' = "merge" /\ name' = name /\ Len(t.heap) >= 2
  BY DEF Merge
<1>2. name \in Names /\ Merging(t) /\ Heapy(t, t.heap, 1) /\ Cheapest(t)
  BY <1>1 DEF Core, Staged, AtMerge, Queue, Best
<1>3. Elems \in Nat /\ Limit \in Nat
  BY <1>2, DescIs
<1>4. PICK n, m, g : Turned(t, t', n, m, g)
  BY <1>2, <1>3, MergeStep
<1>5. Cheapest(t')
  BY <1>1, <1>2, <1>3, <1>4, CheapestKept
<1> QED BY <1>1, <1>5, CheapestSame DEF Best

\* The lengths (trees.go:299-375)
LEMMA BestGenBitlen == Core /\ Best /\ GenBitlen => Best'
<1> SUFFICES ASSUME Core, Best, GenBitlen PROVE Best'
  OBVIOUS
<1>1. stage = "merge" /\ stage' = "codes" /\ name' = name /\ Len(t.heap) = 1
  BY DEF GenBitlen
<1>2. /\ name \in Names /\ Merging(t) /\ Queue(t) /\ Cardinality(InTree(t)) <= Pow2(Limit) /\ Cheapest(t)
      /\ optLen \in Int /\ staticLen \in Int
  BY <1>1 DEF Core, Staged, AtMerge, Best
<1>3. Elems \in Nat /\ Limit \in Nat /\ Limit >= 1
  BY <1>2, DescIs
<1>4. PICK D : t' = [WithRoot(t) EXCEPT !.dl = D] /\ Lengths(D, InTree(t)) /\ \E x : FromCut(D, WithRoot(t), x)
  BY <1>2, GenBitlenMakes
<1>5. PICK x : FromCut(D, WithRoot(t), x)
  BY <1>4
<1>6. /\ t'.dl = D /\ t'.fc = t.fc /\ InTree(t') = InTree(t) /\ t'.sorted = WithRoot(t).sorted
  BY <1>2, <1>3, <1>4, Coding
<1>7. /\ x.overflow = 0 => \A len : Feasible(len, InTree(t)) =>
                             Weight(t.fc, D, InTree(t)) <= Weight(t.fc, len, InTree(t))
      /\ \A m, n \in InTree(t) : t.fc[m] > t.fc[n] => D[m] <= D[n]
  BY <1>1, <1>2, <1>4, <1>5, BestCodes
<1>8. ASSUME Uncut(t') PROVE x.overflow = 0
  <2> DEFINE tr == WithRoot(t)
             w == tr.sorted
             N == Len(w)
  <2>1. Whole(tr) /\ CutSoFar(x, tr, N) /\ \A n \in Nodes \ Leaves : D[n] = x.dl[n]
    BY <1>1, <1>2, <1>3, <1>5, WholeIs DEF FromCut
  <2>2. \A i \in 2 .. N : D[w[i]] < Limit \/ w[i] \in Leaves
    BY <1>6, <1>8 DEF Uncut
  <2>3. \A i \in 2 .. N : w[i] \in Nodes
    <3>1. w \in Seq(Nodes)
      BY <2>1 DEF Whole, TreeRec
    <3> HIDE DEF w
    <3> QED BY <3>1
  <2> HIDE DEF tr
  <2>4. \A i \in 2 .. N : x.dl[w[i]] < Limit \/ w[i] \in Leaves
    BY <2>1, <2>2, <2>3
  <2> QED BY <1>3, <2>1, <2>4, UncutIs
<1>9. Cheap(t')
  BY <1>6, <1>7, <1>8 DEF Cheap
<1> QED BY <1>1, <1>9, CheapSame DEF Best

LEMMA BestNext == Core /\ Best /\ [Next]_vars => Best'
<1> SUFFICES ASSUME Core, Best, [Next]_vars PROVE Best'
  OBVIOUS
<1>1. CASE Collect
  BY <1>1, BestCollect
<1>2. CASE Merge
  BY <1>2, BestMerge
<1>3. CASE GenBitlen
  BY <1>3, BestGenBitlen
<1>4. CASE FinishTree
  <2>1. stage' \in {"choose", "collect"}
    BY <1>4 DEF FinishTree
  <2> QED BY <2>1 DEF Best
<1>5. ASSUME NEW k \in Slack, NEW hasBuf \in BOOLEAN, Choose(InputLen + k, hasBuf) PROVE Best'
  <2>1. stage' = "done"
    BY <1>5 DEF Choose
  <2> QED BY <2>1 DEF Best
<1>6. CASE UNCHANGED vars
  <2>1. stage' = stage /\ t' = t /\ name' = name
    BY <1>6 DEF vars
  <2>2. stage = "merge" => Cheapest(t')
    BY <2>1 DEF Best
  <2>3. stage = "codes" => Cheap(t')
    BY <2>1 DEF Best
  <2> QED BY <2>1, <2>2, <2>3, CheapestSame, CheapSame DEF Best
<1> QED BY <1>1, <1>2, <1>3, <1>4, <1>5, <1>6 DEF Next, Done

\* What holds between the steps makes the codes optimal
LEMMA OptimalIs == Core /\ Best => Optimal
<1> SUFFICES ASSUME Core, Best, Ready PROVE Optimal
  BY DEF Optimal
<1>1. stage = "codes" /\ name \in Names /\ AtCodes /\ Cheap(t)
  BY DEF Core, Staged, Best, Ready
<1>2. Used = InTree(t) /\ \A n \in Used : t.dl[n] \in 1 .. Limit
  BY <1>1, UsedIs
<1>3. FrequentShort
  BY <1>1, <1>2 DEF FrequentShort, Cheap
<1>4. Limit \in Nat
  BY <1>1, DescIs
<1>5. ASSUME \A i \in 2 .. Len(t.sorted) :
               t.dl[t.sorted[i]] < Desc[name].maxLength \/ t.sorted[i] \in Leaves,
             NEW len \in [Used -> 1 .. Desc[name].maxLength],
             Sum([n \in Used |-> Pow(len[n])]) <= Pow(0)
      PROVE  Sum([n \in Used |-> t.fc[n] * t.dl[n]]) <= Sum([n \in Used |-> t.fc[n] * len[n]])
  <2>1. Uncut(t)
    BY <1>5 DEF Uncut, Limit
  <2>2. \A n \in Used : len[n] \in Levels
    <3>1. 1 .. Limit \subseteq Levels
      BY <1>4 DEF Levels
    <3> QED BY <1>5, <3>1 DEF Limit
  <2>3. Feasible(len, InTree(t))
    BY <1>2, <1>5, <2>2 DEF Feasible
  <2> QED BY <1>1, <1>2, <2>1, <2>3 DEF Cheap, Weight
<1> QED BY <1>3, <1>5 DEF Optimal

\* Each of the three trees, if its codes were not cut, costs no more bits than any other
\* lengths a decoder accepts, and cut or not a more frequent symbol never has the longer
\* code, for every alphabet, limit and block (trees.go:299-375, 446-471)
THEOREM OptimalHolds == Spec => []Optimal
<1>1. Init => Best
  BY DEF Init, Best
<1> QED BY <1>1, CoreAlways, BestNext, OptimalIs, PTL DEF Spec
=============================================================================
