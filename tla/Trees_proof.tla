---------------------------- MODULE Trees_proof -----------------------------
(***************************************************************************)
(* One tree, for every alphabet, limit and counts: what the heap, the merge *)
(* loop and genBitlen make of the counts.  Sums and powers first, then the *)
(* functions of trees.go in the order buildTree calls them, at last why no *)
(* lengths are cheaper than those of an uncut tree.  TreesBlock_proof takes *)
(* the lemmas to the steps of the specification.                           *)
(***************************************************************************)
EXTENDS Trees, FiniteSetTheorems, FunctionTheorems, TLAPS

-----------------------------------------------------------------------------
(* Induction along an interval and over the subsets of a finite set        *)

Below == {pair \in Nat \X Nat : pair[1] < pair[2]}

LEMMA BelowWellFounded == IsWellFoundedOn(Below, Nat)
<1>1. Below = OpToRel(<, Nat)
  BY DEF Below, OpToRel
<1> QED BY <1>1, NatLessThanWellFounded

\* A set of naturals has a least element
LEMMA LeastOf ==
  ASSUME NEW T, T \subseteq Nat, T # {}
  PROVE  \E x \in T : \A y \in T : x <= y
<1>1. PICK x \in T : \A y \in T : <<y, x>> \notin Below
  BY BelowWellFounded, WFMin
<1>2. ASSUME NEW y \in T PROVE x <= y
  <2>1. x \in Nat /\ y \in Nat
    OBVIOUS
  <2>2. <<y, x>> \notin Below
    BY <1>1
  <2>3. ~(y < x)
    BY <2>1, <2>2 DEF Below
  <2> QED BY <2>1, <2>3
<1> QED BY <1>2

\* Induction over 0 .. m
LEMMA InductionUpTo ==
  ASSUME NEW X, NEW m \in Nat, 0 \in X, \A n \in 0 .. m - 1 : n \in X => n + 1 \in X
  PROVE  \A n \in 0 .. m : n \in X
<1> DEFINE T == {n \in 0 .. m : n \notin X}
<1> SUFFICES ASSUME T # {} PROVE FALSE
  OBVIOUS
<1>1. T \subseteq Nat
  OBVIOUS
<1>2. PICK x \in T : \A y \in T : x <= y
  BY <1>1, LeastOf
<1>3. x # 0 /\ x - 1 \in 0 .. m - 1 /\ x - 1 \in 0 .. m /\ (x - 1) + 1 = x
  OBVIOUS
<1>4. x - 1 \in X
  BY <1>2, <1>3
<1> QED BY <1>3, <1>4

\* A set of subsets that has the empty set and, with a set, every set of one more element
LEMMA SetInduction ==
  ASSUME NEW S, IsFiniteSet(S), NEW X, {} \in X,
         \A T \in SUBSET S, x \in S : T \in X /\ x \notin T => T \cup {x} \in X
  PROVE  S \in X
<1> DEFINE m == Cardinality(S)
           C == {k \in Nat : \A T \in SUBSET S : Cardinality(T) = k => T \in X}
<1>1. m \in Nat
  BY FS_CardinalityType
<1>2. 0 \in C
  <2>1. ASSUME NEW T \in SUBSET S, Cardinality(T) = 0 PROVE T \in X
    <3>1. IsFiniteSet(T)
      BY FS_Subset
    <3>2. T = {}
      BY <2>1, <3>1, FS_EmptySet
    <3> QED BY <3>2
  <2> QED BY <2>1
<1>3. ASSUME NEW k \in 0 .. m - 1, k \in C PROVE k + 1 \in C
  <2>1. ASSUME NEW T \in SUBSET S, Cardinality(T) = k + 1 PROVE T \in X
    <3>1. IsFiniteSet(T)
      BY FS_Subset
    <3>2. T # {}
      <4>1. k + 1 # 0
        OBVIOUS
      <4> QED BY <2>1, <4>1, FS_EmptySet
    <3>3. PICK x \in T : TRUE
      BY <3>2
    <3>4. Cardinality(T \ {x}) = k
      <4>1. Cardinality(T \ {x}) = Cardinality(T) - 1
        BY <3>1, <3>3, FS_RemoveElement
      <4> QED BY <2>1, <4>1
    <3>5. T \ {x} \in X /\ T \ {x} \in SUBSET S /\ x \notin T \ {x} /\ x \in S
      BY <1>3, <3>4
    <3>6. (T \ {x}) \cup {x} \in X
      BY <3>5
    <3>7. (T \ {x}) \cup {x} = T
      OBVIOUS
    <3> QED BY <3>6, <3>7
  <2>2. k + 1 \in Nat
    BY <1>1
  <2> QED BY <2>1, <2>2
<1>4. m \in C
  <2> HIDE DEF C, m
  <2>1. \A n \in 0 .. m : n \in C
    BY <1>1, <1>2, <1>3, InductionUpTo
  <2> QED BY <1>1, <2>1
<1> QED BY <1>4

-----------------------------------------------------------------------------
(* Sums                                                                    *)

\* The sums of f over the subsets of S that have at most k elements
SumsUpTo(g, f, S, k) ==
  g = [s \in {r \in SUBSET S : Cardinality(r) <= k} |->
         IF s = {} THEN 0 ELSE LET x == CHOOSE x \in s : TRUE IN f[x] + g[s \ {x}]]

LEMMA SumsExist ==
  ASSUME NEW S, IsFiniteSet(S), NEW f, NEW k \in Nat
  PROVE  \E g : SumsUpTo(g, f, S, k)
<1> DEFINE Upto(n) == {r \in SUBSET S : Cardinality(r) <= n}
           X == {n \in Nat : \E g : SumsUpTo(g, f, S, n)}
<1>1. \A r \in SUBSET S : IsFiniteSet(r) /\ Cardinality(r) \in Nat
  BY FS_Subset, FS_CardinalityType
<1>2. 0 \in X
  <2> DEFINE g == [s \in Upto(0) |-> 0]
  <2>1. ASSUME NEW s \in Upto(0) PROVE s = {}
    <3>1. Cardinality(s) = 0
      BY <1>1
    <3> QED BY <1>1, <3>1, FS_EmptySet
  <2>2. SumsUpTo(g, f, S, 0)
    BY <2>1 DEF SumsUpTo
  <2> QED BY <2>2
<1>3. ASSUME NEW n \in Nat, n \in X PROVE n + 1 \in X
  <2>1. PICK g : SumsUpTo(g, f, S, n)
    BY <1>3
  <2> DEFINE pick(s) == CHOOSE x \in s : TRUE
             h == [s \in Upto(n + 1) |-> IF s = {} THEN 0 ELSE f[pick(s)] + g[s \ {pick(s)}]]
  <2>2. ASSUME NEW s \in Upto(n + 1), s # {} PROVE g[s \ {pick(s)}] = h[s \ {pick(s)}]
    <3> DEFINE r == s \ {pick(s)}
    <3>1. pick(s) \in s
      BY <2>2
    <3>2. Cardinality(r) = Cardinality(s) - 1
      BY <1>1, <3>1, FS_RemoveElement
    <3>3. Cardinality(s) \in Nat /\ Cardinality(s) <= n + 1
      BY <1>1
    <3>4. Cardinality(r) <= n /\ Cardinality(r) <= n + 1
      BY <3>2, <3>3
    <3>5. r \in Upto(n) /\ r \in Upto(n + 1)
      BY <3>4
    <3>6. g[r] = IF r = {} THEN 0 ELSE f[pick(r)] + g[r \ {pick(r)}]
      BY <2>1, <3>5 DEF SumsUpTo
    <3>7. h[r] = IF r = {} THEN 0 ELSE f[pick(r)] + g[r \ {pick(r)}]
      BY <3>5
    <3> QED BY <3>6, <3>7
  <2>3. h = [s \in Upto(n + 1) |-> IF s = {} THEN 0 ELSE f[pick(s)] + h[s \ {pick(s)}]]
    <3> DEFINE old(s) == IF s = {} THEN 0 ELSE f[pick(s)] + g[s \ {pick(s)}]
               new(s) == IF s = {} THEN 0 ELSE f[pick(s)] + h[s \ {pick(s)}]
    <3>2. h = [s \in Upto(n + 1) |-> old(s)]
      OBVIOUS
    <3> HIDE DEF h
    <3>1. ASSUME NEW s \in Upto(n + 1) PROVE old(s) = new(s)
      <4>1. CASE s = {}
        BY <4>1
      <4>2. CASE s # {}
        <5>1. g[s \ {pick(s)}] = h[s \ {pick(s)}]
          BY <2>2, <4>2
        <5> QED BY <4>2, <5>1
      <4> QED BY <4>1, <4>2
    <3> HIDE DEF old, new
    <3>3. h = [s \in Upto(n + 1) |-> new(s)]
      BY <3>1, <3>2
    <3> QED BY <3>3 DEF new
  <2> HIDE DEF h
  <2>4. SumsUpTo(h, f, S, n + 1)
    BY <2>3 DEF SumsUpTo
  <2> QED BY <2>4
<1> HIDE DEF X
<1>4. \A n \in 0 .. k : n \in X
  BY <1>2, <1>3, InductionUpTo
<1>5. k \in X
  BY <1>4
<1> QED BY <1>5 DEF X

\* The sums of f over the subsets of S
Sums(g, f, S) ==
  g = [s \in SUBSET S |->
         IF s = {} THEN 0 ELSE LET x == CHOOSE x \in s : TRUE IN f[x] + g[s \ {x}]]

\* The fold of Sum adds one value at a time
LEMMA SumIs ==
  ASSUME NEW S, IsFiniteSet(S), NEW f, DOMAIN f = S
  PROVE  \E g : Sums(g, f, S) /\ Sum(f) = g[S]
<1> DEFINE g == CHOOSE g : Sums(g, f, S)
<1>1. \E h : Sums(h, f, S)
  <2> DEFINE k == Cardinality(S)
  <2>1. k \in Nat
    BY FS_CardinalityType
  <2>2. PICK h : SumsUpTo(h, f, S, k)
    BY <2>1, SumsExist
  <2>3. {r \in SUBSET S : Cardinality(r) <= k} = SUBSET S
    BY FS_Subset
  <2>4. Sums(h, f, S)
    BY <2>2, <2>3 DEF Sums, SumsUpTo
  <2> QED BY <2>4
<1>2. Sums(g, f, S)
  BY <1>1
<1>3. Sum(f) = g[S]
  BY DEF Sum, FoldFunction, FoldFunctionOnSet, MapThenFoldSet, Sums
<1> QED BY <1>2, <1>3

LEMMA SumsStep ==
  ASSUME NEW S, NEW f, NEW g, Sums(g, f, S)
  PROVE  /\ g[{}] = 0
         /\ \A s \in SUBSET S : s # {} => LET x == CHOOSE x \in s : TRUE IN
              x \in s /\ g[s] = f[x] + g[s \ {x}]
<1>1. g[{}] = 0
  <2>1. {} \in SUBSET S
    OBVIOUS
  <2> QED BY <2>1 DEF Sums
<1>2. ASSUME NEW s \in SUBSET S, s # {}
      PROVE  LET x == CHOOSE x \in s : TRUE IN x \in s /\ g[s] = f[x] + g[s \ {x}]
  BY <1>2 DEF Sums
<1> QED BY <1>1, <1>2

\* Sums over the same sets are the same
LEMMA SumsAgree ==
  ASSUME NEW S, IsFiniteSet(S), NEW T \in SUBSET S, NEW f, NEW e, \A x \in T : f[x] = e[x],
         NEW g, Sums(g, f, S), NEW h, Sums(h, e, T)
  PROVE  g[T] = h[T]
<1> DEFINE X == {k \in Nat : \A s \in SUBSET T : Cardinality(s) = k => g[s] = h[s]}
           m == Cardinality(T)
<1>1. \A r \in SUBSET T : IsFiniteSet(r) /\ Cardinality(r) \in Nat
  BY FS_Subset, FS_CardinalityType
<1>2. 0 \in X
  <2>1. ASSUME NEW s \in SUBSET T, Cardinality(s) = 0 PROVE g[s] = h[s]
    <3>1. s = {}
      BY <1>1, <2>1, FS_EmptySet
    <3> QED BY <3>1, SumsStep
  <2> QED BY <2>1
<1>3. ASSUME NEW k \in Nat, k \in X PROVE k + 1 \in X
  <2>1. ASSUME NEW s \in SUBSET T, Cardinality(s) = k + 1 PROVE g[s] = h[s]
    <3> DEFINE x == CHOOSE x \in s : TRUE
    <3>1. s # {}
      <4>1. k + 1 # 0
        OBVIOUS
      <4> QED BY <2>1, <4>1, FS_EmptySet
    <3>2. x \in s /\ g[s] = f[x] + g[s \ {x}]
      BY <3>1, SumsStep
    <3>3. h[s] = e[x] + h[s \ {x}]
      BY <3>1, SumsStep
    <3> HIDE DEF x
    <3>4. Cardinality(s \ {x}) = Cardinality(s) - 1
      BY <1>1, <3>2, FS_RemoveElement
    <3>5. Cardinality(s \ {x}) = k
      BY <2>1, <3>4
    <3>6. g[s \ {x}] = h[s \ {x}]
      BY <1>3, <3>5
    <3>7. f[x] = e[x]
      BY <3>2
    <3> QED BY <3>2, <3>3, <3>6, <3>7
  <2>2. k + 1 \in Nat
    OBVIOUS
  <2> QED BY <2>1, <2>2
<1>4. m \in Nat
  BY <1>1
<1>5. m \in X
  <2> HIDE DEF X, m
  <2>1. \A n \in 0 .. m : n \in X
    BY <1>2, <1>3, <1>4, InductionUpTo
  <2> QED BY <1>4, <2>1
<1> QED BY <1>5

\* Any element may be taken out first
LEMMA SumsRemove ==
  ASSUME NEW S, IsFiniteSet(S), NEW f, \A x \in S : f[x] \in Int, NEW g, Sums(g, f, S)
  PROVE  \A T \in SUBSET S : g[T] \in Int /\ \A x \in T : g[T] = f[x] + g[T \ {x}]
<1> DEFINE P(T) == g[T] \in Int /\ \A x \in T : g[T] = f[x] + g[T \ {x}]
           X == {k \in Nat : \A s \in SUBSET S : Cardinality(s) <= k => P(s)}
           m == Cardinality(S)
<1>1. \A r \in SUBSET S : IsFiniteSet(r) /\ Cardinality(r) \in Nat
  BY FS_Subset, FS_CardinalityType
<1>2. 0 \in X
  <2>1. ASSUME NEW s \in SUBSET S, Cardinality(s) <= 0 PROVE P(s)
    <3>0. Cardinality(s) = 0
      BY <1>1, <2>1
    <3>1. s = {}
      BY <1>1, <3>0, FS_EmptySet
    <3>2. g[{}] = 0
      BY SumsStep
    <3> QED BY <3>1, <3>2
  <2> QED BY <2>1
<1>3. ASSUME NEW k \in Nat, k \in X PROVE k + 1 \in X
  <2>1. ASSUME NEW s \in SUBSET S, Cardinality(s) <= k + 1 PROVE P(s)
    <3>1. CASE s = {}
      <4>1. g[{}] = 0
        BY SumsStep
      <4> QED BY <3>1, <4>1
    <3>2. CASE s # {}
      <4> DEFINE c == CHOOSE c \in s : TRUE
      <4>1. c \in s /\ g[s] = f[c] + g[s \ {c}]
        BY <3>2, SumsStep
      <4> HIDE DEF c
      <4>2. ASSUME NEW x \in s PROVE Cardinality(s \ {x}) <= k /\ s \ {x} \in SUBSET S
        <5>1. Cardinality(s \ {x}) = Cardinality(s) - 1 /\ Cardinality(s) \in Nat
          BY <1>1, FS_RemoveElement
        <5> QED BY <2>1, <5>1
      <4>3. ASSUME NEW x \in s PROVE P(s \ {x})
        <5>1. \A r \in SUBSET S : Cardinality(r) <= k => P(r)
          BY <1>3
        <5>2. s \ {x} \in SUBSET S /\ Cardinality(s \ {x}) <= k
          BY <4>2
        <5> HIDE DEF P
        <5> QED BY <5>1, <5>2
      <4>4. g[s] \in Int
        <5>1. f[c] \in Int /\ g[s \ {c}] \in Int
          BY <4>1, <4>3
        <5> HIDE DEF P, X, m
        <5> QED BY <4>1, <5>1
      <4>5. ASSUME NEW x \in s PROVE g[s] = f[x] + g[s \ {x}]
        <5>1. CASE x = c
          BY <4>1, <5>1
        <5>2. CASE x # c
          <6>1. x \in s \ {c} /\ c \in s \ {x}
            BY <4>1, <5>2
          <6>2. g[s \ {c}] = f[x] + g[(s \ {c}) \ {x}]
            BY <4>1, <4>3, <6>1
          <6>3. g[s \ {x}] = f[c] + g[(s \ {x}) \ {c}]
            BY <4>3, <6>1
          <6>4. (s \ {x}) \ {c} = (s \ {c}) \ {x}
            OBVIOUS
          <6> DEFINE rest == g[(s \ {c}) \ {x}]
          <6>5. rest \in Int /\ f[x] \in Int /\ f[c] \in Int
            <7>1. P((s \ {c}) \ {x})
              <8>1. Cardinality((s \ {c}) \ {x}) <= k
                <9>1. /\ IsFiniteSet(s \ {c}) /\ Cardinality(s \ {c}) <= k
                      /\ Cardinality(s \ {c}) \in Nat
                  BY <1>1, <4>1, <4>2
                <9>2. Cardinality((s \ {c}) \ {x}) = Cardinality(s \ {c}) - 1
                  BY <6>1, <9>1, FS_RemoveElement
                <9> QED BY <9>1, <9>2
              <8> QED BY <1>3, <8>1
            <7> QED BY <4>1, <7>1
          <6> HIDE DEF rest
          <6>6. g[s] = f[c] + (f[x] + rest) /\ g[s \ {x}] = f[c] + rest
            BY <4>1, <6>2, <6>3, <6>4 DEF rest
          <6> QED BY <6>5, <6>6
        <5> QED BY <5>1, <5>2
      <4> QED BY <4>4, <4>5
    <3> QED BY <3>1, <3>2
  <2>2. k + 1 \in Nat
    OBVIOUS
  <2> HIDE DEF P
  <2> QED BY <2>1, <2>2
<1>4. m \in Nat
  BY <1>1
<1>5. m \in X
  <2> HIDE DEF X, m
  <2>1. \A n \in 0 .. m : n \in X
    BY <1>2, <1>3, <1>4, InductionUpTo
  <2> QED BY <1>4, <2>1
<1>6. \A s \in SUBSET S : Cardinality(s) <= m
  BY FS_Subset
<1>7. \A s \in SUBSET S : P(s)
  <2> HIDE DEF P, m
  <2> QED BY <1>5, <1>6
<1> QED BY <1>7

\* What a proof needs of Sum: one element taken out
LEMMA SumRemove ==
  ASSUME NEW S, IsFiniteSet(S), NEW f, DOMAIN f = S, \A x \in S : f[x] \in Int
  PROVE  /\ Sum(f) \in Int /\ (S = {} => Sum(f) = 0)
         /\ \A x \in S : Sum(f) = f[x] + Sum([y \in S \ {x} |-> f[y]])
<1>1. PICK g : Sums(g, f, S) /\ Sum(f) = g[S]
  BY SumIs
<1>2. S \in SUBSET S
  OBVIOUS
<1>3. Sum(f) \in Int /\ \A x \in S : Sum(f) = f[x] + g[S \ {x}]
  BY <1>1, <1>2, SumsRemove
<1>4. S = {} => Sum(f) = 0
  BY <1>1, SumsStep
<1>5. ASSUME NEW x \in S PROVE g[S \ {x}] = Sum([y \in S \ {x} |-> f[y]])
  <2> DEFINE T == S \ {x}
             e == [y \in T |-> f[y]]
  <2>1. IsFiniteSet(T) /\ DOMAIN e = T /\ T \in SUBSET S
    BY FS_RemoveElement
  <2>2. \A y \in T : f[y] = e[y]
    OBVIOUS
  <2> HIDE DEF e, T
  <2>3. PICK h : Sums(h, e, T) /\ Sum(e) = h[T]
    BY <2>1, SumIs
  <2>4. g[T] = h[T]
    BY <1>1, <2>1, <2>2, <2>3, SumsAgree
  <2> QED BY <2>3, <2>4 DEF e, T
<1> QED BY <1>3, <1>4, <1>5

\* Nothing sums to zero
LEMMA SumEmpty == ASSUME NEW f, DOMAIN f = {} PROVE Sum(f) = 0
<1>1. IsFiniteSet({}) /\ \A x \in {} : f[x] \in Int
  BY FS_EmptySet
<1> QED BY <1>1, SumRemove

\* The sum of f over S
SumOn(f, S) == Sum([x \in S |-> f[x]])
IntOn(f, S) == \A x \in S : f[x] \in Int

\* Sum of a function is its sum on its domain
LEMMA SumIsOn ==
  ASSUME NEW S, NEW f, f = [x \in S |-> f[x]]
  PROVE  Sum(f) = SumOn(f, S)
BY DEF SumOn

\* Functions that agree have the same sum
LEMMA SumOnSame ==
  ASSUME NEW S, NEW f, NEW g, \A x \in S : f[x] = g[x]
  PROVE  SumOn(f, S) = SumOn(g, S)
<1>1. [x \in S |-> f[x]] = [x \in S |-> g[x]]
  OBVIOUS
<1> QED BY <1>1 DEF SumOn

LEMMA SumOnEmpty == \A f : SumOn(f, {}) = 0
<1> TAKE f
<1> DEFINE e == [x \in {} |-> f[x]]
<1>1. DOMAIN e = {}
  OBVIOUS
<1> HIDE DEF e
<1>2. Sum(e) = 0
  BY <1>1, SumEmpty
<1> QED BY <1>2 DEF SumOn, e

\* One more element, one more value
LEMMA SumOnAdd ==
  ASSUME NEW T, IsFiniteSet(T), NEW x, x \notin T, NEW f, IntOn(f, T \cup {x})
  PROVE  SumOn(f, T \cup {x}) = f[x] + SumOn(f, T)
<1> DEFINE S == T \cup {x}
           e == [y \in S |-> f[y]]
<1>1. IsFiniteSet(S) /\ x \in S /\ S \ {x} = T
  BY FS_AddElement
<1>2. DOMAIN e = S /\ \A y \in S : e[y] = f[y] /\ e[y] \in Int
  BY DEF IntOn
<1>3. [y \in T |-> e[y]] = [y \in T |-> f[y]]
  BY <1>1
<1> HIDE DEF e, S
<1>4. Sum(e) = e[x] + Sum([y \in S \ {x} |-> e[y]])
  BY <1>1, <1>2, SumRemove
<1>5. Sum(e) = f[x] + Sum([y \in T |-> f[y]])
  BY <1>1, <1>2, <1>3, <1>4
<1> QED BY <1>5 DEF e, S, SumOn

LEMMA SumOnRemove ==
  ASSUME NEW S, IsFiniteSet(S), NEW x \in S, NEW f, IntOn(f, S)
  PROVE  SumOn(f, S) = f[x] + SumOn(f, S \ {x})
<1> DEFINE T == S \ {x}
<1>1. IsFiniteSet(T) /\ x \notin T /\ T \cup {x} = S
  BY FS_RemoveElement
<1> HIDE DEF T
<1>2. SumOn(f, T \cup {x}) = f[x] + SumOn(f, T)
  BY <1>1, SumOnAdd
<1> QED BY <1>1, <1>2 DEF T

LEMMA SumOnInt ==
  ASSUME NEW S, IsFiniteSet(S), NEW f, IntOn(f, S)
  PROVE  SumOn(f, S) \in Int
<1> DEFINE e == [x \in S |-> f[x]]
<1>1. DOMAIN e = S /\ \A x \in S : e[x] \in Int
  BY DEF IntOn
<1> HIDE DEF e
<1>2. Sum(e) \in Int
  BY <1>1, SumRemove
<1> QED BY <1>2 DEF e, SumOn

LEMMA SumOnNat ==
  ASSUME NEW S, IsFiniteSet(S), NEW f, \A x \in S : f[x] \in Nat
  PROVE  SumOn(f, S) \in Nat
<1> DEFINE X == {T \in SUBSET S : SumOn(f, T) \in Nat}
<1>1. {} \in X
  BY SumOnEmpty
<1>2. ASSUME NEW T \in SUBSET S, NEW x \in S, T \in X, x \notin T PROVE T \cup {x} \in X
  <2>1. IsFiniteSet(T) /\ IntOn(f, T \cup {x})
    BY FS_Subset DEF IntOn
  <2>2. SumOn(f, T \cup {x}) = f[x] + SumOn(f, T)
    BY <1>2, <2>1, SumOnAdd
  <2> QED BY <1>2, <2>2
<1> HIDE DEF X
<1>3. S \in X
  BY <1>1, <1>2, SetInduction
<1> QED BY <1>3 DEF X

\* Sums of sums, point by point
LEMMA SumOnPlus ==
  ASSUME NEW S, IsFiniteSet(S), NEW f, IntOn(f, S), NEW g, IntOn(g, S),
         NEW h, \A x \in S : h[x] = f[x] + g[x]
  PROVE  SumOn(h, S) = SumOn(f, S) + SumOn(g, S)
<1> DEFINE X == {T \in SUBSET S : SumOn(h, T) = SumOn(f, T) + SumOn(g, T)}
<1>1. {} \in X
  BY SumOnEmpty
<1>2. ASSUME NEW T \in SUBSET S, NEW x \in S, T \in X, x \notin T PROVE T \cup {x} \in X
  <2>1. IsFiniteSet(T) /\ T \cup {x} \in SUBSET S /\ x \notin T
    BY <1>2, FS_Subset
  <2>2. IntOn(f, T \cup {x}) /\ IntOn(g, T \cup {x}) /\ IntOn(h, T \cup {x})
    BY DEF IntOn
  <2>3. IntOn(f, T) /\ IntOn(g, T)
    BY DEF IntOn
  <2>4. SumOn(f, T \cup {x}) = f[x] + SumOn(f, T)
    BY <2>1, <2>2, SumOnAdd
  <2>5. SumOn(g, T \cup {x}) = g[x] + SumOn(g, T)
    BY <2>1, <2>2, SumOnAdd
  <2>6. SumOn(h, T \cup {x}) = h[x] + SumOn(h, T)
    BY <2>1, <2>2, SumOnAdd
  <2>7. SumOn(f, T) \in Int /\ SumOn(g, T) \in Int
    BY <2>1, <2>3, SumOnInt
  <2>8. f[x] \in Int /\ g[x] \in Int /\ h[x] = f[x] + g[x]
    BY DEF IntOn
  <2>9. SumOn(h, T) = SumOn(f, T) + SumOn(g, T)
    BY <1>2
  <2> QED BY <2>1, <2>4, <2>5, <2>6, <2>7, <2>8, <2>9
<1> HIDE DEF X
<1>3. S \in X
  BY <1>1, <1>2, SetInduction
<1> QED BY <1>3 DEF X

\* A larger summand
LEMMA SumOnLeq ==
  ASSUME NEW S, IsFiniteSet(S), NEW f, IntOn(f, S), NEW g, IntOn(g, S),
         \A x \in S : f[x] <= g[x]
  PROVE  SumOn(f, S) <= SumOn(g, S)
<1> DEFINE X == {T \in SUBSET S : SumOn(f, T) <= SumOn(g, T)}
<1>1. {} \in X
  BY SumOnEmpty
<1>2. ASSUME NEW T \in SUBSET S, NEW x \in S, T \in X, x \notin T PROVE T \cup {x} \in X
  <2>1. IsFiniteSet(T) /\ T \cup {x} \in SUBSET S /\ x \notin T
    BY <1>2, FS_Subset
  <2>2. IntOn(f, T \cup {x}) /\ IntOn(g, T \cup {x})
    BY DEF IntOn
  <2>3. IntOn(f, T) /\ IntOn(g, T)
    BY DEF IntOn
  <2>4. SumOn(f, T \cup {x}) = f[x] + SumOn(f, T)
    BY <2>1, <2>2, SumOnAdd
  <2>5. SumOn(g, T \cup {x}) = g[x] + SumOn(g, T)
    BY <2>1, <2>2, SumOnAdd
  <2>7. SumOn(f, T) \in Int /\ SumOn(g, T) \in Int
    BY <2>1, <2>3, SumOnInt
  <2>8. f[x] \in Int /\ g[x] \in Int /\ f[x] <= g[x]
    BY DEF IntOn
  <2>9. SumOn(f, T) <= SumOn(g, T)
    BY <1>2
  <2> QED BY <2>1, <2>4, <2>5, <2>7, <2>8, <2>9
<1> HIDE DEF X
<1>3. S \in X
  BY <1>1, <1>2, SetInduction
<1> QED BY <1>3 DEF X

\* Sums over two sets without a common element
LEMMA SumOnUnion ==
  ASSUME NEW S, IsFiniteSet(S), NEW R, IsFiniteSet(R), S \cap R = {},
         NEW f, IntOn(f, S \cup R)
  PROVE  SumOn(f, S \cup R) = SumOn(f, S) + SumOn(f, R)
<1> DEFINE X == {T \in SUBSET S : SumOn(f, T \cup R) = SumOn(f, T) + SumOn(f, R)}
<1>0. SumOn(f, R) \in Int
  <2>1. IntOn(f, R)
    BY DEF IntOn
  <2> QED BY <2>1, SumOnInt
<1>1. {} \in X
  <2>1. {} \cup R = R /\ SumOn(f, {}) = 0
    BY SumOnEmpty
  <2> QED BY <1>0, <2>1
<1>2. ASSUME NEW T \in SUBSET S, NEW x \in S, T \in X, x \notin T PROVE T \cup {x} \in X
  <2>1. IsFiniteSet(T) /\ T \cup {x} \in SUBSET S /\ x \notin T
    BY <1>2, FS_Subset
  <2>2. IsFiniteSet(T \cup R) /\ x \notin T \cup R /\ (T \cup R) \cup {x} = (T \cup {x}) \cup R
    BY <2>1, FS_Union
  <2>3. IntOn(f, T \cup {x}) /\ IntOn(f, (T \cup R) \cup {x}) /\ IntOn(f, T)
    BY DEF IntOn
  <2>4. SumOn(f, T \cup {x}) = f[x] + SumOn(f, T)
    BY <2>1, <2>3, SumOnAdd
  <2>5. SumOn(f, (T \cup R) \cup {x}) = f[x] + SumOn(f, T \cup R)
    BY <2>2, <2>3, SumOnAdd
  <2>7. SumOn(f, T) \in Int
    BY <2>1, <2>3, SumOnInt
  <2>8. f[x] \in Int
    BY DEF IntOn
  <2>9. SumOn(f, T \cup R) = SumOn(f, T) + SumOn(f, R)
    BY <1>2
  <2> DEFINE a == SumOn(f, T)
             b == SumOn(f, R)
  <2>10. SumOn(f, (T \cup {x}) \cup R) = f[x] + (a + b)
    BY <2>2, <2>5, <2>9
  <2> HIDE DEF a, b
  <2>11. f[x] + (a + b) = (f[x] + a) + b
    BY <1>0, <2>7, <2>8 DEF a, b
  <2>12. SumOn(f, (T \cup {x}) \cup R) = SumOn(f, T \cup {x}) + SumOn(f, R)
    BY <2>4, <2>10, <2>11 DEF a, b
  <2> QED BY <2>1, <2>12
<1> HIDE DEF X
<1>3. S \in X
  BY <1>1, <1>2, SetInduction
<1> QED BY <1>3 DEF X

\* One summand changed
LEMMA SumOnChange ==
  ASSUME NEW S, IsFiniteSet(S), NEW f, IntOn(f, S), NEW h, NEW x \in S, NEW d \in Int,
         h[x] = f[x] + d, \A y \in S : y # x => h[y] = f[y]
  PROVE  SumOn(h, S) = SumOn(f, S) + d
<1> DEFINE T == S \ {x}
<1>1. IsFiniteSet(T) /\ IntOn(f, T) /\ f[x] \in Int
  BY FS_RemoveElement DEF IntOn
<1>2. IntOn(h, S)
  BY DEF IntOn
<1>3. \A y \in T : h[y] = f[y]
  OBVIOUS
<1>4. SumOn(h, S) = h[x] + SumOn(h, T)
  BY <1>2, SumOnRemove
<1>5. SumOn(f, S) = f[x] + SumOn(f, T)
  BY SumOnRemove
<1> HIDE DEF T
<1>6. SumOn(h, T) = SumOn(f, T)
  BY <1>3, SumOnSame
<1>7. SumOn(f, T) \in Int
  BY <1>1, SumOnInt
<1> QED BY <1>1, <1>4, <1>5, <1>6, <1>7

\* Zeros sum to zero
LEMMA SumOnZero ==
  ASSUME NEW S, IsFiniteSet(S), NEW f, \A x \in S : f[x] = 0
  PROVE  SumOn(f, S) = 0
<1> DEFINE X == {T \in SUBSET S : SumOn(f, T) = 0}
<1>1. {} \in X
  BY SumOnEmpty
<1>2. ASSUME NEW T \in SUBSET S, NEW x \in S, T \in X, x \notin T PROVE T \cup {x} \in X
  <2>1. IsFiniteSet(T) /\ IntOn(f, T \cup {x})
    BY FS_Subset DEF IntOn
  <2>2. SumOn(f, T \cup {x}) = f[x] + SumOn(f, T)
    BY <1>2, <2>1, SumOnAdd
  <2> QED BY <1>2, <2>2
<1> HIDE DEF X
<1>3. S \in X
  BY <1>1, <1>2, SetInduction
<1> QED BY <1>3 DEF X

\* Summands that are zero may be left out
LEMMA SumOnPart ==
  ASSUME NEW S, IsFiniteSet(S), NEW T \in SUBSET S, NEW f, IntOn(f, T),
         \A x \in S \ T : f[x] = 0
  PROVE  SumOn(f, S) = SumOn(f, T)
<1> DEFINE R == S \ T
<1>1. IsFiniteSet(T) /\ IsFiniteSet(R) /\ T \cap R = {} /\ T \cup R = S
  BY FS_Subset
<1>2. IntOn(f, T \cup R)
  BY <1>1 DEF IntOn
<1>3. \A x \in R : f[x] = 0
  OBVIOUS
<1> HIDE DEF R
<1>4. SumOn(f, T \cup R) = SumOn(f, T) + SumOn(f, R)
  BY <1>1, <1>2, SumOnUnion
<1>5. SumOn(f, R) = 0
  BY <1>1, <1>3, SumOnZero
<1>6. SumOn(f, T) \in Int
  BY <1>1, SumOnInt
<1>7. T \cup R = S
  BY <1>1
<1>8. SumOn(f, S) = SumOn(f, T) + SumOn(f, R)
  BY <1>4, <1>7
<1> QED BY <1>5, <1>6, <1>8

\* One summand is at most the sum of natural numbers
LEMMA SumOnOne ==
  ASSUME NEW S, IsFiniteSet(S), NEW x \in S, NEW f, \A y \in S : f[y] \in Nat
  PROVE  f[x] <= SumOn(f, S) /\ SumOn(f, S) \in Nat
<1>1. IsFiniteSet(S \ {x}) /\ IntOn(f, S) /\ \A y \in S \ {x} : f[y] \in Nat
  BY FS_RemoveElement DEF IntOn
<1>2. SumOn(f, S) = f[x] + SumOn(f, S \ {x})
  BY <1>1, SumOnRemove
<1>3. SumOn(f, S \ {x}) \in Nat
  BY <1>1, SumOnNat
<1> QED BY <1>2, <1>3

\* The sum does not depend on how the summands are numbered
LEMMA SumOnRenamed ==
  ASSUME NEW S, IsFiniteSet(S), NEW g, \A x \in S, y \in S : g[x] = g[y] => x = y,
         NEW f, NEW e, \A x \in S : f[x] = e[g[x]], IntOn(f, S)
  PROVE  SumOn(f, S) = SumOn(e, {g[x] : x \in S})
<1> DEFINE R(T) == {g[x] : x \in T}
           X == {T \in SUBSET S : SumOn(f, T) = SumOn(e, R(T))}
<1>1. {} \in X
  <2>1. R({}) = {}
    OBVIOUS
  <2> HIDE DEF R
  <2>2. SumOn(f, {}) = 0 /\ SumOn(e, {}) = 0
    BY SumOnEmpty
  <2> QED BY <2>1, <2>2
<1>2. ASSUME NEW T \in SUBSET S, NEW x \in S, T \in X, x \notin T PROVE T \cup {x} \in X
  <2>1. IsFiniteSet(T) /\ x \notin T /\ T \cup {x} \in SUBSET S /\ IntOn(f, T \cup {x})
    BY <1>2, FS_Subset DEF IntOn
  <2>2. R(T \cup {x}) = R(T) \cup {g[x]}
    OBVIOUS
  <2>3. g[x] \notin R(T)
    BY <1>2
  <2>4. IntOn(e, R(T) \cup {g[x]})
    BY DEF IntOn
  <2>5. IsFiniteSet(R(T))
    <3> DEFINE h == [y \in T |-> g[y]]
    <3>1. h \in Surjection(T, R(T))
      BY DEF Surjection
    <3> HIDE DEF h, R
    <3> QED BY <2>1, <3>1, FS_Surjection
  <2>6. SumOn(f, T) = SumOn(e, R(T))
    BY <1>2
  <2> HIDE DEF R
  <2>7. SumOn(f, T \cup {x}) = f[x] + SumOn(f, T)
    BY <2>1, SumOnAdd
  <2>8. SumOn(e, R(T) \cup {g[x]}) = e[g[x]] + SumOn(e, R(T))
    BY <2>3, <2>4, <2>5, SumOnAdd
  <2>9. f[x] = e[g[x]]
    OBVIOUS
  <2>10. SumOn(f, T \cup {x}) = SumOn(e, R(T \cup {x}))
    BY <2>2, <2>6, <2>7, <2>8, <2>9
  <2> QED BY <2>1, <2>10
<1> HIDE DEF X
<1>3. S \in X
  BY <1>1, <1>2, SetInduction
<1> QED BY <1>3 DEF X

\* Elements with value b
Valued(val, S, b) == {x \in S : val[x] = b}

\* A sum over elements, collected by their values
LEMMA SumByValue ==
  ASSUME NEW S, IsFiniteSet(S), NEW B, IsFiniteSet(B), NEW val, \A x \in S : val[x] \in B,
         NEW w, IntOn(w, B),
         NEW f, \A x \in S : f[x] = w[val[x]],
         NEW c, \A b \in B : c[b] = Cardinality(Valued(val, S, b)) * w[b]
  PROVE  SumOn(f, S) = SumOn(c, B)
<1> DEFINE k(T, b) == Cardinality(Valued(val, T, b))
           by(T) == [b \in B |-> k(T, b) * w[b]]
           X == {T \in SUBSET S : SumOn(f, T) = SumOn(by(T), B)}
<1>1. {} \in X
  <2>1. \A b \in B : by({})[b] = 0
    <3> TAKE b \in B
    <3>1. k({}, b) = 0
      <4>1. Valued(val, {}, b) = {}
        BY DEF Valued
      <4> QED BY <4>1, FS_EmptySet
    <3>2. by({})[b] = k({}, b) * w[b] /\ w[b] \in Int
      BY DEF IntOn
    <3> HIDE DEF k, by
    <3> QED BY <3>1, <3>2
  <2> HIDE DEF by
  <2>2. SumOn(by({}), B) = 0
    BY <2>1, SumOnZero
  <2>3. SumOn(f, {}) = 0
    BY SumOnEmpty
  <2> QED BY <2>2, <2>3
<1>2. ASSUME NEW T \in SUBSET S, NEW x \in S, T \in X, x \notin T PROVE T \cup {x} \in X
  <2>1. IsFiniteSet(T) /\ x \notin T /\ T \cup {x} \in SUBSET S /\ IntOn(f, T \cup {x})
    BY <1>2, FS_Subset DEF IntOn
  <2>2. f[x] = w[val[x]] /\ val[x] \in B /\ w[val[x]] \in Int
    BY DEF IntOn
  <2>3. \A b \in B : k(T, b) \in Nat
    <3> TAKE b \in B
    <3>1. IsFiniteSet(Valued(val, T, b))
      <4>1. Valued(val, T, b) \in SUBSET T
        BY DEF Valued
      <4> QED BY <2>1, <4>1, FS_Subset
    <3> QED BY <3>1, FS_CardinalityType
  <2>4. ASSUME NEW b \in B, b # val[x] PROVE k(T \cup {x}, b) = k(T, b)
    <3>1. Valued(val, T \cup {x}, b) = Valued(val, T, b)
      BY <2>4 DEF Valued
    <3> QED BY <3>1
  <2>5. k(T \cup {x}, val[x]) = k(T, val[x]) + 1
    <3>1. Valued(val, T \cup {x}, val[x]) = Valued(val, T, val[x]) \cup {x}
      BY DEF Valued
    <3>2. x \notin Valued(val, T, val[x]) /\ Valued(val, T, val[x]) \in SUBSET T
      BY <2>1 DEF Valued
    <3>3. IsFiniteSet(Valued(val, T, val[x]))
      BY <2>1, <3>2, FS_Subset
    <3> QED BY <3>1, <3>2, <3>3, FS_AddElement
  <2> HIDE DEF k
  <2>6. by(T \cup {x})[val[x]] = by(T)[val[x]] + w[val[x]]
    <3>1. by(T \cup {x})[val[x]] = k(T \cup {x}, val[x]) * w[val[x]]
      BY <2>2
    <3>2. by(T)[val[x]] = k(T, val[x]) * w[val[x]] /\ k(T, val[x]) \in Nat
      BY <2>2, <2>3
    <3> HIDE DEF by
    <3>3. (k(T, val[x]) + 1) * w[val[x]] = k(T, val[x]) * w[val[x]] + w[val[x]]
      BY <2>2, <3>2
    <3> QED BY <2>5, <3>1, <3>2, <3>3
  <2>7. \A b \in B : b # val[x] => by(T \cup {x})[b] = by(T)[b]
    BY <2>4
  <2>8. IntOn(by(T), B)
    BY <2>3 DEF IntOn
  <2>9. SumOn(f, T) = SumOn(by(T), B)
    BY <1>2
  <2> HIDE DEF by
  <2>10. SumOn(by(T \cup {x}), B) = SumOn(by(T), B) + w[val[x]]
    <3> DEFINE new == by(T \cup {x})
               old == by(T)
               v == val[x]
               d == w[val[x]]
    <3>1. v \in B /\ d \in Int /\ IntOn(old, B) /\ new[v] = old[v] + d
      BY <2>2, <2>6, <2>8
    <3>2. \A b \in B : b # v => new[b] = old[b]
      BY <2>7
    <3> HIDE DEF new, old, v, d
    <3>3. SumOn(new, B) = SumOn(old, B) + d
      BY <3>1, <3>2, SumOnChange
    <3> QED BY <3>3 DEF new, old, d
  <2>11. SumOn(f, T \cup {x}) = f[x] + SumOn(f, T)
    BY <2>1, SumOnAdd
  <2>12. SumOn(by(T), B) \in Int
    BY <2>8, SumOnInt
  <2>13. SumOn(f, T \cup {x}) = SumOn(by(T \cup {x}), B)
    BY <2>2, <2>9, <2>10, <2>11, <2>12
  <2> QED BY <2>1, <2>13
<1> HIDE DEF X
<1>3. S \in X
  BY <1>1, <1>2, SetInduction
<1>4. SumOn(f, S) = SumOn(by(S), B)
  BY <1>3 DEF X
<1>5. \A b \in B : by(S)[b] = c[b]
  OBVIOUS
<1> HIDE DEF by
<1>6. SumOn(by(S), B) = SumOn(c, B)
  BY <1>5, SumOnSame
<1> QED BY <1>4, <1>6

-----------------------------------------------------------------------------
(* Loops: f[i] is what n turns make of b                                   *)

StepsIn(G, X, n) == \A x \in X, i \in 1 .. n : G[<<x, i>>] \in X
\* G[<<b, i>>] is what a loop f makes of b in i turns
Loop(f, X, b, n, G) ==
  f \in [0 .. n -> X] /\ f[0] = b /\ \A i \in 1 .. n : f[i] = G[<<f[i - 1], i>>]

\* A loop of n turns has its n + 1 values
LEMMA LoopExists ==
  ASSUME NEW X, NEW b, b \in X, NEW n \in Nat, NEW G, StepsIn(G, X, n)
  PROVE  \E f : Loop(f, X, b, n, G)
<1> DEFINE P(f, k) == f[0] = b /\ \A i \in 1 .. k : f[i] = G[<<f[i - 1], i>>]
           K == {k \in Nat : \E f \in [0 .. k -> X] : P(f, k)}
<1>1. 0 \in K
  <2>1. [i \in 0 .. 0 |-> b] \in [0 .. 0 -> X] /\ P([i \in 0 .. 0 |-> b], 0)
    OBVIOUS
  <2> QED BY <2>1
<1>2. ASSUME NEW k \in 0 .. n - 1, k \in K PROVE k + 1 \in K
  <2>1. PICK f \in [0 .. k -> X] : P(f, k)
    BY <1>2
  <2> DEFINE g == [i \in 0 .. k + 1 |-> IF i = k + 1 THEN G[<<f[k], k + 1>>] ELSE f[i]]
  <2>2. k \in Nat /\ k + 1 \in 1 .. n /\ k \in 0 .. k
    OBVIOUS
  <2>3. G[<<f[k], k + 1>>] \in X
    BY <2>2 DEF StepsIn
  <2>4. g \in [0 .. k + 1 -> X]
    BY <2>2, <2>3
  <2>5. g[0] = b
    BY <2>1, <2>2
  <2>6. ASSUME NEW i \in 1 .. k + 1 PROVE g[i] = G[<<g[i - 1], i>>]
    <3>1. CASE i = k + 1
      <4>1. i - 1 = k /\ k \in 0 .. k + 1 /\ k # k + 1
        BY <2>2, <3>1
      <4>2. g[i - 1] = f[k] /\ g[i] = G[<<f[k], i>>]
        BY <3>1, <4>1
      <4> HIDE DEF g
      <4> QED BY <4>2
    <3>2. CASE i # k + 1
      <4>1. i \in 1 .. k /\ i \in 0 .. k + 1 /\ i - 1 \in 0 .. k + 1 /\ i - 1 # k + 1
        BY <2>2, <3>2
      <4>2. g[i] = f[i] /\ g[i - 1] = f[i - 1]
        BY <3>2, <4>1
      <4> QED BY <2>1, <4>1, <4>2
    <3> QED BY <3>1, <3>2
  <2> HIDE DEF g
  <2>7. P(g, k + 1)
    BY <2>5, <2>6
  <2> HIDE DEF P
  <2>8. \E e \in [0 .. k + 1 -> X] : P(e, k + 1)
    BY <2>4, <2>7
  <2> QED BY <2>2, <2>8
<1> HIDE DEF K
<1>3. \A k \in 0 .. n : k \in K
  BY <1>1, <1>2, InductionUpTo
<1>4. n \in K
  BY <1>3
<1> QED BY <1>4 DEF K, Loop

\* A function that takes the turns is the loop
LEMMA LoopIs ==
  ASSUME NEW X, NEW b, b \in X, NEW n \in Nat, NEW G, StepsIn(G, X, n),
         NEW f, DOMAIN f = 0 .. n, f = [i \in DOMAIN f |-> f[i]], f[0] = b,
         \A i \in 1 .. n : f[i - 1] \in X => f[i] = G[<<f[i - 1], i>>]
  PROVE  Loop(f, X, b, n, G)
<1> DEFINE K == {k \in Nat : k <= n => f[k] \in X}
<1>1. 0 \in K
  OBVIOUS
<1>2. ASSUME NEW k \in 0 .. n - 1, k \in K PROVE k + 1 \in K
  <2>1. k + 1 \in 1 .. n /\ (k + 1) - 1 = k /\ k \in Nat /\ k + 1 \in Nat /\ k <= n
    OBVIOUS
  <2>2. f[k] \in X
    BY <1>2, <2>1
  <2>3. f[k + 1] = G[<<f[k], k + 1>>]
    BY <2>1, <2>2
  <2> QED BY <2>1, <2>2, <2>3 DEF StepsIn
<1> HIDE DEF K
<1>3. \A k \in 0 .. n : k \in K
  BY <1>1, <1>2, InductionUpTo
<1>4. \A k \in 0 .. n : f[k] \in X
  BY <1>3 DEF K
<1>5. \A i \in 1 .. n : f[i - 1] \in X
  BY <1>4
<1>6. f \in [0 .. n -> X]
  BY <1>4
<1> QED BY <1>5, <1>6 DEF Loop

\* An interval grows at its end
LEMMA IntervalAdd ==
  ASSUME NEW m \in Int, NEW n \in Int, m <= n + 1, NEW f, IntOn(f, m .. n + 1)
  PROVE  SumOn(f, m .. n + 1) = SumOn(f, m .. n) + f[n + 1]
<1>1. m .. n + 1 = (m .. n) \cup {n + 1} /\ n + 1 \notin m .. n /\ n + 1 \in m .. n + 1
  OBVIOUS
<1>2. IsFiniteSet(m .. n)
  BY FS_Interval
<1>3. IntOn(f, (m .. n) \cup {n + 1}) /\ IntOn(f, m .. n) /\ f[n + 1] \in Int
  BY <1>1 DEF IntOn
<1>4. SumOn(f, (m .. n) \cup {n + 1}) = f[n + 1] + SumOn(f, m .. n)
  BY <1>1, <1>2, <1>3, SumOnAdd
<1>5. SumOn(f, m .. n) \in Int
  BY <1>2, <1>3, SumOnInt
<1>6. SumOn(f, m .. n + 1) = f[n + 1] + SumOn(f, m .. n)
  BY <1>1, <1>4
<1> QED BY <1>3, <1>5, <1>6

-----------------------------------------------------------------------------
(* Powers of two                                                           *)

\* Pow2 doubles at every turn
LEMMA Pow2Is ==
  ASSUME NEW n \in Nat
  PROVE  \E p \in [0 .. n -> Nat] :
           Pow2(n) = p[n] /\ p[0] = 1 /\ \A i \in 1 .. n : p[i] = 2 * p[i - 1]
<1> DEFINE G == [x \in Nat \X (1 .. n) |-> 2 * x[1]]
           Eqn(p) == p = [i \in 0 .. n |-> IF i = 0 THEN 1 ELSE 2 * p[i - 1]]
           run == CHOOSE p : Eqn(p)
<1>1. \A x \in Nat, i \in 1 .. n : G[<<x, i>>] = 2 * x /\ G[<<x, i>>] \in Nat
  OBVIOUS
<1> HIDE DEF G
<1>2. StepsIn(G, Nat, n)
  BY <1>1 DEF StepsIn
<1>3. PICK f : Loop(f, Nat, 1, n, G)
  BY <1>2, LoopExists
<1>4. f \in [0 .. n -> Nat] /\ f[0] = 1 /\ \A i \in 1 .. n : f[i] = 2 * f[i - 1]
  <2>1. f \in [0 .. n -> Nat] /\ f[0] = 1 /\ \A i \in 1 .. n : f[i] = G[<<f[i - 1], i>>]
    BY <1>3 DEF Loop
  <2>2. ASSUME NEW i \in 1 .. n PROVE f[i] = 2 * f[i - 1]
    <3>1. f[i - 1] \in Nat
      BY <2>1
    <3> QED BY <1>1, <2>1, <3>1
  <2> QED BY <2>1, <2>2
<1>5. Eqn(f)
  <2> SUFFICES ASSUME NEW i \in 0 .. n PROVE f[i] = IF i = 0 THEN 1 ELSE 2 * f[i - 1]
    BY <1>4
  <2>1. CASE i = 0
    BY <1>4, <2>1
  <2>2. CASE i # 0
    BY <1>4, <2>2
  <2> QED BY <2>1, <2>2
<1>6. Eqn(run)
  BY <1>5
<1>7. Pow2(n) = run[n]
  BY DEF Pow2
<1> HIDE DEF run
<1>8. DOMAIN run = 0 .. n /\ run = [i \in DOMAIN run |-> run[i]]
      /\ run[0] = 1 /\ \A i \in 1 .. n : run[i] = 2 * run[i - 1]
  BY <1>6
<1>9. ASSUME NEW i \in 1 .. n, run[i - 1] \in Nat PROVE run[i] = G[<<run[i - 1], i>>]
  BY <1>1, <1>8, <1>9
<1>10. Loop(run, Nat, 1, n, G)
  BY <1>2, <1>8, <1>9, LoopIs
<1> QED BY <1>7, <1>8, <1>10 DEF Loop

LEMMA Pow2Step ==
  ASSUME NEW n \in Nat
  PROVE  Pow2(n) \in Nat /\ Pow2(n + 1) = 2 * Pow2(n)
<1>1. PICK p \in [0 .. n -> Nat] :
        Pow2(n) = p[n] /\ p[0] = 1 /\ \A i \in 1 .. n : p[i] = 2 * p[i - 1]
  BY Pow2Is
<1>2. n + 1 \in Nat
  OBVIOUS
<1>3. PICK q \in [0 .. n + 1 -> Nat] :
        Pow2(n + 1) = q[n + 1] /\ q[0] = 1 /\ \A i \in 1 .. n + 1 : q[i] = 2 * q[i - 1]
  BY <1>2, Pow2Is
<1> DEFINE K == {k \in Nat : k <= n => p[k] = q[k]}
<1>4. 0 \in K
  BY <1>1, <1>3
<1>5. ASSUME NEW k \in 0 .. n - 1, k \in K PROVE k + 1 \in K
  <2>1. k + 1 \in 1 .. n /\ k + 1 \in 1 .. n + 1 /\ (k + 1) - 1 = k /\ k \in Nat /\ k + 1 \in Nat /\ k <= n
    OBVIOUS
  <2>2. p[k + 1] = 2 * p[k] /\ q[k + 1] = 2 * q[k]
    BY <1>1, <1>3, <2>1
  <2>3. p[k] = q[k]
    BY <1>5, <2>1
  <2> QED BY <2>1, <2>2, <2>3
<1> HIDE DEF K
<1>6. \A k \in 0 .. n : k \in K
  BY <1>4, <1>5, InductionUpTo
<1>7. p[n] = q[n] /\ p[n] \in Nat
  BY <1>6 DEF K
<1>8. n + 1 \in 1 .. n + 1 /\ (n + 1) - 1 = n
  OBVIOUS
<1>9. q[n + 1] = 2 * q[n]
  BY <1>3, <1>8
<1> QED BY <1>1, <1>3, <1>7, <1>9

LEMMA Pow2Zero == Pow2(0) = 1
<1>1. 0 \in Nat
  OBVIOUS
<1> QED BY <1>1, Pow2Is

LEMMA Pow2Positive == \A n \in Nat : Pow2(n) \in Nat /\ Pow2(n) >= 1
<1> DEFINE K == {k \in Nat : Pow2(k) \in Nat /\ Pow2(k) >= 1}
<1> TAKE n \in Nat
<1>1. 0 \in K
  BY Pow2Zero
<1>2. ASSUME NEW k \in 0 .. n - 1, k \in K PROVE k + 1 \in K
  <2>1. Pow2(k + 1) = 2 * Pow2(k) /\ k \in Nat /\ k + 1 \in Nat
    BY Pow2Step
  <2> QED BY <1>2, <2>1
<1> HIDE DEF K
<1>3. \A k \in 0 .. n : k \in K
  BY <1>1, <1>2, InductionUpTo
<1>4. n \in K
  BY <1>3
<1> QED BY <1>4 DEF K

\* Halving
LEMMA Pow2Half ==
  ASSUME NEW m \in Nat, NEW b \in Nat, b < m
  PROVE  m - b \in Nat /\ m - (b + 1) \in Nat /\ Pow2(m - b) = 2 * Pow2(m - (b + 1))
<1>1. m - b \in Nat /\ m - (b + 1) \in Nat /\ (m - (b + 1)) + 1 = m - b
  OBVIOUS
<1>2. Pow2((m - (b + 1)) + 1) = 2 * Pow2(m - (b + 1))
  BY <1>1, Pow2Step
<1> QED BY <1>1, <1>2

LEMMA Pow2Sum == \A m, n \in Nat : Pow2(m + n) = Pow2(m) * Pow2(n)
<1> TAKE m, n \in Nat
<1> DEFINE K == {k \in Nat : Pow2(m + k) = Pow2(m) * Pow2(k)}
<1>0. Pow2(m) \in Nat
  BY Pow2Step
<1>1. 0 \in K
  BY <1>0, Pow2Zero
<1>2. ASSUME NEW k \in 0 .. n - 1, k \in K PROVE k + 1 \in K
  <2>1. k \in Nat /\ k + 1 \in Nat /\ m + k \in Nat /\ m + (k + 1) = (m + k) + 1
    OBVIOUS
  <2>2. Pow2(k + 1) = 2 * Pow2(k) /\ Pow2(k) \in Nat /\ Pow2((m + k) + 1) = 2 * Pow2(m + k)
    BY <2>1, Pow2Step
  <2>3. Pow2(m + k) = Pow2(m) * Pow2(k)
    BY <1>2
  <2> DEFINE a == Pow2(m)
             c == Pow2(k)
  <2>4. Pow2(m + (k + 1)) = 2 * (a * c)
    BY <2>1, <2>2, <2>3
  <2> HIDE DEF a, c
  <2>5. a \in Nat /\ c \in Nat
    BY <1>0, <2>2 DEF a, c
  <2>6. 2 * (a * c) = a * (2 * c)
    BY <2>5
  <2>7. Pow2(m + (k + 1)) = Pow2(m) * Pow2(k + 1)
    BY <2>2, <2>4, <2>6 DEF a, c
  <2> QED BY <2>1, <2>7
<1> HIDE DEF K
<1>3. \A k \in 0 .. n : k \in K
  BY <1>1, <1>2, InductionUpTo
<1>4. n \in K
  BY <1>3
<1> QED BY <1>4 DEF K
\* One for every member
LEMMA CardAsSum ==
  ASSUME NEW S, IsFiniteSet(S), NEW f, \A x \in S : f[x] = 1
  PROVE  SumOn(f, S) = Cardinality(S)
<1> DEFINE X == {T \in SUBSET S : SumOn(f, T) = Cardinality(T)}
<1>1. {} \in X
  BY SumOnEmpty, FS_EmptySet
<1>2. ASSUME NEW T \in SUBSET S, NEW x \in S, T \in X, x \notin T PROVE T \cup {x} \in X
  <2>1. IsFiniteSet(T)
    BY FS_Subset
  <2>2. IntOn(f, T \cup {x})
    BY DEF IntOn
  <2>3. SumOn(f, T \cup {x}) = f[x] + SumOn(f, T)
    BY <1>2, <2>1, <2>2, SumOnAdd
  <2>4. Cardinality(T \cup {x}) = Cardinality(T) + 1 /\ Cardinality(T) \in Nat
    BY <1>2, <2>1, FS_AddElement, FS_CardinalityType
  <2>5. SumOn(f, T) = Cardinality(T) /\ f[x] = 1
    BY <1>2
  <2>6. SumOn(f, T \cup {x}) = Cardinality(T \cup {x})
    BY <2>3, <2>4, <2>5
  <2> QED BY <2>6
<1>3. S \in X
  <2> HIDE DEF X
  <2> QED BY <1>1, <1>2, SetInduction
<1> QED BY <1>3

-----------------------------------------------------------------------------
(* Sifting: the heap stays a heap of the same nodes                        *)

\* Induction from the end of the heap, and from its top
LEMMA InductionDown ==
  ASSUME NEW X, NEW n \in Nat, \A k \in 1 .. n : (\A s \in k + 1 .. n : s \in X) => k \in X
  PROVE  \A k \in 1 .. n : k \in X
<1> DEFINE T == {m \in 0 .. n - 1 : n - m \notin X}
<1> SUFFICES ASSUME NEW j \in 1 .. n, j \notin X PROVE FALSE
  OBVIOUS
<1>1. n - j \in T /\ T \subseteq Nat
  <2>1. n - j \in 0 .. n - 1 /\ n - (n - j) = j
    OBVIOUS
  <2> QED BY <2>1
<1>2. PICK x \in T : \A y \in T : x <= y
  BY <1>1, LeastOf
<1>3. n - x \in 1 .. n /\ n - x \notin X
  OBVIOUS
<1>4. ASSUME NEW s \in n - x + 1 .. n PROVE s \in X
  <2>1. n - s \in 0 .. n - 1 /\ n - (n - s) = s /\ n - s < x
    OBVIOUS
  <2>2. n - s \notin T
    BY <1>2, <2>1
  <2> QED BY <2>1, <2>2
<1> HIDE DEF T
<1> QED BY <1>3, <1>4

LEMMA InductionFrom ==
  ASSUME NEW X, NEW n \in Nat, \A k \in 1 .. n : (\A s \in 1 .. k - 1 : s \in X) => k \in X
  PROVE  \A k \in 1 .. n : k \in X
<1> DEFINE T == {m \in 1 .. n : m \notin X}
<1> SUFFICES ASSUME T # {} PROVE FALSE
  OBVIOUS
<1>1. T \subseteq Nat
  OBVIOUS
<1>2. PICK x \in T : \A y \in T : x <= y
  BY <1>1, LeastOf
<1>3. \A s \in 1 .. x - 1 : s \in X
  BY <1>2
<1> QED BY <1>3

\* A function that calls itself with a greater argument, or stops
Descent(g, n, Stop, B, Nxt, G) ==
  \A k \in 1 .. n : g[k] = IF k \in Stop THEN B[k] ELSE G[<<g[Nxt[k]], k>>]

\* A recursion down the heap has a value at every place
LEMMA DescentExists ==
  ASSUME NEW X, NEW n \in Nat, NEW Stop, NEW B, \A k \in 1 .. n : k \in Stop => B[k] \in X,
         NEW Nxt, \A k \in 1 .. n : k \notin Stop => Nxt[k] \in k + 1 .. n,
         NEW G, StepsIn(G, X, n)
  PROVE  \E g \in [1 .. n -> X] : Descent(g, n, Stop, B, Nxt, G)
<1> DEFINE P(g, m) == \A k \in n - m + 1 .. n :
                        g[k] = IF k \in Stop THEN B[k] ELSE G[<<g[Nxt[k]], k>>]
           K == {m \in Nat : \E g \in [n - m + 1 .. n -> X] : P(g, m)}
<1>1. 0 \in K
  <2>1. n - 0 + 1 .. n = {}
    OBVIOUS
  <2>2. [k \in {} |-> B[k]] \in [n - 0 + 1 .. n -> X] /\ P([k \in {} |-> B[k]], 0)
    BY <2>1
  <2> QED BY <2>2
<1>2. ASSUME NEW m \in 0 .. n - 1, m \in K PROVE m + 1 \in K
  <2>1. PICK g \in [n - m + 1 .. n -> X] : P(g, m)
    BY <1>2
  <2> DEFINE j == n - m
             new == IF j \in Stop THEN B[j] ELSE G[<<g[Nxt[j]], j>>]
             e == [k \in j .. n |-> IF k = j THEN new ELSE g[k]]
  <2>2. j \in 1 .. n /\ m + 1 \in Nat /\ n - (m + 1) + 1 = j /\ n - m + 1 = j + 1
    OBVIOUS
  <2> HIDE DEF j
  <2>3. new \in X
    <3>1. CASE j \in Stop
      BY <2>2, <3>1
    <3>2. CASE j \notin Stop
      <4>1. Nxt[j] \in j + 1 .. n
        BY <2>2, <3>2
      <4>2. g[Nxt[j]] \in X
        BY <2>2, <4>1
      <4>3. G[<<g[Nxt[j]], j>>] \in X
        BY <2>2, <4>2 DEF StepsIn
      <4> QED BY <3>2, <4>3
    <3> QED BY <3>1, <3>2
  <2>4. e \in [j .. n -> X]
    <3>1. \A k \in j .. n : k # j => k \in j + 1 .. n
      BY <2>2
    <3> HIDE DEF new
    <3> QED BY <2>2, <2>3, <3>1
  <2>5. ASSUME NEW k \in j .. n PROVE e[k] = IF k \in Stop THEN B[k] ELSE G[<<e[Nxt[k]], k>>]
    <3>0. k \in 1 .. n
      BY <2>2
    <3>1. k \notin Stop => Nxt[k] \in k + 1 .. n
      BY <3>0
    <3>2. k \notin Stop => Nxt[k] \in j .. n /\ Nxt[k] # j
      BY <2>2, <3>0, <3>1
    <3>3. k \notin Stop => e[Nxt[k]] = g[Nxt[k]]
      BY <3>2
    <3>4. CASE k = j
      <4>1. e[k] = new
        BY <3>4
      <4> HIDE DEF e
      <4> QED BY <3>3, <3>4, <4>1
    <3>5. CASE k # j
      <4>1. k \in n - m + 1 .. n
        BY <2>2, <3>5
      <4>2. g[k] = IF k \in Stop THEN B[k] ELSE G[<<g[Nxt[k]], k>>]
        BY <2>1, <4>1
      <4>3. e[k] = g[k]
        BY <3>5
      <4> HIDE DEF e
      <4> QED BY <3>3, <4>2, <4>3
    <3> QED BY <3>4, <3>5
  <2> HIDE DEF e
  <2>6. e \in [n - (m + 1) + 1 .. n -> X] /\ P(e, m + 1)
    BY <2>2, <2>4, <2>5
  <2> HIDE DEF P
  <2> QED BY <2>2, <2>6
<1> HIDE DEF K
<1>3. \A m \in 0 .. n : m \in K
  BY <1>1, <1>2, InductionUpTo
<1>4. n \in K /\ n - n + 1 = 1
  BY <1>3
<1>5. \E g \in [n - n + 1 .. n -> X] : P(g, n)
  BY <1>4 DEF K
<1> QED BY <1>4, <1>5 DEF Descent

\* smaller orders V
Ordered(tr, V) ==
  \A a, b, c \in V : /\ Smaller(tr, a, b) \/ Smaller(tr, b, a)
                     /\ Smaller(tr, a, b) /\ Smaller(tr, b, c) => Smaller(tr, a, c)

\* The places from lo on are heaps
Heapy(tr, h, lo) ==
  \A k \in lo .. Len(h) : \A s \in {2 * k, 2 * k + 1} : s <= Len(h) => Smaller(tr, h[k], h[s])

Distinct(h) == \A i, j \in 1 .. Len(h) : h[i] = h[j] => i = j

\* What SiftDown's recursion yields
SunkIs(sunk, tr, h, top) ==
  /\ sunk \in [1 .. Len(h) -> [1 .. Len(h) -> ToSet(h)]]
  /\ \A k \in 1 .. Len(h) :
       sunk[k] = IF 2 * k > Len(h) \/ Smaller(tr, h[top], h[Son(tr, h, k)])
                 THEN [h EXCEPT ![k] = h[top]]
                 ELSE [sunk[Son(tr, h, k)] EXCEPT ![k] = h[Son(tr, h, k)]]

\* The son pqdownheap compares with is the smaller one, and stands below (trees.go:284-287)
LEMMA SonIs ==
  ASSUME NEW tr, NEW V, NEW h \in Seq(V), NEW k \in 1 .. Len(h), 2 * k <= Len(h)
  PROVE  /\ Son(tr, h, k) \in {2 * k, 2 * k + 1} /\ Son(tr, h, k) \in k + 1 .. Len(h)
         /\ Ordered(tr, V) =>
              \A s \in {2 * k, 2 * k + 1} : s <= Len(h) => Smaller(tr, h[Son(tr, h, k)], h[s])
<1>1. Len(h) \in Nat /\ k \in Nat /\ 1 <= k
  OBVIOUS
<1>2. Son(tr, h, k) \in {2 * k, 2 * k + 1} /\ Son(tr, h, k) \in k + 1 .. Len(h)
  BY <1>1 DEF Son
<1>3. ASSUME Ordered(tr, V), NEW s \in {2 * k, 2 * k + 1}, s <= Len(h)
      PROVE  Smaller(tr, h[Son(tr, h, k)], h[s])
  <2>1. 2 * k \in 1 .. Len(h) /\ (2 * k < Len(h) <=> 2 * k + 1 \in 1 .. Len(h))
        /\ s \in 1 .. Len(h) /\ 2 * k # 2 * k + 1
    BY <1>1, <1>3
  <2> DEFINE a == 2 * k
             b == 2 * k + 1
             last == a < Len(h)
  <2>2. h[a] \in V /\ (last => h[b] \in V)
    BY <2>1
  <2>3. s = a \/ (s = b /\ last)
    BY <1>1, <1>3
  <2>4. Son(tr, h, k) = IF last /\ Smaller(tr, h[b], h[a]) THEN b ELSE a
    BY DEF Son
  <2> HIDE DEF a, b, last
  <2>5. \A x, y \in V : Smaller(tr, x, y) \/ Smaller(tr, y, x)
    BY <1>3 DEF Ordered
  <2>6. CASE last /\ Smaller(tr, h[b], h[a])
    BY <2>2, <2>3, <2>4, <2>5, <2>6
  <2>7. CASE ~(last /\ Smaller(tr, h[b], h[a]))
    BY <2>2, <2>3, <2>4, <2>5, <2>7
  <2> QED BY <2>6, <2>7
<1> QED BY <1>2, <1>3

\* pqdownheap's loop is well defined: each turn goes down (trees.go:280-296)
LEMMA SunkExists ==
  ASSUME NEW tr, NEW V, NEW h \in Seq(V), NEW top \in 1 .. Len(h)
  PROVE  \E sunk : SunkIs(sunk, tr, h, top) /\ SiftDown(tr, h, top) = sunk[top]
<1> DEFINE n == Len(h)
           X == [1 .. n -> ToSet(h)]
           Stop == {k \in 1 .. n : 2 * k > n \/ Smaller(tr, h[top], h[Son(tr, h, k)])}
           B == [k \in 1 .. n |-> [h EXCEPT ![k] = h[top]]]
           Nxt == [k \in 1 .. n |-> Son(tr, h, k)]
           G == [x \in X \X (1 .. n) |-> [x[1] EXCEPT ![x[2]] = h[Son(tr, h, x[2])]]]
<1>1. n \in Nat /\ DOMAIN h = 1 .. n /\ \A i \in 1 .. n : h[i] \in ToSet(h)
  BY DEF ToSet
<1>2. \A k \in 1 .. n : k \notin Stop => 2 * k <= n /\ Nxt[k] = Son(tr, h, k) /\ Nxt[k] \in k + 1 .. n
  <2> TAKE k \in 1 .. n
  <2> HAVE k \notin Stop
  <2>1. 2 * k <= n
    BY <1>1
  <2>2. Son(tr, h, k) \in k + 1 .. n
    BY <2>1, SonIs
  <2> QED BY <2>1, <2>2
<1>3. \A k \in 1 .. n : B[k] = [h EXCEPT ![k] = h[top]] /\ B[k] \in X
  BY <1>1
<1>4. \A k \in 1 .. n : 2 * k <= n => h[Son(tr, h, k)] \in ToSet(h)
  <2> TAKE k \in 1 .. n
  <2> HAVE 2 * k <= n
  <2>1. Son(tr, h, k) \in k + 1 .. n
    BY SonIs
  <2> QED BY <1>1, <2>1
<1> DEFINE H == [x \in X \X (1 .. n) |-> IF 2 * x[2] <= n THEN G[x] ELSE h]
<1>5. \A x \in X, k \in 1 .. n : H[<<x, k>>] = IF 2 * k <= n
                                               THEN [x EXCEPT ![k] = h[Son(tr, h, k)]] ELSE h
  OBVIOUS
<1>6. h \in X
  BY <1>1
<1> HIDE DEF H, G
<1>7. StepsIn(H, X, n)
  <2> SUFFICES ASSUME NEW x \in X, NEW k \in 1 .. n PROVE H[<<x, k>>] \in X
    BY DEF StepsIn
  <2> QED BY <1>4, <1>5, <1>6
<1> HIDE DEF Stop, B, Nxt
<1>8. \E g \in [1 .. n -> X] : Descent(g, n, Stop, B, Nxt, H)
  <2> HIDE DEF X, n
  <2> QED BY <1>1, <1>2, <1>3, <1>7, DescentExists
<1>9. PICK g \in [1 .. n -> X] : Descent(g, n, Stop, B, Nxt, H)
  BY <1>8
<1> DEFINE Rhs(f, k) == IF 2 * k > n \/ Smaller(tr, h[top], h[Son(tr, h, k)])
                        THEN [h EXCEPT ![k] = h[top]]
                        ELSE [f[Son(tr, h, k)] EXCEPT ![k] = h[Son(tr, h, k)]]
           Eqn(f) == f = [k \in 1 .. n |-> Rhs(f, k)]
           run == CHOOSE f : Eqn(f)
<1>10. ASSUME NEW k \in 1 .. n PROVE g[k] = Rhs(g, k)
  <2>1. g[k] = IF k \in Stop THEN B[k] ELSE H[<<g[Nxt[k]], k>>]
    BY <1>9 DEF Descent
  <2>2. CASE k \in Stop
    <3>1. 2 * k > n \/ Smaller(tr, h[top], h[Son(tr, h, k)])
      BY <2>2 DEF Stop
    <3> QED BY <1>3, <2>1, <2>2, <3>1
  <2>3. CASE k \notin Stop
    <3>1. ~(2 * k > n \/ Smaller(tr, h[top], h[Son(tr, h, k)]))
      BY <2>3 DEF Stop
    <3>2. 2 * k <= n /\ Nxt[k] = Son(tr, h, k) /\ Nxt[k] \in k + 1 .. n
      BY <1>2, <2>3
    <3>3. Nxt[k] \in 1 .. n
      BY <1>1, <3>2
    <3>4. g[Nxt[k]] \in X
      <4> HIDE DEF X, n
      <4> QED BY <3>3
    <3>5. H[<<g[Nxt[k]], k>>] = [g[Nxt[k]] EXCEPT ![k] = h[Son(tr, h, k)]]
      BY <1>5, <3>2, <3>4
    <3> QED BY <2>1, <2>3, <3>1, <3>2, <3>5
  <2> QED BY <2>2, <2>3
<1>11. Eqn(g)
  <2> HIDE DEF Rhs, X, n
  <2> QED BY <1>10
<1>12. Eqn(run)
  BY <1>11
<1>13. SiftDown(tr, h, top) = run[top]
  BY DEF SiftDown
<1> HIDE DEF run
<1>14. \A k \in 1 .. n : run[k] = Rhs(run, k)
  BY <1>12
<1>15. \A k \in 1 .. n : run[k] \in X
  <2> DEFINE K == {k \in 1 .. n : run[k] \in X}
  <2>1. ASSUME NEW k \in 1 .. n, \A s \in k + 1 .. n : s \in K PROVE k \in K
    <3>1. run[k] = Rhs(run, k)
      BY <1>14
    <3>2. CASE 2 * k > n \/ Smaller(tr, h[top], h[Son(tr, h, k)])
      BY <1>3, <3>1, <3>2
    <3>3. CASE ~(2 * k > n \/ Smaller(tr, h[top], h[Son(tr, h, k)]))
      <4>1. 2 * k <= n
        BY <1>1, <3>3
      <4>2. Son(tr, h, k) \in k + 1 .. n
        BY <4>1, SonIs
      <4>3. run[Son(tr, h, k)] \in X
        BY <2>1, <4>2
      <4>4. run[k] = [run[Son(tr, h, k)] EXCEPT ![k] = h[Son(tr, h, k)]]
        BY <3>1, <3>3
      <4> QED BY <1>4, <4>1, <4>3, <4>4
    <3> QED BY <3>2, <3>3
  <2> HIDE DEF K
  <2>2. \A k \in 1 .. n : k \in K
    BY <1>1, <2>1, InductionDown
  <2> QED BY <2>2 DEF K
<1>16. SunkIs(run, tr, h, top)
  <2>1. run \in [1 .. n -> X]
    <3> HIDE DEF X, n, Rhs
    <3> QED BY <1>12, <1>15
  <2> QED BY <1>14, <2>1 DEF SunkIs
<1> QED BY <1>13, <1>16

\* The same elements in another order
Reordered(g, h) ==
  /\ Len(g) = Len(h) /\ ToSet(g) = ToSet(h) /\ Distinct(g)
  /\ \A V : h \in Seq(V) => g \in Seq(V)

\* pqdownheap neither loses nor doubles a node of the heap (trees.go:280-296)
LEMMA SiftKeeps ==
  ASSUME NEW tr, NEW V, NEW h \in Seq(V), Distinct(h), NEW top \in 1 .. Len(h)
  PROVE  Reordered(SiftDown(tr, h, top), h)
<1> DEFINE n == Len(h)
           v == h[top]
           Under(k) == {h[j] : j \in k + 1 .. n}
           Kept(g, k) == /\ \A j \in 1 .. k - 1 : g[j] = h[j]
                         /\ {g[j] : j \in k .. n} = {v} \cup Under(k)
                         /\ \A i, j \in k .. n : g[i] = g[j] => i = j
<1>1. n \in Nat /\ DOMAIN h = 1 .. n
  OBVIOUS
<1>2. PICK sunk : SunkIs(sunk, tr, h, top) /\ SiftDown(tr, h, top) = sunk[top]
  BY SunkExists
<1>3. \A i, j \in 1 .. n : h[i] = h[j] => i = j
  BY DEF Distinct
<1>4. \A k \in top .. n : Kept(sunk[k], k)
  <2> DEFINE K == {k \in 1 .. n : k >= top => Kept(sunk[k], k)}
  <2>1. ASSUME NEW k \in 1 .. n, \A s \in k + 1 .. n : s \in K PROVE k \in K
    <3> SUFFICES ASSUME k >= top PROVE Kept(sunk[k], k)
      OBVIOUS
    <3>1. sunk[k] = IF 2 * k > n \/ Smaller(tr, h[top], h[Son(tr, h, k)])
                    THEN [h EXCEPT ![k] = h[top]]
                    ELSE [sunk[Son(tr, h, k)] EXCEPT ![k] = h[Son(tr, h, k)]]
      BY <1>2 DEF SunkIs
    <3>2. CASE 2 * k > n \/ Smaller(tr, h[top], h[Son(tr, h, k)])
      <4> DEFINE g == [h EXCEPT ![k] = v]
      <4>1. sunk[k] = g
        BY <3>1, <3>2
      <4>2. g[k] = v /\ \A j \in 1 .. n : j # k => g[j] = h[j]
        BY <1>1
      <4> HIDE DEF g
      <4>3. \A j \in 1 .. k - 1 : g[j] = h[j]
        BY <1>1, <4>2
      <4>4. \A j \in k + 1 .. n : g[j] = h[j] /\ j \in 1 .. n /\ j # top
        BY <1>1, <4>2
      <4>5. k .. n = {k} \cup (k + 1 .. n)
        BY <1>1
      <4>6. {g[j] : j \in k .. n} = {v} \cup Under(k)
        BY <4>2, <4>4, <4>5
      <4>7. ASSUME NEW i \in k .. n, NEW j \in k .. n, g[i] = g[j] PROVE i = j
        <5>1. \A x \in k + 1 .. n : g[x] # g[k]
          BY <1>3, <4>2, <4>4
        <5> QED BY <1>3, <4>4, <4>5, <4>7, <5>1
      <4> QED BY <4>1, <4>3, <4>6, <4>7
    <3>3. CASE ~(2 * k > n \/ Smaller(tr, h[top], h[Son(tr, h, k)]))
      <4> DEFINE s == Son(tr, h, k)
                 e == sunk[s]
                 g == [e EXCEPT ![k] = h[s]]
      <4>0. 2 * k <= n
        BY <1>1, <3>3
      <4>1. s \in k + 1 .. n
        BY <4>0, SonIs
      <4>2. sunk[k] = g
        BY <3>1, <3>3
      <4> HIDE DEF s
      <4>3. s \in 1 .. n /\ s >= top /\ s \in K
        <5>1. s \in K
          BY <2>1, <4>1
        <5>2. s \in 1 .. n /\ s >= top
          <6> HIDE DEF K
          <6> QED BY <1>1, <4>1
        <5> QED BY <5>1, <5>2
      <4>4. e \in [1 .. n -> ToSet(h)]
        BY <1>2, <4>3 DEF SunkIs
      <4>5. Kept(e, s)
        BY <4>3
      <4>6. g[k] = h[s] /\ \A j \in 1 .. n : j # k => g[j] = e[j]
        BY <4>4
      <4> HIDE DEF g, e, K
      <4>7. \A j \in 1 .. s - 1 : e[j] = h[j]
        BY <4>5
      <4>8. \A j \in 1 .. k - 1 : g[j] = h[j]
        BY <1>1, <4>1, <4>6, <4>7
      <4>9. \A j \in k + 1 .. s - 1 : g[j] = h[j] /\ j \in 1 .. n
        BY <1>1, <4>1, <4>6, <4>7
      <4>10. \A j \in s .. n : g[j] = e[j] /\ j \in 1 .. n
        BY <1>1, <4>1, <4>6
      <4>11. {e[j] : j \in s .. n} = {v} \cup Under(s)
        BY <4>5
      <4>12. {g[j] : j \in s .. n} = {v} \cup Under(s)
        BY <4>10, <4>11
      <4>13. k .. n = {k} \cup (k + 1 .. s - 1) \cup (s .. n)
             /\ k + 1 .. n = {s} \cup (k + 1 .. s - 1) \cup (s + 1 .. n)
        BY <1>1, <4>1
      <4>14. {g[j] : j \in k .. n} = {h[s]} \cup {h[j] : j \in k + 1 .. s - 1} \cup {v} \cup Under(s)
        <5>1. {g[j] : j \in k .. n}
                = {g[k]} \cup {g[j] : j \in k + 1 .. s - 1} \cup {g[j] : j \in s .. n}
          BY <4>13
        <5>2. {g[j] : j \in k + 1 .. s - 1} = {h[j] : j \in k + 1 .. s - 1}
          BY <4>9
        <5> QED BY <4>6, <4>12, <5>1, <5>2
      <4>15. Under(k) = {h[s]} \cup {h[j] : j \in k + 1 .. s - 1} \cup Under(s)
        BY <4>13
      <4>16. {g[j] : j \in k .. n} = {v} \cup Under(k)
        BY <4>14, <4>15
      <4>17. ASSUME NEW j \in s .. n
             PROVE  g[j] # g[k] /\ \A i \in k + 1 .. s - 1 : g[j] # g[i]
        <5>1. g[j] \in {v} \cup Under(s)
          BY <4>12
        <5>2. PICK x \in {top} \cup (s + 1 .. n) : g[j] = h[x]
          BY <5>1
        <5>3. x \in 1 .. n /\ x # s /\ \A i \in k + 1 .. s - 1 : x # i /\ i \in 1 .. n
          BY <1>1, <4>1
        <5> QED BY <1>3, <4>3, <4>6, <4>9, <5>2, <5>3
      <4>18. ASSUME NEW i \in k .. n, NEW j \in k .. n, g[i] = g[j] PROVE i = j
        <5>1. \A x, y \in s .. n : e[x] = e[y] => x = y
          BY <4>5
        <5>2. \A x, y \in s .. n : g[x] = g[y] => x = y
          BY <4>10, <5>1
        <5>3. \A x, y \in k + 1 .. s - 1 : g[x] = g[y] => x = y
          BY <1>3, <4>9
        <5>4. \A x \in k + 1 .. s - 1 : g[x] # g[k]
          BY <1>1, <1>3, <4>3, <4>6, <4>9
        <5> QED BY <4>13, <4>17, <4>18, <5>2, <5>3, <5>4
      <4> QED BY <4>2, <4>8, <4>16, <4>18
    <3> QED BY <3>2, <3>3
  <2> HIDE DEF K
  <2>2. \A k \in 1 .. n : k \in K
    BY <1>1, <2>1, InductionDown
  <2>3. \A k \in top .. n : k \in K /\ k >= top
    BY <1>1, <2>2
  <2> QED BY <2>3 DEF K
<1> DEFINE g == sunk[top]
<1>5. g \in [1 .. n -> ToSet(h)] /\ Kept(g, top)
  <2>1. top \in top .. n
    BY <1>1
  <2>2. Kept(g, top)
    BY <1>4, <2>1
  <2>3. g \in [1 .. n -> ToSet(h)]
    BY <1>2 DEF SunkIs
  <2> QED BY <2>2, <2>3
<1> HIDE DEF g
<1>6. 1 .. n = (1 .. top - 1) \cup (top .. n) /\ top .. n = {top} \cup (top + 1 .. n)
  BY <1>1
<1>7. ToSet(h) = {h[j] : j \in 1 .. n}
  BY DEF ToSet
<1>8. {g[j] : j \in 1 .. n} = ToSet(h)
  <2>1. {g[j] : j \in 1 .. n} = {g[j] : j \in 1 .. top - 1} \cup {g[j] : j \in top .. n}
    BY <1>6
  <2>2. {g[j] : j \in 1 .. top - 1} = {h[j] : j \in 1 .. top - 1}
    BY <1>5
  <2>3. {g[j] : j \in top .. n} = {v} \cup Under(top)
    BY <1>5
  <2>4. {h[j] : j \in 1 .. n} = {h[j] : j \in 1 .. top - 1} \cup {v} \cup Under(top)
    BY <1>6
  <2> QED BY <1>7, <2>1, <2>2, <2>3, <2>4
<1>9. ASSUME NEW V_1, h \in Seq(V_1) PROVE g \in Seq(V_1)
  <2>1. ToSet(h) \subseteq V_1
    BY <1>7, <1>9
  <2>2. g \in [1 .. n -> V_1]
    BY <1>5, <2>1
  <2> QED BY <1>1, <2>2
<1>10. g \in Seq(V)
  BY <1>9
<1>11. Len(g) = n
  BY <1>1, <1>5, <1>10
<1>12. ToSet(g) = ToSet(h)
  BY <1>5, <1>8 DEF ToSet
<1>13. ASSUME NEW i \in 1 .. n, NEW j \in 1 .. n, g[i] = g[j] PROVE i = j
  <2>1. \A x \in 1 .. top - 1 : g[x] = h[x] /\ x \in 1 .. n
    BY <1>1, <1>5
  <2>2. \A x, y \in top .. n : g[x] = g[y] => x = y
    BY <1>5
  <2>3. ASSUME NEW x \in top .. n, NEW y \in 1 .. top - 1 PROVE g[x] # g[y]
    <3>1. g[x] \in {v} \cup Under(top)
      BY <1>5
    <3>2. PICK z \in {top} \cup (top + 1 .. n) : g[x] = h[z]
      BY <3>1
    <3>3. z \in 1 .. n /\ z # y
      BY <1>1
    <3> QED BY <1>3, <2>1, <3>2, <3>3
  <2> QED BY <1>3, <1>6, <1>13, <2>1, <2>2, <2>3
<1>14. Distinct(g)
  BY <1>11, <1>13 DEF Distinct
<1> QED BY <1>2, <1>9, <1>11, <1>12, <1>14 DEF g, Reordered

\* pqdownheap makes a heap from one that was a heap below its top (trees.go:280-296)
LEMMA SiftSorts ==
  ASSUME NEW tr, NEW V, Ordered(tr, V), NEW h \in Seq(V), Distinct(h),
         NEW top \in 1 .. Len(h), Heapy(tr, h, top + 1)
  PROVE  Heapy(tr, SiftDown(tr, h, top), top)
<1> DEFINE n == Len(h)
           v == h[top]
           LE(a, b) == Smaller(tr, a, b)
           Sons(j) == {2 * j, 2 * j + 1}
           Down(g, k) == \A j \in k .. n : j > top => g[j] = v \/ LE(h[j], g[j])
           Path(g, k) == \A j \in k .. n : \A c \in Sons(j) :
                           c <= n /\ g[c] # h[c] => g[j] # h[j]
           Off(g, k) == \A j \in 1 .. k - 1 : g[j] = h[j]
           Up(g, k) == \A j \in 1 .. k - 1 : \A c \in Sons(j) : c <= n /\ c # k => g[c] = h[c]
           Good(g, k) == \A j \in k .. n : \A c \in Sons(j) : c <= n => LE(g[j], g[c])
           Inv(g, k) == Off(g, k) /\ Down(g, k) /\ Up(g, k) /\ Good(g, k)
<1>1. n \in Nat /\ DOMAIN h = 1 .. n /\ \A i \in 1 .. n : h[i] \in V
  OBVIOUS
<1>2. PICK sunk : SunkIs(sunk, tr, h, top) /\ SiftDown(tr, h, top) = sunk[top]
  BY SunkExists
<1>3. \A a, b, c \in V : (LE(a, b) \/ LE(b, a)) /\ (LE(a, b) /\ LE(b, c) => LE(a, c))
  BY DEF Ordered
<1>4. \A j \in top + 1 .. n : \A c \in Sons(j) : c <= n => LE(h[j], h[c])
  BY DEF Heapy
<1> HIDE DEF LE
<1>5. v \in V
  BY <1>1
<1>6. ASSUME NEW j \in Nat, NEW c \in Sons(j), 1 <= j, c <= n
      PROVE  c \in 1 .. n /\ c \in j + 1 .. n /\ j \in 1 .. n
  <2>1. c = 2 * j \/ c = 2 * j + 1
    OBVIOUS
  <2> HIDE DEF n
  <2> QED BY <1>1, <1>6, <2>1
<1>7. \A k \in top .. n : Inv(sunk[k], k)
  <2> DEFINE K == {k \in 1 .. n : k >= top => Inv(sunk[k], k)}
  <2>1. ASSUME NEW k \in 1 .. n, \A s \in k + 1 .. n : s \in K PROVE k \in K
    <3> SUFFICES ASSUME k >= top PROVE Inv(sunk[k], k)
      OBVIOUS
    <3>1. sunk[k] = IF 2 * k > n \/ LE(h[top], h[Son(tr, h, k)])
                    THEN [h EXCEPT ![k] = h[top]]
                    ELSE [sunk[Son(tr, h, k)] EXCEPT ![k] = h[Son(tr, h, k)]]
      BY <1>2 DEF SunkIs, LE
    <3>s. 2 * k <= n => /\ Son(tr, h, k) \in Sons(k) /\ Son(tr, h, k) \in k + 1 .. n
                        /\ \A c \in Sons(k) : c <= n => LE(h[Son(tr, h, k)], h[c])
      <4> HAVE 2 * k <= n
      <4> QED BY SonIs DEF LE
    <3>k. k \in Nat /\ 1 <= k /\ top \in Nat
      BY <1>1
    <3>2. CASE 2 * k > n \/ LE(h[top], h[Son(tr, h, k)])
      <4> DEFINE g == [h EXCEPT ![k] = v]
      <4>1. sunk[k] = g
        BY <3>1, <3>2
      <4>2. g[k] = v /\ \A j \in 1 .. n : j # k => g[j] = h[j]
        BY <1>1
      <4> HIDE DEF g
      <4>3. Off(g, k)
        BY <1>1, <4>2
      <4>4. Down(g, k)
        <5> SUFFICES ASSUME NEW j \in k .. n PROVE g[j] = v \/ LE(h[j], g[j])
          OBVIOUS
        <5>1. j \in 1 .. n
          BY <1>1
        <5>2. LE(h[j], h[j])
          BY <1>1, <1>3, <5>1
        <5> QED BY <4>2, <5>1, <5>2
      <4>5. Up(g, k)
        <5> SUFFICES ASSUME NEW j \in 1 .. k - 1, NEW c \in Sons(j), c <= n, c # k PROVE g[c] = h[c]
          OBVIOUS
        <5>1. c \in 1 .. n
          BY <1>6
        <5> QED BY <4>2, <5>1
      <4>6. Good(g, k)
        <5> SUFFICES ASSUME NEW j \in k .. n, NEW c \in Sons(j), c <= n PROVE LE(g[j], g[c])
          OBVIOUS
        <5>1. j \in Nat /\ 1 <= j
          BY <3>k
        <5>2. c \in 1 .. n /\ c \in j + 1 .. n /\ j \in 1 .. n
          BY <1>6, <5>1
        <5>3. c # k
          BY <3>k, <5>2
        <5>4. g[c] = h[c]
          BY <4>2, <5>2, <5>3
        <5>5. CASE j # k
          <6>1. j \in top + 1 .. n
            BY <1>1, <3>k, <5>5
          <6>2. LE(h[j], h[c])
            BY <1>4, <6>1
          <6>3. g[j] = h[j]
            BY <4>2, <5>2, <5>5
          <6> QED BY <5>4, <6>2, <6>3
        <5>6. CASE j = k
          <6>1. 2 * k <= n
            BY <1>1, <5>6
          <6>2. LE(v, h[Son(tr, h, k)]) /\ LE(h[Son(tr, h, k)], h[c])
            BY <1>1, <3>2, <3>s, <5>6, <6>1
          <6>3. h[Son(tr, h, k)] \in V /\ h[c] \in V
            <7>1. Son(tr, h, k) \in 1 .. n
              BY <1>1, <3>s, <3>k, <6>1
            <7> QED BY <1>1, <5>2, <7>1
          <6>4. LE(v, h[c])
            BY <1>3, <1>5, <6>2, <6>3
          <6> QED BY <4>2, <5>4, <5>6, <6>4
        <5> QED BY <5>5, <5>6
      <4> QED BY <4>1, <4>3, <4>4, <4>5, <4>6
    <3>3. CASE ~(2 * k > n \/ LE(h[top], h[Son(tr, h, k)]))
      <4> DEFINE s == Son(tr, h, k)
                 e == sunk[s]
                 g == [e EXCEPT ![k] = h[s]]
      <4>0. 2 * k <= n
        BY <1>1, <3>3
      <4>1. s \in Sons(k) /\ s \in k + 1 .. n /\ \A c \in Sons(k) : c <= n => LE(h[s], h[c])
        BY <3>s, <4>0
      <4>2. sunk[k] = g /\ ~LE(v, h[s])
        BY <3>1, <3>3
      <4> HIDE DEF s
      <4>3. s \in 1 .. n /\ s > top /\ s > k /\ s \in K
        BY <1>1, <2>1, <3>k, <4>1
      <4>4. e \in [1 .. n -> ToSet(h)]
        BY <1>2, <4>3 DEF SunkIs
      <4>5. Inv(e, s)
        BY <3>k, <4>3
      <4>6. g[k] = h[s] /\ \A j \in 1 .. n : j # k => g[j] = e[j]
        BY <4>4
      <4>7. \A j \in 1 .. n : e[j] \in V
        <5>1. ToSet(h) \subseteq V
          BY <1>1 DEF ToSet
        <5> QED BY <4>4, <5>1
      <4> HIDE DEF g, e, K
      <4>8. h[s] \in V /\ LE(h[s], v)
        BY <1>1, <1>3, <1>5, <4>2, <4>3
      <4>9. Off(g, k)
        <5> SUFFICES ASSUME NEW j \in 1 .. k - 1 PROVE g[j] = h[j]
          OBVIOUS
        <5>1. j \in 1 .. s - 1 /\ j \in 1 .. n /\ j # k
          BY <1>1, <3>k, <4>3
        <5>2. e[j] = h[j]
          BY <4>5, <5>1
        <5> QED BY <4>6, <5>1, <5>2
      <4>10. Down(g, k)
        <5> SUFFICES ASSUME NEW j \in k .. n, j > top PROVE g[j] = v \/ LE(h[j], g[j])
          OBVIOUS
        <5>0. j \in 1 .. n
          BY <1>1
        <5>1. CASE j = k
          <6>1. j \in top + 1 .. n
            BY <1>1, <3>k
          <6>2. LE(h[k], h[s])
            BY <1>4, <4>1, <4>3, <5>1, <6>1
          <6> QED BY <4>6, <5>1, <6>2
        <5>2. CASE j # k /\ j < s
          <6>1. j \in 1 .. s - 1
            BY <3>k, <4>3, <5>0, <5>2
          <6>2. e[j] = h[j]
            BY <4>5, <6>1
          <6>3. LE(h[j], h[j])
            BY <1>1, <1>3, <5>0
          <6> QED BY <4>6, <5>0, <5>2, <6>2, <6>3
        <5>3. CASE j # k /\ j >= s
          <6>1. j \in s .. n
            BY <1>1, <4>3, <5>0, <5>3
          <6>2. e[j] = v \/ LE(h[j], e[j])
            BY <4>5, <6>1
          <6> QED BY <4>6, <5>0, <5>3, <6>2
        <5> QED BY <1>1, <4>3, <5>0, <5>1, <5>2, <5>3
      <4>11. Up(g, k)
        <5> SUFFICES ASSUME NEW j \in 1 .. k - 1, NEW c \in Sons(j), c <= n, c # k PROVE g[c] = h[c]
          OBVIOUS
        <5>1. j \in Nat /\ 1 <= j /\ j \in 1 .. s - 1
          BY <1>1, <3>k, <4>3
        <5>2. c \in 1 .. n
          BY <1>6, <5>1
        <5>3. c # s
          BY <3>k, <4>1, <5>1
        <5>4. e[c] = h[c]
          BY <4>5, <5>1, <5>3
        <5> QED BY <4>6, <5>2, <5>4
      <4>12. Good(g, k)
        <5> SUFFICES ASSUME NEW j \in k .. n, NEW c \in Sons(j), c <= n PROVE LE(g[j], g[c])
          OBVIOUS
        <5>1. j \in Nat /\ 1 <= j /\ k <= j
          BY <3>k
        <5>2. c \in 1 .. n /\ c \in j + 1 .. n /\ j \in 1 .. n
          BY <1>6, <5>1
        <5>3. c # k /\ g[c] = e[c] /\ e[c] \in V /\ h[c] \in V
          BY <1>1, <3>k, <4>6, <4>7, <5>1, <5>2
        <5>4. CASE j = k
          <6>1. LE(h[s], h[c])
            BY <4>1, <5>4
          <6>2. e[c] = h[c] \/ e[c] = v \/ LE(h[c], e[c])
            <7>1. CASE c < s
              <8>1. c \in 1 .. s - 1
                BY <4>3, <5>2, <7>1
              <8> QED BY <4>5, <8>1
            <7>2. CASE c >= s
              <8>1. c \in s .. n /\ c > top
                BY <1>1, <4>3, <5>2, <7>2
              <8> QED BY <4>5, <8>1
            <7> QED BY <4>3, <5>2, <7>1, <7>2
          <6>3. LE(h[s], e[c])
            BY <1>3, <4>8, <5>3, <6>1, <6>2
          <6> QED BY <4>6, <5>3, <5>4, <6>3
        <5>5. CASE j # k /\ j < s
          <6>1. j \in 1 .. s - 1 /\ j \in top + 1 .. n
            BY <1>1, <3>k, <5>1, <5>2, <5>5, <4>3
          <6>2. c # s
            BY <3>k, <4>1, <5>1, <5>5
          <6>3. e[j] = h[j] /\ e[c] = h[c]
            BY <4>5, <6>1, <6>2
          <6>4. LE(h[j], h[c])
            BY <1>4, <6>1
          <6> QED BY <4>6, <5>2, <5>3, <5>5, <6>3, <6>4
        <5>6. CASE j # k /\ j >= s
          <6>1. j \in s .. n
            BY <1>1, <4>3, <5>2, <5>6
          <6>2. LE(e[j], e[c])
            BY <4>5, <6>1
          <6> QED BY <4>6, <5>2, <5>3, <5>6, <6>2
        <5> QED BY <4>3, <5>2, <5>4, <5>5, <5>6
      <4> QED BY <4>2, <4>9, <4>10, <4>11, <4>12
    <3> QED BY <3>2, <3>3
  <2> HIDE DEF K
  <2>2. \A k \in 1 .. n : k \in K
    BY <1>1, <2>1, InductionDown
  <2> QED BY <1>1, <2>2 DEF K
<1>8. Reordered(sunk[top], h)
  BY <1>2, SiftKeeps
<1>9. Good(sunk[top], top) /\ Len(sunk[top]) = n
  BY <1>1, <1>7, <1>8 DEF Reordered
<1> QED BY <1>2, <1>9 DEF Heapy, LE

-----------------------------------------------------------------------------
(* The first heap                                                          *)

\* The symbols in use, each once (trees.go:408-417)
LEMMA InUseIs ==
  ASSUME Elems \in Nat, NEW fc
  PROVE  /\ InUse(fc) \in Seq(Leaves) /\ Distinct(InUse(fc))
         /\ ToSet(InUse(fc)) = {n \in Leaves : fc[n] # 0}
<1> DEFINE E == Elems
           X == Seq(0 .. E - 1)
           G == [x \in X \X (1 .. E) |-> IF fc[x[2] - 1] # 0 THEN Append(x[1], x[2] - 1) ELSE x[1]]
           Eqn(f) == f = [n \in 0 .. E |->
                            IF n = 0 THEN <<>>
                            ELSE IF fc[n - 1] # 0 THEN Append(f[n - 1], n - 1) ELSE f[n - 1]]
           run == CHOOSE f : Eqn(f)
<1>1. E \in Nat
  OBVIOUS
<1>2. InUse(fc) = run[E]
  BY DEF InUse
<1> HIDE DEF E
<1>3. ASSUME NEW x \in X, NEW i \in 1 .. E
      PROVE  G[<<x, i>>] = (IF fc[i - 1] # 0 THEN Append(x, i - 1) ELSE x) /\ G[<<x, i>>] \in X
  <2>1. i - 1 \in 0 .. E - 1
    BY <1>1
  <2>2. Append(x, i - 1) \in X
    BY <2>1
  <2>3. G[<<x, i>>] = IF fc[i - 1] # 0 THEN Append(x, i - 1) ELSE x
    OBVIOUS
  <2> HIDE DEF G, X
  <2> QED BY <2>2, <2>3
<1>4. <<>> \in X
  OBVIOUS
<1> HIDE DEF G, X
<1>5. StepsIn(G, X, E)
  BY <1>3 DEF StepsIn
<1>6. PICK f : Loop(f, X, <<>>, E, G)
  BY <1>1, <1>4, <1>5, LoopExists
<1>7. Eqn(f)
  <2>1. f \in [0 .. E -> X] /\ f[0] = <<>> /\ \A i \in 1 .. E : f[i] = G[<<f[i - 1], i>>]
    BY <1>6 DEF Loop
  <2> SUFFICES ASSUME NEW i \in 0 .. E
               PROVE  f[i] = IF i = 0 THEN <<>>
                             ELSE IF fc[i - 1] # 0 THEN Append(f[i - 1], i - 1) ELSE f[i - 1]
    BY <2>1
  <2>2. CASE i = 0
    BY <2>1, <2>2
  <2>3. CASE i # 0
    <3>1. i \in 1 .. E /\ i - 1 \in 0 .. E
      BY <1>1, <2>3
    <3>2. f[i] = G[<<f[i - 1], i>>] /\ f[i - 1] \in X
      BY <2>1, <3>1
    <3> QED BY <1>3, <2>3, <3>1, <3>2
  <2> QED BY <2>2, <2>3
<1>8. Eqn(run)
  BY <1>7
<1> HIDE DEF run
<1>9. /\ run = [n \in 0 .. E |-> run[n]] /\ DOMAIN run = 0 .. E /\ run[0] = <<>>
      /\ \A i \in 1 .. E : run[i] = IF fc[i - 1] # 0 THEN Append(run[i - 1], i - 1) ELSE run[i - 1]
  <2>1. DOMAIN run = 0 .. E /\ run = [n \in 0 .. E |-> run[n]]
    BY <1>8
  <2>2. \A i \in 0 .. E : run[i] = IF i = 0 THEN <<>>
                                   ELSE IF fc[i - 1] # 0 THEN Append(run[i - 1], i - 1) ELSE run[i - 1]
    BY <1>8
  <2>3. 0 \in 0 .. E /\ \A i \in 1 .. E : i \in 0 .. E /\ i # 0
    BY <1>1
  <2> QED BY <2>1, <2>2, <2>3
<1>10. Loop(run, X, <<>>, E, G)
  <2>1. \A i \in 1 .. E : run[i - 1] \in X => run[i] = G[<<run[i - 1], i>>]
    BY <1>3, <1>9
  <2> QED BY <1>1, <1>4, <1>5, <1>9, <2>1, LoopIs
<1>11. \A n \in 0 .. E : run[n] \in X
  BY <1>10 DEF Loop
<1> DEFINE Good(s, n) == Distinct(s) /\ ToSet(s) = {j \in 0 .. n - 1 : fc[j] # 0}
           K == {n \in Nat : n <= E => Good(run[n], n)}
<1>12. 0 \in K
  <2>1. Distinct(<<>>)
    BY DEF Distinct
  <2>2. ToSet(<<>>) = {} /\ 0 .. 0 - 1 = {}
    BY DEF ToSet
  <2>3. Good(run[0], 0)
    BY <1>9, <2>1, <2>2
  <2> HIDE DEF Good
  <2> QED BY <2>3
<1>13. ASSUME NEW n \in 0 .. E - 1, n \in K PROVE n + 1 \in K
  <2>1. n \in Nat /\ n + 1 \in Nat /\ n <= E /\ n \in 0 .. E /\ n + 1 \in 1 .. E /\ (n + 1) - 1 = n
    BY <1>1
  <2>2. Good(run[n], n)
    BY <1>13, <2>1
  <2> DEFINE s == run[n]
             new == IF fc[n] # 0 THEN Append(s, n) ELSE s
  <2>3. run[n + 1] = new
    BY <1>9, <2>1
  <2>4. s \in Seq(0 .. E - 1)
    BY <1>11, <2>1 DEF X
  <2>5. 0 .. n = (0 .. n - 1) \cup {n} /\ n \notin 0 .. n - 1
    BY <2>1
  <2> HIDE DEF s
  <2>6. Good(new, n + 1)
    <3>1. CASE fc[n] # 0
      <4> DEFINE e == Append(s, n)
      <4>0. new = e
        BY <3>1
      <4>1. Len(e) = Len(s) + 1 /\ e[Len(s) + 1] = n /\ \A i \in 1 .. Len(s) : e[i] = s[i]
            /\ Len(s) \in Nat /\ DOMAIN s = 1 .. Len(s) /\ DOMAIN e = 1 .. Len(s) + 1
        BY <2>1, <2>4
      <4> HIDE DEF e, new, Good
      <4>2. 1 .. Len(s) + 1 = (1 .. Len(s)) \cup {Len(s) + 1}
        BY <4>1
      <4>3. ToSet(e) = ToSet(s) \cup {n}
        BY <4>1, <4>2 DEF ToSet
      <4>4. ToSet(s) = {j \in 0 .. n - 1 : fc[j] # 0} /\ Distinct(s)
        BY <2>2 DEF Good, s
      <4>5. ToSet(e) = {j \in 0 .. n : fc[j] # 0}
        BY <2>5, <3>1, <4>3, <4>4
      <4>6. \A i \in 1 .. Len(s) : s[i] # n
        BY <2>5, <4>1, <4>4 DEF ToSet
      <4>7. Distinct(e)
        <5>1. \A i, j \in 1 .. Len(s) : s[i] = s[j] => i = j
          BY <4>4 DEF Distinct
        <5>2. \A i, j \in 1 .. Len(s) + 1 : e[i] = e[j] => i = j
          BY <4>1, <4>2, <4>6, <5>1
        <5> QED BY <4>1, <5>2 DEF Distinct
      <4> QED BY <2>1, <4>0, <4>5, <4>7 DEF Good
    <3>2. CASE fc[n] = 0
      <4>1. {j \in 0 .. n : fc[j] # 0} = {j \in 0 .. n - 1 : fc[j] # 0}
        BY <2>5, <3>2
      <4>2. new = s
        BY <3>2
      <4> HIDE DEF new
      <4> QED BY <2>1, <2>2, <4>1, <4>2 DEF s
    <3> QED BY <3>1, <3>2
  <2> HIDE DEF Good, new, s
  <2> QED BY <2>1, <2>3, <2>6
<1> HIDE DEF K
<1>14. \A n \in 0 .. E : n \in K
  BY <1>1, <1>12, <1>13, InductionUpTo
<1>15. Good(run[E], E) /\ run[E] \in X
  <2>1. E \in 0 .. E /\ E <= E
    BY <1>1
  <2>2. E \in K
    BY <1>14, <2>1
  <2> HIDE DEF Good
  <2> QED BY <1>11, <2>1, <2>2 DEF K
<1> QED BY <1>2, <1>15 DEF X, E, Leaves

\* One list behind another of other elements
LEMMA Chained ==
  ASSUME NEW V, NEW s \in Seq(V), NEW r \in Seq(V), Distinct(s), Distinct(r),
         ToSet(s) \cap ToSet(r) = {}
  PROVE  s \o r \in Seq(V) /\ Distinct(s \o r) /\ ToSet(s \o r) = ToSet(s) \cup ToSet(r)
         /\ Len(s \o r) = Len(s) + Len(r)
<1> DEFINE m == Len(s)
           n == Len(r)
           e == s \o r
<1>1. /\ m \in Nat /\ n \in Nat /\ e \in Seq(V) /\ Len(e) = m + n
      /\ DOMAIN s = 1 .. m /\ DOMAIN r = 1 .. n /\ DOMAIN e = 1 .. m + n
      /\ \A i \in 1 .. m : e[i] = s[i]
      /\ \A i \in 1 .. n : e[m + i] = r[i]
  OBVIOUS
<1> HIDE DEF m, n, e
<1>2. \A i \in 1 .. m : s[i] \in ToSet(s)
  BY <1>1 DEF ToSet
<1>3. \A i \in 1 .. n : r[i] \in ToSet(r)
  BY <1>1 DEF ToSet
<1>4. ASSUME NEW i \in 1 .. m + n
      PROVE  (i \in 1 .. m /\ e[i] = s[i]) \/ (i - m \in 1 .. n /\ e[i] = r[i - m])
  <2>1. i \in 1 .. m \/ (i - m \in 1 .. n /\ m + (i - m) = i)
    BY <1>1
  <2>2. CASE i \in 1 .. m
    <3>1. e[i] = s[i]
      BY <1>1, <2>2
    <3> QED BY <2>2, <3>1
  <2>3. CASE i - m \in 1 .. n /\ m + (i - m) = i
    <3>1. e[m + (i - m)] = r[i - m]
      BY <1>1, <2>3
    <3> QED BY <2>3, <3>1
  <2> QED BY <2>1, <2>2, <2>3
<1>5. ToSet(e) = ToSet(s) \cup ToSet(r)
  <2>1. ASSUME NEW x \in ToSet(e) PROVE x \in ToSet(s) \cup ToSet(r)
    <3>1. PICK i \in 1 .. m + n : x = e[i]
      BY <1>1 DEF ToSet
    <3> QED BY <1>2, <1>3, <1>4, <3>1
  <2>2. ASSUME NEW x \in ToSet(s) PROVE x \in ToSet(e)
    <3>1. PICK i \in 1 .. m : x = s[i]
      BY <1>1 DEF ToSet
    <3>2. i \in 1 .. m + n
      BY <1>1
    <3> QED BY <1>1, <3>1, <3>2 DEF ToSet
  <2>3. ASSUME NEW x \in ToSet(r) PROVE x \in ToSet(e)
    <3>1. PICK i \in 1 .. n : x = r[i]
      BY <1>1 DEF ToSet
    <3>2. m + i \in 1 .. m + n
      BY <1>1
    <3> QED BY <1>1, <3>1, <3>2 DEF ToSet
  <2> QED BY <2>1, <2>2, <2>3
<1>6. ASSUME NEW i \in 1 .. m + n, NEW j \in 1 .. m + n, e[i] = e[j] PROVE i = j
  <2>1. \A x, y \in 1 .. m : s[x] = s[y] => x = y
    BY DEF Distinct, m
  <2>2. \A x, y \in 1 .. n : r[x] = r[y] => x = y
    BY DEF Distinct, n
  <2>3. \A x \in 1 .. m, y \in 1 .. n : s[x] # r[y]
    BY <1>2, <1>3
  <2>4. CASE i \in 1 .. m /\ e[i] = s[i] /\ j \in 1 .. m /\ e[j] = s[j]
    BY <1>6, <2>1, <2>4
  <2>5. CASE i - m \in 1 .. n /\ e[i] = r[i - m] /\ j - m \in 1 .. n /\ e[j] = r[j - m]
    <3>1. i - m = j - m
      BY <1>6, <2>2, <2>5
    <3> QED BY <1>1, <3>1
  <2>6. CASE i \in 1 .. m /\ e[i] = s[i] /\ j - m \in 1 .. n /\ e[j] = r[j - m]
    BY <1>6, <2>3, <2>6
  <2>7. CASE j \in 1 .. m /\ e[j] = s[j] /\ i - m \in 1 .. n /\ e[i] = r[i - m]
    BY <1>6, <2>3, <2>7
  <2> QED BY <1>4, <2>4, <2>5, <2>6, <2>7
<1>7. Distinct(e)
  BY <1>1, <1>6 DEF Distinct
<1> QED BY <1>1, <1>5, <1>7 DEF e, m, n

\* The last element in place of the first
LEMMA RootTaken ==
  ASSUME NEW V, NEW h \in Seq(V), Distinct(h), Len(h) >= 2
  PROVE  LET g == [Front(h) EXCEPT ![1] = Last(h)]
         IN  /\ g \in Seq(V) /\ Distinct(g) /\ Len(g) = Len(h) - 1
             /\ ToSet(g) = ToSet(h) \ {h[1]}
             /\ \A i \in 2 .. Len(g) : g[i] = h[i]
<1> DEFINE n == Len(h)
           f == Front(h)
           g == [f EXCEPT ![1] = Last(h)]
<1>1. n \in Nat /\ DOMAIN h = 1 .. n /\ n >= 2 /\ h \in [1 .. n -> V]
  OBVIOUS
<1>2. f = [i \in 1 .. n - 1 |-> h[i]]
  BY <1>1 DEF Front
<1>3. Last(h) = h[n]
  BY DEF Last
<1>4. \A i, j \in 1 .. n : h[i] = h[j] => i = j
  BY DEF Distinct
<1> HIDE DEF n, f
<1>5. DOMAIN g = 1 .. n - 1 /\ g[1] = h[n] /\ \A i \in 2 .. n - 1 : g[i] = h[i]
  BY <1>1, <1>2, <1>3
<1>6. g \in [1 .. n - 1 -> V]
  <2>1. 1 \in 1 .. n /\ n \in 1 .. n /\ \A i \in 1 .. n - 1 : i \in 1 .. n
    BY <1>1
  <2> QED BY <1>1, <1>2, <1>3, <2>1
<1> HIDE DEF g
<1>7. g \in Seq(V) /\ Len(g) = n - 1
  <2>1. n - 1 \in Nat
    BY <1>1
  <2>2. g \in Seq(V)
    BY <1>6, <2>1
  <2> QED BY <1>5, <2>1, <2>2
<1>8. \A i \in 1 .. n - 1 : (i = 1 /\ g[i] = h[n]) \/ (i \in 2 .. n - 1 /\ g[i] = h[i])
  BY <1>1, <1>5
<1>9. ToSet(g) = ToSet(h) \ {h[1]}
  <2>1. ASSUME NEW x \in ToSet(g) PROVE x \in ToSet(h) \ {h[1]}
    <3>1. PICK i \in 1 .. n - 1 : x = g[i]
      BY <1>5 DEF ToSet
    <3>2. 1 \in 1 .. n /\ n \in 1 .. n /\ n # 1 /\ (i \in 2 .. n - 1 => i \in 1 .. n /\ i # 1)
      BY <1>1
    <3> QED BY <1>1, <1>4, <1>8, <3>1, <3>2 DEF ToSet
  <2>2. ASSUME NEW x \in ToSet(h), x # h[1] PROVE x \in ToSet(g)
    <3>1. PICK i \in 1 .. n : x = h[i]
      BY <1>1 DEF ToSet
    <3>2. 1 \in 1 .. n - 1 /\ (i = 1 \/ i = n \/ (i \in 2 .. n - 1 /\ i \in 1 .. n - 1))
      BY <1>1
    <3> QED BY <1>5, <2>2, <3>1, <3>2 DEF ToSet
  <2> QED BY <2>1, <2>2
<1>10. Distinct(g)
  <2>1. ASSUME NEW i \in 1 .. n - 1, NEW j \in 1 .. n - 1, g[i] = g[j] PROVE i = j
    <3>1. n \in 1 .. n /\ \A x \in 2 .. n - 1 : x \in 1 .. n /\ x # n
      BY <1>1
    <3> QED BY <1>4, <1>8, <2>1, <3>1
  <2> QED BY <1>7, <2>1 DEF Distinct
<1> QED BY <1>5, <1>7, <1>9, <1>10 DEF g, f, n

\* Another element in place of the first
Rerooted(h, x) == [h EXCEPT ![1] = x]

LEMMA RootReplaced ==
  ASSUME NEW V, NEW h \in Seq(V), Distinct(h), Len(h) >= 1, NEW x \in V, x \notin ToSet(h)
  PROVE  /\ Rerooted(h, x) \in Seq(V) /\ Distinct(Rerooted(h, x)) /\ Len(Rerooted(h, x)) = Len(h)
         /\ ToSet(Rerooted(h, x)) = (ToSet(h) \ {h[1]}) \cup {x} /\ Rerooted(h, x)[1] = x
         /\ \A i \in 2 .. Len(h) : Rerooted(h, x)[i] = h[i]
<1> DEFINE n == Len(h)
           g == Rerooted(h, x)
<1>1. n \in Nat /\ DOMAIN h = 1 .. n /\ n >= 1 /\ h \in [1 .. n -> V] /\ \A i \in 1 .. n : h[i] # x
  BY DEF ToSet
<1>4. \A i, j \in 1 .. n : h[i] = h[j] => i = j
  BY DEF Distinct
<1> HIDE DEF n
<1>5. DOMAIN g = 1 .. n /\ g[1] = x /\ (\A i \in 2 .. n : g[i] = h[i]) /\ g \in [1 .. n -> V]
  BY <1>1 DEF Rerooted
<1> HIDE DEF g
<1>7. g \in Seq(V) /\ Len(g) = n
  <2>2. g \in Seq(V)
    BY <1>1, <1>5
  <2> QED BY <1>1, <1>5, <2>2
<1>8. 1 .. n = {1} \cup (2 .. n) /\ 1 \notin 2 .. n
  BY <1>1
<1>9. ToSet(g) = (ToSet(h) \ {h[1]}) \cup {x}
  <2>1. ToSet(g) = {x} \cup {h[i] : i \in 2 .. n}
    BY <1>5, <1>8 DEF ToSet
  <2>2. ToSet(h) = {h[1]} \cup {h[i] : i \in 2 .. n}
    BY <1>1, <1>8 DEF ToSet
  <2>3. \A i \in 2 .. n : h[i] # h[1]
    BY <1>4, <1>8
  <2> QED BY <2>1, <2>2, <2>3
<1>10. Distinct(g)
  <2>1. \A i, j \in 1 .. n : g[i] = g[j] => i = j
    BY <1>1, <1>4, <1>5, <1>8
  <2> QED BY <1>7, <2>1 DEF Distinct
<1> QED BY <1>5, <1>7, <1>9, <1>10 DEF g, n

\* The first node of a heap is its least
LEMMA RootLeast ==
  ASSUME NEW tr, NEW V, Ordered(tr, V), NEW h \in Seq(V), Heapy(tr, h, 1)
  PROVE  \A i \in 1 .. Len(h) : Smaller(tr, h[1], h[i])
<1> DEFINE n == Len(h)
           LE(a, b) == Smaller(tr, a, b)
           X == {i \in 1 .. n : LE(h[1], h[i])}
<1>1. n \in Nat /\ \A i \in 1 .. n : h[i] \in V
  OBVIOUS
<1>2. \A a, b, c \in V : (LE(a, b) \/ LE(b, a)) /\ (LE(a, b) /\ LE(b, c) => LE(a, c))
  BY DEF Ordered
<1>3. \A k \in 1 .. n : \A s \in {2 * k, 2 * k + 1} : s <= n => LE(h[k], h[s])
  BY DEF Heapy
<1> HIDE DEF n, LE
<1>4. ASSUME NEW k \in 1 .. n, \A s \in 1 .. k - 1 : s \in X PROVE k \in X
  <2>1. CASE k = 1
    BY <1>1, <1>2, <2>1
  <2>2. CASE k # 1
    <3> DEFINE j == k \div 2
    <3>1. j \in 1 .. k - 1 /\ j \in 1 .. n /\ k \in {2 * j, 2 * j + 1} /\ 1 \in 1 .. n
      BY <1>1, <2>2
    <3> HIDE DEF j
    <3>2. LE(h[1], h[j]) /\ LE(h[j], h[k])
      <4>1. j \in X
        BY <1>4, <3>1
      <4>2. k \in {2 * j, 2 * j + 1} => LE(h[j], h[k])
        <5>1. \A s \in {2 * j, 2 * j + 1} : s <= n => LE(h[j], h[s])
          BY <1>3, <3>1
        <5> QED BY <1>1, <5>1
      <4> QED BY <3>1, <4>1, <4>2
    <3> QED BY <1>1, <1>2, <3>1, <3>2
  <2> QED BY <2>1, <2>2
<1> HIDE DEF X
<1>5. \A k \in 1 .. n : k \in X
  BY <1>1, <1>4, InductionFrom
<1> QED BY <1>5 DEF X, LE, n

TreeRec == [fc : [Nodes -> Nat], dl : [Nodes -> Nat], depth : [Nodes -> Nat],
            heap : Seq(Nodes), sorted : Seq(Nodes), maxCode : Leaves]

\* smaller is a total order on nodes with counts and depths (trees.go:273-277)
LEMMA OrderedIs ==
  ASSUME NEW tr, NEW V, tr.fc \in [V -> Nat], tr.depth \in [V -> Nat]
  PROVE  Ordered(tr, V)
<1> DEFINE f == tr.fc
           d == tr.depth
<1>1. \A a \in V : f[a] \in Nat /\ d[a] \in Nat
  OBVIOUS
<1>2. \A a, b : Smaller(tr, a, b) <=> (f[a] < f[b] \/ (f[a] = f[b] /\ d[a] <= d[b]))
  BY DEF Smaller
<1> HIDE DEF f, d
<1>3. \A a, b, c \in V : /\ Smaller(tr, a, b) \/ Smaller(tr, b, a)
                         /\ Smaller(tr, a, b) /\ Smaller(tr, b, c) => Smaller(tr, a, c)
  BY <1>1, <1>2
<1> QED BY <1>3 DEF Ordered

\* With the same counts and depths of its nodes, a heap is one for both
LEMMA HeapyAs ==
  ASSUME NEW tr, NEW u, NEW h, NEW lo \in Nat, lo >= 1,
         \A i \in 1 .. Len(h) : tr.fc[h[i]] = u.fc[h[i]] /\ tr.depth[h[i]] = u.depth[h[i]],
         Len(h) \in Nat, Heapy(tr, h, lo)
  PROVE  Heapy(u, h, lo)
<1> SUFFICES ASSUME NEW k \in lo .. Len(h), NEW s \in {2 * k, 2 * k + 1}, s <= Len(h)
             PROVE  Smaller(u, h[k], h[s])
  BY DEF Heapy
<1>1. Smaller(tr, h[k], h[s])
  BY DEF Heapy
<1>2. k \in 1 .. Len(h) /\ s \in 1 .. Len(h)
  OBVIOUS
<1> QED BY <1>1, <1>2 DEF Smaller

\* Establishing sub-heaps makes the whole a heap of the same nodes (trees.go:439-442)
LEMMA SubHeapsIs ==
  ASSUME NEW tr \in TreeRec, Distinct(tr.heap)
  PROVE  \E g : /\ Reordered(g, tr.heap) /\ Heapy(tr, g, 1)
                /\ SubHeaps(tr) = [tr EXCEPT !.heap = g]
<1> DEFINE V == Nodes
           h == tr.heap
           n == Len(h)
           half == n \div 2
           At_(g) == [tr EXCEPT !.heap = g]
           Kept == {g \in Seq(V) : Reordered(g, h)}
           X == {At_(g) : g \in Kept}
           G == [x \in X \X (1 .. half) |-> PqDownHeap(x[1], half + 1 - x[2])]
           Eqn(f) == f = [k \in 0 .. half |->
                            IF k = 0 THEN tr ELSE PqDownHeap(f[k - 1], half + 1 - k)]
           run == CHOOSE f : Eqn(f)
<1>0. SubHeaps(tr) = run[half]
  BY DEF SubHeaps
<1>1. h \in Seq(V) /\ tr.fc \in [V -> Nat] /\ tr.depth \in [V -> Nat] /\ "heap" \in DOMAIN tr
      /\ tr = [tr EXCEPT !.heap = h]
  BY DEF TreeRec
<1>2. n \in Nat /\ half \in Nat /\ 2 * half <= n /\ n < 2 * half + 2
  BY <1>1
<1>3. \A g : At_(g).heap = g /\ At_(g).fc = tr.fc /\ At_(g).depth = tr.depth
             /\ \A e : [At_(g) EXCEPT !.heap = e] = At_(e)
  BY <1>1 DEF TreeRec
<1>4. h \in Kept /\ tr = At_(h)
  BY <1>1 DEF Reordered
<1> HIDE DEF half, At_, h, V
<1>5. ASSUME NEW g \in Kept, NEW top \in 1 .. half
      PROVE  /\ PqDownHeap(At_(g), top) = At_(SiftDown(At_(g), g, top))
             /\ SiftDown(At_(g), g, top) \in Kept
             /\ Heapy(tr, g, top + 1) => Heapy(tr, SiftDown(At_(g), g, top), top)
  <2> DEFINE u == At_(g)
  <2>1. u.heap = g /\ u.fc = tr.fc /\ u.depth = tr.depth /\ PqDownHeap(u, top) = At_(SiftDown(u, g, top))
    BY <1>3 DEF PqDownHeap
  <2> HIDE DEF u
  <2>2. g \in Seq(V) /\ Len(g) = n /\ Distinct(g)
    BY DEF Reordered
  <2>3. top \in 1 .. Len(g) /\ top \in Nat /\ top + 1 \in Nat /\ top + 1 >= 1 /\ Len(g) \in Nat /\ top >= 1
    BY <1>2, <2>2
  <2>4. Reordered(SiftDown(u, g, top), g)
    BY <2>2, <2>3, SiftKeeps
  <2>5. Reordered(SiftDown(u, g, top), h)
    BY <2>4 DEF Reordered
  <2>6. SiftDown(u, g, top) \in Seq(V)
    BY <2>2, <2>4 DEF Reordered
  <2>7. ASSUME Heapy(tr, g, top + 1) PROVE Heapy(tr, SiftDown(u, g, top), top)
    <3>1. Heapy(u, g, top + 1)
      BY <2>1, <2>3, <2>7, HeapyAs
    <3>2. Ordered(u, V)
      BY <1>1, <2>1, OrderedIs
    <3>3. Heapy(u, SiftDown(u, g, top), top)
      BY <2>2, <2>3, <3>1, <3>2, SiftSorts
    <3>4. Len(SiftDown(u, g, top)) \in Nat
      BY <2>3, <2>4 DEF Reordered
    <3> QED BY <2>1, <2>3, <3>3, <3>4, HeapyAs
  <2> QED BY <2>1, <2>5, <2>6, <2>7 DEF u
<1> HIDE DEF Kept
<1>6. \A k \in 1 .. half : half + 1 - k \in 1 .. half
  BY <1>2
<1>7. ASSUME NEW x \in X, NEW k \in 1 .. half
      PROVE  G[<<x, k>>] = PqDownHeap(x, half + 1 - k) /\ G[<<x, k>>] \in X
  <2>1. PICK g \in Kept : x = At_(g)
    OBVIOUS
  <2>2. PqDownHeap(x, half + 1 - k) \in X
    BY <1>5, <1>6, <2>1
  <2> HIDE DEF X
  <2> QED BY <2>2
<1>8. tr \in X
  BY <1>4
<1> HIDE DEF G
<1>9. StepsIn(G, X, half)
  <2> HIDE DEF X
  <2> QED BY <1>7 DEF StepsIn
<1>10. PICK f : Loop(f, X, tr, half, G)
  <2> HIDE DEF X
  <2> QED BY <1>2, <1>8, <1>9, LoopExists
<1>11. Eqn(f)
  <2> HIDE DEF X
  <2>1. f \in [0 .. half -> X] /\ f[0] = tr /\ \A i \in 1 .. half : f[i] = G[<<f[i - 1], i>>]
    BY <1>10 DEF Loop
  <2> SUFFICES ASSUME NEW i \in 0 .. half
               PROVE  f[i] = IF i = 0 THEN tr ELSE PqDownHeap(f[i - 1], half + 1 - i)
    BY <2>1
  <2>2. CASE i = 0
    BY <2>1, <2>2
  <2>3. CASE i # 0
    <3>1. i \in 1 .. half /\ i - 1 \in 0 .. half
      BY <1>2, <2>3
    <3>2. f[i] = G[<<f[i - 1], i>>] /\ f[i - 1] \in X
      BY <2>1, <3>1
    <3> QED BY <1>7, <2>3, <3>1, <3>2
  <2> QED BY <2>2, <2>3
<1>12. Eqn(run)
  BY <1>11
<1> HIDE DEF run
<1>13. /\ DOMAIN run = 0 .. half /\ run[0] = tr
       /\ \A i \in 1 .. half : run[i] = PqDownHeap(run[i - 1], half + 1 - i)
  <2>1. DOMAIN run = 0 .. half
    BY <1>12
  <2>2. \A i \in 0 .. half : run[i] = IF i = 0 THEN tr ELSE PqDownHeap(run[i - 1], half + 1 - i)
    BY <1>12
  <2>3. 0 \in 0 .. half /\ \A i \in 1 .. half : i \in 0 .. half /\ i # 0
    BY <1>2
  <2> QED BY <2>1, <2>2, <2>3
<1> DEFINE K == {k \in Nat : k <= half => \E g \in Kept : run[k] = At_(g) /\ Heapy(tr, g, half + 1 - k)}
<1>14. 0 \in K
  <2>1. Heapy(tr, h, half + 1)
    <3> SUFFICES ASSUME NEW k \in half + 1 .. Len(h), NEW s \in {2 * k, 2 * k + 1}, s <= Len(h)
                 PROVE  FALSE
      BY DEF Heapy
    <3> QED BY <1>2
  <2>2. half + 1 - 0 = half + 1
    BY <1>2
  <2> QED BY <1>4, <1>13, <2>1, <2>2
<1>15. ASSUME NEW k \in 0 .. half - 1, k \in K PROVE k + 1 \in K
  <2>1. /\ k \in Nat /\ k + 1 \in Nat /\ k <= half /\ k + 1 \in 1 .. half /\ (k + 1) - 1 = k
        /\ half + 1 - (k + 1) \in 1 .. half /\ (half + 1 - (k + 1)) + 1 = half + 1 - k
    BY <1>2
  <2>2. PICK g \in Kept : run[k] = At_(g) /\ Heapy(tr, g, half + 1 - k)
    BY <1>15, <2>1
  <2> DEFINE top == half + 1 - (k + 1)
             e == SiftDown(At_(g), g, top)
  <2>3. run[k + 1] = PqDownHeap(At_(g), top)
    BY <1>13, <2>1, <2>2
  <2>4. Heapy(tr, g, top + 1) /\ top \in 1 .. half
    BY <2>1, <2>2
  <2> HIDE DEF top
  <2>5. e \in Kept /\ PqDownHeap(At_(g), top) = At_(e) /\ Heapy(tr, e, top)
    BY <1>5, <2>4
  <2> HIDE DEF e
  <2>6. run[k + 1] = At_(e) /\ Heapy(tr, e, half + 1 - (k + 1))
    BY <2>3, <2>5 DEF top
  <2> QED BY <2>1, <2>5, <2>6
<1> HIDE DEF K
<1>16. \A k \in 0 .. half : k \in K
  BY <1>2, <1>14, <1>15, InductionUpTo
<1>17. half \in K /\ half \in Nat /\ half <= half /\ half + 1 - half = 1
  BY <1>2, <1>16
<1>18. PICK g \in Kept : run[half] = At_(g) /\ Heapy(tr, g, half + 1 - half)
  BY <1>17 DEF K
<1>19. Reordered(g, h)
  BY DEF Kept
<1>20. Heapy(tr, g, 1)
  BY <1>17, <1>18
<1> QED BY <1>0, <1>18, <1>19, <1>20 DEF h, At_

-----------------------------------------------------------------------------
(* The merge loop                                                          *)

\* The symbols in the tree, forced ones included
InTree(tr) == {n \in Leaves : tr.fc[n] # 0}
Turns(tr)  == Len(tr.sorted) \div 2

\* What is in the heap and what has been taken out of it
Merging(tr) ==
  /\ tr \in TreeRec
  /\ Distinct(tr.heap) /\ Distinct(tr.sorted)
  /\ ToSet(tr.heap) \cap ToSet(tr.sorted) = {}
  /\ ToSet(tr.heap) \cup ToSet(tr.sorted) = InTree(tr) \cup (Elems .. Elems + Turns(tr) - 1)
  /\ Len(tr.sorted) = 2 * Turns(tr) /\ Len(tr.heap) >= 1
  /\ Len(tr.heap) + Turns(tr) = Cardinality(InTree(tr)) /\ Cardinality(InTree(tr)) >= 2
  /\ \A i \in 1 .. Len(tr.sorted) :
       /\ tr.dl[tr.sorted[i]] = Elems + Turns(tr) - ((i + 1) \div 2)
       /\ tr.sorted[i] < tr.dl[tr.sorted[i]]
  /\ tr.maxCode \in InTree(tr) /\ \A n \in InTree(tr) : n <= tr.maxCode

\* In what order
Queue(tr) ==
  /\ Heapy(tr, tr.heap, 1)
  /\ \A n \in ToSet(tr.heap) \cup ToSet(tr.sorted) : tr.fc[n] > 0
  /\ \A j \in 1 .. Turns(tr) :
       tr.fc[Elems + Turns(tr) - j] = tr.fc[tr.sorted[2 * j - 1]] + tr.fc[tr.sorted[2 * j]]
  /\ \A i, j \in 1 .. Len(tr.sorted) : i <= j => tr.fc[tr.sorted[j]] <= tr.fc[tr.sorted[i]]
  /\ \A i \in 1 .. Len(tr.sorted), n \in ToSet(tr.heap) : tr.fc[tr.sorted[i]] <= tr.fc[n]

\* One turn: n and m, the least nodes, become the sons of node
Turned(tr, u, n, m, g) ==
  /\ u = [tr EXCEPT !.heap = g, !.sorted = <<m, n>> \o @,
                    !.fc[Elems + Turns(tr)] = tr.fc[n] + tr.fc[m],
                    !.depth[Elems + Turns(tr)] = Max({tr.depth[n], tr.depth[m]}) + 1,
                    !.dl[n] = Elems + Turns(tr), !.dl[m] = Elems + Turns(tr)]
  /\ n \in ToSet(tr.heap) /\ m \in ToSet(tr.heap) /\ n # m
  /\ g \in Seq(Nodes) /\ Distinct(g) /\ Len(g) = Len(tr.heap) - 1
  /\ ToSet(g) = (ToSet(tr.heap) \ {n, m}) \cup {Elems + Turns(tr)}
  /\ \A x \in ToSet(tr.heap) : Smaller(tr, n, x) /\ (x # n => Smaller(tr, m, x))

LEMMA TurnsIs ==
  ASSUME Elems \in Nat, NEW tr, Merging(tr)
  PROVE  /\ Turns(tr) \in Nat /\ InTree(tr) \in SUBSET Leaves /\ IsFiniteSet(InTree(tr))
         /\ Cardinality(InTree(tr)) \in Nat /\ Cardinality(InTree(tr)) <= Elems
         /\ Len(tr.heap) \in Nat /\ Len(tr.sorted) \in Nat
         /\ tr.heap \in Seq(Nodes) /\ tr.sorted \in Seq(Nodes)
         /\ Turns(tr) < Elems /\ Elems \in Nodes
<1>1. tr.heap \in Seq(Nodes) /\ tr.sorted \in Seq(Nodes)
  BY DEF Merging, TreeRec
<1>2. Len(tr.heap) \in Nat /\ Len(tr.sorted) \in Nat
  BY <1>1
<1>3. Turns(tr) \in Nat
  <2> DEFINE l == Len(tr.sorted)
  <2>1. l \in Nat
    BY <1>2
  <2> HIDE DEF l
  <2>2. l \div 2 \in Nat
    BY <2>1
  <2> QED BY <2>2 DEF Turns, l
<1>4. InTree(tr) \in SUBSET Leaves
  BY DEF InTree
<1>5. IsFiniteSet(Leaves) /\ Cardinality(Leaves) = Elems
  <2>1. IsFiniteSet(0 .. Elems - 1)
    BY FS_Interval
  <2>2. Cardinality(0 .. Elems - 1) = IF 0 > Elems - 1 THEN 0 ELSE (Elems - 1) - 0 + 1
    BY FS_Interval
  <2> QED BY <2>1, <2>2 DEF Leaves
<1>6. IsFiniteSet(InTree(tr)) /\ Cardinality(InTree(tr)) <= Cardinality(Leaves)
  BY <1>4, <1>5, FS_Subset
<1>7. Cardinality(InTree(tr)) \in Nat
  BY <1>6, FS_CardinalityType
<1>8. Len(tr.heap) + Turns(tr) = Cardinality(InTree(tr)) /\ Len(tr.heap) >= 1
  BY DEF Merging
<1>9. Cardinality(InTree(tr)) <= Elems
  BY <1>5, <1>6
<1>10. Turns(tr) < Elems
  BY <1>2, <1>3, <1>7, <1>8, <1>9
<1>11. Elems \in Nodes
  BY <1>3, <1>10 DEF Nodes
<1> QED BY <1>1, <1>2, <1>3, <1>4, <1>6, <1>7, <1>9, <1>10, <1>11

LEMMA SonPlace ==
  ASSUME NEW n \in Nat, NEW j \in 2 .. n, NEW s \in {2 * j, 2 * j + 1}, s <= n
  PROVE  s \in 2 .. n /\ s \in 1 .. n /\ j \in 1 .. n
OBVIOUS

LEMMA MaxOfTwo ==
  ASSUME NEW a \in Nat, NEW b \in Nat
  PROVE  Max({a, b}) \in Nat
<1>1. \E x \in {a, b} : \A y \in {a, b} : x >= y
  OBVIOUS
<1>2. Max({a, b}) \in {a, b}
  BY <1>1 DEF Max
<1> QED BY <1>2

\* A turn of the merge loop joins the two least nodes and leaves a heap (trees.go:446-471)
LEMMA MergeStep ==
  ASSUME Elems \in Nat, Merging(t), Heapy(t, t.heap, 1), Merge
  PROVE  \E n, m, g : Turned(t, t', n, m, g) /\ Heapy(t', g, 1)
<1> DEFINE N == Nodes
           h == t.heap
           k == Elems + Turns(t)
           n == h[1]
           f == [Front(h) EXCEPT ![1] = Last(h)]
           tf == [t EXCEPT !.heap = f]
           r == SiftDown(tf, f, 1)
           m == r[1]
           e == Rerooted(r, k)
           fc == [t.fc EXCEPT ![k] = t.fc[n] + t.fc[m]]
           depth == [t.depth EXCEPT ![k] = Max({t.depth[n], t.depth[m]}) + 1]
           dl == [t.dl EXCEPT ![n] = k, ![m] = k]
           te == [fc |-> fc, dl |-> dl, depth |-> depth, heap |-> e,
                  sorted |-> <<m, n>> \o t.sorted, maxCode |-> t.maxCode]
           g == SiftDown(te, e, 1)
<1>0. /\ t \in TreeRec /\ Distinct(h) /\ h \in Seq(N) /\ Len(h) \in Nat /\ Len(h) >= 2
      /\ Turns(t) \in Nat /\ t.fc \in [N -> Nat] /\ t.depth \in [N -> Nat] /\ t.dl \in [N -> Nat]
  BY TurnsIs DEF Merging, Merge, TreeRec
<1>1. k \in N /\ k \notin ToSet(h)
  <2>1. Len(t.heap) + Turns(t) = Cardinality(InTree(t)) /\ Cardinality(InTree(t)) <= Elems
        /\ Cardinality(InTree(t)) \in Nat
    BY TurnsIs DEF Merging
  <2>2. Elems + Turns(t) \in 0 .. 2 * Elems - 1
    BY <1>0, <2>1, SMTT(40)
  <2>3. ToSet(h) \subseteq Leaves \cup (Elems .. Elems + Turns(t) - 1)
    BY TurnsIs DEF Merging
  <2>4. Elems + Turns(t) \notin Leaves \cup (Elems .. Elems + Turns(t) - 1)
    BY <1>0 DEF Leaves
  <2> QED BY <2>2, <2>3, <2>4 DEF Nodes
<1>2. f \in Seq(N) /\ Distinct(f) /\ Len(f) = Len(h) - 1 /\ ToSet(f) = ToSet(h) \ {n}
      /\ \A i \in 2 .. Len(f) : f[i] = h[i]
  <2> HIDE DEF N, h
  <2> QED BY <1>0, RootTaken DEF n
<1>3. n \in ToSet(h) /\ n \in N
  <2> HIDE DEF N, h
  <2>1. 1 \in 1 .. Len(h) /\ DOMAIN h = 1 .. Len(h)
    BY <1>0
  <2>2. h[1] \in N
    BY <1>0, <2>1
  <2>3. h[1] \in ToSet(h)
    BY <2>1 DEF ToSet
  <2> QED BY <2>2, <2>3
<1> HIDE DEF N, h, f
<1>4. Ordered(t, N)
  BY <1>0, OrderedIs
<1>5. tf.heap = f /\ tf.fc = t.fc /\ tf.depth = t.depth /\ tf.sorted = t.sorted
      /\ tf.dl = t.dl /\ tf.maxCode = t.maxCode
  BY <1>0 DEF TreeRec
<1>6. Ordered(tf, N)
  BY <1>0, <1>5, OrderedIs
<1>7. Heapy(tf, f, 2)
  <2>1. Heapy(t, h, 1)
    BY DEF h
  <2> HIDE DEF tf
  <2> SUFFICES ASSUME NEW j \in 2 .. Len(f), NEW s \in {2 * j, 2 * j + 1}, s <= Len(f)
               PROVE  Smaller(tf, f[j], f[s])
    BY DEF Heapy
  <2>2. j \in 1 .. Len(h) /\ s <= Len(h) /\ j \in 2 .. Len(f) /\ s \in 2 .. Len(f)
    <3>0. Len(f) = Len(h) - 1 /\ Len(h) \in Nat /\ Len(h) >= 2
      BY <1>0, <1>2
    <3> DEFINE lf == Len(f)
               lh == Len(h)
    <3> HIDE DEF lf, lh
    <3>01. lf = lh - 1 /\ lh \in Nat /\ lh >= 2
      BY <3>0 DEF lf, lh
    <3>02. lf \in Nat /\ lf <= lh
      BY <3>01
    <3>1. Len(f) \in Nat /\ Len(f) <= Len(h)
      BY <3>02 DEF lf, lh
    <3>2. s \in 2 .. Len(f) /\ s \in 1 .. Len(f) /\ j \in 1 .. Len(f)
      BY <3>1, SonPlace
    <3>3. j \in 2 .. lf /\ s <= lf
      BY <3>2 DEF lf
    <3>4. j \in 1 .. lh /\ s <= lh
      BY <3>01, <3>02, <3>3
    <3> QED BY <3>2, <3>4 DEF lh
  <2>3. Smaller(t, h[j], h[s])
    BY <2>1, <2>2 DEF Heapy
  <2> QED BY <1>2, <1>5, <2>2, <2>3 DEF Smaller
<1>8. 1 \in 1 .. Len(f) /\ 1 + 1 = 2
  BY <1>0, <1>2
<1> HIDE DEF tf, n
<1>9. Reordered(r, f) /\ Heapy(tf, r, 1)
  <2>1. Reordered(SiftDown(tf, f, 1), f)
    BY <1>2, <1>8, SiftKeeps
  <2>2. Heapy(tf, SiftDown(tf, f, 1), 1)
    BY <1>2, <1>6, <1>7, <1>8, SiftSorts
  <2> QED BY <2>1, <2>2
<1> HIDE DEF r
<1>10. r \in Seq(N) /\ Distinct(r) /\ Len(r) = Len(h) - 1 /\ ToSet(r) = ToSet(h) \ {n}
       /\ Len(r) >= 1
  BY <1>0, <1>2, <1>9 DEF Reordered
<1>11. m \in ToSet(r) /\ m \in N /\ m # n /\ m \in ToSet(h)
  <2>1. 1 \in 1 .. Len(r) /\ DOMAIN r = 1 .. Len(r)
    BY <1>0, <1>10
  <2>2. m \in N
    BY <1>10, <2>1
  <2>3. m \in ToSet(r)
    BY <2>1 DEF ToSet
  <2> QED BY <1>10, <2>2, <2>3
<1> HIDE DEF m, k
<1>12. e \in Seq(N) /\ Distinct(e) /\ Len(e) = Len(r) /\ ToSet(e) = (ToSet(r) \ {m}) \cup {k}
       /\ e[1] = k /\ \A i \in 2 .. Len(e) : e[i] = r[i]
  <2>1. k \notin ToSet(r)
    BY <1>1, <1>10
  <2>2. k \in N /\ r \in Seq(N) /\ Distinct(r) /\ Len(r) >= 1
    BY <1>1, <1>10
  <2>3. /\ e \in Seq(N) /\ Distinct(e) /\ Len(e) = Len(r)
        /\ ToSet(e) = (ToSet(r) \ {r[1]}) \cup {k} /\ e[1] = k
        /\ \A i \in 2 .. Len(r) : e[i] = r[i]
    BY <2>1, <2>2, RootReplaced
  <2> QED BY <2>3 DEF m
<1> HIDE DEF e
<1>13. fc \in [N -> Nat] /\ depth \in [N -> Nat] /\ dl \in [N -> Nat]
       /\ \A x \in N : x # k => fc[x] = t.fc[x] /\ depth[x] = t.depth[x]
  <2>1. t.fc[n] + t.fc[m] \in Nat
    <3>1. t.fc[n] \in Nat /\ t.fc[m] \in Nat
      BY <1>0, <1>3, <1>11
    <3> QED BY <3>1
  <2>2. Max({t.depth[n], t.depth[m]}) + 1 \in Nat
    <3>1. Max({t.depth[n], t.depth[m]}) \in Nat
      BY <1>0, <1>3, <1>11, MaxOfTwo
    <3> QED BY <3>1
  <2>3. k \in Nat
    BY <1>1 DEF N, Nodes
  <2> QED BY <1>0, <1>1, <1>3, <1>11, <2>1, <2>2, <2>3
<1>14. te.fc = fc /\ te.depth = depth /\ te.heap = e
  OBVIOUS
<1> HIDE DEF fc, depth, dl
<1>15. Ordered(te, N)
  BY <1>13, <1>14, OrderedIs
<1>16. Heapy(te, e, 2)
  <2> HIDE DEF te
  <2> SUFFICES ASSUME NEW j \in 2 .. Len(e), NEW s \in {2 * j, 2 * j + 1}, s <= Len(e)
               PROVE  Smaller(te, e[j], e[s])
    BY DEF Heapy
  <2>1. j \in 1 .. Len(r) /\ s <= Len(r) /\ s \in 2 .. Len(e) /\ j \in 1 .. Len(e) /\ s \in 1 .. Len(e)
        /\ 1 \in 1 .. Len(e) /\ j # 1 /\ s # 1
    <3>1. Len(r) \in Nat /\ Len(e) = Len(r) /\ 1 <= Len(r)
      BY <1>10, <1>12
    <3>2. s \in 2 .. Len(e) /\ s \in 1 .. Len(e) /\ j \in 1 .. Len(e)
      BY <3>1, SonPlace
    <3> QED BY <3>1, <3>2
  <2>2. Smaller(tf, r[j], r[s])
    BY <1>9, <2>1 DEF Heapy
  <2>3. e[j] # k /\ e[s] # k /\ e[j] \in N /\ e[s] \in N
    BY <1>12, <2>1 DEF Distinct
  <2>4. e[j] = r[j] /\ e[s] = r[s]
    BY <1>12, <2>1
  <2> QED BY <1>5, <1>13, <1>14, <2>2, <2>3, <2>4 DEF Smaller
<1>17. 1 \in 1 .. Len(e)
  BY <1>10, <1>12
<1> HIDE DEF te
<1>18. Reordered(g, e) /\ Heapy(te, g, 1)
  <2>1. Reordered(SiftDown(te, e, 1), e)
    BY <1>12, <1>17, SiftKeeps
  <2>2. Heapy(te, SiftDown(te, e, 1), 1)
    BY <1>8, <1>12, <1>15, <1>16, <1>17, SiftSorts
  <2> QED BY <2>1, <2>2
<1>19. t' = [te EXCEPT !.heap = g]
  <2> DEFINE rest == PqDownHeap(tf, 1)
  <2>1. rest = [tf EXCEPT !.heap = r]
    BY <1>5 DEF PqDownHeap, r
  <2>2. rest = [fc |-> t.fc, dl |-> t.dl, depth |-> t.depth, heap |-> r, sorted |-> t.sorted,
                maxCode |-> t.maxCode]
    BY <1>0, <2>1 DEF TreeRec, tf
  <2> HIDE DEF rest
  <2>3. [rest EXCEPT !.sorted = <<m, n>> \o @,
                     !.fc[k] = t.fc[n] + t.fc[m],
                     !.depth[k] = Max({t.depth[n], t.depth[m]}) + 1,
                     !.dl[n] = k, !.dl[m] = k,
                     !.heap[1] = k] = te
    <3> DEFINE q == [rest EXCEPT !.sorted = <<m, n>> \o @,
                                 !.fc[k] = t.fc[n] + t.fc[m],
                                 !.depth[k] = Max({t.depth[n], t.depth[m]}) + 1,
                                 !.dl[n] = k, !.dl[m] = k,
                                 !.heap[1] = k]
    <3>1. DOMAIN q = {"fc", "dl", "depth", "heap", "sorted", "maxCode"}
          /\ q = [x \in DOMAIN q |-> q[x]]
      BY <2>2, ZenonT(60)
    <3>2. q.fc = fc
      BY <2>2 DEF fc
    <3>3. q.dl = dl
      BY <2>2 DEF dl
    <3>4. q.depth = depth
      BY <2>2 DEF depth
    <3>5. q.heap = e
      BY <2>2 DEF e, Rerooted
    <3>6. q.sorted = <<m, n>> \o t.sorted /\ q.maxCode = t.maxCode
      BY <2>2
    <3> HIDE DEF q
    <3>7. q = te
      BY <3>1, <3>2, <3>3, <3>4, <3>5, <3>6 DEF te
    <3> QED BY <3>7 DEF q
  <2>4. rest.heap[1] = m
    BY <2>2 DEF m
  <2>5. t' = Sunk(te)
    BY <2>3, <2>4 DEF Merge, rest, tf, f, n, h, k, Turns
  <2> QED BY <1>14, <2>5 DEF Sunk, PqDownHeap
<1> HIDE DEF g
<1>20. t' = [t EXCEPT !.heap = g, !.sorted = <<m, n>> \o @,
                      !.fc[Elems + Turns(t)] = t.fc[n] + t.fc[m],
                      !.depth[Elems + Turns(t)] = Max({t.depth[n], t.depth[m]}) + 1,
                      !.dl[n] = Elems + Turns(t), !.dl[m] = Elems + Turns(t)]
  <2> DEFINE q == [t EXCEPT !.heap = g, !.sorted = <<m, n>> \o @,
                            !.fc[k] = t.fc[n] + t.fc[m],
                            !.depth[k] = Max({t.depth[n], t.depth[m]}) + 1,
                            !.dl[n] = k, !.dl[m] = k]
             z == [te EXCEPT !.heap = g]
  <2>0. t = [fc |-> t.fc, dl |-> t.dl, depth |-> t.depth, heap |-> t.heap, sorted |-> t.sorted,
             maxCode |-> t.maxCode]
    BY <1>0 DEF TreeRec
  <2>1. DOMAIN q = {"fc", "dl", "depth", "heap", "sorted", "maxCode"}
        /\ q = [x \in DOMAIN q |-> q[x]]
    BY <2>0
  <2>2. DOMAIN z = {"fc", "dl", "depth", "heap", "sorted", "maxCode"}
        /\ z = [x \in DOMAIN z |-> z[x]]
    BY DEF te
  <2>3. z.fc = fc /\ z.dl = dl /\ z.depth = depth /\ z.heap = g
        /\ z.sorted = <<m, n>> \o t.sorted /\ z.maxCode = t.maxCode
    BY DEF te
  <2>4. q.fc = fc
    BY <2>0 DEF fc
  <2>5. q.dl = dl
    BY <2>0 DEF dl
  <2>6. q.depth = depth
    BY <2>0 DEF depth
  <2>7. q.heap = g /\ q.sorted = <<m, n>> \o t.sorted /\ q.maxCode = t.maxCode
    BY <2>0
  <2> HIDE DEF q, z
  <2>8. q = z
    BY <2>1, <2>2, <2>3, <2>4, <2>5, <2>6, <2>7
  <2> QED BY <1>19, <2>8 DEF q, z, k
<1>21. g \in Seq(N) /\ Distinct(g) /\ Len(g) = Len(h) - 1
       /\ ToSet(g) = (ToSet(h) \ {n, m}) \cup {k}
  <2>1. g \in Seq(N) /\ Distinct(g) /\ Len(g) = Len(e) /\ ToSet(g) = ToSet(e)
    BY <1>12, <1>18 DEF Reordered
  <2> QED BY <1>10, <1>12, <2>1
<1>22. \A x \in ToSet(h) : Smaller(t, n, x)
  <2>1. \A i \in 1 .. Len(h) : Smaller(t, h[1], h[i])
    BY <1>0, <1>4, RootLeast DEF h
  <2>2. DOMAIN h = 1 .. Len(h)
    BY <1>0
  <2> QED BY <2>1, <2>2 DEF ToSet, n
<1>23. \A x \in ToSet(h) : x # n => Smaller(t, m, x)
  <2>1. \A i \in 1 .. Len(r) : Smaller(tf, r[1], r[i])
    BY <1>6, <1>9, <1>10, RootLeast
  <2>2. DOMAIN r = 1 .. Len(r)
    BY <1>10
  <2>3. \A x \in ToSet(r) : Smaller(tf, m, x)
    BY <2>1, <2>2 DEF ToSet, m
  <2>4. \A x \in ToSet(r) : Smaller(t, m, x)
    BY <1>5, <2>3 DEF Smaller
  <2> QED BY <1>10, <2>4
<1>24. Heapy(t', g, 1)
  <2>1. t'.fc = te.fc /\ t'.depth = te.depth
    BY <1>14, <1>19 DEF te
  <2> QED BY <1>18, <2>1 DEF Heapy, Smaller
<1>25. Turned(t, t', n, m, g)
  BY <1>3, <1>11, <1>20, <1>21, <1>22, <1>23 DEF Turned, N, h, k
<1> QED BY <1>24, <1>25

\* What a turn changes, field by field
LEMMA TurnedIs ==
  ASSUME Elems \in Nat, NEW tr, Merging(tr), Len(tr.heap) >= 2,
         NEW u, NEW n, NEW m, NEW g, Turned(tr, u, n, m, g)
  PROVE  LET k == Elems + Turns(tr)
         IN  /\ k \in Nodes /\ k \notin ToSet(tr.heap) /\ k \notin ToSet(tr.sorted)
             /\ n \in Nodes /\ m \in Nodes
             /\ u \in TreeRec /\ u.heap = g /\ u.maxCode = tr.maxCode
             /\ Len(u.sorted) = Len(tr.sorted) + 2 /\ u.sorted[1] = m /\ u.sorted[2] = n
             /\ \A i \in 1 .. Len(tr.sorted) : u.sorted[i + 2] = tr.sorted[i]
             /\ Turns(u) = Turns(tr) + 1
             /\ u.fc[k] = tr.fc[n] + tr.fc[m]
             /\ \A x \in Nodes : x # k => u.fc[x] = tr.fc[x]
             /\ u.dl[n] = k /\ u.dl[m] = k
             /\ \A x \in Nodes : x # n /\ x # m => u.dl[x] = tr.dl[x]
             /\ InTree(u) = InTree(tr)
<1> DEFINE k == Elems + Turns(tr)
           s == tr.sorted
           z == <<m, n>> \o s
<1>0. Turns(tr) \in Nat /\ Len(tr.heap) \in Nat /\ Len(s) \in Nat /\ s \in Seq(Nodes)
      /\ tr.heap \in Seq(Nodes)
      /\ Cardinality(InTree(tr)) \in Nat /\ Cardinality(InTree(tr)) <= Elems
      /\ Len(tr.heap) + Turns(tr) = Cardinality(InTree(tr)) /\ Len(s) = 2 * Turns(tr)
  BY TurnsIs DEF Merging
<1>1. k \in Nodes /\ k \notin Leaves /\ k \in Nat
  <2>1. k \in 0 .. 2 * Elems - 1 /\ k \notin 0 .. Elems - 1
    BY <1>0
  <2> QED BY <2>1 DEF Nodes, Leaves
<1>2. k \notin ToSet(tr.heap) /\ k \notin ToSet(s)
  <2>1. ToSet(tr.heap) \cup ToSet(tr.sorted) = InTree(tr) \cup (Elems .. k - 1) /\ InTree(tr) \subseteq Leaves
    BY TurnsIs DEF Merging
  <2>2. k \notin Elems .. k - 1
    BY <1>1
  <2> QED BY <1>1, <2>1, <2>2
<1>3. n \in Nodes /\ m \in Nodes
  <2>1. ToSet(tr.heap) \subseteq Nodes
    BY <1>0 DEF ToSet
  <2> QED BY <2>1 DEF Turned
<1>4. tr = [fc |-> tr.fc, dl |-> tr.dl, depth |-> tr.depth, heap |-> tr.heap, sorted |-> s,
            maxCode |-> tr.maxCode]
      /\ tr.fc \in [Nodes -> Nat] /\ tr.dl \in [Nodes -> Nat] /\ tr.depth \in [Nodes -> Nat]
      /\ tr.maxCode \in Leaves
  BY DEF Merging, TreeRec
<1> DEFINE fc == [tr.fc EXCEPT ![k] = tr.fc[n] + tr.fc[m]]
           depth == [tr.depth EXCEPT ![k] = Max({tr.depth[n], tr.depth[m]}) + 1]
           dl == [tr.dl EXCEPT ![n] = k, ![m] = k]
<1>5. u = [tr EXCEPT !.heap = g, !.sorted = <<m, n>> \o @, !.fc[k] = tr.fc[n] + tr.fc[m],
                     !.depth[k] = Max({tr.depth[n], tr.depth[m]}) + 1, !.dl[n] = k, !.dl[m] = k]
  BY DEF Turned
<1> HIDE DEF k, s
<1>6. DOMAIN u = {"fc", "dl", "depth", "heap", "sorted", "maxCode"} /\ u = [x \in DOMAIN u |-> u[x]]
  BY <1>4, <1>5
<1>7. u.fc = fc
  BY <1>4, <1>5
<1>8. u.dl = dl
  BY <1>4, <1>5
<1>9. u.depth = depth
  BY <1>4, <1>5
<1>10. u.heap = g /\ u.sorted = z /\ u.maxCode = tr.maxCode
  BY <1>4, <1>5 DEF s
<1>11. fc \in [Nodes -> Nat] /\ depth \in [Nodes -> Nat] /\ dl \in [Nodes -> Nat]
  <2>0. tr.fc[n] \in Nat /\ tr.fc[m] \in Nat /\ tr.depth[n] \in Nat /\ tr.depth[m] \in Nat
    BY <1>3, <1>4
  <2>1. tr.fc[n] + tr.fc[m] \in Nat
    BY <2>0
  <2>2. Max({tr.depth[n], tr.depth[m]}) + 1 \in Nat
    <3>1. Max({tr.depth[n], tr.depth[m]}) \in Nat
      BY <2>0, MaxOfTwo
    <3> QED BY <3>1
  <2> QED BY <1>1, <1>3, <1>4, <2>1, <2>2
<1>12. z \in Seq(Nodes) /\ Len(z) = Len(s) + 2 /\ z[1] = m /\ z[2] = n
       /\ \A i \in 1 .. Len(s) : z[i + 2] = s[i]
  <2>1. <<m, n>> \in Seq(Nodes) /\ Len(<<m, n>>) = 2 /\ <<m, n>>[1] = m /\ <<m, n>>[2] = n
    BY <1>3
  <2>2. z \in Seq(Nodes) /\ Len(z) = Len(s) + 2
    BY <1>0, <2>1
  <2>3. z[1] = m /\ z[2] = n
    BY <1>0, <2>1
  <2>4. \A i \in 1 .. Len(s) : z[i + 2] = s[i]
    BY <1>0, <2>1
  <2> QED BY <2>2, <2>3, <2>4
<1>13. g \in Seq(Nodes)
  BY DEF Turned
<1>14. fc[k] = tr.fc[n] + tr.fc[m] /\ \A x \in Nodes : x # k => fc[x] = tr.fc[x]
  BY <1>1, <1>4
<1>15. dl[n] = k /\ dl[m] = k /\ \A x \in Nodes : x # n /\ x # m => dl[x] = tr.dl[x]
  BY <1>1, <1>3, <1>4
<1> HIDE DEF fc, depth, dl, z
<1>16. u \in TreeRec
  <2>1. u = [fc |-> fc, dl |-> dl, depth |-> depth, heap |-> g, sorted |-> z, maxCode |-> tr.maxCode]
    BY <1>6, <1>7, <1>8, <1>9, <1>10
  <2> QED BY <1>4, <1>11, <1>12, <1>13, <2>1 DEF TreeRec
<1>17. Turns(u) = Turns(tr) + 1
  <2> DEFINE l == Turns(tr)
  <2>1. Len(u.sorted) = 2 * l + 2 /\ l \in Nat
    BY <1>0, <1>10, <1>12
  <2> HIDE DEF l
  <2>2. (2 * l + 2) \div 2 = l + 1
    BY <2>1
  <2>3. Turns(u) = l + 1
    BY <2>1, <2>2 DEF Turns
  <2> QED BY <2>3 DEF l
<1>18. InTree(u) = InTree(tr)
  <2>1. \A x \in Leaves : x \in Nodes /\ x # k
    <3>1. Leaves \subseteq Nodes
      BY DEF Leaves, Nodes
    <3> QED BY <1>1, <3>1
  <2>2. \A x \in Leaves : u.fc[x] = tr.fc[x]
    BY <1>7, <1>14, <2>1
  <2> QED BY <2>2 DEF InTree
<1> QED BY <1>1, <1>2, <1>3, <1>7, <1>8, <1>10, <1>12, <1>14, <1>15, <1>16, <1>17, <1>18 DEF k, s

\* A turn keeps the shape: inner nodes are numbered as they are made (trees.go:446-471)
LEMMA MergingKept ==
  ASSUME Elems \in Nat, NEW tr, Merging(tr), Len(tr.heap) >= 2,
         NEW u, NEW n, NEW m, NEW g, Turned(tr, u, n, m, g)
  PROVE  Merging(u)
<1> DEFINE k == Elems + Turns(tr)
           s == tr.sorted
           z == u.sorted
           l == Turns(tr)
<1>0. l \in Nat /\ Len(tr.heap) \in Nat /\ Len(s) \in Nat /\ s \in Seq(Nodes)
      /\ tr.heap \in Seq(Nodes)
      /\ Len(tr.heap) + l = Cardinality(InTree(tr)) /\ Len(s) = 2 * l
      /\ Cardinality(InTree(tr)) >= 2
  BY TurnsIs DEF Merging
<1>1. /\ k \in Nodes /\ k \notin ToSet(tr.heap) /\ k \notin ToSet(s)
      /\ n \in Nodes /\ m \in Nodes
      /\ u \in TreeRec /\ u.heap = g /\ u.maxCode = tr.maxCode
      /\ Len(z) = Len(s) + 2 /\ z[1] = m /\ z[2] = n
      /\ \A i \in 1 .. Len(s) : z[i + 2] = s[i]
      /\ Turns(u) = l + 1
      /\ u.dl[n] = k /\ u.dl[m] = k
      /\ \A x \in Nodes : x # n /\ x # m => u.dl[x] = tr.dl[x]
      /\ InTree(u) = InTree(tr)
  BY TurnedIs
<1>2. n \in ToSet(tr.heap) /\ m \in ToSet(tr.heap) /\ n # m
      /\ Distinct(g) /\ Len(g) = Len(tr.heap) - 1 /\ ToSet(g) = (ToSet(tr.heap) \ {n, m}) \cup {k}
  BY DEF Turned
<1>3. ToSet(tr.heap) \cap ToSet(s) = {} /\ Distinct(s)
      /\ ToSet(tr.heap) \cup ToSet(s) = InTree(tr) \cup (Elems .. k - 1)
  <2>1. l \in Nat
    BY <1>0
  <2>2. Elems + l - 1 = k - 1
    BY <2>1
  <2>3. Elems .. Elems + Turns(tr) - 1 = Elems .. k - 1
    BY <2>2
  <2>4. ToSet(tr.heap) \cap ToSet(s) = {} /\ Distinct(s)
        /\ ToSet(tr.heap) \cup ToSet(s) = InTree(tr) \cup (Elems .. Elems + Turns(tr) - 1)
    BY DEF Merging
  <2> HIDE DEF k, l, s
  <2> QED BY <2>3, <2>4
<1>4. z \in Seq(Nodes) /\ DOMAIN z = 1 .. 2 * l + 2 /\ DOMAIN s = 1 .. 2 * l
  <2>1. z \in Seq(Nodes)
    BY <1>1 DEF TreeRec
  <2>2. Len(z) = 2 * l + 2 /\ Len(s) = 2 * l
    BY <1>0, <1>1
  <2> HIDE DEF z, s, l
  <2>3. DOMAIN z = 1 .. Len(z) /\ DOMAIN s = 1 .. Len(s)
    BY <1>0, <2>1
  <2> QED BY <2>1, <2>2, <2>3
<1>5. \A i \in 1 .. 2 * l + 2 : i \in {1, 2} \/ (i - 2 \in 1 .. 2 * l /\ z[i] = s[i - 2])
  <2> TAKE i \in 1 .. 2 * l + 2
  <2>1. i \in {1, 2} \/ (i - 2 \in 1 .. 2 * l /\ (i - 2) + 2 = i)
    BY <1>0
  <2>2. CASE i - 2 \in 1 .. 2 * l /\ (i - 2) + 2 = i
    <3>1. z[(i - 2) + 2] = s[i - 2]
      BY <1>0, <1>1, <2>2
    <3> QED BY <2>2, <3>1
  <2> QED BY <2>1, <2>2
<1>6. ToSet(z) = ToSet(s) \cup {n, m}
  <2>1. ASSUME NEW x \in ToSet(z) PROVE x \in ToSet(s) \cup {n, m}
    <3>1. PICK i \in 1 .. 2 * l + 2 : x = z[i]
      BY <1>4 DEF ToSet
    <3>2. i - 2 \in 1 .. 2 * l => s[i - 2] \in ToSet(s)
      BY <1>4 DEF ToSet
    <3> HIDE DEF z, s, l
    <3> QED BY <1>1, <1>5, <3>1, <3>2
  <2>2. ASSUME NEW x \in ToSet(s) PROVE x \in ToSet(z)
    <3>1. PICK i \in 1 .. 2 * l : x = s[i]
      BY <1>4 DEF ToSet
    <3>2. i + 2 \in 1 .. 2 * l + 2 /\ i \in 1 .. Len(s)
      BY <1>0
    <3>3. z[i + 2] = s[i]
      BY <1>1, <3>2
    <3> QED BY <1>4, <3>1, <3>2, <3>3 DEF ToSet
  <2>3. n \in ToSet(z) /\ m \in ToSet(z)
    <3>1. 1 \in 1 .. 2 * l + 2 /\ 2 \in 1 .. 2 * l + 2
      BY <1>0
    <3> QED BY <1>1, <1>4, <3>1 DEF ToSet
  <2> QED BY <2>1, <2>2, <2>3
<1>7. Distinct(z)
  <2>1. \A i \in 1 .. 2 * l : s[i] \in ToSet(s)
    BY <1>4 DEF ToSet
  <2>2. \A i, j \in 1 .. 2 * l : s[i] = s[j] => i = j
    BY <1>0, <1>3 DEF Distinct
  <2>3. ASSUME NEW i \in 1 .. 2 * l + 2, NEW j \in 1 .. 2 * l + 2, z[i] = z[j] PROVE i = j
    <3> HIDE DEF z, s, l
    <3>1. CASE i \in {1, 2} /\ j \in {1, 2}
      BY <1>1, <1>2, <2>3, <3>1
    <3>2. CASE i - 2 \in 1 .. 2 * l /\ z[i] = s[i - 2] /\ j \in {1, 2}
      BY <1>1, <1>2, <1>3, <2>1, <2>3, <3>2
    <3>3. CASE j - 2 \in 1 .. 2 * l /\ z[j] = s[j - 2] /\ i \in {1, 2}
      BY <1>1, <1>2, <1>3, <2>1, <2>3, <3>3
    <3>4. CASE i - 2 \in 1 .. 2 * l /\ z[i] = s[i - 2] /\ j - 2 \in 1 .. 2 * l /\ z[j] = s[j - 2]
      <4>1. i - 2 = j - 2
        BY <2>2, <2>3, <3>4
      <4> QED BY <4>1
    <3> QED BY <1>5, <3>1, <3>2, <3>3, <3>4
  <2>4. Len(z) = 2 * l + 2
    BY <1>0, <1>1
  <2> QED BY <2>3, <2>4 DEF Distinct
<1>8. ToSet(g) \cap ToSet(z) = {}
  BY <1>1, <1>2, <1>3, <1>6
<1>9. Elems .. k = (Elems .. k - 1) \cup {k} /\ (l + 1) - 1 = l
  <2>1. l \in Nat /\ k = Elems + l
    BY <1>0
  <2> HIDE DEF l, k
  <2>2. k \in Nat /\ Elems <= k
    BY <2>1
  <2> QED BY <2>1, <2>2
<1>10. ToSet(g) \cup ToSet(z) = InTree(tr) \cup (Elems .. k)
  <2> HIDE DEF k, s, z
  <2> QED BY <1>2, <1>3, <1>6, <1>9
<1>11. Elems + Turns(u) - 1 = k /\ Len(z) = 2 * Turns(u) /\ Len(g) >= 1
       /\ Len(g) + Turns(u) = Cardinality(InTree(tr))
  <2> DEFINE lh == Len(tr.heap)
             lz == Len(z)
             lg == Len(g)
             c == Cardinality(InTree(tr))
  <2>1. lh \in Nat /\ lh >= 2 /\ lh + l = c /\ l \in Nat
    BY <1>0
  <2>2. lz = 2 * l + 2 /\ lg = lh - 1 /\ Turns(u) = l + 1
    BY <1>0, <1>1, <1>2
  <2> HIDE DEF lh, lz, lg, c, l
  <2>3. lz = 2 * (l + 1) /\ lg >= 1 /\ lg + (l + 1) = c /\ Elems + (l + 1) - 1 = Elems + l
    BY <2>1, <2>2
  <2> QED BY <2>2, <2>3 DEF lz, lg, c, l
<1>12. ASSUME NEW i \in 1 .. 2 * l + 2
       PROVE  u.dl[z[i]] = Elems + (l + 1) - ((i + 1) \div 2) /\ z[i] < u.dl[z[i]]
  <2>1. CASE i \in {1, 2}
    <3>1. z[i] \in {n, m} /\ u.dl[z[i]] = k
      BY <1>1, <2>1
    <3>2. (i + 1) \div 2 = 1
      BY <2>1
    <3>3. z[i] < k
      <4>1. \A x \in InTree(tr) \cup (Elems .. k - 1) : x < k
        <5>1. InTree(tr) \subseteq 0 .. Elems - 1
          BY TurnsIs DEF Leaves
        <5> QED BY <1>0, <5>1
      <4>2. z[i] \in ToSet(tr.heap)
        BY <1>2, <3>1
      <4> QED BY <1>3, <4>1, <4>2
    <3>4. Elems + (l + 1) - 1 = k
      BY <1>0
    <3> QED BY <3>1, <3>2, <3>3, <3>4
  <2>2. CASE i - 2 \in 1 .. 2 * l /\ z[i] = s[i - 2]
    <3> DEFINE j == i - 2
    <3>1. j \in 1 .. 2 * l /\ z[i] = s[j] /\ i = j + 2 /\ j \in Nat
      BY <1>0, <2>2
    <3> HIDE DEF j
    <3>2. tr.dl[s[j]] = Elems + l - ((j + 1) \div 2) /\ s[j] < tr.dl[s[j]]
      BY <1>0, <3>1 DEF Merging
    <3>3. ((j + 2) + 1) \div 2 = ((j + 1) \div 2) + 1 /\ (j + 1) \div 2 \in Nat
      BY <3>1
    <3>4. s[j] \in ToSet(s)
      BY <1>4, <3>1 DEF ToSet
    <3>5. s[j] \in Nodes /\ s[j] # n /\ s[j] # m
      <4>1. s[j] \in Nodes
        BY <1>0, <3>1
      <4> QED BY <1>2, <1>3, <3>4, <4>1
    <3>6. u.dl[s[j]] = tr.dl[s[j]]
      BY <1>1, <3>5
    <3> DEFINE q == (j + 1) \div 2
    <3>7. Elems + (l + 1) - (q + 1) = Elems + l - q
      <4>1. q \in Nat
        BY <3>3
      <4> HIDE DEF q, l
      <4> QED BY <1>0, <4>1
    <3> QED BY <3>1, <3>2, <3>3, <3>6, <3>7
  <2> QED BY <1>5, <2>1, <2>2
<1>13. Len(z) = 2 * l + 2
  BY <1>0, <1>1
<1>14. \A i \in 1 .. Len(z) : u.dl[z[i]] = Elems + Turns(u) - ((i + 1) \div 2) /\ z[i] < u.dl[z[i]]
  BY <1>1, <1>12, <1>13
<1>15. tr.maxCode \in InTree(tr) /\ \A x \in InTree(tr) : x <= tr.maxCode
  BY DEF Merging
<1>16. Elems .. Elems + Turns(u) - 1 = Elems .. k
  BY <1>11
<1> HIDE DEF z, s, k, l
<1>17. ToSet(u.heap) \cup ToSet(u.sorted) = InTree(u) \cup (Elems .. Elems + Turns(u) - 1)
  BY <1>1, <1>10, <1>16 DEF z
<1> QED BY <1>0, <1>1, <1>2, <1>7, <1>8, <1>11, <1>14, <1>15, <1>17 DEF Merging, z

\* A turn takes nodes in the order of their counts (trees.go:446-471)
LEMMA QueueKept ==
  ASSUME Elems \in Nat, NEW tr, Merging(tr), Queue(tr), Len(tr.heap) >= 2,
         NEW u, NEW n, NEW m, NEW g, Turned(tr, u, n, m, g), Heapy(u, g, 1)
  PROVE  Queue(u)
<1> DEFINE k == Elems + Turns(tr)
           s == tr.sorted
           z == u.sorted
           l == Turns(tr)
           f == tr.fc
           e == u.fc
<1>0. l \in Nat /\ Len(s) \in Nat /\ s \in Seq(Nodes) /\ tr.heap \in Seq(Nodes)
      /\ Len(s) = 2 * l /\ f \in [Nodes -> Nat]
  BY TurnsIs DEF Merging, TreeRec
<1>1. /\ k \in Nodes /\ k \notin ToSet(tr.heap) /\ k \notin ToSet(s)
      /\ n \in Nodes /\ m \in Nodes
      /\ u.heap = g
      /\ Len(z) = Len(s) + 2 /\ z[1] = m /\ z[2] = n
      /\ \A i \in 1 .. Len(s) : z[i + 2] = s[i]
      /\ Turns(u) = l + 1
      /\ e[k] = f[n] + f[m]
      /\ \A x \in Nodes : x # k => e[x] = f[x]
  BY TurnedIs
<1>2. n \in ToSet(tr.heap) /\ m \in ToSet(tr.heap) /\ n # m
      /\ ToSet(g) = (ToSet(tr.heap) \ {n, m}) \cup {k}
      /\ \A x \in ToSet(tr.heap) : Smaller(tr, n, x) /\ (x # n => Smaller(tr, m, x))
  BY DEF Turned
<1>3. ToSet(tr.heap) \subseteq Nodes /\ ToSet(s) \subseteq Nodes
  BY <1>0 DEF ToSet
<1>4. /\ \A x \in ToSet(tr.heap) \cup ToSet(s) : f[x] > 0
      /\ \A j \in 1 .. l : f[Elems + l - j] = f[s[2 * j - 1]] + f[s[2 * j]]
      /\ \A i, j \in 1 .. Len(s) : i <= j => f[s[j]] <= f[s[i]]
      /\ \A i \in 1 .. Len(s), x \in ToSet(tr.heap) : f[s[i]] <= f[x]
  BY DEF Queue
<1>5. \A x \in ToSet(tr.heap) : f[n] <= f[x] /\ (x # n => f[m] <= f[x])
  <2>1. \A a, b \in Nodes : Smaller(tr, a, b) => f[a] <= f[b]
    <3>1. \A a \in Nodes : f[a] \in Nat
      BY <1>0
    <3> QED BY <3>1 DEF Smaller
  <2> QED BY <1>1, <1>2, <1>3, <2>1
<1>6. f[n] \in Nat /\ f[m] \in Nat /\ f[n] <= f[m] /\ f[n] > 0 /\ f[m] > 0
  BY <1>0, <1>1, <1>2, <1>4, <1>5
<1>7. k \in Nat /\ DOMAIN s = 1 .. 2 * l
  <2>1. k \in Nat
    BY <1>0
  <2>2. DOMAIN s = 1 .. Len(s)
    BY <1>0
  <2> QED BY <1>0, <2>1, <2>2
<1>8. \A i \in 1 .. 2 * l : s[i] \in Nodes /\ s[i] # k /\ s[i] \in ToSet(s) /\ f[s[i]] \in Nat
                           /\ e[s[i]] = f[s[i]] /\ f[s[i]] <= f[n] /\ f[s[i]] <= f[m] /\ f[s[i]] > 0
  <2> TAKE i \in 1 .. 2 * l
  <2>1. s[i] \in ToSet(s)
    BY <1>7 DEF ToSet
  <2>2. s[i] \in Nodes /\ s[i] # k
    BY <1>1, <1>3, <2>1
  <2>3. f[s[i]] <= f[n] /\ f[s[i]] <= f[m] /\ f[s[i]] > 0
    BY <1>0, <1>2, <1>4, <2>1
  <2> QED BY <1>0, <1>1, <2>1, <2>2, <2>3
<1>9. e[n] = f[n] /\ e[m] = f[m]
  BY <1>1, <1>2
<1>10. \A i \in 1 .. 2 * l + 2 : i \in {1, 2} \/ (i - 2 \in 1 .. 2 * l /\ z[i] = s[i - 2])
  <2> TAKE i \in 1 .. 2 * l + 2
  <2>1. i \in {1, 2} \/ (i - 2 \in 1 .. 2 * l /\ (i - 2) + 2 = i)
    BY <1>0
  <2>2. CASE i - 2 \in 1 .. 2 * l /\ (i - 2) + 2 = i
    <3>1. z[(i - 2) + 2] = s[i - 2]
      BY <1>0, <1>1, <2>2
    <3> QED BY <2>2, <3>1
  <2> QED BY <2>1, <2>2
<1>11. Len(z) = 2 * l + 2
  BY <1>0, <1>1
<1>12. ASSUME NEW x \in ToSet(g) PROVE e[x] > 0 /\ f[n] <= e[x] /\ f[m] <= e[x] /\ e[x] \in Nat
  <2> HIDE DEF e, f, k, z, s, l
  <2>1. CASE x = k
    BY <1>1, <1>6, <2>1
  <2>2. CASE x # k
    <3>1. x \in ToSet(tr.heap) /\ x # n /\ x \in Nodes
      BY <1>2, <1>3, <2>2
    <3>2. e[x] = f[x] /\ f[x] \in Nat
      BY <1>0, <1>1, <2>2, <3>1
    <3> QED BY <1>4, <1>5, <3>1, <3>2
  <2> QED BY <2>1, <2>2
<1>13. \A i \in 1 .. 2 * l + 2 : e[z[i]] > 0 /\ e[z[i]] \in Nat /\ e[z[i]] <= f[m]
                               /\ (i >= 2 => e[z[i]] <= f[n])
  <2> HIDE DEF e, f, k, z, s, l
  <2> TAKE i \in 1 .. 2 * l + 2
  <2>1. CASE i = 1
    BY <1>1, <1>6, <1>9, <2>1
  <2>2. CASE i = 2
    BY <1>1, <1>6, <1>9, <2>2
  <2>3. CASE i - 2 \in 1 .. 2 * l /\ z[i] = s[i - 2]
    BY <1>8, <2>3
  <2> QED BY <1>10, <2>1, <2>2, <2>3
<1>14. \A x \in ToSet(g) \cup ToSet(z) : e[x] > 0
  <2>1. ASSUME NEW x \in ToSet(z) PROVE \E i \in 1 .. 2 * l + 2 : x = z[i]
    <3>1. z \in Seq(Nodes)
      BY TurnedIs DEF TreeRec
    <3>2. DOMAIN z = 1 .. 2 * l + 2
      BY <1>11, <3>1
    <3> QED BY <3>2 DEF ToSet
  <2> HIDE DEF e, f, k, z, s, l
  <2> QED BY <1>12, <1>13, <2>1
<1>15. ASSUME NEW j \in 1 .. l + 1
       PROVE  e[Elems + (l + 1) - j] = e[z[2 * j - 1]] + e[z[2 * j]]
  <2>1. CASE j = 1
    <3>1. Elems + (l + 1) - j = k /\ 2 * j - 1 = 1 /\ 2 * j = 2
      BY <1>0, <2>1
    <3>2. e[z[1]] + e[z[2]] = f[n] + f[m]
      BY <1>1, <1>6, <1>9
    <3> HIDE DEF e, f, k, z, s
    <3> QED BY <1>1, <3>1, <3>2
  <2>2. CASE j # 1
    <3> DEFINE i == j - 1
               c == Elems + l - i
    <3>1. i \in 1 .. l /\ Elems + (l + 1) - j = c /\ 2 * j - 1 = (2 * i - 1) + 2 /\ 2 * j = 2 * i + 2
          /\ 2 * i - 1 \in 1 .. 2 * l /\ 2 * i \in 1 .. 2 * l
      <4>1. l \in Nat
        BY <1>0
      <4> HIDE DEF l
      <4>2. i \in 1 .. l /\ j \in Nat /\ 2 * j - 1 = (2 * i - 1) + 2 /\ 2 * j = 2 * i + 2
        BY <2>2, <4>1
      <4>3. 2 * i - 1 \in 1 .. 2 * l /\ 2 * i \in 1 .. 2 * l
        BY <2>2, <4>1
      <4>4. Elems + (l + 1) - j = c
        BY <2>2, <4>1
      <4> QED BY <4>2, <4>3, <4>4
    <3>2. c \in Nodes /\ c # k
      <4>1. c \in Nat /\ c < k
        <5>1. l \in Nat /\ k = Elems + l
          BY <1>0
        <5> HIDE DEF l, k
        <5> QED BY <2>2, <5>1
      <4>2. Nodes = 0 .. 2 * Elems - 1
        BY DEF Nodes
      <4> HIDE DEF c, k
      <4> QED BY <1>1, <4>1, <4>2, SMTT(40)
    <3> HIDE DEF i, c
    <3>3. z[2 * j - 1] = s[2 * i - 1] /\ z[2 * j] = s[2 * i]
      <4>1. z[(2 * i - 1) + 2] = s[2 * i - 1] /\ z[2 * i + 2] = s[2 * i]
        BY <1>0, <1>1, <3>1
      <4> QED BY <3>1, <4>1
    <3>4. f[c] = f[s[2 * i - 1]] + f[s[2 * i]]
      BY <1>4, <3>1 DEF c
    <3>5. e[s[2 * i - 1]] = f[s[2 * i - 1]] /\ e[s[2 * i]] = f[s[2 * i]]
      BY <1>8, <3>1
    <3>6. e[c] = f[c]
      BY <1>1, <3>2
    <3> HIDE DEF e, f, k, z, s
    <3> QED BY <3>1, <3>3, <3>4, <3>5, <3>6
  <2> QED BY <2>1, <2>2
<1>16. ASSUME NEW i \in 1 .. 2 * l + 2, NEW j \in 1 .. 2 * l + 2, i <= j
       PROVE  e[z[j]] <= e[z[i]]
  <2>0. e[z[i]] \in Nat /\ e[z[j]] \in Nat
    BY <1>13
  <2>1. CASE i = 1
    BY <1>1, <1>6, <1>9, <1>13, <2>1
  <2>2. CASE i = 2
    BY <1>1, <1>6, <1>9, <1>13, <1>16, <2>2
  <2>3. CASE i - 2 \in 1 .. 2 * l /\ z[i] = s[i - 2]
    <3>1. j - 2 \in 1 .. 2 * l /\ z[j] = s[j - 2] /\ i - 2 <= j - 2
      BY <1>10, <1>16, <2>3
    <3>2. f[s[j - 2]] <= f[s[i - 2]]
      BY <1>0, <1>4, <2>3, <3>1
    <3>3. e[s[j - 2]] = f[s[j - 2]] /\ e[s[i - 2]] = f[s[i - 2]]
      BY <1>8, <2>3, <3>1
    <3> HIDE DEF e, f, k, z, s, l
    <3> QED BY <2>3, <3>1, <3>2, <3>3
  <2> QED BY <1>10, <2>1, <2>2, <2>3
<1>17. ASSUME NEW i \in 1 .. 2 * l + 2, NEW x \in ToSet(g) PROVE e[z[i]] <= e[x]
  <2>1. e[z[i]] \in Nat /\ e[z[i]] <= f[m]
    BY <1>13
  <2>2. f[m] <= e[x] /\ e[x] \in Nat
    BY <1>12
  <2> HIDE DEF e, f, z
  <2> QED BY <1>6, <2>1, <2>2
<1> HIDE DEF e, f, z, s, k, l
<1> QED BY <1>1, <1>11, <1>14, <1>15, <1>16, <1>17 DEF Queue, e, z

\* A list without repetition is as long as its set is large
LEMMA DistinctCard ==
  ASSUME NEW V, NEW s \in Seq(V), Distinct(s)
  PROVE  IsFiniteSet(ToSet(s)) /\ Cardinality(ToSet(s)) = Len(s)
<1> DEFINE n == Len(s)
           f == [i \in 1 .. n |-> s[i]]
<1>1. n \in Nat /\ DOMAIN s = 1 .. n
  OBVIOUS
<1>2. \A i, j \in 1 .. n : s[i] = s[j] => i = j
  BY DEF Distinct
<1> HIDE DEF n
<1>3. f \in Bijection(1 .. n, ToSet(s))
  <2>1. f \in [1 .. n -> ToSet(s)]
    BY <1>1 DEF ToSet
  <2>2. \A i, j \in 1 .. n : f[i] = f[j] => i = j
    BY <1>2
  <2>3. \A y \in ToSet(s) : \E i \in 1 .. n : f[i] = y
    BY <1>1 DEF ToSet
  <2> HIDE DEF f
  <2> QED BY <2>1, <2>2, <2>3 DEF Bijection, Injection, Surjection, IsInjective
<1>4. IsFiniteSet(1 .. n) /\ Cardinality(1 .. n) = n
  <2>1. Cardinality(1 .. n) = IF 1 > n THEN 0 ELSE n - 1 + 1
    BY <1>1, FS_Interval
  <2>2. IsFiniteSet(1 .. n)
    BY <1>1, FS_Interval
  <2> QED BY <1>1, <2>1, <2>2
<1> HIDE DEF f
<1>5. ExistsBijection(1 .. n, ToSet(s))
  BY <1>3 DEF ExistsBijection
<1> QED BY <1>4, <1>5, FS_Bijection DEF n

Limit == Desc[name].maxLength

LEMMA LensTyped ==
  /\ LCodes \in Nat /\ DCodes \in Nat /\ LCodes >= 3 /\ DCodes >= 3 /\ Literals \in Nat /\ Literals >= 2
  /\ Len(LenExtra) \in Nat /\ DOMAIN LenExtra = 1 .. Len(LenExtra) /\ DOMAIN DistExtra = 1 .. DCodes
  /\ \A i \in 1 .. Len(LenExtra) : LenExtra[i] \in Nat
  /\ \A i \in 1 .. DCodes : DistExtra[i] \in Nat
<1>1. Literals \in Nat /\ Literals >= 2
  BY SizesAssumption
<1>2. LenExtra \in Seq(Nat) /\ DistExtra \in Seq(Nat) /\ DCodes >= 3
  BY DescAssumption
<1>3. Len(LenExtra) \in Nat /\ DOMAIN LenExtra = 1 .. Len(LenExtra) /\ Len(DistExtra) \in Nat
      /\ DOMAIN DistExtra = 1 .. Len(DistExtra)
      /\ \A i \in 1 .. Len(LenExtra) : LenExtra[i] \in Nat
      /\ \A k \in 1 .. Len(DistExtra) : DistExtra[k] \in Nat
  BY <1>2
<1>4. LCodes \in Nat /\ LCodes >= 3
  <2> DEFINE x == Len(LenExtra)
  <2>1. x \in Nat
    BY <1>3
  <2> HIDE DEF x
  <2>2. Literals + 1 + x \in Nat /\ Literals + 1 + x >= 3
    BY <1>1, <2>1
  <2> QED BY <2>2 DEF LCodes, x
<1> QED BY <1>1, <1>2, <1>3, <1>4 DEF DCodes

\* The limits of the codes, from the assumptions on the sizes
LEMMA LimitsPositive ==
  /\ MaxBits \in Nat /\ MaxBlBits \in Nat /\ MaxBits >= 1 /\ MaxBlBits >= 1 /\ MaxBits < 16
  /\ LCodes <= Pow2(MaxBits) /\ DCodes <= Pow2(MaxBits) /\ MaxBits + 4 <= Pow2(MaxBlBits)
<1>1. MaxBits \in Nat /\ MaxBlBits \in Nat /\ MaxBits < 16
  BY SizesAssumption DEF Rep3_6
<1>2. LCodes <= Pow2(MaxBits) /\ DCodes <= Pow2(MaxBits) /\ MaxBits + 4 <= Pow2(MaxBlBits)
  BY SizesAssumption
<1>3. MaxBits # 0
  <2> SUFFICES ASSUME MaxBits = 0 PROVE FALSE
    OBVIOUS
  <2>1. Pow2(MaxBits) = 1
    BY Pow2Zero
  <2> QED BY <1>2, <2>1, LensTyped
<1>4. MaxBlBits # 0
  <2> SUFFICES ASSUME MaxBlBits = 0 PROVE FALSE
    OBVIOUS
  <2>1. Pow2(MaxBlBits) = 1
    BY Pow2Zero
  <2> QED BY <1>1, <1>2, <2>1
<1> QED BY <1>1, <1>2, <1>3, <1>4

\* What holds of each tree's description (trees.go:69-87)
LEMMA DescIs ==
  ASSUME name \in Names
  PROVE  /\ Elems \in Nat /\ Elems >= 3
         /\ Limit \in Nat /\ Limit >= 1
         /\ Desc[name].static \in [Leaves -> Nat] /\ Desc[name].extra \in [Leaves -> Nat]
         /\ \A c \in 0 .. 2 : Desc[name].extra[c] = 0
         /\ name # "bl" => Limit = MaxBits /\ Elems <= Pow2(Limit)
         /\ name = "bl" => Limit = MaxBlBits /\ Elems = BlCodes
<1>1. CASE name = "l"
  <2>1. Elems = LCodes /\ Limit = MaxBits /\ Desc[name].static = StaticL
        /\ Desc[name].extra = [n \in 0 .. LCodes - 1 |-> IF n > EndBlock THEN LenExtra[n - EndBlock] ELSE 0]
    BY <1>1 DEF Elems, Limit, Desc
  <2>2. \A n \in 0 .. LCodes - 1 : n > EndBlock => n - EndBlock \in 1 .. Len(LenExtra)
    <3> DEFINE x == Len(LenExtra)
    <3>1. x \in Nat /\ LCodes = Literals + 1 + x /\ EndBlock = Literals
      BY LensTyped DEF LCodes, EndBlock
    <3> HIDE DEF x
    <3>2. \A n \in 0 .. LCodes - 1 : n > EndBlock => n - EndBlock \in 1 .. x
      BY <3>1, LensTyped
    <3> QED BY <3>2 DEF x
  <2>3. Desc[name].extra \in [0 .. LCodes - 1 -> Nat]
    BY <2>1, <2>2, LensTyped
  <2>4. \A c \in 0 .. 2 : Desc[name].extra[c] = 0
    <3> TAKE c \in 0 .. 2
    <3>1. c \in 0 .. LCodes - 1 /\ ~(c > EndBlock)
      BY LensTyped DEF EndBlock
    <3> QED BY <2>1, <3>1
  <2> QED BY <1>1, <2>1, <2>3, <2>4, LensTyped, LimitsPositive, DescAssumption DEF Leaves
<1>2. CASE name = "d"
  <2>1. Elems = DCodes /\ Limit = MaxBits /\ Desc[name].static = StaticD
        /\ Desc[name].extra = [n \in 0 .. DCodes - 1 |-> DistExtra[n + 1]]
    BY <1>2 DEF Elems, Limit, Desc
  <2>2. \A n \in 0 .. DCodes - 1 : n + 1 \in 1 .. DCodes
    BY LensTyped
  <2>3. Desc[name].extra \in [0 .. DCodes - 1 -> Nat]
    BY <2>1, <2>2, LensTyped
  <2>4. \A c \in 0 .. 2 : Desc[name].extra[c] = 0
    <3> TAKE c \in 0 .. 2
    <3>1. c \in 0 .. DCodes - 1 /\ c + 1 \in 1 .. 3
      BY LensTyped
    <3> QED BY <2>1, <3>1, DescAssumption
  <2> QED BY <1>2, <2>1, <2>3, <2>4, LensTyped, LimitsPositive, DescAssumption DEF Leaves
<1>3. CASE name = "bl"
  <2>1. Elems = 19 /\ Limit = MaxBlBits /\ Desc[name].static = [n \in 0 .. 19 - 1 |-> 0]
        /\ Desc[name].extra = BlExtra
    BY <1>3 DEF Elems, Limit, Desc, BlCodes
  <2>2. BlExtra \in [0 .. 19 - 1 -> Nat] /\ \A c \in 0 .. 2 : BlExtra[c] = 0
    BY DEF BlExtra, BlCodes, Rep3_6, Repz3_10, Repz11_138
  <2> QED BY <1>3, <2>1, <2>2, LimitsPositive DEF Leaves, BlCodes
<1> QED BY <1>1, <1>2, <1>3 DEF Names

\* The symbols added to a tree of fewer than two: unused, and without extra bits (trees.go:419-436)
LEMMA ForcedIs ==
  ASSUME Elems \in Nat, Elems >= 3, NEW s \in Seq(Leaves), Distinct(s)
  PROVE  /\ Forced(s) \in Seq(Leaves) /\ Distinct(Forced(s)) /\ ToSet(Forced(s)) \subseteq 0 .. 2
         /\ ToSet(s) \cap ToSet(Forced(s)) = {} /\ Len(s) + Len(Forced(s)) >= 2
         /\ Len(s) + Len(Forced(s)) = 2 \/ Forced(s) = <<>>
<1>1. Len(s) \in Nat /\ DOMAIN s = 1 .. Len(s) /\ \A i \in 1 .. Len(s) : s[i] \in Leaves
  OBVIOUS
<1>2. 0 \in Leaves /\ 1 \in Leaves /\ 2 \in Leaves
  BY DEF Leaves
<1>3. CASE Len(s) >= 2
  <2>1. Forced(s) = <<>>
    BY <1>1, <1>3 DEF Forced
  <2>2. Distinct(<<>>) /\ ToSet(<<>>) = {} /\ Len(<<>>) = 0
    BY DEF Distinct, ToSet
  <2>3. <<>> \in Seq(Leaves)
    OBVIOUS
  <2> QED BY <1>1, <1>3, <2>1, <2>2, <2>3
<1>4. CASE Len(s) = 0
  <2>1. Forced(s) = <<0, 1>>
    BY <1>4 DEF Forced
  <2>2. <<0, 1>> \in Seq(Leaves) /\ Len(<<0, 1>>) = 2
    BY <1>2
  <2>3. ToSet(<<0, 1>>) = {0, 1}
    BY DEF ToSet
  <2>4. Distinct(<<0, 1>>)
    BY DEF Distinct
  <2>5. ToSet(s) = {}
    BY <1>1, <1>4 DEF ToSet
  <2>6. {0, 1} \subseteq 0 .. 2
    OBVIOUS
  <2> HIDE DEF Distinct
  <2> QED BY <1>4, <2>1, <2>2, <2>3, <2>4, <2>5, <2>6
<1>5. CASE Len(s) = 1
  <2> DEFINE a == IF s[1] < 2 THEN s[1] + 1 ELSE 0
  <2>1. Forced(s) = <<a>>
    BY <1>5 DEF Forced
  <2>2. s[1] \in Leaves /\ ToSet(s) = {s[1]}
    <3>1. 1 .. 1 = {1}
      OBVIOUS
    <3> QED BY <1>1, <1>5, <3>1 DEF ToSet
  <2>3. s[1] \in Nat
    BY <2>2 DEF Leaves
  <2>4. a \in 0 .. 2 /\ a # s[1] /\ a \in Leaves
    BY <1>2, <2>3 DEF Leaves
  <2> HIDE DEF a
  <2>5. <<a>> \in Seq(Leaves) /\ Len(<<a>>) = 1 /\ ToSet(<<a>>) = {a} /\ Distinct(<<a>>)
    BY <2>4 DEF ToSet, Distinct
  <2> QED BY <1>5, <2>1, <2>2, <2>4, <2>5
<1> QED BY <1>1, <1>3, <1>4, <1>5

LEMMA MaxOfSet ==
  ASSUME NEW S, S # {}, IsFiniteSet(S), S \subseteq Nat
  PROVE  Max(S) \in S /\ \A x \in S : x <= Max(S)
<1> DEFINE X == {T \in SUBSET S : T # {} => \E x \in T : \A y \in T : x >= y}
<1>1. {} \in X
  OBVIOUS
<1>2. ASSUME NEW T \in SUBSET S, NEW z \in S, T \in X, z \notin T PROVE T \cup {z} \in X
  <2>1. CASE T = {}
    BY <2>1
  <2>2. CASE T # {}
    <3>1. PICK x \in T : \A y \in T : x >= y
      BY <1>2, <2>2
    <3>2. x \in Nat /\ z \in Nat /\ \A y \in T : y \in Nat
      OBVIOUS
    <3>3. CASE x >= z
      BY <3>1, <3>3
    <3>4. CASE ~(x >= z)
      <4>1. \A y \in T : z >= y
        BY <3>1, <3>2, <3>4
      <4> QED BY <3>2, <4>1
    <3> QED BY <3>3, <3>4
  <2> QED BY <2>1, <2>2
<1> HIDE DEF X
<1>3. S \in X
  BY <1>1, <1>2, SetInduction
<1>4. \E x \in S : \A y \in S : x >= y
  BY <1>3 DEF X
<1> QED BY <1>4 DEF Max

Freq == CASE name = "l" -> tally.l [] name = "d" -> tally.d [] name = "bl" -> blFreq

\* buildTree up to its merge loop: a heap of all the symbols in use, two at least,
\* and what the forced ones cost (trees.go:404-442)
LEMMA CollectMakes ==
  ASSUME name \in Names, Freq \in [Leaves -> Nat], Collect
  PROVE  /\ Merging(t') /\ Queue(t') /\ Turns(t') = 0
         /\ \E A \in SUBSET (Leaves \cap (0 .. 2)) :
              /\ \A n \in A : Freq[n] = 0 /\ t'.fc[n] = 1
              /\ \A n \in Leaves \ A : t'.fc[n] = Freq[n]
              /\ optLen' = optLen - Cardinality(A)
              /\ staticLen' = staticLen - SumOn(Desc[name].static, A)
              /\ A # {} => Cardinality(InTree(t')) = 2
<1> DEFINE used == InUse(Freq)
           forced == Forced(used)
           h == used \o forced
           start == [fc      |-> [n \in Nodes |-> IF \E i \in DOMAIN forced : forced[i] = n THEN 1
                                                  ELSE IF n \in Leaves THEN Freq[n] ELSE 0],
                     dl      |-> [n \in Nodes |-> 0],
                     depth   |-> [n \in Nodes |-> 0],
                     heap    |-> h,
                     sorted  |-> <<>>,
                     maxCode |-> Max(ToSet(h))]
           A == ToSet(forced)
           S == Desc[name].static
<1>1. Elems \in Nat /\ Elems >= 3 /\ S \in [Leaves -> Nat]
  BY DescIs
<1>2. used \in Seq(Leaves) /\ Distinct(used) /\ ToSet(used) = {n \in Leaves : Freq[n] # 0}
  BY <1>1, InUseIs
<1>3. t' = SubHeaps(start) /\ optLen' = optLen - Len(forced) /\ staticLen' = staticLen - StaticRefund(forced)
  BY DEF Collect, Freq
<1> HIDE DEF used, S
<1>4. /\ forced \in Seq(Leaves) /\ Distinct(forced) /\ A \subseteq 0 .. 2
      /\ ToSet(used) \cap A = {} /\ Len(used) + Len(forced) >= 2
      /\ Len(used) + Len(forced) = 2 \/ forced = <<>>
  BY <1>1, <1>2, ForcedIs
<1> HIDE DEF forced
<1>5. h \in Seq(Leaves) /\ Distinct(h) /\ ToSet(h) = ToSet(used) \cup A
      /\ Len(h) = Len(used) + Len(forced)
  BY <1>2, <1>4, Chained
<1>6. A \subseteq Leaves
  <2>1. DOMAIN forced = 1 .. Len(forced)
    BY <1>4
  <2> QED BY <1>4, <2>1 DEF ToSet
<1>7. Leaves \subseteq Nodes /\ Leaves \subseteq Nat
  BY <1>1 DEF Leaves, Nodes
<1> DEFINE fc == [n \in Nodes |-> IF n \in A THEN 1 ELSE IF n \in Leaves THEN Freq[n] ELSE 0]
<1>8. start.fc = fc
  <2>1. \A n : (\E i \in DOMAIN forced : forced[i] = n) <=> n \in A
    BY DEF ToSet
  <2> QED BY <2>1
<1>9. fc \in [Nodes -> Nat] /\ (\A n \in A : fc[n] = 1) /\ (\A n \in Leaves \ A : fc[n] = Freq[n])
  BY <1>6, <1>7
<1>10. ToSet(h) = {n \in Leaves : fc[n] # 0}
  <2> HIDE DEF fc
  <2>1. ToSet(h) \subseteq Leaves
    BY <1>2, <1>5, <1>6
  <2>2. ASSUME NEW n \in Leaves PROVE n \in ToSet(h) <=> fc[n] # 0
    <3>1. CASE n \in A
      BY <1>5, <1>9, <3>1
    <3>2. CASE n \notin A
      BY <1>2, <1>5, <1>9, <3>2
    <3> QED BY <3>1, <3>2
  <2> HIDE DEF h
  <2> QED BY <2>1, <2>2
<1>11. IsFiniteSet(ToSet(h)) /\ Cardinality(ToSet(h)) = Len(h) /\ Len(h) \in Nat /\ Len(h) >= 2
       /\ ToSet(h) \subseteq Leaves
  <2>1. Len(h) \in Nat
    BY <1>5
  <2>2. ToSet(h) \subseteq Leaves
    BY <1>10
  <2> HIDE DEF h, A
  <2> QED BY <1>4, <1>5, <2>1, <2>2, DistinctCard
<1>12. Max(ToSet(h)) \in ToSet(h) /\ \A n \in ToSet(h) : n <= Max(ToSet(h))
  <2>1. ToSet(h) # {}
    <3>1. 1 \in DOMAIN h
      BY <1>5, <1>11
    <3> QED BY <3>1 DEF ToSet
  <2> HIDE DEF h
  <2> QED BY <1>7, <1>11, <2>1, MaxOfSet
<1> HIDE DEF h
<1>13. h \in Seq(Nodes)
  <2>1. h \in [1 .. Len(h) -> Leaves]
    BY <1>5
  <2>2. h \in [1 .. Len(h) -> Nodes]
    BY <1>7, <2>1
  <2> QED BY <1>11, <2>2
<1>14. start \in TreeRec /\ start.heap = h /\ start.sorted = <<>> /\ start.maxCode = Max(ToSet(h))
  <2>1. start = [fc |-> fc, dl |-> [n \in Nodes |-> 0], depth |-> [n \in Nodes |-> 0],
                 heap |-> h, sorted |-> <<>>, maxCode |-> Max(ToSet(h))]
    BY <1>8
  <2>2. Max(ToSet(h)) \in Leaves
    BY <1>11, <1>12
  <2>3. [n \in Nodes |-> 0] \in [Nodes -> Nat] /\ <<>> \in Seq(Nodes)
    OBVIOUS
  <2> HIDE DEF start, fc
  <2> QED BY <1>9, <1>13, <2>1, <2>2, <2>3 DEF TreeRec
<1> HIDE DEF start
<1>15. PICK g : Reordered(g, h) /\ Heapy(start, g, 1) /\ SubHeaps(start) = [start EXCEPT !.heap = g]
  BY <1>5, <1>14, SubHeapsIs
<1> DEFINE u == [start EXCEPT !.heap = g]
<1>16. u \in TreeRec /\ u.heap = g /\ u.sorted = <<>> /\ u.maxCode = Max(ToSet(h)) /\ u.fc = fc
       /\ u.depth = start.depth
  <2>1. g \in Seq(Nodes)
    BY <1>13, <1>15 DEF Reordered
  <2> HIDE DEF fc
  <2> QED BY <1>8, <1>14, <2>1 DEF TreeRec
<1>17. t' = u
  BY <1>3, <1>15
<1> HIDE DEF u
<1>18. Len(g) = Len(h) /\ ToSet(g) = ToSet(h) /\ Distinct(g)
  BY <1>15 DEF Reordered
<1>19. Turns(u) = 0 /\ Len(u.sorted) = 0 /\ ToSet(u.sorted) = {} /\ Distinct(u.sorted)
  BY <1>16 DEF Turns, ToSet, Distinct
<1>20. InTree(u) = ToSet(h)
  BY <1>10, <1>16 DEF InTree
<1>21. Elems .. Elems + Turns(u) - 1 = {}
  BY <1>1, <1>19
<1>22. Merging(u)
  <2>1. ToSet(u.heap) \cup ToSet(u.sorted) = InTree(u) \cup (Elems .. Elems + Turns(u) - 1)
    BY <1>16, <1>18, <1>19, <1>20, <1>21
  <2>2. Len(u.sorted) = 2 * Turns(u) /\ Len(u.heap) >= 1
        /\ Len(u.heap) + Turns(u) = Cardinality(InTree(u)) /\ Cardinality(InTree(u)) >= 2
    BY <1>11, <1>16, <1>18, <1>19, <1>20
  <2>3. \A i \in 1 .. Len(u.sorted) : FALSE
    BY <1>19
  <2> QED BY <1>12, <1>16, <1>18, <1>19, <1>20, <2>1, <2>2, <2>3 DEF Merging
<1>23. Queue(u)
  <2>1. Heapy(u, g, 1)
    <3>1. start.fc = u.fc /\ start.depth = u.depth
      BY <1>8, <1>16
    <3> QED BY <1>15, <3>1 DEF Heapy, Smaller
  <2>2. \A n \in ToSet(u.heap) \cup ToSet(u.sorted) : u.fc[n] > 0
    <3> SUFFICES ASSUME NEW n \in ToSet(h) PROVE fc[n] > 0
      BY <1>16, <1>18, <1>19
    <3> HIDE DEF fc
    <3>1. fc[n] \in Nat /\ fc[n] # 0
      BY <1>7, <1>9, <1>10
    <3> QED BY <3>1
  <2>3. \A i \in 1 .. Len(u.sorted) : FALSE
    BY <1>19
  <2>4. \A j \in 1 .. Turns(u) : FALSE
    BY <1>19
  <2> QED BY <1>16, <2>1, <2>2, <2>3, <2>4 DEF Queue
<1>24. Cardinality(A) = Len(forced)
  BY <1>4, DistinctCard
<1>25. StaticRefund(forced) = SumOn(S, A)
  <2> DEFINE d == DOMAIN forced
             f == [i \in d |-> S[forced[i]]]
  <2>1. StaticRefund(forced) = SumOn(f, d)
    <3>1. [x \in d |-> f[x]] = [i \in d |-> S[forced[i]]]
      OBVIOUS
    <3> QED BY <3>1 DEF StaticRefund, SumOn, S
  <2>2. d = 1 .. Len(forced) /\ Len(forced) \in Nat
    BY <1>4
  <2>3. IsFiniteSet(d)
    BY <2>2, FS_Interval
  <2>4. \A x, y \in d : forced[x] = forced[y] => x = y
    BY <1>4, <2>2 DEF Distinct
  <2>5. \A x \in d : f[x] = S[forced[x]]
    OBVIOUS
  <2>6. IntOn(f, d)
    <3>1. \A x \in d : forced[x] \in Leaves
      BY <1>4
    <3> QED BY <1>1, <3>1 DEF IntOn
  <2> HIDE DEF f
  <2>7. SumOn(f, d) = SumOn(S, {forced[x] : x \in d})
    BY <2>3, <2>4, <2>5, <2>6, SumOnRenamed
  <2>8. {forced[x] : x \in d} = A
    BY DEF ToSet
  <2> QED BY <2>1, <2>7, <2>8
<1>26. ASSUME A # {} PROVE Cardinality(InTree(u)) = 2
  <2>1. forced # <<>>
    BY <1>26 DEF ToSet
  <2> QED BY <1>4, <1>5, <1>11, <1>20, <2>1
<1>27. \A n \in A : Freq[n] = 0
  BY <1>2, <1>4, <1>6
<1> HIDE DEF A, fc
<1>28. A \in SUBSET (Leaves \cap (0 .. 2))
  BY <1>4, <1>6
<1> QED BY <1>3, <1>9, <1>16, <1>17, <1>19, <1>22, <1>23, <1>24, <1>25, <1>26, <1>27, <1>28 DEF S

-----------------------------------------------------------------------------
(* The whole tree: the root in front of the list                           *)

WithRoot(tr) == [tr EXCEPT !.sorted = <<tr.heap[1]>> \o @]

\* The list behind the merge loop: the root first, every other node behind its parent
Whole(tr) ==
  /\ tr \in TreeRec /\ Turns(tr) \in Nat /\ Turns(tr) >= 1 /\ Elems + (Turns(tr) - 1) \in Nodes
  /\ Len(tr.sorted) = 2 * Turns(tr) + 1 /\ Distinct(tr.sorted)
  /\ ToSet(tr.sorted) = InTree(tr) \cup (Elems .. Elems + (Turns(tr) - 1))
  /\ tr.sorted[1] = Elems + (Turns(tr) - 1)
  /\ Cardinality(InTree(tr)) = Turns(tr) + 1
  /\ \A i \in 2 .. 2 * Turns(tr) + 1 :
       /\ tr.dl[tr.sorted[i]] = Elems + Turns(tr) - (i \div 2)
       /\ tr.sorted[i] < tr.dl[tr.sorted[i]]
  /\ tr.maxCode \in InTree(tr) /\ \A n \in InTree(tr) : n <= tr.maxCode

\* By counts, the greatest first; those of two sons together are their parent's
Ranked(tr) ==
  /\ \A i \in 1 .. 2 * Turns(tr) + 1 : tr.fc[tr.sorted[i]] > 0
  /\ \A i, j \in 1 .. 2 * Turns(tr) + 1 : i <= j => tr.fc[tr.sorted[j]] <= tr.fc[tr.sorted[i]]
  /\ \A j \in 1 .. Turns(tr) :
       tr.fc[Elems + Turns(tr) - j] = tr.fc[tr.sorted[2 * j]] + tr.fc[tr.sorted[2 * j + 1]]

\* The root goes in front of the list (trees.go:478-479)
LEMMA WithRootIs ==
  ASSUME NEW tr \in TreeRec, Len(tr.heap) >= 1
  PROVE  /\ WithRoot(tr) \in TreeRec
         /\ WithRoot(tr).fc = tr.fc /\ WithRoot(tr).dl = tr.dl /\ WithRoot(tr).depth = tr.depth
         /\ WithRoot(tr).heap = tr.heap /\ WithRoot(tr).maxCode = tr.maxCode
         /\ Len(WithRoot(tr).sorted) = Len(tr.sorted) + 1
         /\ WithRoot(tr).sorted[1] = tr.heap[1]
         /\ \A i \in 1 .. Len(tr.sorted) : WithRoot(tr).sorted[i + 1] = tr.sorted[i]
<1> DEFINE r == tr.heap[1]
           s == tr.sorted
           z == <<r>> \o s
           u == WithRoot(tr)
<1>1. s \in Seq(Nodes) /\ tr.heap \in Seq(Nodes)
  BY DEF TreeRec
<1>2. r \in Nodes
  BY <1>1
<1>3. u = [tr EXCEPT !.sorted = z]
  BY DEF WithRoot
<1> HIDE DEF s, r, u
<1>4. <<r>> \in Seq(Nodes) /\ Len(<<r>>) = 1 /\ <<r>>[1] = r /\ Len(s) \in Nat
  BY <1>1, <1>2
<1>5. z \in Seq(Nodes) /\ Len(z) = Len(s) + 1
  BY <1>1, <1>4
<1>6. z[1] = r
  BY <1>1, <1>4
<1>7. \A i \in 1 .. Len(s) : z[i + 1] = s[i]
  BY <1>1, <1>4
<1> HIDE DEF z
<1>8. u \in TreeRec /\ u.sorted = z /\ u.fc = tr.fc /\ u.dl = tr.dl /\ u.depth = tr.depth
      /\ u.heap = tr.heap /\ u.maxCode = tr.maxCode
  BY <1>3, <1>5 DEF TreeRec
<1> QED BY <1>5, <1>6, <1>7, <1>8 DEF u, s, r

\* Where the merge loop ends the list is the whole tree, parents first (trees.go:478-479)
LEMMA WholeIs ==
  ASSUME Elems \in Nat, NEW tr, Merging(tr), Len(tr.heap) = 1
  PROVE  /\ Whole(WithRoot(tr))
         /\ Queue(tr) => Ranked(WithRoot(tr))
         /\ InTree(WithRoot(tr)) = InTree(tr)
<1> DEFINE l == Turns(tr)
           s == tr.sorted
           r == tr.heap[1]
           u == WithRoot(tr)
           z == u.sorted
           W == InTree(tr) \cup (Elems .. Elems + (l - 1))
<1>0. /\ l \in Nat /\ s \in Seq(Nodes) /\ tr.heap \in Seq(Nodes) /\ Len(s) \in Nat
      /\ Len(s) = 2 * l /\ 1 + l = Cardinality(InTree(tr)) /\ Cardinality(InTree(tr)) >= 2
      /\ tr \in TreeRec /\ InTree(tr) \subseteq Leaves /\ l < Elems
  BY TurnsIs DEF Merging
<1>1. l \in Nat /\ l >= 1 /\ l < Elems
  BY <1>0
<1>2. ToSet(tr.heap) = {r}
  <2>1. DOMAIN tr.heap = {1}
    <3>1. DOMAIN tr.heap = 1 .. 1 /\ 1 .. 1 = {1}
      BY <1>0
    <3> QED BY <3>1
  <2> QED BY <2>1 DEF ToSet
<1>3. u \in TreeRec /\ u.fc = tr.fc /\ u.dl = tr.dl /\ u.maxCode = tr.maxCode
      /\ Len(z) = Len(s) + 1 /\ z[1] = r /\ \A i \in 1 .. Len(s) : z[i + 1] = s[i]
  <2>1. Len(tr.heap) >= 1
    OBVIOUS
  <2> QED BY <1>0, <2>1, WithRootIs
<1>4. ToSet(tr.heap) \cap ToSet(s) = {} /\ Distinct(s) /\ ToSet(tr.heap) \cup ToSet(s) = W
      /\ \A i \in 1 .. Len(s) : /\ tr.dl[s[i]] = Elems + l - ((i + 1) \div 2)
                                /\ s[i] < tr.dl[s[i]]
      /\ tr.maxCode \in InTree(tr) /\ \A n \in InTree(tr) : n <= tr.maxCode
  <2>1. Elems + Turns(tr) - 1 = Elems + (l - 1)
    <3> HIDE DEF l
    <3>1. Elems + l - 1 = Elems + (l - 1)
      BY <1>1
    <3> QED BY <3>1 DEF l
  <2>2. ToSet(tr.heap) \cup ToSet(tr.sorted) = InTree(tr) \cup (Elems .. Elems + Turns(tr) - 1)
    BY DEF Merging
  <2>3. ToSet(tr.heap) \cup ToSet(s) = W
    BY <2>1, <2>2
  <2> HIDE DEF W
  <2> QED BY <2>3 DEF Merging
<1> DEFINE root == Elems + (l - 1)
<1>5. root \in W /\ root \in Nat /\ root \in Nodes
  <2> HIDE DEF l
  <2>1. root \in Elems .. Elems + (l - 1) /\ root \in 0 .. 2 * Elems - 1
    BY <1>1
  <2> QED BY <2>1 DEF Nodes
<1>6. root \notin ToSet(s)
  <2> SUFFICES ASSUME NEW i \in 1 .. Len(s) PROVE s[i] # root
    BY <1>0 DEF ToSet
  <2>1. tr.dl[s[i]] = Elems + l - ((i + 1) \div 2) /\ s[i] < tr.dl[s[i]]
    BY <1>4
  <2>2. s[i] \in Nat
    <3>1. s[i] \in Nodes
      BY <1>0
    <3>2. Nodes \subseteq Nat
      BY DEF Nodes
    <3> QED BY <3>1, <3>2
  <2> DEFINE x == s[i]
             d == (i + 1) \div 2
  <2>3. d \in Nat /\ d >= 1
    <3>1. i \in Nat /\ i >= 1
      BY <1>0
    <3> QED BY <3>1
  <2>4. x < Elems + l - d /\ x \in Nat
    BY <2>1, <2>2
  <2> HIDE DEF x, d, l, s
  <2>5. x # root
    BY <1>1, <2>3, <2>4
  <2> QED BY <2>5 DEF x
<1>7. r = root
  BY <1>2, <1>4, <1>5, <1>6
<1>8. \A i \in 1 .. 2 * l + 1 : (i = 1 /\ z[i] = root) \/ (i - 1 \in 1 .. 2 * l /\ i - 1 \in Nat /\ i = (i - 1) + 1 /\ z[i] = s[i - 1])
  <2> TAKE i \in 1 .. 2 * l + 1
  <2>1. i = 1 \/ (i - 1 \in 1 .. 2 * l /\ i - 1 \in Nat /\ i = (i - 1) + 1)
    <3> HIDE DEF l
    <3> QED BY <1>1
  <2>2. CASE i = 1
    BY <1>3, <1>7, <2>2
  <2>3. CASE i - 1 \in 1 .. 2 * l /\ i - 1 \in Nat /\ i = (i - 1) + 1
    <3>1. z[(i - 1) + 1] = s[i - 1]
      BY <1>0, <1>3, <2>3
    <3>2. z[i] = s[i - 1]
      BY <2>3, <3>1
    <3> QED BY <2>3, <3>2
  <2> QED BY <2>1, <2>2, <2>3
<1>9. z \in Seq(Nodes) /\ Len(z) = 2 * l + 1 /\ DOMAIN z = 1 .. 2 * l + 1 /\ DOMAIN s = 1 .. 2 * l
  <2>1. z \in Seq(Nodes)
    BY <1>3 DEF TreeRec
  <2>2. Len(z) = 2 * l + 1
    BY <1>0, <1>3
  <2> HIDE DEF z, l, s
  <2>3. DOMAIN z = 1 .. Len(z) /\ DOMAIN s = 1 .. Len(s)
    BY <1>0, <2>1
  <2> QED BY <1>0, <2>1, <2>2, <2>3
<1>10. ToSet(z) = W
  <2>1. ASSUME NEW x \in ToSet(z) PROVE x \in W
    <3>1. PICK i \in 1 .. 2 * l + 1 : x = z[i]
      BY <1>9 DEF ToSet
    <3>2. i - 1 \in 1 .. 2 * l => s[i - 1] \in ToSet(s)
      BY <1>9 DEF ToSet
    <3> HIDE DEF z, s, l, W, root
    <3> QED BY <1>4, <1>5, <1>8, <3>1, <3>2
  <2>2. ASSUME NEW x \in ToSet(s) PROVE x \in ToSet(z)
    <3>1. PICK i \in 1 .. 2 * l : x = s[i]
      BY <1>9 DEF ToSet
    <3>2. i + 1 \in 1 .. 2 * l + 1 /\ i \in 1 .. Len(s)
      BY <1>0
    <3>3. z[i + 1] = s[i]
      BY <1>3, <3>2
    <3> QED BY <1>9, <3>1, <3>2, <3>3 DEF ToSet
  <2>3. root \in ToSet(z)
    <3>1. 1 \in 1 .. 2 * l + 1
      BY <1>0
    <3> QED BY <1>3, <1>7, <1>9, <3>1 DEF ToSet
  <2> HIDE DEF z, s, l, W, root
  <2> QED BY <1>2, <1>4, <1>7, <2>1, <2>2, <2>3, ZenonT(60)
<1>11. Distinct(z)
  <2>1. \A i \in 1 .. 2 * l : s[i] \in ToSet(s)
    BY <1>9 DEF ToSet
  <2>2. \A i, j \in 1 .. 2 * l : s[i] = s[j] => i = j
    BY <1>0, <1>4 DEF Distinct
  <2>3. ASSUME NEW i \in 1 .. 2 * l + 1, NEW j \in 1 .. 2 * l + 1, z[i] = z[j] PROVE i = j
    <3> HIDE DEF z, s, l, root
    <3>1. CASE i - 1 \in 1 .. 2 * l /\ z[i] = s[i - 1] /\ j - 1 \in 1 .. 2 * l /\ z[j] = s[j - 1]
               /\ i = (i - 1) + 1 /\ j = (j - 1) + 1
      <4>1. i - 1 = j - 1
        BY <2>2, <2>3, <3>1
      <4> QED BY <3>1, <4>1
    <3> QED BY <1>6, <1>8, <2>1, <2>3, <3>1
  <2> QED BY <1>9, <2>3 DEF Distinct
<1>12. Turns(u) = l
  <2> HIDE DEF l, z
  <2>1. (2 * l + 1) \div 2 = l
    BY <1>1
  <2> QED BY <1>9, <2>1 DEF Turns, z
<1>13. ASSUME NEW i \in 2 .. 2 * l + 1
       PROVE  u.dl[z[i]] = Elems + l - (i \div 2) /\ z[i] < u.dl[z[i]]
  <2> DEFINE j == i - 1
  <2>1. i \in 1 .. 2 * l + 1 /\ i # 1
    BY <1>0
  <2>2. j \in 1 .. 2 * l /\ i = j + 1 /\ z[i] = s[j]
    BY <1>8, <2>1
  <2> HIDE DEF j
  <2>3. tr.dl[s[j]] = Elems + l - ((j + 1) \div 2) /\ s[j] < tr.dl[s[j]]
    BY <1>0, <1>4, <2>2
  <2> HIDE DEF l, s, z, u
  <2> QED BY <1>3, <2>2, <2>3
<1>14. InTree(u) = InTree(tr)
  BY <1>3 DEF InTree
<1>15. Whole(u)
  <2>1. Cardinality(InTree(u)) = l + 1
    BY <1>0, <1>14
  <2>2. u.sorted[1] = Elems + (l - 1)
    BY <1>3, <1>7
  <2> HIDE DEF l, s, u
  <2> QED BY <1>1, <1>3, <1>4, <1>5, <1>9, <1>10, <1>11, <1>12, <1>13, <1>14, <2>1, <2>2
          DEF Whole, u
<1>16. ASSUME Queue(tr) PROVE Ranked(u)
  <2> DEFINE f == tr.fc
  <2>1. /\ \A x \in ToSet(tr.heap) \cup ToSet(s) : f[x] > 0
        /\ \A j \in 1 .. l : f[Elems + l - j] = f[s[2 * j - 1]] + f[s[2 * j]]
        /\ \A i, j \in 1 .. Len(s) : i <= j => f[s[j]] <= f[s[i]]
        /\ \A i \in 1 .. Len(s), x \in ToSet(tr.heap) : f[s[i]] <= f[x]
    BY <1>16 DEF Queue
  <2>2. \A i \in 1 .. 2 * l : s[i] \in ToSet(s)
    BY <1>9 DEF ToSet
  <2>3. root \in ToSet(tr.heap) /\ f[root] \in Nat
    BY <1>0, <1>2, <1>5, <1>7 DEF TreeRec
  <2> HIDE DEF s, z, root, f
  <2>4. \A i \in 1 .. 2 * l + 1 : f[z[i]] > 0
    <3> HIDE DEF l
    <3> QED BY <1>8, <2>1, <2>2, <2>3
  <2>5. ASSUME NEW i \in 1 .. 2 * l + 1, NEW j \in 1 .. 2 * l + 1, i <= j PROVE f[z[j]] <= f[z[i]]
    <3> HIDE DEF l
    <3>1. CASE i = 1 /\ j = 1
      BY <1>8, <2>3, <3>1
    <3>2. CASE i = 1 /\ j # 1
      BY <1>0, <1>8, <2>1, <2>3, <3>2
    <3>3. CASE i # 1
      <4>1. i - 1 \in 1 .. 2 * l /\ z[i] = s[i - 1]
        BY <1>8, <3>3
      <4>2. j # 1
        BY <2>5, <3>3
      <4>3. j - 1 \in 1 .. 2 * l /\ z[j] = s[j - 1]
        BY <1>8, <4>2
      <4>4. i - 1 <= j - 1
        BY <1>1, <2>5
      <4>5. i - 1 \in 1 .. Len(s) /\ j - 1 \in 1 .. Len(s)
        BY <1>0, <4>1, <4>3 DEF l
      <4>6. f[s[j - 1]] <= f[s[i - 1]]
        BY <2>1, <4>4, <4>5
      <4> QED BY <4>1, <4>3, <4>6
    <3> QED BY <3>1, <3>2, <3>3
  <2>6. ASSUME NEW j \in 1 .. l PROVE f[Elems + l - j] = f[z[2 * j]] + f[z[2 * j + 1]]
    <3>1. 2 * j \in 1 .. 2 * l + 1 /\ 2 * j + 1 \in 1 .. 2 * l + 1 /\ (2 * j + 1) - 1 = 2 * j
          /\ 2 * j # 1 /\ 2 * j + 1 # 1
      <4> HIDE DEF l
      <4> QED BY <1>1
    <3>2. z[2 * j] = s[2 * j - 1] /\ z[2 * j + 1] = s[2 * j]
      <4> HIDE DEF l
      <4> QED BY <1>8, <3>1
    <3> QED BY <2>1, <3>2
  <2> QED BY <1>3, <1>12, <2>4, <2>5, <2>6 DEF Ranked, f, z
<1> QED BY <1>14, <1>15, <1>16

-----------------------------------------------------------------------------
(* genBitlen, first pass                                                   *)

\* One turn of the pass, after the one that left x, on the node n
CutTurn(x, n) ==
  LET bits == x.dl[x.dl[n]] + 1
  IN  [dl |-> [x.dl EXCEPT ![n] = IF bits > Limit THEN Limit ELSE bits],
       overflow |-> x.overflow + (IF bits > Limit THEN 1 ELSE 0)]

CutStart(tr) == [dl |-> [tr.dl EXCEPT ![tr.sorted[1]] = 0], overflow |-> 0]

\* The lengths that were cut, by places of the list
Overs(len, tr) ==
  [i \in 2 .. Len(tr.sorted) |-> IF len[tr.dl[tr.sorted[i]]] + 1 > Limit THEN 1 ELSE 0]

\* After the pass has seen the first i nodes of the list
CutSoFar(x, tr, i) ==
  /\ x \in [dl : [Nodes -> Nat], overflow : Nat]
  /\ x.dl[tr.sorted[1]] = 0
  /\ \A j \in 2 .. i :
       x.dl[tr.sorted[j]] = IF x.dl[tr.dl[tr.sorted[j]]] + 1 > Limit THEN Limit
                            ELSE x.dl[tr.dl[tr.sorted[j]]] + 1
  /\ \A n \in Nodes : (\A j \in 1 .. i : tr.sorted[j] # n) => x.dl[n] = tr.dl[n]
  /\ x.overflow = SumOn(Overs(x.dl, tr), 2 .. i)

\* A node comes behind its parent
LEMMA ParentBefore ==
  ASSUME Elems \in Nat, NEW tr, Whole(tr), NEW i \in 2 .. Len(tr.sorted)
  PROVE  \E j \in 1 .. i - 1 : tr.sorted[j] = tr.dl[tr.sorted[i]]
<1> DEFINE k == Turns(tr)
           w == tr.sorted
           W == InTree(tr) \cup (Elems .. Elems + (k - 1))
<1>1. /\ k \in Nat /\ k >= 1 /\ Len(w) = 2 * k + 1 /\ w \in Seq(Nodes) /\ ToSet(w) = W
      /\ \A x \in 2 .. 2 * k + 1 : tr.dl[w[x]] = Elems + k - (x \div 2) /\ w[x] < tr.dl[w[x]]
  BY DEF Whole, TreeRec
<1>2. DOMAIN w = 1 .. 2 * k + 1 /\ \A x \in 1 .. 2 * k + 1 : w[x] \in Nat
  <2>1. Nodes \subseteq Nat
    BY DEF Nodes
  <2>2. DOMAIN w = 1 .. Len(w) /\ \A x \in 1 .. Len(w) : w[x] \in Nodes
    BY <1>1
  <2> HIDE DEF w
  <2> QED BY <1>1, <2>1, <2>2
<1> HIDE DEF w
<1>3. i \in 2 .. 2 * k + 1
  BY <1>1 DEF w
<1> DEFINE p == Elems + k - (i \div 2)
<1>4. tr.dl[w[i]] = p
  BY <1>1, <1>3
<1>5. p \in Elems .. Elems + (k - 1)
  <2> HIDE DEF k
  <2>1. i \div 2 \in 1 .. k
    BY <1>1, <1>3
  <2> QED BY <1>1, <2>1
<1>6. PICK j \in 1 .. 2 * k + 1 : w[j] = p
  <2>1. p \in W
    BY <1>5
  <2> HIDE DEF p, W, k
  <2> QED BY <1>1, <1>2, <2>1 DEF ToSet
<1>7. j < i
  <2>1. CASE j = 1
    <3> HIDE DEF k
    <3> QED BY <1>1, <1>3, <2>1
  <2>2. CASE j # 1
    <3>1. j \in 2 .. 2 * k + 1
      <4> HIDE DEF k
      <4> QED BY <1>1, <2>2
    <3>2. w[j] < Elems + k - (j \div 2)
      BY <1>1, <3>1
    <3>3. p < Elems + k - (j \div 2)
      BY <1>6, <3>2
    <3> HIDE DEF k
    <3>4. \A a, b \in Nat : Elems + k - a < Elems + k - b => b < a
      BY <1>1
    <3>5. i \div 2 \in Nat /\ j \div 2 \in Nat /\ i \in Nat /\ j \in Nat
      BY <1>1, <1>3, <3>1
    <3>6. j \div 2 < i \div 2
      BY <3>3, <3>4, <3>5
    <3>7. \A a, b \in Nat : a \div 2 < b \div 2 => a < b
      OBVIOUS
    <3> QED BY <3>5, <3>6, <3>7
  <2> QED BY <2>1, <2>2
<1>8. j \in 1 .. i - 1
  <2> HIDE DEF k
  <2> QED BY <1>1, <1>3, <1>6, <1>7
<1> QED BY <1>4, <1>6, <1>8 DEF w

\* One turn of genBitlen's first pass (trees.go:315-338)
LEMMA CutTurnKeeps ==
  ASSUME Elems \in Nat, Limit \in Nat, NEW tr, Whole(tr), NEW i \in 2 .. Len(tr.sorted),
         NEW x, CutSoFar(x, tr, i - 1)
  PROVE  CutSoFar(CutTurn(x, tr.sorted[i]), tr, i)
<1> DEFINE w == tr.sorted
           N == Len(w)
           n == w[i]
           p == tr.dl[n]
           bits == x.dl[p] + 1
           y == CutTurn(x, n)
<1>1. /\ w \in Seq(Nodes) /\ Distinct(w) /\ N \in Nat /\ \A j \in 1 .. N : w[j] \in Nodes
      /\ tr.dl \in [Nodes -> Nat]
  <2>1. w \in Seq(Nodes) /\ Distinct(w) /\ tr.dl \in [Nodes -> Nat]
    BY DEF Whole, TreeRec
  <2> HIDE DEF w
  <2>2. N \in Nat /\ \A j \in 1 .. N : w[j] \in Nodes
    BY <2>1
  <2> QED BY <2>1, <2>2
<1>2. i \in Nat /\ i >= 2 /\ i <= N /\ i \in 1 .. N /\ 1 .. i - 1 \subseteq 1 .. N /\ 1 \in 1 .. i - 1
      /\ 2 .. i - 1 \subseteq 1 .. i - 1 /\ 2 .. i - 1 \subseteq 2 .. N
  <2> HIDE DEF w
  <2>1. i \in 2 .. N /\ N \in Nat
    BY <1>1 DEF w
  <2> HIDE DEF N
  <2> QED BY <2>1
<1> HIDE DEF N
<1>3. \A j \in 1 .. i - 1 : w[j] # n
  <2> TAKE j \in 1 .. i - 1
  <2>1. j \in 1 .. N /\ j # i
    BY <1>2
  <2> QED BY <1>1, <1>2, <2>1 DEF Distinct, N
<1>4. n \in Nodes /\ x.dl \in [Nodes -> Nat] /\ x.overflow \in Nat
  BY <1>1, <1>2 DEF CutSoFar
<1>5. x.dl[n] = p
  BY <1>3, <1>4 DEF CutSoFar
<1>6. ASSUME NEW j \in 2 .. i PROVE \E m \in 1 .. j - 1 : w[m] = tr.dl[w[j]]
  <2>1. j \in 2 .. Len(tr.sorted)
    BY <1>2 DEF N
  <2> QED BY <2>1, ParentBefore
<1>7. ASSUME NEW j \in 2 .. i PROVE tr.dl[w[j]] \in Nodes /\ tr.dl[w[j]] # n
  <2>1. PICK m \in 1 .. j - 1 : w[m] = tr.dl[w[j]]
    BY <1>6
  <2>2. m \in 1 .. i - 1 /\ m \in 1 .. N
    BY <1>2
  <2> QED BY <1>1, <1>3, <2>1, <2>2
<1>8. p \in Nodes /\ bits \in Nat
  <2>1. i \in 2 .. i
    BY <1>2
  <2>2. p \in Nodes
    BY <1>7, <2>1
  <2>3. x.dl[p] \in Nat
    BY <1>4, <2>2
  <2> QED BY <2>2, <2>3
<1> HIDE DEF w, n, p
<1>9. y = [dl |-> [x.dl EXCEPT ![n] = IF bits > Limit THEN Limit ELSE bits],
           overflow |-> x.overflow + (IF bits > Limit THEN 1 ELSE 0)]
  BY <1>5 DEF CutTurn
<1> HIDE DEF bits, y
<1>10. /\ y \in [dl : [Nodes -> Nat], overflow : Nat]
       /\ y.dl[n] = IF bits > Limit THEN Limit ELSE bits
       /\ \A m \in Nodes : m # n => y.dl[m] = x.dl[m]
       /\ y.overflow = x.overflow + (IF bits > Limit THEN 1 ELSE 0)
  BY <1>4, <1>8, <1>9
<1>11. y.dl[w[1]] = 0
  <2>1. w[1] # n /\ w[1] \in Nodes /\ x.dl[w[1]] = 0
    BY <1>1, <1>2, <1>3 DEF CutSoFar, w
  <2> QED BY <1>10, <2>1
<1>12. ASSUME NEW j \in 2 .. i PROVE y.dl[tr.dl[w[j]]] = x.dl[tr.dl[w[j]]]
  BY <1>7, <1>10
<1>13. ASSUME NEW j \in 2 .. i
       PROVE  y.dl[w[j]] = IF y.dl[tr.dl[w[j]]] + 1 > Limit THEN Limit ELSE y.dl[tr.dl[w[j]]] + 1
  <2>1. CASE j = i
    <3>1. y.dl[tr.dl[w[j]]] + 1 = bits
      BY <1>12, <2>1 DEF bits, p, n
    <3> QED BY <1>10, <2>1, <3>1 DEF n
  <2>2. CASE j # i
    <3>1. j \in 2 .. i - 1 /\ j \in 1 .. i - 1
      BY <1>2, <2>2
    <3>2. w[j] # n /\ w[j] \in Nodes
      BY <1>1, <1>2, <1>3, <3>1
    <3>3. x.dl[w[j]] = IF x.dl[tr.dl[w[j]]] + 1 > Limit THEN Limit ELSE x.dl[tr.dl[w[j]]] + 1
      BY <3>1 DEF CutSoFar, w
    <3> QED BY <1>10, <1>12, <3>2, <3>3
  <2> QED BY <2>1, <2>2
<1>14. ASSUME NEW m \in Nodes, \A j \in 1 .. i : w[j] # m PROVE y.dl[m] = tr.dl[m]
  <2>1. m # n /\ \A j \in 1 .. i - 1 : w[j] # m
    BY <1>2, <1>14 DEF n
  <2>2. x.dl[m] = tr.dl[m]
    BY <2>1 DEF CutSoFar, w
  <2> QED BY <1>10, <2>1, <2>2
<1>15. y.overflow = SumOn(Overs(y.dl, tr), 2 .. i)
  <2> DEFINE f == Overs(x.dl, tr)
             g == Overs(y.dl, tr)
  <2>1. \A j \in 2 .. i : g[j] = f[j] /\ g[j] \in Int
    <3> TAKE j \in 2 .. i
    <3>1. j \in 2 .. Len(tr.sorted)
      BY <1>2 DEF N, w
    <3>2. y.dl[tr.dl[tr.sorted[j]]] = x.dl[tr.dl[tr.sorted[j]]]
      BY <1>12 DEF w
    <3>3. f[j] = IF x.dl[tr.dl[tr.sorted[j]]] + 1 > Limit THEN 1 ELSE 0
      BY <3>1 DEF Overs
    <3>4. g[j] = IF y.dl[tr.dl[tr.sorted[j]]] + 1 > Limit THEN 1 ELSE 0
      BY <3>1 DEF Overs
    <3> QED BY <3>2, <3>3, <3>4
  <2>2. g[i] = IF bits > Limit THEN 1 ELSE 0
    <3>1. i \in 2 .. Len(tr.sorted) /\ i \in 2 .. i
      BY <1>2 DEF N, w
    <3>2. y.dl[tr.dl[tr.sorted[i]]] + 1 = bits
      BY <1>12, <3>1 DEF w, bits, p, n
    <3> QED BY <3>1, <3>2 DEF Overs
  <2>3. x.overflow = SumOn(f, 2 .. i - 1)
    BY DEF CutSoFar
  <2> HIDE DEF f, g
  <2>4. SumOn(g, 2 .. i - 1) = SumOn(f, 2 .. i - 1)
    <3>1. \A j \in 2 .. i - 1 : g[j] = f[j]
      BY <1>2, <2>1
    <3> QED BY <3>1, SumOnSame
  <2>5. SumOn(g, 2 .. i) = SumOn(g, 2 .. i - 1) + g[i]
    <3> DEFINE h == i - 1
    <3>1. h \in Int /\ 2 <= h + 1 /\ h + 1 = i
      BY <1>2
    <3> HIDE DEF h
    <3>2. IntOn(g, 2 .. h + 1)
      BY <2>1, <3>1 DEF IntOn
    <3>3. SumOn(g, 2 .. h + 1) = SumOn(g, 2 .. h) + g[h + 1]
      BY <3>1, <3>2, IntervalAdd
    <3> QED BY <3>1, <3>3 DEF h
  <2> DEFINE a == SumOn(g, 2 .. i - 1)
             d == g[i]
  <2>6. y.overflow = a + d
    BY <1>10, <2>2, <2>3, <2>4
  <2> QED BY <2>5, <2>6 DEF g
<1> QED BY <1>10, <1>11, <1>13, <1>14, <1>15 DEF CutSoFar, y, n, w

\* The root has length zero (trees.go:313)
LEMMA CutStarts ==
  ASSUME Elems \in Nat, NEW tr, Whole(tr)
  PROVE  CutSoFar(CutStart(tr), tr, 1)
<1> DEFINE x == CutStart(tr)
           r == tr.sorted[1]
<1>1. r \in Nodes /\ tr.dl \in [Nodes -> Nat]
  <2>1. tr.sorted \in Seq(Nodes) /\ Len(tr.sorted) = 2 * Turns(tr) + 1 /\ Turns(tr) \in Nat
    BY DEF Whole, TreeRec
  <2>2. 1 \in 1 .. Len(tr.sorted)
    BY <2>1
  <2> QED BY <2>1, <2>2 DEF Whole, TreeRec
<1>2. x = [dl |-> [tr.dl EXCEPT ![r] = 0], overflow |-> 0]
  BY DEF CutStart
<1> HIDE DEF x
<1>3. x \in [dl : [Nodes -> Nat], overflow : Nat] /\ x.dl[r] = 0 /\ x.overflow = 0
      /\ \A n \in Nodes : n # r => x.dl[n] = tr.dl[n]
  BY <1>1, <1>2
<1>4. 2 .. 1 = {} /\ 1 \in 1 .. 1
  OBVIOUS
<1>5. x.overflow = SumOn(Overs(x.dl, tr), 2 .. 1)
  BY <1>3, <1>4, SumOnEmpty
<1>6. CutSoFar(x, tr, 1)
  BY <1>3, <1>4, <1>5 DEF CutSoFar
<1> QED BY <1>6 DEF x

\* genBitlen's first pass gives every node one more than its parent, or the limit (trees.go:312-338)
LEMMA CutIs ==
  ASSUME Elems \in Nat, Limit \in Nat, NEW tr, Whole(tr)
  PROVE  CutSoFar(Cut(tr), tr, Len(tr.sorted))
<1> DEFINE N == Len(tr.sorted)
           w == tr.sorted
           X == [dl : [Nodes -> Nat], overflow : Nat]
           step(x, i) == IF CutSoFar(x, tr, i) THEN CutTurn(x, w[i + 1]) ELSE x
           G == [a \in X \X (1 .. N - 1) |-> step(a[1], a[2])]
           Eqn(f) == f = [i \in 1 .. N |-> IF i = 1 THEN CutStart(tr) ELSE CutTurn(f[i - 1], w[i])]
           acc == CHOOSE f : Eqn(f)
<1>1. Cut(tr) = acc[N]
  BY DEF Cut, CutTurn, CutStart, Limit
<1>2. N \in Nat /\ N >= 1
  <2>1. N = 2 * Turns(tr) + 1 /\ Turns(tr) \in Nat
    BY DEF Whole
  <2> QED BY <2>1
<1> HIDE DEF N
<1>3. ASSUME NEW i \in 1 .. N - 1, NEW x, CutSoFar(x, tr, i)
      PROVE  CutSoFar(CutTurn(x, w[i + 1]), tr, i + 1)
  <2> DEFINE m == i + 1
  <2>1. m \in 2 .. Len(tr.sorted) /\ m - 1 = i
    BY <1>2 DEF N
  <2>2. CutSoFar(x, tr, m - 1)
    BY <1>3, <2>1
  <2> HIDE DEF m
  <2>3. CutSoFar(CutTurn(x, tr.sorted[m]), tr, m)
    BY <2>1, <2>2, CutTurnKeeps
  <2> QED BY <2>3 DEF m
<1>4. \E f : Eqn(f)
  <2>1. StepsIn(G, X, N - 1)
    <3> SUFFICES ASSUME NEW x \in X, NEW i \in 1 .. N - 1 PROVE G[<<x, i>>] \in X
      BY DEF StepsIn
    <3>1. G[<<x, i>>] = step(x, i)
      <4>1. <<x, i>> \in X \X (1 .. N - 1)
        OBVIOUS
      <4> QED BY <4>1
    <3>2. step(x, i) \in X
      BY <1>3 DEF CutSoFar
    <3> QED BY <3>1, <3>2
  <2>2. CutStart(tr) \in X /\ N - 1 \in Nat
    BY <1>2, CutStarts DEF CutSoFar
  <2>3. \E f : Loop(f, X, CutStart(tr), N - 1, G)
    <3> HIDE DEF G, X
    <3> QED BY <2>1, <2>2, LoopExists
  <2>4. PICK f : Loop(f, X, CutStart(tr), N - 1, G)
    BY <2>3
  <2>5. f[0] = CutStart(tr)
    BY <2>4 DEF Loop
  <2>6. ASSUME NEW i \in 1 .. N - 1 PROVE f[i - 1] \in X /\ f[i] = step(f[i - 1], i)
    <3>1. f[i] = G[<<f[i - 1], i>>] /\ f \in [0 .. N - 1 -> X]
      BY <2>4 DEF Loop
    <3>2. i - 1 \in 0 .. N - 1
      BY <1>2
    <3>3. f[i - 1] \in X
      <4> HIDE DEF X
      <4> QED BY <3>1, <3>2
    <3>4. G[<<f[i - 1], i>>] = step(f[i - 1], i)
      <4>1. <<f[i - 1], i>> \in X \X (1 .. N - 1)
        BY <3>3
      <4> QED BY <4>1
    <3> QED BY <3>1, <3>3, <3>4
  <2> DEFINE K == {i \in 0 .. N - 1 : CutSoFar(f[i], tr, i + 1)}
  <2>7. \A i \in 0 .. N - 1 : i \in K
    <3>1. 0 \in K
      <4>1. 0 \in 0 .. N - 1 /\ 0 + 1 = 1
        BY <1>2
      <4> QED BY <2>5, <4>1, CutStarts
    <3>2. ASSUME NEW i \in 0 .. (N - 1) - 1, i \in K PROVE i + 1 \in K
      <4> DEFINE m == i + 1
      <4>1. m \in 1 .. N - 1 /\ m - 1 = i /\ m \in 0 .. N - 1
        BY <1>2
      <4>2. CutSoFar(f[i], tr, m)
        BY <3>2
      <4> HIDE DEF m
      <4>3. f[m] = CutTurn(f[i], w[m + 1])
        BY <2>6, <4>1, <4>2
      <4>4. CutSoFar(f[m], tr, m + 1)
        BY <1>3, <4>1, <4>2, <4>3
      <4>5. m \in K
        BY <4>1, <4>4
      <4> QED BY <4>5 DEF m
    <3>3. N - 1 \in Nat
      BY <1>2
    <3> HIDE DEF K
    <3> QED BY <3>1, <3>2, <3>3, InductionUpTo
  <2> DEFINE e == [i \in 1 .. N |-> f[i - 1]]
  <2>8. ASSUME NEW i \in 1 .. N
        PROVE  e[i] = IF i = 1 THEN CutStart(tr) ELSE CutTurn(e[i - 1], w[i])
    <3>1. CASE i = 1
      BY <2>5, <3>1
    <3>2. CASE i # 1
      <4> DEFINE m == i - 1
      <4>1. m \in 1 .. N - 1 /\ m + 1 = i /\ m - 1 \in 0 .. N - 1 /\ m \in 1 .. N /\ (m - 1) + 1 = m
        BY <1>2, <3>2
      <4>2. e[i] = f[m] /\ e[m] = f[m - 1]
        BY <4>1
      <4>3. CutSoFar(f[m - 1], tr, (m - 1) + 1)
        BY <2>7, <4>1
      <4>4. CutSoFar(f[m - 1], tr, m)
        BY <4>1, <4>3
      <4> HIDE DEF m, e, K
      <4>5. f[m] = CutTurn(f[m - 1], w[m + 1])
        BY <2>6, <4>1, <4>4
      <4>6. e[i] = CutTurn(e[m], w[i])
        BY <4>1, <4>2, <4>5
      <4> QED BY <3>2, <4>6 DEF m
    <3> QED BY <3>1, <3>2
  <2>9. Eqn(e)
    <3>1. e = [i \in 1 .. N |-> e[i]]
      OBVIOUS
    <3> HIDE DEF e
    <3> QED BY <2>8, <3>1
  <2> QED BY <2>9
<1>5. Eqn(acc)
  <2> HIDE DEF Eqn
  <2> QED BY <1>4
<1>6. /\ acc[1] = CutStart(tr)
      /\ \A i \in 2 .. N : acc[i] = CutTurn(acc[i - 1], w[i])
  <2> HIDE DEF acc
  <2>1. \A i \in 1 .. N : acc[i] = IF i = 1 THEN CutStart(tr) ELSE CutTurn(acc[i - 1], w[i])
    BY <1>5
  <2>2. 1 \in 1 .. N /\ \A i \in 2 .. N : i \in 1 .. N /\ i # 1
    BY <1>2
  <2> QED BY <2>1, <2>2
<1> HIDE DEF acc
<1> DEFINE K == {i \in 0 .. N - 1 : CutSoFar(acc[i + 1], tr, i + 1)}
<1>7. \A i \in 0 .. N - 1 : i \in K
  <2>1. 0 \in K
    <3>1. 0 \in 0 .. N - 1 /\ 0 + 1 = 1
      BY <1>2
    <3> QED BY <1>6, <3>1, CutStarts
  <2>2. ASSUME NEW i \in 0 .. (N - 1) - 1, i \in K PROVE i + 1 \in K
    <3> DEFINE m == i + 1
    <3>1. m \in 1 .. N - 1 /\ m \in 0 .. N - 1 /\ m + 1 \in 2 .. N /\ (m + 1) - 1 = m
      BY <1>2
    <3>2. CutSoFar(acc[m], tr, m)
      BY <2>2
    <3> HIDE DEF m
    <3>3. acc[m + 1] = CutTurn(acc[m], w[m + 1])
      BY <1>6, <3>1
    <3>4. CutSoFar(acc[m + 1], tr, m + 1)
      BY <1>3, <3>1, <3>2, <3>3
    <3>5. m \in K
      BY <3>1, <3>4
    <3> QED BY <3>5 DEF m
  <2>3. N - 1 \in Nat
    BY <1>2
  <2> HIDE DEF K
  <2> QED BY <2>1, <2>2, <2>3, InductionUpTo
<1>8. N - 1 \in 0 .. N - 1 /\ (N - 1) + 1 = N
  BY <1>2
<1>9. CutSoFar(acc[(N - 1) + 1], tr, (N - 1) + 1)
  BY <1>7, <1>8
<1>10. CutSoFar(acc[N], tr, N)
  BY <1>8, <1>9
<1> QED BY <1>1, <1>10 DEF N

-----------------------------------------------------------------------------
(* What the first pass makes of the lengths                                *)

\* The inner nodes made so far
InnerNodes(tr) == Elems .. Elems + (Turns(tr) - 1)

\* Inner nodes in the order they come in the list
LEMMA InnerSums ==
  ASSUME Elems \in Nat, NEW k \in Nat, NEW z, IntOn(z, Elems .. Elems + (k - 1)),
         NEW s, \A j \in 1 .. k : s[j] = z[Elems + k - j]
  PROVE  SumOn(s, 1 .. k) = SumOn(z, Elems .. Elems + (k - 1))
<1> DEFINE S == 1 .. k
           I == Elems .. Elems + (k - 1)
           g == [j \in S |-> Elems + k - j]
<1>1. \A x \in S, y \in S : g[x] = g[y] => x = y
  OBVIOUS
<1>2. \A x \in S : g[x] \in I
  OBVIOUS
<1>3. \A y \in I : Elems + k - y \in S /\ g[Elems + k - y] = y
  OBVIOUS
<1>4. IsFiniteSet(S) /\ \A x \in S : s[x] = z[g[x]]
  BY FS_Interval
<1>5. \A y \in I : z[y] \in Int
  BY DEF IntOn
<1> HIDE DEF g, S, I
<1>6. {g[x] : x \in S} = I
  <2>1. ASSUME NEW y \in I PROVE \E x \in S : g[x] = y
    BY <1>3, <2>1
  <2> QED BY <1>2, <2>1
<1>7. IntOn(s, S)
  BY <1>2, <1>4, <1>5 DEF IntOn
<1>8. SumOn(s, S) = SumOn(z, {g[x] : x \in S})
  BY <1>1, <1>4, <1>7, SumOnRenamed
<1> QED BY <1>6, <1>8 DEF S, I

\* A sum over the sons of all inner nodes, taken pair by pair
LEMMA PairSums ==
  ASSUME Elems \in Nat, NEW k \in Nat, NEW z, IntOn(z, Elems .. Elems + (k - 1)),
         NEW e, \A j \in 1 .. k : /\ e[2 * j] \in Int /\ e[2 * j + 1] \in Int
                                  /\ e[2 * j] + e[2 * j + 1] = z[Elems + k - j]
  PROVE  SumOn(e, 2 .. 2 * k + 1) = SumOn(z, Elems .. Elems + (k - 1))
<1> DEFINE s == [j \in 1 .. k |-> z[Elems + k - j]]
           K == {j \in 0 .. k : SumOn(e, 2 .. 2 * j + 1) = SumOn(s, 1 .. j)}
           I == Elems .. Elems + (k - 1)
<1>5. ASSUME NEW j \in 1 .. k PROVE s[j] \in Int /\ e[2 * j] \in Int /\ e[2 * j + 1] \in Int
                                    /\ e[2 * j] + e[2 * j + 1] = s[j]
  BY <1>5
<1> HIDE DEF s
<1>6. \A j \in 0 .. k : j \in K
  <2>1. 0 \in K
    <3>1. 2 .. 2 * 0 + 1 = {} /\ 1 .. 0 = {} /\ 0 \in 0 .. k
      OBVIOUS
    <3>2. SumOn(e, {}) = 0 /\ SumOn(s, {}) = 0
      BY SumOnEmpty
    <3> QED BY <3>1, <3>2
  <2>2. ASSUME NEW j \in 0 .. k - 1, j \in K PROVE j + 1 \in K
    <3> DEFINE m == j + 1
               a == SumOn(e, 2 .. 2 * j + 1)
               b == SumOn(s, 1 .. j)
    <3>1. m \in 1 .. k /\ m \in 0 .. k /\ j \in Nat /\ 2 * m = (2 * j + 1) + 1 /\ 2 * m + 1 = 2 * m + 1
          /\ 1 .. m \subseteq 1 .. k /\ 1 .. j \subseteq 1 .. k /\ 2 * m \in Int /\ 2 * j + 1 \in Int
          /\ 2 <= 2 * m + 1 /\ 2 <= (2 * j + 1) + 1 /\ 1 <= j + 1
      OBVIOUS
    <3>2. \A y \in 2 .. 2 * m + 1 : e[y] \in Int
      <4> TAKE y \in 2 .. 2 * m + 1
      <4>1. y \div 2 \in 1 .. k /\ (y = 2 * (y \div 2) \/ y = 2 * (y \div 2) + 1)
        <5> HIDE DEF m
        <5>1. m \in 1 .. k /\ m \in Nat
          BY <3>1
        <5> QED BY <5>1
      <4> DEFINE x == y \div 2
      <4> HIDE DEF x
      <4>2. x \in 1 .. k /\ (y = 2 * x \/ y = 2 * x + 1)
        BY <4>1 DEF x
      <4> QED BY <1>5, <4>2
    <3>3. SumOn(s, 1 .. m) = b + s[m]
      <4>1. IntOn(s, 1 .. j + 1)
        BY <1>5, <3>1 DEF IntOn
      <4>2. SumOn(s, 1 .. j + 1) = SumOn(s, 1 .. j) + s[j + 1]
        BY <3>1, <4>1, IntervalAdd
      <4> QED BY <4>2
    <3>4. SumOn(e, 2 .. 2 * m) = a + e[2 * m]
      <4> DEFINE n == 2 * j + 1
      <4>1. n \in Int /\ 2 <= n + 1
        BY <3>1
      <4>4. 2 * m = n + 1
        BY <3>1
      <4>2. IntOn(e, 2 .. n + 1)
        <5>1. 2 .. n + 1 \subseteq 2 .. 2 * m + 1
          BY <4>4, <3>1, <4>1
        <5> QED BY <3>2, <5>1 DEF IntOn
      <4> HIDE DEF n, m
      <4>3. SumOn(e, 2 .. n + 1) = SumOn(e, 2 .. n) + e[n + 1]
        BY <4>1, <4>2, IntervalAdd
      <4> QED BY <4>4, <4>3 DEF n
    <3>5. SumOn(e, 2 .. 2 * m + 1) = SumOn(e, 2 .. 2 * m) + e[2 * m + 1]
      <4> DEFINE n == 2 * m
      <4>1. n \in Int /\ 2 <= n + 1
        BY <3>1
      <4>2. IntOn(e, 2 .. n + 1)
        BY <3>2 DEF IntOn
      <4> HIDE DEF n
      <4>3. SumOn(e, 2 .. n + 1) = SumOn(e, 2 .. n) + e[n + 1]
        BY <4>1, <4>2, IntervalAdd
      <4> QED BY <4>3 DEF n
    <3> DEFINE x1 == e[2 * m]
               x2 == e[2 * m + 1]
               d == s[m]
    <3>6. x1 \in Int /\ x2 \in Int /\ x1 + x2 = d /\ d \in Int
      BY <1>5, <3>1
    <3>7. a = b
      BY <2>2
    <3>8. b \in Int
      <4>1. IsFiniteSet(1 .. j) /\ IntOn(s, 1 .. j)
        BY <1>5, <3>1, FS_Interval DEF IntOn
      <4> QED BY <4>1, SumOnInt
    <3>9. (a + x1) + x2 = b + d
      <4> HIDE DEF a, b, d, x1, x2
      <4> QED BY <3>6, <3>7, <3>8
    <3>10. SumOn(e, 2 .. 2 * m + 1) = SumOn(s, 1 .. m)
      BY <3>3, <3>4, <3>5, <3>9
    <3>11. m \in K
      BY <3>1, <3>10
    <3> QED BY <3>11
  <2> HIDE DEF K
  <2> QED BY <2>1, <2>2, InductionUpTo
<1>7. k \in K
  BY <1>6
<1>8. SumOn(s, 1 .. k) = SumOn(z, I)
  <2>1. \A j \in 1 .. k : s[j] = z[Elems + k - j]
    BY DEF s
  <2> QED BY <2>1, InnerSums
<1> QED BY <1>7, <1>8

\* Over the whole list, and over the parents of all but the root
LEMMA SumsOverTree ==
  ASSUME Elems \in Nat, NEW tr, Whole(tr),
         NEW v, IntOn(v, ToSet(tr.sorted)),
         NEW f, \A i \in 1 .. Len(tr.sorted) : f[i] = v[tr.sorted[i]],
         NEW e, \A i \in 2 .. Len(tr.sorted) : e[i] = v[tr.dl[tr.sorted[i]]]
  PROVE  /\ SumOn(f, 1 .. Len(tr.sorted)) = SumOn(v, InTree(tr)) + SumOn(v, InnerNodes(tr))
         /\ SumOn(e, 2 .. Len(tr.sorted)) = 2 * SumOn(v, InnerNodes(tr))
<1> DEFINE k == Turns(tr)
           w == tr.sorted
           N == Len(tr.sorted)
           I == InnerNodes(tr)
           U == InTree(tr)
<1>1. /\ k \in Nat /\ k >= 1 /\ N = 2 * k + 1 /\ w \in Seq(Nodes) /\ ToSet(w) = U \cup I
      /\ Distinct(w) /\ Elems \in Nat
      /\ \A x \in 2 .. 2 * k + 1 : tr.dl[w[x]] = Elems + k - (x \div 2)
  BY DEF Whole, TreeRec, InnerNodes
<1>2. IsFiniteSet(U) /\ IsFiniteSet(I) /\ U \cap I = {} /\ U \subseteq Leaves
  <2>1. U \subseteq Leaves
    BY DEF InTree
  <2>2. IsFiniteSet(Leaves)
    BY FS_Interval DEF Leaves
  <2>3. IsFiniteSet(U)
    BY <2>1, <2>2, FS_Subset
  <2>4. Elems + (k - 1) \in Int
    BY <1>1
  <2>5. IsFiniteSet(I)
    <3> DEFINE z == Elems + (k - 1)
    <3>1. Elems \in Int /\ z \in Int /\ I = Elems .. z
      BY <1>1, <2>4 DEF InnerNodes
    <3> HIDE DEF z, I
    <3> QED BY <3>1, FS_Interval
  <2>6. \A x \in Leaves : x \notin I
    <3>1. \A x \in Leaves : x < Elems
      BY DEF Leaves
    <3>2. \A x \in I : x >= Elems
      BY <1>1 DEF InnerNodes
    <3>3. Leaves \subseteq Int /\ I \subseteq Int
      BY <1>1, <2>4 DEF Leaves, InnerNodes
    <3> QED BY <3>1, <3>2, <3>3
  <2> QED BY <2>1, <2>3, <2>5, <2>6
<1>3. DOMAIN w = 1 .. N /\ N \in Nat
  <2>1. N \in Nat
    BY <1>1
  <2> HIDE DEF w, k
  <2>2. DOMAIN w = 1 .. Len(w)
    BY <1>1
  <2> QED BY <2>1, <2>2 DEF w
<1>4. SumOn(f, 1 .. N) = SumOn(v, U) + SumOn(v, I)
  <2>1. IsFiniteSet(1 .. N)
    BY <1>3, FS_Interval
  <2>2. \A x \in 1 .. N, y \in 1 .. N : w[x] = w[y] => x = y
    BY <1>1 DEF Distinct
  <2>3. {w[x] : x \in 1 .. N} = ToSet(w)
    BY <1>3 DEF ToSet
  <2>4. IntOn(f, 1 .. N)
    <3> SUFFICES ASSUME NEW x \in 1 .. N PROVE f[x] \in Int
      BY DEF IntOn
    <3>1. w[x] \in ToSet(w)
      BY <2>3
    <3> QED BY <3>1 DEF IntOn
  <2>5. \A x \in 1 .. N : f[x] = v[w[x]]
    OBVIOUS
  <2>6. SumOn(f, 1 .. N) = SumOn(v, {w[x] : x \in 1 .. N})
    <3> DEFINE S == 1 .. N
    <3>1. IsFiniteSet(S) /\ (\A x \in S, y \in S : w[x] = w[y] => x = y)
          /\ (\A x \in S : f[x] = v[w[x]]) /\ IntOn(f, S)
      BY <2>1, <2>2, <2>4, <2>5
    <3> HIDE DEF S, w
    <3>2. SumOn(f, S) = SumOn(v, {w[x] : x \in S})
      BY <3>1, SumOnRenamed
    <3> QED BY <3>2 DEF S, w
  <2>7. IntOn(v, U \cup I)
    BY <1>1
  <2>8. SumOn(v, U \cup I) = SumOn(v, U) + SumOn(v, I)
    <3> HIDE DEF U, I
    <3> QED BY <1>2, <2>7, SumOnUnion
  <2> QED BY <1>1, <2>3, <2>6, <2>8
<1> DEFINE z == [n \in I |-> v[n] + v[n]]
<1>5. I = Elems .. Elems + (k - 1)
  BY DEF InnerNodes
<1>6. \A n \in I : v[n] \in Int
  BY <1>1 DEF IntOn
<1>7. ASSUME NEW j \in 1 .. k
      PROVE  /\ e[2 * j] \in Int /\ e[2 * j + 1] \in Int
             /\ e[2 * j] + e[2 * j + 1] = z[Elems + k - j]
  <2> DEFINE q == Elems + k - j
  <2>1. q \in I
    <3> HIDE DEF I, k
    <3> QED BY <1>1, <1>5
  <2>2. 2 * j \in 2 .. 2 * k + 1 /\ 2 * j + 1 \in 2 .. 2 * k + 1 /\ (2 * j) \div 2 = j
        /\ (2 * j + 1) \div 2 = j
    <3> HIDE DEF k
    <3> QED BY <1>1
  <2>3. e[2 * j] = v[Elems + k - ((2 * j) \div 2)] /\ e[2 * j + 1] = v[Elems + k - ((2 * j + 1) \div 2)]
    BY <1>1, <2>2
  <2>4. e[2 * j] = v[q] /\ e[2 * j + 1] = v[q]
    BY <2>2, <2>3
  <2>5. z[q] = v[q] + v[q] /\ v[q] \in Int
    BY <1>6, <2>1
  <2> QED BY <2>4, <2>5
<1>8. SumOn(e, 2 .. N) = SumOn(z, I)
  <2>1. IntOn(z, Elems .. Elems + (k - 1))
    <3>1. \A n \in I : z[n] \in Int
      <4> TAKE n \in I
      <4>1. z[n] = v[n] + v[n] /\ v[n] \in Int
        BY <1>6
      <4> QED BY <4>1
    <3> HIDE DEF z
    <3> QED BY <1>5, <3>1 DEF IntOn
  <2> HIDE DEF z, k
  <2>2. SumOn(e, 2 .. 2 * k + 1) = SumOn(z, Elems .. Elems + (k - 1))
    BY <1>1, <1>7, <2>1, PairSums
  <2> QED BY <1>1, <1>5, <2>2
<1>9. SumOn(e, 2 .. N) = 2 * SumOn(v, I)
  <2>1. IntOn(v, I)
    BY <1>6 DEF IntOn
  <2>2. \A n \in I : z[n] = v[n] + v[n]
    OBVIOUS
  <2> HIDE DEF z, I
  <2>3. SumOn(z, I) = SumOn(v, I) + SumOn(v, I)
    BY <1>2, <2>1, <2>2, SumOnPlus
  <2>4. SumOn(v, I) \in Int
    BY <1>2, <2>1, SumOnInt
  <2> QED BY <1>8, <2>3, <2>4
<1> QED BY <1>4, <1>9

-----------------------------------------------------------------------------

\* The share of all codes that a length takes, and which are as long as can be
Shares(len)  == [n \in DOMAIN len |-> Pow(len[n])]
Longest(len) == [n \in DOMAIN len |-> IF len[n] = Limit THEN 1 ELSE 0]

\* The lengths of the first pass lie within the limit
LEMMA CutLengths ==
  ASSUME Elems \in Nat, Limit \in Nat, Limit >= 1, NEW tr, Whole(tr),
         NEW x, CutSoFar(x, tr, Len(tr.sorted))
  PROVE  /\ \A n \in ToSet(tr.sorted) : x.dl[n] \in 0 .. Limit /\ n \in Nodes
         /\ \A i \in 2 .. Len(tr.sorted) :
              /\ tr.dl[tr.sorted[i]] \in ToSet(tr.sorted)
              /\ x.dl[tr.sorted[i]] \in 1 .. Limit
         /\ \A n \in InTree(tr) : x.dl[n] \in 1 .. Limit
<1> DEFINE N == Len(tr.sorted)
           w == tr.sorted
           k == Turns(tr)
<1>1. /\ w \in Seq(Nodes) /\ N = 2 * k + 1 /\ k \in Nat
      /\ ToSet(w) = InTree(tr) \cup (Elems .. Elems + (k - 1)) /\ w[1] = Elems + (k - 1)
  BY DEF Whole, TreeRec
<1>2. N \in Nat /\ N >= 1
  <2> HIDE DEF k
  <2> QED BY <1>1
<1>3. DOMAIN w = 1 .. N /\ \A i \in 1 .. N : w[i] \in Nodes /\ w[i] \in ToSet(w)
  <2>1. DOMAIN w = 1 .. N
    BY <1>1
  <2>2. \A i \in 1 .. N : w[i] \in ToSet(w)
    BY <2>1 DEF ToSet
  <2> QED BY <1>1, <2>1, <2>2
<1>4. ASSUME NEW i \in 2 .. N PROVE i \in 1 .. N /\ \E j \in 1 .. i - 1 : w[j] = tr.dl[w[i]]
  <2>1. i \in 1 .. N
    BY <1>2
  <2> QED BY <2>1, ParentBefore
<1>5. /\ x.dl \in [Nodes -> Nat] /\ x.dl[w[1]] = 0
      /\ \A i \in 2 .. N : x.dl[w[i]] = IF x.dl[tr.dl[w[i]]] + 1 > Limit THEN Limit
                                        ELSE x.dl[tr.dl[w[i]]] + 1
  BY DEF CutSoFar
<1>6. ASSUME NEW i \in 2 .. N
      PROVE  /\ tr.dl[w[i]] \in ToSet(w) /\ tr.dl[w[i]] \in Nodes
             /\ x.dl[w[i]] \in 1 .. Limit
  <2>1. PICK j \in 1 .. i - 1 : w[j] = tr.dl[w[i]]
    BY <1>4
  <2>2. j \in 1 .. N
    BY <1>2, <2>1
  <2>3. tr.dl[w[i]] \in ToSet(w) /\ tr.dl[w[i]] \in Nodes
    BY <1>3, <2>1, <2>2
  <2> DEFINE a == x.dl[tr.dl[w[i]]]
             b == x.dl[w[i]]
  <2>4. a \in Nat /\ b = IF a + 1 > Limit THEN Limit ELSE a + 1
    BY <1>5, <2>3
  <2>5. b \in 1 .. Limit
    <3> HIDE DEF a, b
    <3> QED BY <2>4
  <2> QED BY <2>3, <2>5
<1>7. ASSUME NEW n \in ToSet(w) PROVE x.dl[n] \in 0 .. Limit /\ n \in Nodes
  <2>1. PICK i \in 1 .. N : n = w[i]
    BY <1>3 DEF ToSet
  <2>2. CASE i = 1
    BY <1>3, <1>5, <2>1, <2>2
  <2>3. CASE i # 1
    <3>1. i \in 2 .. N
      BY <1>2, <2>3
    <3>2. x.dl[n] \in 1 .. Limit
      BY <1>6, <2>1, <3>1
    <3>3. n \in Nodes
      BY <1>3, <2>1
    <3> QED BY <3>2, <3>3
  <2> QED BY <2>2, <2>3
<1>8. ASSUME NEW n \in InTree(tr) PROVE x.dl[n] \in 1 .. Limit
  <2>1. PICK i \in 1 .. N : n = w[i]
    BY <1>1, <1>3 DEF ToSet
  <2>2. n < Elems /\ n \in Nat
    BY DEF InTree, Leaves
  <2>3. n # w[1]
    <3>1. k >= 1
      BY DEF Whole
    <3> HIDE DEF k
    <3> QED BY <1>1, <2>2, <3>1
  <2>4. i \in 2 .. N
    <3>1. i # 1
      BY <2>1, <2>3
    <3> QED BY <1>2, <3>1
  <2> QED BY <1>6, <2>1, <2>4
<1> QED BY <1>6, <1>7, <1>8

\* A length, and that of the parent
LEMMA SharesHalve ==
  ASSUME Limit \in Nat, Limit >= 1, NEW a \in 0 .. Limit, NEW b,
         b = IF a + 1 > Limit THEN Limit ELSE a + 1, NEW d, d = IF a + 1 > Limit THEN 1 ELSE 0
  PROVE  /\ Pow(a) \in Nat /\ Pow(b) \in Nat /\ 2 * Pow(b) = Pow(a) + d
         /\ d = (IF a = Limit THEN 1 ELSE 0) /\ d <= (IF b = Limit THEN 1 ELSE 0)
<1>1. CASE a = Limit
  <2>1. b = Limit /\ d = 1 /\ Limit - Limit = 0
    BY <1>1
  <2>2. Pow(b) = 1 /\ Pow(a) = 1
    BY <1>1, <2>1, Pow2Zero DEF Pow, Limit
  <2> QED BY <1>1, <2>1, <2>2
<1>2. CASE a # Limit
  <2>1. a \in Nat /\ a < Limit /\ b = a + 1 /\ d = 0
    BY <1>2
  <2>2. Limit - a \in Nat /\ Limit - b \in Nat /\ Pow2(Limit - a) = 2 * Pow2(Limit - b)
    BY <2>1, Pow2Half
  <2>3. Pow2(Limit - a) \in Nat /\ Pow2(Limit - b) \in Nat
    BY <2>2, Pow2Positive
  <2>4. Pow(a) = Pow2(Limit - a) /\ Pow(b) = Pow2(Limit - b)
    BY DEF Pow, Limit
  <2> QED BY <1>2, <2>1, <2>2, <2>3, <2>4
<1> QED BY <1>1, <1>2

\* Two codes too many for every two that were cut; and as many of the longest
LEMMA CutKraft ==
  ASSUME Elems \in Nat, Limit \in Nat, Limit >= 1, NEW tr, Whole(tr),
         NEW x, CutSoFar(x, tr, Len(tr.sorted))
  PROVE  \E o \in Nat : /\ x.overflow = 2 * o
                        /\ SumOn(Shares(x.dl), InTree(tr)) = Pow(0) + o
                        /\ o <= SumOn(Longest(x.dl), InTree(tr))
<1> DEFINE N == Len(tr.sorted)
           w == tr.sorted
           L == x.dl
           U == InTree(tr)
           I == InnerNodes(tr)
           v == Shares(L)
           r == Longest(L)
           ov == Overs(L, tr)
           f == [i \in 1 .. N |-> v[w[i]]]
           e == [i \in 2 .. N |-> v[tr.dl[w[i]]]]
           f2 == [i \in 1 .. N |-> r[w[i]]]
           e2 == [i \in 2 .. N |-> r[tr.dl[w[i]]]]
<1>1. N \in Nat /\ N >= 1 /\ DOMAIN w = 1 .. N
  <2>1. N = 2 * Turns(tr) + 1 /\ Turns(tr) \in Nat /\ w \in Seq(Nodes)
    BY DEF Whole, TreeRec
  <2>2. DOMAIN w = 1 .. N
    BY <2>1
  <2> HIDE DEF w
  <2> QED BY <2>1, <2>2
<1>2. \A i \in 1 .. N : w[i] \in ToSet(w)
  BY <1>1 DEF ToSet
<1>3. /\ \A n \in ToSet(w) : L[n] \in 0 .. Limit /\ n \in Nodes
      /\ \A i \in 2 .. N : tr.dl[w[i]] \in ToSet(w)
  BY CutLengths
<1>4. /\ L \in [Nodes -> Nat] /\ L[w[1]] = 0 /\ x.overflow = SumOn(ov, 2 .. N)
      /\ \A i \in 2 .. N : L[w[i]] = IF L[tr.dl[w[i]]] + 1 > Limit THEN Limit ELSE L[tr.dl[w[i]]] + 1
  BY DEF CutSoFar
<1>5. \A n \in ToSet(w) : /\ v[n] = Pow(L[n]) /\ r[n] = (IF L[n] = Limit THEN 1 ELSE 0)
                          /\ v[n] \in Nat /\ r[n] \in Nat
  <2> TAKE n \in ToSet(w)
  <2>1. v[n] = Pow(L[n]) /\ r[n] = (IF L[n] = Limit THEN 1 ELSE 0)
    BY <1>3, <1>4 DEF Shares, Longest
  <2>2. Limit - L[n] \in Nat
    BY <1>3
  <2>3. Pow(L[n]) \in Nat
    BY <2>2, Pow2Positive DEF Pow, Limit
  <2> QED BY <2>1, <2>3
<1>6. U \cup I = ToSet(w)
  BY DEF Whole, InnerNodes
<1>7. ASSUME NEW i \in 2 .. N
      PROVE  /\ i \in 1 .. N /\ e[i] \in Nat /\ f[i] \in Nat /\ 2 * f[i] = e[i] + ov[i] /\ ov[i] \in Nat
             /\ ov[i] = e2[i] /\ ov[i] <= f2[i] /\ f2[i] \in Nat
  <2>1. i \in 1 .. N
    BY <1>1
  <2>2. e[i] = Pow(L[tr.dl[w[i]]]) /\ f[i] = Pow(L[w[i]])
        /\ e2[i] = (IF L[tr.dl[w[i]]] = Limit THEN 1 ELSE 0)
        /\ f2[i] = (IF L[w[i]] = Limit THEN 1 ELSE 0)
    BY <1>2, <1>3, <1>5, <2>1
  <2>3. ov[i] = IF L[tr.dl[w[i]]] + 1 > Limit THEN 1 ELSE 0
    BY DEF Overs
  <2> DEFINE a == L[tr.dl[w[i]]]
             b == L[w[i]]
             d == ov[i]
  <2>4. a \in 0 .. Limit
    BY <1>3
  <2>5. b = (IF a + 1 > Limit THEN Limit ELSE a + 1) /\ d = (IF a + 1 > Limit THEN 1 ELSE 0)
    BY <1>4, <2>3
  <2> HIDE DEF a, b, d
  <2>6. /\ Pow(a) \in Nat /\ Pow(b) \in Nat /\ 2 * Pow(b) = Pow(a) + d
        /\ d = (IF a = Limit THEN 1 ELSE 0) /\ d <= (IF b = Limit THEN 1 ELSE 0)
    BY <2>4, <2>5, SharesHalve
  <2>7. d \in Nat
    BY <2>5
  <2> HIDE DEF e, f, e2, f2, ov
  <2> QED BY <2>1, <2>2, <2>6, <2>7 DEF a, b, d
<1>8. f[1] = Pow(0) /\ 1 \in 1 .. N
  <2>1. 1 \in 1 .. N
    BY <1>1
  <2>2. f[1] = Pow(L[w[1]])
    BY <1>2, <1>5, <2>1
  <2> QED BY <1>4, <2>1, <2>2
<1>9. \A i \in 1 .. N : f[i] \in Nat /\ f2[i] \in Nat
  BY <1>2, <1>5
<1>10. IntOn(v, ToSet(w)) /\ IntOn(r, ToSet(w))
  <2>1. \A n \in ToSet(w) : v[n] \in Int /\ r[n] \in Int
    BY <1>5
  <2> HIDE DEF v, r, w
  <2> QED BY <2>1 DEF IntOn
<1>11. SumOn(f, 1 .. N) = SumOn(v, U) + SumOn(v, I) /\ SumOn(e, 2 .. N) = 2 * SumOn(v, I)
  <2>1. \A i \in 1 .. N : f[i] = v[w[i]]
    OBVIOUS
  <2>2. \A i \in 2 .. N : e[i] = v[tr.dl[w[i]]]
    OBVIOUS
  <2> HIDE DEF v, f, e
  <2> QED BY <1>10, <2>1, <2>2, SumsOverTree
<1>12. SumOn(f2, 1 .. N) = SumOn(r, U) + SumOn(r, I) /\ SumOn(e2, 2 .. N) = 2 * SumOn(r, I)
  <2>1. \A i \in 1 .. N : f2[i] = r[w[i]]
    OBVIOUS
  <2>2. \A i \in 2 .. N : e2[i] = r[tr.dl[w[i]]]
    OBVIOUS
  <2> HIDE DEF r, f2, e2
  <2> QED BY <1>10, <2>1, <2>2, SumsOverTree
<1>13. IsFiniteSet(2 .. N) /\ IsFiniteSet(1 .. N) /\ (1 .. N) \ {1} = 2 .. N
       /\ IsFiniteSet(ToSet(w)) /\ U \subseteq ToSet(w) /\ I \subseteq ToSet(w)
  <2>1. IsFiniteSet(2 .. N) /\ IsFiniteSet(1 .. N)
    BY <1>1, FS_Interval
  <2>2. (1 .. N) \ {1} = 2 .. N
    BY <1>1
  <2>3. IsFiniteSet(Nodes)
    <3>1. 2 * Elems - 1 \in Int
      OBVIOUS
    <3> QED BY <3>1, FS_Interval DEF Nodes
  <2>4. ToSet(w) \subseteq Nodes
    BY <1>3
  <2>5. IsFiniteSet(ToSet(w))
    BY <2>3, <2>4, FS_Subset
  <2> HIDE DEF w, N
  <2> QED BY <1>6, <2>1, <2>2, <2>5
<1>14. IsFiniteSet(U) /\ IsFiniteSet(I)
  BY <1>13, FS_Subset
<1> HIDE DEF f, e, f2, e2, ov, v, r, w, N, U, I
<1>15. IntOn(f, 1 .. N) /\ IntOn(f, 2 .. N) /\ IntOn(e, 2 .. N) /\ IntOn(ov, 2 .. N)
       /\ IntOn(f2, 1 .. N) /\ IntOn(f2, 2 .. N)
  BY <1>7, <1>9 DEF IntOn
<1> DEFINE S1 == SumOn(f, 2 .. N)
           Sv == SumOn(v, I)
           Uv == SumOn(v, U)
           So == SumOn(ov, 2 .. N)
           Se == SumOn(e, 2 .. N)
           Ir == SumOn(r, I)
           Ur == SumOn(r, U)
           S2 == SumOn(f2, 2 .. N)
<1>16. SumOn(f, 1 .. N) = Pow(0) + S1
  <2>1. SumOn(f, 1 .. N) = f[1] + SumOn(f, (1 .. N) \ {1})
    <3> DEFINE S == 1 .. N
    <3>1. IsFiniteSet(S) /\ 1 \in S /\ IntOn(f, S)
      BY <1>8, <1>13, <1>15
    <3> HIDE DEF S
    <3>2. SumOn(f, S) = f[1] + SumOn(f, S \ {1})
      BY <3>1, SumOnRemove
    <3> QED BY <3>2 DEF S
  <2> QED BY <1>8, <1>13, <2>1
<1>17. 2 * S1 = Se + So
  <2> DEFINE h == [i \in 2 .. N |-> f[i] + f[i]]
  <2>1. \A i \in 2 .. N : h[i] = f[i] + f[i]
    OBVIOUS
  <2>2. \A i \in 2 .. N : h[i] = e[i] + ov[i]
    <3> TAKE i \in 2 .. N
    <3>1. f[i] \in Nat /\ 2 * f[i] = e[i] + ov[i]
      BY <1>7
    <3>2. h[i] = f[i] + f[i]
      BY <2>1
    <3> DEFINE a == f[i]
               b == e[i] + ov[i]
    <3>3. a \in Nat /\ 2 * a = b /\ h[i] = a + a
      BY <3>1, <3>2
    <3> HIDE DEF a, b
    <3>4. h[i] = b
      BY <3>3
    <3> QED BY <3>4 DEF b
  <2> HIDE DEF h
  <2>3. SumOn(h, 2 .. N) = S1 + S1
    BY <1>13, <1>15, <2>1, SumOnPlus
  <2>4. SumOn(h, 2 .. N) = Se + So
    BY <1>13, <1>15, <2>2, SumOnPlus
  <2>5. S1 \in Int
    BY <1>13, <1>15, SumOnInt
  <2> HIDE DEF S1, Se, So
  <2>6. 2 * S1 = S1 + S1
    BY <2>5
  <2> QED BY <2>3, <2>4, <2>6
<1>18. So = 2 * Ir
  <2>1. \A i \in 2 .. N : ov[i] = e2[i]
    BY <1>7
  <2>2. SumOn(ov, 2 .. N) = SumOn(e2, 2 .. N)
    BY <2>1, SumOnSame
  <2> QED BY <1>12, <2>2
<1>19. So <= S2
  <2>1. \A i \in 2 .. N : ov[i] <= f2[i]
    BY <1>7
  <2> QED BY <1>13, <1>15, <2>1, SumOnLeq
<1>20. SumOn(f2, 1 .. N) = f2[1] + S2
  <2>1. SumOn(f2, 1 .. N) = f2[1] + SumOn(f2, (1 .. N) \ {1})
    <3> DEFINE S == 1 .. N
    <3>1. IsFiniteSet(S) /\ 1 \in S /\ IntOn(f2, S)
      BY <1>8, <1>13, <1>15
    <3> HIDE DEF S
    <3>2. SumOn(f2, S) = f2[1] + SumOn(f2, S \ {1})
      BY <3>1, SumOnRemove
    <3> QED BY <3>2 DEF S
  <2> QED BY <1>13, <2>1
<1>21. Sv \in Nat /\ Uv \in Nat /\ Ir \in Nat /\ Ur \in Nat /\ S1 \in Int /\ S2 \in Int /\ So \in Int
       /\ f2[1] \in Nat /\ Pow(0) \in Nat /\ Se \in Int
  <2>1. (\A n \in U : v[n] \in Nat /\ r[n] \in Nat) /\ (\A n \in I : v[n] \in Nat /\ r[n] \in Nat)
    BY <1>5, <1>13
  <2>2. Sv \in Nat
    BY <1>14, <2>1, SumOnNat
  <2>3. Uv \in Nat
    BY <1>14, <2>1, SumOnNat
  <2>4. Ir \in Nat
    BY <1>14, <2>1, SumOnNat
  <2>5. Ur \in Nat
    BY <1>14, <2>1, SumOnNat
  <2>6. S1 \in Int /\ S2 \in Int /\ So \in Int /\ Se \in Int
    BY <1>13, <1>15, SumOnInt
  <2>7. f2[1] \in Nat /\ Pow(0) \in Nat
    BY <1>8, <1>9
  <2> HIDE DEF Sv, Uv, Ir, Ur, S1, S2, So, Se
  <2> QED BY <2>2, <2>3, <2>4, <2>5, <2>6, <2>7
<1>22. Pow(0) + S1 = Uv + Sv /\ Se = 2 * Sv /\ f2[1] + S2 = Ur + Ir
  BY <1>11, <1>12, <1>16, <1>20
<1>23. x.overflow = So
  BY <1>4 DEF N, ov
<1> HIDE DEF Sv, Uv, Ir, Ur, S1, S2, So, Se
<1> DEFINE q == Pow(0)
           z == f2[1]
<1>24. Uv = q + Ir /\ Ir <= Ur
  <2>1. /\ q + S1 = Uv + Sv /\ Se = 2 * Sv /\ z + S2 = Ur + Ir /\ 2 * S1 = Se + So /\ So = 2 * Ir
        /\ So <= S2 /\ q \in Nat /\ z \in Nat
    BY <1>17, <1>18, <1>19, <1>21, <1>22
  <2> HIDE DEF q, z
  <2>2. S1 = Sv + Ir
    BY <1>21, <2>1
  <2>3. Uv = q + Ir
    BY <1>21, <2>1, <2>2
  <2>4. Ir <= Ur
    BY <1>21, <2>1
  <2> QED BY <2>3, <2>4
<1> QED BY <1>18, <1>21, <1>23, <1>24 DEF Uv, Ur, U, v, r, L

-----------------------------------------------------------------------------
(* Counts of lengths, and room for the codes that were cut                 *)

\* Code lengths, and the number of codes of all of them
Levels == 0 .. Limit
\* The shares and the number of the codes that counts of lengths stand for
Kraft(count) == SumOn([b \in Levels |-> count[b] * Pow(b)], Levels)
Total(count) == SumOn(count, Levels)

LEMMA LevelsIs ==
  ASSUME Limit \in Nat
  PROVE  /\ IsFiniteSet(Levels) /\ Levels \subseteq Nat /\ 0 \in Levels /\ Limit \in Levels
         /\ \A b \in Levels : Pow(b) \in Nat /\ Pow(b) >= 1
         /\ Pow(Limit) = 1
<1>1. IsFiniteSet(Levels)
  BY FS_Interval DEF Levels
<1>2. Levels \subseteq Nat /\ 0 \in Levels /\ Limit \in Levels
  BY DEF Levels
<1>3. ASSUME NEW b \in Levels PROVE Pow(b) \in Nat /\ Pow(b) >= 1
  <2>1. Limit - b \in Nat
    BY DEF Levels
  <2> QED BY <2>1, Pow2Positive DEF Pow, Limit
<1>4. Limit - Limit = 0
  OBVIOUS
<1>5. Pow(Limit) = 1
  BY <1>4, Pow2Zero DEF Pow, Limit
<1> QED BY <1>1, <1>2, <1>3, <1>5

\* What the counts of the lengths of the symbols of S say
LEMMA CountsOf ==
  ASSUME Limit \in Nat, NEW S, IsFiniteSet(S), NEW len, S \subseteq DOMAIN len,
         \A n \in S : len[n] \in 1 .. Limit,
         NEW count \in [Levels -> Nat], \A b \in Levels : count[b] = Cardinality(Valued(len, S, b))
  PROVE  /\ count[0] = 0 /\ Kraft(count) = SumOn(Shares(len), S)
         /\ Total(count) = Cardinality(S) /\ count[Limit] = SumOn(Longest(len), S)
<1>1. /\ IsFiniteSet(Levels) /\ Levels \subseteq Nat /\ 0 \in Levels /\ Limit \in Levels
      /\ \A b \in Levels : Pow(b) \in Nat
  BY LevelsIs
<1>0. IsFiniteSet(Levels)
  BY <1>1
<1>2. \A n \in S : len[n] \in Levels
  BY DEF Levels
<1>3. count[0] = 0
  <2>1. Valued(len, S, 0) = {}
    BY DEF Valued
  <2> QED BY <1>1, <2>1, FS_EmptySet
<1>4. Kraft(count) = SumOn(Shares(len), S)
  <2> DEFINE w == [b \in Levels |-> Pow(b)]
             c == [b \in Levels |-> count[b] * Pow(b)]
             f == Shares(len)
  <2>1. IntOn(w, Levels)
    BY <1>1 DEF IntOn
  <2>2. \A n \in S : f[n] = w[len[n]]
    BY <1>2 DEF Shares
  <2>3. \A b \in Levels : c[b] = Cardinality(Valued(len, S, b)) * w[b]
    OBVIOUS
  <2>4. Kraft(count) = SumOn(c, Levels)
    BY DEF Kraft
  <2> HIDE DEF w, c, f
  <2>5. SumOn(f, S) = SumOn(c, Levels)
    BY <1>0, <1>2, <2>1, <2>2, <2>3, SumByValue
  <2> QED BY <2>4, <2>5 DEF f
<1>5. Total(count) = Cardinality(S)
  <2> DEFINE w == [b \in Levels |-> 1]
             f == [n \in S |-> 1]
  <2>1. IntOn(w, Levels)
    BY DEF IntOn
  <2>2. \A n \in S : f[n] = w[len[n]]
    BY <1>2
  <2>3. \A b \in Levels : count[b] = Cardinality(Valued(len, S, b)) * w[b]
    <3> TAKE b \in Levels
    <3>1. count[b] \in Nat /\ w[b] = 1
      OBVIOUS
    <3> HIDE DEF w
    <3>2. count[b] = count[b] * w[b]
      BY <3>1
    <3> QED BY <3>2
  <2> HIDE DEF w, f
  <2>4. SumOn(f, S) = SumOn(count, Levels)
    BY <1>0, <1>2, <2>1, <2>2, <2>3, SumByValue
  <2>5. SumOn(f, S) = Cardinality(S)
    BY CardAsSum DEF f
  <2> QED BY <2>4, <2>5 DEF Total
<1>6. count[Limit] = SumOn(Longest(len), S)
  <2> DEFINE w == [b \in Levels |-> IF b = Limit THEN 1 ELSE 0]
             c == [b \in Levels |-> count[b] * w[b]]
             f == Longest(len)
  <2>1. IntOn(w, Levels)
    BY DEF IntOn
  <2>2. \A n \in S : f[n] = w[len[n]]
    BY <1>2 DEF Longest
  <2>3. \A b \in Levels : c[b] = Cardinality(Valued(len, S, b)) * w[b]
    OBVIOUS
  <2>4. \A b \in Levels : /\ b # Limit => c[b] = 0
                          /\ b = Limit => c[b] = count[b]
    <3> TAKE b \in Levels
    <3>1. count[b] \in Nat /\ c[b] = count[b] * w[b] /\ w[b] = (IF b = Limit THEN 1 ELSE 0)
      OBVIOUS
    <3> HIDE DEF w, c
    <3>2. CASE b = Limit
      BY <3>1, <3>2
    <3>3. CASE b # Limit
      BY <3>1, <3>3
    <3> QED BY <3>2, <3>3
  <2> HIDE DEF w, c, f
  <2>5. SumOn(f, S) = SumOn(c, Levels)
    BY <1>0, <1>2, <2>1, <2>2, <2>3, SumByValue
  <2>6. SumOn(c, Levels) = SumOn(c, {Limit})
    <3> DEFINE T == {Limit}
    <3>1. T \in SUBSET Levels /\ IntOn(c, T) /\ \A x \in Levels \ T : c[x] = 0
      BY <1>1, <2>4 DEF IntOn
    <3> HIDE DEF T
    <3> QED BY <1>1, <3>1, SumOnPart DEF T
  <2>7. SumOn(c, {Limit}) = c[Limit]
    <3>1. IntOn(c, {} \cup {Limit})
      BY <1>1, <2>4 DEF IntOn
    <3>2. IsFiniteSet({})
      BY FS_EmptySet
    <3>3. SumOn(c, {} \cup {Limit}) = c[Limit] + SumOn(c, {})
      BY <3>1, <3>2, SumOnAdd
    <3>4. c[Limit] \in Int /\ {} \cup {Limit} = {Limit}
      BY <1>1, <2>4
    <3>5. SumOn(c, {}) = 0
      BY SumOnEmpty
    <3> QED BY <3>3, <3>4, <3>5
  <2> QED BY <1>1, <2>4, <2>5, <2>6, <2>7 DEF f
<1> QED BY <1>3, <1>4, <1>5, <1>6

-----------------------------------------------------------------------------
\* h is f, but for p more at x, q more at y, and r more at z
Changed(h, f, S, x, p, y, q, z, r) ==
  /\ x \in S /\ y \in S /\ x # y /\ z \in S /\ p \in Int /\ q \in Int /\ r \in Int
  /\ \E d : /\ d[x] = p /\ d[y] = q /\ \A b \in S : b # x /\ b # y => d[b] = 0
            /\ \A b \in S : b # z => h[b] = f[b] + d[b]
            /\ h[z] = (f[z] + d[z]) + r

LEMMA ThreeChanges ==
  ASSUME NEW S, IsFiniteSet(S), NEW f, IntOn(f, S), NEW h, NEW x, NEW p, NEW y, NEW q, NEW z, NEW r,
         Changed(h, f, S, x, p, y, q, z, r)
  PROVE  SumOn(h, S) = SumOn(f, S) + (p + q + r)
<1>0. x \in S /\ y \in S /\ x # y /\ z \in S /\ p \in Int /\ q \in Int /\ r \in Int
  BY DEF Changed
<1>00. PICK d : /\ d[x] = p /\ d[y] = q /\ \A b \in S : b # x /\ b # y => d[b] = 0
                /\ \A b \in S : b # z => h[b] = f[b] + d[b]
                /\ h[z] = (f[z] + d[z]) + r
  BY DEF Changed
<1> DEFINE f1 == [b \in S |-> f[b] + (IF b = x THEN p ELSE 0)]
           f2 == [b \in S |-> f1[b] + (IF b = y THEN q ELSE 0)]
<1>1. \A b \in S : f[b] \in Int
  BY DEF IntOn
<1>2. /\ f1[x] = f[x] + p /\ \A b \in S : b # x => f1[b] = f[b]
      /\ \A b \in S : f1[b] \in Int
  BY <1>0, <1>1
<1>3. \A b \in S : f2[b] = f1[b] + (IF b = y THEN q ELSE 0)
  OBVIOUS
<1>6. \A b \in S : (b = z => h[b] = f2[b] + r) /\ (b # z => h[b] = f2[b])
  <2> TAKE b \in S
  <2>1. f[b] \in Int
    BY <1>1, <1>0
  <2>2. f2[b] = (f[b] + (IF b = x THEN p ELSE 0)) + (IF b = y THEN q ELSE 0)
    OBVIOUS
  <2> DEFINE a == f[b]
             c == f2[b]
             e == d[b]
  <2>4. c = a + e
    <3>1. a \in Int /\ c = (a + (IF b = x THEN p ELSE 0)) + (IF b = y THEN q ELSE 0)
      BY <2>1, <2>2
    <3>5. (b = x => e = p) /\ (b = y => e = q) /\ (b # x /\ b # y => e = 0)
      BY <1>00
    <3> HIDE DEF a, c, e, f1, f2
    <3>2. CASE b = x
      BY <1>0, <3>1, <3>2, <3>5
    <3>3. CASE b = y
      BY <1>0, <3>1, <3>3, <3>5
    <3>4. CASE b # x /\ b # y
      BY <1>0, <3>1, <3>4, <3>5
    <3> QED BY <3>2, <3>3, <3>4
  <2>5. CASE b = z
    <3>1. h[z] = (f[z] + d[z]) + r
      BY <1>00
    <3>2. f2[z] = f[z] + d[z]
      BY <2>4, <2>5
    <3> HIDE DEF f2
    <3>4. h[z] = f2[z] + r
      BY <3>1, <3>2
    <3> QED BY <2>5, <3>4
  <2>6. CASE b # z
    <3>1. h[b] = f[b] + d[b]
      BY <1>00, <2>6
    <3>2. h[b] = f2[b]
      BY <2>4, <3>1
    <3> QED BY <2>6, <3>2
  <2> QED BY <2>5, <2>6
<1> HIDE DEF f1, f2
<1>4. /\ f2[y] = f1[y] + q /\ \A b \in S : b # y => f2[b] = f1[b]
      /\ \A b \in S : f2[b] \in Int
  BY <1>0, <1>2, <1>3
<1>5. IntOn(f1, S) /\ IntOn(f2, S)
  BY <1>2, <1>4 DEF IntOn
<1>7. SumOn(f1, S) = SumOn(f, S) + p
  BY <1>0, <1>2, SumOnChange
<1>8. SumOn(f2, S) = SumOn(f1, S) + q
  BY <1>0, <1>4, <1>5, SumOnChange
<1>9. h[z] = f2[z] + r /\ \A b \in S : b # z => h[b] = f2[b]
  BY <1>0, <1>4, <1>6
<1>10. SumOn(h, S) = SumOn(f2, S) + r
  BY <1>0, <1>5, <1>9, SumOnChange
<1>11. SumOn(f, S) \in Int
  BY SumOnInt
<1> DEFINE a == SumOn(f, S)
           b1 == SumOn(f1, S)
           b2 == SumOn(f2, S)
           b3 == SumOn(h, S)
<1>12. a \in Int /\ b1 = a + p /\ b2 = b1 + q /\ b3 = b2 + r
  BY <1>7, <1>8, <1>10, <1>11
<1> HIDE DEF a, b1, b2, b3
<1>13. b3 = a + (p + q + r)
  BY <1>0, <1>12
<1> QED BY <1>13 DEF a, b3

\* Counts of n codes too many, for s symbols
Roomy(count, n, s) ==
  /\ count \in [Levels -> Nat] /\ count[0] = 0
  /\ Kraft(count) = Pow(0) + n /\ n <= count[Limit]
  /\ Total(count) = s

\* With codes too many there is a leaf above the longest, as there are no more symbols
\* than codes of that length
LEMMA LeafAbove ==
  ASSUME Limit \in Nat, NEW n \in Nat, n >= 1, NEW s \in Nat, s <= Pow2(Limit),
         NEW count, Roomy(count, n, s)
  PROVE  \E b \in 0 .. Limit - 1 : count[b] # 0
<1> SUFFICES ASSUME \A b \in 0 .. Limit - 1 : count[b] = 0 PROVE FALSE
  OBVIOUS
<1> DEFINE f == [b \in Levels |-> count[b] * Pow(b)]
           T == {Limit}
<1>1. /\ IsFiniteSet(Levels) /\ Levels \subseteq Nat /\ 0 \in Levels /\ Limit \in Levels
      /\ \A b \in Levels : Pow(b) \in Nat
      /\ Pow(Limit) = 1
  BY LevelsIs
<1>2. \A b \in Levels \ {Limit} : b \in 0 .. Limit - 1
  BY DEF Levels
<1>3. \A b \in Levels \ {Limit} : count[b] = 0
  BY <1>2
<1>4. \A b \in Levels : count[b] \in Nat
  BY DEF Roomy
<1>5. \A b \in Levels \ {Limit} : f[b] = 0
  <2> TAKE b \in Levels \ {Limit}
  <2>1. f[b] = 0 * Pow(b) /\ Pow(b) \in Nat
    BY <1>1, <1>3
  <2> QED BY <2>1
<1>6. f[Limit] = count[Limit]
  <2>1. f[Limit] = count[Limit] * 1
    BY <1>1
  <2> QED BY <1>1, <1>4, <2>1
<1>7. Kraft(count) = SumOn(f, Levels)
  BY DEF Kraft
<1> HIDE DEF f
<1>8. IntOn(f, T) /\ IntOn(count, T) /\ T \in SUBSET Levels
      /\ (\A x \in Levels \ T : f[x] = 0) /\ (\A x \in Levels \ T : count[x] = 0)
  BY <1>1, <1>3, <1>4, <1>5, <1>6 DEF IntOn
<1> HIDE DEF T
<1>9. SumOn(f, Levels) = SumOn(f, T)
  BY <1>1, <1>8, SumOnPart
<1>10. SumOn(count, Levels) = SumOn(count, T)
  BY <1>1, <1>8, SumOnPart
<1>11. SumOn(f, T) = SumOn(count, T)
  <2>1. \A x \in T : f[x] = count[x]
    BY <1>6 DEF T
  <2> QED BY <2>1, SumOnSame
<1>12. Pow(0) + n = s
  BY <1>7, <1>9, <1>10, <1>11 DEF Roomy, Total
<1>13. Pow(0) = Pow2(Limit)
  <2>1. Limit - 0 = Limit
    OBVIOUS
  <2> QED BY <2>1 DEF Pow, Limit
<1>14. Pow(0) \in Nat
  BY <1>1
<1> DEFINE q == Pow(0)
<1>15. q + n = s /\ s <= q /\ q \in Nat
  BY <1>12, <1>13, <1>14
<1> HIDE DEF q
<1> QED BY <1>15

\* Making room for two cut codes takes one from the excess and keeps the number of
\* codes (trees.go:343-356)
LEMMA MakeRoomKeeps ==
  ASSUME Limit \in Nat, NEW n \in Nat, n >= 1, NEW s \in Nat, s <= Pow2(Limit),
         NEW count, Roomy(count, n, s)
  PROVE  Roomy(MakeRoom(count), n - 1, s)
<1> DEFINE B == {b \in 0 .. Limit - 1 : count[b] # 0}
           x == Max(B)
           y == x + 1
           d(b) == (CASE b = x -> -1 [] b = y -> 2 [] OTHER -> 0)
           c == MakeRoom(count)
<1>1. /\ IsFiniteSet(Levels) /\ Levels \subseteq Nat /\ 0 \in Levels /\ Limit \in Levels
      /\ \A b \in Levels : Pow(b) \in Nat
      /\ Pow(Limit) = 1
  BY LevelsIs
<1>2. x \in B
  <2>1. B # {} /\ B \subseteq Nat
    BY LeafAbove
  <2>2. IsFiniteSet(B)
    <3>1. IsFiniteSet(0 .. Limit - 1)
      BY FS_Interval
    <3> QED BY <3>1, FS_Subset
  <2> HIDE DEF B
  <2> QED BY <2>1, <2>2, MaxOfSet
<1>3. DOMAIN count = Levels /\ \A b \in Levels : count[b] \in Nat
  BY DEF Roomy
<1>4. c = [b \in Levels |-> count[b] + d(b) - (IF b = Limit THEN 1 ELSE 0)]
  BY <1>3 DEF MakeRoom, Limit
<1> HIDE DEF B, c
<1>5. x \in 0 .. Limit - 1 /\ count[x] # 0
  BY <1>2 DEF B
<1> HIDE DEF x
<1>6. x \in Levels /\ y \in Levels /\ x # y /\ x # Limit /\ x # 0 /\ x < Limit /\ x \in Nat /\ y # 0
  BY <1>5 DEF Levels, Roomy
<1>7. ASSUME NEW b \in Levels
      PROVE  c[b] = (count[b] + d(b)) + (IF b = Limit THEN -1 ELSE 0)
  <2> DEFINE a == count[b]
             e == d(b)
  <2>1. c[b] = a + e - (IF b = Limit THEN 1 ELSE 0)
    BY <1>4
  <2>2. a \in Nat /\ e \in Int
    BY <1>3
  <2> HIDE DEF a, e
  <2>3. c[b] = (a + e) + (IF b = Limit THEN -1 ELSE 0)
    BY <2>1, <2>2
  <2> QED BY <2>3 DEF a, e
<1>8. count[x] >= 1 /\ count[Limit] >= n /\ count[Limit] \in Nat /\ count[x] \in Nat
  BY <1>1, <1>3, <1>5, <1>6 DEF Roomy
<1>9. ASSUME NEW b \in Levels PROVE c[b] \in Nat
  <2> DEFINE a == count[b]
  <2>1. a \in Nat /\ c[b] = (a + d(b)) + (IF b = Limit THEN -1 ELSE 0)
    BY <1>3, <1>7
  <2>2. (b = x => a >= 1) /\ (b = Limit => a >= 1)
    BY <1>8
  <2> HIDE DEF a, y
  <2>3. CASE b = x
    BY <1>6, <2>1, <2>2, <2>3
  <2>4. CASE b = y
    BY <1>6, <2>1, <2>2, <2>4
  <2>5. CASE b # x /\ b # y
    BY <1>6, <2>1, <2>2, <2>5
  <2> QED BY <2>3, <2>4, <2>5
<1>10. c \in [Levels -> Nat]
  <2>1. c = [b \in Levels |-> c[b]]
    BY <1>4
  <2> QED BY <1>9, <2>1
<1>11. c[0] = 0
  <2>1. d(0) = 0
    BY <1>6
  <2>2. 0 # Limit
    BY <1>6
  <2>3. count[0] = 0
    BY DEF Roomy
  <2> QED BY <1>1, <1>7, <2>1, <2>2, <2>3
<1>12. c[Limit] >= n - 1
  <2> DEFINE a == count[Limit]
             e == d(Limit)
  <2>1. c[Limit] = (a + e) + (-1)
    BY <1>1, <1>7
  <2>2. e \in {0, 2}
    BY <1>6
  <2>3. a >= n /\ a \in Nat
    BY <1>8
  <2> HIDE DEF a, e
  <2> QED BY <2>1, <2>2, <2>3
<1>13. Total(c) = Total(count)
  <2> DEFINE p == -1
             q == 2
             r == -1
             e == [b \in Levels |-> d(b)]
  <2>1. e[x] = p /\ e[y] = q /\ \A b \in Levels : b # x /\ b # y => e[b] = 0
    BY <1>6
  <2>6. \A b \in Levels : b # Limit => c[b] = count[b] + e[b]
    <3> TAKE b \in Levels
    <3> HAVE b # Limit
    <3>1. c[b] = (count[b] + d(b)) + 0
      BY <1>7
    <3>2. count[b] + d(b) \in Int
      BY <1>3
    <3>3. e[b] = d(b)
      OBVIOUS
    <3> HIDE DEF d
    <3> QED BY <3>1, <3>2, <3>3
  <2>7. c[Limit] = (count[Limit] + e[Limit]) + r
    BY <1>1, <1>7
  <2>2. p \in Int /\ q \in Int /\ r \in Int /\ p + q + r = 0
    OBVIOUS
  <2>3. IntOn(count, Levels)
    BY <1>3 DEF IntOn
  <2>8. IsFiniteSet(Levels) /\ x \in Levels /\ y \in Levels /\ x # y /\ Limit \in Levels
    BY <1>1, <1>6
  <2> HIDE DEF p, q, r, y, e
  <2>9. Changed(c, count, Levels, x, p, y, q, Limit, r)
    BY <2>1, <2>2, <2>6, <2>7, <2>8 DEF Changed
  <2>4. SumOn(c, Levels) = SumOn(count, Levels) + (p + q + r)
    BY <2>3, <2>8, <2>9, ThreeChanges
  <2>5. SumOn(count, Levels) \in Int
    BY <1>1, <2>3, SumOnInt
  <2> QED BY <2>2, <2>4, <2>5 DEF Total
<1>14. Kraft(c) = Kraft(count) - 1
  <2> DEFINE f == [b \in Levels |-> count[b] * Pow(b)]
             h == [b \in Levels |-> c[b] * Pow(b)]
             p == -Pow(x)
             q == 2 * Pow(y)
             r == -1
             e == [b \in Levels |-> CASE b = x -> p [] b = y -> q [] OTHER -> 0]
  <2>0. e[x] = p /\ e[y] = q /\ \A b \in Levels : b # x /\ b # y => e[b] = 0
    BY <1>6
  <2>1. Pow(x) = 2 * Pow(y) /\ Pow(x) \in Nat /\ Pow(y) \in Nat
    <3>1. Pow2(Limit - x) = 2 * Pow2(Limit - (x + 1))
      BY <1>6, Pow2Half
    <3> QED BY <1>1, <1>6, <3>1 DEF Pow, Limit
  <2>2. \A b \in Levels : h[b] = (f[b] + e[b]) + (IF b = Limit THEN r ELSE 0)
    <3> TAKE b \in Levels
    <3> DEFINE a == count[b]
               w == Pow(b)
    <3>1. a \in Nat /\ w \in Nat /\ f[b] = a * w /\ h[b] = c[b] * w
          /\ c[b] = (a + d(b)) + (IF b = Limit THEN -1 ELSE 0)
      BY <1>1, <1>3, <1>7
    <3>2. (b = Limit => w = 1) /\ (b = x => p = -w) /\ (b = y => q = 2 * w)
      BY <1>1
    <3>3. \A i \in Int : (a + i) * w = a * w + i * w
      <4> HIDE DEF a, w
      <4> QED BY <3>1
    <3>4. (-1) * w = -w /\ 0 * w = 0 /\ a * w \in Int
      <4> HIDE DEF a, w
      <4> QED BY <3>1
    <3> DEFINE m == a * w
               hb == h[b]
               fb == f[b]
               eb == e[b]
    <3>10. /\ b = x => eb = p
           /\ b = y => eb = q
           /\ b # x /\ b # y => eb = 0
      BY <2>0
    <3> HIDE DEF eb, e
    <3>5. CASE b = x
      <4>1. c[b] = a + (-1)
        <5> HIDE DEF a, y
        <5> QED BY <1>6, <3>1, <3>5
      <4>2. hb = m + (-w) /\ fb = m
        BY <3>1, <3>3, <3>4, <4>1
      <4>3. p = -w
        BY <3>2, <3>5
      <4>4. eb = -w /\ b # Limit /\ m \in Int /\ w \in Nat
        BY <1>6, <3>1, <3>4, <3>5, <3>10, <4>3
      <4> HIDE DEF m, q, r, p, hb, fb, y, w
      <4>5. hb = (fb + eb) + 0
        BY <4>2, <4>4
      <4> QED BY <4>4, <4>5 DEF hb, fb, eb
    <3>6. CASE b = y /\ b # Limit
      <4>1. c[b] = a + 2
        <5> HIDE DEF a, y
        <5> QED BY <1>6, <3>1, <3>6
      <4>2. hb = m + 2 * w /\ fb = m
        BY <3>1, <3>3, <4>1
      <4>3. q = 2 * w /\ b # x
        BY <1>6, <3>2, <3>6
      <4>4. eb = 2 * w /\ m \in Int /\ w \in Nat
        BY <3>1, <3>4, <3>6, <3>10, <4>3
      <4> HIDE DEF m, q, r, p, hb, fb, y, w
      <4>5. hb = (fb + eb) + 0
        BY <4>2, <4>4
      <4> QED BY <3>6, <4>5 DEF hb, fb, eb
    <3>7. CASE b = y /\ b = Limit
      <4>1. c[b] = a + 1
        <5> HIDE DEF a, y
        <5> QED BY <1>6, <3>1, <3>7
      <4>2. hb = m + 1 * w /\ fb = m
        BY <3>1, <3>3, <4>1
      <4>3. w = 1 /\ q = 2 * w /\ b # x
        BY <1>6, <3>2, <3>7
      <4>4. hb = m + 1 /\ (m + q) + r = m + 1 /\ m \in Int /\ eb = q
        BY <3>4, <3>7, <3>10, <4>2, <4>3
      <4> HIDE DEF m, q, r, hb, fb, y
      <4>5. hb = (fb + eb) + r
        BY <4>2, <4>4
      <4> QED BY <3>7, <4>5 DEF hb, fb, eb
    <3>8. CASE b # x /\ b # y /\ b # Limit
      <4>1. c[b] = a + 0
        <5> HIDE DEF a, y
        <5> QED BY <3>1, <3>8
      <4>2. hb = m + 0 * w /\ fb = m
        BY <3>1, <3>3, <4>1
      <4>3. hb = m /\ (fb + 0) + 0 = m /\ eb = 0
        BY <3>4, <3>8, <3>10, <4>2
      <4> HIDE DEF m, q, r, p, hb, fb, y
      <4> QED BY <3>8, <4>3 DEF hb, fb, eb
    <3>9. CASE b # x /\ b # y /\ b = Limit
      <4>1. c[b] = a + (-1)
        <5> HIDE DEF a, y
        <5> QED BY <3>1, <3>9
      <4>2. hb = m + (-1) * w /\ fb = m
        BY <3>1, <3>3, <4>1
      <4>3. w = 1
        BY <3>2, <3>9
      <4>4. hb = m + (-1) /\ (fb + 0) + r = m + (-1) /\ eb = 0
        BY <3>4, <3>9, <3>10, <4>2, <4>3
      <4> HIDE DEF m, q, r, p, hb, fb, y
      <4> QED BY <3>9, <4>4 DEF hb, fb, eb
    <3> QED BY <3>5, <3>6, <3>7, <3>8, <3>9
  <2>3. p \in Int /\ q \in Int /\ r \in Int /\ p + q + r = -1
    <3> DEFINE u == Pow(x)
               v == Pow(y)
    <3>1. u = 2 * v /\ u \in Nat /\ v \in Nat
      BY <2>1
    <3> HIDE DEF u, v
    <3>2. -u \in Int /\ 2 * v \in Int /\ -u + 2 * v + (-1) = -1
      BY <3>1
    <3> QED BY <3>2 DEF u, v
  <2>4. IntOn(f, Levels)
    <3>1. \A b \in Levels : f[b] \in Int
      <4> TAKE b \in Levels
      <4>1. count[b] \in Nat /\ Pow(b) \in Nat /\ f[b] = count[b] * Pow(b)
        BY <1>1, <1>3
      <4> HIDE DEF f
      <4> QED BY <4>1
    <3> QED BY <3>1 DEF IntOn
  <2>5. Kraft(count) = SumOn(f, Levels) /\ Kraft(c) = SumOn(h, Levels)
    BY DEF Kraft
  <2>8. IsFiniteSet(Levels) /\ x \in Levels /\ y \in Levels /\ x # y /\ Limit \in Levels
    BY <1>1, <1>6
  <2>9. /\ \A b \in Levels : b # Limit => h[b] = f[b] + e[b]
        /\ h[Limit] = (f[Limit] + e[Limit]) + r
    <3>1. \A b \in Levels : f[b] \in Int /\ e[b] \in Int
      <4>1. \A b \in Levels : f[b] \in Int
        BY <2>4 DEF IntOn
      <4>2. \A b \in Levels : e[b] \in Int
        <5> HIDE DEF p, q, r, y
        <5> QED BY <2>3
      <4> QED BY <4>1, <4>2
    <3> HIDE DEF e, f, h, r
    <3>2. \A b \in Levels : b # Limit => h[b] = (f[b] + e[b]) + 0
      BY <2>2
    <3>3. \A b \in Levels : f[b] + e[b] = (f[b] + e[b]) + 0
      BY <3>1
    <3> QED BY <2>2, <2>8, <3>2, <3>3
  <2> HIDE DEF p, q, r, y, f, h, e
  <2>10. Changed(h, f, Levels, x, p, y, q, Limit, r)
    BY <2>0, <2>3, <2>8, <2>9 DEF Changed
  <2>6. SumOn(h, Levels) = SumOn(f, Levels) + (p + q + r)
    BY <2>4, <2>8, <2>10, ThreeChanges
  <2>7. SumOn(f, Levels) \in Int
    BY <1>1, <2>4, SumOnInt
  <2> QED BY <2>3, <2>5, <2>6, <2>7
<1>15. Kraft(c) = Pow(0) + (n - 1)
  <2> DEFINE a == Pow(0)
             b == Kraft(count)
  <2>1. a \in Nat /\ b = a + n /\ Kraft(c) = b - 1
    BY <1>1, <1>14 DEF Roomy
  <2> HIDE DEF a, b
  <2> QED BY <2>1 DEF a
<1> QED BY <1>10, <1>11, <1>12, <1>13, <1>15 DEF Roomy, c

\* Making room until none is left over ends in counts of a complete code (trees.go:343-356)
LEMMA RelieveIs ==
  ASSUME Limit \in Nat, NEW o \in Nat, NEW s \in Nat, s <= Pow2(Limit),
         NEW count, Roomy(count, o, s)
  PROVE  Roomy(Relieve(count, 2 * o), 0, s)
<1> DEFINE X == [Levels -> Int]
           Eqn(f) == f = [k \in 0 .. o |-> IF k = 0 THEN count ELSE MakeRoom(f[k - 1])]
           run == CHOOSE f : Eqn(f)
           G == [a \in X \X (1 .. o) |-> MakeRoom(a[1])]
<1>1. (2 * o + 1) \div 2 = o
  OBVIOUS
<1>2. Relieve(count, 2 * o) = run[o]
  BY <1>1 DEF Relieve
<1>3. count \in X
  BY DEF Roomy
<1>4. StepsIn(G, X, o)
  <2> SUFFICES ASSUME NEW c \in X, NEW i \in 1 .. o PROVE G[<<c, i>>] \in X
    BY DEF StepsIn
  <2>1. G[<<c, i>>] = MakeRoom(c)
    <3>1. <<c, i>> \in X \X (1 .. o)
      OBVIOUS
    <3> QED BY <3>1
  <2>2. DOMAIN c = Levels /\ \A b \in Levels : c[b] \in Int
    OBVIOUS
  <2>3. MakeRoom(c) \in X
    <3> DEFINE x == Max({b \in 0 .. Limit - 1 : c[b] # 0})
               d(b) == (CASE b = x -> -1 [] b = x + 1 -> 2 [] OTHER -> 0)
               e(b) == (IF b = Limit THEN 1 ELSE 0)
    <3>1. MakeRoom(c) = [b \in Levels |-> c[b] + d(b) - e(b)]
      BY <2>2 DEF MakeRoom, Limit
    <3>2. \A b \in Levels : d(b) \in Int /\ e(b) \in Int
      OBVIOUS
    <3> HIDE DEF d, e
    <3>3. \A b \in Levels : c[b] + d(b) - e(b) \in Int
      BY <2>2, <3>2
    <3> QED BY <3>1, <3>3
  <2> QED BY <2>1, <2>3
<1>5. \E f : Eqn(f)
  <2>1. \E f : Loop(f, X, count, o, G)
    <3> HIDE DEF G, X
    <3> QED BY <1>3, <1>4, LoopExists
  <2>2. PICK f : Loop(f, X, count, o, G)
    BY <2>1
  <2>3. f = [k \in 0 .. o |-> f[k]] /\ f[0] = count
    BY <2>2 DEF Loop
  <2>4. ASSUME NEW k \in 1 .. o PROVE f[k] = MakeRoom(f[k - 1])
    <3>1. f[k] = G[<<f[k - 1], k>>] /\ f \in [0 .. o -> X]
      BY <2>2 DEF Loop
    <3>2. k - 1 \in 0 .. o
      OBVIOUS
    <3>3. f[k - 1] \in X
      <4> HIDE DEF X
      <4> QED BY <3>1, <3>2
    <3>4. <<f[k - 1], k>> \in X \X (1 .. o)
      BY <3>3
    <3> QED BY <3>1, <3>4
  <2>5. \A k \in 0 .. o : f[k] = IF k = 0 THEN count ELSE MakeRoom(f[k - 1])
    <3>1. \A k \in 0 .. o : k # 0 => k \in 1 .. o
      OBVIOUS
    <3> QED BY <2>3, <2>4, <3>1
  <2>6. Eqn(f)
    BY <2>3, <2>5
  <2> QED BY <2>6
<1>6. Eqn(run)
  <2> HIDE DEF Eqn
  <2> QED BY <1>5
<1> HIDE DEF run
<1>7. run[0] = count /\ \A k \in 1 .. o : run[k] = MakeRoom(run[k - 1])
  <2>1. 0 \in 0 .. o /\ \A k \in 1 .. o : k \in 0 .. o /\ k # 0
    OBVIOUS
  <2> QED BY <1>6, <2>1
<1> HIDE DEF Eqn
<1> DEFINE K == {k \in 0 .. o : Roomy(run[k], o - k, s)}
<1>8. 0 \in K
  <2>1. 0 \in 0 .. o /\ o - 0 = o
    OBVIOUS
  <2> QED BY <1>7, <2>1
<1>9. ASSUME NEW k \in 0 .. o - 1, k \in K PROVE k + 1 \in K
  <2> DEFINE n == o - k
             m == k + 1
  <2>1. n \in Nat /\ n >= 1 /\ m \in 1 .. o /\ m \in 0 .. o /\ m - 1 = k /\ o - m = n - 1
    OBVIOUS
  <2>2. Roomy(run[k], n, s)
    BY <1>9
  <2> HIDE DEF n, m
  <2>3. Roomy(MakeRoom(run[k]), n - 1, s)
    BY <2>1, <2>2, MakeRoomKeeps
  <2>4. run[m] = MakeRoom(run[k])
    BY <1>7, <2>1
  <2>5. m \in K
    BY <2>1, <2>3, <2>4
  <2> QED BY <2>5 DEF m
<1>10. o \in K
  <2> HIDE DEF K
  <2>1. \A k \in 0 .. o : k \in K
    BY <1>8, <1>9, InductionUpTo
  <2> QED BY <2>1
<1>11. o - o = 0
  OBVIOUS
<1> QED BY <1>2, <1>10, <1>11

-----------------------------------------------------------------------------
(* The second pass: the lengths are handed out again                       *)

\* Each element of s stands before the next ones in w
Backwards(s, w) ==
  \A i, j \in 1 .. Len(s) : i < j =>
    \E a, b \in 1 .. Len(w) : b < a /\ s[i] = w[a] /\ s[j] = w[b]

LEMMA BackwardsIs ==
  ASSUME NEW s, NEW w, NEW l, Len(s) = l, NEW z, Len(w) = z,
         \A i, j \in 1 .. l : i < j => \E a, b \in 1 .. z : b < a /\ s[i] = w[a] /\ s[j] = w[b]
  PROVE  Backwards(s, w)
BY DEF Backwards

\* The leaves of the list, backwards (trees.go:359-367)
LEMMA InOrderIs ==
  ASSUME NEW tr, tr.sorted \in Seq(Nodes), Distinct(tr.sorted), Nodes \subseteq Nat
  PROVE  /\ InOrder(tr) \in Seq(Nodes) /\ Distinct(InOrder(tr))
         /\ ToSet(InOrder(tr)) = {n \in ToSet(tr.sorted) : n <= tr.maxCode}
         /\ Backwards(InOrder(tr), tr.sorted)
<1> DEFINE w == tr.sorted
           E == Len(tr.sorted)
           X == Seq(Nodes)
           mc == tr.maxCode
           at(i) == w[E + 1 - i]
           G == [x \in X \X (1 .. E) |-> IF at(x[2]) <= mc THEN Append(x[1], at(x[2])) ELSE x[1]]
           Eqn(f) == f = [n \in 0 .. E |->
                            IF n = 0 THEN <<>>
                            ELSE IF at(n) <= mc THEN Append(f[n - 1], at(n)) ELSE f[n - 1]]
           run == CHOOSE f : Eqn(f)
<1>1. E \in Nat /\ DOMAIN w = 1 .. E /\ \A i \in 1 .. E : w[i] \in Nodes
  OBVIOUS
<1>0. \A i, j \in 1 .. E : w[i] = w[j] => i = j
  BY DEF Distinct
<1>2. InOrder(tr) = run[E]
  BY DEF InOrder
<1> HIDE DEF E, w, mc
<1>20. ASSUME NEW i \in 1 .. E PROVE at(i) \in Nodes /\ E + 1 - i \in 1 .. E
  <2>1. E + 1 - i \in 1 .. E
    BY <1>1
  <2> QED BY <1>1, <2>1
<1> HIDE DEF at
<1>3. ASSUME NEW x \in X, NEW i \in 1 .. E
      PROVE  G[<<x, i>>] = (IF at(i) <= mc THEN Append(x, at(i)) ELSE x) /\ G[<<x, i>>] \in X
  <2>2. Append(x, at(i)) \in X
    BY <1>20
  <2>3. G[<<x, i>>] = IF at(i) <= mc THEN Append(x, at(i)) ELSE x
    OBVIOUS
  <2> HIDE DEF G, X
  <2> QED BY <2>2, <2>3
<1>4. <<>> \in X
  OBVIOUS
<1> HIDE DEF G, X
<1>5. StepsIn(G, X, E)
  BY <1>3 DEF StepsIn
<1>6. PICK f : Loop(f, X, <<>>, E, G)
  BY <1>1, <1>4, <1>5, LoopExists
<1>7. Eqn(f)
  <2>1. f \in [0 .. E -> X] /\ f[0] = <<>> /\ \A i \in 1 .. E : f[i] = G[<<f[i - 1], i>>]
    BY <1>6 DEF Loop
  <2> SUFFICES ASSUME NEW i \in 0 .. E
               PROVE  f[i] = IF i = 0 THEN <<>>
                             ELSE IF at(i) <= mc THEN Append(f[i - 1], at(i)) ELSE f[i - 1]
    BY <2>1
  <2>2. CASE i = 0
    BY <2>1, <2>2
  <2>3. CASE i # 0
    <3>1. i \in 1 .. E /\ i - 1 \in 0 .. E
      BY <1>1, <2>3
    <3>2. f[i] = G[<<f[i - 1], i>>] /\ f[i - 1] \in X
      BY <2>1, <3>1
    <3> QED BY <1>3, <2>3, <3>1, <3>2
  <2> QED BY <2>2, <2>3
<1>8. Eqn(run)
  BY <1>7
<1> HIDE DEF run
<1>9. /\ run = [n \in 0 .. E |-> run[n]] /\ DOMAIN run = 0 .. E /\ run[0] = <<>>
      /\ \A i \in 1 .. E : run[i] = IF at(i) <= mc THEN Append(run[i - 1], at(i)) ELSE run[i - 1]
  <2>1. DOMAIN run = 0 .. E /\ run = [n \in 0 .. E |-> run[n]]
    BY <1>8
  <2>2. \A i \in 0 .. E : run[i] = IF i = 0 THEN <<>>
                                   ELSE IF at(i) <= mc THEN Append(run[i - 1], at(i)) ELSE run[i - 1]
    BY <1>8
  <2>3. 0 \in 0 .. E /\ \A i \in 1 .. E : i \in 0 .. E /\ i # 0
    BY <1>1
  <2> QED BY <2>1, <2>2, <2>3
<1>10. Loop(run, X, <<>>, E, G)
  <2>1. \A i \in 1 .. E : run[i - 1] \in X => run[i] = G[<<run[i - 1], i>>]
    BY <1>3, <1>9
  <2> QED BY <1>1, <1>4, <1>5, <1>9, <2>1, LoopIs
<1>11. \A n \in 0 .. E : run[n] \in X
  BY <1>10 DEF Loop
<1> DEFINE Seen(n) == {at(i) : i \in {j \in 1 .. n : at(j) <= mc}}
           Good(s, n) == Distinct(s) /\ ToSet(s) = Seen(n) /\ Backwards(s, w)
           K == {n \in Nat : n <= E => Good(run[n], n)}
<1>12. 0 \in K
  <2>1. Distinct(<<>>) /\ Backwards(<<>>, w)
    BY DEF Distinct, Backwards
  <2>2. ToSet(<<>>) = {} /\ 1 .. 0 = {}
    BY DEF ToSet
  <2>4. Seen(0) = {}
    BY <2>2
  <2> HIDE DEF Seen
  <2>3. Good(run[0], 0)
    BY <1>9, <2>1, <2>2, <2>4
  <2> HIDE DEF Good
  <2> QED BY <2>3
<1>13. ASSUME NEW n \in 0 .. E - 1, n \in K PROVE n + 1 \in K
  <2>1. n \in Nat /\ n + 1 \in Nat /\ n <= E /\ n \in 0 .. E /\ n + 1 \in 1 .. E /\ (n + 1) - 1 = n
    BY <1>1
  <2>2. Good(run[n], n)
    BY <1>13, <2>1
  <2> DEFINE s == run[n]
             m == n + 1
             x == at(m)
             new == IF x <= mc THEN Append(s, x) ELSE s
  <2>3. run[m] = new
    BY <1>9, <2>1
  <2>4. s \in Seq(Nodes) /\ x \in Nodes
    BY <1>11, <1>20, <2>1 DEF X
  <2>5. 1 .. m = (1 .. n) \cup {m} /\ 1 .. n \subseteq 1 .. E /\ m \in 1 .. E
        /\ \A i \in 1 .. n : E + 1 - m < E + 1 - i
    BY <1>1, <2>1
  <2> HIDE DEF s, m
  <2>9. \A y \in ToSet(s) : \E i \in 1 .. n : y = at(i)
    BY <2>2 DEF s
  <2>10. x \notin ToSet(s)
    <3> SUFFICES ASSUME NEW i \in 1 .. n, at(i) = x PROVE FALSE
      BY <2>9
    <3>1. i \in 1 .. E /\ E + 1 - m < E + 1 - i /\ E + 1 - m \in 1 .. E /\ E + 1 - i \in 1 .. E
      BY <1>20, <2>5
    <3>2. E + 1 - m = E + 1 - i
      BY <1>0, <3>1 DEF at
    <3> DEFINE a == E + 1 - m
               b == E + 1 - i
    <3>3. a \in Int /\ a = b /\ a < b
      BY <1>1, <3>1, <3>2
    <3> HIDE DEF a, b
    <3> QED BY <3>3
  <2> HIDE DEF x
  <2>6. Good(new, m)
    <3>1. CASE x <= mc
      <4> DEFINE e == Append(s, x)
      <4>0. new = e
        BY <3>1
      <4>1. Len(e) = Len(s) + 1 /\ e[Len(s) + 1] = x /\ \A i \in 1 .. Len(s) : e[i] = s[i]
            /\ Len(s) \in Nat /\ DOMAIN s = 1 .. Len(s) /\ DOMAIN e = 1 .. Len(s) + 1
        BY <2>1, <2>4
      <4> HIDE DEF e, new, Good
      <4>2. 1 .. Len(s) + 1 = (1 .. Len(s)) \cup {Len(s) + 1}
            /\ (\A i \in 1 .. Len(s) : i < Len(s) + 1 /\ i # Len(s) + 1) 
        BY <4>1
      <4>3. ToSet(e) = ToSet(s) \cup {x}
        BY <4>1, <4>2 DEF ToSet
      <4>4. ToSet(s) = Seen(n) /\ Distinct(s) /\ Backwards(s, w)
        BY <2>2 DEF Good, s
      <4>5. ToSet(e) = Seen(m)
        <5>1. {j \in 1 .. m : at(j) <= mc} = {j \in 1 .. n : at(j) <= mc} \cup {m}
          BY <2>5, <3>1 DEF x
        <5>2. Seen(m) = Seen(n) \cup {at(m)}
          BY <5>1
        <5> QED BY <4>3, <4>4, <5>2 DEF x
      <4>6. \A i \in 1 .. Len(s) : s[i] # x
        BY <2>10, <4>1 DEF ToSet
      <4>7. Distinct(e)
        <5>1. \A i, j \in 1 .. Len(s) : s[i] = s[j] => i = j
          BY <4>4 DEF Distinct
        <5>2. \A i, j \in 1 .. Len(s) + 1 : e[i] = e[j] => i = j
          BY <4>1, <4>2, <4>6, <5>1
        <5> QED BY <4>1, <5>2 DEF Distinct
      <4>8. Backwards(e, w)
        <5> DEFINE l == Len(s)
                   z == Len(w)
        <5>3. l \in Nat /\ Len(e) = l + 1
          BY <4>1
        <5> HIDE DEF l, z
        <5>5. ASSUME NEW i \in 1 .. l + 1, NEW j \in 1 .. l + 1, i < j
              PROVE  \E a, b \in 1 .. z : b < a /\ e[i] = w[a] /\ e[j] = w[b]
          <6>4. i \in 1 .. l /\ (j \in 1 .. l \/ j = l + 1)
            BY <5>3, <5>5
          <6>0. i \in 1 .. Len(s) /\ (j \in 1 .. Len(s) \/ j = Len(s) + 1)
            BY <6>4 DEF l
          <6>1. CASE j \in 1 .. Len(s)
            <7>1. \E a, b \in 1 .. Len(w) : b < a /\ s[i] = w[a] /\ s[j] = w[b]
              BY <4>4, <5>5, <6>0, <6>1 DEF Backwards
            <7>2. e[i] = s[i] /\ e[j] = s[j]
              BY <4>1, <6>0, <6>1
            <7> QED BY <7>1, <7>2 DEF z
          <6>2. CASE j = Len(s) + 1
            <7>1. s[i] \in ToSet(s)
              BY <4>1, <6>0 DEF ToSet
            <7>2. PICK r \in 1 .. n : s[i] = at(r)
              BY <2>9, <7>1
            <7>3. E + 1 - m < E + 1 - r /\ E + 1 - m \in 1 .. E /\ E + 1 - r \in 1 .. E
              BY <1>20, <2>5
            <7>4. e[i] = w[E + 1 - r] /\ e[j] = w[E + 1 - m]
              BY <4>1, <6>0, <6>2, <7>2 DEF at, x
            <7>5. E = z
              BY DEF E, w, z
            <7> QED BY <7>3, <7>4, <7>5
          <6> QED BY <6>0, <6>1, <6>2
        <5>6. \A i, j \in 1 .. l + 1 : i < j => \E a, b \in 1 .. z : b < a /\ e[i] = w[a] /\ e[j] = w[b]
          BY <5>5
        <5>7. Len(e) = l + 1 /\ Len(w) = z
          BY <5>3 DEF z
        <5> QED BY <5>6, <5>7, BackwardsIs
      <4> QED BY <4>0, <4>5, <4>7, <4>8 DEF Good
    <3>2. CASE ~(x <= mc)
      <4>1. {j \in 1 .. m : at(j) <= mc} = {j \in 1 .. n : at(j) <= mc}
        BY <2>5, <3>2 DEF x
      <4>2. new = s
        BY <3>2
      <4>3. Seen(m) = Seen(n)
        BY <4>1
      <4> HIDE DEF new, Seen
      <4> QED BY <2>1, <2>2, <4>3, <4>2 DEF s
    <3> QED BY <3>1, <3>2
  <2>7. run[m] = new /\ m \in Nat /\ m = n + 1
    BY <2>1, <2>3 DEF m
  <2> HIDE DEF Good, new, s
  <2>8. m \in K
    BY <2>6, <2>7
  <2> QED BY <2>7, <2>8
<1> HIDE DEF K
<1>14. \A n \in 0 .. E : n \in K
  BY <1>1, <1>12, <1>13, InductionUpTo
<1>15. Good(run[E], E) /\ run[E] \in X
  <2>1. E \in 0 .. E /\ E <= E
    BY <1>1
  <2>2. E \in K
    BY <1>14, <2>1
  <2> HIDE DEF Good
  <2> QED BY <1>11, <2>1, <2>2 DEF K
<1>16. Seen(E) = {n \in ToSet(w) : n <= mc}
  <2>1. ASSUME NEW y \in Seen(E) PROVE y \in ToSet(w) /\ y <= mc
    <3>1. PICK i \in 1 .. E : y = at(i) /\ at(i) <= mc
      OBVIOUS
    <3>2. E + 1 - i \in DOMAIN w
      BY <1>1, <1>20
    <3> QED BY <3>1, <3>2 DEF at, ToSet
  <2>2. ASSUME NEW y \in ToSet(w), y <= mc PROVE y \in Seen(E)
    <3>1. PICK i \in 1 .. E : y = w[i]
      BY <1>1 DEF ToSet
    <3>2. E + 1 - i \in 1 .. E /\ E + 1 - (E + 1 - i) = i
      BY <1>1
    <3>3. at(E + 1 - i) = y
      BY <3>1, <3>2 DEF at
    <3> QED BY <2>2, <3>2, <3>3
  <2> HIDE DEF Seen
  <2> QED BY <2>1, <2>2
<1> QED BY <1>2, <1>15, <1>16 DEF X, E, w, mc

-----------------------------------------------------------------------------
\* The codes longer than b
Longer(count, b) == SumOn(count, {c \in Levels : c > b})

LEMMA SumOnSubset ==
  ASSUME NEW S, IsFiniteSet(S), NEW T \in SUBSET S, NEW f, \A x \in S : f[x] \in Nat
  PROVE  SumOn(f, T) <= SumOn(f, S) /\ SumOn(f, T) \in Nat
<1> DEFINE R == S \ T
<1>1. IsFiniteSet(T) /\ IsFiniteSet(R) /\ T \cap R = {} /\ T \cup R = S
  BY FS_Subset
<1>2. IntOn(f, T \cup R)
  BY <1>1 DEF IntOn
<1>3. (\A x \in T : f[x] \in Nat) /\ (\A x \in R : f[x] \in Nat)
  OBVIOUS
<1> HIDE DEF R
<1>4. SumOn(f, T) \in Nat
  BY <1>1, <1>3, SumOnNat
<1>5. SumOn(f, R) \in Nat
  BY <1>1, <1>3, SumOnNat
<1>6. SumOn(f, T \cup R) = SumOn(f, T) + SumOn(f, R)
  BY <1>1, <1>2, SumOnUnion
<1>7. SumOn(f, S) = SumOn(f, T) + SumOn(f, R)
  BY <1>1, <1>6
<1> QED BY <1>4, <1>5, <1>7

\* How many codes are longer than b
LEMMA LongerIs ==
  ASSUME Limit \in Nat, NEW count \in [Levels -> Nat]
  PROVE  /\ \A b \in Levels : Longer(count, b) \in Nat
         /\ Longer(count, Limit) = 0
         /\ \A b \in 1 .. Limit : Longer(count, b - 1) = Longer(count, b) + count[b]
         /\ Longer(count, 0) + count[0] = Total(count)
         /\ \A b, c \in Levels : b < c => Longer(count, c) + count[c] <= Longer(count, b)
<1> DEFINE Up(b) == {c \in Levels : c > b}
<1>1. /\ IsFiniteSet(Levels) /\ Levels \subseteq Nat /\ 0 \in Levels /\ Limit \in Levels
      /\ \A x \in Levels : count[x] \in Nat
  BY LevelsIs
<1>2. \A b : Up(b) \in SUBSET Levels /\ IsFiniteSet(Up(b)) /\ \A x \in Up(b) : count[x] \in Nat
  BY <1>1, FS_Subset
<1>3. ASSUME NEW b PROVE Longer(count, b) = SumOn(count, Up(b)) /\ Longer(count, b) \in Nat
  <2>1. Longer(count, b) = SumOn(count, Up(b))
    BY DEF Longer
  <2>2. SumOn(count, Up(b)) \in Nat
    <3> DEFINE S == Up(b)
    <3>1. IsFiniteSet(S) /\ \A x \in S : count[x] \in Nat
      BY <1>2
    <3> HIDE DEF S
    <3>2. SumOn(count, S) \in Nat
      BY <3>1, SumOnNat
    <3> QED BY <3>2 DEF S
  <2> QED BY <2>1, <2>2
<1>4. Longer(count, Limit) = 0
  <2>1. Up(Limit) = {}
    BY DEF Levels
  <2> QED BY <1>3, <2>1, SumOnEmpty
<1>5. ASSUME NEW b \in Levels
      PROVE  SumOn(count, Up(b) \cup {b}) = Longer(count, b) + count[b]
  <2> DEFINE S == Up(b)
  <2>1. b \notin S
    BY <1>1
  <2>2. IsFiniteSet(S) /\ IntOn(count, S \cup {b})
    BY <1>1, <1>2 DEF IntOn
  <2>3. Longer(count, b) = SumOn(count, S) /\ Longer(count, b) \in Nat /\ count[b] \in Nat
    BY <1>1, <1>3
  <2> HIDE DEF S
  <2>4. SumOn(count, S \cup {b}) = count[b] + SumOn(count, S)
    BY <2>1, <2>2, SumOnAdd
  <2> DEFINE x == Longer(count, b)
             y == count[b]
             z == SumOn(count, S \cup {b})
  <2>5. x \in Nat /\ y \in Nat /\ z = y + x
    BY <2>3, <2>4
  <2>6. z = x + y
    <3> HIDE DEF x, y, z
    <3> QED BY <2>5
  <2> QED BY <2>6 DEF S
<1>6. ASSUME NEW b \in 1 .. Limit PROVE Longer(count, b - 1) = Longer(count, b) + count[b]
  <2>1. b \in Levels /\ Up(b - 1) = Up(b) \cup {b}
    BY DEF Levels
  <2> QED BY <1>3, <1>5, <2>1
<1>7. Longer(count, 0) + count[0] = Total(count)
  <2>1. Up(0) \cup {0} = Levels
    BY DEF Levels
  <2> QED BY <1>1, <1>5, <2>1 DEF Total
<1>8. ASSUME NEW b \in Levels, NEW c \in Levels, b < c
      PROVE  Longer(count, c) + count[c] <= Longer(count, b)
  <2> DEFINE T == Up(c) \cup {c}
             S == Up(b)
  <2>1. T \subseteq S
    <3> SUFFICES ASSUME NEW x \in T PROVE x \in Levels /\ x > b
      OBVIOUS
    <3>1. x \in Levels /\ (x > c \/ x = c)
      OBVIOUS
    <3>2. x \in Nat /\ b \in Nat /\ c \in Nat
      BY <1>1, <3>1
    <3> HIDE DEF T, S
    <3> QED BY <1>8, <3>1, <3>2
  <2>2. IsFiniteSet(S) /\ \A x \in S : count[x] \in Nat
    BY <1>2
  <2>3. SumOn(count, T) = Longer(count, c) + count[c]
    BY <1>5
  <2>4. SumOn(count, S) = Longer(count, b)
    BY <1>3
  <2> HIDE DEF S, T
  <2>5. SumOn(count, T) <= SumOn(count, S)
    BY <2>1, <2>2, SumOnSubset
  <2> QED BY <2>3, <2>4, <2>5
<1> QED BY <1>3, <1>4, <1>6, <1>7, <1>8

\* The place p is one of those of the length b
AtLevel(count, p, b) ==
  b \in Levels /\ Longer(count, b) < p /\ p <= Longer(count, b) + count[b]

\* A place among the leaves has one length
LEMMA PlaceLevel ==
  ASSUME Limit \in Nat, NEW count \in [Levels -> Nat], count[0] = 0,
         NEW p \in 1 .. Total(count), Total(count) \in Nat
  PROVE  /\ \E b \in 1 .. Limit : AtLevel(count, p, b)
         /\ \A b : AtLevel(count, p, b) => b \in 1 .. Limit
         /\ \A b, c : AtLevel(count, p, b) /\ AtLevel(count, p, c) => b = c
<1>1. /\ \A b \in Levels : Longer(count, b) \in Nat /\ count[b] \in Nat
      /\ Longer(count, Limit) = 0
      /\ \A b \in 1 .. Limit : Longer(count, b - 1) = Longer(count, b) + count[b]
      /\ Longer(count, 0) + count[0] = Total(count)
      /\ \A b, c \in Levels : b < c => Longer(count, c) + count[c] <= Longer(count, b)
  BY LongerIs
<1>2. Levels \subseteq Nat /\ Limit \in Levels /\ 0 \in Levels
  BY LevelsIs
<1>3. p \in Nat /\ p >= 1 /\ p <= Total(count)
  OBVIOUS
<1>4. Longer(count, 0) >= p
  <2> DEFINE a == Longer(count, 0)
             s == Total(count)
  <2>1. a \in Nat /\ a + 0 = s /\ p <= s /\ p \in Nat
    BY <1>1, <1>2, <1>3
  <2> HIDE DEF a, s
  <2>2. a >= p
    BY <2>1
  <2> QED BY <2>2 DEF a
<1>5. \E b \in 1 .. Limit : AtLevel(count, p, b)
  <2> DEFINE T == {b \in Levels : Longer(count, b) < p}
  <2>1. T \subseteq Nat /\ T # {}
    <3>1. Limit \in T
      BY <1>1, <1>2, <1>3
    <3> QED BY <1>2, <3>1
  <2>2. PICK b \in T : \A y \in T : b <= y
    <3> HIDE DEF T
    <3> QED BY <2>1, LeastOf
  <2>3. b \in Levels /\ Longer(count, b) < p
    OBVIOUS
  <2>4. b \in 1 .. Limit
    <3>1. b # 0
      <4>1. Longer(count, 0) \in Nat
        BY <1>1, <1>2
      <4> QED BY <1>3, <1>4, <2>3, <4>1
    <3> QED BY <2>3, <3>1 DEF Levels
  <2>5. b - 1 \in Levels /\ b - 1 < b
    BY <2>4 DEF Levels
  <2>6. b - 1 \notin T
    <3> DEFINE a == b - 1
    <3>1. a < b /\ a \in Nat /\ b \in Nat
      BY <1>2, <2>5
    <3> HIDE DEF a, T
    <3>2. a \notin T
      BY <2>2, <3>1
    <3> QED BY <3>2 DEF a
  <2>7. ~(Longer(count, b - 1) < p)
    BY <2>5, <2>6
  <2>8. Longer(count, b - 1) = Longer(count, b) + count[b] /\ Longer(count, b - 1) \in Nat
    BY <1>1, <2>4, <2>5
  <2>9. p <= Longer(count, b) + count[b]
    BY <1>3, <2>7, <2>8
  <2> QED BY <2>3, <2>4, <2>9 DEF AtLevel
<1>6. ASSUME NEW b, AtLevel(count, p, b) PROVE b \in 1 .. Limit
  <2>1. b \in Levels /\ Longer(count, b) < p
    BY <1>6 DEF AtLevel
  <2>2. b # 0
    <3>1. Longer(count, 0) \in Nat
      BY <1>1, <1>2
    <3> QED BY <1>3, <1>4, <2>1, <3>1
  <2> QED BY <2>1, <2>2 DEF Levels
<1>7. ASSUME NEW b, NEW c, AtLevel(count, p, b), AtLevel(count, p, c) PROVE ~(b < c)
  <2> SUFFICES ASSUME b < c PROVE FALSE
    OBVIOUS
  <2>1. b \in Levels /\ c \in Levels /\ Longer(count, b) < p /\ p <= Longer(count, c) + count[c]
    BY <1>7 DEF AtLevel
  <2>2. Longer(count, c) + count[c] <= Longer(count, b)
    BY <1>1, <2>1
  <2> DEFINE x == Longer(count, c) + count[c]
             y == Longer(count, b)
  <2>3. x \in Nat /\ y \in Nat /\ x <= y /\ p <= x /\ y < p
    <3>1. Longer(count, c) \in Nat /\ count[c] \in Nat /\ y \in Nat
      BY <1>1, <2>1
    <3>2. x \in Nat
      BY <3>1
    <3> QED BY <2>1, <2>2, <3>1, <3>2
  <2> HIDE DEF x, y
  <2> QED BY <1>3, <2>3
<1>8. ASSUME NEW b, NEW c, AtLevel(count, p, b), AtLevel(count, p, c) PROVE b = c
  <2>1. b \in Nat /\ c \in Nat
    BY <1>2, <1>8 DEF AtLevel
  <2>2. ~(b < c)
    BY <1>7, <1>8
  <2>3. ~(c < b)
    BY <1>7, <1>8
  <2> QED BY <2>1, <2>2, <2>3
<1> QED BY <1>5, <1>6, <1>8

-----------------------------------------------------------------------------
\* Each member of U has one of the places 1 .. s, and each place one member
Numbered(place, U, s) ==
  /\ \A m, n \in U : place[m] = place[n] => m = n
  /\ \A n \in U : place[n] \in 1 .. s
  /\ \A p \in 1 .. s : \E n \in U : place[n] = p

\* Of each of the places a + 1 .. a + c there is one
LEMMA PlacesCard ==
  ASSUME NEW U, NEW place, NEW s \in Nat, Numbered(place, U, s),
         NEW a \in Nat, NEW c \in Nat, a + c <= s,
         NEW V, V = {n \in U : a < place[n] /\ place[n] <= a + c}
  PROVE  Cardinality(V) = c
<1> DEFINE D == a + 1 .. a + c
           f == [n \in V |-> place[n]]
<1>0. /\ \A m, n \in U : place[m] = place[n] => m = n
      /\ \A n \in U : place[n] \in 1 .. s
      /\ \A p \in 1 .. s : \E n \in U : place[n] = p
  BY DEF Numbered
<1>1. f \in [V -> D]
  <2> SUFFICES ASSUME NEW n \in V PROVE place[n] \in D
    OBVIOUS
  <2>1. n \in U /\ a < place[n] /\ place[n] <= a + c
    OBVIOUS
  <2>2. place[n] \in Nat
    BY <1>0, <2>1
  <2> QED BY <2>1, <2>2
<1>2. \A m, n \in V : f[m] = f[n] => m = n
  BY <1>0
<1>3. ASSUME NEW p \in D PROVE \E n \in V : f[n] = p
  <2>1. p \in 1 .. s /\ a < p /\ p <= a + c
    OBVIOUS
  <2>2. PICK n \in U : place[n] = p
    BY <1>0, <2>1
  <2>3. n \in V
    BY <2>1, <2>2
  <2> QED BY <2>2, <2>3
<1> HIDE DEF f
<1>4. f \in Bijection(V, D)
  BY <1>1, <1>2, <1>3 DEF Bijection, Injection, Surjection, IsInjective
<1>5. IsFiniteSet(D) /\ Cardinality(D) = c
  <2> DEFINE x == a + 1
             y == a + c
  <2>1. x \in Int /\ y \in Int
    OBVIOUS
  <2> HIDE DEF x, y
  <2>2. IsFiniteSet(x .. y) /\ Cardinality(x .. y) = IF x > y THEN 0 ELSE y - x + 1
    BY <2>1, FS_Interval
  <2>3. (IF x > y THEN 0 ELSE y - x + 1) = c
    BY DEF x, y
  <2> QED BY <2>2, <2>3 DEF x, y
<1>6. ExistsBijection(V, D)
  BY <1>4 DEF ExistsBijection
<1>7. ExistsBijection(D, V)
  BY <1>6, Fun_ExistsBijSymmetric
<1> QED BY <1>5, <1>7, FS_Bijection

\* The lengths handed out
LEMMA HandOutIs ==
  ASSUME Elems \in Nat, Limit \in Nat, Limit >= 1, NEW tr, Whole(tr),
         NEW len, DOMAIN len = Leaves,
         NEW count, Roomy(count, 0, Cardinality(InTree(tr)))
  PROVE  LET h == HandOut(tr, len, count)
         IN  /\ DOMAIN h = Leaves /\ \A n \in Leaves \ InTree(tr) : h[n] = len[n]
             /\ \A n \in InTree(tr) : h[n] \in 1 .. Limit
             /\ SumOn(Shares(h), InTree(tr)) = Pow(0)
             /\ Ranked(tr) => \A m, n \in InTree(tr) : tr.fc[m] > tr.fc[n] => h[m] <= h[n]
<1> DEFINE U == InTree(tr)
           w == tr.sorted
           leaves == InOrder(tr)
           h == HandOut(tr, len, count)
           s == Cardinality(InTree(tr))
           place == [n \in U |-> CHOOSE i \in DOMAIN leaves : leaves[i] = n]
<1>1. /\ w \in Seq(Nodes) /\ Distinct(w) /\ U \subseteq Leaves /\ U \subseteq ToSet(w) /\ IsFiniteSet(U)
      /\ s \in Nat
  <2>1. w \in Seq(Nodes) /\ Distinct(w) /\ U \subseteq ToSet(w) /\ U \subseteq Leaves
    BY DEF Whole, TreeRec, InTree
  <2>2. IsFiniteSet(Leaves)
    BY FS_Interval DEF Leaves
  <2>3. IsFiniteSet(U)
    BY <2>1, <2>2, FS_Subset
  <2> HIDE DEF U
  <2> QED BY <2>1, <2>3, FS_CardinalityType DEF U
<1>2. /\ leaves \in Seq(Nodes) /\ Distinct(leaves)
      /\ ToSet(leaves) = {n \in ToSet(w) : n <= tr.maxCode} /\ Backwards(leaves, w)
  <2>1. Nodes \subseteq Nat
    BY DEF Nodes
  <2> QED BY <1>1, <2>1, InOrderIs
<1>3. ToSet(leaves) = U
  <2>1. /\ ToSet(w) = U \cup (Elems .. Elems + (Turns(tr) - 1)) /\ \A n \in U : n <= tr.maxCode
        /\ tr.maxCode \in Leaves
    BY <1>1 DEF Whole
  <2>2. \A n \in Elems .. Elems + (Turns(tr) - 1) : ~(n <= tr.maxCode)
    BY <2>1 DEF Leaves
  <2> HIDE DEF U, leaves
  <2> QED BY <1>2, <2>1, <2>2
<1>4. Len(leaves) = s /\ DOMAIN leaves = 1 .. s
  <2> HIDE DEF leaves, U
  <2>1. Cardinality(ToSet(leaves)) = Len(leaves)
    BY <1>2, DistinctCard
  <2>2. DOMAIN leaves = 1 .. Len(leaves)
    BY <1>2
  <2> QED BY <1>3, <2>1, <2>2 DEF U
<1> HIDE DEF leaves, U, s, w
<1>5. ASSUME NEW n \in U PROVE place[n] \in 1 .. s /\ leaves[place[n]] = n
  <2>1. \E i \in DOMAIN leaves : leaves[i] = n
    BY <1>3 DEF ToSet
  <2>2. place[n] = CHOOSE i \in DOMAIN leaves : leaves[i] = n
    OBVIOUS
  <2> QED BY <1>4, <2>1, <2>2
<1>6. \A m, n \in U : place[m] = place[n] => m = n
  BY <1>5
<1>7. \A p \in 1 .. s : \E n \in U : place[n] = p
  <2> TAKE p \in 1 .. s
  <2>1. leaves[p] \in U
    BY <1>3, <1>4 DEF ToSet
  <2>2. place[leaves[p]] \in 1 .. s /\ leaves[place[leaves[p]]] = leaves[p]
    BY <1>5, <2>1
  <2>3. place[leaves[p]] = p
    BY <1>2, <1>4, <2>2 DEF Distinct
  <2> QED BY <2>1, <2>3
<1>8. h = [n \in Leaves |->
             IF n \in U THEN CHOOSE b \in Levels : AtLevel(count, place[n], b) ELSE len[n]]
  <2>1. DOMAIN count = Levels
    BY DEF Roomy
  <2>2. h = [n \in Leaves |->
               IF n \in U THEN CHOOSE b \in Levels : /\ Longer(count, b) < place[n]
                                                     /\ place[n] <= Longer(count, b) + count[b]
               ELSE len[n]]
    BY <1>3, <2>1 DEF HandOut, leaves, Longer, SumOn
  <2>3. \A p : (CHOOSE b \in Levels : Longer(count, b) < p /\ p <= Longer(count, b) + count[b])
               = CHOOSE b \in Levels : AtLevel(count, p, b)
    BY DEF AtLevel
  <2> QED BY <2>2, <2>3
<1> HIDE DEF h, place
<1>9. /\ count \in [Levels -> Nat] /\ count[0] = 0 /\ Kraft(count) = Pow(0) + 0
      /\ Total(count) = s
  BY DEF Roomy, s
<1>10. ASSUME NEW n \in U
       PROVE  h[n] \in 1 .. Limit /\ \A b : AtLevel(count, place[n], b) <=> h[n] = b
  <2>1. place[n] \in 1 .. Total(count) /\ Total(count) \in Nat
    BY <1>1, <1>5, <1>9
  <2> DEFINE p == place[n]
  <2> HIDE DEF p
  <2>0. p \in 1 .. Total(count) /\ Total(count) \in Nat
    BY <2>1 DEF p
  <2>2. /\ \E b \in 1 .. Limit : AtLevel(count, p, b)
        /\ \A b : AtLevel(count, p, b) => b \in 1 .. Limit
        /\ \A b, c : AtLevel(count, p, b) /\ AtLevel(count, p, c) => b = c
    BY <1>9, <2>0, PlaceLevel
  <2>3. h[n] = CHOOSE b \in Levels : AtLevel(count, p, b)
    BY <1>1, <1>8 DEF p
  <2>4. \E b \in Levels : AtLevel(count, p, b)
    BY <2>2 DEF AtLevel
  <2>5. AtLevel(count, p, h[n])
    BY <2>3, <2>4
  <2> QED BY <2>2, <2>5 DEF p
<1>11. DOMAIN h = Leaves /\ \A n \in Leaves \ U : h[n] = len[n]
  BY <1>8
<1>12. SumOn(Shares(h), U) = Pow(0)
  <2>1. \A b \in Levels : count[b] = Cardinality(Valued(h, U, b))
    <3> TAKE b \in Levels
    <3> DEFINE a == Longer(count, b)
               c == count[b]
               V == Valued(h, U, b)
    <3>1. a \in Nat /\ c \in Nat
      BY <1>9, LongerIs
    <3>2. a + c <= s
      <4>1. /\ Longer(count, 0) + count[0] = Total(count) /\ Longer(count, 0) \in Nat
            /\ \A x, y \in Levels : x < y => Longer(count, y) + count[y] <= Longer(count, x)
        <5>1. 0 \in Levels
          BY LevelsIs
        <5> QED BY <1>9, <5>1, LongerIs
      <4>2. CASE b = 0
        BY <1>9, <4>1, <4>2, <1>1
      <4>3. CASE b # 0
        <5>1. 0 < b /\ 0 \in Levels
          BY <4>3 DEF Levels
        <5>2. a + c <= Longer(count, 0)
          BY <4>1, <5>1
        <5>3. Longer(count, 0) = s
          <6> DEFINE x == Longer(count, 0)
          <6>1. x \in Nat /\ x + 0 = s
            BY <1>9, <4>1
          <6> HIDE DEF x
          <6>2. x = s
            BY <6>1
          <6> QED BY <6>2 DEF x
        <5> QED BY <5>2, <5>3
      <4> QED BY <4>2, <4>3
    <3>3. V = {n \in U : a < place[n] /\ place[n] <= a + c}
      <4>1. \A n \in U : h[n] = b <=> (a < place[n] /\ place[n] <= a + c)
        BY <1>10 DEF AtLevel
      <4> QED BY <4>1 DEF Valued
    <3> HIDE DEF a, c, V
    <3>4. Cardinality(V) = c
      <4>1. s \in Nat
        BY <1>1
      <4>2. Numbered(place, U, s)
        BY <1>5, <1>6, <1>7 DEF Numbered
      <4>3. a \in Nat /\ c \in Nat
        BY <3>1
      <4> QED BY <3>2, <3>3, <4>1, <4>2, <4>3, PlacesCard
    <3> QED BY <3>4 DEF c, V
  <2>2. U \subseteq DOMAIN h /\ \A n \in U : h[n] \in 1 .. Limit
    BY <1>1, <1>10, <1>11
  <2>3. Kraft(count) = SumOn(Shares(h), U)
    BY <1>1, <1>9, <2>1, <2>2, CountsOf
  <2>4. Pow(0) \in Nat
    BY LevelsIs
  <2> QED BY <1>9, <2>3, <2>4
<1>13. ASSUME Ranked(tr), NEW m \in U, NEW n \in U, tr.fc[m] > tr.fc[n] PROVE h[m] <= h[n]
  <2>1. /\ \A i, j \in 1 .. Len(w) : i <= j => tr.fc[w[j]] <= tr.fc[w[i]]
        /\ Len(w) \in Nat
    <3>1. Len(w) = 2 * Turns(tr) + 1 /\ Turns(tr) \in Nat
      BY DEF Whole, w
    <3> DEFINE N == 2 * Turns(tr) + 1
    <3>2. \A i, j \in 1 .. N : i <= j => tr.fc[w[j]] <= tr.fc[w[i]]
      BY <1>13 DEF Ranked, w
    <3>3. Len(w) = N /\ N \in Nat
      BY <3>1
    <3> HIDE DEF N
    <3> QED BY <3>2, <3>3
  <2>2. tr.fc[m] \in Nat /\ tr.fc[n] \in Nat
    <3>1. tr.fc \in [Nodes -> Nat]
      BY DEF Whole, TreeRec
    <3>2. Leaves \subseteq Nodes
      BY DEF Leaves, Nodes
    <3>3. m \in Nodes /\ n \in Nodes
      BY <1>1, <3>2
    <3> QED BY <3>1, <3>3
  <2> DEFINE p == place[m]
             q == place[n]
  <2>3. p \in 1 .. s /\ q \in 1 .. s /\ leaves[p] = m /\ leaves[q] = n
    BY <1>5
  <2> HIDE DEF p, q
  <2>4. ~(p < q)
    <3> SUFFICES ASSUME p < q PROVE FALSE
      OBVIOUS
    <3>1. PICK a, b \in 1 .. Len(w) : b < a /\ leaves[p] = w[a] /\ leaves[q] = w[b]
      BY <1>2, <1>4, <2>3 DEF Backwards
    <3>2. b <= a
      BY <2>1, <3>1
    <3>3. tr.fc[m] <= tr.fc[n]
      BY <2>1, <2>3, <3>1, <3>2
    <3> QED BY <1>13, <2>2, <3>3
  <2>5. p # q
    BY <1>13, <2>2, <2>3
  <2>6. q < p /\ p \in Nat /\ q \in Nat
    BY <1>1, <2>3, <2>4, <2>5
  <2> DEFINE x == h[m]
             y == h[n]
  <2>7. AtLevel(count, p, x) /\ AtLevel(count, q, y) /\ x \in 1 .. Limit /\ y \in 1 .. Limit
    BY <1>10 DEF p, q
  <2> HIDE DEF x, y
  <2>8. ~(y < x)
    <3> SUFFICES ASSUME y < x PROVE FALSE
      OBVIOUS
    <3>1. x \in Levels /\ y \in Levels /\ p <= Longer(count, x) + count[x] /\ Longer(count, y) < q
      BY <2>7 DEF AtLevel
    <3>2. Longer(count, x) + count[x] <= Longer(count, y)
      BY <1>9, <3>1, LongerIs
    <3>3. Longer(count, x) \in Nat /\ Longer(count, y) \in Nat /\ count[x] \in Nat
      BY <1>9, <3>1, LongerIs
    <3> DEFINE c == Longer(count, x)
               d == Longer(count, y)
               e == count[x]
    <3>4. c \in Nat /\ d \in Nat /\ e \in Nat /\ p <= c + e /\ d < q /\ c + e <= d
      BY <3>1, <3>2, <3>3
    <3> HIDE DEF c, d, e
    <3> QED BY <2>6, <3>4
  <2>9. x <= y
    BY <2>7, <2>8
  <2> QED BY <2>9 DEF x, y
<1> QED BY <1>10, <1>11, <1>12, <1>13 DEF U, h

-----------------------------------------------------------------------------
(* genBitlen as a whole                                                    *)

\* The bits of the symbols of a tree, with lengths len
Cost(tr, len) ==
  SumOn([n \in Leaves |-> tr.fc[n] * (len[n] + Desc[name].extra[n])], InTree(tr))

\* The lengths D come from the first pass, which left x, and the second if codes were cut
FromCut(D, tr, x) ==
  /\ CutSoFar(x, tr, Len(tr.sorted))
  /\ \A n \in Nodes \ Leaves : D[n] = x.dl[n]
  /\ x.overflow = 0 => \A n \in InTree(tr) : D[n] = x.dl[n]
  /\ x.overflow # 0 /\ Ranked(tr) =>
       \A m, n \in InTree(tr) : tr.fc[m] > tr.fc[n] => D[m] <= D[n]

\* Lengths of a complete code for the symbols in use
Lengths(D, U) ==
  /\ D \in [Nodes -> Nat]
  /\ \A n \in U : D[n] \in 1 .. Limit
  /\ \A n \in Leaves \ U : D[n] = 0
  /\ SumOn(Shares(D), U) = Pow(0)

LEMMA SharesSame ==
  ASSUME NEW U, NEW f, NEW g, U \subseteq DOMAIN f, U \subseteq DOMAIN g,
         \A n \in U : f[n] = g[n]
  PROVE  SumOn(Shares(f), U) = SumOn(Shares(g), U)
<1>1. \A n \in U : Shares(f)[n] = Shares(g)[n]
  BY DEF Shares
<1> HIDE DEF Shares
<1> QED BY <1>1, SumOnSame

\* What the symbols in use cost with given lengths (trees.go:333-337)
LEMMA CostIs ==
  ASSUME Elems \in Nat, NEW tr, tr.fc \in [Nodes -> Nat], Desc[name].extra \in [Leaves -> Nat],
         NEW leaf, \A n \in Leaves : leaf[n] = 0 <=> n \notin InTree(tr),
         NEW len, \A n \in InTree(tr) : len[n] \in Nat
  PROVE  /\ Sum([n \in Leaves |-> IF leaf[n] = 0 THEN 0
                                  ELSE tr.fc[n] * (len[n] + Desc[name].extra[n])]) = Cost(tr, len)
         /\ Cost(tr, len) \in Nat
<1> DEFINE f == [n \in Leaves |-> IF leaf[n] = 0 THEN 0
                                  ELSE tr.fc[n] * (len[n] + Desc[name].extra[n])]
           g == [n \in Leaves |-> tr.fc[n] * (len[n] + Desc[name].extra[n])]
           U == InTree(tr)
<1>1. U \in SUBSET Leaves /\ IsFiniteSet(Leaves) /\ IsFiniteSet(U) /\ Leaves \subseteq Nodes
  <2>1. U \in SUBSET Leaves
    BY DEF InTree
  <2>2. IsFiniteSet(Leaves)
    BY FS_Interval DEF Leaves
  <2>3. Leaves \subseteq Nodes
    BY DEF Leaves, Nodes
  <2> QED BY <2>1, <2>2, <2>3, FS_Subset
<1>2. \A n \in U : f[n] = g[n]
  BY <1>1
<1>3. \A n \in Leaves \ U : f[n] = 0
  OBVIOUS
<1>4. ASSUME NEW n \in U PROVE g[n] \in Nat
  <2>1. tr.fc[n] \in Nat /\ len[n] \in Nat /\ Desc[name].extra[n] \in Nat /\ n \in Leaves
    BY <1>1
  <2> DEFINE a == tr.fc[n]
             b == len[n]
             c == Desc[name].extra[n]
  <2>2. g[n] = a * (b + c)
    BY <2>1
  <2> HIDE DEF a, b, c, g
  <2>3. a \in Nat /\ b \in Nat /\ c \in Nat
    BY <2>1 DEF a, b, c
  <2>4. a * (b + c) \in Nat
    BY <2>3
  <2> QED BY <2>2, <2>4
<1>5. Sum(f) = SumOn(f, Leaves)
  <2>1. f = [n \in Leaves |-> f[n]]
    OBVIOUS
  <2> HIDE DEF f
  <2> QED BY <2>1, SumIsOn
<1>6. Cost(tr, len) = SumOn(g, U)
  BY DEF Cost
<1> HIDE DEF f, g, U
<1>7. SumOn(f, U) = SumOn(g, U)
  BY <1>2, SumOnSame
<1>8. SumOn(f, Leaves) = SumOn(f, U)
  <2>1. IntOn(f, U)
    BY <1>2, <1>4 DEF IntOn
  <2> QED BY <1>1, <1>3, <2>1, SumOnPart
<1>9. SumOn(g, U) \in Nat
  BY <1>1, <1>4, SumOnNat
<1> QED BY <1>5, <1>6, <1>7, <1>8, <1>9 DEF f

\* The symbols of a tree that have a code
Coded(len, m) == {n \in 0 .. m : len[n] # 0}

\* genCodes' bl_count, the number of codes of each length
LEMMA LengthCountOf ==
  ASSUME NEW b \in Nat, NEW m \in Int, NEW len
  PROVE  /\ LengthCount(len, m, b) \in [0 .. b -> Nat]
         /\ \A i \in 0 .. b : LengthCount(len, m, b)[i] = Cardinality(Valued(len, Coded(len, m), i))
<1> DEFINE U == Coded(len, m)
<1>1. LengthCount(len, m, b)
        = [i \in 0 .. b |-> Cardinality({n \in 0 .. m : len[n] = i /\ len[n] # 0})]
  BY DEF LengthCount
<1>2. \A i : {n \in 0 .. m : len[n] = i /\ len[n] # 0} = Valued(len, U, i)
  BY DEF Valued, Coded
<1>3. \A i \in 0 .. b : LengthCount(len, m, b)[i] = Cardinality(Valued(len, U, i))
  BY <1>1, <1>2
<1>4. \A i : Cardinality(Valued(len, U, i)) \in Nat
  <2> TAKE i
  <2>1. IsFiniteSet(0 .. m)
    BY FS_Interval
  <2>2. Valued(len, U, i) \subseteq 0 .. m
    BY DEF Valued, Coded
  <2> QED BY <2>1, <2>2, FS_Subset, FS_CardinalityType
<1> DEFINE c == LengthCount(len, m, b)
<1>5. \A i \in 0 .. b : c[i] \in Nat
  BY <1>3, <1>4
<1>6. c = [i \in 0 .. b |-> c[i]]
  BY <1>1
<1> HIDE DEF c
<1>7. c \in [0 .. b -> Nat]
  BY <1>5, <1>6
<1> QED BY <1>3, <1>7 DEF c

\* genBitlen: lengths within the limit that make a complete code, cut or not, and the bits
\* they add to optLen and staticLen (trees.go:299-375)
LEMMA GenBitlenMakes ==
  ASSUME name \in Names, Merging(t), Cardinality(InTree(t)) <= Pow2(Limit), GenBitlen,
         optLen \in Int, staticLen \in Int
  PROVE  \E D : /\ t' = [WithRoot(t) EXCEPT !.dl = D] /\ Lengths(D, InTree(t))
                /\ \E x : FromCut(D, WithRoot(t), x)
                /\ optLen' = optLen + Cost(t, D)
                /\ staticLen' = IF name = "bl" THEN staticLen
                                ELSE staticLen + Cost(t, Desc[name].static)
<1> DEFINE U == InTree(t)
           tr == WithRoot(t)
           w == tr.sorted
           N == Len(tr.sorted)
           M == Limit
           x == Cut(tr)
           leaf == [n \in Leaves |-> IF n \in ToSet(w) THEN x.dl[n] ELSE 0]
           count == LengthCount(leaf, tr.maxCode, M)
           len == IF x.overflow = 0 THEN leaf ELSE HandOut(tr, leaf, Relieve(count, x.overflow))
           D == [n \in Nodes |-> IF n \in Leaves THEN len[n] ELSE x.dl[n]]
           cost(lengths) == Sum([n \in Leaves |->
                              IF leaf[n] = 0 THEN 0
                              ELSE t.fc[n] * (lengths[n] + Desc[name].extra[n])])
<1>1. /\ Len(t.heap) = 1
      /\ t' = [tr EXCEPT !.dl = D]
      /\ optLen' = optLen + cost(leaf) + (cost(len) - cost(leaf))
      /\ staticLen' = IF name = "bl" THEN staticLen ELSE staticLen + cost(Desc[name].static)
  BY DEF GenBitlen, WithRoot, Limit
<1>2. /\ Elems \in Nat /\ Elems >= 3 /\ M \in Nat /\ M >= 1
      /\ Desc[name].static \in [Leaves -> Nat] /\ Desc[name].extra \in [Leaves -> Nat]
  BY DescIs
<1>3. Whole(tr) /\ InTree(tr) = U
  BY <1>1, <1>2, WholeIs
<1>4. CutSoFar(x, tr, N)
  BY <1>2, <1>3, CutIs
<1>5. /\ \A n \in ToSet(w) : x.dl[n] \in 0 .. M /\ n \in Nodes
      /\ \A n \in U : x.dl[n] \in 1 .. M
  BY <1>2, <1>3, <1>4, CutLengths
<1>6. PICK o \in Nat : /\ x.overflow = 2 * o
                       /\ SumOn(Shares(x.dl), U) = Pow(0) + o
                       /\ o <= SumOn(Longest(x.dl), U)
  <2>1. \E o \in Nat : /\ x.overflow = 2 * o
                       /\ SumOn(Shares(x.dl), InTree(tr)) = Pow(0) + o
                       /\ o <= SumOn(Longest(x.dl), InTree(tr))
    <3> HIDE DEF tr, x, N, M
    <3> QED BY <1>2, <1>3, <1>4, CutKraft DEF N, M
  <2> QED BY <1>3, <2>1
<1>7. /\ U \subseteq Leaves /\ Leaves \subseteq Nodes /\ IsFiniteSet(Leaves) /\ IsFiniteSet(U)
      /\ U \subseteq ToSet(w) /\ Cardinality(U) \in Nat
      /\ tr.maxCode \in U /\ (\A n \in U : n <= tr.maxCode)
      /\ \A n \in Leaves \ U : n \notin ToSet(w)
      /\ x.dl \in [Nodes -> Nat] /\ t.fc \in [Nodes -> Nat]
  <2>1. U \subseteq Leaves
    BY DEF InTree
  <2>2. IsFiniteSet(Leaves)
    <3>1. Elems - 1 \in Int
      BY <1>2
    <3> QED BY <3>1, FS_Interval DEF Leaves
  <2>3. IsFiniteSet(U)
    BY <2>1, <2>2, FS_Subset
  <2>4. Cardinality(U) \in Nat
    BY <2>3, FS_CardinalityType
  <2>5. Leaves \subseteq Nodes
    BY <1>2 DEF Leaves, Nodes
  <2>6. /\ ToSet(w) = U \cup (Elems .. Elems + (Turns(tr) - 1))
        /\ tr.maxCode \in U /\ (\A n \in U : n <= tr.maxCode)
    BY <1>3 DEF Whole
  <2>7. \A n \in Leaves : n \notin Elems .. Elems + (Turns(tr) - 1)
    BY <1>2 DEF Leaves
  <2>8. x.dl \in [Nodes -> Nat]
    BY <1>4 DEF CutSoFar
  <2>9. t.fc \in [Nodes -> Nat]
    BY DEF Merging, TreeRec
  <2> HIDE DEF U, w, x, tr
  <2> QED BY <2>1, <2>2, <2>3, <2>4, <2>5, <2>6, <2>7, <2>8, <2>9
<1>8. /\ DOMAIN leaf = Leaves /\ \A n \in U : leaf[n] = x.dl[n] /\ leaf[n] \in 1 .. M
      /\ \A n \in Leaves \ U : leaf[n] = 0
      /\ \A n \in Leaves : leaf[n] = 0 <=> n \notin U
  <2> HIDE DEF U, w, x, M
  <2>1. DOMAIN leaf = Leaves
    OBVIOUS
  <2>2. \A n \in U : leaf[n] = x.dl[n] /\ leaf[n] \in 1 .. M
    BY <1>5, <1>7
  <2>3. \A n \in Leaves \ U : leaf[n] = 0
    BY <1>7
  <2>4. \A n \in U : leaf[n] # 0
    BY <1>2, <2>2
  <2> HIDE DEF leaf
  <2> QED BY <2>1, <2>2, <2>3, <2>4
<1> HIDE DEF leaf, x, w, tr, U, N
<1>9. U = {n \in 0 .. tr.maxCode : leaf[n] # 0}
  <2>4. tr.maxCode \in Leaves /\ Elems \in Nat
    BY <1>2, <1>7
  <2> DEFINE k == tr.maxCode
  <2>1. k \in Leaves /\ k \in Nat
    <3> HIDE DEF k
    <3>1. k \in Leaves
      BY <2>4 DEF k
    <3> QED BY <2>4, <3>1 DEF Leaves
  <2>2. 0 .. tr.maxCode \subseteq Leaves
    BY <1>2, <2>1 DEF Leaves
  <2>3. \A n \in U : n \in 0 .. tr.maxCode
    BY <1>2, <1>7, <2>1 DEF Leaves
  <2> QED BY <1>8, <2>2, <2>3
<1>10. count \in [Levels -> Nat] /\ \A b \in Levels : count[b] = Cardinality(Valued(leaf, U, b))
  <2> DEFINE k == tr.maxCode
  <2>0. k \in Leaves
    BY <1>7
  <2>3. U = Coded(leaf, k)
    BY <1>9 DEF Coded
  <2>4. M \in Nat
    BY <1>2
  <2>5. count = LengthCount(leaf, k, M)
    OBVIOUS
  <2>6. Levels = 0 .. M
    BY DEF Levels, M
  <2> HIDE DEF M, k, count
  <2>1. k \in Int
    BY <1>2, <2>0 DEF Leaves
  <2>2. /\ LengthCount(leaf, k, M) \in [0 .. M -> Nat]
        /\ \A b \in 0 .. M : LengthCount(leaf, k, M)[b] = Cardinality(Valued(leaf, Coded(leaf, k), b))
    BY <2>1, <2>4, LengthCountOf
  <2> QED BY <2>2, <2>3, <2>5, <2>6
<1> HIDE DEF count
<1>11. /\ count[0] = 0 /\ Kraft(count) = SumOn(Shares(leaf), U)
       /\ Total(count) = Cardinality(U) /\ count[M] = SumOn(Longest(leaf), U)
  <2>1. U \subseteq DOMAIN leaf /\ \A n \in U : leaf[n] \in 1 .. Limit
    BY <1>7, <1>8
  <2> QED BY <1>2, <1>7, <1>10, <2>1, CountsOf
<1>12. SumOn(Shares(leaf), U) = SumOn(Shares(x.dl), U) /\ SumOn(Longest(leaf), U) = SumOn(Longest(x.dl), U)
  <2>1. U \subseteq DOMAIN leaf /\ U \subseteq DOMAIN x.dl /\ \A n \in U : leaf[n] = x.dl[n]
    BY <1>7, <1>8
  <2>2. SumOn(Shares(leaf), U) = SumOn(Shares(x.dl), U)
    BY <2>1, SharesSame
  <2>3. \A n \in U : Longest(leaf)[n] = Longest(x.dl)[n]
    BY <2>1 DEF Longest
  <2> DEFINE f == Longest(leaf)
             g == Longest(x.dl)
  <2> HIDE DEF f, g
  <2>4. \A n \in U : f[n] = g[n]
    BY <2>3 DEF f, g
  <2>5. SumOn(f, U) = SumOn(g, U)
    BY <2>4, SumOnSame
  <2> QED BY <2>2, <2>5 DEF f, g
<1>13. Roomy(count, o, Cardinality(U))
  BY <1>6, <1>10, <1>11, <1>12 DEF Roomy
<1>14. /\ DOMAIN len = Leaves /\ (\A n \in U : len[n] \in 1 .. M) /\ (\A n \in Leaves \ U : len[n] = 0)
       /\ SumOn(Shares(len), U) = Pow(0)
       /\ x.overflow = 0 => len = leaf
       /\ x.overflow # 0 /\ Ranked(tr) => \A m, n \in U : tr.fc[m] > tr.fc[n] => len[m] <= len[n]
  <2>1. CASE x.overflow = 0
    <3>1. o = 0
      BY <1>6, <2>1
    <3>2. SumOn(Shares(len), U) = Pow(0) + 0 /\ len = leaf
      BY <1>6, <1>12, <2>1, <3>1
    <3>3. Pow(0) \in Nat
      BY <1>2, LevelsIs
    <3>4. SumOn(Shares(len), U) = Pow(0)
      BY <3>2, <3>3
    <3> QED BY <1>8, <2>1, <3>2, <3>4
  <2>2. CASE x.overflow # 0
    <3> DEFINE room == Relieve(count, 2 * o)
               h == HandOut(tr, leaf, room)
               s == Cardinality(U)
    <3>1. s \in Nat /\ s <= Pow2(Limit)
      BY <1>7 DEF U
    <3>2. Roomy(room, 0, s)
      <4> HIDE DEF room, s
      <4> QED BY <1>2, <1>13, <3>1, RelieveIs DEF s, room
    <3> HIDE DEF room, s
    <3>3. Roomy(room, 0, Cardinality(InTree(tr)))
      BY <1>3, <3>2 DEF s
    <3>4. /\ DOMAIN h = Leaves /\ \A n \in Leaves \ InTree(tr) : h[n] = leaf[n]
          /\ \A n \in InTree(tr) : h[n] \in 1 .. Limit
          /\ SumOn(Shares(h), InTree(tr)) = Pow(0)
          /\ Ranked(tr) => \A m, n \in InTree(tr) : tr.fc[m] > tr.fc[n] => h[m] <= h[n]
      BY <1>2, <1>3, <1>8, <3>3, HandOutIs
    <3>5. len = h
      BY <1>6, <2>2 DEF room
    <3> HIDE DEF h, len
    <3> QED BY <1>3, <1>8, <2>2, <3>4, <3>5
  <2> QED BY <2>1, <2>2
<1> HIDE DEF len
<1>15. D \in [Nodes -> Nat] /\ (\A n \in Leaves : D[n] = len[n]) /\ \A n \in Nodes \ Leaves : D[n] = x.dl[n]
  <2>1. \A n \in Leaves : D[n] = len[n]
    BY <1>7
  <2>2. \A n \in Nodes \ Leaves : D[n] = x.dl[n]
    OBVIOUS
  <2>3. \A n \in Nodes : D[n] \in Nat
    <3>1. \A n \in Leaves : len[n] \in Nat
      BY <1>2, <1>14
    <3> QED BY <1>7, <2>1, <2>2, <3>1
  <2>4. D = [n \in Nodes |-> D[n]]
    OBVIOUS
  <2> HIDE DEF D
  <2> QED BY <2>1, <2>2, <2>3, <2>4
<1> HIDE DEF D, M
<1>16. Lengths(D, U)
  <2>1. U \subseteq DOMAIN D /\ U \subseteq DOMAIN len /\ \A n \in U : D[n] = len[n]
    BY <1>7, <1>14, <1>15
  <2>2. SumOn(Shares(D), U) = SumOn(Shares(len), U)
    BY <2>1, SharesSame
  <2> QED BY <1>7, <1>14, <1>15, <2>2 DEF Lengths, M
<1>17. FromCut(D, tr, x)
  <2>1. \A n \in U : D[n] = len[n] /\ leaf[n] = x.dl[n]
    BY <1>7, <1>8, <1>15
  <2> QED BY <1>3, <1>4, <1>14, <1>15, <2>1 DEF FromCut, N
<1>18. cost(len) = Cost(t, D) /\ cost(leaf) \in Int /\ Cost(t, D) \in Int
       /\ cost(Desc[name].static) = Cost(t, Desc[name].static)
  <2>1. \A n \in Leaves : leaf[n] = 0 <=> n \notin InTree(t)
    BY <1>8 DEF U
  <2>2. (\A n \in InTree(t) : len[n] \in Nat) /\ (\A n \in InTree(t) : leaf[n] \in Nat)
        /\ (\A n \in InTree(t) : Desc[name].static[n] \in Nat)
    BY <1>2, <1>7, <1>8, <1>14 DEF U
  <2>3. cost(len) = Cost(t, len) /\ Cost(t, len) \in Nat
    BY <1>2, <1>7, <2>1, <2>2, CostIs
  <2>4. cost(leaf) = Cost(t, leaf) /\ Cost(t, leaf) \in Nat
    BY <1>2, <1>7, <2>1, <2>2, CostIs
  <2>5. cost(Desc[name].static) = Cost(t, Desc[name].static)
    BY <1>2, <1>7, <2>1, <2>2, CostIs
  <2>6. Cost(t, len) = Cost(t, D)
    <3> DEFINE f == [n \in Leaves |-> t.fc[n] * (len[n] + Desc[name].extra[n])]
               g == [n \in Leaves |-> t.fc[n] * (D[n] + Desc[name].extra[n])]
    <3>1. \A n \in U : f[n] = g[n]
      BY <1>7, <1>15
    <3> HIDE DEF f, g
    <3>2. SumOn(f, U) = SumOn(g, U)
      BY <3>1, SumOnSame
    <3> QED BY <3>2 DEF f, g, Cost, U
  <2> HIDE DEF cost
  <2> QED BY <2>3, <2>4, <2>5, <2>6
<1>19. optLen' = optLen + Cost(t, D)
  <2> DEFINE a == cost(len)
             b == cost(leaf)
             q == optLen
  <2>1. q \in Int /\ a \in Int /\ b \in Int /\ optLen' = q + b + (a - b)
    BY <1>1, <1>18
  <2> HIDE DEF a, b, q
  <2>2. optLen' = q + a
    BY <2>1
  <2> QED BY <1>18, <2>2 DEF a, q
<1> HIDE DEF cost
<1> QED BY <1>1, <1>16, <1>17, <1>18, <1>19 DEF U, tr

-----------------------------------------------------------------------------
(* The cheapest lengths                                                    *)

\* Lengths within the limit that leave room for a code, and what they cost
Feasible(len, S)      == (\A x \in S : len[x] \in Levels) /\ Sum([x \in S |-> Pow(len[x])]) <= Pow(0)
Weight(f, len, S) == Sum([x \in S |-> f[x] * len[x]])

\* A factor of every value
LEMMA SumOnScale ==
  ASSUME NEW S, IsFiniteSet(S), NEW f, IntOn(f, S), NEW c \in Int, NEW h, \A x \in S : h[x] = c * f[x]
  PROVE  SumOn(h, S) = c * SumOn(f, S)
<1> DEFINE X == {T \in SUBSET S : SumOn(h, T) = c * SumOn(f, T)}
<1>1. {} \in X
  <2>1. SumOn(h, {}) = 0 /\ SumOn(f, {}) = 0
    BY SumOnEmpty
  <2>2. c * 0 = 0
    OBVIOUS
  <2> QED BY <2>1, <2>2
<1>2. ASSUME NEW T \in SUBSET S, NEW x \in S, T \in X, x \notin T PROVE T \cup {x} \in X
  <2>1. IsFiniteSet(T) /\ T \cup {x} \in SUBSET S /\ x \notin T
    BY <1>2, FS_Subset
  <2>2. f[x] \in Int /\ h[x] = c * f[x]
    BY DEF IntOn
  <2>3. IntOn(f, T \cup {x}) /\ IntOn(f, T)
    BY DEF IntOn
  <2>4. IntOn(h, T \cup {x})
    <3>1. \A y \in S : h[y] \in Int
      <4> TAKE y \in S
      <4>1. f[y] \in Int /\ h[y] = c * f[y]
        BY DEF IntOn
      <4> QED BY <4>1
    <3> QED BY <2>1, <3>1 DEF IntOn
  <2>5. SumOn(f, T \cup {x}) = f[x] + SumOn(f, T)
    BY <2>1, <2>3, SumOnAdd
  <2>6. SumOn(h, T \cup {x}) = h[x] + SumOn(h, T)
    BY <2>1, <2>4, SumOnAdd
  <2>7. SumOn(f, T) \in Int
    BY <2>1, <2>3, SumOnInt
  <2>8. SumOn(h, T) = c * SumOn(f, T)
    BY <1>2
  <2> DEFINE a == SumOn(f, T)
             b == f[x]
  <2>9. c * (b + a) = c * b + c * a
    <3>1. a \in Int /\ b \in Int
      BY <2>2, <2>7
    <3> HIDE DEF a, b
    <3> QED BY <3>1
  <2> QED BY <2>1, <2>2, <2>5, <2>6, <2>8, <2>9
<1> HIDE DEF X
<1>3. S \in X
  BY <1>1, <1>2, SetInduction
<1> QED BY <1>3 DEF X

\* Two values change
LEMMA TwoChanges ==
  ASSUME NEW S, IsFiniteSet(S), NEW f, IntOn(f, S), NEW x \in S, NEW y \in S, x # y,
         NEW p \in Int, NEW q \in Int, NEW h, h[x] = f[x] + p, h[y] = f[y] + q,
         \A z \in S : z # x /\ z # y => h[z] = f[z]
  PROVE  SumOn(h, S) = SumOn(f, S) + (p + q)
<1> DEFINE g == [z \in S |-> IF z = x THEN f[x] + p ELSE f[z]]
<1>1. g[x] = f[x] + p /\ \A z \in S : z # x => g[z] = f[z]
  OBVIOUS
<1>2. IntOn(g, S)
  BY DEF IntOn
<1>3. h[y] = g[y] + q /\ \A z \in S : z # y => h[z] = g[z]
  OBVIOUS
<1> HIDE DEF g
<1>4. SumOn(g, S) = SumOn(f, S) + p
  BY <1>1, SumOnChange
<1>5. SumOn(h, S) = SumOn(g, S) + q
  BY <1>2, <1>3, SumOnChange
<1>6. SumOn(f, S) \in Int
  BY SumOnInt
<1> QED BY <1>4, <1>5, <1>6

\* Two codes change places
Swap(len, S, n, x) == [y \in S |-> IF y = n THEN len[x] ELSE IF y = x THEN len[n] ELSE len[y]]

\* Giving the more frequent symbol the shorter code costs no more
LEMMA Swapped ==
  ASSUME Limit \in Nat, NEW S, IsFiniteSet(S), NEW f, \A x \in S : f[x] \in Nat,
         NEW len, Feasible(len, S), NEW n \in S, NEW x \in S, f[n] <= f[x], len[n] <= len[x]
  PROVE  /\ Feasible(Swap(len, S, n, x), S)
         /\ Weight(f, Swap(len, S, n, x), S) <= Weight(f, len, S)
         /\ f[n] < f[x] /\ len[n] < len[x] => Weight(f, Swap(len, S, n, x), S) < Weight(f, len, S)
<1> DEFINE u == Swap(len, S, n, x)
           P == [y \in S |-> Pow(len[y])]
           Q == [y \in S |-> Pow(u[y])]
           V == [y \in S |-> f[y] * len[y]]
           W == [y \in S |-> f[y] * u[y]]
<1>1. /\ u[n] = len[x] /\ u[x] = len[n] /\ \A y \in S : y # n /\ y # x => u[y] = len[y]
  BY DEF Swap
<1>2. \A y \in S : len[y] \in Levels /\ u[y] \in Levels
  <2>1. \A y \in S : len[y] \in Levels
    BY DEF Feasible
  <2> HIDE DEF u
  <2> QED BY <1>1, <2>1
<1>3. Levels \subseteq Nat /\ \A b \in Levels : Pow(b) \in Nat
  BY LevelsIs
<1>4. SumOn(P, S) <= Pow(0) /\ Weight(f, len, S) = SumOn(V, S) /\ Weight(f, u, S) = SumOn(W, S)
      /\ Sum([y \in S |-> Pow(u[y])]) = SumOn(Q, S)
  BY DEF Feasible, SumOn, Weight
<1>5. CASE n = x
  <2>1. \A y \in S : u[y] = len[y]
    BY <1>1, <1>5
  <2> HIDE DEF u
  <2>2. \A y \in S : P[y] = Q[y] /\ V[y] = W[y]
    BY <2>1
  <2> HIDE DEF P, Q, V, W
  <2>3. SumOn(Q, S) = SumOn(P, S) /\ SumOn(W, S) = SumOn(V, S)
    BY <2>2, SumOnSame
  <2>4. IntOn(V, S)
    <3>1. \A y \in S : V[y] \in Int
      <4> TAKE y \in S
      <4>1. f[y] \in Nat /\ len[y] \in Nat
        BY <1>2, <1>3
      <4> QED BY <4>1 DEF V
    <3> QED BY <3>1 DEF IntOn
  <2>5. SumOn(V, S) \in Int
    BY <2>4, SumOnInt
  <2>6. len[n] = len[x] /\ len[n] \in Nat
    BY <1>2, <1>3, <1>5
  <2>7. ~(len[n] < len[x])
    BY <2>6
  <2>8. Feasible(u, S)
    BY <1>2, <1>4, <2>3 DEF Feasible
  <2>9. Weight(f, u, S) <= Weight(f, len, S)
    BY <1>4, <2>3, <2>5
  <2> QED BY <2>7, <2>8, <2>9 DEF u
<1>6. CASE n # x
  <2> DEFINE p == Pow(len[x]) - Pow(len[n])
             a == f[n]
             b == f[x]
             i == len[n]
             j == len[x]
  <2>1. a \in Nat /\ b \in Nat /\ i \in Nat /\ j \in Nat /\ a <= b /\ i <= j
    BY <1>2, <1>3
  <2>2. Pow(len[x]) \in Nat /\ Pow(len[n]) \in Nat
    BY <1>2, <1>3
  <2>3. p \in Int /\ p + (0 - p) = 0
    BY <2>2
  <2>4. SumOn(Q, S) = SumOn(P, S)
    <3>1. Q[n] = P[n] + p /\ Q[x] = P[x] + (0 - p)
      <4>1. Q[n] = Pow(len[x]) /\ Q[x] = Pow(len[n]) /\ P[n] = Pow(len[n]) /\ P[x] = Pow(len[x])
        <5> HIDE DEF u
        <5> QED BY <1>1
      <4> HIDE DEF P, Q
      <4> QED BY <2>2, <4>1
    <3>2. \A y \in S : y # n /\ y # x => Q[y] = P[y]
      <4> HIDE DEF u
      <4> QED BY <1>1
    <3>3. \A y \in S : P[y] \in Int
      <4> TAKE y \in S
      <4>1. len[y] \in Levels
        BY <1>2
      <4>2. Pow(len[y]) \in Nat
        BY <1>3, <4>1
      <4>3. P[y] = Pow(len[y])
        OBVIOUS
      <4> HIDE DEF P
      <4> QED BY <4>2, <4>3
    <3> HIDE DEF P, Q, p
    <3>4. IntOn(P, S)
      BY <3>3 DEF IntOn
    <3>5. 0 - p \in Int
      BY <2>3
    <3>6. SumOn(Q, S) = SumOn(P, S) + (p + (0 - p))
      BY <1>6, <2>3, <3>1, <3>2, <3>4, <3>5, TwoChanges
    <3>7. SumOn(P, S) \in Int
      BY <3>4, SumOnInt
    <3> QED BY <2>3, <3>6, <3>7
  <2> DEFINE r == a * (j - i)
             s == b * (i - j)
  <2>5. r \in Int /\ s \in Int /\ r + s <= 0 /\ (a < b /\ i < j => r + s < 0)
    <3>1. r + s = 0 - (b - a) * (j - i)
      <4> HIDE DEF a, b, i, j
      <4> QED BY <2>1
    <3> DEFINE c == b - a
               d == j - i
               e == c * d
    <3>2. c \in Nat /\ d \in Nat /\ (a < b => c >= 1) /\ (i < j => d >= 1)
      <4> HIDE DEF a, b, i, j
      <4> QED BY <2>1
    <3>3. e \in Nat /\ (c >= 1 /\ d >= 1 => e >= 1)
      <4> HIDE DEF c, d
      <4> QED BY <3>2
    <3>4. r \in Int /\ s \in Int
      <4> HIDE DEF a, b, i, j
      <4> QED BY <2>1
    <3>5. r + s = 0 - e
      BY <3>1
    <3> HIDE DEF r, s, e
    <3> QED BY <3>2, <3>3, <3>4, <3>5
  <2>6. SumOn(W, S) = SumOn(V, S) + (r + s)
    <3>1. W[n] = V[n] + r /\ W[x] = V[x] + s
      <4>1. W[n] = a * j /\ W[x] = b * i /\ V[n] = a * i /\ V[x] = b * j
        <5> HIDE DEF u
        <5> QED BY <1>1
      <4>2. a * j = a * i + r /\ b * i = b * j + s
        <5> HIDE DEF a, b, i, j
        <5> QED BY <2>1
      <4> HIDE DEF a, b, i, j, r, s, V, W
      <4> QED BY <4>1, <4>2
    <3>2. \A y \in S : y # n /\ y # x => W[y] = V[y]
      <4> HIDE DEF u
      <4> QED BY <1>1
    <3>3. \A y \in S : V[y] \in Int
      <4> TAKE y \in S
      <4>1. f[y] \in Nat /\ len[y] \in Nat
        BY <1>2, <1>3
      <4> QED BY <4>1
    <3> HIDE DEF V, W, r, s
    <3>4. IntOn(V, S)
      BY <3>3 DEF IntOn
    <3> QED BY <1>6, <2>5, <3>1, <3>2, <3>4, TwoChanges
  <2>7. SumOn(V, S) \in Int
    <3>3. \A y \in S : V[y] \in Int
      <4> TAKE y \in S
      <4>1. f[y] \in Nat /\ len[y] \in Nat
        BY <1>2, <1>3
      <4> QED BY <4>1
    <3> HIDE DEF V
    <3>4. IntOn(V, S)
      BY <3>3 DEF IntOn
    <3> QED BY <3>4, SumOnInt
  <2>8. Feasible(u, S)
    <3> HIDE DEF u
    <3> QED BY <1>2, <1>4, <2>4 DEF Feasible
  <2> DEFINE v1 == SumOn(V, S)
             w1 == SumOn(W, S)
             q1 == r + s
  <2>9. w1 <= v1 /\ (a < b /\ i < j => w1 < v1)
    <3>1. w1 = v1 + q1 /\ v1 \in Int /\ q1 \in Int /\ q1 <= 0 /\ (a < b /\ i < j => q1 < 0)
      BY <2>5, <2>6, <2>7
    <3> HIDE DEF v1, w1, q1, a, b, i, j
    <3> QED BY <3>1
  <2> QED BY <1>4, <2>8, <2>9
<1> QED BY <1>5, <1>6

\* Some code is the longest
LEMMA Deepest ==
  ASSUME Limit \in Nat, NEW S, S # {}, NEW len, \A x \in S : len[x] \in Levels
  PROVE  \E x \in S : \A y \in S : len[y] <= len[x]
<1> DEFINE V == {len[x] : x \in S}
<1>1. IsFiniteSet(Levels) /\ Levels \subseteq Nat
  BY LevelsIs
<1>2. V \subseteq Levels /\ V # {}
  OBVIOUS
<1>3. \A x \in S : len[x] \in V
  OBVIOUS
<1>4. \A b \in V : \E x \in S : b = len[x]
  OBVIOUS
<1> HIDE DEF V
<1>5. IsFiniteSet(V) /\ V \subseteq Nat
  BY <1>1, <1>2, FS_Subset
<1>6. Max(V) \in V /\ \A b \in V : b <= Max(V)
  BY <1>2, <1>5, MaxOfSet
<1>7. PICK x \in S : Max(V) = len[x]
  BY <1>4, <1>6
<1> QED BY <1>3, <1>6, <1>7

\* Multiples of p below a multiple of p leave room for another p
LEMMA RoundUp ==
  ASSUME NEW p \in Nat, NEW q \in Nat, NEW r \in Nat, NEW e \in Nat, e >= 1, p * q + e <= p * r
  PROVE  p * q + p <= p * r
<1>1. q < r
  <2>1. CASE q >= r
    <3>1. p * q >= p * r
      BY <2>1
    <3>2. p * q \in Nat /\ p * r \in Nat
      OBVIOUS
    <3> QED BY <3>1, <3>2
  <2> QED BY <2>1
<1>2. q + 1 <= r
  BY <1>1
<1>3. p * (q + 1) <= p * r
  BY <1>2
<1> QED BY <1>3

\* A code longer than all the others may as well be as long as the longest of them
LEMMA Shortened ==
  ASSUME Limit \in Nat, NEW S, IsFiniteSet(S), NEW f, \A x \in S : f[x] \in Nat,
         NEW len, Feasible(len, S), NEW n \in S, NEW b \in Levels, b <= len[n],
         \A x \in S : x # n => len[x] <= b,
         NEW u, u = [y \in S |-> IF y = n THEN b ELSE len[y]]
  PROVE  Feasible(u, S) /\ Weight(f, u, S) <= Weight(f, len, S)
<1> DEFINE R == S \ {n}
           P == [y \in S |-> Pow(len[y])]
           Q == [y \in S |-> Pow(u[y])]
           V == [y \in S |-> f[y] * len[y]]
           W == [y \in S |-> f[y] * u[y]]
<1>1. u[n] = b /\ \A y \in S : y # n => u[y] = len[y]
  OBVIOUS
<1>2. \A y \in S : len[y] \in Levels /\ u[y] \in Levels
  BY <1>1 DEF Feasible
<1>3. Levels \subseteq Nat /\ (\A x \in Levels : Pow(x) \in Nat /\ Pow(x) >= 1) /\ 0 \in Levels /\ n \in S
  BY LevelsIs
<1>4. SumOn(P, S) <= Pow(0) /\ Weight(f, len, S) = SumOn(V, S) /\ Weight(f, u, S) = SumOn(W, S)
      /\ Sum([y \in S |-> Pow(u[y])]) = SumOn(Q, S)
  BY DEF Feasible, SumOn, Weight
<1>5. IsFiniteSet(R) /\ R \subseteq S
  BY FS_Subset
<1>6. /\ \A y \in S : P[y] = Pow(len[y]) /\ Q[y] = Pow(u[y])
      /\ \A y \in S : V[y] = f[y] * len[y] /\ W[y] = f[y] * u[y]
  OBVIOUS
<1> HIDE DEF P, Q, V, W
<1>7. \A y \in S : P[y] \in Int /\ Q[y] \in Int /\ V[y] \in Int /\ W[y] \in Int /\ W[y] <= V[y]
  <2> TAKE y \in S
  <2>1. len[y] \in Nat /\ u[y] \in Nat /\ f[y] \in Nat /\ Pow(len[y]) \in Nat /\ Pow(u[y]) \in Nat
    BY <1>2, <1>3
  <2>2. u[y] <= len[y]
    <3>1. CASE y = n
      BY <1>1, <3>1
    <3>2. CASE y # n
      BY <1>1, <2>1, <3>2
    <3> QED BY <3>1, <3>2
  <2> DEFINE c == f[y]
             i == u[y]
             j == len[y]
  <2>3. c * i \in Int /\ c * j \in Int /\ c * i <= c * j
    <3>1. c \in Nat /\ i \in Nat /\ j \in Nat /\ i <= j
      BY <2>1, <2>2
    <3> HIDE DEF c, i, j
    <3> QED BY <3>1
  <2> QED BY <1>6, <2>1, <2>3
<1>8. IntOn(P, S) /\ IntOn(Q, S) /\ IntOn(V, S) /\ IntOn(W, S) /\ IntOn(P, R)
  BY <1>5, <1>7 DEF IntOn
<1>9. SumOn(W, S) <= SumOn(V, S)
  BY <1>7, <1>8, SumOnLeq
<1>10. SumOn(P, S) = P[n] + SumOn(P, R) /\ SumOn(Q, S) = Q[n] + SumOn(Q, R)
  BY <1>3, <1>8, SumOnRemove
<1>11. SumOn(Q, R) = SumOn(P, R)
  <2>1. \A y \in R : Q[y] = P[y]
    BY <1>1, <1>6
  <2> HIDE DEF R
  <2> QED BY <2>1, SumOnSame
<1> DEFINE p == Pow(b)
           D == [y \in S |-> Pow2(b - len[y])]
<1>12. \A y \in R : D[y] \in Nat /\ P[y] = p * D[y]
  <2> TAKE y \in R
  <2>1. len[y] \in Nat /\ len[y] <= b /\ b \in Nat /\ b <= Limit /\ y \in S
    BY <1>2, <1>3 DEF Levels
  <2> DEFINE i == Limit - b
             j == b - len[y]
  <2>2. i \in Nat /\ j \in Nat /\ i + j = Limit - len[y]
    BY <2>1
  <2>3. Pow2(i + j) = Pow2(i) * Pow2(j) /\ Pow2(j) \in Nat
    BY <2>2, Pow2Sum, Pow2Positive
  <2>4. Pow(len[y]) = Pow2(i + j) /\ p = Pow2(i)
    BY <2>2 DEF Pow, Limit
  <2>5. D[y] = Pow2(j)
    BY <2>1
  <2> HIDE DEF i, j, D, p
  <2> QED BY <1>6, <2>1, <2>3, <2>4, <2>5
<1>13. Pow(0) = p * Pow2(b) /\ Pow2(b) \in Nat
  <2>1. b \in Nat /\ b <= Limit
    BY <1>3 DEF Levels
  <2> DEFINE i == Limit - b
  <2>2. i \in Nat /\ i + b = Limit - 0
    BY <2>1
  <2>3. Pow2(i + b) = Pow2(i) * Pow2(b) /\ Pow2(b) \in Nat
    BY <2>1, <2>2, Pow2Sum, Pow2Positive
  <2>4. Pow(0) = Pow2(i + b) /\ p = Pow2(i)
    BY <2>2 DEF Pow, Limit
  <2> HIDE DEF i, p
  <2> QED BY <2>3, <2>4
<1>14. SumOn(P, R) = p * SumOn(D, R) /\ SumOn(D, R) \in Nat
  <2>1. \A y \in R : D[y] \in Nat /\ D[y] \in Int
    BY <1>12
  <2>2. p \in Int
    BY <1>3
  <2> HIDE DEF D, R, p
  <2>3. IntOn(D, R)
    BY <2>1 DEF IntOn
  <2>4. \A y \in R : P[y] = p * D[y]
    BY <1>12
  <2> QED BY <1>5, <2>1, <2>2, <2>3, <2>4, SumOnScale, SumOnNat
<1>15. p \in Nat /\ P[n] \in Nat /\ P[n] >= 1 /\ Q[n] = p
  <2>1. n \in S /\ len[n] \in Levels
    BY <1>2
  <2>2. Pow(len[n]) \in Nat /\ Pow(len[n]) >= 1 /\ Pow(b) \in Nat
    BY <1>3, <2>1
  <2>3. P[n] = Pow(len[n]) /\ Q[n] = Pow(b)
    BY <1>1, <1>6
  <2> QED BY <2>2, <2>3
<1>16. SumOn(Q, S) <= Pow(0)
  <2> DEFINE q == SumOn(D, R)
             r == Pow2(b)
             e == P[n]
  <2>1. p * q + e <= p * r
    <3> DEFINE z == p * q
    <3>1. SumOn(P, S) = e + z /\ z \in Int /\ SumOn(P, S) <= p * r
      <4>1. p \in Int /\ q \in Int
        BY <1>14, <1>15
      <4>2. z \in Int
        <5> HIDE DEF p, q
        <5> QED BY <4>1
      <4> QED BY <1>4, <1>10, <1>13, <1>14, <4>2
    <3>2. e \in Int
      BY <1>15
    <3>3. e + z = z + e
      <4> HIDE DEF z, e
      <4> QED BY <3>1, <3>2
    <3> QED BY <3>1, <3>3
  <2>2. p \in Nat /\ q \in Nat /\ r \in Nat /\ e \in Nat /\ e >= 1
    BY <1>13, <1>14, <1>15
  <2>3. p * q + p <= p * r
    <3> HIDE DEF p, q, r, e
    <3> QED BY <2>1, <2>2, RoundUp
  <2>4. SumOn(Q, S) = p + p * q
    BY <1>10, <1>11, <1>14, <1>15
  <2>5. p + p * q = p * q + p
    <3> HIDE DEF p, q
    <3> QED BY <2>2
  <2> QED BY <1>13, <2>3, <2>4, <2>5
<1> QED BY <1>2, <1>4, <1>9, <1>16 DEF Feasible

\* The two least of a set of nodes
TwoLeast(f, S, n, m) ==
  /\ n \in S /\ m \in S /\ n # m
  /\ \A x \in S : f[x] \in Nat /\ f[n] <= f[x] /\ (x # n => f[m] <= f[x])

\* They may as well be the deepest, next to each other
LEMMA DeepestTwo ==
  ASSUME Limit \in Nat, NEW S, IsFiniteSet(S), NEW f, NEW n, NEW m, TwoLeast(f, S, n, m),
         NEW len, Feasible(len, S)
  PROVE  \E u : Feasible(u, S) /\ Weight(f, u, S) <= Weight(f, len, S) /\ u[n] = u[m]
<1>1. n \in S /\ m \in S /\ n # m /\ (\A x \in S : f[x] \in Nat) /\ \A x \in S : f[n] <= f[x]
  BY DEF TwoLeast
<1>2. \A x \in S : x # n => f[m] <= f[x]
  BY DEF TwoLeast
<1>3. \A x \in S : len[x] \in Levels
  BY DEF Feasible
<1>4. Levels \subseteq Nat
  BY LevelsIs
<1>w. \A l : Feasible(l, S) => Weight(f, l, S) \in Int
  <2> TAKE l
  <2> HAVE Feasible(l, S)
  <2> DEFINE V == [y \in S |-> f[y] * l[y]]
  <2>1. \A y \in S : V[y] \in Int
    <3> TAKE y \in S
    <3>1. f[y] \in Nat /\ l[y] \in Nat
      BY <1>1, <1>4 DEF Feasible
    <3> QED BY <3>1
  <2>2. Weight(f, l, S) = SumOn(V, S)
    BY DEF Weight, SumOn
  <2> HIDE DEF V
  <2>3. IntOn(V, S)
    BY <2>1 DEF IntOn
  <2> QED BY <2>2, <2>3, SumOnInt
<1>5. PICK x \in S : \A y \in S : len[y] <= len[x]
  BY <1>1, <1>3, Deepest
<1> DEFINE a == Swap(len, S, n, x)
<1>6. Feasible(a, S) /\ Weight(f, a, S) <= Weight(f, len, S)
  BY <1>1, <1>5, Swapped
<1>7. \A y \in S : a[y] <= a[n]
  <2>1. \A y \in S : a[y] = len[x] \/ a[y] = len[n] \/ a[y] = len[y]
    BY DEF Swap
  <2>2. a[n] = len[x]
    BY <1>1 DEF Swap
  <2> HIDE DEF a
  <2> QED BY <1>1, <1>3, <1>4, <1>5, <2>1, <2>2
<1> HIDE DEF a
<1> DEFINE R == S \ {n}
<1>8. R # {} /\ m \in R /\ \A y \in R : a[y] \in Levels
  BY <1>1, <1>6 DEF Feasible
<1>9. PICK z \in R : \A y \in R : a[y] <= a[z]
  <2> HIDE DEF R
  <2> QED BY <1>8, Deepest
<1> DEFINE b == Swap(a, S, m, z)
<1>10. Feasible(b, S) /\ Weight(f, b, S) <= Weight(f, a, S)
  <2>1. z \in S /\ z # n /\ f[m] <= f[z] /\ a[m] <= a[z]
    BY <1>2, <1>8, <1>9
  <2> QED BY <1>1, <1>6, <2>1, Swapped
<1>11. (\A y \in R : b[y] <= b[m]) /\ b[m] <= b[n] /\ b[m] \in Levels /\ b[n] \in Levels
  <2>1. \A y \in R : b[y] = a[z] \/ b[y] = a[m] \/ b[y] = a[y]
    BY DEF Swap
  <2>2. b[m] = a[z] /\ b[n] = a[n]
    BY <1>1, <1>9 DEF Swap
  <2>3. \A y \in S : a[y] \in Levels
    BY <1>6 DEF Feasible
  <2> HIDE DEF b
  <2> QED BY <1>1, <1>4, <1>7, <1>8, <1>9, <2>1, <2>2, <2>3
<1> HIDE DEF b
<1> DEFINE c == [y \in S |-> IF y = n THEN b[m] ELSE b[y]]
<1>12. Feasible(c, S) /\ Weight(f, c, S) <= Weight(f, b, S)
  <2>1. \A y \in S : y # n => b[y] <= b[m]
    BY <1>11
  <2> DEFINE l == b[m]
  <2>2. l \in Levels /\ l <= b[n] /\ \A y \in S : y # n => b[y] <= l
    BY <1>11, <2>1
  <2>3. c = [y \in S |-> IF y = n THEN l ELSE b[y]]
    OBVIOUS
  <2> HIDE DEF l, c
  <2> QED BY <1>1, <1>10, <2>2, <2>3, Shortened
<1>13. c[n] = c[m]
  BY <1>1
<1> HIDE DEF c
<1>14. Weight(f, c, S) <= Weight(f, len, S)
  <2>1. Weight(f, c, S) \in Int /\ Weight(f, b, S) \in Int /\ Weight(f, a, S) \in Int /\ Weight(f, len, S) \in Int
    BY <1>w, <1>6, <1>10, <1>12
  <2> QED BY <1>6, <1>10, <1>12, <2>1
<1> QED BY <1>12, <1>13, <1>14

\* What the node k that joins the two least makes of the set
Joined(S, n, m, k) == (S \ {n, m}) \cup {k}

\* The two least may become one node: lengths for the rest cost no more once the node has
\* cost its count.  It is the step that makes the merge loop greedy and right (trees.go:446-471)
LEMMA MergeBack ==
  ASSUME Limit \in Nat, NEW S, IsFiniteSet(S), NEW f, NEW n, NEW m, TwoLeast(f, S, n, m),
         NEW len, Feasible(len, S), NEW k, k \notin S,
         NEW g, g[k] = f[n] + f[m], \A x \in S : g[x] = f[x]
  PROVE  \E l : Feasible(l, Joined(S, n, m, k)) /\ Weight(g, l, Joined(S, n, m, k)) + g[k] <= Weight(f, len, S)
<1>1. n \in S /\ m \in S /\ n # m /\ \A x \in S : f[x] \in Nat
  BY DEF TwoLeast
<1>2. PICK u : Feasible(u, S) /\ Weight(f, u, S) <= Weight(f, len, S) /\ u[n] = u[m]
  BY DeepestTwo
<1>3. (\A x \in S : u[x] \in Levels) /\ Levels \subseteq Nat
      /\ (\A b \in Levels : Pow(b) \in Nat /\ Pow(b) >= 1) /\ 0 \in Levels
  BY <1>2, LevelsIs DEF Feasible
<1> DEFINE R == S \ {n, m}
           b == u[n]
           p == Pow(b)
           P == [y \in S |-> Pow(u[y])]
           V == [y \in S |-> f[y] * u[y]]
<1>4. SumOn(P, S) <= Pow(0) /\ Weight(f, u, S) = SumOn(V, S)
  BY <1>2 DEF Feasible, SumOn, Weight
<1>5. \A y \in S : P[y] \in Nat /\ V[y] \in Nat /\ P[y] = Pow(u[y]) /\ V[y] = f[y] * u[y]
  <2> TAKE y \in S
  <2>1. u[y] \in Levels /\ u[y] \in Nat /\ f[y] \in Nat /\ Pow(u[y]) \in Nat
    BY <1>1, <1>3
  <2>2. f[y] * u[y] \in Nat
    BY <2>1
  <2>3. P[y] = Pow(u[y]) /\ V[y] = f[y] * u[y]
    OBVIOUS
  <2> HIDE DEF P, V
  <2> QED BY <2>1, <2>2, <2>3
<1> HIDE DEF P, V
<1>6. /\ IsFiniteSet(R) /\ R \subseteq S /\ IsFiniteSet(S \ {n}) /\ m \in S \ {n} /\ (S \ {n}) \ {m} = R
  BY <1>1, FS_Subset
<1>7. ASSUME NEW h, \A y \in S : h[y] \in Nat
      PROVE  SumOn(h, S) = h[n] + (h[m] + SumOn(h, R)) /\ SumOn(h, R) \in Nat
  <2>1. IntOn(h, S) /\ IntOn(h, S \ {n})
    BY <1>7 DEF IntOn
  <2>2. SumOn(h, S) = h[n] + SumOn(h, S \ {n})
    BY <1>1, <2>1, SumOnRemove
  <2>3. SumOn(h, S \ {n}) = h[m] + SumOn(h, (S \ {n}) \ {m})
    <3> DEFINE T == S \ {n}
    <3>1. IsFiniteSet(T) /\ m \in T /\ IntOn(h, T)
      BY <1>6, <2>1
    <3> HIDE DEF T
    <3>2. SumOn(h, T) = h[m] + SumOn(h, T \ {m})
      BY <3>1, SumOnRemove
    <3> QED BY <3>2 DEF T
  <2>4. SumOn(h, R) \in Nat
    <3>1. \A y \in R : h[y] \in Nat
      BY <1>7
    <3> HIDE DEF R
    <3> QED BY <1>6, <3>1, SumOnNat
  <2> QED BY <1>6, <2>2, <2>3, <2>4
<1>8. SumOn(P, S) = p + (p + SumOn(P, R)) /\ SumOn(P, R) \in Nat
  <2>1. P[n] = p /\ P[m] = p
    BY <1>1, <1>2, <1>5
  <2> QED BY <1>5, <1>7, <2>1
<1>9. SumOn(V, S) = f[n] * b + (f[m] * b + SumOn(V, R)) /\ SumOn(V, R) \in Nat
  <2>1. V[n] = f[n] * b /\ V[m] = f[m] * b
    BY <1>1, <1>2, <1>5
  <2> QED BY <1>5, <1>7, <2>1
<1>10. b \in Levels /\ b \in Nat /\ b <= Limit /\ p \in Nat /\ p >= 1
  BY <1>1, <1>3 DEF Levels
<1>11. b >= 1
  <2>1. CASE b = 0
    <3>1. p = Pow(0)
      BY <2>1
    <3> DEFINE q == SumOn(P, R)
    <3>2. p + (p + q) <= p /\ q \in Nat
      BY <1>4, <1>8, <3>1
    <3> HIDE DEF p, q
    <3> QED BY <1>10, <3>2
  <2> QED BY <1>10, <2>1
<1> DEFINE c == b - 1
<1>12. c \in Nat /\ c \in Levels /\ b = c + 1 /\ Pow(c) = 2 * p
  <2>1. c \in Nat /\ c < Limit /\ c + 1 = b /\ c \in Levels
    BY <1>10, <1>11 DEF Levels
  <2>2. Pow2(Limit - c) = 2 * Pow2(Limit - (c + 1))
    <3> HIDE DEF c
    <3> QED BY <2>1, Pow2Half
  <2> QED BY <2>1, <2>2 DEF Pow, Limit
<1> DEFINE G == Joined(S, n, m, k)
           l == [y \in G |-> IF y = k THEN c ELSE u[y]]
           Q == [y \in G |-> Pow(l[y])]
           W == [y \in G |-> g[y] * l[y]]
<1>13. G = R \cup {k} /\ k \notin R
  BY DEF Joined
<1>14. l[k] = c /\ (\A y \in R : l[y] = u[y]) /\ \A y \in G : l[y] \in Levels
  <2>1. l[k] = c /\ \A y \in R : l[y] = u[y]
    BY <1>13
  <2>2. \A y \in R : u[y] \in Levels
    BY <1>3, <1>6
  <2> HIDE DEF l, G, R, c
  <2>3. \A y \in G : y \in R \/ y = k
    BY <1>13
  <2> QED BY <1>12, <2>1, <2>2, <2>3
<1>15. /\ Q[k] = 2 * p /\ \A y \in R : Q[y] = P[y]
  <2>1. k \in G /\ \A y \in R : y \in G /\ y \in S
    BY <1>6, <1>13
  <2> HIDE DEF l, G, R, c
  <2>2. Q[k] = Pow(l[k]) /\ \A y \in R : Q[y] = Pow(l[y])
    BY <2>1
  <2> HIDE DEF Q, p
  <2> QED BY <1>5, <1>12, <1>14, <2>1, <2>2
<1>16. W[k] = g[k] * c /\ \A y \in R : W[y] = V[y]
  <2>1. k \in G /\ \A y \in R : y \in G /\ y \in S
    BY <1>6, <1>13
  <2> HIDE DEF l, G, R, c
  <2>2. W[k] = g[k] * l[k] /\ \A y \in R : W[y] = g[y] * l[y]
    BY <2>1
  <2>3. \A y \in R : g[y] = f[y] /\ V[y] = f[y] * u[y]
    BY <1>5, <2>1
  <2> HIDE DEF W
  <2>4. W[k] = g[k] * c
    BY <1>14, <2>2
  <2>5. \A y \in R : W[y] = V[y]
    BY <1>14, <2>2, <2>3
  <2> QED BY <2>4, <2>5
<1>17. Sum([y \in G |-> Pow(l[y])]) = SumOn(Q, G) /\ Weight(g, l, G) = SumOn(W, G)
  BY DEF SumOn, Weight
<1> HIDE DEF Q, W, l, G
<1>18. g[k] \in Nat /\ g[k] * c \in Nat /\ g[k] = f[n] + f[m]
  <2>1. f[n] \in Nat /\ f[m] \in Nat /\ g[k] = f[n] + f[m]
    BY <1>1
  <2> DEFINE w == g[k]
  <2>2. w \in Nat
    BY <2>1
  <2> HIDE DEF w, c
  <2>3. w * c \in Nat
    BY <1>12, <2>2
  <2> QED BY <2>1, <2>2, <2>3 DEF w
<1>19. ASSUME NEW h, NEW e, h[k] \in Nat, \A y \in S : e[y] \in Nat, \A y \in R : h[y] = e[y]
       PROVE  SumOn(h, G) = h[k] + SumOn(e, R)
  <2>1. \A y \in R : h[y] \in Nat
    BY <1>6, <1>19
  <2>2. IntOn(h, R \cup {k})
    BY <1>19, <2>1 DEF IntOn
  <2> HIDE DEF R
  <2>3. SumOn(h, R \cup {k}) = h[k] + SumOn(h, R)
    BY <1>6, <1>13, <2>2, SumOnAdd
  <2>4. SumOn(h, R) = SumOn(e, R)
    BY <1>19, SumOnSame
  <2> QED BY <1>13, <2>3, <2>4
<1>20. SumOn(Q, G) = 2 * p + SumOn(P, R)
  <2>1. Q[k] \in Nat
    BY <1>10, <1>15
  <2>2. SumOn(Q, G) = Q[k] + SumOn(P, R)
    BY <1>5, <1>15, <1>19, <2>1
  <2> QED BY <1>15, <2>2
<1>21. SumOn(W, G) = g[k] * c + SumOn(V, R)
  <2>1. W[k] \in Nat
    BY <1>16, <1>18
  <2>2. SumOn(W, G) = W[k] + SumOn(V, R)
    BY <1>5, <1>16, <1>19, <2>1
  <2> QED BY <1>16, <2>2
<1>22. Feasible(l, G)
  <2> DEFINE q == SumOn(P, R)
  <2>1. 2 * p + q = p + (p + q)
    <3>1. q \in Nat /\ p \in Nat
      BY <1>8, <1>10
    <3> HIDE DEF p, q
    <3> QED BY <3>1
  <2>2. SumOn(Q, G) <= Pow(0)
    BY <1>4, <1>8, <1>20, <2>1
  <2> QED BY <1>14, <1>17, <2>2 DEF Feasible
<1>23. Weight(g, l, G) + g[k] = Weight(f, u, S)
  <2> DEFINE x == f[n]
             y == f[m]
             q == SumOn(V, R)
             w == g[k]
  <2>1. x \in Nat /\ y \in Nat /\ q \in Nat /\ w = x + y
    BY <1>1, <1>9, <1>18
  <2>2. (w * c + q) + w = x * b + (y * b + q)
    <3>1. w * c + w = x * b + y * b
      <4>1. w * c + w = w * (c + 1)
        <5>1. w \in Nat /\ c \in Nat
          BY <1>12, <1>18
        <5> HIDE DEF w, c
        <5> QED BY <5>1
      <4>2. w * (c + 1) = (x + y) * b
        BY <1>12, <2>1
      <4>3. (x + y) * b = x * b + y * b
        <5> HIDE DEF x, y, b
        <5> QED BY <1>10, <2>1
      <4> QED BY <4>1, <4>2, <4>3
    <3> DEFINE i == w * c
               j == x * b
               h == y * b
    <3>2. i \in Nat /\ j \in Nat /\ h \in Nat /\ w \in Nat
      <4>1. w \in Nat /\ i \in Nat
        BY <1>18
      <4>2. j \in Nat /\ h \in Nat
        <5> HIDE DEF x, y, b
        <5> QED BY <1>10, <2>1
      <4> QED BY <4>1, <4>2
    <3>3. i + w = j + h /\ q \in Nat
      BY <2>1, <3>1
    <3>4. (i + q) + w = j + (h + q)
      <4> HIDE DEF i, j, h, w, q
      <4> QED BY <3>2, <3>3
    <3> QED BY <3>4
  <2> QED BY <1>4, <1>9, <1>17, <1>21, <2>2
<1>24. Weight(g, l, G) + g[k] <= Weight(f, len, S)
  BY <1>2, <1>23
<1> QED BY <1>22, <1>24 DEF G

-----------------------------------------------------------------------------
(* The merge loop keeps the cheapest lengths within reach                  *)

\* Whatever lengths the leaves may be given, the nodes still in the heap may be given
\* lengths that cost no more once each node made has cost its count
Cheapest(tr) ==
  \A len : Feasible(len, InTree(tr)) =>
    \E l : /\ Feasible(l, ToSet(tr.heap))
           /\ Weight(tr.fc, l, ToSet(tr.heap)) + SumOn(tr.fc, InnerNodes(tr))
                <= Weight(tr.fc, len, InTree(tr))

\* Lengths cost a number of bits
LEMMA FitsWeight ==
  ASSUME Limit \in Nat, NEW S, IsFiniteSet(S), NEW f, \A x \in S : f[x] \in Nat,
         NEW len, Feasible(len, S)
  PROVE  Weight(f, len, S) \in Nat
<1> DEFINE V == [y \in S |-> f[y] * len[y]]
<1>1. \A y \in S : V[y] \in Nat
  <2> TAKE y \in S
  <2>1. len[y] \in Levels /\ Levels \subseteq Nat
    BY LevelsIs DEF Feasible
  <2>2. f[y] \in Nat /\ len[y] \in Nat
    BY <2>1
  <2> QED BY <2>2
<1>2. Weight(f, len, S) = SumOn(V, S)
  BY DEF Weight, SumOn
<1> HIDE DEF V
<1> QED BY <1>1, <1>2, SumOnNat

\* The nodes of the heap and of the tree
LEMMA HeapIs ==
  ASSUME Elems \in Nat, NEW tr, Merging(tr)
  PROVE  /\ IsFiniteSet(ToSet(tr.heap)) /\ ToSet(tr.heap) \subseteq Nodes
         /\ IsFiniteSet(InTree(tr)) /\ InTree(tr) \subseteq Leaves /\ Leaves \subseteq Nodes
         /\ \A x \in Nodes : tr.fc[x] \in Nat
<1>1. tr.heap \in Seq(Nodes) /\ Distinct(tr.heap) /\ tr.fc \in [Nodes -> Nat]
  BY DEF Merging, TreeRec
<1>2. IsFiniteSet(ToSet(tr.heap))
  BY <1>1, DistinctCard
<1>3. ToSet(tr.heap) \subseteq Nodes
  BY <1>1 DEF ToSet
<1>4. IsFiniteSet(InTree(tr)) /\ InTree(tr) \subseteq Leaves
  BY TurnsIs
<1>5. Leaves \subseteq Nodes
  BY DEF Leaves, Nodes
<1> QED BY <1>1, <1>2, <1>3, <1>4, <1>5

\* Before the first turn nothing has been lost (trees.go:439-442)
LEMMA CheapestStarts ==
  ASSUME Elems \in Nat, Limit \in Nat, NEW tr, Merging(tr), Turns(tr) = 0
  PROVE  Cheapest(tr)
<1>1. ToSet(tr.heap) = InTree(tr)
  <2>1. ToSet(tr.heap) \cup ToSet(tr.sorted) = InTree(tr) \cup (Elems .. Elems + Turns(tr) - 1)
        /\ tr.sorted \in Seq(Nodes) /\ Len(tr.sorted) = 2 * Turns(tr)
    BY DEF Merging, TreeRec
  <2>2. Elems .. Elems + Turns(tr) - 1 = {}
    OBVIOUS
  <2>3. ToSet(tr.sorted) = {}
    <3>1. Len(tr.sorted) = 0
      BY <2>1
    <3>2. DOMAIN tr.sorted = 1 .. 0
      BY <2>1, <3>1
    <3> QED BY <3>2 DEF ToSet
  <2> QED BY <2>1, <2>2, <2>3
<1>2. InnerNodes(tr) = {}
  <2>1. Elems .. Elems + (0 - 1) = {}
    OBVIOUS
  <2> QED BY <2>1 DEF InnerNodes
<1>3. SumOn(tr.fc, {}) = 0
  BY SumOnEmpty
<1> SUFFICES ASSUME NEW len, Feasible(len, InTree(tr))
             PROVE  Weight(tr.fc, len, InTree(tr)) + 0 <= Weight(tr.fc, len, InTree(tr))
  BY <1>1, <1>2, <1>3 DEF Cheapest
<1>4. IsFiniteSet(InTree(tr)) /\ \A x \in InTree(tr) : tr.fc[x] \in Nat
  BY HeapIs
<1> DEFINE U == InTree(tr)
           f == tr.fc
           w == Weight(f, len, U)
<1>5. IsFiniteSet(U) /\ (\A x \in U : f[x] \in Nat) /\ Feasible(len, U)
  BY <1>4
<1>6. w \in Nat
  <2> HIDE DEF U, f
  <2> QED BY <1>5, FitsWeight
<1>7. w + 0 <= w
  <2> HIDE DEF w
  <2> QED BY <1>6
<1> QED BY <1>7

\* A turn of the merge loop loses nothing (trees.go:446-471)
LEMMA CheapestKept ==
  ASSUME Elems \in Nat, Limit \in Nat, NEW tr, Merging(tr), Len(tr.heap) >= 2, Cheapest(tr),
         NEW u, NEW n, NEW m, NEW g, Turned(tr, u, n, m, g)
  PROVE  Cheapest(u)
<1> DEFINE k == Elems + Turns(tr)
           H == ToSet(tr.heap)
           U == InTree(tr)
           f == tr.fc
           e == u.fc
           I == InnerNodes(tr)
<1>1. /\ k \in Nodes /\ k \notin H /\ e[k] = f[n] + f[m] /\ (\A x \in Nodes : x # k => e[x] = f[x])
      /\ Turns(u) = Turns(tr) + 1 /\ u.heap = g /\ InTree(u) = U
  BY TurnedIs
<1>2. /\ IsFiniteSet(H) /\ H \subseteq Nodes /\ IsFiniteSet(U) /\ U \subseteq Leaves /\ Leaves \subseteq Nodes
      /\ \A x \in Nodes : f[x] \in Nat
  BY HeapIs
<1>3. Turns(tr) \in Nat
  BY TurnsIs
<1>4. ToSet(u.heap) = Joined(H, n, m, k)
  BY <1>1 DEF Turned, Joined
<1>5. TwoLeast(f, H, n, m)
  <2>1. n \in H /\ m \in H /\ n # m /\ \A x \in H : Smaller(tr, n, x) /\ (x # n => Smaller(tr, m, x))
    BY DEF Turned
  <2>2. ASSUME NEW a \in H, NEW b \in H, Smaller(tr, a, b) PROVE f[a] <= f[b]
    <3>1. f[a] \in Nat /\ f[b] \in Nat
      BY <1>2
    <3> QED BY <2>2, <3>1 DEF Smaller
  <2>3. \A x \in H : f[x] \in Nat /\ f[n] <= f[x] /\ (x # n => f[m] <= f[x])
    <3> HIDE DEF H, f
    <3> QED BY <1>2, <2>1, <2>2
  <2> QED BY <2>1, <2>3 DEF TwoLeast
<1>6. k \notin Leaves /\ k \notin I /\ InnerNodes(u) = I \cup {k}
  <2>1. k \in Int /\ Elems \in Int /\ Elems <= k
    BY <1>3
  <2>2. I = Elems .. k - 1
    <3>1. Elems + (Turns(tr) - 1) = k - 1
      BY <1>3
    <3> QED BY <3>1 DEF InnerNodes
  <2>3. InnerNodes(u) = Elems .. k
    <3>1. Elems + ((Turns(tr) + 1) - 1) = k
      BY <1>3
    <3> QED BY <1>1, <3>1 DEF InnerNodes
  <2>4. k \notin Leaves
    BY <1>3 DEF Leaves
  <2> HIDE DEF k, I
  <2>5. k \notin Elems .. k - 1 /\ Elems .. k = (Elems .. k - 1) \cup {k}
    BY <2>1
  <2> QED BY <2>2, <2>3, <2>4, <2>5
<1>7. SumOn(e, InnerNodes(u)) = e[k] + SumOn(f, I) /\ SumOn(f, I) \in Int /\ e[k] \in Int
  <2>1. I \subseteq Nodes
    <3>1. Turns(tr) < Elems
      BY TurnsIs
    <3>2. Elems .. Elems + (Turns(tr) - 1) \subseteq 0 .. 2 * Elems - 1
      BY <1>3, <3>1
    <3> QED BY <3>2 DEF InnerNodes, Nodes
  <2>2. IsFiniteSet(I)
    <3>1. Elems \in Int /\ Elems + (Turns(tr) - 1) \in Int
      BY <1>3
    <3> QED BY <3>1, FS_Interval DEF InnerNodes
  <2>3. \A x \in I : e[x] = f[x] /\ f[x] \in Int
    BY <1>1, <1>2, <1>6, <2>1
  <2>4. e[k] \in Int
    BY <1>1, <1>2, <1>5 DEF TwoLeast
  <2> HIDE DEF I, k, e, f
  <2>5. IntOn(e, I \cup {k}) /\ IntOn(f, I)
    BY <2>3, <2>4 DEF IntOn
  <2>6. SumOn(e, I \cup {k}) = e[k] + SumOn(e, I)
    BY <1>6, <2>2, <2>5, SumOnAdd
  <2>7. SumOn(e, I) = SumOn(f, I)
    BY <2>3, SumOnSame
  <2>8. SumOn(f, I) \in Int
    BY <2>2, <2>5, SumOnInt
  <2> QED BY <1>6, <2>4, <2>6, <2>7, <2>8
<1>8. ASSUME NEW len, Feasible(len, U)
      PROVE  \E l : /\ Feasible(l, ToSet(u.heap))
                    /\ Weight(e, l, ToSet(u.heap)) + SumOn(e, InnerNodes(u)) <= Weight(e, len, U)
  <2>1. Weight(e, len, U) = Weight(f, len, U)
    <3>1. \A x \in U : e[x] = f[x]
      BY <1>1, <1>2, <1>6
    <3> HIDE DEF U, e, f
    <3>2. [x \in U |-> e[x] * len[x]] = [x \in U |-> f[x] * len[x]]
      BY <3>1
    <3> QED BY <3>2 DEF Weight
  <2>2. PICK l : Feasible(l, H) /\ Weight(f, l, H) + SumOn(f, I) <= Weight(f, len, U)
    BY <1>8 DEF Cheapest
  <2>3. \A x \in H : e[x] = f[x]
    BY <1>1, <1>2
  <2> DEFINE J == Joined(H, n, m, k)
  <2>4. PICK r : Feasible(r, J) /\ Weight(e, r, J) + e[k] <= Weight(f, l, H)
    <3> HIDE DEF H, k, f, e
    <3> QED BY <1>1, <1>2, <1>5, <2>2, <2>3, MergeBack
  <2>5. Weight(f, l, H) \in Nat
    <3>1. \A x \in H : f[x] \in Nat
      BY <1>2
    <3> HIDE DEF H, f
    <3> QED BY <1>2, <2>2, <3>1, FitsWeight
  <2>6. Weight(e, r, J) \in Nat
    <3>1. IsFiniteSet(J)
      <4>1. IsFiniteSet(H \ {n, m})
        BY <1>2, FS_Subset
      <4> HIDE DEF H, k
      <4> QED BY <4>1, FS_AddElement DEF Joined
    <3>2. \A x \in J : e[x] \in Nat
      <4>1. \A x \in H : e[x] \in Nat
        BY <1>2, <2>3
      <4>2. e[k] \in Nat
        <5>1. f[n] \in Nat /\ f[m] \in Nat
          BY <1>5 DEF TwoLeast
        <5> QED BY <1>1, <5>1
      <4> HIDE DEF H, k, e
      <4> QED BY <4>1, <4>2 DEF Joined
    <3> HIDE DEF J, e
    <3> QED BY <2>4, <3>1, <3>2, FitsWeight
  <2>7. Weight(f, len, U) \in Nat
    <3>1. \A x \in U : f[x] \in Nat
      BY <1>2
    <3> HIDE DEF U, f
    <3> QED BY <1>2, <1>8, <3>1, FitsWeight
  <2> DEFINE w1 == Weight(e, r, J)
             w2 == Weight(f, l, H)
             w3 == Weight(f, len, U)
             s  == SumOn(f, I)
             c  == e[k]
  <2>8. w1 + (c + s) <= w3
    <3>1. w1 + c <= w2 /\ w2 + s <= w3 /\ w1 \in Int /\ w2 \in Int /\ w3 \in Int /\ s \in Int /\ c \in Int
      BY <1>7, <2>2, <2>4, <2>5, <2>6, <2>7
    <3> HIDE DEF w1, w2, w3, s, c
    <3> QED BY <3>1
  <2>9. Weight(e, r, J) + SumOn(e, InnerNodes(u)) <= Weight(e, len, U)
    BY <1>7, <2>1, <2>8
  <2> QED BY <1>4, <2>4, <2>9
<1> QED BY <1>1, <1>8 DEF Cheapest

\* Lengths no code of which was cut: every node lies one below its parent
LEMMA UncutBelow ==
  ASSUME Elems \in Nat, Limit \in Nat, Limit >= 1, NEW tr, Whole(tr),
         NEW x, CutSoFar(x, tr, Len(tr.sorted)), x.overflow = 0
  PROVE  \A i \in 2 .. Len(tr.sorted) : x.dl[tr.sorted[i]] = x.dl[tr.dl[tr.sorted[i]]] + 1
<1> DEFINE N == Len(tr.sorted)
           w == tr.sorted
           f == Overs(x.dl, tr)
<1>1. N \in Nat
  <2>1. Turns(tr) \in Nat /\ N = 2 * Turns(tr) + 1
    BY DEF Whole
  <2> HIDE DEF N
  <2> QED BY <2>1
<1>2. \A i \in 2 .. N : f[i] \in Nat /\ f[i] = IF x.dl[tr.dl[w[i]]] + 1 > Limit THEN 1 ELSE 0
  BY DEF Overs
<1>3. SumOn(f, 2 .. N) = 0
  BY DEF CutSoFar
<1>4. IsFiniteSet(2 .. N)
  BY <1>1, FS_Interval
<1> HIDE DEF f
<1>5. \A i \in 2 .. N : f[i] <= SumOn(f, 2 .. N)
  <2> DEFINE S == 2 .. N
  <2>1. IsFiniteSet(S) /\ \A i \in S : f[i] \in Nat
    BY <1>2, <1>4
  <2> HIDE DEF S
  <2>2. \A i \in S : f[i] <= SumOn(f, S)
    BY <2>1, SumOnOne
  <2> QED BY <2>2 DEF S
<1>6. ASSUME NEW i \in 2 .. N PROVE x.dl[w[i]] = x.dl[tr.dl[w[i]]] + 1
  <2>1. x.dl[w[i]] = IF x.dl[tr.dl[w[i]]] + 1 > Limit THEN Limit ELSE x.dl[tr.dl[w[i]]] + 1
    BY <1>6 DEF CutSoFar
  <2>2. f[i] = 0
    <3> HIDE DEF N
    <3>1. f[i] \in Nat /\ f[i] <= 0
      BY <1>2, <1>3, <1>5
    <3> QED BY <3>1
  <2>3. ~(x.dl[tr.dl[w[i]]] + 1 > Limit)
    BY <1>2, <2>2
  <2> QED BY <2>1, <2>3
<1> QED BY <1>6

\* What an uncut tree costs is the counts of its inner nodes
LEMMA TreeCosts ==
  ASSUME Elems \in Nat, Limit \in Nat, Limit >= 1, NEW tr, Whole(tr), Ranked(tr),
         NEW x, CutSoFar(x, tr, Len(tr.sorted)), x.overflow = 0
  PROVE  Weight(tr.fc, x.dl, InTree(tr)) = SumOn(tr.fc, InnerNodes(tr))
<1> DEFINE k == Turns(tr)
           w == tr.sorted
           N == Len(tr.sorted)
           I == InnerNodes(tr)
           U == InTree(tr)
           fc == tr.fc
           D == x.dl
           v == [n \in Nodes |-> fc[n] * D[n]]
           f == [i \in 1 .. N |-> v[w[i]]]
           e == [i \in 2 .. N |-> v[tr.dl[w[i]]]]
           z == [n \in I |-> v[n] + fc[n]]
<1>1. /\ k \in Nat /\ k >= 1 /\ N = 2 * k + 1 /\ w \in Seq(Nodes) /\ ToSet(w) = U \cup I
      /\ fc \in [Nodes -> Nat] /\ D \in [Nodes -> Nat]
  <2>1. x.dl \in [Nodes -> Nat]
    BY DEF CutSoFar
  <2>2. tr.fc \in [Nodes -> Nat] /\ tr.sorted \in Seq(Nodes)
    BY DEF Whole, TreeRec
  <2>3. Turns(tr) \in Nat /\ Turns(tr) >= 1 /\ Len(tr.sorted) = 2 * Turns(tr) + 1
        /\ ToSet(tr.sorted) = InTree(tr) \cup InnerNodes(tr)
    BY DEF Whole, InnerNodes
  <2> QED BY <2>1, <2>2, <2>3
<1>2. \A i \in 1 .. N : w[i] \in Nodes /\ w[i] \in ToSet(w)
  <2> HIDE DEF w
  <2>1. w \in Seq(Nodes) /\ N = Len(w)
    BY <1>1 DEF w
  <2> HIDE DEF N
  <2>2. DOMAIN w = 1 .. N
    BY <2>1
  <2>3. \A i \in 1 .. N : w[i] \in Nodes
    BY <2>1
  <2> QED BY <2>2, <2>3 DEF ToSet
<1>3. ToSet(w) \subseteq Nodes
  <2> HIDE DEF w
  <2> QED BY <1>1 DEF ToSet
<1>4. \A i \in 2 .. 2 * k + 1 : tr.dl[w[i]] = Elems + k - (i \div 2)
  BY DEF Whole
<1>5. \A j \in 1 .. k : fc[Elems + k - j] = fc[w[2 * j]] + fc[w[2 * j + 1]]
  BY DEF Ranked
<1>6. \A i \in 2 .. N : D[w[i]] = D[tr.dl[w[i]]] + 1
  BY UncutBelow
<1>7. D[w[1]] = 0
  BY DEF CutSoFar
<1>8. \A n \in Nodes : fc[n] \in Nat /\ D[n] \in Nat /\ v[n] \in Int /\ v[n] = fc[n] * D[n]
  <2> TAKE n \in Nodes
  <2>1. fc[n] \in Nat /\ D[n] \in Nat
    BY <1>1
  <2>2. fc[n] * D[n] \in Int
    <3> DEFINE a == fc[n]
               b == D[n]
    <3> HIDE DEF a, b
    <3>1. a \in Nat /\ b \in Nat
      BY <2>1 DEF a, b
    <3>2. a * b \in Int
      BY <3>1
    <3> QED BY <3>2 DEF a, b
  <2>3. v[n] = fc[n] * D[n]
    OBVIOUS
  <2> HIDE DEF v
  <2> QED BY <2>1, <2>2, <2>3
<1> HIDE DEF v
<1>9. SumOn(f, 1 .. N) = SumOn(v, U) + SumOn(v, I)
  <2>1. IntOn(v, ToSet(w))
    BY <1>3, <1>8 DEF IntOn
  <2>2. \A i \in 1 .. N : f[i] = v[w[i]]
    OBVIOUS
  <2>3. \A i \in 2 .. N : e[i] = v[tr.dl[w[i]]]
    OBVIOUS
  <2> HIDE DEF f, e
  <2> QED BY <2>1, <2>2, <2>3, SumsOverTree
<1>10. \A i \in 1 .. N : f[i] \in Int /\ f[i] = v[w[i]]
  BY <1>2, <1>8
<1>11. I \subseteq Nodes /\ IsFiniteSet(I) /\ I = Elems .. Elems + (k - 1)
  <2>1. I \subseteq Nodes
    <3> HIDE DEF I, U, w
    <3> QED BY <1>1, <1>3
  <2>2. Elems \in Int /\ Elems + (k - 1) \in Int
    BY <1>1
  <2>3. I = Elems .. Elems + (k - 1)
    BY DEF InnerNodes
  <2> HIDE DEF I, k
  <2>4. IsFiniteSet(I)
    BY <2>2, <2>3, FS_Interval
  <2> QED BY <2>1, <2>3, <2>4
<1> HIDE DEF f
<1>12. ASSUME NEW j \in 1 .. k
       PROVE  /\ f[2 * j] \in Int /\ f[2 * j + 1] \in Int
              /\ f[2 * j] + f[2 * j + 1] = z[Elems + k - j]
  <2> DEFINE q == Elems + k - j
             a == w[2 * j]
             b == w[2 * j + 1]
  <2>1. 2 * j \in 2 .. N /\ 2 * j + 1 \in 2 .. N /\ 2 * j \in 1 .. N /\ 2 * j + 1 \in 1 .. N
        /\ (2 * j) \div 2 = j /\ (2 * j + 1) \div 2 = j
    <3> HIDE DEF k, N
    <3> QED BY <1>1
  <2>2. q \in I
    <3> HIDE DEF I, k
    <3> QED BY <1>1, <1>11
  <2>3. tr.dl[a] = q /\ tr.dl[b] = q
    <3>1. tr.dl[a] = Elems + k - ((2 * j) \div 2) /\ tr.dl[b] = Elems + k - ((2 * j + 1) \div 2)
      BY <1>1, <1>4, <2>1
    <3> QED BY <2>1, <3>1
  <2>4. a \in Nodes /\ b \in Nodes /\ q \in Nodes
    BY <1>2, <1>11, <2>1, <2>2
  <2>5. D[a] = D[q] + 1 /\ D[b] = D[q] + 1
    BY <1>6, <2>1, <2>3
  <2>6. f[2 * j] = fc[a] * D[a] /\ f[2 * j + 1] = fc[b] * D[b]
    BY <1>8, <1>10, <2>1, <2>4
  <2>7. fc[q] = fc[a] + fc[b]
    BY <1>5
  <2>8. z[q] = fc[q] * D[q] + fc[q]
    BY <1>8, <2>2, <2>4
  <2> DEFINE c == fc[a]
             d == fc[b]
             h == D[q]
  <2>9. c \in Nat /\ d \in Nat /\ h \in Nat
    BY <1>8, <2>4
  <2>10. c * (h + 1) + d * (h + 1) = (c + d) * h + (c + d)
    <3> HIDE DEF c, d, h
    <3> QED BY <2>9
  <2>11. f[2 * j] + f[2 * j + 1] = z[q]
    BY <2>5, <2>6, <2>7, <2>8, <2>10
  <2>12. f[2 * j] \in Int /\ f[2 * j + 1] \in Int
    BY <1>10, <2>1
  <2> QED BY <2>11, <2>12
<1>13. \A n \in I : z[n] = v[n] + fc[n] /\ v[n] \in Int /\ fc[n] \in Int /\ z[n] \in Int
  <2> TAKE n \in I
  <2>1. z[n] = v[n] + fc[n]
    OBVIOUS
  <2>2. v[n] \in Int /\ fc[n] \in Int
    BY <1>8, <1>11
  <2> HIDE DEF z
  <2> QED BY <2>1, <2>2
<1> HIDE DEF z
<1>14. SumOn(f, 2 .. N) = SumOn(z, I)
  <2>1. IntOn(z, Elems .. Elems + (k - 1))
    BY <1>11, <1>13 DEF IntOn
  <2> HIDE DEF k, I, N
  <2>2. SumOn(f, 2 .. 2 * k + 1) = SumOn(z, Elems .. Elems + (k - 1))
    BY <1>1, <1>12, <2>1, PairSums
  <2> QED BY <1>1, <1>11, <2>2
<1>15. SumOn(z, I) = SumOn(v, I) + SumOn(fc, I) /\ SumOn(v, I) \in Int /\ SumOn(fc, I) \in Int
  <2>1. IntOn(v, I) /\ IntOn(fc, I) /\ \A n \in I : z[n] = v[n] + fc[n]
    BY <1>13 DEF IntOn
  <2> HIDE DEF I, fc
  <2> QED BY <1>11, <2>1, SumOnPlus, SumOnInt, ZenonT(60)
<1>16. SumOn(f, 1 .. N) = 0 + SumOn(f, 2 .. N)
  <2> DEFINE S == 1 .. N
  <2>1. 1 \in S /\ S \ {1} = 2 .. N /\ IsFiniteSet(S)
    <3>1. N \in Nat /\ N >= 1 /\ 1 \in Int /\ N \in Int
      <4> HIDE DEF N, k
      <4> QED BY <1>1
    <3> HIDE DEF N
    <3>2. IsFiniteSet(1 .. N)
      BY <3>1, FS_Interval
    <3>3. 1 \in 1 .. N /\ (1 .. N) \ {1} = 2 .. N
      BY <3>1
    <3> QED BY <3>2, <3>3
  <2>2. f[1] = 0
    <3>1. w[1] \in Nodes
      BY <1>2, <2>1
    <3>2. f[1] = fc[w[1]] * 0 /\ fc[w[1]] \in Nat
      BY <1>7, <1>8, <1>10, <2>1, <3>1
    <3> QED BY <3>2
  <2>3. IntOn(f, S)
    BY <1>10 DEF IntOn
  <2> HIDE DEF S
  <2>4. SumOn(f, S) = f[1] + SumOn(f, S \ {1})
    BY <2>1, <2>3, SumOnRemove
  <2> QED BY <2>1, <2>2, <2>4 DEF S
<1>17. U \subseteq Nodes /\ IsFiniteSet(U)
  <2>1. U \subseteq Leaves /\ Leaves \subseteq Nodes
    BY DEF InTree, Leaves, Nodes
  <2>2. IsFiniteSet(Leaves)
    <3>1. 0 \in Int /\ Elems - 1 \in Int
      OBVIOUS
    <3> QED BY <3>1, FS_Interval DEF Leaves
  <2> QED BY <2>1, <2>2, FS_Subset
<1>18. Weight(fc, D, U) = SumOn(v, U) /\ SumOn(v, U) \in Int
  <2>1. \A n \in U : v[n] = fc[n] * D[n] /\ v[n] \in Int
    BY <1>8, <1>17
  <2> HIDE DEF U, fc, D
  <2>2. [n \in U |-> fc[n] * D[n]] = [n \in U |-> v[n]]
    BY <2>1
  <2>3. IntOn(v, U)
    BY <2>1 DEF IntOn
  <2>4. SumOn(v, U) \in Int
    BY <1>17, <2>3, SumOnInt
  <2> QED BY <2>2, <2>4 DEF Weight, SumOn
<1> DEFINE a == SumOn(v, U)
           b == SumOn(v, I)
           c == SumOn(fc, I)
<1>19. a = c
  <2>1. a + b = 0 + (b + c) /\ a \in Int /\ b \in Int /\ c \in Int
    BY <1>9, <1>14, <1>15, <1>16, <1>18
  <2> HIDE DEF a, b, c
  <2> QED BY <2>1
<1> QED BY <1>18, <1>19

-----------------------------------------------------------------------------
(* The lengths GenBitlen hands out                                         *)

\* No inner node reaches the limit, so that nothing was cut: the premise of Optimal
Uncut(tr) ==
  \A i \in 2 .. Len(tr.sorted) : tr.dl[tr.sorted[i]] < Limit \/ tr.sorted[i] \in Leaves
\* What Optimal says of the finished lengths
Cheap(tr) ==
  /\ \A m, n \in InTree(tr) : tr.fc[m] > tr.fc[n] => tr.dl[m] <= tr.dl[n]
  /\ Uncut(tr) => \A len : Feasible(len, InTree(tr)) =>
                    Weight(tr.fc, tr.dl, InTree(tr)) <= Weight(tr.fc, len, InTree(tr))

\* Without an inner node at the limit no code was cut
LEMMA UncutIs ==
  ASSUME Elems \in Nat, Limit \in Nat, Limit >= 1, NEW tr, Whole(tr),
         NEW x, CutSoFar(x, tr, Len(tr.sorted)),
         \A i \in 2 .. Len(tr.sorted) : x.dl[tr.sorted[i]] < Limit \/ tr.sorted[i] \in Leaves
  PROVE  x.overflow = 0
<1> DEFINE N == Len(tr.sorted)
           w == tr.sorted
           f == Overs(x.dl, tr)
           k == Turns(tr)
<1>1. k \in Nat /\ N = 2 * k + 1 /\ w \in Seq(Nodes)
  BY DEF Whole, TreeRec
<1>2. N \in Nat
  <2> HIDE DEF N, k
  <2> QED BY <1>1
<1>3. x.dl \in [Nodes -> Nat] /\ x.dl[w[1]] = 0
  BY DEF CutSoFar
<1>4. ASSUME NEW i \in 2 .. N PROVE f[i] = 0
  <2>1. PICK j \in 1 .. i - 1 : w[j] = tr.dl[w[i]]
    BY ParentBefore
  <2>2. x.dl[w[j]] + 1 <= Limit
    <3>1. CASE j = 1
      BY <1>3, <3>1
    <3>2. CASE j # 1
      <4>1. j \in 2 .. N /\ j \in 1 .. N
        <5> HIDE DEF N
        <5> QED BY <1>2, <3>2
      <4>2. w[j] \notin Leaves
        <5>1. w[j] = Elems + k - (i \div 2)
          <6>1. i \in 2 .. 2 * k + 1
            BY <1>1
          <6> QED BY <2>1, <6>1 DEF Whole
        <5>2. Elems + k - (i \div 2) >= Elems
          <6>1. i \in 2 .. 2 * k + 1
            BY <1>1
          <6> HIDE DEF k
          <6> QED BY <1>1, <6>1
        <5>3. \A y \in Leaves : y < Elems
          BY DEF Leaves
        <5>4. Elems + k - (i \div 2) \in Int
          <6> HIDE DEF k, N
          <6> QED BY <1>1, <1>2
        <5> QED BY <5>1, <5>2, <5>3, <5>4
      <4>3. x.dl[w[j]] < Limit
        BY <4>1, <4>2
      <4>4. w[j] \in Nodes
        <5> HIDE DEF w, N
        <5>1. w \in Seq(Nodes) /\ j \in 1 .. Len(w)
          BY <1>1, <4>1 DEF w, N
        <5> QED BY <5>1
      <4>5. x.dl[w[j]] \in Nat
        BY <1>3, <4>4
      <4> QED BY <4>3, <4>5
    <3> QED BY <3>1, <3>2
  <2>3. f[i] = IF x.dl[tr.dl[w[i]]] + 1 > Limit THEN 1 ELSE 0
    BY DEF Overs
  <2>4. x.dl[w[j]] \in Nat
    <3>1. j \in 1 .. N
      <4> HIDE DEF N
      <4> QED BY <1>2
    <3>2. w[j] \in Nodes
      <4> HIDE DEF w, N
      <4>1. w \in Seq(Nodes) /\ j \in 1 .. Len(w)
        BY <1>1, <3>1 DEF w, N
      <4> QED BY <4>1
    <3> QED BY <1>3, <3>2
  <2> DEFINE d == x.dl[w[j]]
  <2>5. f[i] = (IF d + 1 > Limit THEN 1 ELSE 0) /\ d \in Nat /\ d + 1 <= Limit
    BY <2>1, <2>2, <2>3, <2>4
  <2> HIDE DEF d, f
  <2> QED BY <2>5
<1>5. IsFiniteSet(2 .. N)
  <2> HIDE DEF N
  <2>1. 2 \in Int /\ N \in Int
    BY <1>2
  <2> QED BY <2>1, FS_Interval
<1>6. SumOn(f, 2 .. N) = 0
  <2> HIDE DEF f, N
  <2> QED BY <1>4, <1>5, SumOnZero
<1> QED BY <1>6 DEF CutSoFar

\* A complete code fits
LEMMA LengthsFit ==
  ASSUME Elems \in Nat, Limit \in Nat, NEW D, NEW U, U \subseteq Leaves, Lengths(D, U)
  PROVE  Feasible(D, U)
<1>1. D \in [Nodes -> Nat] /\ (\A n \in U : D[n] \in 1 .. Limit) /\ SumOn(Shares(D), U) = Pow(0)
  BY DEF Lengths
<1>2. \A n \in U : D[n] \in Levels
  <2>1. 1 .. Limit \subseteq Levels
    BY DEF Levels
  <2> QED BY <1>1, <2>1
<1>3. U \subseteq Nodes
  BY DEF Leaves, Nodes
<1>4. \A n \in U : Shares(D)[n] = Pow(D[n])
  BY <1>1, <1>3 DEF Shares
<1>5. [n \in U |-> Pow(D[n])] = [n \in U |-> Shares(D)[n]]
  BY <1>4
<1>6. Sum([n \in U |-> Pow(D[n])]) = Pow(0)
  BY <1>1, <1>5 DEF SumOn
<1>7. Pow(0) \in Nat
  BY LevelsIs
<1> QED BY <1>2, <1>6, <1>7 DEF Feasible

\* genBitlen's lengths: the cheapest of all when none was cut, and a more frequent symbol
\* never has the longer code (trees.go:299-375)
LEMMA BestCodes ==
  ASSUME name \in Names, Merging(t), Queue(t), Cheapest(t), Len(t.heap) = 1,
         NEW D, Lengths(D, InTree(t)), NEW x, FromCut(D, WithRoot(t), x)
  PROVE  /\ x.overflow = 0 => \A len : Feasible(len, InTree(t)) =>
                                Weight(t.fc, D, InTree(t)) <= Weight(t.fc, len, InTree(t))
         /\ \A m, n \in InTree(t) : t.fc[m] > t.fc[n] => D[m] <= D[n]
<1> DEFINE tr == WithRoot(t)
           U == InTree(t)
           fc == t.fc
           I == InnerNodes(t)
<1>1. Elems \in Nat /\ Limit \in Nat /\ Limit >= 1
  BY DescIs
<1>2. Whole(tr) /\ Ranked(tr) /\ InTree(tr) = U
  BY <1>1, WholeIs
<1>3. /\ IsFiniteSet(U) /\ U \subseteq Leaves /\ Leaves \subseteq Nodes /\ \A n \in Nodes : fc[n] \in Nat
  BY <1>1, HeapIs
<1>4. tr.fc = fc /\ InnerNodes(tr) = I
  <2>1. t \in TreeRec /\ Len(t.heap) >= 1 /\ Len(t.sorted) = 2 * Turns(t) /\ Turns(t) \in Nat
    BY <1>1, TurnsIs DEF Merging
  <2>2. tr.fc = fc /\ Len(tr.sorted) = Len(t.sorted) + 1
    BY <2>1, WithRootIs
  <2>3. Turns(tr) = Turns(t)
    <3> DEFINE a == Turns(t)
    <3>1. a \in Nat /\ Len(tr.sorted) = 2 * a + 1
      BY <2>1, <2>2
    <3> HIDE DEF a, tr
    <3>2. (2 * a + 1) \div 2 = a
      BY <3>1
    <3> QED BY <3>1, <3>2 DEF Turns, a
  <2> QED BY <2>2, <2>3 DEF InnerNodes
<1>5. CutSoFar(x, tr, Len(tr.sorted)) /\ (x.overflow = 0 => \A n \in U : D[n] = x.dl[n])
      /\ (x.overflow # 0 => \A m, n \in U : fc[m] > fc[n] => D[m] <= D[n])
  BY <1>2, <1>4 DEF FromCut
<1>6. \A n \in U : fc[n] \in Nat
  BY <1>3
<1>7. Feasible(D, U)
  BY <1>1, <1>3, LengthsFit
<1>8. ASSUME x.overflow = 0, NEW len, Feasible(len, U)
      PROVE  Weight(fc, D, U) <= Weight(fc, len, U)
  <2>1. PICK l : Feasible(l, ToSet(t.heap)) /\ Weight(fc, l, ToSet(t.heap)) + SumOn(fc, I) <= Weight(fc, len, U)
    BY <1>8 DEF Cheapest
  <2>2. Weight(fc, l, ToSet(t.heap)) \in Nat
    <3> DEFINE H == ToSet(t.heap)
    <3>1. IsFiniteSet(H) /\ \A y \in H : fc[y] \in Nat
      BY <1>1, HeapIs
    <3> HIDE DEF H, fc
    <3>2. Weight(fc, l, H) \in Nat
      BY <1>1, <2>1, <3>1, FitsWeight DEF H
    <3> QED BY <3>2 DEF H
  <2>3. Weight(fc, D, U) = SumOn(fc, I)
    <3>1. Weight(tr.fc, x.dl, InTree(tr)) = SumOn(tr.fc, InnerNodes(tr))
      <4> HIDE DEF tr
      <4> QED BY <1>1, <1>2, <1>5, <1>8, TreeCosts
    <3>2. [n \in U |-> fc[n] * D[n]] = [n \in U |-> fc[n] * x.dl[n]]
      <4> HIDE DEF U, fc
      <4> QED BY <1>5, <1>8
    <3>3. Weight(fc, D, U) = Weight(fc, x.dl, U)
      BY <3>2 DEF Weight
    <3> QED BY <1>2, <1>4, <3>1, <3>3
  <2>4. Weight(fc, D, U) \in Nat /\ Weight(fc, len, U) \in Nat
    <3> HIDE DEF U, fc
    <3> QED BY <1>1, <1>3, <1>6, <1>7, <1>8, FitsWeight
  <2> DEFINE a == Weight(fc, l, ToSet(t.heap))
             b == Weight(fc, D, U)
             c == Weight(fc, len, U)
  <2>5. a \in Nat /\ b \in Nat /\ c \in Nat /\ a + b <= c
    BY <2>1, <2>2, <2>3, <2>4
  <2>6. b <= c
    <3> HIDE DEF a, b, c
    <3> QED BY <2>5
  <2> QED BY <2>6
<1>9. ASSUME NEW m \in U, NEW n \in U, fc[m] > fc[n]
      PROVE  D[m] <= D[n]
  <2>1. CASE x.overflow # 0
    BY <1>5, <1>9, <2>1
  <2>2. CASE x.overflow = 0
    <3>1. D[m] \in Nat /\ D[n] \in Nat /\ fc[m] \in Nat /\ fc[n] \in Nat
      <4>1. \A y \in U : D[y] \in Levels
        BY <1>7 DEF Feasible
      <4>2. Levels \subseteq Nat
        BY <1>1, LevelsIs
      <4> QED BY <1>6, <4>1, <4>2
    <3>2. ASSUME D[m] > D[n] PROVE FALSE
      <4> DEFINE s == Swap(D, U, n, m)
      <4>1. fc[n] < fc[m] /\ D[n] < D[m] /\ fc[n] <= fc[m] /\ D[n] <= D[m]
        BY <1>9, <3>1, <3>2
      <4>2. Feasible(s, U) /\ Weight(fc, s, U) < Weight(fc, D, U)
        <5> HIDE DEF U, fc
        <5> QED BY <1>1, <1>3, <1>6, <1>7, <4>1, Swapped
      <4>3. Weight(fc, D, U) <= Weight(fc, s, U)
        BY <1>8, <2>2, <4>2
      <4>4. Weight(fc, D, U) \in Nat /\ Weight(fc, s, U) \in Nat
        <5> HIDE DEF U, fc, s
        <5> QED BY <1>1, <1>3, <1>6, <1>7, <4>2, FitsWeight
      <4> QED BY <4>2, <4>3, <4>4
    <3> QED BY <3>1, <3>2
  <2> QED BY <2>1, <2>2
<1> QED BY <1>8, <1>9
=============================================================================
