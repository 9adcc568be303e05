------------------------------ MODULE Lz77_proof ------------------------------
(***************************************************************************)
(* The window of the LZ77 engine, for any sizes, inputs and configurations *)
(* and any way to cut the input into calls: it always holds the stream, a  *)
(* call consumes all its input, every turn of the parse loops ends with    *)
(* less to do, and longestMatch reads initialised bytes only.  Then its    *)
(* hash chains: every walk of longestMatch goes strictly down through      *)
(* strings of one hash, which is the ground for not comparing the third    *)
(* byte of a candidate.                                                    *)
(***************************************************************************)
EXTENDS Lz77, WellFoundedInduction, TLAPS

-----------------------------------------------------------------------------
(* Induction along an interval                                             *)

Below == {pair \in Nat \X Nat : pair[1] < pair[2]}

LEMMA BelowWellFounded == IsWellFoundedOn(Below, Nat)
<1>1. Below = OpToRel(<, Nat)
  BY DEF Below, OpToRel
<1> QED BY <1>1, NatLessThanWellFounded

LEMMA LeastOf ==
  ASSUME NEW T, T \subseteq Nat, T # {}
  PROVE  \E x \in T : \A y \in T : x <= y
<1>1. PICK x \in T : \A y \in T : <<y, x>> \notin Below
  BY BelowWellFounded, WFMin
<1>2. ASSUME NEW y \in T PROVE x <= y
  <2>1. x \in Nat /\ y \in Nat
    OBVIOUS
  <2>2. <<y, x>> \notin Below
    BY <1>1
  <2>3. ~(y < x)
    BY <2>1, <2>2 DEF Below
  <2> QED BY <2>1, <2>3
<1> QED BY <1>2

LEMMA InductionUpTo ==
  ASSUME NEW X, NEW m \in Nat, 0 \in X, \A n \in 0 .. m - 1 : n \in X => n + 1 \in X
  PROVE  \A n \in 0 .. m : n \in X
<1> DEFINE T == {n \in 0 .. m : n \notin X}
<1> SUFFICES ASSUME T # {} PROVE FALSE
  OBVIOUS
<1>1. T \subseteq Nat
  OBVIOUS
<1>2. PICK x \in T : \A y \in T : x <= y
  BY <1>1, LeastOf
<1>3. x # 0 /\ x - 1 \in 0 .. m - 1 /\ x - 1 \in 0 .. m /\ (x - 1) + 1 = x
  OBVIOUS
<1>4. x - 1 \in X
  BY <1>2, <1>3
<1> QED BY <1>3, <1>4

-----------------------------------------------------------------------------
(* The fields an operator leaves alone                                     *)

StateFields == {"window", "prev", "head", "insH", "strstart", "blockStart", "lookahead", "insert",
                "matchLength", "prevLength", "matchAvailable", "matchStart", "prevMatch", "highWater",
                "syms", "status", "lastFlush", "out", "base"}

\* u has the fields of t, equal but for those in changed
Keeps(t, u, changed) == DOMAIN u = StateFields /\ \A f \in StateFields \ changed : u[f] = t[f]

LEMMA KeepsTrans ==
  ASSUME NEW t, NEW u, NEW v, NEW c, NEW d, Keeps(t, u, c), Keeps(u, v, d)
  PROVE  Keeps(t, v, c \cup d)
BY DEF Keeps

LEMMA KeepsMore ==
  ASSUME NEW t, NEW u, NEW c, NEW d, Keeps(t, u, c), c \subseteq d
  PROVE  Keeps(t, u, d)
BY DEF Keeps

Chains == {"prev", "head", "insH"}

LEMMA LinkKeeps ==
  ASSUME NEW t, DOMAIN t = StateFields, NEW h, NEW str
  PROVE  Keeps(t, Link(t, h, str), Chains)
BY DEF Link, Keeps, StateFields, Chains

LEMMA InsertStringKeeps ==
  ASSUME NEW t, DOMAIN t = StateFields, NEW str
  PROVE  Keeps(t, InsertString(t, str), Chains)
BY DEF InsertString, Link, Keeps, StateFields, Chains

LEMMA InsertedKeeps ==
  ASSUME NEW t, DOMAIN t = StateFields
  PROVE  Keeps(t, Inserted(t), Chains)
BY InsertStringKeeps DEF Inserted, Keeps

\* The run of insertions exists and satisfies its equation
LEMMA InsertRunIs ==
  ASSUME NEW t, NEW first \in Nat, NEW last \in Nat, first <= last
  PROVE  \E run : /\ InsertRun(t, first, last) = run[last] /\ run[first - 1] = t
                  /\ \A str \in first .. last :
                       run[str] = Link(run[str - 1], Hash3(t.window, str), str)
<1> DEFINE Eqn(f, m) == f = [str \in (first - 1) .. m |->
                               IF str < first THEN t ELSE Link(f[str - 1], Hash3(t.window, str), str)]
           X == {k \in Nat : \E f : Eqn(f, (first - 1) + k)}
           n == last - first + 1
<1>1. 0 \in X
  <2>1. Eqn([str \in (first - 1) .. first - 1 |-> t], (first - 1) + 0)
    OBVIOUS
  <2> QED BY <2>1
<1>2. ASSUME NEW k \in Nat, k \in X PROVE k + 1 \in X
  <2>1. PICK f : Eqn(f, (first - 1) + k)
    BY <1>2
  <2> DEFINE m == (first - 1) + k
             x == Link(f[m], Hash3(t.window, m + 1), m + 1)
             g == [str \in (first - 1) .. m + 1 |-> IF str = m + 1 THEN x ELSE f[str]]
  <2>2. m \in Int /\ m + 1 = (first - 1) + (k + 1) /\ first - 1 <= m /\ first - 1 \in Int
    OBVIOUS
  <2>3. f = [str \in (first - 1) .. m |->
               IF str < first THEN t ELSE Link(f[str - 1], Hash3(t.window, str), str)]
    BY <2>1
  <2> HIDE DEF m, x
  <2>4. ASSUME NEW str \in (first - 1) .. m + 1
        PROVE  g[str] = IF str < first THEN t ELSE Link(g[str - 1], Hash3(t.window, str), str)
    <3>1. CASE str = m + 1
      <4>1. ~(str < first) /\ str - 1 = m /\ m \in (first - 1) .. m + 1 /\ m # m + 1
        BY <2>2, <3>1
      <4>2. g[str] = x /\ g[str - 1] = f[m]
        BY <3>1, <4>1
      <4> QED BY <3>1, <4>1, <4>2 DEF x
    <3>2. CASE str # m + 1
      <4>1. str \in (first - 1) .. m
        BY <2>2, <3>2
      <4>2. g[str] = f[str]
        BY <3>2
      <4>3. ~(str < first) => g[str - 1] = f[str - 1]
        BY <2>2, <4>1
      <4> QED BY <2>3, <4>1, <4>2, <4>3
    <3> QED BY <3>1, <3>2
  <2>5. Eqn(g, m + 1)
    BY <2>4
  <2> HIDE DEF g
  <2>6. Eqn(g, (first - 1) + (k + 1))
    BY <2>2, <2>5
  <2>7. k + 1 \in Nat /\ \E e : Eqn(e, (first - 1) + (k + 1))
    BY <2>6
  <2> QED BY <2>7
<1>3. \E f : Eqn(f, last)
  <2>1. n \in Nat /\ (first - 1) + n = last
    OBVIOUS
  <2>2. \A k \in 0 .. n - 1 : k \in X => k + 1 \in X
    BY <1>2
  <2> HIDE DEF X
  <2>3. n \in X
    BY <1>1, <2>1, <2>2, InductionUpTo
  <2> QED BY <2>1, <2>3 DEF X
<1> DEFINE run == CHOOSE f : Eqn(f, last)
<1>4. Eqn(run, last)
  BY <1>3
<1>5. InsertRun(t, first, last) = IF last < first THEN t ELSE run[last]
  BY DEF InsertRun
<1>6. run = [str \in (first - 1) .. last |->
               IF str < first THEN t ELSE Link(run[str - 1], Hash3(t.window, str), str)]
  BY <1>4
<1> HIDE DEF run
<1>7. InsertRun(t, first, last) = run[last]
  BY <1>5
<1>8. run[first - 1] = t
  BY <1>6
<1>9. \A str \in first .. last : run[str] = Link(run[str - 1], Hash3(t.window, str), str)
  BY <1>6
<1> QED BY <1>7, <1>8, <1>9

LEMMA InsertRunKeeps ==
  ASSUME NEW t, DOMAIN t = StateFields, NEW first \in Nat, NEW last \in Int
  PROVE  Keeps(t, InsertRun(t, first, last), Chains)
<1>1. CASE last < first
  BY <1>1 DEF InsertRun, Keeps
<1>2. CASE ~(last < first)
  <2>1. last \in Nat /\ first <= last
    BY <1>2
  <2>2. PICK run : /\ InsertRun(t, first, last) = run[last] /\ run[first - 1] = t
                   /\ \A str \in first .. last :
                        run[str] = Link(run[str - 1], Hash3(t.window, str), str)
    BY <2>1, InsertRunIs
  <2> DEFINE X == {k \in Nat : Keeps(t, run[(first - 1) + k], Chains)}
             m == last - first + 1
  <2>3. 0 \in X
    <3>1. (first - 1) + 0 = first - 1
      OBVIOUS
    <3>2. Keeps(t, t, Chains)
      BY DEF Keeps
    <3> QED BY <2>2, <3>1, <3>2
  <2>4. ASSUME NEW k \in 0 .. m - 1, k \in X PROVE k + 1 \in X
    <3> DEFINE str == first + k
    <3>1. /\ str \in first .. last /\ str - 1 = (first - 1) + k /\ str = (first - 1) + (k + 1)
          /\ k + 1 \in Nat
      BY <2>1
    <3> HIDE DEF str
    <3>2. run[str] = Link(run[str - 1], Hash3(t.window, str), str)
      BY <2>2, <3>1
    <3>3. Keeps(t, run[str - 1], Chains)
      BY <2>4, <3>1
    <3>4. Keeps(run[str - 1], run[str], Chains)
      BY <3>2, <3>3, LinkKeeps DEF Keeps
    <3>5. Keeps(t, run[str], Chains)
      BY <3>3, <3>4, KeepsTrans DEF Keeps
    <3> QED BY <3>1, <3>5
  <2>5. m \in Nat /\ (first - 1) + m = last
    BY <2>1
  <2> HIDE DEF X, m
  <2>6. m \in X
    BY <2>3, <2>4, <2>5, InductionUpTo
  <2>7. Keeps(t, run[last], Chains)
    BY <2>5, <2>6 DEF X
  <2> QED BY <2>2, <2>7
<1> QED BY <1>1, <1>2

\* The rolling hash is restarted and the strings that wait are inserted
Rehashed(t, run, first, count) ==
  /\ first = t.strstart - t.insert
  /\ count = Min2(t.insert, t.lookahead + t.insert - MinMatch + 1)
  /\ count \in 0 .. t.insert /\ t.lookahead + t.insert >= MinMatch
  /\ run[0] = [t EXCEPT !.insH = UpdateHash(t.window[first], t.window[first + 1])]
  /\ \A k \in 1 .. count : run[k] = InsertString(run[k - 1], first + k - 1)
  /\ Rehash(t) = [run[count] EXCEPT !.insert = @ - count]

LEMMA RehashIs ==
  ASSUME NEW t, DOMAIN t = StateFields, t.insert \in 0 .. MinMatch - 1, t.lookahead \in Nat
  PROVE  \/ Rehash(t) = t /\ t.lookahead + t.insert < MinMatch
         \/ \E run, first, count : Rehashed(t, run, first, count)
<1> DEFINE first == t.strstart - t.insert
           count == Min2(t.insert, t.lookahead + t.insert - MinMatch + 1)
           start == [t EXCEPT !.insH = UpdateHash(t.window[first], t.window[first + 1])]
           Eqn(f, m) == f = [k \in 0 .. m |-> IF k = 0 THEN start ELSE InsertString(f[k - 1], first + k - 1)]
           run == CHOOSE f : Eqn(f, count)
<1>1. CASE t.lookahead + t.insert < MinMatch
  BY <1>1 DEF Rehash
<1>2. CASE ~(t.lookahead + t.insert < MinMatch)
  <2>1. Rehash(t) = [run[count] EXCEPT !.insert = @ - count]
    BY <1>2 DEF Rehash
  <2>2. count \in 0 .. t.insert /\ t.lookahead + t.insert >= MinMatch
    BY <1>2 DEF Min2, MinMatch
  <2> DEFINE X == {k \in Nat : \E f : Eqn(f, k)}
  <2> HIDE DEF first, start
  <2>3. 0 \in X
    <3>1. Eqn([k \in 0 .. 0 |-> start], 0)
      OBVIOUS
    <3> QED BY <3>1
  <2>4. ASSUME NEW k \in Nat, k \in X PROVE k + 1 \in X
    <3>1. PICK f : Eqn(f, k)
      BY <2>4
    <3> DEFINE x == InsertString(f[k], first + (k + 1) - 1)
               g == [j \in 0 .. k + 1 |-> IF j = k + 1 THEN x ELSE f[j]]
    <3>2. f = [j \in 0 .. k |-> IF j = 0 THEN start ELSE InsertString(f[j - 1], first + j - 1)]
      BY <3>1
    <3> HIDE DEF x
    <3>3. ASSUME NEW j \in 0 .. k + 1
          PROVE  g[j] = IF j = 0 THEN start ELSE InsertString(g[j - 1], first + j - 1)
      <4>1. CASE j = k + 1
        <5>1. j # 0 /\ j - 1 = k /\ k \in 0 .. k + 1 /\ k # k + 1
          BY <4>1
        <5>2. g[j] = x /\ g[j - 1] = f[k]
          BY <4>1, <5>1
        <5> QED BY <4>1, <5>1, <5>2 DEF x
      <4>2. CASE j # k + 1
        <5>1. j \in 0 .. k
          BY <4>2
        <5>2. g[j] = f[j] /\ (j # 0 => g[j - 1] = f[j - 1])
          BY <5>1
        <5> QED BY <3>2, <5>1, <5>2
      <4> QED BY <4>1, <4>2
    <3>4. Eqn(g, k + 1)
      BY <3>3
    <3> HIDE DEF g
    <3>5. k + 1 \in Nat /\ \E e : Eqn(e, k + 1)
      BY <3>4
    <3> QED BY <3>5
  <2>5. \E f : Eqn(f, count)
    <3>1. \A k \in 0 .. count - 1 : k \in X => k + 1 \in X
      BY <2>4
    <3>2. count \in Nat
      BY <2>2
    <3> HIDE DEF X, count
    <3>3. count \in X
      BY <2>3, <3>1, <3>2, InductionUpTo
    <3> QED BY <3>3 DEF X
  <2>6. Eqn(run, count)
    BY <2>5
  <2> HIDE DEF run, count
  <2>7. run[0] = start /\ \A k \in 1 .. count : run[k] = InsertString(run[k - 1], first + k - 1)
    BY <2>2, <2>6
  <2>8. Rehashed(t, run, first, count)
    BY <2>1, <2>2, <2>7 DEF start, first, count, Rehashed
  <2> QED BY <2>8
<1> QED BY <1>1, <1>2

-----------------------------------------------------------------------------
(* longestMatch                                                            *)

\* How many bytes agree, at least MinMatch: the first that differs, or all
LEMMA MatchLenIs ==
  ASSUME NEW t, NEW m
  PROVE  /\ MatchLen(t, m) \in MinMatch .. MaxMatch
         /\ \A j \in MinMatch .. MatchLen(t, m) - 1 : Same(t, t.strstart + j, m + j)
<1> DEFINE differ == {j \in MinMatch .. MaxMatch - 1 : ~Same(t, t.strstart + j, m + j)}
           least == CHOOSE j \in differ : \A k \in differ : j <= k
<1>1. MaxMatch \in Nat /\ MinMatch \in Nat /\ MinMatch < MaxMatch
  BY SizeAssumption DEF MinMatch
<1>2. MatchLen(t, m) = IF differ = {} THEN MaxMatch ELSE least
  BY DEF MatchLen
<1>3. CASE differ = {}
  <2>1. \A j \in MinMatch .. MaxMatch - 1 : Same(t, t.strstart + j, m + j)
    BY <1>3
  <2> QED BY <1>1, <1>2, <1>3, <2>1
<1>4. CASE differ # {}
  <2>1. differ \subseteq Nat
    BY <1>1
  <2>2. \E j \in differ : \A k \in differ : j <= k
    <3> HIDE DEF differ
    <3> QED BY <1>4, <2>1, LeastOf
  <2>3. least \in differ /\ \A k \in differ : least <= k
    BY <2>2
  <2> HIDE DEF least
  <2>4. least \in MinMatch .. MaxMatch - 1
    BY <2>3
  <2>5. ASSUME NEW j \in MinMatch .. least - 1 PROVE Same(t, t.strstart + j, m + j)
    <3>1. j \in MinMatch .. MaxMatch - 1 /\ ~(least <= j)
      BY <1>1, <2>4
    <3> QED BY <2>3, <3>1
  <2>6. MatchLen(t, m) = least
    BY <1>2, <1>4
  <2> QED BY <1>1, <2>4, <2>5, <2>6
<1> QED BY <1>3, <1>4

ScanLimit(t) == IF t.strstart > MaxDistance THEN t.strstart - MaxDistance ELSE 0
ChainLength(t) == IF t.prevLength >= cfg.goodLength THEN cfg.maxChain \div 4 ELSE cfg.maxChain

\* One candidate of the chain
Visit(t, w) ==
  LET quick  == \A j \in {0, 1, w.len - 1, w.len} : Same(t, t.strstart + j, w.next + j)
      len    == MatchLen(t, w.next)
      better == quick /\ len > w.len
      link   == t.prev[w.next % WSize]
  IN  IF ~w.live THEN w
      ELSE [len  |-> IF better THEN len ELSE w.len,
            at   |-> IF better THEN w.next ELSE w.at,
            next |-> link,
            live |-> link > ScanLimit(t) /\ ~(better /\ len >= Min2(cfg.niceLength, t.lookahead))]

WalkStart(t, hashHead) ==
  [len |-> t.prevLength, at |-> t.matchStart, next |-> hashHead, live |-> TRUE]

\* The chain walk of longestMatch and its end
Walked(t, hashHead, walk, chain) ==
  /\ chain \in Nat
  /\ walk[0] = WalkStart(t, hashHead)
  /\ \A k \in 1 .. chain : walk[k] = Visit(t, walk[k - 1])
  /\ LongestMatch(t, hashHead) = [t EXCEPT !.matchStart  = walk[chain].at,
                                           !.matchLength = Min2(walk[chain].len, t.lookahead)]

LEMMA LongestMatchIs ==
  ASSUME NEW t, NEW hashHead, cfg \in Configs
  PROVE  \E walk, chain : Walked(t, hashHead, walk, chain)
<1> DEFINE chain == ChainLength(t)
           start == WalkStart(t, hashHead)
           Eqn(f, m) == f = [k \in 0 .. m |-> IF k = 0 THEN start ELSE Visit(t, f[k - 1])]
           walk == CHOOSE f : Eqn(f, chain)
           X == {k \in Nat : \E f : Eqn(f, k)}
<1>1. chain \in Nat
  <2>1. cfg.maxChain \in Nat
    BY ConfigAssumption
  <2>2. cfg.maxChain \div 4 \in Nat
    BY <2>1
  <2> QED BY <2>1, <2>2 DEF ChainLength
<1>2. LongestMatch(t, hashHead) = [t EXCEPT !.matchStart  = walk[chain].at,
                                            !.matchLength = Min2(walk[chain].len, t.lookahead)]
  BY DEF LongestMatch, ChainLength, WalkStart, Visit, ScanLimit
<1> HIDE DEF start, chain
<1>3. 0 \in X
  <2>1. Eqn([k \in 0 .. 0 |-> start], 0)
    OBVIOUS
  <2> QED BY <2>1
<1>4. ASSUME NEW k \in Nat, k \in X PROVE k + 1 \in X
  <2>1. PICK f : Eqn(f, k)
    BY <1>4
  <2> DEFINE x == Visit(t, f[k])
             g == [j \in 0 .. k + 1 |-> IF j = k + 1 THEN x ELSE f[j]]
  <2>2. f = [j \in 0 .. k |-> IF j = 0 THEN start ELSE Visit(t, f[j - 1])]
    BY <2>1
  <2> HIDE DEF x
  <2>3. ASSUME NEW j \in 0 .. k + 1
        PROVE  g[j] = IF j = 0 THEN start ELSE Visit(t, g[j - 1])
    <3>1. CASE j = k + 1
      <4>1. j # 0 /\ j - 1 = k /\ k \in 0 .. k + 1 /\ k # k + 1
        BY <3>1
      <4>2. g[j] = x /\ g[j - 1] = f[k]
        BY <3>1, <4>1
      <4> QED BY <3>1, <4>1, <4>2 DEF x
    <3>2. CASE j # k + 1
      <4>1. j \in 0 .. k
        BY <3>2
      <4>2. g[j] = f[j] /\ (j # 0 => g[j - 1] = f[j - 1])
        BY <4>1
      <4> QED BY <2>2, <4>1, <4>2
    <3> QED BY <3>1, <3>2
  <2>4. Eqn(g, k + 1)
    BY <2>3
  <2> HIDE DEF g
  <2>5. k + 1 \in Nat /\ \E e : Eqn(e, k + 1)
    BY <2>4
  <2> QED BY <2>5
<1>5. \E f : Eqn(f, chain)
  <2>1. \A k \in 0 .. chain - 1 : k \in X => k + 1 \in X
    BY <1>4
  <2> HIDE DEF X
  <2>2. chain \in X
    BY <1>1, <1>3, <2>1, InductionUpTo
  <2> QED BY <2>2 DEF X
<1>6. Eqn(walk, chain)
  BY <1>5
<1> HIDE DEF walk
<1>7. walk[0] = start /\ \A k \in 1 .. chain : walk[k] = Visit(t, walk[k - 1])
  BY <1>1, <1>6
<1>8. Walked(t, hashHead, walk, chain)
  BY <1>1, <1>2, <1>7 DEF start, Walked
<1> QED BY <1>8

LEMMA VisitLength ==
  ASSUME NEW t, NEW w, w.len \in 0 .. MaxMatch
  PROVE  Visit(t, w).len \in 0 .. MaxMatch
<1> DEFINE len == MatchLen(t, w.next)
           better == (\A j \in {0, 1, w.len - 1, w.len} : Same(t, t.strstart + j, w.next + j)) /\ len > w.len
<1>1. len \in 0 .. MaxMatch
  BY MatchLenIs, SizeAssumption DEF MinMatch
<1>2. Visit(t, w).len = IF ~w.live THEN w.len ELSE IF better THEN len ELSE w.len
  BY DEF Visit
<1> HIDE DEF len, better
<1> QED BY <1>1, <1>2

\* Only the match changes, and it does not reach past the lookahead
LEMMA LongestMatchKeeps ==
  ASSUME NEW t, DOMAIN t = StateFields, NEW hashHead, cfg \in Configs,
         t.prevLength \in 0 .. MaxMatch, t.lookahead \in Nat
  PROVE  /\ Keeps(t, LongestMatch(t, hashHead), {"matchStart", "matchLength"})
         /\ LongestMatch(t, hashHead).matchLength \in 0 .. MaxMatch
         /\ LongestMatch(t, hashHead).matchLength <= t.lookahead
<1>0. PICK walk, chain : Walked(t, hashHead, walk, chain)
  BY LongestMatchIs
<1>1.
      /\ chain \in Nat
      /\ walk[0] = WalkStart(t, hashHead)
      /\ \A k \in 1 .. chain : walk[k] = Visit(t, walk[k - 1])
      /\ LongestMatch(t, hashHead) = [t EXCEPT !.matchStart  = walk[chain].at,
                                                    !.matchLength = Min2(walk[chain].len, t.lookahead)]
  BY <1>0 DEF Walked
<1> DEFINE X == {k \in Nat : walk[k].len \in 0 .. MaxMatch}
<1>2. 0 \in X
  BY <1>1 DEF WalkStart
<1>3. ASSUME NEW k \in 0 .. chain - 1, k \in X PROVE k + 1 \in X
  <2>1. k + 1 \in 1 .. chain /\ (k + 1) - 1 = k /\ k + 1 \in Nat
    BY <1>1
  <2>2. walk[k + 1] = Visit(t, walk[k])
    BY <1>1, <2>1
  <2>3. walk[k + 1].len \in 0 .. MaxMatch
    BY <1>3, <2>2, VisitLength
  <2> QED BY <2>1, <2>3
<1> HIDE DEF X
<1>4. chain \in X
  BY <1>1, <1>2, <1>3, InductionUpTo
<1>5. walk[chain].len \in 0 .. MaxMatch
  BY <1>4 DEF X
<1> DEFINE u == LongestMatch(t, hashHead)
<1>6. u.matchLength = Min2(walk[chain].len, t.lookahead)
  BY <1>1 DEF StateFields
<1>7. Keeps(t, u, {"matchStart", "matchLength"})
  BY <1>1 DEF Keeps, StateFields
<1> HIDE DEF u
<1>8. u.matchLength \in 0 .. MaxMatch /\ u.matchLength <= t.lookahead
  BY <1>5, <1>6, SizeAssumption DEF Min2
<1> QED BY <1>7, <1>8 DEF u

-----------------------------------------------------------------------------
(* fillWindow                                                              *)

Mirrors(t) == \A i \in 0 .. t.strstart + t.lookahead - 1 : t.window[i] = data[t.base + i + 1]

\* The window of t holds the stream up to the input position pos
Windowed(t, pos) ==
  /\ DOMAIN t = StateFields
  /\ t.window \in [0 .. WindowSize - 1 -> Byte]
  /\ t.strstart \in Nat /\ t.lookahead \in Nat /\ t.strstart + t.lookahead <= WindowSize
  /\ t.insert \in 0 .. MinMatch - 1 /\ t.insert <= t.strstart
  /\ t.highWater \in 0 .. WindowSize
  /\ t.base \in Nat /\ t.base + t.strstart + t.lookahead = pos
  /\ Mirrors(t)

LEMMA SizesAre ==
  /\ WSize \in Nat /\ MaxMatch \in Nat /\ MinMatch = 3 /\ 3 < MaxMatch
  /\ MinLookahead = MaxMatch + 4 /\ MaxDistance = WSize - MinLookahead
  /\ MaxDistance \in Nat /\ MaxDistance > 0 /\ WindowSize = WSize + WSize
BY SizeAssumption DEF MinMatch, MinLookahead, MaxDistance, WindowSize

\* The fields a Windowed state is about
LEMMA WindowedFrame ==
  ASSUME NEW t, NEW u, NEW pos, Windowed(t, pos),
         Keeps(t, u, StateFields \ {"window", "strstart", "lookahead", "insert", "highWater", "base"})
  PROVE  Windowed(u, pos)
<1>1. /\ u.window = t.window /\ u.strstart = t.strstart /\ u.lookahead = t.lookahead
      /\ u.insert = t.insert /\ u.highWater = t.highWater /\ u.base = t.base /\ DOMAIN u = StateFields
  BY DEF Keeps, StateFields
<1> QED BY <1>1 DEF Windowed, Mirrors

SlideSet == {"window", "matchStart", "strstart", "blockStart", "insert", "head", "prev", "base"}

LEMMA SlideKeeps ==
  ASSUME NEW t, DOMAIN t = StateFields
  PROVE  Keeps(t, Slide(t), SlideSet)
BY DEF Slide, Keeps, StateFields, SlideSet

LEMMA SlideWindowed ==
  ASSUME NEW t, NEW pos, Windowed(t, pos)
  PROVE  Windowed(Slide(t), pos) /\ Slide(t).lookahead = t.lookahead
         /\ Slide(t).strstart < WSize + MaxDistance
<1>1. CASE t.strstart < WSize + MaxDistance
  BY <1>1 DEF Slide
<1>2. CASE ~(t.strstart < WSize + MaxDistance)
  <2> DEFINE u == Slide(t)
             down == t.strstart - WSize
             kept == t.strstart + t.lookahead - WSize
  <2>1. /\ DOMAIN u = StateFields /\ u.strstart = down /\ u.lookahead = t.lookahead
        /\ u.insert = Min2(t.insert, down) /\ u.base = t.base + WSize /\ u.highWater = t.highWater
        /\ u.window = [i \in DOMAIN t.window |-> IF i < kept THEN t.window[i + WSize] ELSE t.window[i]]
    BY <1>2 DEF Windowed, Slide, StateFields
  <2> HIDE DEF u
  <2>2. /\ t.strstart \in Nat /\ t.lookahead \in Nat /\ t.strstart + t.lookahead <= WindowSize
        /\ t.window \in [0 .. WindowSize - 1 -> Byte] /\ t.base \in Nat
        /\ t.base + t.strstart + t.lookahead = pos /\ t.insert \in 0 .. MinMatch - 1
        /\ t.highWater \in 0 .. WindowSize
    BY DEF Windowed
  <2>3. /\ down \in Nat /\ kept = down + t.lookahead /\ kept \in 0 .. WSize /\ down < WSize + MaxDistance
        /\ down + t.lookahead <= WindowSize
    BY SMTT(40), <1>2, <2>2, SizesAre
  <2>4. u.window \in [0 .. WindowSize - 1 -> Byte]
    <3>1. \A i \in 0 .. WindowSize - 1 : i < kept => i + WSize \in 0 .. WindowSize - 1
      BY <2>3, SizesAre
    <3> HIDE DEF kept
    <3>2. ASSUME NEW i \in 0 .. WindowSize - 1
          PROVE  (IF i < kept THEN t.window[i + WSize] ELSE t.window[i]) \in Byte
      BY <2>2, <3>1
    <3>3. DOMAIN t.window = 0 .. WindowSize - 1
      BY <2>2
    <3> QED BY <2>1, <3>2, <3>3
  <2>5. Mirrors(u)
    <3>1. ASSUME NEW i \in 0 .. u.strstart + u.lookahead - 1 PROVE u.window[i] = data[u.base + i + 1]
      <4>0. u.strstart \in Nat /\ u.lookahead \in Nat /\ u.strstart + u.lookahead = kept /\ kept <= WindowSize /\ kept \in Nat /\ WindowSize \in Nat
        BY <2>1, <2>2, <2>3, SizesAre
      <4>1. i \in 0 .. WindowSize - 1 /\ i < kept
        <5>1. i \in 0 .. kept - 1
          <6> HIDE DEF kept, u
          <6> QED BY <4>0
        <5> HIDE DEF kept
        <5> QED BY <4>0, <5>1
      <4>2. u.window[i] = t.window[i + WSize]
        BY <2>1, <2>2, <4>1
      <4>3. i + WSize \in 0 .. t.strstart + t.lookahead - 1
        BY <2>2, <4>1, SizesAre
      <4>4. t.window[i + WSize] = data[t.base + (i + WSize) + 1]
        BY <4>3 DEF Windowed, Mirrors
      <4>5. t.base + (i + WSize) + 1 = u.base + i + 1
        BY <2>1, <2>2, <4>1, SizesAre
      <4> QED BY <4>2, <4>4, <4>5
    <3> QED BY <3>1 DEF Mirrors
  <2>6. u.insert \in 0 .. MinMatch - 1 /\ u.insert <= u.strstart
    <3> HIDE DEF down
    <3> QED BY <2>1, <2>2, <2>3, SizesAre DEF Min2
  <2>7. u.base \in Nat /\ u.base + u.strstart + u.lookahead = pos
    BY <2>1, <2>2, SizesAre
  <2>8. Windowed(u, pos)
    BY <2>1, <2>2, <2>3, <2>4, <2>5, <2>6, <2>7 DEF Windowed
  <2> QED BY <2>1, <2>3, <2>8 DEF u
<1> QED BY <1>1, <1>2

LEMMA ReadBufWindowed ==
  ASSUME NEW t, NEW pos \in Nat, NEW n \in Nat, Windowed(t, pos), data \in Seq(Byte),
         pos + n <= Len(data), t.strstart + t.lookahead + n <= WindowSize
  PROVE  /\ Windowed(ReadBuf(t, pos, n), pos + n)
         /\ ReadBuf(t, pos, n).lookahead = t.lookahead + n
         /\ Keeps(t, ReadBuf(t, pos, n), {"window", "lookahead"})
<1> DEFINE u == ReadBuf(t, pos, n)
           at == t.strstart + t.lookahead
<1>1. /\ DOMAIN u = StateFields /\ Keeps(t, u, {"window", "lookahead"})
      /\ u.lookahead = t.lookahead + n
      /\ u.window = [i \in DOMAIN t.window |-> IF i \in at .. at + n - 1
                                                 THEN data[pos + i - at + 1] ELSE t.window[i]]
  BY DEF Windowed, ReadBuf, Keeps, StateFields
<1> HIDE DEF u
<1>2. u.strstart = t.strstart /\ u.insert = t.insert /\ u.highWater = t.highWater /\ u.base = t.base
  BY <1>1 DEF Keeps, StateFields
<1>3. /\ t.strstart \in Nat /\ t.lookahead \in Nat /\ t.base \in Nat /\ at \in Nat /\ pos = t.base + at
      /\ t.window \in [0 .. WindowSize - 1 -> Byte] /\ WindowSize \in Nat /\ Len(data) \in Nat
  BY SMTT(40), SizesAre DEF Windowed
<1>9. pos + n <= Len(data) /\ at + n <= WindowSize /\ u.strstart + u.lookahead = at + n
      /\ t.strstart + t.lookahead = at
  BY <1>1, <1>2, <1>3
<1>8. /\ at \in Nat /\ WindowSize \in Nat /\ Len(data) \in Nat /\ t.base \in Nat /\ pos = t.base + at
      /\ u.strstart \in Nat /\ u.lookahead \in Nat
  BY SMTT(40), <1>1, <1>2, <1>3
<1> DEFINE top == at + n
<1>10. top \in Nat /\ top <= WindowSize /\ at <= top /\ u.strstart + u.lookahead = top
  BY <1>8, <1>9
<1> HIDE DEF at
<1>4. u.window \in [0 .. WindowSize - 1 -> Byte]
  <2>1. ASSUME NEW i \in at .. at + n - 1 PROVE data[pos + i - at + 1] \in Byte
    <3>1. i \in Int /\ at <= i /\ i <= at + n - 1
      BY <1>8
    <3>2. pos + i - at + 1 \in 1 .. Len(data)
      BY SMTT(40), <1>8, <1>9, <3>1
    <3> QED BY <3>2
  <2> QED BY <1>1, <1>3, <2>1
<1>5. Mirrors(u)
  <2>1. ASSUME NEW i \in 0 .. u.strstart + u.lookahead - 1 PROVE u.window[i] = data[u.base + i + 1]
    <3>0. i \in 0 .. top - 1
      <4> HIDE DEF top
      <4> QED BY <1>8, <1>10
    <3>1. i \in 0 .. at + n - 1 /\ i \in 0 .. WindowSize - 1
      <4> HIDE DEF top
      <4>1. i \in 0 .. WindowSize - 1
        BY <1>8, <1>10, <3>0
      <4>2. i \in 0 .. top - 1
        BY <3>0
      <4> QED BY <1>8, <4>1, <4>2 DEF top
    <3>2. CASE i \in at .. at + n - 1
      <4>1. u.window[i] = data[pos + i - at + 1]
        BY <1>1, <1>3, <3>1, <3>2
      <4>2. pos + i - at + 1 = t.base + i + 1
        BY <1>3, <3>1
      <4> QED BY <1>2, <4>1, <4>2
    <3>3. CASE i \notin at .. at + n - 1
      <4>1. u.window[i] = t.window[i]
        BY <1>1, <1>3, <3>1, <3>3
      <4>2. i \in 0 .. at - 1
        BY <1>3, <3>1, <3>3
      <4>3. t.window[i] = data[t.base + i + 1]
        BY <1>9, <4>2 DEF Windowed, Mirrors
      <4> QED BY <1>2, <4>1, <4>3
    <3> QED BY <3>2, <3>3
  <2> QED BY <2>1 DEF Mirrors
<1>6. /\ u.strstart \in Nat /\ u.lookahead \in Nat /\ u.strstart + u.lookahead <= WindowSize
      /\ u.base + u.strstart + u.lookahead = pos + n
  <2>1. u.base + u.strstart + u.lookahead = u.base + (u.strstart + u.lookahead)
    BY <1>2, <1>8
  <2>2. t.base + top = pos + n
    BY <1>8
  <2> QED BY <1>2, <1>8, <1>10, <2>1, <2>2
<1>7. Windowed(u, pos + n)
  BY <1>1, <1>2, <1>3, <1>4, <1>5, <1>6 DEF Windowed
<1> QED BY <1>1, <1>7 DEF u

LEMMA RehashKeeps ==
  ASSUME NEW t, DOMAIN t = StateFields, t.insert \in 0 .. MinMatch - 1, t.lookahead \in Nat
  PROVE  Keeps(t, Rehash(t), Chains \cup {"insert"}) /\ Rehash(t).insert \in 0 .. t.insert
<1>0. CASE Rehash(t) = t
  BY <1>0, SizesAre DEF Keeps
<1>1. CASE Rehash(t) # t
  <2>0. PICK run, first, count : Rehashed(t, run, first, count)
    BY <1>1, RehashIs
  <2>1.   /\ count \in 0 .. t.insert
          /\ run[0] = [t EXCEPT !.insH = UpdateHash(t.window[first], t.window[first + 1])]
          /\ \A k \in 1 .. count : run[k] = InsertString(run[k - 1], first + k - 1)
          /\ Rehash(t) = [run[count] EXCEPT !.insert = @ - count]
    BY <2>0 DEF Rehashed
  <2> DEFINE X == {k \in Nat : Keeps(t, run[k], Chains)}
  <2>2. 0 \in X
    <3>1. Keeps(t, run[0], Chains)
      BY <2>1 DEF Keeps, StateFields, Chains
    <3> QED BY <3>1
  <2>3. count \in Nat /\ count <= t.insert /\ t.insert \in Nat
    BY <2>1, SizesAre
  <2>4. ASSUME NEW k \in 0 .. count - 1, k \in X PROVE k + 1 \in X
    <3>1. k + 1 \in 1 .. count /\ (k + 1) - 1 = k /\ k + 1 \in Nat
      BY <2>3
    <3>2. run[k + 1] = InsertString(run[k], first + (k + 1) - 1)
      BY <2>1, <3>1
    <3>3. Keeps(t, run[k], Chains)
      BY <2>4
    <3>4. Keeps(run[k], run[k + 1], Chains)
      BY <3>2, <3>3, InsertStringKeeps DEF Keeps
    <3>5. Keeps(t, run[k + 1], Chains)
      BY <3>3, <3>4, KeepsTrans DEF Keeps
    <3> QED BY <3>1, <3>5
  <2> HIDE DEF X
  <2>5. count \in X
    BY <2>2, <2>3, <2>4, InductionUpTo
  <2>6. Keeps(t, run[count], Chains)
    BY <2>5 DEF X
  <2>7. run[count].insert = t.insert
    BY <2>6 DEF Keeps, StateFields, Chains
  <2>8. Rehash(t).insert = t.insert - count
    BY <2>1, <2>6, <2>7 DEF Keeps, StateFields
  <2>9. Keeps(run[count], Rehash(t), {"insert"})
    BY <2>1, <2>6 DEF Keeps, StateFields
  <2>10. Keeps(t, Rehash(t), Chains \cup {"insert"})
    BY <2>6, <2>9, KeepsTrans
  <2> QED BY <2>3, <2>8, <2>10
<1> QED BY <1>0, <1>1

LEMMA RehashWindowed ==
  ASSUME NEW t, NEW pos, Windowed(t, pos)
  PROVE  /\ Windowed(Rehash(t), pos)
         /\ Rehash(t).lookahead = t.lookahead /\ Rehash(t).strstart = t.strstart
         /\ Keeps(t, Rehash(t), Chains \cup {"insert"})
<1> DEFINE u == Rehash(t)
<1>1. DOMAIN t = StateFields /\ t.insert \in 0 .. MinMatch - 1 /\ t.lookahead \in Nat
  BY DEF Windowed
<1>2. Keeps(t, u, Chains \cup {"insert"}) /\ u.insert \in 0 .. t.insert
  BY <1>1, RehashKeeps
<1> HIDE DEF u
<1>3. /\ u.window = t.window /\ u.strstart = t.strstart /\ u.lookahead = t.lookahead
      /\ u.highWater = t.highWater /\ u.base = t.base /\ DOMAIN u = StateFields
  BY <1>2 DEF Keeps, StateFields, Chains
<1>4. u.insert \in 0 .. MinMatch - 1 /\ u.insert <= u.strstart
  <2>1. t.insert \in Nat /\ t.insert <= 2 /\ t.insert <= t.strstart /\ t.strstart \in Nat
    BY SizesAre DEF Windowed
  <2>2. u.insert \in Nat /\ u.insert <= t.insert
    BY <1>2, <2>1
  <2> QED BY <1>3, <2>1, <2>2, SizesAre
<1>5. Windowed(u, pos)
  BY <1>3, <1>4 DEF Windowed, Mirrors
<1> QED BY <1>2, <1>3, <1>5 DEF u

\* Fields fillWindow changes
FillSet == SlideSet \cup {"lookahead", "highWater", "insH"}

\* One turn suffices: it takes all the input there is, or fills the window
LEMMA FillTurnFills ==
  ASSUME NEW r, ~r.done, r.pos \in 0 .. inLen, inLen \in 0 .. Len(data), data \in Seq(Byte),
         Windowed(r.s, r.pos)
  PROVE  LET q == FillTurn(r)
         IN  /\ Windowed(q.s, q.pos) /\ q.pos \in r.pos .. inLen
             /\ q.done = TRUE
             /\ q.pos = inLen \/ q.s.lookahead >= MinLookahead
             /\ q.s.lookahead >= r.s.lookahead /\ q.s.strstart < WSize + MaxDistance
             /\ Keeps(r.s, q.s, FillSet)
<1> DEFINE slid == Slide(r.s)
           n    == Min2(inLen - r.pos, WindowSize - slid.lookahead - slid.strstart)
           read == ReadBuf(slid, r.pos, n)
           full == Rehash(read)
           q == FillTurn(r)
<1>1. r.pos \in Nat /\ inLen \in Nat /\ r.pos <= inLen /\ Len(data) \in Nat /\ inLen <= Len(data)
  <2>1. Len(data) \in Nat
    OBVIOUS
  <2>2. inLen \in Nat /\ inLen <= Len(data)
    BY <2>1
  <2> QED BY <2>1, <2>2
<1>2. Windowed(slid, r.pos) /\ slid.lookahead = r.s.lookahead /\ slid.strstart < WSize + MaxDistance
  BY SlideWindowed
<1>3. Keeps(r.s, slid, SlideSet)
  BY SlideKeeps DEF Windowed
<1>4. SlideSet \subseteq FillSet /\ Chains \cup {"insert"} \subseteq FillSet /\ {"window", "lookahead"} \subseteq FillSet
  BY DEF FillSet, SlideSet, Chains
<1>5. Keeps(r.s, slid, FillSet)
  BY <1>3, <1>4, KeepsMore
<1>6. q = IF r.pos = inLen THEN [s |-> slid, pos |-> r.pos, done |-> TRUE]
          ELSE [s |-> full, pos |-> r.pos + n,
                done |-> full.lookahead >= MinLookahead \/ r.pos + n = inLen]
  BY DEF FillTurn
<1> HIDE DEF slid, q
<1>7. slid.lookahead \in Nat /\ slid.strstart \in Nat /\ slid.strstart + slid.lookahead <= WindowSize
  BY <1>2 DEF Windowed
<1>8. CASE r.pos = inLen
  <2>1. q.s = slid /\ q.pos = r.pos /\ q.done = TRUE
    BY <1>6, <1>8
  <2> QED BY <1>1, <1>2, <1>5, <1>7, <1>8, <2>1 DEF q
<1>9. CASE r.pos # inLen
  <2>1. q.s = full /\ q.pos = r.pos + n /\ q.done = (full.lookahead >= MinLookahead \/ r.pos + n = inLen)
    BY <1>6, <1>9
  <2>2. /\ n \in Nat /\ r.pos + n <= inLen /\ slid.strstart + slid.lookahead + n <= WindowSize
        /\ r.pos + n = inLen \/ slid.lookahead + n >= MinLookahead
    BY SMTT(40), <1>1, <1>2, <1>7, SizesAre DEF Min2
  <2> HIDE DEF n
  <2>3. r.pos + n <= Len(data) /\ r.pos + n \in r.pos .. inLen /\ slid.lookahead + n >= slid.lookahead
    BY <1>1, <1>7, <2>2
  <2>4. /\ Windowed(read, r.pos + n) /\ read.lookahead = slid.lookahead + n
        /\ Keeps(slid, read, {"window", "lookahead"})
    BY <1>1, <1>2, <2>2, <2>3, ReadBufWindowed
  <2> HIDE DEF read
  <2>5. /\ Windowed(full, r.pos + n) /\ full.lookahead = read.lookahead /\ full.strstart = read.strstart
        /\ Keeps(read, full, Chains \cup {"insert"})
    BY <2>4, RehashWindowed
  <2>6. read.strstart = slid.strstart
    BY <2>4 DEF Keeps, StateFields
  <2> HIDE DEF full
  <2>7. Keeps(slid, read, FillSet) /\ Keeps(read, full, FillSet)
    BY <1>4, <2>4, <2>5, KeepsMore
  <2>8. Keeps(r.s, full, FillSet)
    BY <1>5, <2>7 DEF Keeps
  <2>9. full.lookahead >= r.s.lookahead /\ (r.pos + n = inLen \/ full.lookahead >= MinLookahead)
    BY <1>2, <2>2, <2>3, <2>4, <2>5
  <2>10. q.done = TRUE
    BY <2>1, <2>9
  <2> QED BY <1>2, <2>1, <2>3, <2>5, <2>6, <2>8, <2>9, <2>10 DEF q
<1> QED BY <1>8, <1>9

\* The bytes behind the data that longestMatch may load are zeroes
LEMMA ZeroTailWindowed ==
  ASSUME NEW t, NEW pos, Windowed(t, pos)
  PROVE  LET u == ZeroTail(t)
         IN  /\ Windowed(u, pos) /\ Keeps(t, u, {"window", "highWater"})
             /\ u.highWater >= Min2(u.strstart + u.lookahead + MaxMatch, WindowSize)
<1> DEFINE u    == ZeroTail(t)
           curr == t.strstart + t.lookahead
           from == IF t.highWater < curr THEN curr ELSE t.highWater
           upto == Min2(curr + MaxMatch, WindowSize)
<1>1. /\ curr \in Nat /\ curr <= WindowSize /\ t.highWater \in Nat /\ t.highWater <= WindowSize
      /\ upto \in Nat /\ upto <= WindowSize /\ WindowSize \in Nat /\ from \in Nat /\ curr <= from
      /\ t.strstart \in Nat /\ t.lookahead \in Nat
  BY SizesAre DEF Windowed, Min2
<1>2. CASE t.highWater >= WindowSize \/ t.highWater >= upto
  <2>1. u = t
    BY <1>2 DEF ZeroTail
  <2>2. t.highWater >= upto
    BY <1>1, <1>2
  <2> QED BY <2>1, <2>2 DEF Keeps, Windowed
<1>3. CASE ~(t.highWater >= WindowSize \/ t.highWater >= upto)
  <2>1. u = [t EXCEPT !.window = [i \in DOMAIN @ |-> IF i \in from .. upto - 1 THEN Zero ELSE @[i]],
                      !.highWater = upto]
    BY <1>3 DEF ZeroTail
  <2> HIDE DEF u, from, upto
  <2>2. /\ DOMAIN u = StateFields /\ u.highWater = upto
        /\ u.window = [i \in DOMAIN t.window |-> IF i \in from .. upto - 1 THEN Zero ELSE t.window[i]]
        /\ Keeps(t, u, {"window", "highWater"})
    BY <2>1 DEF Windowed, Keeps, StateFields
  <2>3. u.strstart = t.strstart /\ u.lookahead = t.lookahead /\ u.insert = t.insert /\ u.base = t.base
    BY <2>2 DEF Keeps, StateFields
  <2>4. t.window \in [0 .. WindowSize - 1 -> Byte] /\ Zero \in Byte
    BY DEF Windowed, Zero, Byte
  <2>5. u.window \in [0 .. WindowSize - 1 -> Byte]
    BY <2>2, <2>4
  <2>6. Mirrors(u)
    <3>1. ASSUME NEW i \in 0 .. u.strstart + u.lookahead - 1 PROVE u.window[i] = data[u.base + i + 1]
      <4>0. u.strstart + u.lookahead = curr /\ u.strstart \in Nat /\ u.lookahead \in Nat
        BY <1>1, <2>3
      <4> HIDE DEF curr
      <4>1. i \in 0 .. curr - 1
        BY <1>1, <4>0
      <4>2. i \in 0 .. WindowSize - 1 /\ i \notin from .. upto - 1
        BY <1>1, <4>1
      <4>3. u.window[i] = t.window[i]
        BY <2>2, <2>4, <4>2
      <4>4. t.window[i] = data[t.base + i + 1]
        BY <4>1 DEF curr, Windowed, Mirrors
      <4> QED BY <2>3, <4>3, <4>4
    <3> QED BY <3>1 DEF Mirrors
  <2>7. upto \in 0 .. WindowSize
    BY <1>1
  <2>8. Windowed(u, pos)
    BY <2>2, <2>3, <2>5, <2>6, <2>7 DEF Windowed
  <2>9. u.highWater >= Min2(u.strstart + u.lookahead + MaxMatch, WindowSize)
    BY <1>1, <2>2, <2>3 DEF upto
  <2> QED BY <2>2, <2>8, <2>9 DEF u
<1> QED BY <1>2, <1>3

\* What fillWindow promises: u holds the stream up to pos, with all the input
\* there is or enough to match against, and longestMatch may start from it
FilledFrom(t, from, u, pos) ==
  /\ Windowed(u, pos) /\ pos \in from .. inLen /\ Keeps(t, u, FillSet)
  /\ pos = inLen \/ u.lookahead >= MinLookahead
  /\ u.lookahead >= t.lookahead /\ u.strstart + MinLookahead <= WindowSize
  /\ u.lookahead >= MaxMatch \/ u.strstart + MaxMatch <= u.highWater

LEMMA FillWindowFills ==
  ASSUME NEW t, NEW from \in 0 .. inLen, inLen \in 0 .. Len(data), data \in Seq(Byte), Windowed(t, from)
  PROVE  FilledFrom(t, from, FillWindow(t, from).s, FillWindow(t, from).pos)
<1> DEFINE r == [s |-> t, pos |-> from, done |-> FALSE]
           q == FillTurn(r)
           u == ZeroTail(q.s)
<1>1. r.s = t /\ r.pos = from /\ ~r.done
  OBVIOUS
<1>2. /\ Windowed(q.s, q.pos) /\ q.pos \in from .. inLen /\ q.done = TRUE
      /\ q.pos = inLen \/ q.s.lookahead >= MinLookahead
      /\ q.s.lookahead >= t.lookahead /\ q.s.strstart < WSize + MaxDistance
      /\ Keeps(t, q.s, FillSet)
  <2> HIDE DEF r
  <2> QED BY <1>1, FillTurnFills
<1>3. FillTurn(q) = q
  <2> HIDE DEF q
  <2> QED BY <1>2 DEF FillTurn
<1>4. FillWindow(t, from) = [s |-> u, pos |-> q.pos]
  <2> HIDE DEF q
  <2>1. FillTurn(FillTurn([s |-> t, pos |-> from, done |-> FALSE])) = q
    BY <1>3 DEF q
  <2> QED BY <2>1 DEF FillWindow
<1> HIDE DEF q
<1>5. /\ Windowed(u, q.pos) /\ Keeps(q.s, u, {"window", "highWater"})
      /\ u.highWater >= Min2(u.strstart + u.lookahead + MaxMatch, WindowSize)
  BY <1>2, ZeroTailWindowed
<1> HIDE DEF u
<1>6. u.strstart = q.s.strstart /\ u.lookahead = q.s.lookahead
  BY <1>5 DEF Keeps, StateFields
<1>7. Keeps(t, u, FillSet)
  <2>1. {"window", "highWater"} \subseteq FillSet
    BY DEF FillSet, SlideSet
  <2>2. Keeps(q.s, u, FillSet)
    BY <1>5, <2>1, KeepsMore
  <2> QED BY <1>2, <2>2 DEF Keeps
<1>8. u.strstart \in Nat /\ u.lookahead \in Nat /\ u.highWater \in Nat
  BY <1>5, SizesAre DEF Windowed
<1>9. u.strstart + MinLookahead <= WindowSize
  BY <1>2, <1>6, <1>8, SizesAre
<1>10. u.lookahead >= MaxMatch \/ u.strstart + MaxMatch <= u.highWater
  BY <1>5, <1>8, <1>9, SizesAre DEF Min2
<1>11. FilledFrom(t, from, u, q.pos)
  BY <1>2, <1>5, <1>6, <1>7, <1>9, <1>10 DEF FilledFrom
<1> QED BY <1>4, <1>11

-----------------------------------------------------------------------------
(* The invariant                                                           *)

\* The length of a match never reaches past the lookahead; deflateSlow keeps
\* one from the turn before, which began a byte earlier
MatchFits(t) ==
  /\ t.matchLength \in 0 .. MaxMatch /\ t.prevLength \in 0 .. MaxMatch
  /\ \/ t.matchLength < MinMatch
     \/ cfg.fn = "slow" /\ t.matchLength <= t.lookahead + 1

WindowInv ==
  /\ data \in Inputs /\ cfg \in Configs
  /\ inLen \in 0 .. Len(data) /\ inPos \in 0 .. inLen
  /\ Windowed(s, inPos) /\ MatchFits(s)
  /\ flush = Idle => inPos = inLen

LEMMA InitWindowInv == Init => WindowInv
<1> SUFFICES ASSUME Init PROVE WindowInv
  OBVIOUS
<1>1. PICK left \in Stale : s = Reset(left)
  BY DEF Init
<1>2. left.window \in [0 .. WindowSize - 1 -> Byte] /\ WindowSize \in Nat
  BY InputAssumption, SizesAre
<1>3. DOMAIN s = StateFields
  BY <1>1 DEF Reset, StateFields
<1>4. /\ s.window = left.window
      /\ s.strstart = 0 /\ s.lookahead = 0 /\ s.insert = 0 /\ s.highWater = 0 /\ s.base = 0
      /\ s.matchLength = MinMatch - 1 /\ s.prevLength = MinMatch - 1
  BY <1>1 DEF Reset
<1>5. /\ s.window \in [0 .. WindowSize - 1 -> Byte] /\ s.insert \in 0 .. MinMatch - 1
      /\ s.highWater \in 0 .. WindowSize /\ Mirrors(s)
  BY <1>2, <1>4, SizesAre DEF Mirrors
<1>6. Windowed(s, 0)
  BY <1>2, <1>3, <1>4, <1>5 DEF Windowed
<1>7. MatchFits(s)
  <2>1. s.matchLength = 2 /\ s.prevLength = 2 /\ 2 < MinMatch /\ 2 \in 0 .. MaxMatch
    BY <1>4, SizesAre
  <2> QED BY <2>1 DEF MatchFits
<1>8. data \in Inputs /\ cfg \in Configs /\ inLen = 0 /\ inPos = 0
  BY DEF Init
<1>9. Len(data) \in Nat
  BY <1>8, InputAssumption
<1> QED BY <1>6, <1>7, <1>8, <1>9 DEF WindowInv

\* Filled is fillWindow's promise, and keeps the parse state
LEMMA FilledFills ==
  ASSUME WindowInv
  PROVE  FilledFrom(s, inPos, Filled.s, Filled.pos) /\ MatchFits(Filled.s)
<1> DEFINE u == Filled.s
<1>1. inLen \in 0 .. Len(data) /\ inPos \in 0 .. inLen /\ Windowed(s, inPos) /\ data \in Seq(Byte)
  BY InputAssumption DEF WindowInv
<1>2. s.lookahead \in Nat /\ s.strstart \in Nat /\ s.strstart + s.lookahead <= WindowSize
  BY <1>1 DEF Windowed
<1>3. FilledFrom(s, inPos, u, Filled.pos)
  <2>1. CASE s.lookahead < MinLookahead
    BY <1>1, <2>1, FillWindowFills DEF Filled
  <2>2. CASE ~(s.lookahead < MinLookahead)
    <3>1. u = s /\ Filled.pos = inPos
      BY <2>2 DEF Filled
    <3>2. s.lookahead >= MinLookahead /\ s.lookahead >= MaxMatch /\ s.strstart + MinLookahead <= WindowSize
      BY <1>2, <2>2, SizesAre
    <3>3. Keeps(s, s, FillSet)
      BY <1>1 DEF Keeps, Windowed
    <3>4. inPos \in inPos .. inLen
      BY <1>1
    <3> HIDE DEF u
    <3> QED BY <1>1, <1>2, <3>1, <3>2, <3>3, <3>4 DEF FilledFrom
  <2> QED BY <2>1, <2>2
<1> HIDE DEF u
<1>4. u.matchLength = s.matchLength /\ u.prevLength = s.prevLength
  BY <1>3 DEF FilledFrom, Keeps, StateFields, FillSet, SlideSet
<1>5. u.lookahead \in Nat /\ u.lookahead >= s.lookahead
  BY <1>3 DEF FilledFrom, Windowed
<1>6. MatchFits(u)
  <2>1. MatchFits(s)
    BY DEF WindowInv
  <2>2. s.matchLength \in Nat
    BY <2>1, SizesAre DEF MatchFits
  <2>3. s.matchLength <= s.lookahead + 1 => s.matchLength <= u.lookahead + 1
    BY <1>2, <1>5, <2>2
  <2> QED BY <1>4, <2>1, <2>3 DEF MatchFits
<1> QED BY <1>3, <1>6 DEF u

-----------------------------------------------------------------------------
(* One turn                                                                *)

LEMMA KeepsChain ==
  ASSUME NEW t, NEW u, NEW v, NEW c, Keeps(t, u, c), Keeps(u, v, c)
  PROVE  Keeps(t, v, c)
BY DEF Keeps

Emits == {"syms", "out", "blockStart"}

LEMMA TallyKeeps ==
  ASSUME NEW t, DOMAIN t = StateFields, NEW sym
  PROVE  Keeps(t, Tally(t, sym), Emits)
BY DEF Tally, Keeps, StateFields, Emits

LEMMA FlushBlockKeeps ==
  ASSUME NEW t, DOMAIN t = StateFields, NEW last
  PROVE  Keeps(t, FlushBlock(t, last), Emits)
BY DEF FlushBlock, Keeps, StateFields, Emits

LEMMA FlushIfFullKeeps ==
  ASSUME NEW t, DOMAIN t = StateFields
  PROVE  Keeps(t, FlushIfFull(t), Emits)
BY FlushBlockKeeps DEF FlushIfFull, Keeps

\* Fields one turn of a parse loop changes
TurnSet == Chains \cup Emits \cup {"lookahead", "strstart", "matchLength", "prevLength", "prevMatch",
                                   "matchStart", "matchAvailable"}

\* The end of a turn from t: it has taken something off the lookahead
Turned(t, u) ==
  /\ Keeps(t, u, TurnSet) /\ MatchFits(u)
  /\ u.lookahead \in 0 .. t.lookahead - 1
  /\ u.strstart \in Nat /\ u.strstart + u.lookahead = t.strstart + t.lookahead

LEMMA TurnedWindowed ==
  ASSUME NEW t, NEW u, NEW pos, Windowed(t, pos), Turned(t, u)
  PROVE  Windowed(u, pos)
<1>1. /\ u.window = t.window /\ u.insert = t.insert /\ u.highWater = t.highWater
      /\ u.base = t.base /\ DOMAIN u = StateFields
  BY DEF Turned, Keeps, StateFields, TurnSet, Chains, Emits
<1>2. /\ t.strstart \in Nat /\ t.lookahead \in Nat /\ t.base \in Nat
      /\ t.strstart + t.lookahead <= WindowSize
      /\ t.base + t.strstart + t.lookahead = pos
      /\ t.insert \in Int /\ t.insert <= t.strstart
  BY SizesAre DEF Windowed
<1>3. /\ u.strstart \in Nat /\ u.lookahead \in Nat /\ u.lookahead <= t.lookahead
      /\ u.strstart + u.lookahead = t.strstart + t.lookahead
  BY <1>2 DEF Turned
<1>4. /\ u.strstart >= t.strstart /\ u.strstart + u.lookahead <= WindowSize
      /\ t.base + u.strstart + u.lookahead = pos
  BY <1>2, <1>3
<1>5. u.insert <= u.strstart
  BY <1>1, <1>2, <1>3, <1>4
<1>6. Mirrors(u)
  BY <1>1, <1>3 DEF Windowed, Mirrors
<1> QED BY <1>1, <1>3, <1>4, <1>5, <1>6 DEF Windowed

\* deflateFast takes a match
LEMMA TakeMatchTurns ==
  ASSUME NEW t, DOMAIN t = StateFields, t.strstart \in Nat, t.lookahead \in Nat,
         t.prevLength \in 0 .. MaxMatch, t.matchLength \in MinMatch .. t.lookahead
  PROVE  Turned(t, TakeMatch(t))
<1> DEFINE len   == t.matchLength
           left  == t.lookahead - len
           last  == t.strstart + len - 1
           told  == Tally(t, Match(t.strstart - t.matchStart, len))
           known == IF len <= cfg.maxLazy /\ left >= MinMatch
                      THEN [InsertRun(told, t.strstart + 1, last) EXCEPT !.insH = Hash3(t.window, last)]
                      ELSE [told EXCEPT !.insH = UpdateHash(t.window[last + 1], t.window[last + 2])]
           moved == [known EXCEPT !.lookahead = left, !.strstart = last + 1, !.matchLength = 0]
           u     == FlushIfFull(moved)
<1>1. TakeMatch(t) = u
  BY DEF TakeMatch
<1>2. /\ len \in Nat /\ len >= 3 /\ left \in 0 .. t.lookahead - 1 /\ last \in Int
      /\ last + 1 = t.strstart + len /\ t.strstart + 1 \in Nat
      /\ (last + 1) + left = t.strstart + t.lookahead
  BY SizesAre
<1>3. Keeps(t, told, Emits)
  BY TallyKeeps
<1> HIDE DEF len, left, last, told
<1>4. Keeps(told, known, Chains)
  <2>1. Keeps(told, InsertRun(told, t.strstart + 1, last), Chains)
    BY <1>2, <1>3, InsertRunKeeps DEF Keeps
  <2>2. CASE len <= cfg.maxLazy /\ left >= MinMatch
    BY <2>1, <2>2 DEF Keeps, StateFields, Chains
  <2>3. CASE ~(len <= cfg.maxLazy /\ left >= MinMatch)
    BY <1>3, <2>3 DEF Keeps, StateFields, Chains
  <2> QED BY <2>2, <2>3
<1> HIDE DEF known
<1>5. /\ Keeps(known, moved, {"lookahead", "strstart", "matchLength"})
      /\ moved.lookahead = left /\ moved.strstart = last + 1 /\ moved.matchLength = 0
  BY <1>4 DEF Keeps, StateFields
<1> HIDE DEF moved
<1>6. Keeps(moved, u, Emits)
  BY <1>5, FlushIfFullKeeps DEF Keeps
<1> HIDE DEF u
<1>7. Keeps(t, u, TurnSet)
  BY <1>3, <1>4, <1>5, <1>6, KeepsMore, KeepsChain DEF TurnSet
<1>8. u.lookahead = left /\ u.strstart = last + 1 /\ u.matchLength = 0
  BY <1>5, <1>6 DEF Keeps, StateFields, Emits
<1>9. u.prevLength = t.prevLength
  BY <1>3, <1>4, <1>5, <1>6 DEF Keeps, StateFields, Emits, Chains
<1>10. MatchFits(u)
  BY <1>8, <1>9, SizesAre DEF MatchFits
<1> QED BY <1>1, <1>2, <1>7, <1>8, <1>10 DEF Turned

\* A turn may look before it moves
LEMMA TurnedFrom ==
  ASSUME NEW t, NEW m, NEW u, Keeps(t, m, TurnSet), m.strstart = t.strstart,
         m.lookahead = t.lookahead, Turned(m, u)
  PROVE  Turned(t, u)
<1>1. Keeps(t, u, TurnSet)
  BY KeepsChain DEF Turned
<1> QED BY <1>1 DEF Turned

\* What the parse loops know of the state in which they have looked for a match
Looked(t, m) ==
  /\ Keeps(t, m, Chains \cup {"matchStart", "matchLength", "prevLength", "prevMatch"})
  /\ m.matchLength \in 0 .. MaxMatch /\ m.prevLength \in 0 .. MaxMatch
  /\ m.matchLength < MinMatch \/ m.matchLength <= t.lookahead

LEMMA LookedTurn ==
  ASSUME NEW t, NEW m, Looked(t, m)
  PROVE  Keeps(t, m, TurnSet) /\ m.strstart = t.strstart /\ m.lookahead = t.lookahead
         /\ DOMAIN m = StateFields
<1>1. Chains \cup {"matchStart", "matchLength", "prevLength", "prevMatch"} \subseteq TurnSet
  BY DEF TurnSet
<1>2. Keeps(t, m, TurnSet)
  BY <1>1, KeepsMore DEF Looked
<1>3. m.strstart = t.strstart /\ m.lookahead = t.lookahead /\ DOMAIN m = StateFields
  BY DEF Looked, Keeps, StateFields, Chains
<1> QED BY <1>2, <1>3

\* A turn that ends with a byte moved from the lookahead to the history
LEMMA OneByteTurns ==
  ASSUME NEW m, NEW u, Keeps(m, u, TurnSet), m.strstart \in Nat, m.lookahead \in Nat \ {0},
         u.strstart = m.strstart + 1, u.lookahead = m.lookahead - 1,
         u.matchLength = m.matchLength, u.prevLength = m.prevLength,
         m.matchLength \in 0 .. MaxMatch, m.prevLength \in 0 .. MaxMatch,
         m.matchLength < MinMatch \/ (cfg.fn = "slow" /\ m.matchLength <= m.lookahead)
  PROVE  Turned(m, u)
<1>1. MatchFits(u)
  <2>1. (u.lookahead + 1) = m.lookahead
    OBVIOUS
  <2> QED BY <2>1 DEF MatchFits
<1>2. u.lookahead \in 0 .. m.lookahead - 1
  OBVIOUS
<1>3. u.strstart \in Nat /\ u.strstart + u.lookahead = m.strstart + m.lookahead
  OBVIOUS
<1> QED BY <1>1, <1>2, <1>3 DEF Turned

LEMMA FastTurnTurns ==
  ASSUME NEW t, DOMAIN t = StateFields, t.strstart \in Nat, t.lookahead \in Nat \ {0},
         MatchFits(t), cfg \in Configs, cfg.fn = "fast"
  PROVE  Turned(t, FastTurn(t))
<1> DEFINE head  == HashHead(t)
           ins   == Inserted(t)
           m     == IF InReach(ins, head) THEN LongestMatch(ins, head) ELSE ins
           lit   == Tally(m, Literal(m.window[m.strstart]))
           moved == [lit EXCEPT !.lookahead = @ - 1, !.strstart = @ + 1]
           u     == FlushIfFull(moved)
<1>1. FastTurn(t) = IF m.matchLength >= MinMatch THEN TakeMatch(m) ELSE u
  BY DEF FastTurn
<1>2. Keeps(t, ins, Chains)
  BY InsertedKeeps
<1> HIDE DEF head, ins
<1>3. /\ ins.lookahead = t.lookahead /\ ins.prevLength = t.prevLength
      /\ ins.matchLength = t.matchLength /\ DOMAIN ins = StateFields
  BY <1>2 DEF Keeps, StateFields, Chains
<1>4. t.prevLength \in 0 .. MaxMatch /\ t.matchLength \in 0 .. MaxMatch /\ t.matchLength < MinMatch
  BY DEF MatchFits
<1> DEFINE lookSet == Chains \cup {"matchStart", "matchLength", "prevLength", "prevMatch"}
<1>5. Looked(t, m)
  <2>1. CASE InReach(ins, head)
    <3>1. /\ Keeps(ins, m, {"matchStart", "matchLength"})
          /\ m.matchLength \in 0 .. MaxMatch /\ m.matchLength <= t.lookahead
      BY <1>3, <1>4, <2>1, LongestMatchKeeps
    <3> HIDE DEF m
    <3>2. m.prevLength = t.prevLength
      BY <1>3, <3>1 DEF Keeps, StateFields
    <3>3. Keeps(t, m, lookSet)
      BY <1>2, <3>1 DEF Keeps
    <3> QED BY <1>4, <3>1, <3>2, <3>3 DEF Looked
  <2>2. CASE ~InReach(ins, head)
    <3>1. m = ins
      BY <2>2
    <3>2. Keeps(t, ins, lookSet)
      BY <1>2 DEF Keeps
    <3> HIDE DEF m
    <3> QED BY <1>3, <1>4, <3>1, <3>2 DEF Looked
  <2> QED BY <2>1, <2>2
<1> HIDE DEF m
<1>6. Keeps(t, m, TurnSet) /\ m.strstart = t.strstart /\ m.lookahead = t.lookahead /\ DOMAIN m = StateFields
  BY <1>5, LookedTurn
<1>7. CASE m.matchLength >= MinMatch
  <2>1. m.matchLength \in MinMatch .. m.lookahead /\ m.prevLength \in 0 .. MaxMatch
    BY <1>5, <1>6, <1>7, SizesAre DEF Looked
  <2>2. Turned(m, TakeMatch(m))
    BY <1>6, <2>1, TakeMatchTurns
  <2> QED BY <1>1, <1>6, <1>7, <2>2, TurnedFrom
<1>8. CASE ~(m.matchLength >= MinMatch)
  <2>1. Keeps(m, lit, Emits)
    BY <1>6, TallyKeeps
  <2>2. lit.lookahead = m.lookahead /\ lit.strstart = m.strstart /\ DOMAIN lit = StateFields
    BY <2>1 DEF Keeps, StateFields, Emits
  <2> HIDE DEF lit
  <2>3. /\ Keeps(lit, moved, {"lookahead", "strstart"})
        /\ moved.lookahead = lit.lookahead - 1 /\ moved.strstart = lit.strstart + 1
    BY <2>2 DEF Keeps, StateFields
  <2> HIDE DEF moved
  <2>4. Keeps(moved, u, Emits)
    BY <2>3, FlushIfFullKeeps DEF Keeps
  <2> HIDE DEF u
  <2>5. /\ u.lookahead = m.lookahead - 1 /\ u.strstart = m.strstart + 1
        /\ u.matchLength = m.matchLength /\ u.prevLength = m.prevLength
    BY <2>1, <2>2, <2>3, <2>4 DEF Keeps, StateFields, Emits
  <2>6. Keeps(m, u, TurnSet)
    BY <2>1, <2>3, <2>4, KeepsMore, KeepsChain DEF TurnSet
  <2>7. /\ m.matchLength \in 0 .. MaxMatch /\ m.prevLength \in 0 .. MaxMatch /\ m.matchLength < MinMatch
    BY <1>5, <1>8, SizesAre DEF Looked
  <2>8. Turned(m, u)
    BY <1>6, <2>5, <2>6, <2>7, OneByteTurns
  <2> QED BY <1>1, <1>6, <1>8, <2>8, TurnedFrom
<1> QED BY <1>7, <1>8

LEMMA DropFarKeeps ==
  ASSUME NEW t, DOMAIN t = StateFields
  PROVE  /\ Keeps(t, DropFar(t), {"matchLength"})
         /\ DropFar(t).matchLength = t.matchLength \/ DropFar(t).matchLength = MinMatch - 1
BY DEF DropFar, Keeps, StateFields

\* deflateSlow takes the match of the turn before, which began a byte earlier
LEMMA TakePreviousTurns ==
  ASSUME NEW t, DOMAIN t = StateFields, t.strstart \in Nat, t.lookahead \in Nat,
         t.prevLength \in MinMatch .. t.lookahead + 1
  PROVE  Turned(t, TakePrevious(t))
<1> DEFINE maxInsert == t.strstart + t.lookahead - MinMatch
           end   == t.strstart + t.prevLength - 2
           first == t.strstart + 1
           last  == Min2(end, maxInsert)
           told  == Tally(t, Match(t.strstart - 1 - t.prevMatch, t.prevLength))
           known == IF last < first THEN told
                    ELSE [InsertRun(told, first, last) EXCEPT !.insH = Hash3(t.window, last)]
           moved == [known EXCEPT !.lookahead = @ - (t.prevLength - 1), !.strstart = end + 1,
                                  !.prevLength = 0, !.matchAvailable = FALSE,
                                  !.matchLength = MinMatch - 1]
           u     == FlushIfFull(moved)
<1>1. TakePrevious(t) = u
  BY DEF TakePrevious
<1>2. first \in Nat /\ last \in Int /\ t.prevLength \in Nat /\ t.prevLength >= 3
  BY SizesAre DEF Min2
<1>3. /\ t.lookahead - (t.prevLength - 1) \in 0 .. t.lookahead - 1
      /\ end + 1 = t.strstart + (t.prevLength - 1)
      /\ end + 1 \in Nat /\ (end + 1) + (t.lookahead - (t.prevLength - 1)) = t.strstart + t.lookahead
  BY <1>2
<1>4. Keeps(t, told, Emits)
  BY TallyKeeps
<1> HIDE DEF first, last, told, end
<1>5. Keeps(told, known, Chains)
  <2>1. Keeps(told, InsertRun(told, first, last), Chains)
    BY <1>2, <1>4, InsertRunKeeps DEF Keeps
  <2>2. CASE last < first
    BY <1>4, <2>2 DEF Keeps
  <2>3. CASE ~(last < first)
    BY <2>1, <2>3 DEF Keeps, StateFields, Chains
  <2> QED BY <2>2, <2>3
<1>6. known.lookahead = t.lookahead
  BY <1>4, <1>5 DEF Keeps, StateFields, Emits, Chains
<1> HIDE DEF known
<1>7. /\ Keeps(known, moved, {"lookahead", "strstart", "prevLength", "matchAvailable", "matchLength"})
      /\ moved.lookahead = known.lookahead - (t.prevLength - 1) /\ moved.strstart = end + 1
      /\ moved.prevLength = 0 /\ moved.matchLength = MinMatch - 1
  BY <1>5 DEF Keeps, StateFields
<1> HIDE DEF moved
<1>8. Keeps(moved, u, Emits)
  BY <1>7, FlushIfFullKeeps DEF Keeps
<1> HIDE DEF u
<1>9. Keeps(t, u, TurnSet)
  BY <1>4, <1>5, <1>7, <1>8, KeepsMore, KeepsChain DEF TurnSet
<1>10. /\ u.lookahead = t.lookahead - (t.prevLength - 1) /\ u.strstart = end + 1
       /\ u.prevLength = 0 /\ u.matchLength = 2
  BY <1>6, <1>7, <1>8, SizesAre DEF Keeps, StateFields, Emits
<1>11. MatchFits(u)
  <2>1. 2 \in 0 .. MaxMatch /\ 0 \in 0 .. MaxMatch /\ 2 < MinMatch
    BY SizesAre
  <2> QED BY <1>10, <2>1 DEF MatchFits
<1> QED BY <1>1, <1>3, <1>9, <1>10, <1>11 DEF Turned

LEMMA SlowTurnTurns ==
  ASSUME NEW t, DOMAIN t = StateFields, t.strstart \in Nat, t.lookahead \in Nat \ {0},
         MatchFits(t), cfg \in Configs, cfg.fn = "slow"
  PROVE  Turned(t, SlowTurn(t))
<1> DEFINE head == HashHead(t)
           ins  == Inserted(t)
           p    == [ins EXCEPT !.prevLength = ins.matchLength, !.prevMatch = ins.matchStart,
                               !.matchLength = MinMatch - 1]
           m    == IF InReach(p, head) /\ p.prevLength < cfg.maxLazy
                     THEN DropFar(LongestMatch(p, head)) ELSE p
           late == [m EXCEPT !.matchAvailable = TRUE, !.lookahead = @ - 1, !.strstart = @ + 1]
           lit  == FlushIfFull(Tally(m, Literal(m.window[m.strstart - 1])))
           one  == [lit EXCEPT !.lookahead = @ - 1, !.strstart = @ + 1]
           looks == InReach(p, head) /\ p.prevLength < cfg.maxLazy
           takes == m.prevLength >= MinMatch /\ m.matchLength <= m.prevLength
           lookSet == Chains \cup {"matchStart", "matchLength", "prevLength", "prevMatch"}
<1>1. SlowTurn(t) = IF takes THEN TakePrevious(m) ELSE IF m.matchAvailable THEN one ELSE late
  BY DEF SlowTurn, TakeLiteral
<1>2. Keeps(t, ins, Chains)
  BY InsertedKeeps
<1> HIDE DEF head, ins
<1>3. ins.lookahead = t.lookahead /\ ins.matchLength = t.matchLength /\ DOMAIN ins = StateFields
  BY <1>2 DEF Keeps, StateFields, Chains
<1>4. /\ t.matchLength \in 0 .. MaxMatch /\ (t.matchLength < MinMatch \/ t.matchLength <= t.lookahead + 1)
  BY DEF MatchFits
<1>5. /\ Keeps(ins, p, {"prevLength", "prevMatch", "matchLength"})
      /\ p.prevLength = ins.matchLength /\ p.matchLength = MinMatch - 1
  BY <1>3 DEF Keeps, StateFields
<1> HIDE DEF p
<1>6. p.lookahead = t.lookahead /\ p.prevLength = t.matchLength /\ p.matchLength = 2 /\ DOMAIN p = StateFields
  BY <1>3, <1>5, SizesAre DEF Keeps, StateFields
<1>7. Keeps(t, p, lookSet)
  BY <1>2, <1>5 DEF Keeps
<1>8. Looked(t, m) /\ m.prevLength = t.matchLength
  <2>1. CASE looks
    <3> DEFINE l == LongestMatch(p, head)
    <3>1. /\ Keeps(p, l, {"matchStart", "matchLength"})
          /\ l.matchLength \in 0 .. MaxMatch /\ l.matchLength <= t.lookahead
      BY <1>4, <1>6, LongestMatchKeeps
    <3>2. m = DropFar(l)
      BY <2>1
    <3> HIDE DEF l, m
    <3>3. /\ Keeps(l, m, {"matchLength"})
          /\ m.matchLength = l.matchLength \/ m.matchLength = 2
      BY <3>1, <3>2, DropFarKeeps, SizesAre DEF Keeps
    <3>4. m.prevLength = t.matchLength
      BY <1>6, <3>1, <3>3 DEF Keeps, StateFields
    <3>5. Keeps(t, m, lookSet)
      BY <1>7, <3>1, <3>3 DEF Keeps
    <3>6. m.matchLength \in 0 .. MaxMatch /\ (m.matchLength < MinMatch \/ m.matchLength <= t.lookahead)
      BY <3>1, <3>3, SizesAre
    <3> QED BY <1>4, <3>4, <3>5, <3>6 DEF Looked
  <2>2. CASE ~looks
    <3>1. m = p
      BY <2>2
    <3>2. p.matchLength \in 0 .. MaxMatch /\ p.matchLength < MinMatch
      BY <1>6, SizesAre
    <3> HIDE DEF m
    <3> QED BY <1>4, <1>6, <1>7, <3>1, <3>2 DEF Looked
  <2> QED BY <2>1, <2>2
<1> HIDE DEF m, looks
<1>9. Keeps(t, m, TurnSet) /\ m.strstart = t.strstart /\ m.lookahead = t.lookahead /\ DOMAIN m = StateFields
  BY <1>8, LookedTurn
<1>10. /\ m.matchLength \in 0 .. MaxMatch /\ m.prevLength \in 0 .. MaxMatch
       /\ m.matchLength < MinMatch \/ (cfg.fn = "slow" /\ m.matchLength <= m.lookahead)
  BY <1>8, <1>9 DEF Looked
<1>11. CASE takes
  <2>1. m.prevLength \in MinMatch .. m.lookahead + 1
    BY <1>4, <1>8, <1>9, <1>11, SizesAre
  <2>2. Turned(m, TakePrevious(m))
    BY <1>9, <2>1, TakePreviousTurns
  <2> QED BY <1>1, <1>9, <1>11, <2>2, TurnedFrom
<1>12. CASE ~takes /\ m.matchAvailable
  <2> DEFINE told == Tally(m, Literal(m.window[m.strstart - 1]))
  <2>1. Keeps(m, told, Emits)
    BY <1>9, TallyKeeps
  <2>2. Keeps(told, lit, Emits)
    BY <2>1, FlushIfFullKeeps DEF Keeps
  <2>3. Keeps(m, lit, Emits)
    BY <2>1, <2>2, KeepsChain
  <2> HIDE DEF lit, told
  <2>4. lit.lookahead = m.lookahead /\ lit.strstart = m.strstart /\ DOMAIN lit = StateFields
    BY <2>3 DEF Keeps, StateFields, Emits
  <2>5. /\ Keeps(lit, one, {"lookahead", "strstart"})
        /\ one.lookahead = lit.lookahead - 1 /\ one.strstart = lit.strstart + 1
    BY <2>4 DEF Keeps, StateFields
  <2> HIDE DEF one
  <2>6. /\ one.lookahead = m.lookahead - 1 /\ one.strstart = m.strstart + 1
        /\ one.matchLength = m.matchLength /\ one.prevLength = m.prevLength
    BY <2>3, <2>4, <2>5 DEF Keeps, StateFields, Emits
  <2>7. Keeps(m, one, TurnSet)
    <3>1. Emits \subseteq TurnSet /\ {"lookahead", "strstart"} \subseteq TurnSet
      BY DEF TurnSet
    <3>2. Keeps(m, lit, TurnSet) /\ Keeps(lit, one, TurnSet)
      BY <2>3, <2>5, <3>1, KeepsMore
    <3> QED BY <3>2, KeepsChain
  <2>8. Turned(m, one)
    BY <1>9, <1>10, <2>6, <2>7, OneByteTurns
  <2> QED BY <1>1, <1>9, <1>12, <2>8, TurnedFrom
<1>13. CASE ~takes /\ ~m.matchAvailable
  <2>1. /\ Keeps(m, late, {"matchAvailable", "lookahead", "strstart"})
        /\ late.lookahead = m.lookahead - 1 /\ late.strstart = m.strstart + 1
    BY <1>9 DEF Keeps, StateFields
  <2> HIDE DEF late
  <2>2. late.matchLength = m.matchLength /\ late.prevLength = m.prevLength
    BY <2>1 DEF Keeps, StateFields
  <2>3. Keeps(m, late, TurnSet)
    BY <2>1, KeepsMore DEF TurnSet
  <2>4. Turned(m, late)
    BY <1>9, <1>10, <2>1, <2>2, <2>3, OneByteTurns
  <2> QED BY <1>1, <1>9, <1>13, <2>4, TurnedFrom
<1> QED BY <1>11, <1>12, <1>13

\* The end of the loop, with nothing left in the lookahead
LEMMA EndOfInputKeeps ==
  ASSUME NEW t, DOMAIN t = StateFields
  PROVE  /\ Keeps(t, EndOfInput(t), Emits \cup {"matchAvailable", "insert", "status"})
         /\ EndOfInput(t).insert = Min2(t.strstart, MinMatch - 1)
<1> DEFINE told == Tally(t, Literal(t.window[t.strstart - 1]))
           lit  == IF t.matchAvailable THEN [told EXCEPT !.matchAvailable = FALSE] ELSE t
           kept == [lit EXCEPT !.insert = Min2(t.strstart, MinMatch - 1)]
           last == FlushBlock(kept, TRUE)
           u    == EndOfInput(t)
           endSet == Emits \cup {"matchAvailable", "insert", "status"}
<1>1. u = IF flush = "finish" THEN [last EXCEPT !.status = "finish"]
          ELSE IF kept.syms # <<>> THEN FlushBlock(kept, FALSE) ELSE kept
  BY DEF EndOfInput
<1>2. Keeps(t, told, Emits)
  BY TallyKeeps
<1> HIDE DEF told
<1>3. Keeps(t, lit, Emits \cup {"matchAvailable"})
  <2>1. CASE t.matchAvailable
    BY <1>2, <2>1 DEF Keeps, StateFields, Emits
  <2>2. CASE ~t.matchAvailable
    BY <2>2 DEF Keeps
  <2> QED BY <2>1, <2>2
<1> HIDE DEF lit
<1>4. Keeps(lit, kept, {"insert"}) /\ kept.insert = Min2(t.strstart, MinMatch - 1)
  BY <1>3 DEF Keeps, StateFields
<1>5. Keeps(t, kept, endSet)
  BY <1>3, <1>4 DEF Keeps
<1> HIDE DEF kept
<1>6. Keeps(kept, FlushBlock(kept, FALSE), Emits) /\ Keeps(kept, last, Emits)
  BY <1>4, FlushBlockKeeps DEF Keeps
<1>7. Keeps(kept, u, Emits \cup {"status"})
  <2> HIDE DEF last
  <2>1. CASE flush = "finish"
    BY <1>1, <1>6, <2>1 DEF Keeps, StateFields
  <2>2. CASE flush # "finish"
    <3>1. u = FlushBlock(kept, FALSE) \/ u = kept
      BY <1>1, <2>2
    <3> QED BY <1>4, <1>6, <3>1 DEF Keeps
  <2> QED BY <2>1, <2>2
<1> HIDE DEF u
<1>8. Keeps(t, u, endSet)
  BY <1>5, <1>7 DEF Keeps
<1>9. u.insert = Min2(t.strstart, MinMatch - 1)
  BY <1>4, <1>7 DEF Keeps, StateFields, Emits
<1> QED BY <1>8, <1>9 DEF u

LEMMA EndOfInputWindowed ==
  ASSUME NEW t, NEW pos, Windowed(t, pos), MatchFits(t), t.lookahead = 0
  PROVE  /\ Windowed(EndOfInput(t), pos) /\ MatchFits(EndOfInput(t)) /\ EndOfInput(t).lookahead = 0
<1> DEFINE u == EndOfInput(t)
<1>1. /\ Keeps(t, u, Emits \cup {"matchAvailable", "insert", "status"})
      /\ u.insert = Min2(t.strstart, MinMatch - 1)
  BY EndOfInputKeeps DEF Windowed
<1> HIDE DEF u
<1>2. /\ DOMAIN u = StateFields /\ u.window = t.window /\ u.strstart = t.strstart
      /\ u.lookahead = t.lookahead /\ u.highWater = t.highWater /\ u.base = t.base
      /\ u.matchLength = t.matchLength /\ u.prevLength = t.prevLength
  BY <1>1 DEF Keeps, StateFields, Emits
<1>3. u.insert \in 0 .. MinMatch - 1 /\ u.insert <= u.strstart
  BY <1>1, <1>2, SizesAre DEF Windowed, Min2
<1>4. Windowed(u, pos)
  BY <1>2, <1>3 DEF Windowed, Mirrors
<1>5. MatchFits(u)
  BY <1>2 DEF MatchFits
<1> QED BY <1>2, <1>4, <1>5 DEF u

\* A full flush empties the window
LEMMA MarkedWindowed ==
  ASSUME NEW t, NEW pos, Windowed(t, pos), MatchFits(t), t.lookahead = 0
  PROVE  Windowed(Marked(t), pos) /\ MatchFits(Marked(t))
<1> DEFINE told == [t EXCEPT !.out = Append(@, [syms |-> <<>>, copy |-> {}, mark |-> flush])]
           gone == [told EXCEPT !.head = [h \in DOMAIN @ |-> NilPos], !.base = @ + t.strstart,
                                !.strstart = 0, !.blockStart = 0, !.insert = 0]
           u    == Marked(t)
<1>1. u = IF flush # "full" THEN told ELSE gone
  BY DEF Marked
<1>2. Keeps(t, told, {"out"})
  BY DEF Windowed, Keeps, StateFields
<1> HIDE DEF told, u
<1>3. CASE flush # "full"
  <2>1. u = told
    BY <1>1, <1>3
  <2>2. Windowed(told, pos)
    <3>1. {"out"} \subseteq StateFields \ {"window", "strstart", "lookahead", "insert", "highWater", "base"}
      BY DEF StateFields
    <3> QED BY <1>2, <3>1, KeepsMore, WindowedFrame
  <2>3. MatchFits(told)
    BY <1>2 DEF Keeps, StateFields, MatchFits
  <2> QED BY <2>1, <2>2, <2>3 DEF u
<1>4. CASE flush = "full"
  <2>1. u = gone
    BY <1>1, <1>4
  <2>2. /\ Keeps(told, gone, {"head", "base", "strstart", "blockStart", "insert"})
        /\ gone.base = told.base + t.strstart /\ gone.strstart = 0 /\ gone.insert = 0
    BY <1>2 DEF Keeps, StateFields
  <2> HIDE DEF gone
  <2>3. /\ DOMAIN gone = StateFields /\ gone.window = t.window /\ gone.lookahead = 0
        /\ gone.highWater = t.highWater /\ gone.base = t.base + t.strstart
        /\ gone.matchLength = t.matchLength /\ gone.prevLength = t.prevLength
    BY <1>2, <2>2 DEF Keeps, StateFields
  <2>4. /\ t.base \in Nat /\ t.strstart \in Nat /\ t.base + t.strstart + 0 = pos
        /\ t.window \in [0 .. WindowSize - 1 -> Byte] /\ t.highWater \in 0 .. WindowSize /\ WindowSize \in Nat
    BY SizesAre DEF Windowed
  <2>5. Mirrors(gone)
    BY <2>2, <2>3 DEF Mirrors
  <2>6. /\ gone.base \in Nat /\ gone.base + gone.strstart + gone.lookahead = pos
        /\ gone.strstart + gone.lookahead <= WindowSize /\ gone.insert \in 0 .. MinMatch - 1
    BY <2>2, <2>3, <2>4, SizesAre
  <2>7. Windowed(gone, pos)
    BY <2>2, <2>3, <2>4, <2>5, <2>6 DEF Windowed
  <2>8. MatchFits(gone)
    <3>1. t.matchLength < MinMatch \/ t.matchLength <= gone.lookahead + 1
      BY <2>3 DEF MatchFits
    <3> QED BY <2>3, <3>1 DEF MatchFits
  <2> QED BY <2>1, <2>7, <2>8 DEF u
<1> QED BY <1>3, <1>4

-----------------------------------------------------------------------------
(* Every step keeps the invariant                                          *)

LEMMA WindowInvNext ==
  ASSUME WindowInv, data' = data, cfg' = cfg, inLen' \in 0 .. Len(data), inPos' \in 0 .. inLen',
         Windowed(s', inPos'), MatchFits(s'), flush' = Idle => inPos' = inLen'
  PROVE  WindowInv'
<1>1. Windowed(s, inPos)'
  BY DEF Windowed, Mirrors
<1>2. MatchFits(s)'
  BY DEF MatchFits
<1> QED BY <1>1, <1>2 DEF WindowInv

LEMMA CallKeepsWindow ==
  ASSUME WindowInv, NEW n \in Nat, NEW f \in FlushModes, Call(n, f)
  PROVE  WindowInv'
<1>1. /\ flush = Idle /\ inLen + n <= Len(data) /\ inLen' = inLen + n
      /\ data' = data /\ cfg' = cfg /\ inPos' = inPos
      /\ s' = [s EXCEPT !.lastFlush = f]
  BY DEF Call
<1>2. inPos = inLen /\ Windowed(s, inPos) /\ MatchFits(s) /\ inLen \in 0 .. Len(data)
  BY <1>1 DEF WindowInv
<1>3. inLen' \in 0 .. Len(data) /\ inPos' \in 0 .. inLen'
  <2>1. Len(data) \in Nat
    BY InputAssumption DEF WindowInv
  <2>2. inLen \in Nat
    BY <1>2, <2>1
  <2> QED BY <1>1, <1>2, <2>1, <2>2
<1>4. Keeps(s, s', {"lastFlush"})
  BY <1>1, <1>2 DEF Keeps, Windowed, StateFields
<1>5. Windowed(s', inPos')
  <2>1. {"lastFlush"} \subseteq StateFields \ {"window", "strstart", "lookahead", "insert", "highWater", "base"}
    BY DEF StateFields
  <2>2. Windowed(s', inPos)
    BY <1>2, <1>4, <2>1, KeepsMore, WindowedFrame
  <2> QED BY <1>1, <2>2
<1>6. MatchFits(s')
  BY <1>2, <1>4 DEF Keeps, StateFields, MatchFits
<1>7. flush' = Idle => n = 0
  <2> DEFINE work == n # 0 \/ s.lookahead # 0 \/ (f # "none" /\ s.status # "finish")
  <2>1. flush' = IF ~Repeated(n, f) /\ work THEN f ELSE Idle
    BY DEF Call
  <2>2. f # Idle
    BY DEF FlushModes, Idle
  <2> QED BY <2>1, <2>2 DEF Repeated
<1>8. flush' = Idle => inPos' = inLen'
  <2>1. inLen \in Int
    BY <1>2
  <2> QED BY <1>1, <1>2, <1>7, <2>1
<1> QED BY <1>1, <1>3, <1>5, <1>6, <1>8, WindowInvNext

\* A turn leaves the input position where fillWindow did
LEMMA TurnKeepsWindow ==
  ASSUME WindowInv, NEW t, NEW f, Turn(t, f), Windowed(t, Filled.pos), MatchFits(t),
         f = Idle => Filled.pos = inLen
  PROVE  WindowInv'
<1>1. /\ s' = t /\ inPos' = Filled.pos /\ flush' = f /\ data' = data /\ cfg' = cfg /\ inLen' = inLen
  BY DEF Turn
<1>2. FilledFrom(s, inPos, Filled.s, Filled.pos)
  BY FilledFills
<1>3. Filled.pos \in 0 .. inLen
  <2>1. Filled.pos \in inPos .. inLen /\ inPos \in 0 .. inLen
    BY <1>2 DEF FilledFrom, WindowInv
  <2> QED BY <2>1
<1>4. inLen' \in 0 .. Len(data) /\ inPos' \in 0 .. inLen'
  BY <1>1, <1>3 DEF WindowInv
<1> QED BY <1>1, <1>4, WindowInvNext

\* Both loops: a turn that goes on has less to do
LEMMA ParseTurns ==
  ASSUME WindowInv, Filled.s.lookahead > 0
  PROVE  Turned(Filled.s, IF cfg.fn = "fast" THEN FastTurn(Filled.s) ELSE SlowTurn(Filled.s))
<1> DEFINE t == Filled.s
<1>1. FilledFrom(s, inPos, t, Filled.pos) /\ MatchFits(t)
  BY FilledFills
<1> HIDE DEF t
<1>2. DOMAIN t = StateFields /\ t.strstart \in Nat /\ t.lookahead \in Nat
  BY <1>1 DEF FilledFrom, Windowed
<1>3. t.lookahead \in Nat \ {0}
  BY <1>2 DEF t
<1>4. cfg \in Configs /\ cfg.fn \in {"fast", "slow"}
  BY ConfigAssumption DEF WindowInv
<1>5. CASE cfg.fn = "fast"
  BY <1>1, <1>2, <1>3, <1>4, <1>5, FastTurnTurns DEF t
<1>6. CASE cfg.fn = "slow"
  BY <1>1, <1>2, <1>3, <1>4, <1>6, SlowTurnTurns DEF t
<1> QED BY <1>4, <1>5, <1>6

LEMMA StepKeepsWindow ==
  ASSUME WindowInv, Step
  PROVE  WindowInv'
<1> DEFINE t == Filled.s
           pos == Filled.pos
<1>1. FilledFrom(s, inPos, t, pos) /\ MatchFits(t)
  BY FilledFills
<1>2. Windowed(t, pos) /\ t.lookahead \in Nat /\ (pos = inLen \/ t.lookahead >= MinLookahead)
  BY <1>1 DEF FilledFrom, Windowed
<1>3. CASE Starve
  <2>1. t.lookahead < MinLookahead /\ Turn(t, Idle)
    BY <1>3 DEF Starve, Starving
  <2>2. pos = inLen
    <3> HIDE DEF t, pos
    <3> QED BY <1>2, <2>1, SizesAre
  <2> QED BY <1>1, <1>2, <2>1, <2>2, TurnKeepsWindow
<1>4. CASE ParseFast
  <2>1. cfg.fn = "fast" /\ t.lookahead > 0 /\ flush # Idle /\ Turn(FastTurn(t), flush)
    BY <1>4 DEF ParseFast
  <2>2. Turned(t, FastTurn(t))
    BY <2>1, ParseTurns
  <2>3. Windowed(FastTurn(t), pos) /\ MatchFits(FastTurn(t))
    BY <1>2, <2>2, TurnedWindowed DEF Turned
  <2> QED BY <2>1, <2>3, TurnKeepsWindow
<1>5. CASE ParseSlow
  <2>1. cfg.fn = "slow" /\ t.lookahead > 0 /\ flush # Idle /\ Turn(SlowTurn(t), flush)
    BY <1>5 DEF ParseSlow
  <2>2. Turned(t, SlowTurn(t))
    BY <2>1, ParseTurns
  <2>3. Windowed(SlowTurn(t), pos) /\ MatchFits(SlowTurn(t))
    BY <1>2, <2>2, TurnedWindowed DEF Turned
  <2> QED BY <2>1, <2>3, TurnKeepsWindow
<1>6. CASE Drain
  <2> DEFINE e == EndOfInput(t)
             u == IF flush = "finish" THEN e ELSE Marked(e)
  <2>1. t.lookahead = 0 /\ Turn(u, Idle)
    BY <1>6 DEF Drain
  <2>2. pos = inLen
    <3> HIDE DEF t, pos
    <3> QED BY <1>2, <2>1, SizesAre
  <2>3. Windowed(e, pos) /\ MatchFits(e) /\ e.lookahead = 0
    BY <1>1, <1>2, <2>1, EndOfInputWindowed
  <2> HIDE DEF e
  <2>4. Windowed(u, pos) /\ MatchFits(u)
    BY <2>3, MarkedWindowed
  <2> QED BY <2>1, <2>2, <2>4, TurnKeepsWindow
<1> QED BY <1>3, <1>4, <1>5, <1>6 DEF Step

LEMMA NextKeepsWindow == WindowInv /\ [Next]_vars => WindowInv'
<1> SUFFICES ASSUME WindowInv, [Next]_vars PROVE WindowInv'
  OBVIOUS
<1>1. CASE Feed
  <2>1. PICK n \in Slices, f \in Flushes \ {"finish"} : Call(n, f)
    BY <1>1 DEF Feed
  <2>2. n \in Nat /\ f \in FlushModes
    BY InputAssumption
  <2> QED BY <2>1, <2>2, CallKeepsWindow
<1>2. CASE Ask
  <2>1. PICK f \in Flushes : Call(IF f = "finish" THEN Len(data) - inLen ELSE 0, f)
    BY <1>2 DEF Ask
  <2>2. f \in FlushModes /\ (IF f = "finish" THEN Len(data) - inLen ELSE 0) \in Nat
    <3>1. Len(data) \in Nat /\ inLen \in 0 .. Len(data)
      BY InputAssumption DEF WindowInv
    <3>2. Len(data) - inLen \in Nat
      BY <3>1
    <3> QED BY <3>2, InputAssumption
  <2> QED BY <2>1, <2>2, CallKeepsWindow
<1>3. CASE Step
  BY <1>3, StepKeepsWindow
<1>4. CASE UNCHANGED vars
  <2>1. /\ data' = data /\ cfg' = cfg /\ s' = s /\ inPos' = inPos /\ inLen' = inLen /\ flush' = flush
    BY <1>4 DEF vars
  <2>2. Windowed(s', inPos') /\ MatchFits(s') /\ inLen' \in 0 .. Len(data) /\ inPos' \in 0 .. inLen'
        /\ (flush' = Idle => inPos' = inLen')
    BY <2>1 DEF WindowInv
  <2> QED BY <2>1, <2>2, WindowInvNext
<1> QED BY <1>1, <1>2, <1>3, <1>4 DEF Next

-----------------------------------------------------------------------------
(* Theorems                                                                *)

\* The inductive invariant: the window holds the stream up to the input
\* position, and no match reaches past the lookahead (fillWindow, deflateFast,
\* deflateSlow, deflateOnce).
THEOREM WindowInvariant == Spec => []WindowInv
BY InitWindowInv, NextKeepsWindow, PTL DEF Spec

\* Across slides, refills and full flushes every byte of the window is the byte
\* of the input it stands for, and none is missing (fillWindow, readBuf).
THEOREM Mirrored == Spec => []WindowMirrorsInput
<1>1. WindowInv => WindowMirrorsInput
  BY DEF WindowInv, Windowed, Mirrors, WindowMirrorsInput, Position
<1> QED BY <1>1, WindowInvariant, PTL

\* deflateOnce returns only when it has consumed its input, however the caller
\* cuts it up (Deflater.Deflate's "no progress" error is unreachable).
THEOREM Consumed == Spec => []ConsumesAll
<1>1. WindowInv => ConsumesAll
  <2> SUFFICES ASSUME WindowInv, flush = Idle PROVE inLen - inPos = 0
    BY DEF ConsumesAll, AvailIn
  <2>1. inPos = inLen /\ inLen \in 0 .. Len(data)
    BY DEF WindowInv
  <2>2. inLen \in Int
    BY <2>1
  <2> QED BY <2>1, <2>2
<1> QED BY <1>1, WindowInvariant, PTL

\* Every turn of deflateFast and deflateSlow takes at least a byte off the
\* lookahead, moves strstart on by as much and never past the data.
THEOREM Advancing == Spec => []LoopAdvances
<1>1. WindowInv => LoopAdvances
  <2> SUFFICES ASSUME WindowInv, Filled.s.lookahead > 0
               PROVE  LET t     == Filled.s
                          after == IF cfg.fn = "fast" THEN FastTurn(t) ELSE SlowTurn(t)
                      IN  /\ after.lookahead \in 0 .. t.lookahead - 1
                          /\ after.strstart + after.lookahead = t.strstart + t.lookahead
    BY DEF LoopAdvances
  <2> QED BY ParseTurns DEF Turned
<1> QED BY <1>1, WindowInvariant, PTL

\* longestMatch starts at most minLookahead bytes before the end of the window,
\* and the bytes it may load behind the data lie below highWater, where
\* fillWindow has written them (deflate.go:551-555).
THEOREM ProbesInitialised == Spec => []ProbesInWindow
<1>1. WindowInv => ProbesInWindow
  <2> SUFFICES ASSUME WindowInv
               PROVE  LET t == Filled.s
                      IN  /\ t.strstart <= WindowSize - MinLookahead
                          /\ \/ t.strstart + MaxMatch <= t.strstart + t.lookahead
                             \/ t.strstart + MaxMatch <= t.highWater
    BY DEF ProbesInWindow
  <2> DEFINE t == Filled.s
  <2>1. FilledFrom(s, inPos, t, Filled.pos)
    BY FilledFills
  <2> HIDE DEF t
  <2>2. /\ t.strstart \in Nat /\ t.lookahead \in Nat /\ t.strstart + MinLookahead <= WindowSize
        /\ t.lookahead >= MaxMatch \/ t.strstart + MaxMatch <= t.highWater
    BY <2>1 DEF FilledFrom, Windowed
  <2>3. t.strstart <= WindowSize - MinLookahead
    BY <2>2, SizesAre
  <2>4. t.lookahead >= MaxMatch => t.strstart + MaxMatch <= t.strstart + t.lookahead
    BY <2>2, SizesAre
  <2> QED BY <2>2, <2>3, <2>4 DEF t
<1> QED BY <1>1, WindowInvariant, PTL

-----------------------------------------------------------------------------
(* The hash of a string                                                    *)

LEMMA HashSizes ==
  /\ HashBits \in Nat /\ ByteBits \in Nat /\ ByteBits <= HashBits
  /\ HashShift \in Nat /\ HashShift + HashShift + HashShift >= HashBits
<1>1. HashBits \in Nat /\ ByteBits \in Nat /\ ByteBits <= HashBits
  BY SizeAssumption
<1>2. HashShift = (HashBits + 2) \div 3
  BY DEF HashShift, MinMatch
<1> QED BY <1>1, <1>2

LEMMA InXor ==
  ASSUME NEW A, NEW B, NEW y
  PROVE  y \in Xor(A, B) <=> ~(y \in A <=> y \in B)
BY DEF Xor

\* Which bits are set in a hash
LEMMA InHash3 ==
  ASSUME NEW a \in Byte, NEW b \in Byte, NEW c \in Byte, NEW y \in Int
  PROVE  y \in Hash3Of(a, b, c) <=>
           /\ y \in 0 .. HashBits - 1
           /\ ~(y - HashShift - HashShift \in a <=> ~(y - HashShift \in b <=> y \in c))
<1> DEFINE A == {i + 2 * HashShift : i \in a}
           B == {i + HashShift : i \in b}
<1>1. y \in A <=> y - HashShift - HashShift \in a
  <2>1. ASSUME NEW i \in a PROVE i \in Int
    BY DEF Byte
  <2> QED BY <2>1, HashSizes
<1>2. y \in B <=> y - HashShift \in b
  <2>1. ASSUME NEW i \in b PROVE i \in Int
    BY DEF Byte
  <2> QED BY <2>1, HashSizes
<1>3. Hash3Of(a, b, c) = Xor(Xor(A, B), c) \cap (0 .. HashBits - 1)
  BY DEF Hash3Of
<1> HIDE DEF A, B
<1>4. y \in Xor(Xor(A, B), c) <=> ~(y \in A <=> ~(y \in B <=> y \in c))
  <2>1. y \in Xor(A, B) <=> ~(y \in A <=> y \in B)
    BY InXor
  <2>2. y \in Xor(Xor(A, B), c) <=> ~(y \in Xor(A, B) <=> y \in c)
    BY InXor
  <2> QED BY <2>1, <2>2
<1> QED BY <1>1, <1>2, <1>3, <1>4

LEMMA InUpdated ==
  ASSUME NEW h \in Hash, NEW c \in Byte, NEW y \in Int
  PROVE  y \in UpdateHash(h, c) <=>
           /\ y \in 0 .. HashBits - 1
           /\ ~(y - HashShift \in h <=> y \in c)
<1> DEFINE A == {i + HashShift : i \in h} \cap (0 .. HashBits - 1)
<1>1. y \in A <=> y - HashShift \in h /\ y \in 0 .. HashBits - 1
  <2>1. ASSUME NEW i \in h PROVE i \in Int
    BY DEF Hash
  <2> QED BY <2>1, HashSizes
<1>2. UpdateHash(h, c) = Xor(A, c)
  BY DEF UpdateHash
<1>3. y \in c => y \in 0 .. HashBits - 1
  BY HashSizes DEF Byte
<1> HIDE DEF A
<1>4. y \in Xor(A, c) <=> ~(y \in A <=> y \in c)
  BY InXor
<1> QED BY <1>1, <1>2, <1>3, <1>4

LEMMA ByteIsHash == Byte \subseteq Hash
BY HashSizes DEF Byte, Hash

LEMMA Hash3Typed == \A a \in Byte, b \in Byte, c \in Byte : Hash3Of(a, b, c) \in Hash
<1>1. \A a \in Byte, b \in Byte, c \in Byte : Hash3Of(a, b, c) \subseteq 0 .. HashBits - 1
  BY DEF Hash3Of
<1> QED BY <1>1 DEF Hash

LEMMA UpdateTyped == \A h \in Hash, c \in Byte : UpdateHash(h, c) \in Hash
<1>1. \A c \in Byte : c \subseteq 0 .. HashBits - 1
  BY HashSizes DEF Byte
<1>2. \A h \in Hash, c \in Byte : UpdateHash(h, c) \subseteq 0 .. HashBits - 1
  BY <1>1 DEF UpdateHash, Xor
<1> QED BY <1>2 DEF Hash

\* Rolling on: the oldest byte is shifted out
LEMMA RollsOn ==
  ASSUME NEW a \in Byte, NEW b \in Byte, NEW c \in Byte, NEW d \in Byte
  PROVE  UpdateHash(Hash3Of(a, b, c), d) = Hash3Of(b, c, d)
<1> DEFINE h == Hash3Of(a, b, c)
<1>1. h \in Hash /\ UpdateHash(h, d) \in Hash /\ Hash3Of(b, c, d) \in Hash
  BY ByteIsHash, Hash3Typed, UpdateTyped
<1>2. ASSUME NEW y \in 0 .. HashBits - 1
      PROVE  y \in UpdateHash(h, d) <=> y \in Hash3Of(b, c, d)
  <2>1. y \in Int /\ y - HashShift \in Int
    BY HashSizes
  <2>2. y \in UpdateHash(h, d) <=> ~(y - HashShift \in h <=> y \in d)
    <3> HIDE DEF h
    <3> QED BY <1>1, <2>1, InUpdated
  <2> DEFINE z == y - HashShift
  <2>3. z \in h <=> /\ z \in 0 .. HashBits - 1
                    /\ ~(z - HashShift - HashShift \in a <=> ~(z - HashShift \in b <=> z \in c))
    BY <2>1, InHash3
  <2>4. z - HashShift - HashShift \notin a
    <3>1. z - HashShift - HashShift < 0
      BY HashSizes
    <3>2. \A i \in a : i >= 0
      BY DEF Byte
    <3> QED BY <2>1, <3>1, <3>2, HashSizes
  <2>5. z \notin 0 .. HashBits - 1 => z - HashShift \notin b /\ z \notin c
    <3>1. z \notin 0 .. HashBits - 1 => z < 0 /\ z - HashShift < 0
      BY HashSizes
    <3>2. (\A i \in b : i >= 0) /\ (\A i \in c : i >= 0)
      BY DEF Byte
    <3> QED BY <2>1, <3>1, <3>2, HashSizes
  <2>6. y \in Hash3Of(b, c, d) <=> ~(y - HashShift - HashShift \in b <=> ~(y - HashShift \in c <=> y \in d))
    BY <2>1, InHash3
  <2>7. z - HashShift = y - HashShift - HashShift
    BY HashSizes
  <2> QED BY <2>2, <2>3, <2>4, <2>5, <2>6, <2>7
<1> HIDE DEF h
<1>3. UpdateHash(h, d) \subseteq 0 .. HashBits - 1 /\ Hash3Of(b, c, d) \subseteq 0 .. HashBits - 1
  BY <1>1 DEF Hash
<1> QED BY <1>2, <1>3 DEF h

\* Restarting: two bytes are enough to roll the third in
LEMMA RollsFrom ==
  ASSUME NEW a \in Byte, NEW b \in Byte, NEW c \in Byte
  PROVE  UpdateHash(UpdateHash(a, b), c) = Hash3Of(a, b, c)
<1> DEFINE h == UpdateHash(a, b)
<1>1. a \in Hash /\ h \in Hash /\ UpdateHash(h, c) \in Hash /\ Hash3Of(a, b, c) \in Hash
  BY ByteIsHash, Hash3Typed, UpdateTyped
<1>2. ASSUME NEW y \in 0 .. HashBits - 1
      PROVE  y \in UpdateHash(h, c) <=> y \in Hash3Of(a, b, c)
  <2> DEFINE z == y - HashShift
  <2>1. y \in Int /\ z \in Int
    BY HashSizes
  <2>2. y \in UpdateHash(h, c) <=> ~(z \in h <=> y \in c)
    <3> HIDE DEF h
    <3> QED BY <1>1, <2>1, InUpdated
  <2>3. z \in h <=> /\ z \in 0 .. HashBits - 1 /\ ~(z - HashShift \in a <=> z \in b)
    BY <1>1, <2>1, InUpdated
  <2>4. z \notin 0 .. HashBits - 1 => z - HashShift \notin a /\ z \notin b
    <3>1. z \notin 0 .. HashBits - 1 => z < 0 /\ z - HashShift < 0
      BY HashSizes
    <3>2. (\A i \in a : i >= 0) /\ (\A i \in b : i >= 0)
      BY DEF Byte
    <3> QED BY <2>1, <3>1, <3>2, HashSizes
  <2>5. y \in Hash3Of(a, b, c) <=> ~(y - HashShift - HashShift \in a <=> ~(y - HashShift \in b <=> y \in c))
    BY <2>1, InHash3
  <2>6. z - HashShift = y - HashShift - HashShift
    BY HashSizes
  <2> QED BY <2>2, <2>3, <2>4, <2>5, <2>6
<1> HIDE DEF h
<1>3. UpdateHash(h, c) \subseteq 0 .. HashBits - 1 /\ Hash3Of(a, b, c) \subseteq 0 .. HashBits - 1
  BY <1>1 DEF Hash
<1> QED BY <1>2, <1>3 DEF h

-----------------------------------------------------------------------------
(* Chains                                                                  *)

\* Positions of the window, modulo WSize, as the source's masks have them
LEMMA Residue ==
  ASSUME NEW p \in 0 .. WindowSize - 1
  PROVE  /\ p % WSize \in 0 .. WSize - 1
         /\ p % WSize = IF p < WSize THEN p ELSE p - WSize
<1>1. WSize \in Nat /\ WSize > 0 /\ WindowSize = WSize + WSize
  BY SizesAre
<1>2. CASE p < WSize
  <2>1. p \in 0 .. WSize - 1
    BY <1>1, <1>2
  <2>2. p % WSize = p
    BY <1>1, <2>1
  <2> QED BY <1>2, <2>1, <2>2
<1>3. CASE ~(p < WSize)
  <2>1. p \in WSize .. WSize + WSize - 1 /\ p - WSize \in 0 .. WSize - 1
    BY <1>1, <1>3
  <2>2. p % WSize = p - WSize
    BY <1>1, <2>1
  <2> QED BY <1>3, <2>1, <2>2
<1> QED BY <1>2, <1>3

LEMMA ResidueDiffers ==
  ASSUME NEW p \in 0 .. WindowSize - 1, NEW q \in 0 .. WindowSize - 1, p < q, q < p + WSize
  PROVE  p % WSize # q % WSize
<1>1. /\ p % WSize = IF p < WSize THEN p ELSE p - WSize
      /\ q % WSize = IF q < WSize THEN q ELSE q - WSize
  BY Residue
<1>2. WSize \in Nat /\ WSize > 0
  BY SizesAre
<1> QED BY <1>1, <1>2

TablesOK(t) ==
  /\ DOMAIN t = StateFields
  /\ t.prev \in [0 .. WSize - 1 -> 0 .. WindowSize - 1]
  /\ t.head \in [Hash -> 0 .. WindowSize - 1]
  /\ t.insH \in Hash

\* The live positions L lie between the floor f and the newest position g: each
\* head is a live position of its hash or below the floor, and so is each link
ChainSet(t, f, g, L) ==
  /\ L \subseteq f .. g - 1
  /\ \A h \in Hash : t.head[h] < f \/ (t.head[h] \in L /\ Hash3(t.window, t.head[h]) = h)
  /\ \A p \in L : \/ t.prev[p % WSize] < f
                  \/ /\ t.prev[p % WSize] \in L /\ t.prev[p % WSize] < p
                     /\ Hash3(t.window, t.prev[p % WSize]) = Hash3(t.window, p)
Chained(t, f, g) == \E L : ChainSet(t, f, g, L)

\* Raising the floor lets go of the positions below it
LEMMA ChainedMore ==
  ASSUME NEW t, TablesOK(t), NEW f \in Nat, NEW g \in Int, NEW e \in Nat, NEW m \in Int,
         f <= e, g <= m, Chained(t, f, g)
  PROVE  Chained(t, e, m)
<1>1. PICK L : ChainSet(t, f, g, L)
  BY DEF Chained
<1> DEFINE K == {p \in L : e <= p}
<1>2. L \subseteq f .. g - 1
  BY <1>1 DEF ChainSet
<1>3. K \subseteq e .. m - 1
  <2>1. ASSUME NEW p \in K PROVE p \in e .. m - 1
    <3>1. p \in f .. g - 1 /\ e <= p
      BY <1>2
    <3> QED BY <3>1
  <2> QED BY <2>1
<1>4. ASSUME NEW h \in Hash
      PROVE  t.head[h] < e \/ (t.head[h] \in K /\ Hash3(t.window, t.head[h]) = h)
  <2>1. t.head[h] \in Int
    BY SizesAre DEF TablesOK
  <2>2. t.head[h] < f \/ (t.head[h] \in L /\ Hash3(t.window, t.head[h]) = h)
    BY <1>1 DEF ChainSet
  <2> QED BY <2>1, <2>2
<1>5. ASSUME NEW p \in K
      PROVE  \/ t.prev[p % WSize] < e
             \/ /\ t.prev[p % WSize] \in K /\ t.prev[p % WSize] < p
                /\ Hash3(t.window, t.prev[p % WSize]) = Hash3(t.window, p)
  <2> DEFINE q == t.prev[p % WSize]
  <2>1. \/ q < f
        \/ q \in L /\ q < p /\ Hash3(t.window, q) = Hash3(t.window, p)
    BY <1>1 DEF ChainSet
  <2>2. p \in L
    OBVIOUS
  <2>3. p \in Nat
    BY <1>2, <2>2
  <2>4. q \in Int
    <3>1. p % WSize \in 0 .. WSize - 1
      BY <2>3, SizesAre
    <3> QED BY <3>1, SizesAre DEF TablesOK
  <2> HIDE DEF q
  <2>5. q < e \/ (q \in K /\ q < p /\ Hash3(t.window, q) = Hash3(t.window, p))
    BY <2>1, <2>4
  <2> QED BY <2>5 DEF q
<1> HIDE DEF K
<1>6. ChainSet(t, e, m, K)
  BY <1>3, <1>4, <1>5 DEF ChainSet
<1> QED BY <1>6 DEF Chained

\* Only the tables and the bytes of the strings matter
LEMMA ChainedFrame ==
  ASSUME NEW t, NEW u, NEW f \in Nat, NEW g \in Int, Chained(t, f, g),
         u.head = t.head, u.prev = t.prev,
         \A i \in 0 .. g + 1 : u.window[i] = t.window[i]
  PROVE  Chained(u, f, g)
<1>1. PICK L : ChainSet(t, f, g, L)
  BY DEF Chained
<1>2. L \subseteq f .. g - 1
  BY <1>1 DEF ChainSet
<1>3. ASSUME NEW p \in L PROVE Hash3(u.window, p) = Hash3(t.window, p)
  <2>1. p \in 0 .. g + 1 /\ p + 1 \in 0 .. g + 1 /\ p + 2 \in 0 .. g + 1
    BY <1>2
  <2> QED BY <2>1 DEF Hash3
<1>4. ChainSet(u, f, g, L)
  BY <1>1, <1>3 DEF ChainSet
<1> QED BY <1>4 DEF Chained

\* A string newer than all others becomes the head of its chain
LEMMA LinkChained ==
  ASSUME NEW t, TablesOK(t), NEW f \in Nat, NEW g \in Int, Chained(t, f, g),
         NEW str \in 0 .. WindowSize - 1, g <= str, str < f + WSize,
         NEW h \in Hash, h = Hash3(t.window, str)
  PROVE  LET u == Link(t, h, str)
         IN  TablesOK(u) /\ Chained(u, f, str + 1) /\ u.window = t.window /\ u.insH = t.insH
<1> DEFINE u == Link(t, h, str)
<1>1. PICK L : ChainSet(t, f, g, L)
  BY DEF Chained
<1>2. L \subseteq f .. g - 1
  BY <1>1 DEF ChainSet
<1>3. /\ DOMAIN u = StateFields /\ u.window = t.window /\ u.insH = t.insH
      /\ u.prev = [t.prev EXCEPT ![str % WSize] = t.head[h]]
      /\ u.head = [t.head EXCEPT ![h] = str]
  BY DEF Link, TablesOK, StateFields
<1> HIDE DEF u
<1>4. str % WSize \in 0 .. WSize - 1
  BY Residue
<1>5. TablesOK(u)
  <2>1. u.prev \in [0 .. WSize - 1 -> 0 .. WindowSize - 1]
    BY <1>3, <1>4 DEF TablesOK
  <2>2. u.head \in [Hash -> 0 .. WindowSize - 1]
    BY <1>3 DEF TablesOK
  <2> QED BY <1>3, <2>1, <2>2 DEF TablesOK
<1> DEFINE K == IF str < f THEN L ELSE L \cup {str}
<1>6. K \subseteq f .. (str + 1) - 1
  BY <1>2
<1>7. L \subseteq K /\ (str < f \/ str \in K) /\ \A p \in K : p \in L \/ p = str
  OBVIOUS
<1> HIDE DEF K
<1>8. ASSUME NEW k \in Hash
      PROVE  u.head[k] < f \/ (u.head[k] \in K /\ Hash3(u.window, u.head[k]) = k)
  <2>1. CASE k = h
    <3>1. u.head[k] = str
      BY <1>3, <2>1 DEF TablesOK
    <3> QED BY <1>3, <1>7, <2>1, <3>1
  <2>2. CASE k # h
    <3>1. u.head[k] = t.head[k]
      BY <1>3, <2>2 DEF TablesOK
    <3> QED BY <1>1, <1>3, <1>7, <3>1 DEF ChainSet
  <2> QED BY <2>1, <2>2
<1>9. ASSUME NEW p \in K
      PROVE  \/ u.prev[p % WSize] < f
             \/ /\ u.prev[p % WSize] \in K /\ u.prev[p % WSize] < p
                /\ Hash3(u.window, u.prev[p % WSize]) = Hash3(u.window, p)
  <2>1. CASE p = str
    <3>1. u.prev[p % WSize] = t.head[h]
      BY <1>3, <1>4, <2>1 DEF TablesOK
    <3>2. t.head[h] < f \/ (t.head[h] \in L /\ Hash3(t.window, t.head[h]) = h)
      BY <1>1 DEF ChainSet
    <3>3. t.head[h] \in L => t.head[h] < str
      <4>1. ASSUME NEW q \in L PROVE q < str
        <5>1. q \in f .. g - 1
          BY <1>2
        <5> QED BY <5>1
      <4> QED BY <4>1
    <3> QED BY <1>3, <1>7, <2>1, <3>1, <3>2, <3>3
  <2>2. CASE p # str
    <3>1. p \in L
      BY <1>7, <2>2
    <3>2. p \in 0 .. WindowSize - 1 /\ p < str /\ str < p + WSize
      BY <1>2, <3>1, SizesAre
    <3>3. p % WSize # str % WSize
      BY <3>2, ResidueDiffers
    <3>4. u.prev[p % WSize] = t.prev[p % WSize]
      <4>1. p % WSize \in 0 .. WSize - 1
        BY <3>2, Residue
      <4> QED BY <1>3, <3>3, <4>1 DEF TablesOK
    <3> QED BY <1>1, <1>3, <1>7, <3>1, <3>4 DEF ChainSet
  <2> QED BY <2>1, <2>2
<1>10. ChainSet(u, f, str + 1, K)
  BY <1>6, <1>8, <1>9 DEF ChainSet
<1> QED BY <1>3, <1>5, <1>10 DEF Chained, u

\* insH holds the two bytes at str, ready for the third
Rolled(t, str) ==
  \A c \in Byte : UpdateHash(t.insH, c) = Hash3Of(t.window[str], t.window[str + 1], c)

Bytes(t) == t.window \in [0 .. WindowSize - 1 -> Byte]

LEMMA StringHash ==
  ASSUME NEW t, Bytes(t), NEW str \in Nat, str + 2 <= WindowSize - 1
  PROVE  /\ Hash3(t.window, str) \in Hash
         /\ Hash3(t.window, str) = Hash3Of(t.window[str], t.window[str + 1], t.window[str + 2])
         /\ t.window[str] \in Byte /\ t.window[str + 1] \in Byte /\ t.window[str + 2] \in Byte
         /\ str \in 0 .. WindowSize - 1
<1>1. str \in 0 .. WindowSize - 1 /\ str + 1 \in 0 .. WindowSize - 1 /\ str + 2 \in 0 .. WindowSize - 1
  BY SizesAre
<1>2. t.window[str] \in Byte /\ t.window[str + 1] \in Byte /\ t.window[str + 2] \in Byte
  BY <1>1 DEF Bytes
<1> QED BY <1>1, <1>2, Hash3Typed DEF Hash3

LEMMA RolledOver ==
  ASSUME NEW t, Bytes(t), NEW str \in Nat, str + 2 <= WindowSize - 1, t.insH = Hash3(t.window, str)
  PROVE  Rolled(t, str + 1)
<1>1. /\ t.window[str] \in Byte /\ t.window[str + 1] \in Byte /\ t.window[str + 2] \in Byte
      /\ t.insH = Hash3Of(t.window[str], t.window[str + 1], t.window[str + 2])
  BY StringHash
<1>2. ASSUME NEW c \in Byte
      PROVE  UpdateHash(t.insH, c) = Hash3Of(t.window[str + 1], t.window[str + 2], c)
  BY <1>1, RollsOn
<1>3. (str + 1) + 1 = str + 2
  OBVIOUS
<1> QED BY <1>2, <1>3 DEF Rolled

\* INSERT_STRING with a hash that has been rolled up to the string
LEMMA InsertStringChained ==
  ASSUME NEW t, TablesOK(t), Bytes(t), NEW f \in Nat, NEW g \in Int, Chained(t, f, g),
         NEW str \in Nat, str + 2 <= WindowSize - 1, g <= str, str < f + WSize, Rolled(t, str)
  PROVE  LET u == InsertString(t, str)
         IN  /\ TablesOK(u) /\ Chained(u, f, str + 1) /\ u.window = t.window
             /\ Rolled(u, str + 1)
<1> DEFINE h == UpdateHash(t.insH, t.window[str + MinMatch - 1])
           l == Link(t, h, str)
           u == InsertString(t, str)
<1>1. /\ Hash3(t.window, str) \in Hash /\ str \in 0 .. WindowSize - 1
      /\ t.window[str + 2] \in Byte
      /\ Hash3(t.window, str) = Hash3Of(t.window[str], t.window[str + 1], t.window[str + 2])
  BY StringHash
<1>2. h = Hash3(t.window, str)
  <2>1. str + MinMatch - 1 = str + 2
    BY SizesAre
  <2> QED BY <1>1, <2>1 DEF Rolled
<1>3. u = [l EXCEPT !.insH = h]
  BY DEF InsertString
<1> HIDE DEF h
<1>4. TablesOK(l) /\ Chained(l, f, str + 1) /\ l.window = t.window
  BY <1>1, <1>2, LinkChained
<1> HIDE DEF l, u
<1>5. /\ DOMAIN u = StateFields /\ u.window = l.window /\ u.head = l.head /\ u.prev = l.prev /\ u.insH = h
  BY <1>3, <1>4 DEF TablesOK, StateFields
<1>6. TablesOK(u)
  BY <1>1, <1>2, <1>4, <1>5 DEF TablesOK
<1>7. Chained(u, f, str + 1)
  BY <1>4, <1>5, ChainedFrame
<1>8. Rolled(u, str + 1)
  BY <1>2, <1>4, <1>5, RolledOver DEF Bytes
<1> QED BY <1>4, <1>5, <1>6, <1>7, <1>8 DEF u

\* insertRun: strings hashed one by one
LEMMA InsertRunChained ==
  ASSUME NEW t, TablesOK(t), Bytes(t), NEW f \in Nat, NEW g \in Int, Chained(t, f, g),
         NEW first \in Nat, NEW last \in Nat, first <= last, last + 2 <= WindowSize - 1,
         g <= first, last < f + WSize
  PROVE  LET u == InsertRun(t, first, last)
         IN  TablesOK(u) /\ Chained(u, f, last + 1) /\ u.window = t.window
<1>1. PICK run : /\ InsertRun(t, first, last) = run[last] /\ run[first - 1] = t
                 /\ \A str \in first .. last :
                      run[str] = Link(run[str - 1], Hash3(t.window, str), str)
  BY ZenonT(60), InsertRunIs
<1> DEFINE Good(r, m) == TablesOK(r) /\ Chained(r, f, m) /\ r.window = t.window
           X == {k \in Nat : Good(run[(first - 1) + k], first + k)}
           n == last - first + 1
<1>2. n \in Nat /\ (first - 1) + n = last /\ first + n = last + 1
  OBVIOUS
<1>3. 0 \in X
  <2>1. (first - 1) + 0 = first - 1 /\ first + 0 = first
    OBVIOUS
  <2>2. Chained(t, f, first)
    BY ChainedMore
  <2>3. Good(run[(first - 1) + 0], first + 0)
    BY <1>1, <2>1, <2>2
  <2> HIDE DEF Good
  <2> QED BY <2>3
<1>4. ASSUME NEW k \in 0 .. n - 1, k \in X PROVE k + 1 \in X
  <2> DEFINE str == first + k
  <2>1. /\ str \in first .. last /\ str - 1 = (first - 1) + k /\ str = (first - 1) + (k + 1)
        /\ k + 1 \in Nat /\ str + 1 = first + (k + 1) /\ str \in Nat /\ k \in Nat
    OBVIOUS
  <2> DEFINE r == run[str - 1]
  <2>2. Good(r, str)
    BY <1>4, <2>1
  <2> HIDE DEF str
  <2>3. run[str] = Link(r, Hash3(t.window, str), str)
    BY <1>1, <2>1
  <2>4. str + 2 <= WindowSize - 1 /\ str < f + WSize
    BY <2>1, SizesAre
  <2>5. Hash3(t.window, str) \in Hash /\ str \in 0 .. WindowSize - 1
    BY <2>1, <2>4, StringHash
  <2>6. Good(run[str], str + 1)
    <3> HIDE DEF r
    <3> QED BY <2>1, <2>2, <2>3, <2>4, <2>5, LinkChained
  <2> HIDE DEF Good
  <2> QED BY <2>1, <2>6
<1> HIDE DEF X, n
<1>5. n \in X
  BY <1>2, <1>3, <1>4, InductionUpTo
<1>6. Good(run[last], last + 1)
  BY <1>2, <1>5 DEF X
<1> QED BY <1>1, <1>6

-----------------------------------------------------------------------------
(* The chains of a state                                                   *)

\* Farthest position a match may start at; no position below it is followed
Floor(t) == IF t.strstart > MaxDistance THEN t.strstart - MaxDistance ELSE 1

\* No string is inserted that waits for its bytes
Newest(t) == Min2(t.strstart - t.insert, t.strstart + t.lookahead - 2)

Hashed(t) ==
  /\ TablesOK(t)
  /\ t.insert > 0 => t.lookahead < 2
  /\ t.lookahead >= MinMatch => Rolled(t, t.strstart)
  /\ Chained(t, Floor(t), Newest(t))

LEMMA FloorIs ==
  ASSUME NEW t, t.strstart \in Nat
  PROVE  Floor(t) \in Nat /\ Floor(t) >= 1 /\ t.strstart <= Floor(t) + MaxDistance
BY SizesAre DEF Floor

LEMMA NewestIs ==
  ASSUME NEW t, NEW pos, Windowed(t, pos)
  PROVE  /\ Newest(t) \in Int /\ Newest(t) <= t.strstart - t.insert
         /\ Newest(t) <= t.strstart + t.lookahead - 2
         /\ t.strstart \in Nat /\ t.insert \in Nat /\ t.insert <= t.strstart /\ t.insert <= 2
         /\ t.lookahead \in Nat /\ t.strstart + t.lookahead <= WindowSize
<1>1. /\ t.strstart \in Nat /\ t.insert \in Nat /\ t.lookahead \in Nat /\ t.insert <= 2 /\ t.insert <= t.strstart
      /\ t.strstart + t.lookahead <= WindowSize
  BY SizesAre DEF Windowed
<1> QED BY <1>1 DEF Newest, Min2

\* The bytes of the data stay; so do the strings
LEMMA HashedFrame ==
  ASSUME NEW t, NEW u, NEW pos, NEW ahead, Windowed(t, pos), Windowed(u, ahead), Hashed(t),
         u.base = t.base, u.strstart = t.strstart, u.lookahead = t.lookahead, u.insert = t.insert,
         u.head = t.head, u.prev = t.prev, u.insH = t.insH
  PROVE  Hashed(u)
<1>1. \A i \in 0 .. t.strstart + t.lookahead - 1 : u.window[i] = t.window[i]
  BY DEF Windowed, Mirrors
<1>2. Newest(u) = Newest(t) /\ Floor(u) = Floor(t)
  BY DEF Newest, Floor
<1>3. Floor(t) \in Nat /\ Newest(t) \in Int /\ t.strstart \in Nat /\ t.lookahead \in Nat
      /\ Newest(t) <= t.strstart + t.lookahead - 2
  BY FloorIs, NewestIs
<1>4. \A i \in 0 .. Newest(t) + 1 : u.window[i] = t.window[i]
  BY <1>1, <1>3
<1>5. Chained(u, Floor(u), Newest(u))
  BY <1>2, <1>3, <1>4, ChainedFrame DEF Hashed
<1>6. TablesOK(u)
  BY DEF Hashed, TablesOK, Windowed
<1>7. u.lookahead >= MinMatch => Rolled(u, u.strstart)
  <2> SUFFICES ASSUME t.lookahead >= MinMatch PROVE Rolled(u, t.strstart)
    OBVIOUS
  <2>1. t.strstart \in 0 .. t.strstart + t.lookahead - 1 /\ t.strstart + 1 \in 0 .. t.strstart + t.lookahead - 1
    BY <1>3, SizesAre
  <2>2. u.window[t.strstart] = t.window[t.strstart] /\ u.window[t.strstart + 1] = t.window[t.strstart + 1]
    BY <1>1, <2>1
  <2>3. Rolled(t, t.strstart)
    BY DEF Hashed
  <2> QED BY <2>2, <2>3 DEF Rolled
<1> QED BY <1>5, <1>6, <1>7 DEF Hashed

\* Restarting the hash catches up with the strings that waited for input
LEMMA RehashHashed ==
  ASSUME NEW t, NEW pos, Windowed(t, pos), TablesOK(t), Chained(t, Floor(t), Newest(t))
  PROVE  Hashed(Rehash(t))
<1>1. /\ t.strstart \in Nat /\ t.insert \in Nat /\ t.insert <= t.strstart /\ t.lookahead \in Nat
      /\ t.strstart + t.lookahead <= WindowSize /\ Newest(t) \in Int
      /\ Newest(t) <= t.strstart - t.insert /\ Newest(t) <= t.strstart + t.lookahead - 2
  BY NewestIs
<1>2. Floor(t) \in Nat /\ t.strstart <= Floor(t) + MaxDistance
  BY <1>1, FloorIs
<1>3. CASE Rehash(t) = t /\ t.lookahead + t.insert < MinMatch
  <2>1. (t.insert > 0 => t.lookahead < 2) /\ ~(t.lookahead >= MinMatch)
    BY <1>1, <1>3, SizesAre
  <2> QED BY <1>3, <2>1 DEF Hashed
<1>4. CASE ~(Rehash(t) = t /\ t.lookahead + t.insert < MinMatch)
  <2>0. PICK run, first, count : Rehashed(t, run, first, count)
    BY <1>1, <1>4, RehashIs DEF Windowed
  <2> DEFINE u == Rehash(t)
  <2>1. /\ first = t.strstart - t.insert
        /\ count = Min2(t.insert, t.lookahead + t.insert - MinMatch + 1)
        /\ count \in 0 .. t.insert /\ t.lookahead + t.insert >= MinMatch
        /\ run[0] = [t EXCEPT !.insH = UpdateHash(t.window[first], t.window[first + 1])]
        /\ \A k \in 1 .. count : run[k] = InsertString(run[k - 1], first + k - 1)
        /\ u = [run[count] EXCEPT !.insert = @ - count]
    BY <2>0 DEF Rehashed
  <2>2. /\ first \in Nat /\ count \in Nat /\ count <= t.insert
        /\ first + count <= t.strstart /\ first + count + 2 <= t.strstart + t.lookahead
        /\ first + 2 <= t.strstart + t.lookahead
        /\ Newest(t) <= first
        /\ count < t.insert => t.lookahead < 2 /\ first + count = t.strstart + t.lookahead - 2
        /\ count = t.insert => first + count = t.strstart
    <3>1. count = Min2(t.insert, t.lookahead + t.insert - 2)
      BY <1>1, <2>1, SizesAre
    <3> QED BY <1>1, <2>1, <3>1, SizesAre DEF Min2
  <2> DEFINE Good(r, m) == TablesOK(r) /\ Chained(r, Floor(t), m) /\ r.window = t.window /\ Rolled(r, m)
             X == {k \in Nat : Good(run[k], first + k)}
  <2>3. Good(run[0], first)
    <3>1. first \in 0 .. WindowSize - 1 /\ first + 1 \in 0 .. WindowSize - 1
      BY <1>1, <2>2, SizesAre
    <3>2. t.window[first] \in Byte /\ t.window[first + 1] \in Byte
      BY <3>1 DEF Windowed
    <3> DEFINE h == UpdateHash(t.window[first], t.window[first + 1])
    <3>3. h \in Hash
      BY <3>2, ByteIsHash, UpdateTyped
    <3>4. \A c \in Byte : UpdateHash(h, c) = Hash3Of(t.window[first], t.window[first + 1], c)
      BY <3>2, RollsFrom
    <3> HIDE DEF h
    <3>5. /\ DOMAIN run[0] = StateFields /\ run[0].window = t.window /\ run[0].head = t.head
          /\ run[0].prev = t.prev /\ run[0].insH = h
      BY <2>1 DEF TablesOK, StateFields, h
    <3>6. TablesOK(run[0])
      BY <3>3, <3>5 DEF TablesOK
    <3>7. Chained(t, Floor(t), first)
      BY <1>1, <1>2, <2>2, ChainedMore
    <3>8. Chained(run[0], Floor(t), first)
      BY <1>2, <2>2, <3>5, <3>7, ChainedFrame
    <3>9. Rolled(run[0], first)
      BY <3>4, <3>5 DEF Rolled
    <3> QED BY <3>5, <3>6, <3>8, <3>9
  <2>4. ASSUME NEW k \in 0 .. count - 1, k \in X PROVE k + 1 \in X
    <3> DEFINE str == first + k
    <3>1. /\ k + 1 \in 1 .. count /\ (k + 1) - 1 = k /\ first + (k + 1) - 1 = str /\ k + 1 \in Nat
          /\ str \in Nat /\ str + 1 = first + (k + 1) /\ str + 1 <= first + count
      BY <2>2
    <3>2. Good(run[k], str)
      BY <2>4
    <3> HIDE DEF str
    <3>3. run[k + 1] = InsertString(run[k], str)
      BY <2>1, <3>1
    <3>4. str + 2 <= WindowSize - 1 /\ str < Floor(t) + WSize
      BY <1>1, <1>2, <2>2, <3>1, SizesAre
    <3>5. Bytes(run[k])
      BY <3>2 DEF Bytes, Windowed
    <3>6. Good(run[k + 1], str + 1)
      <4> DEFINE r == run[k]
      <4> HIDE DEF r
      <4>1. TablesOK(r) /\ Bytes(r) /\ Chained(r, Floor(t), str) /\ Rolled(r, str) /\ r.window = t.window
        BY <3>2, <3>5 DEF r
      <4>2. LET v == InsertString(r, str)
            IN  TablesOK(v) /\ Chained(v, Floor(t), str + 1) /\ v.window = r.window /\ Rolled(v, str + 1)
        BY <1>2, <3>1, <3>4, <4>1, InsertStringChained
      <4>3. run[k + 1] = InsertString(r, str)
        BY <3>3 DEF r
      <4> QED BY <4>1, <4>2, <4>3
    <3> HIDE DEF Good
    <3> QED BY <3>1, <3>6
  <2>5. count \in X
    <3>1. first + 0 = first
      BY <2>2
    <3>2. 0 \in X
      <4> HIDE DEF Good
      <4> QED BY <2>3, <3>1
    <3> HIDE DEF X
    <3> QED BY <2>2, <2>4, <3>2, InductionUpTo
  <2>6. Good(run[count], first + count)
    <3> HIDE DEF Good
    <3> QED BY <2>5
  <2> HIDE DEF X, u
  <2>7. Keeps(t, u, Chains \cup {"insert"})
    BY <1>1, RehashKeeps DEF Windowed, u
  <2>8. u.strstart = t.strstart /\ u.lookahead = t.lookahead
    BY <2>7 DEF Keeps, StateFields, Chains
  <2>9. run[count].insert = t.insert
    <3> DEFINE Y == {k \in Nat : run[k].insert = t.insert /\ DOMAIN run[k] = StateFields}
    <3>1. 0 \in Y
      BY <2>1 DEF TablesOK, StateFields
    <3>2. ASSUME NEW k \in 0 .. count - 1, k \in Y PROVE k + 1 \in Y
      <4>1. k + 1 \in 1 .. count /\ (k + 1) - 1 = k /\ k + 1 \in Nat
        BY <2>2
      <4>2. run[k + 1] = InsertString(run[k], first + (k + 1) - 1)
        BY <2>1, <4>1
      <4>3. Keeps(run[k], run[k + 1], Chains)
        BY <3>2, <4>2, InsertStringKeeps
      <4>4. run[k + 1].insert = t.insert /\ DOMAIN run[k + 1] = StateFields
        BY <3>2, <4>3 DEF Keeps, StateFields, Chains
      <4> QED BY <4>1, <4>4
    <3> HIDE DEF Y
    <3>3. count \in Y
      BY <2>2, <3>1, <3>2, InductionUpTo
    <3> QED BY <3>3 DEF Y
  <2>10. /\ u.window = run[count].window /\ u.head = run[count].head /\ u.prev = run[count].prev
         /\ u.insH = run[count].insH /\ u.insert = t.insert - count /\ DOMAIN u = StateFields
    BY <2>1, <2>6, <2>9 DEF TablesOK, StateFields
  <2>11. TablesOK(u)
    BY <2>6, <2>10 DEF TablesOK
  <2>12. Floor(u) = Floor(t) /\ Newest(u) = first + count
    BY <1>1, <2>1, <2>2, <2>8, <2>10 DEF Floor, Newest, Min2
  <2>13. Chained(u, Floor(u), Newest(u))
    BY <1>2, <2>2, <2>6, <2>10, <2>12, ChainedFrame
  <2>14. u.insert > 0 => u.lookahead < 2
    BY <1>1, <2>2, <2>8, <2>10
  <2>15. u.lookahead >= MinMatch => Rolled(u, u.strstart)
    <3> SUFFICES ASSUME u.lookahead >= MinMatch PROVE Rolled(u, u.strstart)
      OBVIOUS
    <3>1. first + count = t.strstart
      BY <1>1, <2>2, <2>8, SizesAre
    <3> QED BY <2>6, <2>8, <2>10, <3>1 DEF Rolled
  <2> QED BY <2>11, <2>13, <2>14, <2>15 DEF Hashed, u
<1> QED BY <1>3, <1>4

\* slideTable: a position of the upper half keeps its string
LEMMA SlideTableIs ==
  ASSUME NEW D, NEW tab \in [D -> 0 .. WindowSize - 1]
  PROVE  /\ SlideTable(tab) \in [D -> 0 .. WindowSize - 1]
         /\ \A i \in D : SlideTable(tab)[i] = IF tab[i] >= WSize THEN tab[i] - WSize ELSE 0
<1>1. \A i \in D : SlideTable(tab)[i] = IF tab[i] >= WSize THEN tab[i] - WSize ELSE 0
  BY DEF SlideTable, NilPos
<1>2. ASSUME NEW i \in D
      PROVE  (IF tab[i] >= WSize THEN tab[i] - WSize ELSE 0) \in 0 .. WindowSize - 1
  <2>1. tab[i] \in 0 .. WindowSize - 1
    OBVIOUS
  <2> QED BY <2>1, SizesAre
<1>3. DOMAIN SlideTable(tab) = D /\ SlideTable(tab) = [i \in D |-> SlideTable(tab)[i]]
  BY DEF SlideTable
<1> QED BY <1>1, <1>2, <1>3

\* The live positions of the upper half, moved down
LEMMA SlideChained ==
  ASSUME NEW t, NEW u, TablesOK(t), NEW f \in Nat, NEW g \in Int, NEW e \in Nat,
         Chained(t, f, g), WSize <= f, g <= WindowSize, f <= e + WSize, 1 <= e,
         u.head = SlideTable(t.head), u.prev = SlideTable(t.prev),
         \A i \in 0 .. g + 1 - WSize : u.window[i] = t.window[i + WSize]
  PROVE  Chained(u, e, g - WSize)
<1>1. PICK L : ChainSet(t, f, g, L)
  BY DEF Chained
<1> DEFINE K == {p \in e .. g - WSize - 1 : p + WSize \in L}
<1>2. L \subseteq f .. g - 1
  BY <1>1 DEF ChainSet
<1>3. WSize \in Nat /\ WSize > 0 /\ WindowSize = WSize + WSize
  BY SizesAre
<1>4. ASSUME NEW q \in L
      PROVE  /\ q \in Int /\ WSize <= q /\ q \in 0 .. WindowSize - 1 /\ q - WSize \in Nat
             /\ q - WSize \in 0 .. WSize - 1 /\ q <= g - 1
             /\ q - WSize < e \/ q - WSize \in K
             /\ Hash3(u.window, q - WSize) = Hash3(t.window, q)
  <2>1. q \in f .. g - 1
    BY <1>2
  <2>2. /\ q \in Int /\ WSize <= q /\ q \in 0 .. WindowSize - 1 /\ q - WSize \in Nat
        /\ q - WSize \in 0 .. WSize - 1 /\ q <= g - 1
    BY <1>3, <2>1
  <2>3. q - WSize < e \/ q - WSize \in K
    <3>1. (q - WSize) + WSize = q
      BY <1>3, <2>2
    <3>2. q - WSize < e \/ q - WSize \in e .. g - WSize - 1
      BY <1>3, <2>2
    <3> QED BY <3>1, <3>2
  <2>4. Hash3(u.window, q - WSize) = Hash3(t.window, q)
    <3> DEFINE a == q - WSize
    <3>1. /\ a \in 0 .. g + 1 - WSize /\ a + 1 \in 0 .. g + 1 - WSize /\ a + 2 \in 0 .. g + 1 - WSize
          /\ a + WSize = q /\ (a + 1) + WSize = q + 1 /\ (a + 2) + WSize = q + 2
      BY <1>3, <2>2
    <3> HIDE DEF a
    <3>2. u.window[a] = t.window[q] /\ u.window[a + 1] = t.window[q + 1] /\ u.window[a + 2] = t.window[q + 2]
      BY <3>1
    <3> QED BY <3>2 DEF a, Hash3
  <2> QED BY <2>2, <2>3, <2>4
<1>5. \A p \in K : p + WSize \in L /\ p \in Nat
  BY <1>3
<1>6. K \subseteq e .. (g - WSize) - 1
  OBVIOUS
<1> HIDE DEF K
<1>7. ASSUME NEW h \in Hash
      PROVE  u.head[h] < e \/ (u.head[h] \in K /\ Hash3(u.window, u.head[h]) = h)
  <2> DEFINE q == t.head[h]
  <2>1. q \in 0 .. WindowSize - 1 /\ u.head[h] = IF q >= WSize THEN q - WSize ELSE 0
    BY SlideTableIs DEF TablesOK
  <2>2. q < f \/ (q \in L /\ Hash3(t.window, q) = h)
    BY <1>1 DEF ChainSet
  <2> HIDE DEF q
  <2>3. CASE q < f
    BY <1>3, <2>1, <2>3
  <2>4. CASE q \in L /\ Hash3(t.window, q) = h
    <3>1. u.head[h] = q - WSize
      BY <1>4, <2>1, <2>4
    <3> QED BY <1>4, <2>4, <3>1
  <2> QED BY <2>2, <2>3, <2>4
<1>8. ASSUME NEW p \in K
      PROVE  \/ u.prev[p % WSize] < e
             \/ /\ u.prev[p % WSize] \in K /\ u.prev[p % WSize] < p
                /\ Hash3(u.window, u.prev[p % WSize]) = Hash3(u.window, p)
  <2> DEFINE o == p + WSize
             q == t.prev[o % WSize]
  <2>1. o \in L /\ p \in Nat /\ o - WSize = p
    BY <1>3, <1>5
  <2>2. p \in 0 .. WSize - 1 /\ o \in 0 .. WindowSize - 1 /\ Hash3(u.window, p) = Hash3(t.window, o)
    <3> HIDE DEF o
    <3> QED BY <1>4, <2>1
  <2>3. p \in 0 .. WindowSize - 1
    BY <1>3, <2>2
  <2>4. o % WSize = p /\ p % WSize = p
    <3> HIDE DEF o
    <3>1. o >= WSize /\ o \in Int
      BY <1>4, <2>1
    <3>2. o % WSize = o - WSize
      BY <1>3, <2>2, <3>1, Residue
    <3>3. p % WSize = p
      BY <1>3, <2>2, <2>3, Residue
    <3> QED BY <2>1, <3>2, <3>3
  <2>5. q \in 0 .. WindowSize - 1 /\ u.prev[p] = IF q >= WSize THEN q - WSize ELSE 0
    <3>1. /\ t.prev \in [0 .. WSize - 1 -> 0 .. WindowSize - 1]
          /\ q = t.prev[p]
      BY <2>4 DEF TablesOK
    <3> HIDE DEF o, q
    <3>2. \A i \in 0 .. WSize - 1 :
            SlideTable(t.prev)[i] = IF t.prev[i] >= WSize THEN t.prev[i] - WSize ELSE 0
      BY <3>1, SlideTableIs
    <3> QED BY <2>2, <3>1, <3>2
  <2>6. q < f \/ (q \in L /\ q < o /\ Hash3(t.window, q) = Hash3(t.window, o))
    BY <1>1, <2>1 DEF ChainSet
  <2> HIDE DEF q, o
  <2>7. CASE q < f
    BY <1>3, <2>4, <2>5, <2>7
  <2>8. CASE q \in L /\ q < o /\ Hash3(t.window, q) = Hash3(t.window, o)
    <3>1. q \in Int /\ WSize <= q /\ (q - WSize < e \/ q - WSize \in K)
          /\ Hash3(u.window, q - WSize) = Hash3(t.window, q)
      BY <1>4, <2>8
    <3>2. u.prev[p] = q - WSize
      BY <2>5, <3>1
    <3>3. q - WSize < p
      BY <1>3, <1>4, <2>1, <2>8, <3>1
    <3> QED BY <2>2, <2>4, <2>8, <3>1, <3>2, <3>3
  <2> QED BY <2>6, <2>7, <2>8
<1>9. ChainSet(u, e, g - WSize, K)
  BY <1>6, <1>7, <1>8 DEF ChainSet
<1> QED BY <1>9 DEF Chained

LEMMA SlideHashed ==
  ASSUME NEW t, NEW pos, Windowed(t, pos), Hashed(t)
  PROVE  Hashed(Slide(t))
<1>1. CASE t.strstart < WSize + MaxDistance
  BY <1>1 DEF Slide
<1>2. CASE ~(t.strstart < WSize + MaxDistance)
  <2> DEFINE u == Slide(t)
             down == t.strstart - WSize
             kept == t.strstart + t.lookahead - WSize
             f == Floor(t)
             g == Newest(t)
             e == Floor(u)
  <2>1. /\ DOMAIN u = StateFields /\ u.strstart = down /\ u.lookahead = t.lookahead
        /\ u.insert = Min2(t.insert, down) /\ u.insH = t.insH
        /\ u.head = SlideTable(t.head) /\ u.prev = SlideTable(t.prev)
        /\ u.window = [i \in DOMAIN t.window |-> IF i < kept THEN t.window[i + WSize] ELSE t.window[i]]
    BY <1>2 DEF Windowed, Slide, StateFields
  <2> HIDE DEF u
  <2>2. /\ WSize \in Nat /\ MaxDistance \in Nat /\ 0 < MaxDistance /\ MaxDistance < WSize
        /\ WindowSize = WSize + WSize
    BY SizesAre
  <2>3. /\ g \in Int /\ g <= t.strstart + t.lookahead - 2 /\ t.strstart \in Nat /\ t.insert \in Nat
        /\ t.insert <= 2 /\ t.lookahead \in Nat /\ t.strstart + t.lookahead <= WindowSize
        /\ WSize + MaxDistance <= t.strstart
    BY <1>2, <2>2, NewestIs
  <2>4. down \in Nat /\ MaxDistance <= down /\ t.strstart = down + WSize /\ u.insert \in Nat /\ u.insert <= t.insert
    BY <2>1, <2>2, <2>3 DEF Min2
  <2>5. f = t.strstart - MaxDistance
    BY <2>2, <2>3 DEF Floor
  <2>6. e = IF down > MaxDistance THEN down - MaxDistance ELSE 1
    BY <2>1 DEF Floor
  <2> HIDE DEF e, f, g, down
  <2>7. f \in Nat /\ WSize <= f /\ e \in Nat /\ 1 <= e /\ f <= e + WSize /\ g <= WindowSize
    BY <2>2, <2>3, <2>4, <2>5, <2>6
  <2>8. kept \in Nat /\ kept <= WSize /\ g + 1 - WSize <= kept - 1
    BY <2>2, <2>3
  <2>9. \A i \in 0 .. g + 1 - WSize : u.window[i] = t.window[i + WSize]
    <3>1. ASSUME NEW i \in 0 .. g + 1 - WSize PROVE i \in 0 .. WindowSize - 1 /\ i < kept
      <4> HIDE DEF kept
      <4> QED BY <2>2, <2>3, <2>8
    <3>2. DOMAIN t.window = 0 .. WindowSize - 1
      BY DEF Windowed
    <3> HIDE DEF kept
    <3> QED BY <2>1, <3>1, <3>2
  <2>10. Chained(u, e, g - WSize)
    <3>1. TablesOK(t) /\ Chained(t, f, g)
      BY DEF Hashed, f, g
    <3>2. g \in Int
      BY <2>3
    <3> QED BY <2>1, <2>7, <2>9, <3>1, <3>2, SlideChained
  <2>11. TablesOK(u)
    <3>1. /\ t.prev \in [0 .. WSize - 1 -> 0 .. WindowSize - 1] /\ t.head \in [Hash -> 0 .. WindowSize - 1]
          /\ t.insH \in Hash
      BY DEF Hashed, TablesOK
    <3>2. u.prev \in [0 .. WSize - 1 -> 0 .. WindowSize - 1]
      <4>1. SlideTable(t.prev) \in [0 .. WSize - 1 -> 0 .. WindowSize - 1]
        BY <3>1, SlideTableIs
      <4> QED BY <2>1, <4>1
    <3>3. u.head \in [Hash -> 0 .. WindowSize - 1]
      BY <2>1, <3>1, SlideTableIs
    <3> QED BY <2>1, <3>1, <3>2, <3>3 DEF TablesOK
  <2>12. Newest(u) \in Int /\ g - WSize <= Newest(u)
    <3>1. Newest(u) = Min2(down - u.insert, down + t.lookahead - 2)
      BY <2>1 DEF Newest
    <3>2. g <= t.strstart - t.insert
      BY NewestIs DEF g
    <3> QED BY <2>2, <2>3, <2>4, <3>1, <3>2 DEF Min2
  <2>13. Chained(u, e, Newest(u))
    BY <2>2, <2>3, <2>7, <2>10, <2>11, <2>12, ChainedMore
  <2>14. u.insert > 0 => u.lookahead < 2
    BY <2>1, <2>3, <2>4 DEF Hashed
  <2>15. u.lookahead >= MinMatch => Rolled(u, u.strstart)
    <3> SUFFICES ASSUME t.lookahead >= MinMatch PROVE Rolled(u, down)
      BY <2>1
    <3>1. Rolled(t, t.strstart)
      BY DEF Hashed
    <3>2. /\ down \in 0 .. WindowSize - 1 /\ down + 1 \in 0 .. WindowSize - 1
          /\ down < kept /\ down + 1 < kept
          /\ down + WSize = t.strstart /\ (down + 1) + WSize = t.strstart + 1
      BY <2>2, <2>3, <2>4, SizesAre
    <3>3. DOMAIN t.window = 0 .. WindowSize - 1
      BY DEF Windowed
    <3>4. u.window[down] = t.window[t.strstart] /\ u.window[down + 1] = t.window[t.strstart + 1]
      <4> HIDE DEF kept
      <4> QED BY <2>1, <3>2, <3>3
    <3> QED BY <2>1, <3>1, <3>4 DEF Rolled
  <2> QED BY <2>11, <2>13, <2>14, <2>15 DEF Hashed, e, u
<1> QED BY <1>1, <1>2

\* More lookahead: more strings could be inserted
LEMMA NewestMore ==
  ASSUME NEW t, NEW u, NEW pos, Windowed(t, pos), u.strstart = t.strstart, u.insert = t.insert,
         u.lookahead \in Nat, u.lookahead >= t.lookahead
  PROVE  Newest(u) \in Int /\ Newest(t) <= Newest(u)
<1>1. t.strstart \in Nat /\ t.insert \in Nat /\ t.lookahead \in Nat
  BY NewestIs
<1> QED BY <1>1 DEF Newest, Min2

LEMMA ReadBufChained ==
  ASSUME NEW t, NEW pos \in Nat, NEW n \in Nat, Windowed(t, pos), Hashed(t), data \in Seq(Byte),
         pos + n <= Len(data), t.strstart + t.lookahead + n <= WindowSize
  PROVE  LET u == ReadBuf(t, pos, n)
         IN  TablesOK(u) /\ Chained(u, Floor(u), Newest(u))
<1> DEFINE u == ReadBuf(t, pos, n)
<1>1. Windowed(u, pos + n) /\ u.lookahead = t.lookahead + n /\ Keeps(t, u, {"window", "lookahead"})
  BY ReadBufWindowed
<1> HIDE DEF u
<1>2. /\ u.strstart = t.strstart /\ u.insert = t.insert /\ u.base = t.base /\ u.head = t.head
      /\ u.prev = t.prev /\ u.insH = t.insH /\ DOMAIN u = StateFields
  BY <1>1 DEF Keeps, StateFields
<1>3. TablesOK(u)
  BY <1>2 DEF TablesOK, Hashed
<1>4. /\ Newest(t) \in Int /\ Newest(t) <= t.strstart - t.insert
      /\ Newest(t) <= t.strstart + t.lookahead - 2
      /\ t.strstart \in Nat /\ t.insert \in Nat /\ t.lookahead \in Nat
  BY NewestIs
<1>5. Floor(t) \in Nat /\ Floor(u) = Floor(t)
  BY <1>2, <1>4, FloorIs DEF Floor
<1>6. Newest(u) \in Int /\ Newest(t) <= Newest(u)
  <2>1. u.lookahead \in Nat /\ u.lookahead >= t.lookahead
    BY <1>1, <1>4 DEF Windowed
  <2> QED BY <1>2, <2>1, NewestMore
<1>7. \A i \in 0 .. t.strstart + t.lookahead - 1 : u.window[i] = t.window[i]
  <2>1. ASSUME NEW i \in 0 .. t.strstart + t.lookahead - 1 PROVE u.window[i] = t.window[i]
    <3>1. i \in 0 .. u.strstart + u.lookahead - 1
      BY SMTT(40), <1>1, <1>2, <1>4
    <3>2. u.window[i] = data[u.base + i + 1] /\ t.window[i] = data[t.base + i + 1]
      BY <1>1, <3>1 DEF Windowed, Mirrors
    <3> QED BY <1>2, <3>2
  <2> QED BY <2>1
<1>8. \A i \in 0 .. Newest(t) + 1 : u.window[i] = t.window[i]
  BY SMTT(40), <1>4, <1>7
<1>9. Chained(u, Floor(t), Newest(t))
  BY <1>2, <1>4, <1>5, <1>8, ChainedFrame DEF Hashed
<1>10. Chained(u, Floor(t), Newest(u))
  BY <1>3, <1>4, <1>5, <1>6, <1>9, ChainedMore
<1> QED BY <1>3, <1>5, <1>10 DEF u

LEMMA FillTurnHashed ==
  ASSUME NEW r, ~r.done, r.pos \in 0 .. inLen, inLen \in 0 .. Len(data), data \in Seq(Byte),
         Windowed(r.s, r.pos), Hashed(r.s)
  PROVE  Hashed(FillTurn(r).s)
<1> DEFINE slid == Slide(r.s)
           n    == Min2(inLen - r.pos, WindowSize - slid.lookahead - slid.strstart)
           read == ReadBuf(slid, r.pos, n)
           full == Rehash(read)
           q    == FillTurn(r)
<1>1. r.pos \in Nat /\ inLen \in Nat /\ r.pos <= inLen /\ Len(data) \in Nat /\ inLen <= Len(data)
  <2>1. Len(data) \in Nat
    OBVIOUS
  <2>2. inLen \in Nat /\ inLen <= Len(data)
    BY <2>1
  <2> QED BY <2>1, <2>2
<1>2. Windowed(slid, r.pos) /\ Hashed(slid)
  BY SlideWindowed, SlideHashed
<1>3. q.s = slid \/ (q.s = full /\ r.pos # inLen)
  BY DEF FillTurn
<1> HIDE DEF slid, q
<1>4. slid.lookahead \in Nat /\ slid.strstart \in Nat /\ slid.strstart + slid.lookahead <= WindowSize
  BY <1>2 DEF Windowed
<1>5. n \in Nat /\ r.pos + n <= inLen /\ slid.strstart + slid.lookahead + n <= WindowSize
  BY <1>1, <1>4, SizesAre DEF Min2
<1> HIDE DEF n
<1>6. r.pos + n <= Len(data)
  BY <1>1, <1>5
<1>7. Windowed(read, r.pos + n)
  BY <1>1, <1>2, <1>5, <1>6, ReadBufWindowed
<1>8. TablesOK(read) /\ Chained(read, Floor(read), Newest(read))
  BY <1>1, <1>2, <1>5, <1>6, ReadBufChained
<1> HIDE DEF read
<1>9. Hashed(full)
  BY <1>7, <1>8, RehashHashed
<1> QED BY <1>2, <1>3, <1>9 DEF q

LEMMA FillWindowHashed ==
  ASSUME NEW t, NEW from \in 0 .. inLen, inLen \in 0 .. Len(data), data \in Seq(Byte),
         Windowed(t, from), Hashed(t)
  PROVE  Hashed(FillWindow(t, from).s)
<1> DEFINE r == [s |-> t, pos |-> from, done |-> FALSE]
           q == FillTurn(r)
           u == ZeroTail(q.s)
<1>1. r.s = t /\ r.pos = from /\ ~r.done
  OBVIOUS
<1>2. Windowed(q.s, q.pos) /\ q.done = TRUE
  <2> HIDE DEF r
  <2> QED BY <1>1, FillTurnFills
<1>3. Hashed(q.s)
  <2> HIDE DEF r
  <2> QED BY <1>1, FillTurnHashed
<1>4. FillTurn(q) = q
  BY <1>2 DEF FillTurn
<1>5. FillWindow(t, from).s = u
  BY <1>4 DEF FillWindow
<1> HIDE DEF q
<1>6. Windowed(u, q.pos) /\ Keeps(q.s, u, {"window", "highWater"})
  BY <1>2, ZeroTailWindowed
<1> HIDE DEF u
<1>7. /\ u.base = q.s.base /\ u.strstart = q.s.strstart /\ u.lookahead = q.s.lookahead
      /\ u.insert = q.s.insert /\ u.head = q.s.head /\ u.prev = q.s.prev /\ u.insH = q.s.insH
  BY <1>6 DEF Keeps, StateFields
<1>8. Hashed(u)
  BY <1>2, <1>3, <1>6, <1>7, HashedFrame
<1> QED BY <1>5, <1>8

LEMMA FilledHashed ==
  ASSUME WindowInv, Hashed(s)
  PROVE  Hashed(Filled.s)
<1>1. CASE s.lookahead < MinLookahead
  <2>1. Filled.s = FillWindow(s, inPos).s
    BY <1>1 DEF Filled
  <2>2. /\ inPos \in 0 .. inLen /\ inLen \in 0 .. Len(data) /\ data \in Seq(Byte) /\ Windowed(s, inPos)
    BY InputAssumption DEF WindowInv
  <2> QED BY <2>1, <2>2, FillWindowHashed
<1>2. CASE ~(s.lookahead < MinLookahead)
  BY <1>2 DEF Filled
<1> QED BY <1>1, <1>2

-----------------------------------------------------------------------------
(* A turn and the chains                                                   *)

\* The string at strstart, if it has its bytes, is in its chain
Linked(m) ==
  /\ TablesOK(m) /\ Bytes(m)
  /\ m.strstart \in Nat /\ m.lookahead \in Nat /\ m.strstart + m.lookahead <= WindowSize
  /\ m.insert \in Nat /\ m.insert <= m.strstart
  /\ m.insert > 0 => m.lookahead < 2
  /\ m.lookahead >= MinMatch => Chained(m, Floor(m), m.strstart + 1) /\ Rolled(m, m.strstart + 1)
  /\ m.lookahead < MinMatch => Chained(m, Floor(m), Newest(m))

LEMMA InsertedLinked ==
  ASSUME NEW t, NEW pos, Windowed(t, pos), Hashed(t)
  PROVE  Linked(Inserted(t))
<1> DEFINE m == Inserted(t)
<1>1. /\ t.strstart \in Nat /\ t.insert \in Nat /\ t.insert <= t.strstart /\ t.lookahead \in Nat
      /\ t.strstart + t.lookahead <= WindowSize /\ Newest(t) \in Int
      /\ t.insert > 0 => t.lookahead < 2
  BY NewestIs DEF Hashed
<1>2. Bytes(t) /\ TablesOK(t)
  BY DEF Windowed, Bytes, Hashed
<1>3. CASE t.lookahead < MinMatch
  <2>1. m = t
    BY <1>1, <1>3, SizesAre DEF Inserted
  <2>2. ~(t.lookahead >= MinMatch)
    BY <1>1, <1>3, SizesAre
  <2> HIDE DEF m
  <2>3. Linked(t)
    BY <1>1, <1>2, <2>2 DEF Linked, Hashed
  <2> QED BY <2>1, <2>3 DEF m
<1>4. CASE ~(t.lookahead < MinMatch)
  <2>1. m = InsertString(t, t.strstart) /\ t.lookahead >= MinMatch /\ t.insert = 0
    BY <1>1, <1>4, SizesAre DEF Inserted
  <2>2. Keeps(t, m, Chains)
    BY <1>2, InsertedKeeps DEF TablesOK
  <2> HIDE DEF m
  <2>3. m.strstart = t.strstart /\ m.lookahead = t.lookahead /\ m.insert = t.insert
    BY <2>2 DEF Keeps, Chains, StateFields
  <2>4. Newest(t) <= t.strstart /\ t.strstart + 2 <= WindowSize - 1
    BY <1>1, <2>1, SizesAre DEF Newest, Min2
  <2>5. Floor(t) \in Nat /\ t.strstart < Floor(t) + WSize /\ Floor(m) = Floor(t)
    BY <1>1, <2>3, FloorIs, SizesAre DEF Floor
  <2>6. Chained(t, Floor(t), Newest(t)) /\ Rolled(t, t.strstart)
    BY <2>1 DEF Hashed
  <2>7. TablesOK(m) /\ Chained(m, Floor(t), t.strstart + 1) /\ m.window = t.window /\ Rolled(m, t.strstart + 1)
    BY <1>1, <1>2, <2>1, <2>4, <2>5, <2>6, InsertStringChained
  <2>8. Bytes(m)
    BY <1>2, <2>7 DEF Bytes
  <2>9. ~(m.lookahead < MinMatch)
    BY <1>4, <2>3
  <2> QED BY <1>1, <2>3, <2>5, <2>7, <2>8, <2>9 DEF Linked, m
<1> QED BY <1>3, <1>4

SameTables(m, u) ==
  /\ DOMAIN u = StateFields
  /\ u.window = m.window /\ u.head = m.head /\ u.prev = m.prev /\ u.insH = m.insH
  /\ u.insert = m.insert

LEMMA LinkedFrame ==
  ASSUME NEW m, NEW u, Linked(m), SameTables(m, u), u.strstart = m.strstart, u.lookahead = m.lookahead
  PROVE  Linked(u)
<1>1. Floor(u) = Floor(m) /\ Newest(u) = Newest(m)
  BY DEF Floor, Newest, SameTables
<1>2. TablesOK(u) /\ Bytes(u)
  BY DEF TablesOK, Bytes, Linked, SameTables
<1>3. Floor(m) \in Nat /\ Newest(m) \in Int /\ m.strstart + 1 \in Int
  BY FloorIs DEF Linked, Newest, Min2
<1>4. \A g \in Int : Chained(m, Floor(m), g) => Chained(u, Floor(m), g)
  BY <1>3, ChainedFrame DEF SameTables
<1>5. Rolled(m, m.strstart + 1) => Rolled(u, m.strstart + 1)
  BY DEF Rolled, SameTables
<1> QED BY <1>1, <1>2, <1>3, <1>4, <1>5 DEF Linked, SameTables

\* What a state needs to be Hashed after a turn that went up
LEMMA AdvancedHashed ==
  ASSUME NEW t, NEW u, NEW g \in Int, TablesOK(u), t.strstart \in Nat, u.strstart \in Nat,
         t.strstart <= u.strstart, Chained(u, Floor(t), g), Newest(u) \in Int, g <= Newest(u),
         u.insert > 0 => u.lookahead < 2,
         u.lookahead >= MinMatch => Rolled(u, u.strstart)
  PROVE  Hashed(u)
<1>1. Floor(t) \in Nat /\ Floor(u) \in Nat
  BY FloorIs
<1>2. Floor(t) <= Floor(u)
  BY SizesAre DEF Floor
<1>3. Chained(u, Floor(u), Newest(u))
  BY <1>1, <1>2, ChainedMore
<1> QED BY <1>3 DEF Hashed

LEMMA OneByteHashed ==
  ASSUME NEW m, NEW u, Linked(m), SameTables(m, u), m.lookahead > 0,
         u.strstart = m.strstart + 1, u.lookahead = m.lookahead - 1
  PROVE  Hashed(u)
<1>1. /\ m.strstart \in Nat /\ m.lookahead \in Nat /\ m.insert \in Nat /\ m.insert <= m.strstart
      /\ m.insert > 0 => m.lookahead < 2
      /\ Floor(m) \in Nat
  BY FloorIs DEF Linked
<1>2. TablesOK(u)
  BY DEF TablesOK, Linked, SameTables
<1>3. u.insert > 0 => u.lookahead < 2
  BY <1>1 DEF SameTables
<1>4. Newest(u) = Min2(m.strstart + 1 - m.insert, (m.strstart + 1) + (m.lookahead - 1) - 2)
  BY <1>1 DEF Newest, SameTables, Min2
<1>5. Newest(u) \in Int
  BY <1>1, <1>4 DEF Min2
<1>6. \A g \in Int : Chained(m, Floor(m), g) => Chained(u, Floor(m), g)
  BY <1>1, ChainedFrame DEF SameTables
<1>7. CASE m.lookahead >= MinMatch
  <2>1. m.strstart + 1 \in Int /\ m.strstart + 1 <= Newest(u)
    BY <1>1, <1>4, <1>7, SizesAre DEF Min2
  <2>2. Rolled(u, u.strstart)
    BY <1>7 DEF Linked, Rolled, SameTables
  <2>3. Chained(u, Floor(m), m.strstart + 1)
    BY <1>6, <1>7, <2>1 DEF Linked
  <2> QED BY <1>1, <1>2, <1>3, <1>5, <2>1, <2>2, <2>3, AdvancedHashed
<1>8. CASE ~(m.lookahead >= MinMatch)
  <2>0. m.lookahead < MinMatch
    BY <1>1, <1>8, SizesAre
  <2>1. Newest(m) \in Int /\ Newest(m) <= Newest(u)
    BY <1>1, <1>4 DEF Newest, Min2
  <2>2. ~(u.lookahead >= MinMatch)
    BY <1>1, <1>8, SizesAre
  <2>3. Chained(u, Floor(m), Newest(m))
    BY <1>6, <2>0, <2>1 DEF Linked
  <2> QED BY <1>1, <1>2, <1>3, <1>5, <2>1, <2>2, <2>3, AdvancedHashed
<1> QED BY <1>7, <1>8

\* deflateFast after a match: insH is the hash of the last string inserted, or
\* of the two bytes behind the match
LEMMA TakeMatchHashed ==
  ASSUME NEW t, Linked(t), t.prevLength \in 0 .. MaxMatch, t.matchLength \in MinMatch .. t.lookahead,
         t.matchLength <= MaxMatch, t.strstart + MinLookahead <= WindowSize
  PROVE  Hashed(TakeMatch(t))
<1> DEFINE len   == t.matchLength
           left  == t.lookahead - len
           last  == t.strstart + len - 1
           f     == Floor(t)
           told  == Tally(t, Match(t.strstart - t.matchStart, len))
           run   == InsertRun(told, t.strstart + 1, last)
           known == IF len <= cfg.maxLazy /\ left >= MinMatch
                      THEN [run EXCEPT !.insH = Hash3(t.window, last)]
                      ELSE [told EXCEPT !.insH = UpdateHash(t.window[last + 1], t.window[last + 2])]
           moved == [known EXCEPT !.lookahead = left, !.strstart = last + 1, !.matchLength = 0]
           u     == FlushIfFull(moved)
<1>1. TakeMatch(t) = u
  BY DEF TakeMatch
<1>2. /\ t.strstart \in Nat /\ t.lookahead \in Nat /\ t.strstart + t.lookahead <= WindowSize
      /\ t.insert = 0 /\ t.lookahead >= MinMatch /\ TablesOK(t) /\ Bytes(t)
      /\ Chained(t, f, t.strstart + 1)
      /\ t.strstart + MinLookahead <= WindowSize
  BY SizesAre DEF Linked
<1>3. f \in Nat /\ t.strstart <= f + MaxDistance
  BY <1>2, FloorIs
<1>4. /\ len \in Nat /\ len >= 3 /\ len <= t.lookahead /\ len <= MaxMatch
  BY SizesAre
<1> HIDE DEF f, len
<1>5. /\ left \in Nat /\ last \in Nat /\ last + 1 = t.strstart + len /\ t.strstart + 2 <= last
      /\ last + 1 \in Nat /\ (last + 1) + 2 <= WindowSize - 1 /\ last + 2 <= WindowSize - 1
      /\ last < f + WSize /\ t.strstart + 1 \in Nat /\ t.strstart + 1 <= last
  BY <1>2, <1>3, <1>4, SizesAre
<1>6. Keeps(t, told, Emits)
  BY <1>2, TallyKeeps DEF TablesOK
<1> HIDE DEF left, last, told
<1>7. TablesOK(told) /\ Bytes(told) /\ told.window = t.window /\ told.insert = 0
      /\ told.head = t.head /\ told.prev = t.prev
  BY <1>2, <1>6 DEF Keeps, StateFields, Emits, TablesOK, Bytes
<1>8. Chained(told, f, t.strstart + 1)
  <2>1. t.strstart + 1 \in Int
    BY <1>2
  <2> QED BY <1>2, <1>3, <1>7, <2>1, ChainedFrame
<1> DEFINE g == IF len <= cfg.maxLazy /\ left >= MinMatch THEN last + 1 ELSE t.strstart + 1
<1>9. /\ TablesOK(known) /\ Chained(known, f, g) /\ known.window = t.window /\ known.insert = 0
      /\ left >= MinMatch => Rolled(known, last + 1)
  <2>1. CASE len <= cfg.maxLazy /\ left >= MinMatch
    <3>1. known = [run EXCEPT !.insH = Hash3(t.window, last)] /\ g = last + 1
      BY <2>1
    <3>2. TablesOK(run) /\ Chained(run, f, last + 1) /\ run.window = told.window
      BY <1>3, <1>5, <1>7, <1>8, InsertRunChained
    <3>3. Keeps(told, run, Chains)
      BY <1>5, <1>7, InsertRunKeeps DEF TablesOK
    <3> HIDE DEF run, known, g
    <3>4. /\ DOMAIN known = StateFields /\ known.insH = Hash3(t.window, last) /\ known.window = run.window
          /\ known.head = run.head /\ known.prev = run.prev /\ known.insert = run.insert
      BY <3>1, <3>2 DEF TablesOK, StateFields
    <3>5. run.insert = 0
      BY <1>7, <3>3 DEF Keeps, StateFields, Chains
    <3>6. Hash3(t.window, last) \in Hash
      BY <1>2, <1>5, StringHash
    <3>7. TablesOK(known)
      BY <3>2, <3>4, <3>6 DEF TablesOK
    <3>8. Chained(known, f, last + 1)
      BY <1>3, <1>5, <3>2, <3>4, ChainedFrame
    <3>9. Rolled(known, last + 1)
      <4>1. Bytes(known) /\ known.insH = Hash3(known.window, last)
        BY <1>7, <3>2, <3>4 DEF Bytes
      <4> QED BY <1>5, <4>1, RolledOver
    <3> QED BY <1>7, <3>1, <3>2, <3>4, <3>5, <3>7, <3>8, <3>9
  <2>2. CASE ~(len <= cfg.maxLazy /\ left >= MinMatch)
    <3> DEFINE h == UpdateHash(t.window[last + 1], t.window[last + 2])
    <3>1. known = [told EXCEPT !.insH = h] /\ g = t.strstart + 1
      BY <2>2
    <3>2. t.window[last + 1] \in Byte /\ t.window[last + 2] \in Byte
      <4>1. last + 1 \in 0 .. WindowSize - 1 /\ last + 2 \in 0 .. WindowSize - 1
        BY <1>5, SizesAre
      <4> QED BY <1>2, <4>1 DEF Bytes
    <3>3. h \in Hash
      BY <3>2, ByteIsHash, UpdateTyped
    <3>4. \A c \in Byte : UpdateHash(h, c) = Hash3Of(t.window[last + 1], t.window[last + 2], c)
      BY <3>2, RollsFrom
    <3> HIDE DEF h, known, g
    <3>5. /\ DOMAIN known = StateFields /\ known.insH = h /\ known.window = told.window
          /\ known.head = told.head /\ known.prev = told.prev /\ known.insert = told.insert
      BY <1>7, <3>1 DEF TablesOK, StateFields
    <3>6. TablesOK(known)
      BY <1>7, <3>3, <3>5 DEF TablesOK
    <3>7. Chained(known, f, t.strstart + 1)
      <4>1. t.strstart + 1 \in Int
        BY <1>2
      <4> QED BY <1>3, <1>8, <3>5, <4>1, ChainedFrame
    <3>8. Rolled(known, last + 1)
      <4>1. (last + 1) + 1 = last + 2
        BY <1>5
      <4> QED BY <1>7, <3>4, <3>5, <4>1 DEF Rolled
    <3> QED BY <1>7, <3>1, <3>5, <3>6, <3>7, <3>8
  <2> QED BY <2>1, <2>2
<1> HIDE DEF known
<1>10. /\ DOMAIN moved = StateFields /\ moved.lookahead = left /\ moved.strstart = last + 1
       /\ moved.window = known.window /\ moved.head = known.head /\ moved.prev = known.prev
       /\ moved.insH = known.insH /\ moved.insert = known.insert
  BY <1>9 DEF TablesOK, StateFields
<1> HIDE DEF moved
<1>11. Keeps(moved, u, Emits)
  BY <1>10, FlushIfFullKeeps
<1> HIDE DEF u
<1>12. /\ DOMAIN u = StateFields /\ u.lookahead = left /\ u.strstart = last + 1
       /\ u.window = known.window /\ u.head = known.head /\ u.prev = known.prev
       /\ u.insH = known.insH /\ u.insert = 0
  BY <1>9, <1>10, <1>11 DEF Keeps, StateFields, Emits
<1>13. TablesOK(u) /\ (left >= MinMatch => Rolled(u, last + 1))
  BY <1>9, <1>12 DEF TablesOK, Rolled
<1>14. g \in Int /\ Newest(u) \in Int /\ g <= Newest(u)
  <2>1. Newest(u) = Min2(last + 1, (last + 1) + left - 2)
    BY <1>5, <1>12 DEF Newest, Min2
  <2>2. g = last + 1 => left >= 3 \/ g = t.strstart + 1
    BY SizesAre
  <2>3. g = last + 1 \/ g = t.strstart + 1
    OBVIOUS
  <2> HIDE DEF g
  <2> QED BY <1>2, <1>5, <2>1, <2>2, <2>3 DEF Min2
<1>15. Chained(u, f, g)
  <2> HIDE DEF g
  <2> QED BY <1>3, <1>9, <1>12, <1>14, ChainedFrame
<1>16. t.strstart <= u.strstart /\ u.strstart \in Nat
  BY <1>2, <1>5, <1>12
<1> HIDE DEF g
<1>17. Hashed(u)
  BY <1>2, <1>12, <1>13, <1>14, <1>15, <1>16, AdvancedHashed DEF f
<1> QED BY <1>1, <1>17

\* deflateSlow after a match: only strings that have their bytes are inserted
LEMMA TakePreviousHashed ==
  ASSUME NEW t, Linked(t), t.prevLength \in MinMatch .. t.lookahead + 1,
         t.prevLength <= MaxMatch, t.strstart + MinLookahead <= WindowSize
  PROVE  Hashed(TakePrevious(t))
<1> DEFINE a == t.strstart
           n == t.lookahead
           k == t.insert
           p == t.prevLength
           maxInsert == a + n - MinMatch
           end   == a + p - 2
           first == a + 1
           last  == Min2(end, maxInsert)
           f     == Floor(t)
           told  == Tally(t, Match(a - 1 - t.prevMatch, p))
           run   == InsertRun(told, first, last)
           known == IF last < first THEN told
                    ELSE [run EXCEPT !.insH = Hash3(t.window, last)]
           moved == [known EXCEPT !.lookahead = @ - (p - 1), !.strstart = end + 1,
                                  !.prevLength = 0, !.matchAvailable = FALSE,
                                  !.matchLength = MinMatch - 1]
           u     == FlushIfFull(moved)
           left  == n - (p - 1)
<1>1. TakePrevious(t) = u
  BY DEF TakePrevious
<1>2. /\ a \in Nat /\ n \in Nat /\ a + n <= WindowSize
      /\ k \in Nat
      /\ k > 0 => n < 2
      /\ k <= a
      /\ TablesOK(t) /\ Bytes(t)
      /\ n >= 3 => Chained(t, f, a + 1)
      /\ n < 3 => Chained(t, f, Newest(t))
  BY SizesAre DEF Linked
<1>3. f \in Nat /\ a <= f + MaxDistance
  BY <1>2, FloorIs
<1>4. p \in Nat /\ p >= 3 /\ p <= n + 1 /\ p <= MaxMatch /\ a + MinLookahead <= WindowSize
  BY <1>2, SizesAre
<1>0. a = t.strstart /\ n = t.lookahead /\ k = t.insert /\ p = t.prevLength
  OBVIOUS
<1> HIDE DEF f
<1>5. /\ left \in Nat /\ end \in Nat /\ maxInsert \in Int /\ last \in Int /\ last <= end /\ last <= maxInsert
      /\ last = end \/ last = maxInsert
      /\ maxInsert = a + n - 3
      /\ (end + 1) + left = a + n
      /\ first \in Nat /\ first <= end /\ end + 1 \in Nat
      /\ end < f + WSize /\ first = a + 1
  BY <1>2, <1>3, <1>4, SizesAre DEF Min2
<1>6. Keeps(t, told, Emits)
  BY <1>2, TallyKeeps DEF TablesOK
<1> HIDE DEF left, last, told, end, maxInsert, first, a, n, k, p
<1>7. TablesOK(told) /\ Bytes(told) /\ told.window = t.window /\ told.insert = k
      /\ told.head = t.head /\ told.prev = t.prev /\ told.lookahead = n
  BY <1>0, <1>2, <1>6 DEF Keeps, StateFields, Emits, TablesOK, Bytes
<1> DEFINE Fin == Min2(end + 1 - k, (end + 1) + left - 2)
<1>8. Fin \in Int /\ (Fin = end + 1 - k \/ Fin = a + n - 2)
  BY <1>2, <1>5 DEF Min2
<1>9. /\ TablesOK(known) /\ known.window = t.window /\ known.insert = k
      /\ known.lookahead = n
      /\ left >= MinMatch => Rolled(known, end + 1)
      /\ k > 0 => left < 2
      /\ \E g \in Int : g <= Fin /\ Chained(known, f, g)
  <2>1. CASE last < first
    <3>1. known = told
      BY <2>1
    <3>2. n <= 3 /\ left < 2
      <4>1. last = maxInsert
        BY <1>5, <2>1
      <4> QED BY <1>2, <1>4, <1>5, <2>1, <4>1 DEF left
    <3>3. ~(left >= MinMatch)
      BY <1>5, <3>2, SizesAre
    <3>4. \E g \in Int : g <= Fin /\ Chained(t, f, g)
      <4>1. CASE n >= 3
        <5>1. n = 3 /\ k = 0
          BY <1>2, <3>2, <4>1
        <5>2. a + 1 \in Int /\ a + 1 <= Fin
          <6> HIDE DEF Fin
          <6> QED BY <1>2, <1>5, <1>8, <5>1
        <5> QED BY <1>2, <4>1, <5>2
      <4>2. CASE n < 3
        <5>1. Newest(t) \in Int /\ Newest(t) <= a - k
              /\ Newest(t) <= a + n - 2
          BY <1>0, <1>2 DEF Newest, Min2
        <5>2. Newest(t) <= Fin
          <6> HIDE DEF Fin
          <6> QED BY <1>2, <1>5, <1>8, <5>1
        <5> QED BY <1>2, <4>2, <5>1, <5>2
      <4> QED BY <1>2, <4>1, <4>2
    <3>5. \E g \in Int : g <= Fin /\ Chained(told, f, g)
      <4>1. PICK g \in Int : g <= Fin /\ Chained(t, f, g)
        BY <3>4
      <4>2. Chained(told, f, g)
        BY <1>3, <1>7, <4>1, ChainedFrame
      <4> QED BY <4>1, <4>2
    <3> HIDE DEF known, Fin
    <3> QED BY <1>7, <3>1, <3>2, <3>3, <3>5
  <2>2. CASE ~(last < first)
    <3>1. known = [run EXCEPT !.insH = Hash3(t.window, last)]
      BY <2>2
    <3>2. /\ last \in Nat /\ first <= last /\ last + 2 <= WindowSize - 1 /\ last < f + WSize
          /\ n >= 4 /\ k = 0 /\ a + 1 <= first /\ last + 1 \in Int
      BY <1>2, <1>3, <1>5, <2>2, SizesAre
    <3>3. Chained(told, f, a + 1)
      <4>1. a + 1 \in Int /\ Chained(t, f, a + 1)
        BY <1>2, <3>2
      <4> QED BY <1>3, <1>7, <4>1, ChainedFrame
    <3>4. TablesOK(run) /\ Chained(run, f, last + 1) /\ run.window = told.window
      <4>1. a + 1 \in Int
        BY <1>2
      <4> QED BY <1>3, <1>5, <1>7, <3>2, <3>3, <4>1, InsertRunChained
    <3>5. Keeps(told, run, Chains)
      BY <1>5, <1>7, <3>2, InsertRunKeeps DEF TablesOK
    <3> HIDE DEF run, known
    <3>6. /\ DOMAIN known = StateFields /\ known.insH = Hash3(t.window, last) /\ known.window = run.window
          /\ known.head = run.head /\ known.prev = run.prev /\ known.insert = run.insert
          /\ known.lookahead = run.lookahead
      BY <3>1, <3>4 DEF TablesOK, StateFields
    <3>7. run.insert = k /\ run.lookahead = n
      BY <1>7, <3>5 DEF Keeps, StateFields, Chains
    <3>8. Hash3(t.window, last) \in Hash
      BY <1>2, <3>2, StringHash
    <3>9. TablesOK(known)
      BY <3>4, <3>6, <3>8 DEF TablesOK
    <3>10. Chained(known, f, last + 1)
      BY <1>3, <3>2, <3>4, <3>6, ChainedFrame
    <3>11. left >= MinMatch => Rolled(known, end + 1)
      <4> SUFFICES ASSUME left >= 3 PROVE Rolled(known, end + 1)
        BY SizesAre
      <4>1. last = end
        BY <1>2, <1>5
      <4>2. Bytes(known) /\ known.insH = Hash3(known.window, last)
        BY <1>7, <3>4, <3>6 DEF Bytes
      <4> QED BY <3>2, <4>1, <4>2, RolledOver
    <3>12. last + 1 <= Fin
      <4> HIDE DEF Fin
      <4> QED BY <1>2, <1>5, <1>8, <3>2
    <3>13. k > 0 => left < 2
      BY <3>2
    <3>14. \E g \in Int : g <= Fin /\ Chained(known, f, g)
      <4> HIDE DEF Fin
      <4> QED BY <3>2, <3>10, <3>12
    <3> HIDE DEF Fin
    <3> QED BY <1>7, <3>4, <3>6, <3>7, <3>9, <3>11, <3>13, <3>14
  <2> QED BY <2>1, <2>2
<1> HIDE DEF known
<1>10. /\ DOMAIN moved = StateFields /\ moved.lookahead = left /\ moved.strstart = end + 1
       /\ moved.window = known.window /\ moved.head = known.head /\ moved.prev = known.prev
       /\ moved.insH = known.insH /\ moved.insert = known.insert
  BY <1>0, <1>9 DEF TablesOK, StateFields, left
<1> HIDE DEF moved
<1>11. Keeps(moved, u, Emits)
  BY <1>10, FlushIfFullKeeps
<1> HIDE DEF u
<1>12. /\ DOMAIN u = StateFields /\ u.lookahead = left /\ u.strstart = end + 1
       /\ u.window = known.window /\ u.head = known.head /\ u.prev = known.prev
       /\ u.insH = known.insH /\ u.insert = k
  BY <1>9, <1>10, <1>11 DEF Keeps, StateFields, Emits
<1>13. TablesOK(u) /\ (left >= MinMatch => Rolled(u, end + 1))
  BY <1>9, <1>12 DEF TablesOK, Rolled
<1>14. Newest(u) = Fin
  BY <1>2, <1>5, <1>12 DEF Newest, Min2
<1> HIDE DEF Fin
<1>15. PICK g \in Int : g <= Fin /\ Chained(known, f, g)
  BY <1>9
<1>16. Chained(u, f, g)
  BY <1>3, <1>12, <1>15, ChainedFrame
<1>17. t.strstart <= u.strstart /\ u.strstart \in Nat /\ t.strstart \in Nat
  BY <1>0, <1>2, <1>5, <1>12
<1>18. Hashed(u)
  BY <1>2, <1>8, <1>9, <1>12, <1>13, <1>14, <1>15, <1>16, <1>17, AdvancedHashed DEF f
<1> QED BY <1>1, <1>18

\* What a turn knows once it has looked for a match, and what it does without one
Sought == {"matchStart", "matchLength", "prevLength", "prevMatch"}
FastFound(t) ==
  IF InReach(Inserted(t), HashHead(t)) THEN LongestMatch(Inserted(t), HashHead(t)) ELSE Inserted(t)
Held(t) ==
  [Inserted(t) EXCEPT !.prevLength = Inserted(t).matchLength, !.prevMatch = Inserted(t).matchStart,
                      !.matchLength = MinMatch - 1]
SlowFound(t) ==
  IF InReach(Held(t), HashHead(t)) /\ Held(t).prevLength < cfg.maxLazy
    THEN DropFar(LongestMatch(Held(t), HashHead(t))) ELSE Held(t)
FastLiteral(m) ==
  FlushIfFull([Tally(m, Literal(m.window[m.strstart])) EXCEPT !.lookahead = @ - 1, !.strstart = @ + 1])
Postponed(m) == [m EXCEPT !.matchAvailable = TRUE, !.lookahead = @ - 1, !.strstart = @ + 1]

LEMMA FastTurnIs ==
  ASSUME NEW t
  PROVE  LET m == FastFound(t)
         IN  FastTurn(t) = IF m.matchLength >= MinMatch THEN TakeMatch(m) ELSE FastLiteral(m)
BY DEF FastTurn, FastFound, FastLiteral

LEMMA SlowTurnIs ==
  ASSUME NEW t
  PROVE  LET m == SlowFound(t)
         IN  SlowTurn(t) = IF m.prevLength >= MinMatch /\ m.matchLength <= m.prevLength THEN TakePrevious(m)
                           ELSE IF m.matchAvailable THEN TakeLiteral(m) ELSE Postponed(m)
BY DEF SlowTurn, SlowFound, Held, Postponed

LEMMA FastFoundKeeps ==
  ASSUME NEW t, DOMAIN t = StateFields, t.lookahead \in Nat, MatchFits(t), cfg \in Configs
  PROVE  LET m == FastFound(t)
         IN  /\ Keeps(Inserted(t), m, Sought)
             /\ m.matchLength \in 0 .. MaxMatch /\ m.prevLength = t.prevLength
             /\ t.matchLength < MinMatch => m.matchLength < MinMatch \/ m.matchLength <= t.lookahead
<1> DEFINE ins == Inserted(t)
           m   == FastFound(t)
<1>1. Keeps(t, ins, Chains)
  BY InsertedKeeps
<1>2. m = ins \/ m = LongestMatch(ins, HashHead(t))
  BY DEF FastFound
<1> HIDE DEF ins, m
<1>3. /\ ins.lookahead = t.lookahead /\ ins.prevLength = t.prevLength
      /\ ins.matchLength = t.matchLength /\ DOMAIN ins = StateFields
  BY <1>1 DEF Keeps, StateFields, Chains
<1>4. t.prevLength \in 0 .. MaxMatch /\ t.matchLength \in 0 .. MaxMatch
  BY DEF MatchFits
<1>5. CASE m = ins
  BY <1>3, <1>4, <1>5 DEF Keeps, m, ins
<1>6. CASE m = LongestMatch(ins, HashHead(t))
  <2>1. /\ Keeps(ins, m, {"matchStart", "matchLength"})
        /\ m.matchLength \in 0 .. MaxMatch /\ m.matchLength <= t.lookahead
    BY <1>3, <1>4, <1>6, LongestMatchKeeps
  <2>2. m.prevLength = t.prevLength
    BY <1>3, <2>1 DEF Keeps, StateFields
  <2>3. Keeps(ins, m, Sought)
    BY <2>1, KeepsMore DEF Sought
  <2> QED BY <2>1, <2>2, <2>3 DEF m, ins
<1> QED BY <1>2, <1>5, <1>6

LEMMA SlowFoundKeeps ==
  ASSUME NEW t, DOMAIN t = StateFields, t.lookahead \in Nat, MatchFits(t), cfg \in Configs
  PROVE  LET m == SlowFound(t)
         IN  /\ Keeps(Inserted(t), m, Sought)
             /\ m.matchLength \in 0 .. MaxMatch /\ m.prevLength = t.matchLength
             /\ m.prevMatch = t.matchStart
<1> DEFINE ins == Inserted(t)
           p   == Held(t)
           l   == LongestMatch(p, HashHead(t))
           m   == SlowFound(t)
<1>1. Keeps(t, ins, Chains)
  BY InsertedKeeps
<1>2. m = p \/ m = DropFar(l)
  BY DEF SlowFound
<1>3. p = [ins EXCEPT !.prevLength = ins.matchLength, !.prevMatch = ins.matchStart,
                      !.matchLength = MinMatch - 1]
  BY DEF Held
<1> HIDE DEF ins, p, m
<1>4. /\ ins.lookahead = t.lookahead /\ ins.matchLength = t.matchLength /\ ins.matchStart = t.matchStart
      /\ DOMAIN ins = StateFields
  BY <1>1 DEF Keeps, StateFields, Chains
<1>5. /\ Keeps(ins, p, {"prevLength", "prevMatch", "matchLength"})
      /\ p.prevLength = t.matchLength /\ p.prevMatch = t.matchStart /\ p.matchLength = 2
      /\ DOMAIN p = StateFields /\ p.lookahead = t.lookahead
  <2>1. /\ Keeps(ins, p, {"prevLength", "prevMatch", "matchLength"})
        /\ p.prevLength = ins.matchLength /\ p.prevMatch = ins.matchStart /\ p.matchLength = MinMatch - 1
    BY <1>3, <1>4 DEF Keeps, StateFields
  <2>2. MinMatch - 1 = 2
    BY SizesAre
  <2>3. p.lookahead = ins.lookahead /\ DOMAIN p = StateFields
    BY <2>1 DEF Keeps, StateFields
  <2> QED BY <1>4, <2>1, <2>2, <2>3
<1>6. t.matchLength \in 0 .. MaxMatch /\ 2 \in 0 .. MaxMatch
  BY SizesAre DEF MatchFits
<1>7. Keeps(ins, p, Sought)
  BY <1>5, KeepsMore DEF Sought
<1>8. CASE m = p
  BY <1>5, <1>6, <1>7, <1>8 DEF m, ins
<1>9. CASE m = DropFar(l)
  <2>1. Keeps(p, l, {"matchStart", "matchLength"}) /\ l.matchLength \in 0 .. MaxMatch
    BY <1>5, <1>6, LongestMatchKeeps
  <2> HIDE DEF l
  <2>2. /\ Keeps(l, m, {"matchLength"})
        /\ m.matchLength = l.matchLength \/ m.matchLength = 2
    BY <1>9, <2>1, DropFarKeeps, SizesAre DEF Keeps
  <2>3. Keeps(ins, m, Sought)
    <3>1. Keeps(p, l, Sought) /\ Keeps(l, m, Sought)
      BY <2>1, <2>2, KeepsMore DEF Sought
    <3>2. Keeps(ins, l, Sought)
      BY <1>7, <3>1, KeepsChain
    <3> QED BY <3>1, <3>2, KeepsChain
  <2>4. m.prevLength = t.matchLength /\ m.prevMatch = t.matchStart
    BY <1>5, <2>1, <2>2 DEF Keeps, StateFields
  <2>5. m.matchLength \in 0 .. MaxMatch
    BY <1>6, <2>1, <2>2
  <2> QED BY <2>3, <2>4, <2>5 DEF m, ins
<1> QED BY <1>2, <1>8, <1>9

LEMMA FoundLinked ==
  ASSUME NEW t, NEW m, NEW pos, Windowed(t, pos), Hashed(t), Keeps(Inserted(t), m, Sought)
  PROVE  Linked(m) /\ m.strstart = t.strstart /\ m.lookahead = t.lookahead
<1>1. Linked(Inserted(t))
  BY InsertedLinked
<1>2. Keeps(t, Inserted(t), Chains)
  BY InsertedKeeps DEF Windowed
<1>3. Inserted(t).strstart = t.strstart /\ Inserted(t).lookahead = t.lookahead
  BY <1>2 DEF Keeps, StateFields, Chains
<1>4. SameTables(Inserted(t), m) /\ m.strstart = t.strstart /\ m.lookahead = t.lookahead
  BY <1>3 DEF Keeps, StateFields, Sought, SameTables
<1> QED BY <1>1, <1>3, <1>4, LinkedFrame

LEMMA FastTurnHashed ==
  ASSUME NEW t, NEW pos, Windowed(t, pos), Hashed(t), t.lookahead > 0, MatchFits(t),
         cfg \in Configs, cfg.fn = "fast", t.strstart + MinLookahead <= WindowSize
  PROVE  Hashed(FastTurn(t))
<1> DEFINE m == FastFound(t)
<1>1. FastTurn(t) = IF m.matchLength >= MinMatch THEN TakeMatch(m) ELSE FastLiteral(m)
  BY FastTurnIs
<1>2. t.lookahead \in Nat /\ DOMAIN t = StateFields /\ t.matchLength < MinMatch /\ t.prevLength \in 0 .. MaxMatch
  BY DEF Windowed, MatchFits
<1>3. /\ Keeps(Inserted(t), m, Sought) /\ m.matchLength \in 0 .. MaxMatch /\ m.prevLength = t.prevLength
      /\ m.matchLength < MinMatch \/ m.matchLength <= t.lookahead
  BY <1>2, FastFoundKeeps
<1> HIDE DEF m
<1>4. Linked(m) /\ m.strstart = t.strstart /\ m.lookahead = t.lookahead /\ DOMAIN m = StateFields
  BY <1>3, FoundLinked DEF Keeps
<1>5. CASE m.matchLength >= MinMatch
  <2>1. m.matchLength \in MinMatch .. m.lookahead /\ m.matchLength <= MaxMatch
    BY <1>2, <1>3, <1>4, <1>5, SizesAre
  <2> QED BY <1>1, <1>2, <1>3, <1>4, <1>5, <2>1, TakeMatchHashed
<1>6. CASE ~(m.matchLength >= MinMatch)
  <2> DEFINE lit   == Tally(m, Literal(m.window[m.strstart]))
             moved == [lit EXCEPT !.lookahead = @ - 1, !.strstart = @ + 1]
             u     == FlushIfFull(moved)
  <2>1. FastTurn(t) = u
    BY <1>1, <1>6 DEF FastLiteral
  <2>2. Keeps(m, lit, Emits)
    BY <1>4, TallyKeeps
  <2> HIDE DEF lit
  <2>3. /\ Keeps(lit, moved, {"lookahead", "strstart"})
        /\ moved.lookahead = lit.lookahead - 1 /\ moved.strstart = lit.strstart + 1
    BY <2>2 DEF Keeps, StateFields
  <2> HIDE DEF moved
  <2>4. Keeps(moved, u, Emits)
    BY <2>3, FlushIfFullKeeps DEF Keeps
  <2> HIDE DEF u
  <2>5. SameTables(m, u) /\ u.strstart = m.strstart + 1 /\ u.lookahead = m.lookahead - 1
    BY <2>2, <2>3, <2>4 DEF Keeps, StateFields, Emits, SameTables
  <2> QED BY <1>4, <2>1, <2>5, OneByteHashed
<1> QED BY <1>5, <1>6

LEMMA SlowTurnHashed ==
  ASSUME NEW t, NEW pos, Windowed(t, pos), Hashed(t), t.lookahead > 0, MatchFits(t),
         cfg \in Configs, t.strstart + MinLookahead <= WindowSize
  PROVE  Hashed(SlowTurn(t))
<1> DEFINE m == SlowFound(t)
           takes == m.prevLength >= MinMatch /\ m.matchLength <= m.prevLength
<1>1. SlowTurn(t) = IF takes THEN TakePrevious(m) ELSE IF m.matchAvailable THEN TakeLiteral(m) ELSE Postponed(m)
  BY SlowTurnIs
<1>2. /\ t.lookahead \in Nat /\ DOMAIN t = StateFields /\ t.matchLength \in 0 .. MaxMatch
      /\ t.matchLength < MinMatch \/ t.matchLength <= t.lookahead + 1
  BY DEF Windowed, MatchFits
<1>3. Keeps(Inserted(t), m, Sought) /\ m.matchLength \in 0 .. MaxMatch /\ m.prevLength = t.matchLength
  BY <1>2, SlowFoundKeeps
<1> HIDE DEF m
<1>4. Linked(m) /\ m.strstart = t.strstart /\ m.lookahead = t.lookahead /\ DOMAIN m = StateFields
  BY <1>3, FoundLinked DEF Keeps
<1>5. CASE takes
  <2>1. m.prevLength \in MinMatch .. m.lookahead + 1 /\ m.prevLength <= MaxMatch
    BY <1>2, <1>3, <1>4, <1>5, SizesAre
  <2> QED BY <1>1, <1>4, <1>5, <2>1, TakePreviousHashed
<1>6. CASE ~takes /\ m.matchAvailable
  <2> DEFINE told == Tally(m, Literal(m.window[m.strstart - 1]))
             lit  == FlushIfFull(told)
             u    == [lit EXCEPT !.lookahead = @ - 1, !.strstart = @ + 1]
  <2>1. SlowTurn(t) = u
    BY <1>1, <1>6 DEF TakeLiteral
  <2>2. Keeps(m, told, Emits)
    BY <1>4, TallyKeeps
  <2> HIDE DEF told
  <2>3. Keeps(told, lit, Emits)
    BY <2>2, FlushIfFullKeeps DEF Keeps
  <2> HIDE DEF lit
  <2>4. /\ Keeps(lit, u, {"lookahead", "strstart"})
        /\ u.lookahead = lit.lookahead - 1 /\ u.strstart = lit.strstart + 1
    BY <2>3 DEF Keeps, StateFields
  <2> HIDE DEF u
  <2>5. SameTables(m, u) /\ u.strstart = m.strstart + 1 /\ u.lookahead = m.lookahead - 1
    BY <2>2, <2>3, <2>4 DEF Keeps, StateFields, Emits, SameTables
  <2> QED BY <1>4, <2>1, <2>5, OneByteHashed
<1>7. CASE ~takes /\ ~m.matchAvailable
  <2>1. SlowTurn(t) = Postponed(m)
    BY <1>1, <1>7
  <2>2. SameTables(m, Postponed(m)) /\ Postponed(m).strstart = m.strstart + 1
        /\ Postponed(m).lookahead = m.lookahead - 1
    BY <1>4 DEF Postponed, SameTables, StateFields
  <2> QED BY <1>4, <2>1, <2>2, OneByteHashed
<1> QED BY <1>5, <1>6, <1>7

-----------------------------------------------------------------------------
(* The chains in every step                                                *)

LEMMA HashedSame ==
  ASSUME NEW t, NEW u, NEW pos, Windowed(t, pos), Hashed(t), SameTables(t, u),
         u.strstart = t.strstart, u.lookahead = t.lookahead
  PROVE  Hashed(u)
<1>1. Floor(u) = Floor(t) /\ Newest(u) = Newest(t)
  BY DEF Floor, Newest, SameTables
<1>2. Floor(t) \in Nat /\ Newest(t) \in Int
  BY FloorIs, NewestIs
<1>3. Chained(u, Floor(t), Newest(t))
  BY <1>2, ChainedFrame DEF Hashed, SameTables
<1>4. TablesOK(u)
  BY DEF TablesOK, Hashed, SameTables
<1> QED BY <1>1, <1>3, <1>4 DEF Hashed, SameTables, Rolled

LEMMA EndOfInputHashed ==
  ASSUME NEW t, NEW pos, Windowed(t, pos), Hashed(t), t.lookahead = 0
  PROVE  Hashed(EndOfInput(t))
<1> DEFINE u == EndOfInput(t)
<1>1. /\ Keeps(t, u, Emits \cup {"matchAvailable", "insert", "status"})
      /\ u.insert = Min2(t.strstart, MinMatch - 1)
  BY EndOfInputKeeps DEF Windowed
<1> HIDE DEF u
<1>2. /\ DOMAIN u = StateFields /\ u.window = t.window /\ u.strstart = t.strstart
      /\ u.lookahead = 0 /\ u.head = t.head /\ u.prev = t.prev /\ u.insH = t.insH
  BY <1>1 DEF Keeps, StateFields, Emits
<1>3. /\ t.strstart \in Nat /\ t.insert \in Nat /\ t.insert <= 2 /\ Newest(t) \in Int
  BY NewestIs
<1>4. Newest(u) \in Int /\ Newest(t) <= Newest(u)
  <2>1. Newest(t) = Min2(t.strstart - t.insert, t.strstart - 2)
    BY <1>3 DEF Newest, Min2
  <2>2. Newest(u) = Min2(t.strstart - Min2(t.strstart, 2), t.strstart - 2)
    BY <1>1, <1>2, <1>3, SizesAre DEF Newest, Min2
  <2> QED BY <1>3, <2>1, <2>2 DEF Min2
<1>5. Floor(t) \in Nat
  BY <1>3, FloorIs
<1>6. TablesOK(u)
  BY <1>2 DEF TablesOK, Hashed
<1>7. Chained(u, Floor(t), Newest(t))
  BY <1>2, <1>3, <1>5, ChainedFrame DEF Hashed
<1>8. u.lookahead < 2 /\ ~(u.lookahead >= MinMatch)
  BY <1>2, SizesAre
<1> QED BY <1>2, <1>3, <1>4, <1>6, <1>7, <1>8, AdvancedHashed DEF u

\* A full flush leaves the chains empty
LEMMA MarkedHashed ==
  ASSUME NEW t, NEW pos, Windowed(t, pos), Hashed(t), t.lookahead = 0
  PROVE  Hashed(Marked(t))
<1> DEFINE told == [t EXCEPT !.out = Append(@, [syms |-> <<>>, copy |-> {}, mark |-> flush])]
           gone == [told EXCEPT !.head = [h \in DOMAIN @ |-> NilPos], !.base = @ + t.strstart,
                                !.strstart = 0, !.blockStart = 0, !.insert = 0]
           u    == Marked(t)
<1>1. u = IF flush # "full" THEN told ELSE gone
  BY DEF Marked
<1>2. Keeps(t, told, {"out"})
  BY DEF Windowed, Keeps, StateFields
<1> HIDE DEF told, u
<1>3. SameTables(t, told) /\ told.strstart = t.strstart /\ told.lookahead = t.lookahead
  BY <1>2 DEF Keeps, StateFields, SameTables
<1>4. CASE flush # "full"
  <2>1. u = told
    BY <1>1, <1>4
  <2> QED BY <1>3, <2>1, HashedSame DEF u
<1>5. CASE flush = "full"
  <2>1. u = gone
    BY <1>1, <1>5
  <2>2. /\ DOMAIN gone = StateFields /\ gone.head = [h \in DOMAIN told.head |-> 0]
        /\ gone.strstart = 0 /\ gone.insert = 0 /\ gone.lookahead = told.lookahead
        /\ gone.prev = told.prev /\ gone.insH = told.insH
    BY <1>2 DEF Keeps, StateFields, NilPos
  <2> HIDE DEF gone
  <2>3. TablesOK(t)
    BY DEF Hashed
  <2>4. gone.head = [h \in Hash |-> 0] /\ 0 \in 0 .. WindowSize - 1
    BY <1>3, <2>2, <2>3, SizesAre DEF TablesOK, SameTables
  <2>5. TablesOK(gone)
    BY <1>3, <2>2, <2>3, <2>4 DEF TablesOK, SameTables
  <2>6. Floor(gone) = 1
    BY <2>2, SizesAre DEF Floor
  <2>7. ChainSet(gone, 1, Newest(gone), {})
    BY <2>4 DEF ChainSet
  <2>8. gone.lookahead = 0 /\ ~(gone.lookahead >= MinMatch)
    BY <1>3, <2>2, SizesAre
  <2>9. Hashed(gone)
    BY <2>2, <2>5, <2>6, <2>7, <2>8 DEF Hashed, Chained
  <2> QED BY <2>1, <2>9 DEF u
<1> QED BY <1>4, <1>5

\* What a step can be
LEMMA NextCases ==
  ASSUME WindowInv, [Next]_vars
  PROVE  LET t == Filled.s
         IN  \/ Keeps(s, s', {"lastFlush"})
             \/ s' = t
             \/ cfg.fn = "fast" /\ t.lookahead > 0 /\ s' = FastTurn(t)
             \/ cfg.fn = "slow" /\ t.lookahead > 0 /\ s' = SlowTurn(t)
             \/ t.lookahead = 0 /\ (s' = EndOfInput(t) \/ s' = Marked(EndOfInput(t)))
<1>1. DOMAIN s = StateFields
  BY DEF WindowInv, Windowed
<1>2. ASSUME NEW n, NEW f, Call(n, f) PROVE Keeps(s, s', {"lastFlush"})
  BY <1>1, <1>2 DEF Call, Keeps, StateFields
<1>3. CASE Feed \/ Ask
  BY <1>2, <1>3 DEF Feed, Ask
<1>4. CASE Starve
  BY <1>4 DEF Starve, Turn
<1>5. CASE ParseFast
  BY <1>5 DEF ParseFast, Turn
<1>6. CASE ParseSlow
  BY <1>6 DEF ParseSlow, Turn
<1>7. CASE Drain
  BY <1>7 DEF Drain, Turn
<1>8. CASE UNCHANGED vars
  BY <1>1, <1>8 DEF vars, Keeps
<1> QED BY <1>3, <1>4, <1>5, <1>6, <1>7, <1>8 DEF Next, Step

\* The states the window is filled from, and what they are filled to
LEMMA FilledIs ==
  ASSUME WindowInv
  PROVE  LET t == Filled.s
         IN  /\ Windowed(t, Filled.pos) /\ MatchFits(t) /\ DOMAIN t = StateFields
             /\ t.strstart \in Nat /\ t.lookahead \in Nat /\ t.strstart + MinLookahead <= WindowSize
             /\ cfg \in Configs /\ Keeps(s, t, FillSet)
<1>1. FilledFrom(s, inPos, Filled.s, Filled.pos) /\ MatchFits(Filled.s)
  BY FilledFills
<1> QED BY <1>1 DEF FilledFrom, Windowed, WindowInv

ChainInv == WindowInv /\ Hashed(s)

LEMMA InitChainInv == Init => ChainInv
<1> SUFFICES ASSUME Init PROVE Hashed(s)
  BY InitWindowInv DEF ChainInv
<1>1. PICK left \in Stale : s = Reset(left)
  BY DEF Init
<1>2. left.prev \in [0 .. WSize - 1 -> 0 .. WindowSize - 1] /\ 0 \in 0 .. WindowSize - 1
  BY InputAssumption, SizesAre
<1>3. /\ DOMAIN s = StateFields /\ s.prev = left.prev
      /\ s.head = [h \in Hash |-> 0] /\ s.insH = {} /\ s.strstart = 0 /\ s.lookahead = 0 /\ s.insert = 0
  BY <1>1 DEF Reset, StateFields, NilPos, Zero
<1>4. TablesOK(s)
  <2>1. {} \in Hash
    BY DEF Hash
  <2> QED BY <1>2, <1>3, <2>1 DEF TablesOK
<1>5. Floor(s) = 1
  BY <1>3, SizesAre DEF Floor
<1>6. ChainSet(s, 1, Newest(s), {})
  BY <1>3 DEF ChainSet
<1>7. ~(s.lookahead >= MinMatch)
  BY <1>3, SizesAre
<1> QED BY <1>3, <1>4, <1>5, <1>6, <1>7 DEF Hashed, Chained

LEMMA StepHashed ==
  ASSUME WindowInv, Hashed(s), [Next]_vars
  PROVE  Hashed(s')
<1> DEFINE t == Filled.s
<1>1. /\ Windowed(t, Filled.pos) /\ MatchFits(t) /\ DOMAIN t = StateFields
      /\ t.strstart \in Nat /\ t.lookahead \in Nat /\ t.strstart + MinLookahead <= WindowSize
      /\ cfg \in Configs
  BY FilledIs
<1>2. Hashed(t)
  BY FilledHashed
<1>3. \/ Keeps(s, s', {"lastFlush"})
      \/ s' = t
      \/ cfg.fn = "fast" /\ t.lookahead > 0 /\ s' = FastTurn(t)
      \/ cfg.fn = "slow" /\ t.lookahead > 0 /\ s' = SlowTurn(t)
      \/ t.lookahead = 0 /\ (s' = EndOfInput(t) \/ s' = Marked(EndOfInput(t)))
  BY NextCases
<1> HIDE DEF t
<1>4. CASE Keeps(s, s', {"lastFlush"})
  <2>1. SameTables(s, s') /\ s'.strstart = s.strstart /\ s'.lookahead = s.lookahead
    BY <1>4 DEF Keeps, StateFields, SameTables
  <2>2. Windowed(s, inPos)
    BY DEF WindowInv
  <2> QED BY <2>1, <2>2, HashedSame
<1>5. CASE cfg.fn = "fast" /\ t.lookahead > 0 /\ s' = FastTurn(t)
  BY <1>1, <1>2, <1>5, FastTurnHashed
<1>6. CASE cfg.fn = "slow" /\ t.lookahead > 0 /\ s' = SlowTurn(t)
  BY <1>1, <1>2, <1>6, SlowTurnHashed
<1>7. CASE t.lookahead = 0 /\ (s' = EndOfInput(t) \/ s' = Marked(EndOfInput(t)))
  <2>1. Hashed(EndOfInput(t))
    BY <1>1, <1>2, <1>7, EndOfInputHashed
  <2>2. Windowed(EndOfInput(t), Filled.pos) /\ EndOfInput(t).lookahead = 0
    BY <1>1, <1>7, EndOfInputWindowed
  <2> QED BY <1>7, <2>1, <2>2, MarkedHashed
<1> QED BY <1>2, <1>3, <1>4, <1>5, <1>6, <1>7

LEMMA NextKeepsChains == ChainInv /\ [Next]_vars => ChainInv'
<1> SUFFICES ASSUME WindowInv, Hashed(s), [Next]_vars PROVE WindowInv' /\ Hashed(s)'
  BY DEF ChainInv
<1>1. Hashed(s')
  BY StepHashed
<1>2. Hashed(s)'
  BY <1>1 DEF Hashed, TablesOK, Rolled, Chained, ChainSet, Floor, Newest
<1> QED BY <1>2, NextKeepsWindow

-----------------------------------------------------------------------------
(* Walks                                                                   *)

\* A recursive function on an interval that is given by its first value and by
\* what follows a value
Recurses(f, n, start, follow) ==
  \A k \in 0 .. n : f[k] = IF k = 0 THEN start ELSE follow[f[k - 1]]

LEMMA RecursionExists ==
  ASSUME NEW start, NEW follow, NEW n \in Nat,
         NEW V, start \in V, \A x \in V : follow[x] \in V
  PROVE  \E f \in [0 .. n -> V] : Recurses(f, n, start, follow)
<1> DEFINE X == {k \in Nat : \E f \in [0 .. k -> V] : \A j \in 0 .. k : f[j] = IF j = 0 THEN start ELSE follow[f[j - 1]]}
<1>1. 0 \in X
  <2> DEFINE g == [j \in 0 .. 0 |-> start]
  <2>1. g \in [0 .. 0 -> V] /\ \A j \in 0 .. 0 : g[j] = IF j = 0 THEN start ELSE follow[g[j - 1]]
    OBVIOUS
  <2> HIDE DEF g
  <2> QED BY <2>1
<1>2. ASSUME NEW k \in 0 .. n - 1, k \in X PROVE k + 1 \in X
  <2>1. PICK f \in [0 .. k -> V] : \A j \in 0 .. k : f[j] = IF j = 0 THEN start ELSE follow[f[j - 1]]
    BY <1>2
  <2> DEFINE x == follow[f[k]]
             g == [j \in 0 .. k + 1 |-> IF j = k + 1 THEN x ELSE f[j]]
  <2>2. x \in V /\ k \in Nat
    BY <2>1
  <2>3. g \in [0 .. k + 1 -> V]
    <3> HIDE DEF x
    <3>1. ASSUME NEW j \in 0 .. k + 1 PROVE (IF j = k + 1 THEN x ELSE f[j]) \in V
      BY <2>1, <2>2
    <3> QED BY <3>1
  <2>4. ASSUME NEW j \in 0 .. k + 1 PROVE g[j] = IF j = 0 THEN start ELSE follow[g[j - 1]]
    <3>1. CASE j = k + 1
      <4>1. j # 0 /\ j - 1 = k /\ k \in 0 .. k + 1 /\ k # k + 1
        BY <2>2, <3>1
      <4> HIDE DEF x
      <4>2. g[j] = x /\ g[j - 1] = f[k]
        BY <3>1, <4>1
      <4> QED BY <4>1, <4>2 DEF x
    <3>2. CASE j # k + 1
      <4>1. j \in 0 .. k
        BY <2>2, <3>2
      <4> HIDE DEF x
      <4>2. g[j] = f[j]
        BY <3>2
      <4>3. j # 0 => j - 1 \in 0 .. k + 1 /\ j - 1 # k + 1
        BY <2>2, <4>1
      <4>4. j # 0 => g[j - 1] = f[j - 1]
        BY <4>3
      <4> QED BY <2>1, <4>1, <4>2, <4>4
    <3> QED BY <3>1, <3>2
  <2> HIDE DEF g
  <2> QED BY <2>2, <2>3, <2>4
<1> HIDE DEF X
<1>3. n \in X
  BY <1>1, <1>2, InductionUpTo
<1>4. PICK f \in [0 .. n -> V] : \A j \in 0 .. n : f[j] = IF j = 0 THEN start ELSE follow[f[j - 1]]
  BY <1>3 DEF X
<1> QED BY <1>4 DEF Recurses

\* The walk from head h down the chain
Follow == [p \in 0 .. WindowSize - 1 |-> IF p <= Limit THEN NilPos ELSE s.prev[p % WSize]]

LEMMA FollowTyped ==
  ASSUME TablesOK(s), NEW p \in 0 .. WindowSize - 1
  PROVE  Follow[p] \in 0 .. WindowSize - 1
<1>1. p % WSize \in 0 .. WSize - 1
  BY Residue
<1>2. s.prev[p % WSize] \in 0 .. WindowSize - 1 /\ NilPos \in 0 .. WindowSize - 1
  BY <1>1, SizesAre DEF TablesOK, NilPos
<1> QED BY <1>2 DEF Follow

\* A walk only visits live positions, each below the one before and of one hash
LEMMA WalkSound ==
  ASSUME NEW L, ChainSet(s, Floor(s), Newest(s), L), TablesOK(s), s.strstart \in Nat,
         NEW h \in Hash, NEW n \in Nat, NEW walk,
         \A k \in 0 .. n : walk[k] = IF k = 0 THEN s.head[h]
                             ELSE IF walk[k - 1] <= Limit THEN NilPos ELSE s.prev[walk[k - 1] % WSize],
         NEW k \in 0 .. n, walk[k] > Limit
  PROVE  /\ walk[k] \in L /\ Hash3(s.window, walk[k]) = h
         /\ k > 0 => walk[k] < walk[k - 1]
<1>1. Limit \in Nat /\ \A p \in 0 .. WindowSize - 1 : p > Limit => ~(p < Floor(s))
  BY SizesAre DEF Limit, Floor
<1> DEFINE Good(j) == /\ walk[j] \in L /\ Hash3(s.window, walk[j]) = h
                      /\ j > 0 => walk[j] < walk[j - 1]
           X == {j \in Nat : /\ walk[j] \in 0 .. WindowSize - 1
                             /\ walk[j] > Limit => Good(j)}
<1>2. 0 \in X
  <2>1. walk[0] = s.head[h] /\ walk[0] \in 0 .. WindowSize - 1
    BY DEF TablesOK
  <2>2. s.head[h] < Floor(s) \/ (s.head[h] \in L /\ Hash3(s.window, s.head[h]) = h)
    BY DEF ChainSet
  <2> QED BY <1>1, <2>1, <2>2
<1>3. ASSUME NEW j \in 0 .. n - 1, j \in X PROVE j + 1 \in X
  <2>1. j \in 0 .. n /\ j + 1 \in 0 .. n /\ (j + 1) - 1 = j /\ j + 1 # 0 /\ j + 1 \in Nat
    OBVIOUS
  <2> DEFINE p == walk[j]
             q == walk[j + 1]
  <2>2. q = (IF p <= Limit THEN NilPos ELSE s.prev[p % WSize]) /\ p \in 0 .. WindowSize - 1
    BY <1>3, <2>1
  <2>3. p > Limit => p \in L /\ Hash3(s.window, p) = h
    BY <1>3
  <2> HIDE DEF p, q
  <2>4. q \in 0 .. WindowSize - 1
    BY <2>2, FollowTyped DEF Follow
  <2>5. ASSUME q > Limit PROVE q \in L /\ Hash3(s.window, q) = h /\ q < p
    <3>1. p > Limit /\ q = s.prev[p % WSize]
      <4>1. CASE p <= Limit
        BY <1>1, <2>2, <2>5, <4>1 DEF NilPos
      <4>2. CASE ~(p <= Limit)
        BY <1>1, <2>2, <4>2
      <4> QED BY <4>1, <4>2
    <3>2. \/ q < Floor(s)
          \/ q \in L /\ q < p /\ Hash3(s.window, q) = Hash3(s.window, p)
      BY <2>3, <3>1 DEF ChainSet
    <3>3. ~(q < Floor(s))
      BY <1>1, <2>4, <2>5
    <3> QED BY <2>3, <3>1, <3>2, <3>3
  <2> QED BY <2>1, <2>4, <2>5 DEF p, q
<1> HIDE DEF X, Good
<1>4. k \in X
  BY <1>2, <1>3, InductionUpTo
<1> QED BY <1>4 DEF X, Good

\* The inductive invariant of the chains: what Link and slideTable do to them,
\* and the strings a flush leaves for later, in every step.
THEOREM ChainInvariant == Spec => []ChainInv
BY InitChainInv, NextKeepsChains, PTL DEF Spec

\* Every chain longestMatch may walk goes strictly down and holds only strings
\* of its own hash, however the window slid and whatever was flushed.
THEOREM ChainsHold == Spec => []ChainsSound
<1>1. ChainInv => ChainsSound
  <2> SUFFICES ASSUME ChainInv, NEW h \in Hash
               PROVE  LET walk[k \in 0 .. MaxDistance] ==
                            IF k = 0 THEN s.head[h]
                            ELSE IF walk[k - 1] <= Limit THEN NilPos ELSE s.prev[walk[k - 1] % WSize]
                      IN  \A k \in 0 .. MaxDistance :
                            walk[k] > Limit => /\ walk[k] < s.strstart + MaxMatch
                                               /\ Hash3(s.window, walk[k]) = h
                                               /\ k > 0 => walk[k] < walk[k - 1]
    BY DEF ChainsSound
  <2> DEFINE n == MaxDistance
             Eqn(f) == f = [k \in 0 .. n |-> IF k = 0 THEN s.head[h]
                              ELSE IF f[k - 1] <= Limit THEN NilPos ELSE s.prev[f[k - 1] % WSize]]
             walk == CHOOSE f : Eqn(f)
  <2>1. TablesOK(s) /\ Windowed(s, inPos) /\ Chained(s, Floor(s), Newest(s))
    BY DEF ChainInv, WindowInv, Hashed
  <2>2. n \in Nat
    BY SizesAre
  <2>3. s.head[h] \in 0 .. WindowSize - 1
    BY <2>1 DEF TablesOK
  <2>4. PICK f \in [0 .. n -> 0 .. WindowSize - 1] :
              \A k \in 0 .. n : f[k] = IF k = 0 THEN s.head[h] ELSE Follow[f[k - 1]]
    <3>1. \A p \in 0 .. WindowSize - 1 : Follow[p] \in 0 .. WindowSize - 1
      BY <2>1, FollowTyped
    <3> DEFINE V == 0 .. WindowSize - 1
               start == s.head[h]
               follow == Follow
    <3>2. start \in V /\ \A x \in V : follow[x] \in V
      BY <2>3, <3>1
    <3> HIDE DEF n, V, start, follow
    <3>3. \E f \in [0 .. n -> V] : Recurses(f, n, start, follow)
      BY <2>2, <3>2, RecursionExists
    <3> QED BY <3>3 DEF V, start, follow, Recurses
  <2> HIDE DEF n
  <2>5. Eqn(f)
    <3>1. ASSUME NEW k \in 0 .. n, k # 0
          PROVE  Follow[f[k - 1]] = IF f[k - 1] <= Limit THEN NilPos ELSE s.prev[f[k - 1] % WSize]
      <4>1. k - 1 \in 0 .. n
        BY <2>2, <3>1
      <4>2. f[k - 1] \in 0 .. WindowSize - 1
        BY <2>4, <4>1
      <4> QED BY <4>2 DEF Follow
    <3>2. ASSUME NEW k \in 0 .. n
          PROVE  f[k] = IF k = 0 THEN s.head[h]
                        ELSE IF f[k - 1] <= Limit THEN NilPos ELSE s.prev[f[k - 1] % WSize]
      <4>1. f[k] = IF k = 0 THEN s.head[h] ELSE Follow[f[k - 1]]
        BY <2>4
      <4> QED BY <3>1, <4>1
    <3>3. f = [k \in 0 .. n |-> f[k]]
      BY <2>4
    <3> QED BY <3>2, <3>3
  <2>6. Eqn(walk)
    <3> HIDE DEF Eqn
    <3> QED BY <2>5
  <2> HIDE DEF walk
  <2>7. \A k \in 0 .. n : walk[k] = IF k = 0 THEN s.head[h]
                          ELSE IF walk[k - 1] <= Limit THEN NilPos ELSE s.prev[walk[k - 1] % WSize]
    BY <2>6
  <2>8. PICK L : ChainSet(s, Floor(s), Newest(s), L)
    BY <2>1 DEF Chained
  <2>9. ASSUME NEW k \in 0 .. n, walk[k] > Limit
        PROVE  /\ walk[k] < s.strstart + MaxMatch /\ Hash3(s.window, walk[k]) = h
               /\ k > 0 => walk[k] < walk[k - 1]
    <3>1. s.strstart \in Nat /\ Newest(s) \in Int /\ Newest(s) <= s.strstart /\ Floor(s) \in Nat
      BY <2>1, NewestIs, FloorIs
    <3>2. /\ walk[k] \in L /\ Hash3(s.window, walk[k]) = h
          /\ k > 0 => walk[k] < walk[k - 1]
      BY <2>1, <2>2, <2>7, <2>8, <2>9, <3>1, WalkSound
    <3>3. walk[k] \in Floor(s) .. Newest(s) - 1
      BY <2>8, <3>2 DEF ChainSet
    <3>4. walk[k] < s.strstart + MaxMatch
      BY <3>1, <3>3, SizesAre
    <3> QED BY <3>2, <3>4
  <2> QED BY <2>9 DEF walk, n
<1> QED BY <1>1, ChainInvariant, PTL
=============================================================================
