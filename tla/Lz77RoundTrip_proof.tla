-------------------------- MODULE Lz77RoundTrip_proof --------------------------
(***************************************************************************)
(* What the LZ77 engine emits.  A match longestMatch reports is one, every *)
(* symbol stands for the next bytes of the input (EmitInv), and so         *)
(* decoding the blocks and the symbols still buffered gives the input      *)
(* back.  From this follow the restart after a full flush, what a stored   *)
(* block would copy, the typing of the state, and the safety half of the   *)
(* refinement of Compressor (PromiseInv).                                  *)
(***************************************************************************)
EXTENDS Lz77_proof, SequenceTheorems

-----------------------------------------------------------------------------
(* longestMatch                                                            *)

\* Two strings of one hash that agree in two bytes agree in the third
LEMMA ThirdByte ==
  ASSUME NEW a \in Byte, NEW b \in Byte, NEW c \in Byte, NEW d \in Byte,
         Hash3Of(a, b, c) = Hash3Of(a, b, d)
  PROVE  c = d
<1>1. c \subseteq 0 .. HashBits - 1 /\ d \subseteq 0 .. HashBits - 1
  BY HashSizes DEF Byte
<1>2. ASSUME NEW y \in 0 .. HashBits - 1 PROVE y \in c <=> y \in d
  <2>1. y \in Int
    OBVIOUS
  <2>2. /\ y \in Hash3Of(a, b, c) <=> ~(y - HashShift - HashShift \in a <=> ~(y - HashShift \in b <=> y \in c))
        /\ y \in Hash3Of(a, b, d) <=> ~(y - HashShift - HashShift \in a <=> ~(y - HashShift \in b <=> y \in d))
    BY <2>1, InHash3
  <2> QED BY <2>2
<1> QED BY <1>1, <1>2

LEMMA InWindow ==
  ASSUME NEW p \in 0 .. WindowSize - 1
  PROVE  p % WindowSize = p
<1>1. WindowSize \in Nat /\ WindowSize > 0
  BY SizesAre
<1> QED BY <1>1

\* A position of the chain of the string at strstart
Candidate(t, L, p) ==
  p \in L /\ p < t.strstart /\ Hash3(t.window, p) = Hash3(t.window, t.strstart)

\* The bytes from position m agree with those from strstart over a length
Agrees(t, m, len) == \A j \in 0 .. len - 1 : Same(t, t.strstart + j, m + j)

\* A string a walk may look at is in the window
LEMMA InChain ==
  ASSUME NEW t, NEW L, TablesOK(t), ChainSet(t, Floor(t), t.strstart + 1, L), t.strstart \in Nat,
         t.strstart + 2 <= WindowSize - 1, NEW p \in L
  PROVE  /\ p \in 0 .. WindowSize - 1 /\ p + 1 \in 0 .. WindowSize - 1 /\ p + 2 \in 0 .. WindowSize - 1
         /\ p \in Nat /\ 1 <= p /\ p <= t.strstart /\ t.strstart - p <= MaxDistance
<1>1. p \in Floor(t) .. (t.strstart + 1) - 1
  BY DEF ChainSet
<1>2. Floor(t) \in Nat /\ Floor(t) >= 1 /\ t.strstart <= Floor(t) + MaxDistance
  BY FloorIs
<1> QED BY <1>1, <1>2, SizesAre

\* The third byte is not compared, and need not be
LEMMA QuickAgrees ==
  ASSUME NEW t, NEW L, TablesOK(t), Bytes(t), ChainSet(t, Floor(t), t.strstart + 1, L),
         t.strstart \in Nat, t.strstart + 2 <= WindowSize - 1,
         NEW m, Candidate(t, L, m), Same(t, t.strstart + 0, m + 0), Same(t, t.strstart + 1, m + 1)
  PROVE  /\ MatchLen(t, m) \in MinMatch .. MaxMatch
         /\ Agrees(t, m, MatchLen(t, m))
<1> DEFINE a == t.strstart
<1>1. m \in L /\ Hash3(t.window, m) = Hash3(t.window, a)
  BY DEF Candidate
<1>2. m \in 0 .. WindowSize - 1 /\ m + 1 \in 0 .. WindowSize - 1 /\ m + 2 \in 0 .. WindowSize - 1 /\ m \in Nat
  BY <1>1, InChain
<1>3. a \in 0 .. WindowSize - 1 /\ a + 1 \in 0 .. WindowSize - 1 /\ a + 2 \in 0 .. WindowSize - 1 /\ a \in Nat
  BY SizesAre
<1>4. \A p \in 0 .. WindowSize - 1 : t.window[p] \in Byte /\ p % WindowSize = p
  BY InWindow DEF Bytes
<1>5. t.window[a] = t.window[m] /\ t.window[a + 1] = t.window[m + 1]
  <2>1. a + 0 = a /\ m + 0 = m
    BY <1>2, <1>3
  <2> QED BY <1>2, <1>3, <1>4, <2>1 DEF Same
<1>6. t.window[a + 2] = t.window[m + 2]
  <2>1. Hash3Of(t.window[a], t.window[a + 1], t.window[a + 2])
          = Hash3Of(t.window[a], t.window[a + 1], t.window[m + 2])
    BY <1>1, <1>5 DEF Hash3
  <2> QED BY <1>2, <1>3, <1>4, <2>1, ThirdByte
<1>7. Same(t, a + 2, m + 2)
  BY <1>2, <1>3, <1>4, <1>6 DEF Same
<1>8. /\ MatchLen(t, m) \in MinMatch .. MaxMatch
      /\ \A j \in MinMatch .. MatchLen(t, m) - 1 : Same(t, a + j, m + j)
  BY MatchLenIs
<1>9. ASSUME NEW j \in 0 .. MatchLen(t, m) - 1 PROVE Same(t, a + j, m + j)
  <2>1. j = 0 \/ j = 1 \/ j = 2 \/ j \in MinMatch .. MatchLen(t, m) - 1
    BY <1>8, SizesAre
  <2> QED BY <1>7, <1>8, <2>1
<1> QED BY <1>8, <1>9 DEF Agrees

\* What a walk keeps: what it visits next is in the chain, what it holds agrees
WalkKeeps(t, L, w) ==
  /\ w.live => Candidate(t, L, w.next)
  /\ w.len \in 0 .. MaxMatch
  /\ \/ w.len = t.prevLength
     \/ w.len > t.prevLength /\ w.at \in L /\ w.at < t.strstart /\ Agrees(t, w.at, w.len)

LEMMA VisitKeeps ==
  ASSUME NEW t, NEW L, TablesOK(t), Bytes(t), ChainSet(t, Floor(t), t.strstart + 1, L),
         t.strstart \in Nat, t.strstart + 2 <= WindowSize - 1, t.prevLength \in 0 .. MaxMatch,
         NEW w, WalkKeeps(t, L, w)
  PROVE  WalkKeeps(t, L, Visit(t, w))
<1>1. CASE ~w.live
  BY <1>1 DEF Visit
<1>2. CASE w.live
  <2> DEFINE m      == w.next
             link   == t.prev[m % WSize]
             quick  == \A j \in {0, 1, w.len - 1, w.len} : Same(t, t.strstart + j, m + j)
             len    == MatchLen(t, m)
             better == quick /\ len > w.len
             v      == Visit(t, w)
  <2>1. /\ v.len = (IF better THEN len ELSE w.len) /\ v.at = (IF better THEN m ELSE w.at)
        /\ v.next = link
        /\ v.live => link > ScanLimit(t)
    BY <1>2 DEF Visit
  <2>2. Candidate(t, L, m) /\ w.len \in 0 .. MaxMatch
    BY <1>2 DEF WalkKeeps
  <2>3. m \in L /\ m < t.strstart
    BY <2>2 DEF Candidate
  <2>4. m \in 0 .. WindowSize - 1 /\ m <= t.strstart /\ m \in Nat
    BY <2>3, InChain
  <2> HIDE DEF v, m
  <2>5. v.live => Candidate(t, L, v.next)
    <3>1. m % WSize \in 0 .. WSize - 1
      BY <2>4, Residue
    <3>2. link \in 0 .. WindowSize - 1
      BY <3>1 DEF TablesOK
    <3>3. \/ link < Floor(t)
          \/ link \in L /\ link < m /\ Hash3(t.window, link) = Hash3(t.window, m)
      BY <2>3 DEF ChainSet
    <3> HIDE DEF link
    <3>4. link > ScanLimit(t) => ~(link < Floor(t))
      BY <3>2, SizesAre DEF ScanLimit, Floor
    <3>5. v.live => link \in L /\ link < m /\ Hash3(t.window, link) = Hash3(t.window, m)
      BY <2>1, <3>3, <3>4
    <3>6. v.live => link < t.strstart
      BY <2>3, <2>4, <3>2, <3>5
    <3> QED BY <2>1, <2>2, <3>5, <3>6 DEF Candidate
  <2>6. CASE better
    <3>1. Same(t, t.strstart + 0, m + 0) /\ Same(t, t.strstart + 1, m + 1)
      BY <2>6
    <3>2. len \in MinMatch .. MaxMatch /\ Agrees(t, m, len)
      BY <2>2, <3>1, QuickAgrees
    <3>3. v.len = len /\ v.at = m /\ len > w.len
      BY <2>1, <2>6
    <3> HIDE DEF len, better
    <3>4. len \in 0 .. MaxMatch /\ len > t.prevLength
      BY <2>2, <3>2, <3>3, SizesAre DEF WalkKeeps
    <3>5. v.len \in 0 .. MaxMatch /\ v.len > t.prevLength /\ v.at \in L /\ v.at < t.strstart
          /\ Agrees(t, v.at, v.len)
      BY <2>3, <3>2, <3>3, <3>4
    <3>6. WalkKeeps(t, L, v)
      BY <2>5, <3>5 DEF WalkKeeps
    <3> QED BY <3>6 DEF v
  <2>7. CASE ~better
    <3>1. v.len = w.len /\ v.at = w.at
      BY <2>1, <2>7
    <3> HIDE DEF better
    <3>2. WalkKeeps(t, L, v)
      BY <2>5, <3>1 DEF WalkKeeps
    <3> QED BY <3>2 DEF v
  <2> QED BY <2>6, <2>7
<1> QED BY <1>1, <1>2

\* The match longestMatch reports, if it beats the one at hand, is one
LEMMA LongestMatchSound ==
  ASSUME NEW t, NEW L, TablesOK(t), Bytes(t), ChainSet(t, Floor(t), t.strstart + 1, L),
         t.strstart \in Nat, t.lookahead \in Nat, t.lookahead >= MinMatch,
         t.strstart + t.lookahead <= WindowSize, t.prevLength \in 0 .. MaxMatch,
         NEW head, Candidate(t, L, head), cfg \in Configs,
         LongestMatch(t, head).matchLength > t.prevLength
  PROVE  LET r == LongestMatch(t, head)
         IN  /\ r.matchStart \in L /\ r.matchStart < t.strstart
             /\ Agrees(t, r.matchStart, r.matchLength)
<1> DEFINE r == LongestMatch(t, head)
<1>1. PICK walk, chain : Walked(t, head, walk, chain)
  BY LongestMatchIs
<1>2. /\ chain \in Nat /\ walk[0] = WalkStart(t, head)
      /\ \A k \in 1 .. chain : walk[k] = Visit(t, walk[k - 1])
      /\ r = [t EXCEPT !.matchStart = walk[chain].at, !.matchLength = Min2(walk[chain].len, t.lookahead)]
  BY <1>1 DEF Walked
<1>3. t.strstart + 2 <= WindowSize - 1
  BY SizesAre
<1> DEFINE X == {k \in Nat : WalkKeeps(t, L, walk[k])}
<1>4. 0 \in X
  <2>1. WalkKeeps(t, L, WalkStart(t, head))
    BY DEF WalkKeeps, WalkStart
  <2> QED BY <1>2, <2>1
<1>5. ASSUME NEW k \in 0 .. chain - 1, k \in X PROVE k + 1 \in X
  <2>1. k + 1 \in 1 .. chain /\ (k + 1) - 1 = k /\ k + 1 \in Nat
    BY <1>2
  <2>2. walk[k + 1] = Visit(t, walk[k])
    BY <1>2, <2>1
  <2>3. WalkKeeps(t, L, walk[k])
    BY <1>5
  <2>4. WalkKeeps(t, L, Visit(t, walk[k]))
    BY <1>3, <2>3, VisitKeeps
  <2> QED BY <2>1, <2>2, <2>4
<1> HIDE DEF X
<1>6. chain \in X
  <2>1. \A k \in 0 .. chain : k \in X
    BY <1>2, <1>4, <1>5, InductionUpTo
  <2> QED BY <1>2, <2>1
<1> DEFINE w == walk[chain]
<1>7. WalkKeeps(t, L, w)
  BY <1>6 DEF X
<1>8. DOMAIN t = StateFields
  BY DEF TablesOK
<1>9. r.matchStart = w.at /\ r.matchLength = Min2(w.len, t.lookahead)
  BY <1>2, <1>8 DEF StateFields
<1> HIDE DEF w, r
<1>10. w.len \in Nat /\ w.len > t.prevLength /\ r.matchLength \in Nat /\ r.matchLength <= w.len
  <2>1. w.len \in Nat
    BY <1>7, SizesAre DEF WalkKeeps
  <2>2. r.matchLength \in Nat /\ r.matchLength <= w.len
    BY <1>9, <2>1 DEF Min2
  <2>3. r.matchLength > t.prevLength /\ t.prevLength \in Nat
    BY SizesAre DEF r
  <2> QED BY <2>1, <2>2, <2>3
<1>11. w.at \in L /\ w.at < t.strstart /\ Agrees(t, w.at, w.len)
  <2>1. ~(w.len = t.prevLength)
    BY <1>10, SizesAre
  <2> QED BY <1>7, <2>1 DEF WalkKeeps
<1>12. Agrees(t, w.at, r.matchLength)
  <2>1. \A j \in 0 .. r.matchLength - 1 : j \in 0 .. w.len - 1
    BY <1>10
  <2> QED BY <1>11, <2>1 DEF Agrees
<1> QED BY <1>9, <1>11, <1>12 DEF r

\* The string at strstart has just been inserted: the old head of its chain, if
\* it is in reach, is on the chain
LEMMA HeadCandidate ==
  ASSUME NEW t, NEW u, NEW pos, Windowed(t, pos), Hashed(t), SameTables(Inserted(t), u),
         u.strstart = t.strstart, u.lookahead = t.lookahead, InReach(u, HashHead(t))
  PROVE  /\ t.lookahead >= MinMatch /\ TablesOK(u) /\ Bytes(u)
         /\ \E L : ChainSet(u, Floor(u), u.strstart + 1, L) /\ Candidate(u, L, HashHead(t))
<1> DEFINE ins == Inserted(t)
           head == HashHead(t)
           h == UpdateHash(t.insH, t.window[t.strstart + 2])
<1>1. head # 0 /\ u.strstart - head <= MaxDistance
  BY DEF InReach, NilPos
<1>2. t.lookahead >= MinMatch
  BY <1>1 DEF HashHead, NilPos
<1>3. /\ t.strstart \in Nat /\ t.lookahead \in Nat /\ t.strstart + t.lookahead <= WindowSize
      /\ DOMAIN t = StateFields /\ t.window \in [0 .. WindowSize - 1 -> Byte] /\ TablesOK(t)
  BY DEF Windowed, Hashed
<1>4. MinMatch - 1 = 2 /\ t.strstart + 2 \in 0 .. WindowSize - 1 /\ t.strstart \in 0 .. WindowSize - 1
  BY <1>2, <1>3, SizesAre
<1>5. h \in Hash
  <2>1. t.insH \in Hash /\ t.window[t.strstart + 2] \in Byte
    BY <1>3, <1>4 DEF TablesOK
  <2> QED BY <2>1, UpdateTyped
<1>6. head = t.head[h] /\ ins = InsertString(t, t.strstart)
  BY <1>2, <1>4 DEF HashHead, Inserted
<1> HIDE DEF h
<1>7. /\ ins.prev = [t.prev EXCEPT ![t.strstart % WSize] = t.head[h]]
      /\ ins.head = [t.head EXCEPT ![h] = t.strstart]
  <2>1. ins = [Link(t, h, t.strstart) EXCEPT !.insH = h]
    BY <1>4, <1>6 DEF InsertString, h
  <2> HIDE DEF ins
  <2> QED BY <1>3, <2>1 DEF Link, StateFields
<1>8. u.head[h] = u.strstart /\ u.prev[u.strstart % WSize] = head /\ head \in 0 .. WindowSize - 1
  <2>1. t.strstart % WSize \in 0 .. WSize - 1
    BY <1>4, Residue
  <2>2. u.head = ins.head /\ u.prev = ins.prev
    BY DEF SameTables
  <2>3. h \in DOMAIN t.head /\ t.strstart % WSize \in DOMAIN t.prev /\ t.head[h] \in 0 .. WindowSize - 1
    BY <1>3, <1>5, <2>1 DEF TablesOK
  <2> QED BY <1>6, <1>7, <2>2, <2>3
<1>9. Linked(u)
  <2>1. u.strstart = ins.strstart /\ u.lookahead = ins.lookahead
    BY <1>3, InsertedKeeps DEF Keeps, StateFields, Chains
  <2> QED BY <2>1, InsertedLinked, LinkedFrame
<1> HIDE DEF ins, head
<1>10. TablesOK(u) /\ Bytes(u) /\ Chained(u, Floor(u), u.strstart + 1)
  BY <1>2, <1>9 DEF Linked
<1>11. PICK L : ChainSet(u, Floor(u), u.strstart + 1, L)
  BY <1>10 DEF Chained
<1>12. Floor(u) \in Nat /\ Floor(u) <= u.strstart /\ ~(head < Floor(u))
  <2>1. u.strstart \in Nat
    BY <1>3
  <2>2. head \in Nat
    BY <1>8, SizesAre
  <2>3. Floor(u) = IF u.strstart > MaxDistance THEN u.strstart - MaxDistance ELSE 1
    BY DEF Floor
  <2>4. u.strstart > 0
    <3>1. PICK K : ChainSet(t, Floor(t), Newest(t), K)
      BY DEF Hashed, Chained
    <3>2. Newest(t) \in Int /\ Newest(t) <= t.strstart
      BY <1>3, NewestIs
    <3>3. head < Floor(t) \/ head \in Floor(t) .. Newest(t) - 1
      BY <1>5, <1>6, <3>1 DEF ChainSet
    <3>4. CASE head < Floor(t)
      <4>1. t.strstart = 0 => Floor(t) = 1
        BY SizesAre DEF Floor
      <4> QED BY <1>1, <1>3, <2>2, <3>4, <4>1
    <3>5. CASE head \in Floor(t) .. Newest(t) - 1
      BY <1>3, <2>2, <3>2, <3>5
    <3> QED BY <3>3, <3>4, <3>5
  <2>5. CASE u.strstart > MaxDistance
    BY <1>1, <2>1, <2>2, <2>3, <2>5, SizesAre
  <2>6. CASE ~(u.strstart > MaxDistance)
    BY <1>1, <2>1, <2>2, <2>3, <2>4, <2>6, SizesAre
  <2> QED BY <2>5, <2>6
<1>13. u.strstart \in L
  <2>1. ~(u.head[h] < Floor(u))
    BY <1>3, <1>8, <1>12
  <2> QED BY <1>5, <1>8, <1>11, <2>1 DEF ChainSet
<1>14. Candidate(u, L, head)
  BY <1>8, <1>11, <1>12, <1>13 DEF ChainSet, Candidate
<1> QED BY <1>2, <1>10, <1>11, <1>14 DEF head

\* Stream positions from + 1 .. from + len hold what at + 1 .. at + len hold
Repeats(from, at, len) == \A i \in 1 .. len : data[at + i] = data[from + i]

LEMMA AgreesRepeats ==
  ASSUME NEW t, NEW pos, Windowed(t, pos), NEW m \in Nat, m < t.strstart,
         NEW len \in Nat, len <= t.lookahead, Agrees(t, m, len)
  PROVE  Repeats(t.base + m, t.base + t.strstart, len)
<1>1. /\ t.strstart \in Nat /\ t.lookahead \in Nat /\ t.strstart + t.lookahead <= WindowSize
      /\ t.base \in Nat /\ Mirrors(t)
  BY DEF Windowed
<1> SUFFICES ASSUME NEW i \in 1 .. len
             PROVE  data[(t.base + t.strstart) + i] = data[(t.base + m) + i]
  BY DEF Repeats
<1> DEFINE a == t.strstart + (i - 1)
           b == m + (i - 1)
<1>2. i - 1 \in 0 .. len - 1
  OBVIOUS
<1>3. /\ a \in 0 .. t.strstart + t.lookahead - 1 /\ b \in 0 .. t.strstart + t.lookahead - 1
      /\ a \in 0 .. WindowSize - 1 /\ b \in 0 .. WindowSize - 1
  BY <1>1, <1>2, SizesAre
<1>4. t.base + a + 1 = (t.base + t.strstart) + i /\ t.base + b + 1 = (t.base + m) + i
  BY <1>1
<1>5. Same(t, a, b)
  BY <1>2 DEF Agrees
<1> HIDE DEF a, b
<1>6. t.window[a] = t.window[b]
  BY <1>3, <1>5, InWindow DEF Same
<1>7. t.window[a] = data[t.base + a + 1] /\ t.window[b] = data[t.base + b + 1]
  BY <1>1, <1>3 DEF Mirrors
<1> QED BY <1>4, <1>6, <1>7

\* The match at hand begins earlier in the window and says what is at strstart
MatchHere(m) ==
  /\ m.matchStart \in Nat /\ m.strstart - m.matchStart \in 1 .. MaxDistance
  /\ Repeats(m.base + m.matchStart, m.base + m.strstart, m.matchLength)

LEMMA FoundMatch ==
  ASSUME NEW t, NEW u, NEW pos, Windowed(t, pos), Hashed(t), SameTables(Inserted(t), u),
         Windowed(u, pos), u.strstart = t.strstart, u.lookahead = t.lookahead,
         InReach(u, HashHead(t)), u.prevLength \in 0 .. MaxMatch, cfg \in Configs,
         LongestMatch(u, HashHead(t)).matchLength > u.prevLength
  PROVE  MatchHere(LongestMatch(u, HashHead(t)))
<1> DEFINE head == HashHead(t)
           r == LongestMatch(u, head)
<1>1. /\ u.strstart \in Nat /\ u.lookahead \in Nat /\ u.strstart + u.lookahead <= WindowSize
      /\ DOMAIN u = StateFields
  BY DEF Windowed
<1>2. u.lookahead >= MinMatch /\ TablesOK(u) /\ Bytes(u)
  BY HeadCandidate
<1>3. PICK L : ChainSet(u, Floor(u), u.strstart + 1, L) /\ Candidate(u, L, head)
  BY HeadCandidate
<1>4. /\ r.matchStart \in L /\ r.matchStart < u.strstart /\ Agrees(u, r.matchStart, r.matchLength)
  BY <1>1, <1>2, <1>3, LongestMatchSound
<1>5. /\ Keeps(u, r, {"matchStart", "matchLength"})
      /\ r.matchLength \in 0 .. MaxMatch /\ r.matchLength <= u.lookahead
  BY <1>1, LongestMatchKeeps
<1> HIDE DEF r, head
<1>6. r.strstart = u.strstart /\ r.base = u.base
  BY <1>5 DEF Keeps, StateFields
<1>7. r.matchStart \in Nat /\ r.matchStart <= u.strstart /\ u.strstart - r.matchStart <= MaxDistance
  <2>1. u.strstart + 2 <= WindowSize - 1
    BY <1>1, <1>2, SizesAre
  <2> QED BY <1>1, <1>2, <1>3, <1>4, <2>1, InChain
<1>8. r.strstart - r.matchStart \in 1 .. MaxDistance
  BY <1>1, <1>4, <1>6, <1>7, SizesAre
<1>9. r.matchLength \in Nat
  BY <1>5, SizesAre
<1>10. Repeats(u.base + r.matchStart, u.base + u.strstart, r.matchLength)
  BY <1>4, <1>5, <1>7, <1>9, AgreesRepeats
<1> QED BY <1>6, <1>7, <1>8, <1>10 DEF MatchHere, r, head

\* deflateFast: a match it takes is one
LEMMA FastFoundMatch ==
  ASSUME NEW t, NEW pos, Windowed(t, pos), Hashed(t), MatchFits(t), cfg \in Configs,
         t.prevLength < MinMatch, t.matchLength < MinMatch, FastFound(t).matchLength >= MinMatch
  PROVE  MatchHere(FastFound(t))
<1> DEFINE ins == Inserted(t)
           r == LongestMatch(ins, HashHead(t))
<1>1. DOMAIN t = StateFields /\ t.prevLength \in 0 .. MaxMatch /\ t.matchLength \in 0 .. MaxMatch
  BY DEF Windowed, MatchFits
<1>2. Keeps(t, ins, Chains)
  BY <1>1, InsertedKeeps
<1>3. Windowed(ins, pos)
  BY <1>2, WindowedFrame, KeepsMore DEF Chains, StateFields
<1>4. SameTables(ins, ins) /\ ins.strstart = t.strstart /\ ins.lookahead = t.lookahead
      /\ ins.prevLength = t.prevLength /\ ins.matchLength = t.matchLength
  BY <1>2 DEF Keeps, StateFields, Chains, SameTables
<1>5. InReach(ins, HashHead(t)) /\ FastFound(t) = r
  <2>1. ~(ins.matchLength >= MinMatch)
    BY <1>1, <1>4, SizesAre
  <2>2. FastFound(t) # ins
    BY <2>1
  <2> QED BY <2>2 DEF FastFound
<1>6. r.matchLength > ins.prevLength
  <2>1. r.matchLength \in 0 .. MaxMatch
    BY <1>1, <1>3, <1>4, LongestMatchKeeps DEF Windowed
  <2> HIDE DEF r
  <2>2. r.matchLength >= MinMatch
    BY <1>5
  <2> QED BY <1>1, <1>4, <2>1, <2>2, SizesAre
<1>7. MatchHere(r)
  BY <1>1, <1>3, <1>4, <1>5, <1>6, FoundMatch
<1> QED BY <1>5, <1>7

\* deflateSlow: a match that beats the one before is one
LEMMA SlowFoundMatch ==
  ASSUME NEW t, NEW pos, Windowed(t, pos), Hashed(t), MatchFits(t), cfg \in Configs,
         SlowFound(t).matchLength >= MinMatch, SlowFound(t).matchLength > SlowFound(t).prevLength
  PROVE  MatchHere(SlowFound(t))
<1> DEFINE ins == Inserted(t)
           p == Held(t)
           r == LongestMatch(p, HashHead(t))
           m == SlowFound(t)
<1>1. DOMAIN t = StateFields /\ t.lookahead \in Nat /\ t.matchLength \in 0 .. MaxMatch
  BY DEF Windowed, MatchFits
<1>2. Keeps(t, ins, Chains)
  BY <1>1, InsertedKeeps
<1>3. p = [ins EXCEPT !.prevLength = ins.matchLength, !.prevMatch = ins.matchStart,
                      !.matchLength = MinMatch - 1]
  BY DEF Held
<1> HIDE DEF ins, p
<1>4. /\ SameTables(ins, p) /\ p.strstart = t.strstart /\ p.lookahead = t.lookahead
      /\ p.prevLength = t.matchLength /\ p.matchLength = MinMatch - 1
      /\ Keeps(t, p, Chains \cup {"prevLength", "prevMatch", "matchLength"})
  BY <1>2, <1>3 DEF Keeps, StateFields, Chains, SameTables
<1>5. Windowed(p, pos)
  BY <1>4, WindowedFrame, KeepsMore DEF Chains, StateFields
<1>6. InReach(p, HashHead(t)) /\ m = DropFar(r)
  <2>1. ~(p.matchLength >= MinMatch)
    BY <1>4, SizesAre
  <2>2. m # p
    BY <2>1
  <2> QED BY <2>2 DEF SlowFound, p
<1>7. Keeps(p, r, {"matchStart", "matchLength"}) /\ r.matchLength \in 0 .. MaxMatch
  BY <1>1, <1>4, <1>5, LongestMatchKeeps DEF Windowed
<1>8. m = r
  <2> HIDE DEF r, m
  <2>1. ~(MinMatch - 1 >= MinMatch)
    BY SizesAre
  <2>2. m.matchLength # MinMatch - 1
    BY <2>1 DEF m
  <2>3. DropFar(r).matchLength # MinMatch - 1
    BY <1>6, <2>2
  <2>4. DOMAIN r = StateFields
    BY <1>7 DEF Keeps
  <2>5. DropFar(r) = r
    BY <2>3, <2>4 DEF DropFar, StateFields
  <2> QED BY <1>6, <2>5
<1>9. r.matchLength > p.prevLength
  <2>1. m.prevLength = t.matchLength
    BY <1>1, SlowFoundKeeps
  <2>2. m.matchLength > m.prevLength
    OBVIOUS
  <2> HIDE DEF m, r
  <2> QED BY <1>4, <1>8, <2>1, <2>2
<1>10. MatchHere(r)
  BY <1>1, <1>4, <1>5, <1>6, <1>9, FoundMatch DEF ins
<1> QED BY <1>8, <1>10

-----------------------------------------------------------------------------
(* What symbols stand for                                                  *)

Symbol == {<<c>> : c \in Byte} \cup ((1 .. MaxDistance) \X (MinMatch .. MaxMatch))

\* sym stands for bytes a + 1 .. b of the stream, and a copy it is takes from lo on
Stands(sym, lo, a, b) ==
  \/ b = a + 1 /\ sym = <<data[b]>>
  \/ /\ sym \in (1 .. MaxDistance) \X (MinMatch .. MaxMatch)
     /\ lo <= a - sym[1] /\ b = a + sym[2] /\ Repeats(a - sym[1], a, sym[2])

\* e is how far into the stream each symbol of T brings
Marches(T, e, lo, a, b) ==
  /\ e \in [0 .. Len(T) -> Nat] /\ e[0] = a /\ e[Len(T)] = b
  /\ \A j \in 1 .. Len(T) : Stands(T[j], lo, e[j - 1], e[j])

\* The symbols of T stand for bytes a + 1 .. b
Spelt(T, lo, a, b) == \E e : Marches(T, e, lo, a, b)

LEMMA StandsOn ==
  ASSUME NEW sym, NEW lo, NEW a \in Nat, NEW b, Stands(sym, lo, a, b)
  PROVE  b \in Nat /\ a < b
<1>1. CASE b = a + 1
  BY <1>1
<1>2. CASE sym \in (1 .. MaxDistance) \X (MinMatch .. MaxMatch) /\ b = a + sym[2]
  <2>1. sym[2] \in MinMatch .. MaxMatch
    BY <1>2
  <2> DEFINE n == sym[2]
  <2> HIDE DEF n
  <2>2. n \in MinMatch .. MaxMatch /\ b = a + n
    BY <1>2, <2>1 DEF n
  <2> QED BY <2>2, SizesAre
<1> QED BY <1>1, <1>2 DEF Stands

LEMMA StandsFrom ==
  ASSUME NEW sym, NEW lo \in Nat, NEW more \in Nat, lo <= more, NEW a \in Nat, NEW b, Stands(sym, more, a, b)
  PROVE  Stands(sym, lo, a, b)
<1>1. CASE b = a + 1 /\ sym = <<data[b]>>
  BY <1>1 DEF Stands
<1>2. CASE /\ sym \in (1 .. MaxDistance) \X (MinMatch .. MaxMatch)
           /\ more <= a - sym[1] /\ b = a + sym[2] /\ Repeats(a - sym[1], a, sym[2])
  <2>1. sym[1] \in 1 .. MaxDistance
    BY <1>2
  <2> DEFINE d == sym[1]
  <2>2. d \in 1 .. MaxDistance /\ more <= a - d
    BY <1>2, <2>1
  <2> HIDE DEF d
  <2>3. lo <= a - d
    BY <2>2, SizesAre
  <2> QED BY <1>2, <2>3 DEF Stands, d
<1> QED BY <1>1, <1>2 DEF Stands

LEMMA SpeltNone ==
  ASSUME NEW lo, NEW a \in Nat
  PROVE  Spelt(<<>>, lo, a, a)
<1> DEFINE e == [j \in 0 .. 0 |-> a]
<1>1. Marches(<<>>, e, lo, a, a)
  BY DEF Marches
<1> QED BY <1>1 DEF Spelt

LEMMA SpeltNothing ==
  ASSUME NEW lo, NEW a, NEW b, Spelt(<<>>, lo, a, b)
  PROVE  a = b
<1>1. PICK e : Marches(<<>>, e, lo, a, b)
  BY DEF Spelt
<1>2. Len(<<>>) = 0
  OBVIOUS
<1> QED BY <1>1, <1>2 DEF Marches

LEMMA MarchesUp ==
  ASSUME NEW T \in Seq(Symbol), NEW e, NEW lo, NEW a, NEW b, Marches(T, e, lo, a, b)
  PROVE  \A j \in 0 .. Len(T) : e[j] \in Nat /\ a <= e[j]
<1> DEFINE X == {j \in Nat : e[j] \in Nat /\ a <= e[j]}
<1>0. Len(T) \in Nat
  BY LenProperties
<1>1. Len(T) \in Nat /\ \A j \in 0 .. Len(T) : e[j] \in Nat
  BY <1>0, ZenonT(60) DEF Marches
<1>2. a \in Nat /\ e[0] = a
  BY <1>1 DEF Marches
<1>3. 0 \in X
  BY <1>2
<1>4. ASSUME NEW j \in 0 .. Len(T) - 1, j \in X PROVE j + 1 \in X
  <2>1. j + 1 \in 1 .. Len(T) /\ (j + 1) - 1 = j /\ j \in 0 .. Len(T) /\ j + 1 \in Nat
    BY <1>1
  <2>2. Stands(T[j + 1], lo, e[j], e[j + 1])
    BY <2>1 DEF Marches
  <2>3. e[j] \in Nat /\ a <= e[j]
    BY <1>4
  <2>4. e[j + 1] \in Nat /\ e[j] < e[j + 1]
    BY <2>2, <2>3, StandsOn
  <2> QED BY <1>2, <2>1, <2>3, <2>4
<1> HIDE DEF X
<1>5. \A j \in 0 .. Len(T) : j \in X
  BY <1>1, <1>3, <1>4, InductionUpTo
<1> QED BY <1>5 DEF X

LEMMA SpeltUp ==
  ASSUME NEW T \in Seq(Symbol), NEW lo, NEW a, NEW b, Spelt(T, lo, a, b)
  PROVE  a \in Nat /\ b \in Nat /\ a <= b
<1>1. PICK e : Marches(T, e, lo, a, b)
  BY DEF Spelt
<1>2. Len(T) \in Nat /\ 0 \in 0 .. Len(T) /\ Len(T) \in 0 .. Len(T)
  OBVIOUS
<1>3. e[0] \in Nat /\ e[Len(T)] \in Nat /\ a <= e[Len(T)]
  BY <1>1, <1>2, MarchesUp
<1> QED BY <1>1, <1>3 DEF Marches

LEMMA SpeltFrom ==
  ASSUME NEW T \in Seq(Symbol), NEW lo \in Nat, NEW more \in Nat, lo <= more,
         NEW a, NEW b, Spelt(T, more, a, b)
  PROVE  Spelt(T, lo, a, b)
<1>1. PICK e : Marches(T, e, more, a, b)
  BY DEF Spelt
<1>2. ASSUME NEW j \in 1 .. Len(T) PROVE Stands(T[j], lo, e[j - 1], e[j])
  <2>1. j - 1 \in 0 .. Len(T)
    OBVIOUS
  <2>2. e[j - 1] \in Nat
    BY <1>1, <2>1, MarchesUp
  <2>3. Stands(T[j], more, e[j - 1], e[j])
    BY <1>1 DEF Marches
  <2> QED BY <2>2, <2>3, StandsFrom
<1>3. Marches(T, e, lo, a, b)
  BY <1>1, <1>2 DEF Marches
<1> QED BY <1>3 DEF Spelt

LEMMA SpeltMore ==
  ASSUME NEW T \in Seq(Symbol), NEW sym \in Symbol, NEW lo, NEW a, NEW b, NEW c,
         Spelt(T, lo, a, b), Stands(sym, lo, b, c)
  PROVE  Spelt(Append(T, sym), lo, a, c) /\ c \in Nat
<1>1. PICK e : Marches(T, e, lo, a, b)
  BY DEF Spelt
<1> DEFINE n == Len(T)
           U == Append(T, sym)
           g == [j \in 0 .. n + 1 |-> IF j = n + 1 THEN c ELSE e[j]]
<1>2. n \in Nat /\ Len(U) = n + 1 /\ U[n + 1] = sym /\ \A j \in 1 .. n : U[j] = T[j]
  OBVIOUS
<1>3. b \in Nat /\ c \in Nat
  BY SpeltUp, StandsOn
<1> HIDE DEF U
<1>4. g \in [0 .. n + 1 -> Nat] /\ g[0] = a /\ g[n + 1] = c /\ g[n] = b
  <2>1. e \in [0 .. n -> Nat] /\ e[0] = a /\ e[n] = b
    BY <1>1 DEF Marches
  <2> HIDE DEF n
  <2>2. \A j \in 0 .. n + 1 : j = n + 1 \/ j \in 0 .. n
    BY <1>2
  <2>3. g \in [0 .. n + 1 -> Nat]
    BY <1>2, <1>3, <2>1, <2>2
  <2>4. 0 \in 0 .. n + 1 /\ n \in 0 .. n + 1 /\ n + 1 \in 0 .. n + 1 /\ n # n + 1 /\ 0 # n + 1
    BY <1>2
  <2> QED BY <2>1, <2>3, <2>4
<1>5. ASSUME NEW j \in 1 .. n + 1 PROVE Stands(U[j], lo, g[j - 1], g[j])
  <2>1. CASE j = n + 1
    <3>1. j - 1 = n
      BY <1>2, <2>1
    <3> HIDE DEF g
    <3> QED BY <1>2, <1>4, <2>1, <3>1
  <2>2. CASE j # n + 1
    <3>1. j \in 1 .. n /\ j - 1 \in 0 .. n + 1 /\ j - 1 # n + 1 /\ j \in 0 .. n + 1
      BY <1>2, <2>2
    <3>2. g[j] = e[j] /\ g[j - 1] = e[j - 1]
      BY <2>2, <3>1
    <3>3. Stands(T[j], lo, e[j - 1], e[j])
      BY <1>1, <3>1 DEF Marches
    <3> QED BY <1>2, <3>1, <3>2, <3>3
  <2> QED BY <2>1, <2>2
<1> HIDE DEF g
<1>6. Marches(U, g, lo, a, c)
  BY <1>2, <1>4, <1>5 DEF Marches
<1> QED BY <1>3, <1>6 DEF Spelt, U

LEMMA SpeltJoin ==
  ASSUME NEW T \in Seq(Symbol), NEW R \in Seq(Symbol), NEW lo, NEW a, NEW b, NEW c,
         Spelt(T, lo, a, b), Spelt(R, lo, b, c)
  PROVE  Spelt(T \o R, lo, a, c)
<1>1. PICK e : Marches(T, e, lo, a, b)
  BY DEF Spelt
<1>2. PICK f : Marches(R, f, lo, b, c)
  BY DEF Spelt
<1> DEFINE n == Len(T)
           m == Len(R)
           U == T \o R
           g == [j \in 0 .. n + m |-> IF j <= n THEN e[j] ELSE f[j - n]]
<1>3. /\ n \in Nat /\ m \in Nat /\ Len(U) = n + m /\ \A j \in 1 .. n : U[j] = T[j]
      /\ \A j \in 1 .. m : U[n + j] = R[j]
  OBVIOUS
<1>4. /\ e \in [0 .. n -> Nat] /\ e[0] = a /\ e[n] = b
      /\ f \in [0 .. m -> Nat] /\ f[0] = b /\ f[m] = c
  BY <1>1, <1>2 DEF Marches
<1> HIDE DEF n, m, U
<1>5. \A j \in 0 .. n + m : (j <= n /\ j \in 0 .. n) \/ (~(j <= n) /\ j - n \in 0 .. m)
  BY <1>3
<1>6. g \in [0 .. n + m -> Nat] /\ g[0] = a /\ g[n] = b
  <2>1. g \in [0 .. n + m -> Nat]
    BY <1>4, <1>5
  <2>2. 0 \in 0 .. n + m /\ 0 <= n /\ n \in 0 .. n + m /\ n <= n
    BY <1>3
  <2> QED BY <1>4, <2>1, <2>2
<1>7. \A j \in 0 .. m : g[n + j] = f[j]
  <2> TAKE j \in 0 .. m
  <2>1. n + j \in 0 .. n + m /\ (n + j) - n = j /\ (n + j <= n => j = 0)
    BY <1>3
  <2>2. CASE j = 0
    <3>1. n + j = n
      BY <1>3, <2>2
    <3> QED BY <1>4, <1>6, <2>2, <3>1
  <2>3. CASE j # 0
    <3>1. ~(n + j <= n)
      BY <2>1, <2>3
    <3> QED BY <2>1, <3>1
  <2> QED BY <2>2, <2>3
<1>8. g[n + m] = c
  <2>1. m \in 0 .. m
    BY <1>3
  <2> QED BY <1>4, <1>7, <2>1
<1>9. ASSUME NEW j \in 1 .. n + m PROVE Stands(U[j], lo, g[j - 1], g[j])
  <2>1. CASE j <= n
    <3>1. j \in 1 .. n /\ j - 1 \in 0 .. n + m /\ j \in 0 .. n + m /\ j - 1 <= n
      BY <1>3, <2>1
    <3>2. Stands(T[j], lo, e[j - 1], e[j])
      BY <1>1, <3>1 DEF Marches, n
    <3>3. g[j] = e[j] /\ g[j - 1] = e[j - 1]
      BY <2>1, <3>1
    <3> HIDE DEF g
    <3> QED BY <1>3, <3>1, <3>2, <3>3
  <2>2. CASE ~(j <= n)
    <3> DEFINE i == j - n
    <3>1. i \in 1 .. m /\ i - 1 \in 0 .. m /\ i \in 0 .. m /\ n + i = j /\ n + (i - 1) = j - 1
      BY <1>3, <2>2
    <3> HIDE DEF i, g
    <3>2. Stands(R[i], lo, f[i - 1], f[i])
      BY <1>2, <3>1 DEF Marches, m
    <3>3. g[n + i] = f[i] /\ g[n + (i - 1)] = f[i - 1]
      BY <1>7, <3>1
    <3>4. U[n + i] = R[i]
      BY <1>3, <3>1
    <3> QED BY <3>1, <3>2, <3>3, <3>4
  <2> QED BY <2>1, <2>2
<1> HIDE DEF g
<1>10. Marches(U, g, lo, a, c)
  BY <1>3, <1>6, <1>8, <1>9 DEF Marches
<1> QED BY <1>10 DEF Spelt, U

-----------------------------------------------------------------------------
(* What has been emitted                                                   *)

Block == [syms : Seq(Symbol), copy : SUBSET Seq(Byte), mark : {"none", "last", Idle} \cup FlushModes]

\* The blocks at which a decoder may start
Restarts(t) == {0} \cup {k \in 1 .. Len(t.out) : t.out[k].mark = "full"}

\* E[k] bytes are in the first k blocks of t, and b in all symbols; whatever
\* follows a restart copies nothing from before it, nor shall it as long as it
\* copies nothing from before H
Tale(t, E, H, b) ==
  /\ t.syms \in Seq(Symbol) /\ t.out \in Seq(Block)
  /\ t.base \in Nat /\ H \in Nat /\ H <= t.base
  /\ E \in [0 .. Len(t.out) -> Nat] /\ E[0] = 0 /\ E[Len(t.out)] = t.base + t.blockStart
  /\ \A j \in Restarts(t) :
       /\ E[j] <= H
       /\ \A k \in j + 1 .. Len(t.out) : Spelt(t.out[k].syms, E[j], E[k - 1], E[k])
       /\ Spelt(t.syms, E[j], E[Len(t.out)], b)
  /\ \A k \in 1 .. Len(t.out) : \A c \in t.out[k].copy : c = SubSeq(data, E[k - 1] + 1, E[k])

Told(t, H, b) == \E E : Tale(t, E, H, b)

LEMMA TaleUp ==
  ASSUME NEW t, NEW E, NEW H, NEW b, Tale(t, E, H, b)
  PROVE  b \in Nat /\ E[Len(t.out)] \in Nat /\ E[Len(t.out)] <= b
<1>1. 0 \in Restarts(t)
  BY DEF Restarts
<1>2. t.syms \in Seq(Symbol) /\ Spelt(t.syms, E[0], E[Len(t.out)], b)
  BY <1>1 DEF Tale
<1> QED BY <1>2, SpeltUp

\* Nothing emitted, the same place in the stream
LEMMA ToldFrame ==
  ASSUME NEW t, NEW u, NEW H, NEW b, Told(t, H, b), u.syms = t.syms, u.out = t.out,
         u.base \in Nat, t.base <= u.base, u.base + u.blockStart = t.base + t.blockStart
  PROVE  Told(u, H, b)
<1>1. PICK E : Tale(t, E, H, b)
  BY DEF Told
<1>2. Restarts(u) = Restarts(t)
  BY DEF Restarts
<1>3. H \in Nat /\ H <= u.base
  BY <1>1 DEF Tale
<1>4. Tale(u, E, H, b)
  BY <1>1, <1>2, <1>3 DEF Tale
<1> QED BY <1>4 DEF Told

LEMMA TallyTold ==
  ASSUME NEW t, DOMAIN t = StateFields, NEW H, NEW b, NEW c, NEW sym \in Symbol,
         Told(t, H, b), Stands(sym, H, b, c)
  PROVE  Told(Tally(t, sym), H, c)
<1> DEFINE u == Tally(t, sym)
<1>1. PICK E : Tale(t, E, H, b)
  BY DEF Told
<1>2. /\ u.syms = Append(t.syms, sym) /\ u.out = t.out /\ u.base = t.base /\ u.blockStart = t.blockStart
  BY DEF Tally, StateFields
<1> HIDE DEF u
<1>3. Restarts(u) = Restarts(t)
  BY <1>2 DEF Restarts
<1>4. b \in Nat
  BY <1>1, TaleUp
<1>5. ASSUME NEW j \in Restarts(t) PROVE Spelt(u.syms, E[j], E[Len(t.out)], c)
  <2>1. /\ j \in 0 .. Len(t.out) /\ E \in [0 .. Len(t.out) -> Nat]
        /\ E[j] <= H /\ H \in Nat /\ t.syms \in Seq(Symbol)
        /\ Spelt(t.syms, E[j], E[Len(t.out)], b)
    <3>1. t.out \in Seq(Block)
      BY <1>1 DEF Tale
    <3>2. j \in 0 .. Len(t.out)
      BY <3>1 DEF Restarts
    <3> QED BY <1>1, <3>2 DEF Tale
  <2>2. Stands(sym, E[j], b, c)
    BY <1>4, <2>1, StandsFrom
  <2> QED BY <1>2, <2>1, <2>2, SpeltMore
<1>6. u.syms \in Seq(Symbol)
  BY <1>1, <1>2 DEF Tale
<1>7. Tale(u, E, H, c)
  BY <1>1, <1>2, <1>3, <1>5, <1>6 DEF Tale
<1> QED BY <1>7 DEF Told, u

\* The slice of the window a stored block would copy
LEMMA WindowSlice ==
  ASSUME NEW t, Mirrors(t), t.strstart \in Nat, t.lookahead \in Nat, t.base \in Nat,
         t.blockStart \in Nat, t.blockStart <= t.strstart, data \in Seq(Byte),
         t.base + t.strstart <= Len(data)
  PROVE  [i \in 1 .. t.strstart - t.blockStart |-> t.window[t.blockStart + i - 1]]
           = SubSeq(data, t.base + t.blockStart + 1, t.base + t.strstart)
<1> DEFINE a == t.strstart
           k == t.blockStart
           B == t.base
<1>1. a \in Nat /\ k \in Nat /\ B \in Nat /\ k <= a
  OBVIOUS
<1>2. ASSUME NEW i \in 1 .. a - k PROVE t.window[k + i - 1] = data[B + k + 1 + i - 1]
  <2> DEFINE p == k + i - 1
  <2>1. p \in 0 .. a + t.lookahead - 1 /\ B + p + 1 = B + k + 1 + i - 1
    BY <1>1, SMTT(60)
  <2> HIDE DEF p
  <2>2. t.window[p] = data[B + p + 1]
    BY <2>1 DEF Mirrors
  <2> QED BY <2>1, <2>2 DEF p
<1> DEFINE f == [i \in 1 .. a - k |-> t.window[k + i - 1]]
           m == B + k + 1
           n == B + a
           sub == SubSeq(data, m, n)
<1>3. /\ m \in Int /\ n \in Int /\ n - m + 1 = a - k /\ a - k \in Nat
      /\ (IF m <= n THEN n - m + 1 ELSE 0) = a - k
      /\ \A i \in m .. n : i \in 1 .. Len(data)
  <2> DEFINE N == Len(data)
  <2>1. N \in Nat /\ B + a <= N
    OBVIOUS
  <2> HIDE DEF N, a, k, B
  <2>2. m \in Int /\ n \in Int /\ n - m + 1 = a - k /\ a - k \in Nat
    BY <1>1
  <2>3. (IF m <= n THEN n - m + 1 ELSE 0) = a - k
    BY <1>1
  <2>4. \A i \in m .. n : i \in 1 .. N
    BY <1>1, <2>1
  <2> QED BY <2>2, <2>3, <2>4 DEF N
<1>4. \A i \in m .. n : data[i] \in Byte
  BY <1>3, ElementOfSeq
<1> HIDE DEF m, n, a, k, B
<1>5. sub \in Seq(Byte) /\ Len(sub) = a - k /\ \A i \in 1 .. a - k : sub[i] = data[m + i - 1]
  BY <1>3, <1>4, SubSeqProperties
<1> HIDE DEF sub
<1>6. sub = [i \in 1 .. a - k |-> sub[i]]
  <2>1. DOMAIN sub = 1 .. a - k
    BY <1>5
  <2> QED BY <1>5, <2>1
<1>7. \A i \in 1 .. a - k : sub[i] = t.window[k + i - 1]
  BY <1>2, <1>5 DEF m
<1>8. f = sub
  BY <1>6, <1>7
<1> QED BY <1>8 DEF sub, m, n, a, k, B

\* A block that tells all symbols since blockStart
LEMMA FlushBlockTold ==
  ASSUME NEW t, NEW pos, Windowed(t, pos), NEW H, Told(t, H, t.base + t.strstart), data \in Seq(Byte),
         pos <= Len(data), t.blockStart \in Int, NEW last \in BOOLEAN
  PROVE  LET u == FlushBlock(t, last)
         IN  Told(u, H, t.base + t.strstart) /\ u.syms = <<>> /\ u.blockStart \in Int
<1> DEFINE u == FlushBlock(t, last)
           copy == IF t.blockStart >= 0
                     THEN {[i \in 1 .. t.strstart - t.blockStart |-> t.window[t.blockStart + i - 1]]}
                     ELSE {}
           mark == IF last THEN "last" ELSE "none"
           block == [syms |-> t.syms, copy |-> copy, mark |-> mark]
           n == Len(t.out)
           b == t.base + t.strstart
<1>1. PICK E : Tale(t, E, H, b)
  BY DEF Told
<1>2. /\ u.syms = <<>> /\ u.out = Append(t.out, block) /\ u.base = t.base /\ u.blockStart = t.strstart
  BY DEF FlushBlock, StateFields, Windowed
<1> DEFINE G == [k \in 0 .. n + 1 |-> IF k = n + 1 THEN b ELSE E[k]]
<1>3. /\ t.strstart \in Nat /\ t.lookahead \in Nat /\ t.base \in Nat /\ Mirrors(t)
      /\ b <= Len(data) /\ Len(data) \in Nat
  <2>1. /\ t.strstart \in Nat /\ t.lookahead \in Nat /\ t.base \in Nat /\ Mirrors(t)
        /\ t.base + t.strstart + t.lookahead = pos
    BY DEF Windowed
  <2>2. Len(data) \in Nat
    OBVIOUS
  <2> QED BY <2>1, <2>2
<1>4. E[n] = t.base + t.blockStart /\ E[n] <= b /\ b \in Nat /\ E[n] \in Nat
  <2>1. b \in Nat /\ E[n] \in Nat /\ E[n] <= b
    BY <1>1, TaleUp
  <2>2. E[n] = t.base + t.blockStart
    BY <1>1 DEF Tale
  <2> QED BY <2>1, <2>2
<1>5. copy \in SUBSET Seq(Byte) /\ \A c \in copy : c = SubSeq(data, E[n] + 1, b)
  <2>1. CASE t.blockStart >= 0
    <3>1. t.blockStart \in Nat /\ t.blockStart <= t.strstart
      BY <1>3, <1>4, <2>1
    <3>2. copy = {SubSeq(data, E[n] + 1, b)}
      BY <1>3, <1>4, <2>1, <3>1, WindowSlice
    <3>3. SubSeq(data, E[n] + 1, b) \in Seq(Byte)
      BY <1>3, <1>4
    <3> QED BY <3>2, <3>3
  <2>2. CASE ~(t.blockStart >= 0)
    BY <2>2
  <2> QED BY <2>1, <2>2
<1> HIDE DEF copy, u
<1>6. mark \in {"none", "last"} /\ mark # "full"
  OBVIOUS
<1> HIDE DEF mark
<1>7. block \in Block /\ t.out \in Seq(Block) /\ t.syms \in Seq(Symbol)
  BY <1>1, <1>5, <1>6 DEF Block, Tale
<1>8. block.syms = t.syms /\ block.copy = copy /\ block.mark = mark
  OBVIOUS
<1> HIDE DEF block
<1>9. /\ u.out \in Seq(Block) /\ Len(u.out) = n + 1 /\ n \in Nat /\ u.out[n + 1] = block
      /\ \A k \in 1 .. n : u.out[k] = t.out[k]
  BY <1>2, <1>7
<1> HIDE DEF n, b
<1>10. Restarts(u) = Restarts(t) /\ Restarts(t) \subseteq 0 .. n
  <2>1. \A k \in 1 .. n + 1 : k \in 1 .. n \/ k = n + 1
    BY <1>9
  <2>2. 1 .. n \subseteq 1 .. n + 1
    BY <1>9
  <2>3. \A k \in 1 .. n + 1 : u.out[k].mark = "full" <=> k \in 1 .. n /\ t.out[k].mark = "full"
    BY <1>6, <1>8, <1>9, <2>1
  <2>4. Restarts(t) \subseteq 0 .. n
    BY <1>9 DEF Restarts, n
  <2> QED BY <1>9, <2>2, <2>3, <2>4 DEF Restarts, n
<1>11. G \in [0 .. n + 1 -> Nat] /\ G[n + 1] = b /\ \A k \in 0 .. n : G[k] = E[k]
  <2>1. E \in [0 .. n -> Nat]
    BY <1>1 DEF Tale, n
  <2>2. \A k \in 0 .. n + 1 : k = n + 1 \/ k \in 0 .. n
    BY <1>9
  <2>3. \A k \in 0 .. n : k \in 0 .. n + 1 /\ k # n + 1
    BY <1>9
  <2>4. n + 1 \in 0 .. n + 1
    BY <1>9
  <2> QED BY <1>4, <2>1, <2>2, <2>3, <2>4
<1> HIDE DEF G
<1>12. ASSUME NEW j \in Restarts(t), NEW k \in j + 1 .. n + 1
       PROVE  Spelt(u.out[k].syms, G[j], G[k - 1], G[k])
  <2>1. j \in 0 .. n
    BY <1>10
  <2>2. CASE k = n + 1
    <3>1. Spelt(t.syms, E[j], E[n], b)
      BY <1>1 DEF Tale, n
    <3>2. k - 1 = n /\ n \in 0 .. n
      BY <1>9, <2>2
    <3> QED BY <1>8, <1>9, <1>11, <2>1, <2>2, <3>1, <3>2
  <2>3. CASE k # n + 1
    <3>1. k \in j + 1 .. n /\ k \in 1 .. n /\ k \in 0 .. n /\ k - 1 \in 0 .. n
      BY <1>9, <2>1, <2>3
    <3>2. Spelt(t.out[k].syms, E[j], E[k - 1], E[k])
      BY <1>1, <3>1 DEF Tale, n
    <3> QED BY <1>9, <1>11, <2>1, <3>1, <3>2
  <2> QED BY <2>2, <2>3
<1>13. ASSUME NEW k \in 1 .. n + 1, NEW c \in u.out[k].copy
       PROVE  c = SubSeq(data, G[k - 1] + 1, G[k])
  <2>1. CASE k = n + 1
    <3>1. k - 1 = n /\ n \in 0 .. n
      BY <1>9, <2>1
    <3>2. c \in copy
      BY <1>8, <1>9, <1>13, <2>1
    <3>3. c = SubSeq(data, E[n] + 1, b)
      BY <1>5, <3>2 DEF n, b
    <3> QED BY <1>11, <2>1, <3>1, <3>3
  <2>2. CASE k # n + 1
    <3>1. k \in 1 .. n /\ k \in 0 .. n /\ k - 1 \in 0 .. n
      BY <1>9, <2>2
    <3>2. c = SubSeq(data, E[k - 1] + 1, E[k])
      BY <1>1, <1>9, <1>13, <3>1 DEF Tale, n
    <3> QED BY <1>11, <3>1, <3>2
  <2> QED BY <2>1, <2>2
<1>14. ASSUME NEW j \in Restarts(u)
       PROVE  /\ G[j] <= H
              /\ \A k \in j + 1 .. Len(u.out) : Spelt(u.out[k].syms, G[j], G[k - 1], G[k])
              /\ Spelt(u.syms, G[j], G[Len(u.out)], b)
  <2>1. j \in Restarts(t) /\ j \in 0 .. n
    BY <1>10
  <2>2. G[j] <= H
    BY <1>1, <1>11, <2>1 DEF Tale
  <2>3. Spelt(u.syms, G[j], G[n + 1], b)
    BY <1>2, <1>4, <1>11, SpeltNone DEF b
  <2> QED BY <1>9, <1>12, <2>1, <2>2, <2>3
<1>15. Tale(u, G, H, b)
  <2>1. H \in Nat /\ H <= u.base /\ u.base \in Nat
    BY <1>1, <1>2 DEF Tale
  <2>2. u.syms \in Seq(Symbol)
    BY <1>2
  <2>3. G[0] = 0 /\ G[Len(u.out)] = u.base + u.blockStart
    <3>1. 0 \in 0 .. n /\ E[0] = 0
      BY <1>1, <1>9 DEF Tale
    <3>2. u.base + u.blockStart = b
      BY <1>2 DEF b
    <3> QED BY <1>9, <1>11, <3>1, <3>2
  <2> QED BY <1>9, <1>11, <1>13, <1>14, <2>1, <2>2, <2>3 DEF Tale
<1>16. u.blockStart \in Int
  BY <1>2, <1>3
<1> QED BY <1>2, <1>15, <1>16 DEF Told, u, b

LEMMA FlushIfFullTold ==
  ASSUME NEW t, NEW pos, Windowed(t, pos), NEW H, Told(t, H, t.base + t.strstart), data \in Seq(Byte),
         pos <= Len(data), t.blockStart \in Int, Len(t.syms) <= SymEnd
  PROVE  LET u == FlushIfFull(t)
         IN  Told(u, H, t.base + t.strstart) /\ Len(u.syms) < SymEnd /\ u.blockStart \in Int
<1> DEFINE u == FlushIfFull(t)
<1>1. SymEnd \in Nat /\ 0 < SymEnd
  BY SizeAssumption DEF SymEnd
<1>2. CASE Len(t.syms) = SymEnd
  <2>1. u = FlushBlock(t, FALSE)
    BY <1>2 DEF FlushIfFull
  <2>2. Told(u, H, t.base + t.strstart) /\ u.syms = <<>> /\ u.blockStart \in Int
    BY <2>1, FlushBlockTold
  <2>3. Len(<<>>) = 0
    OBVIOUS
  <2> QED BY <1>1, <2>2, <2>3
<1>3. CASE Len(t.syms) # SymEnd
  <2>1. u = t
    BY <1>3 DEF FlushIfFull
  <2>2. Len(t.syms) \in Nat
    <3>1. t.syms \in Seq(Symbol)
      BY DEF Told, Tale
    <3> QED BY <3>1
  <2>3. Len(t.syms) < SymEnd
    BY <1>1, <1>3, <2>2
  <2> QED BY <2>1, <2>3
<1> QED BY <1>2, <1>3

\* A literal stands for the byte at its place in the window
LEMMA LiteralStands ==
  ASSUME NEW t, NEW pos, Windowed(t, pos), NEW i \in 0 .. t.strstart + t.lookahead - 1, NEW H
  PROVE  /\ Literal(t.window[i]) \in Symbol
         /\ Stands(Literal(t.window[i]), H, t.base + i, t.base + i + 1)
<1>1. /\ t.window[i] = data[t.base + i + 1] /\ t.base \in Nat /\ i \in 0 .. WindowSize - 1
      /\ t.window \in [0 .. WindowSize - 1 -> Byte]
  <2>1. t.strstart \in Nat /\ t.lookahead \in Nat /\ t.strstart + t.lookahead <= WindowSize
    BY DEF Windowed
  <2>2. i \in 0 .. WindowSize - 1
    BY <2>1, SizesAre
  <2> QED BY <2>2 DEF Windowed, Mirrors
<1>2. t.window[i] \in Byte
  BY <1>1
<1>3. Literal(t.window[i]) \in Symbol
  BY <1>2 DEF Literal, Symbol
<1>4. Stands(Literal(t.window[i]), H, t.base + i, t.base + i + 1)
  BY <1>1 DEF Literal, Stands
<1> QED BY <1>3, <1>4

LEMMA MatchStands ==
  ASSUME NEW at \in Int, NEW d \in 1 .. MaxDistance, NEW len \in MinMatch .. MaxMatch,
         NEW H, H <= at - d, Repeats(at - d, at, len)
  PROVE  Match(d, len) \in Symbol /\ Stands(Match(d, len), H, at, at + len)
<1>1. Match(d, len) \in (1 .. MaxDistance) \X (MinMatch .. MaxMatch)
  BY DEF Match
<1>2. Match(d, len)[1] = d /\ Match(d, len)[2] = len
  BY DEF Match
<1> QED BY <1>1, <1>2 DEF Symbol, Stands

LEMMA FlushedWindowed ==
  ASSUME NEW t, DOMAIN t = StateFields, NEW pos, Windowed(FlushIfFull(t), pos)
  PROVE  Windowed(t, pos)
<1>1. Keeps(t, FlushIfFull(t), Emits)
  BY FlushIfFullKeeps
<1>2. Keeps(FlushIfFull(t), t, StateFields \ {"window", "strstart", "lookahead", "insert", "highWater", "base"})
  BY <1>1 DEF Keeps, StateFields, Emits
<1> QED BY <1>2, WindowedFrame

LEMMA TallyLength ==
  ASSUME NEW t, DOMAIN t = StateFields, t.syms \in Seq(Symbol), NEW sym \in Symbol, Len(t.syms) < SymEnd
  PROVE  Len(Tally(t, sym).syms) <= SymEnd
<1>1. Tally(t, sym).syms = Append(t.syms, sym)
  BY DEF Tally, StateFields
<1>2. Len(Append(t.syms, sym)) = Len(t.syms) + 1 /\ Len(t.syms) \in Nat
  OBVIOUS
<1>3. SymEnd \in Nat
  BY SizeAssumption DEF SymEnd
<1> QED BY <1>1, <1>2, <1>3

LEMMA ToldIs ==
  ASSUME NEW t, NEW H, NEW b, Told(t, H, b)
  PROVE  t.syms \in Seq(Symbol) /\ t.out \in Seq(Block) /\ t.base \in Nat /\ H \in Nat /\ H <= t.base /\ b \in Nat
<1>1. PICK E : Tale(t, E, H, b)
  BY DEF Told
<1>2. b \in Nat
  BY <1>1, TaleUp
<1> QED BY <1>1, <1>2 DEF Tale

\* The symbol buffer between turns
Buffered(t, H, b) == Told(t, H, b) /\ Len(t.syms) < SymEnd /\ t.blockStart \in Int

-----------------------------------------------------------------------------
(* What a turn emits                                                       *)

\* Tally a symbol, change nothing else that matters, flush a full buffer
LEMMA TallyBuffered ==
  ASSUME NEW t, DOMAIN t = StateFields, NEW H, NEW b, Buffered(t, H, b),
         NEW sym \in Symbol, NEW c, Stands(sym, H, b, c),
         NEW m, Keeps(Tally(t, sym), m, StateFields \ {"syms", "out", "base", "blockStart"}),
         NEW pos, Windowed(m, pos), c = m.base + m.strstart, data \in Seq(Byte), pos <= Len(data)
  PROVE  Buffered(FlushIfFull(m), H, m.base + m.strstart)
<1> DEFINE told == Tally(t, sym)
<1>1. Told(t, H, b) /\ Len(t.syms) < SymEnd /\ t.blockStart \in Int
  BY DEF Buffered
<1>2. Told(told, H, c) /\ t.syms \in Seq(Symbol)
  BY <1>1, TallyTold, ToldIs
<1>3. Len(told.syms) <= SymEnd
  BY <1>1, <1>2, TallyLength
<1>4. told.blockStart = t.blockStart /\ told.base = t.base
  BY DEF Tally, StateFields
<1> HIDE DEF told
<1>5. m.syms = told.syms /\ m.out = told.out /\ m.base = told.base /\ m.blockStart = told.blockStart
  BY DEF Keeps, StateFields, told
<1>6. Told(m, H, c)
  <2>1. told.base \in Nat
    BY <1>2, ToldIs
  <2>2. m.base \in Nat /\ told.base <= m.base /\ m.base + m.blockStart = told.base + told.blockStart
    BY <1>5, <2>1
  <2> QED BY <1>2, <1>5, <2>2, ToldFrame
<1> QED BY <1>1, <1>3, <1>4, <1>5, <1>6, FlushIfFullTold DEF Buffered

\* deflateFast, a match
LEMMA TakeMatchBuffered ==
  ASSUME NEW t, NEW pos, Windowed(t, pos), NEW H, Buffered(t, H, t.base + t.strstart), MatchHere(t),
         t.prevLength \in 0 .. MaxMatch, t.matchLength \in MinMatch .. t.lookahead,
         t.matchLength <= MaxMatch, data \in Seq(Byte), pos <= Len(data)
  PROVE  LET u == TakeMatch(t)
         IN  /\ Buffered(u, H, u.base + u.strstart) /\ u.matchLength = 0
             /\ u.prevLength = t.prevLength /\ u.matchAvailable = t.matchAvailable
<1> DEFINE len   == t.matchLength
           d     == t.strstart - t.matchStart
           left  == t.lookahead - len
           last  == t.strstart + len - 1
           sym   == Match(d, len)
           told  == Tally(t, sym)
           run   == InsertRun(told, t.strstart + 1, last)
           known == IF len <= cfg.maxLazy /\ left >= MinMatch
                      THEN [run EXCEPT !.insH = Hash3(t.window, last)]
                      ELSE [told EXCEPT !.insH = UpdateHash(t.window[last + 1], t.window[last + 2])]
           moved == [known EXCEPT !.lookahead = left, !.strstart = last + 1, !.matchLength = 0]
           u     == FlushIfFull(moved)
<1>1. u = TakeMatch(t)
  BY DEF TakeMatch
<1>2. /\ t.strstart \in Nat /\ t.lookahead \in Nat /\ t.base \in Nat /\ DOMAIN t = StateFields
      /\ len \in MinMatch .. MaxMatch /\ len \in Nat /\ last \in Int /\ t.strstart + 1 \in Nat
      /\ last + 1 = t.strstart + len
  BY SizesAre, SMTT(60) DEF Windowed
<1>3. /\ d \in 1 .. MaxDistance /\ t.matchStart \in Nat
      /\ Repeats(t.base + t.matchStart, t.base + t.strstart, len)
  BY DEF MatchHere
<1>4. sym \in Symbol /\ Stands(sym, H, t.base + t.strstart, t.base + t.strstart + len)
  <2>1. H \in Nat /\ H <= t.base
    BY ToldIs DEF Buffered
  <2>2. (t.base + t.strstart) - d = t.base + t.matchStart /\ H <= (t.base + t.strstart) - d
        /\ t.base + t.strstart \in Int
    <3> DEFINE B == t.base
               a == t.strstart
               m == t.matchStart
    <3>1. B \in Nat /\ a \in Nat /\ m \in Nat /\ H \in Nat /\ H <= B
      BY <1>2, <1>3, <2>1
    <3> HIDE DEF B, a, m
    <3>2. (B + a) - (a - m) = B + m /\ H <= B + m /\ B + a \in Int
      BY <3>1
    <3> QED BY <3>2 DEF B, a, m
  <2>3. Repeats((t.base + t.strstart) - d, t.base + t.strstart, len)
    BY <1>3, <2>2
  <2> HIDE DEF d, len
  <2> QED BY <1>2, <1>3, <2>2, <2>3, MatchStands
<1> HIDE DEF d, sym
<1>5. Keeps(t, told, Emits)
  BY <1>2, TallyKeeps
<1> HIDE DEF told, last, left
<1>6. Keeps(told, run, Chains)
  BY <1>2, <1>5, InsertRunKeeps DEF Keeps
<1> HIDE DEF run
<1>7. Keeps(told, known, Chains)
  <2>1. Keeps(told, [run EXCEPT !.insH = Hash3(t.window, last)], Chains)
    BY <1>6 DEF Keeps, StateFields, Chains
  <2>2. Keeps(told, [told EXCEPT !.insH = UpdateHash(t.window[last + 1], t.window[last + 2])], Chains)
    BY <1>5 DEF Keeps, StateFields, Chains
  <2> QED BY <2>1, <2>2
<1> HIDE DEF known
<1>8. /\ Keeps(told, moved, Chains \cup {"lookahead", "strstart", "matchLength"})
      /\ moved.strstart = last + 1 /\ moved.matchLength = 0
  BY <1>7 DEF Keeps, StateFields, Chains
<1> HIDE DEF moved
<1>9. Keeps(moved, u, Emits)
  BY <1>8, FlushIfFullKeeps DEF Keeps
<1>10. moved.base = t.base /\ moved.prevLength = t.prevLength /\ moved.matchAvailable = t.matchAvailable
  BY <1>5, <1>8 DEF Keeps, StateFields, Chains, Emits
<1>11. Windowed(moved, pos)
  <2>1. Turned(t, u)
    BY <1>1, <1>2, TakeMatchTurns
  <2>2. Windowed(u, pos)
    BY <2>1, TurnedWindowed
  <2> QED BY <1>8, <2>2, FlushedWindowed DEF Keeps
<1>12. t.base + t.strstart + len = moved.base + moved.strstart
  <2>1. moved.strstart = t.strstart + len
    BY <1>2, <1>8 DEF last
  <2> HIDE DEF len
  <2> QED BY <1>2, <1>10, <2>1
<1>13. Keeps(told, moved, StateFields \ {"syms", "out", "base", "blockStart"})
  BY <1>8, KeepsMore DEF StateFields, Chains
<1>14. Buffered(u, H, moved.base + moved.strstart)
  <2> HIDE DEF u, len
  <2>1. Buffered(FlushIfFull(moved), H, moved.base + moved.strstart)
    BY <1>2, <1>4, <1>11, <1>12, <1>13, TallyBuffered DEF told
  <2> QED BY <2>1 DEF u
<1> HIDE DEF u
<1>15. /\ u.base = moved.base /\ u.strstart = moved.strstart /\ u.matchLength = 0
       /\ u.prevLength = t.prevLength /\ u.matchAvailable = t.matchAvailable
  BY <1>8, <1>9, <1>10 DEF Keeps, StateFields, Emits
<1> QED BY <1>1, <1>14, <1>15

\* The match at hand begins a byte back, at or behind H
MatchBack(t, from, len, H) ==
  /\ from \in Int /\ H <= t.base + from /\ t.strstart - 1 - from \in 1 .. MaxDistance
  /\ Repeats(t.base + from, t.base + t.strstart - 1, len)

\* deflateSlow, the match of the turn before
LEMMA TakePreviousBuffered ==
  ASSUME NEW t, NEW pos, Windowed(t, pos), NEW H, Buffered(t, H, t.base + t.strstart - 1),
         MatchBack(t, t.prevMatch, t.prevLength, H),
         t.prevLength \in MinMatch .. t.lookahead + 1, t.prevLength <= MaxMatch,
         data \in Seq(Byte), pos <= Len(data)
  PROVE  LET u == TakePrevious(t)
         IN  /\ Buffered(u, H, u.base + u.strstart) /\ u.matchLength = MinMatch - 1
             /\ u.matchAvailable = FALSE
<1> DEFINE len   == t.prevLength
           d     == t.strstart - 1 - t.prevMatch
           maxInsert == t.strstart + t.lookahead - MinMatch
           end   == t.strstart + t.prevLength - 2
           first == t.strstart + 1
           last  == Min2(end, maxInsert)
           sym   == Match(d, len)
           told  == Tally(t, sym)
           run   == InsertRun(told, first, last)
           known == IF last < first THEN told ELSE [run EXCEPT !.insH = Hash3(t.window, last)]
           moved == [known EXCEPT !.lookahead = @ - (t.prevLength - 1), !.strstart = end + 1,
                                  !.prevLength = 0, !.matchAvailable = FALSE,
                                  !.matchLength = MinMatch - 1]
           u     == FlushIfFull(moved)
           at    == t.base + t.strstart - 1
<1>1. u = TakePrevious(t)
  BY DEF TakePrevious
<1>2. /\ t.strstart \in Nat /\ t.lookahead \in Nat /\ t.base \in Nat /\ DOMAIN t = StateFields
      /\ len \in MinMatch .. MaxMatch /\ len \in Nat
  BY SizesAre DEF Windowed
<1>3. /\ d \in 1 .. MaxDistance /\ t.prevMatch \in Int /\ H <= t.base + t.prevMatch
      /\ Repeats(t.base + t.prevMatch, at, len)
  BY DEF MatchBack
<1>4. first \in Nat /\ last \in Int /\ at \in Int
  <2>1. end \in Int /\ maxInsert \in Int /\ first \in Nat /\ at \in Int
    <3> DEFINE B == t.base
               a == t.strstart
               n == t.lookahead
    <3>1. B \in Nat /\ a \in Nat /\ n \in Nat /\ len \in Nat /\ MinMatch = 3
      BY <1>2, SizesAre
    <3> HIDE DEF B, a, n, len
    <3>2. a + len - 2 \in Int /\ a + n - MinMatch \in Int /\ a + 1 \in Nat /\ B + a - 1 \in Int
      BY <3>1
    <3> QED BY <3>2 DEF B, a, n, len
  <2> HIDE DEF end, maxInsert
  <2>2. last \in Int
    BY <2>1 DEF Min2
  <2> QED BY <2>1, <2>2
<1>5. sym \in Symbol /\ Stands(sym, H, at, at + len)
  <2>1. at - d = t.base + t.prevMatch
    <3> DEFINE B == t.base
               a == t.strstart
               m == t.prevMatch
    <3>1. B \in Nat /\ a \in Nat /\ m \in Int
      BY <1>2, <1>3
    <3> HIDE DEF B, a, m
    <3>2. (B + a - 1) - (a - 1 - m) = B + m
      BY <3>1
    <3> QED BY <3>2 DEF B, a, m
  <2>2. H <= at - d /\ Repeats(at - d, at, len)
    BY <1>3, <2>1
  <2> HIDE DEF d, len, at
  <2> QED BY <1>2, <1>3, <1>4, <2>2, MatchStands
<1> HIDE DEF d, sym
<1>6. Keeps(t, told, Emits)
  BY <1>2, TallyKeeps
<1> HIDE DEF told, first, last
<1>7. Keeps(told, run, Chains)
  BY <1>4, <1>6, InsertRunKeeps DEF Keeps
<1> HIDE DEF run
<1>8. Keeps(told, known, Chains)
  <2>1. Keeps(told, told, Chains)
    BY <1>6 DEF Keeps
  <2>2. Keeps(told, [run EXCEPT !.insH = Hash3(t.window, last)], Chains)
    BY <1>7 DEF Keeps, StateFields, Chains
  <2> QED BY <2>1, <2>2
<1> HIDE DEF known
<1>9. /\ Keeps(told, moved, Chains \cup {"lookahead", "strstart", "prevLength", "matchAvailable", "matchLength"})
      /\ moved.strstart = end + 1 /\ moved.matchLength = MinMatch - 1 /\ moved.matchAvailable = FALSE
  BY <1>8 DEF Keeps, StateFields, Chains
<1> HIDE DEF moved
<1>10. Keeps(moved, u, Emits)
  BY <1>9, FlushIfFullKeeps DEF Keeps
<1>11. moved.base = t.base
  BY <1>6, <1>9 DEF Keeps, StateFields, Chains, Emits
<1>12. Windowed(moved, pos)
  <2>1. Turned(t, u)
    BY <1>1, <1>2, TakePreviousTurns
  <2>2. Windowed(u, pos)
    BY <2>1, TurnedWindowed
  <2> QED BY <1>9, <2>2, FlushedWindowed DEF Keeps
<1>13. at + len = moved.base + moved.strstart
  <2> DEFINE B == t.base
             a == t.strstart
  <2>1. B \in Nat /\ a \in Nat /\ len \in Nat
    BY <1>2
  <2>2. moved.strstart = (a + len - 2) + 1 /\ moved.base = B
    BY <1>9, <1>11
  <2> HIDE DEF len, B, a
  <2>3. (B + a - 1) + len = B + ((a + len - 2) + 1)
    BY <2>1
  <2> QED BY <2>2, <2>3 DEF B, a
<1>14. Keeps(told, moved, StateFields \ {"syms", "out", "base", "blockStart"})
  BY <1>9, KeepsMore DEF StateFields, Chains
<1>15. Buffered(u, H, moved.base + moved.strstart)
  <2>1. Buffered(t, H, at)
    OBVIOUS
  <2> HIDE DEF u, len, at
  <2>2. Buffered(FlushIfFull(moved), H, moved.base + moved.strstart)
    BY <1>2, <1>5, <1>12, <1>13, <1>14, <2>1, TallyBuffered DEF told
  <2> QED BY <2>2 DEF u
<1> HIDE DEF u
<1>16. /\ u.base = moved.base /\ u.strstart = moved.strstart /\ u.matchLength = MinMatch - 1
       /\ u.matchAvailable = FALSE
  BY <1>9, <1>10 DEF Keeps, StateFields, Emits
<1> QED BY <1>1, <1>15, <1>16

\* deflateSlow, the literal a byte back
LEMMA TakeLiteralBuffered ==
  ASSUME NEW t, NEW pos, Windowed(t, pos), NEW H, Buffered(t, H, t.base + t.strstart - 1),
         t.strstart >= 1, data \in Seq(Byte), pos <= Len(data)
  PROVE  LET u == TakeLiteral(t)
         IN  /\ Buffered(u, H, u.base + u.strstart - 1)
             /\ Keeps(t, u, Emits \cup {"lookahead", "strstart"}) /\ u.strstart = t.strstart + 1
<1> DEFINE sym  == Literal(t.window[t.strstart - 1])
           told == Tally(t, sym)
           lit  == FlushIfFull(told)
           u    == TakeLiteral(t)
<1>1. u = [lit EXCEPT !.lookahead = @ - 1, !.strstart = @ + 1]
  BY DEF TakeLiteral
<1>2. /\ t.strstart \in Nat /\ t.lookahead \in Nat /\ t.base \in Nat /\ DOMAIN t = StateFields
  BY DEF Windowed
<1>3. t.strstart - 1 \in 0 .. t.strstart + t.lookahead - 1
  BY <1>2
<1>4. sym \in Symbol /\ Stands(sym, H, t.base + t.strstart - 1, t.base + t.strstart)
  <2> DEFINE i == t.strstart - 1
  <2>1. t.base + i = t.base + t.strstart - 1 /\ t.base + i + 1 = t.base + t.strstart
    BY <1>2
  <2>2. i \in 0 .. t.strstart + t.lookahead - 1
    BY <1>3
  <2> HIDE DEF i
  <2>3. Literal(t.window[i]) \in Symbol /\ Stands(Literal(t.window[i]), H, t.base + i, t.base + i + 1)
    BY <2>2, LiteralStands
  <2> QED BY <2>1, <2>3 DEF i
<1> HIDE DEF sym, u
<1>5. Keeps(t, told, Emits)
  BY <1>2, TallyKeeps
<1>6. Windowed(told, pos)
  BY <1>5, WindowedFrame, KeepsMore DEF Emits, StateFields
<1>7. told.base = t.base /\ told.strstart = t.strstart /\ DOMAIN told = StateFields
  BY <1>5 DEF Keeps, Emits, StateFields
<1>8. Keeps(told, told, StateFields \ {"syms", "out", "base", "blockStart"})
  BY <1>7 DEF Keeps
<1>9. Buffered(lit, H, t.base + t.strstart)
  <2>1. t.base + t.strstart = told.base + told.strstart
    BY <1>7
  <2> QED BY <1>2, <1>4, <1>6, <1>8, <2>1, TallyBuffered
<1>10. Keeps(told, lit, Emits)
  BY <1>7, FlushIfFullKeeps
<1> HIDE DEF told, lit
<1>11. Keeps(t, lit, Emits) /\ lit.strstart = t.strstart /\ lit.base = t.base
  BY <1>5, <1>10 DEF Keeps, Emits, StateFields
<1>12. /\ Keeps(t, u, Emits \cup {"lookahead", "strstart"}) /\ u.strstart = t.strstart + 1
       /\ u.base = t.base /\ u.syms = lit.syms /\ u.out = lit.out /\ u.blockStart = lit.blockStart
  BY <1>1, <1>11 DEF Keeps, Emits, StateFields
<1>13. u.base + u.strstart - 1 = t.base + t.strstart
  BY <1>2, <1>12
<1>14. Told(u, H, t.base + t.strstart)
  <2>1. Told(lit, H, t.base + t.strstart)
    BY <1>9 DEF Buffered
  <2>2. u.base \in Nat /\ lit.base <= u.base /\ u.base + u.blockStart = lit.base + lit.blockStart
    BY <1>2, <1>11, <1>12
  <2> QED BY <1>12, <2>1, <2>2, ToldFrame
<1>15. Len(u.syms) < SymEnd /\ u.blockStart \in Int
  BY <1>9, <1>12 DEF Buffered
<1>16. Buffered(u, H, u.base + u.strstart - 1)
  BY <1>13, <1>14, <1>15 DEF Buffered
<1> QED BY <1>12, <1>16 DEF u

\* deflateFast, a literal
LEMMA FastLiteralBuffered ==
  ASSUME NEW t, NEW pos, Windowed(t, pos), NEW H, Buffered(t, H, t.base + t.strstart),
         t.lookahead > 0, Windowed(FastLiteral(t), pos), data \in Seq(Byte), pos <= Len(data)
  PROVE  LET u == FastLiteral(t)
         IN  /\ Buffered(u, H, u.base + u.strstart) /\ Keeps(t, u, Emits \cup {"lookahead", "strstart"})
<1> DEFINE sym   == Literal(t.window[t.strstart])
           told  == Tally(t, sym)
           moved == [told EXCEPT !.lookahead = @ - 1, !.strstart = @ + 1]
           u     == FlushIfFull(moved)
<1>1. u = FastLiteral(t)
  BY DEF FastLiteral
<1>2. /\ t.strstart \in Nat /\ t.lookahead \in Nat /\ t.base \in Nat /\ DOMAIN t = StateFields
  BY DEF Windowed
<1>3. t.strstart \in 0 .. t.strstart + t.lookahead - 1
  BY <1>2
<1>4. sym \in Symbol /\ Stands(sym, H, t.base + t.strstart, t.base + t.strstart + 1)
  BY <1>3, LiteralStands
<1> HIDE DEF sym
<1>5. Keeps(t, told, Emits)
  BY <1>2, TallyKeeps
<1> HIDE DEF told
<1>6. Keeps(told, moved, {"lookahead", "strstart"}) /\ moved.strstart = t.strstart + 1 /\ moved.base = t.base
  BY <1>5 DEF Keeps, Emits, StateFields
<1> HIDE DEF moved
<1>7. Windowed(moved, pos)
  BY <1>1, <1>6, FlushedWindowed DEF Keeps
<1>8. Keeps(told, moved, StateFields \ {"syms", "out", "base", "blockStart"})
  BY <1>6, KeepsMore DEF StateFields
<1>9. Keeps(moved, u, Emits)
  BY <1>6, FlushIfFullKeeps DEF Keeps
<1>10. t.base + t.strstart + 1 = moved.base + moved.strstart
  BY <1>2, <1>6
<1>11. Buffered(u, H, moved.base + moved.strstart)
  BY <1>2, <1>4, <1>7, <1>8, <1>10, TallyBuffered DEF told
<1> HIDE DEF u
<1>12. u.base = moved.base /\ u.strstart = moved.strstart
  BY <1>9 DEF Keeps, Emits, StateFields
<1>13. Keeps(t, u, Emits \cup {"lookahead", "strstart"})
  BY <1>5, <1>6, <1>9 DEF Keeps, Emits, StateFields
<1> QED BY <1>1, <1>11, <1>12, <1>13

-----------------------------------------------------------------------------
(* The record of the stream, turn by turn                                  *)

\* How far the symbols reach: deflateSlow holds back a byte
Done(t) == IF t.matchAvailable THEN t.base + t.strstart - 1 ELSE t.base + t.strstart

Recorded(t, H) ==
  /\ Buffered(t, H, Done(t)) /\ t.matchAvailable \in BOOLEAN
  /\ t.matchAvailable => t.strstart >= 1 /\ cfg.fn = "slow"
  /\ cfg.fn = "fast" => t.prevLength < MinMatch
  /\ t.matchLength >= MinMatch => t.matchAvailable /\ MatchBack(t, t.matchStart, t.matchLength, H)

LEMMA BufferedFrame ==
  ASSUME NEW t, NEW u, NEW H, NEW b, Buffered(t, H, b), u.syms = t.syms, u.out = t.out,
         u.base = t.base, u.blockStart = t.blockStart
  PROVE  Buffered(u, H, b)
<1>1. t.base \in Nat /\ t.blockStart \in Int
  BY ToldIs DEF Buffered
<1>2. u.base \in Nat /\ t.base <= u.base /\ u.base + u.blockStart = t.base + t.blockStart
  BY <1>1
<1>3. Told(u, H, b)
  BY <1>2, ToldFrame DEF Buffered
<1> QED BY <1>3 DEF Buffered

LEMMA FastTurnRecorded ==
  ASSUME NEW t, NEW pos, Windowed(t, pos), Hashed(t), MatchFits(t), t.lookahead > 0,
         cfg \in Configs, cfg.fn = "fast", NEW H, Recorded(t, H), data \in Seq(Byte), pos <= Len(data)
  PROVE  Recorded(FastTurn(t), H)
<1> DEFINE m == FastFound(t)
           u == FastTurn(t)
<1>1. /\ t.strstart \in Nat /\ t.lookahead \in Nat /\ t.base \in Nat /\ DOMAIN t = StateFields
      /\ t.matchLength < MinMatch /\ t.matchLength \in 0 .. MaxMatch /\ t.prevLength \in 0 .. MaxMatch
  BY DEF Windowed, MatchFits
<1>2. t.matchAvailable = FALSE /\ t.prevLength < MinMatch /\ Buffered(t, H, t.base + t.strstart)
  BY DEF Recorded, Done
<1>3. /\ Keeps(Inserted(t), m, Sought) /\ m.matchLength \in 0 .. MaxMatch /\ m.prevLength = t.prevLength
      /\ m.matchLength < MinMatch \/ m.matchLength <= t.lookahead
  BY <1>1, FastFoundKeeps
<1>4. Keeps(t, m, Chains \cup Sought)
  BY <1>1, <1>3, InsertedKeeps, KeepsTrans
<1>5. m.matchLength >= MinMatch => MatchHere(m)
  BY <1>1, <1>2, FastFoundMatch
<1>6. u = IF m.matchLength >= MinMatch THEN TakeMatch(m) ELSE FastLiteral(m)
  BY FastTurnIs
<1>7. Windowed(u, pos)
  <2>1. Turned(t, u)
    BY <1>1, FastTurnTurns
  <2> QED BY <2>1, TurnedWindowed
<1> HIDE DEF m, u
<1>8. /\ m.strstart = t.strstart /\ m.lookahead = t.lookahead /\ m.base = t.base /\ m.syms = t.syms
      /\ m.out = t.out /\ m.blockStart = t.blockStart /\ m.matchAvailable = FALSE
  BY <1>2, <1>4 DEF Keeps, StateFields, Chains, Sought
<1>9. Windowed(m, pos)
  BY <1>4, WindowedFrame, KeepsMore DEF Chains, Sought, StateFields
<1>10. Buffered(m, H, m.base + m.strstart)
  BY <1>2, <1>8, BufferedFrame
<1>11. CASE m.matchLength >= MinMatch
  <2>1. m.matchLength \in MinMatch .. m.lookahead /\ m.matchLength <= MaxMatch
    BY <1>1, <1>3, <1>8, <1>11, SizesAre
  <2>2. /\ Buffered(u, H, u.base + u.strstart) /\ u.matchLength = 0
        /\ u.prevLength = t.prevLength /\ u.matchAvailable = FALSE
    BY <1>1, <1>3, <1>5, <1>6, <1>8, <1>9, <1>10, <1>11, <2>1, TakeMatchBuffered
  <2>3. ~(u.matchLength >= MinMatch)
    BY <2>2, SizesAre
  <2> QED BY <1>2, <2>2, <2>3 DEF Recorded, Done, u
<1>12. CASE ~(m.matchLength >= MinMatch)
  <2>1. u = FastLiteral(m)
    BY <1>6, <1>12
  <2>2. /\ Buffered(u, H, u.base + u.strstart) /\ Keeps(m, u, Emits \cup {"lookahead", "strstart"})
    BY <1>7, <1>8, <1>9, <1>10, <2>1, FastLiteralBuffered
  <2>3. u.matchLength = m.matchLength /\ u.prevLength = t.prevLength /\ u.matchAvailable = FALSE
    BY <1>3, <1>8, <2>2 DEF Keeps, StateFields, Emits
  <2> QED BY <1>2, <1>12, <2>2, <2>3 DEF Recorded, Done, u
<1> QED BY <1>11, <1>12

LEMMA SlowTurnRecorded ==
  ASSUME NEW t, NEW pos, Windowed(t, pos), Hashed(t), MatchFits(t), t.lookahead > 0,
         cfg \in Configs, cfg.fn = "slow", NEW H, Recorded(t, H), data \in Seq(Byte), pos <= Len(data)
  PROVE  Recorded(SlowTurn(t), H)
<1> DEFINE m == SlowFound(t)
           u == SlowTurn(t)
           takes == m.prevLength >= MinMatch /\ m.matchLength <= m.prevLength
<1>1. /\ t.strstart \in Nat /\ t.lookahead \in Nat /\ t.base \in Nat /\ DOMAIN t = StateFields
      /\ t.matchLength \in 0 .. MaxMatch
      /\ t.matchLength < MinMatch \/ t.matchLength <= t.lookahead + 1
  BY DEF Windowed, MatchFits
<1>2. /\ Buffered(t, H, Done(t)) /\ t.matchAvailable \in BOOLEAN
      /\ t.matchAvailable => t.strstart >= 1
  BY DEF Recorded
<1>3. t.matchLength >= MinMatch => t.matchAvailable /\ MatchBack(t, t.matchStart, t.matchLength, H)
  BY DEF Recorded
<1>4. /\ Keeps(Inserted(t), m, Sought) /\ m.matchLength \in 0 .. MaxMatch /\ m.prevLength = t.matchLength
      /\ m.prevMatch = t.matchStart
  BY <1>1, SlowFoundKeeps
<1>5. Keeps(t, m, Chains \cup Sought)
  BY <1>1, <1>4, InsertedKeeps, KeepsTrans
<1>6. m.matchLength >= MinMatch /\ m.matchLength > m.prevLength => MatchHere(m)
  BY SlowFoundMatch
<1>7. u = IF takes THEN TakePrevious(m) ELSE IF m.matchAvailable THEN TakeLiteral(m) ELSE Postponed(m)
  BY SlowTurnIs
<1> HIDE DEF m, u
<1>8. /\ m.strstart = t.strstart /\ m.lookahead = t.lookahead /\ m.base = t.base /\ m.syms = t.syms
      /\ m.out = t.out /\ m.blockStart = t.blockStart /\ m.matchAvailable = t.matchAvailable
  BY <1>5 DEF Keeps, StateFields, Chains, Sought
<1>9. Windowed(m, pos)
  BY <1>5, WindowedFrame, KeepsMore DEF Chains, Sought, StateFields
<1>10. Buffered(m, H, Done(t))
  BY <1>2, <1>8, BufferedFrame
<1>11. CASE takes
  <2>1. m.prevLength \in MinMatch .. m.lookahead + 1 /\ m.prevLength <= MaxMatch
    BY <1>1, <1>4, <1>8, <1>11, SizesAre
  <2>2. t.matchAvailable /\ MatchBack(t, t.matchStart, t.matchLength, H)
    BY <1>3, <1>4, <1>11
  <2>3. MatchBack(m, m.prevMatch, m.prevLength, H) /\ Buffered(m, H, m.base + m.strstart - 1)
    BY <1>4, <1>8, <1>10, <2>2 DEF MatchBack, Done
  <2>4. u = TakePrevious(m)
    BY <1>7, <1>11
  <2>5. /\ Buffered(u, H, u.base + u.strstart) /\ u.matchLength = MinMatch - 1
        /\ u.matchAvailable = FALSE
    BY <1>9, <2>1, <2>3, <2>4, TakePreviousBuffered
  <2>6. ~(u.matchLength >= MinMatch)
    BY <2>5, SizesAre
  <2>7. cfg.fn # "fast"
    OBVIOUS
  <2> QED BY <2>5, <2>6, <2>7 DEF Recorded, Done, u
<1>12. CASE ~takes
  <2>1. m.matchLength >= MinMatch => MatchHere(m)
    <3>1. m.matchLength >= MinMatch => m.matchLength > m.prevLength
      BY <1>1, <1>4, <1>12, SizesAre
    <3> QED BY <1>6, <3>1
  <2>2. H \in Nat /\ H <= m.base
    BY <1>10, ToldIs DEF Buffered
  <2>3. ASSUME u.base = m.base, u.strstart = m.strstart + 1, m.matchLength >= MinMatch
        PROVE  MatchBack(u, m.matchStart, m.matchLength, H)
    <3>1. /\ m.matchStart \in Nat /\ m.strstart - m.matchStart \in 1 .. MaxDistance
          /\ Repeats(m.base + m.matchStart, m.base + m.strstart, m.matchLength)
      BY <2>1, <2>3 DEF MatchHere
    <3> DEFINE B == m.base
               a == m.strstart
               p == m.matchStart
    <3>2. B \in Nat /\ a \in Nat /\ p \in Nat /\ H \in Nat /\ H <= B
      BY <1>1, <1>8, <2>2, <3>1
    <3> HIDE DEF B, a, p
    <3>3. (a + 1) - 1 - p = a - p /\ B + (a + 1) - 1 = B + a /\ H <= B + p /\ p \in Int
      BY <3>2
    <3> QED BY <2>3, <3>1, <3>3 DEF MatchBack, B, a, p
  <2>4. u.strstart = m.strstart + 1 => u.strstart >= 1
    BY <1>1, <1>8
  <2>5. cfg.fn # "fast"
    OBVIOUS
  <2>6. CASE m.matchAvailable
    <3>1. u = TakeLiteral(m)
      BY <1>7, <1>12, <2>6
    <3>2. Buffered(m, H, m.base + m.strstart - 1) /\ m.strstart >= 1
      BY <1>2, <1>8, <1>10, <2>6 DEF Done
    <3>3. /\ Buffered(u, H, u.base + u.strstart - 1) /\ u.strstart = m.strstart + 1
          /\ Keeps(m, u, Emits \cup {"lookahead", "strstart"})
      BY <1>9, <3>1, <3>2, TakeLiteralBuffered
    <3>4. /\ u.matchLength = m.matchLength /\ u.matchStart = m.matchStart /\ u.base = m.base
          /\ u.matchAvailable = m.matchAvailable
      BY <3>3 DEF Keeps, StateFields, Emits
    <3>5. u.matchAvailable = TRUE
      BY <1>2, <1>8, <2>6, <3>4
    <3> QED BY <2>3, <2>4, <2>5, <3>3, <3>4, <3>5 DEF Recorded, Done, u
  <2>7. CASE ~m.matchAvailable
    <3>1. u = Postponed(m)
      BY <1>7, <1>12, <2>7
    <3>2. DOMAIN m = StateFields
      BY <1>5 DEF Keeps
    <3>3. /\ u.matchAvailable = TRUE /\ u.strstart = m.strstart + 1 /\ u.base = m.base
          /\ u.matchLength = m.matchLength /\ u.matchStart = m.matchStart /\ u.syms = m.syms
          /\ u.out = m.out /\ u.blockStart = m.blockStart
      BY <3>1, <3>2 DEF Postponed, StateFields
    <3>4. Done(u) = Done(t)
      <4>1. m.base + (m.strstart + 1) - 1 = m.base + m.strstart
        BY <1>1, <1>8
      <4>2. Done(t) = m.base + m.strstart
        BY <1>8, <2>7 DEF Done
      <4>3. Done(u) = m.base + (m.strstart + 1) - 1
        BY <3>3 DEF Done
      <4> QED BY <4>1, <4>2, <4>3
    <3>5. Buffered(u, H, Done(u))
      BY <1>10, <3>3, <3>4, BufferedFrame
    <3> QED BY <2>3, <2>4, <2>5, <3>3, <3>5 DEF Recorded, u
  <2> QED BY <2>6, <2>7
<1> QED BY <1>11, <1>12

-----------------------------------------------------------------------------
(* Filling the window moves the record along                               *)

\* The window is where it was, or has been moved down by half of it
Shifted(t, u) ==
  \/ /\ u.base = t.base /\ u.strstart = t.strstart /\ u.blockStart = t.blockStart
     /\ u.matchStart = t.matchStart
  \/ /\ u.base = t.base + WSize /\ u.strstart = t.strstart - WSize /\ t.strstart > WSize
     /\ u.blockStart = t.blockStart - WSize /\ u.matchStart = t.matchStart - WSize

LEMMA ShiftedFrame ==
  ASSUME NEW t, NEW u, NEW v, Shifted(t, u), v.base = u.base, v.strstart = u.strstart,
         v.blockStart = u.blockStart, v.matchStart = u.matchStart
  PROVE  Shifted(t, v)
BY DEF Shifted

LEMMA SlideShifts ==
  ASSUME NEW t, DOMAIN t = StateFields, t.strstart \in Nat
  PROVE  Shifted(t, Slide(t))
<1>1. CASE t.strstart < WSize + MaxDistance
  <2>1. Slide(t) = t
    BY <1>1 DEF Slide
  <2> QED BY <2>1 DEF Shifted
<1>2. CASE ~(t.strstart < WSize + MaxDistance)
  <2>1. t.strstart > WSize
    BY <1>2, SizesAre
  <2> DEFINE u == Slide(t)
  <2>2. /\ u.base = t.base + WSize /\ u.strstart = t.strstart - WSize
        /\ u.blockStart = t.blockStart - WSize /\ u.matchStart = t.matchStart - WSize
    BY <1>2 DEF Slide, StateFields
  <2> QED BY <2>1, <2>2 DEF Shifted
<1> QED BY <1>1, <1>2

LEMMA FillTurnShifts ==
  ASSUME NEW r, ~r.done, r.pos \in 0 .. inLen, inLen \in 0 .. Len(data), data \in Seq(Byte),
         Windowed(r.s, r.pos)
  PROVE  Shifted(r.s, FillTurn(r).s)
<1> DEFINE slid == Slide(r.s)
           n    == Min2(inLen - r.pos, WindowSize - slid.lookahead - slid.strstart)
           read == ReadBuf(slid, r.pos, n)
           full == Rehash(read)
<1>1. FillTurn(r).s = IF r.pos = inLen THEN slid ELSE full
  BY DEF FillTurn
<1>2. DOMAIN r.s = StateFields /\ r.s.strstart \in Nat
  BY DEF Windowed
<1>3. Shifted(r.s, slid) /\ Windowed(slid, r.pos)
  BY <1>2, SlideShifts, SlideWindowed
<1>4. DOMAIN slid = StateFields /\ slid.lookahead \in Nat /\ slid.strstart \in Nat
      /\ slid.insert \in 0 .. MinMatch - 1 /\ slid.strstart + slid.lookahead <= WindowSize
  BY <1>3 DEF Windowed
<1> HIDE DEF slid
<1>5. n \in Nat
  BY <1>4, SizesAre DEF Min2
<1> HIDE DEF n
<1>6. /\ DOMAIN read = StateFields /\ read.lookahead \in Nat /\ read.insert \in 0 .. MinMatch - 1
      /\ read.base = slid.base /\ read.strstart = slid.strstart /\ read.blockStart = slid.blockStart
      /\ read.matchStart = slid.matchStart
  BY <1>4, <1>5 DEF ReadBuf, StateFields
<1> HIDE DEF read
<1>7. Keeps(read, full, Chains \cup {"insert"})
  BY <1>6, RehashKeeps
<1> HIDE DEF full
<1>8. /\ full.base = slid.base /\ full.strstart = slid.strstart /\ full.blockStart = slid.blockStart
      /\ full.matchStart = slid.matchStart
  BY <1>6, <1>7 DEF Keeps, StateFields, Chains
<1>9. Shifted(r.s, full)
  BY <1>3, <1>8, ShiftedFrame
<1> QED BY <1>1, <1>3, <1>9

LEMMA FillWindowShifts ==
  ASSUME NEW t, NEW from \in 0 .. inLen, inLen \in 0 .. Len(data), data \in Seq(Byte), Windowed(t, from)
  PROVE  Shifted(t, FillWindow(t, from).s)
<1> DEFINE r == [s |-> t, pos |-> from, done |-> FALSE]
           q == FillTurn(r)
<1>1. r.s = t /\ r.pos = from /\ r.done = FALSE
  OBVIOUS
<1>2. q.done = TRUE /\ Windowed(q.s, q.pos) /\ Shifted(t, q.s)
  <2> HIDE DEF r
  <2> QED BY <1>1, FillTurnFills, FillTurnShifts
<1>3. FillTurn(q) = q
  BY <1>2 DEF FillTurn
<1>4. FillWindow(t, from).s = ZeroTail(q.s)
  BY <1>3 DEF FillWindow
<1> HIDE DEF q
<1>5. Keeps(q.s, ZeroTail(q.s), {"window", "highWater"})
  BY <1>2, ZeroTailWindowed
<1> DEFINE u == ZeroTail(q.s)
<1> HIDE DEF u
<1>6. /\ u.base = q.s.base /\ u.strstart = q.s.strstart /\ u.blockStart = q.s.blockStart
      /\ u.matchStart = q.s.matchStart
  BY <1>5 DEF Keeps, StateFields, u
<1> QED BY <1>2, <1>4, <1>6, ShiftedFrame DEF u

LEMMA FilledRecorded ==
  ASSUME NEW t, NEW u, NEW pos, NEW ahead, Windowed(t, pos), Windowed(u, ahead), Shifted(t, u),
         Keeps(t, u, FillSet), NEW H, Recorded(t, H)
  PROVE  Recorded(u, H)
<1>1. /\ u.syms = t.syms /\ u.out = t.out /\ u.matchAvailable = t.matchAvailable
      /\ u.prevLength = t.prevLength /\ u.matchLength = t.matchLength
  BY DEF Keeps, StateFields, FillSet, SlideSet
<1>2. CASE /\ u.base = t.base /\ u.strstart = t.strstart /\ u.blockStart = t.blockStart
           /\ u.matchStart = t.matchStart
  <2>1. Done(u) = Done(t)
    BY <1>1, <1>2 DEF Done
  <2>2. Buffered(u, H, Done(u))
    BY <1>1, <1>2, <2>1, BufferedFrame DEF Recorded
  <2>3. u.matchLength >= MinMatch => u.matchAvailable /\ MatchBack(u, u.matchStart, u.matchLength, H)
    BY <1>1, <1>2 DEF Recorded, MatchBack
  <2> QED BY <1>1, <1>2, <2>2, <2>3 DEF Recorded
<1>3. CASE /\ u.base = t.base + WSize /\ u.strstart = t.strstart - WSize /\ t.strstart > WSize
           /\ u.blockStart = t.blockStart - WSize /\ u.matchStart = t.matchStart - WSize
  <2>1. t.base \in Nat /\ t.strstart \in Nat /\ WSize \in Nat /\ t.blockStart \in Int
    BY SizesAre DEF Windowed, Recorded, Buffered
  <2>2. /\ u.base \in Nat /\ t.base <= u.base /\ u.base + u.blockStart = t.base + t.blockStart
        /\ u.blockStart \in Int /\ u.strstart >= 1
    BY <1>3, <2>1
  <2>3. u.base + u.strstart = t.base + t.strstart /\ u.base + u.strstart - 1 = t.base + t.strstart - 1
    BY <1>3, <2>1
  <2>4. Done(u) = Done(t)
    BY <1>1, <2>3 DEF Done
  <2>5. Told(u, H, Done(u))
    BY <1>1, <2>2, <2>4, ToldFrame DEF Recorded, Buffered
  <2>6. Buffered(u, H, Done(u))
    BY <1>1, <2>2, <2>5 DEF Recorded, Buffered
  <2>7. ASSUME u.matchLength >= MinMatch PROVE MatchBack(u, u.matchStart, u.matchLength, H)
    <3>1. MatchBack(t, t.matchStart, t.matchLength, H)
      BY <1>1, <2>7 DEF Recorded
    <3>2. /\ t.matchStart \in Int /\ H <= t.base + t.matchStart
          /\ t.strstart - 1 - t.matchStart \in 1 .. MaxDistance
          /\ Repeats(t.base + t.matchStart, t.base + t.strstart - 1, t.matchLength)
      BY <3>1 DEF MatchBack
    <3>3. /\ u.matchStart \in Int /\ u.base + u.matchStart = t.base + t.matchStart
          /\ u.strstart - 1 - u.matchStart = t.strstart - 1 - t.matchStart
      BY <1>3, <2>1, <3>2
    <3> QED BY <1>1, <2>3, <3>2, <3>3 DEF MatchBack
  <2> QED BY <1>1, <2>2, <2>6, <2>7 DEF Recorded
<1> QED BY <1>2, <1>3 DEF Shifted

-----------------------------------------------------------------------------
(* The end of a call                                                       *)

LEMMA EndOfInputRecorded ==
  ASSUME NEW t, NEW pos, Windowed(t, pos), MatchFits(t), t.lookahead = 0, NEW H, Recorded(t, H),
         data \in Seq(Byte), pos <= Len(data)
  PROVE  LET u == EndOfInput(t)
         IN  Recorded(u, H) /\ u.syms = <<>> /\ u.matchAvailable = FALSE /\ ~(u.matchLength >= MinMatch)
<1> DEFINE sym  == Literal(t.window[t.strstart - 1])
           told == Tally(t, sym)
           lit  == IF t.matchAvailable THEN [told EXCEPT !.matchAvailable = FALSE] ELSE t
           kept == [lit EXCEPT !.insert = Min2(t.strstart, MinMatch - 1)]
           last == FlushBlock(kept, TRUE)
           u    == EndOfInput(t)
           b    == t.base + t.strstart
<1>1. u = IF flush = "finish" THEN [last EXCEPT !.status = "finish"]
          ELSE IF kept.syms # <<>> THEN FlushBlock(kept, FALSE) ELSE kept
  BY DEF EndOfInput
<1>2. /\ t.strstart \in Nat /\ t.lookahead \in Nat /\ t.base \in Nat /\ DOMAIN t = StateFields
      /\ t.matchLength \in 0 .. MaxMatch
      /\ t.matchLength < MinMatch \/ t.matchLength <= t.lookahead + 1
  BY DEF Windowed, MatchFits
<1>3. /\ Buffered(t, H, Done(t)) /\ t.matchAvailable \in BOOLEAN
      /\ t.matchAvailable => t.strstart >= 1
  BY DEF Recorded
<1>4. ~(t.matchLength >= MinMatch)
  BY <1>2, SizesAre
<1>5. Windowed(u, pos)
  BY EndOfInputWindowed
<1> HIDE DEF u
<1>6. /\ Told(lit, H, b) /\ lit.matchAvailable = FALSE /\ lit.blockStart \in Int
      /\ Keeps(t, lit, {"syms", "matchAvailable"})
  <2>1. CASE t.matchAvailable
    <3>1. Done(t) = t.base + t.strstart - 1
      BY <2>1 DEF Done
    <3>2. sym \in Symbol /\ Stands(sym, H, t.base + t.strstart - 1, b)
      <4> DEFINE i == t.strstart - 1
      <4>1. t.base + i = t.base + t.strstart - 1 /\ t.base + i + 1 = b
        BY <1>2
      <4>2. i \in 0 .. t.strstart + t.lookahead - 1
        BY <1>2, <1>3, <2>1
      <4> HIDE DEF i
      <4>3. Literal(t.window[i]) \in Symbol /\ Stands(Literal(t.window[i]), H, t.base + i, t.base + i + 1)
        BY <4>2, LiteralStands
      <4> QED BY <4>1, <4>3 DEF i
    <3> HIDE DEF sym, b
    <3>3. Told(told, H, b)
      BY <1>2, <1>3, <3>1, <3>2, TallyTold DEF Buffered
    <3>4. /\ lit.syms = told.syms /\ lit.out = told.out /\ lit.base = told.base
          /\ lit.blockStart = told.blockStart /\ lit.matchAvailable = FALSE
          /\ lit.blockStart = t.blockStart /\ lit.base = t.base
          /\ Keeps(t, lit, {"syms", "matchAvailable"})
      BY <1>2, <2>1 DEF Tally, Keeps, StateFields
    <3>5. t.blockStart \in Int
      BY <1>3 DEF Buffered
    <3> HIDE DEF lit, told
    <3>6. lit.base \in Nat /\ told.base <= lit.base /\ lit.base + lit.blockStart = told.base + told.blockStart
      BY <1>2, <3>4, <3>5
    <3> QED BY <3>3, <3>4, <3>5, <3>6, ToldFrame
  <2>2. CASE ~t.matchAvailable
    <3>1. lit = t /\ Done(t) = b
      BY <2>2 DEF Done
    <3> QED BY <1>2, <1>3, <2>2, <3>1 DEF Buffered, Keeps
  <2> QED BY <2>1, <2>2
<1> HIDE DEF lit
<1>7. /\ kept.syms = lit.syms /\ kept.out = lit.out /\ kept.base = lit.base
      /\ kept.blockStart = lit.blockStart /\ kept.matchAvailable = FALSE
      /\ kept.base = t.base /\ kept.strstart = t.strstart
      /\ kept.matchLength = t.matchLength /\ kept.prevLength = t.prevLength
      /\ Keeps(lit, kept, {"insert"})
  BY <1>6 DEF Keeps, StateFields
<1> HIDE DEF kept
<1>8. Told(kept, H, kept.base + kept.strstart) /\ kept.blockStart \in Int
  <2>1. kept.base \in Nat /\ lit.base <= kept.base /\ kept.base + kept.blockStart = lit.base + lit.blockStart
    BY <1>2, <1>6, <1>7
  <2> QED BY <1>6, <1>7, <2>1, ToldFrame
<1>9. DOMAIN kept = StateFields
  BY <1>7 DEF Keeps
<1>10. Keeps(kept, u, Emits \cup {"status"})
  <2>1. Keeps(kept, last, Emits) /\ Keeps(kept, FlushBlock(kept, FALSE), Emits)
    BY <1>9, FlushBlockKeeps
  <2> HIDE DEF last
  <2>2. Keeps(kept, [last EXCEPT !.status = "finish"], Emits \cup {"status"})
    BY <2>1 DEF Keeps, StateFields, Emits
  <2>3. Keeps(kept, FlushBlock(kept, FALSE), Emits \cup {"status"}) /\ Keeps(kept, kept, Emits \cup {"status"})
    BY <1>9, <2>1 DEF Keeps
  <2> QED BY <1>1, <2>2, <2>3
<1>11. Windowed(kept, pos)
  <2>1. Keeps(u, kept, StateFields \ {"window", "strstart", "lookahead", "insert", "highWater", "base"})
    BY <1>9, <1>10 DEF Keeps, StateFields, Emits
  <2> QED BY <1>5, <2>1, WindowedFrame
<1>12. /\ u.base = t.base /\ u.strstart = t.strstart /\ u.matchAvailable = FALSE
       /\ u.matchLength = t.matchLength /\ u.prevLength = t.prevLength
  BY <1>7, <1>10 DEF Keeps, StateFields, Emits
<1>13. Told(u, H, b) /\ u.syms = <<>> /\ u.blockStart \in Int
  <2>1. kept.base + kept.strstart = b
    BY <1>7
  <2>2. CASE flush = "finish"
    <3>1. Told(last, H, b) /\ last.syms = <<>> /\ last.blockStart \in Int
      BY <1>8, <1>11, <2>1, FlushBlockTold
    <3>2. DOMAIN last = StateFields
      BY <1>9, FlushBlockKeeps DEF Keeps
    <3> HIDE DEF last
    <3>3. /\ u.syms = last.syms /\ u.out = last.out /\ u.base = last.base /\ u.blockStart = last.blockStart
      BY <1>1, <2>2, <3>2 DEF StateFields
    <3>4. last.base \in Nat
      BY <3>1, ToldIs
    <3>5. u.base \in Nat /\ last.base <= u.base /\ u.base + u.blockStart = last.base + last.blockStart
      BY <3>3, <3>4
    <3> QED BY <3>1, <3>3, <3>5, ToldFrame
  <2>3. CASE flush # "finish" /\ kept.syms # <<>>
    <3>1. u = FlushBlock(kept, FALSE)
      BY <1>1, <2>3
    <3> QED BY <1>8, <1>11, <2>1, <3>1, FlushBlockTold
  <2>4. CASE flush # "finish" /\ kept.syms = <<>>
    BY <1>1, <1>8, <2>1, <2>4
  <2> QED BY <2>2, <2>3, <2>4
<1>14. Done(u) = b
  BY <1>12 DEF Done
<1>15. Len(u.syms) < SymEnd
  <2>1. Len(<<>>) = 0 /\ SymEnd \in Nat /\ 0 < SymEnd
    BY SizeAssumption DEF SymEnd
  <2> QED BY <1>13, <2>1
<1>16. Buffered(u, H, Done(u))
  BY <1>13, <1>14, <1>15 DEF Buffered
<1>17. Recorded(u, H)
  BY <1>4, <1>12, <1>16 DEF Recorded
<1> QED BY <1>4, <1>12, <1>13, <1>17 DEF u

\* A marker says nothing; from a full flush on nothing from before it is copied
LEMMA MarkedRecorded ==
  ASSUME NEW t, NEW pos, Windowed(t, pos), NEW H, Recorded(t, H), t.syms = <<>>,
         t.matchAvailable = FALSE, ~(t.matchLength >= MinMatch), flush \in FlushModes \cup {Idle}
  PROVE  \E K : Recorded(Marked(t), K)
<1> DEFINE u == Marked(t)
           marker == [syms |-> <<>>, copy |-> {}, mark |-> flush]
           told == [t EXCEPT !.out = Append(@, marker)]
           gone == [told EXCEPT !.head = [h \in DOMAIN @ |-> NilPos], !.base = @ + t.strstart,
                                !.strstart = 0, !.blockStart = 0, !.insert = 0]
           n == Len(t.out)
           b == t.base + t.strstart
           K == IF flush = "full" THEN b ELSE H
<1>1. u = IF flush # "full" THEN told ELSE gone
  BY DEF Marked
<1>2. /\ t.strstart \in Nat /\ t.base \in Nat /\ DOMAIN t = StateFields
  BY DEF Windowed
<1>3. Told(t, H, b) /\ Len(t.syms) < SymEnd /\ t.blockStart \in Int
  BY DEF Recorded, Buffered, Done
<1>4. PICK E : Tale(t, E, H, b)
  BY <1>3 DEF Told
<1>5. /\ u.syms = <<>> /\ u.out = Append(t.out, marker) /\ u.matchAvailable = FALSE
      /\ u.matchLength = t.matchLength /\ u.prevLength = t.prevLength
      /\ u.base = (IF flush = "full" THEN b ELSE t.base)
      /\ u.strstart = (IF flush = "full" THEN 0 ELSE t.strstart)
      /\ u.blockStart = (IF flush = "full" THEN 0 ELSE t.blockStart)
  <2>1. /\ told.syms = <<>> /\ told.out = Append(t.out, marker) /\ told.matchAvailable = FALSE
        /\ told.matchLength = t.matchLength /\ told.prevLength = t.prevLength
        /\ told.base = t.base /\ told.strstart = t.strstart /\ told.blockStart = t.blockStart
        /\ DOMAIN told = StateFields
    BY <1>2 DEF StateFields
  <2> HIDE DEF told, marker
  <2>2. /\ gone.syms = <<>> /\ gone.out = told.out /\ gone.matchAvailable = FALSE
        /\ gone.matchLength = t.matchLength /\ gone.prevLength = t.prevLength
        /\ gone.base = b /\ gone.strstart = 0 /\ gone.blockStart = 0
    BY <2>1 DEF StateFields
  <2> HIDE DEF gone
  <2> QED BY <1>1, <2>1, <2>2
<1> HIDE DEF u
<1>6. E[n] = t.base + t.blockStart /\ E[n] = b /\ b \in Nat /\ E \in [0 .. n -> Nat] /\ E[0] = 0
  <2>1. 0 \in Restarts(t)
    BY DEF Restarts
  <2>2. Spelt(<<>>, E[0], E[n], b)
    BY <1>4, <2>1 DEF Tale
  <2>3. E[n] = b
    BY <2>2, SpeltNothing
  <2>4. b \in Nat
    BY <1>2
  <2> QED BY <1>4, <2>3, <2>4 DEF Tale
<1>7. marker \in Block /\ marker.syms = <<>> /\ marker.copy = {} /\ marker.mark = flush
  <2>1. <<>> \in Seq(Symbol) /\ {} \in SUBSET Seq(Byte)
    OBVIOUS
  <2> QED BY <2>1 DEF Block
<1> HIDE DEF marker
<1>8. t.out \in Seq(Block)
  BY <1>4 DEF Tale
<1>9. /\ u.out \in Seq(Block) /\ Len(u.out) = n + 1 /\ n \in Nat /\ u.out[n + 1] = marker
      /\ \A k \in 1 .. n : u.out[k] = t.out[k]
  BY <1>5, <1>7, <1>8
<1>10. b = u.base + u.strstart /\ u.base \in Nat /\ b = u.base + u.blockStart
       /\ u.blockStart \in Int
  <2>1. CASE flush = "full"
    BY <1>2, <1>5, <1>6, <2>1
  <2>2. CASE flush # "full"
    BY <1>2, <1>3, <1>5, <1>6, <2>2
  <2> QED BY <2>1, <2>2
<1>11. K \in Nat /\ H \in Nat /\ H <= K /\ K <= u.base
  <2>1. H \in Nat /\ H <= t.base
    BY <1>4 DEF Tale
  <2>2. CASE flush = "full"
    <3>1. t.base <= b
      BY <1>2
    <3> HIDE DEF b
    <3> QED BY <1>2, <1>5, <1>6, <2>1, <2>2, <3>1
  <2>3. CASE flush # "full"
    BY <1>2, <1>5, <2>1, <2>3
  <2> QED BY <2>2, <2>3
<1> DEFINE G == [k \in 0 .. n + 1 |-> IF k = n + 1 THEN b ELSE E[k]]
<1> HIDE DEF n, b, K
<1>12. G \in [0 .. n + 1 -> Nat] /\ G[n + 1] = b /\ \A k \in 0 .. n : G[k] = E[k]
  <2>1. \A k \in 0 .. n + 1 : k = n + 1 \/ k \in 0 .. n
    BY <1>9
  <2>2. \A k \in 0 .. n : k \in 0 .. n + 1 /\ k # n + 1
    BY <1>9
  <2>3. n + 1 \in 0 .. n + 1
    BY <1>9
  <2> QED BY <1>6, <2>1, <2>2, <2>3
<1> HIDE DEF G
<1>13. ASSUME NEW j \in Restarts(u)
       PROVE  (j \in Restarts(t) /\ j \in 0 .. n) \/ (j = n + 1 /\ flush = "full")
  <2>1. j = 0 \/ (j \in 1 .. n + 1 /\ u.out[j].mark = "full")
    BY <1>9, <1>13 DEF Restarts
  <2>2. CASE j = 0
    BY <1>9, <2>2 DEF Restarts
  <2>3. CASE j \in 1 .. n + 1 /\ u.out[j].mark = "full"
    <3>1. CASE j = n + 1
      BY <1>7, <1>9, <2>3, <3>1
    <3>2. CASE j # n + 1
      <4>1. j \in 1 .. n /\ j \in 0 .. n
        BY <1>9, <2>3, <3>2
      <4> QED BY <1>9, <2>3, <4>1 DEF Restarts, n
    <3> QED BY <3>1, <3>2
  <2> QED BY <2>1, <2>2, <2>3
<1>14. ASSUME NEW j \in Restarts(u)
       PROVE  /\ G[j] <= K
              /\ \A k \in j + 1 .. n + 1 : Spelt(u.out[k].syms, G[j], G[k - 1], G[k])
              /\ Spelt(u.syms, G[j], G[n + 1], b)
  <2>1. CASE j \in Restarts(t) /\ j \in 0 .. n
    <3>1. G[j] = E[j] /\ E[j] <= H /\ E[j] \in Nat
      BY <1>4, <1>6, <1>12, <2>1 DEF Tale
    <3>2. G[j] <= K
      BY <1>11, <3>1
    <3>3. ASSUME NEW k \in j + 1 .. n + 1 PROVE Spelt(u.out[k].syms, G[j], G[k - 1], G[k])
      <4>1. CASE k = n + 1
        <5>1. k - 1 = n /\ n \in 0 .. n
          BY <1>9, <4>1
        <5>2. G[k - 1] = b /\ G[k] = b /\ u.out[k].syms = <<>>
          BY <1>6, <1>7, <1>9, <1>12, <4>1, <5>1
        <5> QED BY <1>6, <5>2, SpeltNone
      <4>2. CASE k # n + 1
        <5>1. k \in j + 1 .. n /\ k \in 1 .. n /\ k \in 0 .. n /\ k - 1 \in 0 .. n
          BY <1>9, <2>1, <4>2
        <5>2. Spelt(t.out[k].syms, E[j], E[k - 1], E[k])
          BY <1>4, <2>1, <5>1 DEF Tale, n
        <5> QED BY <1>9, <1>12, <3>1, <5>1, <5>2
      <4> QED BY <4>1, <4>2
    <3>4. Spelt(u.syms, G[j], G[n + 1], b)
      BY <1>5, <1>6, <1>12, SpeltNone
    <3> QED BY <3>2, <3>3, <3>4
  <2>2. CASE j = n + 1 /\ flush = "full"
    <3>1. G[j] <= K
      <4>1. K = b
        BY <2>2 DEF K, b
      <4> QED BY <1>6, <1>12, <2>2, <4>1
    <3>2. \A k \in j + 1 .. n + 1 : FALSE
      BY <1>9, <2>2
    <3>3. Spelt(u.syms, G[j], G[n + 1], b)
      BY <1>5, <1>6, <1>12, SpeltNone
    <3> QED BY <3>1, <3>2, <3>3
  <2> QED BY <1>13, <2>1, <2>2
<1>15. ASSUME NEW k \in 1 .. n + 1, NEW c \in u.out[k].copy
       PROVE  c = SubSeq(data, G[k - 1] + 1, G[k])
  <2>1. CASE k = n + 1
    BY <1>7, <1>9, <1>15, <2>1
  <2>2. CASE k # n + 1
    <3>1. k \in 1 .. n /\ k \in 0 .. n /\ k - 1 \in 0 .. n
      BY <1>9, <2>2
    <3>2. c = SubSeq(data, E[k - 1] + 1, E[k])
      BY <1>4, <1>9, <1>15, <3>1 DEF Tale, n
    <3> QED BY <1>12, <3>1, <3>2
  <2> QED BY <2>1, <2>2
<1>16. Tale(u, G, K, b)
  <2>1. u.syms \in Seq(Symbol)
    BY <1>5
  <2>2. G[0] = 0 /\ G[Len(u.out)] = u.base + u.blockStart
    <3>1. 0 \in 0 .. n
      BY <1>9
    <3> QED BY <1>6, <1>9, <1>10, <1>12, <3>1
  <2> QED BY <1>9, <1>10, <1>11, <1>12, <1>14, <1>15, <2>1, <2>2 DEF Tale
<1>17. Done(u) = b
  BY <1>5, <1>10 DEF Done
<1>18. Len(u.syms) < SymEnd
  BY <1>3, <1>5
<1>19. Buffered(u, K, Done(u))
  BY <1>10, <1>16, <1>17, <1>18 DEF Buffered, Told
<1>20. Recorded(u, K)
  <2>1. cfg.fn = "fast" => t.prevLength < MinMatch
    BY DEF Recorded
  <2> QED BY <1>5, <1>19, <2>1 DEF Recorded
<1> QED BY <1>20 DEF u

-----------------------------------------------------------------------------
(* The invariant                                                           *)

CallsOK == flush \in Flushes \cup {Idle} /\ flushes \in 0 .. MaxFlushes

EmitInv == ChainInv /\ CallsOK /\ \E H : Recorded(s, H)

LEMMA InitEmitInv == Init => EmitInv
<1> SUFFICES ASSUME Init PROVE EmitInv
  OBVIOUS
<1>1. PICK left \in Stale : s = Reset(left)
  BY DEF Init
<1>2. ChainInv /\ cfg \in Configs
  BY InitChainInv DEF Init
<1>3. CallsOK
  BY SizeAssumption DEF Init, CallsOK
<1>4. /\ s.syms = <<>> /\ s.out = <<>> /\ s.base = 0 /\ s.strstart = 0 /\ s.blockStart = 0
      /\ s.matchAvailable = FALSE /\ s.matchLength = 2 /\ s.prevLength = 2
  BY <1>1, SizesAre DEF Reset
<1> DEFINE E == [k \in 0 .. 0 |-> 0]
<1>5. Len(s.out) = 0 /\ Len(s.syms) = 0 /\ s.syms \in Seq(Symbol) /\ s.out \in Seq(Block)
  BY <1>4
<1>6. Restarts(s) = {0}
  <2>1. 1 .. Len(s.out) = {}
    BY <1>5
  <2> QED BY <2>1 DEF Restarts
<1>7. E[0] = 0 /\ E \in [0 .. 0 -> Nat]
  OBVIOUS
<1> HIDE DEF E
<1>8. Spelt(s.syms, 0, 0, 0)
  BY <1>4, SpeltNone
<1>9. 1 .. 0 = {} /\ 0 + 1 .. 0 = {}
  OBVIOUS
<1>10. Tale(s, E, 0, 0)
  BY <1>4, <1>5, <1>6, <1>7, <1>8, <1>9 DEF Tale
<1>11. Done(s) = 0 /\ 0 < SymEnd /\ 2 < MinMatch
  BY <1>4, SizeAssumption, SizesAre DEF Done, SymEnd
<1>12. Buffered(s, 0, Done(s))
  BY <1>4, <1>5, <1>10, <1>11 DEF Buffered, Told
<1>13. Recorded(s, 0)
  <2>1. ~(2 >= MinMatch)
    BY SizesAre
  <2> QED BY <1>4, <1>11, <1>12, <2>1 DEF Recorded
<1> QED BY <1>2, <1>3, <1>13 DEF EmitInv

LEMMA StepRecorded ==
  ASSUME EmitInv, [Next]_vars
  PROVE  \E H : Recorded(s', H)
<1> DEFINE t == Filled.s
           pos == Filled.pos
<1>1. WindowInv /\ Hashed(s) /\ flush \in FlushModes \cup {Idle}
  BY InputAssumption DEF EmitInv, ChainInv, CallsOK
<1>2. PICK H : Recorded(s, H)
  BY DEF EmitInv
<1>3. /\ Windowed(t, pos) /\ MatchFits(t) /\ t.lookahead \in Nat /\ cfg \in Configs /\ Keeps(s, t, FillSet)
  BY <1>1, FilledIs
<1>4. Hashed(t)
  BY <1>1, FilledHashed
<1>5. /\ Windowed(s, inPos) /\ DOMAIN s = StateFields /\ data \in Seq(Byte)
      /\ inLen \in 0 .. Len(data) /\ inPos \in 0 .. inLen
  BY <1>1, InputAssumption DEF WindowInv, Windowed
<1>6. pos <= Len(data)
  <2>1. pos \in inPos .. inLen
    BY <1>1, FilledFills DEF FilledFrom
  <2> DEFINE N == Len(data)
  <2>2. N \in Nat /\ inLen \in 0 .. N /\ inPos \in 0 .. inLen
    BY <1>5
  <2> HIDE DEF N, pos
  <2>3. pos <= N
    BY <2>1, <2>2
  <2> QED BY <2>3 DEF N
<1>7. \/ Keeps(s, s', {"lastFlush"})
      \/ s' = t
      \/ cfg.fn = "fast" /\ t.lookahead > 0 /\ s' = FastTurn(t)
      \/ cfg.fn = "slow" /\ t.lookahead > 0 /\ s' = SlowTurn(t)
      \/ t.lookahead = 0 /\ (s' = EndOfInput(t) \/ s' = Marked(EndOfInput(t)))
  BY <1>1, NextCases
<1>8. Recorded(t, H)
  <2>1. Shifted(s, t)
    <3>1. t = IF s.lookahead < MinLookahead THEN FillWindow(s, inPos).s ELSE s
      BY DEF Filled
    <3>2. Shifted(s, s)
      BY DEF Shifted
    <3>3. Shifted(s, FillWindow(s, inPos).s)
      BY <1>5, FillWindowShifts
    <3> QED BY <3>1, <3>2, <3>3
  <2> HIDE DEF t, pos
  <2> QED BY <1>2, <1>3, <1>5, <2>1, FilledRecorded
<1> HIDE DEF t, pos
<1>9. CASE Keeps(s, s', {"lastFlush"})
  <2> DEFINE u == s'
  <2>1. /\ u.syms = s.syms /\ u.out = s.out /\ u.base = s.base /\ u.blockStart = s.blockStart
        /\ u.strstart = s.strstart /\ u.matchAvailable = s.matchAvailable
        /\ u.matchLength = s.matchLength /\ u.prevLength = s.prevLength /\ u.matchStart = s.matchStart
    BY <1>9 DEF Keeps, StateFields
  <2> HIDE DEF u
  <2>2. Done(u) = Done(s)
    BY <2>1 DEF Done
  <2>3. Buffered(u, H, Done(u))
    BY <1>2, <2>1, <2>2, BufferedFrame DEF Recorded
  <2>4. Recorded(u, H)
    BY <1>2, <2>1, <2>3 DEF Recorded, MatchBack
  <2> QED BY <2>4 DEF u
<1>10. CASE cfg.fn = "fast" /\ t.lookahead > 0 /\ s' = FastTurn(t)
  BY <1>3, <1>4, <1>5, <1>6, <1>8, <1>10, FastTurnRecorded
<1>11. CASE cfg.fn = "slow" /\ t.lookahead > 0 /\ s' = SlowTurn(t)
  BY <1>3, <1>4, <1>5, <1>6, <1>8, <1>11, SlowTurnRecorded
<1>12. CASE t.lookahead = 0 /\ (s' = EndOfInput(t) \/ s' = Marked(EndOfInput(t)))
  <2> DEFINE u == EndOfInput(t)
  <2>1. Recorded(u, H) /\ u.syms = <<>> /\ u.matchAvailable = FALSE /\ ~(u.matchLength >= MinMatch)
    BY <1>3, <1>5, <1>6, <1>8, <1>12, EndOfInputRecorded
  <2>2. Windowed(u, pos)
    BY <1>3, <1>12, EndOfInputWindowed
  <2> HIDE DEF u
  <2>3. \E K : Recorded(Marked(u), K)
    BY <1>1, <2>1, <2>2, MarkedRecorded
  <2>4. s' = u \/ s' = Marked(u)
    BY <1>12 DEF u
  <2> QED BY <2>1, <2>3, <2>4
<1> QED BY <1>7, <1>8, <1>9, <1>10, <1>11, <1>12

\* The record of the next state, read with the next state's data and cfg
LEMMA RecordedNext ==
  ASSUME data' = data, cfg' = cfg, NEW H, Recorded(s', H)
  PROVE  Recorded(s, H)'
<1>1. \A sym, lo, a, b : Stands(sym, lo, a, b)' <=> Stands(sym, lo, a, b)
  BY DEF Stands, Repeats
<1>2. \A T, e, lo, a, b : Marches(T, e, lo, a, b)' <=> Marches(T, e, lo, a, b)
  BY <1>1 DEF Marches
<1>3. \A T, lo, a, b : Spelt(T, lo, a, b)' <=> Spelt(T, lo, a, b)
  BY <1>2 DEF Spelt
<1> DEFINE b == Done(s')
<1>4. Done(s)' = b
  BY DEF Done
<1>5. PICK E : Tale(s', E, H, b)
  BY DEF Recorded, Buffered, Told
<1>6. Tale(s, E, H, Done(s))'
  <2> HIDE DEF b
  <2>1. Restarts(s)' = Restarts(s')
    BY DEF Restarts
  <2> QED BY <1>3, <1>4, <1>5, <2>1 DEF Tale
<1>7. Told(s, H, Done(s))'
  BY <1>6 DEF Told
<1>8. Buffered(s, H, Done(s))'
  BY <1>7 DEF Recorded, Buffered
<1>9. MatchBack(s', s'.matchStart, s'.matchLength, H) => MatchBack(s, s.matchStart, s.matchLength, H)'
  BY DEF MatchBack, Repeats
<1> QED BY <1>8, <1>9 DEF Recorded

LEMMA NextKeepsCalls == EmitInv /\ [Next]_vars => CallsOK' /\ data' = data /\ cfg' = cfg
<1> SUFFICES ASSUME EmitInv, [Next]_vars PROVE CallsOK' /\ data' = data /\ cfg' = cfg
  OBVIOUS
<1>1. CallsOK /\ MaxFlushes \in Nat
  BY SizeAssumption DEF EmitInv
<1>2. ASSUME NEW n, NEW f \in Flushes, Call(n, f) PROVE CallsOK' /\ data' = data /\ cfg' = cfg
  <2>1. data' = data /\ cfg' = cfg /\ (flush' = f \/ flush' = Idle)
    BY <1>2 DEF Call
  <2>2. flushes' \in 0 .. MaxFlushes
    <3>1. CASE f \in {"partial", "sync", "full"}
      <4>1. flushes' = flushes + 1 /\ flushes < MaxFlushes
        BY <1>2, <3>1 DEF Call
      <4> QED BY <1>1, <4>1 DEF CallsOK
    <3>2. CASE f \notin {"partial", "sync", "full"}
      <4>1. flushes' = flushes
        BY <1>2, <3>2 DEF Call
      <4> QED BY <1>1, <4>1 DEF CallsOK
    <3> QED BY <3>1, <3>2
  <2> QED BY <2>1, <2>2 DEF CallsOK
<1>3. CASE Feed \/ Ask
  BY <1>2, <1>3 DEF Feed, Ask
<1>4. CASE Step
  <2>1. /\ data' = data /\ cfg' = cfg /\ flushes' = flushes /\ (flush' = flush \/ flush' = Idle)
    BY <1>4 DEF Step, Starve, ParseFast, ParseSlow, Drain, Turn
  <2> QED BY <1>1, <2>1 DEF CallsOK
<1>5. CASE UNCHANGED vars
  BY <1>1, <1>5 DEF vars, CallsOK
<1> QED BY <1>3, <1>4, <1>5 DEF Next

LEMMA NextKeepsRecord == EmitInv /\ [Next]_vars => EmitInv'
<1> SUFFICES ASSUME EmitInv, [Next]_vars PROVE EmitInv'
  OBVIOUS
<1>1. ChainInv'
  BY NextKeepsChains DEF EmitInv
<1>2. CallsOK' /\ data' = data /\ cfg' = cfg
  BY NextKeepsCalls
<1>3. PICK H : Recorded(s', H)
  BY StepRecorded
<1>4. Recorded(s, H)'
  BY <1>2, <1>3, RecordedNext
<1> QED BY <1>1, <1>2, <1>4 DEF EmitInv

\* The inductive invariant: the symbols told so far stand for the input up to
\* Done, block by block, and nothing that follows a full flush copies from
\* before it; the match that deflateSlow holds back is one.
THEOREM EmissionInvariant == Spec => []EmitInv
BY InitEmitInv, NextKeepsRecord, PTL DEF Spec

-----------------------------------------------------------------------------
(* What a decoder makes of symbols                                         *)

LEMMA SymbolLengths ==
  /\ \A c : Len(<<c>>) = 1 /\ <<c>>[1] = c
  /\ \A sym \in (1 .. MaxDistance) \X (MinMatch .. MaxMatch) :
       Len(sym) = 2 /\ sym[1] \in 1 .. MaxDistance /\ sym[2] \in MinMatch .. MaxMatch
<1>1. ASSUME NEW sym \in (1 .. MaxDistance) \X (MinMatch .. MaxMatch)
      PROVE  Len(sym) = 2 /\ sym[1] \in 1 .. MaxDistance /\ sym[2] \in MinMatch .. MaxMatch
  <2>1. PICK d \in 1 .. MaxDistance, n \in MinMatch .. MaxMatch : sym = <<d, n>>
    OBVIOUS
  <2> QED BY <2>1
<1> QED BY <1>1

LEMMA SliceIs ==
  ASSUME data \in Seq(Byte), NEW from \in Nat, NEW upto \in Nat, from <= upto, upto <= Len(data)
  PROVE  /\ SubSeq(data, from + 1, upto) \in Seq(Byte)
         /\ Len(SubSeq(data, from + 1, upto)) = upto - from
         /\ \A i \in 1 .. upto - from : SubSeq(data, from + 1, upto)[i] = data[from + i]
<1>1. \A i \in from + 1 .. upto : data[i] \in Byte
  <2> TAKE i \in from + 1 .. upto
  <2>1. i \in 1 .. Len(data)
    OBVIOUS
  <2> QED BY <2>1, ElementOfSeq
<1> DEFINE S == SubSeq(data, from + 1, upto)
<1>2. /\ S \in Seq(Byte)
      /\ Len(S) = (IF from + 1 <= upto THEN upto - (from + 1) + 1 ELSE 0)
      /\ \A i \in 1 .. upto - (from + 1) + 1 : S[i] = data[from + 1 + i - 1]
  BY <1>1, SubSeqProperties
<1> HIDE DEF S
<1>3. Len(S) = upto - from
  BY <1>2
<1>4. ASSUME NEW i \in 1 .. upto - from PROVE S[i] = data[from + i]
  <2>1. i \in 1 .. upto - (from + 1) + 1 /\ from + 1 + i - 1 = from + i
    OBVIOUS
  <2> QED BY <1>2, <2>1
<1> QED BY <1>2, <1>3, <1>4 DEF S

LEMMA SliceMore ==
  ASSUME data \in Seq(Byte), NEW from \in Nat, NEW upto \in Nat, from <= upto, upto + 1 <= Len(data)
  PROVE  SubSeq(data, from + 1, upto + 1) = Append(SubSeq(data, from + 1, upto), data[upto + 1])
<1> DEFINE S == SubSeq(data, from + 1, upto)
           U == SubSeq(data, from + 1, upto + 1)
           A == Append(S, data[upto + 1])
           n == upto - from
<1>1. upto \in Nat /\ upto + 1 \in Nat /\ from <= upto + 1 /\ upto <= Len(data) /\ (upto + 1) - from = n + 1
  OBVIOUS
<1>2. S \in Seq(Byte) /\ Len(S) = n /\ \A i \in 1 .. n : S[i] = data[from + i]
  BY <1>1, SliceIs
<1>3. U \in Seq(Byte) /\ Len(U) = n + 1 /\ \A i \in 1 .. n + 1 : U[i] = data[from + i]
  BY <1>1, SliceIs
<1>4. upto + 1 \in 1 .. Len(data) /\ n \in Nat /\ from + (n + 1) = upto + 1
  OBVIOUS
<1>5. data[upto + 1] \in Byte
  BY <1>4, ElementOfSeq
<1> HIDE DEF S, U
<1>6. A \in Seq(Byte) /\ Len(A) = Len(S) + 1 /\ A[Len(S) + 1] = data[upto + 1] /\ \A i \in 1 .. Len(S) : A[i] = S[i]
  BY <1>2, <1>5
<1> HIDE DEF A, n
<1>7. ASSUME NEW i \in 1 .. n + 1 PROVE U[i] = A[i]
  <2>1. CASE i = n + 1
    BY <1>2, <1>3, <1>4, <1>6, <2>1
  <2>2. CASE i # n + 1
    <3>1. i \in 1 .. n
      BY <1>4, <2>2
    <3> QED BY <1>2, <1>3, <1>6, <3>1
  <2> QED BY <2>1, <2>2
<1>8. U = A
  <2>1. Len(U) = Len(A)
    BY <1>2, <1>3, <1>6
  <2>2. \A i \in 1 .. Len(U) : U[i] = A[i]
    BY <1>3, <1>7
  <2> QED BY <1>3, <1>6, <2>1, <2>2, SeqEqual
<1> QED BY <1>8 DEF U, A, S

\* The bytes of a match, copied one by one
Copied(acc, d, len) ==
  LET more[k \in 0 .. len] ==
        IF k = 0 THEN acc ELSE Append(more[k - 1], more[k - 1][Len(acc) + k - d])
  IN  more[len]

\* Byte k of the copy extends the slice that ends before it
CopiesOn(from, a, d, k) ==
  SubSeq(data, from + 1, a + k)
    = Append(SubSeq(data, from + 1, a + (k - 1)),
             SubSeq(data, from + 1, a + (k - 1))[Len(SubSeq(data, from + 1, a)) + k - d])

LEMMA CopyStep ==
  ASSUME data \in Seq(Byte), NEW from \in Nat, NEW a \in Nat, from <= a, NEW d \in Nat, 0 < d, from <= a - d,
         NEW len \in Nat, a + len <= Len(data), Repeats(a - d, a, len), NEW k \in 1 .. len
  PROVE  CopiesOn(from, a, d, k)
<1> DEFINE N == Len(data)
           p == a + (k - 1)
           S == SubSeq(data, from + 1, p)
           i == a - from + k - d
<1>1. N \in Nat
  OBVIOUS
<1>2. a + len <= N
  OBVIOUS
<1> HIDE DEF N
<1>3. p \in Nat /\ from <= p /\ p + 1 <= N /\ p <= N /\ p + 1 = a + k /\ a <= N /\ i \in 1 .. p - from /\ from + i = a - d + k
  BY <1>1, <1>2
<1>4. Len(SubSeq(data, from + 1, a)) = a - from
  BY <1>3, SliceIs DEF N
<1> HIDE DEF p, i
<1>5. S[i] = data[from + i]
  BY <1>3, SliceIs DEF N
<1>6. data[a + k] = data[a - d + k]
  BY DEF Repeats
<1>7. SubSeq(data, from + 1, p + 1) = Append(S, data[p + 1])
  BY <1>3, SliceMore DEF N
<1>8. SubSeq(data, from + 1, a + k) = Append(S, S[i])
  BY <1>3, <1>5, <1>6, <1>7
<1> QED BY <1>4, <1>8 DEF S, p, i, CopiesOn

LEMMA CopiedIs ==
  ASSUME data \in Seq(Byte), NEW from \in Nat, NEW a \in Nat, from <= a, NEW d \in Nat, 0 < d, from <= a - d,
         NEW len \in Nat, a + len <= Len(data), Repeats(a - d, a, len)
  PROVE  Copied(SubSeq(data, from + 1, a), d, len) = SubSeq(data, from + 1, a + len)
<1> DEFINE acc == SubSeq(data, from + 1, a)
           n == Len(acc)
           Eqn(f) == f = [k \in 0 .. len |-> IF k = 0 THEN acc ELSE Append(f[k - 1], f[k - 1][n + k - d])]
           g == [k \in 0 .. len |-> SubSeq(data, from + 1, a + k)]
<1>1. ASSUME NEW k \in 1 .. len
      PROVE  SubSeq(data, from + 1, a + k)
               = Append(SubSeq(data, from + 1, a + (k - 1)), SubSeq(data, from + 1, a + (k - 1))[n + k - d])
  <2>1. CopiesOn(from, a, d, k)
    BY CopyStep
  <2> QED BY <2>1 DEF CopiesOn
<1> HIDE DEF n
<1>2. Eqn(g)
  <2>1. ASSUME NEW k \in 0 .. len
        PROVE  g[k] = IF k = 0 THEN acc ELSE Append(g[k - 1], g[k - 1][n + k - d])
    <3>1. CASE k = 0
      <4>1. a + k = a
        BY <3>1
      <4> QED BY <3>1, <4>1
    <3>2. CASE k # 0
      <4>1. k \in 1 .. len /\ k - 1 \in 0 .. len
        BY <3>2
      <4>2. g[k - 1] = SubSeq(data, from + 1, a + (k - 1)) /\ g[k] = SubSeq(data, from + 1, a + k)
        BY <4>1
      <4> HIDE DEF g
      <4> QED BY <1>1, <3>2, <4>1, <4>2
    <3> QED BY <3>1, <3>2
  <2>2. g = [k \in 0 .. len |-> g[k]]
    OBVIOUS
  <2> HIDE DEF g
  <2> QED BY <2>1, <2>2
<1> DEFINE more == CHOOSE f : Eqn(f)
<1>3. Eqn(more)
  <2> HIDE DEF Eqn, g
  <2> QED BY <1>2
<1>4. Copied(acc, d, len) = more[len]
  BY DEF Copied, n
<1> HIDE DEF more
<1>5. \A k \in 0 .. len : more[k] = IF k = 0 THEN acc ELSE Append(more[k - 1], more[k - 1][n + k - d])
  BY <1>3
<1> DEFINE X == {k \in Nat : more[k] = SubSeq(data, from + 1, a + k)}
<1>6. 0 \in X
  <2>1. a + 0 = a /\ 0 \in 0 .. len
    OBVIOUS
  <2>2. more[0] = acc
    BY <1>5, <2>1
  <2> QED BY <2>1, <2>2
<1>7. ASSUME NEW k \in 0 .. len - 1, k \in X PROVE k + 1 \in X
  <2>1. k + 1 \in 1 .. len /\ k + 1 \in 0 .. len /\ (k + 1) - 1 = k /\ k + 1 # 0 /\ k + 1 \in Nat
    OBVIOUS
  <2>2. more[k] = SubSeq(data, from + 1, a + k)
    BY <1>7
  <2>3. more[k + 1] = Append(more[k], more[k][n + (k + 1) - d])
    BY <1>5, <2>1
  <2>4. SubSeq(data, from + 1, a + (k + 1))
          = Append(SubSeq(data, from + 1, a + k), SubSeq(data, from + 1, a + k)[n + (k + 1) - d])
    BY <1>1, <2>1
  <2> QED BY <2>1, <2>2, <2>3, <2>4
<1>8. len \in X
  <2> HIDE DEF X
  <2>1. \A k \in 0 .. len : k \in X
    BY <1>6, <1>7, InductionUpTo
  <2> QED BY <2>1
<1> QED BY <1>4, <1>8

\* One turn of the decoder
Decoded(acc, sym) ==
  IF Len(sym) = 1 THEN Append(acc, sym[1])
  ELSE IF sym[1] \in 1 .. Min2(Len(acc), WSize) THEN Copied(acc, sym[1], sym[2])
  ELSE acc

LEMMA DecodedIs ==
  ASSUME data \in Seq(Byte), NEW from \in Nat, NEW a \in Nat, from <= a, NEW b, NEW sym,
         Stands(sym, from, a, b), b <= Len(data)
  PROVE  Decoded(SubSeq(data, from + 1, a), sym) = SubSeq(data, from + 1, b)
<1> DEFINE acc == SubSeq(data, from + 1, a)
           N == Len(data)
<1>1. b \in Nat /\ a < b /\ N \in Nat /\ b <= N
  BY StandsOn
<1> HIDE DEF N
<1>2. a <= N
  BY <1>1
<1>3. Len(acc) = a - from
  BY <1>2, SliceIs DEF N
<1>4. CASE b = a + 1 /\ sym = <<data[b]>>
  <2>1. Len(sym) = 1 /\ sym[1] = data[a + 1]
    BY <1>4
  <2>2. SubSeq(data, from + 1, a + 1) = Append(acc, data[a + 1])
    BY <1>1, <1>4, SliceMore DEF N
  <2> HIDE DEF acc
  <2> QED BY <1>4, <2>1, <2>2 DEF Decoded, acc
<1>5. CASE /\ sym \in (1 .. MaxDistance) \X (MinMatch .. MaxMatch)
           /\ from <= a - sym[1] /\ b = a + sym[2] /\ Repeats(a - sym[1], a, sym[2])
  <2> DEFINE d == sym[1]
             len == sym[2]
  <2>1. Len(sym) = 2 /\ d \in 1 .. MaxDistance /\ len \in MinMatch .. MaxMatch
    BY <1>5, SymbolLengths
  <2>2. from <= a - d /\ b = a + len /\ Repeats(a - d, a, len)
    BY <1>5
  <2> HIDE DEF d, len, acc
  <2>3. d \in Nat /\ 0 < d /\ len \in Nat /\ MaxDistance < WSize /\ WSize \in Nat
    BY <2>1, SizesAre
  <2>4. d \in 1 .. Min2(a - from, WSize)
    <3>1. d <= a - from /\ a - from \in Int
      BY <2>2, <2>3
    <3>2. d <= MaxDistance /\ MaxDistance \in Int
      BY <2>1, SizesAre
    <3>3. d <= WSize
      BY <2>3, <3>2
    <3>4. d <= Min2(a - from, WSize) /\ Min2(a - from, WSize) \in Int
      BY <2>3, <3>1, <3>3 DEF Min2
    <3> QED BY <2>3, <3>4
  <2>5. a + len <= N
    BY <1>1, <2>2
  <2>6. Copied(SubSeq(data, from + 1, a), d, len) = SubSeq(data, from + 1, a + len)
    BY <2>2, <2>3, <2>5, CopiedIs DEF N
  <2> QED BY <1>3, <2>1, <2>2, <2>4, <2>6 DEF Decoded, d, len, acc
<1> QED BY <1>4, <1>5 DEF Stands

\* Symbols that stand for bytes decode to them, in a decoder that starts where they do
LEMMA InflateIs ==
  ASSUME data \in Seq(Byte), NEW from \in Nat, NEW T \in Seq(Symbol), NEW b,
         Spelt(T, from, from, b), b <= Len(data)
  PROVE  Inflate(T) = SubSeq(data, from + 1, b)
<1>1. PICK e : Marches(T, e, from, from, b)
  BY DEF Spelt
<1> DEFINE n == Len(T)
           N == Len(data)
           D(k) == SubSeq(data, from + 1, e[k])
           Eqn(f) == f = [k \in 0 .. n |-> IF k = 0 THEN <<>> ELSE Decoded(f[k - 1], T[k])]
           g == [k \in 0 .. n |-> D(k)]
<1>2. n \in Nat /\ N \in Nat /\ b <= N /\ e[0] = from /\ e[n] = b
  BY <1>1 DEF Marches
<1>3. \A k \in 0 .. n : e[k] \in Nat /\ from <= e[k]
  BY <1>1, MarchesUp
<1>4. \A k \in 1 .. n : Stands(T[k], from, e[k - 1], e[k])
  BY <1>1 DEF Marches
<1> HIDE DEF n, N
<1>5. \A k \in 0 .. n : e[k] <= N
  <2> DEFINE X == {k \in Nat : k \in 0 .. n => e[n - k] <= N}
  <2>1. 0 \in X
    <3>1. n - 0 = n
      BY <1>2
    <3> QED BY <1>2, <3>1
  <2>2. ASSUME NEW k \in 0 .. n - 1, k \in X PROVE k + 1 \in X
    <3> DEFINE i == n - k
    <3>1. i \in 1 .. n /\ i - 1 = n - (k + 1) /\ i \in 0 .. n /\ i - 1 \in 0 .. n /\ k + 1 \in Nat /\ k \in 0 .. n
      BY <1>2
    <3>2. e[i] <= N
      BY <2>2, <3>1
    <3> HIDE DEF i
    <3>3. e[i - 1] \in Nat /\ e[i - 1] < e[i] /\ e[i] \in Nat
      BY <1>3, <1>4, <3>1, StandsOn
    <3>4. e[i - 1] <= N
      <4> DEFINE x == e[i - 1]
                 y == e[i]
      <4> HIDE DEF x, y
      <4>1. x \in Nat /\ x < y /\ y \in Nat /\ y <= N
        BY <3>2, <3>3 DEF x, y
      <4>2. x <= N
        BY <1>2, <4>1
      <4> QED BY <4>2 DEF x
    <3> QED BY <3>1, <3>4
  <2>3. \A k \in 0 .. n : k \in X
    <3> HIDE DEF X
    <3> QED BY <1>2, <2>1, <2>2, InductionUpTo
  <2> TAKE k \in 0 .. n
  <2>4. n - k \in 0 .. n /\ n - (n - k) = k
    BY <1>2
  <2>5. n - k \in X
    BY <2>3, <2>4
  <2> QED BY <2>4, <2>5
<1>6. ASSUME NEW k \in 1 .. n PROVE Decoded(D(k - 1), T[k]) = D(k)
  <2>1. k \in 0 .. n /\ k - 1 \in 0 .. n
    BY <1>2
  <2>2. e[k - 1] \in Nat /\ from <= e[k - 1] /\ e[k] <= N /\ Stands(T[k], from, e[k - 1], e[k])
    BY <1>3, <1>4, <1>5, <2>1
  <2> QED BY <2>2, DecodedIs DEF N
<1>7. D(0) = <<>>
  <2>1. from + 1 \in Int /\ from \in Int /\ from < from + 1
    OBVIOUS
  <2> QED BY <1>2, <2>1, SubSeqEmpty
<1> HIDE DEF D
<1>8. Eqn(g)
  <2>1. ASSUME NEW k \in 0 .. n PROVE g[k] = IF k = 0 THEN <<>> ELSE Decoded(g[k - 1], T[k])
    <3>1. CASE k = 0
      BY <1>7, <3>1
    <3>2. CASE k # 0
      <4>1. k \in 1 .. n /\ k - 1 \in 0 .. n
        BY <1>2, <3>2
      <4>2. g[k] = D(k) /\ g[k - 1] = D(k - 1)
        BY <4>1
      <4> HIDE DEF g
      <4> QED BY <1>6, <3>2, <4>1, <4>2
    <3> QED BY <3>1, <3>2
  <2>2. g = [k \in 0 .. n |-> g[k]]
    OBVIOUS
  <2> HIDE DEF g
  <2> QED BY <2>1, <2>2
<1> DEFINE decode == CHOOSE f : Eqn(f)
<1>9. Eqn(decode)
  <2> HIDE DEF Eqn, g
  <2> QED BY <1>8
<1>10. Inflate(T) = decode[n]
  BY DEF Inflate, Decoded, Copied, n
<1> HIDE DEF decode
<1>11. \A k \in 0 .. n : decode[k] = IF k = 0 THEN <<>> ELSE Decoded(decode[k - 1], T[k])
  BY <1>9
<1> DEFINE X == {k \in Nat : decode[k] = D(k)}
<1>12. 0 \in X
  <2>1. 0 \in 0 .. n
    BY <1>2
  <2> QED BY <1>7, <1>11, <2>1
<1>13. ASSUME NEW k \in 0 .. n - 1, k \in X PROVE k + 1 \in X
  <2>1. k + 1 \in 1 .. n /\ k + 1 \in 0 .. n /\ (k + 1) - 1 = k /\ k + 1 # 0 /\ k + 1 \in Nat
    BY <1>2
  <2> QED BY <1>6, <1>11, <1>13, <2>1
<1>14. decode[n] = D(n)
  <2> HIDE DEF X
  <2>1. \A k \in 0 .. n : k \in X
    BY <1>2, <1>12, <1>13, InductionUpTo
  <2>2. n \in 0 .. n
    BY <1>2
  <2> QED BY <2>1, <2>2 DEF X
<1> QED BY <1>2, <1>10, <1>14 DEF D

\* The same symbols, counted
LEMMA SpeltCount ==
  ASSUME NEW T \in Seq(Symbol), NEW b, Spelt(T, 0, 0, b)
  PROVE  (LET sum[j \in 0 .. Len(T)] ==
                IF j = 0 THEN 0 ELSE sum[j - 1] + IF Len(T[j]) = 1 THEN 1 ELSE T[j][2]
          IN  sum[Len(T)]) = b
<1>1. PICK e : Marches(T, e, 0, 0, b)
  BY DEF Spelt
<1> DEFINE n == Len(T)
           size(sym) == IF Len(sym) = 1 THEN 1 ELSE sym[2]
           Eqn(f) == f = [j \in 0 .. n |-> IF j = 0 THEN 0 ELSE f[j - 1] + size(T[j])]
<1>2. n \in Nat /\ e[0] = 0 /\ e[n] = b /\ e \in [0 .. n -> Nat]
  BY <1>1 DEF Marches
<1>3. \A j \in 1 .. n : Stands(T[j], 0, e[j - 1], e[j])
  BY <1>1 DEF Marches
<1> HIDE DEF n
<1>4. ASSUME NEW j \in 1 .. n PROVE e[j] = e[j - 1] + size(T[j])
  <2>1. Stands(T[j], 0, e[j - 1], e[j])
    BY <1>3
  <2>2. CASE e[j] = e[j - 1] + 1 /\ T[j] = <<data[e[j]]>>
    BY <2>2, SymbolLengths
  <2>3. CASE T[j] \in (1 .. MaxDistance) \X (MinMatch .. MaxMatch) /\ e[j] = e[j - 1] + T[j][2]
    BY <2>3, SymbolLengths
  <2> QED BY <2>1, <2>2, <2>3 DEF Stands
<1> HIDE DEF size
<1>5. Eqn(e)
  <2>1. ASSUME NEW j \in 0 .. n PROVE e[j] = IF j = 0 THEN 0 ELSE e[j - 1] + size(T[j])
    <3>1. CASE j = 0
      BY <1>2, <3>1
    <3>2. CASE j # 0
      <4>1. j \in 1 .. n
        BY <1>2, <3>2
      <4> QED BY <1>4, <3>2, <4>1
    <3> QED BY <3>1, <3>2
  <2>2. e = [j \in 0 .. n |-> e[j]]
    BY <1>2
  <2> QED BY <2>1, <2>2
<1> DEFINE sum == CHOOSE f : Eqn(f)
<1>6. Eqn(sum)
  <2> HIDE DEF Eqn
  <2> QED BY <1>5
<1> HIDE DEF sum
<1>7. \A j \in 0 .. n : sum[j] = IF j = 0 THEN 0 ELSE sum[j - 1] + size(T[j])
  BY <1>6
<1> DEFINE X == {j \in Nat : sum[j] = e[j]}
<1>8. 0 \in X
  <2>1. 0 \in 0 .. n
    BY <1>2
  <2> QED BY <1>2, <1>7, <2>1
<1>9. ASSUME NEW j \in 0 .. n - 1, j \in X PROVE j + 1 \in X
  <2>1. j + 1 \in 1 .. n /\ j + 1 \in 0 .. n /\ (j + 1) - 1 = j /\ j + 1 # 0 /\ j + 1 \in Nat
    BY <1>2
  <2> QED BY <1>4, <1>7, <1>9, <2>1
<1>10. sum[n] = b
  <2> HIDE DEF X
  <2>1. \A j \in 0 .. n : j \in X
    BY <1>2, <1>8, <1>9, InductionUpTo
  <2>2. n \in 0 .. n
    BY <1>2
  <2> QED BY <1>2, <2>1, <2>2 DEF X
<1> QED BY <1>10 DEF sum, n, size

-----------------------------------------------------------------------------
(* The symbols of a run of blocks                                          *)

\* A recursive function whose next value also depends on how far it is
RecursesAt(f, n, start, follow) ==
  \A k \in 0 .. n : f[k] = IF k = 0 THEN start ELSE follow[k][f[k - 1]]
FollowTypedBy(follow, n, V) == \A k \in 1 .. n : \A x \in V : follow[k][x] \in V

LEMMA CountedRecursion ==
  ASSUME NEW start, NEW follow, NEW n \in Nat, NEW V, start \in V, FollowTypedBy(follow, n, V)
  PROVE  \E f \in [0 .. n -> V] : RecursesAt(f, n, start, follow)
<1> DEFINE X == {m \in Nat : \E f \in [0 .. m -> V] :
                               \A j \in 0 .. m : f[j] = IF j = 0 THEN start ELSE follow[j][f[j - 1]]}
<1>1. 0 \in X
  <2> DEFINE g == [j \in 0 .. 0 |-> start]
  <2>1. g \in [0 .. 0 -> V] /\ \A j \in 0 .. 0 : g[j] = IF j = 0 THEN start ELSE follow[j][g[j - 1]]
    OBVIOUS
  <2> HIDE DEF g
  <2> QED BY <2>1
<1>2. ASSUME NEW m \in 0 .. n - 1, m \in X PROVE m + 1 \in X
  <2>1. PICK f \in [0 .. m -> V] : \A j \in 0 .. m : f[j] = IF j = 0 THEN start ELSE follow[j][f[j - 1]]
    BY <1>2
  <2> DEFINE x == follow[m + 1][f[m]]
             g == [j \in 0 .. m + 1 |-> IF j = m + 1 THEN x ELSE f[j]]
  <2>2. x \in V /\ m \in Nat
    <3>1. m + 1 \in 1 .. n /\ m \in 0 .. m
      OBVIOUS
    <3> QED BY <2>1, <3>1 DEF FollowTypedBy
  <2>3. g \in [0 .. m + 1 -> V]
    <3> HIDE DEF x
    <3>1. ASSUME NEW j \in 0 .. m + 1 PROVE (IF j = m + 1 THEN x ELSE f[j]) \in V
      BY <2>1, <2>2
    <3> QED BY <3>1
  <2>4. ASSUME NEW j \in 0 .. m + 1 PROVE g[j] = IF j = 0 THEN start ELSE follow[j][g[j - 1]]
    <3>1. CASE j = m + 1
      <4>1. j # 0 /\ j - 1 = m /\ m \in 0 .. m + 1 /\ m # m + 1
        BY <2>2, <3>1
      <4> HIDE DEF x
      <4>2. g[j] = x /\ g[j - 1] = f[m]
        BY <3>1, <4>1
      <4> QED BY <3>1, <4>1, <4>2 DEF x
    <3>2. CASE j # m + 1
      <4>1. j \in 0 .. m
        BY <2>2, <3>2
      <4> HIDE DEF x
      <4>2. g[j] = f[j]
        BY <3>2
      <4>3. j # 0 => j - 1 \in 0 .. m + 1 /\ j - 1 # m + 1
        BY <2>2, <4>1
      <4>4. j # 0 => g[j - 1] = f[j - 1]
        BY <4>3
      <4> QED BY <2>1, <4>1, <4>2, <4>4
    <3> QED BY <3>1, <3>2
  <2> HIDE DEF g
  <2> QED BY <2>2, <2>3, <2>4
<1> HIDE DEF X
<1>3. n \in X
  <2>1. \A m \in 0 .. n : m \in X
    BY <1>1, <1>2, InductionUpTo
  <2>2. n \in 0 .. n
    OBVIOUS
  <2> QED BY <2>1, <2>2
<1>4. PICK f \in [0 .. n -> V] : \A j \in 0 .. n : f[j] = IF j = 0 THEN start ELSE follow[j][f[j - 1]]
  BY <1>3 DEF X
<1> QED BY <1>4 DEF RecursesAt

\* BlockSyms joins the symbols of its blocks from left to right
LEMMA BlockSymsIs ==
  ASSUME s.out \in Seq(Block), NEW from \in Nat, NEW upto \in Nat, from <= upto, upto <= Len(s.out)
  PROVE  \E syms : /\ BlockSyms(from + 1, upto) = syms[upto] /\ syms[from] = <<>>
                   /\ \A k \in from + 1 .. upto : syms[k] = syms[k - 1] \o s.out[k].syms
<1> DEFINE Eqn(f) == f = [k \in ((from + 1) - 1) .. upto |-> IF k < from + 1 THEN <<>> ELSE f[k - 1] \o s.out[k].syms]
           n == upto - from
           V == Seq(Symbol)
           follow == [k \in 1 .. n |-> [T \in V |-> T \o s.out[from + k].syms]]
           L == Len(s.out)
<1>1. n \in Nat /\ L \in Nat /\ upto <= L /\ from + n = upto
  OBVIOUS
<1> HIDE DEF L
<1>2. \A k \in 1 .. n : \A T \in V : follow[k][T] = T \o s.out[from + k].syms /\ follow[k][T] \in V
  <2> TAKE k \in 1 .. n
  <2>1. from + k \in 1 .. L
    BY <1>1
  <2>2. s.out[from + k] \in Block
    BY <2>1, ElementOfSeq DEF L
  <2>3. s.out[from + k].syms \in Seq(Symbol)
    BY <2>2 DEF Block
  <2> DEFINE R == s.out[from + k].syms
  <2>4. \A T \in V : T \o R \in V
    <3> HIDE DEF R
    <3> QED BY <2>3, ConcatProperties DEF R
  <2>5. \A T \in V : follow[k][T] = T \o R
    OBVIOUS
  <2> QED BY <2>4, <2>5
<1>3. <<>> \in V
  OBVIOUS
<1> HIDE DEF n, V, follow
<1>4. PICK f \in [0 .. n -> V] : \A k \in 0 .. n : f[k] = IF k = 0 THEN <<>> ELSE follow[k][f[k - 1]]
  <2> DEFINE start == <<>>
  <2> HIDE DEF start
  <2>1. start \in V /\ FollowTypedBy(follow, n, V)
    BY <1>2, <1>3 DEF start, FollowTypedBy
  <2>2. \E f \in [0 .. n -> V] : RecursesAt(f, n, start, follow)
    BY <1>1, <2>1, CountedRecursion
  <2> QED BY <2>2 DEF start, RecursesAt
<1> DEFINE g == [k \in ((from + 1) - 1) .. upto |-> f[k - from]]
<1>5. Eqn(g)
  <2>1. ASSUME NEW k \in ((from + 1) - 1) .. upto
        PROVE  g[k] = IF k < from + 1 THEN <<>> ELSE g[k - 1] \o s.out[k].syms
    <3> DEFINE i == k - from
    <3>1. i \in 0 .. n /\ from + i = k /\ (k < from + 1 <=> i = 0) /\ g[k] = f[i]
      BY <1>1
    <3>2. CASE i = 0
      BY <1>4, <3>1, <3>2
    <3>3. CASE i # 0
      <4>1. i \in 1 .. n /\ i - 1 \in 0 .. n /\ k - 1 \in ((from + 1) - 1) .. upto /\ (k - 1) - from = i - 1
        BY <1>1, <3>1, <3>3
      <4>2. g[k - 1] = f[i - 1]
        BY <4>1
      <4> HIDE DEF g, i
      <4>3. f[i - 1] \in V /\ f[i] = follow[i][f[i - 1]]
        BY <1>4, <3>1, <3>3, <4>1
      <4>4. f[i] = f[i - 1] \o s.out[k].syms
        BY <1>2, <3>1, <4>1, <4>3
      <4> QED BY <3>1, <3>3, <4>2, <4>4
    <3> QED BY <3>2, <3>3
  <2>2. g = [k \in ((from + 1) - 1) .. upto |-> g[k]]
    OBVIOUS
  <2> HIDE DEF g
  <2> QED BY <2>1, <2>2
<1> DEFINE syms == CHOOSE h : Eqn(h)
<1>6. Eqn(syms)
  <2> HIDE DEF Eqn, g
  <2> QED BY <1>5
<1>7. BlockSyms(from + 1, upto) = syms[upto]
  BY DEF BlockSyms
<1> HIDE DEF syms
<1>8. \A k \in ((from + 1) - 1) .. upto : syms[k] = IF k < from + 1 THEN <<>> ELSE syms[k - 1] \o s.out[k].syms
  BY <1>6
<1>9. syms[from] = <<>>
  <2>1. from \in ((from + 1) - 1) .. upto /\ from < from + 1
    OBVIOUS
  <2> QED BY <1>8, <2>1
<1>10. \A k \in from + 1 .. upto : syms[k] = syms[k - 1] \o s.out[k].syms
  <2> TAKE k \in from + 1 .. upto
  <2>1. k \in ((from + 1) - 1) .. upto /\ ~(k < from + 1)
    OBVIOUS
  <2> QED BY <1>8, <2>1
<1> HIDE DEF Eqn
<1> QED BY <1>7, <1>9, <1>10

\* Blocks that stand for adjacent bytes do so together
LEMMA BlocksSpelt ==
  ASSUME s.out \in Seq(Block), NEW from \in Nat, NEW upto \in Nat, from <= upto, upto <= Len(s.out),
         NEW E, NEW lo, E[from] \in Nat,
         \A k \in from + 1 .. upto : Spelt(s.out[k].syms, lo, E[k - 1], E[k])
  PROVE  /\ BlockSyms(from + 1, upto) \in Seq(Symbol)
         /\ Spelt(BlockSyms(from + 1, upto), lo, E[from], E[upto])
<1>1. PICK syms : /\ BlockSyms(from + 1, upto) = syms[upto] /\ syms[from] = <<>>
                  /\ \A k \in from + 1 .. upto : syms[k] = syms[k - 1] \o s.out[k].syms
  BY BlockSymsIs
<1> DEFINE n == upto - from
           Good(k) == syms[k] \in Seq(Symbol) /\ Spelt(syms[k], lo, E[from], E[k])
           X == {k \in Nat : Good(from + k)}
           L == Len(s.out)
<1>2. n \in Nat /\ from + n = upto /\ L \in Nat /\ upto <= L
  OBVIOUS
<1> HIDE DEF n, L
<1>3. 0 \in X
  <2>1. from + 0 = from /\ syms[from] \in Seq(Symbol)
    BY <1>1
  <2>2. Spelt(syms[from], lo, E[from], E[from])
    BY <1>1, SpeltNone
  <2> QED BY <2>1, <2>2
<1>4. ASSUME NEW k \in 0 .. n - 1, k \in X PROVE k + 1 \in X
  <2> DEFINE i == from + (k + 1)
  <2>1. i \in from + 1 .. upto /\ i \in 1 .. L /\ i - 1 = from + k /\ k + 1 \in Nat
    BY <1>2
  <2> HIDE DEF i
  <2>2. s.out[i] \in Block
    BY <2>1, ElementOfSeq DEF L
  <2> DEFINE R == s.out[i].syms
             T == syms[i - 1]
  <2>3. R \in Seq(Symbol) /\ Spelt(R, lo, E[i - 1], E[i])
    BY <2>1, <2>2 DEF Block
  <2>4. T \in Seq(Symbol) /\ Spelt(T, lo, E[from], E[i - 1])
    BY <1>4, <2>1
  <2>5. syms[i] = T \o R
    BY <1>1, <2>1
  <2> HIDE DEF T, R
  <2>6. T \o R \in Seq(Symbol)
    BY <2>3, <2>4, ConcatProperties
  <2>7. Spelt(T \o R, lo, E[from], E[i])
    BY <2>3, <2>4, SpeltJoin
  <2>8. Good(i)
    BY <2>5, <2>6, <2>7
  <2> HIDE DEF Good
  <2> QED BY <2>1, <2>8 DEF i
<1>5. Good(upto)
  <2> HIDE DEF X
  <2>1. \A k \in 0 .. n : k \in X
    BY <1>2, <1>3, <1>4, InductionUpTo
  <2>2. n \in 0 .. n
    BY <1>2
  <2>3. n \in X
    BY <2>1, <2>2
  <2> HIDE DEF Good
  <2> QED BY <1>2, <2>3 DEF X
<1> QED BY <1>1, <1>5

LEMMA ShownIs ==
  ASSUME NEW E, NEW H, NEW b, Tale(s, E, H, b), NEW k \in 0 .. Len(s.out)
  PROVE  Shown(k) = E[k]
<1> DEFINE T == BlockSyms(1, k)
           L == Len(s.out)
<1>1. s.out \in Seq(Block) /\ 0 \in Restarts(s) /\ E[0] = 0 /\ L \in Nat
  BY DEF Tale, Restarts
<1> HIDE DEF L
<1>2. 0 + 1 = 1 /\ 0 \in Nat /\ k \in Nat /\ 0 <= k /\ k <= L /\ \A i \in 1 .. k : i \in 1 .. L
  BY <1>1 DEF L
<1>3. \A i \in 0 + 1 .. L : Spelt(s.out[i].syms, E[0], E[i - 1], E[i])
  BY <1>1 DEF Tale, L
<1>4. \A i \in 0 + 1 .. k : Spelt(s.out[i].syms, 0, E[i - 1], E[i])
  BY <1>1, <1>2, <1>3
<1>5. BlockSyms(0 + 1, k) \in Seq(Symbol) /\ Spelt(BlockSyms(0 + 1, k), 0, E[0], E[k])
  BY <1>1, <1>2, <1>4, BlocksSpelt DEF L
<1>6. T \in Seq(Symbol) /\ Spelt(T, 0, 0, E[k])
  BY <1>1, <1>2, <1>5
<1>7. (LET sum[j \in 0 .. Len(T)] ==
             IF j = 0 THEN 0 ELSE sum[j - 1] + IF Len(T[j]) = 1 THEN 1 ELSE T[j][2]
       IN  sum[Len(T)]) = E[k]
  <2> HIDE DEF T
  <2> QED BY <1>6, SpeltCount
<1> QED BY <1>7 DEF Shown

\* What follows a restart decodes on its own
LEMMA Decodes ==
  ASSUME data \in Seq(Byte), NEW E, NEW H, NEW b, Tale(s, E, H, b), b <= Len(data), NEW j \in Restarts(s)
  PROVE  Inflate(BlockSyms(j + 1, Len(s.out)) \o s.syms) = SubSeq(data, E[j] + 1, b)
<1> DEFINE L == Len(s.out)
           T == BlockSyms(j + 1, L)
           R == s.syms
<1>1. s.out \in Seq(Block) /\ L \in Nat /\ R \in Seq(Symbol) /\ E \in [0 .. L -> Nat]
  BY DEF Tale
<1>2. j \in 0 .. L
  BY <1>1 DEF Restarts
<1>3. /\ \A k \in j + 1 .. L : Spelt(s.out[k].syms, E[j], E[k - 1], E[k])
      /\ Spelt(R, E[j], E[L], b)
  BY DEF Tale
<1>4. E[j] \in Nat
  BY <1>1, <1>2
<1> HIDE DEF L
<1>5. j \in Nat /\ j <= L
  BY <1>1, <1>2
<1>6. T \in Seq(Symbol) /\ Spelt(T, E[j], E[j], E[L])
  <2>1. L <= Len(s.out)
    BY <1>1 DEF L
  <2> QED BY <1>1, <1>3, <1>4, <1>5, <2>1, BlocksSpelt
<1> HIDE DEF T, R
<1>7. T \o R \in Seq(Symbol) /\ Spelt(T \o R, E[j], E[j], b)
  BY <1>1, <1>3, <1>6, ConcatProperties, SpeltJoin
<1> DEFINE from == E[j]
           U == T \o R
<1> HIDE DEF from, U
<1>8. Inflate(U) = SubSeq(data, from + 1, b)
  <2>1. from \in Nat /\ U \in Seq(Symbol) /\ Spelt(U, from, from, b)
    BY <1>4, <1>7 DEF from, U
  <2> QED BY <2>1, InflateIs
<1> QED BY <1>8 DEF from, U, T, R, L

-----------------------------------------------------------------------------
(* What the invariant says                                                 *)

LEMMA ParsedIs ==
  ASSUME EmitInv
  PROVE  /\ data \in Seq(Byte) /\ Parsed = Done(s) /\ Parsed \in Nat /\ Parsed <= Len(data)
         /\ Parsed <= s.base + s.strstart
         /\ \E E, H : Tale(s, E, H, Parsed)
<1>1. PICK H : Recorded(s, H)
  BY DEF EmitInv
<1>2. Done(s) = Parsed
  <2>1. s.base \in Nat /\ s.strstart \in Nat
    BY DEF EmitInv, ChainInv, WindowInv, Windowed
  <2>2. s.base + (s.strstart - 1) = (s.base + s.strstart) - 1
    BY <2>1
  <2> QED BY <2>2, Zenon DEF Done, Parsed, Position
<1>3. PICK E : Tale(s, E, H, Parsed)
  BY <1>1, <1>2 DEF Recorded, Buffered, Told
<1>4. Parsed \in Nat
  BY <1>3, TaleUp
<1>5. /\ data \in Inputs /\ inLen \in 0 .. Len(data) /\ inPos \in 0 .. inLen
      /\ s.base \in Nat /\ s.strstart \in Nat /\ s.lookahead \in Nat
      /\ s.base + s.strstart + s.lookahead = inPos
  BY DEF EmitInv, ChainInv, WindowInv, Windowed
<1>6. data \in Seq(Byte)
  BY <1>5, InputAssumption
<1> DEFINE N == Len(data)
           B == s.base
           a == s.strstart
           m == s.lookahead
<1>7. N \in Nat
  BY <1>6
<1> HIDE DEF N, B, a, m
<1>8. inLen \in 0 .. N /\ inPos \in 0 .. inLen /\ B \in Nat /\ a \in Nat /\ m \in Nat /\ B + a + m = inPos
  BY <1>5 DEF N, B, a, m
<1>9. Parsed = B + a \/ Parsed = (B + a) - 1
  BY Zenon DEF Parsed, Position, B, a
<1>10. Parsed <= B + a /\ B + a <= N /\ Parsed <= N
  BY <1>7, <1>8, <1>9
<1> QED BY <1>2, <1>3, <1>4, <1>6, <1>10 DEF N, B, a

LEMMA EmitRoundTrip == EmitInv => RoundTrip
<1> SUFFICES ASSUME EmitInv PROVE RoundTrip
  OBVIOUS
<1>1. /\ data \in Seq(Byte) /\ Parsed \in Nat /\ Parsed <= Len(data)
      /\ \E E, H : Tale(s, E, H, Parsed)
  BY ParsedIs
<1>2. PICK E, H : Tale(s, E, H, Parsed)
  BY <1>1
<1>3. 0 \in Restarts(s) /\ E[0] = 0 /\ 0 + 1 = 1
  BY <1>2 DEF Tale, Restarts
<1>4. Inflate(BlockSyms(0 + 1, Len(s.out)) \o s.syms) = SubSeq(data, E[0] + 1, Parsed)
  BY <1>1, <1>2, <1>3, Decodes
<1> QED BY <1>3, <1>4 DEF RoundTrip, Flushed, Prefix

LEMMA EmitRestarts == EmitInv => FullFlushRestarts
<1> SUFFICES ASSUME EmitInv, NEW k \in DOMAIN s.out, s.out[k].mark = "full"
             PROVE  Inflate(BlockSyms(k + 1, Len(s.out)) \o s.syms) = SubSeq(data, Shown(k) + 1, Parsed)
  BY DEF FullFlushRestarts
<1>1. /\ data \in Seq(Byte) /\ Parsed \in Nat /\ Parsed <= Len(data)
      /\ \E E, H : Tale(s, E, H, Parsed)
  BY ParsedIs
<1>2. PICK E, H : Tale(s, E, H, Parsed)
  BY <1>1
<1>3. k \in 1 .. Len(s.out)
  BY <1>2, LenProperties DEF Tale
<1>4. k \in Restarts(s) /\ k \in 0 .. Len(s.out)
  BY <1>3 DEF Restarts
<1>5. Inflate(BlockSyms(k + 1, Len(s.out)) \o s.syms) = SubSeq(data, E[k] + 1, Parsed)
  BY <1>1, <1>2, <1>4, Decodes
<1>6. Shown(k) = E[k]
  BY <1>2, <1>4, ShownIs
<1> QED BY <1>5, <1>6

LEMMA EmitCopies == EmitInv => StoredCopyFaithful
<1> SUFFICES ASSUME EmitInv, NEW k \in DOMAIN s.out, NEW copy \in s.out[k].copy
             PROVE  copy = SubSeq(data, Shown(k - 1) + 1, Shown(k))
  BY DEF StoredCopyFaithful
<1>1. PICK E, H : Tale(s, E, H, Parsed)
  BY ParsedIs
<1>2. k \in 1 .. Len(s.out)
  BY <1>1, LenProperties DEF Tale
<1>3. k \in 0 .. Len(s.out) /\ k - 1 \in 0 .. Len(s.out)
  BY <1>2
<1>4. Shown(k) = E[k] /\ Shown(k - 1) = E[k - 1]
  BY <1>1, <1>3, ShownIs
<1>5. copy = SubSeq(data, E[k - 1] + 1, E[k])
  BY <1>1, <1>2 DEF Tale
<1> QED BY <1>4, <1>5

LEMMA EmitTyped == EmitInv => TypeOK
<1> SUFFICES ASSUME EmitInv PROVE TypeOK
  OBVIOUS
<1>1. /\ data \in Inputs /\ cfg \in Configs /\ inLen \in 0 .. Len(data) /\ inPos \in 0 .. inLen
      /\ Windowed(s, inPos) /\ MatchFits(s) /\ TablesOK(s) /\ CallsOK
  BY DEF EmitInv, ChainInv, WindowInv, Hashed
<1>2. PICK H : Recorded(s, H)
  BY DEF EmitInv
<1>3. s.syms \in Seq(Symbol) /\ s.out \in Seq(Block) /\ Len(s.syms) < SymEnd /\ s.matchAvailable \in BOOLEAN
  BY <1>2, ToldIs DEF Recorded, Buffered
<1>4. s.blockStart <= s.strstart
  <2>1. PICK E, G : Tale(s, E, G, Parsed)
    BY ParsedIs
  <2>2. E[Len(s.out)] \in Nat /\ E[Len(s.out)] <= Parsed /\ E[Len(s.out)] = s.base + s.blockStart
    BY <2>1, TaleUp DEF Tale
  <2>3. Parsed <= s.base + s.strstart /\ Parsed \in Nat
    BY ParsedIs
  <2>4. s.base \in Nat /\ s.strstart \in Nat /\ s.blockStart \in Int
    BY <1>1, <1>2 DEF Windowed, Recorded, Buffered
  <2> DEFINE B == s.base
             a == s.strstart
             z == s.blockStart
             p == Parsed
  <2> HIDE DEF B, a, z, p
  <2>5. B \in Nat /\ a \in Nat /\ z \in Int /\ p \in Nat /\ B + z <= p /\ p <= B + a
    BY <2>2, <2>3, <2>4 DEF B, a, z, p
  <2>6. z <= a
    BY <2>5
  <2> QED BY <2>6 DEF z, a
<1>5. \A sym \in Symbols : sym \in Symbol
  <2>1. ASSUME NEW k \in DOMAIN s.out, NEW j \in DOMAIN s.out[k].syms PROVE s.out[k].syms[j] \in Symbol
    <3>1. s.out[k] \in Block
      BY <1>3
    <3> DEFINE T == s.out[k].syms
    <3>2. T \in Seq(Symbol)
      BY <3>1 DEF Block
    <3> HIDE DEF T
    <3>3. \A i \in DOMAIN T : T[i] \in Symbol
      BY <3>2
    <3> QED BY <3>3 DEF T
  <2>2. \A j \in DOMAIN s.syms : s.syms[j] \in Symbol
    BY <1>3
  <2> TAKE sym \in Symbols
  <2>3. \/ \E k \in DOMAIN s.out : \E j \in DOMAIN s.out[k].syms : sym = s.out[k].syms[j]
        \/ \E j \in DOMAIN s.syms : sym = s.syms[j]
    <3> DEFINE A == {{s.out[k].syms[j] : j \in DOMAIN s.out[k].syms} : k \in DOMAIN s.out}
               B == {s.syms[j] : j \in DOMAIN s.syms}
    <3>1. sym \in UNION A \/ sym \in B
      BY DEF Symbols
    <3>2. ASSUME sym \in UNION A
          PROVE  \E k \in DOMAIN s.out : \E j \in DOMAIN s.out[k].syms : sym = s.out[k].syms[j]
      <4> HIDE DEF A
      <4>1. PICK P \in A : sym \in P
        BY <3>2
      <4>2. PICK k \in DOMAIN s.out : P = {s.out[k].syms[j] : j \in DOMAIN s.out[k].syms}
        BY <4>1 DEF A
      <4> QED BY <4>1, <4>2
    <3>3. sym \in B => \E j \in DOMAIN s.syms : sym = s.syms[j]
      OBVIOUS
    <3> HIDE DEF A, B
    <3> QED BY <3>1, <3>2, <3>3
  <2> QED BY <2>1, <2>2, <2>3
<1>6. \A sym \in Symbol : \/ Len(sym) = 1 /\ sym[1] \in Byte
                          \/ Len(sym) = 2 /\ sym[1] \in 1 .. MaxDistance
                                          /\ sym[2] \in MinMatch .. MaxMatch
  BY SymbolLengths DEF Symbol
<1>7. Len(s.syms) <= SymEnd
  <2>1. Len(s.syms) \in Nat /\ SymEnd \in Nat
    BY <1>3, SizeAssumption DEF SymEnd
  <2> QED BY <1>3, <2>1
<1>8. s.strstart >= 0 /\ s.lookahead >= 0
  BY <1>1 DEF Windowed
<1> QED BY <1>1, <1>3, <1>4, <1>5, <1>6, <1>7, <1>8 DEF TypeOK, Windowed, TablesOK, MatchFits, CallsOK

\* Decoding everything the engine has told gives back the input it has parsed,
\* for any sizes, data, configuration, leftovers and calls: deflateFast, deflateSlow,
\* longestMatch and fillWindow lose, repeat and alter no byte.
THEOREM RoundTrips == Spec => []RoundTrip
BY EmitRoundTrip, EmissionInvariant, PTL

\* A decoder can start after any full flush (deflate.go:221-230).
THEOREM RestartsAfterFull == Spec => []FullFlushRestarts
BY EmitRestarts, EmissionInvariant, PTL

\* The window slice that flushBlockOnly would store is what the symbols of the
\* block decode to, whenever its start is still in the window.
THEOREM CopiesFaithful == Spec => []StoredCopyFaithful
BY EmitCopies, EmissionInvariant, PTL

\* Every field of the state stays in its range, and every match symbol within
\* the lengths and distances that the deflate format can code.
THEOREM WellTyped == Spec => []TypeOK
BY EmitTyped, EmissionInvariant, PTL

-----------------------------------------------------------------------------
(* The promise of Compressor                                               *)

ShownNow == Shown(Len(s.out))
Mode     == IF flush = Idle /\ s.status = "finish" THEN "done" ELSE flush

\* What has been shown ends where the block at hand begins
ShownWithin ==
  /\ ShownNow = s.base + s.blockStart /\ ShownNow \in Nat
  /\ ShownNow <= inLen /\ inLen \in Nat
  /\ s.syms = <<>> => ShownNow = Parsed

LEMMA ShownAt == EmitInv => ShownWithin
<1> SUFFICES ASSUME EmitInv PROVE ShownWithin
  OBVIOUS
<1>1. PICK E, H : Tale(s, E, H, Parsed)
  BY ParsedIs
<1>2. Len(s.out) \in 0 .. Len(s.out)
  BY <1>1 DEF Tale
<1>3. ShownNow = E[Len(s.out)]
  BY <1>1, <1>2, ShownIs DEF ShownNow
<1>4. ShownNow \in Nat /\ ShownNow <= Parsed /\ ShownNow = s.base + s.blockStart
  BY <1>1, <1>3, TaleUp DEF Tale
<1>5. /\ inLen \in 0 .. Len(data) /\ inPos \in 0 .. inLen
      /\ s.base \in Nat /\ s.strstart \in Nat /\ s.lookahead \in Nat
      /\ s.base + s.strstart + s.lookahead = inPos
  BY DEF EmitInv, ChainInv, WindowInv, Windowed
<1>6. Parsed \in Nat /\ Parsed <= s.base + s.strstart
  BY ParsedIs
<1> DEFINE B == s.base
           a == s.strstart
           m == s.lookahead
           p == Parsed
           q == ShownNow
<1> HIDE DEF B, a, m, p, q
<1>8. q <= inLen /\ inLen \in Nat
  <2>1. q \in Nat /\ q <= p /\ p \in Nat /\ p <= B + a /\ B \in Nat /\ a \in Nat /\ m \in Nat
    BY <1>4, <1>5, <1>6 DEF B, a, m, p, q
  <2>2. inLen \in Nat /\ inPos \in Nat /\ inPos <= inLen
    BY <1>5
  <2>3. B + a + m = inPos
    BY <1>5 DEF B, a, m
  <2>4. B + a <= inPos
    BY <2>1, <2>2, <2>3
  <2> QED BY <2>1, <2>2, <2>4
<1>9. s.syms = <<>> => ShownNow = Parsed
  <2>1. 0 \in Restarts(s)
    BY DEF Restarts
  <2>2. Spelt(s.syms, E[0], E[Len(s.out)], Parsed)
    BY <1>1, <2>1 DEF Tale
  <2> QED BY <1>3, <2>2, SpeltNothing
<1> QED BY <1>4, <1>8, <1>9 DEF q, ShownWithin

\* Where a turn leaves the start of the block
BlockMoves(t, u) == u.blockStart \in {t.blockStart, t.strstart, u.strstart}

LEMMA FlushIfFullMoves ==
  ASSUME NEW t, DOMAIN t = StateFields
  PROVE  FlushIfFull(t).blockStart \in {t.blockStart, t.strstart} /\ FlushIfFull(t).strstart = t.strstart
<1>1. FlushBlock(t, FALSE).blockStart = t.strstart /\ FlushBlock(t, FALSE).strstart = t.strstart
  BY DEF FlushBlock, StateFields
<1> QED BY <1>1 DEF FlushIfFull

LEMMA TallySyms ==
  ASSUME NEW t, DOMAIN t = StateFields, NEW sym
  PROVE  Keeps(t, Tally(t, sym), {"syms"})
BY DEF Tally, Keeps, StateFields

LEMMA TakeMatchMoves ==
  ASSUME NEW t, DOMAIN t = StateFields, t.strstart \in Nat, t.matchLength \in Nat, t.matchLength > 0
  PROVE  BlockMoves(t, TakeMatch(t))
<1> DEFINE len   == t.matchLength
           left  == t.lookahead - len
           last  == t.strstart + len - 1
           told  == Tally(t, Match(t.strstart - t.matchStart, len))
           run   == InsertRun(told, t.strstart + 1, last)
           known == IF len <= cfg.maxLazy /\ left >= MinMatch
                      THEN [run EXCEPT !.insH = Hash3(t.window, last)]
                      ELSE [told EXCEPT !.insH = UpdateHash(t.window[last + 1], t.window[last + 2])]
           moved == [known EXCEPT !.lookahead = left, !.strstart = last + 1, !.matchLength = 0]
<1>1. TakeMatch(t) = FlushIfFull(moved)
  BY DEF TakeMatch
<1>2. Keeps(t, told, {"syms"}) /\ last \in Int /\ t.strstart + 1 \in Nat
  BY TallySyms
<1> HIDE DEF len, left, last, told
<1>3. Keeps(told, run, Chains)
  BY <1>2, InsertRunKeeps DEF Keeps
<1> HIDE DEF run
<1>4. Keeps(told, known, Chains)
  <2>1. Keeps(told, [run EXCEPT !.insH = Hash3(t.window, last)], Chains)
    BY <1>3 DEF Keeps, StateFields, Chains
  <2>2. Keeps(told, [told EXCEPT !.insH = UpdateHash(t.window[last + 1], t.window[last + 2])], Chains)
    BY <1>2 DEF Keeps, StateFields, Chains
  <2> QED BY <2>1, <2>2
<1> HIDE DEF known
<1>5. DOMAIN moved = StateFields /\ moved.blockStart = t.blockStart
  BY <1>2, <1>4 DEF Keeps, StateFields, Chains
<1> HIDE DEF moved
<1> QED BY <1>1, <1>5, FlushIfFullMoves DEF BlockMoves

LEMMA TakePreviousMoves ==
  ASSUME NEW t, DOMAIN t = StateFields, t.strstart \in Nat, t.lookahead \in Nat, t.prevLength \in Nat
  PROVE  BlockMoves(t, TakePrevious(t))
<1> DEFINE maxInsert == t.strstart + t.lookahead - MinMatch
           end   == t.strstart + t.prevLength - 2
           first == t.strstart + 1
           last  == Min2(end, maxInsert)
           told  == Tally(t, Match(t.strstart - 1 - t.prevMatch, t.prevLength))
           run   == InsertRun(told, first, last)
           known == IF last < first THEN told ELSE [run EXCEPT !.insH = Hash3(t.window, last)]
           moved == [known EXCEPT !.lookahead = @ - (t.prevLength - 1), !.strstart = end + 1,
                                  !.prevLength = 0, !.matchAvailable = FALSE,
                                  !.matchLength = MinMatch - 1]
<1>1. TakePrevious(t) = FlushIfFull(moved)
  BY DEF TakePrevious
<1>2. Keeps(t, told, {"syms"})
  BY TallySyms
<1>3. last \in Int /\ first \in Nat
  BY SizesAre DEF Min2
<1> HIDE DEF told, last, first, end
<1>4. Keeps(told, run, Chains)
  BY <1>2, <1>3, InsertRunKeeps DEF Keeps
<1> HIDE DEF run
<1>5. Keeps(told, known, Chains)
  <2>1. Keeps(told, [run EXCEPT !.insH = Hash3(t.window, last)], Chains)
    BY <1>4 DEF Keeps, StateFields, Chains
  <2>2. Keeps(told, told, Chains)
    BY <1>2 DEF Keeps
  <2> QED BY <2>1, <2>2
<1> HIDE DEF known
<1>6. DOMAIN moved = StateFields /\ moved.blockStart = t.blockStart
  BY <1>2, <1>5 DEF Keeps, StateFields, Chains
<1> HIDE DEF moved
<1> QED BY <1>1, <1>6, FlushIfFullMoves DEF BlockMoves

LEMMA TakeLiteralMoves ==
  ASSUME NEW t, DOMAIN t = StateFields
  PROVE  BlockMoves(t, TakeLiteral(t))
<1> DEFINE told == Tally(t, Literal(t.window[t.strstart - 1]))
           lit  == FlushIfFull(told)
           u    == [lit EXCEPT !.lookahead = @ - 1, !.strstart = @ + 1]
<1>1. TakeLiteral(t) = u
  BY DEF TakeLiteral
<1>2. Keeps(t, told, {"syms"})
  BY TallySyms
<1> HIDE DEF told
<1>3. DOMAIN told = StateFields /\ told.blockStart = t.blockStart /\ told.strstart = t.strstart
  BY <1>2 DEF Keeps, StateFields
<1>4. Keeps(told, lit, Emits) /\ lit.blockStart \in {t.blockStart, t.strstart}
  BY <1>3, FlushIfFullKeeps, FlushIfFullMoves
<1> HIDE DEF lit
<1>5. u.blockStart = lit.blockStart
  BY <1>4 DEF Keeps, StateFields
<1> HIDE DEF u
<1> QED BY <1>1, <1>4, <1>5 DEF BlockMoves

LEMMA FastLiteralMoves ==
  ASSUME NEW t, DOMAIN t = StateFields
  PROVE  BlockMoves(t, FastLiteral(t))
<1> DEFINE told  == Tally(t, Literal(t.window[t.strstart]))
           moved == [told EXCEPT !.lookahead = @ - 1, !.strstart = @ + 1]
<1>1. FastLiteral(t) = FlushIfFull(moved)
  BY DEF FastLiteral
<1>2. Keeps(t, told, {"syms"})
  BY TallySyms
<1> HIDE DEF told
<1>3. DOMAIN moved = StateFields /\ moved.blockStart = t.blockStart
  BY <1>2 DEF Keeps, StateFields
<1> HIDE DEF moved
<1> QED BY <1>1, <1>3, FlushIfFullMoves DEF BlockMoves

LEMMA PostponedMoves ==
  ASSUME NEW t, DOMAIN t = StateFields
  PROVE  BlockMoves(t, Postponed(t))
BY DEF BlockMoves, Postponed, StateFields

LEMMA BlockMovesFrom ==
  ASSUME NEW t, NEW m, NEW u, Keeps(Inserted(t), m, Sought), DOMAIN t = StateFields, BlockMoves(m, u)
  PROVE  BlockMoves(t, u)
<1>1. Keeps(t, Inserted(t), Chains)
  BY InsertedKeeps
<1>2. m.blockStart = t.blockStart /\ m.strstart = t.strstart
  BY <1>1 DEF Keeps, StateFields, Chains, Sought
<1> QED BY <1>2 DEF BlockMoves

LEMMA TurnMoves ==
  ASSUME NEW t, DOMAIN t = StateFields, t.strstart \in Nat, t.lookahead \in Nat, MatchFits(t), cfg \in Configs
  PROVE  BlockMoves(t, FastTurn(t)) /\ BlockMoves(t, SlowTurn(t))
<1> DEFINE m == FastFound(t)
           p == SlowFound(t)
<1>1. /\ FastTurn(t) = IF m.matchLength >= MinMatch THEN TakeMatch(m) ELSE FastLiteral(m)
      /\ SlowTurn(t) = IF p.prevLength >= MinMatch /\ p.matchLength <= p.prevLength THEN TakePrevious(p)
                       ELSE IF p.matchAvailable THEN TakeLiteral(p) ELSE Postponed(p)
  BY FastTurnIs, SlowTurnIs
<1>2. Keeps(t, Inserted(t), Chains)
  BY InsertedKeeps
<1>3. Keeps(Inserted(t), m, Sought) /\ m.matchLength \in 0 .. MaxMatch
  BY FastFoundKeeps
<1>4. Keeps(Inserted(t), p, Sought) /\ p.prevLength = t.matchLength
  BY SlowFoundKeeps
<1> HIDE DEF m, p
<1>5. /\ DOMAIN m = StateFields /\ m.strstart = t.strstart
      /\ DOMAIN p = StateFields /\ p.strstart = t.strstart /\ p.lookahead = t.lookahead
  BY <1>2, <1>3, <1>4 DEF Keeps, StateFields, Chains, Sought
<1>6. BlockMoves(m, FastTurn(t))
  <2>1. CASE m.matchLength >= MinMatch
    <3>1. m.matchLength \in Nat /\ m.matchLength > 0
      BY <1>3, <2>1, SizesAre
    <3>2. BlockMoves(m, TakeMatch(m))
      BY <1>5, <3>1, TakeMatchMoves
    <3> QED BY <1>1, <2>1, <3>2
  <2>2. CASE ~(m.matchLength >= MinMatch)
    <3>1. FastTurn(t) = FastLiteral(m)
      BY <1>1, <2>2
    <3> QED BY <1>5, <3>1, FastLiteralMoves
  <2> QED BY <2>1, <2>2
<1>7. BlockMoves(p, SlowTurn(t))
  <2>1. p.prevLength \in Nat
    BY <1>4, SizesAre DEF MatchFits
  <2>2. BlockMoves(p, TakePrevious(p)) /\ BlockMoves(p, TakeLiteral(p)) /\ BlockMoves(p, Postponed(p))
    BY <1>5, <2>1, TakePreviousMoves, TakeLiteralMoves, PostponedMoves
  <2>3. SlowTurn(t) \in {TakePrevious(p), TakeLiteral(p), Postponed(p)}
    BY <1>1
  <2> QED BY <2>2, <2>3
<1> QED BY <1>3, <1>4, <1>6, <1>7, BlockMovesFrom

\* A turn of a parse loop takes back nothing that has been shown
LEMMA ParseShows ==
  ASSUME EmitInv, ParseFast \/ ParseSlow
  PROVE  /\ s'.base + s'.blockStart >= s.base + s.blockStart
         /\ s'.status = s.status /\ s'.lastFlush = s.lastFlush
<1> DEFINE t == Filled.s
           u == s'
<1>1. WindowInv
  BY DEF EmitInv, ChainInv
<1>2. PICK H : Recorded(s, H)
  BY DEF EmitInv
<1>3. /\ Windowed(t, Filled.pos) /\ MatchFits(t) /\ t.lookahead \in Nat /\ t.strstart \in Nat
      /\ cfg \in Configs /\ Keeps(s, t, FillSet) /\ DOMAIN t = StateFields /\ t.base \in Nat
  BY <1>1, FilledIs DEF Windowed
<1>4. /\ Windowed(s, inPos) /\ DOMAIN s = StateFields /\ data \in Seq(Byte)
      /\ inLen \in 0 .. Len(data) /\ inPos \in 0 .. inLen
  BY <1>1, InputAssumption DEF WindowInv, Windowed
<1>5. Shifted(s, t)
  <2>1. t = IF s.lookahead < MinLookahead THEN FillWindow(s, inPos).s ELSE s
    BY DEF Filled
  <2>2. Shifted(s, s)
    BY DEF Shifted
  <2>3. Shifted(s, FillWindow(s, inPos).s)
    BY <1>4, FillWindowShifts
  <2> QED BY <2>1, <2>2, <2>3
<1>6. Turned(t, u) /\ BlockMoves(t, u)
  <2>1. t.lookahead > 0 /\ u = IF cfg.fn = "fast" THEN FastTurn(t) ELSE SlowTurn(t)
    BY DEF ParseFast, ParseSlow, Turn
  <2>2. Turned(t, u)
    BY <1>1, <2>1, ParseTurns
  <2> HIDE DEF t
  <2>3. BlockMoves(t, FastTurn(t)) /\ BlockMoves(t, SlowTurn(t))
    BY <1>3, TurnMoves
  <2> QED BY <2>1, <2>2, <2>3
<1> HIDE DEF t, u
<1>7. Recorded(t, H)
  BY <1>2, <1>3, <1>4, <1>5, FilledRecorded
<1>8. t.blockStart \in Int /\ t.base + t.blockStart <= Done(t)
  <2>1. PICK E : Tale(t, E, H, Done(t))
    BY <1>7 DEF Recorded, Buffered, Told
  <2>2. E[Len(t.out)] = t.base + t.blockStart /\ E[Len(t.out)] <= Done(t)
    BY <2>1, TaleUp DEF Tale
  <2> QED BY <1>7, <2>2 DEF Recorded, Buffered
<1>9. /\ u.base = t.base /\ u.status = t.status /\ t.status = s.status
      /\ u.lastFlush = t.lastFlush /\ t.lastFlush = s.lastFlush
  BY <1>3, <1>6 DEF Turned, Keeps, StateFields, TurnSet, Chains, Emits, FillSet, SlideSet
<1> DEFINE B == t.base
           a == t.strstart
           z == t.blockStart
           y == u.blockStart
           x == u.strstart
<1>10. B \in Nat /\ a \in Nat /\ z \in Int /\ WSize \in Nat /\ x \in Nat /\ y \in {z, a, x} /\ s.blockStart \in Int /\ s.base \in Nat
  <2>1. s.blockStart \in Int /\ s.base \in Nat
    BY <1>2, <1>4 DEF Recorded, Buffered, Windowed
  <2> QED BY <1>3, <1>6, <1>8, <2>1, SizesAre DEF Turned, BlockMoves
<1>11. Done(t) = B + (a - 1) \/ Done(t) = B + a
  BY DEF Done
<1>12. B + z <= Done(t)
  BY <1>8
<1>13. u.strstart + u.lookahead = t.strstart + t.lookahead /\ u.lookahead \in 0 .. t.lookahead - 1
  BY <1>6 DEF Turned
<1>14. x >= a
  <2> DEFINE c == u.lookahead
             d == t.lookahead
  <2>1. x + c = a + d /\ c \in 0 .. d - 1 /\ d \in Nat /\ x \in Nat /\ a \in Nat
    BY <1>3, <1>10, <1>13
  <2> HIDE DEF a, x, c, d
  <2> QED BY <2>1
<1>15. s.base + s.blockStart = B + z
  <2> DEFINE Q == s.base
             r == s.blockStart
  <2>1. Q \in Nat /\ r \in Int /\ WSize \in Nat
    BY <1>10
  <2>2. (B = Q /\ z = r) \/ (B = Q + WSize /\ z = r - WSize)
    BY <1>5 DEF Shifted
  <2> HIDE DEF B, z, Q, r
  <2>3. Q + r = B + z
    BY <2>1, <2>2
  <2> QED BY <2>3 DEF Q, r
<1> HIDE DEF B, a, z, y, x
<1>16. z <= a
  BY <1>10, <1>11, <1>12
<1>17. B + y >= B + z
  BY <1>10, <1>14, <1>16
<1>18. u.base = B
  BY <1>9 DEF B
<1> QED BY <1>9, <1>15, <1>17, <1>18 DEF u, y

\* The flush of the latest call is remembered; a stream that rests after a flush
\* or a finish has shown everything, and a finished one parsed everything
Delivered ==
  /\ s.lastFlush \in FlushModes \cup {"unused"}
  /\ flush # Idle => s.lastFlush = flush
  /\ flush = Idle /\ s.lastFlush \notin {"none", "unused"} => ShownNow = inLen
  /\ s.status = "finish" => flush = Idle /\ s.lookahead = 0 /\ s.lastFlush = "finish"

PromiseInv == EmitInv /\ Delivered

LEMMA ShownNext == EmitInv /\ [Next]_vars => EmitInv' /\ ShownWithin'
<1>1. EmitInv /\ [Next]_vars => EmitInv'
  BY NextKeepsRecord
<1> QED BY <1>1, ShownAt, PTL

LEMMA InitPromise == Init => Promise!Init /\ PromiseInv
<1> SUFFICES ASSUME Init PROVE Promise!Init /\ PromiseInv
  OBVIOUS
<1>1. EmitInv /\ ShownWithin
  BY InitEmitInv, ShownAt
<1>2. /\ s.base = 0 /\ s.blockStart = 0 /\ s.status = "busy" /\ s.lastFlush = "unused"
      /\ inLen = 0 /\ flush = Idle
  BY DEF Init, Reset
<1>3. ShownNow = 0
  BY <1>1, <1>2 DEF ShownWithin
<1>4. Promise!Init
  BY <1>2, <1>3 DEF Promise!Init, ShownNow, Idle
<1> QED BY <1>1, <1>2, <1>4 DEF PromiseInv, Delivered

\* A flush ranks above a call without one
LEMMA HigherRank ==
  ASSUME NEW f \in FlushModes \ {"none", "finish"}, NEW g, Rank(f) <= Rank(g)
  PROVE  g \notin {"none", "unused"}
<1>1. f = "partial" \/ f = "sync" \/ f = "full"
  BY DEF FlushModes
<1>2. Rank("partial") = 2 /\ Rank("sync") = 4 /\ Rank("full") = 6
  BY DEF Rank
<1>3. Rank("none") = 0 /\ Rank("unused") = -4
  BY DEF Rank
<1>4. g = "none" \/ g = "unused" => FALSE
  BY <1>1, <1>2, <1>3
<1> QED BY <1>4

\* A call hands in bytes; one with nothing to do is skipped, a flush only when
\* nothing is held back
LEMMA CallPromise ==
  ASSUME PromiseInv, ShownWithin, ShownWithin', NEW n \in Nat, NEW f \in FlushModes, Call(n, f)
  PROVE  /\ \/ Promise!Call(f) \/ Promise!Skip(f)
            \/ UNCHANGED <<inLen, ShownNow, Mode, s.lastFlush>>
         /\ Delivered'
<1>1. /\ flush = Idle /\ inLen' = inLen + n /\ (s.status = "finish" => n = 0 /\ f = "finish")
      /\ s' = [s EXCEPT !.lastFlush = f] /\ f # Idle /\ f # "unused"
  BY DEF Call, FlushModes, Idle
<1>2. DOMAIN s = StateFields /\ inLen \in Nat /\ Delivered
  BY DEF PromiseInv, EmitInv, ChainInv, WindowInv, Windowed, ShownWithin
<1>3. /\ s'.base = s.base /\ s'.blockStart = s.blockStart /\ s'.status = s.status
      /\ s'.lookahead = s.lookahead /\ s'.lastFlush = f
  BY <1>1, <1>2 DEF StateFields
<1>4. ShownNow' = ShownNow
  BY <1>3 DEF ShownWithin
<1> DEFINE work == n # 0 \/ s.lookahead # 0 \/ (f # "none" /\ s.status # "finish")
<1>5. flush' = IF ~Repeated(n, f) /\ work THEN f ELSE Idle
  BY DEF Call
<1>6. s.status = "finish" => ~work /\ s.lookahead = 0 /\ s.lastFlush = "finish"
  BY <1>1, <1>2 DEF Delivered
<1>7. CASE ~Repeated(n, f) /\ work
  <2>1. flush' = f /\ s.status # "finish"
    BY <1>5, <1>6, <1>7
  <2> HIDE DEF work
  <2>2. Mode = Idle /\ Mode' = f
    BY <1>1, <1>3, <2>1 DEF Mode
  <2>3. inLen' \in Nat /\ inLen' >= inLen
    BY <1>1, <1>2
  <2>4. Promise!Call(f)
    BY <1>3, <1>4, <2>2, <2>3 DEF Promise!Call, Mode, ShownNow
  <2>5. Delivered'
    BY <1>1, <1>3, <2>1 DEF Delivered
  <2> QED BY <2>4, <2>5
<1>8. CASE ~(~Repeated(n, f) /\ work)
  <2>1. n = 0 /\ flush' = Idle
    BY <1>5, <1>8 DEF Repeated
  <2>2. inLen' = inLen
    BY <1>1, <1>2, <2>1
  <2>3. Mode' = Mode
    BY <1>1, <1>3, <2>1 DEF Mode
  <2>4. CASE s.status = "finish"
    <3>1. f = "finish" /\ s'.lastFlush = s.lastFlush
      BY <1>1, <1>3, <1>6, <2>4
    <3>2. Delivered'
      BY <1>1, <1>2, <1>3, <1>4, <2>1, <2>2, <3>1 DEF Delivered
    <3> QED BY <1>4, <2>2, <2>3, <3>1, <3>2
  <2>5. CASE s.status # "finish"
    <3>1. f # "finish"
      BY <1>8, <2>5 DEF Repeated
    <3>2. f # "none" => ShownNow = inLen
      <4> SUFFICES ASSUME f # "none" PROVE ShownNow = inLen
        OBVIOUS
      <4>1. Rank(f) <= Rank(s.lastFlush)
        BY <1>8, <2>5 DEF Repeated
      <4>2. s.lastFlush \notin {"none", "unused"}
        BY <3>1, <4>1, HigherRank
      <4> QED BY <1>1, <1>2, <4>2 DEF Delivered
    <3>3. Mode = Idle
      BY <1>1, <2>5 DEF Mode
    <3>4. Promise!Skip(f)
      BY <1>3, <1>4, <2>2, <2>3, <3>1, <3>2, <3>3 DEF Promise!Skip, Mode, ShownNow
    <3>5. Delivered'
      BY <1>3, <1>4, <2>1, <2>2, <2>5, <3>2 DEF Delivered
    <3> QED BY <3>4, <3>5
  <2> QED BY <2>4, <2>5
<1> QED BY <1>7, <1>8

\* deflateFast and deflateSlow show more, or nothing
LEMMA ParsePromise ==
  ASSUME PromiseInv, ShownWithin, ShownWithin', ParseFast \/ ParseSlow
  PROVE  /\ Promise!Emit \/ UNCHANGED <<inLen, ShownNow, Mode, s.lastFlush>>
         /\ Delivered'
<1>1. flush # Idle /\ flush' = flush /\ inLen' = inLen
  BY DEF ParseFast, ParseSlow, Turn
<1>2. flush \in FlushModes /\ s.status # "finish"
  BY <1>1, InputAssumption DEF PromiseInv, Delivered, EmitInv, CallsOK
<1>3. /\ s'.base + s'.blockStart >= s.base + s.blockStart /\ s'.status = s.status
      /\ s'.lastFlush = s.lastFlush
  BY ParseShows DEF PromiseInv
<1>4. Mode = flush /\ Mode' = flush /\ flush \in Promise!Modes
  BY <1>1, <1>2, <1>3 DEF Mode, FlushModes, Promise!Modes
<1>5. ShownNow \in Nat /\ ShownNow' \in Nat /\ ShownNow' >= ShownNow /\ ShownNow' <= inLen /\ inLen \in Nat
  BY <1>1, <1>3 DEF ShownWithin
<1>6. ShownNow' = ShownNow \/ ShownNow' \in (ShownNow + 1) .. inLen
  <2> DEFINE x == ShownNow
             y == ShownNow'
  <2>1. x \in Nat /\ y \in Nat /\ y >= x /\ y <= inLen /\ inLen \in Nat
    BY <1>5
  <2> HIDE DEF x, y
  <2>2. y = x \/ y \in (x + 1) .. inLen
    BY <2>1
  <2> QED BY <2>2 DEF x, y
<1>7. ASSUME ShownNow' \in (ShownNow + 1) .. inLen PROVE Promise!Emit
  <2>1. Promise!Calling
    BY <1>4 DEF Promise!Calling, Mode
  <2> QED BY <1>1, <1>3, <1>4, <1>7, <2>1 DEF Promise!Emit, ShownNow, Mode
<1>8. Delivered'
  BY <1>1, <1>2, <1>3 DEF PromiseInv, Delivered
<1> QED BY <1>1, <1>3, <1>4, <1>6, <1>7, <1>8

\* A call that only fed bytes returns with the rest held back
LEMMA StarvePromise ==
  ASSUME PromiseInv, ShownWithin, ShownWithin', Starve
  PROVE  Promise!Return /\ Delivered'
<1> DEFINE t == Filled.s
<1>1. flush = "none" /\ flush # Idle /\ flush' = Idle /\ inLen' = inLen /\ s' = t
  BY DEF Starve, Starving, Turn
<1>2. WindowInv /\ s.status # "finish" /\ s.lastFlush = "none"
  BY <1>1 DEF PromiseInv, Delivered, EmitInv, ChainInv
<1>3. Windowed(s, inPos) /\ inLen \in 0 .. Len(data) /\ inPos \in 0 .. inLen /\ data \in Seq(Byte)
  BY <1>2, InputAssumption DEF WindowInv
<1>4. Keeps(s, t, FillSet) /\ DOMAIN s = StateFields
  BY <1>2, <1>3, FilledIs DEF Windowed
<1>5. Shifted(s, t)
  <2>1. t = IF s.lookahead < MinLookahead THEN FillWindow(s, inPos).s ELSE s
    BY DEF Filled
  <2>2. Shifted(s, s)
    BY DEF Shifted
  <2>3. Shifted(s, FillWindow(s, inPos).s)
    BY <1>3, FillWindowShifts
  <2> QED BY <2>1, <2>2, <2>3
<1> HIDE DEF t
<1>6. t.status = s.status /\ t.lastFlush = s.lastFlush
  BY <1>4 DEF Keeps, StateFields, FillSet, SlideSet
<1>7. t.base + t.blockStart = s.base + s.blockStart
  <2> DEFINE Q == s.base
             r == s.blockStart
             B == t.base
             z == t.blockStart
  <2>1. Q \in Nat /\ r \in Int /\ WSize \in Nat
    BY <1>3, SizesAre DEF PromiseInv, EmitInv, Recorded, Buffered, Windowed
  <2>2. (B = Q /\ z = r) \/ (B = Q + WSize /\ z = r - WSize)
    BY <1>5 DEF Shifted
  <2> HIDE DEF B, z, Q, r
  <2>3. Q + r = B + z
    BY <2>1, <2>2
  <2> QED BY <2>3 DEF Q, r, B, z
<1>8. ShownNow' = ShownNow /\ ShownNow \in ShownNow .. inLen
  BY <1>1, <1>7 DEF ShownWithin
<1>9. Mode = "none" /\ Mode' = Idle /\ "none" \in Promise!Modes
  BY <1>1, <1>2, <1>6 DEF Mode, Promise!Modes
<1>10. Promise!Return
  BY <1>1, <1>6, <1>8, <1>9 DEF Promise!Return, Promise!Calling, ShownNow, Mode
<1>11. Delivered'
  BY <1>1, <1>2, <1>6 DEF FlushModes, Delivered
<1> QED BY <1>10, <1>11

LEMMA EndOfInputStatus ==
  ASSUME NEW t, DOMAIN t = StateFields
  PROVE  EndOfInput(t).status = IF flush = "finish" THEN "finish" ELSE t.status
<1> DEFINE told == Tally(t, Literal(t.window[t.strstart - 1]))
           lit  == IF t.matchAvailable THEN [told EXCEPT !.matchAvailable = FALSE] ELSE t
           kept == [lit EXCEPT !.insert = Min2(t.strstart, MinMatch - 1)]
           last == FlushBlock(kept, TRUE)
           u    == EndOfInput(t)
<1>1. u = IF flush = "finish" THEN [last EXCEPT !.status = "finish"]
          ELSE IF kept.syms # <<>> THEN FlushBlock(kept, FALSE) ELSE kept
  BY DEF EndOfInput
<1>2. Keeps(t, told, {"syms"})
  BY TallySyms
<1> HIDE DEF told
<1>3. DOMAIN lit = StateFields /\ lit.status = t.status
  BY <1>2 DEF Keeps, StateFields
<1> HIDE DEF lit
<1>4. DOMAIN kept = StateFields /\ kept.status = t.status
  BY <1>3 DEF StateFields
<1> HIDE DEF kept
<1>5. Keeps(kept, FlushBlock(kept, FALSE), Emits) /\ Keeps(kept, last, Emits)
  BY <1>4, FlushBlockKeeps
<1> HIDE DEF last
<1>6. CASE flush = "finish"
  <2>1. u = [last EXCEPT !.status = "finish"] /\ DOMAIN last = StateFields
    BY <1>1, <1>5, <1>6 DEF Keeps
  <2>2. u.status = "finish"
    BY <2>1 DEF StateFields
  <2> QED BY <1>6, <2>2
<1>7. CASE flush # "finish"
  <2>1. u = FlushBlock(kept, FALSE) \/ u = kept
    BY <1>1, <1>7
  <2>2. FlushBlock(kept, FALSE).status = kept.status
    BY <1>5 DEF Keeps, StateFields, Emits
  <2> QED BY <1>4, <1>7, <2>1, <2>2
<1> QED BY <1>6, <1>7

\* A flush returns with everything shown
LEMMA DrainPromise ==
  ASSUME PromiseInv, ShownWithin, ShownWithin', EmitInv', Drain
  PROVE  Promise!Return /\ Delivered'
<1> DEFINE t == Filled.s
           u == EndOfInput(t)
<1>1. /\ flush # Idle /\ flush' = Idle /\ inLen' = inLen /\ t.lookahead = 0 /\ ~Starving(t)
      /\ s' = IF flush = "finish" THEN u ELSE Marked(u)
  BY DEF Drain, Turn
<1>2. /\ WindowInv /\ s.status # "finish" /\ flush \in FlushModes
      /\ s.lastFlush = flush
  BY <1>1, InputAssumption DEF PromiseInv, Delivered, EmitInv, ChainInv, CallsOK
<1>3. flush # "none"
  <2>1. 0 < MinLookahead
    BY SizesAre
  <2> QED BY <1>1, <2>1 DEF Starving
<1>4. /\ Windowed(t, Filled.pos) /\ MatchFits(t) /\ Keeps(s, t, FillSet) /\ DOMAIN t = StateFields
  BY <1>2, FilledIs
<1>5. PICK H : Recorded(s, H)
  BY DEF PromiseInv, EmitInv
<1>6. Windowed(s, inPos) /\ inLen \in 0 .. Len(data) /\ inPos \in 0 .. inLen /\ data \in Seq(Byte)
  BY <1>2, InputAssumption DEF WindowInv
<1>7. Recorded(t, H)
  <2>1. Shifted(s, t)
    <3>1. t = IF s.lookahead < MinLookahead THEN FillWindow(s, inPos).s ELSE s
      BY DEF Filled
    <3>2. Shifted(s, s)
      BY DEF Shifted
    <3>3. Shifted(s, FillWindow(s, inPos).s)
      BY <1>6, FillWindowShifts
    <3> QED BY <3>1, <3>2, <3>3
  <2> HIDE DEF t
  <2> QED BY <1>4, <1>5, <1>6, <2>1, FilledRecorded
<1>8. Filled.pos <= Len(data)
  <2>1. Filled.pos \in inPos .. inLen
    BY <1>2, FilledFills DEF FilledFrom
  <2> DEFINE N == Len(data)
             p == Filled.pos
  <2>2. N \in Nat /\ inLen \in 0 .. N /\ inPos \in 0 .. inLen
    BY <1>6
  <2> HIDE DEF N, p
  <2>3. p <= N
    BY <2>1, <2>2 DEF p
  <2> QED BY <2>3 DEF N, p
<1> HIDE DEF t
<1>9. u.syms = <<>> /\ u.matchAvailable = FALSE
  BY <1>1, <1>4, <1>6, <1>7, <1>8, EndOfInputRecorded
<1>10. Keeps(t, u, Emits \cup {"matchAvailable", "insert", "status"})
  BY <1>4, EndOfInputKeeps
<1>11. u.lookahead = 0 /\ DOMAIN u = StateFields /\ u.lastFlush = t.lastFlush
  BY <1>1, <1>10 DEF Keeps, StateFields, Emits
<1>12. /\ u.status = IF flush = "finish" THEN "finish" ELSE s.status
       /\ u.lastFlush = flush
  <2>1. t.status = s.status /\ t.lastFlush = s.lastFlush
    BY <1>4 DEF Keeps, StateFields, FillSet, SlideSet
  <2> QED BY <1>2, <1>4, <1>11, <2>1, EndOfInputStatus
<1> HIDE DEF u
<1>13. /\ s'.syms = <<>> /\ s'.matchAvailable = FALSE /\ s'.lookahead = 0
       /\ s'.status = IF flush = "finish" THEN "finish" ELSE s.status
       /\ s'.lastFlush = flush
  <2>1. /\ Marked(u).syms = u.syms /\ Marked(u).matchAvailable = u.matchAvailable
        /\ Marked(u).lookahead = u.lookahead /\ Marked(u).status = u.status
        /\ Marked(u).lastFlush = u.lastFlush
    BY <1>11 DEF Marked, StateFields
  <2> QED BY <1>1, <1>9, <1>11, <1>12, <2>1
<1>14. ShownNow' = inLen
  <2>1. ShownNow' = Parsed'
    BY <1>13 DEF ShownWithin
  <2>2. Parsed' = s'.base + s'.strstart
    BY <1>13 DEF Parsed, Position
  <2>3. /\ s'.base \in Nat /\ s'.strstart \in Nat /\ s'.base + s'.strstart + s'.lookahead = inPos'
        /\ inPos' = inLen'
    BY <1>1 DEF EmitInv, ChainInv, WindowInv, Windowed
  <2>4. s'.base + s'.strstart + 0 = s'.base + s'.strstart
    BY <2>3
  <2> QED BY <1>1, <1>13, <2>1, <2>2, <2>3, <2>4
<1>15. inLen \in ShownNow .. inLen
  BY DEF ShownWithin
<1>16. Mode = flush /\ flush \in Promise!Modes /\ Mode' = IF flush = "finish" THEN "done" ELSE Idle
  <2>1. Mode = flush /\ flush \in Promise!Modes
    BY <1>1, <1>2 DEF Mode, FlushModes, Promise!Modes
  <2>2. Mode' = IF s'.status = "finish" THEN "done" ELSE Idle
    BY <1>1 DEF Mode
  <2> QED BY <1>2, <1>13, <2>1, <2>2
<1>17. Promise!Return
  BY <1>1, <1>2, <1>13, <1>14, <1>15, <1>16 DEF Promise!Return, Promise!Calling, ShownNow, Mode
<1>18. Delivered'
  BY <1>1, <1>2, <1>13, <1>14 DEF Delivered
<1> QED BY <1>17, <1>18

LEMMA NextPromise ==
  PromiseInv /\ [Next]_vars => PromiseInv' /\ [Promise!Next]_(Promise!compressor)
<1> SUFFICES ASSUME PromiseInv, [Next]_vars
             PROVE  PromiseInv' /\ (Promise!Next \/ UNCHANGED Promise!compressor)
  OBVIOUS
<1>1. EmitInv /\ ShownWithin
  BY ShownAt DEF PromiseInv
<1>2. EmitInv' /\ ShownWithin'
  BY <1>1, ShownNext
<1>3. UNCHANGED <<inLen, ShownNow, Mode, s.lastFlush>> => UNCHANGED Promise!compressor
  BY DEF Promise!compressor, ShownNow, Mode
<1>4. ASSUME NEW n \in Nat, NEW f \in Flushes, Call(n, f)
      PROVE  Delivered' /\ (Promise!Next \/ UNCHANGED Promise!compressor)
  <2>1. f \in FlushModes /\ f \in Promise!Modes
    BY InputAssumption DEF FlushModes, Promise!Modes
  <2> QED BY <1>1, <1>2, <1>3, <1>4, <2>1, CallPromise DEF Promise!Next
<1>5. CASE Feed
  <2>1. PICK n \in Slices, f \in Flushes \ {"finish"} : Call(n, f)
    BY <1>5 DEF Feed
  <2>2. n \in Nat /\ f \in Flushes
    BY InputAssumption
  <2> QED BY <1>2, <1>4, <2>1, <2>2 DEF PromiseInv
<1>6. CASE Ask
  <2>1. PICK f \in Flushes : Call(IF f = "finish" THEN Len(data) - inLen ELSE 0, f)
    BY <1>6 DEF Ask
  <2>2. Len(data) - inLen \in Nat
    <3>1. data \in Seq(Byte) /\ inLen \in 0 .. Len(data)
      BY <1>1, InputAssumption DEF EmitInv, ChainInv, WindowInv
    <3> DEFINE N == Len(data)
    <3>2. N \in Nat /\ inLen \in 0 .. N
      BY <3>1
    <3> HIDE DEF N
    <3>3. N - inLen \in Nat
      BY <3>2
    <3> QED BY <3>3 DEF N
  <2> DEFINE n == IF f = "finish" THEN Len(data) - inLen ELSE 0
  <2>3. n \in Nat
    BY <2>2
  <2>4. Call(n, f)
    BY <2>1
  <2> HIDE DEF n
  <2> QED BY <1>2, <1>4, <2>3, <2>4 DEF PromiseInv
<1>7. CASE ParseFast \/ ParseSlow
  BY <1>1, <1>2, <1>3, <1>7, ParsePromise DEF Promise!Next, PromiseInv
<1>8. CASE Starve
  BY <1>1, <1>2, <1>8, StarvePromise DEF Promise!Next, PromiseInv
<1>9. CASE Drain
  BY <1>1, <1>2, <1>9, DrainPromise DEF Promise!Next, PromiseInv
<1>10. CASE UNCHANGED vars
  <2>1. s' = s /\ flush' = flush /\ inLen' = inLen
    BY <1>10 DEF vars
  <2>2. ShownNow' = ShownNow
    BY <1>1, <1>2, <2>1 DEF ShownWithin
  <2> QED BY <1>2, <1>3, <2>1, <2>2 DEF PromiseInv, Delivered, Mode
<1> QED BY <1>5, <1>6, <1>7, <1>8, <1>9, <1>10 DEF Next, Step

\* Levels 1-9 are a refinement of Compressor: every turn of the parse loops and
\* every call of deflateOnce is a step of the promise that Deflater.Deflate
\* relies on, or none (stream.go:110-138).  That every call returns is left to
\* the model checker.
THEOREM Refinement == Spec => Promise!Init /\ [][Promise!Next]_(Promise!compressor)
<1>1. Init => Promise!Init /\ PromiseInv
  BY InitPromise
<1>2. PromiseInv /\ [Next]_vars => PromiseInv' /\ [Promise!Next]_(Promise!compressor)
  BY NextPromise
<1> QED BY <1>1, <1>2, PTL DEF Spec
=============================================================================
