-------------------------------- MODULE Trees --------------------------------
(***************************************************************************)
(* The Huffman half of internal/zdeflate/trees.go: from the symbol counts  *)
(* of one block to the three trees, their codes, the coded tree header and *)
(* the choice between a stored, a fixed and a dynamic block.  Codes, and    *)
(* what a symbol is sent as, are in SymbolCodes.                           *)
(*                                                                         *)
(* t is the tree being built: nodes 0 .. elems - 1 are leaves (symbols),   *)
(* the others inner nodes; heap is the priority queue heap[1..heapLen] and *)
(* sorted the upper part heap[heapMax..], the root first.  dl is the union *)
(* of a node's parent and its length, fc its count.  Codes are a tree's    *)
(* own, as numbers whose lowest bit is sent first.                         *)
(*                                                                         *)
(* One step is one turn of buildTree's merge loop, or one whole function.  *)
(* Sums stay far below the 16 bits of a count and the 64 of a length here; *)
(* the unsigned wraparounds of optLen cancel and are plain subtractions.   *)
(***************************************************************************)
EXTENDS Integers, Sequences, FiniteSets, FiniteSetsExt, SequencesExt, SymbolCodes

CONSTANTS
  Literals,           \* literals (256); END_BLOCK is the symbol Literals
  MinMatch,           \* bytes of the shortest match (3)
  LenExtra, DistExtra,\* extra bits of each length and distance code
  StaticL, StaticD,   \* code lengths of the fixed trees
  MaxBits, MaxBlBits, \* longest codes (15 and 7)
  ZeroShort, ZeroLong, \* longest run of zeros of REPZ_3_10 and REPZ_11_138
  Tallies,            \* the blocks: counts of symbols, [l, d]
  Slack               \* bytes by which the block's input exceeds its symbols

EndBlock == Literals
LCodes   == Literals + 1 + Len(LenExtra)
DCodes   == Len(DistExtra)
BlCodes  == 19
Rep3_6     == 16
Repz3_10   == 17
Repz11_138 == 18
RepMax   == 6
BlExtra  == [c \in 0 .. BlCodes - 1 |-> CASE c = Rep3_6 -> 2 [] c = Repz3_10 -> 3
                                          [] c = Repz11_138 -> 7 [] OTHER -> 0]
BlOrder  == <<16, 17, 18, 0, 8, 7, 9, 6, 10, 5, 11, 4, 12, 3, 13, 2, 14, 1, 15>>
Guard    == -1   \* the length 0xffff behind a tree

ASSUME SizesAssumption ==
  /\ Literals \in Nat \ {0, 1} /\ MinMatch \in Nat \ {0}
  /\ MaxBits \in Nat /\ MaxBlBits \in Nat /\ MaxBits < Rep3_6
  /\ LCodes <= Pow2(MaxBits) /\ DCodes <= Pow2(MaxBits) /\ MaxBits + 4 <= Pow2(MaxBlBits)
  /\ ZeroShort \in Nat /\ ZeroLong \in Nat /\ 2 < ZeroShort /\ ZeroShort < ZeroLong
  /\ ZeroShort <= 10 /\ ZeroLong <= ZeroShort + 128   \* 3 and 7 bits hold the count of a run
  /\ Slack \subseteq Nat
\* The codes that may be forced have no extra bits (see Forced)
ASSUME DescAssumption ==
  /\ LenExtra \in Seq(Nat) /\ DistExtra \in Seq(Nat)
  /\ DCodes >= 3 /\ \A c \in 1 .. 3 : DistExtra[c] = 0
  /\ StaticL \in [0 .. LCodes - 1 -> Nat] /\ StaticD \in [0 .. DCodes - 1 -> Nat]
ASSUME TallyAssumption ==
  \A c \in Tallies :
    /\ c.l \in [0 .. LCodes - 1 -> Nat] /\ c.d \in [0 .. DCodes - 1 -> Nat]
    /\ c.l[EndBlock] = 1
    /\ MapThenSumSet(LAMBDA n : c.d[n], 0 .. DCodes - 1)
         = MapThenSumSet(LAMBDA n : c.l[n], EndBlock + 1 .. LCodes - 1)

Names == {"l", "d", "bl"}

\* staticTreeDesc: symbols, longest code, extra bits, lengths of the fixed tree
Desc == [l  |-> [elems |-> LCodes, maxLength |-> MaxBits, static |-> StaticL,
                 extra |-> [n \in 0 .. LCodes - 1 |->
                              IF n > EndBlock THEN LenExtra[n - EndBlock] ELSE 0]],
         d  |-> [elems |-> DCodes, maxLength |-> MaxBits, static |-> StaticD,
                 extra |-> [n \in 0 .. DCodes - 1 |-> DistExtra[n + 1]]],
         bl |-> [elems |-> BlCodes, maxLength |-> MaxBlBits,
                 static |-> [n \in 0 .. BlCodes - 1 |-> 0], extra |-> BlExtra]]

VARIABLES
  tally,      \* the counts tallyLit and tallyDist made: [l, d]
  name,       \* the tree being built
  stage,      \* where trFlushBlock is
  t,          \* the tree being built: [fc, dl, depth, heap, sorted, maxCode]
  built,      \* the finished trees: [len, code, maxCode] each
  blFreq,     \* counts of the bit length tree
  optLen, staticLen,
  block       \* the encoding chosen

vars == <<tally, name, stage, t, built, blFreq, optLen, staticLen, block>>

Elems  == Desc[name].elems
Leaves == 0 .. Elems - 1
Nodes  == 0 .. 2 * Elems - 1
Sum(f) == FoldFunction(+, 0, f)

-----------------------------------------------------------------------------
(* The heap                                                                *)

\* smaller: by count, then by depth
Smaller(tr, n, m) ==
  tr.fc[n] < tr.fc[m] \/ (tr.fc[n] = tr.fc[m] /\ tr.depth[n] <= tr.depth[m])

\* The smaller of the two sons of place k of heap h
Son(tr, h, k) ==
  IF 2 * k < Len(h) /\ Smaller(tr, h[2 * k + 1], h[2 * k]) THEN 2 * k + 1 ELSE 2 * k

\* pqdownheap: the node at place top of heap h finds its place there or below.
\* sunk[k] is the heap once its hole has got to place k.
SiftDown(tr, h, top) ==
  LET sunk[k \in 1 .. Len(h)] ==
        IF 2 * k > Len(h) \/ Smaller(tr, h[top], h[Son(tr, h, k)])
        THEN [h EXCEPT ![k] = h[top]]
        ELSE [sunk[Son(tr, h, k)] EXCEPT ![k] = h[Son(tr, h, k)]]
  IN  sunk[top]

PqDownHeap(tr, k) == [tr EXCEPT !.heap = SiftDown(tr, tr.heap, k)]

\* All the symbols in use, in order
InUse(fc) ==
  LET used[n \in 0 .. Elems] ==
        IF n = 0 THEN <<>>
        ELSE IF fc[n - 1] # 0 THEN Append(used[n - 1], n - 1) ELSE used[n - 1]
  IN  used[Elems]

\* "Establish sub-heaps", from the last one to the whole
SubHeaps(tr) ==
  LET half == Len(tr.heap) \div 2
      done[k \in 0 .. half] ==
        IF k = 0 THEN tr ELSE PqDownHeap(done[k - 1], half + 1 - k)
  IN  done[half]

\* "force at least two codes of non-zero frequency": the symbols added
Forced(used) ==
  CASE Len(used) >= 2 -> <<>>
    [] Len(used) = 0  -> <<0, 1>>
    [] Len(used) = 1  -> IF used[1] < 2 THEN <<used[1] + 1>> ELSE <<0>>

\* What the count of 1 of each added symbol will add to staticLen
StaticRefund(forced) == Sum([i \in DOMAIN forced |-> Desc[name].static[forced[i]]])

\* buildTree up to its merge loop
Collect ==
  LET freq   == CASE name = "l" -> tally.l [] name = "d" -> tally.d [] name = "bl" -> blFreq
      used   == InUse(freq)
      forced == Forced(used)
      heap   == used \o forced
      start  == [fc      |-> [n \in Nodes |-> IF \E i \in DOMAIN forced : forced[i] = n THEN 1
                                              ELSE IF n \in Leaves THEN freq[n] ELSE 0],
                 dl      |-> [n \in Nodes |-> 0],
                 depth   |-> [n \in Nodes |-> 0],
                 heap    |-> heap,
                 sorted  |-> <<>>,
                 maxCode |-> Max(ToSet(heap))]
  IN  /\ stage = "collect"
      /\ t' = SubHeaps(start)
      /\ optLen' = optLen - Len(forced)
      /\ staticLen' = staticLen - StaticRefund(forced)
      /\ stage' = "merge"
      /\ UNCHANGED <<tally, name, built, blFreq, block>>

\* [mutant] the new node stays at the top of the heap
Rooted(tr) == tr
\* The new node, at the top, finds its place
Sunk(tr) == PqDownHeap(tr, 1)

\* One turn of the loop: the two least nodes become sons of a new one
Merge ==
  LET n    == t.heap[1]
      rest == PqDownHeap([t EXCEPT !.heap = [Front(t.heap) EXCEPT ![1] = Last(t.heap)]], 1)
      m    == rest.heap[1]
      node == Elems + Len(t.sorted) \div 2
      tr   == [rest EXCEPT !.sorted = <<m, n>> \o @,
                           !.fc[node] = t.fc[n] + t.fc[m],
                           !.depth[node] = Max({t.depth[n], t.depth[m]}) + 1,
                           !.dl[n] = node, !.dl[m] = node,
                           !.heap[1] = node]
  IN  /\ stage = "merge" /\ Len(t.heap) >= 2
      /\ t' = Sunk(tr)
      /\ UNCHANGED <<tally, name, stage, built, blFreq, optLen, staticLen, block>>

-----------------------------------------------------------------------------
(* Code lengths and codes                                                  *)

\* genBitlen, first pass: lengths from the root down, cut at maxLength
Cut(tr) ==
  LET turn(acc, n) ==
        LET bits == acc.dl[acc.dl[n]] + 1
            over == bits > Desc[name].maxLength
        IN  [dl |-> [acc.dl EXCEPT ![n] = IF over THEN Desc[name].maxLength ELSE bits],
             overflow |-> acc.overflow + (IF over THEN 1 ELSE 0)]
      acc[i \in 1 .. Len(tr.sorted)] ==
        IF i = 1 THEN [dl |-> [tr.dl EXCEPT ![tr.sorted[1]] = 0], overflow |-> 0]
        ELSE turn(acc[i - 1], tr.sorted[i])
  IN  acc[Len(tr.sorted)]

\* Room for two cut codes: a leaf moves down, next to one of them
MakeRoom(count) ==
  LET maxLength == Desc[name].maxLength
      bits == Max({b \in 0 .. maxLength - 1 : count[b] # 0})
  IN  [b \in DOMAIN count |->
         count[b] + (CASE b = bits -> -1 [] b = bits + 1 -> 2 [] OTHER -> 0)
                  - (IF b = maxLength THEN 1 ELSE 0)]

\* [mutant] room for two codes only, however many were cut
RelieveOnce(count, overflow) == MakeRoom(count)

\* Make room until none is left over
Relieve(count, overflow) ==
  LET turns == (overflow + 1) \div 2
      room[k \in 0 .. turns] == IF k = 0 THEN count ELSE MakeRoom(room[k - 1])
  IN  room[turns]

\* The leaves in increasing order of frequency
InOrder(tr) ==
  LET last == Len(tr.sorted)
      leaves[h \in 0 .. last] ==
        IF h = 0 THEN <<>>
        ELSE IF tr.sorted[last + 1 - h] <= tr.maxCode
             THEN Append(leaves[h - 1], tr.sorted[last + 1 - h]) ELSE leaves[h - 1]
  IN  leaves[last]

\* The lengths of the counts, the longest to the least frequent
HandOut(tr, len, count) ==
  LET leaves == InOrder(tr)
      longer(b) == Sum([c \in {x \in DOMAIN count : x > b} |-> count[c]])
      place(n) == CHOOSE i \in DOMAIN leaves : leaves[i] = n
  IN  [n \in DOMAIN len |->
         IF n \in ToSet(leaves)
         THEN CHOOSE b \in DOMAIN count : longer(b) < place(n) /\ place(n) <= longer(b) + count[b]
         ELSE len[n]]

GenBitlen ==
  LET tr    == [t EXCEPT !.sorted = <<t.heap[1]>> \o @]
      cut   == Cut(tr)
      leaf  == [n \in Leaves |-> IF n \in ToSet(tr.sorted) THEN cut.dl[n] ELSE 0]
      count == LengthCount(leaf, tr.maxCode, Desc[name].maxLength)
      len   == IF cut.overflow = 0 THEN leaf
               ELSE HandOut(tr, leaf, Relieve(count, cut.overflow))
      cost(lengths) == Sum([n \in Leaves |->
                              IF leaf[n] = 0 THEN 0
                              ELSE t.fc[n] * (lengths[n] + Desc[name].extra[n])])
  IN  /\ stage = "merge" /\ Len(t.heap) = 1
      /\ t' = [tr EXCEPT !.dl = [n \in Nodes |-> IF n \in Leaves THEN len[n] ELSE cut.dl[n]]]
      /\ optLen' = optLen + cost(leaf) + (cost(len) - cost(leaf))
      /\ staticLen' = IF name = "bl" THEN staticLen ELSE staticLen + cost(Desc[name].static)
      /\ stage' = "codes"
      /\ UNCHANGED <<tally, name, built, blFreq, block>>

-----------------------------------------------------------------------------
(* The coded tree header                                                   *)

\* The limits of the run that comes next
Limits(cur, next) ==
  CASE next = 0               -> [max |-> ZeroLong, min |-> 3]
    [] next # 0 /\ cur = next -> [max |-> RepMax, min |-> 3]
    [] OTHER                  -> [max |-> RepMax + 1, min |-> 4]

\* The runs scanTree and sendTree cut a tree's lengths into: [len, count, prev, min],
\* prev the length of the run before, min the least count that is not sent in full
Runs(tree) ==
  LET len(n) == IF n > tree.maxCode THEN Guard ELSE tree.len[n]
      turn(acc, n) ==
        LET run == [len |-> len(n), count |-> acc.count + 1, prev |-> acc.prev, min |-> acc.lim.min]
        IN  IF run.count < acc.lim.max /\ len(n) = len(n + 1)
            THEN [acc EXCEPT !.count = run.count]
            ELSE [runs |-> Append(acc.runs, run), count |-> 0, prev |-> len(n),
                  lim |-> Limits(len(n), len(n + 1))]
      acc[n \in 0 .. tree.maxCode + 1] ==
        IF n = 0 THEN [runs |-> <<>>, count |-> 0, prev |-> Guard - 1,
                       lim |-> Limits(Guard - 1, len(0))]
        ELSE turn(acc[n - 1], n - 1)
  IN  acc[tree.maxCode + 1].runs

\* [mutant] the lengths of a repeated run are counted as well
ScannedTwice(freq, run) ==
  CASE run.count < run.min -> [freq EXCEPT ![run.len] = @ + run.count]
    [] run.count >= run.min /\ run.len # 0 ->
         [c \in DOMAIN freq |-> freq[c] + (IF c = run.len THEN run.count ELSE 0)
                                        + (IF c = Rep3_6 THEN 1 ELSE 0)]
    [] OTHER -> [c \in DOMAIN freq |->
                   freq[c] + (IF c = 0 THEN run.count ELSE 0)
                           + (IF c = (IF run.count <= ZeroShort THEN Repz3_10 ELSE Repz11_138)
                              THEN 1 ELSE 0)]
\* scanTree: what one run adds to the counts of the bit length tree
Scanned(freq, run) ==
  CASE run.count < run.min -> [freq EXCEPT ![run.len] = @ + run.count]
    [] run.count >= run.min /\ run.len # 0 ->
         [c \in DOMAIN freq |-> freq[c] + (IF c = run.len /\ run.len # run.prev THEN 1 ELSE 0)
                                        + (IF c = Rep3_6 THEN 1 ELSE 0)]
    [] OTHER -> [freq EXCEPT ![IF run.count <= ZeroShort THEN Repz3_10 ELSE Repz11_138] = @ + 1]

\* [mutant] the length sent in full is repeated once more
SentRunLong(run) ==
  LET plain == [code |-> run.len, value |-> 0]
  IN  CASE run.count < run.min -> [i \in 1 .. run.count |-> plain]
        [] run.count >= run.min /\ run.len # 0 ->
             (IF run.len # run.prev THEN <<plain>> ELSE <<>>)
               \o <<[code |-> Rep3_6, value |-> run.count - 3]>>
        [] OTHER -> IF run.count <= ZeroShort
                    THEN <<[code |-> Repz3_10, value |-> run.count - 3]>>
                    ELSE <<[code |-> Repz11_138, value |-> run.count - (ZeroShort + 1)]>>
\* sendTree: the codes one run is sent as, each with the value of its extra bits
SentRun(run) ==
  LET plain == [code |-> run.len, value |-> 0]
      first == run.len # run.prev
  IN  CASE run.count < run.min -> [i \in 1 .. run.count |-> plain]
        [] run.count >= run.min /\ run.len # 0 ->
             (IF first THEN <<plain>> ELSE <<>>)
               \o <<[code |-> Rep3_6, value |-> run.count - (IF first THEN 1 ELSE 0) - 3]>>
        [] OTHER -> IF run.count <= ZeroShort
                    THEN <<[code |-> Repz3_10, value |-> run.count - 3]>>
                    ELSE <<[code |-> Repz11_138, value |-> run.count - (ZeroShort + 1)]>>

ScanTree(freq, tree) ==
  LET runs == Runs(tree)
      scanned[i \in 0 .. Len(runs)] == IF i = 0 THEN freq ELSE Scanned(scanned[i - 1], runs[i])
  IN  scanned[Len(runs)]
SendTree(tree) ==
  LET runs == Runs(tree)
      sent[i \in 0 .. Len(runs)] == IF i = 0 THEN <<>> ELSE sent[i - 1] \o SentRun(runs[i])
  IN  sent[Len(runs)]

\* buildBlTree: rank of the last bit length code in use, at least 3
MaxBlIndex(len) == Max({3} \cup {i \in 3 .. BlCodes - 1 : len[BlOrder[i + 1]] # 0})

-----------------------------------------------------------------------------
(* trFlushBlock                                                            *)

Init ==
  /\ tally \in Tallies
  /\ name = "l" /\ stage = "collect"
  /\ t = <<>> /\ built = <<>> /\ block = <<>>
  /\ blFreq = [c \in 0 .. BlCodes - 1 |-> 0]
  /\ optLen = 0 /\ staticLen = 0

\* The end of buildTree; buildBlTree then counts the code lengths of both trees
FinishTree ==
  LET len  == [n \in Leaves |-> t.dl[n]]
      tree == [len |-> len, code |-> GenCodes(len, t.maxCode, Desc[name].maxLength),
               maxCode |-> t.maxCode]
  IN  /\ stage = "codes"
      /\ built' = [x \in DOMAIN built \cup {name} |-> IF x = name THEN tree ELSE built[x]]
      /\ name' = CASE name = "l" -> "d" [] OTHER -> "bl"
      /\ stage' = IF name = "bl" THEN "choose" ELSE "collect"
      /\ blFreq' = IF name = "d" THEN ScanTree(ScanTree(blFreq, built.l), tree) ELSE blFreq
      /\ optLen' = IF name = "bl" THEN optLen + 3 * (MaxBlIndex(len) + 1) + 5 + 5 + 4
                   ELSE optLen
      /\ UNCHANGED <<tally, t, staticLen, block>>

\* The least number of bytes the block's symbols stand for
InputLen == Sum([n \in 0 .. Literals - 1 |-> tally.l[n]]) + MinMatch * Sum(tally.d)

OptBytes    == (optLen + 3 + 7) \div 8
\* [mutant] rounded down
StaticBytesFloor == (staticLen + 3) \div 8
StaticBytes == (staticLen + 3 + 7) \div 8

\* sendAllTrees: the three counts, the lengths of the bit length tree, the trees
SendAllTrees ==
  [counts    |-> <<built.l.maxCode + 1, built.d.maxCode + 1, MaxBlIndex(built.bl.len) + 1>>,
   blLengths |-> [i \in 1 .. MaxBlIndex(built.bl.len) + 1 |-> built.bl.len[BlOrder[i]]],
   codes     |-> SendTree(built.l) \o SendTree(built.d)]

\* The choice.  buf # nil unless the block's first byte has left the window
Choose(storedLen, hasBuf) ==
  LET best == IF StaticBytes <= OptBytes THEN StaticBytes ELSE OptBytes
      kind == IF storedLen + 4 <= best /\ hasBuf THEN "stored"
              ELSE IF StaticBytes = best THEN "fixed" ELSE "dynamic"
  IN  /\ stage = "choose"
      /\ block' = [kind |-> kind, storedLen |-> storedLen, hasBuf |-> hasBuf,
                   header |-> IF kind = "dynamic" THEN SendAllTrees ELSE <<>>]
      /\ stage' = "done"
      /\ UNCHANGED <<tally, name, t, built, blFreq, optLen, staticLen>>

Done == stage = "done" /\ UNCHANGED vars

Next == \/ Collect \/ Merge \/ GenBitlen \/ FinishTree
        \/ \E k \in Slack, hasBuf \in BOOLEAN : Choose(InputLen + k, hasBuf)
        \/ Done
Spec == Init /\ [][Next]_vars

-----------------------------------------------------------------------------

\* Every variable stays in range; a code length is counted once at most.
TypeOK ==
  /\ name \in Names
  /\ stage \in {"collect", "merge", "codes", "choose", "done"}
  /\ DOMAIN built \subseteq Names
  /\ blFreq \in [0 .. BlCodes - 1 -> Nat] /\ Sum(blFreq) <= LCodes + DCodes
  /\ optLen \in Int /\ staticLen \in Int
  /\ stage \in {"choose", "done"} => optLen \in Nat /\ staticLen \in Nat

\* A tree ready to code with
Ready == stage = "codes"
Used  == {n \in Leaves : t.dl[n] # 0}
Pow(b) == Pow2(Desc[name].maxLength - b)

\* Before a tree is built its symbols have been counted, as codes of the real format
\* from which a decoder gets every length and distance back (trees.go:89-149).
CodesDecode == stage = "collect" => TablesDecode

\* No code, as it is sent, begins another.
PrefixFree ==
  \A x \in DOMAIN built :
    \A m, n \in {k \in 0 .. built[x].maxCode : built[x].len[k] # 0} :
      m # n /\ built[x].len[m] <= built[x].len[n]
        => built[x].code[m] # built[x].code[n] % Pow2(built[x].len[m])

\* Whatever the cut of over-long codes did, the lengths stay within the limit and make
\* a complete code, and the codes given out for them tell the symbols apart: a decoder
\* accepts the tree and reads what was meant (trees.go:343-395).
CompleteCode ==
  /\ Ready => /\ \A n \in Used : t.dl[n] <= Desc[name].maxLength
              /\ Sum([n \in Used |-> Pow(t.dl[n])]) = Pow(0)
              /\ Used = {n \in Leaves : t.fc[n] # 0}
  /\ PrefixFree

\* A more frequent symbol never has the longer code.
FrequentShort == \A m, n \in Used : t.fc[m] > t.fc[n] => t.dl[m] <= t.dl[n]

\* Each of the three trees, if its codes were not cut, costs no more bits than any other
\* choice of lengths a decoder accepts; cut or not, a more frequent symbol never has the
\* longer code (buildTree and genBitlen, trees.go:298-475).
Optimal ==
  LET cost(len) == Sum([n \in Used |-> t.fc[n] * len[n]])
      uncut == \A i \in 2 .. Len(t.sorted) :
                 t.dl[t.sorted[i]] < Desc[name].maxLength \/ t.sorted[i] \in Leaves
  IN  Ready => /\ FrequentShort
               /\ uncut =>
                    \A len \in [Used -> 1 .. Desc[name].maxLength] :
                      Sum([n \in Used |-> Pow(len[n])]) <= Pow(0) => cost(t.dl) <= cost(len)


-----------------------------------------------------------------------------
(* What a decoder makes of the header, and what the block costs            *)

\* A decoder's tree: lengths in order, zero behind them
Decode(header) ==
  LET turn(got, c) ==
        CASE c.code < Rep3_6     -> Append(got, c.code)
          [] c.code = Rep3_6     -> got \o [i \in 1 .. c.value + 3 |-> Last(got)]
          [] c.code = Repz3_10   -> got \o [i \in 1 .. c.value + 3 |-> 0]
          [] c.code = Repz11_138 -> got \o [i \in 1 .. c.value + ZeroShort + 1 |-> 0]
      lens[i \in 0 .. Len(header.codes)] ==
        IF i = 0 THEN <<>> ELSE turn(lens[i - 1], header.codes[i])
  IN  lens[Len(header.codes)]

\* A decoder of the tree header gets the lengths the block's codes were made from,
\* of the literals and of the distances, and the bit length tree it needs for it.
HeaderDecodes ==
  stage = "done" /\ block.kind = "dynamic" =>
    LET h == block.header
        lens == Decode(h)
        bl == [c \in 0 .. BlCodes - 1 |->
                 IF \E i \in DOMAIN h.blLengths : BlOrder[i] = c
                 THEN h.blLengths[CHOOSE i \in DOMAIN h.blLengths : BlOrder[i] = c] ELSE 0]
    IN  /\ Len(lens) = h.counts[1] + h.counts[2]
        /\ \A n \in 1 .. h.counts[1] : lens[n] = built.l.len[n - 1]
        /\ \A n \in 1 .. h.counts[2] : lens[h.counts[1] + n] = built.d.len[n - 1]
        /\ bl = built.bl.len
        /\ \A i \in DOMAIN h.codes :
             /\ bl[h.codes[i].code] # 0
             /\ h.codes[i].value \in 0 .. Pow2(BlExtra[h.codes[i].code]) - 1

\* The bits of the block's symbols with given code lengths, and those of a tree header
SymbolBits(len, n, freq, extra) == freq[n] * (len[n] + extra[n])
Bits(llen, dlen) ==
  Sum([n \in 0 .. LCodes - 1 |-> SymbolBits(llen, n, tally.l, Desc.l.extra)])
    + Sum([n \in 0 .. DCodes - 1 |-> SymbolBits(dlen, n, tally.d, Desc.d.extra)])
HeaderBits(h) ==
  14 + 3 * Len(h.blLengths)
     + Sum([i \in DOMAIN h.codes |-> built.bl.len[h.codes[i].code] + BlExtra[h.codes[i].code]])

\* optLen and staticLen, kept up through forced codes, cut codes and scanTree, are
\* exactly the bits sendAllTrees and compressBlock send for the symbols tallied.
LengthsExact ==
  stage \in {"choose", "done"} =>
    /\ optLen = HeaderBits(SendAllTrees) + Bits(built.l.len, built.d.len)
    /\ staticLen = Bits(StaticL, StaticD)
    /\ \A n \in 0 .. LCodes - 1 : tally.l[n] # 0 => built.l.len[n] # 0
    /\ \A n \in 0 .. DCodes - 1 : tally.d[n] # 0 => built.d.len[n] # 0

\* The choice rests on exact lengths, and no other encoding of the block takes fewer
\* bytes than the chosen one, but for the type bits and padding of a stored block.
SmallestChosen ==
  /\ LengthsExact
  /\ stage = "done" =>
       LET bytes(bits) == (3 + bits + 7) \div 8
           dynamic == bytes(HeaderBits(SendAllTrees) + Bits(built.l.len, built.d.len))
           fixed   == bytes(Bits(StaticL, StaticD))
           size == CASE block.kind = "stored"  -> block.storedLen + 4
                     [] block.kind = "fixed"   -> fixed
                     [] block.kind = "dynamic" -> dynamic
       IN  /\ size <= dynamic /\ size <= fixed
           /\ block.hasBuf => size <= block.storedLen + 4
=============================================================================
