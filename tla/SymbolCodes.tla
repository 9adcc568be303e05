---------------------------- MODULE SymbolCodes -----------------------------
(***************************************************************************)
(* From the symbol buffer to codes, with the sizes of the real format: the *)
(* tables that init() of internal/zdeflate/trees.go computes, genCodes and *)
(* the fixed trees, the two layouts of the symbol buffer (sym_split.go and *)
(* sym_lowmem.go), and the code and the extra bits that compressBlock      *)
(* sends for a match.  A match is its distance and lc, its length - 3.     *)
(***************************************************************************)
EXTENDS Integers, Sequences, FiniteSets, FiniteSetsExt

minMatch    == 3
lengthCodes == 29
dCodes      == 30
maxBits     == 15

extraLbits == [c \in 0 .. lengthCodes - 1 |->
  <<0, 0, 0, 0, 0, 0, 0, 0, 1, 1, 1, 1, 2, 2, 2, 2, 3, 3, 3, 3, 4, 4, 4, 4, 5, 5, 5, 5, 0>>[c + 1]]
extraDbits == [c \in 0 .. dCodes - 1 |->
  <<0, 0, 0, 0, 1, 1, 2, 2, 3, 3, 4, 4, 5, 5, 6, 6, 7, 7, 8, 8, 9, 9, 10, 10, 11, 11, 12, 12,
    13, 13>>[c + 1]]

-----------------------------------------------------------------------------
(* init(): every code in turn takes the next 2^extra lengths or distances  *)

\* The last code is not part of the loop, its base stays zero
baseLength == [code \in 0 .. lengthCodes - 1 |->
  IF code = lengthCodes - 1 THEN 0
  ELSE MapThenSumSet(LAMBDA c : 2 ^ extraLbits[c], 0 .. code - 1)]

\* "Length 255 (match length 258) is represented by code 285"
lengthCode == [lc \in 0 .. 255 |->
  IF lc = 255 THEN lengthCodes - 1
  ELSE CHOOSE c \in 0 .. lengthCodes - 2 :
         lc \in baseLength[c] .. baseLength[c] + 2 ^ extraLbits[c] - 1]

\* From code 16 on in units of 128
baseDist == [code \in 0 .. dCodes - 1 |->
  IF code < 16 THEN MapThenSumSet(LAMBDA c : 2 ^ extraDbits[c], 0 .. code - 1)
  ELSE 256 + 128 * MapThenSumSet(LAMBDA c : 2 ^ (extraDbits[c] - 7), 16 .. code - 1)]

\* The first 256 distances, then one entry for every 128; two entries stay unused
distCode == [i \in 0 .. 511 |->
  LET within(codes, d) == CHOOSE c \in codes : d \in baseDist[c] .. baseDist[c] + 2 ^ extraDbits[c] - 1
  IN  CASE i < 256            -> within(0 .. 15, i)
        [] i \in {256, 257}   -> 0
        [] OTHER              -> within(16 .. dCodes - 1, 128 * (i - 256))]

\* [mutant] the first table is used for one distance too many
dCodeLate(dist) == IF dist <= 256 THEN distCode[dist] ELSE distCode[256 + dist \div 128]
\* d_code: the code of a distance, less one
dCode(dist) == IF dist < 256 THEN distCode[dist] ELSE distCode[256 + dist \div 128]

-----------------------------------------------------------------------------
(* The symbol buffer, and what compressBlock makes of it                   *)

\* tallyDist in its two layouts, and the symbol each gives back
Split(distance, lc)   == [dist |-> distance % 2 ^ 16, lc |-> lc % 256]
Overlay(distance, lc) == <<distance % 256, (distance \div 256) % 256, lc % 256>>
Read(bytes)           == [dist |-> bytes[1] + 256 * bytes[2], lc |-> bytes[3]]

\* The nodes tallyDist counts
Counted(distance, lc) == <<lengthCode[lc], dCode(distance - 1)>>

\* The code, the value of its extra bits and their number; nothing if it has none
Extra(code, value, bits) ==
  [code |-> code, bits |-> bits, value |-> IF bits = 0 THEN 0 ELSE value]
SentLength(sym) ==
  LET code == lengthCode[sym.lc]
  IN  Extra(code, sym.lc - baseLength[code], extraLbits[code])
SentDistance(sym) ==
  LET code == dCode(sym.dist - 1)
  IN  Extra(code, sym.dist - 1 - baseDist[code], extraDbits[code])

-----------------------------------------------------------------------------
(* Codes                                                                   *)

\* 2 ^ n, in a form that can be reasoned about for every n
Pow2(n) == LET pow[i \in 0 .. n] == IF i = 0 THEN 1 ELSE 2 * pow[i - 1] IN pow[n]

\* biReverse: the low n bits of c, the other way round
BiReverse(c, n) ==
  LET rev[i \in 0 .. n] == IF i = 0 THEN 0 ELSE 2 * rev[i - 1] + ((c \div Pow2(i - 1)) % 2)
  IN  rev[n]

LengthCount(len, maxCode, bits) ==
  [b \in 0 .. bits |-> Cardinality({n \in 0 .. maxCode : len[n] = b /\ len[n] # 0})]

\* genCodes: codes of a length are consecutive, in the order of the symbols
GenCodes(len, maxCode, bits) ==
  LET count == LengthCount(len, maxCode, bits)
      nextCode[b \in 0 .. bits] ==
        IF b = 0 THEN 0 ELSE 2 * (nextCode[b - 1] + count[b - 1])
      rank(n) == Cardinality({m \in 0 .. n - 1 : len[m] = len[n]})
  IN  [n \in 0 .. maxCode |->
         IF len[n] = 0 THEN 0 ELSE BiReverse(nextCode[len[n]] + rank(n), len[n])]

\* The fixed trees: two symbols of the first are never used, but take part in it
staticLtree == [n \in 0 .. 287 |-> CASE n <= 143 -> 8
                                     [] n \in 144 .. 255 -> 9
                                     [] n \in 256 .. 279 -> 7
                                     [] n \in 280 .. 287 -> 8]
staticLcodes == GenCodes(staticLtree, 287, maxBits)
staticDcodes == [n \in 0 .. dCodes - 1 |-> BiReverse(n, 5)]

-----------------------------------------------------------------------------
(* RFC 1951, 3.2.5: what a decoder makes of a code and its extra bits      *)

LengthBits(c)   == IF c < 8 \/ c = 28 THEN 0 ELSE c \div 4 - 1
DecodeLength(c, x) ==
  CASE c < 8        -> 3 + c
    [] c \in 8 .. 27 -> 3 + (4 + (c % 4)) * 2 ^ LengthBits(c) + x
    [] c = 28       -> 258
DistanceBits(c) == IF c < 4 THEN 0 ELSE c \div 2 - 1
DecodeDistance(c, x) ==
  IF c < 4 THEN 1 + c ELSE 1 + (2 + (c % 2)) * 2 ^ DistanceBits(c) + x

Lcs       == 0 .. 255
Distances == 1 .. 32768

\* The codes of the fixed trees, as they are sent, lowest bit first: no code begins
\* another, and those of literals and lengths leave no bit pattern without a symbol.
StaticCodes ==
  /\ \A m, n \in 0 .. 287 :
       m # n /\ staticLtree[m] <= staticLtree[n] =>
         staticLcodes[m] # staticLcodes[n] % 2 ^ staticLtree[m]
  /\ MapThenSumSet(LAMBDA n : 2 ^ (9 - staticLtree[n]), 0 .. 287) = 2 ^ 9
  /\ \A m, n \in 0 .. dCodes - 1 : m # n => staticDcodes[m] # staticDcodes[n]

\* A decoder gets every length and every distance back from the code and the extra
\* bits that compressBlock sends for it, and that code is the one tallyDist counted,
\* with either layout of the symbol buffer (trees.go:89-119, sym_split.go:47-71); and
\* the codes of the fixed trees tell their symbols apart (trees.go:120-149).
TablesDecode ==
  /\ \A lc \in Lcs : \A sym \in {Split(1, lc), Read(Overlay(1, lc))} :
       LET l == SentLength(sym)
       IN  /\ DecodeLength(l.code, l.value) = lc + minMatch
           /\ l.bits = LengthBits(l.code) /\ l.value \in 0 .. 2 ^ l.bits - 1
           /\ l.code = Counted(1, lc)[1]
  /\ \A distance \in Distances : \A sym \in {Split(distance, 0), Read(Overlay(distance, 0))} :
       LET d == SentDistance(sym)
       IN  /\ DecodeDistance(d.code, d.value) = distance
           /\ d.bits = DistanceBits(d.code) /\ d.value \in 0 .. 2 ^ d.bits - 1
           /\ d.code = Counted(distance, 0)[2]
           /\ sym.dist # 0   \* which would be a literal
  /\ StaticCodes
=============================================================================
