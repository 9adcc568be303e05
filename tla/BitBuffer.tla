----------------------------- MODULE BitBuffer ------------------------------
(***************************************************************************)
(* The bit accumulator biBuf/biValid of internal/zdeflate/trees.go and the *)
(* pending buffer behind it.  Codes are ORed in above the valid bits; full *)
(* bytes leave at the bottom, in groups of one size from sendBits, of      *)
(* another from compressBlock, and bytewise at a flush.                    *)
(*                                                                         *)
(* A bit is its place in the stream, counted from the first bit not yet    *)
(* handed to the caller: in order, nothing lost and nothing overwritten    *)
(* means that the n-th bit of the stream is n.  Code values are not        *)
(* modelled, nor which codes a block uses; Huffman's module has those.     *)
(*                                                                         *)
(* One step is one sendBits of a block's header, one literal or one half   *)
(* of a pair in compressBlock, or one whole handler.                       *)
(***************************************************************************)
EXTENDS Integers, Sequences

CONSTANTS
  Word,        \* bits of biBuf (64)
  SendGroup,   \* bits sendBits moves at a time (48)
  BlockGroup,  \* bits compressBlock moves at a time (32)
  MaxBits,     \* longest code (15)
  LenExtra,    \* most extra bits of a length (5)
  DistExtra,   \* most extra bits of a distance (13)
  TreeSends,   \* lengths of the values sent in the header of a dynamic block
  LitBufsize,  \* capacity of the symbol buffer, plus one (16384)
  StoredSizes, \* sizes of the stored blocks, in bytes
  MaxHeader    \* bound: bits of the header of a dynamic block

Cells  == 0 .. Word - 1
SymEnd == LitBufsize - 1

\* Longest fixed codes: a length and a distance with all their extra bits
FixedLit  == 9
FixedLen  == 8 + LenExtra
FixedDist == 5 + DistExtra
FixedPair == FixedLen + FixedDist

ASSUME WordAssumption ==
  /\ {Word, SendGroup, BlockGroup, MaxBits, LenExtra, DistExtra, LitBufsize, MaxHeader} \subseteq Nat
  /\ Word % 8 = 0 /\ SendGroup % 8 = 0 /\ BlockGroup % 8 = 0
  /\ 9 <= MaxBits /\ 10 < BlockGroup /\ BlockGroup <= SendGroup
  /\ TreeSends \subseteq 1 .. MaxBits /\ StoredSizes \subseteq Nat
\* The word holds what may be added before a group leaves, and one group leaving
\* is enough: in sendBits, and in compressBlock after each half of a pair
ASSUME RoomAssumption ==
  /\ SendGroup + MaxBits <= Word + 1
  /\ BlockGroup + MaxBits + LenExtra <= Word + 1
  /\ BlockGroup + MaxBits + DistExtra <= Word + 1
  /\ SendGroup + 2 * MaxBits + LenExtra + DistExtra <= Word + BlockGroup + 1
  /\ SendGroup + MaxBits <= 2 * BlockGroup
  /\ SendGroup + 2 * MaxBits + LenExtra + DistExtra <= 3 * BlockGroup
  /\ MaxBits + LenExtra <= BlockGroup /\ MaxBits + DistExtra <= BlockGroup
\* What the overlay of symbols and output needs
ASSUME OverlayAssumption == 3 <= LitBufsize /\ FixedPair <= 31

Kinds  == {"fixed", "dynamic", "stored", "empty"}
Phases == {"between",   \* no block is open and pending is empty
           "header",    \* sendAllTrees
           "symbols",   \* the loop of compressBlock
           "distance",  \* the same, the length of a pair is sent
           "written"}   \* the block is complete, flushPending comes next

VARIABLES
  bits,    \* the accumulator and the pending buffer: [buf, valid, out]
  phase,
  kind,    \* of the block last started
  last,    \* it is the last of the stream
  sent,    \* symbols of the block read from the symbol buffer
  edge     \* history: a dynamic block started with a match on a nearly full word

vars == <<bits, phase, kind, last, sent, edge>>

-----------------------------------------------------------------------------
(* The accumulator.  A blank cell (0) is a zero bit nobody sent.           *)

Blank == [p \in Cells |-> 0]

\* biBuf |= value << biValid; biValid += n.  Cells past the word do not exist
Or(b, n) ==
  [buf   |-> [p \in Cells |-> IF p \in b.valid .. b.valid + n - 1 /\ b.buf[p] = 0
                              THEN Len(b.out) + p + 1 ELSE b.buf[p]],
   valid |-> b.valid + n,
   out   |-> b.out]

\* The low k bits move to the pending buffer
Drain(b, k) ==
  [buf   |-> [p \in Cells |-> IF p + k \in Cells THEN b.buf[p + k] ELSE 0],
   valid |-> b.valid - k,
   out   |-> b.out \o [i \in 1 .. k |-> b.buf[i - 1]]]

DrainAt(b, group) == IF b.valid >= group THEN Drain(b, group) ELSE b

\* [mutant] a full group is left for the next call
SendBitsLate(b, n) == DrainAt(Or(b, n), SendGroup + 1)
SendBits(b, n) == DrainAt(Or(b, n), SendGroup)

\* biFlush: byte by byte, all whole bytes
BiFlush(b) == Drain(b, 8 * (b.valid \div 8))

\* [mutant] an aligned stream gets a byte of padding
BiWindupPadded(b) ==
  LET whole == 8 * (b.valid \div 8 + 1)
  IN  [Drain(Or(b, whole - b.valid), whole) EXCEPT !.buf = Blank, !.valid = 0]
\* biWindup: byte by byte, the last one padded; then biBuf and biValid are zero
BiWindup(b) ==
  LET whole == 8 * ((b.valid + 7) \div 8)
  IN  [Drain(Or(b, whole - b.valid), whole) EXCEPT !.buf = Blank, !.valid = 0]

\* putShort, copy: bytes go straight to the pending buffer
PutBytes(b, n) ==
  [b EXCEPT !.out = b.out \o [i \in 1 .. 8 * n |-> Len(b.out) + i]]

\* [mutant] the bytes go out before the bits in front of them
TrStoredBlockEarly(b, n) == BiWindup(PutBytes(SendBits(b, 3), 4 + n))
\* trStoredBlock: the type, padding, LEN, NLEN and the data
TrStoredBlock(b, n) == PutBytes(BiWindup(SendBits(b, 3)), 4 + n)

\* [mutant] the pending buffer is not emptied
FlushPendingKept(b) == BiFlush(b)
\* flushPending: biFlush, then the pending buffer goes to the caller, who
\* always has room for it; the bits left are counted anew
FlushPending(b) ==
  LET d == BiFlush(b)
  IN  [buf   |-> [p \in Cells |-> IF d.buf[p] = 0 THEN 0 ELSE d.buf[p] - Len(d.out)],
       valid |-> d.valid,
       out   |-> <<>>]

-----------------------------------------------------------------------------

Init ==
  /\ bits = [buf |-> Blank, valid |-> 0, out |-> <<>>]
  /\ phase = "between" /\ kind = "empty" /\ last = FALSE /\ sent = 0
  /\ edge = FALSE

\* trInit, for a new stream, whatever the state holds
TrInit ==
  /\ phase = "between"
  /\ bits' = [buf |-> Blank, valid |-> 0, out |-> <<>>]
  /\ kind' = "empty" /\ last' = FALSE /\ sent' = 0 /\ edge' = FALSE
  /\ UNCHANGED phase

\* trStoredBlock, for a block of data or as the marker of a flush
StoredBlock(n, isLast) ==
  /\ phase = "between" /\ ~last
  /\ bits' = TrStoredBlock(bits, n)
  /\ phase' = "written" /\ kind' = "stored" /\ last' = isLast /\ sent' = 0
  /\ UNCHANGED edge

\* trAlign: an empty fixed block and a byte flush
TrAlign ==
  /\ phase = "between" /\ ~last
  /\ bits' = BiFlush(SendBits(SendBits(bits, 3), 7))
  /\ phase' = "written" /\ kind' = "empty" /\ sent' = 0
  /\ UNCHANGED <<last, edge>>

\* trFlushBlock, a fixed block
FixedBlock(isLast) ==
  /\ phase = "between" /\ ~last
  /\ bits' = SendBits(bits, 3)
  /\ phase' = "symbols" /\ kind' = "fixed" /\ last' = isLast /\ sent' = 0
  /\ UNCHANGED edge

\* trFlushBlock, a dynamic block: sendAllTrees starts with the three counts
DynamicBlock(isLast) ==
  /\ phase = "between" /\ ~last
  /\ bits' = SendBits(SendBits(SendBits(SendBits(bits, 3), 5), 5), 4)
  /\ phase' = "header" /\ kind' = "dynamic" /\ last' = isLast /\ sent' = 0
  /\ UNCHANGED edge

\* sendAllTrees, sendTree: code lengths in 3 bits, or coded, or a repeat count
SendTrees(n) ==
  /\ phase = "header"
  /\ bits.valid + Len(bits.out) + n <= MaxHeader
  /\ bits' = SendBits(bits, n)
  /\ UNCHANGED <<phase, kind, last, sent, edge>>
TreesSent ==
  /\ phase = "header" /\ phase' = "symbols"
  /\ UNCHANGED <<bits, kind, last, sent, edge>>

\* compressBlock, a literal
Literal(n) ==
  /\ phase = "symbols" /\ sent < SymEnd
  /\ n \in 1 .. (IF kind = "fixed" THEN FixedLit ELSE MaxBits)
  /\ bits' = DrainAt(Or(bits, n), BlockGroup)
  /\ sent' = sent + 1
  /\ UNCHANGED <<phase, kind, last, edge>>

\* compressBlock may be entered with up to SendGroup - 1 bits from the header of
\* a dynamic block, and drains for the first time only after the first length
Edge(n) == kind = "dynamic" /\ sent = 0 /\ bits.valid + n > Word

\* compressBlock, the code and the extra bits of a length
MatchLength(n) ==
  /\ phase = "symbols" /\ sent < SymEnd
  /\ n \in 1 .. (IF kind = "fixed" THEN FixedLen ELSE MaxBits + LenExtra)
  /\ bits' = DrainAt(Or(bits, n), BlockGroup)
  /\ edge' = (edge \/ Edge(n))
  /\ phase' = "distance" /\ sent' = sent + 1
  /\ UNCHANGED <<kind, last>>

\* compressBlock, the code and the extra bits of a distance
MatchDistance(n) ==
  /\ phase = "distance"
  /\ n \in 1 .. (IF kind = "fixed" THEN FixedDist ELSE MaxBits + DistExtra)
  /\ bits' = DrainAt(Or(bits, n), BlockGroup)
  /\ phase' = "symbols"
  /\ UNCHANGED <<kind, last, sent, edge>>

\* compressBlock, END_BLOCK; after the last block trFlushBlock winds up
EndBlock(n) ==
  /\ phase = "symbols"
  /\ n \in (IF kind = "fixed" THEN {7} ELSE 1 .. MaxBits)
  /\ bits' = IF last THEN BiWindup(Or(bits, n)) ELSE Or(bits, n)
  /\ phase' = "written"
  /\ UNCHANGED <<kind, last, sent, edge>>

\* Whoever writes a block or a marker calls flushPending next
Flush ==
  /\ phase = "written"
  /\ bits' = FlushPending(bits)
  /\ phase' = "between"
  /\ UNCHANGED <<kind, last, sent, edge>>

Next ==
  \/ TrInit
  \/ \E n \in StoredSizes, isLast \in BOOLEAN : StoredBlock(n, isLast)
  \/ TrAlign
  \/ \E isLast \in BOOLEAN : FixedBlock(isLast) \/ DynamicBlock(isLast)
  \/ \E n \in TreeSends : SendTrees(n)
  \/ TreesSent
  \/ \E n \in 1 .. MaxBits : Literal(n)
  \/ \E n \in 1 .. MaxBits + LenExtra : MatchLength(n)
  \/ \E n \in 1 .. MaxBits + DistExtra : MatchDistance(n)
  \/ \E n \in 1 .. MaxBits : EndBlock(n)
  \/ Flush
Spec == Init /\ [][Next]_vars

-----------------------------------------------------------------------------

TypeOK ==
  /\ bits \in [buf : [Cells -> Int], valid : 0 .. Word, out : Seq(Int)]
  /\ phase \in Phases /\ kind \in Kinds /\ last \in BOOLEAN
  /\ sent \in 0 .. SymEnd /\ edge \in BOOLEAN

\* The bits sent are all there, in the order they were sent: first those in the
\* pending buffer, then those in the word, and above them only zeros.
Ordered(b) ==
  /\ \A i \in 1 .. Len(b.out) : b.out[i] = i
  /\ \A p \in Cells : b.buf[p] = IF p < b.valid THEN Len(b.out) + p + 1 ELSE 0

\* "no bit is ever lost" (sym_split.go:31, sym_lowmem.go:39) fails at the edge ...
NoBitLost == Ordered(bits)

\* ... and only there: in every other stream the group drains of sendBits and
\* compressBlock neither lose, reorder nor overwrite a bit.
InOrderOffEdge == ~edge => Ordered(bits)

\* "biValid < 48 on entry" (trees.go:200): whoever calls sendBits finds that much
\* room, after compressBlock's 32-bit drains as after its own.
SendFits == phase \in {"between", "header"} => bits.valid < SendGroup

\* Between blocks at most the residue of a byte is left (biFlush), and the pending
\* buffer holds whole bytes at any time.
WholeBytes ==
  /\ phase = "between" => bits.valid < 8
  /\ Len(bits.out) % 8 = 0

\* (biValid + 42) >> 3 (deflate.go:622, 742): the header bytes deflateStored sets
\* aside for a stored block are those trStoredBlock writes, residue included.
StoredHeaderBytes ==
  [][\A n \in StoredSizes, isLast \in BOOLEAN : StoredBlock(n, isLast) =>
        /\ Len(bits'.out) = 8 * ((bits.valid + 42) \div 8 + n)
        /\ bits'.valid = 0]_vars

\* The gziplowmem layout keeps symbol i in the bytes LitBufsize + 3 * i of the
\* pending buffer: what a fixed block has written never reaches a symbol that
\* is still to be read.
OverlaySafe ==
  kind = "fixed" /\ phase \in {"symbols", "distance"}
    => Len(bits.out) <= 8 * (LitBufsize + 3 * sent)
=============================================================================
