-------------------------------- MODULE Lz77 --------------------------------
(***************************************************************************)
(* The LZ77 engine of compression levels 1-9 (internal/zdeflate/           *)
(* deflate.go): a window of 2*WSize bytes that slides, hash chains over    *)
(* it, the greedy parse of deflateFast and the lazy parse of deflateSlow,  *)
(* and the calls of deflateOnce that feed input and flush.                 *)
(*                                                                         *)
(* The variable s is the receiver "s *state" of the source, with its field *)
(* names.  One step is one call of deflateOnce (Call) or one turn of the   *)
(* parse loop it runs (Starve, ParseFast, ParseSlow, Drain); the other     *)
(* variables are what the caller of deflateOnce holds.                     *)
(*                                                                         *)
(* A byte is the set of its one bits, so that the XOR of the hash is the   *)
(* symmetric difference and a shift adds to every bit number.  A block is  *)
(* a sequence of symbols; its Huffman encoding is not part of this module. *)
(* The output buffer is always large enough (see Deflater.Deflate), so the *)
(* availOut() = 0 returns are never taken here.                            *)
(***************************************************************************)
EXTENDS Integers, Sequences, FiniteSets

CONSTANTS
  ByteBits,    \* bits of a byte (8 in the source)
  HashBits,    \* bits of a hash (15)
  MaxMatch,    \* longest match (258)
  WSize,       \* half of the window (32768)
  TooFar,      \* a shortest match farther than this is dropped (4096)
  LitBufsize,  \* capacity of the symbol buffer, plus one (16384)
  Configs,     \* rows of configurationTable, each a record
  Inputs,      \* the data streams to compress
  Slices,      \* sizes of the pieces the caller feeds
  Flushes,     \* flush modes the caller uses, a subset of FlushModes
  Stale,       \* what earlier streams left in the fields that reset does not clear
  MaxFlushes   \* bound: flush calls (other than Finish) per stream

MinMatch     == 3
WindowSize   == 2 * WSize
HashShift    == (HashBits + MinMatch - 1) \div MinMatch
MinLookahead == MaxMatch + MinMatch + 1
MaxDistance  == WSize - MinLookahead
SymEnd       == LitBufsize - 1
NilPos       == 0

Byte == SUBSET (0 .. ByteBits - 1)
Hash == SUBSET (0 .. HashBits - 1)
Zero == {}

FlushModes == {"none", "partial", "sync", "full", "finish"}
Idle       == "idle"

ASSUME SizeAssumption ==
  /\ ByteBits \in Nat /\ HashBits \in Nat /\ 0 < ByteBits /\ ByteBits <= HashBits
  /\ MaxMatch \in Nat /\ MinMatch < MaxMatch
  /\ WSize \in Nat /\ MinLookahead < WSize
  /\ TooFar \in Nat
  /\ LitBufsize \in Nat /\ 1 < LitBufsize
  /\ MaxFlushes \in Nat
ASSUME InputAssumption ==
  /\ Inputs \subseteq Seq(Byte)
  /\ Slices \subseteq Nat \ {0}
  /\ Flushes \subseteq FlushModes
  /\ Stale \subseteq [window : [0 .. WindowSize - 1 -> Byte],
                      prev : [0 .. WSize - 1 -> 0 .. WindowSize - 1],
                      matchStart : Int, prevMatch : Int]
ASSUME ConfigAssumption ==
  \A c \in Configs : /\ c.fn \in {"fast", "slow"}
                     /\ {c.goodLength, c.maxLazy, c.niceLength, c.maxChain} \subseteq Nat
                     /\ c.maxChain >= 4 /\ c.niceLength >= MinMatch

VARIABLES
  data,     \* the whole stream the caller has to compress
  cfg,      \* the row of configurationTable of its level
  s,        \* the compressor's state
  inPos,    \* bytes of data consumed by readBuf
  inLen,    \* bytes of data handed to deflateOnce so far
  flush,    \* flush argument of the running call, or Idle
  flushes   \* flush calls made

vars == <<data, cfg, s, inPos, inLen, flush, flushes>>

AvailIn == inLen - inPos

Min2(a, b) == IF a < b THEN a ELSE b

-----------------------------------------------------------------------------
(* Hashing and the chains                                                  *)

Xor(a, b) == (a \ b) \cup (b \ a)

\* updateHash: shift left, keep HashBits bits, mix in a byte
UpdateHash(h, c) == Xor({b + HashShift : b \in h} \cap (0 .. HashBits - 1), c)

\* hash3: the hash at a position from the three bytes it covers
Hash3Of(a, b, c) ==
  Xor(Xor({i + 2 * HashShift : i \in a}, {i + HashShift : i \in b}), c)
    \cap (0 .. HashBits - 1)
Hash3(win, str) == Hash3Of(win[str], win[str + 1], win[str + 2])

\* Put position str at the head of the chain of hash h
Link(t, h, str) == [t EXCEPT !.prev[str % WSize] = t.head[h], !.head[h] = str]

\* INSERT_STRING: roll the hash over the third byte, link the position
InsertString(t, str) ==
  LET h == UpdateHash(t.insH, t.window[str + MinMatch - 1])
  IN  [Link(t, h, str) EXCEPT !.insH = h]

\* insertPos for first..last in order; insH is left alone
InsertRun(t, first, last) ==
  LET run[str \in (first - 1) .. last] ==
        IF str < first THEN t ELSE Link(run[str - 1], Hash3(t.window, str), str)
  IN  IF last < first THEN t ELSE run[last]

\* [mutant] positions keep pointing at where the string was
SlideTableKept(tab) == tab

\* slideTable: positions of the upper half move down, the others become nil
SlideTable(tab) ==
  [i \in DOMAIN tab |-> IF tab[i] >= WSize THEN tab[i] - WSize ELSE NilPos]

-----------------------------------------------------------------------------
(* fillWindow                                                              *)

\* [mutant] blockStart is not moved
SlideKeepsBlockStart(t) ==
  IF t.strstart < WSize + MaxDistance THEN t
  ELSE LET kept == t.strstart + t.lookahead - WSize
           down == t.strstart - WSize
       IN  [t EXCEPT
             !.window     = [i \in DOMAIN @ |-> IF i < kept THEN @[i + WSize] ELSE @[i]],
             !.matchStart = @ - WSize, !.strstart = down, !.insert = Min2(@, down),
             !.head = SlideTable(@), !.prev = SlideTable(@), !.base = @ + WSize]

\* Move the upper half of the window down once strstart is too close to its end
Slide(t) ==
  IF t.strstart < WSize + MaxDistance THEN t
  ELSE LET kept == t.strstart + t.lookahead - WSize
           down == t.strstart - WSize
       IN  [t EXCEPT
             !.window     = [i \in DOMAIN @ |-> IF i < kept THEN @[i + WSize] ELSE @[i]],
             !.matchStart = @ - WSize,
             !.strstart   = down,
             !.blockStart = @ - WSize,
             !.insert     = Min2(@, down),
             !.head       = SlideTable(@),
             !.prev       = SlideTable(@),
             !.base       = @ + WSize]

\* [mutant] input is read over the lookahead
ReadBufOver(t, pos, n) ==
  [t EXCEPT !.window = [i \in DOMAIN @ |-> IF i \in t.strstart .. t.strstart + n - 1
                                             THEN data[pos + i - t.strstart + 1] ELSE @[i]],
            !.lookahead = @ + n]

\* readBuf: n bytes of input from pos, copied behind the lookahead
ReadBuf(t, pos, n) ==
  LET at == t.strstart + t.lookahead
  IN  [t EXCEPT !.window = [i \in DOMAIN @ |-> IF i \in at .. at + n - 1
                                                 THEN data[pos + i - at + 1] ELSE @[i]],
                !.lookahead = @ + n]

\* [mutant] the rolling hash is not restarted
RehashForgotten(t) == t

\* Restart the rolling hash, and insert the strings a flush left unfinished
Rehash(t) ==
  IF t.lookahead + t.insert < MinMatch THEN t
  ELSE LET first == t.strstart - t.insert
           count == Min2(t.insert, t.lookahead + t.insert - MinMatch + 1)
           start == [t EXCEPT !.insH = UpdateHash(t.window[first], t.window[first + 1])]
           run[k \in 0 .. count] ==
             IF k = 0 THEN start ELSE InsertString(run[k - 1], first + k - 1)
       IN  [run[count] EXCEPT !.insert = @ - count]

\* [mutant] highWater is moved, nothing but the data is covered by it
ZeroTailShort(t) == [t EXCEPT !.highWater = IF @ < t.strstart + t.lookahead
                                              THEN t.strstart + t.lookahead ELSE @]

\* Zero the never-written bytes within MaxMatch of the end of the data
ZeroTail(t) ==
  LET curr == t.strstart + t.lookahead
      from == IF t.highWater < curr THEN curr ELSE t.highWater
      upto == Min2(curr + MaxMatch, WindowSize)
  IN  IF t.highWater >= WindowSize \/ t.highWater >= upto THEN t
      ELSE [t EXCEPT !.window = [i \in DOMAIN @ |-> IF i \in from .. upto - 1
                                                      THEN Zero ELSE @[i]],
                     !.highWater = upto]

\* fillWindow, one turn of its loop; r holds the state, the input position and
\* whether the loop is done
FillTurn(r) ==
  LET slid == Slide(r.s)
      n    == Min2(inLen - r.pos, WindowSize - slid.lookahead - slid.strstart)
      full == Rehash(ReadBuf(slid, r.pos, n))
  IN  IF r.done THEN r
      ELSE IF r.pos = inLen THEN [s |-> slid, pos |-> r.pos, done |-> TRUE]
      ELSE [s |-> full, pos |-> r.pos + n,
            done |-> full.lookahead >= MinLookahead \/ r.pos + n = inLen]

\* The state fillWindow leaves and the input position it stops at.  Its loop
\* needs one turn; there is room for another here.
FillWindow(t, from) ==
  LET r == FillTurn(FillTurn([s |-> t, pos |-> from, done |-> FALSE]))
  IN  [s |-> ZeroTail(r.s), pos |-> r.pos]

-----------------------------------------------------------------------------
(* longestMatch                                                            *)

\* The bytes at positions a and b agree (loads mask their index into the window)
Same(t, a, b) == t.window[a % WindowSize] = t.window[b % WindowSize]

\* Length of the match at position m, given that its first bytes agree; offset
\* 2 is not compared
MatchLen(t, m) ==
  LET differ == {j \in MinMatch .. MaxMatch - 1 : ~Same(t, t.strstart + j, m + j)}
  IN  IF differ = {} THEN MaxMatch ELSE CHOOSE j \in differ : \A k \in differ : j <= k

\* The chain walk from hashHead: sets matchStart and matchLength
LongestMatch(t, hashHead) ==
  LET scan  == t.strstart
      limit == IF scan > MaxDistance THEN scan - MaxDistance ELSE 0
      nice  == Min2(cfg.niceLength, t.lookahead)
      chain == IF t.prevLength >= cfg.goodLength THEN cfg.maxChain \div 4 ELSE cfg.maxChain
      visit(w) ==
        LET m      == w.next
            link   == t.prev[m % WSize]
            quick  == \A j \in {0, 1, w.len - 1, w.len} : Same(t, scan + j, m + j)
            len    == MatchLen(t, m)
            better == quick /\ len > w.len
        IN  IF ~w.live THEN w
            ELSE [len  |-> IF better THEN len ELSE w.len,
                  at   |-> IF better THEN m ELSE w.at,
                  next |-> link,
                  live |-> link > limit /\ ~(better /\ len >= nice)]
      walk[k \in 0 .. chain] ==
        IF k = 0 THEN [len |-> t.prevLength, at |-> t.matchStart, next |-> hashHead, live |-> TRUE]
        ELSE visit(walk[k - 1])
  IN  [t EXCEPT !.matchStart  = walk[chain].at,
                !.matchLength = Min2(walk[chain].len, t.lookahead)]

-----------------------------------------------------------------------------
(* Symbols and blocks                                                      *)

Literal(b)       == <<b>>
Match(dist, len) == <<dist, len>>

\* flushBlockOnly: the symbols, and the window slice a stored block would copy
\* (none once the slide has taken the start of the block out of the window)
FlushBlock(t, last) ==
  LET copy == IF t.blockStart >= 0
                THEN {[i \in 1 .. t.strstart - t.blockStart |-> t.window[t.blockStart + i - 1]]}
                ELSE {}
      block == [syms |-> t.syms, copy |-> copy, mark |-> IF last THEN "last" ELSE "none"]
  IN  [t EXCEPT !.out = Append(@, block), !.syms = <<>>, !.blockStart = t.strstart]

\* tallyLit, tallyDist and the flush of a full symbol buffer
Tally(t, sym)  == [t EXCEPT !.syms = Append(@, sym)]
FlushIfFull(t) == IF Len(t.syms) = SymEnd THEN FlushBlock(t, FALSE) ELSE t

-----------------------------------------------------------------------------
(* One turn of the parse loops, the window being filled                    *)

\* Head of the chain of the string at strstart, before it is inserted
HashHead(t) ==
  IF t.lookahead >= MinMatch
    THEN t.head[UpdateHash(t.insH, t.window[t.strstart + MinMatch - 1])] ELSE NilPos
Inserted(t) == IF t.lookahead >= MinMatch THEN InsertString(t, t.strstart) ELSE t
\* [mutant] a chain head that is too far away is followed
InReachAny(t, hashHead) == hashHead # NilPos
InReach(t, hashHead) == hashHead # NilPos /\ t.strstart - hashHead <= MaxDistance

\* deflateFast, a match: insert the strings it covers only if it is short
TakeMatch(t) ==
  LET len   == t.matchLength
      left  == t.lookahead - len
      last  == t.strstart + len - 1
      told  == Tally(t, Match(t.strstart - t.matchStart, len))
      known == IF len <= cfg.maxLazy /\ left >= MinMatch
                 THEN [InsertRun(told, t.strstart + 1, last) EXCEPT !.insH = Hash3(t.window, last)]
                 ELSE [told EXCEPT !.insH = UpdateHash(t.window[last + 1], t.window[last + 2])]
  IN  FlushIfFull([known EXCEPT !.lookahead = left, !.strstart = last + 1, !.matchLength = 0])

FastTurn(t) ==
  LET head == HashHead(t)
      ins  == Inserted(t)
      m    == IF InReach(ins, head) THEN LongestMatch(ins, head) ELSE ins
      lit  == Tally(m, Literal(m.window[m.strstart]))
  IN  IF m.matchLength >= MinMatch THEN TakeMatch(m)
      ELSE FlushIfFull([lit EXCEPT !.lookahead = @ - 1, !.strstart = @ + 1])

\* deflateSlow, a match found one position back that is not beaten
TakePrevious(t) ==
  LET maxInsert == t.strstart + t.lookahead - MinMatch
      end   == t.strstart + t.prevLength - 2
      first == t.strstart + 1
      last  == Min2(end, maxInsert)
      told  == Tally(t, Match(t.strstart - 1 - t.prevMatch, t.prevLength))
      known == IF last < first THEN told
               ELSE [InsertRun(told, first, last) EXCEPT !.insH = Hash3(t.window, last)]
  IN  FlushIfFull([known EXCEPT !.lookahead = @ - (t.prevLength - 1), !.strstart = end + 1,
                                !.prevLength = 0, !.matchAvailable = FALSE,
                                !.matchLength = MinMatch - 1])

\* [mutant] the literal is not taken off the lookahead
TakeLiteralFree(t) ==
  LET lit == FlushIfFull(Tally(t, Literal(t.window[t.strstart - 1])))
  IN  [lit EXCEPT !.strstart = @ + 1]

\* deflateSlow, the literal one position back
TakeLiteral(t) ==
  LET lit == FlushIfFull(Tally(t, Literal(t.window[t.strstart - 1])))
  IN  [lit EXCEPT !.lookahead = @ - 1, !.strstart = @ + 1]

\* A shortest match that is too distant is not worthwhile
DropFar(t) ==
  IF t.matchLength = MinMatch /\ t.strstart - t.matchStart > TooFar
    THEN [t EXCEPT !.matchLength = MinMatch - 1] ELSE t

SlowTurn(t) ==
  LET head == HashHead(t)
      ins  == Inserted(t)
      p    == [ins EXCEPT !.prevLength = ins.matchLength, !.prevMatch = ins.matchStart,
                          !.matchLength = MinMatch - 1]
      m    == IF InReach(p, head) /\ p.prevLength < cfg.maxLazy
                THEN DropFar(LongestMatch(p, head)) ELSE p
  IN  IF m.prevLength >= MinMatch /\ m.matchLength <= m.prevLength THEN TakePrevious(m)
      ELSE IF m.matchAvailable THEN TakeLiteral(m)
      ELSE [m EXCEPT !.matchAvailable = TRUE, !.lookahead = @ - 1, !.strstart = @ + 1]

\* The end of both loops: the pending literal, what to insert later, and the
\* last block of the call
EndOfInput(t) ==
  LET lit  == IF t.matchAvailable
                THEN [Tally(t, Literal(t.window[t.strstart - 1])) EXCEPT !.matchAvailable = FALSE]
                ELSE t
      kept == [lit EXCEPT !.insert = Min2(t.strstart, MinMatch - 1)]
  IN  IF flush = "finish" THEN [FlushBlock(kept, TRUE) EXCEPT !.status = "finish"]
      ELSE IF kept.syms # <<>> THEN FlushBlock(kept, FALSE) ELSE kept

\* [mutant] a full flush keeps the hash chains
MarkedOnly(t) == [t EXCEPT !.out = Append(@, [syms |-> <<>>, copy |-> {}, mark |-> flush])]

\* What deflateOnce adds after a flushed block: an empty static block (partial)
\* or an empty stored block, and the history forgotten by a full flush
Marked(t) ==
  LET marker == [syms |-> <<>>, copy |-> {}, mark |-> flush]
      told   == [t EXCEPT !.out = Append(@, marker)]
  IN  IF flush # "full" THEN told
      ELSE [told EXCEPT !.head = [h \in DOMAIN @ |-> NilPos], !.base = @ + t.strstart,
                        !.strstart = 0, !.blockStart = 0, !.insert = 0]

-----------------------------------------------------------------------------
(* deflateOnce                                                             *)

\* reset, on a pooled state: what it does not clear is left from an earlier stream
Reset(left) ==
  [window |-> left.window, prev |-> left.prev,
   matchStart |-> left.matchStart, prevMatch |-> left.prevMatch,
   head   |-> [h \in Hash |-> NilPos],
   insH |-> Zero, strstart |-> 0, blockStart |-> 0, lookahead |-> 0, insert |-> 0,
   matchLength |-> MinMatch - 1, prevLength |-> MinMatch - 1, matchAvailable |-> FALSE,
   highWater |-> 0,
   syms |-> <<>>, status |-> "busy", lastFlush |-> "unused",
   out |-> <<>>,   \* the blocks flushed so far
   base |-> 0]     \* history: window[i] is byte base + i of the stream

Init ==
  /\ data \in Inputs /\ cfg \in Configs
  /\ \E left \in Stale : s = Reset(left)
  /\ inPos = 0 /\ inLen = 0 /\ flush = Idle /\ flushes = 0

Rank(f) == CASE f = "unused" -> -4 [] f = "none" -> 0 [] f = "partial" -> 2
             [] f = "sync" -> 4 [] f = "full" -> 6 [] f = "finish" -> 8

\* [mutant] any flush without new input is taken for a repeated one
RepeatedIfEmpty(n, f) == n = 0 /\ f # "finish"
\* A repeated or weaker flush without new input
Repeated(n, f) == n = 0 /\ Rank(f) <= Rank(s.lastFlush) /\ f # "finish"

\* The entry of deflateOnce(f) with n more bytes of input: the parse loop runs
\* (flush = f) or there is nothing to do.  Deflater.Deflate refuses input after
\* Finish.
Call(n, f) ==
  /\ flush = Idle
  /\ inLen + n <= Len(data)
  /\ s.status = "finish" => n = 0 /\ f = "finish"
  /\ f = "finish" => inLen + n = Len(data)
  /\ f \in {"partial", "sync", "full"} => flushes < MaxFlushes
  /\ LET work == n # 0 \/ s.lookahead # 0 \/ (f # "none" /\ s.status # "finish")
     IN  flush' = IF ~Repeated(n, f) /\ work THEN f ELSE Idle
  /\ inLen' = inLen + n
  /\ s' = [s EXCEPT !.lastFlush = f]
  /\ flushes' = IF f \in {"partial", "sync", "full"} THEN flushes + 1 ELSE flushes
  /\ UNCHANGED <<data, cfg, inPos>>

\* [mutant] the window is refilled only once it is empty
FilledIfEmpty == IF s.lookahead = 0 THEN FillWindow(s, inPos) ELSE [s |-> s, pos |-> inPos]

\* The top of a turn: refill when the lookahead is short
Filled == IF s.lookahead < MinLookahead THEN FillWindow(s, inPos) ELSE [s |-> s, pos |-> inPos]
\* [mutants] a flush is held back like more input; only a string to hash is awaited
StarvingFlush(t) == t.lookahead < MinLookahead /\ flush # "finish"
StarvingLate(t)  == t.lookahead < MinMatch /\ flush = "none"
Starving(t) == t.lookahead < MinLookahead /\ flush = "none"

\* A turn ends in state t; the call goes on iff f is its flush
Turn(t, f) ==
  /\ s' = t /\ inPos' = Filled.pos /\ flush' = f
  /\ UNCHANGED <<data, cfg, inLen, flushes>>

\* needMore: no flush, so the lookahead is kept for the next call
Starve == flush # Idle /\ Starving(Filled.s) /\ Turn(Filled.s, Idle)

ParseFast ==
  /\ flush # Idle /\ cfg.fn = "fast"
  /\ ~Starving(Filled.s) /\ Filled.s.lookahead > 0
  /\ Turn(FastTurn(Filled.s), flush)

ParseSlow ==
  /\ flush # Idle /\ cfg.fn = "slow"
  /\ ~Starving(Filled.s) /\ Filled.s.lookahead > 0
  /\ Turn(SlowTurn(Filled.s), flush)

\* blockDone or finishDone
Drain ==
  /\ flush # Idle
  /\ ~Starving(Filled.s) /\ Filled.s.lookahead = 0
  /\ LET t == EndOfInput(Filled.s)
     IN  Turn(IF flush = "finish" THEN t ELSE Marked(t), Idle)

Step == Starve \/ ParseFast \/ ParseSlow \/ Drain
Feed == \E n \in Slices, f \in Flushes \ {"finish"} : Call(n, f)
Ask  == \E f \in Flushes : Call(IF f = "finish" THEN Len(data) - inLen ELSE 0, f)
Next == Feed \/ Ask \/ Step

\* deflateOnce runs to its return once called; nobody has to call it.  This is
\* WF_vars(Step) with ENABLED <<Step>>_vars written out: a turn is possible
\* whenever a call is running (no deadlock) and changes the state (LoopAdvances).
Fairness == []<>(flush = Idle) \/ []<><<Step>>_vars

Spec == Init /\ [][Next]_vars /\ Fairness

-----------------------------------------------------------------------------
(* Properties                                                              *)

Symbols == (UNION {{s.out[k].syms[j] : j \in DOMAIN s.out[k].syms} : k \in DOMAIN s.out})
             \cup {s.syms[j] : j \in DOMAIN s.syms}

\* Every field stays within its range, match symbols within the deflate format.
TypeOK ==
  /\ data \in Inputs /\ cfg \in Configs
  /\ inPos \in 0 .. inLen /\ inLen \in 0 .. Len(data)
  /\ flush \in Flushes \cup {Idle} /\ flushes \in 0 .. MaxFlushes
  /\ s.window \in [0 .. WindowSize - 1 -> Byte]
  /\ s.prev \in [0 .. WSize - 1 -> 0 .. WindowSize - 1]
  /\ s.head \in [Hash -> 0 .. WindowSize - 1]
  /\ s.insH \in Hash /\ s.matchAvailable \in BOOLEAN
  /\ s.strstart >= 0 /\ s.lookahead >= 0 /\ s.strstart + s.lookahead <= WindowSize
  /\ s.blockStart <= s.strstart /\ s.insert \in 0 .. MinMatch - 1
  /\ s.matchLength \in 0 .. MaxMatch /\ s.prevLength \in 0 .. MaxMatch
  /\ s.highWater \in 0 .. WindowSize /\ Len(s.syms) <= SymEnd
  /\ \A sym \in Symbols : \/ Len(sym) = 1 /\ sym[1] \in Byte
                          \/ Len(sym) = 2 /\ sym[1] \in 1 .. MaxDistance
                                          /\ sym[2] \in MinMatch .. MaxMatch

\* What a decoder that keeps a window of WSize bytes makes of a sequence of
\* symbols; a symbol it cannot decode adds nothing.
Inflate(syms) ==
  LET copy(acc, d, len) ==
        LET more[k \in 0 .. len] ==
              IF k = 0 THEN acc ELSE Append(more[k - 1], more[k - 1][Len(acc) + k - d])
        IN  more[len]
      decode[k \in 0 .. Len(syms)] ==
        LET acc == decode[k - 1] sym == syms[k]
        IN  IF k = 0 THEN <<>>
            ELSE IF Len(sym) = 1 THEN Append(acc, sym[1])
            ELSE IF sym[1] \in 1 .. Min2(Len(acc), WSize) THEN copy(acc, sym[1], sym[2])
            ELSE acc
  IN  decode[Len(syms)]

\* The symbols of blocks from .. upto of the output
BlockSyms(from, upto) ==
  LET syms[k \in (from - 1) .. upto] ==
        IF k < from THEN <<>> ELSE syms[k - 1] \o s.out[k].syms
  IN  syms[upto]
Flushed == BlockSyms(1, Len(s.out))

\* Number of bytes the first k blocks stand for
Shown(k) ==
  LET syms == BlockSyms(1, k)
      sum[j \in 0 .. Len(syms)] ==
        IF j = 0 THEN 0 ELSE sum[j - 1] + IF Len(syms[j]) = 1 THEN 1 ELSE syms[j][2]
  IN  sum[Len(syms)]

Position == s.base + s.strstart
Parsed   == IF s.matchAvailable THEN Position - 1 ELSE Position
Prefix(n) == SubSeq(data, 1, n)

\* Decoding what has been tallied gives back the input parsed so far: no slide,
\* stale chain link, hash collision, lazy decision or block boundary loses,
\* repeats or alters a byte (deflateFast, deflateSlow, fillWindow).
RoundTrip == Inflate(Flushed \o s.syms) = Prefix(Parsed)

\* The window holds the stream: below the end of the lookahead, byte i of the
\* window is byte base + i of the input, across slides and full flushes, and
\* nothing consumed by readBuf is missing from the lookahead.
WindowMirrorsInput ==
  /\ Position + s.lookahead = inPos
  /\ \A i \in 0 .. s.strstart + s.lookahead - 1 : s.window[i] = data[s.base + i + 1]

\* Every chain longestMatch may walk from a live head goes strictly down, and
\* visits only strings of the chain's own hash; this is what "offset 2 is
\* implied by hash equality" (deflate.go:545-547) rests on.
Limit == IF s.strstart > MaxDistance THEN s.strstart - MaxDistance ELSE 0
ChainsSound ==
  \A h \in Hash :
    LET walk[k \in 0 .. MaxDistance] ==
          IF k = 0 THEN s.head[h]
          ELSE IF walk[k - 1] <= Limit THEN NilPos ELSE s.prev[walk[k - 1] % WSize]
    IN  \A k \in 0 .. MaxDistance :
          walk[k] > Limit => /\ walk[k] < s.strstart + MaxMatch
                             /\ Hash3(s.window, walk[k]) = h
                             /\ k > 0 => walk[k] < walk[k - 1]

\* "strstart never exceeds windowSize-minLookahead" when longestMatch runs, and
\* the bytes it reads past the input have been zeroed (deflate.go:551-555): a
\* turn of the parse that starts from the filled window reads initialised bytes.
ProbesInWindow ==
  flush # Idle /\ Filled.s.lookahead > 0 /\ ~Starving(Filled.s) =>
    LET t == Filled.s
    IN  /\ t.strstart <= WindowSize - MinLookahead
        /\ \/ t.strstart + MaxMatch <= t.strstart + t.lookahead
           \/ t.strstart + MaxMatch <= t.highWater

\* A block whose start is still in the window would be stored as exactly the
\* bytes its symbols decode to (flushBlockOnly, trFlushBlock).
StoredCopyFaithful ==
  \A k \in DOMAIN s.out :
    \A copy \in s.out[k].copy : copy = SubSeq(data, Shown(k - 1) + 1, Shown(k))

\* A full flush forgets history (deflate.go:221-230): what follows it can be
\* decoded without what precedes it.
FullFlushRestarts ==
  \A k \in DOMAIN s.out :
    s.out[k].mark = "full" =>
      Inflate(BlockSyms(k + 1, Len(s.out)) \o s.syms) = SubSeq(data, Shown(k) + 1, Parsed)

\* The parse loops of deflateFast and deflateSlow terminate: every turn leaves
\* less lookahead, and the read position of the window moves on by as much.
LoopAdvances ==
  flush # Idle /\ ~Starving(Filled.s) /\ Filled.s.lookahead > 0 =>
    LET t     == Filled.s
        after == IF cfg.fn = "fast" THEN FastTurn(t) ELSE SlowTurn(t)
    IN  /\ after.lookahead \in 0 .. t.lookahead - 1
        /\ after.strstart + after.lookahead = t.strstart + t.lookahead

\* Deflater.Deflate's "internal error: no progress" is unreachable, and one call
\* of deflateOnce suffices: it returns only when it has consumed all its input.
ConsumesAll == flush = Idle => AvailIn = 0

\* The stream keeps the promise of Compressor: a flush returns, or is skipped as a
\* repeated one (deflate.go:198-200), only when all its input is decodable, Finish
\* is final, and every call returns.
Promise == INSTANCE Compressor WITH
             Done <- "done", fed <- inLen, shown <- Shown(Len(s.out)), last <- s.lastFlush,
             mode <- IF flush = Idle /\ s.status = "finish" THEN "done" ELSE flush
ImplementsCompressor == Promise!Spec

=============================================================================
