------------------------------- MODULE Stored -------------------------------
(***************************************************************************)
(* Compression level 0 (internal/zdeflate/deflate.go, deflateStored): input *)
(* goes to the output as stored blocks, straight from the caller's buffer  *)
(* where a block is worth it, through the window otherwise.                *)
(*                                                                         *)
(* The data is never looked at, so a byte is its place in the stream:      *)
(* byte k of the input is the number k.  A step is the entry of            *)
(* deflateOnce (Call), one block of the direct copy (CopyBlock), or the    *)
(* rest of deflateStored up to the return of deflateOnce (ReturnFinished,  *)
(* ReturnFlushed, ReturnHolding).  What a block costs is counted in bytes  *)
(* against the output buffer that Deflate or compressInto provides.        *)
(***************************************************************************)
EXTENDS Integers, Sequences

CONSTANTS
  WSize,           \* half of the window (32768)
  MaxStored,       \* longest stored block (65535)
  PendingBufSize,  \* size of pendingBuf (65536)
  Slack,           \* what Deflate adds to the bound (64)
  Slices,          \* sizes of the pieces the caller feeds
  Flushes,         \* flush modes the caller uses
  MaxInput,        \* bound: bytes per stream
  MaxFlushes       \* bound: flush calls (other than finish) per stream

WindowSize == 2 * WSize
FlushModes == {"none", "partial", "sync", "full", "finish"}
Idle       == "idle"

ASSUME StoredAssumption ==
  /\ WSize \in Nat /\ WSize >= 8 /\ WSize % 8 = 0
  /\ MaxStored \in Nat /\ MaxStored >= WSize
  /\ PendingBufSize \in Nat /\ PendingBufSize >= WSize + 6
  /\ Slack \in Nat /\ MaxInput \in Nat /\ MaxFlushes \in Nat
  /\ Slices \subseteq Nat \ {0} /\ Flushes \subseteq FlushModes

VARIABLES
  s,        \* the compressor's state
  sent,     \* bytes put into stored blocks so far, in order
  lasts,    \* places in sent where a block marked last ended
  inPos,    \* bytes consumed by readBuf
  inLen,    \* bytes handed to deflateOnce
  outPos,   \* bytes written to the output buffer of this call
  room,     \* size of that buffer
  oneShot,  \* compressInto runs the stream, instead of a Deflater
  call,     \* the running call: its flush or Idle, inPos at its entry, last
  flushes   \* flush calls made

vars == <<s, sent, lasts, inPos, inLen, outPos, room, oneShot, call, flushes>>

Min2(a, b) == IF a < b THEN a ELSE b
Max2(a, b) == IF a < b THEN b ELSE a

AvailIn  == inLen - inPos
AvailOut == room - outPos
Running  == call.flush # Idle

\* Bound, its shifts by 12, 14 and 25 taken relative to the window
Bound(n) == n + n \div (WSize \div 8) + n \div (WSize \div 2) + n \div (1024 * WSize) + 13 - 6

\* [mutant] what the window may still hold is not counted
RoomForPiece(n) == IF oneShot THEN Bound(n) ELSE Bound(n) + Slack
\* Size of the output buffer for n more bytes
Room(n) == IF oneShot THEN Bound(n) ELSE Bound(n + 2 * WSize) + Slack

-----------------------------------------------------------------------------
(* The window                                                              *)

\* [mutant] the bytes stay where they are
SlideDownUncopied(t) ==
  [t EXCEPT !.strstart = @ - WSize, !.blockStart = @ - WSize,
            !.matches = Min2(@ + 1, 2), !.insert = Min2(@, t.strstart - WSize)]

\* The upper half of the window, as far as it is used, moves down
SlideDown(t) ==
  LET down == t.strstart - WSize
  IN  [t EXCEPT !.window     = [i \in DOMAIN @ |-> IF i < down THEN @[i + WSize] ELSE @[i]],
                !.strstart   = down,
                !.blockStart = @ - WSize,
                !.matches    = Min2(@ + 1, 2),
                !.insert     = Min2(@, down)]

\* n bytes of the input from pos are copied behind strstart
Extend(t, pos, n) ==
  LET end == t.strstart + n
  IN  [t EXCEPT !.window    = [i \in DOMAIN @ |-> IF i \in t.strstart .. end - 1
                                                    THEN pos + i - t.strstart + 1 ELSE @[i]],
                !.strstart  = end,
                !.insert    = @ + Min2(n, WSize - @),
                !.highWater = Max2(@, end)]

\* After the direct copy: the window takes over the last bytes that were copied
Settled(t) ==
  LET used  == inPos - call.from
      slid  == IF WindowSize - t.strstart <= used THEN SlideDown(t) ELSE t
      moved == Extend(slid, inPos - used, used)
  IN  IF used = 0 THEN [t EXCEPT !.highWater = Max2(@, t.strstart)]
      ELSE IF used >= WSize
        THEN [t EXCEPT !.window = [i \in DOMAIN @ |-> IF i < WSize THEN inPos - WSize + i + 1
                                                                   ELSE @[i]],
                       !.strstart = WSize, !.blockStart = WSize, !.insert = WSize,
                       !.matches = 2, !.highWater = Max2(@, WSize)]
        ELSE [moved EXCEPT !.blockStart = moved.strstart]

\* [mutant] the window never slides for more input
SlidForInputNever(t) == t
\* The window slides if the rest of the input does not fit and no unsent byte is lost
SlidForInput(t) ==
  IF AvailIn > WindowSize - t.strstart /\ t.blockStart >= WSize THEN SlideDown(t) ELSE t

\* The bytes of the window from i on
Slice(t, i, n) == [k \in 1 .. n |-> t.window[i + k - 1]]

-----------------------------------------------------------------------------
(* Blocks                                                                  *)

\* Bytes of a stored block's header: 3 bits, padding, two lengths
Header(t) == (t.biValid + 42) \div 8

\* flushPending, for bytes more pending bytes: as much as the output buffer takes
Flushed(t, bytes, at) ==
  LET n == Min2(t.pending + bytes, room - at)
  IN  [s |-> [t EXCEPT !.pending = @ + bytes - n], at |-> at + n]

Left == s.strstart - s.blockStart
\* Length of the next block that can be copied directly
Length == Min2(Min2(MaxStored, Left + AvailIn), AvailOut - Header(s))
\* [mutant] the window does not bound it
MinBlockWide == PendingBufSize - 5
\* Smallest block worth emitting when not flushing
MinBlock == Min2(PendingBufSize - 5, WSize)

\* [mutant] any block of a finishing call is the last
LastAlways == call.flush = "finish"
Last == call.flush = "finish" /\ Length = Left + AvailIn

\* Too small, or a flush that this block does not complete
NotWorth ==
  /\ Length < MinBlock
  /\ \/ Length = 0 /\ call.flush # "finish"
     \/ call.flush = "none"
     \/ Length # Left + AvailIn

Copying == ~call.last /\ AvailOut >= Header(s) /\ ~NotWorth

\* One turn of the direct copy: header, what the window holds, the rest from
\* the input
CopyBlock ==
  /\ Running /\ Copying
  /\ LET kept == Min2(Left, Length)
         n    == Length - kept
         f    == Flushed(s, Header(s), outPos)
     IN  /\ sent' = sent \o Slice(s, s.blockStart, kept) \o [k \in 1 .. n |-> inPos + k]
         /\ s' = [f.s EXCEPT !.blockStart = @ + kept, !.biValid = 0]
         /\ inPos' = inPos + n
         /\ outPos' = f.at + Length
         /\ call' = [call EXCEPT !.last = Last]
         /\ lasts' = IF Last THEN Append(lasts, Len(sent) + Length) ELSE lasts
  /\ UNCHANGED <<inLen, room, oneShot, flushes>>

\* finishDone after the last block
ReturnFinished ==
  /\ Running /\ ~Copying /\ call.last
  /\ s' = [Settled(s) EXCEPT !.status = "finish"]
  /\ call' = [call EXCEPT !.flush = Idle]
  /\ UNCHANGED <<sent, lasts, inPos, inLen, outPos, room, oneShot, flushes>>

\* The marker of a flush, and the history forgotten by a full flush
Marked(t) ==
  LET bits == t.biValid + 10
      f == IF call.flush = "partial" THEN Flushed(t, bits \div 8, outPos)
           ELSE Flushed(t, Header(t), outPos)
      u == [f.s EXCEPT !.biValid = IF call.flush = "partial" THEN bits % 8 ELSE 0]
  IN  [s  |-> IF call.flush = "full"
                THEN [u EXCEPT !.strstart = 0, !.blockStart = 0, !.insert = 0] ELSE u,
       at |-> f.at]

Drained(t) == AvailIn = 0 /\ t.strstart = t.blockStart

\* blockDone: the flush is complete once its marker is out
ReturnFlushed ==
  /\ Running /\ ~Copying /\ ~call.last
  /\ call.flush \notin {"none", "finish"} /\ Drained(Settled(s))
  /\ LET m == Marked(Settled(s)) IN s' = m.s /\ outPos' = m.at
  /\ call' = [call EXCEPT !.flush = Idle]
  /\ UNCHANGED <<sent, lasts, inPos, inLen, room, oneShot, flushes>>

\* needMore: the rest of the input stays in the window.  If the output buffer
\* was too small for the direct copy, a block goes through the pending buffer.
ReturnHolding ==
  /\ Running /\ ~Copying /\ ~call.last
  /\ call.flush \in {"none", "finish"} \/ ~Drained(Settled(s))
  /\ LET slid == SlidForInput(Settled(s))
         n    == Min2(AvailIn, WindowSize - slid.strstart)
         t    == Extend(slid, inPos, n)
         have == Min2(PendingBufSize - Header(t), MaxStored)
         left == t.strstart - t.blockStart
         ends == call.flush # "none" /\ AvailIn = n /\ left <= have
                   /\ (left > 0 \/ call.flush = "finish")
         len  == Min2(left, have)
         last == call.flush = "finish" /\ AvailIn = n /\ len = left
         f    == Flushed(t, Header(t) + len, outPos)
     IN  /\ inPos' = inPos + n
         /\ IF left >= Min2(have, WSize) \/ ends
              THEN /\ sent' = sent \o Slice(t, t.blockStart, len)
                   /\ s' = [f.s EXCEPT !.blockStart = @ + len, !.biValid = 0,
                                       !.status = IF last THEN "finish" ELSE @]
                   /\ lasts' = IF last THEN Append(lasts, Len(sent) + len) ELSE lasts
                   /\ outPos' = f.at
              ELSE s' = t /\ UNCHANGED <<sent, lasts, outPos>>
  /\ call' = [call EXCEPT !.flush = Idle]
  /\ UNCHANGED <<inLen, room, oneShot, flushes>>

-----------------------------------------------------------------------------
(* deflateOnce                                                             *)

\* reset, on a pooled state: the window holds bytes of an earlier stream (0)
Init ==
  /\ s = [window |-> [i \in 0 .. WindowSize - 1 |-> 0], strstart |-> 0, blockStart |-> 0,
          insert |-> 0, matches |-> 0, highWater |-> 0, pending |-> 0, biValid |-> 0,
          status |-> "busy", lastFlush |-> "unused"]
  /\ sent = <<>> /\ lasts = <<>> /\ inPos = 0 /\ inLen = 0 /\ outPos = 0 /\ room = 0
  /\ oneShot \in BOOLEAN
  /\ call = [flush |-> Idle, from |-> 0, last |-> FALSE]
  /\ flushes = 0

Rank(f) == CASE f = "unused" -> -4 [] f = "none" -> 0 [] f = "partial" -> 2
             [] f = "sync" -> 4 [] f = "full" -> 6 [] f = "finish" -> 8

\* The entry of deflateOnce(f) with n more bytes.  compressInto makes one call;
\* Deflate refuses input after finish.
Call(n, f) ==
  /\ ~Running
  /\ inLen + n <= MaxInput
  /\ oneShot => f = "finish" /\ s.status = "busy"
  /\ s.status = "finish" => n = 0 /\ f = "finish"
  /\ f \in {"partial", "sync", "full"} => flushes < MaxFlushes
  /\ LET repeated == n = 0 /\ Rank(f) <= Rank(s.lastFlush) /\ f # "finish"
         work     == n # 0 \/ (f # "none" /\ s.status # "finish")
     IN  call' = [flush |-> IF ~repeated /\ work THEN f ELSE Idle, from |-> inPos, last |-> FALSE]
  /\ inLen' = inLen + n /\ room' = Room(n) /\ outPos' = 0
  /\ s' = [s EXCEPT !.lastFlush = f]
  /\ flushes' = IF f \in {"partial", "sync", "full"} THEN flushes + 1 ELSE flushes
  /\ UNCHANGED <<sent, lasts, inPos, oneShot>>

Feed   == \E n \in Slices \cup {0}, f \in Flushes : Call(n, f)
Return == ReturnFinished \/ ReturnFlushed \/ ReturnHolding
Step   == CopyBlock \/ Return
Next   == Feed \/ Step

\* A call runs to its return; nobody has to make one.  This is WF_vars(Step) with
\* ENABLED written out: the guards of the steps leave no running call without
\* one, and every step changes the state.
Fairness == []<>~Running \/ []<><<Step>>_vars

Spec == Init /\ [][Next]_vars /\ Fairness

-----------------------------------------------------------------------------
(* Properties                                                              *)

Byte  == 0 .. MaxInput
State == [window : [0 .. WindowSize - 1 -> Byte], strstart : 0 .. WindowSize,
          blockStart : 0 .. WindowSize, insert : 0 .. WSize, matches : 0 .. 2,
          highWater : 0 .. WindowSize, pending : 0 .. PendingBufSize, biValid : 0 .. 7,
          status : {"busy", "finish"}, lastFlush : FlushModes \cup {"unused"}]

\* Every field stays within its range.
TypeOK ==
  /\ s \in State /\ s.blockStart <= s.strstart /\ s.strstart <= s.highWater
  /\ sent \in Seq(Byte) /\ lasts \in Seq(Byte)
  /\ inLen \in 0 .. MaxInput /\ inPos \in 0 .. inLen
  /\ room \in Nat /\ outPos \in 0 .. room
  /\ call \in [flush : FlushModes \cup {Idle}, from : 0 .. inPos, last : BOOLEAN]
  /\ flushes \in 0 .. MaxFlushes /\ oneShot \in BOOLEAN

\* The blocks, followed by what the window holds, are the input consumed so far,
\* in order: neither the direct copy, nor a slide between two blocks, nor a full
\* flush loses, repeats or swaps a byte (deflate.go:619-722).
InOrder ==
  sent \o Slice(s, s.blockStart, Left) = [k \in 1 .. Len(sent) + Left |-> k]

\* Between calls the window ends with the last bytes consumed, also where they
\* were copied directly, and "insert" of them are still in it: the history that
\* deflate.go:672-700 keeps up.
WindowMirrorsInput ==
  ~Running => /\ s.insert <= s.strstart
              /\ \A i \in 0 .. s.strstart - 1 : s.window[i] = inPos - s.strstart + i + 1

\* One call of deflateOnce consumes its whole input, whatever the window held:
\* "no progress" (stream.go:134-137) is unreachable at level 0 as well.
ConsumesAll == ~Running => AvailIn = 0

\* The output buffer is never short: not for a block, its header or the marker
\* of a flush, so nothing waits in the pending buffer, and compressInto succeeds
\* (zdeflate/gzip.go:70, stream.go:111).
NeverShort ==
  /\ s.pending = 0
  /\ Running /\ ~call.last => AvailOut >= Header(s) + Left + AvailIn

\* Blocks leave by the direct copy only: the way through the pending buffer at the
\* end of deflateStored (deflate.go:741-753) is for output buffers smaller than
\* those of this library, since what is left never reaches a block worth emitting.
DirectOnly == [][Return => UNCHANGED <<sent, lasts>>]_vars

\* The stream has exactly one last block, which ends with its last byte.
OneLastBlock ==
  ~Running => lasts = IF s.status = "finish" THEN <<inLen>> ELSE <<>>

\* Level 0 keeps the promise of Compressor: a flush returns, or is skipped as a repeated
\* one (deflate.go:198-200), only when all its input has been sent, and every call returns.
Promise == INSTANCE Compressor WITH
             Done <- "done", fed <- inLen, shown <- Len(sent), last <- s.lastFlush,
             mode <- IF ~Running /\ s.status = "finish" THEN "done" ELSE call.flush
ImplementsCompressor == Promise!Spec
=============================================================================
