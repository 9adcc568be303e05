# A TLA+ model of hkloudou/gzip

The repository is a GZIP compressor in pure Go: a port of zlib's deflate
(`internal/zdeflate`) under an API shaped like `compress/gzip` (`gzip.go`).
This directory holds TLA+ modules translated from that source, TLC
configurations that check them on small instances, and proofs that TLAPS
checks for every value of the constants.

## 1. The system

| Component | Source | State | Operations |
|---|---|---|---|
| Writer | `gzip.go` | `wroteHeader`, `closed`, `err`, `crc`, `size`, header fields, an embedded Deflater | `Write`, `Flush`, `Close`, `Reset`, `SetHeader`, `ensureStarted` |
| Deflater | `zdeflate/stream.go` | `s` (a pooled `*state`), `scratch` (a pooled buffer), `closed` | `Init`, `Deflate` (chunk loop), `releaseScratch`, `Close` |
| One-shot calls | `zdeflate/gzip.go` | locals only | `CompressLevel`, `GzipCompressLevel`, `compressInto` |
| Pools | `deflate.go:154`, `zdeflate/gzip.go:25-44` | `statePool`, `scratchPool`, shared by all goroutines | `Get`, `Put`, `getScratch`, `putScratch`; the garbage collector empties them |
| LZ77 engine, levels 1-9 | `deflate.go` | window, hash chains, parse position, pending lazy match, input, last flush | `deflateOnce`, `fillWindow`, `longestMatch`, `deflateFast`, `deflateSlow` |
| Level 0 | `deflate.go:609-760` | the same window | `deflateStored` |
| Symbol buffer | `sym_split.go`, `sym_lowmem.go` | symbols of the running block, in one of two layouts | `tallyLit`, `tallyDist`, `compressBlock` |
| Huffman coding | `trees.go` | frequencies, trees, code lengths | `buildTree`, `genBitlen`, `genCodes`, `scanTree`, `sendTree`, `trFlushBlock` |
| Bit sink | `trees.go:183-240`, `flushPending` | 64-bit accumulator, pending buffer | `sendBits`, `biFlush`, `biWindup` |
| Bound | `zdeflate/gzip.go:10-15` | none | `Bound` |
| Variants | `load_*.go`, `tune_*.go` | none | wide loads, `insertRun`, `slideTable` |
| Reader, tools | `gzip.go:380-398`, `cmd/`, `native/` | none | forwarding, test drivers |

How they interact.  A Writer calls its Deflater, which hands the engine pieces
of at most `streamChunk` bytes and passes what the engine emits to the
underlying `io.Writer`; that call may fail at any time.  A Writer and its
Deflater belong to one goroutine.  The only state shared by goroutines is in
the two `sync.Pool`s: a Writer holds a compressor state from its first call to
`Close`, and a scratch buffer from its first piece of data on; a one-shot call
holds both for its duration.

What is hard here.

* *Memory of the engine across calls.*  Input arrives in arbitrary pieces;
  between two calls the engine keeps unread lookahead, a half-made lazy
  decision, a rolling hash and strings that could not be hashed yet.  The
  window slides under all of it, and a full flush restarts it at zero.
* *Implied facts.*  `longestMatch` does not compare every byte, reads beyond the
  input, and trusts chain links in a table whose entries are overwritten.
* *Ownership.*  Pooled objects are given back on nine paths: the normal one and
  every error return of `Deflate`, `Init`, `Close` and `Reset`.
* *Failure in the middle of a call.*  The header, a piece or the trailer may be
  torn; errors stick until `Reset`.
* *Bits in flight.*  Three groups of code move bits through one word, each with
  its own idea of how full it may get; some bytes go around the word.
* *Counted twice.*  The length of a block is computed from counts while trees are
  built, bent and patched; then the block is really sent.
* *Equal output.*  The documentation promises that cutting the input differently
  does not change the output.

What makes each component correct: the engine loses no byte, stays in its
window, stores only what the symbols mean, consumes all input and pushes all of
it out on a flush; a block's codes can be decoded, are as short as they can be,
and take exactly the bits counted for them; bits leave in the order they came; a Writer's sink holds a prefix of one GZIP stream, complete
when Close returns nil, and nothing after an error; pooled objects have one user
and leaks are bounded; one-shot calls return their own data.  `PROJECT.json`
lists the hazards one by one, each at its line.

## 2. Modules

    Compressor        contract of a deflate stream       (abstract)
      ^ refined by
    Lz77              engine of levels 1-9               MCLz77
      ^ instantiated twice by
    TwinDeflate       two runs over the same data        MCTwinDeflate

    Lz77
      ^ extended by
    Lz77_proof        window, input, reads, hash chains: theorems about Lz77
      ^ extended by
    Lz77RoundTrip_proof  what is emitted, and the refinement of Compressor

    Compressor
      ^ refined by
    Stored            engine of level 0                  MCStored
      ^ extended by
    Stored_proof      order, room, progress and the refinement: theorems about Stored

    GzipWriter        Writers, Deflaters, one-shot calls
                      and pools                          MCGzipWriter
      ^ extended by
    GzipWriter_proof  who holds which object, the life cycle of a Writer, what
                      the io.Writer receives, what one-shot calls return:
                      theorems about GzipWriter

    GzipWriter
      ^ extended by
    GzipHeader        header fields and bytes            MCGzipHeader
      ^ extended, with GzipWriter_proof, by
    GzipHeader_proof  the refinement of GzipWriter, and what headers say

    SymbolCodes       tables and codes of the format
      ^ extended by
    Trees             from counts to codes and a choice  MCTrees
      ^ extended by
    Trees_proof       heap, merge loop, code lengths and why they are the
                      cheapest: lemmas about the operators of Trees
      ^ extended by
    TreesBlock_proof  codes, header, lengths and choice: theorems about Trees

    BitBuffer         accumulator and pending buffer
      ^ extended by
    BitBuffer_proof   order and room: theorems about BitBuffer

**Compressor** is what a caller of the engine may rely on: bytes `fed` become
decodable (`shown`) in order; a call that flushes or finishes returns only when
everything fed is decodable; a call that is skipped, as a repeated flush is, leaves
nothing it asks for held back (`Skip`; `last` is the flush of the latest call); a
finished stream accepts nothing.  `GzipWriter`
uses exactly this freedom for the engine inside it: what one `deflateOnce`
shows is any amount between the bounds of the contract (`Compress`).

**Lz77** is the engine.  The variable `s` is the Go receiver `s *state`, a record
with the source's field names; the other variables are the caller's side: the
whole input `data`, how much of it has been handed over (`inLen`) and consumed
(`inPos`), and the flush of the running call.  One step is one call of
`deflateOnce` up to its parse loop (`Call`) or one turn of a parse loop:
`Starve` returns for more input, `ParseFast` and `ParseSlow` parse one position,
`Drain` ends the block and returns.  `fillWindow`, `longestMatch` and the
inserts are operators on the record, composed in the order of the source.

* A byte is the set of its one bits, so the XOR of the rolling hash is a
  symmetric difference and its collisions are the real ones at a smaller width.
* `slideTable`, `insertRun` and the wide compares are modelled by their effect
  on the tables and lengths; both build variants promise that effect.
* Blocks keep their symbols instead of bits.  `copy` is the slice of the window
  that a stored block would take, since the choice between stored and coded
  blocks depends on bit lengths that this module does not have.
* `prev`, the window, `matchStart` and `prevMatch` start with leftovers (`Stale`), as in a
  state that comes from the pool: any bytes, any links, any positions.  The runs have one
  (`lz77`, `lz77_contract`) or three (`TwinDeflate`) such states, the theorems every one.
* The output buffer is always large enough, as both callers of the engine
  provide; the returns on `availOut() == 0` are not taken.

**Stored** is the engine of level 0.  `deflateStored` never looks at its data, so
a byte is its place in the stream: byte k of the input is the number k, and
"nothing lost, repeated or swapped" becomes an equation between sequences of
numbers.  A step is the entry of `deflateOnce` (`Call`), one block copied from
window and input to the output (`CopyBlock`), or the rest of `deflateStored` with
the return of `deflateOnce`: after the last block (`ReturnFinished`), after a
completed flush and its marker (`ReturnFlushed`), or with the rest of the input
in the window, which may still send a block through the pending buffer
(`ReturnHolding`).  `Settled` brings the window up to date after direct copies,
`SlidForInput` makes place for the rest.  Headers and markers are counted in
bytes, not spelled out; `biValid` is kept because it decides how many.  The
output buffer of a call has the size that `Deflate` or `compressInto` gives it
(`Room`), so that `AvailOut` is the real one.

**TwinDeflate** runs the engine twice over the same data, with two plans of calls
and two different leftovers, and compares the blocks.  `Chunked` is the chunk
loop of `Deflater.Deflate`: only the last piece carries the caller's flush.  The runs share nothing, so the second starts when
the first is done.

**GzipWriter** has one program counter per goroutine.  A step is the code between
two points where other goroutines or the `io.Writer` can interfere: taking an
object from a pool, compressing a piece, a write to the sink, giving objects
back.  Data is counted in units of `streamChunk`; a sink is the sequence of
items it has received: header writes, compressed data up to a position with the
marker that ends it, the trailer, or `Torn`, the prefix of a failed write.
`Obtainable` lets a `Get` return any pooled object or a new one, and `Collect`
lets a pool lose any object at any time.

**GzipHeader** adds the header to `GzipWriter`: the fields a caller assigns or passes
to `SetHeader` at any time between calls, the writes `ensureStarted` makes for them,
each of which may fail or be refused, and Reset.  `HeaderWrites` is 1 there, so
that the header item of the sink stands for all of them; `SendPart` is one write,
and the last one, or a failing one, is the `WriteHeader` of `GzipWriter`.  Bytes,
strings and numbers are kept, in base `Base`; `ReadHeader` is what a reader of
RFC 1952 makes of them, and `asked`, a history variable, what the caller wanted.

**SymbolCodes** has the tables of `init()` (`trees.go:89-149`), `genCodes`, the two
layouts of the symbol buffer and what `compressBlock` sends for a symbol, all in the
sizes of the format.  The decoder's side is RFC 1951.

**Trees** takes the counts of one block through `buildTree` for the three trees,
`scanTree`, `buildBlTree`, and the choice of `trFlushBlock` with `sendAllTrees`.  A step
is one turn of the merge loop or one whole function.  The record `t` is the tree
under construction with `heap` and the sorted part of the same array; `dl` and `fc`
are the unions of `ctData`, as in the source.  `optLen` and `staticLen` go through
the same detours as in the code: forced symbols are taken off and come back with
`genBitlen`, cut codes are charged, `buildBlTree` adds the header.  The alphabet is a
parameter.  The loops of the source are recursive functions over their turns, `n` turns
of the loop at the argument `n`; `SiftDown`, which goes down the heap, is one over its places.
`deflateStored` never calls `trFlushBlock`, so its case for level 0 is left out.

**BitBuffer** has `biBuf`, `biValid` and the pending buffer, with the sizes of the
source.  As in `Stored` a datum is its place in the stream: bit n of the stream is
the number n, so a bit that is lost, overwritten or out of place breaks an equation.
Code values are not there, and codes have any length a code of their kind may have.
A step is one `sendBits` of a block header, one literal or one half of a pair in the
loop of `compressBlock`, or a whole handler (`trStoredBlock`, `trAlign`, ...).  `edge` is
a history variable for the one case where bits are lost.

Names marked `[mutant]` are small deviations of the definition below them; the
`mutants` of `PROJECT.json` show that each property notices one of them.  No
specification uses them.

## 3. Model checking

| Run | Question | Size |
|---|---|---|
| `lz77` | does the engine lose bytes, leave its window, follow a bad chain, get stuck? | 371 k states |
| `lz77_contract` | does it implement `Compressor`, liveness included? | 141 k |
| `stored` | does level 0 lose or swap bytes, run out of room, mark two last blocks, break `Compressor`? | 1.1 M |
| `twin_split` | does cutting the input change the output, except at one position? | 158 k |
| `chunk_visible` | ... and at that position? (violated) | |
| `writer_calls` | is every sequence of calls, failures and Resets safe for one Writer, and for a one-shot call next to it, and does every call return? | 685 k |
| `writers` | do two level-0 Writers share an object of the pools, or keep huge buffers? | 191 k |
| `header` | does a reader find the fields as set, are bad ones refused? | 459 k |
| `bits` | are bits lost or moved, is there room, does output overtake the symbols? | 37 k |
| `bits_lost` | ... also in a dynamic block that starts with a match? (violated) | |
| `trees` | can trees, codes and header be decoded, are they optimal and counted right? | 28 k |
| `errored_pins` | does a failed, closed Writer pin anything? (violated) | |

Bounds of the engine.  `WSize` = 14 and `MaxMatch` = 4 give `MinLookahead` = 8
and `MaxDistance` = 6, so the relations `MaxMatch < MinLookahead < WSize`
between the real constants remain, and an input of 38 bytes makes the window
slide twice: once with chains and blocks that begin before the slide, once over
tables that have been slid already.  With `HashBits` = 3 two bytes of a string
overlap in the hash and different strings collide.  `LitBufsize` = 5 fills the
symbol buffer in the middle of matches and pending literals.  `TooFar` = 4 lies
below `MaxDistance`, so that short matches are both kept and dropped.  The six
inputs are a run of one byte, a short period, a period with a change where the
window slides, one with a longer match one byte later, one with only distant
matches, and one with hardly any.  Pieces of 1, 2, 5 and 13 bytes can end the
input of a call anywhere, below and above `MinMatch` and `MinLookahead`, and
the one flush (two in `lz77_contract`) may come at any of these places.  Both
parse functions run with a lazy limit above and below the match length.  The plans of
`twin_split` cut everywhere, by the caller or by the chunk loop, without a flush and before
one of each kind.

Bounds of level 0.  The real constants have `WSize` = 32768, `MaxStored` = 65535 and
`PendingBufSize` = 65536; 8, 15 and 16 keep their relations (the longest block is
one byte short of two windows).  `Bound`'s shifts by 12, 14 and 25 are quotients
by an eighth, half and 1024 times the window.  `Slack` = 0 instead of 64, so that
it cannot hide a shortage: 64 bytes would be eight windows here.  Pieces of 1, 5,
7 and 20 bytes lie below a block, add up to one, and contain two; 34 bytes slide
the window between direct copies and before input is kept.  Up to two
flushes of any kind may come anywhere.

Bounds of the Writer.  `MaxUnits` = 3 and `MaxWrite` = 2 give Writes of zero, one
and two pieces.  `HeaderWrites` = 2 stands for the fixed header and optional
fields.  Sequences of calls are not bounded except through the units written:
Reset starts over.  The pools have as many objects as goroutines, which is what
makes sharing possible.  `writer_calls` has one Writer and one one-shot caller.  In
`writers` both Writers have level 0, and with `MaxPooled` = 1 every unit needs an
oversized buffer.  Several units in one Write at level 0, and one-shot calls next
to two Writers, are left to the proofs (`BoundedRetention`, `Ownership`): a third
actor makes the run too large.

Bounds of the header.  With `Base` = 4 a byte has four values, a length two of them
and MTIME four: extra data of 15 bytes is the longest and 16 too long, times pass
the last second that fits.  The seven headers have every field empty, short and
invalid, and times unset, before 1970, past the end and given twice.

Bounds of the bits.  All sizes of the word, groups and codes are the real ones.
`LitBufsize` = 4 gives blocks of up to three symbols, so that every drain follows
every other; longer blocks repeat them and are covered by the proofs.  The values sent in a tree header
have 1, 2, 3 or 7 bits and 64 bits in all, enough for every residue from 0 to 47.

Bounds of the trees.  Five literals, two lengths, five distances; the codes of the
fixed trees have their real lengths.  `MaxBits` = 3 is the least that holds
the alphabet, so that codes get too long in skewed blocks, by up to more than four
leaves at once; `ZeroShort` = 3 and `ZeroLong` = 4 (10 and 138) let both codes for
zeros occur in such short trees.  `MinMatch` = 2 makes stored blocks competitive.
About 1100 blocks are run: skewed, sparse (no distance, one length, forced symbols)
and flat (repeats).  Codes of the third tree, the bit length tree, never
get too long at this scale; the function is the one that the first tree exercises.

`VIEW` leaves out the names of pooled objects, which are interchangeable, and the
contents of those that no one will read again: a state is reset by
`InitDeflater` and `GetState` before use, a buffer overwritten by `Compress` and
`Squeeze` before it is read.  Two states with one view therefore have the same steps, up to
names, which lead to states with one view again; and `CallsReturn` and the fairness
look only at the program counters and at which actions step, which do not depend on
the names, so that `writer_calls` may check liveness under the view.  `SYMMETRY`,
which also permutes Writers of the same level, is used in `writers` and
`errored_pins`, with invariants only.

Deadlock is checked except in the `TwinDeflate` runs, whose plans end, and the
`Stored` run, where a one-shot stream ends.

Some invariants are in no run because they are proved (section 5): `TypeOK` and
`ClosedPinsNothing` of `GzipWriter`, `TypeOK` of `Stored` and `BitBuffer`,
`WindowMirrorsInput` and `OneLastBlock` of `Stored`, and `WholeBytes`.

Fairness.  Nobody has to call a Writer or the engine.  A call that has begun runs
on, because its goroutine does: `WF_vars(WriterStep(w))` and
`WF_vars(CallerStep(c))`, in `GzipHeader` the same of `HeaderStep(w)`.  In `Lz77` and `Stored` the same assumption is `Fairness`: either
the engine is idle again and again, or it steps again and again.  It is weak
fairness of `Step` with `ENABLED` written out, because TLC evaluates `ENABLED
Step` by computing the whole step; a running call always has a step (deadlock
is checked in `Lz77`; in `Stored` the guards of the four steps exhaust the cases)
and that step changes the state (`LoopAdvances`; each step of `Stored` writes `call`
or `sent`).

## 4. What the runs show

*Engine.*  `RoundTrip`: decoding the blocks and the symbols still buffered gives
the input up to the parse position, in every state.  `WindowMirrorsInput`: the
window is the stream shifted by `base`, across slides and full flushes.
`ChainsSound`: every walk that `longestMatch` can make descends strictly and
meets only strings of its own hash, the ground for not comparing offset 2.
`ProbesInWindow`: what it reads lies in the window and has been written.
`StoredCopyFaithful`: a block that can still be stored would be stored as the
bytes its symbols mean, also when the lazy parse flushes in the middle of a
decision.  `FullFlushRestarts`: no match reaches behind a full flush.
`ConsumesAll`: `deflateOnce` always consumes its input, so "internal error: no
progress" (`stream.go:136`) cannot occur.  `LoopAdvances`: every turn of a parse
loop shortens the lookahead.  `ImplementsCompressor`: the contract; that it allows a
skipped call only when nothing is held back is what makes the early return for a repeated or
weaker flush (`deflate.go:198`) safe.

*Level 0.*  `InOrder`: the blocks and what the window still holds are the input
consumed so far, in order, through direct copies, slides and full flushes.
`WindowMirrorsInput`: between calls the window ends with the last bytes
consumed, also where they never passed through it.  `ConsumesAll`: a call
consumes its input.  `NeverShort`: the buffers sized by `Bound` suffice for
everything a call may emit, so nothing ever waits in the pending buffer and the
panic "output bound exceeded" (`zdeflate/gzip.go:89`) is unreachable at this
level.  `DirectOnly`: as a consequence the path of `deflateStored` through the
pending buffer (`deflate.go:741-753`) is never taken by this library; what a call
keeps is less than a block.  `OneLastBlock`: one block is marked last and ends the
stream.  `ImplementsCompressor`: the contract, as for levels 1-9.

*Independence of the split* (`gzip.go:24-28`, `stream.go:27-33`).  The
violated run shows that the promise fails at one position.  `fillWindow`
(`deflate.go:440`) slides as soon as it is called with `strstart = wSize +
maxDistance`.  If the lookahead starves exactly there, the window slides
*before* that position is parsed, and the chain head at `wSize`, a match at
exactly `maxDistance`, becomes position 0, which means nil.  With more input at
hand the same position is parsed first and finds the match.  In
`chunk_visible` the cut is a chunk boundary inside `Deflate`; a cut made by the
caller has the same effect, and `twin_split` has to except it.  `IndependentOffEdge` is what remains true: if no run slides
there, the blocks are equal, whatever the split and the leftovers in the pooled
states; among the splits are those of the chunk loop with a flush behind them, which
would show a flush carried by any piece but the last (`stream.go:107`).  zlib's C code slides by the same rule, so that the library
agrees with a C program that makes the same calls in the same pieces; what does
not hold is independence of the pieces.

*Trees.*  `CompleteCode`: for every tree, also one whose long codes had to be cut,
the lengths use up the code space exactly, and no code as sent begins another.
`Optimal`, of all three trees: of all choices of lengths within the limit none is cheaper, unless
codes were cut, and frequent symbols never have the longer codes.  `HeaderDecodes`: a
decoder gets the lengths of both trees back from the run-length codes, runs over
the border of the two trees included.  `SmallestChosen`: `optLen` and
`staticLen` are the bits really sent, and the choice made from them is the shortest.
`CodesDecode`: with the real tables, in both layouts of the symbol buffer, a
decoder gets back each of 256 lengths and 32768 distances, and the code sent is the one
that was counted.

*Bits.*  `InOrderOffEdge`: bits arrive in the order in which they were sent, through
`sendBits`, `compressBlock`, paddings, flushes and bytes put around the word.
`SendFits`: the comment of `sendBits`, "biValid < 48 on entry".  `StoredHeaderBytes`: the
header room that `deflateStored` computes as `(biValid + 42) >> 3` is exact.
`OverlaySafe`: in the low-memory layout the output of a fixed block never reaches a
symbol still to be read.

*A lost bit* (`sym_split.go:29-31`, the same in `sym_lowmem.go:38-40`).  The comment
on the drains of `compressBlock` assumes that its word starts with at most 31
bits.  That holds from the second symbol on; the first finds what `sendAllTrees`
left, up to 47 bits, and is ORed in before any drain.  A literal has
at most 15 bits and fits; a length with its extra bits has up to 20, and in
`bits_lost` the top bits of its extra value fall out of the word, for example 14 + 5
on 46.  Such a stream decodes to something else.  It takes a dynamic block
whose first symbol is a long match with a rare length code, behind a tree header
that ends at the wrong place.  `InOrderOffEdge` is what holds otherwise: `edge` is set
in exactly this case.

*Header.*  `HeaderReadsBack`: a reader finds the fields as set before the first call,
whatever was assigned later or before a Reset, and the data begins where it expects;
times after 2106 are excepted, MTIME has no room for them.  `InvalidRefused`: no
data follows a header that could not be written, and the Writer stays failed.
`Recompressed`: a header that was read can be set on a new Writer and is sent again
byte for byte.

*Writer.*  `SinkWellFormed`: the sink is a prefix of header, data of this Writer
in order, trailer with the checksum of exactly the finished data; a torn item
ends it and the error has stuck.  `CloseDelivers`, `FlushDelivers`: a call that
returned nil has delivered.  `NothingAfterError`: no call continues a torn
stream.  `FailedHoldsNoScratch`, `HugeBuffersDropped`: what is held when.  `NoInternalError`: `ErrDeflaterClosed` and `ErrAfterFinish` never
reach the caller of a Writer.  `Exclusive`
(between two Writers, and between a Writer and a one-shot call), `OneShotExact`:
sharing.  `CallsReturn`: with
the fairness above every call, of a Writer or one-shot, returns.

*Pinning* (`gzip.go:349-350`).  `errored_pins` shows a Writer that is closed, has
failed and still holds a compressor state: when the final `Deflate` inside
`Close` fails, `Close` returns without closing the Deflater.  A second `Close`
or a `Reset` releases it.

## 5. Proofs

The theorems about `GzipWriter` hold for any number of Writers, callers, states,
buffers and units, from the assumptions named in that module (Writers and
Callers are disjoint, `None` is not an object, the bounds are positive naturals);
those about `Trees` for any alphabet, extra bits, fixed trees, limits and counts that
satisfy `SizesAssumption`, `DescAssumption` and `TallyAssumption`: the codes fit the
limits, runs fit the bits that count them, a code that may be forced has no extra bits,
END_BLOCK is counted once and there are as many lengths as distances;
those about `GzipHeader` in addition for any fields, and any base that satisfies its
assumptions; those about `Lz77` for any sizes that satisfy `SizeAssumption`, any inputs,
configurations, leftovers in the pooled state, and any calls (`InputAssumption`,
`ConfigAssumption`; no bound but `MaxFlushes`, which may be any number);
those about `Stored` for any sizes of window, block and buffer that satisfy
`StoredAssumption`, any pieces and any number of flushes; those about `BitBuffer` for any
sizes with the relations of `WordAssumption`, `RoomAssumption` and `OverlayAssumption`,
which hold of the real ones (the `bits` run evaluates them), and blocks of any length.

`GzipWriter_proof`:

* `Typing`: `Spec => []TypeOK`;
* `Ownership`: `Spec => []Exclusive`;
* `Invariance`: `Spec => []IInv`, the inductive invariant both rest on.

`Exclusive` is not inductive alone: a step that puts "the buffer it holds" into
a pool would put `None` there, and a step that returns an object relies on its
being held.  `Placed` adds, for every program counter, which objects are held
there.  The steps that touch pools fall into three shapes, each with a lemma:
an actor lets go of what it holds (`LetGoExclusive`), takes a state
(`TakeStateExclusive`) or takes a buffer (`TakeBufExclusive`); `InitDeflater`
does the first and the second at once and is proved directly.  `NextIInv`
combines one lemma per action.

In the same module, on top of `IInv`, the life cycle of a Writer:

* `LifeCycle`: `Spec => []LifeInv`;
* `NeverRefused`: `Spec => []NoInternalError`;
* `FailureReleases`: `Spec => []FailedHoldsNoScratch`;
* `CloseReleases`: `Spec => []ClosedPinsNothing`;
* `BoundedRetention`: `Spec => []HugeBuffersDropped`.

`LifeInv` says what the three flags of a Writer mean for the Deflater it embeds.
A Writer never asks whether its Deflater is closed or finished; it relies on `closed` and `err`
having been set by whichever call closed or finished the Deflater, and on
`Reset` to undo both.  So `LifeInv` has a clause for a Writer at rest (armed if
the header is out and neither `closed` nor `err` is set, empty before the
header, closed after a successful Close) and one for each point inside a call,
where `closed` holds exactly if the call is Close's.  A step of one actor
leaves the `Life` of the others alone (`LifeFrame`, `LifeOthers`) because,
by `Exclusive`, nobody else changes the compressor state they hold.
`SmallInv` is `HugeBuffersDropped` extended to the points of a call at which no
data moves yet: the buffer a Writer brings into a call is still small there.

In the same module, on top of `LifeInv`, the sink:

* `StreamsAgree`: `Spec => []SinkInv`;
* `WellFormed`, `CloseCompletes`, `FlushCompletes`, `OneShotCorrect`: `Spec => []P` for
  `SinkWellFormed`, `CloseDelivers`, `FlushDelivers` and `OneShotExact`;
* `ErrorSticks`: `Spec => NothingAfterError`.

Three places have to agree on how far a stream has come: the sink, the
compressor state (`fed`, `shown`, `last`) and the Writer (`crc` and what is left of the
call).  `SinkInv` says how at each point of a call (`Told`): while a piece is in
the buffer the stream is the sink followed by that piece (`Sent`), and the fed units
are `crc` less what is left.  The repeated flush, which emits nothing, keeps
`FlushDelivers` because a compressor whose last flush was a sync with nothing fed since
has a sync marker over everything at the end of its stream (`Agrees`).  Other actors
cannot disturb any of this, again by `Exclusive`.  `Squeezed` follows the one unit of a
one-shot call from the state to the buffer to the result.

`GzipHeader_proof`:

* `HeaderRefines`: every behaviour of `GzipHeader` is one of `GzipWriter`, less the fairness;
* `HeaderSent`: `[]HeaderInv`, and from it `InvalidStops`, `ReadsBack`, `CarriedOver`
  for `InvalidRefused`, `HeaderReadsBack` and `Recompressed`.

By the refinement the theorems of `GzipWriter_proof` hold with headers, and the proofs use them.  `HeaderInv` says that what a Writer has sent
is the encoding of the fields as they were at the first call, up to the write it has come to.
The lemmas behind `ReadsBack` follow a reader over the header: digits in
base `Base` give a number back, and each optional field begins where the one before ended.

`Stored_proof`:

* `Invariance`: `Spec => []IInv`;
* `Typing`, `Order`, `Mirroring`, `Consumption`, `Sufficiency`, `LastBlock`: `Spec => []P`
  for `TypeOK`, `InOrder`, `WindowMirrorsInput`, `ConsumesAll`, `NeverShort` and
  `OneLastBlock`;
* `Directness`: `Spec => DirectOnly`;
* `Refinement`: `Spec => Promise!Init /\ [][Promise!Next]_(Promise!compressor)`, the
  safety half of `ImplementsCompressor`.

The heart is why the buffer is never short.  `Enough` says, at every turn of the
direct copy, that the output buffer has room for the bytes left, six bytes of
header for each full window among them, and six (or, with a marker to come,
twelve) more.  It holds at the start because `n >> 12` in `Bound` gives eight bytes
for each full window (`Shifted`, `BoundCovers`, `RoomEnough`).  It is kept because a
block that is not the last carries at least a window (`BlockLess`, `StillEnough`),
or everything, when only the marker remains.  From `Enough` follows that the output
buffer never bounds the length of a block (`RoomLeft`), and so that the direct
copy stops with less than a window left, and with nothing if the call flushes
(`StopsShort`): this is what makes the pending-buffer path dead.  `Mirror` and
`Sent`, the other parts of `IInv`, say what the bytes in window and output are; `Seen`
is the place where the window ends, which lags behind the input while a call
copies directly, and then the window holds nothing unsent (`Serving`).  For the refinement each step is mapped: a block shows more
of the input, and a return from a flush shows all of it, because then nothing unsent is
left in the window.  `Delivered` remembers that, so that a repeated flush may be skipped.

`BitBuffer_proof`:

* `BitsTyped`, `BitsInOrder`, `SendsFit`, `BytesWhole`, `OverlayHolds`: `Spec => []P` for `TypeOK`,
  `InOrderOffEdge`, `SendFits`, `WholeBytes` and `OverlaySafe`;
* `HeaderBytesCounted`: `Spec => StoredHeaderBytes`.

`IInv` adds to these how full the word may be in each phase (`Fill`): less than a
residue between blocks, less than a `sendBits` group in headers, that or less than a
`compressBlock` group from the second symbol on; and for fixed blocks how many bits
have gone in so far (`FixedVolume`), which is what bounds the output under the overlay.
The lemmas are about the operators: ORing n bits into a word with room for them
keeps the order (`OrOrdered`), draining no more than there are keeps it
(`DrainOrdered`), and a drained word is below the group again (`DrainAtFacts`); `Step`
combines them.  `SendStep`, `FlushStep`, `WindupStep` and `PutStep` are the
handlers, and each action has its lemma.  The one place where `OrOrdered` cannot be
applied is the first length of a dynamic block, which is how the lost bit was found.

`Lz77_proof`:

* `WindowInvariant`: `Spec => []WindowInv`;
* `Mirrored`, `Consumed`, `ProbesInitialised`: `Spec => []P` for
  `WindowMirrorsInput`, `ConsumesAll` and `ProbesInWindow`;
* `Advancing`: `Spec => LoopAdvances`.

`Windowed(t, pos)` is the part about the record: the window holds the stream shifted by
`base`, up to byte `pos`; it is proved for every operator on the record in turn (slide,
read, zero fill, inserts, `LongestMatch`), so that `fillWindow` and the parse loops
inherit it.  `MatchFits` is what the loops need besides: a match never
reaches past the lookahead, in the lazy parse counted from the byte before.

In the same module, about the hash chains:

* `ChainInvariant`: `Spec => []ChainInv`; `ChainsHold`: `Spec => []ChainsSound`.

`ChainsSound` cannot be proved from itself.  Tables are never cleared behind the
window, so most entries are out of date, and a walk is right only because it ends at
`Floor`, the last position that can be reached.  `ChainSet` therefore separates a set
of live positions between the floor and the newest insertion: every head and every link is
in it or below the floor, links go down, and hashes agree along the links.  A slide moves
the set, a full flush empties it, and an insertion overwrites only the entry of a position a
window length away, which is below the floor.  `Hashed` adds when `insH` is the
hash of the two bytes before the next string and why strings left over (`insert`)
are still missing.

`Lz77RoundTrip_proof`:

* `EmissionInvariant`: `Spec => []EmitInv`;
* `RoundTrips`, `RestartsAfterFull`, `CopiesFaithful`, `WellTyped`: `Spec => []P` for
  `RoundTrip`, `FullFlushRestarts`, `StoredCopyFaithful` and `TypeOK`;
* `Refinement`: `Spec => Promise!Init /\ [][Promise!Next]_(Promise!compressor)`, the
  safety half of `ImplementsCompressor`.

First, a match is one.  `longestMatch` compares all offsets but 2; a candidate comes from a
chain of the same hash, and two strings of one hash that agree in two bytes agree in the
third (`ThirdByte`: the hash is a XOR, and the third byte enters it whole).
What it reads beyond the input is cut off by `lookahead`.  Second, symbols.
`Stands` relates one symbol to the bytes it stands for, without decoding; `Spelt` strings
symbols together, and `Tale` blocks: where each block ends in the stream, that its
stored copy is that slice, and that nothing after a full flush copies from before
it (`H`).  `Done` is the position told so far, one less than the parse position
while the lazy parse holds a literal back, and `Recorded` adds that a match held back is
one.  Third, decoding: `Inflate` of symbols that are `Spelt` is the slice of the input they
stand for.  The refinement needs `ShownWithin`, where the bytes shown end at the start of
the block at hand, and `Delivered`: a stream that rests after a flush has shown everything,
so that a repeated or weaker flush may be skipped (`HigherRank`), and a finished one stays idle.

`TreesBlock_proof`, on the lemmas of `Trees_proof`:

* `CoreAlways`, `AccountAlways`: `Spec => []Core` and `Spec => []Account`;
* `CompleteCodeHolds`, `OptimalHolds`, `HeaderDecodesHolds`, `SmallestChosenHolds`,
  `TypeOKHolds`: `Spec => []P` for `CompleteCode`, `Optimal`, `HeaderDecodes`,
  `SmallestChosen` and `TypeOK`.

`Core` is the inductive invariant.  While the merge loop runs (`Merging`, `Queue`), heap and
sorted list together hold each node made so far once, inner nodes are numbered in the order
in which they were made, and no node left in the heap has a smaller count than one in the list.
`SiftSorts` shows that `pqdownheap` restores the order of the heap, `SiftKeeps` that it
neither loses nor doubles a node.  Once lengths are out, they make a complete code
(`Lengths`); a finished tree has a code for each of its symbols, and `blFreq` counts the
codes both trees will be sent as.

*Complete codes.*  Without the cut, the share of the code space that a node stands for is split
between its sons.  The cut gives too much away, and what is over is counted (`CutIs`); each turn
of `MakeRoom` takes back one unit and keeps the number of codes, so that it ends in counts
which use the space up exactly (`RelieveIs`); and handing them out is a bijection between
places and leaves (`PlaceLevel`, `GenBitlenMakes`).  `GenCodesIs` then says what a code is, its
length's first code plus its rank, reversed, from which codes of a complete set of lengths
do not begin one another (`CodesApart`).

*Optimal codes.*  `Best` has a second invariant of the merge loop: any choice of lengths
for the symbols is matched by one for the nodes in the heap that costs no more, the counts of the inner nodes
made so far included (`Cheapest`).  A turn keeps it by `MergeBack`: among lengths
that fit some are deepest, at least two if the space is used as it can be (`RoundUp`,
`Shortened`); the two least nodes may be given the two deepest places at no cost (`Swapped`), and
there they are sons of one node.  With one node left, the sum of the inner counts is what an
uncut tree costs (`TreeCosts`).  That a more frequent symbol is never longer needs only that
nodes were taken in the order of their counts (`Queue`) and, for cut trees, that lengths are handed out in
that order.

*The header.*  `Sends(codes, out, occ)` ties three things together: a list of codes, the
lengths a decoder makes of it, and how often each code occurs.  Every run keeps it, as sent by
`sendTree` and as counted by `scanTree`, over the border of the two trees (`TreesSent`).

*The account.*  `Account` says what `optLen` and `staticLen` are at each point: less one bit per
forced symbol until `genBitlen` adds its code, whose one bit is exactly that (a tree with a forced
symbol has two symbols, `PairOnes`, and the forced codes have no extra bits).

Induction.  The induction theorems of the library take an operator and cannot be used.
Where these proofs need induction, over a run of inserts, a walk, the compared
bytes, the symbols of a block or the turns of a loop, the statement is made a set of numbers, and
`InductionUpTo` (from the well-foundedness of `<` on `Nat`, by `LeastOf`) shows
that the set is everything.  A recursive function defined by `CHOOSE` is first shown to exist;
so is the fold behind `Sum` (`SumIs`).  `Pow2` is a recursive function because the
provers know nothing of an exponent that is not a number.

Only model-checked: all liveness (`CallsReturn`, the liveness halves of
`ImplementsCompressor`), which is beyond the prover; `IndependentOffEdge`, which compares
two runs and needs a simulation between them, across pieces that end at different
places; and `CodesDecode`, a computation with the fixed tables of the format.

## 6. Not modelled, and the plan

1. The overlay of symbols and output for dynamic blocks.  The source argues that such
   a block is shorter than a fixed one in total; that no prefix of it is
   too long either needs the lengths of whole blocks in `BitBuffer`.
2. `Bound` at levels 1-9: `Lz77` and `Trees` together, over inputs of many blocks.
3. Proofs: that leftovers in a pooled state never show in the output, as
   a simulation between two runs of `Lz77`; that `GzipWriter`'s use of the engine stays
   within `Compressor`.
4. The returns of the engine on `availOut() == 0`, which no caller here can cause.

Left out for good: `Reader` and `NewReader` (forwarding to the standard library),
`cmd/crossnative` and `native` (test drivers), the case of `trFlushBlock` for level 0
(nothing calls it), the concrete values of
`configurationTable` beyond one fast and one lazy row, and the unsafe loads of
`load_fast.go`, whose meaning is the architecture's byte order.
