---------------------------- MODULE TwinDeflate -----------------------------
(***************************************************************************)
(* Two runs of the engine over the same data at the same level, each fed   *)
(* by its own plan, a sequence of calls <<bytes, flush>>: does slicing the *)
(* input change the output?  The runs start from different pooled states,  *)
(* so equal outputs also mean that nothing of an earlier stream shows.     *)
(*                                                                         *)
(* The runs share nothing, so the second starts when the first is done.    *)
(***************************************************************************)
EXTENDS Integers, Sequences, FiniteSets

CONSTANTS ByteBits, HashBits, MaxMatch, WSize, TooFar, LitBufsize,
          Configs, Inputs, Slices, Flushes, Stale, MaxFlushes,  \* as in Lz77
          StreamChunk,  \* largest piece Deflater.Deflate hands to deflateOnce
          Plans         \* pairs of plans to compare

ASSUME TwinAssumption == StreamChunk \in Nat \ {0}

VARIABLES data, cfg,
          s1, inPos1, inLen1, flush1,   \* the first run
          s2, inPos2, inLen2, flush2,   \* the second
          todo1, todo2,                 \* the calls still to be made
          flushes,
          edge                          \* history: see Edge

One == INSTANCE Lz77 WITH s <- s1, inPos <- inPos1, inLen <- inLen1, flush <- flush1
Two == INSTANCE Lz77 WITH s <- s2, inPos <- inPos2, inLen <- inLen2, flush <- flush2

first  == <<s1, inPos1, inLen1, flush1, todo1>>
second == <<s2, inPos2, inLen2, flush2, todo2>>
vars   == <<data, cfg, flushes, first, second, edge>>

\* [mutant] every piece carries the caller's flush
ChunkedFlushing(n, f) ==
  LET full == IF n = 0 THEN 0 ELSE (n - 1) \div StreamChunk
  IN  [k \in 1 .. full |-> <<StreamChunk, f>>] \o <<<<n - full * StreamChunk, f>>>>

\* Deflater.Deflate: pieces of StreamChunk bytes, the flush with the last one
Chunked(n, f) ==
  LET full == IF n = 0 THEN 0 ELSE (n - 1) \div StreamChunk
  IN  [k \in 1 .. full |-> <<StreamChunk, "none">>] \o <<<<n - full * StreamChunk, f>>>>

ChunkedPlan(plan) ==
  LET chunks[k \in 0 .. Len(plan)] ==
        IF k = 0 THEN <<>> ELSE chunks[k - 1] \o Chunked(plan[k][1], plan[k][2])
  IN  chunks[Len(plan)]

Init ==
  /\ data \in Inputs /\ cfg \in Configs /\ flushes = 0 /\ edge = FALSE
  /\ \E plan \in Plans : todo1 = plan[1] /\ todo2 = plan[2]
  /\ \E l1, l2 \in Stale : l1 # l2 /\ s1 = One!Reset(l1) /\ s2 = Two!Reset(l2)
  /\ inPos1 = 0 /\ inLen1 = 0 /\ flush1 = One!Idle
  /\ inPos2 = 0 /\ inLen2 = 0 /\ flush2 = Two!Idle

\* fillWindow slides at a strstart of exactly WSize + MaxDistance.  With more
\* input at hand the position is parsed first, and the window slides later.
Edge(s, slid) == slid.base > s.base /\ s.strstart = WSize + One!MaxDistance

FirstCall ==
  /\ todo1 # <<>> /\ One!Call(Head(todo1)[1], Head(todo1)[2])
  /\ todo1' = Tail(todo1) /\ UNCHANGED <<second, edge>>
FirstStep ==
  /\ One!Step /\ edge' = (edge \/ Edge(s1, s1'))
  /\ UNCHANGED <<todo1, second>>

FirstDone == todo1 = <<>> /\ flush1 = One!Idle

SecondCall ==
  /\ FirstDone /\ todo2 # <<>> /\ Two!Call(Head(todo2)[1], Head(todo2)[2])
  /\ todo2' = Tail(todo2) /\ UNCHANGED <<first, edge>>
SecondStep ==
  /\ FirstDone /\ Two!Step /\ edge' = (edge \/ Edge(s2, s2'))
  /\ UNCHANGED <<first, todo2>>

BothDone == FirstDone /\ todo2 = <<>> /\ flush2 = Two!Idle

Next == FirstCall \/ FirstStep \/ SecondCall \/ SecondStep
Spec == Init /\ [][Next]_vars

-----------------------------------------------------------------------------

\* "Internal chunking does not affect the output bytes" (stream.go:27-33), a case
\* of "under Z_NO_FLUSH the output is independent of how the Writes are split"
\* (gzip.go:24-28).
ChunkingInvisible == BothDone => s1.out = s2.out

\* What does hold: the output depends on the split, and on the pooled state it
\* starts from, at most when one run slides its window at the edge position.
IndependentOffEdge == BothDone /\ ~edge => s1.out = s2.out
=============================================================================
