---------------------------- MODULE MCTwinDeflate ----------------------------
(* Plans and inputs for TwinDeflate.  Symbols and helpers as in MCLz77. *)
EXTENDS TwinDeflate

A == {}
B == {0}
C == {1}
D == {0, 1}

Fast == [fn |-> "fast", goodLength |-> 4, maxLazy |-> 3, niceLength |-> 4, maxChain |-> 4]
Slow == [fn |-> "slow", goodLength |-> 4, maxLazy |-> 4, niceLength |-> 4, maxChain |-> 8]

Repeat(word, len) == [i \in 1 .. len |-> word[((i - 1) % Len(word)) + 1]]

Length  == 38
Short   == Repeat(<<A, B, C>>, Length)
Changed == [Repeat(<<A, B, C, D>>, Length) EXCEPT ![21] = A]
Lazy    == Repeat(<<B, B, B, A, B, B, B, B, B, C>>, Length)
Noise   == Repeat(<<A, B, D, C, C, A, C, B, A, D, D, B, B, C, D, A, A>>, Length)
Distant == Repeat(<<A, B, C, D, D, B>>, Length)   \* matches at MaxDistance = 6

MCInputs  == {Short, Changed, Lazy, Noise, Distant}
MCConfigs == {Fast, Slow}

\* A new state, and what earlier streams much like these left
New       == [window |-> [i \in 0 .. 2 * WSize - 1 |-> A], prev |-> [i \in 0 .. WSize - 1 |-> 0],
              matchStart |-> 0, prevMatch |-> 0]
Leftover  == [window |-> [i \in 0 .. 2 * WSize - 1 |-> <<A, B, C, B>>[(i % 4) + 1]],
              prev |-> [i \in 0 .. WSize - 1 |-> (5 * i + 3) % (2 * WSize)],
              matchStart |-> 3 - WSize, prevMatch |-> WSize]
Backwards == [window |-> [i \in 0 .. 2 * WSize - 1 |-> <<C, B, A>>[(i % 3) + 1]],
              prev |-> [i \in 0 .. WSize - 1 |-> 2 * WSize - 1 - i],
              matchStart |-> 5, prevMatch |-> 4]
MCStale   == {New, Leftover, Backwards}

OneShot == <<<<Length, "finish">>>>
Split(k) == <<<<k, "none">>, <<Length - k, "none">>, <<0, "finish">>>>
Twice(k, n) == <<<<k, "none">>, <<n, "none">>, <<Length - k - n, "finish">>>>
\* The same flush points, the first piece cut in two
Flushed(k, f)  == <<<<k, f>>, <<Length - k, "finish">>>>
FlushedSplit(k, f) == <<<<k - 3, "none">>, <<3, f>>, <<Length - k, "none">>, <<0, "finish">>>>

\* Deflate cuts the bytes before the flush; only the last piece carries it
FlushedChunked(k, f) == ChunkedPlan(Flushed(k, f))

SplitPlans == {<<OneShot, Split(k)>> : k \in 1 .. Length - 1}
           \cup {<<OneShot, Twice(k, n)>> : k \in {9, 21, 27}, n \in {1, 2, 8}}
           \cup {<<Flushed(k, f), FlushedSplit(k, f)>> : k \in {4, 16, 24}, f \in {"sync", "full", "partial"}}
           \cup {<<Flushed(k, f), FlushedChunked(k, f)>> : k \in {16, 24, 31}, f \in {"sync", "full", "partial"}}

\* Two Writes and a Close; Deflate cuts the second Write
Writes(k)  == <<<<k, "none">>, <<Length - k, "none">>, <<0, "finish">>>>
ChunkPlans == {<<Writes(k), ChunkedPlan(Writes(k))>> : k \in 1 .. StreamChunk}
=============================================================================
