------------------------------ MODULE MCLz77 ------------------------------
(* Small instances of Lz77 for TLC. *)
EXTENDS Lz77

A == {}
B == {0}
C == {1}
D == {0, 1}

Fast == [fn |-> "fast", goodLength |-> 4, maxLazy |-> 3, niceLength |-> 4, maxChain |-> 4]
Slow == [fn |-> "slow", goodLength |-> 4, maxLazy |-> 4, niceLength |-> 4, maxChain |-> 8]

\* A word repeated up to a length
Repeat(word, len) == [i \in 1 .. len |-> word[((i - 1) % Len(word)) + 1]]

Length  == 38   \* the window slides twice
Run     == Repeat(<<A>>, Length)
Short   == Repeat(<<A, B, C>>, Length)                     \* long chains, period 3
Changed == [Repeat(<<A, B, C, D>>, Length) EXCEPT ![21] = A] \* a change where the window slides
Lazy    == Repeat(<<B, B, B, A, B, B, B, B, B, C>>, Length) \* a longer match one byte later
Far     == Repeat(<<A, B, C, D, D, A, B, C, B>>, Length)   \* a shortest match beyond TooFar
Noise   == Repeat(<<A, B, D, C, C, A, C, B, A, D, D, B, B, C, D, A, A>>, Length) \* hardly any match

MCInputs  == {Run, Short, Changed, Lazy, Far, Noise}
MCFew     == {Changed, Lazy}
MCConfigs == {Fast, Slow}

\* An earlier stream much like these, and links over the whole window
Leftover == [window |-> [i \in 0 .. WindowSize - 1 |-> <<A, B, C, B>>[(i % 4) + 1]],
             prev |-> [i \in 0 .. WSize - 1 |-> (5 * i + 3) % WindowSize],
             matchStart |-> 3 - WSize, prevMatch |-> WSize]
MCStale  == {Leftover}
=============================================================================
