------------------------------- MODULE MCTrees -------------------------------
(* Blocks and small alphabets for Trees. *)
EXTENDS Trees

\* Five literals, END_BLOCK and two lengths; five distances, one of them far.
\* The fixed codes are as long as the real ones.
MCLenExtra  == <<0, 2>>
MCDistExtra == <<0, 0, 0, 1, 13>>

At(s) == [n \in 0 .. Len(s) - 1 |-> s[n + 1]]
MCStaticL == At(<<8, 8, 8, 9, 9, 7, 7, 8>>)
MCStaticD == At(<<5, 5, 5, 5, 5>>)

\* Counts of the distances of n matches
Spread(n) ==
  {At(<<n, 0, 0, 0, 0>>), At(<<0, 0, 0, 0, n>>)}
    \cup (IF n \in {1, 2} THEN {At(<<0, n, 0, 0, 0>>)} ELSE {})   \* symbol 2 is forced
    \cup (IF n > 2 THEN {At(<<1, 0, 0, n - 1, 0>>), At(<<n - 2, 1, 0, 1, 0>>)} ELSE {})
    \cup (IF n > 59 THEN {At(<<15, 15, 0, 15, n - 45>>)} ELSE {})

Block(lits, lens) ==
  {[l |-> At(lits \o <<1>> \o lens), d |-> d] : d \in Spread(lens[1] + lens[2])}

Skewed ==  \* codes that get too long
  UNION {Block(<<a, 0, b, c, d>>, <<x, 0>>) :
           a \in {0, 1, 5}, b \in {0, 2, 60}, c \in {0, 1, 5}, d \in {0, 12, 60}, x \in {0, 1, 2, 60}}
Sparse ==  \* runs of zeros, and blocks of next to nothing
  UNION {Block(<<0, 0, 0, 0, a>>, <<x, y>>) : a, x, y \in {0, 1, 7, 60}}
Flat ==    \* runs of equal lengths
  UNION {Block(<<a, a, a, b, b>>, <<x, x>>) : a, b, x \in {0, 1, 60}}

MCTallies == Skewed \cup Sparse \cup Flat
=============================================================================
