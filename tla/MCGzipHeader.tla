---------------------------- MODULE MCGzipHeader -----------------------------
(* Headers for GzipHeader: bytes of 4 values, lengths and times at the edges. *)
EXTENDS GzipHeader

Some(n) == [i \in 1 .. n |-> i % 3]

Full     == [comment |-> <<2>>, extra |-> Some(3), modTime |-> 9, name |-> <<1, 3>>, os |-> 1, mtime |-> 0]
Precise  == [Default EXCEPT !.extra = <<>>, !.modTime = 9, !.mtime = 77]
Future   == [Default EXCEPT !.extra = Some(5), !.modTime = 256 + 44]
Largest  == [Default EXCEPT !.extra = Some(15), !.modTime = -5, !.comment = <<3, 1>>]
TooLarge == [Full EXCEPT !.extra = Some(16)]
WithNul  == [Full EXCEPT !.name = <<1, 0>>]
Wide     == [Precise EXCEPT !.comment = <<1, 4>>]

MCHeaders == {Full, Precise, Future, Largest, TooLarge, WithNul, Wide}
MCStdHeaders == {[f \in StdFields |-> h[f]] : h \in {Default, Full, Largest}}
=============================================================================
