---------------------------- MODULE MCGzipWriter ----------------------------
(* Small instances of GzipWriter.  The objects of a pool are interchangeable, *)
(* and so are the Writers of one level.                                       *)
EXTENDS GzipWriter, TLC

Alike == Permutations(States) \cup Permutations(Bufs) \cup Permutations(Writers)

\* A pool and the actors' references to its objects, without the objects' names
Sharing(pool, held) ==
  <<Cardinality(pool),
    [a \in Actors |-> <<held[a] = None, held[a] \in pool, {b \in Actors : held[b] = held[a]}>>]>>

\* How many pooled buffers there are of each capacity
Pooled == [n \in {cap[b] : b \in scratchPool} |-> Cardinality({b \in scratchPool : cap[b] = n})]

\* What an unused object still contains is reset (InitDeflater, GetState) or
\* overwritten (Compress, Squeeze) before anyone reads it, and an object neither
\* pooled nor held has no capacity.  The rest decides which steps are possible and
\* where they lead, and holds all that the properties and the fairness look at.
View ==
  <<Sharing(statePool, st), Sharing(scratchPool, buf), Pooled,
    pc, call, dclosed, wroteHeader, closed, err, crc, sink, result,
    [a \in Actors |-> IF st[a] = None THEN Fresh ELSE comp[st[a]]],
    [a \in Actors |-> IF buf[a] = None THEN 0 ELSE cap[buf[a]]],
    [a \in Actors |-> IF buf[a] = None \/ pc[a] \in {"idle", "enter", "chunk", "compress"}
                        THEN <<>> ELSE content[buf[a]]]>>
=============================================================================
