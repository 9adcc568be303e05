----------------------------- MODULE GzipWriter -----------------------------
(***************************************************************************)
(* The streaming Writer (gzip.go), the Deflater it embeds (internal/       *)
(* zdeflate/stream.go) and the one-shot calls (internal/zdeflate/gzip.go), *)
(* all running on goroutines of their own and sharing two sync.Pools:      *)
(* statePool of compressor states and scratchPool of output buffers.       *)
(*                                                                         *)
(* Data is counted in units of StreamChunk bytes.  Writing to the          *)
(* underlying io.Writer may fail at any time, and a sync.Pool may drop an  *)
(* object at any time.  What one call of deflateOnce emits is left open    *)
(* between the bounds that module Compressor promises.                     *)
(***************************************************************************)
EXTENDS Integers, Sequences, FiniteSets

CONSTANTS
  Writers,       \* the Writers, each used by one goroutine
  Stored,        \* those of level 0, whose input is not chunked
  Callers,       \* goroutines that call GzipCompressLevel or CompressLevel
  States, Bufs,  \* identities of *state and *[]byte objects
  None,          \* nil
  HeaderWrites,  \* writes that ensureStarted makes
  MaxPooled,     \* maxPooledBuf, in units
  MaxWrite,      \* bound: units in one Write
  MaxUnits       \* bound: units in one stream

Actors == Writers \cup Callers

ASSUME ActorAssumption == Writers \cap Callers = {} /\ Stored \subseteq Writers
ASSUME NoneAssumption  == None \notin States /\ None \notin Bufs
ASSUME EnoughObjects   ==   \* a Get never waits
  /\ IsFiniteSet(Actors) /\ IsFiniteSet(States) /\ IsFiniteSet(Bufs)
  /\ Cardinality(Actors) <= Cardinality(States)
  /\ Cardinality(Actors) <= Cardinality(Bufs)
ASSUME BoundAssumption ==
  /\ HeaderWrites \in Nat \ {0} /\ MaxPooled \in Nat \ {0}
  /\ MaxWrite \in Nat \ {0} /\ MaxUnits \in Nat \ {0}

VARIABLES
  statePool, scratchPool,  \* the two pools
  comp,      \* per state: units fed and shown, last flush, finished or not
  cap,       \* per buffer: its capacity
  content,   \* per buffer: what the last compression left in it
  st,        \* per actor: the state it holds (d.s; a local of compressInto)
  buf,       \* per actor: the buffer it holds (d.scratch; sp)
  pc,        \* per actor: where it is
  call,      \* per writer: the running call, [flush, left]
  dclosed,   \* per writer: d.closed
  wroteHeader, closed, err, \* per writer: the fields of Writer
  crc,       \* per writer: units covered by z.crc and z.size
  sink,      \* per writer: what the underlying io.Writer has received
  result     \* per caller: the slice it returns

vars == <<statePool, scratchPool, comp, cap, content, st, buf, pc, call, dclosed,
          wroteHeader, closed, err, crc, sink, result>>
writerVars == <<call, dclosed, wroteHeader, closed, err, crc, sink>>

\* What a compressor and the Writer around it emit
Header(i)             == <<"header", i>>
Deflated(a, upto, end) == <<"deflate", a, upto, end>>
Trailer(n)            == <<"trailer", n>>
Torn                  == <<"torn">>   \* some prefix of a write that failed

NoCall == [flush |-> "none", left |-> 0]
Fresh  == [fed |-> 0, shown |-> 0, last |-> "unused", finished |-> FALSE]

Init ==
  /\ statePool = {} /\ scratchPool = {}
  /\ comp = [x \in States |-> Fresh]
  /\ cap = [b \in Bufs |-> 0] /\ content = [b \in Bufs |-> <<>>]
  /\ st = [a \in Actors |-> None] /\ buf = [a \in Actors |-> None]
  /\ pc = [a \in Actors |-> "idle"]
  /\ call = [w \in Writers |-> NoCall]
  /\ dclosed = [w \in Writers |-> FALSE]
  /\ wroteHeader = [w \in Writers |-> FALSE] /\ closed = [w \in Writers |-> FALSE]
  /\ err = [w \in Writers |-> "none"] /\ crc = [w \in Writers |-> 0]
  /\ sink = [w \in Writers |-> <<>>]
  /\ result = [c \in Callers |-> <<>>]

-----------------------------------------------------------------------------
(* The pools                                                               *)

\* Get returns a pooled object or a new one
Obtainable(all, pool, held) ==
  pool \cup {x \in all : x \notin pool /\ \A a \in Actors : held[a] # x}

\* [mutant] a huge buffer is pooled like any other
PutScratchAny(b) == scratchPool' = scratchPool \cup {b} /\ UNCHANGED cap

\* putScratch: a huge buffer is dropped, its slice header is still pooled
PutScratch(b) ==
  /\ scratchPool' = scratchPool \cup {b}
  /\ cap' = IF cap[b] > MaxPooled THEN [cap EXCEPT ![b] = 0] ELSE cap

\* [mutant] the Deflater keeps its reference to the buffer it has pooled
ReleaseScratchKept(w) ==
  IF buf[w] = None THEN UNCHANGED <<scratchPool, cap, buf>> ELSE PutScratch(buf[w]) /\ UNCHANGED buf
\* [mutant] an error path keeps the buffer
ReleaseScratchNever(w) == UNCHANGED <<scratchPool, cap, buf>>

\* releaseScratch
ReleaseScratch(w) ==
  IF buf[w] = None THEN UNCHANGED <<scratchPool, cap, buf>>
  ELSE PutScratch(buf[w]) /\ buf' = [buf EXCEPT ![w] = None]

\* Deflater.Close.  Its two Puts commute with every step of other goroutines.
CloseDeflater(w) ==
  IF dclosed[w] THEN UNCHANGED <<statePool, scratchPool, cap, st, buf, dclosed>>
  ELSE /\ dclosed' = [dclosed EXCEPT ![w] = TRUE]
       /\ ReleaseScratch(w)
       /\ st' = [st EXCEPT ![w] = None]
       /\ statePool' = IF st[w] = None THEN statePool ELSE statePool \cup {st[w]}

\* The garbage collector empties pools
Collect ==
  \/ /\ statePool # {}
     /\ \E x \in statePool : statePool' = statePool \ {x}
     /\ UNCHANGED <<scratchPool, comp, cap, content, st, buf, pc, result>> /\ UNCHANGED writerVars
  \/ /\ scratchPool # {}
     /\ \E b \in scratchPool : /\ scratchPool' = scratchPool \ {b}
                               /\ cap' = [cap EXCEPT ![b] = 0]
     /\ UNCHANGED <<statePool, comp, content, st, buf, pc, result>> /\ UNCHANGED writerVars

-----------------------------------------------------------------------------
(* Writer: the calls                                                       *)

Goto(a, l) == pc' = [pc EXCEPT ![a] = l]
\* [mutants] the checks at the top of Write, Flush and Close
UsableAfterError(w) == pc[w] = "idle" /\ ~closed[w]
UsableWhenClosed(w) == pc[w] = "idle" /\ err[w] = "none"
Usable(w)  == pc[w] = "idle" /\ err[w] = "none" /\ ~closed[w]

\* A call that gets past the checks of z.err and z.closed
Begin(w, flush, n) ==
  /\ call' = [call EXCEPT ![w] = [flush |-> flush, left |-> n]]
  /\ wroteHeader' = [wroteHeader EXCEPT ![w] = TRUE]
  /\ Goto(w, IF wroteHeader[w] THEN "enter" ELSE "header")
  /\ UNCHANGED <<statePool, scratchPool, comp, cap, content, st, buf, dclosed, err, crc, sink, result>>

Write(w, n) == Usable(w) /\ crc[w] + n <= MaxUnits /\ Begin(w, "none", n) /\ UNCHANGED closed
Flush(w)    == Usable(w) /\ Begin(w, "sync", 0) /\ UNCHANGED closed
\* [mutant] Close only flushes
CloseFlushes(w) == Usable(w) /\ Begin(w, "sync", 0) /\ closed' = [closed EXCEPT ![w] = TRUE]
Close(w)    == Usable(w) /\ Begin(w, "finish", 0) /\ closed' = [closed EXCEPT ![w] = TRUE]

\* Close on a Writer that has failed
CloseFailed(w) ==
  /\ pc[w] = "idle" /\ err[w] # "none"
  /\ CloseDeflater(w)
  /\ UNCHANGED <<comp, content, pc, call, wroteHeader, closed, err, crc, sink, result>>

Reset(w) ==
  /\ pc[w] = "idle"
  /\ CloseDeflater(w)
  /\ wroteHeader' = [wroteHeader EXCEPT ![w] = FALSE]
  /\ closed' = [closed EXCEPT ![w] = FALSE]
  /\ err' = [err EXCEPT ![w] = "none"]
  /\ crc' = [crc EXCEPT ![w] = 0]
  /\ sink' = [sink EXCEPT ![w] = <<>>]
  /\ call' = [call EXCEPT ![w] = NoCall]
  /\ UNCHANGED <<comp, content, pc, result>>

\* The call returns an error, which sticks
Fail(w, e) ==
  /\ err' = [err EXCEPT ![w] = e]
  /\ Goto(w, "idle")

-----------------------------------------------------------------------------
(* Writer: ensureStarted                                                   *)

\* One write of the header; the fixed part first, then the optional fields
WriteHeader(w) ==
  /\ pc[w] = "header"
  /\ \/ /\ sink' = [sink EXCEPT ![w] = Append(@, Header(Len(@) + 1))]
        /\ Goto(w, IF Len(sink[w]) + 1 = HeaderWrites THEN "init" ELSE "header")
        /\ UNCHANGED err
     \/ /\ sink' = [sink EXCEPT ![w] = Append(@, Torn)]
        /\ Fail(w, "sink")
  /\ UNCHANGED <<statePool, scratchPool, comp, cap, content, st, buf, call, dclosed,
                 wroteHeader, closed, crc, result>>

\* Deflater.Init: a live Deflater would give its state back first
InitDeflater(w) ==
  /\ pc[w] = "init"
  /\ LET live == ~dclosed[w] /\ st[w] # None
         pool == IF live THEN statePool \cup {st[w]} ELSE statePool
     IN  \E x \in Obtainable(States, pool, [st EXCEPT ![w] = None]) :
           /\ statePool' = pool \ {x}
           /\ st' = [st EXCEPT ![w] = x]
           /\ comp' = [comp EXCEPT ![x] = Fresh]
  /\ ReleaseScratch(w)
  /\ dclosed' = [dclosed EXCEPT ![w] = FALSE]
  /\ Goto(w, "enter")
  /\ UNCHANGED <<content, call, wroteHeader, closed, err, crc, sink, result>>

-----------------------------------------------------------------------------
(* Writer: Deflate                                                         *)

\* After ensureStarted: an empty Write is done, any other checksums its input
\* and enters Deflater.Deflate, which refuses a closed or finished stream
Enter(w) ==
  /\ pc[w] = "enter"
  /\ LET empty   == call[w].flush = "none" /\ call[w].left = 0
         refused == \/ dclosed[w] \/ st[w] = None
                    \/ comp[st[w]].finished /\ call[w].flush # "finish"
     IN  /\ crc' = [crc EXCEPT ![w] = @ + call[w].left]
         /\ IF empty THEN Goto(w, "idle") /\ UNCHANGED err
            ELSE IF refused THEN Fail(w, "deflater")
            ELSE Goto(w, "chunk") /\ UNCHANGED err
  /\ UNCHANGED <<statePool, scratchPool, comp, cap, content, st, buf, call, dclosed,
                 wroteHeader, closed, sink, result>>

\* [mutant] a long input is not advanced
ChunkNothing(w) == IF call[w].left <= 1 THEN call[w].left ELSE 0

\* The next piece Deflate hands to the compressor
Chunk(w) == IF w \in Stored \/ call[w].left <= 1 THEN call[w].left ELSE 1

\* The scratch buffer: kept from the previous call, or pooled, and large enough
Acquire(w) ==
  /\ pc[w] = "chunk"
  /\ LET need == Chunk(w) + 1
     IN  IF buf[w] = None
           THEN \E b \in Obtainable(Bufs, scratchPool, buf) :
                  /\ scratchPool' = scratchPool \ {b}
                  /\ buf' = [buf EXCEPT ![w] = b]
                  /\ cap' = IF cap[b] < need THEN [cap EXCEPT ![b] = need] ELSE cap
           ELSE /\ cap' = IF cap[buf[w]] < need THEN [cap EXCEPT ![buf[w]] = need] ELSE cap
                /\ UNCHANGED <<scratchPool, buf>>
  /\ Goto(w, "compress")
  /\ UNCHANGED <<statePool, comp, content, st, result>> /\ UNCHANGED writerVars

\* [mutant] a flush without new input is taken for a repeated one
EmittedIfFed(a, z, n, f, shown) ==
  LET end == IF f = "none" \/ (n = 0 /\ f # "finish") THEN "none" ELSE f
  IN  IF shown = z.shown /\ end = "none" THEN <<>> ELSE <<Deflated(a, shown, end)>>

\* Output of one deflateOnce(f) by a on n more units: nothing, or one item
Emitted(a, z, n, f, shown) ==
  LET repeated == n = 0 /\ f = z.last /\ f # "finish"
      end      == IF f = "none" \/ repeated THEN "none" ELSE f
  IN  IF shown = z.shown /\ end = "none" THEN <<>> ELSE <<Deflated(a, shown, end)>>

\* deflateOnce into the scratch buffer.  Without a flush it may hold anything
\* back; only the last piece applies the flush of the caller.
Compress(w) ==
  /\ pc[w] = "compress"
  /\ LET n   == Chunk(w)
         f   == IF n = call[w].left THEN call[w].flush ELSE "none"
         z   == comp[st[w]]
         fed == z.fed + n
     IN  /\ \E shown \in (IF f = "none" THEN z.shown ELSE fed) .. fed :
              /\ comp' = [comp EXCEPT ![st[w]] = [fed |-> fed, shown |-> shown, last |-> f,
                                                  finished |-> z.finished \/ f = "finish"]]
              /\ content' = [content EXCEPT ![buf[w]] = Emitted(w, z, n, f, shown)]
         /\ call' = [call EXCEPT ![w].left = @ - n]
  /\ Goto(w, "emit")
  /\ UNCHANGED <<statePool, scratchPool, cap, st, buf, dclosed, wroteHeader, closed,
                 err, crc, sink, result>>

\* Pass the output on; afterwards an oversized buffer is not retained
Emit(w) ==
  /\ pc[w] = "emit"
  /\ \/ /\ sink' = [sink EXCEPT ![w] = @ \o content[buf[w]]]
        /\ IF cap[buf[w]] > MaxPooled THEN ReleaseScratch(w)
           ELSE UNCHANGED <<scratchPool, cap, buf>>
        /\ Goto(w, IF call[w].left > 0 THEN "chunk"
                   ELSE IF call[w].flush = "finish" THEN "release" ELSE "idle")
        /\ UNCHANGED err
     \/ /\ content[buf[w]] # <<>>
        /\ sink' = [sink EXCEPT ![w] = Append(@, Torn)]
        /\ ReleaseScratch(w)
        /\ Fail(w, "sink")
  /\ UNCHANGED <<statePool, comp, content, st, call, dclosed, wroteHeader, closed, crc, result>>

\* Close: the Deflater is closed before the trailer is written
Release(w) ==
  /\ pc[w] = "release"
  /\ CloseDeflater(w)
  /\ Goto(w, "trailer")
  /\ UNCHANGED <<comp, content, call, wroteHeader, closed, err, crc, sink, result>>

WriteTrailer(w) ==
  /\ pc[w] = "trailer"
  /\ \/ /\ sink' = [sink EXCEPT ![w] = Append(@, Trailer(crc[w]))]
        /\ Goto(w, "idle") /\ UNCHANGED err
     \/ /\ sink' = [sink EXCEPT ![w] = Append(@, Torn)]
        /\ Fail(w, "sink")
  /\ UNCHANGED <<statePool, scratchPool, comp, cap, content, st, buf, call, dclosed,
                 wroteHeader, closed, crc, result>>

-----------------------------------------------------------------------------
(* One-shot calls                                                          *)

\* getScratch(Bound(len(input)))
GetScratch(c) ==
  /\ pc[c] = "idle"
  /\ \E b \in Obtainable(Bufs, scratchPool, buf), n \in 1 .. MaxWrite :
       /\ scratchPool' = scratchPool \ {b}
       /\ buf' = [buf EXCEPT ![c] = b]
       /\ cap' = IF cap[b] < n + 1 THEN [cap EXCEPT ![b] = n + 1] ELSE cap
  /\ Goto(c, "state")
  /\ result' = [result EXCEPT ![c] = <<>>]
  /\ UNCHANGED <<statePool, comp, content, st>> /\ UNCHANGED writerVars

\* compressInto: take a state and reset it
GetState(c) ==
  /\ pc[c] = "state"
  /\ \E x \in Obtainable(States, statePool, st) :
       /\ statePool' = statePool \ {x}
       /\ st' = [st EXCEPT ![c] = x]
       /\ comp' = [comp EXCEPT ![x] = Fresh]
  /\ Goto(c, "squeeze")
  /\ UNCHANGED <<scratchPool, cap, content, buf, result>> /\ UNCHANGED writerVars

\* compressInto: deflateOnce(zFinish) on the whole input, of one unit here
Squeeze(c) ==
  /\ pc[c] = "squeeze"
  /\ LET z == comp[st[c]]
     IN  /\ comp' = [comp EXCEPT ![st[c]] = [fed |-> z.fed + 1, shown |-> z.fed + 1,
                                             last |-> "finish", finished |-> TRUE]]
         /\ content' = [content EXCEPT ![buf[c]] = Emitted(c, z, 1, "finish", z.fed + 1)]
  /\ Goto(c, "put")
  /\ UNCHANGED <<statePool, scratchPool, cap, st, buf, result>> /\ UNCHANGED writerVars

\* [mutant] the scratch buffer goes back together with the state
PutStateAndScratch(c) ==
  /\ pc[c] = "put"
  /\ statePool' = statePool \cup {st[c]} /\ PutScratch(buf[c])
  /\ st' = [st EXCEPT ![c] = None]
  /\ Goto(c, "copy")
  /\ UNCHANGED <<comp, content, buf, result>> /\ UNCHANGED writerVars

PutState(c) ==
  /\ pc[c] = "put"
  /\ statePool' = statePool \cup {st[c]}
  /\ st' = [st EXCEPT ![c] = None]
  /\ Goto(c, "copy")
  /\ UNCHANGED <<scratchPool, comp, cap, content, buf, result>> /\ UNCHANGED writerVars

\* Copy the result out of the scratch buffer, and only then give it back
CopyResult(c) ==
  /\ pc[c] = "copy"
  /\ result' = [result EXCEPT ![c] = content[buf[c]]]
  /\ Goto(c, "giveback")
  /\ UNCHANGED <<statePool, scratchPool, comp, cap, content, st, buf>> /\ UNCHANGED writerVars

GiveBack(c) ==
  /\ pc[c] = "giveback"
  /\ PutScratch(buf[c])
  /\ buf' = [buf EXCEPT ![c] = None]
  /\ Goto(c, "idle")
  /\ UNCHANGED <<statePool, comp, content, st, result>> /\ UNCHANGED writerVars

-----------------------------------------------------------------------------

WriterCall(w) == (\E n \in 0 .. MaxWrite : Write(w, n)) \/ Flush(w) \/ Close(w)
                 \/ CloseFailed(w) \/ Reset(w)
WriterStep(w) == WriteHeader(w) \/ InitDeflater(w) \/ Enter(w) \/ Acquire(w) \/ Compress(w)
                 \/ Emit(w) \/ Release(w) \/ WriteTrailer(w)
CallerStep(c) == GetState(c) \/ Squeeze(c) \/ PutState(c) \/ CopyResult(c) \/ GiveBack(c)

Next == \/ \E w \in Writers : WriterCall(w) \/ WriterStep(w)
        \/ \E c \in Callers : GetScratch(c) \/ CallerStep(c)
        \/ Collect

\* Every call runs on; nobody has to make one
Fairness == /\ \A w \in Writers : WF_vars(WriterStep(w))
            /\ \A c \in Callers : WF_vars(CallerStep(c))
Spec == Init /\ [][Next]_vars /\ Fairness
-----------------------------------------------------------------------------
(* Properties                                                              *)

Ends   == {"none", "sync", "finish"}
Items  == ({"header"} \X Nat) \cup ({"deflate"} \X Actors \X Nat \X Ends)
          \cup ({"trailer"} \X Nat) \cup {Torn}
WriterLabels == {"idle", "header", "init", "enter", "chunk", "compress", "emit", "release", "trailer"}
CallerLabels == {"idle", "state", "squeeze", "put", "copy", "giveback"}

\* Every variable stays within its type.
TypeOK ==
  /\ statePool \subseteq States /\ scratchPool \subseteq Bufs
  /\ comp \in [States -> [fed : Nat, shown : Nat, last : Ends \cup {"unused"}, finished : BOOLEAN]]
  /\ cap \in [Bufs -> Nat] /\ content \in [Bufs -> Seq(Items)]
  /\ st \in [Actors -> States \cup {None}] /\ buf \in [Actors -> Bufs \cup {None}]
  /\ pc \in [Actors -> WriterLabels \cup CallerLabels]
  /\ call \in [Writers -> [flush : Ends, left : 0 .. MaxWrite]]
  /\ dclosed \in [Writers -> BOOLEAN] /\ wroteHeader \in [Writers -> BOOLEAN]
  /\ closed \in [Writers -> BOOLEAN] /\ err \in [Writers -> {"none", "sink", "deflater"}]
  /\ crc \in [Writers -> Nat]
  /\ sink \in [Writers -> Seq(Items)] /\ result \in [Callers -> Seq(Items)]

\* An object is never used by two goroutines, nor used while it is in its pool:
\* no Put leaves a reference behind, whichever path a call takes (Init, Close,
\* Reset, the error returns of Deflate, compressInto, GzipCompressLevel).
Exclusive ==
  \A a \in Actors :
    /\ st[a] \notin statePool /\ buf[a] \notin scratchPool
    /\ \A b \in Actors \ {a} : /\ st[a] # None => st[a] # st[b]
                               /\ buf[a] # None => buf[a] # buf[b]

Kind(item) == item[1]
Last(seq)  == seq[Len(seq)]

\* What the underlying io.Writer has received is a prefix of one GZIP stream:
\* the header, then compressed data of this Writer in order, then the trailer
\* with the checksum of what the finished data decodes to.
SinkWellFormed ==
  \A w \in Writers : \A i \in DOMAIN sink[w] :
    LET item == sink[w][i]
        data(k) == k > HeaderWrites /\ Kind(sink[w][k]) = "deflate"
    IN  \/ i <= HeaderWrites /\ item = Header(i)
        \/ /\ data(i) /\ item[2] = w /\ item[3] <= crc[w]
           /\ i - 1 > HeaderWrites => /\ data(i - 1) /\ sink[w][i - 1][3] <= item[3]
                                      /\ sink[w][i - 1][4] # "finish"
        \/ data(i - 1) /\ sink[w][i - 1] = Deflated(w, crc[w], "finish") /\ item = Trailer(crc[w])
        \/ item = Torn /\ i = Len(sink[w]) /\ err[w] = "sink"

\* Close that returns nil has delivered the whole stream (gzip.go:16-19).
CloseDelivers ==
  \A w \in Writers :
    pc[w] = "idle" /\ closed[w] /\ err[w] = "none" =>
      Len(sink[w]) >= HeaderWrites + 2 /\ Last(sink[w]) = Trailer(crc[w])

\* Flush that returns nil has pushed out all data written so far, up to a sync
\* marker; a repeated Flush adds nothing and loses nothing (gzip.go:319-321).
FlushDelivers ==
  \A w \in Writers :
    pc[w] = "idle" /\ wroteHeader[w] /\ err[w] = "none" /\ call[w].flush = "sync" =>
      Last(sink[w]) = Deflated(w, crc[w], "sync")

\* Once a call has failed the stream never changes again until Reset: a torn
\* stream is not continued by a later Write, Flush or Close.
NothingAfterError ==
  [][\A w \in Writers : err[w] # "none" => sink'[w] = sink[w] \/ (sink'[w] = <<>> /\ err'[w] = "none")]_vars

\* "A failed stream must not pin the buffer" (stream.go:135, 145).
FailedHoldsNoScratch ==
  \A w \in Writers : pc[w] = "idle" /\ err[w] # "none" => buf[w] = None

\* After Close has returned nil the Writer holds no pooled object, and stays
\* that way until Reset (gzip.go:366).
ClosedPinsNothing ==
  \A w \in Writers : pc[w] = "idle" /\ closed[w] /\ err[w] = "none" => st[w] = None /\ buf[w] = None

\* No buffer beyond maxPooledBuf is kept, neither in the pool nor by a Writer
\* between two calls (gzip.go:17-23, stream.go:149-154).
HugeBuffersDropped ==
  /\ \A b \in scratchPool : cap[b] <= MaxPooled
  /\ \A w \in Writers : pc[w] = "idle" /\ buf[w] # None => cap[buf[w]] <= MaxPooled

\* A one-shot call returns the compression of its own input, whatever the other
\* goroutines do to the pools meanwhile ("a freshly allocated copy").
OneShotExact ==
  \A c \in Callers : result[c] \in {<<>>, <<Deflated(c, 1, "finish")>>}

\* The Writer never runs into ErrDeflaterClosed or ErrAfterFinish.
NoInternalError == \A w \in Writers : err[w] # "deflater"

\* Every call of a Writer and every one-shot call returns.
CallsReturn == \A a \in Actors : pc[a] # "idle" ~> pc[a] = "idle"

\* "An errored Writer pins nothing" (gzip.go:349-350), once it has been closed.
ErroredPinsNothing ==
  \A w \in Writers : pc[w] = "idle" /\ closed[w] /\ err[w] # "none" => st[w] = None /\ buf[w] = None
=============================================================================
