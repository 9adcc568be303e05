--------------------------- MODULE GzipWriter_proof ---------------------------
(***************************************************************************)
(* Writers, one-shot callers and the pools, for any number of each: type   *)
(* correctness, exclusive ownership of the pooled objects, and the life    *)
(* cycle of a Writer and its Deflater: what a Writer holds at each point   *)
(* of a call, after a failure and after Close, and how large it may be.    *)
(* Then what the underlying io.Writer receives: one well-formed stream,    *)
(* complete after Close, up to date after Flush, untouched after an error; *)
(* and what a one-shot call returns.                                       *)
(***************************************************************************)
EXTENDS GzipWriter, TLAPS

\* Where an actor stands tells which objects it holds: what each step of a call
\* relies on when it dereferences d.s, d.scratch, s or sp.
Placed ==
  /\ \A w \in Writers : /\ pc[w] \in WriterLabels
                        /\ pc[w] \in {"chunk", "compress", "emit"} => st[w] # None
                        /\ pc[w] \in {"compress", "emit"} => buf[w] # None
  /\ \A c \in Callers : /\ pc[c] \in CallerLabels
                        /\ pc[c] # "idle" => buf[c] # None
                        /\ pc[c] \in {"squeeze", "put"} => st[c] # None

\* The inductive invariant
IInv == TypeOK /\ Exclusive /\ Placed

USE DEF Actors

LEMMA InitIInv == Init => IInv
  BY ActorAssumption, NoneAssumption, BoundAssumption
  DEF Init, IInv, TypeOK, Exclusive, Placed, WriterLabels, CallerLabels, Fresh, NoCall, Ends

LEMMA BeginIInv ==
  ASSUME IInv, NEW w \in Writers, NEW n \in 0 .. MaxWrite, Write(w, n) \/ Flush(w) \/ Close(w)
  PROVE  IInv'
<1>1. TypeOK'
  <2>1. PICK f \in Ends, k \in 0 .. MaxWrite : Begin(w, f, k)
    BY BoundAssumption DEF Write, Flush, Close, Ends
  <2>2. closed' \in [Writers -> BOOLEAN]
    BY DEF IInv, TypeOK, Write, Flush, Close
  <2>3. call' \in [Writers -> [flush : Ends, left : 0 .. MaxWrite]]
    BY <2>1 DEF IInv, TypeOK, Begin
  <2>4. pc' \in [Actors -> WriterLabels \cup CallerLabels]
    BY <2>1 DEF IInv, TypeOK, Begin, Goto, WriterLabels
  <2>5. wroteHeader' \in [Writers -> BOOLEAN]
    BY <2>1 DEF IInv, TypeOK, Begin
  <2> QED BY <2>1, <2>2, <2>3, <2>4, <2>5 DEF IInv, TypeOK, Begin
<1>2. Exclusive'
  BY DEF IInv, Exclusive, Write, Flush, Close, Begin
<1>3. Placed'
  BY ActorAssumption DEF IInv, Placed, TypeOK, Write, Flush, Close, Begin, Usable, Goto, WriterLabels
<1> QED BY <1>1, <1>2, <1>3 DEF IInv

LEMMA CollectIInv == IInv /\ Collect => IInv'
<1> SUFFICES ASSUME IInv, Collect PROVE IInv'
  OBVIOUS
<1>1. TypeOK'
  <2>1. statePool' \subseteq States /\ scratchPool' \subseteq Bufs
    BY DEF IInv, TypeOK, Collect
  <2>2. cap' \in [Bufs -> Nat]
    BY DEF IInv, TypeOK, Collect
  <2> QED BY <2>1, <2>2 DEF IInv, TypeOK, Collect, writerVars
<1>2. Exclusive'
  BY DEF IInv, Exclusive, Collect
<1>3. Placed'
  BY DEF IInv, Placed, Collect
<1> QED BY <1>1, <1>2, <1>3 DEF IInv

-----------------------------------------------------------------------------
(* What the helpers that touch the pools do, given the invariant           *)

\* Releasing a buffer leaves every other actor's alone and pools only this one
LEMMA ReleaseScratchFrame ==
  ASSUME IInv, NEW w \in Writers, ReleaseScratch(w)
  PROVE  /\ scratchPool' \subseteq Bufs /\ cap' \in [Bufs -> Nat]
         /\ buf' = [buf EXCEPT ![w] = None]
         /\ \A b \in scratchPool' : b \in scratchPool \/ b = buf[w]
<1>1. CASE buf[w] = None
  BY <1>1 DEF IInv, TypeOK, ReleaseScratch
<1>2. CASE buf[w] # None
  <2>1. buf[w] \in Bufs
    BY <1>2 DEF IInv, TypeOK
  <2>2. PutScratch(buf[w]) /\ buf' = [buf EXCEPT ![w] = None]
    BY <1>2 DEF ReleaseScratch
  <2> QED BY <2>1, <2>2 DEF IInv, TypeOK, PutScratch
<1> QED BY <1>1, <1>2

\* Closing a Deflater leaves it holding nothing, if it was live
LEMMA CloseDeflaterFrame ==
  ASSUME IInv, NEW w \in Writers, CloseDeflater(w)
  PROVE  /\ statePool' \subseteq States /\ scratchPool' \subseteq Bufs /\ cap' \in [Bufs -> Nat]
         /\ dclosed' \in [Writers -> BOOLEAN]
         /\ \/ UNCHANGED <<st, buf, statePool, scratchPool>>
            \/ /\ buf' = [buf EXCEPT ![w] = None] /\ st' = [st EXCEPT ![w] = None]
               /\ \A b \in scratchPool' : b \in scratchPool \/ b = buf[w]
               /\ \A x \in statePool' : x \in statePool \/ x = st[w]
<1>1. CASE dclosed[w]
  BY <1>1 DEF IInv, TypeOK, CloseDeflater
<1>2. CASE ~dclosed[w]
  <2>1. ReleaseScratch(w)
    BY <1>2 DEF CloseDeflater
  <2>2. statePool' \subseteq States /\ \A x \in statePool' : x \in statePool \/ x = st[w]
    BY <1>2 DEF IInv, TypeOK, CloseDeflater
  <2>3. dclosed' \in [Writers -> BOOLEAN] /\ st' = [st EXCEPT ![w] = None]
    BY <1>2 DEF IInv, TypeOK, CloseDeflater
  <2> QED BY <2>1, <2>2, <2>3, ReleaseScratchFrame
<1> QED BY <1>1, <1>2

\* When only w lets go of what it holds, ownership stays exclusive
LEMMA LetGoExclusive ==
  ASSUME IInv, NEW w \in Actors,
         \/ UNCHANGED <<st, statePool>>
         \/ /\ st' = [st EXCEPT ![w] = None] /\ statePool' \subseteq States
            /\ \A x \in statePool' : x \in statePool \/ x = st[w],
         \/ UNCHANGED <<buf, scratchPool>>
         \/ /\ buf' = [buf EXCEPT ![w] = None] /\ scratchPool' \subseteq Bufs
            /\ \A b \in scratchPool' : b \in scratchPool \/ b = buf[w]
  PROVE  Exclusive' /\ st' \in [Actors -> States \cup {None}] /\ buf' \in [Actors -> Bufs \cup {None}]
<1>1. st' \in [Actors -> States \cup {None}] /\ buf' \in [Actors -> Bufs \cup {None}]
  BY DEF IInv, TypeOK
<1>2. ASSUME NEW a \in Actors
      PROVE  st'[a] \notin statePool' /\ buf'[a] \notin scratchPool'
  <2>1. st'[a] \notin statePool'
    BY NoneAssumption DEF IInv, TypeOK, Exclusive
  <2>2. buf'[a] \notin scratchPool'
    BY ZenonT(60), NoneAssumption DEF IInv, TypeOK, Exclusive
  <2> QED BY <2>1, <2>2
<1>3. ASSUME NEW a \in Actors, NEW b \in Actors \ {a}
      PROVE  (st'[a] # None => st'[a] # st'[b]) /\ (buf'[a] # None => buf'[a] # buf'[b])
  <2>1. st'[a] # None => st'[a] # st'[b]
    BY DEF IInv, TypeOK, Exclusive
  <2>2. buf'[a] # None => buf'[a] # buf'[b]
    BY DEF IInv, TypeOK, Exclusive
  <2> QED BY <2>1, <2>2
<1> QED BY <1>1, <1>2, <1>3 DEF Exclusive

\* It leaves what the other actors hold alone
LEMMA CloseDeflaterOthers ==
  ASSUME IInv, NEW w \in Writers, CloseDeflater(w)
  PROVE  \A a \in Actors \ {w} : st'[a] = st[a] /\ buf'[a] = buf[a]
<1>1. st \in [Actors -> States \cup {None}] /\ buf \in [Actors -> Bufs \cup {None}]
  BY DEF IInv, TypeOK
<1>2. \/ UNCHANGED <<st, buf>>
      \/ buf' = [buf EXCEPT ![w] = None] /\ st' = [st EXCEPT ![w] = None]
  BY CloseDeflaterFrame
<1> QED BY <1>1, <1>2

\* When a takes a state out of the pool, or a new one
LEMMA TakeStateExclusive ==
  ASSUME IInv, NEW a \in Actors, NEW x \in Obtainable(States, statePool, st),
         statePool' = statePool \ {x}, st' = [st EXCEPT ![a] = x],
         UNCHANGED <<buf, scratchPool>>
  PROVE  Exclusive' /\ statePool' \subseteq States /\ st' \in [Actors -> States \cup {None}]
BY DEF IInv, TypeOK, Exclusive, Obtainable

LEMMA TakeBufExclusive ==
  ASSUME IInv, NEW a \in Actors, NEW b \in Obtainable(Bufs, scratchPool, buf),
         scratchPool' = scratchPool \ {b}, buf' = [buf EXCEPT ![a] = b],
         UNCHANGED <<st, statePool>>
  PROVE  Exclusive' /\ scratchPool' \subseteq Bufs /\ buf' \in [Actors -> Bufs \cup {None}]
BY DEF IInv, TypeOK, Exclusive, Obtainable

-----------------------------------------------------------------------------
(* The steps of a Writer                                                   *)

LEMMA CloseFailedIInv == ASSUME IInv, NEW w \in Writers, CloseFailed(w) PROVE IInv'
<1>1. CloseDeflater(w)
  BY DEF CloseFailed
<1>2. TypeOK' /\ Exclusive'
  BY <1>1, CloseDeflaterFrame, LetGoExclusive DEF IInv, TypeOK, CloseFailed
<1>3. Placed'
  <2>1. \A a \in Actors \ {w} : st'[a] = st[a] /\ buf'[a] = buf[a]
    BY <1>1, CloseDeflaterOthers
  <2> QED BY <2>1, ActorAssumption DEF IInv, Placed, CloseFailed
<1> QED BY <1>2, <1>3 DEF IInv

LEMMA ResetIInv == ASSUME IInv, NEW w \in Writers, Reset(w) PROVE IInv'
<1>1. CloseDeflater(w)
  BY DEF Reset
<1>2. /\ wroteHeader' \in [Writers -> BOOLEAN] /\ closed' \in [Writers -> BOOLEAN]
      /\ err' \in [Writers -> {"none", "sink", "deflater"}] /\ crc' \in [Writers -> Nat]
  BY DEF IInv, TypeOK, Reset
<1>3. sink' \in [Writers -> Seq(Items)]
  BY DEF IInv, TypeOK, Reset
<1>4. call' \in [Writers -> [flush : Ends, left : 0 .. MaxWrite]]
  BY BoundAssumption DEF IInv, TypeOK, Reset, NoCall, Ends
<1>5. TypeOK' /\ Exclusive'
  BY <1>1, <1>2, <1>3, <1>4, CloseDeflaterFrame, LetGoExclusive DEF IInv, TypeOK, Reset
<1>6. Placed'
  <2>1. \A a \in Actors \ {w} : st'[a] = st[a] /\ buf'[a] = buf[a]
    BY <1>1, CloseDeflaterOthers
  <2> QED BY <2>1, ActorAssumption DEF IInv, Placed, Reset
<1> QED BY <1>5, <1>6 DEF IInv

\* Steps that write to the underlying io.Writer keep the types
LEMMA ItemTypes ==
  /\ Torn \in Items
  /\ \A n \in Nat : Header(n) \in Items /\ Trailer(n) \in Items
  /\ \A a \in Actors, n \in Nat, e \in Ends : Deflated(a, n, e) \in Items
BY DEF Items, Torn, Header, Trailer, Deflated

LEMMA WriteHeaderIInv == ASSUME IInv, NEW w \in Writers, WriteHeader(w) PROVE IInv'
<1>1. sink' \in [Writers -> Seq(Items)]
  <2>1. PICK item \in Items : sink' = [sink EXCEPT ![w] = Append(sink[w], item)]
    <3>1. Torn \in Items /\ Header(Len(sink[w]) + 1) \in Items
      BY ItemTypes DEF IInv, TypeOK
    <3> QED BY <3>1 DEF WriteHeader
  <2>2. Append(sink[w], item) \in Seq(Items)
    BY DEF IInv, TypeOK
  <2> QED BY <2>1, <2>2 DEF IInv, TypeOK
<1>2. PICK l \in WriterLabels : pc' = [pc EXCEPT ![w] = l] /\ l \notin {"chunk", "compress", "emit"}
  BY DEF WriteHeader, Fail, Goto, WriterLabels
<1>2a. pc' \in [Actors -> WriterLabels \cup CallerLabels]
  BY <1>2 DEF IInv, TypeOK
<1>2b. err' \in [Writers -> {"none", "sink", "deflater"}]
  BY DEF IInv, TypeOK, WriteHeader, Fail
<1>3. TypeOK'
  BY <1>1, <1>2a, <1>2b DEF IInv, TypeOK, WriteHeader
<1>4. Exclusive'
  BY DEF IInv, Exclusive, WriteHeader
<1>5. Placed'
  BY <1>2, ActorAssumption DEF IInv, TypeOK, Placed, WriteHeader
<1> QED BY <1>3, <1>4, <1>5 DEF IInv

LEMMA WriteTrailerIInv == ASSUME IInv, NEW w \in Writers, WriteTrailer(w) PROVE IInv'
<1>1. sink' \in [Writers -> Seq(Items)]
  <2>1. PICK item \in Items : sink' = [sink EXCEPT ![w] = Append(sink[w], item)]
    <3>1. Torn \in Items /\ Trailer(crc[w]) \in Items
      BY ItemTypes DEF IInv, TypeOK
    <3> QED BY <3>1 DEF WriteTrailer
  <2>2. Append(sink[w], item) \in Seq(Items)
    BY DEF IInv, TypeOK
  <2> QED BY <2>1, <2>2 DEF IInv, TypeOK
<1>2. PICK l \in WriterLabels : pc' = [pc EXCEPT ![w] = l] /\ l \notin {"chunk", "compress", "emit"}
  BY DEF WriteTrailer, Fail, Goto, WriterLabels
<1>2a. pc' \in [Actors -> WriterLabels \cup CallerLabels]
  BY <1>2 DEF IInv, TypeOK
<1>2b. err' \in [Writers -> {"none", "sink", "deflater"}]
  BY DEF IInv, TypeOK, WriteTrailer, Fail
<1>3. TypeOK'
  BY <1>1, <1>2a, <1>2b DEF IInv, TypeOK, WriteTrailer
<1>4. Exclusive'
  BY DEF IInv, Exclusive, WriteTrailer
<1>5. Placed'
  BY <1>2, ActorAssumption DEF IInv, TypeOK, Placed, WriteTrailer
<1> QED BY <1>3, <1>4, <1>5 DEF IInv

LEMMA FreshType == Fresh \in [fed : Nat, shown : Nat, last : Ends \cup {"unused"}, finished : BOOLEAN]
BY DEF Fresh

LEMMA InitDeflaterIInv == ASSUME IInv, NEW w \in Writers, InitDeflater(w) PROVE IInv'
<1> DEFINE pool == IF ~dclosed[w] /\ st[w] # None THEN statePool \cup {st[w]} ELSE statePool
           held == [st EXCEPT ![w] = None]
<1>1. PICK x \in Obtainable(States, pool, held) :
        statePool' = pool \ {x} /\ st' = [st EXCEPT ![w] = x] /\ comp' = [comp EXCEPT ![x] = Fresh]
  BY DEF InitDeflater
<1>2. pool \subseteq States /\ \A y \in pool : y \in statePool \/ y = st[w]
  BY DEF IInv, TypeOK
<1>3. x \in States /\ \A a \in Actors \ {w} : st[a] # x
  BY <1>2, NoneAssumption DEF IInv, TypeOK, Exclusive, Obtainable
<1>4. statePool' \subseteq States /\ st' \in [Actors -> States \cup {None}]
  BY <1>1, <1>2, <1>3 DEF IInv, TypeOK
<1>5. comp' \in [States -> [fed : Nat, shown : Nat, last : Ends \cup {"unused"}, finished : BOOLEAN]]
  BY <1>1, <1>3, FreshType DEF IInv, TypeOK
<1>6. /\ scratchPool' \subseteq Bufs /\ cap' \in [Bufs -> Nat]
      /\ buf' = [buf EXCEPT ![w] = None] /\ \A b \in scratchPool' : b \in scratchPool \/ b = buf[w]
  BY ReleaseScratchFrame DEF InitDeflater
<1>7. /\ dclosed' \in [Writers -> BOOLEAN] /\ pc' \in [Actors -> WriterLabels \cup CallerLabels]
      /\ buf' \in [Actors -> Bufs \cup {None}]
  BY <1>6 DEF IInv, TypeOK, InitDeflater, Goto, WriterLabels
<1>8. TypeOK'
  BY <1>4, <1>5, <1>6, <1>7 DEF IInv, TypeOK, InitDeflater
<1>9. Exclusive'
  <2>1. ASSUME NEW a \in Actors PROVE st'[a] \notin statePool'
    BY <1>1, <1>2, NoneAssumption DEF IInv, TypeOK, Exclusive
  <2>2. ASSUME NEW a \in Actors PROVE buf'[a] \notin scratchPool'
    BY <1>6, NoneAssumption DEF IInv, TypeOK, Exclusive
  <2>3. ASSUME NEW a \in Actors, NEW b \in Actors \ {a}, st'[a] # None PROVE st'[a] # st'[b]
    BY <2>3, <1>1, <1>3 DEF IInv, TypeOK, Exclusive
  <2>4. ASSUME NEW a \in Actors, NEW b \in Actors \ {a}, buf'[a] # None PROVE buf'[a] # buf'[b]
    BY <2>4, <1>6 DEF IInv, TypeOK, Exclusive
  <2> QED BY <2>1, <2>2, <2>3, <2>4 DEF Exclusive
<1>10. Placed'
  BY <1>1, <1>3, <1>6, ActorAssumption
  DEF IInv, TypeOK, Placed, InitDeflater, Goto, WriterLabels
<1> QED BY <1>8, <1>9, <1>10 DEF IInv

LEMMA EnterIInv == ASSUME IInv, NEW w \in Writers, Enter(w) PROVE IInv'
<1>1. crc' \in [Writers -> Nat]
  BY BoundAssumption DEF IInv, TypeOK, Enter
<1>2. /\ pc' \in [Actors -> WriterLabels \cup CallerLabels]
      /\ err' \in [Writers -> {"none", "sink", "deflater"}]
  BY DEF IInv, TypeOK, Enter, Fail, Goto, WriterLabels
<1>3. TypeOK'
  BY <1>1, <1>2 DEF IInv, TypeOK, Enter
<1>4. Exclusive'
  BY DEF IInv, Exclusive, Enter
<1>5. Placed'
  BY ZenonT(60), ActorAssumption DEF IInv, TypeOK, Placed, Enter, Fail, Goto, WriterLabels
<1> QED BY <1>3, <1>4, <1>5 DEF IInv

\* The piece Deflate hands on is part of what is left
LEMMA ChunkBound ==
  ASSUME IInv, NEW w \in Writers
  PROVE  Chunk(w) \in Nat /\ Chunk(w) <= call[w].left /\ call[w].left \in 0 .. MaxWrite
BY BoundAssumption DEF IInv, TypeOK, Chunk

LEMMA AcquireIInv == ASSUME IInv, NEW w \in Writers, Acquire(w) PROVE IInv'
<1> DEFINE need == Chunk(w) + 1
<1>1. need \in Nat
  BY ChunkBound
<1>2. pc' = [pc EXCEPT ![w] = "compress"] /\ st[w] # None
  BY DEF IInv, Placed, Acquire, Goto
<1>3. pc' \in [Actors -> WriterLabels \cup CallerLabels]
  BY <1>2 DEF IInv, TypeOK, WriterLabels
<1>4. CASE buf[w] = None
  <2>1. PICK b \in Obtainable(Bufs, scratchPool, buf) :
          /\ scratchPool' = scratchPool \ {b} /\ buf' = [buf EXCEPT ![w] = b]
          /\ cap' = IF cap[b] < need THEN [cap EXCEPT ![b] = need] ELSE cap
    BY <1>4 DEF Acquire
  <2>2. b \in Bufs
    BY <2>1 DEF IInv, TypeOK, Obtainable
  <2>3. Exclusive' /\ scratchPool' \subseteq Bufs /\ buf' \in [Actors -> Bufs \cup {None}]
    BY <2>1, TakeBufExclusive DEF Acquire
  <2>4. cap' \in [Bufs -> Nat]
    BY <1>1, <2>1, <2>2 DEF IInv, TypeOK
  <2>5. TypeOK'
    BY <1>3, <2>3, <2>4 DEF IInv, TypeOK, Acquire, writerVars
  <2>6. Placed'
    BY <1>2, <2>1, <2>2, NoneAssumption, ActorAssumption DEF IInv, TypeOK, Placed, Acquire, WriterLabels
  <2> QED BY <2>3, <2>5, <2>6 DEF IInv
<1>5. CASE buf[w] # None
  <2>1. /\ cap' = IF cap[buf[w]] < need THEN [cap EXCEPT ![buf[w]] = need] ELSE cap
        /\ UNCHANGED <<scratchPool, buf, statePool, st>>
    BY <1>5 DEF Acquire
  <2>2. cap' \in [Bufs -> Nat]
    BY <1>1, <2>1 DEF IInv, TypeOK
  <2>3. TypeOK'
    BY <1>3, <2>1, <2>2 DEF IInv, TypeOK, Acquire, writerVars
  <2>4. Exclusive'
    BY <2>1 DEF IInv, Exclusive
  <2>5. Placed'
    BY <1>2, <1>5, <2>1, ActorAssumption DEF IInv, TypeOK, Placed, WriterLabels
  <2> QED BY <2>3, <2>4, <2>5 DEF IInv
<1> QED BY <1>4, <1>5

\* What one call of deflateOnce emits is a sequence of at most one item
LEMMA EmittedType ==
  ASSUME NEW a \in Actors, NEW z, NEW n, NEW f \in Ends, NEW shown \in Nat
  PROVE  Emitted(a, z, n, f, shown) \in Seq(Items)
<1>1. ASSUME NEW e \in Ends PROVE <<Deflated(a, shown, e)>> \in Seq(Items)
  BY ItemTypes
<1>2. <<>> \in Seq(Items)
  OBVIOUS
<1> QED BY <1>1, <1>2 DEF Emitted, Ends

LEMMA CompressIInv == ASSUME IInv, NEW w \in Writers, Compress(w) PROVE IInv'
<1> DEFINE n   == Chunk(w)
           f   == IF n = call[w].left THEN call[w].flush ELSE "none"
           z   == comp[st[w]]
           fed == z.fed + n
<1>1. st[w] \in States /\ buf[w] \in Bufs
  BY DEF IInv, TypeOK, Placed, Compress
<1>2. n \in Nat /\ n <= call[w].left /\ call[w].left \in 0 .. MaxWrite
  BY ChunkBound
<1>3. f \in Ends /\ z \in [fed : Nat, shown : Nat, last : Ends \cup {"unused"}, finished : BOOLEAN]
  BY <1>1 DEF IInv, TypeOK, Ends
<1>4. fed \in Nat
  BY <1>2, <1>3
<1>5. PICK shown \in (IF f = "none" THEN z.shown ELSE fed) .. fed :
        /\ comp' = [comp EXCEPT ![st[w]] = [fed |-> fed, shown |-> shown, last |-> f,
                                            finished |-> z.finished \/ f = "finish"]]
        /\ content' = [content EXCEPT ![buf[w]] = Emitted(w, z, n, f, shown)]
  BY DEF Compress
<1>6. shown \in Nat
  BY <1>3, <1>4, <1>5
<1>7. comp' \in [States -> [fed : Nat, shown : Nat, last : Ends \cup {"unused"}, finished : BOOLEAN]]
  <2>1. (z.finished \/ f = "finish") \in BOOLEAN
    OBVIOUS
  <2> DEFINE r == [fed |-> fed, shown |-> shown, last |-> f, finished |-> z.finished \/ f = "finish"]
  <2>2. r \in [fed : Nat, shown : Nat, last : Ends \cup {"unused"}, finished : BOOLEAN]
    BY <1>3, <1>4, <1>6
  <2>3. comp' = [comp EXCEPT ![st[w]] = r]
    BY <1>5
  <2> HIDE DEF r
  <2> QED BY <2>2, <2>3 DEF IInv, TypeOK
<1>8. content' \in [Bufs -> Seq(Items)]
  <2>1. Emitted(w, z, n, f, shown) \in Seq(Items)
    BY <1>3, <1>6, EmittedType
  <2> QED BY <1>5, <2>1 DEF IInv, TypeOK
<1>9. call' \in [Writers -> [flush : Ends, left : 0 .. MaxWrite]]
  <2>1. call[w].left - n \in 0 .. MaxWrite
    BY <1>2, BoundAssumption
  <2>2. call' = [call EXCEPT ![w].left = call[w].left - n]
    BY DEF Compress
  <2> QED BY <2>1, <2>2 DEF IInv, TypeOK
<1>10. pc' = [pc EXCEPT ![w] = "emit"]
  BY DEF Compress, Goto
<1>11. TypeOK'
  BY <1>7, <1>8, <1>9, <1>10 DEF IInv, TypeOK, Compress, WriterLabels
<1>12. Exclusive'
  BY DEF IInv, Exclusive, Compress
<1>13. Placed'
  BY <1>1, <1>10, NoneAssumption, ActorAssumption DEF IInv, TypeOK, Placed, Compress, WriterLabels
<1> QED BY <1>11, <1>12, <1>13 DEF IInv

LEMMA EmitIInv == ASSUME IInv, NEW w \in Writers, Emit(w) PROVE IInv'
<1>1. buf[w] \in Bufs /\ st[w] # None
  BY DEF IInv, TypeOK, Placed, Emit
<1>2. PICK l \in WriterLabels : pc' = [pc EXCEPT ![w] = l] /\ l \notin {"compress", "emit"}
  BY DEF Emit, Fail, Goto, WriterLabels
<1>3. pc' \in [Actors -> WriterLabels \cup CallerLabels]
  BY <1>2 DEF IInv, TypeOK
<1>4. err' \in [Writers -> {"none", "sink", "deflater"}]
  BY DEF IInv, TypeOK, Emit, Fail
<1>5. sink' \in [Writers -> Seq(Items)]
  <2>1. PICK t \in Seq(Items) : sink' = [sink EXCEPT ![w] = t]
    <3>1. sink[w] \o content[buf[w]] \in Seq(Items)
      BY <1>1 DEF IInv, TypeOK
    <3>2. Append(sink[w], Torn) \in Seq(Items)
      BY ItemTypes DEF IInv, TypeOK
    <3> QED BY <3>1, <3>2 DEF Emit
  <2> QED BY <2>1 DEF IInv, TypeOK
<1>6. ReleaseScratch(w) \/ UNCHANGED <<scratchPool, cap, buf>>
  BY DEF Emit
<1>7. /\ scratchPool' \subseteq Bufs /\ cap' \in [Bufs -> Nat]
      /\ \/ UNCHANGED <<buf, scratchPool>>
         \/ /\ buf' = [buf EXCEPT ![w] = None]
            /\ \A b \in scratchPool' : b \in scratchPool \/ b = buf[w]
  BY <1>6, ReleaseScratchFrame DEF IInv, TypeOK
<1>8. Exclusive' /\ buf' \in [Actors -> Bufs \cup {None}]
  BY <1>7, LetGoExclusive DEF Emit
<1>9. TypeOK'
  BY <1>3, <1>4, <1>5, <1>7, <1>8 DEF IInv, TypeOK, Emit
<1>10. Placed'
  BY <1>1, <1>2, <1>7, ActorAssumption DEF IInv, TypeOK, Placed, Emit
<1> QED BY <1>8, <1>9, <1>10 DEF IInv

LEMMA ReleaseIInv == ASSUME IInv, NEW w \in Writers, Release(w) PROVE IInv'
<1>1. CloseDeflater(w) /\ pc' = [pc EXCEPT ![w] = "trailer"]
  BY DEF Release, Goto
<1>2. pc' \in [Actors -> WriterLabels \cup CallerLabels]
  BY <1>1 DEF IInv, TypeOK, WriterLabels
<1>3. TypeOK' /\ Exclusive'
  BY <1>1, <1>2, CloseDeflaterFrame, LetGoExclusive DEF IInv, TypeOK, Release
<1>4. Placed'
  <2>1. \A a \in Actors \ {w} : st'[a] = st[a] /\ buf'[a] = buf[a]
    BY <1>1, CloseDeflaterOthers
  <2> QED BY <1>1, <2>1, ActorAssumption DEF IInv, TypeOK, Placed, WriterLabels
<1> QED BY <1>3, <1>4 DEF IInv

-----------------------------------------------------------------------------
(* The steps of a one-shot call                                            *)

LEMMA GetScratchIInv == ASSUME IInv, NEW c \in Callers, GetScratch(c) PROVE IInv'
<1>1. PICK b \in Obtainable(Bufs, scratchPool, buf), n \in 1 .. MaxWrite :
        /\ scratchPool' = scratchPool \ {b} /\ buf' = [buf EXCEPT ![c] = b]
        /\ cap' = IF cap[b] < n + 1 THEN [cap EXCEPT ![b] = n + 1] ELSE cap
  BY DEF GetScratch
<1>2. b \in Bufs
  BY DEF IInv, TypeOK, Obtainable
<1>3. Exclusive' /\ scratchPool' \subseteq Bufs /\ buf' \in [Actors -> Bufs \cup {None}]
  BY <1>1, TakeBufExclusive DEF GetScratch
<1>4. cap' \in [Bufs -> Nat]
  <2>1. n + 1 \in Nat
    BY BoundAssumption
  <2> QED BY <1>1, <1>2, <2>1 DEF IInv, TypeOK
<1>5. pc' = [pc EXCEPT ![c] = "state"] /\ result' \in [Callers -> Seq(Items)]
  BY DEF IInv, TypeOK, GetScratch, Goto
<1>6. pc' \in [Actors -> WriterLabels \cup CallerLabels]
  BY <1>5 DEF IInv, TypeOK, CallerLabels
<1>7. TypeOK'
  BY <1>3, <1>4, <1>5, <1>6 DEF IInv, TypeOK, GetScratch, writerVars
<1>8. Placed'
  BY <1>1, <1>2, <1>5, NoneAssumption, ActorAssumption
  DEF IInv, TypeOK, Placed, GetScratch, CallerLabels
<1> QED BY <1>3, <1>7, <1>8 DEF IInv

LEMMA GetStateIInv == ASSUME IInv, NEW c \in Callers, GetState(c) PROVE IInv'
<1>1. PICK x \in Obtainable(States, statePool, st) :
        /\ statePool' = statePool \ {x} /\ st' = [st EXCEPT ![c] = x]
        /\ comp' = [comp EXCEPT ![x] = Fresh]
  BY DEF GetState
<1>2. x \in States
  BY DEF IInv, TypeOK, Obtainable
<1>3. Exclusive' /\ statePool' \subseteq States /\ st' \in [Actors -> States \cup {None}]
  BY <1>1, TakeStateExclusive DEF GetState
<1>4. comp' \in [States -> [fed : Nat, shown : Nat, last : Ends \cup {"unused"}, finished : BOOLEAN]]
  BY <1>1, <1>2, FreshType DEF IInv, TypeOK
<1>5. pc' = [pc EXCEPT ![c] = "squeeze"] /\ pc' \in [Actors -> WriterLabels \cup CallerLabels]
  BY DEF IInv, TypeOK, GetState, Goto, CallerLabels
<1>6. TypeOK'
  BY <1>3, <1>4, <1>5 DEF IInv, TypeOK, GetState, writerVars
<1>7. Placed'
  BY <1>1, <1>2, <1>5, NoneAssumption, ActorAssumption
  DEF IInv, TypeOK, Placed, GetState, CallerLabels
<1> QED BY <1>3, <1>6, <1>7 DEF IInv

LEMMA SqueezeIInv == ASSUME IInv, NEW c \in Callers, Squeeze(c) PROVE IInv'
<1> DEFINE fed == comp[st[c]].fed + 1
           r   == [fed |-> fed, shown |-> fed, last |-> "finish", finished |-> TRUE]
<1>1. st[c] \in States /\ buf[c] \in Bufs
  BY DEF IInv, TypeOK, Placed, Squeeze
<1>2. fed \in Nat
  BY <1>1 DEF IInv, TypeOK
<1>3. comp' \in [States -> [fed : Nat, shown : Nat, last : Ends \cup {"unused"}, finished : BOOLEAN]]
  <2>1. r \in [fed : Nat, shown : Nat, last : Ends \cup {"unused"}, finished : BOOLEAN]
    BY <1>2 DEF Ends
  <2>2. comp' = [comp EXCEPT ![st[c]] = r]
    BY DEF Squeeze
  <2> HIDE DEF r
  <2> QED BY <2>1, <2>2 DEF IInv, TypeOK
<1>4. content' \in [Bufs -> Seq(Items)]
  <2>1. Emitted(c, comp[st[c]], 1, "finish", fed) \in Seq(Items)
    BY <1>2, EmittedType DEF Ends
  <2>2. content' = [content EXCEPT ![buf[c]] = Emitted(c, comp[st[c]], 1, "finish", fed)]
    BY DEF Squeeze
  <2> QED BY <2>1, <2>2 DEF IInv, TypeOK
<1>5. pc' = [pc EXCEPT ![c] = "put"] /\ pc' \in [Actors -> WriterLabels \cup CallerLabels]
  BY DEF IInv, TypeOK, Squeeze, Goto, CallerLabels
<1>6. TypeOK'
  BY <1>3, <1>4, <1>5 DEF IInv, TypeOK, Squeeze, writerVars
<1>7. Exclusive'
  BY DEF IInv, Exclusive, Squeeze
<1>8. Placed'
  BY <1>1, <1>5, NoneAssumption, ActorAssumption DEF IInv, TypeOK, Placed, Squeeze, CallerLabels
<1> QED BY <1>6, <1>7, <1>8 DEF IInv

LEMMA PutStateIInv == ASSUME IInv, NEW c \in Callers, PutState(c) PROVE IInv'
<1>1. st[c] \in States /\ buf[c] # None
  BY DEF IInv, TypeOK, Placed, PutState
<1>2. /\ statePool' = statePool \cup {st[c]} /\ st' = [st EXCEPT ![c] = None]
      /\ UNCHANGED <<scratchPool, buf>>
  BY DEF PutState
<1>3. statePool' \subseteq States
  BY <1>1, <1>2 DEF IInv, TypeOK
<1>4. Exclusive' /\ st' \in [Actors -> States \cup {None}]
  BY <1>2, <1>3, LetGoExclusive
<1>5. pc' = [pc EXCEPT ![c] = "copy"] /\ pc' \in [Actors -> WriterLabels \cup CallerLabels]
  BY DEF IInv, TypeOK, PutState, Goto, CallerLabels
<1>6. TypeOK'
  BY <1>3, <1>4, <1>5 DEF IInv, TypeOK, PutState, writerVars
<1>7. Placed'
  BY <1>1, <1>2, <1>5, ActorAssumption DEF IInv, TypeOK, Placed, CallerLabels
<1> QED BY <1>4, <1>6, <1>7 DEF IInv

LEMMA CopyResultIInv == ASSUME IInv, NEW c \in Callers, CopyResult(c) PROVE IInv'
<1>1. buf[c] \in Bufs
  BY DEF IInv, TypeOK, Placed, CopyResult
<1>2. result' \in [Callers -> Seq(Items)]
  BY <1>1 DEF IInv, TypeOK, CopyResult
<1>3. pc' = [pc EXCEPT ![c] = "giveback"] /\ pc' \in [Actors -> WriterLabels \cup CallerLabels]
  BY DEF IInv, TypeOK, CopyResult, Goto, CallerLabels
<1>4. TypeOK'
  BY <1>2, <1>3 DEF IInv, TypeOK, CopyResult, writerVars
<1>5. Exclusive'
  BY DEF IInv, Exclusive, CopyResult
<1>6. Placed'
  BY <1>1, <1>3, NoneAssumption, ActorAssumption DEF IInv, TypeOK, Placed, CopyResult, CallerLabels
<1> QED BY <1>4, <1>5, <1>6 DEF IInv

LEMMA GiveBackIInv == ASSUME IInv, NEW c \in Callers, GiveBack(c) PROVE IInv'
<1>1. buf[c] \in Bufs
  BY DEF IInv, TypeOK, Placed, GiveBack
<1>2. /\ scratchPool' = scratchPool \cup {buf[c]} /\ buf' = [buf EXCEPT ![c] = None]
      /\ UNCHANGED <<statePool, st>>
  BY DEF GiveBack, PutScratch
<1>3. scratchPool' \subseteq Bufs /\ cap' \in [Bufs -> Nat]
  BY <1>1, <1>2 DEF IInv, TypeOK, GiveBack, PutScratch
<1>4. Exclusive' /\ buf' \in [Actors -> Bufs \cup {None}]
  BY <1>2, <1>3, LetGoExclusive
<1>5. pc' = [pc EXCEPT ![c] = "idle"] /\ pc' \in [Actors -> WriterLabels \cup CallerLabels]
  BY DEF IInv, TypeOK, GiveBack, Goto, CallerLabels
<1>6. TypeOK'
  BY <1>3, <1>4, <1>5 DEF IInv, TypeOK, GiveBack, writerVars
<1>7. Placed'
  BY <1>2, <1>5, ActorAssumption DEF IInv, TypeOK, Placed, CallerLabels
<1> QED BY <1>4, <1>6, <1>7 DEF IInv

-----------------------------------------------------------------------------
(* The theorems                                                            *)

LEMMA NextIInv == IInv /\ [Next]_vars => IInv'
<1> SUFFICES ASSUME IInv, [Next]_vars PROVE IInv'
  OBVIOUS
<1>1. CASE Collect
  BY <1>1, CollectIInv
<1>2. ASSUME NEW w \in Writers, WriterCall(w) PROVE IInv'
  BY <1>2, BoundAssumption, BeginIInv, CloseFailedIInv, ResetIInv DEF WriterCall
<1>3. ASSUME NEW w \in Writers, WriterStep(w) PROVE IInv'
  BY <1>3, WriteHeaderIInv, InitDeflaterIInv, EnterIInv, AcquireIInv, CompressIInv, EmitIInv,
     ReleaseIInv, WriteTrailerIInv DEF WriterStep
<1>4. ASSUME NEW c \in Callers, GetScratch(c) PROVE IInv'
  BY <1>4, GetScratchIInv
<1>5. ASSUME NEW c \in Callers, CallerStep(c) PROVE IInv'
  BY <1>5, GetStateIInv, SqueezeIInv, PutStateIInv, CopyResultIInv, GiveBackIInv DEF CallerStep
<1>6. CASE UNCHANGED vars
  <2>1. TypeOK'
    BY <1>6 DEF IInv, TypeOK, vars
  <2>2. Exclusive' /\ Placed'
    BY <1>6 DEF IInv, Exclusive, Placed, vars
  <2> QED BY <2>1, <2>2 DEF IInv
<1> QED BY <1>1, <1>2, <1>3, <1>4, <1>5, <1>6 DEF Next

\* The inductive invariant holds: every step of a call finds the compressor and
\* the buffer it dereferences (gzip.go, stream.go, zdeflate/gzip.go).
THEOREM Invariance == Spec => []IInv
<1>1. Init => IInv
  BY InitIInv
<1>2. IInv /\ [Next]_vars => IInv'
  BY NextIInv
<1> QED BY <1>1, <1>2, PTL DEF Spec

\* Type correctness, for any number of goroutines, objects and units.
THEOREM Typing == Spec => []TypeOK
<1>1. IInv => TypeOK
  BY DEF IInv
<1> QED BY <1>1, Invariance, PTL

\* No compressor state and no scratch buffer is ever used by two goroutines, or
\* used while it is in its pool, however calls, failures, Resets and garbage
\* collections interleave (stream.go:65-69, 110-154, 173-187).
THEOREM Ownership == Spec => []Exclusive
<1>1. IInv => Exclusive
  BY DEF IInv
<1> QED BY <1>1, Invariance, PTL

-----------------------------------------------------------------------------
(* The life cycle of a Writer                                              *)

Empty(w) == st[w] = None /\ buf[w] = None
Ready(w) == st[w] # None /\ ~dclosed[w] /\ ~comp[st[w]].finished

\* The flags of a Writer tell the condition of the Deflater it embeds
Life(w) ==
  /\ dclosed[w] \/ ~wroteHeader[w] \/ pc[w] \in {"header", "init"} => Empty(w)
  /\ pc[w] # "idle" => err[w] = "none" /\ wroteHeader[w]
  /\ err[w] # "none" => buf[w] = None /\ err[w] # "deflater"
  /\ pc[w] \in {"enter", "chunk", "compress"} => Ready(w)
  /\ pc[w] = "idle" /\ wroteHeader[w] /\ ~closed[w] /\ err[w] = "none" => Ready(w)
  /\ pc[w] = "emit" => /\ st[w] # None /\ ~dclosed[w]
                       /\ comp[st[w]].finished => call[w].flush = "finish" /\ call[w].left = 0
  /\ pc[w] \in {"header", "init", "enter", "chunk", "compress", "emit"} =>
       (closed[w] <=> call[w].flush = "finish")
  /\ pc[w] \in {"release", "trailer"} => closed[w]
  /\ pc[w] = "trailer" => dclosed[w]
  /\ pc[w] = "idle" /\ closed[w] /\ err[w] = "none" => dclosed[w]

LifeInv == \A w \in Writers : Life(w)

\* Large buffers are held only while a call is moving data
SmallHeld(w) ==
  pc[w] \in {"idle", "header", "init", "enter"} /\ buf[w] # None => cap[buf[w]] <= MaxPooled
SmallInv == (\A b \in scratchPool : cap[b] <= MaxPooled) /\ \A w \in Writers : SmallHeld(w)

-----------------------------------------------------------------------------
(* Steps of others                                                         *)

\* A Writer whose own variables stay, and whose compressor stays, lives on
LEMMA LifeFrame ==
  ASSUME NEW v \in Writers, Life(v),
         st'[v] = st[v], buf'[v] = buf[v], pc'[v] = pc[v], call'[v] = call[v],
         dclosed'[v] = dclosed[v], wroteHeader'[v] = wroteHeader[v],
         closed'[v] = closed[v], err'[v] = err[v],
         st[v] # None => comp'[st[v]] = comp[st[v]]
  PROVE  Life(v)'
BY DEF Life, Empty, Ready

\* A step of w alone leaves every other Writer as it was
LEMMA LifeOthers ==
  ASSUME IInv, LifeInv, NEW a \in Actors,
         \A v \in Writers \ {a} :
           /\ st'[v] = st[v] /\ buf'[v] = buf[v] /\ pc'[v] = pc[v] /\ call'[v] = call[v]
           /\ dclosed'[v] = dclosed[v] /\ wroteHeader'[v] = wroteHeader[v]
           /\ closed'[v] = closed[v] /\ err'[v] = err[v]
           /\ st[v] # None => comp'[st[v]] = comp[st[v]],
         a \in Writers => Life(a)'
  PROVE  LifeInv'
<1>1. ASSUME NEW v \in Writers \ {a} PROVE Life(v)'
  BY <1>1, LifeFrame DEF LifeInv
<1> QED BY <1>1 DEF LifeInv

LEMMA CallLife ==
  ASSUME IInv, LifeInv, NEW w \in Writers, NEW n \in 0 .. MaxWrite, Write(w, n) \/ Flush(w) \/ Close(w)
  PROVE  LifeInv'
<1>1. PICK f \in Ends, k \in 0 .. MaxWrite :
        /\ Begin(w, f, k) /\ Usable(w)
        /\ closed' = IF f = "finish" THEN [closed EXCEPT ![w] = TRUE] ELSE closed
  BY BoundAssumption DEF Write, Flush, Close, Ends
<1>2. /\ pc' = [pc EXCEPT ![w] = IF wroteHeader[w] THEN "enter" ELSE "header"]
      /\ call' = [call EXCEPT ![w] = [flush |-> f, left |-> k]]
      /\ wroteHeader' = [wroteHeader EXCEPT ![w] = TRUE]
      /\ UNCHANGED <<st, buf, dclosed, err, comp>>
      /\ pc[w] = "idle" /\ err[w] = "none" /\ ~closed[w]
  BY <1>1 DEF Begin, Goto, Usable
<1>3. /\ pc'[w] = IF wroteHeader[w] THEN "enter" ELSE "header"
      /\ call'[w].flush = f /\ wroteHeader'[w]
      /\ (closed'[w] <=> f = "finish")
  BY <1>1, <1>2 DEF IInv, TypeOK
<1>4. Life(w)'
  <2>1. CASE wroteHeader[w]
    BY <1>2, <1>3, <2>1 DEF LifeInv, Life, Empty, Ready
  <2>2. CASE ~wroteHeader[w]
    BY <1>2, <1>3, <2>2 DEF LifeInv, Life, Empty
  <2> QED BY <2>1, <2>2
<1>5. \A v \in Writers \ {w} : pc'[v] = pc[v] /\ call'[v] = call[v] /\ closed'[v] = closed[v]
                               /\ wroteHeader'[v] = wroteHeader[v]
  BY <1>1, <1>2 DEF IInv, TypeOK
<1> QED BY <1>2, <1>4, <1>5, LifeOthers

-----------------------------------------------------------------------------
(* Closing the Deflater                                                    *)

\* CloseDeflater leaves a Writer that lives with a closed, empty Deflater
LEMMA ClosedEmpty ==
  ASSUME IInv, LifeInv, NEW w \in Writers, CloseDeflater(w)
  PROVE  Empty(w)' /\ dclosed' = [dclosed EXCEPT ![w] = TRUE]
<1>1. st \in [Actors -> States \cup {None}] /\ buf \in [Actors -> Bufs \cup {None}]
      /\ dclosed \in [Writers -> BOOLEAN]
  BY DEF IInv, TypeOK
<1>2. CASE dclosed[w]
  BY <1>1, <1>2 DEF LifeInv, Life, Empty, CloseDeflater
<1>3. CASE ~dclosed[w]
  <2>1. buf' = [buf EXCEPT ![w] = None]
    BY <1>3, ReleaseScratchFrame DEF CloseDeflater
  <2>2. st' = [st EXCEPT ![w] = None] /\ dclosed' = [dclosed EXCEPT ![w] = TRUE]
    BY <1>3 DEF CloseDeflater
  <2> QED BY <1>1, <2>1, <2>2 DEF Empty
<1> QED BY <1>2, <1>3

LEMMA CloseFailedLife == ASSUME IInv, LifeInv, NEW w \in Writers, CloseFailed(w) PROVE LifeInv'
<1>1. Empty(w)' /\ dclosed' = [dclosed EXCEPT ![w] = TRUE]
  BY ClosedEmpty DEF CloseFailed
<1>2. dclosed'[w] /\ \A v \in Writers \ {w} : dclosed'[v] = dclosed[v]
  BY <1>1 DEF IInv, TypeOK
<1>3. \A v \in Writers \ {w} : st'[v] = st[v] /\ buf'[v] = buf[v]
  BY CloseDeflaterOthers DEF CloseFailed
<1>4. Life(w)'
  BY <1>1, <1>2 DEF LifeInv, Life, Empty, Ready, CloseFailed
<1> QED BY <1>2, <1>3, <1>4, LifeOthers DEF CloseFailed

LEMMA ResetLife == ASSUME IInv, LifeInv, NEW w \in Writers, Reset(w) PROVE LifeInv'
<1>1. Empty(w)' /\ dclosed' = [dclosed EXCEPT ![w] = TRUE]
  BY ClosedEmpty DEF Reset
<1>2. /\ wroteHeader'[w] = FALSE /\ closed'[w] = FALSE /\ err'[w] = "none" /\ pc'[w] = "idle"
      /\ \A v \in Writers \ {w} : /\ dclosed'[v] = dclosed[v] /\ call'[v] = call[v]
                                  /\ wroteHeader'[v] = wroteHeader[v]
                                  /\ closed'[v] = closed[v] /\ err'[v] = err[v]
  BY <1>1 DEF IInv, TypeOK, Reset
<1>3. \A v \in Writers \ {w} : st'[v] = st[v] /\ buf'[v] = buf[v]
  BY CloseDeflaterOthers DEF Reset
<1>4. Life(w)'
  BY <1>1, <1>2 DEF Life, Empty
<1> QED BY <1>2, <1>3, <1>4, LifeOthers DEF Reset

LEMMA ReleaseLife == ASSUME IInv, LifeInv, NEW w \in Writers, Release(w) PROVE LifeInv'
<1>1. Empty(w)' /\ dclosed' = [dclosed EXCEPT ![w] = TRUE]
  BY ClosedEmpty DEF Release
<1>2. /\ dclosed'[w] /\ pc'[w] = "trailer"
      /\ \A v \in Writers \ {w} : dclosed'[v] = dclosed[v] /\ pc'[v] = pc[v]
  BY <1>1 DEF IInv, TypeOK, Release, Goto
<1>3. \A v \in Writers \ {w} : st'[v] = st[v] /\ buf'[v] = buf[v]
  BY CloseDeflaterOthers DEF Release
<1>4. Life(w)'
  BY <1>1, <1>2 DEF LifeInv, Life, Empty, Release
<1> QED BY <1>2, <1>3, <1>4, LifeOthers DEF Release

-----------------------------------------------------------------------------
(* The other steps of a Writer                                             *)

LEMMA WriteHeaderLife == ASSUME IInv, LifeInv, NEW w \in Writers, WriteHeader(w) PROVE LifeInv'
<1>1. /\ pc[w] = "header" /\ pc'[w] \in {"idle", "header", "init"}
      /\ err'[w] = IF pc'[w] = "idle" THEN "sink" ELSE err[w]
      /\ \A v \in Writers \ {w} : pc'[v] = pc[v] /\ err'[v] = err[v]
  BY DEF IInv, TypeOK, WriteHeader, Fail, Goto
<1>2. UNCHANGED <<comp, st, buf, call, dclosed, wroteHeader, closed>>
  BY DEF WriteHeader
<1>3. Life(w)'
  BY <1>1, <1>2 DEF LifeInv, Life, Empty
<1> QED BY <1>1, <1>2, <1>3, LifeOthers

LEMMA InitDeflaterLife == ASSUME IInv, LifeInv, NEW w \in Writers, InitDeflater(w) PROVE LifeInv'
<1>1. pc[w] = "init" /\ st[w] = None /\ buf[w] = None
  BY DEF LifeInv, Life, Empty, InitDeflater
<1>2. PICK x \in Obtainable(States, statePool, [st EXCEPT ![w] = None]) :
        st' = [st EXCEPT ![w] = x] /\ comp' = [comp EXCEPT ![x] = Fresh]
  BY <1>1 DEF InitDeflater
<1>3. x \in States /\ \A v \in Actors \ {w} : st[v] # x
  BY <1>2, NoneAssumption DEF IInv, TypeOK, Exclusive, Obtainable
<1>4. /\ st'[w] = x /\ comp'[x] = Fresh /\ dclosed'[w] = FALSE /\ pc'[w] = "enter" /\ buf' = buf
      /\ \A v \in Writers \ {w} : /\ st'[v] = st[v] /\ dclosed'[v] = dclosed[v] /\ pc'[v] = pc[v]
  BY <1>1, <1>2, <1>3 DEF IInv, TypeOK, InitDeflater, Goto, ReleaseScratch
<1>5. \A v \in Writers \ {w} : st[v] # None => comp'[st[v]] = comp[st[v]]
  BY <1>2, <1>3 DEF IInv, TypeOK
<1>6. UNCHANGED <<call, wroteHeader, closed, err>>
  BY DEF InitDeflater
<1>7. x # None /\ ~Fresh.finished
  BY <1>3, NoneAssumption DEF Fresh
<1>8. Life(w)'
  BY <1>1, <1>4, <1>6, <1>7 DEF LifeInv, Life, Empty, Ready
<1> QED BY <1>4, <1>5, <1>6, <1>8, LifeOthers

LEMMA EnterLife == ASSUME IInv, LifeInv, NEW w \in Writers, Enter(w) PROVE LifeInv'
<1>1. pc[w] = "enter" /\ Ready(w) /\ err[w] = "none" /\ wroteHeader[w]
      /\ (closed[w] <=> call[w].flush = "finish")
  BY DEF LifeInv, Life, Enter
<1>2. /\ err' = err
      /\ pc' = [pc EXCEPT ![w] = IF call[w].flush = "none" /\ call[w].left = 0 THEN "idle" ELSE "chunk"]
  BY <1>1 DEF Enter, Goto, Ready
<1>3. /\ pc'[w] \in {"idle", "chunk"} /\ (pc'[w] = "idle" => call[w].flush = "none")
      /\ \A v \in Writers \ {w} : pc'[v] = pc[v]
  BY <1>2 DEF IInv, TypeOK
<1>4. UNCHANGED <<comp, st, buf, call, dclosed, wroteHeader, closed>>
  BY DEF Enter
<1>5. Life(w)'
  BY <1>1, <1>2, <1>3, <1>4 DEF LifeInv, Life, Empty, Ready
<1> QED BY <1>2, <1>3, <1>4, <1>5, LifeOthers

LEMMA AcquireLife == ASSUME IInv, LifeInv, NEW w \in Writers, Acquire(w) PROVE LifeInv'
<1>1. /\ pc[w] = "chunk" /\ pc'[w] = "compress"
      /\ \A v \in Writers \ {w} : pc'[v] = pc[v] /\ buf'[v] = buf[v]
  BY DEF IInv, TypeOK, Acquire, Goto
<1>2. UNCHANGED <<comp, st, call, dclosed, wroteHeader, closed, err>>
  BY DEF Acquire, writerVars
<1>3. Life(w)'
  BY <1>1, <1>2 DEF LifeInv, Life, Empty, Ready
<1> QED BY <1>1, <1>2, <1>3, LifeOthers

LEMMA CompressLife == ASSUME IInv, LifeInv, NEW w \in Writers, Compress(w) PROVE LifeInv'
<1> DEFINE n == Chunk(w)
           f == IF n = call[w].left THEN call[w].flush ELSE "none"
<1>1. /\ pc[w] = "compress" /\ Ready(w) /\ err[w] = "none" /\ wroteHeader[w]
      /\ (closed[w] <=> call[w].flush = "finish")
  BY DEF LifeInv, Life, Compress
<1>2. st[w] \in States
  BY <1>1 DEF IInv, TypeOK, Ready
<1>3. PICK r : comp' = [comp EXCEPT ![st[w]] = r] /\ (r.finished => f = "finish")
  BY ZenonT(60), <1>1 DEF Compress, Ready
<1>4. /\ call' = [call EXCEPT ![w].left = @ - n] /\ pc' = [pc EXCEPT ![w] = "emit"]
      /\ UNCHANGED <<st, buf, dclosed, wroteHeader, closed, err>>
  BY DEF Compress, Goto
<1>5. /\ call'[w].flush = call[w].flush /\ call'[w].left = call[w].left - n /\ pc'[w] = "emit"
      /\ \A v \in Writers \ {w} : call'[v] = call[v] /\ pc'[v] = pc[v]
  BY <1>4 DEF IInv, TypeOK
<1>6. f = "finish" => call'[w].flush = "finish" /\ call'[w].left = 0
  BY <1>5, ChunkBound
<1>7. comp'[st[w]] = r
  BY <1>2, <1>3 DEF IInv, TypeOK
<1>8. \A v \in Writers \ {w} : st[v] # None => comp'[st[v]] = comp[st[v]]
  BY <1>2, <1>3 DEF IInv, TypeOK, Exclusive
<1>9. Life(w)'
  <2> HIDE DEF f, n
  <2> QED BY <1>1, <1>3, <1>4, <1>5, <1>6, <1>7 DEF Life, Ready, Empty
<1> QED BY <1>4, <1>5, <1>8, <1>9, LifeOthers

LEMMA EmitLife == ASSUME IInv, LifeInv, NEW w \in Writers, Emit(w) PROVE LifeInv'
<1>1. /\ pc[w] = "emit" /\ st[w] # None /\ ~dclosed[w] /\ err[w] = "none" /\ wroteHeader[w]
      /\ comp[st[w]].finished => call[w].flush = "finish" /\ call[w].left = 0
      /\ (closed[w] <=> call[w].flush = "finish")
  BY DEF LifeInv, Life, Emit
<1>2. UNCHANGED <<comp, st, call, dclosed, wroteHeader, closed>>
  BY DEF Emit
<1>3. ReleaseScratch(w) \/ UNCHANGED buf
  BY DEF Emit
<1>4. buf' = [buf EXCEPT ![w] = None] \/ UNCHANGED buf
  BY <1>3, ReleaseScratchFrame
<1>5. call[w].left \in 0 .. MaxWrite
  BY ChunkBound
<1>6. CASE /\ err' = err
           /\ pc' = [pc EXCEPT ![w] = IF call[w].left > 0 THEN "chunk"
                                      ELSE IF call[w].flush = "finish" THEN "release" ELSE "idle"]
  <2>1. /\ pc'[w] = IF call[w].left > 0 THEN "chunk"
                    ELSE IF call[w].flush = "finish" THEN "release" ELSE "idle"
        /\ \A v \in Writers \ {w} : pc'[v] = pc[v] /\ buf'[v] = buf[v]
    BY <1>4, <1>6 DEF IInv, TypeOK
  <2>2. call[w].left > 0 => call[w].left # 0
    BY <1>5
  <2>3. Life(w)'
    BY <1>1, <1>2, <1>6, <2>1, <2>2 DEF Life, Ready, Empty
  <2> QED BY <1>2, <1>6, <2>1, <2>3, LifeOthers
<1>7. CASE /\ err' = [err EXCEPT ![w] = "sink"] /\ pc' = [pc EXCEPT ![w] = "idle"]
           /\ ReleaseScratch(w)
  <2>1. buf' = [buf EXCEPT ![w] = None]
    BY <1>7, ReleaseScratchFrame
  <2>2. /\ pc'[w] = "idle" /\ err'[w] = "sink" /\ buf'[w] = None
        /\ \A v \in Writers \ {w} : pc'[v] = pc[v] /\ buf'[v] = buf[v] /\ err'[v] = err[v]
    BY <1>7, <2>1 DEF IInv, TypeOK
  <2>3. Life(w)'
    BY <1>1, <1>2, <2>2 DEF Life, Ready, Empty
  <2> QED BY <1>2, <2>2, <2>3, LifeOthers
<1> QED BY <1>6, <1>7 DEF Emit, Fail, Goto

LEMMA WriteTrailerLife == ASSUME IInv, LifeInv, NEW w \in Writers, WriteTrailer(w) PROVE LifeInv'
<1>1. /\ pc[w] = "trailer" /\ pc'[w] = "idle"
      /\ err'[w] \in {err[w], "sink"}
      /\ \A v \in Writers \ {w} : pc'[v] = pc[v] /\ err'[v] = err[v]
  BY DEF IInv, TypeOK, WriteTrailer, Fail, Goto
<1>2. UNCHANGED <<comp, st, buf, call, dclosed, wroteHeader, closed>>
  BY DEF WriteTrailer
<1>3. Life(w)'
  BY <1>1, <1>2 DEF LifeInv, Life, Empty
<1> QED BY <1>1, <1>2, <1>3, LifeOthers

-----------------------------------------------------------------------------
(* One-shot calls change only compressors of their own                     *)

LEMMA CallerLife ==
  ASSUME IInv, LifeInv, NEW c \in Callers, GetScratch(c) \/ CallerStep(c)
  PROVE  LifeInv'
<1>1. \A v \in Writers : v # c
  BY ActorAssumption
<1>2. \A v \in Writers : st'[v] = st[v] /\ buf'[v] = buf[v] /\ pc'[v] = pc[v]
  BY <1>1 DEF IInv, TypeOK, GetScratch, CallerStep, GetState, Squeeze, PutState, CopyResult, GiveBack, Goto
<1>3. UNCHANGED <<call, dclosed, wroteHeader, closed, err>>
  BY DEF GetScratch, CallerStep, GetState, Squeeze, PutState, CopyResult, GiveBack, writerVars
<1>4. \A v \in Writers : st[v] # None => comp'[st[v]] = comp[st[v]]
  <2>1. CASE GetState(c)
    <3>1. PICK x \in Obtainable(States, statePool, st) : comp' = [comp EXCEPT ![x] = Fresh]
      BY <2>1 DEF GetState
    <3>2. \A v \in Writers : st[v] # None => st[v] # x
      BY <3>1, NoneAssumption DEF IInv, TypeOK, Exclusive, Obtainable
    <3> QED BY <3>1, <3>2 DEF IInv, TypeOK
  <2>2. CASE Squeeze(c)
    <3>1. st[c] # None /\ \A v \in Writers : st[v] # None => st[v] # st[c]
      BY <1>1, <2>2 DEF IInv, Placed, Exclusive, Squeeze
    <3>2. PICK r : comp' = [comp EXCEPT ![st[c]] = r]
      BY <2>2 DEF Squeeze
    <3> QED BY <3>1, <3>2 DEF IInv, TypeOK
  <2>3. CASE UNCHANGED comp
    BY <2>3
  <2> QED BY <2>1, <2>2, <2>3 DEF GetScratch, CallerStep, PutState, CopyResult, GiveBack
<1> QED BY <1>2, <1>3, <1>4, LifeFrame DEF LifeInv

LEMMA LifeStable == UNCHANGED vars /\ LifeInv => LifeInv'
BY DEF LifeInv, Life, Empty, Ready, vars

LEMMA CollectLife == Collect /\ LifeInv => LifeInv'
BY DEF Collect, LifeInv, Life, Empty, Ready, writerVars

LEMMA InitLife == Init => LifeInv
BY DEF Init, LifeInv, Life, Empty

LEMMA NextLife == IInv /\ LifeInv /\ [Next]_vars => LifeInv'
<1> SUFFICES ASSUME IInv, LifeInv, [Next]_vars PROVE LifeInv'
  OBVIOUS
<1>1. CASE Collect \/ UNCHANGED vars
  BY <1>1, CollectLife, LifeStable
<1>2. ASSUME NEW w \in Writers, WriterCall(w) PROVE LifeInv'
  BY <1>2, BoundAssumption, CallLife, CloseFailedLife, ResetLife DEF WriterCall
<1>3. ASSUME NEW w \in Writers, WriterStep(w) PROVE LifeInv'
  BY <1>3, WriteHeaderLife, InitDeflaterLife, EnterLife, AcquireLife, CompressLife, EmitLife,
     ReleaseLife, WriteTrailerLife DEF WriterStep
<1>4. ASSUME NEW c \in Callers, GetScratch(c) \/ CallerStep(c) PROVE LifeInv'
  BY <1>4, CallerLife
<1> QED BY <1>1, <1>2, <1>3, <1>4 DEF Next

-----------------------------------------------------------------------------
(* Sizes                                                                   *)

\* Pooling a buffer never pools a huge one, and shrinks no other
LEMMA PutScratchSmall ==
  ASSUME IInv, SmallInv, NEW b \in Bufs, PutScratch(b)
  PROVE  /\ \A x \in scratchPool' : cap'[x] <= MaxPooled
         /\ \A x \in Bufs \ {b} : cap'[x] = cap[x]
BY BoundAssumption DEF IInv, TypeOK, SmallInv, PutScratch

LEMMA ReleaseScratchSmall ==
  ASSUME IInv, SmallInv, NEW w \in Writers, ReleaseScratch(w)
  PROVE  /\ \A x \in scratchPool' : cap'[x] <= MaxPooled
         /\ \A x \in Bufs : x # buf[w] => cap'[x] = cap[x]
         /\ buf' = [buf EXCEPT ![w] = None]
<1>1. CASE buf[w] = None
  BY <1>1 DEF IInv, TypeOK, SmallInv, ReleaseScratch
<1>2. CASE buf[w] # None
  BY <1>2, PutScratchSmall DEF IInv, TypeOK, ReleaseScratch
<1> QED BY <1>1, <1>2

\* When the buffers of other actors stay as they are, so do their sizes
LEMMA SmallOthers ==
  ASSUME IInv, SmallInv, NEW a \in Actors,
         \A x \in scratchPool' : cap'[x] <= MaxPooled,
         \A v \in Writers \ {a} :
           /\ buf'[v] = buf[v] /\ (pc'[v] = pc[v])
           /\ buf[v] # None => cap'[buf[v]] = cap[buf[v]],
         a \in Writers => SmallHeld(a)'
  PROVE  SmallInv'
<1>1. ASSUME NEW v \in Writers \ {a} PROVE SmallHeld(v)'
  BY <1>1 DEF SmallInv, SmallHeld
<1> QED BY <1>1 DEF SmallInv

LEMMA ReleaseScratchOthers ==
  ASSUME IInv, SmallInv, NEW w \in Writers, ReleaseScratch(w)
  PROVE  /\ \A x \in scratchPool' : cap'[x] <= MaxPooled
         /\ \A v \in Writers \ {w} : buf'[v] = buf[v] /\ (buf[v] # None => cap'[buf[v]] = cap[buf[v]])
         /\ buf'[w] = None
<1>1. \A v \in Writers \ {w} : buf[v] # None => buf[v] # buf[w] /\ buf[v] \in Bufs
  BY DEF IInv, TypeOK, Exclusive
<1>2. /\ \A x \in scratchPool' : cap'[x] <= MaxPooled
      /\ \A x \in Bufs : x # buf[w] => cap'[x] = cap[x]
      /\ buf' = [buf EXCEPT ![w] = None]
  BY ReleaseScratchSmall
<1>3. \A v \in Writers \ {w} : buf'[v] = buf[v]
  BY <1>2 DEF IInv, TypeOK
<1>4. buf'[w] = None
  BY <1>2 DEF IInv, TypeOK
<1> QED BY <1>1, <1>2, <1>3, <1>4

\* The steps that may close the Deflater
LEMMA ClosingSmall ==
  ASSUME IInv, SmallInv, LifeInv, NEW w \in Writers, CloseFailed(w) \/ Reset(w) \/ Release(w)
  PROVE  SmallInv'
<1>1. CloseDeflater(w) /\ \A v \in Writers \ {w} : pc'[v] = pc[v]
  BY DEF IInv, TypeOK, CloseFailed, Reset, Release, Goto
<1>2. CASE dclosed[w]
  <2>1. UNCHANGED <<scratchPool, cap, buf>> /\ buf[w] = None
    BY <1>1, <1>2 DEF CloseDeflater, LifeInv, Life, Empty
  <2>2. SmallHeld(w)'
    BY <2>1 DEF SmallHeld
  <2>3. \A x \in scratchPool' : cap'[x] <= MaxPooled
    BY <2>1 DEF SmallInv
  <2> QED BY <1>1, <2>1, <2>2, <2>3, SmallOthers
<1>3. CASE ~dclosed[w]
  <2>1. ReleaseScratch(w)
    BY <1>1, <1>3 DEF CloseDeflater
  <2>2. SmallHeld(w)'
    BY <2>1, ReleaseScratchOthers DEF SmallHeld
  <2> QED BY <1>1, <2>1, <2>2, ReleaseScratchOthers, SmallOthers
<1> QED BY <1>2, <1>3

\* The steps that leave buffers and their sizes alone
LEMMA QuietSmall ==
  ASSUME IInv, SmallInv, LifeInv, NEW w \in Writers,
         \/ \E n \in 0 .. MaxWrite : Write(w, n)
         \/ Flush(w) \/ Close(w) \/ WriteHeader(w) \/ Enter(w) \/ Compress(w) \/ WriteTrailer(w)
  PROVE  SmallInv'
<1>1. UNCHANGED <<scratchPool, cap, buf>>
  BY DEF Write, Flush, Close, Begin, WriteHeader, Enter, Compress, WriteTrailer
<1>2. \A v \in Writers \ {w} : pc'[v] = pc[v]
  BY DEF IInv, TypeOK, Write, Flush, Close, Begin, WriteHeader, Enter, Compress, WriteTrailer, Fail, Goto
<1>3. pc[w] \in {"idle", "header", "enter"} \/ buf[w] = None \/ pc'[w] = "emit"
  BY DEF IInv, TypeOK, LifeInv, Life, Empty, Usable, Write, Flush, Close, WriteHeader, Enter, Compress,
         WriteTrailer, Goto
<1>4. SmallHeld(w)'
  BY <1>1, <1>3 DEF SmallInv, SmallHeld
<1>5. \A x \in scratchPool' : cap'[x] <= MaxPooled
  BY <1>1 DEF SmallInv
<1> QED BY <1>1, <1>2, <1>4, <1>5, SmallOthers

LEMMA InitDeflaterSmall ==
  ASSUME IInv, SmallInv, NEW w \in Writers, InitDeflater(w) PROVE SmallInv'
<1>1. ReleaseScratch(w) /\ \A v \in Writers \ {w} : pc'[v] = pc[v]
  BY DEF IInv, TypeOK, InitDeflater, Goto
<1>2. SmallHeld(w)'
  BY <1>1, ReleaseScratchOthers DEF SmallHeld
<1> QED BY <1>1, <1>2, ReleaseScratchOthers, SmallOthers

LEMMA AcquireSmall ==
  ASSUME IInv, SmallInv, NEW w \in Writers, Acquire(w) PROVE SmallInv'
<1>1. PICK b \in Bufs : /\ buf' = [buf EXCEPT ![w] = b]
                        /\ \A v \in Writers \ {w} : buf[v] # b
                        /\ b \notin scratchPool' /\ scratchPool' \subseteq scratchPool
                        /\ \A x \in Bufs \ {b} : cap'[x] = cap[x]
  <2>1. CASE buf[w] = None
    <3>1. PICK b \in Obtainable(Bufs, scratchPool, buf) :
            /\ scratchPool' = scratchPool \ {b} /\ buf' = [buf EXCEPT ![w] = b]
            /\ cap' = IF cap[b] < Chunk(w) + 1 THEN [cap EXCEPT ![b] = Chunk(w) + 1] ELSE cap
      BY <2>1 DEF Acquire
    <3>2. b \in Bufs /\ \A v \in Writers \ {w} : buf[v] # b
      BY <3>1, NoneAssumption DEF IInv, TypeOK, Exclusive, Obtainable
    <3>3. \A x \in Bufs \ {b} : cap'[x] = cap[x]
      BY <3>1, <3>2 DEF IInv, TypeOK
    <3>4. b \notin scratchPool' /\ scratchPool' \subseteq scratchPool
      BY <3>1
    <3> QED BY <3>1, <3>2, <3>3, <3>4
  <2>2. CASE buf[w] # None
    <3>1. buf[w] \in Bufs /\ buf[w] \notin scratchPool /\ \A v \in Writers \ {w} : buf[v] # buf[w]
      BY <2>2 DEF IInv, TypeOK, Exclusive
    <3>2. buf' = buf /\ scratchPool' = scratchPool /\ \A x \in Bufs \ {buf[w]} : cap'[x] = cap[x]
      BY <2>2 DEF IInv, TypeOK, Acquire
    <3>3. buf' = [buf EXCEPT ![w] = buf[w]]
      BY <3>2 DEF IInv, TypeOK
    <3> QED BY <3>1, <3>2, <3>3
  <2> QED BY <2>1, <2>2
<1>2. pc'[w] = "compress" /\ \A v \in Writers \ {w} : pc'[v] = pc[v] /\ buf'[v] = buf[v]
  BY <1>1 DEF IInv, TypeOK, Acquire, Goto
<1>3. \A v \in Writers \ {w} : buf[v] # None => cap'[buf[v]] = cap[buf[v]]
  BY <1>1 DEF IInv, TypeOK
<1>4. \A x \in scratchPool' : cap'[x] <= MaxPooled
  BY <1>1 DEF IInv, TypeOK, SmallInv
<1>5. SmallHeld(w)'
  BY <1>2 DEF SmallHeld
<1> QED BY <1>2, <1>3, <1>4, <1>5, SmallOthers

LEMMA EmitSmall ==
  ASSUME IInv, SmallInv, NEW w \in Writers, Emit(w) PROVE SmallInv'
<1>1. \A v \in Writers \ {w} : pc'[v] = pc[v]
  BY DEF IInv, TypeOK, Emit, Fail, Goto
<1>2. CASE ReleaseScratch(w)
  <2>1. SmallHeld(w)'
    BY <1>2, ReleaseScratchOthers DEF SmallHeld
  <2> QED BY <1>1, <1>2, <2>1, ReleaseScratchOthers, SmallOthers
<1>3. CASE ~(cap[buf[w]] > MaxPooled) /\ UNCHANGED <<scratchPool, cap, buf>>
  <2>1. buf[w] \in Bufs /\ cap[buf[w]] \in Nat
    BY DEF IInv, TypeOK, Placed, Emit
  <2>2. SmallHeld(w)'
    BY <1>3, <2>1, BoundAssumption DEF SmallHeld
  <2>3. \A x \in scratchPool' : cap'[x] <= MaxPooled
    BY <1>3 DEF SmallInv
  <2> QED BY <1>1, <1>3, <2>2, <2>3, SmallOthers
<1> QED BY <1>2, <1>3 DEF Emit

LEMMA CallerSmall ==
  ASSUME IInv, SmallInv, NEW c \in Callers, GetScratch(c) \/ CallerStep(c) PROVE SmallInv'
<1>1. \A v \in Writers : v # c
  BY ActorAssumption
<1>2. \A v \in Writers : buf'[v] = buf[v] /\ pc'[v] = pc[v]
  BY <1>1 DEF IInv, TypeOK, GetScratch, CallerStep, GetState, Squeeze, PutState, CopyResult, GiveBack, Goto
<1>3. /\ \A x \in scratchPool' : cap'[x] <= MaxPooled
      /\ \A v \in Writers : buf[v] # None => cap'[buf[v]] = cap[buf[v]]
  <2>1. CASE GetScratch(c)
    <3>1. PICK b \in Obtainable(Bufs, scratchPool, buf), n \in 1 .. MaxWrite :
            /\ scratchPool' = scratchPool \ {b}
            /\ cap' = IF cap[b] < n + 1 THEN [cap EXCEPT ![b] = n + 1] ELSE cap
      BY <2>1 DEF GetScratch
    <3>2. b \in Bufs /\ \A v \in Writers : buf[v] # None => buf[v] # b
      BY <3>1 DEF IInv, TypeOK, Exclusive, Obtainable
    <3>3. \A x \in Bufs : x # b => cap'[x] = cap[x]
      BY <3>1, <3>2 DEF IInv, TypeOK
    <3> QED BY <3>1, <3>2, <3>3 DEF IInv, TypeOK, SmallInv
  <2>2. CASE GiveBack(c)
    <3>1. buf[c] \in Bufs /\ \A v \in Writers : buf[v] # None => buf[v] # buf[c] /\ buf[v] \in Bufs
      BY <1>1, <2>2 DEF IInv, TypeOK, Placed, Exclusive, GiveBack
    <3> QED BY <2>2, <3>1, PutScratchSmall DEF GiveBack
  <2>3. CASE UNCHANGED <<scratchPool, cap>>
    BY <2>3 DEF SmallInv
  <2> QED BY <2>1, <2>2, <2>3 DEF CallerStep, GetState, Squeeze, PutState, CopyResult
<1> QED BY <1>1, <1>2, <1>3, SmallOthers

LEMMA CollectSmall ==
  ASSUME IInv, SmallInv, Collect \/ UNCHANGED vars
  PROVE  SmallInv'
<1>1. UNCHANGED <<buf, pc>>
  BY DEF Collect, vars
<1>2. CASE UNCHANGED <<scratchPool, cap>>
  BY <1>1, <1>2 DEF SmallInv, SmallHeld
<1>3. CASE \E b \in scratchPool : scratchPool' = scratchPool \ {b} /\ cap' = [cap EXCEPT ![b] = 0]
  <2>1. PICK b \in scratchPool : scratchPool' = scratchPool \ {b} /\ cap' = [cap EXCEPT ![b] = 0]
    BY <1>3
  <2>2. \A v \in Writers : buf[v] # b
    BY <2>1 DEF IInv, Exclusive
  <2>3. \A x \in Bufs \ {b} : cap'[x] = cap[x]
    BY <2>1 DEF IInv, TypeOK
  <2>4. \A x \in scratchPool' : cap'[x] <= MaxPooled
    BY <2>1, <2>3 DEF IInv, TypeOK, SmallInv
  <2>5. \A v \in Writers : SmallHeld(v)'
    BY <1>1, <2>2, <2>3 DEF IInv, TypeOK, SmallInv, SmallHeld
  <2> QED BY <2>4, <2>5 DEF SmallInv
<1> QED BY <1>2, <1>3 DEF Collect, vars

LEMMA NextSmall == IInv /\ LifeInv /\ SmallInv /\ [Next]_vars => SmallInv'
<1> SUFFICES ASSUME IInv, LifeInv, SmallInv, [Next]_vars PROVE SmallInv'
  OBVIOUS
<1>1. CASE Collect \/ UNCHANGED vars
  BY <1>1, CollectSmall
<1>2. ASSUME NEW w \in Writers, WriterCall(w) PROVE SmallInv'
  BY <1>2, QuietSmall, ClosingSmall DEF WriterCall
<1>3. ASSUME NEW w \in Writers, WriterStep(w) PROVE SmallInv'
  BY <1>3, QuietSmall, InitDeflaterSmall, AcquireSmall, EmitSmall, ClosingSmall DEF WriterStep
<1>4. ASSUME NEW c \in Callers, GetScratch(c) \/ CallerStep(c) PROVE SmallInv'
  BY <1>4, CallerSmall
<1> QED BY <1>1, <1>2, <1>3, <1>4 DEF Next

-----------------------------------------------------------------------------
(* The theorems                                                            *)

\* The life cycle: at each point of a call, and between calls, the flags
\* wroteHeader, closed and err tell whether the Deflater is armed, closed or
\* finished and what it holds (gzip.go:172-183, 240-378, stream.go:53-188).
THEOREM LifeCycle == Spec => [](IInv /\ LifeInv)
<1>1. Init => LifeInv
  BY InitLife
<1>2. IInv /\ LifeInv /\ [Next]_vars => LifeInv'
  BY NextLife
<1> QED BY <1>1, <1>2, Invariance, PTL DEF Spec

\* ErrDeflaterClosed and ErrAfterFinish never surface from a Writer.
THEOREM NeverRefused == Spec => []NoInternalError
<1>1. LifeInv => NoInternalError
  BY DEF LifeInv, Life, NoInternalError
<1> QED BY <1>1, LifeCycle, PTL

\* A failed stream does not pin the scratch buffer (stream.go:135, 145), on any
\* of the error paths.
THEOREM FailureReleases == Spec => []FailedHoldsNoScratch
<1>1. LifeInv => FailedHoldsNoScratch
  BY DEF LifeInv, Life, FailedHoldsNoScratch
<1> QED BY <1>1, LifeCycle, PTL

\* A Writer whose Close returned nil holds nothing of the pools (gzip.go:366).
THEOREM CloseReleases == Spec => []ClosedPinsNothing
<1>1. LifeInv => ClosedPinsNothing
  BY DEF LifeInv, Life, Empty, ClosedPinsNothing
<1> QED BY <1>1, LifeCycle, PTL

\* No buffer larger than maxPooledBuf stays in the pool or with a Writer between
\* two calls (zdeflate/gzip.go:39-44, stream.go:149-154).
THEOREM BoundedRetention == Spec => []HugeBuffersDropped
<1>1. Init => SmallInv
  BY DEF Init, SmallInv, SmallHeld
<1>2. IInv /\ LifeInv /\ SmallInv /\ [Next]_vars => SmallInv'
  BY NextSmall
<1>3. SmallInv => HugeBuffersDropped
  BY DEF SmallInv, SmallHeld, HugeBuffersDropped
<1> QED BY <1>1, <1>2, <1>3, LifeCycle, PTL DEF Spec

\* The first n pieces of a stream of w in order: the header writes, then
\* compressed data of w that covers at most n units and is not yet finished
Ordered(w, s, n) ==
  \A i \in 1 .. Len(s) :
    /\ i <= HeaderWrites => s[i] = Header(i)
    /\ i > HeaderWrites => /\ s[i] = Deflated(w, s[i][3], s[i][4]) /\ s[i][3] \in 0 .. n
                           /\ i - 1 > HeaderWrites => /\ s[i - 1][3] <= s[i][3]
                                                      /\ s[i - 1][4] # "finish"

\* What the sink has received, with what the running call is about to pass on
Sent(w) == IF pc[w] = "emit" THEN sink[w] \o content[buf[w]] ELSE sink[w]

\* Stream s of w agrees with its compressor z: the data shown ends where the
\* compressor says, and after a flush with exactly the marker of that flush
Top(s) == IF Len(s) > HeaderWrites THEN s[Len(s)][3] ELSE 0
Agrees(w, s, z) ==
  /\ Ordered(w, s, z.fed) /\ Len(s) >= HeaderWrites
  /\ Top(s) = z.shown /\ z.shown <= z.fed
  /\ z.last \in {"sync", "finish"} => Len(s) > HeaderWrites /\ s[Len(s)] = Deflated(w, z.fed, z.last)
  /\ Len(s) > HeaderWrites /\ s[Len(s)][4] = "finish" => z.last = "finish"
  /\ z.finished <=> z.last = "finish"

Open(w)      == pc[w] = "idle" /\ wroteHeader[w] /\ ~closed[w] /\ err[w] = "none"
Streaming(w) == pc[w] \in {"enter", "chunk", "compress", "emit"} \/ Open(w)
Pending(w)   == IF pc[w] \in {"chunk", "compress", "emit"} THEN call[w].left ELSE 0

\* One position of a sink, as SinkWellFormed demands it
At(w, s, i, n, e) ==
  LET data(k) == k > HeaderWrites /\ Kind(s[k]) = "deflate"
  IN  \/ i <= HeaderWrites /\ s[i] = Header(i)
      \/ /\ data(i) /\ s[i][2] = w /\ s[i][3] <= n
         /\ i - 1 > HeaderWrites => data(i - 1) /\ s[i - 1][3] <= s[i][3] /\ s[i - 1][4] # "finish"
      \/ data(i - 1) /\ s[i - 1] = Deflated(w, n, "finish") /\ s[i] = Trailer(n)
      \/ s[i] = Torn /\ i = Len(s) /\ e = "sink"
Shaped(w) == \A i \in DOMAIN sink[w] : At(w, sink[w], i, crc[w], err[w])

\* What the sink of w holds at each point of the life of a stream
Told(w) ==
  /\ ~wroteHeader[w] => sink[w] = <<>> /\ crc[w] = 0 /\ err[w] = "none" /\ ~closed[w]
  /\ pc[w] \in {"header", "init"} =>
       /\ Ordered(w, sink[w], 0) /\ crc[w] = 0
       /\ IF pc[w] = "init" THEN Len(sink[w]) = HeaderWrites ELSE Len(sink[w]) < HeaderWrites
  /\ Streaming(w) => Agrees(w, Sent(w), comp[st[w]]) /\ comp[st[w]].fed + Pending(w) = crc[w]
  /\ pc[w] = "emit" /\ call[w].left = 0 => comp[st[w]].last = call[w].flush
  /\ Open(w) /\ call[w].flush = "sync" => comp[st[w]].last = "sync"
  /\ pc[w] \in {"release", "trailer"} =>
       /\ Ordered(w, sink[w], crc[w]) /\ Len(sink[w]) > HeaderWrites
       /\ Last(sink[w]) = Deflated(w, crc[w], "finish")
  /\ pc[w] \in {"release", "trailer"} \/ (pc[w] = "idle" /\ closed[w] /\ err[w] = "none") =>
       call[w].flush = "finish"
  /\ pc[w] = "idle" /\ closed[w] /\ err[w] = "none" =>
       Len(sink[w]) >= HeaderWrites + 2 /\ Last(sink[w]) = Trailer(crc[w])
  /\ pc[w] = "idle" /\ (closed[w] \/ err[w] # "none") => Shaped(w)

\* What a one-shot call has compressed so far
Squeezed(c) ==
  /\ pc[c] = "squeeze" => comp[st[c]] = Fresh
  /\ pc[c] \in {"put", "copy"} => content[buf[c]] = <<Deflated(c, 1, "finish")>>
  /\ result[c] \in {<<>>, <<Deflated(c, 1, "finish")>>}

SinkInv == (\A w \in Writers : Told(w)) /\ \A c \in Callers : Squeezed(c)

-----------------------------------------------------------------------------
(* Items and sequences of items                                            *)

LEMMA ItemFields ==
  /\ \A n : Header(n)[1] = "header" /\ Trailer(n)[1] = "trailer"
  /\ Torn[1] = "torn"
  /\ \A a, n, e : /\ Deflated(a, n, e)[1] = "deflate" /\ Deflated(a, n, e)[2] = a
                  /\ Deflated(a, n, e)[3] = n /\ Deflated(a, n, e)[4] = e
BY DEF Header, Trailer, Torn, Deflated

LEMMA AppendAt ==
  ASSUME NEW S, NEW s \in Seq(S), NEW x \in S
  PROVE  /\ Append(s, x) \in Seq(S) /\ Len(Append(s, x)) = Len(s) + 1 /\ Len(s) \in Nat
         /\ \A i \in 1 .. Len(s) : Append(s, x)[i] = s[i]
         /\ Append(s, x)[Len(s) + 1] = x
OBVIOUS

LEMMA ConcatOne ==
  ASSUME NEW S, NEW s \in Seq(S), NEW x \in S
  PROVE  s \o <<x>> = Append(s, x)
OBVIOUS

LEMMA ConcatNone ==
  ASSUME NEW S, NEW s \in Seq(S)
  PROVE  s \o <<>> = s
OBVIOUS

\* More units may only be covered later
LEMMA OrderedMore ==
  ASSUME NEW w, NEW s \in Seq(Items), NEW m \in Nat, NEW n \in Nat, m <= n, Ordered(w, s, m)
  PROVE  Ordered(w, s, n)
BY DEF Ordered

\* A stream stays in order when a header write or the next piece is appended
LEMMA OrderedHeader ==
  ASSUME NEW w, NEW s \in Seq(Items), NEW n \in Nat, Ordered(w, s, n),
         Len(s) < HeaderWrites, NEW x \in Items, x = Header(Len(s) + 1)
  PROVE  Ordered(w, Append(s, x), n)
BY AppendAt, BoundAssumption DEF Ordered

LEMMA OrderedPiece ==
  ASSUME NEW w \in Writers, NEW s \in Seq(Items), NEW n \in Nat, NEW m \in Nat, m <= n, Ordered(w, s, m),
         Len(s) >= HeaderWrites, NEW k \in 0 .. n, NEW e \in Ends,
         Top(s) <= k, Len(s) > HeaderWrites => s[Len(s)][4] # "finish"
  PROVE  /\ Ordered(w, Append(s, Deflated(w, k, e)), n)
         /\ Len(Append(s, Deflated(w, k, e))) > HeaderWrites
         /\ Append(s, Deflated(w, k, e))[Len(Append(s, Deflated(w, k, e)))] = Deflated(w, k, e)
<1> DEFINE x == Deflated(w, k, e)
           t == Append(s, x)
<1>1. x \in Items
  BY ItemTypes
<1>2. x = Deflated(w, x[3], x[4]) /\ x[3] = k
  BY ItemFields
<1> HIDE DEF x
<1>3. /\ Len(t) = Len(s) + 1 /\ Len(s) \in Nat
      /\ \A i \in 1 .. Len(s) : t[i] = s[i]
      /\ t[Len(s) + 1] = x
  BY <1>1, AppendAt
<1> HIDE DEF t
<1>4. ASSUME NEW i \in 1 .. Len(t)
      PROVE  /\ i <= HeaderWrites => t[i] = Header(i)
             /\ i > HeaderWrites => /\ t[i] = Deflated(w, t[i][3], t[i][4]) /\ t[i][3] \in 0 .. n
                                    /\ i - 1 > HeaderWrites => /\ t[i - 1][3] <= t[i][3]
                                                               /\ t[i - 1][4] # "finish"
  <2>1. CASE i <= Len(s)
    <3>1. t[i] = s[i] /\ (i - 1 > HeaderWrites => t[i - 1] = s[i - 1])
      BY <1>3, <2>1, BoundAssumption
    <3> QED BY <1>3, <2>1, <3>1 DEF Ordered
  <2>2. CASE i = Len(s) + 1
    <3>1. t[i] = x /\ (i - 1 > HeaderWrites => t[i - 1] = s[Len(s)] /\ Len(s) > HeaderWrites)
      BY <1>3, <2>2, BoundAssumption
    <3> QED BY <1>2, <2>2, <3>1, BoundAssumption DEF Top
  <2> QED BY <1>3, <2>1, <2>2
<1>5. Ordered(w, t, n)
  BY <1>4 DEF Ordered
<1>6. Len(t) > HeaderWrites /\ t[Len(t)] = x
  BY <1>3, BoundAssumption
<1> QED BY <1>5, <1>6 DEF t, x

-----------------------------------------------------------------------------
(* Streams in order are as SinkWellFormed demands                          *)

LEMMA OrderedShape ==
  ASSUME NEW w \in Writers, NEW s \in Seq(Items), NEW m \in Nat, NEW n \in Nat, m <= n,
         Ordered(w, s, m), NEW e, NEW i \in 1 .. Len(s)
  PROVE  At(w, s, i, n, e)
<1>1. CASE i <= HeaderWrites
  BY <1>1 DEF Ordered, At
<1>2. CASE i > HeaderWrites
  <2>1. s[i][1] = "deflate" /\ s[i][2] = w /\ s[i][3] <= n
    BY <1>2, ItemFields DEF Ordered
  <2>2. ASSUME i - 1 > HeaderWrites
        PROVE  s[i - 1][1] = "deflate" /\ s[i - 1][3] <= s[i][3] /\ s[i - 1][4] # "finish"
    <3>1. i - 1 \in 1 .. Len(s)
      BY <2>2, BoundAssumption
    <3> QED BY <1>2, <2>2, <3>1, ItemFields DEF Ordered
  <2> QED BY <1>2, <2>1, <2>2 DEF At, Kind
<1> QED BY <1>1, <1>2, BoundAssumption

\* Appending an item keeps the positions before it
LEMMA ShapeBefore ==
  ASSUME NEW w \in Writers, NEW s \in Seq(Items), NEW m \in Nat, NEW n \in Nat, m <= n,
         Ordered(w, s, m), NEW e, NEW x \in Items, NEW i \in 1 .. Len(s)
  PROVE  At(w, Append(s, x), i, n, e)
<1> DEFINE t == Append(s, x)
<1>1. Len(t) = Len(s) + 1 /\ Len(s) \in Nat /\ \A j \in 1 .. Len(s) : t[j] = s[j]
  BY AppendAt
<1> HIDE DEF t
<1>2. ASSUME i <= HeaderWrites PROVE At(w, t, i, n, e)
  BY <1>1, <1>2 DEF Ordered, At
<1>3. ASSUME i > HeaderWrites PROVE At(w, t, i, n, e)
  <2>1. t[i][1] = "deflate" /\ t[i][2] = w /\ t[i][3] <= n
    BY <1>1, <1>3, ItemFields DEF Ordered
  <2>2. ASSUME i - 1 > HeaderWrites
        PROVE  t[i - 1][1] = "deflate" /\ t[i - 1][3] <= t[i][3] /\ t[i - 1][4] # "finish"
    <3>1. i - 1 \in 1 .. Len(s)
      BY <2>2, BoundAssumption
    <3> QED BY <1>1, <1>3, <2>2, <3>1, ItemFields DEF Ordered
  <2> QED BY <1>1, <1>3, <2>1, <2>2, BoundAssumption DEF At, Kind
<1>4. At(w, t, i, n, e)
  BY <1>1, <1>2, <1>3, BoundAssumption
<1> QED BY <1>4 DEF t

LEMMA TornShape ==
  ASSUME NEW w \in Writers, NEW s \in Seq(Items), NEW m \in Nat, NEW n \in Nat, m <= n,
         Ordered(w, s, m), NEW i \in 1 .. Len(Append(s, Torn))
  PROVE  At(w, Append(s, Torn), i, n, "sink")
<1>1. CASE i <= Len(s)
  BY <1>1, ItemTypes, AppendAt, ShapeBefore
<1>2. CASE i = Len(s) + 1
  <2>1. Append(s, Torn)[i] = Torn /\ i = Len(Append(s, Torn))
    BY <1>2, ItemTypes, AppendAt
  <2> QED BY <2>1 DEF At
<1> QED BY <1>1, <1>2, ItemTypes, AppendAt

LEMMA TrailerShape ==
  ASSUME NEW w \in Writers, NEW s \in Seq(Items), NEW n \in Nat, Ordered(w, s, n),
         Len(s) > HeaderWrites, s[Len(s)] = Deflated(w, n, "finish"), NEW e,
         NEW i \in 1 .. Len(Append(s, Trailer(n)))
  PROVE  At(w, Append(s, Trailer(n)), i, n, e)
<1> DEFINE t == Append(s, Trailer(n))
<1>1. Trailer(n) \in Items
  BY ItemTypes
<1>2. /\ Len(t) = Len(s) + 1 /\ Len(s) \in Nat
      /\ t[Len(s)] = s[Len(s)] /\ t[Len(s) + 1] = Trailer(n)
  BY <1>1, AppendAt, BoundAssumption
<1>3. CASE i <= Len(s)
  BY <1>1, <1>2, <1>3, ShapeBefore
<1>4. CASE i = Len(s) + 1
  <2> HIDE DEF t
  <2>1. t[i - 1] = Deflated(w, n, "finish") /\ t[i] = Trailer(n) /\ i - 1 > HeaderWrites
    BY <1>2, <1>4
  <2>2. At(w, t, i, n, e)
    BY <2>1, ItemFields DEF At, Kind
  <2> QED BY <2>2 DEF t
<1> QED BY <1>2, <1>3, <1>4

-----------------------------------------------------------------------------
(* One call of the compressor                                              *)

\* A stream that agrees with its compressor goes on agreeing with it when the
\* output of one more call is appended
LEMMA EmittedAgrees ==
  ASSUME NEW w \in Writers, NEW s \in Seq(Items),
         NEW z \in [fed : Nat, shown : Nat, last : Ends \cup {"unused"}, finished : BOOLEAN],
         Agrees(w, s, z), ~z.finished, NEW n \in Nat, NEW f \in Ends,
         NEW shown \in (IF f = "none" THEN z.shown ELSE z.fed + n) .. (z.fed + n),
         NEW r, r = [fed |-> z.fed + n, shown |-> shown, last |-> f,
                     finished |-> z.finished \/ f = "finish"]
  PROVE  Agrees(w, s \o Emitted(w, z, n, f, shown), r)
<1> DEFINE fed      == z.fed + n
           repeated == n = 0 /\ f = z.last /\ f # "finish"
           end      == IF f = "none" \/ repeated THEN "none" ELSE f
<1>1. z.fed \in Nat /\ z.shown \in Nat /\ z.shown <= z.fed /\ z.last # "finish" /\ shown \in Nat
      /\ z.shown <= shown /\ shown <= fed /\ fed \in Nat /\ z.fed <= fed
      /\ (f # "none" => shown = fed)
  BY DEF Agrees
<1>2. r.fed = fed /\ r.shown = shown /\ r.last = f /\ (r.finished <=> f = "finish")
  OBVIOUS
<1>3. Len(s) > HeaderWrites => s[Len(s)][4] # "finish"
  BY <1>1 DEF Agrees
<1>4. end \in Ends
  BY DEF Ends
<1>5. CASE shown = z.shown /\ end = "none"
  <2>1. s \o Emitted(w, z, n, f, shown) = s
    BY <1>5, ConcatNone DEF Emitted
  <2>2. Ordered(w, s, fed)
    BY <1>1, OrderedMore DEF Agrees
  <2>3. f \in {"sync", "finish"} => Len(s) > HeaderWrites /\ s[Len(s)] = Deflated(w, fed, f)
    <3>1. f \in {"sync", "finish"} => n = 0 /\ f = z.last
      BY <1>5
    <3> QED BY <1>1, <3>1 DEF Agrees
  <2> HIDE DEF fed, end
  <2> QED BY <1>1, <1>2, <1>3, <1>5, <2>1, <2>2, <2>3 DEF Agrees
<1>6. CASE ~(shown = z.shown /\ end = "none")
  <2> DEFINE x == Deflated(w, shown, end)
             t == Append(s, x)
  <2>1. s \o Emitted(w, z, n, f, shown) = t
    BY <1>1, <1>4, <1>6, ItemTypes, ConcatOne DEF Emitted
  <2>2. Ordered(w, t, fed) /\ Len(t) > HeaderWrites /\ t[Len(t)] = x
    <3>1. shown \in 0 .. fed /\ Top(s) <= shown /\ Ordered(w, s, z.fed) /\ Len(s) >= HeaderWrites
      BY <1>1 DEF Agrees
    <3> HIDE DEF fed, end
    <3> QED BY <1>1, <1>3, <1>4, <3>1, OrderedPiece
  <2>3. x[3] = shown /\ x[4] = end
    BY ItemFields
  <2>4. f \in {"sync", "finish"} => x = Deflated(w, fed, f)
    \* a repeated sync marker would show nothing new, and then nothing is emitted
    <3>1. ASSUME f = "sync", repeated PROVE FALSE
      <4>1. z.last = "sync" /\ Top(s) = z.fed /\ shown = z.fed
        BY <1>1, <3>1, ItemFields DEF Agrees, Top
      <4> QED BY <1>6, <3>1, <4>1 DEF Agrees
    <3>2. f \in {"sync", "finish"} => end = f
      BY <3>1
    <3> QED BY <1>1, <3>2
  <2>5. end = "finish" => f = "finish"
    OBVIOUS
  <2> HIDE DEF fed, end, x, t
  <2>6. Top(t) = shown
    BY <2>2, <2>3 DEF Top
  <2>7. r.last \in {"sync", "finish"} => Len(t) > HeaderWrites /\ t[Len(t)] = Deflated(w, r.fed, r.last)
    BY <1>2, <2>2, <2>4
  <2>8. t[Len(t)][4] = "finish" => r.last = "finish"
    BY <1>2, <2>2, <2>3, <2>5
  <2>9. Len(t) >= HeaderWrites /\ Ordered(w, t, r.fed) /\ r.shown <= r.fed /\ Top(t) = r.shown
    BY <1>1, <1>2, <2>2, <2>6, BoundAssumption
  <2> QED BY <1>2, <2>1, <2>7, <2>8, <2>9 DEF Agrees
<1> QED BY <1>5, <1>6

-----------------------------------------------------------------------------
(* Steps of others                                                         *)

\* What a step of another goroutine leaves alone
Kept(b) ==
  /\ st'[b] = st[b] /\ pc'[b] = pc[b]
  /\ st[b] # None => comp'[st[b]] = comp[st[b]]
  /\ pc[b] \in {"emit", "put", "copy"} => buf'[b] = buf[b] /\ content'[buf[b]] = content[buf[b]]
WriterKept(v) ==
  /\ call'[v] = call[v] /\ wroteHeader'[v] = wroteHeader[v] /\ closed'[v] = closed[v]
  /\ err'[v] = err[v] /\ crc'[v] = crc[v] /\ sink'[v] = sink[v]

LEMMA ToldFrame ==
  ASSUME LifeInv, NEW v \in Writers, Told(v), Kept(v), WriterKept(v)
  PROVE  Told(v)'
<1>1. Sent(v)' = Sent(v) /\ Pending(v)' = Pending(v) /\ (Open(v)' <=> Open(v))
      /\ (Streaming(v)' <=> Streaming(v)) /\ (Shaped(v)' <=> Shaped(v))
  BY DEF Kept, WriterKept, Sent, Pending, Open, Streaming, Shaped
<1>2. Streaming(v) => comp'[st'[v]] = comp[st[v]]
  BY DEF LifeInv, Life, Ready, Streaming, Open, Kept
<1>3. pc[v] = "emit" \/ Open(v) => Streaming(v)
  BY DEF Streaming
<1> QED BY <1>1, <1>2, <1>3 DEF Told, Kept, WriterKept

LEMMA SqueezedFrame ==
  ASSUME IInv, NEW c \in Callers, Squeezed(c), Kept(c), result'[c] = result[c]
  PROVE  Squeezed(c)'
<1>1. pc[c] = "squeeze" => st[c] # None
  BY DEF IInv, Placed
<1> QED BY <1>1 DEF Squeezed, Kept

\* A step of a alone keeps what holds of the others
LEMMA SinkOthers ==
  ASSUME IInv, LifeInv, SinkInv, NEW a \in Actors,
         \A b \in Actors \ {a} : Kept(b),
         \A v \in Writers \ {a} : WriterKept(v),
         \A c \in Callers \ {a} : result'[c] = result[c],
         a \in Writers => Told(a)', a \in Callers => Squeezed(a)'
  PROVE  SinkInv'
<1>1. ASSUME NEW v \in Writers PROVE Told(v)'
  BY <1>1, ToldFrame DEF SinkInv
<1>2. ASSUME NEW c \in Callers PROVE Squeezed(c)'
  BY <1>2, SqueezedFrame DEF SinkInv
<1> QED BY <1>1, <1>2 DEF SinkInv

\* A step that only moves what a itself holds keeps the others' data
LEMMA KeptPlain ==
  ASSUME NEW b, st'[b] = st[b], pc'[b] = pc[b], buf'[b] = buf[b], UNCHANGED <<comp, content>>
  PROVE  Kept(b)
BY DEF Kept

-----------------------------------------------------------------------------
(* The calls                                                               *)

LEMMA CallSink ==
  ASSUME IInv, LifeInv, SinkInv, NEW w \in Writers, NEW n \in 0 .. MaxWrite,
         Write(w, n) \/ Flush(w) \/ Close(w)
  PROVE  SinkInv'
<1>1. PICK f \in Ends, k \in 0 .. MaxWrite :
        /\ Begin(w, f, k) /\ Usable(w)
        /\ closed' = IF f = "finish" THEN [closed EXCEPT ![w] = TRUE] ELSE closed
  BY BoundAssumption DEF Write, Flush, Close, Ends
<1>2. /\ pc' = [pc EXCEPT ![w] = IF wroteHeader[w] THEN "enter" ELSE "header"]
      /\ call' = [call EXCEPT ![w] = [flush |-> f, left |-> k]]
      /\ wroteHeader' = [wroteHeader EXCEPT ![w] = TRUE]
      /\ UNCHANGED <<st, buf, comp, content, err, crc, sink, result>>
      /\ pc[w] = "idle" /\ err[w] = "none" /\ ~closed[w]
  BY <1>1 DEF Begin, Goto, Usable
<1>3. pc'[w] = (IF wroteHeader[w] THEN "enter" ELSE "header") /\ wroteHeader'[w]
  BY <1>2 DEF IInv, TypeOK
<1>4. Told(w)'
  <2>1. CASE wroteHeader[w]
    <3>1. Streaming(w) /\ Sent(w) = sink[w] /\ Pending(w) = 0
      BY <1>2, <2>1 DEF Streaming, Open, Sent, Pending
    <3>2. pc'[w] = "enter" /\ Sent(w)' = sink[w] /\ Pending(w)' = 0 /\ ~Open(w)'
      BY <1>2, <1>3, <2>1 DEF Open, Sent, Pending
    <3> QED BY <1>2, <1>3, <3>1, <3>2 DEF SinkInv, Told
  <2>2. CASE ~wroteHeader[w]
    <3>1. sink'[w] = <<>> /\ crc'[w] = 0 /\ pc'[w] = "header" /\ ~Open(w)' /\ ~Streaming(w)'
      BY <1>2, <1>3, <2>2 DEF SinkInv, Told, Open, Streaming
    <3>2. Len(sink'[w]) = 0 /\ Ordered(w, sink'[w], 0)
      BY <3>1 DEF Ordered
    <3> QED BY <1>3, <3>1, <3>2, BoundAssumption DEF Told
  <2> QED BY <2>1, <2>2
<1>5. \A b \in Actors \ {w} : Kept(b)
  BY <1>2 DEF IInv, TypeOK, Kept
<1>6. \A v \in Writers \ {w} : WriterKept(v)
  BY <1>1, <1>2 DEF IInv, TypeOK, WriterKept
<1> QED BY <1>2, <1>4, <1>5, <1>6, ActorAssumption, SinkOthers

LEMMA CloseFailedSink ==
  ASSUME IInv, LifeInv, SinkInv, NEW w \in Writers, CloseFailed(w) PROVE SinkInv'
<1>1. \A b \in Actors \ {w} : st'[b] = st[b] /\ buf'[b] = buf[b]
  BY CloseDeflaterOthers DEF CloseFailed
<1>2. /\ UNCHANGED <<comp, content, pc, call, wroteHeader, closed, err, crc, sink, result>>
      /\ pc[w] = "idle" /\ err[w] # "none"
  BY DEF CloseFailed
<1>3. \A b \in Actors \ {w} : Kept(b)
  BY <1>1, <1>2, KeptPlain
<1>4. Told(w)'
  <2>1. ~Open(w)' /\ ~Streaming(w)' /\ (Shaped(w)' <=> Shaped(w))
    BY <1>2 DEF Open, Streaming, Shaped
  <2> QED BY <1>2, <2>1 DEF SinkInv, Told
<1>5. \A v \in Writers \ {w} : WriterKept(v)
  BY <1>2 DEF WriterKept
<1> QED BY <1>2, <1>3, <1>4, <1>5, ActorAssumption, SinkOthers

LEMMA ResetSink ==
  ASSUME IInv, LifeInv, SinkInv, NEW w \in Writers, Reset(w) PROVE SinkInv'
<1>1. \A b \in Actors \ {w} : st'[b] = st[b] /\ buf'[b] = buf[b]
  BY CloseDeflaterOthers DEF Reset
<1>2. UNCHANGED <<comp, content, pc, result>> /\ pc[w] = "idle"
  BY DEF Reset
<1>3. \A b \in Actors \ {w} : Kept(b)
  BY <1>1, <1>2, KeptPlain
<1>4. /\ wroteHeader'[w] = FALSE /\ closed'[w] = FALSE /\ err'[w] = "none" /\ crc'[w] = 0
      /\ sink'[w] = <<>>
  BY DEF IInv, TypeOK, Reset
<1>5. Told(w)'
  BY <1>2, <1>4 DEF Told, Open, Streaming
<1>6. \A v \in Writers \ {w} : WriterKept(v)
  BY DEF IInv, TypeOK, Reset, WriterKept
<1> QED BY <1>2, <1>3, <1>5, <1>6, ActorAssumption, SinkOthers

-----------------------------------------------------------------------------
(* The header                                                              *)

LEMMA WriteHeaderSink ==
  ASSUME IInv, LifeInv, SinkInv, NEW w \in Writers, WriteHeader(w) PROVE SinkInv'
<1> DEFINE s == sink[w]
<1>1. /\ UNCHANGED <<comp, content, st, buf, call, wroteHeader, closed, crc, result>>
      /\ pc[w] = "header" /\ wroteHeader[w] /\ err[w] = "none"
  BY DEF WriteHeader, LifeInv, Life
<1>2. s \in Seq(Items) /\ Ordered(w, s, 0) /\ Len(s) < HeaderWrites /\ crc[w] = 0 /\ Len(s) \in Nat
  BY <1>1 DEF IInv, TypeOK, SinkInv, Told
<1>3. /\ \A b \in Actors \ {w} : pc'[b] = pc[b]
      /\ \A v \in Writers \ {w} : sink'[v] = sink[v] /\ err'[v] = err[v]
  BY DEF IInv, TypeOK, WriteHeader, Fail, Goto
<1>4. CASE /\ sink' = [sink EXCEPT ![w] = Append(@, Header(Len(@) + 1))]
           /\ Goto(w, IF Len(sink[w]) + 1 = HeaderWrites THEN "init" ELSE "header")
           /\ UNCHANGED err
  <2> DEFINE x == Header(Len(s) + 1)
             t == Append(s, x)
  <2>1. sink'[w] = t /\ pc'[w] = (IF Len(s) + 1 = HeaderWrites THEN "init" ELSE "header")
    BY <1>4 DEF IInv, TypeOK, Goto
  <2>2. x \in Items
    BY <1>2, ItemTypes
  <2>3. Ordered(w, t, 0)
    BY <1>2, <2>2, OrderedHeader
  <2>4. Len(t) = Len(s) + 1
    BY <1>2, <2>2, AppendAt
  <2> HIDE DEF t, s
  <2>5. ~Open(w)' /\ ~Streaming(w)'
    BY <2>1 DEF Open, Streaming
  <2>6. IF pc'[w] = "init" THEN Len(t) = HeaderWrites ELSE Len(t) < HeaderWrites
    BY <1>2, <2>1, <2>4, BoundAssumption
  <2>7. Told(w)'
    BY <1>1, <1>2, <2>1, <2>3, <2>5, <2>6 DEF Told
  <2> QED BY <1>1, <1>3, <2>7, ActorAssumption, SinkOthers, KeptPlain DEF WriterKept
<1>5. CASE sink' = [sink EXCEPT ![w] = Append(@, Torn)] /\ Fail(w, "sink")
  <2>1. sink'[w] = Append(s, Torn) /\ pc'[w] = "idle" /\ err'[w] = "sink"
    BY <1>5 DEF IInv, TypeOK, Fail, Goto
  <2>2. \A i \in 1 .. Len(Append(s, Torn)) : At(w, Append(s, Torn), i, 0, "sink")
    BY <1>2, TornShape
  <2>3. Shaped(w)'
    BY <1>1, <1>2, <2>1, <2>2, ItemTypes, AppendAt DEF Shaped
  <2>4. Told(w)'
    BY <1>1, <2>1, <2>3 DEF Told, Open, Streaming
  <2> QED BY <1>1, <1>3, <2>4, ActorAssumption, SinkOthers, KeptPlain DEF WriterKept
<1> QED BY <1>4, <1>5 DEF WriteHeader

LEMMA InitDeflaterSink ==
  ASSUME IInv, LifeInv, SinkInv, NEW w \in Writers, InitDeflater(w) PROVE SinkInv'
<1>1. pc[w] = "init" /\ st[w] = None /\ buf[w] = None /\ wroteHeader[w] /\ err[w] = "none"
  BY DEF LifeInv, Life, Empty, InitDeflater
<1>2. PICK x \in Obtainable(States, statePool, [st EXCEPT ![w] = None]) :
        st' = [st EXCEPT ![w] = x] /\ comp' = [comp EXCEPT ![x] = Fresh]
  BY <1>1 DEF InitDeflater
<1>3. x \in States /\ \A b \in Actors \ {w} : st[b] # x
  BY <1>2, NoneAssumption DEF IInv, TypeOK, Exclusive, Obtainable
<1>4. /\ st'[w] = x /\ comp'[x] = Fresh /\ pc'[w] = "enter" /\ buf' = buf
      /\ \A b \in Actors \ {w} : st'[b] = st[b] /\ pc'[b] = pc[b]
  BY <1>1, <1>2, <1>3 DEF IInv, TypeOK, InitDeflater, Goto, ReleaseScratch
<1>5. \A b \in Actors \ {w} : st[b] # None => comp'[st[b]] = comp[st[b]]
  BY <1>2, <1>3 DEF IInv, TypeOK
<1>6. UNCHANGED <<content, call, wroteHeader, closed, err, crc, sink, result>>
  BY DEF InitDeflater
<1>7. \A b \in Actors \ {w} : Kept(b)
  BY <1>4, <1>5, <1>6 DEF Kept
<1>8. sink[w] \in Seq(Items) /\ Ordered(w, sink[w], 0) /\ Len(sink[w]) = HeaderWrites /\ crc[w] = 0
  BY <1>1 DEF IInv, TypeOK, SinkInv, Told
<1>9. Fresh.fed = 0 /\ Fresh.shown = 0 /\ Fresh.last = "unused" /\ ~Fresh.finished
  BY DEF Fresh
<1>10. Agrees(w, sink[w], Fresh)
  BY <1>8, <1>9, BoundAssumption DEF Agrees, Top
<1>11. Sent(w)' = sink[w] /\ Pending(w)' = 0 /\ ~Open(w)'
  BY <1>4, <1>6 DEF Sent, Pending, Open
<1>12. Told(w)'
  BY <1>1, <1>4, <1>6, <1>8, <1>9, <1>10, <1>11 DEF Told
<1> QED BY <1>6, <1>7, <1>12, ActorAssumption, SinkOthers DEF WriterKept

-----------------------------------------------------------------------------
(* The data                                                                *)

LEMMA EnterSink == ASSUME IInv, LifeInv, SinkInv, NEW w \in Writers, Enter(w) PROVE SinkInv'
<1>1. /\ pc[w] = "enter" /\ Ready(w) /\ err[w] = "none" /\ wroteHeader[w]
      /\ (closed[w] <=> call[w].flush = "finish")
  BY DEF LifeInv, Life, Enter
<1>2. /\ err' = err /\ crc' = [crc EXCEPT ![w] = @ + call[w].left]
      /\ pc' = [pc EXCEPT ![w] = IF call[w].flush = "none" /\ call[w].left = 0 THEN "idle" ELSE "chunk"]
      /\ UNCHANGED <<comp, content, st, buf, call, wroteHeader, closed, sink, result>>
  BY <1>1 DEF Enter, Goto, Ready
<1>3. /\ crc'[w] = crc[w] + call[w].left /\ crc[w] \in Nat /\ call[w].left \in 0 .. MaxWrite
      /\ pc'[w] = IF call[w].flush = "none" /\ call[w].left = 0 THEN "idle" ELSE "chunk"
      /\ comp[st[w]].fed \in Nat
  BY <1>1, <1>2 DEF IInv, TypeOK, Ready
<1>4. Agrees(w, sink[w], comp[st[w]]) /\ comp[st[w]].fed = crc[w]
  BY <1>1, <1>3 DEF SinkInv, Told, Streaming, Sent, Pending
<1>5. Sent(w)' = sink[w]
  BY <1>2, <1>3 DEF Sent
<1>6. comp[st[w]].fed + Pending(w)' = crc'[w]
  <2>1. Pending(w)' = call[w].left
    BY <1>2, <1>3 DEF Pending
  <2> QED BY <1>3, <1>4, <2>1
<1>7. Told(w)'
  BY <1>1, <1>2, <1>3, <1>4, <1>5, <1>6 DEF Told, Open
<1>8. \A b \in Actors \ {w} : Kept(b)
  BY <1>2 DEF IInv, TypeOK, Kept
<1>9. \A v \in Writers \ {w} : WriterKept(v)
  BY <1>2 DEF IInv, TypeOK, WriterKept
<1> QED BY <1>2, <1>7, <1>8, <1>9, ActorAssumption, SinkOthers

LEMMA AcquireSink == ASSUME IInv, LifeInv, SinkInv, NEW w \in Writers, Acquire(w) PROVE SinkInv'
<1>1. /\ pc[w] = "chunk" /\ pc'[w] = "compress"
      /\ \A b \in Actors \ {w} : pc'[b] = pc[b] /\ buf'[b] = buf[b]
  BY DEF IInv, TypeOK, Acquire, Goto
<1>2. UNCHANGED <<comp, content, st, call, wroteHeader, closed, err, crc, sink, result>>
  BY DEF Acquire, writerVars
<1>3. /\ Sent(w)' = Sent(w) /\ Pending(w)' = Pending(w)
      /\ Streaming(w) /\ ~Open(w)'
  BY <1>1, <1>2 DEF Sent, Pending, Streaming, Open
<1>4. wroteHeader[w]
  BY <1>1 DEF LifeInv, Life
<1>5. Told(w)'
  BY <1>1, <1>2, <1>3, <1>4 DEF SinkInv, Told
<1> QED BY <1>1, <1>2, <1>5, ActorAssumption, SinkOthers, KeptPlain DEF WriterKept

LEMMA CompressSink == ASSUME IInv, LifeInv, SinkInv, NEW w \in Writers, Compress(w) PROVE SinkInv'
<1> DEFINE n == Chunk(w)
           f == IF n = call[w].left THEN call[w].flush ELSE "none"
           z == comp[st[w]]
<1>1. /\ pc[w] = "compress" /\ Ready(w) /\ err[w] = "none" /\ wroteHeader[w]
  BY DEF LifeInv, Life, Compress
<1>2. /\ st[w] \in States /\ buf[w] \in Bufs
      /\ z \in [fed : Nat, shown : Nat, last : Ends \cup {"unused"}, finished : BOOLEAN]
      /\ sink[w] \in Seq(Items) /\ crc[w] \in Nat
  BY <1>1 DEF IInv, TypeOK, Placed, Ready
<1>3. n \in Nat /\ n <= call[w].left /\ call[w].left \in Nat /\ f \in Ends
  BY ChunkBound DEF IInv, TypeOK, Ends
<1>4. PICK shown \in (IF f = "none" THEN z.shown ELSE z.fed + n) .. (z.fed + n) :
        /\ comp' = [comp EXCEPT ![st[w]] = [fed |-> z.fed + n, shown |-> shown, last |-> f,
                                            finished |-> z.finished \/ f = "finish"]]
        /\ content' = [content EXCEPT ![buf[w]] = Emitted(w, z, n, f, shown)]
  BY DEF Compress
<1> DEFINE r == [fed |-> z.fed + n, shown |-> shown, last |-> f, finished |-> z.finished \/ f = "finish"]
<1>5. r.fed = z.fed + n /\ r.last = f
  OBVIOUS
<1>6. Agrees(w, sink[w], z) /\ z.fed + call[w].left = crc[w]
  BY <1>1 DEF SinkInv, Told, Streaming, Sent, Pending
<1>7. Agrees(w, sink[w] \o Emitted(w, z, n, f, shown), r)
  <2>1. ~z.finished
    BY <1>1 DEF Ready
  <2> HIDE DEF n, f, z
  <2> QED BY <1>2, <1>3, <1>6, <2>1, EmittedAgrees
<1>8. comp'[st[w]] = r /\ content'[buf[w]] = Emitted(w, z, n, f, shown)
  <2> HIDE DEF n, f
  <2> QED BY <1>2, <1>4 DEF IInv, TypeOK
<1>9. /\ pc' = [pc EXCEPT ![w] = "emit"] /\ call' = [call EXCEPT ![w].left = @ - n]
      /\ UNCHANGED <<st, buf, wroteHeader, closed, err, crc, sink, result>>
  BY DEF Compress, Goto
<1>10. pc'[w] = "emit" /\ call'[w].left = call[w].left - n /\ call'[w].flush = call[w].flush
  BY <1>9 DEF IInv, TypeOK
<1>11. Sent(w)' = sink[w] \o Emitted(w, z, n, f, shown)
  BY <1>8, <1>9, <1>10 DEF Sent
<1>12. Pending(w)' = call[w].left - n
  BY <1>10 DEF Pending
<1>13. call'[w].left = 0 => f = call'[w].flush
  BY <1>3, <1>10
<1>14. r.fed + Pending(w)' = crc'[w]
  <2> HIDE DEF n, f, r
  <2> QED BY <1>2, <1>3, <1>5, <1>6, <1>9, <1>12
<1>15. Told(w)'
  <2>1. ~Open(w)'
    BY <1>10 DEF Open
  <2> HIDE DEF n, f, z, r
  <2> QED BY <1>1, <1>5, <1>7, <1>8, <1>9, <1>10, <1>11, <1>13, <1>14, <2>1 DEF Told
<1>16. \A b \in Actors \ {w} : Kept(b)
  <2>1. ASSUME NEW b \in Actors \ {w} PROVE pc'[b] = pc[b] /\ st'[b] = st[b] /\ buf'[b] = buf[b]
    BY <1>9 DEF IInv, TypeOK
  <2>2. ASSUME NEW b \in Actors \ {w}, st[b] # None PROVE comp'[st[b]] = comp[st[b]]
    <3>1. st[b] \in States /\ st[b] # st[w]
      BY <2>2 DEF IInv, TypeOK, Exclusive
    <3> HIDE DEF n, f
    <3> QED BY <1>4, <3>1 DEF IInv, TypeOK
  <2>3. ASSUME NEW b \in Actors \ {w}, pc[b] \in {"emit", "put", "copy"} PROVE content'[buf[b]] = content[buf[b]]
    <3>1. buf[b] # None
      BY <2>3 DEF IInv, Placed, WriterLabels, CallerLabels
    <3>2. buf[b] \in Bufs /\ buf[b] # buf[w]
      BY <3>1 DEF IInv, TypeOK, Exclusive
    <3> HIDE DEF n, f
    <3> QED BY <1>4, <3>2 DEF IInv, TypeOK
  <2> QED BY <2>1, <2>2, <2>3 DEF Kept
<1>17. \A v \in Writers \ {w} : WriterKept(v)
  BY <1>9 DEF IInv, TypeOK, WriterKept
<1> QED BY <1>9, <1>15, <1>16, <1>17, ActorAssumption, SinkOthers

\* What has been passed on so far is in order when all of it is
LEMMA OrderedPrefix ==
  ASSUME NEW w, NEW s \in Seq(Items), NEW t \in Seq(Items), NEW n \in Nat, Ordered(w, s \o t, n)
  PROVE  Ordered(w, s, n)
<1>1. Len(s \o t) = Len(s) + Len(t) /\ Len(s) \in Nat /\ Len(t) \in Nat
      /\ \A i \in 1 .. Len(s) : (s \o t)[i] = s[i]
  OBVIOUS
<1>2. 1 .. Len(s) \subseteq 1 .. Len(s \o t)
  BY <1>1
<1>3. \A i \in 1 .. Len(s) : i - 1 > HeaderWrites => i - 1 \in 1 .. Len(s)
  BY <1>1, BoundAssumption
<1> DEFINE u == s \o t
<1>4. Ordered(w, u, n)
  OBVIOUS
<1> HIDE DEF u
<1>5. Ordered(w, s, n)
  BY <1>1, <1>2, <1>3, <1>4 DEF Ordered
<1> QED BY <1>5

LEMMA EmitSink == ASSUME IInv, LifeInv, SinkInv, NEW w \in Writers, Emit(w) PROVE SinkInv'
<1> DEFINE s == sink[w]
           c == content[buf[w]]
           z == comp[st[w]]
<1>1. /\ pc[w] = "emit" /\ st[w] # None /\ err[w] = "none" /\ wroteHeader[w]
      /\ (closed[w] <=> call[w].flush = "finish")
  BY DEF LifeInv, Life, Emit
<1>2. /\ UNCHANGED <<comp, content, st, call, wroteHeader, closed, crc, result>>
      /\ \A b \in Actors \ {w} : pc'[b] = pc[b]
      /\ \A v \in Writers \ {w} : sink'[v] = sink[v] /\ err'[v] = err[v]
  BY DEF IInv, TypeOK, Emit, Fail, Goto
<1>3. \A b \in Actors \ {w} : buf'[b] = buf[b]
  <2>1. ReleaseScratch(w) \/ UNCHANGED buf
    BY DEF Emit
  <2>2. buf' = [buf EXCEPT ![w] = None] \/ UNCHANGED buf
    BY <2>1, ReleaseScratchFrame
  <2> QED BY <2>2 DEF IInv, TypeOK
<1>4. s \in Seq(Items) /\ c \in Seq(Items) /\ crc[w] \in Nat /\ z.fed \in Nat /\ call[w].left \in Nat
  BY <1>1, ChunkBound DEF IInv, TypeOK, Placed
<1>5. /\ Agrees(w, s \o c, z) /\ z.fed + call[w].left = crc[w]
      /\ (call[w].left = 0 => z.last = call[w].flush)
  BY <1>1 DEF SinkInv, Told, Streaming, Sent, Pending
<1>6. CASE /\ sink' = [sink EXCEPT ![w] = @ \o content[buf[w]]]
           /\ Goto(w, IF call[w].left > 0 THEN "chunk"
                      ELSE IF call[w].flush = "finish" THEN "release" ELSE "idle")
           /\ UNCHANGED err
  <2>1. /\ sink'[w] = s \o c
        /\ pc'[w] = IF call[w].left > 0 THEN "chunk"
                    ELSE IF call[w].flush = "finish" THEN "release" ELSE "idle"
    BY <1>6 DEF IInv, TypeOK, Goto
  <2> HIDE DEF s, c
  <2>2. Sent(w)' = s \o c
    BY <2>1 DEF Sent
  <2>3. pc'[w] # "release" => z.fed + Pending(w)' = crc[w]
    BY <1>2, <1>4, <1>5, <2>1 DEF Pending
  <2>4. ASSUME pc'[w] = "release"
        PROVE  /\ Ordered(w, s \o c, crc[w]) /\ Len(s \o c) > HeaderWrites
               /\ Last(s \o c) = Deflated(w, crc[w], "finish") /\ call[w].flush = "finish"
    <3>1. call[w].left = 0 /\ call[w].flush = "finish"
      BY <1>4, <2>1, <2>4
    <3>2. z.last = "finish" /\ z.fed = crc[w]
      BY <1>4, <1>5, <3>1
    <3> QED BY <1>5, <3>1, <3>2 DEF Agrees, Last
  <2>5. Open(w)' => z.last = call[w].flush
    BY <1>4, <1>5, <2>1 DEF Open
  <2>6. pc'[w] = "idle" => ~closed[w]
    BY <1>1, <2>1
  <2>7. pc'[w] \in {"chunk", "release", "idle"}
    BY <2>1
  <2>8. Streaming(w)' => pc'[w] # "release"
    BY DEF Streaming, Open
  <2>9. Told(w)'
    <3>1. Streaming(w)' => Agrees(w, Sent(w)', z) /\ z.fed + Pending(w)' = crc[w]
      BY <1>5, <2>2, <2>3, <2>8
    <3> QED BY <1>1, <1>2, <1>6, <2>1, <2>4, <2>5, <2>6, <2>7, <3>1 DEF Told
  <2> QED BY <1>2, <1>3, <2>9, ActorAssumption, SinkOthers, KeptPlain DEF WriterKept
<1>7. CASE sink' = [sink EXCEPT ![w] = Append(@, Torn)] /\ Fail(w, "sink")
  <2>1. sink'[w] = Append(s, Torn) /\ pc'[w] = "idle" /\ err'[w] = "sink"
    BY <1>7 DEF IInv, TypeOK, Fail, Goto
  <2>2. Ordered(w, s, z.fed) /\ z.fed <= crc[w]
    <3> HIDE DEF s, c, z
    <3> QED BY <1>4, <1>5, OrderedPrefix DEF Agrees
  <2>3. \A i \in 1 .. Len(Append(s, Torn)) : At(w, Append(s, Torn), i, crc[w], "sink")
    <3> HIDE DEF s, c, z
    <3> QED BY <1>4, <2>2, TornShape
  <2>4. DOMAIN Append(s, Torn) = 1 .. Len(Append(s, Torn))
    BY <1>4, ItemTypes, AppendAt
  <2>5. Shaped(w)'
    <3> HIDE DEF s, c
    <3> QED BY <1>2, <2>1, <2>3, <2>4 DEF Shaped
  <2>6. Told(w)'
    BY <1>1, <1>2, <2>1, <2>5 DEF Told, Open, Streaming
  <2> QED BY <1>2, <1>3, <2>6, ActorAssumption, SinkOthers, KeptPlain DEF WriterKept
<1> QED BY <1>6, <1>7 DEF Emit

LEMMA ReleaseSink == ASSUME IInv, LifeInv, SinkInv, NEW w \in Writers, Release(w) PROVE SinkInv'
<1>1. \A b \in Actors \ {w} : st'[b] = st[b] /\ buf'[b] = buf[b]
  BY CloseDeflaterOthers DEF Release
<1>2. /\ UNCHANGED <<comp, content, call, wroteHeader, closed, err, crc, sink, result>>
      /\ pc[w] = "release" /\ pc'[w] = "trailer" /\ \A b \in Actors \ {w} : pc'[b] = pc[b]
  BY DEF IInv, TypeOK, Release, Goto
<1>3. ~Open(w)' /\ ~Streaming(w)' /\ wroteHeader[w]
  BY <1>2 DEF Open, Streaming, LifeInv, Life
<1>4. Told(w)'
  BY <1>2, <1>3 DEF SinkInv, Told
<1> QED BY <1>1, <1>2, <1>4, ActorAssumption, SinkOthers, KeptPlain DEF WriterKept

LEMMA WriteTrailerSink == ASSUME IInv, LifeInv, SinkInv, NEW w \in Writers, WriteTrailer(w) PROVE SinkInv'
<1> DEFINE s == sink[w]
           n == crc[w]
<1>1. /\ UNCHANGED <<comp, content, st, buf, call, wroteHeader, closed, crc, result>>
      /\ pc[w] = "trailer" /\ wroteHeader[w] /\ err[w] = "none" /\ closed[w]
  BY DEF WriteTrailer, LifeInv, Life
<1>2. /\ s \in Seq(Items) /\ n \in Nat /\ Ordered(w, s, n) /\ Len(s) > HeaderWrites
      /\ s[Len(s)] = Deflated(w, n, "finish") /\ call[w].flush = "finish"
  BY <1>1 DEF IInv, TypeOK, SinkInv, Told, Last
<1>3. /\ pc'[w] = "idle" /\ \A b \in Actors \ {w} : pc'[b] = pc[b]
      /\ \A v \in Writers \ {w} : sink'[v] = sink[v] /\ err'[v] = err[v]
  BY DEF IInv, TypeOK, WriteTrailer, Fail, Goto
<1>4. CASE sink' = [sink EXCEPT ![w] = Append(@, Trailer(crc[w]))] /\ UNCHANGED err
  <2> DEFINE t == Append(s, Trailer(n))
  <2>1. sink'[w] = t
    BY <1>4 DEF IInv, TypeOK
  <2>2. /\ Len(t) = Len(s) + 1 /\ t[Len(s) + 1] = Trailer(n) /\ Len(s) \in Nat /\ DOMAIN t = 1 .. Len(t)
    <3>1. Trailer(n) \in Items
      BY <1>2, ItemTypes
    <3> QED BY <1>2, <3>1, AppendAt
  <2>3. \A i \in 1 .. Len(t) : At(w, t, i, n, err[w])
    BY <1>2, TrailerShape
  <2> HIDE DEF t, s, n
  <2>4. Len(t) >= HeaderWrites + 2 /\ Last(t) = Trailer(n)
    BY <1>2, <2>2, BoundAssumption DEF Last
  <2>5. Shaped(w)'
    BY <1>1, <1>4, <2>1, <2>2, <2>3 DEF Shaped, n
  <2>6. Told(w)'
    BY <1>1, <1>2, <1>3, <1>4, <2>1, <2>4, <2>5 DEF Told, Open, Streaming, n
  <2> QED BY <1>1, <1>3, <2>6, ActorAssumption, SinkOthers, KeptPlain DEF WriterKept
<1>5. CASE sink' = [sink EXCEPT ![w] = Append(@, Torn)] /\ Fail(w, "sink")
  <2>1. sink'[w] = Append(s, Torn) /\ err'[w] = "sink"
    BY <1>5 DEF IInv, TypeOK, Fail
  <2>2. \A i \in 1 .. Len(Append(s, Torn)) : At(w, Append(s, Torn), i, n, "sink")
    BY <1>2, TornShape
  <2>3. Shaped(w)'
    BY <1>1, <1>2, <2>1, <2>2, ItemTypes, AppendAt DEF Shaped
  <2>4. Told(w)'
    BY <1>1, <1>3, <2>1, <2>3 DEF Told, Open, Streaming
  <2> QED BY <1>1, <1>3, <2>4, ActorAssumption, SinkOthers, KeptPlain DEF WriterKept
<1> QED BY <1>4, <1>5 DEF WriteTrailer

-----------------------------------------------------------------------------
(* One-shot calls                                                          *)

\* A step of a caller touches nothing of a Writer's own
LEMMA CallerWriters ==
  ASSUME IInv, NEW c \in Callers, GetScratch(c) \/ CallerStep(c)
  PROVE  \A v \in Writers \ {c} : WriterKept(v)
BY DEF GetScratch, CallerStep, GetState, Squeeze, PutState, CopyResult, GiveBack, writerVars, WriterKept

LEMMA GetScratchSink ==
  ASSUME IInv, LifeInv, SinkInv, NEW c \in Callers, GetScratch(c) PROVE SinkInv'
<1>1. /\ pc'[c] = "state" /\ result'[c] = <<>> /\ UNCHANGED <<comp, content, st>>
      /\ \A b \in Actors \ {c} : pc'[b] = pc[b] /\ buf'[b] = buf[b] /\ st'[b] = st[b]
      /\ \A b \in Callers \ {c} : result'[b] = result[b]
  BY DEF IInv, TypeOK, GetScratch, Goto
<1>2. \A b \in Actors \ {c} : Kept(b)
  BY <1>1, KeptPlain
<1>3. Squeezed(c)'
  BY <1>1 DEF Squeezed
<1> QED BY <1>1, <1>2, <1>3, ActorAssumption, CallerWriters, SinkOthers

LEMMA GetStateSink ==
  ASSUME IInv, LifeInv, SinkInv, NEW c \in Callers, GetState(c) PROVE SinkInv'
<1>1. PICK x \in Obtainable(States, statePool, st) :
        /\ st' = [st EXCEPT ![c] = x] /\ comp' = [comp EXCEPT ![x] = Fresh]
  BY DEF GetState
<1>2. x \in States /\ \A b \in Actors : st[b] # None => st[b] # x
  BY <1>1 DEF IInv, TypeOK, Exclusive, Obtainable
<1>3. /\ pc'[c] = "squeeze" /\ st'[c] = x /\ comp'[x] = Fresh /\ UNCHANGED <<content, buf, result>>
      /\ \A b \in Actors \ {c} : pc'[b] = pc[b] /\ st'[b] = st[b]
  BY <1>1, <1>2 DEF IInv, TypeOK, GetState, Goto
<1>4. \A b \in Actors : st[b] # None => comp'[st[b]] = comp[st[b]]
  BY <1>1, <1>2 DEF IInv, TypeOK
<1>5. \A b \in Actors \ {c} : Kept(b)
  BY <1>3, <1>4 DEF Kept
<1>6. Squeezed(c)'
  BY <1>3 DEF SinkInv, Squeezed
<1> QED BY <1>3, <1>5, <1>6, ActorAssumption, CallerWriters, SinkOthers DEF CallerStep

LEMMA SqueezeSink ==
  ASSUME IInv, LifeInv, SinkInv, NEW c \in Callers, Squeeze(c) PROVE SinkInv'
<1> DEFINE z == comp[st[c]]
           out == Emitted(c, z, 1, "finish", z.fed + 1)
<1>1. pc[c] = "squeeze" /\ st[c] \in States /\ buf[c] \in Bufs /\ z = Fresh
  BY DEF IInv, TypeOK, Placed, Squeeze, SinkInv, Squeezed
<1>2. /\ pc' = [pc EXCEPT ![c] = "put"] /\ UNCHANGED <<st, buf, result>>
      /\ content' = [content EXCEPT ![buf[c]] = out]
  BY DEF Squeeze, Goto
<1>3. PICK r : comp' = [comp EXCEPT ![st[c]] = r]
  BY DEF Squeeze
<1>4. out = <<Deflated(c, 1, "finish")>>
  <2>1. z.fed = 0
    BY <1>1 DEF Fresh
  <2> QED BY <2>1 DEF Emitted
<1>5. pc'[c] = "put" /\ content'[buf'[c]] = <<Deflated(c, 1, "finish")>>
  <2> HIDE DEF out
  <2> QED BY <1>1, <1>2, <1>4 DEF IInv, TypeOK
<1>6. Squeezed(c)'
  BY <1>2, <1>5 DEF SinkInv, Squeezed
<1>7. \A b \in Actors \ {c} : Kept(b)
  <2> HIDE DEF out
  <2>1. ASSUME NEW b \in Actors \ {c} PROVE pc'[b] = pc[b] /\ st'[b] = st[b] /\ buf'[b] = buf[b]
    BY <1>2 DEF IInv, TypeOK
  <2>2. ASSUME NEW b \in Actors \ {c}, st[b] # None PROVE comp'[st[b]] = comp[st[b]]
    <3>1. st[b] \in States /\ st[b] # st[c]
      BY <2>2 DEF IInv, TypeOK, Exclusive
    <3> QED BY <1>3, <3>1 DEF IInv, TypeOK
  <2>3. ASSUME NEW b \in Actors \ {c}, pc[b] \in {"emit", "put", "copy"} PROVE content'[buf[b]] = content[buf[b]]
    <3>1. buf[b] # None
      BY <2>3 DEF IInv, Placed, WriterLabels, CallerLabels
    <3>2. buf[b] \in Bufs /\ buf[b] # buf[c]
      BY <3>1 DEF IInv, TypeOK, Exclusive
    <3> QED BY <1>2, <3>2 DEF IInv, TypeOK
  <2> QED BY <2>1, <2>2, <2>3 DEF Kept
<1> QED BY <1>2, <1>6, <1>7, ActorAssumption, CallerWriters, SinkOthers DEF CallerStep

\* The state goes back first; the result is copied while the buffer is still held
LEMMA PutStateSink ==
  ASSUME IInv, LifeInv, SinkInv, NEW c \in Callers, PutState(c) PROVE SinkInv'
<1>1. /\ pc[c] = "put" /\ pc'[c] = "copy" /\ UNCHANGED <<comp, content, buf, result>>
      /\ \A b \in Actors \ {c} : pc'[b] = pc[b] /\ st'[b] = st[b]
  BY DEF IInv, TypeOK, PutState, Goto
<1>2. \A b \in Actors \ {c} : Kept(b)
  BY <1>1, KeptPlain
<1>3. Squeezed(c)'
  BY <1>1 DEF SinkInv, Squeezed
<1> QED BY <1>1, <1>2, <1>3, ActorAssumption, CallerWriters, SinkOthers DEF CallerStep

LEMMA CopyResultSink ==
  ASSUME IInv, LifeInv, SinkInv, NEW c \in Callers, CopyResult(c) PROVE SinkInv'
<1>1. /\ pc[c] = "copy" /\ pc'[c] = "giveback" /\ UNCHANGED <<comp, content, buf, st>>
      /\ result'[c] = content[buf[c]]
      /\ \A b \in Actors \ {c} : pc'[b] = pc[b]
      /\ \A b \in Callers \ {c} : result'[b] = result[b]
  BY DEF IInv, TypeOK, CopyResult, Goto
<1>2. \A b \in Actors \ {c} : Kept(b)
  BY <1>1, KeptPlain
<1>3. Squeezed(c)'
  BY <1>1 DEF SinkInv, Squeezed
<1> QED BY <1>1, <1>2, <1>3, ActorAssumption, CallerWriters, SinkOthers DEF CallerStep

LEMMA GiveBackSink ==
  ASSUME IInv, LifeInv, SinkInv, NEW c \in Callers, GiveBack(c) PROVE SinkInv'
<1>1. /\ pc'[c] = "idle" /\ UNCHANGED <<comp, content, st, result>>
      /\ \A b \in Actors \ {c} : pc'[b] = pc[b] /\ buf'[b] = buf[b]
  BY DEF IInv, TypeOK, GiveBack, Goto
<1>2. \A b \in Actors \ {c} : Kept(b)
  BY <1>1, KeptPlain
<1>3. Squeezed(c)'
  BY <1>1 DEF SinkInv, Squeezed
<1> QED BY <1>1, <1>2, <1>3, ActorAssumption, CallerWriters, SinkOthers DEF CallerStep

-----------------------------------------------------------------------------
(* The theorems                                                            *)

LEMMA InitSink == Init => SinkInv
BY DEF Init, SinkInv, Told, Squeezed, Open, Streaming

LEMMA IdleSink == LifeInv /\ IInv /\ SinkInv /\ (Collect \/ UNCHANGED vars) => SinkInv'
<1> SUFFICES ASSUME LifeInv, IInv, SinkInv, Collect \/ UNCHANGED vars PROVE SinkInv'
  OBVIOUS
<1>1. UNCHANGED <<comp, content, st, buf, pc, result, call, wroteHeader, closed, err, crc, sink>>
  BY DEF Collect, vars, writerVars
<1>2. \A v \in Writers : Kept(v) /\ WriterKept(v)
  BY <1>1 DEF Kept, WriterKept
<1>3. \A c \in Callers : Kept(c)
  BY <1>1 DEF Kept
<1> QED BY <1>1, <1>2, <1>3, ToldFrame, SqueezedFrame DEF SinkInv

LEMMA NextSink == IInv /\ LifeInv /\ SinkInv /\ [Next]_vars => SinkInv'
<1> SUFFICES ASSUME IInv, LifeInv, SinkInv, [Next]_vars PROVE SinkInv'
  OBVIOUS
<1>1. CASE Collect \/ UNCHANGED vars
  BY <1>1, IdleSink
<1>2. ASSUME NEW w \in Writers, WriterCall(w) PROVE SinkInv'
  BY <1>2, BoundAssumption, CallSink, CloseFailedSink, ResetSink DEF WriterCall
<1>3. ASSUME NEW w \in Writers, WriterStep(w) PROVE SinkInv'
  BY <1>3, WriteHeaderSink, InitDeflaterSink, EnterSink, AcquireSink, CompressSink, EmitSink,
     ReleaseSink, WriteTrailerSink DEF WriterStep
<1>4. ASSUME NEW c \in Callers, GetScratch(c) \/ CallerStep(c) PROVE SinkInv'
  BY <1>4, GetScratchSink, GetStateSink, SqueezeSink, PutStateSink, CopyResultSink, GiveBackSink
  DEF CallerStep
<1> QED BY <1>1, <1>2, <1>3, <1>4 DEF Next

\* At each point of a stream's life the sink, the pending output and the
\* compressor agree on what has been shown and up to where (gzip.go:185-378,
\* stream.go:84-160).
THEOREM StreamsAgree == Spec => [](IInv /\ LifeInv /\ SinkInv)
<1>1. Init => SinkInv
  BY InitSink
<1>2. IInv /\ LifeInv /\ SinkInv /\ [Next]_vars => SinkInv'
  BY NextSink
<1> QED BY <1>1, <1>2, LifeCycle, PTL DEF Spec

LEMMA SinkShaped ==
  ASSUME IInv, LifeInv, SinkInv, NEW w \in Writers
  PROVE  Shaped(w)
<1>1. sink[w] \in Seq(Items) /\ crc[w] \in Nat /\ DOMAIN sink[w] = 1 .. Len(sink[w])
  BY DEF IInv, TypeOK
<1>2. ASSUME NEW m \in Nat, m <= crc[w], Ordered(w, sink[w], m) PROVE Shaped(w)
  BY <1>1, <1>2, OrderedShape DEF Shaped
<1>3. CASE ~wroteHeader[w]
  BY <1>3 DEF SinkInv, Told, Shaped
<1>4. CASE pc[w] \in {"header", "init"}
  BY <1>1, <1>2, <1>4 DEF SinkInv, Told
<1>5. CASE Streaming(w)
  <2> DEFINE z == comp[st[w]]
  <2>1. Agrees(w, Sent(w), z) /\ z.fed + Pending(w) = crc[w]
    BY <1>5 DEF SinkInv, Told
  <2>2. z.fed \in Nat /\ Pending(w) \in Nat
    BY <1>5, ChunkBound DEF IInv, TypeOK, LifeInv, Life, Ready, Streaming, Open, Pending
  <2>3. Ordered(w, sink[w], z.fed)
    <3>1. CASE pc[w] = "emit"
      <4>1. content[buf[w]] \in Seq(Items)
        BY <3>1 DEF IInv, TypeOK, Placed
      <4> QED BY <1>1, <2>1, <2>2, <3>1, <4>1, OrderedPrefix DEF Agrees, Sent
    <3>2. CASE pc[w] # "emit"
      BY <2>1, <3>2 DEF Agrees, Sent
    <3> QED BY <3>1, <3>2
  <2>4. z.fed <= crc[w]
    BY <1>1, <2>1, <2>2
  <2> QED BY <1>2, <2>2, <2>3, <2>4
<1>6. CASE pc[w] \in {"release", "trailer"}
  BY <1>1, <1>2, <1>6 DEF SinkInv, Told
<1>7. CASE pc[w] = "idle" /\ (closed[w] \/ err[w] # "none")
  BY <1>7 DEF SinkInv, Told
<1>8. pc[w] \in WriterLabels
  BY DEF IInv, Placed
<1> QED BY <1>3, <1>4, <1>5, <1>6, <1>7, <1>8 DEF WriterLabels, Streaming, Open

\* The underlying io.Writer has always received a prefix of one GZIP stream:
\* header, data of this Writer in order, trailer with the checksum of all of it.
THEOREM WellFormed == Spec => []SinkWellFormed
<1>1. ASSUME IInv, LifeInv, SinkInv PROVE SinkWellFormed
  <2>1. \A w \in Writers : Shaped(w)
    BY <1>1, SinkShaped
  <2> QED BY <2>1 DEF Shaped, At, SinkWellFormed
<1> QED BY <1>1, StreamsAgree, PTL

\* Close that returns nil has delivered everything up to the trailer
\* (gzip.go:346-378).
THEOREM CloseCompletes == Spec => []CloseDelivers
<1>1. ASSUME IInv, LifeInv, SinkInv PROVE CloseDelivers
  BY <1>1 DEF SinkInv, Told, CloseDelivers
<1> QED BY <1>1, StreamsAgree, PTL

\* Flush that returns nil has pushed out all data written so far
\* (gzip.go:319-344), also when it is repeated or follows an empty Write.
THEOREM FlushCompletes == Spec => []FlushDelivers
<1>1. ASSUME IInv, LifeInv, SinkInv PROVE FlushDelivers
  <2>1. ASSUME NEW w \in Writers, pc[w] = "idle", wroteHeader[w], err[w] = "none", call[w].flush = "sync"
        PROVE  Last(sink[w]) = Deflated(w, crc[w], "sync")
    <3>1. Open(w)
      BY <1>1, <2>1 DEF SinkInv, Told, Open
    <3>2. /\ Sent(w) = sink[w] /\ Pending(w) = 0 /\ Streaming(w)
          /\ comp[st[w]].last = "sync"
      BY <1>1, <2>1, <3>1 DEF SinkInv, Told, Sent, Pending, Streaming
    <3>3. comp[st[w]].fed \in Nat
      BY <1>1, <3>1 DEF IInv, TypeOK, LifeInv, Life, Ready, Open
    <3>4. Agrees(w, sink[w], comp[st[w]]) /\ comp[st[w]].fed = crc[w]
      BY <1>1, <3>2, <3>3 DEF SinkInv, Told
    <3> QED BY <3>2, <3>4 DEF Agrees, Last
  <2> QED BY <2>1 DEF FlushDelivers
<1> QED BY <1>1, StreamsAgree, PTL

\* A one-shot call returns exactly the compression of its own input, although
\* it gives its state back before it copies the result (zdeflate/gzip.go:54-71, 104-151).
THEOREM OneShotCorrect == Spec => []OneShotExact
<1>1. SinkInv => OneShotExact
  BY DEF SinkInv, Squeezed, OneShotExact
<1> QED BY <1>1, StreamsAgree, PTL

\* A step that writes to the sink is one of a Writer in the middle of a call
LEMMA SinkSteps ==
  ASSUME IInv, LifeInv, [Next]_vars, NEW v \in Writers, err[v] # "none"
  PROVE  sink'[v] = sink[v] \/ (sink'[v] = <<>> /\ err'[v] = "none")
<1>1. pc[v] = "idle"
  BY DEF LifeInv, Life
<1>2. CASE Collect \/ UNCHANGED vars
  BY <1>2 DEF Collect, vars, writerVars
<1>3. ASSUME NEW w \in Writers, WriteHeader(w) \/ Emit(w) \/ WriteTrailer(w) PROVE sink'[v] = sink[v]
  <2>1. w # v
    BY <1>1, <1>3 DEF WriteHeader, Emit, WriteTrailer
  <2> QED BY <1>3, <2>1 DEF IInv, TypeOK, WriteHeader, Emit, WriteTrailer
<1>4. ASSUME NEW w \in Writers, InitDeflater(w) \/ Enter(w) \/ Acquire(w) \/ Compress(w) \/ Release(w)
      PROVE  sink'[v] = sink[v]
  BY <1>4 DEF InitDeflater, Enter, Acquire, Compress, Release, writerVars
<1>5. ASSUME NEW w \in Writers, WriterCall(w)
      PROVE  sink'[v] = sink[v] \/ (sink'[v] = <<>> /\ err'[v] = "none")
  <2>1. CASE Reset(w)
    <3>1. CASE w = v
      BY <2>1, <3>1 DEF IInv, TypeOK, Reset
    <3>2. CASE w # v
      BY <2>1, <3>2 DEF IInv, TypeOK, Reset
    <3> QED BY <3>1, <3>2
  <2>2. CASE ~Reset(w)
    BY <1>5, <2>2 DEF WriterCall, Write, Flush, Close, Begin, CloseFailed
  <2> QED BY <2>1, <2>2
<1>6. ASSUME NEW c \in Callers, GetScratch(c) \/ CallerStep(c) PROVE sink'[v] = sink[v]
  BY <1>6 DEF GetScratch, CallerStep, GetState, Squeeze, PutState, CopyResult, GiveBack, writerVars
<1> QED BY <1>2, <1>3, <1>4, <1>5, <1>6 DEF Next, WriterStep

\* Once a call has failed nothing more is written until Reset: the checks of
\* z.err at the top of Write, Flush and Close hold on every path (gzip.go:279-378).
THEOREM ErrorSticks == Spec => NothingAfterError
<1>1. IInv /\ LifeInv /\ [Next]_vars =>
        [\A w \in Writers : err[w] # "none" =>
           sink'[w] = sink[w] \/ (sink'[w] = <<>> /\ err'[w] = "none")]_vars
  BY SinkSteps
<1> QED BY <1>1, LifeCycle, PTL DEF Spec, NothingAfterError
=============================================================================
