----------------------------- MODULE GzipHeader ------------------------------
(***************************************************************************)
(* The Header of a Writer (gzip.go) together with the Writer itself: which *)
(* bytes ensureStarted sends for the fields set by the caller, when the    *)
(* fields count, and what an invalid field does to the stream.             *)
(*                                                                         *)
(* GzipWriter runs with HeaderWrites = 1: its one header item stands for   *)
(* the whole header, which is sent in several writes here.                 *)
(*                                                                         *)
(* A field is a record component; a string is the sequence of its          *)
(* characters, time is in seconds since 1970.                              *)
(***************************************************************************)
EXTENDS GzipWriter, Functions

CONSTANTS
  Base,        \* values of a byte (256); identification and flags have their own
  Nil,         \* a nil Extra
  Headers,     \* the headers callers assign
  StdHeaders   \* headers of the standard library, passed to SetHeader

Default == [comment |-> <<>>, extra |-> Nil, modTime |-> -1, name |-> <<>>, os |-> 3, mtime |-> 0]
StdFields == DOMAIN Default \ {"mtime"}

\* The numbers that two and four bytes can hold
Size16 == Base * Base
Size32 == Size16 * Size16

\* The characters of a string may be any, not only those of one byte
ASSUME HeaderAssumption ==
  /\ HeaderWrites = 1 /\ Base \in Nat \ {0, 1}
  /\ Nil \notin Seq(0 .. Base - 1)
  /\ Headers \subseteq [comment : Seq(Nat), extra : {Nil} \cup Seq(0 .. Base - 1), modTime : Int,
                        name : Seq(Nat), os : Nat, mtime : 0 .. Size32 - 1]
  /\ StdHeaders \subseteq [comment : Seq(Nat), extra : {Nil} \cup Seq(0 .. Base - 1), modTime : Int,
                           name : Seq(Nat), os : Nat]

VARIABLES
  fields,  \* per writer: z.Header
  head,    \* per writer: the bytes of the header the underlying io.Writer has received
  parts,   \* per writer: how many writes these took
  asked    \* history, per writer: the fields assigned since NewWriter or Reset,
           \* up to the first call

headerVars == <<fields, head, parts, asked>>

-----------------------------------------------------------------------------
(* The bytes                                                               *)

flagExtra   == 4
flagName    == 8
flagComment == 16

\* The low bytes of n, the lowest first
Uint16(n) == <<n % Base, (n \div Base) % Base>>
Uint32(n) == Uint16(n) \o Uint16(n \div Size16)

\* MTIME: Mtime goes before ModTime, and times up to 1970 are not written
Mtime(h) == IF h.mtime # 0 THEN h.mtime ELSE IF h.modTime > 0 THEN h.modTime ELSE 0

Fixed(h) ==
  LET flg == (IF h.extra # Nil THEN flagExtra ELSE 0) + (IF h.name # <<>> THEN flagName ELSE 0)
             + (IF h.comment # <<>> THEN flagComment ELSE 0)
  IN  <<31, 139, 8, flg>> \o Uint32(Mtime(h)) \o <<0, h.os>>

\* One write of a header: bytes, or the error of an invalid field
Sends(b) == [bad |-> FALSE, bytes |-> b]
Invalid  == [bad |-> TRUE, bytes |-> <<>>]

\* writeBytes
WriteBytes(b) ==
  IF Len(b) > Size16 - 1 THEN <<Invalid>> ELSE <<Sends(Uint16(Len(b))), Sends(b)>>

\* [mutant] a NUL is not refused
WriteStringNul(s) ==
  IF \E i \in DOMAIN s : s[i] >= Base THEN <<Invalid>> ELSE <<Sends(s), Sends(<<0>>)>>
\* writeString: Latin-1, which for ASCII is the string as it is
WriteString(s) ==
  IF \E i \in DOMAIN s : s[i] = 0 \/ s[i] >= Base THEN <<Invalid>>
  ELSE <<Sends([i \in DOMAIN s |-> s[i] % Base]), Sends(<<0>>)>>

\* ensureStarted: the writes it makes for the fields of h
Parts(h) == <<Sends(Fixed(h))>>
              \o (IF h.extra # Nil THEN WriteBytes(h.extra) ELSE <<>>)
              \o (IF h.name # <<>> THEN WriteString(h.name) ELSE <<>>)
              \o (IF h.comment # <<>> THEN WriteString(h.comment) ELSE <<>>)

\* [mutant] SetHeader forgets the operating system
WithStdHeaderNoOS(old, h) ==
  [old EXCEPT !.comment = h.comment, !.extra = h.extra, !.modTime = h.modTime, !.name = h.name]
\* SetHeader: all fields but Mtime
WithStdHeader(old, h) ==
  [old EXCEPT !.comment = h.comment, !.extra = h.extra, !.modTime = h.modTime,
              !.name = h.name, !.os = h.os]

-----------------------------------------------------------------------------

HeaderInit ==
  /\ Init
  /\ fields = [w \in Writers |-> Default] /\ head = [w \in Writers |-> <<>>]
  /\ parts = [w \in Writers |-> 0] /\ asked = [w \in Writers |-> Default]

\* Between two calls the caller may set the fields
Set(w, h, wanted) ==
  /\ pc[w] = "idle"
  /\ fields' = [fields EXCEPT ![w] = h]
  /\ asked' = IF wroteHeader[w] THEN asked ELSE [asked EXCEPT ![w] = wanted]
  /\ UNCHANGED <<head, parts>> /\ UNCHANGED vars

Assign(w, h)    == Set(w, h, h)
SetHeader(w, h) == Set(w, WithStdHeader(fields[w], h),
                       [f \in DOMAIN Default |-> IF f = "mtime" THEN asked[w].mtime ELSE h[f]])

\* ensureStarted, one write.  A failed write may leave any part of it behind
SendPart(w) ==
  /\ pc[w] = "header"
  /\ LET todo == Parts(fields[w])
         part == todo[parts[w] + 1]
     IN  \/ /\ ~part.bad
            /\ head' = [head EXCEPT ![w] = @ \o part.bytes]
            /\ parts' = [parts EXCEPT ![w] = @ + 1]
            /\ IF parts[w] + 1 = Len(todo) THEN WriteHeader(w) /\ err'[w] = "none"
               ELSE UNCHANGED vars
         \/ /\ WriteHeader(w) /\ err'[w] # "none"
            /\ UNCHANGED <<head, parts>>
  /\ UNCHANGED <<fields, asked>>

\* [mutant] Reset keeps the header
ResetFieldsKept(w) == fields[w]
\* "z.Header = Header{OS: 3}"
ResetFields(w) == Default

ResetHeader(w) ==
  /\ Reset(w)
  /\ fields' = [fields EXCEPT ![w] = ResetFields(w)]
  /\ head' = [head EXCEPT ![w] = <<>>]
  /\ parts' = [parts EXCEPT ![w] = 0]
  /\ asked' = [asked EXCEPT ![w] = Default]

\* The steps of GzipWriter that the header has no part in
Calls(w) == ((\E n \in 0 .. MaxWrite : Write(w, n)) \/ Flush(w) \/ Close(w) \/ CloseFailed(w))
            /\ UNCHANGED headerVars
Steps(w) == (InitDeflater(w) \/ Enter(w) \/ Acquire(w) \/ Compress(w) \/ Emit(w)
             \/ Release(w) \/ WriteTrailer(w)) /\ UNCHANGED headerVars

HeaderStep(w) == SendPart(w) \/ Steps(w)

HeaderNext ==
  \/ \E w \in Writers :
       \/ \E h \in Headers : Assign(w, h)
       \/ \E h \in StdHeaders : SetHeader(w, h)
       \/ ResetHeader(w) \/ Calls(w) \/ HeaderStep(w)
  \/ Collect /\ UNCHANGED headerVars

HeaderSpec == HeaderInit /\ [][HeaderNext]_<<vars, headerVars>>
              /\ \A w \in Writers : WF_<<vars, headerVars>>(HeaderStep(w))

-----------------------------------------------------------------------------
(* What a reader of RFC 1952 makes of a header                             *)

\* The numbers of two and of four bytes at position p
Word(b, p)   == b[p] + Base * b[p + 1]
Double(b, p) == Word(b, p) + Size16 * Word(b, p + 2)

\* The NUL-terminated string at position p
StringAt(b, p) ==
  SubSeq(b, p, (CHOOSE q \in p .. Len(b) : b[q] = 0 /\ \A r \in p .. q - 1 : b[r] # 0) - 1)

Has(b, flag) == (b[4] \div flag) % 2 = 1

\* The fields, and how many bytes they take
ReadHeader(b) ==
  LET size    == IF Has(b, flagExtra) THEN Word(b, 11) ELSE 0
      p       == IF Has(b, flagExtra) THEN 13 + size ELSE 11
      name    == IF Has(b, flagName) THEN StringAt(b, p) ELSE <<>>
      q       == IF Has(b, flagName) THEN p + Len(name) + 1 ELSE p
      comment == IF Has(b, flagComment) THEN StringAt(b, q) ELSE <<>>
      time    == Double(b, 5)
  IN  [header |-> [comment |-> comment, name |-> name, os |-> b[10],
                   extra   |-> IF Has(b, flagExtra) THEN SubSeq(b, 13, 12 + size) ELSE Nil,
                   modTime |-> IF time > 0 THEN time ELSE Default.modTime],
       length |-> IF Has(b, flagComment) THEN q + Len(comment) ELSE q - 1]

\* The header is complete: compression starts
Started(w) == sink[w] # <<>> /\ sink[w][1] = Header(1)
\* Years up to 2106: the seconds fit into MTIME
InRange(h) == h.mtime # 0 \/ h.modTime < Size32
Encodable(h) ==
  /\ h.extra # Nil => Len(h.extra) < Size16
  /\ \A c \in Range(h.name) \cup Range(h.comment) : c \in 1 .. Base - 1

-----------------------------------------------------------------------------

\* A reader finds the fields as assigned before the first call, nothing of an earlier
\* stream of a Writer that was Reset and nothing assigned too late, and the deflate
\* data exactly behind them; Mtime goes before ModTime, which is unset up to 1970
\* (gzip.go:84-114, 242-290).
HeaderReadsBack ==
  \A w \in Writers : Started(w) =>
    LET read == ReadHeader(head[w])
        time == IF asked[w].mtime # 0 THEN asked[w].mtime ELSE asked[w].modTime
    IN  /\ read.length = Len(head[w])
        /\ \A f \in StdFields \ {"modTime"} : read.header[f] = asked[w][f]
        /\ InRange(asked[w]) => read.header.modTime = IF time > 0 THEN time ELSE Default.modTime

\* "It is an error": no compressed data ever follows a header that could not be
\* written, and the Writer stays failed until Reset (gzip.go:90-92); all other
\* headers are only refused by the underlying io.Writer.
InvalidRefused ==
  \A w \in Writers :
    /\ wroteHeader[w] /\ ~Encodable(asked[w]) =>
         /\ \A i \in DOMAIN sink[w] : Kind(sink[w][i]) = "torn"
         /\ pc[w] = "idle" => err[w] # "none"
         /\ st[w] = None
    /\ Encodable(asked[w]) => (\A i \in DOMAIN Parts(asked[w]) : ~Parts(asked[w])[i].bad)

\* A header read back and passed to SetHeader of a new Writer is sent again in the
\* same writes ("carry the header over", gzip.go:117-122).
Recompressed ==
  \A w \in Writers : Started(w) =>
    Parts(WithStdHeader(Default, ReadHeader(head[w]).header)) = Parts(asked[w])
=============================================================================
