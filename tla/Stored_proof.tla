---------------------------- MODULE Stored_proof ----------------------------
(***************************************************************************)
(* Level 0, for every window size, block size and sequence of calls: the   *)
(* output buffer is never short, a call consumes its input, and the bytes  *)
(* reach the output in order.                                              *)
(***************************************************************************)
EXTENDS Stored, SequenceTheorems, TLAPS

\* What a call still has to put into blocks
Rest == Left + AvailIn

\* The output buffer has room for the rest, a header for each full block, one
\* more for the end, and the marker of a flush; or only the marker is missing
Enough ==
  \/ AvailOut >= Rest + 6 * (Rest \div WSize) + (IF call.flush = "finish" THEN 6 ELSE 12)
  \/ Rest = 0 /\ AvailOut >= 6 /\ call.flush # "finish"

Counted == Len(sent) + Left = inPos /\ Left < WSize
Resting == ~Running => /\ AvailIn = 0
                       /\ s.status = "finish" => Left = 0
                       /\ lasts = IF s.status = "finish" THEN <<inLen>> ELSE <<>>
Serving == Running => /\ s.status = "busy"
                      /\ call.from < inPos => Left = 0
                      /\ call.last => call.flush = "finish" /\ Rest = 0 /\ lasts = <<inLen>>
                      /\ ~call.last => lasts = <<>> /\ Enough
Single  == oneShot => Left = 0 /\ (Running => call.flush = "finish")

\* The numbers of the state: where the bytes are, and that they fit
Numbers == /\ TypeOK /\ s.pending = 0 /\ s.insert <= s.strstart
           /\ Counted /\ Resting /\ Serving /\ Single

\* The place in the input where the window ends
Seen   == IF Running THEN call.from ELSE inPos
Mirror == \A i \in 0 .. s.strstart - 1 : s.window[i] = Seen - s.strstart + i + 1
Sent   == \A k \in 1 .. Len(sent) : sent[k] = k

IInv == Numbers /\ Mirror /\ Sent

-----------------------------------------------------------------------------
(* Arithmetic                                                              *)

\* A block of at least w bytes leaves room for one block less
LEMMA BlockLess ==
  ASSUME NEW r \in Nat, NEW l \in Nat, NEW w \in Nat \ {0}, w <= l, l <= r
  PROVE  (r - l) \div w <= (r \div w) - 1
OBVIOUS

\* n >> 12 is eight times the number of full windows in n
LEMMA Shifted ==
  ASSUME NEW n \in Nat, NEW w \in Nat, w >= 8, w % 8 = 0
  PROVE  8 * (n \div w) <= n \div (w \div 8)
OBVIOUS

\* Fewer bytes hold no more full windows
LEMMA DivMono ==
  ASSUME NEW a \in Nat, NEW b \in Nat, NEW w \in Nat \ {0}, a <= b
  PROVE  a \div w <= b \div w /\ a \div w \in Nat
OBVIOUS

\* Bound covers a header of six bytes for each full window, and seven bytes more
LEMMA BoundCovers ==
  ASSUME NEW n \in Nat PROVE Bound(n) \in Nat /\ Bound(n) >= n + 8 * (n \div WSize) + 7
<1>1. n \div (WSize \div 8) \in Nat /\ n \div (WSize \div 2) \in Nat /\ n \div (1024 * WSize) \in Nat
  BY StoredAssumption
<1>2. 8 * (n \div WSize) <= n \div (WSize \div 8)
  BY Shifted, StoredAssumption
<1>3. n \div WSize \in Nat
  BY StoredAssumption
<1> QED BY <1>1, <1>2, <1>3 DEF Bound

\* What the steps need of the parameters, divisibility aside
LEMMA Params ==
  /\ WSize \in Nat /\ WSize >= 8 /\ MaxStored \in Nat /\ MaxStored >= WSize
  /\ PendingBufSize \in Nat /\ PendingBufSize >= WSize + 6
  /\ MaxInput \in Nat /\ MaxFlushes \in Nat
  /\ Slices \subseteq Nat \ {0} /\ Flushes \subseteq FlushModes
BY StoredAssumption

-----------------------------------------------------------------------------
(* Calls                                                                   *)

\* The buffer of Deflate and of compressInto is enough for what the call starts with
LEMMA RoomEnough ==
  ASSUME NEW n \in Nat, NEW left \in Nat, left < WSize, oneShot \in BOOLEAN, oneShot => left = 0
  PROVE  /\ Room(n) \in Nat
         /\ Room(n) >= (left + n) + 6 * ((left + n) \div WSize) + (IF oneShot THEN 6 ELSE 12)
<1>1. CASE oneShot
  <2>1. Bound(n) \in Nat /\ Bound(n) >= n + 8 * (n \div WSize) + 7
    BY BoundCovers
  <2>2. n \div WSize \in Nat
    BY StoredAssumption
  <2> QED BY <1>1, <2>1, <2>2 DEF Room
<1>2. CASE ~oneShot
  <2> DEFINE m == n + 2 * WSize
  <2>1. m \in Nat /\ left + n \in Nat /\ left + n <= m /\ WSize \in Nat \ {0}
    BY StoredAssumption
  <2>2. Bound(m) \in Nat /\ Bound(m) >= m + 8 * (m \div WSize) + 7
    BY <2>1, BoundCovers
  <2>3. (left + n) \div WSize <= m \div WSize /\ (left + n) \div WSize \in Nat /\ m \div WSize \in Nat
    BY <2>1, DivMono
  <2>4. m >= left + n + 9
    BY StoredAssumption
  <2>5. Room(n) = Bound(m) + Slack
    BY <1>2 DEF Room
  <2> HIDE DEF m
  <2> QED BY <1>2, <2>1, <2>2, <2>3, <2>4, <2>5, StoredAssumption
<1> QED BY <1>1, <1>2

\* A reset state
LEMMA InitIInv == ASSUME Init PROVE IInv
<1> USE StoredAssumption DEF Init, Running, Idle
<1>1. TypeOK
  BY DEF TypeOK, State, Byte, WindowSize, FlushModes
<1>2. Left = 0 /\ AvailIn = 0 /\ Len(sent) = 0
  BY DEF Left, AvailIn
<1>3. Numbers
  BY <1>1, <1>2 DEF Numbers, Counted, Resting, Serving, Single
<1> QED BY <1>2, <1>3 DEF IInv, Mirror, Sent

\* deflateOnce is entered with room for everything, or returns at once
LEMMA CallIInv ==
  ASSUME IInv, NEW n \in Slices \cup {0}, NEW f \in Flushes, Call(n, f) PROVE IInv'
<1> USE Params
<1>1. n \in Nat /\ f \in FlushModes /\ f # Idle
  BY DEF FlushModes, Idle
<1>2. TypeOK /\ ~Running /\ AvailIn = 0 /\ inPos = inLen /\ Left \in Nat /\ Left < WSize
  <2>1. TypeOK /\ ~Running /\ AvailIn = 0 /\ Left < WSize
    BY DEF IInv, Numbers, Resting, Counted, Call
  <2>2. s.strstart \in Nat /\ s.blockStart \in Nat /\ s.blockStart <= s.strstart
    BY <2>1 DEF TypeOK, State, WindowSize
  <2>3. inPos \in Nat /\ inLen \in Nat
    BY <2>1 DEF TypeOK
  <2> QED BY <2>1, <2>2, <2>3 DEF AvailIn, Left
<1>3. s' = [s EXCEPT !.lastFlush = f] /\ inLen' = inLen + n /\ inLen' <= MaxInput
      /\ outPos' = 0 /\ room' = Room(n) /\ UNCHANGED <<sent, lasts, inPos, oneShot>>
  BY DEF Call
<1>4. /\ s' \in State /\ s'.window = s.window /\ s'.strstart = s.strstart
      /\ s'.blockStart = s.blockStart /\ s'.insert = s.insert /\ s'.pending = s.pending
      /\ s'.status = s.status /\ s'.biValid = s.biValid /\ s'.highWater = s.highWater
  BY <1>1, <1>2, <1>3 DEF TypeOK, State
<1>5. Left' = Left /\ AvailIn' = n /\ Rest' = Left + n
  BY <1>1, <1>2, <1>3, <1>4 DEF Left, AvailIn, Rest, TypeOK
<1>6. PICK g \in {f, Idle} : /\ call' = [flush |-> g, from |-> inPos, last |-> FALSE]
                             /\ g = f => s.status = "busy"
                             /\ g = Idle => n = 0
  <2> DEFINE repeated == n = 0 /\ Rank(f) <= Rank(s.lastFlush) /\ f # "finish"
             work     == n # 0 \/ (f # "none" /\ s.status # "finish")
  <2>1. call' = [flush |-> IF ~repeated /\ work THEN f ELSE Idle, from |-> inPos, last |-> FALSE]
    BY DEF Call
  <2>2. s.status \in {"busy", "finish"} /\ (s.status = "finish" => n = 0 /\ f = "finish")
    BY <1>2 DEF Call, TypeOK, State
  <2>3. ~(~repeated /\ work) => n = 0
    OBVIOUS
  <2>4. work => s.status = "busy"
    BY <2>2
  <2> HIDE DEF repeated, work
  <2> QED BY <1>1, <2>1, <2>3, <2>4
<1>7. room' \in Nat /\ room' >= Rest' + 6 * (Rest' \div WSize) + (IF oneShot THEN 6 ELSE 12)
  <2>1. oneShot \in BOOLEAN /\ (oneShot => Left = 0)
    BY <1>2 DEF TypeOK, IInv, Numbers, Single
  <2> QED BY <1>1, <1>2, <1>3, <1>5, <2>1, RoomEnough
<1>8. oneShot => f = "finish"
  BY DEF Call
<1>9. TypeOK'
  <2>1. flushes' \in 0 .. MaxFlushes
    <3>1. flushes \in 0 .. MaxFlushes /\ MaxFlushes \in Nat
      BY <1>2 DEF TypeOK
    <3>2. flushes' = flushes \/ (flushes < MaxFlushes /\ flushes' = flushes + 1)
      BY DEF Call
    <3> QED BY <3>1, <3>2
  <2>2. inLen' \in 0 .. MaxInput /\ inPos' \in 0 .. inLen' /\ outPos' \in 0 .. room'
    BY SMTT(40), <1>1, <1>2, <1>3, <1>7 DEF TypeOK
  <2>3. call' \in [flush : FlushModes \cup {Idle}, from : 0 .. inPos', last : BOOLEAN]
    <3>1. inPos' = inPos /\ inPos \in Nat
      BY <1>2, <1>3 DEF TypeOK
    <3>2. g \in FlushModes \cup {Idle}
      BY <1>1
    <3> QED BY <1>6, <3>1, <3>2
  <2> QED BY <1>2, <1>3, <1>4, <1>7, <2>1, <2>2, <2>3 DEF TypeOK
<1>10. Counted' /\ s'.pending = 0 /\ s'.insert <= s'.strstart
  BY <1>3, <1>4, <1>5 DEF IInv, Numbers, Counted
<1>11. Resting'
  <2>1. ~Running' => n = 0
    BY <1>6, <1>1 DEF Running
  <2>2. n = 0 => inLen' = inLen /\ AvailIn' = 0 /\ Left' = Left
    BY <1>2, <1>3, <1>5 DEF TypeOK
  <2> QED BY <1>2, <1>3, <1>4, <2>1, <2>2 DEF IInv, Numbers, Resting
<1>12. Serving' /\ Single'
  <2>1. Running' => Enough'
    <3>1. AvailOut' = room'
      BY <1>3, <1>7 DEF AvailOut
    <3>2. Rest' \div WSize \in Nat /\ Rest' \in Nat
      BY <1>1, <1>2, <1>5
    <3> HIDE DEF Rest
    <3> QED BY <1>1, <1>6, <1>7, <1>8, <3>1, <3>2 DEF Enough, Running
  <2>2. Running' => s.status = "busy" /\ lasts' = <<>>
    BY <1>2, <1>3, <1>6 DEF IInv, Numbers, Resting, Running, TypeOK, State
  <2> QED BY <1>2, <1>3, <1>4, <1>5, <1>6, <1>8, <2>1, <2>2
          DEF Serving, Single, IInv, Numbers, Running, TypeOK
<1>13. Mirror' /\ Sent'
  BY <1>2, <1>3, <1>4, <1>6 DEF IInv, Mirror, Sent, Seen, Running
<1> QED BY <1>9, <1>10, <1>11, <1>12, <1>13 DEF IInv, Numbers

-----------------------------------------------------------------------------
(* The window                                                              *)

\* A state whose window ends with byte p of the input
Holds(t, p) ==
  /\ t \in State /\ t.blockStart <= t.strstart /\ t.strstart <= t.highWater
  /\ t.insert <= t.strstart /\ t.pending = 0
  /\ \A i \in 0 .. t.strstart - 1 : t.window[i] = p - t.strstart + i + 1

\* What the window operations leave alone
Unmoved(u, t) == u.pending = t.pending /\ u.biValid = t.biValid /\ u.status = t.status
                   /\ u.lastFlush = t.lastFlush

\* The fields that the window operations work on
LEMMA Fields ==
  ASSUME NEW t, NEW p \in Nat, Holds(t, p)
  PROVE  /\ t \in State /\ WindowSize = 2 * WSize /\ WindowSize \in Nat /\ t.pending = 0
         /\ t.strstart \in Nat /\ t.strstart <= WindowSize
         /\ t.blockStart \in Nat /\ t.blockStart <= t.strstart
         /\ t.highWater \in Nat /\ t.strstart <= t.highWater /\ t.highWater <= WindowSize
         /\ t.insert \in Nat /\ t.insert <= WSize /\ t.insert <= t.strstart
         /\ t.matches \in 0 .. 2 /\ t.window \in [0 .. WindowSize - 1 -> Byte]
<1>1. WindowSize = 2 * WSize /\ WindowSize \in Nat /\ WSize \in Nat
  BY Params DEF WindowSize
<1>2. /\ t \in State /\ t.blockStart <= t.strstart /\ t.strstart <= t.highWater
      /\ t.insert <= t.strstart /\ t.pending = 0
  BY DEF Holds
<1>3. /\ t.strstart \in 0 .. WindowSize /\ t.blockStart \in 0 .. WindowSize
      /\ t.highWater \in 0 .. WindowSize /\ t.insert \in 0 .. WSize
      /\ t.matches \in 0 .. 2 /\ t.window \in [0 .. WindowSize - 1 -> Byte]
  BY <1>2 DEF State
<1> QED BY <1>1, <1>2, <1>3

\* A slide keeps the bytes at their places in the stream, if no unsent byte is below WSize
LEMMA SlideDownHolds ==
  ASSUME NEW t, NEW p \in Nat, Holds(t, p), t.blockStart >= WSize
  PROVE  /\ Holds(SlideDown(t), p) /\ Unmoved(SlideDown(t), t)
         /\ SlideDown(t).strstart = t.strstart - WSize
         /\ SlideDown(t).blockStart = t.blockStart - WSize
<1> DEFINE u   == SlideDown(t)
           ss  == t.strstart
           str == t.strstart - WSize
           blk == t.blockStart - WSize
           win == [i \in DOMAIN t.window |-> IF i < str THEN t.window[i + WSize] ELSE t.window[i]]
           mat == Min2(t.matches + 1, 2)
           ins == Min2(t.insert, str)
           top == t.highWater
<1>1. /\ t \in State /\ WindowSize = 2 * WSize /\ WindowSize \in Nat /\ WSize \in Nat /\ t.pending = 0
      /\ ss \in Nat /\ ss <= WindowSize /\ t.blockStart \in Nat /\ t.blockStart <= ss
      /\ top \in Nat /\ ss <= top /\ top <= WindowSize
      /\ t.insert \in Nat /\ t.insert <= WSize
      /\ t.matches \in 0 .. 2 /\ t.window \in [0 .. WindowSize - 1 -> Byte]
  BY Fields, Params
<1>2. str \in Nat /\ str = ss - WSize /\ str <= WSize /\ str <= top /\ blk \in Nat /\ blk <= str
  <2> DEFINE bs == t.blockStart
  <2>1. bs \in Nat /\ bs <= ss /\ bs >= WSize
    BY <1>1
  <2>2. str = ss - WSize /\ blk = bs - WSize
    OBVIOUS
  <2> HIDE DEF ss, bs, str, blk, top
  <2> QED BY <1>1, <2>1, <2>2
<1>3. win \in [0 .. WindowSize - 1 -> Byte]
  <2> HIDE DEF str
  <2>1. ASSUME NEW i \in 0 .. WindowSize - 1, i < str PROVE t.window[i + WSize] \in Byte
    <3>1. i + WSize \in 0 .. WindowSize - 1
      BY <1>1, <1>2, <2>1
    <3> QED BY <1>1, <3>1
  <2> QED BY <1>1, <2>1
<1>4. mat \in 0 .. 2 /\ ins \in Nat /\ ins <= WSize /\ ins <= str
  <2>1. mat \in 0 .. 2
    BY <1>1 DEF Min2
  <2> DEFINE ti == t.insert
  <2>2. ins = Min2(ti, str) /\ ti \in Nat /\ ti <= WSize
    BY <1>1
  <2> HIDE DEF ti, str, ins
  <2> QED BY <1>1, <1>2, <2>1, <2>2 DEF Min2
<1>5. u = [t EXCEPT !.window = win, !.strstart = str, !.blockStart = blk, !.matches = mat,
                    !.insert = ins]
  BY <1>1 DEF SlideDown, State
<1>6. win = [i \in 0 .. WindowSize - 1 |-> IF i < str THEN t.window[i + WSize] ELSE t.window[i]]
  BY <1>1
<1> HIDE DEF u, ss, str, blk, win, mat, ins
<1>7. /\ u.window = win /\ u.strstart = str /\ u.blockStart = blk /\ u.insert = ins
      /\ u.highWater = top /\ Unmoved(u, t)
  BY <1>1, <1>5 DEF State, Unmoved
<1>8. u \in State
  <2>1. str \in 0 .. WindowSize /\ blk \in 0 .. WindowSize /\ ins \in 0 .. WSize
    BY <1>1, <1>2, <1>4
  <2> HIDE DEF top
  <2> QED BY <1>1, <1>3, <1>4, <1>5, <2>1 DEF State
<1>9. ASSUME NEW i \in 0 .. str - 1 PROVE win[i] = p - str + i + 1
  <2>1. i + WSize \in 0 .. ss - 1 /\ i \in 0 .. WindowSize - 1 /\ i < str
    <3>1. i \in Nat /\ i < str
      BY <1>2
    <3>2. /\ ss \in Nat /\ WSize \in Nat /\ str \in Nat /\ str = ss - WSize /\ str <= WSize
          /\ WindowSize = 2 * WSize
      BY <1>1, <1>2
    <3> QED BY <3>1, <3>2
  <2>2. win[i] = t.window[i + WSize]
    BY <1>6, <2>1
  <2>3. t.window[i + WSize] = p - ss + (i + WSize) + 1
    BY <2>1 DEF Holds, ss
  <2> QED BY <1>1, <1>2, <2>2, <2>3
<1>10. Holds(u, p)
  <2>1. u.pending = 0
    BY <1>1, <1>7 DEF Unmoved
  <2> HIDE DEF top
  <2> QED BY <1>2, <1>4, <1>7, <1>8, <1>9, <2>1 DEF Holds
<1> QED BY <1>7, <1>10 DEF u, str, blk

\* Copying the next n bytes behind the window makes it end n bytes later
LEMMA ExtendHolds ==
  ASSUME NEW t, NEW p \in Nat, NEW n \in Nat, Holds(t, p),
         t.strstart + n <= WindowSize, p + n <= MaxInput
  PROVE  /\ Holds(Extend(t, p, n), p + n) /\ Unmoved(Extend(t, p, n), t)
         /\ Extend(t, p, n).strstart = t.strstart + n
         /\ Extend(t, p, n).blockStart = t.blockStart
<1> DEFINE u    == Extend(t, p, n)
           ss   == t.strstart
           bs   == t.blockStart
           ti   == t.insert
           hw   == t.highWater
           end  == t.strstart + n
           e(i) == IF i \in ss .. end - 1 THEN p + i - ss + 1 ELSE t.window[i]
           win  == [i \in DOMAIN t.window |-> e(i)]
           ins  == ti + Min2(n, WSize - ti)
           top  == Max2(hw, end)
<1>1. /\ t \in State /\ WindowSize \in Nat /\ WSize \in Nat /\ WSize <= WindowSize /\ t.pending = 0
      /\ ss \in Nat /\ bs \in Nat /\ bs <= ss
      /\ hw \in Nat /\ ss <= hw /\ hw <= WindowSize
      /\ ti \in Nat /\ ti <= WSize /\ ti <= ss /\ t.window \in [0 .. WindowSize - 1 -> Byte]
  BY Fields, Params
<1>2. end \in Nat /\ end = ss + n /\ end <= WindowSize
  BY <1>1
<1>3. u = [t EXCEPT !.window = win, !.strstart = end, !.insert = ins, !.highWater = top]
  BY <1>1 DEF Extend, State
<1>4. win = [i \in 0 .. WindowSize - 1 |-> e(i)]
  BY <1>1
<1> HIDE DEF ss, bs, ti, hw, end, u, win
<1>5. ins \in Nat /\ ins <= WSize /\ ins <= end /\ top \in Nat /\ end <= top /\ top <= WindowSize
  BY <1>1, <1>2 DEF Min2, Max2
<1>6. ASSUME NEW i \in ss .. end - 1 PROVE p + i - ss + 1 \in Byte
  <2>1. MaxInput \in Nat
    BY Params
  <2> QED BY <1>1, <1>2, <2>1 DEF Byte
<1>7. win \in [0 .. WindowSize - 1 -> Byte]
  <2>1. ASSUME NEW i \in 0 .. WindowSize - 1 PROVE e(i) \in Byte
    <3>1. t.window[i] \in Byte
      BY <1>1
    <3> QED BY <1>6, <3>1
  <2> HIDE DEF e
  <2> QED BY <1>4, <2>1
<1> HIDE DEF ins, top
<1>8. /\ u.window = win /\ u.strstart = end /\ u.blockStart = bs /\ u.insert = ins
      /\ u.highWater = top /\ Unmoved(u, t)
  BY <1>1, <1>3 DEF State, Unmoved, bs
<1>9. u \in State
  <2>1. end \in 0 .. WindowSize /\ ins \in 0 .. WSize /\ top \in 0 .. WindowSize
    BY <1>2, <1>5
  <2> QED BY <1>1, <1>3, <1>7, <2>1 DEF State
<1>10. ASSUME NEW i \in 0 .. end - 1 PROVE win[i] = (p + n) - end + i + 1
  <2>1. i \in 0 .. WindowSize - 1
    BY <1>1, <1>2
  <2>2. win[i] = e(i)
    BY <1>4, <2>1
  <2>3. CASE i >= ss
    <3>1. i \in ss .. end - 1
      BY <1>1, <1>2, <2>3
    <3>2. win[i] = p + i - ss + 1
      BY <2>2, <3>1
    <3> QED BY <1>1, <1>2, <2>1, <3>2
  <2>4. CASE i < ss
    <3>1. i \in 0 .. ss - 1 /\ i \notin ss .. end - 1
      BY <1>1, <1>2, <2>1, <2>4
    <3>2. t.window[i] = p - ss + i + 1
      BY <3>1 DEF Holds, ss
    <3>3. win[i] = p - ss + i + 1
      BY <2>2, <3>1, <3>2
    <3> QED BY <1>1, <1>2, <2>1, <3>3
  <2> QED BY <1>1, <2>1, <2>3, <2>4
<1>11. Holds(u, p + n)
  <2>1. u.pending = 0 /\ bs <= end
    BY <1>1, <1>2, <1>8 DEF Unmoved
  <2> QED BY <1>5, <1>8, <1>9, <1>10, <2>1 DEF Holds
<1> QED BY <1>8, <1>11 DEF u, end, bs

-----------------------------------------------------------------------------
(* A running call                                                          *)

\* The state of a call that may copy on
LEMMA RunningFacts ==
  ASSUME IInv, Running
  PROVE  /\ TypeOK /\ s \in State /\ s.strstart \in 0 .. WindowSize /\ s.blockStart \in 0 .. s.strstart
         /\ Left \in 0 .. WSize - 1 /\ AvailIn \in Nat /\ Rest \in Nat /\ Rest = Left + AvailIn
         /\ inPos \in Nat /\ inLen = inPos + AvailIn /\ inLen <= MaxInput
         /\ call.from \in 0 .. inPos /\ call.last \in BOOLEAN
         /\ Len(sent) + Left = inPos /\ Len(sent) \in Nat
         /\ Header(s) \in 0 .. 6 /\ s.pending = 0 /\ s.status = "busy"
         /\ call.from < inPos => Left = 0
         /\ Holds(s, call.from)
<1> USE Params
<1>1. TypeOK /\ s.pending = 0 /\ s.insert <= s.strstart /\ Counted /\ Serving /\ Mirror
  BY DEF IInv, Numbers
<1>2. /\ s \in State /\ s.strstart \in 0 .. WindowSize /\ s.blockStart \in 0 .. s.strstart
      /\ s.biValid \in 0 .. 7
  BY <1>1 DEF TypeOK, State, WindowSize
<1>3. Left \in 0 .. WSize - 1
  BY <1>1, <1>2 DEF Counted, Left, WindowSize
<1>4. inLen \in 0 .. MaxInput /\ inPos \in 0 .. inLen /\ call.from \in 0 .. inPos /\ call.last \in BOOLEAN
      /\ sent \in Seq(Byte)
  BY <1>1 DEF TypeOK
<1>5. Len(sent) \in Nat
  BY <1>4, LenProperties
<1>6. Header(s) \in 0 .. 6
  BY <1>2 DEF Header
<1>7. Holds(s, call.from)
  BY <1>1, <1>2 DEF Holds, TypeOK, Mirror, Seen
<1> QED BY <1>1, <1>2, <1>3, <1>4, <1>5, <1>6, <1>7 DEF AvailIn, Rest, Counted, Serving

\* The output buffer never bounds the length of a block
LEMMA RoomLeft ==
  ASSUME IInv, Running, ~call.last
  PROVE  /\ AvailOut \in Nat /\ AvailOut >= Rest + 6
         /\ Length = Min2(MaxStored, Rest) /\ Length \in 0 .. Rest
         /\ MinBlock = WSize
<1> USE Params
<1>1. Rest \in Nat /\ Rest = Left + AvailIn /\ Header(s) \in 0 .. 6
  BY RunningFacts
<1>2. Enough /\ room \in Nat /\ outPos \in 0 .. room
  BY DEF IInv, Numbers, Serving, TypeOK
<1>3. AvailOut \in Nat
  BY <1>2 DEF AvailOut
<1>4. AvailOut >= Rest + 6
  <2>1. Rest \div WSize \in Nat
    BY <1>1
  <2> HIDE DEF Rest
  <2> QED BY <1>1, <1>2, <1>3, <2>1 DEF Enough
<1>5. Length = Min2(MaxStored, Rest)
  BY <1>1, <1>3, <1>4 DEF Length, Min2
<1> QED BY <1>1, <1>3, <1>4, <1>5 DEF Min2, MinBlock

\* Where the direct copy ends before the last block, less than a block is left,
\* and nothing of it if the call flushes
LEMMA StopsShort ==
  ASSUME IInv, Running, ~call.last, ~Copying
  PROVE  Rest < WSize /\ call.flush # "finish" /\ (call.flush # "none" => Rest = 0)
<1> USE Params
<1>1. Rest \in Nat /\ Rest = Left + AvailIn /\ Header(s) \in 0 .. 6
  BY RunningFacts
<1>2. AvailOut >= Header(s) /\ Length = Min2(MaxStored, Rest) /\ MinBlock = WSize /\ AvailOut \in Nat
  BY <1>1, RoomLeft
<1>3. NotWorth
  BY <1>2 DEF Copying
<1>4. Length < WSize /\ \/ Length = 0 /\ call.flush # "finish"
                        \/ call.flush = "none"
                        \/ Length # Rest
  BY <1>1, <1>2, <1>3 DEF NotWorth
<1>5. Length = Rest /\ Rest < WSize
  BY <1>1, <1>2, <1>4 DEF Min2
<1> QED BY <1>4, <1>5

\* The window after the direct copy
LEMMA SettledFacts ==
  ASSUME IInv, Running
  PROVE  /\ Holds(Settled(s), inPos) /\ Unmoved(Settled(s), s)
         /\ Settled(s).strstart - Settled(s).blockStart = Left
<1> USE Params
<1> DEFINE used  == inPos - call.from
           slid  == IF WindowSize - s.strstart <= used THEN SlideDown(s) ELSE s
           moved == Extend(slid, inPos - used, used)
<1>1. /\ s \in State /\ s.strstart \in 0 .. WindowSize /\ s.blockStart \in 0 .. s.strstart
      /\ inPos \in Nat /\ inPos <= MaxInput /\ call.from \in 0 .. inPos /\ Holds(s, call.from)
      /\ used \in Nat /\ (used > 0 => Left = 0) /\ Left = s.strstart - s.blockStart
      /\ Left \in Nat
  <2>1. /\ s \in State /\ s.strstart \in 0 .. WindowSize /\ s.blockStart \in 0 .. s.strstart
        /\ inPos \in Nat /\ inLen = inPos + AvailIn /\ AvailIn \in Nat /\ inLen <= MaxInput
        /\ call.from \in 0 .. inPos /\ Holds(s, call.from) /\ (call.from < inPos => Left = 0)
    BY RunningFacts
  <2>2. Left = s.strstart - s.blockStart /\ Left \in Nat
    BY <2>1 DEF Left, WindowSize
  <2> QED BY <2>1, <2>2
<1>2. CASE used = 0
  <2>1. s.highWater \in s.strstart .. WindowSize
    BY <1>1 DEF Holds, State, WindowSize
  <2>2. Settled(s) = [s EXCEPT !.highWater = s.highWater]
    <3>1. Max2(s.highWater, s.strstart) = s.highWater
      BY <1>1, <2>1 DEF Max2, WindowSize
    <3>2. Settled(s) = [s EXCEPT !.highWater = Max2(s.highWater, s.strstart)]
      BY <1>2 DEF Settled
    <3> QED BY <3>1, <3>2
  <2>3. Settled(s) = s
    BY <1>1, <2>2 DEF State
  <2>4. inPos = call.from
    BY <1>1, <1>2
  <2> QED BY <1>1, <2>3, <2>4 DEF Unmoved
<1>3. CASE used > 0 /\ used < WSize
  <2>1. s.blockStart = s.strstart
    BY <1>1, <1>3
  <2>2. /\ Holds(slid, call.from) /\ Unmoved(slid, s) /\ slid.strstart \in Nat
        /\ slid.strstart + used <= WindowSize
    <3>1. CASE WindowSize - s.strstart <= used
      <4>1. s.blockStart >= WSize
        BY <1>1, <1>3, <2>1, <3>1 DEF WindowSize
      <4>2. /\ Holds(SlideDown(s), call.from) /\ Unmoved(SlideDown(s), s)
            /\ SlideDown(s).strstart = s.strstart - WSize
        BY <1>1, <4>1, SlideDownHolds
      <4> QED BY <1>1, <1>3, <2>1, <3>1, <4>1, <4>2 DEF WindowSize
    <3>2. CASE ~(WindowSize - s.strstart <= used)
      BY <1>1, <3>2 DEF Unmoved, WindowSize
    <3> QED BY <3>1, <3>2
  <2> HIDE DEF slid
  <2>3. inPos - used = call.from /\ call.from + used = inPos
    BY <1>1
  <2>4. Holds(moved, inPos) /\ Unmoved(moved, slid)
    <3>1. moved = Extend(slid, call.from, used)
      BY <2>3
    <3>2. call.from \in Nat /\ used \in Nat /\ call.from + used <= MaxInput
      BY <1>1, <2>3
    <3> HIDE DEF used
    <3>3. /\ Holds(Extend(slid, call.from, used), call.from + used)
          /\ Unmoved(Extend(slid, call.from, used), slid)
      BY <2>2, <3>2, ExtendHolds
    <3> QED BY <2>3, <3>1, <3>3
  <2>5. Settled(s) = [moved EXCEPT !.blockStart = moved.strstart]
    BY <1>1, <1>3 DEF Settled, slid
  <2> HIDE DEF moved
  <2>6. Holds([moved EXCEPT !.blockStart = moved.strstart], inPos)
    <3>1. moved \in State /\ moved.strstart \in 0 .. WindowSize
      BY <2>4 DEF Holds, State
    <3> DEFINE v == [moved EXCEPT !.blockStart = moved.strstart]
    <3>2. /\ v \in State /\ v.strstart = moved.strstart /\ v.blockStart = moved.strstart
          /\ v.window = moved.window /\ v.highWater = moved.highWater /\ v.insert = moved.insert
          /\ v.pending = moved.pending
      BY <3>1 DEF State
    <3>3. v.blockStart <= v.strstart
      BY <3>1, <3>2, Params DEF WindowSize
    <3> HIDE DEF v
    <3>4. Holds(v, inPos)
      BY <2>4, <3>2, <3>3 DEF Holds
    <3> QED BY <3>4 DEF v
  <2>7. Unmoved([moved EXCEPT !.blockStart = moved.strstart], s)
    BY <2>2, <2>4 DEF Holds, State, Unmoved
  <2>8. Settled(s).strstart = Settled(s).blockStart /\ Settled(s).strstart \in Nat
    BY <2>4, <2>5 DEF Holds, State, WindowSize
  <2> QED BY <1>1, <1>3, <2>5, <2>6, <2>7, <2>8
<1>4. CASE used >= WSize
  <2> DEFINE win == [i \in DOMAIN s.window |-> IF i < WSize THEN inPos - WSize + i + 1 ELSE s.window[i]]
             top == Max2(s.highWater, WSize)
             u   == [s EXCEPT !.window = win, !.strstart = WSize, !.blockStart = WSize,
                              !.insert = WSize, !.matches = 2, !.highWater = top]
  <2>1. Settled(s) = u
    BY <1>1, <1>4 DEF Settled
  <2>2. s.window \in [0 .. WindowSize - 1 -> Byte] /\ s.highWater \in 0 .. WindowSize /\ s.pending = 0
    BY <1>1 DEF Holds, State
  <2>3. win \in [0 .. WindowSize - 1 -> Byte]
    <3> DEFINE e(i) == IF i < WSize THEN inPos - WSize + i + 1 ELSE s.window[i]
    <3>1. win = [i \in 0 .. WindowSize - 1 |-> e(i)]
      BY <2>2
    <3>2. ASSUME NEW i \in 0 .. WindowSize - 1 PROVE e(i) \in Byte
      <4>1. s.window[i] \in Byte
        BY <2>2
      <4>2. inPos >= WSize
        BY <1>1, <1>4
      <4> QED BY <1>1, <4>1, <4>2 DEF Byte, WindowSize
    <3> HIDE DEF win, e
    <3> QED BY <3>1, <3>2
  <2>4. top \in WSize .. WindowSize
    BY <2>2 DEF Max2, WindowSize
  <2>5. \A i \in 0 .. WSize - 1 : win[i] = inPos - WSize + i + 1
    BY <2>2 DEF WindowSize
  <2> HIDE DEF win, top
  <2>6. u \in State
    <3>1. top \in 0 .. WindowSize /\ WSize \in 0 .. WindowSize /\ WSize \in 0 .. WSize
      BY <2>4 DEF WindowSize
    <3>2. s \in State
      BY <1>1
    <3> DEFINE v == [s EXCEPT !.window = win, !.strstart = WSize, !.blockStart = WSize]
    <3>3. v \in State
      BY <2>3, <3>1, <3>2 DEF State
    <3>4. u = [v EXCEPT !.insert = WSize, !.matches = 2, !.highWater = top]
      BY <3>2 DEF State
    <3> HIDE DEF v, u
    <3>5. 2 \in 0 .. 2
      OBVIOUS
    <3> QED BY <3>1, <3>3, <3>4, <3>5 DEF State
  <2>7. /\ u.window = win /\ u.strstart = WSize /\ u.blockStart = WSize /\ u.insert = WSize
        /\ u.highWater = top /\ Unmoved(u, s)
    BY <1>1 DEF State, Unmoved
  <2> HIDE DEF u
  <2>8. Holds(u, inPos)
    BY <2>2, <2>4, <2>5, <2>6, <2>7 DEF Holds, Unmoved
  <2>9. Left = 0
    BY <1>1, <1>4
  <2> QED BY <2>1, <2>7, <2>8, <2>9
<1> QED BY <1>1, <1>2, <1>3, <1>4

\* Bytes in order, followed by the next m bytes, are bytes in order
LEMMA CountOn ==
  ASSUME NEW a \in Seq(Byte), \A k \in 1 .. Len(a) : a[k] = k, NEW m \in Nat,
         NEW b, b = [k \in 1 .. m |-> b[k]], \A k \in 1 .. m : b[k] = Len(a) + k, Len(a) + m <= MaxInput
  PROVE  /\ a \o b \in Seq(Byte) /\ Len(a \o b) = Len(a) + m
         /\ \A k \in 1 .. Len(a \o b) : (a \o b)[k] = k
<1>1. Len(a) \in Nat
  BY LenProperties
<1>2. \A k \in 1 .. m : b[k] \in Byte
  BY <1>1, Params DEF Byte
<1>3. b \in [1 .. m -> Byte]
  BY <1>2
<1>4. b \in Seq(Byte) /\ Len(b) = m
  BY <1>3
<1>5. /\ a \o b \in Seq(Byte) /\ Len(a \o b) = Len(a) + m
      /\ \A k \in 1 .. Len(a) + m : (a \o b)[k] = IF k <= Len(a) THEN a[k] ELSE b[k - Len(a)]
  BY <1>4, ConcatProperties
<1>6. ASSUME NEW k \in 1 .. Len(a) + m PROVE (a \o b)[k] = k
  <2>1. CASE k <= Len(a)
    BY <1>1, <1>5, <2>1
  <2>2. CASE k > Len(a)
    <3>1. k - Len(a) \in 1 .. m
      BY <1>1, <2>2
    <3> QED BY <1>1, <1>5, <2>2, <3>1
  <2> QED BY <1>1, <2>1, <2>2
<1> QED BY <1>5, <1>6

\* The window holds the bytes that come next
LEMMA DueBytes ==
  ASSUME IInv, NEW m \in 0 .. Left
  PROVE  LET mid == sent \o Slice(s, s.blockStart, m)
         IN  /\ mid \in Seq(Byte) /\ Len(mid) = Len(sent) + m
             /\ \A k \in 1 .. Len(mid) : mid[k] = k
<1> USE Params
<1> DEFINE b  == Slice(s, s.blockStart, m)
           bs == s.blockStart
           ss == s.strstart
           l  == Left
<1>1. /\ TypeOK /\ Len(sent) + l = inPos /\ Mirror /\ (Running => (call.from < inPos => l = 0))
      /\ sent \in Seq(Byte) /\ \A k \in 1 .. Len(sent) : sent[k] = k
  BY DEF IInv, Numbers, Counted, Serving, TypeOK, Sent
<1>2. /\ bs \in Nat /\ ss \in Nat /\ l = ss - bs /\ l \in Nat
      /\ inPos \in Nat /\ Len(sent) \in Nat /\ inPos <= MaxInput
  <2>1. bs \in Nat /\ ss \in Nat /\ bs <= ss
    BY <1>1 DEF TypeOK, State, WindowSize
  <2>2. inPos \in Nat /\ inPos <= MaxInput
    BY <1>1 DEF TypeOK
  <2>3. Len(sent) \in Nat
    BY <1>1, LenProperties
  <2> QED BY <2>1, <2>2, <2>3 DEF Left
<1>3. l > 0 => Seen = inPos
  <2>1. call.from \in 0 .. inPos
    BY <1>1 DEF TypeOK
  <2> HIDE DEF l
  <2> QED BY <1>1, <1>2, <2>1 DEF Seen
<1>4. m \in Nat /\ m <= l
  <2>1. m \in 0 .. l
    OBVIOUS
  <2> HIDE DEF l
  <2> QED BY <1>2, <2>1
<1>5. b = [k \in 1 .. m |-> b[k]]
  BY DEF Slice
<1>6. ASSUME NEW k \in 1 .. m PROVE b[k] = Len(sent) + k
  <2> HIDE DEF l
  <2>1. k \in Nat /\ 1 <= k /\ k <= l
    BY <1>2, <1>4
  <2>2. bs + k - 1 \in 0 .. ss - 1
    <3> HIDE DEF bs, ss
    <3> QED BY <1>2, <2>1
  <2>3. s.window[bs + k - 1] = Seen - ss + (bs + k - 1) + 1
    BY <1>1, <2>2 DEF Mirror
  <2>4. b[k] = s.window[bs + k - 1]
    BY DEF Slice
  <2> HIDE DEF b, bs, ss
  <2>5. b[k] = inPos - ss + (bs + k - 1) + 1
    BY <1>2, <1>3, <2>1, <2>3, <2>4
  <2> QED BY <1>1, <1>2, <2>1, <2>5
<1>7. Len(sent) + m <= MaxInput
  <2> HIDE DEF l
  <2> QED BY <1>1, <1>2, <1>4
<1> HIDE DEF b
<1>8. /\ sent \o b \in Seq(Byte) /\ Len(sent \o b) = Len(sent) + m
      /\ \A k \in 1 .. Len(sent \o b) : (sent \o b)[k] = k
  BY <1>1, <1>4, <1>5, <1>6, <1>7, CountOn
<1> QED BY <1>8 DEF b

\* What the next block of the direct copy takes from the window and from the
\* input, and the output it makes
Kept   == Min2(Left, Length)
Fresh  == Length - Kept
Copied == sent \o Slice(s, s.blockStart, Kept) \o [k \in 1 .. Fresh |-> inPos + k]

\* A block of the direct copy carries the bytes that are due
LEMMA BlockInOrder ==
  ASSUME IInv, Running, ~call.last
  PROVE  /\ Kept \in 0 .. Left /\ Fresh \in 0 .. AvailIn /\ (Fresh > 0 => Kept = Left)
         /\ Copied \in Seq(Byte) /\ Len(Copied) = Len(sent) + Length
         /\ \A k \in 1 .. Len(Copied) : Copied[k] = k
<1> DEFINE kept == Kept
           n    == Fresh
           out  == Copied
<1> USE Params
<1>1. /\ Left \in Nat /\ AvailIn \in Nat /\ Rest = Left + AvailIn /\ inPos \in Nat /\ Len(sent) \in Nat
      /\ Len(sent) + Left = inPos /\ inPos + AvailIn <= MaxInput /\ (call.from < inPos => Left = 0)
      /\ call.from \in 0 .. inPos /\ Left = s.strstart - s.blockStart
      /\ s.strstart \in Nat /\ s.blockStart \in Nat /\ Holds(s, call.from)
  BY RunningFacts DEF Left, WindowSize
<1>2. Length \in 0 .. Rest
  BY RoomLeft
<1>3. kept \in 0 .. Left /\ n \in 0 .. AvailIn /\ (n > 0 => kept = Left) /\ kept + n = Length
  <2>1. kept = (IF Left < Length THEN Left ELSE Length) /\ n = Length - kept
    BY DEF Min2, Kept, Fresh
  <2>2. Length \in Nat /\ Length <= Left + AvailIn /\ Left \in Nat /\ AvailIn \in Nat
    BY <1>1, <1>2
  <2>3. CASE Left < Length
    BY <2>1, <2>2, <2>3
  <2>4. CASE ~(Left < Length)
    BY <2>1, <2>2, <2>4
  <2> QED BY <2>3, <2>4
<1>4. sent \in Seq(Byte) /\ \A k \in 1 .. Len(sent) : sent[k] = k
  BY DEF IInv, Numbers, TypeOK, Sent
<1> DEFINE b == Slice(s, s.blockStart, kept)
           mid == sent \o b
           c == [k \in 1 .. n |-> inPos + k]
<1>5. mid \in Seq(Byte) /\ Len(mid) = Len(sent) + kept /\ \A k \in 1 .. Len(mid) : mid[k] = k
  BY <1>3, DueBytes
<1>6. /\ mid \o c \in Seq(Byte) /\ Len(mid \o c) = Len(mid) + n
      /\ \A k \in 1 .. Len(mid \o c) : (mid \o c)[k] = k
  <2>1. n \in Nat /\ Len(mid) + n <= MaxInput
    BY <1>1, <1>3, <1>5
  <2>2. ASSUME NEW k \in 1 .. n PROVE c[k] = Len(mid) + k
    <3>1. kept = Left /\ c[k] = inPos + k
      BY <1>3
    <3> HIDE DEF mid, c
    <3> QED BY <1>1, <1>3, <1>5, <3>1
  <2>3. c = [k \in 1 .. n |-> c[k]]
    OBVIOUS
  <2> HIDE DEF mid, c
  <2> QED BY <1>5, <2>1, <2>2, <2>3, CountOn
<1> HIDE DEF mid
<1>7. out = mid \o c
  BY DEF mid, Copied
<1> HIDE DEF c
<1>8. Len(mid) + n = Len(sent) + Length
  BY <1>1, <1>3, <1>5
<1> HIDE DEF kept, n, out
<1>9. /\ out \in Seq(Byte) /\ Len(out) = Len(sent) + Length
      /\ \A k \in 1 .. Len(out) : out[k] = k
  BY <1>6, <1>7, <1>8
<1> QED BY <1>3, <1>9 DEF kept, n, out

\* After a block that is not the last the output buffer still has room for the rest
LEMMA StillEnough ==
  ASSUME NEW r \in Nat, NEW l \in 0 .. r, NEW room0 \in Nat, NEW h \in 0 .. 6, NEW extra \in {6, 12},
         \/ room0 >= r + 6 * (r \div WSize) + extra
         \/ r = 0 /\ room0 >= 6 /\ extra = 12,
         WSize <= l \/ (l = r /\ l > 0 /\ extra = 12)
  PROVE  \/ room0 - h - l >= (r - l) + 6 * ((r - l) \div WSize) + extra
         \/ r - l = 0 /\ room0 - h - l >= 6 /\ extra = 12
<1> USE Params
<1>1. r \div WSize \in Nat
  OBVIOUS
<1>2. room0 >= r + 6 * (r \div WSize) + extra
  OBVIOUS
<1>3. CASE WSize <= l
  <2>1. (r - l) \div WSize <= (r \div WSize) - 1 /\ (r - l) \div WSize \in Nat
    <3>1. l \in Nat /\ l <= r /\ WSize \in Nat \ {0} /\ r - l \in Nat
      OBVIOUS
    <3> QED BY <1>3, <3>1, BlockLess
  <2> DEFINE d == r \div WSize
             e == (r - l) \div WSize
  <2>2. d \in Nat /\ e \in Nat /\ e <= d - 1 /\ room0 >= r + 6 * d + extra
    BY <1>1, <1>2, <2>1
  <2> HIDE DEF d, e
  <2>3. room0 - h - l >= (r - l) + 6 * e + extra
    BY <2>2
  <2> QED BY <2>3 DEF e
<1>4. CASE l = r /\ l > 0 /\ extra = 12
  BY <1>1, <1>2, <1>4
<1> QED BY <1>3, <1>4

-----------------------------------------------------------------------------
(* The steps of a call                                                     *)

\* A block goes out in order, and what it costs is less than what Enough set aside
LEMMA CopyBlockIInv == ASSUME IInv, CopyBlock PROVE IInv'
<1> DEFINE kept == Min2(Left, Length)
           n    == Length - kept
           f    == Flushed(s, Header(s), outPos)
\* What holds before the step
<1>1. Running /\ Copying /\ ~call.last
  BY DEF CopyBlock, Copying
<1>2. TypeOK /\ s \in State /\ s.pending = 0 /\ s.status = "busy" /\ s.insert <= s.strstart
  BY <1>1, RunningFacts DEF IInv, Numbers
<1>3. /\ Left \in Nat /\ Left < WSize /\ AvailIn \in Nat /\ Rest \in Nat /\ Rest = Left + AvailIn
      /\ inPos \in Nat /\ inLen \in Nat /\ inLen = inPos + AvailIn /\ inLen <= MaxInput
      /\ Len(sent) \in Nat /\ Len(sent) + Left = inPos
  BY <1>1, RunningFacts, Params
<1>4. Header(s) \in 0 .. 6 /\ call.from \in 0 .. inPos /\ (call.from < inPos => Left = 0)
  BY <1>1, RunningFacts
<1>5. /\ AvailOut \in Nat /\ AvailOut >= Rest + 6 /\ Length \in 0 .. Rest
      /\ Length = Min2(MaxStored, Rest) /\ MinBlock = WSize
  BY <1>1, RoomLeft
<1>6. outPos \in Nat /\ room \in Nat /\ AvailOut = room - outPos
  BY <1>2 DEF TypeOK, AvailOut
\* What the step does
<1>7. /\ kept \in 0 .. Left /\ n \in 0 .. AvailIn /\ (n > 0 => kept = Left)
      /\ sent' \in Seq(Byte) /\ Len(sent') = Len(sent) + Length
      /\ \A k \in 1 .. Len(sent') : sent'[k] = k
  <2>1. sent' = Copied
    BY DEF CopyBlock, Copied, Kept, Fresh
  <2>2. kept = Kept /\ n = Fresh
    BY DEF Kept, Fresh
  <2> HIDE DEF kept, n
  <2> QED BY <1>1, <2>1, <2>2, BlockInOrder
<1>8. kept \in Nat /\ kept <= Left /\ n \in Nat /\ n <= AvailIn /\ kept + n = Length /\ Length \in Nat
  <2>1. kept \in 0 .. Left /\ n \in 0 .. AvailIn
    BY <1>7
  <2> HIDE DEF kept
  <2>2. kept + n = Length /\ Length \in Nat
    <3>1. kept \in 0 .. Left
      BY <2>1
    <3> QED BY <1>3, <1>5, <3>1
  <2> HIDE DEF n
  <2> QED BY <1>3, <2>1, <2>2
<1>9. f.s = s /\ f.at = outPos + Header(s)
  <2> DEFINE h == Header(s)
  <2>1. h \in 0 .. 6 /\ h <= room - outPos
    BY <1>3, <1>4, <1>5, <1>6
  <2> HIDE DEF h
  <2>2. Min2(s.pending + h, room - outPos) = h
    BY <1>2, <1>6, <2>1 DEF Min2
  <2>3. s.pending + h - h = 0
    BY <1>2, <2>1
  <2>4. f = [s |-> [s EXCEPT !.pending = s.pending + h - h], at |-> outPos + h]
    BY <2>2 DEF Flushed, h
  <2>5. [s EXCEPT !.pending = 0] = s
    BY <1>2 DEF State
  <2> QED BY <2>3, <2>4, <2>5 DEF h
<1>10. /\ inPos' = inPos + n /\ inLen' = inLen /\ room' = room /\ oneShot' = oneShot
       /\ flushes' = flushes
  BY DEF CopyBlock
<1>11. outPos' = outPos + Header(s) + Length
  BY <1>9 DEF CopyBlock
<1>12. s' = [s EXCEPT !.blockStart = s.blockStart + kept, !.biValid = 0]
  BY <1>9 DEF CopyBlock
<1>13. call' = [call EXCEPT !.last = Last]
  BY DEF CopyBlock
<1>14. lasts' = IF Last THEN Append(lasts, Len(sent) + Length) ELSE lasts
  BY DEF CopyBlock
<1> HIDE DEF kept, n, f
\* The parts of the invariant after it
<1>15. /\ s' \in State /\ s'.blockStart = s.blockStart + kept /\ s'.strstart = s.strstart
       /\ s'.window = s.window /\ s'.insert = s.insert /\ s'.pending = s.pending
       /\ s'.status = s.status /\ s'.highWater = s.highWater /\ s'.blockStart <= s'.strstart
  <2>1. /\ s.blockStart \in Nat /\ s.strstart \in Nat /\ s.strstart <= WindowSize
        /\ Left = s.strstart - s.blockStart
    BY <1>2, Params DEF State, WindowSize, Left
  <2>2. s.blockStart + kept \in 0 .. WindowSize /\ s.blockStart + kept <= s.strstart
    <3> HIDE DEF Left
    <3> QED BY <1>8, <2>1, Params DEF WindowSize
  <2> DEFINE blk == s.blockStart + kept
  <2>3. blk \in 0 .. WindowSize /\ 0 \in 0 .. 7 /\ s' = [s EXCEPT !.blockStart = blk, !.biValid = 0]
    BY <1>12, <2>2
  <2> HIDE DEF blk
  <2>4. s' \in State
    BY <1>2, <2>3 DEF State
  <2>5. /\ s'.blockStart = blk /\ s'.strstart = s.strstart
        /\ s'.window = s.window /\ s'.insert = s.insert /\ s'.pending = s.pending
        /\ s'.status = s.status /\ s'.highWater = s.highWater
    BY <1>2, <2>3 DEF State
  <2> QED BY <2>2, <2>4, <2>5 DEF blk
<1>16. Left' = Left - kept
  <2>1. s.blockStart \in Nat /\ s.strstart \in Nat
    BY <1>2, Params DEF State, WindowSize
  <2> QED BY <1>8, <1>15, <2>1 DEF Left
<1>17. AvailIn' = AvailIn - n /\ Rest' = Rest - Length /\ Left' \in Nat /\ AvailIn' \in Nat
  <2>1. AvailIn' = AvailIn - n
    BY <1>3, <1>8, <1>10 DEF AvailIn
  <2>2. Rest' = Left' + AvailIn'
    BY DEF Rest
  <2> QED BY <1>3, <1>8, <1>16, <2>1, <2>2
<1>18. AvailOut' = AvailOut - Header(s) - Length
  <2>1. AvailOut' = room - (outPos + Header(s) + Length)
    BY <1>10, <1>11 DEF AvailOut
  <2> QED BY <1>4, <1>6, <1>8, <2>1
<1>19. call'.flush = call.flush /\ call'.from = call.from /\ call'.last = Last /\ Running'
  BY <1>1, <1>2, <1>13 DEF TypeOK, Running
<1>20. Last <=> call.flush = "finish" /\ Length = Rest
  BY <1>3 DEF Last
<1>21. TypeOK'
  <2>1. lasts' \in Seq(Byte)
    <3>1. Len(sent) + Length \in Byte
      BY <1>3, <1>5, <1>8, Params DEF Byte
    <3>2. lasts \in Seq(Byte)
      BY <1>2 DEF TypeOK
    <3> QED BY <1>14, <3>1, <3>2
  <2>2. inLen' \in 0 .. MaxInput /\ inPos' \in 0 .. inLen' /\ 0 .. inPos \subseteq 0 .. inPos'
    BY <1>3, <1>8, <1>10, Params
  <2>3. room' \in Nat /\ outPos' \in 0 .. room'
    <3> DEFINE h == Header(s)
    <3>1. h \in 0 .. 6 /\ outPos' = outPos + h + Length
      BY <1>4, <1>11
    <3> HIDE DEF h
    <3> QED BY <1>3, <1>5, <1>6, <1>8, <1>10, <3>1
  <2>4. call' \in [flush : FlushModes \cup {Idle}, from : 0 .. inPos', last : BOOLEAN]
    <3>1. call \in [flush : FlushModes \cup {Idle}, from : 0 .. inPos, last : BOOLEAN] /\ Last \in BOOLEAN
      BY <1>2 DEF TypeOK, Last
    <3> QED BY <1>13, <2>2, <3>1
  <2>5. s'.strstart <= s'.highWater /\ flushes' \in 0 .. MaxFlushes /\ oneShot' \in BOOLEAN
    BY <1>2, <1>10, <1>15 DEF TypeOK
  <2> QED BY <1>7, <1>15, <2>1, <2>2, <2>3, <2>4, <2>5 DEF TypeOK
<1>22. Counted' /\ s'.pending = 0 /\ s'.insert <= s'.strstart
  <2>1. Len(sent') + Left' = inPos' /\ Left' < WSize
    <3>1. Len(sent') = Len(sent) + Length
      BY <1>7
    <3> QED BY <1>3, <1>8, <1>10, <1>16, <3>1, Params
  <2> QED BY <1>2, <1>15, <2>1 DEF Counted
<1>23. ~Last => lasts' = <<>> /\ Enough'
  <2>1. SUFFICES ASSUME ~Last PROVE Enough'
    BY <1>1, <1>14 DEF IInv, Numbers, Serving
  <2> DEFINE extra == IF call.flush = "finish" THEN 6 ELSE 12
             h     == Header(s)
  <2>2. extra \in {6, 12} /\ (extra = 12 <=> call.flush # "finish")
    OBVIOUS
  <2>3. \/ AvailOut >= Rest + 6 * (Rest \div WSize) + extra
        \/ Rest = 0 /\ AvailOut >= 6 /\ extra = 12
    BY <1>1 DEF IInv, Numbers, Serving, Enough
  <2> HIDE DEF extra
  <2>4. WSize <= Length \/ (Length = Rest /\ Length > 0 /\ extra = 12)
    <3>1. CASE Length # Rest
      <4>1. Length = MaxStored
        BY <1>3, <1>5, <3>1, Params DEF Min2
      <4> QED BY <4>1, Params
    <3>2. CASE Length = Rest
      <4>1. call.flush # "finish"
        BY <1>20, <2>1, <3>2
      <4>2. ~NotWorth
        BY <1>1 DEF Copying
      <4>3. Length # 0
        BY <1>5, <4>1, <4>2, Params DEF NotWorth
      <4> QED BY <1>8, <2>2, <3>2, <4>1, <4>3
    <3> QED BY <3>1, <3>2
  <2>5. h \in 0 .. 6 /\ Length \in 0 .. Rest /\ Rest \in Nat /\ AvailOut \in Nat
    BY <1>3, <1>4, <1>5
  <2> HIDE DEF h
  <2>6. \/ AvailOut - h - Length >= (Rest - Length) + 6 * ((Rest - Length) \div WSize) + extra
        \/ Rest - Length = 0 /\ AvailOut - h - Length >= 6 /\ extra = 12
    BY <2>2, <2>3, <2>4, <2>5, StillEnough
  <2>7. AvailOut' = AvailOut - h - Length
    BY <1>18 DEF h
  <2> QED BY <1>17, <1>19, <2>2, <2>6, <2>7 DEF Enough, extra
<1>24. Serving'
  <2>1. call'.from < inPos' => Left' = 0
    <3>1. CASE n > 0
      BY <1>3, <1>7, <1>16, <3>1
    <3>2. CASE n = 0
      BY <1>3, <1>4, <1>8, <1>10, <1>16, <1>19, <3>2
    <3> QED BY <1>8, <3>1, <3>2
  <2>2. Last => Rest' = 0 /\ lasts' = <<inLen'>> /\ call'.flush = "finish"
    <3>1. SUFFICES ASSUME Last PROVE Rest' = 0 /\ lasts' = <<inLen'>> /\ call'.flush = "finish"
      OBVIOUS
    <3>2. Length = Rest /\ call.flush = "finish"
      BY <1>20, <3>1
    <3>3. Rest' = 0 /\ Len(sent) + Length = inLen
      BY <1>3, <1>17, <3>2
    <3>4. lasts' = Append(<<>>, inLen)
      BY <1>1, <1>14, <3>1, <3>3 DEF IInv, Numbers, Serving
    <3> QED BY <1>10, <1>19, <3>2, <3>3, <3>4
  <2> QED BY <1>2, <1>15, <1>19, <1>23, <2>1, <2>2 DEF Serving
<1>25. Single' /\ Resting'
  <2>1. oneShot => Left = 0 /\ call.flush = "finish"
    BY <1>1 DEF IInv, Numbers, Single
  <2>2. Left = 0 => Left' = 0
    BY <1>8, <1>16
  <2> QED BY <1>10, <1>19, <2>1, <2>2 DEF Single, Resting
<1>26. Mirror' /\ Sent'
  <2>1. Seen' = Seen
    BY <1>1, <1>19 DEF Seen
  <2> QED BY <1>7, <1>15, <2>1 DEF IInv, Mirror, Sent
<1> QED BY <1>21, <1>22, <1>24, <1>25, <1>26 DEF IInv, Numbers

\* What leaves the output buffer whole needs nothing of the pending buffer
LEMMA FlushedWhole ==
  ASSUME NEW t \in State, t.pending = 0, NEW b \in Nat, NEW at \in Nat, room \in Nat, b <= room - at
  PROVE  Flushed(t, b, at) = [s |-> t, at |-> at + b]
<1>1. Min2(t.pending + b, room - at) = b /\ t.pending + b - b = 0
  BY DEF Min2
<1>2. Flushed(t, b, at) = [s |-> [t EXCEPT !.pending = t.pending + b - b], at |-> at + b]
  BY <1>1 DEF Flushed
<1>3. [t EXCEPT !.pending = 0] = t
  BY DEF State
<1> QED BY <1>1, <1>2, <1>3

\* A call that has consumed its input and returns with the window in order
LEMMA Returned ==
  ASSUME IInv, Running, Holds(s', inLen), s'.strstart - s'.blockStart = Rest, Rest < WSize,
         call' = [call EXCEPT !.flush = Idle], inPos' = inLen, outPos' \in 0 .. room,
         UNCHANGED <<sent, lasts, inLen, room, oneShot, flushes>>,
         s'.status = "finish" => Rest = 0,
         lasts = IF s'.status = "finish" THEN <<inLen>> ELSE <<>>,
         oneShot => Rest = 0
  PROVE  IInv'
<1>1. /\ TypeOK /\ Rest \in Nat /\ Rest = Left + AvailIn /\ inPos \in Nat /\ AvailIn \in Nat
      /\ inLen = inPos + AvailIn /\ Len(sent) + Left = inPos /\ Len(sent) \in Nat
      /\ Left \in Nat /\ inLen \in Nat
  <2>1. /\ TypeOK /\ Rest \in Nat /\ Rest = Left + AvailIn /\ inPos \in Nat /\ AvailIn \in Nat
        /\ inLen = inPos + AvailIn /\ Len(sent) + Left = inPos /\ Len(sent) \in Nat
        /\ Left \in 0 .. WSize - 1
    BY RunningFacts
  <2> HIDE DEF Rest, Left, AvailIn
  <2> QED BY <2>1
<1>2. Left' = Rest /\ AvailIn' = 0
  BY <1>1 DEF Left, AvailIn
<1>3. ~Running' /\ call'.last = call.last
  BY <1>1 DEF Running, TypeOK
<1>4. TypeOK'
  <2>1. call' \in [flush : FlushModes \cup {Idle}, from : 0 .. inPos', last : BOOLEAN]
    <3>1. call \in [flush : FlushModes \cup {Idle}, from : 0 .. inPos, last : BOOLEAN]
      BY <1>1 DEF TypeOK
    <3>2. 0 .. inPos \subseteq 0 .. inPos'
      BY <1>1
    <3> QED BY <3>1, <3>2
  <2>2. s' \in State /\ s'.blockStart <= s'.strstart /\ s'.strstart <= s'.highWater
    BY DEF Holds
  <2>3. inPos' \in 0 .. inLen' /\ inLen' \in 0 .. MaxInput
    BY <1>1 DEF TypeOK
  <2> QED BY <1>1, <2>1, <2>2, <2>3 DEF TypeOK
<1>5. Counted' /\ s'.pending = 0 /\ s'.insert <= s'.strstart
  <2>1. Len(sent) + Rest = inLen
    BY <1>1
  <2> QED BY <1>2, <2>1 DEF Counted, Holds
<1>6. Resting' /\ Serving' /\ Single'
  BY <1>2, <1>3 DEF Resting, Serving, Single
<1>7. Mirror' /\ Sent'
  <2>1. Seen' = inLen
    BY <1>3 DEF Seen
  <2> QED BY <2>1 DEF IInv, Mirror, Sent, Holds
<1> QED BY <1>4, <1>5, <1>6, <1>7 DEF IInv, Numbers

\* Nothing is left after the last block
LEMMA ReturnFinishedIInv == ASSUME IInv, ReturnFinished PROVE IInv'
<1>1. Running /\ call.last /\ s' = [Settled(s) EXCEPT !.status = "finish"]
      /\ call' = [call EXCEPT !.flush = Idle]
      /\ UNCHANGED <<sent, lasts, inPos, inLen, outPos, room, oneShot, flushes>>
  BY DEF ReturnFinished
<1>2. Rest = 0 /\ lasts = <<inLen>>
  BY <1>1 DEF IInv, Numbers, Serving
<1>3. inPos = inLen /\ Left = 0 /\ outPos \in 0 .. room
  <2>1. Rest = Left + AvailIn /\ Left \in Nat /\ AvailIn \in Nat /\ inLen = inPos + AvailIn /\ inPos \in Nat
        /\ TypeOK
    BY <1>1, RunningFacts, Params
  <2> QED BY <1>2, <2>1 DEF TypeOK
<1>4. Holds(Settled(s), inPos) /\ Settled(s).strstart - Settled(s).blockStart = 0
  BY <1>1, <1>3, SettledFacts
<1> DEFINE t == Settled(s)
<1> HIDE DEF t
<1>5. /\ s' \in State /\ s'.strstart = t.strstart /\ s'.blockStart = t.blockStart
      /\ s'.window = t.window /\ s'.insert = t.insert /\ s'.pending = t.pending
      /\ s'.highWater = t.highWater /\ s'.status = "finish"
  <2>1. t \in State /\ s' = [t EXCEPT !.status = "finish"]
    BY <1>1, <1>4 DEF Holds, t
  <2> QED BY <2>1 DEF State
<1>6. Holds(t, inPos) /\ t.strstart - t.blockStart = 0
  BY <1>4 DEF t
<1>7. Holds(s', inLen)
  BY <1>3, <1>5, <1>6 DEF Holds
<1>8. Rest < WSize
  BY <1>2, Params
<1>9. s'.strstart - s'.blockStart = Rest
  BY <1>2, <1>5, <1>6
<1> QED BY <1>1, <1>2, <1>3, <1>5, <1>7, <1>8, <1>9, Returned

\* The marker of a flush goes out with the call
LEMMA MarkedFacts ==
  ASSUME IInv, Running, ~call.last, NEW t, Holds(t, inPos), t.strstart = t.blockStart
  PROVE  /\ Holds(Marked(t).s, inPos) /\ Marked(t).s.strstart = Marked(t).s.blockStart
         /\ Marked(t).s.status = t.status /\ Marked(t).at \in 0 .. room
<1> DEFINE b == IF call.flush = "partial" THEN (t.biValid + 10) \div 8 ELSE Header(t)
           v == IF call.flush = "partial" THEN (t.biValid + 10) % 8 ELSE 0
           u == [t EXCEPT !.biValid = v]
<1>1. t \in State /\ t.biValid \in 0 .. 7 /\ t.pending = 0 /\ t.strstart \in Nat
  BY Params DEF Holds, State, WindowSize
<1>2. b \in 0 .. 6 /\ v \in 0 .. 7
  BY <1>1 DEF Header
<1>3. room \in Nat /\ outPos \in Nat /\ room - outPos >= 6
  <2>1. AvailOut >= Rest + 6 /\ Rest \in Nat /\ AvailOut \in Nat
    BY RoomLeft, RunningFacts
  <2>2. room \in Nat /\ outPos \in 0 .. room
    BY DEF IInv, Numbers, TypeOK
  <2> HIDE DEF Rest
  <2> QED BY <2>1, <2>2 DEF AvailOut
<1> HIDE DEF b, v, u
<1>4. Flushed(t, b, outPos) = [s |-> t, at |-> outPos + b]
  <2>1. b \in Nat /\ b <= room - outPos
    BY <1>2, <1>3
  <2> QED BY <1>1, <1>3, <2>1, FlushedWhole
<1>5. /\ u \in State /\ u.strstart = t.strstart /\ u.blockStart = t.blockStart
      /\ u.window = t.window /\ u.insert = t.insert /\ u.pending = t.pending
      /\ u.highWater = t.highWater /\ u.status = t.status
  <2>1. u = [t EXCEPT !.biValid = v]
    BY DEF u
  <2> QED BY <1>1, <1>2, <2>1 DEF State
<1>6. Marked(t) = [s  |-> IF call.flush = "full"
                            THEN [u EXCEPT !.strstart = 0, !.blockStart = 0, !.insert = 0] ELSE u,
                   at |-> outPos + b]
  <2>1. CASE call.flush = "partial"
    BY <1>4, <2>1 DEF Marked, b, u, v
  <2>2. CASE call.flush # "partial"
    <3>1. b = Header(t) /\ v = 0
      BY <2>2 DEF b, v
    <3>2. Flushed(t, Header(t), outPos) = [s |-> t, at |-> outPos + b]
      BY <1>4, <3>1
    <3>3. u = [t EXCEPT !.biValid = 0]
      BY <3>1 DEF u
    <3> QED BY <2>2, <3>2, <3>3 DEF Marked
  <2> QED BY <2>1, <2>2
<1>7. Holds(u, inPos)
  BY <1>5 DEF Holds
<1>8. outPos + b \in 0 .. room
  BY <1>2, <1>3
<1>9. CASE call.flush = "full"
  <2> DEFINE w == [u EXCEPT !.strstart = 0, !.blockStart = 0, !.insert = 0]
  <2>1. /\ w \in State /\ w.strstart = 0 /\ w.blockStart = 0 /\ w.insert = 0
        /\ w.pending = u.pending /\ w.highWater = u.highWater /\ w.status = u.status
    <3>1. 0 \in 0 .. WindowSize /\ 0 \in 0 .. WSize
      BY Params DEF WindowSize
    <3> QED BY <1>5, <3>1 DEF State
  <2>2. u.highWater \in Nat
    BY <1>5, Params DEF State, WindowSize
  <2>3. Marked(t).s = w /\ Marked(t).at = outPos + b
    BY <1>6, <1>9
  <2> HIDE DEF w
  <2>4. Holds(w, inPos)
    BY <1>7, <2>1, <2>2 DEF Holds
  <2> QED BY <1>5, <1>8, <2>1, <2>3, <2>4
<1>10. CASE call.flush # "full"
  BY <1>5, <1>6, <1>7, <1>8, <1>10
<1> QED BY <1>9, <1>10

\* A completed flush has nothing left, and its marker goes out with it
LEMMA ReturnFlushedIInv == ASSUME IInv, ReturnFlushed PROVE IInv'
<1>1. Running /\ ~Copying /\ ~call.last /\ call.flush \notin {"none", "finish"}
      /\ s' = Marked(Settled(s)).s /\ outPos' = Marked(Settled(s)).at
      /\ call' = [call EXCEPT !.flush = Idle]
      /\ UNCHANGED <<sent, lasts, inPos, inLen, room, oneShot, flushes>>
  BY DEF ReturnFlushed
<1>2. Rest = 0
  BY <1>1, StopsShort
<1>3. inPos = inLen /\ Left = 0 /\ s.status = "busy" /\ lasts = <<>> /\ ~oneShot
  <2>1. Rest = Left + AvailIn /\ Left \in Nat /\ AvailIn \in Nat /\ inLen = inPos + AvailIn /\ inPos \in Nat
    BY <1>1, RunningFacts, Params
  <2>2. s.status = "busy" /\ lasts = <<>> /\ ~oneShot
    BY <1>1 DEF IInv, Numbers, Serving, Single, TypeOK
  <2> QED BY <1>2, <2>1, <2>2
<1> DEFINE t == Settled(s)
<1>4. Holds(t, inPos) /\ Unmoved(t, s) /\ t.strstart - t.blockStart = 0
  BY <1>1, <1>3, SettledFacts
<1> HIDE DEF t
<1>5. t.strstart = t.blockStart
  <2>1. t.strstart \in Nat /\ t.blockStart \in Nat
    BY <1>4, Params DEF Holds, State, WindowSize
  <2> QED BY <1>4, <2>1
<1>6. /\ Holds(Marked(t).s, inPos) /\ Marked(t).s.strstart = Marked(t).s.blockStart
      /\ Marked(t).s.status = t.status /\ Marked(t).at \in 0 .. room
  BY <1>1, <1>4, <1>5, MarkedFacts
<1>7. Holds(s', inLen) /\ s'.strstart = s'.blockStart /\ s'.status = "busy" /\ outPos' \in 0 .. room
  BY <1>1, <1>3, <1>4, <1>6 DEF t, Unmoved
<1>8. s'.strstart - s'.blockStart = Rest /\ Rest < WSize
  <2>1. s'.strstart \in Nat
    BY <1>7, Params DEF Holds, State, WindowSize
  <2> QED BY <1>2, <1>7, <2>1, Params
<1> QED BY <1>1, <1>3, <1>7, <1>8, Returned

\* The rest of the input always fits behind what the window holds
LEMMA SlidFacts ==
  ASSUME IInv, Running, Rest < WSize, NEW t, Holds(t, inPos), t.strstart - t.blockStart = Left
  PROVE  LET slid == SlidForInput(t)
         IN  /\ Holds(slid, inPos) /\ Unmoved(slid, t) /\ slid.strstart - slid.blockStart = Left
             /\ slid.strstart \in Nat /\ slid.strstart + AvailIn <= WindowSize
<1> DEFINE slid == SlidForInput(t)
<1>1. /\ t.strstart \in 0 .. WindowSize /\ t.blockStart \in 0 .. t.strstart
      /\ Left \in Nat /\ AvailIn \in Nat /\ Left + AvailIn < WSize /\ inPos \in Nat
  <2>1. t.strstart \in 0 .. WindowSize /\ t.blockStart \in 0 .. t.strstart
    BY Params DEF Holds, State, WindowSize
  <2>2. Left \in 0 .. WSize - 1 /\ AvailIn \in Nat /\ Rest = Left + AvailIn /\ inPos \in Nat
    BY RunningFacts
  <2> HIDE DEF Rest, Left, AvailIn
  <2> QED BY <2>1, <2>2
<1>2. CASE AvailIn > WindowSize - t.strstart /\ t.blockStart >= WSize
  <2>1. slid = SlideDown(t)
    BY <1>2 DEF SlidForInput
  <2>2. /\ Holds(slid, inPos) /\ Unmoved(slid, t) /\ slid.strstart = t.strstart - WSize
        /\ slid.blockStart = t.blockStart - WSize
    BY <1>1, <1>2, <2>1, SlideDownHolds
  <2> HIDE DEF slid
  <2>3. slid.strstart - slid.blockStart = Left /\ slid.strstart \in Nat
        /\ slid.strstart + AvailIn <= WindowSize
    <3> DEFINE ss == t.strstart
               bs == t.blockStart
               l  == Left
               a  == AvailIn
    <3>1. ss \in 0 .. WindowSize /\ bs \in 0 .. ss /\ bs >= WSize /\ a \in Nat /\ l + a < WSize /\ l \in Nat
          /\ ss - bs = l
      BY <1>1, <1>2
    <3>2. slid.strstart = ss - WSize /\ slid.blockStart = bs - WSize
      BY <2>2
    <3> HIDE DEF ss, bs, l, a
    <3>3. slid.strstart - slid.blockStart = l /\ slid.strstart \in Nat /\ slid.strstart + a <= WindowSize
      BY <3>1, <3>2, Params DEF WindowSize
    <3> QED BY <3>3 DEF l, a
  <2> QED BY <2>2, <2>3 DEF slid
<1>3. CASE ~(AvailIn > WindowSize - t.strstart /\ t.blockStart >= WSize)
  <2>1. slid = t
    BY <1>3 DEF SlidForInput
  <2>2. t.strstart \in Nat /\ t.strstart + AvailIn <= WindowSize
    <3> DEFINE ss == t.strstart
               bs == t.blockStart
               l  == Left
               a  == AvailIn
    <3>1. ss \in 0 .. WindowSize /\ bs \in 0 .. ss /\ a \in Nat /\ l + a < WSize /\ l \in Nat
          /\ ss - bs = l /\ (~(a > WindowSize - ss) \/ ~(bs >= WSize))
      BY <1>1, <1>3
    <3> HIDE DEF ss, bs, l, a
    <3>2. ss \in Nat /\ ss + a <= WindowSize
      BY <3>1, Params DEF WindowSize
    <3> QED BY <3>2 DEF ss, a
  <2> QED BY <2>1, <2>2 DEF Unmoved
<1> QED BY <1>2, <1>3

\* What a call that needs more keeps is too small for a block
LEMMA HoldingStep ==
  ASSUME IInv, ReturnHolding
  PROVE  IInv' /\ UNCHANGED <<sent, lasts>> /\ s'.lastFlush = s.lastFlush
<1> DEFINE base == Settled(s)
           slid == SlidForInput(base)
           n    == Min2(AvailIn, WindowSize - slid.strstart)
           t    == Extend(slid, inPos, n)
           have == Min2(PendingBufSize - Header(t), MaxStored)
           left == t.strstart - t.blockStart
<1>1. Running /\ ~Copying /\ ~call.last /\ call' = [call EXCEPT !.flush = Idle]
      /\ UNCHANGED <<inLen, room, oneShot, flushes>>
  BY DEF ReturnHolding
<1>2. /\ Rest \in Nat /\ Rest = Left + AvailIn /\ Left \in Nat /\ AvailIn \in Nat /\ inPos \in Nat
      /\ inLen = inPos + AvailIn /\ inLen <= MaxInput
  <2>1. Left \in 0 .. WSize - 1
    BY <1>1, RunningFacts
  <2>2. /\ Rest \in Nat /\ Rest = Left + AvailIn /\ AvailIn \in Nat /\ inPos \in Nat
        /\ inLen = inPos + AvailIn /\ inLen <= MaxInput
    BY <1>1, RunningFacts
  <2> HIDE DEF Left
  <2> QED BY <2>1, <2>2
<1>3. Holds(base, inPos) /\ Unmoved(base, s) /\ base.strstart - base.blockStart = Left
  BY <1>1, SettledFacts
<1>4. Rest < WSize /\ call.flush = "none"
  <2>1. Rest < WSize /\ call.flush # "finish" /\ (call.flush # "none" => Rest = 0)
    BY <1>1, StopsShort
  <2>2. CASE call.flush # "none"
    <3>1. AvailIn = 0 /\ Left = 0
      <4> HIDE DEF Rest
      <4> QED BY <1>2, <2>1, <2>2
    <3>2. base.strstart \in Nat /\ base.blockStart \in Nat
      BY <1>3, Params DEF Holds, State, WindowSize
    <3>3. Drained(base)
      <4> HIDE DEF base
      <4> QED BY <1>3, <3>1, <3>2 DEF Drained
    <3>4. call.flush \in {"none", "finish"} \/ ~Drained(base)
      BY DEF ReturnHolding
    <3> QED BY <2>1, <2>2, <3>3, <3>4
  <2> QED BY <2>1, <2>2
<1> HIDE DEF base
<1>5. /\ Holds(slid, inPos) /\ Unmoved(slid, base) /\ slid.strstart - slid.blockStart = Left
      /\ slid.strstart \in Nat /\ slid.strstart + AvailIn <= WindowSize
  BY <1>1, <1>3, <1>4, SlidFacts
<1> HIDE DEF slid
<1>6. n = AvailIn
  <2>1. WindowSize \in Nat
    BY Params DEF WindowSize
  <2> QED BY <1>2, <1>5, <2>1 DEF Min2
<1> HIDE DEF n
<1>7. /\ Holds(t, inLen) /\ Unmoved(t, slid) /\ t.strstart = slid.strstart + AvailIn
      /\ t.blockStart = slid.blockStart
  BY <1>2, <1>5, <1>6, ExtendHolds
<1> HIDE DEF t
<1>8. left = Rest
  <2>1. slid.blockStart \in Nat
    BY <1>5, Params DEF Holds, State, WindowSize
  <2> HIDE DEF Rest
  <2> QED BY <1>2, <1>5, <1>7, <2>1
<1>9. ~(left >= Min2(have, WSize))
  <2>1. t.biValid \in 0 .. 7
    BY <1>7 DEF Holds, State
  <2>2. Header(t) \in 0 .. 6
    BY <2>1 DEF Header
  <2>3. have >= WSize /\ have \in Int
    BY <2>2, Params DEF Min2
  <2> HIDE DEF have, left, Rest
  <2> QED BY <1>2, <1>4, <1>8, <2>3, Params DEF Min2
<1>10. s' = t /\ inPos' = inPos + n /\ UNCHANGED <<sent, lasts, outPos>>
  BY <1>4, <1>9 DEF ReturnHolding, base, slid, n, t
<1>11. s.status = "busy" /\ lasts = <<>> /\ ~oneShot /\ outPos \in 0 .. room
  BY <1>1, <1>4 DEF IInv, Numbers, Serving, Single, TypeOK
<1>12. /\ s'.status = "busy" /\ s'.lastFlush = s.lastFlush /\ inPos' = inLen
       /\ Holds(s', inLen) /\ s'.strstart - s'.blockStart = Rest
  BY <1>2, <1>3, <1>5, <1>6, <1>7, <1>8, <1>10, <1>11 DEF Unmoved
<1>13. IInv'
  BY <1>1, <1>4, <1>10, <1>11, <1>12, Returned
<1> QED BY <1>10, <1>12, <1>13

-----------------------------------------------------------------------------
(* The theorems                                                            *)

\* One case for each step of the specification
LEMMA NextIInv == ASSUME IInv, [Next]_vars PROVE IInv'
<1>1. CASE Feed
  BY <1>1, CallIInv DEF Feed
<1>2. CASE CopyBlock
  BY <1>2, CopyBlockIInv
<1>3. CASE ReturnFinished
  BY <1>3, ReturnFinishedIInv
<1>4. CASE ReturnFlushed
  BY <1>4, ReturnFlushedIInv
<1>5. CASE ReturnHolding
  BY <1>5, HoldingStep
<1>6. CASE UNCHANGED vars
  BY <1>6 DEF vars, IInv, Numbers, TypeOK, Counted, Resting, Serving, Single, Mirror, Seen, Sent,
              Enough, Rest, Left, AvailIn, AvailOut, Running
<1> QED BY <1>1, <1>2, <1>3, <1>4, <1>5, <1>6 DEF Next, Step, Return

\* The numbers, the window and the output of deflateStored stay as IInv says.
THEOREM Invariance == Spec => []IInv
<1>1. Init => IInv
  BY InitIInv
<1>2. IInv /\ [Next]_vars => IInv'
  BY NextIInv
<1> QED BY <1>1, <1>2, PTL DEF Spec

\* Every field of the state, the buffers and the call stays within its range,
\* strstart and blockStart through all the slides of deflateStored.
THEOREM Typing == Spec => []TypeOK
<1>1. IInv => TypeOK
  BY DEF IInv, Numbers
<1> QED BY <1>1, Invariance, PTL

\* deflateOnce consumes its whole input at level 0, so "no progress"
\* (stream.go:134-137) is unreachable.
THEOREM Consumption == Spec => []ConsumesAll
<1>1. IInv => ConsumesAll
  BY DEF IInv, Numbers, Resting, ConsumesAll
<1> QED BY <1>1, Invariance, PTL

\* The buffers that Deflate (stream.go:111) and compressInto (zdeflate/gzip.go:70)
\* size by Bound are never short, whatever the data, the pieces and the flushes.
THEOREM Sufficiency == Spec => []NeverShort
<1>1. IInv => NeverShort
  <2>1. SUFFICES ASSUME IInv, Running, ~call.last PROVE AvailOut >= Header(s) + Left + AvailIn
    BY DEF IInv, Numbers, NeverShort
  <2>2. /\ Rest \in Nat /\ Rest = Left + AvailIn /\ Header(s) \in 0 .. 6
        /\ AvailOut >= Rest + 6 /\ AvailOut \in Nat /\ Left \in 0 .. WSize - 1 /\ AvailIn \in Nat
    BY <2>1, RunningFacts, RoomLeft
  <2> DEFINE h == Header(s)
  <2>3. h \in 0 .. 6
    BY <2>2
  <2> HIDE DEF h, Rest, Left
  <2>4. AvailOut >= h + Left + AvailIn
    BY <2>2, <2>3
  <2> QED BY <2>4 DEF h
<1> QED BY <1>1, Invariance, PTL

\* Between calls the window ends with the input consumed so far, also where
\* deflateStored copied it directly (deflate.go:672-700).
THEOREM Mirroring == Spec => []WindowMirrorsInput
<1>1. IInv => WindowMirrorsInput
  BY DEF IInv, Numbers, Mirror, Seen, WindowMirrorsInput
<1> QED BY <1>1, Invariance, PTL

\* A stream has one block marked last (deflate.go:643, :748), and it ends with
\* the stream.
THEOREM LastBlock == Spec => []OneLastBlock
<1>1. IInv => OneLastBlock
  BY DEF IInv, Numbers, Resting, OneLastBlock
<1> QED BY <1>1, Invariance, PTL

\* The blocks and what the window holds are the input consumed so far, in order,
\* through direct copies, slides and full flushes (deflate.go:619-722).
THEOREM Order == Spec => []InOrder
<1>1. ASSUME IInv PROVE InOrder
  <2> DEFINE all == sent \o Slice(s, s.blockStart, Left)
             m   == Len(sent) + Left
  <2>1. Left \in Nat
    <3>1. s.strstart \in Nat /\ s.blockStart \in Nat /\ s.blockStart <= s.strstart
      BY <1>1, Params DEF IInv, Numbers, TypeOK, State, WindowSize
    <3> QED BY <3>1 DEF Left
  <2>2. all \in Seq(Byte) /\ Len(all) = m /\ \A k \in 1 .. Len(all) : all[k] = k
    <3>1. Left \in 0 .. Left
      BY <2>1
    <3> QED BY <1>1, <3>1, DueBytes
  <2> HIDE DEF all, m
  <2>3. all = [k \in 1 .. Len(all) |-> all[k]]
    BY <2>2
  <2>4. all = [k \in 1 .. m |-> k]
    BY <2>2, <2>3
  <2> QED BY <2>4 DEF all, m, InOrder
<1> QED BY <1>1, Invariance, PTL

\* The way through the pending buffer at the end of deflateStored
\* (deflate.go:741-753) is never taken with the buffers of this library.
THEOREM Directness == Spec => DirectOnly
<1>1. IInv /\ [Next]_vars => [Return => UNCHANGED <<sent, lasts>>]_vars
  BY HoldingStep DEF Return, ReturnFinished, ReturnFlushed
<1> QED BY <1>1, Invariance, PTL DEF Spec, DirectOnly

-----------------------------------------------------------------------------
(* The promise of Compressor, step by step                                 *)

\* The mode of the promise
Mode == IF ~Running /\ s.status = "finish" THEN "done" ELSE call.flush

\* The flush of the latest call is remembered, and a stream that rests after a
\* flush or a finish has sent everything
Delivered ==
  /\ s.lastFlush \in FlushModes \cup {"unused"}
  /\ Running => s.lastFlush = call.flush
  /\ ~Running /\ s.lastFlush \notin {"none", "unused"} => Len(sent) = inLen
  /\ ~Running /\ s.status = "finish" => s.lastFlush = "finish"

LEMMA InitPromise == Init => Promise!Init /\ Delivered
BY DEF Init, Promise!Init, Running, Idle, Delivered

\* What the promise sees between two calls and within one
LEMMA ModeFacts ==
  ASSUME IInv
  PROVE  /\ Running => Mode = call.flush /\ Mode \in Promise!Modes /\ Mode # Idle
         /\ ~Running /\ s.status = "busy" => Mode = Idle
         /\ ~Running /\ s.status # "busy" => Mode = "done"
         /\ inLen \in Nat /\ Len(sent) \in Nat /\ Len(sent) <= inPos /\ inPos <= inLen /\ inPos \in Nat
<1>1. /\ TypeOK /\ s.status \in {"busy", "finish"} /\ call.flush \in FlushModes \cup {Idle}
      /\ Len(sent) + Left = inPos /\ s.strstart \in Nat /\ s.blockStart \in Nat /\ s.blockStart <= s.strstart
  BY Params DEF IInv, Numbers, TypeOK, State, Counted, WindowSize
<1>2. inLen \in Nat /\ inPos \in Nat /\ inPos <= inLen /\ sent \in Seq(Byte)
  BY <1>1, Params DEF TypeOK
<1>3. Len(sent) \in Nat
  BY <1>2, LenProperties
<1>4. Len(sent) <= inPos
  BY <1>1, <1>2, <1>3 DEF Left
<1> QED BY <1>1, <1>2, <1>3, <1>4 DEF Mode, Running, FlushModes, Promise!Modes, Idle

\* A flush ranks above a call without one
LEMMA HigherRank ==
  ASSUME NEW f \in FlushModes \ {"none", "finish"}, NEW g, Rank(f) <= Rank(g)
  PROVE  g \notin {"none", "unused"}
<1>1. f = "partial" \/ f = "sync" \/ f = "full"
  BY DEF FlushModes
<1>2. Rank("partial") = 2 /\ Rank("sync") = 4 /\ Rank("full") = 6
  BY DEF Rank
<1>3. Rank("none") = 0 /\ Rank("unused") = -4
  BY DEF Rank
<1>4. g = "none" \/ g = "unused" => FALSE
  BY <1>1, <1>2, <1>3
<1> QED BY <1>4

\* A call that has work to do is a call of the promise; any other is skipped, a
\* flush only when everything has been sent
LEMMA CallPromise ==
  ASSUME IInv, Delivered, NEW n \in Slices \cup {0}, NEW f \in Flushes, Call(n, f)
  PROVE  /\ \/ Promise!Call(f) \/ Promise!Skip(f)
            \/ UNCHANGED <<inLen, sent, Mode, s.lastFlush>>
         /\ Delivered'
<1>1. n \in Nat /\ f \in FlushModes /\ inLen \in Nat /\ ~Running /\ call.flush = Idle
      /\ s \in State /\ f # Idle
  BY Params, ModeFacts DEF Call, Running, IInv, Numbers, TypeOK, FlushModes, Idle
<1> DEFINE repeated == n = 0 /\ Rank(f) <= Rank(s.lastFlush) /\ f # "finish"
           work     == n # 0 \/ (f # "none" /\ s.status # "finish")
<1>2. /\ inLen' = inLen + n /\ sent' = sent /\ s'.status = s.status /\ s'.lastFlush = f
      /\ call'.flush = IF ~repeated /\ work THEN f ELSE Idle
      /\ s.status = "finish" => n = 0 /\ f = "finish"
  <2>1. s' = [s EXCEPT !.lastFlush = f] /\ inLen' = inLen + n /\ sent' = sent
    BY DEF Call
  <2>2. s'.status = s.status /\ s'.lastFlush = f
    BY <1>1, <2>1 DEF State
  <2>3. call'.flush = IF ~repeated /\ work THEN f ELSE Idle
    BY DEF Call
  <2>4. s.status = "finish" => n = 0 /\ f = "finish"
    BY DEF Call
  <2> QED BY <2>1, <2>2, <2>3, <2>4
<1>3. s.status \in {"busy", "finish"}
  BY <1>1 DEF State
<1>4. CASE ~repeated /\ work
  <2>1. s.status = "busy" /\ call'.flush = f
    BY <1>2, <1>3, <1>4
  <2>2. Mode = Idle /\ Mode' = f
    BY <1>1, <1>2, <2>1 DEF Mode, Running
  <2>3. inLen' \in Nat /\ inLen' >= inLen
    BY <1>1, <1>2
  <2>4. Promise!Call(f)
    BY <1>2, <2>2, <2>3 DEF Promise!Call, Mode
  <2>5. Delivered'
    BY <1>1, <1>2, <2>1 DEF Delivered, Running
  <2> QED BY <2>4, <2>5
<1>5. CASE ~(~repeated /\ work)
  <2>1. n = 0 /\ inLen' = inLen /\ ~Running'
    BY <1>1, <1>2, <1>5 DEF Running
  <2>2. Mode' = Mode
    BY <1>1, <1>2, <2>1 DEF Mode, Running
  <2>3. CASE s.status = "finish"
    <3>1. f = "finish" /\ s'.lastFlush = s.lastFlush
      BY <1>1, <1>2, <2>3 DEF Delivered
    <3>2. Delivered'
      BY <1>1, <1>2, <2>1, <2>3, <3>1 DEF Delivered
    <3> QED BY <1>2, <2>1, <2>2, <3>1, <3>2
  <2>4. CASE s.status = "busy"
    <3>1. f # "finish"
      BY <1>5, <2>4
    <3>2. f # "none" => Len(sent) = inLen
      <4> SUFFICES ASSUME f # "none" PROVE Len(sent) = inLen
        OBVIOUS
      <4>1. repeated
        BY <1>5, <2>4
      <4>2. s.lastFlush \notin {"none", "unused"}
        BY <1>1, <3>1, <4>1, HigherRank
      <4> QED BY <1>1, <4>2 DEF Delivered
    <3>3. Mode = Idle
      BY <1>1, <2>4 DEF Mode
    <3> HIDE DEF repeated, work
    <3>4. Promise!Skip(f)
      BY <1>2, <2>1, <2>2, <3>1, <3>2, <3>3 DEF Promise!Skip, Mode
    <3>5. Delivered'
      BY <1>1, <1>2, <2>1, <2>4, <3>2 DEF Delivered
    <3> QED BY <3>4, <3>5
  <2> QED BY <1>3, <2>3, <2>4
<1> QED BY <1>4, <1>5

\* A step of deflateStored leaves the flush of the latest call alone
LEMMA StoredKeepsLast ==
  ASSUME IInv, CopyBlock \/ Return
  PROVE  s'.lastFlush = s.lastFlush
<1>1. s \in State
  BY DEF IInv, Numbers, TypeOK
<1>2. CASE CopyBlock
  <2>1. PICK kept, p : s' = [[s EXCEPT !.pending = p] EXCEPT !.blockStart = @ + kept, !.biValid = 0]
    BY <1>2 DEF CopyBlock, Flushed
  <2> QED BY <1>1, <2>1 DEF State
<1>3. ASSUME Running PROVE Settled(s) \in State /\ Settled(s).lastFlush = s.lastFlush
  BY <1>3, SettledFacts DEF Holds, Unmoved
<1>4. CASE ReturnFinished
  <2>1. s' = [Settled(s) EXCEPT !.status = "finish"] /\ Running
    BY <1>4 DEF ReturnFinished
  <2> QED BY <1>3, <2>1 DEF State
<1>5. CASE ReturnFlushed
  <2> DEFINE t == Settled(s)
  <2>1. s' = Marked(t).s /\ t \in State /\ t.lastFlush = s.lastFlush
    BY <1>3, <1>5 DEF ReturnFlushed
  <2> HIDE DEF t
  <2>2. ASSUME NEW p, NEW b
        PROVE  LET u == [[t EXCEPT !.pending = p] EXCEPT !.biValid = b]
               IN  /\ u.lastFlush = t.lastFlush
                   /\ [u EXCEPT !.strstart = 0, !.blockStart = 0, !.insert = 0].lastFlush = t.lastFlush
    BY <2>1 DEF State
  <2>3. Marked(t).s.lastFlush = t.lastFlush
    BY <2>2 DEF Marked, Flushed
  <2> QED BY <2>1, <2>3
<1>6. CASE ReturnHolding
  BY <1>6, HoldingStep
<1> QED BY <1>2, <1>4, <1>5, <1>6 DEF Return

\* A block of the direct copy shows more of the input
LEMMA CopyBlockPromise ==
  ASSUME IInv, Delivered, CopyBlock
  PROVE  /\ Promise!Emit \/ UNCHANGED <<inLen, sent, Mode, s.lastFlush>>
         /\ Delivered'
<1>1. Running /\ ~call.last /\ IInv'
  BY CopyBlockIInv DEF CopyBlock, Copying
<1>2. sent' = Copied /\ inLen' = inLen /\ call' = [call EXCEPT !.last = Last]
  BY DEF CopyBlock, Copied, Kept, Fresh
<1>3. /\ Len(sent') = Len(sent) + Length /\ Length \in Nat
      /\ inLen \in Nat /\ Len(sent) \in Nat /\ Len(sent) + Length <= inLen
  <2>1. /\ Len(Copied) = Len(sent) + Length /\ Length \in 0 .. Rest
        /\ Left \in 0 .. WSize - 1 /\ AvailIn \in Nat /\ Rest = Left + AvailIn /\ inPos \in Nat
        /\ inLen = inPos + AvailIn /\ Len(sent) + Left = inPos /\ Len(sent) \in Nat
    BY <1>1, BlockInOrder, RoomLeft, RunningFacts
  <2> HIDE DEF Rest, Left, AvailIn, Length
  <2>2. Left \in Nat
    BY <2>1, Params
  <2>3. Length \in Nat /\ Length <= Left + AvailIn /\ inLen = Len(sent) + Left + AvailIn
    BY <2>1, <2>2
  <2> QED BY <1>2, <2>1, <2>2, <2>3
<1>4. Mode' = Mode /\ Mode \in Promise!Modes
  <2>1. call'.flush = call.flush
    BY <1>2 DEF IInv, Numbers, TypeOK
  <2> QED BY <1>1, <2>1, ModeFacts DEF Mode, Running
<1>5. s'.lastFlush = s.lastFlush /\ Running' /\ call'.flush = call.flush
  BY <1>1, <1>2, StoredKeepsLast DEF IInv, Numbers, TypeOK, Running
<1>6. Delivered'
  BY <1>1, <1>5 DEF Delivered
<1>7. CASE Length = 0
  <2>1. sent \in Seq(Byte) /\ sent' \in Seq(Byte) /\ Sent /\ Sent'
    BY <1>1 DEF IInv, Numbers, TypeOK
  <2>2. Len(sent') = Len(sent)
    BY <1>3, <1>7
  <2>3. sent' = sent
    BY <2>1, <2>2 DEF Sent
  <2> QED BY <1>2, <1>4, <1>5, <1>6, <2>3
<1>8. CASE Length # 0
  <2>1. Len(sent') \in Len(sent) + 1 .. inLen
    <3> HIDE DEF Length
    <3> QED BY <1>3, <1>8
  <2> QED BY <1>2, <1>4, <1>5, <1>6, <2>1 DEF Promise!Emit, Promise!Calling, Mode
<1> QED BY <1>7, <1>8

\* A call returns having shown everything, unless it only fed bytes
LEMMA ReturnPromise == ASSUME IInv, Delivered, Return PROVE Promise!Return /\ Delivered'
<1>1. /\ Running /\ call' = [call EXCEPT !.flush = Idle] /\ UNCHANGED <<sent, lasts, inLen>> /\ IInv'
  BY ReturnFinishedIInv, ReturnFlushedIInv, HoldingStep, Zenon
  DEF Return, ReturnFinished, ReturnFlushed, ReturnHolding
<1>2. /\ Mode = call.flush /\ Mode \in Promise!Modes /\ inLen \in Nat /\ Len(sent) \in Nat
      /\ Len(sent) <= inLen
  BY <1>1, ModeFacts
<1>3. ~Running'
  BY <1>1 DEF Running, IInv, Numbers, TypeOK
<1>4. Rest = 0 => Len(sent) = inLen
  <2>1. /\ Left \in 0 .. WSize - 1 /\ AvailIn \in Nat /\ Rest = Left + AvailIn /\ inPos \in Nat
        /\ inLen = inPos + AvailIn /\ Len(sent) + Left = inPos
    BY <1>1, RunningFacts
  <2> HIDE DEF Rest, Left, AvailIn
  <2> QED BY <1>2, <2>1, Params
<1>5. Len(sent') \in Len(sent) .. inLen /\ (Rest = 0 => Len(sent') = inLen)
  <2> HIDE DEF Rest
  <2> QED BY <1>1, <1>2, <1>4
<1>6. s'.lastFlush = s.lastFlush /\ s.lastFlush = call.flush /\ call.flush \in FlushModes
  BY <1>1, StoredKeepsLast DEF Delivered, IInv, Numbers, TypeOK, Running
<1>7. CASE call.last
  <2>1. call.flush = "finish" /\ Rest = 0 /\ lasts = <<inLen>>
    BY <1>1, <1>7 DEF IInv, Numbers, Serving
  <2>2. s'.status = "finish"
    BY <1>1, <1>3, <2>1 DEF IInv, Numbers, Resting
  <2>3. Mode' = "done"
    BY <1>3, <2>2 DEF Mode
  <2>4. Delivered'
    BY <1>1, <1>3, <1>5, <1>6, <2>1 DEF Delivered
  <2> QED BY <1>1, <1>2, <1>5, <1>6, <2>1, <2>3, <2>4 DEF Promise!Return, Promise!Calling, Mode
<1>8. CASE ~call.last
  <2>1. lasts = <<>> /\ ~Copying
    BY <1>1, <1>8 DEF IInv, Numbers, Serving, Return, ReturnFinished, ReturnFlushed, ReturnHolding
  <2>2. call.flush # "finish" /\ (call.flush # "none" => Rest = 0)
    BY <1>1, <1>8, <2>1, StopsShort
  <2>3. s'.status # "finish"
    BY <1>1, <1>3, <2>1 DEF IInv, Numbers, Resting
  <2>4. Mode' = Idle
    BY <1>1, <1>3, <2>3 DEF Mode, Running
  <2> HIDE DEF Rest
  <2>5. Delivered'
    BY <1>1, <1>3, <1>5, <1>6, <2>2, <2>3 DEF Delivered
  <2> QED BY <1>1, <1>2, <1>5, <1>6, <2>2, <2>4, <2>5 DEF Promise!Return, Promise!Calling, Mode
<1> QED BY <1>7, <1>8

LEMMA NextPromise ==
  IInv /\ Delivered /\ [Next]_vars => Delivered' /\ [Promise!Next]_(Promise!compressor)
<1> SUFFICES ASSUME IInv, Delivered, [Next]_vars
             PROVE  Delivered' /\ (Promise!Next \/ UNCHANGED Promise!compressor)
  OBVIOUS
<1>1. UNCHANGED <<inLen, sent, Mode, s.lastFlush>> => UNCHANGED Promise!compressor
  BY DEF Promise!compressor, Mode
<1>2. CASE Feed
  <2>1. PICK n \in Slices \cup {0}, f \in Flushes : Call(n, f)
    BY <1>2 DEF Feed
  <2>2. f \in Promise!Modes
    BY StoredAssumption DEF FlushModes, Promise!Modes
  <2> QED BY <1>1, <2>1, <2>2, CallPromise DEF Promise!Next
<1>3. CASE CopyBlock
  BY <1>1, <1>3, CopyBlockPromise DEF Promise!Next
<1>4. CASE Return
  BY <1>4, ReturnPromise DEF Promise!Next
<1>5. CASE UNCHANGED vars
  BY <1>1, <1>5 DEF vars, Mode, Running, Delivered
<1> QED BY <1>2, <1>3, <1>4, <1>5 DEF Next, Step

\* Level 0 is a refinement of Compressor: every step of deflateStored is a step
\* of the promise that Deflater.Deflate relies on, or none (stream.go:110-138).
\* That every call returns is left to the model checker.
THEOREM Refinement == Spec => Promise!Init /\ [][Promise!Next]_(Promise!compressor)
<1>1. Init => Promise!Init /\ Delivered
  BY InitPromise
<1>2. IInv /\ Delivered /\ [Next]_vars => Delivered' /\ [Promise!Next]_(Promise!compressor)
  BY NextPromise
<1> QED BY <1>1, <1>2, Invariance, PTL DEF Spec
=============================================================================
