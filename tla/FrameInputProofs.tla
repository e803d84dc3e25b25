--------------------------- MODULE FrameInputProofs ---------------------------
(***************************************************************************)
(* Proofs about FrameInput, for every set of frames, any number of them    *)
(* and every size of buffer, piece and read.                               *)
(***************************************************************************)
EXTENDS FrameInputSafety, SetInduction

(***************************************************************************)
(* The strengthening.  Layout: where the frames lie in the stream.         *)
(***************************************************************************)
Layout ==
    /\ Len(start) = Len(frames) + 1 /\ start[1] = 0
    /\ \A k \in 1 .. Len(frames) : start[k + 1] = start[k] + Octets(frames[k])
    /\ \A i, j \in 1 .. Len(start) : i < j => start[i] < start[j]
    /\ arrived <= start[Len(start)]

\* The read position is at the frame after those taken.
Aligned ==
    /\ Len(taken) <= Len(frames)
    /\ rpos = start[Len(taken) + 1]
    /\ Data(buffer_in) <= arrived

\* Room for the first chunk at least, and for what is there.
InputFits == BufferSize <= buffer_in.size /\ Fits(buffer_in)

\* fragmented_data is empty until something is appended.
PiecesCount == pieces = 0 <=> fragmented_data.used = 0

\* A cause is given when the client is dropped.
CauseLast == cause # "none" => pc = "gone"

IInv ==
    /\ TypeOK
    /\ Layout /\ Aligned
    /\ InputFits /\ PiecesCount /\ AppendsFit
    /\ CauseLast /\ DroppedForCause
-----------------------------------------------------------------------------
(***************************************************************************)
(* Lemmas about hk_buffer_append_string.                                   *)
(***************************************************************************)
LEMMA GrownIsMore ==
    ASSUME NEW n \in Nat
    PROVE  Grown(n) \in Nat /\ n < Grown(n)
<1>1. n % PieceSize \in 0 .. PieceSize - 1
  BY BufferAssumption
<1> QED BY <1>1, BufferAssumption DEF Grown

LEMMA AppendType ==
    ASSUME NEW b \in Buffer, NEW n \in Nat
    PROVE  /\ AppendString(b, n) \in Buffer
           /\ AppendString(b, n).rpos = b.rpos
           /\ Data(AppendString(b, n)) = Data(b) + n
           /\ b.size <= AppendString(b, n).size
           /\ n > 0 => AppendString(b, n).used = (IF b.used = 0 THEN 1 ELSE b.used) + n
           /\ n > 0 /\ ~RoomFor(b, n) => b.used + n < AppendString(b, n).size
           /\ RoomFor(b, n) => AppendString(b, n).size = b.size
<1>1. CASE n = 0
  BY <1>1 DEF AppendString, Data, Buffer
<1>2. CASE n > 0
  <2>1. b.used + n \in Nat /\ Grown(b.used + n) \in Nat /\ b.used + n < Grown(b.used + n)
    BY GrownIsMore DEF Buffer
  <2>2. b.used \in Nat /\ b.size \in Nat /\ b.rpos \in Nat
    BY DEF Buffer
  <2>3. /\ AppendString(b, n).used = (IF b.used = 0 THEN 1 ELSE b.used) + n
        /\ AppendString(b, n).size = (IF RoomFor(b, n) THEN b.size ELSE Grown(b.used + n))
        /\ AppendString(b, n).rpos = b.rpos
    BY <1>2 DEF AppendString
  <2>4. AppendString(b, n).used \in Nat /\ AppendString(b, n).size \in Nat
    BY <2>1, <2>2, <2>3
  <2>5. AppendString(b, n) \in Buffer
    BY <1>2, <2>2, <2>3, <2>4 DEF AppendString, Buffer
  <2>6. ~RoomFor(b, n) => b.size < b.used + n
    BY <2>2 DEF RoomFor
  <2> QED BY <1>2, <2>1, <2>2, <2>3, <2>4, <2>5, <2>6 DEF Data
<1> QED BY <1>1, <1>2

\* What is in a buffer of frames as sent, the head read is as sent.
LEMMA OctetsNat ==
    ASSUME NEW h \in Heads
    PROVE  /\ Octets(h) \in Nat /\ HeadOctets(h) \in Nat
           /\ 2 + h.ext <= HeadOctets(h) /\ HeadOctets(h) <= Octets(h)
           /\ Octets(h) = HeadOctets(h) + h.len
<1>1. h.ext \in {0, 2, 8} /\ h.len \in Nat /\ h.masked \in BOOLEAN
  BY FrameInputAssumption DEF Heads
<1>2. HeadOctets(h) \in {2 + h.ext, 6 + h.ext}
  BY <1>1 DEF HeadOctets
<1> QED BY <1>1, <1>2 DEF Octets

\* The parser reads a head of the form of a head, whatever has come.
LEMMA ReadsHeads ==
    ASSUME TypeOK, NEW h \in HeadsRead
    PROVE  h \in Heads
<1>1. Here \subseteq Heads
  BY FrameInputAssumption DEF Here, TypeOK
<1>2. /\ {f.op : f \in Here} \subseteq Opcodes
      /\ {f.fin : f \in Here} \subseteq BOOLEAN
      /\ {f.rsv : f \in Here} \subseteq BOOLEAN
      /\ {f.masked : f \in Here} \subseteq BOOLEAN
      /\ {f.ext : f \in Here} \subseteq {0, 2, 8}
  BY <1>1 DEF Heads
<1>3. "CONT" \in Opcodes
  BY DEF Opcodes, DataOps
<1>4. /\ h.op \in Opcodes /\ h.fin \in BOOLEAN /\ h.rsv \in BOOLEAN
      /\ h.masked \in BOOLEAN /\ h.ext \in {0, 2, 8} /\ h.len \in PayloadLengths
      /\ h = [op |-> h.op, fin |-> h.fin, rsv |-> h.rsv, masked |-> h.masked,
              ext |-> h.ext, len |-> h.len]
  BY <1>2, <1>3 DEF HeadsRead, Field
<1> QED BY <1>4 DEF Heads
-----------------------------------------------------------------------------
(***************************************************************************)
(* The parser reports a frame done only when all of it has come, and what  *)
(* it has read is then that frame: no octet read before it came, and no    *)
(* test against the length of the whole buffer, can deceive it.            *)
(***************************************************************************)
LEMMA DoneExact ==
    ASSUME TypeOK, Layout, Aligned, NEW h \in HeadsRead, Result(h) \in {"DONE", "CRITICAL"}
    PROVE  /\ Len(taken) < Len(frames)
           /\ h = frames[Len(taken) + 1]
           /\ start[Len(taken) + 2] = rpos + Octets(h)
           /\ start[Len(taken) + 2] <= Data(buffer_in)
<1> DEFINE k == Len(taken) + 1
<1>1. h \in Heads
  BY ReadsHeads
<1>2. /\ Octets(h) \in Nat /\ HeadOctets(h) \in Nat
      /\ 2 + h.ext <= HeadOctets(h) /\ HeadOctets(h) <= Octets(h)
  BY <1>1, OctetsNat
<1>3. h.ext \in {0, 2, 8}
  BY <1>1 DEF Heads
<1>4. rpos \in Nat /\ used \in Nat
  BY DEF TypeOK, Buffer, rpos, used
<1>5. used >= 2 /\ rpos + Octets(h) < used
  BY <1>2, <1>4 DEF Result, Short
<1>6. Data(buffer_in) = used - 1
  BY <1>4, <1>5 DEF Data, used
<1>7. Come(1) /\ Come(2) /\ Come(2 + h.ext)
  BY <1>2, <1>3, <1>4, <1>5, <1>6 DEF Come
<1>8. Len(taken) < Len(frames)
  <2>1. rpos < arrived
    <3>1. Octets(h) >= 2 /\ arrived \in Nat /\ Data(buffer_in) <= arrived
      BY <1>2, <1>3 DEF Aligned, TypeOK
    <3> QED BY <1>2, <1>4, <1>5, <1>6, <3>1
  <2>2. start[Len(start)] \in Nat
    BY DEF TypeOK, Layout
  <2> QED BY <1>4, <2>1, <2>2 DEF Layout, Aligned, TypeOK
<1>9. k \in DOMAIN frames /\ k \in 1 .. Len(start)
  BY <1>8 DEF TypeOK, Layout
<1>10. Here = {frames[k]}
  <2>1. \A j \in DOMAIN frames : start[j] = rpos => j = k
    BY <1>4, <1>9 DEF Layout, Aligned, TypeOK
  <2> QED BY <1>9, <2>1 DEF Here, Aligned
<1>11. h = frames[k]
  <2>1. h.op = frames[k].op /\ h.fin = frames[k].fin /\ h.rsv = frames[k].rsv
    BY <1>7, <1>10 DEF HeadsRead, Field
  <2>2. h.masked = frames[k].masked /\ h.ext = frames[k].ext
    BY <1>7, <1>10 DEF HeadsRead, Field
  <2>3. h.len = frames[k].len
    BY <1>7, <1>10 DEF HeadsRead
  <2>4. frames[k] \in Heads
    BY <1>9, FrameInputAssumption DEF TypeOK
  <2> QED BY <1>1, <2>1, <2>2, <2>3, <2>4 DEF Heads
<1>12. start[k + 1] = start[k] + Octets(frames[k])
  <2>1. k \in 1 .. Len(frames)
    BY <1>8 DEF TypeOK
  <2> QED BY <2>1 DEF Layout
<1> QED BY <1>2, <1>4, <1>5, <1>6, <1>8, <1>9, <1>11, <1>12 DEF Aligned

\* A ping reported too long is one, and all of it has come.
LEMMA PingCome ==
    ASSUME TypeOK, Layout, Aligned, NEW h \in HeadsRead, Result(h) = "CRITICAL"
    PROVE  /\ Len(taken) + 1 \in DOMAIN frames
           /\ frames[Len(taken) + 1].op = "PING"
           /\ start[Len(taken) + 2] <= arrived
<1>1. h.op = "PING"
  BY DEF Result, Short, Padded
<1>2. /\ Len(taken) < Len(frames)
      /\ h = frames[Len(taken) + 1]
      /\ start[Len(taken) + 2] <= Data(buffer_in)
  BY DoneExact
<1>3. Len(taken) + 2 \in 1 .. Len(start)
  BY <1>2 DEF TypeOK, Layout
<1>4. start[Len(taken) + 2] \in Nat /\ Data(buffer_in) \in Nat
  BY <1>3 DEF TypeOK, Buffer, Data
<1> QED BY <1>1, <1>2, <1>4 DEF Aligned, TypeOK

\* The zero behind the data is no unknown opcode.
LEMMA OpcodeCome ==
    ASSUME TypeOK, Layout, Aligned, NEW h \in HeadsRead, Result(h) = "INVALID_OPCODE"
    PROVE  /\ Len(taken) + 1 \in DOMAIN frames
           /\ frames[Len(taken) + 1].op = "OTHER"
           /\ start[Len(taken) + 1] < arrived
<1> DEFINE k == Len(taken) + 1
<1>1. h.op = "OTHER"
  BY DEF Result, Short, Padded
<1>2. Come(1)
  <2>1. Come(0)
    BY DEF Come, TypeOK, Buffer, rpos, Data
  <2>2. 1 - 1 = 0
    OBVIOUS
  <2>3. h.op \in (IF Come(1) THEN {f.op : f \in Here} ELSE {"CONT"})
    BY <2>1, <2>2 DEF HeadsRead, Field
  <2> QED BY <1>1, <2>3
<1>3. rpos < arrived
  BY <1>2 DEF Come, Aligned, TypeOK, Buffer, rpos, Data
<1>4. Len(taken) < Len(frames)
  <2>1. start[Len(start)] \in Nat
    BY DEF TypeOK, Layout
  <2> QED BY <1>3, <2>1 DEF Layout, Aligned, TypeOK
<1>5. k \in DOMAIN frames /\ k \in 1 .. Len(start)
  BY <1>4 DEF TypeOK, Layout
<1>6. \A j \in DOMAIN frames : start[j] = rpos => j = k
  BY <1>5 DEF Layout, Aligned, TypeOK
<1>7. h.op \in {f.op : f \in Here}
  BY <1>2 DEF HeadsRead, Field
<1> QED BY <1>1, <1>3, <1>5, <1>6, <1>7 DEF Here, Aligned
-----------------------------------------------------------------------------
LEMMA InitHolds == Init => IInv
<1> SUFFICES ASSUME Init PROVE IInv
  OBVIOUS
<1>1. TypeOK
  <2>1. /\ frames \in Seq(FrameSet) /\ start \in Seq(Nat) /\ taken \in Seq(Heads)
    BY DEF Init
  <2>2. NewBuffer(BufferSize) \in Buffer /\ Data(NewBuffer(BufferSize)) = 0
    BY FrameInputAssumption DEF NewBuffer, Buffer, Data
  <2>3. writing \in BOOLEAN
    BY DEF Init
  <2> QED BY <2>1, <2>2, <2>3 DEF Init, TypeOK, NewBuffer
<1>2. Layout /\ Aligned
  BY DEF Init, Layout, Aligned, NewBuffer, Data, rpos
<1> QED BY <1>1, <1>2, FrameInputAssumption
        DEF Init, IInv, InputFits, PiecesCount, AppendsFit, Fits, NewBuffer,
            CauseLast, DroppedForCause

\* A frame sent goes behind the others.
LEMMA SendLayout ==
    ASSUME IInv, NEW h \in FrameSet, SendFrame(h)
    PROVE  IInv' /\ FQ!Send(h)
<1> USE DEF SendFrame, fragVars
<1> DEFINE end == start[Len(start)]
<1>1. /\ frames \in Seq(FrameSet) /\ start \in Seq(Nat) /\ Len(start) = Len(frames) + 1
      /\ end \in Nat /\ arrived \in Nat
  BY DEF IInv, TypeOK, Layout
<1>2. Octets(h) \in Nat /\ Octets(h) >= 2
  <2>1. h \in Heads
    BY FrameInputAssumption
  <2> QED BY <2>1, OctetsNat DEF Heads
<1>3. frames' \in Seq(FrameSet) /\ start' \in Seq(Nat)
  BY <1>1, <1>2
<1>4. /\ Len(frames') = Len(frames) + 1 /\ Len(start') = Len(start) + 1
      /\ \A k \in 1 .. Len(frames) : frames'[k] = frames[k]
      /\ \A k \in 1 .. Len(start) : start'[k] = start[k]
      /\ frames'[Len(frames) + 1] = h /\ start'[Len(start) + 1] = end + Octets(h)
  BY <1>1
<1>5. \A i \in 1 .. Len(start) : start[i] \in Nat /\ start[i] <= end
  <2>1. SUFFICES ASSUME NEW i \in 1 .. Len(start)
                 PROVE  start[i] \in Nat /\ start[i] <= end
    OBVIOUS
  <2>2. start[i] \in Nat
    BY <1>1
  <2>3. i < Len(start) => start[i] < end
    BY <1>1 DEF IInv, Layout
  <2> QED BY <1>1, <2>2, <2>3
<1>6. Layout'
  <2>1. \A k \in 1 .. Len(frames') : start'[k + 1] = start'[k] + Octets(frames'[k])
    BY <1>1, <1>4 DEF IInv, Layout
  <2>2. \A i, j \in 1 .. Len(start') : i < j => start'[i] < start'[j]
    BY <1>1, <1>2, <1>4, <1>5 DEF IInv, Layout
  <2>3. arrived' <= start'[Len(start')]
    BY <1>1, <1>2, <1>4 DEF IInv, Layout
  <2> QED BY <1>1, <1>4, <2>1, <2>2, <2>3 DEF IInv, Layout
<1>7. TypeOK'
  BY <1>3 DEF IInv, TypeOK
<1>8. Aligned'
  <2>1. Len(taken) + 1 \in 1 .. Len(start)
    BY <1>1 DEF IInv, Aligned, TypeOK
  <2> QED BY <1>1, <1>4, <2>1 DEF IInv, Aligned, TypeOK, rpos
<1>9. (InputFits /\ PiecesCount /\ AppendsFit)'
  BY DEF IInv, InputFits, PiecesCount, AppendsFit
<1>10. (CauseLast /\ DroppedForCause)'
  BY DEF IInv, CauseLast, DroppedForCause
<1> QED BY <1>6, <1>7, <1>8, <1>9, <1>10 DEF IInv, FQ!Send

\* Octets that come are no more than were sent.
LEMMA ArriveStep ==
    ASSUME IInv, Arrive
    PROVE  IInv' /\ FQ!Arrive
<1> USE DEF Arrive, fragVars
<1>1. start[Len(start)] \in Nat /\ arrived \in Nat
  BY DEF IInv, TypeOK, Layout
<1>2. arrived' \in Nat /\ arrived < arrived' /\ arrived' <= start[Len(start)]
  BY <1>1
<1>3. TypeOK'
  BY <1>2 DEF IInv, TypeOK
<1>4. Layout'
  BY <1>2 DEF IInv, Layout
<1>5. Aligned'
  <2>1. Data(buffer_in) \in Nat
    BY DEF IInv, TypeOK, Buffer, Data
  <2> QED BY <1>1, <1>2, <2>1 DEF IInv, Aligned, rpos
<1>6. (InputFits /\ PiecesCount /\ AppendsFit /\ CauseLast /\ DroppedForCause)'
  BY DEF IInv, InputFits, PiecesCount, AppendsFit, CauseLast, DroppedForCause
<1> QED BY <1>3, <1>4, <1>5, <1>6 DEF IInv, FQ!Arrive

\* Steps that leave all but pc alone, and do not leave the client dropped.
LEMMA SameButPc ==
    ASSUME IInv, UNCHANGED <<peerVars, buffer_in, fragVars, taken, cause>>,
           pc' \in {"wait", "read", "parse", "compile", "gone"}, pc = "gone" => pc' = "gone",
           writing' \in BOOLEAN
    PROVE  IInv' /\ UNCHANGED FQ!vars
<1> USE DEF peerVars, fragVars
<1>1. TypeOK' /\ Layout' /\ Aligned'
  BY DEF IInv, TypeOK, Layout, Aligned, rpos
<1>2. (InputFits /\ PiecesCount /\ AppendsFit /\ CauseLast /\ DroppedForCause)'
  BY DEF IInv, InputFits, PiecesCount, AppendsFit, CauseLast, DroppedForCause
<1> QED BY <1>1, <1>2 DEF IInv, FQ!vars

\* A chunk is smaller than the buffer was at first, and an append never overruns
\* a buffer that has data.
LEMMA ReadFits ==
    ASSUME IInv, ReadChunk
    PROVE  IInv' /\ UNCHANGED FQ!vars
<1> USE DEF ReadChunk, peerVars, fragVars
<1> DEFINE n == IF Unread < Chunk THEN Unread ELSE Chunk
<1>1. buffer_in \in Buffer /\ Data(buffer_in) \in Nat /\ arrived \in Nat
  BY DEF IInv, TypeOK, Buffer, Data
<1>2. n \in Nat /\ n > 0 /\ n <= Chunk /\ n <= arrived - Data(buffer_in)
  BY <1>1, FrameInputAssumption DEF Unread
<1>3. buffer_in' = AppendString(buffer_in, n)
  OBVIOUS
<1> HIDE DEF n
<1>4. /\ buffer_in' \in Buffer /\ buffer_in'.rpos = buffer_in.rpos
      /\ Data(buffer_in') = Data(buffer_in) + n
      /\ buffer_in.size <= buffer_in'.size
      /\ buffer_in'.used = (IF buffer_in.used = 0 THEN 1 ELSE buffer_in.used) + n
      /\ ~RoomFor(buffer_in, n) => buffer_in.used + n < buffer_in'.size
      /\ RoomFor(buffer_in, n) => buffer_in'.size = buffer_in.size
  <2> DEFINE b == AppendString(buffer_in, n)
  <2>1. /\ b \in Buffer /\ b.rpos = buffer_in.rpos
        /\ Data(b) = Data(buffer_in) + n
        /\ buffer_in.size <= b.size
        /\ b.used = (IF buffer_in.used = 0 THEN 1 ELSE buffer_in.used) + n
        /\ ~RoomFor(buffer_in, n) => buffer_in.used + n < b.size
        /\ RoomFor(buffer_in, n) => b.size = buffer_in.size
    BY <1>1, <1>2, AppendType
  <2> QED BY <1>3, <2>1
<1>5. TypeOK'
  BY <1>1, <1>2, <1>4 DEF IInv, TypeOK, Buffer
<1>6. Layout' /\ Aligned'
  BY <1>1, <1>2, <1>4 DEF IInv, Layout, Aligned, rpos
<1>7. buffer_in.used \in Nat /\ buffer_in.size \in Nat /\ buffer_in'.size \in Nat
  BY <1>1, <1>4 DEF Buffer
<1>8. InputFits'
  <2>1. BufferSize <= buffer_in'.size
    BY <1>4, <1>7, FrameInputAssumption DEF IInv, InputFits
  <2>2. CASE buffer_in.used = 0
    BY <1>2, <1>4, <1>7, <2>1, <2>2, FrameInputAssumption DEF InputFits, Fits
  <2>3. CASE buffer_in.used # 0
    BY <1>2, <1>4, <1>7, <2>1, <2>3 DEF InputFits, Fits, RoomFor
  <2> QED BY <2>2, <2>3
<1>9. (PiecesCount /\ AppendsFit)'
  BY <1>8 DEF IInv, PiecesCount, AppendsFit, InputFits
<1>10. (CauseLast /\ DroppedForCause)'
  BY DEF IInv, CauseLast, DroppedForCause
<1> QED BY <1>5, <1>6, <1>8, <1>9, <1>10 DEF IInv, FQ!vars
-----------------------------------------------------------------------------
\* A frame done: the read position moves to the next one.
LEMMA ParsedStep ==
    ASSUME IInv, NEW h \in HeadsRead, Parsed(h), UNCHANGED peerVars,
           pc' \in {"wait", "parse", "compile", "gone"}, writing' \in BOOLEAN,
           data_state' \in {"FRAME", "FRAGMENT"},
           cause' \in {"none", "refused", "close"}, cause' # "none" => pc' = "gone",
           fragmented_data' \in Buffer, pieces' \in Nat,
           PiecesCount',
           \/ Fits(fragmented_data')
           \/ pieces' = 1 /\ fragmented_data'.used = fragmented_data'.size + 1
    PROVE  IInv' /\ FQ!Take
<1> USE DEF Parsed, peerVars
<1>1. /\ Len(taken) < Len(frames)
      /\ h = frames[Len(taken) + 1]
      /\ start[Len(taken) + 2] = rpos + Octets(h)
      /\ start[Len(taken) + 2] <= Data(buffer_in)
  BY DoneExact DEF IInv
<1>2. h \in Heads
  BY ReadsHeads DEF IInv
<1>3. Octets(h) \in Nat
  BY <1>2, OctetsNat
<1>4. /\ buffer_in' = [buffer_in EXCEPT !.rpos = rpos + Octets(h)]
      /\ buffer_in \in Buffer /\ rpos \in Nat
  BY DEF IInv, TypeOK, Buffer, rpos
<1>5. /\ buffer_in' \in Buffer /\ buffer_in'.rpos = rpos + Octets(h)
      /\ buffer_in'.used = buffer_in.used /\ buffer_in'.size = buffer_in.size
  BY <1>3, <1>4 DEF Buffer
<1>6. Data(buffer_in)' = Data(buffer_in) /\ Data(buffer_in) \in Nat
  BY <1>4, <1>5 DEF Data, Buffer
<1>7. taken' \in Seq(Heads) /\ Len(taken') = Len(taken) + 1
  BY <1>2 DEF IInv, TypeOK
<1>8. TypeOK'
  BY <1>1, <1>5, <1>6, <1>7 DEF IInv, TypeOK
<1>9. Layout'
  BY DEF IInv, Layout
<1>10. Aligned'
  <2>1. Len(taken) \in Nat /\ Len(frames) \in Nat
    BY DEF IInv, TypeOK
  <2> QED BY <1>1, <1>5, <1>6, <1>7, <2>1 DEF IInv, Aligned, rpos
<1>11. InputFits'
  BY <1>5 DEF IInv, InputFits, Fits
<1>12. AppendsFit'
  BY <1>11 DEF AppendsFit, InputFits
<1>13. (CauseLast /\ DroppedForCause)'
  BY DEF CauseLast, DroppedForCause
<1>14. FQ!Take
  <2>1. Data(buffer_in) <= arrived /\ arrived \in Nat /\ start[Len(taken) + 2] \in Nat
    BY <1>1, <1>3, <1>4 DEF IInv, Aligned, TypeOK
  <2> QED BY <1>1, <1>6, <2>1 DEF FQ!Take
<1> QED BY <1>8, <1>9, <1>10, <1>11, <1>12, <1>13, <1>14 DEF IInv

\* An append to fragmented_data overruns it only if it is empty and just filled.
LEMMA FragmentFits ==
    ASSUME IInv, NEW h, h.len \in Nat, AddFragment(h)
    PROVE  /\ fragmented_data' \in Buffer /\ pieces' \in Nat
           /\ PiecesCount'
           /\ \/ Fits(fragmented_data')
              \/ pieces' = 1 /\ fragmented_data'.used = fragmented_data'.size + 1
<1> DEFINE n == h.len
           b == AppendString(fragmented_data, n)
<1>1. fragmented_data \in Buffer /\ pieces \in Nat
  BY DEF IInv, TypeOK
<1>2. /\ fragmented_data.used \in Nat /\ fragmented_data.size \in Nat
      /\ (pieces = 0 <=> fragmented_data.used = 0)
  BY <1>1 DEF IInv, PiecesCount, Buffer
<1>3. /\ b \in Buffer
      /\ n > 0 => b.used = (IF fragmented_data.used = 0 THEN 1 ELSE fragmented_data.used) + n
      /\ n > 0 /\ ~RoomFor(fragmented_data, n) => fragmented_data.used + n < b.size
      /\ RoomFor(fragmented_data, n) => b.size = fragmented_data.size
  BY <1>1, AppendType
<1>4. CASE n = 0
  <2>1. fragmented_data' = fragmented_data /\ pieces' = pieces
    BY <1>1, <1>4 DEF AddFragment, AppendString
  <2> QED BY <1>1, <2>1 DEF IInv, PiecesCount, AppendsFit
<1>5. CASE n > 0
  <2>1. b.used \in Nat /\ b.size \in Nat
    BY <1>3 DEF Buffer
  <2>2. fragmented_data' = b /\ pieces' = pieces + 1
    BY <1>5 DEF AddFragment
  <2> HIDE DEF b
  <2>3. PiecesCount' /\ pieces' \in Nat
    BY <1>1, <1>2, <1>3, <1>5, <2>1, <2>2 DEF PiecesCount
  <2>4. \/ b.used <= b.size
        \/ pieces' = 1 /\ b.used = b.size + 1
    BY <1>1, <1>2, <1>3, <1>5, <2>1, <2>2 DEF RoomFor
  <2> QED BY <1>3, <2>2, <2>3, <2>4 DEF Fits
<1> QED BY <1>4, <1>5

\* hk_client_compile_fragments leaves an emptied buffer.
LEMMA CompileStep ==
    ASSUME IInv, CompileFragments
    PROVE  IInv' /\ UNCHANGED FQ!vars
<1> USE DEF CompileFragments, peerVars
<1>1. fragmented_data' \in Buffer /\ fragmented_data'.used = 0
  BY DEF IInv, TypeOK, Cleared, Buffer
<1>2. TypeOK' /\ Layout' /\ Aligned'
  BY <1>1 DEF IInv, TypeOK, Layout, Aligned, rpos
<1>3. (InputFits /\ PiecesCount /\ AppendsFit)'
  BY <1>1 DEF IInv, InputFits, PiecesCount, AppendsFit, Fits, Buffer
<1>4. (CauseLast /\ DroppedForCause)'
  BY DEF IInv, CauseLast, DroppedForCause
<1> QED BY <1>2, <1>3, <1>4 DEF IInv, FQ!vars

\* The parser's verdict on a frame that is not done.
LEMMA InvalidStep ==
    ASSUME IInv, NEW h \in HeadsRead, Invalid(h), pc = "parse"
    PROVE  IInv' /\ UNCHANGED FQ!vars
<1> USE DEF Invalid, Drop, peerVars, fragVars
<1>1. cause' \in {"ping", "opcode"}
  OBVIOUS
<1>2. TypeOK' /\ Layout' /\ Aligned'
  BY <1>1 DEF IInv, TypeOK, Layout, Aligned, rpos
<1>3. (InputFits /\ PiecesCount /\ AppendsFit /\ CauseLast)'
  BY DEF IInv, InputFits, PiecesCount, AppendsFit, CauseLast
<1>4. DroppedForCause'
  <2>1. CASE Result(h) = "INVALID_OPCODE"
    <3>1. cause' = "opcode"
      BY <2>1
    <3> QED BY <2>1, <3>1, OpcodeCome DEF IInv, DroppedForCause
  <2>2. CASE Result(h) = "CRITICAL"
    <3>1. cause' = "ping"
      BY <2>2
    <3>2. /\ Len(taken) + 1 \in DOMAIN frames
          /\ frames[Len(taken) + 1].op = "PING"
          /\ start[Len(taken) + 2] <= arrived
      BY <2>2, PingCome DEF IInv
    <3> QED BY <3>1, <3>2 DEF DroppedForCause, IInv, TypeOK
  <2> QED BY <2>1, <2>2
<1> QED BY <1>2, <1>3, <1>4 DEF IInv, FQ!vars

LEMMA OnDataStep ==
    ASSUME IInv, OnData
    PROVE  IInv' /\ [FQ!Next]_(FQ!vars)
<1> USE DEF fragVars, peerVars
<1>1. PICK h \in HeadsRead :
        \/ Incomplete(h) \/ Invalid(h) \/ Unmasked(h) \/ Refusal(h) \/ Close(h)
        \/ Fragment(h) \/ LastFragment(h) \/ Other(h)
  BY DEF OnData
<1>2. pc = "parse" /\ cause = "none"
  BY DEF OnData, IInv, CauseLast
<1>3. /\ fragmented_data \in Buffer /\ pieces \in Nat /\ PiecesCount
      /\ \/ Fits(fragmented_data)
         \/ pieces = 1 /\ fragmented_data.used = fragmented_data.size + 1
      /\ data_state \in {"FRAME", "FRAGMENT"}
  BY DEF IInv, TypeOK, AppendsFit
<1>4. h.len \in Nat
  BY ReadsHeads, FrameInputAssumption DEF IInv, Heads
<1>5. CASE Incomplete(h)
  BY <1>2, <1>5, SameButPc DEF Incomplete, IInv, TypeOK
<1>6. CASE Invalid(h)
  BY <1>2, <1>6, InvalidStep
<1>7. CASE Unmasked(h) \/ Refusal(h) \/ Close(h) \/ Other(h)
  <2>1. Parsed(h) /\ UNCHANGED <<peerVars, fragmented_data, data_state, pieces>>
    BY <1>7 DEF Unmasked, Refusal, Close, Other, Drop
  <2>2. /\ pc' \in {"wait", "parse", "gone"} /\ cause' \in {"none", "refused", "close"}
        /\ cause' # "none" => pc' = "gone"
        /\ writing' \in BOOLEAN
    BY <1>2, <1>7 DEF Unmasked, Refusal, Close, Other, Drop, IInv, TypeOK
  <2>3. PiecesCount'
    BY <1>3, <2>1 DEF PiecesCount
  <2> QED BY <1>3, <2>1, <2>2, <2>3, ParsedStep DEF FQ!Next
<1>8. CASE Fragment(h) \/ LastFragment(h)
  <2>1. /\ fragmented_data' \in Buffer /\ pieces' \in Nat /\ PiecesCount'
        /\ \/ Fits(fragmented_data')
           \/ pieces' = 1 /\ fragmented_data'.used = fragmented_data'.size + 1
    BY <1>4, <1>8, FragmentFits DEF Fragment, LastFragment
  <2>2. /\ Parsed(h) /\ UNCHANGED peerVars /\ UNCHANGED <<cause, writing>>
        /\ pc' \in {"parse", "compile"} /\ data_state' \in {"FRAME", "FRAGMENT"}
    BY <1>2, <1>3, <1>8 DEF Fragment, LastFragment
  <2>3. writing' \in BOOLEAN
    BY <2>2 DEF IInv, TypeOK
  <2> QED BY <1>2, <2>1, <2>2, <2>3, ParsedStep DEF FQ!Next
<1> QED BY <1>1, <1>5, <1>6, <1>7, <1>8

\* IInv is inductive, and each step maps to a step of FrameQueue or to none.
LEMMA InvStep == IInv /\ [Next]_vars => IInv' /\ [FQ!Next]_(FQ!vars)
<1> SUFFICES ASSUME IInv, [Next]_vars PROVE IInv' /\ [FQ!Next]_(FQ!vars)
  OBVIOUS
<1>1. CASE \E h \in FrameSet : SendFrame(h)
  BY <1>1, SendLayout DEF FQ!Next
<1>2. CASE Arrive
  BY <1>2, ArriveStep DEF FQ!Next
<1>3. CASE EpollWait \/ WouldBlock \/ Elsewhere \/ Written
  BY <1>3, SameButPc DEF EpollWait, WouldBlock, Elsewhere, Written, IInv, TypeOK
<1>4. CASE ReadChunk
  BY <1>4, ReadFits
<1>5. CASE OnData
  BY <1>5, OnDataStep
<1>6. CASE Gone \/ UNCHANGED vars
  BY <1>6, SameButPc DEF Gone, vars, IInv, TypeOK
<1>7. CASE CompileFragments
  BY <1>7, CompileStep
<1> QED BY <1>1, <1>2, <1>3, <1>4, <1>5, <1>6, <1>7 DEF Next, Reader

\* IInv holds of every reachable state.
LEMMA Invariant == Spec => []IInv
<1> QED BY InitHolds, InvStep, PTL DEF Spec

(***************************************************************************)
(* Type correctness: in particular buffer_in->rpos never leaves the data.  *)
(***************************************************************************)
THEOREM FrameInputTypeOK == Spec => []TypeOK
BY Invariant, PTL DEF IInv

(***************************************************************************)
(* hk_buffer_append_string writes within the capacity, except for the zero *)
(* behind the first octets of a message when they exactly fill             *)
(* fragmented_data, whichever of its fragments brings them: the overrun    *)
(* is of that one octet, and of no later append.                           *)
(***************************************************************************)
THEOREM FrameInputAppendsFit == Spec => []AppendsFit
BY Invariant, PTL DEF IInv

(***************************************************************************)
(* hk_reader_on_data drops a client for an opcode or a ping only when the  *)
(* peer has sent it.                                                       *)
(***************************************************************************)
THEOREM FrameInputDroppedForCause == Spec => []DroppedForCause
BY Invariant, PTL DEF IInv

(***************************************************************************)
(* hk_reader_loop and hk_ws_frame_parse_buffer implement FrameQueue: each  *)
(* frame is taken once, in order, and only when all of it has come.        *)
(***************************************************************************)
THEOREM FrameInputImplementsQueue == Spec => TakesFramesInOrder
<1>1. Init => FQ!Init
  BY DEF Init, FQ!Init
<1>2. Spec => [][FQ!Next]_(FQ!vars)
  BY Invariant, InvStep, PTL DEF Spec
<1> QED BY <1>1, <1>2, PTL DEF Spec, TakesFramesInOrder, FQ!Spec
-----------------------------------------------------------------------------
(***************************************************************************)
(* The length of the payload joined.                                       *)
(***************************************************************************)
\* What a head adds to the octets n of its message.
Counted(n, h) ==
    IF ~h.masked \/ h.op \notin DataOps THEN n
    ELSE IF h.op = "CONT" THEN n + h.len ELSE h.len

SumOf(f, heads, m) ==
    f = [k \in 0 .. m |-> IF k = 0 THEN 0 ELSE Counted(f[k - 1], heads[k])]

\* OctetsSoFar is the function that its equation describes.
LEMMA OctetsSoFarIs ==
    ASSUME NEW heads, Len(heads) \in Nat
    PROVE  SumOf(OctetsSoFar(heads), heads, Len(heads))
<1> DEFINE S == {m \in Nat : \E f : SumOf(f, heads, m)}
<1>1. 0 \in S
  <2>1. SumOf([k \in 0 .. 0 |-> 0], heads, 0)
    BY DEF SumOf
  <2> QED BY <2>1
<1>2. ASSUME NEW m \in S PROVE m + 1 \in S
  <2>1. PICK f : SumOf(f, heads, m)
    OBVIOUS
  <2> DEFINE g == [k \in 0 .. m + 1 |-> IF k = m + 1 THEN Counted(f[m], heads[m + 1]) ELSE f[k]]
  <2>2. ASSUME NEW k \in 0 .. m + 1
        PROVE  g[k] = IF k = 0 THEN 0 ELSE Counted(g[k - 1], heads[k])
    BY <2>1 DEF SumOf
  <2>3. SumOf(g, heads, m + 1)
    <3> DEFINE h == [k \in 0 .. m + 1 |-> IF k = 0 THEN 0 ELSE Counted(g[k - 1], heads[k])]
    <3>1. \A k \in 0 .. m + 1 : g[k] = h[k]
      BY <2>2
    <3>2. g = h
      BY <3>1
    <3> HIDE DEF g
    <3> QED BY <3>2 DEF SumOf
  <2> QED BY <2>3
<1>3. S = Nat
  <2> HIDE DEF S
  <2>1. S \subseteq Nat
    BY DEF S
  <2> QED BY <1>1, <1>2, <2>1, AllNat
<1>4. \E f : SumOf(f, heads, Len(heads))
  BY <1>3
<1>5. OctetsSoFar(heads) = CHOOSE f : SumOf(f, heads, Len(heads))
  BY DEF OctetsSoFar, SumOf, Counted
<1> QED BY <1>4, <1>5, Zenon

\* One more head.
LEMMA OctetsAppend ==
    ASSUME NEW heads \in Seq(Heads), NEW h \in Heads
    PROVE  OctetsSoFar(Append(heads, h))[Len(heads) + 1]
             = Counted(OctetsSoFar(heads)[Len(heads)], h)
<1> DEFINE more == Append(heads, h)
           f == OctetsSoFar(heads)
           g == OctetsSoFar(more)
           S == {k \in Nat : k <= Len(heads) => f[k] = g[k]}
<1>1. /\ Len(heads) \in Nat /\ Len(more) = Len(heads) + 1
      /\ \A k \in 1 .. Len(heads) : more[k] = heads[k]
      /\ more[Len(heads) + 1] = h
  OBVIOUS
<1>2. \A k \in 0 .. Len(heads) : f[k] = IF k = 0 THEN 0 ELSE Counted(f[k - 1], heads[k])
  BY <1>1, OctetsSoFarIs DEF SumOf
<1>3. \A k \in 0 .. Len(heads) + 1 : g[k] = IF k = 0 THEN 0 ELSE Counted(g[k - 1], more[k])
  <2>1. SumOf(g, more, Len(heads) + 1)
    <3> HIDE DEF more
    <3>1. Len(more) \in Nat
      BY <1>1
    <3> QED BY <1>1, <3>1, OctetsSoFarIs
  <2> QED BY <2>1 DEF SumOf
<1> HIDE DEF f, g, more
<1>4. 0 \in S
  BY <1>1, <1>2, <1>3
<1>5. ASSUME NEW k \in S PROVE k + 1 \in S
  <2>1. ASSUME k + 1 <= Len(heads) PROVE f[k + 1] = g[k + 1]
    <3>1. f[k] = g[k] /\ k + 1 \in 0 .. Len(heads) /\ k + 1 # 0 /\ (k + 1) - 1 = k
      BY <1>1, <2>1
    <3>2. f[k + 1] = Counted(f[k], heads[k + 1])
      BY <1>2, <3>1
    <3>3. g[k + 1] = Counted(g[k], more[k + 1])
      BY <1>1, <1>3, <3>1
    <3> QED BY <1>1, <3>1, <3>2, <3>3
  <2> QED BY <2>1
<1>6. S = Nat
  <2> HIDE DEF S
  <2>1. S \subseteq Nat
    BY DEF S
  <2> QED BY <1>4, <1>5, <2>1, AllNat
<1>7. f[Len(heads)] = g[Len(heads)]
  BY <1>1, <1>6
<1>8. g[Len(heads) + 1] = Counted(g[Len(heads)], more[Len(heads) + 1])
  <2>1. Len(heads) + 1 \in 0 .. Len(heads) + 1 /\ Len(heads) + 1 # 0 /\ (Len(heads) + 1) - 1 = Len(heads)
    BY <1>1
  <2> QED BY <1>3, <2>1
<1> QED BY <1>1, <1>7, <1>8 DEF f, g, more

\* What fragmented_data holds, inside a message and outside.
Joined ==
    pc # "gone" =>
        Data(fragmented_data) =
            IF data_state = "FRAGMENT" THEN OctetsSoFar(taken)[Len(taken)] ELSE 0

LEMMA JoinedStep ==
    ASSUME IInv, Joined, [Next]_vars
    PROVE  Joined'
<1> SUFFICES ASSUME pc # "gone", pc' # "gone" PROVE Joined'
  <2>1. pc = "gone" => pc' = "gone"
    BY DEF Next, SendFrame, Arrive, Reader, EpollWait, ReadChunk, WouldBlock, OnData,
           CompileFragments, Elsewhere, Written, Gone, vars
  <2> QED BY <2>1 DEF Joined
<1>1. CASE UNCHANGED <<fragVars, taken>>
  BY <1>1 DEF Joined, fragVars
<1>2. CASE CompileFragments
  BY <1>2 DEF CompileFragments, Joined, Cleared, Data, IInv, TypeOK, Buffer
<1>3. CASE ~ UNCHANGED <<fragVars, taken>> /\ ~CompileFragments
  <2>1. PICK h \in HeadsRead : pc = "parse" /\ (Unmasked(h) \/ Fragment(h) \/ LastFragment(h) \/ Other(h))
    <3>1. OnData
      BY <1>3 DEF Next, SendFrame, Arrive, Reader, EpollWait, ReadChunk, WouldBlock, Elsewhere,
                  Written, Gone, vars, fragVars
    <3> QED BY <1>3, <3>1 DEF OnData, Incomplete, Invalid, Refusal, Close, Drop, fragVars
  <2>2. h \in Heads /\ taken \in Seq(Heads) /\ h.len \in Nat /\ h.op \in Opcodes /\ h.masked \in BOOLEAN
    BY ReadsHeads, FrameInputAssumption DEF IInv, TypeOK, Heads
  <2>3. taken' = Append(taken, h) /\ Len(taken') = Len(taken) + 1
    BY <2>1, <2>2 DEF Unmasked, Fragment, LastFragment, Other, Parsed
  <2>4. OctetsSoFar(taken)'[Len(taken')] = Counted(OctetsSoFar(taken)[Len(taken)], h)
    BY <2>2, <2>3, OctetsAppend
  <2>5. data_state \in {"FRAME", "FRAGMENT"} /\ fragmented_data \in Buffer
    BY DEF IInv, TypeOK
  <2>6. CASE Unmasked(h)
    BY <2>4, <2>6 DEF Joined, Unmasked, Counted, fragVars
  <2>7. CASE Other(h)
    <3>1. data_state = "FRAGMENT" => h.op \notin DataOps
      BY <2>7 DEF Other, Refused, DataOps
    <3> QED BY <2>4, <2>7, <3>1 DEF Joined, Other, Counted, fragVars
  <2>8. CASE Fragment(h) \/ LastFragment(h)
    <3>1. Data(fragmented_data') = Data(fragmented_data) + h.len
      BY <2>2, <2>5, <2>8, AppendType DEF Fragment, LastFragment, AddFragment
    <3>2. /\ h.masked /\ ~Refused(h, data_state) /\ h.op # "OTHER"
          /\ ~h.fin \/ h.op = "CONT"
      BY <2>8 DEF Fragment, LastFragment, Parsed, Result
    <3>3. h.op \in DataOps
      BY <2>2, <3>2 DEF Refused, Opcodes, DataOps
    <3>4. IF data_state = "FRAGMENT" THEN h.op = "CONT" ELSE h.op # "CONT"
      BY <2>5, <3>2, <3>3 DEF Refused, DataOps
    <3>5. data_state' = "FRAGMENT"
      BY <2>5, <2>8, <3>4 DEF Fragment, LastFragment
    <3> QED BY <2>2, <2>4, <2>5, <3>1, <3>2, <3>3, <3>4, <3>5 DEF Joined, Counted
  <2> QED BY <2>1, <2>6, <2>7, <2>8
<1> QED BY <1>1, <1>2, <1>3

(***************************************************************************)
(* hk_client_add_fragment joins all of a message's fragments, and nothing  *)
(* of another one: hk_client_compile_fragments has cleared the buffer.     *)
(***************************************************************************)
THEOREM FrameInputJoinedLength == Spec => []JoinedLength
<1>1. Init => Joined
  BY DEF Init, Joined, NewBuffer, Data
<1>2. IInv /\ Joined /\ [Next]_vars => Joined'
  BY JoinedStep
<1>3. Joined => JoinedLength
  BY DEF Joined, JoinedLength
<1> QED BY <1>1, <1>2, <1>3, Invariant, PTL DEF Spec
===============================================================================
