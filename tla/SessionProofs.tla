---------------------------- MODULE SessionProofs ----------------------------
(***************************************************************************)
(* Proofs about Session, for every FrameSet, RequestSet and MaxFrames.     *)
(***************************************************************************)
EXTENDS SessionSafety, FiniteSetTheorems, TLAPS

(***************************************************************************)
(* The strengthening.  Positions: the reader consumes no more than it has  *)
(* read, and reads no more than the peer has sent.                         *)
(***************************************************************************)
Positions ==
    /\ sent <= HandshakePieces + 2 * Len(frames)
    /\ read <= sent
    /\ data_state = "HANDSHAKE" => rpos = 0
    /\ data_state # "HANDSHAKE" => HandshakePieces + 2 * rpos <= read

\* The reader works on no connection it has dropped.
ServedAlive == pc # "gone" => Alive

\* fragmented_frame is set exactly inside a fragmented message.
FragmentMode ==
    Alive => IF data_state = "FRAGMENT" THEN frag.op # "NONE" ELSE frag = NoFragment

Basics == TypeOK /\ Positions /\ ServedAlive /\ FragmentMode
-----------------------------------------------------------------------------
(***************************************************************************)
(* The parser: a frame reported DONE is wholly in buffer_in, its opcode is *)
(* known, and if it carries data its UTF-8 state is a proper one.          *)
(***************************************************************************)
LEMMA DoneFrame ==
    ASSUME NEW f \in Frame, NEW whole \in BOOLEAN, NEW carried \in Utf8States,
           ParseResult(f, whole, carried) = "DONE"
    PROVE  /\ whole
           /\ f.op # "OTHER"
           /\ f.op \in DataOps => Utf8End(f, carried) \in Utf8States
<1>1. whole /\ f.op # "OTHER"
  BY DEF ParseResult, Frame, Opcodes
<1>2. ASSUME f.op \in DataOps PROVE Utf8End(f, carried) # "ERR"
  BY <1>1, <1>2 DEF ParseResult, Utf8Rejected, DataOps
<1>3. Utf8Start(f, carried) \in Utf8States
  BY DEF Utf8Start, Utf8States
<1>4. Utf8End(f, carried) \in Utf8States \cup {"ERR"}
  BY <1>3 DEF Utf8End, Utf8After, Utf8States
<1> QED BY <1>1, <1>2, <1>4

(***************************************************************************)
(* In hk_reader_on_data a frame found DONE is one the peer has sent whole. *)
(***************************************************************************)
LEMMA CurrentFrame ==
    ASSUME Basics, InFrames, Result = "DONE"
    PROVE  /\ Cur \in 1 .. Len(frames)
           /\ CurFrame \in Frame
           /\ CurFrame.op # "OTHER"
           /\ HandshakePieces + 2 * Cur <= read
           /\ Carried \in Utf8States
           /\ CurFrame.op \in DataOps => Utf8End(CurFrame, Carried) \in Utf8States
<1>1. Begun(Cur) /\ ParseResult(CurFrame, Whole(Cur), Carried) = "DONE"
  BY DEF Result
<1>2. Cur \in 1 .. Len(frames)
  BY <1>1 DEF Begun, Cur, Basics, TypeOK, Positions, HandshakePieces
<1>3. CurFrame \in Frame
  BY <1>2, SessionAssumption DEF CurFrame, Basics, TypeOK
<1>4. Carried \in Utf8States
  BY DEF Carried, Basics, TypeOK, Utf8States
<1>5. Whole(Cur) \in BOOLEAN
  BY DEF Whole
<1>6. Whole(Cur) /\ CurFrame.op # "OTHER"
      /\ (CurFrame.op \in DataOps => Utf8End(CurFrame, Carried) \in Utf8States)
  BY <1>1, <1>3, <1>4, <1>5, DoneFrame
<1>7. HandshakePieces + 2 * Cur <= read
  BY <1>6 DEF Whole, Cur, Basics, TypeOK, HandshakePieces
<1> QED BY <1>2, <1>3, <1>4, <1>6, <1>7
-----------------------------------------------------------------------------
(***************************************************************************)
(* Type correctness, with the positions it depends on.                     *)
(***************************************************************************)
\* The records that stand for no fragment and no event are of their types.
LEMMA Constants ==
    /\ NoFragment \in [op : {"NONE", "TEXT", "BIN"}, utf8 : Utf8States]
    /\ NoEvent \in [in : BOOLEAN, hup : BOOLEAN]
BY DEF NoFragment, NoEvent, Utf8States

\* A connection just accepted (hk_client_init) is type correct.
LEMMA InitBasics == Init => Basics
<1> SUFFICES ASSUME Init PROVE Basics
  OBVIOUS
<1>1. TypeOK
  <2>1. frag \in [op : {"NONE", "TEXT", "BIN"}, utf8 : Utf8States]
    BY Constants DEF Init
  <2>2. event \in [in : BOOLEAN, hup : BOOLEAN]
    BY Constants DEF Init
  <2>3. /\ frames \in Seq(FrameSet) /\ frag_data \in Seq(Nat) /\ ponged \in Seq(Nat)
        /\ relayed \in Seq([op : {"TEXT", "BIN"}, parts : Seq(Nat)])
    BY DEF Init
  <2> QED BY <2>1, <2>2, <2>3 DEF Init, TypeOK
<1>2. Positions /\ ServedAlive /\ FragmentMode
  BY DEF Init, Positions, ServedAlive, FragmentMode, Alive, HandshakePieces
<1> QED BY <1>1, <1>2 DEF Basics

\* Whatever the peer sends, and its shutdown, keep Basics.
LEMMA PeerBasics == Basics /\ Peer => Basics'
<1> SUFFICES ASSUME Basics, Peer PROVE Basics'
  OBVIOUS
<1> USE DEF Basics, TypeOK, Positions, ServedAlive, FragmentMode, Alive, HandshakePieces,
            serverVars, clientVars, fragVars, outVars
<1>1. CASE PeerSendRequest
  BY <1>1 DEF PeerSendRequest
<1>2. ASSUME NEW f \in FrameSet, PeerSendFrame(f) PROVE Basics'
  BY <1>2 DEF PeerSendFrame
<1>3. CASE PeerFinishFrame
  BY <1>3 DEF PeerFinishFrame
<1>4. CASE PeerShutdown
  BY <1>4 DEF PeerShutdown
<1> QED BY <1>1, <1>2, <1>3, <1>4 DEF Peer

\* hk_reader_drop_client, wherever it is called from.
LEMMA DropBasics ==
    ASSUME Basics, Drop, rpos' = rpos \/ (rpos' = Cur /\ InFrames /\ Result = "DONE")
    PROVE  Basics'
<1>1. rpos' \in Nat /\ Positions'
  <2>1. CASE rpos' = rpos
    BY <2>1 DEF Basics, TypeOK, Drop, Positions, peerVars, outVars
  <2>2. CASE rpos' = Cur /\ InFrames /\ Result = "DONE"
    BY <2>2, CurrentFrame DEF Basics, TypeOK, Drop, Positions, InFrames, Cur, peerVars, outVars
  <2> QED BY <2>1, <2>2
<1>2. TypeOK'
  <2>1. frag' \in [op : {"NONE", "TEXT", "BIN"}, utf8 : Utf8States]
    BY Constants DEF Drop
  <2>2. frag_data' \in Seq(Nat)
    BY DEF Drop
  <2> QED BY <1>1, <2>1, <2>2 DEF Basics, TypeOK, Drop, peerVars, outVars
<1>3. ServedAlive' /\ FragmentMode'
  BY DEF Drop, ServedAlive, FragmentMode, Alive
<1> QED BY <1>1, <1>2, <1>3 DEF Basics

\* A fragment taken leaves fragmented_frame with the opcode of a message.
LEMMA FragmentOpcode ==
    ASSUME Basics, Accepted, ~CurFrame.fin \/ CurFrame.op = "CONT"
    PROVE  WithFragment.op \in {"TEXT", "BIN"} /\ CurFrame.op \in DataOps
<1>1. CurFrame \in Frame /\ CurFrame.op # "OTHER"
  BY CurrentFrame DEF Accepted
<1>2. CurFrame.op \in DataOps
  BY <1>1 DEF Accepted, Refused, Frame, Opcodes, DataOps, ControlOps
<1>3. Alive
  BY DEF Accepted, InFrames, Basics, ServedAlive
<1>4. data_state \in {"FRAME", "FRAGMENT"}
  BY DEF Accepted, InFrames, Basics, TypeOK
<1>5. CASE data_state = "FRAME"
  <2>1. frag = NoFragment /\ CurFrame.op # "CONT"
    BY <1>3, <1>5 DEF Basics, FragmentMode, Accepted, Refused
  <2> QED BY <1>2, <2>1 DEF WithFragment, DataOps
<1>6. CASE data_state = "FRAGMENT"
  <2>1. frag.op # "NONE" /\ frag.op \in {"NONE", "TEXT", "BIN"}
    BY <1>3, <1>6 DEF Basics, TypeOK, FragmentMode
  <2>2. frag # NoFragment
    BY <2>1 DEF NoFragment
  <2> QED BY <1>2, <2>1, <2>2 DEF WithFragment
<1> QED BY <1>4, <1>5, <1>6

\* Every step of hk_reader_loop and hk_reader_on_data keeps Basics.
LEMMA ReaderBasics == Basics /\ Reader => Basics'
<1> SUFFICES ASSUME Basics, Reader PROVE Basics'
  OBVIOUS
<1> USE DEF Basics, TypeOK, Positions, ServedAlive, FragmentMode, Alive, HandshakePieces,
            peerVars, clientVars, fragVars, outVars
<1>1. CASE EpollWait
  BY <1>1 DEF EpollWait
<1>2. CASE HangUp
  BY <1>2, DropBasics DEF HangUp
<1>3. CASE ReadSocket
  BY <1>3 DEF ReadSocket
<1>4. CASE HandshakeIncomplete
  BY <1>4 DEF HandshakeIncomplete, InHandshake
<1>5. CASE HandshakeRejected
  BY <1>5, DropBasics DEF HandshakeRejected
<1>6. CASE HandshakeAccepted
  BY <1>6 DEF HandshakeAccepted, InHandshake, ParseHandshake
<1>7. CASE FrameIncomplete
  BY <1>7 DEF FrameIncomplete, InFrames
<1>8. CASE FrameInvalid
  BY <1>8, DropBasics DEF FrameInvalid
<1>9. CASE FrameUnmasked
  BY <1>9, CurrentFrame DEF FrameUnmasked, InFrames, Cur
<1>10. CASE FrameRefused
  BY <1>10, DropBasics DEF FrameRefused
<1>11. CASE FrameFragment
  <2>1. WithFragment.op \in {"TEXT", "BIN"}
    BY <1>11, FragmentOpcode DEF FrameFragment
  <2>2. frag' \in [op : {"NONE", "TEXT", "BIN"}, utf8 : Utf8States] /\ frag'.op # "NONE"
    BY <1>11, <2>1, CurrentFrame, FragmentOpcode DEF FrameFragment, WithFragment, Accepted
  <2>3. frag_data' \in Seq(Nat)
    BY <1>11 DEF FrameFragment, Cur
  <2> QED
    BY <1>11, <2>2, <2>3, CurrentFrame DEF FrameFragment, Accepted, InFrames, Cur
<1>12. CASE FrameLastFragment
  <2>1. WithFragment.op \in {"TEXT", "BIN"}
    BY <1>12, FragmentOpcode DEF FrameLastFragment, Compiled
  <2>2. relayed' \in Seq([op : {"TEXT", "BIN"}, parts : Seq(Nat)])
    BY <1>12, <2>1 DEF FrameLastFragment, Compiled, Cur
  <2>3. frag' = NoFragment /\ frag' \in [op : {"NONE", "TEXT", "BIN"}, utf8 : Utf8States]
    BY <1>12, Constants DEF FrameLastFragment, Compiled
  <2>4. frag_data' \in Seq(Nat)
    BY <1>12 DEF FrameLastFragment, Compiled
  <2> QED
    BY <1>12, <2>2, <2>3, <2>4, CurrentFrame DEF FrameLastFragment, Compiled, Accepted, InFrames, Cur
<1>13. CASE FrameMessage
  BY <1>13, CurrentFrame DEF FrameMessage, Accepted, InFrames, Cur
<1>14. CASE FramePing
  BY <1>14, CurrentFrame DEF FramePing, Accepted, InFrames, Cur
<1>15. CASE FrameClose
  BY <1>15, DropBasics DEF FrameClose, Accepted
<1>16. CASE FrameIgnored
  BY <1>16, CurrentFrame DEF FrameIgnored, Accepted, InFrames, Cur
<1> QED
  BY <1>1, <1>2, <1>3, <1>4, <1>5, <1>6, <1>7, <1>8, <1>9, <1>10, <1>11, <1>12, <1>13,
     <1>14, <1>15, <1>16 DEF Reader, OnData

\* What happens to the thread outside of this connection leaves it as it is.
Outside == Elsewhere \/ Written \/ Gone \/ UNCHANGED vars

LEMMA OutsideLeavesAll ==
    ASSUME Outside, TypeOK
    PROVE  /\ UNCHANGED <<peerVars, read, rpos, clientVars, fragVars, relayed, ponged, pc, event>>
           /\ writing' \in BOOLEAN
BY DEF Outside, Elsewhere, Written, Gone, vars, outVars, TypeOK

\* Basics speaks of nothing else.
LEMMA OutsideBasics == Basics /\ Outside => Basics'
BY OutsideLeavesAll DEF Basics, TypeOK, Positions, ServedAlive, FragmentMode, Alive, peerVars,
       clientVars, fragVars

\* Basics holds of every reachable state.
LEMMA BasicsInvariant == Spec => []Basics
<1>1. Basics /\ [Next]_vars => Basics'
  BY PeerBasics, ReaderBasics, OutsideBasics DEF Next, Outside
<1> QED BY InitBasics, <1>1, PTL DEF Spec

(***************************************************************************)
(* Every reachable state of a connection is type correct.                  *)
(***************************************************************************)
THEOREM SessionTypeOK == Spec => []TypeOK
BY BasicsInvariant, PTL DEF Basics
-----------------------------------------------------------------------------
(***************************************************************************)
(* What Begins and IsMessage of MessageStream depend on.                   *)
(***************************************************************************)

\* Only on the frames up to `upto'.
LEMMA BeginsPrefix ==
    ASSUME NEW fs, NEW gs, NEW op, NEW parts \in Seq(Nat), NEW upto \in Nat,
           \A k \in 1 .. upto : gs[k] = fs[k],
           MS!Begins(fs, op, parts, upto)
    PROVE  MS!Begins(gs, op, parts, upto)
<1>1. parts # <<>> /\ 1 \in DOMAIN parts /\ parts[1] \in 1 .. upto
  BY DEF MS!Begins
<1>2. \A i \in DOMAIN parts : parts[i] \in 1 .. upto /\ gs[parts[i]] = fs[parts[i]]
  BY DEF MS!Begins
<1>3. \A k \in parts[1] .. upto : k \in 1 .. upto /\ gs[k] = fs[k]
  BY <1>1
<1>4. \A i \in DOMAIN parts : MS!Carries(gs, parts[i]) = MS!Carries(fs, parts[i])
  BY <1>2 DEF MS!Carries
<1>5. \A k \in parts[1] .. upto : MS!Carries(gs, k) = MS!Carries(fs, k)
  BY <1>3 DEF MS!Carries
<1>6. op = gs[parts[1]].op /\ op \in {"TEXT", "BIN"}
  BY <1>1, <1>2 DEF MS!Begins
<1>7. \A i \in DOMAIN parts : parts[i] \in 1 .. upto /\ MS!Carries(gs, parts[i])
  BY <1>4 DEF MS!Begins
<1>8. \A i, j \in DOMAIN parts : i < j => parts[i] < parts[j] /\ gs[parts[j]].op = "CONT"
  BY <1>2 DEF MS!Begins
<1>9. \A k \in parts[1] .. upto :
        MS!Carries(gs, k) => \E i \in DOMAIN parts : parts[i] = k
  BY <1>5 DEF MS!Begins
<1> QED BY <1>1, <1>6, <1>7, <1>8, <1>9 DEF MS!Begins

\* A frame that carries nothing does not disturb a message begun.
LEMMA BeginsSkip ==
    ASSUME NEW fs, NEW op, NEW parts \in Seq(Nat), NEW upto \in Nat,
           ~MS!Carries(fs, upto + 1),
           MS!Begins(fs, op, parts, upto)
    PROVE  MS!Begins(fs, op, parts, upto + 1)
<1>1. \A i \in DOMAIN parts : parts[i] \in 1 .. upto + 1
  BY DEF MS!Begins
<1>2. 1 \in DOMAIN parts /\ parts[1] \in Nat
  BY DEF MS!Begins
<1>3. \A k \in parts[1] .. upto + 1 : k \in parts[1] .. upto \/ k = upto + 1
  BY <1>2
<1> QED BY <1>1, <1>3 DEF MS!Begins

\* The next frame, if it is a continuation, extends the message.
LEMMA BeginsExtend ==
    ASSUME NEW fs, NEW op, NEW parts \in Seq(Nat), NEW upto \in Nat,
           MS!Carries(fs, upto + 1), fs[upto + 1].op = "CONT",
           MS!Begins(fs, op, parts, upto)
    PROVE  MS!Begins(fs, op, Append(parts, upto + 1), upto + 1)
<1> DEFINE longer == Append(parts, upto + 1)
<1>1. /\ 1 \in DOMAIN parts /\ parts[1] \in 1 .. upto
      /\ DOMAIN longer = DOMAIN parts \cup {Len(parts) + 1}
      /\ \A i \in DOMAIN parts : longer[i] = parts[i]
      /\ longer[Len(parts) + 1] = upto + 1
  BY DEF MS!Begins
<1>2. \A i \in DOMAIN longer : longer[i] \in 1 .. upto + 1 /\ MS!Carries(fs, longer[i])
  BY <1>1 DEF MS!Begins
<1>3. \A i, j \in DOMAIN longer :
        i < j => longer[i] < longer[j] /\ fs[longer[j]].op = "CONT"
  <2> SUFFICES ASSUME NEW i \in DOMAIN longer, NEW j \in DOMAIN longer, i < j
               PROVE  longer[i] < longer[j] /\ fs[longer[j]].op = "CONT"
    OBVIOUS
  <2>1. i \in DOMAIN parts /\ parts[i] \in 1 .. upto
    BY <1>1 DEF MS!Begins
  <2>2. CASE j \in DOMAIN parts
    BY <2>1, <2>2, <1>1 DEF MS!Begins
  <2>3. CASE j = Len(parts) + 1
    BY <2>1, <2>3, <1>1
  <2> QED BY <1>1, <2>2, <2>3
<1>4. \A k \in longer[1] .. upto + 1 :
        MS!Carries(fs, k) => \E i \in DOMAIN longer : longer[i] = k
  <2> SUFFICES ASSUME NEW k \in parts[1] .. upto + 1, MS!Carries(fs, k)
               PROVE  \E i \in DOMAIN longer : longer[i] = k
    BY <1>1
  <2>1. CASE k = upto + 1
    BY <2>1, <1>1
  <2>2. CASE k \in parts[1] .. upto
    <3>1. PICK i \in DOMAIN parts : parts[i] = k
      BY <2>2 DEF MS!Begins
    <3> QED BY <3>1, <1>1
  <2> QED BY <1>1, <2>1, <2>2
<1>5. longer # <<>> /\ longer[1] = parts[1]
  BY <1>1
<1> QED BY <1>2, <1>3, <1>4, <1>5 DEF MS!Begins

\* One carrying frame begins a message.
LEMMA BeginsOne ==
    ASSUME NEW fs, NEW k \in Nat \ {0}, MS!Carries(fs, k), fs[k].op \in {"TEXT", "BIN"}
    PROVE  MS!Begins(fs, fs[k].op, <<k>>, k)
<1>1. DOMAIN <<k>> = {1} /\ <<k>>[1] = k /\ <<k>> # <<>>
  OBVIOUS
<1>2. \A j \in k .. k : j = k
  OBVIOUS
<1> QED BY <1>1, <1>2 DEF MS!Begins

\* A message already relayed is a record of an opcode and frame numbers.
LEMMA RelayedElement ==
    ASSUME TypeOK, NEW n \in DOMAIN relayed
    PROVE  relayed[n].op \in {"TEXT", "BIN"} /\ relayed[n].parts \in Seq(Nat)
<1> DEFINE Messages == [op : {"TEXT", "BIN"}, parts : Seq(Nat)]
<1>1. relayed \in Seq(Messages)
  BY DEF TypeOK
<1>2. relayed[n] \in Messages
  <2> HIDE DEF Messages
  <2> QED BY <1>1
<1> QED BY <1>2

\* What is a message stays one when the peer sends more frames.
LEMMA IsMessagePrefix ==
    ASSUME NEW fs, NEW gs, NEW m, m.parts \in Seq(Nat), NEW upto \in Nat,
           m.parts # <<>>, MS!LastPart(m) \in 1 .. upto,
           \A k \in 1 .. upto : gs[k] = fs[k],
           MS!IsMessage(fs, m)
    PROVE  MS!IsMessage(gs, m)
<1>1. \A k \in 1 .. MS!LastPart(m) : gs[k] = fs[k]
  OBVIOUS
<1>2. MS!Begins(fs, m.op, m.parts, MS!LastPart(m))
  BY DEF MS!IsMessage
<1>3. MS!Begins(gs, m.op, m.parts, MS!LastPart(m))
  BY <1>1, <1>2, BeginsPrefix
<1>4. \A i \in DOMAIN m.parts : gs[m.parts[i]] = fs[m.parts[i]]
  BY <1>1, <1>2 DEF MS!Begins
<1> QED BY <1>3, <1>4 DEF MS!IsMessage
-----------------------------------------------------------------------------
(***************************************************************************)
(* The inductive invariant.  What FragmentAgree and RelayedWhole say of    *)
(* the fragments kept and the messages relayed is preserved only because   *)
(* the fragments kept are exactly what was consumed and not yet relayed.   *)
(***************************************************************************)

\* Fragments kept are frames without FIN.
FragmentsOpen == \A i \in DOMAIN frag_data : ~frames[frag_data[i]].fin

\* Messages relayed are made of frames consumed.
RelayedConsumed ==
    \A n \in DOMAIN relayed :
        relayed[n].parts # <<>> /\ MS!LastPart(relayed[n]) \in 1 .. rpos

\* What has been consumed since the last message relayed is in frag_data.
NothingLost ==
    /\ MS!RelayedUpTo \in 0 .. rpos
    /\ \A i \in DOMAIN frag_data : MS!RelayedUpTo < frag_data[i]
    /\ \A k \in MS!RelayedUpTo + 1 .. rpos :
          MS!Carries(frames, k) => \E i \in DOMAIN frag_data : frag_data[i] = k

Stream ==
    /\ FragmentAgree
    /\ Alive => FragmentsOpen /\ NothingLost
    /\ RelayedConsumed
    /\ RelayedWhole

IInv == Basics /\ Stream

\* Before the handshake nothing is relayed and no message begun.
LEMMA InitStream == Init => Stream
BY DEF Init, Stream, FragmentAgree, FragmentsOpen, NothingLost, RelayedConsumed,
       RelayedWhole, Alive, MS!RelayedUpTo

\* A step that leaves the stream and what is known of it alone.
LEMMA SameStream ==
    ASSUME IInv,
           UNCHANGED <<frames, frag, frag_data, relayed, rpos>>,
           Alive' => Alive, (data_state' = "FRAGMENT") = (data_state = "FRAGMENT")
    PROVE  Stream'
BY DEF IInv, Stream, FragmentAgree, FragmentsOpen, NothingLost, RelayedConsumed,
       RelayedWhole, Alive, MS!RelayedUpTo

\* A step that ends the connection.
LEMMA DropStream ==
    ASSUME IInv, Drop, rpos' \in {rpos, Cur}
    PROVE  Stream'
<1>1. ~Alive'
  BY DEF Drop, Alive
<1>2. frames' = frames /\ relayed' = relayed
  BY DEF Drop, peerVars, outVars
<1>3. RelayedWhole'
  BY <1>2 DEF IInv, Stream, RelayedWhole
<1>4. RelayedConsumed'
  BY <1>2 DEF IInv, Stream, RelayedConsumed, Cur, Basics, TypeOK
<1> QED BY <1>1, <1>3, <1>4 DEF Stream, FragmentAgree

\* The peer's steps: frames only grow.
LEMMA PeerStream ==
    ASSUME IInv, Peer
    PROVE  Stream'
<1>1. UNCHANGED <<frag, frag_data, relayed, rpos, state, data_state>>
  BY DEF Peer, PeerSendRequest, PeerSendFrame, PeerFinishFrame, PeerShutdown,
         serverVars, clientVars, fragVars, outVars
<1>2. CASE UNCHANGED frames
  BY <1>1, <1>2, SameStream DEF Alive
<1>3. CASE \E f \in FrameSet : PeerSendFrame(f)
  <2>1. state = "OPEN" /\ Alive /\ Alive'
    BY <1>1, <1>3 DEF PeerSendFrame, Alive
  <2>2. /\ Len(frames) \in Nat /\ rpos \in Nat /\ rpos <= Len(frames)
        /\ frag_data \in Seq(Nat)
    BY DEF IInv, Basics, TypeOK, Positions, HandshakePieces
  <2>3. \A k \in 1 .. rpos : frames'[k] = frames[k]
    BY <1>3, <2>2 DEF PeerSendFrame, IInv, Basics, TypeOK
  <2>4. FragmentAgree'
    <3>1. CASE data_state = "FRAGMENT"
      <4>1. MS!Begins(frames, frag.op, frag_data, rpos)
        BY <2>1, <3>1 DEF IInv, Stream, FragmentAgree
      <4>2. MS!Begins(frames', frag.op, frag_data, rpos)
        BY <2>2, <2>3, <4>1, BeginsPrefix
      <4> QED BY <1>1, <3>1, <4>2 DEF FragmentAgree, MS!Begins, MS!Carries
    <3>2. CASE data_state # "FRAGMENT"
      BY <1>1, <2>1, <3>2 DEF IInv, Stream, FragmentAgree
    <3> QED BY <3>1, <3>2
  <2>5. \A i \in DOMAIN frag_data : frag_data[i] \in 1 .. rpos
    BY <2>1 DEF IInv, Stream, FragmentAgree, MS!Begins
  <2>6. FragmentsOpen'
    BY <1>1, <2>1, <2>3, <2>5 DEF IInv, Stream, FragmentsOpen
  <2>7. \A k \in 1 .. rpos : MS!Carries(frames', k) = MS!Carries(frames, k)
    BY <2>3 DEF MS!Carries
  <2>8. MS!RelayedUpTo' = MS!RelayedUpTo /\ MS!RelayedUpTo \in 0 .. rpos
    BY <1>1, <2>1 DEF IInv, Stream, NothingLost, MS!RelayedUpTo
  <2>9. NothingLost'
    BY <1>1, <2>1, <2>2, <2>7, <2>8 DEF IInv, Stream, NothingLost
  <2>10. RelayedConsumed'
    BY <1>1 DEF IInv, Stream, RelayedConsumed
  <2>11. RelayedWhole'
    <3> SUFFICES ASSUME NEW n \in DOMAIN relayed
                 PROVE  MS!IsMessage(frames', relayed[n])
      BY <1>1 DEF RelayedWhole, MS!IsMessage, MS!Begins, MS!Carries
    <3>1. relayed[n].parts \in Seq(Nat)
      BY RelayedElement DEF IInv, Basics
    <3>2. /\ relayed[n].parts # <<>> /\ MS!LastPart(relayed[n]) \in 1 .. rpos
          /\ MS!IsMessage(frames, relayed[n])
      BY DEF IInv, Stream, RelayedConsumed, RelayedWhole
    <3> QED BY <2>2, <2>3, <3>1, <3>2, IsMessagePrefix
  <2> QED BY <2>4, <2>6, <2>9, <2>10, <2>11 DEF Stream
<1> QED BY <1>2, <1>3 DEF Peer, PeerSendRequest, PeerFinishFrame, PeerShutdown

\* A frame consumed that carries no part of a message.
LEMMA SkipStream ==
    ASSUME IInv, InFrames, Result = "DONE", ~MS!Carries(frames, Cur),
           rpos' = Cur, UNCHANGED <<frames, frag, frag_data, relayed, state, data_state>>
    PROVE  Stream'
<1>1. /\ Alive /\ Alive' /\ rpos \in Nat /\ Cur = rpos + 1 /\ frag_data \in Seq(Nat)
      /\ MS!RelayedUpTo' = MS!RelayedUpTo /\ MS!RelayedUpTo \in 0 .. rpos
  BY DEF IInv, Basics, TypeOK, ServedAlive, InFrames, Alive, Cur, Stream, NothingLost,
         MS!RelayedUpTo
<1>2. FragmentAgree'
  <2>1. CASE data_state = "FRAGMENT"
    <3>1. MS!Begins(frames, frag.op, frag_data, rpos)
      BY <1>1, <2>1 DEF IInv, Stream, FragmentAgree
    <3>2. MS!Begins(frames, frag.op, frag_data, rpos + 1)
      BY <1>1, <3>1, BeginsSkip
    <3> QED BY <1>1, <2>1, <3>2 DEF FragmentAgree
  <2>2. CASE data_state # "FRAGMENT"
    BY <1>1, <2>2 DEF IInv, Stream, FragmentAgree
  <2> QED BY <2>1, <2>2
<1>3. FragmentsOpen'
  BY <1>1 DEF IInv, Stream, FragmentsOpen
<1>4. NothingLost'
  <2>1. \A k \in MS!RelayedUpTo + 1 .. rpos + 1 :
          k \in MS!RelayedUpTo + 1 .. rpos \/ k = rpos + 1
    BY <1>1
  <2> QED BY <1>1, <2>1 DEF IInv, Stream, NothingLost
<1>5. RelayedConsumed'
  BY <1>1 DEF IInv, Stream, RelayedConsumed
<1>6. RelayedWhole'
  BY DEF IInv, Stream, RelayedWhole
<1> QED BY <1>2, <1>3, <1>4, <1>5, <1>6 DEF Stream

\* The frame at hand carries data and is taken into the message begun, or begins one.
LEMMA FragmentBegins ==
    ASSUME IInv, Accepted, ~CurFrame.fin \/ CurFrame.op = "CONT"
    PROVE  /\ MS!Begins(frames, WithFragment.op, Append(frag_data, Cur), Cur)
           /\ MS!Carries(frames, Cur)
<1>1. /\ Alive /\ rpos \in Nat /\ Cur = rpos + 1 /\ frag_data \in Seq(Nat)
      /\ data_state \in {"FRAME", "FRAGMENT"}
  BY DEF IInv, Basics, TypeOK, ServedAlive, Accepted, InFrames, Cur
<1>2. CurFrame.op \in DataOps /\ WithFragment.op \in {"TEXT", "BIN"}
  BY FragmentOpcode DEF IInv
<1>3. MS!Carries(frames, Cur)
  BY <1>2 DEF MS!Carries, MS!DataOps, DataOps, Accepted, CurFrame
<1>4. CASE data_state = "FRAME"
  <2>1. frag_data = <<>> /\ WithFragment.op = CurFrame.op
    BY <1>1, <1>4 DEF IInv, Stream, FragmentAgree, WithFragment
  <2>2. Append(frag_data, Cur) = <<Cur>> /\ Cur \in Nat \ {0}
    BY <1>1, <2>1
  <2> QED BY <1>2, <1>3, <2>1, <2>2, BeginsOne DEF CurFrame
<1>5. CASE data_state = "FRAGMENT"
  <2>1. MS!Begins(frames, frag.op, frag_data, rpos)
    BY <1>1, <1>5 DEF IInv, Stream, FragmentAgree
  <2>2. frag.op # "NONE"
    BY <2>1 DEF MS!Begins
  <2>3. WithFragment.op = frag.op
    BY <2>2 DEF WithFragment, NoFragment
  <2>4. frames[rpos + 1].op = "CONT"
    BY <1>1, <1>2, <1>5 DEF Accepted, Refused, DataOps, CurFrame
  <2> QED BY <1>1, <1>3, <2>1, <2>3, <2>4, BeginsExtend
<1> QED BY <1>1, <1>3, <1>4, <1>5

\* hk_client_add_fragment on a frame that is not the last one of its message.
LEMMA FragmentStream ==
    ASSUME IInv, FrameFragment
    PROVE  Stream'
<1>1. /\ Alive /\ Alive' /\ rpos \in Nat /\ Cur = rpos + 1 /\ frag_data \in Seq(Nat)
      /\ MS!RelayedUpTo' = MS!RelayedUpTo /\ MS!RelayedUpTo \in 0 .. rpos
      /\ frames' = frames /\ relayed' = relayed /\ rpos' = Cur
      /\ frag_data' = Append(frag_data, Cur)
  BY DEF IInv, Basics, TypeOK, ServedAlive, InFrames, Accepted, Alive, Cur, Stream, NothingLost,
         MS!RelayedUpTo, FrameFragment, peerVars, outVars
<1>2. /\ DOMAIN frag_data' = DOMAIN frag_data \cup {Len(frag_data) + 1}
      /\ \A i \in DOMAIN frag_data : frag_data'[i] = frag_data[i]
      /\ frag_data'[Len(frag_data) + 1] = Cur
  BY <1>1
<1>3. FragmentAgree'
  BY <1>1, FragmentBegins DEF FrameFragment, FragmentAgree
<1>4. FragmentsOpen'
  BY <1>1, <1>2 DEF IInv, Stream, FragmentsOpen, FrameFragment, CurFrame
<1>5. NothingLost'
  <2>1. \A i \in DOMAIN frag_data' : MS!RelayedUpTo < frag_data'[i]
    BY <1>1, <1>2 DEF IInv, Stream, NothingLost
  <2>2. ASSUME NEW k \in MS!RelayedUpTo + 1 .. rpos + 1, MS!Carries(frames, k)
        PROVE  \E i \in DOMAIN frag_data' : frag_data'[i] = k
    <3>1. CASE k = rpos + 1
      BY <1>1, <1>2, <3>1
    <3>2. CASE k \in MS!RelayedUpTo + 1 .. rpos
      BY <1>1, <1>2, <2>2, <3>2 DEF IInv, Stream, NothingLost
    <3> QED BY <1>1, <3>1, <3>2
  <2> QED BY <1>1, <2>1, <2>2 DEF NothingLost
<1>6. RelayedConsumed'
  BY <1>1 DEF IInv, Stream, RelayedConsumed
<1>7. RelayedWhole'
  BY <1>1 DEF IInv, Stream, RelayedWhole
<1> QED BY <1>3, <1>4, <1>5, <1>6, <1>7 DEF Stream
-----------------------------------------------------------------------------
(***************************************************************************)
(* Handing over a message is the Relay action of MessageStream.            *)
(***************************************************************************)

\* An increasing sequence of numbers up to N has at most N elements.
LEMMA IncreasingBounded ==
    ASSUME NEW s \in Seq(Nat), NEW N \in Nat,
           \A i \in DOMAIN s : s[i] \in 1 .. N,
           \A i, j \in DOMAIN s : i < j => s[i] < s[j]
    PROVE  Len(s) <= N /\ s \in [1 .. Len(s) -> 1 .. N]
<1>1. Len(s) \in Nat /\ DOMAIN s = 1 .. Len(s)
  OBVIOUS
<1>2. s \in [1 .. Len(s) -> 1 .. N]
  BY <1>1
<1>3. /\ IsFiniteSet(1 .. Len(s)) /\ Cardinality(1 .. Len(s)) = Len(s)
  <2>1. 1 \in Int /\ Len(s) \in Int
    BY <1>1
  <2> QED BY <1>1, <2>1, FS_Interval
<1>4. IsFiniteSet(1 .. N) /\ Cardinality(1 .. N) = N
  <2>1. 1 \in Int /\ N \in Int
    OBVIOUS
  <2> QED BY <2>1, FS_Interval
<1>5. ASSUME N < Len(s) PROVE FALSE
  <2>1. \E i, j \in 1 .. Len(s) : i # j /\ s[i] = s[j]
    BY <1>2, <1>3, <1>4, <1>5, FS_PigeonHole
  <2>2. PICK i, j \in 1 .. Len(s) : i # j /\ s[i] = s[j]
    BY <2>1
  <2>3. i < j \/ j < i
    BY <1>1, <2>2
  <2>4. s[i] \in Nat /\ s[j] \in Nat /\ i \in DOMAIN s /\ j \in DOMAIN s
    BY <1>1
  <2>5. CASE i < j
    <3>1. s[i] < s[j]
      BY <2>4, <2>5
    <3> QED BY <2>2, <2>4, <3>1
  <2>6. CASE j < i
    <3>1. s[j] < s[i]
      BY <2>4, <2>6
    <3> QED BY <2>2, <2>4, <3>1
  <2> QED BY <2>3, <2>5, <2>6
<1> QED BY <1>1, <1>2, <1>5

\* The parts of a message are distinct frames, so there are no more of them
\* than frames.
LEMMA MessageBounded ==
    ASSUME NEW fs, Len(fs) \in Nat, NEW op \in {"TEXT", "BIN"}, NEW parts \in Seq(Nat),
           NEW upto \in 1 .. Len(fs), MS!Begins(fs, op, parts, upto)
    PROVE  [op |-> op, parts |-> parts] \in MS!Message(fs)
<1>1. \A i \in DOMAIN parts : parts[i] \in 1 .. upto
  BY DEF MS!Begins
<1>2. \A i \in DOMAIN parts : parts[i] \in 1 .. Len(fs)
  BY <1>1
<1>3. \A i, j \in DOMAIN parts : i < j => parts[i] < parts[j]
  BY DEF MS!Begins
<1>4. Len(parts) <= Len(fs) /\ parts \in [1 .. Len(parts) -> 1 .. Len(fs)]
  BY <1>2, <1>3, IncreasingBounded
<1>5. Len(parts) \in 1 .. Len(fs)
  BY <1>4 DEF MS!Begins
<1> QED BY <1>4, <1>5 DEF MS!Message

\* A message that ends with the frame at hand and starts where the last one
\* relayed, or the fragments kept, left off.
RelayStep(m) ==
    /\ MS!IsMessage(frames, m)
    /\ MS!LastPart(m) = Cur
    /\ m.parts = Append(frag_data, Cur)
    /\ relayed' = Append(relayed, m)
    /\ rpos' = Cur /\ frames' = frames /\ state' = state
    /\ frag' = NoFragment /\ frag_data' = <<>> /\ data_state' = "FRAME"

\* A step that relays the message that follows the last one is one of MessageStream.
LEMMA RelayStream ==
    ASSUME IInv, InFrames, Result = "DONE",
           NEW m \in [op : {"TEXT", "BIN"}, parts : Seq(Nat)], RelayStep(m)
    PROVE  Stream' /\ MS!Next
<1>1. /\ Alive /\ Alive' /\ rpos \in Nat /\ Cur = rpos + 1 /\ Cur \in 1 .. Len(frames)
      /\ frag_data \in Seq(Nat) /\ MS!RelayedUpTo \in 0 .. rpos /\ Len(frames) \in Nat
  BY CurrentFrame DEF IInv, Basics, TypeOK, ServedAlive, InFrames, Alive, Cur, Stream,
                      NothingLost, RelayStep
<1>2. /\ DOMAIN relayed' = DOMAIN relayed \cup {Len(relayed) + 1}
      /\ \A n \in DOMAIN relayed : relayed'[n] = relayed[n]
      /\ relayed'[Len(relayed) + 1] = m
      /\ Len(relayed') = Len(relayed) + 1 /\ Len(relayed) \in Nat
  BY DEF RelayStep, IInv, Basics, TypeOK
<1>3. FragmentAgree'
  BY DEF RelayStep, FragmentAgree
<1>4. FragmentsOpen'
  BY DEF RelayStep, FragmentsOpen
<1>5. m.parts # <<>>
  BY DEF RelayStep, MS!IsMessage, MS!Begins
<1>6. NothingLost'
  <2>1. MS!RelayedUpTo' = Cur
    BY <1>2 DEF MS!RelayedUpTo, RelayStep
  <2> QED BY <1>1, <2>1 DEF NothingLost, RelayStep
<1>7. RelayedConsumed'
  BY <1>1, <1>2, <1>5 DEF IInv, Stream, RelayedConsumed, RelayStep
<1>8. RelayedWhole'
  BY <1>2 DEF IInv, Stream, RelayedWhole, RelayStep
<1>9. MS!Relay(m)
  <2>1. 1 \in DOMAIN m.parts /\ MS!FirstPart(m) = m.parts[1]
    BY <1>5 DEF MS!FirstPart
  <2>2. MS!RelayedUpTo < MS!FirstPart(m)
        /\ \A i \in DOMAIN frag_data : MS!FirstPart(m) <= frag_data[i]
    <3>1. CASE frag_data = <<>>
      BY <1>1, <2>1, <3>1 DEF RelayStep
    <3>2. CASE frag_data # <<>>
      <4>1. /\ 1 \in DOMAIN frag_data /\ m.parts[1] = frag_data[1]
            /\ \A i \in DOMAIN frag_data : frag_data[i] \in Nat
        BY <1>1, <3>2 DEF RelayStep
      <4>2. data_state = "FRAGMENT"
        BY <1>1, <3>2 DEF IInv, Stream, FragmentAgree
      <4>3. \A i \in DOMAIN frag_data : i = 1 \/ frag_data[1] < frag_data[i]
        BY <1>1, <4>1, <4>2 DEF IInv, Stream, FragmentAgree, MS!Begins
      <4>4. MS!RelayedUpTo < frag_data[1]
        BY <1>1, <4>1 DEF IInv, Stream, NothingLost
      <4> QED BY <2>1, <4>1, <4>3, <4>4
    <3> QED BY <3>1, <3>2
  <2>3. MS!FirstPart(m) \in 1 .. Cur
    BY <2>1 DEF RelayStep, MS!IsMessage, MS!Begins
  <2>4. ASSUME NEW k \in MS!RelayedUpTo + 1 .. MS!FirstPart(m) - 1
        PROVE  ~MS!Carries(frames, k)
    <3>1. k \in MS!RelayedUpTo + 1 .. rpos /\ k < MS!FirstPart(m)
      BY <1>1, <2>3
    <3>2. \A i \in DOMAIN frag_data : frag_data[i] # k
      BY <1>1, <2>2, <2>3, <3>1
    <3> QED BY <1>1, <3>1, <3>2 DEF IInv, Stream, NothingLost
  <2> QED BY <2>2, <2>4 DEF MS!Relay, RelayStep
<1>10. m \in MS!Message(frames)
  <2>1. /\ m = [op |-> m.op, parts |-> m.parts]
        /\ m.op \in {"TEXT", "BIN"} /\ m.parts \in Seq(Nat)
    OBVIOUS
  <2>2. MS!Begins(frames, m.op, m.parts, Cur)
    BY DEF RelayStep, MS!IsMessage
  <2> QED BY <1>1, <2>1, <2>2, MessageBounded
<1> QED BY <1>1, <1>3, <1>4, <1>6, <1>7, <1>8, <1>9, <1>10 DEF Stream, MS!Next

\* hk_client_compile_fragments relays the message its fragments were begun for.
LEMMA LastFragmentRelays ==
    ASSUME IInv, FrameLastFragment
    PROVE  Stream' /\ MS!Next
<1> DEFINE m == [op |-> WithFragment.op, parts |-> Append(frag_data, Cur)]
<1>1. /\ frag_data \in Seq(Nat) /\ Cur \in Nat
      /\ InFrames /\ Result = "DONE" /\ Alive
      /\ frames' = frames /\ rpos' = Cur /\ state' = state
  BY DEF IInv, Basics, TypeOK, ServedAlive, InFrames, Accepted, Cur, FrameLastFragment, Compiled, peerVars
<1>2. m \in [op : {"TEXT", "BIN"}, parts : Seq(Nat)]
  BY <1>1, FragmentOpcode DEF IInv, FrameLastFragment, Compiled
<1>3. /\ DOMAIN m.parts = DOMAIN frag_data \cup {Len(frag_data) + 1}
      /\ Len(m.parts) = Len(frag_data) + 1
      /\ \A i \in DOMAIN frag_data : m.parts[i] = frag_data[i] /\ i # Len(m.parts)
      /\ m.parts[Len(m.parts)] = Cur
  BY <1>1
<1>4. MS!LastPart(m) = Cur
  BY <1>3 DEF MS!LastPart
<1>5. MS!IsMessage(frames, m)
  <2>1. MS!Begins(frames, m.op, m.parts, Cur)
    BY FragmentBegins DEF FrameLastFragment, Compiled
  <2>2. \A i \in DOMAIN m.parts : frames[m.parts[i]].fin <=> i = Len(m.parts)
    BY <1>1, <1>3 DEF IInv, Stream, FragmentsOpen, FrameLastFragment, Compiled, CurFrame
  <2> QED BY <1>4, <2>1, <2>2 DEF MS!IsMessage
<1>6. RelayStep(m)
  BY <1>1, <1>4, <1>5 DEF RelayStep, FrameLastFragment, Compiled
<1> QED BY <1>1, <1>2, <1>6, RelayStream

\* An unfragmented data frame is relayed as the message it is.
LEMMA MessageRelays ==
    ASSUME IInv, FrameMessage
    PROVE  Stream' /\ MS!Next
<1> DEFINE m == [op |-> CurFrame.op, parts |-> <<Cur>>]
<1>1. /\ Cur \in Nat \ {0} /\ InFrames /\ Result = "DONE" /\ Alive
      /\ frames' = frames /\ rpos' = Cur
      /\ UNCHANGED <<state, data_state, frag, frag_data>>
  BY DEF IInv, Basics, TypeOK, ServedAlive, InFrames, Accepted, Cur, FrameMessage,
         peerVars, clientVars, fragVars
<1>2. data_state = "FRAME"
  BY DEF IInv, Basics, TypeOK, FrameMessage, Accepted, InFrames, Refused
<1>3. frag = NoFragment /\ frag_data = <<>>
  BY <1>1, <1>2 DEF IInv, Stream, FragmentAgree
<1>4. m \in [op : {"TEXT", "BIN"}, parts : Seq(Nat)]
  BY <1>1 DEF FrameMessage
<1>5. /\ m.parts = Append(frag_data, Cur)
      /\ DOMAIN m.parts = {1} /\ Len(m.parts) = 1 /\ m.parts[1] = Cur
  BY <1>3
<1>6. MS!LastPart(m) = Cur
  BY <1>5 DEF MS!LastPart
<1>7. MS!IsMessage(frames, m)
  <2>1. MS!Carries(frames, Cur)
    BY DEF FrameMessage, Accepted, CurFrame, MS!Carries, MS!DataOps
  <2>2. frames[Cur].op \in {"TEXT", "BIN"}
    BY DEF FrameMessage, CurFrame
  <2>3. MS!Begins(frames, CurFrame.op, <<Cur>>, Cur)
    BY <1>1, <2>1, <2>2, BeginsOne DEF CurFrame
  <2> QED BY <1>5, <1>6, <2>3 DEF MS!IsMessage, FrameMessage, CurFrame
<1>8. RelayStep(m)
  BY <1>1, <1>2, <1>3, <1>5, <1>6, <1>7 DEF RelayStep, FrameMessage
<1> QED BY <1>1, <1>4, <1>8, RelayStream

(***************************************************************************)
(* Every step preserves the invariant and is a step of MessageStream, or   *)
(* leaves what MessageStream speaks of alone.                              *)
(***************************************************************************)
LEMMA StreamStep ==
    ASSUME IInv, Next
    PROVE  Stream' /\ [MS!Next]_(MS!vars)
<1> DEFINE Still == UNCHANGED <<frames, relayed>>
<1>1. CASE Peer
  <2>1. Still \/ MS!Send
    BY <1>1 DEF Peer, PeerSendRequest, PeerSendFrame, PeerFinishFrame, PeerShutdown, MS!Send,
                serverVars, outVars
  <2> QED BY <1>1, <2>1, PeerStream DEF MS!Next, MS!vars
<1>2. CASE EpollWait \/ ReadSocket \/ HandshakeIncomplete \/ FrameIncomplete
  <2>1. Still /\ UNCHANGED <<frag, frag_data, rpos, state, data_state>>
    BY <1>2 DEF EpollWait, ReadSocket, HandshakeIncomplete, FrameIncomplete, peerVars, outVars,
                clientVars, fragVars
  <2> QED BY <2>1, SameStream DEF Alive, MS!vars
<1>3. CASE HandshakeAccepted
  <2>1. /\ Still /\ UNCHANGED <<frag, frag_data>> /\ Alive /\ rpos' = rpos
        /\ data_state # "FRAGMENT" /\ data_state' # "FRAGMENT"
    BY <1>3 DEF HandshakeAccepted, InHandshake, peerVars, outVars, fragVars, IInv, Basics,
                Positions, ServedAlive
  <2> QED BY <2>1, SameStream DEF MS!vars
<1>4. CASE HangUp \/ HandshakeRejected \/ FrameInvalid \/ FrameRefused \/ FrameClose
  <2>1. Still /\ Drop /\ rpos' \in {rpos, Cur}
    BY <1>4 DEF HangUp, HandshakeRejected, FrameInvalid, FrameRefused, FrameClose, Drop,
                peerVars, outVars
  <2> QED BY <2>1, DropStream DEF MS!vars
<1>5. CASE FrameUnmasked \/ FramePing \/ FrameIgnored
  <2>1. /\ Still /\ UNCHANGED <<frag, frag_data, state, data_state>>
        /\ rpos' = Cur /\ InFrames /\ Result = "DONE"
    BY <1>5 DEF FrameUnmasked, FramePing, FrameIgnored, Accepted, peerVars, outVars,
                clientVars, fragVars
  <2>2. ~MS!Carries(frames, Cur)
    BY <1>5 DEF FrameUnmasked, FramePing, FrameIgnored, MS!Carries, MS!DataOps, CurFrame
  <2> QED BY <2>1, <2>2, SkipStream DEF MS!vars
<1>6. CASE FrameFragment
  BY <1>6, FragmentStream DEF FrameFragment, MS!vars, peerVars, outVars
<1>7. CASE FrameLastFragment \/ FrameMessage
  BY <1>7, LastFragmentRelays, MessageRelays
<1>8. CASE Outside
  <2>1. Still /\ UNCHANGED <<frag, frag_data, rpos, state, data_state>>
    BY <1>8, OutsideLeavesAll DEF IInv, Basics, peerVars, clientVars, fragVars
  <2> QED BY <2>1, SameStream DEF Alive, MS!vars
<1> QED BY <1>1, <1>2, <1>3, <1>4, <1>5, <1>6, <1>7, <1>8 DEF Next, Outside, Reader, OnData

\* IInv is inductive, and each step maps to a step of MessageStream or to none.
LEMMA InvStep == IInv /\ [Next]_vars => IInv' /\ [MS!Next]_(MS!vars)
<1>1. ASSUME IInv, Next PROVE IInv' /\ [MS!Next]_(MS!vars)
  <2>1. Basics'
    BY <1>1, PeerBasics, ReaderBasics, OutsideBasics DEF IInv, Next, Outside
  <2> QED BY <1>1, <2>1, StreamStep DEF IInv
<1>2. ASSUME IInv, UNCHANGED vars PROVE IInv' /\ [MS!Next]_(MS!vars)
  <2>1. UNCHANGED <<frames, relayed, frag, frag_data, rpos, state, data_state>>
    BY <1>2 DEF vars, peerVars, outVars, clientVars, fragVars
  <2>2. Basics'
    BY <1>2, OutsideBasics DEF IInv, Outside
  <2> QED BY <1>2, <2>1, <2>2, SameStream DEF IInv, Alive, MS!vars
<1> QED BY <1>1, <1>2

\* IInv holds of every reachable state.
LEMMA Invariant == Spec => []IInv
<1>1. Init => IInv
  BY InitBasics, InitStream DEF IInv
<1> QED BY <1>1, InvStep, PTL DEF Spec

(***************************************************************************)
(* data_state, fragmented_frame and fragmented_data agree in every         *)
(* reachable state: hk_reader_on_data never dereferences a fragment it     *)
(* does not have, and never joins fragments of two messages.               *)
(***************************************************************************)
THEOREM SessionFragmentAgree == Spec => []FragmentAgree
BY Invariant, PTL DEF IInv, Stream

(***************************************************************************)
(* Every message handed to hk_reader_handle_data_frame is one whole        *)
(* message of the peer.                                                    *)
(***************************************************************************)
THEOREM SessionRelayedWhole == Spec => []RelayedWhole
BY Invariant, PTL DEF IInv, Stream

(***************************************************************************)
(* A connection, as hk_reader_on_data serves it, implements MessageStream: *)
(* the messages handed over are the peer's, in order, each exactly once.   *)
(***************************************************************************)
THEOREM SessionImplementsStream == Spec => RelaysTheStream
<1>1. Init => MS!Init
  BY DEF Init, MS!Init
<1>2. Spec => [][MS!Next]_(MS!vars)
  BY Invariant, InvStep, PTL DEF Spec
<1> QED BY <1>1, <1>2, PTL DEF Spec, RelaysTheStream, MS!Spec
-----------------------------------------------------------------------------
(***************************************************************************)
(* Pings.  An open connection is past its handshake, so that               *)
(* hk_reader_handle_ping_frame answers; what was answered was consumed.    *)
(***************************************************************************)
OpenInFrames == Alive => (state = "OPEN" <=> data_state # "HANDSHAKE")
PongsConsumed == ponged \in Seq(1 .. rpos)

PingInv == OpenInFrames /\ PongsConsumed /\ PingsAnswered

Pinged(fs, k) == fs[k].op = "PING" /\ fs[k].masked

\* Nothing but a ping consumed on an open connection calls for an answer.
LEMMA NoPing ==
    ASSUME Basics, PingInv, OpenInFrames', UNCHANGED ponged, Alive' => Alive,
           \A k \in 1 .. rpos : frames'[k] = frames[k],
           \/ rpos' = rpos
           \/ rpos' = Cur /\ (Alive' => ~Pinged(frames', Cur))
    PROVE  PingInv'
<1>1. rpos \in Nat /\ rpos' \in Nat /\ rpos <= rpos' /\ Cur = rpos + 1
  BY DEF Basics, TypeOK, Cur
<1>2. PongsConsumed'
  BY <1>1 DEF PingInv, PongsConsumed
<1>3. ASSUME Alive' PROVE {k \in 1 .. rpos' : Pinged(frames', k)} = {k \in 1 .. rpos : Pinged(frames, k)}
  BY <1>1, <1>3 DEF Pinged
<1>4. PingsAnswered'
  BY <1>3 DEF PingInv, PingsAnswered, Pinged
<1> QED BY <1>2, <1>4 DEF PingInv

\* A ping is answered with the next pong.
LEMMA PingPonged ==
    ASSUME Basics, PingInv, FramePing
    PROVE  PingInv'
<1>1. /\ rpos \in Nat /\ Cur = rpos + 1 /\ rpos' = Cur
      /\ ponged \in Seq(1 .. rpos) /\ Pinged(frames, Cur)
  BY DEF Basics, TypeOK, Cur, FramePing, Accepted, PingInv, PongsConsumed, Pinged, CurFrame
<1>2. Alive /\ state = "OPEN"
  BY DEF FramePing, Accepted, InFrames, Basics, ServedAlive, PingInv, OpenInFrames
<1>3. ponged' = Append(ponged, Cur) /\ UNCHANGED <<frames, state, data_state>>
  BY <1>2 DEF FramePing, peerVars, clientVars
<1>4. /\ ponged' \in Seq(1 .. Cur) /\ Len(ponged') = Len(ponged) + 1
      /\ \A i \in DOMAIN ponged : ponged'[i] = ponged[i] /\ ponged[i] \in 1 .. rpos
      /\ ponged'[Len(ponged) + 1] = Cur
      /\ DOMAIN ponged = 1 .. Len(ponged) /\ DOMAIN ponged' = 1 .. Len(ponged) + 1
      /\ Len(ponged) \in Nat
  <2>1. ponged \in Seq(1 .. Cur) /\ Cur \in 1 .. Cur
    BY <1>1
  <2> QED BY <1>1, <1>3, <2>1
<1>5. PongsConsumed'
  BY <1>1, <1>4 DEF PongsConsumed
<1>6. \A i, j \in DOMAIN ponged' : i < j => ponged'[i] < ponged'[j]
  <2>1. SUFFICES ASSUME NEW i \in DOMAIN ponged', NEW j \in DOMAIN ponged', i < j
                 PROVE  ponged'[i] < ponged'[j]
    OBVIOUS
  <2>2. i \in DOMAIN ponged /\ (j \in DOMAIN ponged \/ j = Len(ponged) + 1)
    BY <1>4, <2>1
  <2>3. CASE j \in DOMAIN ponged
    BY <1>4, <2>1, <2>2, <2>3 DEF PingInv, PingsAnswered
  <2>4. CASE j = Len(ponged) + 1
    BY <1>1, <1>4, <2>2, <2>4
  <2> QED BY <2>2, <2>3, <2>4
<1>7. {ponged'[i] : i \in DOMAIN ponged'} = {ponged[i] : i \in DOMAIN ponged} \cup {Cur}
  BY <1>4
<1>8. {k \in 1 .. Cur : Pinged(frames, k)} = {k \in 1 .. rpos : Pinged(frames, k)} \cup {Cur}
  BY <1>1
<1>9. {ponged[i] : i \in DOMAIN ponged} = {k \in 1 .. rpos : Pinged(frames, k)}
  BY <1>2 DEF PingInv, PingsAnswered, Pinged
<1>10. PingsAnswered'
  BY <1>1, <1>3, <1>6, <1>7, <1>8, <1>9 DEF PingsAnswered, Pinged
<1>11. OpenInFrames'
  BY <1>3 DEF PingInv, OpenInFrames, Alive
<1> QED BY <1>5, <1>10, <1>11 DEF PingInv

\* Every step keeps PingInv.
LEMMA PingStep == Basics /\ PingInv /\ [Next]_vars => PingInv'
<1> SUFFICES ASSUME Basics, PingInv, [Next]_vars PROVE PingInv'
  OBVIOUS
<1> DEFINE Same == UNCHANGED <<frames, state, data_state, ponged>>
<1>1. ASSUME Same, rpos' = rpos PROVE PingInv'
  BY <1>1, NoPing DEF PingInv, OpenInFrames, Alive
<1>2. ASSUME UNCHANGED <<frames, ponged>>, state' = "CLOSED", rpos' \in {rpos, Cur} PROVE PingInv'
  BY <1>2, NoPing DEF OpenInFrames, Alive
<1>3. ASSUME Accepted \/ FrameUnmasked, UNCHANGED <<frames, state, ponged>>,
             data_state' # "HANDSHAKE", rpos' = Cur, ~Pinged(frames, Cur)
      PROVE  PingInv'
  BY <1>3, NoPing DEF Accepted, FrameUnmasked, InFrames, PingInv, OpenInFrames, Alive
<1>4. CASE Peer
  <2>1. ASSUME NEW f \in FrameSet, PeerSendFrame(f) PROVE PingInv'
    <3>1. frames \in Seq(FrameSet) /\ rpos \in Nat /\ rpos <= Len(frames)
      BY DEF Basics, TypeOK, Positions, HandshakePieces
    <3>2. \A k \in 1 .. rpos : frames'[k] = frames[k]
      BY <2>1, <3>1 DEF PeerSendFrame
    <3>3. UNCHANGED <<rpos, state, data_state, ponged>>
      BY <2>1 DEF PeerSendFrame, serverVars, clientVars, outVars
    <3> QED BY <3>2, <3>3, NoPing DEF PingInv, OpenInFrames, Alive
  <2>2. ASSUME PeerSendRequest \/ PeerFinishFrame \/ PeerShutdown PROVE PingInv'
    BY <2>2, <1>1 DEF PeerSendRequest, PeerFinishFrame, PeerShutdown, serverVars, clientVars, outVars
  <2> QED BY <1>4, <2>1, <2>2 DEF Peer
<1>5. CASE EpollWait \/ ReadSocket \/ HandshakeIncomplete \/ FrameIncomplete
  BY <1>5, <1>1 DEF EpollWait, ReadSocket, HandshakeIncomplete, FrameIncomplete, peerVars,
                    clientVars, outVars
<1>6. CASE HangUp \/ HandshakeRejected \/ FrameInvalid \/ FrameRefused \/ FrameClose
  BY <1>6, <1>2 DEF HangUp, HandshakeRejected, FrameInvalid, FrameRefused, FrameClose, Drop,
                    peerVars, outVars
<1>7. CASE HandshakeAccepted
  <2>1. /\ UNCHANGED <<frames, ponged>> /\ rpos' = rpos /\ Alive
        /\ state' = "OPEN" /\ data_state' = "FRAME"
    BY <1>7 DEF HandshakeAccepted, InHandshake, Basics, Positions, ServedAlive, peerVars, outVars
  <2> QED BY <2>1, NoPing DEF OpenInFrames, Alive
<1>8. CASE FrameUnmasked \/ FrameIgnored \/ FrameMessage
  <2>1. ~Pinged(frames, Cur)
    BY <1>8 DEF FrameUnmasked, FrameIgnored, FrameMessage, Pinged, CurFrame
  <2>2. /\ Accepted \/ FrameUnmasked
        /\ UNCHANGED <<frames, state, ponged, data_state>> /\ rpos' = Cur
    BY <1>8 DEF FrameUnmasked, FrameIgnored, FrameMessage, peerVars, clientVars, outVars
  <2>3. data_state' # "HANDSHAKE"
    BY <2>2 DEF Accepted, FrameUnmasked, InFrames
  <2> QED BY <1>3, <2>1, <2>2, <2>3
<1>9. CASE FrameFragment \/ FrameLastFragment
  <2>1. Accepted /\ UNCHANGED <<frames, state, ponged>> /\ rpos' = Cur /\ data_state' # "HANDSHAKE"
    BY <1>9 DEF FrameFragment, FrameLastFragment, peerVars, outVars
  <2>2. ~Pinged(frames, Cur)
    BY <1>9 DEF FrameFragment, FrameLastFragment, Accepted, Refused, ControlOps, Pinged, CurFrame
  <2> QED BY <1>3, <2>1, <2>2
<1>10. CASE FramePing
  BY <1>10, PingPonged
<1>11. CASE Outside
  BY <1>11, <1>1, OutsideLeavesAll DEF Basics, peerVars, clientVars
<1> QED
  BY <1>4, <1>5, <1>6, <1>7, <1>8, <1>9, <1>10, <1>11 DEF Next, Outside, Reader, OnData

(***************************************************************************)
(* On an open connection every ping consumed has been answered, once and   *)
(* in order, also one between two fragments of a message.                  *)
(***************************************************************************)
THEOREM SessionPingsAnswered == Spec => []PingsAnswered
<1>1. Init => PingInv
  BY DEF Init, PingInv, OpenInFrames, PongsConsumed, PingsAnswered, Alive
<1> QED BY <1>1, BasicsInvariant, PingStep, PTL DEF Spec, PingInv
-----------------------------------------------------------------------------
(***************************************************************************)
(* Nothing left behind.  A connection in hk_reader_on_data has had no      *)
(* hang-up reported: the closing of one that has is HangUp's.              *)
(***************************************************************************)
DataWithoutHangUp == pc = "data" => ~event.hup

LeftInv == DataWithoutHangUp /\ NothingLeftBehind

\* A frame the parser does not report is not there whole, or it is a stuck one.
LEMMA IncompleteNotWhole ==
    ASSUME Basics, InFrames, Result = "INCOMPLETE", Whole(Cur)
    PROVE  StuckAt(Cur)
<1>1. Begun(Cur)
  BY DEF Whole, Begun, Basics, TypeOK, Cur, HandshakePieces
<1>2. ParseResult(CurFrame, TRUE, Carried) = "INCOMPLETE"
  BY <1>1 DEF Result
<1> QED BY <1>2 DEF ParseResult, StuckAt, CurFrame

\* Where the reader and the frames it has read stay, what is left stays.
LEMMA LeftSame ==
    ASSUME Basics, LeftInv, UNCHANGED <<read, rpos, data_state>>, Left' => Left,
           \A k \in 1 .. rpos + 1 : k <= Len(frames) => frames'[k] = frames[k],
           DataWithoutHangUp'
    PROVE  LeftInv'
<1> SUFFICES ASSUME Left, data_state # "HANDSHAKE", Whole(Cur)
             PROVE  StuckAt(Cur)' \/ BehindSkipped'
  BY DEF LeftInv, NothingLeftBehind, Whole, Cur
<1>1. StuckAt(Cur) \/ BehindSkipped
  BY DEF LeftInv, NothingLeftBehind
<1>2. rpos \in Nat /\ rpos + 1 <= Len(frames)
  BY DEF Basics, TypeOK, Positions, Whole, Cur, HandshakePieces
<1>3. frames'[rpos + 1] = frames[rpos + 1] /\ (rpos > 0 => frames'[rpos] = frames[rpos])
  BY <1>2
<1> QED BY <1>1, <1>3 DEF StuckAt, BehindSkipped, Skipped, Cur

\* Every step keeps LeftInv.
LEMMA LeftStep == Basics /\ LeftInv /\ [Next]_vars => LeftInv'
<1> SUFFICES ASSUME Basics, LeftInv, [Next]_vars PROVE LeftInv'
  OBVIOUS
<1> USE DEF peerVars, clientVars, fragVars, outVars
<1>1. ASSUME pc' = "data", ~event'.hup PROVE LeftInv'
  BY <1>1 DEF LeftInv, DataWithoutHangUp, NothingLeftBehind, Left
<1>2. ASSUME InFrames \/ InHandshake, UNCHANGED event, pc' \in {"data", "gone"} PROVE LeftInv'
  BY <1>2 DEF InFrames, InHandshake, LeftInv, DataWithoutHangUp, NothingLeftBehind, Left
<1>3. CASE Peer
  <2>1. UNCHANGED <<read, rpos, data_state, pc, event>>
    BY <1>3 DEF Peer, PeerSendRequest, PeerSendFrame, PeerFinishFrame, PeerShutdown, serverVars
  <2>2. \A k \in 1 .. rpos + 1 : k <= Len(frames) => frames'[k] = frames[k]
    <3>1. ASSUME NEW f \in FrameSet, PeerSendFrame(f)
          PROVE  \A k \in 1 .. rpos + 1 : k <= Len(frames) => frames'[k] = frames[k]
      BY <3>1 DEF PeerSendFrame, Basics, TypeOK
    <3> QED BY <1>3, <3>1 DEF Peer, PeerSendRequest, PeerFinishFrame, PeerShutdown
  <2> QED BY <2>1, <2>2, LeftSame DEF Left, LeftInv, DataWithoutHangUp
<1>4. CASE EpollWait
  BY <1>4, LeftSame DEF EpollWait, Left, DataWithoutHangUp
<1>5. CASE HangUp
  BY <1>5, LeftSame DEF HangUp, Drop, Left, DataWithoutHangUp
<1>6. CASE ReadSocket
  BY <1>6, <1>1 DEF ReadSocket
<1>7. CASE HandshakeIncomplete
  BY <1>7 DEF HandshakeIncomplete, InHandshake, LeftInv, DataWithoutHangUp, NothingLeftBehind
<1>8. CASE HandshakeAccepted
  <2>1. rpos' = 0 /\ read' = HandshakePieces /\ pc' = "wait"
    BY <1>8 DEF HandshakeAccepted, ParseHandshake
  <2> QED
    BY <2>1 DEF LeftInv, DataWithoutHangUp, NothingLeftBehind, Whole, Cur, HandshakePieces
<1>9. CASE FrameIncomplete
  <2>1. UNCHANGED <<read, rpos, data_state, frames>> /\ pc' = "wait"
    BY <1>9 DEF FrameIncomplete
  <2>2. Whole(Cur) => StuckAt(Cur)
    BY <1>9, IncompleteNotWhole DEF FrameIncomplete
  <2> QED
    BY <2>1, <2>2 DEF LeftInv, DataWithoutHangUp, NothingLeftBehind, Whole, StuckAt, Cur
<1>10. CASE FrameUnmasked
  <2>1. rpos \in Nat /\ rpos' = rpos + 1 /\ pc' = "wait" /\ ~frames'[rpos'].masked
    BY <1>10 DEF FrameUnmasked, Basics, TypeOK, Cur, CurFrame
  <2> QED
    BY <2>1 DEF LeftInv, DataWithoutHangUp, NothingLeftBehind, BehindSkipped, Skipped
<1>11. CASE HandshakeRejected \/ FrameInvalid \/ FrameRefused \/ FrameClose
  BY <1>11, <1>2 DEF HandshakeRejected, FrameInvalid, FrameRefused, FrameClose, Accepted, Drop
<1>12. CASE FrameFragment \/ FrameLastFragment \/ FrameMessage \/ FramePing \/ FrameIgnored
  BY <1>12, <1>2 DEF FrameFragment, FrameLastFragment, FrameMessage, FramePing, FrameIgnored,
                     Accepted, InFrames
<1>13. CASE Outside
  <2>1. UNCHANGED <<read, rpos, data_state, pc, event, frames>>
    BY <1>13, OutsideLeavesAll DEF Basics
  <2> QED BY <2>1, LeftSame DEF Left, LeftInv, DataWithoutHangUp
<1> QED
  BY <1>3, <1>4, <1>5, <1>6, <1>7, <1>8, <1>9, <1>10, <1>11, <1>12, <1>13
     DEF Next, Outside, Reader, OnData

(***************************************************************************)
(* Whenever the reader turns from a connection, and when it closes one     *)
(* that hangs up, it has taken every frame it had read whole, but where it *)
(* stands before a stuck frame or right behind a skipped one.              *)
(***************************************************************************)
THEOREM SessionNothingLeftBehind == Spec => []NothingLeftBehind
<1>1. Init => LeftInv
  BY DEF Init, LeftInv, DataWithoutHangUp, NothingLeftBehind
<1> QED BY <1>1, BasicsInvariant, LeftStep, PTL DEF Spec, LeftInv
=============================================================================
