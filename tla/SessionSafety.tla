---------------------------- MODULE SessionSafety ----------------------------
(***************************************************************************)
(* The properties of Session.                                              *)
(***************************************************************************)
EXTENDS Session

MS == INSTANCE MessageStream
      WITH FrameSet <- FrameSet, frames <- frames, relayed <- relayed

Alive == state # "CLOSED"

(***************************************************************************)
(* The three places that say "inside a fragmented message" agree:          *)
(* data_state, fragmented_frame (which hk_reader_on_data dereferences      *)
(* when data_state says FRAGMENT) and fragmented_data, which holds exactly *)
(* the carrying frames of the message so far, whatever came between them.  *)
(***************************************************************************)
FragmentAgree ==
    Alive =>
      IF data_state = "FRAGMENT"
      THEN MS!Begins(frames, frag.op, frag_data, rpos)
      ELSE frag = NoFragment /\ frag_data = <<>>

(***************************************************************************)
(* Every message given to hk_reader_handle_data_frame is one whole message *)
(* of the peer: no fragment of another one in it, none of its own missing, *)
(* opcode that of its first fragment.                                      *)
(***************************************************************************)
RelayedWhole == \A n \in DOMAIN relayed : MS!IsMessage(frames, relayed[n])

(***************************************************************************)
(* What hk_reader_on_data hands over is the stream MessageStream promises: *)
(* in order, nothing skipped, nothing twice.                               *)
(***************************************************************************)
RelaysTheStream == MS!Spec

(***************************************************************************)
(* While the connection is open every ping consumed has been answered,     *)
(* once and in order, also inside a fragmented message.                    *)
(***************************************************************************)
PingsAnswered ==
    /\ \A i, j \in DOMAIN ponged : i < j => ponged[i] < ponged[j]
    /\ Alive => {ponged[i] : i \in DOMAIN ponged} =
                {k \in 1 .. rpos : frames[k].op = "PING" /\ frames[k].masked}

(***************************************************************************)
(* EPOLLRDHUP is acted on: a peer that shuts down gets dropped, unless the *)
(* thread is held in a write for ever.  (The recipient that holds it may   *)
(* be the very peer that shut down: it need only have stopped reading.)    *)
(***************************************************************************)
HalfClosedDropped == (half ~> ~Alive) \/ <>[]writing

(***************************************************************************)
(* The two kinds of frame the code gives up on: a text frame with an       *)
(* extended length below 4 is incomplete for ever (hk_ws.c:232), and after *)
(* a frame without a mask the rest of the buffer is left until more comes  *)
(* (hk_reader.c:276).                                                      *)
(***************************************************************************)
StuckAt(k) == frames[k].op = "TEXT" /\ frames[k].len = "padded"
Skipped(k) == ~frames[k].masked

BehindSkipped == rpos > 0 /\ Skipped(rpos)

\* The reader has turned from the connection, or a hang-up has closed it.
Left == pc \in {"wait", "event"} \/ (pc = "gone" /\ event.hup)

(***************************************************************************)
(* When the reader turns from a connection, and when a hang-up closes it,  *)
(* no frame is left whole in buffer_in, unless the reader stands before a  *)
(* stuck frame or right behind a skipped one.  So the loop by goto         *)
(* (hk_reader.c:333) leaves no frame to an event that may never come, and  *)
(* a hang-up loses only what has not been read from the socket.            *)
(***************************************************************************)
NothingLeftBehind ==
    Left /\ data_state # "HANDSHAKE" /\ Whole(Cur) => StuckAt(Cur) \/ BehindSkipped

(***************************************************************************)
(* A frame sent whole is consumed, or the connection ends, or the reader   *)
(* stands before a stuck frame, or right behind a skipped one with nothing *)
(* more to read - or the thread is held in a write for ever.  A frame that *)
(* follows a skipped one is thus taken as soon as anything more comes.     *)
(***************************************************************************)
FramesConsumed ==
    \/ \A k \in 1 .. MaxFrames :
        []<>(k <= Len(frames) /\ sent >= HandshakePieces + 2 * k
                => \/ rpos >= k
                   \/ ~Alive
                   \/ StuckAt(Cur)
                   \/ BehindSkipped /\ read = sent)
    \/ <>[]writing

(***************************************************************************)
(* hk_reader.c:267 says of an invalid opcode "skip frame": the connection  *)
(* would go on.                                                            *)
(***************************************************************************)
InvalidOpcodeSkipped ==
    [][InFrames /\ Result = "INVALID_OPCODE" => state' = state]_vars

(***************************************************************************)
(* hk_ws.c:292 says "Control frames are allowed payload up to 125 bytes":  *)
(* none longer is taken on an open connection.                             *)
(***************************************************************************)
ControlPayloadLimited ==
    Alive => \A k \in 1 .. rpos :
        frames[k].masked /\ frames[k].op \in ControlOps => frames[k].len # "long"
=============================================================================
