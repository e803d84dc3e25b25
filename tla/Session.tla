------------------------------- MODULE Session -------------------------------
(***************************************************************************)
(* One connection as the reader thread serves it: hk_reader_loop reads the *)
(* socket into buffer_in, hk_reader_on_data parses the handshake and then  *)
(* frame after frame, joins fragments (hk_client_add_fragment,             *)
(* hk_client_compile_fragments) and hands whole messages to                *)
(* hk_reader_handle_data_frame.  The peer may split its bytes anywhere and *)
(* may shut its side down at any time.                                     *)
(*                                                                         *)
(* The thread serves other connections too, and writing a message or a     *)
(* pong may hold it for as long as a recipient does not read.              *)
(*                                                                         *)
(* The byte stream is counted in pieces: HandshakePieces for the request,  *)
(* then two for each frame (some of its octets, all of them).              *)
(***************************************************************************)
EXTENDS WsFrame

CONSTANTS
    FrameSet,       \* the frames the peer may send
    RequestSet,     \* the kinds of handshake request the peer may send
    MaxFrames       \* bound: frames per connection

Requests == {"good",       \* parsed and accepted
             "refused",    \* parsed; fails hk_reader_validate_handshake_request
             "malformed",  \* rejected by hk_reader_parse_handshake_request
             "bare"}       \* no header at all: the parser never reports it done

ASSUME SessionAssumption ==
    /\ FrameSet \subseteq Frame
    /\ RequestSet \subseteq Requests
    /\ MaxFrames \in Nat

VARIABLES
    kind,           \* what the peer's request is
    frames,         \* the frames the peer has begun to send
    sent,           \* pieces the peer has put on the wire
    half,           \* the peer has shut down its side
    read,           \* pieces the reader has moved into buffer_in
    rpos,           \* frames consumed from buffer_in
    state,          \* client->state
    data_state,     \* client->data_state
    request,        \* is client->request set?
    frag,           \* client->fragmented_frame: opcode and utf8_state
    frag_data,      \* client->fragmented_data: the frames appended to it
    relayed,        \* messages handed to hk_reader_handle_data_frame
    ponged,         \* pings answered with a pong
    writing,        \* the reader thread is in the write loops of
                    \* hk_reader_handle_data_frame or hk_reader_handle_ping_frame,
                    \* for a frame of this connection or of another one
    pc,             \* the reader thread with this client: in epoll_wait, at an
                    \* event of the batch, in hk_reader_on_data, or done with it
    event           \* the event epoll_wait reported

peerVars   == <<kind, frames, sent, half>>
clientVars == <<state, data_state, request>>
fragVars   == <<frag, frag_data>>
outVars    == <<relayed, ponged, writing>>
vars       == <<peerVars, read, rpos, clientVars, fragVars, outVars, pc, event>>

HandshakePieces == 3    \* up to inside the request line, inside the headers, all
NoFragment      == [op |-> "NONE", utf8 |-> "NONE"]
NoEvent         == [in |-> FALSE, hup |-> FALSE]

TypeOK ==
    /\ kind \in RequestSet
    /\ frames \in Seq(FrameSet)
    /\ sent \in Nat /\ read \in Nat /\ rpos \in Nat
    /\ half \in BOOLEAN
    /\ state \in {"CONNECTING", "OPEN", "CLOSED"}
    /\ data_state \in {"HANDSHAKE", "FRAME", "FRAGMENT"}
    /\ request \in BOOLEAN
    /\ frag \in [op : {"NONE", "TEXT", "BIN"}, utf8 : Utf8States]
    /\ frag_data \in Seq(Nat)
    /\ relayed \in Seq([op : {"TEXT", "BIN"}, parts : Seq(Nat)])
    /\ ponged \in Seq(Nat)
    /\ writing \in BOOLEAN
    /\ pc \in {"wait", "event", "data", "gone"}
    /\ event \in [in : BOOLEAN, hup : BOOLEAN]

Init ==
    /\ kind \in RequestSet
    /\ frames = <<>> /\ sent = 0 /\ half = FALSE
    /\ read = 0 /\ rpos = 0
    /\ state = "CONNECTING" /\ data_state = "HANDSHAKE" /\ request = FALSE
    /\ frag = NoFragment /\ frag_data = <<>>
    /\ relayed = <<>> /\ ponged = <<>> /\ writing = FALSE
    /\ pc = "wait" /\ event = NoEvent
-----------------------------------------------------------------------------
(***************************************************************************)
(* The peer.  It sends its first frame after the 101 response.             *)
(***************************************************************************)
serverVars == <<read, rpos, clientVars, fragVars, outVars, pc, event>>

PeerSendRequest ==
    /\ ~half /\ sent < HandshakePieces
    /\ sent' \in sent + 1 .. HandshakePieces
    /\ UNCHANGED <<kind, frames, half, serverVars>>

PeerSendFrame(f) ==
    /\ ~half /\ state = "OPEN"
    /\ Len(frames) < MaxFrames
    /\ sent = HandshakePieces + 2 * Len(frames)
    /\ frames' = Append(frames, f)
    /\ sent' \in {sent + 1, sent + 2}
    /\ UNCHANGED <<kind, half, serverVars>>

PeerFinishFrame ==
    /\ ~half /\ state = "OPEN"
    /\ sent = HandshakePieces + 2 * Len(frames) - 1
    /\ sent' = sent + 1
    /\ UNCHANGED <<kind, frames, half, serverVars>>

PeerShutdown ==
    /\ ~half
    /\ half' = TRUE
    /\ UNCHANGED <<kind, frames, sent, serverVars>>
-----------------------------------------------------------------------------
(***************************************************************************)
(* hk_reader_loop.                                                         *)
(***************************************************************************)
\* Between two events of this connection the thread serves the others; a message
\* or a ping of theirs brings it into the same write loops.
Elsewhere ==
    /\ pc \in {"wait", "event"} /\ ~writing
    /\ writing' = TRUE
    /\ UNCHANGED <<peerVars, read, rpos, clientVars, fragVars, relayed, ponged, pc, event>>

\* The loops repeat a write that would block for as long as the recipient is open:
\* they end when it has read enough or is gone, and perhaps never.
Written ==
    /\ writing
    /\ writing' = FALSE
    /\ UNCHANGED <<peerVars, read, rpos, clientVars, fragVars, relayed, ponged, pc, event>>

\* Mutant: EPOLLRDHUP is not asked for.
EpollWaitDeaf ==
    /\ pc = "wait"
    /\ read < sent \/ half
    /\ event' = [in |-> read < sent, hup |-> FALSE]
    /\ pc' = "event"
    /\ UNCHANGED <<peerVars, read, rpos, clientVars, fragVars, outVars>>

EpollWait ==
    /\ pc = "wait"
    /\ read < sent \/ half
    /\ event' = [in |-> read < sent, hup |-> half]
    /\ pc' = "event"
    /\ UNCHANGED <<peerVars, read, rpos, clientVars, fragVars, outVars>>

\* hk_reader_drop_client: mark as closing, unref; the only reference is gone, so
\* hk_client_free closes the socket and frees the request and the fragments.
Drop ==
    /\ state' = "CLOSED"
    /\ request' = FALSE
    /\ frag' = NoFragment /\ frag_data' = <<>>
    /\ pc' = "gone"
    /\ UNCHANGED <<peerVars, read, data_state, outVars, event>>

\* The first branch of the loop: bytes still in the socket are not read.
HangUp ==
    /\ pc = "event" /\ event.hup
    /\ Drop /\ UNCHANGED rpos

\* read() until the socket is empty, then hk_reader_on_data.
ReadSocket ==
    /\ pc = "event" /\ ~event.hup
    /\ read' = sent
    /\ pc' = "data"
    /\ UNCHANGED <<peerVars, rpos, clientVars, fragVars, outVars, event>>
-----------------------------------------------------------------------------
(***************************************************************************)
(* hk_reader_on_data, HK_DATA_STATE_HANDSHAKE.  The parser starts from the *)
(* first byte each time.  It also reads the buffer's sentinel: where the   *)
(* request line is cut, the sentinel makes the request invalid; where the  *)
(* headers are cut, it does not.                                           *)
(***************************************************************************)
ParseHandshake ==
    CASE read = 0                                       -> "INCOMPLETE"
      [] read > 0 /\ kind = "malformed"                 -> "INVALID"
      [] read = 1 /\ kind # "malformed"                 -> "INVALID"
      [] read = HandshakePieces /\ kind \in {"good", "refused"} -> "DONE"
      [] OTHER                                          -> "INCOMPLETE"

InHandshake == pc = "data" /\ data_state = "HANDSHAKE"

HandshakeIncomplete ==
    /\ InHandshake /\ ParseHandshake = "INCOMPLETE"
    /\ request' = FALSE
    /\ pc' = "wait"
    /\ UNCHANGED <<peerVars, read, rpos, state, data_state, fragVars, outVars, event>>

HandshakeRejected ==
    /\ InHandshake
    /\ \/ ParseHandshake = "INVALID"
       \/ ParseHandshake = "DONE" /\ kind = "refused"
    /\ Drop /\ UNCHANGED rpos

HandshakeAccepted ==
    /\ InHandshake /\ ParseHandshake = "DONE" /\ kind = "good"
    /\ state' = "OPEN" /\ data_state' = "FRAME" /\ request' = TRUE
    /\ rpos' = 0
    /\ pc' = "wait"
    /\ UNCHANGED <<peerVars, read, fragVars, outVars, event>>
-----------------------------------------------------------------------------
(***************************************************************************)
(* hk_reader_on_data, HK_DATA_STATE_FRAME and HK_DATA_STATE_FRAME_FRAGMENT:*)
(* one step is one turn from parse_frame_from_buffer.                      *)
(***************************************************************************)
\* Mutant: the parser asks for an octet more than the frame has.
WholeAndMore(k) == read > HandshakePieces + 2 * k

Cur      == rpos + 1
CurFrame == frames[Cur]
Begun(k) == read >= HandshakePieces + 2 * k - 1    \* some of frame k is in buffer_in
Whole(k) == read >= HandshakePieces + 2 * k        \* all of it is

\* frame->utf8_state before the frame is parsed.
Carried == IF data_state = "FRAGMENT" THEN frag.utf8 ELSE "NONE"

InFrames == pc = "data" /\ data_state # "HANDSHAKE"

\* What parse_frame_from_buffer finds at rpos.
Result == IF Begun(Cur) THEN ParseResult(CurFrame, Whole(Cur), Carried)
                        ELSE "INCOMPLETE"

Accepted ==
    /\ InFrames /\ Result = "DONE"
    /\ CurFrame.masked /\ ~Refused(CurFrame, data_state)

FrameIncomplete ==
    /\ InFrames /\ Result = "INCOMPLETE"
    /\ pc' = "wait"
    /\ UNCHANGED <<peerVars, read, rpos, clientVars, fragVars, outVars, event>>

FrameInvalid ==
    /\ InFrames /\ Result \in {"INVALID_OPCODE", "CRITICAL"}
    /\ Drop /\ UNCHANGED rpos

\* "Received non-masked frame from client": the frame is skipped and the rest of
\* the buffer left for the next event.
FrameUnmasked ==
    /\ InFrames /\ Result = "DONE" /\ ~CurFrame.masked
    /\ rpos' = Cur
    /\ pc' = "wait"
    /\ UNCHANGED <<peerVars, read, clientVars, fragVars, outVars, event>>

FrameRefused ==
    /\ InFrames /\ Result = "DONE"
    /\ CurFrame.masked /\ Refused(CurFrame, data_state)
    /\ Drop /\ rpos' = Cur

\* Mutant: the header of the last fragment is kept.
WithFragmentLast == [op |-> CurFrame.op, utf8 |-> Utf8End(CurFrame, Carried)]

\* hk_client_add_fragment: the first fragment's header is kept, utf8_state is
\* that of the last one, the payload is appended.
WithFragment ==
    [op   |-> IF frag = NoFragment THEN CurFrame.op ELSE frag.op,
     utf8 |-> Utf8End(CurFrame, Carried)]

FrameFragment ==
    /\ Accepted /\ ~CurFrame.fin
    /\ data_state' = "FRAGMENT"
    /\ frag' = WithFragment /\ frag_data' = Append(frag_data, Cur)
    /\ rpos' = Cur
    /\ UNCHANGED <<peerVars, read, state, request, outVars, pc, event>>

\* hk_client_compile_fragments: the header kept, with all the data.
Compiled == [op |-> WithFragment.op, parts |-> Append(frag_data, Cur)]

\* The last fragment is added and the joined frame is handled as the message; the
\* fragment and its data are cleared.
FrameLastFragment ==
    /\ Accepted /\ CurFrame.fin /\ CurFrame.op = "CONT"
    /\ relayed' = Append(relayed, Compiled)
    /\ writing' = TRUE
    /\ data_state' = "FRAME"
    /\ frag' = NoFragment /\ frag_data' = <<>>
    /\ rpos' = Cur
    /\ UNCHANGED <<peerVars, read, state, request, ponged, pc, event>>

\* Mutant: the buffer is not moved past the frame.
FrameMessageAgain ==
    /\ Accepted /\ CurFrame.fin /\ CurFrame.op \in {"TEXT", "BIN"}
    /\ relayed' = Append(relayed, [op |-> CurFrame.op, parts |-> <<Cur>>])
    /\ writing' = TRUE
    /\ UNCHANGED <<peerVars, read, rpos, clientVars, fragVars, ponged, pc, event>>

FrameMessage ==
    /\ Accepted /\ CurFrame.fin /\ CurFrame.op \in {"TEXT", "BIN"}
    /\ relayed' = Append(relayed, [op |-> CurFrame.op, parts |-> <<Cur>>])
    /\ writing' = TRUE
    /\ rpos' = Cur
    /\ UNCHANGED <<peerVars, read, clientVars, fragVars, ponged, pc, event>>

\* Mutant: pings are answered between messages only.
FramePingBetween ==
    /\ Accepted /\ CurFrame.fin /\ CurFrame.op = "PING"
    /\ ponged' = IF data_state = "FRAME" THEN Append(ponged, Cur) ELSE ponged
    /\ writing' = (state = "OPEN")
    /\ rpos' = Cur
    /\ UNCHANGED <<peerVars, read, clientVars, fragVars, relayed, pc, event>>

\* hk_reader_handle_ping_frame.
FramePing ==
    /\ Accepted /\ CurFrame.fin /\ CurFrame.op = "PING"
    /\ ponged' = IF state = "OPEN" THEN Append(ponged, Cur) ELSE ponged
    /\ writing' = (state = "OPEN")
    /\ rpos' = Cur
    /\ UNCHANGED <<peerVars, read, clientVars, fragVars, relayed, pc, event>>

FrameClose ==
    /\ Accepted /\ CurFrame.fin /\ CurFrame.op = "CLOSE"
    /\ Drop /\ rpos' = Cur

\* Mutant: returns instead of going on with the next frame.
FrameIgnoredReturn ==
    /\ Accepted /\ CurFrame.fin /\ CurFrame.op = "PONG"
    /\ rpos' = Cur
    /\ pc' = "wait"
    /\ UNCHANGED <<peerVars, read, clientVars, fragVars, outVars, event>>

\* Unsupported frame type.
FrameIgnored ==
    /\ Accepted /\ CurFrame.fin /\ CurFrame.op = "PONG"
    /\ rpos' = Cur
    /\ UNCHANGED <<peerVars, read, clientVars, fragVars, outVars, pc, event>>

\* The connection is closed; nothing is left to do for it.
Gone == pc = "gone" /\ UNCHANGED vars
-----------------------------------------------------------------------------
Peer ==
    \/ PeerSendRequest
    \/ \E f \in FrameSet : PeerSendFrame(f)
    \/ PeerFinishFrame
    \/ PeerShutdown

OnData ==
    \/ HandshakeIncomplete \/ HandshakeRejected \/ HandshakeAccepted
    \/ FrameIncomplete \/ FrameInvalid \/ FrameUnmasked \/ FrameRefused
    \/ FrameFragment \/ FrameLastFragment \/ FrameMessage
    \/ FramePing \/ FrameClose \/ FrameIgnored

Reader == ~writing /\ (EpollWait \/ HangUp \/ ReadSocket \/ OnData)

Next == Peer \/ Reader \/ Elsewhere \/ Written \/ Gone

\* The reader thread comes round to every connection that is ready as long as its
\* writes end: epoll_wait reports the ready ones in turn, a batch of its events is
\* finite.  Nothing is said of when, or whether, a write ends; the peer may stop at
\* any time.
Spec == Init /\ [][Next]_vars /\ SF_vars(Reader)
=============================================================================
