------------------------------ MODULE FrameInput ------------------------------
(***************************************************************************)
(* From octets to frames: hk_reader_loop appends what it reads to          *)
(* buffer_in, hk_ws_frame_parse_buffer finds the frames in it, and         *)
(* hk_client_add_fragment and hk_client_compile_fragments join payloads in *)
(* fragmented_data.  Session takes for granted what is shown here, that a  *)
(* frame is parsed when all of it is there and not before.                 *)
(*                                                                         *)
(* The parser looks at octets that may not have come: the first two of the *)
(* head always, those of an extended length as soon as the buffer as a     *)
(* whole, frames already parsed included, has so many.  The octet behind   *)
(* the data is the buffer's zero; those behind it are anything.  Sizes are *)
(* scaled; payloads are counted and taken for good text.  No length comes  *)
(* near 2^63, where the sum at hk_ws.c:268 would wrap.                     *)
(***************************************************************************)
EXTENDS WsFrame, Buffer

CONSTANTS
    FrameSet,       \* the heads of the frames the peer may send
    PayloadLengths, \* the lengths it gives, and those read from octets not come
    BufferSize,     \* HK_READER_BUFFER_SIZE
    Chunk,          \* octets one read() asks for
    PingLimit,      \* payload of a ping: 125 octets
    MaxFrames       \* bound: frames sent

\* ext: octets of the extended length field.
Heads == [op : Opcodes, fin : BOOLEAN, rsv : BOOLEAN, masked : BOOLEAN,
          ext : {0, 2, 8}, len : PayloadLengths]

ASSUME FrameInputAssumption ==
    /\ PayloadLengths \subseteq Nat /\ PayloadLengths # {}
    /\ FrameSet \subseteq Heads
    /\ BufferSize \in Nat /\ Chunk \in Nat \ {0} /\ Chunk < BufferSize
    /\ PingLimit \in Nat /\ MaxFrames \in Nat

VARIABLES
    frames, start,      \* the frames sent; octets before each, and in all
    arrived,            \* octets in the socket or read from it
    buffer_in,
    fragmented_data,
    data_state,
    taken,              \* history: the heads parsed
    pieces,             \* history: appends to fragmented_data since it was cleared
    pc,                 \* epoll_wait, the read() loop, hk_reader_on_data,
                        \* hk_client_compile_fragments, or dropped
    cause,              \* why it was dropped
    writing             \* the thread is in the write loops, for a frame of this
                        \* connection or of another one

peerVars == <<frames, start, arrived>>
fragVars == <<fragmented_data, data_state, pieces>>
vars == <<peerVars, buffer_in, fragVars, taken, pc, cause, writing>>

TypeOK ==
    /\ frames \in Seq(FrameSet) /\ start \in Seq(Nat)
    /\ arrived \in Nat
    /\ buffer_in \in Buffer /\ fragmented_data \in Buffer
    /\ buffer_in.rpos <= Data(buffer_in)
    /\ data_state \in {"FRAME", "FRAGMENT"}
    /\ taken \in Seq(Heads)
    /\ pieces \in Nat
    /\ pc \in {"wait", "read", "parse", "compile", "gone"}
    /\ writing \in BOOLEAN
    /\ cause \in {"none", "opcode", "ping", "refused", "close"}

\* The handshake is done and hk_buffer_clear has emptied buffer_in.
Init ==
    /\ frames = <<>> /\ start = <<0>> /\ arrived = 0
    /\ buffer_in = NewBuffer(BufferSize) /\ fragmented_data = NewBuffer(BufferSize)
    /\ data_state = "FRAME" /\ pieces = 0
    /\ taken = <<>> /\ pc = "wait" /\ cause = "none" /\ writing = FALSE

HeadOctets(h) == 2 + h.ext + (IF h.masked THEN 4 ELSE 0)
Octets(h) == HeadOctets(h) + h.len
-----------------------------------------------------------------------------
(***************************************************************************)
(* The peer and the network.  The reader cannot tell when octets that have *)
(* not come were sent, so a frame is sent when the one before has come;    *)
(* once the socket is closed nothing matters any more.                     *)
(***************************************************************************)
SendFrame(h) ==
    /\ pc # "gone" /\ Len(frames) < MaxFrames
    /\ arrived = start[Len(start)]
    /\ frames' = Append(frames, h)
    /\ start' = Append(start, start[Len(start)] + Octets(h))
    /\ UNCHANGED <<arrived, buffer_in, fragVars, taken, pc, cause, writing>>

Arrive ==
    /\ pc # "gone"
    /\ arrived' \in arrived + 1 .. start[Len(start)]
    /\ UNCHANGED <<frames, start, buffer_in, fragVars, taken, pc, cause, writing>>
-----------------------------------------------------------------------------
(***************************************************************************)
(* hk_reader_loop.                                                         *)
(***************************************************************************)
\* Between two events of this connection the thread serves the others; a message
\* or a ping of theirs brings it into the same write loops.
Elsewhere ==
    /\ pc = "wait" /\ ~writing
    /\ writing' = TRUE
    /\ UNCHANGED <<peerVars, buffer_in, fragVars, taken, pc, cause>>

\* The loops end when their recipients have read enough or are gone, and perhaps
\* never.
Written ==
    /\ writing
    /\ writing' = FALSE
    /\ UNCHANGED <<peerVars, buffer_in, fragVars, taken, pc, cause>>

Unread == arrived - Data(buffer_in)

EpollWait ==
    /\ pc = "wait" /\ Unread > 0
    /\ pc' = "read"
    /\ UNCHANGED <<peerVars, buffer_in, fragVars, taken, cause, writing>>

ReadChunk ==
    /\ pc = "read" /\ Unread > 0
    /\ buffer_in' = AppendString(buffer_in, IF Unread < Chunk THEN Unread ELSE Chunk)
    /\ UNCHANGED <<peerVars, fragVars, taken, pc, cause, writing>>

WouldBlock ==
    /\ pc = "read" /\ Unread = 0
    /\ pc' = "parse"
    /\ UNCHANGED <<peerVars, buffer_in, fragVars, taken, cause, writing>>
-----------------------------------------------------------------------------
(***************************************************************************)
(* hk_ws_frame_parse_buffer.                                               *)
(***************************************************************************)
rpos == buffer_in.rpos
used == buffer_in.used

\* The first n octets from rpos have come.
Come(n) == rpos + n <= Data(buffer_in)

\* The frame at rpos, if the peer has sent one.
Here == {frames[k] : k \in {k \in DOMAIN frames : start[k] = rpos}}

\* Mutant: nothing ends the data, the octet behind it is anything.
FieldUnended(n, come, zero, any) == IF Come(n) THEN come ELSE any
\* The values of a field of octet n: as sent, or as the zero reads, or any.
Field(n, come, zero, any) == IF Come(n) THEN come ELSE IF Come(n - 1) THEN zero ELSE any

\* What the parser may take the head at rpos for.
HeadsRead ==
    {h \in [op     : Field(1, {f.op : f \in Here}, {"CONT"}, Opcodes),
            fin    : Field(1, {f.fin : f \in Here}, {FALSE}, BOOLEAN),
            rsv    : Field(1, {f.rsv : f \in Here}, {FALSE}, BOOLEAN),
            masked : Field(2, {f.masked : f \in Here}, {FALSE}, BOOLEAN),
            ext    : Field(2, {f.ext : f \in Here}, {0}, {0, 2, 8}),
            len    : PayloadLengths] :
        Come(2 + h.ext) => \A f \in Here : h.len = f.len}

\* Mutant: the last octet of the payload is not waited for.
ShortEarly(h) ==
    \/ h.ext > 0 /\ used < 2 + h.ext
    \/ h.masked /\ used < rpos + HeadOctets(h)
    \/ used < rpos + Octets(h)

\* Mutant: one octet more than the payload is waited for.
ShortLate(h) ==
    \/ h.ext > 0 /\ used < 2 + h.ext
    \/ h.masked /\ used < rpos + HeadOctets(h)
    \/ used <= rpos + Octets(h) + 1

\* The tests of buffer->used; the head's do not count from rpos.
Short(h) ==
    \/ h.ext > 0 /\ used < 2 + h.ext
    \/ h.masked /\ used < rpos + HeadOctets(h)
    \/ used <= rpos + Octets(h)

\* A text frame with an extended length below 4 is awaited for ever.
Padded(h) == h.op = "TEXT" /\ h.ext > 0 /\ h.len < 4

Result(h) ==
    IF used < 2 THEN "INCOMPLETE"
    ELSE IF h.op = "OTHER" THEN "INVALID_OPCODE"
    ELSE IF Short(h) \/ Padded(h) THEN "INCOMPLETE"
    ELSE IF h.op = "PING" /\ h.len > PingLimit THEN "CRITICAL"
    ELSE "DONE"
-----------------------------------------------------------------------------
(***************************************************************************)
(* hk_reader_on_data, one turn from parse_frame_from_buffer.               *)
(***************************************************************************)
Incomplete(h) ==
    /\ Result(h) = "INCOMPLETE"
    /\ pc' = "wait"
    /\ UNCHANGED <<peerVars, buffer_in, fragVars, taken, cause, writing>>

Drop(why) == pc' = "gone" /\ cause' = why /\ UNCHANGED <<peerVars, fragVars, writing>>

Invalid(h) ==
    /\ Result(h) \in {"INVALID_OPCODE", "CRITICAL"}
    /\ Drop(IF Result(h) = "CRITICAL" THEN "ping" ELSE "opcode")
    /\ UNCHANGED <<buffer_in, taken>>

Parsed(h) ==
    /\ Result(h) = "DONE"
    /\ buffer_in' = [buffer_in EXCEPT !.rpos = rpos + Octets(h)]
    /\ taken' = Append(taken, h)

Unmasked(h) ==
    /\ Parsed(h) /\ ~h.masked
    /\ pc' = "wait"
    /\ UNCHANGED <<peerVars, fragVars, cause, writing>>

Refusal(h) == Parsed(h) /\ h.masked /\ Refused(h, data_state) /\ Drop("refused")

Close(h) == Parsed(h) /\ h.masked /\ ~Refused(h, data_state) /\ h.op = "CLOSE" /\ Drop("close")

\* hk_client_add_fragment
AddFragment(h) ==
    /\ fragmented_data' = AppendString(fragmented_data, h.len)
    /\ pieces' = pieces + (IF h.len > 0 THEN 1 ELSE 0)

Fragment(h) ==
    /\ Parsed(h) /\ h.masked /\ ~Refused(h, data_state) /\ ~h.fin
    /\ data_state' = "FRAGMENT"
    /\ AddFragment(h)
    /\ UNCHANGED <<peerVars, pc, cause, writing>>

LastFragment(h) ==
    /\ Parsed(h) /\ h.masked /\ ~Refused(h, data_state) /\ h.fin /\ h.op = "CONT"
    /\ AddFragment(h)
    /\ pc' = "compile"
    /\ UNCHANGED <<peerVars, data_state, cause, writing>>

\* hk_client_compile_fragments: the message has Data(fragmented_data) octets, and
\* is handed on to hk_reader_handle_data_frame.
CompileFragments ==
    /\ pc = "compile"
    /\ fragmented_data' = Cleared(fragmented_data) /\ pieces' = 0
    /\ data_state' = "FRAME"
    /\ writing' = TRUE
    /\ pc' = "parse"
    /\ UNCHANGED <<peerVars, buffer_in, taken, cause>>

\* Messages of one frame, pings and pongs; nothing is written for a pong.
Other(h) ==
    /\ Parsed(h) /\ h.masked /\ ~Refused(h, data_state)
    /\ h.fin /\ h.op \notin {"CONT", "CLOSE"}
    /\ writing' = (h.op # "PONG")
    /\ UNCHANGED <<peerVars, fragVars, pc, cause>>

OnData ==
    /\ pc = "parse"
    /\ \E h \in HeadsRead :
          \/ Incomplete(h) \/ Invalid(h) \/ Unmasked(h) \/ Refusal(h) \/ Close(h)
          \/ Fragment(h) \/ LastFragment(h) \/ Other(h)

Gone == pc = "gone" /\ UNCHANGED vars
-----------------------------------------------------------------------------
Reader == ~writing /\ (EpollWait \/ ReadChunk \/ WouldBlock \/ OnData \/ CompileFragments)

Next ==
    \/ \E h \in FrameSet : SendFrame(h)
    \/ Arrive \/ Reader \/ Elsewhere \/ Written \/ Gone

\* As in Session: the thread comes round to a connection that is ready as long as
\* its writes end, and nothing is said of when, or whether, a write ends.
Spec == Init /\ [][Next]_vars /\ SF_vars(Reader)
===============================================================================
