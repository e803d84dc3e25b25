------------------------------- MODULE Broadcast -------------------------------
(***************************************************************************)
(* What the clients of a reader are sent: hk_reader_handle_data_frame      *)
(* writes a message to every open client of the table, one after another,  *)
(* hk_reader_handle_ping_frame a pong to one.  The sockets do not block: a *)
(* write takes as many octets as there is room for, or none (EAGAIN).  The *)
(* result of writing the head is ignored; of the payload, a first write    *)
(* that takes nothing is given up, one that takes a part is followed by    *)
(* others, repeated until they take something or fail for good.            *)
(*                                                                         *)
(* Octets are counted.  All writes are the reader thread's, so that only   *)
(* the peers, who read or close, act in between.  The response to the      *)
(* handshake is the first thing written to a socket and is taken to fit.   *)
(* Who is in the table while the cursor walks is ClientTable's subject:    *)
(* here clients come and go between the events of the reader thread.       *)
(***************************************************************************)
EXTENDS Integers, Sequences

CONSTANTS
    Clients,
    Lengths,        \* payload lengths of the messages and pings that come
    Room,           \* octets a socket takes before its peer reads
    MaxMessages     \* bound: messages and pongs sent

ASSUME BroadcastAssumption ==
    /\ Lengths \subseteq Nat
    /\ Room \in Nat \ {0}
    /\ MaxMessages \in Nat

VARIABLES
    state,      \* recipient->state
    gone,       \* the peer has closed: writes fail
    room,       \* octets the socket takes
    stream,     \* for each frame begun, what the socket has taken of it
    log,        \* history: messages and pongs, and whom each is for
    cut,        \* history: the frames for whose head, or for the first octet of
                \* whose payload, the client's socket had no room
    pc,         \* the reader thread: idle, at the cursor, or about to write
    todo,       \* what the cursor has still to return
    to,         \* recipient
    data_offset, data_size

clientVars == <<state, gone>>
vars == <<clientVars, room, stream, log, cut, pc, todo, to, data_offset, data_size>>

Close == 0      \* stands for the number of a message where the frame is a close frame

\* What the socket has taken of a frame: octets of the head, octets of the
\* payload, and whether the latter are its first ones, each once.
Sent == [msg : Nat, head : Nat, body : Nat, straight : BOOLEAN]

TypeOK ==
    /\ state \in [Clients -> {"CONNECTING", "OPEN", "CLOSED"}]
    /\ gone \in [Clients -> BOOLEAN]
    /\ cut \in [Clients -> SUBSET Nat]
    /\ room \in [Clients -> 0 .. Room]
    /\ stream \in [Clients -> Seq(Sent)]
    /\ log \in Seq([len : Lengths, for : SUBSET Clients])
    /\ pc \in {"idle", "next", "head", "first", "more"}
    /\ todo \subseteq Clients /\ to \in Clients
    /\ data_offset \in Nat /\ data_size \in Nat

Init ==
    /\ state = [c \in Clients |-> "CONNECTING"]
    /\ gone = [c \in Clients |-> FALSE] /\ cut = [c \in Clients |-> {}]
    /\ room = [c \in Clients |-> Room]
    /\ stream = [c \in Clients |-> <<>>]
    /\ log = <<>>
    /\ pc = "idle" /\ todo = {} /\ to \in Clients
    /\ data_offset = 0 /\ data_size = 0

Msg == Len(log)
Payload == log[Msg].len

\* hk_ws_generate_frame_head, without a mask.
HeadLength(len) == IF len < 126 THEN 2 ELSE IF len < 65536 THEN 4 ELSE 10

\* hk_ws_generate_close_frame, without a mask.
CloseLength == 2
-----------------------------------------------------------------------------
(***************************************************************************)
(* write(2) of n octets to the socket of c.                                *)
(***************************************************************************)
Again  == -1        \* -1 with EAGAIN
Failed == -2        \* -1 with another error

Results(c, n) ==
    CASE gone[c]                            -> {Failed}
      [] ~gone[c] /\ n = 0                  -> {0}
      [] ~gone[c] /\ n > 0 /\ room[c] = 0   -> {Again}
      [] OTHER                              -> {r \in 1 .. n : r <= room[c]}

Taken(r) == IF r > 0 THEN r ELSE 0

Fill(c, r) == room' = [room EXCEPT ![c] = @ - Taken(r)]

\* The frame of message m to c is cut if it has come off short.
Cut(c, m, short) == cut' = [cut EXCEPT ![c] = IF short THEN @ \cup {m} ELSE @]
-----------------------------------------------------------------------------
(***************************************************************************)
(* The peers.                                                              *)
(***************************************************************************)
PeerReads(c) ==
    /\ ~gone[c] /\ room[c] < Room
    /\ room' \in {[room EXCEPT ![c] = n] : n \in room[c] + 1 .. Room}
    /\ UNCHANGED <<clientVars, stream, log, cut, pc, todo, to, data_offset, data_size>>

PeerCloses(c) ==
    /\ ~gone[c]
    /\ gone' = [gone EXCEPT ![c] = TRUE]
    /\ UNCHANGED <<state, room, stream, log, cut, pc, todo, to, data_offset, data_size>>
-----------------------------------------------------------------------------
(***************************************************************************)
(* Events of the reader thread.                                            *)
(***************************************************************************)
\* hk_reader_on_data: the handshake is done.
Open(c) ==
    /\ pc = "idle" /\ state[c] = "CONNECTING"
    /\ state' = [state EXCEPT ![c] = "OPEN"]
    /\ UNCHANGED <<gone, room, stream, log, cut, pc, todo, to, data_offset, data_size>>

\* hk_reader_drop_client, and hk_client_close with its close frame.
Drop(c) ==
    /\ pc = "idle" /\ state[c] # "CLOSED"
    /\ state' = [state EXCEPT ![c] = "CLOSED"]
    /\ \E r \in Results(c, CloseLength) :
          /\ Fill(c, r)
          /\ stream' = [stream EXCEPT ![c] = Append(@, [msg |-> Close, head |-> Taken(r),
                                                        body |-> 0, straight |-> TRUE])]
          /\ Cut(c, Close, Taken(r) < CloseLength)
    /\ UNCHANGED <<gone, log, pc, todo, to, data_offset, data_size>>

\* hk_reader_handle_data_frame begins: the cursor is to return the whole table.
Message(len) ==
    /\ pc = "idle" /\ Msg < MaxMessages
    /\ \E c \in Clients : state[c] = "OPEN"
    /\ log' = Append(log, [len |-> len, for |-> {c \in Clients : state[c] = "OPEN"}])
    /\ todo' = {c \in Clients : state[c] # "CLOSED"}
    /\ pc' = "next"
    /\ UNCHANGED <<clientVars, room, stream, cut, to, data_offset, data_size>>

\* hk_reader_handle_ping_frame begins.
Ping(c, len) ==
    /\ pc = "idle" /\ Msg < MaxMessages
    /\ state[c] = "OPEN" /\ len <= 125
    /\ log' = Append(log, [len |-> len, for |-> {c}])
    /\ todo' = {c}
    /\ pc' = "next"
    /\ UNCHANGED <<clientVars, room, stream, cut, to, data_offset, data_size>>
-----------------------------------------------------------------------------
(***************************************************************************)
(* The writes of both handlers.                                            *)
(***************************************************************************)
\* Mutant: a recipient that cannot take anything just now is passed over.
AddresseeWithRoom(c) == state[c] = "OPEN" /\ room[c] > 0
Addressee(c) == state[c] = "OPEN"

NextRecipient(c) ==
    /\ pc = "next" /\ c \in todo
    /\ todo' = todo \ {c}
    /\ IF Addressee(c)
       THEN /\ to' = c /\ pc' = "head"
            /\ data_offset' = 0 /\ data_size' = Payload
       ELSE UNCHANGED <<to, pc, data_offset, data_size>>
    /\ UNCHANGED <<clientVars, room, stream, log, cut>>

CursorDone ==
    /\ pc = "next" /\ todo = {}
    /\ pc' = "idle" /\ data_offset' = 0 /\ data_size' = 0
    /\ UNCHANGED <<clientVars, room, stream, log, cut, todo, to>>

WriteHead ==
    /\ pc = "head"
    /\ \E r \in Results(to, HeadLength(Payload)) :
          /\ Fill(to, r)
          /\ stream' = [stream EXCEPT ![to] = Append(@, [msg |-> Msg, head |-> Taken(r),
                                                         body |-> 0, straight |-> TRUE])]
          /\ Cut(to, Msg, Taken(r) < HeadLength(Payload))
    /\ pc' = "first"
    /\ UNCHANGED <<clientVars, log, todo, to, data_offset, data_size>>

\* Octets data_offset + 1 .. data_offset + Taken(r) follow what there is.
PutBody(s, r) ==
    [s EXCEPT ![Len(s)].body = @ + Taken(r),
              ![Len(s)].straight = @ /\ (r > 0 => data_offset = s[Len(s)].body)]

\* The while loop goes on after a write that took a part of what was left.
LoopsOn(r) == r > 0 /\ r < data_size

\* Mutant: the offset is that of the last write, not the sum.
AdvanceByLast(r) ==
    IF LoopsOn(r) THEN pc' = "more" /\ data_offset' = r /\ data_size' = data_size - r
                  ELSE pc' = "next" /\ UNCHANGED <<data_offset, data_size>>

Advance(r) ==
    IF LoopsOn(r)
    THEN pc' = "more" /\ data_offset' = data_offset + r /\ data_size' = data_size - r
    ELSE pc' = "next" /\ UNCHANGED <<data_offset, data_size>>

WritePayload ==
    /\ pc = "first"
    /\ \E r \in Results(to, data_size) :
          /\ Fill(to, r)
          /\ stream' = [stream EXCEPT ![to] = PutBody(@, r)]
          /\ Cut(to, Msg, r = Again)
          /\ Advance(r)
    /\ UNCHANGED <<clientVars, log, todo, to>>

\* Mutant: errno is not looked at.
RetriedAlways(r) == r < 0
Retried(r) == r = Again

\* The inner loop repeats a write that found no room.
WriteRest ==
    /\ pc = "more"
    /\ \E r \in Results(to, data_size) :
          /\ ~Retried(r)
          /\ Fill(to, r)
          /\ stream' = [stream EXCEPT ![to] = PutBody(@, r)]
          /\ Advance(r)
    /\ UNCHANGED <<clientVars, log, cut, todo, to>>

Reader ==
    \/ \E c \in Clients : NextRecipient(c)
    \/ CursorDone \/ WriteHead \/ WritePayload \/ WriteRest

Environment ==
    \/ \E c \in Clients : PeerReads(c) \/ PeerCloses(c) \/ Open(c) \/ Drop(c)
    \/ \E len \in Lengths : Message(len) \/ \E c \in Clients : Ping(c, len)

Next == Reader \/ Environment

\* The reader thread runs on; peers need not read.
Spec == Init /\ [][Next]_vars /\ WF_vars(Reader)
=============================================================================
