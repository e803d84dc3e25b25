--------------------------- MODULE BroadcastSafety ----------------------------
(***************************************************************************)
(* The properties of Broadcast.                                            *)
(***************************************************************************)
EXTENDS Broadcast

Whole(s) ==
    /\ s.head = IF s.msg = Close THEN CloseLength ELSE HeadLength(log[s.msg].len)
    /\ s.body = IF s.msg = Close THEN 0 ELSE log[s.msg].len
    /\ s.straight

Writing(c) == to = c /\ pc \in {"first", "more"}

(***************************************************************************)
(* A recipient whose socket had room for every head and for the beginning  *)
(* of every payload reads whole frames, one after another, only the one    *)
(* being written excepted: the loop at hk_reader.c:688 resumes where the   *)
(* write before it stopped.  Before its handshake it reads nothing.        *)
(***************************************************************************)
StreamIntact ==
    \A c \in Clients :
        /\ state[c] = "CONNECTING" => stream[c] = <<>>
        /\ cut[c] = {} /\ ~gone[c] =>
              \A i \in DOMAIN stream[c] :
                  \/ Whole(stream[c][i])
                  \/ i = Len(stream[c]) /\ Writing(c)

(***************************************************************************)
(* A client is sent the messages that came while it was open, in the order *)
(* in which they came and no frame of any twice.  Unless the client has    *)
(* closed, each message has reached its socket to the last octet, but one  *)
(* for whose head or first octet the socket had no room at that moment     *)
(* (hk_reader.c:684, 686): such a message is lost to that client, wholly   *)
(* or in part, and no other one is.                                        *)
(***************************************************************************)
Reached(c, m) == \E i \in DOMAIN stream[c] : stream[c][i].msg = m /\ Whole(stream[c][i])

NoneLeftOut ==
    \A c \in Clients :
        /\ \A i, j \in DOMAIN stream[c] :
              i < j => stream[c][j].msg \in {Close} \cup (stream[c][i].msg + 1 .. Msg)
        /\ \A i \in DOMAIN stream[c] :
              stream[c][i].msg # Close => c \in log[stream[c][i].msg].for
        /\ pc = "idle" /\ ~gone[c] =>
              \A m \in DOMAIN log : c \in log[m].for => Reached(c, m) \/ m \in cut[c]

(***************************************************************************)
(* The reader thread comes back to its events, or else one recipient's     *)
(* socket is full for ever (hk_reader.c:695): its peer has stopped reading *)
(* and has not closed.                                                     *)
(***************************************************************************)
HeldUpByOneOnly ==
    []<>(pc = "idle") \/ \E c \in Clients : <>[](to = c /\ room[c] = 0 /\ ~gone[c])
=============================================================================
