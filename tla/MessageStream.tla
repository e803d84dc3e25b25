---------------------------- MODULE MessageStream ----------------------------
(***************************************************************************)
(* What one connection promises to the clients of its reader: the messages *)
(* its peer's frames spell, each whole, in the order sent, none left out   *)
(* and none made up.  Nothing is said about how many of them get relayed   *)
(* before the connection ends.                                             *)
(***************************************************************************)
EXTENDS WsFrame

CONSTANT FrameSet   \* the frames a peer may send

VARIABLES
    frames,         \* the frames the peer has sent so far
    relayed         \* the messages relayed, [op, parts]: parts are indices into frames

vars == <<frames, relayed>>

\* A frame that carries part of a message.  Frames without a mask are skipped.
Carries(fs, k) == fs[k].masked /\ fs[k].op \in DataOps

\* The frames numbered `parts' hold the beginning of one message, and they are
\* all the carrying frames from the first of them up to frame `upto'.
Begins(fs, op, parts, upto) ==
    /\ parts # <<>>
    /\ op = fs[parts[1]].op /\ op \in {"TEXT", "BIN"}
    /\ \A i \in DOMAIN parts : parts[i] \in 1 .. upto /\ Carries(fs, parts[i])
    /\ \A i, j \in DOMAIN parts : i < j => parts[i] < parts[j] /\ fs[parts[j]].op = "CONT"
    /\ \A k \in parts[1] .. upto : Carries(fs, k) => \E i \in DOMAIN parts : parts[i] = k

FirstPart(m) == m.parts[1]
LastPart(m)  == m.parts[Len(m.parts)]

\* m is one whole message: only its last frame has the FIN bit.
IsMessage(fs, m) ==
    /\ Begins(fs, m.op, m.parts, LastPart(m))
    /\ \A i \in DOMAIN m.parts : fs[m.parts[i]].fin <=> i = Len(m.parts)

\* The number of frames up to and including the last relayed one.
RelayedUpTo == IF relayed = <<>> THEN 0 ELSE LastPart(relayed[Len(relayed)])

\* What a message over the frames fs can look like.
Message(fs) == [op : {"TEXT", "BIN"},
                parts : UNION {[1 .. n -> 1 .. Len(fs)] : n \in 1 .. Len(fs)}]

Init == frames = <<>> /\ relayed = <<>>

Send ==
    /\ \E f \in FrameSet : frames' = Append(frames, f)
    /\ UNCHANGED relayed

\* m is the message that follows the last one relayed.
Relay(m) ==
    /\ relayed' = Append(relayed, m)
    /\ UNCHANGED frames
    /\ IsMessage(frames, m)
    /\ RelayedUpTo < FirstPart(m)
    /\ \A k \in RelayedUpTo + 1 .. FirstPart(m) - 1 : ~Carries(frames, k)

Next == Send \/ \E m \in Message(frames) : Relay(m)

Spec == Init /\ [][Next]_vars
=============================================================================
