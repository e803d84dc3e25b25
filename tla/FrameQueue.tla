------------------------------ MODULE FrameQueue ------------------------------
(***************************************************************************)
(* What reading frames from a stream of octets promises: the frames sent   *)
(* are taken in their order, each only when its last octet has come, none  *)
(* left out and none made up, wherever the network cuts the stream.        *)
(***************************************************************************)
EXTENDS Integers, Sequences

CONSTANTS
    Heads,          \* what a frame says of itself
    Octets(_)       \* the octets a frame with that head takes

VARIABLES
    frames,         \* the frames sent
    start,          \* start[k]: octets before frame k; the last: octets sent
    arrived,        \* octets that have come
    taken           \* the frames taken

vars == <<frames, start, arrived, taken>>

Init == frames = <<>> /\ start = <<0>> /\ arrived = 0 /\ taken = <<>>

Send(h) ==
    /\ frames' = Append(frames, h)
    /\ start' = Append(start, start[Len(start)] + Octets(h))
    /\ UNCHANGED <<arrived, taken>>

Arrive ==
    /\ arrived' \in arrived + 1 .. start[Len(start)]
    /\ UNCHANGED <<frames, start, taken>>

Take ==
    /\ Len(taken) < Len(frames)
    /\ start[Len(taken) + 2] <= arrived
    /\ taken' = Append(taken, frames[Len(taken) + 1])
    /\ UNCHANGED <<frames, start, arrived>>

Next == (\E h \in Heads : Send(h)) \/ Arrive \/ Take

Spec == Init /\ [][Next]_vars
===============================================================================
