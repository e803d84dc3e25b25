------------------------------ MODULE MCSession ------------------------------
(***************************************************************************)
(* Frames for model checking Session: mostly well-behaved frames, varied   *)
(* one field at a time, so that each branch of the parser and of the       *)
(* protocol checks is taken and fragments can be interleaved with control  *)
(* frames.                                                                 *)
(***************************************************************************)
EXTENDS SessionSafety

F(op, fin, text) == [op |-> op, fin |-> fin, masked |-> TRUE, rsv |-> FALSE,
                     len |-> "short", text |-> text]

\* Text messages in one frame and in fragments, with control frames between.
TextFrames ==
    {F("TEXT", TRUE, "whole"), F("TEXT", FALSE, "open"), F("TEXT", FALSE, "empty"),
     F("CONT", FALSE, "bridge"), F("CONT", FALSE, "empty"),
     F("CONT", TRUE, "close"), F("CONT", TRUE, "empty"), F("PING", TRUE, "empty")}

\* Every way a frame can be turned down, and what may surround it.
OddFrames ==
    {F("TEXT", TRUE, "whole"), F("TEXT", FALSE, "open"), F("TEXT", TRUE, "bad"),
     F("TEXT", TRUE, "open"),
     F("BIN", TRUE, "bad"), F("BIN", FALSE, "bad"),
     F("CONT", TRUE, "close"),
     F("PING", TRUE, "empty"), F("PING", FALSE, "empty"),
     F("PONG", TRUE, "empty"), F("CLOSE", TRUE, "empty"), F("OTHER", TRUE, "empty"),
     [F("PING", TRUE, "empty") EXCEPT !.len = "long"],
     [F("PONG", TRUE, "empty") EXCEPT !.len = "long"],
     [F("TEXT", TRUE, "whole") EXCEPT !.len = "padded"],
     [F("TEXT", TRUE, "whole") EXCEPT !.rsv = TRUE],
     [F("TEXT", TRUE, "whole") EXCEPT !.masked = FALSE],
     [F("CONT", TRUE, "close") EXCEPT !.masked = FALSE]}

Good == {"good"}
=============================================================================
