----------------------------- MODULE MCFrameInput -----------------------------
(***************************************************************************)
(* Buffers of three octets, grown by two; reads of two.  Payloads of no    *)
(* octet, of one, and of as many as an empty buffer has room for.          *)
(***************************************************************************)
EXTENDS FrameInputSafety

FewLengths == {0, 1, 3}

MaskedHead(op, fin, ext, len) ==
    [op |-> op, fin |-> fin, rsv |-> FALSE, masked |-> TRUE, ext |-> ext, len |-> len]

TenFrames ==
    {MaskedHead("TEXT", FALSE, 0, 3), MaskedHead("TEXT", FALSE, 0, 0), MaskedHead("CONT", FALSE, 0, 0), MaskedHead("CONT", TRUE, 0, 3),
     MaskedHead("TEXT", TRUE, 2, 1), MaskedHead("PING", TRUE, 0, 1), MaskedHead("PING", TRUE, 2, 3),
     MaskedHead("CLOSE", TRUE, 0, 0), MaskedHead("OTHER", TRUE, 0, 0),
     [MaskedHead("PONG", TRUE, 8, 1) EXCEPT !.masked = FALSE]}
===============================================================================
