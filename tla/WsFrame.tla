------------------------------- MODULE WsFrame -------------------------------
(***************************************************************************)
(* What hk_ws_frame_parse_buffer (hk_ws.c) and the protocol checks of      *)
(* hk_reader_on_data (hk_reader.c) decide about one frame.  A frame is     *)
(* abstracted to the fields these decisions read; its payload is reduced   *)
(* to a length class and to how its octets sit with respect to UTF-8       *)
(* character boundaries.                                                   *)
(***************************************************************************)
EXTENDS Integers, Sequences

DataOps    == {"CONT", "TEXT", "BIN"}
ControlOps == {"CLOSE", "PING", "PONG"}      \* opcodes with bit HK_WS_IS_CONTROL_FRAME
Opcodes    == DataOps \cup ControlOps \cup {"OTHER"}

(***************************************************************************)
(* "short":  the 7-bit length field (at most 125 octets);                  *)
(* "long":   an extended length field and more than 125 octets;            *)
(* "padded": an extended length field for fewer than 4 octets.             *)
(***************************************************************************)
Lengths == {"short", "long", "padded"}

(***************************************************************************)
(* The text classes: no octets; whole characters; whole characters, then   *)
(* the head of one more; the tail of a character, then whole ones; a tail, *)
(* then a head; octets that are in no UTF-8 text.                          *)
(***************************************************************************)
Texts == {"empty", "whole", "open", "close", "bridge", "bad"}

Frame == [op : Opcodes, fin : BOOLEAN, masked : BOOLEAN, rsv : BOOLEAN,
          len : Lengths, text : Texts]

(***************************************************************************)
(* hk_utf8_state_e, with "MID" for the seven states inside a character,    *)
(* and "ERR" for a rejected octet.                                         *)
(***************************************************************************)
Utf8States == {"NONE", "CHAR", "MID"}

Utf8After(expect, text) ==
    CASE expect = "NONE" \/ text = "empty"            -> expect
      [] expect = "CHAR" /\ text = "whole"            -> "CHAR"
      [] expect = "CHAR" /\ text = "open"             -> "MID"
      [] expect = "MID"  /\ text = "close"            -> "CHAR"
      [] expect = "MID"  /\ text = "bridge"           -> "MID"
      [] OTHER                                        -> "ERR"

\* The state hk_ws_frame_unmask_utf8_stream starts from; `carried' is the state
\* hk_reader_on_data copies from the fragmented frame.
Utf8Start(f, carried) ==
    CASE f.op = "TEXT" -> "CHAR"
      [] f.op = "BIN"  -> "NONE"
      [] OTHER         -> carried

Utf8End(f, carried) == Utf8After(Utf8Start(f, carried), f.text)

Utf8Rejected(f, carried) ==
    \/ Utf8End(f, carried) = "ERR"
    \/ f.fin /\ Utf8End(f, carried) = "MID"

(***************************************************************************)
(* hk_ws_frame_parse_buffer: `whole' says whether all octets of the frame  *)
(* are in the buffer.  The opcode is judged from the first octet; a text   *)
(* frame with a padded length is reported incomplete for ever.             *)
(***************************************************************************)
ParseResult(f, whole, carried) ==
    CASE f.op = "OTHER"                                    -> "INVALID_OPCODE"
      [] f.op = "TEXT" /\ f.len = "padded"                 -> "INCOMPLETE"
      [] ~whole                                            -> "INCOMPLETE"
      [] f.op \in DataOps /\ Utf8Rejected(f, carried)      -> "CRITICAL"
      [] f.op = "PING" /\ f.len = "long"                   -> "CRITICAL"
      [] OTHER                                             -> "DONE"

\* Mutant: data frames are let into a fragmented message.
RefusedLax(f, data_state) ==
    \/ f.rsv
    \/ f.op \in ControlOps /\ ~f.fin
    \/ f.op = "CONT" /\ data_state = "FRAME"

\* The checks of hk_reader_on_data on a masked frame that lead to a drop:
\* reserved bits, a fragmented control frame, a continuation of no message,
\* a data frame inside a fragmented message.
Refused(f, data_state) ==
    \/ f.rsv
    \/ f.op \in ControlOps /\ ~f.fin
    \/ f.op = "CONT" /\ data_state = "FRAME"
    \/ f.op \in {"TEXT", "BIN"} /\ data_state = "FRAGMENT"
=============================================================================
