--------------------------------- MODULE Utf8 ---------------------------------
(***************************************************************************)
(* The UTF-8 check of one message, octet by octet:                         *)
(* hk_ws_frame_unmask_utf8_stream runs over the (unmasked) payload of each *)
(* frame, and hk_client_add_fragment and hk_reader_on_data carry its state *)
(* over to the next frame.  A message cut in frames may have its cuts      *)
(* inside characters.                                                      *)
(***************************************************************************)
EXTENDS Integers, Sequences

CONSTANT Octets         \* the octets a payload is made of

ASSUME OctetsAssumption == Octets \subseteq 0 .. 255

VARIABLES
    opcode,         \* of the message: its first frame's
    expect,         \* the local variable of the frame being read
    utf8_state,     \* client->fragmented_frame->utf8_state
    out,            \* between two frames, in one, or what the message came to:
                    \* done, or HK_ERROR_CRITICAL for an octet or for its end
    pending,        \* history: the octets since the last character was whole
    char            \* history: that character, if nothing has come since

vars == <<opcode, expect, utf8_state, out, pending, char>>

Expectations ==
    {"NONE", "CHAR", "3_OCTETS_1", "3_OCTETS_2", "4_OCTETS_1", "4_OCTETS_2", "TAIL", "TAIL_X2",
     "TAIL_X3"}

TypeOK ==
    /\ opcode \in {"TEXT", "BIN"}
    /\ expect \in Expectations /\ utf8_state \in Expectations
    /\ out \in {"between", "frame", "done", "critical", "unfinished"}
    /\ pending \in Seq(Octets) /\ char \in Seq(Octets)
-----------------------------------------------------------------------------
(***************************************************************************)
(* The octets that may come in each state, and the state after them;       *)
(* "ERROR" stands for HK_ERROR_CRITICAL.                                   *)
(***************************************************************************)
AfterLeadGap(ch) ==                 \* mutant: the second range of three octets is left out
    CASE ch <= 127                       -> "CHAR"
      [] 194 <= ch /\ ch <= 223          -> "TAIL"
      [] ch = 224                        -> "3_OCTETS_1"
      [] 225 <= ch /\ ch <= 236          -> "TAIL_X2"
      [] ch = 237                        -> "3_OCTETS_2"
      [] ch = 240                        -> "4_OCTETS_1"
      [] 241 <= ch /\ ch <= 243          -> "TAIL_X3"
      [] ch = 244                        -> "4_OCTETS_2"
      [] OTHER                           -> "ERROR"

AfterLead(ch) ==
    CASE ch <= 127                       -> "CHAR"
      [] 194 <= ch /\ ch <= 223          -> "TAIL"
      [] ch = 224                        -> "3_OCTETS_1"
      [] 225 <= ch /\ ch <= 236          -> "TAIL_X2"
      [] ch = 237                        -> "3_OCTETS_2"
      [] 238 <= ch /\ ch <= 239          -> "TAIL_X2"
      [] ch = 240                        -> "4_OCTETS_1"
      [] 241 <= ch /\ ch <= 243          -> "TAIL_X3"
      [] ch = 244                        -> "4_OCTETS_2"
      [] OTHER                           -> "ERROR"

IsTail(ch) == 128 <= ch /\ ch <= 191

AfterOverlong(e, ch) ==             \* mutant: the second octet is a tail like the others
    CASE e = "NONE"                            -> "NONE"
      [] e = "CHAR"                            -> AfterLead(ch)
      [] e = "3_OCTETS_1" /\ IsTail(ch)          -> "TAIL"
      [] e = "3_OCTETS_2" /\ IsTail(ch)          -> "TAIL"
      [] e = "4_OCTETS_1" /\ IsTail(ch)          -> "TAIL_X2"
      [] e = "4_OCTETS_2" /\ IsTail(ch)          -> "TAIL_X2"
      [] e = "TAIL"    /\ IsTail(ch)             -> "CHAR"
      [] e = "TAIL_X2" /\ IsTail(ch)             -> "TAIL"
      [] e = "TAIL_X3" /\ IsTail(ch)             -> "TAIL_X2"
      [] OTHER                                 -> "ERROR"

After(e, ch) ==
    CASE e = "NONE"                                       -> "NONE"
      [] e = "CHAR"                                       -> AfterLead(ch)
      [] e = "3_OCTETS_1" /\ 160 <= ch /\ ch <= 191       -> "TAIL"
      [] e = "3_OCTETS_2" /\ 128 <= ch /\ ch <= 159       -> "TAIL"
      [] e = "4_OCTETS_1" /\ 144 <= ch /\ ch <= 191       -> "TAIL_X2"
      [] e = "4_OCTETS_2" /\ 128 <= ch /\ ch <= 143       -> "TAIL_X2"
      [] e = "TAIL"    /\ IsTail(ch)                        -> "CHAR"
      [] e = "TAIL_X2" /\ IsTail(ch)                        -> "TAIL"
      [] e = "TAIL_X3" /\ IsTail(ch)                        -> "TAIL_X2"
      [] OTHER                                            -> "ERROR"

\* The state a message's first frame starts from.
StartState(op) == IF op = "TEXT" THEN "CHAR" ELSE "NONE"
-----------------------------------------------------------------------------
\* A continuation goes on with the state copied from client->fragmented_frame.
ContinueAnew ==                     \* mutant: the state is not carried over
    /\ out = "between" /\ out' = "frame"
    /\ expect' = StartState(opcode)
    /\ UNCHANGED <<opcode, utf8_state, pending, char>>

Continue ==
    /\ out = "between" /\ out' = "frame"
    /\ expect' = utf8_state
    /\ UNCHANGED <<opcode, utf8_state, pending, char>>

Init ==
    /\ opcode \in {"TEXT", "BIN"}
    /\ expect = StartState(opcode) /\ utf8_state = "NONE"
    /\ out = "frame" /\ pending = <<>> /\ char = <<>>

\* What the history says of octet ch that leads to state e.
Record(e, ch) ==
    /\ pending' = IF e \in {"NONE", "CHAR"} THEN <<>> ELSE Append(pending, ch)
    /\ char' = IF e = "CHAR" THEN Append(pending, ch) ELSE <<>>

Octet(ch) ==
    /\ out = "frame" /\ After(expect, ch) # "ERROR"
    /\ expect' = After(expect, ch)
    /\ Record(After(expect, ch), ch)
    /\ UNCHANGED <<opcode, utf8_state, out>>

RejectedLate(ch) ==                 \* mutant: the state is set before it is looked at
    /\ out = "frame" /\ After(expect, ch) = "ERROR"
    /\ out' = "critical" /\ expect' = After(expect, ch)
    /\ Record("ERROR", ch)
    /\ UNCHANGED <<opcode, utf8_state>>

Rejected(ch) ==
    /\ out = "frame" /\ After(expect, ch) = "ERROR"
    /\ out' = "critical"
    /\ Record("ERROR", ch)
    /\ UNCHANGED <<opcode, expect, utf8_state>>

\* A frame that is not the message's last: hk_client_add_fragment.
Fragment ==
    /\ out = "frame" /\ out' = "between"
    /\ utf8_state' = expect
    /\ UNCHANGED <<opcode, expect, pending, char>>

Last ==
    /\ out = "frame"
    /\ out' = IF expect \in {"CHAR", "NONE"} THEN "done" ELSE "unfinished"
    /\ UNCHANGED <<opcode, expect, utf8_state, pending, char>>

Next ==
    \/ Continue \/ Fragment \/ Last
    \/ \E ch \in Octets : Octet(ch) \/ Rejected(ch)

Spec == Init /\ [][Next]_vars
===============================================================================
