--------------------------- MODULE FrameInputSafety ---------------------------
(***************************************************************************)
(* What the octet level must guarantee to the protocol above it.           *)
(***************************************************************************)
EXTENDS FrameInput

(***************************************************************************)
(* hk_reader_loop and hk_ws_frame_parse_buffer keep FrameQueue's promise,  *)
(* though the parser reads octets that have not come (hk_ws.c:193, 230)    *)
(* and tests the head against the length of the whole buffer.              *)
(***************************************************************************)
FQ == INSTANCE FrameQueue WITH
        Heads <- FrameSet, Octets <- Octets, frames <- frames, start <- start,
        arrived <- arrived, taken <- taken

TakesFramesInOrder == FQ!Spec

(***************************************************************************)
(* Appends stay within the capacity (hk_buffer.c:117), except that data    *)
(* which exactly fills an empty buffer overruns it by the zero.  For       *)
(* fragmented_data that is the first fragment of a message that has any    *)
(* octets, be it the first one sent, or the last, and the capacity may     *)
(* have grown with messages before.  buffer_in, filled in smaller chunks,  *)
(* is spared.                                                              *)
(***************************************************************************)
AppendsFit ==
    /\ Fits(buffer_in)
    /\ \/ Fits(fragmented_data)
       \/ pieces = 1 /\ fragmented_data.used = fragmented_data.size + 1

\* The octets of a message's parts up to each of these heads: a data frame that is
\* no continuation begins anew, and frames that are skipped or no data add nothing.
OctetsSoFar(heads) ==
    LET sum[k \in 0 .. Len(heads)] ==
            IF k = 0 THEN 0
            ELSE IF ~heads[k].masked \/ heads[k].op \notin DataOps THEN sum[k - 1]
            ELSE IF heads[k].op = "CONT" THEN sum[k - 1] + heads[k].len
            ELSE heads[k].len
    IN  sum

(***************************************************************************)
(* The payload joined in fragmented_data has the octets of the fragments   *)
(* since its message began, empty ones and pings between them or not; so   *)
(* has the message hk_client_compile_fragments hands on.                   *)
(***************************************************************************)
JoinedLength ==
    data_state = "FRAGMENT" /\ pc # "gone" =>
        Data(fragmented_data) = OctetsSoFar(taken)[Len(taken)]

(***************************************************************************)
(* A client is dropped for an unknown opcode (hk_ws.c:204) only when the   *)
(* first octet of such a frame has come: that of a frame still under way   *)
(* is never made up.  Likewise for a ping, with all its octets.            *)
(***************************************************************************)
DroppedForCause ==
    LET k == Len(taken) + 1
    IN  /\ cause = "opcode" =>
              k \in DOMAIN frames /\ frames[k].op = "OTHER" /\ start[k] < arrived
        /\ cause = "ping" =>
              k \in DOMAIN frames /\ frames[k].op = "PING" /\ start[k + 1] <= arrived

(***************************************************************************)
(* A frame that has come whole is taken, or the client is dropped, or the  *)
(* reader stands before a padded text, awaited for ever (hk_ws.c:232), or  *)
(* right behind a frame without a mask with nothing more to read           *)
(* (hk_reader.c:276) - or the thread is held in a write for ever.          *)
(***************************************************************************)
Pending == Len(taken) < Len(frames) /\ start[Len(taken) + 2] <= arrived

AtPadded == Padded(frames[Len(taken) + 1])

BehindUnmasked == taken # <<>> /\ ~taken[Len(taken)].masked /\ Unread = 0

WholeFramesTaken ==
    \/ []<>(Pending => pc = "gone" \/ AtPadded \/ BehindUnmasked)
    \/ <>[]writing
===============================================================================
