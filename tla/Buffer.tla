-------------------------------- MODULE Buffer --------------------------------
(***************************************************************************)
(* hk_buffer_t (hk_buffer.c) without its octets: how many are used, the    *)
(* terminating zero included, how many there is room for, and where the    *)
(* next read begins.  The zero follows the data: it is written by every    *)
(* append, and not yet there in a buffer never appended to or cleared.     *)
(***************************************************************************)
EXTENDS Integers

CONSTANT PieceSize      \* HK_BUFFER_PIECE_SIZE

ASSUME BufferAssumption == PieceSize \in Nat \ {0}

Buffer == [used : Nat, size : Nat, rpos : Nat]

\* hk_buffer_init
NewBuffer(size) == [used |-> 0, size |-> size, rpos |-> 0]

\* Octets of data: hk_buffer_copy_string_without_sentinel.
Data(b) == IF b.used = 0 THEN 0 ELSE b.used - 1

\* A whole number of pieces, more than n octets.
Grown(n) == n + (PieceSize - (n % PieceSize))

\* Mutant: the zero is left out of account in every append.
RoomForAll(b, n) == b.used + n <= b.size + 1
RoomFor(b, n)    == b.used + n <= b.size

\* hk_buffer_append_string of n octets.  The room is tested before the first
\* append makes place for the zero.
AppendString(b, n) ==
    IF n = 0
    THEN b
    ELSE [used |-> (IF b.used = 0 THEN 1 ELSE b.used) + n,
          size |-> IF RoomFor(b, n) THEN b.size ELSE Grown(b.used + n),
          rpos |-> b.rpos]

\* Mutant: only the read position is reset.
ClearedRead(b) == [b EXCEPT !.rpos = 0]
\* hk_buffer_clear
Cleared(b) == [b EXCEPT !.used = 0, !.rpos = 0]

\* Every octet written lies in the room there is.
Fits(b) == b.used <= b.size
===============================================================================
