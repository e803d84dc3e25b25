-------------------------- MODULE ClientTableSafety ---------------------------
(***************************************************************************)
(* The properties of ClientTable.                                          *)
(***************************************************************************)
EXTENDS ClientTable, FiniteSets

Dropping(col) == \E t \in Threads : doing[t] = "dropping" /\ Column(at[t].arg) = col

(***************************************************************************)
(* hk_hash.c follows no pointer to an item or client that was freed, nor   *)
(* NULL, as long as calls do not overlap in the ways Overlap names.        *)
(***************************************************************************)
FaultOnlyWhenRaced == fault => raced

(***************************************************************************)
(* The table holds the clients added and not dropped, each in its column,  *)
(* in the order of their keys, although it is read and added to at once.   *)
(***************************************************************************)
TableExact ==
    ~raced => \A col \in Columns :
        ~Dropping(col) =>
            /\ InColumn(col) = {c \in members : Column(c) = col}
            /\ \A c \in InColumn(col) : next[c] # NULL => Key[next[c]] > Key[c]

(***************************************************************************)
(* A message goes to every client that was open when it began, to none     *)
(* twice, and to no other, although clients are added meanwhile: not to    *)
(* one that is in the table before its handshake is done, nor ever to one  *)
(* that epoll_ctl would not register (hk_reader.c:168).                    *)
(***************************************************************************)
MessageReachesAll ==
    (~raced /\ doing[Reader] = "message" /\ Out(Reader) /\ at[Reader].res = NULL) =>
        LET reached == {visited[i] : i \in DOMAIN visited}
        IN  /\ Cardinality(reached) = Len(visited)
            /\ reached = atStart /\ reached \subseteq members \cap epoll

(***************************************************************************)
(* References balance: while no cursor is in use a client in the table has *)
(* the one reference of the table, and the item of a client dropped has    *)
(* been freed.                                                             *)
(***************************************************************************)
ReferencesBalance ==
    (~raced /\ doing[Reader] \in {"wait", "batch"} /\ doing[Main] = "accept") =>
        /\ \A c \in members : ref[c] = 1 /\ c \notin freed
        /\ closed = freed

(***************************************************************************)
(* hk_reader_stop closes every client, those included that epoll_ctl would *)
(* not register, and the thread has ended before its reader is freed, if   *)
(* it had begun and handles no event meanwhile.                            *)
(***************************************************************************)
StopClosesAll ==
    (~raced /\ doing[Main] \in {"join", "free", "stopped"}) =>
        /\ members = {} /\ epoll = {} /\ freed = closed
        /\ doing[Main] # "join" => doing[Reader] = "exited"
        /\ \A col \in Columns : head[col] = NULL
        /\ \A c \in Items : ref[c] = 0

(***************************************************************************)
(* hk_reader_free returns, unless the reader thread is for ever in a write *)
(* to a client that is open and does not read (hk_reader.c:695, 739): the  *)
(* retries of hk_hash_insert and the loops of the cursor end, and the      *)
(* reader thread leaves its loop.                                          *)
(***************************************************************************)
InWrite ==
    \/ doing[Reader] = "pong" /\ visited[1] \in open
    \/ doing[Reader] = "message" /\ Out(Reader) /\ at[Reader].res \in open

StopReturns ==
    \/ doing[Main] \in {"dropall", "unjoined"} ~> (fault \/ doing[Main] = "stopped")
    \/ <>[]InWrite

(***************************************************************************)
(* hk_reader_add_client returns, whatever the reader thread does meanwhile.*)
(***************************************************************************)
AddReturns == doing[Main] = "add" ~> (fault \/ doing[Main] = "accept")
=============================================================================
