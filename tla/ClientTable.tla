----------------------------- MODULE ClientTable ------------------------------
(***************************************************************************)
(* reader->clients and the two threads that use it.  The main thread runs  *)
(* the accept loop, which adds clients, and at the end hk_reader_stop,     *)
(* which drops them all.  The reader thread runs hk_reader_loop: an event  *)
(* of a client completes its handshake, makes the thread pass a message on *)
(* to every open client of the table or answer a ping, drops the client,   *)
(* or does nothing of these.  hk_reader_free ends with the table and the   *)
(* reader themselves; a thread that is left then has nothing to run on.    *)
(***************************************************************************)
EXTENDS Hash, Sequences

CONSTANT MaxMessages    \* bound: messages passed on and pings answered
ASSUME MessagesAssumption == MaxMessages \in Nat

VARIABLES
    doing,      \* what each thread is doing in hk_reader.c
    epoll,      \* clients registered with epoll_fd
    batch,      \* events returned by epoll_wait and not yet handled
    open,       \* clients whose state is HK_STATE_OPEN
    closed,     \* clients freed by hk_client_unref
    running,    \* reader->running
    visited,    \* whom the message or pong has been written to
    messages,   \* messages passed on and pings answered
    \* History: clients whose insertion is done and whose removal is not, the
    \* open ones of them when the last message began, and whether calls have
    \* overlapped in a way hk_hash.c does not provide for.
    members, atStart, raced

readerVars  == <<doing, epoll, batch, open, closed, running, visited, messages>>
historyVars == <<members, atStart, raced>>
vars        == <<hashVars, readerVars, historyVars>>

Main   == "main"
Reader == "reader"
ASSUME ThreadsAssumption == Threads = {Main, Reader}

MainStates   == {"accept", "add", "dropall", "dropping", "join", "unjoined", "free", "stopped"}
ReaderStates == {"starting", "wait", "batch", "dropping", "message", "pong", "exited"}

TypeOK ==
    /\ HashTypeOK
    /\ doing \in [Threads -> MainStates \cup ReaderStates]
    /\ doing[Main] \in MainStates /\ doing[Reader] \in ReaderStates
    /\ epoll \subseteq Items /\ batch \subseteq Items
    /\ open \subseteq Items /\ closed \subseteq Items
    /\ running \in BOOLEAN /\ messages \in 0 .. MaxMessages
    /\ visited \in Seq(Items)
    /\ members \subseteq Items /\ atStart \subseteq Items /\ raced \in BOOLEAN

Init ==
    /\ HashInit
    /\ doing = [t \in Threads |-> IF t = Main THEN "accept" ELSE "starting"]
    /\ epoll = {} /\ batch = {} /\ open = {} /\ closed = {} /\ running = FALSE
    /\ visited = <<>> /\ messages = 0
    /\ members = {} /\ atStart = {} /\ raced = FALSE

Goes(t, from, to) == doing[t] = from /\ doing' = [doing EXCEPT ![t] = to]

\* Client objects are followed too: one that was freed leads nowhere.
Touch(c) == fault' = (c \in closed)
-----------------------------------------------------------------------------
(***************************************************************************)
(* hk_reader_add_client, on the main thread.                               *)
(***************************************************************************)
AddClient(c) ==
    /\ Goes(Main, "accept", "add")
    /\ ref[c] = 0 /\ c \notin freed
    /\ CallInsert(Main, c)
    /\ UNCHANGED <<epoll, batch, open, closed, running, visited, messages, members, atStart>>

\* epoll_ctl may fail, which is logged at most.
EpollAdd ==
    /\ Out(Main) /\ Goes(Main, "add", "accept")
    /\ epoll' \in {epoll, epoll \cup {at[Main].arg}}
    /\ UNCHANGED <<hashVars, batch, open, closed, running, visited, messages, members, atStart>>

(***************************************************************************)
(* hk_reader_drop_client, on either thread: epoll first, then the table,   *)
(* then the only reference on the client.                                  *)
(***************************************************************************)
Deregistered(c) == epoll \ {c}

DropClient(t, c, from) ==
    /\ Goes(t, from, "dropping")
    /\ epoll' = Deregistered(c)
    /\ Out(t) /\ at' = [at EXCEPT ![t].op = "remove", ![t].arg = c]
    /\ Touch(c)
    /\ UNCHANGED <<head, next, ref, freed, open, closed, running, visited, messages, members,
                   atStart>>

\* hk_client_mark_as_closing, hk_client_unref.
DropDone(t, to) ==
    /\ Out(t) /\ Goes(t, "dropping", to)
    /\ open' = open \ {at[t].arg}
    /\ closed' = closed \cup {at[t].arg} /\ Touch(at[t].arg)
    /\ members' = members \ {at[t].arg}
    /\ UNCHANGED <<head, next, ref, freed, epoll, batch, running, visited, messages, atStart>>
-----------------------------------------------------------------------------
(***************************************************************************)
(* hk_reader_stop and hk_reader_free, on the main thread.                  *)
(***************************************************************************)
\* The thread has not come to set running: nothing is dropped and none waited for.
StopEarly ==
    /\ ~running /\ Goes(Main, "accept", "unjoined")
    /\ UNCHANGED <<hashVars, epoll, batch, open, closed, running, visited, messages, members,
                   atStart>>

Stop ==
    /\ running /\ Goes(Main, "accept", "dropall")
    /\ CallCursorInit(Main)
    /\ UNCHANGED <<epoll, batch, open, closed, running, visited, messages, members, atStart>>

DropNext ==
    /\ at[Main].res # NULL
    /\ DropClient(Main, at[Main].res, "dropall")
    /\ UNCHANGED batch

DropNextDone ==
    /\ DropDone(Main, "dropall")
    /\ at' = [at EXCEPT ![Main].op = "next"]

\* Mutant: reader->running is left as it is.
AllDroppedRunning ==
    /\ Out(Main) /\ at[Main].res = NULL /\ Goes(Main, "dropall", "join")
    /\ UNCHANGED <<hashVars, epoll, batch, open, closed, running, visited, messages, members,
                   atStart>>

AllDropped ==
    /\ Out(Main) /\ at[Main].res = NULL /\ Goes(Main, "dropall", "join")
    /\ running' = FALSE
    /\ UNCHANGED <<hashVars, epoll, batch, open, closed, visited, messages, members, atStart>>

\* The thread has ended, or is not waited for; running is cleared again.
Joined ==
    /\ Goes(Main, "join", "free") /\ running' = FALSE
    /\ UNCHANGED <<hashVars, epoll, batch, open, closed, visited, messages, members, atStart>>

JoinNot == Joined                                   \* mutant: pthread_join missing
Join == doing[Reader] = "exited" /\ Joined

\* hk_reader_free calls hk_reader_stop again, which has something to stop if the
\* thread has set running since; if it does so after this, that is too late.
StopAgain ==
    /\ running /\ Goes(Main, "unjoined", "dropall")
    /\ CallCursorInit(Main)
    /\ UNCHANGED <<epoll, batch, open, closed, running, visited, messages, members, atStart>>

StopNothing ==
    /\ ~running /\ Goes(Main, "unjoined", "free")
    /\ UNCHANGED <<hashVars, epoll, batch, open, closed, running, visited, messages, members,
                   atStart>>

Free ==
    /\ Goes(Main, "free", "stopped")
    /\ HashFree
    /\ UNCHANGED <<epoll, batch, open, closed, running, visited, messages, members, atStart>>
-----------------------------------------------------------------------------
(***************************************************************************)
(* hk_reader_loop, on the reader thread.                                   *)
(***************************************************************************)
Begin ==
    /\ Goes(Reader, "starting", "wait")
    /\ running' = TRUE
    /\ UNCHANGED <<hashVars, epoll, batch, open, closed, visited, messages, members, atStart>>

\* The reader was freed under the thread.
Lost ==
    /\ doing[Main] = "stopped" /\ doing[Reader] # "exited"
    /\ fault' = TRUE
    /\ UNCHANGED <<head, next, ref, freed, at, readerVars, members, atStart>>

EpollWait ==
    /\ running /\ Goes(Reader, "wait", "batch")
    /\ batch' \in SUBSET epoll \ {{}}
    /\ UNCHANGED <<hashVars, epoll, open, closed, running, visited, messages, members, atStart>>

HangUp ==
    \E c \in batch :
        /\ DropClient(Reader, c, "batch")
        /\ batch' = batch \ {c}

HangUpDone == DropDone(Reader, "batch") /\ UNCHANGED at

\* hk_reader_on_data comes to its end; messages and pings may have come before,
\* and a frame that ends the connection is handled as a hang-up is.
Handled(c, opened) ==
    /\ Goes(Reader, "batch", "batch")
    /\ batch' = batch \ {c} /\ open' = open \cup opened /\ Touch(c)
    /\ UNCHANGED <<head, next, ref, freed, at, epoll, closed, running, visited, messages,
                   members, atStart>>

EventDone == \E c \in batch : Handled(c, {})

\* The request is complete and valid: the handshake is answered.
HandshakeDone == \E c \in batch \ open : Handled(c, {c})

\* hk_reader_handle_data_frame.
Message ==
    \E c \in batch \cap open :
        /\ messages < MaxMessages /\ messages' = messages + 1
        /\ Goes(Reader, "batch", "message") /\ Touch(c)
        /\ visited' = <<>> /\ atStart' = members \cap open
        /\ at' = [at EXCEPT ![Reader].op = "cursor"]
        /\ UNCHANGED <<head, next, ref, freed, epoll, batch, open, closed, running, members>>

\* The recipient that the cursor has returned has been dealt with.
ToNext ==
    /\ Out(Reader) /\ at[Reader].res # NULL /\ Goes(Reader, "message", "message")
    /\ Touch(at[Reader].res)
    /\ at' = [at EXCEPT ![Reader].op = "next"]
    /\ UNCHANGED <<head, next, ref, freed, epoll, batch, open, closed, running, messages,
                   members, atStart>>

PassOver  == at[Reader].res \notin open /\ ToNext /\ UNCHANGED visited
Recipient == at[Reader].res \in open /\ ToNext /\ visited' = Append(visited, at[Reader].res)

MessageDone ==
    /\ Out(Reader) /\ at[Reader].res = NULL /\ Goes(Reader, "message", "batch")
    /\ UNCHANGED <<hashVars, epoll, batch, open, closed, running, visited, messages, members,
                   atStart>>

\* hk_reader_handle_ping_frame.
Ping ==
    \E c \in batch \cap open :
        /\ messages < MaxMessages /\ messages' = messages + 1
        /\ Goes(Reader, "batch", "pong") /\ Touch(c)
        /\ visited' = <<c>>
        /\ UNCHANGED <<head, next, ref, freed, at, epoll, batch, open, closed, running, members,
                       atStart>>

Answered ==
    /\ Goes(Reader, "pong", "batch") /\ Touch(visited[1])
    /\ UNCHANGED <<head, next, ref, freed, at, epoll, batch, open, closed, running, visited,
                   messages, members, atStart>>

PongDone   == Answered /\ visited[1] \in open
PongFailed == Answered /\ visited[1] \notin open    \* dropped by the other thread

BatchDone ==
    /\ batch = {} /\ Goes(Reader, "batch", "wait")
    /\ UNCHANGED <<hashVars, epoll, batch, open, closed, running, visited, messages, members,
                   atStart>>

\* The wait times out after 250 ms, so that running is looked at again.
Exit ==
    /\ ~running /\ Goes(Reader, "wait", "exited")
    /\ UNCHANGED <<hashVars, epoll, batch, open, closed, running, visited, messages, members,
                   atStart>>
-----------------------------------------------------------------------------
\* A step inside hk_hash.c; an item becomes a member with the step that links it.
TableStep(t) ==
    /\ HashStep(t)
    /\ members' = IF at[t].op \in {"first", "after"} /\ at'[t].op = "out"
                  THEN members \cup {at[t].arg} ELSE members
    /\ UNCHANGED <<readerVars, atStart>>

\* What the threads do once begun, and what is up to clients and signals: a
\* client that does not read can hold up a write to it as long as it is open.
MainWork ==
    \/ EpollAdd \/ DropNext \/ DropNextDone \/ AllDropped \/ Join \/ StopAgain
    \/ StopNothing \/ Free \/ TableStep(Main)
ReaderWork ==
    \/ Begin \/ HangUp \/ HangUpDone \/ EventDone \/ HandshakeDone \/ Message \/ PassOver
    \/ MessageDone \/ Ping \/ PongFailed \/ BatchDone \/ Exit \/ TableStep(Reader)
Writes == Recipient \/ PongDone
Environment == Stop \/ StopEarly \/ EpollWait \/ \E c \in Items : AddClient(c)

(***************************************************************************)
(* The overlaps: an insertion with a removal from the same column; an      *)
(* insertion with a cursor between its two reads of row->next in the same  *)
(* column; hk_reader_drop_all_clients with the handling of an event;       *)
(* hk_reader_free, past its hk_reader_stop, with a thread not begun.       *)
(***************************************************************************)
Inserting(col)      == at[Main].op \in InsertOps /\ Column(at[Main].arg) = col
Removing(t, col)    == at[t].op \in RemoveOps /\ Column(at[t].arg) = col
Advancing(t, col)   == at[t].op = "advance" /\ at[t].col = col
Overlap ==
    \/ \E col \in Columns :
          Inserting(col) /\ (Removing(Reader, col) \/ Advancing(Reader, col))
    \/ doing[Main] \in {"dropall", "dropping"} /\ doing[Reader] \notin {"wait", "exited"}
    \/ doing[Main] = "free" /\ doing[Reader] = "starting"

Run(work) == ~fault /\ work /\ raced' = (raced \/ Overlap')
Ended     == doing[Main] = "stopped"
Halted    == (fault \/ (Ended /\ doing[Reader] = "exited")) /\ UNCHANGED vars

Next ==
    \/ ~Ended /\ (Run(MainWork) \/ Run(ReaderWork) \/ Run(Writes) \/ Run(Environment))
    \/ Run(Lost) \/ Halted

\* Each thread goes on with what it has begun; a write to a client need not end.
Spec == Init /\ [][Next]_vars /\ WF_vars(~Ended /\ Run(MainWork)) /\ WF_vars(~Ended /\ Run(ReaderWork))
=============================================================================
