# Hayk in TLA+

Hayk (`src/`) is a WebSocket server in C: a master process forks one worker
process for each address it listens on, a worker accepts connections and hands
them to a reader thread, and the reader thread parses what clients send and
passes every message on to all clients of that reader. This directory holds
TLA+ models of it, TLC configurations that check them on small instances, and
proofs, checked by TLAPS, of what matters most about a connection (from its
octets to frames, from octets to characters, from frames to messages, and from a
message to the streams of those it is passed on to), about the table of clients
that two threads share, and about masters and their workers.

## The system

| part | source | state | operations |
|---|---|---|---|
| commands | `main.c`, `hk_server.c` | the pid file | start, stop, restart, debug |
| master | `hk_server.c` | `server->restart`, the list of workers with their pids | fork the workers, wait in `pause`, signal handlers that stop the workers |
| worker | `hk_worker.c` | `worker->state`, the listening socket, its readers | initialise, accept, stop on SIGINT |
| reader | `hk_reader.c` | `running`, the epoll set, the table of clients | add, drop, drop all, the event loop, the broadcast |
| client table | `hk_hash.c` | columns of linked items with reference counts | insert, remove, cursor |
| connection | `hk_reader.c`, `hk_client.c` | `state`, `data_state`, `request`, `buffer_in`, `fragmented_frame`, `fragmented_data` | one event: handshake, then frame after frame |
| frame parser | `hk_ws.c` | a position in the buffer, the UTF-8 state | parse, unmask and check UTF-8; build frame heads |
| buffer | `hk_buffer.c` | `used`, `size`, `rpos` | append, clear, copy, trim |
| request | `hk_request.c`, `hk_reader.c:344` | headers in a hash table | parse, validate, answer |
| list, log, configuration, Base64 | `hk_list.c`, `hk_log.c`, `hk_config.c`, `hk_crypt.c` | | |

They interact by calls (worker to reader to client, table and parser), by
memory shared between a worker's main thread and its reader thread (the table,
the epoll set, `running`), by signals (command to master to worker), by fork and
wait, and through the pid file.

What is hard:

* The client table is lock-free in parts only. The main thread inserts while
  the reader thread removes and iterates; at the end the main thread drops all
  clients while the reader thread may be in the middle of an event.
* A message may come in fragments, with control frames between them, split
  anywhere by the network; three variables say whether a message is begun.
* Signals reach the master and a worker at any step, handlers nest, and what a
  handler does depends on how far the process has come.
* Commands work through a pid file that they check, truncate and write in
  separate steps.
* The two parsers read octets that have not come: the handshake parser the zero
  behind the data, the frame parser two octets and a length field wherever the
  read position is. Both are run again on the same buffer for every piece that
  comes, and the first of them writes to it.
* Sockets do not block, so that a write may take a part of a frame or nothing,
  and only some of the code looks at the result.

`PROJECT.json` lists these hazards one by one, at their lines, with the
properties that address them.

## The modules

| module | what it is |
|---|---|
| `Buffer` | `hk_buffer.c`: octets used, capacity and read position |
| `WsFrame` | the decisions of `hk_ws_frame_parse_buffer` and of the protocol checks on one frame |
| `FrameQueue` | what reading frames from octets promises: the frames sent, in order, each when it has come |
| `FrameInput` | from octets to frames: `hk_reader_loop`'s reads, the parser's tests of the buffer's length, the joining of fragments, over `Buffer` |
| `FrameInputSafety`, `FrameInputProofs` | its properties, the refinement of `FrameQueue` among them, and theorems |
| `Utf8` | the automaton of `hk_ws_frame_unmask_utf8_stream`, octet by octet and frame by frame |
| `Utf8Safety`, `Utf8Proofs` | what UTF-8 is, by code points, what that says of `Utf8`, and theorems |
| `Session` | one connection: the peer, `hk_reader_loop`, `hk_reader_on_data` |
| `MessageStream` | what a connection promises: the peer's messages, whole, in order, each once |
| `SessionSafety`, `SessionProofs` | the properties of `Session`, the refinement of `MessageStream` among them, and theorems |
| `HttpRequest` | the automaton of `hk_reader_parse_handshake_request`, over classes of characters |
| `Handshake` | the opening handshake: the automaton run again for each piece of the request, and the validation |
| `HandshakeSafety`, `HandshakeProofs` | its properties, and theorems |
| `Broadcast` | what recipients are sent, over sockets that take a part of a write or nothing |
| `BroadcastSafety` | its properties |
| `BroadcastProofs` | its theorems |
| `Hash` | `hk_hash.c`, one action for what a thread does between two writes to the table |
| `ClientTable` | the main and the reader thread over `Hash`, with the epoll set |
| `ClientTableSafety`, `ClientTableProofs` | its properties, and theorems |
| `Worker` | a worker process from its fork to its exit, with SIGINT at any point |
| `Server` | commands, masters, their signal handlers and the pid file, over `Worker` |
| `ServerSafety`, `ServerProofs` | its properties, and theorems |
| `SetInduction` | induction over the naturals, as two lemmas on sets of them that several proofs use |
| `MCSession`, `MCFrameInput`, `MCUtf8`, `MCHandshake`, `MCBroadcast`, `MCClientTable`, `MCServer` | the values of the constants for TLC |

How they fit together: `FrameInput` shows that frames are taken as they were
sent, and only when all of a frame is there, which is the step from octets to
frames that `Session` takes for granted; `Utf8` shows what the text classes of
`WsFrame` stand for; `Handshake` shows the outcomes that `Session` takes from its
kinds of request; `Broadcast` takes up the messages that `Session` hands on, and
`ClientTable` shows which clients the loop in it meets. `FrameInput` uses the
decisions of `WsFrame` and so shares them with `Session`. `Server` runs the
workers of `Worker`; what a worker does between two tests of its state is
`ClientTable`.

Definitions whose comment says "mutant" are no part of the model. Each differs
from the definition below it by one plausible slip; with it in place of that
definition TLC must find the property it is listed with in `PROJECT.json`
violated, which shows that the property depends on the code being as it is.

### Session

The peer's bytes are counted, not spelled: three pieces for the handshake
request (cut inside the first line, cut inside the headers, whole), two for each
frame (cut anywhere, whole). A frame is a record of the fields the code decides
by; of the payload there remain a length class and a text class, which says how
the octets sit with respect to UTF-8 character boundaries. `frag_data` holds
frame numbers instead of octets, so a message that mixes up fragments shows.
One action is one branch of `hk_reader_on_data`; the `goto` to the next frame is
`pc` staying at "data". `Drop` is `hk_reader_drop_client` with what it leads to
when the reader holds the only reference. The outcome of the handshake parser is
a function of the kind of request and of how much of it has come; that a request
cut inside its first line is rejected is part of it (`Handshake` shows why). What
the parser does when it looks beyond the end of the data is `FrameInput`'s
subject.

The peer sends frames only after the response, as the protocol demands.
Messages handed on are recorded in `relayed`; what the recipients get of them is
not part of this module, but that the writes take time is: `writing` is TRUE from
a message or a ping until the thread is out of the write loops
(`hk_reader.c:688`, `732`), and until then it does nothing else. The same goes
for the messages and pings of other connections (`Elsewhere`). `Written` has no
fairness: a recipient that is open and does not read, which may be the very peer
of this connection, holds the thread for as long as it likes.

`NothingLeftBehind` is the safety half of what a connection may expect: when the
thread turns from it, no frame that was read whole is left in the buffer, and a
hang-up drops none either, but for the two places where the code gives up.
`FramesConsumed` and `HalfClosedDropped` are the other half and hold unless the
thread is in a write for ever (`<>[]writing`).

### Buffer and FrameInput

Octets are counted, frames are heads: opcode, the bits, the size of the length
field, the length. `start[k]` is where frame `k` begins in the stream, so that
the frame at the read position is found by arithmetic and nothing is said of
octets that have not come. `HeadsRead` is the set of heads the parser may read
at `rpos`: a field whose octet has come is as it was sent, one that lies on the
zero behind the data is as zero reads, one beyond is anything. `Short` is the
code's tests of `buffer->used`, of which those for the length field count from
the start of the buffer and not from the read position; a length is thus read
from octets that have not come as soon as the buffer is long enough, and it is
the last test, of the whole frame, that must make good for it. Sizes are scaled
(capacity 3, pieces of 2, reads of 2 octets); the relation the code depends on,
that a read (1024 octets, `hk_reader.c:108`) is smaller than the first capacity
of a buffer (4096, `hk_client.c:11`), is an assumption on the constants, and the proofs use
nothing else of them. `AppendsFit` says what `hk_buffer_append_string` guarantees
and what it does not: the capacity check of an empty buffer leaves the
terminating zero out of account, so that an append to an empty buffer of exactly
the capacity (or a multiple of it to which the buffer has grown) is overrun by
that zero. In `fragmented_data` these are the first octets of a message, which
the first fragment may bring or, if those before it are empty, a later one, the
last included; so the last fragment's append (`LastFragment`) and the clearing
after it (`CompileFragments`) are two steps. `buffer_in` is never trimmed, and is
empty only before its first read. `writing`, `Elsewhere` and `Written` are those
of `Session`.

A frame is sent when the one before has come whole. This loses nothing: the
parser's reads beyond the data are arbitrary anyway. The mask's arithmetic is
left out, the text is taken for good (`Utf8`), and no length comes near 2^63,
where the sum in `hk_ws.c:268` would wrap.

### Utf8

One message. An octet is a number, `After` the code's transition table, `out`
whether a frame is being read or what the message came to. The state carried
from a fragment to the next is `utf8_state`; a continuation copies it, and
fragments may be empty. `pending` and `char` are history: the octets since the
last whole character, and the character just completed. The reference
(`Utf8Safety`) does not look at the table's rows: it computes the range of code
points that an octet sequence can still become and compares it with what its
length is for, with the surrogates and with U+10FFFF.

### HttpRequest and Handshake

A character is a class where the automaton cannot tell members apart, and a word
where it compares one (`GET`, `HTTP/1.1`). `AtStart` to `AtHeaderValue` are the
cases of the `switch`, each with its own assignments to the marker, to the count
of trailing blanks and to the buffer (`toupper`); a `return` sets `out`.
`Run` is the loop, over the data and the zero behind them, as the function that
gives the local variables after each character; `ParseRequest` is its last value.
`Handshake` runs it for every piece of the request from the first character
on, with the buffer as the attempts before have left it. A header whose key is
there already is not inserted again (`hk_hash_insert`), one without a value not
at all.

What the code does at the edges is stated, not idealised: a request cut inside
its first line is dropped (`CutLineDropped`), the zero behind the data being
taken for a character of it; a value that begins with a folded line is read from
the start of its name (`hk_reader.c:503`), so that `Plain` excludes it; the first
letter of a name is not raised as the others are; a request without headers is
awaited for ever, since the empty line is looked for after a header only.

### Broadcast

All writes are the reader thread's; in between, peers read, close or do neither.
A write takes any number of octets up to the room there is, or fails. The head
is written first and its result not looked at; `stream[c]` records for each frame
begun how many octets of head and payload the socket took, and whether the
payload's are its first ones, each once. `cut` is history: the messages for whose
head, or for the first octet of whose payload, the client's socket had no room.
`StreamIntact` says that these are the only ways to break a recipient's stream;
`NoneLeftOut` that they are the only ways to lose a message: each client that was
open when a message came and has not closed since has got all of it, but the
messages in `cut`, which it may have got a part of or nothing. The other half,
`HeldUpByOneOnly`, is what is left of liveness: the write of a rest is repeated
until it takes something (`hk_reader.c:695`), so that the reader thread comes back
unless one recipient stops reading and does not close. A pong is written the same
way by a function of its own (`hk_reader_handle_ping_frame`), modelled as a
message with one recipient. Of the frames' octets only the number is modelled.

### Hash and ClientTable

Threads are `main` and `reader`; `at[t]` is a thread's position inside
`hk_hash.c`, with its local variables, `doing[t]` its position in `hk_reader.c`.
Reads that are followed by a write to shared memory are one step with what
precedes them as long as no property could tell the difference; the second read
of the head (`hk_hash.c:109`), the two reads of `row->next`
(`hk_hash.c:237`, `240`) and the compare-and-set instructions are steps of their
own. Keys are the hashes of client ids. Ids are distinct and murmurhash3 of four
octets is a bijection, so distinct keys are assumed and the duplicate branch is
not modelled. Following NULL or a freed item has no defined outcome: `fault`
becomes true and nothing is claimed of what follows.

The code does *not* make all interleavings safe. `Overlap` names the four kinds
it does not provide for: an insertion with a removal in the same column, an
insertion while a cursor is between its two reads of `row->next` in the same
column, `hk_reader_drop_all_clients` while the reader thread handles an
event, and `hk_reader_free`, past its `hk_reader_stop`, with a thread that has not
begun. `raced` records that one has happened. Every property holds as long as
none has, and each of the four is necessary: with any of them left out of
`Overlap`, TLC finds `FaultOnlyWhenRaced` or another property violated. So the
runs separate the interleavings the table survives (insertions into a column
while a message goes round in it, removals by the thread that iterates, removal
of the very item a cursor stands on) from those it does not. These are defects
of the code as it stands; no doc or comment claims otherwise, which is why they
are hazards and not findings.

The thread sets `running` itself (`hk_reader.c:93`), so that a stop before that
returns at once, drops nothing and waits for nobody (`StopEarly`).
`hk_reader_free` calls `hk_reader_stop` again (`hk_reader.c:69`): if the thread
has set `running` by then, this one drops all clients and joins it (`StopAgain`);
if not (`StopNothing`), the table is freed under a thread that is about to run,
which is the fourth kind of overlap. `hk_reader_free` frees the table with what is
left in it (`HashFree`).

A client becomes one of `open` with an event that completes its handshake
(`HandshakeDone`), and only an open client is written to (`Recipient`), another is
passed over (`PassOver`). `EPOLL_CTL_ADD` may fail: such a client stays in the
table and is dropped with the rest, but as it is never read it never opens and is
sent nothing. A write to an open client may last for ever (`Recipient` and
`PongDone` have no fairness), and with it the join: `StopReturns` holds unless the
thread is in a write for ever (`InWrite`).

### Worker and Server

A worker is in one of nine places (`Kid`), and `Sigint` says for each what the
handler does there. A master's main line is `master[m].at`; its signal handlers
are a stack, each with the worker it is about to stop and whether it waits for
it. A signal is not delivered inside its own handler but may be inside the
other's, and the inner handler ends the waitpid of the outer one (no
`SA_RESTART`). `wpid` and `wstopping` are the master's copy of `worker->pid` and
`worker->state`. After the last worker's pid is stored the master is at "forked",
and `Pause` takes it into `pause()`: a signal handled before that does not end the
pause. A worker that is closing stops its readers, which may take for ever
(`ClientTable`), so that `Close` has no fairness; `StopReturns` and `ReloadServes`
hold unless a worker is closing for ever.

With `debug` the command is the master, and it calls `hk_worker_run` itself: the
worker has no process of its own (`is_forked`), a handler of the master interrupts
it (`Runs`), and `hk_worker_stop`, which finds a pid of 0, marks it as stopping.
The process ends when its worker cannot bind.

A fork of a worker may fail (`ForkMayFail`): -1 is stored as `worker->pid`. The
handlers then `kill(-1, SIGINT)`, which reaches every other process of the user,
here all workers and the other masters, and `waitpid(-1)`, which takes any child
that has ended (`reaped`) and fails when there is none left. That a child forked
later has the -1 in its copy of the list, before it installs its own handlers, is
left out.

`Hasty` names what the code does not provide for: two commands on their way to
the pid file at once; a signal to a master that is not in `pause` (for SIGINT:
or past it); a signal inside the handler of another; SIGINT to a worker that
does not accept yet, that of a `debug` server included; `kill(-1)` while there is
another master to reach. `hasty` records that one has happened, and the
properties speak of behaviours without. Each clause is necessary: with one left
out TLC finds a property violated (two masters; a reload that never gets its
workers; a master in `pause` without workers; a stop that never returns, because
`hk_worker.c:169` overwrites the state that the handler has set, or because two
masters with failed forks signal each other for ever). A forked worker that goes
back into its master's loop (`hk_worker.c:106`) is not followed further; it takes
a hasty step to get there.

Reload is SIGUSR1 sent by hand, as the handler table allows. SIGTERM and SIGUSR2
are handled as SIGINT and SIGUSR1 and not distinguished. File operations, the
fork of the master and `daemon` are assumed to succeed. Pids are not reused.

## The runs

| run | instance | shows |
|---|---|---|
| `session_text` | 8 kinds of frame, 4 frames | the three places that say "inside a message" agree; messages are handed on whole; pings are answered inside messages too; the refinement of `MessageStream` |
| `session_odd` | 18 kinds of frame, 3 frames, all kinds of request | whatever is turned down, no frame read whole is left behind but at the two places where the code gives up; a frame sent whole is consumed in the end, and a peer that shuts down dropped, unless a write holds the thread for ever |
| `session_invalid_opcode` | as above, 2 frames | the comment "skip frame" (`hk_reader.c:267`) does not hold: the client is dropped |
| `session_control_payload` | as above, 2 frames | the limit of 125 octets (`hk_ws.c:292`) is kept for pings only |
| `frame_input` | 10 kinds of head, 3 frames of up to 13 octets, cut anywhere; buffers of 3 octets and pieces of 2 | the parser takes each frame when all of it has come and never before; no client is dropped for octets that have not come; appends fit but in one case; joined payloads have the length of their parts; every whole frame is taken, unless a write holds the thread for ever |
| `utf8` | 26 octets, one on each side of every bound | text is taken, all of it and nothing else, wherever a message is cut |
| `handshake` | some 340 requests of up to 3 headers, with and without origins, cut anywhere | the outcome does not depend on the cuts but for one inside the first line; who should be let in is; header values are those sent; nothing is awaited that has come |
| `broadcast` | 2 clients, 2 messages or pongs of 0 or 3 octets, room for 3 | streams stay whole where there was room for heads and beginnings; a message is lost to a client only for want of that room, none comes twice or out of order; only a client that stops reading holds up the reader |
| `client_table_one` | 3 clients, 1 column, 1 message | faults only after an overlap; exact table; messages go to all who are open and to nobody else; stop closes all; insertion returns |
| `client_table_two` | 3 clients, 2 columns, 1 message | the same across columns, where the cursor does not reference its row; reference counts; stop returns, unless a write holds the thread for ever |
| `server_restart` | start or debug, stop, restart, reload; 1 address, failing forks | one master at a time; stop means stopped; a new worker finds its address free; stop returns, unless a worker is closing for ever |
| `server_reload` | start or debug, stop, reload; 2 addresses, failing forks | a master in `pause` has one live worker per address; a reload ends with all of them accepting, as far as they could be forked, unless one is closing for ever |

Bounds. Four frames are what a fragmented message with an empty fragment and a
ping inside it, or two messages in a row, take; the state of a connection
between two frames is `data_state`, the carried UTF-8 state and the fragments,
all of which the 8 kinds of frame bring about. What goes beyond is proved.
Three frames let a parser stand behind two others, so that the tests that count
from the start of the buffer are met at once, and fill `fragmented_data` beyond
its first capacity. `Utf8` has no bound but the set of octets: its states are
finitely many. Three headers are the fewest for a header repeated and one after
it; each shape of value (empty, folded behind CR LF or LF, folded first, with a bare
CR, trailing blank) occurs before and after each other. In `Broadcast` a head and a payload
of 3 octets do not fit into the room of 3, so that every write may be partial
or find nothing. Three clients are the fewest for an item before, at and after
the place of insertion or removal; two columns are the fewest for the cursor's
second branch; the code has four (`HK_READER_CLIENTS_SCALE`), of which the
others repeat the second. One message suffices there, since nothing of a
broadcast but reference counts outlives it. Two masters are what a restart makes,
two workers what the order of stops and forks needs. Two `start` commands at once
are hasty, and one after the other is what a restart does while a master exists;
with a second one the runs grow beyond what can be checked in minutes.

The processes of `Server` may all end, a message of `Utf8` and a handshake do, a
peer of `FrameInput` may send no more, and the messages of `Broadcast` are
bounded, so deadlock is not checked there; `ClientTable` and `Session` have
explicit final steps (`Halted`, `Gone`), and deadlock is checked.

Fairness. `Session` and `FrameInput`: strong fairness of the reader thread's
steps for one connection (`SF(Reader)`). They are disabled while the thread
writes, for this connection or another, and again and again enabled if each write
ends. Then the thread comes round to the connection: a batch of events is finite,
and epoll reports the descriptors that are ready in turn. That a write ends is
not assumed (`Written`), since `hk_reader.c:695` and `739` repeat it for as long
as the socket is full; hence `<>[]writing` in the liveness properties, for a
thread that is never out of its write loops again. The peer may stop at any time,
also within a frame.
`Broadcast`: the thread goes on, each write being a step that may take nothing; a
recipient need not read. `Utf8` and `Handshake` state safety only.
`ClientTable`: each thread goes on with what it has begun, but a write to an open
client need not end; new clients, events and the stop come at will. `Server`:
commands, masters and workers are scheduled, and a signal pending at a process is
delivered; a worker's closing need not end; commands are issued and connections
made at will.

## What is proved

`SessionProofs` proves, for every set of frames, every set of requests and every
number of frames:

* `SessionTypeOK`: type correctness;
* `SessionFragmentAgree`: `data_state`, `fragmented_frame` and
  `fragmented_data` agree, so that `hk_reader.c:259` never dereferences NULL and
  no fragment of one message ends up in another;
* `SessionRelayedWhole`: what is handed on are whole messages;
* `SessionPingsAnswered`: pings are answered with one pong each, in order;
* `SessionNothingLeftBehind`: when the reader turns from the connection no frame
  it has read whole is left, but before a stuck frame or right behind a skipped
  one, and a hang-up loses only what has not been read;
* `SessionImplementsStream`: `Session` implements `MessageStream`.

The argument: `Basics` adds to `TypeOK` what ties positions and phases together
(a frame consumed has been read, one read has been sent; frames are served only
on an open connection; in mode FRAGMENT the opcode kept is that of a message).
`Stream` adds `FragmentAgree`, `RelayedWhole`, and that outside the fragments
held no carrying frame lies between the last message handed on and the position
of the reader. Without that last part the invariant is not inductive: the order
of messages and the absence of gaps could not be derived. `IInv`, the
conjunction, is inductive (`InvStep`), and each step maps to a `Relay` or `Send`
of `MessageStream` or to a stutter. Pings take
less: `PingInv` adds to `PingsAnswered` that pongs are for frames consumed and
that frames are served on an open connection. For `NothingLeftBehind` the
invariant is strengthened by `DataWithoutHangUp`: an event with a hang-up never
comes to `hk_reader_on_data`, so that a hang-up finds the buffer as the last event
left it. The only assumption is `SessionAssumption`,
on the types of the constants. Finite message sets in `MessageStream` need that
a message has no more parts than there are frames (`IncreasingBounded`), the one
place where cardinalities enter.

`FrameInputProofs` proves, for every set of heads, every capacity, every piece
size, every size of read below the capacity, and every number of frames:

* `FrameInputTypeOK`: type correctness, the read position within the data;
* `FrameInputAppendsFit`: an append overruns a buffer only when it brings the
  first octets of a message, in whichever of its fragments, and fills
  `fragmented_data` exactly with them, and then by the zero;
* `FrameInputDroppedForCause`: no client is dropped for octets that have not
  come;
* `FrameInputJoinedLength`: the joined payload has the octets of its fragments,
  whatever frames that add nothing lie between them;
* `FrameInputImplementsQueue`: `FrameInput` implements `FrameQueue`.

The inductive invariant `IInv` adds to `TypeOK` where things lie: `Layout`
(`start` sums the lengths of the frames, and no more has come than was sent),
`Aligned` (the read position is where the frame after those taken begins, and
what has been read has come), `InputFits` and `PiecesCount` (capacities), and
`CauseLast`. The step that needs thought is `DoneExact`: a head for which
`Result` is "DONE" is the frame's own, although it may have been read from
octets that had not come, because the last test, of the whole frame, puts all
octets of the head within the data, and then each field is as it was sent. Were
that test off by one (`ShortEarly`), it would not hold. For `JoinedLength`
the invariant is strengthened by `Joined`: outside a message `fragmented_data` is
empty, whether it was cleared or never filled. The sum over the frames taken is a
recursive function, `OctetsSoFar`, of whose values one frame more changes none
(`OctetsAppend`; `AllNat` stands in for the induction).

`HandshakeProofs` proves, for every set of requests within `RequestsAssumption`,
any cuts and any origins:

* `HandshakeTypes`: type correctness, the read position within the buffer;
* `HandshakeCutsDoNotMatter`: a request cut nowhere in its first line comes to
  what it comes to in one piece, with the headers it has then;
* `HandshakeCutLineDropped`: one cut there is dropped, whatever its words;
* `HandshakeLetsInTheWanted`: the client of a plain request not cut there is let
  in if and only if it asks for what the server wants;
* `HandshakeHeadersAsSent`: a header of a client let in has the value of the
  first header of that name that has one;
* `HandshakeAwaitsTheRestOnly`: more of a plain request is awaited only as long
  as some of it has not come.

`RequestsAssumption` says what a request is: lines end with characters CR and LF,
method and version are one word each, the target has no blank; names, gaps and
values of headers are any characters. Nothing is assumed of its being a
request the server would accept. The difficulty is that attempts are not
independent: each parses from the first character what those before have left,
with letters raised. The inductive invariant `IInv` is about the buffer and the
outcome only. `Awaiting` says that until the handshake is over the buffer holds
what has come of the request, but for letters raised where a run over the whole
request raises them too; `Over` that afterwards the outcome is the one of that
run. Between them lie three facts about the automaton, for every sequence of
characters:

* `RunAgrees`: two texts that differ in such letters only take it through the
  same states. A step looks at one character, and at those before it where a
  word or a header is taken out (`StepAgrees`); a letter is raised only where the
  automaton does not tell it from its upper case, and the copy taken of a name is
  of the letters raised (`HeaderAgrees`).
* `AtZero`: the zero behind the data ends a run with "INVALID" inside the first
  line, and anywhere else leaves it "INCOMPLETE".
* `LineRun`: where in the first line of a request the automaton is after each
  character, which makes of the former a statement on where the request was cut.

The last three theorems say what a run comes to, and not only that it comes to the
same. They are about plain requests, of any number of headers of any length. `Plain`
asks of the headers that a name, a gap and a value be what the parser can tell
apart (no colon in a name, no blank at the beginning of a value, which belongs to
the gap, no end of line in a value but before a folded line). Of what a client may
send it leaves out names with a separator in them, values with a CR that is not part
of an end of line, and those that begin with a folded line. The argument
(`PlainParse`) goes along the text line by line:

* `FirstLine`: behind the first line no header has been read.
* `HeaderLine`: a line of the header `h` takes the parser from "the headers are
  `c`" to "the headers are `Plus(c, h)`", where `Plus` adds a header that has a
  value and whose name is not there yet. "The headers are `c`" is `Due`: between
  two lines the header of the line above may not be inserted yet, since the next
  line may go on with it, so that `Due` has three cases, by the parser's state,
  and speaks of what will be inserted when the next character shows the header to
  be complete. Inside the line `NameRun`, `GapRun` and `ValueRun` say what the
  parser's marks lie on after each character: that the name is copied between its
  two marks with all letters but the first raised, and the value without the
  end of line counted behind it. In `ValueRun` a folded line leaves the value's marker
  where it is because the value has begun before it.
* `FlattenParts` finds the lines in the text, where header `n + 1` begins at the
  sum of the lengths of those before it (`TextLayout`, `HeaderTextIn`).
* `DueEnd`: the empty line inserts the last header and ends the request, before
  the zero behind the data is looked at.
* `CollectPlus`: adding the headers one by one leaves what `Says` promises, the
  first header of each name that has a value (`SaysIs`), from which
  `ValidIs` has what `Valid` finds among them.

With `IInv` this holds of the buffer too, in which earlier attempts have raised
letters. `AwaitsTheRestOnly` is not a consequence of `IInv`: that the attempt on
all of a request does not end with "INCOMPLETE" is a fact about the step, so that
it is kept step by step, with `IInv` before (`AwaitsStep`).

`Utf8Proofs` proves, for every set of octets and messages of any length:

* `Utf8TypeOK`;
* `Utf8TakesOnlyCharacters`: what is counted as a character is the UTF-8 form,
  in its shortest form, of a code point that is no surrogate and not beyond
  U+10FFFF, and a text is let through only where one ends;
* `Utf8WaitsForARest`: what has come since the last character can still become
  one;
* `Utf8RejectsNoText`: an octet is rejected only if no character goes on with it.

The invariant `Inv` says of each state of the automaton which octets may be
pending in it: after a first octet in `{224, 237, 240, 244}` the state is the one
of its own with the narrower bounds, otherwise `TAIL` and its relatives count
the octets still to come, and the octets pending begin a character. It speaks of
the state being used, `expect` inside a frame and `utf8_state` between two. The
lemmas are about one octet each: what a first octet leads to (`LeadFits`), that a
tail always fits (`TailTaken`), that the bounds for the second octet are those
that keep a code point in range (`SecondTaken`, `SecondRefused`).

`BroadcastProofs` proves, for every set of clients, all lengths of payloads, any
room in the sockets and any number of messages:

* `BroadcastTypeOK`: type correctness; `data_size`, which is unsigned, is never
  decreased below zero;
* `BroadcastStreamIntact`: a stream whose socket never refused a head or the
  beginning of a payload consists of whole frames, the one being written apart;
* `BroadcastNoneLeftOut`: a client that was open when a message came, and has not
  closed, has got all of its frame, unless its socket had no room for the head or
  the first octet; nobody is sent a message twice, out of order, or one that came
  while he was not open.

The inductive invariant `IInv` says where the writer stands: `Phase` and
`Recipient` (whom the cursor has still to return, and that the recipient is
none of them), `UnderWay` (the octets of the payload already taken and
`data_size` make up the payload, and they are what the stream ends with, unless
the frame is a cut one), `Intact` (every frame that is not cut is whole, but the
one being written), `Passed` (a message is in exactly the streams of those it is
for, except where it is `Due`) and `InOrder`. `Passed` counts frames begun; it is
with `Intact` that a frame begun and not cut is one the client has got all of.
`UnderWay` is what the two write loops have in
common: the octets a partial write leaves are the ones the next begins with.

`ServerProofs` proves, for any commands and any number of addresses:

* `ServerTypeOK`: type correctness; no handler goes beyond the workers there are;
* `ServerOneMaster`: as long as nothing has been hasty there is one master;
* `ServerStopMeansStopped`: after a stop that found a master, that master has
  cleared its pid file and its workers are over, whichever forks have failed;
* `ServerAddressFree`: a worker about to bind finds its address free.

None of these is inductive. `IInv` adds who is related to whom: `Births` (a
master is a command that has forked it), `Parents` (a worker has a master that
is past its pid file; a `debug` server has one worker, and runs as long as that
does), `PidTold` (the pid file holds the pid of the master there is, and while a
command is on its way to become one there is no other) and `StopsWaited` (a pid
that has been read is of a master that had written it, and a stop that is done
has found it gone). The worker's side is `Held`: a forked worker that has not
exited is the one whose pid its master holds, or is about to store, and the
handler, if there is one, has not got past it. From this everything a stop
waits for follows: a master that leaves its handler, or its loop, has nobody
alive. `Held` is kept by the waits of `hk_worker_stop` only as long as no handler
interrupts another and none runs while workers are being forked, two of the
clauses of `Hasty`.

The same module has the other direction:

* `ServerPausedHasWorkers`: a master in `pause` has exactly one worker alive for
  each address it could fork for, and holds its pid.

Its invariant `Crew`, inductive relative to `IInv`, follows a worker from its fork:
while its master is in no handler it has not been told to stop and has found its
address free, so that it is where it should be (`Manned`). A SIGINT to it could
come from a handler of its own master only: the pids another master holds are of
its own workers (`Owns`), and its `kill(-1)` would be hasty. That a worker is forked
at all takes that nobody has marked it as stopping, which `hk_worker_stop` does
when it finds no pid (`Unmarked`).

`ClientTableProofs` proves, for any set of clients with any distinct keys, any
number of columns and any number of messages, of every behaviour as far as
nothing has raced:

* `ClientTableTypes`: type correctness;
* `ClientTableFaultOnlyWhenRaced`: no pointer to a freed item or client, nor
  NULL, is followed;
* `ClientTableTableExact`: a column in which nothing is being dropped links
  exactly its clients, in the order of their keys;
* `ClientTableMessageReachesAll`: a message has gone, once, to each client that
  was open when it began, and to nobody else; each of these is in the table and
  registered with epoll;
* `ClientTableReferencesBalance`: while no cursor is in use each client in the
  table has the table's one reference, and those dropped have been freed;
* `ClientTableStopClosesAll`: after the stop every client is closed and freed,
  and the thread has ended before its reader is freed.

These are about each write and each read two threads do to the table, in every
interleaving outside of `Overlap`. The inductive invariant `IInv` says that as
long as nothing has raced `Parts` holds and there is no overlap. Its conjuncts:
`Where` (which positions in `hk_hash.c` go with which in `hk_reader.c`),
`Clients` (how the table, the epoll set, the batch and the items closed and
freed are related, at each point of a removal), `Opened` (an open client is
registered, and in the table until its removal), `Balanced` (an item's count is
that of the table and of the two cursors), `Chained` (each column links the
items `Listed` in the order of their keys), `Insertion`, `Removal` and `CursorAt`
(what the local variables of a call stand for: an insertion has found a place
that is still the right one, the predecessor found by a removal is linked and
below its item, a cursor's row is linked and above the item it has returned),
`DropsAll` and `Visits` (whatever is in the table is ahead of the cursor, or has
been returned by it). What is linked is not what is in the table: a client being
removed leaves `Listed` with the write that unlinks it and `Owned` with its
reference, and one being inserted has a reference before it is linked. Without
`Insertion` the compare-and-set of `hk_hash_insert` could link an item at a wrong
place: that it compares with the value read is enough because the chain below
that place is in order, which only the absence of removals in this column
guarantees. The proofs use `~Overlap` where the two threads meet. A step is shown to keep the parts of the
thread that takes it, then those of the other thread (`InsertFrame`, `RemoveFrame`
and `CursorFrame` say what such a step leaves alone).

The module begins with the facts about lists these rest on, about one write each:
`LinkFirst`, `LinkAfter`, `UnlinkFirst` and `UnlinkAfter` keep columns linked in
order, and in such a column what can be reached from the head is what is linked
(`ChainedInColumn`). The latter would be an induction along the list; instead
the item with the least key that breaks the claim is looked at (`LeastNat` of
`SetInduction`, from the library's theorem on well-founded relations).

The assumptions on constants (`SessionAssumption`, `FrameInputAssumption`,
`BufferAssumption`, `OctetsAssumption`, `BroadcastAssumption`,
`RequestsAssumption`, `WorkersAssumption`, `MastersAssumption`,
`StopsAssumption`, `HashAssumption`,
`ThreadsAssumption`, `MessagesAssumption`) are all the theorems rest on.

Every safety invariant and every action property that a passing run checks is
proved. Model-checked only are the liveness properties (`HalfClosedDropped`,
`FramesConsumed`, `WholeFramesTaken`, `HeldUpByOneOnly`, `AddReturns`,
`StopReturns`, `ReloadServes`), which are out of the prover's reach. The type
invariants of `Session`, `Handshake`, `Broadcast`, `ClientTable` and `Server`
document the variables and hold on the runs, but are not listed in them; they are
proved, and that of `ClientTable` while nothing has raced.

## Not modelled, and the plan

Left to do, in this order:

1. The octets of a frame head (`hk_ws_generate_frame_head`) against the
   parser's reading of them, as pure operators.
2. The duplicate branch of `hk_hash_insert` step by step; it is used for headers
   only, on one thread, where its result is modelled.

Left out for good:

* `hk_list.c`: filled once by one thread before anything else runs, then walked
  or emptied from its end; the modules that walk such a list have it as a
  sequence.
* `hk_config.c`: read once through libconfig before anything runs; its outcome
  are the constants `Workers` and `OriginSets`.
* `hk_log.c`: output only, and no part reads it.
* `hk_crypt.c` and the `Sec-WebSocket-Accept` header: a pure conversion of
  twenty octets, and OpenSSL's SHA-1.
* The text of the handshake's response (`hk_request_get_headers_string`, with
  `hk_buffer_copy_string`).
* `hk_buffer_copy` and `hk_buffer_trim_left`: called by nobody.
* A master that is killed, and so leaves its pid file and its workers behind.
* Failures of memory allocation; the kernel's sockets beyond what epoll and
  write report; lengths near 2^63; the two further reader threads of a worker,
  which are started and given no clients (`hk_worker.c:295`).
