------------------------------ MODULE Handshake -------------------------------
(***************************************************************************)
(* The opening handshake of one connection: the peer's request comes in    *)
(* pieces, and at each of them hk_reader_on_data parses what buffer_in     *)
(* holds from its first character, the zero behind it included.  The       *)
(* parser writes to the buffer (toupper) and leaves its read position in   *)
(* it, so that an attempt is not independent of those before it.           *)
(***************************************************************************)
EXTENDS HttpRequest

CONSTANTS
    Requests,       \* the peer's requests: its first line and headers
    OriginSets      \* what config->origins may be: values of the Origin header; {} if not set

VARIABLES
    request,        \* what the peer sends
    origins,        \* config->origins
    buffer_in,      \* the characters of it that have been read
    rpos,           \* buffer_in->rpos
    pc,             \* epoll_wait, hk_reader_on_data, or the handshake is over
    outcome,        \* none yet, or the client is open, or dropped
    headers,        \* request->headers of the request accepted
    cut             \* history: an attempt found a part of the first line only

vars == <<request, origins, buffer_in, rpos, pc, outcome, headers, cut>>

(***************************************************************************)
(* A request: the lines before the first one that are empty, the words of  *)
(* the first line, the headers with their values, and the end of a line.   *)
(***************************************************************************)
HeaderText(h, eol) == h.name \o <<":">> \o h.gap \o h.value \o eol

HeadersText(hs, eol) == FlattenSeq([i \in DOMAIN hs |-> HeaderText(hs[i], eol)])

LineFrom(r) == IF r.lead THEN Len(r.eol) + 1 ELSE 1

Text(r) ==
    (IF r.lead THEN r.eol ELSE <<>>)
    \o <<r.method, "SP">> \o r.target \o <<"SP", r.version>> \o r.eol
    \o HeadersText(r.headers, r.eol) \o r.eol

(***************************************************************************)
(* What a client may send: lines end with CR or LF, the first line has no  *)
(* other blanks than those between its words, and the words that are not   *)
(* looked for may be anything.                                             *)
(***************************************************************************)
ASSUME RequestsAssumption ==
    \A r \in Requests :
        /\ r.lead \in BOOLEAN
        /\ r.method \in STRING \ {"CR", "LF", NUL} /\ r.version \in STRING
        /\ r.target \in Seq(STRING \ {"SP"})
        /\ r.eol \in Seq({"CR", "LF"}) /\ r.eol # <<>>
        /\ r.headers \in Seq([name : Seq(STRING), gap : Seq(STRING), value : Seq(STRING)])

\* The characters before the first line has been read as far as its version.
LineLength(r) == LineFrom(r) + 3 + Len(r.target)

TypeOK ==
    /\ request \in Requests /\ origins \in OriginSets
    /\ Len(buffer_in) <= Len(Text(request)) /\ rpos \in 0 .. Len(buffer_in) + 1
    /\ pc \in {"wait", "data", "done"}
    /\ outcome \in {"none", "open", "dropped"}
    /\ cut \in BOOLEAN

Init ==
    /\ request \in Requests /\ origins \in OriginSets
    /\ buffer_in = <<>> /\ rpos = 0
    /\ pc = "wait" /\ outcome = "none" /\ headers = <<>> /\ cut = FALSE

\* Some of the peer's request comes; hk_reader_loop reads all that is there.
Read ==
    /\ pc = "wait"
    /\ \E n \in Len(buffer_in) + 1 .. Len(Text(request)) :
        /\ buffer_in' = buffer_in \o SubSeq(Text(request), Len(buffer_in) + 1, n)
        /\ cut' = (cut \/ n \in LineFrom(request) .. LineLength(request) - 1)
    /\ pc' = "data"
    /\ UNCHANGED <<request, origins, rpos, outcome, headers>>
-----------------------------------------------------------------------------
(***************************************************************************)
(* hk_reader_validate_handshake_request.                                   *)
(***************************************************************************)
Key     == <<"K", "N">>     \* SEC-WEBSOCKET-KEY
Version == <<"V", "N">>     \* SEC-WEBSOCKET-VERSION
Origin  == <<"O", "N">>     \* ORIGIN

\* hk_request_get_header: the values headers of that name have, one at most.
Values(hs, name) == {hs[i].value : i \in {i \in DOMAIN hs : hs[i].name = name}}

\* Mutant: the origin is looked at only where there is one.
ValidAnyOrigin(hs) ==
    /\ Values(hs, Key) # {}
    /\ \E v \in Values(hs, Version) : v[1] = "13"
    /\ \A i \in DOMAIN hs : hs[i].name = Origin /\ origins # {} => hs[i].value \in origins

Valid(hs) ==
    /\ Values(hs, Key) # {}
    /\ \E v \in Values(hs, Version) : v[1] = "13"
    /\ origins = {} \/ Values(hs, Origin) \cap origins # {}
-----------------------------------------------------------------------------
(***************************************************************************)
(* hk_reader_on_data, HK_DATA_STATE_HANDSHAKE.                             *)
(***************************************************************************)
Attempt(p) == pc = "data" /\ buffer_in' = Raised(buffer_in, p.raised)

\* Mutant: the next attempt goes on where this one stopped.
IncompleteResumes(p) ==
    /\ Attempt(p) /\ p.out = "INCOMPLETE"
    /\ rpos' = Len(buffer_in) /\ pc' = "wait"
    /\ UNCHANGED <<request, origins, outcome, headers, cut>>

Incomplete(p) ==
    /\ Attempt(p) /\ p.out = "INCOMPLETE"
    /\ rpos' = 0 /\ pc' = "wait"
    /\ UNCHANGED <<request, origins, outcome, headers, cut>>

\* The client is dropped with its buffer: the place where parsing stopped is left out.
Rejected(p) ==
    /\ Attempt(p)
    /\ p.out = "INVALID" \/ (p.out = "DONE" /\ ~Valid(p.headers))
    /\ outcome' = "dropped" /\ pc' = "done"
    /\ UNCHANGED <<request, origins, rpos, headers, cut>>

\* hk_buffer_clear empties the buffer; hk_reader_handle_handshake responds.
Accepted(p) ==
    /\ pc = "data" /\ p.out = "DONE" /\ Valid(p.headers)
    /\ outcome' = "open" /\ headers' = p.headers /\ pc' = "done"
    /\ buffer_in' = <<>> /\ rpos' = 0
    /\ UNCHANGED <<request, origins, cut>>

OnData ==
    /\ pc = "data"
    /\ \E p \in {ParseRequest(buffer_in \o <<NUL>>, rpos)} :
           Incomplete(p) \/ Rejected(p) \/ Accepted(p)

Next == Read \/ OnData

Spec == Init /\ [][Next]_vars
===============================================================================
