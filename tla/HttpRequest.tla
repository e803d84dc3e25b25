----------------------------- MODULE HttpRequest ------------------------------
(***************************************************************************)
(* hk_reader_parse_handshake_request (hk_reader.c) and the headers it      *)
(* collects (hk_request.c).  A character is abstracted to the class the    *)
(* parser sees in it; the words the parser looks for are characters of     *)
(* their own, for a cut inside a word ends as a cut before it does.        *)
(***************************************************************************)
EXTENDS Integers, Sequences, SequencesExt

NUL == "0"      \* the zero that ends a buffer

Upper == {"GET", "POST", "A", "K", "V", "O", "N"}
Lower == {"a", "k", "n"}
Blank == {"SP", "TAB"}
Separators == {"(", "/", "HTTP/1.1", "CR", "LF"} \cup Blank     \* not part of a header's name

ToUpper(c) == CASE c = "a" -> "A" [] c = "k" -> "K" [] c = "n" -> "N" [] OTHER -> c

\* The local variables: st is the parser's state, mark left_marker_position, name
\* where the current header's name lies, trail trailing_whitespaces_count; raised
\* are the characters toupper has been applied to, out is the value returned.
ParserStart ==
    [st |-> "start", mark |-> 0, name |-> <<1, 0>>, crlf |-> FALSE, trail |-> 0,
     raised |-> {}, headers |-> <<>>, out |-> "INCOMPLETE"]

Return(p, out) == [p EXCEPT !.out = out]
Go(p, st)      == [p EXCEPT !.st = st]
Mark(p, i, st) == [p EXCEPT !.st = st, !.mark = i]

Raised(t, at) == [i \in DOMAIN t |-> IF i \in at THEN ToUpper(t[i]) ELSE t[i]]

(***************************************************************************)
(* hk_request_add_header: a header without a name or value is left out,    *)
(* and of those with one name hk_hash_insert keeps the first.              *)
(***************************************************************************)
AddHeaderLast(p, name, value) ==       \* mutant: the last one is kept
    IF name = <<>> \/ value = <<>>
    THEN p.headers
    ELSE Append(SelectSeq(p.headers, LAMBDA h : h.name # name), [name |-> name, value |-> value])

AddHeader(p, name, value) ==
    IF name = <<>> \/ value = <<>> \/ \E i \in DOMAIN p.headers : p.headers[i].name = name
    THEN p.headers
    ELSE Append(p.headers, [name |-> name, value |-> value])

\* The header whose value began at mark ends `trail' characters before i.
WithHeader(p, t, i) ==
    LET u == Raised(t, p.raised)
    IN  [p EXCEPT !.trail = 0,
                  !.headers = AddHeader(p, SubSeq(u, p.name[1], p.name[2]),
                                           SubSeq(u, p.mark, i - p.trail - 1))]
-----------------------------------------------------------------------------
(***************************************************************************)
(* The states of the parser, at character i of t.                          *)
(***************************************************************************)
AtStart(p, i, c) ==
    CASE c \in {"CR", "LF", NUL} -> p
      [] c \in Upper             -> Mark(p, i, "method")
      [] OTHER                   -> Return(p, "INVALID")

AtMethod(p, t, i, c) ==
    CASE c = "SP" /\ SubSeq(t, p.mark, i - 1) = <<"GET">> -> Go(p, "spaces_before_uri")
      [] c \in Upper -> p
      [] OTHER       -> Return(p, "INVALID")

AtSpacesBeforeUri(p, i, c) ==
    CASE c \in {"/", "HTTP/1.1"}             -> Mark(p, i, "after_slash_in_uri")
      [] c \in Upper \cup Lower \cup {"SP"}  -> p
      [] OTHER                               -> Return(p, "INVALID")

AtUriZeroWaits(p, c) ==                \* mutant: the zero behind the data is not told apart
    CASE c = "SP"           -> Go(p, "spaces_before_http")
      [] c \in {"CR", "LF"} -> Return(p, "INVALID")
      [] OTHER              -> p

AtUri(p, c) ==
    CASE c = "SP"                -> Go(p, "spaces_before_http")
      [] c \in {"CR", "LF", NUL} -> Return(p, "INVALID")
      [] OTHER                   -> p

AtSpacesBeforeHttp(p, c) ==
    CASE c = "HTTP/1.1" -> Go(p, "header_crlf")
      [] c = "SP"       -> p
      [] OTHER          -> Return(p, "INVALID")

AtHeaderCrlf(p, i, c) ==
    CASE c \in {"CR", "LF"} -> [p EXCEPT !.trail = 0]
      [] c \in Blank        -> [Go(p, "header_lws") EXCEPT !.trail = 0]
      [] OTHER              -> [Mark(p, i, "header_name") EXCEPT !.trail = 0]

AtHeaderLwsGoesOn(p, i, c) ==          \* mutant: after an empty value an empty line ends nothing
    CASE c = "CR"     -> [p EXCEPT !.trail = 0]
      [] c = "LF"     -> [p EXCEPT !.trail = 0, !.crlf = TRUE]
      [] c \in Blank  -> [Go(p, "header_value") EXCEPT !.trail = 0, !.crlf = FALSE]
      [] OTHER        -> [Mark(p, i, "header_name") EXCEPT !.trail = 0, !.crlf = FALSE]

AtHeaderLws(p, i, c) ==
    CASE c = "CR"           -> [p EXCEPT !.trail = 0]
      [] c = "LF" /\ p.crlf -> Return(p, "DONE")
      [] c = "LF" /\ ~p.crlf -> [p EXCEPT !.trail = 0, !.crlf = TRUE]
      [] c \in Blank        -> [Go(p, "header_value") EXCEPT !.trail = 0, !.crlf = FALSE]
      [] OTHER              -> [Mark(p, i, "header_name") EXCEPT !.trail = 0, !.crlf = FALSE]

\* The first character of a name is not one of those raised.
AtHeaderName(p, i, c) ==
    CASE c \in Separators -> Return(p, "INVALID")
      [] c = ":"          -> [Go(p, "header_separator") EXCEPT !.name = <<p.mark, i - 1>>]
      [] OTHER            -> [p EXCEPT !.raised = @ \cup {i}]

AtHeaderSeparator(p, i, c) ==
    CASE c \in Blank \cup {"CR"} -> p
      [] c = "LF"                -> [Go(p, "header_lws") EXCEPT !.crlf = TRUE]
      [] OTHER                   -> Mark(p, i, "header_value")

AtHeaderValue(p, t, i, c) ==
    CASE c = "CR"                  -> [p EXCEPT !.trail = @ + 1]
      [] c = "LF" /\ p.crlf        -> Return(WithHeader(p, t, i), "DONE")
      [] c = "LF" /\ ~p.crlf       -> [p EXCEPT !.crlf = TRUE, !.trail = @ + 1]
      [] c \in Blank /\ p.crlf     -> [p EXCEPT !.crlf = FALSE, !.trail = 0]
      [] c \notin Blank \cup {"CR", "LF"} /\ p.crlf
                                   -> [Mark(WithHeader(p, t, i), i, "header_name") EXCEPT !.crlf = FALSE]
      [] OTHER                     -> p

ParserStep(p, t, i) ==
    IF p.out # "INCOMPLETE" THEN p
    ELSE CASE p.st = "start"              -> AtStart(p, i, t[i])
           [] p.st = "method"             -> AtMethod(p, t, i, t[i])
           [] p.st = "spaces_before_uri"  -> AtSpacesBeforeUri(p, i, t[i])
           [] p.st = "after_slash_in_uri" -> AtUri(p, t[i])
           [] p.st = "spaces_before_http" -> AtSpacesBeforeHttp(p, t[i])
           [] p.st = "header_crlf"        -> AtHeaderCrlf(p, i, t[i])
           [] p.st = "header_lws"         -> AtHeaderLws(p, i, t[i])
           [] p.st = "header_name"        -> AtHeaderName(p, i, t[i])
           [] p.st = "header_separator"   -> AtHeaderSeparator(p, i, t[i])
           [] p.st = "header_value"       -> AtHeaderValue(p, t, i, t[i])

\* The parser's state after each character of t, when it is run from rpos on.
Run(t, rpos) ==
    LET run[i \in rpos .. Len(t)] ==
            IF i = rpos THEN ParserStart ELSE ParserStep(run[i - 1], t, i)
    IN  run

ParseRequest(t, rpos) == Run(t, rpos)[Len(t)]
===============================================================================
