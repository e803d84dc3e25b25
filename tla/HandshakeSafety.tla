--------------------------- MODULE HandshakeSafety ----------------------------
(***************************************************************************)
(* What the handshake must not depend on, and what it must come to.        *)
(***************************************************************************)
EXTENDS Handshake

\* What a request comes to when all of it is there at once.
ParsedAtOnce == [r \in Requests |-> ParseRequest(Text(r) \o <<NUL>>, 0)]

AtOnce(p) ==
    CASE p.out = "INCOMPLETE"                -> "none"
      [] p.out = "DONE" /\ Valid(p.headers)  -> "open"
      [] OTHER                               -> "dropped"

(***************************************************************************)
(* However the network cuts a request, whatever its headers, it comes to   *)
(* what it comes to at once (hk_reader.c:236), with the headers it has     *)
(* then, unless a cut lies inside its first line.                          *)
(***************************************************************************)
CutsDoNotMatter ==
    /\ outcome # "none" /\ ~cut => outcome = AtOnce(ParsedAtOnce[request])
    /\ outcome = "open" => headers = ParsedAtOnce[request].headers

(***************************************************************************)
(* A request of which a reader sees a part of the first line is dropped:   *)
(* the parser takes the zero behind the data for a character of the line   *)
(* (hk_reader.c:371).                                                      *)
(***************************************************************************)
CutLineDropped == cut /\ pc # "data" => outcome = "dropped"

(***************************************************************************)
(* A plain request has the right first line, its lines end with LF, and in *)
(* its headers the name comes before the first colon and has no separator, *)
(* the gap is the blanks after it, and a line of the value ends, with LF   *)
(* or CR LF, only where a folded one follows.  A value does not begin with *)
(* such an end (there its marker is still that of the name,                *)
(* hk_reader.c:503).                                                       *)
(***************************************************************************)
PlainValue(v) ==
    /\ v # <<>> => v[1] \notin Blank \cup {"CR", "LF"}
    /\ \A i \in DOMAIN v :
          /\ v[i] = "CR" => i < Len(v) /\ v[i + 1] = "LF"
          /\ v[i] = "LF" => i < Len(v) /\ v[i + 1] \in Blank

PlainHeader(h) ==
    /\ h.name # <<>> /\ Range(h.name) \cap (Separators \cup {":"}) = {}
    /\ Range(h.gap) \subseteq Blank
    /\ PlainValue(h.value)

Plain(r) ==
    /\ r.method = "GET" /\ r.version = "HTTP/1.1"
    /\ r.target # <<>> /\ r.target[1] = "/" /\ Range(r.target) \cap {"CR", "LF", NUL} = {}
    /\ r.eol \in {<<"CR", "LF">>, <<"LF">>}
    /\ r.headers # <<>>
    /\ \A h \in Range(r.headers) : PlainHeader(h)

\* Names are compared in upper case, the first letter as it is.
NameOf(h) == [i \in DOMAIN h.name |-> IF i = 1 THEN h.name[i] ELSE ToUpper(h.name[i])]

\* The header that counts: the first of that name that has a value.
Says(r, name, value) ==
    \E i \in DOMAIN r.headers :
        /\ NameOf(r.headers[i]) = name /\ r.headers[i].value = value /\ value # <<>>
        /\ \A j \in 1 .. i - 1 : NameOf(r.headers[j]) = name => r.headers[j].value = <<>>

(***************************************************************************)
(* The client of a plain request is let in if and only if it names a key,  *)
(* version 13 and, where origins are set, one of them: header lines are    *)
(* told apart as the request has them, folded, empty and repeated ones     *)
(* included.                                                               *)
(***************************************************************************)
Wanted(r) ==
    LET values == {r.headers[i].value : i \in DOMAIN r.headers}
    IN  /\ \E v \in values : Says(r, Key, v)
        /\ \E v \in values : Says(r, Version, v) /\ v[1] = "13"
        /\ origins # {} => \E v \in origins : Says(r, Origin, v)

LetsInTheWanted ==
    Plain(request) /\ ~cut => outcome \in {"none", IF Wanted(request) THEN "open" ELSE "dropped"}

\* Its headers have their values from the first character to the end of the line.
HeadersAsSent ==
    outcome = "open" /\ Plain(request) =>
        \A i \in DOMAIN headers : Says(request, headers[i].name, headers[i].value)

(***************************************************************************)
(* More of a plain request is awaited (HK_PARSE_INCOMPLETE) only as long   *)
(* as some of it has not come.                                             *)
(***************************************************************************)
AwaitsTheRestOnly == Plain(request) /\ pc = "wait" => Len(buffer_in) < Len(Text(request))
===============================================================================
