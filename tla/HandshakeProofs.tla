---------------------------- MODULE HandshakeProofs ----------------------------
(***************************************************************************)
(* Proofs about Handshake, for all requests and however they are cut.      *)
(***************************************************************************)
EXTENDS HandshakeSafety, SetInduction, SequenceTheorems

\* The states of the first line, and those of the headers.
LineStates ==
    {"start", "method", "spaces_before_uri", "after_slash_in_uri", "spaces_before_http"}
HeaderStates ==
    {"header_crlf", "header_lws", "header_name", "header_separator", "header_value"}

Parser(st, mark, name, crlf, trail, raised, hdrs, out) ==
    [st |-> st, mark |-> mark, name |-> name, crlf |-> crlf, trail |-> trail,
     raised |-> raised, headers |-> hdrs, out |-> out]

IsParser(p) == p = Parser(p.st, p.mark, p.name, p.crlf, p.trail, p.raised, p.headers, p.out)

\* After k characters the parser's marks lie on what it has read.
Lies(p, k) ==
    /\ p.st \in LineStates \cup HeaderStates
    /\ p.out \in {"INCOMPLETE", "INVALID", "DONE"} /\ (p.out = "DONE" => p.st \in HeaderStates)
    /\ p.mark \in 0 .. k /\ (p.st # "start" => p.mark # 0)
    /\ p.name[1] \in Nat \ {0} /\ p.name[2] \in 0 .. k
    /\ p.trail \in Nat
    /\ p.raised \subseteq 1 .. k
    /\ p.st \in LineStates => p.raised = {}

Shape(p, k) == IsParser(p) /\ Lies(p, k)

\* From p the character c, which is the k-th, leads to q.  It is raised only where it
\* stands in a header's name.
Leads(p, q, k, c) ==
    /\ Shape(q, k)
    /\ q.raised # p.raised =>
          /\ p.st = "header_name" /\ c \notin Separators /\ c # ":"
          /\ q = [p EXCEPT !.raised = p.raised \cup {k}]
    /\ p.st \in HeaderStates => q.st \in HeaderStates
-----------------------------------------------------------------------------
LEMMA FieldsOf ==
    ASSUME NEW st, NEW mark, NEW name, NEW crlf, NEW trail, NEW raised, NEW hdrs, NEW out
    PROVE  LET q == Parser(st, mark, name, crlf, trail, raised, hdrs, out)
           IN  /\ IsParser(q)
               /\ q.st = st /\ q.mark = mark /\ q.name = name /\ q.crlf = crlf
               /\ q.trail = trail /\ q.raised = raised /\ q.headers = hdrs /\ q.out = out
BY DEF Parser, IsParser

\* The parser with some of its variables assigned.
LEMMA ReturnIs ==
    ASSUME NEW p, IsParser(p), NEW x
    PROVE  Return(p, x) = Parser(p.st, p.mark, p.name, p.crlf, p.trail, p.raised, p.headers, x)
BY DEF Parser, IsParser, Return

LEMMA GoIs ==
    ASSUME NEW p, IsParser(p), NEW x
    PROVE  Go(p, x) = Parser(x, p.mark, p.name, p.crlf, p.trail, p.raised, p.headers, p.out)
BY DEF Parser, IsParser, Go

LEMMA MarkIs ==
    ASSUME NEW p, IsParser(p), NEW x
    PROVE  [p EXCEPT !.mark = x] = Parser(p.st, x, p.name, p.crlf, p.trail, p.raised, p.headers, p.out)
BY DEF Parser, IsParser

LEMMA NameIs ==
    ASSUME NEW p, IsParser(p), NEW x
    PROVE  [p EXCEPT !.name = x] = Parser(p.st, p.mark, x, p.crlf, p.trail, p.raised, p.headers, p.out)
BY DEF Parser, IsParser

LEMMA CrlfIs ==
    ASSUME NEW p, IsParser(p), NEW x
    PROVE  [p EXCEPT !.crlf = x] = Parser(p.st, p.mark, p.name, x, p.trail, p.raised, p.headers, p.out)
BY DEF Parser, IsParser

LEMMA TrailIs ==
    ASSUME NEW p, IsParser(p), NEW x
    PROVE  [p EXCEPT !.trail = x] = Parser(p.st, p.mark, p.name, p.crlf, x, p.raised, p.headers, p.out)
BY DEF Parser, IsParser

LEMMA RaisedIs ==
    ASSUME NEW p, IsParser(p), NEW x
    PROVE  [p EXCEPT !.raised = x] = Parser(p.st, p.mark, p.name, p.crlf, p.trail, x, p.headers, p.out)
BY DEF Parser, IsParser

LEMMA HeadersIs ==
    ASSUME NEW p, IsParser(p), NEW x
    PROVE  [p EXCEPT !.headers = x] = Parser(p.st, p.mark, p.name, p.crlf, p.trail, p.raised, x, p.out)
BY DEF Parser, IsParser

LEMMA TrailCrlfIs ==
    ASSUME NEW p, IsParser(p), NEW x, NEW y
    PROVE  [p EXCEPT !.trail = x, !.crlf = y] = Parser(p.st, p.mark, p.name, y, x, p.raised, p.headers, p.out)
<1> DEFINE r == [p EXCEPT !.trail = x]
<1>1. [p EXCEPT !.trail = x, !.crlf = y] = [r EXCEPT !.crlf = y]
  OBVIOUS
<1>2. r = Parser(p.st, p.mark, p.name, p.crlf, x, p.raised, p.headers, p.out)
  BY TrailIs
<1>3. /\ IsParser(r)
      /\ r.st = p.st /\ r.mark = p.mark /\ r.name = p.name /\ r.crlf = p.crlf
      /\ r.trail = x /\ r.raised = p.raised /\ r.headers = p.headers /\ r.out = p.out
  BY <1>2, FieldsOf
<1> HIDE DEF r
<1>4. [r EXCEPT !.crlf = y] = Parser(r.st, r.mark, r.name, y, r.trail, r.raised, r.headers, r.out)
  BY <1>3, CrlfIs
<1> QED BY <1>1, <1>3, <1>4

LEMMA CrlfTrailIs ==
    ASSUME NEW p, IsParser(p), NEW x, NEW y
    PROVE  [p EXCEPT !.crlf = x, !.trail = y] = Parser(p.st, p.mark, p.name, x, y, p.raised, p.headers, p.out)
<1> DEFINE r == [p EXCEPT !.crlf = x]
<1>1. [p EXCEPT !.crlf = x, !.trail = y] = [r EXCEPT !.trail = y]
  OBVIOUS
<1>2. r = Parser(p.st, p.mark, p.name, x, p.trail, p.raised, p.headers, p.out)
  BY CrlfIs
<1>3. /\ IsParser(r)
      /\ r.st = p.st /\ r.mark = p.mark /\ r.name = p.name /\ r.crlf = x
      /\ r.trail = p.trail /\ r.raised = p.raised /\ r.headers = p.headers /\ r.out = p.out
  BY <1>2, FieldsOf
<1> HIDE DEF r
<1>4. [r EXCEPT !.trail = y] = Parser(r.st, r.mark, r.name, r.crlf, y, r.raised, r.headers, r.out)
  BY <1>3, TrailIs
<1> QED BY <1>1, <1>3, <1>4

LEMMA TrailHeadersIs ==
    ASSUME NEW p, IsParser(p), NEW x, NEW y
    PROVE  [p EXCEPT !.trail = x, !.headers = y] = Parser(p.st, p.mark, p.name, p.crlf, x, p.raised, y, p.out)
<1> DEFINE r == [p EXCEPT !.trail = x]
<1>1. [p EXCEPT !.trail = x, !.headers = y] = [r EXCEPT !.headers = y]
  OBVIOUS
<1>2. r = Parser(p.st, p.mark, p.name, p.crlf, x, p.raised, p.headers, p.out)
  BY TrailIs
<1>3. /\ IsParser(r)
      /\ r.st = p.st /\ r.mark = p.mark /\ r.name = p.name /\ r.crlf = p.crlf
      /\ r.trail = x /\ r.raised = p.raised /\ r.headers = p.headers /\ r.out = p.out
  BY <1>2, FieldsOf
<1> HIDE DEF r
<1>4. [r EXCEPT !.headers = y] = Parser(r.st, r.mark, r.name, r.crlf, r.trail, r.raised, y, r.out)
  BY <1>3, HeadersIs
<1> QED BY <1>1, <1>3, <1>4

LEMMA MarkedIs ==
    ASSUME NEW p, IsParser(p), NEW x, NEW y
    PROVE  Mark(p, y, x) = Parser(x, y, p.name, p.crlf, p.trail, p.raised, p.headers, p.out)
<1> DEFINE r == [p EXCEPT !.st = x]
<1>1. Mark(p, y, x) = [r EXCEPT !.mark = y]
  BY DEF Mark
<1>2. r = Parser(x, p.mark, p.name, p.crlf, p.trail, p.raised, p.headers, p.out)
  BY GoIs DEF Go
<1>3. /\ IsParser(r)
      /\ r.st = x /\ r.mark = p.mark /\ r.name = p.name /\ r.crlf = p.crlf
      /\ r.trail = p.trail /\ r.raised = p.raised /\ r.headers = p.headers /\ r.out = p.out
  BY <1>2, FieldsOf
<1> HIDE DEF r
<1>4. [r EXCEPT !.mark = y] = Parser(r.st, y, r.name, r.crlf, r.trail, r.raised, r.headers, r.out)
  BY <1>3, MarkIs
<1> QED BY <1>1, <1>3, <1>4

\* What a step that raises nothing has to keep.
LEMMA Unraised ==
    ASSUME NEW k \in Nat, k # 0, NEW p, Shape(p, k - 1), NEW c,
           NEW st \in LineStates \cup HeaderStates, NEW mark \in 0 .. k, NEW name, NEW crlf,
           NEW trail \in Nat, NEW hdrs, NEW out \in {"INCOMPLETE", "INVALID", "DONE"},
           out = "DONE" => st \in HeaderStates,
           st # "start" => mark # 0,
           name[1] \in Nat \ {0} /\ name[2] \in 0 .. k,
           p.st \in HeaderStates => st \in HeaderStates
    PROVE  Leads(p, Parser(st, mark, name, crlf, trail, p.raised, hdrs, out), k, c)
<1> DEFINE q == Parser(st, mark, name, crlf, trail, p.raised, hdrs, out)
<1>1. /\ IsParser(q)
      /\ q.st = st /\ q.mark = mark /\ q.name = name /\ q.crlf = crlf
      /\ q.trail = trail /\ q.raised = p.raised /\ q.headers = hdrs /\ q.out = out
  BY FieldsOf
<1> HIDE DEF q
<1>2. p.raised \subseteq 1 .. k
  BY DEF Shape, Lies
<1>3. st \in LineStates => p.raised = {}
  <2>1. LineStates \cap HeaderStates = {}
    BY DEF LineStates, HeaderStates
  <2>2. p.st \in LineStates \cup HeaderStates /\ (p.st \in LineStates => p.raised = {})
    BY DEF Shape, Lies
  <2> QED BY <2>1, <2>2
<1>4. Lies(q, k)
  BY <1>1, <1>2, <1>3 DEF Lies
<1>5. Shape(q, k)
  BY <1>1, <1>4 DEF Shape
<1>6. q.raised = p.raised /\ (p.st \in HeaderStates => q.st \in HeaderStates)
  BY <1>1
<1> QED BY <1>5, <1>6 DEF Leads, q

LEMMA StepLeads ==
    ASSUME NEW k \in Nat, k # 0, NEW p, Shape(p, k - 1), NEW t, p.out = "INCOMPLETE"
    PROVE  Leads(p, ParserStep(p, t, k), k, t[k])
<1> DEFINE c == t[k]
           q == ParserStep(p, t, k)
           P(st, mark, name, crlf, trail, hdrs, out) ==
               Parser(st, mark, name, crlf, trail, p.raised, hdrs, out)
<1>0. IsParser(p)
  BY DEF Shape
<1>1. /\ IsParser(p) /\ p.st \in LineStates \cup HeaderStates
      /\ p.mark \in 0 .. k /\ (p.st # "start" => p.mark # 0)
      /\ p.name[1] \in Nat \ {0} /\ p.name[2] \in 0 .. k
      /\ p.trail \in Nat /\ p.trail + 1 \in Nat
  BY DEF Shape, Lies
<1>2. ASSUME NEW st \in LineStates \cup HeaderStates, st # "start" \/ p.st = "start",
             p.st \in HeaderStates => st \in HeaderStates,
             NEW mark \in {p.mark, k}, NEW crlf, NEW trail \in Nat, NEW hdrs,
             NEW out \in {"INCOMPLETE", "INVALID", "DONE"}, out = "DONE" => st \in HeaderStates,
             mark = k \/ (st = "start" <=> p.st = "start")
      PROVE  Leads(p, P(st, mark, p.name, crlf, trail, hdrs, out), k, c)
  <2>1. mark \in 0 .. k /\ (st # "start" => mark # 0)
    BY <1>1, <1>2
  <2> QED BY <1>1, <1>2, <2>1, Unraised
<1>3. p = P(p.st, p.mark, p.name, p.crlf, p.trail, p.headers, p.out)
  BY <1>1 DEF IsParser
<1>4. /\ Leads(p, p, k, c)
      /\ Leads(p, Return(p, "INVALID"), k, c)
  <2>1. \A o \in {"INCOMPLETE", "INVALID"} :
            Leads(p, P(p.st, p.mark, p.name, p.crlf, p.trail, p.headers, o), k, c)
    BY <1>1, <1>2
  <2>2. Return(p, "INVALID") = P(p.st, p.mark, p.name, p.crlf, p.trail, p.headers, "INVALID")
    BY <1>0, ReturnIs
  <2> QED BY <1>3, <2>1, <2>2
<1>5. ASSUME NEW st \in LineStates \cup HeaderStates, st # "start", p.st # "start",
             p.st \in HeaderStates => st \in HeaderStates
      PROVE  Leads(p, Go(p, st), k, c)
  <2>1. Leads(p, P(st, p.mark, p.name, p.crlf, p.trail, p.headers, p.out), k, c)
    BY <1>1, <1>2, <1>5
  <2> QED BY <1>0, <2>1, GoIs
<1>6. ASSUME NEW st \in LineStates \cup HeaderStates, st # "start",
             p.st \in HeaderStates => st \in HeaderStates
      PROVE  Leads(p, Mark(p, k, st), k, c)
  <2>1. Leads(p, P(st, k, p.name, p.crlf, p.trail, p.headers, p.out), k, c)
    BY <1>1, <1>2, <1>6
  <2> QED BY <1>0, <2>1, MarkedIs
<1>7. ASSUME NEW st \in HeaderStates, NEW crlf, NEW trail \in Nat, p.st # "start"
      PROVE  /\ Leads(p, [p EXCEPT !.trail = trail], k, c)
             /\ Leads(p, [p EXCEPT !.trail = trail, !.crlf = crlf], k, c)
             /\ Leads(p, [p EXCEPT !.crlf = crlf, !.trail = trail], k, c)
             /\ Leads(p, [Go(p, st) EXCEPT !.trail = trail], k, c)
             /\ Leads(p, [Go(p, st) EXCEPT !.trail = trail, !.crlf = crlf], k, c)
             /\ Leads(p, [Go(p, st) EXCEPT !.crlf = crlf], k, c)
             /\ Leads(p, [Mark(p, k, st) EXCEPT !.trail = trail], k, c)
             /\ Leads(p, [Mark(p, k, st) EXCEPT !.trail = trail, !.crlf = crlf], k, c)
  <2> DEFINE go == Go(p, st)
             mk == Mark(p, k, st)
  <2>1. ASSUME NEW s \in {p.st, st}, NEW m \in {p.mark, k}, NEW b, NEW n \in Nat
        PROVE  Leads(p, P(s, m, p.name, b, n, p.headers, p.out), k, c)
    <3>1. HeaderStates \subseteq LineStates \cup HeaderStates /\ "start" \notin HeaderStates
      BY DEF HeaderStates
    <3>2. s \in LineStates \cup HeaderStates /\ s # "start" /\ (p.st \in HeaderStates => s \in HeaderStates)
      BY <1>1, <1>7, <3>1
    <3>3. /\ p.out \in {"INCOMPLETE", "INVALID", "DONE"} /\ (p.out = "DONE" => s \in HeaderStates)
          /\ m = k \/ (s = "start" <=> p.st = "start")
      BY <1>7, <3>2
    <3> QED BY <1>2, <2>1, <3>2, <3>3
  <2>2. go = P(st, p.mark, p.name, p.crlf, p.trail, p.headers, p.out)
    BY <1>0, GoIs
  <2>3. mk = P(st, k, p.name, p.crlf, p.trail, p.headers, p.out)
    BY <1>0, MarkedIs
  <2>4. /\ IsParser(go) /\ go.st = st /\ go.mark = p.mark /\ go.name = p.name /\ go.crlf = p.crlf
        /\ go.trail = p.trail /\ go.raised = p.raised /\ go.headers = p.headers /\ go.out = p.out
    BY <2>2, FieldsOf
  <2>5. /\ IsParser(mk) /\ mk.st = st /\ mk.mark = k /\ mk.name = p.name /\ mk.crlf = p.crlf
        /\ mk.trail = p.trail /\ mk.raised = p.raised /\ mk.headers = p.headers /\ mk.out = p.out
    BY <2>3, FieldsOf
  <2> HIDE DEF go, mk
  <2>6. /\ Leads(p, [p EXCEPT !.trail = trail], k, c)
        /\ Leads(p, [p EXCEPT !.trail = trail, !.crlf = crlf], k, c)
        /\ Leads(p, [p EXCEPT !.crlf = crlf, !.trail = trail], k, c)
    <3>1. [p EXCEPT !.trail = trail] = P(p.st, p.mark, p.name, p.crlf, trail, p.headers, p.out)
      BY <1>0, TrailIs
    <3>2. [p EXCEPT !.trail = trail, !.crlf = crlf] = P(p.st, p.mark, p.name, crlf, trail, p.headers, p.out)
      BY <1>0, TrailCrlfIs
    <3>3. [p EXCEPT !.crlf = crlf, !.trail = trail] = P(p.st, p.mark, p.name, crlf, trail, p.headers, p.out)
      BY <1>0, CrlfTrailIs
    <3> QED BY <1>1, <2>1, <3>1, <3>2, <3>3
  <2>7. /\ [go EXCEPT !.trail = trail] = P(st, p.mark, p.name, p.crlf, trail, p.headers, p.out)
        /\ [go EXCEPT !.crlf = crlf] = P(st, p.mark, p.name, crlf, p.trail, p.headers, p.out)
        /\ [go EXCEPT !.trail = trail, !.crlf = crlf] = P(st, p.mark, p.name, crlf, trail, p.headers, p.out)
    <3>0. IsParser(go)
      BY <2>4
    <3>1. [go EXCEPT !.trail = trail] = P(st, p.mark, p.name, p.crlf, trail, p.headers, p.out)
      BY <2>4, <3>0, TrailIs
    <3>2. [go EXCEPT !.crlf = crlf] = P(st, p.mark, p.name, crlf, p.trail, p.headers, p.out)
      BY <2>4, <3>0, CrlfIs
    <3>3. [go EXCEPT !.trail = trail, !.crlf = crlf] = P(st, p.mark, p.name, crlf, trail, p.headers, p.out)
      <4>1. [go EXCEPT !.trail = trail, !.crlf = crlf]
                = Parser(go.st, go.mark, go.name, crlf, trail, go.raised, go.headers, go.out)
        BY <3>0, TrailCrlfIs
      <4> QED BY <2>4, <4>1
    <3> QED BY <3>1, <3>2, <3>3
  <2>8. /\ [mk EXCEPT !.trail = trail] = P(st, k, p.name, p.crlf, trail, p.headers, p.out)
        /\ [mk EXCEPT !.trail = trail, !.crlf = crlf] = P(st, k, p.name, crlf, trail, p.headers, p.out)
    <3>0. IsParser(mk)
      BY <2>5
    <3>1. [mk EXCEPT !.trail = trail] = P(st, k, p.name, p.crlf, trail, p.headers, p.out)
      BY <2>5, <3>0, TrailIs
    <3>2. [mk EXCEPT !.trail = trail, !.crlf = crlf] = P(st, k, p.name, crlf, trail, p.headers, p.out)
      <4>1. [mk EXCEPT !.trail = trail, !.crlf = crlf]
                = Parser(mk.st, mk.mark, mk.name, crlf, trail, mk.raised, mk.headers, mk.out)
        BY <3>0, TrailCrlfIs
      <4> QED BY <2>5, <4>1
    <3> QED BY <3>1, <3>2
  <2>9. /\ Leads(p, [go EXCEPT !.trail = trail], k, c)
        /\ Leads(p, [go EXCEPT !.crlf = crlf], k, c)
        /\ Leads(p, [go EXCEPT !.trail = trail, !.crlf = crlf], k, c)
    BY <1>1, <2>1, <2>7
  <2>10. /\ Leads(p, [mk EXCEPT !.trail = trail], k, c)
         /\ Leads(p, [mk EXCEPT !.trail = trail, !.crlf = crlf], k, c)
    BY <1>1, <2>1, <2>8
  <2> QED BY <2>6, <2>9, <2>10 DEF go, mk
<1>8. CASE p.st = "start"
  <2>1. q = AtStart(p, k, c)
    BY <1>8 DEF ParserStep
  <2>2. q \in {p, Mark(p, k, "method"), Return(p, "INVALID")}
    BY <2>1 DEF AtStart
  <2> QED BY <1>4, <1>6, <1>8, <2>2 DEF LineStates, HeaderStates
<1>9. CASE p.st = "method"
  <2>1. q = AtMethod(p, t, k, c)
    BY <1>9 DEF ParserStep
  <2>2. q \in {p, Go(p, "spaces_before_uri"), Return(p, "INVALID")}
    BY <2>1 DEF AtMethod
  <2> QED BY <1>4, <1>5, <1>9, <2>2 DEF LineStates, HeaderStates
<1>10. CASE p.st = "spaces_before_uri"
  <2>1. q = AtSpacesBeforeUri(p, k, c)
    BY <1>10 DEF ParserStep
  <2>2. q \in {p, Mark(p, k, "after_slash_in_uri"), Return(p, "INVALID")}
    BY <2>1 DEF AtSpacesBeforeUri
  <2> QED BY <1>4, <1>6, <1>10, <2>2 DEF LineStates, HeaderStates
<1>11. CASE p.st = "after_slash_in_uri"
  <2>1. q = AtUri(p, c)
    BY <1>11 DEF ParserStep
  <2>2. q \in {p, Go(p, "spaces_before_http"), Return(p, "INVALID")}
    BY <2>1 DEF AtUri
  <2> QED BY <1>4, <1>5, <1>11, <2>2 DEF LineStates, HeaderStates
<1>12. CASE p.st = "spaces_before_http"
  <2>1. q = AtSpacesBeforeHttp(p, c)
    BY <1>12 DEF ParserStep
  <2>2. q \in {p, Go(p, "header_crlf"), Return(p, "INVALID")}
    BY <2>1 DEF AtSpacesBeforeHttp
  <2> QED BY <1>4, <1>5, <1>12, <2>2 DEF LineStates, HeaderStates
<1>13. CASE p.st = "header_crlf"
  <2>1. q = AtHeaderCrlf(p, k, c)
    BY <1>13 DEF ParserStep
  <2>2. q \in {[p EXCEPT !.trail = 0], [Go(p, "header_lws") EXCEPT !.trail = 0],
               [Mark(p, k, "header_name") EXCEPT !.trail = 0]}
    BY <2>1 DEF AtHeaderCrlf
  <2> QED BY <1>7, <1>13, <2>2 DEF HeaderStates
<1>14. CASE p.st = "header_lws"
  <2>1. q = AtHeaderLws(p, k, c)
    BY <1>14 DEF ParserStep
  <2>2. \/ q \in {[p EXCEPT !.trail = 0], [p EXCEPT !.trail = 0, !.crlf = TRUE],
                  [Go(p, "header_value") EXCEPT !.trail = 0, !.crlf = FALSE],
                  [Mark(p, k, "header_name") EXCEPT !.trail = 0, !.crlf = FALSE]}
        \/ q = Return(p, "DONE")
    BY <2>1 DEF AtHeaderLws
  <2>3. Leads(p, Return(p, "DONE"), k, c)
    <3>1. Leads(p, P(p.st, p.mark, p.name, p.crlf, p.trail, p.headers, "DONE"), k, c)
      BY <1>1, <1>2, <1>14 DEF HeaderStates
    <3>2. Return(p, "DONE") = P(p.st, p.mark, p.name, p.crlf, p.trail, p.headers, "DONE")
      BY <1>0, ReturnIs
    <3> QED BY <3>1, <3>2
  <2>4. p.st # "start" /\ "header_value" \in HeaderStates /\ "header_name" \in HeaderStates /\ 0 \in Nat
    BY <1>14 DEF HeaderStates
  <2>5. /\ Leads(p, [p EXCEPT !.trail = 0], k, c)
        /\ Leads(p, [p EXCEPT !.trail = 0, !.crlf = TRUE], k, c)
    BY <1>7, <2>4
  <2>6. Leads(p, [Go(p, "header_value") EXCEPT !.trail = 0, !.crlf = FALSE], k, c)
    BY <1>7, <2>4
  <2>7. Leads(p, [Mark(p, k, "header_name") EXCEPT !.trail = 0, !.crlf = FALSE], k, c)
    BY <1>7, <2>4
  <2> QED BY <2>2, <2>3, <2>5, <2>6, <2>7
<1>15. CASE p.st = "header_name"
  <2>1. q = AtHeaderName(p, k, c)
    BY <1>15 DEF ParserStep
  <2>2. CASE c \in Separators
    <3>1. q = Return(p, "INVALID")
      <4>1. ":" \notin Separators
        BY DEF Separators, Blank
      <4> QED BY <2>1, <2>2, <4>1 DEF AtHeaderName
    <3> QED BY <1>4, <3>1
  <2>3. CASE c \notin Separators /\ c = ":"
    <3>1. q = [Go(p, "header_separator") EXCEPT !.name = <<p.mark, k - 1>>]
      BY <2>1, <2>3 DEF AtHeaderName
    <3>2. q = P("header_separator", p.mark, <<p.mark, k - 1>>, p.crlf, p.trail, p.headers, p.out)
      <4>1. /\ Go(p, "header_separator")
                 = P("header_separator", p.mark, p.name, p.crlf, p.trail, p.headers, p.out)
            /\ IsParser(Go(p, "header_separator"))
        BY <1>0, GoIs, FieldsOf
      <4> DEFINE r == Go(p, "header_separator")
      <4>2. /\ r.st = "header_separator" /\ r.mark = p.mark /\ r.crlf = p.crlf /\ r.trail = p.trail
            /\ r.raised = p.raised /\ r.headers = p.headers /\ r.out = p.out
        BY <4>1, FieldsOf
      <4>3. [r EXCEPT !.name = <<p.mark, k - 1>>]
                = Parser(r.st, r.mark, <<p.mark, k - 1>>, r.crlf, r.trail, r.raised, r.headers, r.out)
        <5> HIDE DEF r
        <5> QED BY <4>1, NameIs DEF r
      <4> HIDE DEF r
      <4> QED BY <3>1, <4>2, <4>3 DEF r
    <3> DEFINE nm == <<p.mark, k - 1>>
    <3>3. nm[1] \in Nat \ {0} /\ nm[2] \in 0 .. k
      BY <1>1, <1>15
    <3>4. q = P("header_separator", p.mark, nm, p.crlf, p.trail, p.headers, p.out)
      BY <3>2
    <3>5. "header_separator" \in HeaderStates /\ "header_separator" \in LineStates \cup HeaderStates
      BY DEF HeaderStates
    <3>6. p.mark # 0 /\ p.out \in {"INCOMPLETE", "INVALID", "DONE"} /\ p.out # "DONE"
      BY <1>1, <1>15
    <3> HIDE DEF nm, q
    <3>7. Leads(p, P("header_separator", p.mark, nm, p.crlf, p.trail, p.headers, p.out), k, c)
      <4> DEFINE sep == "header_separator"
      <4>1. /\ p.mark \in 0 .. k /\ (sep # "start" => p.mark # 0) /\ p.trail \in Nat
            /\ p.out = "DONE" => sep \in HeaderStates
            /\ p.st \in HeaderStates => sep \in HeaderStates
            /\ sep \in LineStates \cup HeaderStates
            /\ p.out \in {"INCOMPLETE", "INVALID", "DONE"}
        BY <1>1, <3>5, <3>6
      <4> HIDE DEF sep
      <4>2. Leads(p, P(sep, p.mark, nm, p.crlf, p.trail, p.headers, p.out), k, c)
        BY <3>3, <4>1, Unraised
      <4> QED BY <4>2 DEF sep
    <3> QED BY <3>4, <3>7 DEF q
  <2>4. CASE c \notin Separators /\ c # ":"
    <3>1. q = [p EXCEPT !.raised = p.raised \cup {k}]
      BY <2>1, <2>4 DEF AtHeaderName
    <3>2. q = Parser(p.st, p.mark, p.name, p.crlf, p.trail, p.raised \cup {k}, p.headers, p.out)
      BY <1>0, <3>1, RaisedIs
    <3>3. /\ IsParser(q) /\ q.st = p.st /\ q.mark = p.mark /\ q.name = p.name /\ q.trail = p.trail
          /\ q.raised = p.raised \cup {k} /\ q.out = p.out
      BY <3>2, FieldsOf
    <3>4. p.raised \cup {k} \subseteq 1 .. k
      BY DEF Shape, Lies
    <3>5. Lies(q, k)
      <4> HIDE DEF q
      <4> QED BY <1>1, <1>15, <3>3, <3>4 DEF Shape, Lies, LineStates, HeaderStates
    <3> QED BY <1>15, <2>4, <3>1, <3>3, <3>5 DEF Leads, Shape
  <2> QED BY <2>2, <2>3, <2>4
<1>16. CASE p.st = "header_separator"
  <2>1. q = AtHeaderSeparator(p, k, c)
    BY <1>16 DEF ParserStep
  <2>2. q \in {p, [Go(p, "header_lws") EXCEPT !.crlf = TRUE], Mark(p, k, "header_value")}
    BY <2>1 DEF AtHeaderSeparator
  <2> QED BY <1>4, <1>6, <1>7, <1>16, <2>2 DEF HeaderStates
<1>17. CASE p.st = "header_value"
  <2>1. q = AtHeaderValue(p, t, k, c)
    BY <1>17 DEF ParserStep
  <2>2. \/ q \in {p, [p EXCEPT !.trail = p.trail + 1], [p EXCEPT !.crlf = TRUE, !.trail = p.trail + 1],
                  [p EXCEPT !.crlf = FALSE, !.trail = 0]}
        \/ q = Return(WithHeader(p, t, k), "DONE")
        \/ q = [Mark(WithHeader(p, t, k), k, "header_name") EXCEPT !.crlf = FALSE]
    BY <2>1 DEF AtHeaderValue
  <2> DEFINE w == WithHeader(p, t, k)
             m == Mark(w, k, "header_name")
  <2>3. PICK hs : w = P(p.st, p.mark, p.name, p.crlf, 0, hs, p.out)
    BY <1>0, TrailHeadersIs DEF WithHeader
  <2>4. /\ Leads(p, P(p.st, p.mark, p.name, p.crlf, 0, hs, "DONE"), k, c)
        /\ Leads(p, P("header_name", k, p.name, FALSE, 0, hs, p.out), k, c)
    BY <1>1, <1>2, <1>17 DEF HeaderStates
  <2>5. /\ IsParser(w) /\ w.st = p.st /\ w.mark = p.mark /\ w.name = p.name /\ w.crlf = p.crlf
        /\ w.trail = 0 /\ w.raised = p.raised /\ w.headers = hs /\ w.out = p.out
    BY <2>3, FieldsOf
  <2>6. Return(w, "DONE") = P(p.st, p.mark, p.name, p.crlf, 0, hs, "DONE")
    <3>1. Return(w, "DONE") = Parser(w.st, w.mark, w.name, w.crlf, w.trail, w.raised, w.headers, "DONE")
      <4> HIDE DEF w
      <4> QED BY <2>5, ReturnIs
    <3> HIDE DEF w
    <3> QED BY <2>5, <3>1
  <2>7. m = P("header_name", k, p.name, p.crlf, 0, hs, p.out)
    <3>1. m = Parser("header_name", k, w.name, w.crlf, w.trail, w.raised, w.headers, w.out)
      <4> HIDE DEF w
      <4> QED BY <2>5, MarkedIs
    <3> HIDE DEF w, m
    <3> QED BY <2>5, <3>1
  <2>8. [m EXCEPT !.crlf = FALSE] = P("header_name", k, p.name, FALSE, 0, hs, p.out)
    <3> HIDE DEF m
    <3>1. /\ IsParser(m) /\ m.st = "header_name" /\ m.mark = k /\ m.name = p.name
          /\ m.trail = 0 /\ m.raised = p.raised /\ m.headers = hs /\ m.out = p.out
      BY <2>7, FieldsOf
    <3>2. [m EXCEPT !.crlf = FALSE]
              = Parser(m.st, m.mark, m.name, FALSE, m.trail, m.raised, m.headers, m.out)
      BY <3>1, CrlfIs
    <3> QED BY <3>1, <3>2
  <2>9. Leads(p, Return(w, "DONE"), k, c) /\ Leads(p, [m EXCEPT !.crlf = FALSE], k, c)
    BY <2>4, <2>6, <2>8
  <2>10. \A r \in {p, [p EXCEPT !.trail = p.trail + 1], [p EXCEPT !.crlf = TRUE, !.trail = p.trail + 1],
                    [p EXCEPT !.crlf = FALSE, !.trail = 0]} : Leads(p, r, k, c)
    <3>1. p.st # "start" /\ p.st \in HeaderStates /\ 0 \in Nat /\ p.trail + 1 \in Nat
      BY <1>1, <1>17 DEF HeaderStates
    <3>2. Leads(p, p, k, c)
      BY <1>4
    <3>3. Leads(p, [p EXCEPT !.trail = p.trail + 1], k, c)
      BY <1>7, <3>1
    <3>4. Leads(p, [p EXCEPT !.crlf = TRUE, !.trail = p.trail + 1], k, c)
      BY <1>7, <3>1
    <3>5. Leads(p, [p EXCEPT !.crlf = FALSE, !.trail = 0], k, c)
      BY <1>7, <3>1
    <3> QED BY <3>2, <3>3, <3>4, <3>5
  <2> QED BY <2>2, <2>9, <2>10
<1> QED BY <1>1, <1>8, <1>9, <1>10, <1>11, <1>12, <1>13, <1>14, <1>15, <1>16, <1>17
        DEF LineStates, HeaderStates

(***************************************************************************)
(* The parser on two texts that differ in letters raised only.             *)
(***************************************************************************)
\* u is t as far as j, where the attempts before may have raised letters of names.
SameBefore(u, t, k, raised) ==
    \A j \in 1 .. k : u[j] = t[j] \/ (j \in raised /\ u[j] = ToUpper(t[j]))

LEMMA ToUpperTwice ==
    ASSUME NEW c
    PROVE  /\ ToUpper(ToUpper(c)) = ToUpper(c)
           /\ c \notin Separators /\ c # ":" => ToUpper(c) \notin Separators /\ ToUpper(c) # ":"
<1>1. ToUpper(c) \in {"A", "K", "N", c}
  BY DEF ToUpper
<1>2. ToUpper("A") = "A" /\ ToUpper("K") = "K" /\ ToUpper("N") = "N"
  BY DEF ToUpper
<1>3. \A d \in {"A", "K", "N"} : d \notin Separators /\ d # ":"
  BY DEF Separators, Blank
<1> QED BY <1>1, <1>2, <1>3

\* Parts of two texts that are the same before k are the same.
LEMMA SamePart ==
    ASSUME NEW k \in Nat, NEW u, NEW t, \A j \in 1 .. k - 1 : u[j] = t[j],
           NEW a \in Nat \ {0}, NEW b \in Int, b <= k - 1
    PROVE  SubSeq(u, a, b) = SubSeq(t, a, b)
<1>1. \A i \in 1 .. 1 + b - a : u[i + a - 1] = t[i + a - 1]
  <2> TAKE i \in 1 .. 1 + b - a
  <2>1. i + a - 1 \in 1 .. k - 1
    OBVIOUS
  <2> QED BY <2>1
<1>2. /\ SubSeq(u, a, b) = [i \in 1 .. 1 + b - a |-> u[i + a - 1]]
      /\ SubSeq(t, a, b) = [i \in 1 .. 1 + b - a |-> t[i + a - 1]]
  OBVIOUS
<1> QED BY <1>1, <1>2

LEMMA HeaderAgrees ==
    ASSUME NEW k \in Nat, k # 0, NEW p, Shape(p, k - 1), NEW u, NEW t,
           Len(u) \in Nat, Len(t) \in Nat, k <= Len(u), k <= Len(t),
           DOMAIN u = 1 .. Len(u), DOMAIN t = 1 .. Len(t),
           SameBefore(u, t, k - 1, p.raised), p.st # "start"
    PROVE  WithHeader(p, u, k) = WithHeader(p, t, k)
<1> DEFINE ru == Raised(u, p.raised)
           rt == Raised(t, p.raised)
<1>1. ASSUME NEW j \in 1 .. k - 1 PROVE ru[j] = rt[j]
  <2>1. j \in DOMAIN u /\ j \in DOMAIN t
    BY <1>1
  <2>2. u[j] = t[j] \/ (j \in p.raised /\ u[j] = ToUpper(t[j]))
    BY <1>1 DEF SameBefore
  <2> QED BY <2>1, <2>2, ToUpperTwice DEF Raised
<1>2. ASSUME NEW a \in Nat \ {0}, NEW b \in Int, b <= k - 1
      PROVE  SubSeq(ru, a, b) = SubSeq(rt, a, b)
  <2> HIDE DEF ru, rt
  <2> QED BY <1>1, <1>2, SamePart
<1> HIDE DEF ru, rt
<1>3. /\ p.name[1] \in Nat \ {0} /\ p.name[2] \in Int /\ p.name[2] <= k - 1
      /\ p.mark \in Nat \ {0}
      /\ k - p.trail - 1 \in Int /\ k - p.trail - 1 <= k - 1
  BY DEF Shape, Lies
<1>4. /\ SubSeq(ru, p.name[1], p.name[2]) = SubSeq(rt, p.name[1], p.name[2])
      /\ SubSeq(ru, p.mark, k - p.trail - 1) = SubSeq(rt, p.mark, k - p.trail - 1)
  BY <1>2, <1>3
<1> QED BY <1>4 DEF WithHeader, ru, rt

\* A step depends on nothing but the letters read, and not on their being raised.
LEMMA StepAgrees ==
    ASSUME NEW k \in Nat, k # 0, NEW p, Shape(p, k - 1), NEW u, NEW t,
           Len(u) \in Nat, Len(t) \in Nat, k <= Len(u), k <= Len(t),
           DOMAIN u = 1 .. Len(u), DOMAIN t = 1 .. Len(t),
           SameBefore(u, t, k, ParserStep(p, t, k).raised)
    PROVE  ParserStep(p, u, k) = ParserStep(p, t, k)
<1>1. CASE p.out # "INCOMPLETE"
  BY <1>1 DEF ParserStep
<1>2. CASE p.out = "INCOMPLETE"
  <2> DEFINE q == ParserStep(p, t, k)
  <2>1. Leads(p, q, k, t[k])
    BY <1>2, StepLeads
  <2> HIDE DEF q
  <2>2. p.raised \subseteq 1 .. k - 1
    BY DEF Shape, Lies
  <2>3. CASE q.raised # p.raised
    <3>1. /\ p.st = "header_name" /\ t[k] \notin Separators /\ t[k] # ":"
          /\ q = [p EXCEPT !.raised = p.raised \cup {k}]
      BY <2>1, <2>3 DEF Leads
    <3>2. u[k] \in {t[k], ToUpper(t[k])}
      BY DEF SameBefore
    <3>3. u[k] \notin Separators /\ u[k] # ":"
      BY <3>1, <3>2, ToUpperTwice
    <3>4. ParserStep(p, u, k) = AtHeaderName(p, k, u[k])
      BY <1>2, <3>1 DEF ParserStep
    <3> QED BY <3>1, <3>3, <3>4 DEF AtHeaderName, q
  <2>4. CASE q.raised = p.raised
    <3>1. SameBefore(u, t, k, p.raised)
      BY <2>4 DEF q
    <3>2. SameBefore(u, t, k - 1, p.raised)
      BY <3>1 DEF SameBefore
    <3>3. u[k] = t[k]
      BY <2>2, <3>1 DEF SameBefore
    <3>4. CASE p.st = "method"
      <4>1. p.raised = {} /\ p.mark \in Nat \ {0}
        BY <3>4 DEF Shape, Lies, LineStates
      <4>2. \A j \in 1 .. k - 1 : u[j] = t[j]
        BY <3>2, <4>1 DEF SameBefore
      <4>4. SubSeq(u, p.mark, k - 1) = SubSeq(t, p.mark, k - 1)
        <5>1. k - 1 \in Int /\ k - 1 <= k - 1
          OBVIOUS
        <5>2. p.mark \in Nat \ {0}
          BY <4>1
        <5> QED BY <4>2, <5>1, <5>2, SamePart, SMTT(30)
      <4>5. AtMethod(p, u, k, u[k]) = AtMethod(p, t, k, t[k])
        BY <3>3, <4>4 DEF AtMethod
      <4> QED BY <1>2, <3>4, <4>5 DEF ParserStep
    <3>5. CASE p.st = "header_value"
      <4>1. WithHeader(p, u, k) = WithHeader(p, t, k)
        BY <3>2, <3>5, HeaderAgrees
      <4>2. AtHeaderValue(p, u, k, u[k]) = AtHeaderValue(p, t, k, t[k])
        BY <3>3, <4>1 DEF AtHeaderValue
      <4> QED BY <1>2, <3>5, <4>2 DEF ParserStep
    <3>6. CASE p.st \notin {"method", "header_value"}
      BY <1>2, <3>3, <3>6 DEF ParserStep
    <3> QED BY <3>4, <3>5, <3>6
  <2> QED BY <2>3, <2>4
<1> QED BY <1>1, <1>2

(***************************************************************************)
(* The parser's run.                                                       *)
(***************************************************************************)
IsRun(f, t, m) ==
    f = [i \in 0 .. m |-> IF i = 0 THEN ParserStart ELSE ParserStep(f[i - 1], t, i)]

LEMMA RunIs ==
    ASSUME NEW t, Len(t) \in Nat
    PROVE  IsRun(Run(t, 0), t, Len(t))
<1> DEFINE S == {m \in Nat : \E f : IsRun(f, t, m)}
<1>1. 0 \in S
  <2>1. IsRun([i \in 0 .. 0 |-> ParserStart], t, 0)
    BY DEF IsRun
  <2> QED BY <2>1
<1>2. ASSUME NEW m \in S PROVE m + 1 \in S
  <2>1. PICK f : IsRun(f, t, m)
    OBVIOUS
  <2> DEFINE g == [i \in 0 .. m + 1 |-> IF i = m + 1 THEN ParserStep(f[m], t, m + 1) ELSE f[i]]
             h == [i \in 0 .. m + 1 |-> IF i = 0 THEN ParserStart ELSE ParserStep(g[i - 1], t, i)]
  <2>2. ASSUME NEW i \in 0 .. m + 1 PROVE g[i] = h[i]
    BY <2>1 DEF IsRun
  <2>3. g = h
    BY <2>2
  <2>4. IsRun(g, t, m + 1)
    <3> HIDE DEF g
    <3> QED BY <2>3 DEF IsRun
  <2> QED BY <2>4
<1>3. S = Nat
  <2> HIDE DEF S
  <2>1. S \subseteq Nat
    BY DEF S
  <2> QED BY <1>1, <1>2, <2>1, AllNat
<1>4. \E f : IsRun(f, t, Len(t))
  BY <1>3
<1>5. Run(t, 0) = CHOOSE f : IsRun(f, t, Len(t))
  BY DEF Run, IsRun
<1> QED BY <1>4, <1>5, Zenon

LEMMA RunStep ==
    ASSUME NEW t, Len(t) \in Nat
    PROVE  /\ Run(t, 0)[0] = ParserStart
           /\ \A k \in 1 .. Len(t) : Run(t, 0)[k] = ParserStep(Run(t, 0)[k - 1], t, k)
<1> DEFINE f == Run(t, 0)
<1>1. f = [i \in 0 .. Len(t) |-> IF i = 0 THEN ParserStart ELSE ParserStep(f[i - 1], t, i)]
  BY RunIs DEF IsRun
<1> HIDE DEF f
<1>2. f[0] = ParserStart
  BY <1>1
<1>3. ASSUME NEW k \in 1 .. Len(t) PROVE f[k] = ParserStep(f[k - 1], t, k)
  BY <1>1
<1> QED BY <1>2, <1>3 DEF f

\* What holds of the parser, and stays, as it reads on.
LEMMA RunShape ==
    ASSUME NEW t, Len(t) \in Nat, NEW k \in 0 .. Len(t)
    PROVE  Shape(Run(t, 0)[k], k)
<1> DEFINE f == Run(t, 0)
           S == {m \in Nat : m <= Len(t) => Shape(f[m], m)}
<1>1. 0 \in S
  <2>1. f[0] = ParserStart
    BY RunStep
  <2>2. Shape(ParserStart, 0)
    BY DEF Shape, IsParser, Parser, Lies, ParserStart, LineStates, HeaderStates
  <2> QED BY <2>1, <2>2
<1>2. ASSUME NEW m \in S PROVE m + 1 \in S
  <2>1. ASSUME m + 1 <= Len(t) PROVE Shape(f[m + 1], m + 1)
    <3>1. Shape(f[m], m) /\ f[m + 1] = ParserStep(f[m], t, m + 1)
      BY <2>1, RunStep
    <3> HIDE DEF f
    <3>2. CASE f[m].out = "INCOMPLETE"
      <4>1. m + 1 \in Nat /\ m + 1 # 0 /\ (m + 1) - 1 = m
        OBVIOUS
      <4>2. Leads(f[m], ParserStep(f[m], t, m + 1), m + 1, t[m + 1])
        <5> DEFINE n == m + 1
        <5>1. n \in Nat /\ n # 0 /\ Shape(f[m], n - 1)
          BY <3>1, <4>1
        <5> HIDE DEF n
        <5>2. Leads(f[m], ParserStep(f[m], t, n), n, t[n])
          BY <3>2, <5>1, StepLeads
        <5> QED BY <5>2 DEF n
      <4> QED BY <3>1, <4>2 DEF Leads
    <3>3. CASE f[m].out # "INCOMPLETE"
      BY <3>1, <3>3 DEF ParserStep, Shape, Lies
    <3> QED BY <3>2, <3>3
  <2> QED BY <2>1
<1>3. S = Nat
  <2> HIDE DEF S
  <2>1. S \subseteq Nat
    BY DEF S
  <2> QED BY <1>1, <1>2, <2>1, AllNat
<1> QED BY <1>3

\* q may come after p, which has read j characters.
After(p, q, j) ==
    /\ p.raised \subseteq q.raised
    /\ \A i \in q.raised : i <= j => i \in p.raised
    /\ p.out # "INCOMPLETE" => q = p
    /\ p.st \in HeaderStates => q.st \in HeaderStates

LEMMA RunAfter ==
    ASSUME NEW t, Len(t) \in Nat, NEW j \in 0 .. Len(t), NEW k \in j .. Len(t)
    PROVE  After(Run(t, 0)[j], Run(t, 0)[k], j)
<1> DEFINE f == Run(t, 0)
           S == {m \in Nat : j + m <= Len(t) => After(f[j], f[j + m], j)}
<1>1. 0 \in S
  BY DEF After
<1>2. ASSUME NEW m \in S PROVE m + 1 \in S
  <2>1. ASSUME j + (m + 1) <= Len(t) PROVE After(f[j], f[j + (m + 1)], j)
    <3> DEFINE n == j + m
    <3>1. /\ n \in 0 .. Len(t) /\ n + 1 \in 1 .. Len(t) /\ j + (m + 1) = n + 1
          /\ (n + 1) - 1 = n /\ j <= n
      BY <2>1
    <3>2. After(f[j], f[n], j)
      BY <3>1
    <3> HIDE DEF n
    <3>3. f[n + 1] = ParserStep(f[n], t, n + 1)
      BY <3>1, RunStep
    <3>4. Shape(f[n], n)
      BY <3>1, RunShape
    <3> HIDE DEF f
    <3>5. CASE f[n].out = "INCOMPLETE"
      <4>1. Leads(f[n], f[n + 1], n + 1, t[n + 1])
        BY <3>1, <3>3, <3>4, <3>5, StepLeads
      <4>2. f[n + 1].raised \in {f[n].raised, f[n].raised \cup {n + 1}}
        <5>1. CASE f[n + 1].raised # f[n].raised
          <6>1. f[n + 1] = [f[n] EXCEPT !.raised = f[n].raised \cup {n + 1}]
            BY <4>1, <5>1 DEF Leads
          <6>2. f[n + 1].raised = f[n].raised \cup {n + 1}
            <7> DEFINE v == f[n]
                       r == f[n].raised \cup {n + 1}
            <7>1. IsParser(v)
              BY <3>4 DEF Shape
            <7> HIDE DEF v, r
            <7>2. [v EXCEPT !.raised = r] = Parser(v.st, v.mark, v.name, v.crlf, v.trail, r, v.headers, v.out)
              BY <7>1, RaisedIs
            <7>3. [v EXCEPT !.raised = r].raised = r
              BY <7>2, FieldsOf
            <7> QED BY <6>1, <7>3 DEF v, r
          <6> QED BY <6>2
        <5> QED BY <5>1
      <4>3. f[j].out = "INCOMPLETE"
        BY <3>2, <3>5 DEF After
      <4> QED BY <3>1, <3>2, <4>1, <4>2, <4>3 DEF After, Leads
    <3>6. CASE f[n].out # "INCOMPLETE"
      <4>1. f[n + 1] = f[n]
        BY <3>3, <3>6 DEF ParserStep
      <4> QED BY <3>1, <3>2, <4>1
    <3> QED BY <3>5, <3>6
  <2> QED BY <2>1
<1>3. S = Nat
  <2> HIDE DEF S
  <2>1. S \subseteq Nat
    BY DEF S
  <2> QED BY <1>1, <1>2, <2>1, AllNat
<1>4. k - j \in Nat /\ j + (k - j) = k /\ k <= Len(t)
  OBVIOUS
<1>5. k - j \in S
  <2> HIDE DEF S
  <2> QED BY <1>3, <1>4
<1>6. After(f[j], f[j + (k - j)], j)
  BY <1>4, <1>5
<1> QED BY <1>4, <1>6

\* Two texts that agree as far as m, raised letters apart, are parsed alike as far as m.
RaisedOnly(u, t, m) ==
    \A j \in 1 .. m : u[j] = t[j] \/ (j \in Run(t, 0)[j].raised /\ u[j] = ToUpper(t[j]))

LEMMA RunAgrees ==
    ASSUME NEW u, NEW t, Len(u) \in Nat, Len(t) \in Nat,
           DOMAIN u = 1 .. Len(u), DOMAIN t = 1 .. Len(t),
           NEW m \in Nat, m <= Len(u), m <= Len(t), RaisedOnly(u, t, m),
           NEW k \in 0 .. m
    PROVE  Run(u, 0)[k] = Run(t, 0)[k]
<1> DEFINE f == Run(u, 0)
           g == Run(t, 0)
           S == {n \in Nat : n <= m => f[n] = g[n]}
<1>1. 0 \in S
  BY RunStep
<1>2. ASSUME NEW n \in S PROVE n + 1 \in S
  <2>1. ASSUME n + 1 <= m PROVE f[n + 1] = g[n + 1]
    <3>1. /\ n + 1 \in 1 .. Len(u) /\ n + 1 \in 1 .. Len(t) /\ n \in 0 .. Len(t)
          /\ (n + 1) - 1 = n /\ n + 1 \in Nat
      BY <2>1
    <3>2. f[n] = g[n]
      BY <2>1
    <3>3. f[n + 1] = ParserStep(f[n], u, n + 1)
      BY <3>1, RunStep
    <3>4. g[n + 1] = ParserStep(g[n], t, n + 1)
      BY <3>1, RunStep
    <3>5. Shape(g[n], n)
      BY <3>1, RunShape
    <3>6. SameBefore(u, t, n + 1, g[n + 1].raised)
      <4>1. ASSUME NEW j \in 1 .. n + 1
            PROVE  u[j] = t[j] \/ (j \in g[n + 1].raised /\ u[j] = ToUpper(t[j]))
        <5>1. j \in 1 .. m /\ j \in 0 .. Len(t) /\ n + 1 \in j .. Len(t)
          BY <2>1, <3>1
        <5>2. g[j].raised \subseteq g[n + 1].raised
          BY <5>1, RunAfter DEF After
        <5> QED BY <5>1, <5>2 DEF RaisedOnly
      <4> HIDE DEF g
      <4> QED BY <4>1 DEF SameBefore
    <3> HIDE DEF f, g
    <3>7. ParserStep(g[n], u, n + 1) = ParserStep(g[n], t, n + 1)
      BY <3>1, <3>4, <3>5, <3>6, StepAgrees
    <3> QED BY <3>2, <3>3, <3>4, <3>7
  <2> QED BY <2>1
<1>3. S = Nat
  <2> HIDE DEF S
  <2>1. S \subseteq Nat
    BY DEF S
  <2> QED BY <1>1, <1>2, <2>1, AllNat
<1>4. k \in S
  BY <1>3
<1> QED BY <1>4

(***************************************************************************)
(* What the zero behind the data does.                                     *)
(***************************************************************************)
\* q is p with variables assigned other than the value returned.
Kept(p, q) == IsParser(q) /\ q.out = p.out

LEMMA Keeps ==
    ASSUME NEW p, IsParser(p), NEW x, NEW y
    PROVE  /\ Kept(p, Go(p, x))
           /\ Kept(p, Mark(p, x, y))
           /\ Kept(p, [p EXCEPT !.trail = x])
           /\ Kept(p, [p EXCEPT !.crlf = x])
           /\ Kept(p, [p EXCEPT !.raised = x])
<1>1. Kept(p, Go(p, x))
  BY GoIs, FieldsOf DEF Kept
<1>2. Kept(p, Mark(p, x, y))
  BY MarkedIs, FieldsOf DEF Kept
<1>3. Kept(p, [p EXCEPT !.trail = x])
  BY TrailIs, FieldsOf DEF Kept
<1>4. Kept(p, [p EXCEPT !.crlf = x])
  BY CrlfIs, FieldsOf DEF Kept
<1>5. Kept(p, [p EXCEPT !.raised = x])
  BY RaisedIs, FieldsOf DEF Kept
<1> QED BY <1>1, <1>2, <1>3, <1>4, <1>5

LEMMA KeepsTrailCrlf ==
    ASSUME NEW p, IsParser(p), NEW x, NEW y
    PROVE  Kept(p, [p EXCEPT !.trail = x, !.crlf = y])
<1> DEFINE q == [p EXCEPT !.trail = x, !.crlf = y]
<1>1. q = Parser(p.st, p.mark, p.name, y, x, p.raised, p.headers, p.out)
  BY TrailCrlfIs
<1> HIDE DEF q
<1>2. Kept(p, q)
  BY <1>1, FieldsOf DEF Kept
<1> QED BY <1>2 DEF q

LEMMA KeepsTrailHeaders ==
    ASSUME NEW p, IsParser(p), NEW x, NEW y
    PROVE  Kept(p, [p EXCEPT !.trail = x, !.headers = y])
<1> DEFINE q == [p EXCEPT !.trail = x, !.headers = y]
<1>1. q = Parser(p.st, p.mark, p.name, p.crlf, x, p.raised, y, p.out)
  BY TrailHeadersIs
<1> HIDE DEF q
<1>2. Kept(p, q)
  BY <1>1, FieldsOf DEF Kept
<1> QED BY <1>2 DEF q

LEMMA Invalid ==
    ASSUME NEW p, IsParser(p)
    PROVE  Return(p, "INVALID").out = "INVALID"
BY ReturnIs, FieldsOf

\* In the first line, once it has begun, the zero is a character that is not right;
\* before it and in the headers the parser returns that there is no more.
LEMMA AtZero ==
    ASSUME NEW k \in Nat, NEW p, Shape(p, k), NEW t, NEW i, t[i] = NUL, p.out = "INCOMPLETE"
    PROVE  /\ p.st \in HeaderStates \cup {"start"} => ParserStep(p, t, i).out = "INCOMPLETE"
           /\ p.st \in LineStates \ {"start"} => ParserStep(p, t, i).out = "INVALID"
<1> DEFINE q == ParserStep(p, t, i)
           m == Mark(p, i, "header_name")
           w == WithHeader(p, t, i)
           v == Mark(w, i, "header_name")
<1>1. IsParser(p) /\ p.st \in LineStates \cup HeaderStates
  BY DEF Shape, Lies
<1>2. /\ NUL \notin Separators /\ NUL \notin Blank /\ NUL \notin Upper /\ NUL \notin Lower
      /\ NUL \notin {"CR", "LF", "SP", "TAB", ":", "/", "HTTP/1.1"}
  BY DEF NUL, Separators, Blank, Upper, Lower
<1>3. Kept(p, m)
  BY <1>1, Keeps
<1>4. Kept(p, w)
  BY <1>1, KeepsTrailHeaders DEF WithHeader
<1>5. Kept(p, v)
  <2>1. Kept(w, v)
    <3>1. IsParser(w)
      BY <1>4 DEF Kept
    <3> HIDE DEF w
    <3> QED BY <3>1, Keeps
  <2> HIDE DEF v
  <2> QED BY <1>4, <2>1 DEF Kept
<1>6. CASE p.st = "start"
  BY <1>2, <1>6 DEF ParserStep, AtStart, LineStates, HeaderStates
<1>7. CASE p.st \in LineStates \ {"start"}
  <2>1. q = Return(p, "INVALID")
    <3>1. CASE p.st = "method"
      BY <1>2, <3>1 DEF ParserStep, AtMethod
    <3>2. CASE p.st = "spaces_before_uri"
      BY <1>2, <3>2 DEF ParserStep, AtSpacesBeforeUri
    <3>3. CASE p.st = "after_slash_in_uri"
      BY <1>2, <3>3 DEF ParserStep, AtUri
    <3>4. CASE p.st = "spaces_before_http"
      BY <1>2, <3>4 DEF ParserStep, AtSpacesBeforeHttp
    <3> QED BY <1>7, <3>1, <3>2, <3>3, <3>4 DEF LineStates
  <2>2. p.st \notin HeaderStates \cup {"start"}
    BY <1>7 DEF LineStates, HeaderStates
  <2> QED BY <1>1, <2>1, <2>2, Invalid
<1>8. CASE p.st \in HeaderStates
  <2>1. ASSUME p.st = "header_crlf" PROVE q.out = "INCOMPLETE"
    <3>1. q = [m EXCEPT !.trail = 0]
      BY <1>2, <2>1 DEF ParserStep, AtHeaderCrlf
    <3>2. Kept(m, [m EXCEPT !.trail = 0])
      <4> HIDE DEF m
      <4> QED BY <1>3, Keeps DEF Kept
    <3> HIDE DEF m, q
    <3> QED BY <1>3, <3>1, <3>2 DEF Kept
  <2>2. ASSUME p.st = "header_lws" PROVE q.out = "INCOMPLETE"
    <3>1. q = [m EXCEPT !.trail = 0, !.crlf = FALSE]
      BY <1>2, <2>2 DEF ParserStep, AtHeaderLws
    <3>2. Kept(m, [m EXCEPT !.trail = 0, !.crlf = FALSE])
      <4> HIDE DEF m
      <4> QED BY <1>3, KeepsTrailCrlf DEF Kept
    <3> HIDE DEF m, q
    <3> QED BY <1>3, <3>1, <3>2 DEF Kept
  <2>3. ASSUME p.st = "header_name" PROVE q.out = "INCOMPLETE"
    <3>1. q = [p EXCEPT !.raised = p.raised \cup {i}]
      BY <1>2, <2>3 DEF ParserStep, AtHeaderName
    <3>2. Kept(p, [p EXCEPT !.raised = p.raised \cup {i}])
      BY <1>1, Keeps
    <3> HIDE DEF q
    <3> QED BY <3>1, <3>2 DEF Kept
  <2>4. ASSUME p.st = "header_separator" PROVE q.out = "INCOMPLETE"
    <3>1. q = Mark(p, i, "header_value")
      BY <1>2, <2>4 DEF ParserStep, AtHeaderSeparator
    <3>2. Kept(p, Mark(p, i, "header_value"))
      BY <1>1, Keeps
    <3> HIDE DEF q
    <3> QED BY <3>1, <3>2 DEF Kept
  <2>5. ASSUME p.st = "header_value" PROVE q.out = "INCOMPLETE"
    <3>1. q \in {p, [v EXCEPT !.crlf = FALSE]}
      BY <1>2, <2>5 DEF ParserStep, AtHeaderValue
    <3>2. Kept(v, [v EXCEPT !.crlf = FALSE])
      <4> HIDE DEF v
      <4> QED BY <1>5, Keeps DEF Kept
    <3> HIDE DEF v, q
    <3> QED BY <1>5, <3>1, <3>2 DEF Kept
  <2>6. q.out = "INCOMPLETE"
    BY <1>8, <2>1, <2>2, <2>3, <2>4, <2>5 DEF HeaderStates
  <2>7. p.st \notin LineStates \ {"start"}
    BY <1>8 DEF LineStates, HeaderStates
  <2> QED BY <2>6, <2>7
<1> QED BY <1>1, <1>6, <1>7, <1>8

(***************************************************************************)
(* The characters of a request.                                            *)
(***************************************************************************)
IsFlat(f, s, n) == f = [i \in 1 .. n |-> IF i = 1 THEN s[i] ELSE f[i - 1] \o s[i]]

LEMMA FlattenIs ==
    ASSUME NEW A, NEW s \in Seq(Seq(A)), Len(s) # 0
    PROVE  \E f : /\ FlattenSeq(s) = f[Len(s)]
                  /\ \A n \in 1 .. Len(s) :
                        f[n] \in Seq(A) /\ f[n] = IF n = 1 THEN s[n] ELSE f[n - 1] \o s[n]
<1> DEFINE N == Len(s)
           S == {n \in Nat : n <= N => \E f : IsFlat(f, s, n) /\ \A i \in 1 .. n : f[i] \in Seq(A)}
<1>1. 0 \in S
  <2>1. IsFlat([i \in 1 .. 0 |-> <<>>], s, 0)
    BY DEF IsFlat
  <2> QED BY <2>1
<1>2. ASSUME NEW n \in S PROVE n + 1 \in S
  <2>1. ASSUME n + 1 <= N
        PROVE  \E f : IsFlat(f, s, n + 1) /\ \A i \in 1 .. n + 1 : f[i] \in Seq(A)
    <3>1. PICK f : IsFlat(f, s, n) /\ \A i \in 1 .. n : f[i] \in Seq(A)
      BY <2>1
    <3> DEFINE v == IF n + 1 = 1 THEN s[n + 1] ELSE f[n] \o s[n + 1]
               g == [i \in 1 .. n + 1 |-> IF i = n + 1 THEN v ELSE f[i]]
               h == [i \in 1 .. n + 1 |-> IF i = 1 THEN s[i] ELSE g[i - 1] \o s[i]]
    <3>2. n + 1 \in 1 .. Len(s) /\ s[n + 1] \in Seq(A) /\ (n # 0 => n \in 1 .. n)
      BY <2>1
    <3>3. v \in Seq(A)
      BY <3>1, <3>2
    <3>4. ASSUME NEW i \in 1 .. n + 1 PROVE g[i] = h[i]
      <4>1. CASE i = n + 1
        <5>1. i # 1 => g[i - 1] = f[n]
          BY <4>1
        <5>2. g[i] = v /\ h[i] = IF i = 1 THEN s[i] ELSE g[i - 1] \o s[i]
          BY <4>1
        <5> HIDE DEF g, h
        <5> QED BY <4>1, <5>1, <5>2
      <4>2. CASE i # n + 1
        <5>1. i \in 1 .. n /\ g[i] = f[i] /\ (i # 1 => g[i - 1] = f[i - 1])
          BY <4>2
        <5>2. f[i] = IF i = 1 THEN s[i] ELSE f[i - 1] \o s[i]
          BY <3>1, <5>1 DEF IsFlat
        <5>3. h[i] = IF i = 1 THEN s[i] ELSE g[i - 1] \o s[i]
          OBVIOUS
        <5> HIDE DEF g, h
        <5> QED BY <5>1, <5>2, <5>3
      <4> QED BY <4>1, <4>2
    <3>5. g = h
      BY <3>4
    <3>6. \A i \in 1 .. n + 1 : g[i] \in Seq(A)
      <4> HIDE DEF v
      <4> QED BY <3>1, <3>3
    <3>7. IsFlat(g, s, n + 1)
      <4> HIDE DEF g
      <4> QED BY <3>5 DEF IsFlat
    <3> QED BY <3>6, <3>7
  <2> QED BY <2>1
<1>3. S = Nat
  <2> HIDE DEF S
  <2>1. S \subseteq Nat
    BY DEF S
  <2> QED BY <1>1, <1>2, <2>1, AllNat
<1> DEFINE F == CHOOSE f : IsFlat(f, s, N)
<1>4. PICK f : IsFlat(f, s, N) /\ \A i \in 1 .. N : f[i] \in Seq(A)
  <2>1. N \in S
    <3>1. N \in Nat
      OBVIOUS
    <3> HIDE DEF S, N
    <3> QED BY <1>3, <3>1
  <2> QED BY <2>1
<1>5. IsFlat(F, s, N)
  BY <1>4, Zenon
<1>6. FlattenSeq(s) = F[N]
  BY DEF FlattenSeq, IsFlat
<1> DEFINE R == {n \in Nat : n <= N /\ n # 0 => F[n] \in Seq(A)}
<1>7. 0 \in R
  OBVIOUS
<1>8. ASSUME NEW n \in 1 .. N PROVE F[n] = IF n = 1 THEN s[n] ELSE F[n - 1] \o s[n]
  <2> HIDE DEF F
  <2> QED BY <1>5 DEF IsFlat
<1>9. ASSUME NEW n \in R PROVE n + 1 \in R
  <2>1. ASSUME n + 1 <= N PROVE F[n + 1] \in Seq(A)
    <3>1. n + 1 \in 1 .. N /\ s[n + 1] \in Seq(A) /\ (n + 1) - 1 = n
      BY <2>1
    <3>2. F[n + 1] = IF n + 1 = 1 THEN s[n + 1] ELSE F[n] \o s[n + 1]
      <4> HIDE DEF F
      <4> QED BY <1>8, <3>1
    <3>3. n # 0 => F[n] \in Seq(A)
      BY <2>1
    <3> HIDE DEF F
    <3> QED BY <3>1, <3>2, <3>3
  <2> QED BY <2>1
<1>10. R = Nat
  <2> HIDE DEF R
  <2>1. R \subseteq Nat
    BY DEF R
  <2> QED BY <1>7, <1>9, <2>1, AllNat
<1>11. ASSUME NEW n \in 1 .. N PROVE F[n] \in Seq(A)
  <2>1. n \in Nat /\ n <= N /\ n # 0
    OBVIOUS
  <2> HIDE DEF F
  <2> QED BY <1>10, <2>1
<1> HIDE DEF F
<1> QED BY <1>6, <1>8, <1>11

LEMMA FlattenSeqType ==
    ASSUME NEW A, NEW s \in Seq(Seq(A))
    PROVE  FlattenSeq(s) \in Seq(A)
<1>1. CASE Len(s) = 0
  BY <1>1 DEF FlattenSeq
<1>2. CASE Len(s) # 0
  <2>1. Len(s) \in 1 .. Len(s)
    BY <1>2
  <2> QED BY <1>2, <2>1, FlattenIs
<1> QED BY <1>1, <1>2

\* All the characters that may occur in a request.
Chars == STRING \cup {"CR", "LF", "SP", ":", "A", "K", "N", NUL}

\* s is a and then b, all of them over A.
Joins(s, a, b, A) ==
    /\ s \in Seq(A) /\ Len(s) = Len(a) + Len(b) /\ Len(a) \in Nat /\ Len(b) \in Nat
    /\ \A i \in 1 .. Len(a) : s[i] = a[i]
    /\ \A i \in 1 .. Len(b) : s[Len(a) + i] = b[i]

LEMMA JoinedAt ==
    ASSUME NEW A, NEW a \in Seq(A), NEW b \in Seq(A)
    PROVE  Joins(a \o b, a, b, A)
<1>1. /\ a \o b \in Seq(A) /\ Len(a \o b) = Len(a) + Len(b) /\ Len(a) \in Nat /\ Len(b) \in Nat
  BY ConcatProperties, LenProperties
<1>2. \A i \in 1 .. Len(a) + Len(b) : (a \o b)[i] = IF i <= Len(a) THEN a[i] ELSE b[i - Len(a)]
  BY ConcatProperties
<1>3. ASSUME NEW i \in 1 .. Len(a) PROVE (a \o b)[i] = a[i]
  BY <1>1, <1>2
<1>4. ASSUME NEW i \in 1 .. Len(b) PROVE (a \o b)[Len(a) + i] = b[i]
  <2>1. /\ Len(a) + i \in 1 .. Len(a) + Len(b) /\ ~ (Len(a) + i <= Len(a))
        /\ (Len(a) + i) - Len(a) = i
    BY <1>1
  <2> QED BY <1>2, <2>1
<1> QED BY <1>1, <1>3, <1>4 DEF Joins

\* x lies in t, behind its first k characters.
Part(t, k, x) ==
    /\ k \in Nat /\ Len(x) \in Nat /\ Len(t) \in Nat /\ k + Len(x) <= Len(t)
    /\ \A i \in 1 .. Len(x) : t[k + i] = x[i]

LEMMA PartsOfJoined ==
    ASSUME NEW A, NEW a \in Seq(A), NEW b \in Seq(A)
    PROVE  /\ a \o b \in Seq(A) /\ Len(a \o b) = Len(a) + Len(b) /\ Len(a) \in Nat /\ Len(b) \in Nat
           /\ Part(a \o b, 0, a) /\ Part(a \o b, Len(a), b)
<1> DEFINE t == a \o b
           m == Len(a)
           n == Len(b)
<1>1. /\ t \in Seq(A) /\ Len(t) = m + n /\ m \in Nat /\ n \in Nat
      /\ \A i \in 1 .. m : t[i] = a[i]
      /\ \A i \in 1 .. n : t[m + i] = b[i]
  BY JoinedAt DEF Joins
<1> HIDE DEF t, m, n
<1>2. 0 \in Nat /\ 0 + m <= m + n /\ m + n \in Nat /\ \A i \in 1 .. m : 0 + i = i
  BY <1>1
<1>3. Part(t, 0, a) /\ Part(t, m, b)
  BY <1>1, <1>2 DEF Part, m, n
<1> QED BY <1>1, <1>3 DEF t, m, n

LEMMA PartOfPart ==
    ASSUME NEW t, NEW x, NEW y, NEW k, NEW j, Part(t, k, x), Part(x, j, y)
    PROVE  Part(t, k + j, y)
<1> DEFINE n == Len(y)
           m == Len(x)
           l == Len(t)
<1>1. /\ k \in Nat /\ j \in Nat /\ n \in Nat /\ m \in Nat /\ l \in Nat /\ k + m <= l /\ j + n <= m
      /\ \A i \in 1 .. m : t[k + i] = x[i]
      /\ \A i \in 1 .. n : x[j + i] = y[i]
  BY DEF Part
<1> HIDE DEF n, m, l
<1>2. ASSUME NEW i \in 1 .. n PROVE t[k + j + i] = y[i]
  <2>1. j + i \in 1 .. m /\ k + (j + i) = k + j + i
    BY <1>1
  <2> QED BY <1>1, <2>1
<1>3. k + j \in Nat /\ k + j + n <= l
  BY <1>1
<1> QED BY <1>1, <1>2, <1>3 DEF Part, n, l

\* The parts of a flattened sequence.
LEMMA FlattenParts ==
    ASSUME NEW A, NEW s \in Seq(Seq(A))
    PROVE  \E e : /\ e[0] = 0 /\ e[Len(s)] = Len(FlattenSeq(s))
                  /\ \A n \in 1 .. Len(s) : /\ e[n - 1] \in Nat /\ e[n] = e[n - 1] + Len(s[n])
                                            /\ Part(FlattenSeq(s), e[n - 1], s[n])
<1> DEFINE N == Len(s)
           F == FlattenSeq(s)
<1>1. N \in Nat
  OBVIOUS
<1>2. CASE N = 0
  <2>1. F = s /\ Len(F) = 0
    BY <1>2 DEF FlattenSeq
  <2> DEFINE e == [i \in {0} |-> 0]
  <2>2. e[0] = 0 /\ e[N] = Len(F)
    BY <1>2, <2>1
  <2>3. \A n \in 1 .. N : FALSE
    BY <1>2
  <2> HIDE DEF e, F
  <2> QED BY <2>2, <2>3 DEF F
<1>3. CASE N # 0
  <2>1. PICK f : /\ F = f[N]
                 /\ \A n \in 1 .. N : /\ f[n] \in Seq(A)
                                      /\ f[n] = IF n = 1 THEN s[n] ELSE f[n - 1] \o s[n]
    BY <1>3, FlattenIs
  <2> HIDE DEF F
  <2> DEFINE g == [n \in 0 .. N |-> IF n = 0 THEN <<>> ELSE f[n]]
             e == [n \in 0 .. N |-> Len(g[n])]
  <2>2. ASSUME NEW n \in 1 .. N PROVE s[n] \in Seq(A)
    OBVIOUS
  <2> HIDE DEF N
  <2>3. /\ g[0] = <<>> /\ g[N] = F
        /\ \A n \in 0 .. N : g[n] \in Seq(A)
    BY <1>1, <1>3, <2>1
  <2>4. ASSUME NEW n \in 1 .. N PROVE g[n] = g[n - 1] \o s[n]
    <3>1. CASE n = 1
      <4>1. g[n] = s[n] /\ g[n - 1] = <<>>
        BY <1>1, <2>1, <3>1
      <4>2. <<>> \o s[n] = s[n]
        BY <2>2, ConcatEmptySeq
      <4> HIDE DEF g
      <4> QED BY <4>1, <4>2
    <3>2. CASE n # 1
      <4>1. g[n] = f[n] /\ g[n - 1] = f[n - 1]
        BY <1>1, <3>2
      <4> HIDE DEF g
      <4> QED BY <2>1, <3>2, <4>1
    <3> QED BY <3>1, <3>2
  <2>5. e[0] = 0 /\ e[N] = Len(F) /\ \A n \in 0 .. N : e[n] = Len(g[n])
    <3>1. 0 \in 0 .. N /\ N \in 0 .. N
      BY <1>1
    <3>2. \A n \in 0 .. N : e[n] = Len(g[n])
      OBVIOUS
    <3> HIDE DEF e, g
    <3>3. Len(<<>>) = 0
      OBVIOUS
    <3> QED BY <2>3, <3>1, <3>2, <3>3
  <2> HIDE DEF e, g
  <2>6. ASSUME NEW n \in 1 .. N
        PROVE  /\ e[n - 1] \in Nat /\ e[n] = e[n - 1] + Len(s[n])
               /\ Part(g[n], 0, g[n - 1]) /\ Part(g[n], e[n - 1], s[n])
    <3>1. n - 1 \in 0 .. N /\ n \in 0 .. N
      BY <1>1
    <3>2. g[n - 1] \in Seq(A) /\ s[n] \in Seq(A) /\ g[n] = g[n - 1] \o s[n]
      BY <2>2, <2>3, <2>4, <3>1
    <3>3. e[n - 1] = Len(g[n - 1]) /\ e[n] = Len(g[n])
      BY <2>5, <3>1
    <3> QED BY <3>2, <3>3, PartsOfJoined
  <2>7. ASSUME NEW n \in 1 .. N PROVE Part(F, e[n - 1], s[n])
    <3> DEFINE S == {d \in Nat : n + d <= N => Part(g[n + d], e[n - 1], s[n])}
    <3>1. 0 \in S
      <4>1. n + 0 = n
        OBVIOUS
      <4> QED BY <2>6, <4>1
    <3>2. ASSUME NEW d \in S PROVE d + 1 \in S
      <4>1. ASSUME n + (d + 1) <= N PROVE Part(g[n + (d + 1)], e[n - 1], s[n])
        <5> DEFINE m == n + (d + 1)
        <5>1. m \in 1 .. N /\ m - 1 = n + d /\ n + d <= N
          BY <1>1, <4>1
        <5>2. Part(g[n + d], e[n - 1], s[n])
          BY <5>1
        <5> HIDE DEF m
        <5>3. Part(g[m], 0, g[n + d])
          BY <2>6, <5>1
        <5>4. Part(g[m], 0 + e[n - 1], s[n])
          BY <5>2, <5>3, PartOfPart
        <5>5. 0 + e[n - 1] = e[n - 1]
          BY <2>6
        <5>6. Part(g[m], e[n - 1], s[n])
          BY <5>4, <5>5
        <5> QED BY <5>6 DEF m
      <4> QED BY <4>1
    <3>3. S = Nat
      <4> HIDE DEF S
      <4>1. S \subseteq Nat
        BY DEF S
      <4> QED BY <3>1, <3>2, <4>1, AllNat
    <3>4. N - n \in Nat /\ n + (N - n) = N /\ N <= N
      BY <1>1
    <3> QED BY <2>3, <3>3, <3>4
  <2>8. \A n \in 1 .. N : /\ e[n - 1] \in Nat /\ e[n] = e[n - 1] + Len(s[n])
                          /\ Part(F, e[n - 1], s[n])
    BY <2>6, <2>7
  <2> QED BY <2>5, <2>8 DEF F, N
<1> QED BY <1>2, <1>3

\* The texts of the headers of a request, and its other words.
LEMMA HeaderTexts ==
    ASSUME NEW r \in Requests
    PROVE  /\ r.target \in Seq(Chars) /\ r.eol \in Seq(Chars)
           /\ [i \in DOMAIN r.headers |-> HeaderText(r.headers[i], r.eol)] \in Seq(Seq(Chars))
           /\ HeadersText(r.headers, r.eol)
                 = FlattenSeq([i \in DOMAIN r.headers |-> HeaderText(r.headers[i], r.eol)])
           /\ HeadersText(r.headers, r.eol) \in Seq(Chars)
<1> DEFINE hss == [i \in DOMAIN r.headers |-> HeaderText(r.headers[i], r.eol)]
           hs == HeadersText(r.headers, r.eol)
<1>1. /\ r.target \in Seq(STRING \ {"SP"})
      /\ r.eol \in Seq({"CR", "LF"})
      /\ r.headers \in Seq([name : Seq(STRING), gap : Seq(STRING), value : Seq(STRING)])
  BY RequestsAssumption
<1>2. r.target \in Seq(Chars) /\ r.eol \in Seq(Chars)
  <2>1. {"CR", "LF"} \subseteq Chars /\ STRING \ {"SP"} \subseteq Chars
    BY DEF Chars
  <2> QED BY <1>1, <2>1, SeqMonotonic
<1>3. hss \in Seq(Seq(Chars))
  <2>1. ASSUME NEW i \in DOMAIN r.headers PROVE HeaderText(r.headers[i], r.eol) \in Seq(Chars)
    <3> DEFINE h == r.headers[i]
    <3>1. h \in [name : Seq(STRING), gap : Seq(STRING), value : Seq(STRING)]
      BY <1>1, LenProperties, ElementOfSeq
    <3>2. h.name \in Seq(Chars) /\ h.gap \in Seq(Chars) /\ h.value \in Seq(Chars)
      <4>1. STRING \subseteq Chars
        BY DEF Chars
      <4>2. h.name \in Seq(STRING) /\ h.gap \in Seq(STRING) /\ h.value \in Seq(STRING)
        BY <3>1
      <4> QED BY <4>1, <4>2, SeqMonotonic
    <3>3. <<":">> \in Seq(Chars)
      BY DEF Chars
    <3> HIDE DEF h
    <3>4. HeaderText(h, r.eol) \in Seq(Chars)
      BY <1>2, <3>2, <3>3, ConcatProperties DEF HeaderText
    <3> QED BY <3>4 DEF h
  <2>2. DOMAIN r.headers = 1 .. Len(r.headers) /\ Len(r.headers) \in Nat
    BY <1>1
  <2> QED BY <2>1, <2>2
<1>4. hs = FlattenSeq(hss)
  BY DEF HeadersText
<1>5. hs \in Seq(Chars)
  BY <1>3, <1>4, FlattenSeqType
<1> QED BY <1>2, <1>3, <1>4, <1>5

\* Where a request has its words, its lines and its headers.
LEMMA TextLayout ==
    ASSUME NEW r \in Requests
    PROVE  LET t == Text(r)
               k == LineLength(r)
               e == Len(r.eol)
               hs == HeadersText(r.headers, r.eol)
           IN  /\ t \in Seq(Chars)
               /\ LineFrom(r) \in Nat \ {0} /\ Len(r.target) \in Nat /\ e \in Nat /\ Len(hs) \in Nat
               /\ \A i \in 1 .. LineFrom(r) - 1 : t[i] \in {"CR", "LF"}
               /\ Part(t, LineFrom(r) - 1, <<r.method, "SP">>)
               /\ Part(t, LineFrom(r) + 1, r.target)
               /\ Part(t, k - 2, <<"SP", r.version>>)
               /\ Part(t, k, r.eol)
               /\ Part(t, k + e, hs)
               /\ Part(t, k + e + Len(hs), r.eol)
               /\ Len(t) = k + e + Len(hs) + e
<1> DEFINE lead == IF r.lead THEN r.eol ELSE <<>>
           hs == HeadersText(r.headers, r.eol)
           w1 == <<r.method, "SP">>
           w2 == <<"SP", r.version>>
           t1 == lead \o w1
           t2 == t1 \o r.target
           t3 == t2 \o w2
           t4 == t3 \o r.eol
           t5 == t4 \o hs
           t6 == t5 \o r.eol
<1>1. /\ r.lead \in BOOLEAN
      /\ r.method \in STRING /\ r.version \in STRING /\ r.eol \in Seq({"CR", "LF"})
  BY RequestsAssumption
<1>2. r.target \in Seq(Chars) /\ r.eol \in Seq(Chars)
  BY HeaderTexts
<1>3. hs \in Seq(Chars)
  BY HeaderTexts
<1> HIDE DEF hs
<1>4. /\ lead \in Seq(Chars) /\ Len(lead) = LineFrom(r) - 1 /\ LineFrom(r) \in Nat \ {0}
      /\ \A i \in 1 .. Len(lead) : lead[i] \in {"CR", "LF"}
  BY <1>1, <1>2 DEF LineFrom
<1>7. w1 \in Seq(Chars) /\ Len(w1) = 2 /\ w2 \in Seq(Chars) /\ Len(w2) = 2
  BY <1>1 DEF Chars
<1>8. Text(r) = t6
  BY DEF Text, hs
<1> DEFINE n == LineFrom(r) - 1
           b == Len(r.target)
           e == Len(r.eol)
           l == Len(hs)
<1> HIDE DEF lead, w1, w2
<1>9. t1 \in Seq(Chars) /\ Len(t1) = n + 2 /\ Part(t1, 0, lead) /\ Part(t1, n, w1)
  <2>1. /\ t1 \in Seq(Chars) /\ Len(t1) = Len(lead) + Len(w1)
        /\ Part(t1, 0, lead) /\ Part(t1, Len(lead), w1)
    BY <1>4, <1>7, PartsOfJoined
  <2> QED BY <1>4, <1>7, <2>1
<1> HIDE DEF t1, n, b, e, l
<1>10. n \in Nat /\ b \in Nat /\ e \in Nat /\ l \in Nat
  <2>1. n \in Nat
    BY <1>4 DEF n
  <2> QED BY <1>2, <1>3, <2>1, LenProperties DEF b, e, l
<1>11. t2 \in Seq(Chars) /\ Len(t2) = n + 2 + b /\ Part(t2, 0, t1) /\ Part(t2, n + 2, r.target)
  <2>1. t2 \in Seq(Chars) /\ Len(t2) = Len(t1) + b /\ Part(t2, 0, t1) /\ Part(t2, Len(t1), r.target)
    BY <1>2, <1>9, PartsOfJoined DEF b
  <2> QED BY <1>9, <2>1
<1> HIDE DEF t2
<1>12. t3 \in Seq(Chars) /\ Len(t3) = n + 4 + b /\ Part(t3, 0, t2) /\ Part(t3, n + 2 + b, w2)
  <2>1. t3 \in Seq(Chars) /\ Len(t3) = Len(t2) + Len(w2) /\ Part(t3, 0, t2) /\ Part(t3, Len(t2), w2)
    BY <1>7, <1>11, PartsOfJoined
  <2>2. n + 2 + b + 2 = n + 4 + b
    BY <1>10
  <2> QED BY <1>7, <1>11, <2>1, <2>2
<1> HIDE DEF t3
<1>13. t4 \in Seq(Chars) /\ Len(t4) = n + 4 + b + e /\ Part(t4, 0, t3) /\ Part(t4, n + 4 + b, r.eol)
  <2>1. t4 \in Seq(Chars) /\ Len(t4) = Len(t3) + e /\ Part(t4, 0, t3) /\ Part(t4, Len(t3), r.eol)
    BY <1>2, <1>12, PartsOfJoined DEF e
  <2> QED BY <1>12, <2>1
<1> HIDE DEF t4
<1>14. /\ t5 \in Seq(Chars) /\ Len(t5) = n + 4 + b + e + l
       /\ Part(t5, 0, t4) /\ Part(t5, n + 4 + b + e, hs)
  <2>1. t5 \in Seq(Chars) /\ Len(t5) = Len(t4) + l /\ Part(t5, 0, t4) /\ Part(t5, Len(t4), hs)
    BY <1>3, <1>13, PartsOfJoined DEF l
  <2> QED BY <1>13, <2>1
<1> HIDE DEF t5
<1>15. /\ t6 \in Seq(Chars) /\ Len(t6) = n + 4 + b + e + l + e
       /\ Part(t6, 0, t5) /\ Part(t6, n + 4 + b + e + l, r.eol)
  <2>1. t6 \in Seq(Chars) /\ Len(t6) = Len(t5) + e /\ Part(t6, 0, t5) /\ Part(t6, Len(t5), r.eol)
    BY <1>2, <1>14, PartsOfJoined DEF e
  <2> QED BY <1>14, <2>1
<1> HIDE DEF t6
<1>16. ASSUME NEW x, NEW y, NEW z, NEW k \in Nat, Part(x, 0, y), Part(y, k, z)
       PROVE  Part(x, k, z)
  <2>1. 0 + k = k
    OBVIOUS
  <2>2. Part(x, 0 + k, z)
    BY <1>16, PartOfPart
  <2> QED BY <2>1, <2>2
<1>17. /\ 0 \in Nat /\ n \in Nat /\ n + 2 \in Nat /\ n + 2 + b \in Nat /\ n + 4 + b \in Nat
       /\ n + 4 + b + e \in Nat
  BY <1>10
<1>18. /\ Part(t6, 0, lead) /\ Part(t6, n, w1) /\ Part(t6, n + 2, r.target)
       /\ Part(t6, n + 2 + b, w2) /\ Part(t6, n + 4 + b, r.eol) /\ Part(t6, n + 4 + b + e, hs)
  <2>1. Part(t2, 0, lead) /\ Part(t2, n, w1)
    BY <1>9, <1>11, <1>16, <1>17
  <2>2. Part(t3, 0, lead) /\ Part(t3, n, w1) /\ Part(t3, n + 2, r.target)
    BY <1>11, <1>12, <1>16, <1>17, <2>1
  <2>3. /\ Part(t4, 0, lead) /\ Part(t4, n, w1) /\ Part(t4, n + 2, r.target)
        /\ Part(t4, n + 2 + b, w2)
    BY <1>12, <1>13, <1>16, <1>17, <2>2
  <2>4. /\ Part(t5, 0, lead) /\ Part(t5, n, w1) /\ Part(t5, n + 2, r.target)
        /\ Part(t5, n + 2 + b, w2) /\ Part(t5, n + 4 + b, r.eol)
    BY <1>13, <1>14, <1>16, <1>17, <2>3
  <2> QED BY <1>14, <1>15, <1>16, <1>17, <2>4
<1>19. /\ LineLength(r) = n + 4 + b /\ LineFrom(r) + 1 = n + 2 /\ n + 4 + b - 2 = n + 2 + b
  <2>1. LineLength(r) = LineFrom(r) + 3 + b
    BY DEF LineLength, b
  <2>2. LineFrom(r) = n + 1
    BY <1>4 DEF n
  <2> QED BY <1>10, <2>1, <2>2
<1> DEFINE t == Text(r)
           k == LineLength(r)
<1>20. k = n + 4 + b /\ t = t6
  BY <1>8, <1>19
<1> HIDE DEF t, k
<1>21. Part(t, n, w1) /\ Part(t, LineFrom(r) + 1, r.target)
  BY <1>18, <1>19, <1>20
<1>22. Part(t, k - 2, w2)
  <2>1. k - 2 = n + 2 + b
    BY <1>10, <1>20
  <2> QED BY <1>18, <1>20, <2>1
<1>23. Part(t, k, r.eol) /\ Part(t, k + e, hs)
  BY <1>18, <1>20
<1>24. Part(t, k + e + l, r.eol) /\ Len(t) = k + e + l + e
  BY <1>15, <1>20
<1>25. \A i \in 1 .. n : t[i] \in {"CR", "LF"}
  <2>1. Part(t, 0, lead) /\ n = Len(lead)
    BY <1>4, <1>18, <1>20 DEF n
  <2> TAKE i \in 1 .. n
  <2>2. 0 + i = i
    BY <1>10
  <2>3. t[0 + i] = lead[i]
    BY <2>1 DEF Part
  <2> QED BY <1>4, <2>1, <2>2, <2>3
<1>26. t \in Seq(Chars) /\ LineFrom(r) \in Nat \ {0} /\ b \in Nat /\ e \in Nat /\ l \in Nat
  BY <1>4, <1>10, <1>15, <1>20
<1> QED BY <1>21, <1>22, <1>23, <1>24, <1>25, <1>26 DEF hs, n, b, e, l, w1, w2, t, k

\* Where a request has its first line.
LEMMA TextLine ==
    ASSUME NEW r \in Requests
    PROVE  /\ Text(r) \in Seq(Chars) /\ LineFrom(r) \in Nat \ {0} /\ Len(r.target) \in Nat
           /\ LineLength(r) < Len(Text(r))
           /\ \A i \in 1 .. LineFrom(r) - 1 : Text(r)[i] \in {"CR", "LF"}
           /\ Text(r)[LineFrom(r)] = r.method /\ Text(r)[LineFrom(r) + 1] = "SP"
           /\ \A i \in 1 .. Len(r.target) : Text(r)[LineFrom(r) + 1 + i] # "SP"
           /\ Text(r)[LineLength(r) - 1] = "SP"
           /\ Text(r)[LineLength(r) + 1] \in {"CR", "LF"}
<1> DEFINE t == Text(r)
           a == LineFrom(r)
           b == Len(r.target)
           k == LineLength(r)
           e == Len(r.eol)
           l == Len(HeadersText(r.headers, r.eol))
<1>1. /\ t \in Seq(Chars) /\ a \in Nat \ {0} /\ b \in Nat /\ e \in Nat /\ l \in Nat
      /\ \A i \in 1 .. a - 1 : t[i] \in {"CR", "LF"}
      /\ Part(t, a - 1, <<r.method, "SP">>) /\ Part(t, a + 1, r.target)
      /\ Part(t, k - 2, <<"SP", r.version>>) /\ Part(t, k, r.eol)
      /\ Len(t) = k + e + l + e
  BY TextLayout
<1>2. /\ r.target \in Seq(STRING \ {"SP"}) /\ r.eol \in Seq({"CR", "LF"}) /\ r.eol # <<>>
  BY RequestsAssumption
<1>3. e # 0 /\ r.eol[1] \in {"CR", "LF"}
  <2>1. e # 0
    BY <1>2, EmptySeq
  <2>2. 1 \in 1 .. e
    BY <1>1, <2>1
  <2> QED BY <1>2, <2>1, <2>2, ElementOfSeq
<1>4. \A i \in 1 .. b : r.target[i] # "SP"
  BY <1>2, ElementOfSeq
<1>5. k = a + 3 + b
  BY DEF LineLength
<1> HIDE DEF t, a, b, k, e, l
<1>6. t[a] = r.method /\ t[a + 1] = "SP"
  <2> DEFINE w == <<r.method, "SP">>
  <2>1. Len(w) = 2 /\ w[1] = r.method /\ w[2] = "SP" /\ Part(t, a - 1, w)
    BY <1>1
  <2> HIDE DEF w
  <2>2. t[(a - 1) + 1] = r.method /\ t[(a - 1) + 2] = "SP"
    BY <2>1 DEF Part
  <2>3. (a - 1) + 1 = a /\ (a - 1) + 2 = a + 1
    BY <1>1
  <2> QED BY <2>2, <2>3
<1>7. \A i \in 1 .. b : t[a + 1 + i] # "SP"
  <2>1. \A i \in 1 .. b : t[a + 1 + i] = r.target[i]
    BY <1>1 DEF Part, b
  <2> QED BY <1>4, <2>1
<1>8. t[k - 1] = "SP"
  <2> DEFINE w == <<"SP", r.version>>
  <2>1. Len(w) = 2 /\ w[1] = "SP" /\ Part(t, k - 2, w)
    BY <1>1
  <2> HIDE DEF w
  <2>2. t[(k - 2) + 1] = "SP"
    BY <2>1 DEF Part
  <2>3. (k - 2) + 1 = k - 1
    BY <1>1, <1>5
  <2> QED BY <2>2, <2>3
<1>9. t[k + 1] \in {"CR", "LF"}
  <2>1. \A i \in 1 .. e : t[k + i] = r.eol[i]
    BY <1>1 DEF Part, e
  <2>2. 1 \in 1 .. e
    BY <1>1, <1>3
  <2> QED BY <1>3, <2>1, <2>2
<1>10. k < Len(t)
  BY <1>1, <1>3, <1>5
<1> QED BY <1>1, <1>6, <1>7, <1>8, <1>9, <1>10 DEF t, a, b, k

(***************************************************************************)
(* The parser in the first line of a request.                              *)
(***************************************************************************)
\* The parser is in one of the states S, unless the request is not valid.
Stands(p, S) == p.out = "INVALID" \/ (p.out = "INCOMPLETE" /\ p.st \in S)

LEMMA LineStep ==
    ASSUME NEW p, IsParser(p), NEW t, NEW i
    PROVE  /\ p.out = "INCOMPLETE" /\ p.st = "start" /\ t[i] \in {"CR", "LF"} =>
                  ParserStep(p, t, i) = p
           /\ p.out = "INCOMPLETE" /\ p.st = "start" /\ t[i] \notin {"CR", "LF", NUL} =>
                  Stands(ParserStep(p, t, i), {"method"})
           /\ Stands(p, {"method"}) /\ t[i] = "SP" =>
                  Stands(ParserStep(p, t, i), {"spaces_before_uri"})
           /\ Stands(p, {"spaces_before_uri", "after_slash_in_uri"}) /\ t[i] # "SP" =>
                  Stands(ParserStep(p, t, i), {"spaces_before_uri", "after_slash_in_uri"})
           /\ Stands(p, {"spaces_before_uri", "after_slash_in_uri"}) /\ t[i] = "SP" =>
                  Stands(ParserStep(p, t, i), {"spaces_before_uri", "spaces_before_http"})
           /\ Stands(p, {"spaces_before_uri", "spaces_before_http"}) =>
                  Stands(ParserStep(p, t, i), (LineStates \ {"start"}) \cup {"header_crlf"})
           /\ Stands(p, LineStates \ {"start"}) /\ t[i] \in {"CR", "LF"} =>
                  ParserStep(p, t, i).out = "INVALID"
<1> DEFINE q == ParserStep(p, t, i)
           c == t[i]
<1>1. Return(p, "INVALID").out = "INVALID"
  BY Invalid
<1>2. ASSUME NEW st PROVE Go(p, st).st = st /\ Go(p, st).out = p.out
  BY GoIs, FieldsOf
<1>3. ASSUME NEW st PROVE Mark(p, i, st).st = st /\ Mark(p, i, st).out = p.out
  BY MarkedIs, FieldsOf
<1>4. ASSUME p.out = "INCOMPLETE", p.st = "start"
      PROVE  /\ c \in {"CR", "LF"} => q = p
             /\ c \notin {"CR", "LF", NUL} => q \in {Mark(p, i, "method"), Return(p, "INVALID")}
  <2>1. q = AtStart(p, i, c)
    BY <1>4 DEF ParserStep
  <2>2. "CR" \notin Upper /\ "LF" \notin Upper /\ NUL \notin Upper
    BY DEF Upper, NUL
  <2> QED BY <2>1, <2>2 DEF AtStart
<1>5. ASSUME p.out = "INCOMPLETE", p.st = "method"
      PROVE  /\ c = "SP" => q \in {Go(p, "spaces_before_uri"), Return(p, "INVALID")}
             /\ c \in {"CR", "LF"} => q = Return(p, "INVALID")
  <2>1. q = AtMethod(p, t, i, c)
    BY <1>5 DEF ParserStep
  <2>2. "CR" \notin Upper /\ "LF" \notin Upper /\ "SP" \notin Upper
    BY DEF Upper
  <2> QED BY <2>1, <2>2 DEF AtMethod
<1>6. ASSUME p.out = "INCOMPLETE", p.st = "spaces_before_uri"
      PROVE  /\ q \in {p, Mark(p, i, "after_slash_in_uri"), Return(p, "INVALID")}
             /\ c = "SP" => q = p
             /\ c \in {"CR", "LF"} => q = Return(p, "INVALID")
  <2>1. q = AtSpacesBeforeUri(p, i, c)
    BY <1>6 DEF ParserStep
  <2>2. {"CR", "LF"} \cap (Upper \cup Lower \cup {"SP"}) = {}
    BY DEF Upper, Lower
  <2> QED BY <2>1, <2>2 DEF AtSpacesBeforeUri
<1>7. ASSUME p.out = "INCOMPLETE", p.st = "after_slash_in_uri"
      PROVE  /\ c # "SP" => q \in {p, Return(p, "INVALID")}
             /\ c = "SP" => q = Go(p, "spaces_before_http")
             /\ c \in {"CR", "LF"} => q = Return(p, "INVALID")
  <2>1. q = AtUri(p, c)
    BY <1>7 DEF ParserStep
  <2> QED BY <2>1 DEF AtUri, NUL
<1>8. ASSUME p.out = "INCOMPLETE", p.st = "spaces_before_http"
      PROVE  /\ q \in {p, Go(p, "header_crlf"), Return(p, "INVALID")}
             /\ c \in {"CR", "LF"} => q = Return(p, "INVALID")
  <2>1. q = AtSpacesBeforeHttp(p, c)
    BY <1>8 DEF ParserStep
  <2> QED BY <2>1 DEF AtSpacesBeforeHttp
<1>9. p.out = "INVALID" => q = p
  BY DEF ParserStep
<1> HIDE DEF q, c
<1>10. p.out = "INCOMPLETE" /\ p.st = "start" /\ c \notin {"CR", "LF", NUL} => Stands(q, {"method"})
  BY <1>1, <1>3, <1>4 DEF Stands
<1>11. Stands(p, {"method"}) /\ c = "SP" => Stands(q, {"spaces_before_uri"})
  BY <1>1, <1>2, <1>5, <1>9 DEF Stands
<1>12. ASSUME Stands(p, {"spaces_before_uri", "after_slash_in_uri"})
       PROVE  /\ c # "SP" => Stands(q, {"spaces_before_uri", "after_slash_in_uri"})
              /\ c = "SP" => Stands(q, {"spaces_before_uri", "spaces_before_http"})
  BY <1>1, <1>2, <1>3, <1>6, <1>7, <1>9, <1>12 DEF Stands
<1>13. ASSUME Stands(p, {"spaces_before_uri", "spaces_before_http"})
       PROVE  Stands(q, (LineStates \ {"start"}) \cup {"header_crlf"})
  <2>1. CASE p.out = "INVALID"
    BY <1>9, <2>1 DEF Stands
  <2>2. CASE p.out = "INCOMPLETE" /\ p.st = "spaces_before_uri"
    BY <1>1, <1>3, <1>6, <2>2 DEF Stands, LineStates
  <2>3. CASE p.out = "INCOMPLETE" /\ p.st = "spaces_before_http"
    BY <1>1, <1>2, <1>8, <2>3 DEF Stands, LineStates
  <2> QED BY <1>13, <2>1, <2>2, <2>3 DEF Stands
<1>14. ASSUME Stands(p, LineStates \ {"start"}), c \in {"CR", "LF"}
       PROVE  q.out = "INVALID"
  BY <1>1, <1>5, <1>6, <1>7, <1>8, <1>9, <1>14 DEF Stands, LineStates
<1> QED BY <1>4, <1>10, <1>11, <1>12, <1>13, <1>14 DEF q, c

\* z is s and the zero behind it.
Ended(z, s) ==
    /\ z \in Seq(Chars) /\ Len(s) \in Nat /\ Len(z) = Len(s) + 1 /\ DOMAIN z = 1 .. Len(z)
    /\ \A i \in 1 .. Len(s) : z[i] = s[i]
    /\ z[Len(s) + 1] = NUL

LEMMA EndedIs ==
    ASSUME NEW s \in Seq(Chars)
    PROVE  Ended(s \o <<NUL>>, s)
<1> DEFINE e == <<NUL>>
           z == s \o e
<1>1. e \in Seq(Chars) /\ Len(e) = 1 /\ e[1] = NUL
  BY DEF Chars
<1> HIDE DEF e
<1>2. Joins(z, s, e, Chars)
  BY <1>1, JoinedAt
<1> HIDE DEF z
<1>3. z \in Seq(Chars) /\ Len(z) = Len(s) + 1 /\ Len(s) \in Nat /\ DOMAIN z = 1 .. Len(z)
  BY <1>1, <1>2, LenProperties DEF Joins
<1>4. z[Len(s) + 1] = NUL
  BY <1>1, <1>2 DEF Joins
<1>5. \A i \in 1 .. Len(s) : z[i] = s[i]
  BY <1>2 DEF Joins
<1> QED BY <1>3, <1>4, <1>5 DEF Ended, z, e

\* Where the parser is after k characters of request r.
OnLine(p, k, r) ==
    LET a == LineFrom(r)
        b == Len(r.target)
    IN  /\ k < a => p.out = "INCOMPLETE" /\ p.st = "start"
        /\ k = a => Stands(p, {"method"})
        /\ k \in a + 1 .. a + 1 + b => Stands(p, {"spaces_before_uri", "after_slash_in_uri"})
        /\ k = a + 2 + b => Stands(p, {"spaces_before_uri", "spaces_before_http"})
        /\ k = a + 3 + b => Stands(p, (LineStates \ {"start"}) \cup {"header_crlf"})
        /\ k > a + 3 + b => (p.out = "INCOMPLETE" => p.st \in HeaderStates)

LEMMA OnLineStep ==
    ASSUME NEW r \in Requests, NEW t, Ended(t, Text(r)), NEW n \in Nat, n + 1 <= Len(t),
           NEW p, Shape(p, n), OnLine(p, n, r)
    PROVE  OnLine(ParserStep(p, t, n + 1), n + 1, r)
<1> DEFINE a == LineFrom(r)
           b == Len(r.target)
           c == t[n + 1]
           q == ParserStep(p, t, n + 1)
           N == Len(Text(r))
<1>1. a \in Nat \ {0} /\ b \in Nat /\ LineLength(r) = a + 3 + b /\ N \in Nat /\ a + 3 + b < N
      /\ Len(t) = N + 1
  BY TextLine DEF LineLength, Ended
<1>2. \A i \in 1 .. N : t[i] = Text(r)[i]
  BY DEF Ended
<1>3. IsParser(p)
  BY DEF Shape
<1>4. /\ n < a => p.out = "INCOMPLETE" /\ p.st = "start"
      /\ n = a => Stands(p, {"method"})
      /\ n \in a + 1 .. a + 1 + b => Stands(p, {"spaces_before_uri", "after_slash_in_uri"})
      /\ n = a + 2 + b => Stands(p, {"spaces_before_uri", "spaces_before_http"})
      /\ n = a + 3 + b => Stands(p, (LineStates \ {"start"}) \cup {"header_crlf"})
      /\ n > a + 3 + b => (p.out = "INCOMPLETE" => p.st \in HeaderStates)
  BY DEF OnLine
<1>5. /\ n + 1 < a => c \in {"CR", "LF"}
      /\ n + 1 = a => c = r.method
      /\ n + 1 = a + 1 => c = "SP"
      /\ n + 1 = a + 2 + b => c = "SP"
      /\ n + 1 = a + 4 + b => c \in {"CR", "LF"}
  <2> DEFINE T == Text(r)
             L == LineLength(r)
  <2>1. /\ \A i \in 1 .. a - 1 : T[i] \in {"CR", "LF"}
        /\ T[a] = r.method /\ T[a + 1] = "SP"
        /\ T[L - 1] = "SP" /\ T[L + 1] \in {"CR", "LF"}
    BY TextLine
  <2> HIDE DEF a, b, N, T, L
  <2>2. L - 1 = a + 2 + b /\ L + 1 = a + 4 + b
    BY <1>1 DEF L
  <2>3. ASSUME n + 1 <= a + 4 + b PROVE c = T[n + 1]
    <3>1. n + 1 \in 1 .. N
      BY <1>1, <2>3
    <3> QED BY <1>2, <3>1 DEF T
  <2> HIDE DEF c
  <2>4. ASSUME n + 1 < a PROVE c \in {"CR", "LF"}
    <3>1. n + 1 \in 1 .. a - 1 /\ n + 1 <= a + 4 + b
      BY <1>1, <2>4
    <3> QED BY <2>1, <2>3, <3>1
  <2>5. n + 1 = a => c = r.method
    BY <1>1, <2>1, <2>3
  <2>6. n + 1 = a + 1 => c = "SP"
    BY <1>1, <2>1, <2>3
  <2>7. n + 1 = a + 2 + b => c = "SP"
    BY <1>1, <2>1, <2>2, <2>3
  <2>8. n + 1 = a + 4 + b => c \in {"CR", "LF"}
    BY <1>1, <2>1, <2>2, <2>3
  <2> QED BY <2>4, <2>5, <2>6, <2>7, <2>8
<1>6. ASSUME n + 1 \in a + 2 .. a + 1 + b PROVE c # "SP"
  <2>1. n - a \in 1 .. b /\ a + 1 + (n - a) = n + 1 /\ n + 1 \in 1 .. N
    <3> HIDE DEF a, b, N
    <3> QED BY <1>1, <1>6
  <2>2. Text(r)[a + 1 + (n - a)] # "SP"
    BY <2>1, TextLine
  <2> QED BY <1>2, <2>1, <2>2
<1>7. r.method \notin {"CR", "LF", NUL}
  BY RequestsAssumption
<1>8. p.out = "INCOMPLETE" /\ p.st \in HeaderStates => q.st \in HeaderStates
  <2> DEFINE k == n + 1
  <2>1. k \in Nat /\ k # 0 /\ k - 1 = n
    OBVIOUS
  <2> HIDE DEF k
  <2>2. p.out = "INCOMPLETE" => Leads(p, ParserStep(p, t, k), k, t[k])
    BY <2>1, StepLeads
  <2> QED BY <2>2 DEF Leads, k
<1>9. p.out # "INCOMPLETE" => q = p
  BY DEF ParserStep
<1>10. /\ p.out = "INCOMPLETE" /\ p.st = "start" /\ c \in {"CR", "LF"} => q = p
       /\ p.out = "INCOMPLETE" /\ p.st = "start" /\ c \notin {"CR", "LF", NUL} => Stands(q, {"method"})
       /\ Stands(p, {"method"}) /\ c = "SP" => Stands(q, {"spaces_before_uri"})
       /\ Stands(p, {"spaces_before_uri", "after_slash_in_uri"}) /\ c # "SP" =>
              Stands(q, {"spaces_before_uri", "after_slash_in_uri"})
       /\ Stands(p, {"spaces_before_uri", "after_slash_in_uri"}) /\ c = "SP" =>
              Stands(q, {"spaces_before_uri", "spaces_before_http"})
       /\ Stands(p, {"spaces_before_uri", "spaces_before_http"}) =>
              Stands(q, (LineStates \ {"start"}) \cup {"header_crlf"})
       /\ Stands(p, LineStates \ {"start"}) /\ c \in {"CR", "LF"} => q.out = "INVALID"
  BY <1>3, LineStep
<1> HIDE DEF a, b, c, q, N
<1>11. n + 1 < a => q.out = "INCOMPLETE" /\ q.st = "start"
  BY <1>1, <1>4, <1>5, <1>10
<1>12. n + 1 = a => Stands(q, {"method"})
  BY <1>1, <1>4, <1>5, <1>7, <1>10
<1>13. ASSUME n + 1 \in a + 1 .. a + 1 + b
       PROVE  Stands(q, {"spaces_before_uri", "after_slash_in_uri"})
  <2>1. CASE n = a
    BY <1>4, <1>5, <1>10, <2>1 DEF Stands
  <2>2. CASE n # a
    <3>1. n + 1 \in a + 2 .. a + 1 + b /\ n \in a + 1 .. a + 1 + b
      BY <1>1, <1>13, <2>2
    <3> QED BY <1>4, <1>6, <1>10, <3>1
  <2> QED BY <2>1, <2>2
<1>14. ASSUME n + 1 = a + 2 + b PROVE Stands(q, {"spaces_before_uri", "spaces_before_http"})
  <2>1. n \in a + 1 .. a + 1 + b
    BY <1>1, <1>14
  <2> QED BY <1>4, <1>5, <1>10, <1>14, <2>1
<1>15. ASSUME n + 1 = a + 3 + b PROVE Stands(q, (LineStates \ {"start"}) \cup {"header_crlf"})
  <2>1. n = a + 2 + b
    BY <1>1, <1>15
  <2> QED BY <1>4, <1>10, <2>1
<1>16. ASSUME n + 1 > a + 3 + b, q.out = "INCOMPLETE" PROVE q.st \in HeaderStates
  <2>1. CASE n = a + 3 + b
    <3>1. c \in {"CR", "LF"} /\ Stands(p, (LineStates \ {"start"}) \cup {"header_crlf"})
      BY <1>1, <1>4, <1>5, <2>1
    <3>2. ~ Stands(p, LineStates \ {"start"})
      BY <1>10, <1>16, <3>1
    <3>3. p.out = "INCOMPLETE" /\ p.st = "header_crlf"
      BY <3>1, <3>2 DEF Stands
    <3> QED BY <1>8, <3>3 DEF HeaderStates
  <2>2. CASE n > a + 3 + b
    BY <1>4, <1>8, <1>9, <1>16, <2>2
  <2> QED BY <1>1, <1>16, <2>1, <2>2
<1> QED BY <1>11, <1>12, <1>13, <1>14, <1>15, <1>16 DEF OnLine, a, b, q

LEMMA LineRun ==
    ASSUME NEW r \in Requests, NEW t, Ended(t, Text(r)), NEW k \in 0 .. Len(t)
    PROVE  OnLine(Run(t, 0)[k], k, r)
<1> DEFINE f == Run(t, 0)
           S == {n \in Nat : n <= Len(t) => OnLine(f[n], n, r)}
<1>1. Len(t) \in Nat
  BY DEF Ended
<1>2. 0 \in S
  <2>1. f[0] = ParserStart
    BY <1>1, RunStep
  <2>2. LineFrom(r) \in Nat \ {0} /\ Len(r.target) \in Nat
    BY TextLine
  <2>3. ParserStart.out = "INCOMPLETE" /\ ParserStart.st = "start"
    BY DEF ParserStart
  <2> HIDE DEF f
  <2>4. OnLine(f[0], 0, r)
    BY <2>1, <2>2, <2>3 DEF OnLine
  <2> QED BY <2>4
<1>3. ASSUME NEW n \in S PROVE n + 1 \in S
  <2>1. ASSUME n + 1 <= Len(t) PROVE OnLine(f[n + 1], n + 1, r)
    <3>1. n \in Nat /\ n \in 0 .. Len(t) /\ n + 1 \in 1 .. Len(t) /\ (n + 1) - 1 = n
      BY <1>1, <2>1
    <3>2. OnLine(f[n], n, r)
      BY <1>1, <2>1
    <3>3. f[n + 1] = ParserStep(f[n], t, n + 1)
      BY <1>1, <3>1, RunStep
    <3>4. Shape(f[n], n)
      BY <1>1, <3>1, RunShape
    <3> HIDE DEF f
    <3> QED BY <2>1, <3>1, <3>2, <3>3, <3>4, OnLineStep
  <2> QED BY <2>1
<1>4. S = Nat
  <2> HIDE DEF S
  <2>1. S \subseteq Nat
    BY DEF S
  <2> QED BY <1>2, <1>3, <2>1, AllNat
<1>5. k \in Nat /\ k <= Len(t)
  BY <1>1
<1>6. k \in S
  <2> HIDE DEF S
  <2> QED BY <1>4, <1>5
<1> QED BY <1>5, <1>6

(***************************************************************************)
(* One attempt.                                                            *)
(***************************************************************************)
Whole(r) == Text(r) \o <<NUL>>

\* b is as much of request r as has come, but for the letters raised in it.
Came(b, r) ==
    /\ b \in Seq(Chars) /\ Len(b) <= Len(Text(r))
    /\ RaisedOnly(b, Whole(r), Len(b))

LEMMA AtOnceIs ==
    ASSUME NEW r \in Requests
    PROVE  /\ Ended(Whole(r), Text(r))
           /\ ParsedAtOnce[r] = Run(Whole(r), 0)[Len(Whole(r))]
           /\ \A n \in 0 .. Len(Whole(r)) :
                 Run(Whole(r), 0)[n].out # "INCOMPLETE" => ParsedAtOnce[r] = Run(Whole(r), 0)[n]
<1>1. Ended(Whole(r), Text(r))
  BY TextLine, EndedIs DEF Whole
<1>2. ParsedAtOnce[r] = Run(Whole(r), 0)[Len(Whole(r))]
  BY DEF ParsedAtOnce, ParseRequest, Whole
<1>3. Len(Whole(r)) \in Nat
  BY <1>1 DEF Ended
<1>4. ASSUME NEW n \in 0 .. Len(Whole(r)), Run(Whole(r), 0)[n].out # "INCOMPLETE"
      PROVE  ParsedAtOnce[r] = Run(Whole(r), 0)[n]
  <2>1. Len(Whole(r)) \in n .. Len(Whole(r))
    BY <1>3
  <2>2. After(Run(Whole(r), 0)[n], Run(Whole(r), 0)[Len(Whole(r))], n)
    BY <1>3, <2>1, RunAfter
  <2> QED BY <1>2, <1>4, <2>2 DEF After
<1> QED BY <1>1, <1>2, <1>4

\* An attempt on a part of the request is as the parser's run over the whole request,
\* which has one more character to read here, the zero.
LEMMA AttemptIs ==
    ASSUME NEW r \in Requests, NEW b, Came(b, r)
    PROVE  LET z == b \o <<NUL>>
               q == Run(Whole(r), 0)[Len(b)]
               p == ParseRequest(z, 0)
           IN  /\ Len(b) \in Nat /\ Len(b) \in 0 .. Len(Whole(r))
               /\ Shape(q, Len(b)) /\ OnLine(q, Len(b), r)
               /\ p = ParserStep(q, z, Len(b) + 1) /\ z[Len(b) + 1] = NUL
               /\ Len(b) = Len(Text(r)) => p = ParsedAtOnce[r]
<1> DEFINE z == b \o <<NUL>>
           t == Whole(r)
           n == Len(b)
           q == Run(t, 0)[n]
           p == ParseRequest(z, 0)
<1>1. Ended(t, Text(r))
  BY AtOnceIs
<1>2. Ended(z, b)
  BY EndedIs DEF Came
<1> HIDE DEF z, t
<1>3. /\ n \in Nat /\ Len(z) = n + 1 /\ Len(t) = Len(Text(r)) + 1 /\ n <= Len(Text(r)) /\ Len(t) \in Nat
      /\ Len(Text(r)) \in Nat
  BY <1>1, <1>2 DEF Ended, Came
<1>4. n \in 0 .. Len(t) /\ n + 1 \in 1 .. Len(z) /\ n + 1 <= Len(t) /\ (n + 1) - 1 = n
  BY <1>3
<1>5. Shape(q, n)
  BY <1>3, <1>4, RunShape
<1>6. OnLine(q, n, r)
  BY <1>1, <1>4, LineRun
<1>7. RaisedOnly(z, t, n)
  <2>1. \A j \in 1 .. n : z[j] = b[j]
    BY <1>2 DEF Ended
  <2> QED BY <2>1 DEF RaisedOnly, Came, t
<1>8. DOMAIN z = 1 .. Len(z) /\ DOMAIN t = 1 .. Len(t) /\ Len(z) \in Nat
  BY <1>1, <1>2 DEF Ended
<1>9. Run(z, 0)[n] = q
  <2>1. n \in 0 .. n /\ n <= Len(z) /\ n <= Len(t)
    BY <1>3, <1>4
  <2> QED BY <1>3, <1>7, <1>8, <2>1, RunAgrees
<1>10. p = ParserStep(q, z, n + 1)
  <2>1. p = Run(z, 0)[n + 1]
    BY <1>3 DEF ParseRequest
  <2>2. Run(z, 0)[n + 1] = ParserStep(Run(z, 0)[n], z, n + 1)
    BY <1>4, <1>8, RunStep
  <2> QED BY <1>9, <2>1, <2>2
<1>11. z[n + 1] = NUL
  BY <1>2 DEF Ended
<1>12. ASSUME n = Len(Text(r)) PROVE p = ParsedAtOnce[r]
  <2>1. Len(t) = n + 1 /\ t[n + 1] = NUL
    BY <1>1, <1>3, <1>12 DEF Ended
  <2>2. RaisedOnly(z, t, n + 1)
    BY <1>3, <1>7, <1>11, <2>1 DEF RaisedOnly
  <2>3. n + 1 \in Nat /\ n + 1 <= Len(z) /\ n + 1 <= Len(t) /\ n + 1 \in 0 .. n + 1
    BY <1>3, <1>4
  <2>4. Run(z, 0)[n + 1] = Run(t, 0)[n + 1]
    BY <1>3, <1>8, <2>2, <2>3, RunAgrees
  <2>5. ParsedAtOnce[r] = Run(t, 0)[n + 1]
    BY <2>1, AtOnceIs DEF t
  <2>6. p = Run(z, 0)[n + 1]
    BY <1>3 DEF ParseRequest
  <2> QED BY <2>4, <2>5, <2>6
<1> QED BY <1>3, <1>4, <1>5, <1>6, <1>10, <1>11, <1>12 DEF z, t

\* A request cut inside its first line is not valid.
LEMMA CutAttempt ==
    ASSUME NEW r \in Requests, NEW b, Came(b, r), Len(b) \in LineFrom(r) .. LineLength(r) - 1
    PROVE  ParseRequest(b \o <<NUL>>, 0).out = "INVALID"
<1> DEFINE z == b \o <<NUL>>
           n == Len(b)
           q == Run(Whole(r), 0)[n]
           p == ParseRequest(z, 0)
<1>1. /\ n \in Nat /\ Shape(q, n) /\ OnLine(q, n, r) /\ p = ParserStep(q, z, n + 1) /\ z[n + 1] = NUL
  BY AttemptIs
<1> HIDE DEF z, n, q, p
<1>2. LineFrom(r) \in Nat \ {0} /\ Len(r.target) \in Nat /\ LineLength(r) = LineFrom(r) + 3 + Len(r.target)
  BY TextLine DEF LineLength
<1>3. \/ n = LineFrom(r)
      \/ n \in LineFrom(r) + 1 .. LineFrom(r) + 1 + Len(r.target)
      \/ n = LineFrom(r) + 2 + Len(r.target)
  <2>1. n \in LineFrom(r) .. LineLength(r) - 1
    BY DEF n
  <2>2. \A a, t, L \in Nat : L = a + 3 + t /\ n \in a .. L - 1 =>
              n = a \/ n \in a + 1 .. a + 1 + t \/ n = a + 2 + t
    BY <1>1
  <2> QED BY <1>2, <2>1, <2>2
<1>4. Stands(q, LineStates \ {"start"})
  BY <1>1, <1>3 DEF OnLine, Stands, LineStates
<1>5. CASE q.out = "INVALID"
  BY <1>1, <1>5 DEF ParserStep, p, z
<1>6. CASE q.out = "INCOMPLETE" /\ q.st \in LineStates \ {"start"}
  <2>1. ParserStep(q, z, n + 1).out = "INVALID"
    BY <1>1, <1>6, AtZero
  <2> QED BY <1>1, <2>1 DEF p, z
<1> QED BY <1>4, <1>5, <1>6 DEF Stands

\* Cut elsewhere it comes to what it comes to at once, or more of it is awaited.
LEMMA WholeAttempt ==
    ASSUME NEW r \in Requests, NEW b, Came(b, r), Len(b) \notin LineFrom(r) .. LineLength(r) - 1
    PROVE  LET p == ParseRequest(b \o <<NUL>>, 0)
               w == ParsedAtOnce[r]
           IN  \/ p.out = "INCOMPLETE"
               \/ p.out = "INVALID" /\ w.out = "INVALID"
               \/ p = w
<1> DEFINE z == b \o <<NUL>>
           n == Len(b)
           R == Run(Whole(r), 0)
           q == R[n]
           p == ParseRequest(z, 0)
           w == ParsedAtOnce[r]
<1>1. /\ n \in Nat /\ Shape(q, n) /\ OnLine(q, n, r) /\ p = ParserStep(q, z, n + 1) /\ z[n + 1] = NUL
      /\ n \in 0 .. Len(Whole(r))
      /\ n = Len(Text(r)) => p = w
  BY AttemptIs
<1>2. q.out # "INCOMPLETE" => w = q
  BY <1>1, AtOnceIs
<1>3. LineFrom(r) \in Nat \ {0} /\ Len(r.target) \in Nat /\ LineLength(r) = LineFrom(r) + 3 + Len(r.target)
  BY TextLine DEF LineLength
<1>4. Ended(Whole(r), Text(r)) /\ Text(r)[LineLength(r) + 1] \in {"CR", "LF"} /\ n <= Len(Text(r))
  BY AtOnceIs, TextLine DEF Came
<1>5. n \notin LineFrom(r) .. LineLength(r) - 1
  OBVIOUS
<1> HIDE DEF z, n, R, p, w
<1>6. CASE q.out # "INCOMPLETE"
  BY <1>1, <1>2, <1>6 DEF ParserStep, p, w, z
<1>7. CASE q.out = "INCOMPLETE" /\ q.st \in HeaderStates \cup {"start"}
  <2>1. ParserStep(q, z, n + 1).out = "INCOMPLETE"
    BY <1>1, <1>7, AtZero
  <2> QED BY <1>1, <2>1 DEF p, z
<1>8. CASE q.out = "INCOMPLETE" /\ q.st \in LineStates \ {"start"}
  <2>1. n = LineLength(r)
    <3>1. q.st \notin HeaderStates /\ q.st # "start"
      BY <1>8 DEF LineStates, HeaderStates
    <3>2. ~ (n < LineFrom(r))
      BY <1>1, <3>1 DEF OnLine
    <3>3. ~ (n > LineFrom(r) + 3 + Len(r.target))
      BY <1>1, <1>8, <3>1 DEF OnLine
    <3> QED BY <1>1, <1>3, <1>5, <3>2, <3>3
  <2>2. ParserStep(q, z, n + 1).out = "INVALID"
    BY <1>1, <1>8, AtZero
  <2>3. n + 1 \in 0 .. Len(Whole(r)) /\ n + 1 \in 1 .. Len(Whole(r)) /\ (n + 1) - 1 = n /\ Len(Whole(r)) \in Nat
    BY <1>1, <1>4 DEF Ended
  <2>4. CASE n = Len(Text(r))
    BY <1>1, <2>4 DEF p, w, z
  <2>5. CASE n < Len(Text(r))
    <3>1. Whole(r)[n + 1] = Text(r)[LineLength(r) + 1]
      <4>1. n + 1 \in 1 .. Len(Text(r))
        BY <1>1, <1>4, <2>5 DEF Ended
      <4> QED BY <1>4, <2>1, <4>1 DEF Ended
    <3>2. R[n + 1] = ParserStep(q, Whole(r), n + 1)
      BY <2>3, RunStep DEF R
    <3>3. R[n + 1].out = "INVALID"
      <4>1. IsParser(q) /\ Stands(q, LineStates \ {"start"})
        BY <1>1, <1>8 DEF Shape, Stands
      <4> HIDE DEF q
      <4> QED BY <1>4, <3>1, <3>2, <4>1, LineStep
    <3>4. w = R[n + 1]
      BY <2>3, <3>3, AtOnceIs DEF R, w
    <3> QED BY <1>1, <2>2, <3>3, <3>4 DEF p, w, z
  <2>6. n < Len(Text(r)) \/ n = Len(Text(r))
    BY <1>1, <1>4 DEF Ended
  <2> QED BY <2>4, <2>5, <2>6
<1>9. q.st \in LineStates \cup HeaderStates
  BY <1>1 DEF Shape, Lies
<1> QED BY <1>6, <1>7, <1>8, <1>9

\* Raising letters leaves of the request what has come of it.
LEMMA RaisedCame ==
    ASSUME NEW r \in Requests, NEW b, Came(b, r), NEW p, p = ParseRequest(b \o <<NUL>>, 0)
    PROVE  Came(Raised(b, p.raised), r) /\ Len(Raised(b, p.raised)) = Len(b)
<1> DEFINE z == b \o <<NUL>>
           n == Len(b)
           R == Run(Whole(r), 0)
           q == R[n]
           c == Raised(b, p.raised)
<1>1. /\ n \in Nat /\ Shape(q, n) /\ p = ParserStep(q, z, n + 1) /\ n \in 0 .. Len(Whole(r))
  BY AttemptIs
<1>2. DOMAIN b = 1 .. n /\ b \in Seq(Chars) /\ n <= Len(Text(r))
  BY LenProperties DEF Came
<1>3. Len(Whole(r)) \in Nat
  BY AtOnceIs DEF Ended
<1> HIDE DEF z, n, R
<1>4. c \in Seq(Chars) /\ Len(c) = n
  <2>1. \A i \in 1 .. n : b[i] \in Chars
    BY <1>2, ElementOfSeq DEF n
  <2>2. \A x \in Chars : ToUpper(x) \in Chars
    BY DEF ToUpper, Chars
  <2>3. c = [i \in 1 .. n |-> IF i \in p.raised THEN ToUpper(b[i]) ELSE b[i]]
    BY <1>2 DEF Raised
  <2> DEFINE v == [i \in 1 .. n |-> IF i \in p.raised THEN ToUpper(b[i]) ELSE b[i]]
  <2>4. v \in [1 .. n -> Chars]
    BY <2>1, <2>2
  <2> HIDE DEF v
  <2>5. v \in Seq(Chars) /\ Len(v) = n
    BY <1>1, <2>4
  <2> QED BY <2>3, <2>5 DEF v
<1>5. \A j \in 1 .. n : j \in p.raised => j \in q.raised
  <2> DEFINE k == n + 1
  <2>1. k \in Nat /\ k # 0 /\ k - 1 = n
    BY <1>1
  <2> HIDE DEF k, q
  <2>2. q.out = "INCOMPLETE" => Leads(q, ParserStep(q, z, k), k, z[k])
    BY <1>1, <2>1, StepLeads
  <2>3. q.out # "INCOMPLETE" => p = q
    BY <1>1 DEF ParserStep
  <2>4. p = ParserStep(q, z, k)
    BY <1>1 DEF k
  <2>5. CASE q.out = "INCOMPLETE" /\ p.raised # q.raised
    <3>1. IsParser(q)
      BY <1>1 DEF Shape
    <3> DEFINE x == q.raised \cup {k}
    <3>2. p = [q EXCEPT !.raised = x]
      BY <2>2, <2>4, <2>5 DEF Leads
    <3> HIDE DEF x
    <3>3. p = Parser(q.st, q.mark, q.name, q.crlf, q.trail, x, q.headers, q.out)
      BY <3>1, <3>2, RaisedIs
    <3>4. p.raised = x
      BY <3>3, FieldsOf
    <3> QED BY <1>1, <2>1, <3>4 DEF x
  <2> QED BY <2>3, <2>5
<1>6. \A j \in 1 .. n : j \in q.raised => j \in R[j].raised
  <2> TAKE j \in 1 .. n
  <2>1. j \in 0 .. Len(Whole(r)) /\ n \in j .. Len(Whole(r)) /\ j <= j
    BY <1>1, <1>3
  <2>2. After(R[j], R[n], j)
    BY <1>3, <2>1, RunAfter DEF R
  <2> QED BY <2>1, <2>2 DEF After
<1>7. ASSUME NEW j \in 1 .. n
      PROVE  c[j] = Whole(r)[j] \/ (j \in R[j].raised /\ c[j] = ToUpper(Whole(r)[j]))
  <2>1. b[j] = Whole(r)[j] \/ (j \in R[j].raised /\ b[j] = ToUpper(Whole(r)[j]))
    BY <1>7 DEF Came, RaisedOnly, n, R
  <2>2. c[j] = IF j \in p.raised THEN ToUpper(b[j]) ELSE b[j]
    BY <1>2, <1>7 DEF Raised
  <2>3. j \in p.raised => j \in R[j].raised
    BY <1>5, <1>6, <1>7
  <2> HIDE DEF c, q
  <2> QED BY <2>1, <2>2, <2>3, ToUpperTwice
<1> QED BY <1>2, <1>4, <1>7 DEF Came, RaisedOnly, n, R

(***************************************************************************)
(* The inductive invariant.                                                *)
(***************************************************************************)
\* Before the handshake is over, the buffer holds what has come, to be read from its
\* first character; the last that came ended in the first line if cut says so.
Awaiting ==
    pc # "done" =>
        /\ Came(buffer_in, request) /\ rpos = 0 /\ outcome = "none"
        /\ cut <=> pc = "data" /\ Len(buffer_in) \in LineFrom(request) .. LineLength(request) - 1

\* Then it has come to what it comes to at once, or been dropped.
Over ==
    pc = "done" =>
        /\ Len(buffer_in) <= Len(Text(request)) /\ Len(buffer_in) \in Nat /\ rpos = 0
        /\ outcome \in {"open", "dropped"}
        /\ IF cut THEN outcome = "dropped" ELSE outcome = AtOnce(ParsedAtOnce[request])
        /\ outcome = "open" => headers = ParsedAtOnce[request].headers

IInv ==
    /\ request \in Requests /\ origins \in OriginSets /\ cut \in BOOLEAN
    /\ pc \in {"wait", "data", "done"}
    /\ Awaiting /\ Over
-----------------------------------------------------------------------------
LEMMA Initially == Init => IInv
<1> SUFFICES ASSUME Init PROVE IInv
  OBVIOUS
<1>1. <<>> \in Seq(Chars) /\ Len(<<>>) = 0
  BY EmptySeq
<1>2. Len(Text(request)) \in Nat /\ 0 <= Len(Text(request))
  BY TextLine, LenProperties DEF Init
<1>3. RaisedOnly(<<>>, Whole(request), 0)
  BY DEF RaisedOnly
<1>4. Awaiting
  BY <1>1, <1>2, <1>3 DEF Init, Awaiting, Came
<1>5. Over
  BY DEF Init, Over
<1> QED BY <1>4, <1>5 DEF Init, IInv

LEMMA ReadKeeps == IInv /\ Read => IInv'
<1> SUFFICES ASSUME IInv, Read PROVE IInv'
  OBVIOUS
<1> DEFINE r == request
           b == buffer_in
           T == Text(request)
<1>1. r \in Requests /\ Came(b, r) /\ rpos = 0 /\ outcome = "none" /\ ~cut
  BY DEF IInv, Awaiting, Read
<1>2. PICK m \in Len(b) + 1 .. Len(T) :
         /\ buffer_in' = b \o SubSeq(T, Len(b) + 1, m)
         /\ cut' = (cut \/ m \in LineFrom(r) .. LineLength(r) - 1)
  BY DEF Read
<1>3. T \in Seq(Chars) /\ Len(T) \in Nat /\ b \in Seq(Chars) /\ Len(b) \in Nat
  BY <1>1, TextLine, LenProperties DEF Came
<1> DEFINE more == SubSeq(T, Len(b) + 1, m)
           c    == b \o more
<1>4. /\ more \in Seq(Chars) /\ Len(more) = m - Len(b)
      /\ \A i \in 1 .. m - Len(b) : more[i] = T[Len(b) + i]
  <2>1. \A i \in Len(b) + 1 .. m : T[i] \in Chars
    <3> TAKE i \in Len(b) + 1 .. m
    <3>1. i \in 1 .. Len(T)
      BY <1>3
    <3> QED BY <1>3, <3>1, ElementOfSeq
  <2> DEFINE a == Len(b) + 1
  <2>2. a \in Int /\ m \in Int /\ a <= m /\ m - a + 1 = m - Len(b)
    BY <1>3
  <2>3. \A i \in 1 .. m - Len(b) : a + i - 1 = Len(b) + i
    BY <1>3
  <2> HIDE DEF a
  <2>4. /\ SubSeq(T, a, m) \in Seq(Chars) /\ Len(SubSeq(T, a, m)) = m - a + 1
        /\ \A i \in 1 .. m - a + 1 : SubSeq(T, a, m)[i] = T[a + i - 1]
    BY <2>1, <2>2, SubSeqProperties DEF a
  <2> QED BY <2>2, <2>3, <2>4 DEF a
<1> HIDE DEF more
<1>5. Joins(c, b, more, Chars)
  BY <1>3, <1>4, JoinedAt
<1> HIDE DEF c
<1>6. c \in Seq(Chars) /\ Len(c) = m /\ m <= Len(T)
  BY <1>3, <1>4, <1>5 DEF Joins
<1>7. ASSUME NEW j \in 1 .. m
      PROVE  c[j] = Whole(r)[j] \/ (j \in Run(Whole(r), 0)[j].raised /\ c[j] = ToUpper(Whole(r)[j]))
  <2>1. CASE j <= Len(b)
    <3>1. j \in 1 .. Len(b)
      BY <1>3, <2>1
    <3>2. c[j] = b[j]
      BY <1>5, <3>1 DEF Joins
    <3> QED BY <1>1, <3>1, <3>2 DEF Came, RaisedOnly
  <2>2. CASE j > Len(b)
    <3>1. j - Len(b) \in 1 .. m - Len(b) /\ Len(b) + (j - Len(b)) = j /\ j \in 1 .. Len(T)
      BY <1>3, <2>2
    <3>2. c[j] = more[j - Len(b)]
      BY <1>4, <1>5, <3>1 DEF Joins
    <3>3. c[j] = T[j]
      BY <1>4, <3>1, <3>2
    <3>4. Whole(r)[j] = T[j]
      BY <1>1, <3>1, AtOnceIs DEF Ended
    <3> QED BY <3>3, <3>4
  <2> QED BY <1>3, <2>1, <2>2
<1>8. Came(c, r)
  BY <1>6, <1>7 DEF Came, RaisedOnly
<1>9. buffer_in' = c /\ request' = request /\ pc' = "data" /\ rpos' = rpos /\ outcome' = outcome
  BY <1>2 DEF Read, c, more
<1>10. cut' <=> Len(c) \in LineFrom(r) .. LineLength(r) - 1
  BY <1>1, <1>2, <1>6
<1>11. Awaiting'
  BY <1>1, <1>8, <1>9, <1>10 DEF Awaiting
<1>12. Over'
  BY <1>9 DEF Over
<1>13. cut' \in BOOLEAN /\ origins' = origins
  BY <1>1, <1>2 DEF Read
<1> QED BY <1>9, <1>11, <1>12, <1>13 DEF IInv

\* What an attempt comes to, by where the request is cut.
LEMMA AttemptComesTo ==
    ASSUME IInv, pc = "data", NEW p, p = ParseRequest(buffer_in \o <<NUL>>, rpos)
    PROVE  /\ Came(buffer_in, request) /\ rpos = 0 /\ outcome = "none" /\ request \in Requests
           /\ cut => p.out = "INVALID"
           /\ ~cut => \/ p.out = "INCOMPLETE"
                      \/ p.out = "INVALID" /\ ParsedAtOnce[request].out = "INVALID"
                      \/ p = ParsedAtOnce[request]
           /\ Came(Raised(buffer_in, p.raised), request)
           /\ Len(Raised(buffer_in, p.raised)) = Len(buffer_in)
<1>1. /\ Came(buffer_in, request) /\ rpos = 0 /\ outcome = "none" /\ request \in Requests
      /\ cut <=> Len(buffer_in) \in LineFrom(request) .. LineLength(request) - 1
  BY DEF IInv, Awaiting
<1>2. p = ParseRequest(buffer_in \o <<NUL>>, 0)
  BY <1>1
<1>3. cut => p.out = "INVALID"
  BY <1>1, <1>2, CutAttempt
<1>4. ~cut => \/ p.out = "INCOMPLETE"
              \/ p.out = "INVALID" /\ ParsedAtOnce[request].out = "INVALID"
              \/ p = ParsedAtOnce[request]
  BY <1>1, <1>2, WholeAttempt
<1>5. /\ Came(Raised(buffer_in, p.raised), request)
      /\ Len(Raised(buffer_in, p.raised)) = Len(buffer_in)
  BY <1>1, <1>2, RaisedCame
<1> QED BY <1>1, <1>3, <1>4, <1>5

LEMMA OnDataKeeps == IInv /\ OnData => IInv'
<1> SUFFICES ASSUME IInv, OnData PROVE IInv'
  OBVIOUS
<1> DEFINE w == ParsedAtOnce[request]
<1>1. pc = "data"
  BY DEF OnData
<1>2. PICK p : /\ p = ParseRequest(buffer_in \o <<NUL>>, rpos)
               /\ Incomplete(p) \/ Rejected(p) \/ Accepted(p)
  BY DEF OnData
<1>3. /\ Came(buffer_in, request) /\ rpos = 0 /\ outcome = "none" /\ request \in Requests
      /\ cut => p.out = "INVALID"
      /\ ~cut => p.out = "INCOMPLETE" \/ (p.out = "INVALID" /\ w.out = "INVALID") \/ p = w
      /\ Came(Raised(buffer_in, p.raised), request)
      /\ Len(Raised(buffer_in, p.raised)) = Len(buffer_in)
  BY <1>1, <1>2, AttemptComesTo
<1>4. Len(buffer_in) \in Nat /\ Len(Text(request)) \in Nat /\ Len(buffer_in) <= Len(Text(request))
  BY <1>3, TextLine, LenProperties DEF Came
<1> HIDE DEF w
<1>5. CASE Incomplete(p)
  <2>1. /\ p.out = "INCOMPLETE" /\ ~cut /\ pc' = "wait" /\ rpos' = 0
        /\ buffer_in' = Raised(buffer_in, p.raised)
        /\ request' = request /\ origins' = origins /\ outcome' = outcome /\ cut' = cut
    BY <1>3, <1>5 DEF Incomplete, Attempt
  <2>2. Awaiting'
    BY <1>3, <2>1 DEF Awaiting
  <2>3. Over'
    BY <2>1 DEF Over
  <2> QED BY <2>1, <2>2, <2>3 DEF IInv
<1>6. CASE Rejected(p)
  <2>1. /\ p.out = "INVALID" \/ (p.out = "DONE" /\ ~Valid(p.headers))
        /\ outcome' = "dropped" /\ pc' = "done" /\ buffer_in' = Raised(buffer_in, p.raised)
        /\ request' = request /\ origins' = origins /\ rpos' = rpos /\ cut' = cut /\ headers' = headers
    BY <1>6 DEF Rejected, Attempt
  <2>2. ~cut => (AtOnce(w))' = "dropped"
    <3> SUFFICES ASSUME ~cut PROVE (AtOnce(w))' = "dropped"
      OBVIOUS
    <3>1. w' = w
      BY <2>1 DEF w
    <3>2. \/ w.out = "INVALID" 
          \/ w.out = "DONE" /\ ~Valid(w.headers)
      BY <1>3, <2>1
    <3>3. \A hs : Valid(hs)' = Valid(hs)
      BY <2>1 DEF Valid
    <3> QED BY <3>1, <3>2, <3>3 DEF AtOnce
  <2>3. Over'
    BY <1>3, <1>4, <2>1, <2>2 DEF Over, w
  <2>4. Awaiting'
    BY <2>1 DEF Awaiting
  <2> QED BY <2>1, <2>3, <2>4 DEF IInv
<1>7. CASE Accepted(p)
  <2>1. /\ p.out = "DONE" /\ Valid(p.headers) /\ outcome' = "open" /\ headers' = p.headers
        /\ pc' = "done" /\ buffer_in' = <<>> /\ rpos' = 0
        /\ request' = request /\ origins' = origins /\ cut' = cut
    BY <1>7 DEF Accepted
  <2>2. ~cut /\ p = w
    BY <1>3, <2>1
  <2>3. (AtOnce(w))' = "open"
    <3>1. w' = w
      BY <2>1 DEF w
    <3>2. w.out = "DONE" /\ Valid(w.headers)
      BY <2>1, <2>2
    <3>3. \A hs : Valid(hs)' = Valid(hs)
      BY <2>1 DEF Valid
    <3> QED BY <3>1, <3>2, <3>3 DEF AtOnce
  <2>4. Over'
    <3>1. w' = w /\ w' = (ParsedAtOnce[request])'
      BY <2>1 DEF w
    <3>2. Len(<<>>) = 0
      BY EmptySeq
    <3> QED BY <1>4, <2>1, <2>2, <2>3, <3>1, <3>2 DEF Over, w
  <2>5. Awaiting'
    BY <2>1 DEF Awaiting
  <2> QED BY <2>1, <2>4, <2>5 DEF IInv
<1> QED BY <1>2, <1>5, <1>6, <1>7

LEMMA NextKeeps == IInv /\ [Next]_vars => IInv'
<1> SUFFICES ASSUME IInv, [Next]_vars PROVE IInv'
  OBVIOUS
<1>1. CASE Read
  BY <1>1, ReadKeeps
<1>2. CASE OnData
  BY <1>2, OnDataKeeps
<1>3. CASE UNCHANGED vars
  <2>1. /\ request' = request /\ origins' = origins /\ buffer_in' = buffer_in /\ rpos' = rpos
        /\ pc' = pc /\ outcome' = outcome /\ headers' = headers /\ cut' = cut
    BY <1>3 DEF vars
  <2>2. \A p : AtOnce(p)' = AtOnce(p)
    BY <2>1 DEF AtOnce, Valid
  <2>3. Awaiting'
    BY <2>1 DEF IInv, Awaiting
  <2>4. Over'
    BY <2>1, <2>2 DEF IInv, Over
  <2> QED BY <2>1, <2>3, <2>4 DEF IInv
<1> QED BY <1>1, <1>2, <1>3 DEF Next

LEMMA Inductive == Spec => []IInv
BY Initially, NextKeeps, PTL DEF Spec

(***************************************************************************)
(* Type correctness of the handshake, for all requests: an attempt leaves  *)
(* the buffer's read position at its start (hk_reader.c:244).              *)
(***************************************************************************)
THEOREM HandshakeTypes == Spec => []TypeOK
<1>1. IInv => TypeOK
  <2> SUFFICES ASSUME IInv PROVE TypeOK
    OBVIOUS
  <2>1. /\ request \in Requests /\ origins \in OriginSets /\ cut \in BOOLEAN
        /\ pc \in {"wait", "data", "done"}
    BY DEF IInv
  <2>2. /\ Len(buffer_in) <= Len(Text(request)) /\ Len(buffer_in) \in Nat /\ rpos = 0
        /\ outcome \in {"none", "open", "dropped"}
    <3>1. CASE pc = "done"
      BY <3>1 DEF IInv, Over
    <3>2. CASE pc # "done"
      <4>1. Came(buffer_in, request) /\ rpos = 0 /\ outcome = "none"
        BY <3>2 DEF IInv, Awaiting
      <4> QED BY <4>1, LenProperties DEF Came
    <3> QED BY <3>1, <3>2
  <2> QED BY <2>1, <2>2 DEF TypeOK
<1> QED BY <1>1, Inductive, PTL

(***************************************************************************)
(* However a request is cut outside its first line, and whatever its       *)
(* characters are, it comes to what it comes to at once (hk_reader.c:236). *)
(***************************************************************************)
THEOREM HandshakeCutsDoNotMatter == Spec => []CutsDoNotMatter
<1>1. IInv => CutsDoNotMatter
  <2> SUFFICES ASSUME IInv PROVE CutsDoNotMatter
    OBVIOUS
  <2>1. CASE pc = "done"
    BY <2>1 DEF IInv, Over, CutsDoNotMatter
  <2>2. CASE pc # "done"
    BY <2>2 DEF IInv, Awaiting, CutsDoNotMatter
  <2> QED BY <2>1, <2>2
<1> QED BY <1>1, Inductive, PTL

(***************************************************************************)
(* A request of which a reader has seen a part of the first line is        *)
(* dropped, whatever it is (hk_reader.c:371).                              *)
(***************************************************************************)
THEOREM HandshakeCutLineDropped == Spec => []CutLineDropped
<1>1. IInv => CutLineDropped
  <2> SUFFICES ASSUME IInv PROVE CutLineDropped
    OBVIOUS
  <2>1. CASE pc = "done"
    BY <2>1 DEF IInv, Over, CutLineDropped
  <2>2. CASE pc # "done"
    BY <2>2 DEF IInv, Awaiting, CutLineDropped
  <2> QED BY <2>1, <2>2
<1> QED BY <1>1, Inductive, PTL

(***************************************************************************)
(* The parser in the lines of a plain request, character by character.     *)
(***************************************************************************)
\* The values of crlf.
On  == TRUE
Off == FALSE

\* A character that goes on with a name.
IsNameChar(c) == c \notin Separators \cup {":"}

LEMMA AtNameStep ==
    ASSUME NEW p, IsParser(p), NEW t, NEW i, p.out = "INCOMPLETE", p.st = "header_name"
    PROVE  /\ IsNameChar(t[i]) =>
                 ParserStep(p, t, i) = Parser("header_name", p.mark, p.name, p.crlf, p.trail,
                                              p.raised \cup {i}, p.headers, "INCOMPLETE")
           /\ t[i] = ":" =>
                 ParserStep(p, t, i) = Parser("header_separator", p.mark, <<p.mark, i - 1>>, p.crlf,
                                              p.trail, p.raised, p.headers, "INCOMPLETE")
<1> DEFINE c == t[i]
           q == ParserStep(p, t, i)
           g == Go(p, "header_separator")
           r == p.raised \cup {i}
           n == <<p.mark, i - 1>>
<1>1. q = AtHeaderName(p, i, c)
  BY DEF ParserStep
<1>2. ":" \notin Separators
  BY DEF Separators, Blank
<1>3. ASSUME IsNameChar(c) PROVE q = [p EXCEPT !.raised = r]
  BY <1>1, <1>3 DEF AtHeaderName, IsNameChar
<1>4. ASSUME c = ":" PROVE q = [g EXCEPT !.name = n]
  BY <1>1, <1>2, <1>4 DEF AtHeaderName
<1>5. g = Parser("header_separator", p.mark, p.name, p.crlf, p.trail, p.raised, p.headers, p.out)
  BY GoIs
<1>6. /\ IsParser(g) /\ g.st = "header_separator" /\ g.mark = p.mark /\ g.crlf = p.crlf
      /\ g.trail = p.trail /\ g.raised = p.raised /\ g.headers = p.headers /\ g.out = p.out
  BY <1>5, FieldsOf
<1> HIDE DEF q, c, g, r, n
<1>7. [p EXCEPT !.raised = r] = Parser(p.st, p.mark, p.name, p.crlf, p.trail, r, p.headers, p.out)
  BY RaisedIs
<1>8. [g EXCEPT !.name = n] = Parser(g.st, g.mark, n, g.crlf, g.trail, g.raised, g.headers, g.out)
  BY <1>6, NameIs
<1> QED BY <1>3, <1>4, <1>6, <1>7, <1>8 DEF q, c, r, n

LEMMA AtSeparatorStep ==
    ASSUME NEW p, IsParser(p), NEW t, NEW i, p.out = "INCOMPLETE", p.st = "header_separator"
    PROVE  /\ t[i] \in Blank \cup {"CR"} => ParserStep(p, t, i) = p
           /\ t[i] = "LF" =>
                 ParserStep(p, t, i) = Parser("header_lws", p.mark, p.name, On, p.trail,
                                              p.raised, p.headers, "INCOMPLETE")
           /\ t[i] \notin Blank \cup {"CR", "LF"} =>
                 ParserStep(p, t, i) = Parser("header_value", i, p.name, p.crlf, p.trail,
                                              p.raised, p.headers, "INCOMPLETE")
<1> DEFINE c == t[i]
           q == ParserStep(p, t, i)
           g == Go(p, "header_lws")
<1>1. q = AtHeaderSeparator(p, i, c)
  BY DEF ParserStep
<1>2. c \in Blank \cup {"CR"} => c # "LF"
  BY DEF Blank
<1>3. /\ c \in Blank \cup {"CR"} => q = p
      /\ c = "LF" => q = [g EXCEPT !.crlf = On]
      /\ c \notin Blank \cup {"CR", "LF"} => q = Mark(p, i, "header_value")
  BY <1>1, <1>2 DEF AtHeaderSeparator, On, Off
<1>4. g = Parser("header_lws", p.mark, p.name, p.crlf, p.trail, p.raised, p.headers, p.out)
  BY GoIs
<1>5. /\ IsParser(g) /\ g.st = "header_lws" /\ g.mark = p.mark /\ g.name = p.name
      /\ g.trail = p.trail /\ g.raised = p.raised /\ g.headers = p.headers /\ g.out = p.out
  BY <1>4, FieldsOf
<1> HIDE DEF q, c, g
<1>6. [g EXCEPT !.crlf = On] = Parser(g.st, g.mark, g.name, On, g.trail, g.raised, g.headers, g.out)
  BY <1>5, CrlfIs
<1>7. Mark(p, i, "header_value")
        = Parser("header_value", i, p.name, p.crlf, p.trail, p.raised, p.headers, p.out)
  BY MarkedIs
<1> QED BY <1>3, <1>5, <1>6, <1>7 DEF q, c

LEMMA AtValueStep ==
    ASSUME NEW p, IsParser(p), NEW t, NEW i, p.out = "INCOMPLETE", p.st = "header_value"
    PROVE  LET P(crlf, trail) == Parser("header_value", p.mark, p.name, crlf, trail,
                                        p.raised, p.headers, "INCOMPLETE")
               hs == WithHeader(p, t, i).headers
           IN  /\ t[i] = "CR" => ParserStep(p, t, i) = P(p.crlf, p.trail + 1)
               /\ t[i] = "LF" /\ p.crlf = Off => ParserStep(p, t, i) = P(On, p.trail + 1)
               /\ t[i] = "LF" /\ p.crlf = On =>
                     /\ ParserStep(p, t, i).out = "DONE" /\ ParserStep(p, t, i).headers = hs
               /\ t[i] \in Blank /\ p.crlf = On => ParserStep(p, t, i) = P(Off, 0)
               /\ t[i] \notin {"CR", "LF"} /\ p.crlf = Off => ParserStep(p, t, i) = p
               /\ t[i] \notin Blank \cup {"CR", "LF"} /\ p.crlf = On =>
                     ParserStep(p, t, i) = Parser("header_name", i, p.name, Off, 0,
                                                  p.raised, hs, "INCOMPLETE")
<1> DEFINE c == t[i]
           q == ParserStep(p, t, i)
           w == WithHeader(p, t, i)
           hs == w.headers
           m == Mark(w, i, "header_name")
           n == p.trail + 1
           P(crlf, trail) == Parser("header_value", p.mark, p.name, crlf, trail,
                                    p.raised, p.headers, "INCOMPLETE")
<1>1. q = AtHeaderValue(p, t, i, c)
  BY DEF ParserStep
<1>2. Blank \cap {"CR", "LF"} = {}
  BY DEF Blank
<1>3. /\ c = "CR" => q = [p EXCEPT !.trail = n]
      /\ c = "LF" /\ p.crlf = On => q = Return(w, "DONE")
      /\ c = "LF" /\ p.crlf = Off => q = [p EXCEPT !.crlf = On, !.trail = n]
      /\ c \in Blank /\ p.crlf = On => q = [p EXCEPT !.crlf = Off, !.trail = 0]
      /\ c \notin {"CR", "LF"} /\ p.crlf = Off => q = p
      /\ c \notin Blank \cup {"CR", "LF"} /\ p.crlf = On => q = [m EXCEPT !.crlf = Off]
  BY <1>1, <1>2 DEF AtHeaderValue, On, Off
<1>4. w = Parser(p.st, p.mark, p.name, p.crlf, 0, p.raised, hs, p.out)
  <2> DEFINE u == Raised(t, p.raised)
             x == AddHeader(p, SubSeq(u, p.name[1], p.name[2]), SubSeq(u, p.mark, i - p.trail - 1))
  <2>1. w = [p EXCEPT !.trail = 0, !.headers = x]
    BY DEF WithHeader
  <2> HIDE DEF x
  <2>2. w = Parser(p.st, p.mark, p.name, p.crlf, 0, p.raised, x, p.out)
    BY <2>1, TrailHeadersIs
  <2>3. w.headers = x
    <3> HIDE DEF w
    <3> QED BY <2>2, FieldsOf
  <2> QED BY <2>2, <2>3
<1> HIDE DEF hs
<1>5. IsParser(w) /\ w.st = p.st /\ w.mark = p.mark /\ w.name = p.name /\ w.crlf = p.crlf
      /\ w.trail = 0 /\ w.raised = p.raised /\ w.headers = hs /\ w.out = p.out
  <2> HIDE DEF w
  <2> QED BY <1>4, FieldsOf
<1> HIDE DEF w
<1>6. m = Parser("header_name", i, p.name, p.crlf, 0, p.raised, hs, p.out)
  BY <1>5, MarkedIs
<1>7. /\ IsParser(m) /\ m.st = "header_name" /\ m.mark = i /\ m.name = p.name /\ m.trail = 0
      /\ m.raised = p.raised /\ m.headers = hs /\ m.out = p.out
  <2> HIDE DEF m
  <2> QED BY <1>6, FieldsOf
<1> HIDE DEF m, q, c, n
<1>8. [p EXCEPT !.trail = n] = P(p.crlf, n)
  BY TrailIs
<1>9. [p EXCEPT !.crlf = On, !.trail = n] = P(On, n)
  <2>1. [p EXCEPT !.crlf = On, !.trail = n]
          = Parser(p.st, p.mark, p.name, On, n, p.raised, p.headers, p.out)
    BY CrlfTrailIs
  <2> QED BY <2>1
<1>10. [p EXCEPT !.crlf = Off, !.trail = 0] = P(Off, 0)
  <2>1. [p EXCEPT !.crlf = Off, !.trail = 0]
          = Parser(p.st, p.mark, p.name, Off, 0, p.raised, p.headers, p.out)
    BY CrlfTrailIs
  <2> QED BY <2>1
<1>11. Return(w, "DONE").out = "DONE" /\ Return(w, "DONE").headers = hs
  <2>1. Return(w, "DONE") = Parser(w.st, w.mark, w.name, w.crlf, w.trail, w.raised, w.headers, "DONE")
    BY <1>5, ReturnIs
  <2> QED BY <1>5, <2>1, FieldsOf
<1>12. [m EXCEPT !.crlf = Off] = Parser("header_name", i, p.name, Off, 0, p.raised, hs, "INCOMPLETE")
  <2>1. [m EXCEPT !.crlf = Off] = Parser(m.st, m.mark, m.name, Off, m.trail, m.raised, m.headers, m.out)
    BY <1>7, CrlfIs
  <2> QED BY <1>7, <2>1
<1> HIDE DEF P
<1>13. /\ c = "CR" => q = P(p.crlf, n)
       /\ c = "LF" /\ p.crlf = Off => q = P(On, n)
       /\ c = "LF" /\ p.crlf = On => q.out = "DONE" /\ q.headers = hs
       /\ c \in Blank /\ p.crlf = On => q = P(Off, 0)
       /\ c \notin {"CR", "LF"} /\ p.crlf = Off => q = p
       /\ c \notin Blank \cup {"CR", "LF"} /\ p.crlf = On =>
             q = Parser("header_name", i, p.name, Off, 0, p.raised, hs, "INCOMPLETE")
  BY <1>3, <1>8, <1>9, <1>10, <1>11, <1>12
<1> QED BY <1>13 DEF q, c, n, P, hs, w

LEMMA AtLwsStep ==
    ASSUME NEW p, IsParser(p), NEW t, NEW i, p.out = "INCOMPLETE", p.st = "header_lws", p.crlf = On
    PROVE  /\ t[i] = "CR" =>
                 ParserStep(p, t, i) = Parser("header_lws", p.mark, p.name, On, 0,
                                              p.raised, p.headers, "INCOMPLETE")
           /\ t[i] = "LF" =>
                 ParserStep(p, t, i).out = "DONE" /\ ParserStep(p, t, i).headers = p.headers
           /\ t[i] \notin Blank \cup {"CR", "LF"} =>
                 ParserStep(p, t, i) = Parser("header_name", i, p.name, Off, 0,
                                              p.raised, p.headers, "INCOMPLETE")
<1> DEFINE c == t[i]
           q == ParserStep(p, t, i)
           m == Mark(p, i, "header_name")
<1>1. q = AtHeaderLws(p, i, c)
  BY DEF ParserStep
<1>2. Blank \cap {"CR", "LF"} = {}
  BY DEF Blank
<1>3. /\ c = "CR" => q = [p EXCEPT !.trail = 0]
      /\ c = "LF" => q = Return(p, "DONE")
      /\ c \notin Blank \cup {"CR", "LF"} => q = [m EXCEPT !.trail = 0, !.crlf = Off]
  BY <1>1, <1>2 DEF AtHeaderLws, On, Off
<1>4. m = Parser("header_name", i, p.name, p.crlf, p.trail, p.raised, p.headers, p.out)
  BY MarkedIs
<1>5. /\ IsParser(m) /\ m.st = "header_name" /\ m.mark = i /\ m.name = p.name
      /\ m.raised = p.raised /\ m.headers = p.headers /\ m.out = p.out
  <2> HIDE DEF m
  <2> QED BY <1>4, FieldsOf
<1> HIDE DEF m, q, c
<1>6. [p EXCEPT !.trail = 0] = Parser(p.st, p.mark, p.name, p.crlf, 0, p.raised, p.headers, p.out)
  BY TrailIs
<1>7. Return(p, "DONE").out = "DONE" /\ Return(p, "DONE").headers = p.headers
  <2>1. Return(p, "DONE") = Parser(p.st, p.mark, p.name, p.crlf, p.trail, p.raised, p.headers, "DONE")
    BY ReturnIs
  <2> QED BY <2>1, FieldsOf
<1>8. [m EXCEPT !.trail = 0, !.crlf = Off]
        = Parser(m.st, m.mark, m.name, Off, 0, m.raised, m.headers, m.out)
  <2>1. IsParser(m)
    BY <1>5
  <2> QED BY <2>1, TrailCrlfIs
<1> QED BY <1>3, <1>5, <1>6, <1>7, <1>8 DEF q, c

LEMMA AtCrlfStep ==
    ASSUME NEW p, IsParser(p), NEW t, NEW i, p.out = "INCOMPLETE", p.st = "header_crlf"
    PROVE  /\ t[i] \in {"CR", "LF"} =>
                 ParserStep(p, t, i) = Parser("header_crlf", p.mark, p.name, p.crlf, 0,
                                              p.raised, p.headers, "INCOMPLETE")
           /\ t[i] \notin Blank \cup {"CR", "LF"} =>
                 ParserStep(p, t, i) = Parser("header_name", i, p.name, p.crlf, 0,
                                              p.raised, p.headers, "INCOMPLETE")
<1> DEFINE c == t[i]
           q == ParserStep(p, t, i)
           m == Mark(p, i, "header_name")
<1>1. q = AtHeaderCrlf(p, i, c)
  BY DEF ParserStep
<1>2. /\ c \in {"CR", "LF"} => q = [p EXCEPT !.trail = 0]
      /\ c \notin Blank \cup {"CR", "LF"} => q = [m EXCEPT !.trail = 0]
  BY <1>1 DEF AtHeaderCrlf, Blank
<1>3. m = Parser("header_name", i, p.name, p.crlf, p.trail, p.raised, p.headers, p.out)
  BY MarkedIs
<1>4. /\ IsParser(m) /\ m.st = "header_name" /\ m.mark = i /\ m.name = p.name /\ m.crlf = p.crlf
      /\ m.raised = p.raised /\ m.headers = p.headers /\ m.out = p.out
  <2> HIDE DEF m
  <2> QED BY <1>3, FieldsOf
<1> HIDE DEF m, q, c
<1>5. [p EXCEPT !.trail = 0] = Parser(p.st, p.mark, p.name, p.crlf, 0, p.raised, p.headers, p.out)
  BY TrailIs
<1>6. [m EXCEPT !.trail = 0] = Parser(m.st, m.mark, m.name, m.crlf, 0, m.raised, m.headers, m.out)
  BY <1>4, TrailIs
<1> QED BY <1>2, <1>4, <1>5, <1>6 DEF q, c

(***************************************************************************)
(* Between two lines.                                                      *)
(***************************************************************************)
\* The headers of p with the one whose name it has, and whose value ends with character n.
Takes(p, t, n) ==
    LET u == Raised(t, p.raised)
    IN  AddHeader(p, SubSeq(u, p.name[1], p.name[2]), SubSeq(u, p.mark, n))

\* After k characters, the last of them the end of a line, the headers are c; that of
\* the line is one of them, or is added when the next character shows it is complete.
Due(p, t, k, c) ==
    /\ IsParser(p) /\ p.out = "INCOMPLETE" /\ p.raised \subseteq 1 .. k /\ p.trail \in Nat
    /\ \/ p.st = "header_crlf" /\ p.crlf = Off /\ p.headers = c
       \/ p.st = "header_lws" /\ p.crlf = On /\ p.headers = c
       \/ p.st = "header_value" /\ p.crlf = On /\ Takes(p, t, k - p.trail) = c

LEMMA WithHeaderTakes ==
    ASSUME NEW p, IsParser(p), NEW t, NEW i
    PROVE  WithHeader(p, t, i).headers = Takes(p, t, i - p.trail - 1)
<1> DEFINE x == Takes(p, t, i - p.trail - 1)
<1>1. WithHeader(p, t, i) = [p EXCEPT !.trail = 0, !.headers = x]
  BY DEF WithHeader, Takes
<1> HIDE DEF x
<1>2. WithHeader(p, t, i) = Parser(p.st, p.mark, p.name, p.crlf, 0, p.raised, x, p.out)
  BY <1>1, TrailHeadersIs
<1> QED BY <1>2, FieldsOf DEF x

\* Of the characters behind the first s, those raised are in the name of d characters.
RaisedIn(a, s, d) ==
    /\ a \subseteq 1 .. s + d
    /\ \A x \in Nat : x > s => (x \in a <=> x \in s + 2 .. s + d)

\* d characters of a name, which begins behind the first s characters of the text.
NameRead(p, s, d, c) ==
    /\ IsParser(p) /\ p.st = "header_name" /\ p.mark = s + 1 /\ p.crlf = Off /\ p.trail = 0
    /\ p.headers = c /\ p.out = "INCOMPLETE" /\ RaisedIn(p.raised, s, d)

\* A name follows.
LEMMA DueName ==
    ASSUME NEW s \in Nat, NEW p, NEW t, NEW c, Due(p, t, s, c), IsNameChar(t[s + 1])
    PROVE  NameRead(ParserStep(p, t, s + 1), s, 1, c)
<1> DEFINE i == s + 1
           q == ParserStep(p, t, i)
           Begun(z) == /\ IsParser(z) /\ z.st = "header_name" /\ z.mark = i /\ z.crlf = Off
                       /\ z.trail = 0 /\ z.headers = c /\ z.out = "INCOMPLETE" /\ z.raised = p.raised
<1>1. t[i] \notin Blank \cup {"CR", "LF"}
  BY DEF IsNameChar, Separators
<1>2. IsParser(p) /\ p.out = "INCOMPLETE" /\ p.raised \subseteq 1 .. s /\ p.trail \in Nat
  BY DEF Due
<1>3. i - p.trail - 1 = s - p.trail
  BY <1>2
<1> HIDE DEF i
<1>4. ASSUME p.st = "header_crlf" /\ p.crlf = Off /\ p.headers = c PROVE Begun(q)
  <2>1. q = Parser("header_name", i, p.name, p.crlf, 0, p.raised, p.headers, "INCOMPLETE")
    BY <1>1, <1>2, <1>4, AtCrlfStep
  <2> HIDE DEF q
  <2>2. /\ IsParser(q) /\ q.st = "header_name" /\ q.mark = i /\ q.crlf = p.crlf /\ q.trail = 0
        /\ q.headers = p.headers /\ q.out = "INCOMPLETE" /\ q.raised = p.raised
    BY <2>1, FieldsOf
  <2> QED BY <1>4, <2>2
<1>5. ASSUME p.st = "header_lws" /\ p.crlf = On /\ p.headers = c PROVE Begun(q)
  <2>1. q = Parser("header_name", i, p.name, Off, 0, p.raised, p.headers, "INCOMPLETE")
    BY <1>1, <1>2, <1>5, AtLwsStep
  <2> HIDE DEF q
  <2>2. Begun(q)
    BY <1>5, <2>1, FieldsOf
  <2> QED BY <2>2
<1>6. ASSUME p.st = "header_value" /\ p.crlf = On /\ Takes(p, t, s - p.trail) = c
      PROVE  Begun(q)
  <2> DEFINE hs == WithHeader(p, t, i).headers
  <2>1. hs = c
    BY <1>2, <1>3, <1>6, WithHeaderTakes
  <2>2. q = Parser("header_name", i, p.name, Off, 0, p.raised, hs, "INCOMPLETE")
    BY <1>1, <1>2, <1>6, AtValueStep
  <2> HIDE DEF q, hs
  <2>3. Begun(q)
    BY <2>1, <2>2, FieldsOf
  <2> QED BY <2>3
<1>7. Begun(q)
  BY <1>4, <1>5, <1>6 DEF Due
<1> HIDE DEF q
<1>8. RaisedIn(q.raised, s, 1)
  BY <1>2, <1>7 DEF RaisedIn
<1> QED BY <1>7, <1>8 DEF NameRead, q, i

\* The line that ends the request follows, and there is a header before it.
LEMMA DueEnd ==
    ASSUME NEW k \in Nat, NEW p, NEW t, NEW c, Due(p, t, k, c), p.st # "header_crlf"
    PROVE  LET q == ParserStep(p, t, k + 1)
           IN  /\ t[k + 1] = "CR" => Due(q, t, k + 1, c) /\ q.st # "header_crlf"
               /\ t[k + 1] = "LF" => q.out = "DONE" /\ q.headers = c
<1> DEFINE i == k + 1
           q == ParserStep(p, t, i)
<1>1. IsParser(p) /\ p.out = "INCOMPLETE" /\ p.raised \subseteq 1 .. k /\ p.trail \in Nat
  BY DEF Due
<1>2. p.raised \subseteq 1 .. i
  BY <1>1
<1>3. /\ i - p.trail - 1 = k - p.trail /\ i - (p.trail + 1) = k - p.trail
      /\ 0 \in Nat /\ p.trail + 1 \in Nat
  BY <1>1
<1> DEFINE Ends == /\ t[i] = "LF" => q.out = "DONE" /\ q.headers = c
                   /\ t[i] = "CR" => Due(q, t, i, c) /\ q.st # "header_crlf"
<1> HIDE DEF i
<1>4. ASSUME p.st = "header_lws" /\ p.crlf = On /\ p.headers = c PROVE Ends
  <2>1. ASSUME t[i] = "LF" PROVE q.out = "DONE" /\ q.headers = p.headers
    BY <1>1, <1>4, <2>1, AtLwsStep
  <2>2. ASSUME t[i] = "CR" PROVE Due(q, t, i, c) /\ q.st # "header_crlf"
    <3>1. q = Parser("header_lws", p.mark, p.name, On, 0, p.raised, p.headers, "INCOMPLETE")
      BY <1>1, <1>4, <2>2, AtLwsStep
    <3> HIDE DEF q
    <3>2. /\ IsParser(q) /\ q.st = "header_lws" /\ q.crlf = On /\ q.trail = 0
          /\ q.headers = p.headers /\ q.out = "INCOMPLETE" /\ q.raised = p.raised
      BY <3>1, FieldsOf
    <3> QED BY <1>2, <1>3, <1>4, <3>2 DEF Due
  <2> QED BY <1>4, <2>1, <2>2
<1>5. ASSUME p.st = "header_value" /\ p.crlf = On /\ Takes(p, t, k - p.trail) = c PROVE Ends
  <2>1. ASSUME t[i] = "LF" PROVE q.out = "DONE" /\ q.headers = c
    <3> DEFINE hs == WithHeader(p, t, i).headers
    <3>1. hs = c
      BY <1>1, <1>3, <1>5, WithHeaderTakes
    <3>2. q.out = "DONE" /\ q.headers = hs
      BY <1>1, <1>5, <2>1, AtValueStep
    <3> QED BY <3>1, <3>2
  <2>2. ASSUME t[i] = "CR" PROVE Due(q, t, i, c) /\ q.st # "header_crlf"
    <3> DEFINE n == p.trail + 1
    <3>1. q = Parser("header_value", p.mark, p.name, p.crlf, n, p.raised, p.headers, "INCOMPLETE")
      BY <1>1, <1>5, <2>2, AtValueStep
    <3> HIDE DEF q, n
    <3>2. /\ IsParser(q) /\ q.st = "header_value" /\ q.crlf = p.crlf /\ q.trail = n
          /\ q.mark = p.mark /\ q.name = p.name
          /\ q.headers = p.headers /\ q.out = "INCOMPLETE" /\ q.raised = p.raised
      BY <3>1, FieldsOf
    <3>3. Takes(q, t, k - p.trail) = Takes(p, t, k - p.trail)
      BY <3>2 DEF Takes, AddHeader
    <3>4. i - q.trail = k - p.trail /\ q.trail \in Nat
      BY <1>3, <3>2 DEF n
    <3> QED BY <1>2, <1>5, <3>2, <3>3, <3>4 DEF Due
  <2> QED BY <2>1, <2>2
<1>6. \/ p.st = "header_lws" /\ p.crlf = On /\ p.headers = c
      \/ p.st = "header_value" /\ p.crlf = On /\ Takes(p, t, k - p.trail) = c
  BY DEF Due
<1>7. Ends
  BY <1>4, <1>5, <1>6
<1> QED BY <1>7 DEF q, i

(***************************************************************************)
(* The line of a header.                                                   *)
(***************************************************************************)
\* f[k] is the parser after k of the L characters of t.
Runs(f, t, L) == \A k \in Nat : k < L => f[k + 1] = ParserStep(f[k], t, k + 1)

IsEol(e) == e = <<"CR", "LF">> \/ e = <<"LF">>

IsHeader(h) ==
    /\ Len(h.name) \in Nat /\ DOMAIN h.name = 1 .. Len(h.name)
    /\ Len(h.gap) \in Nat /\ DOMAIN h.gap = 1 .. Len(h.gap)
    /\ Len(h.value) \in Nat /\ DOMAIN h.value = 1 .. Len(h.value)
    /\ h.value \in Seq(STRING) /\ h.name \in Seq(STRING)

\* The characters before the value of a header that begins behind s characters.
ValueAfter(h, s) == s + Len(h.name) + 1 + Len(h.gap)

\* Where its line ends.
LineEnd(h, s, eol) == ValueAfter(h, s) + Len(h.value) + Len(eol)

\* The line is in t.
LineIn(t, s, h, eol) ==
    /\ \A j \in 1 .. Len(h.name) : t[s + j] = h.name[j]
    /\ t[s + Len(h.name) + 1] = ":"
    /\ \A j \in 1 .. Len(h.gap) : t[s + Len(h.name) + 1 + j] = h.gap[j]
    /\ \A j \in 1 .. Len(h.value) : t[ValueAfter(h, s) + j] = h.value[j]
    /\ \A j \in 1 .. Len(eol) : t[ValueAfter(h, s) + Len(h.value) + j] = eol[j]

\* Behind the colon, before the value.
SeparatorRead(p, s, m, c) ==
    /\ IsParser(p) /\ p.st = "header_separator" /\ p.name = <<s + 1, s + m>>
    /\ p.crlf = Off /\ p.trail = 0 /\ p.headers = c /\ p.out = "INCOMPLETE"
    /\ RaisedIn(p.raised, s, m)

\* In the value, which begins behind the first a characters.
ValueRead(p, s, m, a, crlf, trail, c) ==
    /\ IsParser(p) /\ p.st = "header_value" /\ p.name = <<s + 1, s + m>> /\ p.mark = a + 1
    /\ p.crlf = crlf /\ p.trail = trail /\ p.headers = c /\ p.out = "INCOMPLETE"
    /\ RaisedIn(p.raised, s, m)

LEMMA NameReadStep ==
    ASSUME NEW s \in Nat, NEW d \in Nat, d # 0, NEW p, NEW t, NEW c, NameRead(p, s, d, c)
    PROVE  /\ IsNameChar(t[s + d + 1]) => NameRead(ParserStep(p, t, s + d + 1), s, d + 1, c)
           /\ t[s + d + 1] = ":" => SeparatorRead(ParserStep(p, t, s + d + 1), s, d, c)
<1> DEFINE i == s + d + 1
           q == ParserStep(p, t, i)
           r == p.raised \cup {i}
           n == <<p.mark, i - 1>>
<1>1. IsParser(p)
  BY DEF NameRead
<1>2. /\ p.out = "INCOMPLETE" /\ p.st = "header_name" /\ p.mark = s + 1 /\ p.crlf = Off
      /\ p.trail = 0 /\ p.headers = c /\ RaisedIn(p.raised, s, d)
  BY DEF NameRead
<1>3. RaisedIn(r, s, d + 1)
  BY <1>2 DEF RaisedIn
<1>4. n = <<s + 1, s + d>>
  BY <1>2
<1> HIDE DEF i, r, n
<1>5. ASSUME IsNameChar(t[i]) PROVE NameRead(q, s, d + 1, c)
  <2>1. q = Parser("header_name", p.mark, p.name, p.crlf, p.trail, r, p.headers, "INCOMPLETE")
    BY <1>1, <1>2, <1>5, AtNameStep DEF r
  <2> HIDE DEF q
  <2>2. /\ IsParser(q) /\ q.st = "header_name" /\ q.mark = p.mark /\ q.crlf = p.crlf
        /\ q.trail = p.trail /\ q.headers = p.headers /\ q.out = "INCOMPLETE" /\ q.raised = r
    BY <2>1, FieldsOf
  <2> QED BY <1>2, <1>3, <2>2 DEF NameRead
<1>6. ASSUME t[i] = ":" PROVE SeparatorRead(q, s, d, c)
  <2>1. q = Parser("header_separator", p.mark, n, p.crlf, p.trail, p.raised, p.headers, "INCOMPLETE")
    BY <1>1, <1>2, <1>6, AtNameStep DEF n
  <2> HIDE DEF q
  <2>2. /\ IsParser(q) /\ q.st = "header_separator" /\ q.name = n /\ q.crlf = p.crlf
        /\ q.trail = p.trail /\ q.headers = p.headers /\ q.out = "INCOMPLETE" /\ q.raised = p.raised
    BY <2>1, FieldsOf
  <2> QED BY <1>2, <1>4, <2>2 DEF SeparatorRead
<1> QED BY <1>5, <1>6 DEF i

LEMMA SeparatorReadStep ==
    ASSUME NEW s \in Nat, NEW m \in Nat, NEW k \in Nat, s + m <= k, NEW p, NEW t, NEW c,
           SeparatorRead(p, s, m, c)
    PROVE  LET q == ParserStep(p, t, k + 1)
           IN  /\ t[k + 1] \in Blank \cup {"CR"} => SeparatorRead(q, s, m, c)
               /\ t[k + 1] = "LF" => Due(q, t, k + 1, c) /\ q.st = "header_lws"
               /\ t[k + 1] \notin Blank \cup {"CR", "LF"} => ValueRead(q, s, m, k, Off, 0, c)
<1> DEFINE i == k + 1
           q == ParserStep(p, t, i)
<1>1. IsParser(p)
  BY DEF SeparatorRead
<1>2. /\ p.out = "INCOMPLETE" /\ p.st = "header_separator" /\ p.name = <<s + 1, s + m>> /\ p.crlf = Off
      /\ p.trail = 0 /\ p.headers = c /\ RaisedIn(p.raised, s, m)
  BY DEF SeparatorRead
<1>3. p.raised \subseteq 1 .. i /\ p.trail \in Nat
  BY <1>2 DEF RaisedIn
<1> HIDE DEF i
<1>4. ASSUME t[i] \in Blank \cup {"CR"} PROVE SeparatorRead(q, s, m, c)
  BY <1>1, <1>2, <1>4, AtSeparatorStep
<1>5. ASSUME t[i] = "LF" PROVE Due(q, t, i, c) /\ q.st = "header_lws"
  <2>1. q = Parser("header_lws", p.mark, p.name, On, p.trail, p.raised, p.headers, "INCOMPLETE")
    BY <1>1, <1>2, <1>5, AtSeparatorStep
  <2> HIDE DEF q
  <2>2. /\ IsParser(q) /\ q.st = "header_lws" /\ q.crlf = On /\ q.trail = p.trail
        /\ q.headers = p.headers /\ q.out = "INCOMPLETE" /\ q.raised = p.raised
    BY <2>1, FieldsOf
  <2> QED BY <1>2, <1>3, <2>2 DEF Due
<1>6. ASSUME t[i] \notin Blank \cup {"CR", "LF"} PROVE ValueRead(q, s, m, k, Off, 0, c)
  <2>1. q = Parser("header_value", i, p.name, p.crlf, p.trail, p.raised, p.headers, "INCOMPLETE")
    BY <1>1, <1>2, <1>6, AtSeparatorStep
  <2> HIDE DEF q
  <2>2. /\ IsParser(q) /\ q.st = "header_value" /\ q.mark = i /\ q.name = p.name /\ q.crlf = p.crlf
        /\ q.trail = p.trail /\ q.headers = p.headers /\ q.out = "INCOMPLETE" /\ q.raised = p.raised
    BY <2>1, FieldsOf
  <2> QED BY <1>2, <2>2 DEF ValueRead, i
<1> QED BY <1>4, <1>5, <1>6 DEF i

LEMMA ValueReadStep ==
    ASSUME NEW s, NEW m, NEW a, NEW b, NEW n \in Nat, NEW c, NEW i,
           NEW p, NEW t, ValueRead(p, s, m, a, b, n, c)
    PROVE  LET q == ParserStep(p, t, i)
           IN  /\ t[i] = "CR" => ValueRead(q, s, m, a, b, n + 1, c)
               /\ t[i] = "LF" /\ b = Off => ValueRead(q, s, m, a, On, n + 1, c)
               /\ t[i] \in Blank /\ b = On => ValueRead(q, s, m, a, Off, 0, c)
               /\ t[i] \notin {"CR", "LF"} /\ b = Off => q = p
<1> DEFINE q == ParserStep(p, t, i)
<1>1. IsParser(p)
  BY DEF ValueRead
<1>2. /\ p.out = "INCOMPLETE" /\ p.st = "header_value" /\ p.name = <<s + 1, s + m>> /\ p.mark = a + 1
      /\ p.crlf = b /\ p.trail = n /\ p.headers = c /\ RaisedIn(p.raised, s, m)
  BY DEF ValueRead
<1> DEFINE P(crlf, trail) == Parser("header_value", p.mark, p.name, crlf, trail,
                                    p.raised, p.headers, "INCOMPLETE")
<1>3. ASSUME NEW x, NEW y, q = P(x, y) PROVE ValueRead(q, s, m, a, x, y, c)
  <2> HIDE DEF q
  <2>1. /\ IsParser(q) /\ q.st = "header_value" /\ q.mark = p.mark /\ q.name = p.name /\ q.crlf = x
        /\ q.trail = y /\ q.headers = p.headers /\ q.out = "INCOMPLETE" /\ q.raised = p.raised
    BY <1>3, FieldsOf
  <2> QED BY <1>2, <2>1 DEF ValueRead
<1>4. /\ t[i] = "CR" => q = P(p.crlf, p.trail + 1)
      /\ t[i] = "LF" /\ p.crlf = Off => q = P(On, p.trail + 1)
      /\ t[i] \in Blank /\ p.crlf = On => q = P(Off, 0)
      /\ t[i] \notin {"CR", "LF"} /\ p.crlf = Off => q = p
  BY <1>1, <1>2, AtValueStep
<1>5. /\ t[i] = "CR" => q = P(b, n + 1)
      /\ t[i] = "LF" /\ b = Off => q = P(On, n + 1)
      /\ t[i] \in Blank /\ b = On => q = P(Off, 0)
      /\ t[i] \notin {"CR", "LF"} /\ b = Off => q = p
  BY <1>2, <1>4
<1> HIDE DEF P, q
<1>6. /\ t[i] = "CR" => ValueRead(q, s, m, a, b, n + 1, c)
      /\ t[i] = "LF" /\ b = Off => ValueRead(q, s, m, a, On, n + 1, c)
      /\ t[i] \in Blank /\ b = On => ValueRead(q, s, m, a, Off, 0, c)
  BY <1>3, <1>5
<1> QED BY <1>5, <1>6 DEF q

\* The line of the plain header h begins behind the first s characters of t.
HeaderHere(f, t, L, s, h, eol) ==
    /\ s \in Nat /\ L \in Nat /\ Runs(f, t, L) /\ LineEnd(h, s, eol) <= L /\ 1 .. L \subseteq DOMAIN t
    /\ IsHeader(h) /\ PlainHeader(h) /\ IsEol(eol) /\ LineIn(t, s, h, eol)

LEMMA EolLength ==
    ASSUME NEW e, IsEol(e)
    PROVE  /\ Len(e) \in {1, 2} /\ DOMAIN e = 1 .. Len(e)
           /\ Len(e) = 1 => e[1] = "LF"
           /\ Len(e) = 2 => e[1] = "CR" /\ e[2] = "LF"
BY DEF IsEol

LEMMA HeaderLengths ==
    ASSUME NEW f, NEW t, NEW L, NEW s, NEW h, NEW eol, HeaderHere(f, t, L, s, h, eol)
    PROVE  /\ s \in Nat /\ L \in Nat /\ LineEnd(h, s, eol) <= L
           /\ Len(h.name) \in Nat /\ Len(h.gap) \in Nat /\ Len(h.value) \in Nat /\ Len(eol) \in {1, 2}
           /\ Len(h.name) # 0
           /\ ValueAfter(h, s) \in Nat /\ s + Len(h.name) < L /\ s + Len(h.name) <= ValueAfter(h, s)
           /\ ValueAfter(h, s) + Len(h.value) < L
<1>1. /\ s \in Nat /\ L \in Nat /\ LineEnd(h, s, eol) <= L /\ IsHeader(h) /\ PlainHeader(h)
      /\ IsEol(eol)
  BY DEF HeaderHere
<1>2. /\ Len(h.name) \in Nat /\ Len(h.gap) \in Nat /\ Len(h.value) \in Nat
      /\ h.name \in Seq(STRING) /\ h.name # <<>>
  BY <1>1 DEF IsHeader, PlainHeader
<1>3. Len(h.name) # 0
  BY <1>2, EmptySeq
<1>4. Len(eol) \in {1, 2}
  BY <1>1, EolLength
<1> DEFINE m == Len(h.name)
           g == Len(h.gap)
           l == Len(h.value)
           e == Len(eol)
<1>5. LineEnd(h, s, eol) = s + m + 1 + g + l + e /\ ValueAfter(h, s) = s + m + 1 + g
  BY DEF LineEnd, ValueAfter
<1>6. s \in Nat /\ L \in Nat /\ m \in Nat /\ g \in Nat /\ l \in Nat /\ e \in {1, 2}
      /\ s + m + 1 + g + l + e <= L
  BY <1>1, <1>2, <1>4, <1>5
<1> HIDE DEF m, g, l, e
<1>7. /\ s + m + 1 + g \in Nat /\ s + m < L /\ s + m <= s + m + 1 + g /\ s + m + 1 + g + l < L
  BY <1>6
<1> QED BY <1>1, <1>2, <1>3, <1>4, <1>5, <1>7 DEF m, l

LEMMA NameRun ==
    ASSUME NEW f, NEW t, NEW L, NEW s, NEW h, NEW eol, HeaderHere(f, t, L, s, h, eol),
           NEW c, Due(f[s], t, s, c)
    PROVE  NameRead(f[s + Len(h.name)], s, Len(h.name), c)
<1> DEFINE m == Len(h.name)
           S == {d \in Nat : d + 1 <= m => NameRead(f[s + (d + 1)], s, d + 1, c)}
<1>1. s \in Nat /\ L \in Nat /\ m \in Nat /\ m # 0 /\ s + m < L
  BY HeaderLengths
<1>2. ASSUME NEW d \in 1 .. m PROVE IsNameChar(t[s + d])
  <2>1. t[s + d] = h.name[d] /\ d \in DOMAIN h.name
    BY DEF HeaderHere, LineIn, IsHeader
  <2>2. h.name[d] \notin Separators \cup {":"}
    BY <2>1 DEF HeaderHere, PlainHeader, Range
  <2> QED BY <2>1, <2>2 DEF IsNameChar
<1>3. ASSUME NEW k \in Nat, k < L PROVE f[k + 1] = ParserStep(f[k], t, k + 1)
  BY <1>3 DEF HeaderHere, Runs
<1> HIDE DEF m
<1>4. 0 \in S
  <2>1. 1 \in 1 .. m /\ s < L
    BY <1>1
  <2>2. NameRead(ParserStep(f[s], t, s + 1), s, 1, c)
    BY <1>1, <1>2, <2>1, DueName
  <2> QED BY <1>1, <1>3, <2>1, <2>2
<1>5. ASSUME NEW d \in S PROVE d + 1 \in S
  <2>1. ASSUME (d + 1) + 1 <= m PROVE NameRead(f[s + ((d + 1) + 1)], s, (d + 1) + 1, c)
    <3> DEFINE n == d + 1
    <3>1. /\ n \in Nat /\ n # 0 /\ n + 1 \in 1 .. m /\ s + n \in Nat /\ s + n < L
          /\ s + (n + 1) = s + n + 1
      BY <1>1, <2>1
    <3>2. NameRead(f[s + n], s, n, c)
      BY <1>1, <2>1
    <3> HIDE DEF n
    <3>3. IsNameChar(t[s + n + 1])
      BY <1>2, <3>1
    <3>4. NameRead(ParserStep(f[s + n], t, s + n + 1), s, n + 1, c)
      BY <1>1, <3>1, <3>2, <3>3, NameReadStep
    <3>5. NameRead(f[s + (n + 1)], s, n + 1, c)
      BY <1>3, <3>1, <3>4
    <3> QED BY <3>5 DEF n
  <2> QED BY <2>1
<1>6. S = Nat
  <2> HIDE DEF S
  <2>1. S \subseteq Nat
    BY DEF S
  <2> QED BY <1>4, <1>5, <2>1, AllNat
<1>7. m - 1 \in Nat /\ (m - 1) + 1 = m /\ m <= m
  BY <1>1
<1>8. NameRead(f[s + m], s, m, c)
  BY <1>6, <1>7
<1> QED BY <1>8 DEF m

LEMMA GapRun ==
    ASSUME NEW f, NEW t, NEW L, NEW s, NEW h, NEW eol, HeaderHere(f, t, L, s, h, eol),
           NEW c, Due(f[s], t, s, c)
    PROVE  SeparatorRead(f[ValueAfter(h, s)], s, Len(h.name), c)
<1> DEFINE m == Len(h.name)
           g == Len(h.gap)
           a == s + m + 1
           S == {d \in Nat : d <= g => SeparatorRead(f[a + d], s, m, c)}
<1>0. /\ s \in Nat /\ L \in Nat /\ m \in Nat /\ m # 0 /\ g \in Nat /\ Len(h.value) \in Nat
      /\ ValueAfter(h, s) + Len(h.value) < L /\ s + m < L
  BY HeaderLengths
<1>1. s \in Nat /\ L \in Nat /\ m \in Nat /\ m # 0 /\ g \in Nat /\ a \in Nat /\ a + g < L
  <2>1. ValueAfter(h, s) = a + g
    BY DEF ValueAfter
  <2> DEFINE l == Len(h.value)
  <2>2. /\ s \in Nat /\ L \in Nat /\ m \in Nat /\ m # 0 /\ g \in Nat /\ l \in Nat
        /\ s + m + 1 + g + l < L
    BY <1>0, <2>1
  <2> HIDE DEF m, g, l
  <2> QED BY <2>2
<1>2. ASSUME NEW d \in 1 .. g PROVE t[a + d] \in Blank
  <2>1. t[a + d] = h.gap[d] /\ d \in DOMAIN h.gap
    BY DEF HeaderHere, LineIn, IsHeader
  <2> QED BY <2>1 DEF HeaderHere, PlainHeader, Range
<1>3. ASSUME NEW k \in Nat, k < L PROVE f[k + 1] = ParserStep(f[k], t, k + 1)
  BY <1>3 DEF HeaderHere, Runs
<1>4. t[a] = ":"
  BY DEF HeaderHere, LineIn
<1>5. NameRead(f[s + m], s, m, c)
  BY NameRun
<1>6. ValueAfter(h, s) = a + g
  BY DEF ValueAfter
<1> HIDE DEF m, g
<1>7. SeparatorRead(f[a], s, m, c)
  <2>1. SeparatorRead(ParserStep(f[s + m], t, s + m + 1), s, m, c)
    BY <1>1, <1>4, <1>5, NameReadStep
  <2>2. s + m \in Nat /\ s + m < L
    BY <1>1
  <2> QED BY <1>3, <2>1, <2>2
<1> HIDE DEF a
<1>8. 0 \in S
  BY <1>1, <1>7
<1>9. ASSUME NEW d \in S PROVE d + 1 \in S
  <2>1. ASSUME d + 1 <= g PROVE SeparatorRead(f[a + (d + 1)], s, m, c)
    <3> DEFINE k == a + d
    <3>1. /\ k \in Nat /\ s + m <= k /\ k < L /\ a + (d + 1) = k + 1 /\ d + 1 \in 1 .. g
      BY <1>1, <2>1 DEF a
    <3>2. SeparatorRead(f[k], s, m, c) /\ t[k + 1] \in Blank
      BY <1>1, <1>2, <2>1, <3>1
    <3> HIDE DEF k
    <3>3. SeparatorRead(ParserStep(f[k], t, k + 1), s, m, c)
      BY <1>1, <3>1, <3>2, SeparatorReadStep
    <3> QED BY <1>3, <3>1, <3>3
  <2> QED BY <2>1
<1>10. S = Nat
  <2> HIDE DEF S
  <2>1. S \subseteq Nat
    BY DEF S
  <2> QED BY <1>8, <1>9, <2>1, AllNat
<1>11. SeparatorRead(f[a + g], s, m, c)
  BY <1>1, <1>10
<1> QED BY <1>6, <1>11 DEF m

\* The characters of a value that end one of its lines.
LEMMA ValueLines ==
    ASSUME NEW h, IsHeader(h), PlainHeader(h), NEW d \in 1 .. Len(h.value)
    PROVE  LET v == h.value
           IN  /\ d = 1 => v[d] \notin Blank \cup {"CR", "LF"}
               /\ v[d] = "CR" => d < Len(v) /\ v[d + 1] = "LF"
               /\ v[d] = "LF" => d < Len(v) /\ v[d + 1] \in Blank
<1> DEFINE v == h.value
<1>1. v \in Seq(STRING) /\ DOMAIN v = 1 .. Len(v) /\ PlainValue(v)
  BY DEF IsHeader, PlainHeader
<1> HIDE DEF v
<1>2. d \in DOMAIN v /\ v # <<>>
  BY <1>1, EmptySeq DEF v
<1>3. /\ v[1] \notin Blank \cup {"CR", "LF"}
      /\ v[d] = "CR" => d < Len(v) /\ v[d + 1] = "LF"
      /\ v[d] = "LF" => d < Len(v) /\ v[d + 1] \in Blank
  BY <1>1, <1>2 DEF PlainValue
<1> QED BY <1>3 DEF v

\* d characters of the value have been read: is the last of them the end of a line?
ValueIn(p, s, m, a, v, d, c) ==
    /\ v[d] = "CR" => ValueRead(p, s, m, a, Off, 1, c)
    /\ v[d] = "LF" => \E n \in Nat : ValueRead(p, s, m, a, On, n, c)
    /\ v[d] \notin {"CR", "LF"} => ValueRead(p, s, m, a, Off, 0, c)

LEMMA ValueRun ==
    ASSUME NEW f, NEW t, NEW L, NEW s, NEW h, NEW eol, HeaderHere(f, t, L, s, h, eol),
           NEW c, Due(f[s], t, s, c), Len(h.value) # 0
    PROVE  ValueRead(f[ValueAfter(h, s) + Len(h.value)], s, Len(h.name), ValueAfter(h, s), Off, 0, c)
<1> DEFINE m == Len(h.name)
           v == h.value
           l == Len(h.value)
           a == ValueAfter(h, s)
           S == {d \in Nat : d + 1 <= l => ValueIn(f[a + (d + 1)], s, m, a, v, d + 1, c)}
<1>1. s \in Nat /\ L \in Nat /\ m \in Nat /\ l \in Nat /\ l # 0 /\ a \in Nat /\ a + l < L /\ s + m <= a
  BY HeaderLengths
<1>2. ASSUME NEW d \in 1 .. l
      PROVE  /\ t[a + d] = v[d]
             /\ d = 1 => v[d] \notin Blank \cup {"CR", "LF"}
             /\ v[d] = "CR" => d < l /\ v[d + 1] = "LF"
             /\ v[d] = "LF" => d < l /\ v[d + 1] \in Blank
  <2>1. t[a + d] = v[d]
    BY DEF HeaderHere, LineIn
  <2>2. IsHeader(h) /\ PlainHeader(h)
    BY DEF HeaderHere
  <2> QED BY <2>1, <2>2, ValueLines
<1>3. ASSUME NEW k \in Nat, k < L PROVE f[k + 1] = ParserStep(f[k], t, k + 1)
  BY <1>3 DEF HeaderHere, Runs
<1>4. SeparatorRead(f[a], s, m, c)
  BY GapRun
<1> HIDE DEF m, v, l, a
<1>5. 0 \in S
  <2>1. 1 \in 1 .. l /\ a < L
    BY <1>1
  <2>2. t[a + 1] = v[1] /\ v[1] \notin Blank \cup {"CR", "LF"}
    BY <1>2, <2>1
  <2>3. ValueRead(ParserStep(f[a], t, a + 1), s, m, a, Off, 0, c)
    BY <1>1, <1>4, <2>2, SeparatorReadStep
  <2>4. ValueRead(f[a + 1], s, m, a, Off, 0, c)
    BY <1>1, <1>3, <2>1, <2>3
  <2> QED BY <2>2, <2>4 DEF ValueIn
<1>6. ASSUME NEW d \in S PROVE d + 1 \in S
  <2>1. ASSUME (d + 1) + 1 <= l PROVE ValueIn(f[a + ((d + 1) + 1)], s, m, a, v, (d + 1) + 1, c)
    <3> DEFINE n == d + 1
               k == a + n
               q == ParserStep(f[k], t, k + 1)
    <3>1. /\ n \in 1 .. l /\ n + 1 \in 1 .. l
          /\ k \in Nat /\ k < L /\ a + (n + 1) = k + 1
      BY <1>1, <2>1
    <3>2. ValueIn(f[k], s, m, a, v, n, c)
      BY <1>1, <2>1
    <3> HIDE DEF n, q, k
    <3>3. /\ t[k + 1] = v[n + 1]
          /\ v[n] = "CR" => v[n + 1] = "LF"
          /\ v[n] = "LF" => v[n + 1] \in Blank
      BY <1>2, <3>1
    <3>4. ASSUME v[n] = "CR" PROVE ValueIn(q, s, m, a, v, n + 1, c)
      <4>1. ValueRead(f[k], s, m, a, Off, 1, c) /\ t[k + 1] = "LF"
        BY <3>2, <3>3, <3>4 DEF ValueIn
      <4>2. ValueRead(q, s, m, a, On, 1 + 1, c)
        <5>1. 1 \in Nat
          OBVIOUS
        <5> QED BY <4>1, <5>1, ValueReadStep DEF q
      <4>3. 1 + 1 \in Nat
        OBVIOUS
      <4> QED BY <3>3, <3>4, <4>2, <4>3 DEF ValueIn
    <3>5. ASSUME v[n] = "LF" PROVE ValueIn(q, s, m, a, v, n + 1, c)
      <4>1. PICK x \in Nat : ValueRead(f[k], s, m, a, On, x, c)
        BY <3>2, <3>5 DEF ValueIn
      <4>2. t[k + 1] \in Blank /\ v[n + 1] \notin {"CR", "LF"}
        BY <3>3, <3>5 DEF Blank
      <4>3. ValueRead(q, s, m, a, Off, 0, c)
        BY <4>1, <4>2, ValueReadStep DEF q
      <4> QED BY <4>2, <4>3 DEF ValueIn
    <3>6. ASSUME v[n] \notin {"CR", "LF"} PROVE ValueIn(q, s, m, a, v, n + 1, c)
      <4>1. ValueRead(f[k], s, m, a, Off, 0, c) /\ 0 \in Nat
        BY <3>2, <3>6 DEF ValueIn
      <4>2. ASSUME v[n + 1] = "CR" PROVE ValueRead(q, s, m, a, Off, 1, c)
        <5>1. ValueRead(q, s, m, a, Off, 0 + 1, c)
          BY <3>3, <4>1, <4>2, ValueReadStep DEF q
        <5>2. 0 + 1 = 1
          OBVIOUS
        <5> QED BY <5>1, <5>2
      <4>3. ASSUME v[n + 1] \notin {"CR", "LF"} PROVE ValueRead(q, s, m, a, Off, 0, c)
        <5>0. t[k + 1] \notin {"CR", "LF"}
          BY <3>3, <4>3
        <5>1. IsParser(f[k])
          BY <4>1 DEF ValueRead
        <5>2. f[k].out = "INCOMPLETE" /\ f[k].st = "header_value" /\ f[k].crlf = Off
          BY <4>1 DEF ValueRead
        <5>3. q = f[k]
          BY <5>0, <5>1, <5>2, AtValueStep DEF q
        <5> QED BY <4>1, <5>3
      <4>4. ASSUME v[n + 1] = "LF" PROVE ValueRead(q, s, m, a, On, 0 + 1, c) /\ 0 + 1 \in Nat
        <5>1. t[k + 1] = "LF"
          BY <3>3, <4>4
        <5>2. ValueRead(q, s, m, a, On, 0 + 1, c)
          BY <4>1, <5>1, ValueReadStep DEF q
        <5>3. 0 + 1 \in Nat
          OBVIOUS
        <5> QED BY <5>2, <5>3
      <4> QED BY <4>2, <4>3, <4>4 DEF ValueIn
    <3>7. ValueIn(q, s, m, a, v, n + 1, c)
      BY <3>4, <3>5, <3>6
    <3>8. ValueIn(f[a + (n + 1)], s, m, a, v, n + 1, c)
      BY <1>3, <3>1, <3>7 DEF q
    <3> QED BY <3>8 DEF n
  <2> QED BY <2>1
<1>7. S = Nat
  <2> HIDE DEF S
  <2>1. S \subseteq Nat
    BY DEF S
  <2> QED BY <1>5, <1>6, <2>1, AllNat
<1>8. l - 1 \in Nat /\ (l - 1) + 1 = l /\ l \in 1 .. l /\ l <= l
  BY <1>1
<1>9. ValueIn(f[a + l], s, m, a, v, l, c)
  BY <1>7, <1>8
<1>10. v[l] \notin {"CR", "LF"}
  BY <1>1, <1>2, <1>8
<1>11. ValueRead(f[a + l], s, m, a, Off, 0, c)
  BY <1>9, <1>10 DEF ValueIn
<1> QED BY <1>11 DEF m, a, l

\* The headers c and h, which is left out if it has no value or one of its name is there.
Plus(c, h) ==
    IF h.value = <<>> \/ \E i \in DOMAIN c : c[i].name = NameOf(h)
    THEN c
    ELSE Append(c, [name |-> NameOf(h), value |-> h.value])

LEMMA PartIs ==
    ASSUME NEW u, NEW a \in Nat, NEW n \in Nat
    PROVE  SubSeq(u, a + 1, a + n) = [i \in 1 .. n |-> u[a + i]]
<1>1. SubSeq(u, a + 1, a + n) = [i \in 1 .. 1 + (a + n) - (a + 1) |-> u[i + (a + 1) - 1]]
  OBVIOUS
<1>2. 1 + (a + n) - (a + 1) = n
  OBVIOUS
<1>3. \A i \in 1 .. n : i + (a + 1) - 1 = a + i
  OBVIOUS
<1>4. [i \in 1 .. n |-> u[i + (a + 1) - 1]] = [i \in 1 .. n |-> u[a + i]]
  BY <1>3
<1> QED BY <1>1, <1>2, <1>4

LEMMA TakesIs ==
    ASSUME NEW f, NEW t, NEW L, NEW s, NEW h, NEW eol, HeaderHere(f, t, L, s, h, eol),
           NEW p, p.name = <<s + 1, s + Len(h.name)>>, p.mark = ValueAfter(h, s) + 1,
           RaisedIn(p.raised, s, Len(h.name))
    PROVE  Takes(p, t, ValueAfter(h, s) + Len(h.value)) = Plus(p.headers, h)
<1> DEFINE m == Len(h.name)
           v == h.value
           l == Len(h.value)
           a == ValueAfter(h, s)
           u == Raised(t, p.raised)
           w == SubSeq(u, s + 1, s + m)
           x == SubSeq(u, a + 1, a + l)
<1>1. s \in Nat /\ L \in Nat /\ m \in Nat /\ m # 0 /\ l \in Nat /\ a \in Nat /\ s + m <= a /\ a + l < L
  BY HeaderLengths
<1>2. /\ DOMAIN h.name = 1 .. m /\ DOMAIN v = 1 .. l /\ h.name \in Seq(STRING) /\ v \in Seq(STRING)
      /\ \A i \in 1 .. m : t[s + i] = h.name[i]
      /\ \A i \in 1 .. l : t[a + i] = v[i]
      /\ 1 .. L \subseteq DOMAIN t
  BY DEF HeaderHere, IsHeader, LineIn
<1>3. h.name # <<>> /\ NameOf(h) # <<>>
  <2>1. DOMAIN NameOf(h) = 1 .. m
    BY <1>2 DEF NameOf
  <2>2. 1 \in 1 .. m /\ 1 \notin DOMAIN <<>>
    BY <1>1
  <2>3. NameOf(h) # <<>>
    BY <2>1, <2>2
  <2> QED BY <1>2, <2>2, <2>3
<1> HIDE DEF m, l, a
<1>4. w = NameOf(h)
  <2>1. w = [i \in 1 .. m |-> u[s + i]]
    BY <1>1, PartIs
  <2>2. ASSUME NEW i \in 1 .. m
        PROVE  u[s + i] = IF i = 1 THEN h.name[i] ELSE ToUpper(h.name[i])
    <3>1. s + i \in 1 .. L /\ s + i \in Nat /\ s + i > s /\ (s + i \in s + 2 .. s + m <=> i # 1)
      BY <1>1
    <3>2. s + i \in p.raised <=> i # 1
      BY <3>1 DEF RaisedIn, m
    <3>3. u[s + i] = IF s + i \in p.raised THEN ToUpper(t[s + i]) ELSE t[s + i]
      BY <1>2, <3>1 DEF Raised
    <3> QED BY <1>2, <3>2, <3>3
  <2>3. NameOf(h) = [i \in 1 .. m |-> IF i = 1 THEN h.name[i] ELSE ToUpper(h.name[i])]
    BY <1>2 DEF NameOf
  <2> HIDE DEF u, w
  <2> QED BY <2>1, <2>2, <2>3
<1>5. x = v
  <2>1. x = [i \in 1 .. l |-> u[a + i]]
    BY <1>1, PartIs
  <2>2. ASSUME NEW i \in 1 .. l PROVE u[a + i] = v[i]
    <3>1. a + i \in 1 .. L /\ a + i \in Nat /\ a + i > s /\ a + i \notin s + 2 .. s + m
      BY <1>1
    <3>2. a + i \notin p.raised
      BY <3>1 DEF RaisedIn, m
    <3>3. u[a + i] = t[a + i]
      BY <1>2, <3>1, <3>2 DEF Raised
    <3> QED BY <1>2, <3>3
  <2>3. v = [i \in 1 .. l |-> v[i]]
    <3>1. v \in [1 .. Len(v) -> STRING]
      BY <1>2, LenProperties
    <3>2. Len(v) = l
      BY DEF l
    <3> HIDE DEF v
    <3> QED BY <3>1, <3>2
  <2> HIDE DEF u, x, v
  <2> QED BY <2>1, <2>2, <2>3
<1>6. p.name[1] = s + 1 /\ p.name[2] = s + m /\ p.mark = a + 1
  BY DEF m, a
<1>7. Takes(p, t, a + l) = AddHeader(p, w, x)
  BY <1>6 DEF Takes
<1> HIDE DEF w, x
<1>8. AddHeader(p, NameOf(h), v) = Plus(p.headers, h)
  BY <1>3 DEF AddHeader, Plus
<1> QED BY <1>4, <1>5, <1>7, <1>8 DEF a, l

\* A line of the plain header h, behind which c are the headers and h.
LEMMA HeaderLine ==
    ASSUME NEW f, NEW t, NEW L, NEW s, NEW h, NEW eol, HeaderHere(f, t, L, s, h, eol),
           NEW c, Due(f[s], t, s, c)
    PROVE  LET k == LineEnd(h, s, eol)
           IN  Due(f[k], t, k, Plus(c, h)) /\ f[k].st # "header_crlf"
<1> DEFINE m == Len(h.name)
           v == h.value
           l == Len(h.value)
           a == ValueAfter(h, s)
           b == a + l
           e == Len(eol)
           Ends(k) == Due(f[k], t, k, Plus(c, h)) /\ f[k].st # "header_crlf"
<1>1. /\ s \in Nat /\ L \in Nat /\ m \in Nat /\ m # 0 /\ l \in Nat /\ a \in Nat /\ s + m <= a /\ b < L
      /\ e \in {1, 2} /\ b \in Nat /\ b + e <= L /\ s + m <= b
  <2>1. /\ s \in Nat /\ L \in Nat /\ m \in Nat /\ m # 0 /\ l \in Nat /\ a \in Nat /\ s + m <= a
        /\ b < L /\ e \in {1, 2} /\ LineEnd(h, s, eol) <= L
    BY HeaderLengths
  <2>2. LineEnd(h, s, eol) = b + e
    BY DEF LineEnd
  <2> HIDE DEF m, l, a, e
  <2> QED BY <2>1, <2>2
<1>2. LineEnd(h, s, eol) = b + e
  BY DEF LineEnd
<1>3. ASSUME NEW k \in Nat, k < L PROVE f[k + 1] = ParserStep(f[k], t, k + 1)
  BY <1>3 DEF HeaderHere, Runs
<1>4. /\ \A i \in 1 .. e : t[b + i] = eol[i]
      /\ IsEol(eol) /\ v \in Seq(STRING)
  BY DEF HeaderHere, LineIn, IsHeader
<1>5. /\ e = 1 => t[b + 1] = "LF"
      /\ e = 2 => t[b + 1] = "CR" /\ t[b + 2] = "LF"
  BY <1>4, EolLength
<1>6. ASSUME l = 0 PROVE Ends(b + e)
  <2>1. Plus(c, h) = c
    BY <1>4, <1>6, EmptySeq DEF Plus
  <2>2. SeparatorRead(f[b], s, m, c)
    <3>1. SeparatorRead(f[a], s, m, c)
      BY GapRun
    <3>2. b = a
      BY <1>1, <1>6
    <3> QED BY <3>1, <3>2
  <2> HIDE DEF m, l, a, b, e
  <2>3. ASSUME NEW k \in Nat, s + m <= k, k < L, SeparatorRead(f[k], s, m, c), t[k + 1] = "LF"
        PROVE  Ends(k + 1)
    <3>1. LET q == ParserStep(f[k], t, k + 1) IN Due(q, t, k + 1, c) /\ q.st = "header_lws"
      BY <1>1, <2>3, SeparatorReadStep
    <3>2. f[k + 1] = ParserStep(f[k], t, k + 1)
      BY <1>3, <2>3
    <3> QED BY <2>1, <3>1, <3>2
  <2>4. CASE e = 1
    BY <1>1, <1>5, <2>2, <2>3, <2>4
  <2>5. CASE e = 2
    <3>1. b + 1 \in Nat /\ s + m <= b + 1 /\ b + 1 < L /\ (b + 1) + 1 = b + 2
      BY <1>1, <2>5
    <3>2. SeparatorRead(ParserStep(f[b], t, b + 1), s, m, c)
      <4>1. t[b + 1] \in Blank \cup {"CR"}
        BY <1>5, <2>5
      <4> QED BY <1>1, <2>2, <4>1, SeparatorReadStep
    <3>3. SeparatorRead(f[b + 1], s, m, c)
      BY <1>1, <1>3, <3>2
    <3>4. t[(b + 1) + 1] = "LF"
      BY <1>5, <2>5, <3>1
    <3>5. Ends((b + 1) + 1)
      BY <2>3, <3>1, <3>3, <3>4
    <3> QED BY <2>5, <3>1, <3>5
  <2> QED BY <1>1, <2>4, <2>5
<1>7. ASSUME l # 0 PROVE Ends(b + e)
  <2>1. ValueRead(f[b], s, m, a, Off, 0, c)
    BY <1>7, ValueRun
  <2>2. ASSUME NEW p, p.name = <<s + 1, s + m>>, p.mark = a + 1, RaisedIn(p.raised, s, m), p.headers = c
        PROVE  Takes(p, t, b) = Plus(c, h)
    BY <2>2, TakesIs
  <2> HIDE DEF m, l, a, b, e
  <2>3. ASSUME NEW k \in Nat, NEW n \in Nat, ValueRead(f[k], s, m, a, On, n, c), k - n = b, s + m <= k
        PROVE  Ends(k)
    <3>1. /\ IsParser(f[k]) /\ f[k].st = "header_value" /\ f[k].name = <<s + 1, s + m>>
          /\ f[k].mark = a + 1 /\ f[k].crlf = On /\ f[k].trail = n /\ f[k].headers = c
          /\ f[k].out = "INCOMPLETE" /\ RaisedIn(f[k].raised, s, m)
      BY <2>3 DEF ValueRead
    <3>2. f[k].raised \subseteq 1 .. k
      BY <1>1, <2>3, <3>1 DEF RaisedIn
    <3>3. Takes(f[k], t, k - f[k].trail) = Plus(c, h)
      BY <2>2, <2>3, <3>1
    <3>4. f[k].trail \in Nat
      BY <2>3, <3>1
    <3> QED BY <3>1, <3>2, <3>3, <3>4 DEF Due
  <2>4. CASE e = 1
    <3>1. ValueRead(ParserStep(f[b], t, b + 1), s, m, a, On, 0 + 1, c)
      BY <1>5, <2>1, <2>4, ValueReadStep
    <3>2. b + 1 \in Nat /\ 0 + 1 \in Nat /\ (b + 1) - (0 + 1) = b /\ s + m <= b + 1
      BY <1>1
    <3>3. ValueRead(f[b + 1], s, m, a, On, 0 + 1, c)
      BY <1>1, <1>3, <3>1
    <3>4. Ends(b + 1)
      BY <2>3, <3>2, <3>3
    <3> QED BY <2>4, <3>4
  <2>5. CASE e = 2
    <3>1. ValueRead(ParserStep(f[b], t, b + 1), s, m, a, Off, 0 + 1, c)
      BY <1>5, <2>1, <2>5, ValueReadStep
    <3>2. /\ b + 1 \in Nat /\ b + 1 < L /\ (b + 1) + 1 = b + 2 /\ b + 2 \in Nat
          /\ 0 + 1 = 1 /\ 1 + 1 = 2 /\ 2 \in Nat /\ 1 \in Nat /\ (b + 2) - 2 = b /\ s + m <= b + 2
      BY <1>1, <2>5
    <3>3. ValueRead(f[b + 1], s, m, a, Off, 1, c)
      BY <1>1, <1>3, <3>1, <3>2
    <3>4. t[(b + 1) + 1] = "LF"
      BY <1>5, <2>5, <3>2
    <3>5. ValueRead(ParserStep(f[b + 1], t, (b + 1) + 1), s, m, a, On, 1 + 1, c)
      BY <3>2, <3>3, <3>4, ValueReadStep
    <3>6. ValueRead(f[b + 2], s, m, a, On, 2, c)
      BY <1>3, <3>2, <3>5
    <3>7. Ends(b + 2)
      BY <2>3, <3>2, <3>6
    <3> QED BY <2>5, <3>7
  <2> QED BY <1>1, <2>4, <2>5
<1>8. Ends(LineEnd(h, s, eol))
  BY <1>2, <1>6, <1>7
<1> QED BY <1>8

(***************************************************************************)
(* The first line of a plain request.                                      *)
(***************************************************************************)
LineRead(p, st) ==
    /\ IsParser(p) /\ p.st = st /\ p.crlf = Off /\ p.trail = 0 /\ p.raised = {}
    /\ p.headers = <<>> /\ p.out = "INCOMPLETE"

LEMMA LineGoes ==
    ASSUME NEW p, NEW st, LineRead(p, st), NEW x, NEW i
    PROVE  LineRead(Go(p, x), x) /\ LineRead(Mark(p, i, x), x) /\ Mark(p, i, x).mark = i
<1>1. IsParser(p)
  BY DEF LineRead
<1>2. /\ p.crlf = Off /\ p.trail = 0 /\ p.raised = {} /\ p.headers = <<>> /\ p.out = "INCOMPLETE"
  BY DEF LineRead
<1> DEFINE g == Go(p, x)
           m == Mark(p, i, x)
<1>3. g = Parser(x, p.mark, p.name, p.crlf, p.trail, p.raised, p.headers, p.out)
  BY <1>1, GoIs
<1>4. m = Parser(x, i, p.name, p.crlf, p.trail, p.raised, p.headers, p.out)
  BY <1>1, MarkedIs
<1> HIDE DEF g, m
<1>5. LineRead(g, x)
  BY <1>2, <1>3, FieldsOf DEF LineRead
<1>6. LineRead(m, x) /\ m.mark = i
  BY <1>2, <1>4, FieldsOf DEF LineRead
<1> QED BY <1>5, <1>6 DEF g, m

LEMMA LineReadStep ==
    ASSUME NEW p, NEW st, LineRead(p, st), NEW t, NEW i
    PROVE  LET q == ParserStep(p, t, i)
           IN  /\ st = "start" /\ t[i] \in {"CR", "LF"} => q = p
               /\ st = "start" /\ t[i] = "GET" => LineRead(q, "method") /\ q.mark = i
               /\ st = "method" /\ t[i] = "SP" /\ SubSeq(t, p.mark, i - 1) = <<"GET">> =>
                     LineRead(q, "spaces_before_uri")
               /\ st = "spaces_before_uri" /\ t[i] = "/" => LineRead(q, "after_slash_in_uri")
               /\ st = "after_slash_in_uri" /\ t[i] \notin {"SP", "CR", "LF", NUL} => q = p
               /\ st = "after_slash_in_uri" /\ t[i] = "SP" => LineRead(q, "spaces_before_http")
               /\ st = "spaces_before_http" /\ t[i] = "HTTP/1.1" => LineRead(q, "header_crlf")
               /\ st = "header_crlf" /\ t[i] \in {"CR", "LF"} => LineRead(q, "header_crlf")
<1> DEFINE c == t[i]
           q == ParserStep(p, t, i)
<1>1. IsParser(p)
  BY DEF LineRead
<1>2. /\ p.st = st /\ p.out = "INCOMPLETE" /\ p.crlf = Off /\ p.trail = 0 /\ p.raised = {}
      /\ p.headers = <<>>
  BY DEF LineRead
<1>3. \A x : LineRead(Go(p, x), x) /\ LineRead(Mark(p, i, x), x) /\ Mark(p, i, x).mark = i
  BY LineGoes
<1>4. ASSUME st = "start"
      PROVE  /\ c \in {"CR", "LF"} => q = p
             /\ c = "GET" => LineRead(q, "method") /\ q.mark = i
  <2>1. q = AtStart(p, i, c)
    BY <1>2, <1>4 DEF ParserStep
  <2>2. c \in {"CR", "LF"} => q = p
    BY <2>1 DEF AtStart, Upper, NUL
  <2>3. c = "GET" => q = Mark(p, i, "method")
    BY <2>1 DEF AtStart, Upper, NUL
  <2> QED BY <1>3, <2>2, <2>3
<1>5. ASSUME st = "method", c = "SP", SubSeq(t, p.mark, i - 1) = <<"GET">>
      PROVE  LineRead(q, "spaces_before_uri")
  <2>1. q = AtMethod(p, t, i, c)
    BY <1>2, <1>5 DEF ParserStep
  <2>2. q = Go(p, "spaces_before_uri")
    BY <1>5, <2>1 DEF AtMethod, Upper
  <2> QED BY <1>3, <2>2
<1>6. ASSUME st = "spaces_before_uri", c = "/" PROVE LineRead(q, "after_slash_in_uri")
  <2>1. q = AtSpacesBeforeUri(p, i, c)
    BY <1>2, <1>6 DEF ParserStep
  <2>2. q = Mark(p, i, "after_slash_in_uri")
    BY <1>6, <2>1 DEF AtSpacesBeforeUri, Upper, Lower
  <2> QED BY <1>3, <2>2
<1>7. ASSUME st = "after_slash_in_uri"
      PROVE  /\ c \notin {"SP", "CR", "LF", NUL} => q = p
             /\ c = "SP" => LineRead(q, "spaces_before_http")
  <2>1. q = AtUri(p, c)
    BY <1>2, <1>7 DEF ParserStep
  <2>2. c \notin {"SP", "CR", "LF", NUL} => q = p
    BY <2>1 DEF AtUri
  <2>3. c = "SP" => q = Go(p, "spaces_before_http")
    BY <2>1 DEF AtUri, NUL
  <2> QED BY <1>3, <2>2, <2>3
<1>8. ASSUME st = "spaces_before_http", c = "HTTP/1.1" PROVE LineRead(q, "header_crlf")
  <2>1. q = AtSpacesBeforeHttp(p, c)
    BY <1>2, <1>8 DEF ParserStep
  <2>2. q = Go(p, "header_crlf")
    BY <1>8, <2>1 DEF AtSpacesBeforeHttp
  <2> QED BY <1>3, <2>2
<1>9. ASSUME st = "header_crlf", c \in {"CR", "LF"} PROVE LineRead(q, "header_crlf")
  <2>1. q = Parser("header_crlf", p.mark, p.name, p.crlf, 0, p.raised, p.headers, "INCOMPLETE")
    BY <1>1, <1>2, <1>9, AtCrlfStep
  <2> HIDE DEF q
  <2> QED BY <1>2, <2>1, FieldsOf DEF LineRead
<1> QED BY <1>4, <1>5, <1>6, <1>7, <1>8, <1>9

LEMMA StartRead == LineRead(ParserStart, "start")
BY DEF LineRead, ParserStart, IsParser, Parser, Off

\* The parser's run over a request, the zero behind it included.
LEMMA WholeRuns ==
    ASSUME NEW r \in Requests
    PROVE  LET L == Len(Text(r))
           IN  /\ L \in Nat /\ Runs(Run(Whole(r), 0), Whole(r), L)
               /\ 1 .. L \subseteq DOMAIN Whole(r) /\ L \in 0 .. Len(Whole(r))
               /\ Len(Whole(r)) \in Nat /\ Run(Whole(r), 0)[0] = ParserStart
               /\ \A k, x : Part(Text(r), k, x) => Part(Whole(r), k, x)
<1> DEFINE t == Whole(r)
           L == Len(Text(r))
<1>1. /\ Len(t) \in Nat /\ L \in Nat /\ Len(t) = L + 1 /\ DOMAIN t = 1 .. Len(t)
      /\ \A i \in 1 .. L : t[i] = Text(r)[i]
  BY AtOnceIs DEF Ended
<1> HIDE DEF t
<1>2. Run(t, 0)[0] = ParserStart
  BY <1>1, RunStep
<1>3. ASSUME NEW k \in Nat, k < L PROVE Run(t, 0)[k + 1] = ParserStep(Run(t, 0)[k], t, k + 1)
  <2> DEFINE i == k + 1
  <2>1. i \in 1 .. Len(t) /\ i - 1 = k
    BY <1>1, <1>3
  <2> HIDE DEF i
  <2>2. Run(t, 0)[i] = ParserStep(Run(t, 0)[i - 1], t, i)
    BY <1>1, <2>1, RunStep
  <2> QED BY <2>1, <2>2 DEF i
<1>4. ASSUME NEW k, NEW x, Part(Text(r), k, x) PROVE Part(t, k, x)
  <2> DEFINE n == Len(x)
  <2>1. /\ k \in Nat /\ n \in Nat /\ k + n <= L
        /\ \A i \in 1 .. n : Text(r)[k + i] = x[i]
    BY <1>4 DEF Part
  <2> HIDE DEF n, L
  <2>2. k + n <= Len(t) /\ \A i \in 1 .. n : k + i \in 1 .. L
    BY <1>1, <2>1
  <2>3. \A i \in 1 .. n : t[k + i] = x[i]
    BY <1>1, <2>1, <2>2 DEF L
  <2> QED BY <1>1, <2>1, <2>2, <2>3 DEF Part, n
<1>5. Runs(Run(t, 0), t, L)
  <2> HIDE DEF L
  <2> QED BY <1>3 DEF Runs
<1>6. 1 .. L \subseteq DOMAIN t /\ L \in 0 .. Len(t)
  <2> HIDE DEF L
  <2> QED BY <1>1
<1> QED BY <1>1, <1>2, <1>4, <1>5, <1>6 DEF t

\* After its first line no header has been read.
LEMMA FirstLine ==
    ASSUME NEW r \in Requests, Plain(r)
    PROVE  LET k == LineLength(r) + Len(r.eol)
           IN  Due(Run(Whole(r), 0)[k], Whole(r), k, <<>>)
<1> DEFINE t == Whole(r)
           f == Run(t, 0)
           T == Text(r)
           L == Len(T)
           a == LineFrom(r)
           b == Len(r.target)
           e == Len(r.eol)
           k == LineLength(r)
<1>1. /\ L \in Nat /\ Runs(f, t, L) /\ f[0] = ParserStart
      /\ \A n, x : Part(T, n, x) => Part(t, n, x)
  BY WholeRuns
<1>2. /\ a \in Nat \ {0} /\ b \in Nat /\ e \in Nat /\ Len(HeadersText(r.headers, r.eol)) \in Nat
      /\ Part(T, a + 1, r.target) /\ Part(T, k - 2, <<"SP", r.version>>) /\ Part(T, k, r.eol)
      /\ L = k + e + Len(HeadersText(r.headers, r.eol)) + e
  BY TextLayout
<1>3. /\ \A i \in 1 .. a - 1 : T[i] \in {"CR", "LF"}
      /\ T[a] = r.method /\ T[a + 1] = "SP" /\ k < L
  BY TextLine
<1>4. k = a + 3 + b
  BY DEF LineLength
<1>5. /\ r.method = "GET" /\ r.version = "HTTP/1.1" /\ r.target # <<>> /\ r.target[1] = "/"
      /\ IsEol(r.eol)
      /\ \A i \in 1 .. b : r.target[i] \notin {"SP", "CR", "LF", NUL}
  <2>1. r.target \in Seq(STRING \ {"SP"})
    BY RequestsAssumption
  <2>2. ASSUME NEW i \in 1 .. b PROVE r.target[i] \notin {"SP", "CR", "LF", NUL}
    <3>1. i \in DOMAIN r.target /\ r.target[i] # "SP"
      BY <2>1, LenProperties, ElementOfSeq
    <3> QED BY <3>1 DEF Plain, Range
  <2> QED BY <2>2 DEF Plain, IsEol
<1>6. b # 0
  BY <1>5, RequestsAssumption, EmptySeq
<1>7. \A i \in 1 .. L : t[i] = T[i]
  BY AtOnceIs DEF Ended
<1>8. /\ \A i \in 1 .. b : t[a + 1 + i] = r.target[i]
      /\ t[a + 2 + b] = "SP" /\ t[a + 3 + b] = "HTTP/1.1"
      /\ \A i \in 1 .. e : t[k + i] = r.eol[i]
  <2>1. \A i \in 1 .. b : t[a + 1 + i] = r.target[i]
    <3>1. Part(t, a + 1, r.target)
      BY <1>1, <1>2
    <3> QED BY <3>1 DEF Part
  <2>2. \A i \in 1 .. e : t[k + i] = r.eol[i]
    <3>1. Part(t, k, r.eol)
      BY <1>1, <1>2
    <3> QED BY <3>1 DEF Part
  <2> DEFINE w == <<"SP", r.version>>
  <2>3. Len(w) = 2 /\ w[1] = "SP" /\ w[2] = "HTTP/1.1" /\ Part(t, k - 2, w)
    BY <1>1, <1>2, <1>5
  <2> HIDE DEF w
  <2>4. t[(k - 2) + 1] = "SP" /\ t[(k - 2) + 2] = "HTTP/1.1"
    BY <2>3 DEF Part
  <2>5. (k - 2) + 1 = a + 2 + b /\ (k - 2) + 2 = a + 3 + b
    BY <1>2, <1>4
  <2> QED BY <2>1, <2>2, <2>4, <2>5
<1> HIDE DEF t, f, T, L, a, b, e, k
<1>9. ASSUME NEW n \in Nat, n < L PROVE f[n + 1] = ParserStep(f[n], t, n + 1)
  BY <1>1, <1>9 DEF Runs
<1>10. f[a - 1] = ParserStart
  <2> DEFINE S == {n \in Nat : n <= a - 1 => f[n] = ParserStart}
  <2>1. 0 \in S
    BY <1>1
  <2>2. ASSUME NEW n \in S PROVE n + 1 \in S
    <3>1. ASSUME n + 1 <= a - 1 PROVE f[n + 1] = ParserStart
      <4>1. n + 1 \in 1 .. a - 1 /\ n + 1 \in 1 .. L /\ n < L /\ n <= a - 1
        BY <1>1, <1>2, <1>3, <1>4, <3>1
      <4>2. t[n + 1] \in {"CR", "LF"}
        BY <1>3, <1>7, <4>1
      <4>3. ParserStep(ParserStart, t, n + 1) = ParserStart
        BY <4>2, StartRead, LineReadStep
      <4> QED BY <1>9, <4>1, <4>3
    <3> QED BY <3>1
  <2>3. S = Nat
    <3> HIDE DEF S
    <3>1. S \subseteq Nat
      BY DEF S
    <3> QED BY <2>1, <2>2, <3>1, AllNat
  <2>4. a - 1 \in Nat /\ a - 1 <= a - 1
    BY <1>2
  <2> QED BY <2>3, <2>4
<1>11. /\ a - 1 \in Nat /\ a - 1 < L /\ a < L /\ a + 1 < L /\ (a - 1) + 1 = a /\ (a + 1) + 1 = a + 1 + 1
       /\ a \in Nat /\ a + 1 \in Nat /\ a \in 1 .. L /\ a + 1 \in 1 .. L /\ (a + 1) - 1 = a
  BY <1>1, <1>2, <1>3, <1>4
<1>12. LineRead(f[a], "method") /\ f[a].mark = a
  <2>1. t[a] = "GET" /\ f[a] = ParserStep(ParserStart, t, a)
    BY <1>3, <1>5, <1>7, <1>9, <1>10, <1>11
  <2> QED BY <2>1, StartRead, LineReadStep
<1>13. LineRead(f[a + 1], "spaces_before_uri")
  <2>1. t[a + 1] = "SP" /\ f[a + 1] = ParserStep(f[a], t, a + 1) /\ t[a] = "GET"
    BY <1>3, <1>5, <1>7, <1>9, <1>11
  <2>2. SubSeq(t, f[a].mark, (a + 1) - 1) = <<"GET">>
    <3>1. SubSeq(t, a, a) = [i \in 1 .. 1 |-> t[a - 1 + i]]
      <4>1. a - 1 \in Nat /\ 1 \in Nat /\ (a - 1) + 1 = a
        BY <1>11
      <4>2. SubSeq(t, (a - 1) + 1, (a - 1) + 1) = [i \in 1 .. 1 |-> t[(a - 1) + i]]
        BY <4>1, PartIs
      <4> QED BY <4>1, <4>2
    <3>2. \A i \in 1 .. 1 : a - 1 + i = a
      BY <1>11
    <3>3. SubSeq(t, a, a) = [i \in 1 .. 1 |-> "GET"]
      BY <2>1, <3>1, <3>2
    <3>4. [i \in 1 .. 1 |-> "GET"] = <<"GET">>
      OBVIOUS
    <3> QED BY <1>11, <1>12, <3>3, <3>4
  <2> QED BY <1>12, <2>1, <2>2, LineReadStep
<1>14. LineRead(f[a + 1 + b], "after_slash_in_uri")
  <2> DEFINE S == {n \in Nat : n + 1 <= b => LineRead(f[a + 1 + (n + 1)], "after_slash_in_uri")}
  <2>1. 0 \in S
    <3>1. 1 \in 1 .. b
      BY <1>2, <1>6
    <3>2. t[a + 1 + 1] = "/"
      BY <1>5, <1>8, <3>1
    <3>3. LineRead(ParserStep(f[a + 1], t, a + 1 + 1), "after_slash_in_uri")
      BY <1>13, <3>2, LineReadStep
    <3>4. LineRead(f[a + 1 + 1], "after_slash_in_uri")
      BY <1>9, <1>11, <3>3
    <3> QED BY <3>4
  <2>2. ASSUME NEW n \in S PROVE n + 1 \in S
    <3>1. ASSUME (n + 1) + 1 <= b PROVE LineRead(f[a + 1 + ((n + 1) + 1)], "after_slash_in_uri")
      <4> DEFINE m == a + 1 + (n + 1)
      <4>1. /\ m \in Nat /\ m < L /\ m + 1 = a + 1 + ((n + 1) + 1) /\ (n + 1) + 1 \in 1 .. b
            /\ n + 1 <= b
        BY <1>1, <1>2, <1>3, <1>4, <3>1
      <4>2. LineRead(f[m], "after_slash_in_uri")
        BY <4>1
      <4> HIDE DEF m
      <4>3. t[m + 1] \notin {"SP", "CR", "LF", NUL}
        BY <1>5, <1>8, <4>1
      <4>4. f[m + 1] = f[m]
        <5>1. ParserStep(f[m], t, m + 1) = f[m]
          BY <4>2, <4>3, LineReadStep
        <5> QED BY <1>9, <4>1, <5>1
      <4> QED BY <4>1, <4>2, <4>4
    <3> QED BY <3>1
  <2>3. S = Nat
    <3> HIDE DEF S
    <3>1. S \subseteq Nat
      BY DEF S
    <3> QED BY <2>1, <2>2, <3>1, AllNat
  <2>4. b - 1 \in Nat /\ (b - 1) + 1 = b /\ b <= b
    BY <1>2, <1>6
  <2> QED BY <2>3, <2>4
<1>15. /\ a + 1 + b \in Nat /\ a + 1 + b < L /\ (a + 1 + b) + 1 = a + 2 + b
       /\ a + 2 + b \in Nat /\ a + 2 + b < L /\ (a + 2 + b) + 1 = a + 3 + b
  BY <1>1, <1>2, <1>3, <1>4
<1>16. LineRead(f[a + 2 + b], "spaces_before_http")
  <2>1. t[(a + 1 + b) + 1] = "SP" /\ f[a + 2 + b] = ParserStep(f[a + 1 + b], t, (a + 1 + b) + 1)
    BY <1>8, <1>9, <1>15
  <2> QED BY <1>14, <2>1, LineReadStep
<1>17. LineRead(f[k], "header_crlf")
  <2>1. t[(a + 2 + b) + 1] = "HTTP/1.1" /\ f[k] = ParserStep(f[a + 2 + b], t, (a + 2 + b) + 1)
    BY <1>4, <1>8, <1>9, <1>15
  <2> QED BY <1>16, <2>1, LineReadStep
<1>18. k \in Nat /\ k + 1 \in Nat /\ k + e <= L
  <2> DEFINE l == Len(HeadersText(r.headers, r.eol))
  <2>1. l \in Nat /\ e \in Nat /\ L = k + e + l + e /\ k \in Nat
    BY <1>2, <1>4
  <2> HIDE DEF l
  <2> QED BY <2>1
<1>19. ASSUME NEW n \in Nat, n < L, t[n + 1] \in {"CR", "LF"}, LineRead(f[n], "header_crlf")
       PROVE  LineRead(f[n + 1], "header_crlf")
  <2>1. LineRead(ParserStep(f[n], t, n + 1), "header_crlf")
    BY <1>19, LineReadStep
  <2> QED BY <1>9, <1>19, <2>1
<1>20. LineRead(f[k + e], "header_crlf")
  <2>1. /\ e \in {1, 2}
        /\ e = 1 => t[k + 1] = "LF"
        /\ e = 2 => t[k + 1] = "CR" /\ t[k + 2] = "LF"
    BY <1>5, <1>8, EolLength DEF e
  <2>2. CASE e = 1
    <3>1. k < L
      BY <1>1, <1>18, <2>2
    <3> QED BY <1>17, <1>18, <1>19, <2>1, <2>2, <3>1
  <2>3. CASE e = 2
    <3>1. k < L /\ k + 1 < L /\ (k + 1) + 1 = k + 2
      BY <1>1, <1>18, <2>3
    <3>2. LineRead(f[k + 1], "header_crlf")
      BY <1>17, <1>18, <1>19, <2>1, <2>3, <3>1
    <3>3. LineRead(f[(k + 1) + 1], "header_crlf")
      BY <1>18, <1>19, <2>1, <2>3, <3>1, <3>2
    <3> QED BY <2>3, <3>1, <3>3
  <2> QED BY <2>1, <2>2, <2>3
<1>21. Due(f[k + e], t, k + e, <<>>)
  BY <1>20 DEF LineRead, Due
<1> QED BY <1>21 DEF t, f, k, e

(***************************************************************************)
(* The headers of a plain request.                                         *)
(***************************************************************************)
LEMMA HeaderTextIn ==
    ASSUME NEW h, h.name \in Seq(Chars), h.gap \in Seq(Chars), h.value \in Seq(Chars),
           NEW eol \in Seq(Chars), NEW t, NEW s, Part(t, s, HeaderText(h, eol))
    PROVE  LineIn(t, s, h, eol) /\ LineEnd(h, s, eol) = s + Len(HeaderText(h, eol))
<1> DEFINE x == h.name
           y == h.gap
           v == h.value
           w == <<":">>
           t1 == x \o w
           t2 == t1 \o y
           t3 == t2 \o v
           t4 == t3 \o eol
           m == Len(x)
           g == Len(y)
           l == Len(v)
           e == Len(eol)
<1>1. w \in Seq(Chars) /\ Len(w) = 1 /\ w[1] = ":"
  BY DEF Chars
<1>2. HeaderText(h, eol) = t4
  BY DEF HeaderText
<1> HIDE DEF w, x, y, v
<1>3. x \in Seq(Chars) /\ y \in Seq(Chars) /\ v \in Seq(Chars)
  BY DEF x, y, v
<1>4. /\ t1 \in Seq(Chars) /\ Len(t1) = m + Len(w) /\ m \in Nat
      /\ Part(t1, 0, x) /\ Part(t1, m, w)
  BY <1>1, <1>3, PartsOfJoined
<1> HIDE DEF t1, m
<1>5. /\ t2 \in Seq(Chars) /\ Len(t2) = Len(t1) + g /\ g \in Nat
      /\ Part(t2, 0, t1) /\ Part(t2, Len(t1), y)
  BY <1>3, <1>4, PartsOfJoined
<1> HIDE DEF t2, g
<1>6. /\ t3 \in Seq(Chars) /\ Len(t3) = Len(t2) + l /\ l \in Nat
      /\ Part(t3, 0, t2) /\ Part(t3, Len(t2), v)
  BY <1>3, <1>5, PartsOfJoined
<1> HIDE DEF t3, l
<1>7. /\ Len(t4) = Len(t3) + e /\ e \in Nat
      /\ Part(t4, 0, t3) /\ Part(t4, Len(t3), eol)
  BY <1>6, PartsOfJoined
<1> HIDE DEF t4, e
<1>8. s \in Nat /\ Part(t, s, t4)
  <2>1. Part(t, s, t4)
    BY <1>2
  <2> QED BY <2>1 DEF Part
<1>9. ASSUME NEW a, NEW b, Part(t, s, a), Part(a, 0, b) PROVE Part(t, s, b)
  <2>1. Part(t, s + 0, b) /\ s + 0 = s
    BY <1>8, <1>9, PartOfPart
  <2> QED BY <2>1
<1>10. Part(t, s, t3) /\ Part(t, s, t2) /\ Part(t, s, t1) /\ Part(t, s, x)
  <2>1. Part(t, s, t3)
    BY <1>7, <1>8, <1>9
  <2>2. Part(t, s, t2)
    BY <1>6, <1>9, <2>1
  <2>3. Part(t, s, t1)
    BY <1>5, <1>9, <2>2
  <2>4. Part(t, s, x)
    BY <1>4, <1>9, <2>3
  <2> QED BY <2>1, <2>2, <2>3, <2>4
<1>11. Part(t, s + m, w)
  BY <1>4, <1>10, PartOfPart
<1>12. Part(t, s + m + 1, y)
  <2>1. Part(t, s + Len(t1), y)
    BY <1>5, <1>10, PartOfPart
  <2>2. s + Len(t1) = s + m + 1
    BY <1>1, <1>4, <1>8
  <2> QED BY <2>1, <2>2
<1>13. Part(t, s + m + 1 + g, v)
  <2>1. Part(t, s + Len(t2), v)
    BY <1>6, <1>10, PartOfPart
  <2>2. s + Len(t2) = s + m + 1 + g
    BY <1>1, <1>4, <1>5, <1>8
  <2> QED BY <2>1, <2>2
<1>14. Part(t, s + m + 1 + g + l, eol)
  <2>1. Part(t, s + Len(t3), eol)
    BY <1>7, <1>8, PartOfPart
  <2>2. s + Len(t3) = s + m + 1 + g + l
    BY <1>1, <1>4, <1>5, <1>6, <1>8
  <2> QED BY <2>1, <2>2
<1>15. s + m + 1 + g + l + e = s + Len(t4)
  BY <1>1, <1>4, <1>5, <1>6, <1>7, <1>8
<1>16. ValueAfter(h, s) = s + m + 1 + g /\ LineEnd(h, s, eol) = s + m + 1 + g + l + e
  BY DEF ValueAfter, LineEnd, m, g, l, e, x, y, v
<1>17. /\ \A j \in 1 .. m : t[s + j] = x[j]
       /\ t[s + m + 1] = ":"
       /\ \A j \in 1 .. g : t[s + m + 1 + j] = y[j]
       /\ \A j \in 1 .. l : t[s + m + 1 + g + j] = v[j]
       /\ \A j \in 1 .. e : t[s + m + 1 + g + l + j] = eol[j]
  <2>1. \A j \in 1 .. m : t[s + j] = x[j]
    BY <1>10 DEF Part, m
  <2>2. t[s + m + 1] = ":"
    BY <1>1, <1>11 DEF Part
  <2>3. \A j \in 1 .. g : t[s + m + 1 + j] = y[j]
    BY <1>12 DEF Part, g
  <2>4. \A j \in 1 .. l : t[s + m + 1 + g + j] = v[j]
    BY <1>13 DEF Part, l
  <2>5. \A j \in 1 .. e : t[s + m + 1 + g + l + j] = eol[j]
    BY <1>14 DEF Part, e
  <2> QED BY <2>1, <2>2, <2>3, <2>4, <2>5
<1>18. LineIn(t, s, h, eol)
  BY <1>16, <1>17 DEF LineIn, m, g, l, e, x, y, v
<1> QED BY <1>2, <1>15, <1>16, <1>18

\* What a request has for a header of it.
EntriesOf(r) ==
    {[name |-> NameOf(r.headers[i]), value |-> r.headers[i].value] : i \in DOMAIN r.headers}

\* Header n of r is the first of its name that has a value.
Counts(r, n) ==
    /\ r.headers[n].value # <<>>
    /\ \A m \in 1 .. n - 1 : NameOf(r.headers[m]) = NameOf(r.headers[n]) => r.headers[m].value = <<>>

\* c is made of the first j headers of r.
Collected(c, r, j) ==
    /\ c \in Seq(EntriesOf(r))
    /\ \A i \in DOMAIN c : \E n \in 1 .. j :
          /\ c[i].name = NameOf(r.headers[n]) /\ c[i].value = r.headers[n].value
          /\ Counts(r, n)
    /\ \A n \in 1 .. j : r.headers[n].value # <<>> =>
          \E i \in DOMAIN c : c[i].name = NameOf(r.headers[n])

LEMMA CollectPlus ==
    ASSUME NEW r, NEW j \in Nat, j + 1 \in DOMAIN r.headers, NEW c, Collected(c, r, j)
    PROVE  Collected(Plus(c, r.headers[j + 1]), r, j + 1)
<1> DEFINE k == j + 1
           h == r.headers[k]
           x == [name |-> NameOf(h), value |-> h.value]
           d == Plus(c, h)
           From(i, y, l) == \E n \in 1 .. l :
                               /\ y[i].name = NameOf(r.headers[n]) /\ y[i].value = r.headers[n].value
                               /\ Counts(r, n)
           Has(n, y) == r.headers[n].value # <<>> => \E i \in DOMAIN y : y[i].name = NameOf(r.headers[n])
<1>1. c \in Seq(EntriesOf(r)) /\ (\A i \in DOMAIN c : From(i, c, j)) /\ \A n \in 1 .. j : Has(n, c)
  BY DEF Collected
<1>2. k \in 1 .. k /\ 1 .. j \subseteq 1 .. k /\ k - 1 = j /\ \A n \in 1 .. k : n = k \/ n \in 1 .. j
  OBVIOUS
<1>3. x \in EntriesOf(r)
  BY DEF EntriesOf
<1>4. CASE h.value = <<>> \/ \E i \in DOMAIN c : c[i].name = NameOf(h)
  <2>1. d = c
    BY <1>4 DEF Plus
  <2>2. \A i \in DOMAIN c : From(i, c, k)
    BY <1>1, <1>2
  <2>3. Has(k, c)
    BY <1>4
  <2>4. \A n \in 1 .. k : Has(n, c)
    <3> HIDE DEF Has, k
    <3> QED BY <1>1, <1>2, <2>3
  <2>5. Collected(c, r, k)
    <3> HIDE DEF k
    <3> QED BY <1>1, <2>2, <2>4 DEF Collected
  <2> QED BY <2>1, <2>5
<1>5. CASE ~(h.value = <<>> \/ \E i \in DOMAIN c : c[i].name = NameOf(h))
  <2>1. d = Append(c, x)
    BY <1>5 DEF Plus
  <2> HIDE DEF d
  <2>2. x.name = NameOf(h) /\ x.value = h.value
    OBVIOUS
  <2>3. Counts(r, k)
    <3>1. ASSUME NEW m \in 1 .. j, NameOf(r.headers[m]) = NameOf(h), r.headers[m].value # <<>>
          PROVE  FALSE
      <4>1. \E i \in DOMAIN c : c[i].name = NameOf(r.headers[m])
        BY <1>1, <3>1
      <4> QED BY <1>5, <3>1, <4>1
    <3> HIDE DEF k
    <3> QED BY <1>2, <1>5, <3>1 DEF Counts, h
  <2> HIDE DEF x, h, k
  <2> DEFINE l == Len(c)
  <2>4. /\ d \in Seq(EntriesOf(r)) /\ l \in Nat /\ DOMAIN c = 1 .. l /\ DOMAIN d = 1 .. l + 1
        /\ (\A i \in 1 .. l : d[i] = c[i]) /\ d[l + 1] = x
    <3>1. d \in Seq(EntriesOf(r)) /\ Len(d) = l + 1 /\ (\A i \in 1 .. l : d[i] = c[i]) /\ d[l + 1] = x
      BY <1>1, <1>3, <2>1, AppendProperties
    <3>2. l \in Nat /\ DOMAIN c = 1 .. l /\ DOMAIN d = 1 .. Len(d)
      BY <1>1, <3>1, LenProperties
    <3> QED BY <3>1, <3>2
  <2> HIDE DEF l
  <2>5. \A i \in 1 .. l + 1 : i \in 1 .. l \/ i = l + 1
    BY <2>4
  <2>6. l + 1 \in 1 .. l + 1 /\ 1 .. l \subseteq 1 .. l + 1
    BY <2>4
  <2>7. From(l + 1, d, k)
    BY <1>2, <2>2, <2>3, <2>4 DEF h
  <2>8. ASSUME NEW i \in 1 .. l PROVE From(i, d, k)
    <3>1. From(i, c, j)
      BY <1>1, <2>4
    <3> QED BY <1>2, <2>4, <3>1
  <2>9. ASSUME NEW n \in 1 .. k PROVE Has(n, d)
    <3>1. CASE n = k
      BY <2>2, <2>4, <2>6, <3>1 DEF h
    <3>2. CASE n \in 1 .. j
      <4>1. Has(n, c)
        BY <1>1, <3>2
      <4> QED BY <2>4, <2>6, <4>1
    <3> QED BY <1>2, <3>1, <3>2
  <2>10. \A i \in DOMAIN d : From(i, d, k)
    <3> HIDE DEF From
    <3> QED BY <2>4, <2>5, <2>7, <2>8
  <2>11. Collected(d, r, k)
    BY <2>4, <2>9, <2>10 DEF Collected
  <2> QED BY <2>11 DEF d, h, k
<1> QED BY <1>4, <1>5

\* A plain request is complete, and its headers are collected.
LEMMA PlainParse ==
    ASSUME NEW r \in Requests, Plain(r)
    PROVE  /\ ParsedAtOnce[r].out = "DONE"
           /\ Collected(ParsedAtOnce[r].headers, r, Len(r.headers))
<1> DEFINE t == Whole(r)
           f == Run(t, 0)
           T == Text(r)
           L == Len(T)
           k == LineLength(r)
           e == Len(r.eol)
           H == HeadersText(r.headers, r.eol)
           N == Len(r.headers)
           s == [i \in DOMAIN r.headers |-> HeaderText(r.headers[i], r.eol)]
<1>1. /\ L \in Nat /\ Runs(f, t, L) /\ 1 .. L \subseteq DOMAIN t /\ L \in 0 .. Len(t)
      /\ \A n, x : Part(T, n, x) => Part(t, n, x)
  BY WholeRuns
<1>2. /\ H = FlattenSeq(s) /\ s \in Seq(Seq(Chars)) /\ e \in Nat /\ Len(H) \in Nat
      /\ Part(T, k + e, H) /\ Part(T, k + e + Len(H), r.eol) /\ L = k + e + Len(H) + e
  BY HeaderTexts, TextLayout
<1>3. IsEol(r.eol) /\ r.headers # <<>> /\ \A h \in Range(r.headers) : PlainHeader(h)
  BY DEF Plain, IsEol
<1>4. /\ r.eol \in Seq(Chars)
      /\ r.headers \in Seq([name : Seq(STRING), gap : Seq(STRING), value : Seq(STRING)])
  <2>1. {"CR", "LF"} \subseteq Chars /\ r.eol \in Seq({"CR", "LF"})
    BY RequestsAssumption DEF Chars
  <2> QED BY <2>1, RequestsAssumption, SeqMonotonic
<1>5. N \in Nat /\ N # 0 /\ DOMAIN r.headers = 1 .. N /\ DOMAIN s = 1 .. N /\ Len(s) = N
  <2>1. N \in Nat /\ N # 0 /\ DOMAIN r.headers = 1 .. N
    BY <1>3, <1>4, EmptySeq, LenProperties
  <2>2. DOMAIN s = 1 .. N
    BY <2>1
  <2>3. Len(s) = N
    <3> HIDE DEF N, s
    <3> QED BY <1>2, <2>1, <2>2, LenProperties
  <2> QED BY <2>1, <2>2, <2>3
<1>6. ASSUME NEW n \in 1 .. N
      PROVE  LET h == r.headers[n]
             IN  /\ IsHeader(h) /\ PlainHeader(h) /\ s[n] = HeaderText(h, r.eol)
                 /\ h.name \in Seq(Chars) /\ h.gap \in Seq(Chars) /\ h.value \in Seq(Chars)
  <2> DEFINE h == r.headers[n]
  <2>1. h \in [name : Seq(STRING), gap : Seq(STRING), value : Seq(STRING)]
    BY <1>4, <1>5, ElementOfSeq
  <2>2. PlainHeader(h) /\ s[n] = HeaderText(h, r.eol)
    BY <1>3, <1>5 DEF Range
  <2>3. h.name \in Seq(STRING) /\ h.gap \in Seq(STRING) /\ h.value \in Seq(STRING)
    BY <2>1
  <2> HIDE DEF h
  <2>4. STRING \subseteq Chars
    BY DEF Chars
  <2>5. IsHeader(h)
    BY <2>3, LenProperties DEF IsHeader
  <2>6. h.name \in Seq(Chars) /\ h.gap \in Seq(Chars) /\ h.value \in Seq(Chars)
    BY <2>3, <2>4, SeqMonotonic
  <2> QED BY <2>2, <2>5, <2>6 DEF h
<1>7. PICK o : /\ o[0] = 0 /\ o[N] = Len(H)
               /\ \A n \in 1 .. N : /\ o[n - 1] \in Nat /\ o[n] = o[n - 1] + Len(s[n])
                                    /\ Part(H, o[n - 1], s[n])
  <2> HIDE DEF s, N, H
  <2>1. \E o : /\ o[0] = 0 /\ o[Len(s)] = Len(FlattenSeq(s))
               /\ \A n \in 1 .. Len(s) : /\ o[n - 1] \in Nat /\ o[n] = o[n - 1] + Len(s[n])
                                         /\ Part(FlattenSeq(s), o[n - 1], s[n])
    BY <1>2, FlattenParts
  <2> QED BY <1>2, <1>5, <2>1
<1> DEFINE b == k + e
           Met(n, c) == /\ Due(f[b + o[n]], t, b + o[n], c)
                        /\ n # 0 => f[b + o[n]].st # "header_crlf"
                        /\ Collected(c, r, n)
           S == {n \in Nat : n <= N => \E c : Met(n, c)}
<1>8. Due(f[b], t, b, <<>>)
  BY FirstLine
<1> HIDE DEF t, f, T, L, k, e, H, N, s
<1>9. b \in Nat /\ b + Len(H) + e = L
  <2>1. Part(T, b, H)
    BY <1>2
  <2>2. b \in Nat
    <3> HIDE DEF b
    <3> QED BY <2>1 DEF Part
  <2> QED BY <1>2, <2>2
<1> HIDE DEF b
<1>10. 0 \in S
  <2>1. Collected(<<>>, r, 0)
    <3>1. <<>> \in Seq(EntriesOf(r)) /\ DOMAIN <<>> = {} /\ 1 .. 0 = {}
      BY EmptySeq
    <3> QED BY <3>1 DEF Collected
  <2>2. b + o[0] = b
    BY <1>7, <1>9
  <2>3. Met(0, <<>>)
    BY <1>8, <2>1, <2>2
  <2> HIDE DEF Met
  <2> QED BY <2>3
<1>11. ASSUME NEW n \in S PROVE n + 1 \in S
  <2>1. ASSUME n + 1 <= N PROVE \E c : Met(n + 1, c)
    <3> DEFINE m == n + 1
               h == r.headers[m]
               p == b + o[n]
    <3>1. m \in 1 .. N /\ m - 1 = n /\ n \in Nat /\ m # 0 /\ n <= N
      BY <1>5, <2>1
    <3>2. PICK c : Met(n, c)
      BY <3>1
    <3> HIDE DEF m
    <3>3. o[n] \in Nat /\ o[m] = o[n] + Len(s[m]) /\ Part(H, o[n], s[m])
      BY <1>7, <3>1
    <3>4. /\ IsHeader(h) /\ PlainHeader(h) /\ s[m] = HeaderText(h, r.eol)
          /\ h.name \in Seq(Chars) /\ h.gap \in Seq(Chars) /\ h.value \in Seq(Chars)
      BY <1>6, <3>1
    <3> HIDE DEF h
    <3>5. Part(t, p, HeaderText(h, r.eol))
      <4>1. Part(t, b, H)
        BY <1>1, <1>2 DEF b
      <4> QED BY <3>3, <3>4, <4>1, PartOfPart
    <3>6. LineIn(t, p, h, r.eol) /\ LineEnd(h, p, r.eol) = p + Len(HeaderText(h, r.eol))
      <4> HIDE DEF p
      <4> QED BY <1>4, <3>4, <3>5, HeaderTextIn
    <3>7. Part(T, p, s[m])
      <4>1. Part(T, b, H)
        BY <1>2 DEF b
      <4> QED BY <3>3, <4>1, PartOfPart
    <3>8. p \in Nat /\ p + Len(s[m]) <= L /\ Len(s[m]) \in Nat
      <4> HIDE DEF p
      <4> QED BY <3>7 DEF Part, L
    <3>9. p + Len(s[m]) = b + o[m]
      BY <1>9, <3>3, <3>8
    <3>10. LineEnd(h, p, r.eol) = b + o[m] /\ LineEnd(h, p, r.eol) <= L
      BY <3>4, <3>6, <3>8, <3>9
    <3>11. Due(f[p], t, p, c) /\ Collected(c, r, n)
      BY <3>2
    <3> HIDE DEF p
    <3>12. HeaderHere(f, t, L, p, h, r.eol)
      BY <1>1, <1>3, <3>4, <3>6, <3>8, <3>10 DEF HeaderHere
    <3> DEFINE d == Plus(c, h)
               z == LineEnd(h, p, r.eol)
    <3>13. Due(f[z], t, z, d) /\ f[z].st # "header_crlf"
      BY <3>11, <3>12, HeaderLine
    <3>14. Collected(d, r, m)
      <4>1. n + 1 \in DOMAIN r.headers
        BY <1>5, <3>1 DEF m
      <4>2. Collected(Plus(c, r.headers[n + 1]), r, n + 1)
        BY <3>1, <3>11, <4>1, CollectPlus
      <4> QED BY <4>2 DEF m, h
    <3> HIDE DEF d, z
    <3>15. z = b + o[m]
      BY <3>10 DEF z
    <3>16. Met(m, d)
      BY <3>13, <3>14, <3>15
    <3> HIDE DEF Met
    <3> QED BY <3>16 DEF m
  <2> HIDE DEF Met
  <2> QED BY <2>1
<1>12. S = Nat
  <2> HIDE DEF S
  <2>1. S \subseteq Nat
    BY DEF S
  <2> QED BY <1>10, <1>11, <2>1, AllNat
<1>13. PICK c : Met(N, c)
  <2>1. N \in Nat /\ N <= N
    BY <1>5
  <2> HIDE DEF Met
  <2> QED BY <1>12, <2>1
<1> DEFINE a == b + Len(H)
<1>14. Due(f[a], t, a, c) /\ f[a].st # "header_crlf" /\ Collected(c, r, N)
  BY <1>5, <1>7, <1>13
<1>15. a \in Nat /\ a + e = L
  BY <1>2, <1>9
<1>16. /\ e \in {1, 2}
       /\ e = 1 => t[a + 1] = "LF"
       /\ e = 2 => t[a + 1] = "CR" /\ t[a + 2] = "LF"
  <2>1. Part(t, a, r.eol)
    BY <1>1, <1>2 DEF b
  <2> HIDE DEF a
  <2>2. \A i \in 1 .. e : t[a + i] = r.eol[i]
    BY <2>1 DEF Part, e
  <2> QED BY <1>3, <2>2, EolLength DEF e
<1> HIDE DEF a
<1>17. ASSUME NEW n \in Nat, n < L PROVE f[n + 1] = ParserStep(f[n], t, n + 1)
  BY <1>1, <1>17 DEF Runs
<1>18. ASSUME NEW n \in Nat, n < L, Due(f[n], t, n, c), f[n].st # "header_crlf"
       PROVE  /\ t[n + 1] = "CR" => Due(f[n + 1], t, n + 1, c) /\ f[n + 1].st # "header_crlf"
              /\ t[n + 1] = "LF" => f[n + 1].out = "DONE" /\ f[n + 1].headers = c
  <2> DEFINE q == ParserStep(f[n], t, n + 1)
  <2>1. /\ t[n + 1] = "CR" => Due(q, t, n + 1, c) /\ q.st # "header_crlf"
        /\ t[n + 1] = "LF" => q.out = "DONE" /\ q.headers = c
    BY <1>18, DueEnd
  <2>2. f[n + 1] = q
    BY <1>17, <1>18
  <2> QED BY <2>1, <2>2
<1>19. f[L].out = "DONE" /\ f[L].headers = c
  <2>1. CASE e = 1
    <3>1. a < L /\ a + 1 = L
      BY <1>1, <1>15, <2>1
    <3>2. f[a + 1].out = "DONE" /\ f[a + 1].headers = c
      BY <1>14, <1>15, <1>16, <1>18, <2>1, <3>1
    <3> QED BY <3>1, <3>2
  <2>2. CASE e = 2
    <3>1. a < L /\ a + 1 \in Nat /\ a + 1 < L /\ (a + 1) + 1 = L /\ (a + 1) + 1 = a + 2
      BY <1>1, <1>15, <2>2
    <3>2. Due(f[a + 1], t, a + 1, c) /\ f[a + 1].st # "header_crlf"
      BY <1>14, <1>15, <1>16, <1>18, <2>2, <3>1
    <3>3. t[(a + 1) + 1] = "LF"
      BY <1>16, <2>2, <3>1
    <3>4. f[(a + 1) + 1].out = "DONE" /\ f[(a + 1) + 1].headers = c
      BY <1>18, <3>1, <3>2, <3>3
    <3> QED BY <3>1, <3>4
  <2> QED BY <1>16, <2>1, <2>2
<1>20. ParsedAtOnce[r] = f[L]
  <2>1. f[L].out # "INCOMPLETE" /\ L \in 0 .. Len(t)
    BY <1>1, <1>19
  <2> QED BY <2>1, AtOnceIs DEF f, t
<1> QED BY <1>14, <1>19, <1>20 DEF N

\* A name has the value among the headers collected that it has for the request.
LEMMA SaysIs ==
    ASSUME NEW r \in Requests, NEW c, Collected(c, r, Len(r.headers)), NEW n, NEW v
    PROVE  v \in Values(c, n) <=> Says(r, n, v)
<1> DEFINE hs == r.headers
           N == Len(hs)
<1>1. DOMAIN hs = 1 .. N /\ N \in Nat
  BY RequestsAssumption, LenProperties
<1>2. ASSUME NEW i \in DOMAIN c
      PROVE  \E j \in 1 .. N : /\ c[i].name = NameOf(hs[j]) /\ c[i].value = hs[j].value
                               /\ Counts(r, j)
  BY DEF Collected
<1>3. ASSUME NEW j \in 1 .. N, hs[j].value # <<>>
      PROVE  \E i \in DOMAIN c : c[i].name = NameOf(hs[j])
  BY <1>3 DEF Collected
<1> HIDE DEF N
<1>4. ASSUME v \in Values(c, n) PROVE Says(r, n, v)
  <2>1. PICK i \in DOMAIN c : c[i].name = n /\ c[i].value = v
    BY <1>4 DEF Values
  <2>2. PICK j \in 1 .. N : /\ c[i].name = NameOf(hs[j]) /\ c[i].value = hs[j].value
                            /\ Counts(r, j)
    BY <1>2
  <2> QED BY <1>1, <2>1, <2>2 DEF Says, Counts
<1>5. ASSUME Says(r, n, v) PROVE v \in Values(c, n)
  <2>1. PICK k \in 1 .. N : /\ NameOf(hs[k]) = n /\ hs[k].value = v /\ v # <<>>
                            /\ \A m \in 1 .. k - 1 : NameOf(hs[m]) = n => hs[m].value = <<>>
    BY <1>1, <1>5 DEF Says
  <2>2. PICK i \in DOMAIN c : c[i].name = n
    BY <1>3, <2>1
  <2>3. PICK j \in 1 .. N : /\ c[i].name = NameOf(hs[j]) /\ c[i].value = hs[j].value
                            /\ Counts(r, j)
    BY <1>2
  <2>4. ~ (j < k)
    <3>1. j < k => j \in 1 .. k - 1
      BY <1>1
    <3>2. hs[j].value # <<>> /\ NameOf(hs[j]) = n
      BY <2>2, <2>3 DEF Counts
    <3> QED BY <2>1, <3>1, <3>2
  <2>5. ~ (k < j)
    <3>1. k < j => k \in 1 .. j - 1
      BY <1>1
    <3>2. NameOf(hs[k]) = NameOf(hs[j]) /\ hs[k].value # <<>>
      BY <2>1, <2>2, <2>3
    <3> QED BY <2>3, <3>1, <3>2 DEF Counts
  <2>6. j = k
    BY <1>1, <2>4, <2>5
  <2> QED BY <2>1, <2>2, <2>3, <2>6 DEF Values
<1> QED BY <1>4, <1>5

LEMMA ValidIs ==
    ASSUME NEW r \in Requests, Plain(r)
    PROVE  Valid(ParsedAtOnce[r].headers) <=> Wanted(r)
<1> DEFINE c == ParsedAtOnce[r].headers
           all == {r.headers[i].value : i \in DOMAIN r.headers}
<1>1. \A n, v : v \in Values(c, n) <=> Says(r, n, v)
  BY PlainParse, SaysIs
<1>2. \A n, v : Says(r, n, v) => v \in all
  BY DEF Says
<1> HIDE DEF c, all
<1>3. Values(c, Key) # {} <=> \E v \in all : Says(r, Key, v)
  BY <1>1, <1>2
<1>4. (\E v \in Values(c, Version) : v[1] = "13") <=> \E v \in all : Says(r, Version, v) /\ v[1] = "13"
  BY <1>1, <1>2
<1>5. Values(c, Origin) \cap origins # {} <=> \E v \in origins : Says(r, Origin, v)
  BY <1>1
<1>6. Wanted(r) <=> /\ \E v \in all : Says(r, Key, v)
                    /\ \E v \in all : Says(r, Version, v) /\ v[1] = "13"
                    /\ origins # {} => \E v \in origins : Says(r, Origin, v)
  BY DEF Wanted, all
<1>7. Valid(c) <=> /\ Values(c, Key) # {}
                   /\ \E v \in Values(c, Version) : v[1] = "13"
                   /\ origins = {} \/ Values(c, Origin) \cap origins # {}
  BY DEF Valid
<1> QED BY <1>3, <1>4, <1>5, <1>6, <1>7 DEF c

(***************************************************************************)
(* The client of a plain request is let in if and only if it asks for what *)
(* hk_reader_validate_handshake_request wants (hk_reader.c:617), however   *)
(* many headers it has, of any length, and wherever the network cuts it    *)
(* behind the first line.                                                  *)
(***************************************************************************)
THEOREM HandshakeLetsInTheWanted == Spec => []LetsInTheWanted
<1>1. IInv => LetsInTheWanted
  <2> SUFFICES ASSUME IInv, Plain(request), ~cut
               PROVE  outcome \in {"none", IF Wanted(request) THEN "open" ELSE "dropped"}
    BY DEF LetsInTheWanted
  <2>1. CASE pc = "done"
    <3> DEFINE w == ParsedAtOnce[request]
    <3>1. outcome = AtOnce(w) /\ request \in Requests
      BY <2>1 DEF IInv, Over
    <3>2. w.out = "DONE" /\ (Valid(w.headers) <=> Wanted(request))
      BY <3>1, PlainParse, ValidIs
    <3> HIDE DEF w
    <3>3. AtOnce(w) = IF Valid(w.headers) THEN "open" ELSE "dropped"
      BY <3>2 DEF AtOnce
    <3> QED BY <3>1, <3>2, <3>3
  <2>2. CASE pc # "done"
    BY <2>2 DEF IInv, Awaiting
  <2> QED BY <2>1, <2>2
<1> QED BY <1>1, Inductive, PTL

(***************************************************************************)
(* The headers a client is let in with are those of its request: each has  *)
(* the value of the first header of that name that has one, from its first *)
(* character to the end of the line, folded lines included                 *)
(* (hk_reader.c:594, hk_request.c:111).                                    *)
(***************************************************************************)
THEOREM HandshakeHeadersAsSent == Spec => []HeadersAsSent
<1>1. IInv => HeadersAsSent
  <2> SUFFICES ASSUME IInv, outcome = "open", Plain(request), NEW i \in DOMAIN headers
               PROVE  Says(request, headers[i].name, headers[i].value)
    BY DEF HeadersAsSent
  <2>1. pc = "done"
    BY DEF IInv, Awaiting
  <2>2. headers = ParsedAtOnce[request].headers /\ request \in Requests
    BY <2>1 DEF IInv, Over
  <2>3. Collected(headers, request, Len(request.headers))
    BY <2>2, PlainParse
  <2>4. headers[i].value \in Values(headers, headers[i].name)
    BY DEF Values
  <2> QED BY <2>2, <2>3, <2>4, SaysIs
<1> QED BY <1>1, Inductive, PTL

\* An attempt on all of a plain request does not end with HK_PARSE_INCOMPLETE.
LEMMA AwaitsStep == IInv /\ AwaitsTheRestOnly /\ [Next]_vars => AwaitsTheRestOnly'
<1> SUFFICES ASSUME IInv, AwaitsTheRestOnly, [Next]_vars, (Plain(request))', pc' = "wait"
             PROVE  (Len(buffer_in) < Len(Text(request)))'
  BY DEF AwaitsTheRestOnly
<1>1. CASE Read
  BY <1>1 DEF Read
<1>2. CASE OnData
  <2>1. pc = "data"
    BY <1>2 DEF OnData
  <2>2. PICK p : p = ParseRequest(buffer_in \o <<NUL>>, rpos) /\ Incomplete(p)
    BY <1>2 DEF OnData, Rejected, Accepted
  <2>3. /\ p.out = "INCOMPLETE" /\ buffer_in' = Raised(buffer_in, p.raised) /\ request' = request
    BY <2>2 DEF Incomplete, Attempt
  <2>4. /\ Came(buffer_in, request) /\ rpos = 0 /\ request \in Requests
        /\ Len(buffer_in') = Len(buffer_in)
    BY <2>1, <2>2, <2>3, AttemptComesTo
  <2>5. Plain(request)
    BY <2>3 DEF Plain
  <2>6. Len(buffer_in) # Len(Text(request))
    <3> SUFFICES ASSUME Len(buffer_in) = Len(Text(request)) PROVE FALSE
      OBVIOUS
    <3>1. p = ParsedAtOnce[request]
      BY <2>2, <2>4, AttemptIs
    <3>2. ParsedAtOnce[request].out = "DONE"
      BY <2>4, <2>5, PlainParse
    <3> QED BY <2>3, <3>1, <3>2
  <2>7. Len(buffer_in) \in Nat /\ Len(Text(request)) \in Nat /\ Len(buffer_in) <= Len(Text(request))
    BY <2>4, TextLine, LenProperties DEF Came
  <2>8. Len(buffer_in) < Len(Text(request))
    BY <2>6, <2>7
  <2> QED BY <2>3, <2>4, <2>8
<1>3. CASE UNCHANGED vars
  BY <1>3 DEF vars, AwaitsTheRestOnly
<1> QED BY <1>1, <1>2, <1>3 DEF Next

(***************************************************************************)
(* More of a plain request is awaited only as long as some of it has not   *)
(* come: HK_PARSE_INCOMPLETE is never the answer to all of it              *)
(* (hk_reader.c:233).                                                      *)
(***************************************************************************)
THEOREM HandshakeAwaitsTheRestOnly == Spec => []AwaitsTheRestOnly
<1>1. Init => AwaitsTheRestOnly
  <2> SUFFICES ASSUME Init PROVE Len(buffer_in) < Len(Text(request))
    BY DEF AwaitsTheRestOnly
  <2>1. LineLength(request) < Len(Text(request)) /\ LineFrom(request) \in Nat
        /\ Len(request.target) \in Nat
    BY TextLine DEF Init
  <2>2. Len(buffer_in) = 0 /\ Len(Text(request)) \in Nat
    BY TextLine, LenProperties, EmptySeq DEF Init
  <2> QED BY <2>1, <2>2 DEF LineLength
<1> QED BY <1>1, AwaitsStep, Inductive, PTL DEF Spec
===============================================================================
