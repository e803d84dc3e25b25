----------------------------- MODULE MCHandshake ------------------------------
(***************************************************************************)
(* Requests of up to three headers: keys, versions and origins, named in   *)
(* upper and lower case, with values of every shape.                       *)
(***************************************************************************)
EXTENDS HandshakeSafety

CRLF == <<"CR", "LF">>

H(name, gap, value) == [name |-> name, gap |-> gap, value |-> value]

Request(hs) ==
    [lead |-> FALSE, method |-> "GET", target |-> <<"/">>, version |-> "HTTP/1.1",
     eol |-> CRLF, headers |-> hs]

GoodKey     == H(<<"K", "n">>, <<"SP">>, <<"a">>)
GoodVersion == H(<<"V", "n">>, <<>>, <<"13">>)
GoodOrigin  == H(<<"O", "n">>, <<"SP">>, <<"me">>)

Keys ==
    {GoodKey, H(<<"k", "n">>, <<"SP">>, <<"a">>), H(<<"K", "n">>, <<"SP">>, <<>>),
     H(<<"K", "n">>, <<>>, <<"a", "SP">>), H(<<"K", "n">>, <<"SP">>, <<"a", "CR", "LF", "SP", "a">>),
     H(<<"K", "n">>, <<"SP">>, <<"CR", "LF", "SP", "a">>), H(<<"K", "n">>, <<>>, <<"a", "LF", "TAB", "a">>),
     H(<<"K", "n">>, <<>>, <<"a", "CR", "a">>), H(<<"K", "(">>, <<>>, <<"a">>)}

Versions == {GoodVersion, H(<<"V", "n">>, <<"SP">>, <<"8">>), H(<<"V", "n">>, <<>>, <<>>)}

OriginHeaders == {GoodOrigin, H(<<"O", "n">>, <<>>, <<"a">>)}

HeaderSets ==
    LET any == Keys \cup Versions \cup OriginHeaders
    IN  {<<>>} \cup {<<h>> : h \in any} \cup {<<g, h>> : g, h \in any}
        \cup {<<o, k, v>> : o \in OriginHeaders, k \in Keys, v \in Versions}
        \cup {<<j, k, GoodVersion>> : j, k \in Keys}

ManyRequests ==
    {Request(hs) : hs \in HeaderSets}
    \cup {[Request(<<GoodKey, GoodVersion, GoodOrigin>>) EXCEPT !.lead = l, !.method = m, !.target = u,
                                                               !.version = v, !.eol = e] :
            l \in BOOLEAN, m \in {"GET", "POST"}, u \in {<<"/">>, <<"/", "a">>, <<"a">>},
            v \in {"HTTP/1.1", "HTTP/1.0"}, e \in {CRLF, <<"LF">>}}

NoneAndOne == {{}, {<<"me">>}}
===============================================================================
