---------------------------- MODULE BroadcastProofs ----------------------------
(***************************************************************************)
(* Proofs about Broadcast, for every set of clients, of payload lengths,   *)
(* any room in the sockets and any number of messages.                     *)
(***************************************************************************)
EXTENDS BroadcastSafety, TLAPS

Has(c, m) == \E i \in DOMAIN stream[c] : stream[c][i].msg = m

\* The message being passed on has still to be written to c.
Due(c) == c \in todo \/ (pc = "head" /\ to = c)

Last(s) == s[Len(s)]

(***************************************************************************)
(* The strengthening.  Known: nothing is written before it has come.       *)
(***************************************************************************)
Known ==
    \A c \in Clients : \A i \in DOMAIN stream[c] : stream[c][i].msg <= Msg

\* The cursor has clients to return only while a message is passed on, which is
\* for those of them that are open.
Phase ==
    /\ pc = "idle" => todo = {}
    /\ pc # "idle" => Msg > 0
    /\ \A c \in todo : c \in log[Msg].for <=> state[c] = "OPEN"
    /\ pc = "head" => to \in log[Msg].for

\* The recipient, and what is left to be written to it.
Recipient ==
    /\ pc \in {"head", "first", "more"} => state[to] = "OPEN" /\ to \notin todo
    /\ pc \in {"head", "first"} => data_offset = 0 /\ data_size = Payload

\* The frame being written: the octets that the socket has taken, and the rest.
UnderWay ==
    pc \in {"first", "more"} =>
        /\ stream[to] # <<>> /\ Last(stream[to]).msg = Msg
        /\ Msg \notin cut[to] /\ ~gone[to] =>
              /\ Last(stream[to]).head = HeadLength(Payload)
              /\ Last(stream[to]).straight
              /\ Last(stream[to]).body = data_offset
              /\ data_offset + data_size = Payload

\* Every frame is whole that found room for its head and the beginning of its
\* payload, but the one being written.
Intact ==
    \A c \in Clients :
        /\ state[c] = "CONNECTING" => stream[c] = <<>>
        /\ ~gone[c] => \A i \in DOMAIN stream[c] :
              stream[c][i].msg \notin cut[c] =>
                  Whole(stream[c][i]) \/ (i = Len(stream[c]) /\ Writing(c))

\* A message is in the streams of those it is for, but where it is due.
Passed ==
    \A c \in Clients : \A m \in 1 .. Msg :
        Has(c, m) <=> c \in log[m].for /\ ~(m = Msg /\ Due(c))

InOrder ==
    \A c \in Clients : \A i, j \in DOMAIN stream[c] :
        i < j => stream[c][j].msg \in {Close} \cup (stream[c][i].msg + 1 .. Msg)

IInv ==
    /\ TypeOK /\ Known
    /\ Phase /\ Recipient /\ UnderWay
    /\ Intact /\ InOrder /\ Passed
-----------------------------------------------------------------------------
(***************************************************************************)
(* Lemmas about write and about the record of what was taken.              *)
(***************************************************************************)
LEMMA HeadLengthNat == ASSUME NEW n \in Nat PROVE HeadLength(n) \in Nat \ {0}
BY DEF HeadLength

LEMMA ResultsType ==
    ASSUME TypeOK, NEW c \in Clients, NEW n \in Nat, NEW r \in Results(c, n)
    PROVE  /\ r \in Int /\ Taken(r) \in Nat /\ Taken(r) <= room[c] /\ Taken(r) <= n
           /\ gone[c] => r = Failed
           /\ ~gone[c] => r = Again \/ (r \in 0 .. n /\ (r = 0 => n = 0))
<1>1. room[c] \in 0 .. Room /\ Room \in Nat /\ gone[c] \in BOOLEAN
  BY BroadcastAssumption DEF TypeOK
<1>2. CASE gone[c]
  BY <1>1, <1>2 DEF Results, Taken, Failed
<1>3. CASE ~gone[c] /\ n = 0
  BY <1>1, <1>3 DEF Results, Taken
<1>4. CASE ~gone[c] /\ n > 0 /\ room[c] = 0
  BY <1>1, <1>4 DEF Results, Taken, Again
<1>5. CASE ~gone[c] /\ n > 0 /\ room[c] > 0
  <2>1. r \in 1 .. n /\ r <= room[c]
    BY <1>1, <1>5 DEF Results
  <2> QED BY <2>1, <1>1, <1>5 DEF Taken
<1> QED BY <1>1, <1>2, <1>3, <1>4, <1>5

LEMMA FillType ==
    ASSUME TypeOK, NEW c \in Clients, NEW r \in Int, Taken(r) \in Nat, Taken(r) <= room[c], Fill(c, r)
    PROVE  room' \in [Clients -> 0 .. Room]
BY BroadcastAssumption DEF Fill, TypeOK

LEMMA CutType ==
    ASSUME TypeOK, NEW c \in Clients, NEW m \in Nat, NEW short, Cut(c, m, short)
    PROVE  /\ cut' \in [Clients -> SUBSET Nat]
           /\ \A d \in Clients : d # c => cut'[d] = cut[d]
           /\ \A k : k \notin cut'[c] => k \notin cut[c]
           /\ m \notin cut'[c] => ~short
<1>1. cut \in [Clients -> SUBSET Nat]
  BY DEF TypeOK
<1>2. CASE short
  <2>1. cut' = [cut EXCEPT ![c] = @ \cup {m}]
    BY <1>2 DEF Cut
  <2> QED BY <1>1, <2>1
<1>3. CASE ~short
  <2>1. cut' = [cut EXCEPT ![c] = @]
    BY <1>3 DEF Cut
  <2> QED BY <1>1, <1>3, <2>1
<1> QED BY <1>2, <1>3

LEMMA PutBodyType ==
    ASSUME TypeOK, NEW s \in Seq(Sent), s # <<>>, NEW r \in Int, Taken(r) \in Nat
    PROVE  /\ PutBody(s, r) \in Seq(Sent) /\ Len(PutBody(s, r)) = Len(s)
           /\ DOMAIN PutBody(s, r) = DOMAIN s
           /\ \A i \in DOMAIN s : i # Len(s) => PutBody(s, r)[i] = s[i]
           /\ \A i \in DOMAIN s : PutBody(s, r)[i].msg = s[i].msg
           /\ Last(PutBody(s, r)).head = Last(s).head
           /\ Last(PutBody(s, r)).body = Last(s).body + Taken(r)
           /\ Last(PutBody(s, r)).straight =
                 (Last(s).straight /\ (r > 0 => data_offset = Last(s).body))
<1>1. Len(s) \in DOMAIN s /\ s[Len(s)] \in Sent /\ DOMAIN s = 1 .. Len(s)
  OBVIOUS
<1> DEFINE st == s[Len(s)].straight /\ (r > 0 => data_offset = s[Len(s)].body)
           e == [s[Len(s)] EXCEPT !.body = @ + Taken(r), !.straight = st]
<1>2. e \in Sent /\ e.msg = s[Len(s)].msg /\ e.head = s[Len(s)].head
      /\ e.body = s[Len(s)].body + Taken(r) /\ e.straight = st
  <2>1. st \in BOOLEAN
    OBVIOUS
  <2>2. s[Len(s)].body + Taken(r) \in Nat
    BY <1>1 DEF Sent
  <2> HIDE DEF st
  <2> QED BY <1>1, <2>1, <2>2 DEF Sent
<1>3. PutBody(s, r) = [s EXCEPT ![Len(s)] = e]
  BY <1>1 DEF PutBody, Sent
<1> HIDE DEF e
<1>4. [s EXCEPT ![Len(s)] = e] \in Seq(Sent) /\ Len([s EXCEPT ![Len(s)] = e]) = Len(s)
  BY <1>1, <1>2
<1> QED BY <1>1, <1>2, <1>3, <1>4 DEF Last
-----------------------------------------------------------------------------
(***************************************************************************)
(* Inductiveness: the peers, and the events that write nothing.            *)
(***************************************************************************)
LEMMA InitHolds == Init => IInv
<1> SUFFICES ASSUME Init PROVE IInv
  OBVIOUS
<1>1. TypeOK
  BY BroadcastAssumption DEF Init, TypeOK
<1>2. Known /\ Phase /\ Recipient /\ UnderWay /\ Intact /\ InOrder /\ Passed
  BY DEF Init, Known, Phase, Recipient, UnderWay, Intact, InOrder, Passed, Msg
<1> QED BY <1>1, <1>2 DEF IInv

LEMMA PeerStep ==
    ASSUME IInv, NEW c \in Clients, PeerReads(c) \/ PeerCloses(c)
    PROVE  IInv'
<1>1. TypeOK'
  <2>1. TypeOK /\ Room \in Nat
    BY BroadcastAssumption DEF IInv
  <2>2. CASE PeerReads(c)
    <3>1. PICK n \in room[c] + 1 .. Room : room' = [room EXCEPT ![c] = n]
      BY <2>2 DEF PeerReads
    <3>2. n \in 0 .. Room
      BY <2>1, <3>1 DEF TypeOK
    <3> QED BY <2>1, <2>2, <3>1, <3>2 DEF TypeOK, PeerReads, clientVars
  <2>3. CASE PeerCloses(c)
    BY <2>1, <2>3 DEF TypeOK, PeerCloses
  <2> QED BY <2>2, <2>3
<1>2. UNCHANGED <<state, stream, log, cut, pc, todo, to, data_offset, data_size>>
      /\ \A d \in Clients : gone[d] => gone'[d]
  BY DEF IInv, TypeOK, PeerReads, PeerCloses, clientVars
<1>3. UnderWay'
  <2>1. to \in Clients
    BY DEF IInv, TypeOK
  <2> QED BY <1>2, <2>1 DEF IInv, UnderWay, Msg, Payload
<1>4. Intact'
  <2>1. \A d \in Clients : ~gone'[d] => ~gone[d]
    BY <1>2
  <2> QED BY <1>2, <2>1 DEF IInv, Intact, Whole, Writing
<1>5. (Known /\ Phase /\ Recipient /\ InOrder /\ Passed)'
  BY <1>2 DEF IInv, Known, Phase, Recipient, InOrder, Passed, Has, Due, Msg, Payload
<1> QED BY <1>1, <1>3, <1>4, <1>5 DEF IInv

LEMMA OpenStep ==
    ASSUME IInv, NEW c \in Clients, Open(c)
    PROVE  IInv'
<1>1. TypeOK'
  BY DEF IInv, TypeOK, Open
<1>2. UNCHANGED <<gone, stream, log, cut, pc, todo, to, data_offset, data_size>> /\ pc = "idle"
  BY DEF Open
<1>3. Intact'
  BY DEF IInv, Intact, Whole, Writing, Open, TypeOK
<1>4. (Known /\ Phase /\ Recipient /\ UnderWay /\ InOrder /\ Passed)'
  BY <1>2 DEF IInv, Known, Phase, Recipient, UnderWay, InOrder, Passed, Has, Due, Msg
<1> QED BY <1>1, <1>3, <1>4 DEF IInv

LEMMA StreamType ==
    ASSUME IInv
    PROVE  /\ Msg \in Nat
           /\ \A c \in Clients : stream[c] \in Seq(Sent) /\ \A i \in DOMAIN stream[c] :
                 stream[c][i] \in Sent /\ stream[c][i].msg \in 0 .. Msg
<1>1. Msg \in Nat
  BY DEF IInv, TypeOK, Msg
<1>2. ASSUME NEW c \in Clients
      PROVE  stream[c] \in Seq(Sent)
  BY <1>2 DEF IInv, TypeOK
<1>3. ASSUME NEW c \in Clients, NEW i \in DOMAIN stream[c]
      PROVE  stream[c][i] \in Sent /\ stream[c][i].msg \in 0 .. Msg
  <2>1. stream[c][i] \in Sent
    BY <1>2
  <2>2. stream[c][i].msg \in Nat /\ stream[c][i].msg <= Msg
    BY <2>1 DEF IInv, Known, Sent
  <2> QED BY <1>1, <2>1, <2>2
<1> QED BY <1>1, <1>2, <1>3

LEMMA BeginStep ==
    ASSUME IInv, pc = "idle", NEW len \in Lengths, NEW for \in SUBSET Clients,
           log' = Append(log, [len |-> len, for |-> for]),
           pc' = "next", todo' \in SUBSET Clients, for \subseteq todo',
           \A c \in todo' : c \in for <=> state[c] = "OPEN",
           UNCHANGED <<state, gone, room, stream, cut, to, data_offset, data_size>>
    PROVE  IInv'
<1> DEFINE m == [len |-> len, for |-> for]
<1>1. m \in [len : Lengths, for : SUBSET Clients] /\ log' = Append(log, m) /\ m.for = for
  OBVIOUS
<1> HIDE DEF m
<1>2. log \in Seq([len : Lengths, for : SUBSET Clients]) /\ todo = {}
  BY DEF IInv, TypeOK, Phase
<1>3. /\ log' \in Seq([len : Lengths, for : SUBSET Clients])
      /\ Msg' = Msg + 1 /\ Msg \in Nat
      /\ \A k \in 1 .. Msg : log'[k] = log[k]
      /\ log'[Msg + 1] = m
  BY <1>1, <1>2 DEF Msg
<1>4. TypeOK'
  BY <1>3 DEF IInv, TypeOK
<1>5. \A c \in Clients : stream[c] \in Seq(Sent) /\ \A i \in DOMAIN stream[c] :
          stream[c][i].msg \in 0 .. Msg
  BY <1>3, StreamType
<1>6. Known'
  BY <1>3, <1>5 DEF Known
<1>7. (Phase /\ Recipient /\ UnderWay)'
  <2>1. pc' = "next" /\ Msg' > 0 /\ log'[Msg'].for = for
    BY <1>1, <1>3 DEF Msg
  <2>2. \A c \in todo' : c \in log'[Msg'].for <=> state'[c] = "OPEN"
    BY <2>1
  <2> QED BY <2>1, <2>2 DEF Phase, Recipient, UnderWay
<1>8. Intact'
  <2>1. ASSUME NEW c \in Clients, NEW i \in DOMAIN stream[c], Whole(stream[c][i])
        PROVE  Whole(stream[c][i])'
    BY <1>3, <1>5, <2>1 DEF Whole, Close, Msg
  <2> QED BY <2>1 DEF IInv, Intact, Writing
<1>9. InOrder'
  BY <1>3, <1>5 DEF IInv, InOrder, Close
<1>10. Passed'
  <2> SUFFICES ASSUME NEW c \in Clients, NEW k \in 1 .. Msg'
               PROVE  Has(c, k)' <=> c \in log'[k].for /\ ~(k = Msg' /\ Due(c)')
    BY DEF Passed
  <2>1. Has(c, k)' <=> Has(c, k)
    BY DEF Has
  <2>2. CASE k = Msg + 1
    <3>1. ~Has(c, k)
      BY <1>3, <1>5, <2>2 DEF Has
    <3>2. c \in for => Due(c)'
      BY DEF Due
    <3> QED BY <1>1, <1>3, <2>1, <2>2, <3>1, <3>2
  <2>3. CASE k \in 1 .. Msg
    <3>1. ~Due(c)
      BY <1>2 DEF Due
    <3>2. Has(c, k) <=> c \in log[k].for
      BY <2>3, <3>1 DEF IInv, Passed
    <3> QED BY <1>3, <2>1, <2>3, <3>2 DEF Msg
  <2> QED BY <1>3, <2>2, <2>3 DEF Msg
<1> QED BY <1>4, <1>6, <1>7, <1>8, <1>9, <1>10 DEF IInv

LEMMA MessageStep ==
    ASSUME IInv, NEW len \in Lengths, Message(len)
    PROVE  IInv'
<1> DEFINE open == {c \in Clients : state[c] = "OPEN"}
<1>1. open \in SUBSET Clients /\ todo' \in SUBSET Clients /\ open \subseteq todo'
      /\ \A c \in todo' : c \in open <=> state[c] = "OPEN"
  BY DEF Message
<1>2. /\ pc = "idle" /\ pc' = "next" /\ log' = Append(log, [len |-> len, for |-> open])
      /\ UNCHANGED <<state, gone, room, stream, cut, to, data_offset, data_size>>
  BY DEF Message, clientVars
<1> QED BY <1>1, <1>2, BeginStep

LEMMA PingStep ==
    ASSUME IInv, NEW c \in Clients, NEW len \in Lengths, Ping(c, len)
    PROVE  IInv'
<1>1. /\ pc = "idle" /\ pc' = "next" /\ log' = Append(log, [len |-> len, for |-> {c}])
      /\ todo' = {c} /\ state[c] = "OPEN"
      /\ UNCHANGED <<state, gone, room, stream, cut, to, data_offset, data_size>>
  BY DEF Ping, clientVars
<1>2. {c} \in SUBSET Clients
  OBVIOUS
<1> QED BY <1>1, <1>2, BeginStep
-----------------------------------------------------------------------------
(***************************************************************************)
(* Inductiveness: the cursor.                                              *)
(***************************************************************************)
LEMMA PayloadType ==
    ASSUME IInv, pc # "idle"
    PROVE  Msg \in Nat \ {0} /\ Payload \in Nat
<1> DEFINE M == [len : Lengths, for : SUBSET Clients]
<1>1. log \in Seq(M) /\ Len(log) > 0
  BY DEF IInv, TypeOK, Phase, Msg
<1>2. \A m \in M : m.len \in Nat
  BY BroadcastAssumption
<1> HIDE DEF M
<1>3. log[Len(log)] \in M /\ Len(log) \in Nat
  BY <1>1
<1> QED BY <1>1, <1>2, <1>3 DEF Msg, Payload

LEMMA NextRecipientStep ==
    ASSUME IInv, NEW c \in Clients, NextRecipient(c)
    PROVE  IInv'
<1>1. UNCHANGED <<state, gone, room, stream, log, cut>> /\ pc = "next" /\ c \in todo
      /\ todo' = todo \ {c}
  BY DEF NextRecipient, clientVars
<1>2. /\ Msg \in Nat /\ Msg > 0 /\ Msg' = Msg
      /\ Payload \in Nat /\ Payload' = Payload
  BY <1>1, PayloadType DEF IInv, TypeOK, Phase, Msg, Payload
<1>4. (Known /\ InOrder)'
  BY <1>1 DEF IInv, Known, InOrder, Msg
<1>5. \/ /\ state[c] = "OPEN" /\ to' = c /\ pc' = "head"
         /\ data_offset' = 0 /\ data_size' = Payload
      \/ state[c] # "OPEN" /\ UNCHANGED <<to, pc, data_offset, data_size>>
  BY DEF NextRecipient, Addressee
<1>6. TypeOK'
  BY <1>1, <1>2, <1>5 DEF IInv, TypeOK
<1>7. \A d \in todo : d \in log[Msg].for <=> state[d] = "OPEN"
  BY DEF IInv, Phase
<1>8. (Phase /\ Recipient /\ UnderWay)'
  BY <1>1, <1>2, <1>5, <1>7 DEF Phase, Recipient, UnderWay, Msg, Payload
<1>9. Intact'
  BY <1>1, <1>5 DEF IInv, Intact, Whole, Writing
<1>10. Passed'
  <2> SUFFICES ASSUME NEW d \in Clients, NEW k \in 1 .. Msg
               PROVE  Has(d, k)' <=> d \in log[k].for /\ ~(k = Msg /\ Due(d)')
    BY <1>1, <1>2 DEF Passed, Msg
  <2>1. Has(d, k)' <=> d \in log[k].for /\ ~(k = Msg /\ Due(d))
    BY <1>1 DEF IInv, Passed, Has
  <2>2. CASE d # c
    BY <1>1, <1>5, <2>1, <2>2 DEF Due
  <2>3. CASE d = c
    BY <1>1, <1>5, <1>7, <2>1, <2>3 DEF Due
  <2> QED BY <2>2, <2>3
<1> QED BY <1>4, <1>6, <1>8, <1>9, <1>10 DEF IInv

LEMMA CursorDoneStep ==
    ASSUME IInv, CursorDone
    PROVE  IInv'
<1>1. UNCHANGED <<state, gone, room, stream, log, cut, todo, to>> /\ pc = "next" /\ todo = {}
      /\ pc' = "idle" /\ data_offset' = 0 /\ data_size' = 0
  BY DEF CursorDone, clientVars
<1>2. TypeOK'
  BY <1>1 DEF IInv, TypeOK
<1>3. (Known /\ Phase /\ Recipient /\ UnderWay /\ InOrder)'
  BY <1>1 DEF IInv, Known, Phase, Recipient, UnderWay, InOrder, Msg
<1>4. Intact'
  BY <1>1 DEF IInv, Intact, Whole, Writing
<1>5. Passed'
  BY <1>1 DEF IInv, Passed, Has, Due, Msg
<1> QED BY <1>2, <1>3, <1>4, <1>5 DEF IInv
-----------------------------------------------------------------------------
(***************************************************************************)
(* Inductiveness: a frame is begun, a message's head or a close frame.     *)
(***************************************************************************)
LEMMA FrameBegun ==
    ASSUME IInv, UNCHANGED log, NEW c \in Clients, NEW e \in Sent,
           stream' = [stream EXCEPT ![c] = Append(@, e)],
           e.msg = Close \/ (e.msg = Msg /\ ~Has(c, Msg))
    PROVE  /\ stream' \in [Clients -> Seq(Sent)]
           /\ \A d \in Clients : d # c => stream'[d] = stream[d]
           /\ DOMAIN stream'[c] = DOMAIN stream[c] \cup {Len(stream[c]) + 1}
           /\ \A i \in DOMAIN stream[c] : stream'[c][i] = stream[c][i]
           /\ Len(stream'[c]) = Len(stream[c]) + 1 /\ Last(stream'[c]) = e
           /\ Known' /\ InOrder'
           /\ \A d \in Clients : \A k \in 1 .. Msg :
                 Has(d, k)' <=> Has(d, k) \/ (d = c /\ k = e.msg)
<1> DEFINE n == Len(stream[c])
<1>1. stream \in [Clients -> Seq(Sent)] /\ n \in Nat /\ DOMAIN stream[c] = 1 .. n
  BY DEF IInv, TypeOK
<1>2. /\ stream' \in [Clients -> Seq(Sent)]
      /\ \A d \in Clients : d # c => stream'[d] = stream[d]
      /\ Len(stream'[c]) = n + 1 /\ DOMAIN stream'[c] = 1 .. n + 1
      /\ \A i \in 1 .. n : stream'[c][i] = stream[c][i]
      /\ stream'[c][n + 1] = e
  BY <1>1
<1>3. \A d \in Clients : \A i \in DOMAIN stream[d] : stream[d][i].msg \in 0 .. Msg
  BY StreamType
<1>4. Msg \in Nat /\ Msg' = Msg
  BY StreamType DEF Msg
<1> HIDE DEF n
<1>5. Known'
  <2> SUFFICES ASSUME NEW d \in Clients, NEW i \in DOMAIN stream'[d]
               PROVE  stream'[d][i].msg <= Msg
    BY <1>4 DEF Known
  <2>1. CASE d = c /\ i = n + 1
    BY <1>2, <1>4, <2>1 DEF Close
  <2>2. CASE d # c \/ i \in 1 .. n
    BY <1>1, <1>2, <1>3, <1>4, <2>2
  <2> QED BY <1>1, <1>2, <2>1, <2>2
<1>6. InOrder'
  <2> SUFFICES ASSUME NEW d \in Clients, NEW i \in DOMAIN stream'[d], NEW j \in DOMAIN stream'[d],
                      i < j
               PROVE  stream'[d][j].msg \in {Close} \cup (stream'[d][i].msg + 1 .. Msg)
    BY <1>4 DEF InOrder
  <2>1. CASE d # c
    BY <1>2, <2>1 DEF IInv, InOrder
  <2>2. CASE d = c /\ j \in 1 .. n
    <3>1. i \in 1 .. n
      BY <1>1, <1>2, <2>2
    <3> QED BY <1>1, <1>2, <2>2, <3>1 DEF IInv, InOrder
  <2>3. CASE d = c /\ j = n + 1
    <3>1. i \in 1 .. n /\ stream'[c][j] = e /\ stream'[c][i] = stream[c][i]
      BY <1>1, <1>2, <2>3
    <3>2. stream[c][i].msg \in 0 .. Msg
      BY <1>1, <1>3, <3>1
    <3>3. e.msg = Msg => stream[c][i].msg # Msg \/ e.msg = Close
      BY <1>1, <3>1 DEF Has
    <3> QED BY <1>4, <2>3, <3>1, <3>2, <3>3
  <2> QED BY <1>1, <1>2, <2>1, <2>2, <2>3
<1>7. ASSUME NEW d \in Clients, NEW k \in 1 .. Msg
      PROVE  Has(d, k)' <=> Has(d, k) \/ (d = c /\ k = e.msg)
  <2>1. CASE d # c
    BY <1>2, <2>1 DEF Has
  <2>2. CASE d = c
    <3>1. ASSUME NEW i \in 1 .. n + 1, stream'[c][i].msg = k
          PROVE  Has(c, k) \/ k = e.msg
      BY <1>1, <1>2, <3>1 DEF Has
    <3>2. ASSUME NEW i \in 1 .. n, stream[c][i].msg = k
          PROVE  i \in 1 .. n + 1 /\ stream'[c][i].msg = k
      BY <1>1, <1>2, <3>2
    <3>3. n + 1 \in 1 .. n + 1
      BY <1>1
    <3> QED BY <1>1, <1>2, <2>2, <3>1, <3>2, <3>3 DEF Has
  <2> QED BY <2>1, <2>2
<1> QED BY <1>1, <1>2, <1>5, <1>6, <1>7 DEF Last, n

LEMMA DropStep ==
    ASSUME IInv, NEW c \in Clients, Drop(c)
    PROVE  IInv'
<1>1. PICK r \in Results(c, CloseLength) :
        /\ Fill(c, r)
        /\ stream' = [stream EXCEPT ![c] = Append(@, [msg |-> Close, head |-> Taken(r),
                                                      body |-> 0, straight |-> TRUE])]
        /\ Cut(c, Close, Taken(r) < CloseLength)
  BY DEF Drop
<1> DEFINE e == [msg |-> Close, head |-> Taken(r), body |-> 0, straight |-> TRUE]
<1>2. /\ pc = "idle" /\ state' = [state EXCEPT ![c] = "CLOSED"]
      /\ UNCHANGED <<gone, log, pc, todo, to, data_offset, data_size>>
  BY DEF Drop
<1>3. r \in Int /\ Taken(r) \in Nat /\ Taken(r) <= room[c] /\ Taken(r) <= CloseLength
  BY ResultsType DEF IInv, CloseLength
<1>4. e \in Sent /\ e.msg = Close /\ e.head = Taken(r) /\ e.body = 0 /\ e.straight
  BY <1>3 DEF Sent, Close
<1>5. stream' = [stream EXCEPT ![c] = Append(@, e)]
  BY <1>1
<1> HIDE DEF e
<1>6. /\ stream' \in [Clients -> Seq(Sent)]
      /\ \A d \in Clients : d # c => stream'[d] = stream[d]
      /\ DOMAIN stream'[c] = DOMAIN stream[c] \cup {Len(stream[c]) + 1}
      /\ \A i \in DOMAIN stream[c] : stream'[c][i] = stream[c][i]
      /\ Len(stream'[c]) = Len(stream[c]) + 1 /\ Last(stream'[c]) = e
      /\ Known' /\ InOrder'
      /\ \A d \in Clients : \A k \in 1 .. Msg :
            Has(d, k)' <=> Has(d, k) \/ (d = c /\ k = e.msg)
  BY <1>2, <1>4, <1>5, FrameBegun
<1>11. /\ cut' \in [Clients -> SUBSET Nat]
       /\ \A d \in Clients : d # c => cut'[d] = cut[d]
       /\ \A k : k \notin cut'[c] => k \notin cut[c]
       /\ Close \notin cut'[c] => Taken(r) = CloseLength
  <2>1. Close \in Nat
    BY DEF Close
  <2>2. ~(Taken(r) < CloseLength) => Taken(r) = CloseLength
    BY <1>3 DEF CloseLength
  <2> QED BY <1>1, <2>1, <2>2, CutType DEF IInv
<1>7. TypeOK'
  <2>1. room' \in [Clients -> 0 .. Room]
    BY <1>1, <1>3, FillType DEF IInv
  <2> QED BY <1>2, <1>6, <1>11, <2>1 DEF IInv, TypeOK
<1>8. (Phase /\ Recipient /\ UnderWay)'
  BY <1>2 DEF IInv, Phase, Recipient, UnderWay, Msg
<1>9. Intact'
  <2> SUFFICES ASSUME NEW d \in Clients
               PROVE  /\ state'[d] = "CONNECTING" => stream'[d] = <<>>
                      /\ ~gone[d] => \A i \in DOMAIN stream'[d] :
                            stream'[d][i].msg \notin cut'[d] => Whole(stream'[d][i])
    BY <1>2 DEF Intact, Whole
  <2>1. ~gone[d] => \A i \in DOMAIN stream[d] :
            stream[d][i].msg \notin cut[d] => Whole(stream[d][i])
    BY <1>2 DEF IInv, Intact, Writing
  <2>2. CASE d # c
    <3>1. state'[d] = state[d] /\ cut'[d] = cut[d] /\ stream'[d] = stream[d]
      BY <1>2, <1>6, <1>11, <2>2 DEF IInv, TypeOK
    <3> QED BY <2>1, <3>1 DEF IInv, Intact
  <2>3. CASE d = c
    <3>1. state'[d] = "CLOSED"
      BY <1>2, <2>3 DEF IInv, TypeOK
    <3>2. Taken(r) = CloseLength => Whole(e)
      BY <1>4 DEF Whole, Close
    <3> QED BY <1>4, <1>6, <1>11, <2>1, <2>3, <3>1, <3>2 DEF Last
  <2> QED BY <2>2, <2>3
<1>10. Passed'
  BY <1>2, <1>4, <1>6 DEF IInv, Passed, Due, Msg, Close
<1> QED BY <1>6, <1>7, <1>8, <1>9, <1>10 DEF IInv

LEMMA WriteHeadStep ==
    ASSUME IInv, WriteHead
    PROVE  IInv'
<1> DEFINE n == HeadLength(Payload)
<1>1. PICK r \in Results(to, n) :
        /\ Fill(to, r)
        /\ stream' = [stream EXCEPT ![to] = Append(@, [msg |-> Msg, head |-> Taken(r),
                                                       body |-> 0, straight |-> TRUE])]
        /\ Cut(to, Msg, Taken(r) < n)
  BY DEF WriteHead
<1> DEFINE e == [msg |-> Msg, head |-> Taken(r), body |-> 0, straight |-> TRUE]
<1>2. /\ pc = "head" /\ pc' = "first"
      /\ UNCHANGED <<state, gone, log, todo, to, data_offset, data_size>>
  BY DEF WriteHead, clientVars
<1>3. Msg \in Nat \ {0} /\ Payload \in Nat /\ n \in Nat \ {0} /\ to \in Clients
  BY <1>2, PayloadType, HeadLengthNat DEF IInv, TypeOK
<1> HIDE DEF n
<1>4. r \in Int /\ Taken(r) \in Nat /\ Taken(r) <= room[to] /\ Taken(r) <= n
  BY <1>3, ResultsType DEF IInv
<1>5. e \in Sent /\ e.msg = Msg /\ e.head = Taken(r) /\ e.body = 0 /\ e.straight
  BY <1>3, <1>4 DEF Sent
<1>6. stream' = [stream EXCEPT ![to] = Append(@, e)]
  BY <1>1
<1>7. state[to] = "OPEN" /\ to \in log[Msg].for /\ data_offset = 0 /\ data_size = Payload
      /\ to \notin todo
  BY <1>2 DEF IInv, Recipient, Phase
<1>8. ~Has(to, Msg)
  BY <1>2, <1>3 DEF IInv, Passed, Due
<1> HIDE DEF e
<1>9. /\ stream' \in [Clients -> Seq(Sent)]
      /\ \A d \in Clients : d # to => stream'[d] = stream[d]
      /\ DOMAIN stream'[to] = DOMAIN stream[to] \cup {Len(stream[to]) + 1}
      /\ \A i \in DOMAIN stream[to] : stream'[to][i] = stream[to][i]
      /\ Len(stream'[to]) = Len(stream[to]) + 1 /\ Last(stream'[to]) = e
      /\ Known' /\ InOrder'
      /\ \A d \in Clients : \A k \in 1 .. Msg :
            Has(d, k)' <=> Has(d, k) \/ (d = to /\ k = e.msg)
  BY <1>2, <1>3, <1>5, <1>6, <1>8, FrameBegun
<1>11. /\ cut' \in [Clients -> SUBSET Nat]
       /\ \A d \in Clients : d # to => cut'[d] = cut[d]
       /\ \A k : k \notin cut'[to] => k \notin cut[to]
       /\ Msg \notin cut'[to] => Taken(r) = n
  <2>1. ~(Taken(r) < n) => Taken(r) = n
    BY <1>3, <1>4
  <2> QED BY <1>1, <1>3, <2>1, CutType DEF IInv
<1>10. TypeOK'
  <2>1. room' \in [Clients -> 0 .. Room]
    BY <1>1, <1>3, <1>4, FillType DEF IInv
  <2> QED BY <1>2, <1>9, <1>11, <2>1 DEF IInv, TypeOK
<1>13. (Phase /\ Recipient)'
  BY <1>2, <1>7 DEF IInv, Phase, Recipient, Msg, Payload
<1>14. UnderWay'
  <2>1. Last(stream'[to]) = e /\ Msg' = Msg /\ Payload' = Payload /\ to' = to /\ stream'[to] # <<>>
    BY <1>2, <1>3, <1>9 DEF Msg, Payload
  <2>2. n = HeadLength(Payload)
    BY DEF n
  <2> QED BY <1>2, <1>3, <1>5, <1>7, <1>11, <2>1, <2>2 DEF UnderWay
<1>15. Intact'
  <2> SUFFICES ASSUME NEW d \in Clients
               PROVE  /\ state[d] = "CONNECTING" => stream'[d] = <<>>
                      /\ ~gone[d] => \A i \in DOMAIN stream'[d] :
                            stream'[d][i].msg \notin cut'[d] =>
                                Whole(stream'[d][i]) \/ (i = Len(stream'[d]) /\ to = d)
    BY <1>2 DEF Intact, Whole, Writing
  <2>1. ~gone[d] => \A i \in DOMAIN stream[d] :
            stream[d][i].msg \notin cut[d] => Whole(stream[d][i])
    BY <1>2 DEF IInv, Intact, Writing
  <2>2. CASE d # to
    BY <1>9, <1>11, <2>1, <2>2 DEF IInv, Intact
  <2>3. CASE d = to
    BY <1>7, <1>9, <1>11, <2>1, <2>3
  <2> QED BY <2>2, <2>3
<1>16. Passed'
  <2> SUFFICES ASSUME NEW d \in Clients, NEW k \in 1 .. Msg
               PROVE  Has(d, k)' <=> d \in log[k].for /\ ~(k = Msg /\ d \in todo)
    BY <1>2 DEF Passed, Due, Msg
  <2>1. Has(d, k) <=> d \in log[k].for /\ ~(k = Msg /\ (d \in todo \/ to = d))
    BY <1>2 DEF IInv, Passed, Due
  <2> QED BY <1>5, <1>7, <1>9, <2>1
<1> QED BY <1>9, <1>10, <1>13, <1>14, <1>15, <1>16 DEF IInv
-----------------------------------------------------------------------------
(***************************************************************************)
(* Inductiveness: the payload.                                             *)
(***************************************************************************)
LEMMA BodyWritten ==
    ASSUME IInv, pc \in {"first", "more"}, NEW r \in Results(to, data_size),
           pc = "more" => r # Again,
           Fill(to, r), stream' = [stream EXCEPT ![to] = PutBody(@, r)], Advance(r),
           UNCHANGED <<state, gone, log, todo, to>>,
           cut' \in [Clients -> SUBSET Nat],
           \A d \in Clients : d # to => cut'[d] = cut[d],
           \A k : k \notin cut'[to] => k \notin cut[to],
           Msg \notin cut'[to] => r # Again
    PROVE  IInv'
<1>1. Msg \in Nat \ {0} /\ Payload \in Nat /\ to \in Clients /\ data_size \in Nat /\ data_offset \in Nat
      /\ stream \in [Clients -> Seq(Sent)] /\ Msg' = Msg /\ Payload' = Payload
  BY PayloadType DEF IInv, TypeOK, Msg, Payload
<1>2. /\ r \in Int /\ Taken(r) \in Nat /\ Taken(r) <= room[to] /\ Taken(r) <= data_size
      /\ gone[to] => r = Failed
      /\ ~gone[to] => r = Again \/ (r \in 0 .. data_size /\ (r = 0 => data_size = 0))
  BY <1>1, ResultsType DEF IInv
<1> DEFINE s == stream[to]  t == PutBody(s, r)
<1>3. s \in Seq(Sent) /\ s # <<>> /\ Last(s).msg = Msg
      /\ (Msg \notin cut[to] /\ ~gone[to] =>
            /\ Last(s).head = HeadLength(Payload) /\ Last(s).straight
            /\ Last(s).body = data_offset /\ data_offset + data_size = Payload)
  BY <1>1 DEF IInv, UnderWay
<1>4. /\ t \in Seq(Sent) /\ Len(t) = Len(s) /\ DOMAIN t = DOMAIN s
      /\ \A i \in DOMAIN s : i # Len(s) => t[i] = s[i]
      /\ \A i \in DOMAIN s : t[i].msg = s[i].msg
      /\ Last(t).head = Last(s).head /\ Last(t).body = Last(s).body + Taken(r)
      /\ Last(t).straight = (Last(s).straight /\ (r > 0 => data_offset = Last(s).body))
  BY <1>2, <1>3, PutBodyType DEF IInv
<1>5. stream' \in [Clients -> Seq(Sent)] /\ stream'[to] = t
      /\ \A d \in Clients : d # to => stream'[d] = stream[d]
  BY <1>1, <1>4
<1> HIDE DEF s, t
<1>6. \A d \in Clients : DOMAIN stream'[d] = DOMAIN stream[d]
          /\ \A i \in DOMAIN stream[d] : stream'[d][i].msg = stream[d][i].msg
  BY <1>4, <1>5 DEF s
<1>7. (Known /\ InOrder)'
  BY <1>1, <1>6 DEF IInv, Known, InOrder
<1>8. \A d \in Clients : \A k \in 1 .. Msg : Has(d, k)' <=> Has(d, k)
  BY <1>6 DEF Has
<1>9. \/ /\ r > 0 /\ r < data_size /\ pc' = "more"
         /\ data_offset' = data_offset + r /\ data_size' = data_size - r
      \/ /\ ~(r > 0 /\ r < data_size) /\ pc' = "next"
         /\ UNCHANGED <<data_offset, data_size>>
  BY DEF Advance, LoopsOn
<1>10. TypeOK'
  <2>1. room' \in [Clients -> 0 .. Room]
    BY <1>1, <1>2, FillType DEF IInv
  <2>2. data_offset' \in Nat /\ data_size' \in Nat /\ pc' \in {"more", "next"}
    BY <1>1, <1>2, <1>9
  <2> QED BY <1>5, <2>1, <2>2 DEF IInv, TypeOK
<1>11. (Phase /\ Recipient)'
  BY <1>1, <1>9 DEF IInv, Phase, Recipient, Msg
<1>12. Msg \notin cut'[to] /\ ~gone[to] =>
         /\ Last(t).head = HeadLength(Payload) /\ Last(t).straight
         /\ Last(t).body = data_offset + Taken(r)
         /\ data_offset + data_size = Payload
         /\ Taken(r) = r /\ r \in 0 .. data_size /\ (r = 0 => data_size = 0)
  <2> SUFFICES ASSUME Msg \notin cut'[to], ~gone[to]
               PROVE  /\ Last(t).head = HeadLength(Payload) /\ Last(t).straight
                      /\ Last(t).body = data_offset + Taken(r)
                      /\ data_offset + data_size = Payload
                      /\ Taken(r) = r /\ r \in 0 .. data_size /\ (r = 0 => data_size = 0)
    OBVIOUS
  <2>1. Msg \notin cut[to] /\ r # Again
    OBVIOUS
  <2>2. Last(s).head = HeadLength(Payload) /\ Last(s).straight
        /\ Last(s).body = data_offset /\ data_offset + data_size = Payload
    BY <1>3, <2>1, Zenon
  <2>3. r \in 0 .. data_size /\ (r = 0 => data_size = 0)
    BY <1>2, <2>1, Zenon
  <2>4. Taken(r) = r
    BY <1>1, <2>3 DEF Taken
  <2>5. Last(t).straight
    BY <1>4, <2>2, Zenon
  <2>6. Last(t).head = HeadLength(Payload)
    BY <1>4, <2>2, Zenon
  <2>7. Last(t).body = data_offset + Taken(r)
    BY <1>4, <2>2, Zenon
  <2> QED BY <2>2, <2>3, <2>4, <2>5, <2>6, <2>7, Zenon
<1>13. UnderWay'
  <2>1. CASE pc' = "next"
    BY <2>1 DEF UnderWay
  <2>2. CASE pc' = "more"
    <3>1. data_offset' = data_offset + r /\ data_size' = data_size - r
      BY <1>9, <2>2
    <3>2. t # <<>> /\ Last(t).msg = Msg
      BY <1>3, <1>4 DEF Last
    <3>3. stream'[to'] = t /\ Msg' = Msg /\ Payload' = Payload /\ to' = to /\ UNCHANGED gone
      BY <1>1, <1>5
    <3>4. Msg \notin cut'[to] /\ ~gone[to] =>
            Last(t).body = data_offset' /\ data_offset' + data_size' = Payload
      <4> SUFFICES ASSUME Msg \notin cut'[to], ~gone[to]
                   PROVE  Last(t).body = data_offset' /\ data_offset' + data_size' = Payload
        OBVIOUS
      <4>1. Last(t).body = data_offset + r /\ data_offset + data_size = Payload
            /\ r \in 0 .. data_size
        BY <1>12, Zenon
      <4>2. data_offset \in Nat /\ data_size \in Nat
        BY <1>1 DEF IInv, TypeOK
      <4>3. data_offset' + data_size' = data_offset + data_size
        BY <3>1, <4>1, <4>2
      <4> QED BY <3>1, <4>1, <4>3, Zenon
    <3> QED BY <1>12, <3>2, <3>3, <3>4 DEF UnderWay
  <2> QED BY <1>9, <2>1, <2>2
<1>14. Intact'
  <2> SUFFICES ASSUME NEW d \in Clients
               PROVE  /\ state[d] = "CONNECTING" => stream'[d] = <<>>
                      /\ ~gone[d] => \A i \in DOMAIN stream'[d] :
                            stream'[d][i].msg \notin cut'[d] =>
                                \/ Whole(stream'[d][i])
                                \/ i = Len(stream'[d]) /\ to = d /\ pc' = "more"
    BY DEF Intact, Whole, Writing
  <2>1. CASE d # to
    BY <1>5, <2>1 DEF IInv, Intact, Writing
  <2>2. CASE d = to
    <3>1. state[d] = "OPEN"
      BY <2>2 DEF IInv, Recipient
    <3>2. ASSUME ~gone[to], NEW i \in DOMAIN t, i # Len(t), t[i].msg \notin cut'[to]
          PROVE  Whole(t[i])
      BY <1>1, <1>4, <3>2 DEF IInv, Intact, s
    <3>3. ASSUME Msg \notin cut'[to], ~gone[to], pc' # "more"
          PROVE  Whole(Last(t))
      <4>1. r = data_size
        BY <1>1, <1>9, <1>12, <3>3
      <4>2. Last(t).msg = Msg /\ Last(t).body = Payload
        <5>1. Last(t).msg = Last(s).msg
          BY <1>3, <1>4 DEF Last
        <5>2. Last(t).body = data_offset + r /\ data_offset + data_size = Payload
          BY <1>12, <3>3
        <5> QED BY <1>3, <4>1, <5>1, <5>2
      <4> QED BY <1>1, <1>12, <3>3, <4>2 DEF Whole, Close, Payload
    <3>4. Last(t).msg = Msg
      BY <1>3, <1>4 DEF Last
    <3> QED BY <1>5, <2>2, <3>1, <3>2, <3>3, <3>4 DEF Last
  <2> QED BY <2>1, <2>2
<1>15. Passed'
  BY <1>1, <1>8, <1>9 DEF IInv, Passed, Due
<1> QED BY <1>7, <1>10, <1>11, <1>13, <1>14, <1>15 DEF IInv

LEMMA WriteStep ==
    ASSUME IInv, WritePayload \/ WriteRest
    PROVE  IInv'
<1>1. to \in Clients /\ cut \in [Clients -> SUBSET Nat] /\ Msg \in Nat
  BY StreamType DEF IInv, TypeOK
<1>2. CASE WritePayload
  <2>1. PICK r \in Results(to, data_size) :
          /\ Fill(to, r) /\ stream' = [stream EXCEPT ![to] = PutBody(@, r)]
          /\ Cut(to, Msg, r = Again) /\ Advance(r)
    BY <1>2 DEF WritePayload
  <2>2. /\ cut' \in [Clients -> SUBSET Nat] /\ \A d \in Clients : d # to => cut'[d] = cut[d]
        /\ \A k : k \notin cut'[to] => k \notin cut[to]
        /\ Msg \notin cut'[to] => r # Again
    BY <1>1, <2>1, CutType DEF IInv
  <2>4. pc = "first" /\ UNCHANGED <<state, gone, log, todo, to>>
    BY <1>2 DEF WritePayload, clientVars
  <2> QED BY <2>1, <2>2, <2>4, BodyWritten
<1>3. CASE WriteRest
  <2>1. PICK r \in Results(to, data_size) :
          /\ ~Retried(r) /\ Fill(to, r)
          /\ stream' = [stream EXCEPT ![to] = PutBody(@, r)] /\ Advance(r)
    BY <1>3 DEF WriteRest
  <2>2. pc = "more" /\ UNCHANGED <<state, gone, log, todo, to, cut>>
    BY <1>3 DEF WriteRest, clientVars
  <2> QED BY <1>1, <2>1, <2>2, BodyWritten DEF Retried
<1> QED BY <1>2, <1>3
-----------------------------------------------------------------------------
LEMMA StutterStep ==
    ASSUME IInv, UNCHANGED vars
    PROVE  IInv'
<1>1. UNCHANGED <<state, gone, room, stream, log, cut, pc, todo, to, data_offset, data_size>>
  BY DEF vars, clientVars
<1>2. TypeOK'
  BY <1>1 DEF IInv, TypeOK
<1>3. (Known /\ Phase /\ Recipient /\ UnderWay /\ InOrder /\ Passed)'
  BY <1>1 DEF IInv, Known, Phase, Recipient, UnderWay, InOrder, Passed, Has, Due, Msg, Payload
<1>4. Intact'
  BY <1>1 DEF IInv, Intact, Whole, Writing
<1> QED BY <1>2, <1>3, <1>4 DEF IInv

LEMMA InvStep == IInv /\ [Next]_vars => IInv'
<1> SUFFICES ASSUME IInv, [Next]_vars
             PROVE  IInv'
  OBVIOUS
<1>1. ASSUME NEW c \in Clients, NextRecipient(c)
      PROVE  IInv'
  BY <1>1, NextRecipientStep
<1>2. ASSUME NEW c \in Clients, PeerReads(c) \/ PeerCloses(c) \/ Open(c) \/ Drop(c)
      PROVE  IInv'
  BY <1>2, PeerStep, OpenStep, DropStep
<1>3. ASSUME NEW len \in Lengths, Message(len) \/ \E c \in Clients : Ping(c, len)
      PROVE  IInv'
  BY <1>3, MessageStep, PingStep
<1>4. CASE CursorDone
  BY <1>4, CursorDoneStep
<1>5. CASE WriteHead
  BY <1>5, WriteHeadStep
<1>6. CASE WritePayload \/ WriteRest
  BY <1>6, WriteStep
<1>7. CASE UNCHANGED vars
  BY <1>7, StutterStep
<1> QED BY <1>1, <1>2, <1>3, <1>4, <1>5, <1>6, <1>7 DEF Next, Reader, Environment

LEMMA Invariant == Spec => []IInv
<1>1. Init => IInv
  BY InitHolds
<1>2. IInv /\ [Next]_vars => IInv'
  BY InvStep
<1> QED BY <1>1, <1>2, PTL DEF Spec

(***************************************************************************)
(* The variables of the two write loops have their types: data_size never  *)
(* goes below zero (it is a size_t), nor does a socket take more than it   *)
(* has room for.                                                           *)
(***************************************************************************)
THEOREM BroadcastTypeOK == Spec => []TypeOK
<1>1. IInv => TypeOK
  BY DEF IInv
<1> QED BY <1>1, Invariant, PTL

(***************************************************************************)
(* hk_reader_handle_data_frame and hk_reader_handle_ping_frame keep every  *)
(* stream whole, where there was room for heads and for beginnings of      *)
(* payloads, whatever parts the sockets take.                              *)
(***************************************************************************)
THEOREM BroadcastStreamIntact == Spec => []StreamIntact
<1>1. IInv => StreamIntact
  BY DEF IInv, Intact, StreamIntact
<1> QED BY <1>1, Invariant, PTL

(***************************************************************************)
(* Each client that was open gets each message to the last octet, once and *)
(* in order, unless it has closed or its socket had no room for that very  *)
(* message's head or first octet; a socket that was full loses no other.   *)
(***************************************************************************)
THEOREM BroadcastNoneLeftOut == Spec => []NoneLeftOut
<1>1. IInv => NoneLeftOut
  <2> SUFFICES ASSUME IInv, NEW c \in Clients
               PROVE  /\ \A i, j \in DOMAIN stream[c] :
                            i < j => stream[c][j].msg \in {Close} \cup (stream[c][i].msg + 1 .. Msg)
                      /\ \A i \in DOMAIN stream[c] :
                            stream[c][i].msg # Close => c \in log[stream[c][i].msg].for
                      /\ pc = "idle" /\ ~gone[c] =>
                            \A m \in DOMAIN log :
                                c \in log[m].for => Reached(c, m) \/ m \in cut[c]
    BY DEF NoneLeftOut
  <2>1. DOMAIN log = 1 .. Msg /\ Msg \in Nat
    BY DEF IInv, TypeOK, Msg
  <2>2. ASSUME NEW i \in DOMAIN stream[c], stream[c][i].msg # Close
        PROVE  c \in log[stream[c][i].msg].for
    <3>1. stream[c][i].msg \in 1 .. Msg
      BY <2>1, <2>2, StreamType DEF Close
    <3>2. Has(c, stream[c][i].msg)
      BY DEF Has
    <3> QED BY <3>1, <3>2 DEF IInv, Passed
  <2>3. ASSUME pc = "idle", ~gone[c], NEW m \in DOMAIN log, c \in log[m].for, m \notin cut[c]
        PROVE  Reached(c, m)
    <3>1. PICK i \in DOMAIN stream[c] : stream[c][i].msg = m
      BY <2>1, <2>3 DEF IInv, Phase, Passed, Due, Has
    <3>2. Whole(stream[c][i])
      BY <2>3, <3>1 DEF IInv, Intact, Writing
    <3> QED BY <3>1, <3>2 DEF Reached
  <2> QED BY <2>2, <2>3 DEF IInv, InOrder
<1> QED BY <1>1, Invariant, PTL
=============================================================================
