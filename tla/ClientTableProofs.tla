--------------------------- MODULE ClientTableProofs ---------------------------
(***************************************************************************)
(* Proofs about ClientTable: lemmas on the columns of its Hash, then the   *)
(* proofs of the table.                                                    *)
(***************************************************************************)
EXTENDS ClientTableSafety, SetInduction, FiniteSetTheorems

(***************************************************************************)
(* Lemmas on the columns of Hash: lists linked in the order of their keys. *)
(* L stands for the items linked, hd for the heads and nx for the items'   *)
(* next pointers.                                                          *)
(***************************************************************************)
\* n is the item of column col in L that comes next after key k, or NULL where
\* there is none.
FirstAbove(L, col, k, n) ==
    /\ n # NULL => n \in L /\ Column(n) = col /\ Key[n] > k
    /\ \A d \in L : Column(d) = col /\ Key[d] > k => n # NULL /\ Key[n] <= Key[d]

\* Each column links its items of L in order.
Chained(L, hd, nx) ==
    /\ \A col \in Columns : FirstAbove(L, col, -1, hd[col])
    /\ \A c \in L : FirstAbove(L, Column(c), Key[c], nx[c])
-----------------------------------------------------------------------------
LEMMA KeyType ==
    /\ \A c \in Items : Key[c] \in Nat /\ Column(c) \in Columns
    /\ \A a, b \in Items : Key[a] = Key[b] => a = b
    /\ NULL \notin Items /\ Scale \in Nat \ {0}
<1>1. \A c \in Items : Key[c] \in Nat
  BY HashAssumption
<1>2. \A c \in Items : Column(c) \in Columns
  <2>1. ASSUME NEW a \in Nat, NEW b \in Nat \ {0} PROVE a % b \in 0 .. b - 1
    BY <2>1
  <2> QED BY <1>1, <2>1, HashAssumption DEF Column, Columns
<1> QED BY <1>1, <1>2, HashAssumption

\* Only the next pointers of items that are linked count.
LEMMA ChainedSame ==
    ASSUME NEW L, NEW hd, NEW nx, NEW nx2, Chained(L, hd, nx), \A c \in L : nx2[c] = nx[c]
    PROVE  Chained(L, hd, nx2)
BY DEF Chained

\* A new item linked before the first of its column.
LEMMA LinkFirst ==
    ASSUME NEW L \in SUBSET Items, NEW hd \in [Columns -> Pointers], NEW nx,
           NEW new \in Items \ L, Chained(L, hd, nx),
           nx[new] = hd[Column(new)],
           hd[Column(new)] # NULL => Key[hd[Column(new)]] > Key[new]
    PROVE  Chained(L \cup {new}, [hd EXCEPT ![Column(new)] = new], nx)
<1> DEFINE M == L \cup {new}
           h2 == [hd EXCEPT ![Column(new)] = new]
<1>1. ASSUME NEW col \in Columns PROVE FirstAbove(M, col, -1, h2[col])
  BY KeyType DEF Chained, FirstAbove
<1>2. ASSUME NEW c \in M PROVE FirstAbove(M, Column(c), Key[c], nx[c])
  <2>1. CASE c = new
    BY <2>1, KeyType DEF Chained, FirstAbove
  <2>2. CASE c \in L
    <3>1. Column(c) = Column(new) => Key[c] > Key[new]
      BY <2>2, KeyType DEF Chained, FirstAbove
    <3> QED BY <2>2, <3>1, KeyType DEF Chained, FirstAbove
  <2> QED BY <2>1, <2>2
<1> QED BY <1>1, <1>2 DEF Chained

\* A new item linked after the last of its column with a lesser key.
LEMMA LinkAfter ==
    ASSUME NEW L \in SUBSET Items, NEW hd, NEW nx \in [Items -> Pointers],
           NEW new \in Items \ L, NEW p \in L, Chained(L, hd, nx),
           Column(p) = Column(new), Key[p] < Key[new],
           nx[new] = nx[p], nx[p] # NULL => Key[nx[p]] > Key[new]
    PROVE  Chained(L \cup {new}, hd, [nx EXCEPT ![p] = new])
<1> DEFINE M == L \cup {new}
           n2 == [nx EXCEPT ![p] = new]
<1>1. ASSUME NEW col \in Columns PROVE FirstAbove(M, col, -1, hd[col])
  <2>1. col = Column(new) => hd[col] # NULL /\ Key[hd[col]] <= Key[p]
    BY KeyType DEF Chained, FirstAbove
  <2>2. FirstAbove(L, col, -1, hd[col])
    BY DEF Chained
  <2> QED BY <2>1, <2>2, KeyType DEF FirstAbove
<1>2. ASSUME NEW c \in M PROVE FirstAbove(M, Column(c), Key[c], n2[c])
  <2>1. CASE c = new
    <3>1. FirstAbove(L, Column(new), Key[p], nx[p]) /\ n2[c] = nx[p]
      BY <2>1, KeyType DEF Chained
    <3> QED BY <2>1, <3>1, KeyType DEF FirstAbove
  <2>2. CASE c = p
    <3>1. FirstAbove(L, Column(new), Key[p], nx[p]) /\ n2[c] = new
      BY <2>2, KeyType DEF Chained
    <3> QED BY <2>2, <3>1, KeyType DEF FirstAbove
  <2>3. CASE c \in L /\ c # p
    <3>1. FirstAbove(L, Column(c), Key[c], nx[c]) /\ n2[c] = nx[c]
      BY <2>3, KeyType DEF Chained
    <3>2. Column(c) = Column(new) /\ Key[new] > Key[c] => nx[c] # NULL /\ Key[nx[c]] < Key[new]
      <4>1. FirstAbove(L, Column(new), Key[p], nx[p])
        BY DEF Chained
      <4>2. Column(c) = Column(new) /\ Key[c] > Key[p] => Key[c] > Key[new]
        BY <2>3, <4>1, KeyType DEF FirstAbove
      <4>3. Key[c] # Key[p]
        BY <2>3, KeyType
      <4>4. Column(c) = Column(new) /\ Key[c] < Key[p] => nx[c] # NULL /\ Key[nx[c]] <= Key[p]
        BY <2>3, <3>1, KeyType DEF FirstAbove
      <4>5. nx[c] # NULL => nx[c] \in L
        BY <3>1 DEF FirstAbove
      <4> QED BY <2>3, <4>2, <4>3, <4>4, <4>5, KeyType
    <3> QED BY <2>3, <3>1, <3>2, KeyType DEF FirstAbove
  <2> QED BY <2>1, <2>2, <2>3
<1> QED BY <1>1, <1>2 DEF Chained

\* The first item of a column taken off.
LEMMA UnlinkFirst ==
    ASSUME NEW L \in SUBSET Items, NEW hd \in [Columns -> Pointers], NEW nx,
           NEW c \in L, Chained(L, hd, nx), hd[Column(c)] = c
    PROVE  Chained(L \ {c}, [hd EXCEPT ![Column(c)] = nx[c]], nx)
<1> DEFINE M == L \ {c}
           h2 == [hd EXCEPT ![Column(c)] = nx[c]]
<1>0. /\ FirstAbove(L, Column(c), -1, c)
      /\ FirstAbove(L, Column(c), Key[c], nx[c])
  BY KeyType DEF Chained
<1>1. ASSUME NEW col \in Columns PROVE FirstAbove(M, col, -1, h2[col])
  <2>1. CASE col = Column(c)
    BY <1>0, <2>1, KeyType DEF FirstAbove
  <2>2. CASE col # Column(c)
    BY <2>2, KeyType DEF FirstAbove, Chained
  <2> QED BY <2>1, <2>2
<1>2. ASSUME NEW d \in M PROVE FirstAbove(M, Column(d), Key[d], nx[d])
  BY <1>0, KeyType DEF FirstAbove, Chained
<1> QED BY <1>1, <1>2 DEF Chained

\* An item after another one taken off.
LEMMA UnlinkAfter ==
    ASSUME NEW L \in SUBSET Items, NEW hd, NEW nx \in [Items -> Pointers],
           NEW c \in L, NEW p \in L, Chained(L, hd, nx), nx[p] = c
    PROVE  Chained(L \ {c}, hd, [nx EXCEPT ![p] = nx[c]])
<1> DEFINE M == L \ {c}
           n2 == [nx EXCEPT ![p] = nx[c]]
<1>0. /\ FirstAbove(L, Column(p), Key[p], c)
      /\ FirstAbove(L, Column(c), Key[c], nx[c])
      /\ Column(c) = Column(p) /\ Key[p] < Key[c]
  BY KeyType DEF Chained, FirstAbove
<1>1. ASSUME NEW col \in Columns PROVE FirstAbove(M, col, -1, hd[col])
  <2>1. FirstAbove(L, col, -1, hd[col])
    BY DEF Chained
  <2>2. hd[col] # c
    BY <2>1, <1>0, KeyType DEF FirstAbove
  <2> QED BY <2>1, <2>2, KeyType DEF FirstAbove
<1>2. ASSUME NEW d \in M PROVE FirstAbove(M, Column(d), Key[d], n2[d])
  <2>1. CASE d = p
    <3>1. n2[d] = nx[c]
      BY <2>1
    <3> QED BY <2>1, <3>1, <1>0, KeyType DEF FirstAbove
  <2>2. CASE d # p
    <3>1. FirstAbove(L, Column(d), Key[d], nx[d]) /\ n2[d] = nx[d]
      BY <2>2 DEF Chained
    <3>2. nx[d] # c
      <4>1. Key[d] # Key[p]
        BY <2>2, KeyType
      <4> QED BY <3>1, <4>1, <1>0, KeyType DEF FirstAbove
    <3> QED BY <3>1, <3>2, KeyType DEF FirstAbove
  <2> QED BY <2>1, <2>2
<1> QED BY <1>1, <1>2 DEF Chained

(***************************************************************************)
(* What InColumn finds from the head of a column is what is linked in it.  *)
(***************************************************************************)
LEMMA ChainedInColumn ==
    ASSUME NEW L \in SUBSET Items, Chained(L, head, next), NEW col \in Columns
    PROVE  InColumn(col) = {c \in L : Column(c) = col}
<1> DEFINE C == {c \in L : Column(c) = col}
           Closed(S) == head[col] \in S \cup {NULL} /\ \A d \in S : next[d] \in S \cup {NULL}
<1>1. Closed(C) /\ C \in SUBSET Items
  BY DEF Chained, FirstAbove
<1>2. ASSUME NEW S \in SUBSET Items, Closed(S) PROVE C \subseteq S
  <2> DEFINE K == {Key[c] : c \in C \ S}
  <2>1. SUFFICES ASSUME C \ S # {} PROVE FALSE
    OBVIOUS
  <2>2. K \in SUBSET Nat /\ K # {}
    BY <2>1, KeyType
  <2>3. PICK k \in K : \A m \in K : k <= m
    <3> HIDE DEF K
    <3> QED BY <2>2, LeastNat
  <2>4. PICK c \in C \ S : Key[c] = k
    BY <2>3
  <2>5. \A d \in C \ S : Key[c] <= Key[d]
    BY <2>3, <2>4
  \* The items before c; the last of them is in S, and c is next to it.
  <2>6. CASE \A d \in C : Key[d] >= Key[c]
    <3>1. FirstAbove(L, col, -1, head[col])
      BY DEF Chained
    <3>2. head[col] # NULL /\ head[col] \in C /\ Key[head[col]] <= Key[c]
      BY <2>4, <3>1, KeyType DEF FirstAbove
    <3>3. head[col] = c
      BY <2>6, <3>2, <2>4, KeyType
    <3> QED BY <1>2, <2>4, <3>3, <3>2
  <2>7. CASE \E d \in C : Key[d] < Key[c]
    <3> DEFINE D == {Key[c] - Key[d] : d \in {d \in C : Key[d] < Key[c]}}
    <3>1. D \in SUBSET Nat /\ D # {}
      BY <2>7, <2>4, KeyType
    <3>2. PICK n \in D : \A m \in D : n <= m
      <4> HIDE DEF D
      <4> QED BY <3>1, LeastNat
    <3>3. PICK p \in C : Key[p] < Key[c] /\ n = Key[c] - Key[p]
      BY <3>2
    <3>4. \A d \in C : Key[d] < Key[c] => Key[d] <= Key[p]
      <4>1. \A d \in C : Key[d] < Key[c] => n <= Key[c] - Key[d]
        BY <3>2
      <4> QED BY <4>1, <2>4, <3>3, KeyType
    <3>5. p \in S
      BY <2>5, <3>3, <2>4, KeyType
    <3>6. FirstAbove(L, col, Key[p], next[p])
      BY <3>3 DEF Chained
    <3>7. next[p] # NULL /\ next[p] \in C /\ Key[next[p]] > Key[p] /\ Key[next[p]] <= Key[c]
      BY <2>4, <3>3, <3>6, KeyType DEF FirstAbove
    <3>8. next[p] = c
      BY <2>4, <3>4, <3>7, <3>3, KeyType
    <3> QED BY <1>2, <2>4, <3>5, <3>7, <3>8
  <2> QED BY <2>4, <2>6, <2>7, KeyType
<1>3. C \subseteq InColumn(col)
  BY <1>2 DEF InColumn
<1>4. InColumn(col) \subseteq C
  BY <1>1 DEF InColumn
<1> QED BY <1>3, <1>4

\* An empty column has nothing in it.
LEMMA EmptyInColumn ==
    ASSUME NEW col, head[col] = NULL
    PROVE  InColumn(col) = {}
<1>1. {} \in SUBSET Items /\ head[col] \in {} \cup {NULL} /\ \A d \in {} : next[d] \in {} \cup {NULL}
  OBVIOUS
<1> QED BY <1>1 DEF InColumn
-----------------------------------------------------------------------------
\* The clients whose removal has come to one of the points ops.
Leaving(ops) ==
    {c \in Items : \E t \in Threads :
        doing[t] = "dropping" /\ at[t].op \in ops /\ at[t].arg = c}

\* The client whose insertion has begun.
Entering == {c \in Items : at[Main].op \in InsertOps /\ at[Main].arg = c}

\* What is linked, what the table has a reference on, what a cursor has one on.
Listed == members \ Leaving({"unref", "out"})
Owned  == (members \ Leaving({"out"})) \cup Entering
Held(t) == (IF at[t].op = "advance" THEN {at[t].tmp, next[at[t].row]}
                                    ELSE {at[t].row}) \ {NULL}

\* Thread t has a cursor, which has been set on its first row.
Scanning(t) == doing[t] \in {"dropall", "message"} \/ (t = Main /\ doing[t] = "dropping")
Begun(t)    == Scanning(t) /\ at[t].op # "cursor"

Where ==
    /\ doing[Main] \in {"accept", "join", "unjoined", "free", "stopped"} => at[Main].op = "out"
    /\ doing[Main] = "add" => at[Main].op \in {"out"} \cup InsertOps /\ at[Main].arg \in Items
    /\ doing[Main] = "dropall" => at[Main].op \in {"out"} \cup CursorOps
    /\ doing[Reader] \in {"starting", "wait", "batch", "pong", "exited"} => at[Reader].op = "out"
    /\ doing[Reader] = "message" => at[Reader].op \in {"out"} \cup CursorOps
    /\ \A t \in Threads : doing[t] = "dropping" => at[t].op \in {"out"} \cup RemoveOps
    /\ \A t \in Threads : ~Begun(t) => at[t].row = NULL
    /\ doing[Main] \in {"join", "free", "stopped"} =>
          doing[Reader] \in {"wait", "exited"} /\ ~running /\ members = {}
    /\ doing[Main] \in {"free", "stopped"} => doing[Reader] = "exited"
    /\ doing[Main] \in {"accept", "add", "unjoined"} =>
          (running <=> doing[Reader] # "starting") /\ doing[Reader] # "exited"

Clients ==
    /\ members \cap closed = {}
    /\ freed = closed \cup Leaving({"out"})
    /\ Entering \cap (members \cup freed) = {}
    /\ \A t \in Threads : doing[t] = "dropping" => at[t].arg \in members \ epoll
    /\ batch \subseteq epoll /\ epoll \subseteq members
    /\ doing[Reader] \in {"starting", "wait", "exited"} => batch = {}
    /\ doing[Main] = "add" =>
          /\ at[Main].arg \notin epoll
          /\ Out(Main) => at[Main].arg \in members
          /\ doing[Reader] = "dropping" => at[Reader].arg # at[Main].arg

\* A client that is open stays so until its removal is done.
Opened ==
    /\ \A c \in open : c \in epoll \/ \E t \in Threads : doing[t] = "dropping" /\ at[t].arg = c
    /\ doing[Reader] = "pong" => visited # <<>> /\ visited[1] \in open

Bit(b) == IF b THEN 1 ELSE 0

Balanced ==
    \A c \in Items : ref[c] = Bit(c \in Owned) + Bit(c \in Held(Main)) + Bit(c \in Held(Reader))

\* hk_hash_insert on the main thread.
Insertion ==
    LET a == at[Main]
        new == at[Main].arg
    IN  /\ a.op = "first" => next[new] = a.tmp /\ (a.tmp # NULL => Key[a.tmp] > Key[new])
        /\ a.op = "reload" => head[Column(new)] # NULL /\ Key[head[Column(new)]] < Key[new]
        /\ a.op \in {"walk", "after"} =>
              a.tmp \in Listed /\ Column(a.tmp) = Column(new) /\ Key[a.tmp] < Key[new]
        /\ a.op = "after" => next[new] = next[a.tmp] /\ (next[new] # NULL => Key[next[new]] > Key[new])

\* hk_hash_remove on thread t.
Removal(t) ==
    LET a == at[t]
        c == at[t].arg
    IN  doing[t] = "dropping" =>
        /\ a.op = "unhead" => head[Column(c)] = c /\ a.nxt = next[c]
        /\ a.op \in {"find", "unlink"} =>
              a.tmp \in Listed /\ Column(a.tmp) = Column(c) /\ Key[a.tmp] < Key[c]
        /\ a.op = "unlink" => next[a.tmp] = c /\ a.nxt = next[c]

\* The cursor of thread t.
CursorAt(t) ==
    LET a == at[t]
    IN  Begun(t) =>
        /\ a.row # NULL => a.row \in Listed /\ Column(a.row) = a.col
        /\ a.op = "advance" => a.row # NULL /\ a.res = a.row /\ a.tmp \in {NULL, a.row}
        /\ a.op \notin {"next", "advance"} =>
              IF a.res = NULL THEN a.row = NULL /\ a.col = Scale - 1
              ELSE /\ Column(a.res) = a.col /\ (a.row # NULL => Key[a.row] > Key[a.res])
                   /\ doing[t] # "dropping" => a.res \in Listed
        /\ doing[t] = "dropping" => a.res = a.arg

\* c is still to come, or has been passed by, for the cursor of t.
Ahead(t, c) ==
    \/ Column(c) > at[t].col
    \/ Column(c) = at[t].col /\ at[t].row # NULL /\ Key[c] >= Key[at[t].row]
Behind(t, c) ==
    \/ Column(c) < at[t].col
    \/ Column(c) = at[t].col /\ (at[t].row # NULL => Key[c] < Key[at[t].row])
Before(c, d) == Column(c) < Column(d) \/ (Column(c) = Column(d) /\ Key[c] < Key[d])

DropsAll ==
    Begun(Main) =>
        \A c \in Listed : Ahead(Main, c) \/ (at[Main].op \notin {"next", "advance"} /\ c = at[Main].res)

Visits ==
    doing[Reader] = "message" =>
        /\ atStart = open
        /\ \A i \in DOMAIN visited : visited[i] \in open
        /\ \A i, j \in DOMAIN visited : visited[i] = visited[j] => i = j
        /\ IF at[Reader].op = "cursor" THEN visited = <<>>
           ELSE /\ \A i \in DOMAIN visited : Behind(Reader, visited[i])
                /\ \A c \in atStart :
                      \/ Ahead(Reader, c) \/ (at[Reader].op = "out" /\ c = at[Reader].res)
                      \/ \E i \in DOMAIN visited : visited[i] = c
        /\ at[Reader].op = "out" /\ at[Reader].res # NULL =>
              \A i \in DOMAIN visited : Before(visited[i], at[Reader].res)

\* What holds as long as nothing has raced.
Parts ==
    /\ TypeOK /\ ~fault
    /\ Where /\ Clients /\ Opened /\ Balanced
    /\ Chained(Listed, head, next)
    /\ Insertion /\ \A t \in Threads : Removal(t) /\ CursorAt(t)
    /\ DropsAll /\ Visits

Good == Parts /\ ~Overlap

IInv == raced \in BOOLEAN /\ (~raced => Good)
-----------------------------------------------------------------------------
LEMMA Two == Main \in Threads /\ Reader \in Threads /\ Main # Reader
             /\ \A t \in Threads : t = Main \/ t = Reader
BY ThreadsAssumption DEF Main, Reader

\* What the fields of a thread's state may be.
LEMMA Fields ==
    ASSUME TypeOK, NEW t \in Threads
    PROVE  /\ at \in [Threads -> Local]
           /\ at[t].op \in {"out"} \cup InsertOps \cup RemoveOps \cup CursorOps
           /\ at[t].arg \in Items \cup {NULL} /\ at[t].tmp \in Items \cup {NULL}
           /\ at[t].nxt \in Items \cup {NULL} /\ at[t].row \in Items \cup {NULL}
           /\ at[t].res \in Items \cup {NULL} /\ at[t].col \in Columns
<1>1. at[t] \in Local /\ at \in [Threads -> Local]
  BY DEF TypeOK, HashTypeOK
<1> QED BY <1>1 DEF Local, Pointers

\* What else is known of the variables' types.
LEMMA Types ==
    ASSUME TypeOK
    PROVE  /\ head \in [Columns -> Items \cup {NULL}] /\ next \in [Items -> Items \cup {NULL}]
           /\ ref \in [Items -> Int] /\ freed \subseteq Items
           /\ epoll \subseteq Items /\ batch \subseteq Items
           /\ open \subseteq Items /\ closed \subseteq Items
           /\ members \subseteq Items /\ atStart \subseteq Items /\ visited \in Seq(Items)
           /\ doing \in [Threads -> MainStates \cup ReaderStates]
           /\ doing[Main] \in MainStates /\ doing[Reader] \in ReaderStates
BY DEF TypeOK, HashTypeOK, Pointers

(***************************************************************************)
(* Only one thread at a time removes clients or has a cursor, and clients  *)
(* are only added beside the reader thread.                                *)
(***************************************************************************)
LEMMA Apart ==
    ASSUME Good
    PROVE  /\ doing[Main] \in {"dropall", "dropping"} => doing[Reader] \in {"wait", "exited"}
           /\ doing[Reader] \in {"message", "dropping", "pong"} =>
                 doing[Main] \in {"accept", "add", "unjoined"}
           /\ doing[Main] \in {"accept", "add", "unjoined"} => doing[Reader] # "exited"
           /\ at[Main].op \in InsertOps => doing[Main] = "add"
           /\ \A t \in Threads : at[t].op \in RemoveOps => doing[t] = "dropping"
           /\ \A t \in Threads : at[t].op \in CursorOps =>
                 doing[t] = IF t = Main THEN "dropall" ELSE "message"
           /\ \A t \in Threads : at[t].row # NULL => Begun(t)
           /\ at[Main].op \in InsertOps => at[Main].arg \in Items
           /\ at[Reader].op \notin InsertOps
<1>1. /\ doing[Main] \in {"accept", "add", "dropall", "dropping", "join", "unjoined", "free", "stopped"}
      /\ doing[Reader] \in {"starting", "wait", "batch", "dropping", "message", "pong", "exited"}
  BY DEF Good, Parts, TypeOK, MainStates, ReaderStates
<1>2. doing[Main] \in {"dropall", "dropping"} => doing[Reader] \in {"wait", "exited"}
  BY DEF Good, Overlap
<1>3. Where
  BY DEF Good, Parts
<1>4. doing[Reader] \in {"message", "dropping", "pong"} => doing[Main] \in {"accept", "add", "unjoined"}
  BY <1>1, <1>2, <1>3 DEF Where
<1>5. /\ at[Main].op \in InsertOps => doing[Main] = "add"
      /\ at[Main].op \in RemoveOps => doing[Main] = "dropping"
      /\ at[Main].op \in CursorOps => doing[Main] = "dropall"
  BY <1>1, <1>2, <1>3, Two DEF Where, InsertOps, RemoveOps, CursorOps
<1>6. /\ at[Reader].op \notin InsertOps
      /\ at[Reader].op \in RemoveOps => doing[Reader] = "dropping"
      /\ at[Reader].op \in CursorOps => doing[Reader] = "message"
  BY <1>1, <1>2, <1>3, Two DEF Where, InsertOps, RemoveOps, CursorOps
<1> QED BY <1>2, <1>3, <1>4, <1>5, <1>6, Two DEF Where

\* What is linked has not been freed.
LEMMA Live ==
    ASSUME Good
    PROVE  /\ Listed \subseteq members /\ Listed \subseteq Items /\ Listed \cap freed = {}
           /\ Owned \cap freed = {} /\ members \cap closed = {}
           /\ Chained(Listed, head, next)
<1>1. TypeOK /\ Clients /\ Chained(Listed, head, next)
  BY DEF Good, Parts
<1>2. Leaving({"out"}) \subseteq Leaving({"unref", "out"})
  BY DEF Leaving
<1> QED BY <1>1, <1>2, Types DEF Listed, Owned, Clients

\* A step inside hk_hash.c opens and closes nobody.
LEMMA OpenedSame ==
    ASSUME Good, UNCHANGED <<doing, epoll, open, visited>>,
           \A t \in Threads : doing[t] = "dropping" => at'[t].arg = at[t].arg
    PROVE  Opened'
BY DEF Good, Parts, Opened

\* Who is open is in the table, as long as nobody is being dropped.
LEMMA OpenListed ==
    ASSUME Good, \A t \in Threads : doing[t] # "dropping"
    PROVE  open \subseteq epoll /\ open \subseteq members
BY DEF Good, Parts, Opened, Clients
-----------------------------------------------------------------------------
(***************************************************************************)
(* Insertion, on the main thread.                                          *)
(***************************************************************************)
\* What is the same after any step of an insertion.
InsertFrame ==
    /\ at[Main].op \in InsertOps
    /\ at'[Reader] = at[Reader]
    /\ at'[Main].arg = at[Main].arg /\ at'[Main].row = at[Main].row
    /\ TypeOK' /\ fault' = FALSE
    /\ UNCHANGED <<doing, epoll, batch, open, closed, running, visited, messages, atStart, ref, freed>>

\* The step does not link the item: only its own next pointer may change.
NotLinked ==
    /\ at'[Main].op \in InsertOps
    /\ members' = members /\ head' = head
    /\ \A c \in Items : c # at[Main].arg => next'[c] = next[c]

\* The step links it, as the first of its column or after another.
Linking ==
    LET new == at[Main].arg
    IN  /\ at'[Main].op = "out"
        /\ members' = members \cup {new}
        /\ \/ /\ next' = next /\ head' = [head EXCEPT ![Column(new)] = new]
              /\ next[new] = head[Column(new)]
              /\ head[Column(new)] # NULL => Key[head[Column(new)]] > Key[new]
           \/ \E p \in Listed :
              /\ head' = head /\ next' = [next EXCEPT ![p] = new]
              /\ Column(p) = Column(new) /\ Key[p] < Key[new]
              /\ next[new] = next[p] /\ (next[p] # NULL => Key[next[p]] > Key[new])

\* The sets of clients after a step of an insertion.
LEMMA InsertSets ==
    ASSUME Good, InsertFrame, NotLinked \/ Linking
    PROVE  /\ at[Main].arg \in Items /\ at[Main].arg \notin members \cup freed
           /\ \A ops : Leaving(ops)' = Leaving(ops)
           /\ NotLinked => Entering' = Entering /\ Listed' = Listed
           /\ Linking => Entering' = {} /\ Listed' = Listed \cup {at[Main].arg}
           /\ Owned' = Owned
<1> DEFINE new == at[Main].arg
<1>1. /\ doing[Main] = "add" /\ new \in Items /\ at[Main].op \in InsertOps
      /\ Entering = {new}
  BY Apart DEF InsertFrame, Entering
<1>2. new \notin members \cup freed
  BY <1>1 DEF Good, Parts, Clients
<1>3. ASSUME NEW ops PROVE Leaving(ops)' = Leaving(ops)
  BY <1>1, Two DEF InsertFrame, Leaving
<1>4. Leaving({"out"}) \subseteq freed /\ Leaving({"unref", "out"}) \subseteq members
  <2>1. Leaving({"out"}) \subseteq freed
    BY DEF Good, Parts, Clients
  <2>2. \A t \in Threads : doing[t] = "dropping" => at[t].arg \in members
    BY DEF Good, Parts, Clients
  <2> QED BY <2>1, <2>2 DEF Leaving
<1>5. CASE NotLinked
  <2>1. Entering' = Entering
    BY <1>1, <1>5 DEF Entering, NotLinked, InsertFrame
  <2>2. Listed' = Listed /\ Owned' = Owned
    BY <1>3, <1>5, <2>1 DEF Listed, Owned, NotLinked
  <2>3. ~Linking
    BY <1>5 DEF NotLinked, Linking, InsertOps
  <2> QED BY <1>1, <1>2, <1>3, <2>1, <2>2, <2>3
<1>6. CASE Linking
  <2>1. Entering' = {}
    BY <1>6 DEF Entering, Linking, InsertOps
  <2>2. Listed' = Listed \cup {new} /\ Owned' = Owned
    BY <1>1, <1>2, <1>3, <1>4, <1>6, <2>1 DEF Listed, Owned, Linking
  <2>3. ~NotLinked
    BY <1>6 DEF NotLinked, Linking, InsertOps
  <2> QED BY <1>1, <1>2, <1>3, <2>1, <2>2, <2>3
<1> QED BY <1>5, <1>6

\* The columns after a step of an insertion, and what it leaves alone.
LEMMA InsertChains ==
    ASSUME Good, InsertFrame, NotLinked \/ Linking
    PROVE  /\ Chained(Listed', head', next')
           /\ \A c \in Listed : Column(c) # Column(at[Main].arg) => next'[c] = next[c]
           /\ \A col \in Columns : col # Column(at[Main].arg) => head'[col] = head[col]
<1> DEFINE new == at[Main].arg
<1>1. new \in Items \ Listed /\ Listed \in SUBSET Items /\ Chained(Listed, head, next)
  BY InsertSets, Live
<1>2. head \in [Columns -> Pointers] /\ next \in [Items -> Pointers]
  BY DEF Good, Parts, TypeOK, HashTypeOK
<1>3. CASE NotLinked
  <2>1. Listed' = Listed /\ head' = head /\ \A c \in Listed : next'[c] = next[c]
    BY <1>1, <1>3, InsertSets DEF NotLinked
  <2> QED BY <2>1, <1>1, ChainedSame
<1>4. CASE Linking
  <2>1. Listed' = Listed \cup {new}
    BY <1>4, InsertSets
  <2>2. CASE /\ next' = next /\ head' = [head EXCEPT ![Column(new)] = new]
             /\ next[new] = head[Column(new)]
             /\ head[Column(new)] # NULL => Key[head[Column(new)]] > Key[new]
    <3>1. Chained(Listed \cup {new}, head', next')
      BY <2>2, <1>1, <1>2, LinkFirst
    <3> QED BY <2>1, <2>2, <3>1, <1>2
  <2>3. ASSUME NEW p \in Listed,
               head' = head, next' = [next EXCEPT ![p] = new],
               Column(p) = Column(new), Key[p] < Key[new],
               next[new] = next[p], next[p] # NULL => Key[next[p]] > Key[new]
        PROVE  /\ Chained(Listed', head', next')
               /\ \A c \in Listed : Column(c) # Column(new) => next'[c] = next[c]
               /\ \A col \in Columns : col # Column(new) => head'[col] = head[col]
    <3>1. Chained(Listed \cup {new}, head', next')
      BY <2>3, <1>1, <1>2, LinkAfter
    <3> QED BY <2>1, <2>3, <3>1, <1>1, <1>2
  <2> QED BY <1>4, <2>2, <2>3 DEF Linking
<1> QED BY <1>3, <1>4

\* What an insertion means for the clients and the references on them.
LEMMA InsertClients ==
    ASSUME Good, InsertFrame, NotLinked \/ Linking
    PROVE  Where' /\ Clients'
<1>1. Where /\ Clients /\ doing[Main] = "add" /\ doing[Reader] \in ReaderStates
  BY Apart, Types DEF Good, Parts, InsertFrame
<1>2. at'[Main].op \in {"out"} \cup InsertOps
  BY DEF NotLinked, Linking
<1>3. Where'
  <2>1. \A t \in Threads : Begun(t)' <=> Begun(t)
    BY <1>1, Two DEF Begun, Scanning, InsertFrame
  <2> QED BY <1>1, <1>2, <2>1, Two DEF Where, InsertFrame
<1>4. Clients'
  <2>1. members \subseteq members' /\ members' \subseteq members \cup {at[Main].arg}
    BY DEF NotLinked, Linking
  <2>2. at[Main].arg \notin members \cup freed /\ Entering' \cap (members' \cup freed) = {}
    BY <1>1, InsertSets DEF NotLinked, Clients
  <2>3. closed \subseteq freed
    BY <1>1 DEF Clients
  <2>4. at'[Main].op = "out" => at[Main].arg \in members'
    BY DEF NotLinked, Linking, InsertOps
  <2>5. /\ members' \cap closed' = {}
        /\ freed' = closed' \cup Leaving({"out"})'
        /\ Entering' \cap (members' \cup freed') = {}
        /\ batch' \subseteq epoll' /\ epoll' \subseteq members'
    BY <1>1, <2>1, <2>2, <2>3, InsertSets DEF Clients, InsertFrame
  <2>6. \A t \in Threads : doing'[t] = "dropping" => at'[t].arg \in members' \ epoll'
    BY <1>1, <2>1, Two DEF Clients, InsertFrame
  <2>7. doing'[Reader] \in {"starting", "wait", "exited"} => batch' = {}
    BY <1>1 DEF Clients, InsertFrame
  <2>8. /\ at'[Main].arg \notin epoll'
        /\ Out(Main)' => at'[Main].arg \in members'
        /\ doing'[Reader] = "dropping" => at'[Reader].arg # at'[Main].arg
    <3>1. doing[Reader] = "dropping" => at[Reader].arg # at[Main].arg
      BY <1>1 DEF Clients
    <3> QED BY <1>1, <2>4, <3>1 DEF Clients, InsertFrame, Out
  <2> QED BY <2>5, <2>6, <2>7, <2>8 DEF Clients
<1> QED BY <1>3, <1>4

LEMMA InsertBalanced ==
    ASSUME Good, InsertFrame, NotLinked \/ Linking, ~Overlap'
    PROVE  Balanced'
<1>1. doing[Main] = "add" /\ Balanced /\ at[Main].op \in InsertOps
  BY Apart DEF Good, Parts, InsertFrame
<1>2. Held(Main)' = Held(Main)
  <2>1. at[Main].op # "advance" /\ at'[Main].op # "advance"
    BY <1>1 DEF InsertOps, NotLinked, Linking
  <2> QED BY <2>1 DEF Held, InsertFrame
<1>3. Held(Reader)' = Held(Reader)
  <2>1. CASE at[Reader].op = "advance"
    <3>1. doing[Reader] = "message" /\ Begun(Reader) /\ CursorAt(Reader)
      BY <2>1, Apart, Two DEF CursorOps, Good, Parts, Begun, Scanning
    <3>2. at[Reader].row \in Listed /\ Column(at[Reader].row) = at[Reader].col
      BY <2>1, <3>1 DEF CursorAt
    <3>3. Column(at[Reader].row) # Column(at[Main].arg)
      <4>1. Column(at[Main].arg) \in Columns
        BY <1>1, Apart, KeyType
      <4> QED BY <1>1, <2>1, <3>2, <4>1 DEF Good, Overlap, Inserting, Advancing
    <3>4. next'[at[Reader].row] = next[at[Reader].row]
      BY <3>2, <3>3, InsertChains
    <3> QED BY <2>1, <3>4 DEF Held, InsertFrame
  <2>2. CASE at[Reader].op # "advance"
    BY <2>2 DEF Held, InsertFrame
  <2> QED BY <2>1, <2>2
<1>4. Owned' = Owned /\ ref' = ref
  BY InsertSets DEF InsertFrame
<1> QED BY <1>1, <1>2, <1>3, <1>4 DEF Balanced

\* The reader thread, removing from another column or passing a message on, does
\* not notice.
LEMMA InsertBeside ==
    ASSUME Good, InsertFrame, NotLinked \/ Linking
    PROVE  /\ \A t \in Threads : Removal(t)' /\ CursorAt(t)'
           /\ DropsAll' /\ Visits'
<1>1. doing[Main] = "add" /\ doing' = doing /\ at'[Reader] = at[Reader]
  BY Apart DEF Good, Parts, InsertFrame
<1>2. ~Begun(Main)' /\ DropsAll' /\ CursorAt(Main)' /\ Removal(Main)'
  BY <1>1 DEF Begun, Scanning, DropsAll, CursorAt, Removal
<1>3. Listed \subseteq Listed' /\ open' = open /\ atStart' = atStart /\ visited' = visited
  BY InsertSets DEF NotLinked, Linking, InsertFrame
<1>4. CursorAt(Reader)'
  BY <1>1, <1>3, Two DEF CursorAt, Good, Parts, Begun, Scanning
<1>5. Visits'
  <2>1. Visits
    BY DEF Good, Parts
  <2> QED BY <1>1, <1>3, <2>1, Two DEF Visits, Ahead, Behind
<1>6. Removal(Reader)'
  <2> SUFFICES ASSUME doing[Reader] = "dropping" PROVE Removal(Reader)'
    BY <1>1 DEF Removal
  <2> DEFINE c == at[Reader].arg
             tmp == at[Reader].tmp
  <2>1. Removal(Reader) /\ Where /\ Clients
    BY Two DEF Good, Parts
  <2>2. c \in Items /\ c \in members
    BY <2>1, Two, Types DEF Clients, Good, Parts
  <2>3. CASE at[Reader].op \in {"unhead", "find", "unlink"}
    <3>1. c \in Listed
      <4>1. c \notin Leaving({"unref", "out"})
        BY <1>1, <2>3, Two DEF Leaving
      <4> QED BY <2>2, <4>1 DEF Listed
    <3>2. Column(c) # Column(at[Main].arg)
      <4>1. Column(at[Main].arg) \in Columns /\ at[Main].op \in InsertOps
        BY Apart, KeyType DEF InsertFrame
      <4> QED BY <2>3, <4>1 DEF Good, Overlap, Inserting, Removing, RemoveOps
    <3>3. next'[c] = next[c] /\ head'[Column(c)] = head[Column(c)]
      BY <2>2, <3>1, <3>2, InsertChains, KeyType
    <3>4. tmp \in Listed /\ Column(tmp) = Column(c) => next'[tmp] = next[tmp]
      BY <3>2, InsertChains
    <3> QED BY <1>1, <1>3, <2>1, <3>3, <3>4 DEF Removal
  <2>4. CASE at[Reader].op \notin {"unhead", "find", "unlink"}
    BY <1>1, <2>4 DEF Removal
  <2> QED BY <2>3, <2>4
<1> QED BY <1>2, <1>4, <1>5, <1>6, Two

\* All of it but the insertion's own part.
LEMMA InsertRest ==
    ASSUME Good, InsertFrame, NotLinked \/ Linking, ~Overlap', Insertion'
    PROVE  Parts'
<1>1. TypeOK' /\ ~fault'
  BY DEF InsertFrame
<1>2. Chained(Listed', head', next')
  BY InsertChains
<1>3. Opened'
  BY OpenedSame, Two DEF InsertFrame
<1> QED BY <1>1, <1>2, <1>3, InsertClients, InsertBalanced, InsertBeside DEF Parts
-----------------------------------------------------------------------------
\* A step inside hk_hash.c that keeps the types of its own variables.
LEMMA TableTypes ==
    ASSUME TypeOK, UNCHANGED <<readerVars, atStart>>, raced' \in BOOLEAN,
           HashTypeOK', members' \subseteq Items
    PROVE  TypeOK'
BY DEF TypeOK, readerVars

\* What a thread that is in hk_hash_insert knows of the column.
LEMMA InsertKnows ==
    ASSUME Good, at[Main].op \in InsertOps
    PROVE  LET new == at[Main].arg
               n   == head[Column(new)]
           IN  /\ new \in Items \ Listed /\ new \notin freed /\ Column(new) \in Columns
               /\ n # NULL => n \in Listed /\ Column(n) = Column(new)
               /\ Insertion
<1> DEFINE new == at[Main].arg
           n   == head[Column(new)]
<1>1. new \in Items /\ Insertion /\ Clients /\ Column(new) \in Columns
  BY Apart, KeyType DEF Good, Parts
<1>2. new \notin members \cup freed
  BY <1>1 DEF Clients, Entering
<1>3. FirstAbove(Listed, Column(new), -1, n)
  BY <1>1, Live DEF Chained
<1> QED BY <1>1, <1>2, <1>3, Live DEF FirstAbove

LEMMA InsertBeginStep ==
    ASSUME Good, InsertBegin(Main), UNCHANGED <<members, readerVars, atStart>>,
           raced' \in BOOLEAN, ~Overlap'
    PROVE  Parts'
<1> DEFINE new    == at[Main].arg
           first  == head[Column(new)]
           before == StopsBefore(first, new)
           op     == IF before THEN "first" ELSE "reload"
<1>1. at[Main].op \in InsertOps /\ TypeOK
  BY DEF InsertBegin, InsertOps, Good, Parts
<1>2. /\ new \in Items \ Listed /\ Column(new) \in Columns
      /\ first # NULL => first \in Listed /\ Column(first) = Column(new)
      /\ Listed \subseteq Items /\ Listed \cap freed = {}
  BY <1>1, InsertKnows, Live
<1>3. at' = [at EXCEPT ![Main].op = op, ![Main].tmp = first] /\ fault' = FALSE
  BY <1>2 DEF InsertBegin, Follow
<1>4. /\ next' = IF before THEN [next EXCEPT ![new] = first] ELSE next
      /\ UNCHANGED <<head, ref, freed>>
  BY DEF InsertBegin, Linked
<1>5. /\ at'[Main].op = op /\ at'[Main].tmp = first /\ at'[Main].arg = new
      /\ at'[Main].row = at[Main].row /\ at'[Reader] = at[Reader]
      /\ at' \in [Threads -> Local]
  <2>1. op \in InsertOps /\ first \in Pointers
    BY <1>2 DEF InsertOps, Pointers
  <2> HIDE DEF op, first
  <2> QED BY <1>1, <1>3, <2>1, Two DEF TypeOK, HashTypeOK, Local
<1>6. TypeOK'
  <2>1. HashTypeOK'
    BY <1>1, <1>2, <1>3, <1>4, <1>5 DEF HashTypeOK, TypeOK, Pointers
  <2> QED BY <1>1, <2>1, TableTypes, Types
<1>7. InsertFrame
  BY <1>1, <1>3, <1>4, <1>5, <1>6 DEF InsertFrame, readerVars
<1>8. NotLinked
  BY <1>2, <1>4, <1>5, Types, <1>1 DEF NotLinked, InsertOps
<1>9. Insertion'
  <2>1. CASE before
    <3>1. next'[new] = first /\ (first # NULL => Key[first] > Key[new])
      BY <1>1, <1>2, <1>4, <2>1, Types DEF StopsBefore
    <3> QED BY <1>5, <2>1, <3>1 DEF Insertion
  <2>2. CASE ~before
    <3>1. first # NULL /\ Key[first] < Key[new]
      BY <1>2, <2>2, KeyType DEF StopsBefore
    <3> QED BY <1>4, <1>5, <2>2, <3>1 DEF Insertion
  <2> QED BY <2>1, <2>2
<1> QED BY <1>7, <1>8, <1>9, InsertRest

LEMMA InsertFirstStep ==
    ASSUME Good, InsertFirst(Main), UNCHANGED <<readerVars, atStart>>,
           members' = IF at'[Main].op = "out" THEN members \cup {at[Main].arg} ELSE members,
           raced' \in BOOLEAN, ~Overlap'
    PROVE  Parts'
<1> DEFINE new  == at[Main].arg
           same == head[Column(new)] = at[Main].tmp
           op   == IF same THEN "out" ELSE "insert"
<1>1. at[Main].op = "first" /\ at[Main].op \in InsertOps /\ TypeOK
  BY DEF InsertFirst, InsertOps, Good, Parts
<1>2. /\ new \in Items \ Listed /\ Column(new) \in Columns /\ Insertion
  BY <1>1, InsertKnows
<1>3. /\ at' = [at EXCEPT ![Main].op = op] /\ fault' = FALSE
      /\ head' = IF same THEN [head EXCEPT ![Column(new)] = new] ELSE head
      /\ UNCHANGED <<next, ref, freed>>
  BY DEF InsertFirst, FirstRetry, Good, Parts
<1>5. /\ at'[Main].op = op /\ at'[Main].arg = new
      /\ at'[Main].row = at[Main].row /\ at'[Reader] = at[Reader]
      /\ at' \in [Threads -> Local]
  <2>1. op \in InsertOps \cup {"out"}
    BY DEF InsertOps
  <2> HIDE DEF op
  <2> QED BY <1>1, <1>3, <2>1, Two DEF TypeOK, HashTypeOK, Local
<1>6. TypeOK'
  <2>1. HashTypeOK'
    BY <1>1, <1>2, <1>3, <1>5 DEF HashTypeOK, TypeOK, Pointers
  <2>2. members' \subseteq Items
    BY <1>1, <1>2, Types
  <2> QED BY <1>1, <2>1, <2>2, TableTypes
<1>7. InsertFrame
  BY <1>1, <1>3, <1>5, <1>6 DEF InsertFrame, readerVars
<1>8. NotLinked \/ Linking
  <2>1. CASE same
    BY <1>1, <1>2, <1>3, <1>5, <2>1 DEF Linking, Insertion
  <2>2. CASE ~same
    BY <1>3, <1>5, <2>2 DEF NotLinked, InsertOps
  <2> QED BY <2>1, <2>2
<1>9. Insertion'
  BY <1>5 DEF Insertion
<1> QED BY <1>7, <1>8, <1>9, InsertRest

LEMMA InsertReloadStep ==
    ASSUME Good, InsertReload(Main), UNCHANGED <<members, readerVars, atStart>>,
           raced' \in BOOLEAN, ~Overlap'
    PROVE  Parts'
<1> DEFINE new   == at[Main].arg
           first == head[Column(new)]
<1>1. at[Main].op = "reload" /\ at[Main].op \in InsertOps /\ TypeOK
  BY DEF InsertReload, InsertOps, Good, Parts
<1>2. /\ first \in Listed /\ Column(first) = Column(new) /\ Key[first] < Key[new]
      /\ Listed \subseteq Items
  BY <1>1, InsertKnows, Live DEF Insertion
<1>3. /\ at' = [at EXCEPT ![Main].op = "walk", ![Main].tmp = first] /\ fault' = FALSE
      /\ UNCHANGED <<head, next, ref, freed>>
  BY DEF InsertReload, Good, Parts
<1>5. /\ at'[Main].op = "walk" /\ at'[Main].tmp = first /\ at'[Main].arg = new
      /\ at'[Main].row = at[Main].row /\ at'[Reader] = at[Reader]
      /\ at' \in [Threads -> Local]
  <2>1. first \in Pointers
    BY <1>2 DEF Pointers
  <2> HIDE DEF first
  <2> QED BY <1>1, <1>3, <2>1, Two DEF TypeOK, HashTypeOK, Local, InsertOps
<1>6. TypeOK'
  <2>1. HashTypeOK'
    BY <1>1, <1>3, <1>5 DEF HashTypeOK, TypeOK
  <2> QED BY <1>1, <2>1, TableTypes, Types
<1>7. InsertFrame
  BY <1>1, <1>3, <1>5, <1>6 DEF InsertFrame, readerVars
<1>8. NotLinked
  BY <1>3, <1>5 DEF NotLinked, InsertOps
<1>9. Insertion'
  <2>1. Listed' = Listed
    BY <1>7, <1>8, InsertSets
  <2> QED BY <1>2, <1>5, <2>1 DEF Insertion
<1> QED BY <1>7, <1>8, <1>9, InsertRest

LEMMA InsertWalkStep ==
    ASSUME Good, InsertWalk(Main), UNCHANGED <<members, readerVars, atStart>>,
           raced' \in BOOLEAN, ~Overlap'
    PROVE  Parts'
<1> DEFINE new == at[Main].arg
           tmp == at[Main].tmp
           n   == next[tmp]
           op  == IF StopsBefore(n, new) THEN "after" ELSE "walk"
           to  == IF StopsBefore(n, new) THEN tmp ELSE n
<1>1. at[Main].op = "walk" /\ at[Main].op \in InsertOps /\ TypeOK
  BY DEF InsertWalk, InsertOps, Good, Parts
<1>2. /\ new \in Items \ Listed /\ Column(new) \in Columns /\ Listed \subseteq Items
      /\ tmp \in Listed /\ Column(tmp) = Column(new) /\ Key[tmp] < Key[new]
      /\ Listed \cap freed = {} /\ tmp # NULL
  BY <1>1, InsertKnows, Live, KeyType DEF Insertion
<1>3. FirstAbove(Listed, Column(new), Key[tmp], n)
  BY <1>2, Live DEF Chained
<1>4. /\ at'[Main].op = op /\ at'[Main].tmp = to /\ at'[Main].arg = new
      /\ at'[Main].row = at[Main].row /\ at'[Reader] = at[Reader]
      /\ at' \in [Threads -> Local]
  <2>1. to \in Pointers /\ op \in InsertOps
    BY <1>2, <1>3 DEF Pointers, FirstAbove, InsertOps
  <2>2. at' = [at EXCEPT ![Main].op = op, ![Main].tmp = to]
    <3>1. at \in [Threads -> Local] /\ at[Main] \in Local
      BY <1>1, Two DEF TypeOK, HashTypeOK
    <3>2. CASE StopsBefore(n, new)
      <4>1. at' = [at EXCEPT ![Main].op = "after"]
        BY <1>2, <3>2 DEF InsertWalk
      <4> QED BY <3>1, <3>2, <4>1, Two DEF Local
    <3>3. CASE ~StopsBefore(n, new)
      <4>1. at' = [at EXCEPT ![Main].tmp = n]
        BY <1>2, <3>3 DEF InsertWalk
      <4> QED BY <1>1, <3>1, <3>3, <4>1, Two DEF Local
    <3> QED BY <3>2, <3>3
  <2> HIDE DEF op, to
  <2> QED BY <1>1, <2>1, <2>2, Two DEF TypeOK, HashTypeOK, Local
<1>5. /\ next' = IF StopsBefore(n, new) THEN [next EXCEPT ![new] = n] ELSE next
      /\ fault' = FALSE /\ UNCHANGED <<head, ref, freed>>
  <2>1. n # NULL => n \in Listed
    BY <1>3 DEF FirstAbove
  <2> QED BY <1>2, <2>1 DEF InsertWalk, Linked, Follow
<1>6. TypeOK'
  <2>1. HashTypeOK'
    <3>1. n \in Items \cup {NULL}
      BY <1>1, <1>2, Types
    <3>2. next' \in [Items -> Items \cup {NULL}]
      BY <1>1, <1>2, <1>5, <3>1, Types
    <3> QED BY <1>1, <1>4, <1>5, <3>2 DEF HashTypeOK, TypeOK, Pointers
  <2> QED BY <1>1, <2>1, TableTypes, Types
<1>7. InsertFrame
  BY <1>1, <1>4, <1>5, <1>6 DEF InsertFrame, readerVars
<1>8. NotLinked
  BY <1>1, <1>2, <1>4, <1>5, Types DEF NotLinked, InsertOps
<1>9. Insertion'
  <2>0. Listed' = Listed
    BY <1>7, <1>8, InsertSets
  <2>1. CASE StopsBefore(n, new)
    <3>1. next'[new] = n /\ next'[tmp] = n /\ (n # NULL => Key[n] > Key[new])
      BY <1>1, <1>2, <1>5, <2>1, Types DEF StopsBefore
    <3> QED BY <1>2, <1>4, <2>0, <2>1, <3>1 DEF Insertion
  <2>2. CASE ~StopsBefore(n, new)
    <3>1. n \in Listed /\ Column(n) = Column(new) /\ Key[n] < Key[new]
      BY <1>2, <1>3, <2>2, KeyType DEF StopsBefore, FirstAbove
    <3> QED BY <1>4, <2>0, <2>2, <3>1 DEF Insertion
  <2> QED BY <2>1, <2>2
<1> QED BY <1>7, <1>8, <1>9, InsertRest

LEMMA InsertAfterStep ==
    ASSUME Good, InsertAfter(Main), UNCHANGED <<readerVars, atStart>>,
           members' = IF at'[Main].op = "out" THEN members \cup {at[Main].arg} ELSE members,
           raced' \in BOOLEAN, ~Overlap'
    PROVE  Parts'
<1> DEFINE new == at[Main].arg
           tmp == at[Main].tmp
<1>1. at[Main].op = "after" /\ at[Main].op \in InsertOps /\ TypeOK
  BY DEF InsertAfter, InsertOps, Good, Parts
<1>2. /\ new \in Items \ Listed /\ Column(new) \in Columns /\ Listed \subseteq Items
      /\ tmp \in Listed /\ Column(tmp) = Column(new) /\ Key[tmp] < Key[new]
      /\ next[new] = next[tmp] /\ (next[new] # NULL => Key[next[new]] > Key[new])
      /\ Listed \cap freed = {} /\ tmp # NULL
  BY <1>1, InsertKnows, Live, KeyType DEF Insertion
<1>3. /\ at' = [at EXCEPT ![Main].op = "out"] /\ fault' = FALSE
      /\ next' = [next EXCEPT ![tmp] = new] /\ UNCHANGED <<head, ref, freed>>
  BY <1>2 DEF InsertAfter, Follow
<1>5. /\ at'[Main].op = "out" /\ at'[Main].arg = new
      /\ at'[Main].row = at[Main].row /\ at'[Reader] = at[Reader]
      /\ at' \in [Threads -> Local]
  BY <1>1, <1>3, Two DEF TypeOK, HashTypeOK, Local
<1>6. TypeOK'
  <2>1. HashTypeOK'
    BY <1>1, <1>2, <1>3, <1>5 DEF HashTypeOK, TypeOK, Pointers
  <2>2. members' \subseteq Items
    BY <1>1, <1>2, Types
  <2> QED BY <1>1, <2>1, <2>2, TableTypes
<1>7. InsertFrame
  BY <1>1, <1>3, <1>5, <1>6 DEF InsertFrame, readerVars
<1>8. Linking
  BY <1>2, <1>3, <1>5 DEF Linking
<1>9. Insertion'
  BY <1>5 DEF Insertion
<1> QED BY <1>7, <1>8, <1>9, InsertRest
-----------------------------------------------------------------------------
(***************************************************************************)
(* Removal, on either thread.                                              *)
(***************************************************************************)
\* What is the same after any step of a removal by t.
RemoveFrame(t) ==
    /\ at[t].op \in RemoveOps
    /\ \A u \in Threads : u # t => at'[u] = at[u]
    /\ at'[t].arg = at[t].arg /\ at'[t].row = at[t].row
    /\ at'[t].res = at[t].res /\ at'[t].col = at[t].col
    /\ TypeOK' /\ fault' = FALSE
    /\ UNCHANGED <<doing, epoll, batch, open, closed, running, visited, messages, atStart, members>>

\* The step looks for the item only, takes it out of its column, or frees it.
Looking(t) ==
    /\ at[t].op \notin {"unref", "out"} /\ at'[t].op \in RemoveOps \ {"unref"}
    /\ UNCHANGED <<head, next, ref, freed>>

Unlinking(t) ==
    LET c == at[t].arg
    IN  /\ at[t].op \notin {"unref", "out"} /\ at'[t].op = "unref"
        /\ UNCHANGED <<ref, freed>>
        /\ \/ /\ head[Column(c)] = c /\ head' = [head EXCEPT ![Column(c)] = next[c]]
              /\ next' = next
           \/ \E p \in Listed :
              /\ next[p] = c /\ Column(p) = Column(c)
              /\ head' = head /\ next' = [next EXCEPT ![p] = next[c]]

Freeing(t) ==
    LET c == at[t].arg
    IN  /\ at[t].op = "unref" /\ at'[t].op = "out"
        /\ ref' = [ref EXCEPT ![c] = 0] /\ freed' = freed \cup {c}
        /\ head' = head /\ next' = [next EXCEPT ![c] = NULL]

RemoveStep(t) == Looking(t) \/ Unlinking(t) \/ Freeing(t)

\* While t removes a client, the other thread neither removes nor has a cursor,
\* and t has one only on another client.
LEMMA RemoveKnows ==
    ASSUME Good, NEW t \in Threads, at[t].op \in RemoveOps
    PROVE  LET c == at[t].arg
           IN  /\ doing[t] = "dropping" /\ c \in Items /\ c \in members /\ c \notin closed
               /\ \A u \in Threads : u # t => doing[u] # "dropping" /\ ~Begun(u)
                                              /\ at[u].row = NULL /\ at[u].op # "advance"
               /\ at[t].op # "unref" => c \in Listed
               /\ c \in Leaving({"unref", "out"}) <=> at[t].op = "unref"
               /\ at[t].row # c /\ at[t].op \notin {"out", "advance"}
               /\ Column(c) \in Columns
               /\ t = Reader => doing[Main] \in {"accept", "add", "unjoined"} /\ at[Reader].row = NULL
               /\ t = Main => doing[Reader] \in {"wait", "exited"}
               /\ Removal(t)
<1> DEFINE c == at[t].arg
<1>1. doing[t] = "dropping" /\ Clients /\ Where /\ Removal(t) /\ CursorAt(t) /\ TypeOK
  BY Apart DEF Good, Parts
<1>2. c \in members /\ c \in Items /\ c \notin closed
  BY <1>1, Types DEF Clients
<1>3. /\ t = Reader => doing[Main] \in {"accept", "add", "unjoined"}
      /\ t = Main => doing[Reader] \in {"wait", "exited"}
  BY <1>1, Apart
<1>4. \A u \in Threads : u # t => doing[u] # "dropping" /\ ~Begun(u)
  BY <1>3, Two DEF Begun, Scanning
<1>5. \A u \in Threads : u # t => at[u].row = NULL /\ at[u].op # "advance"
  <2>1. ASSUME NEW u \in Threads, u # t PROVE at[u].row = NULL /\ at[u].op # "advance"
    <3>1. at[u].row = NULL
      BY <1>1, <1>4, <2>1 DEF Where
    <3>2. at[u].op # "advance"
      BY <1>3, <2>1, Apart, Two DEF CursorOps
    <3> QED BY <3>1, <3>2
  <2> QED BY <2>1
<1>6. c \in Leaving({"unref", "out"}) <=> at[t].op = "unref"
  BY <1>1, <1>2, <1>4 DEF Leaving, RemoveOps
<1>7. at[t].op \notin {"out", "advance"}
  BY DEF RemoveOps
<1>8. at[t].row # c /\ (t = Reader => at[Reader].row = NULL)
  <2>1. CASE t = Main
    <3>1. Begun(Main)
      BY <1>1, <2>1 DEF Begun, Scanning, RemoveOps
    <3>2. at[t].res = c /\ c # NULL /\ at[t].op \notin {"next", "advance"}
      BY <1>1, <1>2, <2>1, <3>1, KeyType DEF CursorAt, RemoveOps
    <3>3. at[t].row # NULL => Key[at[t].row] > Key[c]
      BY <1>1, <2>1, <3>1, <3>2 DEF CursorAt
    <3> QED BY <1>2, <2>1, <3>2, <3>3, KeyType, Two
  <2>2. CASE t = Reader
    <3>1. at[t].row = NULL
      BY <1>1, <2>2, Two DEF Where, Begun, Scanning
    <3> QED BY <1>2, <2>2, <3>1, KeyType
  <2> QED BY <2>1, <2>2, Two
<1> QED BY <1>1, <1>2, <1>3, <1>4, <1>5, <1>6, <1>7, <1>8, KeyType DEF Listed

\* The sets of clients after a step of a removal.
LEMMA RemoveSets ==
    ASSUME Good, NEW t \in Threads, RemoveFrame(t), RemoveStep(t)
    PROVE  LET c == at[t].arg
           IN  /\ Entering' = Entering
               /\ Looking(t) => Listed' = Listed /\ Owned' = Owned
                                /\ Leaving({"out"})' = Leaving({"out"})
               /\ Unlinking(t) => c \in Listed /\ Listed' = Listed \ {c} /\ Owned' = Owned
                                  /\ Leaving({"out"})' = Leaving({"out"})
               /\ Freeing(t) => Listed' = Listed /\ c \notin Listed /\ Owned' = Owned \ {c}
                                /\ c \in Owned /\ c \notin Leaving({"out"})
                                /\ Leaving({"out"})' = Leaving({"out"}) \cup {c}
<1> DEFINE c == at[t].arg
<1>1. /\ doing[t] = "dropping" /\ c \in Items /\ c \in members /\ at[t].op \in RemoveOps
      /\ \A u \in Threads : u # t => doing[u] # "dropping"
      /\ at[t].op # "unref" => c \in Listed
      /\ c \in Leaving({"unref", "out"}) <=> at[t].op = "unref"
  BY RemoveKnows DEF RemoveFrame
<1>2. \A u \in Threads : u # t => at'[u] = at[u]
  BY DEF RemoveFrame
<1>3. doing' = doing /\ members' = members /\ at'[t].arg = c
  BY DEF RemoveFrame
<1>4. Entering' = Entering
  <2>1. at[t].op \notin InsertOps /\ at'[t].op \notin InsertOps
    BY <1>1 DEF RemoveOps, InsertOps, RemoveStep, Looking, Unlinking, Freeing
  <2> QED BY <1>2, <2>1, Two DEF Entering
<1>5. \A ops : Leaving(ops) = (IF at[t].op \in ops THEN {c} ELSE {})
  BY <1>1 DEF Leaving
<1>6. \A ops : Leaving(ops)' = (IF at'[t].op \in ops THEN {c} ELSE {})
  BY <1>1, <1>3 DEF Leaving
<1>7. Leaving({"out"}) = {}
  BY <1>1, <1>5 DEF RemoveOps
<1>8. c \notin Entering
  BY <1>1 DEF Good, Parts, Clients
<1>9. ASSUME Looking(t)
      PROVE  Listed' = Listed /\ Owned' = Owned /\ Leaving({"out"})' = Leaving({"out"})
  <2>1. Leaving({"out"})' = {} /\ Leaving({"unref", "out"})' = {} /\ Leaving({"unref", "out"}) = {}
    BY <1>5, <1>6, <1>9 DEF Looking, RemoveOps
  <2> QED BY <1>3, <1>4, <1>7, <2>1 DEF Listed, Owned
<1>10. ASSUME Unlinking(t)
       PROVE  c \in Listed /\ Listed' = Listed \ {c} /\ Owned' = Owned
              /\ Leaving({"out"})' = Leaving({"out"})
  <2>1. Leaving({"out"})' = {} /\ Leaving({"unref", "out"})' = {c} /\ Leaving({"unref", "out"}) = {}
    BY <1>5, <1>6, <1>10 DEF Unlinking
  <2> QED BY <1>1, <1>3, <1>4, <1>7, <2>1 DEF Listed, Owned
<1>11. ASSUME Freeing(t)
       PROVE  /\ Listed' = Listed /\ c \notin Listed /\ Owned' = Owned \ {c} /\ c \in Owned
              /\ c \notin Leaving({"out"}) /\ Leaving({"out"})' = Leaving({"out"}) \cup {c}
  <2>1. Leaving({"out"})' = {c} /\ Leaving({"unref", "out"})' = {c} /\ Leaving({"unref", "out"}) = {c}
    BY <1>5, <1>6, <1>11 DEF Freeing
  <2> QED BY <1>1, <1>3, <1>4, <1>7, <1>8, <2>1 DEF Listed, Owned
<1> QED BY <1>4, <1>9, <1>10, <1>11

LEMMA RemoveChains ==
    ASSUME Good, NEW t \in Threads, RemoveFrame(t), RemoveStep(t)
    PROVE  /\ Chained(Listed', head', next')
           /\ \A c \in Items : Column(c) # Column(at[t].arg) => next'[c] = next[c]
           /\ \A col \in Columns : col # Column(at[t].arg) => head'[col] = head[col]
<1> DEFINE c == at[t].arg
<1>1. Listed \in SUBSET Items /\ Chained(Listed, head, next) /\ c \in Items
  BY Live, RemoveKnows DEF RemoveFrame
<1>2. head \in [Columns -> Pointers] /\ next \in [Items -> Pointers]
  BY DEF Good, Parts, TypeOK, HashTypeOK
<1>3. CASE Looking(t)
  BY <1>1, <1>3, RemoveSets DEF Looking
<1>4. CASE Unlinking(t)
  <2>0. c \in Listed /\ Listed' = Listed \ {c}
    BY <1>4, RemoveSets
  <2>1. CASE head[Column(c)] = c /\ head' = [head EXCEPT ![Column(c)] = next[c]] /\ next' = next
    <3>1. Chained(Listed \ {c}, head', next')
      BY <1>1, <1>2, <2>0, <2>1, UnlinkFirst
    <3> QED BY <1>2, <2>0, <2>1, <3>1
  <2>2. ASSUME NEW p \in Listed, next[p] = c, Column(p) = Column(c),
               head' = head, next' = [next EXCEPT ![p] = next[c]]
        PROVE  /\ Chained(Listed', head', next')
               /\ \A d \in Items : Column(d) # Column(c) => next'[d] = next[d]
               /\ \A col \in Columns : col # Column(c) => head'[col] = head[col]
    <3>1. Chained(Listed \ {c}, head', next')
      BY <1>1, <1>2, <2>0, <2>2, UnlinkAfter
    <3> QED BY <1>1, <1>2, <2>0, <2>2, <3>1
  <2> QED BY <1>4, <2>1, <2>2 DEF Unlinking
<1>5. CASE Freeing(t)
  <2>1. Listed' = Listed /\ c \notin Listed /\ head' = head /\ next' = [next EXCEPT ![c] = NULL]
    BY <1>5, RemoveSets DEF Freeing
  <2>2. \A d \in Items : d # c => next'[d] = next[d]
    BY <1>2, <2>1
  <2>3. Chained(Listed, head, next')
    BY <1>1, <2>1, <2>2, ChainedSame
  <2> QED BY <2>1, <2>2, <2>3
<1> QED BY <1>3, <1>4, <1>5 DEF RemoveStep

LEMMA RemoveClients ==
    ASSUME Good, NEW t \in Threads, RemoveFrame(t), RemoveStep(t)
    PROVE  Where' /\ Clients'
<1> DEFINE c == at[t].arg
<1>1. Where /\ Clients /\ doing[t] = "dropping" /\ c \in members /\ c \notin closed
  BY RemoveKnows DEF Good, Parts, RemoveFrame
<1>2. at'[t].op \in {"out"} \cup RemoveOps
  BY DEF RemoveStep, Looking, Unlinking, Freeing, RemoveOps
<1>3. /\ doing' = doing /\ \A u \in Threads : u # t => at'[u] = at[u]
      /\ at'[t].arg = c /\ at'[t].row = at[t].row
  BY DEF RemoveFrame
<1>4. Where'
  <2>1. \A u \in Threads : Begun(u)' <=> Begun(u)
    <3>1. at[t].op # "cursor" /\ at'[t].op # "cursor"
      BY <1>2 DEF RemoveFrame, RemoveOps
    <3> QED BY <1>3, <3>1 DEF Begun, Scanning
  <2>2. /\ doing[Main] \in {"accept", "join", "unjoined", "free", "stopped"} => at'[Main].op = "out"
        /\ doing[Main] = "add" => at'[Main].op \in {"out"} \cup InsertOps /\ at'[Main].arg \in Items
        /\ doing[Main] = "dropall" => at'[Main].op \in {"out"} \cup CursorOps
    <3>1. t = Main => doing[Main] = "dropping"
      BY <1>1
    <3>2. t # Main => at'[Main] = at[Main]
      BY <1>3, Two
    <3> QED BY <1>1, <3>1, <3>2 DEF Where
  <2>3. /\ doing[Reader] \in {"starting", "wait", "batch", "pong", "exited"} => at'[Reader].op = "out"
        /\ doing[Reader] = "message" => at'[Reader].op \in {"out"} \cup CursorOps
    <3>1. t = Reader => doing[Reader] = "dropping"
      BY <1>1
    <3>2. t # Reader => at'[Reader] = at[Reader]
      BY <1>3, Two
    <3> QED BY <1>1, <3>1, <3>2 DEF Where
  <2>4. \A u \in Threads : doing[u] = "dropping" => at'[u].op \in {"out"} \cup RemoveOps
    BY <1>1, <1>2, <1>3 DEF Where
  <2>5. \A u \in Threads : ~Begun(u)' => at'[u].row = NULL
    BY <1>1, <1>3, <2>1 DEF Where
  <2> QED BY <1>1, <1>3, <2>2, <2>3, <2>4, <2>5 DEF Where, RemoveFrame
<1>5. Clients'
  <2>1. freed' = closed' \cup Leaving({"out"})'
    <3>1. freed = closed \cup Leaving({"out"}) /\ closed' = closed
      BY <1>1 DEF Clients, RemoveFrame
    <3>2. CASE Looking(t) \/ Unlinking(t)
      BY <3>1, <3>2, RemoveSets DEF Looking, Unlinking
    <3>3. CASE Freeing(t)
      BY <3>1, <3>3, RemoveSets DEF Freeing
    <3> QED BY <3>2, <3>3 DEF RemoveStep
  <2>2. freed' \subseteq freed \cup {c} /\ members' = members /\ Entering' = Entering
    BY RemoveSets DEF RemoveStep, Looking, Unlinking, Freeing, RemoveFrame
  <2>3. Entering' \cap (members' \cup freed') = {}
    BY <1>1, <2>2 DEF Clients
  <2>4. \A u \in Threads : doing'[u] = "dropping" => at'[u].arg \in members' \ epoll'
    BY <1>1, <1>3 DEF Clients, RemoveFrame
  <2>5. doing'[Main] = "add" =>
          /\ at'[Main].arg \notin epoll'
          /\ Out(Main)' => at'[Main].arg \in members'
          /\ doing'[Reader] = "dropping" => at'[Reader].arg # at'[Main].arg
    <3> SUFFICES ASSUME doing[Main] = "add"
                 PROVE  /\ at'[Main].arg \notin epoll'
                        /\ Out(Main)' => at'[Main].arg \in members'
                        /\ doing'[Reader] = "dropping" => at'[Reader].arg # at'[Main].arg
      BY <1>3
    <3>1. t = Reader /\ at'[Main] = at[Main] /\ at'[Reader].arg = at[Reader].arg
      BY <1>1, <1>3, Two
    <3> QED BY <1>1, <1>3, <3>1 DEF Clients, RemoveFrame, Out
  <2> QED BY <1>1, <2>1, <2>3, <2>4, <2>5 DEF Clients, RemoveFrame
<1> QED BY <1>4, <1>5

LEMMA RemoveBalanced ==
    ASSUME Good, NEW t \in Threads, RemoveFrame(t), RemoveStep(t)
    PROVE  Balanced'
<1> DEFINE c == at[t].arg
<1>0. Balanced /\ TypeOK
  BY DEF Good, Parts
<1>1. /\ \A u \in Threads : at[u].op # "advance" /\ at'[u].op # "advance"
      /\ \A u \in Threads : at'[u].row = at[u].row
  BY RemoveKnows DEF RemoveFrame, RemoveStep, Looking, Unlinking, Freeing, RemoveOps
<1>2. \A u \in Threads : Held(u)' = Held(u)
  BY <1>1 DEF Held
<1>3. CASE Looking(t) \/ Unlinking(t)
  <2>1. Owned' = Owned /\ ref' = ref
    BY <1>3, RemoveSets DEF Looking, Unlinking
  <2> QED BY <1>0, <1>2, <2>1, Two DEF Balanced
<1>4. CASE Freeing(t)
  <2>1. Owned' = Owned \ {c} /\ c \in Items /\ ref' = [ref EXCEPT ![c] = 0] /\ ref \in [Items -> Int]
    BY <1>0, <1>4, RemoveSets, RemoveKnows, Types DEF Freeing, RemoveFrame
  <2>2. \A u \in Threads : c \notin Held(u)
    BY <1>1, RemoveKnows, KeyType DEF Held, RemoveFrame
  <2>3. ASSUME NEW d \in Items
        PROVE  ref'[d] = Bit(d \in Owned') + Bit(d \in Held(Main)') + Bit(d \in Held(Reader)')
    BY <1>0, <1>2, <2>1, <2>2, Two DEF Balanced, Bit
  <2> QED BY <2>3 DEF Balanced
<1> QED BY <1>3, <1>4 DEF RemoveStep

\* What the threads know of the columns, but for the step's own part.
LEMMA RemoveBeside ==
    ASSUME Good, NEW t \in Threads, RemoveFrame(t), RemoveStep(t)
    PROVE  /\ \A u \in Threads : CursorAt(u)' /\ (u # t => Removal(u)')
           /\ DropsAll' /\ Visits' /\ Insertion'
<1> DEFINE c == at[t].arg
<1>1. /\ doing[t] = "dropping" /\ doing' = doing
      /\ \A u \in Threads : u # t => doing[u] # "dropping" /\ ~Begun(u) /\ at'[u] = at[u]
      /\ t = Reader => doing[Main] \in {"accept", "add", "unjoined"}
      /\ t = Main => doing[Reader] \in {"wait", "exited"}
  BY RemoveKnows DEF RemoveFrame
<1>2. \A u \in Threads : u # t => CursorAt(u)' /\ Removal(u)'
  BY <1>1 DEF CursorAt, Removal, Begun, Scanning
<1>3. Listed' \subseteq Listed
  BY RemoveSets DEF RemoveStep
<1>4. \A d \in Listed : d # c => d \in Listed'
  BY RemoveSets DEF RemoveStep
<1>5. at'[t].op \in {"out"} \cup RemoveOps
  BY DEF RemoveStep, Looking, Unlinking, Freeing, RemoveOps
<1>6. CASE t = Main
  <2>1. Begun(Main) /\ CursorAt(Main) /\ DropsAll
    BY <1>1, <1>6, Two DEF Good, Parts, Begun, Scanning, RemoveFrame, RemoveOps
  <2>2. /\ at'[Main].row = at[Main].row /\ at'[Main].res = at[Main].res
        /\ at'[Main].col = at[Main].col /\ at'[Main].arg = at[Main].arg
        /\ at[Main].op \notin {"next", "advance"} /\ at'[Main].op \notin {"next", "advance"}
    BY <1>5, <1>6 DEF RemoveFrame, RemoveOps
  <2>3. at[Main].row # c
    BY <1>6, RemoveKnows DEF RemoveFrame
  <2>4. CursorAt(Main)'
    BY <1>1, <1>4, <1>6, <2>1, <2>2, <2>3 DEF CursorAt
  <2>5. DropsAll'
    BY <1>3, <2>1, <2>2 DEF DropsAll, Ahead
  <2>6. Visits' /\ Insertion'
    BY <1>1, <1>5, <1>6 DEF Visits, Insertion, RemoveOps
  <2> QED BY <1>2, <1>6, <2>4, <2>5, <2>6
<1>7. CASE t = Reader
  <2>1. ~Begun(Main)' /\ ~Begun(Reader)'
    BY <1>1, <1>7, Two DEF Begun, Scanning
  <2>2. CursorAt(Reader)' /\ DropsAll' /\ Visits'
    BY <1>1, <1>7, <2>1 DEF CursorAt, DropsAll, Visits
  <2>3. Insertion'
    <3> DEFINE new == at[Main].arg
    <3>1. at'[Main] = at[Main] /\ Insertion
      BY <1>1, <1>7, Two DEF Good, Parts
    <3>2. CASE at[Main].op \in InsertOps
      <4>1. /\ new \in Items /\ new \notin Listed /\ Column(new) \in Columns
            /\ head[Column(new)] # NULL => head[Column(new)] \in Items
        BY <3>2, InsertKnows, Live
      <4>2. Column(c) # Column(new)
        BY <1>7, <3>2, <4>1 DEF Good, Overlap, Inserting, Removing, RemoveFrame
      <4>3. next'[new] = next[new] /\ head'[Column(new)] = head[Column(new)]
        BY <4>1, <4>2, RemoveChains
      <4>4. \A d \in Listed : Column(d) = Column(new) => d \in Listed' /\ next'[d] = next[d]
        BY <1>4, <4>2, RemoveChains, Live
      <4> QED BY <3>1, <4>3, <4>4 DEF Insertion
    <3>3. CASE at[Main].op \notin InsertOps
      BY <3>1, <3>3 DEF Insertion, InsertOps
    <3> QED BY <3>2, <3>3
  <2> QED BY <1>2, <1>7, <2>2, <2>3
<1> QED BY <1>6, <1>7, Two

LEMMA RemoveRest ==
    ASSUME Good, NEW t \in Threads, RemoveFrame(t), RemoveStep(t), Removal(t)'
    PROVE  Parts'
<1>1. TypeOK' /\ ~fault' /\ Chained(Listed', head', next')
  BY RemoveChains DEF RemoveFrame
<1>2. \A u \in Threads : Removal(u)' /\ CursorAt(u)'
  BY RemoveBeside
<1>3. Opened'
  BY OpenedSame DEF RemoveFrame
<1> QED BY <1>1, <1>2, <1>3, RemoveClients, RemoveBalanced, RemoveBeside DEF Parts
-----------------------------------------------------------------------------
\* The effect on a thread's own state of a step that moves op, tmp and nxt only.
LEMMA MovesOp ==
    ASSUME TypeOK, NEW t \in Threads,
           NEW op \in {"out"} \cup InsertOps \cup RemoveOps \cup CursorOps,
           NEW tmp \in Pointers, NEW nxt \in Pointers,
           \/ at' = [at EXCEPT ![t].op = op] /\ tmp = at[t].tmp /\ nxt = at[t].nxt
           \/ at' = [at EXCEPT ![t].op = op, ![t].tmp = tmp] /\ nxt = at[t].nxt
           \/ at' = [at EXCEPT ![t].tmp = tmp] /\ op = at[t].op /\ nxt = at[t].nxt
           \/ at' = [at EXCEPT ![t].op = op, ![t].nxt = nxt] /\ tmp = at[t].tmp
    PROVE  /\ at' \in [Threads -> Local]
           /\ \A u \in Threads : u # t => at'[u] = at[u]
           /\ at'[t].op = op /\ at'[t].tmp = tmp /\ at'[t].nxt = nxt
           /\ at'[t].arg = at[t].arg /\ at'[t].row = at[t].row
           /\ at'[t].res = at[t].res /\ at'[t].col = at[t].col
<1>1. at \in [Threads -> Local] /\ at[t] \in Local
  BY DEF TypeOK, HashTypeOK
<1> QED BY <1>1 DEF Local

LEMMA RemoveBeginStep ==
    ASSUME Good, NEW t \in Threads, RemoveBegin(t), UNCHANGED <<members, readerVars, atStart>>,
           raced' \in BOOLEAN
    PROVE  Parts'
<1> DEFINE c     == at[t].arg
           first == head[Column(c)]
           op    == IF first = c THEN "unhead" ELSE "find"
           tmp   == IF first = c THEN at[t].tmp ELSE first
           nxt   == IF first = c THEN next[c] ELSE at[t].nxt
<1>1. at[t].op = "remove" /\ at[t].op \in RemoveOps /\ TypeOK
  BY DEF RemoveBegin, RemoveOps, Good, Parts
<1>2. doing[t] = "dropping" /\ c \in Items /\ Column(c) \in Columns /\ c \in Listed
  BY <1>1, RemoveKnows
<1>3. FirstAbove(Listed, Column(c), -1, first) /\ Listed \subseteq Items /\ Listed \cap freed = {}
  BY <1>2, Live DEF Chained
<1>4. first # NULL /\ first \in Listed /\ Column(first) = Column(c) /\ Key[first] <= Key[c]
  BY <1>2, <1>3, KeyType DEF FirstAbove
<1>5. first # c => Key[first] < Key[c]
  BY <1>2, <1>3, <1>4, KeyType
<1>6. fault' = FALSE /\ UNCHANGED <<head, next, ref, freed>>
  BY <1>3, <1>4 DEF RemoveBegin, Follow
<1>7. \/ at' = [at EXCEPT ![t].op = op, ![t].nxt = nxt] /\ tmp = at[t].tmp
      \/ at' = [at EXCEPT ![t].op = op, ![t].tmp = tmp] /\ nxt = at[t].nxt
  <2>1. ~ (first = NULL \/ Key[first] > Key[c])
    BY <1>2, <1>3, <1>4, KeyType
  <2> QED BY <2>1 DEF RemoveBegin
<1>8. /\ op \in RemoveOps \ {"unref"} /\ tmp \in Pointers /\ nxt \in Pointers
      /\ op \in {"out"} \cup InsertOps \cup RemoveOps \cup CursorOps
  <2>1. at[t].tmp \in Pointers /\ at[t].nxt \in Pointers /\ next[c] \in Pointers
    BY <1>1, <1>2, Fields, Types DEF Pointers
  <2> QED BY <1>3, <1>4, <2>1 DEF RemoveOps, Pointers
<1>9. /\ at' \in [Threads -> Local] /\ \A u \in Threads : u # t => at'[u] = at[u]
      /\ at'[t].op = op /\ at'[t].tmp = tmp /\ at'[t].nxt = nxt
      /\ at'[t].arg = c /\ at'[t].row = at[t].row
      /\ at'[t].res = at[t].res /\ at'[t].col = at[t].col
  <2> HIDE DEF op, tmp, nxt
  <2> QED BY <1>1, <1>7, <1>8, MovesOp
<1>10. TypeOK'
  <2>1. HashTypeOK'
    BY <1>1, <1>6, <1>9 DEF HashTypeOK, TypeOK
  <2> QED BY <1>1, <2>1, TableTypes, Types
<1>11. RemoveFrame(t) /\ RemoveStep(t)
  BY <1>1, <1>6, <1>8, <1>9, <1>10 DEF RemoveFrame, RemoveStep, Looking, readerVars
<1>12. Removal(t)'
  <2>1. Listed' = Listed
    BY <1>1, <1>6, <1>8, <1>9, <1>11, RemoveSets DEF Looking
  <2> QED BY <1>4, <1>5, <1>6, <1>9, <2>1 DEF Removal
<1> QED BY <1>11, <1>12, RemoveRest

LEMMA RemoveHeadStep ==
    ASSUME Good, NEW t \in Threads, RemoveHead(t), UNCHANGED <<members, readerVars, atStart>>,
           raced' \in BOOLEAN
    PROVE  Parts'
<1> DEFINE c == at[t].arg
<1>1. at[t].op = "unhead" /\ at[t].op \in RemoveOps /\ TypeOK
  BY DEF RemoveHead, RemoveOps, Good, Parts
<1>2. c \in Items /\ Column(c) \in Columns /\ head[Column(c)] = c /\ at[t].nxt = next[c]
  BY <1>1, RemoveKnows DEF Removal
<1>3. /\ at' = [at EXCEPT ![t].op = "unref"] /\ head' = [head EXCEPT ![Column(c)] = next[c]]
      /\ UNCHANGED <<next, ref, freed>> /\ fault' = FALSE
  BY <1>2 DEF RemoveHead, Good, Parts
<1>4. /\ at' \in [Threads -> Local] /\ \A u \in Threads : u # t => at'[u] = at[u]
      /\ at'[t].op = "unref" /\ at'[t].arg = c /\ at'[t].row = at[t].row
      /\ at'[t].res = at[t].res /\ at'[t].col = at[t].col
  <2>1. at[t].tmp \in Pointers /\ at[t].nxt \in Pointers /\ "unref" \in RemoveOps
    BY <1>1, Fields DEF Pointers, RemoveOps
  <2> QED BY <1>1, <1>3, <2>1, MovesOp
<1>5. TypeOK'
  <2>1. HashTypeOK'
    BY <1>1, <1>2, <1>3, <1>4 DEF HashTypeOK, TypeOK
  <2> QED BY <1>1, <2>1, TableTypes, Types
<1>6. RemoveFrame(t) /\ RemoveStep(t)
  BY <1>1, <1>2, <1>3, <1>4, <1>5 DEF RemoveFrame, RemoveStep, Unlinking, readerVars
<1>7. Removal(t)'
  BY <1>4 DEF Removal
<1> QED BY <1>6, <1>7, RemoveRest

LEMMA RemoveFindStep ==
    ASSUME Good, NEW t \in Threads, RemoveFind(t), UNCHANGED <<members, readerVars, atStart>>,
           raced' \in BOOLEAN
    PROVE  Parts'
<1> DEFINE c   == at[t].arg
           n   == next[at[t].tmp]
           op  == IF n = c THEN "unlink" ELSE "find"
           tmp == IF n = c THEN at[t].tmp ELSE n
           nxt == IF n = c THEN next[c] ELSE at[t].nxt
<1>1. at[t].op = "find" /\ at[t].op \in RemoveOps /\ TypeOK
  BY DEF RemoveFind, RemoveOps, Good, Parts
<1>2. /\ doing[t] = "dropping" /\ c \in Items /\ c \in Listed
      /\ at[t].tmp \in Listed /\ Column(at[t].tmp) = Column(c) /\ Key[at[t].tmp] < Key[c]
  BY <1>1, RemoveKnows DEF Removal
<1>3. /\ FirstAbove(Listed, Column(c), Key[at[t].tmp], n) /\ Listed \subseteq Items
      /\ Listed \cap freed = {}
  BY <1>2, Live DEF Chained
<1>4. n # NULL /\ n \in Listed /\ Column(n) = Column(c) /\ Key[n] <= Key[c]
  BY <1>2, <1>3, KeyType DEF FirstAbove
<1>5. n # c => Key[n] < Key[c]
  BY <1>2, <1>3, <1>4, KeyType
<1>6. fault' = FALSE /\ UNCHANGED <<head, next, ref, freed>>
  BY <1>2, <1>3, <1>4, KeyType DEF RemoveFind, Follow
<1>7. \/ at' = [at EXCEPT ![t].op = op, ![t].nxt = nxt] /\ tmp = at[t].tmp
      \/ at' = [at EXCEPT ![t].tmp = tmp] /\ op = at[t].op /\ nxt = at[t].nxt
  <2>1. n # c => n # NULL /\ Key[n] < Key[c]
    BY <1>4, <1>5
  <2> QED BY <1>1, <2>1 DEF RemoveFind
<1>8. /\ op \in RemoveOps \ {"unref"} /\ tmp \in Pointers /\ nxt \in Pointers
      /\ op \in {"out"} \cup InsertOps \cup RemoveOps \cup CursorOps
  <2>1. at[t].tmp \in Pointers /\ at[t].nxt \in Pointers /\ next[c] \in Pointers
    BY <1>1, <1>2, Fields, Types DEF Pointers
  <2> QED BY <1>3, <1>4, <2>1 DEF RemoveOps, Pointers
<1>9. /\ at' \in [Threads -> Local] /\ \A u \in Threads : u # t => at'[u] = at[u]
      /\ at'[t].op = op /\ at'[t].tmp = tmp /\ at'[t].nxt = nxt
      /\ at'[t].arg = c /\ at'[t].row = at[t].row
      /\ at'[t].res = at[t].res /\ at'[t].col = at[t].col
  <2> HIDE DEF op, tmp, nxt
  <2> QED BY <1>1, <1>7, <1>8, MovesOp
<1>10. TypeOK'
  <2>1. HashTypeOK'
    BY <1>1, <1>6, <1>9 DEF HashTypeOK, TypeOK
  <2> QED BY <1>1, <2>1, TableTypes, Types
<1>11. RemoveFrame(t) /\ RemoveStep(t)
  BY <1>1, <1>6, <1>8, <1>9, <1>10 DEF RemoveFrame, RemoveStep, Looking, readerVars
<1>12. Removal(t)'
  <2>1. Listed' = Listed
    BY <1>1, <1>6, <1>8, <1>9, <1>11, RemoveSets DEF Looking
  <2> QED BY <1>2, <1>4, <1>5, <1>6, <1>9, <2>1 DEF Removal
<1> QED BY <1>11, <1>12, RemoveRest

LEMMA RemoveUnlinkStep ==
    ASSUME Good, NEW t \in Threads, RemoveUnlink(t), UNCHANGED <<members, readerVars, atStart>>,
           raced' \in BOOLEAN
    PROVE  Parts'
<1> DEFINE c == at[t].arg
           p == at[t].tmp
<1>1. at[t].op = "unlink" /\ at[t].op \in RemoveOps /\ TypeOK
  BY DEF RemoveUnlink, RemoveOps, Good, Parts
<1>2. /\ c \in Items /\ p \in Listed /\ Column(p) = Column(c) /\ next[p] = c
      /\ at[t].nxt = next[c] /\ p \in Items /\ p \notin freed
  BY <1>1, RemoveKnows, Live DEF Removal
<1>3. /\ at' = [at EXCEPT ![t].op = "unref"] /\ next' = [next EXCEPT ![p] = next[c]]
      /\ UNCHANGED <<head, ref, freed>> /\ fault' = FALSE
  BY <1>2, KeyType DEF RemoveUnlink, Follow
<1>4. /\ at' \in [Threads -> Local] /\ \A u \in Threads : u # t => at'[u] = at[u]
      /\ at'[t].op = "unref" /\ at'[t].arg = c /\ at'[t].row = at[t].row
      /\ at'[t].res = at[t].res /\ at'[t].col = at[t].col
  <2>1. at[t].tmp \in Pointers /\ at[t].nxt \in Pointers /\ "unref" \in RemoveOps
    BY <1>1, Fields DEF Pointers, RemoveOps
  <2> QED BY <1>1, <1>3, <2>1, MovesOp
<1>5. TypeOK'
  <2>1. HashTypeOK'
    BY <1>1, <1>2, <1>3, <1>4 DEF HashTypeOK, TypeOK
  <2> QED BY <1>1, <2>1, TableTypes, Types
<1>6. RemoveFrame(t) /\ RemoveStep(t)
  BY <1>1, <1>2, <1>3, <1>4, <1>5 DEF RemoveFrame, RemoveStep, Unlinking, readerVars
<1>7. Removal(t)'
  BY <1>4 DEF Removal
<1> QED BY <1>6, <1>7, RemoveRest

LEMMA RemoveUnrefStep ==
    ASSUME Good, NEW t \in Threads, RemoveUnref(t), UNCHANGED <<members, readerVars, atStart>>,
           raced' \in BOOLEAN
    PROVE  Parts'
<1> DEFINE c == at[t].arg
<1>1. at[t].op = "unref" /\ at[t].op \in RemoveOps /\ TypeOK /\ Balanced
  BY DEF RemoveUnref, RemoveOps, Good, Parts
<1>2. /\ c \in Items /\ c \in members /\ doing[t] = "dropping" /\ at[t].row # c
      /\ \A u \in Threads : u # t => doing[u] # "dropping" /\ at[u].row = NULL
                                     /\ at[u].op # "advance"
  BY <1>1, RemoveKnows
<1>3. c \in Owned /\ c \notin freed
  <2>1. c \notin Leaving({"out"})
    BY <1>1, <1>2 DEF Leaving
  <2> QED BY <1>2, <2>1, Live DEF Owned
<1>4. ref[c] = 1
  <2>1. \A u \in Threads : c \notin Held(u)
    BY <1>1, <1>2, KeyType DEF Held
  <2> QED BY <1>1, <1>2, <1>3, <2>1, Two DEF Balanced, Bit
<1>5. /\ at' = [at EXCEPT ![t].op = "out"] /\ fault' = FALSE /\ head' = head
      /\ ref' = [ref EXCEPT ![c] = 0] /\ freed' = freed \cup {c} /\ next' = [next EXCEPT ![c] = NULL]
  <2>1. fault' = FALSE
    BY <1>2, <1>3, KeyType DEF RemoveUnref, Follow
  <2>2. ref' = [ref EXCEPT ![c] = 0]
    <3>1. ref' = [ref EXCEPT ![c] = ref[c] - 1]
      BY DEF RemoveUnref, Unref
    <3> QED BY <1>4, <3>1
  <2> QED BY <1>4, <2>1, <2>2 DEF RemoveUnref, Unref
<1>6. /\ at' \in [Threads -> Local] /\ \A u \in Threads : u # t => at'[u] = at[u]
      /\ at'[t].op = "out" /\ at'[t].arg = c /\ at'[t].row = at[t].row
      /\ at'[t].res = at[t].res /\ at'[t].col = at[t].col
  <2>1. at[t].tmp \in Pointers /\ at[t].nxt \in Pointers
    BY <1>1, Fields DEF Pointers
  <2> QED BY <1>1, <1>5, <2>1, MovesOp
<1>7. TypeOK'
  <2>1. next' \in [Items -> Items \cup {NULL}] /\ ref' \in [Items -> Int] /\ freed' \subseteq Items
    BY <1>1, <1>2, <1>5, Types
  <2>2. HashTypeOK'
    BY <1>1, <1>5, <1>6, <2>1 DEF HashTypeOK, TypeOK, Pointers
  <2> QED BY <1>1, <2>2, TableTypes, Types
<1>8. RemoveFrame(t) /\ RemoveStep(t)
  BY <1>1, <1>5, <1>6, <1>7 DEF RemoveFrame, RemoveStep, Freeing, readerVars
<1>9. Removal(t)'
  BY <1>6 DEF Removal
<1> QED BY <1>8, <1>9, RemoveRest
-----------------------------------------------------------------------------
(***************************************************************************)
(* A cursor: of the reader thread, for a message, or of the main thread,   *)
(* to drop all clients.                                                    *)
(***************************************************************************)
CursorFrame(t) ==
    /\ at[t].op \in CursorOps
    /\ \A u \in Threads : u # t => at'[u] = at[u]
    /\ at'[t].op \in {"next", "advance", "out"}
    /\ TypeOK' /\ fault' = FALSE
    /\ UNCHANGED <<head, next, freed, doing, epoll, batch, open, closed, running, visited, messages,
                   atStart, members>>

\* c is yet to be returned by the cursor of t, or has just been.
Covers(t, c) == Ahead(t, c) \/ (at[t].op \notin {"next", "advance"} /\ c = at[t].res)

LEMMA CursorKnows ==
    ASSUME Good, NEW t \in Threads, at[t].op \in CursorOps
    PROVE  /\ Scanning(t) /\ doing[t] # "dropping"
           /\ \A u \in Threads : doing[u] # "dropping"
           /\ \A u \in Threads : u # t => ~Begun(u) /\ ~Scanning(u) /\ at[u].row = NULL
                                          /\ at[u].op # "advance"
           /\ t = Reader => doing[Reader] = "message" /\ doing[Main] \in {"accept", "add", "unjoined"}
           /\ t = Main => doing[Main] = "dropall" /\ doing[Reader] \in {"wait", "exited"}
           /\ Listed = members /\ CursorAt(t) /\ at[t].row \in Listed \cup {NULL}
           /\ at[t].op \notin InsertOps
<1>1. /\ doing[t] = IF t = Main THEN "dropall" ELSE "message"
      /\ Where /\ CursorAt(t)
  BY Apart DEF Good, Parts
<1>2. /\ t = Reader => doing[Reader] = "message" /\ doing[Main] \in {"accept", "add", "unjoined"}
      /\ t = Main => doing[Main] = "dropall" /\ doing[Reader] \in {"wait", "exited"}
  BY <1>1, Apart, Two
<1>3. /\ \A u \in Threads : doing[u] # "dropping"
      /\ \A u \in Threads : u # t => ~Begun(u) /\ ~Scanning(u)
      /\ Scanning(t)
  BY <1>2, Two DEF Begun, Scanning
<1>4. \A u \in Threads : u # t => at[u].row = NULL /\ at[u].op # "advance"
  <2>1. ASSUME NEW u \in Threads, u # t PROVE at[u].row = NULL /\ at[u].op # "advance"
    <3>1. at[u].row = NULL
      BY <1>1, <1>3, <2>1 DEF Where
    <3>2. at[u].op # "advance"
      BY <1>2, <2>1, Apart, Two DEF CursorOps
    <3> QED BY <3>1, <3>2
  <2> QED BY <2>1
<1>5. Listed = members
  BY <1>3 DEF Listed, Leaving
<1>6. at[t].row \in Listed \cup {NULL}
  BY <1>1 DEF Where, CursorAt
<1> QED BY <1>1, <1>2, <1>3, <1>4, <1>5, <1>6 DEF CursorOps, InsertOps

LEMMA CursorRest ==
    ASSUME Good, NEW t \in Threads, CursorFrame(t), Balanced', CursorAt(t)',
           t = Main => DropsAll', t = Reader => Visits'
    PROVE  /\ Parts'
<1>1. /\ \A u \in Threads : doing[u] # "dropping" /\ doing'[u] # "dropping"
      /\ \A u \in Threads : u # t => ~Begun(u) /\ ~Begun(u)' /\ at[u].row = NULL /\ at'[u] = at[u]
      /\ doing' = doing
      /\ t = Reader => doing[Reader] = "message" /\ doing[Main] \in {"accept", "add", "unjoined"}
      /\ t = Main => doing[Main] = "dropall" /\ doing[Reader] \in {"wait", "exited"}
      /\ at[t].op \notin InsertOps /\ at'[t].op \notin InsertOps /\ at'[t].op # "cursor"
  BY CursorKnows DEF CursorFrame, Begun, Scanning, InsertOps
<1>2. Where /\ Clients /\ Insertion
  BY DEF Good, Parts
<1>3. /\ \A ops : Leaving(ops)' = Leaving(ops)
      /\ Entering' = Entering
  BY <1>1, Two DEF Leaving, Entering
<1>4. Listed' = Listed
  BY <1>3 DEF Listed, CursorFrame
<1>5. Chained(Listed', head', next')
  BY <1>4, Live DEF CursorFrame
<1>6. \A u \in Threads : Removal(u)' /\ CursorAt(u)'
  BY <1>1 DEF Removal, CursorAt
<1>7. DropsAll' /\ Visits'
  BY <1>1, Two DEF DropsAll, Visits
<1>8. Insertion'
  <2>1. CASE t = Main
    BY <1>1, <2>1 DEF Insertion, InsertOps
  <2>2. CASE t = Reader
    BY <1>1, <1>2, <1>4, <2>2, Two DEF Insertion, CursorFrame
  <2> QED BY <2>1, <2>2, Two
<1>9. Clients'
  <2>1. doing'[Main] = "add" =>
          /\ at'[Main].arg \notin epoll'
          /\ Out(Main)' => at'[Main].arg \in members'
    <3>1. doing[Main] = "add" => at'[Main] = at[Main]
      BY <1>1, Two
    <3> QED BY <1>1, <1>2, <3>1 DEF Clients, CursorFrame, Out
  <2> QED BY <1>1, <1>2, <1>3, <2>1, Two DEF Clients, CursorFrame
<1>10. Where'
  <2>1. Begun(t)'
    BY <1>1, CursorKnows DEF Begun, Scanning, CursorFrame
  <2>2. \A u \in Threads : ~Begun(u)' => at'[u].row = NULL
    BY <1>1, <2>1
  <2>3. at'[t].op \in {"out"} \cup CursorOps
    BY DEF CursorFrame, CursorOps
  <2> QED BY <1>1, <1>2, <2>2, <2>3, Two DEF Where, CursorFrame
<1>11. Opened'
  BY <1>1, OpenedSame DEF CursorFrame
<1> QED BY <1>5, <1>6, <1>7, <1>8, <1>9, <1>10, <1>11 DEF Parts, CursorFrame

\* Where the cursor of t has begun, what it covers and what it has passed stays so;
\* the rest of DropsAll and Visits follows.
LEMMA CursorCovers ==
    ASSUME Good, NEW t \in Threads, CursorFrame(t),
           \A c \in Listed : (Begun(t) => Covers(t, c)) => Covers(t, c)',
           \A c \in Listed : Begun(t) /\ Behind(t, c) => Behind(t, c)',
           \A c \in Listed : Begun(t) /\ Behind(t, c) /\ at'[t].op = "out" /\ at'[t].res # NULL =>
                Before(c, at'[t].res)
    PROVE  (t = Main => DropsAll') /\ (t = Reader => Visits')
<1>1. /\ \A u \in Threads : doing[u] # "dropping"
      /\ t = Reader => doing[Reader] = "message" /\ doing[Main] \in {"accept", "add", "unjoined"}
      /\ t = Main => doing[Main] = "dropall" /\ doing[Reader] \in {"wait", "exited"}
      /\ Listed = members /\ Scanning(t) /\ open \subseteq Listed
  BY CursorKnows, OpenListed DEF CursorFrame
<1>2. Listed' = Listed
  <2>1. Leaving({"unref", "out"}) = {} /\ Leaving({"unref", "out"})' = {}
    BY <1>1 DEF Leaving, CursorFrame
  <2> QED BY <2>1 DEF Listed, CursorFrame
<1>3. ASSUME t = Main PROVE DropsAll'
  <2>1. Begun(Main) => \A c \in Listed : Covers(Main, c)
    BY DEF Good, Parts, DropsAll, Covers
  <2>2. \A c \in Listed : Covers(Main, c)'
    BY <1>3, <2>1
  <2> QED BY <1>2, <2>2 DEF DropsAll, Covers
<1>4. ASSUME t = Reader PROVE Visits'
  <2>1. Visits /\ doing' = doing /\ visited' = visited /\ atStart' = atStart /\ open' = open
    BY DEF Good, Parts, CursorFrame
  <2>2. Begun(Reader) <=> at[Reader].op # "cursor"
    BY <1>1, <1>4 DEF Begun
  <2>3. at[Reader].op \in {"cursor", "next", "advance"} /\ at'[Reader].op \in {"next", "advance", "out"}
    BY <1>4 DEF CursorFrame, CursorOps
  <2>4. \A i \in DOMAIN visited : visited[i] \in Listed
    BY <1>1, <1>4, <2>1 DEF Visits
  <2>5. \A i \in DOMAIN visited : Behind(Reader, visited[i])'
    <3>1. CASE at[Reader].op = "cursor"
      BY <1>1, <1>4, <2>1, <3>1 DEF Visits
    <3>2. CASE at[Reader].op # "cursor"
      <4>1. \A i \in DOMAIN visited : Behind(Reader, visited[i])
        BY <1>1, <1>4, <2>1, <3>2 DEF Visits
      <4>2. ASSUME NEW i \in DOMAIN visited PROVE Behind(Reader, visited[i])'
        <5>1. visited[i] \in Listed /\ Behind(Reader, visited[i]) /\ visited'[i] = visited[i]
          BY <2>1, <2>4, <4>1
        <5> QED BY <1>4, <2>1, <2>2, <3>2, <5>1 DEF Behind
      <4> QED BY <4>2
    <3> QED BY <3>1, <3>2
  <2>6. ASSUME at'[Reader].op = "out", at'[Reader].res # NULL, NEW i \in DOMAIN visited
        PROVE  Before(visited[i], at'[Reader].res)
    <3>1. CASE at[Reader].op = "cursor"
      BY <1>1, <1>4, <2>1, <2>6, <3>1 DEF Visits
    <3>2. CASE at[Reader].op # "cursor"
      <4>1. Behind(Reader, visited[i])
        BY <1>1, <1>4, <2>1, <3>2 DEF Visits
      <4> QED BY <1>4, <2>2, <2>4, <2>6, <3>2, <4>1
    <3> QED BY <3>1, <3>2
  <2>7. ASSUME NEW c \in atStart
        PROVE  \/ Ahead(Reader, c)' \/ (at'[Reader].op = "out" /\ c = at'[Reader].res)
               \/ \E i \in DOMAIN visited : visited[i] = c
    <3>1. c \in Listed
      BY <1>1, <1>4, <2>1 DEF Visits
    <3>2. CASE \E i \in DOMAIN visited : visited[i] = c
      BY <3>2
    <3>3. CASE ~ \E i \in DOMAIN visited : visited[i] = c
      <4>1. Begun(Reader) => Covers(Reader, c)
        BY <1>1, <1>4, <2>1, <2>2, <2>3, <3>3 DEF Visits, Covers
      <4>2. Covers(Reader, c)'
        BY <1>4, <3>1, <4>1
      <4> QED BY <2>3, <4>2 DEF Covers
    <3> QED BY <3>2, <3>3
  <2>8. atStart' = open' /\ (\A i \in DOMAIN visited' : visited'[i] \in open')
    BY <1>1, <1>4, <2>1 DEF Visits
  <2>9. \A i, j \in DOMAIN visited' : visited'[i] = visited'[j] => i = j
    BY <1>1, <1>4, <2>1 DEF Visits
  <2> QED BY <2>1, <2>3, <2>5, <2>6, <2>7, <2>8, <2>9 DEF Visits
<1> QED BY <1>3, <1>4
-----------------------------------------------------------------------------
\* The frame of a step of a cursor that follows no bad pointer and frees nothing.
LEMMA CursorFrames ==
    ASSUME Good, NEW t \in Threads, at[t].op \in CursorOps,
           at' \in [Threads -> Local], \A u \in Threads : u # t => at'[u] = at[u],
           at'[t].op \in {"next", "advance", "out"}, fault' = FALSE, ref' \in [Items -> Int],
           UNCHANGED <<head, next, freed>>,
           UNCHANGED <<members, readerVars, atStart>>, raced' \in BOOLEAN
    PROVE  CursorFrame(t)
<1>1. TypeOK
  BY DEF Good, Parts
<1>2. HashTypeOK'
  BY <1>1 DEF TypeOK, HashTypeOK
<1>3. TypeOK'
  BY <1>1, <1>2, TableTypes, Types
<1> QED BY <1>3 DEF CursorFrame, readerVars

\* The references follow what the cursor holds.
LEMMA CursorBalanced ==
    ASSUME Good, NEW t \in Threads, CursorFrame(t),
           \A c \in Items : ref'[c] - Bit(c \in Held(t)') = ref[c] - Bit(c \in Held(t))
    PROVE  Balanced'
<1>1. /\ \A u \in Threads : doing[u] # "dropping" /\ doing'[u] # "dropping"
      /\ \A u \in Threads : u # t => at'[u] = at[u] /\ at[u].row = NULL /\ at[u].op # "advance"
      /\ at[t].op \notin InsertOps /\ at'[t].op \notin InsertOps
  BY CursorKnows DEF CursorFrame, InsertOps
<1>2. Owned' = Owned
  <2>1. \A ops : Leaving(ops)' = {} /\ Leaving(ops) = {}
    BY <1>1 DEF Leaving
  <2>2. Entering' = Entering
    BY <1>1, Two DEF Entering
  <2> QED BY <2>1, <2>2 DEF Owned, CursorFrame
<1>3. \A u \in Threads : u # t => Held(u)' = Held(u)
  BY <1>1 DEF Held
<1>4. Balanced /\ ref \in [Items -> Int] /\ ref' \in [Items -> Int]
  BY Types DEF Good, Parts, CursorFrame, TypeOK, HashTypeOK
<1>5. ASSUME NEW c \in Items
      PROVE  ref'[c] = Bit(c \in Owned') + Bit(c \in Held(Main)') + Bit(c \in Held(Reader)')
  <2>1. \A S : Bit(c \in S) \in Int
    BY DEF Bit
  <2>2. ref[c] = Bit(c \in Owned) + Bit(c \in Held(Main)) + Bit(c \in Held(Reader))
    BY <1>4 DEF Balanced
  <2>3. ref'[c] - Bit(c \in Held(t)') = ref[c] - Bit(c \in Held(t))
    OBVIOUS
  <2>4. ref[c] \in Int /\ ref'[c] \in Int
    BY <1>4
  <2>5. CASE t = Main
    <3>1. Held(Reader)' = Held(Reader)
      BY <1>3, <2>5, Two
    <3> HIDE DEF Bit
    <3> QED BY <1>2, <2>1, <2>2, <2>3, <2>4, <2>5, <3>1
  <2>6. CASE t = Reader
    <3>1. Held(Main)' = Held(Main)
      BY <1>3, <2>6, Two
    <3> QED BY <1>2, <2>1, <2>2, <2>3, <2>4, <2>6, <3>1
  <2> QED BY <2>5, <2>6, Two
<1> QED BY <1>5 DEF Balanced

\* What is linked, as a cursor meets it.
LEMMA CursorMeets ==
    ASSUME Good, NEW t \in Threads, at[t].op \in CursorOps
    PROVE  /\ Listed \subseteq Items /\ Listed \cap freed = {} /\ NULL \notin Items
           /\ \A c \in Listed : FirstAbove(Listed, Column(c), Key[c], next[c])
           /\ \A col \in Columns : FirstAbove(Listed, col, -1, head[col])
           /\ \A c \in Listed : ref[c] = 1 + Bit(c \in Held(t))
           /\ \A c \in Items : Key[c] \in Nat /\ Column(c) \in Nat /\ Column(c) <= Scale - 1
           /\ Scale \in Nat \ {0} /\ at[t].col \in Nat /\ at[t].col <= Scale - 1
           /\ TypeOK
<1>1. /\ Listed \subseteq Items /\ Listed \cap freed = {}
      /\ \A c \in Listed : FirstAbove(Listed, Column(c), Key[c], next[c])
      /\ \A col \in Columns : FirstAbove(Listed, col, -1, head[col])
  BY Live DEF Chained
<1>2. /\ \A u \in Threads : u # t => Held(u) = {}
      /\ Listed \subseteq Owned
  <2>1. /\ \A u \in Threads : doing[u] # "dropping"
        /\ \A u \in Threads : u # t => at[u].row = NULL /\ at[u].op # "advance"
    BY CursorKnows
  <2> QED BY <2>1 DEF Held, Owned, Listed, Leaving
<1>3. ASSUME NEW c \in Listed PROVE ref[c] = 1 + Bit(c \in Held(t))
  <2>1. ref[c] = Bit(c \in Owned) + Bit(c \in Held(Main)) + Bit(c \in Held(Reader))
    BY <1>1 DEF Good, Parts, Balanced
  <2>2. \A u \in Threads : u # t => c \notin Held(u)
    BY <1>2
  <2> QED BY <1>2, <2>1, <2>2, Two DEF Bit
<1>4. TypeOK /\ at[t].col \in Columns
  BY Fields DEF Good, Parts
<1> QED BY <1>1, <1>3, <1>4, KeyType DEF Columns
-----------------------------------------------------------------------------
LEMMA CursorInitStep ==
    ASSUME Good, NEW t \in Threads, CursorInit(t), UNCHANGED <<members, readerVars, atStart>>,
           raced' \in BOOLEAN
    PROVE  Parts'
<1> DEFINE h == head[0]
<1>1. at[t].op = "cursor" /\ at[t].op \in CursorOps
  BY DEF CursorInit, CursorOps
<1>2. /\ FirstAbove(Listed, 0, -1, h) /\ 0 \in Columns /\ h \in Pointers
      /\ Listed \subseteq Items /\ Listed \cap freed = {} /\ TypeOK /\ NULL \notin Items
  <2>1. 0 \in Columns
    BY KeyType DEF Columns
  <2> QED BY <1>1, <2>1, CursorMeets, Types DEF Pointers
<1>3. h # NULL => h \in Listed /\ Column(h) = 0
  BY <1>2 DEF FirstAbove
<1>4. /\ at' = [at EXCEPT ![t].op = "next", ![t].col = 0, ![t].row = h]
      /\ ref' = IF h = NULL THEN ref ELSE [ref EXCEPT ![h] = @ + 1]
      /\ UNCHANGED <<head, next, freed>> /\ fault' = FALSE
  BY <1>2, <1>3 DEF CursorInit, Follow, Referenced
<1>5. /\ at' \in [Threads -> Local] /\ \A u \in Threads : u # t => at'[u] = at[u]
      /\ at'[t].op = "next" /\ at'[t].col = 0 /\ at'[t].row = h
  <2>1. at[t].tmp \in Pointers /\ at[t].res \in Pointers
    BY <1>2, Fields DEF Pointers
  <2>2. at \in [Threads -> Local] /\ at[t] \in Local
    BY <1>2 DEF TypeOK, HashTypeOK
  <2> HIDE DEF h
  <2> QED BY <1>2, <1>4, <2>1, <2>2 DEF Local, CursorOps
<1>6. CursorFrame(t)
  <2>1. ref' \in [Items -> Int]
    BY <1>2, <1>4, Types
  <2> QED BY <1>1, <1>4, <1>5, <2>1, CursorFrames
<1>7. ~Begun(t) /\ at[t].row = NULL /\ Listed' = Listed
  <2>1. ~Begun(t) /\ Where
    BY <1>1 DEF Begun, Good, Parts
  <2>2. \A u \in Threads : doing[u] # "dropping"
    BY <1>1, CursorKnows
  <2>3. \A ops : Leaving(ops) = {} /\ Leaving(ops)' = {}
    BY <1>6, <2>2 DEF CursorFrame, Leaving
  <2> QED BY <1>6, <2>1, <2>3 DEF Where, Listed, CursorFrame
<1>8. Balanced'
  <2>1. Held(t) = {} /\ Held(t)' = {h} \ {NULL}
    BY <1>1, <1>5, <1>7 DEF Held
  <2>2. ASSUME NEW c \in Items
        PROVE  ref'[c] - Bit(c \in Held(t)') = ref[c] - Bit(c \in Held(t))
    <3>1. ref \in [Items -> Int]
      BY <1>2, Types
    <3> QED BY <1>2, <1>4, <2>1, <3>1 DEF Bit
  <2> QED BY <1>6, <2>2, CursorBalanced
<1>9. CursorAt(t)'
  BY <1>3, <1>5, <1>7, CursorKnows, <1>1, <1>6 DEF CursorAt, CursorFrame
<1>10. (t = Main => DropsAll') /\ (t = Reader => Visits')
  <2>1. ASSUME NEW c \in Listed PROVE Covers(t, c)'
    <3>1. Column(c) \in Nat /\ Key[c] \in Nat
      BY <1>1, <1>2, CursorMeets
    <3>2. Column(c) = 0 => h # NULL /\ Key[h] <= Key[c]
      BY <1>2, <3>1 DEF FirstAbove
    <3>3. h # NULL => Key[h] \in Nat
      BY <1>2, <1>3, KeyType
    <3>4. Column(c) > 0 \/ (Column(c) = 0 /\ h # NULL /\ Key[c] >= Key[h])
      BY <3>1, <3>2, <3>3
    <3> QED BY <1>5, <3>4 DEF Covers, Ahead
  <2> QED BY <1>6, <1>7, <2>1, CursorCovers
<1> QED BY <1>6, <1>8, <1>9, <1>10, CursorRest

LEMMA CursorRowStep ==
    ASSUME Good, NEW t \in Threads, CursorRow(t), UNCHANGED <<members, readerVars, atStart>>,
           raced' \in BOOLEAN
    PROVE  Parts'
<1> DEFINE r == at[t].row
           n == next[r]
<1>1. at[t].op = "next" /\ at[t].op \in CursorOps /\ r # NULL
  BY DEF CursorRow, CursorOps
<1>2. /\ r \in Listed /\ Column(r) = at[t].col /\ Begun(t)
      /\ Listed \subseteq Items /\ Listed \cap freed = {} /\ TypeOK /\ NULL \notin Items
      /\ FirstAbove(Listed, Column(r), Key[r], n)
  <2>1. r \in Listed
    BY <1>1, CursorKnows
  <2> QED BY <1>1, <2>1, CursorKnows, CursorMeets DEF CursorAt, Begun
<1>3. (n # NULL => n \in Listed /\ Column(n) = Column(r) /\ n # r) /\ n \in Pointers
  BY <1>2, Types, KeyType DEF FirstAbove, Pointers
<1>4. /\ at' = [at EXCEPT ![t].op = "advance", ![t].res = r, ![t].tmp = r, ![t].row = r,
                          ![t].col = at[t].col]
      /\ ref' = IF n = NULL THEN ref ELSE [ref EXCEPT ![n] = @ + 1]
      /\ UNCHANGED <<head, next, freed>> /\ fault' = FALSE
  <2>1. fault' = FALSE
    BY <1>2, <1>3 DEF CursorRow, ReturnRow, Follow
  <2>2. at' = [at EXCEPT ![t].op = "advance", ![t].res = r, ![t].tmp = r, ![t].row = r,
                         ![t].col = @]
    BY DEF CursorRow, ReturnRow, Old
  <2>3. [at EXCEPT ![t].op = "advance", ![t].res = r, ![t].tmp = r, ![t].row = r, ![t].col = @]
        = [at EXCEPT ![t].op = "advance", ![t].res = r, ![t].tmp = r, ![t].row = r,
                     ![t].col = at[t].col]
    <3>1. at \in [Threads -> Local] /\ at[t] \in Local
      BY <1>2 DEF TypeOK, HashTypeOK
    <3> HIDE DEF r
    <3> QED BY <3>1 DEF Local
  <2> QED BY <2>1, <2>2, <2>3 DEF CursorRow, ReturnRow, Referenced
<1>5. /\ at' \in [Threads -> Local] /\ \A u \in Threads : u # t => at'[u] = at[u]
      /\ at'[t].op = "advance" /\ at'[t].col = at[t].col /\ at'[t].row = r
      /\ at'[t].tmp = r /\ at'[t].res = r
  <2>1. r \in Pointers /\ at[t].col \in Columns
    BY <1>2, Fields DEF Pointers
  <2>2. at \in [Threads -> Local] /\ at[t] \in Local
    BY <1>2 DEF TypeOK, HashTypeOK
  <2> HIDE DEF r
  <2> QED BY <1>2, <1>4, <2>1, <2>2 DEF Local, CursorOps
<1>6. CursorFrame(t)
  <2>1. ref' \in [Items -> Int]
    BY <1>2, <1>4, Types
  <2> QED BY <1>1, <1>4, <1>5, <2>1, CursorFrames
<1>7. Listed' = Listed
  <2>1. \A u \in Threads : doing[u] # "dropping"
    BY <1>1, CursorKnows
  <2>2. \A ops : Leaving(ops) = {} /\ Leaving(ops)' = {}
    BY <1>6, <2>1 DEF CursorFrame, Leaving
  <2> QED BY <1>6, <2>2 DEF Listed, CursorFrame
<1>8. Balanced'
  <2>1. Held(t) = {r} \ {NULL} /\ Held(t)' = {r, n} \ {NULL}
    BY <1>1, <1>4, <1>5 DEF Held
  <2>2. ASSUME NEW c \in Items
        PROVE  ref'[c] - Bit(c \in Held(t)') = ref[c] - Bit(c \in Held(t))
    <3>1. ref \in [Items -> Int]
      BY <1>2, Types
    <3> QED BY <1>2, <1>3, <1>4, <2>1, <3>1 DEF Bit
  <2> QED BY <1>6, <2>2, CursorBalanced
<1>9. CursorAt(t)'
  BY <1>1, <1>2, <1>5, <1>6, <1>7, CursorKnows DEF CursorAt, CursorFrame
<1>10. (t = Main => DropsAll') /\ (t = Reader => Visits')
  <2>1. \A c \in Listed : (Begun(t) => Covers(t, c)) => Covers(t, c)'
    BY <1>1, <1>2, <1>5 DEF Covers, Ahead
  <2>2. \A c \in Listed : Behind(t, c) => Behind(t, c)'
    BY <1>5 DEF Behind
  <2> QED BY <1>5, <1>6, <2>1, <2>2, CursorCovers
<1> QED BY <1>6, <1>8, <1>9, <1>10, CursorRest

LEMMA CursorColumnStep ==
    ASSUME Good, NEW t \in Threads, CursorColumn(t), UNCHANGED <<members, readerVars, atStart>>,
           raced' \in BOOLEAN
    PROVE  Parts'
<1> DEFINE col == at[t].col + 1
           h   == head[col]
           n   == next[h]
<1>1. at[t].op = "next" /\ at[t].op \in CursorOps /\ at[t].row = NULL /\ at[t].col < Scale - 1
  BY DEF CursorColumn, CursorOps, MoreColumns
<1>2. /\ col \in Columns /\ col = at[t].col + 1 /\ at[t].col \in Nat
      /\ FirstAbove(Listed, col, -1, h) /\ Begun(t) /\ Listed' = Listed
      /\ Listed \subseteq Items /\ Listed \cap freed = {} /\ TypeOK /\ NULL \notin Items
  <2>1. col \in Columns
    BY <1>1, CursorMeets DEF Columns
  <2>2. \A u \in Threads : doing[u] # "dropping"
    BY <1>1, CursorKnows
  <2>3. \A ops : Leaving(ops) = {} /\ Leaving(ops)' = {}
    BY <2>2 DEF readerVars, Leaving
  <2> QED BY <1>1, <2>1, <2>3, CursorKnows, CursorMeets DEF Begun, Listed
<1>3. ASSUME NEW c \in Items
      PROVE  Column(c) \in Nat /\ Key[c] \in Nat /\ (Ahead(t, c) => Column(c) >= col)
             /\ (Behind(t, c) => Column(c) < col)
  <2>1. Column(c) \in Nat /\ Key[c] \in Nat
    BY <1>1, CursorMeets
  <2> QED BY <1>1, <1>2, <2>1 DEF Ahead, Behind
<1>4. CASE h # NULL
  <2>1. /\ h \in Listed /\ Column(h) = col /\ FirstAbove(Listed, Column(h), Key[h], n)
    BY <1>1, <1>2, <1>4, CursorMeets DEF FirstAbove
  <2>2. (n # NULL => n \in Listed /\ n # h) /\ n \in Pointers
    BY <1>2, <2>1, Types, KeyType DEF FirstAbove, Pointers
  <2>3. /\ at' = [at EXCEPT ![t].op = "advance", ![t].res = h, ![t].tmp = NULL, ![t].row = h,
                            ![t].col = col]
        /\ ref' = IF n = NULL THEN ref ELSE [ref EXCEPT ![n] = @ + 1]
        /\ UNCHANGED <<head, next, freed>> /\ fault' = FALSE
    <3>1. ReturnRow(t, h, FALSE)
      BY <1>4 DEF CursorColumn
    <3>2. fault' = FALSE
      BY <1>2, <2>1, <2>2, <3>1 DEF ReturnRow, Follow
    <3>3. at' = [at EXCEPT ![t].op = "advance", ![t].res = h, ![t].tmp = NULL, ![t].row = h,
                           ![t].col = @ + 1]
      BY <3>1 DEF ReturnRow, Old
    <3>4. [at EXCEPT ![t].op = "advance", ![t].res = h, ![t].tmp = NULL, ![t].row = h,
                     ![t].col = @ + 1]
          = [at EXCEPT ![t].op = "advance", ![t].res = h, ![t].tmp = NULL, ![t].row = h,
                       ![t].col = col]
      <4>1. at \in [Threads -> Local] /\ at[t] \in Local /\ col = at[t].col + 1
        BY <1>2 DEF TypeOK, HashTypeOK
      <4> HIDE DEF h, col
      <4> QED BY <4>1 DEF Local
    <3> QED BY <3>1, <3>2, <3>3, <3>4 DEF ReturnRow, Referenced
  <2>4. /\ at' \in [Threads -> Local] /\ \A u \in Threads : u # t => at'[u] = at[u]
        /\ at'[t].op = "advance" /\ at'[t].col = col /\ at'[t].row = h
        /\ at'[t].tmp = NULL /\ at'[t].res = h
    <3>1. at \in [Threads -> Local] /\ at[t] \in Local /\ h \in Pointers /\ NULL \in Pointers
      BY <1>2, <2>1 DEF TypeOK, HashTypeOK, Pointers
    <3>2. col \in Columns
      BY <1>2
    <3> HIDE DEF h, col
    <3>3. at' \in [Threads -> Local]
      BY <2>3, <3>1, <3>2 DEF Local, CursorOps
    <3> QED BY <2>3, <3>1, <3>2, <3>3 DEF Local
  <2>5. CursorFrame(t)
    <3>1. ref' \in [Items -> Int]
      <4>1. ref \in [Items -> Int]
        BY <1>2, Types
      <4>2. ref' = IF n = NULL THEN ref ELSE [ref EXCEPT ![n] = @ + 1]
        BY <2>3
      <4>3. n # NULL => n \in Items /\ ref[n] + 1 \in Int
        BY <1>2, <2>2, <4>1
      <4> HIDE DEF n
      <4> QED BY <4>1, <4>2, <4>3
    <3> QED BY <1>1, <2>3, <2>4, <3>1, CursorFrames
  <2>6. Balanced'
    <3>1. Held(t) = {} /\ Held(t)' = {n} \ {NULL}
      BY <1>1, <2>3, <2>4 DEF Held
    <3>2. ASSUME NEW c \in Items
          PROVE  ref'[c] - Bit(c \in Held(t)') = ref[c] - Bit(c \in Held(t))
      <4>1. ref \in [Items -> Int]
        BY <1>2, Types
      <4> QED BY <1>2, <2>2, <2>3, <3>1, <4>1 DEF Bit
    <3> QED BY <2>5, <3>2, CursorBalanced
  <2>7. CursorAt(t)'
    BY <1>1, <1>2, <2>1, <2>4, <2>5, CursorKnows DEF CursorAt, CursorFrame
  <2>8. (t = Main => DropsAll') /\ (t = Reader => Visits')
    <3>1. ASSUME NEW c \in Listed, Begun(t) => Covers(t, c) PROVE Covers(t, c)'
      <4>1. Column(c) \in Nat /\ Key[c] \in Nat /\ Column(c) >= col /\ col \in Nat
        BY <1>1, <1>2, <1>3, <3>1 DEF Covers
      <4>2. Column(c) = col => Key[h] <= Key[c]
        BY <1>2, <4>1 DEF FirstAbove
      <4>3. Key[h] \in Nat
        BY <1>2, <2>1, KeyType
      <4>4. Column(c) > col \/ (Column(c) = col /\ Key[c] >= Key[h])
        BY <4>1, <4>2, <4>3
      <4> QED BY <1>4, <2>4, <4>4 DEF Covers, Ahead
    <3>2. \A c \in Listed : Behind(t, c) => Behind(t, c)'
      BY <1>2, <1>3, <2>4 DEF Behind
    <3> QED BY <2>4, <2>5, <3>1, <3>2, CursorCovers
  <2> QED BY <2>5, <2>6, <2>7, <2>8, CursorRest
<1>5. CASE h = NULL
  <2>1. at' = [at EXCEPT ![t].col = @ + 1] /\ UNCHANGED <<head, next, ref, freed, fault>>
    BY <1>5 DEF CursorColumn
  <2>2. /\ at' \in [Threads -> Local] /\ \A u \in Threads : u # t => at'[u] = at[u]
        /\ at'[t].op = "next" /\ at'[t].col = col /\ at'[t].row = NULL
        /\ at'[t].tmp = at[t].tmp /\ at'[t].res = at[t].res
    <3>1. at \in [Threads -> Local] /\ at[t] \in Local
      BY <1>2 DEF TypeOK, HashTypeOK
    <3>2. col \in Columns /\ at' = [at EXCEPT ![t].col = at[t].col + 1] /\ col = at[t].col + 1
      BY <1>2, <2>1, <3>1 DEF Local
    <3> HIDE DEF col
    <3> QED BY <1>1, <3>1, <3>2 DEF Local
  <2>3. CursorFrame(t)
    <3>1. fault' = FALSE
      BY <2>1 DEF Good, Parts
    <3> QED BY <1>1, <1>2, <2>1, <2>2, <3>1, CursorFrames, Types
  <2>4. Balanced'
    <3>1. Held(t)' = Held(t)
      BY <1>1, <2>2 DEF Held
    <3> QED BY <2>1, <2>3, <3>1, CursorBalanced
  <2>5. CursorAt(t)'
    BY <1>1, <2>2, <2>3, CursorKnows DEF CursorAt, CursorFrame
  <2>6. (t = Main => DropsAll') /\ (t = Reader => Visits')
    <3>1. ASSUME NEW c \in Listed, Begun(t) => Covers(t, c) PROVE Covers(t, c)'
      <4>1. Column(c) \in Nat /\ Key[c] \in Nat /\ Column(c) >= col /\ col \in Nat
        BY <1>1, <1>2, <1>3, <3>1 DEF Covers
      <4>2. Column(c) # col
        BY <1>2, <1>5, <4>1 DEF FirstAbove
      <4> QED BY <2>2, <4>1, <4>2 DEF Covers, Ahead
    <3>2. \A c \in Listed : Behind(t, c) => Behind(t, c)'
      BY <1>2, <1>3, <2>2 DEF Behind
    <3> QED BY <2>2, <2>3, <3>1, <3>2, CursorCovers
  <2> QED BY <2>3, <2>4, <2>5, <2>6, CursorRest
<1> QED BY <1>4, <1>5

LEMMA CursorAdvanceStep ==
    ASSUME Good, NEW t \in Threads, CursorAdvance(t), UNCHANGED <<members, readerVars, atStart>>,
           raced' \in BOOLEAN
    PROVE  Parts'
<1> DEFINE r == at[t].row
           n == next[r]
           old == at[t].tmp
<1>1. at[t].op = "advance" /\ at[t].op \in CursorOps
  BY DEF CursorAdvance, CursorOps
<1>2. /\ r \in Listed /\ r # NULL /\ Column(r) = at[t].col /\ Begun(t)
      /\ at[t].res = r /\ old \in {NULL, r}
      /\ Listed \subseteq Items /\ Listed \cap freed = {} /\ TypeOK /\ NULL \notin Items
      /\ FirstAbove(Listed, Column(r), Key[r], n)
  <2>1. Begun(t) /\ CursorAt(t) /\ r \in Listed \cup {NULL}
    BY <1>1, CursorKnows DEF Begun
  <2>2. r # NULL /\ Column(r) = at[t].col /\ at[t].res = r /\ old \in {NULL, r}
    BY <1>1, <2>1 DEF CursorAt
  <2> QED BY <1>1, <2>1, <2>2, CursorMeets
<1>3. (n # NULL => n \in Listed /\ n # r /\ Column(n) = Column(r)) /\ n \in Pointers
  BY <1>2, Types, KeyType DEF FirstAbove, Pointers
<1>4. Held(t) = {old, n} \ {NULL}
  BY <1>1 DEF Held
<1>5. /\ ref' = IF old = NULL THEN ref ELSE [ref EXCEPT ![r] = @ - 1]
      /\ UNCHANGED <<head, next, freed>> /\ fault' = FALSE
  <2>1. fault' = FALSE
    BY <1>2 DEF CursorAdvance, Follow
  <2>2. old # NULL => old = r /\ ref[r] = 2
    BY <1>1, <1>2, <1>4, CursorMeets DEF Bit
  <2> QED BY <2>1, <2>2 DEF CursorAdvance, Unref
<1>6. /\ at' \in [Threads -> Local] /\ \A u \in Threads : u # t => at'[u] = at[u]
      /\ at'[t].op = "out" /\ at'[t].col = at[t].col /\ at'[t].row = n
      /\ at'[t].tmp = old /\ at'[t].res = r
  <2>1. at \in [Threads -> Local] /\ at[t] \in Local
    BY <1>2 DEF TypeOK, HashTypeOK
  <2>2. at' = [at EXCEPT ![t].op = "out", ![t].row = next[@]]
    BY DEF CursorAdvance
  <2>3. at'[t].row = next[at[t].row] /\ at'[t].op = "out" /\ at'[t].col = at[t].col
        /\ at'[t].tmp = old /\ at'[t].res = at[t].res
    BY <2>1, <2>2 DEF Local
  <2>4. at' \in [Threads -> Local]
    BY <1>3, <2>1, <2>2 DEF Local
  <2> QED BY <1>2, <2>2, <2>3, <2>4
<1>7. CursorFrame(t)
  <2>1. ref' \in [Items -> Int]
    BY <1>2, <1>5, Types
  <2> QED BY <1>1, <1>5, <1>6, <2>1, CursorFrames
<1>8. Listed' = Listed
  <2>1. \A u \in Threads : doing[u] # "dropping"
    BY <1>1, CursorKnows
  <2>2. \A ops : Leaving(ops) = {} /\ Leaving(ops)' = {}
    BY <1>7, <2>1 DEF CursorFrame, Leaving
  <2> QED BY <1>7, <2>2 DEF Listed, CursorFrame
<1>9. Balanced'
  <2>1. Held(t)' = {n} \ {NULL}
    BY <1>6 DEF Held
  <2>2. ASSUME NEW c \in Items
        PROVE  ref'[c] - Bit(c \in Held(t)') = ref[c] - Bit(c \in Held(t))
    <3>1. ref \in [Items -> Int]
      BY <1>2, Types
    <3> QED BY <1>2, <1>3, <1>4, <1>5, <2>1, <3>1 DEF Bit
  <2> QED BY <1>7, <2>2, CursorBalanced
<1>10. n # NULL => Key[n] > Key[r]
  BY <1>2 DEF FirstAbove
<1>11. CursorAt(t)'
  BY <1>1, <1>2, <1>3, <1>6, <1>7, <1>8, <1>10, CursorKnows DEF CursorAt, CursorFrame
<1>12. (t = Main => DropsAll') /\ (t = Reader => Visits')
  <2>1. ASSUME NEW c \in Listed, Begun(t) => Covers(t, c) PROVE Covers(t, c)'
    <3>1. Ahead(t, c) /\ Column(c) \in Nat /\ Key[c] \in Nat /\ Key[r] \in Nat /\ at[t].col \in Nat
      BY <1>1, <1>2, <2>1, CursorMeets DEF Covers
    <3>2. CASE c = r
      BY <1>6, <3>2 DEF Covers
    <3>3. CASE Column(c) > at[t].col
      BY <1>6, <3>3 DEF Covers, Ahead
    <3>4. CASE c # r /\ Column(c) = at[t].col
      <4>1. Key[c] >= Key[r]
        BY <3>1, <3>4 DEF Ahead
      <4>2. Key[c] > Key[r]
        BY <1>2, <3>1, <3>4, <4>1, KeyType
      <4>3. n # NULL /\ Key[n] <= Key[c]
        BY <1>2, <3>4, <4>2 DEF FirstAbove
      <4>4. Key[n] \in Nat
        BY <1>2, <1>3, <4>3, KeyType
      <4>5. Key[c] >= Key[n]
        BY <3>1, <4>3, <4>4
      <4> QED BY <1>6, <3>4, <4>3, <4>5 DEF Covers, Ahead
    <3> QED BY <3>1, <3>2, <3>3, <3>4 DEF Ahead
  <2>2. ASSUME NEW c \in Listed, Behind(t, c)
        PROVE  Behind(t, c)' /\ Before(c, r)
    <3>1. Key[c] \in Nat /\ Key[r] \in Nat /\ (n # NULL => Key[n] \in Nat)
      BY <1>2, <1>3, KeyType
    <3>2. Column(c) < at[t].col \/ (Column(c) = at[t].col /\ Key[c] < Key[r])
      BY <1>2, <2>2 DEF Behind
    <3>3. Behind(t, c)'
      <4>1. Column(c) = at[t].col /\ Key[c] < Key[r] => (n # NULL => Key[c] < Key[n])
        BY <1>10, <3>1
      <4> QED BY <1>6, <3>2, <4>1 DEF Behind
    <3> QED BY <1>2, <3>2, <3>3 DEF Before
  <2> QED BY <1>6, <1>7, <2>1, <2>2, CursorCovers
<1> QED BY <1>7, <1>9, <1>11, <1>12, CursorRest

LEMMA CursorEndStep ==
    ASSUME Good, NEW t \in Threads, CursorEnd(t), UNCHANGED <<members, readerVars, atStart>>,
           raced' \in BOOLEAN
    PROVE  Parts'
<1>1. at[t].op = "next" /\ at[t].op \in CursorOps /\ at[t].row = NULL
  BY DEF CursorEnd, CursorOps
<1>2. at[t].col = Scale - 1 /\ Begun(t) /\ TypeOK
  BY <1>1, CursorMeets, CursorKnows DEF CursorEnd, MoreColumns, Begun
<1>3. /\ at' \in [Threads -> Local] /\ \A u \in Threads : u # t => at'[u] = at[u]
      /\ at'[t].op = "out" /\ at'[t].col = at[t].col /\ at'[t].row = NULL
      /\ at'[t].res = NULL
  <2>1. at \in [Threads -> Local] /\ at[t] \in Local /\ NULL \in Pointers
    BY <1>2 DEF TypeOK, HashTypeOK, Pointers
  <2>2. at' = [at EXCEPT ![t].op = "out", ![t].res = NULL]
    BY DEF CursorEnd
  <2> QED BY <1>1, <2>1, <2>2 DEF Local
<1>4. CursorFrame(t) /\ UNCHANGED ref
  <2>1. UNCHANGED <<head, next, ref, freed>> /\ fault' = FALSE
    BY DEF CursorEnd, Good, Parts
  <2> QED BY <1>1, <1>2, <1>3, <2>1, CursorFrames, Types
<1>5. Balanced'
  <2>1. Held(t)' = Held(t)
    BY <1>1, <1>3 DEF Held
  <2> QED BY <1>4, <2>1, CursorBalanced
<1>6. CursorAt(t)'
  BY <1>2, <1>3, <1>4, CursorKnows, <1>1 DEF CursorAt, CursorFrame
<1>7. (t = Main => DropsAll') /\ (t = Reader => Visits')
  <2>1. \A c \in Listed : (Begun(t) => Covers(t, c)) => Covers(t, c)'
    BY <1>1, <1>2, <1>3 DEF Covers, Ahead
  <2>2. \A c \in Listed : Behind(t, c) => Behind(t, c)'
    BY <1>1, <1>3 DEF Behind
  <2> QED BY <1>3, <1>4, <2>1, <2>2, CursorCovers
<1> QED BY <1>4, <1>5, <1>6, <1>7, CursorRest
-----------------------------------------------------------------------------
(***************************************************************************)
(* What the threads do between the calls into hk_hash.c.                   *)
(***************************************************************************)
\* What is the same after any such step of t.
Between(t) ==
    /\ at[t].op = "out" /\ at'[t].op \in {"out", "insert", "remove", "cursor", "next"}
    /\ at'[t].tmp = at[t].tmp /\ at'[t].row = at[t].row
    /\ at'[t].res = at[t].res /\ at'[t].col = at[t].col
    /\ \A u \in Threads : u # t => at'[u] = at[u] /\ doing'[u] = doing[u]
    /\ TypeOK' /\ fault' = FALSE
    /\ UNCHANGED <<head, next, freed>>

\* The step neither begins nor ends a removal, begins one, or ends one.
Keeps(t) ==
    /\ doing[t] # "dropping" /\ doing'[t] # "dropping" /\ UNCHANGED <<members, closed>>
    /\ epoll \subseteq epoll' /\ open \subseteq open' /\ open' \subseteq open \cup epoll
Drops(t) ==
    /\ doing[t] # "dropping" /\ doing'[t] = "dropping" /\ at'[t].op = "remove"
    /\ epoll' = epoll \ {at'[t].arg} /\ UNCHANGED <<members, open, closed>>
Dropped(t) ==
    /\ doing[t] = "dropping" /\ doing'[t] # "dropping" /\ epoll' = epoll
    /\ open' = open \ {at[t].arg}
    /\ members' = members \ {at[t].arg} /\ closed' = closed \cup {at[t].arg}

LEMMA SetsOp ==
    ASSUME TypeOK, NEW t \in Threads, NEW op \in {"out", "insert", "remove", "cursor", "next"},
           at' = [at EXCEPT ![t].op = op]
    PROVE  /\ at' \in [Threads -> Local] /\ \A u \in Threads : u # t => at'[u] = at[u]
           /\ at'[t].op = op /\ at'[t].arg = at[t].arg
           /\ at'[t].tmp = at[t].tmp /\ at'[t].row = at[t].row
           /\ at'[t].res = at[t].res /\ at'[t].col = at[t].col
<1>1. at \in [Threads -> Local] /\ at[t] \in Local
  BY DEF TypeOK, HashTypeOK
<1>2. op \in {"out"} \cup InsertOps \cup RemoveOps \cup CursorOps
  BY DEF CursorOps, InsertOps, RemoveOps
<1> QED BY <1>1, <1>2 DEF Local

LEMMA SetsCall ==
    ASSUME TypeOK, NEW t \in Threads, NEW op \in {"out", "insert", "remove", "cursor", "next"},
           NEW arg \in Pointers, at' = [at EXCEPT ![t].op = op, ![t].arg = arg]
    PROVE  /\ at' \in [Threads -> Local] /\ \A u \in Threads : u # t => at'[u] = at[u]
           /\ at'[t].op = op /\ at'[t].arg = arg
           /\ at'[t].tmp = at[t].tmp /\ at'[t].row = at[t].row
           /\ at'[t].res = at[t].res /\ at'[t].col = at[t].col
<1>1. at \in [Threads -> Local] /\ at[t] \in Local
  BY DEF TypeOK, HashTypeOK
<1>2. op \in {"out"} \cup InsertOps \cup RemoveOps \cup CursorOps
  BY DEF CursorOps, InsertOps, RemoveOps
<1> QED BY <1>1, <1>2 DEF Local

LEMMA GoesTo ==
    ASSUME TypeOK, NEW t \in Threads, NEW from, NEW to \in MainStates \cup ReaderStates,
           Goes(t, from, to), t = Main => to \in MainStates, t = Reader => to \in ReaderStates
    PROVE  /\ doing[t] = from /\ doing'[t] = to /\ \A u \in Threads : u # t => doing'[u] = doing[u]
           /\ doing' \in [Threads -> MainStates \cup ReaderStates]
           /\ doing'[Main] \in MainStates /\ doing'[Reader] \in ReaderStates
<1>1. doing \in [Threads -> MainStates \cup ReaderStates]
      /\ doing[Main] \in MainStates /\ doing[Reader] \in ReaderStates
  BY Types
<1> QED BY <1>1, Two DEF Goes

\* The sets of clients after such a step.
LEMMA BetweenSets ==
    ASSUME Good, NEW t \in Threads, Between(t), Keeps(t) \/ Drops(t) \/ Dropped(t)
    PROVE  /\ Listed' = Listed
           /\ members' \ Leaving({"out"})' = members \ Leaving({"out"})
           /\ closed' \cup Leaving({"out"})' = closed \cup Leaving({"out"})
           /\ t = Reader \/ at'[t].op # "insert" => Entering' = Entering
           /\ \A u \in Threads : Held(u)' = Held(u)
<1>1. doing[t] = "dropping" => \A u \in Threads : u # t => doing[u] # "dropping"
  BY Apart, Two
<1>2. \A u \in Threads : u # t => at'[u] = at[u] /\ doing'[u] = doing[u]
  BY DEF Between
<1>3. \A u \in Threads : Held(u)' = Held(u)
  BY <1>2 DEF Held, Between
<1>4. t = Reader \/ at'[t].op # "insert" => Entering' = Entering
  <2>1. CASE t = Reader
    BY <1>2, <2>1, Two DEF Entering
  <2>2. CASE t = Main
    BY <2>2, Two DEF Entering, InsertOps, Between
  <2> QED BY <2>1, <2>2, Two
<1>5. ASSUME Keeps(t) \/ Drops(t)
      PROVE  /\ Leaving({"out"})' = Leaving({"out"})
             /\ Leaving({"unref", "out"})' = Leaving({"unref", "out"})
             /\ members' = members /\ closed' = closed
  <2>1. \A ops \in {{"out"}, {"unref", "out"}} : \A c \in Items :
          (\E u \in Threads : doing'[u] = "dropping" /\ at'[u].op \in ops /\ at'[u].arg = c)
            <=> (\E u \in Threads : doing[u] = "dropping" /\ at[u].op \in ops /\ at[u].arg = c)
    BY <1>2, <1>5 DEF Keeps, Drops
  <2> QED BY <1>5, <2>1 DEF Leaving, Keeps, Drops
<1>6. ASSUME Dropped(t)
      PROVE  /\ Listed' = Listed
             /\ members' \ Leaving({"out"})' = members \ Leaving({"out"})
             /\ closed' \cup Leaving({"out"})' = closed \cup Leaving({"out"})
  <2>1. at[t].arg \in Items
    BY <1>6, Types DEF Dropped, Good, Parts, Clients
  <2>2. \A ops : Leaving(ops)' = {}
    BY <1>1, <1>2, <1>6 DEF Leaving, Dropped
  <2>3. Leaving({"out"}) = {at[t].arg} /\ Leaving({"unref", "out"}) = {at[t].arg}
    BY <1>1, <1>6, <2>1 DEF Leaving, Dropped, Between
  <2> QED BY <1>6, <2>2, <2>3 DEF Listed, Dropped
<1> QED BY <1>3, <1>4, <1>5, <1>6 DEF Listed

\* Who is open after such a step.
LEMMA BetweenOpened ==
    ASSUME Good, NEW t \in Threads, Between(t), Keeps(t) \/ Drops(t) \/ Dropped(t),
           t = Reader => (doing'[Reader] = "pong" => visited' # <<>> /\ visited'[1] \in open'),
           t = Main => visited' = visited
    PROVE  Opened'
<1>1. \A u \in Threads : u # t => at'[u] = at[u] /\ doing'[u] = doing[u]
  BY DEF Between
<1>2. Opened
  BY DEF Good, Parts
<1>3. ASSUME NEW c \in open'
      PROVE  c \in epoll' \/ \E u \in Threads : doing'[u] = "dropping" /\ at'[u].arg = c
  <2>1. CASE Keeps(t)
    BY <1>1, <1>2, <2>1 DEF Keeps, Opened
  <2>2. CASE Drops(t)
    BY <1>1, <1>2, <2>2 DEF Drops, Opened
  <2>3. CASE Dropped(t)
    BY <1>1, <1>2, <2>3 DEF Dropped, Opened
  <2> QED BY <2>1, <2>2, <2>3
<1>4. ASSUME doing'[Reader] = "pong" PROVE visited' # <<>> /\ visited'[1] \in open'
  <2>1. CASE t = Main
    <3>1. doing[Reader] = "pong" /\ doing[Main] \in {"accept", "add", "unjoined"}
      BY <1>1, <1>4, <2>1, Apart, Two
    <3>2. open \subseteq open'
      BY <2>1, <3>1 DEF Keeps, Drops, Dropped
    <3> QED BY <1>2, <2>1, <3>1, <3>2 DEF Opened
  <2> QED BY <1>4, <2>1, Two
<1> QED BY <1>3, <1>4 DEF Opened

\* What is left to show of such a step.
LEMMA BetweenRest ==
    ASSUME Good, NEW t \in Threads, Between(t), Keeps(t) \/ Drops(t) \/ Dropped(t),
           Where', Clients', CursorAt(t)', (ref' = ref /\ Entering' = Entering) \/ Balanced',
           t = Reader => Visits',
           t = Reader => (doing'[Reader] = "pong" => visited' # <<>> /\ visited'[1] \in open'),
           t = Main => DropsAll' /\ UNCHANGED <<visited, atStart>>
                       /\ (open' = open \/ doing[Reader] # "message")
    PROVE  Parts'
<1>1. \A u \in Threads : u # t => at'[u] = at[u] /\ doing'[u] = doing[u]
  BY DEF Between
<1>2. Listed' = Listed /\ \A u \in Threads : Held(u)' = Held(u)
  BY BetweenSets
<1>3. Chained(Listed', head', next')
  BY <1>2, Live DEF Between
<1>4. Balanced'
  <2>1. ASSUME ref' = ref, Entering' = Entering PROVE Balanced'
    <3>1. Owned' = Owned
      BY <2>1, BetweenSets DEF Owned
    <3> QED BY <1>2, <2>1, <3>1, Two DEF Balanced, Good, Parts
  <2> QED BY <2>1
<1>5. Insertion'
  <2>1. CASE t = Main
    BY <2>1 DEF Insertion, Between
  <2>2. CASE t = Reader
    <3>1. at'[Main] = at[Main] /\ Insertion
      BY <1>1, <2>2, Two DEF Good, Parts
    <3> QED BY <1>2, <3>1 DEF Insertion, Between
  <2> QED BY <2>1, <2>2, Two
<1>6. ASSUME NEW u \in Threads PROVE Removal(u)' /\ CursorAt(u)'
  <2>1. CASE u = t
    BY <2>1 DEF Removal, Between
  <2>2. CASE u # t
    <3>1. Removal(u) /\ CursorAt(u) /\ at'[u] = at[u] /\ doing'[u] = doing[u]
      BY <1>1, <2>2 DEF Good, Parts
    <3>2. UNCHANGED <<head, next>>
      BY DEF Between
    <3> QED BY <1>2, <3>1, <3>2 DEF Removal, CursorAt, Begun, Scanning
  <2> QED BY <2>1, <2>2
<1>7. DropsAll'
  <2>1. CASE t = Reader
    <3>1. DropsAll /\ at'[Main] = at[Main] /\ doing'[Main] = doing[Main]
      BY <1>1, <2>1, Two DEF Good, Parts
    <3> QED BY <1>2, <3>1 DEF DropsAll, Begun, Scanning, Ahead
  <2> QED BY <2>1, Two
<1>8. Visits'
  <2>1. CASE t = Main
    <3>1. /\ Visits /\ at'[Reader] = at[Reader] /\ doing'[Reader] = doing[Reader]
          /\ visited' = visited /\ atStart' = atStart
          /\ open' = open \/ doing[Reader] # "message"
      BY <1>1, <2>1, Two DEF Good, Parts
    <3>2. \A c : (Ahead(Reader, c)' <=> Ahead(Reader, c)) /\ (Behind(Reader, c)' <=> Behind(Reader, c))
      BY <3>1 DEF Ahead, Behind
    <3> QED BY <3>1, <3>2 DEF Visits
  <2> QED BY <2>1, Two
<1>9. Opened'
  BY BetweenOpened
<1> QED BY <1>3, <1>4, <1>5, <1>6, <1>7, <1>8, <1>9 DEF Parts, Between
-----------------------------------------------------------------------------
\* The main thread.
LEMMA AddClientStep ==
    ASSUME Good, NEW c \in Items, AddClient(c), raced' \in BOOLEAN, ~Overlap'
    PROVE  Parts'
<1>1. TypeOK /\ Where /\ Clients /\ Balanced
  BY DEF Good, Parts
<1>2. /\ doing[Main] = "accept" /\ doing'[Main] = "add" /\ doing'[Reader] = doing[Reader]
      /\ doing' \in [Threads -> MainStates \cup ReaderStates]
      /\ doing'[Main] \in MainStates /\ doing'[Reader] \in ReaderStates
  BY <1>1, GoesTo, Two DEF AddClient, MainStates, ReaderStates
<1>3. /\ at' \in [Threads -> Local] /\ at'[Reader] = at[Reader]
      /\ at'[Main].op = "insert" /\ at'[Main].arg = c
      /\ at'[Main].tmp = at[Main].tmp /\ at'[Main].row = at[Main].row
      /\ at'[Main].res = at[Main].res /\ at'[Main].col = at[Main].col
  <2>1. at' = [at EXCEPT ![Main].op = "insert", ![Main].arg = c]
    BY DEF AddClient, CallInsert, Call
  <2> QED BY <1>1, <2>1, SetsCall, Two DEF Pointers
<1>4. /\ at[Main].op = "out" /\ ref[c] = 0 /\ c \notin freed /\ ref' = [ref EXCEPT ![c] = 1]
      /\ UNCHANGED <<head, next, freed>> /\ fault' = FALSE
  BY DEF AddClient, CallInsert, Call, Out, Good, Parts
<1>5. TypeOK'
  <2>1. ref' \in [Items -> Int]
    BY <1>1, <1>4, Types
  <2>2. HashTypeOK'
    BY <1>1, <1>3, <1>4, <2>1 DEF HashTypeOK, TypeOK
  <2> QED BY <1>1, <1>2, <2>2 DEF TypeOK, AddClient
<1>6. Between(Main)
  BY <1>2, <1>3, <1>4, <1>5, Two DEF Between
<1>7. Keeps(Main)
  BY <1>2 DEF Keeps, AddClient
<1>8. c \notin Owned /\ \A t \in Threads : c \notin Held(t)
  <2>1. ref[c] = Bit(c \in Owned) + Bit(c \in Held(Main)) + Bit(c \in Held(Reader))
    BY <1>1 DEF Balanced
  <2> QED BY <1>4, <2>1, Two DEF Bit
<1>9. c \notin members
  BY <1>1, <1>4, <1>8 DEF Owned, Clients
<1>10. Entering = {} /\ Entering' = {c} /\ Owned' = Owned \cup {c}
  <2>1. Entering = {} /\ Entering' = {c}
    BY <1>3, <1>4 DEF Entering, InsertOps
  <2> QED BY <1>6, <1>7, <2>1, BetweenSets, Two DEF Owned
<1>11. Balanced'
  <2>1. \A t \in Threads : Held(t)' = Held(t)
    BY <1>6, <1>7, BetweenSets, Two
  <2>2. ASSUME NEW d \in Items
        PROVE  ref'[d] = Bit(d \in Owned') + Bit(d \in Held(Main)') + Bit(d \in Held(Reader)')
    <3>1. ref[d] = Bit(d \in Owned) + Bit(d \in Held(Main)) + Bit(d \in Held(Reader))
      BY <1>1 DEF Balanced
    <3>2. ref'[d] = IF d = c THEN 1 ELSE ref[d]
      BY <1>1, <1>4, Types
    <3> QED BY <1>8, <1>10, <2>1, <3>1, <3>2, Two DEF Bit
  <2> QED BY <2>2 DEF Balanced
<1>12. Where'
  BY <1>1, <1>2, <1>3, <1>6, Two DEF Where, AddClient, Begun, Scanning, InsertOps
<1>13. Clients'
  <2>1. freed' = closed' \cup Leaving({"out"})'
    BY <1>1, <1>4, <1>6, <1>7, BetweenSets, Two DEF Clients
  <2>2. \A t \in Threads : doing'[t] = "dropping" => at'[t].arg \in members' \ epoll'
    BY <1>1, <1>2, <1>3, Two DEF Clients, AddClient
  <2>3. /\ members' = members /\ closed' = closed /\ epoll' = epoll /\ batch' = batch
        /\ freed' = freed
    BY DEF AddClient, CallInsert, Call
  <2> QED BY <1>1, <1>2, <1>3, <1>4, <1>9, <1>10, <2>1, <2>2, <2>3, Two DEF Clients, Out
<1>14. CursorAt(Main)' /\ DropsAll'
  BY <1>2 DEF CursorAt, DropsAll, Begun, Scanning
<1> QED BY <1>6, <1>7, <1>11, <1>12, <1>13, <1>14, BetweenRest, Two DEF AddClient

LEMMA EpollAddStep ==
    ASSUME Good, EpollAdd, raced' \in BOOLEAN
    PROVE  Parts'
<1>1. TypeOK /\ Where /\ Clients
  BY DEF Good, Parts
<1>2. /\ doing[Main] = "add" /\ doing'[Main] = "accept" /\ doing'[Reader] = doing[Reader]
      /\ doing' \in [Threads -> MainStates \cup ReaderStates]
      /\ doing'[Main] \in MainStates /\ doing'[Reader] \in ReaderStates
  BY <1>1, GoesTo, Two DEF EpollAdd, MainStates, ReaderStates
<1>3. /\ at[Main].op = "out" /\ UNCHANGED <<head, next, ref, freed, at>> /\ fault' = FALSE
      /\ UNCHANGED <<batch, open, closed, running, visited, messages, members, atStart>>
      /\ epoll' \in {epoll, epoll \cup {at[Main].arg}}
  BY DEF EpollAdd, Out, hashVars, Good, Parts
<1>4. at[Main].arg \in members /\ at[Main].arg \in Items
  BY <1>1, <1>2, <1>3, Types DEF Clients, Out
<1>5. TypeOK'
  <2>1. HashTypeOK'
    BY <1>1, <1>3 DEF HashTypeOK, TypeOK
  <2> QED BY <1>1, <1>2, <1>3, <1>4, <2>1 DEF TypeOK
<1>6. Between(Main) /\ Keeps(Main)
  BY <1>2, <1>3, <1>5, Two DEF Between, Keeps
<1>7. Entering' = Entering
  BY <1>3 DEF Entering
<1>8. Where'
  BY <1>1, <1>2, <1>3, Two DEF Where, Begun, Scanning
<1>9. Clients'
  <2>1. freed' = closed' \cup Leaving({"out"})'
    BY <1>1, <1>3, <1>6, BetweenSets, Two DEF Clients
  <2>2. doing[Reader] = "dropping" => at[Reader].arg \in members \ epoll /\ at[Reader].arg # at[Main].arg
    BY <1>1, <1>2, Two DEF Clients
  <2>3. \A t \in Threads : doing'[t] = "dropping" => at'[t].arg \in members' \ epoll'
    BY <1>2, <1>3, <2>2, Two
  <2> QED BY <1>1, <1>2, <1>3, <1>4, <1>7, <2>1, <2>3 DEF Clients
<1>10. CursorAt(Main)' /\ DropsAll'
  BY <1>2 DEF CursorAt, DropsAll, Begun, Scanning
<1> QED BY <1>3, <1>6, <1>7, <1>8, <1>9, <1>10, BetweenRest, Two

LEMMA StopStep ==
    ASSUME Good, Stop \/ StopAgain, raced' \in BOOLEAN, ~Overlap'
    PROVE  Parts'
<1>1. TypeOK /\ Where /\ Clients
  BY DEF Good, Parts
<1>2. /\ doing[Main] \in {"accept", "unjoined"} /\ doing'[Main] = "dropall"
      /\ doing'[Reader] = doing[Reader]
      /\ doing' \in [Threads -> MainStates \cup ReaderStates]
      /\ doing'[Main] \in MainStates /\ doing'[Reader] \in ReaderStates
  <2>1. PICK from \in {"accept", "unjoined"} : Goes(Main, from, "dropall")
    BY DEF Stop, StopAgain
  <2> QED BY <1>1, <2>1, GoesTo, Two DEF MainStates, ReaderStates
<1>3. /\ at[Main].op = "out" /\ UNCHANGED <<head, next, ref, freed>> /\ fault' = FALSE
      /\ UNCHANGED <<epoll, batch, open, closed, running, visited, messages, members, atStart>>
      /\ at' = [at EXCEPT ![Main].op = "cursor", ![Main].arg = NULL]
  BY DEF Stop, StopAgain, CallCursorInit, Call, Out, Good, Parts
<1>4. /\ at' \in [Threads -> Local] /\ at'[Reader] = at[Reader] /\ at'[Main].op = "cursor"
      /\ at'[Main].tmp = at[Main].tmp /\ at'[Main].row = at[Main].row
      /\ at'[Main].res = at[Main].res /\ at'[Main].col = at[Main].col
  BY <1>1, <1>3, SetsCall, Two DEF Pointers
<1>5. TypeOK'
  <2>1. HashTypeOK'
    BY <1>1, <1>3, <1>4 DEF HashTypeOK, TypeOK
  <2> QED BY <1>1, <1>2, <1>3, <2>1 DEF TypeOK
<1>6. Between(Main) /\ Keeps(Main)
  BY <1>2, <1>3, <1>4, <1>5, Two DEF Between, Keeps
<1>7. Entering' = Entering
  BY <1>4, <1>6, BetweenSets, Two
<1>8. doing[Reader] \in {"wait", "exited"}
  BY <1>2 DEF Overlap
<1>9. Where'
  BY <1>1, <1>2, <1>3, <1>4, <1>8, Two DEF Where, Begun, Scanning, CursorOps
<1>10. Clients'
  <2>1. freed' = closed' \cup Leaving({"out"})'
    BY <1>1, <1>3, <1>6, BetweenSets, Two DEF Clients
  <2> QED BY <1>1, <1>2, <1>3, <1>7, <1>8, <2>1, Two DEF Clients
<1>11. CursorAt(Main)' /\ DropsAll'
  BY <1>4 DEF CursorAt, DropsAll, Begun
<1> QED BY <1>3, <1>6, <1>7, <1>9, <1>10, <1>11, BetweenRest, Two

LEMMA StopEarlyStep ==
    ASSUME Good, StopEarly, raced' \in BOOLEAN, ~Overlap'
    PROVE  Parts'
<1>1. TypeOK /\ Where /\ Clients
  BY DEF Good, Parts
<1>2. /\ doing[Main] = "accept" /\ doing'[Main] = "unjoined" /\ doing'[Reader] = doing[Reader]
      /\ doing' \in [Threads -> MainStates \cup ReaderStates]
      /\ doing'[Main] \in MainStates /\ doing'[Reader] \in ReaderStates
  BY <1>1, GoesTo, Two DEF StopEarly, MainStates, ReaderStates
<1>3. /\ at[Main].op = "out" /\ UNCHANGED <<head, next, ref, freed, at>> /\ fault' = FALSE
      /\ UNCHANGED <<epoll, batch, open, closed, running, visited, messages, members, atStart>>
  BY <1>1, <1>2 DEF StopEarly, hashVars, Good, Parts, Where
<1>4. TypeOK'
  <2>1. HashTypeOK'
    BY <1>1, <1>3 DEF HashTypeOK, TypeOK
  <2> QED BY <1>1, <1>2, <1>3, <2>1 DEF TypeOK
<1>5. Between(Main) /\ Keeps(Main)
  BY <1>2, <1>3, <1>4, Two DEF Between, Keeps
<1>6. Entering' = Entering
  BY <1>3 DEF Entering
<1>7. Where'
  BY <1>1, <1>2, <1>3, Two DEF Where, Begun, Scanning
<1>8. Clients'
  <2>1. freed' = closed' \cup Leaving({"out"})'
    BY <1>1, <1>3, <1>5, BetweenSets, Two DEF Clients
  <2>2. \A t \in Threads : doing'[t] = "dropping" => at'[t].arg \in members' \ epoll'
    BY <1>1, <1>2, <1>3, Two DEF Clients
  <2> QED BY <1>1, <1>2, <1>3, <1>6, <2>1, <2>2 DEF Clients
<1>9. CursorAt(Main)' /\ DropsAll'
  BY <1>2 DEF CursorAt, DropsAll, Begun, Scanning
<1> QED BY <1>3, <1>5, <1>6, <1>7, <1>8, <1>9, BetweenRest, Two

\* A client that has not been freed may be followed.
LEMMA Touched ==
    ASSUME NEW c \in Items \ closed, Touch(c)
    PROVE  fault' = FALSE
<1>1. (c \in closed) = FALSE
  OBVIOUS
<1> QED BY <1>1, Zenon DEF Touch

LEMMA DropNextStep ==
    ASSUME Good, DropNext, raced' \in BOOLEAN, ~Overlap'
    PROVE  Parts'
<1> DEFINE c == at[Main].res
<1>1. TypeOK /\ Where /\ Clients /\ CursorAt(Main) /\ DropsAll
  BY Two DEF Good, Parts
<1>2. /\ doing[Main] = "dropall" /\ doing'[Main] = "dropping" /\ doing'[Reader] = doing[Reader]
      /\ doing' \in [Threads -> MainStates \cup ReaderStates]
      /\ doing'[Main] \in MainStates /\ doing'[Reader] \in ReaderStates
  BY <1>1, GoesTo, Two DEF DropNext, DropClient, MainStates, ReaderStates
<1>3. /\ at[Main].op = "out" /\ c # NULL /\ UNCHANGED <<head, next, ref, freed>>
      /\ UNCHANGED <<batch, open, closed, running, visited, messages, members, atStart>>
      /\ epoll' = epoll \ {c} /\ Touch(c)
      /\ at' = [at EXCEPT ![Main].op = "remove", ![Main].arg = c]
  BY DEF DropNext, DropClient, Out, Deregistered
<1>4. Begun(Main)
  BY <1>2, <1>3 DEF Begun, Scanning
<1>5. c \in Listed /\ c \in members /\ c \in Items /\ c \notin closed /\ fault' = FALSE
  <2>1. c \in Listed
    BY <1>1, <1>2, <1>3, <1>4 DEF CursorAt
  <2>2. c \in members /\ c \in Items /\ c \notin closed
    BY <2>1, Live
  <2>3. fault' = FALSE
    BY <1>3, <2>2, Touched
  <2> QED BY <2>1, <2>2, <2>3
<1>6. /\ at' \in [Threads -> Local] /\ at'[Reader] = at[Reader] /\ at'[Main].op = "remove"
      /\ at'[Main].arg = c /\ at'[Main].tmp = at[Main].tmp /\ at'[Main].row = at[Main].row
      /\ at'[Main].res = c /\ at'[Main].col = at[Main].col
  <2>1. c \in Pointers /\ at' = [at EXCEPT ![Main].op = "remove", ![Main].arg = c]
    BY <1>3, <1>5 DEF Pointers
  <2>2. \A arg \in Pointers : at' = [at EXCEPT ![Main].op = "remove", ![Main].arg = arg] =>
           /\ at' \in [Threads -> Local] /\ at'[Reader] = at[Reader] /\ at'[Main].op = "remove"
           /\ at'[Main].arg = arg /\ at'[Main].tmp = at[Main].tmp /\ at'[Main].row = at[Main].row
           /\ at'[Main].res = at[Main].res /\ at'[Main].col = at[Main].col
    BY <1>1, SetsCall, Two
  <2> QED BY <2>1, <2>2
<1>7. TypeOK'
  <2>1. HashTypeOK'
    BY <1>1, <1>3, <1>5, <1>6 DEF HashTypeOK, TypeOK
  <2> QED BY <1>1, <1>2, <1>3, <2>1 DEF TypeOK
<1>8. Between(Main) /\ Drops(Main)
  BY <1>2, <1>3, <1>5, <1>6, <1>7, Two DEF Between, Drops
<1>9. Entering' = Entering /\ Listed' = Listed
  BY <1>6, <1>8, BetweenSets, Two
<1>10. doing[Reader] \in {"wait", "exited"}
  BY <1>2, Apart
<1>11. Where'
  BY <1>1, <1>2, <1>3, <1>4, <1>6, <1>10, Two DEF Where, Begun, Scanning, RemoveOps
<1>12. Clients'
  <2>1. freed' = closed' \cup Leaving({"out"})'
    BY <1>1, <1>3, <1>8, BetweenSets, Two DEF Clients
  <2>2. \A t \in Threads : doing'[t] = "dropping" => at'[t].arg \in members' \ epoll'
    BY <1>2, <1>3, <1>5, <1>6, <1>10, Two
  <2> QED BY <1>1, <1>2, <1>3, <1>9, <1>10, <2>1, <2>2, Two DEF Clients
<1>13. CursorAt(Main)'
  BY <1>1, <1>2, <1>3, <1>4, <1>6, <1>9 DEF CursorAt
<1>14. DropsAll'
  BY <1>1, <1>3, <1>4, <1>6, <1>9 DEF DropsAll, Ahead
<1> QED BY <1>3, <1>8, <1>9, <1>11, <1>12, <1>13, <1>14, BetweenRest, Two

LEMMA DropNextDoneStep ==
    ASSUME Good, DropNextDone, raced' \in BOOLEAN, ~Overlap'
    PROVE  Parts'
<1> DEFINE c == at[Main].arg
<1>1. TypeOK /\ Where /\ Clients /\ CursorAt(Main) /\ DropsAll
  BY Two DEF Good, Parts
<1>2. /\ doing[Main] = "dropping" /\ doing'[Main] = "dropall" /\ doing'[Reader] = doing[Reader]
      /\ doing' \in [Threads -> MainStates \cup ReaderStates]
      /\ doing'[Main] \in MainStates /\ doing'[Reader] \in ReaderStates
  BY <1>1, GoesTo, Two DEF DropNextDone, DropDone, MainStates, ReaderStates
<1>3. /\ at[Main].op = "out" /\ UNCHANGED <<head, next, ref, freed>>
      /\ UNCHANGED <<epoll, batch, running, visited, messages, atStart>> /\ open' = open \ {c}
      /\ closed' = closed \cup {c} /\ members' = members \ {c} /\ Touch(c)
      /\ at' = [at EXCEPT ![Main].op = "next"]
  BY DEF DropNextDone, DropDone, Out
<1>4. Begun(Main)
  BY <1>2, <1>3 DEF Begun, Scanning
<1>5. c \in members /\ c \in Items /\ c \notin epoll /\ fault' = FALSE
  <2>1. c \in members /\ c \notin epoll
    BY <1>1, <1>2, Two DEF Clients
  <2>2. c \in Items /\ c \notin closed
    BY <2>1, <1>1, Types, Live
  <2>3. fault' = FALSE
    BY <1>3, <2>2, Touched
  <2> QED BY <2>1, <2>2, <2>3
<1>6. /\ at' \in [Threads -> Local] /\ at'[Reader] = at[Reader] /\ at'[Main].op = "next"
      /\ at'[Main].arg = c /\ at'[Main].tmp = at[Main].tmp /\ at'[Main].row = at[Main].row
      /\ at'[Main].res = at[Main].res /\ at'[Main].col = at[Main].col
  BY <1>1, <1>3, SetsOp, Two
<1>7. TypeOK'
  <2>1. HashTypeOK'
    BY <1>1, <1>3, <1>5, <1>6 DEF HashTypeOK, TypeOK
  <2> QED BY <1>1, <1>2, <1>3, <1>5, <2>1 DEF TypeOK
<1>8. Between(Main) /\ Dropped(Main)
  BY <1>2, <1>3, <1>5, <1>6, <1>7, Two DEF Between, Dropped
<1>9. Entering' = Entering /\ Listed' = Listed
  BY <1>6, <1>8, BetweenSets, Two
<1>10. doing[Reader] \in {"wait", "exited"}
  BY <1>2, Apart
<1>11. Where'
  BY <1>1, <1>2, <1>3, <1>4, <1>6, <1>10, Two DEF Where, Begun, Scanning, CursorOps
<1>12. Clients'
  <2>1. freed' = closed' \cup Leaving({"out"})'
    BY <1>1, <1>3, <1>8, BetweenSets, Two DEF Clients
  <2>2. \A t \in Threads : doing'[t] # "dropping"
    BY <1>2, <1>10, Two
  <2> QED BY <1>1, <1>2, <1>3, <1>5, <1>9, <1>10, <2>1, <2>2, Two DEF Clients
<1>13. CursorAt(Main)'
  BY <1>1, <1>2, <1>3, <1>4, <1>6, <1>9 DEF CursorAt
<1>14. DropsAll'
  <2>1. c \notin Listed /\ at[Main].res = c
    BY <1>1, <1>2, <1>3, <1>4, <1>5, Two DEF Listed, Leaving, CursorAt
  <2> QED BY <1>1, <1>3, <1>4, <1>6, <1>9, <2>1 DEF DropsAll, Ahead
<1> QED BY <1>3, <1>8, <1>9, <1>10, <1>11, <1>12, <1>13, <1>14, BetweenRest, Two

\* A cursor that has returned NULL has no client ahead of it.
LEMMA NoneAhead ==
    ASSUME Good, NEW t \in Threads, Begun(t), at[t].op = "out", at[t].res = NULL,
           doing[t] # "dropping"
    PROVE  \A c \in Listed : ~Ahead(t, c)
<1>1. at[t].row = NULL /\ at[t].col = Scale - 1
  BY DEF Good, Parts, CursorAt
<1>2. ASSUME NEW c \in Listed PROVE ~Ahead(t, c)
  <2>1. Column(c) \in Columns /\ Scale \in Nat \ {0}
    BY Live, KeyType
  <2>2. ~ (Column(c) > Scale - 1)
    BY <2>1 DEF Columns
  <2> QED BY <1>1, <2>2 DEF Ahead
<1> QED BY <1>2

LEMMA AllDroppedStep ==
    ASSUME Good, AllDropped, raced' \in BOOLEAN, ~Overlap'
    PROVE  Parts'
<1>1. TypeOK /\ Where /\ Clients /\ CursorAt(Main) /\ DropsAll
  BY Two DEF Good, Parts
<1>2. /\ doing[Main] = "dropall" /\ doing'[Main] = "join" /\ doing'[Reader] = doing[Reader]
      /\ doing' \in [Threads -> MainStates \cup ReaderStates]
      /\ doing'[Main] \in MainStates /\ doing'[Reader] \in ReaderStates
  BY <1>1, GoesTo, Two DEF AllDropped, MainStates, ReaderStates
<1>3. /\ at[Main].op = "out" /\ at[Main].res = NULL /\ UNCHANGED <<head, next, ref, freed, at>>
      /\ UNCHANGED <<epoll, batch, open, closed, visited, messages, members, atStart>>
      /\ running' = FALSE /\ fault' = FALSE
  BY DEF AllDropped, Out, hashVars, Good, Parts
<1>4. Begun(Main) /\ at[Main].row = NULL
  <2>1. Begun(Main)
    BY <1>2, <1>3 DEF Begun, Scanning
  <2> QED BY <1>1, <1>3, <2>1 DEF CursorAt
<1>5. doing[Reader] \in {"wait", "exited"}
  BY <1>2, Apart
<1>6. members = {}
  <2>1. Listed = {}
    <3>1. \A c \in Listed : ~Ahead(Main, c)
      BY <1>2, <1>3, <1>4, NoneAhead, Two
    <3>2. NULL \notin Listed
      BY Live, KeyType
    <3> QED BY <1>1, <1>3, <1>4, <3>1, <3>2 DEF DropsAll
  <2>2. Leaving({"unref", "out"}) = {}
    BY <1>2, <1>5, Two DEF Leaving
  <2> QED BY <2>1, <2>2 DEF Listed
<1>7. TypeOK'
  <2>1. HashTypeOK'
    BY <1>1, <1>3 DEF HashTypeOK, TypeOK
  <2> QED BY <1>1, <1>2, <1>3, <2>1 DEF TypeOK
<1>8. Between(Main) /\ Keeps(Main)
  BY <1>2, <1>3, <1>7, Two DEF Between, Keeps
<1>9. Entering' = Entering
  BY <1>3 DEF Entering
<1>10. Where'
  BY <1>1, <1>2, <1>3, <1>4, <1>5, <1>6, Two DEF Where, Begun, Scanning
<1>11. Clients'
  <2>1. freed' = closed' \cup Leaving({"out"})'
    BY <1>1, <1>3, <1>8, BetweenSets, Two DEF Clients
  <2> QED BY <1>1, <1>2, <1>3, <1>5, <1>9, <2>1, Two DEF Clients
<1>12. CursorAt(Main)' /\ DropsAll'
  BY <1>2 DEF CursorAt, DropsAll, Begun, Scanning
<1> QED BY <1>3, <1>8, <1>9, <1>10, <1>11, <1>12, BetweenRest, Two

LEMMA JoinStep ==
    ASSUME Good, Join, raced' \in BOOLEAN, ~Overlap'
    PROVE  Parts'
<1>1. TypeOK /\ Where /\ Clients
  BY DEF Good, Parts
<1>2. /\ doing[Main] = "join" /\ doing'[Main] = "free" /\ doing'[Reader] = doing[Reader]
      /\ doing' \in [Threads -> MainStates \cup ReaderStates]
      /\ doing'[Main] \in MainStates /\ doing'[Reader] \in ReaderStates
  BY <1>1, GoesTo, Two DEF Join, Joined, MainStates, ReaderStates
<1>3. /\ at[Main].op = "out" /\ UNCHANGED <<head, next, ref, freed, at>> /\ fault' = FALSE
      /\ UNCHANGED <<epoll, batch, open, closed, visited, messages, members, atStart>>
      /\ running' = FALSE /\ doing[Reader] = "exited"
  BY <1>1, <1>2 DEF Join, Joined, hashVars, Good, Parts, Where
<1>4. TypeOK'
  <2>1. HashTypeOK'
    BY <1>1, <1>3 DEF HashTypeOK, TypeOK
  <2> QED BY <1>1, <1>2, <1>3, <2>1 DEF TypeOK
<1>5. Between(Main) /\ Keeps(Main)
  BY <1>2, <1>3, <1>4, Two DEF Between, Keeps
<1>6. Entering' = Entering
  BY <1>3 DEF Entering
<1>7. Where'
  BY <1>1, <1>2, <1>3, Two DEF Where, Begun, Scanning
<1>8. Clients'
  <2>1. freed' = closed' \cup Leaving({"out"})'
    BY <1>1, <1>3, <1>5, BetweenSets, Two DEF Clients
  <2> QED BY <1>1, <1>2, <1>3, <1>6, <2>1, Two DEF Clients
<1>9. CursorAt(Main)' /\ DropsAll'
  BY <1>2 DEF CursorAt, DropsAll, Begun, Scanning
<1> QED BY <1>3, <1>5, <1>6, <1>7, <1>8, <1>9, BetweenRest, Two

\* A thread that has not set running has not begun, and may not be left behind.
LEMMA StopNothingOverlaps ==
    ASSUME Good, StopNothing
    PROVE  Overlap'
<1>1. TypeOK /\ Where
  BY DEF Good, Parts
<1>2. /\ doing[Main] = "unjoined" /\ doing'[Main] = "free"
      /\ doing'[Reader] = doing[Reader]
  BY <1>1, GoesTo, Two DEF StopNothing, MainStates, ReaderStates
<1>3. doing[Reader] = "starting"
  BY <1>1, <1>2 DEF StopNothing, Where
<1> QED BY <1>2, <1>3 DEF Overlap

\* The table is empty when it is freed.
LEMMA FreeStep ==
    ASSUME Good, Free, raced' \in BOOLEAN, ~Overlap'
    PROVE  Parts'
<1>1. TypeOK /\ Where /\ Clients
  BY DEF Good, Parts
<1>2. Goes(Main, "free", "stopped")
  BY DEF Free
<1>3. /\ doing[Main] = "free" /\ doing'[Main] = "stopped" /\ doing'[Reader] = doing[Reader]
      /\ doing' \in [Threads -> MainStates \cup ReaderStates]
      /\ doing'[Main] \in MainStates /\ doing'[Reader] \in ReaderStates
  BY <1>1, <1>2, GoesTo, Two DEF MainStates, ReaderStates
<1>4. at[Main].op = "out" /\ members = {} /\ doing[Reader] = "exited"
  BY <1>1, <1>3 DEF Where
<1>5. UNION {InColumn(col) : col \in Columns} = {}
  <2>1. ASSUME NEW col \in Columns PROVE InColumn(col) = {}
    <3>1. FirstAbove(Listed, col, -1, head[col])
      BY Live DEF Chained
    <3>2. head[col] = NULL
      BY <1>4, <3>1, Live DEF FirstAbove
    <3> QED BY <3>2, EmptyInColumn
  <2> QED BY <2>1
<1>6. /\ UNCHANGED <<head, next, ref, freed, at>> /\ fault' = FALSE
      /\ UNCHANGED <<epoll, batch, open, closed, running, visited, messages, members, atStart>>
  <2> DEFINE linked == UNION {InColumn(col) : col \in Columns}
  <2>1. /\ fault' = (NULL \in linked \/ linked \cap freed # {})
        /\ ref' = [c \in Items |-> IF c \in linked THEN ref[c] - 1 ELSE ref[c]]
        /\ freed' = freed \cup {c \in linked : ref[c] = 1}
        /\ next' = [c \in Items |-> IF c \in {d \in linked : ref[d] = 1} THEN NULL ELSE next[c]]
        /\ UNCHANGED <<head, at>>
    BY DEF Free, HashFree, Follow
  <2>2. linked = {}
    BY <1>5
  <2>3. ref \in [Items -> Int] /\ next \in [Items -> Items \cup {NULL}]
    BY <1>1, Types
  <2> HIDE DEF linked
  <2>4. fault' = FALSE /\ freed' = freed
    BY <2>1, <2>2
  <2>5. ref' = ref /\ next' = next
    BY <2>1, <2>2, <2>3
  <2> QED BY <2>1, <2>4, <2>5 DEF Free
<1>7. TypeOK'
  <2>1. HashTypeOK'
    BY <1>1, <1>6 DEF HashTypeOK, TypeOK
  <2> QED BY <1>1, <1>3, <1>6, <2>1 DEF TypeOK
<1>8. Between(Main) /\ Keeps(Main)
  BY <1>3, <1>4, <1>6, <1>7, Two DEF Between, Keeps
<1>9. Entering' = Entering
  BY <1>6 DEF Entering
<1>10. Where'
  BY <1>1, <1>3, <1>4, <1>6, Two DEF Where, Begun, Scanning
<1>11. Clients'
  <2>1. freed' = closed' \cup Leaving({"out"})'
    BY <1>1, <1>6, <1>8, BetweenSets, Two DEF Clients
  <2> QED BY <1>1, <1>3, <1>4, <1>6, <1>9, <2>1, Two DEF Clients
<1>12. CursorAt(Main)' /\ DropsAll'
  BY <1>3 DEF CursorAt, DropsAll, Begun, Scanning
<1> QED BY <1>6, <1>8, <1>9, <1>10, <1>11, <1>12, BetweenRest, Two
-----------------------------------------------------------------------------
\* The reader thread: first the steps that leave its place in hk_hash.c alone.
LEMMA ReaderQuiet ==
    ASSUME Good, TypeOK', fault' = FALSE,
           UNCHANGED <<head, next, ref, freed, at, closed, members, epoll>>,
           doing'[Main] = doing[Main], doing[Reader] # "dropping",
           doing'[Reader] \notin {"dropping", "message"}, at[Reader].op = "out",
           at[Reader].row = NULL, batch' \subseteq epoll,
           doing'[Reader] \in {"starting", "wait", "exited"} => batch' = {},
           doing[Main] \in {"join", "free", "stopped"} =>
              doing'[Reader] \in {"wait", "exited"} /\ ~running',
           doing[Main] \in {"free", "stopped"} => doing'[Reader] = "exited",
           doing[Main] \in {"accept", "add", "unjoined"} =>
              (running' <=> doing'[Reader] # "starting") /\ doing'[Reader] # "exited",
           open \subseteq open', open' \subseteq open \cup epoll,
           doing'[Reader] = "pong" => visited' # <<>> /\ visited'[1] \in open'
    PROVE  Parts'
<1>1. TypeOK /\ Where /\ Clients
  BY DEF Good, Parts
<1>2. Between(Reader) /\ Keeps(Reader)
  BY Two DEF Between, Keeps
<1>3. Entering' = Entering
  BY DEF Entering
<1>4. Where'
  BY <1>1, Two DEF Where, Begun, Scanning
<1>5. Clients'
  <2>1. freed' = closed' \cup Leaving({"out"})'
    BY <1>1, <1>2, BetweenSets, Two DEF Clients
  <2>2. \A t \in Threads : doing'[t] = "dropping" => at'[t].arg \in members' \ epoll'
    BY <1>1, Two DEF Clients
  <2> QED BY <1>1, <1>3, <2>1, <2>2, Two DEF Clients, Out
<1>6. CursorAt(Reader)' /\ Visits'
  <2>1. doing'[Reader] \in ReaderStates
    BY DEF TypeOK
  <2>2. ~Begun(Reader)'
    BY <2>1, Two DEF Begun, Scanning, ReaderStates
  <2> QED BY <2>2 DEF CursorAt, Visits
<1> QED BY <1>2, <1>3, <1>4, <1>5, <1>6, BetweenRest, Two

\* Outside hk_hash.c and outside a message, the reader thread has no cursor.
LEMMA NoCursor ==
    ASSUME Good, doing[Reader] \in {"starting", "wait", "batch", "dropping", "pong", "exited"}
    PROVE  at[Reader].row = NULL /\ (doing[Reader] # "dropping" => at[Reader].op = "out")
<1>1. Where /\ ~Begun(Reader)
  BY Two DEF Good, Parts, Begun, Scanning
<1> QED BY <1>1, Two DEF Where

LEMMA QuietSteps ==
    ASSUME Good,
           \/ Begin \/ EpollWait \/ EventDone \/ HandshakeDone \/ MessageDone
           \/ Ping \/ PongDone \/ PongFailed \/ BatchDone \/ Exit,
           raced' \in BOOLEAN, ~Overlap'
    PROVE  Parts'
<1>1. TypeOK /\ Where /\ Clients /\ CursorAt(Reader) /\ fault = FALSE
  BY Two DEF Good, Parts, TypeOK, HashTypeOK
<1>2. /\ doing \in [Threads -> MainStates \cup ReaderStates]
      /\ doing[Main] \in MainStates /\ doing[Reader] \in ReaderStates
      /\ epoll \subseteq Items /\ batch \subseteq Items
  BY <1>1, Types
<1>3. ASSUME NEW from, NEW to \in ReaderStates, Goes(Reader, from, to)
      PROVE  /\ doing[Reader] = from /\ doing'[Reader] = to /\ doing'[Main] = doing[Main]
             /\ doing' \in [Threads -> MainStates \cup ReaderStates]
             /\ doing'[Main] \in MainStates /\ doing'[Reader] \in ReaderStates
  BY <1>1, <1>3, GoesTo, Two
<1>4. CASE Begin
  <2>1. /\ doing[Reader] = "starting" /\ doing'[Reader] = "wait" /\ doing'[Main] = doing[Main]
        /\ doing' \in [Threads -> MainStates \cup ReaderStates]
        /\ doing'[Main] \in MainStates /\ doing'[Reader] \in ReaderStates
    BY <1>3, <1>4 DEF Begin, ReaderStates
  <2>2. /\ running' = TRUE /\ UNCHANGED <<head, next, ref, freed, fault, at>>
        /\ UNCHANGED <<epoll, batch, open, closed, visited, messages, members, atStart>>
    BY <1>4 DEF Begin, hashVars
  <2>3. HashTypeOK'
    BY <1>1, <2>2 DEF HashTypeOK, TypeOK
  <2>4. TypeOK'
    BY <1>1, <2>1, <2>2, <2>3 DEF TypeOK
  <2>5. doing[Main] \notin {"join", "free", "stopped"} /\ batch' = {}
    BY <1>1, <2>1, <2>2 DEF Where, Clients
  <2> QED BY <1>1, <2>1, <2>2, <2>4, <2>5, NoCursor, ReaderQuiet
<1>5. CASE EpollWait
  <2>1. /\ doing[Reader] = "wait" /\ doing'[Reader] = "batch" /\ doing'[Main] = doing[Main]
        /\ doing' \in [Threads -> MainStates \cup ReaderStates]
        /\ doing'[Main] \in MainStates /\ doing'[Reader] \in ReaderStates
    BY <1>3, <1>5 DEF EpollWait, ReaderStates
  <2>2. /\ running /\ batch' \subseteq epoll /\ UNCHANGED <<head, next, ref, freed, fault, at>>
        /\ UNCHANGED <<epoll, open, closed, running, visited, messages, members, atStart>>
    BY <1>5 DEF EpollWait, hashVars
  <2>3. HashTypeOK'
    BY <1>1, <2>2 DEF HashTypeOK, TypeOK
  <2>4. TypeOK'
    BY <1>1, <1>2, <2>1, <2>2, <2>3 DEF TypeOK
  <2>5. doing[Main] \notin {"join", "free", "stopped"}
    BY <1>1, <2>2 DEF Where
  <2> QED BY <1>1, <2>1, <2>2, <2>4, <2>5, NoCursor, ReaderQuiet
<1>6. CASE EventDone \/ HandshakeDone
  <2>1. PICK c \in batch, opened \in SUBSET batch :
           /\ Goes(Reader, "batch", "batch") /\ Touch(c)
           /\ batch' = batch \ {c} /\ open' = open \cup opened
           /\ UNCHANGED <<head, next, ref, freed, at, epoll, closed, running, visited, messages,
                          members, atStart>>
    <3>1. PICK c \in batch, opened \in SUBSET batch : Handled(c, opened)
      BY <1>6 DEF EventDone, HandshakeDone
    <3> QED BY <3>1 DEF Handled
  <2>2. /\ doing[Reader] = "batch" /\ doing'[Reader] = "batch" /\ doing'[Main] = doing[Main]
        /\ doing' \in [Threads -> MainStates \cup ReaderStates]
        /\ doing'[Main] \in MainStates /\ doing'[Reader] \in ReaderStates
    BY <1>3, <2>1 DEF ReaderStates
  <2>3. c \in Items \ closed /\ batch \subseteq epoll
    BY <1>1, <1>2 DEF Clients
  <2>4. fault' = FALSE
    BY <2>1, <2>3, Touched
  <2>5. HashTypeOK'
    BY <1>1, <2>1, <2>4 DEF HashTypeOK, TypeOK
  <2>6. TypeOK'
    BY <1>1, <1>2, <2>1, <2>2, <2>5 DEF TypeOK
  <2>7. /\ doing[Main] \notin {"join", "free", "stopped"}
        /\ doing[Main] \in {"accept", "add", "unjoined"} => running
    BY <1>1, <2>2 DEF Where
  <2> QED BY <1>1, <2>1, <2>2, <2>3, <2>4, <2>6, <2>7, NoCursor, ReaderQuiet
<1>7. CASE MessageDone
  <2>1. /\ doing[Reader] = "message" /\ doing'[Reader] = "batch" /\ doing'[Main] = doing[Main]
        /\ doing' \in [Threads -> MainStates \cup ReaderStates]
        /\ doing'[Main] \in MainStates /\ doing'[Reader] \in ReaderStates
    BY <1>3, <1>7 DEF MessageDone, ReaderStates
  <2>2. /\ at[Reader].op = "out" /\ at[Reader].res = NULL
        /\ UNCHANGED <<head, next, ref, freed, fault, at>>
        /\ UNCHANGED <<epoll, batch, open, closed, running, visited, messages, members, atStart>>
    BY <1>7 DEF MessageDone, hashVars, Out
  <2>3. HashTypeOK'
    BY <1>1, <2>2 DEF HashTypeOK, TypeOK
  <2>4. TypeOK'
    BY <1>1, <2>1, <2>2, <2>3 DEF TypeOK
  <2>5. /\ doing[Main] \notin {"join", "free", "stopped"} /\ batch \subseteq epoll
        /\ doing[Main] \in {"accept", "add", "unjoined"} => running
    BY <1>1, <2>1 DEF Where, Clients
  <2>6. at[Reader].row = NULL
    BY <1>1, <2>1, <2>2 DEF CursorAt, Begun, Scanning
  <2> QED BY <1>1, <2>1, <2>2, <2>4, <2>5, <2>6, ReaderQuiet
<1>8. CASE BatchDone
  <2>1. /\ doing[Reader] = "batch" /\ doing'[Reader] = "wait" /\ doing'[Main] = doing[Main]
        /\ doing' \in [Threads -> MainStates \cup ReaderStates]
        /\ doing'[Main] \in MainStates /\ doing'[Reader] \in ReaderStates
    BY <1>3, <1>8 DEF BatchDone, ReaderStates
  <2>2. /\ batch = {} /\ UNCHANGED <<head, next, ref, freed, fault, at>>
        /\ UNCHANGED <<epoll, batch, open, closed, running, visited, messages, members, atStart>>
    BY <1>8 DEF BatchDone, hashVars
  <2>3. HashTypeOK'
    BY <1>1, <2>2 DEF HashTypeOK, TypeOK
  <2>4. TypeOK'
    BY <1>1, <2>1, <2>2, <2>3 DEF TypeOK
  <2>5. /\ doing[Main] \notin {"join", "free", "stopped"}
        /\ doing[Main] \in {"accept", "add", "unjoined"} => running
    BY <1>1, <2>1 DEF Where
  <2> QED BY <1>1, <2>1, <2>2, <2>4, <2>5, NoCursor, ReaderQuiet
<1>9. CASE Exit
  <2>1. /\ doing[Reader] = "wait" /\ doing'[Reader] = "exited" /\ doing'[Main] = doing[Main]
        /\ doing' \in [Threads -> MainStates \cup ReaderStates]
        /\ doing'[Main] \in MainStates /\ doing'[Reader] \in ReaderStates
    BY <1>3, <1>9 DEF Exit, ReaderStates
  <2>2. /\ ~running /\ UNCHANGED <<head, next, ref, freed, fault, at>>
        /\ UNCHANGED <<epoll, batch, open, closed, running, visited, messages, members, atStart>>
    BY <1>9 DEF Exit, hashVars
  <2>3. HashTypeOK'
    BY <1>1, <2>2 DEF HashTypeOK, TypeOK
  <2>4. TypeOK'
    BY <1>1, <2>1, <2>2, <2>3 DEF TypeOK
  <2>5. batch = {} /\ doing[Main] \notin {"accept", "add", "unjoined"}
    BY <1>1, <2>1, <2>2 DEF Clients, Where
  <2>6. ~running'
    BY <2>2
  <2> QED BY <1>1, <2>1, <2>2, <2>4, <2>5, <2>6, NoCursor, ReaderQuiet
<1>10. CASE Ping
  <2>1. PICK c \in batch \cap open :
           /\ messages < MaxMessages /\ messages' = messages + 1
           /\ Goes(Reader, "batch", "pong") /\ Touch(c) /\ visited' = <<c>>
           /\ UNCHANGED <<head, next, ref, freed, at, epoll, batch, open, closed, running, members,
                          atStart>>
    BY <1>10 DEF Ping
  <2>2. /\ doing[Reader] = "batch" /\ doing'[Reader] = "pong" /\ doing'[Main] = doing[Main]
        /\ doing' \in [Threads -> MainStates \cup ReaderStates]
        /\ doing'[Main] \in MainStates /\ doing'[Reader] \in ReaderStates
    BY <1>3, <2>1 DEF ReaderStates
  <2>3. c \in Items \ closed /\ batch \subseteq epoll
    BY <1>1, <1>2 DEF Clients
  <2>4. fault' = FALSE
    BY <2>1, <2>3, Touched
  <2>5. HashTypeOK'
    BY <1>1, <2>1, <2>4 DEF HashTypeOK, TypeOK
  <2>6. messages' \in 0 .. MaxMessages /\ visited' \in Seq(Items) /\ visited' # <<>>
        /\ visited'[1] \in open'
    BY <1>1, <2>1, <2>3, MessagesAssumption DEF TypeOK
  <2>7. TypeOK'
    BY <1>1, <1>2, <2>1, <2>2, <2>5, <2>6 DEF TypeOK
  <2>8. doing[Main] \notin {"join", "free", "stopped"}
    BY <1>1, <2>2 DEF Where
  <2>9. doing[Main] \in {"accept", "add", "unjoined"} => running
    BY <1>1, <2>2 DEF Where
  <2> QED BY <1>1, <2>1, <2>2, <2>3, <2>4, <2>6, <2>7, <2>8, <2>9, NoCursor, ReaderQuiet
<1>11. CASE PongDone \/ PongFailed
  <2>1. /\ Goes(Reader, "pong", "batch") /\ Touch(visited[1])
        /\ UNCHANGED <<head, next, ref, freed, at, epoll, batch, open, closed, running, visited,
                       messages, members, atStart>>
    BY <1>11 DEF PongDone, PongFailed, Answered
  <2>2. /\ doing[Reader] = "pong" /\ doing'[Reader] = "batch" /\ doing'[Main] = doing[Main]
        /\ doing' \in [Threads -> MainStates \cup ReaderStates]
        /\ doing'[Main] \in MainStates /\ doing'[Reader] \in ReaderStates
    BY <1>3, <2>1 DEF ReaderStates
  <2>3. visited[1] \in Items \ closed /\ batch \subseteq epoll
    <3>1. \A t \in Threads : doing[t] # "dropping"
      BY <2>2, Apart, Two
    <3>2. visited[1] \in open /\ open \subseteq members
      BY <2>2, <3>1, OpenListed DEF Good, Parts, Opened
    <3> QED BY <1>1, <3>2, Types DEF Clients
  <2>4. fault' = FALSE
    BY <2>1, <2>3, Touched
  <2>5. HashTypeOK'
    BY <1>1, <2>1, <2>4 DEF HashTypeOK, TypeOK
  <2>6. TypeOK'
    BY <1>1, <1>2, <2>1, <2>2, <2>5 DEF TypeOK
  <2>7. doing[Main] \notin {"join", "free", "stopped"}
    BY <1>1, <2>2 DEF Where
  <2>8. doing[Main] \in {"accept", "add", "unjoined"} => running
    BY <1>1, <2>2 DEF Where
  <2> QED BY <1>1, <2>1, <2>2, <2>3, <2>4, <2>6, <2>7, <2>8, NoCursor, ReaderQuiet
<1> QED BY <1>4, <1>5, <1>6, <1>7, <1>8, <1>9, <1>10, <1>11

LEMMA HangUpStep ==
    ASSUME Good, HangUp, raced' \in BOOLEAN, ~Overlap'
    PROVE  Parts'
<1>1. TypeOK /\ Where /\ Clients
  BY DEF Good, Parts
<1>2. PICK c \in batch : DropClient(Reader, c, "batch") /\ batch' = batch \ {c}
  BY DEF HangUp
<1>3. /\ doing[Reader] = "batch" /\ doing'[Reader] = "dropping" /\ doing'[Main] = doing[Main]
      /\ doing' \in [Threads -> MainStates \cup ReaderStates]
      /\ doing'[Main] \in MainStates /\ doing'[Reader] \in ReaderStates
  BY <1>1, <1>2, GoesTo, Two DEF DropClient, MainStates, ReaderStates
<1>4. /\ at[Reader].op = "out" /\ UNCHANGED <<head, next, ref, freed>>
      /\ UNCHANGED <<open, closed, running, visited, messages, members, atStart>>
      /\ epoll' = epoll \ {c} /\ Touch(c)
      /\ at' = [at EXCEPT ![Reader].op = "remove", ![Reader].arg = c]
  BY <1>2 DEF DropClient, Out, Deregistered
<1>5. c \in members /\ c \in epoll /\ c \in Items /\ c \notin closed /\ fault' = FALSE
  <2>1. c \in members /\ c \in epoll /\ c \in Items /\ c \notin closed
    BY <1>1, <1>2, Types DEF Clients
  <2>2. fault' = FALSE
    BY <1>4, <2>1, Touched
  <2> QED BY <2>1, <2>2
<1>6. /\ at' \in [Threads -> Local] /\ at'[Main] = at[Main] /\ at'[Reader].op = "remove"
      /\ at'[Reader].arg = c /\ at'[Reader].tmp = at[Reader].tmp
      /\ at'[Reader].row = at[Reader].row
      /\ at'[Reader].res = at[Reader].res /\ at'[Reader].col = at[Reader].col
  BY <1>1, <1>4, <1>5, SetsCall, Two DEF Pointers
<1>7. TypeOK'
  <2>1. HashTypeOK'
    BY <1>1, <1>4, <1>5, <1>6 DEF HashTypeOK, TypeOK
  <2>2. epoll' \subseteq Items /\ batch' \subseteq Items
    BY <1>1, <1>2, <1>4, Types
  <2> QED BY <1>1, <1>3, <1>4, <2>1, <2>2 DEF TypeOK
<1>8. Between(Reader) /\ Drops(Reader)
  BY <1>3, <1>4, <1>5, <1>6, <1>7, Two DEF Between, Drops
<1>9. Entering' = Entering
  BY <1>8, BetweenSets, Two
<1>10. doing[Main] \in {"accept", "add", "unjoined"} /\ at[Reader].row = NULL
  BY <1>1, <1>3, NoCursor DEF Overlap, Where, TypeOK, MainStates
<1>11. Where'
  BY <1>1, <1>3, <1>4, <1>6, <1>10, Two DEF Where, Begun, Scanning, RemoveOps
<1>12. Clients'
  <2>1. freed' = closed' \cup Leaving({"out"})'
    BY <1>1, <1>4, <1>8, BetweenSets, Two DEF Clients
  <2>2. \A t \in Threads : doing'[t] = "dropping" => at'[t].arg \in members' \ epoll'
    BY <1>3, <1>4, <1>5, <1>6, <1>10, Two
  <2>3. /\ batch' \subseteq epoll' /\ epoll' \subseteq members'
        /\ members' \cap closed' = {} /\ Entering' \cap (members' \cup freed') = {}
    BY <1>1, <1>2, <1>4, <1>9 DEF Clients
  <2>4. doing[Main] = "add" =>
          /\ at[Main].arg \notin epoll /\ (Out(Main) => at[Main].arg \in members)
          /\ c # at[Main].arg
    BY <1>1, <1>5 DEF Clients
  <2> QED BY <1>3, <1>4, <1>6, <2>1, <2>2, <2>3, <2>4 DEF Clients, Out
<1>13. CursorAt(Reader)' /\ Visits'
  BY <1>3, Two DEF CursorAt, Visits, Begun, Scanning
<1> QED BY <1>3, <1>4, <1>8, <1>9, <1>11, <1>12, <1>13, BetweenRest, Two

LEMMA HangUpDoneStep ==
    ASSUME Good, HangUpDone, raced' \in BOOLEAN, ~Overlap'
    PROVE  Parts'
<1> DEFINE c == at[Reader].arg
<1>1. TypeOK /\ Where /\ Clients
  BY DEF Good, Parts
<1>2. /\ doing[Reader] = "dropping" /\ doing'[Reader] = "batch" /\ doing'[Main] = doing[Main]
      /\ doing' \in [Threads -> MainStates \cup ReaderStates]
      /\ doing'[Main] \in MainStates /\ doing'[Reader] \in ReaderStates
  BY <1>1, GoesTo, Two DEF HangUpDone, DropDone, MainStates, ReaderStates
<1>3. /\ at[Reader].op = "out" /\ UNCHANGED <<head, next, ref, freed, at>>
      /\ UNCHANGED <<epoll, batch, running, visited, messages, atStart>> /\ open' = open \ {c}
      /\ closed' = closed \cup {c} /\ members' = members \ {c} /\ Touch(c)
  BY DEF HangUpDone, DropDone, Out
<1>4. c \in members /\ c \in Items /\ c \notin epoll /\ fault' = FALSE
  <2>1. c \in members /\ c \notin epoll
    BY <1>1, <1>2, Two DEF Clients
  <2>2. c \in Items /\ c \notin closed
    BY <1>1, <2>1, Types, Live
  <2>3. fault' = FALSE
    BY <1>3, <2>2, Touched
  <2> QED BY <2>1, <2>2, <2>3
<1>5. TypeOK'
  <2>1. HashTypeOK'
    BY <1>1, <1>3, <1>4 DEF HashTypeOK, TypeOK
  <2> QED BY <1>1, <1>2, <1>3, <1>4, <2>1 DEF TypeOK
<1>6. Between(Reader) /\ Dropped(Reader)
  BY <1>2, <1>3, <1>4, <1>5, Two DEF Between, Dropped
<1>7. Entering' = Entering
  BY <1>3 DEF Entering
<1>8. doing[Main] \in {"accept", "add", "unjoined"} /\ at[Reader].row = NULL
  BY <1>2, Apart, NoCursor
<1>9. Where'
  BY <1>1, <1>2, <1>3, <1>8, Two DEF Where, Begun, Scanning
<1>10. Clients'
  <2>1. freed' = closed' \cup Leaving({"out"})'
    BY <1>1, <1>3, <1>6, BetweenSets, Two DEF Clients
  <2>2. \A t \in Threads : doing'[t] # "dropping"
    BY <1>2, <1>8, Two
  <2>3. doing[Main] = "add" =>
          /\ at[Main].arg \notin epoll /\ (Out(Main) => at[Main].arg \in members)
          /\ c # at[Main].arg
    BY <1>1, <1>2 DEF Clients
  <2>4. /\ batch' \subseteq epoll' /\ epoll' \subseteq members'
        /\ members' \cap closed' = {} /\ Entering' \cap (members' \cup freed') = {}
    BY <1>1, <1>3, <1>4, <1>7 DEF Clients
  <2> QED BY <1>2, <1>3, <2>1, <2>2, <2>3, <2>4, Two DEF Clients, Out
<1>11. CursorAt(Reader)' /\ Visits'
  BY <1>2, Two DEF CursorAt, Visits, Begun, Scanning
<1> QED BY <1>2, <1>3, <1>6, <1>7, <1>9, <1>10, <1>11, BetweenRest, Two

LEMMA MessageStep ==
    ASSUME Good, Message, raced' \in BOOLEAN, ~Overlap'
    PROVE  Parts'
<1>1. TypeOK /\ Where /\ Clients
  BY DEF Good, Parts
<1>2. PICK c \in batch \cap open :
        /\ messages < MaxMessages /\ messages' = messages + 1
        /\ Goes(Reader, "batch", "message") /\ Touch(c)
        /\ visited' = <<>> /\ atStart' = members \cap open
        /\ at' = [at EXCEPT ![Reader].op = "cursor"]
        /\ UNCHANGED <<head, next, ref, freed, epoll, batch, open, closed, running, members>>
  BY DEF Message
<1>3. /\ doing[Reader] = "batch" /\ doing'[Reader] = "message" /\ doing'[Main] = doing[Main]
      /\ doing' \in [Threads -> MainStates \cup ReaderStates]
      /\ doing'[Main] \in MainStates /\ doing'[Reader] \in ReaderStates
  BY <1>1, <1>2, GoesTo, Two DEF MainStates, ReaderStates
<1>4. at[Reader].op = "out" /\ at[Reader].row = NULL
  BY <1>3, NoCursor
<1>5. fault' = FALSE
  <2>1. c \in Items \ closed
    BY <1>1, <1>2, Types DEF Clients
  <2> QED BY <1>2, <2>1, Touched
<1>6. /\ at' \in [Threads -> Local] /\ at'[Main] = at[Main] /\ at'[Reader].op = "cursor"
      /\ at'[Reader].arg = at[Reader].arg
      /\ at'[Reader].tmp = at[Reader].tmp /\ at'[Reader].row = at[Reader].row
      /\ at'[Reader].res = at[Reader].res /\ at'[Reader].col = at[Reader].col
  BY <1>1, <1>2, SetsOp, Two
<1>7. TypeOK'
  <2>1. HashTypeOK'
    BY <1>1, <1>2, <1>5, <1>6 DEF HashTypeOK, TypeOK
  <2>2. messages' \in 0 .. MaxMessages
    BY <1>1, <1>2, MessagesAssumption DEF TypeOK
  <2> QED BY <1>1, <1>2, <1>3, <2>1, <2>2 DEF TypeOK
<1>8. Between(Reader) /\ Keeps(Reader)
  BY <1>2, <1>3, <1>4, <1>5, <1>6, <1>7, Two DEF Between, Keeps
<1>9. Entering' = Entering
  BY <1>8, BetweenSets, Two
<1>10. doing[Main] \notin {"join", "free", "stopped"}
  BY <1>1, <1>3 DEF Where
<1>11. Where'
  BY <1>1, <1>2, <1>3, <1>4, <1>6, <1>10, Two DEF Where, Begun, Scanning, CursorOps
<1>12. Clients'
  <2>1. freed' = closed' \cup Leaving({"out"})'
    BY <1>1, <1>2, <1>8, BetweenSets, Two DEF Clients
  <2>2. \A t \in Threads : doing'[t] = "dropping" => at'[t].arg \in members' \ epoll'
    BY <1>1, <1>2, <1>3, <1>6, Two DEF Clients
  <2> QED BY <1>1, <1>2, <1>3, <1>6, <1>9, <2>1, <2>2, Two DEF Clients, Out
<1>13. CursorAt(Reader)' /\ Visits'
  <2>1. \A t \in Threads : doing'[t] # "dropping" /\ doing[t] # "dropping"
    BY <1>3, Apart, Two DEF Overlap
  <2>2. atStart' = open'
    BY <1>2, <2>1, OpenListed
  <2> QED BY <1>2, <1>6, <2>2 DEF CursorAt, Visits, Begun
<1> QED BY <1>2, <1>3, <1>8, <1>9, <1>11, <1>12, <1>13, BetweenRest, Two

LEMMA RecipientStep ==
    ASSUME Good, Recipient \/ PassOver, raced' \in BOOLEAN, ~Overlap'
    PROVE  Parts'
<1> DEFINE c == at[Reader].res
<1>1. TypeOK /\ Where /\ Clients /\ CursorAt(Reader) /\ Visits
  BY Two DEF Good, Parts
<1>2. /\ doing[Reader] = "message" /\ doing'[Reader] = "message" /\ doing'[Main] = doing[Main]
      /\ doing' \in [Threads -> MainStates \cup ReaderStates]
      /\ doing'[Main] \in MainStates /\ doing'[Reader] \in ReaderStates
  BY <1>1, GoesTo, Two DEF Recipient, PassOver, ToNext, MainStates, ReaderStates
<1>3. /\ at[Reader].op = "out" /\ c # NULL /\ Touch(c)
      /\ visited' = IF c \in open THEN Append(visited, c) ELSE visited
      /\ at' = [at EXCEPT ![Reader].op = "next"]
      /\ UNCHANGED <<head, next, ref, freed, epoll, batch, open, closed, running, messages, members,
                     atStart>>
  BY DEF Recipient, PassOver, ToNext, Out
<1>4. Begun(Reader)
  BY <1>2, <1>3 DEF Begun, Scanning
<1>5. /\ c \in Listed /\ c \in members /\ c \in Items /\ c \notin closed
      /\ Column(c) = at[Reader].col
      /\ at[Reader].row # NULL => Key[at[Reader].row] > Key[c]
  <2>1. /\ c \in Listed /\ Column(c) = at[Reader].col
        /\ at[Reader].row # NULL => Key[at[Reader].row] > Key[c]
    BY <1>1, <1>2, <1>3, <1>4 DEF CursorAt
  <2> QED BY <2>1, Live
<1>6. fault' = FALSE
  BY <1>3, <1>5, Touched
<1>7. /\ at' \in [Threads -> Local] /\ at'[Main] = at[Main] /\ at'[Reader].op = "next"
      /\ at'[Reader].arg = at[Reader].arg
      /\ at'[Reader].tmp = at[Reader].tmp /\ at'[Reader].row = at[Reader].row
      /\ at'[Reader].res = c /\ at'[Reader].col = at[Reader].col
  BY <1>1, <1>3, SetsOp, Two
<1>8. TypeOK'
  <2>1. HashTypeOK'
    BY <1>1, <1>3, <1>6, <1>7 DEF HashTypeOK, TypeOK
  <2>2. visited' \in Seq(Items)
    BY <1>1, <1>3, <1>5, Types
  <2> QED BY <1>1, <1>2, <1>3, <2>1, <2>2 DEF TypeOK
<1>9. Between(Reader) /\ Keeps(Reader)
  BY <1>2, <1>3, <1>6, <1>7, <1>8, Two DEF Between, Keeps
<1>10. Entering' = Entering /\ Listed' = Listed
  BY <1>9, BetweenSets, Two
<1>11. doing[Main] \notin {"join", "free", "stopped"} /\ Begun(Reader)'
  BY <1>1, <1>2, <1>7 DEF Where, Begun, Scanning
<1>12. Where'
  BY <1>1, <1>2, <1>3, <1>7, <1>11, Two DEF Where, Begun, Scanning, CursorOps
<1>13. Clients'
  <2>1. freed' = closed' \cup Leaving({"out"})'
    BY <1>1, <1>3, <1>9, BetweenSets, Two DEF Clients
  <2>2. \A t \in Threads : doing'[t] = "dropping" => at'[t].arg \in members' \ epoll'
    BY <1>1, <1>2, <1>3, <1>7, Two DEF Clients
  <2> QED BY <1>1, <1>2, <1>3, <1>7, <1>10, <2>1, <2>2, Two DEF Clients, Out
<1>14. CursorAt(Reader)'
  BY <1>1, <1>2, <1>4, <1>7, <1>10 DEF CursorAt
<1>15. Visits'
  <2> DEFINE m == Len(visited)
  <2>1. /\ m \in Nat /\ DOMAIN visited = 1 .. m
        /\ \A i \in 1 .. m : visited'[i] = visited[i] /\ visited[i] \in Items
        /\ c \in open => DOMAIN visited' = 1 .. m + 1 /\ visited'[m + 1] = c
        /\ c \notin open => visited' = visited
    BY <1>1, <1>3, <1>5, Types
  <2>2. \A i \in DOMAIN visited' :
          i \in DOMAIN visited \/ (c \in open /\ i = m + 1 /\ visited'[i] = c)
    BY <2>1
  <2>3. ASSUME NEW i \in DOMAIN visited PROVE visited[i] # c
    <3>1. Before(visited[i], c)
      BY <1>1, <1>2, <1>3 DEF Visits
    <3>2. Column(c) \in Nat /\ Key[c] \in Nat
      BY <1>5, KeyType DEF Columns
    <3> QED BY <3>1, <3>2 DEF Before
  <2>4. ASSUME NEW d, Behind(Reader, d) \/ d = c PROVE Behind(Reader, d)'
    BY <1>5, <1>7, <2>4 DEF Behind
  <2>5. ASSUME NEW i \in DOMAIN visited' PROVE Behind(Reader, visited[i])' /\ visited'[i] \in open'
    <3>1. PICK d : d = visited'[i]
      OBVIOUS
    <3>2. d \in open /\ (Behind(Reader, d) \/ d = c)
      <4>1. CASE i \in DOMAIN visited
        <5>1. d = visited[i]
          BY <2>1, <3>1, <4>1
        <5> QED BY <1>1, <1>2, <1>3, <4>1, <5>1 DEF Visits
      <4>2. CASE c \in open /\ visited'[i] = c
        BY <3>1, <4>2
      <4> QED BY <2>2, <4>1, <4>2
    <3>3. Behind(Reader, d)'
      BY <2>4, <3>2
    <3> QED BY <1>3, <3>1, <3>2, <3>3 DEF Behind
  <2>6. ASSUME NEW i \in DOMAIN visited', NEW j \in DOMAIN visited', visited'[i] = visited'[j]
        PROVE  i = j
    BY <1>1, <1>2, <2>1, <2>2, <2>3, <2>6 DEF Visits
  <2>7. ASSUME NEW d \in atStart'
        PROVE  \/ Ahead(Reader, d)' \/ (at'[Reader].op = "out" /\ d = at'[Reader].res)
               \/ \E i \in DOMAIN visited' : visited'[i] = d
    <3>1. CASE Ahead(Reader, d)
      BY <1>7, <3>1 DEF Ahead
    <3>2. CASE d = c
      <4>1. c \in open
        BY <1>1, <1>2, <1>3, <3>2 DEF Visits
      <4> QED BY <2>1, <3>2, <4>1
    <3>3. CASE \E i \in DOMAIN visited : visited[i] = d
      <4>1. DOMAIN visited \subseteq DOMAIN visited'
        BY <2>1
      <4> QED BY <2>1, <3>3, <4>1
    <3> QED BY <1>1, <1>2, <1>3, <3>1, <3>2, <3>3 DEF Visits
  <2>8. atStart' = open'
    BY <1>1, <1>2, <1>3 DEF Visits
  <2> QED BY <1>7, <2>5, <2>6, <2>7, <2>8 DEF Visits
<1> QED BY <1>2, <1>3, <1>9, <1>10, <1>12, <1>13, <1>14, <1>15, BetweenRest, Two
-----------------------------------------------------------------------------
(***************************************************************************)
(* The invariant holds of every step.                                      *)
(***************************************************************************)
LEMMA TableKeeps ==
    ASSUME Good, NEW t \in Threads, TableStep(t), raced' \in BOOLEAN, ~Overlap'
    PROVE  Parts'
<1>1. /\ UNCHANGED <<readerVars, atStart>>
      /\ members' = IF at[t].op \in {"first", "after"} /\ at'[t].op = "out"
                    THEN members \cup {at[t].arg} ELSE members
  BY DEF TableStep
<1>2. at[t].op \in InsertOps => t = Main
  BY Apart, Two
<1>3. at[t].op \notin {"first", "after"} => UNCHANGED <<members, readerVars, atStart>>
  BY <1>1
<1>4. CASE InsertBegin(t)
  <2>1. t = Main
    BY <1>2, <1>4 DEF InsertBegin, InsertOps
  <2>2. UNCHANGED <<members, readerVars, atStart>>
    BY <1>3, <1>4 DEF InsertBegin
  <2> QED BY <1>4, <2>1, <2>2, InsertBeginStep
<1>5. CASE InsertFirst(t)
  <2>1. t = Main
    BY <1>2, <1>5 DEF InsertFirst, InsertOps
  <2>2. members' = IF at'[Main].op = "out" THEN members \cup {at[Main].arg} ELSE members
    BY <1>1, <1>5, <2>1 DEF InsertFirst
  <2> QED BY <1>1, <1>5, <2>1, <2>2, InsertFirstStep
<1>6. CASE InsertReload(t)
  <2>1. t = Main
    BY <1>2, <1>6 DEF InsertReload, InsertOps
  <2>2. UNCHANGED <<members, readerVars, atStart>>
    BY <1>3, <1>6 DEF InsertReload
  <2> QED BY <1>6, <2>1, <2>2, InsertReloadStep
<1>7. CASE InsertWalk(t)
  <2>1. t = Main
    BY <1>2, <1>7 DEF InsertWalk, InsertOps
  <2>2. UNCHANGED <<members, readerVars, atStart>>
    BY <1>3, <1>7 DEF InsertWalk
  <2> QED BY <1>7, <2>1, <2>2, InsertWalkStep
<1>8. CASE InsertAfter(t)
  <2>1. t = Main
    BY <1>2, <1>8 DEF InsertAfter, InsertOps
  <2>2. members' = IF at'[Main].op = "out" THEN members \cup {at[Main].arg} ELSE members
    BY <1>1, <1>8, <2>1 DEF InsertAfter
  <2> QED BY <1>1, <1>8, <2>1, <2>2, InsertAfterStep
<1>9. CASE RemoveBegin(t)
  BY <1>3, <1>9, RemoveBeginStep DEF RemoveBegin
<1>10. CASE RemoveHead(t)
  BY <1>3, <1>10, RemoveHeadStep DEF RemoveHead
<1>11. CASE RemoveFind(t)
  BY <1>3, <1>11, RemoveFindStep DEF RemoveFind
<1>12. CASE RemoveUnlink(t)
  BY <1>3, <1>12, RemoveUnlinkStep DEF RemoveUnlink
<1>13. CASE RemoveUnref(t)
  BY <1>3, <1>13, RemoveUnrefStep DEF RemoveUnref
<1>14. CASE CursorInit(t)
  BY <1>3, <1>14, CursorInitStep DEF CursorInit
<1>15. CASE CursorRow(t)
  BY <1>3, <1>15, CursorRowStep DEF CursorRow
<1>16. CASE CursorColumn(t)
  BY <1>3, <1>16, CursorColumnStep DEF CursorColumn
<1>17. CASE CursorAdvance(t)
  BY <1>3, <1>17, CursorAdvanceStep DEF CursorAdvance
<1>18. CASE CursorEnd(t)
  BY <1>3, <1>18, CursorEndStep DEF CursorEnd
<1> QED BY <1>4, <1>5, <1>6, <1>7, <1>8, <1>9, <1>10, <1>11, <1>12, <1>13, <1>14, <1>15,
           <1>16, <1>17, <1>18 DEF TableStep, HashStep

\* The readers' threads have nothing to run on only when Overlap says so.
LEMMA NotLost ==
    ASSUME Good
    PROVE  ~Lost
<1>1. doing[Main] = "stopped" => doing[Reader] = "exited"
  BY DEF Good, Parts, Where
<1> QED BY <1>1 DEF Lost

LEMMA NextKeeps ==
    ASSUME IInv, [Next]_vars
    PROVE  IInv'
<1>1. CASE UNCHANGED vars
  <2>1. UNCHANGED <<raced, head, next, ref, freed, fault, at, doing, epoll, batch, open, closed,
                    running, visited, messages, members, atStart>>
    BY <1>1 DEF vars, hashVars, readerVars, historyVars
  <2> QED BY <2>1 DEF IInv, Good, Parts, TypeOK, HashTypeOK, Where, Clients, Opened, Balanced,
                 Insertion, Removal, CursorAt, DropsAll, Visits, Overlap, Inserting, Removing, Advancing,
                 Listed, Owned, Held, Leaving, Entering, Begun, Scanning, Ahead, Behind, Before,
                 Out
<1>2. ASSUME Next PROVE IInv'
  <2>1. CASE Halted
    BY <1>1, <2>1 DEF Halted
  <2>2. CASE ~Halted
    <3>1. raced' = (raced \/ Overlap')
      BY <1>2, <2>2 DEF Next, Run
    <3>2. raced \in BOOLEAN /\ raced' \in BOOLEAN
      BY <3>1 DEF IInv, Overlap
    <3>3. CASE raced'
      BY <3>2, <3>3 DEF IInv
    <3>4. CASE ~raced'
      <4>1. ~raced /\ ~Overlap' /\ Good
        BY <3>1, <3>2, <3>4 DEF IInv
      <4>2. \/ MainWork \/ ReaderWork \/ Writes \/ Environment
        BY <1>2, <2>2, <4>1, NotLost DEF Next, Run
      <4>3. ASSUME MainWork PROVE Parts'
        BY <3>2, <4>1, <4>3, EpollAddStep, DropNextStep, DropNextDoneStep, AllDroppedStep,
           JoinStep, StopStep, StopNothingOverlaps, FreeStep, TableKeeps, Two DEF MainWork
      <4>4. ASSUME ReaderWork PROVE Parts'
        BY <3>2, <4>1, <4>4, QuietSteps, HangUpStep, HangUpDoneStep, MessageStep, RecipientStep,
           TableKeeps, Two DEF ReaderWork
      <4>5. ASSUME Writes PROVE Parts'
        BY <3>2, <4>1, <4>5, QuietSteps, RecipientStep DEF Writes
      <4>6. ASSUME Environment PROVE Parts'
        BY <3>2, <4>1, <4>6, StopStep, StopEarlyStep, QuietSteps, AddClientStep DEF Environment
      <4> QED BY <3>2, <4>1, <4>2, <4>3, <4>4, <4>5, <4>6 DEF IInv, Good
    <3> QED BY <3>3, <3>4
  <2> QED BY <2>1, <2>2
<1> QED BY <1>1, <1>2

LEMMA InitHolds ==
    ASSUME Init
    PROVE  IInv
<1>1. /\ head = [k \in Columns |-> NULL] /\ next = [c \in Items |-> NULL]
      /\ ref = [c \in Items |-> 0] /\ freed = {} /\ fault = FALSE
      /\ at = [t \in Threads |-> [op |-> "out", arg |-> NULL, tmp |-> NULL, nxt |-> NULL,
                                  col |-> 0, row |-> NULL, res |-> NULL]]
      /\ epoll = {} /\ batch = {} /\ open = {} /\ closed = {} /\ running = FALSE
      /\ visited = <<>> /\ messages = 0 /\ members = {} /\ atStart = {} /\ raced = FALSE
  BY DEF Init, HashInit
<1>2. doing[Main] = "accept" /\ doing[Reader] = "starting"
      /\ doing \in [Threads -> MainStates \cup ReaderStates]
  BY Two DEF Init, MainStates, ReaderStates
<1>3. \A t \in Threads : at[t].op = "out" /\ at[t].row = NULL
  BY <1>1
<1>4. TypeOK
  <2>1. 0 \in Columns
    BY KeyType DEF Columns
  <2>2. [op |-> "out", arg |-> NULL, tmp |-> NULL, nxt |-> NULL, col |-> 0, row |-> NULL,
         res |-> NULL] \in Local
    BY <2>1 DEF Local, Pointers
  <2>3. at \in [Threads -> Local]
    BY <1>1, <2>2
  <2>4. /\ head \in [Columns -> Pointers] /\ next \in [Items -> Pointers]
        /\ ref \in [Items -> Int] /\ freed \subseteq Items
    BY <1>1 DEF Pointers
  <2>5. HashTypeOK
    BY <1>1, <2>3, <2>4 DEF HashTypeOK
  <2>6. messages \in 0 .. MaxMessages /\ visited \in Seq(Items)
    BY <1>1, MessagesAssumption
  <2> QED BY <1>1, <1>2, <2>5, <2>6 DEF TypeOK, MainStates, ReaderStates
<1>5. (\A ops : Leaving(ops) = {}) /\ Entering = {} /\ Listed = {} /\ Owned = {}
      /\ \A t \in Threads : Held(t) = {} /\ ~Begun(t)
  <2>1. \A t \in Threads : doing[t] \notin {"dropping", "dropall", "message"}
    BY <1>2, Two
  <2>2. \A ops : Leaving(ops) = {}
    BY <2>1 DEF Leaving
  <2>3. Entering = {}
    BY <1>3, Two DEF Entering, InsertOps
  <2>4. \A t \in Threads : Held(t) = {} /\ ~Begun(t)
    BY <1>3, <2>1 DEF Held, Begun, Scanning
  <2> QED BY <1>1, <2>2, <2>3, <2>4 DEF Listed, Owned
<1>6. Where /\ Clients /\ Opened
  BY <1>1, <1>2, <1>3, <1>5, Two DEF Where, Clients, Opened
<1>7. Balanced
  <2>1. ASSUME NEW c \in Items
        PROVE  ref[c] = Bit(c \in Owned) + Bit(c \in Held(Main)) + Bit(c \in Held(Reader))
    <3>1. ref[c] = 0 /\ c \notin Owned /\ c \notin Held(Main) /\ c \notin Held(Reader)
      BY <1>1, <1>5, Two
    <3> QED BY <3>1 DEF Bit
  <2> QED BY <2>1 DEF Balanced
<1>8. Chained(Listed, head, next)
  BY <1>1, <1>5 DEF Chained, FirstAbove
<1>9. Insertion /\ (\A t \in Threads : Removal(t) /\ CursorAt(t)) /\ DropsAll /\ Visits
  BY <1>2, <1>3, <1>5, Two DEF Insertion, Removal, CursorAt, DropsAll, Visits
<1>10. ~Overlap
  BY <1>2, <1>3, Two DEF Overlap, Inserting, InsertOps
<1> QED BY <1>1, <1>4, <1>6, <1>7, <1>8, <1>9, <1>10 DEF IInv, Good, Parts

\* The invariant that the properties below follow from.
THEOREM ClientTableInvariant == Spec => []IInv
<1>1. Init => IInv
  BY InitHolds
<1>2. IInv /\ [Next]_vars => IInv'
  BY NextKeeps
<1> QED BY <1>1, <1>2, PTL DEF Spec
-----------------------------------------------------------------------------
(***************************************************************************)
(* The properties.                                                         *)
(***************************************************************************)
\* Every variable keeps its type until something has raced: a fault may then have
\* left the outcome of a step undefined.
THEOREM ClientTableTypes == Spec => [](~raced => TypeOK)
<1>1. IInv => (~raced => TypeOK)
  BY DEF IInv, Good, Parts
<1> QED BY <1>1, ClientTableInvariant, PTL

\* No pointer to an item or client that was freed, nor NULL, is followed by hk_hash.c
\* or its callers, as long as calls do not overlap in the ways Overlap names.
THEOREM ClientTableFaultOnlyWhenRaced == Spec => []FaultOnlyWhenRaced
<1>1. IInv => FaultOnlyWhenRaced
  BY DEF IInv, Good, Parts, FaultOnlyWhenRaced
<1> QED BY <1>1, ClientTableInvariant, PTL

\* hk_hash_insert and hk_hash_remove keep every column: it has the clients added and
\* not dropped, in the order of their keys, whatever the reader thread does meanwhile.
THEOREM ClientTableTableExact == Spec => []TableExact
<1>1. ASSUME IInv, ~raced, NEW col \in Columns, ~Dropping(col)
      PROVE  /\ InColumn(col) = {c \in members : Column(c) = col}
             /\ \A c \in InColumn(col) : next[c] # NULL => Key[next[c]] > Key[c]
  <2>1. Listed \subseteq Items /\ Listed \subseteq members /\ Chained(Listed, head, next)
    BY <1>1, Live DEF IInv
  <2>2. InColumn(col) = {c \in Listed : Column(c) = col}
    BY <2>1, ChainedInColumn
  <2>3. \A c \in members : Column(c) = col => c \in Listed
    BY <1>1 DEF Listed, Leaving, Dropping
  <2>4. \A c \in InColumn(col) : next[c] # NULL => Key[next[c]] > Key[c]
    BY <2>1, <2>2 DEF Chained, FirstAbove
  <2> QED BY <2>1, <2>2, <2>3, <2>4
<1>2. IInv => TableExact
  BY <1>1 DEF TableExact
<1> QED BY <1>2, ClientTableInvariant, PTL

\* A message passed on with a cursor of hk_hash.c goes to each client that was open when
\* it began, once, and to no other, while hk_reader_add_client adds clients; each of
\* them is in the table and registered with epoll.
THEOREM ClientTableMessageReachesAll == Spec => []MessageReachesAll
<1>1. ASSUME IInv, ~raced, doing[Reader] = "message", Out(Reader), at[Reader].res = NULL
      PROVE  LET reached == {visited[i] : i \in DOMAIN visited}
             IN  /\ Cardinality(reached) = Len(visited)
                 /\ reached = atStart /\ reached \subseteq members \cap epoll
  <2> DEFINE reached == {visited[i] : i \in DOMAIN visited}
             m == Len(visited)
  <2>1. Good /\ Visits /\ at[Reader].op = "out" /\ Begun(Reader)
    BY <1>1 DEF IInv, Good, Parts, Out, Begun, Scanning
  <2>2. /\ \A i \in DOMAIN visited : visited[i] \in open
        /\ \A i, j \in DOMAIN visited : visited[i] = visited[j] => i = j
        /\ atStart = open
        /\ \A c \in atStart : \/ Ahead(Reader, c) \/ c = NULL
                              \/ \E i \in DOMAIN visited : visited[i] = c
    BY <1>1, <2>1 DEF Visits
  <2>3. m \in Nat /\ DOMAIN visited = 1 .. m /\ visited \in [1 .. m -> reached]
    <3>1. visited \in Seq(Items)
      BY <2>1, Types DEF Good, Parts
    <3>2. m \in Nat /\ DOMAIN visited = 1 .. m /\ visited = [i \in 1 .. m |-> visited[i]]
      BY <3>1
    <3> HIDE DEF m
    <3> QED BY <3>2
  <2>4. Cardinality(reached) = m
    <3>1. visited \in Bijection(1 .. m, reached)
      BY <2>2, <2>3 DEF Bijection, Injection, Surjection, IsInjective
    <3>2. ExistsBijection(1 .. m, reached)
      BY <3>1 DEF ExistsBijection
    <3> HIDE DEF m, reached
    <3> QED BY <2>3, <3>2, FS_CountingElements
  <2>5. /\ \A t \in Threads : doing[t] # "dropping"
        /\ open \subseteq epoll /\ open \subseteq members
    <3>1. \A t \in Threads : doing[t] # "dropping"
      BY <1>1, <2>1, Apart, Two
    <3> QED BY <2>1, <3>1, OpenListed
  <2>6. ASSUME NEW c \in atStart PROVE c \in reached
    <3>1. c \in Listed /\ c # NULL
      BY <2>1, <2>2, <2>5, <2>6, Types, KeyType DEF Listed, Leaving, Good, Parts
    <3>2. ~Ahead(Reader, c)
      BY <1>1, <2>1, <3>1, NoneAhead, Two
    <3> QED BY <2>2, <3>1, <3>2
  <2> QED BY <2>2, <2>4, <2>5, <2>6
<1>2. IInv => MessageReachesAll
  BY <1>1 DEF MessageReachesAll
<1> QED BY <1>2, ClientTableInvariant, PTL

\* Every reference a cursor takes is given back: while none is in use, an item in the
\* table has that of the table, and one taken out has none and is freed.
THEOREM ClientTableReferencesBalance == Spec => []ReferencesBalance
<1>1. ASSUME IInv, ~raced, doing[Reader] \in {"wait", "batch"}, doing[Main] = "accept"
      PROVE  (\A c \in members : ref[c] = 1 /\ c \notin freed) /\ closed = freed
  <2>1. Good /\ Clients /\ Balanced /\ Where /\ members \subseteq Items
    BY <1>1, Types DEF IInv, Good, Parts
  <2>2. \A ops : Leaving(ops) = {}
    BY <1>1, Two DEF Leaving
  <2>3. \A t \in Threads : Held(t) = {}
    <3>1. \A t \in Threads : ~Begun(t)
      BY <1>1, Two DEF Begun, Scanning
    <3> QED BY <1>1, <2>1, <3>1, Two DEF Where, Held
  <2>4. ASSUME NEW c \in members PROVE ref[c] = 1 /\ c \notin freed
    <3>1. c \in Owned /\ c \in Items
      BY <2>1, <2>2 DEF Owned
    <3>2. c \notin Held(Main) /\ c \notin Held(Reader)
      BY <2>3, Two
    <3> QED BY <2>1, <3>1, <3>2, Live DEF Balanced, Bit
  <2> QED BY <2>1, <2>2, <2>4 DEF Clients
<1>2. IInv => ReferencesBalance
  BY <1>1 DEF ReferencesBalance
<1> QED BY <1>2, ClientTableInvariant, PTL

\* hk_reader_stop drops every client before the reader is freed, and the table is empty.
THEOREM ClientTableStopClosesAll == Spec => []StopClosesAll
<1>1. ASSUME IInv, ~raced, doing[Main] \in {"join", "free", "stopped"}
      PROVE  /\ members = {} /\ epoll = {} /\ freed = closed
             /\ doing[Main] # "join" => doing[Reader] = "exited"
             /\ \A col \in Columns : head[col] = NULL
             /\ \A c \in Items : ref[c] = 0
  <2>1. Good /\ Clients /\ Balanced /\ Where
    BY <1>1 DEF IInv, Good, Parts
  <2>2. /\ members = {} /\ doing[Reader] \in {"wait", "exited"}
        /\ doing[Main] # "join" => doing[Reader] = "exited"
        /\ \A t \in Threads : at[t].op = "out"
    BY <1>1, <2>1, Two DEF Where
  <2>3. (\A ops : Leaving(ops) = {}) /\ Entering = {}
    BY <1>1, <2>2, Two DEF Leaving, Entering, InsertOps
  <2>4. \A t \in Threads : Held(t) = {}
    <3>1. \A t \in Threads : ~Begun(t)
      BY <1>1, <2>2, Two DEF Begun, Scanning
    <3> QED BY <2>1, <2>2, <3>1 DEF Where, Held
  <2>5. Listed = {} /\ Owned = {}
    BY <2>2, <2>3 DEF Listed, Owned
  <2>6. ASSUME NEW col \in Columns PROVE head[col] = NULL
    <3>1. FirstAbove(Listed, col, -1, head[col])
      BY <2>1, Live DEF Chained
    <3> QED BY <2>5, <3>1 DEF FirstAbove
  <2>7. ASSUME NEW c \in Items PROVE ref[c] = 0
    <3>1. c \notin Owned /\ c \notin Held(Main) /\ c \notin Held(Reader)
      BY <2>4, <2>5, Two
    <3> QED BY <2>1, <3>1 DEF Balanced, Bit
  <2> QED BY <2>1, <2>2, <2>3, <2>6, <2>7 DEF Clients
<1>2. IInv => StopClosesAll
  BY <1>1 DEF StopClosesAll
<1> QED BY <1>2, ClientTableInvariant, PTL
=============================================================================
