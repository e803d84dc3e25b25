-------------------------------- MODULE Hash ---------------------------------
(***************************************************************************)
(* hk_hash.c as threads share it: columns of items linked in key order.    *)
(* An action is what a thread in hk_hash_insert, hk_hash_remove or a       *)
(* cursor does between two writes to the table.  An item is named by the   *)
(* client it holds.  Keys are hashes of distinct client ids and distinct   *)
(* themselves, so the duplicate branch of hk_hash_insert is not taken.     *)
(* To follow NULL or an item that was freed has no defined outcome:        *)
(* `fault' is set and the threads stop.  Freed memory is not reused.       *)
(***************************************************************************)
EXTENDS Integers

CONSTANTS
    Items,          \* the items that may be inserted, each once
    Key,            \* hk_murmurhash3 of their keys
    Scale,          \* hash->scale
    Threads,
    NULL

ASSUME HashAssumption ==
    /\ Scale \in Nat \ {0}
    /\ Key \in [Items -> Nat] /\ \A a, b \in Items : Key[a] = Key[b] => a = b
    /\ NULL \notin Items

VARIABLES
    head,           \* hash->items
    next,           \* item->next
    ref,            \* item->ref
    freed,          \* items given back by hk_hash_item_free
    fault,          \* a pointer was followed that leads nowhere
    at              \* what each thread is doing in hk_hash.c, see Local

hashVars == <<head, next, ref, freed, fault, at>>

Columns   == 0 .. Scale - 1
Column(c) == Key[c] % Scale
Pointers  == Items \cup {NULL}

InsertOps == {"insert", "first", "reload", "walk", "after"}
RemoveOps == {"remove", "unhead", "find", "unlink", "unref"}
CursorOps == {"cursor", "next", "advance"}

\* op: the point reached ("out": outside); arg: the item to insert or remove;
\* tmp, nxt: tmp_item and a pointer loaded and not yet stored; col, row: the
\* cursor; res: what hk_hash_cursor_next returned.
Local == [op : {"out"} \cup InsertOps \cup RemoveOps \cup CursorOps, arg : Pointers,
          tmp : Pointers, nxt : Pointers, col : Columns, row : Pointers, res : Pointers]

HashTypeOK ==
    /\ head \in [Columns -> Pointers] /\ next \in [Items -> Pointers]
    /\ ref \in [Items -> Int] /\ freed \subseteq Items
    /\ fault \in BOOLEAN
    /\ at \in [Threads -> Local]

HashInit ==
    /\ head = [k \in Columns |-> NULL] /\ next = [c \in Items |-> NULL]
    /\ ref = [c \in Items |-> 0] /\ freed = {}
    /\ fault = FALSE
    /\ at = [t \in Threads |-> [op |-> "out", arg |-> NULL, tmp |-> NULL, nxt |-> NULL,
                                col |-> 0, row |-> NULL, res |-> NULL]]

Out(t) == at[t].op = "out"

\* Thread t calls into hk_hash.c.
Call(t, op, c) ==
    /\ Out(t)
    /\ at' = [at EXCEPT ![t].op = op, ![t].arg = c]
    /\ UNCHANGED <<head, next, freed, fault>>

CallInsert(t, c)   == Call(t, "insert", c) /\ ref' = [ref EXCEPT ![c] = 1]
CallRemove(t, c)   == Call(t, "remove", c) /\ UNCHANGED ref
CallCursorInit(t)  == Call(t, "cursor", NULL) /\ UNCHANGED ref
CallCursorNext(t)  == Call(t, "next", NULL) /\ UNCHANGED ref

\* The pointers in ps are followed.
Follow(ps) == fault' = (NULL \in ps \/ ps \cap freed # {})

\* hk_hash_item_unref: with the last reference the item is freed, its fields
\* cleared.
Unref(c) ==
    /\ ref' = [ref EXCEPT ![c] = @ - 1]
    /\ freed' = IF ref[c] = 1 THEN freed \cup {c} ELSE freed
    /\ next' = IF ref[c] = 1 THEN [next EXCEPT ![c] = NULL] ELSE next
-----------------------------------------------------------------------------
(***************************************************************************)
(* hk_hash_insert.                                                         *)
(***************************************************************************)
\* The inner loop stops before the first item with a greater key.
StopsBeforeOnlyEnd(n, new) == n = NULL              \* mutant: keys not compared
StopsBefore(n, new) == n = NULL \/ Key[n] > Key[new]

\* new_item->next = n.
LinkedNot(new, n) == next                           \* mutant: assignment missing
Linked(new, n) == [next EXCEPT ![new] = n]

\* Where the outer loop goes on when the compare and set of the head fails.
FirstRetryStale == "first"                          \* mutant: head not read again
FirstRetry == "insert"

InsertBegin(t) ==
    LET new    == at[t].arg
        first  == head[Column(new)]
        before == StopsBefore(first, new)
    IN  /\ at[t].op = "insert"
        /\ Follow({first} \ {NULL})
        /\ at' = [at EXCEPT ![t].op = IF before THEN "first" ELSE "reload", ![t].tmp = first]
        /\ next' = IF before THEN Linked(new, first) ELSE next
        /\ UNCHANGED <<head, ref, freed>>

\* "first item is free", "insert before first item": compare and set the head.
InsertFirst(t) ==
    LET col  == Column(at[t].arg)
        same == head[col] = at[t].tmp
    IN  /\ at[t].op = "first"
        /\ at' = [at EXCEPT ![t].op = IF same THEN "out" ELSE FirstRetry]
        /\ head' = IF same THEN [head EXCEPT ![col] = at[t].arg] ELSE head
        /\ UNCHANGED <<next, ref, freed, fault>>

\* The walk starts from the first item as it is by now.
InsertReload(t) ==
    /\ at[t].op = "reload"
    /\ at' = [at EXCEPT ![t].op = "walk", ![t].tmp = head[Column(at[t].arg)]]
    /\ UNCHANGED <<head, next, ref, freed, fault>>

\* One turn of the inner loop; where it stops, new_item->next is set.
InsertWalk(t) ==
    LET new == at[t].arg
        n   == IF at[t].tmp = NULL THEN NULL ELSE next[at[t].tmp]
    IN  /\ at[t].op = "walk"
        /\ Follow({at[t].tmp} \cup ({n} \ {NULL}))
        /\ IF StopsBefore(n, new)
           THEN at' = [at EXCEPT ![t].op = "after"] /\ next' = Linked(new, n)
           ELSE at' = [at EXCEPT ![t].tmp = n] /\ UNCHANGED next
        /\ UNCHANGED <<head, ref, freed>>

\* Compare and set tmp_item->next.
InsertAfter(t) ==
    LET new  == at[t].arg
        same == next[at[t].tmp] = next[new]
    IN  /\ at[t].op = "after"
        /\ Follow({at[t].tmp})
        /\ at' = [at EXCEPT ![t].op = IF same THEN "out" ELSE "reload"]
        /\ next' = IF same THEN [next EXCEPT ![at[t].tmp] = new] ELSE next
        /\ UNCHANGED <<head, ref, freed>>
-----------------------------------------------------------------------------
(***************************************************************************)
(* hk_hash_remove.                                                         *)
(***************************************************************************)
RemoveBegin(t) ==
    LET c     == at[t].arg
        first == head[Column(c)]
    IN  /\ at[t].op = "remove"
        /\ Follow({first} \ {NULL})
        /\ at' = IF first = c
                 THEN [at EXCEPT ![t].op = "unhead", ![t].nxt = next[c]]
                 ELSE [at EXCEPT ![t].op = IF first = NULL \/ Key[first] > Key[c]
                                           THEN "out" ELSE "find",
                                 ![t].tmp = first]
        /\ UNCHANGED <<head, next, ref, freed>>

\* The first item is taken off with a plain store.
RemoveHead(t) ==
    /\ at[t].op = "unhead"
    /\ head' = [head EXCEPT ![Column(at[t].arg)] = at[t].nxt]
    /\ at' = [at EXCEPT ![t].op = "unref"]
    /\ UNCHANGED <<next, ref, freed, fault>>

\* One turn of the loop.
RemoveFind(t) ==
    LET c == at[t].arg
        n == next[at[t].tmp]
    IN  /\ at[t].op = "find"
        /\ Follow({at[t].tmp} \cup ({n} \ {NULL}))
        /\ at' = IF n = c
                 THEN [at EXCEPT ![t].op = "unlink", ![t].nxt = next[c]]
                 ELSE IF n # NULL /\ Key[n] < Key[c]
                 THEN [at EXCEPT ![t].tmp = n]
                 ELSE [at EXCEPT ![t].op = "out"]
        /\ UNCHANGED <<head, next, ref, freed>>

\* Compare and set tmp_item->next; whether it succeeds is not looked at.
RemoveUnlink(t) ==
    /\ at[t].op = "unlink"
    /\ Follow({at[t].tmp})
    /\ next' = IF next[at[t].tmp] = at[t].arg
               THEN [next EXCEPT ![at[t].tmp] = at[t].nxt] ELSE next
    /\ at' = [at EXCEPT ![t].op = "unref"]
    /\ UNCHANGED <<head, ref, freed>>

RemoveUnref(t) ==
    /\ at[t].op = "unref"
    /\ Follow({at[t].arg})
    /\ Unref(at[t].arg)
    /\ at' = [at EXCEPT ![t].op = "out"]
    /\ UNCHANGED head
-----------------------------------------------------------------------------
(***************************************************************************)
(* hk_hash_cursor_init, hk_hash_cursor_next.  A cursor holds a reference   *)
(* on its row; the first row of a further column is returned without one.  *)
(***************************************************************************)
ReferencedNot(p) == ref                             \* mutant: hk_hash_item_ref missing
Referenced(p) == IF p = NULL THEN ref ELSE [ref EXCEPT ![p] = @ + 1]

CursorInit(t) ==
    /\ at[t].op = "cursor"
    /\ Follow({head[0]} \ {NULL})
    /\ ref' = Referenced(head[0])
    /\ at' = [at EXCEPT ![t].op = "next", ![t].col = 0, ![t].row = head[0]]
    /\ UNCHANGED <<head, next, freed>>

\* The row to unreference when the cursor moves on.
OldNever(row, held)  == NULL                        \* mutant: unref missing
OldAlways(row, held) == row                         \* mutant: also a row never referenced
Old(row, held) == IF held THEN row ELSE NULL

\* The item after the row to return is referenced.
ReturnRow(t, row, held) ==
    /\ Follow({row} \cup ({next[row]} \ {NULL}))
    /\ ref' = Referenced(next[row])
    /\ at' = [at EXCEPT ![t].op = "advance", ![t].res = row,
                        ![t].tmp = Old(row, held), ![t].row = row,
                        ![t].col = IF held THEN @ ELSE @ + 1]
    /\ UNCHANGED <<head, next, freed>>

CursorRow(t) ==
    /\ at[t].op = "next" /\ at[t].row # NULL
    /\ ReturnRow(t, at[t].row, TRUE)

MoreColumnsShort(t) == at[t].col < Scale - 2        \* mutant: off by one
MoreColumns(t) == at[t].col < Scale - 1

CursorColumn(t) ==
    /\ at[t].op = "next" /\ at[t].row = NULL /\ MoreColumns(t)
    /\ IF head[at[t].col + 1] # NULL
       THEN ReturnRow(t, head[at[t].col + 1], FALSE)
       ELSE /\ at' = [at EXCEPT ![t].col = @ + 1]
            /\ UNCHANGED <<head, next, ref, freed, fault>>

\* row->next is read again; the reference on the old row goes.
CursorAdvance(t) ==
    /\ at[t].op = "advance"
    /\ Follow({at[t].row})
    /\ at' = [at EXCEPT ![t].op = "out", ![t].row = next[@]]
    /\ IF at[t].tmp = NULL THEN UNCHANGED <<next, ref, freed>> ELSE Unref(at[t].tmp)
    /\ UNCHANGED head

CursorEnd(t) ==
    /\ at[t].op = "next" /\ at[t].row = NULL /\ ~MoreColumns(t)
    /\ at' = [at EXCEPT ![t].op = "out", ![t].res = NULL]
    /\ UNCHANGED <<head, next, ref, freed, fault>>

-----------------------------------------------------------------------------
\* The items reachable from the head of a column: those of every set that has the
\* head and with an item the next one.
InColumn(col) ==
    {c \in Items : \A S \in SUBSET Items :
        head[col] \in S \cup {NULL} /\ (\A d \in S : next[d] \in S \cup {NULL}) => c \in S}

\* hk_hash_free, in a step: it is called when no other thread should be left.
HashFree ==
    LET linked == UNION {InColumn(col) : col \in Columns}
        last   == {c \in linked : ref[c] = 1}
    IN  /\ Follow(linked)
        /\ ref' = [c \in Items |-> IF c \in linked THEN ref[c] - 1 ELSE ref[c]]
        /\ freed' = freed \cup last
        /\ next' = [c \in Items |-> IF c \in last THEN NULL ELSE next[c]]
        /\ UNCHANGED <<head, at>>

HashStep(t) ==
    \/ InsertBegin(t) \/ InsertFirst(t) \/ InsertReload(t) \/ InsertWalk(t) \/ InsertAfter(t)
    \/ RemoveBegin(t) \/ RemoveHead(t) \/ RemoveFind(t) \/ RemoveUnlink(t) \/ RemoveUnref(t)
    \/ CursorInit(t) \/ CursorRow(t) \/ CursorColumn(t) \/ CursorAdvance(t) \/ CursorEnd(t)
=============================================================================
