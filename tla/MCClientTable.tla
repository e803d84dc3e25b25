---------------------------- MODULE MCClientTable -----------------------------
(***************************************************************************)
(* Three clients that share a column, or one of two columns; the ids of    *)
(* clients are handed out in turn, but their hashes come in any order.     *)
(***************************************************************************)
EXTENDS ClientTableSafety, TLC
CONSTANTS c1, c2, c3

Clients    == {c1, c2, c3}
BothThreads == {"main", "reader"}
OneColumn  == c1 :> 1 @@ c2 :> 2 @@ c3 :> 3
TwoColumns == c1 :> 0 @@ c2 :> 1 @@ c3 :> 2
=============================================================================
