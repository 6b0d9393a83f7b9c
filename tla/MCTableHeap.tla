---------------------------- MODULE MCTableHeap ----------------------------
(***************************************************************************)
(* A table whose first page is full, with a small and a large tuple, and   *)
(* room for a second page. Tuples of size 1 can be replaced and inserted;  *)
(* one tuple is too large for any page.                                    *)
(***************************************************************************)
EXTENDS TableHeap

a == [value |-> "a", size |-> 1]
b == [value |-> "b", size |-> 1]
c == [value |-> "c", size |-> 2]
huge == [value |-> "huge", size |-> 9]

MCTuple == {b, huge}
MCLoaded == <<a, c>>
MCRID == {1, 2} \X (1..3)
=============================================================================
