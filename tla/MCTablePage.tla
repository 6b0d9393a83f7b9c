---------------------------- MODULE MCTablePage ----------------------------
(***************************************************************************)
(* A page with room for up to four tuples of one, two or three bytes, so   *)
(* that tuples grow, shrink, fill the page and leave gaps to close.        *)
(***************************************************************************)
EXTENDS TablePage

Tuples == {[value |-> "a", size |-> 1], [value |-> "b", size |-> 2], [value |-> "c", size |-> 3]}
=============================================================================
