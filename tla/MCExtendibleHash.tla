------------------------- MODULE MCExtendibleHash -------------------------
(***************************************************************************)
(* A small hash table. The keys 0 and 4 part only at the third bit, so     *)
(* that one insertion doubles the directory more than once and the records *)
(* of a split bucket may all stay together.                                *)
(***************************************************************************)
EXTENDS ExtendibleHash, TLC

CONSTANTS f1, f2

Keys == {0, 1, 2, 3, 4}
Frames == {f1, f2}
Symmetry == Permutations(Value)
=============================================================================
