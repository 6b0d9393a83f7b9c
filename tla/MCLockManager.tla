--------------------------- MODULE MCLockManager ---------------------------
(***************************************************************************)
(* A small instance of the lock manager: three transactions, so that two   *)
(* shared holders can be joined by a waiter of either kind, and two        *)
(* records, so that waits can cross.                                       *)
(***************************************************************************)
EXTENDS LockManager, TLC

CONSTANTS r1, r2

Records == {r1, r2}
Symmetry == Permutations(Records)
=============================================================================
