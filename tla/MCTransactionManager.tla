----------------------- MODULE MCTransactionManager -----------------------
(***************************************************************************)
(* Small instances of the transaction manager, with one or two records.    *)
(***************************************************************************)
EXTENDS TransactionManager

CONSTANTS r1, r2

OneRecord == {r1}
Records == {r1, r2}
=============================================================================
