---------------------------- MODULE MCRWMutex ----------------------------
(***************************************************************************)
(* A small instance of the reader-writer mutex: four threads and room for  *)
(* three readers, so that the limit of readers is met.                     *)
(***************************************************************************)
EXTENDS RWMutex

CONSTANTS t1, t2, t3, t4

Four == {t1, t2, t3, t4}
=============================================================================
