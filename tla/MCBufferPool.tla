---------------------------- MODULE MCBufferPool ----------------------------
(***************************************************************************)
(* Small buffer pools: fewer frames than pages, so that pages are evicted  *)
(* and come back, and two clients.                                         *)
(***************************************************************************)
EXTENDS BufferPool, TLC

CONSTANTS c1, c2, d1, d2

Clients == {c1, c2}
OneContent == {d1}
TwoContents == {d1, d2}
Symmetry == Permutations(Client) \union Permutations(Content)
=============================================================================
