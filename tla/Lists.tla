------------------------------- MODULE Lists -------------------------------
(***************************************************************************)
(* The std::list and std::deque operations of the models, on sequences.    *)
(* SequencesExt has the same three operators; it also brings in Bags with  *)
(* all its theorems, which every obligation of a proof would then carry.   *)
(***************************************************************************)
EXTENDS Integers, Sequences, FiniteSetsExt

\* list::erase at position i.
RemoveAt(list, i) == SubSeq(list, 1, i - 1) \o SubSeq(list, i + 1, Len(list))

\* back() and what pop_back() leaves.
Last(list) == list[Len(list)]
Front(list) == SubSeq(list, 1, Len(list) - 1)
=============================================================================
