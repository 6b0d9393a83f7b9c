---------------------------- MODULE LRUReplacer ----------------------------
(***************************************************************************)
(* The replacer of the buffer pool (src/src/buffer/lru_replacer.cpp) as    *)
(* operators on lru_list_. lru_key_itr_map_ finds a value's place in the   *)
(* list and has the list's values for keys. Every operation runs under     *)
(* lru_replacer_latch_.                                                    *)
(***************************************************************************)
EXTENDS Lists

\* The list without the value, if it is there.
Erase(list, value) ==
    IF value \in Range(list)
    THEN RemoveAt(list, CHOOSE i \in DOMAIN list : list[i] = value)
    ELSE list

\* The value goes to the front, from wherever it was.
Insert(list, value) == <<value>> \o Erase(list, value)

\* The value that has been in the list longest is at the back.
Victim(list) == list[Len(list)]

AfterVictim(list) == SubSeq(list, 1, Len(list) - 1)
=============================================================================
