---------------------------- MODULE UniqueIndex ----------------------------
(***************************************************************************)
(* What an index promises its callers (src/src/include/index/index.h, and  *)
(* the comments on BPlusTree's GetValue, Insert and Remove): a map from    *)
(* keys to values in which every call takes effect at one moment between   *)
(* its start and its return. A second insertion of a key is refused.       *)
(***************************************************************************)
EXTENDS Sequences, TLC

CONSTANTS Key, Value, Thread

VARIABLES
    map,    \* the value of each key that is in the index
    answer  \* what the call of each thread is about to return, if anything

indexVars == <<map, answer>>

Found(key) == IF key \in DOMAIN map THEN <<map[key]>> ELSE <<>>

IndexInit == map = <<>> /\ answer = [t \in Thread |-> <<>>]

Answer(t, result) ==
    /\ answer[t] = <<>>
    /\ answer' = [answer EXCEPT ![t] = result]

Insert(t, key, value) ==
    /\ Answer(t, <<"Insert", key, Found(key) = <<>> >>)
    /\ map' = map @@ (key :> value)

Remove(t, key) ==
    /\ Answer(t, <<"Remove", key>>)
    /\ map' = [k \in DOMAIN map \ {key} |-> map[k]]

GetValue(t, key) ==
    /\ Answer(t, <<"GetValue", key, Found(key)>>)
    /\ UNCHANGED map

Return(t) ==
    /\ answer[t] # <<>>
    /\ answer' = [answer EXCEPT ![t] = <<>>]
    /\ UNCHANGED map

IndexNext ==
    \E t \in Thread :
        \/ Return(t)
        \/ \E key \in Key : \/ \E value \in Value : Insert(t, key, value)
                            \/ Remove(t, key)
                            \/ GetValue(t, key)

IndexSpec == IndexInit /\ [][IndexNext]_indexVars
=============================================================================
