----------------------------- MODULE HashTable -----------------------------
(***************************************************************************)
(* The interface of a hash table (src/src/include/hash/hash_table.h): a    *)
(* map from keys to values, with the result of the last call.              *)
(***************************************************************************)
CONSTANTS Key, Value

VARIABLES
    map,  \* the value of each key, or None
    last  \* the last call: the operation, the key and what it returned

mapVars == <<map, last>>

None == "none"

MapInit == map = [k \in Key |-> None] /\ last = <<>>

MapInsert(key, value) ==
    /\ map' = [map EXCEPT ![key] = value]
    /\ last' = <<"Insert", key, value>>

MapRemove(key) ==
    /\ map' = [map EXCEPT ![key] = None]
    /\ last' = <<"Remove", key, IF map[key] # None THEN "true" ELSE "false">>

MapFind(key) == UNCHANGED map /\ last' = <<"Find", key, map[key]>>

MapNext ==
    \E key \in Key :
        \/ \E value \in Value : MapInsert(key, value)
        \/ MapRemove(key)
        \/ MapFind(key)

MapSpec == MapInit /\ [][MapNext]_mapVars
=============================================================================
