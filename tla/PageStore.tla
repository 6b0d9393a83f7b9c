----------------------------- MODULE PageStore -----------------------------
(***************************************************************************)
(* What the buffer pool promises to the table heap and the index: pages    *)
(* that live in memory for good. A client that holds a page reads and      *)
(* writes the one content of that page.                                    *)
(***************************************************************************)
CONSTANTS Client, PageId, Data, Zeros, NotWritten

VARIABLES
    store,   \* the content of each page, NotWritten if there is no such page
    holding  \* the pages each client holds

storeVars == <<store, holding>>

StoreInit ==
    /\ store = [p \in PageId |-> NotWritten]
    /\ holding = [c \in Client |-> {}]

Create(c, p) ==
    /\ store[p] = NotWritten
    /\ store' = [store EXCEPT ![p] = Zeros]
    /\ holding' = [holding EXCEPT ![c] = @ \union {p}]

Hold(c, p) ==
    /\ store[p] # NotWritten
    /\ holding' = [holding EXCEPT ![c] = @ \union {p}]
    /\ UNCHANGED store

Modify(c, p, d) ==
    /\ p \in holding[c]
    /\ store' = [store EXCEPT ![p] = d]
    /\ UNCHANGED holding

Drop(c, p) ==
    /\ p \in holding[c]
    /\ holding' = [holding EXCEPT ![c] = @ \ {p}]
    /\ UNCHANGED store

\* A page that nobody holds is given up.
Delete(p) ==
    /\ \A c \in Client : p \notin holding[c]
    /\ store' = [store EXCEPT ![p] = NotWritten]
    /\ UNCHANGED holding

StoreNext ==
    \/ \E c \in Client, p \in PageId :
           \/ Create(c, p) \/ Hold(c, p) \/ Drop(c, p)
           \/ \E d \in Data : Modify(c, p, d)
    \/ \E p \in PageId : Delete(p)

StoreSpec == StoreInit /\ [][StoreNext]_storeVars
=============================================================================
