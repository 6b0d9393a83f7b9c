------------------------------ MODULE RWLatch ------------------------------
(***************************************************************************)
(* What a page latch promises: any number of readers or one writer. The    *)
(* latches of the pages (Page::RLatch, WLatch and their releases) are used *)
(* as if they were this; RWMutex implements it.                            *)
(***************************************************************************)
CONSTANT Thread

VARIABLES
    readers,  \* the threads that hold the latch for reading
    writers   \* the threads that hold it for writing

latchVars == <<readers, writers>>

LatchInit == readers = {} /\ writers = {}

RLatch(t) ==
    /\ t \notin readers \union writers /\ writers = {}
    /\ readers' = readers \union {t} /\ UNCHANGED writers

WLatch(t) ==
    /\ t \notin readers \union writers /\ readers = {} /\ writers = {}
    /\ writers' = {t} /\ UNCHANGED readers

RUnlatch(t) ==
    /\ t \in readers
    /\ readers' = readers \ {t} /\ UNCHANGED writers

WUnlatch(t) ==
    /\ t \in writers
    /\ writers' = {} /\ UNCHANGED readers

LatchNext == \E t \in Thread : RLatch(t) \/ WLatch(t) \/ RUnlatch(t) \/ WUnlatch(t)

LatchSpec == LatchInit /\ [][LatchNext]_latchVars
=============================================================================
