------------------------------ MODULE RWMutex ------------------------------
(***************************************************************************)
(* The reader-writer mutex behind every page latch                         *)
(* (src/src/include/common/rwmutex.h), with its two condition variables.   *)
(*                                                                         *)
(* A thread holds mutex_ from the start of a call, or from its wake-up, to *)
(* its return or its next wait: each such stretch is one action. A wait on *)
(* a condition variable puts the thread to sleep in the variable's set of  *)
(* waiters; a notification, or a spurious wake-up, takes it out, and it    *)
(* then evaluates its while condition again.                               *)
(***************************************************************************)
EXTENDS Integers, FiniteSets

CONSTANTS
    Thread,     \* the threads that use the mutex
    MaxReaders  \* max_readers_ (UINT_MAX in the code)

ASSUME RWMutexAssumption ==
    /\ IsFiniteSet(Thread)
    /\ MaxReaders \in Nat \ {0}

VARIABLES
    reader_count,    \* reader_count_
    writer_entered,  \* writer_entered_
    reader,          \* the threads asleep on reader_
    writer,          \* the threads asleep on writer_
    pc               \* where each thread is

vars == <<reader_count, writer_entered, reader, writer, pc>>

\* rlock and wlock: in the first loop of RLock or WLock; drain: in the second
\* loop of WLock.
Place == {"idle", "rlock", "reading", "wlock", "drain", "writing"}

Init ==
    /\ reader_count = 0
    /\ writer_entered = FALSE
    /\ reader = {} /\ writer = {}
    /\ pc = [t \in Thread |-> "idle"]

Goto(t, place) == pc' = [pc EXCEPT ![t] = place]

\* notify_one: any one of the sleepers, if there is one.
NotifyOne(sleepers) == IF sleepers = {} THEN {{}} ELSE {sleepers \ {t} : t \in sleepers}

\* A thread calls RLock or WLock.
Call(t) ==
    /\ pc[t] = "idle"
    /\ \E place \in {"rlock", "wlock"} : Goto(t, place)
    /\ UNCHANGED <<reader_count, writer_entered, reader, writer>>

Mut_ReaderIgnoresWriter == reader_count = MaxReaders
Mut_NoLimitOfReaders == writer_entered

ReaderMustWait == writer_entered \/ reader_count = MaxReaders

RLock(t) ==
    /\ pc[t] = "rlock" /\ t \notin reader
    /\ IF ReaderMustWait
       THEN reader' = reader \union {t} /\ UNCHANGED <<reader_count, pc>>
       ELSE reader_count' = reader_count + 1 /\ Goto(t, "reading") /\ UNCHANGED reader
    /\ UNCHANGED <<writer_entered, writer>>

\* The end of WLock: the writer has the mutex once the readers are gone.
Mut_WriterDoesNotDrain(t) == Goto(t, "writing") /\ UNCHANGED writer

WaitForReaders(t) ==
    IF reader_count > 0
    THEN writer' = writer \union {t} /\ Goto(t, "drain")
    ELSE Goto(t, "writing") /\ UNCHANGED writer

WLock(t) ==
    /\ pc[t] = "wlock" /\ t \notin reader
    /\ IF writer_entered
       THEN reader' = reader \union {t} /\ UNCHANGED <<writer_entered, writer, pc>>
       ELSE writer_entered' = TRUE /\ WaitForReaders(t) /\ UNCHANGED reader
    /\ UNCHANGED reader_count

Drain(t) ==
    /\ pc[t] = "drain" /\ t \notin writer
    /\ WaitForReaders(t)
    /\ UNCHANGED <<reader_count, writer_entered, reader>>

Mut_NotifiesOneOnly == NotifyOne(reader)

\* notify_all: what remains asleep on reader_ after WUnlock.
AfterWUnlock == {{}}

WUnlock(t) ==
    /\ pc[t] = "writing"
    /\ writer_entered' = FALSE
    /\ reader' \in AfterWUnlock
    /\ Goto(t, "idle")
    /\ UNCHANGED <<reader_count, writer>>

Mut_WakesNoWriter(count) == {writer}

\* Who remains asleep on writer_ when RUnlock leaves count readers ...
WriterAfterRUnlock(count) ==
    IF writer_entered /\ count = 0 THEN NotifyOne(writer) ELSE {writer}

\* ... and on reader_.
ReaderAfterRUnlock(count) ==
    IF ~writer_entered /\ count = MaxReaders - 1 THEN NotifyOne(reader) ELSE {reader}

RUnlock(t) ==
    /\ pc[t] = "reading"
    /\ reader_count' = reader_count - 1
    /\ writer' \in WriterAfterRUnlock(reader_count - 1)
    /\ reader' \in ReaderAfterRUnlock(reader_count - 1)
    /\ Goto(t, "idle")
    /\ UNCHANGED writer_entered

SpuriousWake(t) ==
    /\ t \in reader \union writer
    /\ reader' = reader \ {t} /\ writer' = writer \ {t}
    /\ UNCHANGED <<reader_count, writer_entered, pc>>

Step(t) ==
    \/ Call(t)
    \/ RLock(t)
    \/ WLock(t)
    \/ Drain(t)
    \/ WUnlock(t)
    \/ RUnlock(t)
    \/ SpuriousWake(t)

Next == \E t \in Thread : Step(t)

Spec == Init /\ [][Next]_vars

\* A thread that is awake gets mutex_ in the end, and the holder of a page latch
\* releases it. No thread has to call, and no wake-up comes by itself.
Fairness ==
    \A t \in Thread : /\ WF_vars(RLock(t))
                      /\ WF_vars(WLock(t))
                      /\ WF_vars(Drain(t))
                      /\ WF_vars(WUnlock(t))
                      /\ WF_vars(RUnlock(t))

FairSpec == Spec /\ Fairness

(***************************************************************************)
(* Properties.                                                             *)
(***************************************************************************)
At(place) == {t \in Thread : pc[t] = place}

\* Every variable keeps its type; reader_count_ in particular stays within the
\* bounds that RLock's test and RUnlock's decrement assume.
TypeOK ==
    /\ reader_count \in 0..MaxReaders
    /\ writer_entered \in BOOLEAN
    /\ reader \in SUBSET Thread
    /\ writer \in SUBSET Thread
    /\ pc \in [Thread -> Place]

\* A writer is alone: no reader and no second writer, in spite of the two
\* separate waits of WLock and of spurious wake-ups.
MutualExclusion ==
    \A t, u \in Thread : pc[t] = "writing" /\ pc[u] \in {"reading", "writing"} => t = u

\* Nobody sleeps without a reason that another thread will remove: a sleeper on
\* reader_ is held up by a writer or by the limit, one on writer_ by a reader.
\* RUnlock's single notify_one at max_readers_ - 1 is enough for this only while
\* there are fewer than max_readers_ + 2 threads.
NoLostWakeup ==
    /\ reader # {} => ReaderMustWait
    /\ writer # {} => reader_count > 0

\* The mutex is an implementation of the latch that the rest of the program
\* uses, with the threads that hold it as readers and writers.
Latch == INSTANCE RWLatch WITH readers <- At("reading"), writers <- At("writing")
ImplementsLatch == Latch!LatchSpec

\* A writer that has entered gets the mutex: the readers before it leave, new
\* ones are held back and the last one to leave wakes it up.
EnteredWriterGetsIn == \A t \in Thread : pc[t] = "drain" ~> pc[t] = "writing"

\* The mutex does not hang: as long as somebody waits for it, somebody gets it.
SomebodyGetsIn ==
    At("rlock") \union At("wlock") # {} ~> At("reading") \union At("writing") # {}

(***************************************************************************)
(* The inductive invariant.                                                *)
(***************************************************************************)
\* reader_count_ counts the readers; writer_entered_ is set for one thread; and
\* whoever sleeps is in the loop of the condition variable it sleeps on.
Inv ==
    /\ reader_count = Cardinality(At("reading"))
    /\ writer_entered <=> At("drain") \union At("writing") # {}
    /\ \A t, u \in At("drain") \union At("writing") : t = u
    /\ At("writing") # {} => reader_count = 0
    /\ reader \subseteq At("rlock") \union At("wlock")
    /\ writer \subseteq At("drain")
=============================================================================
