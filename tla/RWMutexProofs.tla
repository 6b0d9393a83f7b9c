--------------------------- MODULE RWMutexProofs ---------------------------
(***************************************************************************)
(* Proofs about the reader-writer mutex, for any number of threads.        *)
(***************************************************************************)
EXTENDS RWMutex, FiniteSetTheorems, TLAPS

IInv == TypeOK /\ Inv

\* A thread that moves between two places leaves the set of the one and joins
\* the set of the other.
LEMMA Moves ==
    ASSUME TypeOK, NEW t \in Thread, NEW place \in Place, Goto(t, place),
           NEW p \in Place
    PROVE  /\ At(p)' = IF p = place THEN At(p) \union {t} ELSE At(p) \ {t}
           /\ pc' \in [Thread -> Place]
  BY DEF TypeOK, Goto, At

\* The number of readers when one comes, leaves, or none does.
LEMMA ReaderCounts ==
    ASSUME TypeOK
    PROVE  /\ IsFiniteSet(At("reading"))
           /\ Cardinality(At("reading")) \in Nat
           /\ At("reading") = {} <=> Cardinality(At("reading")) = 0
           /\ \A t \in Thread \ At("reading") :
                 Cardinality(At("reading") \union {t}) = Cardinality(At("reading")) + 1
           /\ \A t \in At("reading") :
                 Cardinality(At("reading") \ {t}) = Cardinality(At("reading")) - 1
  <1>1. At("reading") \subseteq Thread
    BY DEF At
  <1>2. IsFiniteSet(At("reading"))
    BY <1>1, FS_Subset, RWMutexAssumption
  <1>3. \A t \in Thread \ At("reading") :
            Cardinality(At("reading") \union {t}) = Cardinality(At("reading")) + 1
    BY <1>2, FS_AddElement
  <1>4. \A t \in At("reading") :
            Cardinality(At("reading") \ {t}) = Cardinality(At("reading")) - 1
    BY <1>2, FS_RemoveElement
  <1>. QED  BY <1>2, <1>3, <1>4, FS_CardinalityType, FS_EmptySet

\* No sleeper is added by a notification.
LEMMA NotifyOneShrinks ==
    ASSUME NEW sleepers, NEW rest \in NotifyOne(sleepers)
    PROVE  rest \subseteq sleepers
  BY DEF NotifyOne

\* The end of WLock, reached the first time or after a wait on writer_.
LEMMA EnterInv ==
    ASSUME IInv, NEW t \in Thread, WaitForReaders(t),
           writer_entered' = TRUE, UNCHANGED <<reader, reader_count>>,
           pc[t] \in {"wlock", "drain"}, t \notin reader, t \notin writer,
           At("drain") \subseteq {t}, At("writing") = {}
    PROVE  IInv'
  <1>. USE RWMutexAssumption
  <1>1. t \notin At("reading")
    BY DEF At
  <1>2. CASE reader_count > 0
    <2>1. writer' = writer \union {t} /\ Goto(t, "drain")
      BY <1>2 DEF WaitForReaders
    <2>2. \A p \in Place : /\ At(p)' = IF p = "drain" THEN At(p) \union {t} ELSE At(p) \ {t}
                           /\ pc' \in [Thread -> Place]
      BY <2>1, Moves DEF Place, IInv
    <2>3. /\ At("drain")' = {t} /\ At("writing")' = {} /\ At("reading")' = At("reading")
          /\ At("rlock")' = At("rlock") \ {t} /\ At("wlock")' = At("wlock") \ {t}
      BY <1>1, <2>2 DEF Place
    <2>4. TypeOK'
      BY <2>1, <2>2 DEF TypeOK, IInv, Place
    <2>. QED  BY <2>1, <2>3, <2>4 DEF IInv, Inv
  <1>3. CASE ~(reader_count > 0)
    <2>1. UNCHANGED writer /\ Goto(t, "writing") /\ reader_count = 0
      BY <1>3 DEF WaitForReaders, IInv, TypeOK
    <2>2. \A p \in Place : /\ At(p)' = IF p = "writing" THEN At(p) \union {t} ELSE At(p) \ {t}
                           /\ pc' \in [Thread -> Place]
      BY <2>1, Moves DEF Place, IInv
    <2>3. /\ At("writing")' = {t} /\ At("drain")' = {} /\ At("reading")' = At("reading")
          /\ At("rlock")' = At("rlock") \ {t} /\ At("wlock")' = At("wlock") \ {t}
      BY <1>1, <2>2 DEF Place
    <2>4. TypeOK'
      BY <2>1, <2>2 DEF TypeOK, IInv, Place
    <2>. QED  BY <2>1, <2>3, <2>4 DEF IInv, Inv
  <1>. QED  BY <1>2, <1>3

\* The invariant holds of a mutex nobody has used yet.
LEMMA InitInv == Init => IInv
  <1>. SUFFICES ASSUME Init PROVE IInv
    OBVIOUS
  <1>1. \A p \in Place \ {"idle"} : At(p) = {}
    BY DEF Init, At, Place
  <1>2. At("reading") = {} /\ At("drain") = {} /\ At("writing") = {}
    BY <1>1 DEF Place
  <1>3. 0 \in 0..MaxReaders
    BY RWMutexAssumption
  <1>4. TypeOK
    BY <1>3, Zenon DEF Init, TypeOK, Place
  <1>. QED  BY <1>2, <1>4, FS_EmptySet DEF Init, IInv, Inv

\* Every step preserves the invariant.
LEMMA NextInv == IInv /\ [Next]_vars => IInv'
  <1>. SUFFICES ASSUME IInv, [Next]_vars PROVE IInv'
    OBVIOUS
  <1>. USE RWMutexAssumption
  <1>a. TypeOK /\ Inv
    BY DEF IInv
  <1>1. ASSUME NEW t \in Thread, Call(t) PROVE IInv'
    <2>1. PICK place \in {"rlock", "wlock"} : Goto(t, place)
      BY <1>1 DEF Call
    <2>2. \A p \in Place : /\ At(p)' = IF p = place THEN At(p) \union {t} ELSE At(p) \ {t}
                           /\ pc' \in [Thread -> Place]
      BY <1>a, <2>1, Moves DEF Place
    <2>3. \A p \in {"reading", "drain", "writing"} : At(p)' = At(p)
      BY <1>1, <2>2 DEF Place, At, Call
    <2>4. At("rlock") \union At("wlock") \subseteq (At("rlock") \union At("wlock"))'
      BY <1>1, <2>1, <2>2 DEF Place, At, Call
    <2>. QED  BY <1>a, <1>1, <2>2, <2>3, <2>4 DEF IInv, TypeOK, Inv, Call, Place
  <1>2. ASSUME NEW t \in Thread, RLock(t) PROVE IInv'
    <2>1. CASE ReaderMustWait
      BY <1>a, <1>2, <2>1 DEF RLock, IInv, TypeOK, Inv, At
    <2>2. CASE ~ReaderMustWait
      <3>1. /\ reader_count' = reader_count + 1
            /\ Goto(t, "reading")
            /\ UNCHANGED <<writer_entered, reader, writer>>
            /\ ~writer_entered /\ reader_count # MaxReaders
        BY <1>2, <2>2 DEF RLock, ReaderMustWait
      <3>2. \A p \in Place : /\ At(p)' = IF p = "reading" THEN At(p) \union {t} ELSE At(p) \ {t}
                             /\ pc' \in [Thread -> Place]
        BY <1>a, <3>1, Moves DEF Place
      <3>3. t \in Thread \ At("reading") /\ t \notin reader /\ pc[t] = "rlock"
        BY <1>2 DEF RLock, At
      <3>4. /\ At("reading")' = At("reading") \union {t}
            /\ At("drain")' = At("drain") /\ At("writing")' = At("writing")
            /\ At("rlock")' = At("rlock") \ {t} /\ At("wlock")' = At("wlock")
        BY <3>2, <3>3 DEF Place, At
      <3>5. reader_count' = Cardinality(At("reading")')
        BY <1>a, <3>1, <3>3, <3>4, ReaderCounts DEF Inv
      <3>6. TypeOK'
        BY <1>a, <3>1, <3>2 DEF TypeOK, Place
      <3>. QED  BY <1>a, <3>1, <3>3, <3>4, <3>5, <3>6 DEF IInv, Inv
    <2>. QED  BY <2>1, <2>2
  <1>3. ASSUME NEW t \in Thread, WLock(t) PROVE IInv'
    <2>1. CASE writer_entered
      BY <1>a, <1>3, <2>1 DEF WLock, IInv, TypeOK, Inv, At
    <2>2. CASE ~writer_entered
      <3>1. WaitForReaders(t) /\ writer_entered' = TRUE /\ UNCHANGED <<reader, reader_count>>
        BY <1>3, <2>2 DEF WLock
      <3>2. pc[t] = "wlock" /\ t \notin reader
        BY <1>3 DEF WLock
      <3>3. At("drain") = {} /\ At("writing") = {}
        BY <1>a, <2>2 DEF Inv
      <3>4. t \notin writer
        BY <1>a, <3>3 DEF Inv
      <3>. QED  BY <3>1, <3>2, <3>3, <3>4, EnterInv
    <2>. QED  BY <2>1, <2>2
  <1>4. ASSUME NEW t \in Thread, Drain(t) PROVE IInv'
    <2>1. WaitForReaders(t) /\ UNCHANGED <<reader_count, writer_entered, reader>>
      BY <1>4 DEF Drain
    <2>2. pc[t] = "drain" /\ t \notin writer
      BY <1>4 DEF Drain
    <2>3. writer_entered /\ At("drain") = {t} /\ At("writing") = {}
      BY <1>a, <2>2 DEF Inv, At
    <2>4. writer_entered' = TRUE /\ t \notin reader
      BY <1>a, <2>1, <2>2, <2>3 DEF Inv, TypeOK, At
    <2>. QED  BY <2>1, <2>2, <2>3, <2>4, EnterInv
  <1>5. ASSUME NEW t \in Thread, WUnlock(t) PROVE IInv'
    <2>1. Goto(t, "idle") /\ writer_entered' = FALSE /\ reader' = {}
          /\ UNCHANGED <<reader_count, writer>>
      BY <1>5 DEF WUnlock, AfterWUnlock
    <2>2. \A p \in Place : /\ At(p)' = IF p = "idle" THEN At(p) \union {t} ELSE At(p) \ {t}
                           /\ pc' \in [Thread -> Place]
      BY <1>a, <2>1, Moves DEF Place
    <2>3. At("writing") = {t} /\ At("drain") = {} /\ t \notin At("reading")
      BY <1>a, <1>5 DEF Inv, At, WUnlock
    <2>4. At("writing")' = {} /\ At("drain")' = {} /\ At("reading")' = At("reading")
      BY <2>2, <2>3 DEF Place
    <2>5. TypeOK'
      BY <1>a, <2>1, <2>2, Zenon DEF TypeOK, Place
    <2>. QED  BY <1>a, <2>1, <2>3, <2>4, <2>5 DEF IInv, Inv
  <1>6. ASSUME NEW t \in Thread, RUnlock(t) PROVE IInv'
    <2>1. Goto(t, "idle") /\ reader_count' = reader_count - 1 /\ UNCHANGED writer_entered
      BY <1>6 DEF RUnlock
    <2>2. reader' \subseteq reader /\ writer' \subseteq writer
      BY <1>6, NotifyOneShrinks DEF RUnlock, WriterAfterRUnlock, ReaderAfterRUnlock
    <2>3. \A p \in Place : /\ At(p)' = IF p = "idle" THEN At(p) \union {t} ELSE At(p) \ {t}
                           /\ pc' \in [Thread -> Place]
      BY <1>a, <2>1, Moves DEF Place
    <2>4. t \in At("reading") /\ pc[t] = "reading"
      BY <1>6 DEF RUnlock, At
    <2>5. /\ At("reading")' = At("reading") \ {t}
          /\ \A p \in Place \ {"idle", "reading"} : At(p)' = At(p)
      BY <2>3, <2>4 DEF Place, At
    <2>6. /\ reader_count \in 1..MaxReaders
          /\ reader_count' = Cardinality(At("reading")')
      BY <1>a, <2>1, <2>4, <2>5, ReaderCounts DEF Inv, TypeOK
    <2>7. At("writing") = {}
      BY <1>a, <2>6 DEF Inv
    <2>8. TypeOK'
      BY <1>a, <2>1, <2>2, <2>3, <2>6 DEF TypeOK, Place
    <2>. QED  BY <1>a, <2>1, <2>2, <2>5, <2>6, <2>7, <2>8 DEF IInv, Inv, Place
  <1>7. ASSUME NEW t \in Thread, SpuriousWake(t) PROVE IInv'
    BY <1>a, <1>7 DEF SpuriousWake, IInv, TypeOK, Inv, At
  <1>8. CASE UNCHANGED vars
    BY <1>a, <1>8 DEF vars, IInv, TypeOK, Inv, At
  <1>. QED  BY <1>1, <1>2, <1>3, <1>4, <1>5, <1>6, <1>7, <1>8 DEF Next, Step

\* The inductive invariant holds in every reachable state.
THEOREM Invariance == Spec => []IInv
  BY InitInv, NextInv, PTL DEF Spec

\* reader_count_ stays between 0 and max_readers_ and the other variables keep
\* their types, for any number of threads.
THEOREM TypeCorrect == Spec => []TypeOK
  BY Invariance, PTL DEF IInv

\* What WLock, RLock and their releases guarantee: a writer is alone.
THEOREM Exclusion == Spec => []MutualExclusion
  <1>1. IInv => MutualExclusion
    <2>. SUFFICES ASSUME IInv, NEW t \in Thread, NEW u \in Thread,
                         pc[t] = "writing", pc[u] \in {"reading", "writing"}
                  PROVE  t = u
      BY DEF MutualExclusion
    <2>1. t \in At("writing") /\ reader_count = 0
      BY DEF IInv, Inv, At
    <2>2. At("reading") = {}
      BY <2>1, ReaderCounts DEF IInv, Inv
    <2>3. u \in At("writing")
      BY <2>2 DEF At
    <2>. QED  BY <2>1, <2>3 DEF IInv, Inv
  <1>. QED  BY <1>1, Invariance, PTL

\* The mutex implements the latch: each step of a thread takes the latch,
\* releases it, or leaves its holders as they are.
THEOREM Refinement == Spec => ImplementsLatch
  <1>1. Init => Latch!LatchInit
    <2>. SUFFICES ASSUME Init PROVE At("reading") = {} /\ At("writing") = {}
      BY DEF Latch!LatchInit
    <2>. QED  BY DEF Init, At
  <1>2. IInv /\ [Next]_vars => [Latch!LatchNext]_(Latch!latchVars)
    <2>. SUFFICES ASSUME IInv, [Next]_vars
                  PROVE  Latch!LatchNext \/ UNCHANGED <<At("reading"), At("writing")>>
      BY DEF Latch!latchVars
    <2>a. TypeOK /\ Inv
      BY DEF IInv
    <2>1. ASSUME NEW t \in Thread, Call(t)
          PROVE  UNCHANGED <<At("reading"), At("writing")>>
      BY <2>a, <2>1 DEF Call, Goto, At, TypeOK
    <2>2. ASSUME NEW t \in Thread, RLock(t)
          PROVE  Latch!RLatch(t) \/ UNCHANGED <<At("reading"), At("writing")>>
      <3>1. CASE ReaderMustWait
        BY <2>2, <3>1 DEF RLock, At
      <3>2. CASE ~ReaderMustWait
        <4>1. Goto(t, "reading") /\ pc[t] = "rlock" /\ At("writing") = {}
          BY <2>a, <2>2, <3>2 DEF RLock, ReaderMustWait, Inv
        <4>2. At("reading")' = At("reading") \union {t} /\ At("writing")' = At("writing")
          BY <2>a, <4>1 DEF Goto, At, TypeOK
        <4>3. t \notin At("reading") \union At("writing")
          BY <4>1 DEF At
        <4>. QED  BY <4>1, <4>2, <4>3 DEF Latch!RLatch
      <3>. QED  BY <3>1, <3>2
    <2>3. ASSUME NEW t \in Thread, WaitForReaders(t), pc[t] \in {"wlock", "drain"},
                 At("writing") = {}
          PROVE  Latch!WLatch(t) \/ UNCHANGED <<At("reading"), At("writing")>>
      <3>1. CASE reader_count > 0
        BY <2>a, <2>3, <3>1 DEF WaitForReaders, Goto, At, TypeOK
      <3>2. CASE ~(reader_count > 0)
        <4>1. Goto(t, "writing") /\ At("reading") = {}
          BY <2>a, <2>3, <3>2, ReaderCounts DEF WaitForReaders, Inv, TypeOK
        <4>2. At("reading")' = At("reading") /\ At("writing")' = {t}
          BY <2>a, <2>3, <4>1 DEF Goto, At, TypeOK
        <4>. QED  BY <2>3, <4>1, <4>2 DEF Latch!WLatch
      <3>. QED  BY <3>1, <3>2
    <2>4. ASSUME NEW t \in Thread, WLock(t)
          PROVE  Latch!WLatch(t) \/ UNCHANGED <<At("reading"), At("writing")>>
      <3>1. CASE writer_entered
        BY <2>4, <3>1 DEF WLock, At
      <3>2. CASE ~writer_entered
        BY <2>a, <2>3, <2>4, <3>2 DEF WLock, Inv
      <3>. QED  BY <3>1, <3>2
    <2>5. ASSUME NEW t \in Thread, Drain(t)
          PROVE  Latch!WLatch(t) \/ UNCHANGED <<At("reading"), At("writing")>>
      <3>1. At("writing") = {}
        BY <2>a, <2>5 DEF Inv, Drain, At
      <3>. QED  BY <2>3, <2>5, <3>1 DEF Drain
    <2>6. ASSUME NEW t \in Thread, WUnlock(t)
          PROVE  Latch!WUnlatch(t)
      <3>1. Goto(t, "idle") /\ At("writing") = {t}
        BY <2>a, <2>6 DEF WUnlock, Inv, At
      <3>2. At("reading")' = At("reading") /\ At("writing")' = {}
        BY <2>a, <2>6, <3>1 DEF Goto, At, TypeOK, WUnlock
      <3>. QED  BY <3>1, <3>2 DEF Latch!WUnlatch
    <2>7. ASSUME NEW t \in Thread, RUnlock(t)
          PROVE  Latch!RUnlatch(t)
      <3>1. Goto(t, "idle") /\ t \in At("reading")
        BY <2>7 DEF RUnlock, At
      <3>2. At("reading")' = At("reading") \ {t} /\ At("writing")' = At("writing")
        BY <2>a, <2>7, <3>1 DEF Goto, At, TypeOK, RUnlock
      <3>. QED  BY <3>1, <3>2 DEF Latch!RUnlatch
    <2>8. ASSUME NEW t \in Thread, SpuriousWake(t)
          PROVE  UNCHANGED <<At("reading"), At("writing")>>
      BY <2>8 DEF SpuriousWake, At
    <2>9. CASE UNCHANGED vars
      BY <2>9 DEF vars, At
    <2>. QED
      BY <2>1, <2>2, <2>4, <2>5, <2>6, <2>7, <2>8, <2>9 DEF Next, Step, Latch!LatchNext
  <1>. QED  BY <1>1, <1>2, Invariance, PTL DEF Spec, ImplementsLatch, Latch!LatchSpec

\* While the limit of readers cannot be met, only a writer holds readers up.
WaitsForWriter ==
    /\ reader # {} => writer_entered
    /\ writer # {} => reader_count > 0

\* With no more threads than max_readers_, a reader that waits waits for a writer.
LEMMA LimitNotMet ==
    ASSUME IInv, Cardinality(Thread) <= MaxReaders, NEW t \in Thread, pc[t] = "rlock"
    PROVE  reader_count # MaxReaders
  <1>1. t \in Thread \ At("reading")
    BY DEF At
  <1>2. At("reading") \union {t} \subseteq Thread
    BY DEF At
  <1>3. Cardinality(At("reading") \union {t}) <= Cardinality(Thread)
    BY <1>2, FS_Subset, RWMutexAssumption
  <1>4. Cardinality(Thread) \in Nat
    BY FS_CardinalityType, RWMutexAssumption
  <1>. QED
    BY <1>1, <1>3, <1>4, ReaderCounts, RWMutexAssumption DEF IInv, Inv, TypeOK

\* Every step keeps a reason for every sleeper.
LEMMA WaitsForWriterStep ==
    ASSUME Cardinality(Thread) <= MaxReaders, IInv, WaitsForWriter, [Next]_vars
    PROVE  WaitsForWriter'
  <1>. USE DEF WaitsForWriter
  <1>a. TypeOK /\ Inv
    BY DEF IInv
  <1>1. ASSUME NEW t \in Thread, Call(t) PROVE WaitsForWriter'
    BY <1>1 DEF Call
  <1>2. ASSUME NEW t \in Thread, RLock(t) PROVE WaitsForWriter'
    <2>1. ReaderMustWait => writer_entered
      BY <1>2, LimitNotMet DEF ReaderMustWait, RLock
    <2>2. ~writer_entered => writer = {}
      BY <1>a DEF Inv
    <2>. QED  BY <1>a, <1>2, <2>1, <2>2 DEF RLock, ReaderMustWait, TypeOK
  <1>3. ASSUME NEW t \in Thread, WLock(t) PROVE WaitsForWriter'
    BY <1>a, <1>3 DEF WLock, WaitForReaders
  <1>4. ASSUME NEW t \in Thread, Drain(t) PROVE WaitsForWriter'
    BY <1>a, <1>4 DEF Drain, WaitForReaders
  <1>5. ASSUME NEW t \in Thread, WUnlock(t) PROVE WaitsForWriter'
    BY <1>5 DEF WUnlock, AfterWUnlock
  <1>6. ASSUME NEW t \in Thread, RUnlock(t) PROVE WaitsForWriter'
    <2>1. reader' \subseteq reader /\ writer' \subseteq writer /\ UNCHANGED writer_entered
      BY <1>6, NotifyOneShrinks DEF RUnlock, WriterAfterRUnlock, ReaderAfterRUnlock
    <2>2. CASE writer = {}
      BY <1>a, <2>1, <2>2
    <2>3. CASE writer # {}
      <3>1. PICK u : writer = {u}
        BY <1>a, <2>3 DEF Inv
      <3>2. writer_entered
        BY <1>a, <3>1 DEF Inv
      <3>3. reader_count - 1 = 0 => writer' = {}
        BY <1>6, <3>1, <3>2 DEF RUnlock, WriterAfterRUnlock, NotifyOne
      <3>4. reader_count' = reader_count - 1 /\ reader_count \in Nat
        BY <1>a, <1>6, RWMutexAssumption DEF RUnlock, TypeOK
      <3>. QED  BY <2>1, <3>2, <3>3, <3>4
    <2>. QED  BY <2>2, <2>3
  <1>7. ASSUME NEW t \in Thread, SpuriousWake(t) PROVE WaitsForWriter'
    BY <1>7 DEF SpuriousWake
  <1>8. CASE UNCHANGED vars
    BY <1>8 DEF vars
  <1>. QED  BY <1>1, <1>2, <1>3, <1>4, <1>5, <1>6, <1>7, <1>8 DEF Next, Step

\* No wake-up is lost, whatever the interleaving, as long as there are no more
\* threads than max_readers_ (2^32 - 1 of them).
THEOREM Wakeups == Cardinality(Thread) <= MaxReaders => (Spec => []NoLostWakeup)
  <1>. SUFFICES ASSUME Cardinality(Thread) <= MaxReaders PROVE Spec => []NoLostWakeup
    OBVIOUS
  <1>1. Init => WaitsForWriter
    BY DEF Init, WaitsForWriter
  <1>2. IInv /\ WaitsForWriter /\ [Next]_vars => WaitsForWriter'
    BY WaitsForWriterStep
  <1>3. WaitsForWriter => NoLostWakeup
    BY DEF WaitsForWriter, NoLostWakeup, ReaderMustWait
  <1>. QED  BY <1>1, <1>2, <1>3, Invariance, PTL DEF Spec
=============================================================================
