----------------------------- MODULE TableHeap -----------------------------
(***************************************************************************)
(* A table of tuples in a chain of pages (src/src/table/table_heap.cpp and *)
(* the tuple locks of src/src/page/table_page.cpp), used by transactions.  *)
(* ENABLE_LOGGING is on, as the storage engine sets it: every operation    *)
(* takes the lock of its tuple while it holds the latch of the page, and   *)
(* leaves a record in the write set that Commit and Abort work off.        *)
(*                                                                         *)
(* A page is a sequence of slots; where its bytes lie is TablePage's       *)
(* business, here only how much room is taken. Page p of the table is the  *)
(* p-th of the chain, and rid <<p, i>> is its slot i. An operation keeps   *)
(* the latch of its page from its first look at the page to its last       *)
(* write, so it is one step unless it has to wait for a tuple lock: then   *)
(* work[t] says what the thread is in the middle of, with the page         *)
(* latched.                                                                *)
(***************************************************************************)
EXTENDS TransactionManager

CONSTANTS
    Tuple,      \* the tuples: records of a value and a size
    PageRoom,   \* the room of a page for tuples and their slots
    SlotRoom,   \* the room that a slot takes
    MaxPages,   \* bound on the pages, after which NewPage finds no frame
    Loaded      \* the tuples of the first page, from earlier transactions

VARIABLES
    table,  \* the pages in the order of the chain
    work    \* the table call that each thread is in the middle of

thVars == <<table, work>>
heapVars == <<allVars, thVars>>

EmptySlot == [tuple |-> <<>>, marked |-> FALSE]
LiveSlot(tuple) == [tuple |-> <<tuple>>, marked |-> FALSE]
NoWork == [op |-> "none"]

FirstPage == [i \in DOMAIN Loaded |-> LiveSlot(Loaded[i])]

SizeOf(slot) == IF slot.tuple = <<>> THEN 0 ELSE slot.tuple[1].size

\* The room that the slots of a page and their tuples take.
RoomTaken(page) ==
    LET Upto[n \in 0..Len(page)] ==
            IF n = 0 THEN 0 ELSE Upto[n - 1] + SlotRoom + SizeOf(page[n])
    IN  Upto[Len(page)]

\* A page has slots for some tuples, each of some size, and every slot that it can
\* come to have is a record that can be locked.
ASSUME TableHeapAssumption ==
    /\ Loaded \in Seq(Range(Loaded))
    /\ \A tuple \in Tuple \union Range(Loaded) : tuple.size \in Nat \ {0}
    /\ PageRoom \in Nat /\ SlotRoom \in Nat /\ MaxPages \in Nat \ {0}
    /\ RoomTaken(FirstPage) <= PageRoom
    /\ RID \subseteq (1..MaxPages) \X (Nat \ {0})
    /\ \A p \in 1..MaxPages, i \in 1..PageRoom : i * (SlotRoom + 1) <= PageRoom => <<p, i>> \in RID
    /\ Logging

THInit ==
    /\ TMInit
    /\ table = << FirstPage >>
    /\ work = [t \in TxnId |-> NoWork]

(***************************************************************************)
(* Pages.                                                                  *)
(***************************************************************************)
PageOf(r) == r[1]
HasSlot(r) == r[2] <= Len(table[PageOf(r)])
SlotAt(r) == table[PageOf(r)][r[2]]
IsLive(r) == HasSlot(r) /\ SlotAt(r).tuple # <<>> /\ ~SlotAt(r).marked

GetFreeSpaceSize(p) == PageRoom - RoomTaken(table[p])

EmptySlots(p) == {i \in DOMAIN table[p] : table[p][i].tuple = <<>>}

Mut_ForgetsSlotRoom(tuple, p) == GetFreeSpaceSize(p) >= tuple.size

Fits(tuple, p) ==
    GetFreeSpaceSize(p) >= tuple.size + (IF EmptySlots(p) = {} THEN SlotRoom ELSE 0)

SlotForInsert(p) == IF EmptySlots(p) = {} THEN Len(table[p]) + 1 ELSE Min(EmptySlots(p))

WithSlot(r, slot) ==
    IF HasSlot(r) THEN [table EXCEPT ![PageOf(r)][r[2]] = slot]
    ELSE [table EXCEPT ![PageOf(r)] = Append(@, slot)]

\* The latch of a page, held by the threads that wait for a lock on one of its
\* tuples: a reader lets other readers in.
LatchFree(p, reads) ==
    \A u \in TxnId : call[u] # NoCall /\ PageOf(call[u].rid) = p =>
        reads /\ work[u].op = "GetTuple"

(***************************************************************************)
(* The calls of a transaction. A call that fails leaves the transaction    *)
(* ABORTED, and its thread makes no further call but Commit or Abort.      *)
(***************************************************************************)
MayCall(t) ==
    /\ phase[t] = "running" /\ state[t] = "GROWING"
    /\ Idle(t) /\ work[t] = NoWork

CallOn(t, r, reads) ==
    MayCall(t) /\ PageOf(r) <= Len(table) /\ LatchFree(PageOf(r), reads)

MayWrite(t) == Len(write_set[t]) < MaxWrites

Fail(t) ==
    /\ state' = [state EXCEPT ![t] = "ABORTED"]
    /\ UNCHANGED <<lock_table, shared_lock_set, exclusive_lock_set, call, crashed>>

LockForRead(t, r) ==
    IF r \in shared_lock_set[t] \union exclusive_lock_set[t] THEN UNCHANGED vars
    ELSE LockShared(t, r)

LockForWrite(t, r) ==
    IF r \in shared_lock_set[t] THEN LockUpgrade(t, r)
    ELSE IF r \in exclusive_lock_set[t] THEN UNCHANGED vars
    ELSE LockExclusive(t, r)

Remember(t, r, wtype, tuple) ==
    write_set' = [write_set EXCEPT ![t] =
                     Append(@, [rid_ |-> r, wtype_ |-> wtype, tuple_ |-> tuple])]

Mut_MarksWithoutLock(r, got) ==
    IF IsLive(r) THEN [table EXCEPT ![PageOf(r)][r[2]].marked = TRUE] ELSE table

WithMark(r, got) ==
    IF got /\ IsLive(r) THEN [table EXCEPT ![PageOf(r)][r[2]].marked = TRUE] ELSE table

\* What a call does with the page and the write set once the lock call has
\* returned: got says whether it got the lock.
Complete(t, w, got) ==
    /\ work' = [work EXCEPT ![t] = NoWork]
    /\ CASE w.op = "MarkDelete" ->
              /\ table' = WithMark(w.rid, got)
              /\ Remember(t, w.rid, "DELETE", <<>>)
         [] w.op = "UpdateTuple" /\ got ->
              /\ table' = WithSlot(w.rid, LiveSlot(w.tuple))
              /\ Remember(t, w.rid, "UPDATE", SlotAt(w.rid).tuple)
         [] w.op = "InsertTuple" /\ got ->
              /\ UNCHANGED table
              /\ Remember(t, w.rid, "INSERT", <<>>)
         [] OTHER -> UNCHANGED <<table, write_set>>

Blocked(t) == call'[t] # NoCall

\* A call that has taken its lock step: it goes on, or it stays in the middle.
AfterLock(t, w, got) ==
    IF Blocked(t)
    THEN work' = [work EXCEPT ![t] = w] /\ UNCHANGED <<table, write_set>>
    ELSE Complete(t, w, got)

GetTuple(t, r) ==
    LET w == [op |-> "GetTuple", rid |-> r] IN
    /\ CallOn(t, r, TRUE)
    /\ IF IsLive(r) THEN LockForRead(t, r) /\ AfterLock(t, w, TRUE)
       ELSE Fail(t) /\ UNCHANGED <<table, work, write_set>>
    /\ UNCHANGED <<next_txn_id, phase, lock_set>>

\* The write set gets a DELETE whatever TablePage::MarkDelete has returned.
MarkDelete(t, r) ==
    LET w == [op |-> "MarkDelete", rid |-> r] IN
    /\ CallOn(t, r, FALSE) /\ MayWrite(t)
    /\ IF HasSlot(r) /\ ~SlotAt(r).marked
       THEN LockForWrite(t, r) /\ AfterLock(t, w, r \in exclusive_lock_set'[t])
       ELSE Fail(t) /\ Complete(t, w, FALSE)
    /\ UNCHANGED <<next_txn_id, phase, lock_set>>

\* A tuple is replaced by one of its size, for which there is always room: what
\* an update does to its page when the size changes is TablePage's business.
UpdateTuple(t, r, tuple) ==
    LET w == [op |-> "UpdateTuple", rid |-> r, tuple |-> tuple] IN
    /\ CallOn(t, r, FALSE) /\ MayWrite(t)
    /\ IF ~IsLive(r) THEN Fail(t) /\ UNCHANGED <<table, work, write_set>>
       ELSE /\ tuple.size = SizeOf(SlotAt(r))
            /\ LockForWrite(t, r) /\ AfterLock(t, w, r \in exclusive_lock_set'[t])
    /\ UNCHANGED <<next_txn_id, phase, lock_set>>

\* LockExclusive, in an assertion.
MustLock(t, r) ==
    IF Requests(r) # <<>> /\ ~CheckForWaitDie(t, r) THEN Crash ELSE LockExclusive(t, r)

\* The tuple is in the page before its lock is asked for. A slot is not taken
\* that the transaction itself has locked.
InsertInto(t, tuple, r, grown) ==
    LET w == [op |-> "InsertTuple", rid |-> r] IN
    IF r \in shared_lock_set[t] \union exclusive_lock_set[t]
    THEN Crash /\ UNCHANGED <<table, work, write_set>>
    ELSE /\ MustLock(t, r)
         /\ table' = grown
         /\ IF Blocked(t)
            THEN work' = [work EXCEPT ![t] = w] /\ UNCHANGED write_set
            ELSE /\ work' = [work EXCEPT ![t] = NoWork]
                 /\ IF crashed' THEN UNCHANGED write_set
                    ELSE Remember(t, r, "INSERT", <<>>)

\* The thread, with no latch, comes to page p of the chain.
InsertAtPage(t, tuple, p) ==
    LET last == Len(table) IN
    /\ LatchFree(p, FALSE)
    /\ IF Fits(tuple, p) THEN
            LET r == <<p, SlotForInsert(p)>> IN
            InsertInto(t, tuple, r, WithSlot(r, LiveSlot(tuple)))
       ELSE IF p < last THEN
            /\ work' = [work EXCEPT ![t] = [op |-> "Walk", page |-> p + 1, tuple |-> tuple]]
            /\ UNCHANGED <<vars, table, write_set>>
       ELSE IF last = MaxPages THEN
            /\ Fail(t)
            /\ work' = [work EXCEPT ![t] = NoWork]
            /\ UNCHANGED <<table, write_set>>
       ELSE InsertInto(t, tuple, <<last + 1, 1>>, Append(table, <<LiveSlot(tuple)>>))
    /\ UNCHANGED <<next_txn_id, phase, lock_set>>

InsertTuple(t, tuple) ==
    /\ MayCall(t) /\ MayWrite(t)
    /\ tuple.size + SlotRoom <= PageRoom
    /\ InsertAtPage(t, tuple, 1)

\* A tuple that no page could hold.
RefuseTuple(t, tuple) ==
    /\ MayCall(t)
    /\ tuple.size + SlotRoom > PageRoom
    /\ Fail(t)
    /\ UNCHANGED <<tmVars, thVars>>

WalkOn(t) ==
    work[t].op = "Walk" /\ Idle(t) /\ InsertAtPage(t, work[t].tuple, work[t].page)

\* The lock call that the thread was blocked in returns, and the table call goes
\* on with what it saw of the page before.
Resume(t) ==
    /\ Wake(t)
    /\ Complete(t, work[t], work[t].rid \in exclusive_lock_set'[t])
    /\ UNCHANGED <<next_txn_id, phase, lock_set>>

(***************************************************************************)
(* Commit and Abort.                                                       *)
(***************************************************************************)
\* The assertions of ApplyDelete and RollbackDelete: the tuple is locked, and
\* ApplyDelete finds it in its page.
FinishAsserts(t, item) ==
    /\ item.rid_ \in exclusive_lock_set[t]
    /\ HasSlot(item.rid_)
    /\ AppliesDelete(t, item.wtype_) => SlotAt(item.rid_).tuple # <<>>

Mut_KeepsUpdate(t, item) ==
    IF AppliesDelete(t, item.wtype_) THEN EmptySlot
    ELSE [SlotAt(item.rid_) EXCEPT !.marked = FALSE]

\* The slot after Commit or Abort has dealt with the write.
Finished(t, item) ==
    CASE AppliesDelete(t, item.wtype_) -> EmptySlot
      [] state[t] = "ABORTED" /\ item.wtype_ = "DELETE" -> [SlotAt(item.rid_) EXCEPT !.marked = FALSE]
      [] state[t] = "ABORTED" /\ item.wtype_ = "UPDATE" -> LiveSlot(item.tuple_[1])
      [] OTHER -> SlotAt(item.rid_)

UsesTable(t, item) == state[t] = "ABORTED" \/ item.wtype_ = "DELETE"

DrainTable(t) ==
    LET item == Last(write_set[t]) IN
    /\ phase[t] = "draining" /\ write_set[t] # <<>> /\ ~crashed
    /\ UsesTable(t, item) => LatchFree(PageOf(item.rid_), FALSE)
    /\ IF UsesTable(t, item) /\ ~FinishAsserts(t, item)
       THEN Crash /\ UNCHANGED <<tmVars, table>>
       ELSE Drain(t) /\ table' = WithSlot(item.rid_, Finished(t, item))
    /\ UNCHANGED work

THStep(t) ==
    \/ Begin(t) /\ UNCHANGED thVars
    \/ \E r \in RID : GetTuple(t, r) \/ MarkDelete(t, r)
    \/ \E r \in RID, tuple \in Tuple : UpdateTuple(t, r, tuple)
    \/ \E tuple \in Tuple : InsertTuple(t, tuple) \/ RefuseTuple(t, tuple)
    \/ WalkOn(t)
    \/ Resume(t)
    \/ work[t] = NoWork /\ (Commit(t) \/ Abort(t)) /\ UNCHANGED thVars
    \/ DrainTable(t)
    \/ (CollectLocks(t) \/ ReleaseNext(t)) /\ UNCHANGED thVars

THNext == \E t \in TxnId : THStep(t)

THSpec == THInit /\ [][THNext]_heapVars

(***************************************************************************)
(* Properties.                                                             *)
(***************************************************************************)
MaybeTuple == {<<>>} \union {<<tuple>> : tuple \in Tuple \union Range(Loaded)}

Slot == [tuple: MaybeTuple, marked: BOOLEAN]

WriteItem == [rid_: RID, wtype_: {"INSERT", "DELETE", "UPDATE"}, tuple_: MaybeTuple]

Work == {NoWork} \union [op: {"GetTuple", "MarkDelete", "InsertTuple"}, rid: RID]
                \union [op: {"UpdateTuple"}, rid: RID, tuple: Tuple]
                \union [op: {"Walk"}, page: 1..MaxPages, tuple: Tuple]

\* The table keeps to its pages and the pages to their room, and a thread that
\* is blocked in a lock call is in the middle of a table call on that tuple.
THTypeOK ==
    /\ table \in Seq(Seq(Slot)) /\ work \in [TxnId -> Work]
    /\ write_set \in [TxnId -> Seq(WriteItem)]
    /\ Len(table) \in 1..MaxPages
    /\ \A p \in DOMAIN table : GetFreeSpaceSize(p) >= 0
    /\ \A t \in TxnId : call[t] # NoCall => work[t].rid = call[t].rid

Shown(slot) == IF slot.marked THEN <<>> ELSE slot.tuple

\* What slot r holds once every transaction that has not committed is undone:
\* the state before the first write of the one that has the tuple locked.
Writes(t, r) == {i \in DOMAIN write_set[t] : write_set[t][i].rid_ = r}

FirstWrite(t, r) == write_set[t][Min(Writes(t, r))]

Uncommitted(t, r) ==
    /\ phase[t] \in {"running", "draining"} /\ state[t] # "COMMITTED"
    /\ r \in exclusive_lock_set[t] /\ Writes(t, r) # {}

BeforeWrite(item) ==
    CASE item.wtype_ = "INSERT" -> <<>>
      [] item.wtype_ = "UPDATE" -> item.tuple_
      [] item.wtype_ = "DELETE" -> SlotAt(item.rid_).tuple

InsertWaits(r) == \E t \in TxnId : call[t] # NoCall /\ work[t].op = "InsertTuple" /\ work[t].rid = r

CommittedTuple(r) ==
    IF PageOf(r) > Len(table) \/ ~HasSlot(r) \/ InsertWaits(r) THEN <<>>
    ELSE IF \E t \in TxnId : Uncommitted(t, r)
         THEN BeforeWrite(FirstWrite(CHOOSE t \in TxnId : Uncommitted(t, r), r))
         ELSE Shown(SlotAt(r))

\* Transactions are atomic: what is committed changes only when a transaction
\* commits, and then only in the tuples it has written. Nothing of a
\* transaction that aborts is left, whatever the order in which others have
\* waited, failed, inserted and deleted in the same pages. (A failed assertion
\* ends the program, and its pages in memory with it.)
AtomicCommit ==
    [][\A r \in RID : ~crashed' /\ CommittedTuple(r)' # CommittedTuple(r) =>
          \E t \in TxnId : /\ state[t] # "COMMITTED" /\ state'[t] = "COMMITTED"
                           /\ Writes(t, r) # {} /\ r \in exclusive_lock_set[t]]_heapVars

\* No dirty and no unrepeatable reads: while a transaction runs, the tuples it
\* has read under its shared locks are there and hold what was committed. (When
\* the assertion of Unlock stops ApplyDelete, the tuple has left its page already.)
ReadsAreCommitted ==
    \A t \in TxnId : ~crashed /\ phase[t] = "running" =>
        \A r \in shared_lock_set[t] :
            SlotAt(r).tuple # <<>> /\ ~SlotAt(r).marked /\ SlotAt(r).tuple = CommittedTuple(r)

InProgress(t) == phase[t] # "none" /\ ~Ended(t)

CanGoOn(t) ==
    IF call[t] # NoCall THEN HoldsLock(t, call[t].rid)
    ELSE IF work[t].op = "Walk" THEN LatchFree(work[t].page, FALSE)
    ELSE phase[t] = "draining" /\ write_set[t] # <<>> =>
            LET item == Last(write_set[t]) IN
            UsesTable(t, item) => LatchFree(PageOf(item.rid_), FALSE)

\* Some thread can go on while a transaction has not come to its end: as the
\* lock manager's wait-die promises, no circle of threads waits for each other's
\* tuple locks and page latches.
NobodyStuck ==
    ~crashed /\ (\E t \in TxnId : InProgress(t)) => \E t \in TxnId : InProgress(t) /\ CanGoOn(t)
=============================================================================
