# QCDB in TLA+

QCDB is a disk-based storage engine that SQLite uses through a virtual table.
This directory holds TLA+ models of its parts, TLC configurations that check
them on small instances, and proofs for TLAPS. Paths below are relative to
`src/src/` unless they begin with `src/`.

## The system

| Part | Source | Models |
|---|---|---|
| Lock manager: shared and exclusive tuple locks, upgrades, wait-die | `concurrency/lock_manager.cpp` | `LockManager` |
| Transaction manager: Begin, Commit, Abort, the release of locks | `concurrency/transaction_manager.cpp`, `include/concurrency/transaction.h` | `TransactionManager` |
| Page latch: a readers-writer mutex | `include/common/rwmutex.h` | `RWLatch` (abstract), `RWMutex` |
| Page table: extendible hashing | `hash/extendible_hash.cpp` | `HashTable` (abstract), `ExtendibleHash` |
| Replacer | `buffer/lru_replacer.cpp` | `LRUReplacer` |
| Disk manager | `disk/disk_manager.cpp` | `DiskManager` (the page file) |
| Buffer pool | `buffer/buffer_pool_manager.cpp` | `PageStore` (abstract), `BufferPool` |
| Table page: slots and tuples of one page | `page/table_page.cpp` | `TablePage` (the bytes), `TableHeap` (the tuple locks) |
| Table heap | `table/table_heap.cpp` | `TableHeap` |
| Table iterator | `table/table_iterator.cpp` | its reads, as `GetTuple` of `TableHeap`; not its own latch |
| B+ tree and its pages | `index/b_plus_tree.cpp`, `page/b_plus_tree_*.cpp` | `UniqueIndex` (abstract), `BPlusTreePage`, `BPlusTree` |
| Index iterator | `index/index_iterator.cpp` | `BPlusTree` (scans of a tree at rest) |
| Header page, log manager, log recovery | `page/header_page.cpp`, `logging/` | not modelled, see below |
| Virtual table, storage engine | `vtable/virtual_table.cpp` | not modelled, see below |
| SQL types, values, tuples, schema | `type/`, `catalog/`, `table/tuple.cpp` | not modelled: no shared state |

How they interact: SQLite calls the virtual table, which calls the index (B+ tree)
and the table heap. Both fetch pages from the buffer pool, latch them with the
page latch and unpin them. With logging enabled the table page asks the lock
manager for a tuple lock before it reads or writes a tuple. The write set of the
transaction remembers the writes; Commit and Abort walk it backwards, call the
table heap again, and release the locks. The buffer pool finds frames through
the page table, takes victims from the replacer, and reads and writes pages
through the disk manager.

## Modules

Asserts are compiled in (the build defines no `NDEBUG`), so a failed assert stops
the program: models have a variable `crashed` that such a step sets. Definitions
whose names begin with `Mut_` are deliberately wrong variants of the definition
that follows them. They show that the properties notice such a mistake.

### LockManager

`lock_table` maps a record id to its `LockList`: the requests in order, the type
of the list and the count of granted requests, as in `lock_manager.h`. `state`,
`shared_lock_set` and `exclusive_lock_set` are the fields of the transactions;
`call` is the lock call that a transaction's thread is blocked in.

`LockShared`, `LockExclusive`, `LockUpgrade` and `Unlock` run under
`lock_table_latch_` and are one action each, up to the point where the caller
waits on its promise. What the caller does after the promise is kept runs without
the latch: the action `Wake`. The two copies of the code that passes the lock on
(the exclusive branch of Unlock and the shared branch with no holder left) are
one operator, `PassTurn`; the case of two shared holders is `LeavePair`.

The callers are described by `AskShared`, `AskExclusive`, `AskUpgrade` and
`Release`: they do not ask for a lock they hold (`lock_manager.h` calls that
undefined) except for a shared lock under their exclusive one, they lock only
while growing (an aborted transaction may ask and is turned away), and they
release what they hold. `TransactionManager` shows which callers keep to this.

### TransactionManager

Extends `LockManager` by the order of ids, the write set and the loops of Commit
and Abort. Every round of a loop is a step, since no latch is held over them.
Constants choose the kinds of write (`WTypes`), strict or plain two-phase locking
(`Strict`) and whether the table takes tuple locks (`Logging`). `MaxWrites` bounds
the write set of a transaction and `MaxRequests` the requests in all lock lists.

### RWLatch and RWMutex

`RWMutex` follows the loops of `RLock` and `WLock`: a thread is at a place of its
code and may sleep on the condition variable `reader_` or `writer_`. `notify_one`
wakes any one sleeper, and a sleeper may wake for no reason. `RWLatch` is the
latch as its users see it; `ImplementsLatch` is the refinement.

### HashTable and ExtendibleHash

`ExtendibleHash` has the directory, the buckets and their records. `Find` and
`Remove` are one action each. `Insert` loops until the record is in and keeps the
latch of the table meanwhile: `inserting` has its arguments, and every round of the
loop is an action, which overwrites a record, appends one, splits a bucket, or
doubles the directory and leaves the rest to the next round. The table implements
the map `HashTable` with the result of every call. The hash of an integer is the
integer, as in the usual standard libraries. Powers of two (`Shift`) and the records
that go to a bucket (`Select`) are recursive functions.

### LRUReplacer, DiskManager, PageStore and BufferPool

`BufferPool` has the frames, the page table (as the map that `ExtendibleHash`
implements), the free list, the replacer and the file. Clients keep the pointer
that `FetchPage` or `NewPage` returned until they unpin the page, write through
it and report the write as dirty. The file behind the disk manager keeps the
state of its stream: a read at the end of the file fails the stream for good.
`PageStore` is what clients rely on: a page is what was last written to it.
`DeletePage` resets `page_id_` before it removes that id from the page table, so
the entry of the deleted page stays and leads to a frame that other pages get.
The model keeps the stale entry; the properties speak of pages that exist, and
show that the entry does no harm as long as ids are not given out twice and nobody
asks for a deleted page. `KeptPage`, the first page, is never deleted: like the
index's trivial page it lives as long as the program.

### TablePage

The slots, the free space pointer and the bytes of the tuples, with the moves of
bytes that updates and deletions make. `rows` is a history variable with the
bytes each slot was last given. `Next` has no update while a tuple of the page is
marked as deleted; `MixedNext` has, and shows what goes wrong.

### TableHeap

Extends `TransactionManager` by the table itself: a chain of pages with slots, of
which only the room they take is kept. An operation holds the latch of its page
from its first look to its last write, so it is one action, unless it has to wait
for a tuple lock. Then `work` remembers what the thread was doing, the page stays
latched, and `Resume` goes on after the wait. `InsertTuple` walks the chain page
by page (`WalkOn`), since it has no latch between two pages. `DrainTable` is one
round of the write-set loop of Commit or Abort with the table operation that it
calls (`ApplyDelete`, `RollbackDelete`, `UpdateTuple`). Updates replace a tuple by
one of its size; those that change the size are the subject of `TablePage`. A
failed table operation leaves the transaction ABORTED, after which its thread
calls only Commit or Abort. `CommittedTuple` says what a slot holds once every
transaction that has not committed is undone. `ReadsAreCommitted` speaks of a
program that runs: a transaction that marks a tuple twice and commits unlocks it in
the first `ApplyDelete`; when another has put a tuple into the slot and a third
has read it, the second `ApplyDelete` empties the slot before the assertion of
`Unlock` stops the program.

### UniqueIndex, BPlusTreePage and BPlusTree

`BPlusTreePage` has the operations of leaf and internal pages on a memory of pages
(`LeafInsert`, `MoveHalfTo`, `MoveAllTo`, `MoveFirstToEndOf`...). `BPlusTree` has
the structural changes as operators on the tree (`InsertIntoParent`,
`CoalesceOrRedistribute`, `AdjustRoot`) and the threads. A thread waits for one
latch at a time; one action `Latch` is one round of `FindLeafPage`: the latch of the
wanted page, the release of the pages above if the page is safe, and the fetch of
the next one. The work on the leaf and the pages above it is one action
(`FinishInsert`, `FinishRemove`, `FinishGetValue`), followed by `Return`. Latches
are used as `RWLatch` specifies them and pages as `PageStore` does; the pins that
calls leave behind between steps are counted. Pages that have left the tree and
that nobody is on are dropped, so that page ids can be reused in the model.

`UniqueIndex` is the abstract index: each call takes effect at one moment between
call and return. `RemoveAlone` says whether removals run beside other calls.

## Runs

| Run | Instance | What it shows |
|---|---|---|
| `lock_manager` | 3 transactions, 2 records, plain 2PL, symmetric records | `LockCompatibility`, `NoDeadlock`, `FirstWaiterIsBlocked`, `LockSetsAreHeld`, `NoAssertFails` and the inductive invariant `LockTableInv` |
| `transaction_manager` | 3 transactions, 2 records, up to 4 requests, an update each under locks, with fairness | a finished transaction has no request left, no lock is lost before the end, the lock manager is called as it allows, every transaction ends |
| `rw_mutex` | 4 threads, limit of 3 readers, with fairness | exclusion, no lost wake-up, refinement of the latch; an entered writer gets in, and while somebody waits somebody gets in |
| `extendible_hash` | 5 keys, buckets of 1 record, 2 values | directory and records right, refinement of the map |
| `buffer_pool` | 2 clients, 2 frames, 3 pages, 1 content besides zeros, deletions | frames in one place, pinned pages stay, clean pages are on disk, refinement of the store |
| `table_page` | 9 bytes for slots and tuples of 1, 2 or 3 bytes | tuples fill the page without a hole and every slot shows its tuple |
| `table_heap` | 2 transactions with 2 writes each, a full page and room for a second one | pages keep to their room, reads see committed tuples only and again and again the same, commits are atomic |
| `b_plus_tree` | 2 threads, 6 keys, leaves of 2 and internal pages of 4 entries, a trivial page that is not page 0; removals alone | the tree is balanced, ordered and filled as `CheckIntegrity` asks, no assert fails, pins fit the use, scans are complete and in order, no thread blocks all others, refinement of the index |

Bounds. Three transactions are the least with two shared holders and a waiter
behind them, which reaches every branch of Unlock; two records let waits cross.
Four threads are two readers beside a writer that drains and one that waits.
Five keys fill buckets of one record so that the directory doubles several times
and splits without doubling. Two frames and three pages make every fetch of the
third page an eviction. The table page has room for up to four tuples. In
`transaction_manager` four requests are the least with which two transactions could
wait for each other: a lock and a wait of each, on two records or, as two upgrades,
on one. They also are two holders with two waiters behind them. In `table_heap` an older and a younger transaction meet both outcomes of
wait-die; two writes let one transaction write a tuple twice; the full first page
sends an insertion down the chain, to a new page, and, after a deletion, to a free
slot; the tuple `huge` fits nowhere. Six keys make a tree of three
levels with splits, loans and merges of internal pages. Calls that overlap use the
keys of `OverlapKey`, two neighbours that fall into one leaf or into two; calls
that run alone use all keys, so overlapping calls meet trees of every shape.
States that differ only in the ids of the tree's pages are one (`MCView`), and so are
those that differ in how many pins the trivial page has kept.

Deadlock is checked except in five runs. In `transaction_manager` and `commit_delete`
all transactions come to an end, or an assertion fails; that none stops on its way is
`EveryTransactionEnds`. In `table_heap` and `table_heap_stuck`
all transactions come to an end, an assertion fails, or, as `table_heap_stuck`
shows, threads wait for each other. In `b_plus_tree_remove` a failing assertion
ends the program: an insert into a tree that a removal has emptied meanwhile.

Fairness. In `transaction_manager` the thread whose promise is kept goes on, a
loop of Commit or Abort goes on, and a thread that is not blocked ends its
transaction some day; nothing is assumed about the locks it asks for. In
`rw_mutex` a thread that is awake gets the internal mutex some day and
the holder of a latch releases it. No thread has to call, and spurious wake-ups
are not counted on. Starvation of a single reader or writer is possible and is
not excluded by the code; the property says that somebody gets in.
`b_plus_tree_remove` states that threads run and get the latches offered to them;
its counterexample is a wrong step and does not depend on it.

## Where code and comments disagree

Each of these is a run that TLC ends with a counterexample.

| Run | What happens |
|---|---|
| `commit_delete` | A commit with a deletion unlocks the tuple in `ApplyDelete` and again in the release loop; the second call fails an assertion. |
| `table_page_marked` | An update moves the bytes of a tuple marked as deleted but not its offset; a rollback of the deletion shows other bytes. |
| `b_plus_tree_remove` | A removal beside another call: the siblings that `CoalesceOrRedistribute` reads and changes are not latched. One removal borrows an entry from a leaf where the other, or a search, is about to look for it; the other returns with its key still in the tree, or the search misses a key that is there. |
| `table_heap_stuck` | An older transaction waits in `GetTuple` for a tuple that a younger one has updated, with the page latched; the younger one aborts and cannot restore the tuple without that latch. Wait-die excludes circles of locks, and not this circle of a lock and a latch. |

Seen while reading or modelling the code, without a run of their own:

- Under strict two-phase locking, which the storage engine uses, the assertion in
  `Unlock` (`lock_manager.cpp:276`) rejects an aborted transaction; the comment
  above it names committed or aborted.
- `Commit` sets COMMITTED on an ABORTED transaction too, which the state diagram of
  `transaction.h` does not have.
- The abort of an insertion unlocks the tuple twice, like the commit of a deletion.
- `Unlock` leaves the record in the lock set, which `transaction.h` describes as
  the tuples locked by the transaction.
- `LockUpgrade` lacks the test for an aborted transaction that `LockShared` has.
- A split of a hash bucket may leave more records in it than its "fixed array
  size".
- `TableHeap::MarkDelete` returns true and records the write even when the page
  has refused it.
- The constructor of the B+ tree does not write the page id of the trivial page
  (`b_plus_tree.cpp:25-28`), which then reads 0. Where the code takes the id from the
  page (lines 61, 658 and 677) it unpins page 0 in place of the trivial page. In the
  tests that count pins the trivial page is page 0. In a tree built after another page,
  as in `b_plus_tree_print_test.cpp:53-56`, or a second index, the trivial page stays
  pinned and page 0 loses a pin of somebody else. The run `b_plus_tree` is such a tree:
  it shows that the tree's own pages are pinned as they should be all the same. With
  equality for the trivial page too, `PinnedWhileUsed` fails after the insertion and
  the removal of one key.
- `StartNewTree` sets `root_page_id_` before it initialises the page, under a latch
  that `GetValue` does not take. A search that begins before the first insertion has
  returned may meet the raw page; the model leaves such callers out (`MayCall`).
- `Begin(key)` throws when the leaf for the key has none as large, also when the
  next leaf has. `ScansInOrder` speaks of keys that are in the tree.
- `GetValue` and `Begin` on an empty tree fail the assertion of `FetchPage`.
- On a new file the start-up of the virtual table expects `HEADER_PAGE_ID` (1)
  from the first `NewPage`, which gives 0.

## Proofs

| Theorem | Module | Statement |
|---|---|---|
| `TypeCorrect`, `LockTableConsistent` | `LockManagerProofs` | `Spec => []TypeOK`, `Spec => []LockTableInv` |
| `Compatibility` | `LockManagerProofs` | `Spec => []LockCompatibility` |
| `DeadlockFreedom` | `LockManagerProofs` | `Spec => []NoDeadlock` |
| `NoForgottenWaiter` | `LockManagerProofs` | `Spec => []FirstWaiterIsBlocked` |
| `LockSetsRight` | `LockManagerProofs` | `Spec => []LockSetsAreHeld` |
| `AssertionsHold` | `LockManagerProofs` | `~Strict => (Spec => []NoAssertFails)` |
| `OthersKeepTheirLocks` | `LockManagerProofs` | `Spec => [][LocksAreKept]_vars`: a step takes no lock from, and gives none to, another transaction that is not blocked |
| `TMTypeCorrect` | `TransactionManagerProofs` | `UpdatesOnly => (TMSpec => []TMTypeOK)` |
| `LocksHeldToTheEnd`, `ReleasesEverything` | `TransactionManagerProofs` | the same for `HeldToTheEnd` and `ReleaseIsComplete` |
| `UsesLockManager` | `TransactionManagerProofs` | `UpdatesOnly => (TMSpec => UsesLockManagerAsAllowed)` |
| `TransactionsAreSafe` | `TransactionManagerProofs` | the safety of the lock manager under `TMSpec` |
| `TypeCorrect`, `Exclusion` | `RWMutexProofs` | `Spec => []TypeOK`, `Spec => []MutualExclusion` |
| `Refinement` | `RWMutexProofs` | `Spec => ImplementsLatch` |
| `Wakeups` | `RWMutexProofs` | with at most `MaxReaders` threads, `Spec => []NoLostWakeup` |
| `TypeCorrect`, `FramesPartitioned`, `PagesStayPinned`, `CleanIsOnDisk`, `NoFailure` | `BufferPoolProofs` | `Spec => []` of `TypeOK`, `FramePartition`, `PinnedPagesStay`, `CleanPagesAreOnDisk`, `NothingFails` |
| `PoolIsAPageStore` | `BufferPoolProofs` | `Spec => ImplementsPageStore` |
| `PageTypeCorrect`, `PageIsTiled`, `PageKeepsTuples` | `TablePageProofs` | `Spec => []` of `TypeOK`, `TuplesTile`, `StoredTuplesAreThere` |
| `TypeCorrect`, `DirectoryStaysRight` | `ExtendibleHashProofs` | `Spec => []TypeOK`, `Spec => []DirectoryIsRight` |
| `TableIsAMap` | `ExtendibleHashProofs` | `Spec => ImplementsHashTable` |

`Invariance`, `TransactionInvariance`, `PoolIsRight`, `PageIsInOrder` and `TableIsRight` state the
inductive invariants that the others follow from.

**Lock manager.** Proved for any number of transactions and records, both
values of `Strict`, from the assumptions in `LockManager.tla` alone. The
inductive invariant is `LockTableInv` with the types. For every list
(`ListInv`) it says: the granted requests are the first `list_grant_cnt_` ones
and a list with requests has one; the type of the list is the type of the granted
requests, and behind shared holders the first waiter wants an exclusive lock; a
waiter is at least as old as everyone ahead of it; a transaction has two requests
in a list only while it upgrades. For the transactions it says who waits in which
call and that the lock sets agree with the lists. None of the properties is
inductive alone: compatibility needs the position of the granted requests and
the type of the list, freedom from deadlock needs the order of the waiters, the
first waiter needs both. `SequenceLemmas` has facts on a sequence without one of
its elements, on extrema of sets of numbers and on recursive functions.
`LockListProofs` says what Unlock and the calls that ask for a lock make of a list
that satisfies `ListInv`, `LockManagerProofs` has one lemma per action. Each of these also shows `OthersHold`, what the step leaves alone, on which the transaction
manager builds.

**Transaction manager.** The invariant `TInv` adds `TMInv` to the one of the
lock manager: until a transaction collects its locks, its lock sets agree with
its requests, also when it has died or committed (the lock manager itself
promises this only for growing transactions), and from then on the locks still
to be released are the ones it holds. From it follow that every `Unlock` of the
release loop finds a granted request, hence that each step of the managers is one
that `LockManager` allows its callers (`UsesLockManager`), and all theorems
of the lock manager carry over (`TransactionsAreSafe`). The assumption
`UpdatesOnly` has two parts. Plain two-phase locking: under the strict form
`Unlock` asserts a state that an aborted transaction does not have. Only updates
in the write set: for a deletion or an undone insertion `ApplyDelete` unlocks the
tuple before the release loop does, which `commit_delete` shows. Both are needed;
numbers of transactions, records, writes and requests are arbitrary, and tuple
locks may be on or off.

**Page latch.** Proved for any finite set of threads and any limit of readers.
Its invariant `IInv` counts readers as the threads that are reading, and says that
`writer_entered_` is set exactly while one thread drains or writes. `Wakeups`
assumes no more threads than `MaxReaders`: at the limit a single `notify_one` may
wake a writer where a reader waits too. With the limit `UINT_MAX` of the code
that assumption always holds in practice.

**Buffer pool.** Proved for any number of frames and pages, any finite set of
clients and any contents. The properties of the run hold each other up: that a
victim is nobody's page needs the pin counts to be the numbers of holders
(`PinnedPagesStay`), that it is in the page table needs `FramePartition`, and that
an eviction loses nothing needs `CleanPagesAreOnDisk`. `PoolInv` adds that a held
page exists and is in the pool, that the pages that exist have ids below
`next_page_id_` (so a new page meets none of them), and that a page outside the
pool has been written to the file. `FetchPage` and `NewPage` differ only in which
page they load (`Loads`); `InPlaceStep` has what the operations on a page in the
pool share. The pin counts are the cardinalities of sets of holders, and the steps
compare those sets before and after. The refinement maps every step to a step
of the store or a stutter: what the file or the frame of a page holds is its one
content (`ContentOf`), and evictions, write-backs and flushes leave it alone.

**Table page.** Proved for every size of the page, its header and its slots, any
tuples, and any number of slots. The invariant `PageInv` says that the slots end
below the free space pointer and states the tiling in terms of offsets: each
tuple lies between the pointer and the end (`Inside`), two tuples do not overlap
(`Apart`), each byte there belongs to a tuple (`Cover`); `Shows` says that the
bytes are the ones given. An insertion puts a tuple below the others
(`InsertTiles`, `InsertShows`). An update and a deletion are one argument, a tuple
that changes its size, to 0 for a deletion (`ResizeTiles`, `ResizeShows`): those
below it move by the difference, those above stay. `MarkDelete` and
`RollbackDelete` leave the layout alone. As in the run, tuples are updated only
while none on the page is marked as deleted; without that the theorem is false
(`table_page_marked`).

**Hash table.** Proved for any set of page ids, any values and any size of a
bucket. The invariant `Inv` has the types, the directory as `DirectoryIsRight` states
it (`Right`), and `InPlace`: a record is in the bucket where its key is looked up,
and no bucket has two records of a key. `DirectoryIsRight` needs none of the records,
but the refinement does: it says that what `Find` looks at is all there is of a key. A
split and a doubling are the same argument about the lowest bits of a number (the
lemmas on `Shift`): a doubling copies the slots, which keeps the directory right
(`DoublingIsGood`), and dividing a bucket by its next bit does (`DividingIsGood`).
Every round of `Insert` either returns with the record put (`Puts`) or changes
nothing in the contents of the table (`Keeps`), so it maps to `MapInsert` or to a
stutter. That the loop ends is not claimed: keys with equal hashes would split for
ever. Facts about the recursive functions `Shift` and `Select` come from
`RecursionOnNat`, which gives a function for every recursive definition on the
naturals, and from least counterexamples in place of induction.

All proofs start from the assumptions on the constants alone. TLC finds no
violation of any of the inductive invariants on the instance of the component's
run, and for the transaction manager neither with nor without tuple locks. The module
`Lists` exists for the proofs: it has the three sequence operators that the models
need from `SequencesExt`, which would load the theorems about bags into every proof
obligation.

Model-checked only:

- Liveness (`EveryTransactionEnds`, `EnteredWriterGetsIn`, `SomebodyGetsIn`), which
  is beyond this prover.
- The B+ tree with its refinement. Its structural changes are recursive operators
  that move up from page to page, which the prover does not take, and its invariant
  needs induction over the depth of the tree.
- The table heap. It builds on the transaction manager with locks that are held
  across page latches, and with insertions and deletions, which the theorems about the
  transaction manager leave out; `ReadsAreCommitted` and `AtomicCommit` relate the tuples
  to the write sets of all transactions at every point of their undo. The
  proof of an inductive invariant for this takes thousands of obligations on top of
  those of the two modules below it, more than the prover gets through in a reasonable
  time, and it has not been completed. What is known of the table heap is what TLC
  shows on the instance of its run.
- The updates of marked pages and the other runs that end in a counterexample.

## Not modelled

- Log manager and log recovery: `AppendLogRecord` has no caller, no part writes a
  log record, `Redo` and `Undo` are empty functions. There is no recovery to state
  a property of.
- A restart on an existing file: the destructor of the buffer pool writes nothing
  back and `next_page_id_` begins at 0 again, so a restart has nothing to rely on.
- Header page: a sequential list of names and root ids. The tree never asks it to
  insert a record (`insert_record` is always 0), so it has no effect on the parts
  modelled.
- Virtual table: the glue between SQLite's callbacks and the parts modelled. The
  order of its index and table updates, where one may fail after the other, is
  listed among the hazards.
- Iterators that move beside writers. The index iterator moves without latches; the
  table iterator latches its page and `GetTuple` latches it again, which the latch
  model, with one latch per thread, does not have.
- A buffer pool that runs out of frames under the table heap or the tree. What the
  pool then returns is modelled in `BufferPool`; of its callers only the failure of
  `NewPage` in `TableHeap::InsertTuple`.
- Updates that change the size of a tuple, as undone by Abort beside other
  transactions. On one page they are modelled in `TablePage`.
- The SQL type system, tuples and schemas, which have no shared state; SQLite, which
  is a third-party library kept in the repository; logging macros, exceptions and
  string utilities.
