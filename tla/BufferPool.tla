----------------------------- MODULE BufferPool -----------------------------
(***************************************************************************)
(* The buffer pool manager (src/src/buffer/buffer_pool_manager.cpp) with   *)
(* its replacer and the database file behind it. Every operation runs      *)
(* under latch_ from start to end, so each is one action.                  *)
(*                                                                         *)
(* The clients are the threads in the table heap and the index. A client   *)
(* keeps the Page pointer that FetchPage or NewPage returned until it      *)
(* calls UnpinPage, and reports what it changed by is_dirty. The page      *)
(* table is the map that ExtendibleHash implements.                        *)
(***************************************************************************)
EXTENDS LRUReplacer

CONSTANTS
    PoolSize,  \* pool_size_
    MaxPages,  \* bound: the number of pages that can be allocated
    Client,    \* the threads that use pages
    Content    \* the contents of a page other than zeros

ASSUME PoolAssumption ==
    /\ PoolSize \in Nat
    /\ MaxPages \in Nat
    /\ IsFiniteSet(Client)
    /\ "zeros" \notin Content /\ "not written" \notin Content

Frame == 1..PoolSize
NoFrame == 0  \* nullptr

PageId == 0..MaxPages - 1
INVALID_PAGE_ID == -1
KeptPage == 0  \* the first page, such as the index's trivial page, is never deleted

Zeros == "zeros"
Data == Content \union {Zeros}
NotWritten == "not written"

VARIABLES
    pages,       \* pages_: the frames
    page_table,  \* page_table_
    free_list,   \* free_list_
    replacer,    \* replacer_: lru_list_
    disk,        \* disk_manager_
    created,     \* history: the pages that NewPage has returned and that are not deleted
    held,        \* each client's pointer to each page, and whether it wrote there
    crashed      \* an assertion has failed

vars == <<pages, page_table, free_list, replacer, disk, created, held, crashed>>

Disk == INSTANCE DiskManager

Page == [page_id_ : PageId \union {INVALID_PAGE_ID}, pin_count_ : Nat,
         is_dirty_ : BOOLEAN, data_ : Data]

\* What a client has when it does not hold the page.
NoPointer == [frame |-> NoFrame, wrote |-> FALSE]

Init ==
    /\ pages = [f \in Frame |-> [page_id_ |-> INVALID_PAGE_ID, pin_count_ |-> 0,
                                 is_dirty_ |-> FALSE, data_ |-> Zeros]]
    /\ page_table = [p \in PageId |-> NoFrame]
    /\ free_list = [f \in Frame |-> f]
    /\ replacer = <<>>
    /\ disk = Disk!EmptyDisk
    /\ created = {}
    /\ held = [c \in Client |-> [p \in PageId |-> NoPointer]]
    /\ crashed = FALSE

Find(p) == page_table[p] # NoFrame

Holds(c, p) == held[c][p] # NoPointer

Crash ==
    /\ crashed' = TRUE
    /\ UNCHANGED <<pages, page_table, free_list, replacer, disk, created, held>>

\* The client c gets the pointer to the frame where the page p is.
Return(c, p, f) == held' = [held EXCEPT ![c][p] = [frame |-> f, wrote |-> FALSE]]

(***************************************************************************)
(* A frame for another page: the first free one, or else the replacer's    *)
(* victim, whose page leaves the page table and, if dirty, is written.     *)
(***************************************************************************)
FrameAvailable == free_list # <<>> \/ replacer # <<>>

FromReplacer == free_list = <<>>

NextFrame == IF FromReplacer THEN Victim(replacer) ELSE Head(free_list)

OldPage == pages[NextFrame].page_id_

VictimIsMapped == FromReplacer => OldPage \in PageId /\ Find(OldPage)

TakeFrame ==
    /\ free_list' = IF FromReplacer THEN <<>> ELSE Tail(free_list)
    /\ replacer' = IF FromReplacer THEN AfterVictim(replacer) ELSE replacer

Mut_KeepsOldEntry(p, f) == [page_table EXCEPT ![p] = f]

TableWith(p, f) ==
    [q \in PageId |-> IF q = p THEN f
                      ELSE IF FromReplacer /\ q = OldPage THEN NoFrame
                      ELSE page_table[q]]

Mut_DropsDirtyVictim(D) == D

WriteBack(D) ==
    IF FromReplacer /\ pages[NextFrame].is_dirty_
    THEN Disk!WritePage(D, OldPage, pages[NextFrame].data_)
    ELSE D

Load(p, dirty, data) ==
    pages' = [pages EXCEPT ![NextFrame] = [page_id_ |-> p, pin_count_ |-> 1,
                                           is_dirty_ |-> dirty, data_ |-> data]]

(***************************************************************************)
(* The operations.                                                         *)
(***************************************************************************)
Mut_ReplacerKeepsPinned(f) == replacer

\* The replacer when a page in the pool is pinned.
AfterPin(f) == IF pages[f].pin_count_ = 0 THEN Erase(replacer, f) ELSE replacer

\* Clients know page ids from NewPage only, and do not use those they have deleted.
FetchPage(c, p) ==
    /\ p \in created /\ ~Holds(c, p)
    /\ IF Find(p)
       THEN LET f == page_table[p]
            IN /\ replacer' = AfterPin(f)
               /\ pages' = [pages EXCEPT ![f].pin_count_ = @ + 1]
               /\ Return(c, p, f)
               /\ UNCHANGED <<page_table, free_list, disk, created, crashed>>
       ELSE IF ~FrameAvailable
       THEN UNCHANGED vars
       ELSE IF ~VictimIsMapped
       THEN Crash
       ELSE LET D == WriteBack(disk)
            IN /\ TakeFrame
               /\ page_table' = TableWith(p, NextFrame)
               /\ disk' = Disk!StreamAfterRead(D, p)
               /\ Load(p, FALSE, Disk!ReadPage(D, p, pages[NextFrame].data_))
               /\ Return(c, p, NextFrame)
               /\ UNCHANGED <<created, crashed>>

Mut_NewPageIsClean == FALSE

\* is_dirty_ of a new page.
NewPageIsDirty == TRUE

NewPage(c) ==
    LET p == disk.next_page_id_
        D == Disk!AllocatePage(disk)
    IN /\ p \in PageId
       /\ IF ~FrameAvailable
          THEN disk' = D /\ UNCHANGED <<pages, page_table, free_list, replacer, created, held, crashed>>
          ELSE IF ~VictimIsMapped
          THEN Crash
          ELSE /\ TakeFrame
               /\ page_table' = TableWith(p, NextFrame)
               /\ disk' = WriteBack(D)
               /\ Load(p, NewPageIsDirty, Zeros)
               /\ created' = created \union {p}
               /\ Return(c, p, NextFrame)
               /\ UNCHANGED crashed

Mut_OverwritesDirty(f, is_dirty) == is_dirty

Dirty(f, is_dirty) == is_dirty \/ pages[f].is_dirty_

\* A client that wrote says so; others may say it all the same.
UnpinPage(c, p, is_dirty) ==
    /\ Holds(c, p)
    /\ held[c][p].wrote => is_dirty
    /\ held' = [held EXCEPT ![c][p] = NoPointer]
    /\ LET f == page_table[p]
       IN IF Find(p) /\ pages[f].pin_count_ > 0
          THEN /\ pages' = [pages EXCEPT ![f].is_dirty_ = Dirty(f, is_dirty),
                                         ![f].pin_count_ = @ - 1]
               /\ replacer' = IF pages[f].pin_count_ = 1 THEN Insert(replacer, f)
                              ELSE replacer
          ELSE UNCHANGED <<pages, replacer>>
    /\ UNCHANGED <<page_table, free_list, disk, created, crashed>>

FlushPage(p) ==
    /\ p \in created /\ Find(p)
    /\ LET page == pages[page_table[p]]
       IN disk' = Disk!WritePage(disk, page.page_id_, page.data_)
    /\ UNCHANGED <<pages, page_table, free_list, replacer, created, held, crashed>>

\* page_id_ is reset before it is used as the key to remove from the page
\* table: Remove(INVALID_PAGE_ID) finds nothing, and the entry of p stays. A
\* page that somebody has pinned is not deleted.
DeletePage(p) ==
    LET f == page_table[p] IN
    /\ p \in created /\ p # KeptPage
    /\ IF Find(p) /\ pages[f].pin_count_ > 0 THEN UNCHANGED vars
       ELSE /\ IF Find(p)
               THEN /\ pages' = [pages EXCEPT ![f].is_dirty_ = FALSE,
                                              ![f].page_id_ = INVALID_PAGE_ID]
                    /\ free_list' = Append(free_list, f)
                    /\ replacer' = Erase(replacer, f)
               ELSE UNCHANGED <<pages, free_list, replacer>>
            /\ disk' = Disk!DeallocatePage(disk, p)
            /\ created' = created \ {p}
            /\ UNCHANGED <<page_table, held, crashed>>

\* A client changes a page through its pointer, under the page's latch.
Write(c, p, d) ==
    /\ Holds(c, p)
    /\ pages' = [pages EXCEPT ![held[c][p].frame].data_ = d]
    /\ held' = [held EXCEPT ![c][p].wrote = TRUE]
    /\ UNCHANGED <<page_table, free_list, replacer, disk, created, crashed>>

ClientStep(c) ==
    \/ NewPage(c)
    \/ \E p \in PageId : \/ FetchPage(c, p)
                         \/ \E is_dirty \in BOOLEAN : UnpinPage(c, p, is_dirty)
                         \/ \E d \in Data : Write(c, p, d)

Next ==
    /\ ~crashed
    /\ \/ \E c \in Client : ClientStep(c)
       \/ \E p \in PageId : FlushPage(p) \/ DeletePage(p)

Spec == Init /\ [][Next]_vars

(***************************************************************************)
(* Properties.                                                             *)
(***************************************************************************)
Holders(f) == {x \in Client \X PageId : held[x[1]][x[2]].frame = f}

\* Every variable keeps its type; the lists hold frames.
TypeOK ==
    /\ pages \in [Frame -> Page]
    /\ page_table \in [PageId -> Frame \union {NoFrame}]
    /\ free_list \in Seq(Frame)
    /\ replacer \in Seq(Frame)
    /\ disk \in [file : [PageId -> Data \union {NotWritten}], good : BOOLEAN,
                 next_page_id_ : 0..MaxPages]
    /\ created \in SUBSET PageId
    /\ held \in [Client -> [PageId -> [frame : Frame \union {NoFrame}, wrote : BOOLEAN]]]
    /\ crashed \in BOOLEAN

\* Every frame is in exactly one place, once: in the free list, in the replacer
\* (in the page table and unpinned) or pinned (in the page table). NewPage and
\* FetchPage fail only if all frames are pinned. Only deleted pages may have
\* entries of the page table that lead to the frame of another page or to a free one.
FramePartition ==
    /\ \A p \in created : Find(p) =>
           pages[page_table[p]].page_id_ = p /\ page_table[p] \notin Range(free_list)
    /\ \A f \in Frame :
           \/ f \in Range(free_list)
           \/ pages[f].page_id_ \in created /\ page_table[pages[f].page_id_] = f
    /\ \A f \in Frame : f \in Range(replacer) <=>
           pages[f].pin_count_ = 0 /\ f \notin Range(free_list)
    /\ IsInjective(free_list) /\ IsInjective(replacer)

\* A page that a client holds stays where the client's pointer says, whatever
\* the other clients fetch, create and unpin, and its frame counts the pins.
PinnedPagesStay ==
    /\ \A c \in Client, p \in PageId : Holds(c, p) => held[c][p].frame = page_table[p]
    /\ \A f \in Frame : pages[f].pin_count_ = Cardinality(Holders(f))

\* Nothing that is only in memory can be lost: a page whose frame is clean, and
\* that nobody has changed since, is in the file as it is in memory.
CleanPagesAreOnDisk ==
    \A p \in created :
        Find(p) /\ ~pages[page_table[p]].is_dirty_ /\ (\A c \in Client : ~held[c][p].wrote)
            => disk.file[p] = pages[page_table[p]].data_

\* Nothing fails below or on the way: the file stream stays good, since no page is
\* read that was not written before, and the assertions on page_table_->Remove in
\* FetchPage and NewPage hold.
NothingFails == disk.good /\ ~crashed

(***************************************************************************)
(* What the properties above need to be inductive: a page in use exists    *)
(* and is in the pool, ids are not handed out twice, and what is not in    *)
(* the pool is in the file.                                                *)
(***************************************************************************)
PoolInv ==
    /\ \A c \in Client, p \in PageId : Holds(c, p) => p \in created /\ Find(p)
    /\ \A p \in created : /\ p < disk.next_page_id_
                          /\ Find(p) \/ disk.file[p] # NotWritten

Store == INSTANCE PageStore WITH
    store <- [p \in PageId |-> IF p \notin created THEN NotWritten
                              ELSE IF Find(p) THEN pages[page_table[p]].data_
                              ELSE disk.file[p]],
    holding <- [c \in Client |-> {p \in PageId : Holds(c, p)}]

\* The pool is a store of pages: evictions, write-backs, reloads and flushes
\* change no page, a deletion takes no other page with it although its entry of
\* the page table stays, and a client that holds a page sees its one content.
ImplementsPageStore == Store!StoreSpec
=============================================================================
