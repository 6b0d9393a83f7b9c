---------------------------- MODULE DiskManager ----------------------------
(***************************************************************************)
(* The database file (src/src/disk/disk_manager.cpp) as operators on a     *)
(* record: file, the pages written so far (NotWritten for the others);     *)
(* good, the state of the stream db_io_; and next_page_id_. The buffer     *)
(* pool calls them under its own latch.                                    *)
(***************************************************************************)
LOCAL INSTANCE Integers

CONSTANTS
    PageId,     \* the ids AllocatePage can hand out
    Zeros,      \* a page of zeros
    NotWritten  \* no page

EmptyDisk == [file |-> [p \in PageId |-> NotWritten], good |-> TRUE, next_page_id_ |-> 0]

Mut_SkipsAnId(disk) == [disk EXCEPT !.next_page_id_ = @ + 2]

AllocatePage(disk) == [disk EXCEPT !.next_page_id_ = @ + 1]

\* DeallocatePage does nothing.
DeallocatePage(disk, page_id) == disk

\* A stream that has failed, as by a seek to a negative offset, takes no more
\* output, and bad() does not tell.
WritePage(disk, page_id, data) ==
    IF ~disk.good THEN disk
    ELSE IF page_id < 0 THEN [disk EXCEPT !.good = FALSE]
    ELSE [disk EXCEPT !.file[page_id] = data]

\* The file ends after the last page that was written.
BeyondEnd(disk, page_id) == \A p \in PageId : p >= page_id => disk.file[p] = NotWritten

AtEnd(disk, page_id) ==
    /\ BeyondEnd(disk, page_id)
    /\ page_id = 0 \/ ~BeyondEnd(disk, page_id - 1)

\* What ReadPage leaves in the frame: its old content if the page begins beyond
\* the end, zeros if nothing can be read.
ReadPage(disk, page_id, old) ==
    CASE BeyondEnd(disk, page_id) /\ ~AtEnd(disk, page_id) -> old
      [] ~disk.good \/ AtEnd(disk, page_id) \/ disk.file[page_id] = NotWritten -> Zeros
      [] OTHER -> disk.file[page_id]

\* The stream after ReadPage: a short read at the end of the file sets its
\* eofbit and failbit, and nothing clears them.
StreamAfterRead(disk, page_id) ==
    [disk EXCEPT !.good = @ /\ ~AtEnd(disk, page_id)]
=============================================================================
