----------------------------- MODULE TablePage -----------------------------
(***************************************************************************)
(* A page of a table (src/src/page/table_page.cpp): a header, an array of  *)
(* slots that grows up from it, and the bytes of the tuples, which grow    *)
(* down from the end of the page to the free space pointer. A slot has     *)
(* the offset and the size of its tuple: size 0 is an empty slot, a        *)
(* negative size a tuple that is marked as deleted.                        *)
(*                                                                         *)
(* Every operation runs under the write latch of the page and is one       *)
(* action. Here ENABLE_LOGGING is off: no tuple locks are taken. Slots are *)
(* numbered from 1.                                                        *)
(***************************************************************************)
EXTENDS Lists

CONSTANTS
    PageSize,    \* PAGE_SIZE
    HeaderSize,  \* bytes of the header (24 in the code)
    SlotSize,    \* bytes of a slot (8 in the code)
    Tuple        \* the tuples: records of a value and a size

ASSUME TablePageAssumption ==
    /\ PageSize \in Nat /\ HeaderSize \in Nat /\ SlotSize \in Nat \ {0}
    /\ HeaderSize <= PageSize
    /\ \A t \in Tuple : t.size \in 1..PageSize

VARIABLES
    page,     \* the page's data
    rows,     \* history: the bytes that each slot was last given
    crashed   \* an assertion has failed

vars == <<page, rows, crashed>>

\* The bytes of a tuple, each different from the bytes of other tuples.
Bytes(t) == [k \in 1..t.size |-> <<t.value, k>>]
NoByte == <<>>

Slot == [offset : 0..PageSize, size : -PageSize..PageSize]

Init ==
    /\ page = [slots |-> <<>>, free_space_pointer |-> PageSize,
               data |-> [b \in 0..PageSize - 1 |-> NoByte]]
    /\ rows = <<>>
    /\ crashed = FALSE

GetTupleCount == Len(page.slots)
GetTupleSize(i) == page.slots[i].size
GetTupleOffset(i) == page.slots[i].offset

GetFreeSpaceSize == page.free_space_pointer - HeaderSize - GetTupleCount * SlotSize

\* memcpy of the bytes to an offset, and memmove of n bytes.
Copy(data, to, bytes) ==
    [b \in DOMAIN data |-> IF b \in to..(to + Len(bytes) - 1) THEN bytes[b - to + 1] ELSE data[b]]

Move(data, to, from, n) ==
    [b \in DOMAIN data |-> IF b \in to..(to + n - 1) THEN data[b - to + from] ELSE data[b]]

\* The size of a tuple, marked as deleted or not.
StoredSize(i) == IF GetTupleSize(i) < 0 THEN -GetTupleSize(i) ELSE GetTupleSize(i)

BytesAt(i) == [k \in 1..StoredSize(i) |-> page.data[GetTupleOffset(i) + k - 1]]

Crash == crashed' = TRUE /\ UNCHANGED <<page, rows>>

(***************************************************************************)
(* The operations.                                                         *)
(***************************************************************************)
EmptySlots == {i \in 1..GetTupleCount : GetTupleSize(i) = 0}

\* "try to reuse a free slot first"
SlotForInsert == IF EmptySlots # {} THEN Min(EmptySlots) ELSE GetTupleCount + 1

Mut_ForgetsSlotSpace(t) == GetFreeSpaceSize >= t.size

HasSpaceFor(t) ==
    GetFreeSpaceSize >= t.size + (IF EmptySlots = {} THEN SlotSize ELSE 0)

InsertTuple(t) ==
    LET i == SlotForInsert
        at == page.free_space_pointer - t.size
        slot == [offset |-> at, size |-> t.size]
    IN  /\ HasSpaceFor(t)
        /\ page' = [slots |-> IF i > GetTupleCount THEN Append(page.slots, slot)
                              ELSE [page.slots EXCEPT ![i] = slot],
                    free_space_pointer |-> at,
                    data |-> Copy(page.data, at, Bytes(t))]
        /\ rows' = IF i > GetTupleCount THEN Append(rows, Bytes(t))
                   ELSE [rows EXCEPT ![i] = Bytes(t)]
        /\ UNCHANGED crashed

MarkDelete(i) ==
    /\ GetTupleSize(i) > 0
    /\ page' = [page EXCEPT !.slots[i].size = -@]
    /\ UNCHANGED <<rows, crashed>>

Mut_MovesLowerOnly(i, by) ==
    {j \in 1..GetTupleCount : GetTupleSize(j) > 0 /\ GetTupleOffset(j) < GetTupleOffset(i)}

\* The slots whose tuples an update of slot i moves, its own included.
MovedByUpdate(i, by) ==
    {j \in 1..GetTupleCount : /\ GetTupleSize(j) > 0
                              /\ GetTupleOffset(j) < GetTupleOffset(i) + GetTupleSize(i)}

\* The update keeps the end of the tuple in place and moves what is below it.
UpdateTuple(i, t) ==
    LET offset == GetTupleOffset(i)
        low == page.free_space_pointer
        by == GetTupleSize(i) - t.size
    IN  /\ GetTupleSize(i) > 0
        /\ GetFreeSpaceSize >= -by
        /\ IF offset < low THEN Crash
           ELSE /\ page' = [slots |-> [j \in 1..GetTupleCount |->
                                [offset |-> GetTupleOffset(j)
                                            + (IF j \in MovedByUpdate(i, by) THEN by ELSE 0),
                                 size |-> IF j = i THEN t.size ELSE GetTupleSize(j)]],
                            free_space_pointer |-> low + by,
                            data |-> Copy(Move(page.data, low + by, low, offset - low),
                                          offset + by, Bytes(t))]
                /\ rows' = [rows EXCEPT ![i] = Bytes(t)]
                /\ UNCHANGED crashed

Mut_MovesVisibleOnly(i) ==
    {j \in 1..GetTupleCount : GetTupleSize(j) > 0 /\ GetTupleOffset(j) < GetTupleOffset(i)}

\* The slots whose tuples move up into the place of the deleted one.
MovedByDelete(i) ==
    {j \in 1..GetTupleCount \ {i} : /\ GetTupleSize(j) # 0
                                    /\ GetTupleOffset(j) < GetTupleOffset(i)}

\* Called to commit a deletion and to undo an insertion.
ApplyDelete(i) ==
    LET offset == GetTupleOffset(i)
        low == page.free_space_pointer
        size == Len(BytesAt(i))
    IN  IF offset < low THEN Crash
        ELSE /\ page' = [slots |-> [j \in 1..GetTupleCount |->
                             IF j = i THEN [offset |-> 0, size |-> 0]
                             ELSE [page.slots[j] EXCEPT !.offset =
                                      @ + (IF j \in MovedByDelete(i) THEN size ELSE 0)]],
                         free_space_pointer |-> low + size,
                         data |-> Move(page.data, low + size, low, offset - low)]
             /\ rows' = [rows EXCEPT ![i] = <<>>]
             /\ UNCHANGED crashed

RollbackDelete(i) ==
    /\ GetTupleSize(i) < 0
    /\ page' = [page EXCEPT !.slots[i].size = -@]
    /\ UNCHANGED <<rows, crashed>>

Marked == {i \in 1..GetTupleCount : GetTupleSize(i) < 0}

\* Tuples are deleted for good only while they are there.
Next ==
    /\ ~crashed
    /\ \/ \E t \in Tuple : InsertTuple(t)
       \/ \E i \in 1..GetTupleCount :
              \/ MarkDelete(i)
              \/ RollbackDelete(i)
              \/ GetTupleSize(i) # 0 /\ ApplyDelete(i)
              \/ Marked = {} /\ \E t \in Tuple : UpdateTuple(i, t)

Spec == Init /\ [][Next]_vars

\* With updates of a page on which other tuples are marked as deleted.
MixedNext ==
    \/ Next
    \/ ~crashed /\ \E i \in 1..GetTupleCount, t \in Tuple : UpdateTuple(i, t)

MixedSpec == Init /\ [][MixedNext]_vars

(***************************************************************************)
(* Properties.                                                             *)
(***************************************************************************)
\* The bytes of the tuples.
Taken(i) == GetTupleOffset(i)..(GetTupleOffset(i) + StoredSize(i) - 1)

\* The slots hold offsets and sizes within the page, and the free space pointer
\* stays between the end of the slot array and the end of the page.
TypeOK ==
    /\ page.slots \in Seq(Slot)
    /\ page.free_space_pointer \in (HeaderSize + GetTupleCount * SlotSize)..PageSize
    /\ Len(rows) = GetTupleCount
    /\ crashed \in BOOLEAN

\* The tuples fill the page from the free space pointer to its end, without a
\* hole and without sharing a byte, whatever has been inserted, updated and
\* deleted in between: free space is one piece and is not lost, and ApplyDelete's
\* assertion, that no tuple lies in it, holds.
TuplesTile ==
    /\ ~crashed
    /\ UNION {Taken(i) : i \in 1..GetTupleCount} = page.free_space_pointer..(PageSize - 1)
    /\ \A i, j \in 1..GetTupleCount : i # j => Taken(i) \intersect Taken(j) = {}

\* Every slot shows the tuple that was stored there last. A tuple that is marked
\* as deleted is still there for RollbackDelete to make it "visible again".
StoredTuplesAreThere == \A i \in 1..GetTupleCount : BytesAt(i) = rows[i]
=============================================================================
