---------------------------- MODULE BPlusTreePage ----------------------------
(***************************************************************************)
(* The pages of the B+ tree index (src/src/page/b_plus_tree_page.cpp,      *)
(* b_plus_tree_leaf_page.cpp and b_plus_tree_internal_page.cpp) as values. *)
(* An array of a page is a sequence of pairs <<key, value>>; the values of *)
(* an internal page are the ids of its children, and its first key is the  *)
(* one that no search reads. Operations that write several pages take and  *)
(* give the whole memory, a function from page ids to pages.               *)
(***************************************************************************)
EXTENDS Integers, Sequences, SequencesExt

CONSTANTS
    LeafMax,     \* the max_size_ of a leaf page
    InternalMax  \* the max_size_ of an internal page

ASSUME BPlusTreePageAssumption ==
    /\ LeafMax \in Nat /\ LeafMax >= 2
    /\ InternalMax \in Nat /\ InternalMax >= 4

INVALID_PAGE_ID == -1

KeyOf(entry) == entry[1]
ValueOf(entry) == entry[2]

InitPage(type, parent) ==
    [type |-> type, parent |-> parent, next |-> INVALID_PAGE_ID, array |-> <<>>]

GetSize(page) == Len(page.array)
GetMaxSize(page) == IF page.type = "leaf" THEN LeafMax ELSE InternalMax
GetMinSize(page) == GetMaxSize(page) \div 2
IsLeafPage(page) == page.type = "leaf"
IsRootPage(page) == page.parent = INVALID_PAGE_ID

\* What the insertions, InsertNodeAfter and the removal from a leaf assert first.
HasRoom(page) == GetSize(page) < GetMaxSize(page)
FullEnough(page) == IsRootPage(page) \/ GetSize(page) >= GetMinSize(page)

(***************************************************************************)
(* Leaf pages.                                                             *)
(***************************************************************************)
KeyIndex(page, key) == SelectInSeq(page.array, LAMBDA e : KeyOf(e) >= key)

LeafPosition(page, key) == SelectInSeq(page.array, LAMBDA e : KeyOf(e) = key)

\* Insert: in key order, and only a key that is not there yet.
LeafInsert(page, key, value) ==
    LET i == KeyIndex(page, key) IN
    IF i = 0 THEN [page EXCEPT !.array = Append(@, <<key, value>>)]
    ELSE IF KeyOf(page.array[i]) = key THEN page
    ELSE [page EXCEPT !.array = InsertAt(@, i, <<key, value>>)]

RemoveAndDeleteRecord(page, key) ==
    LET i == LeafPosition(page, key) IN
    IF i = 0 THEN page ELSE [page EXCEPT !.array = RemoveAt(@, i)]

(***************************************************************************)
(* Internal pages.                                                         *)
(***************************************************************************)
ValueIndex(page, child) == SelectInSeq(page.array, LAMBDA e : ValueOf(e) = child)

\* Lookup: the child left of the first key, from the second on, above the key.
Lookup(page, key) ==
    LET above == SelectInSeq(Tail(page.array), LAMBDA e : key < KeyOf(e)) IN
    ValueOf(IF above = 0 THEN Last(page.array) ELSE page.array[above])

TakesNodeAfter(page, old) == HasRoom(page) /\ ValueIndex(page, old) # 0

PopulateNewRoot(page, old, key, new) ==
    [page EXCEPT !.array = << <<key, old>>, <<key, new>> >>]

InsertNodeAfter(page, old, key, new) ==
    [page EXCEPT !.array = InsertAt(@, ValueIndex(page, old) + 1, <<key, new>>)]

SetKeyAt(page, i, key) == [page EXCEPT !.array[i][1] = key]

RemoveEntry(page, i) == [page EXCEPT !.array = RemoveAt(@, i)]

(***************************************************************************)
(* Moves between pages.                                                    *)
(***************************************************************************)
Mut_AdoptsLastOnly(mem, p, entries) ==
    [mem EXCEPT ![ValueOf(Last(entries))].parent = p]

\* The children named by a sequence of entries get p as their parent.
Adopt(mem, p, entries) ==
    LET children == {ValueOf(entries[i]) : i \in DOMAIN entries} IN
    [c \in DOMAIN mem |->
        IF c \in children THEN [mem[c] EXCEPT !.parent = p] ELSE mem[c]]

Mut_NewLeafEndsChain(mem, p, q) ==
    LET half == GetSize(mem[p]) \div 2
        moved == SubSeq(mem[p].array, half + 1, GetSize(mem[p]))
        halves == [mem EXCEPT ![p].array = SubSeq(@, 1, half), ![q].array = moved]
    IN IF IsLeafPage(mem[p]) THEN [halves EXCEPT ![p].next = q]
       ELSE Adopt(halves, q, moved)

\* The upper half of page p goes to the new page q.
MoveHalfTo(mem, p, q) ==
    LET half == GetSize(mem[p]) \div 2
        moved == SubSeq(mem[p].array, half + 1, GetSize(mem[p]))
        halves == [mem EXCEPT ![p].array = SubSeq(@, 1, half), ![q].array = moved]
    IN IF IsLeafPage(mem[p])
       THEN [halves EXCEPT ![q].next = mem[p].next, ![p].next = q]
       ELSE Adopt(halves, q, moved)

\* What the asserts of the moves ask of page p and the page q that receives:
\* children of one parent and, for internal pages, neighbours that are not empty.
\* A leaf that its parent does not name is outside what the code defines.
Movable(mem, p, q, left, right) ==
    LET up == mem[p].parent IN
    /\ up \in DOMAIN mem /\ mem[q].parent = up
    /\ ValueIndex(mem[up], right) > 1
    /\ ~IsLeafPage(mem[p]) =>
          /\ GetSize(mem[p]) > 0 /\ GetSize(mem[q]) > 0
          /\ ValueIndex(mem[up], left) = ValueIndex(mem[up], right) - 1

\* All of page p goes to the end of its left neighbour q, and p leaves the parent.
MoveAllTo(mem, p, q) ==
    LET up == mem[p].parent
        i == ValueIndex(mem[up], p)
        moved == IF IsLeafPage(mem[p]) THEN mem[p].array
                 ELSE SetKeyAt(mem[p], 1, KeyOf(mem[up].array[i])).array
        merged == [mem EXCEPT ![q].array = @ \o moved, ![p].array = <<>>,
                              ![up] = RemoveEntry(@, i)]
    IN IF IsLeafPage(mem[p])
       THEN [merged EXCEPT ![q].next = mem[p].next, ![p].next = INVALID_PAGE_ID]
       ELSE Adopt(merged, q, moved)

Mut_KeepsSeparator(mem, p, q) ==
    LET up == mem[p].parent
        i == ValueIndex(mem[up], p)
        first == Head(mem[p].array)
        moved == IF IsLeafPage(mem[p]) THEN first
                 ELSE <<KeyOf(mem[up].array[i]), ValueOf(first)>>
        shifted == [mem EXCEPT ![q].array = Append(@, moved), ![p].array = Tail(@)]
    IN IF IsLeafPage(mem[p]) THEN shifted ELSE Adopt(shifted, q, <<moved>>)

\* The first entry of page p goes to the end of its left neighbour q.
MoveFirstToEndOf(mem, p, q) ==
    LET up == mem[p].parent
        i == ValueIndex(mem[up], p)
        first == Head(mem[p].array)
        moved == IF IsLeafPage(mem[p]) THEN first
                 ELSE <<KeyOf(mem[up].array[i]), ValueOf(first)>>
        shifted == [mem EXCEPT ![q].array = Append(@, moved), ![p].array = Tail(@),
                               ![up] = SetKeyAt(@, i, KeyOf(mem[p].array[2]))]
    IN IF IsLeafPage(mem[p]) THEN shifted ELSE Adopt(shifted, q, <<moved>>)

\* The last entry of page p goes to the front of its right neighbour q. In an
\* internal page the separator comes down as the second key of q; the first
\* key of q, which nobody reads, stays what it was.
MoveLastToFrontOf(mem, p, q) ==
    LET up == mem[p].parent
        i == ValueIndex(mem[up], q)
        last == Last(mem[p].array)
        old == mem[q].array
        new == IF IsLeafPage(mem[p]) THEN <<last>> \o old
               ELSE << <<KeyOf(old[1]), ValueOf(last)>>,
                       <<KeyOf(mem[up].array[i]), ValueOf(old[1])>> >> \o Tail(old)
        shifted == [mem EXCEPT ![q].array = new, ![p].array = Front(@),
                               ![up] = SetKeyAt(@, i, KeyOf(last))]
    IN IF IsLeafPage(mem[p]) THEN shifted ELSE Adopt(shifted, q, <<last>>)
=============================================================================
