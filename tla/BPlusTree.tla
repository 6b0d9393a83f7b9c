----------------------------- MODULE BPlusTree -----------------------------
(***************************************************************************)
(* The B+ tree index (src/src/index/b_plus_tree.cpp) used by several       *)
(* threads that latch pages on their way down (latch crabbing).            *)
(*                                                                         *)
(* The tree is a record: the pages in memory, the root page id, whether    *)
(* every assert has held, and the pages a removal has given up. Structural *)
(* changes are operators on it. A thread waits for one latch at a time;    *)
(* between two latches it works alone on the pages it has latched, so the  *)
(* work on the leaf and above it is one step. Page latches are used as     *)
(* RWLatch specifies them: held[t] lists the pages whose latch thread t    *)
(* has. The buffer pool is used as PageStore specifies it; the pins that   *)
(* outlive a step are counted.                                             *)
(***************************************************************************)
EXTENDS BPlusTreePage, FiniteSets

CONSTANTS
    Key, Value, Thread,
    PageId,         \* bound: the ids of the tree's pages
    TrivialPageId,  \* trivial_page_id_: the page whose latch guards the root id
    RemoveAlone,    \* whether removals wait until no other call is under way
    OverlapKey      \* bound: the keys of calls that overlap

ASSUME BPlusTreeAssumption ==
    /\ Key \subseteq Int
    /\ PageId \subseteq Nat /\ TrivialPageId \in Nat \ PageId
    /\ RemoveAlone \in BOOLEAN

VARIABLES
    tree,    \* the pages in memory, root_page_id_, and whether every assert held
    call,    \* the call of each thread and how far it has come
    held,    \* GetPageSet: the pages each thread has latched, oldest first
    pins,    \* the pin_count_ that calls under way have left on each page
    answer   \* what the call of each thread is about to return, if anything

vars == <<tree, call, held, pins, answer>>

Idle == [pc |-> "idle"]

TrivialPage == [type |-> "trivial", parent |-> 0, next |-> 0, array |-> <<>>]

\* The constructor writes the type of the trivial page and not its page_id_,
\* which reads 0; every other page records its own id. Where an id is read from the
\* page itself, UnpinPage(0) is called for the trivial page.
RecordedId(p) == IF p = TrivialPageId THEN 0 ELSE p

Init ==
    /\ tree = [mem |-> TrivialPageId :> TrivialPage, root |-> INVALID_PAGE_ID, ok |-> TRUE]
    /\ call = [t \in Thread |-> Idle]
    /\ held = [t \in Thread |-> <<>>]
    /\ pins = [p \in PageId \union {TrivialPageId} |-> 0]
    /\ answer = [t \in Thread |-> <<>>]

(***************************************************************************)
(* Structure.                                                              *)
(***************************************************************************)
\* BufferPoolManager::NewPage hands out an id that is not in use.
FreshId(mem) ==
    LET free == PageId \ DOMAIN mem IN CHOOSE p \in free : \A q \in free : p <= q

WithPage(mem, p, page) == [q \in DOMAIN mem \union {p} |->
                              IF q = p THEN page ELSE mem[q]]

\* Split: a new page of the same kind takes the upper half of page p.
Split(s, p, q) ==
    LET new == InitPage(s.mem[p].type, s.mem[p].parent) IN
    [s EXCEPT !.mem = MoveHalfTo(WithPage(@, q, new), p, q)]

RECURSIVE InsertIntoParent(_, _, _, _)
InsertIntoParent(s, old, key, new) ==
    LET up == s.mem[old].parent
        q == FreshId(s.mem)
        halves == Split(s, up, q)
        pop_key == KeyOf(halves.mem[q].array[1])
        target == IF key < pop_key THEN up ELSE q
    IN IF IsRootPage(s.mem[old])
       THEN LET page == PopulateNewRoot(InitPage("internal", INVALID_PAGE_ID), old, key, new)
            IN [s EXCEPT !.mem = Adopt(WithPage(@, q, page), q, page.array), !.root = q]
       ELSE IF GetSize(s.mem[up]) + 1 > GetMaxSize(s.mem[up])
       THEN InsertIntoParent(
                [halves EXCEPT !.mem[target] = InsertNodeAfter(@, old, key, new),
                               !.mem[new].parent = target,
                               !.ok = @ /\ TakesNodeAfter(halves.mem[target], old)],
                up, pop_key, q)
       ELSE [s EXCEPT !.mem[up] = InsertNodeAfter(@, old, key, new),
                      !.ok = @ /\ TakesNodeAfter(s.mem[up], old)]

Mut_NeverSplits(s, p, key, value) ==
    [s EXCEPT !.mem[p] = LeafInsert(@, key, value)]

\* InsertIntoLeaf, once the leaf p has been found and the key is not in it.
InsertIntoLeaf(s, p, key, value) ==
    LET q == FreshId(s.mem)
        halves == Split(s, p, q)
        pop_key == KeyOf(halves.mem[q].array[1])
        target == IF key < pop_key THEN p ELSE q
    IN IF GetSize(s.mem[p]) + 1 > GetMaxSize(s.mem[p])
       THEN InsertIntoParent([halves EXCEPT !.mem[target] = LeafInsert(@, key, value),
                                            !.ok = @ /\ HasRoom(halves.mem[target])],
                             p, pop_key, q)
       ELSE [s EXCEPT !.mem[p] = LeafInsert(@, key, value), !.ok = @ /\ HasRoom(s.mem[p])]

\* AdjustRoot: an empty leaf leaves no tree, an only child becomes the root.
AdjustRoot(s, r) ==
    LET page == s.mem[r] IN
    IF GetSize(page) >= (IF IsLeafPage(page) THEN 1 ELSE 2) THEN s
    ELSE IF IsLeafPage(page)
    THEN [s EXCEPT !.root = INVALID_PAGE_ID]
    ELSE LET child == ValueOf(page.array[1])
         IN [s EXCEPT !.root = child, !.mem[child].parent = INVALID_PAGE_ID]

Crashed(s) == [s EXCEPT !.ok = FALSE]

\* A move, when the asserts in it hold.
Move(s, Op(_, _, _), p, q, left, right) ==
    IF Movable(s.mem, p, q, left, right) THEN [s EXCEPT !.mem = Op(@, p, q)]
    ELSE Crashed(s)

RECURSIVE CoalesceOrRedistribute(_, _)
CoalesceOrRedistribute(s, p) ==
    LET page == s.mem[p]
        up == page.parent
        i == ValueIndex(s.mem[up], p)
        left == ValueOf(s.mem[up].array[i - 1])
        right == ValueOf(s.mem[up].array[i + 1])
        hasLeft == i - 1 >= 1
        hasRight == i + 1 <= GetSize(s.mem[up])
        Lends(q) == GetSize(s.mem[q]) + GetSize(page) >= GetMaxSize(page)
        Coalesce(neighbor, node) ==
            LET merged == Move(s, MoveAllTo, node, neighbor, neighbor, node) IN
               IF ~merged.ok THEN merged
               ELSE IF IsRootPage(merged.mem[up]) THEN AdjustRoot(merged, up)
               ELSE CoalesceOrRedistribute(merged, up)
    IN IF GetSize(page) >= GetMinSize(page) THEN s
       ELSE IF up \notin DOMAIN s.mem THEN Crashed(s)
       ELSE IF hasLeft /\ Lends(left) THEN Move(s, MoveLastToFrontOf, left, p, left, p)
       ELSE IF hasRight /\ Lends(right) THEN Move(s, MoveFirstToEndOf, right, p, p, right)
       ELSE IF hasLeft THEN Coalesce(left, p)
       ELSE IF hasRight THEN Coalesce(p, right)
       ELSE Crashed(s)

\* Remove, once the leaf p has been found.
RemoveFromLeaf(s, p, key) ==
    LET removed == [s EXCEPT !.mem[p] = RemoveAndDeleteRecord(@, key)] IN
    IF ~FullEnough(s.mem[p]) THEN Crashed(s)
    ELSE IF IsRootPage(s.mem[p]) THEN AdjustRoot(removed, p)
    ELSE CoalesceOrRedistribute(removed, p)

(***************************************************************************)
(* Reading the tree: what a caller can find in it.                         *)
(***************************************************************************)
RECURSIVE PagesUnder(_, _)
PagesUnder(mem, p) ==
    {p} \union (IF IsLeafPage(mem[p]) THEN {}
                ELSE UNION {PagesUnder(mem, ValueOf(e)) : e \in ToSet(mem[p].array)})

TreePages(s) == IF s.root = INVALID_PAGE_ID THEN {} ELSE PagesUnder(s.mem, s.root)

Leaves == {p \in TreePages(tree) : IsLeafPage(tree.mem[p])}

Entries == UNION {ToSet(tree.mem[p].array) : p \in Leaves}

\* The leaf that FindLeafPage comes to when nobody else is at work.
RECURSIVE LeafFor(_, _)
LeafFor(p, key) ==
    IF IsLeafPage(tree.mem[p]) THEN p ELSE LeafFor(Lookup(tree.mem[p], key), key)

RECURSIVE LeftMost(_)
LeftMost(p) ==
    IF IsLeafPage(tree.mem[p]) THEN p ELSE LeftMost(ValueOf(tree.mem[p].array[1]))

\* An IndexIterator at entry i of leaf p, advanced until isEnd.
RECURSIVE ScanFrom(_, _)
ScanFrom(p, i) ==
    LET page == tree.mem[p] IN
    IF i <= GetSize(page) THEN <<page.array[i]>> \o ScanFrom(p, i + 1)
    ELSE IF page.next = INVALID_PAGE_ID THEN <<>>
    ELSE ScanFrom(page.next, 1)

(***************************************************************************)
(* Calls.                                                                  *)
(***************************************************************************)
IsReader(t) == call[t].op = "GetValue"

\* The latch of page p, which the page's RWMutex grants (see RWLatch).
LatchFree(t, p) ==
    \A u \in Thread :
        p \in ToSet(held[u]) => u # t /\ IsReader(t) /\ IsReader(u)

Pinned(ps, p) == [ps EXCEPT ![p] = @ + 1]

\* UnpinPage, once for each id of a sequence; a page without pins is left alone,
\* and one that is not the tree's is not followed up.
Unpinned(ps, ids) ==
    [p \in DOMAIN ps |->
        LET n == Cardinality({i \in DOMAIN ids : ids[i] = p}) IN
        IF ps[p] >= n THEN ps[p] - n ELSE 0]

Mut_LeavesLeafPinned(t) ==
    [i \in 1..Len(held[t]) - 1 |-> RecordedId(held[t][i])]

\* GetPageId of the pages that a thread has latched.
RecordedIds(t) == [i \in DOMAIN held[t] |-> RecordedId(held[t][i])]

\* A page that has left the tree has no further effect once nobody is on it:
\* its id is never given out again, so the model may give it out.
InUse(s, h, c) ==
    {TrivialPageId}
      \union TreePages(s)
      \union UNION {ToSet(h[t]) : t \in Thread}
      \union {c[t].want : t \in {u \in Thread : c[u].pc = "latch"}}

Collected(s, h, c) ==
    IF ~s.ok THEN s
    ELSE [s EXCEPT !.mem = [p \in InUse(s, h, c) |-> s.mem[p]]]

\* The callers' side. A search is made when the tree has a root (FetchPage
\* asserts it), which its caller knows from an insertion that has returned.
MayCall(t, op, key) ==
    /\ tree.ok /\ call[t] = Idle
    /\ op = "GetValue" => tree.root # INVALID_PAGE_ID
    /\ \A u \in Thread : call[u] # Idle =>
          /\ {key, KeyOf(call[u].args)} \subseteq OverlapKey
          /\ RemoveAlone => "Remove" \notin {op, call[u].op}

Done(op, args) == [pc |-> "done", op |-> op, args |-> args]

\* FindLeafPage fetches the trivial page first.
FindLeafPage(t, op, args) ==
    /\ call' = [call EXCEPT ![t] = [pc |-> "latch", op |-> op, args |-> args,
                                    want |-> TrivialPageId]]
    /\ pins' = Pinned(pins, TrivialPageId)
    /\ UNCHANGED <<tree, held, answer>>

\* The tree has no root: Insert makes a leaf its root, under root_id_latch_. The
\* root id is set before the page is initialised, which no other insertion can see
\* for the latch; a search begun in between would, and is against MayCall's rule.
StartNewTree(t, key, value) ==
    LET p == FreshId(tree.mem)
        page == LeafInsert(InitPage("leaf", INVALID_PAGE_ID), key, value)
    IN /\ tree' = [tree EXCEPT !.mem = WithPage(@, p, page), !.root = p]
       /\ answer' = [answer EXCEPT ![t] = <<"Insert", key, TRUE>>]
       /\ call' = [call EXCEPT ![t] = Done("Insert", <<key, value>>)]
       /\ UNCHANGED <<held, pins>>

CallInsert(t, key, value) ==
    /\ MayCall(t, "Insert", key)
    /\ IF tree.root = INVALID_PAGE_ID THEN StartNewTree(t, key, value)
       ELSE FindLeafPage(t, "Insert", <<key, value>>)

IsEmpty == tree.root = INVALID_PAGE_ID \/ GetSize(tree.mem[tree.root]) = 0

CallRemove(t, key) ==
    /\ MayCall(t, "Remove", key)
    /\ IF ~IsEmpty THEN FindLeafPage(t, "Remove", <<key>>)
       ELSE /\ answer' = [answer EXCEPT ![t] = <<"Remove", key>>]
            /\ call' = [call EXCEPT ![t] = Done("Remove", <<key>>)]
            /\ UNCHANGED <<tree, held, pins>>

CallGetValue(t, key) ==
    MayCall(t, "GetValue", key) /\ FindLeafPage(t, "GetValue", <<key>>)

Mut_FullIsSafe(op, page, atRoot) ==
    \/ op # "Remove"
    \/ GetSize(page) > (IF atRoot THEN 1 ELSE GetMinSize(page))

\* A page is safe when the call cannot change the pages above it. The root is
\* the page that follows the trivial page.
Safe(op, page, atRoot) ==
    \/ op = "GetValue"
    \/ op = "Insert" /\ GetSize(page) < GetMaxSize(page)
    \/ op = "Remove" /\ GetSize(page) > (IF atRoot THEN 1 ELSE GetMinSize(page))

\* The page below page p on the way to a key. In an emptied internal page,
\* which only calls beside a removal can meet, the slot before the first is
\* the page's own id.
Below(p, key) ==
    IF p = TrivialPageId THEN tree.root
    ELSE IF tree.mem[p].array = <<>> THEN p
    ELSE Lookup(tree.mem[p], key)

\* One round of FindLeafPage's loop: the latch of the wanted page, the release
\* of the pages above a safe one, and the fetch of the next page.
Latch(t) ==
    LET p == call[t].want
        page == tree.mem[p]
        above == held[t]
        atRoot == above # <<>> /\ Last(above) = TrivialPageId
        safe == p # TrivialPageId /\ Safe(call[t].op, page, atRoot)
        ids == IF ~safe THEN <<>>
               ELSE IF atRoot THEN <<TrivialPageId>> ELSE RecordedIds(t)
        next == Below(p, KeyOf(call[t].args))
    IN /\ tree.ok /\ call[t].pc = "latch" /\ LatchFree(t, p)
       /\ held' = [held EXCEPT ![t] = IF safe THEN <<p>> ELSE Append(above, p)]
       /\ IF IsLeafPage(page)
          THEN /\ call' = [call EXCEPT ![t].pc = "leaf"]
               /\ pins' = Unpinned(pins, ids)
               /\ UNCHANGED tree
          ELSE IF next = INVALID_PAGE_ID
          THEN tree' = Crashed(tree) /\ UNCHANGED <<call, pins>>
          ELSE /\ call' = [call EXCEPT ![t].want = next]
               /\ pins' = Pinned(Unpinned(pins, ids), next)
               /\ UNCHANGED tree
       /\ UNCHANGED answer

Mut_RefusalKeepsLatches(t, s, result) ==
    /\ call' = [call EXCEPT ![t] = Done(call[t].op, call[t].args)]
    /\ held' = IF result[1] = "Insert" /\ s = tree THEN held ELSE [held EXCEPT ![t] = <<>>]
    /\ pins' = Unpinned(pins, RecordedIds(t))
    /\ tree' = Collected(s, held', call')
    /\ answer' = [answer EXCEPT ![t] = result]

\* The work on the leaf and above it, ReleasePageSet, and the result.
Finish(t, s, result) ==
    /\ call' = [call EXCEPT ![t] = Done(call[t].op, call[t].args)]
    /\ held' = [held EXCEPT ![t] = <<>>]
    /\ pins' = Unpinned(pins, RecordedIds(t))
    /\ tree' = Collected(s, held', call')
    /\ answer' = [answer EXCEPT ![t] = result]

AtLeaf(t, op) == tree.ok /\ call[t].pc = "leaf" /\ call[t].op = op

FinishInsert(t) ==
    LET p == Last(held[t])
        key == KeyOf(call[t].args)
        new == LeafPosition(tree.mem[p], key) = 0
    IN /\ AtLeaf(t, "Insert")
       /\ Finish(t, IF new THEN InsertIntoLeaf(tree, p, key, ValueOf(call[t].args)) ELSE tree,
                 <<"Insert", key, new>>)

FinishRemove(t) ==
    /\ AtLeaf(t, "Remove")
    /\ Finish(t, RemoveFromLeaf(tree, Last(held[t]), KeyOf(call[t].args)),
              <<"Remove", KeyOf(call[t].args)>>)

FinishGetValue(t) ==
    LET page == tree.mem[Last(held[t])]
        i == LeafPosition(page, KeyOf(call[t].args))
    IN /\ AtLeaf(t, "GetValue")
       /\ Finish(t, tree, <<"GetValue", KeyOf(call[t].args),
                            IF i = 0 THEN <<>> ELSE <<ValueOf(page.array[i])>> >>)

Return(t) ==
    /\ call[t].pc = "done"
    /\ call' = [call EXCEPT ![t] = Idle]
    /\ answer' = [answer EXCEPT ![t] = <<>>]
    /\ UNCHANGED <<tree, held, pins>>

Next ==
    \E t \in Thread :
        \/ \E key \in Key :
              \/ \E value \in Value : CallInsert(t, key, value)
              \/ CallRemove(t, key)
              \/ CallGetValue(t, key)
        \/ Latch(t)
        \/ FinishInsert(t)
        \/ FinishRemove(t)
        \/ FinishGetValue(t)
        \/ Return(t)

Spec == Init /\ [][Next]_vars

\* Threads run, and a thread that a latch is offered to time and again gets it.
FairSpec ==
    /\ Spec
    /\ \A t \in Thread :
          /\ WF_vars(FinishInsert(t) \/ FinishRemove(t) \/ FinishGetValue(t) \/ Return(t))
          /\ SF_vars(Latch(t))

(***************************************************************************)
(* Properties.                                                             *)
(***************************************************************************)
\* Every variable has its type, and only threads on their way hold latches.
TypeOK ==
    /\ tree.root \in PageId \union {INVALID_PAGE_ID}
    /\ DOMAIN tree.mem \subseteq PageId \union {TrivialPageId}
    /\ \A p \in DOMAIN tree.mem :
          /\ tree.mem[p].type \in {"leaf", "internal", "trivial"}
          /\ GetSize(tree.mem[p]) <= GetMaxSize(tree.mem[p])
    /\ \A t \in Thread :
          /\ call[t].pc \in {"idle", "latch", "leaf", "done"}
          /\ ToSet(held[t]) \subseteq DOMAIN tree.mem
          /\ call[t].pc \in {"idle", "done"} => held[t] = <<>>
    /\ pins \in [PageId \union {TrivialPageId} -> Nat]

\* The keys below page p lie in [low, high), in order, and every page but the
\* root is at least half full and names its parent: the claim of
\* BPlusTree::CheckIntegrity and of the pages' CheckIntegrity ("for each K in
\* value[x], key[x] <= K < key[x+1]"). depth counts the levels down to the leaves.
RECURSIVE WholeBelow(_, _, _, _)
WholeBelow(p, low, high, depth) ==
    LET page == tree.mem[p]
        n == GetSize(page)
        first == IF IsLeafPage(page) THEN 1 ELSE 2
        Key_(i) == KeyOf(page.array[i])
    IN /\ \A i \in first..n : low <= Key_(i) /\ Key_(i) < high
       /\ \A i \in first..n - 1 : Key_(i) < Key_(i + 1)
       /\ ~IsRootPage(page) => n >= GetMinSize(page)
       /\ IsLeafPage(page) <=> depth = 0
       /\ ~IsLeafPage(page) =>
             \A i \in 1..n :
                 /\ tree.mem[ValueOf(page.array[i])].parent = p
                 /\ WholeBelow(ValueOf(page.array[i]),
                               IF i = 1 THEN low ELSE Key_(i),
                               IF i = n THEN high ELSE Key_(i + 1), depth - 1)

\* All leaves are at one depth, so the depth of the leftmost one is the tree's.
RECURSIVE Depth(_)
Depth(p) ==
    IF IsLeafPage(tree.mem[p]) THEN 0 ELSE 1 + Depth(ValueOf(tree.mem[p].array[1]))

\* After every step of every thread the tree is a balanced search tree whose
\* pages are filled as CheckIntegrity demands.
Integrity ==
    tree.root # INVALID_PAGE_ID =>
        /\ IsRootPage(tree.mem[tree.root])
        /\ WholeBelow(tree.root, Min(Key), Max(Key) + 1, Depth(tree.root))

\* No assert on the way fails: a page that gets an entry has room for it, a leaf
\* that loses one was half full, a page's id is in its parent, siblings that
\* exchange entries have one parent, and no search starts from an invalid root.
AssertsHold == tree.ok

Users(p) == {t \in Thread : \/ p \in ToSet(held[t])
                            \/ call[t].pc = "latch" /\ call[t].want = p}

\* A page of the tree has one pin for each thread that has latched it or waits for
\* its latch, and no other: no page is evicted under a thread, and a finished call
\* leaves nothing pinned (the tests' EXPECT_EQ on PinnedNum). The same holds of the
\* trivial page when it is page 0, as in those tests. Any other trivial page has at
\* least these pins; it keeps those for which the code has unpinned page 0.
PinnedWhileUsed ==
    \A p \in DOMAIN pins :
        IF p = RecordedId(p) THEN pins[p] = Cardinality(Users(p))
        ELSE pins[p] >= Cardinality(Users(p))

\* An iterator from Begin() yields every entry once, in key order, and one from
\* Begin(key), for a key that is in the tree, those from the key on: the chain of
\* leaves is the tree's order. (Begin throws when the leaf has no key as large.)
ScansInOrder ==
    LET InOrder == SetToSortSeq(Entries, LAMBDA d, e : KeyOf(d) < KeyOf(e)) IN
    tree.root # INVALID_PAGE_ID =>
        /\ ScanFrom(LeftMost(tree.root), 1) = InOrder
        /\ \A n \in DOMAIN InOrder :
              LET key == KeyOf(InOrder[n])
                  p == LeafFor(tree.root, key)
              IN ScanFrom(p, KeyIndex(tree.mem[p], key)) = SubSeq(InOrder, n, Len(InOrder))

\* Latches are taken from the trivial page down, so while calls are under way
\* one of them has the latch it wants or can have it.
SomeoneProceeds ==
    (\E t \in Thread : call[t].pc = "latch") =>
        \E t \in Thread : \/ call[t].pc \in {"leaf", "done"}
                          \/ call[t].pc = "latch" /\ LatchFree(t, call[t].want)

Contents ==
    LET all == Entries IN
    [k \in {KeyOf(e) : e \in all} |-> ValueOf(CHOOSE e \in all : KeyOf(e) = k)]

Index == INSTANCE UniqueIndex WITH map <- Contents, answer <- answer

\* The calls of all threads together behave as an index in which each call
\* takes effect at one moment: nothing is lost, found twice or overwritten by
\* a search or an insertion that runs beside a split.
IndexPromise == Index!IndexSpec
=============================================================================
