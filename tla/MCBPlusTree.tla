---------------------------- MODULE MCBPlusTree ----------------------------
(***************************************************************************)
(* Two threads on a tree whose leaves have two entries and whose inner     *)
(* pages four: six keys make a tree of three levels, with splits, loans    *)
(* and merges of inner pages.                                              *)
(***************************************************************************)
EXTENDS BPlusTree

CONSTANTS t1, t2, MaxKey

MCThread == {t1, t2}
MCKey == 1..MaxKey
MCPageId == 2..14
MCSymmetry == Permutations(MCThread)

\* Page ids carry no meaning beyond their identity: states that differ only in
\* the ids of the tree's pages are one. The pages are numbered from the root on. Of
\* the pins that the trivial page keeps, only whether there are any is told apart:
\* no step depends on how many.
RECURSIVE MCFromRoot(_)
MCFromRoot(p) ==
    <<p>> \o (IF IsLeafPage(tree.mem[p]) THEN <<>>
              ELSE FlattenSeq([i \in DOMAIN tree.mem[p].array |->
                                  MCFromRoot(ValueOf(tree.mem[p].array[i]))]))

Sign(n) == IF n > 0 THEN 1 ELSE IF n < 0 THEN -1 ELSE 0

MCView ==
    LET pages == IF tree.root = INVALID_PAGE_ID THEN <<>> ELSE MCFromRoot(tree.root)
        rank == [p \in ToSet(pages) |-> CHOOSE i \in DOMAIN pages : pages[i] = p]
        Number(p) == IF p \in DOMAIN rank THEN rank[p] ELSE -(p + 2)
        Entry(page, i) == IF IsLeafPage(page) THEN page.array[i]
                          ELSE <<IF i = 1 THEN 0 ELSE KeyOf(page.array[i]),
                                 Number(ValueOf(page.array[i]))>>
        Pins(p) == IF p = TrivialPageId THEN Sign(pins[p] - Cardinality(Users(p)))
                   ELSE pins[p]
        Page(p) == LET page == tree.mem[p] IN
                   <<page.type, Number(page.parent), Number(page.next), Pins(p),
                     [i \in DOMAIN page.array |-> Entry(page, i)]>>
    IN <<[i \in DOMAIN pages |-> Page(pages[i])],
         {<<p, Page(p)>> : p \in DOMAIN tree.mem \ DOMAIN rank}, tree.ok, answer,
         [t \in Thread |-> [i \in DOMAIN held[t] |-> Number(held[t][i])]],
         [t \in Thread |-> IF call[t].pc = "latch" THEN [call[t] EXCEPT !.want = Number(@)]
                           ELSE call[t]]>>
=============================================================================
