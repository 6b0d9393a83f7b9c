-------------------------- MODULE BufferPoolProofs --------------------------
(***************************************************************************)
(* Proofs about the buffer pool, for any number of frames, pages, clients  *)
(* and contents: it keeps its invariants and implements a store of pages.  *)
(***************************************************************************)
EXTENDS BufferPool, SequenceLemmas, FiniteSetTheorems

(***************************************************************************)
(* Lists of frames.                                                        *)
(***************************************************************************)
\* A list in which every value is at most once.
OnceList(list) == list \in Seq(Frame) /\ IsInjective(list)

\* The free list when its first frame is taken.
LEMMA TakeFirst ==
    ASSUME NEW list, OnceList(list), list # <<>>
    PROVE  /\ Head(list) \in Range(list) /\ Head(list) \in Frame
           /\ OnceList(Tail(list))
           /\ Range(Tail(list)) = Range(list) \ {Head(list)}
<1>1. /\ list \in Seq(Frame) /\ Len(list) \in Nat \ {0} /\ DOMAIN list = 1..Len(list)
      /\ \A i, j \in 1..Len(list) : list[i] = list[j] => i = j
  BY DEF OnceList, IsInjective
<1>2. Head(list) = list[1] /\ Head(list) \in Frame
  BY <1>1
<1>3. /\ Tail(list) \in Seq(Frame) /\ DOMAIN Tail(list) = 1..(Len(list) - 1)
      /\ \A i \in 1..(Len(list) - 1) : Tail(list)[i] = list[i + 1]
  BY <1>1
<1>4. Range(Tail(list)) \subseteq Range(list) \ {Head(list)}
  BY <1>1, <1>2, <1>3 DEF Range
<1>5. ASSUME NEW i \in 1..Len(list), i # 1
      PROVE  list[i] \in Range(Tail(list))
  <2>1. i - 1 \in 1..(Len(list) - 1) /\ list[i] = Tail(list)[i - 1]
    BY <1>1, <1>3, <1>5
  <2> QED
    BY <2>1, <1>3, Zenon DEF Range
<1>6. Range(list) \ {Head(list)} \subseteq Range(Tail(list))
  BY <1>1, <1>2, <1>5 DEF Range
<1>7. IsInjective(Tail(list))
  BY <1>1, <1>3 DEF IsInjective
<1> QED
  BY <1>1, <1>2, <1>3, <1>4, <1>6, <1>7 DEF Range, OnceList

\* A list without the value at one position.
LEMMA TakeOne ==
    ASSUME NEW list, OnceList(list), NEW n \in 1..Len(list)
    PROVE  /\ OnceList(RemoveAt(list, n))
           /\ Range(RemoveAt(list, n)) = Range(list) \ {list[n]}
<1> DEFINE rest == RemoveAt(list, n)
<1>1. /\ list \in Seq(Frame) /\ Len(list) \in Nat /\ DOMAIN list = 1..Len(list)
      /\ \A i, j \in 1..Len(list) : list[i] = list[j] => i = j
  BY DEF OnceList, IsInjective
<1>2. /\ rest \in Seq(Frame) /\ Len(rest) = Len(list) - 1
      /\ \A k \in 1..(Len(list) - 1) : k < n => rest[k] = list[k]
      /\ \A k \in 1..(Len(list) - 1) : k >= n => rest[k] = list[k + 1]
  BY <1>1, RemoveAtProperties, Zenon
<1>3. DOMAIN rest = 1..(Len(list) - 1)
  BY <1>2
<1> HIDE DEF rest
<1>4. ASSUME NEW k \in 1..(Len(list) - 1)
      PROVE  \E i \in 1..Len(list) : /\ rest[k] = list[i] /\ i # n
                                     /\ i = IF k < n THEN k ELSE k + 1
  BY <1>1, <1>2
<1>5. ASSUME NEW i \in 1..Len(list), i # n
      PROVE  \E k \in 1..(Len(list) - 1) : rest[k] = list[i]
  <2>1. CASE i < n
    BY <1>1, <1>2, <2>1
  <2>2. CASE i > n
    <3>1. i - 1 \in 1..(Len(list) - 1) /\ i - 1 >= n /\ (i - 1) + 1 = i
      BY <1>1, <2>2
    <3> QED
      BY <1>2, <3>1
  <2> QED
    BY <1>1, <1>5, <2>1, <2>2
<1>6. Range(rest) = Range(list) \ {list[n]}
  <2>1. Range(rest) \subseteq Range(list) \ {list[n]}
    BY <1>1, <1>3, <1>4 DEF Range
  <2>2. ASSUME NEW f \in Range(list), f # list[n]
        PROVE  f \in Range(rest)
    <3>1. PICK i \in 1..Len(list) : f = list[i]
      BY <1>1 DEF Range
    <3>2. PICK k \in 1..(Len(list) - 1) : rest[k] = f
      BY <1>5, <2>2, <3>1
    <3> QED
      BY <1>3, <3>2 DEF Range
  <2> QED
    BY <2>1, <2>2
<1>7. IsInjective(rest)
  <2> SUFFICES ASSUME NEW k \in 1..(Len(list) - 1), NEW m \in 1..(Len(list) - 1), rest[k] = rest[m]
               PROVE  k = m
    BY <1>3 DEF IsInjective
  <2>1. PICK i \in 1..Len(list) : rest[k] = list[i] /\ i = IF k < n THEN k ELSE k + 1
    BY <1>4
  <2>2. PICK j \in 1..Len(list) : rest[m] = list[j] /\ j = IF m < n THEN m ELSE m + 1
    BY <1>4
  <2>3. i = j
    BY <1>1, <2>1, <2>2, Zenon
  <2> QED
    BY <1>1, <2>1, <2>2, <2>3
<1> QED
  BY <1>2, <1>6, <1>7 DEF OnceList, rest

\* The replacer without a frame, wherever it was, and without its victim.
LEMMA EraseProperties ==
    ASSUME NEW list, OnceList(list), NEW f \in Frame
    PROVE  OnceList(Erase(list, f)) /\ Range(Erase(list, f)) = Range(list) \ {f}
<1>1. CASE f \in Range(list)
  <2> DEFINE n == CHOOSE i \in DOMAIN list : list[i] = f
  <2>1. n \in 1..Len(list) /\ list[n] = f
    BY <1>1 DEF Range, OnceList
  <2>2. Erase(list, f) = RemoveAt(list, n)
    BY <1>1 DEF Erase
  <2> QED
    BY <2>1, <2>2, TakeOne
<1>2. CASE f \notin Range(list)
  BY <1>2 DEF Erase
<1> QED
  BY <1>1, <1>2

\* The replacer with its last frame taken off.
LEMMA VictimProperties ==
    ASSUME NEW list, OnceList(list), list # <<>>
    PROVE  /\ Victim(list) \in Range(list) /\ Victim(list) \in Frame
           /\ OnceList(AfterVictim(list))
           /\ Range(AfterVictim(list)) = Range(list) \ {Victim(list)}
<1>1. /\ list \in Seq(Frame) /\ Len(list) \in Nat \ {0} /\ DOMAIN list = 1..Len(list)
      /\ \A i \in 1..Len(list) : list[i] \in Frame
      /\ \A i, j \in 1..Len(list) : list[i] = list[j] => i = j
  BY DEF OnceList, IsInjective
<1>2. /\ AfterVictim(list) \in Seq(Frame)
      /\ Len(AfterVictim(list)) = Len(list) - 1
      /\ \A i \in 1..(Len(list) - 1) : AfterVictim(list)[i] = list[i]
  BY <1>1 DEF AfterVictim
<1>3. DOMAIN AfterVictim(list) = 1..(Len(list) - 1)
  BY <1>2
<1>4. Range(AfterVictim(list)) = Range(list) \ {Victim(list)}
  <2> DEFINE n == Len(list)
  <2>1. n \in Nat \ {0}
    BY <1>1
  <2> HIDE DEF n
  <2>2. /\ \A i \in 1..n : i \in 1..(n - 1) \/ i = n
        /\ \A i \in 1..(n - 1) : i \in 1..n /\ i # n
        /\ n \in 1..n
    BY <2>1
  <2>3. /\ DOMAIN list = 1..n /\ DOMAIN AfterVictim(list) = 1..(n - 1)
        /\ \A i \in 1..(n - 1) : AfterVictim(list)[i] = list[i]
        /\ Victim(list) = list[n]
        /\ \A i, j \in 1..n : list[i] = list[j] => i = j
    BY <1>1, <1>2, <1>3 DEF n, Victim
  <2>4. Range(AfterVictim(list)) \subseteq Range(list) \ {Victim(list)}
    BY <2>2, <2>3 DEF Range
  <2>5. Range(list) \ {Victim(list)} \subseteq Range(AfterVictim(list))
    BY <2>2, <2>3 DEF Range
  <2> QED
    BY <2>4, <2>5
<1>5. IsInjective(AfterVictim(list))
  BY <1>1, <1>2, <1>3 DEF IsInjective
<1> QED
  BY <1>1, <1>2, <1>4, <1>5 DEF OnceList, Range, Victim

\* The replacer with a frame at the front that it did not have, and the free list
\* with one at the end.
LEMMA AddProperties ==
    ASSUME NEW list, OnceList(list), NEW f \in Frame, f \notin Range(list)
    PROVE  /\ OnceList(Insert(list, f)) /\ Range(Insert(list, f)) = Range(list) \union {f}
           /\ OnceList(Append(list, f)) /\ Range(Append(list, f)) = Range(list) \union {f}
<1>1. /\ list \in Seq(Frame) /\ Len(list) \in Nat /\ DOMAIN list = 1..Len(list)
      /\ \A i, j \in 1..Len(list) : list[i] = list[j] => i = j
      /\ \A i \in 1..Len(list) : list[i] # f
  BY DEF OnceList, IsInjective, Range
<1>2. Insert(list, f) = <<f>> \o list
  BY DEF Insert, Erase
<1>3. <<f>> \in Seq(Frame) /\ Len(<<f>>) = 1 /\ <<f>>[1] = f
  OBVIOUS
<1>4. /\ Insert(list, f) \in Seq(Frame) /\ DOMAIN Insert(list, f) = 1..(Len(list) + 1)
      /\ Insert(list, f)[1] = f
      /\ \A i \in 2..(Len(list) + 1) : Insert(list, f)[i] = list[i - 1]
  BY <1>1, <1>2, <1>3
<1>5. OnceList(Insert(list, f)) /\ Range(Insert(list, f)) = Range(list) \union {f}
  <2>1. \A i \in 1..(Len(list) + 1) : i = 1 \/ (i \in 2..(Len(list) + 1) /\ i - 1 \in 1..Len(list))
    BY <1>1
  <2>2. \A i \in 1..Len(list) : i + 1 \in 2..(Len(list) + 1) /\ i + 1 \in 1..(Len(list) + 1)
                                /\ (i + 1) - 1 = i
    BY <1>1
  <2>3. \A i \in 1..Len(list) : Insert(list, f)[i + 1] = list[i]
    BY <1>4, <2>2
  <2>4. Range(list) \subseteq Range(Insert(list, f))
    BY <1>1, <1>4, <2>2, <2>3 DEF Range
  <2>5. f \in Range(Insert(list, f))
    BY <1>1, <1>4 DEF Range
  <2>6. Range(Insert(list, f)) \subseteq Range(list) \union {f}
    BY <1>1, <1>4, <2>1 DEF Range
  <2>7. IsInjective(Insert(list, f))
    BY <1>1, <1>4, <2>1 DEF IsInjective
  <2> QED
    BY <1>4, <2>4, <2>5, <2>6, <2>7 DEF OnceList
<1>6. /\ Append(list, f) \in Seq(Frame) /\ DOMAIN Append(list, f) = 1..(Len(list) + 1)
      /\ Append(list, f)[Len(list) + 1] = f
      /\ \A i \in 1..Len(list) : Append(list, f)[i] = list[i]
  BY <1>1
<1>7. OnceList(Append(list, f)) /\ Range(Append(list, f)) = Range(list) \union {f}
  <2>1. \A i \in 1..(Len(list) + 1) : i = Len(list) + 1 \/ i \in 1..Len(list)
    BY <1>1
  <2>2. \A i \in 1..Len(list) : i \in 1..(Len(list) + 1)
    BY <1>1
  <2>3. Range(list) \subseteq Range(Append(list, f))
    BY <1>1, <1>6, <2>2 DEF Range
  <2>4. f \in Range(Append(list, f))
    BY <1>1, <1>6 DEF Range
  <2>5. Range(Append(list, f)) \subseteq Range(list) \union {f}
    BY <1>1, <1>6, <2>1 DEF Range
  <2>6. IsInjective(Append(list, f))
    BY <1>1, <1>6, <2>1 DEF IsInjective
  <2> QED
    BY <1>6, <2>3, <2>4, <2>5, <2>6 DEF OnceList
<1> QED
  BY <1>5, <1>7

(***************************************************************************)
(* The inductive invariant and what it says at a glance.                   *)
(***************************************************************************)
IInv ==
    /\ TypeOK /\ FramePartition /\ PinnedPagesStay /\ CleanPagesAreOnDisk
    /\ NothingFails /\ PoolInv

\* What the constants are.
LEMMA Constants ==
    /\ PoolSize \in Nat /\ MaxPages \in Nat /\ IsFiniteSet(Client)
    /\ NoFrame \notin Frame
    /\ PageId \subseteq Nat /\ INVALID_PAGE_ID \notin PageId
    /\ Zeros \in Data /\ NotWritten \notin Data
<1>1. PoolSize \in Nat /\ MaxPages \in Nat /\ IsFiniteSet(Client)
  BY PoolAssumption, Zenon
<1>2. NoFrame \notin Frame
  <2>1. PoolSize \in Nat
    BY PoolAssumption, Zenon
  <2> QED
    BY <2>1 DEF NoFrame, Frame
<1>3. PageId \subseteq Nat /\ INVALID_PAGE_ID \notin PageId
  <2>1. MaxPages \in Nat
    BY PoolAssumption, Zenon
  <2> QED
    BY <2>1 DEF PageId, INVALID_PAGE_ID
<1>4. Zeros \in Data /\ NotWritten \notin Data
  BY PoolAssumption, Zenon DEF Zeros, NotWritten, Data
<1> QED
  BY <1>1, <1>2, <1>3, <1>4

\* What the invariant says of the lists and of the page table.
LEMMA PoolFacts ==
    ASSUME IInv
    PROVE  /\ OnceList(free_list) /\ OnceList(replacer)
           /\ Range(free_list) \subseteq Frame /\ Range(replacer) \subseteq Frame
           /\ created \subseteq PageId
           /\ NoFrame \notin Frame
           /\ \A p \in PageId : Find(p) <=> page_table[p] \in Frame
<1>1. OnceList(free_list) /\ OnceList(replacer)
  BY DEF IInv, TypeOK, FramePartition, OnceList
<1>2. Range(free_list) \subseteq Frame /\ Range(replacer) \subseteq Frame
  BY <1>1 DEF OnceList, Range
<1>3. NoFrame \notin Frame
  BY Constants
<1>4. \A p \in PageId : Find(p) <=> page_table[p] \in Frame
  BY <1>3 DEF IInv, TypeOK, Find
<1> QED
  BY <1>1, <1>2, <1>3, <1>4 DEF IInv, TypeOK

\* A client's pointer leads to the frame of the page it holds, and to no frame
\* if it holds none.
LEMMA PointerFacts ==
    ASSUME IInv, NEW c \in Client, NEW p \in PageId
    PROVE  /\ Holds(c, p) => /\ p \in created /\ Find(p)
                             /\ held[c][p].frame = page_table[p]
                             /\ pages[page_table[p]].page_id_ = p
           /\ ~Holds(c, p) => held[c][p].frame = NoFrame /\ ~held[c][p].wrote
           /\ \A f \in Frame : <<c, p>> \in Holders(f) <=> Holds(c, p) /\ page_table[p] = f
<1>1. Holds(c, p) => /\ p \in created /\ Find(p)
                     /\ held[c][p].frame = page_table[p]
                     /\ pages[page_table[p]].page_id_ = p
  BY DEF IInv, PoolInv, PinnedPagesStay, FramePartition
<1>2. ~Holds(c, p) => held[c][p].frame = NoFrame /\ ~held[c][p].wrote
  BY DEF Holds, NoPointer
<1>3. ASSUME NEW f \in Frame
      PROVE  <<c, p>> \in Holders(f) <=> Holds(c, p) /\ page_table[p] = f
  <2>1. <<c, p>> \in Holders(f) <=> held[c][p].frame = f
    BY DEF Holders
  <2> QED
    BY <1>1, <1>2, <2>1, PoolFacts
<1> QED
  BY <1>1, <1>2, <1>3

\* Who holds a frame after a step: one client, the same as before, one more or
\* one less.
LEMMA HoldersPrime ==
    ASSUME NEW f, NEW c \in Client, NEW p \in PageId
    PROVE  /\ (\A d \in Client, q \in PageId : held'[d][q].frame = f <=> d = c /\ q = p)
              => Holders(f)' = {<<c, p>>}
           /\ (\A d \in Client, q \in PageId : held'[d][q].frame = f <=> held[d][q].frame = f)
              => Holders(f)' = Holders(f)
           /\ (\A d \in Client, q \in PageId :
                  held'[d][q].frame = f <=> held[d][q].frame = f \/ (d = c /\ q = p))
              => Holders(f)' = Holders(f) \union {<<c, p>>}
           /\ (\A d \in Client, q \in PageId :
                  held'[d][q].frame = f <=> held[d][q].frame = f /\ ~(d = c /\ q = p))
              => Holders(f)' = Holders(f) \ {<<c, p>>}
<1>1. /\ \A x : x \in Holders(f)' <=> /\ x \in Client \X PageId
                                      /\ held'[x[1]][x[2]].frame = f
      /\ \A x : x \in Holders(f) <=> /\ x \in Client \X PageId
                                     /\ held[x[1]][x[2]].frame = f
  BY DEF Holders
<1>2. \A x \in Client \X PageId : /\ x[1] \in Client /\ x[2] \in PageId
                                  /\ x = <<c, p>> <=> x[1] = c /\ x[2] = p
  OBVIOUS
<1>3. <<c, p>> \in Client \X PageId
  OBVIOUS
<1>4. ASSUME \A d \in Client, q \in PageId : held'[d][q].frame = f <=> d = c /\ q = p
      PROVE  Holders(f)' = {<<c, p>>}
  BY <1>1, <1>2, <1>3, <1>4
<1>5. ASSUME \A d \in Client, q \in PageId : held'[d][q].frame = f <=> held[d][q].frame = f
      PROVE  Holders(f)' = Holders(f)
  BY <1>1, <1>2, <1>5, Zenon
<1>6. ASSUME \A d \in Client, q \in PageId :
                held'[d][q].frame = f <=> held[d][q].frame = f \/ (d = c /\ q = p)
      PROVE  Holders(f)' = Holders(f) \union {<<c, p>>}
  BY <1>1, <1>2, <1>3, <1>6
<1>7. ASSUME \A d \in Client, q \in PageId :
                held'[d][q].frame = f <=> held[d][q].frame = f /\ ~(d = c /\ q = p)
      PROVE  Holders(f)' = Holders(f) \ {<<c, p>>}
  BY <1>1, <1>2, <1>3, <1>7
<1> QED
  BY <1>4, <1>5, <1>6, <1>7

\* The holders of a frame can be counted, and the frame has its pins from them.
LEMMA HolderCount ==
    ASSUME NEW f
    PROVE  /\ IsFiniteSet(Holders(f))
           /\ Cardinality(Holders(f)) \in Nat
           /\ Cardinality(Holders(f)) = 0 <=> Holders(f) = {}
<1>1. IsFiniteSet(PageId)
  <2>1. MaxPages \in Nat
    BY Constants
  <2>2. 0 \in Int /\ MaxPages - 1 \in Int
    BY <2>1
  <2> QED
    BY <2>2, FS_Interval DEF PageId
<1>2. IsFiniteSet(Client \X PageId)
  BY <1>1, FS_Product, PoolAssumption, Zenon
<1>3. Holders(f) \in SUBSET (Client \X PageId)
  BY DEF Holders
<1>4. IsFiniteSet(Holders(f))
  BY <1>2, <1>3, FS_Subset
<1> QED
  BY <1>4, FS_CardinalityType, FS_EmptySet

\* A frame without pins is used by nobody.
LEMMA UnpinnedFrame ==
    ASSUME IInv, NEW f \in Frame
    PROVE  /\ pages[f].pin_count_ = 0 <=> Holders(f) = {}
           /\ pages[f].pin_count_ = 0 =>
                 \A c \in Client, p \in PageId : Holds(c, p) => page_table[p] # f
           /\ f \in Range(free_list) => pages[f].pin_count_ = 0
<1>1. pages[f].pin_count_ = 0 <=> Holders(f) = {}
  BY HolderCount DEF IInv, PinnedPagesStay
<1>2. pages[f].pin_count_ = 0 =>
         \A c \in Client, p \in PageId : Holds(c, p) => page_table[p] # f
  BY <1>1, PointerFacts, Zenon
<1>3. ASSUME f \in Range(free_list), Holders(f) # {}
      PROVE  FALSE
  <2>1. PICK x \in Holders(f) : TRUE
    BY <1>3
  <2>2. PICK c \in Client, p \in PageId : x = <<c, p>>
    BY DEF Holders
  <2>3. Holds(c, p) /\ page_table[p] = f
    BY <2>1, <2>2, PointerFacts
  <2> QED
    BY <1>3, <2>3, PointerFacts, Zenon DEF IInv, FramePartition
<1> QED
  BY <1>1, <1>2, <1>3

(***************************************************************************)
(* The frame that FetchPage and NewPage take.                              *)
(***************************************************************************)
\* The frame is nobody's, leaves its list for good, and no page that exists is in
\* it but the one that the victim's page_id_ names and the page table finds.
LEMMA FrameTaken ==
    ASSUME IInv, FrameAvailable
    PROVE  /\ NextFrame \in Frame /\ pages[NextFrame].pin_count_ = 0
           /\ VictimIsMapped
           /\ FromReplacer => OldPage \in created /\ page_table[OldPage] = NextFrame
           /\ \A q \in created : page_table[q] = NextFrame => FromReplacer /\ q = OldPage
           /\ \A c \in Client, q \in PageId : Holds(c, q) => page_table[q] # NextFrame
           /\ TakeFrame => /\ OnceList(free_list') /\ OnceList(replacer')
                           /\ Range(free_list') = Range(free_list) \ {NextFrame}
                           /\ Range(replacer') = Range(replacer) \ {NextFrame}
<1>1. CASE FromReplacer
  <2>1. replacer # <<>> /\ NextFrame = Victim(replacer) /\ free_list = <<>>
    BY <1>1 DEF FrameAvailable, FromReplacer, NextFrame
  <2>2. NextFrame \in Frame /\ NextFrame \in Range(replacer)
    BY <2>1, PoolFacts, VictimProperties
  <2>3. pages[NextFrame].pin_count_ = 0 /\ NextFrame \notin Range(free_list)
    BY <2>2 DEF IInv, FramePartition
  <2>4. OldPage \in created /\ page_table[OldPage] = NextFrame
    BY <2>2, <2>3 DEF IInv, FramePartition, OldPage
  <2>5. \A q \in created : page_table[q] = NextFrame => q = OldPage
    BY <2>2, PoolFacts DEF IInv, FramePartition, OldPage
  <2>6. VictimIsMapped
    BY <2>2, <2>4, PoolFacts DEF VictimIsMapped
  <2>7. \A c \in Client, q \in PageId : Holds(c, q) => page_table[q] # NextFrame
    BY <2>2, <2>3, UnpinnedFrame
  <2>8. Range(<<>>) = {}
    BY DEF Range
  <2>9. TakeFrame => /\ OnceList(free_list') /\ OnceList(replacer')
                     /\ Range(free_list') = Range(free_list) \ {NextFrame}
                     /\ Range(replacer') = Range(replacer) \ {NextFrame}
    <3> SUFFICES ASSUME TakeFrame
                 PROVE  /\ OnceList(free_list') /\ OnceList(replacer')
                        /\ Range(free_list') = Range(free_list) \ {NextFrame}
                        /\ Range(replacer') = Range(replacer) \ {NextFrame}
      OBVIOUS
    <3>1. free_list' = free_list /\ replacer' = AfterVictim(replacer)
      BY <1>1, <2>1 DEF TakeFrame
    <3>2. OnceList(free_list') /\ Range(free_list') = Range(free_list) \ {NextFrame}
      BY <3>1, <2>1, <2>8, PoolFacts DEF OnceList
    <3>3. OnceList(replacer') /\ Range(replacer') = Range(replacer) \ {NextFrame}
      BY <3>1, <2>1, PoolFacts, VictimProperties DEF OnceList
    <3> QED
      BY <3>2, <3>3
  <2> QED
    BY <1>1, <2>2, <2>3, <2>4, <2>5, <2>6, <2>7, <2>9
<1>2. CASE ~FromReplacer
  <2>1. free_list # <<>> /\ NextFrame = Head(free_list)
    BY <1>2 DEF FromReplacer, NextFrame
  <2>2. NextFrame \in Frame /\ NextFrame \in Range(free_list)
    BY <2>1, PoolFacts, TakeFirst
  <2>3. pages[NextFrame].pin_count_ = 0
    BY <2>2, UnpinnedFrame
  <2>4. \A q \in created : page_table[q] # NextFrame
    BY <2>2, PoolFacts DEF IInv, FramePartition
  <2>5. VictimIsMapped
    BY <1>2 DEF VictimIsMapped
  <2>6. \A c \in Client, q \in PageId : Holds(c, q) => page_table[q] # NextFrame
    BY <2>2, <2>3, UnpinnedFrame
  <2>7. NextFrame \notin Range(replacer)
    BY <2>2 DEF IInv, FramePartition
  <2>8. TakeFrame => /\ OnceList(free_list') /\ OnceList(replacer')
                     /\ Range(free_list') = Range(free_list) \ {NextFrame}
                     /\ Range(replacer') = Range(replacer) \ {NextFrame}
    <3> SUFFICES ASSUME TakeFrame
                 PROVE  /\ OnceList(free_list') /\ OnceList(replacer')
                        /\ Range(free_list') = Range(free_list) \ {NextFrame}
                        /\ Range(replacer') = Range(replacer) \ {NextFrame}
      OBVIOUS
    <3>1. free_list' = Tail(free_list) /\ replacer' = replacer
      BY <1>2, <2>1 DEF TakeFrame
    <3>2. OnceList(free_list') /\ Range(free_list') = Range(free_list) \ {NextFrame}
      BY <3>1, <2>1, PoolFacts, TakeFirst DEF OnceList
    <3>3. OnceList(replacer') /\ Range(replacer') = Range(replacer) \ {NextFrame}
      BY <3>1, <2>7, PoolFacts DEF OnceList
    <3> QED
      BY <3>2, <3>3
  <2> QED
    BY <1>2, <2>2, <2>3, <2>4, <2>5, <2>6, <2>8
<1> QED
  BY <1>1, <1>2

\* The evicted page is in the file after the write-back as it was in its frame,
\* and no other page of the file changes.
LEMMA WrittenBack ==
    ASSUME IInv, FrameAvailable, NEW D,
           D \in [file : [PageId -> Data \union {NotWritten}], good : BOOLEAN,
                  next_page_id_ : 0..MaxPages],
           D.good, D.file = disk.file
    PROVE  /\ WriteBack(D).good
           /\ WriteBack(D).next_page_id_ = D.next_page_id_
           /\ WriteBack(D) \in [file : [PageId -> Data \union {NotWritten}], good : BOOLEAN,
                                next_page_id_ : 0..MaxPages]
           /\ FromReplacer => WriteBack(D).file[OldPage] = pages[NextFrame].data_
           /\ \A q \in PageId : ~(FromReplacer /\ q = OldPage) => WriteBack(D).file[q] = disk.file[q]
<1>1. pages[NextFrame] \in Page
  BY FrameTaken DEF IInv, TypeOK
<1>2. pages[NextFrame].data_ \in Data
  BY <1>1 DEF Page
<1>3. CASE FromReplacer
  <2>1. OldPage \in created /\ OldPage \in PageId /\ page_table[OldPage] = NextFrame
    BY <1>3, FrameTaken, PoolFacts
  <2>2. OldPage \in Nat
    BY <2>1, Constants
  <2>3. CASE pages[NextFrame].is_dirty_
    <3>1. WriteBack(D) = [D EXCEPT !.file[OldPage] = pages[NextFrame].data_]
      BY <1>3, <2>2, <2>3 DEF WriteBack, Disk!WritePage
    <3>2. /\ WriteBack(D).good = D.good
          /\ WriteBack(D).next_page_id_ = D.next_page_id_
          /\ WriteBack(D).file = [D.file EXCEPT ![OldPage] = pages[NextFrame].data_]
      BY <3>1, Zenon
    <3>3. D.file \in [PageId -> Data \union {NotWritten}]
      OBVIOUS
    <3>4. WriteBack(D).file \in [PageId -> Data \union {NotWritten}]
      BY <3>2, <3>3, <2>1, <1>2
    <3>5. WriteBack(D) \in [file : [PageId -> Data \union {NotWritten}], good : BOOLEAN,
                            next_page_id_ : 0..MaxPages]
      BY <3>1, <3>4
    <3>6. WriteBack(D).file[OldPage] = pages[NextFrame].data_
      BY <3>2, <3>3, <2>1
    <3>7. \A q \in PageId : q # OldPage => WriteBack(D).file[q] = disk.file[q]
      BY <3>2, <3>3, <2>1
    <3> QED
      BY <1>3, <3>2, <3>5, <3>6, <3>7
  <2>4. CASE ~pages[NextFrame].is_dirty_
    <3>1. WriteBack(D) = D
      BY <2>4 DEF WriteBack
    <3>2. \A c \in Client : ~held[c][OldPage].wrote
      BY <2>1, FrameTaken, PointerFacts, Zenon
    <3>3. Find(OldPage)
      BY <2>1, FrameTaken, PoolFacts
    <3>4. disk.file[OldPage] = pages[NextFrame].data_
      BY <2>1, <2>4, <3>2, <3>3 DEF IInv, CleanPagesAreOnDisk
    <3> QED
      BY <3>1, <3>4
  <2> QED
    BY <2>3, <2>4
<1>4. CASE ~FromReplacer
  <2>1. WriteBack(D) = D
    BY <1>4 DEF WriteBack
  <2> QED
    BY <1>4, <2>1
<1> QED
  BY <1>3, <1>4

\* What FetchPage of a page that is not in the pool and NewPage have in common:
\* the page p, with the content data, comes into the frame taken.
Loads(c, p, dirty, data) ==
    /\ FrameAvailable
    /\ p \in PageId /\ dirty \in BOOLEAN /\ data \in Data
    /\ \A d \in Client : ~Holds(d, p)
    /\ p \in created => ~Find(p)
    /\ ~dirty => disk.file[p] = data
    /\ TakeFrame
    /\ page_table' = TableWith(p, NextFrame)
    /\ Load(p, dirty, data)
    /\ Return(c, p, NextFrame)
    /\ created' = created \union {p}
    /\ crashed' = crashed
    /\ disk' \in [file : [PageId -> Data \union {NotWritten}], good : BOOLEAN,
                  next_page_id_ : 0..MaxPages]
    /\ disk'.good
    /\ disk'.next_page_id_ >= disk.next_page_id_ /\ p < disk'.next_page_id_
    /\ FromReplacer => disk'.file[OldPage] = pages[NextFrame].data_
    /\ \A q \in PageId : ~(FromReplacer /\ q = OldPage) => disk'.file[q] = disk.file[q]

\* Such a step, frame by frame, page by page and client by client.
Loaded(c, p, dirty, data) ==
    /\ pages' \in [Frame -> Page]
    /\ pages'[NextFrame] = [page_id_ |-> p, pin_count_ |-> 1, is_dirty_ |-> dirty,
                            data_ |-> data]
    /\ \A f \in Frame : f # NextFrame => pages'[f] = pages[f]
    /\ page_table' \in [PageId -> Frame \union {NoFrame}]
    /\ page_table'[p] = NextFrame
    /\ \A q \in PageId : q # p => page_table'[q] = IF FromReplacer /\ q = OldPage
                                                   THEN NoFrame ELSE page_table[q]
    /\ held' \in [Client -> [PageId -> [frame : Frame \union {NoFrame}, wrote : BOOLEAN]]]
    /\ held'[c][p] = [frame |-> NextFrame, wrote |-> FALSE]
    /\ \A d \in Client, q \in PageId : ~(d = c /\ q = p) => held'[d][q] = held[d][q]
    /\ FromReplacer => OldPage # p

\* The assignments of the step have these effects.
LEMMA LoadEffect ==
    ASSUME IInv, NEW c \in Client, NEW p, NEW dirty, NEW data, Loads(c, p, dirty, data)
    PROVE  Loaded(c, p, dirty, data)
<1>1. /\ NextFrame \in Frame /\ p \in PageId /\ dirty \in BOOLEAN /\ data \in Data
      /\ FromReplacer => OldPage \in created /\ page_table[OldPage] = NextFrame
  BY FrameTaken DEF Loads
<1>2. [page_id_ |-> p, pin_count_ |-> 1, is_dirty_ |-> dirty, data_ |-> data] \in Page
  BY <1>1 DEF Page
<1>3. pages \in [Frame -> Page] /\ page_table \in [PageId -> Frame \union {NoFrame}]
  BY DEF IInv, TypeOK
<1>4. /\ pages' \in [Frame -> Page]
      /\ pages'[NextFrame] = [page_id_ |-> p, pin_count_ |-> 1, is_dirty_ |-> dirty,
                              data_ |-> data]
      /\ \A f \in Frame : f # NextFrame => pages'[f] = pages[f]
  <2> DEFINE new == [page_id_ |-> p, pin_count_ |-> 1, is_dirty_ |-> dirty, data_ |-> data]
  <2>1. pages' = [pages EXCEPT ![NextFrame] = new]
    BY DEF Loads, Load
  <2>2. new \in Page
    BY <1>2
  <2> HIDE DEF new
  <2>3. /\ pages' \in [Frame -> Page] /\ pages'[NextFrame] = new
        /\ \A f \in Frame : f # NextFrame => pages'[f] = pages[f]
    BY <1>1, <1>3, <2>1, <2>2, Zenon
  <2> QED
    BY <2>3 DEF new
<1>5. /\ page_table' \in [PageId -> Frame \union {NoFrame}]
      /\ page_table'[p] = NextFrame
      /\ \A q \in PageId : q # p => page_table'[q] = IF FromReplacer /\ q = OldPage
                                                     THEN NoFrame ELSE page_table[q]
  BY <1>1, <1>3 DEF Loads, TableWith
<1>6. /\ held' \in [Client -> [PageId -> [frame : Frame \union {NoFrame}, wrote : BOOLEAN]]]
      /\ held'[c][p] = [frame |-> NextFrame, wrote |-> FALSE]
      /\ \A d \in Client, q \in PageId : ~(d = c /\ q = p) => held'[d][q] = held[d][q]
  <2>1. held \in [Client -> [PageId -> [frame : Frame \union {NoFrame}, wrote : BOOLEAN]]]
    BY DEF IInv, TypeOK
  <2>2. held' = [held EXCEPT ![c][p] = [frame |-> NextFrame, wrote |-> FALSE]]
    BY DEF Loads, Return
  <2> QED
    BY <1>1, <2>1, <2>2
<1>7. FromReplacer => OldPage # p
  BY <1>1, PoolFacts DEF Loads
<1> QED
  BY <1>4, <1>5, <1>6, <1>7, Zenon DEF Loaded

\* Where another page is after the step: where it was, or only in the file if it
\* was evicted.
KeepsPage(q) ==
    /\ FromReplacer /\ q = OldPage =>
          ~Find(q)' /\ Find(q) /\ disk'.file[q] = pages[page_table[q]].data_
    /\ ~(FromReplacer /\ q = OldPage) =>
          /\ page_table'[q] = page_table[q] /\ page_table[q] # NextFrame
          /\ Find(q)' <=> Find(q)
          /\ Find(q) => pages'[page_table[q]] = pages[page_table[q]]
          /\ disk'.file[q] = disk.file[q]

\* The step keeps every other page so.
LEMMA LoadKeepsPages ==
    ASSUME IInv, NEW c \in Client, NEW p, NEW dirty, NEW data, Loads(c, p, dirty, data),
           NEW q \in created, q # p
    PROVE  KeepsPage(q)
<1>1. q \in PageId /\ Loaded(c, p, dirty, data)
  BY PoolFacts, LoadEffect, Zenon
<1>2. CASE FromReplacer /\ q = OldPage
  <2>1. page_table[q] = NextFrame /\ NextFrame \in Frame
    BY <1>2, FrameTaken, Zenon DEF Loads
  <2>2. page_table'[q] = NoFrame
    BY <1>1, <1>2 DEF Loaded
  <2> QED
    BY <1>1, <1>2, <2>1, <2>2, PoolFacts, Zenon DEF Loads, Find, KeepsPage
<1>3. CASE ~(FromReplacer /\ q = OldPage)
  <2>1. page_table'[q] = page_table[q]
    <3>1. page_table'[q] = IF FromReplacer /\ q = OldPage THEN NoFrame ELSE page_table[q]
      BY <1>1 DEF Loaded
    <3> QED
      BY <1>3, <3>1, Zenon
  <2>2. page_table[q] # NextFrame
    BY <1>3, FrameTaken, ZenonT(30) DEF Loads
  <2>3. Find(q) => pages'[page_table[q]] = pages[page_table[q]]
    BY <1>1, <2>2, PoolFacts DEF Loaded
  <2>4. disk'.file[q] = disk.file[q]
    BY <1>1, <1>3 DEF Loads
  <2> QED
    BY <1>3, <2>1, <2>2, <2>3, <2>4, Zenon DEF Find, KeepsPage
<1> QED
  BY <1>2, <1>3

\* The invariant after such a step.
LEMMA LoadStep ==
    ASSUME IInv, NEW c \in Client, NEW p, NEW dirty, NEW data, Loads(c, p, dirty, data)
    PROVE  IInv'
<1> DEFINE n == NextFrame
<1>0. Loaded(c, p, dirty, data)
  BY LoadEffect, Zenon
<1>1. /\ n \in Frame /\ p \in PageId /\ dirty \in BOOLEAN /\ data \in Data
      /\ pages[n].pin_count_ = 0
      /\ OnceList(free_list') /\ OnceList(replacer')
      /\ Range(free_list') = Range(free_list) \ {n}
      /\ Range(replacer') = Range(replacer) \ {n}
      /\ created' = created \union {p} /\ crashed' = crashed
  BY FrameTaken DEF Loads
<1>2. /\ pages' \in [Frame -> Page]
      /\ pages'[n].page_id_ = p /\ pages'[n].pin_count_ = 1
      /\ pages'[n].is_dirty_ = dirty /\ pages'[n].data_ = data
      /\ \A f \in Frame : f # n => pages'[f] = pages[f]
      /\ page_table'[p] = n
  BY <1>0 DEF Loaded
<1>3. /\ held'[c][p].frame = n /\ ~held'[c][p].wrote
      /\ \A d \in Client, q \in PageId : ~(d = c /\ q = p) => held'[d][q] = held[d][q]
  BY <1>0, SMTT(30) DEF Loaded
<1>4. TypeOK'
  BY <1>0, <1>1, PoolFacts DEF IInv, TypeOK, OnceList, Loads, Loaded
<1>a. ASSUME NEW q \in created, q # p
      PROVE  KeepsPage(q)
  BY <1>a, LoadKeepsPages, Zenon
<1> HIDE DEF n
<1>5. FramePartition'
  <2>1. ASSUME NEW q \in created', Find(q)'
        PROVE  pages'[page_table'[q]].page_id_ = q /\ page_table'[q] \notin Range(free_list')
    <3>1. CASE q = p
      BY <3>1, <1>1, <1>2, ZenonT(30)
    <3>2. CASE q # p
      <4>1. q \in created
        BY <3>2, <1>1
      <4>2. page_table'[q] = page_table[q] /\ Find(q) /\ pages'[page_table[q]] = pages[page_table[q]]
        BY <1>a, <2>1, <3>2, <4>1, Zenon DEF KeepsPage
      <4> QED
        BY <1>1, <4>1, <4>2, ZenonT(30) DEF IInv, FramePartition
    <3> QED
      BY <3>1, <3>2, Zenon
  <2>2. ASSUME NEW f \in Frame
        PROVE  \/ f \in Range(free_list')
               \/ pages'[f].page_id_ \in created' /\ page_table'[pages'[f].page_id_] = f
    <3>1. CASE f = n
      BY <3>1, <1>1, <1>2
    <3>2. CASE f # n /\ f \notin Range(free_list)
      <4> DEFINE q == pages[f].page_id_
      <4>1. q \in created /\ page_table[q] = f /\ pages'[f] = pages[f]
        BY <3>2, <1>2, Zenon DEF IInv, FramePartition
      <4>2. q # p
        BY <4>1, PoolFacts, Zenon DEF Loads
      <4>3. ~(FromReplacer /\ q = OldPage)
        BY <4>1, <3>2, FrameTaken DEF n, Loads
      <4>4. page_table'[q] = f
        <5>1. ASSUME NEW z \in created, z # p, ~(FromReplacer /\ z = OldPage)
              PROVE  page_table'[z] = page_table[z]
          BY <1>a, <5>1, Zenon DEF KeepsPage
        <5> QED
          BY <4>1, <4>2, <4>3, <5>1, Zenon
      <4> QED
        BY <1>1, <4>1, <4>4
    <3> QED
      BY <3>1, <3>2, <1>1
  <2>3. ASSUME NEW f \in Frame
        PROVE  f \in Range(replacer') <=> pages'[f].pin_count_ = 0 /\ f \notin Range(free_list')
    BY <1>1, <1>2 DEF IInv, FramePartition
  <2> QED
    BY <1>1, <2>1, <2>2, <2>3 DEF FramePartition, OnceList
<1>6. PinnedPagesStay'
  <2>1. ASSUME NEW d \in Client, NEW q \in PageId, Holds(d, q)'
        PROVE  held'[d][q].frame = page_table'[q]
    <3>1. CASE d = c /\ q = p
      BY <3>1, <1>2, <1>3
    <3>2. CASE ~(d = c /\ q = p)
      <4>1. Holds(d, q) /\ held'[d][q] = held[d][q]
        BY <2>1, <3>2, <1>3, Zenon DEF Holds
      <4>2. q # p
        BY <4>1 DEF Loads
      <4>3. /\ q \in created /\ page_table[q] # n /\ held[d][q].frame = page_table[q]
        BY <4>1, PointerFacts, FrameTaken, Zenon DEF n, Loads
      <4>4. ~(FromReplacer /\ q = OldPage)
        BY <4>3, FrameTaken DEF n, Loads
      <4> QED
        BY <1>a, <4>1, <4>2, <4>3, <4>4, Zenon DEF KeepsPage
    <3> QED
      BY <3>1, <3>2
  <2>2. ASSUME NEW f \in Frame
        PROVE  pages'[f].pin_count_ = Cardinality(Holders(f)')
    <3>1. CASE f = n
      <4>1. Holders(f) = {}
        BY <3>1, <1>1, UnpinnedFrame, SMTT(30)
      <4>2. ASSUME NEW d \in Client, NEW q \in PageId
            PROVE  held[d][q].frame # f
        <5>1. <<d, q>> \in Client \X PageId /\ <<d, q>>[1] = d /\ <<d, q>>[2] = q
          OBVIOUS
        <5> QED
          BY <4>1, <5>1 DEF Holders
      <4>3. \A d \in Client, q \in PageId : held'[d][q].frame = f <=> d = c /\ q = p
        BY <3>1, <4>2, <1>1, <1>3
      <4>4. Holders(f)' = {<<c, p>>}
        BY <4>3, <1>1, HoldersPrime, ZenonT(30)
      <4>5. Cardinality(Holders(f)') = 1
        BY <4>4, FS_Singleton, Zenon
      <4> QED
        BY <3>1, <4>5, <1>2, ZenonT(30)
    <3>2. CASE f # n
      <4>1. held[c][p].frame = NoFrame
        BY <1>1, PointerFacts, Zenon DEF Loads
      <4>2. \A d \in Client, q \in PageId : held'[d][q].frame = f <=> held[d][q].frame = f
        BY <4>1, <3>2, <1>3, Constants, Zenon
      <4>3. Holders(f)' = Holders(f)
        BY <4>2 DEF Holders
      <4> QED
        BY <3>2, <4>3, <1>2 DEF IInv, PinnedPagesStay
    <3> QED
      BY <3>1, <3>2, Zenon
  <2> QED
    BY <2>1, <2>2 DEF PinnedPagesStay
<1>7. CleanPagesAreOnDisk'
  <2> SUFFICES ASSUME NEW q \in created', Find(q)', ~pages'[page_table'[q]].is_dirty_,
                      \A d \in Client : ~held'[d][q].wrote
               PROVE  disk'.file[q] = pages'[page_table'[q]].data_
    BY DEF CleanPagesAreOnDisk
  <2>1. CASE q = p
    <3>1. disk.file[p] = data
      BY <2>1, <1>2 DEF Loads
    <3>2. disk'.file[p] = disk.file[p]
      BY <1>0, <1>1, Zenon DEF Loads, Loaded
    <3> QED
      BY <2>1, <3>1, <3>2, <1>2, Zenon
  <2>2. CASE q # p
    <3>1. q \in created /\ q \in PageId
      BY <2>2, <1>1, PoolFacts
    <3>2. /\ page_table'[q] = page_table[q] /\ Find(q)
          /\ pages'[page_table[q]] = pages[page_table[q]]
          /\ disk'.file[q] = disk.file[q]
      BY <1>a, <2>2, <3>1, Zenon DEF KeepsPage
    <3>3. \A d \in Client : ~held[d][q].wrote
      BY <2>2, <3>1, <1>3
    <3> QED
      BY <3>1, <3>2, <3>3 DEF IInv, CleanPagesAreOnDisk
  <2> QED
    BY <2>1, <2>2, Zenon
<1>8. NothingFails'
  <2>1. NothingFails
    BY DEF IInv
  <2>2. disk'.good
    BY Zenon DEF Loads
  <2> QED
    BY <1>1, <2>1, <2>2, Zenon DEF NothingFails
<1>9. PoolInv'
  <2>1. ASSUME NEW d \in Client, NEW q \in PageId, Holds(d, q)'
        PROVE  q \in created' /\ Find(q)'
    <3>1. CASE d = c /\ q = p
      BY <3>1, <1>1, <1>2, Constants, Zenon DEF Find
    <3>2. CASE ~(d = c /\ q = p)
      <4>1. Holds(d, q)
        BY <2>1, <3>2, <1>3, Zenon DEF Holds
      <4>2. q # p
        BY <4>1 DEF Loads
      <4>3. q \in created /\ page_table[q] # n /\ Find(q)
        BY <4>1, PointerFacts, FrameTaken, Zenon DEF n, Loads
      <4>4. ~(FromReplacer /\ q = OldPage)
        BY <4>3, FrameTaken DEF n, Loads
      <4> QED
        BY <1>1, <1>a, <4>2, <4>3, <4>4, Zenon DEF KeepsPage
    <3> QED
      BY <3>1, <3>2, Zenon
  <2>2. ASSUME NEW q \in created'
        PROVE  q < disk'.next_page_id_
    <3>1. /\ disk.next_page_id_ \in Nat /\ disk'.next_page_id_ \in Nat
          /\ disk'.next_page_id_ >= disk.next_page_id_ /\ p < disk'.next_page_id_
      <4>1. disk.next_page_id_ \in 0..MaxPages
        BY DEF IInv, TypeOK
      <4>2. /\ disk'.next_page_id_ \in 0..MaxPages
            /\ disk'.next_page_id_ >= disk.next_page_id_ /\ p < disk'.next_page_id_
        BY DEF Loads
      <4> QED
        BY <4>1, <4>2, Constants
    <3>2. q # p => q \in Nat /\ q < disk.next_page_id_
      BY <1>1, PoolFacts, Constants, Zenon DEF IInv, PoolInv
    <3> QED
      BY <3>1, <3>2
  <2>3. ASSUME NEW q \in created', ~Find(q)'
        PROVE  disk'.file[q] # NotWritten
    <3>1. q # p
      BY <2>3, <1>1, <1>2, Constants, Zenon DEF Find
    <3>2. q \in created /\ q \in PageId
      BY <3>1, <1>1, PoolFacts
    <3>3. CASE FromReplacer /\ q = OldPage
      <4>0. disk'.file[q] = pages[page_table[q]].data_ /\ Find(q)
        BY <1>a, <3>1, <3>2, <3>3, Zenon DEF KeepsPage
      <4>1. disk'.file[q] = pages[page_table[q]].data_ /\ page_table[q] \in Frame
        BY <3>2, <4>0, PoolFacts, Zenon
      <4>2. pages[page_table[q]] \in Page
        BY <4>1, Zenon DEF IInv, TypeOK
      <4> QED
        BY <4>1, <4>2, Constants DEF Page
    <3>4. CASE ~(FromReplacer /\ q = OldPage)
      BY <1>a, <2>3, <3>1, <3>2, <3>4 DEF IInv, PoolInv, KeepsPage
    <3> QED
      BY <3>3, <3>4, Zenon
  <2> QED
    BY <2>1, <2>2, <2>3 DEF PoolInv
<1> QED
  BY <1>4, <1>5, <1>6, <1>7, <1>8, <1>9 DEF IInv

(***************************************************************************)
(* One lemma per operation.                                                *)
(***************************************************************************)
DiskRecord == [file : [PageId -> Data \union {NotWritten}], good : BOOLEAN,
               next_page_id_ : 0..MaxPages]

\* FetchPage of a page that is not in the pool reads what the file has for it:
\* the page was written before it left the pool.
LEMMA MissLoads ==
    ASSUME IInv, NEW c \in Client, NEW p \in PageId, FetchPage(c, p), ~Find(p), FrameAvailable
    PROVE  Loads(c, p, FALSE, disk.file[p])
<1> DEFINE D == WriteBack(disk)
<1>1. p \in created /\ VictimIsMapped
  BY FrameTaken DEF FetchPage
<1>2. /\ TakeFrame
      /\ page_table' = TableWith(p, NextFrame)
      /\ disk' = Disk!StreamAfterRead(D, p)
      /\ Load(p, FALSE, Disk!ReadPage(D, p, pages[NextFrame].data_))
      /\ Return(c, p, NextFrame)
      /\ UNCHANGED <<created, crashed>>
  BY <1>1, Zenon DEF FetchPage
<1>3. disk \in DiskRecord /\ disk.good
  BY DEF IInv, TypeOK, NothingFails, DiskRecord
<1>4. /\ D.good /\ D.next_page_id_ = disk.next_page_id_ /\ D \in DiskRecord
      /\ FromReplacer => D.file[OldPage] = pages[NextFrame].data_
      /\ \A q \in PageId : ~(FromReplacer /\ q = OldPage) => D.file[q] = disk.file[q]
  BY <1>3, WrittenBack DEF DiskRecord
<1>5. \A d \in Client : ~Holds(d, p)
  BY PointerFacts, Zenon
<1>6. ~(FromReplacer /\ p = OldPage)
  BY FrameTaken, PoolFacts, Zenon
<1> HIDE DEF D
<1>7. D.file[p] = disk.file[p] /\ disk.file[p] # NotWritten
  BY <1>1, <1>4, <1>6, Zenon DEF IInv, PoolInv
<1>8. ~Disk!BeyondEnd(D, p) /\ ~Disk!AtEnd(D, p)
  <2>1. p >= p
    BY Constants
  <2> QED
    BY <1>7, <2>1 DEF Disk!BeyondEnd, Disk!AtEnd
<1>9. disk' = D
  <2>1. disk' = [D EXCEPT !.good = D.good /\ ~Disk!AtEnd(D, p)]
    BY <1>2 DEF Disk!StreamAfterRead
  <2>2. (D.good /\ ~Disk!AtEnd(D, p)) = D.good
    BY <1>4, <1>8, Zenon
  <2> QED
    BY <1>4, <2>1, <2>2, Zenon DEF DiskRecord
<1>10. Disk!ReadPage(D, p, pages[NextFrame].data_) = disk.file[p]
  BY <1>4, <1>7, <1>8 DEF Disk!ReadPage
<1>11. Load(p, FALSE, disk.file[p])
  BY <1>2, <1>10, Zenon
<1>12. disk.file[p] \in Data
  BY <1>3, <1>7 DEF DiskRecord
<1>13. created' = created \union {p} /\ crashed' = crashed
  BY <1>1, <1>2
<1>14. p < disk.next_page_id_ /\ disk.next_page_id_ >= disk.next_page_id_
  BY <1>1, <1>3, Constants DEF IInv, PoolInv, DiskRecord
<1> QED
  BY <1>2, <1>4, <1>5, <1>9, <1>11, <1>12, <1>13, <1>14, Zenon DEF Loads, DiskRecord

\* NewPage puts a page of zeros, with an id that was not used before, into the pool.
LEMMA NewLoads ==
    ASSUME IInv, NEW c \in Client, NewPage(c), FrameAvailable
    PROVE  Loads(c, disk.next_page_id_, TRUE, Zeros)
<1> DEFINE p == disk.next_page_id_
           D == Disk!AllocatePage(disk)
<1>1. p \in PageId /\ VictimIsMapped
  BY FrameTaken, Zenon DEF NewPage
<1>2. /\ TakeFrame
      /\ page_table' = TableWith(p, NextFrame)
      /\ disk' = WriteBack(D)
      /\ Load(p, TRUE, Zeros)
      /\ created' = created \union {p}
      /\ Return(c, p, NextFrame)
      /\ UNCHANGED crashed
  BY <1>1, Zenon DEF NewPage, NewPageIsDirty
<1>3. disk \in DiskRecord /\ disk.good
  BY DEF IInv, TypeOK, NothingFails, DiskRecord
<1>4. D \in DiskRecord /\ D.good /\ D.file = disk.file /\ D.next_page_id_ = p + 1
  <2>1. p \in Nat /\ p + 1 \in 0..MaxPages
    BY <1>1, Constants DEF PageId
  <2> QED
    BY <1>3, <2>1 DEF Disk!AllocatePage, DiskRecord
<1> HIDE DEF D
<1>5. /\ disk'.good /\ disk'.next_page_id_ = p + 1 /\ disk' \in DiskRecord
      /\ FromReplacer => disk'.file[OldPage] = pages[NextFrame].data_
      /\ \A q \in PageId : ~(FromReplacer /\ q = OldPage) => disk'.file[q] = disk.file[q]
  BY <1>2, <1>4, WrittenBack, Zenon DEF DiskRecord
<1>6. p \notin created
  <2>1. p \in Nat
    BY <1>1, Constants, Zenon
  <2>2. ~(p < p)
    BY <2>1
  <2> QED
    BY <2>2 DEF IInv, PoolInv
<1>7. \A d \in Client : ~Holds(d, p)
  BY <1>1, <1>6, PointerFacts, Zenon
<1>8. disk'.next_page_id_ >= p /\ p < disk'.next_page_id_
  <2>1. p \in Nat
    BY <1>1, Constants, Zenon
  <2> QED
    BY <2>1, <1>5
<1> QED
  BY <1>1, <1>2, <1>5, <1>6, <1>7, <1>8, Constants, Zenon DEF Loads, DiskRecord

\* NewPage without a frame uses up an id all the same.
LEMMA NewFailsStep ==
    ASSUME IInv, NEW c \in Client, NewPage(c), ~FrameAvailable
    PROVE  /\ IInv'
           /\ UNCHANGED <<pages, page_table, free_list, replacer, created, held, crashed>>
           /\ disk'.file = disk.file
<1>1. /\ disk' = Disk!AllocatePage(disk) /\ disk.next_page_id_ \in PageId
      /\ UNCHANGED <<pages, page_table, free_list, replacer, created, held, crashed>>
  BY DEF NewPage
<1>2. disk \in DiskRecord
  BY DEF IInv, TypeOK, DiskRecord
<1>3. /\ disk' \in DiskRecord /\ disk'.good = disk.good /\ disk'.file = disk.file
      /\ disk'.next_page_id_ = disk.next_page_id_ + 1
  <2>1. disk.next_page_id_ \in Nat /\ disk.next_page_id_ + 1 \in 0..MaxPages
    BY <1>1, Constants DEF PageId
  <2> QED
    BY <1>1, <1>2, <2>1 DEF Disk!AllocatePage, DiskRecord
<1>4. TypeOK'
  BY <1>1, <1>3, Zenon DEF IInv, TypeOK, DiskRecord
<1>5. FramePartition' /\ PinnedPagesStay' /\ NothingFails'
  BY <1>1, <1>3, ZenonT(30) DEF IInv, FramePartition, PinnedPagesStay, NothingFails, Find,
                                Holds, Holders
<1>6. CleanPagesAreOnDisk'
  BY <1>1, <1>3 DEF IInv, CleanPagesAreOnDisk, Find
<1>7. PoolInv'
  <2>1. /\ disk.next_page_id_ \in Nat
        /\ \A q \in created : q \in Nat /\ q < disk.next_page_id_
    BY <1>1, PoolFacts, Constants, Zenon DEF IInv, PoolInv
  <2>2. \A q \in created : q < disk'.next_page_id_
    BY <1>3, <2>1
  <2> QED
    BY <1>1, <1>3, <2>2 DEF IInv, PoolInv, Find, Holds
<1> QED
  BY <1>1, <1>3, <1>4, <1>5, <1>6, <1>7, Zenon DEF IInv

(***************************************************************************)
(* What the operations write into a frame and into a client's pointer,     *)
(* field by field.                                                         *)
(***************************************************************************)
\* One field of a frame changes.
LEMMA FieldUpdates ==
    ASSUME NEW x \in Page
    PROVE  /\ \A b \in BOOLEAN :
                  [x EXCEPT !.is_dirty_ = b] =
                  [page_id_ |-> x.page_id_, pin_count_ |-> x.pin_count_,
                   is_dirty_ |-> b, data_ |-> x.data_]
           /\ \A n \in Nat :
                  [x EXCEPT !.pin_count_ = n] =
                  [page_id_ |-> x.page_id_, pin_count_ |-> n,
                   is_dirty_ |-> x.is_dirty_, data_ |-> x.data_]
           /\ \A p \in PageId \union {INVALID_PAGE_ID} :
                  [x EXCEPT !.page_id_ = p] =
                  [page_id_ |-> p, pin_count_ |-> x.pin_count_,
                   is_dirty_ |-> x.is_dirty_, data_ |-> x.data_]
<1>1. ASSUME NEW b \in BOOLEAN
      PROVE  [x EXCEPT !.is_dirty_ = b] =
             [page_id_ |-> x.page_id_, pin_count_ |-> x.pin_count_,
              is_dirty_ |-> b, data_ |-> x.data_]
  BY DEF Page
<1>2. ASSUME NEW n \in Nat
      PROVE  [x EXCEPT !.pin_count_ = n] =
             [page_id_ |-> x.page_id_, pin_count_ |-> n,
              is_dirty_ |-> x.is_dirty_, data_ |-> x.data_]
  BY DEF Page
<1>3. ASSUME NEW p \in PageId \union {INVALID_PAGE_ID}
      PROVE  [x EXCEPT !.page_id_ = p] =
             [page_id_ |-> p, pin_count_ |-> x.pin_count_,
              is_dirty_ |-> x.is_dirty_, data_ |-> x.data_]
  BY DEF Page
<1> QED
  BY <1>1, <1>2, <1>3

\* UnpinPage and DeletePage change two fields.
LEMMA FrameUpdates ==
    ASSUME NEW x \in Page, NEW b \in BOOLEAN, NEW n \in Nat
    PROVE  /\ [x EXCEPT !.is_dirty_ = b, !.pin_count_ = n] =
              [page_id_ |-> x.page_id_, pin_count_ |-> n, is_dirty_ |-> b, data_ |-> x.data_]
           /\ [x EXCEPT !.is_dirty_ = b, !.page_id_ = INVALID_PAGE_ID] =
              [page_id_ |-> INVALID_PAGE_ID, pin_count_ |-> x.pin_count_,
               is_dirty_ |-> b, data_ |-> x.data_]
<1> DEFINE y == [x EXCEPT !.is_dirty_ = b]
<1>1. y = [page_id_ |-> x.page_id_, pin_count_ |-> x.pin_count_,
           is_dirty_ |-> b, data_ |-> x.data_]
  BY FieldUpdates
<1>2. x.page_id_ \in PageId \union {INVALID_PAGE_ID} /\ x.pin_count_ \in Nat /\ x.data_ \in Data
  BY DEF Page
<1> HIDE DEF y
<1>3. y \in Page /\ y.page_id_ = x.page_id_ /\ y.pin_count_ = x.pin_count_
      /\ y.is_dirty_ = b /\ y.data_ = x.data_
  BY <1>1, <1>2 DEF Page
<1>4. [y EXCEPT !.pin_count_ = n] =
      [page_id_ |-> x.page_id_, pin_count_ |-> n, is_dirty_ |-> b, data_ |-> x.data_]
  BY <1>3, FieldUpdates
<1>5. [y EXCEPT !.page_id_ = INVALID_PAGE_ID] =
      [page_id_ |-> INVALID_PAGE_ID, pin_count_ |-> x.pin_count_, is_dirty_ |-> b,
       data_ |-> x.data_]
  BY <1>3, FieldUpdates
<1>6. /\ [x EXCEPT !.is_dirty_ = b, !.pin_count_ = n] = [y EXCEPT !.pin_count_ = n]
      /\ [x EXCEPT !.is_dirty_ = b, !.page_id_ = INVALID_PAGE_ID] =
         [y EXCEPT !.page_id_ = INVALID_PAGE_ID]
  BY Zenon DEF y
<1> QED
  BY <1>4, <1>5, <1>6

\* A client's pointer after a write.
Pointer == [frame : Frame \union {NoFrame}, wrote : BOOLEAN]

\* The pointer stays where it is.
LEMMA PointerUpdate ==
    ASSUME NEW h \in Pointer
    PROVE  [h EXCEPT !.wrote = TRUE] = [frame |-> h.frame, wrote |-> TRUE]
<1>1. \A b \in BOOLEAN : [h EXCEPT !.wrote = b] = [frame |-> h.frame, wrote |-> b]
  BY DEF Pointer
<1> QED
  BY <1>1, Zenon

\* A step that changes one frame, and leaves the page table, the free list, the
\* file and the pages that exist alone, keeps FramePartition if the frame keeps
\* its page and the replacer has it exactly if it has no pins.
LEMMA InPlaceStep ==
    ASSUME IInv, NEW f \in Frame, NEW x \in Page, f \notin Range(free_list),
           pages' = [pages EXCEPT ![f] = x], x.page_id_ = pages[f].page_id_,
           OnceList(replacer'),
           \A g \in Frame : g # f => (g \in Range(replacer') <=> g \in Range(replacer)),
           f \in Range(replacer') <=> x.pin_count_ = 0,
           UNCHANGED <<page_table, free_list, created>>
    PROVE  /\ FramePartition'
           /\ pages' \in [Frame -> Page] /\ replacer' \in Seq(Frame)
           /\ pages'[f] = x /\ \A g \in Frame : g # f => pages'[g] = pages[g]
<1>1. pages \in [Frame -> Page]
  BY DEF IInv, TypeOK
<1>2. /\ pages' \in [Frame -> Page] /\ pages'[f] = x
      /\ \A g \in Frame : g # f => pages'[g] = pages[g]
  BY <1>1
<1>3. \A g \in Frame : pages'[g].page_id_ = pages[g].page_id_
  BY <1>2
<1>4. \A p \in created' : Find(p)' =>
          pages'[page_table'[p]].page_id_ = p /\ page_table'[p] \notin Range(free_list')
  BY <1>3, PoolFacts, Zenon DEF IInv, FramePartition, Find
<1>5. \A g \in Frame : \/ g \in Range(free_list')
                       \/ pages'[g].page_id_ \in created' /\ page_table'[pages'[g].page_id_] = g
  <2>1. \A g \in Frame : \/ g \in Range(free_list)
                         \/ pages[g].page_id_ \in created /\ page_table[pages[g].page_id_] = g
    BY Zenon DEF IInv, FramePartition
  <2>2. free_list' = free_list /\ created' = created /\ page_table' = page_table
    OBVIOUS
  <2> QED
    BY <1>3, <2>1, <2>2, Zenon
<1>6. \A g \in Frame : g \in Range(replacer') <=>
          pages'[g].pin_count_ = 0 /\ g \notin Range(free_list')
  BY <1>2, Zenon DEF IInv, FramePartition
<1>7. IsInjective(free_list') /\ IsInjective(replacer') /\ replacer' \in Seq(Frame)
  BY DEF IInv, FramePartition, OnceList
<1> QED
  BY <1>2, <1>4, <1>5, <1>6, <1>7, Zenon DEF FramePartition

\* FetchPage of a page in the pool pins it where it is.
LEMMA HitStep ==
    ASSUME IInv, NEW c \in Client, NEW p \in PageId, FetchPage(c, p), Find(p)
    PROVE  IInv' /\ \A g \in Frame : pages'[g].data_ = pages[g].data_
<1> DEFINE f == page_table[p]
           x == [pages[f] EXCEPT !.pin_count_ = @ + 1]
<1>1. /\ p \in created /\ ~Holds(c, p)
      /\ replacer' = AfterPin(f)
      /\ pages' = [pages EXCEPT ![f].pin_count_ = @ + 1]
      /\ held' = [held EXCEPT ![c][p] = [frame |-> f, wrote |-> FALSE]]
      /\ UNCHANGED <<page_table, free_list, disk, created, crashed>>
  BY DEF FetchPage, Return
<1>2. f \in Frame /\ pages[f] \in Page /\ f \notin Range(free_list)
  BY <1>1, PoolFacts DEF IInv, TypeOK, FramePartition
<1>3. x \in Page /\ x.page_id_ = pages[f].page_id_ /\ x.pin_count_ = pages[f].pin_count_ + 1
      /\ x.is_dirty_ = pages[f].is_dirty_ /\ x.data_ = pages[f].data_ /\ x.pin_count_ # 0
  BY <1>2 DEF Page
<1>4. pages' = [pages EXCEPT ![f] = x]
  BY <1>1
<1>5. /\ OnceList(replacer') /\ f \notin Range(replacer')
      /\ \A g \in Frame : g # f => (g \in Range(replacer') <=> g \in Range(replacer))
  <2>1. CASE pages[f].pin_count_ = 0
    <3>1. replacer' = Erase(replacer, f)
      BY <1>1, <2>1, Zenon DEF AfterPin
    <3> QED
      BY <1>2, <3>1, PoolFacts, EraseProperties
  <2>2. CASE pages[f].pin_count_ # 0
    <3>1. replacer' = replacer
      BY <1>1, <2>2 DEF AfterPin
    <3> QED
      BY <1>2, <2>2, <3>1, PoolFacts DEF IInv, FramePartition
  <2> QED
    BY <2>1, <2>2, Zenon
<1> HIDE DEF x
<1>6. /\ FramePartition' /\ pages' \in [Frame -> Page] /\ replacer' \in Seq(Frame)
      /\ pages'[f] = x /\ \A g \in Frame : g # f => pages'[g] = pages[g]
  BY <1>1, <1>2, <1>3, <1>4, <1>5, InPlaceStep, Zenon
<1>7. /\ held' \in [Client -> [PageId -> [frame : Frame \union {NoFrame}, wrote : BOOLEAN]]]
      /\ held'[c][p] = [frame |-> f, wrote |-> FALSE]
      /\ \A d \in Client, q \in PageId : ~(d = c /\ q = p) => held'[d][q] = held[d][q]
  BY <1>1, <1>2 DEF IInv, TypeOK
<1> HIDE DEF f
<1>8. TypeOK'
  BY <1>1, <1>6, <1>7 DEF IInv, TypeOK
<1>9. PinnedPagesStay'
  <2>1. \A d \in Client, q \in PageId : Holds(d, q)' => held'[d][q].frame = page_table'[q]
    BY <1>1, <1>7 DEF IInv, PinnedPagesStay, Holds, f
  <2>2. ASSUME NEW g \in Frame
        PROVE  pages'[g].pin_count_ = Cardinality(Holders(g)')
    <3>1. held[c][p].frame = NoFrame /\ NoFrame # g
      BY <1>1, PointerFacts, PoolFacts, Zenon
    <3>2. CASE g = f
      <4>1. \A d \in Client, q \in PageId :
               held'[d][q].frame = g <=> held[d][q].frame = g \/ (d = c /\ q = p)
        <5> SUFFICES ASSUME NEW d \in Client, NEW q \in PageId
                     PROVE  held'[d][q].frame = g <=> held[d][q].frame = g \/ (d = c /\ q = p)
          OBVIOUS
        <5>1. CASE d = c /\ q = p
          <6>1. held'[c][p] = [frame |-> f, wrote |-> FALSE]
            BY <1>7
          <6>2. held'[c][p].frame = g
            BY <3>2, <6>1
          <6> QED
            BY <5>1, <6>2, Zenon
        <5>2. CASE ~(d = c /\ q = p)
          BY <1>7, <5>2, Zenon
        <5> QED
          BY <5>1, <5>2
      <4>2. Holders(g)' = Holders(g) \union {<<c, p>>}
        BY <4>1, HoldersPrime
      <4>3. <<c, p>> \notin Holders(g)
        BY <3>1 DEF Holders
      <4>4. Cardinality(Holders(g)') = Cardinality(Holders(g)) + 1
        BY <4>2, <4>3, HolderCount, FS_AddElement, Zenon
      <4>5. pages'[g].pin_count_ = pages[g].pin_count_ + 1
        BY <1>3, <1>6, <3>2, ZenonT(30)
      <4>6. pages[g].pin_count_ = Cardinality(Holders(g))
        BY DEF IInv, PinnedPagesStay
      <4> QED
        BY <4>4, <4>5, <4>6
    <3>3. CASE g # f
      <4>1. \A d \in Client, q \in PageId : held'[d][q].frame = g <=> held[d][q].frame = g
        <5>1. held'[c][p].frame # g /\ held[c][p].frame # g
          BY <1>7, <3>1, <3>3
        <5> QED
          BY <1>7, <5>1, Zenon
      <4>2. Holders(g)' = Holders(g)
        BY <4>1, HoldersPrime, Zenon
      <4> QED
        BY <1>6, <3>3, <4>2 DEF IInv, PinnedPagesStay
    <3> QED
      BY <3>2, <3>3
  <2> QED
    BY <2>1, <2>2 DEF PinnedPagesStay
<1>10. \A q \in PageId : Find(q) => /\ pages'[page_table[q]].is_dirty_ = pages[page_table[q]].is_dirty_
                                    /\ pages'[page_table[q]].data_ = pages[page_table[q]].data_
  BY <1>3, <1>6, PoolFacts
<1>11. CleanPagesAreOnDisk'
  <2>1. ~held[c][p].wrote /\ ~held'[c][p].wrote
    <3>1. ~held'[c][p].wrote
      BY <1>7
    <3>2. ~held[c][p].wrote
      BY <1>1, PointerFacts, Zenon
    <3> QED
      BY <3>1, <3>2
  <2>2. \A d \in Client, q \in PageId : held'[d][q].wrote <=> held[d][q].wrote
    BY <1>7, <2>1
  <2> QED
    BY <1>1, <1>10, <2>2, PoolFacts DEF IInv, CleanPagesAreOnDisk, Find
<1>12. NothingFails' /\ PoolInv'
  BY <1>1, <1>7 DEF IInv, NothingFails, PoolInv, Find, Holds
<1>13. \A g \in Frame : pages'[g].data_ = pages[g].data_
  BY <1>3, <1>6, Zenon
<1> QED
  BY <1>6, <1>8, <1>9, <1>11, <1>12, <1>13, Zenon DEF IInv

\* UnpinPage takes one pin from the frame that the client used, and the frame
\* becomes replaceable with the last one. What the client wrote there is marked.
LEMMA UnpinStep ==
    ASSUME IInv, NEW c \in Client, NEW p \in PageId, NEW is_dirty \in BOOLEAN,
           UnpinPage(c, p, is_dirty)
    PROVE  /\ IInv'
           /\ \A g \in Frame : pages'[g].data_ = pages[g].data_
<1> DEFINE f == page_table[p]
           x == [pages[f] EXCEPT !.is_dirty_ = Dirty(f, is_dirty), !.pin_count_ = @ - 1]
<1>1. /\ Holds(c, p) /\ (held[c][p].wrote => is_dirty)
      /\ held' = [held EXCEPT ![c][p] = NoPointer]
      /\ UNCHANGED <<page_table, free_list, disk, created, crashed>>
  BY DEF UnpinPage
<1>2. p \in created /\ Find(p) /\ held[c][p].frame = f /\ <<c, p>> \in Holders(f)
  BY <1>1, PointerFacts, PoolFacts, ZenonT(30)
<1>3. f \in Frame /\ pages[f] \in Page /\ f \notin Range(free_list)
  BY <1>2, PoolFacts DEF IInv, TypeOK, FramePartition
<1>4. pages[f].pin_count_ \in Nat /\ pages[f].pin_count_ > 0
  <2>1. pages[f].pin_count_ # 0
    BY <1>2, <1>3, UnpinnedFrame
  <2>2. pages[f].pin_count_ \in Nat
    BY <1>3 DEF Page
  <2> QED
    BY <2>1, <2>2
<1>5. /\ pages' = [pages EXCEPT ![f].is_dirty_ = Dirty(f, is_dirty), ![f].pin_count_ = @ - 1]
      /\ replacer' = IF pages[f].pin_count_ = 1 THEN Insert(replacer, f) ELSE replacer
  BY <1>2, <1>4 DEF UnpinPage
<1>6. Dirty(f, is_dirty) \in BOOLEAN /\ (Dirty(f, is_dirty) <=> is_dirty \/ pages[f].is_dirty_)
  BY <1>3 DEF Dirty, Page
<1>7. /\ x \in Page /\ x.page_id_ = pages[f].page_id_ /\ x.pin_count_ = pages[f].pin_count_ - 1
      /\ x.is_dirty_ = Dirty(f, is_dirty) /\ x.data_ = pages[f].data_
  <2>1. pages[f].pin_count_ - 1 \in Nat
    BY <1>4
  <2>2. x = [page_id_ |-> pages[f].page_id_, pin_count_ |-> pages[f].pin_count_ - 1,
             is_dirty_ |-> Dirty(f, is_dirty), data_ |-> pages[f].data_]
    <3> DEFINE y == pages[f]
               b == Dirty(f, is_dirty)
               n == pages[f].pin_count_ - 1
    <3>1. x = [y EXCEPT !.is_dirty_ = b, !.pin_count_ = n]
      BY <1>3, Zenon DEF Page
    <3>2. y \in Page /\ b \in BOOLEAN /\ n \in Nat
      BY <1>3, <1>6, <2>1
    <3> HIDE DEF x, y, b, n
    <3>3. x = [page_id_ |-> y.page_id_, pin_count_ |-> n, is_dirty_ |-> b, data_ |-> y.data_]
      BY <3>1, <3>2, FrameUpdates, Zenon
    <3> QED
      BY <3>3 DEF y, b, n
  <2> HIDE DEF x
  <2>3. /\ pages[f].page_id_ \in PageId \union {INVALID_PAGE_ID}
        /\ pages[f].data_ \in Data
    BY <1>3 DEF Page
  <2> QED
    BY <1>6, <2>1, <2>2, <2>3, Zenon DEF Page
<1>8. pages' = [pages EXCEPT ![f] = x]
  BY <1>3, <1>5, Zenon DEF IInv, TypeOK, Page
<1> HIDE DEF x
<1>9. /\ OnceList(replacer') /\ (f \in Range(replacer') <=> x.pin_count_ = 0)
      /\ \A g \in Frame : g # f => (g \in Range(replacer') <=> g \in Range(replacer))
  <2>1. f \notin Range(replacer)
    <3>1. pages[f].pin_count_ # 0
      BY <1>4
    <3> QED
      BY <1>3, <3>1, Zenon DEF IInv, FramePartition
  <2>2. CASE pages[f].pin_count_ = 1
    <3>1. x.pin_count_ = 0
      BY <1>7, <2>2
    <3> QED
      BY <1>3, <1>5, <2>1, <2>2, <3>1, PoolFacts, AddProperties, SMTT(30)
  <2>3. CASE pages[f].pin_count_ # 1
    <3>1. x.pin_count_ # 0
      BY <1>4, <1>7, <2>3
    <3> QED
      BY <1>5, <2>1, <2>3, <3>1, PoolFacts, Zenon
  <2> QED
    BY <2>2, <2>3
<1>10. /\ FramePartition' /\ pages' \in [Frame -> Page] /\ replacer' \in Seq(Frame)
       /\ pages'[f] = x /\ \A g \in Frame : g # f => pages'[g] = pages[g]
  BY <1>1, <1>3, <1>7, <1>8, <1>9, InPlaceStep, Zenon
<1>11. /\ held' \in [Client -> [PageId -> [frame : Frame \union {NoFrame}, wrote : BOOLEAN]]]
       /\ held'[c][p] = NoPointer
       /\ \A d \in Client, q \in PageId : ~(d = c /\ q = p) => held'[d][q] = held[d][q]
  BY <1>1 DEF IInv, TypeOK, NoPointer
<1> HIDE DEF f
<1>12. TypeOK'
  BY <1>1, <1>10, <1>11 DEF IInv, TypeOK
<1>13. PinnedPagesStay'
  <2>1. \A d \in Client, q \in PageId : Holds(d, q)' => held'[d][q].frame = page_table'[q]
    BY <1>1, <1>11 DEF IInv, PinnedPagesStay, Holds
  <2>2. ASSUME NEW g \in Frame
        PROVE  pages'[g].pin_count_ = Cardinality(Holders(g)')
    <3>0. NoPointer.frame = NoFrame /\ NoFrame # g
      BY Constants DEF NoPointer
    <3>1. held'[c][p].frame = NoFrame /\ NoFrame # g
      BY <1>11, <3>0, Zenon
    <3>2. CASE g = f
      <4>1. \A d \in Client, q \in PageId :
               held'[d][q].frame = g <=> held[d][q].frame = g /\ ~(d = c /\ q = p)
        BY <1>11, <3>1, Zenon
      <4>2. Holders(g)' = Holders(g) \ {<<c, p>>}
        BY <4>1, HoldersPrime
      <4>3. <<c, p>> \in Holders(g) /\ IsFiniteSet(Holders(g))
        BY <1>2, <3>2, HolderCount
      <4>4. Cardinality(Holders(g) \ {<<c, p>>}) = Cardinality(Holders(g)) - 1
        BY <4>3, FS_RemoveElement, Zenon
      <4>5. pages'[g].pin_count_ = pages[g].pin_count_ - 1
        BY <1>7, <1>10, <3>2
      <4>6. pages[g].pin_count_ = Cardinality(Holders(g))
        BY DEF IInv, PinnedPagesStay
      <4> QED
        BY <4>2, <4>4, <4>5, <4>6, Zenon
    <3>3. CASE g # f
      <4>1. \A d \in Client, q \in PageId : held'[d][q].frame = g <=> held[d][q].frame = g
        BY <1>2, <1>11, <3>1, <3>3, Zenon
      <4>2. Holders(g)' = Holders(g)
        BY <4>1, HoldersPrime, Zenon
      <4> QED
        BY <1>10, <3>3, <4>2, Zenon DEF IInv, PinnedPagesStay
    <3> QED
      BY <3>2, <3>3
  <2> QED
    BY <2>1, <2>2, Zenon DEF PinnedPagesStay
<1>14. \A g \in Frame : pages'[g].data_ = pages[g].data_
  BY <1>7, <1>10
<1>15. CleanPagesAreOnDisk'
  <2> SUFFICES ASSUME NEW q \in created, Find(q), ~pages'[page_table[q]].is_dirty_,
                      \A d \in Client : ~held'[d][q].wrote
               PROVE  disk.file[q] = pages[page_table[q]].data_
    BY <1>1, <1>14, PoolFacts DEF CleanPagesAreOnDisk, Find
  <2>1. ~pages[page_table[q]].is_dirty_ /\ (page_table[q] = f => ~is_dirty)
    BY <1>6, <1>7, <1>10, PoolFacts, Zenon
  <2>2. q = p => ~held[c][p].wrote
    BY <1>1, <2>1 DEF f
  <2>3. \A d \in Client : ~held[d][q].wrote
    BY <1>11, <2>2, PoolFacts, ZenonT(30)
  <2> QED
    BY <2>1, <2>3 DEF IInv, CleanPagesAreOnDisk
<1>16. NothingFails' /\ PoolInv'
  BY <1>1, <1>11, SMTT(30), ZenonT(60) DEF IInv, NothingFails, PoolInv, Find, Holds
<1> QED
  BY <1>10, <1>12, <1>13, <1>14, <1>15, <1>16 DEF IInv

\* A client's write changes the frame of its page alone, and the client notes it.
LEMMA WriteStep ==
    ASSUME IInv, NEW c \in Client, NEW p \in PageId, NEW v \in Data, Write(c, p, v)
    PROVE  /\ IInv' /\ \A d \in Client, q \in PageId : Holds(d, q)' <=> Holds(d, q)
           /\ pages'[page_table[p]].data_ = v
           /\ \A g \in Frame : g # page_table[p] => pages'[g] = pages[g]
<1> DEFINE f == page_table[p]
           x == [pages[f] EXCEPT !.data_ = v]
<1>1. p \in created /\ Find(p) /\ held[c][p].frame = f /\ pages[f].page_id_ = p
  BY PointerFacts, Zenon DEF Write
<1>2. /\ pages' = [pages EXCEPT ![f].data_ = v]
      /\ held' = [held EXCEPT ![c][p].wrote = TRUE]
      /\ UNCHANGED <<page_table, free_list, replacer, disk, created, crashed>>
  BY <1>1, ZenonT(30) DEF Write
<1>3. f \in Frame /\ pages[f] \in Page /\ f \notin Range(free_list)
  BY <1>1, PoolFacts DEF IInv, TypeOK, FramePartition
<1>4. /\ x \in Page /\ x.page_id_ = pages[f].page_id_ /\ x.pin_count_ = pages[f].pin_count_
      /\ x.is_dirty_ = pages[f].is_dirty_ /\ x.data_ = v
  BY <1>3 DEF Page
<1>5. pages' = [pages EXCEPT ![f] = x]
  BY <1>2
<1> HIDE DEF x
<1>6. OnceList(replacer') /\ (f \in Range(replacer') <=> x.pin_count_ = 0)
  BY <1>2, <1>3, <1>4, PoolFacts DEF IInv, FramePartition
<1>7. /\ FramePartition' /\ pages' \in [Frame -> Page] /\ replacer' \in Seq(Frame)
      /\ pages'[f] = x /\ \A g \in Frame : g # f => pages'[g] = pages[g]
  BY <1>2, <1>3, <1>4, <1>5, <1>6, InPlaceStep, Zenon
<1>8. /\ held' \in [Client -> [PageId -> [frame : Frame \union {NoFrame}, wrote : BOOLEAN]]]
      /\ \A d \in Client, q \in PageId : held'[d][q].frame = held[d][q].frame
      /\ held'[c][p].wrote
      /\ \A d \in Client, q \in PageId : ~(d = c /\ q = p) => held'[d][q] = held[d][q]
  <2> DEFINE h == [held[c][p] EXCEPT !.wrote = TRUE]
  <2>1. held \in [Client -> [PageId -> [frame : Frame \union {NoFrame}, wrote : BOOLEAN]]]
    BY DEF IInv, TypeOK
  <2>2. held' = [held EXCEPT ![c] = [held[c] EXCEPT ![p] = h]]
    BY <1>2, Zenon
  <2>3. /\ h \in [frame : Frame \union {NoFrame}, wrote : BOOLEAN]
        /\ h.frame = held[c][p].frame /\ h.wrote
    <3>1. held[c][p] \in Pointer
      BY <2>1 DEF Pointer
    <3>2. h = [frame |-> held[c][p].frame, wrote |-> TRUE]
      BY <3>1, PointerUpdate
    <3> HIDE DEF h
    <3> QED
      BY <3>1, <3>2 DEF Pointer
  <2> HIDE DEF h
  <2>4. /\ held'[c] = [held[c] EXCEPT ![p] = h] /\ held'[c][p] = h
        /\ \A d \in Client : d # c => held'[d] = held[d]
        /\ \A q \in PageId : q # p => held'[c][q] = held[c][q]
    BY <2>1, <2>2
  <2> QED
    BY <2>1, <2>2, <2>3, <2>4
<1>9. \A d \in Client, q \in PageId : Holds(d, q)' <=> Holds(d, q)
  <2>1. Holds(c, p)
    BY DEF Write
  <2>2. Holds(c, p)'
    BY <1>8 DEF Holds, NoPointer
  <2> QED
    BY <1>8, <2>1, <2>2 DEF Holds
<1> HIDE DEF f
<1>10. TypeOK'
  BY <1>2, <1>7, <1>8 DEF IInv, TypeOK
<1>11. PinnedPagesStay'
  <2>1. ASSUME NEW g \in Frame
        PROVE  Holders(g)' = Holders(g)
    <3>1. \A d \in Client, q \in PageId : held'[d][q].frame = g <=> held[d][q].frame = g
      BY <1>8
    <3> QED
      BY <3>1, HoldersPrime, Zenon
  <2>2. \A g \in Frame : pages'[g].pin_count_ = pages[g].pin_count_
    BY <1>4, <1>7, Zenon
  <2> QED
    BY <1>2, <1>8, <1>9, <2>1, <2>2 DEF IInv, PinnedPagesStay
<1>12. CleanPagesAreOnDisk'
  <2> SUFFICES ASSUME NEW q \in created, Find(q), ~pages'[page_table[q]].is_dirty_,
                      \A d \in Client : ~held'[d][q].wrote
               PROVE  disk.file[q] = pages'[page_table[q]].data_
    BY <1>2, Zenon DEF CleanPagesAreOnDisk, Find
  <2>1. q # p
    BY <1>8
  <2>2. page_table[q] # f /\ page_table[q] \in Frame
    BY <1>1, <2>1, PoolFacts, Zenon DEF IInv, FramePartition
  <2>3. pages'[page_table[q]] = pages[page_table[q]] /\ \A d \in Client : ~held[d][q].wrote
    BY <1>7, <1>8, <2>1, <2>2, PoolFacts, Zenon
  <2> QED
    BY <2>3 DEF IInv, CleanPagesAreOnDisk
<1>13. NothingFails' /\ PoolInv'
  BY <1>2, <1>9 DEF IInv, NothingFails, PoolInv, Find
<1> QED
  BY <1>4, <1>7, <1>9, <1>10, <1>11, <1>12, <1>13 DEF IInv, f

\* FlushPage writes the page where its id says, and nothing else.
LEMMA FlushStep ==
    ASSUME IInv, NEW p \in PageId, FlushPage(p)
    PROVE  /\ IInv'
           /\ p \in created /\ Find(p)
           /\ UNCHANGED <<pages, page_table, free_list, replacer, created, held, crashed>>
           /\ \A q \in PageId : q # p => disk'.file[q] = disk.file[q]
<1> DEFINE x == pages[page_table[p]]
<1>1. /\ p \in created /\ Find(p)
      /\ disk' = Disk!WritePage(disk, x.page_id_, x.data_)
      /\ UNCHANGED <<pages, page_table, free_list, replacer, created, held, crashed>>
  BY ZenonT(30) DEF FlushPage
<1>2. x \in Page /\ x.page_id_ = p
  BY <1>1, PoolFacts DEF IInv, TypeOK, FramePartition
<1>3. x.data_ \in Data
  BY <1>2 DEF Page
<1>4. disk \in DiskRecord /\ disk.good
  BY DEF IInv, TypeOK, NothingFails, DiskRecord
<1> HIDE DEF x
<1>5. disk' = [disk EXCEPT !.file[p] = x.data_]
  <2>1. p \in Nat
    BY Constants
  <2>2. ~(p < 0)
    BY <2>1
  <2> QED
    BY <1>1, <1>2, <1>4, <2>2 DEF Disk!WritePage
<1>6. /\ disk'.good = disk.good /\ disk'.next_page_id_ = disk.next_page_id_
      /\ disk'.file = [disk.file EXCEPT ![p] = x.data_]
  BY <1>4, <1>5, Zenon DEF DiskRecord
<1>7. disk.file \in [PageId -> Data \union {NotWritten}]
  BY <1>4 DEF DiskRecord
<1>8. /\ disk'.file \in [PageId -> Data \union {NotWritten}]
      /\ disk'.file[p] = x.data_ /\ \A q \in PageId : q # p => disk'.file[q] = disk.file[q]
  BY <1>3, <1>6, <1>7
<1>9. disk' \in DiskRecord
  BY <1>4, <1>5, <1>6, <1>8, ZenonT(30) DEF DiskRecord
<1>10. TypeOK'
  BY <1>1, <1>9 DEF IInv, TypeOK, DiskRecord
<1>11. FramePartition' /\ PinnedPagesStay' /\ NothingFails'
  <2>1. FramePartition'
    BY <1>1, ZenonT(30) DEF IInv, FramePartition, Find
  <2>2. PinnedPagesStay'
    BY <1>1 DEF IInv, PinnedPagesStay, Holds, Holders
  <2>3. NothingFails'
    BY <1>1, <1>6 DEF IInv, NothingFails
  <2> QED
    BY <2>1, <2>2, <2>3, Zenon
<1>12. CleanPagesAreOnDisk'
  BY <1>1, <1>8, PoolFacts, Zenon DEF IInv, CleanPagesAreOnDisk, Find, x
<1>13. PoolInv'
  BY <1>1, <1>6, <1>8, PoolFacts, Zenon DEF IInv, PoolInv, Find, Holds
<1> QED
  BY <1>1, <1>8, <1>10, <1>11, <1>12, <1>13, Zenon DEF IInv

\* DeletePage of a page in the pool that nobody has pinned.
LEMMA DeleteInPool ==
    ASSUME IInv, NEW p \in PageId, DeletePage(p), Find(p),
           ~(pages[page_table[p]].pin_count_ > 0)
    PROVE  /\ IInv'
           /\ created' = created \ {p} /\ UNCHANGED <<page_table, held, disk>>
           /\ \A c \in Client : ~Holds(c, p)
           /\ \A q \in created : q # p /\ Find(q) =>
                 pages'[page_table[q]].data_ = pages[page_table[q]].data_
<1> DEFINE f == page_table[p]
           x == [pages[f] EXCEPT !.is_dirty_ = FALSE, !.page_id_ = INVALID_PAGE_ID]
<1>1. /\ p \in created
      /\ pages' = [pages EXCEPT ![f].is_dirty_ = FALSE, ![f].page_id_ = INVALID_PAGE_ID]
      /\ free_list' = Append(free_list, f) /\ replacer' = Erase(replacer, f)
      /\ disk' = disk /\ created' = created \ {p}
      /\ UNCHANGED <<page_table, held, crashed>>
  BY DEF DeletePage, Disk!DeallocatePage
<1>2. f \in Frame /\ pages[f] \in Page /\ pages[f].page_id_ = p /\ f \notin Range(free_list)
  BY <1>1, PoolFacts DEF IInv, TypeOK, FramePartition
<1>3. pages[f].pin_count_ = 0
  <2>1. pages[f].pin_count_ \in Nat
    BY <1>2 DEF Page
  <2> QED
    BY <2>1
<1>4. x = [page_id_ |-> INVALID_PAGE_ID, pin_count_ |-> 0, is_dirty_ |-> FALSE,
           data_ |-> pages[f].data_]
  <2> DEFINE y == pages[f]
  <2>1. x = [y EXCEPT !.is_dirty_ = FALSE, !.page_id_ = INVALID_PAGE_ID]
    BY <1>2 DEF Page
  <2>2. y \in Page /\ FALSE \in BOOLEAN /\ 0 \in Nat /\ y.pin_count_ = 0
    BY <1>2, <1>3
  <2> HIDE DEF x, y
  <2>3. x = [page_id_ |-> INVALID_PAGE_ID, pin_count_ |-> y.pin_count_, is_dirty_ |-> FALSE,
             data_ |-> y.data_]
    BY <2>1, <2>2, FrameUpdates, Zenon
  <2> QED
    BY <2>2, <2>3 DEF y
<1>5. pages' = [pages EXCEPT ![f] = x]
  BY <1>1, <1>2, Zenon DEF IInv, TypeOK, Page
<1> HIDE DEF x
<1>6. x \in Page /\ x.pin_count_ = 0 /\ ~x.is_dirty_
  <2>1. pages[f].data_ \in Data
    BY <1>2 DEF Page
  <2> QED
    BY <1>4, <2>1 DEF Page
<1>7. pages \in [Frame -> Page]
  BY DEF IInv, TypeOK
<1>8. /\ pages' \in [Frame -> Page] /\ pages'[f] = x
      /\ \A g \in Frame : g # f => pages'[g] = pages[g]
  BY <1>2, <1>5, <1>6, <1>7
<1>9. /\ OnceList(free_list') /\ Range(free_list') = Range(free_list) \union {f}
      /\ OnceList(replacer') /\ Range(replacer') = Range(replacer) \ {f}
  <2>1. OnceList(free_list) /\ OnceList(replacer)
    BY PoolFacts, Zenon
  <2>2. OnceList(free_list') /\ Range(free_list') = Range(free_list) \union {f}
    BY <1>1, <1>2, <2>1, AddProperties, Zenon
  <2> QED
    BY <1>1, <1>2, <2>1, <2>2, EraseProperties, Zenon
<1>10. \A c \in Client : ~Holds(c, p)
  BY <1>2, <1>3, UnpinnedFrame, ZenonT(30)
<1>11. \A q \in created : q # p => page_table[q] # f
  BY <1>2, PoolFacts DEF IInv, FramePartition
<1> HIDE DEF f
<1>12. \A q \in created' : q \in created /\ q # p /\ (Find(q) => pages'[page_table[q]] = pages[page_table[q]])
  BY <1>1, <1>8, <1>11, PoolFacts
<1>13. TypeOK'
  BY <1>1, <1>8, <1>9, ZenonT(30) DEF IInv, TypeOK, OnceList
<1>14. FramePartition'
  <2>1. \A q \in created' : Find(q)' =>
            pages'[page_table'[q]].page_id_ = q /\ page_table'[q] \notin Range(free_list')
    <3> SUFFICES ASSUME NEW q \in created', Find(q)
                 PROVE  pages'[page_table[q]].page_id_ = q /\ page_table[q] \notin Range(free_list')
      BY <1>1, Zenon DEF Find
    <3>1. pages[page_table[q]].page_id_ = q /\ page_table[q] \notin Range(free_list)
      BY <1>12 DEF IInv, FramePartition
    <3> QED
      BY <1>9, <1>11, <1>12, <3>1
  <2>2. \A g \in Frame : \/ g \in Range(free_list')
                         \/ pages'[g].page_id_ \in created' /\ page_table'[pages'[g].page_id_] = g
    BY <1>1, <1>8, <1>9, Zenon DEF IInv, FramePartition, f
  <2>3. \A g \in Frame : g \in Range(replacer') <=>
            pages'[g].pin_count_ = 0 /\ g \notin Range(free_list')
    <3>1. \A g \in Frame : g \in Range(replacer) <=>
              pages[g].pin_count_ = 0 /\ g \notin Range(free_list)
      BY Zenon DEF IInv, FramePartition
    <3>2. f \notin Range(replacer') /\ f \in Range(free_list')
      BY <1>9
    <3>3. ASSUME NEW g \in Frame, g # f
          PROVE  /\ pages'[g] = pages[g]
                 /\ g \in Range(replacer') <=> g \in Range(replacer)
                 /\ g \in Range(free_list') <=> g \in Range(free_list)
      BY <1>8, <1>9, <3>3
    <3> QED
      BY <3>1, <3>2, <3>3, Zenon
  <2> QED
    BY <1>9, <2>1, <2>2, <2>3, ZenonT(30) DEF FramePartition, OnceList
<1>15. PinnedPagesStay'
  <2>1. \A g \in Frame : pages'[g].pin_count_ = pages[g].pin_count_
    BY <1>3, <1>6, <1>8 DEF f
  <2> QED
    BY <1>1, <2>1, Zenon DEF IInv, PinnedPagesStay, Holds, Holders
<1>16. CleanPagesAreOnDisk'
  <2> SUFFICES ASSUME NEW q \in created', Find(q), ~pages'[page_table[q]].is_dirty_,
                      \A c \in Client : ~held[c][q].wrote
               PROVE  disk.file[q] = pages'[page_table[q]].data_
    BY <1>1, Zenon DEF CleanPagesAreOnDisk, Find
  <2>1. q \in created /\ pages'[page_table[q]] = pages[page_table[q]]
    BY <1>12
  <2> QED
    BY <2>1, Zenon DEF IInv, CleanPagesAreOnDisk
<1>17. NothingFails' /\ PoolInv'
  BY <1>1, <1>10 DEF IInv, NothingFails, PoolInv, Find, Holds
<1> QED
  BY <1>1, <1>10, <1>12, <1>13, <1>14, <1>15, <1>16, <1>17, Zenon DEF IInv

\* DeletePage of a page that is only in the file.
LEMMA DeleteOnDisk ==
    ASSUME IInv, NEW p \in PageId, DeletePage(p), ~Find(p)
    PROVE  /\ IInv'
           /\ created' = created \ {p} /\ UNCHANGED <<pages, page_table, held, disk>>
           /\ \A c \in Client : ~Holds(c, p)
<1>1. /\ created' = created \ {p} /\ disk' = disk
      /\ UNCHANGED <<pages, page_table, free_list, replacer, held, crashed>>
  BY DEF DeletePage, Disk!DeallocatePage
<1>2. \A c \in Client : ~Holds(c, p)
  BY PointerFacts, Zenon
<1>3. TypeOK'
  BY <1>1, Zenon DEF IInv, TypeOK
<1>4. NothingFails' /\ PinnedPagesStay'
  BY <1>1, ZenonT(30) DEF IInv, NothingFails, PinnedPagesStay, Holds, Holders
<1>5. CleanPagesAreOnDisk'
  BY <1>1, ZenonT(30) DEF IInv, CleanPagesAreOnDisk, Find
<1>6. FramePartition'
  <2>1. \A g \in Frame : pages[g].page_id_ \in created /\ page_table[pages[g].page_id_] = g
                         => pages[g].page_id_ # p
    BY PoolFacts
  <2> QED
    BY <1>1, <2>1, ZenonT(30) DEF IInv, FramePartition, Find
<1>7. PoolInv'
  BY <1>1, <1>2 DEF IInv, PoolInv, Find, Holds
<1> QED
  BY <1>1, <1>2, <1>3, <1>4, <1>5, <1>6, <1>7, Zenon DEF IInv

(***************************************************************************)
(* The invariant.                                                          *)
(***************************************************************************)
\* The pool starts with every frame in the free list.
LEMMA InitInv == Init => IInv
<1> SUFFICES ASSUME Init PROVE IInv
  OBVIOUS
<1>1. PoolSize \in Nat /\ MaxPages \in Nat
  BY Constants
<1>2. /\ free_list \in Seq(Frame) /\ IsInjective(free_list) /\ Range(free_list) = Frame
  <2>1. free_list = [f \in 1..PoolSize |-> f]
    BY DEF Init, Frame
  <2>2. free_list \in [1..PoolSize -> Frame]
    BY <2>1 DEF Frame
  <2>3. free_list \in Seq(Frame)
    BY <1>1, <2>2
  <2> QED
    BY <2>1, <2>3 DEF IsInjective, Range, Frame
<1>3. replacer \in Seq(Frame) /\ IsInjective(replacer) /\ Range(replacer) = {}
  BY DEF Init, IsInjective, Range
<1>4. disk \in DiskRecord /\ disk.good /\ disk.next_page_id_ = 0
  <2>1. 0 \in 0..MaxPages
    BY <1>1
  <2> QED
    BY <2>1 DEF Init, Disk!EmptyDisk, DiskRecord
<1>5. pages \in [Frame -> Page] /\ \A f \in Frame : pages[f].pin_count_ = 0
  BY Constants DEF Init, Page
<1>6. /\ held \in [Client -> [PageId -> [frame : Frame \union {NoFrame}, wrote : BOOLEAN]]]
      /\ \A c \in Client, p \in PageId : ~Holds(c, p) /\ held[c][p].frame = NoFrame
  BY DEF Init, NoPointer, Holds
<1>7. page_table \in [PageId -> Frame \union {NoFrame}] /\ created = {} /\ crashed = FALSE
  BY DEF Init
<1>8. TypeOK
  BY <1>2, <1>3, <1>4, <1>5, <1>6, <1>7, Zenon DEF TypeOK, DiskRecord
<1>9. FramePartition
  BY <1>2, <1>3, <1>7 DEF FramePartition
<1>10. PinnedPagesStay
  <2>1. \A f \in Frame : Holders(f) = {}
    BY <1>6, Constants, Zenon DEF Holders
  <2>2. Cardinality({}) = 0
    BY FS_EmptySet, Zenon
  <2> QED
    BY <1>5, <1>6, <2>1, <2>2, Zenon DEF PinnedPagesStay
<1>11. CleanPagesAreOnDisk /\ NothingFails /\ PoolInv
  BY <1>4, <1>6, <1>7 DEF CleanPagesAreOnDisk, NothingFails, PoolInv
<1> QED
  BY <1>8, <1>9, <1>10, <1>11 DEF IInv

\* Nothing changes.
LEMMA StutterStep == ASSUME IInv, UNCHANGED vars PROVE IInv'
<1>1. UNCHANGED <<pages, page_table, free_list, replacer, disk, created, held, crashed>>
  BY DEF vars
<1>2. TypeOK'
  BY <1>1, Zenon DEF IInv, TypeOK
<1>3. FramePartition' /\ CleanPagesAreOnDisk' /\ NothingFails'
  BY <1>1, Zenon DEF IInv, FramePartition, CleanPagesAreOnDisk, NothingFails, Find
<1>4. PinnedPagesStay' /\ PoolInv'
  BY <1>1 DEF IInv, PinnedPagesStay, PoolInv, Find, Holds, Holders
<1> QED
  BY <1>2, <1>3, <1>4 DEF IInv

\* Every step keeps the invariant. The assertion in FetchPage and NewPage does
\* not fail, since a victim is always mapped.
LEMMA NextInv == IInv /\ [Next]_vars => IInv'
<1> SUFFICES ASSUME IInv, [Next]_vars PROVE IInv'
  OBVIOUS
<1>1. CASE UNCHANGED vars
  BY <1>1, StutterStep
<1>2. ASSUME NEW c \in Client, NewPage(c)
      PROVE  IInv'
  BY <1>2, NewLoads, LoadStep, NewFailsStep, Zenon
<1>3. ASSUME NEW c \in Client, NEW p \in PageId, FetchPage(c, p)
      PROVE  IInv'
  <2>1. CASE Find(p)
    BY <1>3, <2>1, HitStep
  <2>2. CASE ~Find(p) /\ FrameAvailable
    BY <1>3, <2>2, MissLoads, LoadStep, Zenon
  <2>3. CASE ~Find(p) /\ ~FrameAvailable
    BY <1>3, <2>3, StutterStep DEF FetchPage
  <2> QED
    BY <2>1, <2>2, <2>3
<1>4. ASSUME NEW c \in Client, NEW p \in PageId, NEW is_dirty \in BOOLEAN,
             UnpinPage(c, p, is_dirty)
      PROVE  IInv'
  BY <1>4, UnpinStep, ZenonT(30)
<1>5. ASSUME NEW c \in Client, NEW p \in PageId, NEW v \in Data, Write(c, p, v)
      PROVE  IInv'
  BY <1>5, WriteStep
<1>6. ASSUME NEW p \in PageId, FlushPage(p)
      PROVE  IInv'
  BY <1>6, FlushStep
<1>7. ASSUME NEW p \in PageId, DeletePage(p)
      PROVE  IInv'
  <2>1. CASE Find(p) /\ pages[page_table[p]].pin_count_ > 0
    BY <1>7, <2>1, StutterStep DEF DeletePage
  <2>2. CASE Find(p) /\ ~(pages[page_table[p]].pin_count_ > 0)
    BY <1>7, <2>2, DeleteInPool
  <2>3. CASE ~Find(p)
    BY <1>7, <2>3, DeleteOnDisk
  <2> QED
    BY <2>1, <2>2, <2>3
<1> QED
  BY <1>1, <1>2, <1>3, <1>4, <1>5, <1>6, <1>7 DEF Next, ClientStep

\* The invariant holds in every state of the pool.
THEOREM PoolIsRight == Spec => []IInv
<1>1. Init => IInv
  BY InitInv
<1>2. IInv /\ [Next]_vars => IInv'
  BY NextInv
<1> QED
  BY <1>1, <1>2, PTL DEF Spec

\* The variables of BufferPoolManager keep their types.
THEOREM TypeCorrect == Spec => []TypeOK
<1>1. IInv => TypeOK
  BY DEF IInv
<1> QED
  BY <1>1, PoolIsRight, PTL

\* Whatever clients do, every frame is in one place: free_list_, replacer_, or
\* pinned; and page_table_ leads to the frame that has the page.
THEOREM FramesPartitioned == Spec => []FramePartition
<1>1. IInv => FramePartition
  BY DEF IInv
<1> QED
  BY <1>1, PoolIsRight, PTL

\* A Page pointer that FetchPage or NewPage returned stays right until UnpinPage,
\* and pin_count_ is the number of clients that have one.
THEOREM PagesStayPinned == Spec => []PinnedPagesStay
<1>1. IInv => PinnedPagesStay
  BY DEF IInv
<1> QED
  BY <1>1, PoolIsRight, PTL

\* A frame that is not dirty, and not being changed, is in the file as it is in memory.
THEOREM CleanIsOnDisk == Spec => []CleanPagesAreOnDisk
<1>1. IInv => CleanPagesAreOnDisk
  BY DEF IInv
<1> QED
  BY <1>1, PoolIsRight, PTL

\* The file stream never fails and the assertions on page_table_->Remove hold.
THEOREM NoFailure == Spec => []NothingFails
<1>1. IInv => NothingFails
  BY SMTT(30) DEF IInv
<1> QED
  BY <1>1, PoolIsRight, PTL

(***************************************************************************)
(* The buffer pool implements the store of pages: whatever NewPage,        *)
(* FetchPage, UnpinPage, FlushPage and DeletePage do inside, a page keeps  *)
(* the content that its last writer gave it.                               *)
(***************************************************************************)
\* A page's content, wherever it is.
ContentOf(p) == IF p \notin created THEN NotWritten
                ELSE IF Find(p) THEN pages[page_table[p]].data_
                ELSE disk.file[p]

Stored == [p \in PageId |-> ContentOf(p)]

Held == [c \in Client |-> {p \in PageId : Holds(c, p)}]

\* The steps of the store in terms of these.
LEMMA StoreSteps ==
    ASSUME NEW c, NEW p, NEW v
    PROVE  /\ Store!Create(c, p) <=> /\ Stored[p] = NotWritten
                                     /\ Stored' = [Stored EXCEPT ![p] = Zeros]
                                     /\ Held' = [Held EXCEPT ![c] = @ \union {p}]
           /\ Store!Hold(c, p) <=> /\ Stored[p] # NotWritten
                                   /\ Held' = [Held EXCEPT ![c] = @ \union {p}]
                                   /\ Stored' = Stored
           /\ Store!Modify(c, p, v) <=> /\ p \in Held[c]
                                        /\ Stored' = [Stored EXCEPT ![p] = v]
                                        /\ Held' = Held
           /\ Store!Drop(c, p) <=> /\ p \in Held[c]
                                   /\ Held' = [Held EXCEPT ![c] = @ \ {p}]
                                   /\ Stored' = Stored
           /\ Store!Delete(p) <=> /\ \A d \in Client : p \notin Held[d]
                                  /\ Stored' = [Stored EXCEPT ![p] = NotWritten]
                                  /\ Held' = Held
<1>1. /\ Stored = [q \in PageId |-> IF q \notin created THEN NotWritten
                                    ELSE IF Find(q) THEN pages[page_table[q]].data_
                                    ELSE disk.file[q]]
      /\ Held = [d \in Client |-> {q \in PageId : Holds(d, q)}]
  BY DEF Stored, Held, ContentOf
<1>2. /\ Stored' = [q \in PageId |-> IF q \notin created THEN NotWritten
                                     ELSE IF Find(q) THEN pages[page_table[q]].data_
                                     ELSE disk.file[q]]'
      /\ Held' = [d \in Client |-> {q \in PageId : Holds(d, q)}]'
  BY DEF Stored, Held, ContentOf
<1> QED
  BY <1>1, <1>2, ZenonT(30) DEF Store!Create, Store!Hold, Store!Modify, Store!Drop, Store!Delete

\* What the contents are after a step, page by page.
LEMMA StoredPrime ==
    ASSUME NEW p \in PageId, NEW v
    PROVE  /\ Stored[p] = ContentOf(p)
           /\ (\A q \in PageId : ContentOf(q)' = ContentOf(q)) => Stored' = Stored
           /\ ContentOf(p)' = v /\ (\A q \in PageId : q # p => ContentOf(q)' = ContentOf(q))
              => Stored' = [Stored EXCEPT ![p] = v]
<1>1. /\ Stored = [q \in PageId |-> ContentOf(q)]
      /\ Stored' = [q \in PageId |-> ContentOf(q)']
  BY DEF Stored
<1>2. Stored[p] = ContentOf(p)
  BY <1>1
<1>3. (\A q \in PageId : ContentOf(q)' = ContentOf(q)) => Stored' = Stored
  BY <1>1, Zenon
<1>4. ContentOf(p)' = v /\ (\A q \in PageId : q # p => ContentOf(q)' = ContentOf(q))
      => Stored' = [Stored EXCEPT ![p] = v]
  BY <1>1
<1> QED
  BY <1>2, <1>3, <1>4

\* Who holds what after a step, client by client.
LEMMA HeldPrime ==
    ASSUME NEW c \in Client, NEW p \in PageId
    PROVE  /\ p \in Held[c] <=> Holds(c, p)
           /\ (\A d \in Client, q \in PageId : Holds(d, q)' <=> Holds(d, q)) => Held' = Held
           /\ (\A d \in Client, q \in PageId : Holds(d, q)' <=> Holds(d, q) \/ (d = c /\ q = p))
              => Held' = [Held EXCEPT ![c] = @ \union {p}]
           /\ (\A d \in Client, q \in PageId : Holds(d, q)' <=> Holds(d, q) /\ ~(d = c /\ q = p))
              => Held' = [Held EXCEPT ![c] = @ \ {p}]
<1>1. /\ Held = [d \in Client |-> {q \in PageId : Holds(d, q)}]
      /\ Held' = [d \in Client |-> {q \in PageId : Holds(d, q)'}]
  BY DEF Held
<1>2. \A d \in Client : /\ Held[d] = {q \in PageId : Holds(d, q)}
                        /\ Held'[d] = {q \in PageId : Holds(d, q)'}
  BY <1>1
<1>3. p \in Held[c] <=> Holds(c, p)
  BY <1>2
<1>4. ASSUME \A d \in Client, q \in PageId : Holds(d, q)' <=> Holds(d, q)
      PROVE  Held' = Held
  <2>1. \A d \in Client : Held'[d] = Held[d]
    BY <1>2, <1>4, Zenon
  <2> QED
    BY <1>1, <2>1
<1>5. ASSUME \A d \in Client, q \in PageId : Holds(d, q)' <=> Holds(d, q) \/ (d = c /\ q = p)
      PROVE  Held' = [Held EXCEPT ![c] = @ \union {p}]
  <2>1. Held'[c] = Held[c] \union {p} /\ \A d \in Client : d # c => Held'[d] = Held[d]
    BY <1>2, <1>5, Zenon
  <2> QED
    BY <1>1, <2>1, Zenon
<1>6. ASSUME \A d \in Client, q \in PageId : Holds(d, q)' <=> Holds(d, q) /\ ~(d = c /\ q = p)
      PROVE  Held' = [Held EXCEPT ![c] = @ \ {p}]
  <2>1. Held'[c] = Held[c] \ {p} /\ \A d \in Client : d # c => Held'[d] = Held[d]
    BY <1>2, <1>6, Zenon
  <2> QED
    BY <1>1, <2>1, Zenon
<1> QED
  BY <1>3, <1>4, <1>5, <1>6

\* A page that exists has a content.
LEMMA CreatedHasContent ==
    ASSUME IInv, NEW p \in created
    PROVE  ContentOf(p) # NotWritten
<1>1. CASE Find(p)
  <2>1. pages[page_table[p]] \in Page
    BY <1>1, PoolFacts DEF IInv, TypeOK
  <2>2. pages[page_table[p]].data_ \in Data
    BY <2>1 DEF Page
  <2> QED
    BY <1>1, <2>2, Constants DEF ContentOf
<1>2. CASE ~Find(p)
  BY <1>2 DEF ContentOf, IInv, PoolInv
<1> QED
  BY <1>1, <1>2

\* The frame for another page changes no content but that page's.
LEMMA LoadContents ==
    ASSUME IInv, NEW c \in Client, NEW p, NEW dirty, NEW data, Loads(c, p, dirty, data)
    PROVE  /\ ContentOf(p)' = data
           /\ \A q \in PageId : q # p => ContentOf(q)' = ContentOf(q)
           /\ \A d \in Client, q \in PageId : Holds(d, q)' <=> Holds(d, q) \/ (d = c /\ q = p)
<1>1. Loaded(c, p, dirty, data) /\ created' = created \union {p} /\ NextFrame \in Frame
      /\ p \in PageId
  BY LoadEffect, FrameTaken, ZenonT(30) DEF Loads
<1>2. ContentOf(p)' = data
  <2>1. /\ page_table'[p] = NextFrame
        /\ pages'[NextFrame] = [page_id_ |-> p, pin_count_ |-> 1, is_dirty_ |-> dirty, data_ |-> data]
    BY <1>1, Zenon DEF Loaded
  <2>2. NextFrame # NoFrame /\ pages'[NextFrame].data_ = data
    BY <1>1, <2>1, Constants
  <2> QED
    BY <1>1, <2>1, <2>2 DEF ContentOf, Find
<1>3. ASSUME NEW q \in PageId, q # p
      PROVE  ContentOf(q)' = ContentOf(q)
  <2>1. CASE q \notin created
    BY <1>1, <1>3, <2>1, ZenonT(30) DEF ContentOf
  <2>2. CASE q \in created /\ FromReplacer /\ q = OldPage
    <3>1. ~Find(q)' /\ Find(q) /\ disk'.file[q] = pages[page_table[q]].data_
      <4>1. KeepsPage(q)
        BY <1>3, <2>2, LoadKeepsPages, Zenon
      <4> QED
        BY <2>2, <4>1, Zenon DEF KeepsPage
    <3> QED
      BY <1>1, <2>2, <3>1 DEF ContentOf
  <2>3. CASE q \in created /\ ~(FromReplacer /\ q = OldPage)
    <3>1. /\ page_table'[q] = page_table[q] /\ (Find(q)' <=> Find(q))
          /\ Find(q) => pages'[page_table[q]] = pages[page_table[q]]
          /\ disk'.file[q] = disk.file[q]
      <4>1. KeepsPage(q)
        BY <1>3, <2>3, LoadKeepsPages, Zenon
      <4> QED
        BY <2>3, <4>1, Zenon DEF KeepsPage
    <3> QED
      BY <1>1, <2>3, <3>1 DEF ContentOf
  <2> QED
    BY <2>1, <2>2, <2>3, ZenonT(30)
<1>4. ASSUME NEW d \in Client, NEW q \in PageId
      PROVE  Holds(d, q)' <=> Holds(d, q) \/ (d = c /\ q = p)
  <2>1. CASE d = c /\ q = p
    <3>1. held'[d][q] = [frame |-> NextFrame, wrote |-> FALSE]
      BY <1>1, <2>1, Zenon DEF Loaded
    <3>2. NextFrame # NoFrame /\ NoPointer.frame = NoFrame
      BY <1>1, Constants, ZenonT(30) DEF NoPointer
    <3>3. held'[d][q].frame = NextFrame
      BY <3>1, SMTT(30)
    <3> QED
      BY <2>1, <3>2, <3>3 DEF Holds
  <2>2. CASE ~(d = c /\ q = p)
    BY <1>1, <2>2, ZenonT(30) DEF Loaded, Holds
  <2> QED
    BY <2>1, <2>2
<1> QED
  BY <1>2, <1>3, <1>4, SMTT(30)

\* If every frame keeps its content, and the page table, the file and the pages
\* that exist are the same, so is every content.
LEMMA SameContents ==
    ASSUME IInv, UNCHANGED <<page_table, created>>,
           \A q \in PageId : Find(q) => pages'[page_table[q]].data_ = pages[page_table[q]].data_,
           \A q \in created : ~Find(q) => disk'.file[q] = disk.file[q]
    PROVE  \A q \in PageId : ContentOf(q)' = ContentOf(q)
<1> SUFFICES ASSUME NEW q \in PageId
             PROVE  ContentOf(q)' = ContentOf(q)
  OBVIOUS
<1>1. (q \in created' <=> q \in created) /\ (Find(q)' <=> Find(q))
  BY DEF Find
<1>2. CASE q \notin created
  BY <1>1, <1>2 DEF ContentOf
<1>3. CASE q \in created /\ Find(q)
  BY <1>1, <1>3 DEF ContentOf
<1>4. CASE q \in created /\ ~Find(q)
  BY <1>1, <1>4 DEF ContentOf
<1> QED
  BY <1>2, <1>3, <1>4

\* NewPage creates a page of zeros, or changes nothing in the store.
LEMMA NewPageInStore ==
    ASSUME IInv, NEW c \in Client, NewPage(c)
    PROVE  \/ \E p \in PageId : Store!Create(c, p)
           \/ Stored' = Stored /\ Held' = Held
<1>1. PICK p \in PageId : p = disk.next_page_id_
  BY DEF NewPage
<1>2. CASE FrameAvailable
  <2>1. Loads(c, p, TRUE, Zeros)
    BY <1>1, <1>2, NewLoads, Zenon
  <2>2. p \notin created
    <3>1. p \in Nat
      BY <1>1, Constants
    <3>2. ~(p < p)
      BY <3>1
    <3> QED
      BY <1>1, <3>2 DEF IInv, PoolInv
  <2>3. /\ ContentOf(p)' = Zeros
        /\ \A q \in PageId : q # p => ContentOf(q)' = ContentOf(q)
        /\ \A d \in Client, q \in PageId : Holds(d, q)' <=> Holds(d, q) \/ (d = c /\ q = p)
    BY <2>1, LoadContents, Zenon
  <2>4. ContentOf(p) = NotWritten
    BY <2>2 DEF ContentOf
  <2>5. Stored[p] = NotWritten /\ Stored' = [Stored EXCEPT ![p] = Zeros]
    BY <2>3, <2>4, StoredPrime
  <2>6. Held' = [Held EXCEPT ![c] = @ \union {p}]
    BY <2>3, HeldPrime, Zenon
  <2> QED
    BY <2>5, <2>6, StoreSteps, Zenon
<1>3. CASE ~FrameAvailable
  <2>1. /\ UNCHANGED <<pages, page_table, created, held>> /\ disk'.file = disk.file
    BY <1>3, NewFailsStep, ZenonT(30)
  <2>2. \A q \in PageId : ContentOf(q)' = ContentOf(q)
    BY <2>1, SameContents, SMTT(30)
  <2>3. \A d \in Client, q \in PageId : Holds(d, q)' <=> Holds(d, q)
    BY <2>1, ZenonT(30) DEF Holds
  <2> QED
    BY <2>2, <2>3, StoredPrime, HeldPrime, ZenonT(30)
<1> QED
  BY <1>2, <1>3

\* FetchPage gives a client the page that exists, or changes nothing.
LEMMA FetchPageInStore ==
    ASSUME IInv, NEW c \in Client, NEW p \in PageId, FetchPage(c, p)
    PROVE  Store!Hold(c, p) \/ (Stored' = Stored /\ Held' = Held)
<1>1. p \in created /\ ContentOf(p) # NotWritten
  BY CreatedHasContent DEF FetchPage
<1>2. Stored[p] # NotWritten
  BY <1>1, StoredPrime
<1>3. CASE Find(p)
  <2>1. /\ held' = [held EXCEPT ![c][p] = [frame |-> page_table[p], wrote |-> FALSE]]
        /\ UNCHANGED <<page_table, disk, created>>
    BY <1>3, ZenonT(30) DEF FetchPage, Return
  <2>2. \A g \in Frame : pages'[g].data_ = pages[g].data_
    BY <1>3, HitStep, ZenonT(30)
  <2>3. \A q \in PageId : ContentOf(q)' = ContentOf(q)
    BY <2>1, <2>2, PoolFacts, SameContents
  <2>4. held \in [Client -> [PageId -> [frame : Frame \union {NoFrame}, wrote : BOOLEAN]]]
    BY DEF IInv, TypeOK
  <2>5. \A d \in Client, q \in PageId : Holds(d, q)' <=> Holds(d, q) \/ (d = c /\ q = p)
    <3>1. held'[c][p].frame # NoPointer.frame
      BY <1>3, <2>1, <2>4, ZenonT(30) DEF Find, NoPointer
    <3>2. \A d \in Client, q \in PageId : ~(d = c /\ q = p) => held'[d][q] = held[d][q]
      BY <2>1, <2>4
    <3> QED
      BY <3>1, <3>2 DEF Holds
  <2>6. Held' = [Held EXCEPT ![c] = @ \union {p}] /\ Stored' = Stored
    BY <2>3, <2>5, StoredPrime, HeldPrime, Zenon
  <2> QED
    BY <1>2, <2>6, StoreSteps, Zenon
<1>4. CASE ~Find(p) /\ FrameAvailable
  <2>1. Loads(c, p, FALSE, disk.file[p])
    BY <1>4, MissLoads, Zenon
  <2>2. ContentOf(p) = disk.file[p]
    BY <1>1, <1>4 DEF ContentOf
  <2>3. /\ ContentOf(p)' = disk.file[p]
        /\ \A q \in PageId : q # p => ContentOf(q)' = ContentOf(q)
        /\ \A d \in Client, q \in PageId : Holds(d, q)' <=> Holds(d, q) \/ (d = c /\ q = p)
    BY <2>1, LoadContents, Zenon
  <2>4. \A q \in PageId : ContentOf(q)' = ContentOf(q)
    BY <2>2, <2>3
  <2>5. Held' = [Held EXCEPT ![c] = @ \union {p}] /\ Stored' = Stored
    BY <2>3, <2>4, StoredPrime, HeldPrime, Zenon
  <2> QED
    BY <1>2, <2>5, StoreSteps, Zenon
<1>5. CASE ~Find(p) /\ ~FrameAvailable
  <2>1. UNCHANGED <<pages, page_table, disk, created, held>>
    BY <1>5 DEF FetchPage, vars
  <2>2. \A q \in PageId : ContentOf(q)' = ContentOf(q)
    BY <2>1, SameContents
  <2>3. \A d \in Client, q \in PageId : Holds(d, q)' <=> Holds(d, q)
    BY <2>1 DEF Holds
  <2> QED
    BY <2>2, <2>3, StoredPrime, HeldPrime
<1> QED
  BY <1>3, <1>4, <1>5

\* UnpinPage is the end of a client's use of the page.
LEMMA UnpinPageInStore ==
    ASSUME IInv, NEW c \in Client, NEW p \in PageId, NEW is_dirty \in BOOLEAN,
           UnpinPage(c, p, is_dirty)
    PROVE  Store!Drop(c, p)
<1>1. /\ Holds(c, p) /\ held' = [held EXCEPT ![c][p] = NoPointer]
      /\ UNCHANGED <<page_table, disk, created>>
  BY DEF UnpinPage
<1>2. \A q \in PageId : ContentOf(q)' = ContentOf(q)
  <2>1. \A g \in Frame : pages'[g].data_ = pages[g].data_
    BY UnpinStep
  <2> QED
    BY <1>1, <2>1, PoolFacts, SameContents, ZenonT(30)
<1>3. \A d \in Client, q \in PageId : Holds(d, q)' <=> Holds(d, q) /\ ~(d = c /\ q = p)
  <2>1. held \in [Client -> [PageId -> [frame : Frame \union {NoFrame}, wrote : BOOLEAN]]]
    BY DEF IInv, TypeOK
  <2>2. /\ held'[c][p] = NoPointer
        /\ \A d \in Client, q \in PageId : ~(d = c /\ q = p) => held'[d][q] = held[d][q]
    BY <1>1, <2>1, ZenonT(30)
  <2> QED
    BY <2>2 DEF Holds
<1>4. p \in Held[c] /\ Held' = [Held EXCEPT ![c] = @ \ {p}] /\ Stored' = Stored
  BY <1>1, <1>2, <1>3, StoredPrime, HeldPrime
<1> QED
  BY <1>4, StoreSteps, Zenon

\* A write through the pointer changes the content of that page only.
LEMMA WriteInStore ==
    ASSUME IInv, NEW c \in Client, NEW p \in PageId, NEW v \in Data, Write(c, p, v)
    PROVE  Store!Modify(c, p, v)
<1>1. Holds(c, p) /\ UNCHANGED <<page_table, disk, created>>
  BY ZenonT(30) DEF Write
<1>2. /\ \A d \in Client, q \in PageId : Holds(d, q)' <=> Holds(d, q)
      /\ pages'[page_table[p]].data_ = v
      /\ \A g \in Frame : g # page_table[p] => pages'[g] = pages[g]
  BY WriteStep
<1>3. p \in created /\ Find(p) /\ pages[page_table[p]].page_id_ = p
  BY <1>1, PointerFacts, Zenon
<1>4. ContentOf(p)' = v
  BY <1>1, <1>2, <1>3, ZenonT(30) DEF ContentOf, Find
<1>5. ASSUME NEW q \in PageId, q # p
      PROVE  ContentOf(q)' = ContentOf(q)
  <2>1. q \in created /\ Find(q) => pages'[page_table[q]] = pages[page_table[q]]
    BY <1>2, <1>3, <1>5, PoolFacts, ZenonT(30) DEF IInv, FramePartition
  <2> QED
    BY <1>1, <2>1, SMTT(30) DEF ContentOf, Find
<1>6. p \in Held[c] /\ Held' = Held /\ Stored' = [Stored EXCEPT ![p] = v]
  BY <1>1, <1>2, <1>4, <1>5, StoredPrime, HeldPrime, ZenonT(30)
<1> QED
  BY <1>6, StoreSteps, Zenon

\* FlushPage changes nothing in the store.
LEMMA FlushPageInStore ==
    ASSUME IInv, NEW p \in PageId, FlushPage(p)
    PROVE  Stored' = Stored /\ Held' = Held
<1>1. /\ Find(p) /\ UNCHANGED <<pages, page_table, created, held>>
      /\ \A q \in PageId : q # p => disk'.file[q] = disk.file[q]
  BY FlushStep, SMTT(30)
<1>2. \A q \in PageId : ContentOf(q)' = ContentOf(q)
  BY <1>1, PoolFacts, SameContents, ZenonT(30)
<1>3. Held' = Held
  BY <1>1, ZenonT(30) DEF Held, Holds
<1> QED
  BY <1>2, <1>3, StoredPrime, ZenonT(30)

\* DeletePage gives up a page that nobody holds, or changes nothing. No other
\* page loses its content, although the entry of the page table stays.
LEMMA DeletePageInStore ==
    ASSUME IInv, NEW p \in PageId, DeletePage(p)
    PROVE  Store!Delete(p) \/ (Stored' = Stored /\ Held' = Held)
<1>1. CASE Find(p) /\ pages[page_table[p]].pin_count_ > 0
  <2>1. UNCHANGED <<pages, page_table, disk, created, held>>
    BY <1>1 DEF DeletePage, vars
  <2>2. \A q \in PageId : ContentOf(q)' = ContentOf(q)
    BY <2>1, SameContents
  <2>3. Held' = Held
    BY <2>1 DEF Held, Holds
  <2> QED
    BY <2>2, <2>3, StoredPrime
<1>2. CASE ~(Find(p) /\ pages[page_table[p]].pin_count_ > 0)
  <2>1. /\ created' = created \ {p} /\ UNCHANGED <<page_table, held, disk>>
        /\ \A c \in Client : ~Holds(c, p)
        /\ \A q \in created : q # p /\ Find(q) =>
              pages'[page_table[q]].data_ = pages[page_table[q]].data_
    BY <1>2, DeleteInPool, DeleteOnDisk, ZenonT(30)
  <2>2. ContentOf(p)' = NotWritten
    BY <2>1, ZenonT(30) DEF ContentOf
  <2>3. ASSUME NEW q \in PageId, q # p
        PROVE  ContentOf(q)' = ContentOf(q)
    BY <2>1, <2>3 DEF ContentOf, Find
  <2>4. Held' = Held /\ Stored' = [Stored EXCEPT ![p] = NotWritten]
    <3>1. Held' = Held
      BY <2>1, ZenonT(30) DEF Held, Holds
    <3> QED
      BY <2>2, <2>3, <3>1, StoredPrime, ZenonT(30)
  <2>5. \A d \in Client : p \notin Held[d]
    BY <2>1, HeldPrime, ZenonT(30)
  <2> QED
    BY <2>4, <2>5, StoreSteps, ZenonT(30)
<1> QED
  BY <1>1, <1>2

\* The pool starts as an empty store.
LEMMA InitInStore == Init => Store!StoreInit
<1> SUFFICES ASSUME Init PROVE Store!StoreInit
  OBVIOUS
<1>1. /\ created = {} /\ held = [c \in Client |-> [p \in PageId |-> NoPointer]]
  BY DEF Init
<1>2. \A c \in Client, p \in PageId : ~Holds(c, p)
  BY <1>1 DEF Holds
<1>3. \A c \in Client : {p \in PageId : Holds(c, p)} = {}
  BY <1>2
<1> QED
  BY <1>1, <1>3 DEF Store!StoreInit

\* Every step of the pool is a step of the store or changes nothing there.
LEMMA NextInStore == IInv /\ [Next]_vars => [Store!StoreNext]_(Store!storeVars)
<1> SUFFICES ASSUME IInv, [Next]_vars PROVE [Store!StoreNext]_(Store!storeVars)
  BY ZenonT(30)
<1>0. Stored' = Stored /\ Held' = Held => UNCHANGED Store!storeVars
  <2>1. /\ Stored = [q \in PageId |-> IF q \notin created THEN NotWritten
                                      ELSE IF Find(q) THEN pages[page_table[q]].data_
                                      ELSE disk.file[q]]
        /\ Held = [d \in Client |-> {q \in PageId : Holds(d, q)}]
    BY DEF Stored, Held, ContentOf
  <2>2. /\ Stored' = [q \in PageId |-> IF q \notin created THEN NotWritten
                                       ELSE IF Find(q) THEN pages[page_table[q]].data_
                                       ELSE disk.file[q]]'
        /\ Held' = [d \in Client |-> {q \in PageId : Holds(d, q)}]'
    BY ZenonT(30) DEF Stored, Held, ContentOf
  <2> QED
    BY <2>1, <2>2, ZenonT(30) DEF Store!storeVars
<1>1. CASE UNCHANGED vars
  <2>1. UNCHANGED <<pages, page_table, disk, created, held>>
    BY <1>1 DEF vars
  <2> QED
    BY <1>0, <2>1 DEF Stored, Held, ContentOf, Find, Holds
<1>2. ASSUME NEW c \in Client, NewPage(c)
      PROVE  [Store!StoreNext]_(Store!storeVars)
  BY <1>0, <1>2, NewPageInStore DEF Store!StoreNext
<1>3. ASSUME NEW c \in Client, NEW p \in PageId, FetchPage(c, p)
      PROVE  [Store!StoreNext]_(Store!storeVars)
  BY <1>0, <1>3, FetchPageInStore DEF Store!StoreNext
<1>4. ASSUME NEW c \in Client, NEW p \in PageId, NEW is_dirty \in BOOLEAN,
             UnpinPage(c, p, is_dirty)
      PROVE  [Store!StoreNext]_(Store!storeVars)
  BY <1>4, UnpinPageInStore DEF Store!StoreNext
<1>5. ASSUME NEW c \in Client, NEW p \in PageId, NEW v \in Data, Write(c, p, v)
      PROVE  [Store!StoreNext]_(Store!storeVars)
  BY <1>5, WriteInStore DEF Store!StoreNext
<1>6. ASSUME NEW p \in PageId, FlushPage(p)
      PROVE  [Store!StoreNext]_(Store!storeVars)
  BY <1>0, <1>6, FlushPageInStore
<1>7. ASSUME NEW p \in PageId, DeletePage(p)
      PROVE  [Store!StoreNext]_(Store!storeVars)
  BY <1>0, <1>7, DeletePageInStore DEF Store!StoreNext
<1> QED
  BY <1>1, <1>2, <1>3, <1>4, <1>5, <1>6, <1>7, ZenonT(30) DEF Next, ClientStep

\* The pool of any size, with any clients, is a store of pages that are in memory
\* for good: evictions, write-backs and reloads are not seen.
THEOREM PoolIsAPageStore == Spec => ImplementsPageStore
<1>1. Init => Store!StoreInit
  BY InitInStore
<1>2. IInv /\ [Next]_vars => [Store!StoreNext]_(Store!storeVars)
  BY NextInStore
<1> QED
  BY <1>1, <1>2, PoolIsRight, PTL DEF Spec, ImplementsPageStore, Store!StoreSpec
=============================================================================
