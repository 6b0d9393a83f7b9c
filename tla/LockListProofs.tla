--------------------------- MODULE LockListProofs ---------------------------
(***************************************************************************)
(* What each call does to the request list of one record: it keeps the     *)
(* invariant of the list (ListInv) and leaves the requests of other        *)
(* transactions as they should be.                                         *)
(***************************************************************************)
EXTENDS LockManager, SequenceLemmas, TLAPS

(***************************************************************************)
(* Unlock.                                                                 *)
(***************************************************************************)
\* Granting changes the grant flags only (grated_ = true in Unlock).
LEMMA GrantProperties ==
    ASSUME NEW list \in Seq(TransactionInfo), NEW P
    PROVE  /\ Grant(list, P) \in Seq(TransactionInfo)
           /\ Len(Grant(list, P)) = Len(list)
           /\ \A k \in 1..Len(list) :
                 /\ Grant(list, P)[k].txn_ = list[k].txn_
                 /\ Grant(list, P)[k].lock_type_ = list[k].lock_type_
                 /\ Grant(list, P)[k].grated_ <=> k \in P \/ list[k].grated_
<1>1. DOMAIN list = 1..Len(list) /\ Len(list) \in Nat
  OBVIOUS
<1>2. \A k \in 1..Len(list) : list[k] \in TransactionInfo
  OBVIOUS
<1>3. ASSUME NEW k \in 1..Len(list)
      PROVE  /\ Grant(list, P)[k] \in TransactionInfo
             /\ Grant(list, P)[k].txn_ = list[k].txn_
             /\ Grant(list, P)[k].lock_type_ = list[k].lock_type_
             /\ Grant(list, P)[k].grated_ <=> k \in P \/ list[k].grated_
  <2>1. Grant(list, P)[k] = IF k \in P THEN [list[k] EXCEPT !.grated_ = TRUE] ELSE list[k]
    BY <1>1 DEF Grant
  <2>2. list[k] \in TransactionInfo
    BY <1>2
  <2> QED
    BY <2>1, <2>2, Zenon DEF TransactionInfo
<1>4. DOMAIN Grant(list, P) = 1..Len(list)
  BY <1>1 DEF Grant
<1>5. Grant(list, P) \in [1..Len(list) -> TransactionInfo]
  BY <1>3, <1>4, <1>1, Zenon DEF Grant
<1>6. Grant(list, P) \in Seq(TransactionInfo)
  BY <1>5, <1>1
<1> QED
  BY <1>3, <1>4, <1>6, <1>1

\* The turn passes to position n and, if that is shared, to the shared requests
\* right behind it.
LEMMA LastGrantedProperties ==
    ASSUME NEW list \in Seq(TransactionInfo), NEW n \in 1..Len(list)
    PROVE  LET last == LastGranted(list, n) IN
           /\ last \in n..Len(list)
           /\ list[n].lock_type_ = "SHARED" =>
                 /\ \A j \in n..last : list[j].lock_type_ = "SHARED"
                 /\ last < Len(list) => list[last + 1].lock_type_ = "EXCLUSIVE"
           /\ list[n].lock_type_ # "SHARED" => last = n
<1> DEFINE R == SharedRun(list, n)
<1>1. Len(list) \in Nat /\ \A k \in 1..Len(list) : list[k].lock_type_ \in LockType
  <2>1. \A k \in 1..Len(list) : list[k] \in TransactionInfo
    OBVIOUS
  <2> QED
    BY <2>1 DEF TransactionInfo
<1>2. CASE list[n].lock_type_ # "SHARED"
  BY <1>1, <1>2 DEF LastGranted
<1>3. CASE list[n].lock_type_ = "SHARED"
  <2>1. R \in SUBSET (n..Len(list)) /\ n \in R
    BY <1>1, <1>3 DEF SharedRun
  <2>2. Max(R) \in R /\ \A y \in R : Max(R) >= y
    <3>1. n \in Int /\ Len(list) \in Int /\ R # {}
      BY <2>1, <1>1
    <3> HIDE DEF R
    <3> QED
      BY <2>1, <3>1, MaxProperties, Zenon
  <2>3. LastGranted(list, n) = Max(R)
    BY <1>3 DEF LastGranted
  <2> DEFINE last == LastGranted(list, n)
  <2>4. last \in n..Len(list) /\ \A j \in n..last : list[j].lock_type_ = "SHARED"
    BY <2>2, <2>3 DEF SharedRun
  <2>5. ASSUME last < Len(list), list[last + 1].lock_type_ = "SHARED"
        PROVE  FALSE
    <3>1. last + 1 \in n..Len(list)
      BY <2>4, <2>5, <1>1
    <3>2. \A j \in n..(last + 1) : j \in n..last \/ j = last + 1
      BY <2>4, <1>1, SMTT(30)
    <3>3. last + 1 \in R
      BY <3>1, <3>2, <2>4, <2>5 DEF SharedRun
    <3> QED
      BY <3>3, <2>2, <2>3, <2>4, <1>1
  <2>6. last < Len(list) => list[last + 1].lock_type_ = "EXCLUSIVE"
    BY <2>5, <2>4, <1>1 DEF LockType
  <2> QED
    BY <2>4, <2>6, <1>3
<1> QED
  BY <1>2, <1>3

\* What the elements of a lock list are.
LEMMA ListFacts ==
    ASSUME NEW L \in LockList
    PROVE  /\ L.lock_list_ \in Seq(TransactionInfo)
           /\ Len(L.lock_list_) \in Nat
           /\ DOMAIN L.lock_list_ = 1..Len(L.lock_list_)
           /\ L.list_grant_cnt_ \in Nat
           /\ L.list_lock_type_ \in LockType \union {"EMPTY"}
           /\ \A k \in 1..Len(L.lock_list_) : L.lock_list_[k] \in TransactionInfo
           /\ L.lock_list_ = <<>> <=> Len(L.lock_list_) = 0
<1>1. /\ L.lock_list_ \in Seq(TransactionInfo)
      /\ L.list_grant_cnt_ \in Nat
      /\ L.list_lock_type_ \in LockType \union {"EMPTY"}
  BY DEF LockList
<1>2. \A k \in 1..Len(L.lock_list_) : L.lock_list_[k] \in TransactionInfo
  BY <1>1
<1> QED
  BY <1>1, <1>2

\* What Unlock does to a list, seen request by request: f takes the requests
\* that stay to where they were. They keep their order, transaction and type.
\* New grants are made only when no old one is left, and the one request that
\* may go with the released one is the shared lock of a granted upgrade.
Survives(old, new, i, f) ==
    /\ f \in [1..Len(new) -> 1..Len(old)]
    /\ \A k \in 1..Len(new) : /\ f[k] # i
                              /\ new[k].txn_ = old[f[k]].txn_
                              /\ new[k].lock_type_ = old[f[k]].lock_type_
                              /\ old[f[k]].grated_ => new[k].grated_
    /\ \A k, l \in 1..Len(new) : k < l => f[k] < f[l]
    /\ \A k, l \in 1..Len(new) :
          ~old[f[k]].grated_ /\ new[k].grated_ => ~old[f[l]].grated_
    /\ \A j \in 1..Len(old) : j # i =>
          \/ \E k \in 1..Len(new) : f[k] = j
          \/ /\ old[j].grated_
             /\ \E k \in 1..Len(new) :
                   /\ new[k].txn_ = old[j].txn_
                   /\ new[k].lock_type_ = "EXCLUSIVE"
                   /\ new[k].grated_
                   /\ ~old[f[k]].grated_

\* The result of Unlock on one list.
ReleaseShape(L, N, i) ==
    /\ N \in LockList
    /\ GrantedPrefix(N)
    /\ ListTypeIsRight(N)
    /\ \E f : Survives(L.lock_list_, N.lock_list_, i, f)

\* Unlock of one of several holders, when nobody can be granted a lock yet.
LEMMA PlainRelease ==
    ASSUME NEW L \in LockList, ListInv(L),
           NEW i \in 1..Len(L.lock_list_), i <= L.list_grant_cnt_,
           L.list_grant_cnt_ >= 2,
           L.list_grant_cnt_ = 2 => ~ThirdIsUpgrade(L.lock_list_, i)
    PROVE  ReleaseShape(L, [L EXCEPT !.lock_list_ = RemoveAt(@, i),
                                     !.list_grant_cnt_ = @ - 1], i)
<1> DEFINE old == L.lock_list_
           n == Len(old)
           cnt == L.list_grant_cnt_
           N == [L EXCEPT !.lock_list_ = RemoveAt(@, i), !.list_grant_cnt_ = @ - 1]
           new == RemoveAt(old, i)
           f == [k \in 1..(n - 1) |-> IF k < i THEN k ELSE k + 1]
<1>1. /\ old \in Seq(TransactionInfo) /\ n \in Nat /\ DOMAIN old = 1..n /\ cnt \in Nat
      /\ \A k \in 1..n : old[k] \in TransactionInfo
  BY ListFacts
<1>2. /\ new \in Seq(TransactionInfo) /\ Len(new) = n - 1
      /\ \A k \in 1..(n - 1) : k < i => new[k] = old[k]
      /\ \A k \in 1..(n - 1) : k >= i => new[k] = old[k + 1]
  BY <1>1, RemoveAtProperties, Zenon
<1>3. /\ N \in [lock_list_: {new}, list_lock_type_: LockType \union {"EMPTY"}, list_grant_cnt_: {cnt - 1}]
      /\ N.lock_list_ = new /\ N.list_grant_cnt_ = cnt - 1
      /\ N.list_lock_type_ = L.list_lock_type_
  BY Zenon DEF LockList
<1>4. /\ cnt <= n /\ cnt >= 2 /\ i <= cnt
      /\ \A k \in 1..n : old[k].grated_ <=> k <= cnt
  BY <1>1 DEF ListInv, GrantedPrefix
<1>5. old # <<>>
  BY <1>1, <1>4
<1>6. /\ L.list_lock_type_ = "SHARED"
      /\ \A k \in 1..cnt : old[k].lock_type_ = "SHARED"
      /\ cnt < n => old[cnt + 1].lock_type_ = "EXCLUSIVE"
  BY <1>4, <1>5, <1>1 DEF ListInv, ListTypeIsRight, LockType
<1>7. N.lock_list_ = new /\ N.list_grant_cnt_ = cnt - 1 /\ N.list_lock_type_ = "SHARED"
  BY <1>3, <1>6
<1>8. i \in 1..n /\ (cnt = 2 => ~ThirdIsUpgrade(old, i))
  OBVIOUS
<1> HIDE DEF N, new, f, old, n, cnt
<1>9. N \in LockList
  <2>1. cnt - 1 \in Nat
    BY <1>1, <1>4
  <2> QED
    BY <2>1, <1>2, <1>3 DEF LockList
<1>10. GrantedPrefix(N)
  <2>1. ASSUME NEW k \in 1..(n - 1) PROVE new[k].grated_ <=> k <= cnt - 1
    <3>1. CASE k < i
      BY <3>1, <1>1, <1>2, <1>4, <1>8
    <3>2. CASE k >= i
      <4>1. new[k] = old[k + 1] /\ k + 1 \in 1..n
        BY <3>2, <1>1, <1>2, <1>8
      <4>2. k + 1 <= cnt <=> k <= cnt - 1
        BY <1>1
      <4> QED
        BY <4>1, <4>2, <1>4
    <3> QED
      BY <3>1, <3>2, <1>1, <1>8
  <2>2. DOMAIN new = 1..(n - 1)
    BY <1>2
  <2>3. cnt - 1 <= Len(new) /\ cnt - 1 > 0
    BY <1>1, <1>2, <1>4
  <2> QED
    BY <2>1, <2>2, <2>3, <1>7 DEF GrantedPrefix
<1>11. ListTypeIsRight(N)
  <2>1. ASSUME NEW k \in 1..(cnt - 1) PROVE new[k].lock_type_ = "SHARED"
    <3>1. k \in 1..(n - 1) /\ k \in 1..cnt /\ k + 1 \in 1..cnt
      BY <1>1, <1>4
    <3>2. new[k] = old[k] \/ new[k] = old[k + 1]
      BY <3>1, <1>1, <1>2, <1>8
    <3> QED
      BY <3>1, <3>2, <1>6
  <2>2. ASSUME cnt - 1 < n - 1 PROVE new[(cnt - 1) + 1].lock_type_ = "EXCLUSIVE"
    <3>1. cnt < n /\ cnt \in 1..(n - 1) /\ cnt >= i /\ (cnt - 1) + 1 = cnt
      BY <1>1, <1>4, <2>2
    <3>2. new[cnt] = old[cnt + 1]
      BY <3>1, <1>2
    <3> QED
      BY <3>1, <3>2, <1>6
  <2>3. ASSUME cnt - 1 = 1, cnt - 1 < n - 1 PROVE new[1].txn_ # new[2].txn_
    <3>1. cnt = 2 /\ 2 < n /\ i \in 1..2
      BY <1>1, <1>4, <1>8, <2>3
    <3>2. new[2] = old[3] /\ new[1] = old[3 - i]
      BY <1>1, <1>2, <3>1
    <3>3. old[3].lock_type_ = "EXCLUSIVE" /\ n >= 3
      BY <1>6, <3>1, <1>1
    <3>4. SharedOfThird(old, i) = {}
      BY <3>1, <3>3, <1>8 DEF ThirdIsUpgrade, n
    <3>5. 3 - i \in 1..2 /\ 3 - i # i
      BY <3>1
    <3>6. 3 - i \in DOMAIN old \ {i} /\ old[3 - i].grated_ /\ old[3 - i].lock_type_ = "SHARED"
      BY <3>1, <3>5, <1>1, <1>4, <1>6
    <3> QED
      BY <3>2, <3>4, <3>6 DEF SharedOfThird
  <2> QED
    BY <2>1, <2>2, <2>3, <1>2, <1>7 DEF ListTypeIsRight, LockType
<1>12. Survives(old, new, i, f)
  <2>1. f \in [1..(n - 1) -> 1..n]
    BY <1>1, <1>8 DEF f
  <2>2. \A k \in 1..(n - 1) : f[k] = IF k < i THEN k ELSE k + 1
    BY DEF f
  <2>3. \A k \in 1..(n - 1) : f[k] # i /\ new[k] = old[f[k]]
    BY <2>2, <1>2, <1>1
  <2>4. \A k, l \in 1..(n - 1) : k < l => f[k] < f[l]
    BY <2>2, <1>1
  <2>5. ASSUME NEW j \in 1..n, j # i PROVE \E k \in 1..(n - 1) : f[k] = j
    <3>1. CASE j < i
      <4>1. j \in 1..(n - 1) /\ f[j] = j
        BY <3>1, <2>2, <1>1, <1>8
      <4> QED
        BY <4>1
    <3>2. CASE j > i
      <4>1. j - 1 \in 1..(n - 1) /\ f[j - 1] = j
        BY <3>2, <2>2, <1>1
      <4> QED
        BY <4>1
    <3> QED
      BY <3>1, <3>2, <2>5, <1>1
  <2> QED
    BY <2>1, <2>3, <2>4, <2>5, <1>2, SMTT(30) DEF Survives, n
<1> QED
  BY <1>7, <1>9, <1>10, <1>11, <1>12 DEF ReleaseShape, N, old

\* Unlock of one of two holders when the other one waits for its upgrade: the
\* upgrade is granted in place of both shared locks.
LEMMA UpgradeRelease ==
    ASSUME NEW L \in LockList, ListInv(L),
           NEW i \in 1..Len(L.lock_list_), i <= L.list_grant_cnt_,
           L.list_grant_cnt_ = 2, ThirdIsUpgrade(L.lock_list_, i)
    PROVE  ReleaseShape(L, LeavePair(L, i), i)
<1> DEFINE old == L.lock_list_
           n == Len(old)
           cnt == L.list_grant_cnt_
           k0 == Min(SharedOfThird(old, i))
           G == Grant(old, {3})
           H == RemoveAt(G, 2)
           new == RemoveAt(H, 1)
           f == [m \in 1..(n - 2) |-> m + 2]
           N == LeavePair(L, i)
<1>1. /\ old \in Seq(TransactionInfo) /\ n \in Nat /\ DOMAIN old = 1..n /\ cnt = 2
      /\ \A k \in 1..n : old[k] \in TransactionInfo
  BY ListFacts
<1>2. n >= 3 /\ old[3].lock_type_ = "EXCLUSIVE" /\ SharedOfThird(old, i) # {}
  BY DEF ThirdIsUpgrade
<1>3. i \in 1..2 /\ \A k \in 1..n : old[k].grated_ <=> k <= 2
  BY <1>1 DEF ListInv, GrantedPrefix
<1>4. k0 \in SharedOfThird(old, i)
  <2>1. SharedOfThird(old, i) \in SUBSET Nat
    BY <1>1 DEF SharedOfThird
  <2> QED
    BY <2>1, <1>2, MinProperties
<1>5. k0 \in 1..2 /\ k0 # i /\ old[k0].txn_ = old[3].txn_
  <2>1. k0 \in 1..n /\ k0 # i /\ old[k0].txn_ = old[3].txn_ /\ old[k0].grated_
    <3> HIDE DEF k0, old
    <3> QED
      BY <1>1, <1>4 DEF SharedOfThird
  <2> HIDE DEF k0, old, n
  <2> QED
    BY <2>1, <1>1, <1>3
<1>6. Max({i, k0}) = 2 /\ Min({i, k0}) = 1
  <2>1. {i, k0} = 1..2
    BY <1>3, <1>5
  <2>2. Max(1..2) = 2
    <3>1. 1 \in Int /\ 2 \in Int /\ 1..2 \in SUBSET (1..2) /\ 1..2 # {}
      OBVIOUS
    <3>2. Max(1..2) \in 1..2 /\ \A y \in 1..2 : Max(1..2) >= y
      BY <3>1, MaxProperties, Zenon
    <3>3. Max(1..2) >= 2 /\ Max(1..2) <= 2
      BY <3>2
    <3> QED
      BY <3>2, <3>3
  <2>3. Min(1..2) = 1
    <3>1. 1..2 \in SUBSET Nat /\ 1..2 # {}
      OBVIOUS
    <3>2. Min(1..2) \in 1..2 /\ \A y \in 1..2 : Min(1..2) <= y
      BY <3>1, MinProperties, Zenon
    <3>3. Min(1..2) >= 1 /\ Min(1..2) <= 1
      BY <3>2
    <3> QED
      BY <3>2, <3>3
  <2> QED
    BY <2>1, <2>2, <2>3, Zenon
<1>7. N = [lock_list_ |-> new, list_lock_type_ |-> "EXCLUSIVE", list_grant_cnt_ |-> 1]
  BY <1>1, <1>6 DEF LeavePair
<1> HIDE DEF N, new, H, G, f, old, n, cnt, k0
<1>8. /\ G \in Seq(TransactionInfo) /\ Len(G) = n
      /\ \A k \in 1..n : /\ G[k].txn_ = old[k].txn_
                         /\ G[k].lock_type_ = old[k].lock_type_
                         /\ G[k].grated_ <=> k \in {3} \/ old[k].grated_
  BY <1>1, GrantProperties DEF G, n
<1>9. /\ H \in Seq(TransactionInfo) /\ Len(H) = n - 1
      /\ \A k \in 1..(n - 1) : k >= 2 => H[k] = G[k + 1]
  <2>1. 2 \in 1..Len(G)
    BY <1>1, <1>2, <1>8
  <2> QED
    BY <2>1, <1>8, RemoveAtProperties, Zenon DEF H
<1>10. /\ new \in Seq(TransactionInfo) /\ Len(new) = n - 2
       /\ \A k \in 1..(n - 2) : new[k] = G[k + 2]
  <2>1. 1 \in 1..Len(H) /\ Len(H) - 1 = n - 2
    BY <1>1, <1>2, <1>9
  <2>2. /\ new \in Seq(TransactionInfo) /\ Len(new) = n - 2
        /\ \A k \in 1..(n - 2) : k >= 1 => new[k] = H[k + 1]
    BY <2>1, <1>9, RemoveAtProperties, ZenonT(30) DEF new
  <2>3. ASSUME NEW k \in 1..(n - 2) PROVE new[k] = G[k + 2]
    <3>1. k >= 1 /\ k + 1 \in 1..(n - 1) /\ k + 1 >= 2 /\ (k + 1) + 1 = k + 2
      BY <1>1
    <3> QED
      BY <3>1, <2>2, <1>9
  <2> QED
    BY <2>2, <2>3
<1>11. \A k \in 1..(n - 2) : /\ k + 2 \in 1..n
                             /\ new[k].txn_ = old[k + 2].txn_
                             /\ new[k].lock_type_ = old[k + 2].lock_type_
                             /\ ~old[k + 2].grated_
                             /\ new[k].grated_ <=> k = 1
  <2> TAKE k \in 1..(n - 2)
  <2>1. k + 2 \in 1..n /\ ~(k + 2 <= 2) /\ (k + 2 \in {3} <=> k = 1)
    BY <1>1
  <2> QED
    BY <2>1, <1>10, <1>8, <1>3
<1>12. 1 \in 1..(n - 2) /\ DOMAIN new = 1..(n - 2)
  BY <1>1, <1>2, <1>10
<1>13. N \in LockList
  BY <1>7, <1>10 DEF LockList, LockType
<1>14. N.lock_list_ = new /\ N.list_grant_cnt_ = 1 /\ N.list_lock_type_ = "EXCLUSIVE"
  BY <1>7
<1>15. GrantedPrefix(N)
  <2>1. \A k \in 1..(n - 2) : new[k].grated_ <=> k <= 1
    BY <1>11, <1>1
  <2> QED
    BY <2>1, <1>1, <1>2, <1>10, <1>12, <1>14 DEF GrantedPrefix
<1>16. ListTypeIsRight(N)
  BY <1>11, <1>12, <1>14, <1>2 DEF ListTypeIsRight, LockType
<1>17. Survives(old, new, i, f)
  <2>1. f \in [1..(n - 2) -> 1..n] /\ \A k \in 1..(n - 2) : f[k] = k + 2
    BY <1>1 DEF f
  <2>2. \A k \in 1..(n - 2) : f[k] # i
    BY <2>1, <1>1, <1>3
  <2>3. \A k, l \in 1..(n - 2) : k < l => f[k] < f[l]
    BY <2>1, <1>1
  <2>4. ASSUME NEW j \in 1..n, j # i
        PROVE  \/ \E k \in 1..(n - 2) : f[k] = j
               \/ /\ old[j].grated_
                  /\ \E k \in 1..(n - 2) : /\ new[k].txn_ = old[j].txn_
                                           /\ new[k].lock_type_ = "EXCLUSIVE"
                                           /\ new[k].grated_
                                           /\ ~old[f[k]].grated_
    <3>1. CASE j >= 3
      <4>1. j - 2 \in 1..(n - 2) /\ f[j - 2] = j
        BY <3>1, <2>1, <1>1
      <4> QED
        BY <4>1
    <3>2. CASE j < 3
      <4>1. j = k0 /\ old[j].grated_
        BY <3>2, <2>4, <1>1, <1>3, <1>5
      <4>2. /\ new[1].txn_ = old[3].txn_ /\ new[1].lock_type_ = "EXCLUSIVE"
            /\ new[1].grated_ /\ ~old[f[1]].grated_
        BY <1>11, <1>12, <1>2, <2>1
      <4> QED
        BY <4>1, <4>2, <1>5, <1>12
    <3> QED
      BY <3>1, <3>2, <1>1
  <2>5. \A k \in 1..(n - 2) : /\ new[k].txn_ = old[f[k]].txn_
                              /\ new[k].lock_type_ = old[f[k]].lock_type_
                              /\ ~old[f[k]].grated_
    BY <2>1, <1>11
  <2>6. Len(new) = n - 2 /\ Len(old) = n
    BY <1>10 DEF n
  <2> QED
    BY <2>1, <2>2, <2>3, <2>4, <2>5, <2>6 DEF Survives
<1> QED
  BY <1>13, <1>14, <1>15, <1>16, <1>17 DEF ReleaseShape, N, old

\* Unlock of the last holder: the turn passes to the next requests in the list.
LEMMA LastRelease ==
    ASSUME NEW L \in LockList, ListInv(L),
           NEW i \in 1..Len(L.lock_list_), i <= L.list_grant_cnt_,
           L.list_grant_cnt_ = 1
    PROVE  ReleaseShape(L, PassTurn(L, i), i)
<1> DEFINE old == L.lock_list_
           n == Len(old)
           cnt == L.list_grant_cnt_
           N == PassTurn(L, i)
<1>1. /\ old \in Seq(TransactionInfo) /\ n \in Nat /\ DOMAIN old = 1..n /\ cnt = 1
      /\ \A k \in 1..n : old[k] \in TransactionInfo
  BY ListFacts
<1>2. i = 1 /\ n >= 1 /\ \A k \in 1..n : old[k].grated_ <=> k <= 1
  BY <1>1 DEF ListInv, GrantedPrefix
<1>3. \A k, l \in 1..n : k < l /\ old[k].txn_ = old[l].txn_ => old[k].grated_
  BY <1>1 DEF ListInv, OneRequestEach
<1>4. CASE n = 1
  <2> DEFINE new == RemoveAt(old, 1)
  <2>1. N.lock_list_ = new /\ N.list_grant_cnt_ = 0 /\ N \in LockList
    <3>1. N = [L EXCEPT !.lock_list_ = new, !.list_grant_cnt_ = 0]
      BY <1>1, <1>2, <1>4 DEF PassTurn
    <3>2. new \in Seq(TransactionInfo)
      BY <1>1, <1>2, RemoveAtProperties
    <3> HIDE DEF new, N
    <3> QED
      BY <3>1, <3>2, Zenon DEF LockList
  <2>2. new \in Seq(TransactionInfo) /\ Len(new) = 0
    <3>1. 1 \in 1..Len(old) /\ Len(old) - 1 = 0
      BY <1>1, <1>4
    <3>2. new \in Seq(TransactionInfo) /\ Len(new) = Len(old) - 1
      BY <3>1, <1>1, RemoveAtProperties, Zenon
    <3> QED
      BY <3>1, <3>2, Zenon
  <2>3. new = <<>>
    BY <2>2
  <2> HIDE DEF new, N
  <2>4. GrantedPrefix(N) /\ ListTypeIsRight(N)
    BY <2>1, <2>3 DEF GrantedPrefix, ListTypeIsRight
  <2>5. Survives(old, new, i, [k \in 1..0 |-> 1])
    <3>1. [k \in 1..0 |-> 1] \in [1..0 -> 1..n] /\ 1..0 = {}
      BY <1>1, <1>2
    <3>2. 1..Len(new) = 1..0 /\ \A j \in 1..Len(old) : j = i
      BY <2>2, <1>1, <1>2, <1>4
    <3> QED
      BY <3>1, <3>2, Zenon DEF Survives, n
  <2> QED
    BY <2>1, <2>4, <2>5 DEF ReleaseShape, N, old
<1>5. CASE n > 1
  <2> DEFINE last == LastGranted(old, 2)
             G == Grant(old, 2..last)
             new == RemoveAt(G, 1)
             f == [k \in 1..(n - 1) |-> k + 1]
  <2>1. /\ last \in 2..n
        /\ old[2].lock_type_ = "SHARED" =>
              /\ \A j \in 2..last : old[j].lock_type_ = "SHARED"
              /\ last < n => old[last + 1].lock_type_ = "EXCLUSIVE"
        /\ old[2].lock_type_ # "SHARED" => last = 2
    <3>1. 2 \in 1..n
      BY <1>1, <1>5
    <3> QED
      BY <3>1, <1>1, LastGrantedProperties
  <2>2. ~UpgradePair(old, 2)
    <3>1. ASSUME 2 < n PROVE old[2].txn_ # old[3].txn_
      <4>1. 2 \in 1..n /\ 3 \in 1..n /\ ~old[2].grated_
        BY <3>1, <1>1, <1>2
      <4> QED
        BY <4>1, <1>3
    <3> QED
      BY <3>1 DEF UpgradePair
  <2>3. N = [lock_list_ |-> new, list_lock_type_ |-> old[2].lock_type_,
             list_grant_cnt_ |-> last - 1]
    <3>1. ~(1 + 1 > n) /\ (1 - 1) + (last - 1) = last - 1 /\ 1 + 1 = 2
      BY <1>1, <1>5, <2>1
    <3> HIDE DEF n, last
    <3> QED
      BY <3>1, <1>1, <1>2, <2>2 DEF PassTurn, n, last
  <2>4. old[2] \in TransactionInfo /\ last - 1 \in Nat
    BY <1>1, <1>5, <2>1
  <2>5. old[2].lock_type_ \in LockType
    BY <2>4 DEF TransactionInfo
  <2> HIDE DEF N, new, G, f, last, old, n, cnt
  <2>6. /\ G \in Seq(TransactionInfo) /\ Len(G) = n
        /\ \A k \in 1..n : /\ G[k].txn_ = old[k].txn_
                           /\ G[k].lock_type_ = old[k].lock_type_
                           /\ G[k].grated_ <=> k \in 2..last \/ old[k].grated_
    BY <1>1, GrantProperties, Zenon DEF G, n
  <2>7. /\ new \in Seq(TransactionInfo) /\ Len(new) = n - 1
        /\ \A k \in 1..(n - 1) : new[k] = G[k + 1]
    <3>1. 1 \in 1..Len(G)
      BY <1>1, <1>2, <2>6
    <3>2. /\ new \in Seq(TransactionInfo) /\ Len(new) = Len(G) - 1
          /\ \A k \in 1..(Len(G) - 1) : k >= 1 => new[k] = G[k + 1]
      BY <3>1, <2>6, RemoveAtProperties, Zenon DEF new
    <3>3. \A k \in 1..(n - 1) : k >= 1
      BY <1>1
    <3> QED
      BY <3>2, <3>3, <2>6
  <2>8. \A k \in 1..(n - 1) : /\ k + 1 \in 1..n
                              /\ new[k].txn_ = old[k + 1].txn_
                              /\ new[k].lock_type_ = old[k + 1].lock_type_
                              /\ ~old[k + 1].grated_
                              /\ new[k].grated_ <=> k <= last - 1
    <3> TAKE k \in 1..(n - 1)
    <3>1. k + 1 \in 1..n /\ ~(k + 1 <= 1) /\ (k + 1 \in 2..last <=> k <= last - 1)
      BY <1>1, <2>1
    <3> QED
      BY <3>1, <2>6, <2>7, <1>2
  <2>9. /\ N.lock_list_ = new /\ N.list_grant_cnt_ = last - 1
        /\ N.list_lock_type_ = old[2].lock_type_
        /\ N \in LockList
    BY <2>3, <2>4, <2>5, <2>7 DEF LockList
  <2>10. GrantedPrefix(N)
    <3>1. DOMAIN new = 1..(n - 1) /\ last - 1 <= n - 1 /\ last - 1 > 0
      BY <2>7, <2>1, <1>1
    <3> QED
      BY <3>1, <2>7, <2>8, <2>9 DEF GrantedPrefix
  <2>11. ListTypeIsRight(N)
    <3>1. CASE old[2].lock_type_ = "EXCLUSIVE"
      <4>1. last = 2 /\ 1 \in 1..(n - 1) /\ new[1].lock_type_ = "EXCLUSIVE"
        BY <3>1, <2>1, <2>8, <1>1, <1>5
      <4> QED
        BY <4>1, <3>1, <2>9 DEF ListTypeIsRight, LockType
    <3>2. CASE old[2].lock_type_ = "SHARED"
      <4>1. ASSUME NEW k \in 1..(last - 1) PROVE new[k].lock_type_ = "SHARED"
        <5>1. k \in 1..(n - 1) /\ k + 1 \in 2..last
          BY <2>1, <1>1
        <5> QED
          BY <5>1, <3>2, <2>1, <2>8
      <4>2. ASSUME last - 1 < n - 1
            PROVE  new[(last - 1) + 1].lock_type_ = "EXCLUSIVE"
        <5>1. last < n /\ last \in 1..(n - 1) /\ (last - 1) + 1 = last
          BY <4>2, <2>1, <1>1
        <5> QED
          BY <5>1, <3>2, <2>1, <2>8
      <4>3. ASSUME last - 1 < n - 1, last - 1 = 1
            PROVE  new[1].txn_ # new[2].txn_
        <5>1. /\ 1 \in 1..(n - 1) /\ 2 \in 1..(n - 1) /\ 2 \in 1..n /\ 3 \in 1..n
              /\ 1 + 1 = 2 /\ 2 + 1 = 3
          BY <4>3, <2>1, <1>1
        <5>2. new[1].txn_ = old[2].txn_ /\ new[2].txn_ = old[3].txn_ /\ ~old[2].grated_
          BY <5>1, <2>8
        <5> QED
          BY <5>1, <5>2, <1>3
      <4> QED
        BY <4>1, <4>2, <4>3, <3>2, <2>7, <2>9 DEF ListTypeIsRight, LockType
    <3> QED
      BY <3>1, <3>2, <2>5 DEF LockType
  <2>12. Survives(old, new, i, f)
    <3>1. f \in [1..(n - 1) -> 1..n] /\ \A k \in 1..(n - 1) : f[k] = k + 1
      BY <1>1 DEF f
    <3>2. \A k \in 1..(n - 1) : f[k] # i
      BY <3>1, <1>1, <1>2
    <3>3. \A k, l \in 1..(n - 1) : k < l => f[k] < f[l]
      BY <3>1, <1>1
    <3>4. ASSUME NEW j \in 1..n, j # i PROVE \E k \in 1..(n - 1) : f[k] = j
      <4>1. j - 1 \in 1..(n - 1) /\ f[j - 1] = j
        BY <3>4, <3>1, <1>1, <1>2
      <4> QED
        BY <4>1
    <3>5. \A k \in 1..(n - 1) : /\ new[k].txn_ = old[f[k]].txn_
                                /\ new[k].lock_type_ = old[f[k]].lock_type_
                                /\ ~old[f[k]].grated_
      BY <3>1, <2>8
    <3>6. Len(new) = n - 1 /\ Len(old) = n
      BY <2>7 DEF n
    <3> QED
      BY <3>1, <3>2, <3>3, <3>4, <3>5, <3>6 DEF Survives
  <2> QED
    BY <2>9, <2>10, <2>11, <2>12 DEF ReleaseShape, N, old
<1>6. n = 1 \/ n > 1
  <2> HIDE DEF n
  <2> QED
    BY <1>1, <1>2
<1> QED
  BY <1>4, <1>5, <1>6

\* What Survives says of one request ...
LEMMA SurvivorOf ==
    ASSUME NEW old, NEW new, NEW i, NEW f, Survives(old, new, i, f), NEW k \in 1..Len(new)
    PROVE  /\ f[k] \in 1..Len(old)
           /\ new[k].txn_ = old[f[k]].txn_
           /\ new[k].lock_type_ = old[f[k]].lock_type_
           /\ old[f[k]].grated_ => new[k].grated_
<1>1. f \in [1..Len(new) -> 1..Len(old)]
  BY Zenon DEF Survives
<1>2. f[k] \in 1..Len(old)
  BY <1>1
<1> QED
  BY <1>2, Zenon DEF Survives

\* ... and of two.
LEMMA SurvivorOrder ==
    ASSUME NEW old, NEW new, NEW i, NEW f, Survives(old, new, i, f),
           NEW k \in 1..Len(new), NEW l \in 1..Len(new), k < l
    PROVE  f[k] < f[l]
  BY Zenon DEF Survives

\* Order and uniqueness of the requests survive an Unlock.
LEMMA SurvivorsInOrder ==
    ASSUME NEW L \in LockList, NEW N \in LockList, NEW i \in 1..Len(L.lock_list_),
           WaitDieOrder(L), OneRequestEach(L),
           NEW f, Survives(L.lock_list_, N.lock_list_, i, f)
    PROVE  WaitDieOrder(N) /\ OneRequestEach(N)
<1> DEFINE old == L.lock_list_
           new == N.lock_list_
<1>1. /\ DOMAIN old = 1..Len(old) /\ DOMAIN new = 1..Len(new)
      /\ Len(old) \in Nat /\ Len(new) \in Nat
      /\ \A k \in 1..Len(old) : old[k].txn_ \in Int
  <2>1. \A k \in 1..Len(old) : old[k] \in TransactionInfo
    BY ListFacts
  <2>2. \A k \in 1..Len(old) : old[k].txn_ \in TxnId
    BY <2>1 DEF TransactionInfo
  <2> QED
    BY <2>2, ListFacts DEF TxnId
<1> HIDE DEF old, new
<1>2. ASSUME NEW k \in 1..Len(new), NEW l \in 1..Len(new), k < l
      PROVE  /\ f[k] \in 1..Len(old) /\ f[l] \in 1..Len(old) /\ f[k] < f[l]
             /\ new[k].txn_ = old[f[k]].txn_ /\ new[l].txn_ = old[f[l]].txn_
             /\ new[k].lock_type_ = old[f[k]].lock_type_
             /\ new[l].lock_type_ = old[f[l]].lock_type_
             /\ old[f[k]].grated_ => new[k].grated_
             /\ old[f[l]].grated_ => new[l].grated_
             /\ ~old[f[l]].grated_ /\ new[l].grated_ => ~old[f[k]].grated_
  <2> Survives(old, new, i, f)
    BY Zenon DEF old, new
  <2>1. f[k] \in 1..Len(old) /\ f[l] \in 1..Len(old) /\ f[k] < f[l]
    BY <1>2, SurvivorOf, SurvivorOrder, Zenon
  <2>2. /\ new[k].txn_ = old[f[k]].txn_
        /\ new[k].lock_type_ = old[f[k]].lock_type_
        /\ old[f[k]].grated_ => new[k].grated_
    BY SurvivorOf
  <2>3. /\ new[l].txn_ = old[f[l]].txn_
        /\ new[l].lock_type_ = old[f[l]].lock_type_
        /\ old[f[l]].grated_ => new[l].grated_
    BY SurvivorOf
  <2>4. ~old[f[l]].grated_ /\ new[l].grated_ => ~old[f[k]].grated_
    BY DEF Survives, old, new
  <2> QED
    BY <2>1, <2>2, <2>3, <2>4
<1>3. WaitDieOrder(N)
  <2> SUFFICES ASSUME NEW k \in 1..Len(new), NEW l \in 1..Len(new), k < l,
                      ~new[l].grated_
               PROVE  new[k].txn_ >= new[l].txn_
    BY <1>1 DEF WaitDieOrder, new
  <2>1. \A a, b \in 1..Len(old) : a < b /\ ~old[b].grated_ => old[a].txn_ >= old[b].txn_
    BY <1>1, Zenon DEF WaitDieOrder, old
  <2> QED
    BY <1>2, <2>1, Zenon
<1>4. OneRequestEach(N)
  <2> SUFFICES ASSUME NEW k \in 1..Len(new), NEW l \in 1..Len(new), k < l,
                      new[k].txn_ = new[l].txn_
               PROVE  /\ new[k].grated_ /\ new[k].lock_type_ = "SHARED"
                      /\ ~new[l].grated_ /\ new[l].lock_type_ = "EXCLUSIVE"
    BY <1>1 DEF OneRequestEach, new
  <2>1. \A a, b \in 1..Len(old) : a < b /\ old[a].txn_ = old[b].txn_ =>
           /\ old[a].grated_ /\ old[a].lock_type_ = "SHARED"
           /\ ~old[b].grated_ /\ old[b].lock_type_ = "EXCLUSIVE"
    BY <1>1, Zenon DEF OneRequestEach, old
  <2>2. /\ old[f[k]].grated_ /\ old[f[k]].lock_type_ = "SHARED"
        /\ ~old[f[l]].grated_ /\ old[f[l]].lock_type_ = "EXCLUSIVE"
    <3>1. f[k] \in 1..Len(old) /\ f[l] \in 1..Len(old) /\ f[k] < f[l]
      BY <1>2
    <3>2. old[f[k]].txn_ = old[f[l]].txn_
      BY <1>2, Zenon
    <3> QED
      BY <2>1, <3>1, <3>2, Zenon
  <2> QED
    BY <1>2, <2>2
<1> QED
  BY <1>3, <1>4

\* Unlock keeps the invariant of the list it works on.
LEMMA ReleasedInv ==
    ASSUME NEW L \in LockList, ListInv(L),
           NEW i \in 1..Len(L.lock_list_), L.lock_list_[i].grated_
    PROVE  ReleaseShape(L, Released(L, i), i) /\ ListInv(Released(L, i))
<1> DEFINE cnt == L.list_grant_cnt_
<1>1. i <= cnt /\ i \in 1..Len(L.lock_list_) /\ cnt \in Nat
  BY ListFacts DEF ListInv, GrantedPrefix
<1>2. ReleaseShape(L, Released(L, i), i)
  <2>1. CASE cnt = 1
    BY <2>1, <1>1, LastRelease DEF Released
  <2>2. CASE cnt >= 2
    <3>1. L.lock_list_[i].lock_type_ = "SHARED"
      <4>1. L.lock_list_ # <<>>
        BY <1>1, ListFacts
      <4> QED
        BY <4>1, <1>1, <2>2, ListFacts DEF ListInv, ListTypeIsRight, LockType
    <3>2. CASE cnt = 2 /\ ThirdIsUpgrade(L.lock_list_, i)
      BY <3>1, <3>2, <1>1, UpgradeRelease DEF Released
    <3>3. CASE ~(cnt = 2 /\ ThirdIsUpgrade(L.lock_list_, i))
      <4>1. Released(L, i) = [L EXCEPT !.lock_list_ = RemoveAt(@, i), !.list_grant_cnt_ = @ - 1]
        BY <2>2, <3>1, <3>3, <1>1 DEF Released, LeavePair
      <4> QED
        BY <4>1, <2>2, <3>3, <1>1, PlainRelease, Zenon
    <3> QED
      BY <3>2, <3>3
  <2> QED
    BY <2>1, <2>2, <1>1
<1>3. PICK f : Survives(L.lock_list_, Released(L, i).lock_list_, i, f)
  BY <1>2 DEF ReleaseShape
<1>4. WaitDieOrder(Released(L, i)) /\ OneRequestEach(Released(L, i))
  BY <1>2, <1>3, SurvivorsInOrder DEF ReleaseShape, ListInv
<1> QED
  BY <1>2, <1>4 DEF ReleaseShape, ListInv

\* Who holds what after an Unlock: a transaction that does not wait in the list
\* keeps exactly what it held.
LEMMA ReleaseKeepsHolders ==
    ASSUME NEW L \in LockList, NEW N \in LockList, NEW i \in 1..Len(L.lock_list_),
           NEW f, Survives(L.lock_list_, N.lock_list_, i, f),
           NEW u, u # L.lock_list_[i].txn_, NEW type,
           \A j \in 1..Len(L.lock_list_) : L.lock_list_[j].txn_ = u => L.lock_list_[j].grated_
    PROVE  HoldsIn(N.lock_list_, u, type) <=> HoldsIn(L.lock_list_, u, type)
<1> DEFINE old == L.lock_list_
           new == N.lock_list_
<1>1. DOMAIN old = 1..Len(old) /\ DOMAIN new = 1..Len(new)
  BY ListFacts
<1>2. \A j \in 1..Len(old) : old[j].txn_ = u => old[j].grated_ /\ j # i
  OBVIOUS
<1>3. Survives(old, new, i, f)
  OBVIOUS
<1> HIDE DEF old, new
<1>4. ASSUME NEW k \in 1..Len(new), new[k].txn_ = u, new[k].lock_type_ = type
      PROVE  HoldsIn(old, u, type)
  <2>1. f[k] \in 1..Len(old) /\ old[f[k]].txn_ = u /\ old[f[k]].lock_type_ = type
    BY <1>3, <1>4, SMTT(30) DEF Survives
  <2>2. old[f[k]].grated_
    BY <2>1, <1>2
  <2> QED
    BY <2>1, <2>2, <1>1 DEF HoldsIn
<1>5. ASSUME NEW j \in 1..Len(old), old[j].txn_ = u, old[j].lock_type_ = type
      PROVE  HoldsIn(new, u, type)
  <2>1. old[j].grated_ /\ j # i
    BY <1>2, <1>5
  <2>2. \A k \in 1..Len(new) : new[k].txn_ = u => old[f[k]].grated_
    <3> TAKE k \in 1..Len(new)
    <3>1. f[k] \in 1..Len(old) /\ new[k].txn_ = old[f[k]].txn_
      BY <1>3, SMTT(30) DEF Survives
    <3> QED
      BY <3>1, <1>2, Zenon
  <2>3. PICK k \in 1..Len(new) : f[k] = j
    BY <2>1, <2>2, <1>3, <1>5, Zenon DEF Survives
  <2>4. new[k].txn_ = u /\ new[k].lock_type_ = type /\ new[k].grated_
    BY <2>1, <2>3, <1>3, <1>5 DEF Survives
  <2> QED
    BY <2>4, <1>1 DEF HoldsIn
<1> QED
  BY <1>1, <1>4, <1>5 DEF HoldsIn, old, new

\* The request a blocked call waits with stays in the list until it is granted,
\* and so does the shared lock that an upgrade is to replace.
LEMMA ReleaseKeepsCallers ==
    ASSUME NEW L \in LockList, NEW N \in LockList, NEW i \in 1..Len(L.lock_list_),
           NEW f, Survives(L.lock_list_, N.lock_list_, i, f),
           NEW u, u # L.lock_list_[i].txn_, NEW op,
           \A j \in 1..Len(L.lock_list_) :
              L.lock_list_[j].txn_ = u /\ ~L.lock_list_[j].grated_ =>
                 L.lock_list_[j].lock_type_ = TypeRequested(op),
           AsksIn(L.lock_list_, u, op)
    PROVE  AsksIn(N.lock_list_, u, op)
<1> DEFINE old == L.lock_list_
           new == N.lock_list_
<1>1. DOMAIN old = 1..Len(old) /\ DOMAIN new = 1..Len(new)
  BY ListFacts
<1>2. \A j \in 1..Len(old) : old[j].txn_ = u =>
         j # i /\ (~old[j].grated_ => old[j].lock_type_ = TypeRequested(op))
  OBVIOUS
<1>3. Survives(old, new, i, f)
  OBVIOUS
<1>4. PICK j \in 1..Len(old) :
         /\ old[j].txn_ = u /\ old[j].lock_type_ = TypeRequested(op)
         /\ op = "LockUpgrade" => old[j].grated_ \/ HoldsIn(old, u, "SHARED")
  BY <1>1 DEF AsksIn
<1> HIDE DEF old, new
<1>5. ASSUME NEW k \in 1..Len(new), new[k].txn_ = u, new[k].grated_, ~old[f[k]].grated_
      PROVE  AsksIn(new, u, op)
  <2>1. f[k] \in 1..Len(old) /\ old[f[k]].txn_ = u /\ new[k].lock_type_ = old[f[k]].lock_type_
    BY <1>3, <1>5, SurvivorOf
  <2>2. new[k].lock_type_ = TypeRequested(op)
    BY <2>1, <1>2, <1>5
  <2> QED
    BY <2>2, <1>5, <1>1 DEF AsksIn
<1>6. ASSUME NEW m \in 1..Len(old), old[m].txn_ = u,
             ~\E k \in 1..Len(new) : f[k] = m
      PROVE  AsksIn(new, u, op)
  <2>1. m # i
    BY <1>2, <1>6
  <2>2. PICK k \in 1..Len(new) : new[k].txn_ = u /\ new[k].grated_ /\ ~old[f[k]].grated_
    BY <2>1, <1>3, <1>6, Zenon DEF Survives
  <2> QED
    BY <2>2, <1>5
<1>7. ASSUME NEW k \in 1..Len(new), f[k] = j
      PROVE  AsksIn(new, u, op)
  <2>1. /\ new[k].txn_ = u /\ new[k].lock_type_ = TypeRequested(op)
        /\ old[j].grated_ => new[k].grated_
    BY <1>3, <1>4, <1>7, Zenon DEF Survives
  <2>2. CASE op # "LockUpgrade" \/ old[j].grated_
    BY <2>1, <2>2, <1>1, Zenon DEF AsksIn
  <2>3. CASE op = "LockUpgrade" /\ ~old[j].grated_
    <3>1. PICK m \in 1..Len(old) :
             old[m].txn_ = u /\ old[m].grated_ /\ old[m].lock_type_ = "SHARED"
      BY <2>3, <1>4, <1>1 DEF HoldsIn
    <3>2. CASE \E l \in 1..Len(new) : f[l] = m
      <4>1. PICK l \in 1..Len(new) : f[l] = m
        BY <3>2
      <4>2. new[l].txn_ = u /\ new[l].grated_ /\ new[l].lock_type_ = "SHARED"
        BY <3>1, <4>1, <1>3, Zenon DEF Survives
      <4>3. HoldsIn(new, u, "SHARED")
        BY <4>2, <1>1 DEF HoldsIn
      <4> QED
        BY <4>3, <2>1, <1>1 DEF AsksIn
    <3> QED
      BY <3>1, <3>2, <1>6
  <2> QED
    BY <2>2, <2>3
<1> QED
  BY <1>4, <1>6, <1>7 DEF new

(***************************************************************************)
(* The calls that ask for a lock: a grant, a wait, an upgrade in place.    *)
(***************************************************************************)
\* push_back of a request.
LEMMA AppendFacts ==
    ASSUME NEW list \in Seq(TransactionInfo), NEW e \in TransactionInfo
    PROVE  /\ Append(list, e) \in Seq(TransactionInfo)
           /\ Len(list) \in Nat
           /\ Len(Append(list, e)) = Len(list) + 1
           /\ DOMAIN Append(list, e) = 1..(Len(list) + 1)
           /\ \A k \in 1..Len(list) : Append(list, e)[k] = list[k]
           /\ Append(list, e)[Len(list) + 1] = e
<1>1. Append(list, e) \in Seq(TransactionInfo) /\ Len(Append(list, e)) = Len(list) + 1
  OBVIOUS
<1> QED
  BY <1>1

\* A lock granted at once: to a list without requests, or shared next to shared
\* locks with nobody waiting.
LEMMA GrantAtOnceInv ==
    ASSUME NEW L \in LockList, ListInv(L), NEW t \in TxnId, NEW type \in LockType,
           \A k \in 1..Len(L.lock_list_) : L.lock_list_[k].txn_ # t,
           \/ L.lock_list_ = <<>>
           \/ /\ type = "SHARED" /\ L.list_lock_type_ = "SHARED"
              /\ L.lock_list_ # <<>> /\ L.lock_list_[Len(L.lock_list_)].grated_
    PROVE  LET N == [lock_list_ |-> Append(L.lock_list_, Request(t, TRUE, type)),
                     list_lock_type_ |-> type,
                     list_grant_cnt_ |-> L.list_grant_cnt_ + 1]
           IN  N \in LockList /\ ListInv(N)
<1> DEFINE N == [lock_list_ |-> Append(L.lock_list_, Request(t, TRUE, type)),
                 list_lock_type_ |-> type,
                 list_grant_cnt_ |-> L.list_grant_cnt_ + 1]
           old == L.lock_list_
           n == Len(old)
           e == Request(t, TRUE, type)
           new == Append(old, e)
<1>1. /\ old \in Seq(TransactionInfo) /\ n \in Nat /\ DOMAIN old = 1..n
      /\ L.list_grant_cnt_ \in Nat /\ (old = <<>> <=> n = 0)
  BY ListFacts
<1>2. e \in TransactionInfo /\ e.txn_ = t /\ e.grated_ /\ e.lock_type_ = type
  BY DEF Request, TransactionInfo
<1>3. /\ new \in Seq(TransactionInfo) /\ Len(new) = n + 1 /\ DOMAIN new = 1..(n + 1)
      /\ \A k \in 1..n : new[k] = old[k]
      /\ new[n + 1] = e
  <2> HIDE DEF old, e
  <2> QED
    BY <1>1, <1>2, AppendFacts
<1>4. L.list_grant_cnt_ = n
  BY <1>1 DEF ListInv, GrantedPrefix
<1>5. /\ \A k \in 1..n : old[k].grated_ /\ old[k].txn_ # t
      /\ \A k \in 1..n : type = "SHARED" /\ old[k].lock_type_ = "SHARED"
  <2>1. \A k \in 1..n : old[k].grated_ /\ old[k].txn_ # t
    BY <1>1, <1>4 DEF ListInv, GrantedPrefix
  <2>2. n # 0 => type = "SHARED" /\ \A k \in 1..n : old[k].lock_type_ = "SHARED"
    BY <1>1, <1>4 DEF ListInv, ListTypeIsRight
  <2> QED
    BY <2>1, <2>2, <1>1
<1>6. \A k, l \in 1..n : k < l => old[k].txn_ # old[l].txn_
  BY <1>1, <1>5 DEF ListInv, OneRequestEach
<1>7. N.lock_list_ = new /\ N.list_lock_type_ = type /\ N.list_grant_cnt_ = n + 1
  BY <1>4, Zenon
<1>8. N \in LockList
  <2>1. new \in Seq(TransactionInfo) /\ L.list_grant_cnt_ + 1 \in Nat
    <3> HIDE DEF new
    <3> QED
      BY <1>1, <1>3
  <2>2. N = [lock_list_ |-> new, list_lock_type_ |-> type,
             list_grant_cnt_ |-> L.list_grant_cnt_ + 1]
    OBVIOUS
  <2> HIDE DEF new, N
  <2> QED
    BY <2>1, <2>2 DEF LockList
<1>9. n = 0 \/ (n > 0 /\ type = "SHARED")
  <2>1. n > 0 => 1 \in 1..n
    BY <1>1
  <2> QED
    BY <2>1, <1>1, <1>5
<1> HIDE DEF N, old, n, e, new
<1>10. \A k \in 1..(n + 1) : new[k].grated_ /\ (type = "SHARED" => new[k].lock_type_ = "SHARED")
  BY <1>1, <1>2, <1>3, <1>5
<1>11. \A k, l \in 1..(n + 1) : k < l => new[k].txn_ # new[l].txn_
  <2> TAKE k, l \in 1..(n + 1)
  <2> HAVE k < l
  <2>1. k \in 1..n /\ new[k] = old[k] /\ old[k].txn_ # t
    BY <1>1, <1>3, <1>5
  <2>2. CASE l = n + 1
    BY <2>1, <2>2, <1>2, <1>3
  <2>3. CASE l \in 1..n
    BY <2>1, <2>3, <1>3, <1>6
  <2> QED
    BY <2>2, <2>3, <1>1
<1>12. GrantedPrefix(N)
  BY <1>1, <1>3, <1>7, <1>10 DEF GrantedPrefix
<1>13. ListTypeIsRight(N)
  <2>1. CASE type = "SHARED"
    BY <2>1, <1>1, <1>3, <1>7, <1>10 DEF ListTypeIsRight, LockType
  <2>2. CASE type = "EXCLUSIVE"
    <3>1. n = 0 /\ new[1].lock_type_ = "EXCLUSIVE"
      BY <2>2, <1>2, <1>3, <1>9
    <3> QED
      BY <3>1, <2>2, <1>7 DEF ListTypeIsRight, LockType
  <2> QED
    BY <2>1, <2>2 DEF LockType
<1>14. WaitDieOrder(N) /\ OneRequestEach(N)
  BY <1>3, <1>7, <1>10, <1>11 DEF WaitDieOrder, OneRequestEach
<1> QED
  BY <1>8, <1>12, <1>13, <1>14 DEF ListInv, N

\* A request that waits: it passed the wait-die check, a shared one does not
\* queue where it could be granted, and an upgrade is not alone.
LEMMA WaitInv ==
    ASSUME NEW L \in LockList, ListInv(L), NEW t \in TxnId, NEW type \in LockType,
           L.lock_list_ # <<>>,
           \A k \in 1..Len(L.lock_list_) : L.lock_list_[k].txn_ >= t,
           \A k \in 1..Len(L.lock_list_) : L.lock_list_[k].txn_ = t =>
              /\ L.lock_list_[k].grated_ /\ L.lock_list_[k].lock_type_ = "SHARED"
              /\ type = "EXCLUSIVE" /\ Len(L.lock_list_) > 1,
           L.list_lock_type_ = "SHARED" /\ type = "SHARED" =>
              ~L.lock_list_[Len(L.lock_list_)].grated_
    PROVE  LET N == [L EXCEPT !.lock_list_ = Append(@, Request(t, FALSE, type))]
           IN  N \in LockList /\ ListInv(N)
<1> DEFINE N == [L EXCEPT !.lock_list_ = Append(@, Request(t, FALSE, type))]
           old == L.lock_list_
           n == Len(old)
           cnt == L.list_grant_cnt_
           e == Request(t, FALSE, type)
           new == Append(old, e)
<1>1. /\ old \in Seq(TransactionInfo) /\ n \in Nat /\ DOMAIN old = 1..n
      /\ cnt \in Nat /\ n # 0
  BY ListFacts
<1>2. e \in TransactionInfo /\ e.txn_ = t /\ ~e.grated_ /\ e.lock_type_ = type
  BY DEF Request, TransactionInfo
<1>3. /\ new \in Seq(TransactionInfo) /\ Len(new) = n + 1 /\ DOMAIN new = 1..(n + 1)
      /\ \A k \in 1..n : new[k] = old[k]
      /\ new[n + 1] = e
  <2> HIDE DEF old, e
  <2> QED
    BY <1>1, <1>2, AppendFacts
<1>4. /\ cnt <= n /\ cnt > 0
      /\ \A k \in 1..n : old[k].grated_ <=> k <= cnt
  BY <1>1 DEF ListInv, GrantedPrefix
<1>5. /\ L.list_lock_type_ \in LockType
      /\ L.list_lock_type_ = "EXCLUSIVE" => cnt = 1 /\ old[1].lock_type_ = "EXCLUSIVE"
      /\ L.list_lock_type_ = "SHARED" =>
           /\ \A i \in 1..cnt : old[i].lock_type_ = "SHARED"
           /\ cnt < n => /\ old[cnt + 1].lock_type_ = "EXCLUSIVE"
                         /\ cnt = 1 => old[1].txn_ # old[2].txn_
  BY DEF ListInv, ListTypeIsRight
<1>6. \A k, l \in 1..n : k < l /\ ~old[l].grated_ => old[k].txn_ >= old[l].txn_
  BY <1>1 DEF ListInv, WaitDieOrder
<1>7. \A k, l \in 1..n : k < l /\ old[k].txn_ = old[l].txn_ =>
         /\ old[k].grated_ /\ old[k].lock_type_ = "SHARED"
         /\ ~old[l].grated_ /\ old[l].lock_type_ = "EXCLUSIVE"
  BY <1>1 DEF ListInv, OneRequestEach
<1>8. /\ N.lock_list_ = new /\ N.list_lock_type_ = L.list_lock_type_
      /\ N.list_grant_cnt_ = cnt /\ N \in LockList
  <2>1. new \in Seq(TransactionInfo)
    BY <1>3, Zenon
  <2> HIDE DEF new
  <2> QED
    BY <2>1, Zenon DEF LockList, new
<1>9. /\ \A k \in 1..n : old[k].txn_ >= t
      /\ \A k \in 1..n : old[k].txn_ = t =>
            /\ old[k].grated_ /\ old[k].lock_type_ = "SHARED"
            /\ type = "EXCLUSIVE" /\ n > 1
      /\ L.list_lock_type_ = "SHARED" /\ type = "SHARED" => ~old[n].grated_
  OBVIOUS
<1> HIDE DEF N, old, n, cnt, e, new
<1>10. GrantedPrefix(N)
  <2>1. ASSUME NEW k \in 1..(n + 1) PROVE new[k].grated_ <=> k <= cnt
    <3>1. CASE k \in 1..n
      BY <3>1, <1>3, <1>4
    <3>2. CASE k = n + 1
      <4>1. new[k] = e /\ ~e.grated_
        BY <3>2, <1>2, <1>3
      <4>2. ~(k <= cnt)
        BY <3>2, <1>1, <1>4
      <4> QED
        BY <4>1, <4>2
    <3> QED
      BY <3>1, <3>2, <1>1, SMTT(30)
  <2> QED
    BY <2>1, <1>1, <1>3, <1>4, <1>8 DEF GrantedPrefix
<1>11. ListTypeIsRight(N)
  <2>1. CASE L.list_lock_type_ = "EXCLUSIVE"
    <3>1. 1 \in 1..n
      BY <1>1
    <3>2. new[1].lock_type_ = "EXCLUSIVE" /\ cnt = 1
      BY <3>1, <2>1, <1>3, <1>5
    <3> QED
      BY <3>2, <2>1, <1>8 DEF ListTypeIsRight, LockType
  <2>2. CASE L.list_lock_type_ = "SHARED"
    <3>1. \A k \in 1..cnt : new[k].lock_type_ = "SHARED"
      <4>1. \A k \in 1..cnt : k \in 1..n
        BY <1>1, <1>4
      <4> QED
        BY <4>1, <2>2, <1>3, <1>5
    <3>2. new[cnt + 1].lock_type_ = "EXCLUSIVE"
      <4>1. CASE cnt < n
        <5>1. cnt + 1 \in 1..n
          BY <4>1, <1>1
        <5> QED
          BY <5>1, <4>1, <2>2, <1>3, <1>5
      <4>2. CASE cnt = n
        <5>1. old[n].grated_
          BY <4>2, <1>1, <1>4
        <5>2. type = "EXCLUSIVE"
          BY <5>1, <2>2, <1>9 DEF LockType
        <5> QED
          BY <5>2, <4>2, <1>2, <1>3
      <4> QED
        BY <4>1, <4>2, <1>1, <1>4
    <3>3. ASSUME cnt = 1 PROVE new[1].txn_ # new[2].txn_
      <4>1. 1 \in 1..n /\ new[1] = old[1]
        BY <1>1, <1>3
      <4>2. CASE n > 1
        <5>1. 2 \in 1..n /\ cnt < n
          BY <3>3, <4>2, <1>1
        <5> QED
          BY <5>1, <4>1, <3>3, <2>2, <1>3, <1>5
      <4>3. CASE n = 1
        <5>1. new[2].txn_ = t
          BY <4>3, <1>2, <1>3
        <5> QED
          BY <5>1, <4>1, <4>3, <1>9
      <4> QED
        BY <4>2, <4>3, <1>1
    <3> QED
      BY <3>1, <3>2, <3>3, <2>2, <1>8 DEF ListTypeIsRight, LockType
  <2> QED
    BY <2>1, <2>2, <1>5 DEF LockType
<1>12. WaitDieOrder(N)
  <2>1. ASSUME NEW k \in 1..(n + 1), NEW l \in 1..(n + 1), k < l, ~new[l].grated_
        PROVE  new[k].txn_ >= new[l].txn_
    <3>1. k \in 1..n /\ new[k] = old[k]
      BY <2>1, <1>1, <1>3
    <3>2. CASE l = n + 1
      BY <3>1, <3>2, <1>2, <1>3, <1>9
    <3>3. CASE l \in 1..n
      BY <3>1, <3>3, <2>1, <1>3, <1>6
    <3> QED
      BY <3>2, <3>3, <1>1
  <2> QED
    BY <2>1, <1>3, <1>8 DEF WaitDieOrder
<1>13. OneRequestEach(N)
  <2>1. ASSUME NEW k \in 1..(n + 1), NEW l \in 1..(n + 1), k < l, new[k].txn_ = new[l].txn_
        PROVE  /\ new[k].grated_ /\ new[k].lock_type_ = "SHARED"
               /\ ~new[l].grated_ /\ new[l].lock_type_ = "EXCLUSIVE"
    <3>1. k \in 1..n /\ new[k] = old[k]
      BY <2>1, <1>1, <1>3
    <3>2. CASE l = n + 1
      BY <3>1, <3>2, <2>1, <1>2, <1>3, <1>9
    <3>3. CASE l \in 1..n
      BY <3>1, <3>3, <2>1, <1>3, <1>7
    <3> QED
      BY <3>2, <3>3, <1>1
  <2> QED
    BY <2>1, <1>3, <1>8 DEF OneRequestEach
<1> QED
  BY <1>8, <1>10, <1>11, <1>12, <1>13 DEF ListInv, N

\* The only holder's shared lock becomes exclusive where it is.
LEMMA UpgradeInPlaceListInv ==
    ASSUME NEW L \in LockList, ListInv(L), L.lock_list_ # <<>>,
           L.list_lock_type_ = "SHARED", L.list_grant_cnt_ = 1,
           \A k \in 1..Len(L.lock_list_) :
              L.lock_list_[k].txn_ = L.lock_list_[1].txn_ => L.lock_list_[k].grated_,
           NEW N \in LockList,
           N.lock_list_ = [L.lock_list_ EXCEPT ![1] = [@ EXCEPT !.lock_type_ = "EXCLUSIVE"]],
           N.list_lock_type_ = "EXCLUSIVE",
           N.list_grant_cnt_ = 1
    PROVE  ListInv(N)
<1> DEFINE old == L.lock_list_
           n == Len(old)
           new == N.lock_list_
<1>1. /\ old \in Seq(TransactionInfo) /\ n \in Nat /\ DOMAIN old = 1..n /\ n # 0
      /\ \A k \in 1..n : old[k] \in TransactionInfo
  BY ListFacts
<1>2. \A k \in 1..n : old[k].grated_ <=> k <= 1
  BY <1>1 DEF ListInv, GrantedPrefix
<1>3. \A k, l \in 1..n : k < l /\ ~old[l].grated_ => old[k].txn_ >= old[l].txn_
  BY <1>1 DEF ListInv, WaitDieOrder
<1>4. \A k, l \in 1..n : k < l /\ old[k].txn_ = old[l].txn_ => old[k].grated_
  BY <1>1 DEF ListInv, OneRequestEach
<1>5. \A k \in 1..n : old[k].txn_ = old[1].txn_ => old[k].grated_
  OBVIOUS
<1>6. /\ DOMAIN new = 1..n /\ Len(new) = n
      /\ \A k \in 1..n : k # 1 => new[k] = old[k]
      /\ new[1] = [old[1] EXCEPT !.lock_type_ = "EXCLUSIVE"]
      /\ 1 \in 1..n
  <2>1. 1 \in 1..n
    BY <1>1
  <2>2. new = [old EXCEPT ![1] = [old[1] EXCEPT !.lock_type_ = "EXCLUSIVE"]]
    OBVIOUS
  <2>3. new \in Seq(TransactionInfo)
    BY ListFacts
  <2> HIDE DEF new, old
  <2> QED
    BY <2>1, <2>2, <2>3, <1>1
<1>7. new[1].txn_ = old[1].txn_ /\ new[1].grated_ /\ new[1].lock_type_ = "EXCLUSIVE"
  <2>1. old[1] \in TransactionInfo /\ old[1].grated_
    BY <1>1, <1>2, <1>6
  <2> HIDE DEF new, old
  <2> QED
    BY <2>1, <1>6 DEF TransactionInfo
<1>8. N.lock_list_ = new /\ N.list_lock_type_ = "EXCLUSIVE" /\ N.list_grant_cnt_ = 1
  OBVIOUS
<1> HIDE DEF old, n, new
<1>9. \A k \in 1..n : new[k].txn_ = old[k].txn_ /\ (new[k].grated_ <=> k <= 1)
  <2> TAKE k \in 1..n
  <2>1. CASE k = 1
    BY <2>1, <1>7
  <2>2. CASE k # 1
    BY <2>2, <1>2, <1>6
  <2> QED
    BY <2>1, <2>2
<1>10. GrantedPrefix(N)
  <2>1. N.list_grant_cnt_ <= Len(N.lock_list_) /\ N.list_grant_cnt_ > 0
    BY <1>1, <1>6, <1>8
  <2>2. \A k \in DOMAIN N.lock_list_ : N.lock_list_[k].grated_ <=> k <= N.list_grant_cnt_
    BY <1>6, <1>8, <1>9, Zenon
  <2> QED
    BY <2>1, <2>2, Zenon DEF GrantedPrefix
<1>11. ListTypeIsRight(N)
  BY <1>7, <1>8 DEF ListTypeIsRight, LockType
<1>12. WaitDieOrder(N)
  <2>1. ASSUME NEW k \in 1..n, NEW l \in 1..n, k < l, ~new[l].grated_
        PROVE  new[k].txn_ >= new[l].txn_
    <3>1. ~old[l].grated_ /\ new[k].txn_ = old[k].txn_ /\ new[l].txn_ = old[l].txn_
      BY <2>1, <1>2, <1>9
    <3> QED
      BY <3>1, <2>1, <1>3
  <2> QED
    BY <2>1, <1>6, <1>8, Zenon DEF WaitDieOrder
<1>13. OneRequestEach(N)
  <2>1. ASSUME NEW k \in 1..n, NEW l \in 1..n, k < l, new[k].txn_ = new[l].txn_
        PROVE  FALSE
    <3>1. old[k].txn_ = old[l].txn_
      BY <2>1, <1>9
    <3>2. old[k].grated_
      BY <3>1, <2>1, <1>4
    <3>3. k = 1
      BY <3>2, <1>1, <1>2
    <3>4. old[l].grated_
      BY <3>1, <3>3, <1>5
    <3> QED
      BY <3>3, <3>4, <2>1, <1>1, <1>2
  <2> QED
    BY <2>1, <1>6, <1>8, Zenon DEF OneRequestEach
<1> QED
  BY <1>10, <1>11, <1>12, <1>13 DEF ListInv

\* A request of another transaction does not change what u holds or asks for.
LEMMA AppendOthers ==
    ASSUME NEW list \in Seq(TransactionInfo), NEW e \in TransactionInfo, NEW u, e.txn_ # u
    PROVE  /\ \A type : HoldsIn(Append(list, e), u, type) <=> HoldsIn(list, u, type)
           /\ \A op : AsksIn(list, u, op) => AsksIn(Append(list, e), u, op)
<1> DEFINE new == Append(list, e)
           n == Len(list)
<1>1. /\ n \in Nat /\ DOMAIN list = 1..n /\ DOMAIN new = 1..(n + 1)
      /\ \A k \in 1..n : new[k] = list[k]
      /\ new[n + 1] = e
  BY AppendFacts
<1> HIDE DEF new, n
<1>2. \A k \in 1..n : k \in 1..(n + 1)
  BY <1>1
<1>3. \A k \in 1..(n + 1) : new[k].txn_ = u => k \in 1..n /\ new[k] = list[k]
  <2> TAKE k \in 1..(n + 1)
  <2>1. k \in 1..n \/ k = n + 1
    BY <1>1
  <2> QED
    BY <2>1, <1>1
<1>4. ASSUME NEW type PROVE HoldsIn(new, u, type) <=> HoldsIn(list, u, type)
  BY <1>1, <1>2, <1>3 DEF HoldsIn
<1>5. ASSUME NEW op, AsksIn(list, u, op) PROVE AsksIn(new, u, op)
  <2>1. HoldsIn(new, u, "SHARED") <=> HoldsIn(list, u, "SHARED")
    BY <1>4
  <2>2. PICK k \in 1..n : /\ list[k].txn_ = u /\ list[k].lock_type_ = TypeRequested(op)
                          /\ op = "LockUpgrade" => list[k].grated_ \/ HoldsIn(list, u, "SHARED")
    BY <1>1, <1>5 DEF AsksIn
  <2>3. k \in DOMAIN new /\ new[k] = list[k]
    BY <1>1, <1>2
  <2> QED
    BY <2>1, <2>2, <2>3 DEF AsksIn
<1> QED
  BY <1>4, <1>5 DEF new

\* The caller's locks after a request of its own, its first one in the list.
LEMMA AppendOwn ==
    ASSUME NEW list \in Seq(TransactionInfo), NEW t \in TxnId, NEW type \in LockType,
           \A k \in 1..Len(list) : list[k].txn_ # t
    PROVE  \A ty : HoldsIn(Append(list, Request(t, TRUE, type)), t, ty) <=> ty = type
<1> DEFINE e == Request(t, TRUE, type)
           new == Append(list, e)
<1>1. e \in TransactionInfo /\ e.txn_ = t /\ e.grated_ /\ e.lock_type_ = type
  BY DEF Request, TransactionInfo
<1> HIDE DEF e
<1>2. /\ Len(list) \in Nat /\ DOMAIN new = 1..(Len(list) + 1)
      /\ \A k \in 1..Len(list) : new[k] = list[k]
      /\ new[Len(list) + 1] = e
  BY <1>1, AppendFacts
<1> HIDE DEF new
<1>3. ASSUME NEW ty
      PROVE  HoldsIn(new, t, ty) <=> ty = type
  <2>1. ASSUME ty = type
        PROVE  HoldsIn(new, t, ty)
    <3>1. Len(list) + 1 \in DOMAIN new
      BY <1>2
    <3> QED
      BY <3>1, <2>1, <1>1, <1>2 DEF HoldsIn
  <2>2. ASSUME HoldsIn(new, t, ty)
        PROVE  ty = type
    <3>1. PICK k \in 1..(Len(list) + 1) : new[k].txn_ = t /\ new[k].lock_type_ = ty
      BY <2>2, <1>2 DEF HoldsIn
    <3>2. CASE k \in 1..Len(list)
      BY <3>1, <3>2, <1>2
    <3>3. CASE k = Len(list) + 1
      BY <3>1, <3>3, <1>1, <1>2
    <3> QED
      BY <3>2, <3>3, <1>2
  <2> QED
    BY <2>1, <2>2
<1> QED
  BY <1>3, Zenon DEF new, e

\* A caller that joins the end of the list has its request in the list.
LEMMA AppendAsks ==
    ASSUME NEW list \in Seq(TransactionInfo), NEW t \in TxnId, NEW op,
           op = "LockUpgrade" => HoldsIn(list, t, "SHARED")
    PROVE  AsksIn(Append(list, Request(t, FALSE, TypeRequested(op))), t, op)
<1> DEFINE e == Request(t, FALSE, TypeRequested(op))
           new == Append(list, e)
<1>1. e \in TransactionInfo /\ e.txn_ = t /\ e.lock_type_ = TypeRequested(op)
  BY DEF Request, TransactionInfo, TypeRequested, LockType
<1> HIDE DEF e
<1>2. /\ Len(list) \in Nat /\ DOMAIN new = 1..(Len(list) + 1) /\ DOMAIN list = 1..Len(list)
      /\ \A k \in 1..Len(list) : new[k] = list[k]
      /\ new[Len(list) + 1] = e
  BY <1>1, AppendFacts
<1> HIDE DEF new
<1>3. op = "LockUpgrade" => HoldsIn(new, t, "SHARED")
  <2> SUFFICES ASSUME HoldsIn(list, t, "SHARED")
               PROVE  HoldsIn(new, t, "SHARED")
    OBVIOUS
  <2>1. PICK k \in 1..Len(list) :
          list[k].txn_ = t /\ list[k].grated_ /\ list[k].lock_type_ = "SHARED"
    BY <1>2 DEF HoldsIn
  <2>2. k \in DOMAIN new /\ new[k] = list[k]
    BY <1>2
  <2> QED
    BY <2>1, <2>2 DEF HoldsIn
<1>4. Len(list) + 1 \in DOMAIN new
  BY <1>2
<1>5. AsksIn(new, t, op)
  BY <1>1, <1>2, <1>3, <1>4 DEF AsksIn
<1> QED
  BY <1>5, Zenon DEF new, e

\* The list after an upgrade in place.
Upgraded(list) == [list EXCEPT ![1] = [@ EXCEPT !.lock_type_ = "EXCLUSIVE"]]

\* An upgrade in place changes the first request and no other.
LEMMA UpgradeOthers ==
    ASSUME NEW list \in Seq(TransactionInfo), list # <<>>,
           \A k \in 1..Len(list) : k # 1 => list[k].txn_ # list[1].txn_
    PROVE  LET new == Upgraded(list) IN
           /\ new \in Seq(TransactionInfo)
           /\ Len(new) = Len(list)
           /\ \A k \in 1..Len(list) : /\ new[k].txn_ = list[k].txn_
                                      /\ new[k].grated_ <=> list[k].grated_
                                      /\ k # 1 => new[k] = list[k]
           /\ new[1].lock_type_ = "EXCLUSIVE"
           /\ \A u : u # list[1].txn_ =>
                /\ \A type : HoldsIn(new, u, type) <=> HoldsIn(list, u, type)
                /\ \A op : AsksIn(list, u, op) => AsksIn(new, u, op)
           /\ list[1].grated_ => HoldsIn(new, list[1].txn_, "EXCLUSIVE")
           /\ ~HoldsIn(new, list[1].txn_, "SHARED")
<1> DEFINE new == Upgraded(list)
<1>0. new \in Seq(TransactionInfo)
  <2>1. list[1] \in TransactionInfo /\ 1 \in 1..Len(list)
    OBVIOUS
  <2>2. [list[1] EXCEPT !.lock_type_ = "EXCLUSIVE"] \in TransactionInfo
    BY <2>1 DEF TransactionInfo, LockType
  <2> QED
    BY <2>1, <2>2 DEF Upgraded
<1>1. /\ Len(list) \in Nat /\ Len(list) >= 1 /\ DOMAIN list = 1..Len(list)
      /\ DOMAIN new = 1..Len(list) /\ Len(new) = Len(list)
  BY <1>0 DEF Upgraded
<1>2. ASSUME NEW k \in 1..Len(list), k # 1
      PROVE  new[k] = list[k]
  BY <1>1, <1>2 DEF Upgraded
<1>3. list[1] \in TransactionInfo /\ new[1] = [list[1] EXCEPT !.lock_type_ = "EXCLUSIVE"]
  BY <1>1 DEF Upgraded
<1> HIDE DEF new
<1>4. /\ new[1].txn_ = list[1].txn_ /\ (new[1].grated_ <=> list[1].grated_)
      /\ new[1].lock_type_ = "EXCLUSIVE"
  BY <1>3 DEF TransactionInfo
<1>5. ASSUME NEW u, u # list[1].txn_, NEW type
      PROVE  HoldsIn(new, u, type) <=> HoldsIn(list, u, type)
  <2>1. ASSUME NEW k \in 1..Len(list)
        PROVE  /\ new[k].txn_ = u => new[k] = list[k]
               /\ list[k].txn_ = u => new[k] = list[k]
    BY <1>2, <1>4, <1>5
  <2> QED
    BY <1>1, <2>1, Zenon DEF HoldsIn
<1>6. ASSUME NEW u, u # list[1].txn_, NEW op, AsksIn(list, u, op)
      PROVE  AsksIn(new, u, op)
  <2>1. PICK k \in 1..Len(list) :
          /\ list[k].txn_ = u
          /\ list[k].lock_type_ = TypeRequested(op)
          /\ op = "LockUpgrade" => list[k].grated_ \/ HoldsIn(list, u, "SHARED")
    BY <1>1, <1>6 DEF AsksIn
  <2>2. new[k] = list[k]
    BY <1>2, <1>6, <2>1
  <2>3. HoldsIn(list, u, "SHARED") => HoldsIn(new, u, "SHARED")
    BY <1>5, <1>6
  <2> QED
    BY <1>1, <2>1, <2>2, <2>3, Zenon DEF AsksIn
<1>7. list[1].grated_ => HoldsIn(new, list[1].txn_, "EXCLUSIVE")
  <2>1. 1 \in DOMAIN new
    BY <1>1
  <2> QED
    BY <2>1, <1>4 DEF HoldsIn
<1>8. ~HoldsIn(new, list[1].txn_, "SHARED")
  <2>1. ASSUME NEW k \in 1..Len(list), new[k].txn_ = list[1].txn_
        PROVE  new[k].lock_type_ # "SHARED"
    <3>1. k = 1
      BY <2>1, <1>2
    <3> QED
      BY <3>1, <1>4
  <2> QED
    BY <1>1, <2>1 DEF HoldsIn
<1>9. \A k \in 1..Len(list) : new[k].txn_ = list[k].txn_ /\ (new[k].grated_ <=> list[k].grated_)
  BY <1>2, <1>4
<1> QED
  BY <1>0, <1>1, <1>2, <1>4, <1>5, <1>6, <1>7, <1>8, <1>9 DEF new

\* The request at i, of t, has been granted and t is about to return from the call.
PromiseKept(L, t, op, i) ==
    /\ i \in 1..Len(L.lock_list_)
    /\ L.lock_list_[i].txn_ = t /\ L.lock_list_[i].grated_
    /\ op # "LockShared" => L.lock_list_[i].lock_type_ = "EXCLUSIVE"
    /\ AsksIn(L.lock_list_, t, op)
    /\ \A k \in 1..Len(L.lock_list_) : L.lock_list_[k].txn_ = t /\ ~L.lock_list_[k].grated_ =>
          L.lock_list_[k].lock_type_ = TypeRequested(op)

\* Once the promise of a call is kept, the caller holds what the call asked for,
\* nothing else on the record, and waits for nothing there.
LEMMA WokenHolds ==
    ASSUME NEW L \in LockList, OneRequestEach(L), NEW t, NEW op, NEW i, PromiseKept(L, t, op, i)
    PROVE  /\ \A k \in 1..Len(L.lock_list_) : L.lock_list_[k].txn_ = t => L.lock_list_[k].grated_
           /\ HoldsIn(L.lock_list_, t, "SHARED") <=> op = "LockShared"
           /\ HoldsIn(L.lock_list_, t, "EXCLUSIVE") <=> op # "LockShared"
<1> DEFINE list == L.lock_list_
<1>1. DOMAIN list = 1..Len(list) /\ Len(list) \in Nat
  BY ListFacts
<1> HIDE DEF list
<1>2. \A a, b \in 1..Len(list) : a < b /\ list[a].txn_ = list[b].txn_ =>
           /\ list[a].grated_ /\ list[a].lock_type_ = "SHARED"
           /\ ~list[b].grated_ /\ list[b].lock_type_ = "EXCLUSIVE"
  BY <1>1 DEF OneRequestEach, list
<1>3. i \in 1..Len(list) /\ list[i].txn_ = t /\ list[i].grated_
  BY DEF PromiseKept, list
<1>4. ASSUME NEW k \in 1..Len(list), list[k].txn_ = t, k # i
      PROVE  list[i].lock_type_ = "SHARED" /\ ~list[k].grated_ /\ list[k].lock_type_ = "EXCLUSIVE"
  <2>1. CASE k < i
    BY <2>1, <1>2, <1>3, <1>4
  <2>2. CASE i < k
    BY <2>2, <1>2, <1>3, <1>4
  <2> QED
    BY <2>1, <2>2, <1>3, <1>4, <1>1
<1>5. ASSUME NEW k \in 1..Len(list), list[k].txn_ = t
      PROVE  k = i
  <2> SUFFICES ASSUME k # i
               PROVE  FALSE
    OBVIOUS
  <2>1. list[i].lock_type_ = "SHARED" /\ ~list[k].grated_ /\ list[k].lock_type_ = "EXCLUSIVE"
    BY <1>4, <1>5
  <2>2. list[k].lock_type_ = TypeRequested(op)
    BY <2>1, <1>5 DEF PromiseKept, list
  <2>3. op # "LockShared" => list[i].lock_type_ = "EXCLUSIVE"
    BY DEF PromiseKept, list
  <2> QED
    BY <2>1, <2>2, <2>3 DEF TypeRequested
<1>6. list[i].lock_type_ = TypeRequested(op)
  <2>1. PICK k \in 1..Len(list) : list[k].txn_ = t /\ list[k].lock_type_ = TypeRequested(op)
    BY <1>1 DEF PromiseKept, AsksIn, list
  <2> QED
    BY <2>1, <1>5
<1>7. \A type : HoldsIn(list, t, type) <=> type = TypeRequested(op)
  <2>1. ASSUME NEW type
        PROVE  HoldsIn(list, t, type) <=> type = TypeRequested(op)
    BY <1>1, <1>3, <1>5, <1>6 DEF HoldsIn
  <2> QED
    BY <2>1
<1> QED
  BY <1>3, <1>5, <1>7 DEF TypeRequested, list
=============================================================================
