------------------------- MODULE LockManagerProofs --------------------------
(***************************************************************************)
(* Proofs about the lock manager, for any number of transactions and any   *)
(* set of records. The inductive invariant is IInv, and one lemma per      *)
(* outcome of an action shows that the action preserves it; what becomes   *)
(* of the list of requests is in LockListProofs.                           *)
(***************************************************************************)
EXTENDS LockListProofs

(***************************************************************************)
(* The steps of the lock manager.                                          *)
(***************************************************************************)
IInv == TypeOK /\ LockTableInv

\* find_if in Unlock finds a granted request of the caller.
LEMMA GrantedPositionProperties ==
    ASSUME TypeOK, NEW t \in TxnId, NEW r \in RID, HoldsLock(t, r)
    PROVE  /\ GrantedPosition(t, r) \in 1..Len(Requests(r))
           /\ Requests(r)[GrantedPosition(t, r)].txn_ = t
           /\ Requests(r)[GrantedPosition(t, r)].grated_
<1> DEFINE T == {i \in DOMAIN Requests(r) : Requests(r)[i].txn_ = t /\ Requests(r)[i].grated_}
<1>1. lock_table[r] \in LockList
  BY DEF TypeOK
<1>2. DOMAIN Requests(r) = 1..Len(Requests(r)) /\ Len(Requests(r)) \in Nat
  BY <1>1, ListFacts DEF Requests
<1>3. T \in SUBSET Nat /\ T # {}
  BY <1>2 DEF HoldsLock
<1>4. Min(T) \in T
  BY <1>3, MinProperties
<1> QED
  BY <1>2, <1>4 DEF GrantedPosition

\* What holds of the list of one record.
LEMMA RequestFacts ==
    ASSUME IInv, NEW r \in RID
    PROVE  /\ lock_table[r] \in LockList
           /\ ListInv(lock_table[r])
           /\ Requests(r) = lock_table[r].lock_list_
           /\ Requests(r) \in Seq(TransactionInfo)
           /\ DOMAIN Requests(r) = 1..Len(Requests(r))
           /\ Len(Requests(r)) \in Nat
           /\ \A k \in 1..Len(Requests(r)) : Requests(r)[k].txn_ \in TxnId
<1>1. lock_table[r] \in LockList /\ ListInv(lock_table[r])
  BY DEF IInv, TypeOK, LockTableInv
<1>2. \A k \in 1..Len(Requests(r)) : Requests(r)[k] \in TransactionInfo
  BY <1>1, ListFacts DEF Requests
<1> QED
  BY <1>1, <1>2, ListFacts, Zenon DEF Requests, TransactionInfo

\* Transactions other than the caller: their lock sets still agree with the
\* lists when the caller's request changes one list to N.
LEMMA OthersAgree ==
    ASSUME IInv, NEW t \in TxnId, NEW r \in RID, NEW N,
           lock_table' = [lock_table EXCEPT ![r] = N],
           \A u \in TxnId \ {t} : /\ state'[u] = state[u]
                                  /\ call'[u] = call[u]
                                  /\ shared_lock_set'[u] = shared_lock_set[u]
                                  /\ exclusive_lock_set'[u] = exclusive_lock_set[u],
           \A u \in TxnId \ {t} : call[u] = NoCall \/ call[u].rid # r =>
              \A type : HoldsIn(N.lock_list_, u, type) <=> HoldsIn(Requests(r), u, type),
           \A u \in TxnId \ {t} : /\ call[u] # NoCall /\ call[u].rid = r
                                  /\ AsksIn(Requests(r), u, call[u].op)
                                  => AsksIn(N.lock_list_, u, call[u].op)
    PROVE  \A u \in TxnId \ {t} : state'[u] = "GROWING" => \A s \in RID : SetsAgree(u, s)'
<1> SUFFICES ASSUME NEW u \in TxnId \ {t}, state'[u] = "GROWING", NEW s \in RID
             PROVE  SetsAgree(u, s)'
  OBVIOUS
<1>1. SetsAgree(u, s)
  BY DEF IInv, LockTableInv
<1>2. Requests(s)' = IF s = r THEN N.lock_list_ ELSE Requests(s)
  BY DEF Requests, IInv, TypeOK
<1>3. CASE s # r
  BY <1>1, <1>2, <1>3 DEF SetsAgree
<1>4. CASE s = r
  <2>1. CASE call[u] = NoCall \/ call[u].rid # r
    BY <1>1, <1>2, <1>4, <2>1 DEF SetsAgree
  <2>2. CASE ~(call[u] = NoCall \/ call[u].rid # r)
    BY <1>1, <1>2, <1>4, <2>2 DEF SetsAgree
  <2> QED
    BY <2>1, <2>2
<1> QED
  BY <1>3, <1>4

\* What a growing transaction that is not blocked has in the list of a record
\* that it does not hold shared: nothing, or the exclusive lock.
LEMMA OwnRequests ==
    ASSUME IInv, NEW t \in TxnId, NEW r \in RID, call[t] = NoCall, state[t] = "GROWING"
    PROVE  /\ \A k \in 1..Len(Requests(r)) : Requests(r)[k].txn_ = t => Requests(r)[k].grated_
           /\ r \notin shared_lock_set[t] =>
                \A k \in 1..Len(Requests(r)) : Requests(r)[k].txn_ = t =>
                    /\ Requests(r)[k].lock_type_ = "EXCLUSIVE"
                    /\ k = 1 /\ lock_table[r].list_lock_type_ = "EXCLUSIVE"
                    /\ r \in exclusive_lock_set[t]
<1>1. SetsAgree(t, r) /\ WaitersAreBlocked(r)
  BY DEF IInv, LockTableInv
<1>2. ASSUME NEW k \in 1..Len(Requests(r)), Requests(r)[k].txn_ = t
      PROVE  Requests(r)[k].grated_
  BY <1>1, <1>2, RequestFacts DEF WaitersAreBlocked
<1>3. ASSUME r \notin shared_lock_set[t], NEW k \in 1..Len(Requests(r)), Requests(r)[k].txn_ = t
      PROVE  /\ Requests(r)[k].lock_type_ = "EXCLUSIVE"
             /\ k = 1 /\ lock_table[r].list_lock_type_ = "EXCLUSIVE"
             /\ r \in exclusive_lock_set[t]
  <2>1. Requests(r)[k].lock_type_ # "SHARED"
    BY <1>1, <1>2, <1>3, RequestFacts DEF SetsAgree, HoldsIn
  <2>2. Requests(r)[k].lock_type_ = "EXCLUSIVE"
    <3>1. Requests(r)[k] \in TransactionInfo
      BY RequestFacts, ListFacts
    <3> QED
      BY <3>1, <2>1 DEF TransactionInfo, LockType
  <2>3. r \in exclusive_lock_set[t]
    BY <1>1, <1>2, <1>3, <2>2, RequestFacts DEF SetsAgree, HoldsIn
  <2>4. k <= lock_table[r].list_grant_cnt_ /\ Requests(r) # <<>>
    BY <1>2, <1>3, RequestFacts, ListFacts DEF ListInv, GrantedPrefix
  <2>5. lock_table[r].list_lock_type_ = "EXCLUSIVE" /\ lock_table[r].list_grant_cnt_ = 1
    BY <2>2, <2>4, RequestFacts, ListFacts DEF ListInv, ListTypeIsRight, LockType
  <2> QED
    BY <2>2, <2>3, <2>4, <2>5, RequestFacts
<1> QED
  BY <1>2, <1>3

\* A step of the unblocked caller t on the list of r, which becomes N. It leaves
\* the other transactions alone and their locks and requests in place, adds no
\* waiter but t, and changes t's lock sets for r only.
StepOn(t, r, N) ==
    /\ lock_table' = [lock_table EXCEPT ![r] = N]
    /\ state' \in [TxnId -> TransactionState]
    /\ shared_lock_set' \in [TxnId -> SUBSET RID]
    /\ exclusive_lock_set' \in [TxnId -> SUBSET RID]
    /\ call' \in [TxnId -> {NoCall} \union BlockedCall]
    /\ crashed' = crashed
    /\ \A u \in TxnId \ {t} : /\ state'[u] = state[u]
                              /\ call'[u] = call[u]
                              /\ shared_lock_set'[u] = shared_lock_set[u]
                              /\ exclusive_lock_set'[u] = exclusive_lock_set[u]
    /\ \A u \in TxnId \ {t} : call[u] = NoCall \/ call[u].rid # r =>
          \A type : HoldsIn(N.lock_list_, u, type) <=> HoldsIn(Requests(r), u, type)
    /\ \A u \in TxnId \ {t} : /\ call[u] # NoCall /\ call[u].rid = r
                              /\ AsksIn(Requests(r), u, call[u].op)
                              => AsksIn(N.lock_list_, u, call[u].op)
    /\ \A k \in 1..Len(N.lock_list_) : ~N.lock_list_[k].grated_ =>
          \/ \E j \in 1..Len(Requests(r)) :
                /\ ~Requests(r)[j].grated_
                /\ Requests(r)[j].txn_ = N.lock_list_[k].txn_
                /\ Requests(r)[j].lock_type_ = N.lock_list_[k].lock_type_
          \/ /\ N.lock_list_[k].txn_ = t
             /\ call'[t] # NoCall /\ call'[t].rid = r
             /\ TypeRequested(call'[t].op) = N.lock_list_[k].lock_type_
    /\ \A s \in RID \ {r} : /\ s \in shared_lock_set'[t] <=> s \in shared_lock_set[t]
                            /\ s \in exclusive_lock_set'[t] <=> s \in exclusive_lock_set[t]
    /\ call'[t] # NoCall => state'[t] = "GROWING" /\ call'[t].rid = r
    /\ state'[t] = "GROWING" => state[t] = "GROWING" /\ SetsAgree(t, r)'

\* What a step of t never does: take a lock from another transaction that is not
\* blocked, or give it one.
OthersHold(t) ==
    \A u \in TxnId \ {t} : call[u] = NoCall =>
        \A s \in RID : \A type \in LockType :
            HoldsIn(Requests(s), u, type)' <=> HoldsIn(Requests(s), u, type)

\* A step that leaves the lock table alone does neither.
LEMMA SameTable ==
    ASSUME NEW t \in TxnId, lock_table' = lock_table
    PROVE  OthersHold(t)
<1>1. \A s \in RID : Requests(s)' = Requests(s)
  BY DEF Requests
<1> QED
  BY <1>1 DEF OthersHold, HoldsIn

\* A step on one list preserves the inductive invariant and leaves the others'
\* locks alone.
LEMMA ListStep ==
    ASSUME IInv, NEW t \in TxnId, NEW r \in RID, call[t] = NoCall,
           NEW N \in LockList, ListInv(N), StepOn(t, r, N)
    PROVE  IInv' /\ OthersHold(t)
<1>1. TypeOK'
  BY DEF IInv, TypeOK, StepOn
<1>2. ASSUME NEW s \in RID
      PROVE  /\ s # r => lock_table'[s] = lock_table[s] /\ Requests(s)' = Requests(s)
             /\ s = r => lock_table'[s] = N /\ Requests(s)' = N.lock_list_
  BY DEF Requests, IInv, TypeOK, StepOn
<1>3. ASSUME NEW s \in RID
      PROVE  ListInv(lock_table'[s])
  BY <1>2, RequestFacts
<1>4. ASSUME NEW s \in RID, NEW j \in 1..Len(Requests(s)), ~Requests(s)[j].grated_
      PROVE  LET c == call'[Requests(s)[j].txn_] IN
             c # NoCall /\ c.rid = s /\ TypeRequested(c.op) = Requests(s)[j].lock_type_
  <2>1. WaitersAreBlocked(s) /\ Requests(s)[j].txn_ \in TxnId
    BY RequestFacts DEF IInv, LockTableInv
  <2>2. LET c == call[Requests(s)[j].txn_] IN
        c # NoCall /\ c.rid = s /\ TypeRequested(c.op) = Requests(s)[j].lock_type_
    BY <2>1, <1>4, RequestFacts, Zenon DEF WaitersAreBlocked
  <2>3. call'[Requests(s)[j].txn_] = call[Requests(s)[j].txn_]
    BY <2>1, <2>2 DEF StepOn
  <2> QED
    BY <2>2, <2>3
<1>5. ASSUME NEW s \in RID
      PROVE  WaitersAreBlocked(s)'
  <2>1. CASE s # r
    <3>1. Requests(s)' = Requests(s)
      BY <1>2, <2>1
    <3> QED
      BY <3>1, <1>4, RequestFacts DEF WaitersAreBlocked
  <2>2. CASE s = r
    <3>1. Requests(s)' = N.lock_list_ /\ DOMAIN N.lock_list_ = 1..Len(N.lock_list_)
      BY <1>2, <2>2, ListFacts
    <3>2. SUFFICES ASSUME NEW k \in 1..Len(N.lock_list_), ~N.lock_list_[k].grated_
                   PROVE  LET c == call'[N.lock_list_[k].txn_] IN
                          /\ c # NoCall /\ c.rid = r
                          /\ TypeRequested(c.op) = N.lock_list_[k].lock_type_
      BY <2>2, <3>1 DEF WaitersAreBlocked
    <3>3. \/ \E j \in 1..Len(Requests(r)) :
                /\ ~Requests(r)[j].grated_
                /\ Requests(r)[j].txn_ = N.lock_list_[k].txn_
                /\ Requests(r)[j].lock_type_ = N.lock_list_[k].lock_type_
          \/ /\ N.lock_list_[k].txn_ = t
             /\ call'[t] # NoCall /\ call'[t].rid = r
             /\ TypeRequested(call'[t].op) = N.lock_list_[k].lock_type_
      BY <3>2, Zenon DEF StepOn
    <3>4. ASSUME NEW j \in 1..Len(Requests(r)), ~Requests(r)[j].grated_,
                 Requests(r)[j].txn_ = N.lock_list_[k].txn_,
                 Requests(r)[j].lock_type_ = N.lock_list_[k].lock_type_
          PROVE  LET c == call'[N.lock_list_[k].txn_] IN
                 /\ c # NoCall /\ c.rid = r
                 /\ TypeRequested(c.op) = N.lock_list_[k].lock_type_
      <4>1. LET c == call'[Requests(r)[j].txn_] IN
            c # NoCall /\ c.rid = r /\ TypeRequested(c.op) = Requests(r)[j].lock_type_
        BY <1>4, <3>4, Zenon
      <4> QED
        BY <4>1, <3>4, Zenon
    <3> QED
      BY <3>3, <3>4, Zenon
  <2> QED
    BY <2>1, <2>2
<1>6. ASSUME NEW u \in TxnId, call'[u] # NoCall
      PROVE  state'[u] = "GROWING"
  BY <1>6 DEF IInv, LockTableInv, StepOn
<1>7. \A u \in TxnId \ {t} : state'[u] = "GROWING" => \A s \in RID : SetsAgree(u, s)'
  BY OthersAgree, Zenon DEF StepOn
<1>8. ASSUME state'[t] = "GROWING", NEW s \in RID
      PROVE  SetsAgree(t, s)'
  <2>1. CASE s = r
    BY <1>8, <2>1 DEF StepOn
  <2>2. CASE s # r
    <3>1. SetsAgree(t, s)
      BY <1>8 DEF IInv, LockTableInv, StepOn
    <3>2. Requests(s)' = Requests(s)
      BY <1>2, <2>2
    <3> QED
      BY <2>2, <3>1, <3>2 DEF SetsAgree, StepOn
  <2> QED
    BY <2>1, <2>2
<1>9. ~Strict => ~crashed'
  BY DEF IInv, LockTableInv, StepOn
<1>10. ASSUME NEW u \in TxnId \ {t}, call[u] = NoCall, NEW s \in RID, NEW type \in LockType
       PROVE  HoldsIn(Requests(s), u, type)' <=> HoldsIn(Requests(s), u, type)
  <2>1. CASE s # r
    <3>1. Requests(s)' = Requests(s)
      BY <1>2, <2>1
    <3> QED
      BY <3>1 DEF HoldsIn
  <2>2. CASE s = r
    <3>1. Requests(s)' = N.lock_list_
      BY <1>2, <2>2
    <3>2. HoldsIn(N.lock_list_, u, type) <=> HoldsIn(Requests(r), u, type)
      BY <1>10 DEF StepOn
    <3> QED
      BY <2>2, <3>1, <3>2 DEF HoldsIn
  <2> QED
    BY <2>1, <2>2
<1> QED
  BY <1>1, <1>3, <1>5, <1>6, <1>7, <1>8, <1>9, <1>10, Zenon DEF IInv, LockTableInv, OthersHold

\* A lock granted at once, shared or exclusive, to a growing transaction that
\* has no request in the list.
LEMMA GrantStep ==
    ASSUME IInv, NEW t \in TxnId, NEW r \in RID, call[t] = NoCall, state[t] = "GROWING",
           \A k \in 1..Len(Requests(r)) : Requests(r)[k].txn_ # t,
           \/ GrantExclusive(t, r) /\ Requests(r) = <<>>
           \/ /\ GrantShared(t, r)
              /\ \/ Requests(r) = <<>>
                 \/ /\ lock_table[r].list_lock_type_ = "SHARED"
                    /\ Requests(r) # <<>> /\ Requests(r)[Len(Requests(r))].grated_
    PROVE  IInv' /\ OthersHold(t)
<1> DEFINE list == Requests(r)
           e(type) == Request(t, TRUE, type)
           N(type) == [lock_list_ |-> Append(lock_table[r].lock_list_, e(type)),
                       list_lock_type_ |-> type,
                       list_grant_cnt_ |-> lock_table[r].list_grant_cnt_ + 1]
<1>1. PICK type \in LockType :
        /\ lock_table' = [lock_table EXCEPT ![r] = N(type)]
        /\ type = "EXCLUSIVE" => /\ list = <<>>
                                 /\ exclusive_lock_set' = [exclusive_lock_set EXCEPT ![t] = @ \union {r}]
                                 /\ shared_lock_set' = shared_lock_set
        /\ type = "SHARED" => /\ shared_lock_set' = [shared_lock_set EXCEPT ![t] = @ \union {r}]
                              /\ exclusive_lock_set' = exclusive_lock_set
                              /\ \/ list = <<>>
                                 \/ /\ lock_table[r].list_lock_type_ = "SHARED"
                                    /\ list # <<>> /\ list[Len(list)].grated_
        /\ UNCHANGED <<state, call, crashed>>
  <2>1. CASE GrantExclusive(t, r) /\ Requests(r) = <<>>
    BY <2>1 DEF GrantExclusive, PushGranted, LockType
  <2>2. CASE /\ GrantShared(t, r)
             /\ \/ Requests(r) = <<>>
                \/ /\ lock_table[r].list_lock_type_ = "SHARED"
                   /\ Requests(r) # <<>> /\ Requests(r)[Len(Requests(r))].grated_
    BY <2>2 DEF GrantShared, PushGranted, LockType
  <2> QED
    BY <2>1, <2>2, Zenon
<1>2. /\ list = lock_table[r].lock_list_ /\ list \in Seq(TransactionInfo)
      /\ lock_table[r] \in LockList /\ ListInv(lock_table[r])
      /\ DOMAIN list = 1..Len(list) /\ Len(list) \in Nat
  BY RequestFacts
<1>3. e(type) \in TransactionInfo /\ e(type).txn_ = t /\ e(type).grated_
  BY DEF Request, TransactionInfo
<1>4. N(type) \in LockList /\ ListInv(N(type))
  <2> HIDE DEF list
  <2> QED
    BY <1>1, <1>2, GrantAtOnceInv, Zenon DEF LockType, list
<1>5. N(type).lock_list_ = Append(list, e(type))
  BY <1>2, Zenon
<1> HIDE DEF N, list
<1>6. \A u \in TxnId \ {t} :
        /\ \A ty : HoldsIn(N(type).lock_list_, u, ty) <=> HoldsIn(list, u, ty)
        /\ \A op : AsksIn(list, u, op) => AsksIn(N(type).lock_list_, u, op)
  <2> HIDE DEF e
  <2> TAKE u \in TxnId \ {t}
  <2>1. /\ \A ty : HoldsIn(Append(list, e(type)), u, ty) <=> HoldsIn(list, u, ty)
        /\ \A op : AsksIn(list, u, op) => AsksIn(Append(list, e(type)), u, op)
    BY <1>2, <1>3, AppendOthers, Zenon
  <2> QED
    BY <1>5, <2>1
<1>7. \A ty : HoldsIn(N(type).lock_list_, t, ty) <=> ty = type
  <2>1. \A k \in 1..Len(list) : list[k].txn_ # t
    BY DEF list
  <2>2. \A ty : HoldsIn(Append(list, Request(t, TRUE, type)), t, ty) <=> ty = type
    BY <1>2, <2>1, AppendOwn, Zenon
  <2> QED
    BY <1>5, <2>2, Zenon
<1>8. \A k \in 1..Len(N(type).lock_list_) : ~N(type).lock_list_[k].grated_ =>
        \E j \in 1..Len(list) : /\ ~list[j].grated_
                                /\ list[j].txn_ = N(type).lock_list_[k].txn_
                                /\ list[j].lock_type_ = N(type).lock_list_[k].lock_type_
  <2>1. /\ Len(N(type).lock_list_) = Len(list) + 1
        /\ \A k \in 1..Len(list) : N(type).lock_list_[k] = list[k]
        /\ N(type).lock_list_[Len(list) + 1] = e(type)
    <3> HIDE DEF e
    <3> QED
      BY <1>2, <1>3, <1>5, AppendFacts
  <2> HIDE DEF e
  <2> TAKE k \in 1..Len(N(type).lock_list_)
  <2>2. k \in 1..Len(list) \/ k = Len(list) + 1
    BY <2>1, <1>2
  <2> QED
    BY <2>1, <2>2, <1>3
<1> HIDE DEF e
<1>9. SetsAgree(t, r)'
  <2>1. Requests(r)' = N(type).lock_list_
    BY <1>1 DEF Requests, IInv, TypeOK
  <2>2. r \notin shared_lock_set[t] /\ r \notin exclusive_lock_set[t]
    <3>1. SetsAgree(t, r)
      BY DEF IInv, LockTableInv
    <3> QED
      BY <3>1, <1>2 DEF SetsAgree, HoldsIn, list
  <2>3. /\ r \in exclusive_lock_set'[t] <=> type = "EXCLUSIVE"
        /\ r \in shared_lock_set'[t] <=> type = "SHARED"
    BY <1>1, <2>2 DEF IInv, TypeOK, LockType
  <2>4. call'[t] = NoCall
    BY <1>1
  <2> QED
    BY <1>7, <2>1, <2>3, <2>4, Zenon DEF SetsAgree
<1>10. /\ state' \in [TxnId -> TransactionState]
       /\ shared_lock_set' \in [TxnId -> SUBSET RID]
       /\ exclusive_lock_set' \in [TxnId -> SUBSET RID]
       /\ call' \in [TxnId -> {NoCall} \union BlockedCall]
  BY <1>1 DEF IInv, TypeOK, LockType
<1>11. \A u \in TxnId \ {t} : /\ state'[u] = state[u]
                              /\ call'[u] = call[u]
                              /\ shared_lock_set'[u] = shared_lock_set[u]
                              /\ exclusive_lock_set'[u] = exclusive_lock_set[u]
  BY <1>1 DEF IInv, TypeOK, LockType
<1>12. \A s \in RID \ {r} : /\ s \in shared_lock_set'[t] <=> s \in shared_lock_set[t]
                            /\ s \in exclusive_lock_set'[t] <=> s \in exclusive_lock_set[t]
  BY <1>1, ZenonT(30) DEF IInv, TypeOK, LockType
<1>13. StepOn(t, r, N(type))
  BY <1>1, <1>6, <1>8, <1>9, <1>10, <1>11, <1>12, Zenon DEF StepOn, list
<1> QED
  BY <1>4, <1>13, ListStep

\* The caller joins the list and blocks, or dies.
LEMMA WaitOrDieStep ==
    ASSUME IInv, NEW t \in TxnId, NEW r \in RID, call[t] = NoCall, state[t] = "GROWING",
           NEW op \in {"LockShared", "LockExclusive", "LockUpgrade"},
           WaitOrDie(t, r, TypeRequested(op), op),
           Requests(r) # <<>>,
           r \notin exclusive_lock_set[t],
           op = "LockUpgrade" <=> r \in shared_lock_set[t],
           op = "LockUpgrade" => ~(/\ lock_table[r].list_lock_type_ = "SHARED"
                                   /\ lock_table[r].list_grant_cnt_ = 1),
           op = "LockShared" /\ lock_table[r].list_lock_type_ = "SHARED" =>
               ~Requests(r)[Len(Requests(r))].grated_
    PROVE  IInv' /\ OthersHold(t)
<1> DEFINE list == Requests(r)
           type == TypeRequested(op)
           e == Request(t, FALSE, type)
           N == [lock_table[r] EXCEPT !.lock_list_ = Append(@, e)]
<1>1. /\ list = lock_table[r].lock_list_ /\ list \in Seq(TransactionInfo)
      /\ lock_table[r] \in LockList /\ ListInv(lock_table[r])
      /\ DOMAIN list = 1..Len(list) /\ Len(list) \in Nat
      /\ list # <<>>
  BY RequestFacts
<1>2. SetsAgree(t, r)
  BY DEF IInv, LockTableInv
<1>3. CASE ~CheckForWaitDie(t, r)
  <2>1. /\ state' = [state EXCEPT ![t] = "ABORTED"]
        /\ UNCHANGED <<lock_table, shared_lock_set, exclusive_lock_set, call, crashed>>
    BY <1>3, Zenon DEF WaitOrDie
  <2>2. TypeOK'
    BY <2>1 DEF IInv, TypeOK, TransactionState
  <2>3. \A s \in RID : ListInv(lock_table'[s]) /\ WaitersAreBlocked(s)'
    <3>1. ASSUME NEW s \in RID PROVE ListInv(lock_table'[s])
      BY <2>1 DEF IInv, LockTableInv
    <3>2. ASSUME NEW s \in RID PROVE WaitersAreBlocked(s)'
      <4>1. WaitersAreBlocked(s)
        BY DEF IInv, LockTableInv
      <4> QED
        BY <2>1, <4>1, Zenon DEF WaitersAreBlocked, Requests
    <3> QED
      BY <3>1, <3>2, Zenon
  <2>4. \A u \in TxnId : call'[u] # NoCall => state'[u] = "GROWING"
    BY <2>1 DEF IInv, LockTableInv, TypeOK
  <2>5. \A u \in TxnId : state'[u] = "GROWING" => state[u] = "GROWING"
    BY <2>1, Zenon DEF IInv, TypeOK
  <2>6. ASSUME NEW u \in TxnId, NEW s \in RID, SetsAgree(u, s)
        PROVE  SetsAgree(u, s)'
    BY <2>1, <2>6 DEF SetsAgree, Requests
  <2> QED
    BY <2>1, <2>2, <2>3, <2>4, <2>5, <2>6, SameTable DEF IInv, LockTableInv
<1>4. CASE CheckForWaitDie(t, r)
  <2>1. /\ lock_table' = [lock_table EXCEPT ![r] = N]
        /\ call' = [call EXCEPT ![t] = [op |-> op, rid |-> r]]
        /\ UNCHANGED <<state, shared_lock_set, exclusive_lock_set, crashed>>
    BY <1>4, Zenon DEF WaitOrDie
  <2>2. e \in TransactionInfo /\ e.txn_ = t /\ e.lock_type_ = type /\ ~e.grated_
    BY DEF Request, TransactionInfo, TypeRequested, LockType
  <2>3. \A k \in 1..Len(list) : list[k].txn_ >= t
    BY <1>1, <1>4 DEF CheckForWaitDie
  <2>4. ASSUME NEW k \in 1..Len(list), list[k].txn_ = t
        PROVE  /\ list[k].grated_ /\ list[k].lock_type_ = "SHARED"
               /\ type = "EXCLUSIVE" /\ Len(list) > 1
    <3>1. list[k].grated_ /\ list[k] \in TransactionInfo
      BY <2>4, <1>1, OwnRequests, ListFacts, Zenon
    <3>2. list[k].lock_type_ = "SHARED"
      BY <3>1, <2>4, <1>1, <1>2, Zenon DEF SetsAgree, HoldsIn, TransactionInfo, LockType
    <3>3. op = "LockUpgrade" /\ type = "EXCLUSIVE"
      BY <3>1, <3>2, <2>4, <1>1, <1>2 DEF SetsAgree, HoldsIn, TypeRequested
    <3>4. lock_table[r].list_lock_type_ = "SHARED"
      <4>1. /\ lock_table[r].list_lock_type_ \in LockType
            /\ lock_table[r].list_lock_type_ = "EXCLUSIVE" =>
                 lock_table[r].list_grant_cnt_ = 1 /\ list[1].lock_type_ = "EXCLUSIVE"
        BY <1>1, Zenon DEF ListInv, ListTypeIsRight
      <4>2. k <= lock_table[r].list_grant_cnt_
        BY <3>1, <1>1 DEF ListInv, GrantedPrefix
      <4> HIDE DEF list
      <4>3. lock_table[r].list_grant_cnt_ = 1 => k = 1
        BY <4>2, <1>1
      <4> QED
        BY <3>2, <4>1, <4>3, Zenon DEF LockType
    <3>5. lock_table[r].list_grant_cnt_ > 1 /\ lock_table[r].list_grant_cnt_ <= Len(list)
      BY <3>3, <3>4, <1>1, ListFacts DEF ListInv, GrantedPrefix
    <3> QED
      BY <3>1, <3>2, <3>3, <3>5, <1>1, ListFacts
  <2>5. N \in LockList /\ ListInv(N)
    <3>1. type \in LockType /\ (type = "SHARED" => op = "LockShared")
      BY DEF TypeRequested, LockType
    <3> HIDE DEF type, list
    <3> QED
      BY <3>1, <1>1, <2>3, <2>4, WaitInv, Zenon DEF list
  <2>6. N.lock_list_ = Append(list, e)
    BY <1>1, Zenon DEF LockList
  <2> HIDE DEF N, list
  <2>7. \A u \in TxnId \ {t} :
          /\ \A ty : HoldsIn(N.lock_list_, u, ty) <=> HoldsIn(list, u, ty)
          /\ \A o : AsksIn(list, u, o) => AsksIn(N.lock_list_, u, o)
    <3> HIDE DEF e
    <3> TAKE u \in TxnId \ {t}
    <3>1. /\ \A ty : HoldsIn(Append(list, e), u, ty) <=> HoldsIn(list, u, ty)
          /\ \A o : AsksIn(list, u, o) => AsksIn(Append(list, e), u, o)
      BY <1>1, <2>2, AppendOthers, Zenon
    <3> QED
      BY <2>6, <3>1
  <2>8. AsksIn(N.lock_list_, t, op)
    <3>1. op = "LockUpgrade" => HoldsIn(list, t, "SHARED")
      BY <1>2 DEF SetsAgree, list
    <3> QED
      BY <3>1, <1>1, <2>6, AppendAsks, Zenon
  <2>9. call' \in [TxnId -> {NoCall} \union BlockedCall]
    BY <2>1 DEF IInv, TypeOK, BlockedCall
  <2>10. call'[t] # NoCall /\ call'[t].rid = r /\ call'[t].op = op
    BY <2>1 DEF IInv, TypeOK, NoCall
  <2>11. \A k \in 1..Len(N.lock_list_) : ~N.lock_list_[k].grated_ =>
           \/ \E j \in 1..Len(list) :
                 /\ ~list[j].grated_
                 /\ list[j].txn_ = N.lock_list_[k].txn_
                 /\ list[j].lock_type_ = N.lock_list_[k].lock_type_
           \/ /\ N.lock_list_[k].txn_ = t
              /\ type = N.lock_list_[k].lock_type_
    <3>1. /\ Len(N.lock_list_) = Len(list) + 1
          /\ \A k \in 1..Len(list) : N.lock_list_[k] = list[k]
          /\ N.lock_list_[Len(list) + 1] = e
      <4> HIDE DEF e
      <4> QED
        BY <1>1, <2>2, <2>6, AppendFacts
    <3> HIDE DEF e, type
    <3> TAKE k \in 1..Len(N.lock_list_)
    <3>2. k \in 1..Len(list) \/ k = Len(list) + 1
      BY <3>1, <1>1
    <3> QED
      BY <3>1, <3>2, <2>2, Zenon
  <2>12. SetsAgree(t, r)'
    <3>1. Requests(r)' = N.lock_list_
      BY <2>1 DEF Requests, IInv, TypeOK
    <3> QED
      BY <2>1, <2>8, <2>10, <3>1, Zenon DEF SetsAgree
  <2>13. /\ state' \in [TxnId -> TransactionState]
         /\ shared_lock_set' \in [TxnId -> SUBSET RID]
         /\ exclusive_lock_set' \in [TxnId -> SUBSET RID]
    BY <2>1 DEF IInv, TypeOK
  <2>14. \A u \in TxnId \ {t} : /\ state'[u] = state[u]
                                /\ call'[u] = call[u]
                                /\ shared_lock_set'[u] = shared_lock_set[u]
                                /\ exclusive_lock_set'[u] = exclusive_lock_set[u]
    BY <2>1, Zenon DEF IInv, TypeOK
  <2>15. StepOn(t, r, N)
    BY <2>1, <2>7, <2>9, <2>10, <2>11, <2>12, <2>13, <2>14, Zenon DEF StepOn, list
  <2> QED
    BY <2>5, <2>15, ListStep
<1> QED
  BY <1>3, <1>4

\* The only holder of a shared list upgrades in place.
LEMMA UpgradeStep ==
    ASSUME IInv, NEW t \in TxnId, NEW r \in RID, call[t] = NoCall, state[t] = "GROWING",
           Requests(r) # <<>>, Requests(r)[1].txn_ = t,
           lock_table[r].list_lock_type_ = "SHARED", lock_table[r].list_grant_cnt_ = 1,
           UpgradeInPlace(t, r)
    PROVE  IInv' /\ OthersHold(t)
<1> DEFINE list == Requests(r)
           new == Upgraded(list)
           N == [lock_table[r] EXCEPT !.lock_list_[1].lock_type_ = "EXCLUSIVE",
                                      !.list_lock_type_ = "EXCLUSIVE"]
<1>1. /\ list = lock_table[r].lock_list_ /\ list \in Seq(TransactionInfo)
      /\ lock_table[r] \in LockList /\ ListInv(lock_table[r])
      /\ DOMAIN list = 1..Len(list) /\ Len(list) \in Nat /\ Len(list) >= 1
      /\ list # <<>> /\ list[1].txn_ = t
      /\ \A k \in 1..Len(list) : list[k] \in TransactionInfo
  <2>1. /\ list = lock_table[r].lock_list_ /\ list \in Seq(TransactionInfo)
        /\ lock_table[r] \in LockList /\ ListInv(lock_table[r])
        /\ DOMAIN list = 1..Len(list) /\ Len(list) \in Nat
    BY RequestFacts, Zenon
  <2>2. /\ \A k \in 1..Len(list) : list[k] \in TransactionInfo
        /\ list = <<>> <=> Len(list) = 0
    BY <2>1, ListFacts, Zenon
  <2>3. list # <<>> /\ list[1].txn_ = t
    OBVIOUS
  <2> HIDE DEF list
  <2>4. Len(list) >= 1
    BY <2>1, <2>2, <2>3
  <2> QED
    BY <2>1, <2>2, <2>3, <2>4, Zenon
<1>2. lock_table' = [lock_table EXCEPT ![r] = N]
  BY DEF UpgradeInPlace
<1>3. \A k \in 1..Len(list) : list[k].grated_ <=> k <= 1
  BY <1>1, ListFacts DEF ListInv, GrantedPrefix
<1>4. \A k \in 1..Len(list) : list[k].txn_ = t => list[k].grated_
  BY OwnRequests
<1>5. new \in Seq(TransactionInfo)
  <2>1. [list[1] EXCEPT !.lock_type_ = "EXCLUSIVE"] \in TransactionInfo
    BY <1>1 DEF TransactionInfo, LockType
  <2> HIDE DEF list
  <2> QED
    BY <2>1, <1>1 DEF Upgraded
<1>6. ASSUME NEW L \in LockList, L.list_grant_cnt_ = 1, NEW m \in Seq(TransactionInfo)
      PROVE  LET M == [L EXCEPT !.lock_list_ = m, !.list_lock_type_ = "EXCLUSIVE"]
             IN  /\ M \in LockList
                 /\ M.lock_list_ = m /\ M.list_lock_type_ = "EXCLUSIVE" /\ M.list_grant_cnt_ = 1
  BY <1>6, Zenon DEF LockList, LockType
<1>7. /\ N \in LockList
      /\ N.lock_list_ = new /\ N.list_lock_type_ = "EXCLUSIVE" /\ N.list_grant_cnt_ = 1
  <2>1. N = [lock_table[r] EXCEPT !.lock_list_ = new, !.list_lock_type_ = "EXCLUSIVE"]
    BY DEF Requests, Upgraded
  <2> HIDE DEF new, N
  <2> QED
    BY <1>1, <1>5, <1>6, <2>1, Zenon
<1> HIDE DEF N, list
<1>8. ListInv(N)
  BY <1>1, <1>3, <1>4, <1>7, UpgradeInPlaceListInv DEF Upgraded
<1>9. \A k \in 1..Len(list) : k # 1 => list[k].txn_ # list[1].txn_
  BY <1>1, <1>3, <1>4
<1>10. /\ Len(new) = Len(list)
       /\ \A k \in 1..Len(list) : /\ new[k].txn_ = list[k].txn_
                                  /\ new[k].grated_ <=> list[k].grated_
                                  /\ k # 1 => new[k] = list[k]
       /\ \A u : u # t =>
            /\ \A type : HoldsIn(new, u, type) <=> HoldsIn(list, u, type)
            /\ \A op : AsksIn(list, u, op) => AsksIn(new, u, op)
       /\ HoldsIn(new, t, "EXCLUSIVE")
       /\ ~HoldsIn(new, t, "SHARED")
  <2>1. list[1].grated_
    BY <1>1, <1>3
  <2>2. /\ Len(new) = Len(list)
        /\ \A k \in 1..Len(list) : /\ new[k].txn_ = list[k].txn_
                                   /\ new[k].grated_ <=> list[k].grated_
                                   /\ k # 1 => new[k] = list[k]
        /\ \A u : u # list[1].txn_ =>
             /\ \A type : HoldsIn(new, u, type) <=> HoldsIn(list, u, type)
             /\ \A op : AsksIn(list, u, op) => AsksIn(new, u, op)
        /\ list[1].grated_ => HoldsIn(new, list[1].txn_, "EXCLUSIVE")
        /\ ~HoldsIn(new, list[1].txn_, "SHARED")
    BY <1>1, <1>9, UpgradeOthers, Zenon
  <2>3. list[1].txn_ = t
    BY <1>1
  <2> HIDE DEF new
  <2> QED
    BY <2>1, <2>2, <2>3
<1> HIDE DEF new
<1>11. SetsAgree(t, r)'
  <2>1. Requests(r)' = new
    BY <1>2, <1>7 DEF Requests, IInv, TypeOK
  <2>2. call'[t] = NoCall /\ r \in exclusive_lock_set'[t] /\ r \notin shared_lock_set'[t]
    BY DEF UpgradeInPlace, IInv, TypeOK
  <2> QED
    BY <1>10, <2>1, <2>2 DEF SetsAgree
<1>12. /\ state' \in [TxnId -> TransactionState]
       /\ shared_lock_set' \in [TxnId -> SUBSET RID]
       /\ exclusive_lock_set' \in [TxnId -> SUBSET RID]
       /\ call' \in [TxnId -> {NoCall} \union BlockedCall]
       /\ crashed' = crashed /\ call'[t] = NoCall
  BY DEF UpgradeInPlace, IInv, TypeOK
<1>13. \A u \in TxnId \ {t} : /\ state'[u] = state[u]
                              /\ call'[u] = call[u]
                              /\ shared_lock_set'[u] = shared_lock_set[u]
                              /\ exclusive_lock_set'[u] = exclusive_lock_set[u]
  BY DEF UpgradeInPlace, IInv, TypeOK
<1>14. \A s \in RID \ {r} : /\ s \in shared_lock_set'[t] <=> s \in shared_lock_set[t]
                            /\ s \in exclusive_lock_set'[t] <=> s \in exclusive_lock_set[t]
  BY DEF UpgradeInPlace, IInv, TypeOK
<1>15. \A k \in 1..Len(new) : ~new[k].grated_ =>
         \E j \in 1..Len(list) : /\ ~list[j].grated_
                                 /\ list[j].txn_ = new[k].txn_
                                 /\ list[j].lock_type_ = new[k].lock_type_
  <2>1. ASSUME NEW k \in 1..Len(new), ~new[k].grated_
        PROVE  k \in 1..Len(list) /\ ~list[k].grated_ /\ new[k] = list[k]
    <3>1. k \in 1..Len(list) /\ ~list[k].grated_
      BY <1>10, <2>1, Zenon
    <3>2. k # 1
      BY <1>3, <3>1
    <3> QED
      BY <1>10, <3>1, <3>2, Zenon
  <2> QED
    BY <2>1, Zenon
<1>16. StepOn(t, r, N)
  <2>1. \A u \in TxnId \ {t} :
           /\ \A type : HoldsIn(N.lock_list_, u, type) <=> HoldsIn(Requests(r), u, type)
           /\ \A op : AsksIn(Requests(r), u, op) => AsksIn(N.lock_list_, u, op)
    BY <1>7, <1>10 DEF list
  <2>2. \A k \in 1..Len(N.lock_list_) : ~N.lock_list_[k].grated_ =>
           \E j \in 1..Len(Requests(r)) :
              /\ ~Requests(r)[j].grated_
              /\ Requests(r)[j].txn_ = N.lock_list_[k].txn_
              /\ Requests(r)[j].lock_type_ = N.lock_list_[k].lock_type_
    BY <1>7, <1>15, Zenon DEF list
  <2> QED
    BY <1>2, <1>11, <1>12, <1>13, <1>14, <2>1, <2>2, Zenon DEF StepOn
<1> QED
  BY <1>7, <1>8, <1>16, ListStep

\* Unlock's assertions hold, unless strict two-phase locking is on.
LEMMA UnlockAssertsHold ==
    ASSUME IInv, NEW t \in TxnId, NEW r \in RID, HoldsLock(t, r), ~Strict
    PROVE  UnlockAsserts(t, r)
<1> DEFINE L == lock_table[r]
           list == L.lock_list_
           cnt == L.list_grant_cnt_
           i == GrantedPosition(t, r)
<1>1. /\ list = Requests(r) /\ list \in Seq(TransactionInfo) /\ cnt \in Nat
      /\ L \in LockList /\ ListInv(L) /\ Len(list) \in Nat /\ DOMAIN list = 1..Len(list)
  BY RequestFacts, ListFacts
<1>2. i \in 1..Len(list) /\ list[i].grated_
  BY <1>1, GrantedPositionProperties DEF IInv
<1>3. cnt <= Len(list) /\ \A k \in 1..Len(list) : list[k].grated_ <=> k <= cnt
  BY <1>1 DEF ListInv, GrantedPrefix
<1> HIDE DEF i
<1>4. list[i].lock_type_ = "EXCLUSIVE" => cnt = 1
  BY <1>1, <1>2, <1>3 DEF ListInv, ListTypeIsRight, LockType
<1> HIDE DEF L, list, cnt
<1>5. ASSUME cnt = 1, i < Len(list), NEW k \in (i + 1)..LastGranted(list, i + 1)
      PROVE  ~list[k].grated_
  <2>1. i = 1 /\ i + 1 \in 1..Len(list)
    BY <1>1, <1>2, <1>3, <1>5
  <2>2. LastGranted(list, i + 1) \in (i + 1)..Len(list)
    BY <2>1, <1>1, LastGrantedProperties
  <2>3. k \in 1..Len(list) /\ k > 1
    BY <2>1, <2>2, <1>1
  <2> QED
    BY <2>3, <1>3, <1>5
<1>6. cnt = 2 => Len(list) >= 2 /\ (ThirdIsUpgrade(list, i) => ~list[3].grated_)
  BY <1>1, <1>3 DEF ThirdIsUpgrade
<1> QED
  BY <1>4, <1>5, <1>6 DEF UnlockAsserts, L, list, cnt, i

\* A release hands the list on.
LEMMA ReleaseStep ==
    ASSUME IInv, NEW t \in TxnId, NEW r \in RID, Release(t, r)
    PROVE  /\ IInv' /\ OthersHold(t)
           /\ ~crashed' => ~HasRequest(t, r)'
<1>1. /\ call[t] = NoCall /\ HoldsLock(t, r) /\ Unlock(t, r)
      /\ Strict => state[t] \in {"COMMITTED", "ABORTED"}
  BY DEF Release, Idle
<1>2. CASE ~UnlockAsserts(t, r)
  <2>1. Crash /\ Strict
    BY <1>1, <1>2, UnlockAssertsHold, LockManagerAssumption DEF Unlock
  <2>2. TypeOK'
    BY <2>1 DEF Crash, IInv, TypeOK
  <2>3. \A s \in RID : ListInv(lock_table'[s]) /\ WaitersAreBlocked(s)'
    <3>1. lock_table' = lock_table /\ call' = call
      BY <2>1 DEF Crash
    <3> TAKE s \in RID
    <3>2. ListInv(lock_table[s]) /\ WaitersAreBlocked(s)
      BY DEF IInv, LockTableInv
    <3> QED
      BY <3>1, <3>2, Zenon DEF WaitersAreBlocked, Requests
  <2>4. ASSUME NEW u \in TxnId, NEW s \in RID, SetsAgree(u, s)
        PROVE  SetsAgree(u, s)'
    BY <2>1, <2>4, Zenon DEF SetsAgree, Requests, Crash
  <2> QED
    BY <2>1, <2>2, <2>3, <2>4, SameTable DEF IInv, LockTableInv, Crash
<1>3. CASE UnlockAsserts(t, r)
  <2> DEFINE L == lock_table[r]
             i == GrantedPosition(t, r)
             N == Released(L, i)
  <2>1. /\ lock_table' = [lock_table EXCEPT ![r] = N]
        /\ state' = IF ~Strict /\ state[t] = "GROWING"
                    THEN [state EXCEPT ![t] = "SHRINKING"] ELSE state
        /\ UNCHANGED <<shared_lock_set, exclusive_lock_set, call, crashed>>
    BY <1>1, <1>3 DEF Unlock
  <2>2. /\ L.lock_list_ = Requests(r) /\ L \in LockList /\ ListInv(L)
        /\ DOMAIN Requests(r) = 1..Len(Requests(r))
    BY RequestFacts
  <2>3. /\ i \in 1..Len(L.lock_list_) /\ L.lock_list_[i].grated_
        /\ L.lock_list_[i].txn_ = t
    BY <1>1, <2>2, GrantedPositionProperties DEF IInv
  <2> HIDE DEF L, i
  <2>4. ReleaseShape(L, N, i) /\ ListInv(N)
    BY <2>2, <2>3, ReleasedInv
  <2> HIDE DEF N
  <2>5. N \in LockList
    BY <2>4 DEF ReleaseShape
  <2>6. PICK f : Survives(L.lock_list_, N.lock_list_, i, f)
    BY <2>4 DEF ReleaseShape
  <2>7. ASSUME NEW u \in TxnId, NEW j \in 1..Len(L.lock_list_),
               L.lock_list_[j].txn_ = u, ~L.lock_list_[j].grated_
        PROVE  /\ call[u] # NoCall /\ call[u].rid = r
               /\ TypeRequested(call[u].op) = L.lock_list_[j].lock_type_
    <3>1. WaitersAreBlocked(r)
      BY DEF IInv, LockTableInv
    <3> QED
      BY <3>1, <2>2, <2>7, Zenon DEF WaitersAreBlocked
  <2>8. ASSUME NEW u \in TxnId \ {t}, call[u] = NoCall \/ call[u].rid # r, NEW type
        PROVE  HoldsIn(N.lock_list_, u, type) <=> HoldsIn(Requests(r), u, type)
    <3>1. \A j \in 1..Len(L.lock_list_) : L.lock_list_[j].txn_ = u => L.lock_list_[j].grated_
      BY <2>7, <2>8
    <3>2. u # L.lock_list_[i].txn_
      BY <2>3
    <3>3. HoldsIn(N.lock_list_, u, type) <=> HoldsIn(L.lock_list_, u, type)
      BY <2>2, <2>3, <2>5, <2>6, <3>1, <3>2, ReleaseKeepsHolders, Zenon
    <3> QED
      BY <2>2, <3>3
  <2>9. ASSUME NEW u \in TxnId \ {t}, call[u] # NoCall, call[u].rid = r,
               AsksIn(Requests(r), u, call[u].op)
        PROVE  AsksIn(N.lock_list_, u, call[u].op)
    <3>1. \A j \in 1..Len(L.lock_list_) :
             L.lock_list_[j].txn_ = u /\ ~L.lock_list_[j].grated_ =>
                L.lock_list_[j].lock_type_ = TypeRequested(call[u].op)
      BY <2>7
    <3>2. u # L.lock_list_[i].txn_ /\ AsksIn(L.lock_list_, u, call[u].op)
      BY <2>2, <2>3, <2>9, Zenon
    <3> QED
      BY <2>2, <2>3, <2>5, <2>6, <3>1, <3>2, ReleaseKeepsCallers, Zenon
  <2>10. ASSUME NEW k \in 1..Len(N.lock_list_), ~N.lock_list_[k].grated_
         PROVE  \E j \in 1..Len(Requests(r)) :
                   /\ ~Requests(r)[j].grated_
                   /\ Requests(r)[j].txn_ = N.lock_list_[k].txn_
                   /\ Requests(r)[j].lock_type_ = N.lock_list_[k].lock_type_
    <3>1. f[k] \in 1..Len(L.lock_list_)
      BY <2>6, ZenonT(30) DEF Survives
    <3>2. /\ N.lock_list_[k].txn_ = L.lock_list_[f[k]].txn_
          /\ N.lock_list_[k].lock_type_ = L.lock_list_[f[k]].lock_type_
          /\ ~L.lock_list_[f[k]].grated_
      BY <2>6, <2>10 DEF Survives
    <3> QED
      BY <2>2, <3>1, <3>2
  <2>11. /\ state' \in [TxnId -> TransactionState]
         /\ state'[t] # "GROWING"
         /\ \A u \in TxnId \ {t} : state'[u] = state[u]
    BY <1>1, <2>1, LockManagerAssumption DEF IInv, TypeOK, TransactionState
  <2>12. StepOn(t, r, N)
    BY <1>1, <2>1, <2>8, <2>9, <2>10, <2>11, Zenon DEF StepOn, IInv, TypeOK
  <2>13. ~HasRequest(t, r)'
    <3>1. Requests(r)' = N.lock_list_ /\ DOMAIN N.lock_list_ = 1..Len(N.lock_list_)
      BY <2>1, <2>5, ListFacts, Zenon DEF Requests, IInv, TypeOK
    <3> SUFFICES ASSUME NEW k \in 1..Len(N.lock_list_), N.lock_list_[k].txn_ = t
                 PROVE  FALSE
      BY <3>1, Zenon DEF HasRequest
    <3>2. f[k] \in 1..Len(L.lock_list_) /\ f[k] # i /\ L.lock_list_[f[k]].txn_ = t
      BY <2>6 DEF Survives
    <3>3. L.lock_list_[f[k]].grated_
      BY <1>1, <2>7, <3>2, Zenon
    <3>4. f[k] < i \/ i < f[k]
      BY <2>2, <2>3, <3>2, ListFacts
    <3>5. OneRequestEach(L)
      BY <2>2 DEF ListInv
    <3>6. i \in DOMAIN L.lock_list_ /\ f[k] \in DOMAIN L.lock_list_
      BY <2>2, <2>3, <3>2, ListFacts, Zenon
    <3>7. L.lock_list_[i].grated_ /\ L.lock_list_[i].txn_ = t
      BY <2>2, <2>3
    <3> QED
      BY <3>2, <3>3, <3>4, <3>5, <3>6, <3>7, Zenon DEF OneRequestEach
  <2> QED
    BY <1>1, <2>4, <2>5, <2>12, <2>13, ListStep, Zenon
<1> QED
  BY <1>2, <1>3

\* The caller goes on with what it asked for.
LEMMA WakeStep ==
    ASSUME IInv, NEW t \in TxnId, Wake(t)
    PROVE  IInv' /\ OthersHold(t)
<1> DEFINE op == call[t].op
           r == call[t].rid
<1>1. call[t] # NoCall /\ state[t] = "GROWING"
  BY DEF Wake, IInv, LockTableInv
<1>2. call[t] \in BlockedCall /\ r \in RID /\ op \in {"LockShared", "LockExclusive", "LockUpgrade"}
  BY <1>1 DEF IInv, TypeOK, BlockedCall
<1>3. /\ call' = [call EXCEPT ![t] = NoCall]
      /\ shared_lock_set' = [shared_lock_set EXCEPT ![t] = SharedAfterWake(t)]
      /\ exclusive_lock_set' = [exclusive_lock_set EXCEPT ![t] =
            IF op = "LockShared" THEN @ ELSE @ \union {r}]
      /\ UNCHANGED <<lock_table, state, crashed>>
  BY <1>1 DEF Wake
<1>4. PICK i \in 1..Len(Requests(r)) :
        /\ Requests(r)[i].txn_ = t
        /\ Requests(r)[i].grated_
        /\ op # "LockShared" => Requests(r)[i].lock_type_ = "EXCLUSIVE"
  BY <1>2, RequestFacts, Zenon DEF Wake
<1>5. /\ lock_table[r] \in LockList /\ OneRequestEach(lock_table[r])
      /\ Requests(r) = lock_table[r].lock_list_
      /\ DOMAIN Requests(r) = 1..Len(Requests(r))
  BY <1>2, RequestFacts DEF ListInv
<1>6. /\ r \notin exclusive_lock_set[t]
      /\ r \in shared_lock_set[t] <=> op = "LockUpgrade"
      /\ AsksIn(Requests(r), t, op)
  <2>1. SetsAgree(t, r)
    BY <1>1, <1>2, Zenon DEF IInv, LockTableInv
  <2> QED
    BY <2>1, <1>1 DEF SetsAgree
<1>7. ASSUME NEW s \in RID, NEW k \in 1..Len(Requests(s)), ~Requests(s)[k].grated_
      PROVE  LET c == call[Requests(s)[k].txn_] IN
             c # NoCall /\ c.rid = s /\ TypeRequested(c.op) = Requests(s)[k].lock_type_
  <2>1. WaitersAreBlocked(s)
    BY DEF IInv, LockTableInv
  <2> QED
    BY <2>1, <1>7, RequestFacts DEF WaitersAreBlocked
<1>8. \A k \in 1..Len(Requests(r)) : Requests(r)[k].txn_ = t /\ ~Requests(r)[k].grated_ =>
         Requests(r)[k].lock_type_ = TypeRequested(op)
  BY <1>2, <1>7
<1> HIDE DEF r, op
<1>9. /\ \A k \in 1..Len(Requests(r)) : Requests(r)[k].txn_ = t => Requests(r)[k].grated_
      /\ HoldsIn(Requests(r), t, "SHARED") <=> op = "LockShared"
      /\ HoldsIn(Requests(r), t, "EXCLUSIVE") <=> op # "LockShared"
  <2> DEFINE L == lock_table[r]
  <2>1. L \in LockList /\ OneRequestEach(L) /\ PromiseKept(L, t, op, i)
    BY <1>4, <1>5, <1>6, <1>8, Zenon DEF PromiseKept
  <2> HIDE DEF L
  <2>2. /\ \A k \in 1..Len(L.lock_list_) : L.lock_list_[k].txn_ = t => L.lock_list_[k].grated_
        /\ HoldsIn(L.lock_list_, t, "SHARED") <=> op = "LockShared"
        /\ HoldsIn(L.lock_list_, t, "EXCLUSIVE") <=> op # "LockShared"
    BY <2>1, WokenHolds, Zenon
  <2> QED
    BY <1>5, <2>2, Zenon DEF L
<1>10. /\ r \in shared_lock_set'[t] <=> op = "LockShared"
       /\ r \in exclusive_lock_set'[t] <=> op # "LockShared"
       /\ \A s \in RID \ {r} : /\ s \in shared_lock_set'[t] <=> s \in shared_lock_set[t]
                               /\ s \in exclusive_lock_set'[t] <=> s \in exclusive_lock_set[t]
       /\ shared_lock_set'[t] \in SUBSET RID
       /\ exclusive_lock_set'[t] \in SUBSET RID
  <2>1. /\ shared_lock_set'[t] = SharedAfterWake(t)
        /\ exclusive_lock_set'[t] = IF op = "LockShared" THEN exclusive_lock_set[t]
                                    ELSE exclusive_lock_set[t] \union {r}
        /\ shared_lock_set[t] \in SUBSET RID /\ exclusive_lock_set[t] \in SUBSET RID
    BY <1>3 DEF IInv, TypeOK
  <2>2. SharedAfterWake(t) = CASE op = "LockShared"    -> shared_lock_set[t] \union {r}
                               [] op = "LockExclusive" -> shared_lock_set[t]
                               [] op = "LockUpgrade"   -> shared_lock_set[t] \ {r}
    BY DEF SharedAfterWake, op, r
  <2>3. CASE op = "LockShared"
    BY <1>2, <1>6, <2>1, <2>2, <2>3
  <2>4. CASE op = "LockExclusive"
    BY <1>2, <1>6, <2>1, <2>2, <2>4
  <2>5. CASE op = "LockUpgrade"
    BY <1>2, <1>6, <2>1, <2>2, <2>5, Zenon
  <2> QED
    BY <1>2, <2>3, <2>4, <2>5
<1>11. TypeOK'
  BY <1>3, <1>10 DEF IInv, TypeOK
<1>12. \A s \in RID : ListInv(lock_table'[s]) /\ Requests(s)' = Requests(s)
  BY <1>3, Zenon DEF IInv, LockTableInv, Requests
<1>13. ASSUME NEW s \in RID
       PROVE  WaitersAreBlocked(s)'
  <2> SUFFICES ASSUME NEW k \in 1..Len(Requests(s)), ~Requests(s)[k].grated_
               PROVE  LET c == call'[Requests(s)[k].txn_] IN
                      /\ c # NoCall /\ c.rid = s
                      /\ TypeRequested(c.op) = Requests(s)[k].lock_type_
    BY <1>12, RequestFacts DEF WaitersAreBlocked
  <2>1. LET c == call[Requests(s)[k].txn_] IN
        c # NoCall /\ c.rid = s /\ TypeRequested(c.op) = Requests(s)[k].lock_type_
    BY <1>7, Zenon
  <2>2. Requests(s)[k].txn_ # t /\ Requests(s)[k].txn_ \in TxnId
    BY <1>9, <2>1, RequestFacts DEF r
  <2>3. call'[Requests(s)[k].txn_] = call[Requests(s)[k].txn_]
    BY <1>3, <2>2 DEF IInv, TypeOK
  <2> QED
    BY <2>1, <2>3, Zenon
<1>14. \A u \in TxnId : call'[u] # NoCall => state'[u] = "GROWING"
  BY <1>3 DEF IInv, LockTableInv, TypeOK
<1>15. ASSUME NEW u \in TxnId, state'[u] = "GROWING", NEW s \in RID
       PROVE  SetsAgree(u, s)'
  <2>1. SetsAgree(u, s) /\ Requests(s)' = Requests(s)
    BY <1>3, <1>12, <1>15, Zenon DEF IInv, LockTableInv
  <2>2. CASE u # t
    <3>1. /\ call'[u] = call[u] /\ shared_lock_set'[u] = shared_lock_set[u]
          /\ exclusive_lock_set'[u] = exclusive_lock_set[u]
      BY <1>3, <2>2 DEF IInv, TypeOK
    <3> QED
      BY <2>1, <3>1 DEF SetsAgree
  <2>3. CASE u = t
    <3>1. call'[u] = NoCall
      BY <1>3, <2>3, Zenon DEF IInv, TypeOK
    <3>2. CASE s = r
      BY <1>9, <1>10, <2>1, <2>3, <3>1, <3>2, Zenon DEF SetsAgree
    <3>3. CASE s # r
      <4>1. /\ s \in exclusive_lock_set[t] <=> HoldsIn(Requests(s), t, "EXCLUSIVE")
            /\ s \in shared_lock_set[t] <=> HoldsIn(Requests(s), t, "SHARED")
        BY <2>1, <2>3, <3>3, Zenon DEF SetsAgree, r
      <4> QED
        BY <1>10, <2>1, <2>3, <3>1, <3>3, <4>1, Zenon DEF SetsAgree
    <3> QED
      BY <3>2, <3>3
  <2> QED
    BY <2>2, <2>3
<1> QED
  BY <1>3, <1>11, <1>12, <1>13, <1>14, <1>15, SameTable, Zenon DEF IInv, LockTableInv

\* A transaction that ends, or a new one that takes an id without requests.
LEMMA StateStep ==
    ASSUME IInv, NEW t \in TxnId,
           NewTransaction(t) \/ \E s \in {"COMMITTED", "ABORTED"} : SetState(t, s)
    PROVE  IInv' /\ OthersHold(t)
<1>1. /\ UNCHANGED <<lock_table, call, crashed>> /\ call[t] = NoCall
      /\ state' \in [TxnId -> TransactionState]
      /\ shared_lock_set' \in [TxnId -> SUBSET RID]
      /\ exclusive_lock_set' \in [TxnId -> SUBSET RID]
      /\ \A u \in TxnId \ {t} : /\ state'[u] = state[u]
                                /\ shared_lock_set'[u] = shared_lock_set[u]
                                /\ exclusive_lock_set'[u] = exclusive_lock_set[u]
  BY DEF NewTransaction, SetState, Idle, IInv, TypeOK, TransactionState
<1>2. state'[t] = "GROWING" =>
        /\ shared_lock_set'[t] = {} /\ exclusive_lock_set'[t] = {}
        /\ \A r \in RID : ~HasRequest(t, r)
  BY DEF NewTransaction, SetState, IInv, TypeOK
<1>3. TypeOK'
  BY <1>1 DEF IInv, TypeOK
<1>4. \A s \in RID : ListInv(lock_table'[s]) /\ WaitersAreBlocked(s)' /\ Requests(s)' = Requests(s)
  <2>1. ASSUME NEW s \in RID
        PROVE  ListInv(lock_table'[s]) /\ Requests(s)' = Requests(s)
    BY <1>1, Zenon DEF IInv, LockTableInv, Requests
  <2>2. ASSUME NEW s \in RID PROVE WaitersAreBlocked(s)'
    <3>1. WaitersAreBlocked(s)
      BY DEF IInv, LockTableInv
    <3> QED
      BY <1>1, <2>1, <3>1, Zenon DEF WaitersAreBlocked
  <2> QED
    BY <2>1, <2>2, Zenon
<1>5. \A u \in TxnId : call'[u] # NoCall => state'[u] = "GROWING"
  BY <1>1 DEF IInv, LockTableInv
<1>6. ASSUME NEW u \in TxnId, state'[u] = "GROWING", NEW s \in RID
      PROVE  SetsAgree(u, s)'
  <2>1. CASE u # t
    <3>1. SetsAgree(u, s)
      BY <1>1, <1>6, <2>1 DEF IInv, LockTableInv
    <3>2. Requests(s)' = Requests(s)
      BY <1>4, Zenon
    <3> QED
      BY <1>1, <2>1, <3>1, <3>2, Zenon DEF SetsAgree
  <2>2. CASE u = t
    <3>1. /\ shared_lock_set'[t] = {} /\ exclusive_lock_set'[t] = {} /\ call'[t] = NoCall
          /\ ~HasRequest(t, s)
      BY <1>1, <1>2, <1>6, <2>2, Zenon
    <3>2. Requests(s)' = Requests(s)
      BY <1>4, Zenon
    <3>3. /\ ~HoldsIn(Requests(s), t, "SHARED")'
          /\ ~HoldsIn(Requests(s), t, "EXCLUSIVE")'
      BY <3>1, <3>2, Zenon DEF HoldsIn, HasRequest
    <3> QED
      BY <2>2, <3>1, <3>3, Zenon DEF SetsAgree
  <2> QED
    BY <2>1, <2>2, Zenon
<1> QED
  BY <1>1, <1>3, <1>4, <1>5, <1>6, SameTable, Zenon DEF IInv, LockTableInv

\* A step that changes nothing.
LEMMA StutterStep ==
    ASSUME IInv, UNCHANGED vars
    PROVE  IInv' /\ \A t \in TxnId : OthersHold(t)
<1>1. \A u \in TxnId, s \in RID : SetsAgree(u, s)' <=> SetsAgree(u, s)
  BY DEF vars, SetsAgree, Requests
<1>2. \A s \in RID : WaitersAreBlocked(s)' <=> WaitersAreBlocked(s)
  BY DEF vars, WaitersAreBlocked, Requests
<1>3. TypeOK'
  BY DEF vars, IInv, TypeOK
<1> QED
  BY <1>1, <1>2, <1>3, SameTable, Zenon DEF vars, IInv, LockTableInv

\* LockShared, called as callers may.
LEMMA AskSharedStep ==
    ASSUME IInv, NEW t \in TxnId, NEW r \in RID, AskShared(t, r)
    PROVE  IInv' /\ OthersHold(t)
<1> DEFINE L == lock_table[r]
           list == Requests(r)
<1>1. call[t] = NoCall /\ r \notin shared_lock_set[t] /\ state[t] \in {"GROWING", "ABORTED"}
  BY DEF AskShared, LockShared, Idle
<1>2. CASE state[t] = "ABORTED"
  BY <1>2, StutterStep, Zenon DEF AskShared, LockShared
<1>3. CASE state[t] = "GROWING" /\ list = <<>>
  <2>1. GrantShared(t, r)
    BY <1>3 DEF AskShared, LockShared
  <2> QED
    BY <1>1, <1>3, <2>1, GrantStep
<1>4. CASE state[t] = "GROWING" /\ list # <<>>
  <2>1. ShareBehindOthers(t, r)
    BY <1>4 DEF AskShared, LockShared
  <2>2. \A k \in 1..Len(list) : list[k].txn_ = t =>
           k = 1 /\ L.list_lock_type_ = "EXCLUSIVE"
    BY <1>1, <1>4, OwnRequests
  <2>3. /\ DOMAIN list = 1..Len(list) /\ Len(list) \in Nat /\ list = L.lock_list_
        /\ L \in LockList /\ ListInv(L)
    BY RequestFacts
  <2>4. r \in exclusive_lock_set[t] => L.list_lock_type_ = "EXCLUSIVE" /\ list[1].txn_ = t
    <3>1. SetsAgree(t, r)
      BY <1>4, Zenon DEF IInv, LockTableInv
    <3>2. r \in exclusive_lock_set[t] => \E k \in 1..Len(list) : list[k].txn_ = t
      BY <1>1, <2>3, <3>1, Zenon DEF SetsAgree, HoldsIn
    <3> QED
      BY <2>2, <3>2
  <2>5. CASE L.list_lock_type_ = "SHARED" /\ ~list[Len(list)].grated_
    <3>1. WaitOrDie(t, r, TypeRequested("LockShared"), "LockShared")
      BY <2>1, <2>5 DEF ShareBehindOthers, Last, TypeRequested
    <3>2. r \notin exclusive_lock_set[t]
      BY <2>4, <2>5, Zenon
    <3> QED
      BY <1>1, <1>4, <2>5, <3>1, <3>2, WaitOrDieStep, Zenon
  <2>6. CASE L.list_lock_type_ = "SHARED" /\ list[Len(list)].grated_
    <3>1. GrantShared(t, r)
      BY <2>1, <2>6 DEF ShareBehindOthers, Last
    <3>2. \A k \in 1..Len(list) : list[k].txn_ # t
      BY <2>2, <2>6
    <3> QED
      BY <1>1, <1>4, <2>6, <3>1, <3>2, GrantStep, Zenon
  <2>7. CASE L.list_lock_type_ # "SHARED"
    <3>1. HeadIsExclusiveHolder(r)
      <4>1. L.list_lock_type_ = "EXCLUSIVE"
        BY <1>4, <2>3, <2>7, Zenon DEF ListInv, ListTypeIsRight, LockType
      <4>2. /\ L.list_grant_cnt_ = 1 /\ list[1].lock_type_ = "EXCLUSIVE"
        BY <1>4, <2>3, <4>1 DEF ListInv, ListTypeIsRight
      <4>3. 1 \in 1..Len(list)
        BY <1>4, <2>3, ListFacts
      <4>4. list[1].grated_
        BY <2>3, <4>2, <4>3 DEF ListInv, GrantedPrefix
      <4> QED
        BY <4>2, <4>4, Zenon DEF HeadIsExclusiveHolder
    <3>2. CASE list[1].txn_ = t
      BY <2>1, <2>7, <3>1, <3>2, StutterStep, Zenon DEF ShareBehindOthers
    <3>3. CASE list[1].txn_ # t
      <4>1. WaitOrDie(t, r, TypeRequested("LockShared"), "LockShared")
        BY <2>1, <2>7, <3>1, <3>3 DEF ShareBehindOthers, TypeRequested
      <4>2. r \notin exclusive_lock_set[t]
        BY <2>4, <3>3
      <4> QED
        BY <1>1, <1>4, <2>7, <4>1, <4>2, WaitOrDieStep, Zenon
    <3> QED
      BY <3>2, <3>3
  <2> QED
    BY <2>5, <2>6, <2>7
<1> QED
  BY <1>1, <1>2, <1>3, <1>4, Zenon

\* LockExclusive, called as callers may.
LEMMA AskExclusiveStep ==
    ASSUME IInv, NEW t \in TxnId, NEW r \in RID, AskExclusive(t, r)
    PROVE  IInv' /\ OthersHold(t)
<1>1. /\ call[t] = NoCall /\ r \notin shared_lock_set[t] /\ r \notin exclusive_lock_set[t]
      /\ state[t] \in {"GROWING", "ABORTED"}
  BY DEF AskExclusive, LockExclusive, Idle
<1>2. CASE state[t] = "ABORTED"
  BY <1>2, StutterStep DEF AskExclusive, LockExclusive
<1>3. CASE state[t] = "GROWING" /\ Requests(r) = <<>>
  <2>1. GrantExclusive(t, r)
    BY <1>3 DEF AskExclusive, LockExclusive
  <2>2. \A k \in 1..Len(Requests(r)) : Requests(r)[k].txn_ # t
    <3>1. Len(Requests(r)) = 0
      BY <1>3
    <3> QED
      BY <3>1
  <2> QED
    BY <1>1, <1>3, <2>1, <2>2, GrantStep, Zenon
<1>4. CASE state[t] = "GROWING" /\ Requests(r) # <<>>
  <2>1. WaitOrDie(t, r, TypeRequested("LockExclusive"), "LockExclusive")
    BY <1>4 DEF AskExclusive, LockExclusive, TypeRequested
  <2> QED
    BY <1>1, <1>4, <2>1, WaitOrDieStep
<1> QED
  BY <1>1, <1>2, <1>3, <1>4, Zenon

\* LockUpgrade, called as callers may.
LEMMA AskUpgradeStep ==
    ASSUME IInv, NEW t \in TxnId, NEW r \in RID, AskUpgrade(t, r)
    PROVE  IInv' /\ OthersHold(t)
<1> DEFINE L == lock_table[r]
           list == Requests(r)
<1>1. call[t] = NoCall /\ r \in shared_lock_set[t] /\ state[t] = "GROWING"
  BY DEF AskUpgrade, LockUpgrade, Idle
<1>2. /\ DOMAIN list = 1..Len(list) /\ Len(list) \in Nat /\ list = L.lock_list_
      /\ L \in LockList /\ ListInv(L)
  BY RequestFacts
<1>3. SetsAgree(t, r)
  BY <1>1, Zenon DEF IInv, LockTableInv
<1>4. PICK k \in 1..Len(list) :
        list[k].txn_ = t /\ list[k].grated_ /\ list[k].lock_type_ = "SHARED"
  BY <1>1, <1>2, <1>3, Zenon DEF SetsAgree, HoldsIn
<1>5. list # <<>>
  BY <1>2, <1>4, ListFacts
<1>6. r \notin exclusive_lock_set[t]
  <2> SUFFICES ASSUME NEW j \in 1..Len(list), list[j].txn_ = t, list[j].grated_,
                      list[j].lock_type_ = "EXCLUSIVE"
               PROVE  FALSE
    BY <1>1, <1>2, <1>3, Zenon DEF SetsAgree, HoldsIn
  <2>1. k < j \/ j < k
    BY <1>2, <1>4
  <2> QED
    BY <1>2, <1>4, <2>1, Zenon DEF ListInv, OneRequestEach
<1>7. CASE L.list_lock_type_ = "SHARED" /\ L.list_grant_cnt_ = 1
  <2>1. list[1].txn_ = t
    <3>1. k = 1
      BY <1>2, <1>4, <1>7 DEF ListInv, GrantedPrefix
    <3> QED
      BY <1>4, <3>1, Zenon
  <2>2. UpgradeInPlace(t, r)
    BY <1>1, <1>5, <1>7, <2>1, Zenon DEF AskUpgrade, LockUpgrade
  <2> QED
    BY <1>1, <1>5, <1>7, <2>1, <2>2, UpgradeStep, Zenon
<1>8. CASE ~(L.list_lock_type_ = "SHARED" /\ L.list_grant_cnt_ = 1)
  <2>1. WaitOrDie(t, r, TypeRequested("LockUpgrade"), "LockUpgrade")
    BY <1>1, <1>5, <1>8 DEF AskUpgrade, LockUpgrade, TypeRequested
  <2> QED
    BY <1>1, <1>5, <1>6, <1>8, <2>1, WaitOrDieStep, Zenon
<1> QED
  BY <1>7, <1>8

\* The lock table is right initially and stays right.
LEMMA InitInv == Init => IInv
<1> SUFFICES ASSUME Init
             PROVE  IInv
  OBVIOUS
<1>1. EmptyLockList \in LockList /\ ListInv(EmptyLockList)
  <2>1. EmptyLockList \in LockList
    BY DEF EmptyLockList, LockList
  <2>2. GrantedPrefix(EmptyLockList) /\ WaitDieOrder(EmptyLockList) /\ OneRequestEach(EmptyLockList)
    BY DEF EmptyLockList, GrantedPrefix, WaitDieOrder, OneRequestEach
  <2>3. ListTypeIsRight(EmptyLockList)
    BY DEF EmptyLockList, ListTypeIsRight
  <2> QED
    BY <2>1, <2>2, <2>3 DEF ListInv
<1>2. \A r \in RID : lock_table[r] = EmptyLockList /\ Requests(r) = <<>>
  BY DEF Init, Requests, EmptyLockList
<1>3. TypeOK
  BY <1>1, Zenon DEF Init, TypeOK, TransactionState
<1>4. \A r \in RID : ListInv(lock_table[r]) /\ WaitersAreBlocked(r)
  BY <1>1, <1>2 DEF WaitersAreBlocked
<1> QED
  BY <1>3, <1>4 DEF IInv, LockTableInv, Init

\* Every step of the lock manager and of its callers preserves the invariant.
LEMMA NextInv == IInv /\ [Next]_vars => IInv'
<1> SUFFICES ASSUME IInv, [Next]_vars
             PROVE  IInv'
  OBVIOUS
<1>1. CASE UNCHANGED vars
  BY <1>1, StutterStep
<1>2. ASSUME NEW t \in TxnId,
             NewTransaction(t) \/ \E s \in {"COMMITTED", "ABORTED"} : SetState(t, s)
      PROVE  IInv'
  BY <1>2, StateStep
<1>3. ASSUME NEW t \in TxnId, NEW r \in RID, AskShared(t, r)
      PROVE  IInv'
  BY <1>3, AskSharedStep
<1>4. ASSUME NEW t \in TxnId, NEW r \in RID, AskExclusive(t, r)
      PROVE  IInv'
  BY <1>4, AskExclusiveStep
<1>5. ASSUME NEW t \in TxnId, NEW r \in RID, AskUpgrade(t, r)
      PROVE  IInv'
  BY <1>5, AskUpgradeStep
<1>6. ASSUME NEW t \in TxnId, NEW r \in RID, Release(t, r)
      PROVE  IInv'
  BY <1>6, ReleaseStep
<1>7. ASSUME NEW t \in TxnId, Wake(t)
      PROVE  IInv'
  BY <1>7, WakeStep
<1> QED
  BY <1>1, <1>2, <1>3, <1>4, <1>5, <1>6, <1>7, Zenon DEF Next

(***************************************************************************)
(* The theorems.                                                           *)
(***************************************************************************)
\* The lock table, the lock sets and the blocked calls stay consistent, whatever
\* the transactions do (LockShared, LockExclusive, LockUpgrade and Unlock of
\* lock_manager.cpp): the inductive invariant of the lock manager.
THEOREM Invariance == Spec => [](TypeOK /\ LockTableInv)
<1>1. Init => IInv
  BY InitInv
<1>2. IInv /\ [Next]_vars => IInv'
  BY NextInv
<1> QED
  BY <1>1, <1>2, PTL DEF Spec, IInv

\* A step is of one transaction, and takes no lock from another that is not
\* blocked and gives it none.
LocksAreKept == \E t \in TxnId : OthersHold(t)

\* This holds of every step of every transaction: Unlock, and the grants it makes
\* to those who wait (lock_manager.cpp), touch nobody else's locks.
THEOREM OthersKeepTheirLocks == Spec => [][LocksAreKept]_vars
<1>1. IInv /\ [Next]_vars => [LocksAreKept]_vars
  <2> SUFFICES ASSUME IInv, Next
               PROVE  \E t \in TxnId : OthersHold(t)
    BY DEF LocksAreKept
  <2>1. ASSUME NEW t \in TxnId,
               NewTransaction(t) \/ \E s \in {"COMMITTED", "ABORTED"} : SetState(t, s)
        PROVE  OthersHold(t)
    BY <2>1, StateStep
  <2>2. ASSUME NEW t \in TxnId, NEW r \in RID,
               AskShared(t, r) \/ AskExclusive(t, r) \/ AskUpgrade(t, r) \/ Release(t, r)
        PROVE  OthersHold(t)
    BY <2>2, AskSharedStep, AskExclusiveStep, AskUpgradeStep, ReleaseStep, Zenon
  <2>3. ASSUME NEW t \in TxnId, Wake(t)
        PROVE  OthersHold(t)
    BY <2>3, WakeStep
  <2> QED
    BY <2>1, <2>2, <2>3, Zenon DEF Next
<1> QED
  BY <1>1, Invariance, PTL DEF Spec, IInv

\* Every variable of the lock manager keeps its type.
THEOREM TypeCorrect == Spec => []TypeOK
  BY Invariance, PTL

\* The structure of every list, for every number of transactions and records.
THEOREM LockTableConsistent == Spec => []LockTableInv
  BY Invariance, PTL

\* No two granted requests on a record conflict, where the lists are in order.
LEMMA CompatibleLocks == IInv => LockCompatibility
<1> SUFFICES ASSUME IInv, NEW r \in RID, NEW i \in DOMAIN Requests(r),
                    NEW j \in DOMAIN Requests(r),
                    Requests(r)[i].grated_, Requests(r)[j].grated_,
                    Requests(r)[i].lock_type_ = "EXCLUSIVE"
             PROVE  i = j
  BY DEF LockCompatibility
<1> DEFINE L == lock_table[r]
<1>1. /\ DOMAIN Requests(r) = 1..Len(Requests(r)) /\ Len(Requests(r)) \in Nat
      /\ Requests(r) = L.lock_list_ /\ L \in LockList /\ ListInv(L)
  BY RequestFacts, Zenon
<1>2. i <= L.list_grant_cnt_ /\ j <= L.list_grant_cnt_ /\ L.lock_list_ # <<>>
  BY <1>1, ListFacts DEF ListInv, GrantedPrefix
<1>3. L.list_grant_cnt_ = 1
  <2>1. /\ L.list_lock_type_ \in LockType
        /\ L.list_lock_type_ = "EXCLUSIVE" => L.list_grant_cnt_ = 1
        /\ L.list_lock_type_ = "SHARED" =>
             \A k \in 1..L.list_grant_cnt_ : L.lock_list_[k].lock_type_ = "SHARED"
    BY <1>1, <1>2, Zenon DEF ListInv, ListTypeIsRight
  <2>2. i \in 1..L.list_grant_cnt_
    BY <1>1, <1>2, ListFacts
  <2>3. L.lock_list_[i].lock_type_ = "EXCLUSIVE"
    BY <1>1, Zenon
  <2> HIDE DEF L
  <2> QED
    BY <2>1, <2>2, <2>3, Zenon DEF LockType
<1> QED
  BY <1>1, <1>2, <1>3

\* An exclusive lock is never granted together with another lock on the record.
THEOREM Compatibility == Spec => []LockCompatibility
  BY CompatibleLocks, Invariance, PTL DEF IInv

\* Wait-die: whoever waits is older than whoever it waits for.
LEMMA OlderWaits ==
    ASSUME IInv, NEW t \in TxnId, NEW u \in TxnId, WaitsFor(t, u)
    PROVE  t < u
<1>1. PICK r \in RID : \E i, j \in DOMAIN Requests(r) :
        /\ i < j /\ Requests(r)[i].txn_ = u /\ Requests(r)[j].txn_ = t
        /\ ~Requests(r)[j].grated_ /\ t # u
  BY DEF WaitsFor
<1>2. WaitDieOrder(lock_table[r]) /\ Requests(r) = lock_table[r].lock_list_
  BY RequestFacts, Zenon DEF ListInv
<1>3. u >= t /\ t # u
  BY <1>1, <1>2 DEF WaitDieOrder
<1> QED
  BY <1>3, LockManagerAssumption DEF TxnId

\* Wait-die works: no set of transactions ever wait for each other, on any
\* number of records and with upgrades.
THEOREM DeadlockFreedom == Spec => []NoDeadlock
<1>1. IInv => NoDeadlock
  <2> SUFFICES ASSUME IInv, NEW C \in SUBSET TxnId, C # {},
                      \A t \in C : \E u \in C : WaitsFor(t, u)
               PROVE  FALSE
    BY DEF NoDeadlock
  <2>1. /\ 0 \in Int /\ MaxTxnId \in Int /\ C \in SUBSET (0..MaxTxnId)
        /\ \A u \in C : u \in Int
    BY LockManagerAssumption DEF TxnId
  <2>2. Max(C) \in C /\ \A u \in C : Max(C) >= u
    BY <2>1, MaxProperties, Zenon
  <2>3. PICK u \in C : WaitsFor(Max(C), u)
    BY <2>2
  <2>4. Max(C) < u
    BY <2>2, <2>3, OlderWaits
  <2>5. Max(C) >= u /\ u \in Int /\ Max(C) \in Int
    BY <2>1, <2>2, Zenon
  <2> QED
    BY <2>4, <2>5
<1> QED
  BY <1>1, Invariance, PTL DEF IInv

\* No grant is forgotten: the first waiter of a list is held up by an
\* incompatible lock of another transaction.
THEOREM NoForgottenWaiter == Spec => []FirstWaiterIsBlocked
<1>1. IInv => FirstWaiterIsBlocked
  <2> SUFFICES ASSUME IInv, NEW r \in RID, NEW j \in DOMAIN Requests(r),
                      ~Requests(r)[j].grated_,
                      \A i \in 1..(j - 1) : Requests(r)[i].grated_
               PROVE  \E i \in 1..(j - 1) :
                         /\ Requests(r)[i].txn_ # Requests(r)[j].txn_
                         /\ \/ Requests(r)[i].lock_type_ = "EXCLUSIVE"
                            \/ Requests(r)[j].lock_type_ = "EXCLUSIVE"
    BY DEF FirstWaiterIsBlocked
  <2> DEFINE L == lock_table[r]
             list == Requests(r)
             cnt == L.list_grant_cnt_
  <2>1. /\ DOMAIN list = 1..Len(list) /\ Len(list) \in Nat
        /\ list = L.lock_list_ /\ L \in LockList /\ ListInv(L) /\ cnt \in Nat
        /\ list # <<>>
    BY RequestFacts, ListFacts
  <2>2. /\ cnt > 0 /\ cnt <= Len(list)
        /\ \A i \in 1..Len(list) : list[i].grated_ <=> i <= cnt
    BY <2>1 DEF ListInv, GrantedPrefix
  <2>3. j = cnt + 1
    <3>1. j > cnt
      BY <2>1, <2>2
    <3>2. ~(cnt + 1 < j)
      <4> SUFFICES ASSUME cnt + 1 < j
                   PROVE  FALSE
        OBVIOUS
      <4>1. cnt + 1 \in 1..(j - 1) /\ cnt + 1 \in 1..Len(list)
        BY <2>1, <2>2
      <4> QED
        BY <4>1, <2>1, <2>2
    <3> QED
      BY <3>1, <3>2, <2>1
  <2>4. ASSUME NEW i \in 1..cnt, list[i].txn_ = list[j].txn_
        PROVE  list[i].lock_type_ = "SHARED" /\ list[j].lock_type_ = "EXCLUSIVE"
    <3>1. i \in 1..Len(list) /\ j \in 1..Len(list) /\ i < j
      BY <2>1, <2>2, <2>3, SMTT(30)
    <3> QED
      BY <3>1, <2>1, <2>4, Zenon DEF ListInv, OneRequestEach
  <2>5. CASE L.list_lock_type_ = "EXCLUSIVE"
    <3>1. list[1].lock_type_ = "EXCLUSIVE" /\ cnt = 1
      BY <2>1, <2>5 DEF ListInv, ListTypeIsRight
    <3>2. list[1].txn_ # list[j].txn_
      BY <2>4, <3>1
    <3>3. 1 \in 1..(j - 1)
      BY <2>3, <3>1
    <3> QED
      BY <3>1, <3>2, <3>3, Zenon
  <2>6. CASE L.list_lock_type_ = "SHARED"
    <3>1. /\ list[j].lock_type_ = "EXCLUSIVE"
          /\ cnt = 1 => list[1].txn_ # list[2].txn_
      <4>1. cnt < Len(L.lock_list_) /\ cnt + 1 = j
        BY <2>1, <2>3
      <4> HIDE DEF cnt
      <4> QED
        BY <4>1, <2>1, <2>2, <2>3, <2>6, Zenon DEF ListInv, ListTypeIsRight, cnt
    <3>2. CASE cnt = 1
      <4>1. 1 \in 1..(j - 1) /\ j = 2
        BY <2>3, <3>2
      <4> QED
        BY <4>1, <3>1, <3>2, Zenon
    <3>3. CASE cnt > 1
      <4>1. /\ 1 \in 1..(j - 1) /\ 2 \in 1..(j - 1)
            /\ 1 \in 1..Len(list) /\ 2 \in 1..Len(list)
            /\ list[2].grated_
        <5>1. 1 \in 1..(j - 1) /\ 2 \in 1..(j - 1) /\ 1 \in 1..Len(list) /\ 2 \in 1..Len(list)
          BY <2>1, <2>3, <3>3
        <5> QED
          BY <2>2, <5>1, Zenon
      <4>2. list[1].txn_ # list[2].txn_
        <5>1. /\ OneRequestEach(L) /\ list = L.lock_list_ /\ DOMAIN list = 1..Len(list)
              /\ list[2].grated_
          BY <2>1, <4>1, Zenon DEF ListInv
        <5>2. 1 < 2 /\ 1 \in DOMAIN L.lock_list_ /\ 2 \in DOMAIN L.lock_list_
          BY <4>1, <5>1
        <5>3. L.lock_list_[1].txn_ = L.lock_list_[2].txn_ => ~L.lock_list_[2].grated_
          BY <5>1, <5>2, Zenon DEF OneRequestEach
        <5> QED
          BY <5>1, <5>3, Zenon
      <4> QED
        BY <4>1, <4>2, <3>1
    <3>4. cnt = 1 \/ cnt > 1
      <4> HIDE DEF cnt
      <4> QED
        BY <2>1, <2>2
    <3> QED
      BY <3>2, <3>3, <3>4, Zenon
  <2> QED
    BY <2>1, <2>5, <2>6, Zenon DEF ListInv, ListTypeIsRight, LockType
<1> QED
  BY <1>1, Invariance, PTL DEF IInv

\* The lock sets of a growing transaction are the locks that it holds.
THEOREM LockSetsRight == Spec => []LockSetsAreHeld
<1>1. IInv => LockSetsAreHeld
  BY DEF IInv, LockTableInv, LockSetsAreHeld, SetsAgree
<1> QED
  BY <1>1, Invariance, PTL DEF IInv

\* No assertion of the lock manager fails when it is built without strict
\* two-phase locking.
THEOREM AssertionsHold == ~Strict => (Spec => []NoAssertFails)
<1>1. ~Strict /\ IInv => NoAssertFails
  BY DEF IInv, LockTableInv, NoAssertFails
<1>2. ASSUME ~Strict
      PROVE  Spec => []NoAssertFails
  <2>1. IInv => NoAssertFails
    BY <1>1, <1>2
  <2> QED
    BY <2>1, Invariance, PTL DEF IInv
<1> QED
  BY <1>2
=============================================================================
