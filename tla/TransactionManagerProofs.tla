---------------------- MODULE TransactionManagerProofs ----------------------
(***************************************************************************)
(* The transaction manager keeps its promises and uses the lock manager as *)
(* it may be used, for every number of transactions, records and writes,   *)
(* without strict two-phase locking and as long as the writes are updates: *)
(* the delete that Commit applies unlocks a tuple that is unlocked again.  *)
(***************************************************************************)
EXTENDS TransactionManager, LockManagerProofs

UpdatesOnly == ~Strict /\ WTypes \subseteq {"UPDATE"}

TInv == IInv /\ TMTypeOK /\ TMInv

(***************************************************************************)
(* The other transactions.                                                 *)
(***************************************************************************)
\* A transaction has a lock when it has it in one of the two modes.
LEMMA HeldInSomeMode ==
    ASSUME NEW list \in Seq(TransactionInfo), NEW t
    PROVE  (\E i \in DOMAIN list : list[i].txn_ = t /\ list[i].grated_)
           <=> HoldsIn(list, t, "SHARED") \/ HoldsIn(list, t, "EXCLUSIVE")
<1>1. \A i \in DOMAIN list : list[i].lock_type_ \in {"SHARED", "EXCLUSIVE"}
  <2>1. \A i \in DOMAIN list : list[i] \in TransactionInfo
    OBVIOUS
  <2> QED
    BY <2>1 DEF TransactionInfo, LockType
<1> QED
  BY <1>1 DEF HoldsIn

\* A call of t leaves state, lock sets and call of the others alone.
LeavesOthers(t) ==
    \A u \in TxnId \ {t} :
        /\ state'[u] = state[u] /\ call'[u] = call[u]
        /\ shared_lock_set'[u] = shared_lock_set[u]
        /\ exclusive_lock_set'[u] = exclusive_lock_set[u]

\* WaitOrDie, the grants and Crash leave them alone.
LEMMA RequestsLeaveOthers ==
    ASSUME TypeOK, NEW t \in TxnId, NEW r \in RID,
           \/ GrantShared(t, r) \/ GrantExclusive(t, r) \/ UpgradeInPlace(t, r)
           \/ \E type \in LockType, op \in {"LockShared", "LockExclusive", "LockUpgrade"} :
                 WaitOrDie(t, r, type, op)
           \/ Crash \/ UNCHANGED vars
    PROVE  LeavesOthers(t)
<1>1. CASE GrantShared(t, r) \/ GrantExclusive(t, r)
  BY <1>1 DEF GrantShared, GrantExclusive, LeavesOthers, TypeOK
<1>2. CASE UpgradeInPlace(t, r)
  BY <1>2 DEF UpgradeInPlace, LeavesOthers, TypeOK
<1>3. ASSUME NEW type \in LockType, NEW op \in {"LockShared", "LockExclusive", "LockUpgrade"},
             WaitOrDie(t, r, type, op)
      PROVE  LeavesOthers(t)
  BY <1>3, Zenon DEF WaitOrDie, LeavesOthers, TypeOK
<1>4. CASE Crash \/ UNCHANGED vars
  BY <1>4 DEF Crash, vars, LeavesOthers
<1> QED
  BY <1>1, <1>2, <1>3, <1>4

\* So does every call of the lock manager's callers.
LEMMA CallsLeaveOthers ==
    ASSUME TypeOK, NEW t \in TxnId,
           \/ NewTransaction(t)
           \/ \E s \in {"COMMITTED", "ABORTED"} : SetState(t, s)
           \/ \E r \in RID : AskShared(t, r) \/ AskExclusive(t, r) \/ AskUpgrade(t, r)
           \/ \E r \in RID : Unlock(t, r)
           \/ Wake(t)
    PROVE  LeavesOthers(t)
<1>1. CASE NewTransaction(t)
  BY <1>1 DEF NewTransaction, LeavesOthers, TypeOK
<1>2. ASSUME NEW s \in {"COMMITTED", "ABORTED"}, SetState(t, s)
      PROVE  LeavesOthers(t)
  BY <1>2 DEF SetState, LeavesOthers, TypeOK
<1>3. ASSUME NEW r \in RID, AskShared(t, r)
      PROVE  LeavesOthers(t)
  <2>1. \/ GrantShared(t, r) \/ WaitOrDie(t, r, "SHARED", "LockShared")
        \/ Crash \/ UNCHANGED vars
    BY <1>3, Zenon DEF AskShared, LockShared, ShareBehindOthers
  <2> QED
    BY <2>1, RequestsLeaveOthers DEF LockType
<1>4. ASSUME NEW r \in RID, AskExclusive(t, r)
      PROVE  LeavesOthers(t)
  <2>1. \/ GrantExclusive(t, r) \/ WaitOrDie(t, r, "EXCLUSIVE", "LockExclusive")
        \/ Crash \/ UNCHANGED vars
    BY <1>4, Zenon DEF AskExclusive, LockExclusive
  <2> QED
    BY <2>1, RequestsLeaveOthers DEF LockType
<1>5. ASSUME NEW r \in RID, AskUpgrade(t, r)
      PROVE  LeavesOthers(t)
  <2>1. \/ UpgradeInPlace(t, r) \/ WaitOrDie(t, r, "EXCLUSIVE", "LockUpgrade") \/ Crash
    BY <1>5, Zenon DEF AskUpgrade, LockUpgrade
  <2> QED
    BY <2>1, RequestsLeaveOthers DEF LockType
<1>6. ASSUME NEW r \in RID, Unlock(t, r)
      PROVE  LeavesOthers(t)
  BY <1>6 DEF Unlock, Crash, LeavesOthers, TypeOK
<1>7. CASE Wake(t)
  BY <1>7 DEF Wake, LeavesOthers, TypeOK
<1> QED
  BY <1>1, <1>2, <1>3, <1>4, <1>5, <1>6, <1>7, Zenon

\* The locks of the others stay accounted for: what they hold does not change
\* while they are not blocked, and a blocked one is growing.
LEMMA OthersStep ==
    ASSUME TInv, IInv', NEW t \in TxnId, OthersHold(t), LeavesOthers(t),
           NEW u \in TxnId \ {t}, phase'[u] = phase[u], lock_set'[u] = lock_set[u]
    PROVE  LocksAccountedFor(u)'
<1>1. LocksAccountedFor(u)
  BY DEF TInv, TMInv
<1>2. /\ state'[u] = state[u] /\ call'[u] = call[u]
      /\ shared_lock_set'[u] = shared_lock_set[u]
      /\ exclusive_lock_set'[u] = exclusive_lock_set[u]
  BY DEF LeavesOthers
<1>3. ASSUME call[u] = NoCall, NEW r \in RID
      PROVE  /\ HoldsIn(Requests(r), u, "SHARED")' <=> HoldsIn(Requests(r), u, "SHARED")
             /\ HoldsIn(Requests(r), u, "EXCLUSIVE")' <=> HoldsIn(Requests(r), u, "EXCLUSIVE")
  BY <1>3 DEF OthersHold, LockType
<1>4. ASSUME phase[u] \in {"running", "draining"}, NEW r \in RID
      PROVE  SetsAgree(u, r)'
  <2>1. CASE call[u] = NoCall
    <3>1. SetsAgree(u, r)
      BY <1>1, <1>4 DEF LocksAccountedFor
    <3> QED
      BY <1>2, <1>3, <2>1, <3>1 DEF SetsAgree
  <2>2. CASE call[u] # NoCall
    <3>1. state'[u] = "GROWING"
      BY <1>2, <2>2 DEF TInv, IInv, LockTableInv
    <3> QED
      BY <3>1 DEF IInv, LockTableInv
  <2> QED
    BY <2>1, <2>2
<1>5. ASSUME phase[u] = "releasing", NEW r \in RID
      PROVE  HoldsLock(u, r)' <=> HoldsLock(u, r)
  <2>1. call[u] = NoCall
    BY <1>1, <1>5 DEF LocksAccountedFor
  <2>2. Requests(r) \in Seq(TransactionInfo) /\ Requests(r)' \in Seq(TransactionInfo)
    BY DEF TInv, IInv, TypeOK, Requests, LockList
  <2>3. HoldsLock(u, r) <=> HoldsIn(Requests(r), u, "SHARED") \/ HoldsIn(Requests(r), u, "EXCLUSIVE")
    BY <2>2, HeldInSomeMode DEF HoldsLock
  <2>4. HoldsLock(u, r)' <=> \/ HoldsIn(Requests(r), u, "SHARED")'
                             \/ HoldsIn(Requests(r), u, "EXCLUSIVE")'
    BY <2>2, HeldInSomeMode DEF HoldsLock
  <2> QED
    BY <1>3, <2>1, <2>3, <2>4
<1> QED
  BY <1>1, <1>2, <1>4, <1>5 DEF LocksAccountedFor

(***************************************************************************)
(* The transaction that takes the step.                                    *)
(***************************************************************************)
\* A lock call leaves its caller growing, or with all its locks as they were: a
\* transaction that dies loses none, and one that has died gets none.
LEMMA AskOwn ==
    ASSUME TypeOK, NEW t \in TxnId, NEW r \in RID,
           AskShared(t, r) \/ AskExclusive(t, r) \/ AskUpgrade(t, r), ~crashed'
    PROVE  \/ state'[t] = "GROWING"
           \/ /\ state'[t] = "ABORTED"
              /\ UNCHANGED <<lock_table, shared_lock_set, exclusive_lock_set, call>>
<1>1. state[t] \in {"GROWING", "ABORTED"} /\ state \in [TxnId -> TransactionState]
  BY DEF AskShared, AskExclusive, AskUpgrade, TypeOK
<1>2. ASSUME NEW type, NEW op, WaitOrDie(t, r, type, op), state[t] = "GROWING"
      PROVE  \/ state'[t] = "GROWING"
             \/ /\ state'[t] = "ABORTED"
                /\ UNCHANGED <<lock_table, shared_lock_set, exclusive_lock_set, call>>
  BY <1>1, <1>2, Zenon DEF WaitOrDie
<1>3. ASSUME GrantShared(t, r) \/ GrantExclusive(t, r) \/ UpgradeInPlace(t, r),
             state[t] = "GROWING"
      PROVE  state'[t] = "GROWING"
  BY <1>3 DEF GrantShared, GrantExclusive, UpgradeInPlace
<1>4. CASE UNCHANGED vars
  BY <1>1, <1>4 DEF vars
<1>5. ~Crash
  BY DEF Crash
<1>6. CASE state[t] = "ABORTED"
  <2>1. UNCHANGED vars
    BY <1>6 DEF AskShared, LockShared, AskExclusive, LockExclusive, AskUpgrade
  <2> QED
    BY <1>4, <2>1
<1>7. CASE state[t] = "GROWING"
  <2>1. CASE AskShared(t, r)
    <3>1. \/ GrantShared(t, r) \/ WaitOrDie(t, r, "SHARED", "LockShared") \/ UNCHANGED vars
      BY <1>5, <2>1, Zenon DEF AskShared, LockShared, ShareBehindOthers
    <3> QED
      BY <1>2, <1>3, <1>4, <1>7, <3>1
  <2>2. CASE AskExclusive(t, r)
    <3>1. \/ GrantExclusive(t, r) \/ WaitOrDie(t, r, "EXCLUSIVE", "LockExclusive")
          \/ UNCHANGED vars
      BY <1>5, <2>2, Zenon DEF AskExclusive, LockExclusive
    <3> QED
      BY <1>2, <1>3, <1>4, <1>7, <3>1
  <2>3. CASE AskUpgrade(t, r)
    <3>1. UpgradeInPlace(t, r) \/ WaitOrDie(t, r, "EXCLUSIVE", "LockUpgrade")
      BY <1>5, <2>3, Zenon DEF AskUpgrade, LockUpgrade
    <3> QED
      BY <1>2, <1>3, <1>7, <3>1
  <2> QED
    BY <2>1, <2>2, <2>3
<1> QED
  BY <1>1, <1>6, <1>7

\* Begin: a new transaction has no lock and says so.
LEMMA BeginStep ==
    ASSUME UpdatesOnly, TInv, NEW t \in TxnId, Begin(t)
    PROVE  [Next]_vars /\ TInv'
<1>1. NewTransaction(t) /\ IInv' /\ OthersHold(t) /\ LeavesOthers(t)
  BY StateStep, CallsLeaveOthers DEF Begin, TInv, IInv
<1>2. TMTypeOK'
  BY LockManagerAssumption DEF Begin, TInv, TMTypeOK, TxnId
<1>3. phase'[t] = "running" /\ \A u \in TxnId \ {t} : phase'[u] = phase[u]
  BY DEF Begin, TInv, TMTypeOK
<1>4. lock_set' = lock_set /\ state'[t] = "GROWING"
  BY <1>1 DEF Begin, NewTransaction, TInv, IInv, TypeOK
<1>5. LocksAccountedFor(t)'
  BY <1>1, <1>3, <1>4 DEF LocksAccountedFor, IInv, LockTableInv
<1>6. \A u \in TxnId \ {t} : LocksAccountedFor(u)'
  BY <1>1, <1>3, <1>4, OthersStep
<1>7. Next
  BY <1>1 DEF Next
<1> QED
  BY <1>1, <1>2, <1>5, <1>6, <1>7 DEF TInv, TMInv

\* Operate: the lock calls on the way through the table.
LEMMA OperateStep ==
    ASSUME UpdatesOnly, TInv, NEW t \in TxnId, Operate(t)
    PROVE  [Next]_vars /\ TInv'
<1>1. PICK r \in RID : AskShared(t, r) \/ AskExclusive(t, r) \/ AskUpgrade(t, r)
  BY DEF Operate
<1>2. IInv' /\ OthersHold(t)
  BY <1>1, AskSharedStep, AskExclusiveStep, AskUpgradeStep DEF TInv
<1>3. LeavesOthers(t) /\ UNCHANGED tmVars /\ phase[t] = "running" /\ TypeOK
  BY <1>1, CallsLeaveOthers DEF Operate, TInv, IInv
<1>4. ~crashed'
  BY <1>2 DEF IInv, LockTableInv, UpdatesOnly
<1>5. LocksAccountedFor(t)'
  <2>1. CASE state'[t] = "GROWING"
    BY <1>2, <1>3, <2>1 DEF LocksAccountedFor, IInv, LockTableInv, tmVars
  <2>2. CASE /\ state'[t] = "ABORTED"
             /\ UNCHANGED <<lock_table, shared_lock_set, exclusive_lock_set, call>>
    <3>1. \A s \in RID : SetsAgree(t, s)
      BY <1>3 DEF TInv, TMInv, LocksAccountedFor
    <3>2. \A s \in RID : SetsAgree(t, s)'
      BY <2>2, <3>1 DEF SetsAgree, Requests
    <3> QED
      BY <1>3, <2>2, <3>2 DEF LocksAccountedFor, tmVars
  <2> QED
    BY <1>1, <1>3, <1>4, <2>1, <2>2, AskOwn, Zenon
<1>6. \A u \in TxnId \ {t} : LocksAccountedFor(u)'
  BY <1>2, <1>3, OthersStep DEF tmVars
<1>7. Next
  BY <1>1 DEF Next
<1>8. TMTypeOK'
  BY <1>3 DEF TInv, TMTypeOK, tmVars
<1> QED
  BY <1>2, <1>5, <1>6, <1>7, <1>8 DEF TInv, TMInv

\* Awake: a call that has waited returns, to a transaction that is growing.
LEMMA AwakeStep ==
    ASSUME UpdatesOnly, TInv, NEW t \in TxnId, Awake(t)
    PROVE  [Next]_vars /\ TInv'
<1>1. Wake(t) /\ IInv' /\ OthersHold(t) /\ LeavesOthers(t) /\ UNCHANGED tmVars
  BY WakeStep, CallsLeaveOthers DEF Awake, TInv, IInv
<1>2. state'[t] = "GROWING" /\ call[t] # NoCall
  BY <1>1 DEF Wake, TInv, IInv, LockTableInv
<1>3. phase[t] \notin {"draining", "releasing"}
  BY <1>2 DEF TInv, TMInv, LocksAccountedFor
<1>4. LocksAccountedFor(t)'
  BY <1>1, <1>2, <1>3 DEF LocksAccountedFor, IInv, LockTableInv, tmVars
<1>5. \A u \in TxnId \ {t} : LocksAccountedFor(u)'
  BY <1>1, OthersStep DEF tmVars
<1>6. TMTypeOK' /\ Next
  BY <1>1 DEF TInv, TMTypeOK, tmVars, Next
<1> QED
  BY <1>1, <1>4, <1>5, <1>6 DEF TInv, TMInv

\* Commit and Abort mark the transaction as ended; its locks stay as they are.
LEMMA EndStep ==
    ASSUME UpdatesOnly, TInv, NEW t \in TxnId, Commit(t) \/ Abort(t)
    PROVE  [Next]_vars /\ TInv'
<1>1. PICK s \in {"COMMITTED", "ABORTED"} : SetState(t, s)
  BY DEF Commit, Abort
<1>2. /\ phase[t] = "running" /\ phase' = [phase EXCEPT ![t] = "draining"]
      /\ UNCHANGED <<next_txn_id, write_set, lock_set>>
  BY DEF Commit, Abort
<1>3. IInv' /\ OthersHold(t) /\ LeavesOthers(t)
  BY <1>1, StateStep, CallsLeaveOthers DEF TInv, IInv
<1>4. TMTypeOK'
  BY <1>2 DEF TInv, TMTypeOK
<1>5. phase'[t] = "draining" /\ \A u \in TxnId \ {t} : phase'[u] = phase[u]
  BY <1>2 DEF TInv, TMTypeOK
<1>6. /\ state'[t] = s /\ call'[t] = NoCall
      /\ UNCHANGED <<lock_table, shared_lock_set, exclusive_lock_set, call>>
  BY <1>1 DEF SetState, Idle, TInv, IInv, TypeOK
<1>7. LocksAccountedFor(t)'
  <2>1. \A r \in RID : SetsAgree(t, r)
    BY <1>2 DEF TInv, TMInv, LocksAccountedFor
  <2>2. \A r \in RID : SetsAgree(t, r)'
    BY <1>6, <2>1 DEF SetsAgree, Requests
  <2> QED
    BY <1>5, <1>6, <2>2, Zenon DEF LocksAccountedFor
<1>8. \A u \in TxnId \ {t} : LocksAccountedFor(u)'
  BY <1>2, <1>3, <1>5, OthersStep
<1>9. Next
  BY <1>1 DEF Next
<1> QED
  BY <1>3, <1>4, <1>7, <1>8, <1>9, Zenon DEF TInv, TMInv

\* Steps that leave the lock manager alone keep what does not change.
LEMMA SameLocks ==
    ASSUME TInv, UNCHANGED vars, NEW u \in TxnId,
           phase'[u] = phase[u], lock_set'[u] = lock_set[u]
    PROVE  LocksAccountedFor(u)'
<1>1. LocksAccountedFor(u)
  BY DEF TInv, TMInv
<1>2. \A r \in RID : /\ SetsAgree(u, r)' <=> SetsAgree(u, r)
                     /\ HoldsLock(u, r)' <=> HoldsLock(u, r)
  BY DEF vars, SetsAgree, HoldsLock, Requests
<1> QED
  BY <1>1, <1>2 DEF LocksAccountedFor, vars

\* Write and Drain change write sets only: an update needs no delete to be
\* applied, at the commit or at the abort.
LEMMA WriteSetStep ==
    ASSUME UpdatesOnly, TInv, NEW t \in TxnId,
           Drain(t) \/ \E r \in RID, wtype \in WTypes : Write(t, r, wtype)
    PROVE  [Next]_vars /\ TInv'
<1>1. CASE Drain(t)
  <2> DEFINE w == write_set[t]
  <2>1. w \in Seq(WriteRecord) /\ w # <<>> /\ Len(w) \in Nat
    BY <1>1 DEF Drain, TInv, TMTypeOK
  <2>2. Last(w) \in WriteRecord
    <3>1. Len(w) \in 1..Len(w)
      BY <2>1
    <3> QED
      BY <2>1, <3>1 DEF Last
  <2>3. Front(w) \in Seq(WriteRecord)
    <3>1. Len(w) - 1 \in 0..Len(w)
      BY <2>1
    <3> QED
      BY <2>1, <3>1 DEF Front
  <2>4. ~AppliesDelete(t, Last(w).wtype_)
    BY <2>2 DEF AppliesDelete, WriteRecord, UpdatesOnly
  <2>5. /\ UNCHANGED <<vars, next_txn_id, phase, lock_set>>
        /\ write_set' = [write_set EXCEPT ![t] = Front(w)]
    BY <1>1, <2>4 DEF Drain
  <2>6. TMTypeOK'
    BY <2>3, <2>5 DEF TInv, TMTypeOK
  <2>7. IInv' /\ \A u \in TxnId : LocksAccountedFor(u)'
    BY <2>5, StutterStep, SameLocks DEF TInv
  <2> QED
    BY <2>5, <2>6, <2>7 DEF TInv, TMInv
<1>2. ASSUME NEW r \in RID, NEW wtype \in WTypes, Write(t, r, wtype)
      PROVE  [Next]_vars /\ TInv'
  <2>1. UNCHANGED <<vars, next_txn_id, phase, lock_set>>
    BY <1>2 DEF Write
  <2>2. Append(write_set[t], [rid_ |-> r, wtype_ |-> wtype]) \in Seq(WriteRecord)
    <3>1. write_set[t] \in Seq(WriteRecord)
      BY Zenon DEF TInv, TMTypeOK
    <3>2. [rid_ |-> r, wtype_ |-> wtype] \in WriteRecord
      BY DEF WriteRecord
    <3> QED
      BY <3>1, <3>2
  <2>3. TMTypeOK'
    BY <1>2, <2>1, <2>2 DEF Write, TInv, TMTypeOK
  <2>4. IInv' /\ \A u \in TxnId : LocksAccountedFor(u)'
    BY <2>1, StutterStep, SameLocks DEF TInv
  <2> QED
    BY <2>1, <2>3, <2>4, Zenon DEF TInv, TMInv
<1> QED
  BY <1>1, <1>2

\* CollectLocks: the two lock sets name the locks that the transaction holds.
LEMMA CollectStep ==
    ASSUME UpdatesOnly, TInv, NEW t \in TxnId, CollectLocks(t)
    PROVE  [Next]_vars /\ TInv'
<1>1. /\ phase[t] = "draining" /\ UNCHANGED <<vars, next_txn_id, write_set>>
      /\ lock_set' = [lock_set EXCEPT ![t] = LocksToRelease(t)]
      /\ phase' = [phase EXCEPT ![t] = "releasing"]
  BY DEF CollectLocks
<1>2. IInv'
  BY <1>1, StutterStep DEF TInv
<1>3. LocksToRelease(t) \subseteq RID
  BY DEF LocksToRelease, TInv, IInv, TypeOK
<1>4. TMTypeOK'
  BY <1>1, <1>3 DEF TInv, TMTypeOK
<1>5. /\ phase'[t] = "releasing" /\ lock_set'[t] = LocksToRelease(t)
      /\ \A u \in TxnId \ {t} : phase'[u] = phase[u] /\ lock_set'[u] = lock_set[u]
  BY <1>1 DEF TInv, TMTypeOK
<1>6. ASSUME NEW r \in RID
      PROVE  r \in LocksToRelease(t) <=> HoldsLock(t, r)
  <2>1. call[t] = NoCall /\ SetsAgree(t, r)
    BY <1>1 DEF TInv, TMInv, LocksAccountedFor
  <2>2. Requests(r) \in Seq(TransactionInfo)
    BY DEF TInv, IInv, TypeOK, Requests, LockList
  <2>3. HoldsLock(t, r) <=> HoldsIn(Requests(r), t, "SHARED") \/ HoldsIn(Requests(r), t, "EXCLUSIVE")
    BY <2>2, HeldInSomeMode, Zenon DEF HoldsLock
  <2> QED
    BY <2>1, <2>3 DEF SetsAgree, LocksToRelease
<1>7. LocksAccountedFor(t)'
  <2>1. state'[t] \in {"COMMITTED", "ABORTED"} /\ call'[t] = NoCall
    BY <1>1 DEF TInv, TMInv, LocksAccountedFor, vars
  <2>2. \A r \in RID : HoldsLock(t, r)' <=> HoldsLock(t, r)
    BY <1>1 DEF vars, HoldsLock, Requests
  <2> QED
    BY <1>5, <1>6, <2>1, <2>2, ZenonT(30) DEF LocksAccountedFor
<1>8. \A u \in TxnId \ {t} : LocksAccountedFor(u)'
  BY <1>1, <1>5, SameLocks, Zenon
<1> QED
  BY <1>1, <1>2, <1>4, <1>7, <1>8 DEF TInv, TMInv

\* ReleaseNext: Unlock is called for a lock that is held, and takes it away.
LEMMA ReleaseNextStep ==
    ASSUME UpdatesOnly, TInv, NEW t \in TxnId, ReleaseNext(t)
    PROVE  [Next]_vars /\ TInv'
<1>1. PICK r \in lock_set[t] :
        /\ Unlock(t, r)
        /\ lock_set' = [lock_set EXCEPT ![t] = @ \ {r}]
        /\ phase[t] = "releasing" /\ ~crashed
        /\ UNCHANGED <<next_txn_id, phase, write_set>>
  BY Zenon DEF ReleaseNext
<1>2. /\ r \in RID /\ HoldsLock(t, r) /\ call[t] = NoCall
      /\ state[t] \in {"COMMITTED", "ABORTED"}
      /\ \A s \in RID : s \in lock_set[t] <=> HoldsLock(t, s)
  <2>1. lock_set[t] \subseteq RID
    BY DEF TInv, TMTypeOK
  <2> QED
    BY <1>1, <2>1 DEF TInv, TMInv, LocksAccountedFor
<1>3. Release(t, r)
  BY <1>1, <1>2 DEF Release, Idle, UpdatesOnly
<1>4. IInv' /\ OthersHold(t) /\ (~crashed' => ~HasRequest(t, r)')
  BY <1>2, <1>3, ReleaseStep, Zenon DEF TInv
<1>5. LeavesOthers(t) /\ ~crashed'
  BY <1>1, <1>2, <1>4, CallsLeaveOthers, Zenon DEF TInv, IInv, LockTableInv, UpdatesOnly
<1>6. TMTypeOK'
  BY <1>1 DEF TInv, TMTypeOK
<1>7. /\ lock_set'[t] = lock_set[t] \ {r}
      /\ \A u \in TxnId \ {t} : phase'[u] = phase[u] /\ lock_set'[u] = lock_set[u]
  BY <1>1 DEF TInv, TMTypeOK
<1>8. /\ state' = state /\ call' = call
      /\ \A s \in RID \ {r} : lock_table'[s] = lock_table[s]
  BY <1>1, <1>2, <1>5, Zenon DEF Unlock, Crash, TInv, IInv, TypeOK
<1>9. ASSUME NEW s \in RID
      PROVE  s \in lock_set'[t] <=> HoldsLock(t, s)'
  <2>1. CASE s = r
    BY <1>4, <1>5, <1>7, <2>1, Zenon DEF HoldsLock, HasRequest
  <2>2. CASE s # r
    <3>1. HoldsLock(t, s)' <=> HoldsLock(t, s)
      BY <1>8, <2>2 DEF HoldsLock, Requests
    <3> QED
      BY <1>2, <1>7, <2>2, <3>1, Zenon
  <2> QED
    BY <2>1, <2>2, Zenon
<1>10. LocksAccountedFor(t)'
  BY <1>1, <1>2, <1>8, <1>9, Zenon DEF LocksAccountedFor
<1>11. \A u \in TxnId \ {t} : LocksAccountedFor(u)'
  BY <1>4, <1>5, <1>7, OthersStep, Zenon
<1>12. Next
  BY <1>2, <1>3 DEF Next
<1> QED
  BY <1>4, <1>6, <1>10, <1>11, <1>12, Zenon DEF TInv, TMInv

\* Initially no transaction has begun.
LEMMA TMInitInv == TMInit => TInv
<1> SUFFICES ASSUME TMInit
             PROVE  TInv
  OBVIOUS
<1>1. IInv
  BY InitInv DEF TMInit
<1>2. <<>> \in Seq(WriteRecord)
  OBVIOUS
<1>3. TMTypeOK
  BY <1>2, LockManagerAssumption DEF TMInit, TMTypeOK
<1>4. TMInv
  BY DEF TMInit, TMInv, LocksAccountedFor
<1> QED
  BY <1>1, <1>3, <1>4 DEF TInv

\* Every step of the transaction manager is one that the lock manager allows its
\* callers, and preserves the invariant.
LEMMA TMNextInv ==
    ASSUME UpdatesOnly, TInv, [TMNext]_allVars
    PROVE  [Next]_vars /\ TInv'
<1>1. ASSUME NEW t \in TxnId, Step(t)
      PROVE  [Next]_vars /\ TInv'
  <2>1. CASE Begin(t)
    BY <2>1, BeginStep, Zenon
  <2>2. CASE Operate(t)
    BY <2>2, OperateStep, Zenon
  <2>3. CASE Awake(t)
    BY <2>3, AwakeStep, Zenon
  <2>4. CASE Commit(t) \/ Abort(t)
    BY <2>4, EndStep, Zenon
  <2>5. CASE Drain(t) \/ \E r \in RID, wtype \in WTypes : Write(t, r, wtype)
    BY <2>5, WriteSetStep, Zenon
  <2>6. CASE CollectLocks(t)
    BY <2>6, CollectStep, Zenon
  <2>7. CASE ReleaseNext(t)
    BY <2>7, ReleaseNextStep, Zenon
  <2> QED
    BY <1>1, <2>1, <2>2, <2>3, <2>4, <2>5, <2>6, <2>7, Zenon DEF Step
<1>2. CASE UNCHANGED allVars
  <2>1. UNCHANGED vars /\ UNCHANGED tmVars
    BY <1>2 DEF allVars
  <2>2. IInv' /\ \A u \in TxnId : LocksAccountedFor(u)'
    BY <2>1, StutterStep, SameLocks DEF TInv, tmVars
  <2>3. TMTypeOK'
    BY <2>1 DEF TInv, TMTypeOK, tmVars
  <2> QED
    BY <2>1, <2>2, <2>3 DEF TInv, TMInv
<1> QED
  BY <1>1, <1>2 DEF TMNext

(***************************************************************************)
(* The theorems.                                                           *)
(***************************************************************************)
\* The inductive invariant of the two managers together: through Begin, the lock
\* calls, Commit and Abort (transaction_manager.cpp) every lock is accounted for.
THEOREM TransactionInvariance == UpdatesOnly => (TMSpec => []TInv)
<1>1. TMInit => TInv
  BY TMInitInv
<1>2. ASSUME UpdatesOnly
      PROVE  TMSpec => []TInv
  <2>1. TInv /\ [TMNext]_allVars => TInv'
    BY <1>2, TMNextInv
  <2> QED
    BY <1>1, <2>1, PTL DEF TMSpec
<1> QED
  BY <1>2

\* Every variable of the transaction manager keeps its type.
THEOREM TMTypeCorrect == UpdatesOnly => (TMSpec => []TMTypeOK)
<1>1. TInv => TMTypeOK
  BY DEF TInv
<1>2. ASSUME UpdatesOnly
      PROVE  TMSpec => []TMTypeOK
  <2>1. TMSpec => []TInv
    BY <1>2, TransactionInvariance
  <2> QED
    BY <1>1, <2>1, PTL
<1> QED
  BY <1>2

\* A transaction loses none of its locks before its Commit or Abort releases
\* them, also while it waits for an upgrade and after it has died.
THEOREM LocksHeldToTheEnd == UpdatesOnly => (TMSpec => []HeldToTheEnd)
<1>1. TInv => HeldToTheEnd
  <2> SUFFICES ASSUME TInv, NEW t \in TxnId, phase[t] \in {"running", "draining"},
                      NEW r \in shared_lock_set[t] \union exclusive_lock_set[t]
               PROVE  HoldsLock(t, r)
    BY DEF HeldToTheEnd
  <2>1. r \in RID
    BY DEF TInv, IInv, TypeOK
  <2>2. SetsAgree(t, r)
    BY <2>1 DEF TInv, TMInv, LocksAccountedFor
  <2>3. CASE call[t] = NoCall \/ call[t].rid # r
    BY <2>2, <2>3 DEF SetsAgree, HoldsIn, HoldsLock
  <2>4. CASE ~(call[t] = NoCall \/ call[t].rid # r)
    <3>1. call[t].op = "LockUpgrade" /\ AsksIn(Requests(r), t, call[t].op)
      BY <2>2, <2>4 DEF SetsAgree
    <3> QED
      BY <3>1 DEF AsksIn, HoldsIn, HoldsLock
  <2> QED
    BY <2>3, <2>4
<1>2. ASSUME UpdatesOnly
      PROVE  TMSpec => []HeldToTheEnd
  <2>1. TMSpec => []TInv
    BY <1>2, TransactionInvariance
  <2> QED
    BY <1>1, <2>1, PTL
<1> QED
  BY <1>2

\* A transaction that has committed or aborted leaves no request behind: what the
\* release loop works from names every lock that was granted to it.
THEOREM ReleasesEverything == UpdatesOnly => (TMSpec => []ReleaseIsComplete)
<1>1. TInv => ReleaseIsComplete
  <2> SUFFICES ASSUME TInv, NEW t \in TxnId, Ended(t), NEW r \in RID, HasRequest(t, r)
               PROVE  FALSE
    BY DEF ReleaseIsComplete
  <2>1. call[t] = NoCall /\ ~HoldsLock(t, r)
    BY DEF Ended, TInv, TMInv, LocksAccountedFor
  <2>2. PICK i \in DOMAIN Requests(r) : Requests(r)[i].txn_ = t
    BY DEF HasRequest
  <2>3. ~Requests(r)[i].grated_
    BY <2>1, <2>2 DEF HoldsLock
  <2>4. WaitersAreBlocked(r)
    BY DEF TInv, IInv, LockTableInv
  <2> QED
    BY <2>1, <2>2, <2>3, <2>4, Zenon DEF WaitersAreBlocked
<1>2. ASSUME UpdatesOnly
      PROVE  TMSpec => []ReleaseIsComplete
  <2>1. TMSpec => []TInv
    BY <1>2, TransactionInvariance
  <2> QED
    BY <1>1, <2>1, PTL
<1> QED
  BY <1>2

\* Every step of the transaction manager is one that the lock manager allows its
\* callers (or leaves it alone): the managers together implement the lock manager.
THEOREM UsesLockManager == UpdatesOnly => (TMSpec => UsesLockManagerAsAllowed)
<1>1. TMInit => Init
  BY DEF TMInit
<1>2. ASSUME UpdatesOnly
      PROVE  TMSpec => UsesLockManagerAsAllowed
  <2>1. TMSpec => []TInv
    BY <1>2, TransactionInvariance
  <2>2. TInv /\ [TMNext]_allVars => [Next]_vars
    BY <1>2, TMNextInv
  <2> QED
    BY <1>1, <2>1, <2>2, PTL DEF TMSpec, UsesLockManagerAsAllowed
<1> QED
  BY <1>2

\* So what holds of the lock manager holds under the transaction manager: its
\* locks are compatible, nobody waits in a circle or for nothing, and no assertion
\* of lock_manager.cpp fails.
THEOREM TransactionsAreSafe ==
    UpdatesOnly =>
        (TMSpec => [](LockCompatibility /\ NoDeadlock /\ FirstWaiterIsBlocked /\ NoAssertFails))
<1>1. ASSUME UpdatesOnly
      PROVE  TMSpec => [](LockCompatibility /\ NoDeadlock /\ FirstWaiterIsBlocked /\ NoAssertFails)
  <2>1. TMSpec => UsesLockManagerAsAllowed
    BY <1>1, UsesLockManager
  <2>2. UsesLockManagerAsAllowed => Spec
    BY DEF UsesLockManagerAsAllowed, Spec
  <2>3. Spec => []NoAssertFails
    BY <1>1, AssertionsHold DEF UpdatesOnly
  <2> QED
    BY <2>1, <2>2, <2>3, Compatibility, DeadlockFreedom, NoForgottenWaiter, PTL
<1> QED
  BY <1>1
=============================================================================
