------------------------- MODULE TransactionManager -------------------------
(***************************************************************************)
(* The transaction manager (src/src/concurrency/transaction_manager.cpp)   *)
(* on top of the lock manager: ids are handed out in order, Commit and     *)
(* Abort walk the write set backwards and then release every lock that the *)
(* transaction's own lock sets name.                                       *)
(*                                                                         *)
(* Commit and Abort hold no latch over their loops: each Unlock is a step, *)
(* and other transactions run between two of them. Of the table heap they  *)
(* call, only what reaches the lock manager is modelled here.              *)
(***************************************************************************)
EXTENDS LockManager

CONSTANTS
    WTypes,      \* the kinds of write that transactions do
    MaxWrites,   \* bound on the length of a write set
    MaxRequests, \* bound on the requests in all lock lists together
    Logging      \* ENABLE_LOGGING: the table takes tuple locks only when set

ASSUME TransactionManagerAssumption ==
    /\ WTypes \subseteq {"INSERT", "DELETE", "UPDATE"}
    /\ MaxWrites \in Nat /\ MaxRequests \in Nat
    /\ Logging \in BOOLEAN

VARIABLES
    next_txn_id,  \* next_txn_id_
    phase,        \* where the thread of each transaction is
    write_set,    \* the transaction's writes, in order
    lock_set      \* the locks that Commit or Abort still has to release

tmVars == <<next_txn_id, phase, write_set, lock_set>>
allVars == <<vars, tmVars>>

WriteRecord == [rid_: RID, wtype_: WTypes]

TMInit ==
    /\ Init
    /\ next_txn_id = 0
    /\ phase = [t \in TxnId |-> "none"]
    /\ write_set = [t \in TxnId |-> <<>>]
    /\ lock_set = [t \in TxnId |-> {}]

Mut_TakesTwoIds(t) ==
    /\ t = next_txn_id
    /\ NewTransaction(t)
    /\ next_txn_id' = next_txn_id + 2
    /\ phase' = [phase EXCEPT ![t] = "running"]
    /\ UNCHANGED <<write_set, lock_set>>

Begin(t) ==
    /\ t = next_txn_id
    /\ NewTransaction(t)
    /\ next_txn_id' = next_txn_id + 1
    /\ phase' = [phase EXCEPT ![t] = "running"]
    /\ UNCHANGED <<write_set, lock_set>>

RequestCount == MapThenSumSet(LAMBDA r : Len(Requests(r)), RID)

\* The calls a running transaction makes on its way through the table.
Operate(t) ==
    /\ phase[t] = "running"
    /\ RequestCount < MaxRequests
    /\ \E r \in RID : \/ AskShared(t, r)
                      \/ AskExclusive(t, r)
                      \/ AskUpgrade(t, r)
    /\ UNCHANGED tmVars

Awake(t) == Wake(t) /\ UNCHANGED tmVars

\* The table has written a tuple and remembers it: under its exclusive lock, or
\* without any when tuple locks are off.
Write(t, r, wtype) ==
    /\ phase[t] = "running"
    /\ Idle(t)
    /\ state[t] = "GROWING"
    /\ Logging => r \in exclusive_lock_set[t]
    /\ Len(write_set[t]) < MaxWrites
    /\ write_set' = [write_set EXCEPT ![t] =
                        Append(@, [rid_ |-> r, wtype_ |-> wtype])]
    /\ UNCHANGED <<vars, next_txn_id, phase, lock_set>>

Commit(t) ==
    /\ phase[t] = "running"
    /\ SetState(t, "COMMITTED")
    /\ phase' = [phase EXCEPT ![t] = "draining"]
    /\ UNCHANGED <<next_txn_id, write_set, lock_set>>

Abort(t) ==
    /\ phase[t] = "running"
    /\ SetState(t, "ABORTED")
    /\ phase' = [phase EXCEPT ![t] = "draining"]
    /\ UNCHANGED <<next_txn_id, write_set, lock_set>>

Mut_UnlocksEveryWrite(t, wtype) == TRUE

\* The writes that Commit and Abort finish with TableHeap::ApplyDelete.
AppliesDelete(t, wtype) ==
    \/ state[t] = "COMMITTED" /\ wtype = "DELETE"
    \/ state[t] = "ABORTED" /\ wtype = "INSERT"

\* One round of the loop over the write set. ApplyDelete asks for the exclusive
\* lock when tuple locks are on, and unlocks the tuple.
Drain(t) ==
    LET item == Last(write_set[t]) IN
    /\ phase[t] = "draining" /\ ~crashed
    /\ write_set[t] # <<>>
    /\ write_set' = [write_set EXCEPT ![t] = Front(@)]
    /\ IF ~AppliesDelete(t, item.wtype_) THEN UNCHANGED vars
       ELSE IF Logging /\ item.rid_ \notin exclusive_lock_set[t] THEN Crash
       ELSE Unlock(t, item.rid_)
    /\ UNCHANGED <<next_txn_id, phase, lock_set>>

Mut_ForgetsShared(t) == exclusive_lock_set[t]

LocksToRelease(t) == shared_lock_set[t] \union exclusive_lock_set[t]

CollectLocks(t) ==
    /\ phase[t] = "draining" /\ ~crashed
    /\ write_set[t] = <<>>
    /\ lock_set' = [lock_set EXCEPT ![t] = LocksToRelease(t)]
    /\ phase' = [phase EXCEPT ![t] = "releasing"]
    /\ UNCHANGED <<vars, next_txn_id, write_set>>

\* One round of the release loop; an unordered_set has no order to rely on.
ReleaseNext(t) ==
    /\ phase[t] = "releasing" /\ ~crashed
    /\ \E r \in lock_set[t] :
          /\ Unlock(t, r)
          /\ lock_set' = [lock_set EXCEPT ![t] = @ \ {r}]
    /\ UNCHANGED <<next_txn_id, phase, write_set>>

Ended(t) == phase[t] = "releasing" /\ lock_set[t] = {}

Step(t) ==
    \/ Begin(t)
    \/ Operate(t)
    \/ Awake(t)
    \/ \E r \in RID, wtype \in WTypes : Write(t, r, wtype)
    \/ Commit(t)
    \/ Abort(t)
    \/ Drain(t)
    \/ CollectLocks(t)
    \/ ReleaseNext(t)

TMNext == \E t \in TxnId : Step(t)

TMSpec == TMInit /\ [][TMNext]_allVars

\* A thread that can go on does, and a transaction does not stay open for ever:
\* when its thread is not inside a lock call it commits or aborts in the end.
GoesOn(t) ==
    Awake(t) \/ Commit(t) \/ Abort(t) \/ Drain(t) \/ CollectLocks(t) \/ ReleaseNext(t)

TMFairness == \A t \in TxnId : WF_allVars(GoesOn(t))

FairTMSpec == TMSpec /\ TMFairness

(***************************************************************************)
(* Properties.                                                             *)
(***************************************************************************)
\* Every variable of the transaction manager keeps its type.
TMTypeOK ==
    /\ next_txn_id \in 0..(MaxTxnId + 1)
    /\ phase \in [TxnId -> {"none", "running", "draining", "releasing"}]
    /\ write_set \in [TxnId -> Seq(WriteRecord)]
    /\ lock_set \in [TxnId -> SUBSET RID]

\* A transaction that has committed or aborted has no request left in any list,
\* neither a lock nor a wait, whatever path it took: the lock sets Commit and
\* Abort work from have kept up with grants, upgrades and failed calls.
ReleaseIsComplete ==
    \A t \in TxnId : Ended(t) => \A r \in RID : ~HasRequest(t, r)

\* Locks are held to the end: between its first lock and its Commit or Abort a
\* transaction loses none, so it never works on a tuple another one can change.
HeldToTheEnd ==
    \A t \in TxnId : phase[t] \in {"running", "draining"} =>
        \A r \in shared_lock_set[t] \union exclusive_lock_set[t] : HoldsLock(t, r)

\* Every step of the transaction manager is one of the calls that the lock
\* manager allows its callers: it unlocks what is held, once, and after the end.
UsesLockManagerAsAllowed == Init /\ [][Next]_vars

(***************************************************************************)
(* What these properties need to be inductive: the lock sets of a          *)
(* transaction agree with its requests until its locks are collected, also *)
(* when it has died or committed, and then the locks that are still to be  *)
(* released are the ones that it holds.                                    *)
(***************************************************************************)
LocksAccountedFor(t) ==
    /\ phase[t] = "running" => state[t] \in {"GROWING", "ABORTED"}
    /\ phase[t] \in {"draining", "releasing"} =>
          state[t] \in {"COMMITTED", "ABORTED"} /\ call[t] = NoCall
    /\ phase[t] \in {"running", "draining"} => \A r \in RID : SetsAgree(t, r)
    /\ phase[t] = "releasing" => \A r \in RID : r \in lock_set[t] <=> HoldsLock(t, r)

TMInv == \A t \in TxnId : LocksAccountedFor(t)

\* Every transaction comes to the end of its Commit or Abort: time and again all
\* that have begun are over (an ended one stays so, and ids are not reused). So every
\* lock call that has to wait returns: no wake-up is lost, and waiting transactions
\* do not wait for each other.
EveryTransactionEnds == []<>(\A t \in TxnId : phase[t] # "none" => Ended(t))
=============================================================================
