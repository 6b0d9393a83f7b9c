---------------------------- MODULE LockManager ----------------------------
(***************************************************************************)
(* The tuple lock manager (src/src/concurrency/lock_manager.cpp): one FIFO *)
(* list of requests per record id, shared and exclusive locks, upgrades,   *)
(* and wait-die on the transaction id.                                     *)
(*                                                                         *)
(* Every call runs under lock_table_latch_ from its first line to its      *)
(* return or to the point where it starts to wait, so each is one action.  *)
(* A caller that waits gives the latch up and blocks on the promise of its *)
(* request; what it does after the promise is kept runs without the latch  *)
(* and is the action of its own Wake.                                      *)
(*                                                                         *)
(* A failed assert (asserts are compiled in: the build sets no NDEBUG) or  *)
(* a step of an iterator past the end stops the program: it sets crashed.  *)
(***************************************************************************)
EXTENDS Lists

CONSTANTS
    MaxTxnId,   \* the largest transaction id (txn_id_t is a bounded integer)
    RID,        \* the record ids that can be locked
    Strict      \* strict_2PL_, the constructor's argument

ASSUME LockManagerAssumption ==
    /\ MaxTxnId \in Nat
    /\ Strict \in BOOLEAN

TxnId == 0..MaxTxnId

VARIABLES
    lock_table,          \* rid -> LockList
    state,               \* TransactionState of each transaction
    shared_lock_set,     \* rids each transaction believes it holds shared
    exclusive_lock_set,  \* rids each transaction believes it holds exclusively
    call,                \* the lock call each transaction is blocked in
    crashed              \* an assertion has failed

vars == <<lock_table, state, shared_lock_set, exclusive_lock_set, call, crashed>>

LockType == {"SHARED", "EXCLUSIVE"}
TransactionState == {"NONE", "GROWING", "SHRINKING", "COMMITTED", "ABORTED"}

TransactionInfo == [txn_: TxnId, grated_: BOOLEAN, lock_type_: LockType]

LockList == [lock_list_: Seq(TransactionInfo),
             list_lock_type_: LockType \union {"EMPTY"},
             list_grant_cnt_: Nat]

EmptyLockList ==
    [lock_list_ |-> <<>>, list_lock_type_ |-> "EMPTY", list_grant_cnt_ |-> 0]

NoCall == [op |-> "none"]
BlockedCall == [op: {"LockShared", "LockExclusive", "LockUpgrade"}, rid: RID]

Requests(r) == lock_table[r].lock_list_

\* A transaction runs on one thread, which is inside at most one lock call.
Idle(t) == call[t] = NoCall /\ ~crashed

HoldsLock(t, r) ==
    \E i \in DOMAIN Requests(r) : Requests(r)[i].txn_ = t /\ Requests(r)[i].grated_

HasRequest(t, r) ==
    \E i \in DOMAIN Requests(r) : Requests(r)[i].txn_ = t

Init ==
    /\ lock_table = [r \in RID |-> EmptyLockList]
    /\ state = [t \in TxnId |-> "NONE"]
    /\ shared_lock_set = [t \in TxnId |-> {}]
    /\ exclusive_lock_set = [t \in TxnId |-> {}]
    /\ call = [t \in TxnId |-> NoCall]
    /\ crashed = FALSE

Crash ==
    /\ crashed' = TRUE
    /\ UNCHANGED <<lock_table, state, shared_lock_set, exclusive_lock_set, call>>

(***************************************************************************)
(* Requests.                                                               *)
(***************************************************************************)
Request(t, granted, type) ==
    [txn_ |-> t, grated_ |-> granted, lock_type_ |-> type]

Mut_ChecksHeadOnly(t, r) == Requests(r)[1].txn_ >= t

\* t may wait unless some request in the list belongs to an older transaction.
CheckForWaitDie(t, r) ==
    \A i \in DOMAIN Requests(r) : Requests(r)[i].txn_ >= t

Mut_GrantUncounted(t, r, type) ==
    lock_table' = [lock_table EXCEPT ![r].lock_list_ = Append(@, Request(t, TRUE, type)),
                                     ![r].list_lock_type_ = type]

\* A granted request is added to the end of the list.
PushGranted(t, r, type) ==
    lock_table' = [lock_table EXCEPT ![r] =
        [lock_list_ |-> Append(@.lock_list_, Request(t, TRUE, type)),
         list_lock_type_ |-> type,
         list_grant_cnt_ |-> @.list_grant_cnt_ + 1]]

\* The caller joins the end of the list and blocks, or dies.
WaitOrDie(t, r, type, op) ==
    \/ /\ CheckForWaitDie(t, r)
       /\ lock_table' = [lock_table EXCEPT ![r].lock_list_ =
                            Append(@, Request(t, FALSE, type))]
       /\ call' = [call EXCEPT ![t] = [op |-> op, rid |-> r]]
       /\ UNCHANGED <<state, shared_lock_set, exclusive_lock_set, crashed>>
    \/ /\ ~CheckForWaitDie(t, r)
       /\ state' = [state EXCEPT ![t] = "ABORTED"]
       /\ UNCHANGED <<lock_table, shared_lock_set, exclusive_lock_set, call, crashed>>

\* "the first one must be the exclusive one"
HeadIsExclusiveHolder(r) ==
    Requests(r)[1].grated_ /\ Requests(r)[1].lock_type_ = "EXCLUSIVE"

GrantShared(t, r) ==
    /\ PushGranted(t, r, "SHARED")
    /\ shared_lock_set' = [shared_lock_set EXCEPT ![t] = @ \union {r}]
    /\ UNCHANGED <<state, exclusive_lock_set, call, crashed>>

\* LockShared while other requests are in the list.
ShareBehindOthers(t, r) ==
    \/ /\ lock_table[r].list_lock_type_ = "SHARED"
       /\ ~Last(Requests(r)).grated_
       /\ WaitOrDie(t, r, "SHARED", "LockShared")
    \/ /\ lock_table[r].list_lock_type_ = "SHARED"
       /\ Last(Requests(r)).grated_
       /\ GrantShared(t, r)
    \/ /\ lock_table[r].list_lock_type_ # "SHARED"
       /\ IF ~HeadIsExclusiveHolder(r) THEN Crash
          ELSE IF Requests(r)[1].txn_ = t THEN UNCHANGED vars   \* reentrant
          ELSE WaitOrDie(t, r, "SHARED", "LockShared")

LockShared(t, r) ==
    /\ Idle(t)
    /\ IF state[t] = "SHRINKING" THEN Crash
       ELSE IF state[t] = "ABORTED" THEN UNCHANGED vars
       ELSE IF Requests(r) = <<>> THEN GrantShared(t, r)
       ELSE ShareBehindOthers(t, r)

GrantExclusive(t, r) ==
    /\ PushGranted(t, r, "EXCLUSIVE")
    /\ exclusive_lock_set' = [exclusive_lock_set EXCEPT ![t] = @ \union {r}]
    /\ UNCHANGED <<state, shared_lock_set, call, crashed>>

LockExclusive(t, r) ==
    /\ Idle(t)
    /\ IF state[t] = "SHRINKING" THEN Crash
       ELSE IF state[t] = "ABORTED" THEN UNCHANGED vars
       ELSE IF Requests(r) = <<>> THEN GrantExclusive(t, r)
       ELSE WaitOrDie(t, r, "EXCLUSIVE", "LockExclusive")

\* The only holder of a shared list becomes its exclusive holder in place.
UpgradeInPlace(t, r) ==
    /\ lock_table' = [lock_table EXCEPT ![r] =
          [@ EXCEPT !.lock_list_[1].lock_type_ = "EXCLUSIVE", !.list_lock_type_ = "EXCLUSIVE"]]
    /\ shared_lock_set' = [shared_lock_set EXCEPT ![t] = @ \ {r}]
    /\ exclusive_lock_set' = [exclusive_lock_set EXCEPT ![t] = @ \union {r}]
    /\ UNCHANGED <<state, call, crashed>>

\* Unlike the other two, LockUpgrade does not turn an aborted transaction away.
LockUpgrade(t, r) ==
    /\ Idle(t)
    /\ IF state[t] = "SHRINKING" \/ Requests(r) = <<>> THEN Crash
       ELSE IF /\ lock_table[r].list_lock_type_ = "SHARED"
               /\ lock_table[r].list_grant_cnt_ = 1
            THEN IF Requests(r)[1].txn_ = t THEN UpgradeInPlace(t, r) ELSE Crash
            ELSE WaitOrDie(t, r, "EXCLUSIVE", "LockUpgrade")

(***************************************************************************)
(* The promise of t's request has been kept: t goes on, without the latch. *)
(***************************************************************************)
Mut_KeepsShared(t) ==
    LET c == call[t] IN
    IF c.op = "LockShared" THEN shared_lock_set[t] \union {c.rid} ELSE shared_lock_set[t]

SharedAfterWake(t) ==
    LET c == call[t] IN
    CASE c.op = "LockShared"    -> shared_lock_set[t] \union {c.rid}
      [] c.op = "LockExclusive" -> shared_lock_set[t]
      [] c.op = "LockUpgrade"   -> shared_lock_set[t] \ {c.rid}

Wake(t) ==
    LET c == call[t] IN
    /\ c # NoCall /\ ~crashed
    /\ \E i \in DOMAIN Requests(c.rid) :
          /\ Requests(c.rid)[i].txn_ = t
          /\ Requests(c.rid)[i].grated_
          /\ c.op # "LockShared" => Requests(c.rid)[i].lock_type_ = "EXCLUSIVE"
    /\ call' = [call EXCEPT ![t] = NoCall]
    /\ IF state[t] = "ABORTED"
       THEN UNCHANGED <<shared_lock_set, exclusive_lock_set>>
       ELSE /\ shared_lock_set' = [shared_lock_set EXCEPT ![t] = SharedAfterWake(t)]
            /\ exclusive_lock_set' = [exclusive_lock_set EXCEPT ![t] =
                  IF c.op = "LockShared" THEN @ ELSE @ \union {c.rid}]
    /\ UNCHANGED <<lock_table, state, crashed>>

(***************************************************************************)
(* Unlock.                                                                 *)
(***************************************************************************)
\* The positions from n on that hold shared requests without a gap.
SharedRun(list, n) ==
    {i \in n..Len(list) : \A j \in n..i : list[j].lock_type_ = "SHARED"}

Grant(list, positions) ==
    [i \in DOMAIN list |-> IF i \in positions
                           THEN [list[i] EXCEPT !.grated_ = TRUE]
                           ELSE list[i]]

Mut_GrantsTheRest(list, n) ==
    IF list[n].lock_type_ = "SHARED" THEN Len(list) ELSE n

\* The last request granted when the turn passes to position n.
LastGranted(list, n) ==
    IF list[n].lock_type_ = "SHARED" THEN Max(SharedRun(list, n)) ELSE n

\* "the update part": the same transaction waits for a shared lock at n and for
\* an exclusive one right behind.
UpgradePair(list, n) ==
    /\ n < Len(list)
    /\ list[n].lock_type_ = "SHARED"
    /\ list[n + 1].lock_type_ = "EXCLUSIVE"
    /\ list[n].txn_ = list[n + 1].txn_

\* The request at i was the last one granted: it leaves and the turn passes on.
PassTurn(L, i) ==
    LET list == L.lock_list_
        next == i + 1
        rest == L.list_grant_cnt_ - 1
        last == LastGranted(list, next)
    IN  IF next > Len(list)
        THEN [L EXCEPT !.lock_list_ = RemoveAt(list, i), !.list_grant_cnt_ = rest]
        ELSE IF UpgradePair(list, next)
        THEN [lock_list_ |-> RemoveAt(RemoveAt(Grant(list, {next}), next), i),
              list_lock_type_ |-> "EXCLUSIVE",
              list_grant_cnt_ |-> rest + 1]
        ELSE [lock_list_ |-> RemoveAt(Grant(list, next..last), i),
              list_lock_type_ |-> list[next].lock_type_,
              list_grant_cnt_ |-> rest + (last - i)]

Mut_ForgetsUpgrade(L, i) ==
    [L EXCEPT !.lock_list_ = RemoveAt(L.lock_list_, i), !.list_grant_cnt_ = @ - 1]

\* The shared requests, other than the one at i, held by the third transaction.
SharedOfThird(list, i) ==
    {k \in DOMAIN list \ {i} : /\ list[k].txn_ = list[3].txn_
                               /\ list[k].grated_
                               /\ list[k].lock_type_ = "SHARED"}

ThirdIsUpgrade(list, i) ==
    Len(list) >= 3 /\ list[3].lock_type_ = "EXCLUSIVE" /\ SharedOfThird(list, i) # {}

\* One of two shared holders leaves. The third request is the first waiter: if
\* it is the other holder's upgrade, it takes the place of that holder's
\* shared request.
LeavePair(L, i) ==
    LET list == L.lock_list_
        k == Min(SharedOfThird(list, i))
    IN  IF ThirdIsUpgrade(list, i)
        THEN [lock_list_ |-> RemoveAt(RemoveAt(Grant(list, {3}), Max({i, k})), Min({i, k})),
              list_lock_type_ |-> "EXCLUSIVE",
              list_grant_cnt_ |-> L.list_grant_cnt_ - 1]
        ELSE [L EXCEPT !.lock_list_ = RemoveAt(list, i), !.list_grant_cnt_ = @ - 1]

\* The lock list after the granted request at i has been released.
Released(L, i) ==
    CASE L.list_grant_cnt_ = 1 -> PassTurn(L, i)
      [] L.list_grant_cnt_ = 2 /\ L.lock_list_[i].lock_type_ = "SHARED" -> LeavePair(L, i)
      [] OTHER -> [L EXCEPT !.lock_list_ = RemoveAt(@, i), !.list_grant_cnt_ = @ - 1]

\* find_if: the first granted request of t.
GrantedPosition(t, r) ==
    Min({i \in DOMAIN Requests(r) : Requests(r)[i].txn_ = t /\ Requests(r)[i].grated_})

\* What Unlock asserts, and what it takes for granted: the requests that get the
\* turn still have a promise to keep, and begin() has two successors.
UnlockAsserts(t, r) ==
    /\ Strict => state[t] = "COMMITTED" \/ state[t] # "ABORTED"
    /\ HoldsLock(t, r)
    /\ LET L == lock_table[r]
           list == L.lock_list_
           i == GrantedPosition(t, r)
       IN  /\ list[i].lock_type_ = "EXCLUSIVE" => L.list_grant_cnt_ = 1
           /\ L.list_grant_cnt_ = 1 /\ i < Len(list) =>
                \A k \in (i + 1)..LastGranted(list, i + 1) : ~list[k].grated_
           /\ L.list_grant_cnt_ = 2 =>
                Len(list) >= 2 /\ (ThirdIsUpgrade(list, i) => ~list[3].grated_)

Unlock(t, r) ==
    IF UnlockAsserts(t, r)
    THEN /\ lock_table' = [lock_table EXCEPT ![r] = Released(@, GrantedPosition(t, r))]
         /\ state' = IF ~Strict /\ state[t] = "GROWING"
                     THEN [state EXCEPT ![t] = "SHRINKING"]
                     ELSE state
         /\ UNCHANGED <<shared_lock_set, exclusive_lock_set, call, crashed>>
    ELSE Crash

(***************************************************************************)
(* The transactions around the lock manager.                               *)
(***************************************************************************)
\* The constructor of Transaction. The previous holder of the id, if any, is
\* gone: it has ended and has released what it held.
NewTransaction(t) ==
    /\ Idle(t)
    /\ state[t] \in {"NONE", "COMMITTED", "ABORTED"}
    /\ \A r \in RID : ~HasRequest(t, r)
    /\ state' = [state EXCEPT ![t] = "GROWING"]
    /\ shared_lock_set' = [shared_lock_set EXCEPT ![t] = {}]
    /\ exclusive_lock_set' = [exclusive_lock_set EXCEPT ![t] = {}]
    /\ UNCHANGED <<lock_table, call, crashed>>

\* SetState, by a Commit or an Abort of t's own thread. An aborted transaction
\* may be committed all the same: Commit does not look, and neither does VtabCommit.
SetState(t, s) ==
    /\ Idle(t)
    /\ state[t] \in {"GROWING", "SHRINKING", "ABORTED"}
    /\ state' = [state EXCEPT ![t] = s]
    /\ UNCHANGED <<lock_table, shared_lock_set, exclusive_lock_set, call, crashed>>

\* What callers do: they lock while they grow (an aborted one may still ask),
\* do not ask for what they hold (lock_manager.h calls that undefined) except
\* for a shared lock under their own exclusive one, upgrade what they share, and
\* release what they hold, under strict two-phase locking once they have ended.
AskShared(t, r) ==
    state[t] \in {"GROWING", "ABORTED"} /\ r \notin shared_lock_set[t] /\ LockShared(t, r)

AskExclusive(t, r) ==
    /\ state[t] \in {"GROWING", "ABORTED"}
    /\ r \notin shared_lock_set[t] \union exclusive_lock_set[t]
    /\ LockExclusive(t, r)

AskUpgrade(t, r) ==
    state[t] = "GROWING" /\ r \in shared_lock_set[t] /\ LockUpgrade(t, r)

Release(t, r) ==
    /\ Idle(t)
    /\ HoldsLock(t, r)
    /\ Strict => state[t] \in {"COMMITTED", "ABORTED"}
    /\ Unlock(t, r)

Next ==
    \E t \in TxnId :
        \/ NewTransaction(t)
        \/ \E s \in {"COMMITTED", "ABORTED"} : SetState(t, s)
        \/ \E r \in RID : AskShared(t, r)
        \/ \E r \in RID : AskExclusive(t, r)
        \/ \E r \in RID : AskUpgrade(t, r)
        \/ \E r \in RID : Release(t, r)
        \/ Wake(t)

Spec == Init /\ [][Next]_vars

(***************************************************************************)
(* Properties.                                                             *)
(***************************************************************************)
\* Every variable keeps its type.
TypeOK ==
    /\ lock_table \in [RID -> LockList]
    /\ state \in [TxnId -> TransactionState]
    /\ shared_lock_set \in [TxnId -> SUBSET RID]
    /\ exclusive_lock_set \in [TxnId -> SUBSET RID]
    /\ call \in [TxnId -> {NoCall} \union BlockedCall]
    /\ crashed \in BOOLEAN

\* Two granted locks on one record are compatible: an exclusive lock is granted
\* only while no other request on the record is granted. Every grant counts:
\* the immediate ones, in-place upgrades and the ones Unlock hands on.
LockCompatibility ==
    \A r \in RID : \A i, j \in DOMAIN Requests(r) :
        /\ Requests(r)[i].grated_ /\ Requests(r)[j].grated_
        /\ Requests(r)[i].lock_type_ = "EXCLUSIVE"
        => i = j

\* t waits in a list in which u has a request ahead of it.
WaitsFor(t, u) ==
    \E r \in RID : \E i, j \in DOMAIN Requests(r) :
        /\ i < j
        /\ Requests(r)[i].txn_ = u
        /\ Requests(r)[j].txn_ = t
        /\ ~Requests(r)[j].grated_
        /\ t # u

\* No set of transactions wait for each other, over all records together: a
\* transaction only ever waits for younger ones ("use wait-die to prevent
\* deadlocks").
NoDeadlock ==
    ~ \E C \in SUBSET TxnId : C # {} /\ \A t \in C : \E u \in C : WaitsFor(t, u)

\* The first waiter of a list is held up by an incompatible lock of another
\* transaction: no release forgets to pass the turn on, no waiter is held up by
\* its own shared lock, and a list of waiters alone never remains.
FirstWaiterIsBlocked ==
    \A r \in RID : \A j \in DOMAIN Requests(r) :
        /\ ~Requests(r)[j].grated_
        /\ \A i \in 1..(j - 1) : Requests(r)[i].grated_
        => \E i \in 1..(j - 1) :
              /\ Requests(r)[i].txn_ # Requests(r)[j].txn_
              /\ \/ Requests(r)[i].lock_type_ = "EXCLUSIVE"
                 \/ Requests(r)[j].lock_type_ = "EXCLUSIVE"

HoldsIn(list, t, type) ==
    \E i \in DOMAIN list : list[i].txn_ = t /\ list[i].grated_ /\ list[i].lock_type_ = type

\* What a transaction's own lock sets say is what it gets: a lock it does not
\* hold any more, or never got, is in neither set while it is still growing.
LockSetsAreHeld ==
    \A t \in TxnId : \A r \in RID :
        state[t] = "GROWING" /\ call[t] = NoCall =>
            /\ r \in exclusive_lock_set[t] <=> HoldsIn(Requests(r), t, "EXCLUSIVE")
            /\ r \in shared_lock_set[t] <=> HoldsIn(Requests(r), t, "SHARED")

\* No assertion of the lock manager fails, as long as its callers keep to the
\* calls described above.
NoAssertFails == ~crashed

(***************************************************************************)
(* The inductive invariant behind the properties above.                    *)
(***************************************************************************)
\* The granted requests are the first list_grant_cnt_ of the list, and a list
\* with requests has a granted one.
GrantedPrefix(L) ==
    /\ L.list_grant_cnt_ <= Len(L.lock_list_)
    /\ L.lock_list_ # <<>> => L.list_grant_cnt_ > 0
    /\ \A i \in DOMAIN L.lock_list_ : L.lock_list_[i].grated_ <=> i <= L.list_grant_cnt_

\* list_lock_type_ is the type of the granted requests. Behind shared locks the
\* first waiter wants an exclusive lock, and not from itself alone.
ListTypeIsRight(L) ==
    LET list == L.lock_list_
        cnt == L.list_grant_cnt_
    IN  list # <<>> =>
        /\ L.list_lock_type_ \in LockType
        /\ L.list_lock_type_ = "EXCLUSIVE" => cnt = 1 /\ list[1].lock_type_ = "EXCLUSIVE"
        /\ L.list_lock_type_ = "SHARED" =>
             /\ \A i \in 1..cnt : list[i].lock_type_ = "SHARED"
             /\ cnt < Len(list) =>
                  /\ list[cnt + 1].lock_type_ = "EXCLUSIVE"
                  /\ cnt = 1 => list[1].txn_ # list[2].txn_

\* A waiter is at least as old as everyone ahead of it.
WaitDieOrder(L) ==
    \A i, j \in DOMAIN L.lock_list_ :
        i < j /\ ~L.lock_list_[j].grated_ => L.lock_list_[i].txn_ >= L.lock_list_[j].txn_

\* The only two requests of one transaction in a list are the shared lock it
\* holds and the upgrade it waits for.
OneRequestEach(L) ==
    \A i, j \in DOMAIN L.lock_list_ :
        i < j /\ L.lock_list_[i].txn_ = L.lock_list_[j].txn_ =>
            /\ L.lock_list_[i].grated_ /\ L.lock_list_[i].lock_type_ = "SHARED"
            /\ ~L.lock_list_[j].grated_ /\ L.lock_list_[j].lock_type_ = "EXCLUSIVE"

ListInv(L) ==
    GrantedPrefix(L) /\ ListTypeIsRight(L) /\ WaitDieOrder(L) /\ OneRequestEach(L)

TypeRequested(op) == IF op = "LockShared" THEN "SHARED" ELSE "EXCLUSIVE"

\* Whoever waits in the list is blocked in a call on this record.
WaitersAreBlocked(r) ==
    \A i \in DOMAIN Requests(r) : ~Requests(r)[i].grated_ =>
        LET c == call[Requests(r)[i].txn_] IN
        c # NoCall /\ c.rid = r /\ TypeRequested(c.op) = Requests(r)[i].lock_type_

\* The request of a call is in the list, and the shared lock it is to replace
\* until it is granted.
AsksIn(list, t, op) ==
    \E i \in DOMAIN list :
        /\ list[i].txn_ = t
        /\ list[i].lock_type_ = TypeRequested(op)
        /\ op = "LockUpgrade" => list[i].grated_ \/ HoldsIn(list, t, "SHARED")

\* The lock sets of a growing transaction and its requests agree, for the record
\* it waits for as for the others.
SetsAgree(t, r) ==
    IF call[t] = NoCall \/ call[t].rid # r
    THEN /\ r \in exclusive_lock_set[t] <=> HoldsIn(Requests(r), t, "EXCLUSIVE")
         /\ r \in shared_lock_set[t] <=> HoldsIn(Requests(r), t, "SHARED")
    ELSE /\ r \notin exclusive_lock_set[t]
         /\ r \in shared_lock_set[t] <=> call[t].op = "LockUpgrade"
         /\ AsksIn(Requests(r), t, call[t].op)

\* All of the above, for every record and transaction.
LockTableInv ==
    /\ \A r \in RID : ListInv(lock_table[r]) /\ WaitersAreBlocked(r)
    /\ \A t \in TxnId : call[t] # NoCall => state[t] = "GROWING"
    /\ \A t \in TxnId : state[t] = "GROWING" => \A r \in RID : SetsAgree(t, r)
    /\ ~Strict => ~crashed
=============================================================================
