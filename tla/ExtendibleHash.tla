--------------------------- MODULE ExtendibleHash ---------------------------
(***************************************************************************)
(* The extendible hash table that the buffer pool uses as its page table   *)
(* (src/src/hash/extendible_hash.cpp). Every operation runs under          *)
(* global_table_lock_ from start to end. Find and Remove are one action    *)
(* each; Insert keeps the lock while it loops, and a round of its loop is  *)
(* an action.                                                              *)
(*                                                                         *)
(* A bucket is shared by the slots of the directory that point to it: a    *)
(* slot holds the number of its bucket in the sequence of all buckets.     *)
(***************************************************************************)
EXTENDS Integers, Sequences, FiniteSetsExt

CONSTANTS
    Key,    \* page ids
    Value,  \* frames
    Size    \* size_, the capacity of a bucket

None == "none"

ASSUME HashAssumption == Key \subseteq Nat /\ Size \in Nat \ {0} /\ None \notin Value

VARIABLES
    global_depth_,          \* the directory has 1 << global_depth_ slots
    num_buckets_,           \* the number of its slots
    bucket_address_table_,  \* the directory: the bucket of each slot
    buckets,                \* the buckets, with their records
    inserting,              \* the Insert that holds the lock, if any: its key and value
    last                    \* the last call: the operation, the key and what it returned

directory == <<global_depth_, num_buckets_, bucket_address_table_>>
vars == <<directory, buckets, inserting, last>>

\* std::hash of an integer.
Hasher(key) == key

\* 1 << n
Shift[n \in Nat] == IF n = 0 THEN 1 ELSE 2 * Shift[n - 1]

Bit(n, i) == (n \div Shift[i]) % 2 = 1

Bucket == [local_depth_ : Nat, kv_records_ : Seq(Key \X Value)]

Init ==
    /\ global_depth_ = 0 /\ num_buckets_ = 1
    /\ bucket_address_table_ = [i \in {0} |-> 1]
    /\ buckets = <<[local_depth_ |-> 0, kv_records_ |-> <<>>]>>
    /\ inserting = {} /\ last = <<>>

BucketId(key) == Hasher(key) % Shift[global_depth_]

BucketOf(key) == bucket_address_table_[BucketId(key)]

Records(b) == buckets[b].kv_records_

Matches(records, key) == {i \in DOMAIN records : records[i][1] = key}

\* The records with one of these keys, in their order: what a loop that pushes
\* them back one by one leaves.
Select(records, keys) ==
    LET Upto[n \in 0..Len(records)] ==
            IF n = 0 THEN <<>>
            ELSE IF records[n][1] \in keys THEN Append(Upto[n - 1], records[n])
            ELSE Upto[n - 1]
    IN Upto[Len(records)]

\* The call returns, and the lock is free.
Return(op, key, result) == inserting' = {} /\ last' = <<op, key, result>>

(***************************************************************************)
(* Insert.                                                                 *)
(***************************************************************************)
Insert(key, value) ==
    /\ inserting = {}
    /\ inserting' = {<<key, value>>}
    /\ UNCHANGED <<directory, buckets, last>>

\* The key has a record, which is overwritten.
Overwrite(key, value) ==
    LET b == BucketOf(key)
        found == Matches(Records(b), key)
    IN /\ found # {}
       /\ buckets' = [buckets EXCEPT ![b].kv_records_[Min(found)] = <<key, value>>]
       /\ UNCHANGED directory
       /\ Return("Insert", key, value)

PushBack(key, value) ==
    LET b == BucketOf(key)
    IN /\ Matches(Records(b), key) = {}
       /\ Len(Records(b)) < Size
       /\ buckets' = [buckets EXCEPT ![b].kv_records_ = Append(Records(b), <<key, value>>)]
       /\ UNCHANGED directory
       /\ Return("Insert", key, value)

IsFull(b, key) == Matches(Records(b), key) = {} /\ Len(Records(b)) >= Size

\* The buckets when the records of bucket b, one level deeper, are shared out
\* between b and a new bucket.
Divide(b, records) ==
    LET depth == buckets[b].local_depth_ + 1
        moved == {key \in Key : Bit(Hasher(key), depth - 1)}
    IN Append([buckets EXCEPT ![b] = [local_depth_ |-> depth,
                                      kv_records_ |-> Select(records, Key \ moved)]],
              [local_depth_ |-> depth, kv_records_ |-> Select(records, moved)])

\* The slots that shared bucket b go to b or to the new bucket.
Mut_MovesOneSlot(id, b) ==
    [bucket_address_table_ EXCEPT ![id] = Len(buckets) + 1]

Redirect(id, b) ==
    LET depth == buckets[b].local_depth_
    IN [i \in 0..Shift[global_depth_] - 1 |->
           IF i % Shift[depth] = id % Shift[depth]
           THEN IF Bit(i, depth) THEN Len(buckets) + 1 ELSE b
           ELSE bucket_address_table_[i]]

\* A full bucket that several slots share is split, and takes the new record.
Split(key, value) ==
    LET b == BucketOf(key)
    IN /\ IsFull(b, key) /\ global_depth_ > buckets[b].local_depth_
       /\ bucket_address_table_' = Redirect(BucketId(key), b)
       /\ buckets' = Divide(b, Append(Records(b), <<key, value>>))
       /\ UNCHANGED <<global_depth_, num_buckets_>>
       /\ Return("Insert", key, value)

\* A full bucket of a single slot makes the directory double, and Insert tries
\* again.
Mut_KeepsNumBuckets(key) ==
    LET id == BucketId(key)
        b == BucketOf(key)
    IN /\ IsFull(b, key) /\ global_depth_ <= buckets[b].local_depth_
       /\ UNCHANGED num_buckets_
       /\ global_depth_' = global_depth_ + 1
       /\ bucket_address_table_' =
              [i \in 0..2 * num_buckets_ - 1 |->
                  IF i = num_buckets_ + id THEN Len(buckets) + 1
                  ELSE bucket_address_table_[i % num_buckets_]]
       /\ buckets' = Divide(b, Records(b))
       /\ UNCHANGED <<inserting, last>>

Expand(key) ==
    LET id == BucketId(key)
        b == BucketOf(key)
    IN /\ IsFull(b, key) /\ global_depth_ <= buckets[b].local_depth_
       /\ num_buckets_' = 2 * num_buckets_
       /\ global_depth_' = global_depth_ + 1
       /\ bucket_address_table_' =
              [i \in 0..2 * num_buckets_ - 1 |->
                  IF i = num_buckets_ + id THEN Len(buckets) + 1
                  ELSE bucket_address_table_[i % num_buckets_]]
       /\ buckets' = Divide(b, Records(b))
       /\ UNCHANGED <<inserting, last>>

\* A round of the loop of Insert.
Round ==
    \E call \in inserting :
        \/ Overwrite(call[1], call[2])
        \/ PushBack(call[1], call[2])
        \/ Split(call[1], call[2])
        \/ Expand(call[1])

(***************************************************************************)
(* Remove and Find.                                                        *)
(***************************************************************************)
\* remove_if moves the records to keep to the front and leaves the last ones as
\* they were; pop_back drops one, all there is to drop if keys are unique.
Mut_PopsBackOnly(records, key) == SubSeq(records, 1, Len(records) - 1)

WithoutKey(records, key) ==
    LET kept == Select(records, Key \ {key})
    IN kept \o SubSeq(records, Len(kept) + 1, Len(records) - 1)

Remove(key) ==
    LET b == BucketOf(key)
        found == Matches(Records(b), key)
    IN /\ inserting = {}
       /\ buckets' = IF found = {} THEN buckets
                     ELSE [buckets EXCEPT ![b].kv_records_ = WithoutKey(Records(b), key)]
       /\ UNCHANGED directory
       /\ Return("Remove", key, IF found = {} THEN "false" ELSE "true")

\* What a lookup of the key returns.
FindIn(key) ==
    LET records == Records(BucketOf(key))
        found == Matches(records, key)
    IN IF found # {} THEN records[Min(found)][2] ELSE None

Find(key) ==
    /\ inserting = {}
    /\ UNCHANGED <<directory, buckets>>
    /\ Return("Find", key, FindIn(key))

Next ==
    \/ \E key \in Key :
           \/ \E value \in Value : Insert(key, value)
           \/ Remove(key)
           \/ Find(key)
    \/ Round

Spec == Init /\ [][Next]_vars

(***************************************************************************)
(* Properties.                                                             *)
(***************************************************************************)
Slots == DOMAIN bucket_address_table_

\* The directory has 2^global_depth_ slots, each of which points to a bucket of
\* the right form.
TypeOK ==
    /\ global_depth_ \in Nat /\ num_buckets_ = Shift[global_depth_]
    /\ bucket_address_table_ \in [0..num_buckets_ - 1 -> DOMAIN buckets]
    /\ buckets \in Seq(Bucket)
    /\ inserting \subseteq Key \X Value

\* Splits and doublings keep the directory right: two slots share a bucket if
\* and only if they agree in the bucket's local_depth_ lowest bits, and no
\* bucket is deeper than the directory.
DirectoryIsRight ==
    \A i, j \in Slots :
        LET b == bucket_address_table_[i]
            depth == buckets[b].local_depth_
        IN /\ depth <= global_depth_
           /\ b = bucket_address_table_[j] <=> i % Shift[depth] = j % Shift[depth]

\* The records of a key, in whichever bucket, and the value of each key.
Held(key) ==
    UNION {{Records(b)[i] : i \in Matches(Records(b), key)} : b \in DOMAIN buckets}

Contents ==
    [key \in Key |-> IF Held(key) = {} THEN None ELSE (CHOOSE r \in Held(key) : TRUE)[2]]

\* The table is a map: what Find and Remove return, and what the buckets hold
\* together, is what the map that the buffer pool asked for would give.
Map == INSTANCE HashTable WITH map <- Contents
ImplementsHashTable == Map!MapSpec
=============================================================================
