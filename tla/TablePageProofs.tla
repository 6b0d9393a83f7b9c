-------------------------- MODULE TablePageProofs ---------------------------
(***************************************************************************)
(* Proofs about a page of a table, for every page size, any tuples and any *)
(* number of slots: the tuples fill the page without holes or overlaps and *)
(* every slot shows the bytes that were stored there.                      *)
(*                                                                         *)
(* The arithmetic is about functions: off and sz give the offset and the   *)
(* size of n tuples, which fill the bytes from low to the end of the page. *)
(***************************************************************************)
EXTENDS TablePage, SequenceLemmas

Inside(n, off, sz, low) ==
    \A j \in 1..n : sz[j] > 0 => low <= off[j] /\ off[j] + sz[j] <= PageSize

Apart(n, off, sz) ==
    \A j, k \in 1..n : j # k /\ sz[j] > 0 /\ sz[k] > 0 =>
        off[j] + sz[j] <= off[k] \/ off[k] + sz[k] <= off[j]

Cover(n, off, sz, low) ==
    \A b \in low..(PageSize - 1) : \E j \in 1..n : off[j] <= b /\ b < off[j] + sz[j]

Tiles(n, off, sz, low) == Inside(n, off, sz, low) /\ Apart(n, off, sz) /\ Cover(n, off, sz, low)

\* The bytes of every tuple are the ones its slot was given.
Shows(n, off, sz, data, bytes) ==
    \A j \in 1..n : /\ Len(bytes[j]) = sz[j]
                    /\ \A k \in 1..sz[j] : data[off[j] + k - 1] = bytes[j][k]

(***************************************************************************)
(* A tuple is put below the others.                                        *)
(***************************************************************************)
\* InsertTuple gives tuple i, which has no bytes yet, the z bytes below low.
Inserted(n, m, i, z, low, off, sz, off2, sz2) ==
    /\ m \in {n, n + 1} /\ i \in 1..m
    /\ i \in 1..n => sz[i] = 0
    /\ off2[i] = low - z /\ sz2[i] = z
    /\ \A j \in 1..m : j # i => j \in 1..n /\ off2[j] = off[j] /\ sz2[j] = sz[j]

\* The tuples fill the page again.
LEMMA InsertTiles ==
    ASSUME NEW n \in Nat, NEW m \in Nat, NEW i \in 1..m, NEW z \in Nat \ {0},
           NEW low \in Int, low - z >= 0, low <= PageSize,
           NEW off \in [1..n -> Int], NEW sz \in [1..n -> Nat],
           NEW off2 \in [1..m -> Int], NEW sz2 \in [1..m -> Nat],
           Tiles(n, off, sz, low), Inserted(n, m, i, z, low, off, sz, off2, sz2)
    PROVE  Tiles(m, off2, sz2, low - z)
<1>1. PageSize \in Nat
  BY TablePageAssumption
<1>2. /\ m = n \/ m = n + 1
      /\ off2[i] = low - z /\ sz2[i] = z
      /\ \A j \in 1..m : j # i => j \in 1..n /\ off2[j] = off[j] /\ sz2[j] = sz[j]
      /\ i \in 1..n => sz[i] = 0
  BY DEF Inserted
<1>3. Inside(n, off, sz, low) /\ Apart(n, off, sz) /\ Cover(n, off, sz, low)
  BY DEF Tiles
<1>4. Inside(m, off2, sz2, low - z)
  <2> SUFFICES ASSUME NEW j \in 1..m, sz2[j] > 0
               PROVE  low - z <= off2[j] /\ off2[j] + sz2[j] <= PageSize
    BY DEF Inside
  <2>1. CASE j = i
    BY <1>1, <1>2, <2>1
  <2>2. CASE j # i
    <3>1. low <= off[j] /\ off[j] + sz[j] <= PageSize
      BY <1>2, <1>3, <2>2 DEF Inside
    <3> QED
      BY <1>2, <2>2, <3>1
  <2> QED
    BY <2>1, <2>2
<1>5. Apart(m, off2, sz2)
  <2> SUFFICES ASSUME NEW j \in 1..m, NEW k \in 1..m, j # k, sz2[j] > 0, sz2[k] > 0
               PROVE  off2[j] + sz2[j] <= off2[k] \/ off2[k] + sz2[k] <= off2[j]
    BY DEF Apart
  <2>1. CASE j # i /\ k # i
    BY <1>2, <1>3, <2>1 DEF Apart
  <2>2. CASE j = i
    <3>1. low <= off[k] /\ off2[k] = off[k]
      BY <1>2, <1>3, <2>2 DEF Inside
    <3> QED
      BY <1>2, <2>2, <3>1
  <2>3. CASE k = i
    <3>1. low <= off[j] /\ off2[j] = off[j]
      BY <1>2, <1>3, <2>3 DEF Inside
    <3> QED
      BY <1>2, <2>3, <3>1
  <2> QED
    BY <2>1, <2>2, <2>3
<1>6. Cover(m, off2, sz2, low - z)
  <2> SUFFICES ASSUME NEW b \in (low - z)..(PageSize - 1)
               PROVE  \E j \in 1..m : off2[j] <= b /\ b < off2[j] + sz2[j]
    BY DEF Cover
  <2>1. CASE b < low
    BY <1>2, <2>1
  <2>2. CASE b >= low
    <3>1. b \in low..(PageSize - 1)
      BY <1>1, <2>2
    <3>2. PICK j \in 1..n : off[j] <= b /\ b < off[j] + sz[j]
      BY <1>3, <3>1, Zenon DEF Cover
    <3>3. off[j] \in Int /\ sz[j] \in Nat /\ b \in Int
      BY <1>1
    <3>4. sz[j] # 0
      BY <3>2, <3>3
    <3>5. j # i
      BY <1>2, <3>4, Zenon
    <3>6. j \in 1..m
      <4>1. m = n \/ m = n + 1
        BY <1>2
      <4> QED
        BY <4>1
    <3> QED
      BY <1>2, <3>2, <3>5, <3>6, Zenon
  <2> QED
    BY <2>1, <2>2
<1> QED
  BY <1>4, <1>5, <1>6 DEF Tiles

BytesInserted(m, i, z, low, data, data2, bytes, bytes2) ==
    /\ Len(bytes2[i]) = z /\ \A k \in 1..z : data2[(low - z) + k - 1] = bytes2[i][k]
    /\ \A b \in low..(PageSize - 1) : data2[b] = data[b]
    /\ \A j \in 1..m : j # i => bytes2[j] = bytes[j]

\* And they show what they should.
LEMMA InsertShows ==
    ASSUME NEW n \in Nat, NEW m \in Nat, NEW i \in 1..m, NEW z \in Nat \ {0},
           NEW low \in Int, low - z >= 0, low <= PageSize,
           NEW off \in [1..n -> Int], NEW sz \in [1..n -> Nat],
           NEW off2 \in [1..m -> Int], NEW sz2 \in [1..m -> Nat],
           Tiles(n, off, sz, low), Inserted(n, m, i, z, low, off, sz, off2, sz2),
           NEW data, NEW data2, NEW bytes, NEW bytes2, Shows(n, off, sz, data, bytes),
           BytesInserted(m, i, z, low, data, data2, bytes, bytes2)
    PROVE  Shows(m, off2, sz2, data2, bytes2)
<1> SUFFICES ASSUME NEW j \in 1..m
             PROVE  /\ Len(bytes2[j]) = sz2[j]
                    /\ \A k \in 1..sz2[j] : data2[off2[j] + k - 1] = bytes2[j][k]
  BY Zenon DEF Shows
<1>1. CASE j = i
  BY <1>1, Zenon DEF Inserted, BytesInserted
<1>2. CASE j # i
  <2>1. j \in 1..n /\ off2[j] = off[j] /\ sz2[j] = sz[j] /\ bytes2[j] = bytes[j]
    BY <1>2, Zenon DEF Inserted, BytesInserted
  <2>2. ASSUME NEW k \in 1..sz[j]
        PROVE  data2[off[j] + k - 1] = bytes[j][k]
    <3>1. off[j] \in Int /\ sz[j] \in Nat /\ sz[j] > 0 /\ PageSize \in Nat
      BY <2>1, TablePageAssumption
    <3>2. low <= off[j] /\ off[j] + sz[j] <= PageSize
      BY <2>1, <3>1, Zenon DEF Tiles, Inside
    <3>3. off[j] + k - 1 \in low..(PageSize - 1)
      <4> DEFINE oj == off[j]
                 sj == sz[j]
      <4>1. k \in 1..sj /\ oj \in Int /\ sj \in Nat /\ low <= oj /\ oj + sj <= PageSize
        BY <3>1, <3>2
      <4> HIDE DEF oj, sj
      <4>2. oj + k - 1 \in low..(PageSize - 1)
        BY <3>1, <4>1
      <4> QED
        BY <4>2 DEF oj
    <3> QED
      BY <2>1, <3>3, Zenon DEF Shows, BytesInserted
  <2> QED
    BY <2>1, <2>2, Zenon DEF Shows
<1> QED
  BY <1>1, <1>2, Zenon

(***************************************************************************)
(* A tuple gets another size, and those below it move.                     *)
(***************************************************************************)
\* UpdateTuple gives tuple i the size z and keeps its end in place; ApplyDelete
\* does the same with z = 0.
Resized(n, i, z, by, off, sz, off2, sz2) ==
    /\ by = sz[i] - z
    /\ sz[i] > 0 /\ sz2[i] = z
    /\ z > 0 => off2[i] = off[i] + by
    /\ \A j \in 1..n : j # i =>
          /\ sz2[j] = sz[j]
          /\ sz[j] > 0 /\ off[j] < off[i] => off2[j] = off[j] + by
          /\ sz[j] > 0 /\ ~(off[j] < off[i]) => off2[j] = off[j]

\* Where a tuple at oj, of size sj, is placed when the one at oi changes its size:
\* it moves when it is below, and stays where it is above.
Placed(low, by, oi, si, oj, sj, o) ==
    \/ low <= oj /\ oj + sj <= oi /\ o = oj + by
    \/ oi + si <= oj /\ oj + sj <= PageSize /\ o = oj

\* Two such tuples stay apart.
LEMMA PlacedApart ==
    ASSUME NEW low \in Int, NEW by \in Int, NEW oi \in Int, NEW si \in Nat, by <= si,
           NEW oj \in Int, NEW sj \in Nat \ {0}, NEW o \in Int,
           NEW ok \in Int, NEW sk \in Nat \ {0}, NEW q \in Int,
           Placed(low, by, oi, si, oj, sj, o), Placed(low, by, oi, si, ok, sk, q),
           oj + sj <= ok \/ ok + sk <= oj
    PROVE  o + sj <= q \/ q + sk <= o
  BY DEF Placed

\* Such a tuple stays in the page and apart from the one that is resized.
LEMMA PlacedInside ==
    ASSUME NEW low \in Int, NEW by \in Int, NEW oi \in Int, NEW si \in Nat, by <= si,
           low <= oi, oi + si <= PageSize,
           NEW oj \in Int, NEW sj \in Nat, NEW o \in Int, Placed(low, by, oi, si, oj, sj, o)
    PROVE  low + by <= o /\ o + sj <= PageSize /\ (o + sj <= oi + by \/ oi + si <= o)
<1>1. PageSize \in Nat
  BY TablePageAssumption
<1> QED
  BY <1>1 DEF Placed

\* A tuple that has a byte below another one starts below it.
LEMMA StartsBelow ==
    ASSUME NEW o \in Int, NEW s \in Nat, NEW oi \in Int, NEW by \in Int, NEW b \in Int,
           b < oi + by, o <= b - by, b - by < o + s
    PROVE  s > 0 /\ o < oi
  OBVIOUS

\* Where every tuple is after the step.
AllPlaced(n, i, z, by, low, off, sz, off2, sz2) ==
    /\ off[i] \in Int /\ sz[i] \in Nat /\ sz[i] = by + z /\ by <= sz[i] /\ sz[i] > 0
    /\ low <= off[i] /\ off[i] + sz[i] <= PageSize
    /\ sz2[i] = z /\ (z > 0 => off2[i] = off[i] + by)
    /\ \A j \in 1..n : j # i /\ sz2[j] > 0 =>
          sz2[j] = sz[j] /\ Placed(low, by, off[i], sz[i], off[j], sz[j], off2[j])

\* The step places them so.
LEMMA ResizedTuples ==
    ASSUME NEW n \in Nat, NEW i \in 1..n, NEW z \in Nat, NEW by \in Int, NEW low \in Int,
           NEW off \in [1..n -> Int], NEW sz \in [1..n -> Nat],
           NEW off2 \in [1..n -> Int], NEW sz2 \in [1..n -> Nat],
           Tiles(n, off, sz, low), Resized(n, i, z, by, off, sz, off2, sz2)
    PROVE  AllPlaced(n, i, z, by, low, off, sz, off2, sz2)
<1>1. off[i] \in Int /\ sz[i] \in Nat /\ by = sz[i] - z /\ sz[i] > 0
  BY DEF Resized
<1>2. low <= off[i] /\ off[i] + sz[i] <= PageSize
  BY <1>1, Zenon DEF Tiles, Inside
<1>3. sz[i] = by + z /\ by <= sz[i]
  <2> DEFINE si == sz[i]
  <2>1. si \in Nat /\ by = si - z
    BY <1>1
  <2> HIDE DEF si
  <2>2. si = by + z /\ by <= si
    BY <2>1
  <2> QED
    BY <2>2 DEF si
<1>4. ASSUME NEW j \in 1..n, j # i, sz2[j] > 0
      PROVE  sz2[j] = sz[j] /\ Placed(low, by, off[i], sz[i], off[j], sz[j], off2[j])
  <2> DEFINE oi == off[i]
             si == sz[i]
             oj == off[j]
             sj == sz[j]
  <2>1. sz2[j] = sj /\ sj > 0
    BY <1>4, Zenon DEF Resized
  <2>2. /\ oj < oi => off2[j] = oj + by
        /\ ~(oj < oi) => off2[j] = oj
    BY <1>4, <2>1, Zenon DEF Resized
  <2>3. low <= oj /\ oj + sj <= PageSize
    BY <2>1, Zenon DEF Tiles, Inside
  <2>4. oi + si <= oj \/ oj + sj <= oi
    BY <1>1, <1>4, <2>1, Zenon DEF Tiles, Apart
  <2>5. oi \in Int /\ si \in Nat /\ oj \in Int /\ sj \in Nat
    BY <1>1
  <2> HIDE DEF oi, si, oj, sj
  <2>6. oj < oi => oj + sj <= oi
    BY <1>1, <2>4, <2>5
  <2>7. ~(oj < oi) => oi + si <= oj
    <3>1. sj > 0
      BY <2>1
    <3> QED
      BY <2>4, <2>5, <3>1
  <2>8. Placed(low, by, oi, si, oj, sj, off2[j])
    BY <2>2, <2>3, <2>6, <2>7, Zenon DEF Placed
  <2> QED
    BY <2>1, <2>8 DEF oi, si, oj, sj
<1> QED
  BY <1>1, <1>2, <1>3, <1>4, Zenon DEF Resized, AllPlaced

\* The tuples fill the page again, from the new free space pointer on.
LEMMA ResizeTiles ==
    ASSUME NEW n \in Nat, NEW i \in 1..n, NEW z \in Nat, NEW by \in Int, NEW low \in Int,
           NEW off \in [1..n -> Int], NEW sz \in [1..n -> Nat],
           NEW off2 \in [1..n -> Int], NEW sz2 \in [1..n -> Nat],
           Tiles(n, off, sz, low), Resized(n, i, z, by, off, sz, off2, sz2)
    PROVE  Tiles(n, off2, sz2, low + by)
<1> DEFINE oi == off[i]
           si == sz[i]
<1>0. AllPlaced(n, i, z, by, low, off, sz, off2, sz2)
  BY ResizedTuples, Zenon
<1>1. /\ oi \in Int /\ si \in Nat /\ si = by + z /\ by <= si /\ si > 0
      /\ low <= oi /\ oi + si <= PageSize
      /\ sz2[i] = z /\ (z > 0 => off2[i] = oi + by)
  BY <1>0, Zenon DEF AllPlaced
<1>2. ASSUME NEW j \in 1..n, j # i, sz2[j] > 0
      PROVE  sz2[j] = sz[j] /\ Placed(low, by, oi, si, off[j], sz[j], off2[j])
  BY <1>0, <1>2, Zenon DEF AllPlaced
<1>3. ASSUME NEW j \in 1..n
      PROVE  /\ off[j] \in Int /\ sz[j] \in Nat /\ off2[j] \in Int /\ sz2[j] \in Nat
             /\ sz[j] > 0 => sz[j] \in Nat \ {0}
  <2>1. off[j] \in Int /\ sz[j] \in Nat /\ off2[j] \in Int /\ sz2[j] \in Nat
    BY Zenon
  <2>2. \A s \in Nat : s > 0 => s \in Nat \ {0}
    OBVIOUS
  <2> QED
    BY <2>1, <2>2, Zenon
<1>4. PageSize \in Nat
  BY TablePageAssumption
<1> HIDE DEF oi, si
<1>5. ASSUME NEW j \in 1..n, j # i, sz2[j] > 0
      PROVE  /\ low + by <= off2[j] /\ off2[j] + sz2[j] <= PageSize
             /\ off2[j] + sz2[j] <= oi + by \/ oi + si <= off2[j]
  <2> DEFINE oj == off[j]
             sj == sz[j]
             o == off2[j]
  <2>1. sz2[j] = sj /\ Placed(low, by, oi, si, oj, sj, o)
    BY <1>2, <1>5, Zenon
  <2>2. oj \in Int /\ sj \in Nat /\ o \in Int
    BY <1>3, Zenon
  <2> HIDE DEF oj, sj, o
  <2>3. low + by <= o /\ o + sj <= PageSize /\ (o + sj <= oi + by \/ oi + si <= o)
    BY <1>1, <2>1, <2>2, PlacedInside, Zenon
  <2> QED
    BY <2>1, <2>3, Zenon DEF o
<1>6. ASSUME sz2[i] > 0
      PROVE  /\ low + by <= off2[i] /\ off2[i] + sz2[i] <= PageSize
             /\ off2[i] = oi + by /\ off2[i] + sz2[i] = oi + si
  <2>1. z > 0 /\ off2[i] = oi + by /\ sz2[i] = z
    BY <1>1, <1>6
  <2>2. low + by <= oi + by /\ oi + by + z <= PageSize /\ oi + by + z = oi + si
    BY <1>1, <1>4
  <2> QED
    BY <2>1, <2>2
<1>7. Inside(n, off2, sz2, low + by)
  BY <1>5, <1>6, Zenon DEF Inside
<1>8. Apart(n, off2, sz2)
  <2> SUFFICES ASSUME NEW j \in 1..n, NEW k \in 1..n, j # k, sz2[j] > 0, sz2[k] > 0
               PROVE  off2[j] + sz2[j] <= off2[k] \/ off2[k] + sz2[k] <= off2[j]
    BY Zenon DEF Apart
  <2>1. CASE j = i
    BY <1>5, <1>6, <2>1, Zenon
  <2>2. CASE k = i
    BY <1>5, <1>6, <2>2, Zenon
  <2>3. CASE j # i /\ k # i
    <3>1. sz2[j] = sz[j] /\ sz2[k] = sz[k]
      BY <1>2, <2>3, Zenon
    <3>2. off[j] + sz[j] <= off[k] \/ off[k] + sz[k] <= off[j]
      BY <3>1, Zenon DEF Tiles, Apart
    <3>3. /\ Placed(low, by, oi, si, off[j], sz[j], off2[j])
          /\ Placed(low, by, oi, si, off[k], sz[k], off2[k])
      BY <1>2, <2>3, Zenon
    <3>4. /\ off[j] \in Int /\ off2[j] \in Int /\ sz[j] \in Nat \ {0}
          /\ off[k] \in Int /\ off2[k] \in Int /\ sz[k] \in Nat \ {0}
      BY <1>3, <3>1, Zenon
    <3> QED
      BY <1>1, <3>1, <3>2, <3>3, <3>4, PlacedApart, Zenon
  <2> QED
    BY <2>1, <2>2, <2>3
<1>9. Cover(n, off2, sz2, low + by)
  <2> SUFFICES ASSUME NEW b \in (low + by)..(PageSize - 1)
               PROVE  \E j \in 1..n : off2[j] <= b /\ b < off2[j] + sz2[j]
    BY Zenon DEF Cover
  <2>0. b \in Int
    BY <1>4
  <2>1. CASE b < oi + by
    <3>1. b - by \in low..(PageSize - 1)
      BY <1>1, <1>4, <2>1
    <3>2. PICK j \in 1..n : off[j] <= b - by /\ b - by < off[j] + sz[j]
      BY <3>1, Zenon DEF Tiles, Cover
    <3> DEFINE oj == off[j]
               sj == sz[j]
    <3>3. oj \in Int /\ sj \in Nat /\ oj <= b - by /\ b - by < oj + sj
      BY <1>3, <3>2, Zenon
    <3> HIDE DEF oj, sj
    <3>4. sj > 0 /\ oj < oi
      BY <1>1, <2>0, <2>1, <3>3, StartsBelow, Zenon
    <3>5. oj + by <= b /\ b < oj + by + sj
      BY <2>0, <3>3
    <3>6. j # i
      <4>1. ~(oi < oi)
        BY <1>1
      <4> QED
        BY <3>4, <4>1 DEF oi, oj
    <3>7. sz2[j] = sj /\ off2[j] = oj + by
      BY <3>4, <3>6, Zenon DEF oi, oj, sj, Resized
    <3> QED
      BY <3>5, <3>7
  <2>2. CASE oi + by <= b /\ b < oi + si
    <3>1. z > 0 /\ b < oi + by + z
      BY <1>1, <2>0, <2>2
    <3>2. off2[i] = oi + by /\ sz2[i] = z
      BY <1>1, <3>1
    <3> QED
      BY <2>2, <3>1, <3>2
  <2>3. CASE oi + si <= b
    <3>1. b \in low..(PageSize - 1)
      BY <1>1, <1>4, <2>0, <2>3
    <3>2. PICK j \in 1..n : off[j] <= b /\ b < off[j] + sz[j]
      BY <3>1, Zenon DEF Tiles, Cover
    <3> DEFINE oj == off[j]
               sj == sz[j]
    <3>3. oj \in Int /\ sj \in Nat /\ oj <= b /\ b < oj + sj
      BY <1>3, <3>2, Zenon
    <3> HIDE DEF oj, sj
    <3>4. sj > 0 /\ ~(b < oi + si)
      BY <1>1, <2>0, <2>3, <3>3
    <3>5. j # i
      BY <3>3, <3>4 DEF oi, oj, si, sj
    <3>6. oi + si <= oj \/ oj + sj <= oi
      BY <1>1, <3>4, <3>5, Zenon DEF Tiles, Apart, oi, oj, si, sj
    <3>7. ~(oj < oi)
      BY <1>1, <2>0, <2>3, <3>3, <3>6
    <3>8. sz2[j] = sj /\ off2[j] = oj
      BY <3>4, <3>5, <3>7, Zenon DEF Resized, oi, oj, sj
    <3> QED
      BY <3>3, <3>8, Zenon
  <2>4. b < oi + by \/ (oi + by <= b /\ b < oi + si) \/ oi + si <= b
    BY <1>1, <2>0
  <2> QED
    BY <2>1, <2>2, <2>3, <2>4
<1> QED
  BY <1>7, <1>8, <1>9 DEF Tiles

\* What memmove and memcpy do to the bytes when a tuple is resized.
BytesResized(n, i, z, by, low, oi, si, data, data2, bytes, bytes2) ==
    /\ \A b \in (low + by)..(oi + by - 1) : data2[b] = data[b - by]
    /\ \A b \in (oi + si)..(PageSize - 1) : data2[b] = data[b]
    /\ Len(bytes2[i]) = z /\ \A k \in 1..z : data2[oi + by + k - 1] = bytes2[i][k]
    /\ \A j \in 1..n : j # i => bytes2[j] = bytes[j]

\* The tuples show what they should.
LEMMA ResizeShows ==
    ASSUME NEW n \in Nat, NEW i \in 1..n, NEW z \in Nat, NEW by \in Int, NEW low \in Int,
           NEW off \in [1..n -> Int], NEW sz \in [1..n -> Nat],
           NEW off2 \in [1..n -> Int], NEW sz2 \in [1..n -> Nat],
           Tiles(n, off, sz, low), Resized(n, i, z, by, off, sz, off2, sz2),
           NEW data, NEW data2, NEW bytes, NEW bytes2, Shows(n, off, sz, data, bytes),
           BytesResized(n, i, z, by, low, off[i], sz[i], data, data2, bytes, bytes2)
    PROVE  Shows(n, off2, sz2, data2, bytes2)
<1>0. AllPlaced(n, i, z, by, low, off, sz, off2, sz2)
  BY ResizedTuples, Zenon
<1> SUFFICES ASSUME NEW j \in 1..n
             PROVE  /\ Len(bytes2[j]) = sz2[j]
                    /\ \A k \in 1..sz2[j] : data2[off2[j] + k - 1] = bytes2[j][k]
  BY Zenon DEF Shows
<1>1. CASE j = i
  <2>1. sz2[i] = z /\ (z > 0 => off2[i] = off[i] + by)
    BY <1>0, Zenon DEF AllPlaced
  <2>2. Len(bytes2[i]) = z /\ \A k \in 1..z : data2[off[i] + by + k - 1] = bytes2[i][k]
    BY Zenon DEF BytesResized
  <2>3. \A k \in 1..z : z > 0
    OBVIOUS
  <2> QED
    BY <1>1, <2>1, <2>2, <2>3, Zenon
<1>2. CASE j # i
  <2> DEFINE oi == off[i]
             si == sz[i]
             oj == off[j]
             sj == sz[j]
             o == off2[j]
  <2>1. sz2[j] = sj /\ bytes2[j] = bytes[j] /\ Len(bytes[j]) = sj
    BY <1>2, Zenon DEF Resized, BytesResized, Shows
  <2>2. oi \in Int /\ si \in Nat /\ oj \in Int /\ sj \in Nat /\ o \in Int
    BY Zenon
  <2>3. ASSUME NEW k \in 1..sj
        PROVE  data2[o + k - 1] = bytes[j][k]
    <3>1. sj > 0
      <4> HIDE DEF sj
      <4> QED
        BY <2>2
    <3>2. Placed(low, by, oi, si, oj, sj, o)
      BY <1>0, <1>2, <2>1, <3>1, Zenon DEF AllPlaced
    <3>3. data[oj + k - 1] = bytes[j][k]
      BY Zenon DEF Shows
    <3>4. /\ \A b \in (low + by)..(oi + by - 1) : data2[b] = data[b - by]
          /\ \A b \in (oi + si)..(PageSize - 1) : data2[b] = data[b]
      BY Zenon DEF BytesResized
    <3> HIDE DEF oi, si, oj, sj, o
    <3>5. CASE low <= oj /\ oj + sj <= oi /\ o = oj + by
      <4>1. o + k - 1 \in (low + by)..(oi + by - 1)
        BY <2>2, <3>5
      <4>2. (o + k - 1) - by = oj + k - 1
        BY <2>2, <3>5
      <4> QED
        BY <3>3, <3>4, <4>1, <4>2, Zenon
    <3>6. CASE oi + si <= oj /\ oj + sj <= PageSize /\ o = oj
      <4>1. o + k - 1 \in (oi + si)..(PageSize - 1)
        BY <2>2, <3>6, TablePageAssumption
      <4> QED
        BY <3>3, <3>4, <3>6, <4>1, Zenon
    <3> QED
      BY <3>2, <3>5, <3>6, Zenon DEF Placed
  <2> QED
    BY <2>1, <2>3, Zenon
<1> QED
  BY <1>1, <1>2

(***************************************************************************)
(* The page.                                                               *)
(***************************************************************************)
Byte == {NoByte} \cup {<<t.value, k>> : t \in Tuple, k \in 1..PageSize}

Data == [0..PageSize - 1 -> Byte]

Page == [slots : Seq(Slot), free_space_pointer : 0..PageSize, data : Data]

\* The offsets and the sizes of the tuples, marked as deleted or not.
Offsets(p) == [j \in 1..Len(p.slots) |-> p.slots[j].offset]
Sizes(p) == [j \in 1..Len(p.slots) |->
                IF p.slots[j].size < 0 THEN -p.slots[j].size ELSE p.slots[j].size]

\* The slots end below the free space pointer, above it the tuples fill the page,
\* and they show the bytes in r.
PageInv(p, r) ==
    /\ p \in Page /\ r \in Seq(Seq(Byte)) /\ Len(r) = Len(p.slots)
    /\ HeaderSize + Len(p.slots) * SlotSize <= p.free_space_pointer
    /\ Tiles(Len(p.slots), Offsets(p), Sizes(p), p.free_space_pointer)
    /\ Shows(Len(p.slots), Offsets(p), Sizes(p), p.data, r)

IInv == crashed = FALSE /\ PageInv(page, rows)

\* What a page's parts are.
LEMMA PageTypes ==
    ASSUME NEW p \in Page
    PROVE  /\ p.slots \in Seq(Slot) /\ Len(p.slots) \in Nat
           /\ p.free_space_pointer \in 0..PageSize /\ p.free_space_pointer \in Int /\ p.data \in Data
           /\ \A j \in 1..Len(p.slots) :
                 /\ p.slots[j] \in Slot
                 /\ p.slots[j].offset \in 0..PageSize /\ p.slots[j].size \in -PageSize..PageSize
                 /\ p.slots[j].offset \in Int /\ p.slots[j].size \in Int
<1>1. /\ p.slots \in Seq(Slot) /\ Len(p.slots) \in Nat
      /\ p.free_space_pointer \in 0..PageSize /\ p.data \in Data
  BY DEF Page
<1>2. ASSUME NEW j \in 1..Len(p.slots)
      PROVE  p.slots[j] \in Slot
  BY <1>1
<1>3. \A x \in Slot : x.offset \in 0..PageSize /\ x.size \in -PageSize..PageSize
  BY DEF Slot
<1>4. \A x \in 0..PageSize : x \in Int
  OBVIOUS
<1>5. \A x \in -PageSize..PageSize : x \in Int
  OBVIOUS
<1> QED
  BY <1>1, <1>2, <1>3, <1>4, <1>5, Zenon

\* The functions of offsets and sizes.
LEMMA Layout ==
    ASSUME NEW p \in Page
    PROVE  /\ Offsets(p) \in [1..Len(p.slots) -> Int] /\ Sizes(p) \in [1..Len(p.slots) -> Nat]
           /\ \A j \in 1..Len(p.slots) :
                 /\ Offsets(p)[j] = p.slots[j].offset
                 /\ p.slots[j].size >= 0 => Sizes(p)[j] = p.slots[j].size
                 /\ p.slots[j].size < 0 => Sizes(p)[j] = -p.slots[j].size
                 /\ p.slots[j].size # 0 <=> Sizes(p)[j] > 0
<1>1. ASSUME NEW j \in 1..Len(p.slots)
      PROVE  p.slots[j].offset \in Int /\ p.slots[j].size \in Int
  BY PageTypes, Zenon
<1>2. Offsets(p) \in [1..Len(p.slots) -> Int]
  BY <1>1 DEF Offsets
<1>3. \A x \in Int : (IF x < 0 THEN -x ELSE x) \in Nat
  OBVIOUS
<1>4. Sizes(p) \in [1..Len(p.slots) -> Nat]
  BY <1>1, <1>3 DEF Sizes
<1>5. ASSUME NEW j \in 1..Len(p.slots)
      PROVE  /\ Offsets(p)[j] = p.slots[j].offset
             /\ p.slots[j].size >= 0 => Sizes(p)[j] = p.slots[j].size
             /\ p.slots[j].size < 0 => Sizes(p)[j] = -p.slots[j].size
             /\ p.slots[j].size # 0 <=> Sizes(p)[j] > 0
  <2> DEFINE x == p.slots[j].size
  <2>1. Offsets(p)[j] = p.slots[j].offset
    BY Zenon DEF Offsets
  <2>2. Sizes(p)[j] = IF x < 0 THEN -x ELSE x
    BY Zenon DEF Sizes
  <2>3. x \in Int
    BY <1>1
  <2> HIDE DEF x
  <2>4. /\ x >= 0 => Sizes(p)[j] = x
        /\ x < 0 => Sizes(p)[j] = -x
        /\ x # 0 <=> Sizes(p)[j] > 0
    BY <2>2, <2>3
  <2> QED
    BY <2>1, <2>4 DEF x
<1> QED
  BY <1>2, <1>4, <1>5, Zenon

\* The bytes of a tuple.
LEMMA TupleBytes ==
    ASSUME NEW t \in Tuple
    PROVE  /\ t.size \in Nat \ {0} /\ t.size <= PageSize
           /\ Bytes(t) \in Seq(Byte) /\ Len(Bytes(t)) = t.size
<1>1. t.size \in Nat \ {0} /\ t.size <= PageSize /\ PageSize \in Nat
  BY TablePageAssumption
<1>2. \A k \in 1..t.size : k \in 1..PageSize
  BY <1>1
<1>3. \A k \in 1..t.size : <<t.value, k>> \in Byte
  BY <1>2 DEF Byte
<1>4. Bytes(t) \in [1..t.size -> Byte]
  BY <1>3, Zenon DEF Bytes
<1> QED
  BY <1>1, <1>4

\* memcpy writes the bytes and nothing else.
LEMMA CopyBytes ==
    ASSUME NEW data \in Data, NEW to \in Nat, NEW bytes \in Seq(Byte), to + Len(bytes) <= PageSize
    PROVE  /\ Copy(data, to, bytes) \in Data
           /\ \A k \in 1..Len(bytes) : Copy(data, to, bytes)[to + k - 1] = bytes[k]
           /\ \A b \in 0..PageSize - 1 :
                 b < to \/ b >= to + Len(bytes) => Copy(data, to, bytes)[b] = data[b]
<1> DEFINE l == Len(bytes)
           c == Copy(data, to, bytes)
<1>1. l \in Nat /\ PageSize \in Nat
  BY TablePageAssumption
<1>2. DOMAIN data = 0..PageSize - 1
  BY Zenon DEF Data
<1>3. c = [b \in 0..PageSize - 1 |-> IF b \in to..(to + l - 1) THEN bytes[b - to + 1] ELSE data[b]]
  BY <1>2, Zenon DEF Copy
<1>4. \A k \in 1..l : bytes[k] \in Byte
  OBVIOUS
<1>5. \A b \in 0..PageSize - 1 : data[b] \in Byte
  BY Zenon DEF Data
<1> HIDE DEF l, c
<1>6. \A b \in to..(to + l - 1) : b - to + 1 \in 1..l
  BY <1>1
<1>7. c \in Data
  BY <1>3, <1>4, <1>5, <1>6, Zenon DEF Data
<1>8. ASSUME NEW k \in 1..l
      PROVE  c[to + k - 1] = bytes[k]
  <2>1. /\ to + k - 1 \in to..(to + l - 1) /\ (to + k - 1) - to + 1 = k
        /\ to + k - 1 \in 0..PageSize - 1
    BY <1>1 DEF l
  <2> QED
    BY <1>3, <2>1, Zenon
<1>9. ASSUME NEW b \in 0..PageSize - 1, b < to \/ b >= to + l
      PROVE  c[b] = data[b]
  <2>1. b \notin to..(to + l - 1)
    BY <1>1, <1>9
  <2> QED
    BY <1>3, <2>1, Zenon
<1> QED
  BY <1>7, <1>8, <1>9, Zenon DEF l, c

IsMoved(data, to, from, c, data2) ==
    /\ data2 \in Data
    /\ \A b \in to..(to + c - 1) : data2[b] = data[b - to + from]
    /\ \A b \in 0..PageSize - 1 : b < to \/ b >= to + c => data2[b] = data[b]

\* memmove moves the bytes and writes nothing else.
LEMMA MoveBytes ==
    ASSUME NEW data \in Data, NEW to \in Nat, NEW from \in Nat, NEW c \in Nat,
           to + c <= PageSize, from + c <= PageSize
    PROVE  IsMoved(data, to, from, c, Move(data, to, from, c))
<1> DEFINE d == Move(data, to, from, c)
<1>1. PageSize \in Nat
  BY TablePageAssumption
<1>2. DOMAIN data = 0..PageSize - 1
  BY Zenon DEF Data
<1>3. d = [b \in 0..PageSize - 1 |-> IF b \in to..(to + c - 1) THEN data[b - to + from] ELSE data[b]]
  BY <1>2, Zenon DEF Move
<1>5. \A b \in 0..PageSize - 1 : data[b] \in Byte
  BY Zenon DEF Data
<1> HIDE DEF d
<1>6. \A b \in to..(to + c - 1) : b \in 0..PageSize - 1 /\ b - to + from \in 0..PageSize - 1
  BY <1>1
<1>7. d \in Data
  BY <1>3, <1>5, <1>6, Zenon DEF Data
<1>8. \A b \in to..(to + c - 1) : d[b] = data[b - to + from]
  BY <1>3, <1>6, Zenon
<1>9. ASSUME NEW b \in 0..PageSize - 1, b < to \/ b >= to + c
      PROVE  d[b] = data[b]
  <2>1. b \notin to..(to + c - 1)
    BY <1>1, <1>9
  <2> QED
    BY <1>3, <2>1, Zenon
<1> QED
  BY <1>7, <1>8, <1>9, Zenon DEF IsMoved, d

\* What a sequence is after InsertTuple has put x at i, at its end or over an entry.
IsPut(S, s, i, x, s2) ==
    /\ s2 \in Seq(S) /\ Len(s2) = IF i > Len(s) THEN Len(s) + 1 ELSE Len(s)
    /\ i \in 1..Len(s2) /\ s2[i] = x
    /\ \A j \in 1..Len(s2) : j # i => j \in 1..Len(s) /\ s2[j] = s[j]

\* InsertTuple puts slots and rows so.
LEMMA Put ==
    ASSUME NEW S, NEW s \in Seq(S), NEW x \in S, NEW i \in 1..(Len(s) + 1)
    PROVE  IsPut(S, s, i, x, IF i > Len(s) THEN Append(s, x) ELSE [s EXCEPT ![i] = x])
<1>1. CASE i > Len(s)
  <2>1. i = Len(s) + 1 /\ Len(s) \in Nat
    BY <1>1
  <2>2. /\ Append(s, x) \in Seq(S) /\ Len(Append(s, x)) = Len(s) + 1
        /\ Append(s, x)[Len(s) + 1] = x /\ \A j \in 1..Len(s) : Append(s, x)[j] = s[j]
    OBVIOUS
  <2>3. \A j \in 1..(Len(s) + 1) : j # i => j \in 1..Len(s)
    BY <2>1
  <2> QED
    BY <1>1, <2>1, <2>2, <2>3, Zenon DEF IsPut
<1>2. CASE ~(i > Len(s))
  <2>1. i \in 1..Len(s)
    BY <1>2
  <2> QED
    BY <1>2, <2>1 DEF IsPut
<1> QED
  BY <1>1, <1>2

\* A slot more takes SlotSize bytes.
LEMMA SlotBytes ==
    ASSUME NEW n \in Nat
    PROVE  n * SlotSize \in Nat /\ (n + 1) * SlotSize = n * SlotSize + SlotSize
  BY TablePageAssumption

\* Inserting a tuple keeps the invariant of the page.
LEMMA InsertStep ==
    ASSUME PageInv(page, rows), NEW t \in Tuple, InsertTuple(t)
    PROVE  PageInv(page', rows') /\ UNCHANGED crashed
<1> DEFINE n == Len(page.slots)
           low == page.free_space_pointer
           i == SlotForInsert
           z == t.size
           at == low - z
           slot == [offset |-> at, size |-> z]
           m == IF i > n THEN n + 1 ELSE n
<1>1. /\ page \in Page /\ rows \in Seq(Seq(Byte)) /\ Len(rows) = n
      /\ HeaderSize + n * SlotSize <= low
      /\ Tiles(n, Offsets(page), Sizes(page), low)
      /\ Shows(n, Offsets(page), Sizes(page), page.data, rows)
  BY Zenon DEF PageInv
<1>2. /\ page.slots \in Seq(Slot) /\ n \in Nat /\ low \in 0..PageSize /\ low \in Int
      /\ page.data \in Data /\ \A j \in 1..n : page.slots[j].size \in Int
  BY <1>1, PageTypes, Zenon
<1>3. z \in Nat \ {0} /\ z <= PageSize /\ Bytes(t) \in Seq(Byte) /\ Len(Bytes(t)) = z
  BY TupleBytes
<1>4. i \in 1..(n + 1) /\ (i \in 1..n => page.slots[i].size = 0) /\ (EmptySlots = {} <=> i > n)
  <2>1. EmptySlots \in SUBSET (1..n) /\ \A j \in EmptySlots : page.slots[j].size = 0
    BY DEF EmptySlots, GetTupleCount, GetTupleSize
  <2>2. CASE EmptySlots = {}
    <3>1. i = n + 1
      BY <2>2 DEF SlotForInsert, GetTupleCount
    <3> HIDE DEF i, n
    <3> QED
      BY <1>2, <2>2, <3>1
  <2>3. CASE EmptySlots # {}
    <3>1. i = Min(EmptySlots)
      BY <2>3 DEF SlotForInsert
    <3>2. EmptySlots \in SUBSET Nat
      BY <2>1
    <3>3. i \in EmptySlots
      BY <2>3, <3>1, <3>2, MinProperties
    <3>4. i \in 1..n /\ page.slots[i].size = 0
      BY <2>1, <3>3, Zenon
    <3> HIDE DEF i, n
    <3>5. i \in 1..(n + 1) /\ ~(i > n)
      BY <1>2, <3>4
    <3> QED
      BY <2>3, <3>4, <3>5, Zenon
  <2> QED
    BY <2>2, <2>3
<1>5. /\ page' = [slots |-> IF i > n THEN Append(page.slots, slot) ELSE [page.slots EXCEPT ![i] = slot],
                  free_space_pointer |-> at, data |-> Copy(page.data, at, Bytes(t))]
      /\ rows' = IF i > n THEN Append(rows, Bytes(t)) ELSE [rows EXCEPT ![i] = Bytes(t)]
      /\ UNCHANGED crashed
  BY Zenon DEF InsertTuple, GetTupleCount
<1>6. low - HeaderSize - n * SlotSize >= z + (IF EmptySlots = {} THEN SlotSize ELSE 0)
  BY Zenon DEF InsertTuple, HasSpaceFor, GetFreeSpaceSize, GetTupleCount
<1> HIDE DEF i, n, low, z
<1>7. /\ m \in Nat /\ HeaderSize + m * SlotSize <= at /\ at \in 0..PageSize /\ at \in Nat
      /\ at + z = low /\ at + z <= PageSize
  <2> DEFINE ns == n * SlotSize
             ms == m * SlotSize
             more == IF EmptySlots = {} THEN SlotSize ELSE 0
  <2>1. PageSize \in Nat /\ HeaderSize \in Nat /\ SlotSize \in Nat
    BY TablePageAssumption
  <2>2. m \in Nat /\ ns \in Nat /\ more \in Nat /\ ms = ns + more
    <3>1. ns \in Nat /\ (n + 1) * SlotSize = ns + SlotSize
      BY <1>2, SlotBytes, Zenon
    <3> HIDE DEF ns
    <3>2. CASE i > n
      <4>1. m = n + 1 /\ more = SlotSize /\ n + 1 \in Nat
        BY <1>2, <1>4, <3>2
      <4> QED
        BY <2>1, <3>1, <4>1, Zenon
    <3>3. CASE ~(i > n)
      <4>1. m = n /\ more = 0
        BY <1>2, <1>4, <3>3
      <4>2. ms = ns /\ ns = ns + 0 /\ 0 \in Nat
        BY <3>1, <4>1 DEF ns
      <4> QED
        BY <1>2, <3>1, <4>1, <4>2, Zenon
    <3> QED
      BY <3>2, <3>3
  <2>3. low - HeaderSize - ns >= z + more
    BY <1>6, Zenon
  <2> HIDE DEF ns, ms, more, m
  <2>4. /\ HeaderSize + ms <= at /\ at \in 0..PageSize /\ at \in Nat
        /\ at + z = low /\ at + z <= PageSize
    BY <1>2, <1>3, <2>1, <2>2, <2>3
  <2> QED
    BY <2>2, <2>4 DEF ms
<1>8. slot \in Slot /\ slot.offset = at /\ slot.size = z /\ z > 0
  <2>1. z \in -PageSize..PageSize
    BY <1>3, TablePageAssumption
  <2> HIDE DEF at
  <2> QED
    BY <1>3, <1>7, <2>1 DEF Slot
<1>9. /\ page'.slots = IF i > n THEN Append(page.slots, slot) ELSE [page.slots EXCEPT ![i] = slot]
      /\ page'.free_space_pointer = at /\ page'.data = Copy(page.data, at, Bytes(t))
  BY <1>5
<1> HIDE DEF slot, at
<1>10. IsPut(Slot, page.slots, i, slot, page'.slots)
  <2>1. i \in 1..(Len(page.slots) + 1)
    BY <1>4 DEF n
  <2>2. IsPut(Slot, page.slots, i, slot,
              IF i > Len(page.slots) THEN Append(page.slots, slot) ELSE [page.slots EXCEPT ![i] = slot])
    BY <1>2, <1>8, <2>1, Put, Zenon
  <2> QED
    BY <1>9, <2>2, Zenon DEF n
<1>11. IsPut(Seq(Byte), rows, i, Bytes(t), rows')
  BY <1>1, <1>3, <1>4, <1>5, Put, Zenon
<1>12. /\ Copy(page.data, at, Bytes(t)) \in Data
       /\ \A k \in 1..z : Copy(page.data, at, Bytes(t))[at + k - 1] = Bytes(t)[k]
       /\ \A b \in 0..PageSize - 1 :
             b < at \/ b >= at + z => Copy(page.data, at, Bytes(t))[b] = page.data[b]
  <2>1. at + Len(Bytes(t)) <= PageSize
    BY <1>3, <1>7
  <2>2. /\ Copy(page.data, at, Bytes(t)) \in Data
        /\ \A k \in 1..Len(Bytes(t)) : Copy(page.data, at, Bytes(t))[at + k - 1] = Bytes(t)[k]
        /\ \A b \in 0..PageSize - 1 : b < at \/ b >= at + Len(Bytes(t)) =>
              Copy(page.data, at, Bytes(t))[b] = page.data[b]
    BY <1>2, <1>3, <1>7, <2>1, CopyBytes, Zenon
  <2> QED
    BY <1>3, <2>2, Zenon
<1>13. page' \in Page /\ Len(page'.slots) = m /\ rows' \in Seq(Seq(Byte)) /\ Len(rows') = m /\ i \in 1..m
  <2>1. page'.slots \in Seq(Slot) /\ Len(page'.slots) = m /\ rows' \in Seq(Seq(Byte)) /\ Len(rows') = m
        /\ i \in 1..m
    BY <1>1, <1>10, <1>11, Zenon DEF IsPut, n
  <2>2. page' = [slots |-> page'.slots, free_space_pointer |-> at, data |-> page'.data]
    BY <1>5 DEF slot, at
  <2>3. page'.data \in Data
    BY <1>9, <1>12
  <2> QED
    BY <1>7, <2>1, <2>2, <2>3 DEF Page
<1>14. Inserted(n, m, i, z, low, Offsets(page), Sizes(page), Offsets(page'), Sizes(page'))
  <2>1. m = n \/ m = n + 1
    BY Zenon
  <2>2. page'.slots[i] = slot /\ \A j \in 1..m : j # i => j \in 1..n /\ page'.slots[j] = page.slots[j]
    BY <1>10, <1>13, Zenon DEF IsPut, n
  <2>3. Offsets(page')[i] = at /\ Sizes(page')[i] = z
    <3>1. z >= 0
      BY <1>3
    <3> QED
      BY <1>8, <1>13, <2>2, <3>1, Layout, Zenon
  <2>4. i \in 1..n => Sizes(page)[i] = 0
    <3>1. 0 >= 0
      OBVIOUS
    <3> QED
      BY <1>1, <1>4, <3>1, Layout, Zenon DEF n
  <2>5. \A j \in 1..m : j # i => /\ j \in 1..n /\ Offsets(page')[j] = Offsets(page)[j]
                                 /\ Sizes(page')[j] = Sizes(page)[j]
    BY <1>13, <2>2, Zenon DEF Offsets, Sizes, n
  <2> HIDE DEF m
  <2> QED
    BY <1>13, <2>1, <2>3, <2>4, <2>5 DEF Inserted, at
<1>15. BytesInserted(m, i, z, low, page.data, page'.data, rows, rows')
  <2>1. rows'[i] = Bytes(t) /\ \A j \in 1..m : j # i => rows'[j] = rows[j]
    BY <1>11, <1>13, Zenon DEF IsPut
  <2>2. \A k \in 1..z : page'.data[at + k - 1] = rows'[i][k]
    BY <1>9, <1>12, <2>1, Zenon
  <2>3. ASSUME NEW b \in low..(PageSize - 1)
        PROVE  page'.data[b] = page.data[b]
    <3>1. b \in 0..PageSize - 1 /\ b >= at + z
      BY <1>2, <1>7, TablePageAssumption
    <3> QED
      BY <1>9, <1>12, <3>1, Zenon
  <2> QED
    BY <1>3, <2>1, <2>2, <2>3, Zenon DEF BytesInserted, at
<1>16. /\ Offsets(page) \in [1..n -> Int] /\ Sizes(page) \in [1..n -> Nat]
       /\ Offsets(page') \in [1..m -> Int] /\ Sizes(page') \in [1..m -> Nat]
  BY <1>1, <1>13, Layout, Zenon DEF n
<1>17. low - z >= 0 /\ low <= PageSize
  BY <1>2, <1>7, TablePageAssumption DEF at
<1>18. m \in Nat
  BY <1>7
<1> HIDE DEF m
<1>19. Tiles(m, Offsets(page'), Sizes(page'), low - z)
  BY <1>1, <1>2, <1>3, <1>13, <1>14, <1>16, <1>17, <1>18, InsertTiles, Zenon
<1>20. Shows(m, Offsets(page'), Sizes(page'), page'.data, rows')
  BY <1>1, <1>2, <1>3, <1>13, <1>14, <1>15, <1>16, <1>17, <1>18, InsertShows, Zenon
<1> QED
  BY <1>5, <1>7, <1>9, <1>13, <1>19, <1>20, Zenon DEF PageInv, at

\* Marking a tuple as deleted, and taking the mark back, changes neither the
\* layout nor the bytes.
LEMMA MarkStep ==
    ASSUME PageInv(page, rows), NEW i \in 1..GetTupleCount, MarkDelete(i) \/ RollbackDelete(i)
    PROVE  PageInv(page', rows') /\ UNCHANGED crashed
<1> DEFINE n == Len(page.slots)
           s == page.slots[i].size
<1>1. /\ page \in Page /\ rows \in Seq(Seq(Byte)) /\ Len(rows) = n
      /\ HeaderSize + n * SlotSize <= page.free_space_pointer
      /\ Tiles(n, Offsets(page), Sizes(page), page.free_space_pointer)
      /\ Shows(n, Offsets(page), Sizes(page), page.data, rows)
  BY Zenon DEF PageInv
<1>2. /\ page.slots \in Seq(Slot) /\ n \in Nat /\ i \in 1..n
      /\ page.slots[i] \in Slot /\ s \in -PageSize..PageSize
  BY <1>1, PageTypes, Zenon DEF GetTupleCount
<1>3. page' = [page EXCEPT !.slots[i].size = -@] /\ rows' = rows /\ UNCHANGED crashed
  BY Zenon DEF MarkDelete, RollbackDelete
<1>4. /\ page'.slots = [page.slots EXCEPT ![i] = [page.slots[i] EXCEPT !.size = -s]]
      /\ page'.free_space_pointer = page.free_space_pointer /\ page'.data = page.data
  BY <1>1, <1>3 DEF Page
<1>5. -s \in -PageSize..PageSize
  <2> HIDE DEF s
  <2> QED
    BY <1>2, TablePageAssumption
<1>6. [page.slots[i] EXCEPT !.size = -s] \in Slot
  BY <1>2, <1>5, Zenon DEF Slot
<1>7. page'.slots \in Seq(Slot) /\ Len(page'.slots) = n
  BY <1>2, <1>4, <1>6
<1>8. page' \in Page
  BY <1>1, <1>3, <1>7, Zenon DEF Page
<1>9. ASSUME NEW j \in 1..n
      PROVE  /\ page'.slots[j].offset = page.slots[j].offset
             /\ page'.slots[j].size = IF j = i THEN -s ELSE page.slots[j].size
  <2> DEFINE x == page.slots[i]
  <2>1. j # i => page'.slots[j] = page.slots[j]
    BY <1>2, <1>4
  <2>2. page'.slots[i] = [x EXCEPT !.size = -s] /\ x \in Slot
    BY <1>2, <1>4
  <2> HIDE DEF x, s
  <2>3. page'.slots[i].offset = x.offset /\ page'.slots[i].size = -s
    BY <2>2 DEF Slot
  <2> QED
    BY <2>1, <2>3, Zenon DEF x
<1>10. Offsets(page') = Offsets(page)
  BY <1>7, <1>9, Zenon DEF Offsets
<1>11. Sizes(page') = Sizes(page)
  <2>1. (IF -s < 0 THEN -(-s) ELSE -s) = IF s < 0 THEN -s ELSE s
    <3> HIDE DEF s
    <3>1. s \in Int
      BY <1>2
    <3> QED
      BY <3>1
  <2>2. \A j \in 1..n : (IF page'.slots[j].size < 0 THEN -page'.slots[j].size ELSE page'.slots[j].size)
                        = IF page.slots[j].size < 0 THEN -page.slots[j].size ELSE page.slots[j].size
    BY <1>9, <2>1, Zenon
  <2> QED
    BY <1>7, <2>2, Zenon DEF Sizes
<1> QED
  BY <1>1, <1>3, <1>4, <1>7, <1>8, <1>10, <1>11, Zenon DEF PageInv

\* A step that resizes tuple i to z bytes keeps the invariant: what UpdateTuple
\* and ApplyDelete have in common.
LEMMA ResizeStep ==
    ASSUME PageInv(page, rows), NEW i \in 1..Len(page.slots), NEW z \in Nat, NEW by \in Int,
           page' \in Page, Len(page'.slots) = Len(page.slots),
           rows' \in Seq(Seq(Byte)), Len(rows') = Len(rows),
           page'.free_space_pointer = page.free_space_pointer + by,
           HeaderSize + Len(page.slots) * SlotSize <= page.free_space_pointer + by,
           Resized(Len(page.slots), i, z, by,
                   Offsets(page), Sizes(page), Offsets(page'), Sizes(page')),
           BytesResized(Len(page.slots), i, z, by, page.free_space_pointer,
                        Offsets(page)[i], Sizes(page)[i], page.data, page'.data, rows, rows')
    PROVE  PageInv(page', rows')
<1> DEFINE n == Len(page.slots)
           low == page.free_space_pointer
<1>1. /\ page \in Page /\ Len(rows) = n
      /\ Tiles(n, Offsets(page), Sizes(page), low)
      /\ Shows(n, Offsets(page), Sizes(page), page.data, rows)
  BY Zenon DEF PageInv
<1>2. n \in Nat /\ low \in Int
  BY <1>1, PageTypes, Zenon
<1>3. /\ Offsets(page) \in [1..n -> Int] /\ Sizes(page) \in [1..n -> Nat]
      /\ Offsets(page') \in [1..n -> Int] /\ Sizes(page') \in [1..n -> Nat]
  BY <1>1, Layout, Zenon
<1>4. Tiles(n, Offsets(page'), Sizes(page'), low + by)
  BY <1>1, <1>2, <1>3, ResizeTiles, Zenon
<1>5. Shows(n, Offsets(page'), Sizes(page'), page'.data, rows')
  BY <1>1, <1>2, <1>3, ResizeShows, Zenon
<1> QED
  BY <1>1, <1>4, <1>5, Zenon DEF PageInv

\* Where a tuple of the page is.
LEMMA TuplePlace ==
    ASSUME PageInv(page, rows), NEW i \in 1..Len(page.slots), page.slots[i].size # 0
    PROVE  /\ Offsets(page)[i] \in Int /\ Sizes(page)[i] \in Nat \ {0}
           /\ Offsets(page)[i] = page.slots[i].offset /\ StoredSize(i) = Sizes(page)[i]
           /\ page.free_space_pointer <= Offsets(page)[i]
           /\ Offsets(page)[i] + Sizes(page)[i] <= PageSize
           /\ \A j \in 1..Len(page.slots) : j # i /\ page.slots[j].size # 0 =>
                 \/ Offsets(page)[i] + Sizes(page)[i] <= Offsets(page)[j]
                 \/ Offsets(page)[j] + Sizes(page)[j] <= Offsets(page)[i]
<1>1. page \in Page /\ Tiles(Len(page.slots), Offsets(page), Sizes(page), page.free_space_pointer)
  BY Zenon DEF PageInv
<1>2. /\ Offsets(page) \in [1..Len(page.slots) -> Int] /\ Sizes(page) \in [1..Len(page.slots) -> Nat]
      /\ Offsets(page)[i] = page.slots[i].offset
      /\ \A j \in 1..Len(page.slots) : page.slots[j].size # 0 <=> Sizes(page)[j] > 0
  BY <1>1, Layout, Zenon
<1>3. StoredSize(i) = Sizes(page)[i]
  BY Zenon DEF StoredSize, GetTupleSize, Sizes
<1>4. Sizes(page)[i] > 0
  BY <1>2, Zenon
<1>5. Offsets(page)[i] \in Int /\ Sizes(page)[i] \in Nat
  BY <1>2, Zenon
<1>6. Sizes(page)[i] \in Nat \ {0}
  BY <1>4, <1>5
<1>7. /\ page.free_space_pointer <= Offsets(page)[i]
      /\ Offsets(page)[i] + Sizes(page)[i] <= PageSize
  BY <1>1, <1>4, Zenon DEF Tiles, Inside
<1>8. \A j \in 1..Len(page.slots) : j # i /\ page.slots[j].size # 0 =>
         \/ Offsets(page)[i] + Sizes(page)[i] <= Offsets(page)[j]
         \/ Offsets(page)[j] + Sizes(page)[j] <= Offsets(page)[i]
  BY <1>1, <1>2, <1>4, Zenon DEF Tiles, Apart
<1> QED
  BY <1>2, <1>3, <1>5, <1>6, <1>7, <1>8, Zenon

\* Deleting a tuple for good keeps the invariant, and its assertion holds.
LEMMA DeleteStep ==
    ASSUME PageInv(page, rows), NEW i \in 1..GetTupleCount, GetTupleSize(i) # 0, ApplyDelete(i)
    PROVE  PageInv(page', rows') /\ UNCHANGED crashed
<1> DEFINE n == Len(page.slots)
           low == page.free_space_pointer
           oi == Offsets(page)[i]
           si == Sizes(page)[i]
           moved(j) == page.slots[j].offset + (IF j \in MovedByDelete(i) THEN si ELSE 0)
<1>1. /\ page \in Page /\ rows \in Seq(Seq(Byte)) /\ Len(rows) = n
      /\ HeaderSize + n * SlotSize <= low
  BY Zenon DEF PageInv
<1>2. /\ n \in Nat /\ i \in 1..n /\ low \in 0..PageSize /\ low \in Int /\ page.data \in Data
      /\ \A j \in 1..n : page.slots[j] \in Slot /\ page.slots[j].offset \in 0..PageSize
  BY <1>1, PageTypes, Zenon DEF GetTupleCount
<1>3. /\ oi \in Int /\ si \in Nat \ {0} /\ oi = page.slots[i].offset /\ StoredSize(i) = si
      /\ low <= oi /\ oi + si <= PageSize
      /\ \A j \in 1..n : j # i /\ page.slots[j].size # 0 =>
            oi + si <= Offsets(page)[j] \/ Offsets(page)[j] + Sizes(page)[j] <= oi
  BY <1>2, TuplePlace, Zenon DEF GetTupleSize
<1>4. /\ Offsets(page) \in [1..n -> Int] /\ Sizes(page) \in [1..n -> Nat]
      /\ \A j \in 1..n : Offsets(page)[j] = page.slots[j].offset
      /\ \A j \in 1..n : page.slots[j].size # 0 <=> Sizes(page)[j] > 0
  BY <1>1, Layout, Zenon
<1>5. Len(BytesAt(i)) = si
  <2>1. BytesAt(i) = [k \in 1..si |-> page.data[GetTupleOffset(i) + k - 1]]
    BY <1>3, Zenon DEF BytesAt
  <2> HIDE DEF si
  <2> QED
    BY <1>3, <2>1
<1>6. /\ page' = [slots |-> [j \in 1..n |-> IF j = i THEN [offset |-> 0, size |-> 0]
                                            ELSE [page.slots[j] EXCEPT !.offset = moved(j)]],
                  free_space_pointer |-> low + si,
                  data |-> Move(page.data, low + si, low, oi - low)]
      /\ rows' = [rows EXCEPT ![i] = <<>>] /\ UNCHANGED crashed
  <2>1. ~(GetTupleOffset(i) < low) /\ GetTupleOffset(i) = oi
    <3> HIDE DEF oi, low
    <3>1. ~(oi < low)
      BY <1>2, <1>3
    <3> QED
      BY <1>3, <3>1, Zenon DEF GetTupleOffset
  <2> QED
    BY <1>5, <2>1, Zenon DEF ApplyDelete, GetTupleCount
<1>7. /\ page'.slots = [j \in 1..n |-> IF j = i THEN [offset |-> 0, size |-> 0]
                                       ELSE [page.slots[j] EXCEPT !.offset = moved(j)]]
      /\ page'.free_space_pointer = low + si
      /\ page'.data = Move(page.data, low + si, low, oi - low)
  BY <1>6
<1>8. \A j \in 1..n : j \in MovedByDelete(i) <=>
         j # i /\ page.slots[j].size # 0 /\ Offsets(page)[j] < oi
  BY <1>3, <1>4, Zenon DEF MovedByDelete, GetTupleCount, GetTupleSize, GetTupleOffset
<1> HIDE DEF n, low, oi, si
<1>9. ASSUME NEW j \in 1..n, j # i
      PROVE  moved(j) \in 0..PageSize
  <2>1. CASE j \in MovedByDelete(i)
    <3> DEFINE oj == Offsets(page)[j]
               sj == Sizes(page)[j]
    <3>1. oj < oi /\ sj > 0 /\ (oi + si <= oj \/ oj + sj <= oi) /\ moved(j) = oj + si
      BY <1>3, <1>4, <1>8, <1>9, <2>1, Zenon
    <3>2. oj \in 0..PageSize /\ sj \in Nat
      BY <1>2, <1>4, Zenon
    <3> HIDE DEF oj, sj, moved
    <3> QED
      BY <1>3, <3>1, <3>2, TablePageAssumption
  <2>2. CASE j \notin MovedByDelete(i)
    <3> DEFINE x == page.slots[j].offset
    <3>1. x \in 0..PageSize /\ moved(j) = x + 0
      BY <1>2, <2>2, Zenon
    <3> HIDE DEF x, moved
    <3> QED
      BY <3>1
  <2> QED
    BY <2>1, <2>2
<1>10. ASSUME NEW j \in 1..n
       PROVE  /\ page'.slots[j] \in Slot
              /\ j = i => page'.slots[j].offset = 0 /\ page'.slots[j].size = 0
              /\ j # i => page'.slots[j].offset = moved(j) /\ page'.slots[j].size = page.slots[j].size
  <2>1. CASE j = i
    <3>1. page'.slots[j] = [offset |-> 0, size |-> 0]
      BY <1>7, <2>1, Zenon
    <3>2. 0 \in 0..PageSize /\ 0 \in -PageSize..PageSize
      BY TablePageAssumption
    <3> QED
      BY <2>1, <3>1, <3>2 DEF Slot
  <2>2. CASE j # i
    <3>1. page'.slots[j] = [page.slots[j] EXCEPT !.offset = moved(j)]
      BY <1>7, <2>2, Zenon
    <3>2. page.slots[j] \in Slot /\ moved(j) \in 0..PageSize
      BY <1>2, <1>9, <2>2
    <3> HIDE DEF moved
    <3> QED
      BY <2>2, <3>1, <3>2 DEF Slot
  <2> QED
    BY <2>1, <2>2
<1>11. page'.slots \in Seq(Slot) /\ Len(page'.slots) = n
  <2>1. page'.slots \in [1..n -> Slot]
    BY <1>7, <1>10, Zenon
  <2> QED
    BY <1>2, <2>1
<1>12. low + si \in Nat /\ low + si + (oi - low) <= PageSize /\ low + (oi - low) <= PageSize
       /\ low \in Nat /\ oi - low \in Nat /\ low + si \in 0..PageSize /\ low + si + (oi - low) = oi + si
  BY <1>2, <1>3, TablePageAssumption
<1>13. /\ page'.data \in Data
       /\ \A b \in (low + si)..(low + si + (oi - low) - 1) :
             page'.data[b] = page.data[b - (low + si) + low]
       /\ \A b \in 0..PageSize - 1 :
             b < low + si \/ b >= low + si + (oi - low) => page'.data[b] = page.data[b]
  <2> DEFINE to == low + si
             c == oi - low
  <2>1. /\ to \in Nat /\ c \in Nat /\ to + c <= PageSize /\ low + c <= PageSize
        /\ low \in Nat /\ page.data \in Data /\ page'.data = Move(page.data, to, low, c)
    BY <1>2, <1>7, <1>12
  <2> HIDE DEF to, c
  <2>2. /\ page'.data \in Data
        /\ \A b \in to..(to + c - 1) : page'.data[b] = page.data[b - to + low]
        /\ \A b \in 0..PageSize - 1 : b < to \/ b >= to + c => page'.data[b] = page.data[b]
    <3>1. IsMoved(page.data, to, low, c, Move(page.data, to, low, c))
      BY <2>1, MoveBytes
    <3> QED
      BY <2>1, <3>1, Zenon DEF IsMoved
  <2> QED
    BY <2>2, Zenon DEF to, c
<1>14. page' \in Page
  <2>1. page' = [slots |-> page'.slots, free_space_pointer |-> low + si, data |-> page'.data]
    BY <1>6
  <2> QED
    BY <1>11, <1>12, <1>13, <2>1 DEF Page
<1>15. /\ rows' \in Seq(Seq(Byte)) /\ Len(rows') = Len(rows)
       /\ rows'[i] = <<>> /\ \A j \in 1..n : j # i => rows'[j] = rows[j]
  <2>1. <<>> \in Seq(Byte) /\ i \in 1..Len(rows)
    BY <1>1, <1>2
  <2> QED
    BY <1>1, <1>6, <2>1
<1>16. Resized(n, i, 0, si, Offsets(page), Sizes(page), Offsets(page'), Sizes(page'))
  <2>1. \A j \in 1..n : Offsets(page')[j] = page'.slots[j].offset
    BY <1>11, <1>14, Layout, Zenon
  <2>2. Sizes(page')[i] = 0
    <3>1. ~(0 < 0)
      OBVIOUS
    <3> QED
      BY <1>2, <1>10, <1>11, <3>1, Zenon DEF Sizes
  <2>3. \A j \in 1..n : j # i => Sizes(page')[j] = Sizes(page)[j]
    BY <1>10, <1>11, Zenon DEF Sizes, n
  <2>4. ASSUME NEW j \in 1..n, j # i, Sizes(page)[j] > 0
        PROVE  /\ Offsets(page)[j] < oi => Offsets(page')[j] = Offsets(page)[j] + si
               /\ ~(Offsets(page)[j] < oi) => Offsets(page')[j] = Offsets(page)[j]
    <3> DEFINE oj == Offsets(page)[j]
    <3>1. Offsets(page')[j] = oj + (IF j \in MovedByDelete(i) THEN si ELSE 0)
      BY <1>4, <1>10, <2>1, <2>4, Zenon
    <3>2. j \in MovedByDelete(i) <=> oj < oi
      BY <1>4, <1>8, <2>4, Zenon
    <3>3. oj \in Int /\ oj + 0 = oj
      BY <1>4
    <3> HIDE DEF oj
    <3>4. (oj < oi => Offsets(page')[j] = oj + si) /\ (~(oj < oi) => Offsets(page')[j] = oj)
      BY <3>1, <3>2, <3>3, Zenon
    <3> QED
      BY <3>4 DEF oj
  <2>5. si = si - 0 /\ si > 0 /\ ~(0 > 0)
    BY <1>3
  <2> QED
    BY <2>2, <2>3, <2>4, <2>5, Zenon DEF Resized, oi, si
<1>17. BytesResized(n, i, 0, si, low, oi, si, page.data, page'.data, rows, rows')
  <2>1. ASSUME NEW b \in (low + si)..(oi + si - 1)
        PROVE  page'.data[b] = page.data[b - si]
    <3>1. b \in (low + si)..(low + si + (oi - low) - 1) /\ b - (low + si) + low = b - si
      BY <1>2, <1>3, <1>12
    <3> QED
      BY <1>13, <3>1, Zenon
  <2>2. ASSUME NEW b \in (oi + si)..(PageSize - 1)
        PROVE  page'.data[b] = page.data[b]
    <3>1. b \in 0..PageSize - 1 /\ b >= low + si + (oi - low)
      BY <1>2, <1>3, <1>12, TablePageAssumption
    <3> QED
      BY <1>13, <3>1, Zenon
  <2>3. Len(rows'[i]) = 0 /\ \A k \in 1..0 : FALSE
    BY <1>15
  <2> QED
    BY <1>15, <2>1, <2>2, <2>3, Zenon DEF BytesResized
<1>18. HeaderSize + n * SlotSize <= low + si
  <2> DEFINE ns == n * SlotSize
  <2>1. ns \in Nat /\ HeaderSize + ns <= low /\ HeaderSize \in Nat
    BY <1>1, <1>2, SlotBytes, TablePageAssumption
  <2> HIDE DEF ns
  <2>2. HeaderSize + ns <= low + si
    BY <1>2, <1>3, <2>1
  <2> QED
    BY <2>2 DEF ns
<1>19. PageInv(page', rows')
  <2>1. 0 \in Nat /\ si \in Int
    BY <1>3
  <2> QED
    BY <1>2, <1>7, <1>11, <1>14, <1>15, <1>16, <1>17, <1>18, <2>1, ResizeStep, Zenon DEF n, low, oi, si
<1> QED
  BY <1>6, <1>19

\* Updating a tuple while none is marked as deleted keeps the invariant.
LEMMA UpdateStep ==
    ASSUME PageInv(page, rows), NEW i \in 1..GetTupleCount, NEW t \in Tuple,
           Marked = {}, UpdateTuple(i, t)
    PROVE  PageInv(page', rows') /\ UNCHANGED crashed
<1> DEFINE n == Len(page.slots)
           low == page.free_space_pointer
           oi == Offsets(page)[i]
           si == Sizes(page)[i]
           z == t.size
           by == si - z
           moved(j) == page.slots[j].offset + (IF j \in MovedByUpdate(i, by) THEN by ELSE 0)
           moving == Move(page.data, low + by, low, oi - low)
<1>1. /\ page \in Page /\ rows \in Seq(Seq(Byte)) /\ Len(rows) = n
      /\ HeaderSize + n * SlotSize <= low
  BY Zenon DEF PageInv
<1>2. /\ n \in Nat /\ i \in 1..n /\ low \in 0..PageSize /\ low \in Int /\ page.data \in Data
      /\ \A j \in 1..n : /\ page.slots[j] \in Slot /\ page.slots[j].offset \in 0..PageSize
                         /\ page.slots[j].size \in -PageSize..PageSize
                         /\ page.slots[j].size \in Int
  BY <1>1, PageTypes, Zenon DEF GetTupleCount
<1>3. /\ oi \in Int /\ si \in Nat \ {0} /\ oi = page.slots[i].offset
      /\ low <= oi /\ oi + si <= PageSize
      /\ \A j \in 1..n : j # i /\ page.slots[j].size # 0 =>
            oi + si <= Offsets(page)[j] \/ Offsets(page)[j] + Sizes(page)[j] <= oi
  <2>1. GetTupleSize(i) > 0
    BY Zenon DEF UpdateTuple
  <2>2. page.slots[i].size # 0
    BY <1>2, <2>1 DEF GetTupleSize
  <2> QED
    BY <1>2, <2>2, TuplePlace, Zenon
<1>4. /\ Offsets(page) \in [1..n -> Int] /\ Sizes(page) \in [1..n -> Nat]
      /\ \A j \in 1..n : Offsets(page)[j] = page.slots[j].offset
      /\ \A j \in 1..n : Sizes(page)[j] = page.slots[j].size
  <2>1. \A j \in 1..n : ~(page.slots[j].size < 0)
    BY Zenon DEF Marked, GetTupleCount, GetTupleSize
  <2>2. \A j \in 1..n : Sizes(page)[j] = page.slots[j].size
    BY <2>1, Zenon DEF Sizes
  <2> QED
    BY <1>1, <2>2, Layout, Zenon
<1>5. z \in Nat \ {0} /\ z <= PageSize /\ Bytes(t) \in Seq(Byte) /\ Len(Bytes(t)) = z
  BY TupleBytes
<1>6. /\ GetTupleOffset(i) = oi /\ GetTupleSize(i) = si
      /\ \A j \in 1..n : GetTupleOffset(j) = page.slots[j].offset /\ GetTupleSize(j) = page.slots[j].size
  BY <1>2, <1>3, <1>4, Zenon DEF GetTupleOffset, GetTupleSize
<1>7. low - HeaderSize - n * SlotSize >= -by
  BY <1>6, Zenon DEF UpdateTuple, GetFreeSpaceSize, GetTupleCount
<1>8. /\ page' = [slots |-> [j \in 1..n |-> [offset |-> moved(j),
                                             size |-> IF j = i THEN z ELSE page.slots[j].size]],
                  free_space_pointer |-> low + by,
                  data |-> Copy(moving, oi + by, Bytes(t))]
      /\ rows' = [rows EXCEPT ![i] = Bytes(t)] /\ UNCHANGED crashed
  <2>1. ~(oi < low)
    <3> HIDE DEF oi, low
    <3> QED
      BY <1>2, <1>3
  <2>2. /\ page' = [slots |-> [j \in 1..n |->
                                  [offset |-> GetTupleOffset(j)
                                              + (IF j \in MovedByUpdate(i, by) THEN by ELSE 0),
                                   size |-> IF j = i THEN z ELSE GetTupleSize(j)]],
                    free_space_pointer |-> low + by,
                    data |-> Copy(moving, oi + by, Bytes(t))]
        /\ rows' = [rows EXCEPT ![i] = Bytes(t)] /\ UNCHANGED crashed
    BY <1>6, <2>1, Zenon DEF UpdateTuple, GetTupleCount
  <2> QED
    BY <2>2, Zenon DEF GetTupleOffset, GetTupleSize
<1>9. /\ page'.slots = [j \in 1..n |-> [offset |-> moved(j),
                                        size |-> IF j = i THEN z ELSE page.slots[j].size]]
      /\ page'.free_space_pointer = low + by
      /\ page'.data = Copy(moving, oi + by, Bytes(t))
  BY <1>8
<1>10. \A j \in 1..n : j \in MovedByUpdate(i, by) <=> Sizes(page)[j] > 0 /\ Offsets(page)[j] < oi + si
  BY <1>4, <1>6, Zenon DEF MovedByUpdate, GetTupleCount
<1> HIDE DEF n, low, oi, si, z
<1>11. by \in Int /\ by = si - z /\ si = by + z /\ by <= si
  BY <1>3, <1>5
<1>12. HeaderSize + n * SlotSize <= low + by /\ low + by \in Nat
  <2> DEFINE ns == n * SlotSize
  <2>1. ns \in Nat /\ low - HeaderSize - ns >= -by /\ HeaderSize \in Nat
    BY <1>2, <1>7, SlotBytes, TablePageAssumption
  <2> HIDE DEF ns, by
  <2>2. HeaderSize + ns <= low + by /\ low + by \in Nat
    BY <1>2, <1>11, <2>1
  <2> QED
    BY <2>2 DEF ns
<1> HIDE DEF by
<1>a. /\ oi \in Int /\ si \in Nat /\ si > 0 /\ z \in Nat /\ z > 0 /\ low \in Nat /\ PageSize \in Nat
      /\ low <= oi /\ oi + si <= PageSize
      /\ by \in Int /\ si = by + z /\ low + by \in Nat
  <2>1. oi \in Int /\ low <= oi /\ oi + si <= PageSize /\ si = by + z /\ by \in Int /\ low + by \in Nat
    BY <1>3, <1>11, <1>12, Zenon
  <2>2. low \in Nat /\ PageSize \in Nat
    BY <1>2, TablePageAssumption
  <2>3. si \in Nat /\ si > 0 /\ z \in Nat /\ z > 0
    <3>1. si \in Nat \ {0} /\ z \in Nat \ {0}
      BY <1>3, <1>5, Zenon
    <3> QED
      BY <3>1
  <2> QED
    BY <2>1, <2>2, <2>3, Zenon
<1>13. ASSUME NEW j \in 1..n
       PROVE  /\ moved(j) \in 0..PageSize
              /\ j = i => moved(j) = oi + by
              /\ j # i /\ Sizes(page)[j] > 0 /\ Offsets(page)[j] < oi => moved(j) = Offsets(page)[j] + by
              /\ j # i /\ Sizes(page)[j] > 0 /\ ~(Offsets(page)[j] < oi) => moved(j) = Offsets(page)[j]
  <2> DEFINE oj == Offsets(page)[j]
             sj == Sizes(page)[j]
  <2>1. /\ oj \in 0..PageSize /\ sj \in Nat
        /\ moved(j) = oj + (IF j \in MovedByUpdate(i, by) THEN by ELSE 0)
        /\ j \in MovedByUpdate(i, by) <=> sj > 0 /\ oj < oi + si
        /\ j = i => oj = oi /\ sj = si
        /\ j # i /\ sj # 0 => oi + si <= oj \/ oj + sj <= oi
        /\ sj > 0 => low <= oj
    <3>1. Inside(n, Offsets(page), Sizes(page), low)
      BY Zenon DEF PageInv, Tiles, n, low
    <3> QED
      BY <1>2, <1>3, <1>4, <1>10, <3>1, Zenon DEF Inside, oi, si
  <2>2. moved(j) = IF sj > 0 /\ oj < oi + si THEN oj + by ELSE oj
    <3>1. oj + 0 = oj
      BY <2>1
    <3> HIDE DEF oj, sj, moved
    <3> QED
      BY <2>1, <3>1, Zenon
  <2> HIDE DEF oj, sj, moved
  <2>4. CASE j = i
    <3>1. moved(j) = oi + by
      BY <1>a, <2>1, <2>2, <2>4
    <3>2. oi + by \in 0..PageSize
      BY <1>a
    <3> QED
      BY <2>4, <3>1, <3>2, Zenon
  <2>5. CASE j # i /\ sj > 0 /\ oj < oi
    <3>1. oj + sj <= oi /\ moved(j) = oj + by /\ low <= oj
      BY <1>a, <2>1, <2>2, <2>5
    <3>2. oj \in Int /\ sj \in Nat /\ oj + sj <= oi /\ low <= oj
      BY <2>1, <3>1
    <3>3. oj + by \in 0..PageSize
      BY <1>a, <3>2
    <3> QED
      BY <2>5, <3>1, <3>3, Zenon DEF oj, sj
  <2>6. CASE j # i /\ ~(sj > 0 /\ oj < oi)
    <3>1. moved(j) = oj
      BY <1>a, <2>1, <2>2, <2>6
    <3> QED
      BY <2>1, <2>6, <3>1, Zenon DEF oj, sj
  <2> QED
    BY <2>4, <2>5, <2>6, Zenon
<1>14. ASSUME NEW j \in 1..n
       PROVE  /\ page'.slots[j] \in Slot
              /\ page'.slots[j].offset = moved(j)
              /\ page'.slots[j].size = IF j = i THEN z ELSE page.slots[j].size
  <2>1. page'.slots[j] = [offset |-> moved(j), size |-> IF j = i THEN z ELSE page.slots[j].size]
    BY <1>9, Zenon
  <2>2. moved(j) \in 0..PageSize
    BY <1>13
  <2>3. (IF j = i THEN z ELSE page.slots[j].size) \in -PageSize..PageSize
    <3>1. z \in -PageSize..PageSize
      BY <1>5, TablePageAssumption
    <3> QED
      BY <1>2, <3>1, Zenon
  <2> HIDE DEF moved
  <2> QED
    BY <2>1, <2>2, <2>3 DEF Slot
<1>15. page'.slots \in Seq(Slot) /\ Len(page'.slots) = n
  <2>1. page'.slots \in [1..n -> Slot]
    BY <1>9, <1>14, Zenon
  <2> QED
    BY <1>2, <2>1
<1>16. /\ low + by \in Nat /\ low \in Nat /\ oi - low \in Nat /\ oi + by \in Nat
       /\ low + by + (oi - low) = oi + by /\ oi + by + z = oi + si
       /\ oi + by <= PageSize /\ oi <= PageSize /\ low + (oi - low) = oi
       /\ low + by \in 0..PageSize
  BY <1>a
<1>17. /\ moving \in Data
       /\ \A b \in (low + by)..(oi + by - 1) : moving[b] = page.data[b - (low + by) + low]
       /\ \A b \in 0..PageSize - 1 : b < low + by \/ b >= oi + by => moving[b] = page.data[b]
  <2> DEFINE to == low + by
             c == oi - low
  <2>1. /\ to \in Nat /\ c \in Nat /\ to + c = oi + by /\ to + c <= PageSize /\ low + c <= PageSize
        /\ low \in Nat /\ page.data \in Data /\ moving = Move(page.data, to, low, c)
    BY <1>2, <1>16
  <2> HIDE DEF to, c, moving
  <2>2. IsMoved(page.data, to, low, c, Move(page.data, to, low, c))
    BY <2>1, MoveBytes
  <2>3. to + c = oi + by /\ moving = Move(page.data, to, low, c)
    BY <2>1
  <2>4. /\ moving \in Data
        /\ \A b \in to..(oi + by - 1) : moving[b] = page.data[b - to + low]
        /\ \A b \in 0..PageSize - 1 : b < to \/ b >= oi + by => moving[b] = page.data[b]
    <3>1. IsMoved(page.data, to, low, c, moving)
      BY <2>2, <2>3
    <3>2. ASSUME NEW b \in to..(oi + by - 1)
          PROVE  moving[b] = page.data[b - to + low]
      <4>1. b \in to..(to + c - 1)
        <5>1. to \in Nat /\ c \in Nat /\ to + c = oi + by
          BY <2>1
        <5> QED
          BY <1>a, <5>1
      <4> QED
        BY <3>1, <4>1, Zenon DEF IsMoved
    <3>3. ASSUME NEW b \in 0..PageSize - 1, b < to \/ b >= oi + by
          PROVE  moving[b] = page.data[b]
      <4>1. b < to \/ b >= to + c
        BY <2>3, <3>3
      <4> QED
        BY <3>1, <4>1, Zenon DEF IsMoved
    <3> QED
      BY <3>1, <3>2, <3>3, Zenon DEF IsMoved
  <2> QED
    BY <2>4, Zenon DEF to
<1> HIDE DEF moving
<1>18. /\ page'.data \in Data
       /\ \A k \in 1..z : page'.data[oi + by + k - 1] = Bytes(t)[k]
       /\ \A b \in 0..PageSize - 1 : b < oi + by \/ b >= oi + si => page'.data[b] = moving[b]
  <2> DEFINE to == oi + by
  <2>1. to \in Nat /\ to + Len(Bytes(t)) <= PageSize /\ to + Len(Bytes(t)) = oi + si
    BY <1>3, <1>5, <1>16
  <2>2. page'.data = Copy(moving, to, Bytes(t))
    BY <1>9
  <2> HIDE DEF to
  <2>3. /\ Copy(moving, to, Bytes(t)) \in Data
        /\ \A k \in 1..Len(Bytes(t)) : Copy(moving, to, Bytes(t))[to + k - 1] = Bytes(t)[k]
        /\ \A b \in 0..PageSize - 1 :
              b < to \/ b >= to + Len(Bytes(t)) => Copy(moving, to, Bytes(t))[b] = moving[b]
    BY <1>5, <1>17, <2>1, CopyBytes, Zenon
  <2> QED
    BY <1>5, <2>1, <2>2, <2>3, Zenon DEF to
<1>19. page' \in Page
  <2>1. page' = [slots |-> page'.slots, free_space_pointer |-> low + by, data |-> page'.data]
    BY <1>8
  <2> QED
    BY <1>15, <1>16, <1>18, <2>1 DEF Page
<1>20. /\ rows' \in Seq(Seq(Byte)) /\ Len(rows') = Len(rows)
       /\ rows'[i] = Bytes(t) /\ \A j \in 1..n : j # i => rows'[j] = rows[j]
  <2>1. i \in 1..Len(rows)
    BY <1>1, <1>2
  <2> QED
    BY <1>1, <1>5, <1>8, <2>1
<1>21. Resized(n, i, z, by, Offsets(page), Sizes(page), Offsets(page'), Sizes(page'))
  <2>1. \A j \in 1..n : Offsets(page')[j] = moved(j)
    BY <1>14, <1>15, <1>19, Layout, Zenon
  <2>2. Sizes(page')[i] = z
    <3>1. ~(z < 0)
      BY <1>5
    <3> QED
      BY <1>2, <1>14, <1>15, <3>1, Zenon DEF Sizes
  <2>3. \A j \in 1..n : j # i => Sizes(page')[j] = Sizes(page)[j]
    BY <1>14, <1>15, Zenon DEF Sizes, n
  <2>4. by = si - z /\ si > 0
    BY <1>3, <1>11
  <2> HIDE DEF moved
  <2> QED
    BY <1>2, <1>13, <2>1, <2>2, <2>3, <2>4, Zenon DEF Resized, oi, si
<1>22. BytesResized(n, i, z, by, low, oi, si, page.data, page'.data, rows, rows')
  <2>1. ASSUME NEW b \in (low + by)..(oi + by - 1)
        PROVE  page'.data[b] = page.data[b - by]
    <3>1. b \in 0..PageSize - 1 /\ b < oi + by /\ b - (low + by) + low = b - by
      BY <1>a
    <3> QED
      BY <1>17, <1>18, <3>1, Zenon
  <2>2. ASSUME NEW b \in (oi + si)..(PageSize - 1)
        PROVE  page'.data[b] = page.data[b]
    <3>1. b \in 0..PageSize - 1 /\ b >= oi + si /\ b >= oi + by
      <4>1. /\ oi \in Int /\ si \in Nat /\ z \in Nat /\ by \in Int /\ PageSize \in Nat
            /\ low \in Nat /\ low <= oi /\ si = by + z
        BY <1>a
      <4> QED
        BY <4>1
    <3> QED
      BY <1>17, <1>18, <3>1, Zenon
  <2> QED
    BY <1>5, <1>18, <1>20, <2>1, <2>2, Zenon DEF BytesResized
<1>23. PageInv(page', rows')
  BY <1>2, <1>9, <1>11, <1>12, <1>a, <1>15, <1>19, <1>20, <1>21, <1>22, ResizeStep, Zenon DEF n, low, oi, si
<1> QED
  BY <1>8, <1>23

(***************************************************************************)
(* The theorems.                                                           *)
(***************************************************************************)
\* A new page is in order.
LEMMA InitInv == Init => IInv
<1> SUFFICES ASSUME Init PROVE IInv
  OBVIOUS
<1> DEFINE d == [b \in 0..PageSize - 1 |-> NoByte]
<1>1. PageSize \in Nat /\ HeaderSize \in Nat /\ SlotSize \in Nat /\ HeaderSize <= PageSize
  BY TablePageAssumption
<1>2. /\ page = [slots |-> <<>>, free_space_pointer |-> PageSize, data |-> d]
      /\ rows = <<>> /\ crashed = FALSE
  BY Zenon DEF Init
<1>3. d \in Data
  <2>1. NoByte \in Byte
    BY DEF Byte
  <2> QED
    BY <2>1, Zenon DEF Data
<1> HIDE DEF d
<1>4. page \in Page /\ Len(page.slots) = 0 /\ page.free_space_pointer = PageSize
  BY <1>1, <1>2, <1>3 DEF Page
<1>5. rows \in Seq(Seq(Byte)) /\ Len(rows) = 0
  BY <1>2
<1>6. HeaderSize + Len(page.slots) * SlotSize <= page.free_space_pointer
  <2>1. 0 * SlotSize = 0
    BY <1>1
  <2> QED
    BY <1>1, <1>4, <2>1
<1>7. \A j \in 1..0 : FALSE
  OBVIOUS
<1>8. \A b \in PageSize..(PageSize - 1) : FALSE
  BY <1>1
<1>9. Tiles(0, Offsets(page), Sizes(page), PageSize)
  BY <1>7, <1>8, Zenon DEF Tiles, Inside, Apart, Cover
<1>10. Shows(0, Offsets(page), Sizes(page), page.data, rows)
  BY <1>7, Zenon DEF Shows
<1> QED
  BY <1>2, <1>4, <1>5, <1>6, <1>9, <1>10, Zenon DEF IInv, PageInv

\* Every operation keeps it in order.
LEMMA NextInv == IInv /\ [Next]_vars => IInv'
<1> SUFFICES ASSUME IInv, [Next]_vars PROVE IInv'
  OBVIOUS
<1>1. PageInv(page, rows) /\ crashed = FALSE
  BY Zenon DEF IInv
<1>2. ASSUME NEW t \in Tuple, InsertTuple(t)
      PROVE  IInv'
  <2>1. PageInv(page', rows') /\ crashed' = crashed
    BY <1>1, <1>2, InsertStep, Zenon
  <2> QED
    BY <1>1, <2>1, Zenon DEF IInv
<1>3. ASSUME NEW i \in 1..GetTupleCount, MarkDelete(i) \/ RollbackDelete(i)
      PROVE  IInv'
  <2>1. PageInv(page', rows') /\ crashed' = crashed
    BY <1>1, <1>3, MarkStep, Zenon
  <2> QED
    BY <1>1, <2>1, Zenon DEF IInv
<1>4. ASSUME NEW i \in 1..GetTupleCount, GetTupleSize(i) # 0, ApplyDelete(i)
      PROVE  IInv'
  <2>1. PageInv(page', rows') /\ crashed' = crashed
    BY <1>1, <1>4, DeleteStep, Zenon
  <2> QED
    BY <1>1, <2>1, Zenon DEF IInv
<1>5. ASSUME NEW i \in 1..GetTupleCount, NEW t \in Tuple, Marked = {}, UpdateTuple(i, t)
      PROVE  IInv'
  <2>1. PageInv(page', rows') /\ crashed' = crashed
    BY <1>1, <1>5, UpdateStep, Zenon
  <2> QED
    BY <1>1, <2>1, Zenon DEF IInv
<1>6. CASE UNCHANGED vars
  BY <1>1, <1>6, Zenon DEF vars, IInv
<1> QED
  BY <1>2, <1>3, <1>4, <1>5, <1>6, Zenon DEF Next

\* Whatever has been inserted, marked, deleted and updated, the slots end below
\* the free space pointer, the tuples fill the page above it, and they hold the
\* bytes they were given.
THEOREM PageIsInOrder == Spec => []IInv
  BY InitInv, NextInv, PTL DEF Spec

\* The slots hold offsets and sizes within the page, and the slots never grow
\* into the tuples.
THEOREM PageTypeCorrect == Spec => []TypeOK
<1>1. IInv => TypeOK
  <2> SUFFICES ASSUME IInv PROVE TypeOK
    OBVIOUS
  <2>1. /\ page \in Page /\ Len(rows) = Len(page.slots) /\ crashed = FALSE
        /\ HeaderSize + Len(page.slots) * SlotSize <= page.free_space_pointer
    BY Zenon DEF IInv, PageInv
  <2>2. page.slots \in Seq(Slot) /\ Len(page.slots) \in Nat /\ page.free_space_pointer \in 0..PageSize
    BY <2>1, PageTypes, Zenon
  <2>3. page.free_space_pointer \in (HeaderSize + Len(page.slots) * SlotSize)..PageSize
    <3> DEFINE ns == Len(page.slots) * SlotSize
               low == page.free_space_pointer
    <3>1. ns \in Nat /\ HeaderSize + ns <= low /\ low \in 0..PageSize /\ HeaderSize \in Nat
      BY <2>1, <2>2, SlotBytes, TablePageAssumption
    <3> HIDE DEF ns, low
    <3>2. low \in (HeaderSize + ns)..PageSize
      BY <3>1, TablePageAssumption
    <3> QED
      BY <3>2 DEF ns, low
  <2> QED
    BY <2>1, <2>2, <2>3, Zenon DEF TypeOK, GetTupleCount
<1> QED
  BY <1>1, PageIsInOrder, PTL

\* The tuples fill the page from the free space pointer to its end, without a
\* hole and without sharing a byte, and no assertion fails.
THEOREM PageIsTiled == Spec => []TuplesTile
<1>1. IInv => TuplesTile
  <2> SUFFICES ASSUME IInv PROVE TuplesTile
    OBVIOUS
  <2> DEFINE n == Len(page.slots)
             low == page.free_space_pointer
             off == Offsets(page)
             sz == Sizes(page)
  <2>1. page \in Page /\ crashed = FALSE /\ Tiles(n, off, sz, low)
    BY Zenon DEF IInv, PageInv
  <2>2. off \in [1..n -> Int] /\ sz \in [1..n -> Nat] /\ low \in Nat /\ PageSize \in Nat
    BY <2>1, PageTypes, Layout, TablePageAssumption
  <2>3. \A i \in 1..n : Taken(i) = off[i]..(off[i] + sz[i] - 1)
    BY Zenon DEF Taken, GetTupleOffset, StoredSize, GetTupleSize, Offsets, Sizes
  <2> HIDE DEF n, low, off, sz
  <2>4. ASSUME NEW i \in 1..n, NEW b \in Taken(i)
        PROVE  /\ b \in Int /\ off[i] \in Int /\ sz[i] \in Nat /\ sz[i] > 0
               /\ off[i] <= b /\ b < off[i] + sz[i]
    <3> DEFINE oi == off[i]
               si == sz[i]
    <3>1. oi \in Int /\ si \in Nat /\ b \in oi..(oi + si - 1)
      BY <2>2, <2>3, <2>4
    <3> HIDE DEF oi, si
    <3>2. b \in Int /\ si > 0 /\ oi <= b /\ b < oi + si
      BY <3>1
    <3> QED
      BY <3>1, <3>2 DEF oi, si
  <2>5. UNION {Taken(i) : i \in 1..n} = low..(PageSize - 1)
    <3>1. ASSUME NEW i \in 1..n, NEW b \in Taken(i)
          PROVE  b \in low..(PageSize - 1)
      <4> DEFINE oi == off[i]
                 si == sz[i]
      <4>1. b \in Int /\ oi \in Int /\ si \in Nat /\ si > 0 /\ oi <= b /\ b < oi + si
        BY <2>4, Zenon
      <4>2. low <= oi /\ oi + si <= PageSize
        BY <2>1, <4>1, Zenon DEF Tiles, Inside
      <4> HIDE DEF oi, si
      <4> QED
        BY <2>2, <4>1, <4>2
    <3>2. ASSUME NEW b \in low..(PageSize - 1)
          PROVE  \E i \in 1..n : b \in Taken(i)
      <4>1. PICK i \in 1..n : off[i] <= b /\ b < off[i] + sz[i]
        BY <2>1, Zenon DEF Tiles, Cover
      <4> DEFINE oi == off[i]
                 si == sz[i]
      <4>2. oi \in Int /\ si \in Nat /\ oi <= b /\ b < oi + si
        BY <2>2, <4>1
      <4> HIDE DEF oi, si
      <4>3. b \in oi..(oi + si - 1)
        BY <2>2, <4>2
      <4> QED
        BY <2>3, <4>3, Zenon DEF oi, si
    <3> QED
      BY <3>1, <3>2, Zenon
  <2>6. ASSUME NEW i \in 1..n, NEW j \in 1..n, i # j, NEW b \in Taken(i), b \in Taken(j)
        PROVE  FALSE
    <3> DEFINE oi == off[i]
               si == sz[i]
               oj == off[j]
               sj == sz[j]
    <3>1. /\ b \in Int /\ oi \in Int /\ si \in Nat /\ si > 0 /\ oi <= b /\ b < oi + si
          /\ oj \in Int /\ sj \in Nat /\ sj > 0 /\ oj <= b /\ b < oj + sj
      BY <2>4, <2>6, Zenon
    <3>2. oi + si <= oj \/ oj + sj <= oi
      BY <2>1, <2>6, <3>1, Zenon DEF Tiles, Apart
    <3> HIDE DEF oi, si, oj, sj
    <3> QED
      BY <3>1, <3>2
  <2>7. \A i, j \in 1..n : i # j => Taken(i) \intersect Taken(j) = {}
    BY <2>6, Zenon
  <2> QED
    BY <2>1, <2>5, <2>7, Zenon DEF TuplesTile, GetTupleCount, n, low
<1> QED
  BY <1>1, PageIsInOrder, PTL

\* Every slot shows the bytes that were stored there last, and a tuple that is
\* marked as deleted can be made visible again with them.
THEOREM PageKeepsTuples == Spec => []StoredTuplesAreThere
<1>1. IInv => StoredTuplesAreThere
  <2> SUFFICES ASSUME IInv, NEW i \in 1..Len(page.slots)
               PROVE  BytesAt(i) = rows[i]
    BY Zenon DEF StoredTuplesAreThere, GetTupleCount
  <2> DEFINE l == Sizes(page)[i]
             at == Offsets(page)[i]
  <2>1. /\ page \in Page /\ rows \in Seq(Seq(Byte)) /\ Len(rows) = Len(page.slots)
        /\ Len(rows[i]) = l /\ \A k \in 1..l : page.data[at + k - 1] = rows[i][k]
    BY Zenon DEF IInv, PageInv, Shows
  <2>2. rows[i] \in Seq(Byte)
    BY <2>1
  <2>3. rows[i] = [k \in 1..l |-> rows[i][k]]
    <3> HIDE DEF l
    <3> QED
      BY <2>1, <2>2
  <2>4. BytesAt(i) = [k \in 1..l |-> page.data[at + k - 1]]
    BY Zenon DEF BytesAt, GetTupleOffset, StoredSize, GetTupleSize, Offsets, Sizes
  <2> HIDE DEF l, at
  <2> QED
    BY <2>1, <2>3, <2>4, Zenon
<1> QED
  BY <1>1, PageIsInOrder, PTL
=============================================================================
