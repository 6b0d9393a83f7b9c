------------------------ MODULE ExtendibleHashProofs ------------------------
(***************************************************************************)
(* The hash table keeps its directory right and implements a map, for      *)
(* every set of keys and values and every bucket size.                     *)
(***************************************************************************)
EXTENDS ExtendibleHash, SequenceLemmas

(***************************************************************************)
(* 1 << n, and the lowest bits of a number.                                *)
(***************************************************************************)
\* 1 << n is a positive number, and doubles with n.
LEMMA ShiftProperties ==
    /\ Shift \in [Nat -> Nat \ {0}]
    /\ Shift[0] = 1
    /\ \A n \in Nat : Shift[n + 1] = 2 * Shift[n]
<1> DEFINE Pos == Nat \ {0}
           G == [p \in Nat \X Pos |-> 2 * p[2]]
<1>1. G \in [(Nat \X Pos) -> Pos]
  OBVIOUS
<1>2. 1 \in Pos
  OBVIOUS
<1>3. PICK f : Recursive(f, Pos, 1, G)
  <2> HIDE DEF G, Pos
  <2> QED
    BY <1>1, <1>2, RecursionOnNat, Zenon
<1>4. f \in [Nat -> Pos] /\ f[0] = 1 /\ \A n \in Nat \ {0} : f[n] = G[<<n, f[n - 1]>>]
  BY <1>3, Zenon DEF Recursive
<1>5. f = [n \in Nat |-> IF n = 0 THEN 1 ELSE 2 * f[n - 1]]
  <2>1. \A n \in Nat \ {0} : <<n, f[n - 1]>> \in Nat \X Pos
    BY <1>4
  <2>2. \A n \in Nat \ {0} : f[n] = 2 * f[n - 1]
    BY <1>4, <2>1, Zenon
  <2> QED
    BY <1>4, <2>2
<1>6. Shift = [n \in Nat |-> IF n = 0 THEN 1 ELSE 2 * Shift[n - 1]]
  BY <1>5, Zenon DEF Shift
<1>7. Shift[0] = 1
  BY <1>6
<1>8. \A n \in Nat : Shift[n + 1] = 2 * Shift[n]
  <2> TAKE n \in Nat
  <2>1. n + 1 \in Nat /\ n + 1 # 0 /\ (n + 1) - 1 = n
    OBVIOUS
  <2> QED
    BY <1>6, <2>1, Zenon
<1>9. \A n \in Nat : Shift[n] \in Nat \ {0}
  <2> DEFINE T == {n \in Nat : Shift[n] \notin Nat \ {0}}
  <2> SUFFICES ASSUME T # {} PROVE FALSE
    BY Zenon
  <2>1. Min(T) \in T /\ \A y \in T : Min(T) <= y
    BY MinProperties, Zenon
  <2>2. PICK n \in Nat : Shift[n] \notin Nat \ {0} /\ \A y \in T : n <= y
    BY <2>1, Zenon
  <2>3. n # 0
    BY <1>2, <1>7, <2>2, Zenon
  <2>4. n - 1 \in Nat /\ ~(n <= n - 1) /\ (n - 1) + 1 = n
    BY <2>3
  <2>5. Shift[n - 1] \in Nat \ {0}
    BY <2>2, <2>4, Zenon
  <2>6. Shift[n] = 2 * Shift[n - 1]
    BY <1>8, <2>4, Zenon
  <2> QED
    BY <2>2, <2>5, <2>6
<1> QED
  BY <1>6, <1>7, <1>8, <1>9

\* Division with remainder.
LEMMA Division ==
    ASSUME NEW M \in Nat \ {0}
    PROVE  /\ \A i \in Nat : /\ i \div M \in Nat /\ i % M \in 0..(M - 1)
                             /\ i = M * (i \div M) + (i % M)
           /\ \A q \in Nat, r \in 0..(M - 1) :
                  (M * q + r) % M = r /\ (M * q + r) \div M = q
<1>1. ASSUME NEW i \in Nat
      PROVE  i \div M \in Nat /\ i % M \in 0..(M - 1) /\ i = M * (i \div M) + (i % M)
  OBVIOUS
<1>2. ASSUME NEW q \in Nat, NEW r \in 0..(M - 1)
      PROVE  (M * q + r) % M = r
  OBVIOUS
<1>3. ASSUME NEW q \in Nat, NEW r \in 0..(M - 1)
      PROVE  (M * q + r) \div M = q
  OBVIOUS
<1> QED
  BY <1>1, <1>2, <1>3

\* 1 << d divides 1 << g when d is not above g.
LEMMA ShiftDivides ==
    ASSUME NEW d \in Nat, NEW g \in Nat, d <= g
    PROVE  \E k \in Nat \ {0} : Shift[g] = Shift[d] * k
<1> DEFINE P(n) == \E k \in Nat \ {0} : Shift[n] = Shift[d] * k
           T == {n \in Nat : d <= n /\ ~P(n)}
<1> SUFFICES ASSUME T # {} PROVE FALSE
  BY Zenon
<1>1. Min(T) \in T /\ \A y \in T : Min(T) <= y
  BY MinProperties, Zenon
<1>2. PICK n \in Nat : d <= n /\ ~P(n) /\ \A y \in T : n <= y
  BY <1>1, Zenon
<1>3. CASE n = d
  <2>1. Shift[d] = Shift[d] * 1
    BY ShiftProperties
  <2> QED
    BY <1>2, <1>3, <2>1
<1>4. CASE n # d
  <2>1. n - 1 \in Nat /\ d <= n - 1 /\ ~(n <= n - 1) /\ (n - 1) + 1 = n
    BY <1>2, <1>4
  <2>2. P(n - 1)
    BY <1>2, <2>1, Zenon
  <2>3. PICK k \in Nat \ {0} : Shift[n - 1] = Shift[d] * k
    BY <2>2
  <2>4. Shift[n] = 2 * Shift[n - 1]
    BY ShiftProperties, <2>1, Zenon
  <2>5. Shift[d] \in Nat
    BY ShiftProperties
  <2>6. Shift[n] = Shift[d] * (2 * k) /\ 2 * k \in Nat \ {0}
    BY <2>3, <2>4, <2>5
  <2> QED
    BY <1>2, <2>6, Zenon
<1> QED
  BY <1>3, <1>4

\* The lower bits of a number are the lower bits of its lower bits.
LEMMA LowerBits ==
    ASSUME NEW d \in Nat, NEW g \in Nat, d <= g, NEW i \in Nat
    PROVE  (i % Shift[g]) % Shift[d] = i % Shift[d]
<1>1. PICK k \in Nat \ {0} : Shift[g] = Shift[d] * k
  BY ShiftDivides
<1> DEFINE M == Shift[d]
           N == Shift[g]
<1>2. M \in Nat \ {0} /\ N \in Nat \ {0} /\ N = M * k
  BY ShiftProperties, <1>1
<1> HIDE DEF M, N
<1> DEFINE q == i \div N
           r == i % N
           q2 == r \div M
           r2 == r % M
<1>3. q \in Nat /\ r \in 0..(N - 1) /\ i = N * q + r
  BY <1>2, Division, Zenon
<1>4. q2 \in Nat /\ r2 \in 0..(M - 1) /\ r = M * q2 + r2
  <2>1. r \in Nat
    BY <1>2, <1>3
  <2> HIDE DEF r
  <2> QED
    BY <1>2, <2>1, Division, Zenon
<1> HIDE DEF q, r, q2, r2
<1>5. k * q + q2 \in Nat
  BY <1>3, <1>4
<1>6. i = M * (k * q + q2) + r2
  <2>1. (M * k) * q = M * (k * q)
    BY <1>2, <1>3
  <2> DEFINE kq == k * q
  <2>2. kq \in Nat
    BY <1>3
  <2>3. M * (kq + q2) = M * kq + M * q2
    <3> HIDE DEF kq
    <3> QED
      BY <1>2, <1>4, <2>2
  <2> QED
    BY <1>2, <1>3, <1>4, <2>1, <2>2, <2>3
<1>7. i % M = r2
  <2> DEFINE p == k * q + q2
  <2>1. p \in Nat /\ i = M * p + r2
    BY <1>5, <1>6
  <2> HIDE DEF p
  <2> QED
    BY <1>2, <1>4, <2>1, Division
<1> QED
  BY <1>7 DEF M, N, r2, r

\* The next bit of a number adds 1 << d to its d lowest bits, or nothing.
LEMMA NextBit ==
    ASSUME NEW d \in Nat, NEW i \in Nat
    PROVE  i % Shift[d + 1] = IF Bit(i, d) THEN (i % Shift[d]) + Shift[d] ELSE i % Shift[d]
<1> DEFINE M == Shift[d]
           N == Shift[d + 1]
<1>1. M \in Nat \ {0} /\ N = 2 * M
  BY ShiftProperties
<1> HIDE DEF M, N
<1> DEFINE q == i \div M
           r == i % M
           p == q \div 2
           c == q % 2
<1>2. q \in Nat /\ r \in 0..(M - 1) /\ i = M * q + r
  BY <1>1, Division, Zenon
<1>3. p \in Nat /\ c \in {0, 1} /\ q = 2 * p + c
  <2> HIDE DEF q
  <2> QED
    BY <1>2
<1>4. Bit(i, d) <=> c = 1
  BY DEF Bit, M
<1> HIDE DEF q, r, p, c
<1>5. i = (2 * M) * p + (M * c + r) /\ M * c + r \in 0..(2 * M - 1)
  <2>1. CASE c = 0
    BY <2>1, <1>1, <1>2, <1>3
  <2>2. CASE c = 1
    BY <2>2, <1>1, <1>2, <1>3
  <2> QED
    BY <2>1, <2>2, <1>3
<1>6. i % N = M * c + r
  <2> DEFINE e == M * c + r
  <2>1. N \in Nat \ {0} /\ e \in 0..(N - 1) /\ i = N * p + e
    BY <1>1, <1>5
  <2> HIDE DEF e
  <2>2. i % N = e
    BY <1>3, <2>1, Division
  <2> QED
    BY <2>2 DEF e
<1>7. M * c + r = IF Bit(i, d) THEN r + M ELSE r
  <2>1. CASE c = 0
    BY <2>1, <1>1, <1>2, <1>4
  <2>2. CASE c = 1
    BY <2>2, <1>1, <1>2, <1>4
  <2> QED
    BY <2>1, <2>2, <1>3
<1> QED
  BY <1>6, <1>7 DEF M, N, r

\* Two numbers agree in their d + 1 lowest bits when they agree in the d lowest
\* ones and in the next.
LEMMA SameLowerBits ==
    ASSUME NEW d \in Nat, NEW i \in Nat, NEW j \in Nat
    PROVE  i % Shift[d + 1] = j % Shift[d + 1]
              <=> (i % Shift[d] = j % Shift[d]) /\ (Bit(i, d) <=> Bit(j, d))
<1> DEFINE M == Shift[d]
           a == i % M
           b == j % M
           a1 == i % Shift[d + 1]
           b1 == j % Shift[d + 1]
<1>1. M \in Nat \ {0}
  BY ShiftProperties
<1>2. a \in 0..(M - 1) /\ b \in 0..(M - 1)
  <2> HIDE DEF M
  <2> QED
    BY <1>1, Division
<1>3. (a1 = IF Bit(i, d) THEN a + M ELSE a) /\ (b1 = IF Bit(j, d) THEN b + M ELSE b)
  BY NextBit, Zenon
<1> SUFFICES a1 = b1 <=> a = b /\ (Bit(i, d) <=> Bit(j, d))
  BY Zenon
<1> HIDE DEF M, a, b, a1, b1
<1> QED
  BY <1>1, <1>2, <1>3

\* The g lowest bits of a number have its d-th bit, if d is below g.
LEMMA BitOfLowerBits ==
    ASSUME NEW d \in Nat, NEW g \in Nat, d < g, NEW i \in Nat
    PROVE  Bit(i % Shift[g], d) <=> Bit(i, d)
<1> DEFINE j == i % Shift[g]
<1>1. Shift[g] \in Nat \ {0}
  BY ShiftProperties
<1>2. j \in Nat
  BY <1>1
<1>3. d + 1 \in Nat /\ d + 1 <= g /\ d <= g
  OBVIOUS
<1>4. j % Shift[d + 1] = i % Shift[d + 1]
  BY <1>3, LowerBits, Zenon
<1> HIDE DEF j
<1>5. Bit(j, d) <=> Bit(i, d)
  BY <1>2, <1>4, SameLowerBits, Zenon
<1> QED
  BY <1>5 DEF j

(***************************************************************************)
(* The records that Select takes out of a bucket.                          *)
(***************************************************************************)
Record == Key \X Value

\* No key has two records.
Unique(records) ==
    \A i, j \in DOMAIN records : records[i][1] = records[j][1] => i = j

\* What Select has collected after each record.
Collects(f, records, keys) ==
    f = [n \in 0..Len(records) |->
            IF n = 0 THEN <<>>
            ELSE IF records[n][1] \in keys THEN Append(f[n - 1], records[n])
            ELSE f[n - 1]]

\* Select is the end of such a collection.
LEMMA SelectCollects ==
    ASSUME NEW s \in Seq(Record), NEW keys
    PROVE  \E f : Collects(f, s, keys) /\ Select(s, keys) = f[Len(s)]
<1> DEFINE S == Seq(Record)
           G == [p \in Nat \X S |-> IF p[1] \in 1..Len(s)
                                    THEN IF s[p[1]][1] \in keys THEN Append(p[2], s[p[1]])
                                         ELSE p[2]
                                    ELSE p[2]]
<1>1. G \in [(Nat \X S) -> S]
  <2> SUFFICES ASSUME NEW n \in Nat, NEW t \in S
               PROVE  n \in 1..Len(s) => Append(t, s[n]) \in S
    OBVIOUS
  <2> HAVE n \in 1..Len(s)
  <2>1. s[n] \in Record
    OBVIOUS
  <2> HIDE DEF Record
  <2> QED
    BY <2>1
<1>2. <<>> \in S
  OBVIOUS
<1>3. PICK h : Recursive(h, S, <<>>, G)
  <2> HIDE DEF G, S
  <2> QED
    BY <1>1, <1>2, RecursionOnNat, Zenon
<1>4. h \in [Nat -> S] /\ h[0] = <<>> /\ \A n \in Nat \ {0} : h[n] = G[<<n, h[n - 1]>>]
  BY <1>3, Zenon DEF Recursive
<1> DEFINE f == [n \in 0..Len(s) |-> h[n]]
<1>5. Len(s) \in Nat
  OBVIOUS
<1>6. ASSUME NEW n \in 0..Len(s), n # 0
      PROVE  f[n] = IF s[n][1] \in keys THEN Append(f[n - 1], s[n]) ELSE f[n - 1]
  <2>1. /\ n \in Nat \ {0} /\ n \in 1..Len(s) /\ n - 1 \in 0..Len(s) /\ n - 1 \in Nat
    BY <1>5, <1>6
  <2>2. h[n - 1] \in S
    <3> HIDE DEF S
    <3> QED
      BY <1>4, <2>1
  <2>3. G[<<n, h[n - 1]>>] = IF s[n][1] \in keys THEN Append(h[n - 1], s[n]) ELSE h[n - 1]
    <3> HIDE DEF S
    <3> QED
      BY <2>1, <2>2
  <2> HIDE DEF G
  <2> QED
    BY <1>4, <2>1, <2>3, Zenon
<1>7. f[0] = <<>>
  BY <1>4, <1>5
<1>8. Collects(f, s, keys)
  <2> DEFINE g == [n \in 0..Len(s) |->
            IF n = 0 THEN <<>>
            ELSE IF s[n][1] \in keys THEN Append(f[n - 1], s[n])
            ELSE f[n - 1]]
  <2>1. ASSUME NEW n \in 0..Len(s) PROVE f[n] = g[n]
    <3> HIDE DEF f
    <3> QED
      BY <1>6, <1>7, Zenon
  <2> QED
    BY <2>1, Zenon DEF Collects
<1> HIDE DEF f
<1> QED
  BY <1>8, Zenon DEF Collects, Select

\* The elements of a sequence with one more, and its keys.
LEMMA AppendRecord ==
    ASSUME NEW t \in Seq(Record), NEW x \in Record
    PROVE  /\ Append(t, x) \in Seq(Record) /\ Len(Append(t, x)) = Len(t) + 1
           /\ Range(Append(t, x)) = Range(t) \union {x}
           /\ Unique(t) /\ (\A y \in Range(t) : y[1] # x[1]) => Unique(Append(t, x))
<1> DEFINE u == Append(t, x)
           n == Len(t)
<1>1. /\ u \in Seq(Record) /\ Len(u) = n + 1 /\ u[n + 1] = x
      /\ \A i \in 1..n : u[i] = t[i]
  OBVIOUS
<1>2. DOMAIN t = 1..n /\ DOMAIN u = 1..(n + 1) /\ n \in Nat
  BY <1>1
<1> HIDE DEF u, n
<1>3. \A i : i \in 1..(n + 1) <=> i \in 1..n \/ i = n + 1
  BY <1>2
<1>4. Range(u) = Range(t) \union {x}
  BY <1>1, <1>2, <1>3, Zenon DEF Range
<1>5. ASSUME Unique(t), \A y \in Range(t) : y[1] # x[1]
      PROVE  Unique(u)
  <2> SUFFICES ASSUME NEW i \in 1..(n + 1), NEW j \in 1..(n + 1), u[i][1] = u[j][1]
               PROVE  i = j
    BY <1>2, Zenon DEF Unique
  <2>1. \A k \in 1..n : u[k][1] # x[1]
    BY <1>1, <1>2, <1>5, Zenon DEF Range
  <2>2. CASE i \in 1..n /\ j \in 1..n
    BY <2>2, <1>1, <1>2, <1>5, Zenon DEF Unique
  <2> QED
    BY <2>1, <2>2, <1>1, <1>3, Zenon
<1> QED
  BY <1>1, <1>4, <1>5, Zenon DEF u, n

\* Select returns the records with one of the keys, and no others.
LEMMA SelectProperties ==
    ASSUME NEW s \in Seq(Record), NEW keys
    PROVE  /\ Select(s, keys) \in Seq(Record)
           /\ Range(Select(s, keys)) = {r \in Range(s) : r[1] \in keys}
           /\ Unique(s) => Unique(Select(s, keys))
<1>1. PICK f : Collects(f, s, keys) /\ Select(s, keys) = f[Len(s)]
  BY SelectCollects
<1> DEFINE L == Len(s)
           Some(n) == {s[j] : j \in {m \in 1..n : s[m][1] \in keys}}
           P(n) == /\ f[n] \in Seq(Record) /\ Range(f[n]) = Some(n)
                   /\ Unique(s) => Unique(f[n])
           T == {n \in Nat : n <= L /\ ~P(n)}
<1>2. L \in Nat /\ DOMAIN s = 1..L /\ \A j \in 1..L : s[j] \in Record
  OBVIOUS
<1>3. f[0] = <<>>
  BY <1>1, <1>2 DEF Collects
<1>4. ASSUME NEW n \in 1..L
      PROVE  f[n] = IF s[n][1] \in keys THEN Append(f[n - 1], s[n]) ELSE f[n - 1]
  <2>1. n \in 0..L /\ n # 0
    BY <1>2
  <2> QED
    BY <1>1, <2>1, Zenon DEF Collects
<1>5. P(0)
  <2>1. <<>> \in Seq(Record) /\ DOMAIN <<>> = {} /\ 1..0 = {}
    OBVIOUS
  <2>2. Range(<<>>) = {} /\ Unique(<<>>)
    BY <2>1, Zenon DEF Range, Unique
  <2>3. Some(0) = {}
    BY <2>1, Zenon
  <2> HIDE DEF Some
  <2> QED
    BY <1>3, <2>1, <2>2, <2>3, Zenon
<1>6. ASSUME NEW n \in 1..L, P(n - 1) PROVE P(n)
  <2>1. n - 1 \in Nat /\ \A j : j \in 1..n <=> j \in 1..(n - 1) \/ j = n
    BY <1>2
  <2>2. \A j \in 1..(n - 1) : j \in 1..L /\ j # n
    BY <1>2
  <2>3. Some(n) = IF s[n][1] \in keys THEN Some(n - 1) \union {s[n]} ELSE Some(n - 1)
    BY <2>1, Zenon
  <2>4. ASSUME Unique(s) PROVE \A y \in Some(n - 1) : y[1] # s[n][1]
    <3>1. \A j \in 1..(n - 1) : s[j][1] # s[n][1]
      BY <1>2, <2>2, <2>4, Zenon DEF Unique
    <3> QED
      BY <3>1, Zenon
  <2>5. s[n] \in Record
    BY <1>2
  <2> HIDE DEF Some
  <2>6. CASE s[n][1] \in keys
    <3>1. f[n] = Append(f[n - 1], s[n])
      BY <1>4, <2>6, Zenon
    <3> QED
      BY <1>6, <2>3, <2>4, <2>5, <2>6, <3>1, AppendRecord, Zenon
  <2>7. CASE s[n][1] \notin keys
    BY <1>4, <1>6, <2>3, <2>7, Zenon
  <2> QED
    BY <2>6, <2>7, Zenon
<1>7. P(L)
  <2> HIDE DEF P
  <2> SUFFICES ASSUME T # {} PROVE FALSE
    BY <1>2
  <2>1. Min(T) \in T /\ \A y \in T : Min(T) <= y
    BY MinProperties, Zenon
  <2>2. PICK n \in Nat : n <= L /\ ~P(n) /\ \A y \in T : n <= y
    BY <2>1, Zenon
  <2>3. n # 0
    BY <1>5, <2>2, Zenon
  <2>4. n \in 1..L /\ n - 1 \in Nat /\ n - 1 <= L /\ ~(n <= n - 1)
    BY <1>2, <2>2, <2>3
  <2>5. P(n - 1)
    BY <2>2, <2>4, Zenon
  <2> QED
    BY <1>6, <2>2, <2>4, <2>5, Zenon
<1>8. Some(L) = {r \in Range(s) : r[1] \in keys}
  BY <1>2, Zenon DEF Range
<1> QED
  BY <1>1, <1>7, <1>8, Zenon

\* Of records with different keys, all but one stay when one key is left out.
LEMMA SelectAllButOne ==
    ASSUME NEW s \in Seq(Record), NEW keys, NEW p \in 1..Len(s),
           \A j \in 1..Len(s) : s[j][1] \in keys <=> j # p
    PROVE  Len(Select(s, keys)) = Len(s) - 1
<1>1. PICK f : Collects(f, s, keys) /\ Select(s, keys) = f[Len(s)]
  BY SelectCollects
<1> DEFINE L == Len(s)
           P(n) == /\ f[n] \in Seq(Record)
                   /\ Len(f[n]) = IF n < p THEN n ELSE n - 1
           T == {n \in Nat : n <= L /\ ~P(n)}
<1>2. L \in Nat /\ DOMAIN s = 1..L /\ \A j \in 1..L : s[j] \in Record
  OBVIOUS
<1>3. f[0] = <<>>
  BY <1>1, <1>2 DEF Collects
<1>4. ASSUME NEW n \in 1..L
      PROVE  f[n] = IF n # p THEN Append(f[n - 1], s[n]) ELSE f[n - 1]
  <2>1. n \in 0..L /\ n # 0
    BY <1>2
  <2> QED
    BY <1>1, <2>1, Zenon DEF Collects
<1>5. P(0)
  BY <1>2, <1>3
<1>6. ASSUME NEW n \in 1..L, P(n - 1) PROVE P(n)
  <2>1. CASE n # p
    <3>1. f[n] = Append(f[n - 1], s[n]) /\ s[n] \in Record
      BY <1>2, <1>4, <2>1, Zenon
    <3>2. f[n] \in Seq(Record) /\ Len(f[n]) = Len(f[n - 1]) + 1
      BY <1>6, <3>1, AppendRecord, Zenon
    <3> QED
      BY <1>2, <1>6, <2>1, <3>2
  <2>2. CASE n = p
    <3>1. f[n] = f[n - 1]
      BY <1>4, <2>2, Zenon
    <3> QED
      BY <1>2, <1>6, <2>2, <3>1
  <2> QED
    BY <2>1, <2>2
<1>7. P(L)
  <2> HIDE DEF P
  <2> SUFFICES ASSUME T # {} PROVE FALSE
    BY <1>2
  <2>1. Min(T) \in T /\ \A y \in T : Min(T) <= y
    BY MinProperties, Zenon
  <2>2. PICK n \in Nat : n <= L /\ ~P(n) /\ \A y \in T : n <= y
    BY <2>1, Zenon
  <2>3. n # 0
    BY <1>5, <2>2, Zenon
  <2>4. n \in 1..L /\ n - 1 \in Nat /\ n - 1 <= L /\ ~(n <= n - 1)
    BY <1>2, <2>2, <2>3
  <2>5. P(n - 1)
    BY <2>2, <2>4, Zenon
  <2> QED
    BY <1>6, <2>2, <2>4, <2>5, Zenon
<1>8. ~(L < p)
  BY <1>2
<1> QED
  BY <1>1, <1>7, <1>8, Zenon

(***************************************************************************)
(* A directory T of depth g over the buckets B that is right, and what     *)
(* doubling it, dividing a bucket and changing a bucket's records do to    *)
(* it.                                                                     *)
(***************************************************************************)
Right(T, g, B) ==
    \A i, j \in DOMAIN T :
        /\ B[T[i]].local_depth_ <= g
        /\ T[i] = T[j] <=> i % Shift[B[T[i]].local_depth_] = j % Shift[B[T[i]].local_depth_]

\* A record is in the bucket where its key is looked up, and no bucket has two
\* records of a key.
InPlace(T, g, B) ==
    \A b \in DOMAIN B :
        /\ Unique(B[b].kv_records_)
        /\ \A r \in Range(B[b].kv_records_) : T[Hasher(r[1]) % Shift[g]] = b

Good(T, g, B) ==
    /\ g \in Nat /\ B \in Seq(Bucket)
    /\ T \in [0..(Shift[g] - 1) -> DOMAIN B]
    /\ Right(T, g, B) /\ InPlace(T, g, B)

Content(B) == UNION {Range(B[b].kv_records_) : b \in DOMAIN B}

\* The fields of a bucket.
LEMMA BucketFields ==
    ASSUME NEW B \in Seq(Bucket), NEW b \in DOMAIN B
    PROVE  /\ B[b].local_depth_ \in Nat /\ B[b].kv_records_ \in Seq(Record)
           /\ \A r \in Range(B[b].kv_records_) : r \in Record /\ r[1] \in Key
<1>1. B[b] \in Bucket
  OBVIOUS
<1> DEFINE s == B[b].kv_records_
<1>2. B[b].local_depth_ \in Nat /\ s \in Seq(Record)
  BY <1>1 DEF Bucket, Record
<1>3. \A r \in Range(s) : r \in Record
  <2> HIDE DEF s
  <2> QED
    BY <1>2 DEF Range
<1>4. \A r \in Record : r[1] \in Key
  BY DEF Record
<1> QED
  BY <1>2, <1>3, <1>4, Zenon

\* The slot of a key is a slot of the directory.
LEMMA SlotOfKey ==
    ASSUME NEW g \in Nat, NEW key \in Key
    PROVE  Hasher(key) \in Nat /\ Hasher(key) % Shift[g] \in 0..(Shift[g] - 1)
<1>1. Hasher(key) \in Nat /\ Shift[g] \in Nat \ {0}
  BY HashAssumption, ShiftProperties DEF Hasher
<1> QED
  BY <1>1, Division, Zenon

\* The doubled directory of Insert, before the full bucket is divided.
Doubled(T, g) == [i \in 0..(Shift[g + 1] - 1) |-> T[i % Shift[g]]]

\* Doubling a right directory gives a right one.
LEMMA DoublingIsGood ==
    ASSUME NEW T, NEW g, NEW B, Good(T, g, B)
    PROVE  Good(Doubled(T, g), g + 1, B)
<1> DEFINE D == Doubled(T, g)
           I == 0..(Shift[g] - 1)
           I2 == 0..(Shift[g + 1] - 1)
<1>1. /\ g \in Nat /\ B \in Seq(Bucket) /\ T \in [I -> DOMAIN B]
      /\ Right(T, g, B) /\ InPlace(T, g, B) /\ g + 1 \in Nat
  BY DEF Good
<1>2. Shift[g] \in Nat \ {0} /\ Shift[g + 1] \in Nat \ {0}
  BY <1>1, ShiftProperties
<1>3. \A i \in I2 : i \in Nat /\ i % Shift[g] \in I
  <2> TAKE i \in I2
  <2>1. i \in Nat
    BY <1>2
  <2> QED
    BY <1>2, <2>1, Division, Zenon
<1> HIDE DEF I, I2
<1>4. D \in [I2 -> DOMAIN B] /\ \A i \in I2 : D[i] = T[i % Shift[g]]
  BY <1>1, <1>3 DEF Doubled, I2
<1> HIDE DEF D
<1>5. Right(D, g + 1, B)
  <2> SUFFICES ASSUME NEW i \in I2, NEW j \in I2
               PROVE  /\ B[D[i]].local_depth_ <= g + 1
                      /\ D[i] = D[j] <=> i % Shift[B[D[i]].local_depth_]
                                            = j % Shift[B[D[i]].local_depth_]
    BY <1>4, Zenon DEF Right
  <2> DEFINE k == i % Shift[g]
             l == j % Shift[g]
             d == B[D[i]].local_depth_
  <2>1. k \in I /\ l \in I /\ D[i] = T[k] /\ D[j] = T[l] /\ i \in Nat /\ j \in Nat
    BY <1>3, <1>4, Zenon
  <2>2. d \in Nat
    <3>1. D[i] \in DOMAIN B
      BY <1>4
    <3> QED
      BY <1>1, <3>1, BucketFields, Zenon
  <2>3. DOMAIN T = I
    BY <1>1
  <2>4. d <= g /\ (T[k] = T[l] <=> k % Shift[d] = l % Shift[d])
    <3>1. d = B[T[k]].local_depth_
      BY <2>1, Zenon
    <3> HIDE DEF k, l, d
    <3> QED
      BY <1>1, <2>1, <2>3, <3>1, Zenon DEF Right
  <2>5. k % Shift[d] = i % Shift[d] /\ l % Shift[d] = j % Shift[d]
    <3> HIDE DEF d
    <3> QED
      BY <1>1, <2>1, <2>2, <2>4, LowerBits, ZenonT(30)
  <2>6. d <= g + 1
    BY <1>1, <2>2, <2>4
  <2> QED
    BY <2>1, <2>4, <2>5, <2>6, Zenon
<1>6. InPlace(D, g + 1, B)
  <2> SUFFICES ASSUME NEW b \in DOMAIN B, NEW r \in Range(B[b].kv_records_)
               PROVE  D[Hasher(r[1]) % Shift[g + 1]] = b
    BY <1>1, Zenon DEF InPlace
  <2>1. r[1] \in Key
    BY <1>1, BucketFields, Zenon
  <2> DEFINE h == Hasher(r[1])
  <2>2. h \in Nat /\ h % Shift[g + 1] \in I2
    BY <1>1, <2>1, SlotOfKey, Zenon DEF I2
  <2>3. (h % Shift[g + 1]) % Shift[g] = h % Shift[g]
    <3>1. g <= g + 1
      BY <1>1
    <3> HIDE DEF h
    <3> QED
      BY <1>1, <2>2, <3>1, LowerBits, Zenon
  <2> QED
    BY <1>1, <1>4, <2>2, <2>3, Zenon DEF InPlace
<1> QED
  BY <1>1, <1>4, <1>5, <1>6, Zenon DEF Good, I2, D

\* The keys that Divide moves to the new bucket.
Moved(d) == {key \in Key : Bit(Hasher(key), d)}

\* The directory and the buckets when bucket b is divided.
Parted(T, g, B, b) ==
    [i \in 0..(Shift[g] - 1) |->
        IF T[i] = b THEN IF Bit(i, B[b].local_depth_) THEN Len(B) + 1 ELSE b ELSE T[i]]

Half(B, b, keys) ==
    [local_depth_ |-> B[b].local_depth_ + 1, kv_records_ |-> Select(B[b].kv_records_, keys)]

Divided(B, b) ==
    Append([B EXCEPT ![b] = Half(B, b, Key \ Moved(B[b].local_depth_))],
           Half(B, b, Moved(B[b].local_depth_)))

\* A half of a divided bucket has the records with the given keys.
LEMMA HalfProperties ==
    ASSUME NEW B \in Seq(Bucket), NEW b \in DOMAIN B, NEW keys
    PROVE  /\ Half(B, b, keys) \in Bucket
           /\ Half(B, b, keys).local_depth_ = B[b].local_depth_ + 1
           /\ Range(Half(B, b, keys).kv_records_) = {r \in Range(B[b].kv_records_) : r[1] \in keys}
           /\ Unique(B[b].kv_records_) => Unique(Half(B, b, keys).kv_records_)
<1> DEFINE d == B[b].local_depth_
           s == B[b].kv_records_
           t == Select(s, keys)
<1>1. d \in Nat /\ s \in Seq(Record)
  BY BucketFields, Zenon
<1>2. /\ t \in Seq(Record) /\ Range(t) = {r \in Range(s) : r[1] \in keys}
      /\ Unique(s) => Unique(t)
  <2> HIDE DEF s
  <2> QED
    BY <1>1, SelectProperties, Zenon
<1>3. Half(B, b, keys) = [local_depth_ |-> d + 1, kv_records_ |-> t]
  BY Zenon DEF Half
<1> HIDE DEF d, s, t
<1>4. [local_depth_ |-> d + 1, kv_records_ |-> t] \in Bucket
  BY <1>1, <1>2 DEF Bucket, Record
<1>5. Half(B, b, keys).local_depth_ = d + 1 /\ Half(B, b, keys).kv_records_ = t
  BY <1>3
<1> QED
  BY <1>2, <1>3, <1>4, <1>5, Zenon DEF d, s

\* The buckets after a division, one by one.
LEMMA DividedProperties ==
    ASSUME NEW B \in Seq(Bucket), NEW b \in DOMAIN B
    PROVE  /\ Divided(B, b) \in Seq(Bucket)
           /\ Len(Divided(B, b)) = Len(B) + 1
           /\ Divided(B, b)[b] = Half(B, b, Key \ Moved(B[b].local_depth_))
           /\ Divided(B, b)[Len(B) + 1] = Half(B, b, Moved(B[b].local_depth_))
           /\ \A c \in DOMAIN B : c # b => Divided(B, b)[c] = B[c]
<1> DEFINE x == Half(B, b, Key \ Moved(B[b].local_depth_))
           y == Half(B, b, Moved(B[b].local_depth_))
           C == [B EXCEPT ![b] = x]
<1>1. x \in Bucket /\ y \in Bucket
  BY HalfProperties, Zenon
<1>2. Divided(B, b) = Append(C, y)
  BY Zenon DEF Divided
<1> HIDE DEF x, y
<1>3. /\ C \in Seq(Bucket) /\ Len(C) = Len(B) /\ C[b] = x
      /\ \A c \in DOMAIN B : c # b => C[c] = B[c]
  <2> HIDE DEF Bucket
  <2> QED
    BY <1>1
<1> HIDE DEF C
<1>4. /\ Append(C, y) \in Seq(Bucket) /\ Len(Append(C, y)) = Len(B) + 1
      /\ Append(C, y)[Len(B) + 1] = y
      /\ \A c \in DOMAIN B : Append(C, y)[c] = C[c]
  <2> HIDE DEF Bucket
  <2> QED
    BY <1>1, <1>3
<1> QED
  BY <1>2, <1>3, <1>4, Zenon DEF x, y

\* A divided bucket leaves the contents of the table as they are.
LEMMA DividedContent ==
    ASSUME NEW B \in Seq(Bucket), NEW b \in DOMAIN B
    PROVE  Content(Divided(B, b)) = Content(B)
<1> DEFINE D == Divided(B, b)
           K == Moved(B[b].local_depth_)
           R(c) == Range(B[c].kv_records_)
<1>1. /\ D \in Seq(Bucket) /\ Len(D) = Len(B) + 1
      /\ D[b] = Half(B, b, Key \ K)
      /\ D[Len(B) + 1] = Half(B, b, K)
      /\ \A c \in DOMAIN B : c # b => D[c] = B[c]
  BY DividedProperties, Zenon
<1>2. /\ Range(D[b].kv_records_) = {r \in R(b) : r[1] \in Key \ K}
      /\ Range(D[Len(B) + 1].kv_records_) = {r \in R(b) : r[1] \in K}
  <2> HIDE DEF D, K
  <2>1. \A keys : Range(Half(B, b, keys).kv_records_) = {r \in R(b) : r[1] \in keys}
    BY HalfProperties, Zenon
  <2> QED
    BY <1>1, <2>1, Zenon
<1>3. \A r \in R(b) : r[1] \in Key
  BY BucketFields, Zenon
<1> HIDE DEF D, K
<1>4. \A c : c \in DOMAIN D <=> c \in DOMAIN B \/ c = Len(B) + 1
  BY <1>1
<1>5. \A r : r \in Content(D) <=> \E c \in DOMAIN D : r \in Range(D[c].kv_records_)
  BY Zenon DEF Content
<1>6. \A r : r \in Content(B) <=> \E c \in DOMAIN B : r \in R(c)
  BY Zenon DEF Content
<1>7. ASSUME NEW r, r \in Content(D) PROVE r \in Content(B)
  <2>1. PICK c \in DOMAIN D : r \in Range(D[c].kv_records_)
    BY <1>5, <1>7, Zenon
  <2>2. CASE c = b \/ c = Len(B) + 1
    BY <1>2, <1>6, <2>1, <2>2, Zenon
  <2>3. CASE c \in DOMAIN B /\ c # b
    BY <1>1, <1>6, <2>1, <2>3, Zenon
  <2> QED
    BY <1>4, <2>2, <2>3, Zenon
<1>8. ASSUME NEW r, r \in Content(B) PROVE r \in Content(D)
  <2>1. PICK c \in DOMAIN B : r \in R(c)
    BY <1>6, <1>8, Zenon
  <2>2. CASE c # b
    BY <1>1, <1>4, <1>5, <2>1, <2>2, Zenon
  <2>3. CASE c = b /\ r[1] \in K
    BY <1>2, <1>4, <1>5, <2>1, <2>3, Zenon
  <2>4. CASE c = b /\ r[1] \notin K
    BY <1>2, <1>3, <1>4, <1>5, <2>1, <2>4, Zenon
  <2> QED
    BY <2>2, <2>3, <2>4, Zenon
<1> QED
  BY <1>7, <1>8, Zenon DEF D

\* A divided bucket, with the slots that shared it redirected, leaves the
\* directory right: they part at the bit that was the first not in use.
LEMMA DividingIsGood ==
    ASSUME NEW T, NEW g, NEW B, Good(T, g, B), NEW b \in DOMAIN B, B[b].local_depth_ < g
    PROVE  Good(Parted(T, g, B, b), g, Divided(B, b))
<1> DEFINE P == Parted(T, g, B, b)
           D == Divided(B, b)
           d == B[b].local_depth_
           n == Len(B)
           I == 0..(Shift[g] - 1)
<1>1. /\ g \in Nat /\ B \in Seq(Bucket) /\ T \in [I -> DOMAIN B]
      /\ Right(T, g, B) /\ InPlace(T, g, B)
  BY Zenon DEF Good
<1>2. d \in Nat /\ d < g /\ d + 1 <= g /\ n \in Nat /\ DOMAIN B = 1..n
  BY <1>1, BucketFields
<1>3. Shift[g] \in Nat \ {0}
  BY <1>1, ShiftProperties
<1>4. \A i \in I : i \in Nat
  BY <1>3
<1>5. /\ D \in Seq(Bucket) /\ Len(D) = n + 1
      /\ D[b] = Half(B, b, Key \ Moved(d)) /\ D[n + 1] = Half(B, b, Moved(d))
      /\ \A c \in DOMAIN B : c # b => D[c] = B[c]
  BY <1>1, DividedProperties, Zenon
<1>6. /\ DOMAIN D = 1..(n + 1) /\ n + 1 \notin DOMAIN B
      /\ \A c : c \in DOMAIN D <=> c \in DOMAIN B \/ c = n + 1
  BY <1>2, <1>5
<1>7. D[b].local_depth_ = d + 1 /\ D[n + 1].local_depth_ = d + 1
  <2>1. \A keys : Half(B, b, keys).local_depth_ = d + 1
    BY <1>1, HalfProperties, Zenon
  <2> HIDE DEF D
  <2> QED
    BY <1>5, <2>1, Zenon
<1> HIDE DEF D, I
<1>8. /\ \A i \in I : P[i] = IF T[i] = b THEN IF Bit(i, d) THEN n + 1 ELSE b ELSE T[i]
      /\ P \in [I -> DOMAIN D]
  <2>1. \A i \in I : P[i] = IF T[i] = b THEN IF Bit(i, d) THEN n + 1 ELSE b ELSE T[i]
    BY Zenon DEF Parted, I
  <2>2. P = [i \in I |-> IF T[i] = b THEN IF Bit(i, d) THEN n + 1 ELSE b ELSE T[i]]
    BY Zenon DEF Parted, I
  <2>3. \A i \in I : T[i] \in DOMAIN B
    BY <1>1
  <2>4. \A i \in I : P[i] \in DOMAIN D
    <3> HIDE DEF P
    <3> QED
      BY <1>6, <2>1, <2>3, Zenon
  <2> QED
    BY <2>1, <2>2, <2>4, Zenon
<1> HIDE DEF P
<1>9. DOMAIN T = I /\ DOMAIN P = I
  BY <1>1, <1>8
<1>10. Right(P, g, D)
  <2> SUFFICES ASSUME NEW i \in I, NEW j \in I
               PROVE  /\ D[P[i]].local_depth_ <= g
                      /\ P[i] = P[j] <=> i % Shift[D[P[i]].local_depth_]
                                            = j % Shift[D[P[i]].local_depth_]
    BY <1>9, Zenon DEF Right
  <2>1. /\ B[T[i]].local_depth_ <= g
        /\ T[i] = T[j] <=> i % Shift[B[T[i]].local_depth_] = j % Shift[B[T[i]].local_depth_]
    BY <1>1, <1>9, Zenon DEF Right
  <2>2. T[i] \in DOMAIN B /\ T[j] \in DOMAIN B /\ i \in Nat /\ j \in Nat
    BY <1>1, <1>4
  <2>3. CASE T[i] # b
    <3>1. P[i] = T[i] /\ D[T[i]] = B[T[i]] /\ T[i] # n + 1
      BY <1>5, <1>6, <1>8, <2>2, <2>3, Zenon
    <3>2. P[i] = P[j] <=> T[i] = T[j]
      BY <1>8, <2>3, <3>1, Zenon
    <3> QED
      BY <2>1, <3>1, <3>2, Zenon
  <2>4. CASE T[i] = b
    <3>1. D[P[i]].local_depth_ = d + 1
      BY <1>7, <1>8, <2>4, Zenon
    <3>2. P[i] = P[j] <=> T[j] = b /\ (Bit(i, d) <=> Bit(j, d))
      BY <1>6, <1>8, <2>2, <2>4, Zenon
    <3>3. T[j] = b <=> i % Shift[d] = j % Shift[d]
      BY <2>1, <2>4, Zenon
    <3>4. i % Shift[d + 1] = j % Shift[d + 1]
             <=> (i % Shift[d] = j % Shift[d]) /\ (Bit(i, d) <=> Bit(j, d))
      <4> HIDE DEF d
      <4> QED
        BY <1>2, <2>2, SameLowerBits, Zenon
    <3> QED
      BY <1>2, <3>1, <3>2, <3>3, <3>4, Zenon
  <2> QED
    BY <2>3, <2>4
<1>11. InPlace(P, g, D)
  <2>1. ASSUME NEW c \in DOMAIN D
        PROVE  Unique(D[c].kv_records_)
    <3>1. Unique(D[b].kv_records_) /\ Unique(D[n + 1].kv_records_)
      <4>1. Unique(B[b].kv_records_)
        BY <1>1, Zenon DEF InPlace
      <4>2. \A keys : Unique(Half(B, b, keys).kv_records_)
        BY <1>1, <4>1, HalfProperties, Zenon
      <4> QED
        BY <1>5, <4>2, Zenon
    <3> QED
      BY <1>1, <1>5, <1>6, <3>1, Zenon DEF InPlace
  <2>2. ASSUME NEW c \in DOMAIN B, NEW r \in Range(B[c].kv_records_)
        PROVE  LET i == Hasher(r[1]) % Shift[g]
               IN i \in I /\ T[i] = c /\ r[1] \in Key /\ (r[1] \in Moved(d) <=> Bit(i, d))
    <3> DEFINE h == Hasher(r[1])
    <3>1. r[1] \in Key
      BY <1>1, BucketFields, Zenon
    <3>2. h \in Nat /\ h % Shift[g] \in I
      BY <1>1, <3>1, SlotOfKey, Zenon DEF I
    <3>3. Bit(h % Shift[g], d) <=> Bit(h, d)
      <4> HIDE DEF h, d
      <4> QED
        BY <1>1, <1>2, <3>2, BitOfLowerBits, Zenon
    <3>4. r[1] \in Moved(d) <=> Bit(h, d)
      BY <3>1, Zenon DEF Moved
    <3> QED
      BY <1>1, <3>1, <3>2, <3>3, <3>4, Zenon DEF InPlace
  <2>3. ASSUME NEW c \in DOMAIN D, NEW r \in Range(D[c].kv_records_)
        PROVE  P[Hasher(r[1]) % Shift[g]] = c
    <3> DEFINE i == Hasher(r[1]) % Shift[g]
    <3>1. CASE c \in DOMAIN B /\ c # b
      <4>1. r \in Range(B[c].kv_records_)
        BY <1>5, <2>3, <3>1, Zenon
      <4>2. i \in I /\ T[i] = c
        BY <2>2, <3>1, <4>1, Zenon
      <4> QED
        BY <1>8, <3>1, <4>2, Zenon
    <3>2. CASE c = b \/ c = n + 1
      <4>1. r \in Range(B[b].kv_records_) /\ (r[1] \in Moved(d) <=> c = n + 1)
        <5>1. \A keys : Range(Half(B, b, keys).kv_records_)
                            = {q \in Range(B[b].kv_records_) : q[1] \in keys}
          BY <1>1, HalfProperties, Zenon
        <5>2. n + 1 # b
          BY <1>6, Zenon
        <5>3. CASE c = b
          <6>1. r \in Range(B[b].kv_records_) /\ r[1] \in Key \ Moved(d)
            BY <1>5, <2>3, <5>1, <5>3, Zenon
          <6> QED
            BY <5>2, <5>3, <6>1, Zenon
        <5>4. CASE c = n + 1
          BY <1>5, <2>3, <5>1, <5>4, Zenon
        <5> QED
          BY <3>2, <5>3, <5>4, Zenon
      <4>2. i \in I /\ T[i] = b /\ (r[1] \in Moved(d) <=> Bit(i, d))
        BY <2>2, <4>1, Zenon
      <4>3. P[i] = IF Bit(i, d) THEN n + 1 ELSE b
        <5> HIDE DEF i
        <5> QED
          BY <1>8, <4>2, Zenon
      <4> QED
        BY <3>2, <4>1, <4>2, <4>3, Zenon
    <3> QED
      BY <1>6, <3>1, <3>2, Zenon
  <2> QED
    BY <2>1, <2>3, Zenon DEF InPlace
<1> QED
  BY <1>1, <1>5, <1>8, <1>10, <1>11, Zenon DEF Good, I, P, D

WithRecords(B, b, s) == [B EXCEPT ![b].kv_records_ = s]

\* Only the records of the one bucket change.
LEMMA WithRecordsProperties ==
    ASSUME NEW B \in Seq(Bucket), NEW b \in DOMAIN B, NEW s \in Seq(Record)
    PROVE  /\ WithRecords(B, b, s) \in Seq(Bucket)
           /\ DOMAIN WithRecords(B, b, s) = DOMAIN B
           /\ WithRecords(B, b, s)[b].kv_records_ = s
           /\ \A c \in DOMAIN B : c # b => WithRecords(B, b, s)[c] = B[c]
           /\ \A c \in DOMAIN B : WithRecords(B, b, s)[c].local_depth_ = B[c].local_depth_
<1> DEFINE x == [B[b] EXCEPT !.kv_records_ = s]
           C == [B EXCEPT ![b] = x]
<1>1. x \in Bucket /\ x.kv_records_ = s /\ x.local_depth_ = B[b].local_depth_
  <2>1. B[b] \in Bucket
    OBVIOUS
  <2> QED
    BY <2>1, Zenon DEF Bucket, Record
<1>2. WithRecords(B, b, s) = C
  BY DEF WithRecords
<1> HIDE DEF x
<1>3. /\ C \in Seq(Bucket) /\ DOMAIN C = DOMAIN B /\ C[b] = x
      /\ \A c \in DOMAIN B : c # b => C[c] = B[c]
  <2> HIDE DEF Bucket
  <2> QED
    BY <1>1
<1> HIDE DEF C
<1> QED
  BY <1>1, <1>2, <1>3, Zenon

\* A bucket may take other records, if they are in place and unique.
LEMMA ReplacingIsGood ==
    ASSUME NEW T, NEW g, NEW B, Good(T, g, B), NEW b \in DOMAIN B,
           NEW s \in Seq(Record), Unique(s),
           \A r \in Range(s) : T[Hasher(r[1]) % Shift[g]] = b
    PROVE  Good(T, g, WithRecords(B, b, s))
<1> DEFINE C == WithRecords(B, b, s)
<1>1. /\ g \in Nat /\ B \in Seq(Bucket) /\ T \in [0..(Shift[g] - 1) -> DOMAIN B]
      /\ Right(T, g, B) /\ InPlace(T, g, B)
  BY Zenon DEF Good
<1>2. /\ C \in Seq(Bucket) /\ DOMAIN C = DOMAIN B /\ C[b].kv_records_ = s
      /\ \A c \in DOMAIN B : c # b => C[c] = B[c]
      /\ \A c \in DOMAIN B : C[c].local_depth_ = B[c].local_depth_
  BY <1>1, WithRecordsProperties, ZenonT(30)
<1> HIDE DEF C
<1>3. Right(T, g, C)
  <2>1. \A i \in DOMAIN T : C[T[i]].local_depth_ = B[T[i]].local_depth_
    BY <1>1, <1>2
  <2> SUFFICES ASSUME NEW i \in DOMAIN T, NEW j \in DOMAIN T
               PROVE  /\ B[T[i]].local_depth_ <= g
                      /\ T[i] = T[j] <=> i % Shift[B[T[i]].local_depth_]
                                            = j % Shift[B[T[i]].local_depth_]
    BY <2>1 DEF Right
  <2> QED
    BY <1>1, Zenon DEF Right
<1>4. InPlace(T, g, C)
  BY <1>1, <1>2, Zenon DEF InPlace
<1> QED
  BY <1>1, <1>2, <1>3, <1>4, Zenon DEF Good, C

Without(R, key) == {r \in R : r[1] # key}

\* What a change of the records of one key in its bucket makes of the contents.
LEMMA ReplacedContent ==
    ASSUME NEW T, NEW g, NEW B, Good(T, g, B), NEW key \in Key, NEW X,
           NEW s \in Seq(Record), NEW b, b = T[Hasher(key) % Shift[g]],
           Range(s) = Without(Range(B[b].kv_records_), key) \union X
    PROVE  Content(WithRecords(B, b, s)) = Without(Content(B), key) \union X
<1> DEFINE C == WithRecords(B, b, s)
<1>1. /\ g \in Nat /\ B \in Seq(Bucket) /\ T \in [0..(Shift[g] - 1) -> DOMAIN B]
      /\ InPlace(T, g, B)
  BY Zenon DEF Good
<1>2. b \in DOMAIN B
  <2>1. Hasher(key) % Shift[g] \in 0..(Shift[g] - 1)
    BY <1>1, SlotOfKey, Zenon
  <2> QED
    BY <1>1, <2>1
<1>3. \A c \in DOMAIN B : \A r \in Range(B[c].kv_records_) : r[1] = key => c = b
  BY <1>1, Zenon DEF InPlace
<1>4. Range(s) = Without(Range(B[b].kv_records_), key) \union X
  OBVIOUS
<1>5. /\ DOMAIN C = DOMAIN B /\ C[b].kv_records_ = s
      /\ \A c \in DOMAIN B : c # b => C[c] = B[c]
  BY <1>1, <1>2, WithRecordsProperties, ZenonT(30)
<1> HIDE DEF C
<1>6. \A r : r \in Content(C) <=> \E c \in DOMAIN B : r \in Range(C[c].kv_records_)
  BY <1>5, Zenon DEF Content
<1>7. \A r : r \in Content(B) <=> \E c \in DOMAIN B : r \in Range(B[c].kv_records_)
  BY Zenon DEF Content
<1>8. ASSUME NEW r, r \in Content(C)
      PROVE  r \in X \/ (r \in Content(B) /\ r[1] # key)
  <2>1. PICK c \in DOMAIN B : r \in Range(C[c].kv_records_)
    BY <1>6, <1>8, Zenon
  <2>2. CASE c = b
    BY <1>2, <1>4, <1>5, <1>7, <2>1, <2>2, Zenon DEF Without
  <2>3. CASE c # b
    BY <1>3, <1>5, <1>7, <2>1, <2>3, Zenon
  <2> QED
    BY <2>2, <2>3
<1>9. ASSUME NEW r, r \in X \/ (r \in Content(B) /\ r[1] # key)
      PROVE  r \in Content(C)
  <2>1. CASE r \in X
    BY <1>2, <1>4, <1>5, <1>6, <2>1, Zenon
  <2>2. CASE r \in Content(B) /\ r[1] # key
    BY <1>2, <1>4, <1>5, <1>6, <1>7, <2>2, Zenon DEF Without
  <2> QED
    BY <1>9, <2>1, <2>2
<1> QED
  BY <1>8, <1>9, Zenon DEF Without, C

\* The map that the contents stand for.
RecordsOf(C, key) == {r \in C : r[1] = key}
ValueOf(C, key) == IF RecordsOf(C, key) = {} THEN None
                   ELSE (CHOOSE r \in RecordsOf(C, key) : TRUE)[2]
MapOf(C) == [key \in Key |-> ValueOf(C, key)]

\* Replacing the records of a key by one sets its value.
LEMMA MapWith ==
    ASSUME NEW C, NEW key \in Key, NEW value
    PROVE  MapOf(Without(C, key) \union {<<key, value>>}) = [MapOf(C) EXCEPT ![key] = value]
<1> DEFINE D == Without(C, key) \union {<<key, value>>}
<1>1. <<key, value>>[1] = key /\ <<key, value>>[2] = value
  OBVIOUS
<1>2. RecordsOf(D, key) = {<<key, value>>}
  BY <1>1, Zenon DEF RecordsOf, Without
<1>3. ASSUME NEW k \in Key, k # key PROVE RecordsOf(D, k) = RecordsOf(C, k)
  BY <1>1, <1>3, Zenon DEF RecordsOf, Without
<1>4. (CHOOSE r \in {<<key, value>>} : TRUE) = <<key, value>>
  BY Zenon
<1> HIDE DEF D
<1>5. ValueOf(D, key) = value
  BY <1>1, <1>2, <1>4, Zenon DEF ValueOf
<1>6. ASSUME NEW k \in Key, k # key PROVE ValueOf(D, k) = ValueOf(C, k)
  <2>1. RecordsOf(D, k) = RecordsOf(C, k)
    BY <1>3, <1>6, Zenon
  <2> QED
    BY <2>1 DEF ValueOf
<1> QED
  BY <1>5, <1>6, Zenon DEF D, MapOf

\* Dropping the records of a key leaves it without a value.
LEMMA MapWithout ==
    ASSUME NEW C, NEW key \in Key
    PROVE  MapOf(Without(C, key)) = [MapOf(C) EXCEPT ![key] = None]
<1> DEFINE D == Without(C, key)
<1>1. RecordsOf(D, key) = {}
  BY Zenon DEF RecordsOf, Without
<1>2. ASSUME NEW k \in Key, k # key PROVE RecordsOf(D, k) = RecordsOf(C, k)
  BY <1>2, Zenon DEF RecordsOf, Without
<1> HIDE DEF D
<1>3. ValueOf(D, key) = None
  BY <1>1, Zenon DEF ValueOf
<1>4. ASSUME NEW k \in Key, k # key PROVE ValueOf(D, k) = ValueOf(C, k)
  <2>1. RecordsOf(D, k) = RecordsOf(C, k)
    BY <1>2, <1>4, Zenon
  <2> QED
    BY <2>1 DEF ValueOf
<1> QED
  BY <1>3, <1>4, Zenon DEF D, MapOf

\* What a lookup in the bucket of a key tells of the contents.
LEMMA Lookup ==
    ASSUME NEW T, NEW g, NEW B, Good(T, g, B), NEW key \in Key
    PROVE  LET b == T[Hasher(key) % Shift[g]]
               s == B[b].kv_records_
               found == Matches(s, key)
           IN /\ b \in DOMAIN B /\ s \in Seq(Record)
              /\ found = {} => /\ ValueOf(Content(B), key) = None
                               /\ \A r \in Range(s) : r[1] # key
              /\ found # {} => /\ Min(found) \in DOMAIN s /\ s[Min(found)][1] = key
                               /\ ValueOf(Content(B), key) = s[Min(found)][2]
                               /\ ValueOf(Content(B), key) \in Value
<1> DEFINE b == T[Hasher(key) % Shift[g]]
           s == B[b].kv_records_
           found == Matches(s, key)
           m == Min(found)
<1>1. /\ g \in Nat /\ B \in Seq(Bucket) /\ T \in [0..(Shift[g] - 1) -> DOMAIN B]
      /\ InPlace(T, g, B)
  BY Zenon DEF Good
<1>2. b \in DOMAIN B
  <2>1. Hasher(key) % Shift[g] \in 0..(Shift[g] - 1)
    BY <1>1, SlotOfKey, Zenon
  <2> QED
    BY <1>1, <2>1
<1>3. \A c \in DOMAIN B : \A r \in Range(B[c].kv_records_) : r[1] = key => c = b
  BY <1>1, Zenon DEF InPlace
<1> HIDE DEF b
<1>4. s \in Seq(Record) /\ Unique(s)
  BY <1>1, <1>2, BucketFields, Zenon DEF InPlace
<1>5. RecordsOf(Content(B), key) = {r \in Range(s) : r[1] = key}
  BY <1>2, <1>3, Zenon DEF RecordsOf, Content
<1> HIDE DEF s
<1>6. DOMAIN s \subseteq Nat /\ \A i \in DOMAIN s : s[i] \in Record
  BY <1>4
<1>7. CASE found = {}
  <2>1. \A r \in Range(s) : r[1] # key
    BY <1>7, Zenon DEF Range, Matches
  <2>2. RecordsOf(Content(B), key) = {}
    BY <1>5, <2>1, Zenon
  <2> QED
    BY <1>2, <1>4, <1>7, <2>1, <2>2, Zenon DEF ValueOf, b, s
<1>8. CASE found # {}
  <2>1. found \in SUBSET Nat
    BY <1>6 DEF Matches
  <2>2. m \in found
    BY <1>8, <2>1, MinProperties, Zenon
  <2>3. m \in DOMAIN s /\ s[m][1] = key
    BY <2>2, Zenon DEF Matches
  <2>4. \A r \in Range(s) : r[1] = key => r = s[m]
    BY <1>4, <2>3, Zenon DEF Range, Unique
  <2>5. s[m] \in Range(s)
    BY <2>3, Zenon DEF Range
  <2>6. RecordsOf(Content(B), key) = {s[m]}
    BY <1>5, <2>3, <2>4, <2>5, Zenon
  <2>7. (CHOOSE r \in {s[m]} : TRUE) = s[m]
    BY Zenon
  <2>8. ValueOf(Content(B), key) = s[m][2]
    BY <2>6, <2>7, Zenon DEF ValueOf
  <2>9. s[m][2] \in Value
    BY <1>6, <2>3 DEF Record
  <2> QED
    BY <1>2, <1>4, <1>8, <2>3, <2>8, <2>9, Zenon DEF b, s
<1> QED
  BY <1>7, <1>8, Zenon

\* A record of the key, overwritten.
LEMMA OverwrittenRecord ==
    ASSUME NEW s \in Seq(Record), Unique(s), NEW m \in DOMAIN s, NEW value \in Value
    PROVE  LET x == <<s[m][1], value>>
               t == [s EXCEPT ![m] = x]
           IN /\ t \in Seq(Record) /\ Unique(t)
              /\ Range(t) = Without(Range(s), s[m][1]) \union {x}
<1> DEFINE x == <<s[m][1], value>>
           t == [s EXCEPT ![m] = x]
<1>1. x \in Record /\ x[1] = s[m][1]
  BY DEF Record
<1> HIDE DEF x
<1>2. /\ t \in Seq(Record) /\ DOMAIN t = DOMAIN s /\ t[m] = x
      /\ \A i \in DOMAIN s : i # m => t[i] = s[i]
  BY <1>1
<1> HIDE DEF t
<1>3. \A i \in DOMAIN s : t[i][1] = s[i][1]
  BY <1>1, <1>2, Zenon
<1>4. Unique(t)
  BY <1>2, <1>3, Zenon DEF Unique
<1>5. \A i \in DOMAIN s : i # m => s[i][1] # s[m][1]
  BY Zenon DEF Unique
<1>6. ASSUME NEW r, r \in Range(t) PROVE r = x \/ (r \in Range(s) /\ r[1] # s[m][1])
  <2>1. PICK i \in DOMAIN s : r = t[i]
    BY <1>2, <1>6, Zenon DEF Range
  <2>2. CASE i = m
    BY <1>2, <2>1, <2>2, Zenon
  <2>3. CASE i # m
    BY <1>2, <1>5, <2>1, <2>3, Zenon DEF Range
  <2> QED
    BY <2>2, <2>3
<1>7. ASSUME NEW r, r = x \/ (r \in Range(s) /\ r[1] # s[m][1]) PROVE r \in Range(t)
  BY <1>2, <1>7, Zenon DEF Range
<1>8. Range(t) = Without(Range(s), s[m][1]) \union {x}
  BY <1>6, <1>7 DEF Without
<1> QED
  BY <1>2, <1>4, <1>8, Zenon DEF t, x

\* Remove takes out the record of the key and nothing else: after remove_if there
\* is one record to pop.
LEMMA RemovedRecord ==
    ASSUME NEW s \in Seq(Record), Unique(s), NEW m \in DOMAIN s
    PROVE  LET t == WithoutKey(s, s[m][1])
           IN /\ t \in Seq(Record) /\ Unique(t)
              /\ Range(t) = Without(Range(s), s[m][1])
<1> DEFINE key == s[m][1]
           t == Select(s, Key \ {key})
<1>1. \A i \in DOMAIN s : s[i] \in Record /\ s[i][1] \in Key
  BY DEF Record
<1>2. \A r \in Range(s) : r[1] \in Key
  BY <1>1, Zenon DEF Range
<1>3. /\ t \in Seq(Record) /\ Unique(t)
      /\ Range(t) = {r \in Range(s) : r[1] \in Key \ {key}}
  BY SelectProperties, Zenon
<1>4. \A i \in DOMAIN s : s[i][1] \in Key \ {key} <=> i # m
  BY <1>1, Zenon DEF Unique
<1>5. DOMAIN s = 1..Len(s) /\ Len(s) \in Nat
  OBVIOUS
<1>6. Len(t) = Len(s) - 1
  BY <1>4, <1>5, SelectAllButOne, Zenon
<1>7. WithoutKey(s, key) = t \o SubSeq(s, Len(t) + 1, Len(s) - 1)
  BY Zenon DEF WithoutKey
<1> HIDE DEF t, key
<1>8. SubSeq(s, Len(t) + 1, Len(s) - 1) = <<>>
  BY <1>5, <1>6
<1>9. WithoutKey(s, key) = t
  <2>1. t \o <<>> = t
    BY <1>3
  <2> QED
    BY <1>7, <1>8, <2>1, Zenon
<1>10. Range(t) = Without(Range(s), key)
  BY <1>2, <1>3, Zenon DEF Without
<1> QED
  BY <1>3, <1>9, <1>10, Zenon DEF key

(***************************************************************************)
(* The rounds of Insert, Remove and Find.                                  *)
(***************************************************************************)
Inv == TypeOK /\ Good(bucket_address_table_, global_depth_, buckets)

\* What a call that returns has done to the contents of the table.
Keeps == Inv' /\ Content(buckets') = Content(buckets)
Puts(key, value) ==
    /\ Inv'
    /\ Content(buckets') = Without(Content(buckets), key) \union {<<key, value>>}
Drops(key) == Inv' /\ Content(buckets') = Without(Content(buckets), key)

\* The bucket of a key, as the actions find it.
LEMMA BucketOfKey ==
    ASSUME Inv, NEW key \in Key
    PROVE  LET b == BucketOf(key)
               s == Records(b)
               found == Matches(s, key)
               v == ValueOf(Content(buckets), key)
           IN /\ b \in DOMAIN buckets /\ s \in Seq(Record) /\ Unique(s)
              /\ \A r \in Range(s) :
                     bucket_address_table_[Hasher(r[1]) % Shift[global_depth_]] = b
              /\ found = {} => v = None /\ \A r \in Range(s) : r[1] # key
              /\ found # {} => /\ Min(found) \in DOMAIN s /\ s[Min(found)][1] = key
                               /\ v = s[Min(found)][2] /\ v \in Value
<1> DEFINE b == BucketOf(key)
<1>1. Good(bucket_address_table_, global_depth_, buckets)
  BY Zenon DEF Inv
<1>2. LET s == buckets[b].kv_records_
          found == Matches(s, key)
      IN /\ b \in DOMAIN buckets /\ s \in Seq(Record)
         /\ found = {} => /\ ValueOf(Content(buckets), key) = None
                          /\ \A r \in Range(s) : r[1] # key
         /\ found # {} => /\ Min(found) \in DOMAIN s /\ s[Min(found)][1] = key
                          /\ ValueOf(Content(buckets), key) = s[Min(found)][2]
                          /\ ValueOf(Content(buckets), key) \in Value
  BY <1>1, Lookup, Zenon DEF BucketOf, BucketId
<1>3. Unique(Records(b)) /\ \A r \in Range(Records(b)) :
          bucket_address_table_[Hasher(r[1]) % Shift[global_depth_]] = b
  <2> HIDE DEF b
  <2> QED
    BY <1>1, <1>2, Zenon DEF Good, InPlace, Records
<1> QED
  BY <1>2, <1>3, Zenon DEF Records

\* What the buckets would be, and hold, if the bucket of the key had records s.
Changed(key, s) == WithRecords(buckets, BucketOf(key), s)

\* New records for a bucket that differ in the records of the key only.
LEMMA ChangedRecords ==
    ASSUME Inv, NEW key \in Key, NEW X, \A r \in X : r[1] = key,
           NEW s \in Seq(Record), Unique(s),
           Range(s) = Without(Range(Records(BucketOf(key))), key) \union X
    PROVE  /\ Good(bucket_address_table_, global_depth_, Changed(key, s))
           /\ Content(Changed(key, s)) = Without(Content(buckets), key) \union X
<1> DEFINE b == BucketOf(key)
<1>1. b = bucket_address_table_[Hasher(key) % Shift[global_depth_]]
  BY Zenon DEF BucketOf, BucketId
<1>2. /\ b \in DOMAIN buckets
      /\ \A r \in Range(Records(b)) :
             bucket_address_table_[Hasher(r[1]) % Shift[global_depth_]] = b
  BY BucketOfKey, Zenon
<1>3. Range(s) = Without(Range(buckets[b].kv_records_), key) \union X
  BY Zenon DEF Records
<1>4. Good(bucket_address_table_, global_depth_, buckets)
  BY Zenon DEF Inv
<1> HIDE DEF b
<1>5. \A r \in Range(s) : bucket_address_table_[Hasher(r[1]) % Shift[global_depth_]] = b
  BY <1>1, <1>2, <1>3, Zenon DEF Without, Records
<1>6. Good(bucket_address_table_, global_depth_, WithRecords(buckets, b, s))
  BY <1>2, <1>4, <1>5, ReplacingIsGood, Zenon
<1>7. Content(WithRecords(buckets, b, s)) = Without(Content(buckets), key) \union X
  BY <1>1, <1>3, <1>4, ReplacedContent
<1> QED
  BY <1>6, <1>7, Zenon DEF Changed, b

\* A call that only changes the records of one bucket keeps the invariant.
LEMMA ChangedInv ==
    ASSUME Inv, NEW key \in Key, NEW s \in Seq(Record),
           Good(bucket_address_table_, global_depth_, Changed(key, s)),
           buckets' = Changed(key, s), UNCHANGED directory, inserting' = {}
    PROVE  Inv'
<1>1. Good(bucket_address_table_, global_depth_, buckets)'
  BY Zenon DEF directory
<1>2. BucketOf(key) \in DOMAIN buckets /\ buckets \in Seq(Bucket)
  BY BucketOfKey, Zenon DEF Inv, TypeOK
<1>3. DOMAIN buckets' = DOMAIN buckets /\ buckets' \in Seq(Bucket)
  BY <1>2, WithRecordsProperties, Zenon DEF Changed
<1>4. TypeOK'
  BY <1>3, Zenon DEF Inv, TypeOK, directory
<1> QED
  BY <1>1, <1>4, Zenon DEF Inv

\* The first way for a round of Insert to end: the key has a record.
LEMMA OverwritePuts ==
    ASSUME Inv, NEW key \in Key, NEW value \in Value, Overwrite(key, value)
    PROVE  Puts(key, value)
<1> DEFINE b == BucketOf(key)
           s == Records(b)
           m == Min(Matches(s, key))
           t == [s EXCEPT ![m] = <<key, value>>]
           X == {<<key, value>>}
<1>1. Matches(s, key) # {} /\ buckets' = [buckets EXCEPT ![b].kv_records_[m] = <<key, value>>]
  BY Zenon DEF Overwrite
<1>2. UNCHANGED directory /\ inserting' = {}
  BY Zenon DEF Overwrite, Return
<1>3. /\ b \in DOMAIN buckets /\ s \in Seq(Record) /\ Unique(s)
      /\ m \in DOMAIN s /\ s[m][1] = key
  BY <1>1, BucketOfKey, Zenon
<1>4. buckets' = Changed(key, t)
  <2> HIDE DEF m
  <2> QED
    BY <1>1, <1>3 DEF WithRecords, Records, Changed
<1>5. \A r \in X : r[1] = key
  OBVIOUS
<1> HIDE DEF s, m
<1>6. t \in Seq(Record) /\ Unique(t) /\ Range(t) = Without(Range(s), key) \union X
  BY <1>3, OverwrittenRecord, Zenon
<1> HIDE DEF t, X
<1>7. /\ Good(bucket_address_table_, global_depth_, Changed(key, t))
      /\ Content(Changed(key, t)) = Without(Content(buckets), key) \union X
  BY <1>5, <1>6, ChangedRecords, Zenon DEF s
<1>8. Inv'
  BY <1>2, <1>4, <1>6, <1>7, ChangedInv, Zenon
<1> QED
  BY <1>4, <1>7, <1>8, Zenon DEF Puts, X

\* The records of a bucket without the key, with one more.
LEMMA AppendedRecord ==
    ASSUME Inv, NEW key \in Key, NEW value \in Value,
           Matches(Records(BucketOf(key)), key) = {}
    PROVE  LET s == Append(Records(BucketOf(key)), <<key, value>>)
           IN /\ s \in Seq(Record)
              /\ Good(bucket_address_table_, global_depth_, Changed(key, s))
              /\ Content(Changed(key, s)) = Without(Content(buckets), key) \union {<<key, value>>}
<1> DEFINE s == Records(BucketOf(key))
           x == <<key, value>>
           t == Append(s, x)
           X == {x}
<1>1. s \in Seq(Record) /\ Unique(s) /\ \A r \in Range(s) : r[1] # key
  BY BucketOfKey, Zenon
<1>2. x \in Record /\ x[1] = key
  BY DEF Record
<1> HIDE DEF s, x
<1>3. t \in Seq(Record) /\ Range(t) = Range(s) \union X /\ Unique(t)
  BY <1>1, <1>2, AppendRecord, Zenon
<1>4. Range(s) = Without(Range(s), key)
  BY <1>1, Zenon DEF Without
<1>5. \A r \in X : r[1] = key
  BY <1>2, Zenon
<1> HIDE DEF t, X
<1>6. Range(t) = Without(Range(s), key) \union X
  BY <1>3, <1>4, Zenon
<1>7. /\ Good(bucket_address_table_, global_depth_, Changed(key, t))
      /\ Content(Changed(key, t)) = Without(Content(buckets), key) \union X
  BY <1>3, <1>5, <1>6, ChangedRecords, Zenon DEF s
<1> QED
  BY <1>3, <1>7, Zenon DEF t, X, x, s

\* The second way: the bucket has room.
LEMMA PushBackPuts ==
    ASSUME Inv, NEW key \in Key, NEW value \in Value, PushBack(key, value)
    PROVE  Puts(key, value)
<1> DEFINE s == Append(Records(BucketOf(key)), <<key, value>>)
<1>1. /\ Matches(Records(BucketOf(key)), key) = {}
      /\ buckets' = [buckets EXCEPT ![BucketOf(key)].kv_records_ = s]
      /\ UNCHANGED directory /\ inserting' = {}
  BY Zenon DEF PushBack, Return
<1>2. buckets' = Changed(key, s)
  BY <1>1, Zenon DEF Changed, WithRecords
<1>3. /\ s \in Seq(Record)
      /\ Good(bucket_address_table_, global_depth_, Changed(key, s))
      /\ Content(Changed(key, s)) = Without(Content(buckets), key) \union {<<key, value>>}
  BY <1>1, AppendedRecord, Zenon
<1> HIDE DEF s
<1>4. Inv'
  BY <1>1, <1>2, <1>3, ChangedInv, Zenon
<1> QED
  BY <1>2, <1>3, <1>4, Zenon DEF Puts

\* The records of Remove.
LEMMA RemoveDrops ==
    ASSUME Inv, NEW key \in Key, Remove(key), Matches(Records(BucketOf(key)), key) # {}
    PROVE  Drops(key)
<1> DEFINE s == Records(BucketOf(key))
           m == Min(Matches(s, key))
           t == WithoutKey(s, key)
<1>1. /\ buckets' = [buckets EXCEPT ![BucketOf(key)].kv_records_ = t]
      /\ UNCHANGED directory /\ inserting' = {}
  BY Zenon DEF Remove, Return
<1>2. buckets' = Changed(key, t)
  BY <1>1, Zenon DEF Changed, WithRecords
<1>3. s \in Seq(Record) /\ Unique(s) /\ m \in DOMAIN s /\ s[m][1] = key
  BY BucketOfKey, Zenon
<1> HIDE DEF s, m
<1>4. t \in Seq(Record) /\ Unique(t) /\ Range(t) = Without(Range(s), key)
  BY <1>3, RemovedRecord, Zenon
<1> HIDE DEF t
<1> DEFINE X == {}
<1>5. Range(t) = Without(Range(s), key) \union X /\ \A r \in X : r[1] = key
  BY <1>4
<1>6. \A C : C \union X = C
  BY Zenon
<1> HIDE DEF X
<1>7. /\ Good(bucket_address_table_, global_depth_, Changed(key, t))
      /\ Content(Changed(key, t)) = Without(Content(buckets), key) \union X
  BY <1>4, <1>5, ChangedRecords, Zenon DEF s
<1>8. Inv'
  BY <1>1, <1>2, <1>4, <1>7, ChangedInv, Zenon
<1> QED
  BY <1>2, <1>6, <1>7, <1>8, Zenon DEF Drops

\* The loop over the slots in Insert finds those that share the bucket.
LEMMA RedirectIsParted ==
    ASSUME Inv, NEW key \in Key, NEW s \in Seq(Record)
    PROVE  Redirect(BucketId(key), BucketOf(key))
               = Parted(bucket_address_table_, global_depth_, Changed(key, s), BucketOf(key))
<1> DEFINE b == BucketOf(key)
           id == BucketId(key)
           T == bucket_address_table_
           I == 0..(Shift[global_depth_] - 1)
           d == buckets[b].local_depth_
           C == Changed(key, s)
<1>1. /\ global_depth_ \in Nat /\ buckets \in Seq(Bucket)
      /\ Right(T, global_depth_, buckets) /\ DOMAIN T = I
  BY DEF Inv, Good
<1>2. b \in DOMAIN buckets /\ b = T[id]
  BY BucketOfKey, Zenon DEF BucketOf
<1>3. id \in I
  BY <1>1, SlotOfKey, Zenon DEF BucketId
<1>4. C[b].local_depth_ = d /\ Len(C) = Len(buckets)
  <2>1. /\ C \in Seq(Bucket) /\ DOMAIN C = DOMAIN buckets
        /\ C[b].local_depth_ = buckets[b].local_depth_
    BY <1>1, <1>2, WithRecordsProperties, Zenon DEF Changed
  <2> HIDE DEF C
  <2> QED
    BY <1>1, <2>1
<1> HIDE DEF C, b, id
<1>5. ASSUME NEW i \in I
      PROVE  T[i] = b <=> i % Shift[d] = id % Shift[d]
  BY <1>1, <1>2, <1>3, Zenon DEF Right
<1>6. Redirect(id, b) = [i \in I |-> IF i % Shift[d] = id % Shift[d]
                                     THEN IF Bit(i, d) THEN Len(buckets) + 1 ELSE b
                                     ELSE T[i]]
  BY DEF Redirect
<1>7. Parted(T, global_depth_, C, b) =
          [i \in I |-> IF T[i] = b THEN IF Bit(i, d) THEN Len(buckets) + 1 ELSE b ELSE T[i]]
  BY <1>4, Zenon DEF Parted
<1> HIDE DEF I, d
<1>8. Redirect(id, b) = Parted(T, global_depth_, C, b)
  BY <1>5, <1>6, <1>7
<1> QED
  BY <1>8 DEF id, b, C

\* A split or a doubling divides the bucket of the key.
LEMMA DivideIsDivided ==
    ASSUME Inv, NEW key \in Key, NEW s \in Seq(Record)
    PROVE  Divide(BucketOf(key), s) = Divided(Changed(key, s), BucketOf(key))
<1> DEFINE b == BucketOf(key)
           d == buckets[b].local_depth_
           C == Changed(key, s)
           K == Moved(d)
           x == [local_depth_ |-> d + 1, kv_records_ |-> Select(s, Key \ K)]
           y == [local_depth_ |-> d + 1, kv_records_ |-> Select(s, K)]
<1>1. b \in DOMAIN buckets /\ buckets \in Seq(Bucket)
  BY BucketOfKey, Zenon DEF Inv, TypeOK
<1>2. d \in Nat
  BY <1>1, BucketFields, Zenon
<1>3. K = {k \in Key : Bit(Hasher(k), (d + 1) - 1)}
  <2>1. (d + 1) - 1 = d
    BY <1>2
  <2> QED
    BY <2>1, Zenon DEF Moved
<1>4. Divide(b, s) = Append([buckets EXCEPT ![b] = x], y)
  <2> HIDE DEF b, d, K
  <2> QED
    BY <1>3, Zenon DEF Divide, d
<1>5. /\ DOMAIN C = DOMAIN buckets /\ C[b].kv_records_ = s /\ C[b].local_depth_ = d
      /\ \A c \in DOMAIN buckets : c # b => C[c] = buckets[c]
      /\ C \in Seq(Bucket)
  BY <1>1, WithRecordsProperties, ZenonT(30) DEF Changed
<1> HIDE DEF C, b, d
<1>6. Half(C, b, Key \ K) = x /\ Half(C, b, K) = y
  BY <1>5, Zenon DEF Half
<1>7. Divided(C, b) = Append([C EXCEPT ![b] = x], y)
  <2> HIDE DEF x, y
  <2> QED
    BY <1>5, <1>6, Zenon DEF Divided
<1>8. [C EXCEPT ![b] = x] = [buckets EXCEPT ![b] = x]
  <2> HIDE DEF x
  <2> QED
    BY <1>1, <1>5, Zenon
<1> QED
  BY <1>4, <1>7, <1>8, Zenon DEF b, C

\* A good directory of the right size is all there is to the invariant.
LEMMA GoodInv ==
    ASSUME NEW T, NEW g, NEW B, Good(T, g, B),
           bucket_address_table_' = T, global_depth_' = g, buckets' = B,
           num_buckets_' = Shift[g], inserting' \subseteq Key \X Value
    PROVE  Inv'
<1>1. g \in Nat /\ B \in Seq(Bucket) /\ T \in [0..(Shift[g] - 1) -> DOMAIN B]
  BY Zenon DEF Good
<1>2. TypeOK'
  BY <1>1, Zenon DEF TypeOK
<1> QED
  BY <1>2, Zenon DEF Inv

\* The third way: the bucket is split.
LEMMA SplitPuts ==
    ASSUME Inv, NEW key \in Key, NEW value \in Value, Split(key, value)
    PROVE  Puts(key, value)
<1> DEFINE b == BucketOf(key)
           s == Append(Records(b), <<key, value>>)
           C == Changed(key, s)
           T == bucket_address_table_
           g == global_depth_
<1>1. /\ Matches(Records(b), key) = {} /\ g > buckets[b].local_depth_
      /\ T' = Redirect(BucketId(key), b) /\ buckets' = Divide(b, s)
      /\ g' = g /\ num_buckets_' = num_buckets_ /\ inserting' = {}
  BY DEF Split, IsFull, Return
<1>2. /\ s \in Seq(Record) /\ Good(T, g, C)
      /\ Content(C) = Without(Content(buckets), key) \union {<<key, value>>}
  BY <1>1, AppendedRecord, Zenon
<1>3. b \in DOMAIN buckets /\ buckets \in Seq(Bucket) /\ g \in Nat /\ num_buckets_ = Shift[g]
  BY BucketOfKey, Zenon DEF Inv, TypeOK
<1> HIDE DEF s
<1>4. /\ C \in Seq(Bucket) /\ b \in DOMAIN C
      /\ C[b].local_depth_ = buckets[b].local_depth_ /\ buckets[b].local_depth_ \in Nat
  BY <1>2, <1>3, WithRecordsProperties, BucketFields, Zenon DEF Changed
<1>5. C[b].local_depth_ < g
  BY <1>1, <1>3, <1>4
<1>6. T' = Parted(T, g, C, b) /\ buckets' = Divided(C, b)
  BY <1>1, <1>2, RedirectIsParted, DivideIsDivided, Zenon
<1> HIDE DEF C, b
<1>7. Good(Parted(T, g, C, b), g, Divided(C, b))
  BY <1>2, <1>4, <1>5, DividingIsGood, Zenon
<1>8. Content(Divided(C, b)) = Content(C)
  BY <1>4, DividedContent, Zenon
<1>9. inserting' \subseteq Key \X Value
  BY <1>1
<1>10. Inv'
  BY <1>1, <1>3, <1>6, <1>7, <1>9, GoodInv, Zenon
<1> QED
  BY <1>2, <1>6, <1>8, <1>10, Zenon DEF Puts

\* The directory that Insert resizes and fills is the doubled one, with the full
\* bucket divided at the new bit.
LEMMA ExpandIsParted ==
    ASSUME Inv, NEW key \in Key, Expand(key)
    PROVE  bucket_address_table_' = Parted(Doubled(bucket_address_table_, global_depth_),
                                           global_depth_ + 1, buckets, BucketOf(key))
           /\ buckets[BucketOf(key)].local_depth_ = global_depth_
<1> DEFINE b == BucketOf(key)
           id == BucketId(key)
           T == bucket_address_table_
           g == global_depth_
           N == Shift[g]
           I == 0..(N - 1)
           I2 == 0..(2 * N - 1)
           d == buckets[b].local_depth_
           D == Doubled(T, g)
<1>1. /\ g \in Nat /\ buckets \in Seq(Bucket) /\ num_buckets_ = N
      /\ Right(T, g, buckets) /\ DOMAIN T = I
  BY DEF Inv, Good, TypeOK
<1>2. /\ g <= d
      /\ T' = [i \in I2 |-> IF i = N + id THEN Len(buckets) + 1 ELSE T[i % N]]
  BY <1>1, Zenon DEF Expand
<1>3. b \in DOMAIN buckets /\ b = T[id] /\ id \in I
  BY <1>1, BucketOfKey, SlotOfKey, Zenon DEF BucketOf, BucketId
<1>4. d \in Nat
  BY <1>1, <1>3, BucketFields, Zenon
<1>5. N \in Nat \ {0} /\ Shift[g + 1] = 2 * N
  BY <1>1, ShiftProperties
<1> HIDE DEF id, I, b, d
<1>6. d = g
  <2>1. d <= g
    BY <1>1, <1>3, Zenon DEF Right, d
  <2> QED
    BY <1>1, <1>2, <1>4, <2>1
<1>7. \A k \in I : k \in Nat /\ k % N = k
  <2> TAKE k \in I
  <2>1. k \in 0..(N - 1)
    BY Zenon DEF I
  <2> HIDE DEF N
  <2> QED
    BY <1>5, <2>1
<1>8. \A k \in I : T[k] = b <=> k = id
  <2> TAKE k \in I
  <2>1. T[id] = T[k] <=> id % Shift[d] = k % Shift[d]
    BY <1>1, <1>3, Zenon DEF Right, d
  <2> QED
    BY <1>3, <1>6, <1>7, <2>1, Zenon
<1>9. ASSUME NEW i \in I2
      PROVE  /\ i % N \in I /\ (i = N + id <=> i % N = id /\ Bit(i, g))
             /\ D[i] = T[i % N]
  <2>1. i \in Nat
    BY <1>5
  <2>2. i % N \in I
    BY <1>5, <2>1, Division, Zenon DEF I
  <2>3. i % Shift[g + 1] = IF Bit(i, g) THEN (i % N) + N ELSE i % N
    BY <1>1, <2>1, NextBit, Zenon
  <2>4. i % Shift[g + 1] = i
    <3> HIDE DEF N
    <3> QED
      BY <1>5
  <2>5. D[i] = T[i % N]
    BY <1>5, Zenon DEF Doubled
  <2>6. i = N + id => i % N = id
    <3>1. id \in 0..(N - 1) /\ 1 \in Nat
      BY <1>3, Zenon DEF I
    <3> HIDE DEF N
    <3>2. (N * 1 + id) % N = id
      BY <1>5, <3>1, Division, Zenon
    <3>3. N * 1 + id = N + id
      BY <1>5, <3>1
    <3> QED
      BY <3>2, <3>3, Zenon
  <2> DEFINE k == i % N
  <2>7. k \in Nat /\ k \in 0..(N - 1) /\ (i = IF Bit(i, g) THEN k + N ELSE k)
    BY <2>2, <2>3, <2>4, <1>7, Zenon DEF I
  <2>8. i = N + id <=> k = id /\ Bit(i, g)
    <3>1. i = N + id => k = id
      BY <2>6, Zenon
    <3> HIDE DEF k, N
    <3> QED
      BY <1>5, <2>1, <2>7, <3>1
  <2> QED
    BY <2>2, <2>5, <2>8, Zenon
<1>10. Parted(D, g + 1, buckets, b) =
           [i \in I2 |-> IF D[i] = b THEN IF Bit(i, g) THEN Len(buckets) + 1 ELSE b ELSE D[i]]
  BY <1>5, <1>6, Zenon DEF Parted, d
<1> HIDE DEF I2, N, D
<1>11. T' = Parted(D, g + 1, buckets, b)
  BY <1>2, <1>3, <1>8, <1>9, <1>10
<1> QED
  BY <1>6, <1>11 DEF b, D, d

\* The round that does not end: the directory doubles, and the contents stay.
LEMMA ExpandKeeps ==
    ASSUME Inv, NEW key \in Key, Expand(key)
    PROVE  Keeps
<1> DEFINE b == BucketOf(key)
           T == bucket_address_table_
           g == global_depth_
           s == Records(b)
<1>1. /\ buckets' = Divide(b, s) /\ g' = g + 1
      /\ num_buckets_' = 2 * num_buckets_ /\ inserting' = inserting
  BY Zenon DEF Expand
<1>2. /\ b \in DOMAIN buckets /\ buckets \in Seq(Bucket) /\ s \in Seq(Record)
      /\ g \in Nat /\ num_buckets_ = Shift[g] /\ inserting \subseteq Key \X Value
      /\ Good(T, g, buckets)
  BY BucketOfKey, Zenon DEF Inv, TypeOK
<1>3. Changed(key, s) = buckets
  <2>1. buckets[b] = [buckets[b] EXCEPT !.kv_records_ = s]
    <3>1. buckets[b] \in Bucket
      BY <1>2
    <3> QED
      BY <3>1 DEF Bucket, Records
  <2>2. Changed(key, s) = [buckets EXCEPT ![b] = [buckets[b] EXCEPT !.kv_records_ = s]]
    BY DEF Changed, WithRecords
  <2>3. [buckets EXCEPT ![b] = buckets[b]] = buckets
    <3> HIDE DEF b
    <3> QED
      BY <1>2
  <2> QED
    BY <2>1, <2>2, <2>3, Zenon
<1>4. buckets' = Divided(buckets, b)
  BY <1>1, <1>2, <1>3, DivideIsDivided, Zenon
<1>5. T' = Parted(Doubled(T, g), g + 1, buckets, b) /\ buckets[b].local_depth_ = g
  BY ExpandIsParted, Zenon
<1>6. buckets[b].local_depth_ < g + 1
  BY <1>2, <1>5
<1>7. Good(Doubled(T, g), g + 1, buckets)
  BY <1>2, DoublingIsGood, Zenon
<1> HIDE DEF b
<1>8. Good(Parted(Doubled(T, g), g + 1, buckets, b), g + 1, Divided(buckets, b))
  BY <1>2, <1>6, <1>7, DividingIsGood, Zenon
<1>9. Content(Divided(buckets, b)) = Content(buckets)
  BY <1>2, DividedContent, Zenon
<1>10. num_buckets_' = Shift[g + 1]
  BY <1>1, <1>2, ShiftProperties
<1>11. Inv'
  BY <1>1, <1>2, <1>4, <1>5, <1>8, <1>10, GoodInv, Zenon
<1> QED
  BY <1>4, <1>9, <1>11, Zenon DEF Keeps

\* A step that leaves the table alone.
LEMMA Unmoved ==
    ASSUME Inv, UNCHANGED <<directory, buckets>>, inserting' \subseteq Key \X Value
    PROVE  Keeps
<1>1. Good(bucket_address_table_, global_depth_, buckets)'
  BY Zenon DEF Inv, directory
<1>2. TypeOK'
  BY Zenon DEF Inv, TypeOK, directory
<1> QED
  BY <1>1, <1>2, Zenon DEF Inv, Keeps

\* The constructor makes a directory with one empty bucket.
LEMMA InitInv == Init => Inv
<1> SUFFICES ASSUME Init PROVE Inv
  OBVIOUS
<1> USE DEF Init
<1>1. Shift[0] = 1
  BY ShiftProperties
<1>2. buckets[1].kv_records_ = <<>> /\ buckets[1].local_depth_ = 0 /\ DOMAIN buckets = {1}
  OBVIOUS
<1>3. TypeOK
  <2>1. buckets \in Seq(Bucket)
    <3>1. [local_depth_ |-> 0, kv_records_ |-> <<>>] \in Bucket
      BY DEF Bucket
    <3> HIDE DEF Bucket
    <3> QED
      BY <3>1
  <2>2. bucket_address_table_ \in [0..0 -> DOMAIN buckets]
    BY <1>2
  <2> QED
    BY <1>1, <2>1, <2>2 DEF TypeOK
<1>4. DOMAIN bucket_address_table_ = {0} /\ bucket_address_table_[0] = 1
  OBVIOUS
<1>5. Right(bucket_address_table_, global_depth_, buckets)
  BY <1>2, <1>4 DEF Right
<1>6. InPlace(bucket_address_table_, global_depth_, buckets)
  <2>1. DOMAIN <<>> = {}
    OBVIOUS
  <2> QED
    BY <1>2, <2>1, Zenon DEF InPlace, Unique, Range
<1>7. Good(bucket_address_table_, global_depth_, buckets)
  <2>1. num_buckets_ = Shift[global_depth_]
    BY <1>1, Zenon
  <2> QED
    BY <1>3, <1>5, <1>6, <2>1, Zenon DEF Good, TypeOK
<1> QED
  BY <1>3, <1>7, Zenon DEF Inv

\* The next step is one of a call, and what it does to the contents.
StepResult ==
    \/ Keeps /\ UNCHANGED last
    \/ \E key \in Key, value \in Value :
           Puts(key, value) /\ last' = <<"Insert", key, value>>
    \/ \E key \in Key :
           /\ Matches(Records(BucketOf(key)), key) # {}
           /\ Drops(key) /\ last' = <<"Remove", key, "true">>
    \/ \E key \in Key :
           /\ Matches(Records(BucketOf(key)), key) = {}
           /\ Keeps /\ last' = <<"Remove", key, "false">>
    \/ \E key \in Key : Keeps /\ last' = <<"Find", key, FindIn(key)>>

\* Each step has one of these results.
LEMMA StepResults ==
    ASSUME Inv, [Next]_vars
    PROVE  StepResult
<1>1. inserting \subseteq Key \X Value
  BY Zenon DEF Inv, TypeOK
<1>2. CASE UNCHANGED vars
  BY <1>1, <1>2, Unmoved, Zenon DEF vars, StepResult
<1>3. ASSUME NEW key \in Key, NEW value \in Value, Insert(key, value)
      PROVE  StepResult
  <2>1. inserting' \subseteq Key \X Value
    BY <1>3 DEF Insert
  <2> QED
    BY <1>3, <2>1, Unmoved, Zenon DEF Insert, StepResult
<1>4. ASSUME NEW key \in Key, Remove(key)
      PROVE  StepResult
  <2>1. inserting' \subseteq Key \X Value
    BY <1>4 DEF Remove, Return
  <2>2. CASE Matches(Records(BucketOf(key)), key) # {}
    <3>1. last' = <<"Remove", key, "true">>
      BY <1>4, <2>2, Zenon DEF Remove, Return
    <3> QED
      BY <1>4, <2>2, <3>1, RemoveDrops, Zenon DEF StepResult
  <2>3. CASE Matches(Records(BucketOf(key)), key) = {}
    <3>1. last' = <<"Remove", key, "false">> /\ UNCHANGED <<directory, buckets>>
      BY <1>4, <2>3, Zenon DEF Remove, Return
    <3> QED
      BY <2>1, <2>3, <3>1, Unmoved, Zenon DEF StepResult
  <2> QED
    BY <2>2, <2>3
<1>5. ASSUME NEW key \in Key, Find(key)
      PROVE  StepResult
  <2>1. inserting' \subseteq Key \X Value
    BY <1>5 DEF Find, Return
  <2> QED
    BY <1>5, <2>1, Unmoved, Zenon DEF Find, Return, StepResult
<1>6. CASE Round
  <2>1. PICK call \in inserting :
            \/ Overwrite(call[1], call[2])
            \/ PushBack(call[1], call[2])
            \/ Split(call[1], call[2])
            \/ Expand(call[1])
    BY <1>6, Zenon DEF Round
  <2> DEFINE key == call[1]
             value == call[2]
  <2>2. key \in Key /\ value \in Value
    BY <1>1
  <2> HIDE DEF key, value
  <2>3. CASE Overwrite(key, value) \/ PushBack(key, value) \/ Split(key, value)
    <3>1. Puts(key, value)
      BY <2>2, <2>3, OverwritePuts, PushBackPuts, SplitPuts, Zenon
    <3>2. last' = <<"Insert", key, value>>
      BY <2>3, Zenon DEF Overwrite, PushBack, Split, Return
    <3> QED
      BY <2>2, <3>1, <3>2, Zenon DEF StepResult
  <2>4. CASE Expand(key)
    <3>1. UNCHANGED last
      BY <2>4, Zenon DEF Expand
    <3> QED
      BY <2>2, <2>4, <3>1, ExpandKeeps, Zenon DEF StepResult
  <2> QED
    BY <2>1, <2>3, <2>4, Zenon DEF key, value
<1> QED
  BY <1>2, <1>3, <1>4, <1>5, <1>6, Zenon DEF Next

(***************************************************************************)
(* The theorems.                                                           *)
(***************************************************************************)
\* Any number of inserts, splits, doublings and removes keeps the directory and
\* the records where they should be.
THEOREM TableIsRight == Spec => []Inv
<1>1. Inv /\ [Next]_vars => Inv'
  BY StepResults, Zenon DEF StepResult, Keeps, Puts, Drops
<1> QED
  BY InitInv, <1>1, PTL DEF Spec

\* The directory has 2^global_depth_ slots, each of which points to a bucket of
\* the right form.
THEOREM TypeCorrect == Spec => []TypeOK
<1>1. Inv => TypeOK
  BY Zenon DEF Inv
<1> QED
  BY <1>1, TableIsRight, PTL

\* Two slots share a bucket if and only if they agree in its local_depth_ lowest
\* bits: splits redirect every slot they have to, and doublings copy the rest.
THEOREM DirectoryStaysRight == Spec => []DirectoryIsRight
<1>1. Inv => DirectoryIsRight
  BY Zenon DEF Inv, Good, Right, DirectoryIsRight, Slots
<1> QED
  BY <1>1, TableIsRight, PTL

\* The values that the buckets hold are the map of their contents.
LEMMA ContentsOfTable == Contents = MapOf(Content(buckets))
<1>1. ASSUME NEW key \in Key PROVE Held(key) = RecordsOf(Content(buckets), key)
  <2>1. \A r : r \in Content(buckets) <=>
            \E b \in DOMAIN buckets : \E i \in DOMAIN Records(b) : r = Records(b)[i]
    BY DEF Content, Range, Records
  <2>2. \A r : r \in Held(key) <=>
            \E b \in DOMAIN buckets : \E i \in Matches(Records(b), key) : r = Records(b)[i]
    BY DEF Held
  <2>3. \A r : r \in Held(key) <=> r \in Content(buckets) /\ r[1] = key
    <3> TAKE r
    <3>1. ASSUME r \in Held(key) PROVE r \in Content(buckets) /\ r[1] = key
      <4>1. PICK b \in DOMAIN buckets : \E i \in Matches(Records(b), key) : r = Records(b)[i]
        BY <2>2, <3>1, Zenon
      <4>2. PICK i \in DOMAIN Records(b) : r = Records(b)[i] /\ Records(b)[i][1] = key
        BY <4>1, Zenon DEF Matches
      <4> QED
        BY <2>1, <4>2, Zenon
    <3>2. ASSUME r \in Content(buckets), r[1] = key PROVE r \in Held(key)
      <4>1. PICK b \in DOMAIN buckets : \E i \in DOMAIN Records(b) : r = Records(b)[i]
        BY <2>1, <3>2, Zenon
      <4>2. PICK i \in DOMAIN Records(b) : r = Records(b)[i]
        BY <4>1, Zenon
      <4>3. i \in Matches(Records(b), key)
        BY <3>2, <4>2 DEF Matches
      <4> QED
        BY <2>2, <4>2, <4>3, Zenon
    <3> QED
      BY <3>1, <3>2
  <2> QED
    BY <2>3 DEF RecordsOf
<1>2. ASSUME NEW key \in Key
      PROVE  (IF Held(key) = {} THEN None ELSE (CHOOSE r \in Held(key) : TRUE)[2])
                 = ValueOf(Content(buckets), key)
  <2>1. Held(key) = RecordsOf(Content(buckets), key)
    BY <1>1, Zenon
  <2> QED
    BY <2>1 DEF ValueOf
<1> QED
  BY <1>2, Zenon DEF Contents, MapOf

\* The same, after a step.
LEMMA ContentsOfTableNext == (Contents = MapOf(Content(buckets)))'
  BY ContentsOfTable, PTL

\* Every step of the table is a step of the map or changes nothing there: the
\* rounds that double the directory are not seen.
LEMMA NextInMap == Inv /\ [Next]_vars => [Map!MapNext]_(Map!mapVars)
<1> SUFFICES ASSUME Inv, [Next]_vars PROVE [Map!MapNext]_(Map!mapVars)
  OBVIOUS
<1> DEFINE C == Content(buckets)
<1>1. StepResult /\ Inv'
  BY StepResults, Zenon DEF StepResult, Keeps, Puts, Drops
<1>2. Contents = MapOf(C) /\ Contents' = MapOf(C')
  <2>1. Contents = MapOf(Content(buckets)) /\ Contents' = MapOf(Content(buckets))'
    BY ContentsOfTable, ContentsOfTableNext
  <2> QED
    BY <2>1, Zenon DEF MapOf, ValueOf, RecordsOf
<1>3. \A key \in Key : Contents[key] = ValueOf(C, key)
  BY <1>2, Zenon DEF MapOf
<1>4. CASE Keeps /\ UNCHANGED last
  BY <1>2, <1>4, Zenon DEF Keeps, Map!mapVars
<1>5. ASSUME NEW key \in Key, NEW value \in Value, Puts(key, value),
             last' = <<"Insert", key, value>>
      PROVE  Map!MapNext
  <2>1. Contents' = [Contents EXCEPT ![key] = value]
    <3>1. C' = Without(C, key) \union {<<key, value>>}
      BY <1>5, Zenon DEF Puts
    <3>2. MapOf(Without(C, key) \union {<<key, value>>}) = [MapOf(C) EXCEPT ![key] = value]
      <4> HIDE DEF C
      <4> QED
        BY MapWith, Zenon
    <3> QED
      BY <1>2, <3>1, <3>2
  <2> QED
    BY <1>5, <2>1, Zenon DEF Map!MapNext, Map!MapInsert
<1>6. ASSUME NEW key \in Key, Matches(Records(BucketOf(key)), key) # {}, Drops(key),
             last' = <<"Remove", key, "true">>
      PROVE  Map!MapNext
  <2>1. Contents' = [Contents EXCEPT ![key] = None]
    BY <1>2, <1>6, MapWithout DEF Drops
  <2>2. Contents[key] # None
    <3>1. ValueOf(C, key) \in Value
      BY <1>6, BucketOfKey, Zenon
    <3> QED
      BY <1>3, <3>1, HashAssumption, Zenon
  <2> QED
    BY <1>6, <2>1, <2>2, Zenon DEF Map!MapNext, Map!MapRemove, Map!None, None
<1>7. ASSUME NEW key \in Key, Matches(Records(BucketOf(key)), key) = {}, Keeps,
             last' = <<"Remove", key, "false">>
      PROVE  Map!MapNext
  <2>1. Contents[key] = None
    <3>1. ValueOf(C, key) = None
      BY <1>7, BucketOfKey, Zenon
    <3> QED
      BY <1>3, <3>1, Zenon
  <2>2. Contents' = Contents
    BY <1>2, <1>7, Zenon DEF Keeps
  <2>3. Contents = [Contents EXCEPT ![key] = None]
    BY <1>2, <2>1 DEF MapOf
  <2> QED
    BY <1>7, <2>1, <2>2, <2>3, Zenon DEF Map!MapNext, Map!MapRemove, Map!None, None
<1>8. ASSUME NEW key \in Key, Keeps, last' = <<"Find", key, FindIn(key)>>
      PROVE  Map!MapNext
  <2>1. FindIn(key) = Contents[key]
    BY <1>3, BucketOfKey, ZenonT(30) DEF FindIn
  <2>2. Contents' = Contents
    BY <1>2, <1>8, Zenon DEF Keeps
  <2> QED
    BY <1>8, <2>1, <2>2, Zenon DEF Map!MapNext, Map!MapFind
<1> QED
  BY <1>1, <1>4, <1>5, <1>6, <1>7, <1>8, Zenon DEF StepResult

\* The hash table of any bucket size implements the map of its interface.
THEOREM TableIsAMap == Spec => ImplementsHashTable
<1>1. Init => Map!MapInit
  <2> SUFFICES ASSUME Init PROVE Map!MapInit
    OBVIOUS
  <2>1. \A key \in Key : Held(key) = {}
    <3>1. DOMAIN buckets = {1} /\ Records(1) = <<>> /\ DOMAIN <<>> = {}
      BY DEF Init, Records
    <3> QED
      BY <3>1, Zenon DEF Held, Matches
  <2>2. Contents = [key \in Key |-> None]
    BY <2>1 DEF Contents
  <2>3. last = <<>>
    BY Zenon DEF Init
  <2> QED
    BY <2>2, <2>3, Zenon DEF Map!MapInit, Map!None, None
<1> QED
  BY <1>1, NextInMap, TableIsRight, PTL DEF Spec, ImplementsHashTable, Map!MapSpec
=============================================================================
