--------------------------- MODULE SequenceLemmas ---------------------------
(***************************************************************************)
(* Facts about sequences, about extrema of sets of numbers and about       *)
(* recursive functions that the proofs of several components use. An       *)
(* induction over the naturals is a least counterexample: MinProperties on *)
(* the set of the numbers where the claim fails.                           *)
(***************************************************************************)
EXTENDS Lists, WellFoundedInduction, TLAPS

\* What is left of a sequence without its i-th element (list::erase and the
\* remove_if at the end of Unlock).
LEMMA RemoveAtProperties ==
    ASSUME NEW S, NEW s \in Seq(S), NEW i \in 1..Len(s)
    PROVE  /\ RemoveAt(s, i) \in Seq(S)
           /\ Len(RemoveAt(s, i)) = Len(s) - 1
           /\ \A k \in 1..(Len(s) - 1) : k < i => RemoveAt(s, i)[k] = s[k]
           /\ \A k \in 1..(Len(s) - 1) : k >= i => RemoveAt(s, i)[k] = s[k + 1]
<1> DEFINE a == SubSeq(s, 1, i - 1)
           b == SubSeq(s, i + 1, Len(s))
<1>1. a \in Seq(S) /\ Len(a) = i - 1 /\ \A k \in 1..(i - 1) : a[k] = s[k]
  OBVIOUS
<1>2. b \in Seq(S) /\ Len(b) = Len(s) - i /\ \A k \in 1..(Len(s) - i) : b[k] = s[i + k]
  OBVIOUS
<1>3. RemoveAt(s, i) = a \o b
  BY DEF RemoveAt
<1> HIDE DEF a, b
<1>4. /\ a \o b \in Seq(S)
      /\ Len(a \o b) = Len(a) + Len(b)
      /\ \A k \in 1..(Len(a) + Len(b)) :
            (a \o b)[k] = IF k <= Len(a) THEN a[k] ELSE b[k - Len(a)]
  <2>1. a \in Seq(S) /\ b \in Seq(S)
    BY <1>1, <1>2
  <2>2. a \o b \in Seq(S) /\ Len(a \o b) = Len(a) + Len(b)
    BY <2>1
  <2>3. ASSUME NEW k \in 1..(Len(a) + Len(b))
        PROVE  (a \o b)[k] = IF k <= Len(a) THEN a[k] ELSE b[k - Len(a)]
    BY <2>1, <2>3
  <2> QED
    BY <2>2, <2>3
<1>5. Len(s) \in Nat /\ Len(a) + Len(b) = Len(s) - 1
  BY <1>1, <1>2
<1>6. ASSUME NEW k \in 1..(Len(s) - 1), k < i
      PROVE  (a \o b)[k] = s[k]
  BY <1>1, <1>4, <1>5, <1>6
<1>7. ASSUME NEW k \in 1..(Len(s) - 1), k >= i
      PROVE  (a \o b)[k] = s[k + 1]
  <2>1. (a \o b)[k] = b[k - (i - 1)]
    BY <1>1, <1>4, <1>5, <1>7
  <2>2. k - (i - 1) \in 1..(Len(s) - i) /\ i + (k - (i - 1)) = k + 1
    BY <1>5, <1>7
  <2> QED
    BY <2>1, <2>2, <1>2, Zenon
<1> QED
  BY <1>3, <1>4, <1>5, <1>6, <1>7

\* A nonempty set of naturals has a least element, and Min is it.
LEMMA MinProperties ==
    ASSUME NEW T \in SUBSET Nat, T # {}
    PROVE  Min(T) \in T /\ \A y \in T : Min(T) <= y
<1> DEFINE R == OpToRel(<, Nat)
<1>1. IsWellFoundedOn(R, Nat)
  BY NatLessThanWellFounded, Zenon
<1>2. \A x, y \in Nat : <<y, x>> \in R <=> y < x
  BY DEF OpToRel
<1> HIDE DEF R
<1>3. \E x \in T : \A y \in T : ~(<<y, x>> \in R)
  BY <1>1, WFMin, Zenon
<1>4. PICK x \in T : \A y \in T : ~(<<y, x>> \in R)
  BY <1>3
<1>5. \A y \in T : x <= y
  <2> TAKE y \in T
  <2>1. x \in Nat /\ y \in Nat /\ ~(<<y, x>> \in R)
    BY <1>4
  <2>2. ~(y < x)
    BY <1>2, <2>1
  <2> QED
    BY <2>1, <2>2
<1> QED
  BY <1>5, Zenon DEF Min

\* A nonempty set of integers with a lower and an upper bound has a greatest
\* element, and Max is it.
LEMMA MaxProperties ==
    ASSUME NEW m \in Int, NEW n \in Int, NEW T \in SUBSET (m..n), T # {}
    PROVE  Max(T) \in T /\ \A y \in T : Max(T) >= y
<1> DEFINE D == {n - x : x \in T}
<1>1. D \in SUBSET Nat /\ D # {}
  <2>1. \A x \in T : x \in Int /\ n - x \in Nat
    OBVIOUS
  <2>2. \E x \in T : TRUE
    BY Zenon
  <2> QED
    BY <2>1, <2>2, Zenon
<1>2. Min(D) \in D /\ \A y \in D : Min(D) <= y
  BY <1>1, MinProperties, Zenon
<1>3. PICK x \in T : Min(D) = n - x
  BY <1>2, Zenon
<1>4. \A y \in T : n - x <= n - y
  BY <1>2, <1>3, Zenon
<1>5. \E z \in T : \A y \in T : z >= y
  <2>1. \A y \in T : x >= y
    BY <1>4
  <2> QED
    BY <2>1
<1> QED
  BY <1>5, Zenon DEF Max

\* f is defined by recursion: a is its value at 0, and G gives the value at n from
\* n and the value at n - 1.
Recursive(f, S, a, G) ==
    f \in [Nat -> S] /\ f[0] = a /\ \A n \in Nat \ {0} : f[n] = G[<<n, f[n - 1]>>]

\* There is a function for every such definition (1 << n, and the loops that
\* build a vector record by record).
LEMMA RecursionOnNat ==
    ASSUME NEW S, NEW a \in S, NEW G \in [(Nat \X S) -> S]
    PROVE  \E f : Recursive(f, S, a, G)
<1> DEFINE Is(f, n) == /\ f \in [0..n -> S] /\ f[0] = a
                       /\ \A m \in 1..n : f[m] = G[<<m, f[m - 1]>>]
<1>1. \A n, m \in Nat : \A f, g :
          Is(f, n) /\ Is(g, m) => \A k \in Nat : k <= n /\ k <= m => f[k] = g[k]
  <2> TAKE n, m \in Nat
  <2> TAKE f, g
  <2> HAVE Is(f, n) /\ Is(g, m)
  <2> DEFINE T == {k \in Nat : k <= n /\ k <= m /\ f[k] # g[k]}
  <2> SUFFICES ASSUME T # {} PROVE FALSE
    BY Zenon
  <2>1. Min(T) \in T /\ \A y \in T : Min(T) <= y
    BY MinProperties, Zenon
  <2>2. PICK k \in Nat : k <= n /\ k <= m /\ f[k] # g[k] /\ \A y \in T : k <= y
    BY <2>1, Zenon
  <2>3. k # 0
    BY <2>2, Zenon
  <2>4. k - 1 \in Nat /\ k - 1 <= n /\ k - 1 <= m /\ ~(k <= k - 1) /\ k \in 1..n /\ k \in 1..m
    BY <2>2, <2>3
  <2>5. f[k - 1] = g[k - 1]
    BY <2>2, <2>4, Zenon
  <2> QED
    BY <2>2, <2>4, <2>5, Zenon
<1>2. \A n \in Nat : \E f : Is(f, n)
  <2> DEFINE T == {n \in Nat : ~ \E f : Is(f, n)}
  <2> SUFFICES ASSUME T # {} PROVE FALSE
    BY Zenon
  <2>1. Min(T) \in T /\ \A y \in T : Min(T) <= y
    BY MinProperties, Zenon
  <2>2. PICK k \in Nat : (~ \E f : Is(f, k)) /\ \A y \in T : k <= y
    BY <2>1, Zenon
  <2>3. CASE k = 0
    <3>1. Is([m \in 0..0 |-> a], 0)
      OBVIOUS
    <3> QED
      BY <2>2, <2>3, <3>1, Zenon
  <2>4. CASE k # 0
    <3>1. k - 1 \in Nat /\ ~(k <= k - 1)
      BY <2>4
    <3>2. PICK f : Is(f, k - 1)
      BY <2>2, <3>1, Zenon
    <3> DEFINE g == [m \in 0..k |-> IF m = k THEN G[<<k, f[k - 1]>>] ELSE f[m]]
    <3>3. f[k - 1] \in S /\ <<k, f[k - 1]>> \in Nat \X S
      BY <2>4, <3>1, <3>2
    <3>4. G[<<k, f[k - 1]>>] \in S
      BY <3>3
    <3>5. g \in [0..k -> S] /\ g[0] = a
      BY <2>4, <3>1, <3>2, <3>4
    <3>6. ASSUME NEW m \in 1..k PROVE g[m] = G[<<m, g[m - 1]>>]
      <4>1. CASE m = k
        BY <4>1, <2>4
      <4>2. CASE m # k
        <5>1. m \in 1..(k - 1) /\ m - 1 \in 0..k /\ m - 1 # k /\ m \in 0..k
          BY <4>2, <3>6
        <5> QED
          BY <5>1, <4>2, <3>2, Zenon
      <4> QED
        BY <4>1, <4>2
    <3>7. Is(g, k)
      BY <3>5, <3>6, Zenon
    <3> QED
      BY <2>2, <3>7, Zenon
  <2> QED
    BY <2>3, <2>4
<1> DEFINE F(n) == CHOOSE f : Is(f, n)
           h == [n \in Nat |-> F(n)[n]]
<1>3. \A n \in Nat : Is(F(n), n)
  BY <1>2, Zenon
<1>4. \A n \in Nat : F(n) \in [0..n -> S]
  BY <1>3, Zenon
<1> HIDE DEF F
<1>5. h \in [Nat -> S]
  BY <1>4
<1>6. h[0] = a
  BY <1>3
<1>7. ASSUME NEW n \in Nat \ {0} PROVE h[n] = G[<<n, h[n - 1]>>]
  <2>1. n \in Nat /\ n - 1 \in Nat /\ n - 1 <= n /\ n - 1 <= n - 1 /\ n \in 1..n
    OBVIOUS
  <2>2. F(n)[n - 1] = F(n - 1)[n - 1]
    <3>1. Is(F(n), n) /\ Is(F(n - 1), n - 1)
      BY <1>3, <2>1, Zenon
    <3> HIDE DEF Is
    <3> QED
      BY <1>1, <2>1, <3>1
  <2> QED
    BY <1>3, <2>1, <2>2, Zenon
<1> QED
  BY <1>5, <1>6, <1>7, Zenon DEF Recursive
=============================================================================
