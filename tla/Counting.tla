------------------------------ MODULE Counting ------------------------------
(***************************************************************************)
(* Facts about numbers and finite sets that are proved by induction.  The  *)
(* induction is a least counterexample: a set of natural numbers that is   *)
(* not empty has a least element, because < is well-founded.               *)
(***************************************************************************)
EXTENDS Integers, FiniteSets, FiniteSetsExt, FiniteSetTheorems, WellFoundedInduction, TLAPS

\* A nonempty set of naturals has a least element.
LEMMA LeastNumber ==
  ASSUME NEW T, T \subseteq Nat, T # {}
  PROVE  \E m \in T : \A n \in T : m <= n
  <1>1. PICK m \in T : \A n \in T : <<n, m>> \notin OpToRel(<, Nat)
    BY NatLessThanWellFounded, WFMin
  <1>2. \A n \in T : ~(n < m)
    BY <1>1, Zenon DEF OpToRel
  <1> QED BY <1>2

-----------------------------------------------------------------------------
(* Sums *)

\* The sum of f over S, and its recursion: an element, and the rest.
Total(f, S) == MapThenSumSet(LAMBDA x : f[x], S)
Pick(s) == CHOOSE x \in s : TRUE
Adds(f, A, g) ==
  g = [s \in A |-> IF s = {} THEN 0 ELSE f[Pick(s)] + g[s \ {Pick(s)}]]

\* The definitions of the library, written out.
LEMMA TotalIs ==
  ASSUME NEW S, NEW f
  PROVE  Total(f, S) = (CHOOSE h : Adds(f, SUBSET S, h))[S]
  BY DEF Total, MapThenSumSet, MapThenFoldSet, Adds, Pick

\* The recursion has a solution: take the fewest elements for which it had none.
LEMMA SumsExist ==
  ASSUME NEW S, IsFiniteSet(S), NEW f
  PROVE  \E g : Adds(f, SUBSET S, g)
  <1> DEFINE A(n) == {s \in SUBSET S : Cardinality(s) < n}
             Bad == {n \in Nat : ~ \E g : Adds(f, A(n), g)}
  <1>1. \A s \in SUBSET S : IsFiniteSet(s) /\ Cardinality(s) \in Nat /\ Cardinality(s) <= Cardinality(S)
    BY FS_Subset, FS_CardinalityType
  <1>2. Bad = {}
    <2> SUFFICES ASSUME Bad # {} PROVE FALSE
      OBVIOUS
    <2>1. PICK n \in Bad : \A m \in Bad : n <= m
      <3> HIDE DEF Bad
      <3>1. Bad \subseteq Nat
        BY DEF Bad
      <3> QED BY <3>1, LeastNumber
    <2>2. n \in Nat /\ ~ \E g : Adds(f, A(n), g)
      OBVIOUS
    <2>3. CASE n = 0
      <3>1. A(n) = {}
        BY <1>1, <2>3
      <3> DEFINE g == [s \in {} |-> 0]
      <3>2. Adds(f, {}, g)
        BY DEF Adds
      <3> QED BY <2>2, <3>1, <3>2
    <2>4. CASE n # 0
      <3>1. n - 1 \in Nat /\ n - 1 \notin Bad
        <4>1. n - 1 \in Nat /\ ~(n <= n - 1)
          BY <2>2, <2>4
        <4> HIDE DEF Bad
        <4> QED BY <2>1, <4>1
      <3>2. PICK h : Adds(f, A(n - 1), h)
        BY <3>1
      <3> DEFINE e(s, k) == IF s = {} THEN 0 ELSE f[Pick(s)] + k[s \ {Pick(s)}]
                 g == [s \in A(n) |-> IF s \in A(n - 1) THEN h[s] ELSE e(s, h)]
      <3>3. ASSUME NEW s \in A(n) PROVE s # {} => s \ {Pick(s)} \in A(n - 1)
        <4>1. s # {} => Pick(s) \in s
          BY DEF Pick
        <4>2. s # {} => Cardinality(s \ {Pick(s)}) = Cardinality(s) - 1
          BY <1>1, <4>1, FS_RemoveElement
        <4> QED BY <1>1, <2>2, <4>2
      <3>4. A(n - 1) \subseteq A(n)
        BY <1>1, <2>2
      <3>5. ASSUME NEW s \in A(n) PROVE g[s] = e(s, g)
        <4>1. s # {} => g[s \ {Pick(s)}] = h[s \ {Pick(s)}]
          BY <3>3, <3>4
        <4>2. s \in A(n - 1) => h[s] = e(s, h)
          BY <3>2 DEF Adds
        <4> QED BY <4>1, <4>2
      <3>6. Adds(f, A(n), g)
        BY <3>5 DEF Adds
      <3> QED BY <2>2, <3>6
    <2> QED BY <2>3, <2>4
  <1>3. Cardinality(S) + 1 \in Nat /\ A(Cardinality(S) + 1) = SUBSET S
    BY <1>1
  <1> QED BY <1>2, <1>3

\* The sum over a finite set is an integer; where one value changes, so does the sum.
LEMMA TotalChange ==
  ASSUME NEW S, IsFiniteSet(S), NEW f \in [S -> Int], NEW g \in [S -> Int], NEW a,
         \A x \in S : x # a => g[x] = f[x]
  PROVE  /\ Total(f, S) \in Int
         /\ Total(g, S) = Total(f, S) + (IF a \in S THEN g[a] - f[a] ELSE 0)
  <1> DEFINE D(s) == IF a \in s THEN g[a] - f[a] ELSE 0
             h == CHOOSE e : Adds(f, SUBSET S, e)
             k == CHOOSE e : Adds(g, SUBSET S, e)
             Good(s) == h[s] \in Int /\ k[s] = h[s] + D(s)
             Bad == {n \in Nat : \E s \in SUBSET S : Cardinality(s) = n /\ ~Good(s)}
  <1>1. \A s \in SUBSET S : IsFiniteSet(s) /\ Cardinality(s) \in Nat
    BY FS_Subset, FS_CardinalityType
  <1>2. Adds(f, SUBSET S, h) /\ Adds(g, SUBSET S, k)
    BY SumsExist
  <1>3. \A s \in SUBSET S : /\ h[s] = IF s = {} THEN 0 ELSE f[Pick(s)] + h[s \ {Pick(s)}]
                            /\ k[s] = IF s = {} THEN 0 ELSE g[Pick(s)] + k[s \ {Pick(s)}]
    BY <1>2 DEF Adds
  <1> HIDE DEF h, k
  <1>4. Bad = {}
    <2> SUFFICES ASSUME Bad # {} PROVE FALSE
      OBVIOUS
    <2>1. PICK n \in Bad : \A m \in Bad : n <= m
      <3> HIDE DEF Bad
      <3>1. Bad \subseteq Nat
        BY DEF Bad
      <3> QED BY <3>1, LeastNumber
    <2>2. PICK s \in SUBSET S : Cardinality(s) = n /\ ~Good(s)
      OBVIOUS
    <2>3. CASE s = {}
      <3>1. h[s] = 0 /\ k[s] = 0
        BY <1>3, <2>3
      <3>2. D(s) = 0
        BY <2>3
      <3> HIDE DEF D
      <3> QED BY <2>2, <3>1, <3>2
    <2>4. CASE s # {}
      <3> DEFINE p == Pick(s)
                 r == s \ {p}
      <3>1. p \in s
        BY <2>4 DEF Pick
      <3>2. Cardinality(r) = n - 1 /\ r \in SUBSET S /\ n \in Nat /\ Cardinality(r) \in Nat
        BY <1>1, <2>2, <3>1, FS_RemoveElement
      <3>3. Good(r)
        <4>1. ~(n <= Cardinality(r))
          BY <3>2
        <4>2. Cardinality(r) \notin Bad
          <5> HIDE DEF Bad, r
          <5> QED BY <2>1, <4>1
        <4> QED BY <3>2, <4>2
      <3>4. h[s] = f[p] + h[r] /\ k[s] = g[p] + k[r]
        BY <1>3, <2>2, <2>4
      <3>5. f[p] \in Int /\ g[p] \in Int /\ (p # a => g[p] = f[p])
        BY <3>1
      <3>6. CASE p = a
        <4>1. D(r) = 0 /\ D(s) = g[p] - f[p]
          BY <3>1, <3>6
        <4> QED BY <2>2, <3>3, <3>4, <3>5, <4>1
      <3>7. CASE p # a
        <4>1. D(r) = D(s) /\ D(s) \in Int
          <5>1. a \in s => g[a] \in Int /\ f[a] \in Int
            OBVIOUS
          <5> QED BY <3>7, <5>1
        <4> HIDE DEF D
        <4> QED BY <2>2, <3>3, <3>4, <3>5, <3>7, <4>1
      <3> QED BY <3>6, <3>7
    <2> QED BY <2>3, <2>4
  <1>5. Good(S)
    BY <1>1, <1>4
  <1> QED BY <1>5, TotalIs DEF h, k

\* A sum of zeros.
LEMMA TotalOfZeros ==
  ASSUME NEW S, IsFiniteSet(S), NEW f, \A x \in S : f[x] = 0
  PROVE  Total(f, S) = 0
  <1> DEFINE h == CHOOSE e : Adds(f, SUBSET S, e)
             Bad == {n \in Nat : \E s \in SUBSET S : Cardinality(s) = n /\ h[s] # 0}
  <1>1. \A s \in SUBSET S : IsFiniteSet(s) /\ Cardinality(s) \in Nat
    BY FS_Subset, FS_CardinalityType
  <1>2. Adds(f, SUBSET S, h)
    BY SumsExist
  <1>3. \A s \in SUBSET S : h[s] = IF s = {} THEN 0 ELSE f[Pick(s)] + h[s \ {Pick(s)}]
    BY <1>2 DEF Adds
  <1> HIDE DEF h
  <1>4. Bad = {}
    <2> SUFFICES ASSUME Bad # {} PROVE FALSE
      OBVIOUS
    <2>1. PICK n \in Bad : \A m \in Bad : n <= m
      <3> HIDE DEF Bad
      <3>1. Bad \subseteq Nat
        BY DEF Bad
      <3> QED BY <3>1, LeastNumber
    <2>2. PICK s \in SUBSET S : Cardinality(s) = n /\ h[s] # 0
      OBVIOUS
    <2> DEFINE p == Pick(s)
               r == s \ {p}
    <2>3. s # {} /\ p \in s
      BY <1>3, <2>2 DEF Pick
    <2>4. Cardinality(r) = n - 1 /\ r \in SUBSET S /\ n \in Nat /\ Cardinality(r) \in Nat
      BY <1>1, <2>2, <2>3, FS_RemoveElement
    <2>5. h[r] = 0
      <3>1. ~(n <= Cardinality(r))
        BY <2>4
      <3>2. Cardinality(r) \notin Bad
        <4> HIDE DEF Bad, r
        <4> QED BY <2>1, <3>1
      <3> QED BY <2>4, <3>2
    <2>6. h[s] = f[p] + h[r] /\ f[p] = 0
      BY <1>3, <2>2, <2>3
    <2> QED BY <2>2, <2>5, <2>6
  <1> QED BY <1>1, <1>4, TotalIs DEF h

-----------------------------------------------------------------------------
(* Ranks *)

\* How many numbers of a set come before k.
Rank(M, k) == Cardinality({j \in M : j < k})

\* Counting up from the least, a set of numbers has an element of each rank.
LEMMA RankExists ==
  ASSUME NEW N \in Nat, NEW M, \A j \in M : j \in 1 .. N, NEW n \in Nat, n < Cardinality(M)
  PROVE  \E k \in M : Rank(M, k) = n
  <1> DEFINE Below(m) == {j \in M : j < m}
             T == {m \in Nat : n < Cardinality(Below(m))}
  <1>0. \A j \in M : j \in Nat /\ 0 < j /\ j < N + 1
    OBVIOUS
  <1>1. IsFiniteSet(M)
    <2>1. IsFiniteSet(1 .. N) /\ M \subseteq 1 .. N
      BY FS_Interval
    <2> QED BY <2>1, FS_Subset
  <1>2. \A m : IsFiniteSet(Below(m)) /\ Cardinality(Below(m)) \in Nat
    BY <1>1, FS_Subset, FS_CardinalityType
  <1>3. Below(N + 1) = M
    BY <1>0
  <1>4. N + 1 \in T /\ T \subseteq Nat
    <2>1. n < Cardinality(Below(N + 1)) /\ N + 1 \in Nat
      BY <1>3
    <2> HIDE DEF Below
    <2> QED BY <2>1
  <1> HIDE DEF T
  <1>5. PICK m \in T : \A o \in T : m <= o
    BY <1>4, LeastNumber
  <1>6. m # 0
    <2>1. Below(0) = {}
      BY <1>0
    <2> QED BY <2>1, FS_EmptySet DEF T
  <1>7. m \in Nat /\ m - 1 \in Nat /\ ~(n < Cardinality(Below(m - 1)))
    <2>1. m \in Nat /\ m - 1 \in Nat /\ ~(m <= m - 1)
      BY <1>4, <1>6
    <2> QED BY <1>4, <1>5, <2>1 DEF T
  <1>8. CASE m - 1 \notin M
    <2>1. Below(m) = Below(m - 1)
      BY <1>0, <1>7, <1>8
    <2>2. n < Cardinality(Below(m))
      BY DEF T
    <2> HIDE DEF Below
    <2> QED BY <1>7, <2>1, <2>2
  <1>9. CASE m - 1 \in M
    <2>1. Below(m) = Below(m - 1) \cup {m - 1} /\ m - 1 \notin Below(m - 1)
      BY <1>0, <1>7, <1>9
    <2>2. Cardinality(Below(m)) = Cardinality(Below(m - 1)) + 1
      <3> HIDE DEF Below
      <3> QED BY <1>2, <2>1, FS_AddElement
    <2>3. Cardinality(Below(m - 1)) = n
      <3>1. n < Cardinality(Below(m))
        BY DEF T
      <3> HIDE DEF Below
      <3> QED BY <1>2, <1>7, <2>2, <3>1
    <2> QED BY <1>9, <2>3 DEF Rank
  <1> QED BY <1>8, <1>9

\* The rows of the pages before a page divide into those pages.
LEMMA PageStart ==
  ASSUME NEW q \in Nat, NEW P \in Nat \ {0}
  PROVE  (q * P) \div P = q
  OBVIOUS

\* A page that there is begins before the rows end.
LEMMA PageBegins ==
  ASSUME NEW L \in Nat, NEW P \in Nat \ {0}, NEW p \in Nat, p <= (L + P - 1) \div P
  PROVE  (p - 1) * P < L
  OBVIOUS
=============================================================================
