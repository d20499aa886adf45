----------------------- MODULE GatherDelivery_proofs -----------------------
(***************************************************************************)
(* The gather refuses nothing of its own chain, hands out whole requests   *)
(* only, and frees no row anybody still has to read: for any number of     *)
(* workers, requests, layers and rows, whatever the sizes of batches, rows *)
(* and holes, and with workers that die.                                   *)
(***************************************************************************)
EXTENDS GatherDelivery, FiniteSetTheorems, SequenceTheorems, TLAPS

-----------------------------------------------------------------------------
(* Numbers. *)

\* The order of the naturals is well-founded, as a fact about one set.
LEMMA Least ==
  ASSUME NEW T, T \subseteq Nat, T # {}
  PROVE  \E x \in T : \A y \in T : x <= y
<1> DEFINE R == OpToRel(<, Nat)
<1>1. IsWellFoundedOn(R, Nat)
  BY NatLessThanWellFounded, Zenon
<1>2. \A x, y \in Nat : y < x => <<y, x>> \in R
  <2> SUFFICES ASSUME NEW x \in Nat, NEW y \in Nat, y < x PROVE <<y, x>> \in R
    OBVIOUS
  <2>1. R = {ss \in Nat \X Nat : ss[1] < ss[2]}
    BY Zenon DEF OpToRel
  <2> QED BY <2>1
<1> HIDE DEF R
<1>3. \E x \in T : \A y \in T : ~(<<y, x>> \in R)
  BY <1>1, WFMin, Zenon
<1>4. PICK x \in T : \A y \in T : ~(<<y, x>> \in R)
  BY <1>3
<1>5. \A y \in T : ~(y < x)
  BY <1>2, <1>4
<1> QED BY <1>5

LEMMA MinIs ==
  ASSUME NEW T, T \subseteq Nat, T # {}
  PROVE  Min(T) \in T /\ \A y \in T : Min(T) <= y
<1>1. \E x \in T : \A y \in T : x <= y
  BY Least
<1> QED BY <1>1 DEF Min

LEMMA MaxIs ==
  ASSUME NEW T, T \subseteq Nat, T # {}, NEW b \in Nat, \A y \in T : y <= b
  PROVE  Max(T) \in T /\ \A y \in T : y <= Max(T)
<1> DEFINE U == { n \in Nat : b - n \in T }
<1>1. U # {}
  <2>1. PICK y \in T : TRUE
    OBVIOUS
  <2>2. b - y \in Nat /\ b - (b - y) = y
    OBVIOUS
  <2> QED BY <2>1, <2>2
<1>2. PICK n \in U : \A m \in U : n <= m
  BY <1>1, Least
<1>3. \A y \in T : y <= b - n
  <2> SUFFICES ASSUME NEW y \in T PROVE y <= b - n
    OBVIOUS
  <2>1. b - y \in Nat /\ b - (b - y) = y
    OBVIOUS
  <2>2. n <= b - y
    BY <1>2, <2>1
  <2> QED BY <1>2, <2>2
<1>4. \E x \in T : \A y \in T : x >= y
  BY <1>2, <1>3
<1>5. Max(T) \in T /\ \A y \in T : Max(T) >= y
  BY <1>4 DEF Max
<1> QED BY <1>5

LEMMA Quotient ==
  ASSUME NEW m \in Nat \ {0}, NEW n \in Nat
  PROVE  /\ n % m \in 0 .. m - 1 /\ n \div m \in Nat
         /\ n = m * (n \div m) + (n % m)
OBVIOUS

LEMMA MultipleAtLeast ==
  ASSUME NEW m \in Nat \ {0}, NEW k \in Int, k >= 1
  PROVE  m * k >= m
OBVIOUS

LEMMA MultipleOrder ==
  ASSUME NEW m \in Nat, NEW a \in Nat, NEW b \in Nat, a <= b
  PROVE  m * a <= m * b
OBVIOUS

\* Two multiples of m are equal or at least m apart.
LEMMA MultiplesApart ==
  ASSUME NEW m \in Nat \ {0}, NEW a \in Nat, NEW b \in Nat, a % m = 0, b % m = 0, a < b
  PROVE  a + m <= b
<1> DEFINE p == a \div m
           q == b \div m
<1>1. p \in Nat /\ q \in Nat /\ a = m * p /\ b = m * q
  BY Quotient
<1> HIDE DEF p, q
<1>2. m * (q - p) = b - a
  BY <1>1
<1>3. CASE q - p >= 1
  BY <1>1, <1>2, <1>3, MultipleAtLeast
<1>4. CASE q <= p
  BY <1>1, <1>4, MultipleOrder
<1> QED BY <1>1, <1>3, <1>4

\* The chunk of a number: the last multiple of m that is not behind it.
LEMMA ChunkOf ==
  ASSUME NEW m \in Nat \ {0}, NEW n \in Nat
  PROVE  \E k \in 0 .. n : k % m = 0 /\ n <= k + m - 1
<1> DEFINE q == n \div m
           s == n % m
           k == m * q
           t == k % m
           p == k \div m
<1>1. q \in Nat /\ s \in 0 .. m - 1 /\ n = m * q + s
  BY Quotient
<1>2. k \in Nat /\ k <= n /\ n <= k + m - 1
  BY <1>1
<1>3. t \in 0 .. m - 1 /\ p \in Nat /\ k = m * p + t
  BY <1>2, Quotient
<1>4. t = 0
  <2> HIDE DEF t, p, q
  <2>1. m * (q - p) = t
    BY <1>1, <1>3
  <2>2. CASE q - p >= 1
    BY <1>1, <1>3, <2>1, <2>2, MultipleAtLeast
  <2>3. CASE p - q >= 1
    <3>1. m * (p - q) = 0 - t
      BY <1>1, <1>3
    <3> QED BY <1>1, <1>3, <2>3, <3>1, MultipleAtLeast
  <2>4. CASE p = q
    BY <1>1, <1>3, <2>1, <2>4
  <2> QED BY <1>1, <1>3, <2>2, <2>3, <2>4
<1> QED BY <1>2, <1>4

-----------------------------------------------------------------------------
(* Finite sets of rows, ascending. *)

LEMMA RankRange ==
  ASSUME NEW S \in SUBSET Nat, IsFiniteSet(S), NEW i \in S
  PROVE  /\ Cardinality({ j \in S : j < i }) \in 0 .. Cardinality(S) - 1
         /\ IsFiniteSet({ j \in S : j < i })
<1>1. IsFiniteSet(S \ {i}) /\ Cardinality(S \ {i}) = Cardinality(S) - 1
  BY FS_RemoveElement
<1>2. { j \in S : j < i } \in SUBSET (S \ {i})
  OBVIOUS
<1>3. /\ IsFiniteSet({ j \in S : j < i })
      /\ Cardinality({ j \in S : j < i }) <= Cardinality(S \ {i})
  BY <1>1, <1>2, FS_Subset
<1>4. Cardinality({ j \in S : j < i }) \in Nat /\ Cardinality(S) \in Nat
  BY <1>3, FS_CardinalityType
<1> QED BY <1>1, <1>3, <1>4

LEMMA RankGrows ==
  ASSUME NEW S \in SUBSET Nat, IsFiniteSet(S), NEW i \in S, NEW k \in S, i < k
  PROVE  Cardinality({ j \in S : j < i }) < Cardinality({ j \in S : j < k })
<1> DEFINE A == { j \in S : j < i }
           B == { j \in S : j < k }
<1>1. IsFiniteSet(A) /\ IsFiniteSet(B)
  BY RankRange
<1>2. Cardinality(A \cup {i}) = Cardinality(A) + 1
  <2>1. i \in Nat /\ ~(i < i)
    OBVIOUS
  <2>2. i \notin A
    BY <2>1
  <2> HIDE DEF A
  <2> QED BY <1>1, <2>2, FS_AddElement
<1>3. A \cup {i} \in SUBSET B
  <2>1. \A j \in S : j < i => j < k
    OBVIOUS
  <2> QED BY <2>1
<1>4. Cardinality(A \cup {i}) <= Cardinality(B)
  BY <1>1, <1>3, FS_Subset
<1>5. Cardinality(A) \in Nat /\ Cardinality(B) \in Nat
  BY <1>1, FS_CardinalityType
<1> HIDE DEF A, B
<1>6. Cardinality(A) < Cardinality(B)
  BY <1>2, <1>4, <1>5
<1> QED BY <1>6 DEF A, B

LEMMA RankUnique ==
  ASSUME NEW S \in SUBSET Nat, IsFiniteSet(S), NEW i \in S, NEW k \in S,
         Cardinality({ j \in S : j < i }) = Cardinality({ j \in S : j < k })
  PROVE  i = k
<1>1. /\ Cardinality({ j \in S : j < i }) \in Nat
      /\ Cardinality({ j \in S : j < k }) \in Nat
  BY RankRange
<1>2. CASE i < k
  BY <1>1, <1>2, RankGrows
<1>3. CASE k < i
  BY <1>1, <1>3, RankGrows
<1> QED BY <1>2, <1>3

LEMMA RankOnto ==
  ASSUME NEW S \in SUBSET Nat, IsFiniteSet(S), NEW k \in 0 .. Cardinality(S) - 1
  PROVE  \E i \in S : Cardinality({ j \in S : j < i }) = k
<1> DEFINE n == Cardinality(S)
           T == 0 .. n - 1
           f == [i \in S |-> Cardinality({ j \in S : j < i })]
<1>1. n \in Nat
  BY FS_CardinalityType
<1>2. IsFiniteSet(T) /\ Cardinality(T) = n
  <2>1. 0 \in Int /\ n - 1 \in Int
    BY <1>1
  <2>2. IsFiniteSet(T) /\ Cardinality(T) = IF 0 > n - 1 THEN 0 ELSE (n - 1) - 0 + 1
    BY <2>1, FS_Interval
  <2> QED BY <1>1, <2>2
<1>3. f \in [S -> T]
  BY RankRange
<1>4. \A a, b \in S : f[a] = f[b] => a = b
  BY RankUnique
<1>5. f \in Injection(S, T)
  BY <1>3, <1>4 DEF Injection, IsInjective
<1>6. f \in Surjection(S, T)
  BY <1>2, <1>5, FS_Injection
<1>7. \E i \in S : f[i] = k
  BY <1>6 DEF Surjection
<1> QED BY <1>7

LEMMA AscendingIs ==
  ASSUME NEW S \in SUBSET Nat, IsFiniteSet(S)
  PROVE  /\ Cardinality(S) \in Nat
         /\ Ascending(S) \in Seq(S) /\ Len(Ascending(S)) = Cardinality(S)
         /\ \A k \in 1 .. Cardinality(S) :
              /\ Ascending(S)[k] \in S
              /\ Cardinality({ j \in S : j < Ascending(S)[k] }) = k - 1
<1>1. Cardinality(S) \in Nat
  BY FS_CardinalityType
<1>2. \A k \in 1 .. Cardinality(S) :
        /\ Ascending(S)[k] \in S
        /\ Cardinality({ j \in S : j < Ascending(S)[k] }) = k - 1
  <2> SUFFICES ASSUME NEW k \in 1 .. Cardinality(S)
               PROVE  /\ Ascending(S)[k] \in S
                      /\ Cardinality({ j \in S : j < Ascending(S)[k] }) = k - 1
    OBVIOUS
  <2>1. Ascending(S)[k] = CHOOSE i \in S : Cardinality({ j \in S : j < i }) = k - 1
    BY DEF Ascending
  <2>2. k - 1 \in 0 .. Cardinality(S) - 1
    BY <1>1
  <2>3. \E i \in S : Cardinality({ j \in S : j < i }) = k - 1
    BY <2>2, RankOnto
  <2> QED BY <2>1, <2>3
<1>3. Ascending(S) \in [1 .. Cardinality(S) -> S]
  BY <1>2 DEF Ascending
<1> QED BY <1>1, <1>2, <1>3

LEMMA AscendingAt ==
  ASSUME NEW S \in SUBSET Nat, IsFiniteSet(S), NEW i \in S, NEW k \in 1 .. Cardinality(S),
         Cardinality({ j \in S : j < i }) = k - 1
  PROVE  Ascending(S)[k] = i
<1> DEFINE h == Ascending(S)[k]
<1>1. h \in S /\ Cardinality({ j \in S : j < h }) = k - 1
  BY AscendingIs
<1> HIDE DEF h
<1>2. h = i
  BY <1>1, RankUnique
<1> QED BY <1>2 DEF h

\* Rows behind all the others go to the end.
LEMMA AscendingAppend ==
  ASSUME NEW A \in SUBSET Nat, IsFiniteSet(A), NEW B \in SUBSET Nat, IsFiniteSet(B),
         \A a \in A, b \in B : a < b
  PROVE  Ascending(A \cup B) = Ascending(A) \o Ascending(B)
<1> DEFINE U == A \cup B
           a == Cardinality(A)
           b == Cardinality(B)
<1>1. A \cap B = {}
  <2> SUFFICES ASSUME NEW x \in A, x \in B PROVE FALSE
    OBVIOUS
  <2>1. x < x
    OBVIOUS
  <2> QED BY <2>1
<1>2. a \in Nat /\ b \in Nat /\ IsFiniteSet(U) /\ Cardinality(U) = a + b
  <2>1. a \in Nat /\ b \in Nat
    BY FS_CardinalityType
  <2>2. IsFiniteSet(U) /\ Cardinality(U) = a + b - Cardinality(A \cap B)
    BY FS_Union
  <2>3. Cardinality(A \cap B) = 0
    BY <1>1, FS_EmptySet
  <2> HIDE DEF a, b, U
  <2> QED BY <2>1, <2>2, <2>3
<1>3. U \in SUBSET Nat
  OBVIOUS
<1>4. /\ Ascending(A) \in Seq(A) /\ Len(Ascending(A)) = a
      /\ Ascending(B) \in Seq(B) /\ Len(Ascending(B)) = b
  BY AscendingIs
<1>5. Ascending(U) \in Seq(U) /\ Len(Ascending(U)) = a + b
  BY <1>2, <1>3, AscendingIs
<1>6. \A k \in 1 .. a : Ascending(U)[k] = Ascending(A)[k]
  <2> SUFFICES ASSUME NEW k \in 1 .. a PROVE Ascending(U)[k] = Ascending(A)[k]
    OBVIOUS
  <2> DEFINE i == Ascending(A)[k]
  <2>1. i \in A /\ Cardinality({ j \in A : j < i }) = k - 1
    BY AscendingIs
  <2> HIDE DEF i
  <2>2. { j \in U : j < i } = { j \in A : j < i }
    <3>1. \A j \in B : ~(j < i)
      BY <2>1
    <3> QED BY <3>1
  <2>3. k \in 1 .. Cardinality(U) /\ i \in U
    BY <1>2, <2>1
  <2>4. Cardinality({ j \in U : j < i }) = k - 1
    BY <2>1, <2>2
  <2>5. Ascending(U)[k] = i
    BY <1>2, <1>3, <2>3, <2>4, AscendingAt
  <2> QED BY <2>5 DEF i
<1>7. \A k \in 1 .. b : Ascending(U)[a + k] = Ascending(B)[k]
  <2> SUFFICES ASSUME NEW k \in 1 .. b PROVE Ascending(U)[a + k] = Ascending(B)[k]
    OBVIOUS
  <2> DEFINE i == Ascending(B)[k]
             C == { j \in B : j < i }
  <2>1. i \in B /\ Cardinality(C) = k - 1
    BY AscendingIs
  <2>2. IsFiniteSet(C)
    BY <2>1, RankRange
  <2>3. A \cap C = {}
    BY <1>1
  <2>4. { j \in U : j < i } = A \cup C
    <3>1. \A j \in A : j < i
      BY <2>1
    <3> QED BY <3>1
  <2> HIDE DEF i, C
  <2>5. Cardinality(A \cup C) = a + Cardinality(C)
    <3>1. Cardinality(A \cup C) = a + Cardinality(C) - Cardinality(A \cap C)
      BY <2>2, FS_Union
    <3>2. Cardinality(A \cap C) = 0
      BY <2>3, FS_EmptySet
    <3> HIDE DEF a
    <3> QED BY <1>2, <2>1, <3>1, <3>2
  <2>6. Cardinality({ j \in U : j < i }) = (a + k) - 1
    <3>1. Cardinality({ j \in U : j < i }) = Cardinality(A \cup C)
      BY <2>4
    <3> QED BY <1>2, <2>1, <2>5, <3>1
  <2>7. a + k \in 1 .. Cardinality(U) /\ i \in U
    BY <1>2, <2>1
  <2>8. Ascending(U)[a + k] = i
    BY <1>2, <1>3, <2>6, <2>7, AscendingAt
  <2> QED BY <2>8 DEF i
<1> DEFINE s == Ascending(U)
           x == Ascending(A)
           y == Ascending(B)
<1>8. /\ s \in Seq(Nat) /\ x \in Seq(Nat) /\ y \in Seq(Nat)
      /\ Len(s) = Len(x) + Len(y) /\ Len(x) = a /\ Len(y) = b
  <2>1. U \subseteq Nat
    OBVIOUS
  <2>2. s \in Seq(Nat) /\ x \in Seq(Nat) /\ y \in Seq(Nat)
    BY <1>4, <1>5, <2>1, SeqMonotonic
  <2> QED BY <1>4, <1>5, <2>2
<1> HIDE DEF s, x, y, a, b, U
<1>9. s = x \o y
  <2>1. \A k \in 1 .. Len(x) + Len(y) : s[k] = IF k <= Len(x) THEN x[k] ELSE y[k - Len(x)]
    <3> SUFFICES ASSUME NEW k \in 1 .. Len(x) + Len(y)
                 PROVE  s[k] = IF k <= Len(x) THEN x[k] ELSE y[k - Len(x)]
      OBVIOUS
    <3>1. CASE k <= Len(x)
      BY <1>2, <1>6, <1>8, <3>1 DEF s, x
    <3>2. CASE ~(k <= Len(x))
      <4>1. k - a \in 1 .. b /\ a + (k - a) = k
        BY <1>2, <1>8, <3>2
      <4> QED BY <1>2, <1>7, <1>8, <3>2, <4>1 DEF s, y
    <3> QED BY <3>1, <3>2
  <2>2. /\ x \o y \in Seq(Nat) /\ Len(x \o y) = Len(x) + Len(y)
        /\ \A k \in 1 .. Len(x) + Len(y) :
             (x \o y)[k] = IF k <= Len(x) THEN x[k] ELSE y[k - Len(x)]
    BY <1>8, ConcatProperties
  <2>3. \A k \in 1 .. Len(s) : s[k] = (x \o y)[k]
    BY <1>8, <2>1, <2>2
  <2> QED BY <1>8, <2>2, <2>3, SeqEqual
<1> QED BY <1>9 DEF s, x, y, U

LEMMA AscendingNone == Ascending({}) = <<>>
<1>1. Ascending({}) \in Seq({}) /\ Len(Ascending({})) = 0
  BY AscendingIs, FS_EmptySet
<1> QED BY <1>1

-----------------------------------------------------------------------------
(* Rows, layers and the chain. *)

LEMMA Sizes ==
  /\ Workers \subseteq Nat /\ 0 \in Workers /\ Layers \subseteq Nat /\ MaxRow \in Nat
  /\ \A r \in Reqs : ToSet(LayersOf[r]) \subseteq Layers
<1>1. Workers \subseteq Nat /\ 0 \in Workers
  BY GatherAssumption DEF Workers
<1>2. MaxRow \in Nat
  BY GatherAssumption, LenProperties DEF MaxRow
<1>3. \A r \in Reqs : ToSet(LayersOf[r]) \subseteq Nat
  <2> SUFFICES ASSUME NEW r \in Reqs PROVE ToSet(LayersOf[r]) \subseteq Nat
    OBVIOUS
  <2>1. LayersOf[r] \in Seq(Nat)
    BY GatherAssumption
  <2> QED BY <2>1 DEF ToSet
<1>4. Layers \subseteq Nat /\ \A r \in Reqs : ToSet(LayersOf[r]) \subseteq Layers
  BY <1>3 DEF Layers
<1> QED BY <1>1, <1>2, <1>4

LEMMA RowsAre ==
  ASSUME NEW r, NEW lo \in Nat, NEW hi \in Nat
  PROVE  /\ RowsOf(r, lo, hi) \in SUBSET Nat /\ IsFiniteSet(RowsOf(r, lo, hi))
         /\ Cardinality(RowsOf(r, lo, hi)) \in Nat
         /\ \A i \in RowsOf(r, lo, hi) : lo <= i /\ i < hi /\ OwnerOf[i + 1] = r
         /\ \A i \in Nat : lo <= i /\ i < hi /\ OwnerOf[i + 1] = r => i \in RowsOf(r, lo, hi)
<1>1. RowsOf(r, lo, hi) \in SUBSET (lo .. hi - 1)
  BY DEF RowsOf
<1>2. IsFiniteSet(lo .. hi - 1)
  BY FS_Interval
<1>3. IsFiniteSet(RowsOf(r, lo, hi))
  BY <1>1, <1>2, FS_Subset
<1>4. Cardinality(RowsOf(r, lo, hi)) \in Nat
  BY <1>3, FS_CardinalityType
<1>5. RowsOf(r, lo, hi) \in SUBSET Nat
  BY <1>1
<1> QED BY <1>3, <1>4, <1>5 DEF RowsOf

LEMMA SharesAre ==
  ASSUME NEW r \in Reqs
  PROVE  /\ \A w \in Workers : Mine(r, w) \subseteq Layers /\ IsFiniteSet(Mine(r, w))
         /\ \A w \in Workers : Mine(r, w) # {} => FirstMine(r, w) \in Mine(r, w)
         /\ \A v, w \in Workers : \A L \in Mine(r, v) : L \in Mine(r, w) => v = w
         /\ \A L \in ToSet(LayersOf[r]) : \E w \in Workers : L \in Mine(r, w)
<1> DEFINE s == LayersOf[r]
           at(w) == { i \in DOMAIN s : (i - 1) % NWorkers = w }
<1>1. /\ s \in Seq(Nat) /\ Len(s) \in Nat /\ DOMAIN s = 1 .. Len(s)
      /\ \A i, j \in 1 .. Len(s) : s[i] = s[j] => i = j
  <2>1. s \in Seq(Nat) /\ IsInjective(s)
    BY GatherAssumption
  <2>2. Len(s) \in Nat /\ DOMAIN s = 1 .. Len(s)
    BY <2>1, LenProperties
  <2> QED BY <2>1, <2>2 DEF IsInjective
<1>2. \A w \in Workers : Mine(r, w) = { s[i] : i \in at(w) }
  BY DEF Mine, Share
<1>3. NWorkers \in Nat \ {0} /\ Workers = 0 .. NWorkers - 1
  BY GatherAssumption DEF Workers
<1>4. ToSet(s) = { s[i] : i \in 1 .. Len(s) }
  BY <1>1 DEF ToSet
<1>5. IsFiniteSet(ToSet(s))
  <2>1. s \in [1 .. Len(s) -> ToSet(s)]
    BY <1>1, <1>4
  <2>2. s \in Surjection(1 .. Len(s), ToSet(s))
    BY <1>4, <2>1 DEF Surjection
  <2>3. IsFiniteSet(1 .. Len(s))
    BY <1>1, FS_Interval
  <2> QED BY <2>2, <2>3, FS_Surjection
<1>6. \A w \in Workers : Mine(r, w) \subseteq ToSet(s)
  BY <1>1, <1>2, <1>4
<1>7. ToSet(s) \subseteq Layers
  BY Sizes
<1>8. \A w \in Workers : Mine(r, w) \subseteq Layers /\ IsFiniteSet(Mine(r, w))
  BY <1>5, <1>6, <1>7, FS_Subset
<1>9. \A w \in Workers : Mine(r, w) # {} => FirstMine(r, w) \in Mine(r, w)
  <2> SUFFICES ASSUME NEW w \in Workers, Mine(r, w) # {} PROVE FirstMine(r, w) \in Mine(r, w)
    OBVIOUS
  <2>1. PICK i \in 1 .. Len(s) : (i - 1) % NWorkers = w
    BY <1>1, <1>2
  <2>2. (i - 1) % NWorkers <= i - 1
    <3>1. i - 1 \in Nat
      OBVIOUS
    <3>2. /\ (i - 1) \div NWorkers \in Nat /\ (i - 1) % NWorkers \in 0 .. NWorkers - 1
          /\ i - 1 = NWorkers * ((i - 1) \div NWorkers) + ((i - 1) % NWorkers)
      BY <1>3, <3>1, Quotient
    <3> DEFINE a == NWorkers * ((i - 1) \div NWorkers)
               b == (i - 1) % NWorkers
    <3>3. a \in Nat
      BY <1>3, <3>2
    <3>4. b \in Nat /\ i - 1 = a + b
      BY <1>3, <3>2
    <3> HIDE DEF a, b
    <3>5. b <= i - 1
      BY <3>3, <3>4
    <3> QED BY <3>5 DEF b
  <2>3. w \in Nat /\ w < NWorkers /\ w + 1 \in 1 .. Len(s)
    <3>1. w \in Nat /\ w < NWorkers
      BY <1>3
    <3>2. w <= i - 1
      BY <2>1, <2>2, Zenon
    <3> HIDE DEF at, s
    <3> QED BY <3>1, <3>2
  <2>4. ((w + 1) - 1) % NWorkers = w
    <3>1. (w + 1) - 1 = w
      BY <1>3, <2>3
    <3>2. w % NWorkers = w
      BY <1>3, <2>3
    <3> QED BY <3>1, <3>2, Zenon
  <2>5. w + 1 \in at(w)
    BY <1>1, <2>3, <2>4, Zenon
  <2> HIDE DEF at
  <2>6. s[w + 1] \in Mine(r, w)
    BY <1>2, <2>5, Zenon
  <2> QED BY <2>6 DEF FirstMine
<1>10. \A v, w \in Workers : \A L \in Mine(r, v) : L \in Mine(r, w) => v = w
  <2> SUFFICES ASSUME NEW v \in Workers, NEW w \in Workers, NEW L \in Mine(r, v), L \in Mine(r, w)
               PROVE  v = w
    OBVIOUS
  <2>1. \A u \in Workers : \A K \in Mine(r, u) :
          \E i \in 1 .. Len(s) : K = s[i] /\ (i - 1) % NWorkers = u
    <3>1. \A u : \A i \in at(u) : i \in 1 .. Len(s) /\ (i - 1) % NWorkers = u
      BY <1>1, Zenon
    <3> HIDE DEF at, s
    <3> SUFFICES ASSUME NEW u \in Workers, NEW K \in Mine(r, u)
                 PROVE  \E i \in 1 .. Len(s) : K = s[i] /\ (i - 1) % NWorkers = u
      OBVIOUS
    <3>2. K \in { s[i] : i \in at(u) }
      BY <1>2, Zenon
    <3>3. PICK i \in at(u) : K = s[i]
      BY <3>2
    <3> QED BY <3>1, <3>3, Zenon
  <2>2. PICK i \in 1 .. Len(s) : L = s[i] /\ (i - 1) % NWorkers = v
    BY <2>1, Zenon
  <2>3. PICK j \in 1 .. Len(s) : L = s[j] /\ (j - 1) % NWorkers = w
    BY <2>1, Zenon
  <2>4. i = j
    BY <1>1, <2>2, <2>3, Zenon
  <2> QED BY <2>2, <2>3, <2>4, Zenon
<1>11. \A L \in ToSet(s) : \E w \in Workers : L \in Mine(r, w)
  <2> SUFFICES ASSUME NEW i \in 1 .. Len(s) PROVE \E w \in Workers : s[i] \in Mine(r, w)
    BY <1>4
  <2> DEFINE w == (i - 1) % NWorkers
  <2>1. i - 1 \in Nat
    BY <1>1
  <2>2. w \in Workers /\ i \in at(w)
    BY <1>1, <1>3, <2>1, Quotient
  <2> HIDE DEF w, at
  <2>3. s[i] \in Mine(r, w)
    BY <1>2, <2>2
  <2> QED BY <2>2, <2>3
<1> QED BY <1>8, <1>9, <1>10, <1>11

LEMMA ChainIs ==
  ASSUME TypeOK, ChainInv
  PROVE  /\ Len(chain) \in Nat
         /\ \A n \in 0 .. Len(chain) : UpTo(n) \in 0 .. MaxRow /\ StampsTo(n) \subseteq Reqs
         /\ \A m, n \in 0 .. Len(chain) : m <= n =>
              UpTo(m) <= UpTo(n) /\ StampsTo(m) \subseteq StampsTo(n)
         /\ \A n \in 0 .. Len(chain) : \A r \in StampsTo(n) : RowsOf(r, UpTo(n), MaxRow) = {}
<1>1. /\ Len(chain) \in Nat /\ DOMAIN chain = 1 .. Len(chain)
      /\ \A n \in 1 .. Len(chain) : /\ chain[n].upTo \in 0 .. MaxRow
                                    /\ chain[n].stamps \subseteq Reqs
  <2>1. chain \in Seq([upTo : 0 .. MaxRow, stamps : SUBSET Reqs, final : BOOLEAN])
    BY DEF TypeOK
  <2>2. Len(chain) \in Nat /\ DOMAIN chain = 1 .. Len(chain)
    BY <2>1, LenProperties
  <2>3. \A n \in 1 .. Len(chain) :
          chain[n] \in [upTo : 0 .. MaxRow, stamps : SUBSET Reqs, final : BOOLEAN]
    BY <2>1, ElementOfSeq
  <2> QED BY <2>2, <2>3
<1>2. \A n \in 0 .. Len(chain) : UpTo(n) \in 0 .. MaxRow
  BY <1>1, Sizes DEF UpTo
<1>3. \A n \in 0 .. Len(chain) : StampsTo(n) \subseteq Reqs
  BY <1>1 DEF StampsTo
<1>4. \A m, n \in 0 .. Len(chain) : m <= n => UpTo(m) <= UpTo(n)
  <2> SUFFICES ASSUME NEW m \in 0 .. Len(chain), NEW n \in 0 .. Len(chain), m <= n
               PROVE  UpTo(m) <= UpTo(n)
    OBVIOUS
  <2>1. CASE m = 0
    BY <1>2, <2>1 DEF UpTo
  <2>2. CASE m # 0
    <3>1. m \in 1 .. Len(chain) /\ n \in 1 .. Len(chain)
      BY <1>1, <2>2
    <3> QED BY <1>1, <2>2, <3>1 DEF UpTo, ChainInv
  <2> QED BY <2>1, <2>2
<1>5. \A m, n \in 0 .. Len(chain) : m <= n => StampsTo(m) \subseteq StampsTo(n)
  <2> SUFFICES ASSUME NEW m \in 0 .. Len(chain), NEW n \in 0 .. Len(chain), m <= n,
                      NEW r \in StampsTo(m)
               PROVE  r \in StampsTo(n)
    OBVIOUS
  <2>1. PICK i \in 1 .. m : r \in chain[i].stamps
    BY DEF StampsTo
  <2>2. i \in 1 .. n
    BY <1>1, <2>1
  <2> QED BY <2>1, <2>2 DEF StampsTo
<1>6. \A n \in 0 .. Len(chain) : \A r \in StampsTo(n) : RowsOf(r, UpTo(n), MaxRow) = {}
  <2> SUFFICES ASSUME NEW n \in 0 .. Len(chain), NEW r \in StampsTo(n),
                      NEW j \in RowsOf(r, UpTo(n), MaxRow)
               PROVE  FALSE
    OBVIOUS
  <2>1. PICK i \in 1 .. n : r \in chain[i].stamps
    BY DEF StampsTo
  <2>2. i \in 1 .. Len(chain) /\ i \in 0 .. Len(chain) /\ i <= n
    BY <1>1, <2>1
  <2>3. chain[i].upTo = UpTo(i) /\ RowsOf(r, UpTo(i), MaxRow) = {}
    <3>1. UpTo(i) = chain[i].upTo
      BY <2>2 DEF UpTo
    <3>2. RowsOf(r, chain[i].upTo, MaxRow) = {}
      BY <1>1, <2>1, <2>2 DEF ChainInv
    <3> QED BY <3>1, <3>2, Zenon
  <2>4. UpTo(i) <= UpTo(n) /\ UpTo(i) \in Nat /\ UpTo(n) \in Nat
    <3>1. UpTo(i) \in Nat
      BY <1>2, <2>2, Sizes
    <3>2. UpTo(n) \in Nat
      BY <1>2, Sizes
    <3>3. UpTo(i) <= UpTo(n)
      BY <1>4, <2>2
    <3> QED BY <3>1, <3>2, <3>3
  <2>5. UpTo(i) <= j /\ j < MaxRow /\ j \in Nat /\ OwnerOf[j + 1] = r
    <3> DEFINE a == UpTo(n)
    <3>1. a \in Nat /\ j \in RowsOf(r, a, MaxRow)
      BY <2>4
    <3> HIDE DEF a
    <3>2. a <= j /\ j < MaxRow /\ j \in Nat /\ OwnerOf[j + 1] = r
      BY <3>1, Sizes DEF RowsOf
    <3> QED BY <2>4, <3>1, <3>2 DEF a
  <2>6. j \in RowsOf(r, UpTo(i), MaxRow)
    <3> DEFINE a == UpTo(i)
    <3>1. a \in Nat /\ a <= j /\ j < MaxRow /\ j \in Nat /\ OwnerOf[j + 1] = r
      BY <2>4, <2>5
    <3> HIDE DEF a
    <3>2. j \in RowsOf(r, a, MaxRow)
      BY <3>1, Sizes DEF RowsOf
    <3> QED BY <3>2 DEF a
  <2> QED BY <2>3, <2>6
<1> QED BY <1>1, <1>2, <1>3, <1>4, <1>5, <1>6

\* A request stamped once is not stamped again.
LEMMA StampedOnce ==
  ASSUME TypeOK, ChainInv, NEW n \in 0 .. Len(chain), NEW i \in n + 1 .. Len(chain),
         NEW r \in StampsTo(n)
  PROVE  r \notin chain[i].stamps
<1>1. PICK j \in 1 .. n : r \in chain[j].stamps
  BY DEF StampsTo
<1>2. Len(chain) \in Nat /\ DOMAIN chain = 1 .. Len(chain)
  BY LenProperties DEF TypeOK
<1>3. j \in DOMAIN chain /\ i \in DOMAIN chain /\ i # j
  BY <1>1, <1>2
<1> QED BY <1>1, <1>3 DEF ChainInv

LEMMA BatchEndIs ==
  ASSUME TypeOK, ChainInv, NEW n \in 0 .. Len(chain)
  PROVE  BatchEnd(n) \in n .. Len(chain)
<1> DEFINE full == { i \in n + 1 .. Len(chain) :
                       chain[i].final \/ UpTo(i) - UpTo(n) >= BatchRows }
<1>1. Len(chain) \in Nat
  BY ChainIs
<1>2. full \subseteq Nat /\ full \subseteq n .. Len(chain)
  BY <1>1
<1>3. BatchEnd(n) = IF full = {} THEN Len(chain) ELSE Min(full)
  BY DEF BatchEnd
<1> HIDE DEF full
<1>4. CASE full = {}
  BY <1>1, <1>3, <1>4
<1>5. CASE full # {}
  <2>1. Min(full) \in full
    BY <1>2, <1>5, MinIs
  <2> QED BY <1>2, <1>3, <1>5, <2>1
<1> QED BY <1>4, <1>5

LEMMA ChunkEndIs ==
  ASSUME NEW c \in Nat, NEW hi \in Nat
  PROVE  ChunkEnd(c, hi) = IF c + BatchRows <= hi THEN c + BatchRows ELSE hi
<1> DEFINE T == {c + BatchRows, hi}
<1>1. T \subseteq Nat /\ T # {} /\ BatchRows \in Nat
  BY GatherAssumption
<1>2. Min(T) \in T /\ \A y \in T : Min(T) <= y
  BY <1>1, MinIs
<1>3. ChunkEnd(c, hi) = Min(T)
  BY DEF ChunkEnd
<1> QED BY <1>1, <1>2, <1>3

\* What is read of rows no hole has reached is those rows.
LEMMA ReadIs ==
  ASSUME TypeOK, NEW L \in Layers, NEW S \in SUBSET (0 .. MaxRow), IsFiniteSet(S)
  PROVE  /\ Read(L, S) \in Seq(-2 .. MaxRow)
         /\ (\A i \in S : RowContent(L, i) = i) => Read(L, S) = Ascending(S)
<1> DEFINE a == Ascending(S)
           n == Cardinality(S)
           copy == [j \in 1 .. n |-> RowContent(L, a[j])]
<1>1. S \in SUBSET Nat
  BY Sizes
<1>2. n \in Nat /\ a \in Seq(S) /\ Len(a) = n /\ \A k \in 1 .. n : a[k] \in S
  BY <1>1, AscendingIs
<1>3. Read(L, S) = copy
  BY DEF Read
<1> HIDE DEF a, n
<1>4. \A i \in S : RowContent(L, i) \in -2 .. MaxRow
  BY Sizes DEF RowContent, Zero
<1>5. copy \in [1 .. n -> -2 .. MaxRow]
  BY <1>2, <1>4
<1>6. copy \in Seq(-2 .. MaxRow)
  BY <1>2, <1>5
<1>7. ASSUME \A i \in S : RowContent(L, i) = i PROVE copy = a
  <2>1. a \in [1 .. n -> S]
    BY <1>2, LenProperties
  <2>2. copy = [j \in 1 .. n |-> a[j]]
    BY <1>2, <1>7
  <2> QED BY <2>1, <2>2
<1> HIDE DEF copy
<1> QED BY <1>3, <1>6, <1>7 DEF a

-----------------------------------------------------------------------------
(* What a pass may free. *)

\* floor_row_for_bytes rounds up.
LEMMA FloorIs ==
  ASSUME NEW t \in Nat
  PROVE  /\ FloorRow(t) \in Nat
         /\ \A s \in Nat : FloorRow(t) <= s <=> t <= s * RowBytes
<1> DEFINE b == RowBytes
           q == (t + b - 1) \div b
           m == (t + b - 1) % b
<1>1. b \in Nat \ {0}
  BY GatherAssumption
<1>2. t + b - 1 \in Nat
  BY <1>1
<1>3. q \in Nat /\ m \in 0 .. b - 1 /\ t + b - 1 = b * q + m
  BY <1>1, <1>2, Quotient
<1>4. FloorRow(t) = q
  BY DEF FloorRow
<1> HIDE DEF b, q, m
<1>5. ASSUME NEW s \in Nat, q <= s PROVE t <= s * b
  <2>1. b * q <= b * s /\ b * s = s * b /\ b * q \in Nat /\ b * s \in Nat
    BY <1>1, <1>3, <1>5, MultipleOrder
  <2> QED BY <1>1, <1>3, <2>1
<1>6. ASSUME NEW s \in Nat, s < q PROVE s * b < t
  <2>1. b * (s + 1) <= b * q /\ b * (s + 1) = s * b + b /\ b * q \in Nat /\ s * b \in Nat
    BY <1>1, <1>3, <1>6, MultipleOrder
  <2> QED BY <1>1, <1>3, <2>1
<1>7. \A s \in Nat : q <= s <=> t <= s * b
  <2> SUFFICES ASSUME NEW s \in Nat PROVE q <= s <=> t <= s * b
    OBVIOUS
  <2>1. s * b \in Nat
    BY <1>1
  <2>2. CASE q <= s
    BY <1>5, <2>2
  <2>3. CASE s < q
    BY <1>3, <1>6, <2>1, <2>3
  <2> QED BY <1>3, <2>2, <2>3
<1> QED BY <1>3, <1>4, <1>7 DEF b

LEMMA FloorGrows ==
  ASSUME NEW s \in Nat, NEW t \in Nat, s <= t
  PROVE  FloorRow(s) <= FloorRow(t)
<1> DEFINE f == FloorRow(t)
<1>1. f \in Nat /\ t <= f * RowBytes
  BY FloorIs
<1> HIDE DEF f
<1>2. f * RowBytes \in Nat
  BY <1>1, GatherAssumption
<1>3. s <= f * RowBytes
  BY <1>1, <1>2
<1>4. FloorRow(s) <= f
  BY <1>1, <1>3, FloorIs
<1> QED BY <1>4 DEF f

\* The target lies behind the worker's own cursor and every published one.
LEMMA TargetIs ==
  ASSUME TypeOK, NEW w \in Workers, CursorRow(w) \in Nat
  PROVE  /\ TrimTarget(w) \in Nat
         /\ FloorRow(TrimTarget(w)) \in Nat
         /\ FloorRow(TrimTarget(w)) <= CursorRow(w)
         /\ \A v \in Workers \ {w} : FloorRow(TrimTarget(w)) <= marker[v].at
<1> DEFINE T == {CursorRow(w)} \cup { marker[v].at : v \in Workers \ {w} }
           s == SlowestRow(w)
           safe == s * RowBytes - Lag
           t == TrimTarget(w)
<1>1. \A v \in Workers : marker[v].at \in Nat
  BY DEF TypeOK
<1>2. T \subseteq Nat /\ CursorRow(w) \in T
  BY <1>1
<1>3. Min(T) \in T /\ \A y \in T : Min(T) <= y
  BY <1>2, MinIs
<1>4. s = 0 \/ s = Min(T)
  BY DEF SlowestRow
<1>5. s \in Nat /\ \A y \in T : s <= y
  BY <1>2, <1>3, <1>4
<1>6. t = IF safe <= 0 THEN 0 ELSE AlignDown(safe)
  BY DEF TrimTarget
<1>7. RowBytes \in Nat \ {0} /\ Lag \in Nat /\ Align \in Nat \ {0}
  BY GatherAssumption
<1> HIDE DEF s, t, T
<1>8. s * RowBytes \in Nat
  BY <1>5, <1>7
<1>9. t \in Nat /\ t <= s * RowBytes
  <2>1. CASE safe <= 0
    BY <1>6, <1>8, <2>1
  <2>2. CASE safe > 0
    <3>1. safe \in Nat
      BY <1>7, <1>8, <2>2
    <3>2. safe <= s * RowBytes
      BY <1>7, <1>8
    <3> HIDE DEF safe
    <3>3. /\ safe % Align \in 0 .. Align - 1 /\ safe \div Align \in Nat
          /\ safe = Align * (safe \div Align) + (safe % Align)
      BY <1>7, <3>1, Quotient
    <3> DEFINE q == safe \div Align
               m == safe % Align
    <3>4. t = q * Align
      BY <1>6, <2>2, <3>1 DEF AlignDown
    <3> HIDE DEF q, m
    <3>5. q \in Nat /\ m \in 0 .. Align - 1 /\ safe = Align * q + m
      BY <3>3 DEF q, m
    <3>6. q * Align \in Nat /\ q * Align = Align * q
      BY <1>7, <3>5
    <3> QED BY <1>7, <1>8, <3>1, <3>2, <3>4, <3>5, <3>6
  <2> QED BY <1>7, <1>8, <2>1, <2>2
<1>10. FloorRow(t) \in Nat /\ FloorRow(t) <= s
  BY <1>5, <1>9, FloorIs
<1>11. \A y \in T : FloorRow(t) <= y
  BY <1>2, <1>5, <1>10
<1>12. \A v \in Workers \ {w} : marker[v].at \in T
  BY DEF T
<1> QED BY <1>2, <1>9, <1>10, <1>11, <1>12 DEF t

LEMMA FloorsAre ==
  ASSUME TypeOK, NEW b \in Nat, \A v \in Workers : \A L \in Layers : marker[v].floor[L] <= b
  PROVE  /\ Floors(marker) \in [Layers -> Nat]
         /\ \A L \in Layers : /\ Floors(marker)[L] <= b
                             /\ \A v \in Workers : marker[v].floor[L] <= Floors(marker)[L]
<1>1. ASSUME NEW L \in Layers
      PROVE  LET T == { marker[v].floor[L] : v \in Workers }
             IN Max(T) \in Nat /\ Max(T) <= b /\ \A v \in Workers : marker[v].floor[L] <= Max(T)
  <2> DEFINE T == { marker[v].floor[L] : v \in Workers }
  <2>1. \A v \in Workers : marker[v].floor[L] \in Nat /\ marker[v].floor[L] \in T
    BY DEF TypeOK
  <2>2. T \subseteq Nat /\ T # {} /\ \A y \in T : y <= b
    BY <2>1, Sizes
  <2> HIDE DEF T
  <2>3. Max(T) \in T /\ \A y \in T : y <= Max(T)
    BY <2>2, MaxIs
  <2>4. Max(T) \in Nat /\ Max(T) <= b /\ \A v \in Workers : marker[v].floor[L] <= Max(T)
    BY <2>1, <2>2, <2>3
  <2> QED BY <2>4 DEF T
<1>2. \A L \in Layers : Floors(marker)[L] = Max({ marker[v].floor[L] : v \in Workers })
  BY DEF Floors
<1>3. Floors(marker) = [L \in Layers |-> Floors(marker)[L]]
  BY DEF Floors
<1> QED BY <1>1, <1>2, <1>3

-----------------------------------------------------------------------------
(* Types. *)

LEMMA TypeInit == ASSUME Init PROVE TypeOK
<1>1. \A r \in Reqs : (IF Leftovers THEN <<Leftover>> ELSE <<>>) \in Seq(-2 .. MaxRow)
  <2>1. Leftover \in -2 .. MaxRow
    BY Sizes DEF Leftover
  <2>2. <<Leftover>> \in Seq(-2 .. MaxRow)
    BY <2>1
  <2>3. <<>> \in Seq(-2 .. MaxRow)
    BY EmptySeq
  <2> QED BY <2>2, <2>3
<1>2. IdlePass \in Passes
  <2>1. /\ [r \in Reqs |-> [first |-> 0, all |-> 0]] \in [Reqs -> [first : Nat, all : Nat]]
        /\ [L \in Layers |-> 0] \in [Layers -> Nat]
    OBVIOUS
  <2>2. {} \in SUBSET ((0 .. MaxRow) \X Layers) /\ {} \in SUBSET Reqs /\ {} \in SUBSET Layers
    OBVIOUS
  <2> QED BY <2>1, <2>2 DEF IdlePass, Passes
<1>3. worker \in [Workers -> Passes]
  BY <1>2 DEF Init
<1>4. file \in [Reqs -> [Layers -> Seq(-2 .. MaxRow)]]
  BY <1>1 DEF Init
<1>5. manifests \in [Reqs -> SUBSET [worker : Workers, n : Nat, run : {"this", "old"}]]
  BY DEF Init
<1>6. marker \in [Workers -> [at : Nat, floor : [Layers -> Nat]]]
  BY DEF Init
<1>7. punched \in [Layers -> Nat]
  BY DEF Init
<1>8. chain \in Seq([upTo : 0 .. MaxRow, stamps : SUBSET Reqs, final : BOOLEAN])
  BY EmptySeq DEF Init
<1> QED BY <1>3, <1>4, <1>5, <1>6, <1>7, <1>8 DEF Init, TypeOK

LEMMA PassTypes ==
  ASSUME TypeOK, NEW w \in Workers
  PROVE  /\ worker[w] \in Passes /\ worker[w].seq \in Nat /\ worker[w].next \in Nat
         /\ worker[w].todo \subseteq (0 .. MaxRow) \X Layers /\ worker[w].ready \subseteq Reqs
         /\ worker[w].known \subseteq Reqs /\ worker[w].floors \in [Layers -> Nat]
         /\ worker[w].wrote \in [Reqs -> [first : Nat, all : Nat]]
         /\ worker[w].due \subseteq Layers /\ worker[w].target \in Nat
         /\ worker[w].freed \in [Layers -> Nat] /\ worker[w].reported \in BOOLEAN
         /\ marker[w].at \in Nat /\ marker[w].floor \in [Layers -> Nat]
BY DEF TypeOK, Passes

\* Replacing one pass by another leaves the rest.
LEMMA OnePass ==
  ASSUME TypeOK, NEW w \in Workers, NEW p \in Passes, worker' = [worker EXCEPT ![w] = p]
  PROVE  /\ worker' \in [Workers -> Passes] /\ worker'[w] = p
         /\ \A v \in Workers \ {w} : worker'[v] = worker[v]
BY DEF TypeOK

LEMMA PublishTypes ==
  ASSUME TypeOK, NEW hi \in 0 .. MaxRow, NEW stamps \in SUBSET Reqs, NEW final \in BOOLEAN,
         Publish(hi, stamps, final)
  PROVE  TypeOK'
<1> DEFINE seg == [upTo |-> hi, stamps |-> stamps, final |-> final]
<1>1. seg \in [upTo : 0 .. MaxRow, stamps : SUBSET Reqs, final : BOOLEAN]
  OBVIOUS
<1>2. chain' = Append(chain, seg)
  BY DEF Publish
<1> HIDE DEF seg
<1>3. chain' \in Seq([upTo : 0 .. MaxRow, stamps : SUBSET Reqs, final : BOOLEAN])
  BY <1>1, <1>2 DEF TypeOK
<1>4. publisher' \in {"on", "off"}
  BY DEF Publish
<1>5. UNCHANGED <<worker, file, manifests, marker, punched>>
  BY DEF Publish
<1> QED BY <1>3, <1>4, <1>5 DEF TypeOK

\* What a batch makes of a pass.
BatchTaken(w, end) ==
  /\ worker[w].pc = "idle" /\ worker[w].seq = worker[w].next
  /\ worker[w].todo = {} /\ worker[w].ready = {} /\ worker[w].due = {}
  /\ worker[w].seq \in 0 .. Len(chain) /\ end \in worker[w].seq + 1 .. Len(chain)
  /\ worker' = [worker EXCEPT ![w] = worker'[w]] /\ worker'[w] \in Passes
  /\ worker'[w].pc = "batch" /\ worker'[w].seq = worker[w].seq
  /\ worker'[w].next = end
  /\ worker'[w].todo = Plan(w, UpTo(worker[w].seq), UpTo(end))
  /\ worker'[w].ready = StampsTo(end) \ StampsTo(worker[w].seq)
  /\ worker'[w].known = worker[w].known \cup
       { r \in Reqs : RowsOf(r, UpTo(worker[w].seq), UpTo(end)) # {} }
  /\ worker'[w].wrote = worker[w].wrote
  /\ \A L \in Layers : worker'[w].floors[L] <= UpTo(worker[w].seq)
  /\ worker'[w].due = {} /\ worker'[w].freed = worker[w].freed
  /\ worker'[w].target = worker[w].target

LEMMA TakeBatchIs ==
  ASSUME TypeOK, ChainInv, NEW w \in Workers, PassInv(w), TrimInv(w),
         NEW end, TakeBatch(w, end)
  PROVE  BatchTaken(w, end)
<1> DEFINE p == worker[w]
           lo == UpTo(p.seq)
           hi == UpTo(end)
           stamps == UNION { chain[n].stamps : n \in p.seq + 1 .. end }
           seen == { r \in Reqs : RowsOf(r, lo, hi) # {} }
           q == [p EXCEPT !.pc = "batch", !.next = end, !.todo = Plan(w, lo, hi),
                          !.ready = stamps, !.known = @ \cup seen, !.floors = Floors(marker)]
<1>1. p.pc = "idle" /\ end = BatchEnd(p.seq) /\ end > p.seq
  BY DEF TakeBatch
<1>2. worker' = [worker EXCEPT ![w] = q]
  BY DEF TakeBatch
<1>3. p.seq = p.next /\ p.todo = {} /\ p.due = {} /\ p.ready = {} /\ p.next <= Len(chain)
  <2>1. p.seq = p.next /\ p.todo = {} /\ p.due = {} /\ p.next <= Len(chain)
    BY <1>1 DEF PassInv
  <2>2. p.ready \subseteq StampsTo(p.next) \ StampsTo(p.seq)
    BY DEF PassInv
  <2> QED BY <2>1, <2>2
<1>4. Len(chain) \in Nat /\ p.seq \in 0 .. Len(chain) /\ end \in p.seq + 1 .. Len(chain)
  <2>1. Len(chain) \in Nat /\ p.seq \in 0 .. Len(chain)
    BY <1>3, PassTypes, ChainIs
  <2>2. end \in p.seq .. Len(chain)
    BY <1>1, <2>1, BatchEndIs
  <2> QED BY <1>1, <2>1, <2>2
<1>5. lo \in 0 .. MaxRow /\ hi \in 0 .. MaxRow
  BY <1>4, ChainIs
<1>6. stamps = StampsTo(end) \ StampsTo(p.seq)
  <2>1. ASSUME NEW r \in stamps PROVE r \in StampsTo(end) /\ r \notin StampsTo(p.seq)
    <3>1. PICK n \in p.seq + 1 .. end : r \in chain[n].stamps
      OBVIOUS
    <3>2. n \in 1 .. end /\ n \in p.seq + 1 .. Len(chain)
      BY <1>4
    <3>3. r \in StampsTo(end)
      BY <3>1, <3>2 DEF StampsTo
    <3>4. r \notin StampsTo(p.seq)
      BY <1>4, <3>1, <3>2, StampedOnce
    <3> QED BY <3>3, <3>4
  <2>2. ASSUME NEW r \in StampsTo(end), r \notin StampsTo(p.seq) PROVE r \in stamps
    <3>1. PICK n \in 1 .. end : r \in chain[n].stamps
      BY DEF StampsTo
    <3>2. n \notin 1 .. p.seq
      BY <2>2, <3>1 DEF StampsTo
    <3>3. n \in p.seq + 1 .. end
      BY <1>4, <3>2
    <3> QED BY <3>1, <3>3
  <2> QED BY <2>1, <2>2
<1>7. stamps \subseteq Reqs
  <2>1. StampsTo(end) \subseteq Reqs
    BY <1>4, ChainIs
  <2> QED BY <1>6, <2>1
<1>8. Plan(w, lo, hi) \subseteq (0 .. MaxRow) \X Layers
  <2>1. lo .. hi - 1 \subseteq 0 .. MaxRow
    BY <1>5, Sizes
  <2> HIDE DEF lo, hi
  <2> QED BY <2>1 DEF Plan
<1>9. Floors(marker) \in [Layers -> Nat] /\ \A L \in Layers : Floors(marker)[L] <= lo
  <2>1. lo \in Nat /\ \A v \in Workers : \A L \in Layers : marker[v].floor[L] <= lo
    BY <1>5 DEF TrimInv
  <2> HIDE DEF lo
  <2> QED BY <2>1, FloorsAre
<1> HIDE DEF lo, hi, stamps, seen
<1>10. q \in Passes
  <2>1. /\ p.seq \in Nat /\ p.wrote \in [Reqs -> [first : Nat, all : Nat]] /\ p.due \subseteq Layers
        /\ p.target \in Nat /\ p.freed \in [Layers -> Nat] /\ p.reported \in BOOLEAN
        /\ p \in Passes /\ end \in Nat
    BY <1>4, PassTypes
  <2>2. (p.known \cup seen) \subseteq Reqs
    BY PassTypes DEF seen
  <2> DEFINE plan == Plan(w, lo, hi)
             fl == Floors(marker)
             known == p.known \cup seen
  <2>3. plan \subseteq (0 .. MaxRow) \X Layers /\ fl \in [Layers -> Nat]
    BY <1>8, <1>9
  <2>4. q = [p EXCEPT !.pc = "batch", !.next = end, !.todo = plan,
                      !.ready = stamps, !.known = known, !.floors = fl]
    OBVIOUS
  <2>5. known \subseteq Reqs
    BY <2>2
  <2> HIDE DEF p, q, plan, fl, known
  <2>6. q = [pc |-> "batch", seq |-> p.seq, next |-> end, todo |-> plan, ready |-> stamps,
             known |-> known, wrote |-> p.wrote, floors |-> fl, due |-> p.due,
             target |-> p.target, freed |-> p.freed, reported |-> p.reported]
    BY <2>1, <2>4 DEF Passes
  <2> QED BY <1>7, <2>1, <2>3, <2>5, <2>6 DEF Passes
<1>11. worker' = [worker EXCEPT ![w] = worker'[w]] /\ worker'[w] = q
  BY <1>2 DEF TypeOK
<1>12. /\ q.pc = "batch" /\ q.seq = p.seq /\ q.next = end /\ q.todo = Plan(w, lo, hi)
       /\ q.ready = stamps /\ q.known = p.known \cup seen /\ q.wrote = p.wrote
       /\ q.floors = Floors(marker) /\ q.due = p.due /\ q.freed = p.freed /\ q.target = p.target
  BY PassTypes DEF Passes
<1> HIDE DEF q, p
<1> QED
  BY <1>1, <1>3, <1>4, <1>6, <1>9, <1>10, <1>11, <1>12 DEF p, lo, hi, seen, BatchTaken

LEMMA ChunkRowsAre ==
  ASSUME TypeOK, ChainInv, NEW w \in Workers, PassInv(w),
         NEW c \in Nat, NEW L \in Layers, NEW r \in Reqs
  PROVE  /\ ChunkRows(w, c, L, r) \in SUBSET (0 .. MaxRow)
         /\ IsFiniteSet(ChunkRows(w, c, L, r)) /\ Cardinality(ChunkRows(w, c, L, r)) \in Nat
         /\ \A i \in Nat : i \in ChunkRows(w, c, L, r) <=>
              /\ L \in Mine(r, w)
              /\ c <= i /\ i <= c + BatchRows - 1 /\ i < UpTo(worker[w].next)
              /\ OwnerOf[i + 1] = r
<1> DEFINE hi == UpTo(worker[w].next)
           e == ChunkEnd(c, hi)
           S == ChunkRows(w, c, L, r)
<1>1. hi \in 0 .. MaxRow /\ MaxRow \in Nat /\ BatchRows \in Nat
  <2>1. worker[w].next \in 0 .. Len(chain)
    BY PassTypes, ChainIs DEF PassInv
  <2> QED BY <2>1, ChainIs, Sizes, GatherAssumption
<1>2. S = IF L \in Mine(r, w) THEN RowsOf(r, c, e) ELSE {}
  BY DEF ChunkRows
<1> HIDE DEF hi, S
<1>3. e = IF c + BatchRows <= hi THEN c + BatchRows ELSE hi
  BY <1>1, ChunkEndIs
<1> HIDE DEF e
<1>4. e \in Nat /\ e <= MaxRow /\ \A i \in Nat : i < e <=> i <= c + BatchRows - 1 /\ i < hi
  BY <1>1, <1>3
<1>5. RowsOf(r, c, e) \in SUBSET (0 .. MaxRow) /\ IsFiniteSet(RowsOf(r, c, e))
  <2>1. \A i \in RowsOf(r, c, e) : i \in Nat /\ i < e
    BY <1>4, RowsAre
  <2> QED BY <1>1, <1>4, <2>1, RowsAre
<1>6. IsFiniteSet(S) /\ S \in SUBSET (0 .. MaxRow)
  BY <1>2, <1>5, FS_EmptySet
<1>7. Cardinality(S) \in Nat
  BY <1>6, FS_CardinalityType
<1>8. \A i \in Nat : i \in S <=>
        L \in Mine(r, w) /\ c <= i /\ i <= c + BatchRows - 1 /\ i < hi /\ OwnerOf[i + 1] = r
  <2> SUFFICES ASSUME NEW i \in Nat
               PROVE  i \in S <=> /\ L \in Mine(r, w) /\ c <= i /\ i <= c + BatchRows - 1
                                 /\ i < hi /\ OwnerOf[i + 1] = r
    OBVIOUS
  <2>1. i \in RowsOf(r, c, e) <=> c <= i /\ i < e /\ OwnerOf[i + 1] = r
    BY <1>4 DEF RowsOf
  <2>2. i < e <=> i <= c + BatchRows - 1 /\ i < hi
    BY <1>4
  <2> QED BY <1>2, <2>1, <2>2
<1> QED BY <1>6, <1>7, <1>8 DEF S, hi

Scattered(w, c, L) ==
  /\ c \in Nat /\ L \in Layers /\ <<c, L>> \in worker[w].todo /\ worker[w].pc = "batch"
  /\ \A x \in worker[w].todo : c < x[1] \/ (c = x[1] /\ L <= x[2])
  /\ worker' = [worker EXCEPT ![w] = worker'[w]] /\ worker'[w] \in Passes
  /\ worker'[w].pc = "batch" /\ worker'[w].seq = worker[w].seq
  /\ worker'[w].next = worker[w].next /\ worker'[w].ready = worker[w].ready
  /\ worker'[w].todo = worker[w].todo \ {<<c, L>>}
  /\ worker'[w].known = worker[w].known /\ worker'[w].floors = worker[w].floors
  /\ worker'[w].due = worker[w].due /\ worker'[w].freed = worker[w].freed
  /\ worker'[w].target = worker[w].target
  /\ \A r \in Reqs : worker'[w].wrote[r] =
       [first |-> worker[w].wrote[r].first +
                    (IF L \in Mine(r, w) /\ L = FirstMine(r, w)
                     THEN Cardinality(ChunkRows(w, c, L, r)) ELSE 0),
        all |-> worker[w].wrote[r].all + Cardinality(ChunkRows(w, c, L, r))]
  /\ file' \in [Reqs -> [Layers -> Seq(-2 .. MaxRow)]]
  /\ \A r \in Reqs : \A M \in Layers : file'[r][M] =
       IF M = L THEN file[r][L] \o Read(L, ChunkRows(w, c, L, r)) ELSE file[r][M]

LEMMA ScatterIs ==
  ASSUME TypeOK, ChainInv, NEW w \in Workers, PassInv(w), TodoInv(w), TrimInv(w),
         NEW c, NEW L, Scatter(w, c, L)
  PROVE  Scattered(w, c, L)
<1> DEFINE p == worker[w]
           n == [r \in Reqs |-> Cardinality(ChunkRows(w, c, L, r))]
           wrote == [r \in Reqs |->
                      [first |-> p.wrote[r].first + (IF L \in Mine(r, w) /\ L = FirstMine(r, w)
                                                     THEN n[r] ELSE 0),
                       all |-> p.wrote[r].all + n[r]]]
           todo == p.todo \ {<<c, L>>}
           q == [p EXCEPT !.todo = todo, !.wrote = wrote]
<1>1. /\ <<c, L>> \in p.todo
      /\ \A x \in p.todo : c < x[1] \/ (c = x[1] /\ L <= x[2])
  BY DEF Scatter
<1>2. c \in 0 .. MaxRow /\ L \in Layers /\ c \in Nat
  BY <1>1, PassTypes, Sizes
<1>3. p.pc = "batch"
  BY <1>1 DEF PassInv
<1>4. ~Reclaimed(L, c, p.floors)
  <2>1. UpTo(p.seq) <= c
    <3>1. \A x \in p.todo : UpTo(p.seq) <= x[1]
      BY DEF TodoInv
    <3>2. UpTo(p.seq) <= <<c, L>>[1]
      BY <1>1, <3>1
    <3> QED BY <3>2
  <2>2. p.floors[L] <= UpTo(p.seq) /\ p.floors[L] \in Nat
    BY <1>2, PassTypes DEF TrimInv
  <2>3. UpTo(p.seq) \in Nat
    <3>1. p.seq \in 0 .. Len(chain)
      BY PassTypes, ChainIs DEF PassInv
    <3> QED BY <3>1, ChainIs
  <2>4. p.floors[L] <= c
    BY <1>2, <2>1, <2>2, <2>3
  <2> QED BY <1>2, <2>2, <2>4 DEF Reclaimed
<1>5. /\ worker' = [worker EXCEPT ![w] = q]
      /\ file' = [r \in Reqs |-> [file[r] EXCEPT ![L] = @ \o Read(L, ChunkRows(w, c, L, r))]]
  BY <1>4 DEF Scatter, TypeOK
<1>6. \A r \in Reqs : n[r] \in Nat
  BY <1>2, ChunkRowsAre
<1>7. wrote \in [Reqs -> [first : Nat, all : Nat]]
  <2>1. \A r \in Reqs : p.wrote[r].first \in Nat /\ p.wrote[r].all \in Nat
    BY PassTypes
  <2> HIDE DEF p, n
  <2> QED BY <1>6, <2>1
<1>8. todo \subseteq (0 .. MaxRow) \X Layers
  BY PassTypes
<1>9. \A r \in Reqs : wrote[r] =
        [first |-> p.wrote[r].first + (IF L \in Mine(r, w) /\ L = FirstMine(r, w)
                                       THEN n[r] ELSE 0),
         all |-> p.wrote[r].all + n[r]]
  OBVIOUS
<1>10. \A r \in Reqs : n[r] = Cardinality(ChunkRows(w, c, L, r))
  OBVIOUS
<1>11. p \in Passes
  BY PassTypes
<1> HIDE DEF wrote, todo, n
<1>12. /\ q \in Passes
       /\ q.pc = p.pc /\ q.seq = p.seq /\ q.next = p.next /\ q.ready = p.ready
       /\ q.todo = todo /\ q.known = p.known /\ q.floors = p.floors /\ q.due = p.due
       /\ q.freed = p.freed /\ q.target = p.target /\ q.wrote = wrote
  <2> HIDE DEF p
  <2> QED BY <1>7, <1>8, <1>11 DEF Passes
<1> HIDE DEF q
<1>13. worker' = [worker EXCEPT ![w] = worker'[w]] /\ worker'[w] = q
  BY <1>5 DEF TypeOK
<1>14. \A r \in Reqs : /\ file[r] \in [Layers -> Seq(-2 .. MaxRow)]
                       /\ file[r][L] \o Read(L, ChunkRows(w, c, L, r)) \in Seq(-2 .. MaxRow)
  <2> SUFFICES ASSUME NEW r \in Reqs
               PROVE  /\ file[r] \in [Layers -> Seq(-2 .. MaxRow)]
                      /\ file[r][L] \o Read(L, ChunkRows(w, c, L, r)) \in Seq(-2 .. MaxRow)
    OBVIOUS
  <2>1. file[r] \in [Layers -> Seq(-2 .. MaxRow)] /\ file[r][L] \in Seq(-2 .. MaxRow)
    BY <1>2 DEF TypeOK
  <2>2. Read(L, ChunkRows(w, c, L, r)) \in Seq(-2 .. MaxRow)
    BY <1>2, ChunkRowsAre, ReadIs
  <2> QED BY <2>1, <2>2, ConcatProperties
<1>15. file' \in [Reqs -> [Layers -> Seq(-2 .. MaxRow)]]
  BY <1>5, <1>14
<1>16. \A r \in Reqs : \A M \in Layers : file'[r][M] =
         IF M = L THEN file[r][L] \o Read(L, ChunkRows(w, c, L, r)) ELSE file[r][M]
  BY <1>2, <1>5, <1>14
<1> HIDE DEF p
<1>17. /\ worker'[w] \in Passes
       /\ worker'[w].pc = "batch" /\ worker'[w].seq = p.seq /\ worker'[w].next = p.next
       /\ worker'[w].ready = p.ready /\ worker'[w].todo = p.todo \ {<<c, L>>}
       /\ worker'[w].known = p.known /\ worker'[w].floors = p.floors
       /\ worker'[w].due = p.due /\ worker'[w].freed = p.freed /\ worker'[w].target = p.target
  BY <1>3, <1>12, <1>13 DEF todo
<1>18. \A r \in Reqs : worker'[w].wrote[r] =
         [first |-> p.wrote[r].first + (IF L \in Mine(r, w) /\ L = FirstMine(r, w)
                                        THEN Cardinality(ChunkRows(w, c, L, r)) ELSE 0),
          all |-> p.wrote[r].all + Cardinality(ChunkRows(w, c, L, r))]
  <2>1. worker'[w].wrote = wrote
    BY <1>12, <1>13
  <2> QED BY <1>9, <1>10, <2>1
<1> QED
  BY <1>1, <1>2, <1>3, <1>13, <1>15, <1>16, <1>17, <1>18, Zenon DEF p, Scattered

-----------------------------------------------------------------------------
(* What has been copied. *)

LEMMA StampedRows ==
  ASSUME TypeOK, ChainInv, NEW n \in 0 .. Len(chain), NEW r \in StampsTo(n)
  PROVE  RowsOf(r, 0, UpTo(n)) = RowsOf(r, 0, MaxRow)
<1> DEFINE u == UpTo(n)
<1>1. u \in 0 .. MaxRow /\ MaxRow \in Nat /\ RowsOf(r, u, MaxRow) = {}
  <2>1. \A m \in 0 .. Len(chain) : \A s \in StampsTo(m) : RowsOf(s, UpTo(m), MaxRow) = {}
    BY ChainIs
  <2>2. RowsOf(r, u, MaxRow) = {}
    BY <2>1, Zenon
  <2>3. u \in 0 .. MaxRow
    BY ChainIs
  <2> QED BY <2>2, <2>3, Sizes
<1> HIDE DEF u
<1>2. \A i \in Nat : i < MaxRow /\ OwnerOf[i + 1] = r => i < u
  <2> SUFFICES ASSUME NEW i \in Nat, i < MaxRow, OwnerOf[i + 1] = r, ~(i < u) PROVE FALSE
    BY <1>1
  <2>1. i \in u .. MaxRow - 1
    BY <1>1
  <2>2. i \in RowsOf(r, u, MaxRow)
    BY <2>1 DEF RowsOf
  <2> QED BY <1>1, <2>2
<1>3. RowsOf(r, 0, u) = RowsOf(r, 0, MaxRow)
  BY <1>1, <1>2 DEF RowsOf
<1> QED BY <1>3 DEF u

LEMMA GotIs ==
  ASSUME TypeOK, ChainInv, NEW w \in Workers, PassInv(w), NEW r, NEW L
  PROVE  /\ worker[w].next \in 0 .. Len(chain) /\ worker[w].seq \in 0 .. Len(chain)
         /\ UpTo(worker[w].next) \in Nat /\ UpTo(worker[w].seq) \in Nat
         /\ UpTo(worker[w].seq) <= UpTo(worker[w].next) /\ UpTo(worker[w].next) <= MaxRow
         /\ Got(w, r, L) \in SUBSET (0 .. MaxRow) /\ Got(w, r, L) \in SUBSET Nat
         /\ IsFiniteSet(Got(w, r, L))
         /\ \A i \in Nat : i \in Got(w, r, L) <=>
              /\ i < UpTo(worker[w].next) /\ OwnerOf[i + 1] = r
              /\ \A x \in worker[w].todo : x[2] = L => ~(x[1] <= i /\ i <= x[1] + BatchRows - 1)
<1> DEFINE u == UpTo(worker[w].next)
           G == Got(w, r, L)
<1>1. worker[w].next \in 0 .. Len(chain) /\ worker[w].seq \in 0 .. Len(chain)
  BY PassTypes, ChainIs DEF PassInv
<1>2. u \in 0 .. MaxRow /\ MaxRow \in Nat /\ UpTo(worker[w].seq) \in 0 .. MaxRow
  BY <1>1, ChainIs, Sizes
<1>3. UpTo(worker[w].seq) <= u
  BY <1>1, PassTypes, ChainIs DEF PassInv
<1>4. G = RowsOf(r, 0, u) \ Left(w, L)
  BY DEF Got
<1>5. \A i \in Nat : i \in Left(w, L) <=>
        \E x \in worker[w].todo : x[2] = L /\ x[1] <= i /\ i <= x[1] + BatchRows - 1
  <2>1. \A x \in worker[w].todo : x[1] \in Nat /\ BatchRows \in Nat
    BY <1>2, PassTypes, GatherAssumption
  <2> SUFFICES ASSUME NEW i \in Nat
               PROVE  i \in Left(w, L) <=>
                        \E x \in worker[w].todo : x[2] = L /\ x[1] <= i /\ i <= x[1] + BatchRows - 1
    OBVIOUS
  <2>2. \A x \in worker[w].todo :
          i \in x[1] .. x[1] + BatchRows - 1 <=> x[1] <= i /\ i <= x[1] + BatchRows - 1
    BY <2>1
  <2> QED BY <2>2, Zenon DEF Left
<1> HIDE DEF u, G
<1>6. \A i \in Nat : i \in RowsOf(r, 0, u) <=> i < u /\ OwnerOf[i + 1] = r
  BY <1>2 DEF RowsOf
<1>7. RowsOf(r, 0, u) \in SUBSET Nat /\ IsFiniteSet(RowsOf(r, 0, u))
      /\ RowsOf(r, 0, u) \in SUBSET (0 .. MaxRow)
  <2>1. RowsOf(r, 0, u) \in SUBSET Nat /\ IsFiniteSet(RowsOf(r, 0, u))
    <3>1. u \in Nat /\ 0 \in Nat
      BY <1>2
    <3> QED BY <3>1, RowsAre, Zenon
  <2>2. RowsOf(r, 0, u) \in SUBSET (0 .. MaxRow)
    BY <1>2 DEF RowsOf
  <2> QED BY <2>1, <2>2
<1>8. G \in SUBSET (0 .. MaxRow) /\ G \in SUBSET Nat /\ IsFiniteSet(G)
  BY <1>4, <1>7, FS_Subset
<1>9. \A i \in Nat : i \in G <=>
        /\ i < u /\ OwnerOf[i + 1] = r
        /\ \A x \in worker[w].todo : x[2] = L => ~(x[1] <= i /\ i <= x[1] + BatchRows - 1)
  BY <1>4, <1>5, <1>6
<1> QED BY <1>1, <1>2, <1>3, <1>8, <1>9 DEF u, G

\* With nothing left of the batch every row is copied.
LEMMA AllGot ==
  ASSUME TypeOK, ChainInv, NEW w \in Workers, PassInv(w), worker[w].todo = {}
  PROVE  \A r, L : Got(w, r, L) = RowsOf(r, 0, UpTo(worker[w].next))
<1>1. \A L : Left(w, L) = {}
  BY DEF Left
<1> QED BY <1>1, Zenon DEF Got

\* So _finalize never meets a short request.
LEMMA ReadyIsWhole ==
  ASSUME TypeOK, ChainInv, NEW w \in Workers, PassInv(w), CopyInv(w),
         worker[w].pc = "batch", worker[w].todo = {},
         NEW r \in worker[w].ready, r \in worker[w].known, Mine(r, w) # {}
  PROVE  /\ worker[w].wrote[r].first = StampTotal(r)
         /\ worker[w].wrote[r].all = worker[w].wrote[r].first * Cardinality(Mine(r, w))
         /\ \A L \in Mine(r, w) : file[r][L] = Ascending(RowsOf(r, 0, MaxRow))
<1> DEFINE R == RowsOf(r, 0, MaxRow)
           M == Mine(r, w)
<1>1. r \in Reqs /\ worker[w].next \in 0 .. Len(chain) /\ r \in StampsTo(worker[w].next)
  <2>1. r \in StampsTo(worker[w].next)
    BY DEF PassInv
  <2> QED BY <2>1, PassTypes, GotIs
<1>2. \A L : Got(w, r, L) = R
  <2>1. RowsOf(r, 0, UpTo(worker[w].next)) = R
    BY <1>1, StampedRows
  <2> QED BY <2>1, AllGot
<1>3. IsFiniteSet(R) /\ R \in SUBSET (0 .. MaxRow) /\ Cardinality(R) \in Nat
  <2>1. Got(w, r, 0) \in SUBSET (0 .. MaxRow) /\ IsFiniteSet(Got(w, r, 0))
    BY GotIs
  <2> QED BY <1>2, <2>1, FS_CardinalityType
<1>4. /\ worker[w].wrote[r] =
           [first |-> IF M = {} THEN 0 ELSE Cardinality(Got(w, r, FirstMine(r, w))),
            all |-> Cardinality(Copied(w, r))]
      /\ worker[w].known = Met(w) \ Finished(w)
      /\ \A s \in Met(w) : \A L \in Mine(s, w) : file[s][L] = Ascending(Got(w, s, L))
  BY <1>1 DEF CopyInv
<1>5. Copied(w, r) = M \X R
  <2>1. Copied(w, r) = { x \in M \X (0 .. MaxRow) : x[2] \in R }
    BY <1>2 DEF Copied
  <2> HIDE DEF M, R
  <2> QED BY <1>3, <2>1
<1>6. IsFiniteSet(M) /\ Cardinality(M) \in Nat
  BY <1>1, SharesAre, FS_CardinalityType
<1>7. Cardinality(Copied(w, r)) = Cardinality(M) * Cardinality(R)
  BY <1>3, <1>5, <1>6, FS_Product
<1>8. StampTotal(r) = Cardinality(R)
  BY DEF StampTotal
<1>9. worker[w].wrote[r].first = Cardinality(R)
  BY <1>2, <1>4
<1>10. worker[w].wrote[r].all = Cardinality(M) * Cardinality(R)
  BY <1>4, <1>7
<1>11. \A L \in M : file[r][L] = Ascending(R)
  BY <1>2, <1>4
<1> HIDE DEF M, R
<1>12. Cardinality(M) * Cardinality(R) = Cardinality(R) * Cardinality(M)
  BY <1>3, <1>6
<1> QED BY <1>8, <1>9, <1>10, <1>11, <1>12 DEF M, R

-----------------------------------------------------------------------------
(* What the other steps make of a pass. *)

LEMMA FinalizeIs ==
  ASSUME TypeOK, ChainInv, NEW w \in Workers, PassInv(w), CopyInv(w), Finalize(w)
  PROVE  /\ worker[w].pc = "batch" /\ worker[w].todo = {}
         /\ worker' = [worker EXCEPT ![w] = worker'[w]] /\ worker'[w] \in Passes
         /\ worker'[w].pc = "batch" /\ worker'[w].seq = worker[w].seq
         /\ worker'[w].next = worker[w].next /\ worker'[w].todo = {}
         /\ worker'[w].floors = worker[w].floors /\ worker'[w].due = worker[w].due
         /\ worker'[w].freed = worker[w].freed /\ worker'[w].target = worker[w].target
         /\ \E r \in worker[w].ready :
              /\ worker'[w].ready = worker[w].ready \ {r}
              /\ worker'[w].known = worker[w].known \ {r}
              /\ worker'[w].wrote = [worker[w].wrote EXCEPT ![r] = [first |-> 0, all |-> 0]]
              /\ \/ manifests' = manifests
                 \/ /\ WithManifest(r, w, StampTotal(r))
                    /\ StampTotal(r) > 0 =>
                         /\ Mine(r, w) # {}
                         /\ \A L \in Mine(r, w) : file[r][L] = Ascending(RowsOf(r, 0, MaxRow))
<1> DEFINE p == worker[w]
           r == CHOOSE r \in p.ready : TRUE
           popped == [p EXCEPT !.ready = @ \ {r}, !.known = @ \ {r},
                               !.wrote[r] = [first |-> 0, all |-> 0]]
<1>1. p.pc = "batch" /\ p.todo = {} /\ p.ready # {} /\ FinalizeRequest(w, r)
  BY DEF Finalize
<1>2. r \in p.ready /\ r \in Reqs /\ p \in Passes
  BY <1>1, PassTypes
<1> HIDE DEF r
<1>3. r \in p.known /\ Mine(r, w) # {} =>
        /\ p.wrote[r].first = StampTotal(r)
        /\ p.wrote[r].all = p.wrote[r].first * Cardinality(Mine(r, w))
        /\ \A L \in Mine(r, w) : file[r][L] = Ascending(RowsOf(r, 0, MaxRow))
  BY <1>1, <1>2, ReadyIsWhole
<1>4. /\ worker' = [worker EXCEPT ![w] = popped]
      /\ \/ manifests' = manifests
         \/ /\ WithManifest(r, w, StampTotal(r))
            /\ StampTotal(r) > 0 =>
                 /\ Mine(r, w) # {}
                 /\ \A L \in Mine(r, w) : file[r][L] = Ascending(RowsOf(r, 0, MaxRow))
  <2> DEFINE whole == /\ p.wrote[r].first = StampTotal(r)
                      /\ p.wrote[r].all = p.wrote[r].first * Cardinality(Mine(r, w))
  <2>1. CASE r \notin p.known /\ StampTotal(r) = 0 /\ w = 0
    <3>1. WithManifest(r, 0, 0) /\ worker' = [worker EXCEPT ![w] = popped]
      BY <1>1, <2>1 DEF FinalizeRequest
    <3>2. WithManifest(r, w, StampTotal(r))
      BY <2>1, <3>1
    <3>3. ~(StampTotal(r) > 0)
      BY <2>1
    <3> QED BY <3>1, <3>2, <3>3
  <2>2. CASE r \in p.known /\ Mine(r, w) # {}
    <3>1. whole
      BY <1>3, <2>2
    <3>2. WithManifest(r, w, StampTotal(r)) /\ worker' = [worker EXCEPT ![w] = popped]
      BY <1>1, <2>2, <3>1, Zenon DEF FinalizeRequest
    <3> QED BY <1>3, <2>2, <3>2
  <2>3. CASE /\ ~(r \notin p.known /\ StampTotal(r) = 0 /\ w = 0)
             /\ ~(r \in p.known /\ Mine(r, w) # {})
    <3>1. manifests' = manifests /\ worker' = [worker EXCEPT ![w] = popped]
      BY <1>1, <2>3 DEF FinalizeRequest
    <3> QED BY <3>1
  <2> QED BY <2>1, <2>2, <2>3
<1>5. /\ popped \in Passes
      /\ popped.pc = p.pc /\ popped.seq = p.seq /\ popped.next = p.next /\ popped.todo = p.todo
      /\ popped.ready = p.ready \ {r} /\ popped.known = p.known \ {r}
      /\ popped.wrote = [p.wrote EXCEPT ![r] = [first |-> 0, all |-> 0]]
      /\ popped.floors = p.floors /\ popped.due = p.due /\ popped.freed = p.freed
      /\ popped.target = p.target
  <2> HIDE DEF p
  <2>1. [p.wrote EXCEPT ![r] = [first |-> 0, all |-> 0]] \in [Reqs -> [first : Nat, all : Nat]]
    BY <1>2 DEF Passes
  <2> QED BY <1>2, <2>1 DEF Passes
<1> HIDE DEF popped
<1>6. worker' = [worker EXCEPT ![w] = worker'[w]] /\ worker'[w] = popped
  BY <1>4 DEF TypeOK
<1> HIDE DEF p
<1> QED BY <1>1, <1>2, <1>4, <1>5, <1>6 DEF p

LEMMA ReportIs ==
  ASSUME TypeOK, NEW w \in Workers, CursorRow(w) \in Nat, Report(w)
  PROVE  /\ worker[w].pc = "batch" /\ worker[w].todo = {} /\ worker[w].ready = {}
         /\ worker' = [worker EXCEPT ![w] = worker'[w]] /\ worker'[w] \in Passes
         /\ worker'[w].pc = "idle" /\ worker'[w].seq = worker[w].next
         /\ worker'[w].next = worker[w].next /\ worker'[w].todo = {} /\ worker'[w].ready = {}
         /\ worker'[w].known = worker[w].known /\ worker'[w].wrote = worker[w].wrote
         /\ \A L \in Layers : worker'[w].floors[L] = 0
         /\ worker'[w].due = worker[w].due /\ worker'[w].freed = worker[w].freed
         /\ marker' \in [Workers -> [at : Nat, floor : [Layers -> Nat]]]
         /\ \A v \in Workers : /\ marker'[v].floor = marker[v].floor
                               /\ \/ marker'[v].at = marker[v].at
                                  \/ v = w /\ marker'[v].at = UpTo(worker[w].next)
<1> DEFINE p == worker[w]
           q == [p EXCEPT !.pc = "idle", !.seq = p.next, !.reported = TRUE,
                          !.floors = [L \in Layers |-> 0]]
<1>1. p.pc = "batch" /\ p.todo = {} /\ p.ready = {}
  BY DEF Report, Delivered
<1>2. worker' = [worker EXCEPT ![w] = q]
  BY DEF Report, TypeOK
<1>3. p \in Passes
  BY PassTypes
<1>4. /\ q \in Passes /\ q.pc = "idle" /\ q.seq = p.next /\ q.next = p.next /\ q.todo = p.todo
      /\ q.ready = p.ready /\ q.known = p.known /\ q.wrote = p.wrote
      /\ q.floors = [L \in Layers |-> 0] /\ q.due = p.due /\ q.freed = p.freed
  <2> HIDE DEF p
  <2> QED BY <1>3 DEF Passes
<1> HIDE DEF q
<1>5. worker' = [worker EXCEPT ![w] = worker'[w]] /\ worker'[w] = q
  BY <1>2 DEF TypeOK
<1>6. marker' = marker \/ marker' = [marker EXCEPT ![w].at = UpTo(p.next)]
  BY DEF Report, CursorRow
<1>7. UpTo(p.next) \in Nat
  BY DEF CursorRow
<1>8. /\ marker' \in [Workers -> [at : Nat, floor : [Layers -> Nat]]]
      /\ \A v \in Workers : /\ marker'[v].floor = marker[v].floor
                            /\ \/ marker'[v].at = marker[v].at
                               \/ v = w /\ marker'[v].at = UpTo(p.next)
  <2> DEFINE u == UpTo(p.next)
  <2>1. u \in Nat /\ (marker' = marker \/ marker' = [marker EXCEPT ![w].at = u])
    BY <1>6, <1>7
  <2> HIDE DEF u
  <2>2. marker \in [Workers -> [at : Nat, floor : [Layers -> Nat]]]
    BY DEF TypeOK
  <2>3. /\ marker' \in [Workers -> [at : Nat, floor : [Layers -> Nat]]]
        /\ \A v \in Workers : /\ marker'[v].floor = marker[v].floor
                              /\ marker'[v].at = marker[v].at \/ (v = w /\ marker'[v].at = u)
    BY <2>1, <2>2
  <2> QED BY <2>3 DEF u
<1> HIDE DEF p
<1> QED BY <1>1, <1>4, <1>5, <1>8 DEF p

LEMMA AnnounceIs ==
  ASSUME TypeOK, NEW w \in Workers, CursorRow(w) \in Nat, Announce(w)
  PROVE  /\ worker[w].pc = "batch" /\ worker[w].todo = {} /\ worker[w].ready = {}
         /\ worker' = [worker EXCEPT ![w] = worker'[w]] /\ worker'[w] \in Passes
         /\ worker'[w].pc = "punch" /\ worker'[w].seq = worker[w].next
         /\ worker'[w].next = worker[w].next /\ worker'[w].todo = {} /\ worker'[w].ready = {}
         /\ worker'[w].known = worker[w].known /\ worker'[w].wrote = worker[w].wrote
         /\ \A L \in Layers : worker'[w].floors[L] = 0
         /\ worker'[w].due = Due(w) /\ worker'[w].freed = worker[w].freed
         /\ worker'[w].target = TrimTarget(w)
         /\ marker' \in [Workers -> [at : Nat, floor : [Layers -> Nat]]]
         /\ \A v \in Workers \ {w} : marker'[v] = marker[v]
         /\ marker'[w].at = UpTo(worker[w].next)
         /\ \A L \in Layers : marker'[w].floor[L] =
              IF L \in Due(w) THEN FloorRow(TrimTarget(w)) ELSE marker[w].floor[L]
<1> DEFINE p == worker[w]
           d == Due(w)
           t == TrimTarget(w)
           q == [p EXCEPT !.pc = "punch", !.seq = p.next, !.reported = TRUE,
                          !.floors = [L \in Layers |-> 0], !.due = d, !.target = t]
<1>1. p.pc = "batch" /\ p.todo = {} /\ p.ready = {}
  BY DEF Announce, Delivered
<1>2. worker' = [worker EXCEPT ![w] = q]
  BY DEF Announce, TypeOK
<1>3. p \in Passes /\ d \subseteq Layers /\ t \in Nat /\ FloorRow(t) \in Nat
  <2>1. d \subseteq Layers
    BY DEF Due, TrimLayers
  <2> QED BY <2>1, PassTypes, TargetIs
<1> DEFINE e == FloorRow(t)
           u == UpTo(p.next)
           floor == [L \in Layers |-> IF L \in d THEN e ELSE marker[w].floor[L]]
<1>4. u \in Nat
  BY DEF CursorRow
<1>5. marker' = [marker EXCEPT ![w].at = u, ![w].floor = floor]
  BY DEF Announce, CursorRow
<1> HIDE DEF d, t
<1>6. /\ q \in Passes /\ q.pc = "punch" /\ q.seq = p.next /\ q.next = p.next /\ q.todo = p.todo
      /\ q.ready = p.ready /\ q.known = p.known /\ q.wrote = p.wrote
      /\ q.floors = [L \in Layers |-> 0] /\ q.due = d /\ q.freed = p.freed /\ q.target = t
  <2> HIDE DEF p
  <2> QED BY <1>3 DEF Passes
<1> HIDE DEF q
<1>7. worker' = [worker EXCEPT ![w] = worker'[w]] /\ worker'[w] = q
  BY <1>2 DEF TypeOK
<1>8. marker \in [Workers -> [at : Nat, floor : [Layers -> Nat]]]
  BY DEF TypeOK
<1>9. e \in Nat
  BY <1>3
<1> HIDE DEF e, u
<1>10. floor \in [Layers -> Nat]
  BY <1>8, <1>9
<1>11. \A L \in Layers : floor[L] = IF L \in d THEN e ELSE marker[w].floor[L]
  OBVIOUS
<1> HIDE DEF floor
<1>12. /\ marker' \in [Workers -> [at : Nat, floor : [Layers -> Nat]]]
       /\ \A v \in Workers \ {w} : marker'[v] = marker[v]
       /\ marker'[w].at = u /\ marker'[w].floor = floor
  BY <1>4, <1>5, <1>8, <1>10
<1> HIDE DEF p
<1> QED BY <1>1, <1>6, <1>7, <1>11, <1>12 DEF p, d, t, e, u

LEMMA PunchIs ==
  ASSUME TypeOK, NEW w \in Workers, NEW L, Punch(w, L)
  PROVE  /\ worker[w].pc = "punch" /\ L \in worker[w].due
         /\ worker' = [worker EXCEPT ![w] = worker'[w]] /\ worker'[w] \in Passes
         /\ worker'[w].seq = worker[w].seq /\ worker'[w].next = worker[w].next
         /\ worker'[w].todo = worker[w].todo /\ worker'[w].ready = worker[w].ready
         /\ worker'[w].known = worker[w].known /\ worker'[w].wrote = worker[w].wrote
         /\ worker'[w].floors = worker[w].floors
         /\ worker'[w].due = worker[w].due \ {L}
         /\ worker'[w].freed = [worker[w].freed EXCEPT ![L] = worker[w].target]
         /\ \/ worker'[w].pc = "idle" /\ worker'[w].due = {}
            \/ worker'[w].pc = "punch" /\ worker'[w].target = worker[w].target
         /\ punched' = [punched EXCEPT ![L] = worker[w].target]
<1> DEFINE p == worker[w]
           q == [p EXCEPT !.due = @ \ {L}, !.freed[L] = p.target,
                          !.target = IF p.due = {L} THEN 0 ELSE @,
                          !.pc = IF p.due = {L} THEN "idle" ELSE @]
<1>1. p.pc = "punch" /\ L \in p.due /\ punched' = [punched EXCEPT ![L] = p.target]
  BY DEF Punch
<1>2. worker' = [worker EXCEPT ![w] = q]
  BY DEF Punch
<1>3. p \in Passes /\ L \in Layers
  BY <1>1, PassTypes
<1>4. /\ q \in Passes /\ q.seq = p.seq /\ q.next = p.next /\ q.todo = p.todo
      /\ q.ready = p.ready /\ q.known = p.known /\ q.wrote = p.wrote
      /\ q.floors = p.floors /\ q.due = p.due \ {L}
      /\ q.freed = [p.freed EXCEPT ![L] = p.target]
      /\ (q.pc = "idle" /\ q.due = {}) \/ (q.pc = "punch" /\ q.target = p.target)
  <2>1. [p.freed EXCEPT ![L] = p.target] \in [Layers -> Nat]
    BY PassTypes
  <2> HIDE DEF p
  <2> QED BY <1>1, <1>3, <2>1 DEF Passes
<1> HIDE DEF q
<1>5. worker' = [worker EXCEPT ![w] = worker'[w]] /\ worker'[w] = q
  BY <1>2 DEF TypeOK
<1> HIDE DEF p
<1> QED BY <1>1, <1>4, <1>5 DEF p

LEMMA EndIs ==
  ASSUME TypeOK, NEW w \in Workers, Done(w) \/ Die(w)
  PROVE  /\ worker' = [worker EXCEPT ![w] = worker'[w]] /\ worker'[w] \in Passes
         /\ worker'[w].seq = worker[w].seq /\ worker'[w].next = worker[w].next
         /\ worker'[w].ready = worker[w].ready
         /\ worker'[w].known = worker[w].known /\ worker'[w].wrote = worker[w].wrote
         /\ worker'[w].floors = worker[w].floors /\ worker'[w].freed = worker[w].freed
         /\ worker'[w].target = worker[w].target
         /\ \/ /\ worker[w].pc = "idle" /\ worker'[w].pc = "done"
               /\ worker'[w].todo = worker[w].todo /\ worker'[w].due = worker[w].due
            \/ worker'[w].pc = "dead" /\ worker'[w].todo = {} /\ worker'[w].due = {}
<1> DEFINE p == worker[w]
           q == IF Done(w) THEN [p EXCEPT !.pc = "done"]
                ELSE [p EXCEPT !.pc = "dead", !.todo = {}, !.due = {}]
<1>1. worker' = [worker EXCEPT ![w] = q] /\ (Done(w) => p.pc = "idle")
  BY DEF Done, Die, TypeOK
<1>2. p \in Passes
  BY PassTypes
<1>3. /\ q \in Passes /\ q.seq = p.seq /\ q.next = p.next
      /\ q.ready = p.ready /\ q.known = p.known /\ q.wrote = p.wrote
      /\ q.floors = p.floors /\ q.freed = p.freed /\ q.target = p.target
      /\ \/ Done(w) /\ q.pc = "done" /\ q.todo = p.todo /\ q.due = p.due
         \/ q.pc = "dead" /\ q.todo = {} /\ q.due = {}
  <2> HIDE DEF p
  <2> QED BY <1>2 DEF Passes
<1> HIDE DEF q
<1>4. worker' = [worker EXCEPT ![w] = worker'[w]] /\ worker'[w] = q
  BY <1>1 DEF TypeOK
<1> HIDE DEF p
<1> QED BY <1>1, <1>3, <1>4 DEF p

-----------------------------------------------------------------------------
(* Frames. *)

\* The chain only grows at its end.
ChainKept ==
  /\ Len(chain) <= Len(chain')
  /\ \A n \in 0 .. Len(chain) : UpTo(n)' = UpTo(n) /\ StampsTo(n)' = StampsTo(n)

LEMMA SameChain ==
  ASSUME TypeOK, ChainInv, chain' = chain
  PROVE  ChainKept /\ ChainInv'
<1>1. Len(chain) <= Len(chain')
  BY ChainIs
<1>2. ASSUME NEW n \in 0 .. Len(chain) PROVE UpTo(n)' = UpTo(n) /\ StampsTo(n)' = StampsTo(n)
  BY DEF UpTo, StampsTo
<1>3. ChainInv'
  BY DEF ChainInv
<1> QED BY <1>1, <1>2, <1>3 DEF ChainKept

LEMMA PublishChain ==
  ASSUME TypeOK, ChainInv, NEW hi \in 0 .. MaxRow, NEW stamps \in SUBSET Reqs,
         NEW final \in BOOLEAN, Publish(hi, stamps, final)
  PROVE  ChainKept /\ ChainInv'
<1> DEFINE seg == [upTo |-> hi, stamps |-> stamps, final |-> final]
           k == Len(chain)
<1>1. /\ chain' = Append(chain, seg) /\ UpTo(k) <= hi
      /\ \A r \in stamps : r \notin StampsTo(k) /\ RowsOf(r, hi, MaxRow) = {}
  <2>1. hi \in UpTo(k) .. MaxRow
    BY DEF Publish
  <2>2. UpTo(k) \in Nat
    BY ChainIs
  <2> QED BY <2>1, <2>2 DEF Publish, Stamped
<1>2. /\ k \in Nat /\ Len(chain') = k + 1 /\ DOMAIN chain = 1 .. k /\ DOMAIN chain' = 1 .. k + 1
      /\ \A n \in 1 .. k : chain'[n] = chain[n]
      /\ chain'[k + 1].upTo = hi /\ chain'[k + 1].stamps = stamps
  <2>1. chain \in Seq([upTo : 0 .. MaxRow, stamps : SUBSET Reqs, final : BOOLEAN])
    BY DEF TypeOK
  <2>2. seg \in [upTo : 0 .. MaxRow, stamps : SUBSET Reqs, final : BOOLEAN]
    OBVIOUS
  <2>3. seg.upTo = hi /\ seg.stamps = stamps
    OBVIOUS
  <2> HIDE DEF seg, k
  <2>4. /\ Len(chain) \in Nat /\ Len(chain') = Len(chain) + 1
        /\ DOMAIN chain = 1 .. Len(chain) /\ DOMAIN chain' = 1 .. Len(chain) + 1
        /\ \A n \in 1 .. Len(chain) : chain'[n] = chain[n]
        /\ chain'[Len(chain) + 1] = seg
    BY <1>1, <2>1, <2>2
  <2> QED BY <2>3, <2>4 DEF k
<1> HIDE DEF seg
<1>3. ASSUME NEW n \in 0 .. k PROVE UpTo(n)' = UpTo(n) /\ StampsTo(n)' = StampsTo(n)
  <2>1. UpTo(n)' = UpTo(n)
    BY <1>2 DEF UpTo
  <2>2. \A i \in 1 .. n : chain'[i] = chain[i]
    BY <1>2
  <2>3. StampsTo(n)' = StampsTo(n)
    BY <2>2 DEF StampsTo
  <2> QED BY <2>1, <2>3
<1>4. \A n \in 1 .. k : chain[n].upTo <= hi /\ chain[n].upTo \in Nat
  <2> SUFFICES ASSUME NEW n \in 1 .. k PROVE chain[n].upTo <= hi /\ chain[n].upTo \in Nat
    OBVIOUS
  <2>1. n \in 0 .. k /\ k \in 0 .. k /\ n <= k
    BY <1>2
  <2>2. UpTo(n) <= UpTo(k) /\ UpTo(n) \in Nat /\ UpTo(k) \in Nat
    BY <2>1, ChainIs
  <2>3. UpTo(n) = chain[n].upTo
    BY <1>2 DEF UpTo
  <2> QED BY <1>1, <2>2, <2>3, Sizes
<1>5. /\ \A m, n \in 1 .. k : m <= n => chain[m].upTo <= chain[n].upTo
      /\ \A m, n \in 1 .. k : m # n => chain[m].stamps \cap chain[n].stamps = {}
  BY <1>2 DEF ChainInv
<1>6. \A m, n \in 1 .. k + 1 : m <= n => chain'[m].upTo <= chain'[n].upTo
  <2> SUFFICES ASSUME NEW m \in 1 .. k + 1, NEW n \in 1 .. k + 1, m <= n
               PROVE  chain'[m].upTo <= chain'[n].upTo
    OBVIOUS
  <2>1. CASE n \in 1 .. k
    <3>1. m \in 1 .. k
      BY <1>2, <2>1
    <3>2. chain'[m] = chain[m] /\ chain'[n] = chain[n]
      BY <1>2, <2>1, <3>1
    <3>3. chain[m].upTo <= chain[n].upTo
      BY <1>5, <2>1, <3>1, Zenon
    <3> QED BY <3>2, <3>3, Zenon
  <2>2. CASE n = k + 1 /\ m \in 1 .. k
    BY <1>2, <1>4, <2>2
  <2>3. CASE n = k + 1 /\ m = k + 1
    BY <1>2, <2>3
  <2> QED BY <1>2, <2>1, <2>2, <2>3
<1>7. \A n \in 1 .. k : chain[n].stamps \cap stamps = {}
  <2>1. \A n \in 1 .. k : chain[n].stamps \subseteq StampsTo(k)
    BY DEF StampsTo
  <2> QED BY <1>1, <2>1
<1>8. \A m, n \in 1 .. k + 1 : m # n => chain'[m].stamps \cap chain'[n].stamps = {}
  <2> SUFFICES ASSUME NEW m \in 1 .. k + 1, NEW n \in 1 .. k + 1, m # n
               PROVE  chain'[m].stamps \cap chain'[n].stamps = {}
    OBVIOUS
  <2>1. CASE m \in 1 .. k /\ n \in 1 .. k
    BY <1>2, <1>5, <2>1
  <2>2. CASE m \in 1 .. k /\ n = k + 1
    BY <1>2, <1>7, <2>2
  <2>3. CASE m = k + 1 /\ n \in 1 .. k
    BY <1>2, <1>7, <2>3
  <2> QED BY <1>2, <2>1, <2>2, <2>3
<1>9. \A n \in 1 .. k + 1 : \A r \in chain'[n].stamps : RowsOf(r, chain'[n].upTo, MaxRow) = {}
  <2> SUFFICES ASSUME NEW n \in 1 .. k + 1, NEW r \in chain'[n].stamps
               PROVE  RowsOf(r, chain'[n].upTo, MaxRow) = {}
    OBVIOUS
  <2>1. CASE n \in 1 .. k
    <3>1. chain'[n] = chain[n] /\ n \in DOMAIN chain
      BY <1>2, <2>1
    <3> QED BY <3>1 DEF ChainInv
  <2>2. CASE n = k + 1
    BY <1>1, <1>2, <2>2
  <2> QED BY <1>2, <2>1, <2>2
<1>10. ChainInv'
  BY <1>2, <1>6, <1>8, <1>9 DEF ChainInv
<1> QED BY <1>2, <1>3, <1>10 DEF ChainKept

LEMMA SameBatch ==
  ASSUME TypeOK, ChainInv, ChainKept, NEW v \in Workers, PassInv(v),
         worker'[v].next = worker[v].next
  PROVE  /\ UpTo(worker[v].next)' = UpTo(worker[v].next)
         /\ StampsTo(worker[v].next)' = StampsTo(worker[v].next)
         /\ Met(v)' = Met(v)
         /\ worker'[v].ready = worker[v].ready => Finished(v)' = Finished(v)
         /\ worker'[v].todo = worker[v].todo =>
              \A r : Copied(v, r)' = Copied(v, r) /\ \A L : Got(v, r, L)' = Got(v, r, L)
<1>1. PICK n \in 0 .. Len(chain) : n = worker[v].next
  BY GotIs
<1>2. UpTo(n)' = UpTo(n) /\ StampsTo(n)' = StampsTo(n)
  BY DEF ChainKept
<1>3. UpTo(worker[v].next)' = UpTo(worker[v].next)
  BY <1>1, <1>2 DEF UpTo
<1>4. StampsTo(worker[v].next)' = StampsTo(worker[v].next)
  BY <1>1, <1>2 DEF StampsTo
<1>5. Met(v)' = Met(v)
  BY <1>3, Zenon DEF Met
<1>6. ASSUME worker'[v].ready = worker[v].ready PROVE Finished(v)' = Finished(v)
  BY <1>4, <1>6, Zenon DEF Finished
<1>7. ASSUME worker'[v].todo = worker[v].todo
      PROVE  \A r : Copied(v, r)' = Copied(v, r) /\ \A L : Got(v, r, L)' = Got(v, r, L)
  <2>1. \A L : Left(v, L)' = Left(v, L)
    BY <1>7, Zenon DEF Left
  <2>2. \A r, L : Got(v, r, L)' = Got(v, r, L)
    BY <1>3, <2>1, Zenon DEF Got
  <2>3. \A r : Copied(v, r)' = Copied(v, r)
    BY <2>2, Zenon DEF Copied
  <2> QED BY <2>2, <2>3
<1> QED BY <1>3, <1>4, <1>5, <1>6, <1>7

LEMMA SameSeq ==
  ASSUME TypeOK, ChainInv, ChainKept, NEW v \in Workers, PassInv(v),
         worker'[v].seq = worker[v].seq
  PROVE  /\ UpTo(worker[v].seq)' = UpTo(worker[v].seq)
         /\ StampsTo(worker[v].seq)' = StampsTo(worker[v].seq)
<1>1. PICK n \in 0 .. Len(chain) : n = worker[v].seq
  BY GotIs
<1>2. UpTo(n)' = UpTo(n) /\ StampsTo(n)' = StampsTo(n)
  BY DEF ChainKept
<1>3. UpTo(worker[v].seq)' = UpTo(worker[v].seq)
  BY <1>1, <1>2 DEF UpTo
<1>4. StampsTo(worker[v].seq)' = StampsTo(worker[v].seq)
  BY <1>1, <1>2 DEF StampsTo
<1> QED BY <1>3, <1>4

LEMMA PassKept ==
  ASSUME TypeOK, ChainInv, ChainKept, NEW v \in Workers, PassInv(v), worker'[v] = worker[v],
         Len(chain') \in Nat
  PROVE  PassInv(v)'
<1>1. /\ StampsTo(worker[v].next)' = StampsTo(worker[v].next)
      /\ StampsTo(worker[v].seq)' = StampsTo(worker[v].seq)
  BY SameBatch, SameSeq
<1>2. worker[v].next <= Len(chain')
  <2>1. worker[v].next \in Nat /\ worker[v].next <= Len(chain) /\ Len(chain) \in Nat
    BY PassTypes, ChainIs DEF PassInv
  <2> QED BY <2>1 DEF ChainKept
<1> QED BY <1>1, <1>2 DEF PassInv

LEMMA TodoKept ==
  ASSUME TypeOK, ChainInv, ChainKept, NEW v \in Workers, PassInv(v), TodoInv(v),
         worker'[v].next = worker[v].next, worker'[v].todo = worker[v].todo,
         worker'[v].seq = worker[v].seq
  PROVE  TodoInv(v)'
<1>1. /\ UpTo(worker[v].seq)' = UpTo(worker[v].seq)
      /\ \A r, L : Got(v, r, L)' = Got(v, r, L)
  BY SameBatch, SameSeq
<1> QED BY <1>1 DEF TodoInv

LEMMA NoTodo == ASSUME NEW v, worker'[v].todo = {} PROVE TodoInv(v)'
BY DEF TodoInv

LEMMA CopyKept ==
  ASSUME TypeOK, ChainInv, ChainKept, NEW v \in Workers, PassInv(v), CopyInv(v),
         worker[v].pc = "dead" => worker'[v].pc = "dead",
         worker'[v].next = worker[v].next, worker'[v].todo = worker[v].todo,
         worker'[v].ready = worker[v].ready, worker'[v].known = worker[v].known,
         worker'[v].wrote = worker[v].wrote,
         \A r \in Reqs : \A L \in Mine(r, v) : file'[r][L] = file[r][L]
  PROVE  CopyInv(v)'
<1>1. /\ Met(v)' = Met(v) /\ Finished(v)' = Finished(v)
      /\ \A r : Copied(v, r)' = Copied(v, r) /\ \A L : Got(v, r, L)' = Got(v, r, L)
  BY SameBatch
<1> SUFFICES ASSUME worker'[v].pc # "dead"
             PROVE  /\ worker'[v].known = Met(v)' \ Finished(v)'
                    /\ \A r \in Reqs : worker'[v].wrote[r] =
                         IF r \notin worker'[v].known THEN [first |-> 0, all |-> 0]
                         ELSE [first |-> IF Mine(r, v) = {} THEN 0
                                         ELSE Cardinality(Got(v, r, FirstMine(r, v))'),
                               all |-> Cardinality(Copied(v, r)')]
                    /\ \A r \in Met(v)' : \A L \in Mine(r, v) :
                         file'[r][L] = Ascending(Got(v, r, L)')
  BY DEF CopyInv
<1>2. /\ worker[v].known = Met(v) \ Finished(v)
      /\ \A r \in Reqs : worker[v].wrote[r] =
           IF r \notin worker[v].known THEN [first |-> 0, all |-> 0]
           ELSE [first |-> IF Mine(r, v) = {} THEN 0
                           ELSE Cardinality(Got(v, r, FirstMine(r, v))),
                 all |-> Cardinality(Copied(v, r))]
      /\ \A r \in Met(v) : \A L \in Mine(r, v) : file[r][L] = Ascending(Got(v, r, L))
  BY DEF CopyInv
<1>3. Met(v) \subseteq Reqs
  BY DEF Met
<1>4. worker'[v].known = Met(v)' \ Finished(v)'
  BY <1>1, <1>2
<1>5. \A r \in Reqs : worker'[v].wrote[r] =
        IF r \notin worker'[v].known THEN [first |-> 0, all |-> 0]
        ELSE [first |-> IF Mine(r, v) = {} THEN 0
                        ELSE Cardinality(Got(v, r, FirstMine(r, v))'),
              all |-> Cardinality(Copied(v, r)')]
  <2> SUFFICES ASSUME NEW r \in Reqs
               PROVE  worker'[v].wrote[r] =
                        IF r \notin worker'[v].known THEN [first |-> 0, all |-> 0]
                        ELSE [first |-> IF Mine(r, v) = {} THEN 0
                                        ELSE Cardinality(Got(v, r, FirstMine(r, v))'),
                              all |-> Cardinality(Copied(v, r)')]
    OBVIOUS
  <2>1. Copied(v, r)' = Copied(v, r) /\ Got(v, r, FirstMine(r, v))' = Got(v, r, FirstMine(r, v))
    BY <1>1
  <2> QED BY <1>2, <2>1, Zenon
<1>6. \A r \in Met(v)' : \A L \in Mine(r, v) : file'[r][L] = Ascending(Got(v, r, L)')
  <2> SUFFICES ASSUME NEW r \in Met(v), NEW L \in Mine(r, v)
               PROVE  file'[r][L] = Ascending(Got(v, r, L)')
    BY <1>1
  <2>1. Got(v, r, L)' = Got(v, r, L)
    BY <1>1
  <2> QED BY <1>2, <1>3, <2>1, Zenon
<1> QED BY <1>4, <1>5, <1>6

LEMMA TrimKept ==
  ASSUME TypeOK, ChainInv, ChainKept, NEW v \in Workers, PassInv(v), TrimInv(v),
         worker'[v].seq = worker[v].seq, worker'[v].floors = worker[v].floors,
         worker'[v].due = {} \/ (worker'[v].due = worker[v].due /\ worker'[v].target = worker[v].target),
         worker'[v].freed = worker[v].freed, marker' = marker, punched' = punched
  PROVE  TrimInv(v)'
<1>1. UpTo(worker[v].seq)' = UpTo(worker[v].seq)
  BY SameSeq
<1> QED BY <1>1 DEF TrimInv

\* Manifests stand as long as the files under them.
LEMMA ManifestKept ==
  ASSUME TypeOK, ManifestInv, manifests' = manifests,
         \A v \in Workers : Finished(v) \subseteq Finished(v)',
         \A v \in Workers : \A r \in Reqs : \A L \in Mine(r, v) :
           r \in Finished(v) => file'[r][L] = file[r][L]
  PROVE  ManifestInv'
<1> SUFFICES ASSUME NEW r \in Reqs, NEW m \in RunManifests(r)'
             PROVE  /\ m.n = StampTotal(r) /\ r \in Finished(m.worker)'
                    /\ m.n > 0 =>
                         /\ Mine(r, m.worker) # {}
                         /\ \A L \in Mine(r, m.worker) :
                              file'[r][L] = Ascending(RowsOf(r, 0, MaxRow))
  BY DEF ManifestInv
<1>1. m \in RunManifests(r) /\ m.worker \in Workers
  BY DEF RunManifests, TypeOK
<1>2. /\ m.n = StampTotal(r) /\ r \in Finished(m.worker)
      /\ m.n > 0 => /\ Mine(r, m.worker) # {}
                    /\ \A L \in Mine(r, m.worker) : file[r][L] = Ascending(RowsOf(r, 0, MaxRow))
  BY <1>1 DEF ManifestInv
<1>3. r \in Finished(m.worker)'
  <2>1. \A v \in Workers : r \in Finished(v) => r \in Finished(v)'
    OBVIOUS
  <2>2. PICK v \in Workers : v = m.worker
    BY <1>1
  <2> QED BY <1>2, <2>1, <2>2
<1>4. \A L \in Mine(r, m.worker) : file'[r][L] = file[r][L]
  BY <1>1, <1>2
<1> QED BY <1>2, <1>3, <1>4

LEMMA OthersKept ==
  ASSUME TypeOK, ChainInv, ChainKept, Len(chain') \in Nat,
         NEW v \in Workers, PassInv(v), TodoInv(v), CopyInv(v), worker'[v] = worker[v],
         \A r \in Reqs : \A L \in Mine(r, v) : file'[r][L] = file[r][L]
  PROVE  PassInv(v)' /\ TodoInv(v)' /\ CopyInv(v)'
<1>1. PassInv(v)'
  BY PassKept
<1>2. TodoInv(v)'
  BY TodoKept
<1>3. CopyInv(v)'
  BY CopyKept
<1> QED BY <1>1, <1>2, <1>3

LEMMA TrimOthersKept ==
  ASSUME TypeOK, ChainInv, ChainKept, NEW v \in Workers, PassInv(v), TrimInv(v),
         worker'[v] = worker[v], marker' = marker, punched' = punched
  PROVE  TrimInv(v)'
BY TrimKept

-----------------------------------------------------------------------------
(* The publisher. *)

LEMMA PublisherStep ==
  ASSUME GatherInv, ChainKept, ChainInv', TypeOK',
         UNCHANGED <<worker, file, manifests, marker, punched>>
  PROVE  GatherInv'
<1>1. /\ TypeOK /\ ChainInv /\ ManifestInv
      /\ \A v \in Workers : PassInv(v) /\ TodoInv(v) /\ CopyInv(v) /\ TrimInv(v)
  BY DEF GatherInv
<1>2. Len(chain') \in Nat
  BY LenProperties DEF TypeOK
<1>3. ASSUME NEW v \in Workers PROVE PassInv(v)' /\ TodoInv(v)' /\ CopyInv(v)' /\ TrimInv(v)'
  BY <1>1, <1>2, OthersKept, TrimOthersKept
<1>4. \A v \in Workers : Finished(v) \subseteq Finished(v)'
  <2> SUFFICES ASSUME NEW v \in Workers PROVE Finished(v)' = Finished(v)
    OBVIOUS
  <2> QED BY <1>1, SameBatch
<1>5. ManifestInv'
  BY <1>1, <1>4, ManifestKept
<1> QED BY <1>3, <1>5 DEF GatherInv

-----------------------------------------------------------------------------
(* _consume_batch begins. *)

\* Every row of the batch is in the plan, of each of its layers that are here.
LEMMA PlanHolds ==
  ASSUME NEW w \in Workers, NEW lo \in Nat, NEW hi \in Nat, hi <= MaxRow,
         NEW r \in Reqs, NEW L \in Mine(r, w), NEW i \in RowsOf(r, lo, hi)
  PROVE  \E x \in Plan(w, lo, hi) : x[2] = L /\ x[1] <= i /\ i <= x[1] + BatchRows - 1
<1> DEFINE b == BatchRows
<1>1. b \in Nat \ {0} /\ L \in Layers /\ MaxRow \in Nat
  BY GatherAssumption, SharesAre, Sizes
<1>2. i \in Nat /\ lo <= i /\ i < hi /\ OwnerOf[i + 1] = r
  BY RowsAre
<1> HIDE DEF b
<1>3. i - lo \in Nat
  BY <1>2
<1>4. PICK k \in 0 .. i - lo : k % b = 0 /\ i - lo <= k + b - 1
  BY <1>1, <1>3, ChunkOf
<1> DEFINE c == lo + k
           x == <<c, L>>
<1>5. c \in lo .. hi - 1 /\ c \in Nat /\ c - lo = k /\ c <= i /\ i <= c + b - 1
  BY <1>1, <1>2, <1>3, <1>4
<1> DEFINE e == ChunkEnd(c, hi)
<1>6. e = IF c + b <= hi THEN c + b ELSE hi
  BY <1>5, ChunkEndIs DEF b
<1> HIDE DEF c, e
<1>7. i \in c .. e - 1
  BY <1>1, <1>2, <1>5, <1>6
<1>8. (c - lo) % b = 0
  BY <1>4, <1>5
<1>9. x \in (lo .. hi - 1) \X Layers /\ x[1] = c /\ x[2] = L
  BY <1>1, <1>5
<1> HIDE DEF x
<1>10. x \in Plan(w, lo, hi)
  <2>1. (x[1] - lo) % BatchRows = 0
    BY <1>8, <1>9 DEF b
  <2>2. \E j \in x[1] .. ChunkEnd(x[1], hi) - 1 : \E s \in Reqs :
          OwnerOf[j + 1] = s /\ x[2] \in Mine(s, w)
    BY <1>2, <1>7, <1>9 DEF e
  <2> QED BY <1>9, <2>1, <2>2 DEF Plan
<1> QED BY <1>5, <1>9, <1>10 DEF b

LEMMA PlanChunks ==
  ASSUME NEW w \in Workers, NEW lo \in Nat, NEW hi \in Nat, NEW x \in Plan(w, lo, hi)
  PROVE  /\ x[1] \in Nat /\ lo <= x[1] /\ x[1] < hi /\ x[2] \in Layers
         /\ (x[1] - lo) % BatchRows = 0
BY DEF Plan

LEMMA TakeBatchStep ==
  ASSUME GatherInv, NEW w \in Workers, NEW end, TakeBatch(w, end)
  PROVE  GatherInv'
<1> DEFINE p == worker[w]
           lo == UpTo(p.seq)
           hi == UpTo(end)
           seen == { r \in Reqs : RowsOf(r, lo, hi) # {} }
           fresh == seen \ p.known
<1>1. /\ TypeOK /\ ChainInv /\ ManifestInv
      /\ \A v \in Workers : PassInv(v) /\ TodoInv(v) /\ CopyInv(v) /\ TrimInv(v)
  BY DEF GatherInv
<1>2. /\ p.pc = "idle" /\ p.seq = p.next /\ p.todo = {} /\ p.ready = {} /\ p.due = {}
      /\ p.seq \in 0 .. Len(chain) /\ end \in p.seq + 1 .. Len(chain)
      /\ worker' = [worker EXCEPT ![w] = worker'[w]] /\ worker'[w] \in Passes
      /\ worker'[w].pc = "batch" /\ worker'[w].seq = p.seq /\ worker'[w].next = end
      /\ worker'[w].todo = Plan(w, lo, hi)
      /\ worker'[w].ready = StampsTo(end) \ StampsTo(p.seq)
      /\ worker'[w].known = p.known \cup seen
      /\ worker'[w].wrote = p.wrote
      /\ \A L \in Layers : worker'[w].floors[L] <= lo
      /\ worker'[w].due = {} /\ worker'[w].freed = p.freed /\ worker'[w].target = p.target
  <2>1. BatchTaken(w, end)
    BY <1>1, TakeBatchIs
  <2> QED BY <2>1 DEF BatchTaken
<1>3. /\ UNCHANGED chain /\ UNCHANGED publisher /\ UNCHANGED manifests
      /\ UNCHANGED marker /\ UNCHANGED punched
  BY DEF TakeBatch
<1>4. file' = [r \in Reqs |-> [L \in Layers |->
                 IF r \in fresh /\ L \in Mine(r, w) THEN <<>> ELSE file[r][L]]]
  BY DEF TakeBatch, Touch
<1>5. /\ worker' \in [Workers -> Passes]
      /\ \A v \in Workers \ {w} : worker'[v] = worker[v]
  BY <1>1, <1>2, OnePass
<1>6. /\ Len(chain) \in Nat /\ end \in 0 .. Len(chain) /\ lo \in 0 .. MaxRow /\ hi \in 0 .. MaxRow
      /\ lo <= hi /\ StampsTo(p.seq) \subseteq StampsTo(end) /\ MaxRow \in Nat
  <2>1. Len(chain) \in Nat
    BY <1>1, ChainIs
  <2>2. end \in 0 .. Len(chain) /\ p.seq <= end
    BY <1>2, <2>1
  <2>3. lo <= hi /\ StampsTo(p.seq) \subseteq StampsTo(end)
    BY <1>1, <1>2, <2>2, ChainIs
  <2>4. lo \in 0 .. MaxRow /\ hi \in 0 .. MaxRow
    BY <1>1, <1>2, <2>2, ChainIs
  <2> QED BY <2>1, <2>2, <2>3, <2>4, Sizes
<1>7. ChainKept /\ ChainInv'
  BY <1>1, <1>3, SameChain
<1>8. \A r \in Reqs : r \in fresh \/ r \in p.known => r \notin StampsTo(p.seq)
  <2>1. \A r \in p.known : r \notin StampsTo(p.seq)
    <3>1. p.known = Met(w) \ Finished(w) /\ Finished(w) = StampsTo(p.seq)
      BY <1>1, <1>2 DEF CopyInv, Finished
    <3> QED BY <3>1
  <2>2. ASSUME NEW r \in seen, r \in StampsTo(p.seq) PROVE FALSE
    <3>1. RowsOf(r, lo, MaxRow) = {}
      <4>1. \A n \in 0 .. Len(chain) : \A s \in StampsTo(n) : RowsOf(s, UpTo(n), MaxRow) = {}
        BY <1>1, ChainIs
      <4> QED BY <1>2, <2>2, <4>1, Zenon
    <3>2. PICK i \in RowsOf(r, lo, hi) : TRUE
      BY <2>2
    <3> HIDE DEF lo, hi
    <3>3. i \in RowsOf(r, lo, MaxRow)
      BY <1>6, <3>2 DEF RowsOf
    <3> QED BY <3>1, <3>3
  <2> QED BY <2>1, <2>2
\* The files.
<1>9. \A v \in Workers : \A r \in Reqs : \A L \in Mine(r, v) :
        file'[r][L] = IF v = w /\ r \in fresh THEN <<>> ELSE file[r][L]
  <2> SUFFICES ASSUME NEW v \in Workers, NEW r \in Reqs, NEW L \in Mine(r, v)
               PROVE  file'[r][L] = IF v = w /\ r \in fresh THEN <<>> ELSE file[r][L]
    OBVIOUS
  <2>1. L \in Layers /\ (L \in Mine(r, w) <=> v = w)
    BY SharesAre
  <2> HIDE DEF fresh
  <2>2. file'[r][L] = IF r \in fresh /\ L \in Mine(r, w) THEN <<>> ELSE file[r][L]
    BY <1>4, <2>1
  <2> QED BY <2>1, <2>2
<1>10. TypeOK'
  <2> HIDE DEF fresh
  <2>1. file' \in [Reqs -> [Layers -> Seq(-2 .. MaxRow)]]
    <3>1. \A r \in Reqs : \A L \in Layers : file[r][L] \in Seq(-2 .. MaxRow)
      BY <1>1 DEF TypeOK
    <3>2. <<>> \in Seq(-2 .. MaxRow)
      BY EmptySeq
    <3> QED BY <1>4, <3>1, <3>2
  <2> QED BY <1>1, <1>3, <1>5, <2>1 DEF TypeOK
\* The other workers.
<1>11. ASSUME NEW v \in Workers, v # w
       PROVE  PassInv(v)' /\ TodoInv(v)' /\ CopyInv(v)' /\ TrimInv(v)'
  <2>1. \A r \in Reqs : \A L \in Mine(r, v) : file'[r][L] = file[r][L]
    BY <1>9, <1>11
  <2>2. worker'[v] = worker[v] /\ Len(chain') \in Nat
    BY <1>3, <1>5, <1>6, <1>11
  <2> QED BY <1>1, <1>3, <1>7, <2>1, <2>2, OthersKept, TrimOthersKept
\* This worker.
<1>12. /\ UpTo(worker[w].seq)' = lo /\ UpTo(worker[w].next)' = hi
       /\ StampsTo(worker[w].seq)' = StampsTo(p.seq) /\ StampsTo(worker[w].next)' = StampsTo(end)
  BY <1>2, <1>3 DEF UpTo, StampsTo
<1>13. PassInv(w)'
  <2>1. worker'[w].seq <= worker'[w].next /\ worker'[w].next <= Len(chain')
    BY <1>2, <1>3, <1>6
  <2> QED BY <1>2, <1>12, <2>1 DEF PassInv
<1>14. \A r \in Reqs : \A L \in Mine(r, w) : Got(w, r, L)' = RowsOf(r, 0, lo)
  <2> SUFFICES ASSUME NEW r \in Reqs, NEW L \in Mine(r, w)
               PROVE  Got(w, r, L)' = RowsOf(r, 0, lo)
    OBVIOUS
  <2> DEFINE plan == Plan(w, lo, hi)
             left == UNION { x[1] .. x[1] + BatchRows - 1 : x \in { x \in plan : x[2] = L } }
  <2>1. Got(w, r, L)' = RowsOf(r, 0, hi) \ left
    <3>1. Left(w, L)' = left
      BY <1>2, Zenon DEF Left
    <3> QED BY <1>12, <3>1, Zenon DEF Got
  <2> HIDE DEF lo, hi, plan
  <2>2. \A x \in plan : x[1] \in Nat /\ lo <= x[1]
    BY <1>6, PlanChunks DEF plan
  <2>3. ASSUME NEW i \in RowsOf(r, 0, lo) PROVE i \in RowsOf(r, 0, hi) \ left
    <3>1. i \in Nat /\ i < lo /\ OwnerOf[i + 1] = r
      BY <1>6 DEF RowsOf
    <3>2. i \in RowsOf(r, 0, hi)
      BY <1>6, <3>1 DEF RowsOf
    <3>3. \A x \in plan : i \notin x[1] .. x[1] + BatchRows - 1
      BY <1>6, <2>2, <3>1
    <3> QED BY <3>2, <3>3
  <2>4. ASSUME NEW i \in RowsOf(r, 0, hi), i \notin left PROVE i \in RowsOf(r, 0, lo)
    <3>1. i \in Nat /\ i < hi /\ OwnerOf[i + 1] = r
      BY <1>6 DEF RowsOf
    <3>2. CASE lo <= i
      <4>1. i \in RowsOf(r, lo, hi)
        BY <1>6, <3>1, <3>2 DEF RowsOf
      <4>2. PICK x \in plan : x[2] = L /\ x[1] <= i /\ i <= x[1] + BatchRows - 1
        BY <1>6, <4>1, PlanHolds DEF plan
      <4>3. i \in x[1] .. x[1] + BatchRows - 1
        BY <2>2, <3>1, <4>2, GatherAssumption
      <4> QED BY <2>4, <4>2, <4>3
    <3>3. CASE i < lo
      BY <1>6, <3>1, <3>3 DEF RowsOf
    <3> QED BY <1>6, <3>1, <3>2, <3>3
  <2> QED BY <2>1, <2>3, <2>4
<1>15. \A r, L : Got(w, r, L) = RowsOf(r, 0, lo)
  BY <1>1, <1>2, AllGot
<1>16. TodoInv(w)'
  <2>1. \A x \in Plan(w, lo, hi) : x[1] \in Nat /\ lo <= x[1] /\ (x[1] - lo) % BatchRows = 0
    BY <1>6, PlanChunks
  <2>2. \A r \in Reqs : \A i \in RowsOf(r, 0, lo) : i \in Nat /\ i < lo
    <3> HIDE DEF lo
    <3> QED BY <1>6 DEF RowsOf
  <2>3. ASSUME NEW x \in Plan(w, lo, hi), NEW r \in Reqs, x[2] \in Mine(r, w),
               NEW i \in Got(w, r, x[2])'
        PROVE  i < x[1]
    <3>1. i \in RowsOf(r, 0, lo)
      BY <1>14, <2>3
    <3> HIDE DEF lo, hi
    <3> QED BY <1>6, <2>1, <2>2, <3>1
  <2> QED BY <1>2, <1>12, <2>1, <2>3 DEF TodoInv
<1>17. CopyInv(w)'
  <2>1. /\ p.known = Met(w) \ Finished(w)
        /\ \A r \in Reqs : p.wrote[r] =
             IF r \notin p.known THEN [first |-> 0, all |-> 0]
             ELSE [first |-> IF Mine(r, w) = {} THEN 0
                             ELSE Cardinality(Got(w, r, FirstMine(r, w))),
                   all |-> Cardinality(Copied(w, r))]
        /\ \A r \in Met(w) : \A L \in Mine(r, w) : file[r][L] = Ascending(Got(w, r, L))
    BY <1>1, <1>2 DEF CopyInv
  <2>2. Finished(w) = StampsTo(p.seq) /\ Finished(w)' = StampsTo(p.seq)
    <3>1. Finished(w) = StampsTo(p.seq)
      BY <1>2 DEF Finished
    <3>2. Finished(w)' = StampsTo(end) \ (StampsTo(end) \ StampsTo(p.seq))
      BY <1>2, <1>12 DEF Finished
    <3> QED BY <1>6, <3>1, <3>2
  <2>3. Met(w) = { r \in Reqs : RowsOf(r, 0, lo) # {} }
    BY <1>2 DEF Met
  <2>4. Met(w)' = Met(w) \cup seen
    <3>1. Met(w)' = { r \in Reqs : RowsOf(r, 0, hi) # {} }
      BY <1>12, Zenon DEF Met
    <3>2. \A r : RowsOf(r, 0, hi) = RowsOf(r, 0, lo) \cup RowsOf(r, lo, hi)
      <4> HIDE DEF lo, hi
      <4> QED BY <1>6 DEF RowsOf
    <3> HIDE DEF lo, hi
    <3> QED BY <2>3, <3>1, <3>2 DEF seen
  <2>5. \A r \in seen : r \notin Finished(w)
    BY <1>8, <2>1, <2>2
  <2>6. worker'[w].known = Met(w)' \ Finished(w)'
    BY <1>2, <2>1, <2>2, <2>4, <2>5
  <2>7. \A r \in fresh : r \notin Met(w) /\ RowsOf(r, 0, lo) = {}
    <3>1. \A r \in fresh : r \notin Met(w)
      BY <2>1, <2>5
    <3> QED BY <2>3, <3>1
  <2>8. \A r \in Reqs : \A L \in Mine(r, w) : Got(w, r, L)' = Got(w, r, L)
    BY <1>14, <1>15
  <2>9. \A r \in Reqs : Copied(w, r)' = Copied(w, r)
    <3> SUFFICES ASSUME NEW r \in Reqs PROVE Copied(w, r)' = Copied(w, r)
      OBVIOUS
    <3>1. Copied(w, r)' = { x \in Mine(r, w) \X (0 .. MaxRow) : x[2] \in Got(w, r, x[1])' }
      BY DEF Copied
    <3>2. \A x \in Mine(r, w) \X (0 .. MaxRow) : Got(w, r, x[1])' = Got(w, r, x[1])
      BY <2>8
    <3> QED BY <3>1, <3>2 DEF Copied
  <2>10. ASSUME NEW r \in Reqs
         PROVE  worker'[w].wrote[r] =
                  IF r \notin worker'[w].known THEN [first |-> 0, all |-> 0]
                  ELSE [first |-> IF Mine(r, w) = {} THEN 0
                                  ELSE Cardinality(Got(w, r, FirstMine(r, w))'),
                        all |-> Cardinality(Copied(w, r)')]
    <3>1. Mine(r, w) # {} => Got(w, r, FirstMine(r, w))' = Got(w, r, FirstMine(r, w))
      BY <2>8, SharesAre
    <3>2. CASE r \in p.known
      BY <1>2, <2>1, <2>9, <3>1, <3>2, Zenon
    <3>3. CASE r \notin p.known /\ r \in seen
      <4>1. Got(w, r, FirstMine(r, w)) = {} /\ Copied(w, r) = {}
        <5>1. \A L : Got(w, r, L) = {}
          BY <1>15, <2>7, <3>3
        <5> QED BY <5>1 DEF Copied
      <4>2. Cardinality({}) = 0
        BY FS_EmptySet
      <4>3. Cardinality(Copied(w, r)') = 0
        BY <2>9, <4>1, <4>2
      <4>4. Mine(r, w) # {} => Cardinality(Got(w, r, FirstMine(r, w))') = 0
        BY <3>1, <4>1, <4>2
      <4>5. worker'[w].wrote[r] = [first |-> 0, all |-> 0]
        BY <1>2, <2>1, <3>3
      <4> QED BY <4>3, <4>4, <4>5
    <3>4. CASE r \notin p.known /\ r \notin seen
      BY <1>2, <2>1, <3>4
    <3> QED BY <3>2, <3>3, <3>4
  <2>11. ASSUME NEW r \in Met(w)', NEW L \in Mine(r, w)
         PROVE  file'[r][L] = Ascending(Got(w, r, L)')
    <3>1. r \in Reqs
      BY <2>3, <2>4
    <3>2. CASE r \in fresh
      <4>1. Got(w, r, L)' = {}
        BY <1>14, <2>7, <3>1, <3>2
      <4>2. file'[r][L] = <<>>
        BY <1>9, <3>1, <3>2
      <4> QED BY <4>1, <4>2, AscendingNone
    <3>3. CASE r \notin fresh
      <4>1. r \in Met(w)
        BY <2>1, <2>4, <3>3
      <4>2. file'[r][L] = file[r][L]
        BY <1>9, <3>1, <3>3
      <4>3. Got(w, r, L)' = Got(w, r, L)
        BY <2>8, <3>1
      <4> QED BY <2>1, <4>1, <4>2, <4>3, Zenon
    <3> QED BY <3>2, <3>3
  <2> HIDE DEF p, lo, hi, seen, fresh
  <2> QED BY <2>6, <2>10, <2>11 DEF CopyInv
<1>18. TrimInv(w)'
  <2>1. /\ marker[w].at <= lo
        /\ \A L \in Layers : \A v \in Workers : marker[v].floor[L] <= lo
        /\ \A L \in TrimLayers(w) :
             punched[L] = p.freed[L] /\ FloorRow(punched[L]) <= marker[w].floor[L]
    BY <1>1 DEF TrimInv
  <2> HIDE DEF lo
  <2> QED BY <1>2, <1>3, <1>12, <2>1 DEF TrimInv
<1>19. ManifestInv'
  <2>1. \A v \in Workers : Finished(v) \subseteq Finished(v)'
    <3> SUFFICES ASSUME NEW v \in Workers PROVE Finished(v) \subseteq Finished(v)'
      OBVIOUS
    <3>1. CASE v = w
      <4>1. Finished(w) = StampsTo(p.seq)
        BY <1>2 DEF Finished
      <4>2. Finished(w)' = StampsTo(end) \ (StampsTo(end) \ StampsTo(p.seq))
        BY <1>2, <1>12 DEF Finished
      <4> QED BY <1>6, <3>1, <4>1, <4>2
    <3>2. CASE v # w
      <4>1. worker'[v] = worker[v]
        BY <1>5, <3>2
      <4> QED BY <1>1, <1>7, <4>1, SameBatch
    <3> QED BY <3>1, <3>2
  <2>2. \A v \in Workers : \A r \in Reqs : \A L \in Mine(r, v) :
          r \in Finished(v) => file'[r][L] = file[r][L]
    <3>1. Finished(w) = StampsTo(p.seq)
      BY <1>2 DEF Finished
    <3> QED BY <1>8, <1>9, <3>1
  <2> QED BY <1>1, <1>3, <2>1, <2>2, ManifestKept
<1> QED BY <1>7, <1>10, <1>11, <1>13, <1>16, <1>17, <1>18, <1>19 DEF GatherInv
-----------------------------------------------------------------------------
(* One layer of a chunk. *)

\* A row ahead of some pass is in no hole.
LEMMA AheadIsWhole ==
  ASSUME TypeOK, \A v \in Workers : TrimInv(v), NEW w \in Workers, NEW L \in Layers,
         NEW i \in Nat, UpTo(worker[w].seq) \in Nat, UpTo(worker[w].seq) <= i
  PROVE  RowContent(L, i) = i
<1> DEFINE v == L % NWorkers
           t == punched[L]
           f == FloorRow(t)
<1>1. v \in Workers /\ L \in TrimLayers(v)
  <2>1. L \in Nat /\ NWorkers \in Nat \ {0}
    BY Sizes, GatherAssumption
  <2> QED BY <2>1, Quotient DEF Workers, TrimLayers
<1>2. t \in Nat /\ RowBytes \in Nat
  BY GatherAssumption DEF TypeOK
<1> HIDE DEF v
<1>3. f <= marker[v].floor[L]
  BY <1>1 DEF TrimInv
<1>4. marker[v].floor[L] <= UpTo(worker[w].seq) /\ marker[v].floor[L] \in Nat
  BY <1>1, PassTypes DEF TrimInv
<1> HIDE DEF t
<1>5. f \in Nat /\ (f <= i <=> t <= i * RowBytes)
  BY <1>2, FloorIs
<1> HIDE DEF f
<1>6. t <= i * RowBytes
  BY <1>3, <1>4, <1>5
<1>7. ~(i * RowBytes < t)
  <2>1. i * RowBytes \in Nat
    BY <1>2
  <2> QED BY <1>2, <1>6, <2>1
<1> QED BY <1>7 DEF RowContent, t

\* Another chunk of the same layer begins behind the last row of this one.
LEMMA ChunksApart ==
  ASSUME TypeOK, ChainInv, NEW w \in Workers, PassInv(w), TodoInv(w),
         NEW x \in worker[w].todo, NEW y \in worker[w].todo, x[1] < y[1]
  PROVE  x[1] + BatchRows <= y[1]
<1> DEFINE lo == UpTo(worker[w].seq)
           a == x[1] - lo
           b == y[1] - lo
<1>1. lo \in Nat
  BY GotIs
<1>2. x[1] \in Nat /\ y[1] \in Nat /\ BatchRows \in Nat \ {0}
  BY PassTypes, Sizes, GatherAssumption
<1>3. lo <= x[1] /\ lo <= y[1] /\ a % BatchRows = 0 /\ b % BatchRows = 0
  BY DEF TodoInv
<1> HIDE DEF lo
<1>4. a \in Nat /\ b \in Nat /\ a < b
  BY <1>1, <1>2, <1>3
<1>5. a + BatchRows <= b
  <2> HIDE DEF a, b
  <2> QED BY <1>2, <1>3, <1>4, MultiplesApart
<1> QED BY <1>1, <1>2, <1>5

\* What a step that takes <<c, L>> off what is left adds to what is copied.
LEMMA GotGrows ==
  ASSUME TypeOK, ChainInv, NEW w \in Workers, PassInv(w), TodoInv(w),
         NEW c \in Nat, NEW L \in Layers, <<c, L>> \in worker[w].todo,
         \A x \in worker[w].todo : c < x[1] \/ (c = x[1] /\ L <= x[2]),
         worker'[w].todo = worker[w].todo \ {<<c, L>>},
         UpTo(worker[w].next)' = UpTo(worker[w].next),
         NEW r \in Reqs
  PROVE  /\ \A M \in Layers : M # L => Got(w, r, M)' = Got(w, r, M)
         /\ L \in Mine(r, w) => Got(w, r, L)' = Got(w, r, L) \cup ChunkRows(w, c, L, r)
<1> DEFINE T == worker[w].todo
           hi == UpTo(worker[w].next)
           R == RowsOf(r, 0, hi)
           left(S, M) == UNION { x[1] .. x[1] + BatchRows - 1 : x \in { x \in S : x[2] = M } }
<1>1. \A M : Got(w, r, M) = R \ left(T, M)
  BY DEF Got, Left
<1>2. \A M : Got(w, r, M)' = R \ left(T \ {<<c, L>>}, M)
  BY Zenon DEF Got, Left
<1>3. \A M \in Layers : M # L => left(T \ {<<c, L>>}, M) = left(T, M)
  <2> SUFFICES ASSUME NEW M \in Layers, M # L
               PROVE  { x \in T \ {<<c, L>>} : x[2] = M } = { x \in T : x[2] = M }
    BY Zenon
  <2> QED OBVIOUS
<1>4. ASSUME L \in Mine(r, w)
      PROVE  Got(w, r, L)' = Got(w, r, L) \cup ChunkRows(w, c, L, r)
  <2>1. BatchRows \in Nat /\ hi \in Nat /\ hi <= MaxRow /\ MaxRow \in Nat
    BY GotIs, GatherAssumption, Sizes
  <2>2. \A x \in T : x[1] \in Nat
    BY PassTypes, Sizes
  <2>3. \A x \in T \ {<<c, L>>} : x[2] = L => c + BatchRows <= x[1]
    <3> SUFFICES ASSUME NEW x \in T, x # <<c, L>>, x[2] = L PROVE c + BatchRows <= x[1]
      OBVIOUS
    <3>1. c < x[1]
      <4>1. x = <<x[1], x[2]>>
        BY PassTypes
      <4>2. x[1] # c
        BY <4>1
      <4> QED BY <4>2
    <3>2. PICK y \in T : y = <<c, L>>
      OBVIOUS
    <3>3. y[1] = c
      BY <3>2
    <3>4. y[1] + BatchRows <= x[1]
      BY <3>1, <3>3, ChunksApart
    <3> QED BY <3>3, <3>4
  <2>4. \A i \in Nat : i \in left(T, L) <=>
          i \in left(T \ {<<c, L>>}, L) \/ (c <= i /\ i <= c + BatchRows - 1)
    <3> SUFFICES ASSUME NEW i \in Nat
                 PROVE  i \in left(T, L) <=>
                          i \in left(T \ {<<c, L>>}, L) \/ i \in c .. c + BatchRows - 1
      BY <2>1
    <3>1. left(T, L) = left(T \ {<<c, L>>}, L) \cup (c .. c + BatchRows - 1)
      <4> DEFINE x0 == <<c, L>>
      <4>1. x0 \in T /\ x0[2] = L /\ x0[1] = c
        OBVIOUS
      <4> HIDE DEF x0, T
      <4>2. left(T, L) = left(T \ {x0}, L) \cup (x0[1] .. x0[1] + BatchRows - 1)
        BY <4>1, ZenonT(30)
      <4> QED BY <4>1, <4>2 DEF x0
    <3> QED BY <3>1
  <2>5. \A i \in Nat : i \in left(T \ {<<c, L>>}, L) => ~(c <= i /\ i <= c + BatchRows - 1)
    <3> SUFFICES ASSUME NEW i \in Nat, NEW x \in T \ {<<c, L>>}, x[2] = L,
                        i \in x[1] .. x[1] + BatchRows - 1
                 PROVE  ~(c <= i /\ i <= c + BatchRows - 1)
      OBVIOUS
    <3>1. c + BatchRows <= x[1] /\ x[1] \in Nat
      BY <2>2, <2>3
    <3> QED BY <2>1, <3>1
  <2>6. \A i \in R : i \in Nat /\ i < hi /\ OwnerOf[i + 1] = r
    <3> HIDE DEF T, hi, left
    <3> QED BY <2>1, RowsAre
  <2>7. \A i \in Nat : i < hi /\ OwnerOf[i + 1] = r => i \in R
    <3> HIDE DEF T, hi, left
    <3> QED BY <2>1, RowsAre
  <2>8. ChunkRows(w, c, L, r) \subseteq Nat
    BY ChunkRowsAre, <2>1
  <2>9. \A i \in Nat : i \in ChunkRows(w, c, L, r) <=>
          c <= i /\ i <= c + BatchRows - 1 /\ i < hi /\ OwnerOf[i + 1] = r
    BY <1>4, ChunkRowsAre
  <2> DEFINE A == left(T, L)
             B == left(T \ {<<c, L>>}, L)
             C == ChunkRows(w, c, L, r)
             G == Got(w, r, L)
  <2>10. G = R \ A /\ Got(w, r, L)' = R \ B
    BY <1>1, <1>2
  <2> HIDE DEF A, B, C, G, R, hi
  <2>11. \A i \in Nat : i \in A <=> i \in B \/ (c <= i /\ i <= c + BatchRows - 1)
    BY <2>4 DEF A, B
  <2>12. \A i \in Nat : i \in B => ~(c <= i /\ i <= c + BatchRows - 1)
    BY <2>5 DEF B
  <2>13. R \ B = (R \ A) \cup C
    <3>1. \A i \in R : i \in Nat
      BY <2>6
    <3>2. \A i \in C : i \in R /\ i \notin B
      BY <2>7, <2>8, <2>9, <2>12 DEF C
    <3>3. \A i \in R : i \in A => i \in B \/ i \in C
      BY <2>6, <2>9, <2>11 DEF C
    <3>4. \A i \in R : i \in B => i \in A
      BY <3>1, <2>11
    <3> QED BY <3>2, <3>3, <3>4
  <2> QED BY <2>10, <2>13 DEF G, C
<1> HIDE DEF left, T, R
<1> QED BY <1>1, <1>2, <1>3, <1>4
\* What the chunk adds lies behind what is copied, and is read as it was captured.
LEMMA ChunkIs ==
  ASSUME TypeOK, ChainInv, NEW w \in Workers, PassInv(w), TodoInv(w), CopyInv(w),
         \A v \in Workers : TrimInv(v),
         NEW c \in Nat, NEW L \in Layers, <<c, L>> \in worker[w].todo,
         NEW r \in Reqs
  PROVE  /\ Read(L, ChunkRows(w, c, L, r)) = Ascending(ChunkRows(w, c, L, r))
         /\ L \in Mine(r, w) =>
              \A i \in Got(w, r, L) : \A j \in ChunkRows(w, c, L, r) : i < j
         /\ r \notin worker[w].known => ChunkRows(w, c, L, r) = {}
<1> DEFINE C == ChunkRows(w, c, L, r)
           lo == UpTo(worker[w].seq)
           hi == UpTo(worker[w].next)
<1>1. /\ C \in SUBSET (0 .. MaxRow) /\ IsFiniteSet(C)
      /\ \A i \in Nat : i \in C <=>
           L \in Mine(r, w) /\ c <= i /\ i <= c + BatchRows - 1 /\ i < hi /\ OwnerOf[i + 1] = r
  BY ChunkRowsAre
<1>2. /\ lo \in Nat /\ hi \in Nat /\ hi <= MaxRow /\ MaxRow \in Nat /\ BatchRows \in Nat
      /\ worker[w].seq \in 0 .. Len(chain)
  BY GotIs, Sizes, GatherAssumption
<1>3. lo <= c /\ (L \in Mine(r, w) => \A i \in Got(w, r, L) : i < c)
  <2>1. PICK x \in worker[w].todo : x = <<c, L>>
    OBVIOUS
  <2>2. x[1] = c /\ x[2] = L
    BY <2>1
  <2>3. lo <= x[1] /\ (x[2] \in Mine(r, w) => \A i \in Got(w, r, x[2]) : i < x[1])
    BY DEF TodoInv
  <2> QED BY <2>2, <2>3, Zenon
<1> HIDE DEF lo, hi, C
<1>4. \A i \in C : i \in Nat /\ c <= i /\ i < hi /\ OwnerOf[i + 1] = r
  <2>1. \A i \in C : i \in Nat
    <3>1. C \subseteq 0 .. MaxRow
      BY <1>1, Zenon
    <3> QED BY <3>1, Sizes
  <2> QED BY <1>1, <2>1, Zenon
<1>5. Read(L, C) = Ascending(C)
  <2>1. \A i \in C : RowContent(L, i) = i
    <3> SUFFICES ASSUME NEW i \in C PROVE RowContent(L, i) = i
      OBVIOUS
    <3>1. i \in Nat /\ lo <= i
      BY <1>2, <1>3, <1>4
    <3> QED BY <1>2, <3>1, AheadIsWhole DEF lo
  <2> QED BY <1>1, <2>1, ReadIs
<1>6. ASSUME L \in Mine(r, w) PROVE \A i \in Got(w, r, L) : \A j \in C : i < j
  <2>1. Got(w, r, L) \in SUBSET Nat
    BY GotIs
  <2> QED BY <1>3, <1>4, <1>6, <2>1
<1>7. ASSUME r \notin worker[w].known PROVE C = {}
  <2> SUFFICES ASSUME NEW i \in C PROVE FALSE
    OBVIOUS
  <2>1. worker[w].todo # {} /\ worker[w].pc = "batch"
    BY DEF PassInv
  <2>2. worker[w].known = Met(w) \ Finished(w)
    BY <2>1 DEF CopyInv
  <2>3. worker[w].ready = StampsTo(worker[w].next) \ StampsTo(worker[w].seq)
    BY <2>1 DEF PassInv
  <2>4. r \in Met(w)
    <3>1. i \in RowsOf(r, 0, hi)
      BY <1>2, <1>4 DEF RowsOf
    <3> QED BY <3>1 DEF Met, hi
  <2>5. r \in StampsTo(worker[w].seq)
    BY <1>7, <2>2, <2>3, <2>4 DEF Finished
  <2>6. RowsOf(r, lo, MaxRow) = {}
    <3>1. \A n \in 0 .. Len(chain) : \A s \in StampsTo(n) : RowsOf(s, UpTo(n), MaxRow) = {}
      BY ChainIs
    <3> QED BY <1>2, <2>5, <3>1, Zenon DEF lo
  <2>7. i \in RowsOf(r, lo, MaxRow)
    BY <1>2, <1>3, <1>4 DEF RowsOf
  <2> QED BY <2>6, <2>7
<1> QED BY <1>5, <1>6, <1>7 DEF C

LEMMA DisjointSum ==
  ASSUME NEW A, IsFiniteSet(A), NEW B, IsFiniteSet(B), A \cap B = {}
  PROVE  Cardinality(A \cup B) = Cardinality(A) + Cardinality(B)
<1>1. Cardinality(A) \in Nat /\ Cardinality(B) \in Nat
  BY FS_CardinalityType
<1>2. Cardinality(A \cup B) = Cardinality(A) + Cardinality(B) - Cardinality(A \cap B)
  BY FS_Union
<1>3. Cardinality(A \cap B) = 0
  BY FS_EmptySet
<1> QED BY <1>1, <1>2, <1>3

\* The count of the rows copied, over all the layers of a request.
LEMMA CopiedGrows ==
  ASSUME TypeOK, ChainInv, NEW w \in Workers, PassInv(w), NEW r \in Reqs, NEW L \in Layers,
         NEW C \in SUBSET (0 .. MaxRow), IsFiniteSet(C),
         \A M \in Layers : M # L => Got(w, r, M)' = Got(w, r, M),
         L \in Mine(r, w) => Got(w, r, L)' = Got(w, r, L) \cup C,
         L \notin Mine(r, w) => C = {},
         Got(w, r, L) \cap C = {}
  PROVE  Cardinality(Copied(w, r)') = Cardinality(Copied(w, r)) + Cardinality(C)
<1> DEFINE M == Mine(r, w)
           D == {L} \X C
           A == Copied(w, r)
           B == Copied(w, r)'
<1>1. M \subseteq Layers /\ IsFiniteSet(M)
  BY SharesAre
<1>2. IsFiniteSet(A)
  <2>1. IsFiniteSet(0 .. MaxRow)
    BY Sizes, FS_Interval
  <2>2. IsFiniteSet(M \X (0 .. MaxRow))
    BY <1>1, <2>1, FS_Product
  <2>3. A \subseteq M \X (0 .. MaxRow)
    BY DEF Copied
  <2> QED BY <2>2, <2>3, FS_Subset
<1>3. IsFiniteSet(D) /\ Cardinality(D) = Cardinality(C)
  <2>1. IsFiniteSet({L}) /\ Cardinality({L}) = 1
    BY FS_Singleton
  <2>2. IsFiniteSet(D) /\ Cardinality(D) = Cardinality({L}) * Cardinality(C)
    BY <2>1, FS_Product
  <2>3. Cardinality(C) \in Nat
    BY FS_CardinalityType
  <2> QED BY <2>1, <2>2, <2>3
<1>4. A = { x \in M \X (0 .. MaxRow) : x[2] \in Got(w, r, x[1]) }
  BY DEF Copied
<1>5. B = { x \in M \X (0 .. MaxRow) : x[2] \in Got(w, r, x[1])' }
  BY DEF Copied
<1>6. \A x \in D : x[1] = L /\ x[2] \in C /\ x[1] \in {L}
  OBVIOUS
<1>7. A \cap D = {}
  <2> SUFFICES ASSUME NEW x \in A, x \in D PROVE FALSE
    OBVIOUS
  <2>1. x[1] = L /\ x[2] \in C
    BY <1>6
  <2>2. x[2] \in Got(w, r, x[1])
    BY <1>4
  <2> QED BY <2>1, <2>2
<1>8. B = A \cup D
  <2>1. CASE L \notin M
    <3>1. D = {}
      BY <2>1
    <3>2. \A x \in M \X (0 .. MaxRow) : Got(w, r, x[1])' = Got(w, r, x[1])
      BY <1>1, <2>1
    <3>3. B = A
      BY <1>4, <1>5, <3>2
    <3> QED BY <3>1, <3>3
  <2>2. CASE L \in M
    <3>1. \A x \in M \X (0 .. MaxRow) : x[2] \in Got(w, r, x[1])' <=>
            x[2] \in Got(w, r, x[1]) \/ (x[1] = L /\ x[2] \in C)
      <4> SUFFICES ASSUME NEW x \in M \X (0 .. MaxRow)
                   PROVE  x[2] \in Got(w, r, x[1])' <=>
                            x[2] \in Got(w, r, x[1]) \/ (x[1] = L /\ x[2] \in C)
        OBVIOUS
      <4>1. x[1] \in Layers
        BY <1>1
      <4>2. CASE x[1] = L
        <5>1. Got(w, r, x[1])' = Got(w, r, x[1]) \cup C
          BY <2>2, <4>2, Zenon
        <5> QED BY <4>2, <5>1
      <4>3. CASE x[1] # L
        <5>1. Got(w, r, x[1])' = Got(w, r, x[1])
          BY <4>1, <4>3
        <5> QED BY <4>3, <5>1
      <4> QED BY <4>2, <4>3
    <3>2. D \subseteq M \X (0 .. MaxRow)
      BY <2>2
    <3>3. \A x \in M \X (0 .. MaxRow) : x \in D <=> x[1] = L /\ x[2] \in C
      OBVIOUS
    <3> HIDE DEF A, B, D, M
    <3> QED BY <1>4, <1>5, <3>1, <3>2, <3>3
  <2> QED BY <2>1, <2>2
<1> HIDE DEF A, B, D
<1>9. Cardinality(B) = Cardinality(A) + Cardinality(D)
  BY <1>2, <1>3, <1>7, <1>8, DisjointSum
<1> QED BY <1>3, <1>9 DEF A, B
LEMMA ScatterStep ==
  ASSUME GatherInv, NEW w \in Workers, NEW c, NEW L, Scatter(w, c, L)
  PROVE  GatherInv'
<1> DEFINE p == worker[w]
           lo == UpTo(p.seq)
           hi == UpTo(p.next)
           C(r) == ChunkRows(w, c, L, r)
<1>1. /\ TypeOK /\ ChainInv /\ ManifestInv
      /\ \A v \in Workers : PassInv(v) /\ TodoInv(v) /\ CopyInv(v) /\ TrimInv(v)
  BY DEF GatherInv
<1>2. Scattered(w, c, L)
  BY <1>1, ScatterIs
<1>3. /\ c \in Nat /\ L \in Layers /\ <<c, L>> \in p.todo /\ p.pc = "batch"
      /\ worker' = [worker EXCEPT ![w] = worker'[w]] /\ worker'[w] \in Passes
      /\ worker'[w].pc = "batch" /\ worker'[w].seq = p.seq
      /\ worker'[w].next = p.next /\ worker'[w].ready = p.ready
      /\ worker'[w].todo = p.todo \ {<<c, L>>}
      /\ worker'[w].known = p.known /\ worker'[w].floors = p.floors
      /\ worker'[w].due = p.due /\ worker'[w].freed = p.freed /\ worker'[w].target = p.target
  BY <1>2 DEF Scattered
<1>4. \A x \in p.todo : c < x[1] \/ (c = x[1] /\ L <= x[2])
  BY <1>2 DEF Scattered
<1>5. \A r \in Reqs : worker'[w].wrote[r] =
        [first |-> p.wrote[r].first +
                     (IF L \in Mine(r, w) /\ L = FirstMine(r, w) THEN Cardinality(C(r)) ELSE 0),
         all |-> p.wrote[r].all + Cardinality(C(r))]
  BY <1>2 DEF Scattered
<1>6. /\ file' \in [Reqs -> [Layers -> Seq(-2 .. MaxRow)]]
      /\ \A r \in Reqs : \A M \in Layers : file'[r][M] =
           IF M = L THEN file[r][L] \o Read(L, C(r)) ELSE file[r][M]
  BY <1>2 DEF Scattered
<1>7. /\ UNCHANGED chain /\ UNCHANGED publisher /\ UNCHANGED manifests
      /\ UNCHANGED marker /\ UNCHANGED punched
  BY DEF Scatter
<1>8. /\ worker' \in [Workers -> Passes]
      /\ \A v \in Workers \ {w} : worker'[v] = worker[v]
  BY <1>1, <1>3, OnePass
<1>9. ChainKept /\ ChainInv' /\ Len(chain') \in Nat
  BY <1>1, <1>7, SameChain, ChainIs
<1>10. /\ UpTo(p.seq)' = UpTo(p.seq) /\ UpTo(p.next)' = UpTo(p.next)
       /\ UpTo(worker[w].next)' = UpTo(worker[w].next)
       /\ UpTo(worker[w].seq)' = UpTo(worker[w].seq)
       /\ StampsTo(worker[w].seq)' = StampsTo(worker[w].seq)
       /\ StampsTo(worker[w].next)' = StampsTo(worker[w].next)
       /\ Met(w)' = Met(w) /\ Finished(w)' = Finished(w)
  BY <1>1, <1>3, <1>7, <1>9, SameBatch, SameSeq
\* The rows of the chunk.
<1>11. \A r \in Reqs :
         /\ C(r) \in SUBSET (0 .. MaxRow) /\ IsFiniteSet(C(r)) /\ Cardinality(C(r)) \in Nat
         /\ \A i \in C(r) : i \in Nat /\ c <= i /\ i <= c + BatchRows - 1
         /\ L \notin Mine(r, w) => C(r) = {}
  <2> SUFFICES ASSUME NEW r \in Reqs
               PROVE  /\ C(r) \in SUBSET (0 .. MaxRow) /\ IsFiniteSet(C(r))
                      /\ Cardinality(C(r)) \in Nat
                      /\ \A i \in C(r) : i \in Nat /\ c <= i /\ i <= c + BatchRows - 1
                      /\ L \notin Mine(r, w) => C(r) = {}
    OBVIOUS
  <2>1. /\ C(r) \in SUBSET (0 .. MaxRow) /\ IsFiniteSet(C(r)) /\ Cardinality(C(r)) \in Nat
        /\ \A i \in Nat : i \in C(r) <=>
             L \in Mine(r, w) /\ c <= i /\ i <= c + BatchRows - 1 /\ i < hi /\ OwnerOf[i + 1] = r
    BY <1>1, <1>3, ChunkRowsAre
  <2> HIDE DEF C, hi
  <2>2. \A i \in C(r) : i \in Nat
    BY <2>1, Sizes
  <2> QED BY <2>1, <2>2
<1>12. \A r \in Reqs :
         /\ Read(L, C(r)) = Ascending(C(r))
         /\ L \in Mine(r, w) => \A i \in Got(w, r, L) : \A j \in C(r) : i < j
         /\ r \notin p.known => C(r) = {}
  BY <1>1, <1>3, ChunkIs
<1>13. \A r \in Reqs :
         /\ \A M \in Layers : M # L => Got(w, r, M)' = Got(w, r, M)
         /\ L \in Mine(r, w) => Got(w, r, L)' = Got(w, r, L) \cup C(r)
  BY <1>1, <1>3, <1>4, <1>10, GotGrows
<1> HIDE DEF C, p, lo, hi
\* The files.
<1>14. \A r \in Reqs : \A M \in Layers : file[r][M] \in Seq(-2 .. MaxRow)
  BY <1>1 DEF TypeOK
<1>15. \A r \in Reqs : C(r) = {} => \A M \in Layers : file'[r][M] = file[r][M]
  <2> SUFFICES ASSUME NEW r \in Reqs, C(r) = {}, NEW M \in Layers
               PROVE  file'[r][M] = file[r][M]
    OBVIOUS
  <2>1. Read(L, C(r)) = <<>>
    BY <1>12, AscendingNone
  <2>2. file[r][L] \o <<>> = file[r][L]
    BY <1>3, <1>14, ConcatEmptySeq
  <2> QED BY <1>6, <2>1, <2>2
<1>16. ASSUME NEW v \in Workers, NEW r \in Reqs, NEW M \in Mine(r, v),
              v # w \/ r \in Finished(w)
       PROVE  file'[r][M] = file[r][M]
  <2>1. M \in Layers
    BY SharesAre
  <2>2. CASE M # L
    BY <1>6, <2>1, <2>2
  <2>3. CASE M = L /\ v # w
    <3>1. L \notin Mine(r, w)
      BY <2>3, SharesAre
    <3> QED BY <1>11, <1>15, <2>1, <3>1
  <2>4. CASE r \in Finished(w)
    <3>1. r \notin p.known
      BY <1>1, <1>3, <2>4 DEF CopyInv, p
    <3> QED BY <1>12, <1>15, <2>1, <3>1
  <2> QED BY <1>16, <2>2, <2>3, <2>4
<1>17. TypeOK'
  BY <1>1, <1>6, <1>7, <1>8 DEF TypeOK
\* The other workers.
<1>18. ASSUME NEW v \in Workers, v # w
       PROVE  PassInv(v)' /\ TodoInv(v)' /\ CopyInv(v)' /\ TrimInv(v)'
  <2>1. \A r \in Reqs : \A M \in Mine(r, v) : file'[r][M] = file[r][M]
    BY <1>16, <1>18
  <2>2. worker'[v] = worker[v]
    BY <1>8, <1>18
  <2> QED BY <1>1, <1>7, <1>9, <2>1, <2>2, OthersKept, TrimOthersKept
\* This worker.
<1>19. PassInv(w)'
  <2>1. /\ p.pc # "refused" /\ p.seq <= p.next /\ p.next <= Len(chain)
        /\ p.pc # "punch" => p.due = {}
        /\ p.ready \subseteq StampsTo(p.next) \ StampsTo(p.seq)
        /\ p.todo # {} => p.ready = StampsTo(p.next) \ StampsTo(p.seq)
    BY <1>1 DEF PassInv, p
  <2>2. p.ready = StampsTo(worker[w].next) \ StampsTo(worker[w].seq)
    BY <1>3, <2>1 DEF p
  <2>3. p.due = {}
    BY <1>3, <2>1
  <2>4. (StampsTo(worker[w].next) \ StampsTo(worker[w].seq))' = p.ready
    BY <1>10, <2>2
  <2> QED BY <1>3, <1>7, <2>1, <2>3, <2>4 DEF PassInv
<1>20. TodoInv(w)'
  <2>1. BatchRows \in Nat
    BY GatherAssumption
  <2> SUFFICES ASSUME NEW x \in worker'[w].todo
               PROVE  /\ UpTo(worker[w].seq)' <= x[1]
                      /\ (x[1] - UpTo(worker[w].seq)') % BatchRows = 0
                      /\ \A r \in Reqs : x[2] \in Mine(r, w) =>
                           \A i \in Got(w, r, x[2])' : i < x[1]
    BY DEF TodoInv
  <2>2. x \in p.todo /\ x # <<c, L>> /\ x \in worker[w].todo
    BY <1>3 DEF p
  <2>3. /\ UpTo(worker[w].seq) <= x[1]
        /\ (x[1] - UpTo(worker[w].seq)) % BatchRows = 0
        /\ \A r \in Reqs : x[2] \in Mine(r, w) => \A i \in Got(w, r, x[2]) : i < x[1]
    BY <1>1, <2>2 DEF TodoInv
  <2>4. x[1] \in Nat /\ x[2] \in Layers /\ x = <<x[1], x[2]>>
    BY <1>1, <2>2, PassTypes, Sizes
  <2>5. ASSUME NEW r \in Reqs, x[2] \in Mine(r, w), NEW i \in Got(w, r, x[2])'
        PROVE  i < x[1]
    <3>1. CASE x[2] # L
      <4>1. Got(w, r, x[2])' = Got(w, r, x[2])
        BY <1>13, <2>4, <3>1
      <4> QED BY <2>3, <2>5, <4>1
    <3>2. CASE x[2] = L
      <4>1. Got(w, r, x[2])' = Got(w, r, x[2]) \cup C(r)
        <5>1. Got(w, r, L)' = Got(w, r, L) \cup C(r)
          BY <1>13, <2>5, <3>2
        <5> QED BY <3>2, <5>1, Zenon
      <4>2. CASE i \in Got(w, r, x[2])
        BY <2>3, <2>5, <4>2
      <4>3. CASE i \in C(r)
        <5>1. c < x[1]
          <6>1. x[1] # c
            BY <2>2, <2>4, <3>2
          <6> QED BY <1>4, <2>2, <6>1
        <5>2. PICK y \in worker[w].todo : y = <<c, L>>
          BY <1>3 DEF p
        <5>3. y[1] = c
          BY <5>2
        <5>4. c + BatchRows <= x[1]
          BY <1>1, <2>2, <5>1, <5>3, ChunksApart
        <5>5. i \in Nat /\ i <= c + BatchRows - 1
          BY <1>11, <4>3
        <5> QED BY <1>3, <2>1, <2>4, <5>4, <5>5
      <4> QED BY <2>5, <4>1, <4>2, <4>3
    <3> QED BY <3>1, <3>2
  <2> QED BY <1>10, <2>3, <2>5
<1>21. CopyInv(w)'
  <2>1. /\ p.known = Met(w) \ Finished(w)
        /\ \A r \in Reqs : p.wrote[r] =
             IF r \notin p.known THEN [first |-> 0, all |-> 0]
             ELSE [first |-> IF Mine(r, w) = {} THEN 0
                             ELSE Cardinality(Got(w, r, FirstMine(r, w))),
                   all |-> Cardinality(Copied(w, r))]
        /\ \A r \in Met(w) : \A M \in Mine(r, w) : file[r][M] = Ascending(Got(w, r, M))
    BY <1>1, <1>3 DEF CopyInv, p
  <2>2. worker'[w].known = Met(w)' \ Finished(w)'
    BY <1>3, <1>10, <2>1
  <2>3. \A r \in Reqs : \A M : Got(w, r, M) \in SUBSET Nat /\ IsFiniteSet(Got(w, r, M))
    BY <1>1, GotIs
  <2>4. ASSUME NEW r \in Reqs, L \in Mine(r, w) PROVE Got(w, r, L) \cap C(r) = {}
    <3> SUFFICES ASSUME NEW i \in Got(w, r, L), i \in C(r) PROVE FALSE
      OBVIOUS
    <3>1. i < i /\ i \in Nat
      BY <1>12, <2>3, <2>4
    <3> QED BY <3>1
  <2>5. ASSUME NEW r \in Reqs
        PROVE  worker'[w].wrote[r] =
                 IF r \notin worker'[w].known THEN [first |-> 0, all |-> 0]
                 ELSE [first |-> IF Mine(r, w) = {} THEN 0
                                 ELSE Cardinality(Got(w, r, FirstMine(r, w))'),
                       all |-> Cardinality(Copied(w, r)')]
    <3> DEFINE F == FirstMine(r, w)
               n == Cardinality(C(r))
    <3>1. worker'[w].wrote[r] =
            [first |-> p.wrote[r].first + (IF L \in Mine(r, w) /\ L = F THEN n ELSE 0),
             all |-> p.wrote[r].all + n]
      BY <1>5
    <3>2. n \in Nat
      BY <1>11
    <3>3. CASE r \notin p.known
      <4>1. p.wrote[r] = [first |-> 0, all |-> 0]
        BY <2>1, <3>3
      <4>2. n = 0
        BY <1>12, <3>3, FS_EmptySet
      <4>3. worker'[w].wrote[r] = [first |-> 0, all |-> 0]
        BY <3>1, <4>1, <4>2
      <4> QED BY <1>3, <3>3, <4>3
    <3>4. CASE r \in p.known
      <4>1. p.wrote[r] = [first |-> IF Mine(r, w) = {} THEN 0 ELSE Cardinality(Got(w, r, F)),
                          all |-> Cardinality(Copied(w, r))]
        BY <2>1, <3>4
      <4>2. Cardinality(Copied(w, r)') = Cardinality(Copied(w, r)) + n
        <5>1. Got(w, r, L) \cap C(r) = {}
          BY <1>11, <2>4
        <5> QED BY <1>1, <1>3, <1>11, <1>13, <5>1, CopiedGrows
      <4>3. Mine(r, w) # {} =>
              Cardinality(Got(w, r, F)') = Cardinality(Got(w, r, F))
                                             + (IF L \in Mine(r, w) /\ L = F THEN n ELSE 0)
        <5> SUFFICES ASSUME Mine(r, w) # {}
                     PROVE  Cardinality(Got(w, r, F)') =
                              Cardinality(Got(w, r, F))
                                + (IF L \in Mine(r, w) /\ L = F THEN n ELSE 0)
          OBVIOUS
        <5>1. F \in Mine(r, w) /\ F \in Layers
          BY SharesAre
        <5>2. Cardinality(Got(w, r, F)) \in Nat
          BY <2>3, FS_CardinalityType
        <5>3. CASE L = F
          <6>1. Got(w, r, F)' = Got(w, r, F) \cup C(r) /\ Got(w, r, F) \cap C(r) = {}
            BY <1>13, <2>4, <5>1, <5>3
          <6>2. Cardinality(Got(w, r, F) \cup C(r)) = Cardinality(Got(w, r, F)) + n
            BY <1>11, <2>3, <6>1, DisjointSum
          <6> HIDE DEF n
          <6> QED BY <5>1, <5>3, <6>1, <6>2
        <5>4. CASE L # F
          <6>1. Got(w, r, F)' = Got(w, r, F)
            BY <1>13, <5>1, <5>4
          <6> HIDE DEF F, n
          <6> QED BY <5>2, <5>4, <6>1
        <5> QED BY <5>3, <5>4
      <4> DEFINE g == Cardinality(Got(w, r, F))
                 h == Cardinality(Got(w, r, F)')
                 a == Cardinality(Copied(w, r))
                 b == Cardinality(Copied(w, r)')
                 d == IF L \in Mine(r, w) /\ L = F THEN n ELSE 0
      <4>4. Mine(r, w) = {} => d = 0
        OBVIOUS
      <4>5. /\ b = a + n /\ (Mine(r, w) # {} => h = g + d)
            /\ worker'[w].wrote[r] = [first |-> p.wrote[r].first + d, all |-> p.wrote[r].all + n]
            /\ p.wrote[r].first = (IF Mine(r, w) = {} THEN 0 ELSE g)
            /\ p.wrote[r].all = a
        BY <3>1, <4>1, <4>2, <4>3
      <4> HIDE DEF g, h, a, b, d, n
      <4>6. worker'[w].wrote[r] = [first |-> IF Mine(r, w) = {} THEN 0 ELSE h, all |-> b]
        BY <4>4, <4>5
      <4> QED BY <1>3, <3>4, <4>6 DEF h, b
    <3> QED BY <3>3, <3>4
  <2>6. ASSUME NEW r \in Met(w)', NEW M \in Mine(r, w)
        PROVE  file'[r][M] = Ascending(Got(w, r, M)')
    <3>1. r \in Reqs /\ r \in Met(w)
      BY <1>10 DEF Met
    <3>2. M \in Layers
      BY <3>1, SharesAre
    <3>3. file[r][M] = Ascending(Got(w, r, M))
      BY <2>1, <3>1
    <3>4. CASE M # L
      <4>1. Got(w, r, M)' = Got(w, r, M)
        BY <1>13, <3>1, <3>2, <3>4
      <4>2. file'[r][M] = file[r][M]
        BY <1>6, <3>1, <3>2, <3>4
      <4> QED BY <3>3, <4>1, <4>2
    <3>5. CASE M = L
      <4> DEFINE A == Got(w, r, L)
                 B == C(r)
      <4>1. Got(w, r, L)' = A \cup B
        BY <1>13, <3>1, <3>5
      <4>2. file'[r][L] = Ascending(A) \o Ascending(B)
        BY <1>6, <1>12, <3>1, <3>2, <3>3, <3>5
      <4>3. \A i \in A, j \in B : i < j
        BY <1>12, <3>1, <3>5
      <4>4. A \in SUBSET Nat /\ IsFiniteSet(A) /\ B \in SUBSET Nat /\ IsFiniteSet(B)
        BY <1>11, <2>3, <3>1
      <4> HIDE DEF A, B
      <4>5. Ascending(A \cup B) = Ascending(A) \o Ascending(B)
        BY <4>3, <4>4, AscendingAppend
      <4> QED BY <3>5, <4>1, <4>2, <4>5
    <3> QED BY <3>4, <3>5
  <2> QED BY <2>2, <2>5, <2>6 DEF CopyInv
<1>22. TrimInv(w)'
  <2>1. worker'[w].due = {}
    BY <1>1, <1>3 DEF PassInv, p
  <2> QED BY <1>1, <1>3, <1>7, <1>9, <2>1, TrimKept DEF p
<1>23. ManifestInv'
  <2>1. \A v \in Workers : Finished(v) \subseteq Finished(v)'
    <3> SUFFICES ASSUME NEW v \in Workers PROVE Finished(v)' = Finished(v)
      OBVIOUS
    <3>1. CASE v = w
      BY <1>10, <3>1
    <3>2. CASE v # w
      <4>1. worker'[v] = worker[v]
        BY <1>8, <3>2
      <4> QED BY <1>1, <1>9, <4>1, SameBatch
    <3> QED BY <3>1, <3>2
  <2>2. \A v \in Workers : \A r \in Reqs : \A M \in Mine(r, v) :
          r \in Finished(v) => file'[r][M] = file[r][M]
    BY <1>16
  <2> QED BY <1>1, <1>7, <2>1, <2>2, ManifestKept
<1> QED BY <1>9, <1>17, <1>18, <1>19, <1>20, <1>21, <1>22, <1>23 DEF GatherInv
-----------------------------------------------------------------------------
(* _finalize, _maybe_trim and the end. *)

LEMMA FinishedGrow ==
  ASSUME TypeOK, ChainInv, ChainKept, \A v \in Workers : PassInv(v), NEW w \in Workers,
         \A v \in Workers \ {w} : worker'[v] = worker[v],
         Finished(w) \subseteq Finished(w)'
  PROVE  \A v \in Workers : Finished(v) \subseteq Finished(v)'
<1> SUFFICES ASSUME NEW v \in Workers, v # w PROVE Finished(v)' = Finished(v)
  OBVIOUS
<1>1. worker'[v] = worker[v]
  OBVIOUS
<1> QED BY <1>1, SameBatch

LEMMA FinalizeStep ==
  ASSUME GatherInv, NEW w \in Workers, Finalize(w)
  PROVE  GatherInv'
<1> DEFINE p == worker[w]
           none == [first |-> 0, all |-> 0]
<1>1. /\ TypeOK /\ ChainInv /\ ManifestInv
      /\ \A v \in Workers : PassInv(v) /\ TodoInv(v) /\ CopyInv(v) /\ TrimInv(v)
  BY DEF GatherInv
<1>2. /\ p.pc = "batch" /\ p.todo = {}
      /\ worker' = [worker EXCEPT ![w] = worker'[w]] /\ worker'[w] \in Passes
      /\ worker'[w].pc = "batch" /\ worker'[w].seq = p.seq
      /\ worker'[w].next = p.next /\ worker'[w].todo = {}
      /\ worker'[w].floors = p.floors /\ worker'[w].due = p.due
      /\ worker'[w].freed = p.freed /\ worker'[w].target = p.target
  BY <1>1, FinalizeIs
<1>3. PICK r \in p.ready :
        /\ worker'[w].ready = p.ready \ {r}
        /\ worker'[w].known = p.known \ {r}
        /\ worker'[w].wrote = [p.wrote EXCEPT ![r] = none]
        /\ \/ manifests' = manifests
           \/ /\ WithManifest(r, w, StampTotal(r))
              /\ StampTotal(r) > 0 =>
                   /\ Mine(r, w) # {}
                   /\ \A L \in Mine(r, w) : file[r][L] = Ascending(RowsOf(r, 0, MaxRow))
  BY <1>1, FinalizeIs
<1>4. /\ UNCHANGED chain /\ UNCHANGED publisher /\ UNCHANGED file
      /\ UNCHANGED marker /\ UNCHANGED punched
  BY DEF Finalize
<1>5. /\ worker' \in [Workers -> Passes]
      /\ \A v \in Workers \ {w} : worker'[v] = worker[v]
  BY <1>1, <1>2, OnePass
<1>6. ChainKept /\ ChainInv' /\ Len(chain') \in Nat
  BY <1>1, <1>4, SameChain, ChainIs
<1>7. /\ UpTo(worker[w].next)' = UpTo(worker[w].next)
      /\ StampsTo(worker[w].next)' = StampsTo(worker[w].next)
      /\ StampsTo(worker[w].seq)' = StampsTo(worker[w].seq)
      /\ Met(w)' = Met(w)
      /\ \A s : Copied(w, s)' = Copied(w, s) /\ \A L : Got(w, s, L)' = Got(w, s, L)
  BY <1>1, <1>2, <1>6, SameBatch, SameSeq
<1>8. r \in Reqs /\ r \in StampsTo(p.next) /\ p.ready \subseteq StampsTo(p.next)
  <2>1. p.ready \subseteq StampsTo(p.next)
    BY <1>1 DEF PassInv
  <2> QED BY <1>1, <2>1, PassTypes
<1>9. Finished(w)' = Finished(w) \cup {r}
  <2>1. Finished(w) = StampsTo(p.next) \ p.ready
    BY DEF Finished
  <2>2. Finished(w)' = StampsTo(p.next) \ (p.ready \ {r})
    BY <1>3, <1>7, Zenon DEF Finished
  <2> QED BY <1>8, <2>1, <2>2
<1> HIDE DEF p
<1>10. \A v \in Workers : Finished(v) \subseteq Finished(v)'
  BY <1>1, <1>5, <1>6, <1>9, FinishedGrow
\* The manifests.
<1>11. ASSUME manifests' = manifests PROVE TypeOK' /\ ManifestInv'
  <2>1. TypeOK'
    BY <1>1, <1>4, <1>5, <1>11 DEF TypeOK
  <2>2. ManifestInv'
    BY <1>1, <1>4, <1>10, <1>11, ManifestKept
  <2> QED BY <2>1, <2>2
<1>12. ASSUME WithManifest(r, w, StampTotal(r)),
              StampTotal(r) > 0 =>
                /\ Mine(r, w) # {}
                /\ \A L \in Mine(r, w) : file[r][L] = Ascending(RowsOf(r, 0, MaxRow))
       PROVE  TypeOK' /\ ManifestInv'
  <2> DEFINE new == Manifest(w, StampTotal(r))
             ms == { m \in manifests[r] : m.worker # w } \cup {new}
  <2>1. manifests' = [manifests EXCEPT ![r] = ms]
    BY <1>12 DEF WithManifest
  <2>2. new.worker = w /\ new.n = StampTotal(r) /\ new.run = "this"
    BY DEF Manifest
  <2>3. StampTotal(r) \in Nat
    BY Sizes, RowsAre DEF StampTotal
  <2>4. new \in [worker : Workers, n : Nat, run : {"this", "old"}]
    BY <2>3 DEF Manifest
  <2>5. manifests \in [Reqs -> SUBSET [worker : Workers, n : Nat, run : {"this", "old"}]]
    BY <1>1 DEF TypeOK
  <2> HIDE DEF new
  <2>6. ms \subseteq [worker : Workers, n : Nat, run : {"this", "old"}]
    BY <1>8, <2>4, <2>5
  <2>7. \A m \in ms : m \in manifests[r] \/ m = new
    OBVIOUS
  <2> HIDE DEF ms
  <2>8. manifests' \in [Reqs -> SUBSET [worker : Workers, n : Nat, run : {"this", "old"}]]
    BY <2>1, <2>5, <2>6
  <2>9. TypeOK'
    BY <1>1, <1>4, <1>5, <2>8 DEF TypeOK
  <2>10. \A s \in Reqs : manifests'[s] = IF s = r THEN ms ELSE manifests[s]
    BY <2>1, <2>5
  <2>11. \A s \in Reqs : \A m \in manifests'[s] : m \in manifests[s] \/ (s = r /\ m = new)
    BY <2>7, <2>10
  <2> SUFFICES ASSUME NEW s \in Reqs, NEW m \in RunManifests(s)'
               PROVE  /\ m.n = StampTotal(s) /\ s \in Finished(m.worker)'
                      /\ m.n > 0 =>
                           /\ Mine(s, m.worker) # {}
                           /\ \A L \in Mine(s, m.worker) :
                                file[s][L] = Ascending(RowsOf(s, 0, MaxRow))
    BY <1>4, <2>9 DEF ManifestInv
  <2>12. m.run = "this" /\ m \in manifests'[s]
    BY DEF RunManifests
  <2>13. CASE m \in manifests[s]
    <3>1. m \in RunManifests(s) /\ m.worker \in Workers
      BY <2>5, <2>12, <2>13 DEF RunManifests
    <3>2. /\ m.n = StampTotal(s) /\ s \in Finished(m.worker)
          /\ m.n > 0 =>
               /\ Mine(s, m.worker) # {}
               /\ \A L \in Mine(s, m.worker) : file[s][L] = Ascending(RowsOf(s, 0, MaxRow))
      BY <1>1, <3>1 DEF ManifestInv
    <3>3. s \in Finished(m.worker)'
      <4>1. PICK v \in Workers : v = m.worker
        BY <3>1
      <4>2. s \in Finished(v)'
        BY <1>10, <3>2, <4>1
      <4> QED BY <4>1, <4>2
    <3> QED BY <3>2, <3>3
  <2>14. CASE s = r /\ m = new
    <3>1. m.worker = w /\ m.n = StampTotal(s)
      BY <2>2, <2>14
    <3>2. s \in Finished(w)'
      BY <1>9, <2>14
    <3>3. s \in Finished(m.worker)'
      BY <3>1, <3>2
    <3> QED BY <1>12, <2>14, <3>1, <3>3
  <2> QED BY <2>11, <2>12, <2>13, <2>14
<1>13. TypeOK' /\ ManifestInv'
  BY <1>3, <1>11, <1>12
\* The other workers.
<1>14. ASSUME NEW v \in Workers, v # w
       PROVE  PassInv(v)' /\ TodoInv(v)' /\ CopyInv(v)' /\ TrimInv(v)'
  <2>1. worker'[v] = worker[v]
    BY <1>5, <1>14
  <2> QED BY <1>1, <1>4, <1>6, <2>1, OthersKept, TrimOthersKept
\* This worker.
<1>15. PassInv(w)'
  <2>1. /\ p.seq <= p.next /\ p.next <= Len(chain) /\ p.due = {}
        /\ p.ready \subseteq StampsTo(worker[w].next) \ StampsTo(worker[w].seq)
    BY <1>1, <1>2 DEF PassInv, p
  <2>2. worker'[w].ready \subseteq (StampsTo(worker[w].next) \ StampsTo(worker[w].seq))'
    BY <1>3, <1>7, <2>1
  <2> QED BY <1>2, <1>4, <2>1, <2>2 DEF PassInv
<1>16. TodoInv(w)'
  BY <1>2, NoTodo
<1>17. CopyInv(w)'
  <2>1. /\ p.known = Met(w) \ Finished(w)
        /\ \A s \in Reqs : p.wrote[s] =
             IF s \notin p.known THEN none
             ELSE [first |-> IF Mine(s, w) = {} THEN 0
                             ELSE Cardinality(Got(w, s, FirstMine(s, w))),
                   all |-> Cardinality(Copied(w, s))]
        /\ \A s \in Met(w) : \A L \in Mine(s, w) : file[s][L] = Ascending(Got(w, s, L))
    BY <1>1, <1>2 DEF CopyInv, p
  <2>2. worker'[w].known = Met(w)' \ Finished(w)'
    BY <1>3, <1>7, <1>9, <2>1
  <2>3. p.wrote \in [Reqs -> [first : Nat, all : Nat]]
    BY <1>1, PassTypes DEF p
  <2>4. ASSUME NEW s \in Reqs
        PROVE  worker'[w].wrote[s] =
                 IF s \notin worker'[w].known THEN none
                 ELSE [first |-> IF Mine(s, w) = {} THEN 0
                                 ELSE Cardinality(Got(w, s, FirstMine(s, w))'),
                       all |-> Cardinality(Copied(w, s)')]
    <3> HIDE DEF none
    <3>1. worker'[w].wrote[s] = IF s = r THEN none ELSE p.wrote[s]
      BY <1>3, <1>8, <2>3
    <3>2. CASE s = r
      BY <1>3, <3>1, <3>2
    <3>3. CASE s # r
      <4>1. s \in worker'[w].known <=> s \in p.known
        BY <1>3, <3>3
      <4>2. worker'[w].wrote[s] = p.wrote[s]
        BY <3>1, <3>3
      <4>3. /\ Copied(w, s)' = Copied(w, s)
            /\ Got(w, s, FirstMine(s, w))' = Got(w, s, FirstMine(s, w))
        BY <1>7
      <4> QED BY <2>1, <4>1, <4>2, <4>3, Zenon
    <3> QED BY <3>2, <3>3
  <2>5. ASSUME NEW s \in Met(w)', NEW L \in Mine(s, w)
        PROVE  file'[s][L] = Ascending(Got(w, s, L)')
    <3>1. s \in Met(w) /\ Got(w, s, L)' = Got(w, s, L)
      BY <1>7
    <3> QED BY <1>4, <2>1, <3>1, Zenon
  <2> QED BY <2>2, <2>4, <2>5 DEF CopyInv
<1>18. TrimInv(w)'
  BY <1>1, <1>2, <1>4, <1>6, TrimKept DEF p
<1> QED BY <1>6, <1>13, <1>14, <1>15, <1>16, <1>17, <1>18 DEF GatherInv
LEMMA ReportStep ==
  ASSUME GatherInv, NEW w \in Workers, Report(w)
  PROVE  GatherInv'
<1> DEFINE p == worker[w]
           hi == UpTo(p.next)
<1>1. /\ TypeOK /\ ChainInv /\ ManifestInv
      /\ \A v \in Workers : PassInv(v) /\ TodoInv(v) /\ CopyInv(v) /\ TrimInv(v)
  BY DEF GatherInv
<1>2. hi \in Nat /\ UpTo(p.seq) \in Nat /\ UpTo(p.seq) <= hi /\ CursorRow(w) \in Nat
  BY <1>1, GotIs DEF CursorRow
<1>3. /\ p.pc = "batch" /\ p.todo = {} /\ p.ready = {}
      /\ worker' = [worker EXCEPT ![w] = worker'[w]] /\ worker'[w] \in Passes
      /\ worker'[w].pc = "idle" /\ worker'[w].seq = p.next
      /\ worker'[w].next = p.next /\ worker'[w].todo = {} /\ worker'[w].ready = {}
      /\ worker'[w].known = p.known /\ worker'[w].wrote = p.wrote
      /\ \A L \in Layers : worker'[w].floors[L] = 0
      /\ worker'[w].due = p.due /\ worker'[w].freed = p.freed
      /\ marker' \in [Workers -> [at : Nat, floor : [Layers -> Nat]]]
      /\ \A v \in Workers : /\ marker'[v].floor = marker[v].floor
                            /\ marker'[v].at = marker[v].at \/ (v = w /\ marker'[v].at = hi)
  BY <1>1, <1>2, ReportIs
<1>4. /\ UNCHANGED chain /\ UNCHANGED publisher /\ UNCHANGED file
      /\ UNCHANGED manifests /\ UNCHANGED punched
  BY DEF Report
<1>5. /\ worker' \in [Workers -> Passes]
      /\ \A v \in Workers \ {w} : worker'[v] = worker[v]
  BY <1>1, <1>3, OnePass
<1>6. ChainKept /\ ChainInv' /\ Len(chain') \in Nat
  BY <1>1, <1>4, SameChain, ChainIs
<1>7. TypeOK'
  BY <1>1, <1>3, <1>4, <1>5 DEF TypeOK
<1>8. UpTo(worker[w].seq)' = hi /\ Finished(w)' = Finished(w)
  <2>1. UpTo(worker[w].seq)' = hi
    BY <1>3, <1>4 DEF UpTo
  <2>2. Finished(w)' = Finished(w)
    BY <1>1, <1>3, <1>6, SameBatch
  <2> QED BY <2>1, <2>2
<1> HIDE DEF p, hi
<1>9. \A v \in Workers : UpTo(worker[v].seq) \in Nat
  BY <1>1, GotIs
<1>10. ASSUME NEW v \in Workers, v # w
       PROVE  PassInv(v)' /\ TodoInv(v)' /\ CopyInv(v)' /\ UpTo(worker[v].seq)' = UpTo(worker[v].seq)
  <2>1. worker'[v] = worker[v]
    BY <1>5, <1>10
  <2>2. PassInv(v)' /\ TodoInv(v)' /\ CopyInv(v)'
    BY <1>1, <1>4, <1>6, <2>1, OthersKept
  <2>3. UpTo(worker[v].seq)' = UpTo(worker[v].seq)
    BY <1>1, <1>6, <2>1, SameSeq
  <2> QED BY <2>2, <2>3
<1>11. PassInv(w)' /\ TodoInv(w)' /\ CopyInv(w)'
  <2>1. PassInv(w)'
    <3>1. p.next \in Nat /\ p.next <= Len(chain) /\ p.due = {}
      BY <1>1, <1>3, PassTypes DEF PassInv, p
    <3> QED BY <1>3, <1>4, <3>1 DEF PassInv
  <2>2. TodoInv(w)'
    BY <1>3, NoTodo
  <2>3. CopyInv(w)'
    BY <1>1, <1>3, <1>4, <1>6, CopyKept DEF p
  <2> QED BY <2>1, <2>2, <2>3
\* What was behind a cursor still is.
<1>12. ASSUME NEW v \in Workers PROVE TrimInv(v)'
  <2>1. UpTo(worker[v].seq) <= UpTo(worker[v].seq)' /\ UpTo(worker[v].seq)' \in Nat
    <3>1. CASE v = w
      BY <1>2, <1>8, <3>1 DEF p
    <3>2. CASE v # w
      BY <1>9, <1>10, <3>2
    <3> QED BY <3>1, <3>2
  <2>2. marker'[v].at <= UpTo(worker[v].seq)'
    <3>1. marker[v].at <= UpTo(worker[v].seq) /\ marker[v].at \in Nat
      BY <1>1, PassTypes DEF TrimInv
    <3>2. CASE marker'[v].at = marker[v].at
      BY <1>9, <2>1, <3>1, <3>2
    <3>3. CASE v = w /\ marker'[v].at = hi
      BY <1>2, <1>8, <3>3
    <3> QED BY <1>3, <3>2, <3>3
  <2>3. ASSUME NEW L \in Layers
        PROVE  /\ \A u \in Workers : marker'[u].floor[L] <= UpTo(worker[v].seq)'
               /\ worker'[v].floors[L] <= UpTo(worker[v].seq)'
    <3>1. \A u \in Workers : marker[u].floor[L] <= UpTo(worker[v].seq) /\ marker[u].floor[L] \in Nat
      BY <1>1, PassTypes DEF TrimInv
    <3>2. \A u \in Workers : marker'[u].floor[L] <= UpTo(worker[v].seq)'
      BY <1>3, <1>9, <2>1, <3>1
    <3>3. worker'[v].floors[L] <= UpTo(worker[v].seq)'
      <4>1. CASE v = w
        BY <1>3, <2>1, <4>1
      <4>2. CASE v # w
        <5>1. worker[v].floors[L] <= UpTo(worker[v].seq)
          BY <1>1 DEF TrimInv
        <5> QED BY <1>5, <1>10, <4>2, <5>1
      <4> QED BY <4>1, <4>2
    <3> QED BY <3>2, <3>3
  <2>4. /\ \A L \in TrimLayers(v) :
             punched'[L] = worker'[v].freed[L] /\ FloorRow(punched'[L]) <= marker'[v].floor[L]
        /\ \A L \in worker'[v].due :
             L \in TrimLayers(v) /\ marker'[v].floor[L] = FloorRow(worker'[v].target)
    <3>1. /\ \A L \in TrimLayers(v) :
               punched[L] = worker[v].freed[L] /\ FloorRow(punched[L]) <= marker[v].floor[L]
          /\ \A L \in worker[v].due :
               L \in TrimLayers(v) /\ marker[v].floor[L] = FloorRow(worker[v].target)
      BY <1>1 DEF TrimInv
    <3>2. marker'[v].floor = marker[v].floor /\ worker'[v].freed = worker[v].freed
      BY <1>3, <1>5 DEF p
    <3>3. worker'[v].due = {} \/ worker'[v] = worker[v]
      <4>1. p.due = {}
        BY <1>1, <1>3 DEF PassInv, p
      <4> QED BY <1>3, <1>5, <4>1
    <3> QED BY <1>4, <3>1, <3>2, <3>3
  <2> QED BY <2>2, <2>3, <2>4 DEF TrimInv
<1>13. ManifestInv'
  <2>1. \A v \in Workers : Finished(v) \subseteq Finished(v)'
    BY <1>1, <1>5, <1>6, <1>8, FinishedGrow
  <2> QED BY <1>1, <1>4, <2>1, ManifestKept
<1> QED BY <1>6, <1>7, <1>10, <1>11, <1>12, <1>13 DEF GatherInv

LEMMA AnnounceStep ==
  ASSUME GatherInv, NEW w \in Workers, Announce(w)
  PROVE  GatherInv'
<1> DEFINE p == worker[w]
           hi == UpTo(p.next)
           t == TrimTarget(w)
           d == Due(w)
<1>1. /\ TypeOK /\ ChainInv /\ ManifestInv
      /\ \A v \in Workers : PassInv(v) /\ TodoInv(v) /\ CopyInv(v) /\ TrimInv(v)
  BY DEF GatherInv
<1>2. hi \in Nat /\ UpTo(p.seq) \in Nat /\ UpTo(p.seq) <= hi /\ CursorRow(w) \in Nat
  BY <1>1, GotIs DEF CursorRow
<1>3. /\ p.pc = "batch" /\ p.todo = {} /\ p.ready = {}
      /\ worker' = [worker EXCEPT ![w] = worker'[w]] /\ worker'[w] \in Passes
      /\ worker'[w].pc = "punch" /\ worker'[w].seq = p.next
      /\ worker'[w].next = p.next /\ worker'[w].todo = {} /\ worker'[w].ready = {}
      /\ worker'[w].known = p.known /\ worker'[w].wrote = p.wrote
      /\ \A L \in Layers : worker'[w].floors[L] = 0
      /\ worker'[w].due = d /\ worker'[w].freed = p.freed /\ worker'[w].target = t
      /\ marker' \in [Workers -> [at : Nat, floor : [Layers -> Nat]]]
      /\ \A v \in Workers \ {w} : marker'[v] = marker[v]
      /\ marker'[w].at = hi
      /\ \A L \in Layers : marker'[w].floor[L] =
           IF L \in d THEN FloorRow(t) ELSE marker[w].floor[L]
  BY <1>1, <1>2, AnnounceIs
<1>4. /\ UNCHANGED chain /\ UNCHANGED publisher /\ UNCHANGED file
      /\ UNCHANGED manifests /\ UNCHANGED punched
  BY DEF Announce
<1>5. /\ worker' \in [Workers -> Passes]
      /\ \A v \in Workers \ {w} : worker'[v] = worker[v]
  BY <1>1, <1>3, OnePass
<1>6. ChainKept /\ ChainInv' /\ Len(chain') \in Nat
  BY <1>1, <1>4, SameChain, ChainIs
<1>7. TypeOK'
  BY <1>1, <1>3, <1>4, <1>5 DEF TypeOK
<1>8. UpTo(worker[w].seq)' = hi /\ Finished(w)' = Finished(w)
  <2>1. UpTo(worker[w].seq)' = hi
    BY <1>3, <1>4 DEF UpTo
  <2>2. Finished(w)' = Finished(w)
    BY <1>1, <1>3, <1>6, SameBatch
  <2> QED BY <2>1, <2>2
<1>9. /\ t \in Nat /\ FloorRow(t) \in Nat /\ FloorRow(t) <= hi
      /\ \A v \in Workers \ {w} : FloorRow(t) <= marker[v].at
  BY <1>1, <1>2, TargetIs DEF CursorRow
<1>10. \A L \in d : L \in TrimLayers(w) /\ L \in Layers /\ t - p.freed[L] >= Chunk
  BY DEF Due, TrimLayers
<1> HIDE DEF p, hi, t, d
<1>11. \A v \in Workers : UpTo(worker[v].seq) \in Nat
  BY <1>1, GotIs
<1>12. ASSUME NEW v \in Workers, v # w
       PROVE  PassInv(v)' /\ TodoInv(v)' /\ CopyInv(v)' /\ UpTo(worker[v].seq)' = UpTo(worker[v].seq)
  <2>1. worker'[v] = worker[v]
    BY <1>5, <1>12
  <2>2. PassInv(v)' /\ TodoInv(v)' /\ CopyInv(v)'
    BY <1>1, <1>4, <1>6, <2>1, OthersKept
  <2>3. UpTo(worker[v].seq)' = UpTo(worker[v].seq)
    BY <1>1, <1>6, <2>1, SameSeq
  <2> QED BY <2>2, <2>3
<1>13. PassInv(w)' /\ TodoInv(w)' /\ CopyInv(w)'
  <2>1. PassInv(w)'
    <3>1. p.next \in Nat /\ p.next <= Len(chain)
      BY <1>1, <1>3, PassTypes DEF PassInv, p
    <3> QED BY <1>3, <1>4, <3>1 DEF PassInv
  <2>2. TodoInv(w)'
    BY <1>3, NoTodo
  <2>3. CopyInv(w)'
    BY <1>1, <1>3, <1>4, <1>6, CopyKept DEF p
  <2> QED BY <2>1, <2>2, <2>3
\* The new floors are behind every cursor.
<1>14. ASSUME NEW v \in Workers PROVE TrimInv(v)'
  <2>1. UpTo(worker[v].seq) <= UpTo(worker[v].seq)' /\ UpTo(worker[v].seq)' \in Nat
    <3>1. CASE v = w
      BY <1>2, <1>8, <3>1 DEF p
    <3>2. CASE v # w
      BY <1>11, <1>12, <3>2
    <3> QED BY <3>1, <3>2
  <2>2. marker[v].at <= UpTo(worker[v].seq) /\ marker[v].at \in Nat
    BY <1>1, PassTypes DEF TrimInv
  <2>3. marker'[v].at <= UpTo(worker[v].seq)'
    <3>1. CASE v = w
      BY <1>2, <1>3, <1>8, <3>1
    <3>2. CASE v # w
      BY <1>3, <1>12, <2>2, <3>2
    <3> QED BY <3>1, <3>2
  <2>4. FloorRow(t) <= UpTo(worker[v].seq)'
    <3>1. CASE v = w
      BY <1>8, <1>9, <3>1
    <3>2. CASE v # w
      BY <1>9, <1>11, <1>12, <2>2, <3>2
    <3> QED BY <3>1, <3>2
  <2>5. ASSUME NEW L \in Layers
        PROVE  /\ \A u \in Workers : marker'[u].floor[L] <= UpTo(worker[v].seq)'
               /\ worker'[v].floors[L] <= UpTo(worker[v].seq)'
    <3>1. \A u \in Workers : marker[u].floor[L] <= UpTo(worker[v].seq) /\ marker[u].floor[L] \in Nat
      BY <1>1, PassTypes DEF TrimInv
    <3>2. \A u \in Workers : marker'[u].floor[L] = marker[u].floor[L] \/ marker'[u].floor[L] = FloorRow(t)
      BY <1>3
    <3>3. \A u \in Workers : marker'[u].floor[L] <= UpTo(worker[v].seq)'
      BY <1>11, <2>1, <2>4, <3>1, <3>2
    <3>4. worker'[v].floors[L] <= UpTo(worker[v].seq)'
      <4>1. CASE v = w
        BY <1>3, <2>1, <4>1
      <4>2. CASE v # w
        <5>1. worker[v].floors[L] <= UpTo(worker[v].seq)
          BY <1>1 DEF TrimInv
        <5> QED BY <1>5, <1>12, <4>2, <5>1
      <4> QED BY <4>1, <4>2
    <3> QED BY <3>3, <3>4
  <2>6. /\ \A L \in TrimLayers(v) :
             punched[L] = worker[v].freed[L] /\ FloorRow(punched[L]) <= marker[v].floor[L]
        /\ \A L \in worker[v].due :
             L \in TrimLayers(v) /\ marker[v].floor[L] = FloorRow(worker[v].target)
    BY <1>1 DEF TrimInv
  <2>7. ASSUME NEW L \in TrimLayers(v)
        PROVE  punched'[L] = worker'[v].freed[L] /\ FloorRow(punched'[L]) <= marker'[v].floor[L]
    <3>1. L \in Layers
      BY DEF TrimLayers
    <3>2. punched'[L] = worker'[v].freed[L]
      BY <1>3, <1>4, <1>5, <2>6 DEF p
    <3>3. FloorRow(punched[L]) <= marker'[v].floor[L]
      <4>1. CASE v = w /\ L \in d
        <5> DEFINE q == punched[L]
        <5>1. q \in Nat /\ q = p.freed[L]
          BY <1>1, <2>6, <3>1, <4>1 DEF TypeOK, p
        <5> HIDE DEF q
        <5>2. q <= t
          <6>1. t - q >= Chunk
            BY <1>10, <4>1, <5>1
          <6>2. Chunk \in Nat /\ t \in Nat
            BY <1>9, GatherAssumption
          <6> QED BY <5>1, <6>1, <6>2
        <5>3. FloorRow(q) <= FloorRow(t)
          BY <1>9, <5>1, <5>2, FloorGrows
        <5>4. marker'[v].floor[L] = FloorRow(t)
          BY <1>3, <3>1, <4>1
        <5> QED BY <5>3, <5>4 DEF q
      <4>2. CASE v # w \/ L \notin d
        <5>1. marker'[v].floor[L] = marker[v].floor[L]
          BY <1>3, <3>1, <4>2
        <5> QED BY <2>6, <5>1
      <4> QED BY <4>1, <4>2
    <3> QED BY <1>4, <3>2, <3>3
  <2>8. ASSUME NEW L \in worker'[v].due
        PROVE  L \in TrimLayers(v) /\ marker'[v].floor[L] = FloorRow(worker'[v].target)
    <3>1. CASE v = w
      BY <1>3, <1>10, <3>1
    <3>2. CASE v # w
      BY <1>3, <1>5, <2>6, <3>2
    <3> QED BY <3>1, <3>2
  <2> QED BY <2>3, <2>5, <2>7, <2>8 DEF TrimInv
<1>15. ManifestInv'
  <2>1. \A v \in Workers : Finished(v) \subseteq Finished(v)'
    BY <1>1, <1>5, <1>6, <1>8, FinishedGrow
  <2> QED BY <1>1, <1>4, <2>1, ManifestKept
<1> QED BY <1>6, <1>7, <1>12, <1>13, <1>14, <1>15 DEF GatherInv
LEMMA PunchStep ==
  ASSUME GatherInv, NEW w \in Workers, NEW L, Punch(w, L)
  PROVE  GatherInv'
<1> DEFINE p == worker[w]
<1>1. /\ TypeOK /\ ChainInv /\ ManifestInv
      /\ \A v \in Workers : PassInv(v) /\ TodoInv(v) /\ CopyInv(v) /\ TrimInv(v)
  BY DEF GatherInv
<1>2. /\ p.pc = "punch" /\ L \in p.due
      /\ worker' = [worker EXCEPT ![w] = worker'[w]] /\ worker'[w] \in Passes
      /\ worker'[w].seq = p.seq /\ worker'[w].next = p.next
      /\ worker'[w].todo = p.todo /\ worker'[w].ready = p.ready
      /\ worker'[w].known = p.known /\ worker'[w].wrote = p.wrote
      /\ worker'[w].floors = p.floors
      /\ worker'[w].due = p.due \ {L}
      /\ worker'[w].freed = [p.freed EXCEPT ![L] = p.target]
      /\ \/ worker'[w].pc = "idle" /\ worker'[w].due = {}
         \/ worker'[w].pc = "punch" /\ worker'[w].target = p.target
      /\ punched' = [punched EXCEPT ![L] = p.target]
  BY <1>1, PunchIs
<1>3. /\ UNCHANGED chain /\ UNCHANGED publisher /\ UNCHANGED file
      /\ UNCHANGED manifests /\ UNCHANGED marker
  BY DEF Punch
<1>4. /\ worker' \in [Workers -> Passes]
      /\ \A v \in Workers \ {w} : worker'[v] = worker[v]
  BY <1>1, <1>2, OnePass
<1>5. ChainKept /\ ChainInv' /\ Len(chain') \in Nat
  BY <1>1, <1>3, SameChain, ChainIs
<1>6. p.target \in Nat /\ p.freed \in [Layers -> Nat] /\ L \in Layers
  BY <1>1, <1>2, PassTypes
<1>7. punched \in [Layers -> Nat] /\ punched' \in [Layers -> Nat]
  BY <1>1, <1>2, <1>6 DEF TypeOK
<1>8. TypeOK'
  BY <1>1, <1>3, <1>4, <1>7 DEF TypeOK
<1>9. /\ \A v \in Workers : UpTo(worker[v].seq)' = UpTo(worker[v].seq)
      /\ StampsTo(worker[w].seq)' = StampsTo(worker[w].seq)
      /\ StampsTo(worker[w].next)' = StampsTo(worker[w].next)
      /\ Finished(w)' = Finished(w)
  <2>1. \A v \in Workers : worker'[v].seq = worker[v].seq
    BY <1>2, <1>4
  <2>2. \A v \in Workers : UpTo(worker[v].seq)' = UpTo(worker[v].seq)
    BY <1>1, <1>5, <2>1, SameSeq
  <2> QED BY <1>1, <1>2, <1>5, <2>2, SameBatch, SameSeq
<1> HIDE DEF p
<1>10. ASSUME NEW v \in Workers, v # w PROVE PassInv(v)' /\ TodoInv(v)' /\ CopyInv(v)'
  <2>1. worker'[v] = worker[v]
    BY <1>4, <1>10
  <2> QED BY <1>1, <1>3, <1>5, <2>1, OthersKept
<1>11. PassInv(w)' /\ TodoInv(w)' /\ CopyInv(w)'
  <2>1. PassInv(w)'
    <3>1. /\ p.seq = p.next /\ p.next <= Len(chain) /\ p.todo = {}
          /\ p.ready \subseteq StampsTo(worker[w].next) \ StampsTo(worker[w].seq)
      BY <1>1, <1>2 DEF PassInv, p
    <3>2. p.seq \in Nat
      BY <1>1, PassTypes DEF p
    <3>3. worker'[w].ready \subseteq (StampsTo(worker[w].next) \ StampsTo(worker[w].seq))'
      BY <1>2, <1>9, <3>1
    <3> QED BY <1>2, <1>3, <3>1, <3>2, <3>3 DEF PassInv
  <2>2. TodoInv(w)'
    BY <1>1, <1>2, <1>5, TodoKept DEF p
  <2>3. CopyInv(w)'
    BY <1>1, <1>2, <1>3, <1>5, CopyKept DEF p
  <2> QED BY <2>1, <2>2, <2>3
\* The hole is the one announced, in a file no other worker frees.
<1>12. ASSUME NEW v \in Workers PROVE TrimInv(v)'
  <2>1. /\ marker[v].at <= UpTo(worker[v].seq)
        /\ \A M \in Layers : /\ \A u \in Workers : marker[u].floor[M] <= UpTo(worker[v].seq)
                             /\ worker[v].floors[M] <= UpTo(worker[v].seq)
    BY <1>1 DEF TrimInv
  <2>2. /\ \A M \in TrimLayers(v) :
             punched[M] = worker[v].freed[M] /\ FloorRow(punched[M]) <= marker[v].floor[M]
        /\ \A M \in worker[v].due :
             M \in TrimLayers(v) /\ marker[v].floor[M] = FloorRow(worker[v].target)
    BY <1>1 DEF TrimInv
  <2>3. worker'[v].floors = worker[v].floors
    BY <1>2, <1>4 DEF p
  <2>4. L \in TrimLayers(w) /\ marker[w].floor[L] = FloorRow(p.target)
    BY <1>1, <1>2 DEF TrimInv, p
  <2>5. ASSUME NEW M \in TrimLayers(v)
        PROVE  punched'[M] = worker'[v].freed[M] /\ FloorRow(punched'[M]) <= marker[v].floor[M]
    <3>1. M \in Layers
      BY DEF TrimLayers
    <3>2. CASE v = w /\ M = L
      <4>1. punched'[M] = p.target /\ worker'[v].freed[M] = p.target
        BY <1>2, <1>6, <1>7, <3>2
      <4>2. FloorRow(p.target) <= FloorRow(p.target)
        BY <1>6, FloorGrows
      <4> QED BY <2>4, <3>2, <4>1, <4>2
    <3>3. CASE v = w /\ M # L
      <4>1. punched'[M] = punched[M] /\ worker'[v].freed[M] = worker[v].freed[M]
        BY <1>2, <1>6, <1>7, <3>1, <3>3 DEF p
      <4> QED BY <2>2, <4>1
    <3>4. CASE v # w
      <4>1. M # L
        BY <2>4, <3>4 DEF TrimLayers
      <4>2. punched'[M] = punched[M]
        BY <1>2, <1>7, <3>1, <4>1
      <4>3. worker'[v] = worker[v]
        BY <1>4, <3>4
      <4> QED BY <2>2, <4>2, <4>3
    <3> QED BY <3>2, <3>3, <3>4
  <2>6. ASSUME NEW M \in worker'[v].due
        PROVE  M \in TrimLayers(v) /\ marker[v].floor[M] = FloorRow(worker'[v].target)
    <3>1. CASE v = w
      <4>1. M \in worker[v].due /\ worker'[v].target = worker[v].target
        BY <1>2, <2>6, <3>1 DEF p
      <4> QED BY <2>2, <4>1
    <3>2. CASE v # w
      <4>1. worker'[v] = worker[v]
        BY <1>4, <3>2
      <4> QED BY <2>2, <2>6, <4>1
    <3> QED BY <3>1, <3>2
  <2> QED BY <1>3, <1>9, <2>1, <2>3, <2>5, <2>6 DEF TrimInv
<1>13. ManifestInv'
  <2>1. \A v \in Workers : Finished(v) \subseteq Finished(v)'
    BY <1>1, <1>4, <1>5, <1>9, FinishedGrow
  <2> QED BY <1>1, <1>3, <2>1, ManifestKept
<1> QED BY <1>5, <1>8, <1>10, <1>11, <1>12, <1>13 DEF GatherInv

LEMMA EndStep ==
  ASSUME GatherInv, NEW w \in Workers, Done(w) \/ Die(w)
  PROVE  GatherInv'
<1> DEFINE p == worker[w]
<1>1. /\ TypeOK /\ ChainInv /\ ManifestInv
      /\ \A v \in Workers : PassInv(v) /\ TodoInv(v) /\ CopyInv(v) /\ TrimInv(v)
  BY DEF GatherInv
<1>2. /\ worker' = [worker EXCEPT ![w] = worker'[w]] /\ worker'[w] \in Passes
      /\ worker'[w].seq = p.seq /\ worker'[w].next = p.next
      /\ worker'[w].ready = p.ready
      /\ worker'[w].known = p.known /\ worker'[w].wrote = p.wrote
      /\ worker'[w].floors = p.floors /\ worker'[w].freed = p.freed
      /\ worker'[w].target = p.target
      /\ \/ /\ p.pc = "idle" /\ worker'[w].pc = "done"
            /\ worker'[w].todo = p.todo /\ worker'[w].due = p.due
         \/ worker'[w].pc = "dead" /\ worker'[w].todo = {} /\ worker'[w].due = {}
  BY <1>1, EndIs
<1>3. /\ UNCHANGED chain /\ UNCHANGED publisher /\ UNCHANGED file
      /\ UNCHANGED manifests /\ UNCHANGED marker /\ UNCHANGED punched
  BY DEF Done, Die
<1>4. /\ worker' \in [Workers -> Passes]
      /\ \A v \in Workers \ {w} : worker'[v] = worker[v]
  BY <1>1, <1>2, OnePass
<1>5. ChainKept /\ ChainInv' /\ Len(chain') \in Nat
  BY <1>1, <1>3, SameChain, ChainIs
<1>6. TypeOK'
  BY <1>1, <1>3, <1>4 DEF TypeOK
<1>7. /\ StampsTo(worker[w].seq)' = StampsTo(worker[w].seq)
      /\ StampsTo(worker[w].next)' = StampsTo(worker[w].next)
      /\ Finished(w)' = Finished(w)
  BY <1>1, <1>2, <1>5, SameBatch, SameSeq
<1> HIDE DEF p
<1>8. ASSUME NEW v \in Workers, v # w
      PROVE  PassInv(v)' /\ TodoInv(v)' /\ CopyInv(v)' /\ TrimInv(v)'
  <2>1. worker'[v] = worker[v]
    BY <1>4, <1>8
  <2> QED BY <1>1, <1>3, <1>5, <2>1, OthersKept, TrimOthersKept
<1>9. PassInv(w)'
  <2>1. /\ p.seq <= p.next /\ p.next <= Len(chain)
        /\ p.pc = "idle" => p.seq = p.next /\ p.todo = {} /\ p.due = {}
        /\ p.ready \subseteq StampsTo(worker[w].next) \ StampsTo(worker[w].seq)
    BY <1>1 DEF PassInv, p
  <2>2. worker'[w].ready \subseteq (StampsTo(worker[w].next) \ StampsTo(worker[w].seq))'
    BY <1>2, <1>7, <2>1
  <2>3. worker'[w].todo = {} /\ worker'[w].due = {}
    BY <1>2, <2>1
  <2>4. /\ worker'[w].pc \in {"done", "dead"}
        /\ worker'[w].pc = "done" => worker'[w].seq = worker'[w].next
    BY <1>2, <2>1
  <2> QED BY <1>2, <1>3, <2>1, <2>2, <2>3, <2>4 DEF PassInv
<1>10. TodoInv(w)'
  BY <1>1, <1>2, <1>5, TodoKept, NoTodo DEF p
<1>11. CopyInv(w)'
  <2>1. CASE worker'[w].pc = "dead"
    BY <2>1 DEF CopyInv
  <2>2. CASE p.pc = "idle" /\ worker'[w].todo = p.todo
    BY <1>1, <1>2, <1>3, <1>5, <2>2, CopyKept DEF p
  <2> QED BY <1>2, <2>1, <2>2
<1>12. TrimInv(w)'
  BY <1>1, <1>2, <1>3, <1>5, TrimKept DEF p
<1>13. ManifestInv'
  <2>1. \A v \in Workers : Finished(v) \subseteq Finished(v)'
    BY <1>1, <1>4, <1>5, <1>7, FinishedGrow
  <2> QED BY <1>1, <1>3, <2>1, ManifestKept
<1> QED BY <1>5, <1>6, <1>8, <1>9, <1>10, <1>11, <1>12, <1>13 DEF GatherInv

-----------------------------------------------------------------------------
(* The invariant. *)

LEMMA GatherInit == ASSUME Init PROVE GatherInv
<1>1. TypeOK
  BY TypeInit
<1>2. chain = <<>> /\ DOMAIN chain = {} /\ Len(chain) = 0
  BY DEF Init
<1>3. ChainInv
  BY <1>2 DEF ChainInv
<1>4. ManifestInv
  <2>1. \A r \in Reqs : \A m \in manifests[r] : m.run = "old"
    BY DEF Init
  <2>2. \A r \in Reqs : RunManifests(r) = {}
    BY <2>1 DEF RunManifests
  <2> QED BY <2>2 DEF ManifestInv
<1>5. UpTo(0) = 0 /\ StampsTo(0) = {}
  BY DEF UpTo, StampsTo
<1> SUFFICES ASSUME NEW w \in Workers
             PROVE  PassInv(w) /\ TodoInv(w) /\ CopyInv(w) /\ TrimInv(w)
  BY <1>1, <1>3, <1>4 DEF GatherInv
<1>6. worker[w] = IdlePass
  BY DEF Init
<1>7. /\ worker[w].pc = "idle" /\ worker[w].seq = 0 /\ worker[w].next = 0
      /\ worker[w].todo = {} /\ worker[w].ready = {} /\ worker[w].known = {}
      /\ \A r \in Reqs : worker[w].wrote[r] = [first |-> 0, all |-> 0]
      /\ \A L \in Layers : worker[w].floors[L] = 0 /\ worker[w].freed[L] = 0
      /\ worker[w].due = {}
  BY <1>6 DEF IdlePass
<1>8. PassInv(w)
  BY <1>2, <1>7 DEF PassInv
<1>9. TodoInv(w)
  BY <1>7 DEF TodoInv
<1>10. CopyInv(w)
  <2>1. RowsOf(0, 0, 0) = {} /\ \A r : RowsOf(r, 0, 0) = {}
    BY DEF RowsOf
  <2>2. Met(w) = {}
    BY <1>5, <1>7, <2>1 DEF Met
  <2> QED BY <1>7, <2>2 DEF CopyInv
<1>11. TrimInv(w)
  <2>1. /\ \A v \in Workers : marker[v].at = 0 /\ \A L \in Layers : marker[v].floor[L] = 0
        /\ \A L \in Layers : punched[L] = 0
    BY DEF Init
  <2>2. FloorRow(0) <= 0
    <3>1. 0 * RowBytes = 0 /\ 0 \in Nat
      BY GatherAssumption
    <3>2. \A s \in Nat : FloorRow(0) <= s <=> 0 <= s * RowBytes
      BY <3>1, FloorIs, Zenon
    <3> QED BY <3>1, <3>2
  <2>3. UpTo(worker[w].seq) = 0
    BY <1>5, <1>7
  <2>4. \A L \in TrimLayers(w) : L \in Layers
    BY DEF TrimLayers
  <2>5. \A L \in TrimLayers(w) :
          punched[L] = worker[w].freed[L] /\ FloorRow(punched[L]) <= marker[w].floor[L]
    BY <1>7, <2>1, <2>2, <2>4
  <2> QED BY <1>7, <2>1, <2>3, <2>5 DEF TrimInv
<1> QED BY <1>8, <1>9, <1>10, <1>11

LEMMA GatherStep == ASSUME GatherInv, [Next]_vars PROVE GatherInv'
<1>1. /\ TypeOK /\ ChainInv
  BY DEF GatherInv
<1>2. CASE UNCHANGED vars
  <2>1. TypeOK' /\ ChainKept /\ ChainInv'
    BY <1>1, <1>2, SameChain DEF TypeOK, vars
  <2> QED BY <1>2, <2>1, PublisherStep DEF vars
<1>3. ASSUME NEW hi \in 0 .. MaxRow, NEW stamps \in SUBSET Reqs, NEW final \in BOOLEAN,
             Publish(hi, stamps, final)
      PROVE  GatherInv'
  <2>1. TypeOK' /\ ChainKept /\ ChainInv'
    BY <1>1, <1>3, PublishTypes, PublishChain
  <2>2. UNCHANGED <<worker, file, manifests, marker, punched>>
    BY <1>3 DEF Publish
  <2> QED BY <2>1, <2>2, PublisherStep
<1>4. CASE PublisherFails
  <2>1. UNCHANGED chain /\ UNCHANGED <<worker, file, manifests, marker, punched>>
    BY <1>4 DEF PublisherFails
  <2>2. publisher' \in {"on", "off"}
    BY <1>4 DEF PublisherFails
  <2>3. TypeOK' /\ ChainKept /\ ChainInv'
    BY <1>1, <2>1, <2>2, SameChain DEF TypeOK
  <2> QED BY <2>1, <2>3, PublisherStep
<1>5. ASSUME NEW w \in Workers, WorkerStep(w) PROVE GatherInv'
  <2>1. CASE \E end \in 1 .. MaxSegments : TakeBatch(w, end)
    BY <2>1, TakeBatchStep
  <2>2. CASE \E c \in 0 .. MaxRow - 1, L \in Layers : Scatter(w, c, L)
    BY <2>2, ScatterStep
  <2>3. CASE Finalize(w)
    BY <2>3, FinalizeStep
  <2>4. CASE Report(w)
    BY <2>4, ReportStep
  <2>5. CASE Announce(w)
    BY <2>5, AnnounceStep
  <2>6. CASE Done(w)
    BY <2>6, EndStep
  <2>7. CASE \E L \in Layers : Punch(w, L)
    BY <2>7, PunchStep
  <2> QED BY <1>5, <2>1, <2>2, <2>3, <2>4, <2>5, <2>6, <2>7 DEF WorkerStep
<1>6. ASSUME NEW w \in Workers, Die(w) PROVE GatherInv'
  BY <1>6, EndStep
<1> QED BY <1>2, <1>3, <1>4, <1>5, <1>6 DEF Next
LEMMA ManifestsAre ==
  ASSUME TypeOK, ManifestInv, NEW r \in Reqs, NEW m \in RunManifests(r)
  PROVE  /\ m.worker \in Workers /\ m.n \in Nat /\ m.n = StampTotal(r)
         /\ m.n > 0 =>
              /\ Mine(r, m.worker) # {}
              /\ \A L \in Mine(r, m.worker) : file[r][L] = Ascending(RowsOf(r, 0, MaxRow))
<1>1. m \in manifests[r]
  BY DEF RunManifests
<1>2. manifests[r] \subseteq [worker : Workers, n : Nat, run : {"this", "old"}]
  BY DEF TypeOK
<1>3. m.worker \in Workers /\ m.n \in Nat
  BY <1>1, <1>2
<1> QED BY <1>3 DEF ManifestInv

LEMMA LoadedIs == ASSUME GatherInv PROVE LoadedIsWhole
<1> SUFFICES ASSUME NEW r \in Reqs, Loadable(r), StampTotal(r) # 0,
                    NEW L \in ToSet(LayersOf[r])
             PROVE  file[r][L] = Ascending(RowsOf(r, 0, MaxRow))
  BY DEF LoadedIsWhole
<1>1. TypeOK /\ ManifestInv
  BY DEF GatherInv
<1>2. \A m \in RunManifests(r) : m.n = StampTotal(r) /\ m.n > 0
  BY <1>1, ManifestsAre
<1>3. ~EmptyDelivery(RunManifests(r))
  BY <1>2 DEF EmptyDelivery
<1>4. { m.worker : m \in RunManifests(r) } = NeededWorkers(r)
  BY <1>3 DEF Loadable
<1>5. PICK w \in Workers : L \in Mine(r, w)
  BY SharesAre
<1>6. w \in NeededWorkers(r)
  BY <1>5 DEF NeededWorkers
<1>7. PICK m \in RunManifests(r) : m.worker = w
  BY <1>4, <1>6
<1>8. \A M \in Mine(r, m.worker) : file[r][M] = Ascending(RowsOf(r, 0, MaxRow))
  BY <1>1, <1>2, ManifestsAre
<1> QED BY <1>5, <1>7, <1>8

LEMMA NoGapIs == ASSUME GatherInv PROVE NoGapIsLoadable
<1> SUFFICES ASSUME NEW r \in Reqs, NoGap(r) PROVE Loadable(r)
  BY DEF NoGapIsLoadable
<1> DEFINE ms == RunManifests(r)
           R == RowsOf(r, 0, MaxRow)
<1>1. TypeOK /\ ManifestInv
  BY DEF GatherInv
<1>2. /\ ms # {}
      /\ EmptyDelivery(ms) \/ NeededWorkers(r) \subseteq { m.worker : m \in ms }
  BY DEF NoGap
<1>3. \A m \in ms : m.worker \in Workers /\ m.n \in Nat /\ m.n = StampTotal(r)
  BY <1>1, ManifestsAre
<1>4. \A m1, m2 \in ms : m1.n = m2.n
  BY <1>3
<1>5. CASE EmptyDelivery(ms)
  BY <1>2, <1>4, <1>5 DEF Loadable
<1>6. CASE ~EmptyDelivery(ms)
  <2>1. \A m \in ms : m.n > 0
    BY <1>3, <1>6 DEF EmptyDelivery
  <2>2. \A m \in ms : m.worker \in NeededWorkers(r)
    <3>1. \A m \in ms : Mine(r, m.worker) # {}
      BY <1>1, <2>1, ManifestsAre
    <3> QED BY <1>3, <3>1 DEF NeededWorkers
  <2>3. { m.worker : m \in ms } = NeededWorkers(r)
    BY <1>2, <1>6, <2>2
  <2>4. ASSUME NEW L \in ToSet(LayersOf[r]), NEW m \in ms PROVE Len(file[r][L]) = m.n
    <3>1. PICK w \in Workers : L \in Mine(r, w)
      BY SharesAre
    <3>2. w \in NeededWorkers(r)
      BY <3>1 DEF NeededWorkers
    <3>3. PICK k \in ms : k.worker = w
      BY <2>3, <3>2
    <3>4. \A M \in Mine(r, k.worker) : file[r][M] = Ascending(R)
      BY <1>1, <2>1, ManifestsAre
    <3>5. file[r][L] = Ascending(R)
      BY <3>1, <3>3, <3>4
    <3>6. Len(Ascending(R)) = Cardinality(R)
      BY Sizes, RowsAre, AscendingIs
    <3> QED BY <1>3, <3>5, <3>6 DEF StampTotal
  <2> QED BY <1>2, <1>4, <2>3, <2>4 DEF Loadable
<1> QED BY <1>5, <1>6

LEMMA PunchedAre == ASSUME GatherInv PROVE PunchedRowsArePassedAndFloored
<1>1. TypeOK /\ ChainInv /\ \A v \in Workers : PassInv(v) /\ TrimInv(v)
  BY DEF GatherInv
<1> SUFFICES ASSUME NEW L \in Layers
             PROVE  /\ \A w \in Workers : \A i \in UpTo(worker[w].seq) .. MaxRow - 1 :
                         RowContent(L, i) = i
                    /\ \A i \in 0 .. MaxRow - 1 :
                         RowContent(L, i) = Zero => Reclaimed(L, i, Floors(marker))
  BY DEF PunchedRowsArePassedAndFloored
<1>2. ASSUME NEW w \in Workers, NEW i \in UpTo(worker[w].seq) .. MaxRow - 1
      PROVE  RowContent(L, i) = i
  <2> DEFINE lo == UpTo(worker[w].seq)
  <2>1. lo \in Nat
    BY <1>1, GotIs
  <2> HIDE DEF lo
  <2>2. i \in Nat /\ lo <= i
    BY <1>2, <2>1, Sizes DEF lo
  <2> QED BY <1>1, <2>1, <2>2, AheadIsWhole DEF lo
<1>3. ASSUME NEW i \in 0 .. MaxRow - 1, RowContent(L, i) = Zero
      PROVE  Reclaimed(L, i, Floors(marker))
  <2> DEFINE v == L % NWorkers
             t == punched[L]
             f == Floors(marker)[L]
             b == UpTo(worker[0].seq)
  <2>1. v \in Workers /\ L \in TrimLayers(v)
    <3>1. L \in Nat /\ NWorkers \in Nat \ {0}
      BY Sizes, GatherAssumption
    <3> QED BY <3>1, Quotient DEF Workers, TrimLayers
  <2>2. i \in Nat /\ t \in Nat /\ i * RowBytes \in Nat
    BY <1>1, GatherAssumption DEF TypeOK
  <2>3. i * RowBytes < t
    BY <1>3, <2>2 DEF RowContent, Zero
  <2>4. FloorRow(t) \in Nat /\ (FloorRow(t) <= i <=> t <= i * RowBytes)
    <3> HIDE DEF t
    <3> QED BY <2>2, FloorIs
  <2>5. i < FloorRow(t)
    BY <2>2, <2>3, <2>4
  <2> HIDE DEF v
  <2>6. FloorRow(t) <= marker[v].floor[L] /\ marker[v].floor[L] \in Nat
    BY <1>1, <2>1, PassTypes DEF TrimInv
  <2>7. marker[v].floor[L] <= f /\ f \in Nat
    <3>1. b \in Nat /\ \A u \in Workers : \A M \in Layers : marker[u].floor[M] <= b
      BY <1>1, Sizes, GotIs DEF TrimInv
    <3> HIDE DEF b
    <3> QED BY <1>1, <2>1, <3>1, FloorsAre
  <2>8. f > 0 /\ i < f
    <3> HIDE DEF t, f
    <3> QED BY <2>2, <2>4, <2>5, <2>6, <2>7
  <2> QED BY <2>8 DEF Reclaimed
<1> QED BY <1>2, <1>3

\* No pass refuses its own chain, and the account every pass keeps of its batch, its
\* files and its holes is right: the inductive invariant of the gather.
THEOREM GatherInvariant == Spec => []GatherInv
<1>1. Init => GatherInv
  BY GatherInit
<1>2. GatherInv /\ [Next]_vars => GatherInv'
  BY GatherStep
<1> QED BY <1>1, <1>2, PTL DEF Spec

\* The state has the types of TypeOK.
THEOREM TypeCorrect == Spec => []TypeOK
<1>1. GatherInv => TypeOK
  BY DEF GatherInv
<1> QED BY <1>1, GatherInvariant, PTL

\* What load_delivery hands out is the whole capture of the request: all its rows, in
\* order, in every layer, with no zeros of a hole and nothing of an earlier launch.
THEOREM LoadedWhole == Spec => []LoadedIsWhole
<1>1. GatherInv => LoadedIsWhole
  BY LoadedIs
<1> QED BY <1>1, GatherInvariant, PTL

\* A delivery without a missing manifest is one load_delivery accepts, at any moment.
THEOREM NoGapLoads == Spec => []NoGapIsLoadable
<1>1. GatherInv => NoGapIsLoadable
  BY NoGapIs
<1> QED BY <1>1, GatherInvariant, PTL

\* No hole reaches a row a running pass has still to read, and every row a hole
\* reaches lies below a published floor.
THEOREM PunchedPassed == Spec => []PunchedRowsArePassedAndFloored
<1>1. GatherInv => PunchedRowsArePassedAndFloored
  BY PunchedAre
<1> QED BY <1>1, GatherInvariant, PTL
\* A manifest is replaced by its like only.
LEMMA ManifestsStand ==
  ASSUME GatherInv, [Next]_vars, NEW r \in Reqs, NEW m \in RunManifests(r)
  PROVE  \E k \in RunManifests(r)' : k.worker = m.worker /\ k.n = m.n
<1>1. /\ TypeOK /\ ChainInv /\ ManifestInv
      /\ \A v \in Workers : PassInv(v) /\ CopyInv(v)
  BY DEF GatherInv
<1>2. CASE manifests' = manifests
  <2>1. m \in RunManifests(r)'
    BY <1>2 DEF RunManifests
  <2> QED BY <2>1
<1>3. ASSUME NEW w \in Workers, NEW s, WithManifest(s, w, StampTotal(s))
      PROVE  \E k \in RunManifests(r)' : k.worker = m.worker /\ k.n = m.n
  <2> DEFINE new == Manifest(w, StampTotal(s))
             ms == { k \in manifests[s] : k.worker # w } \cup {new}
  <2>1. manifests' = [manifests EXCEPT ![s] = ms] /\ r \in DOMAIN manifests
    BY <1>1, <1>3 DEF WithManifest, TypeOK
  <2>2. new.worker = w /\ new.n = StampTotal(s) /\ new.run = "this"
    BY DEF Manifest
  <2>3. m \in manifests[r] /\ m.run = "this" /\ m.n = StampTotal(r)
    BY <1>1, ManifestsAre DEF RunManifests
  <2> HIDE DEF new
  <2>4. CASE r = s /\ m.worker = w
    <3>1. new \in manifests'[r]
      BY <2>1, <2>4
    <3>2. new \in RunManifests(r)'
      BY <2>2, <3>1 DEF RunManifests
    <3>3. new.worker = m.worker /\ new.n = m.n
      BY <2>2, <2>3, <2>4
    <3> QED BY <3>2, <3>3
  <2>5. CASE ~(r = s /\ m.worker = w)
    <3>1. m \in manifests'[r]
      BY <2>1, <2>3, <2>5
    <3>2. m \in RunManifests(r)'
      BY <2>3, <3>1 DEF RunManifests
    <3> QED BY <3>2
  <2> QED BY <2>4, <2>5
<1>4. ASSUME NEW w \in Workers, Finalize(w)
      PROVE  \E k \in RunManifests(r)' : k.worker = m.worker /\ k.n = m.n
  <2>1. PICK s \in worker[w].ready :
          \/ manifests' = manifests
          \/ /\ WithManifest(s, w, StampTotal(s))
             /\ StampTotal(s) > 0 =>
                  /\ Mine(s, w) # {}
                  /\ \A L \in Mine(s, w) : file[s][L] = Ascending(RowsOf(s, 0, MaxRow))
    BY <1>1, <1>4, FinalizeIs
  <2>2. CASE manifests' = manifests
    BY <1>2, <2>2
  <2>3. CASE WithManifest(s, w, StampTotal(s))
    BY <1>3, <2>3
  <2> QED BY <2>1, <2>2, <2>3, Zenon
<1>5. (\E w \in Workers : Finalize(w)) \/ manifests' = manifests
  <2>1. CASE UNCHANGED vars
    BY <2>1 DEF vars
  <2>2. CASE \E hi \in 0 .. MaxRow, stamps \in SUBSET Reqs, final \in BOOLEAN :
               Publish(hi, stamps, final)
    BY <2>2, Zenon DEF Publish
  <2>3. CASE PublisherFails
    BY <2>3, Zenon DEF PublisherFails
  <2>4. ASSUME NEW w \in Workers, WorkerStep(w) PROVE Finalize(w) \/ manifests' = manifests
    BY <2>4, Zenon DEF WorkerStep, TakeBatch, Scatter, Report, Announce, Punch, Done
  <2>5. ASSUME NEW w \in Workers, Die(w) PROVE manifests' = manifests
    BY <2>5, Zenon DEF Die
  <2> QED BY <2>1, <2>2, <2>3, <2>4, <2>5, Zenon DEF Next
<1> QED BY <1>2, <1>4, <1>5

LEMMA LoadedStay ==
  ASSUME GatherInv, [Next]_vars, LoadedIsWhole, LoadedIsWhole', NoGapIsLoadable',
         NEW r \in Reqs, Loadable(r)
  PROVE  /\ Loadable(r)'
         /\ \/ StampTotal(r) = 0
            \/ \A L \in ToSet(LayersOf[r]) : file'[r][L] = file[r][L]
<1> DEFINE ms == RunManifests(r)
           now == RunManifests(r)'
<1>1. \A m \in ms : \E k \in now : k.worker = m.worker /\ k.n = m.n
  BY ManifestsStand
<1>2. /\ ms # {}
      /\ EmptyDelivery(ms) \/ NeededWorkers(r) \subseteq { m.worker : m \in ms }
  BY DEF Loadable
<1>3. NoGap(r)'
  <2> HIDE DEF ms, now
  <2>1. now # {}
    BY <1>1, <1>2
  <2>2. EmptyDelivery(ms) => EmptyDelivery(now)
    BY <1>1 DEF EmptyDelivery
  <2>3. { m.worker : m \in ms } \subseteq { m.worker : m \in now }
    BY <1>1, Zenon
  <2>4. EmptyDelivery(now) \/ NeededWorkers(r) \subseteq { m.worker : m \in now }
    BY <1>2, <2>2, <2>3
  <2>5. EmptyDelivery(now) <=> EmptyDelivery(RunManifests(r))'
    BY Zenon DEF EmptyDelivery, now
  <2> QED BY <2>1, <2>4, <2>5 DEF NoGap, now
<1>4. Loadable(r)'
  BY <1>3 DEF NoGapIsLoadable
<1>5. \/ StampTotal(r) = 0
      \/ \A L \in ToSet(LayersOf[r]) : /\ file[r][L] = Ascending(RowsOf(r, 0, MaxRow))
                                       /\ file'[r][L] = Ascending(RowsOf(r, 0, MaxRow))
  BY <1>4 DEF LoadedIsWhole
<1> QED BY <1>4, <1>5

\* A delivery that can be loaded stays loadable, with the same rows.
THEOREM LoadedForGood == Spec => LoadedStays
<1> DEFINE A == \A r \in Reqs : Loadable(r) =>
                  /\ Loadable(r)'
                  /\ \/ StampTotal(r) = 0
                     \/ \A L \in ToSet(LayersOf[r]) : file'[r][L] = file[r][L]
<1>1. GatherInv /\ [Next]_vars /\ LoadedIsWhole /\ LoadedIsWhole' /\ NoGapIsLoadable' => [A]_vars
  BY LoadedStay
<1>2. Spec => [][A]_vars
  BY <1>1, GatherInvariant, LoadedWhole, NoGapLoads, PTL DEF Spec
<1> QED BY <1>2 DEF LoadedStays

=============================================================================
