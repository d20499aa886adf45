------------------------- MODULE StepRouting_proofs -------------------------
(***************************************************************************)
(* Every token asked for, and no other, reaches the row its record claims: *)
(* for any requests, layers, batch and graph sizes, any depth of the       *)
(* mirror and however far the host runs ahead of the device.               *)
(***************************************************************************)
EXTENDS StepRouting, SequenceTheorems, FiniteSetTheorems, TLAPS

-----------------------------------------------------------------------------
(* Numbers. *)

\* The order of the naturals is well-founded, as a fact about one set.
LEMMA Least ==
  ASSUME NEW T, T \subseteq Nat, T # {}
  PROVE  \E x \in T : \A y \in T : x <= y
<1> DEFINE R == OpToRel(<, Nat)
<1>1. IsWellFoundedOn(R, Nat)
  BY NatLessThanWellFounded, Zenon
<1>2. \A x, y \in Nat : y < x => <<y, x>> \in R
  <2> SUFFICES ASSUME NEW x \in Nat, NEW y \in Nat, y < x PROVE <<y, x>> \in R
    OBVIOUS
  <2>1. R = {ss \in Nat \X Nat : ss[1] < ss[2]}
    BY Zenon DEF OpToRel
  <2> QED BY <2>1
<1> HIDE DEF R
<1>3. \E x \in T : \A y \in T : ~(<<y, x>> \in R)
  BY <1>1, WFMin, Zenon
<1>4. PICK x \in T : \A y \in T : ~(<<y, x>> \in R)
  BY <1>3
<1>5. \A y \in T : ~(y < x)
  BY <1>2, <1>4
<1> QED BY <1>5

LEMMA MinIs ==
  ASSUME NEW T, T \subseteq Nat, T # {}
  PROVE  Min(T) \in T /\ \A y \in T : Min(T) <= y
<1>1. \E x \in T : \A y \in T : x <= y
  BY Least
<1> QED BY <1>1 DEF Min

LEMMA MaxIs ==
  ASSUME NEW T, T \subseteq Nat, T # {}, NEW b \in Nat, \A y \in T : y <= b
  PROVE  Max(T) \in T /\ \A y \in T : y <= Max(T)
<1> DEFINE U == { n \in Nat : b - n \in T }
<1>1. U # {}
  <2>1. PICK y \in T : TRUE
    OBVIOUS
  <2>2. b - y \in Nat /\ b - (b - y) = y
    OBVIOUS
  <2> QED BY <2>1, <2>2
<1>2. PICK n \in U : \A m \in U : n <= m
  BY <1>1, Least
<1>3. \A y \in T : y <= b - n
  <2> SUFFICES ASSUME NEW y \in T PROVE y <= b - n
    OBVIOUS
  <2>1. b - y \in Nat /\ b - (b - y) = y
    OBVIOUS
  <2>2. n <= b - y
    BY <1>2, <2>1
  <2> QED BY <2>1, <2>2
<1>4. \E x \in T : \A y \in T : y <= x
  BY <1>2, <1>3
<1> QED BY <1>4 DEF Max

-----------------------------------------------------------------------------
(* Sums over the requests. *)

LEMMA Sizes ==
  /\ Len(Asks) \in Nat /\ Reqs = 1 .. Len(Asks)
  /\ NumLayers \in Nat \ {0} /\ Cap \in Nat \ {0} /\ Depth \in Nat \ {0}
  /\ MaxAhead \in Nat /\ MaxPreempt \in Nat
  /\ \A r \in Reqs : /\ Asks[r].prompt \in Nat \ {0} /\ Asks[r].gen \in Nat
                     /\ Asks[r].asks \in BOOLEAN /\ Asks[r].layers \in SUBSET Nat
                     /\ Asks[r].hooks \in {"prefill", "decode", "both"}
                     /\ Asks[r].mode \in {"last_token", "all_tokens"}
                     /\ Length(r) \in Nat \ {0}
<1> DEFINE Ask == [prompt : Nat \ {0}, gen : Nat, asks : BOOLEAN, layers : SUBSET Nat,
                   hooks : {"prefill", "decode", "both"},
                   mode : {"last_token", "all_tokens"}]
<1>1. Asks \in Seq(Ask)
  BY RoutingAssumption
<1> HIDE DEF Ask
<1>2. Len(Asks) \in Nat /\ Reqs = 1 .. Len(Asks) /\ \A r \in Reqs : Asks[r] \in Ask
  BY <1>1 DEF Reqs
<1> USE DEF Ask
<1>3. \A r \in Reqs : Length(r) \in Nat \ {0}
  BY <1>2 DEF Length
<1>4. \A r \in Reqs : /\ Asks[r].prompt \in Nat \ {0} /\ Asks[r].gen \in Nat
                       /\ Asks[r].asks \in BOOLEAN /\ Asks[r].layers \in SUBSET Nat
                       /\ Asks[r].hooks \in {"prefill", "decode", "both"}
                       /\ Asks[r].mode \in {"last_token", "all_tokens"}
  BY <1>2
<1>5. /\ NumLayers \in Nat \ {0} /\ Cap \in Nat \ {0} /\ Depth \in Nat \ {0}
      /\ MaxAhead \in Nat /\ MaxPreempt \in Nat
  BY RoutingAssumption
<1> QED BY <1>2, <1>3, <1>4, <1>5, Zenon

IsSum(f, n, g) == g = [i \in 0 .. n |-> IF i = 0 THEN 0 ELSE g[i - 1] + f[i]]

LEMMA SumStep ==
  ASSUME NEW f, NEW n \in Nat, NEW g, IsSum(f, n, g)
  PROVE  \E h : IsSum(f, n + 1, h)
<1> DEFINE h == [i \in 0 .. n + 1 |-> IF i = n + 1 THEN g[n] + f[n + 1] ELSE g[i]]
<1>1. \A i \in 0 .. n : g[i] = IF i = 0 THEN 0 ELSE g[i - 1] + f[i]
  BY DEF IsSum
<1>2. \A i \in 0 .. n + 1 : h[i] = IF i = 0 THEN 0 ELSE h[i - 1] + f[i]
  <2> SUFFICES ASSUME NEW i \in 0 .. n + 1
               PROVE  h[i] = IF i = 0 THEN 0 ELSE h[i - 1] + f[i]
    OBVIOUS
  <2>1. CASE i = n + 1
    BY <2>1
  <2>2. CASE i # n + 1
    BY <1>1, <2>2
  <2> QED BY <2>1, <2>2
<1>3. h = [i \in 0 .. n + 1 |-> IF i = 0 THEN 0 ELSE h[i - 1] + f[i]]
  BY <1>2
<1> QED BY <1>3 DEF IsSum

\* A sum exists for every bound, although it is defined by itself.
LEMMA SumExists ==
  ASSUME NEW f, NEW n \in Nat
  PROVE  \E g : IsSum(f, n, g)
<1> DEFINE Bad == { m \in Nat : ~ \E g : IsSum(f, m, g) }
<1>1. CASE Bad = {}
  BY <1>1
<1>2. CASE Bad # {}
  <2>1. PICK m \in Bad : \A k \in Bad : m <= k
    BY <1>2, Least
  <2>2. CASE m = 0
    <3>1. IsSum(f, 0, [i \in 0 .. 0 |-> 0])
      BY DEF IsSum
    <3> QED BY <2>1, <2>2, <3>1
  <2>3. CASE m # 0
    <3>1. m - 1 \in Nat /\ m - 1 \notin Bad
      BY <2>1, <2>3
    <3>2. PICK g : IsSum(f, m - 1, g)
      BY <3>1
    <3>3. \E h : IsSum(f, (m - 1) + 1, h)
      BY <3>1, <3>2, SumStep
    <3>4. (m - 1) + 1 = m
      BY <2>1
    <3> QED BY <2>1, <3>3, <3>4
  <2> QED BY <2>2, <2>3
<1> QED BY <1>1, <1>2

LEMMA SumUnique ==
  ASSUME NEW f, NEW n \in Nat, NEW m \in Nat, NEW g, NEW h,
         n <= m, IsSum(f, n, g), IsSum(f, m, h)
  PROVE  \A i \in 0 .. n : g[i] = h[i]
<1> DEFINE Bad == { i \in Nat : i <= n /\ g[i] # h[i] }
<1>1. \A i \in 0 .. n : /\ g[i] = IF i = 0 THEN 0 ELSE g[i - 1] + f[i]
                        /\ h[i] = IF i = 0 THEN 0 ELSE h[i - 1] + f[i]
  BY DEF IsSum
<1>2. CASE Bad # {}
  <2>1. PICK i \in Bad : \A k \in Bad : i <= k
    BY <1>2, Least
  <2>2. i # 0
    BY <1>1, <2>1
  <2>3. i - 1 \in 0 .. n /\ i - 1 \notin Bad
    BY <2>1, <2>2
  <2> QED BY <1>1, <2>1, <2>2, <2>3
<1> QED BY <1>2

LEMMA BeforeSum ==
  ASSUME NEW f, NEW r \in Int, NEW n \in Nat, n = r - 1, NEW g, IsSum(f, n, g)
  PROVE  Before(f, r) = g[n]
<1> DEFINE h == CHOOSE x : IsSum(f, n, x)
<1>1. IsSum(f, n, h)
  OBVIOUS
<1>2. Before(f, r) = h[n]
  BY DEF Before, IsSum
<1> HIDE DEF h
<1> QED BY <1>1, <1>2, SumUnique

\* What stands before a request is what stands before the last one and its own.
LEMMA BeforeIs ==
  ASSUME NEW f \in [Reqs -> Nat]
  PROVE  /\ Before(f, 1) = 0
         /\ \A r \in Reqs : Before(f, r + 1) = Before(f, r) + f[r]
         /\ \A r \in 1 .. Len(Asks) + 1 : Before(f, r) \in Nat
<1> USE Sizes
<1>1. PICK g : IsSum(f, Len(Asks), g)
  BY SumExists
<1>2. \A i \in 0 .. Len(Asks) : g[i] = IF i = 0 THEN 0 ELSE g[i - 1] + f[i]
  BY <1>1 DEF IsSum
<1>3. \A r \in 1 .. Len(Asks) + 1 : Before(f, r) = g[r - 1]
  <2> SUFFICES ASSUME NEW r \in 1 .. Len(Asks) + 1 PROVE Before(f, r) = g[r - 1]
    OBVIOUS
  <2>1. PICK n \in Nat : n = r - 1 /\ n <= Len(Asks) /\ r \in Int
    OBVIOUS
  <2>2. PICK h : IsSum(f, n, h)
    BY SumExists
  <2>3. Before(f, r) = h[n]
    BY <2>1, <2>2, BeforeSum
  <2>4. n \in 0 .. n /\ Len(Asks) \in Nat
    OBVIOUS
  <2>5. h[n] = g[n]
    BY <1>1, <2>1, <2>2, <2>4, SumUnique
  <2> QED BY <2>1, <2>3, <2>5
<1>4. Before(f, 1) = 0
  BY <1>2, <1>3
<1>5. \A r \in Reqs : Before(f, r + 1) = Before(f, r) + f[r]
  <2> SUFFICES ASSUME NEW r \in 1 .. Len(Asks) PROVE Before(f, r + 1) = Before(f, r) + f[r]
    OBVIOUS
  <2>1. r + 1 \in 1 .. Len(Asks) + 1 /\ r \in 1 .. Len(Asks) + 1 /\ (r + 1) - 1 = r
    OBVIOUS
  <2>2. Before(f, r + 1) = g[r] /\ Before(f, r) = g[r - 1]
    BY <1>3, <2>1
  <2>3. g[r] = g[r - 1] + f[r]
    BY <1>2
  <2> QED BY <2>2, <2>3
<1>6. \A r \in 1 .. Len(Asks) + 1 : Before(f, r) \in Nat
  <2> DEFINE Bad == { r \in Nat : r \in 1 .. Len(Asks) + 1 /\ Before(f, r) \notin Nat }
  <2>1. CASE Bad # {}
    <3>1. PICK r \in Bad : \A k \in Bad : r <= k
      BY <2>1, Least
    <3>2. r # 1
      BY <1>4, <3>1
    <3>3. r - 1 \in 1 .. Len(Asks) + 1 /\ r - 1 \notin Bad /\ r - 1 \in Reqs /\ (r - 1) + 1 = r
      BY <3>1, <3>2
    <3>4. Before(f, r) = Before(f, r - 1) + f[r - 1]
      BY <1>5, <3>3
    <3>5. Before(f, r - 1) \in Nat /\ f[r - 1] \in Nat
      BY <3>1, <3>3
    <3>6. Before(f, r) \notin Nat
      BY <3>1
    <3> HIDE DEF Bad
    <3> QED BY <3>4, <3>5, <3>6
  <2> QED BY <2>1
<1> QED BY <1>4, <1>5, <1>6

LEMMA Sums ==
  ASSUME NEW f \in [Reqs -> Nat]
  PROVE  /\ Len(Asks) \in Nat /\ Total(f) = Before(f, Len(Asks) + 1)
         /\ Before(f, 1) = 0
         /\ \A r \in 1 .. Len(Asks) : Before(f, r + 1) = Before(f, r) + f[r] /\ f[r] \in Nat
         /\ \A r \in 1 .. Len(Asks) + 1 : Before(f, r) \in Nat
<1>1. Len(Asks) \in Nat /\ Reqs = 1 .. Len(Asks)
  BY Sizes
<1> QED BY <1>1, BeforeIs DEF Total

LEMMA BeforeGrows ==
  ASSUME NEW f \in [Reqs -> Nat], NEW r \in Reqs, NEW s \in r + 1 .. Len(Asks) + 1
  PROVE  Before(f, r) + f[r] <= Before(f, s)
<1>1. /\ Len(Asks) \in Nat /\ r \in 1 .. Len(Asks)
      /\ \A q \in 1 .. Len(Asks) : Before(f, q + 1) = Before(f, q) + f[q] /\ f[q] \in Nat
      /\ \A q \in 1 .. Len(Asks) + 1 : Before(f, q) \in Nat
  BY Sizes, Sums
<1> DEFINE Bad == { k \in Nat : k \in r + 1 .. Len(Asks) + 1 /\ ~(Before(f, r) + f[r] <= Before(f, k)) }
<1>2. CASE Bad # {}
  <2>1. PICK k \in Bad : \A j \in Bad : k <= j
    BY <1>2, Least
  <2>2. k # r + 1
    BY <1>1, <2>1
  <2>3. k - 1 \in r + 1 .. Len(Asks) + 1 /\ k - 1 \notin Bad /\ k - 1 \in 1 .. Len(Asks)
    BY <1>1, <2>1, <2>2
  <2>4. Before(f, (k - 1) + 1) = Before(f, k - 1) + f[k - 1]
    BY <1>1, <2>3
  <2>5. (k - 1) + 1 = k /\ f[k - 1] \in Nat /\ Before(f, k - 1) \in Nat /\ Before(f, r) \in Nat
        /\ f[r] \in Nat
    BY <1>1, <2>3
  <2> QED BY <2>1, <2>3, <2>4, <2>5
<1>3. s \in Nat
  BY <1>1
<1> QED BY <1>2, <1>3

\* Every place below the total is one request's, and only one's.
LEMMA Owner ==
  ASSUME NEW f \in [Reqs -> Nat], NEW k \in 1 .. Total(f)
  PROVE  \E r \in Reqs : k \in Before(f, r) + 1 .. Before(f, r) + f[r]
<1>1. /\ Len(Asks) \in Nat /\ Total(f) = Before(f, Len(Asks) + 1) /\ Before(f, 1) = 0
      /\ \A q \in 1 .. Len(Asks) : Before(f, q + 1) = Before(f, q) + f[q] /\ f[q] \in Nat
      /\ \A q \in 1 .. Len(Asks) + 1 : Before(f, q) \in Nat
  BY Sums
<1> DEFINE Past == { r \in Nat : r \in 1 .. Len(Asks) + 1 /\ k <= Before(f, r) }
<1>2. Len(Asks) + 1 \in Past
  BY <1>1
<1>3. PICK r \in Past : \A s \in Past : r <= s
  BY <1>2, Least
<1>4. r # 1
  BY <1>1, <1>3
<1>5. r - 1 \in 1 .. Len(Asks) /\ r - 1 \in 1 .. Len(Asks) + 1 /\ r - 1 \notin Past
  BY <1>1, <1>3, <1>4
<1>6. Before(f, (r - 1) + 1) = Before(f, r - 1) + f[r - 1] /\ f[r - 1] \in Nat
  BY <1>1, <1>5
<1>7. (r - 1) + 1 = r /\ k <= Before(f, r) /\ ~(k <= Before(f, r - 1))
  BY <1>3, <1>5
<1>8. k \in Nat /\ Before(f, r - 1) \in Nat
  BY <1>1, <1>5
<1>9. k \in Before(f, r - 1) + 1 .. Before(f, r - 1) + f[r - 1]
  BY <1>6, <1>7, <1>8
<1> QED BY <1>5, <1>9, Sizes

LEMMA OneOwner ==
  ASSUME NEW f \in [Reqs -> Nat], NEW r \in Reqs, NEW s \in Reqs, NEW k \in Nat,
         k \in Before(f, r) + 1 .. Before(f, r) + f[r],
         k \in Before(f, s) + 1 .. Before(f, s) + f[s]
  PROVE  r = s
<1>1. /\ Len(Asks) \in Nat /\ r \in 1 .. Len(Asks) /\ s \in 1 .. Len(Asks)
      /\ f[r] \in Nat /\ f[s] \in Nat /\ Before(f, r) \in Nat /\ Before(f, s) \in Nat
  <2>1. Len(Asks) \in Nat /\ r \in 1 .. Len(Asks) /\ s \in 1 .. Len(Asks)
    BY Sizes
  <2>2. \A q \in 1 .. Len(Asks) + 1 : Before(f, q) \in Nat
    BY Sums
  <2> QED BY <2>1, <2>2
<1>2. CASE r < s
  <2>1. s \in r + 1 .. Len(Asks) + 1
    BY <1>1, <1>2
  <2>2. Before(f, r) + f[r] <= Before(f, s)
    BY <2>1, BeforeGrows
  <2> QED BY <1>1, <2>2
<1>3. CASE s < r
  <2>1. r \in s + 1 .. Len(Asks) + 1
    BY <1>1, <1>3
  <2>2. Before(f, s) + f[s] <= Before(f, r)
    BY <2>1, BeforeGrows
  <2> QED BY <1>1, <2>2
<1> QED BY <1>1, <1>2, <1>3

LEMMA WithinTotal ==
  ASSUME NEW f \in [Reqs -> Nat], NEW r \in Reqs
  PROVE  Before(f, r) \in Nat /\ Before(f, r) + f[r] <= Total(f) /\ Total(f) \in Nat
<1>1. Len(Asks) \in Nat /\ r \in 1 .. Len(Asks)
  BY Sizes
<1>2. Len(Asks) + 1 \in r + 1 .. Len(Asks) + 1 /\ r \in 1 .. Len(Asks) + 1
      /\ Len(Asks) + 1 \in 1 .. Len(Asks) + 1
  BY <1>1
<1>3. Before(f, r) + f[r] <= Before(f, Len(Asks) + 1)
  BY <1>2, BeforeGrows
<1> QED BY <1>2, <1>3, Sums

-----------------------------------------------------------------------------
(* The batch. *)

LEMMA WidthIs ==
  ASSUME NEW n \in Cols
  PROVE  /\ Padded(n) \in Cols /\ Width(n) \in Cols
         /\ n <= Padded(n) /\ Padded(n) <= Width(n)
<1> DEFINE fit == { g \in GraphSizes : g >= n }
           all == {n} \cup GraphSizes
<1>1. Cap \in Nat /\ Cols = 1 .. Cap /\ GraphSizes \subseteq Cols
  BY Sizes, RoutingAssumption DEF Cols
<1>0. n \in Nat /\ \A g \in GraphSizes : g \in Nat /\ g \in Cols
  BY <1>1
<1>2. Max(all) \in all /\ \A y \in all : y <= Max(all)
  <2>1. all \subseteq Nat /\ all # {} /\ \A y \in all : y <= Cap
    BY <1>1
  <2> HIDE DEF all
  <2> QED BY <1>1, <2>1, MaxIs
<1>3. Max(all) \in Cols /\ n <= Max(all) /\ \A g \in GraphSizes : g <= Max(all)
  BY <1>1, <1>2
<1>4. Width(n) = Max(all)
  <2> DEFINE two == {Cap, Max(all)}
  <2>1. two \subseteq Nat /\ two # {}
    BY <1>1, <1>3
  <2>2. Width(n) = Min(two)
    BY DEF Width
  <2>3. Min(two) \in two /\ \A y \in two : Min(two) <= y
    <3> HIDE DEF two
    <3> QED BY <2>1, MinIs
  <2>4. Cap \in two /\ Max(all) \in two /\ Max(all) <= Cap
    BY <1>1, <1>3
  <2>5. Min(two) = Cap \/ Min(two) = Max(all)
    BY <2>3
  <2> QED BY <1>1, <1>3, <2>2, <2>3, <2>4, <2>5
<1>5. Padded(n) \in Cols /\ n <= Padded(n) /\ Padded(n) <= Max(all)
  <2>1. CASE fit = {}
    BY <1>3, <1>1, <2>1 DEF Padded
  <2>2. CASE fit # {}
    <3>1. fit \subseteq Nat
      <4>1. GraphSizes \subseteq Nat
        BY <1>1
      <4>2. fit \subseteq GraphSizes
        OBVIOUS
      <4> QED BY <4>1, <4>2, Zenon
    <3>2. Padded(n) = Min(fit)
      BY <2>2 DEF Padded
    <3>3. Min(fit) \in fit
      <4> HIDE DEF fit
      <4> QED BY <2>2, <3>1, MinIs
    <3>4. Min(fit) \in GraphSizes /\ Min(fit) >= n
      BY <3>3
    <3>5. Min(fit) \in Cols /\ n <= Min(fit) /\ Min(fit) <= Max(all)
      <4> HIDE DEF all, fit
      <4>1. n \in Nat /\ Min(fit) \in Cols /\ Min(fit) \in Nat
        BY <1>0, <3>4, Zenon
      <4>2. Min(fit) <= Max(all)
        BY <1>3, <3>4
      <4>3. n <= Min(fit)
        <5> SUFFICES ASSUME NEW m \in Nat, m = Min(fit), m >= n PROVE n <= m
          BY <3>4, <4>1
        <5> QED BY <4>1
      <4> QED BY <4>1, <4>2, <4>3
    <3> HIDE DEF all, fit
    <3> QED BY <3>2, <3>5
  <2> QED BY <2>1, <2>2
<1> QED BY <1>3, <1>4, <1>5

LEMMA BatchIs ==
  ASSUME TypeOK, NEW take \in Batches
  PROVE  /\ take \in [Reqs -> Nat] /\ Total(take) \in Cols
         /\ \A r \in Reqs : /\ computed[r] + take[r] <= Length(r)
                            /\ take[r] > 1 => Prefilling(r)
<1>1. take \in [Reqs -> 0 .. Cap] /\ Total(take) \in Cols
  BY DEF Batches
<1>2. \A r \in Reqs : take[r] <= IF Prefilling(r) THEN prefillLen[r] - computed[r]
                                 ELSE IF computed[r] < Length(r) THEN 1 ELSE 0
  BY DEF Batches
<1>3. \A r \in Reqs : /\ computed[r] \in Nat /\ prefillLen[r] \in Nat
                      /\ computed[r] <= Length(r) /\ prefillLen[r] <= Length(r)
  BY DEF TypeOK
<1>4. Cap \in Nat /\ \A r \in Reqs : take[r] \in Nat /\ Length(r) \in Nat
  BY <1>1, Sizes
<1>5. take \in [Reqs -> Nat]
  BY <1>1, <1>4
<1> QED BY <1>1, <1>2, <1>3, <1>4, <1>5 DEF Prefilling

LEMMA TokensAre ==
  ASSUME TypeOK, NEW take \in Batches
  PROVE  /\ TokenAt(take) \in Seq(Reqs \X Nat) /\ Len(TokenAt(take)) = Total(take)
         /\ DOMAIN TokenAt(take) = 1 .. Total(take)
         /\ \A r \in Reqs : \A c \in Span(take, r) :
              c \in 1 .. Total(take) /\ TokenAt(take)[c] = <<r, computed[r] + c - Before(take, r)>>
         /\ \A c \in 1 .. Total(take) :
              /\ TokenAt(take)[c] \in Reqs \X Nat
              /\ TokenAt(take)[c][1] \in Reqs /\ c \in Span(take, TokenAt(take)[c][1])
<1>1. take \in [Reqs -> Nat] /\ Total(take) \in Nat
  BY BatchIs, WithinTotal, Sizes DEF Cols
<1>2. \A r \in Reqs : /\ Before(take, r) \in Nat /\ take[r] \in Nat /\ computed[r] \in Nat
                      /\ Before(take, r) + take[r] <= Total(take)
  BY <1>1, WithinTotal DEF TypeOK
<1>3. \A r \in Reqs : \A c \in Span(take, r) : c \in 1 .. Total(take)
  BY <1>1, <1>2 DEF Span
<1> DEFINE owner(c) == CHOOSE r \in Reqs : c \in Span(take, r)
<1>4. \A c \in 1 .. Total(take) : owner(c) \in Reqs /\ c \in Span(take, owner(c))
  <2> SUFFICES ASSUME NEW c \in 1 .. Total(take) PROVE \E r \in Reqs : c \in Span(take, r)
    OBVIOUS
  <2> QED BY <1>1, Owner DEF Span
<1>5. \A r \in Reqs : \A c \in Span(take, r) : owner(c) = r
  <2> SUFFICES ASSUME NEW r \in Reqs, NEW c \in Span(take, r) PROVE owner(c) = r
    OBVIOUS
  <2>1. c \in 1 .. Total(take) /\ c \in Nat
    BY <1>1, <1>3
  <2>2. owner(c) \in Reqs /\ c \in Span(take, owner(c))
    BY <1>4, <2>1
  <2> HIDE DEF owner
  <2> QED BY <1>1, <2>1, <2>2, OneOwner DEF Span
<1>6. TokenAt(take) = [c \in 1 .. Total(take) |->
                        <<owner(c), computed[owner(c)] + c - Before(take, owner(c))>>]
  BY DEF TokenAt
<1> HIDE DEF owner
<1>7. \A c \in 1 .. Total(take) : TokenAt(take)[c] \in Reqs \X Nat /\ TokenAt(take)[c][1] = owner(c)
  <2> SUFFICES ASSUME NEW c \in 1 .. Total(take)
               PROVE  TokenAt(take)[c] \in Reqs \X Nat /\ TokenAt(take)[c][1] = owner(c)
    OBVIOUS
  <2>1. owner(c) \in Reqs /\ c \in Before(take, owner(c)) + 1 .. Before(take, owner(c)) + take[owner(c)]
    BY <1>4 DEF Span
  <2>2. computed[owner(c)] + c - Before(take, owner(c)) \in Nat
    BY <1>2, <2>1
  <2> QED BY <1>6, <2>1, <2>2
<1>8. DOMAIN TokenAt(take) = 1 .. Total(take)
  BY <1>6
<1>9. TokenAt(take) \in Seq(Reqs \X Nat) /\ Len(TokenAt(take)) = Total(take)
  <2>1. TokenAt(take) \in [1 .. Total(take) -> Reqs \X Nat]
    BY <1>6, <1>7
  <2> QED BY <1>1, <2>1
<1>10. \A r \in Reqs : \A c \in Span(take, r) :
         TokenAt(take)[c] = <<r, computed[r] + c - Before(take, r)>>
  BY <1>3, <1>5, <1>6
<1> QED BY <1>3, <1>4, <1>7, <1>8, <1>9, <1>10

-----------------------------------------------------------------------------
(* The records of a step. *)

Counts(take) == [r \in Reqs |-> NRows(take, r)]
Tail1(r) == kind = "hs" /\ Asks[r].mode = "last_token"
FirstCol(take, r) == IF Tail1(r) THEN Before(take, r) + take[r] ELSE Before(take, r) + 1
LastCol(take, r) == Before(take, r) + take[r]
Captured(take, r) == FirstCol(take, r) .. LastCol(take, r)
RowFor(take, r, c) == Len(rows) + Before(Counts(take), r) + c - FirstCol(take, r) + 1

\* The decode cache counts the rows that the builder would.
LEMMA HitIs ==
  ASSUME TypeOK, CacheInv, NEW take \in Batches, NEW r \in Reqs, Hit(take, r)
  PROVE  take[r] = 1 /\ ~Skips(take, r) /\ cache[r] = RowLayers(r)
<1>1. /\ Asks[r].asks /\ Asks[r].hooks # "prefill" /\ cache[r] = RowLayers(r)
      /\ RowLayers(r) # {} /\ ~Prefilling(r) /\ take[r] = 1
  BY DEF CacheInv, Hit
<1> QED BY <1>1 DEF Skips, BusyIn, Final

LEMMA CountIs ==
  ASSUME TypeOK, CacheInv, NEW take \in Batches, NEW r \in Reqs
  PROVE  /\ NRows(take, r) = IF take[r] = 0 \/ Skips(take, r) THEN 0
                             ELSE IF Tail1(r) THEN 1 ELSE take[r]
         /\ NRows(take, r) \in Nat /\ NRows(take, r) <= take[r]
<1>1. take[r] \in Nat
  BY BatchIs
<1>2. r \in Batch(take) <=> take[r] > 0
  BY DEF Batch
<1>3. CASE Hit(take, r)
  BY <1>1, <1>2, <1>3, HitIs DEF NRows, Tail1
<1>4. CASE ~Hit(take, r)
  BY <1>1, <1>2, <1>4 DEF NRows, Tail1
<1> QED BY <1>3, <1>4

LEMMA CountsAre ==
  ASSUME TypeOK, CacheInv, NEW take \in Batches
  PROVE  Counts(take) \in [Reqs -> Nat]
BY CountIs DEF Counts

LEMMA CapturedIs ==
  ASSUME TypeOK, CacheInv, NEW take \in Batches, NEW r \in Reqs, NRows(take, r) > 0
  PROVE  /\ FirstCol(take, r) \in Nat /\ LastCol(take, r) \in Nat
         /\ LastCol(take, r) = FirstCol(take, r) + NRows(take, r) - 1
         /\ Captured(take, r) \subseteq Span(take, r)
         /\ LastCol(take, r) \in Captured(take, r)
         /\ ~Skips(take, r) /\ take[r] > 0
<1>1. take[r] \in Nat /\ Before(take, r) \in Nat
  BY BatchIs, WithinTotal
<1>2. NRows(take, r) = (IF Tail1(r) THEN 1 ELSE take[r]) /\ take[r] > 0 /\ ~Skips(take, r)
  BY <1>1, CountIs
<1> QED BY <1>1, <1>2 DEF FirstCol, LastCol, Captured, Span

LEMMA SpanMax ==
  ASSUME TypeOK, NEW take \in Batches, NEW r \in Reqs, take[r] > 0
  PROVE  Max(Span(take, r)) = LastCol(take, r)
<1>1. take[r] \in Nat /\ Before(take, r) \in Nat
  BY BatchIs, WithinTotal
<1>2. Span(take, r) \subseteq Nat /\ Span(take, r) # {} /\ \A y \in Span(take, r) : y <= LastCol(take, r)
  BY <1>1 DEF Span, LastCol
<1>3. LastCol(take, r) \in Nat /\ LastCol(take, r) \in Span(take, r)
  BY <1>1 DEF Span, LastCol
<1>4. Max(Span(take, r)) \in Span(take, r) /\ LastCol(take, r) <= Max(Span(take, r))
  BY <1>2, <1>3, MaxIs
<1>5. Max(Span(take, r)) <= LastCol(take, r) /\ Max(Span(take, r)) \in Nat
  BY <1>2, <1>4
<1> QED BY <1>3, <1>4, <1>5

\* What a record says, whichever builder made it.
LEMMA RecordIs ==
  ASSUME TypeOK, CacheInv, NEW take \in Batches, NEW r \in Reqs, NRows(take, r) > 0,
         NEW start \in Nat
  PROVE  LET rec == Record(take, start, r)
         IN /\ rec.req = r /\ rec.layers = RowLayers(r) /\ rec.cols = Captured(take, r)
            /\ rec.queries = IF kind = "hs" \/ (Asks[r].hooks = "decode" /\ Prefilling(r))
                                \/ (Asks[r].mode = "last_token" /\ ~Final(take, r)) THEN {}
                             ELSE IF Asks[r].mode = "all_tokens" THEN Span(take, r)
                             ELSE {LastCol(take, r)}
            /\ \A c \in rec.cols : RowOf(rec, c) = start + c - FirstCol(take, r) + 1
<1> DEFINE rec == Record(take, start, r)
<1>1. take[r] > 0 /\ Max(Span(take, r)) = LastCol(take, r)
  BY CapturedIs, SpanMax
<1>2. rec.req = r /\ rec.start = start
  BY DEF Record
<1>3. rec.layers = RowLayers(r)
  BY HitIs DEF Record
<1>4. rec.cols = Captured(take, r)
  <2>1. rec.cols = IF Tail1(r) THEN {LastCol(take, r)} ELSE Span(take, r)
    BY <1>1 DEF Record, Tail1
  <2>2. LastCol(take, r) \in Nat
    BY CapturedIs
  <2>3. {LastCol(take, r)} = LastCol(take, r) .. LastCol(take, r)
    BY <2>2
  <2> QED BY <2>1, <2>3 DEF Captured, FirstCol, LastCol, Span
<1>5. rec.queries = IF kind = "hs" \/ (Asks[r].hooks = "decode" /\ Prefilling(r))
                       \/ (Asks[r].mode = "last_token" /\ ~Final(take, r)) THEN {}
                    ELSE IF Asks[r].mode = "all_tokens" THEN Span(take, r)
                    ELSE {LastCol(take, r)}
  BY <1>1 DEF Record
<1>6. Min(Captured(take, r)) = FirstCol(take, r)
  <2>1. /\ FirstCol(take, r) \in Nat /\ LastCol(take, r) \in Nat
        /\ FirstCol(take, r) <= LastCol(take, r)
    BY CapturedIs, CountIs
  <2>2. Captured(take, r) \subseteq Nat /\ FirstCol(take, r) \in Captured(take, r)
        /\ \A y \in Captured(take, r) : FirstCol(take, r) <= y
    BY <2>1 DEF Captured
  <2>3. Min(Captured(take, r)) \in Captured(take, r) /\ Min(Captured(take, r)) <= FirstCol(take, r)
    BY <2>2, MinIs
  <2> QED BY <2>1, <2>2, <2>3
<1>7. \A c \in rec.cols : RowOf(rec, c) = start + c - FirstCol(take, r) + 1
  BY <1>2, <1>4, <1>6 DEF RowOf
<1> QED BY <1>2, <1>3, <1>4, <1>5, <1>7

RecordFor(take, r) == Record(take, Len(rows) + Before(Counts(take), r), r)

LEMMA RecordsAre ==
  ASSUME TypeOK, CacheInv, NEW take \in Batches
  PROVE  /\ \A rec \in Records(take) : \E r \in Reqs : NRows(take, r) > 0 /\ rec = RecordFor(take, r)
         /\ \A r \in Reqs : NRows(take, r) > 0 =>
              /\ RecordFor(take, r) \in Records(take)
              /\ RecordFor(take, r).req = r
              /\ RecordFor(take, r).layers = RowLayers(r)
              /\ RecordFor(take, r).cols = Captured(take, r)
              /\ \A c \in Captured(take, r) : RowOf(RecordFor(take, r), c) = RowFor(take, r, c)
<1>1. \A r \in Reqs : Counts(take)[r] = NRows(take, r)
  BY DEF Counts
<1>2. Records(take) = { RecordFor(take, r) : r \in { r \in Reqs : NRows(take, r) > 0 } }
  BY DEF Records, RecordFor, Counts
<1>3. \A r \in Reqs : Len(rows) + Before(Counts(take), r) \in Nat
  <2>1. Counts(take) \in [Reqs -> Nat] /\ Len(rows) \in Nat
    BY CountsAre DEF TypeOK
  <2> QED BY <2>1, WithinTotal
<1>4. ASSUME NEW r \in Reqs, NRows(take, r) > 0
      PROVE  /\ RecordFor(take, r).req = r
             /\ RecordFor(take, r).layers = RowLayers(r)
             /\ RecordFor(take, r).cols = Captured(take, r)
             /\ \A c \in Captured(take, r) : RowOf(RecordFor(take, r), c) = RowFor(take, r, c)
  <2>1. Len(rows) + Before(Counts(take), r) \in Nat
    BY <1>3
  <2> DEFINE rec == RecordFor(take, r)
  <2>2. /\ rec.req = r /\ rec.layers = RowLayers(r) /\ rec.cols = Captured(take, r)
        /\ \A c \in rec.cols :
             RowOf(rec, c) = Len(rows) + Before(Counts(take), r) + c - FirstCol(take, r) + 1
    <3> DEFINE start == Len(rows) + Before(Counts(take), r)
               other == Record(take, start, r)
    <3>1. /\ other.req = r /\ other.layers = RowLayers(r) /\ other.cols = Captured(take, r)
          /\ \A c \in other.cols : RowOf(other, c) = start + c - FirstCol(take, r) + 1
      <4> HIDE DEF start
      <4> QED BY <1>4, <2>1, RecordIs DEF start
    <3>2. rec = other
      BY DEF RecordFor
    <3> HIDE DEF rec, other
    <3> QED BY <3>1, <3>2
  <2> HIDE DEF rec
  <2> QED BY <2>2 DEF RowFor, rec
<1>5. \A r \in Reqs : NRows(take, r) > 0 => RecordFor(take, r) \in Records(take)
  BY <1>2
<1>6. \A rec \in Records(take) : \E r \in Reqs : NRows(take, r) > 0 /\ rec = RecordFor(take, r)
  BY <1>2
<1> QED BY <1>4, <1>5, <1>6
-----------------------------------------------------------------------------
(* The rows of a step. *)

Writes(take, r, l, c) == NRows(take, r) > 0 /\ l \in RowLayers(r) /\ c \in Captured(take, r)

LEMMA LayersOfRow ==
  ASSUME TypeOK, NEW r \in Reqs
  PROVE  RowLayers(r) \subseteq Layers
BY RoutingAssumption DEF RowLayers

\* The columns of two requests never meet.
LEMMA OneWriter ==
  ASSUME TypeOK, CacheInv, NEW take \in Batches, NEW r \in Reqs, NEW s \in Reqs, NEW c,
         NRows(take, r) > 0, NRows(take, s) > 0, c \in Captured(take, r), c \in Captured(take, s)
  PROVE  r = s
<1>1. c \in Span(take, r) /\ c \in Span(take, s)
  BY CapturedIs
<1>2. TokenAt(take)[c] = <<r, computed[r] + c - Before(take, r)>>
      /\ TokenAt(take)[c] = <<s, computed[s] + c - Before(take, s)>>
  BY <1>1, TokensAre
<1> QED BY <1>2

\* The index a step routes by names a row where a request captures, else none.
LEMMA RoutedIs ==
  ASSUME TypeOK, CacheInv, NEW take \in Batches, NEW l \in Layers, NEW c \in Cols
  PROVE  /\ \A r \in Reqs : Writes(take, r, l, c) =>
              Routed(Records(take))[l][c] = RowFor(take, r, c)
         /\ (\A r \in Reqs : ~Writes(take, r, l, c)) => Routed(Records(take))[l][c] = Sentinel
<1> DEFINE mine == { rec \in Records(take) : l \in rec.layers /\ c \in rec.cols }
<1>1. Routed(Records(take))[l][c] =
        IF mine = {} THEN Sentinel ELSE RowOf(CHOOSE rec \in mine : TRUE, c)
  BY DEF Routed
<1>2. \A rec \in mine : \E r \in Reqs : Writes(take, r, l, c) /\ rec = RecordFor(take, r)
  BY RecordsAre DEF Writes
<1>3. \A r \in Reqs : Writes(take, r, l, c) => RecordFor(take, r) \in mine
  BY RecordsAre DEF Writes
<1>4. ASSUME NEW r \in Reqs, Writes(take, r, l, c)
      PROVE  Routed(Records(take))[l][c] = RowFor(take, r, c)
  <2>1. mine # {} /\ (CHOOSE rec \in mine : TRUE) \in mine
    BY <1>3, <1>4
  <2>2. PICK s \in Reqs : Writes(take, s, l, c) /\ (CHOOSE rec \in mine : TRUE) = RecordFor(take, s)
    BY <1>2, <2>1
  <2>3. s = r
    BY <1>4, <2>2, OneWriter DEF Writes
  <2>4. RowOf(RecordFor(take, r), c) = RowFor(take, r, c)
    BY <1>4, RecordsAre DEF Writes
  <2> HIDE DEF mine
  <2> QED BY <1>1, <2>1, <2>2, <2>3, <2>4
<1>5. (\A r \in Reqs : ~Writes(take, r, l, c)) => mine = {}
  BY <1>2
<1> HIDE DEF mine
<1> QED BY <1>1, <1>4, <1>5

RowsOf(take) ==
  UNION { { <<RowOf(rec, c), TokenAt(take)[c], rec.layers>> : c \in rec.cols } :
          rec \in Records(take) }

NewRows(take) ==
  [i \in 1 .. Total(Counts(take)) |->
     LET x == CHOOSE x \in RowsOf(take) : x[1] = Len(rows) + i
     IN [token |-> x[2], layers |-> x[3]]]

LEMMA RowForIs ==
  ASSUME TypeOK, CacheInv, NEW take \in Batches, NEW r \in Reqs, NRows(take, r) > 0,
         NEW c \in Captured(take, r)
  PROVE  /\ c \in Nat
         /\ RowFor(take, r, c) - Len(rows) \in 1 .. Total(Counts(take))
         /\ RowFor(take, r, c) - Len(rows) \in
              Before(Counts(take), r) + 1 .. Before(Counts(take), r) + Counts(take)[r]
<1>1. Counts(take) \in [Reqs -> Nat] /\ Counts(take)[r] = NRows(take, r) /\ Len(rows) \in Nat
  BY CountsAre DEF Counts, TypeOK
<1>2. /\ Before(Counts(take), r) \in Nat /\ Total(Counts(take)) \in Nat
      /\ Before(Counts(take), r) + Counts(take)[r] <= Total(Counts(take))
  BY <1>1, WithinTotal
<1>3. /\ FirstCol(take, r) \in Nat /\ LastCol(take, r) \in Nat /\ NRows(take, r) \in Nat
      /\ LastCol(take, r) = FirstCol(take, r) + NRows(take, r) - 1
  BY CapturedIs, CountIs
<1>4. c \in Nat /\ FirstCol(take, r) <= c /\ c <= LastCol(take, r)
  BY <1>3 DEF Captured
<1>5. RowFor(take, r, c) - Len(rows) = Before(Counts(take), r) + c - FirstCol(take, r) + 1
  BY <1>1, <1>2, <1>3, <1>4 DEF RowFor
<1> QED BY <1>1, <1>2, <1>3, <1>4, <1>5

\* No two captured columns share a row.
LEMMA OneRow ==
  ASSUME TypeOK, CacheInv, NEW take \in Batches,
         NEW r \in Reqs, NRows(take, r) > 0, NEW c \in Captured(take, r),
         NEW s \in Reqs, NRows(take, s) > 0, NEW d \in Captured(take, s),
         RowFor(take, r, c) = RowFor(take, s, d)
  PROVE  r = s /\ c = d
<1> DEFINE k == RowFor(take, r, c) - Len(rows)
<1>1. /\ k \in 1 .. Total(Counts(take))
      /\ k \in Before(Counts(take), r) + 1 .. Before(Counts(take), r) + Counts(take)[r]
      /\ k \in Before(Counts(take), s) + 1 .. Before(Counts(take), s) + Counts(take)[s]
  BY RowForIs
<1>2. k \in Nat
  <2>1. Total(Counts(take)) \in Nat
    BY CountsAre, WithinTotal, CountsAre DEF Counts
  <2> HIDE DEF k
  <2> QED BY <1>1, <2>1
<1>3. r = s
  <2> HIDE DEF k
  <2> QED BY <1>1, <1>2, CountsAre, OneOwner
<1>4. c \in Nat /\ d \in Nat /\ FirstCol(take, r) \in Nat /\ Len(rows) \in Nat
      /\ Before(Counts(take), r) \in Nat
  <2>1. c \in Nat /\ d \in Nat
    BY RowForIs
  <2>2. FirstCol(take, r) \in Nat
    BY CapturedIs
  <2>3. Before(Counts(take), r) \in Nat
    BY CountsAre, WithinTotal
  <2>4. Len(rows) \in Nat
    BY DEF TypeOK
  <2> QED BY <2>1, <2>2, <2>3, <2>4
<1>5. RowFor(take, r, c) = RowFor(take, r, d)
  BY <1>3
<1>6. c = d
  BY <1>4, <1>5 DEF RowFor
<1> QED BY <1>3, <1>6

LEMMA NewRowsAre ==
  ASSUME TypeOK, CacheInv, NEW take \in Batches
  PROVE  /\ NewRows(take) \in Seq([token : Reqs \X Nat, layers : SUBSET Layers])
         /\ Len(NewRows(take)) = Total(Counts(take)) /\ Total(Counts(take)) \in Nat
         /\ \A r \in Reqs : NRows(take, r) > 0 => \A c \in Captured(take, r) :
              NewRows(take)[RowFor(take, r, c) - Len(rows)] =
                [token |-> TokenAt(take)[c], layers |-> RowLayers(r)]
         /\ \A i \in 1 .. Total(Counts(take)) : \E r \in Reqs : NRows(take, r) > 0 /\
              \E c \in Captured(take, r) : RowFor(take, r, c) = Len(rows) + i
<1>1. Counts(take) \in [Reqs -> Nat] /\ Len(rows) \in Nat
      /\ \A r \in Reqs : Counts(take)[r] = NRows(take, r)
  BY CountsAre DEF TypeOK, Counts
<1>2. Total(Counts(take)) \in Nat
  BY <1>1, Sums, Sizes
<1>3. \A x \in RowsOf(take) : \E r \in Reqs : NRows(take, r) > 0 /\ \E c \in Captured(take, r) :
        x = <<RowFor(take, r, c), TokenAt(take)[c], RowLayers(r)>>
  BY RecordsAre DEF RowsOf
<1>4. ASSUME NEW r \in Reqs, NRows(take, r) > 0, NEW c \in Captured(take, r)
      PROVE  <<RowFor(take, r, c), TokenAt(take)[c], RowLayers(r)>> \in RowsOf(take)
  <2>1. /\ RecordFor(take, r) \in Records(take) /\ c \in RecordFor(take, r).cols
        /\ RecordFor(take, r).layers = RowLayers(r)
        /\ RowOf(RecordFor(take, r), c) = RowFor(take, r, c)
    BY <1>4, RecordsAre
  <2> QED BY <2>1 DEF RowsOf
<1>5. \A i \in 1 .. Total(Counts(take)) : \E r \in Reqs : NRows(take, r) > 0 /\
        \E c \in Captured(take, r) : RowFor(take, r, c) = Len(rows) + i
  <2> SUFFICES ASSUME NEW i \in 1 .. Total(Counts(take))
               PROVE  \E r \in Reqs : NRows(take, r) > 0 /\
                        \E c \in Captured(take, r) : RowFor(take, r, c) = Len(rows) + i
    OBVIOUS
  <2>1. PICK r \in Reqs : i \in Before(Counts(take), r) + 1 .. Before(Counts(take), r) + Counts(take)[r]
    BY <1>1, Owner
  <2>2. Before(Counts(take), r) \in Nat /\ NRows(take, r) \in Nat /\ Counts(take)[r] = NRows(take, r)
        /\ i \in Nat
    BY <1>1, <1>2, WithinTotal
  <2>3. NRows(take, r) > 0
    BY <2>1, <2>2
  <2>4. /\ FirstCol(take, r) \in Nat /\ LastCol(take, r) \in Nat
        /\ LastCol(take, r) = FirstCol(take, r) + NRows(take, r) - 1
    BY <2>3, CapturedIs
  <2> DEFINE c == FirstCol(take, r) + i - Before(Counts(take), r) - 1
  <2>5. c \in Captured(take, r)
    BY <2>1, <2>2, <2>4 DEF Captured
  <2>6. RowFor(take, r, c) = Len(rows) + i
    BY <1>1, <2>2, <2>4 DEF RowFor
  <2> QED BY <2>3, <2>5, <2>6
<1>6. ASSUME NEW r \in Reqs, NRows(take, r) > 0, NEW c \in Captured(take, r)
      PROVE  NewRows(take)[RowFor(take, r, c) - Len(rows)] =
               [token |-> TokenAt(take)[c], layers |-> RowLayers(r)]
  <2> DEFINE i == RowFor(take, r, c) - Len(rows)
             x == CHOOSE x \in RowsOf(take) : x[1] = Len(rows) + i
  <2>1. i \in 1 .. Total(Counts(take)) /\ Len(rows) + i = RowFor(take, r, c)
    <3>1. i \in 1 .. Total(Counts(take))
      BY <1>6, RowForIs
    <3>2. RowFor(take, r, c) \in Int
      <4>1. c \in Nat /\ FirstCol(take, r) \in Nat
        BY <1>6, RowForIs, CapturedIs
      <4>2. Before(Counts(take), r) \in Nat
        BY <1>1, WithinTotal
      <4> QED BY <1>1, <4>1, <4>2 DEF RowFor
    <3> QED BY <1>1, <3>1, <3>2
  <2>2. x \in RowsOf(take) /\ x[1] = Len(rows) + i
    <3>1. \E y \in RowsOf(take) : y[1] = Len(rows) + i
      BY <1>4, <1>6, <2>1
    <3> HIDE DEF i
    <3> QED BY <3>1
  <2>3. x[2] = TokenAt(take)[c] /\ x[3] = RowLayers(r)
    <3>1. PICK s \in Reqs : NRows(take, s) > 0 /\ \E d \in Captured(take, s) :
            x = <<RowFor(take, s, d), TokenAt(take)[d], RowLayers(s)>>
      BY <1>3, <2>2
    <3>2. PICK d \in Captured(take, s) : x = <<RowFor(take, s, d), TokenAt(take)[d], RowLayers(s)>>
      BY <3>1
    <3>3. RowFor(take, s, d) = RowFor(take, r, c)
      BY <2>1, <2>2, <3>2
    <3>4. s = r /\ d = c
      BY <1>6, <3>1, <3>3, OneRow
    <3>5. x = <<RowFor(take, r, c), TokenAt(take)[c], RowLayers(r)>>
      BY <3>2, <3>4
    <3> HIDE DEF x
    <3> QED BY <3>5
  <2>4. NewRows(take)[i] = [token |-> x[2], layers |-> x[3]]
    BY <2>1 DEF NewRows
  <2> QED BY <2>3, <2>4
<1>7. NewRows(take) \in Seq([token : Reqs \X Nat, layers : SUBSET Layers])
      /\ Len(NewRows(take)) = Total(Counts(take))
  <2>1. ASSUME NEW i \in 1 .. Total(Counts(take))
        PROVE  NewRows(take)[i] \in [token : Reqs \X Nat, layers : SUBSET Layers]
    <3>1. PICK r \in Reqs : NRows(take, r) > 0 /\
            \E c \in Captured(take, r) : RowFor(take, r, c) = Len(rows) + i
      BY <1>5
    <3>2. PICK c \in Captured(take, r) : RowFor(take, r, c) = Len(rows) + i
      BY <3>1
    <3>3. RowFor(take, r, c) - Len(rows) = i
      BY <1>1, <1>2, <3>2
    <3>4. NewRows(take)[i] = [token |-> TokenAt(take)[c], layers |-> RowLayers(r)]
      BY <1>6, <3>1, <3>3
    <3>5. c \in 1 .. Total(take) /\ TokenAt(take)[c] \in Reqs \X Nat
      <4>1. c \in Span(take, r)
        BY <3>1, CapturedIs
      <4> QED BY <4>1, TokensAre
    <3> QED BY <3>4, <3>5, LayersOfRow
  <2>2. NewRows(take) \in
          [1 .. Total(Counts(take)) -> [token : Reqs \X Nat, layers : SUBSET Layers]]
    BY <2>1 DEF NewRows
  <2>3. ASSUME NEW S, NewRows(take) \in [1 .. Total(Counts(take)) -> S]
        PROVE  NewRows(take) \in Seq(S) /\ Len(NewRows(take)) = Total(Counts(take))
    BY <1>2, <2>3
  <2> QED BY <2>2, <2>3
<1>8. \A r \in Reqs : NRows(take, r) > 0 => \A c \in Captured(take, r) :
        NewRows(take)[RowFor(take, r, c) - Len(rows)] =
          [token |-> TokenAt(take)[c], layers |-> RowLayers(r)]
  BY <1>6
<1> QED BY <1>2, <1>5, <1>7, <1>8
-----------------------------------------------------------------------------
(* The steps queued on the device. *)

Entry == [slot : NoSlot .. Depth - 1, width : Cols, pad : Cols, tokens : Seq(Reqs \X Nat)]
Queued(take, s) == [slot |-> s, width |-> Width(Total(take)),
                    pad |-> Padded(Total(take)), tokens |-> TokenAt(take)]

LEMMA StreamIs ==
  ASSUME TypeOK
  PROVE  /\ stream \in Seq(Entry) /\ Len(stream) \in Nat /\ DOMAIN stream = 1 .. Len(stream)
         /\ Len(rows) \in Nat /\ DOMAIN rows = 1 .. Len(rows)
         /\ \A i \in DOMAIN stream :
              /\ stream[i] \in Entry
              /\ stream[i].width \in Cols /\ stream[i].pad \in Cols
              /\ stream[i].slot \in NoSlot .. Depth - 1
              /\ DOMAIN stream[i].tokens = 1 .. Len(stream[i].tokens)
              /\ Len(stream[i].tokens) \in Nat /\ Len(stream[i].tokens) <= stream[i].pad
              /\ stream[i].pad <= stream[i].width
<1>1. stream \in Seq(Entry)
  BY DEF TypeOK, Entry
<1>2. Len(stream) \in Nat /\ DOMAIN stream = 1 .. Len(stream) /\ \A i \in DOMAIN stream : stream[i] \in Entry
  BY <1>1
<1>3. \A i \in DOMAIN stream :
        Len(stream[i].tokens) <= stream[i].pad /\ stream[i].pad <= stream[i].width
  BY DEF TypeOK
<1>4. Len(rows) \in Nat /\ DOMAIN rows = 1 .. Len(rows)
  BY DEF TypeOK
<1>5. ASSUME NEW i \in DOMAIN stream
      PROVE  /\ stream[i].width \in Cols /\ stream[i].pad \in Cols
             /\ stream[i].slot \in NoSlot .. Depth - 1 /\ stream[i].tokens \in Seq(Reqs \X Nat)
  BY <1>2 DEF Entry
<1>6. ASSUME NEW i \in DOMAIN stream
      PROVE  /\ DOMAIN stream[i].tokens = 1 .. Len(stream[i].tokens)
             /\ Len(stream[i].tokens) \in Nat
  BY <1>5
<1> QED BY <1>1, <1>2, <1>3, <1>4, <1>5, <1>6

LEMMA RowIs ==
  ASSUME TypeOK, NEW w \in DOMAIN rows
  PROVE  rows[w].layers \subseteq Layers
<1>1. rows \in Seq([token : Reqs \X Nat, layers : SUBSET Layers])
  BY DEF TypeOK
<1>2. ASSUME NEW S, rows \in Seq(S) PROVE rows[w] \in S
  BY <1>2
<1> QED BY <1>1, <1>2

LEMMA QueuedIs ==
  ASSUME TypeOK, NEW take \in Batches, NEW s \in NoSlot .. Depth - 1
  PROVE  /\ Queued(take, s) \in Entry
         /\ Len(Queued(take, s).tokens) <= Queued(take, s).pad
         /\ Queued(take, s).pad <= Queued(take, s).width
<1>1. Total(take) \in Cols
  BY BatchIs
<1>2. /\ Padded(Total(take)) \in Cols /\ Width(Total(take)) \in Cols
      /\ Total(take) <= Padded(Total(take)) /\ Padded(Total(take)) <= Width(Total(take))
  BY <1>1, WidthIs
<1>3. TokenAt(take) \in Seq(Reqs \X Nat) /\ Len(TokenAt(take)) = Total(take)
  BY TokensAre
<1> QED BY <1>2, <1>3 DEF Queued, Entry

LEMMA LaunchIs ==
  ASSUME TypeOK, NEW take \in Batches, NEW s \in NoSlot .. Depth - 1, NEW recs,
         Launch(take, s, recs), Len(stream) < MaxAhead
  PROVE  /\ stream' \in Seq(Entry) /\ Len(stream') = Len(stream) + 1 /\ Len(stream') <= MaxAhead
         /\ DOMAIN stream' = 1 .. Len(stream) + 1
         /\ \A i \in DOMAIN stream : stream'[i] = stream[i]
         /\ stream'[Len(stream) + 1] = Queued(take, s)
         /\ \A i \in DOMAIN stream' :
              Len(stream'[i].tokens) <= stream'[i].pad /\ stream'[i].pad <= stream'[i].width
         /\ computed' \in [Reqs -> Nat] /\ \A r \in Reqs : computed'[r] <= Length(r)
<1> DEFINE e == Queued(take, s)
<1>1. e \in Entry /\ Len(e.tokens) <= e.pad /\ e.pad <= e.width
  BY QueuedIs
<1>2. stream' = Append(stream, e)
  BY DEF Launch, Queued
<1>3. /\ stream \in Seq(Entry) /\ Len(stream) \in Nat /\ DOMAIN stream = 1 .. Len(stream)
      /\ \A i \in DOMAIN stream :
           Len(stream[i].tokens) <= stream[i].pad /\ stream[i].pad <= stream[i].width
  BY StreamIs
<1> HIDE DEF e
<1>4. /\ stream' \in Seq(Entry) /\ Len(stream') = Len(stream) + 1
      /\ DOMAIN stream' = 1 .. Len(stream) + 1
      /\ \A i \in DOMAIN stream : stream'[i] = stream[i]
      /\ stream'[Len(stream) + 1] = e
  <2>1. ASSUME NEW S, stream \in Seq(S), e \in S
        PROVE  /\ Append(stream, e) \in Seq(S) /\ Len(Append(stream, e)) = Len(stream) + 1
               /\ DOMAIN Append(stream, e) = 1 .. Len(stream) + 1
               /\ \A i \in DOMAIN stream : Append(stream, e)[i] = stream[i]
               /\ Append(stream, e)[Len(stream) + 1] = e
    BY <2>1
  <2> QED BY <1>1, <1>2, <1>3, <2>1
<1>5. \A i \in DOMAIN stream' :
        Len(stream'[i].tokens) <= stream'[i].pad /\ stream'[i].pad <= stream'[i].width
  <2> SUFFICES ASSUME NEW i \in 1 .. Len(stream) + 1
               PROVE  Len(stream'[i].tokens) <= stream'[i].pad /\ stream'[i].pad <= stream'[i].width
    BY <1>4
  <2>1. i \in DOMAIN stream \/ i = Len(stream) + 1
    BY <1>3
  <2> QED BY <1>1, <1>3, <1>4, <2>1
<1>6. Len(stream') <= MaxAhead
  BY <1>3, <1>4, Sizes
<1>7. computed' \in [Reqs -> Nat] /\ \A r \in Reqs : computed'[r] <= Length(r)
  <2>1. computed' = [r \in Reqs |-> computed[r] + take[r]]
    BY DEF Launch
  <2>2. \A r \in Reqs : computed[r] \in Nat /\ take[r] \in Nat /\ computed[r] + take[r] <= Length(r)
    BY BatchIs DEF TypeOK
  <2> QED BY <2>1, <2>2
<1> QED BY <1>4, <1>5, <1>6, <1>7 DEF e

LEMMA PlaceIs ==
  ASSUME TypeOK, NEW i \in DOMAIN stream, NEW l \in Layers, NEW c \in Cols
  PROVE  Place(i, l, c) \in 0 .. Len(rows)
<1>1. stream[i].slot \in NoSlot .. Depth - 1 /\ Len(rows) \in Nat
  BY StreamIs
<1>2. stream[i].slot # NoSlot => stream[i].slot \in 0 .. Depth - 1
  BY <1>1, Sizes DEF NoSlot
<1>3. /\ mirror \in [0 .. Depth - 1 -> [Layers -> [Cols -> 0 .. Len(rows)]]]
      /\ index \in [Layers -> [Cols -> 0 .. Len(rows)]]
  BY DEF TypeOK
<1>4. CASE stream[i].slot # NoSlot
  BY <1>2, <1>3, <1>4 DEF Place
<1>5. CASE stream[i].slot = NoSlot
  BY <1>1, <1>3, <1>5 DEF Place, Sentinel
<1> QED BY <1>4, <1>5

LEMMA WidthCols ==
  ASSUME TypeOK, NEW i \in DOMAIN stream
  PROVE  /\ 1 .. stream[i].width \subseteq Cols /\ 1 .. stream[i].pad \subseteq 1 .. stream[i].width
         /\ DOMAIN stream[i].tokens \subseteq 1 .. stream[i].pad
<1>1. /\ stream[i].width \in 1 .. Cap /\ stream[i].pad \in 1 .. Cap /\ Cap \in Nat
      /\ stream[i].pad <= stream[i].width
      /\ DOMAIN stream[i].tokens = 1 .. Len(stream[i].tokens)
      /\ Len(stream[i].tokens) \in Nat /\ Len(stream[i].tokens) <= stream[i].pad
  BY StreamIs, Sizes DEF Cols
<1> QED BY <1>1 DEF Cols
-----------------------------------------------------------------------------
(* The initial states, and the steps that build nothing. *)

LEMMA InitRouting == Init => RoutingInv
<1> SUFFICES ASSUME Init PROVE RoutingInv
  OBVIOUS
<1> USE DEF Init
<1>1. stream = <<>> /\ rows = <<>> /\ cache = <<>> /\ Len(stream) = 0 /\ Len(rows) = 0
      /\ DOMAIN stream = {} /\ DOMAIN rows = {} /\ DOMAIN cache = {}
  OBVIOUS
<1>2. index \in [Layers -> [Cols -> 0 .. 0]]
      /\ mirror \in [0 .. Depth - 1 -> [Layers -> [Cols -> 0 .. 0]]]
  BY DEF Blank, Sentinel
<1>3. computed \in [Reqs -> Nat] /\ prefillLen \in [Reqs -> Nat \ {0}]
      /\ \A r \in Reqs : computed[r] <= Length(r) /\ prefillLen[r] <= Length(r)
  BY Sizes DEF Length
<1>4. TypeOK
  <2>1. 0 \in 0 .. Depth - 1 /\ 0 \in 0 .. Cap /\ 0 \in 0 .. MaxPreempt /\ 0 <= MaxAhead
    BY Sizes
  <2>2. \A S : rows \in Seq(S) /\ stream \in Seq(S)
    BY <1>1
  <2>3. /\ rows \in Seq([token : Reqs \X Nat, layers : SUBSET Layers])
        /\ stream \in Seq([slot : NoSlot .. Depth - 1, width : Cols, pad : Cols,
                           tokens : Seq(Reqs \X Nat)])
    BY <2>2
  <2>4. \A i \in DOMAIN stream :
          Len(stream[i].tokens) <= stream[i].pad /\ stream[i].pad <= stream[i].width
    BY <1>1
  <2>5. mirror \in [0 .. Depth - 1 -> [Layers -> [Cols -> 0 .. Len(rows)]]]
        /\ index \in [Layers -> [Cols -> 0 .. Len(rows)]]
    BY <1>1, <1>2
  <2> QED BY <1>1, <1>3, <2>1, <2>3, <2>4, <2>5 DEF TypeOK
<1>5. CacheInv /\ StreamInv /\ KeyInv
  BY <1>1 DEF CacheInv, StreamInv, KeyInv
<1>6. KeysAreComplete
  BY DEF KeysAreComplete, NoStep
<1>7. PlaceInv
  BY <1>1 DEF PlaceInv
<1> QED BY <1>4, <1>5, <1>6, <1>7 DEF RoutingInv

LEMMA StepPreempt ==
  ASSUME RoutingInv, NEW r \in Reqs, Preempt(r)
  PROVE  RoutingInv'
<1>1. CacheInv' /\ KeysAreComplete' /\ StreamInv' /\ KeyInv' /\ PlaceInv'
  <2> USE DEF RoutingInv
  <2>1. /\ kind' = kind /\ cache' = cache /\ last' = last /\ rows' = rows /\ mirror' = mirror
        /\ stream' = stream /\ index' = index /\ buf' = buf /\ lastKey' = lastKey
        /\ lastWidth' = lastWidth
    BY DEF Preempt
  <2>2. CacheInv'
    BY <2>1 DEF CacheInv, RowLayers
  <2>3. KeysAreComplete'
    BY <2>1 DEF KeysAreComplete, RowLayers
  <2>4. StreamInv'
    BY <2>1 DEF StreamInv, Quiet, Place
  <2>5. KeyInv'
    BY <2>1 DEF KeyInv, Quiet, Place
  <2>6. PlaceInv'
    BY <2>1 DEF PlaceInv, Place
  <2> QED BY <2>2, <2>3, <2>4, <2>5, <2>6
<1> USE DEF Preempt, RoutingInv
<1>2. TypeOK'
  <2> DEFINE two == {Asks[r].prompt, computed[r] + 1}
  <2>1. /\ computed \in [Reqs -> Nat] /\ prefillLen \in [Reqs -> Nat \ {0}]
        /\ \A q \in Reqs : computed[q] <= Length(q) /\ prefillLen[q] <= Length(q)
        /\ preempted \in 0 .. MaxPreempt
    BY DEF TypeOK
  <2>2. Asks[r].prompt \in Nat \ {0} /\ Asks[r].gen \in Nat /\ Length(r) = Asks[r].prompt + Asks[r].gen
        /\ MaxPreempt \in Nat /\ Length(r) \in Nat
    BY Sizes DEF Length
  <2>3. two \subseteq Nat \ {0} /\ two # {} /\ \A y \in two : y <= Length(r)
    BY <2>1, <2>2
  <2>4. Max(two) \in two
    <3> HIDE DEF two
    <3> QED BY <2>2, <2>3, MaxIs
  <2>5. Max(two) \in Nat \ {0} /\ Max(two) <= Length(r)
    BY <2>3, <2>4
  <2>6. prefillLen' \in [Reqs -> Nat \ {0}] /\ \A q \in Reqs : prefillLen'[q] <= Length(q)
    <3>1. prefillLen' = [prefillLen EXCEPT ![r] = Max(two)]
      OBVIOUS
    <3> HIDE DEF two
    <3> QED BY <2>1, <2>5, <3>1
  <2>7. computed' \in [Reqs -> Nat] /\ \A q \in Reqs : computed'[q] <= Length(q)
    BY <2>1, <2>2
  <2>8. preempted' \in 0 .. MaxPreempt
    BY <2>1, <2>2
  <2> QED BY <2>6, <2>7, <2>8 DEF TypeOK
<1> QED BY <1>1, <1>2

\* The upload moves the first columns of the slot, and the forward behind it
\* uses no others.
LEMMA StepUpload ==
  ASSUME RoutingInv, RunUpload
  PROVE  RoutingInv'
<1> DEFINE s == stream[1].slot
<1> USE DEF RoutingInv
<1>1. /\ stream \in Seq(Entry) /\ 1 \in DOMAIN stream /\ Head(stream) = stream[1] /\ s # NoSlot
      /\ DOMAIN stream = 1 .. Len(stream) /\ Len(stream) \in Nat
  BY StreamIs DEF RunUpload
<1>2. /\ stream' = [stream EXCEPT ![1] = [stream[1] EXCEPT !.slot = NoSlot]]
      /\ index' = [l \in Layers |-> [c \in Cols |->
                     IF c <= stream[1].width THEN mirror[s][l][c] ELSE index[l][c]]]
      /\ UNCHANGED host /\ buf' = buf
  BY <1>1 DEF RunUpload
<1>3. stream[1] \in Entry /\ [stream[1] EXCEPT !.slot = NoSlot] \in Entry
  <2>1. stream[1] \in Entry /\ NoSlot \in NoSlot .. Depth - 1
    BY <1>1, StreamIs, Sizes DEF NoSlot
  <2> QED BY <2>1 DEF Entry
<1>4. /\ stream' \in Seq(Entry) /\ Len(stream') = Len(stream) /\ DOMAIN stream' = DOMAIN stream
      /\ \A i \in DOMAIN stream :
           /\ stream'[i].width = stream[i].width /\ stream'[i].pad = stream[i].pad
           /\ stream'[i].tokens = stream[i].tokens
           /\ stream'[i].slot = IF i = 1 THEN NoSlot ELSE stream[i].slot
  <2>1. ASSUME NEW S, NEW q \in Seq(S), NEW e \in S, 1 \in DOMAIN q
        PROVE  /\ [q EXCEPT ![1] = e] \in Seq(S) /\ Len([q EXCEPT ![1] = e]) = Len(q)
               /\ DOMAIN [q EXCEPT ![1] = e] = DOMAIN q
               /\ \A i \in DOMAIN q : [q EXCEPT ![1] = e][i] = IF i = 1 THEN e ELSE q[i]
    BY <2>1
  <2> DEFINE e == [stream[1] EXCEPT !.slot = NoSlot]
  <2>2. /\ stream' \in Seq(Entry) /\ Len(stream') = Len(stream) /\ DOMAIN stream' = DOMAIN stream
        /\ \A i \in DOMAIN stream : stream'[i] = IF i = 1 THEN e ELSE stream[i]
    <3> HIDE DEF e
    <3> QED BY <1>1, <1>2, <1>3, <2>1 DEF e
  <2>3. e.width = stream[1].width /\ e.pad = stream[1].pad /\ e.tokens = stream[1].tokens
        /\ e.slot = NoSlot
    BY <1>3 DEF Entry
  <2> HIDE DEF e
  <2> QED BY <2>2, <2>3
<1>5. s \in 0 .. Depth - 1
  BY <1>1, StreamIs, Sizes DEF NoSlot
<1>6. index' \in [Layers -> [Cols -> 0 .. Len(rows)]]
  <2>1. mirror[s] \in [Layers -> [Cols -> 0 .. Len(rows)]] /\ index \in [Layers -> [Cols -> 0 .. Len(rows)]]
    BY <1>5 DEF TypeOK
  <2> QED BY <1>2, <2>1
<1>7. TypeOK'
  <2>1. UNCHANGED host /\ stream' \in Seq(Entry) /\ Len(stream') <= MaxAhead
        /\ index' \in [Layers -> [Cols -> 0 .. Len(rows)]]
        /\ \A i \in DOMAIN stream' :
             Len(stream'[i].tokens) <= stream'[i].pad /\ stream'[i].pad <= stream'[i].width
    BY <1>2, <1>4, <1>6 DEF TypeOK
  <2> QED BY <2>1 DEF TypeOK, Entry, host
<1>8. CacheInv' /\ KeysAreComplete'
  BY <1>2 DEF host, CacheInv, KeysAreComplete, RowLayers
<1>9. ASSUME NEW i \in DOMAIN stream, NEW l \in Layers, NEW c \in 1 .. stream[i].width
      PROVE  Place(i, l, c)' = Place(i, l, c)
  <2>1. c \in Cols
    BY WidthCols
  <2>2. CASE i = 1
    <3>1. c <= stream[1].width
      BY <2>2, StreamIs DEF Cols
    <3> QED BY <1>1, <1>2, <1>4, <2>1, <2>2, <3>1 DEF Place
  <2>3. CASE i # 1
    BY <1>2, <1>4, <2>3 DEF Place, host
  <2> QED BY <2>2, <2>3
<1>10. \A i \in DOMAIN stream : Quiet(i)' <=> Quiet(i)
  BY <1>4, <1>9 DEF Quiet
<1>11. StreamInv'
  <2>1. \A i, j \in DOMAIN stream : stream'[i].slot = stream'[j].slot => i = j \/ stream'[i].slot = NoSlot
    BY <1>4 DEF StreamInv
  <2>2. ASSUME NEW i \in DOMAIN stream \ {1}, stream'[i].slot = NoSlot
        PROVE  stream'[i].width = stream'[i - 1].width /\ Quiet(i - 1)'
    <3>1. i - 1 \in DOMAIN stream /\ stream[i].slot = NoSlot
      BY <1>1, <1>4, <2>2
    <3>2. stream[i].width = stream[i - 1].width /\ Quiet(i - 1)
      BY <3>1 DEF StreamInv
    <3> QED BY <1>4, <1>10, <3>1, <3>2
  <2> QED BY <1>4, <2>1, <2>2 DEF StreamInv
<1>12. KeyInv'
  <2>1. stream' # <<>> /\ stream # <<>> /\ Len(stream) \in DOMAIN stream
    BY <1>1, <1>4
  <2> QED BY <1>2, <1>4, <1>10, <2>1 DEF KeyInv, host
<1>13. PlaceInv'
  <2>1. ASSUME NEW i \in DOMAIN stream, NEW l \in Layers, NEW c \in 1 .. stream[i].pad
        PROVE  Place(i, l, c)' = Place(i, l, c)
    BY <1>9, WidthCols
  <2>2. ASSUME NEW i \in DOMAIN stream, NEW l \in Layers, NEW c \in DOMAIN stream[i].tokens
        PROVE  Place(i, l, c)' = Place(i, l, c)
    BY <2>1, WidthCols
  <2>3. rows' = rows /\ buf' = buf
    BY <1>2 DEF host
  <2>4. \A i \in DOMAIN stream' : \A l \in Layers : \A c \in 1 .. stream'[i].pad :
          Place(i, l, c)' # Sentinel =>
            /\ c \in DOMAIN stream'[i].tokens /\ Place(i, l, c)' \in DOMAIN rows'
            /\ l \in rows'[Place(i, l, c)'].layers
            /\ rows'[Place(i, l, c)'].token = stream'[i].tokens[c]
    BY <1>4, <2>1, <2>3 DEF PlaceInv
  <2>5. ASSUME NEW w \in DOMAIN rows, NEW l \in rows[w].layers
        PROVE  \/ w \in DOMAIN buf[l]
               \/ \E i \in DOMAIN stream' : \E c \in DOMAIN stream'[i].tokens : Place(i, l, c)' = w
    <3>1. l \in Layers
      BY RowIs
    <3> QED BY <1>4, <2>2, <3>1 DEF PlaceInv
  <2> QED BY <2>3, <2>4, <2>5 DEF PlaceInv
<1> QED BY <1>7, <1>8, <1>11, <1>12, <1>13
\* What the forward at the head of the stream writes, it writes for good: the
\* steps behind it keep the rows they will write.
LEMMA StepForward ==
  ASSUME RoutingInv, RunForward
  PROVE  RoutingInv'
<1> USE DEF RoutingInv
<1> DEFINE n == Len(stream)
           op == stream[1]
           Content(c) == IF c \in DOMAIN op.tokens THEN op.tokens[c] ELSE NoToken
           Hits(l, w) == { c \in 1 .. op.pad : index[l][c] = w }
           hit(l) == { index[l][c] : c \in 1 .. op.pad } \ {Sentinel}
<1>1. /\ stream \in Seq(Entry) /\ 1 \in DOMAIN stream /\ Head(stream) = op /\ op.slot = NoSlot
      /\ DOMAIN stream = 1 .. n /\ n \in Nat /\ stream # <<>>
  BY StreamIs DEF RunForward
<1>2. /\ stream' = Tail(stream) /\ UNCHANGED host /\ index' = index
      /\ buf' = [l \in Layers |-> [w \in DOMAIN buf[l] \cup hit(l) |->
                   IF w \in hit(l) THEN Content(Max(Hits(l, w))) ELSE buf[l][w]]]
  BY <1>1 DEF RunForward
<1>3. /\ stream' \in Seq(Entry) /\ Len(stream') = n - 1 /\ DOMAIN stream' = 1 .. n - 1
      /\ \A i \in 1 .. n - 1 : stream'[i] = stream[i + 1] /\ i + 1 \in DOMAIN stream
  <2>1. ASSUME NEW S, NEW q \in Seq(S), q # <<>>
        PROVE  /\ Tail(q) \in Seq(S) /\ Len(Tail(q)) = Len(q) - 1
               /\ DOMAIN Tail(q) = 1 .. Len(q) - 1
               /\ \A i \in 1 .. Len(q) - 1 : Tail(q)[i] = q[i + 1] /\ i + 1 \in DOMAIN q
    BY <2>1
  <2> QED BY <1>1, <1>2, <2>1
<1>4. TypeOK'
  <2>1. Len(stream') <= MaxAhead
    BY <1>1, <1>3, Sizes DEF TypeOK
  <2>2. \A i \in DOMAIN stream' :
          Len(stream'[i].tokens) <= stream'[i].pad /\ stream'[i].pad <= stream'[i].width
    BY <1>3, StreamIs
  <2> HIDE DEF n, op, Content, Hits, hit
  <2> QED BY <1>2, <1>3, <2>1, <2>2 DEF TypeOK, Entry, host
<1>5. CacheInv' /\ KeysAreComplete'
  <2>1. CacheInv'
    BY <1>2 DEF host, CacheInv, RowLayers
  <2>2. KeysAreComplete'
    BY <1>2 DEF host, KeysAreComplete, RowLayers
  <2> QED BY <2>1, <2>2
<1>6. ASSUME NEW i \in 1 .. n - 1, NEW l \in Layers, NEW c \in 1 .. stream[i + 1].width
      PROVE  Place(i, l, c)' = Place(i + 1, l, c)
  <2>1. stream'[i] = stream[i + 1] /\ i + 1 \in DOMAIN stream /\ i + 1 # 1 /\ mirror' = mirror
    BY <1>1, <1>2, <1>3 DEF host
  <2>2. CASE stream[i + 1].slot # NoSlot
    BY <2>1, <2>2 DEF Place
  <2>3. CASE stream[i + 1].slot = NoSlot /\ i # 1
    BY <2>1, <2>3 DEF Place
  <2>4. CASE stream[i + 1].slot = NoSlot /\ i = 1
    <3>1. stream[i + 1].width = stream[1].width /\ Quiet(1)
      <4>1. i + 1 \in DOMAIN stream \ {1} /\ (i + 1) - 1 = 1
        BY <2>1, <2>4
      <4> QED BY <2>4, <4>1 DEF StreamInv
    <3>2. Place(1, l, c) = Sentinel
      BY <3>1 DEF Quiet
    <3>3. Place(1, l, c) = index[l][c]
      BY <1>1 DEF Place
    <3>4. Place(i, l, c)' = index[l][c]
      BY <1>2, <2>1, <2>4 DEF Place
    <3>5. Place(i + 1, l, c) = Sentinel
      BY <2>1, <2>4 DEF Place
    <3> QED BY <3>2, <3>3, <3>4, <3>5
  <2> QED BY <2>2, <2>3, <2>4
<1>7. \A i \in 1 .. n - 1 : Quiet(i)' <=> Quiet(i + 1)
  BY <1>3, <1>6 DEF Quiet
<1>8. StreamInv'
  <2>1. ASSUME NEW i \in 1 .. n - 1, NEW j \in 1 .. n - 1, stream'[i].slot = stream'[j].slot
        PROVE  i = j \/ stream'[i].slot = NoSlot
    <3>1. /\ i + 1 \in DOMAIN stream /\ j + 1 \in DOMAIN stream
          /\ stream[i + 1].slot = stream[j + 1].slot /\ stream'[i].slot = stream[i + 1].slot
      BY <1>3, <2>1
    <3>2. i + 1 = j + 1 \/ stream[i + 1].slot = NoSlot
      BY <3>1 DEF StreamInv
    <3> QED BY <1>1, <3>1, <3>2
  <2>2. ASSUME NEW i \in (1 .. n - 1) \ {1}, stream'[i].slot = NoSlot
        PROVE  stream'[i].width = stream'[i - 1].width /\ Quiet(i - 1)'
    <3>1. /\ i - 1 \in 1 .. n - 1 /\ (i - 1) + 1 = i /\ (i + 1) - 1 = i
          /\ i + 1 \in DOMAIN stream \ {1}
      BY <1>1, <1>3
    <3>2. stream[i + 1].slot = NoSlot /\ stream'[i].width = stream[i + 1].width
          /\ stream'[i - 1].width = stream[i].width
      BY <1>3, <2>2, <3>1
    <3>3. stream[i + 1].width = stream[i].width /\ Quiet(i)
      BY <3>1, <3>2 DEF StreamInv
    <3>4. Quiet(i - 1)' <=> Quiet(i)
      BY <1>7, <3>1
    <3> QED BY <3>2, <3>3, <3>4
  <2> QED BY <1>3, <2>1, <2>2 DEF StreamInv
<1>9. KeyInv'
  <2> SUFFICES ASSUME lastKey
               PROVE  IF stream' = <<>>
                      THEN \A l \in Layers : \A c \in 1 .. lastWidth : index[l][c] = Sentinel
                      ELSE stream'[Len(stream')].width = lastWidth /\ Quiet(Len(stream))'
    BY <1>2 DEF KeyInv, host
  <2>1. stream[n].width = lastWidth /\ Quiet(n)
    BY <1>1 DEF KeyInv
  <2>2. CASE n = 1
    <3>1. stream' = <<>>
      BY <1>3, <2>2
    <3>2. \A l \in Layers : \A c \in 1 .. lastWidth : Place(1, l, c) = Sentinel
      BY <2>1, <2>2 DEF Quiet
    <3>3. \A l \in Layers : \A c \in 1 .. lastWidth : Place(1, l, c) = index[l][c]
      BY <1>1 DEF Place
    <3> QED BY <3>1, <3>2, <3>3
  <2>3. CASE n # 1
    <3>1. PICK m \in 1 .. n - 1 : m = n - 1 /\ m + 1 = n
      <4>1. n \in Nat /\ n >= 1 /\ n # 1
        BY <1>1, <2>3
      <4> HIDE DEF n
      <4> QED BY <4>1
    <3>2. stream' # <<>> /\ Len(stream') = m
      BY <1>3, <3>1
    <3>3. stream'[m] = stream[n] /\ (Quiet(m)' <=> Quiet(n))
      BY <1>3, <1>7, <3>1
    <3>4. Quiet(m)' <=> Quiet(Len(stream))'
      BY <3>2 DEF Quiet
    <3> QED BY <2>1, <3>2, <3>3, <3>4
  <2> QED BY <2>2, <2>3
<1>10. rows' = rows
  BY <1>2 DEF host
<1>11. \A l \in Layers : DOMAIN buf'[l] = DOMAIN buf[l] \cup hit(l)
  <2> HIDE DEF Content, Hits, hit
  <2> QED BY <1>2
<1>12. ASSUME NEW i \in DOMAIN stream', NEW l \in Layers, NEW c \in 1 .. stream'[i].pad,
              Place(i, l, c)' # Sentinel
       PROVE  /\ c \in DOMAIN stream'[i].tokens /\ Place(i, l, c)' \in DOMAIN rows
              /\ l \in rows[Place(i, l, c)'].layers
              /\ rows[Place(i, l, c)'].token = stream'[i].tokens[c]
  <2>1. i \in 1 .. n - 1 /\ stream'[i] = stream[i + 1] /\ i + 1 \in DOMAIN stream
    BY <1>3
  <2>2. c \in 1 .. stream[i + 1].pad /\ c \in 1 .. stream[i + 1].width
    BY <2>1, WidthCols
  <2>3. Place(i, l, c)' = Place(i + 1, l, c)
    BY <1>6, <2>1, <2>2
  <2> QED BY <1>12, <2>1, <2>2, <2>3 DEF PlaceInv
<1>13. ASSUME NEW w \in DOMAIN rows, NEW l \in rows[w].layers
       PROVE  \/ w \in DOMAIN buf'[l]
              \/ \E i \in DOMAIN stream' : \E c \in DOMAIN stream'[i].tokens : Place(i, l, c)' = w
  <2>1. l \in Layers /\ w # Sentinel
    BY RowIs, StreamIs DEF Sentinel
  <2>2. CASE w \in DOMAIN buf[l]
    BY <1>11, <2>1, <2>2
  <2>3. CASE w \notin DOMAIN buf[l]
    <3>1. PICK i \in DOMAIN stream : \E c \in DOMAIN stream[i].tokens : Place(i, l, c) = w
      BY <2>3 DEF PlaceInv
    <3>2. PICK c \in DOMAIN stream[i].tokens : Place(i, l, c) = w
      BY <3>1
    <3>3. c \in 1 .. stream[i].pad /\ c \in 1 .. stream[i].width
      BY WidthCols
    <3>4. CASE i = 1
      <4>1. Place(1, l, c) = index[l][c]
        BY <1>1 DEF Place
      <4>2. w \in hit(l)
        BY <2>1, <3>2, <3>3, <3>4, <4>1
      <4> QED BY <1>11, <2>1, <4>2
    <3>5. CASE i # 1
      <4>1. i - 1 \in 1 .. n - 1 /\ (i - 1) + 1 = i
        BY <1>1, <3>5
      <4>2. stream'[i - 1] = stream[i] /\ i - 1 \in DOMAIN stream'
        BY <1>3, <4>1
      <4>3. Place(i - 1, l, c)' = Place(i, l, c)
        BY <1>6, <2>1, <3>3, <4>1
      <4> QED BY <3>2, <4>2, <4>3
    <3> QED BY <3>4, <3>5
  <2> QED BY <2>2, <2>3
<1>14. ASSUME NEW l \in Layers, NEW w \in DOMAIN buf'[l]
       PROVE  w \in DOMAIN rows /\ l \in rows[w].layers /\ buf'[l][w] = rows[w].token
  <2>1. buf'[l][w] = IF w \in hit(l) THEN Content(Max(Hits(l, w))) ELSE buf[l][w]
    <3> HIDE DEF Content, Hits, hit
    <3> QED BY <1>2, <1>11
  <2>2. CASE w \in hit(l)
    <3>1. PICK d \in 1 .. op.pad : index[l][d] = w /\ w # Sentinel
      BY <2>2
    <3>2. op.pad \in Nat
      BY <1>1, StreamIs DEF Cols
    <3>3. Hits(l, w) \subseteq Nat /\ Hits(l, w) # {} /\ \A y \in Hits(l, w) : y <= op.pad
      BY <3>1, <3>2
    <3>4. Max(Hits(l, w)) \in Hits(l, w)
      <4> HIDE DEF Hits
      <4> QED BY <3>2, <3>3, MaxIs
    <3>5. Max(Hits(l, w)) \in 1 .. op.pad /\ index[l][Max(Hits(l, w))] = w
      BY <3>4
    <3> DEFINE c == Max(Hits(l, w))
    <3>6. Place(1, l, c) = w
      BY <1>1, <3>5 DEF Place
    <3> HIDE DEF c
    <3>7. /\ c \in DOMAIN stream[1].tokens /\ Place(1, l, c) \in DOMAIN rows
          /\ l \in rows[Place(1, l, c)].layers
          /\ rows[Place(1, l, c)].token = stream[1].tokens[c]
      BY <1>1, <3>1, <3>5, <3>6 DEF PlaceInv, c
    <3>8. buf'[l][w] = Content(c)
      BY <2>1, <2>2 DEF c
    <3> QED BY <3>6, <3>7, <3>8
  <2>3. CASE w \notin hit(l)
    <3>1. w \in DOMAIN buf[l] /\ buf'[l][w] = buf[l][w]
      BY <1>11, <2>1, <2>3
    <3> QED BY <3>1 DEF PlaceInv
  <2> QED BY <2>2, <2>3
<1>15. PlaceInv'
  <2> HIDE DEF n, op, Content, Hits, hit
  <2> QED BY <1>10, <1>12, <1>13, <1>14 DEF PlaceInv
<1> QED BY <1>4, <1>5, <1>8, <1>9, <1>15
-----------------------------------------------------------------------------
(* The steps that queue a forward. *)

\* A request that captures nothing in this step has no row.
LEMMA IdleIs ==
  ASSUME TypeOK, CacheInv, NEW take \in Batches, Idle(take), NEW r \in Reqs
  PROVE  NRows(take, r) = 0
<1>1. take[r] = 0 \/ ~BusyIn(r)
  <2>1. take[r] \in Nat /\ (r \in Batch(take) <=> take[r] > 0)
    BY BatchIs DEF Batch
  <2> QED BY <2>1 DEF Idle
<1>2. take[r] = 0 \/ Skips(take, r)
  BY <1>1 DEF Skips
<1> QED BY <1>2, CountIs

\* Whatever is launched, the steps already queued stay where they are.
LEMMA LaunchKeeps ==
  ASSUME TypeOK, StreamInv, NEW take \in Batches, NEW s \in NoSlot .. Depth - 1, NEW recs,
         Launch(take, s, recs), Len(stream) < MaxAhead,
         s # NoSlot => SlotIsFree /\ s = idx,
         s = NoSlot => \/ stream = <<>>
                       \/ Width(Total(take)) = stream[Len(stream)].width /\ Quiet(Len(stream)),
         \A i \in DOMAIN stream : stream[i].slot # NoSlot => mirror'[stream[i].slot] = mirror[stream[i].slot]
  PROVE  /\ \A i \in DOMAIN stream : \A l \in Layers : \A c \in Cols :
              Place(i, l, c)' = Place(i, l, c)
         /\ StreamInv'
<1> DEFINE n == Len(stream)
<1>1. /\ n \in Nat /\ DOMAIN stream = 1 .. n /\ DOMAIN stream' = 1 .. n + 1 /\ index' = index
      /\ \A i \in DOMAIN stream : stream'[i] = stream[i]
      /\ stream'[n + 1].slot = s /\ stream'[n + 1].width = Width(Total(take))
  <2>1. stream'[n + 1].slot = s /\ stream'[n + 1].width = Width(Total(take))
    <3>1. stream'[n + 1] = Queued(take, s)
      BY LaunchIs
    <3> QED BY <3>1 DEF Queued
  <2>2. index' = index
    BY DEF Launch
  <2> QED BY <2>1, <2>2, LaunchIs, StreamIs
<1>2. \A i \in DOMAIN stream : \A l \in Layers : \A c \in Cols : Place(i, l, c)' = Place(i, l, c)
  BY <1>1 DEF Place
<1>3. \A i \in DOMAIN stream : Quiet(i)' <=> Quiet(i)
  <2> SUFFICES ASSUME NEW i \in DOMAIN stream PROVE Quiet(i)' <=> Quiet(i)
    OBVIOUS
  <2>1. 1 .. stream[i].width \subseteq Cols /\ stream'[i].width = stream[i].width
    BY <1>1, WidthCols
  <2>2. \A l \in Layers : \A c \in 1 .. stream[i].width : Place(i, l, c)' = Place(i, l, c)
    BY <1>2, <2>1
  <2> QED BY <2>1, <2>2 DEF Quiet
<1>4. ASSUME NEW i \in DOMAIN stream', NEW j \in DOMAIN stream', stream'[i].slot = stream'[j].slot
      PROVE  i = j \/ stream'[i].slot = NoSlot
  <2>1. (i \in DOMAIN stream \/ i = n + 1) /\ (j \in DOMAIN stream \/ j = n + 1)
    BY <1>1
  <2>2. CASE i \in DOMAIN stream /\ j \in DOMAIN stream
    BY <1>1, <1>4, <2>2 DEF StreamInv
  <2>3. CASE i = n + 1 /\ j = n + 1
    BY <2>3
  <2>4. CASE i \in DOMAIN stream /\ j = n + 1
    BY <1>1, <1>4, <2>4 DEF SlotIsFree
  <2>5. CASE i = n + 1 /\ j \in DOMAIN stream
    BY <1>1, <1>4, <2>5 DEF SlotIsFree
  <2> QED BY <2>1, <2>2, <2>3, <2>4, <2>5
<1>5. ASSUME NEW i \in DOMAIN stream' \ {1}, stream'[i].slot = NoSlot
      PROVE  stream'[i].width = stream'[i - 1].width /\ Quiet(i - 1)'
  <2>1. i - 1 \in DOMAIN stream /\ (i \in DOMAIN stream \ {1} \/ i = n + 1)
    BY <1>1
  <2>2. Quiet(i - 1)' <=> Quiet(i - 1)
    BY <1>3, <2>1
  <2>3. CASE i \in DOMAIN stream \ {1}
    BY <1>1, <1>5, <2>1, <2>2, <2>3 DEF StreamInv
  <2>4. CASE i = n + 1
    <3>1. i - 1 = n /\ s = NoSlot /\ stream # <<>>
      BY <1>1, <1>5, <2>1, <2>4
    <3> QED BY <1>1, <2>1, <2>2, <2>4, <3>1
  <2> QED BY <2>1, <2>3, <2>4
<1> QED BY <1>2, <1>4, <1>5 DEF StreamInv

LEMMA StepReuse ==
  ASSUME RoutingInv, NEW take \in Batches, Reuse(take), Len(stream) < MaxAhead
  PROVE  RoutingInv'
<1> USE DEF RoutingInv
<1> DEFINE n == Len(stream)
           w == Width(Total(take))
<1>1. /\ Idle(take) /\ lastKey /\ w = lastWidth /\ Launch(take, NoSlot, {})
      /\ UNCHANGED <<mirror, idx, lastKey, lastWidth, cache, rows>>
      /\ UNCHANGED <<kind, prefillLen, preempted, index, buf>>
  BY DEF Reuse, MayReuse, Launch
<1>2. NoSlot \in NoSlot .. Depth - 1 /\ w \in Cols /\ 1 .. w \subseteq Cols
  BY BatchIs, WidthIs, Sizes DEF NoSlot, Cols
<1>3. /\ stream' \in Seq(Entry) /\ Len(stream') = n + 1 /\ Len(stream') <= MaxAhead
      /\ DOMAIN stream' = 1 .. n + 1
      /\ \A i \in DOMAIN stream : stream'[i] = stream[i]
      /\ stream'[n + 1] = Queued(take, NoSlot)
      /\ \A i \in DOMAIN stream' :
           Len(stream'[i].tokens) <= stream'[i].pad /\ stream'[i].pad <= stream'[i].width
      /\ computed' \in [Reqs -> Nat] /\ \A r \in Reqs : computed'[r] <= Length(r)
  BY <1>1, <1>2, LaunchIs
<1>4. n \in Nat /\ DOMAIN stream = 1 .. n /\ (n = 0 <=> stream = <<>>)
  <2>1. stream \in Seq(Entry) /\ n \in Nat /\ DOMAIN stream = 1 .. n
    BY StreamIs
  <2> QED BY <2>1, EmptySeq
<1>5. stream = <<>> \/ (w = stream[n].width /\ Quiet(n))
  <2>1. CASE stream # <<>>
    <3>1. stream[n].width = lastWidth /\ Quiet(n)
      BY <1>1, <2>1, Zenon DEF KeyInv
    <3>2. lastWidth = w
      BY <1>1, Zenon
    <3> QED BY <3>1, <3>2, Zenon
  <2> QED BY <2>1, Zenon
<1>6. /\ \A i \in DOMAIN stream : \A l \in Layers : \A c \in Cols : Place(i, l, c)' = Place(i, l, c)
      /\ StreamInv'
  BY <1>1, <1>2, <1>5, LaunchKeeps
<1>7. TypeOK'
  BY <1>1, <1>3 DEF TypeOK, Entry
<1>8. CacheInv'
  BY <1>1 DEF CacheInv, RowLayers
<1>9. KeysAreComplete'
  <2>1. last'.tokens = TokenAt(take) /\ last'.prefill = { r \in Reqs : Prefilling(r) }
    BY <1>1 DEF Launch
  <2>2. DOMAIN TokenAt(take) = 1 .. Total(take)
        /\ \A c \in 1 .. Total(take) :
             TokenAt(take)[c][1] \in Reqs /\ c \in Span(take, TokenAt(take)[c][1])
    BY TokensAre
  <2>3. ASSUME kind = "qk", NEW c \in 1 .. Total(take)
        PROVE  LET r == TokenAt(take)[c][1]
               IN ~(Asks[r].asks /\ (r \in last'.prefill \/ Asks[r].hooks # "prefill"))
    <3> DEFINE r == TokenAt(take)[c][1]
    <3>1. r \in Reqs /\ c \in Span(take, r)
      BY <2>2
    <3> HIDE DEF r
    <3>2. take[r] > 0
      <4>1. take[r] \in Nat /\ Before(take, r) \in Nat
        BY <3>1, BatchIs, WithinTotal
      <4> QED BY <3>1, <4>1 DEF Span
    <3>3. ~BusyIn(r)
      BY <1>1, <3>1, <3>2 DEF Idle, Batch
    <3>4. r \in last'.prefill <=> Prefilling(r)
      BY <2>1, <3>1
    <3>5. ~(Asks[r].asks /\ (r \in last'.prefill \/ Asks[r].hooks # "prefill"))
      BY <2>3, <3>3, <3>4 DEF BusyIn
    <3> QED BY <3>5 DEF r
  <2> QED BY <1>1, <2>1, <2>2, <2>3 DEF KeysAreComplete
<1>10. PICK m \in Nat : m = n + 1
  BY <1>4
<1>11. \A l \in Layers : \A c \in 1 .. w : Place(m, l, c)' = Sentinel
  <2>1. stream'[m].slot = NoSlot
    BY <1>3, <1>10 DEF Queued
  <2>2. CASE n = 0
    <3>1. \A l \in Layers : \A c \in 1 .. w : index[l][c] = Sentinel
      BY <1>1, <1>4, <2>2 DEF KeyInv
    <3> QED BY <1>1, <1>10, <2>1, <2>2, <3>1 DEF Place
  <2>3. CASE n # 0
    <3>1. m # 1
      BY <1>4, <1>10, <2>3
    <3> QED BY <2>1, <3>1 DEF Place
  <2> QED BY <2>2, <2>3
<1>12. stream'[m].width = w /\ stream'[m].pad <= w /\ stream'[m].pad \in Cols
  BY <1>2, <1>3, <1>10, BatchIs, WidthIs DEF Queued
<1>13. KeyInv'
  <2>1. stream' # <<>> /\ Len(stream') = m
    BY <1>3, <1>4, <1>10
  <2>2. Quiet(Len(stream))'
    BY <1>11, <1>12, <2>1 DEF Quiet
  <2> QED BY <1>1, <1>12, <2>1, <2>2 DEF KeyInv
<1>14. PlaceInv'
  <2>1. ASSUME NEW i \in DOMAIN stream', NEW l \in Layers, NEW c \in 1 .. stream'[i].pad,
               Place(i, l, c)' # Sentinel
        PROVE  i \in DOMAIN stream /\ Place(i, l, c)' = Place(i, l, c)
    <3>1. i \in DOMAIN stream \/ i = m
      BY <1>3, <1>4, <1>10
    <3>2. i # m
      <4>1. CASE i = m
        <5>1. c \in 1 .. w
          BY <1>2, <1>12, <4>1 DEF Cols
        <5> QED BY <1>11, <2>1, <4>1, <5>1
      <4> QED BY <4>1
    <3>3. i \in DOMAIN stream /\ stream'[i] = stream[i]
      BY <1>3, <3>1, <3>2
    <3>4. c \in Cols
      BY <3>3, WidthCols
    <3> QED BY <1>6, <3>3, <3>4
  <2>2. ASSUME NEW i \in DOMAIN stream, NEW l \in Layers, NEW c \in DOMAIN stream[i].tokens
        PROVE  i \in DOMAIN stream' /\ stream'[i] = stream[i] /\ Place(i, l, c)' = Place(i, l, c)
    <3>1. c \in Cols /\ i \in DOMAIN stream' /\ stream'[i] = stream[i]
      BY <1>3, <1>4, WidthCols
    <3> QED BY <1>6, <3>1
  <2>3. rows' = rows /\ buf' = buf
    BY <1>1
  <2>4. \A i \in DOMAIN stream' : \A l \in Layers : \A c \in 1 .. stream'[i].pad :
          Place(i, l, c)' # Sentinel =>
            /\ c \in DOMAIN stream'[i].tokens /\ Place(i, l, c)' \in DOMAIN rows'
            /\ l \in rows'[Place(i, l, c)'].layers
            /\ rows'[Place(i, l, c)'].token = stream'[i].tokens[c]
    BY <1>3, <2>1, <2>3 DEF PlaceInv
  <2>5. ASSUME NEW v \in DOMAIN rows, NEW l \in rows[v].layers
        PROVE  \/ v \in DOMAIN buf[l]
               \/ \E i \in DOMAIN stream' : \E c \in DOMAIN stream'[i].tokens : Place(i, l, c)' = v
    <3>1. l \in Layers
      BY RowIs
    <3> QED BY <2>2, <3>1 DEF PlaceInv
  <2> QED BY <2>3, <2>4, <2>5 DEF PlaceInv
<1> QED BY <1>6, <1>7, <1>8, <1>9, <1>13, <1>14
LEMMA CacheAfterIs ==
  ASSUME TypeOK, CacheInv, NEW take \in Batches, NEW r \in DOMAIN CacheAfter(take)
  PROVE  /\ r \in Reqs /\ Asks[r].asks /\ Asks[r].hooks # "prefill"
         /\ CacheAfter(take)[r] = RowLayers(r) /\ RowLayers(r) # {}
<1> DEFINE miss == { q \in Batch(take) : ~Hit(take, q) }
           gone == { q \in miss :
                       \/ ~Asks[q].asks
                       \/ Asks[q].hooks = "prefill" /\ (~Prefilling(q) \/ ~Skips(take, q)) }
           made == { q \in miss : ~Skips(take, q) /\ Asks[q].hooks # "prefill" }
           kept == (DOMAIN cache \cup made) \ gone
           live == IF Cardinality(kept) > Cardinality(Batch(take))
                   THEN kept \cap Batch(take) ELSE kept
<1>1. CacheAfter(take) = [q \in live |-> IF q \in made THEN RowLayers(q) ELSE cache[q]]
  BY DEF CacheAfter
<1>2. r \in live
  <2> HIDE DEF made, live
  <2> QED BY <1>1
<1>3. r \in DOMAIN cache \cup made
  BY <1>2
<1>4. CacheAfter(take)[r] = IF r \in made THEN RowLayers(r) ELSE cache[r]
  <2> HIDE DEF made, live
  <2> QED BY <1>1, <1>2
<1>5. CASE r \in made
  <2>1. r \in Reqs /\ ~Skips(take, r) /\ Asks[r].hooks # "prefill"
    BY <1>5 DEF Batch
  <2>2. BusyIn(r) /\ RowLayers(r) # {}
    BY <2>1 DEF Skips
  <2> HIDE DEF made
  <2> QED BY <1>4, <1>5, <2>1, <2>2 DEF BusyIn
<1>6. CASE r \notin made
  <2>1. r \in DOMAIN cache
    BY <1>3, <1>6
  <2> HIDE DEF made
  <2> QED BY <1>4, <1>6, <2>1 DEF CacheInv
<1> QED BY <1>5, <1>6

\* The rows reserved by a step, after those of the steps before it.
LEMMA RowsAfter ==
  ASSUME TypeOK, CacheInv, NEW take \in Batches, rows' = rows \o NewRows(take)
  PROVE  /\ rows' \in Seq([token : Reqs \X Nat, layers : SUBSET Layers])
         /\ Len(rows') \in Nat /\ Len(rows) <= Len(rows') /\ DOMAIN rows' = 1 .. Len(rows')
         /\ DOMAIN rows \subseteq DOMAIN rows'
         /\ \A x \in DOMAIN rows : rows'[x] = rows[x]
         /\ \A r \in Reqs : NRows(take, r) > 0 => \A c \in Captured(take, r) :
              /\ RowFor(take, r, c) \in DOMAIN rows' /\ RowFor(take, r, c) # Sentinel
              /\ rows'[RowFor(take, r, c)] = [token |-> TokenAt(take)[c], layers |-> RowLayers(r)]
         /\ \A x \in DOMAIN rows' \ DOMAIN rows : \E r \in Reqs : NRows(take, r) > 0 /\
              \E c \in Captured(take, r) : RowFor(take, r, c) = x
<1> DEFINE N == NewRows(take)
           Row == [token : Reqs \X Nat, layers : SUBSET Layers]
           n == Len(rows)
           t == Total(Counts(take))
<1>1. rows \in Seq(Row) /\ n \in Nat /\ DOMAIN rows = 1 .. n
  <2>1. rows \in Seq(Row)
    BY DEF TypeOK
  <2> QED BY <2>1, StreamIs
<1>2. N \in Seq(Row) /\ Len(N) = t /\ t \in Nat
  BY NewRowsAre
<1> HIDE DEF Row, N
<1>3. /\ rows' \in Seq(Row) /\ Len(rows') = n + t /\ DOMAIN rows' = 1 .. n + t
      /\ \A w \in 1 .. n + t : rows'[w] = IF w <= n THEN rows[w] ELSE N[w - n]
  <2>1. ASSUME NEW S, NEW a \in Seq(S), NEW b \in Seq(S)
        PROVE  /\ a \o b \in Seq(S) /\ Len(a \o b) = Len(a) + Len(b)
               /\ DOMAIN (a \o b) = 1 .. Len(a) + Len(b)
               /\ \A w \in 1 .. Len(a) + Len(b) :
                    (a \o b)[w] = IF w <= Len(a) THEN a[w] ELSE b[w - Len(a)]
    BY <2>1
  <2>2. rows' = rows \o N
    BY DEF N
  <2>3. /\ rows \o N \in Seq(Row) /\ Len(rows \o N) = n + t
        /\ DOMAIN (rows \o N) = 1 .. n + t
        /\ \A w \in 1 .. n + t : (rows \o N)[w] = IF w <= n THEN rows[w] ELSE N[w - n]
    <3>1. rows \in Seq(Row) /\ N \in Seq(Row) /\ Len(N) = t
      BY <1>1, <1>2
    <3> HIDE DEF t
    <3> QED BY <2>1, <3>1
  <2> HIDE DEF t, n
  <2> QED BY <2>2, <2>3
<1>4. ASSUME NEW r \in Reqs, NRows(take, r) > 0, NEW c \in Captured(take, r)
      PROVE  /\ RowFor(take, r, c) \in DOMAIN rows' /\ RowFor(take, r, c) # Sentinel
             /\ rows'[RowFor(take, r, c)] = [token |-> TokenAt(take)[c], layers |-> RowLayers(r)]
  <2>1. RowFor(take, r, c) - n \in 1 .. t
    BY <1>4, RowForIs
  <2>2. RowFor(take, r, c) \in Int
    <3>1. c \in Nat /\ FirstCol(take, r) \in Nat /\ Before(Counts(take), r) \in Nat
      BY <1>4, RowForIs, CapturedIs, CountsAre, WithinTotal
    <3> QED BY <1>1, <3>1 DEF RowFor
  <2>3. N[RowFor(take, r, c) - n] = [token |-> TokenAt(take)[c], layers |-> RowLayers(r)]
    BY <1>4, NewRowsAre DEF N
  <2>4. RowFor(take, r, c) \in 1 .. n + t /\ ~(RowFor(take, r, c) <= n) /\ RowFor(take, r, c) # 0
    BY <1>1, <1>2, <2>1, <2>2
  <2> QED BY <1>3, <2>3, <2>4 DEF Sentinel
<1>5. ASSUME NEW w \in DOMAIN rows' \ DOMAIN rows
      PROVE  \E r \in Reqs : NRows(take, r) > 0 /\ \E c \in Captured(take, r) : RowFor(take, r, c) = w
  <2>1. w - n \in 1 .. t /\ n + (w - n) = w
    BY <1>1, <1>2, <1>3
  <2>2. \E r \in Reqs : NRows(take, r) > 0 /\
          \E c \in Captured(take, r) : RowFor(take, r, c) = n + (w - n)
    BY <2>1, NewRowsAre
  <2> QED BY <2>1, <2>2
<1>6. /\ Len(rows') \in Nat /\ n <= Len(rows') /\ DOMAIN rows' = 1 .. Len(rows') /\ DOMAIN rows \subseteq DOMAIN rows'
      /\ \A w \in DOMAIN rows : rows'[w] = rows[w]
  BY <1>1, <1>2, <1>3
<1>7. rows' \in Seq([token : Reqs \X Nat, layers : SUBSET Layers])
  BY <1>3 DEF Row
<1> QED BY <1>4, <1>5, <1>6, <1>7
LEMMA BuildIs ==
  ASSUME RoutingInv, NEW take \in Batches, Build(take, Records(take))
  PROVE  /\ SlotIsFree /\ Launch(take, idx, Records(take))
         /\ rows' = rows \o NewRows(take)
         /\ mirror' = [mirror EXCEPT ![idx] =
                         [l \in Layers |-> [c \in Cols |->
                            IF c <= Width(Total(take)) THEN Routed(Records(take))[l][c]
                            ELSE mirror[idx][l][c]]]]
         /\ idx' = NextSlot /\ lastKey' = Idle(take) /\ lastWidth' = Width(Total(take))
         /\ cache' = IF kind = "hs" THEN CacheAfter(take) ELSE cache
         /\ UNCHANGED <<kind, prefillLen, preempted, index, buf>>
<1>1. rows' = rows \o NewRows(take)
  BY Zenon DEF Build, NewRows, RowsOf, Counts
<1>2. mirror' = [mirror EXCEPT ![idx] =
                   [l \in Layers |-> [c \in Cols |->
                      IF c <= Width(Total(take)) THEN Routed(Records(take))[l][c]
                      ELSE mirror[idx][l][c]]]]
  BY DEF Build
<1>3. /\ SlotIsFree /\ Launch(take, idx, Records(take))
      /\ idx' = NextSlot /\ lastKey' = Idle(take) /\ lastWidth' = Width(Total(take))
      /\ cache' = IF kind = "hs" THEN CacheAfter(take) ELSE cache
  BY DEF Build
<1>4. UNCHANGED <<kind, prefillLen, preempted, index, buf>>
  BY <1>3 DEF Launch
<1> QED BY <1>1, <1>2, <1>3, <1>4

\* A built step writes the rows it reserved, and nothing queued before it moves.
LEMMA StepBuild ==
  ASSUME RoutingInv, NEW take \in Batches, Build(take, Records(take)), Len(stream) < MaxAhead
  PROVE  RoutingInv'
<1> USE DEF RoutingInv
<1> DEFINE n == Len(stream)
           w == Width(Total(take))
           new == Routed(Records(take))
<1>1. /\ SlotIsFree /\ Launch(take, idx, Records(take))
      /\ rows' = rows \o NewRows(take)
      /\ mirror' = [mirror EXCEPT ![idx] =
                      [l \in Layers |-> [c \in Cols |->
                         IF c <= w THEN new[l][c] ELSE mirror[idx][l][c]]]]
      /\ idx' = NextSlot /\ lastKey' = Idle(take) /\ lastWidth' = w
      /\ cache' = IF kind = "hs" THEN CacheAfter(take) ELSE cache
      /\ UNCHANGED <<kind, prefillLen, preempted, index, buf>>
  BY BuildIs
<1>2. /\ idx \in 0 .. Depth - 1 /\ idx \in NoSlot .. Depth - 1 /\ idx # NoSlot
      /\ w \in Cols /\ 1 .. w \subseteq Cols /\ w \in 0 .. Cap
  <2>1. idx \in 0 .. Depth - 1 /\ w \in 1 .. Cap /\ Cap \in Nat
    BY BatchIs, WidthIs, Sizes DEF Cols, TypeOK
  <2> HIDE DEF w
  <2> QED BY <2>1, Sizes DEF NoSlot, Cols
<1>3. /\ stream' \in Seq(Entry) /\ Len(stream') = n + 1 /\ Len(stream') <= MaxAhead
      /\ DOMAIN stream' = 1 .. n + 1
      /\ \A i \in DOMAIN stream : stream'[i] = stream[i]
      /\ stream'[n + 1] = Queued(take, idx)
      /\ \A i \in DOMAIN stream' :
           Len(stream'[i].tokens) <= stream'[i].pad /\ stream'[i].pad <= stream'[i].width
      /\ computed' \in [Reqs -> Nat] /\ \A r \in Reqs : computed'[r] <= Length(r)
  BY <1>1, <1>2, LaunchIs
<1>4. n \in Nat /\ DOMAIN stream = 1 .. n
  BY StreamIs
<1>5. /\ rows' \in Seq([token : Reqs \X Nat, layers : SUBSET Layers])
      /\ Len(rows') \in Nat /\ Len(rows) <= Len(rows') /\ DOMAIN rows' = 1 .. Len(rows')
      /\ DOMAIN rows \subseteq DOMAIN rows'
      /\ \A x \in DOMAIN rows : rows'[x] = rows[x]
      /\ \A r \in Reqs : NRows(take, r) > 0 => \A c \in Captured(take, r) :
           /\ RowFor(take, r, c) \in DOMAIN rows' /\ RowFor(take, r, c) # Sentinel
           /\ rows'[RowFor(take, r, c)] = [token |-> TokenAt(take)[c], layers |-> RowLayers(r)]
      /\ \A x \in DOMAIN rows' \ DOMAIN rows : \E r \in Reqs : NRows(take, r) > 0 /\
           \E c \in Captured(take, r) : RowFor(take, r, c) = x
  <2>1. rows' = rows \o NewRows(take)
    BY <1>1
  <2> QED BY <2>1, RowsAfter
<1>6. \A l \in Layers : \A c \in Cols : new[l][c] \in 0 .. Len(rows')
  <2> SUFFICES ASSUME NEW l \in Layers, NEW c \in Cols PROVE new[l][c] \in 0 .. Len(rows')
    OBVIOUS
  <2>1. CASE \E r \in Reqs : Writes(take, r, l, c)
    <3>1. PICK r \in Reqs : Writes(take, r, l, c)
      BY <2>1
    <3>2. new[l][c] = RowFor(take, r, c) /\ RowFor(take, r, c) \in DOMAIN rows'
      <4>1. NRows(take, r) > 0 /\ c \in Captured(take, r)
        BY <3>1 DEF Writes
      <4>2. new[l][c] = RowFor(take, r, c)
        BY <3>1, RoutedIs
      <4> HIDE DEF new
      <4> QED BY <1>5, <4>1, <4>2
    <3> HIDE DEF new
    <3> QED BY <1>5, <3>2
  <2>2. CASE \A r \in Reqs : ~Writes(take, r, l, c)
    <3>1. new[l][c] = 0
      BY <2>2, RoutedIs DEF Sentinel
    <3> HIDE DEF new
    <3> QED BY <1>5, <3>1
  <2> QED BY <2>1, <2>2
<1>7. mirror' \in [0 .. Depth - 1 -> [Layers -> [Cols -> 0 .. Len(rows')]]]
      /\ index \in [Layers -> [Cols -> 0 .. Len(rows')]]
  <2>1. 0 .. Len(rows) \subseteq 0 .. Len(rows')
    BY <1>5, StreamIs
  <2>2. /\ mirror \in [0 .. Depth - 1 -> [Layers -> [Cols -> 0 .. Len(rows)]]]
        /\ index \in [Layers -> [Cols -> 0 .. Len(rows)]]
    BY DEF TypeOK
  <2>3. /\ mirror \in [0 .. Depth - 1 -> [Layers -> [Cols -> 0 .. Len(rows')]]]
        /\ index \in [Layers -> [Cols -> 0 .. Len(rows')]]
    BY <2>1, <2>2
  <2> DEFINE slot == [l \in Layers |-> [c \in Cols |-> IF c <= w THEN new[l][c] ELSE mirror[idx][l][c]]]
  <2>4. slot \in [Layers -> [Cols -> 0 .. Len(rows')]]
    <3> HIDE DEF new, w
    <3> QED BY <1>2, <1>6, <2>3
  <2> HIDE DEF slot
  <2> QED BY <1>1, <2>3, <2>4 DEF slot
<1>8. NextSlot \in 0 .. Depth - 1
  BY <1>2, Sizes DEF NextSlot
<1>9. TypeOK'
  <2>1. lastKey' \in BOOLEAN /\ lastWidth' \in 0 .. Cap /\ idx' \in 0 .. Depth - 1
    BY <1>1, <1>2, <1>8 DEF Idle
  <2> HIDE DEF w, n, new
  <2> QED BY <1>1, <1>3, <1>5, <1>7, <2>1 DEF TypeOK, Entry
<1>10. CacheInv'
  <2>1. \A r : RowLayers(r)' = RowLayers(r)
    BY <1>1 DEF RowLayers
  <2>2. CASE kind = "hs"
    <3>1. cache' = CacheAfter(take)
      BY <1>1, <2>2
    <3> QED BY <2>1, <3>1, CacheAfterIs DEF CacheInv
  <2>3. CASE kind # "hs"
    <3>1. cache' = cache
      BY <1>1, <2>3
    <3> QED BY <2>1, <3>1 DEF CacheInv
  <2> QED BY <2>2, <2>3
<1>11. /\ \A i \in DOMAIN stream : \A l \in Layers : \A c \in Cols :
            Place(i, l, c)' = Place(i, l, c)
       /\ StreamInv'
  <2>1. \A i \in DOMAIN stream : stream[i].slot # NoSlot =>
          mirror'[stream[i].slot] = mirror[stream[i].slot]
    <3> SUFFICES ASSUME NEW i \in DOMAIN stream, stream[i].slot # NoSlot
                 PROVE  mirror'[stream[i].slot] = mirror[stream[i].slot]
      OBVIOUS
    <3>1. stream[i].slot # idx
      BY <1>1 DEF SlotIsFree
    <3>2. stream[i].slot \in 0 .. Depth - 1
      BY StreamIs, Sizes DEF NoSlot
    <3>3. mirror \in [0 .. Depth - 1 -> [Layers -> [Cols -> 0 .. Len(rows)]]]
      BY DEF TypeOK
    <3> HIDE DEF w, new
    <3> QED BY <1>1, <3>1, <3>2, <3>3
  <2> QED BY <1>1, <1>2, <2>1, LaunchKeeps
<1>12. PICK m \in Nat : m = n + 1
  BY <1>4
<1>13. /\ stream'[m].width = w /\ stream'[m].pad <= w /\ stream'[m].pad \in Cols
       /\ stream'[m].tokens = TokenAt(take) /\ stream'[m].slot = idx /\ m \in DOMAIN stream'
  BY <1>2, <1>3, <1>4, <1>12, BatchIs, WidthIs DEF Queued
<1>14. ASSUME NEW l \in Layers, NEW c \in 1 .. w
       PROVE  Place(m, l, c)' = new[l][c]
  <2>1. Place(m, l, c)' = mirror'[idx][l][c]
    BY <1>2, <1>13 DEF Place
  <2>2. mirror'[idx] = [k \in Layers |-> [d \in Cols |-> IF d <= w THEN new[k][d] ELSE mirror[idx][k][d]]]
    <3>1. mirror \in [0 .. Depth - 1 -> [Layers -> [Cols -> 0 .. Len(rows)]]]
      BY DEF TypeOK
    <3> HIDE DEF w, new
    <3> QED BY <1>1, <1>2, <3>1
  <2>3. c \in Cols /\ c <= w
    <3> HIDE DEF w
    <3> QED BY <1>2 DEF Cols
  <2> HIDE DEF w, new
  <2> QED BY <2>1, <2>2, <2>3
<1>15. KeyInv'
  <2>1. stream' # <<>> /\ Len(stream') = m
    BY <1>3, <1>4, <1>12
  <2>2. lastKey' => Quiet(Len(stream))'
    <3> SUFFICES ASSUME lastKey' PROVE Quiet(Len(stream))'
      OBVIOUS
    <3>1. Idle(take)
      BY <1>1
    <3>2. \A l \in Layers : \A c \in Cols : new[l][c] = Sentinel
      BY <3>1, IdleIs, RoutedIs DEF Writes
    <3>3. \A l \in Layers : \A c \in 1 .. w : Place(m, l, c)' = Sentinel
      BY <1>2, <1>14, <3>2
    <3> QED BY <1>13, <2>1, <3>3 DEF Quiet
  <2> QED BY <1>1, <1>13, <2>1, <2>2 DEF KeyInv
<1>16. KeysAreComplete'
  <2>1. /\ last'.tokens = TokenAt(take) /\ last'.prefill = { r \in Reqs : Prefilling(r) }
        /\ last'.recs = Records(take)
    BY <1>1 DEF Launch
  <2>2. DOMAIN TokenAt(take) = 1 .. Total(take)
        /\ \A c \in 1 .. Total(take) :
             TokenAt(take)[c][1] \in Reqs /\ c \in Span(take, TokenAt(take)[c][1])
    BY TokensAre
  <2>3. \A r : RowLayers(r)' = RowLayers(r)
    BY <1>1 DEF RowLayers
  <2>4. ASSUME kind = "qk", NEW r \in Reqs, NEW c \in Span(take, r),
               Asks[r].asks, Prefilling(r) \/ Asks[r].hooks # "prefill", RowLayers(r) # {}
        PROVE  \E rec \in Records(take) : rec.req = r /\ c \in rec.cols /\ rec.layers = RowLayers(r)
    <3>1. take[r] \in Nat /\ Before(take, r) \in Nat
      BY BatchIs, WithinTotal
    <3>2. take[r] > 0
      BY <3>1 DEF Span
    <3>3. ~Skips(take, r) /\ ~Tail1(r)
      BY <2>4 DEF Skips, BusyIn, Tail1
    <3>4. NRows(take, r) = take[r]
      BY <3>2, <3>3, CountIs
    <3>5. Captured(take, r) = Span(take, r)
      BY <3>3 DEF Captured, FirstCol, LastCol, Span
    <3>6. /\ RecordFor(take, r) \in Records(take) /\ RecordFor(take, r).req = r
          /\ RecordFor(take, r).layers = RowLayers(r)
          /\ RecordFor(take, r).cols = Captured(take, r)
      BY <3>2, <3>4, RecordsAre
    <3> QED BY <3>5, <3>6
  <2>5. \A r \in Reqs : r \in last'.prefill <=> Prefilling(r)
    BY <2>1
  <2> SUFFICES ASSUME kind = "qk", NEW c \in 1 .. Total(take)
               PROVE  LET r == TokenAt(take)[c][1]
                      IN Asks[r].asks /\ (r \in last'.prefill \/ Asks[r].hooks # "prefill")
                           /\ RowLayers(r) # {}
                         => \E rec \in Records(take) :
                              rec.req = r /\ c \in rec.cols /\ rec.layers = RowLayers(r)
    <3>1. kind' = kind
      BY <1>1
    <3> HIDE DEF new, w, n
    <3> QED BY <2>1, <2>2, <2>3, <3>1 DEF KeysAreComplete
  <2> DEFINE r == TokenAt(take)[c][1]
  <2>6. r \in Reqs /\ c \in Span(take, r)
    BY <2>2
  <2> HIDE DEF r
  <2>7. Asks[r].asks /\ (r \in last'.prefill \/ Asks[r].hooks # "prefill") /\ RowLayers(r) # {}
        => \E rec \in Records(take) : rec.req = r /\ c \in rec.cols /\ rec.layers = RowLayers(r)
    BY <2>4, <2>5, <2>6
  <2> QED BY <2>7 DEF r
<1>17. ASSUME NEW i \in DOMAIN stream', NEW l \in Layers, NEW c \in 1 .. stream'[i].pad,
              Place(i, l, c)' # Sentinel
       PROVE  /\ c \in DOMAIN stream'[i].tokens /\ Place(i, l, c)' \in DOMAIN rows'
              /\ l \in rows'[Place(i, l, c)'].layers
              /\ rows'[Place(i, l, c)'].token = stream'[i].tokens[c]
  <2>1. i \in DOMAIN stream \/ i = m
    BY <1>3, <1>4, <1>12
  <2>2. CASE i \in DOMAIN stream
    <3>1. stream'[i] = stream[i] /\ c \in 1 .. stream[i].pad /\ c \in Cols
      BY <1>3, <2>2, WidthCols
    <3>2. Place(i, l, c)' = Place(i, l, c)
      BY <1>11, <2>2, <3>1
    <3>3. /\ c \in DOMAIN stream[i].tokens /\ Place(i, l, c) \in DOMAIN rows
          /\ l \in rows[Place(i, l, c)].layers
          /\ rows[Place(i, l, c)].token = stream[i].tokens[c]
      BY <1>17, <2>2, <3>1, <3>2 DEF PlaceInv
    <3> QED BY <1>5, <3>1, <3>2, <3>3
  <2>3. CASE i = m
    <3>1. c \in 1 .. w /\ c \in Cols
      <4>1. w \in 1 .. Cap /\ Cap \in Nat /\ stream'[m].pad <= w /\ stream'[m].pad \in 1 .. Cap
        BY <1>2, <1>13, Sizes DEF Cols
      <4> HIDE DEF w
      <4> QED BY <2>3, <4>1 DEF Cols
    <3>2. Place(i, l, c)' = new[l][c]
      BY <1>14, <2>3, <3>1
    <3>3. PICK r \in Reqs : Writes(take, r, l, c)
      BY <1>17, <3>1, <3>2, RoutedIs
    <3>4. new[l][c] = RowFor(take, r, c) /\ l \in RowLayers(r) /\ c \in Captured(take, r)
          /\ NRows(take, r) > 0
      BY <3>1, <3>3, RoutedIs DEF Writes
    <3>5. /\ RowFor(take, r, c) \in DOMAIN rows'
          /\ rows'[RowFor(take, r, c)] = [token |-> TokenAt(take)[c], layers |-> RowLayers(r)]
      BY <1>5, <3>4
    <3>6. c \in DOMAIN TokenAt(take)
      BY <3>4, CapturedIs, TokensAre
    <3> HIDE DEF new
    <3> QED BY <1>13, <2>3, <3>2, <3>4, <3>5, <3>6
  <2> QED BY <2>1, <2>2, <2>3
<1>18. ASSUME NEW v \in DOMAIN rows', NEW l \in rows'[v].layers
       PROVE  \/ v \in DOMAIN buf[l]
              \/ \E i \in DOMAIN stream' : \E c \in DOMAIN stream'[i].tokens : Place(i, l, c)' = v
  <2>1. CASE v \in DOMAIN rows
    <3>1. l \in rows[v].layers /\ l \in Layers
      BY <1>5, <2>1, RowIs
    <3>2. CASE v \notin DOMAIN buf[l]
      <4>1. PICK i \in DOMAIN stream : \E c \in DOMAIN stream[i].tokens : Place(i, l, c) = v
        BY <2>1, <3>1, <3>2 DEF PlaceInv
      <4>2. PICK c \in DOMAIN stream[i].tokens : Place(i, l, c) = v
        BY <4>1
      <4>3. i \in DOMAIN stream' /\ stream'[i] = stream[i] /\ c \in Cols
        BY <1>3, <1>4, WidthCols
      <4>4. Place(i, l, c)' = v
        BY <1>11, <3>1, <4>2, <4>3
      <4> QED BY <4>3, <4>4
    <3> QED BY <3>2
  <2>2. CASE v \notin DOMAIN rows
    <3>1. PICK r \in Reqs : NRows(take, r) > 0 /\ \E c \in Captured(take, r) : RowFor(take, r, c) = v
      BY <1>5, <2>2
    <3>2. PICK c \in Captured(take, r) : RowFor(take, r, c) = v
      BY <3>1
    <3>3. rows'[v] = [token |-> TokenAt(take)[c], layers |-> RowLayers(r)]
      BY <1>5, <3>1, <3>2
    <3>4. l \in RowLayers(r) /\ l \in Layers
      BY <3>3, LayersOfRow
    <3>5. c \in DOMAIN TokenAt(take) /\ c \in 1 .. Total(take)
      BY <3>1, CapturedIs, TokensAre
    <3>6. c \in Cols /\ c \in 1 .. w
      <4>1. Total(take) \in Nat /\ Total(take) <= w /\ w \in Cols
        BY BatchIs, WidthIs, Sizes DEF Cols
      <4>2. c \in 1 .. w
        <5> HIDE DEF w
        <5> QED BY <3>5, <4>1, Sizes DEF Cols
      <4> QED BY <1>2, <4>2
    <3>7. new[l][c] = v
      BY <3>1, <3>2, <3>4, <3>6, RoutedIs DEF Writes
    <3>8. Place(m, l, c)' = v
      BY <1>14, <3>4, <3>6, <3>7
    <3> QED BY <1>13, <3>5, <3>8
  <2> QED BY <2>1, <2>2
<1>19. PlaceInv'
  <2>1. \A l \in Layers : \A v \in DOMAIN buf[l] :
          v \in DOMAIN rows' /\ l \in rows'[v].layers /\ buf[l][v] = rows'[v].token
    BY <1>5 DEF PlaceInv
  <2>2. buf' = buf
    BY <1>1
  <2> QED BY <1>17, <1>18, <2>1, <2>2 DEF PlaceInv
<1> QED BY <1>9, <1>10, <1>11, <1>15, <1>16, <1>19

LEMMA StepRoutes ==
  ASSUME RoutingInv, Next
  PROVE  RoutingInv'
<1>1. CASE \E take \in Batches : Len(stream) < MaxAhead /\ (Reuse(take) \/ Build(take, Records(take)))
  BY <1>1, StepReuse, StepBuild
<1>2. CASE \E r \in Reqs : Preempt(r)
  BY <1>2, StepPreempt
<1> QED BY <1>1, <1>2, StepUpload, StepForward DEF Next

\* Whatever the host has queued, the rows that the device will still write and
\* the rows it has written are those the records name, and slots are apart.
THEOREM RoutingIsInvariant == Spec => []RoutingInv
<1>1. ASSUME RoutingInv, UNCHANGED vars PROVE RoutingInv'
  <2> USE <1>1 DEF vars, host, RoutingInv
  <2>1. TypeOK'
    BY DEF TypeOK
  <2>2. CacheInv' /\ KeysAreComplete'
    BY DEF CacheInv, KeysAreComplete, RowLayers
  <2>3. StreamInv' /\ KeyInv'
    BY DEF StreamInv, KeyInv, Quiet, Place
  <2>4. PlaceInv'
    BY DEF PlaceInv, Place
  <2> QED BY <2>1, <2>2, <2>3, <2>4
<1>2. RoutingInv /\ [Next]_vars => RoutingInv'
  BY <1>1, StepRoutes
<1> QED BY InitRouting, <1>2, PTL DEF Spec
-----------------------------------------------------------------------------
(* The records say what was asked. *)

Claimed(rec) == IF kind = "hs" THEN rec.cols ELSE rec.queries

\* What the documentation promises of column c of request r.
Asked(take, r, l, c) ==
  /\ Asks[r].asks /\ l \in RowLayers(r)
  /\ Asks[r].hooks \in (IF Prefilling(r) THEN {"prefill", "both"} ELSE {"decode", "both"})
  /\ Asks[r].mode = "last_token" => Final(take, r) /\ c = LastCol(take, r)

LEMMA OneSpan ==
  ASSUME TypeOK, NEW take \in Batches, NEW r \in Reqs, NEW s \in Reqs, NEW c \in Span(take, r),
         c \in Span(take, s)
  PROVE  r = s
<1>1. TokenAt(take)[c] = <<r, computed[r] + c - Before(take, r)>>
      /\ TokenAt(take)[c] = <<s, computed[s] + c - Before(take, s)>>
  BY TokensAre
<1> QED BY <1>1

\* The record a request gets claims its columns exactly when it asked for them.
LEMMA ClaimOf ==
  ASSUME TypeOK, CacheInv, NEW take \in Batches, NEW r \in Reqs, NEW l \in Layers,
         NEW c \in Span(take, r)
  PROVE  /\ Asked(take, r, l, c) => NRows(take, r) > 0
         /\ NRows(take, r) > 0 =>
              /\ Claimed(RecordFor(take, r)) \subseteq Span(take, r)
              /\ RecordFor(take, r) \in Records(take) /\ RecordFor(take, r).layers = RowLayers(r)
              /\ Asked(take, r, l, c)
                   <=> c \in Claimed(RecordFor(take, r)) /\ l \in RowLayers(r)
<1> DEFINE rec == RecordFor(take, r)
<1>1. /\ take[r] \in Nat /\ Before(take, r) \in Nat /\ c \in Nat
      /\ c >= Before(take, r) + 1 /\ c <= Before(take, r) + take[r]
      /\ take[r] > 0
  BY BatchIs, WithinTotal DEF Span
<1>2. Asked(take, r, l, c) => ~Skips(take, r)
  BY DEF Asked, Skips, BusyIn
<1>3. Asked(take, r, l, c) => NRows(take, r) > 0
  BY <1>1, <1>2, CountIs
<1>4. ASSUME NRows(take, r) > 0
      PROVE  /\ rec \in Records(take) /\ rec.layers = RowLayers(r) /\ rec.cols = Captured(take, r)
             /\ rec.queries = IF kind = "hs" \/ (Asks[r].hooks = "decode" /\ Prefilling(r))
                                 \/ (Asks[r].mode = "last_token" /\ ~Final(take, r)) THEN {}
                              ELSE IF Asks[r].mode = "all_tokens" THEN Span(take, r)
                              ELSE {LastCol(take, r)}
             /\ ~Skips(take, r) /\ Captured(take, r) \subseteq Span(take, r)
             /\ LastCol(take, r) \in Span(take, r)
  <2>1. Len(rows) + Before(Counts(take), r) \in Nat
    <3>1. Counts(take) \in [Reqs -> Nat] /\ Len(rows) \in Nat
      BY CountsAre, StreamIs
    <3> QED BY <3>1, WithinTotal
  <2> DEFINE start == Len(rows) + Before(Counts(take), r)
             other == Record(take, start, r)
  <2>2. /\ other.queries = IF kind = "hs" \/ (Asks[r].hooks = "decode" /\ Prefilling(r))
                              \/ (Asks[r].mode = "last_token" /\ ~Final(take, r)) THEN {}
                           ELSE IF Asks[r].mode = "all_tokens" THEN Span(take, r)
                           ELSE {LastCol(take, r)}
    <3>1. start \in Nat
      BY <2>1
    <3> HIDE DEF start
    <3> QED BY <1>4, <3>1, RecordIs
  <2>5. rec = other
    BY DEF RecordFor
  <2> HIDE DEF other
  <2>3. rec \in Records(take) /\ rec.layers = RowLayers(r) /\ rec.cols = Captured(take, r)
    BY <1>4, RecordsAre
  <2>4. ~Skips(take, r) /\ Captured(take, r) \subseteq Span(take, r)
        /\ LastCol(take, r) \in Span(take, r)
    BY <1>4, CapturedIs
  <2> HIDE DEF rec
  <2> QED BY <2>2, <2>3, <2>4, <2>5
<1>5. ASSUME NRows(take, r) > 0
      PROVE  /\ Claimed(rec) \subseteq Span(take, r)
             /\ Asked(take, r, l, c) <=> c \in Claimed(rec) /\ l \in RowLayers(r)
  <2> HIDE DEF rec
  <2>1. /\ Asks[r].asks /\ Asks[r].hooks \in {"prefill", "decode", "both"}
        /\ Asks[r].mode \in {"last_token", "all_tokens"}
        /\ Asks[r].hooks = "prefill" => Prefilling(r)
        /\ Asks[r].hooks = "decode" /\ Prefilling(r) => kind # "hs"
        /\ kind = "hs" /\ Asks[r].mode = "last_token" => Final(take, r)
    BY <1>4, <1>5, Sizes DEF Skips, BusyIn
  <2>2. CASE kind = "hs"
    <3>1. Claimed(rec) = Captured(take, r)
      BY <1>4, <1>5, <2>2 DEF Claimed
    <3>2. c \in Captured(take, r) <=> (Asks[r].mode = "last_token" => c = LastCol(take, r))
      <4>1. CASE Asks[r].mode = "last_token"
        BY <1>1, <2>2, <4>1 DEF Captured, FirstCol, LastCol, Tail1
      <4>2. CASE Asks[r].mode # "last_token"
        BY <1>1, <2>2, <4>2 DEF Captured, FirstCol, LastCol, Tail1
      <4> QED BY <4>1, <4>2
    <3> QED BY <1>4, <1>5, <2>1, <2>2, <3>1, <3>2 DEF Asked
  <2>3. CASE kind # "hs"
    <3>1. Claimed(rec) = IF (Asks[r].hooks = "decode" /\ Prefilling(r))
                            \/ (Asks[r].mode = "last_token" /\ ~Final(take, r)) THEN {}
                         ELSE IF Asks[r].mode = "all_tokens" THEN Span(take, r)
                         ELSE {LastCol(take, r)}
      BY <1>4, <1>5, <2>3 DEF Claimed
    <3>2. Claimed(rec) \subseteq Span(take, r)
      BY <1>4, <1>5, <3>1
    <3> QED BY <2>1, <2>3, <3>1, <3>2 DEF Asked
  <2> QED BY <2>2, <2>3
<1> QED BY <1>3, <1>4, <1>5

LEMMA ClaimsAreAsked ==
  ASSUME TypeOK, CacheInv, NEW take \in Batches, NEW s, Launch(take, s, Records(take)),
         kind' = kind
  PROVE  RecordsAreWhatWasAsked'
<1> DEFINE token == TokenAt(take)
           claims == UNION { Claimed(rec) \X rec.layers : rec \in Records(take) }
<1>1. /\ last'.tokens = token /\ last'.prefill = { r \in Reqs : Prefilling(r) }
      /\ last'.final = { r \in Batch(take) : Final(take, r) } /\ last'.recs = Records(take)
  BY DEF Launch
<1>2. /\ DOMAIN token = 1 .. Total(take)
      /\ \A c \in 1 .. Total(take) : token[c][1] \in Reqs /\ c \in Span(take, token[c][1])
      /\ \A r \in Reqs : \A c \in Span(take, r) : c \in 1 .. Total(take) /\ token[c][1] = r
  BY TokensAre
<1> HIDE DEF token
<1>3. ASSUME NEW c \in 1 .. Total(take), NEW l \in Layers
      PROVE  <<c, l>> \in Promised' <=> Asked(take, token[c][1], l, c)
  <2> PICK r \in Reqs : r = token[c][1]
    BY <1>2
  <2>1. c \in Span(take, r)
    BY <1>2
  <2>2. /\ take[r] \in Nat /\ Before(take, r) \in Nat /\ c \in Nat /\ take[r] > 0
        /\ c <= LastCol(take, r) /\ LastCol(take, r) \in Span(take, r)
        /\ LastCol(take, r) \in Nat /\ \A d \in Span(take, r) : d \in Nat /\ d <= LastCol(take, r)
    <3>1. take[r] \in Nat /\ Before(take, r) \in Nat
      BY <2>1, BatchIs, WithinTotal
    <3> QED BY <2>1, <3>1 DEF Span, LastCol
  <2>3. (\A d \in 1 .. Total(take) : d > c => token[d][1] # r) <=> c = LastCol(take, r)
    <3>1. ASSUME \A d \in 1 .. Total(take) : d > c => token[d][1] # r
          PROVE  c = LastCol(take, r)
      <4>1. LastCol(take, r) \in 1 .. Total(take) /\ token[LastCol(take, r)][1] = r
        BY <1>2, <2>1, <2>2
      <4> QED BY <2>2, <3>1, <4>1
    <3>2. ASSUME c = LastCol(take, r), NEW d \in 1 .. Total(take), d > c
          PROVE  token[d][1] # r
      <4>1. token[d][1] = r => d \in Span(take, r)
        BY <1>2
      <4> QED BY <2>2, <3>2, <4>1
    <3> QED BY <3>1, <3>2
  <2>4. (r \in last'.prefill <=> Prefilling(r)) /\ (r \in last'.final <=> Final(take, r))
    BY <1>1, <2>1, <2>2 DEF Batch
  <2>5. RowLayers(r)' = RowLayers(r)
    BY DEF RowLayers
  <2>6. <<c, l>> \in Promised'
          <=> /\ Asks[r].asks /\ l \in RowLayers(r)'
              /\ Asks[r].hooks \in (IF r \in last'.prefill THEN {"prefill", "both"}
                                    ELSE {"decode", "both"})
              /\ Asks[r].mode = "last_token" =>
                   /\ r \in last'.final
                   /\ \A d \in DOMAIN last'.tokens : d > c => last'.tokens[d][1] # r
    BY <1>1, <1>2 DEF Promised
  <2>7. <<c, l>> \in Promised' <=> Asked(take, r, l, c)
    BY <1>1, <1>2, <2>3, <2>4, <2>5, <2>6 DEF Asked
  <2> QED BY <2>7
<1>4. ASSUME NEW c \in 1 .. Total(take), NEW l \in Layers
      PROVE  <<c, l>> \in claims <=> Asked(take, token[c][1], l, c)
  <2> DEFINE r == token[c][1]
  <2>1. r \in Reqs /\ c \in Span(take, r)
    BY <1>2
  <2> HIDE DEF r
  <2>2. <<c, l>> \in claims <=> \E rec \in Records(take) : c \in Claimed(rec) /\ l \in rec.layers
    OBVIOUS
  <2>3. Asked(take, r, l, c) => \E rec \in Records(take) : c \in Claimed(rec) /\ l \in rec.layers
    BY <2>1, ClaimOf
  <2>4. ASSUME NEW rec \in Records(take), c \in Claimed(rec), l \in rec.layers
        PROVE  Asked(take, r, l, c)
    <3>1. PICK q \in Reqs : NRows(take, q) > 0 /\ rec = RecordFor(take, q)
      BY RecordsAre
    <3>2. NRows(take, q) > 0 => \E d \in Nat : d \in Span(take, q)
      <4>1. take[q] \in Nat /\ Before(take, q) \in Nat /\ take[q] > 0
        BY <3>1, BatchIs, WithinTotal, CapturedIs
      <4>2. Before(take, q) + 1 \in Span(take, q)
        BY <4>1 DEF Span
      <4> QED BY <4>1, <4>2
    <3>3. c \in Span(take, q) /\ rec.layers = RowLayers(q)
      BY <2>4, <3>1, <3>2, ClaimOf
    <3>4. q = r
      BY <2>1, <3>3, OneSpan
    <3> QED BY <2>1, <2>4, <3>1, <3>3, <3>4, ClaimOf
  <2>5. <<c, l>> \in claims <=> Asked(take, r, l, c)
    BY <2>2, <2>3, <2>4
  <2> QED BY <2>5 DEF r
<1>5. Promised' \subseteq (1 .. Total(take)) \X Layers
  BY <1>1, <1>2 DEF Promised
<1>6. claims \subseteq (1 .. Total(take)) \X Layers
  <2> SUFFICES ASSUME NEW rec \in Records(take)
               PROVE  Claimed(rec) \subseteq 1 .. Total(take) /\ rec.layers \subseteq Layers
    OBVIOUS
  <2>1. PICK q \in Reqs : NRows(take, q) > 0 /\ rec = RecordFor(take, q)
    BY RecordsAre, Zenon
  <2>2. PICK d : d \in Span(take, q)
    <3>1. take[q] \in Nat /\ Before(take, q) \in Nat /\ take[q] > 0
      BY <2>1, BatchIs, WithinTotal, CapturedIs
    <3>2. Before(take, q) + 1 \in Span(take, q)
      BY <3>1 DEF Span
    <3> QED BY <3>2
  <2>3. 1 \in Layers
    BY Sizes DEF Layers
  <2>4. Claimed(rec) \subseteq Span(take, q) /\ rec.layers = RowLayers(q)
    <3>1. PICK l \in Layers : TRUE
      BY <2>3
    <3>2. /\ Claimed(RecordFor(take, q)) \subseteq Span(take, q)
          /\ RecordFor(take, q).layers = RowLayers(q)
      BY <2>1, <2>2, <3>1, ClaimOf
    <3> QED BY <2>1, <3>2
  <2>5. Span(take, q) \subseteq 1 .. Total(take)
    <3>1. \A c \in Span(take, q) : c \in 1 .. Total(take)
      BY <2>1, TokensAre
    <3> QED BY <3>1
  <2> QED BY <2>4, <2>5, LayersOfRow
<1>7. Promised' = claims
  <2> HIDE DEF claims
  <2>1. ASSUME NEW x \in (1 .. Total(take)) \X Layers PROVE x \in Promised' <=> x \in claims
    <3>1. PICK c \in 1 .. Total(take), l \in Layers : x = <<c, l>>
      OBVIOUS
    <3> QED BY <1>3, <1>4, <3>1
  <2> QED BY <1>5, <1>6, <2>1
<1>8. claims = UNION { (IF kind' = "hs" THEN rec.cols ELSE rec.queries) \X rec.layers :
                       rec \in last'.recs }
  BY <1>1 DEF Claimed
<1> QED BY <1>7, <1>8 DEF RecordsAreWhatWasAsked

LEMMA StepClaims ==
  ASSUME RoutingInv, RecordsAreWhatWasAsked, [Next]_vars
  PROVE  RecordsAreWhatWasAsked'
<1> USE DEF RoutingInv
<1>1. ASSUME UNCHANGED <<kind, last>> PROVE RecordsAreWhatWasAsked'
  <2>1. kind' = kind /\ last' = last
    BY <1>1
  <2>2. Promised' = Promised
    BY <2>1, Zenon DEF Promised, RowLayers
  <2> QED BY <2>1, <2>2, Zenon DEF RecordsAreWhatWasAsked
<1>2. ASSUME NEW take \in Batches, Reuse(take) PROVE RecordsAreWhatWasAsked'
  <2>1. Launch(take, NoSlot, {}) /\ kind' = kind /\ Idle(take)
    BY <1>2 DEF Reuse, MayReuse, Launch
  <2>2. Records(take) = {}
    BY <2>1, IdleIs, RecordsAre
  <2> QED BY <2>1, <2>2, ClaimsAreAsked
<1>3. ASSUME NEW take \in Batches, Build(take, Records(take)) PROVE RecordsAreWhatWasAsked'
  BY <1>3, BuildIs, ClaimsAreAsked
<1>4. CASE \/ UNCHANGED vars \/ RunUpload \/ RunForward \/ \E r \in Reqs : Preempt(r)
  BY <1>1, <1>4 DEF vars, host, RunUpload, RunForward, Preempt
<1> QED BY <1>2, <1>3, <1>4 DEF Next

\* For any requests and any steps, with the decode cache and the idle key at
\* work: what a step's records claim is what its requests asked for.
THEOREM RecordsTrue == Spec => []RecordsAreWhatWasAsked
<1>1. Init => RecordsAreWhatWasAsked
  BY DEF Init, NoStep, RecordsAreWhatWasAsked, Promised
<1>2. RoutingInv /\ RecordsAreWhatWasAsked /\ [Next]_vars => RecordsAreWhatWasAsked'
  BY StepClaims
<1> QED BY <1>1, <1>2, RoutingIsInvariant, PTL DEF Spec

\* A row the device has written holds its record's token, and a row it has not
\* written is one that a step still queued will write.
THEOREM BufferTrue == Spec => []BufferHoldsTheRecords
<1>1. RoutingInv => BufferHoldsTheRecords
  <2> SUFFICES ASSUME RoutingInv PROVE BufferHoldsTheRecords
    OBVIOUS
  <2> USE DEF RoutingInv
  <2>1. ASSUME NEW w \in DOMAIN rows, NEW l \in rows[w].layers, w \notin DOMAIN buf[l]
        PROVE  rows[w].token \in Pending
    <3>1. PICK i \in DOMAIN stream : \E c \in DOMAIN stream[i].tokens : Place(i, l, c) = w
      BY <2>1 DEF PlaceInv
    <3>2. PICK c \in DOMAIN stream[i].tokens : Place(i, l, c) = w
      BY <3>1
    <3>3. l \in Layers /\ c \in 1 .. stream[i].pad /\ w # Sentinel
      BY RowIs, WidthCols, StreamIs DEF Sentinel
    <3>4. rows[w].token = stream[i].tokens[c]
      BY <3>2, <3>3 DEF PlaceInv
    <3> QED BY <3>4 DEF Pending
  <2>2. \A w \in DOMAIN rows : \A l \in rows[w].layers : l \in Layers
    BY RowIs
  <2> QED BY <2>1, <2>2 DEF BufferHoldsTheRecords, PlaceInv
<1> QED BY <1>1, RoutingIsInvariant, PTL

=============================================================================
