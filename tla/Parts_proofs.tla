---------------------------- MODULE Parts_proofs ----------------------------
(***************************************************************************)
(* What the parts an engine is put together from guarantee before and      *)
(* beside the capture itself, for every size and every environment: the    *)
(* split and the merge of TPShard, the choice of DeliverySelector, the     *)
(* sizes of ApertureSizing, the probing of DiskFlushProbe, the lock of     *)
(* RunDirLock, and the steering of SteerRouting.                           *)
(***************************************************************************)
EXTENDS TPShard, DeliverySelector, ApertureSizing, DiskFlushProbe, RunDirLock,
        SteerRouting, SequenceTheorems, FiniteSetTheorems, TLAPS

-----------------------------------------------------------------------------
(***************************************************************************)
(* TPShard: what the split and the merge guarantee for every number of     *)
(* ranks, heads and layers.                                                *)
(***************************************************************************)

LEMMA Quotient == ASSUME NEW m \in Nat \ {0}, NEW l \in Nat
                  PROVE  /\ l % m \in 0 .. m - 1
                         /\ l \div m \in Nat
                         /\ l = m * (l \div m) + (l % m)
OBVIOUS

LEMMA MultipleOrder == ASSUME NEW m \in Nat, NEW a \in Nat, NEW b \in Nat, a <= b
                       PROVE  m * a <= m * b
OBVIOUS

LEMMA FactorOrder == ASSUME NEW m \in Nat \ {0}, NEW a \in Nat, NEW b \in Nat, m * a < m * b
                     PROVE  a < b
<1>1. CASE b <= a
  BY <1>1, MultipleOrder
<1> QED BY <1>1

LEMMA MultipleBound == ASSUME NEW m \in Nat \ {0}, NEW k \in Int, k >= 1 PROVE m * k >= m
OBVIOUS

\* A quotient and a remainder are determined by where the number lies.
LEMMA QuotientIs == ASSUME NEW m \in Nat \ {0}, NEW a \in Nat, NEW s \in 0 .. m - 1
                    PROVE  /\ (m * a + s) \div m = a
                           /\ (m * a + s) % m = s
<1> DEFINE l == m * a + s
           b == l \div m
           t == l % m
<1>1. l \in Nat /\ b \in Nat /\ t \in 0 .. m - 1 /\ l = m * b + t
  BY Quotient
<1>2. m * (a - b) = t - s
  BY <1>1
<1> HIDE DEF b, t
<1>3. CASE a - b >= 1
  BY <1>1, <1>2, <1>3, MultipleBound
<1>4. CASE b - a >= 1
  <2>1. m * (b - a) = s - t
    BY <1>1, <1>2
  <2> QED BY <1>1, <1>4, <2>1, MultipleBound
<1>5. CASE a = b
  BY <1>1, <1>2, <1>5
<1> QED BY <1>1, <1>3, <1>4, <1>5 DEF b, t

LEMMA WholeQuotient == ASSUME NEW m \in Nat \ {0}, NEW l \in Nat, l % m = 0
                       PROVE  l = m * (l \div m) /\ l \div m \in Nat
BY Quotient

LEMMA CountTo == ASSUME NEW m \in Nat
                 PROVE  IsFiniteSet(0 .. m - 1) /\ Cardinality(0 .. m - 1) = m
<1>1. /\ IsFiniteSet(0 .. m - 1)
      /\ Cardinality(0 .. m - 1) = IF 0 > m - 1 THEN 0 ELSE m - 1 - 0 + 1
  BY FS_Interval
<1> QED BY <1>1

LEMMA CountFromOne == ASSUME NEW m \in Nat
                      PROVE  IsFiniteSet(1 .. m) /\ Cardinality(1 .. m) = m
<1>1. IsFiniteSet(1 .. m) /\ Cardinality(1 .. m) = IF 1 > m THEN 0 ELSE m - 1 + 1
  BY FS_Interval
<1> QED BY <1>1

-----------------------------------------------------------------------------
(* Queries and keys. *)

LEMMA Widths ==
  ASSUME NEW g \in Geometries, GeometryAccepted(g)
  PROVE  /\ g.tp \in Nat \ {0} /\ g.hq \in Nat \ {0} /\ g.hkv \in Nat \ {0}
         /\ LocalQ(g) \in Nat \ {0} /\ g.hq = g.tp * LocalQ(g)
         /\ LocalKV(g) \in Nat \ {0} /\ Replicas(g) \in Nat \ {0}
         /\ g.hkv * Replicas(g) = g.tp * LocalKV(g)
<1>1. g.tp \in Nat \ {0} /\ g.hq \in Nat \ {0} /\ g.hkv \in Nat \ {0}
  BY DEF Geometries, GeometryAccepted
<1>2. LocalQ(g) \in Nat /\ g.hq = g.tp * LocalQ(g)
  BY <1>1, WholeQuotient DEF GeometryAccepted, LocalQ
<1>3. LocalQ(g) # 0
  BY <1>1, <1>2
<1>4. CASE g.tp >= g.hkv
  <2>1. LocalKV(g) = 1 /\ Replicas(g) = g.tp \div g.hkv
    BY <1>4 DEF LocalKV, Replicas
  <2>2. Replicas(g) \in Nat /\ g.tp = g.hkv * Replicas(g)
    BY <1>1, <1>4, <2>1, WholeQuotient DEF GeometryAccepted
  <2> QED BY <1>1, <1>2, <1>3, <2>1, <2>2
<1>5. CASE ~(g.tp >= g.hkv)
  <2>1. Replicas(g) = 1 /\ LocalKV(g) = g.hkv \div g.tp
    BY <1>5 DEF LocalKV, Replicas
  <2>2. LocalKV(g) \in Nat /\ g.hkv = g.tp * LocalKV(g)
    BY <1>1, <1>5, <2>1, WholeQuotient DEF GeometryAccepted
  <2> QED BY <1>1, <1>2, <1>3, <2>1, <2>2
<1> QED BY <1>4, <1>5

\* Every query head is in the part of one rank, at the place CatQ takes it from.
LEMMA QueryHead ==
  ASSUME NEW g \in Geometries, GeometryAccepted(g), NEW h \in 0 .. g.hq - 1
  PROVE  /\ h \div LocalQ(g) \in Ranks(g)
         /\ h % LocalQ(g) \in 0 .. LocalQ(g) - 1
         /\ QStart(g, h \div LocalQ(g)) + (h % LocalQ(g)) = h
<1> DEFINE w == LocalQ(g)
           a == h \div w
           t == h % w
<1>1. g.tp \in Nat /\ w \in Nat \ {0} /\ g.hq = w * g.tp /\ h \in Nat /\ h < g.hq
  BY Widths
<1>2. a \in Nat /\ t \in 0 .. w - 1 /\ h = w * a + t
  BY <1>1, Quotient
<1>0. a = h \div LocalQ(g) /\ t = h % LocalQ(g) /\ w = LocalQ(g)
  OBVIOUS
<1> HIDE DEF a, t, w
<1>3. w * a < w * g.tp
  BY <1>1, <1>2
<1>4. a < g.tp
  BY <1>1, <1>2, <1>3, FactorOrder
<1>5. a \in Ranks(g) /\ a * w + t = h
  BY <1>1, <1>2, <1>4 DEF Ranks
<1>6. QStart(g, a) = a * w
  BY <1>0 DEF QStart
<1> QED BY <1>0, <1>2, <1>5, <1>6

\* Every key head is held by a rank whose key heads begin where CatK looks.
LEMMA KeyHead ==
  ASSUME NEW g \in Geometries, GeometryAccepted(g), NEW h \in 0 .. g.hkv - 1
  PROVE  /\ h % LocalKV(g) \in 0 .. LocalKV(g) - 1
         /\ (h \div LocalKV(g)) * LocalKV(g) \in Int
         /\ ((h \div LocalKV(g)) * LocalKV(g)) + (h % LocalKV(g)) = h
         /\ \E r \in Ranks(g) : KVStart(g, r) = (h \div LocalKV(g)) * LocalKV(g)
<1> DEFINE w == LocalKV(g)
           c == Replicas(g)
           a == h \div w
           t == h % w
<1>1. /\ g.tp \in Nat /\ g.hkv \in Nat /\ w \in Nat \ {0} /\ c \in Nat \ {0}
      /\ g.hkv * c = g.tp * w /\ h \in Nat /\ h < g.hkv
  BY Widths
<1>2. a \in Nat /\ t \in 0 .. w - 1 /\ h = w * a + t
  BY <1>1, Quotient
<1>0. a = h \div LocalKV(g) /\ t = h % LocalKV(g) /\ w = LocalKV(g) /\ c = Replicas(g)
  OBVIOUS
<1> HIDE DEF a, t, w, c
<1>3. (c * a) \div c = a
  <2>1. 0 \in 0 .. c - 1
    BY <1>1
  <2>2. (c * a + 0) \div c = a
    BY <1>1, <1>2, <2>1, QuotientIs
  <2>3. c * a + 0 = c * a
    BY <1>1, <1>2
  <2> QED BY <2>2, <2>3
<1>4. w * a + 1 <= g.hkv /\ w * a + 1 \in Nat
  BY <1>1, <1>2
<1>5. c * (w * a + 1) <= c * g.hkv
  BY <1>1, <1>4, MultipleOrder
<1>6. w * (c * a) < w * g.tp
  BY <1>1, <1>2, <1>5
<1>6a. c * a \in Nat
  BY <1>1, <1>2
<1>7. c * a < g.tp
  BY <1>1, <1>6, <1>6a, FactorOrder
<1>8. c * a \in Ranks(g)
  BY <1>1, <1>6a, <1>7 DEF Ranks
<1>9. KVStart(g, c * a) = a * w
  BY <1>0, <1>3 DEF KVStart
<1>10. a * w \in Int /\ (a * w) + t = h
  BY <1>1, <1>2
<1> QED BY <1>0, <1>2, <1>8, <1>9, <1>10

\* The key heads of a rank begin at a multiple of their number.
LEMMA KeyStart ==
  ASSUME NEW g \in Geometries, GeometryAccepted(g), NEW r \in Ranks(g)
  PROVE  KVStart(g, r) \in 0 .. g.hkv - 1 /\ KVStart(g, r) % LocalKV(g) = 0
<1> DEFINE w == LocalKV(g)
           c == Replicas(g)
           a == r \div c
<1>1. /\ g.tp \in Nat /\ g.hkv \in Nat /\ w \in Nat \ {0} /\ c \in Nat \ {0}
      /\ g.hkv * c = g.tp * w /\ r \in Nat /\ r < g.tp
  BY Widths DEF Ranks
<1>2. a \in Nat /\ r % c \in Nat /\ r = c * a + (r % c)
  BY <1>1, Quotient, SMTT(30)
<1>0. a = r \div Replicas(g) /\ w = LocalKV(g)
  OBVIOUS
<1> HIDE DEF a, w, c
<1>3. (w * a) % w = 0
  <2>1. 0 \in 0 .. w - 1
    BY <1>1
  <2>2. (w * a + 0) % w = 0
    BY <1>1, <1>2, <2>1, QuotientIs
  <2>3. w * a + 0 = w * a
    BY <1>1, <1>2
  <2> QED BY <2>2, <2>3
<1>4. c * a + 1 <= g.tp /\ c * a + 1 \in Nat
  BY <1>1, <1>2
<1>5. w * (c * a + 1) <= w * g.tp
  BY <1>1, <1>4, MultipleOrder
<1>6. c * (w * a) < c * g.hkv
  BY <1>1, <1>2, <1>5
<1>6a. w * a \in Nat
  BY <1>1, <1>2
<1>7. w * a < g.hkv
  BY <1>1, <1>6, <1>6a, FactorOrder
<1>8. KVStart(g, r) = w * a
  <2>1. KVStart(g, r) = a * w
    BY <1>0 DEF KVStart
  <2> QED BY <1>1, <1>2, <2>1
<1> QED BY <1>0, <1>1, <1>3, <1>6a, <1>7, <1>8

\* Some rank is the lowest of any that are given.
LEMMA LowestRank ==
  ASSUME NEW T \in SUBSET Nat, T # {}
  PROVE  \E x \in T : \A y \in T : x <= y
<1> DEFINE I == { 0 .. x : x \in T }
<1>1. I \subseteq FiniteSubsetsOf(Nat) /\ I # {}
  <2>1. ASSUME NEW x \in T
        PROVE  0 .. x \in FiniteSubsetsOf(Nat)
    <3>1. IsFiniteSet(0 .. x)
      BY FS_Interval
    <3>2. 0 .. x \in SUBSET Nat
      OBVIOUS
    <3> QED BY <3>1, <3>2 DEF FiniteSubsetsOf
  <2>2. I # {}
    OBVIOUS
  <2> QED BY <2>1, <2>2
<1>2. PICK J \in I : \A H \in I : ~(<<H, J>> \in StrictSubsetOrdering(Nat))
  BY <1>1, FS_StrictSubsetOrderingWellFounded, WFMin
<1>3. PICK x \in T : J = 0 .. x
  OBVIOUS
<1>4. ASSUME NEW y \in T, y < x PROVE FALSE
  <2>1. 0 .. y \in I /\ 0 .. y \subseteq 0 .. x /\ x \notin 0 .. y /\ x \in 0 .. x
    BY <1>4
  <2>2. <<0 .. y, J>> \in StrictSubsetOrdering(Nat)
    BY <1>3, <2>1 DEF StrictSubsetOrdering
  <2> QED BY <1>2, <2>1, <2>2
<1> QED BY <1>4

\* The heads s, ..., s + n - 1 of a tensor.
SliceOf(f, s, n) == [i \in 0 .. n - 1 |-> f[s + i]]

\* Shards of one geometry, and the slices of two tensors that they name.
AreShards(g, shards) ==
  \A i \in DOMAIN shards : /\ shards[i].rank \in Ranks(g)
                           /\ shards[i] = QkShard(g, shards[i].rank)
AreSlices(shards, q, k, Q, K) ==
  \A i \in DOMAIN shards : /\ q[i] = SliceOf(Q, shards[i].qStart, shards[i].qHeads)
                           /\ k[i] = SliceOf(K, shards[i].kvStart, shards[i].kvHeads)

\* A set of slices with every rank merges to the tensors they were cut from.
LEMMA MergeOfSlices ==
  ASSUME NEW g \in Geometries, GeometryAccepted(g), NEW shards,
         AreShards(g, shards), Ranks(g) \subseteq RanksOf(shards),
         NEW q, NEW k, NEW Q, NEW K, AreSlices(shards, q, k, Q, K)
  PROVE  MergeQkEntries(g, shards, q, k)
           = Merged([q |-> SliceOf(Q, 0, g.hq), k |-> SliceOf(K, 0, g.hkv)])
<1> USE DEF AreShards, AreSlices
<1>0. \A i \in DOMAIN shards :
        /\ shards[i].qStart = QStart(g, shards[i].rank) /\ shards[i].qHeads = LocalQ(g)
        /\ shards[i].kvStart = KVStart(g, shards[i].rank) /\ shards[i].kvHeads = LocalKV(g)
  BY DEF QkShard
<1>1. WidthsFit(shards, q, k)
  BY DEF WidthsFit, SliceOf
<1>2. StartsTile(g, shards)
  <2>1. ASSUME NEW i \in DOMAIN shards
        PROVE  shards[i].kvStart \in { s \in 0 .. g.hkv - 1 : s % LocalKV(g) = 0 }
    BY <1>0, KeyStart
  <2>2. ASSUME NEW s \in 0 .. g.hkv - 1, s % LocalKV(g) = 0
        PROVE  s \in KeyStarts(shards)
    <3>1. PICK r \in Ranks(g) : KVStart(g, r) = (s \div LocalKV(g)) * LocalKV(g)
      BY KeyHead
    <3>2. (s \div LocalKV(g)) * LocalKV(g) = s
      BY <2>2, KeyHead
    <3>3. PICK i \in DOMAIN shards : shards[i].rank = r
      BY DEF RanksOf
    <3> QED BY <1>0, <3>1, <3>2, <3>3 DEF KeyStarts
  <2> QED BY <2>1, <2>2 DEF StartsTile, KeyStarts
<1>3. CatQ(g, shards, q) = SliceOf(Q, 0, g.hq)
  <2>1. ASSUME NEW h \in 0 .. g.hq - 1
        PROVE  q[PartOf(shards, h \div LocalQ(g))][h % LocalQ(g)] = Q[0 + h]
    <3> DEFINE r == h \div LocalQ(g)
               t == h % LocalQ(g)
               p == PartOf(shards, r)
    <3>1. r \in Ranks(g) /\ t \in 0 .. LocalQ(g) - 1 /\ QStart(g, r) + t = h
      BY QueryHead
    <3> HIDE DEF r, t
    <3>2. p \in DOMAIN shards /\ shards[p].rank = r
      BY <3>1 DEF PartOf, RanksOf
    <3> HIDE DEF p
    <3>3. q[p] = [i \in 0 .. LocalQ(g) - 1 |-> Q[QStart(g, r) + i]]
      BY <1>0, <3>2 DEF SliceOf
    <3>4. q[p][t] = Q[h]
      BY <3>1, <3>3
    <3>5. 0 + h = h
      OBVIOUS
    <3> QED BY <3>4, <3>5 DEF p, r, t
  <2> QED BY <2>1 DEF CatQ, SliceOf
<1>4. CatK(g, shards, k) = SliceOf(K, 0, g.hkv)
  <2>1. ASSUME NEW h \in 0 .. g.hkv - 1
        PROVE  k[LowestWith(shards, (h \div LocalKV(g)) * LocalKV(g))][h % LocalKV(g)] = K[0 + h]
    <3> DEFINE s == (h \div LocalKV(g)) * LocalKV(g)
               t == h % LocalKV(g)
               p == LowestWith(shards, s)
    <3>1. t \in 0 .. LocalKV(g) - 1 /\ s + t = h /\ \E r \in Ranks(g) : KVStart(g, r) = s
      BY KeyHead
    <3> HIDE DEF s, t
    <3>2. p \in DOMAIN shards /\ shards[p].kvStart = s
      <4> DEFINE T == { shards[i].rank : i \in { j \in DOMAIN shards : shards[j].kvStart = s } }
      <4>1. T \subseteq Nat
        BY DEF Ranks
      <4>2. T # {}
        <5>1. PICK r \in Ranks(g) : KVStart(g, r) = s
          BY <3>1
        <5>2. PICK i \in DOMAIN shards : shards[i].rank = r
          BY DEF RanksOf
        <5> QED BY <1>0, <5>1, <5>2
      <4>3. PICK x \in T : \A y \in T : x <= y
        BY <4>1, <4>2, LowestRank
      <4>4. PICK i \in DOMAIN shards : shards[i].kvStart = s /\ shards[i].rank = x
        OBVIOUS
      <4>5. \A j \in DOMAIN shards : shards[j].kvStart = s => shards[i].rank <= shards[j].rank
        BY <4>3, <4>4
      <4> QED BY <4>4, <4>5 DEF LowestWith
    <3> HIDE DEF p
    <3>3. k[p] = [i \in 0 .. LocalKV(g) - 1 |-> K[s + i]]
      BY <1>0, <3>2 DEF SliceOf
    <3>4. k[p][t] = K[h]
      BY <3>1, <3>3
    <3>5. 0 + h = h
      OBVIOUS
    <3> QED BY <3>4, <3>5 DEF p, s, t
  <2> QED BY <2>1 DEF CatK, SliceOf
<1> QED BY <1>1, <1>2, <1>3, <1>4 DEF MergeQkEntries

\* What a payload of a rank holds: of every layer, the heads its header names.
HoldsItsHeads(p, Q, K) ==
  \A L \in DOMAIN p.entries :
    /\ p.entries[L].q = SliceOf(Q[L], p.header.qStart, p.header.qHeads)
    /\ p.entries[L].k = SliceOf(K[L], p.header.kvStart, p.header.kvHeads)

AreParts(ps, Q, K) ==
  \A i \in DOMAIN ps : QkHeaderValid(ps[i].header) /\ HoldsItsHeads(ps[i], Q, K)
IsEverywhere(ps, L) == \A i \in DOMAIN ps : L \in DOMAIN ps[i].entries

IsWhole(g, v, Q, K) ==
  \A L \in DOMAIN v : /\ v[L].q = SliceOf(Q[L], 0, g.hq)
                      /\ v[L].k = SliceOf(K[L], 0, g.hkv)

\* The headers that pass both checks are the shards of one geometry.
LEMMA CheckedHeaders ==
  ASSUME NEW ps, 1 \in DOMAIN ps,
         \A i \in DOMAIN ps : QkHeaderValid(ps[i].header), OneGeometry(HeadersOf(ps))
  PROVE  /\ ps[1].header.geom \in Geometries /\ GeometryAccepted(ps[1].header.geom)
         /\ AreShards(ps[1].header.geom, HeadersOf(ps))
<1> DEFINE g == ps[1].header.geom
<1>1. DOMAIN HeadersOf(ps) = DOMAIN ps
  BY DEF HeadersOf
<1>2. \A i \in DOMAIN ps : HeadersOf(ps)[i] = ps[i].header /\ ps[i].header.geom = g
  BY <1>1 DEF OneGeometry, HeadersOf
<1> QED BY <1>1, <1>2 DEF QkHeaderValid, AreShards

LEMMA MergeOfHonest ==
  ASSUME NEW ps, 1 \in DOMAIN ps, NEW Q, NEW K, NEW L,
         AreParts(ps, Q, K), IsEverywhere(ps, L), OneGeometry(HeadersOf(ps)),
         Ranks(ps[1].header.geom) \subseteq RanksOf(HeadersOf(ps))
  PROVE  MergeLayer(ps, L) = Merged([q |-> SliceOf(Q[L], 0, ps[1].header.geom.hq),
                                     k |-> SliceOf(K[L], 0, ps[1].header.geom.hkv)])
<1> DEFINE g == ps[1].header.geom
           shards == HeadersOf(ps)
           q == [i \in DOMAIN ps |-> ps[i].entries[L].q]
           k == [i \in DOMAIN ps |-> ps[i].entries[L].k]
<1>1. g \in Geometries /\ GeometryAccepted(g) /\ AreShards(g, shards)
  BY CheckedHeaders DEF AreParts
<1>2. AreSlices(shards, q, k, Q[L], K[L])
  BY DEF HeadersOf, HoldsItsHeads, AreSlices, AreParts, IsEverywhere
<1>3. Ranks(g) \subseteq RanksOf(shards)
  OBVIOUS
<1>4. MergeLayer(ps, L) = MergeQkEntries(g, shards, q, k)
  BY DEF MergeLayer
<1> HIDE DEF shards, q, k, g
<1>5. MergeLayer(ps, L) = Merged([q |-> SliceOf(Q[L], 0, g.hq), k |-> SliceOf(K[L], 0, g.hkv)])
  BY <1>1, <1>2, <1>3, <1>4, MergeOfSlices
<1> QED BY <1>5 DEF g

\* The only rank of an engine holds every head.
LEMMA OnlyRank ==
  ASSUME NEW h, QkHeaderValid(h), h.geom.tp = 1
  PROVE  h.qStart = 0 /\ h.qHeads = h.geom.hq /\ h.kvStart = 0 /\ h.kvHeads = h.geom.hkv
<1> DEFINE g == h.geom
<1>1. g \in Geometries /\ GeometryAccepted(g) /\ h.rank \in 0 .. 0
  BY DEF QkHeaderValid, Ranks
<1>2. h = QkShard(g, h.rank) /\ h.rank = 0
  BY <1>1 DEF QkHeaderValid
<1>3. /\ h.qStart = QStart(g, 0) /\ h.qHeads = LocalQ(g)
      /\ h.kvStart = KVStart(g, 0) /\ h.kvHeads = LocalKV(g)
  BY <1>2 DEF QkShard
<1> HIDE DEF g
<1>4. g.tp = 1 /\ 0 \in Ranks(g)
  BY DEF g, Ranks
<1>5. /\ LocalQ(g) = g.hq /\ QStart(g, 0) = 0
  BY <1>1, <1>4, Widths DEF QStart
<1>6. Replicas(g) = 1
  <2>1. CASE g.tp >= g.hkv
    <3>1. g.hkv = 1
      BY <1>1, <1>4, <2>1, Widths
    <3> QED BY <1>4, <3>1 DEF Replicas
  <2>2. CASE ~(g.tp >= g.hkv)
    BY <2>2 DEF Replicas
  <2> QED BY <2>1, <2>2
<1>7. LocalKV(g) = g.hkv /\ KVStart(g, 0) = 0
  BY <1>1, <1>4, <1>6, Widths DEF KVStart
<1> QED BY <1>3, <1>5, <1>7 DEF g

\* merge_qk_payloads never returns a tensor that is short, doubled or in the wrong
\* order: whatever headers the payloads carry, if those that pass
\* qk_shard_from_header belong to the heads in the payload, the result is the
\* whole of every layer, for the layers that every rank has, or an error.
THEOREM QkMergeIsWholeOrRefused ==
  ASSUME NEW S, NEW ps \in Seq(S), NEW Q, NEW K,
         ~(Len(ps) = 1 /\ ps[1].header = NoHeader),
         \A i \in DOMAIN ps : QkHeaderValid(ps[i].header) => HoldsItsHeads(ps[i], Q, K),
         MergeQkPayloads(ps).ok
  PROVE  /\ IsWhole(ps[1].header.geom, MergeQkPayloads(ps).value, Q, K)
         /\ \A i \in DOMAIN ps : DOMAIN MergeQkPayloads(ps).value = DOMAIN ps[i].entries
<1> DEFINE g == ps[1].header.geom
           v == MergeQkPayloads(ps).value
<1>1. /\ ps # <<>> /\ \A i \in DOMAIN ps : QkHeaderValid(ps[i].header)
      /\ \/ Len(ps) = 1 /\ g.tp = 1 /\ v = ps[1].entries
         \/ /\ Complete(HeadersOf(ps))
            /\ \A i \in DOMAIN ps : DOMAIN ps[i].entries = LayersOf(ps)
            /\ v = [L \in LayersOf(ps) |-> MergeLayer(ps, L).value]
  BY DEF MergeQkPayloads, Refused, Merged
<1>2. 1 \in DOMAIN ps
  BY <1>1
<1>3. AreParts(ps, Q, K)
  BY <1>1 DEF AreParts
<1> HIDE DEF v
<1>4. CASE Len(ps) = 1 /\ g.tp = 1 /\ v = ps[1].entries
  <2>1. IsWhole(g, v, Q, K)
    BY <1>2, <1>3, <1>4, OnlyRank DEF HoldsItsHeads, IsWhole, AreParts
  <2>2. \A i \in DOMAIN ps : DOMAIN v = DOMAIN ps[i].entries
    BY <1>4
  <2> QED BY <2>1, <2>2 DEF v
<1>5. CASE /\ Complete(HeadersOf(ps))
           /\ \A i \in DOMAIN ps : DOMAIN ps[i].entries = LayersOf(ps)
           /\ v = [L \in LayersOf(ps) |-> MergeLayer(ps, L).value]
  <2>1. OneGeometry(HeadersOf(ps)) /\ Ranks(g) \subseteq RanksOf(HeadersOf(ps))
    BY <1>2, <1>5 DEF Complete, HeadersOf
  <2>2. ASSUME NEW L \in LayersOf(ps)
        PROVE  /\ MergeLayer(ps, L).value.q = SliceOf(Q[L], 0, g.hq)
               /\ MergeLayer(ps, L).value.k = SliceOf(K[L], 0, g.hkv)
    <3>1. IsEverywhere(ps, L)
      BY <1>5 DEF IsEverywhere
    <3>2. MergeLayer(ps, L)
            = Merged([q |-> SliceOf(Q[L], 0, g.hq), k |-> SliceOf(K[L], 0, g.hkv)])
      BY <1>2, <1>3, <2>1, <3>1, MergeOfHonest
    <3> QED BY <3>2 DEF Merged
  <2>3. IsWhole(g, v, Q, K)
    BY <1>5, <2>2 DEF IsWhole
  <2> QED BY <1>5, <2>3 DEF v
<1> QED BY <1>1, <1>4, <1>5

\* Distinct ranks of a finite set, as many as it has, are all of the set.
LEMMA EnoughRanks ==
  ASSUME NEW S, NEW ps \in Seq(S), NEW T, IsFiniteSet(T), Len(ps) >= Cardinality(T),
         NoRankTwice(HeadersOf(ps)), \A i \in DOMAIN ps : ps[i].header.rank \in T
  PROVE  T \subseteq RanksOf(HeadersOf(ps))
<1> DEFINE n == Len(ps)
           f == [i \in 1 .. n |-> ps[i].header.rank]
<1>1. n \in Nat /\ DOMAIN ps = 1 .. n
  OBVIOUS
<1>2. f \in Injection(1 .. n, T)
  BY <1>1 DEF Injection, IsInjective, NoRankTwice, HeadersOf
<1>3. IsFiniteSet(1 .. n) /\ Cardinality(1 .. n) = n
  BY <1>1, CountFromOne
<1>4. Cardinality(T) \in Nat
  BY FS_CardinalityType
<1>5. Len(ps) = n
  OBVIOUS
<1> HIDE DEF f, n
<1>6. Cardinality(1 .. n) <= Cardinality(T)
  BY <1>2, FS_Injection
<1>7. Cardinality(1 .. n) = Cardinality(T)
  BY <1>1, <1>3, <1>4, <1>5, <1>6
<1>8. f \in Surjection(1 .. n, T)
  BY <1>2, <1>7, FS_Injection
<1> QED BY <1>1, <1>8 DEF Surjection, RanksOf, HeadersOf, f

\* The collection stops as soon as it holds as many parts as there are ranks: if
\* every rank gave its part of the same layers, and none gave two, the merge of
\* what it holds succeeds (_expected_probe_parts, _collect_aperture_per_request_sync).
THEOREM QkEnoughMerges ==
  ASSUME NEW S, NEW ps \in Seq(S), ps # <<>>, NEW Q, NEW K, NEW layers, NEW spec,
         AreParts(ps, Q, K), \A i \in DOMAIN ps : DOMAIN ps[i].entries = layers,
         OneGeometry(HeadersOf(ps)), NoRankTwice(HeadersOf(ps)), Enough(ps, spec)
  PROVE  MergeQkPayloads(ps).ok
<1> DEFINE g == ps[1].header.geom
<1>1. 1 \in DOMAIN ps /\ ps[1].header.kind = "qk" /\ ps[1].header # NoHeader
  BY DEF QkHeaderValid, NoHeader, AreParts
<1>2. g \in Geometries /\ GeometryAccepted(g) /\ AreShards(g, HeadersOf(ps))
  BY <1>1, CheckedHeaders DEF AreParts
<1>3. g.tp \in Nat /\ Len(ps) >= g.tp
  <2>1. HasKind(ps, "qk")
    BY <1>1 DEF HasKind
  <2>2. \A i \in DOMAIN ps : ps[i].header.kind = "qk"
    BY DEF AreParts, QkHeaderValid
  <2>3. GeomOf(ps, "qk") = g
    <3>1. FirstOf(ps, "qk") = 1
      BY <1>1, <2>2 DEF FirstOf
    <3> QED BY <3>1 DEF GeomOf
  <2> QED BY <1>2, <2>1, <2>3, Widths DEF Enough, ExpectedParts
<1>4. \A i \in DOMAIN ps : ps[i].header.rank \in 0 .. g.tp - 1
  BY <1>2 DEF AreShards, HeadersOf, Ranks
<1>5. Ranks(g) \subseteq RanksOf(HeadersOf(ps))
  <2> HIDE DEF g
  <2>1. IsFiniteSet(0 .. g.tp - 1) /\ Cardinality(0 .. g.tp - 1) = g.tp
    BY <1>3, CountTo
  <2>2. 0 .. g.tp - 1 \subseteq RanksOf(HeadersOf(ps))
    BY <1>3, <1>4, <2>1, EnoughRanks
  <2> QED BY <2>2 DEF Ranks
<1>6. Complete(HeadersOf(ps))
  <2>1. HeadersOf(ps) # <<>> /\ HeadersOf(ps)[1].geom = g
    BY <1>1 DEF HeadersOf
  <2> QED BY <1>5, <2>1 DEF Complete
<1>7. LayersOf(ps) = layers
  BY <1>1 DEF LayersOf
<1>8. \A L \in layers : MergeLayer(ps, L).ok
  <2>1. ASSUME NEW L \in layers PROVE MergeLayer(ps, L).ok
    <3>1. IsEverywhere(ps, L)
      BY DEF IsEverywhere
    <3>2. MergeLayer(ps, L)
            = Merged([q |-> SliceOf(Q[L], 0, g.hq), k |-> SliceOf(K[L], 0, g.hkv)])
      BY <1>1, <1>5, <3>1, MergeOfHonest
    <3> QED BY <3>2 DEF Merged
  <2> QED BY <2>1
<1> QED BY <1>1, <1>6, <1>7, <1>8 DEF MergeQkPayloads, Merged, AreParts

-----------------------------------------------------------------------------
(* Hidden states. *)

\* A row belongs to the rank that hs_layer_owner says and to no other: the split
\* of the layers leaves none out and gives none twice.
THEOREM LayersArePartitioned ==
  ASSUME NEW n \in Nat, NEW tp \in Nat \ {0}, NEW row \in 0 .. n - 1, NEW r \in 0 .. tp - 1
  PROVE  row \in OwnedRows(n, tp, r) <=> Owner(row, tp) = r
<1>1. ASSUME row \in OwnedRows(n, tp, r) PROVE Owner(row, tp) = r
  <2> DEFINE a == (row - r) \div tp
  <2>1. row - r \in Nat /\ (row - r) % tp = 0
    BY <1>1 DEF OwnedRows
  <2>2. a \in Nat /\ row - r = tp * a
    BY <2>1, WholeQuotient
  <2> HIDE DEF a
  <2>3. row = tp * a + r
    BY <2>2
  <2> QED BY <2>2, <2>3, QuotientIs DEF Owner
<1>2. ASSUME Owner(row, tp) = r PROVE row \in OwnedRows(n, tp, r)
  <2> DEFINE a == row \div tp
  <2>1. a \in Nat /\ row = tp * a + r
    BY <1>2, Quotient DEF Owner
  <2> HIDE DEF a
  <2>2. tp * a \in Nat /\ row - r = tp * a + 0
    BY <2>1
  <2>3. (row - r) % tp = 0
    <3>1. 0 \in 0 .. tp - 1
      OBVIOUS
    <3> QED BY <2>1, <2>2, <3>1, QuotientIs
  <2> QED BY <2>2, <2>3 DEF OwnedRows
<1> QED BY <1>1, <1>2

\* The ring that every rank sizes for hs_max_owned_layers has a slot for each of
\* the layers it captures.
THEOREM OwnedRowsFit ==
  ASSUME NEW n \in Nat, NEW tp \in Nat \ {0}, NEW r \in 0 .. tp - 1
  PROVE  /\ IsFiniteSet(OwnedRows(n, tp, r))
         /\ Cardinality(OwnedRows(n, tp, r)) <= MaxOwned(n, tp, "round_robin")
<1> DEFINE m == (n + tp - 1) \div tp
           T == OwnedRows(n, tp, r)
           f == [i \in T |-> i \div tp]
<1>1. /\ n + tp - 1 \in Nat /\ m \in Nat
      /\ \E t \in 0 .. tp - 1 : n + tp - 1 = tp * m + t
  <2>1. n + tp - 1 \in Nat
    OBVIOUS
  <2> QED BY <2>1, Quotient
<1> HIDE DEF m
<1>2. \A i \in T : i \in 0 .. n - 1
  BY DEF OwnedRows
<1>3. ASSUME NEW i \in T
      PROVE  i \div tp \in 0 .. m - 1 /\ i = tp * (i \div tp) + r
  <2> DEFINE a == i \div tp
  <2>1. i \in 0 .. n - 1 /\ Owner(i, tp) = r
    BY <1>2, LayersArePartitioned
  <2>2. a \in Nat /\ i = tp * a + r
    BY <2>1, Quotient DEF Owner
  <2> HIDE DEF a
  <2>3. tp * a < tp * m
    BY <1>1, <2>1, <2>2
  <2>4. a < m
    BY <1>1, <2>2, <2>3, FactorOrder
  <2>5. a \in 0 .. m - 1
    BY <1>1, <2>2, <2>4
  <2> QED BY <2>2, <2>5 DEF a
<1> HIDE DEF T
<1>4. f \in Injection(T, 0 .. m - 1)
  BY <1>3 DEF Injection, IsInjective
<1>5. IsFiniteSet(0 .. m - 1) /\ Cardinality(0 .. m - 1) = m
  BY <1>1, CountTo
<1> HIDE DEF f
<1>6. IsFiniteSet(T) /\ Cardinality(T) <= m
  BY <1>4, <1>5, FS_Injection
<1> QED BY <1>6 DEF T, m, MaxOwned

\* A rank claims a request for delivery (_asks_here) exactly when the collection
\* will wait for its part (hs_expected_ranks): neither is a part nobody waits for
\* held back for a request, nor is one awaited that no rank will ever give.
THEOREM AskedRanksAreAwaited ==
  ASSUME NEW n \in Nat, NEW tp \in Nat \ {0}, NEW r \in 0 .. tp - 1, NEW spec
  PROVE  AsksHere(spec, n, tp, r) <=> r \in ExpectedRanks(Requested(spec, n), tp)
<1>1. \A L \in 1 .. n : L - 1 \in OwnedRows(n, tp, r) <=> Owner(L - 1, tp) = r
  <2>1. \A L \in 1 .. n : L - 1 \in 0 .. n - 1
    OBVIOUS
  <2> QED BY <2>1, LayersArePartitioned
<1>2. CASE spec.list
  BY <1>1, <1>2 DEF AsksHere, ExpectedRanks, Requested
<1>3. CASE ~spec.list
  <2>1. \A i \in OwnedRows(n, tp, r) : i \in 0 .. n - 1 /\ i + 1 \in 1 .. n /\ (i + 1) - 1 = i
    BY DEF OwnedRows
  <2>2. OwnedRows(n, tp, r) # {} <=> \E L \in 1 .. n : L - 1 \in OwnedRows(n, tp, r)
    BY <2>1
  <2> QED BY <1>1, <1>3, <2>2 DEF AsksHere, ExpectedRanks, Requested
<1> QED BY <1>2, <1>3

\* What the parts of a request hold of its hidden states H, a row list per layer.
HoldsItsLayers(p, H) == \A L \in DOMAIN p.layers : p.layers[L] = H[L]

\* merge_hs_payloads never returns a layer too few, a layer nobody asked for or the
\* rows of another layer: the result is what was asked for, or an error.
THEOREM HsMergeIsWholeOrRefused ==
  ASSUME NEW S, NEW ps \in Seq(S), NEW H, NEW spec,
         \A i \in DOMAIN ps : HoldsItsLayers(ps[i], H), MergeHsPayloads(ps, spec).ok
  PROVE  MergeHsPayloads(ps, spec).value
           = [L \in Requested(spec, ps[1].header.geom.layers) |-> H[L]]
<1> DEFINE asked == Requested(spec, ps[1].header.geom.layers)
<1>1. /\ HeldLayers(ps) = asked
      /\ MergeHsPayloads(ps, spec).value = UnionOfLayers(ps)
  BY DEF MergeHsPayloads, Refused, Merged
<1>2. ASSUME NEW L \in HeldLayers(ps)
      PROVE  ps[HolderOf(ps, L)].layers[L] = H[L]
  <2>1. HolderOf(ps, L) \in DOMAIN ps /\ L \in DOMAIN ps[HolderOf(ps, L)].layers
    BY DEF HeldLayers, HolderOf
  <2> QED BY <2>1 DEF HoldsItsLayers
<1>3. UnionOfLayers(ps) = [L \in HeldLayers(ps) |-> H[L]]
  BY <1>2 DEF UnionOfLayers
<1> QED BY <1>1, <1>3

LEMMA HsHeader ==
  ASSUME NEW h, HsHeaderValid(h)
  PROVE  /\ h.geom.tp \in Nat \ {0} /\ h.geom.layers \in Nat /\ h.rank \in 0 .. h.geom.tp - 1
         /\ h.owned = OwnedLayers(h.geom.layers, h.geom.tp, h.rank)
<1>1. h = HsShard(h.geom.layers, h.geom.tp, h.rank)
  BY DEF HsHeaderValid
<1>2. HsShard(h.geom.layers, h.geom.tp, h.rank).owned
        = OwnedLayers(h.geom.layers, h.geom.tp, h.rank)
  BY DEF HsShard
<1>3. h.owned = OwnedLayers(h.geom.layers, h.geom.tp, h.rank)
  BY <1>1, <1>2
<1> QED BY <1>3 DEF HsHeaderValid, HsGeometries, Ranks

\* The collection stops at as many parts as ranks were asked: if every rank that
\* was asked, and no other, gave what it has of the layers asked for, and none gave
\* twice, the merge of the parts succeeds.
THEOREM HsEnoughMerges ==
  ASSUME NEW S, NEW ps \in Seq(S), ps # <<>>, NEW H, NEW spec, NEW g, NEW len,
         \A i \in DOMAIN ps :
           /\ HsHeaderValid(ps[i].header) /\ ps[i].header.geom = g
           /\ HoldsItsLayers(ps[i], H)
           /\ DOMAIN ps[i].layers = Requested(spec, g.layers) \cap ps[i].header.owned
           /\ AsksHere(spec, g.layers, g.tp, ps[i].header.rank),
         \A L \in Requested(spec, g.layers) : Len(H[L]) = len,
         NoRankTwice(HeadersOf(ps)), Enough(ps, spec)
  PROVE  MergeHsPayloads(ps, spec).ok
<1> DEFINE asked == Requested(spec, g.layers)
           awaited == ExpectedRanks(asked, g.tp)
<1>1. 1 \in DOMAIN ps
  OBVIOUS
<1>2. /\ g.tp \in Nat \ {0} /\ g.layers \in Nat
      /\ \A i \in DOMAIN ps : /\ ps[i].header.rank \in 0 .. g.tp - 1
                              /\ ps[i].header.owned = OwnedLayers(g.layers, g.tp, ps[i].header.rank)
  BY <1>1, HsHeader
<1>3. \A i \in DOMAIN ps : ps[i].header.rank \in awaited
  BY <1>2, AskedRanksAreAwaited
<1>4. asked \subseteq 1 .. g.layers
  BY DEF Requested
<1>5. \A L \in asked : L - 1 \in 0 .. g.layers - 1 /\ Owner(L - 1, g.tp) \in 0 .. g.tp - 1
  <2>1. \A L \in asked : L - 1 \in 0 .. g.layers - 1
    BY <1>2, <1>4
  <2>2. \A i \in Nat : i % g.tp \in 0 .. g.tp - 1
    BY <1>2, Quotient
  <2> QED BY <2>1, <2>2 DEF Owner
<1>6. \A L \in asked, r \in 0 .. g.tp - 1 :
        L \in OwnedLayers(g.layers, g.tp, r) <=> Owner(L - 1, g.tp) = r
  <2>1. ASSUME NEW L \in asked, NEW r \in 0 .. g.tp - 1
        PROVE  L \in OwnedLayers(g.layers, g.tp, r) <=> L - 1 \in OwnedRows(g.layers, g.tp, r)
    <3>1. L \in Int /\ (L - 1) + 1 = L
      BY <1>2, <1>4
    <3>2. \A i \in OwnedRows(g.layers, g.tp, r) : i \in Int /\ (i + 1) - 1 = i
      BY <1>2 DEF OwnedRows
    <3> QED BY <3>1, <3>2 DEF OwnedLayers
  <2> QED BY <1>2, <1>5, <2>1, LayersArePartitioned
<1>7. awaited \subseteq RanksOf(HeadersOf(ps))
  <2>1. awaited \subseteq 0 .. g.tp - 1
    BY <1>5 DEF ExpectedRanks
  <2>2. IsFiniteSet(awaited)
    <3>1. IsFiniteSet(0 .. g.tp - 1)
      BY <1>2, CountTo
    <3> HIDE DEF awaited
    <3> QED BY <2>1, <3>1, FS_Subset
  <2>3. Len(ps) >= Cardinality(awaited)
    <3>1. \A i \in DOMAIN ps : ps[i].header.kind = "hs"
      BY DEF HsHeaderValid
    <3>2. HasKind(ps, "hs") /\ ~HasKind(ps, "qk") /\ FirstOf(ps, "hs") = 1
      BY <1>1, <3>1 DEF HasKind, FirstOf
    <3>3. RanksAwaited(spec, GeomOf(ps, "hs")) = awaited
      BY <1>1, <3>2 DEF GeomOf, RanksAwaited
    <3>4. awaited # {}
      BY <1>1, <1>3
    <3> HIDE DEF awaited
    <3> QED BY <3>2, <3>3, <3>4 DEF Enough, ExpectedParts
  <2> HIDE DEF awaited
  <2> QED BY <1>3, <2>2, <2>3, EnoughRanks
<1>8. HsSetAccepted(HeadersOf(ps), awaited)
  <2>1. OneGeometry(HeadersOf(ps)) /\ HeadersOf(ps) # <<>>
    BY <1>1 DEF OneGeometry, HeadersOf
  <2>2. ASSUME NEW i \in DOMAIN ps, NEW j \in DOMAIN ps, i # j
        PROVE  ps[i].header.owned \cap ps[j].header.owned = {}
    <3>1. ps[i].header.rank # ps[j].header.rank
      BY <2>2 DEF NoRankTwice, HeadersOf
    <3>2. \A r \in 0 .. g.tp - 1 : \A L \in OwnedLayers(g.layers, g.tp, r) :
            Owner(L - 1, g.tp) = r
      <4>1. ASSUME NEW r \in 0 .. g.tp - 1, NEW k \in OwnedRows(g.layers, g.tp, r)
            PROVE  Owner((k + 1) - 1, g.tp) = r
        <5>1. k \in 0 .. g.layers - 1 /\ (k + 1) - 1 = k
          BY <1>2 DEF OwnedRows
        <5> QED BY <1>2, <5>1, LayersArePartitioned
      <4> QED BY <4>1 DEF OwnedLayers
    <3> QED BY <1>2, <3>1, <3>2
  <2>3. \A i, j \in DOMAIN HeadersOf(ps) :
          i # j => HeadersOf(ps)[i].owned \cap HeadersOf(ps)[j].owned = {}
    BY <2>2 DEF HeadersOf
  <2> QED BY <1>7, <2>1, <2>3 DEF HsSetAccepted
<1>9. HeldLayers(ps) = asked
  <2>1. HeldLayers(ps) \subseteq asked
    BY DEF HeldLayers
  <2>2. ASSUME NEW L \in asked
        PROVE  L \in HeldLayers(ps)
    <3>1. PICK i \in DOMAIN ps : ps[i].header.rank = Owner(L - 1, g.tp)
      BY <1>7 DEF ExpectedRanks, RanksOf, HeadersOf
    <3>2. L \in ps[i].header.owned
      BY <1>2, <1>6, <3>1
    <3> QED BY <3>2 DEF HeldLayers
  <2> QED BY <2>1, <2>2
<1>10. \A L \in HeldLayers(ps) : Len(UnionOfLayers(ps)[L]) = len
  <2>1. ASSUME NEW L \in HeldLayers(ps) PROVE Len(UnionOfLayers(ps)[L]) = len
    <3>1. HolderOf(ps, L) \in DOMAIN ps /\ L \in DOMAIN ps[HolderOf(ps, L)].layers
      BY DEF HeldLayers, HolderOf
    <3>2. UnionOfLayers(ps)[L] = H[L]
      BY <3>1 DEF UnionOfLayers, HoldsItsLayers
    <3> QED BY <1>9, <3>2
  <2> QED BY <2>1
<1>11. \A i \in DOMAIN ps : DOMAIN ps[i].layers \subseteq ps[i].header.owned
  OBVIOUS
<1>12. ps[1].header.geom = g
  BY <1>1
<1> HIDE DEF asked, awaited
<1> QED BY <1>1, <1>8, <1>9, <1>10, <1>11, <1>12 DEF MergeHsPayloads, Merged, asked, awaited

-----------------------------------------------------------------------------
(***************************************************************************)
(* DeliverySelector: what the choice guarantees for every environment an   *)
(* engine may start in, and for the processes that inherit its stamp.      *)
(***************************************************************************)

\* The four answers a process without a stamp can get, and when.
Answer(e, s) ==
  \/ \E x \in {"default", "explicit"} : /\ s = Selected("hybrid", x, TRUE)
                                        /\ ~HybridImpossible(e)
                                        /\ e.mode \in {"auto", "hybrid"}
                                        /\ e.mode = "auto" => e.deliver # "1" /\ e.gather # "1"
  \/ \E x \in Sources : /\ s = Selected("drain", x, TRUE)
                        /\ e.mode \in {"auto", "drain"}
                        /\ e.deliver # "1"
                        /\ e.mode = "auto" => e.gather # "1"
  \/ /\ s = Selected("hybrid", "explicit", FALSE)
     /\ e.mode = "auto" /\ e.deliver = "1" /\ e.perRequest # "1"
  \/ \E x \in Sources : /\ s = Selected("off", x, FALSE)
                        /\ e.mode \in {"auto", "off"}
                        /\ e.deliver # "1"

LEMMA ResolvedAnswer ==
  ASSUME NEW e \in Envs, e.stamp = NoStamp, NEW k \in Kinds, NEW g \in BOOLEAN,
         Resolve(e, k, g).ok
  PROVE  Valid(e) /\ Answer(e, Resolve(e, k, g))
<1>1. Valid(e) /\ e.mode \in Modes
  <2>1. Resolve(e, k, g) # NoChoice
    BY DEF NoChoice
  <2>2. Valid(e)
    <3>1. e.stamp.mode = "none"
      BY DEF NoStamp
    <3>2. CASE ~Valid(e)
      <4>1. Resolve(e, k, g) = NoChoice
        BY <3>1, <3>2 DEF Resolve
      <4> QED BY <2>1, <4>1
    <3> QED BY <3>2
  <2> QED BY <2>2 DEF Valid, Envs
<1>2. CASE e.mode = "hybrid"
  BY <1>1, <1>2 DEF Resolve, Answer, Hybrid, HybridImpossible, NoChoice, Selected, NoStamp
<1>3. CASE e.mode = "drain"
  BY <1>1, <1>3 DEF Resolve, Answer, Drain, Selected, NoStamp, Valid, Contradictory, Sources
<1>4. CASE e.mode = "off"
  BY <1>1, <1>4 DEF Resolve, Answer, Off, Selected, NoStamp, Valid, Contradictory, Sources
<1>5. CASE e.mode = "auto" /\ (e.deliver = "1" \/ e.gather = "1")
  BY <1>1, <1>5 DEF Resolve, Answer, Selected, NoStamp, Valid, Contradictory, Sources
<1>6. CASE e.mode = "auto" /\ e.deliver # "1" /\ e.gather # "1"
  <2>1. CASE e.perRequest = "1"
    <3>1. Resolve(e, k, g) = AskedDefault(e, k, g)
      BY <1>1, <1>6, <2>1 DEF Resolve, NoStamp
    <3> QED BY <1>1, <1>6, <3>1 DEF AskedDefault, Answer, Hybrid, HybridImpossible, Drain, Off,
                                    NoChoice, Selected, Sources
  <2>2. CASE e.perRequest # "1"
    <3>1. Resolve(e, k, g) = NoAskDefault(e, k, g)
      BY <1>1, <1>6, <2>2 DEF Resolve, NoStamp
    <3> QED BY <1>1, <1>6, <3>1 DEF NoAskDefault, Answer, Hybrid, HybridImpossible, Drain, Off,
                                    NoChoice, Selected, Sources
  <2> QED BY <2>1, <2>2
<1> QED BY <1>1, <1>2, <1>3, <1>4, <1>5, <1>6 DEF Modes

\* The environment the selector leaves never arms both deliveries: the gather
\* process delivers exactly when the choice is the hybrid, and the in-drain
\* writer is armed whenever the choice is the drain (apply).
THEOREM OnePathIsArmed ==
  ASSUME NEW e \in Envs, e.stamp = NoStamp, NEW k \in Kinds, NEW g \in BOOLEAN,
         Resolve(e, k, g).ok
  PROVE  LET s == Resolve(e, k, g)
             a == Applied(e, s)
         IN /\ ~(a.perRequest = "1" /\ a.deliver = "1")
            /\ s.mode = "hybrid" <=> a.deliver = "1"
            /\ s.mode = "drain" => a.perRequest = "1"
<1> DEFINE s == Resolve(e, k, g)
<1>1. Answer(e, s)
  BY ResolvedAnswer
<1> HIDE DEF s
<1> QED BY <1>1 DEF s, Answer, Applied, Armed, Selected, Envs

\* A process that starts from the stamped environment makes the same choice,
\* whatever its own worker kind and graph mode, and applying it again changes
\* nothing: every process of an engine agrees on the delivery.  The exception
\* is the choice the selector did not arm, a gather switched on by hand.
THEOREM ChildAgrees ==
  ASSUME NEW e \in Envs, e.stamp = NoStamp, NEW k \in Kinds, NEW g \in BOOLEAN,
         Resolve(e, k, g).ok,
         Resolve(e, k, g).mode # "off", Resolve(e, k, g).arms,
         NEW k2 \in Kinds, NEW g2 \in BOOLEAN
  PROVE  LET s == Resolve(e, k, g)
             a == Applied(e, s)
         IN Resolve(a, k2, g2) = s /\ Applied(a, s) = a
<1> DEFINE s == Resolve(e, k, g)
           a == Applied(e, s)
<1>1. Answer(e, s) /\ s.arms
  BY ResolvedAnswer
<1> HIDE DEF s
<1>2. CASE \E x \in {"default", "explicit"} : s = Selected("hybrid", x, TRUE) /\ ~HybridImpossible(e)
  <2>1. PICK x \in {"default", "explicit"} : s = Selected("hybrid", x, TRUE) /\ ~HybridImpossible(e)
    BY <1>2
  <2>2. /\ a.stamp = [mode |-> "hybrid", source |-> x]
        /\ ~HybridImpossible(a)
    BY <2>1 DEF Applied, Armed, Selected, Envs, HybridImpossible
  <2>3. Resolve(a, k2, g2) = s
    <3>1. a.stamp.mode = "hybrid" /\ a.stamp.source = x
      BY <2>2
    <3>2. Resolve(a, k2, g2) = Hybrid(a, x)
      BY <3>1 DEF Resolve
    <3> QED BY <2>1, <2>2, <3>2 DEF Hybrid
  <2>4. Applied(a, s) = a
    BY <2>1, ZenonT(40) DEF Applied, Armed, Selected, Envs
  <2> QED BY <2>3, <2>4 DEF s
<1>3. CASE \E x \in Sources : s = Selected("drain", x, TRUE)
  <2>1. PICK x \in Sources : s = Selected("drain", x, TRUE)
    BY <1>3
  <2>2. a.stamp = [mode |-> "drain", source |-> x]
    BY <2>1 DEF Applied, Armed, Selected, Envs
  <2>3. Resolve(a, k2, g2) = s
    <3>1. a.stamp.mode = "drain" /\ a.stamp.source = x
      BY <2>2
    <3>2. Resolve(a, k2, g2) = Drain(x)
      BY <3>1 DEF Resolve
    <3> QED BY <2>1, <3>2 DEF Drain
  <2>4. Applied(a, s) = a
    BY <2>1 DEF Applied, Armed, Selected, Envs
  <2> QED BY <2>3, <2>4 DEF s
<1> QED BY <1>1, <1>2, <1>3 DEF Answer, Selected

\* What the selector writes never contradicts the user's mode: a process that
\* only validates the environment accepts it.
THEOREM AppliedValidates ==
  ASSUME NEW e \in Envs, e.stamp = NoStamp, NEW k \in Kinds, NEW g \in BOOLEAN,
         Resolve(e, k, g).ok
  PROVE  Valid(Applied(e, Resolve(e, k, g)))
<1> DEFINE s == Resolve(e, k, g)
<1>1. Valid(e) /\ Answer(e, s)
  BY ResolvedAnswer
<1> HIDE DEF s
<1>2. Valid(Applied(e, s))
  <2>1. CASE ~s.arms
    BY <1>1, <2>1 DEF Answer, Applied, Armed, Selected, Envs, Valid, Contradictory
  <2>2. CASE s.arms /\ s.mode = "hybrid"
    BY <1>1, <2>2 DEF Answer, Applied, Armed, Selected, Envs, Valid, Contradictory
  <2>3. CASE s.arms /\ s.mode = "drain"
    BY <1>1, <2>3 DEF Answer, Applied, Armed, Selected, Envs, Valid, Contradictory
  <2> QED BY <1>1, <2>1, <2>2, <2>3 DEF Answer, Selected
<1> QED BY <1>2 DEF s

\* An engine nobody asked anything of always starts: the default never refuses
\* a map, a write mode, a sink or a worker that cannot take the hybrid
\* (_no_ask_default).
THEOREM PlainRunResolves ==
  ASSUME NEW e \in Envs, e.stamp = NoStamp, e.mode = "auto",
         e.perRequest # "1", e.gather # "1", e.deliver # "1",
         NEW k \in Kinds, NEW g \in BOOLEAN
  PROVE  Resolve(e, k, g).ok
<1>1. Resolve(e, k, g) = NoAskDefault(e, k, g)
  BY DEF Resolve, NoStamp, Valid, Contradictory
<1> QED BY <1>1 DEF NoAskDefault, Hybrid, Drain, Off, Selected, NoChoice

\* A process that inherited the stamp and builds an engine of its own, with
\* nothing armed by hand, makes the choice it would have made from the user's
\* environment: nothing of the outer engine's delivery is left in it.
THEOREM NestedEngineResolvesFresh ==
  ASSUME NEW e \in Envs, e.stamp = NoStamp, e.dp = 1,
         e.perRequest # "1", e.gather # "1", e.deliver # "1",
         NEW n \in Nat, NEW k \in Kinds, NEW g \in BOOLEAN,
         Resolve(EngineEnv(e, n), k, g).ok, Resolve(EngineEnv(e, n), k, g).mode # "off",
         NEW k2 \in Kinds, NEW g2 \in BOOLEAN
  PROVE  LET outer == EngineEnv(e, n)
         IN Resolve(Dropped(Applied(outer, Resolve(outer, k, g))), k2, g2) = Resolve(e, k2, g2)
<1> DEFINE o == EngineEnv(e, n)
           s == Resolve(o, k, g)
           d == Dropped(Applied(o, s))
<1>1. /\ o \in Envs /\ o.stamp = NoStamp
      /\ \A x \in {"mode", "perRequest", "gather", "deliver", "profile", "sinkDrop", "mmap", "legacy"} :
           o[x] = e[x]
  BY DEF EngineEnv, Envs
<1>2. Answer(o, s) /\ s.mode # "off" /\ o.deliver # "1"
  BY <1>1, ResolvedAnswer
<1> HIDE DEF s
<1>3. s.arms /\ s.mode \in {"hybrid", "drain"} /\ (s.mode = "drain" => o.mode \in {"auto", "drain"})
  BY <1>2 DEF Answer, Selected
<1>4. /\ \A x \in {"mode", "profile", "sinkDrop", "mmap", "legacy"} : d[x] = e[x]
      /\ d.stamp = NoStamp /\ d.dp = 1
  BY <1>1, <1>3 DEF Dropped, Applied, Armed, Envs
<1>5. d.perRequest # "1" /\ d.gather # "1" /\ d.deliver # "1"
  BY <1>1, <1>3 DEF Dropped, Applied, Armed, Envs, Cleared
<1> HIDE DEF d
<1>6. /\ d.mode = e.mode /\ d.profile = e.profile /\ d.sinkDrop = e.sinkDrop
      /\ d.mmap = e.mmap /\ d.legacy = e.legacy
  BY <1>4
<1>7. Valid(d) <=> Valid(e)
  BY <1>5, <1>6 DEF Valid, Contradictory
<1>8. Hybrid(d, "explicit") = Hybrid(e, "explicit")
  BY <1>6 DEF Hybrid, HybridImpossible
<1>9. NoAskDefault(d, k2, g2) = NoAskDefault(e, k2, g2)
  BY <1>4, <1>6 DEF NoAskDefault, Hybrid, HybridImpossible
<1>10. d.stamp.mode = "none" /\ e.stamp.mode = "none"
  BY <1>4 DEF NoStamp
<1>11. Resolve(d, k2, g2) = Resolve(e, k2, g2)
  BY <1>5, <1>6, <1>7, <1>8, <1>9, <1>10 DEF Resolve
<1> QED BY <1>11 DEF d, s

-----------------------------------------------------------------------------
(***************************************************************************)
(* ApertureSizing: what the sizes guarantee for every GPU and model.       *)
(***************************************************************************)

LEMMA Division == ASSUME NEW m \in Nat \ {0}, NEW l \in Nat
                  PROVE  /\ l \div m \in Nat
                         /\ m * (l \div m) <= l
                         /\ l < m * ((l \div m) + 1)
OBVIOUS

LEMMA Monotone == ASSUME NEW m \in Nat, NEW a \in Nat, NEW c \in Nat, a <= c
                  PROVE  m * a <= m * c
OBVIOUS

LEMMA Products == ASSUME NEW a \in Nat \ {0}, NEW c \in Nat \ {0} PROVE a * c \in Nat \ {0}
OBVIOUS

LEMMA Cancel == ASSUME NEW m \in Nat \ {0}, NEW a \in Nat, NEW c \in Nat, m * a < m * c
                PROVE  a < c
<1>1. CASE c <= a
  BY <1>1, Monotone
<1> QED BY <1>1

LEMMA SizedValue == ASSUME NEW v PROVE Sized(v).ok = TRUE /\ Sized(v).value = v
BY DEF Sized

\* A quotient is the largest number of shares.
LEMMA Shares == ASSUME NEW m \in Nat \ {0}, NEW l \in Nat, NEW n \in Nat
                PROVE  n <= l \div m <=> m * n <= l
<1> DEFINE q == l \div m
<1>1. q \in Nat /\ m * q <= l /\ l < m * (q + 1)
  BY Division
<1> HIDE DEF q
<1>2. ASSUME n <= q PROVE m * n <= l
  <2>1. m * n <= m * q /\ m * n \in Nat /\ m * q \in Nat
    BY <1>1, <1>2, Monotone
  <2> QED BY <1>1, <2>1
<1>3. ASSUME m * n <= l PROVE n <= q
  <2>1. m * n < m * (q + 1)
    BY <1>1, <1>3
  <2> QED BY <1>1, <2>1, Cancel
<1> QED BY <1>2, <1>3 DEF q

\* A ring of the default size, or of the size one step needs, holds a step of
\* the largest batch: with no size set by hand no single step is wider than the
\* ring, so none waits for slots it could never be given (reserve).
THEOREM RingHoldsOneStep ==
  ASSUME NEW free \in Nat, NEW aperture \in Nat, NEW cap \in Nat \ {0},
         NEW layers \in Nat \ {0}, NEW rowBytes \in Nat \ {0},
         RingRows(free, aperture, FALSE, cap, layers, rowBytes).ok
  PROVE  RingRows(free, aperture, FALSE, cap, layers, rowBytes).value >= cap
<1> DEFINE w == layers * rowBytes
           need == cap * w
           size == Larger(aperture, need)
<1>1. w \in Nat \ {0} /\ need \in Nat \ {0}
  BY Products
<1> HIDE DEF w
<1>2. ModelSized(cap, w) = need
  BY <1>1 DEF ModelSized
<1> HIDE DEF need
<1>3. size \in Nat /\ need <= size
  BY <1>1 DEF Larger
<1> HIDE DEF size
<1>4. cap <= size \div w /\ size \div w \in Nat
  <2>1. w * cap <= size
    BY <1>1, <1>3 DEF need
  <2> QED BY <1>1, <1>3, <2>1, Shares, Division
<1>5. RingRows(free, aperture, FALSE, cap, layers, rowBytes) = Sized(size \div w)
  BY <1>2 DEF RingRows, ApertureBytes, Fixed, Sized, SizingFails, w, size
<1>6. RingRows(free, aperture, FALSE, cap, layers, rowBytes).value = size \div w
  BY <1>5, SizedValue
<1> QED BY <1>4, <1>6

\* The bytes a step of n tokens claims beside the headroom: safety times its
\* rows, and the ring, which grows with the step unless its size is set by hand.
Claimed(n, aperture, explicit, b, safety) ==
  n * (b * safety) + IF explicit THEN aperture ELSE Larger(aperture, n * b)

\* Whatever the branch, n tokens fit exactly when n is within the cap.
LEMMA CapIsTheBound ==
  ASSUME NEW free \in Nat, NEW near \in Nat, NEW aperture \in Nat, NEW explicit \in BOOLEAN,
         NEW b \in Nat \ {0}, NEW safety \in Nat \ {0}, NEW headroom \in Nat,
         DerivedCap(free, near, aperture, explicit, b, safety, headroom).ok,
         NEW n \in Nat \ {0}
  PROVE  LET c == DerivedCap(free, near, aperture, explicit, b, safety, headroom).value
         IN /\ c \in Nat
            /\ n <= c <=> Claimed(n, aperture, explicit, b, safety) + headroom <= near
<1> DEFINE beside == CapBeside(near, aperture, b, safety, headroom)
           margin == near - aperture - headroom
           wide == near - headroom
           bs == b * safety
           bg == b * (safety + 1)
           grown == wide \div bg
           boundary == aperture \div b
<1>1. bs \in Nat \ {0} /\ bg \in Nat \ {0} /\ n * bs \in Nat \ {0} /\ n * b \in Nat \ {0}
      /\ n * bg = n * bs + n * b
  BY Products
<1>2. DerivedCap(free, near, aperture, explicit, b, safety, headroom) =
        IF beside # None /\ ~explicit /\ beside * b > aperture
        THEN Sized(CapGrowing(near, aperture, b, safety, headroom)) ELSE Sized(beside)
  BY DEF DerivedCap, SizingFails
<1>3. beside \in Nat /\ (n <= beside <=> n * bs + aperture + headroom <= near)
  <2>1. CASE margin <= 0
    BY <1>1, <2>1 DEF CapBeside, None
  <2>2. CASE margin > 0
    <3>1. margin \in Nat /\ beside = margin \div bs
      BY <1>1, <2>2 DEF CapBeside
    <3> HIDE DEF bs, beside, margin
    <3>2. beside \in Nat /\ (n <= beside <=> bs * n <= margin)
      BY <1>1, <3>1, Shares, Division
    <3>3. bs * n = n * bs
      BY <1>1
    <3> QED BY <1>1, <3>2, <3>3 DEF margin
  <2> QED BY <2>1, <2>2
<1>4. CASE explicit
  <2>1. DerivedCap(free, near, aperture, explicit, b, safety, headroom).value = beside
    BY <1>2, <1>4 DEF Sized
  <2> QED BY <1>3, <1>4, <2>1 DEF Claimed
<1>5. CASE ~explicit /\ ~(beside # None /\ beside * b > aperture)
  <2>1. DerivedCap(free, near, aperture, explicit, b, safety, headroom).value = beside
    BY <1>2, <1>5 DEF Sized
  <2>2. beside * b <= aperture
    BY <1>3, <1>5 DEF None
  <2>3. ASSUME n <= beside PROVE n * b <= aperture
    <3>1. b * n <= b * beside
      BY <1>3, <2>3, Monotone
    <3> HIDE DEF beside
    <3> QED BY <1>3, <2>2, <3>1
  <2> HIDE DEF beside, bs
  <2>4. Claimed(n, aperture, explicit, b, safety) = n * bs + Larger(aperture, n * b)
    BY <1>5 DEF Claimed, bs
  <2> QED BY <1>1, <1>3, <2>1, <2>3, <2>4 DEF Larger
<1>6. CASE ~explicit /\ beside # None /\ beside * b > aperture
  <2>1. margin > 0
    BY <1>6 DEF CapBeside
  <2>2. /\ wide \in Nat /\ wide > 0 /\ wide = margin + aperture
        /\ CapGrowing(near, aperture, b, safety, headroom) =
             IF grown * b > aperture THEN grown ELSE boundary
    BY <2>1 DEF CapGrowing
  <2>3. Claimed(n, aperture, explicit, b, safety) = n * bs + Larger(aperture, n * b)
    BY <1>6 DEF Claimed
  <2>4. /\ grown \in Nat /\ boundary \in Nat
        /\ n <= grown <=> n * bs + n * b <= wide
        /\ n <= boundary <=> n * b <= aperture
    <3>1. bg * n = n * bg /\ b * n = n * b
      BY <1>1
    <3>2. bg * n = n * bs + n * b
      BY <1>1, <3>1
    <3> HIDE DEF bg, wide
    <3>3. grown \in Nat /\ (n <= grown <=> bg * n <= wide)
      BY <1>1, <2>2, Shares, Division
    <3>4. boundary \in Nat /\ (n <= boundary <=> b * n <= aperture)
      BY Shares, Division
    <3> QED BY <3>1, <3>2, <3>3, <3>4
  <2>5. ASSUME n * b <= aperture PROVE n * bs + aperture <= wide
    <3>1. b * n < b * beside
      BY <1>3, <1>6, <2>5
    <3>2. n < beside
      BY <1>3, <3>1, Cancel
    <3> HIDE DEF beside, bs
    <3> QED BY <1>1, <1>3, <2>2, <3>2
  <2>6. ASSUME grown * b > aperture, n <= grown, n * b <= aperture PROVE n * bs + aperture <= wide
    BY <2>5, <2>6
  <2>7. ASSUME grown * b > aperture, n * b <= aperture PROVE n <= grown
    <3>1. b * n < b * grown
      BY <2>4, <2>7
    <3> HIDE DEF grown
    <3> QED BY <2>4, <3>1, Cancel
  <2>8. ASSUME grown * b <= aperture, n <= grown PROVE n * b <= aperture
    <3>1. b * n <= b * grown
      BY <2>4, <2>8, Monotone
    <3> HIDE DEF grown
    <3> QED BY <2>4, <2>8, <3>1
  <2>9. DerivedCap(free, near, aperture, explicit, b, safety, headroom).value =
          IF grown * b > aperture THEN grown ELSE boundary
    BY <1>2, <1>6, <2>2 DEF Sized
  <2>10. CASE n * b <= aperture
    <3>1. n <= boundary /\ n * bs + aperture <= wide
      BY <2>4, <2>5, <2>10
    <3>2. Claimed(n, aperture, explicit, b, safety) = n * bs + aperture
      BY <1>1, <2>3, <2>10 DEF Larger
    <3> HIDE DEF grown, boundary, bs
    <3> QED BY <1>1, <2>4, <2>7, <2>9, <2>10, <3>1, <3>2
  <2>11. CASE n * b > aperture
    <3>1. Claimed(n, aperture, explicit, b, safety) = n * bs + n * b
      BY <1>1, <2>3, <2>11 DEF Larger
    <3> HIDE DEF grown, boundary, bs
    <3> QED BY <1>1, <2>4, <2>8, <2>9, <2>11, <3>1
  <2> QED BY <1>1, <2>10, <2>11
<1> QED BY <1>4, <1>5, <1>6

\* The derived cap leaves room: safety times the rows of the widest step, the
\* ring that step is given and the headroom fit the margin vLLM leaves free.
THEOREM DerivedCapFits ==
  ASSUME NEW free \in Nat, NEW near \in Nat, NEW aperture \in Nat, NEW explicit \in BOOLEAN,
         NEW b \in Nat \ {0}, NEW safety \in Nat \ {0}, NEW headroom \in Nat,
         DerivedCap(free, near, aperture, explicit, b, safety, headroom).ok,
         DerivedCap(free, near, aperture, explicit, b, safety, headroom).value # None
  PROVE  LET c == DerivedCap(free, near, aperture, explicit, b, safety, headroom).value
         IN Claimed(c, aperture, explicit, b, safety) + headroom <= near
<1> DEFINE c == DerivedCap(free, near, aperture, explicit, b, safety, headroom).value
<1>1. c \in Nat \ {0}
  BY CapIsTheBound, 1 \in Nat \ {0} DEF None
<1>2. \A n \in Nat \ {0} : n <= c => Claimed(n, aperture, explicit, b, safety) + headroom <= near
  BY CapIsTheBound
<1> HIDE DEF c
<1>3. Claimed(c, aperture, explicit, b, safety) + headroom <= near
  BY <1>1, <1>2
<1> QED BY <1>3 DEF c

\* It costs nothing: no wider step would have fitted, and where the code leaves
\* the budget alone for want of a cap not even one token fits.
THEOREM DerivedCapIsLargest ==
  ASSUME NEW free \in Nat, NEW near \in Nat, NEW aperture \in Nat, NEW explicit \in BOOLEAN,
         NEW b \in Nat \ {0}, NEW safety \in Nat \ {0}, NEW headroom \in Nat,
         DerivedCap(free, near, aperture, explicit, b, safety, headroom).ok,
         NEW n \in Nat,
         n > DerivedCap(free, near, aperture, explicit, b, safety, headroom).value
  PROVE  ~(Claimed(n, aperture, explicit, b, safety) + headroom <= near)
<1> DEFINE c == DerivedCap(free, near, aperture, explicit, b, safety, headroom).value
<1>1. c \in Nat
  BY CapIsTheBound, 1 \in Nat \ {0}
<1> HIDE DEF c
<1>2. n \in Nat \ {0} /\ ~(n <= c)
  BY <1>1 DEF c
<1> QED BY <1>2, CapIsTheBound DEF c

\* An engine whose budget the plugin lowered installs: its ring is not refused,
\* and holds a step of that budget, on a rank that captures at most the layers
\* the cap was derived for.
THEOREM CappedEngineInstalls ==
  ASSUME NEW free \in Nat, NEW near \in {free, free + 1}, NEW aperture \in Nat,
         NEW layers \in Nat \ {0}, NEW owned \in 1 .. layers, NEW rowBytes \in Nat \ {0},
         NEW safety \in Nat \ {0}, NEW headroom \in Nat, NEW current \in Nat \ {0},
         DerivedCap(free, near, aperture, FALSE, layers * rowBytes, safety, headroom).ok,
         DerivedCap(free, near, aperture, FALSE, layers * rowBytes, safety, headroom).value # None
  PROVE  LET safe == DerivedCap(free, near, aperture, FALSE, layers * rowBytes, safety, headroom)
             cap == Lowered(current, safe.value)
             ring == RingRows(free, aperture, FALSE, cap, owned, rowBytes)
         IN ring.ok /\ ring.value >= cap
<1> DEFINE b == layers * rowBytes
           w == owned * rowBytes
           c == DerivedCap(free, near, aperture, FALSE, b, safety, headroom).value
           n == Lowered(current, c)
           size == Larger(aperture, n * w)
<1>1. /\ b \in Nat \ {0} /\ w \in Nat \ {0} /\ w <= b /\ near \in Nat
  <2>1. rowBytes * owned <= rowBytes * layers
    BY Monotone
  <2> QED BY <2>1, Products
<1> HIDE DEF b, w
<1>2. c \in Nat \ {0}
  BY <1>1, CapIsTheBound, 1 \in Nat \ {0} DEF None, b
<1>3. Claimed(c, aperture, FALSE, b, safety) + headroom <= near
  BY <1>1, DerivedCapFits DEF b
<1>4. aperture <= free
  <2>1. Fixed(free, aperture).ok
    BY DEF DerivedCap, SizingFails
  <2> QED BY <2>1 DEF Fixed, SizingFails
<1> HIDE DEF c
<1>5. n \in Nat \ {0} /\ n <= c
  BY <1>2 DEF Lowered, None
<1> HIDE DEF n
<1>6. c * b <= free
  <2>1. c * b \in Nat \ {0} /\ c * (b * safety) \in Nat /\ c * b <= c * (b * safety)
    <3>1. b * 1 <= b * safety /\ b * safety \in Nat
      BY <1>1, Monotone
    <3>2. c * b <= c * (b * safety)
      BY <1>1, <1>2, <3>1, Monotone
    <3> QED BY <1>1, <1>2, <3>1, <3>2, Products
  <2>2. c * (b * safety) + Larger(aperture, c * b) + headroom <= near
    BY <1>3 DEF Claimed
  <2> QED BY <2>1, <2>2 DEF Larger
<1>7. n * w <= free /\ n * w \in Nat \ {0}
  <2>1. n * w <= n * b /\ b * n <= b * c
    BY <1>1, <1>2, <1>5, Monotone
  <2> QED BY <1>1, <1>2, <1>5, <1>6, <2>1, Products
<1>8. size \in Nat /\ size <= free /\ n * w <= size
  BY <1>4, <1>7 DEF Larger
<1>9. n <= size \div w /\ size \div w \in Nat
  <2>1. w * n <= size
    BY <1>1, <1>5, <1>8
  <2> HIDE DEF size
  <2> QED BY <1>1, <1>5, <1>8, <2>1, Shares, Division
<1>10. ModelSized(n, w) = n * w
  BY <1>1, <1>5 DEF ModelSized
<1>11. RingRows(free, aperture, FALSE, n, owned, rowBytes) = Sized(size \div w)
  <2>1. ApertureBytes(free, aperture, FALSE, ModelSized(n, w)) = Sized(size)
    BY <1>8, <1>10 DEF ApertureBytes, Fixed
  <2> HIDE DEF size
  <2>2. /\ Sized(size).ok /\ Sized(size).value = size
        /\ ~(size \div w < 1)
    BY <1>5, <1>9 DEF Sized
  <2> QED BY <2>1, <2>2 DEF RingRows, w
<1>12. /\ RingRows(free, aperture, FALSE, n, owned, rowBytes).ok
       /\ RingRows(free, aperture, FALSE, n, owned, rowBytes).value = size \div w
  BY <1>11, SizedValue
<1>13. RingRows(free, aperture, FALSE, n, owned, rowBytes).value >= n
  BY <1>5, <1>9, <1>12
<1> QED BY <1>12, <1>13 DEF b, c, n

-----------------------------------------------------------------------------
(***************************************************************************)
(* DiskFlushProbe: its safety for any requests, classes and interval.      *)
(***************************************************************************)

LEMMA FlushInit == ASSUME Init PROVE FlushInv
<1>1. TypeOK
  BY DEF Init, TypeOK, States
<1> QED BY <1>1 DEF Init, FlushInv, HeldIsKept, WritingProbeDisarms

LEMMA FlushStep == ASSUME Probe \in Nat \ {0}, FlushInv, [Next]_vars PROVE FlushInv'
<1> USE DEF FlushInv, HeldIsKept, WritingProbeDisarms
<1>1. ASSUME NEW r \in Requests, FlushOwn(r) PROVE FlushInv'
  <2>1. TypeOK'
    BY <1>1 DEF FlushOwn, TypeOK, States
  <2> QED BY <1>1, <2>1 DEF FlushOwn, TypeOK
<1>2. ASSUME NEW r \in Requests, Decide(r), seen[ClassOf[r]] % Probe = 0 PROVE FlushInv'
  <2>1. ClassOf[r] \in Classes /\ seen[ClassOf[r]] \in Nat
    BY <1>2 DEF Decide, TypeOK, Classes
  <2>2. TypeOK'
    BY <1>2, <2>1 DEF Decide, TypeOK, States
  <2>3. \A k \in Classes : seen'[k] > 0 => \E s \in probed' : ClassOf[s] = k
    BY <1>2, <2>1 DEF Decide, TypeOK
  <2>4. \A s \in pending' : seen'[ClassOf[s]] > 0
    <3>1. \A s \in pending : ClassOf[s] \in Classes
      BY DEF Classes, TypeOK
    <3> QED BY <1>2, <2>1, <3>1 DEF Decide, TypeOK
  <2>5. call' = [call EXCEPT ![r] = "probe"] /\ probed' = probed \cup {r}
        /\ UNCHANGED <<pending, left, disarmed, flushed>> /\ call[r] = "new"
    BY <1>2 DEF Decide
  <2> QED BY <2>2, <2>3, <2>4, <2>5 DEF TypeOK
<1>3. ASSUME NEW r \in Requests, Decide(r), seen[ClassOf[r]] % Probe # 0 PROVE FlushInv'
  <2>1. ClassOf[r] \in Classes /\ seen[ClassOf[r]] \in Nat
    BY <1>3 DEF Decide, TypeOK, Classes
  <2>2. TypeOK'
    BY <1>3, <2>1 DEF Decide, TypeOK, States
  <2>3. seen[ClassOf[r]] > 0
    <3>1. 0 % Probe = 0
      OBVIOUS
    <3> QED BY <1>3, <2>1, <3>1
  <2>4. \A k \in Classes : seen'[k] > 0 => \E s \in probed' : ClassOf[s] = k
    BY <1>3, <2>1, <2>3 DEF Decide, TypeOK
  <2>5. \A s \in pending' : ClassOf[s] # NoClass /\ seen'[ClassOf[s]] > 0
    <3>1. \A s \in pending : ClassOf[s] \in Classes
      BY DEF Classes, TypeOK
    <3> QED BY <1>3, <2>1, <3>1 DEF Decide, TypeOK
  <2>6. call' = [call EXCEPT ![r] = "held"] /\ pending' = pending \cup {r} /\ ~disarmed
        /\ UNCHANGED <<probed, left, disarmed, flushed>> /\ call[r] = "new"
    BY <1>3 DEF Decide
  <2> QED BY <2>2, <2>4, <2>5, <2>6 DEF TypeOK
<1>4. ASSUME NEW r \in Requests, FlushReturns(r) PROVE FlushInv'
  <2>1. TypeOK'
    BY <1>4 DEF FlushReturns, TypeOK, States
  <2>2. call' = [call EXCEPT ![r] = "done"] /\ flushed' = flushed \cup {r}
        /\ UNCHANGED <<probed, seen, pending, left, disarmed>>
        /\ call[r] \in {"own", "probe"}
    BY <1>4 DEF FlushReturns
  <2>3. r \in probed \cap Writes => disarmed
    BY <1>4 DEF FlushReturns
  <2>4. WritingProbeDisarms'
    BY <2>2, <2>3 DEF TypeOK
  <2>5. HeldIsKept'
    BY <2>2 DEF TypeOK
  <2>6. left[r] = {}
    BY <2>2
  <2> QED BY <2>1, <2>2, <2>4, <2>5, <2>6 DEF TypeOK
<1>5. ASSUME NEW r \in Requests, ProbeWrote(r) PROVE FlushInv'
  <2>1. TypeOK'
    BY <1>5 DEF ProbeWrote, TypeOK, States
  <2>2. left[r] = {} /\ left' = [left EXCEPT ![r] = pending] /\ pending' = {}
        /\ flushed' = flushed \cup {r}
    BY <1>5 DEF ProbeWrote, TypeOK
  <2>3. HeldIsKept'
    <3> SUFFICES ASSUME NEW q \in Requests, call'[q] = "held"
                 PROVE  q \in flushed' \/ q \in pending' \/ \E s \in Requests : q \in left'[s]
      OBVIOUS
    <3>1. call[q] = "held"
      BY <1>5 DEF ProbeWrote, TypeOK
    <3>2. CASE q \in pending
      BY <2>2, <3>2 DEF TypeOK
    <3>3. CASE \E s \in Requests : q \in left[s]
      BY <2>2, <3>3 DEF TypeOK
    <3> QED BY <2>2, <3>1, <3>2, <3>3
  <2> QED BY <1>5, <2>1, <2>2, <2>3 DEF ProbeWrote, TypeOK
<1>6. ASSUME NEW r \in Requests, NEW s \in Requests, SweepOne(r, s) PROVE FlushInv'
  <2>1. TypeOK'
    BY <1>6 DEF SweepOne, TypeOK, States
  <2>2. \A q \in Requests : left'[q] \subseteq left[q] /\ left[q] \subseteq left'[q] \cup {s}
    BY <1>6 DEF SweepOne, TypeOK
  <2>3. HeldIsKept'
    BY <1>6, <2>2 DEF SweepOne
  <2> QED BY <1>6, <2>1, <2>2, <2>3 DEF SweepOne, TypeOK
<1>7. ASSUME NEW r \in Requests, SweepEnds(r) PROVE FlushInv'
  <2>1. TypeOK'
    BY <1>7 DEF SweepEnds, TypeOK, States
  <2>2. call[r] = "sweep" /\ call' = [call EXCEPT ![r] = "done"] /\ left[r] = {}
        /\ UNCHANGED <<probed, seen, pending, left, disarmed, flushed>>
    BY <1>7 DEF SweepEnds
  <2>3. r \in flushed
    BY <2>2
  <2> QED BY <2>1, <2>2, <2>3 DEF TypeOK
<1>8. ASSUME NEW r \in Requests, Leaves(r) PROVE FlushInv'
  <2>1. TypeOK'
    BY <1>8 DEF Leaves, TypeOK, States
  <2>2. call' = [call EXCEPT ![r] = "gone"] /\ flushed \subseteq flushed'
        /\ UNCHANGED <<probed, seen, pending, left, disarmed>>
    BY <1>8 DEF Leaves
  <2> QED BY <2>1, <2>2 DEF TypeOK
<1>9. CASE UNCHANGED vars
  BY <1>9 DEF vars, TypeOK
<1>10. CASE Next
  BY <1>1, <1>2, <1>3, <1>4, <1>5, <1>6, <1>7, <1>8, <1>10 DEF Next
<1> QED BY <1>9, <1>10

\* The invariant the results below rest on.
THEOREM FlushInvAlways == ASSUME Probe \in Nat \ {0} PROVE Spec => []FlushInv
BY FlushInit, FlushStep, PTL DEF Spec

\* A request whose flush was held back is flushed, still held, or in the hands
\* of the caller that sweeps.
THEOREM HeldRequestsAreKept == ASSUME Probe \in Nat \ {0} PROVE Spec => []HeldIsKept
<1>1. FlushInv => HeldIsKept
  BY DEF FlushInv
<1> QED BY <1>1, FlushInvAlways, PTL

\* Once a probe came back with rows and every call has returned, uncut, the
\* workers have flushed every request that finished, the held ones included.
THEOREM NothingIsLeftBehind ==
  ASSUME Probe \in Nat \ {0}
  PROVE  Spec => [](WritingProbeDisarms /\ NothingStaysBehind)
<1>1. FlushInv => WritingProbeDisarms /\ NothingStaysBehind
  BY DEF FlushInv, TypeOK, States, HeldIsKept, WritingProbeDisarms, NothingStaysBehind
<1> QED BY <1>1, FlushInvAlways, PTL

\* No class holds a flush back before one of its requests was a probe.
THEOREM ProbesComeFirst == ASSUME Probe \in Nat \ {0} PROVE Spec => []ProbeComesFirst
<1>1. FlushInv => ProbeComesFirst
  BY DEF FlushInv, TypeOK, Classes, ProbeComesFirst
<1> QED BY <1>1, FlushInvAlways, PTL

-----------------------------------------------------------------------------
(***************************************************************************)
(* RunDirLock: for any number of engines and any pool of inode numbers at  *)
(* most one engine is live on a run directory.                             *)
(***************************************************************************)

\* The variables hold what they should: lock_run_dir and release_run_lock keep
\* path, descriptors and flock holders well formed.
THEOREM LockTypeCorrect == LockSpec => []LockTypeOK
<1>1. LockInit => LockTypeOK
  BY DEF LockInit, LockTypeOK
<1>2. LockTypeOK /\ [LockNext]_lockVars => LockTypeOK'
  <2> SUFFICES ASSUME LockTypeOK, [LockNext]_lockVars PROVE LockTypeOK'
    OBVIOUS
  <2> USE DEF LockTypeOK
  <2>1. CASE UNCHANGED lockVars
    BY <2>1 DEF lockVars
  <2>2. ASSUME NEW e \in Engines, OpenLockFile(e) PROVE LockTypeOK'
    BY <2>2 DEF OpenLockFile, FreeInodes
  <2>3. ASSUME NEW e \in Engines, TryFlock(e) PROVE LockTypeOK'
    BY <2>3 DEF TryFlock
  <2>4. ASSUME NEW e \in Engines, CheckInode(e) PROVE LockTypeOK'
    BY <2>4 DEF CheckInode, Unlocked
  <2>5. ASSUME NEW e \in Engines, UnlinkLockFile(e) PROVE LockTypeOK'
    BY <2>5 DEF UnlinkLockFile
  <2>6. ASSUME NEW e \in Engines, CloseLockFile(e) PROVE LockTypeOK'
    BY <2>6 DEF CloseLockFile, Unlocked
  <2>7. ASSUME NEW e \in Engines, Crash(e) PROVE LockTypeOK'
    BY <2>7 DEF Crash, Unlocked
  <2> QED BY <2>1, <2>2, <2>3, <2>4, <2>5, <2>6, <2>7 DEF LockNext, LockStep
<1> QED BY <1>1, <1>2, PTL DEF LockSpec

\* A flock is held by an engine whose descriptor refers to the file, so two
\* engines that hold the same file's flock are the same engine.
LEMMA LockInvExcludes == LockInv => MutualExclusion
BY DEF LockInv, MutualExclusion, Live

\* Every step preserves LockInv: in particular an unlink leaves no other engine
\* live, because a live engine's file is the one at the path.
LEMMA LockInvStep == LockTypeOK /\ LockInv /\ [LockNext]_lockVars => LockInv'
<1> SUFFICES ASSUME LockTypeOK, LockInv, [LockNext]_lockVars PROVE LockInv'
  OBVIOUS
<1> USE RunDirLockAssumption DEF LockTypeOK, LockInv, Live
<1>1. CASE UNCHANGED lockVars
  BY <1>1 DEF lockVars
<1>2. ASSUME NEW e \in Engines, OpenLockFile(e) PROVE LockInv'
  BY <1>2 DEF OpenLockFile, FreeInodes
<1>3. ASSUME NEW e \in Engines, TryFlock(e) PROVE LockInv'
  BY <1>3 DEF TryFlock
<1>4. ASSUME NEW e \in Engines, CheckInode(e) PROVE LockInv'
  BY <1>4 DEF CheckInode, Unlocked, SameFile
<1>5. ASSUME NEW e \in Engines, UnlinkLockFile(e) PROVE LockInv'
  BY <1>5 DEF UnlinkLockFile
<1>6. ASSUME NEW e \in Engines, CloseLockFile(e) PROVE LockInv'
  BY <1>6 DEF CloseLockFile, Unlocked
<1>7. ASSUME NEW e \in Engines, Crash(e) PROVE LockInv'
  BY <1>7 DEF Crash, Unlocked
<1> QED BY <1>1, <1>2, <1>3, <1>4, <1>5, <1>6, <1>7 DEF LockNext, LockStep

LEMMA LockInvAlways == LockSpec => []LockInv
<1>1. LockInit => LockInv
  BY RunDirLockAssumption DEF LockInit, LockInv, Live
<1> QED BY <1>1, LockInvStep, LockTypeCorrect, PTL DEF LockSpec

\* lock_run_dir: at most one engine is live on the run directory, whatever is
\* unlinked, recreated, left behind by a dead process or given a reused inode.
THEOREM LockExcludes == LockSpec => []MutualExclusion
BY LockInvAlways, LockInvExcludes, PTL

\* release_run_lock of one engine never unlinks the lock file of a live one.
THEOREM LiveLockStaysInPlace == LockSpec => LiveLockStays
<1>1. LockTypeOK /\ LockInv /\ [LockNext]_lockVars
        => [ \A e \in Engines : Live(e) /\ pc'[e] = "live" => path' = fd[e] ]_lockVars
  <2> SUFFICES ASSUME LockTypeOK, LockInv, [LockNext]_lockVars,
                      NEW e \in Engines, Live(e), pc'[e] = "live", lockVars' # lockVars
               PROVE  path' = fd[e]
    BY DEF lockVars
  <2> USE RunDirLockAssumption DEF LockTypeOK, LockInv, Live
  <2>1. PICK d \in Engines : LockStep(d) \/ Crash(d)
    BY DEF LockNext
  <2> QED BY <2>1 DEF LockStep, OpenLockFile, TryFlock, CheckInode, UnlinkLockFile,
                      CloseLockFile, Crash, Unlocked, SameFile
<1> QED BY <1>1, LockInvAlways, LockTypeCorrect, PTL DEF LockSpec, LiveLockStays

-----------------------------------------------------------------------------
(***************************************************************************)
(* SteerRouting: whichever way fills the slab, each forward meets the      *)
(* cells its batch asked for.  First the arithmetic of a batch and the     *)
(* vector table, then what a column steers, then a lemma for each action.  *)
(***************************************************************************)

(* Numbers. *)

\* The order of the naturals is well-founded, as a fact about one set.
LEMMA Least ==
  ASSUME NEW T, T \subseteq Nat, T # {}
  PROVE  \E x \in T : \A y \in T : x <= y
<1> DEFINE R == OpToRel(<, Nat)
<1>1. IsWellFoundedOn(R, Nat)
  BY NatLessThanWellFounded, Zenon
<1>2. \A x, y \in Nat : y < x => <<y, x>> \in R
  <2> SUFFICES ASSUME NEW x \in Nat, NEW y \in Nat, y < x PROVE <<y, x>> \in R
    OBVIOUS
  <2>1. R = {ss \in Nat \X Nat : ss[1] < ss[2]}
    BY Zenon DEF OpToRel
  <2> QED BY <2>1
<1> HIDE DEF R
<1>3. \E x \in T : \A y \in T : ~(<<y, x>> \in R)
  BY <1>1, WFMin, Zenon
<1>4. PICK x \in T : \A y \in T : ~(<<y, x>> \in R)
  BY <1>3
<1>5. \A y \in T : ~(y < x)
  BY <1>2, <1>4
<1> QED BY <1>5

LEMMA MinIs ==
  ASSUME NEW T, T \subseteq Nat, T # {}
  PROVE  Min(T) \in T /\ \A y \in T : Min(T) <= y
<1>1. \E x \in T : \A y \in T : x <= y
  BY Least
<1> QED BY <1>1 DEF Min

LEMMA MaxIs ==
  ASSUME NEW T, T \subseteq Nat, T # {}, NEW b \in Nat, \A y \in T : y <= b
  PROVE  Max(T) \in T /\ \A y \in T : y <= Max(T)
<1> DEFINE U == { n \in Nat : b - n \in T }
<1>1. U # {}
  <2>1. PICK y \in T : TRUE
    OBVIOUS
  <2>2. b - y \in Nat /\ b - (b - y) = y
    OBVIOUS
  <2> QED BY <2>1, <2>2
<1>2. PICK n \in U : \A m \in U : n <= m
  BY <1>1, Least
<1>3. \A y \in T : y <= b - n
  <2> SUFFICES ASSUME NEW y \in T PROVE y <= b - n
    OBVIOUS
  <2>1. b - y \in Nat /\ b - (b - y) = y
    OBVIOUS
  <2>2. n <= b - y
    BY <1>2, <2>1
  <2> QED BY <2>1, <2>2
<1>4. \E x \in T : \A y \in T : y <= x
  BY <1>2, <1>3
<1> QED BY <1>4 DEF Max

-----------------------------------------------------------------------------
(* Sums over the requests. *)

LEMMA Sizes ==
  /\ Len(Asks) \in Nat /\ Reqs = 1 .. Len(Asks)
  /\ NumLayers \in Nat \ {0} /\ Cap \in Nat \ {0} /\ VMax \in Nat \ {0} /\ Depth \in Nat \ {0}
  /\ \A m \in Ways : m.backend \in {"host", "incremental", "gpu"} /\ m.fast \in BOOLEAN
                      /\ Ahead[m.backend] \in Nat \ {0}
  /\ \A r \in Reqs : /\ Asks[r].prompt \in Nat \ {0} /\ Asks[r].gen \in Nat
                     /\ Asks[r].steer \in BOOLEAN /\ Asks[r].valid \in BOOLEAN
                     /\ Asks[r].layers \subseteq Layers /\ Asks[r].adjust \in BOOLEAN
                     /\ Asks[r].phase \in {"prefill", "decode", "both"}
                     /\ Asks[r].positions \in {"all_tokens", "last_token"}
                     /\ Length(r) \in Nat
<1>1. Len(Asks) \in Nat /\ Reqs = 1 .. Len(Asks)
  <2> DEFINE Q == {Asks[r] : r \in Reqs}
  <2>1. Asks \in Seq(Q)
    BY SteerAssumption
  <2> HIDE DEF Q
  <2> QED BY <2>1 DEF Reqs
<1>2. \A r \in Reqs : /\ Asks[r].prompt \in Nat \ {0} /\ Asks[r].gen \in Nat
                      /\ Asks[r].steer \in BOOLEAN /\ Asks[r].valid \in BOOLEAN
                      /\ Asks[r].layers \subseteq Layers /\ Asks[r].adjust \in BOOLEAN
                      /\ Asks[r].phase \in {"prefill", "decode", "both"}
                      /\ Asks[r].positions \in {"all_tokens", "last_token"}
  BY SteerAssumption
<1>3. \A r \in Reqs : Length(r) \in Nat
  BY <1>2 DEF Length
<1>4. /\ NumLayers \in Nat \ {0} /\ Cap \in Nat \ {0} /\ VMax \in Nat \ {0} /\ Depth \in Nat \ {0}
      /\ \A m \in Ways : m.backend \in {"host", "incremental", "gpu"} /\ m.fast \in BOOLEAN
                          /\ Ahead[m.backend] \in Nat \ {0}
  BY SteerAssumption
<1> QED BY <1>1, <1>2, <1>3, <1>4, Zenon

LEMMA Counts ==
  /\ Len(Asks) \in Nat /\ Reqs = 1 .. Len(Asks) /\ Cap \in Nat /\ VMax \in Nat
  /\ Depth \in Nat \ {0} /\ NumLayers \in Nat
BY Sizes

\* A function on 1 .. n is a sequence.
LEMMA SeqIs ==
  ASSUME NEW S, NEW n \in Nat, NEW f, f = [i \in 1 .. n |-> f[i]], \A i \in 1 .. n : f[i] \in S
  PROVE  f \in Seq(S) /\ Len(f) = n /\ DOMAIN f = 1 .. n
<1>1. PICK g \in [1 .. n -> S] : g = f
  OBVIOUS
<1>2. g \in Seq(S) /\ Len(g) = n /\ DOMAIN g = 1 .. n
  OBVIOUS
<1> QED BY <1>1, <1>2, Zenon

IsSum(f, n, g) == g = [i \in 0 .. n |-> IF i = 0 THEN 0 ELSE g[i - 1] + f[i]]

LEMMA SumStep ==
  ASSUME NEW f, NEW n \in Nat, NEW g, IsSum(f, n, g)
  PROVE  \E h : IsSum(f, n + 1, h)
<1> DEFINE h == [i \in 0 .. n + 1 |-> IF i = n + 1 THEN g[n] + f[n + 1] ELSE g[i]]
<1>1. \A i \in 0 .. n : g[i] = IF i = 0 THEN 0 ELSE g[i - 1] + f[i]
  BY DEF IsSum
<1>2. \A i \in 0 .. n + 1 : h[i] = IF i = 0 THEN 0 ELSE h[i - 1] + f[i]
  <2> SUFFICES ASSUME NEW i \in 0 .. n + 1
               PROVE  h[i] = IF i = 0 THEN 0 ELSE h[i - 1] + f[i]
    OBVIOUS
  <2>1. CASE i = n + 1
    BY <2>1
  <2>2. CASE i # n + 1
    BY <1>1, <2>2
  <2> QED BY <2>1, <2>2
<1>3. h = [i \in 0 .. n + 1 |-> IF i = 0 THEN 0 ELSE h[i - 1] + f[i]]
  BY <1>2
<1> QED BY <1>3 DEF IsSum

\* A sum exists for every bound, although it is defined by itself.
LEMMA SumExists ==
  ASSUME NEW f, NEW n \in Nat
  PROVE  \E g : IsSum(f, n, g)
<1> DEFINE Bad == { m \in Nat : ~ \E g : IsSum(f, m, g) }
<1>1. CASE Bad = {}
  BY <1>1
<1>2. CASE Bad # {}
  <2>1. PICK m \in Bad : \A k \in Bad : m <= k
    BY <1>2, Least
  <2>2. CASE m = 0
    <3>1. IsSum(f, 0, [i \in 0 .. 0 |-> 0])
      BY DEF IsSum
    <3> QED BY <2>1, <2>2, <3>1
  <2>3. CASE m # 0
    <3>1. m - 1 \in Nat /\ m - 1 \notin Bad
      BY <2>1, <2>3
    <3>2. PICK g : IsSum(f, m - 1, g)
      BY <3>1
    <3>3. \E h : IsSum(f, (m - 1) + 1, h)
      BY <3>1, <3>2, SumStep
    <3>4. (m - 1) + 1 = m
      BY <2>1
    <3> QED BY <2>1, <3>3, <3>4
  <2> QED BY <2>2, <2>3
<1> QED BY <1>1, <1>2

LEMMA SumUnique ==
  ASSUME NEW f, NEW n \in Nat, NEW m \in Nat, NEW g, NEW h,
         n <= m, IsSum(f, n, g), IsSum(f, m, h)
  PROVE  \A i \in 0 .. n : g[i] = h[i]
<1> DEFINE Bad == { i \in Nat : i <= n /\ g[i] # h[i] }
<1>1. \A i \in 0 .. n : /\ g[i] = IF i = 0 THEN 0 ELSE g[i - 1] + f[i]
                        /\ h[i] = IF i = 0 THEN 0 ELSE h[i - 1] + f[i]
  BY DEF IsSum
<1>2. CASE Bad # {}
  <2>1. PICK i \in Bad : \A k \in Bad : i <= k
    BY <1>2, Least
  <2>2. i # 0
    BY <1>1, <2>1
  <2>3. i - 1 \in 0 .. n /\ i - 1 \notin Bad
    BY <2>1, <2>2
  <2> QED BY <1>1, <2>1, <2>2, <2>3
<1> QED BY <1>2

LEMMA BeforeSum ==
  ASSUME NEW f, NEW r \in Int, NEW n \in Nat, n = r - 1, NEW g, IsSum(f, n, g)
  PROVE  Before(f, r) = g[n]
<1> DEFINE h == CHOOSE x : IsSum(f, n, x)
<1>1. IsSum(f, n, h)
  OBVIOUS
<1>2. Before(f, r) = h[n]
  BY DEF Before, IsSum
<1> HIDE DEF h
<1> QED BY <1>1, <1>2, SumUnique

\* What stands before a request is what stands before the last one and its own.
LEMMA BeforeIs ==
  ASSUME NEW f \in [Reqs -> Nat]
  PROVE  /\ Before(f, 1) = 0
         /\ \A r \in Reqs : Before(f, r + 1) = Before(f, r) + f[r]
         /\ \A r \in 1 .. Len(Asks) + 1 : Before(f, r) \in Nat
<1>0. Len(Asks) \in Nat /\ Reqs = 1 .. Len(Asks)
  BY Sizes
<1> USE <1>0
<1>1. PICK g : IsSum(f, Len(Asks), g)
  BY SumExists
<1>2. \A i \in 0 .. Len(Asks) : g[i] = IF i = 0 THEN 0 ELSE g[i - 1] + f[i]
  BY <1>1 DEF IsSum
<1>3. \A r \in 1 .. Len(Asks) + 1 : Before(f, r) = g[r - 1]
  <2> SUFFICES ASSUME NEW r \in 1 .. Len(Asks) + 1 PROVE Before(f, r) = g[r - 1]
    OBVIOUS
  <2>1. PICK n \in Nat : n = r - 1 /\ n <= Len(Asks) /\ r \in Int
    OBVIOUS
  <2>2. PICK h : IsSum(f, n, h)
    BY SumExists
  <2>3. Before(f, r) = h[n]
    BY <2>1, <2>2, BeforeSum
  <2>4. n \in 0 .. n /\ Len(Asks) \in Nat
    OBVIOUS
  <2>5. h[n] = g[n]
    BY <1>1, <2>1, <2>2, <2>4, SumUnique
  <2> QED BY <2>1, <2>3, <2>5
<1>4. Before(f, 1) = 0
  BY <1>2, <1>3
<1>5. \A r \in Reqs : Before(f, r + 1) = Before(f, r) + f[r]
  <2> SUFFICES ASSUME NEW r \in 1 .. Len(Asks) PROVE Before(f, r + 1) = Before(f, r) + f[r]
    OBVIOUS
  <2>1. r + 1 \in 1 .. Len(Asks) + 1 /\ r \in 1 .. Len(Asks) + 1 /\ (r + 1) - 1 = r
    OBVIOUS
  <2>2. Before(f, r + 1) = g[r] /\ Before(f, r) = g[r - 1]
    BY <1>3, <2>1
  <2>3. g[r] = g[r - 1] + f[r]
    BY <1>2
  <2> QED BY <2>2, <2>3
<1>6. \A r \in 1 .. Len(Asks) + 1 : Before(f, r) \in Nat
  <2> DEFINE Bad == { r \in Nat : r \in 1 .. Len(Asks) + 1 /\ Before(f, r) \notin Nat }
  <2>1. CASE Bad # {}
    <3>1. PICK r \in Bad : \A k \in Bad : r <= k
      BY <2>1, Least
    <3>2. r # 1
      BY <1>4, <3>1
    <3>3. r - 1 \in 1 .. Len(Asks) + 1 /\ r - 1 \notin Bad /\ r - 1 \in Reqs /\ (r - 1) + 1 = r
      BY <3>1, <3>2
    <3>4. Before(f, r) = Before(f, r - 1) + f[r - 1]
      BY <1>5, <3>3
    <3>5. Before(f, r - 1) \in Nat /\ f[r - 1] \in Nat
      BY <3>1, <3>3
    <3>6. Before(f, r) \notin Nat
      BY <3>1
    <3> HIDE DEF Bad
    <3> QED BY <3>4, <3>5, <3>6
  <2> QED BY <2>1
<1> QED BY <1>4, <1>5, <1>6

LEMMA Sums ==
  ASSUME NEW f \in [Reqs -> Nat]
  PROVE  /\ Len(Asks) \in Nat /\ Total(f) = Before(f, Len(Asks) + 1)
         /\ Before(f, 1) = 0
         /\ \A r \in 1 .. Len(Asks) : Before(f, r + 1) = Before(f, r) + f[r] /\ f[r] \in Nat
         /\ \A r \in 1 .. Len(Asks) + 1 : Before(f, r) \in Nat
<1>1. Len(Asks) \in Nat /\ Reqs = 1 .. Len(Asks)
  BY Sizes
<1> QED BY <1>1, BeforeIs DEF Total

LEMMA BeforeGrows ==
  ASSUME NEW f \in [Reqs -> Nat], NEW r \in Reqs, NEW s \in r + 1 .. Len(Asks) + 1
  PROVE  Before(f, r) + f[r] <= Before(f, s)
<1>1. /\ Len(Asks) \in Nat /\ r \in 1 .. Len(Asks)
      /\ \A q \in 1 .. Len(Asks) : Before(f, q + 1) = Before(f, q) + f[q] /\ f[q] \in Nat
      /\ \A q \in 1 .. Len(Asks) + 1 : Before(f, q) \in Nat
  BY Sizes, Sums
<1> DEFINE Bad == { k \in Nat : k \in r + 1 .. Len(Asks) + 1 /\ ~(Before(f, r) + f[r] <= Before(f, k)) }
<1>2. CASE Bad # {}
  <2>1. PICK k \in Bad : \A j \in Bad : k <= j
    BY <1>2, Least
  <2>2. k # r + 1
    BY <1>1, <2>1
  <2>3. k - 1 \in r + 1 .. Len(Asks) + 1 /\ k - 1 \notin Bad /\ k - 1 \in 1 .. Len(Asks)
    BY <1>1, <2>1, <2>2
  <2>4. Before(f, (k - 1) + 1) = Before(f, k - 1) + f[k - 1]
    BY <1>1, <2>3
  <2>5. (k - 1) + 1 = k /\ f[k - 1] \in Nat /\ Before(f, k - 1) \in Nat /\ Before(f, r) \in Nat
        /\ f[r] \in Nat
    BY <1>1, <2>3
  <2> QED BY <2>1, <2>3, <2>4, <2>5
<1>3. s \in Nat
  BY <1>1
<1> QED BY <1>2, <1>3

\* Every place below the total is one request's, and only one's.
LEMMA ColumnOwner ==
  ASSUME NEW f \in [Reqs -> Nat], NEW k \in 1 .. Total(f)
  PROVE  \E r \in Reqs : k \in Before(f, r) + 1 .. Before(f, r) + f[r]
<1>1. /\ Len(Asks) \in Nat /\ Total(f) = Before(f, Len(Asks) + 1) /\ Before(f, 1) = 0
      /\ \A q \in 1 .. Len(Asks) : Before(f, q + 1) = Before(f, q) + f[q] /\ f[q] \in Nat
      /\ \A q \in 1 .. Len(Asks) + 1 : Before(f, q) \in Nat
  BY Sums
<1> DEFINE Past == { r \in Nat : r \in 1 .. Len(Asks) + 1 /\ k <= Before(f, r) }
<1>2. Len(Asks) + 1 \in Past
  BY <1>1
<1>3. PICK r \in Past : \A s \in Past : r <= s
  BY <1>2, Least
<1>4. r # 1
  BY <1>1, <1>3
<1>5. r - 1 \in 1 .. Len(Asks) /\ r - 1 \in 1 .. Len(Asks) + 1 /\ r - 1 \notin Past
  BY <1>1, <1>3, <1>4
<1>6. Before(f, (r - 1) + 1) = Before(f, r - 1) + f[r - 1] /\ f[r - 1] \in Nat
  BY <1>1, <1>5
<1>7. (r - 1) + 1 = r /\ k <= Before(f, r) /\ ~(k <= Before(f, r - 1))
  BY <1>3, <1>5
<1>8. k \in Nat /\ Before(f, r - 1) \in Nat
  BY <1>1, <1>5
<1>9. k \in Before(f, r - 1) + 1 .. Before(f, r - 1) + f[r - 1]
  BY <1>6, <1>7, <1>8
<1> QED BY <1>5, <1>9, Sizes

LEMMA OneOwner ==
  ASSUME NEW f \in [Reqs -> Nat], NEW r \in Reqs, NEW s \in Reqs, NEW k \in Nat,
         k \in Before(f, r) + 1 .. Before(f, r) + f[r],
         k \in Before(f, s) + 1 .. Before(f, s) + f[s]
  PROVE  r = s
<1>1. /\ Len(Asks) \in Nat /\ r \in 1 .. Len(Asks) /\ s \in 1 .. Len(Asks)
      /\ f[r] \in Nat /\ f[s] \in Nat /\ Before(f, r) \in Nat /\ Before(f, s) \in Nat
  <2>1. Len(Asks) \in Nat /\ r \in 1 .. Len(Asks) /\ s \in 1 .. Len(Asks)
    BY Sizes
  <2>2. \A q \in 1 .. Len(Asks) + 1 : Before(f, q) \in Nat
    BY Sums
  <2> QED BY <2>1, <2>2
<1>2. CASE r < s
  <2>1. s \in r + 1 .. Len(Asks) + 1
    BY <1>1, <1>2
  <2>2. Before(f, r) + f[r] <= Before(f, s)
    BY <2>1, BeforeGrows
  <2> QED BY <1>1, <2>2
<1>3. CASE s < r
  <2>1. r \in s + 1 .. Len(Asks) + 1
    BY <1>1, <1>3
  <2>2. Before(f, s) + f[s] <= Before(f, r)
    BY <2>1, BeforeGrows
  <2> QED BY <1>1, <2>2
<1> QED BY <1>1, <1>2, <1>3

LEMMA WithinTotal ==
  ASSUME NEW f \in [Reqs -> Nat], NEW r \in Reqs
  PROVE  Before(f, r) \in Nat /\ Before(f, r) + f[r] <= Total(f) /\ Total(f) \in Nat
<1>1. Len(Asks) \in Nat /\ r \in 1 .. Len(Asks)
  BY Sizes
<1>2. Len(Asks) + 1 \in r + 1 .. Len(Asks) + 1 /\ r \in 1 .. Len(Asks) + 1
      /\ Len(Asks) + 1 \in 1 .. Len(Asks) + 1
  BY <1>1
<1>3. Before(f, r) + f[r] <= Before(f, Len(Asks) + 1)
  BY <1>2, BeforeGrows
<1> QED BY <1>2, <1>3, Sums

-----------------------------------------------------------------------------

LEMMA WidthIs ==
  ASSUME NEW n \in Cols
  PROVE  Width(n) \in Cols /\ n <= Width(n)
<1> DEFINE all == {n} \cup GraphSizes
<1>1. Cap \in Nat /\ Cols = 1 .. Cap /\ GraphSizes \subseteq Cols
  BY Sizes, SteerAssumption DEF Cols
<1>2. Max(all) \in all /\ \A y \in all : y <= Max(all)
  <2>1. all \subseteq Nat /\ all # {} /\ \A y \in all : y <= Cap
    BY <1>1
  <2> HIDE DEF all
  <2> QED BY <1>1, <2>1, MaxIs
<1>3. Max(all) \in Cols /\ n <= Max(all)
  BY <1>1, <1>2
<1> DEFINE two == {Cap, Max(all)}
<1>4. two \subseteq Nat /\ two # {}
  BY <1>1, <1>3
<1>5. Width(n) = Min(two)
  BY DEF Width
<1>6. Min(two) \in two /\ \A y \in two : Min(two) <= y
  <2> HIDE DEF two
  <2> QED BY <1>4, MinIs
<1>7. Max(all) <= Cap /\ (Min(two) = Cap \/ Min(two) = Max(all))
  BY <1>1, <1>3, <1>6
<1> QED BY <1>1, <1>3, <1>5, <1>7

-----------------------------------------------------------------------------
(* Recursive functions. *)

\* A function defined by its value one place before exists.
Chain(X, x, F, n, g) ==
  g \in [0 .. n -> X] /\ g[0] = x /\ \A i \in 1 .. n : g[i] = F[i][g[i - 1]]

LEMMA Iterates ==
  ASSUME NEW X, NEW x \in X, NEW F \in [Nat -> [X -> X]], NEW n \in Nat
  PROVE  \E g : Chain(X, x, F, n, g)
<1> DEFINE Has(m) == \E g \in [0 .. m -> X] : g[0] = x /\ \A i \in 1 .. m : g[i] = F[i][g[i - 1]]
           Bad == { m \in Nat : ~Has(m) }
<1>1. Has(0)
  <2> DEFINE g == [i \in 0 .. 0 |-> x]
  <2>1. g \in [0 .. 0 -> X] /\ g[0] = x /\ \A i \in 1 .. 0 : g[i] = F[i][g[i - 1]]
    OBVIOUS
  <2> HIDE DEF g
  <2> QED BY <2>1
<1>2. ASSUME NEW m \in Nat, Has(m) PROVE Has(m + 1)
  <2>1. PICK g \in [0 .. m -> X] : g[0] = x /\ \A i \in 1 .. m : g[i] = F[i][g[i - 1]]
    BY <1>2
  <2> DEFINE h == [i \in 0 .. m + 1 |-> IF i = m + 1 THEN F[m + 1][g[m]] ELSE g[i]]
  <2>2. F[m + 1][g[m]] \in X
    BY <2>1
  <2>3. h \in [0 .. m + 1 -> X]
    BY <2>1, <2>2
  <2>4. h[0] = x /\ h[m + 1] = F[m + 1][g[m]] /\ \A i \in 0 .. m : h[i] = g[i]
    BY <2>1
  <2>5. \A i \in 1 .. m + 1 : h[i] = F[i][h[i - 1]]
    <3> HIDE DEF h
    <3> SUFFICES ASSUME NEW i \in 1 .. m + 1 PROVE h[i] = F[i][h[i - 1]]
      OBVIOUS
    <3>1. CASE i = m + 1
      <4>1. i - 1 = m /\ m \in 0 .. m
        BY <3>1
      <4> QED BY <2>4, <3>1, <4>1
    <3>2. CASE i # m + 1
      <4>1. i \in 1 .. m /\ i \in 0 .. m /\ i - 1 \in 0 .. m
        BY <3>2
      <4> QED BY <2>1, <2>4, <4>1
    <3> QED BY <3>1, <3>2
  <2> HIDE DEF h
  <2> QED BY <2>3, <2>4, <2>5
<1> HIDE DEF Has
<1>3. ASSUME Bad # {} PROVE FALSE
  <2>1. PICK m \in Bad : \A k \in Bad : m <= k
    BY <1>3, Least
  <2>2. m # 0
    BY <1>1, <2>1
  <2>3. m - 1 \in Nat /\ m - 1 \notin Bad /\ (m - 1) + 1 = m
    BY <2>1, <2>2
  <2>4. Has((m - 1) + 1)
    BY <1>2, <2>3
  <2> QED BY <2>1, <2>3, <2>4
<1>4. Has(n)
  BY <1>3
<1>5. PICK g \in [0 .. n -> X] : g[0] = x /\ \A i \in 1 .. n : g[i] = F[i][g[i - 1]]
  BY <1>4 DEF Has
<1>6. Chain(X, x, F, n, g)
  BY <1>5 DEF Chain
<1> QED BY <1>6

-----------------------------------------------------------------------------
(* The requests of a batch, in order. *)

\* s lists, in order, the requests up to r that have tokens.
Lists(take, r, s) ==
  /\ s \in Seq(Reqs) /\ Len(s) <= r
  /\ \A i \in DOMAIN s : s[i] <= r /\ take[s[i]] > 0
  /\ \A i, j \in DOMAIN s : i < j => s[i] < s[j]
  /\ \A q \in Reqs : q <= r /\ take[q] > 0 => \E i \in DOMAIN s : s[i] = q

LEMMA ListsNext ==
  ASSUME NEW take, NEW r \in Reqs, NEW s, Lists(take, r - 1, s)
  PROVE  Lists(take, r, IF take[r] > 0 THEN Append(s, r) ELSE s)
<1>0. Len(Asks) \in Nat /\ Reqs = 1 .. Len(Asks) /\ r \in Nat /\ r >= 1
  BY Sizes
<1>1. s \in Seq(Reqs) /\ Len(s) \in Nat /\ DOMAIN s = 1 .. Len(s)
  BY DEF Lists
<1>2. \A i \in DOMAIN s : s[i] \in Reqs /\ s[i] \in Nat
  BY <1>0, <1>1
<1>3. CASE take[r] > 0
  <2> DEFINE t == Append(s, r)
  <2>1. /\ t \in Seq(Reqs) /\ Len(t) = Len(s) + 1 /\ DOMAIN t = 1 .. Len(s) + 1
        /\ t[Len(s) + 1] = r /\ \A i \in 1 .. Len(s) : t[i] = s[i]
    BY <1>1
  <2> HIDE DEF t
  <2>2. Len(t) <= r
    BY <1>0, <1>1, <2>1 DEF Lists
  <2>3. \A i \in DOMAIN t : t[i] <= r /\ take[t[i]] > 0
    <3> SUFFICES ASSUME NEW i \in DOMAIN t PROVE t[i] <= r /\ take[t[i]] > 0
      OBVIOUS
    <3>1. CASE i = Len(s) + 1
      BY <1>0, <1>3, <2>1, <3>1
    <3>2. CASE i # Len(s) + 1
      <4>1. i \in DOMAIN s /\ t[i] = s[i]
        BY <1>1, <2>1, <3>2
      <4>2. s[i] <= r - 1 /\ take[s[i]] > 0 /\ s[i] \in Nat
        BY <1>2, <4>1 DEF Lists
      <4> QED BY <1>0, <4>1, <4>2
    <3> QED BY <3>1, <3>2
  <2>4. \A i, j \in DOMAIN t : i < j => t[i] < t[j]
    <3> SUFFICES ASSUME NEW i \in DOMAIN t, NEW j \in DOMAIN t, i < j PROVE t[i] < t[j]
      OBVIOUS
    <3>1. i \in DOMAIN s /\ t[i] = s[i]
      BY <1>1, <2>1
    <3>2. CASE j = Len(s) + 1
      <4>1. s[i] <= r - 1 /\ s[i] \in Nat
        BY <1>2, <3>1 DEF Lists
      <4> QED BY <1>0, <2>1, <3>1, <3>2, <4>1
    <3>3. CASE j # Len(s) + 1
      <4>1. j \in DOMAIN s /\ t[j] = s[j]
        BY <1>1, <2>1, <3>3
      <4> QED BY <3>1, <4>1 DEF Lists
    <3> QED BY <3>2, <3>3
  <2>5. ASSUME NEW q \in Reqs, q <= r, take[q] > 0 PROVE \E i \in DOMAIN t : t[i] = q
    <3>1. CASE q = r
      <4>1. Len(s) + 1 \in DOMAIN t
        BY <1>1, <2>1
      <4> QED BY <2>1, <3>1, <4>1
    <3>2. CASE q # r
      <4>1. q <= r - 1
        BY <1>0, <2>5, <3>2
      <4>2. PICK i \in DOMAIN s : s[i] = q
        BY <2>5, <4>1 DEF Lists
      <4>3. i \in DOMAIN t /\ t[i] = q
        BY <1>1, <2>1, <4>2
      <4> QED BY <4>3
    <3> QED BY <3>1, <3>2
  <2>6. Lists(take, r, t)
    BY <2>1, <2>2, <2>3, <2>4, <2>5 DEF Lists
  <2> QED BY <1>3, <2>6 DEF t
<1>4. CASE ~(take[r] > 0)
  <2>1. Len(s) <= r /\ \A i \in DOMAIN s : s[i] <= r /\ take[s[i]] > 0
    <3>1. Len(s) <= r - 1 /\ \A i \in DOMAIN s : s[i] <= r - 1 /\ take[s[i]] > 0
      BY DEF Lists
    <3> QED BY <1>0, <1>1, <1>2, <3>1
  <2>2. \A q \in Reqs : q <= r /\ take[q] > 0 => \E i \in DOMAIN s : s[i] = q
    <3> SUFFICES ASSUME NEW q \in Reqs, q <= r, take[q] > 0 PROVE \E i \in DOMAIN s : s[i] = q
      OBVIOUS
    <3>1. q # r
      BY <1>4
    <3>2. q <= r - 1
      BY <1>0, <3>1
    <3> QED BY <3>2 DEF Lists
  <2>3. Lists(take, r, s)
    BY <1>1, <2>1, <2>2 DEF Lists
  <2> QED BY <1>4, <2>3
<1> QED BY <1>3, <1>4

LEMMA IdsList ==
  ASSUME NEW take
  PROVE  Lists(take, Len(Asks), Ids(take))
<1>0. Len(Asks) \in Nat /\ Reqs = 1 .. Len(Asks)
  BY Sizes
<1> DEFINE N == Len(Asks)
           Next1(s, r) == IF take[r] > 0 THEN Append(s, r) ELSE s
           Is(g) == g = [r \in 0 .. N |-> IF r = 0 THEN <<>> ELSE Next1(g[r - 1], r)]
           h == CHOOSE g : Is(g)
<1>1. Ids(take) = h[N]
  BY DEF Ids
<1>2. \E g : Is(g)
  <2> DEFINE X == Seq(Nat)
             F == [r \in Nat |-> [s \in X |-> Next1(s, r)]]
  <2>1. F \in [Nat -> [X -> X]]
    <3>1. \A r \in Nat : \A s \in X : Next1(s, r) \in X
      OBVIOUS
    <3> HIDE DEF X, Next1
    <3> QED BY <3>1
  <2>2. <<>> \in X
    OBVIOUS
  <2>3. PICK g \in [0 .. N -> X] : g[0] = <<>> /\ \A i \in 1 .. N : g[i] = F[i][g[i - 1]]
    <3>1. N \in Nat
      BY <1>0
    <3>2. PICK g : Chain(X, <<>>, F, N, g)
      <4> HIDE DEF X, F, N
      <4> QED BY <2>1, <2>2, <3>1, Iterates, Zenon
    <3> HIDE DEF X, F, N
    <3> QED BY <3>2 DEF Chain
  <2>4. \A i \in 1 .. N : g[i] = Next1(g[i - 1], i)
    <3> SUFFICES ASSUME NEW i \in 1 .. N PROVE g[i] = Next1(g[i - 1], i)
      OBVIOUS
    <3>1. g[i] = F[i][g[i - 1]] /\ i \in Nat /\ i - 1 \in 0 .. N
      <4> HIDE DEF F, X
      <4> QED BY <1>0, <2>3
    <3>2. g[i - 1] \in X
      BY <2>3, <3>1
    <3> HIDE DEF X, Next1
    <3> QED BY <3>1, <3>2
  <2>5. \A r \in 0 .. N : g[r] = IF r = 0 THEN <<>> ELSE Next1(g[r - 1], r)
    <3> HIDE DEF X, F, Next1
    <3> SUFFICES ASSUME NEW r \in 0 .. N PROVE g[r] = IF r = 0 THEN <<>> ELSE Next1(g[r - 1], r)
      OBVIOUS
    <3>1. CASE r = 0
      BY <2>3, <3>1
    <3>2. CASE r # 0
      <4>1. r \in 1 .. N
        BY <1>0, <3>2
      <4> QED BY <2>4, <3>2, <4>1
    <3> QED BY <3>1, <3>2
  <2>6. g = [r \in 0 .. N |-> g[r]]
    BY <2>3
  <2> HIDE DEF X, F, Next1
  <2> QED BY <2>5, <2>6
<1>3. Is(h)
  <2> HIDE DEF Is
  <2> QED BY <1>2
<1>4. \A r \in 0 .. N : h[r] = IF r = 0 THEN <<>> ELSE Next1(h[r - 1], r)
  <2> HIDE DEF Next1, h
  <2> QED BY <1>3
<1> HIDE DEF h, Is
<1> DEFINE Bad == { r \in Nat : r <= N /\ ~Lists(take, r, h[r]) }
<1>5. Lists(take, 0, h[0])
  <2>1. h[0] = <<>>
    BY <1>0, <1>4
  <2> QED BY <1>0, <2>1 DEF Lists
<1>6. ASSUME Bad # {} PROVE FALSE
  <2>1. PICK r \in Bad : \A k \in Bad : r <= k
    BY <1>6, Least
  <2>2. r # 0
    BY <1>5, <2>1
  <2>3. r - 1 \in Nat /\ r - 1 \notin Bad /\ r \in Reqs /\ r \in 0 .. N
    BY <1>0, <2>1, <2>2
  <2>4. Lists(take, r - 1, h[r - 1])
    BY <1>0, <2>1, <2>3
  <2>5. Lists(take, r, IF take[r] > 0 THEN Append(h[r - 1], r) ELSE h[r - 1])
    BY <2>3, <2>4, ListsNext, Zenon
  <2>6. h[r] = IF take[r] > 0 THEN Append(h[r - 1], r) ELSE h[r - 1]
    BY <1>4, <2>2, <2>3
  <2> QED BY <2>1, <2>5, <2>6
<1>7. Lists(take, N, h[N])
  <2> HIDE DEF N
  <2>1. N \in Nat /\ N <= N /\ N \notin Bad
    BY <1>0, <1>6 DEF N
  <2> QED BY <2>1
<1> QED BY <1>1, <1>7

LEMMA BatchIds ==
  ASSUME NEW take \in [Reqs -> 0 .. Cap], Total(take) \in Cols
  PROVE  /\ take \in [Reqs -> Nat]
         /\ Ids(take) \in Seq(Reqs) /\ Len(Ids(take)) \in Reqs
         /\ DOMAIN Ids(take) = 1 .. Len(Ids(take))
         /\ \A i \in DOMAIN Ids(take) : Ids(take)[i] \in Reqs /\ take[Ids(take)[i]] > 0 /\ i \in Reqs
         /\ \A i, j \in DOMAIN Ids(take) : i < j => Ids(take)[i] < Ids(take)[j]
         /\ \A q \in Reqs : take[q] > 0 => \E i \in DOMAIN Ids(take) : Ids(take)[i] = q
<1>0. Len(Asks) \in Nat /\ Reqs = 1 .. Len(Asks) /\ Cap \in Nat
  BY Sizes
<1>1. take \in [Reqs -> Nat]
  BY <1>0
<1> DEFINE ids == Ids(take)
<1>2. Lists(take, Len(Asks), ids)
  BY IdsList
<1> HIDE DEF ids
<1>3. ids \in Seq(Reqs) /\ Len(ids) \in Nat /\ DOMAIN ids = 1 .. Len(ids) /\ Len(ids) <= Len(Asks)
  BY <1>2 DEF Lists
<1>4. \A q \in Reqs : take[q] > 0 => \E i \in DOMAIN ids : ids[i] = q
  <2>1. \A q \in Reqs : q <= Len(Asks)
    BY <1>0
  <2> QED BY <1>2, <2>1 DEF Lists
<1>5. Len(ids) >= 1
  <2>1. 1 \in 1 .. Total(take)
    BY <1>0 DEF Cols
  <2>2. PICK r \in Reqs : 1 \in Before(take, r) + 1 .. Before(take, r) + take[r]
    BY <1>1, <2>1, ColumnOwner
  <2>3. Before(take, r) \in Nat /\ take[r] \in Nat
    BY <1>0, <1>1, BeforeIs
  <2>4. take[r] > 0
    BY <2>2, <2>3
  <2>5. PICK i \in DOMAIN ids : TRUE
    BY <1>4, <2>4
  <2> QED BY <1>3, <2>5
<1>6. \A i \in DOMAIN ids : ids[i] \in Reqs /\ take[ids[i]] > 0 /\ i \in Reqs
  BY <1>0, <1>2, <1>3 DEF Lists
<1>7. Len(ids) \in Reqs
  BY <1>0, <1>3, <1>5
<1>8. \A i, j \in DOMAIN ids : i < j => ids[i] < ids[j]
  BY <1>2 DEF Lists
<1> QED BY <1>1, <1>3, <1>4, <1>6, <1>7, <1>8 DEF ids

\* The key's requests and tokens are those of one batch.
LEMMA OneBatch ==
  ASSUME NEW take \in [Reqs -> 0 .. Cap], Total(take) \in Cols,
         NEW t \in [Reqs -> 0 .. Cap], Total(t) \in Cols,
         Ids(take) = Ids(t),
         [i \in DOMAIN Ids(take) |-> take[Ids(take)[i]]] = [i \in DOMAIN Ids(t) |-> t[Ids(t)[i]]]
  PROVE  take = t
<1>0. Cap \in Nat
  BY Sizes
<1> DEFINE ids == Ids(take)
<1>1. /\ \A i \in DOMAIN ids : take[ids[i]] > 0
      /\ \A q \in Reqs : take[q] > 0 => \E i \in DOMAIN ids : ids[i] = q
  BY BatchIds
<1>2. /\ \A i \in DOMAIN ids : t[ids[i]] > 0
      /\ \A q \in Reqs : t[q] > 0 => \E i \in DOMAIN ids : ids[i] = q
  BY BatchIds
<1>3. [i \in DOMAIN ids |-> take[ids[i]]] = [i \in DOMAIN ids |-> t[ids[i]]]
  OBVIOUS
<1> HIDE DEF ids
<1>4. \A i \in DOMAIN ids : take[ids[i]] = t[ids[i]]
  <2> SUFFICES ASSUME NEW i \in DOMAIN ids PROVE take[ids[i]] = t[ids[i]]
    OBVIOUS
  <2>1. [k \in DOMAIN ids |-> take[ids[k]]][i] = [k \in DOMAIN ids |-> t[ids[k]]][i]
    BY <1>3
  <2> QED BY <2>1
<1>5. \A r \in Reqs : take[r] = t[r]
  <2> SUFFICES ASSUME NEW r \in Reqs PROVE take[r] = t[r]
    OBVIOUS
  <2>1. CASE \E i \in DOMAIN ids : ids[i] = r
    BY <1>4, <2>1
  <2>2. CASE ~ \E i \in DOMAIN ids : ids[i] = r
    <3>1. ~(take[r] > 0) /\ ~(t[r] > 0)
      BY <1>1, <1>2, <2>2
    <3> QED BY <1>0, <3>1
  <2> QED BY <2>1, <2>2
<1> QED BY <1>5

\* The slot of a column, found by its place among the ends, is that of the
\* request whose token the column holds.
LEMMA SlotAtIs ==
  ASSUME NEW take \in [Reqs -> 0 .. Cap], Total(take) \in Cols, NEW y,
         y.ends = [i \in DOMAIN Ids(take) |-> End(take, Ids(take)[i])], NEW j \in Cols
  PROVE  /\ Len(y.ends) = Len(Ids(take)) /\ y.ends \in Seq(Cols)
         /\ j <= Total(take) =>
              /\ SlotAt(y, j) \in DOMAIN Ids(take)
              /\ j \in First(take, Ids(take)[SlotAt(y, j)]) .. End(take, Ids(take)[SlotAt(y, j)])
              /\ j <= y.ends[Len(y.ends)]
         /\ ~(j <= Total(take)) => ~(j <= y.ends[Len(y.ends)])
<1> DEFINE ids == Ids(take)
           ends == y.ends
           N == Len(ids)
<1>1. /\ take \in [Reqs -> Nat] /\ ids \in Seq(Reqs) /\ N \in Nat /\ N >= 1 /\ DOMAIN ids = 1 .. N
      /\ \A i \in 1 .. N : ids[i] \in Reqs /\ take[ids[i]] > 0
      /\ \A i, k \in 1 .. N : i < k => ids[i] < ids[k]
      /\ \A q \in Reqs : take[q] > 0 => \E i \in 1 .. N : ids[i] = q
  <2>1. /\ take \in [Reqs -> Nat] /\ ids \in Seq(Reqs) /\ N \in Reqs /\ DOMAIN ids = 1 .. N
        /\ \A i \in DOMAIN ids : ids[i] \in Reqs /\ take[ids[i]] > 0
        /\ \A i, k \in DOMAIN ids : i < k => ids[i] < ids[k]
        /\ \A q \in Reqs : take[q] > 0 => \E i \in DOMAIN ids : ids[i] = q
    BY BatchIds
  <2> HIDE DEF ids, N
  <2>2. N \in Nat /\ N >= 1
    BY <2>1, Counts
  <2>3. DOMAIN ids = 1 .. N
    BY <2>1
  <2>4. /\ \A i \in 1 .. N : ids[i] \in Reqs /\ take[ids[i]] > 0
        /\ \A i, k \in 1 .. N : i < k => ids[i] < ids[k]
        /\ \A q \in Reqs : take[q] > 0 => \E i \in 1 .. N : ids[i] = q
    BY <2>1, <2>3, Zenon
  <2> QED BY <2>1, <2>2, <2>3, <2>4, Zenon
<1>2. Cap \in Nat /\ Total(take) \in Nat /\ Total(take) <= Cap /\ j \in Nat /\ j >= 1
  BY Sizes DEF Cols
<1> HIDE DEF ids, N
<1>3. ends = [i \in 1 .. N |-> End(take, ids[i])]
  <2>1. ends = [i \in DOMAIN ids |-> End(take, ids[i])]
    BY DEF ids
  <2> HIDE DEF ends
  <2> QED BY <1>1, <2>1
<1> HIDE DEF ends
<1>4. \A i \in 1 .. N : /\ Before(take, ids[i]) \in Nat /\ take[ids[i]] \in Nat /\ ids[i] \in Nat
                        /\ ends[i] = Before(take, ids[i]) + take[ids[i]]
                        /\ ends[i] <= Total(take) /\ ends[i] >= 1 /\ ends[i] \in Nat
  <2> SUFFICES ASSUME NEW i \in 1 .. N
               PROVE  /\ Before(take, ids[i]) \in Nat /\ take[ids[i]] \in Nat /\ ids[i] \in Nat
                      /\ ends[i] = Before(take, ids[i]) + take[ids[i]]
                      /\ ends[i] <= Total(take) /\ ends[i] >= 1 /\ ends[i] \in Nat
    OBVIOUS
  <2> DEFINE r == ids[i]
  <2>1. r \in Reqs /\ take[r] > 0
    BY <1>1
  <2>2. ends[i] = End(take, r)
    BY <1>3
  <2> HIDE DEF r
  <2>3. Before(take, r) \in Nat /\ Before(take, r) + take[r] <= Total(take)
    BY <1>1, <2>1, WithinTotal
  <2>5. take[r] \in Nat /\ r \in Nat
    BY <1>1, <2>1, Sizes
  <2>4. ends[i] = Before(take, r) + take[r]
    BY <2>2 DEF End
  <2>6. ends[i] <= Total(take) /\ ends[i] >= 1 /\ ends[i] \in Nat
    BY <1>2, <2>1, <2>3, <2>4, <2>5
  <2> QED BY <2>3, <2>4, <2>5, <2>6 DEF r
<1>5. Len(ends) = N /\ ends \in Seq(Cols)
  <2>1. \A i \in 1 .. N : ends[i] \in Cols
    <3> SUFFICES ASSUME NEW i \in 1 .. N PROVE ends[i] \in Cols
      OBVIOUS
    <3>1. ends[i] \in Nat /\ ends[i] >= 1 /\ ends[i] <= Total(take)
      BY <1>4
    <3> QED BY <1>2, <3>1 DEF Cols
  <2>2. ends = [i \in 1 .. N |-> ends[i]]
    BY <1>3
  <2> QED BY <1>1, <2>1, <2>2, SeqIs
<1>6. \A i, k \in 1 .. N : i < k => ends[i] <= Before(take, ids[k])
  <2> SUFFICES ASSUME NEW i \in 1 .. N, NEW k \in 1 .. N, i < k
               PROVE  ends[i] <= Before(take, ids[k])
    OBVIOUS
  <2>1. ids[i] \in Reqs /\ ids[k] \in Reqs /\ ids[i] < ids[k] /\ ids[i] \in Nat /\ ids[k] \in Nat
    BY <1>1, <1>4
  <2>2. Len(Asks) \in Nat /\ ids[k] \in 1 .. Len(Asks)
    BY <2>1, Sizes
  <2>3. ids[k] \in ids[i] + 1 .. Len(Asks) + 1
    <3> DEFINE a == ids[i]
               b == ids[k]
    <3>1. a \in Nat /\ b \in Nat /\ a < b /\ b <= Len(Asks)
      BY <2>1, <2>2
    <3> HIDE DEF a, b
    <3>2. b \in a + 1 .. Len(Asks) + 1
      BY <2>2, <3>1
    <3> QED BY <3>2 DEF a, b
  <2>4. Before(take, ids[i]) + take[ids[i]] <= Before(take, ids[k])
    BY <1>1, <2>1, <2>3, BeforeGrows
  <2> QED BY <1>4, <2>4
<1>7. N \in 1 .. N
  BY <1>1
<1>8. ASSUME j <= Total(take)
      PROVE  /\ SlotAt(y, j) \in 1 .. N
             /\ j \in First(take, ids[SlotAt(y, j)]) .. End(take, ids[SlotAt(y, j)])
             /\ j <= ends[N]
  <2>1. PICK r \in Reqs : j \in Before(take, r) + 1 .. Before(take, r) + take[r]
    BY <1>1, <1>2, <1>8, ColumnOwner
  <2>2. Before(take, r) \in Nat /\ take[r] \in Nat
    BY <1>1, <2>1, WithinTotal
  <2>3. take[r] > 0
    BY <2>1, <2>2
  <2>4. PICK i \in 1 .. N : ids[i] = r
    BY <1>1, <2>3
  <2> DEFINE T == { k \in 1 .. N : j <= ends[k] }
  <2>5. i \in T
    BY <1>4, <2>1, <2>2, <2>4
  <2>6. T \subseteq Nat /\ SlotAt(y, j) = Min(T)
    <3>1. T \subseteq Nat
      OBVIOUS
    <3>2. Len(y.ends) = N
      BY <1>5 DEF ends
    <3>3. T = { k \in 1 .. Len(y.ends) : j <= y.ends[k] }
      BY <3>2, Zenon DEF ends
    <3> QED BY <3>1, <3>3, Zenon DEF SlotAt
  <2>7. Min(T) \in T /\ \A k \in T : Min(T) <= k
    <3> HIDE DEF T
    <3> QED BY <2>5, <2>6, MinIs
  <2>8. PICK m \in 1 .. N : m = Min(T) /\ j <= ends[m] /\ m <= i
    BY <2>5, <2>7
  <2> HIDE DEF T
  <2>9. m = i
    <3>1. CASE m < i
      <4>1. ends[m] <= Before(take, r) /\ ends[m] \in Nat
        BY <1>4, <1>6, <2>4, <3>1
      <4> QED BY <1>2, <2>1, <2>2, <2>8, <4>1
    <3> QED BY <1>1, <2>8, <3>1
  <2>10. j <= ends[N]
    <3>1. CASE i = N
      BY <2>8, <2>9, <3>1
    <3>2. CASE i # N
      <4>1. i < N
        BY <1>1, <3>2
      <4>2. ends[i] <= Before(take, ids[N]) /\ ends[i] \in Nat /\ Before(take, ids[N]) \in Nat
            /\ take[ids[N]] \in Nat /\ ends[N] = Before(take, ids[N]) + take[ids[N]]
        BY <1>4, <1>6, <1>7, <4>1
      <4> QED BY <1>2, <2>8, <2>9, <4>2
    <3> QED BY <3>1, <3>2
  <2> QED BY <2>1, <2>4, <2>6, <2>8, <2>9, <2>10 DEF First, End
<1>9. ASSUME ~(j <= Total(take)) PROVE ~(j <= ends[N])
  <2>1. ends[N] <= Total(take) /\ ends[N] \in Nat
    BY <1>4, <1>7
  <2> QED BY <1>2, <1>9, <2>1
<1>10. j <= Total(take) => /\ SlotAt(y, j) \in 1 .. N
                           /\ j \in First(take, ids[SlotAt(y, j)]) .. End(take, ids[SlotAt(y, j)])
                           /\ j <= ends[N]
  BY <1>8
<1>11. ~(j <= Total(take)) => ~(j <= ends[N])
  BY <1>9
<1>12. DOMAIN ids = 1 .. N /\ Len(ends) = N /\ ends \in Seq(Cols)
  BY <1>1, <1>5
<1> QED BY <1>10, <1>11, <1>12, Zenon DEF ids, N, ends

-----------------------------------------------------------------------------
(* The vector table. *)

Paths == {Asks[r].path : r \in Reqs}

\* A table: a row for each of some vectors.
IsTable(v) ==
  /\ v \in Seq(Paths) /\ Len(v) <= VMax
  /\ \A i, j \in DOMAIN v : v[i] = v[j] => i = j

\* Table w has the rows of v, and others for vectors that could be loaded.
Grows(v, w) ==
  /\ IsTable(v) /\ IsTable(w) /\ Len(v) <= Len(w)
  /\ \A i \in DOMAIN v : w[i] = v[i]
  /\ \A i \in DOMAIN w : i > Len(v) => w[i] \notin Missing

\* The table after request r has been looked up.
Row(v, r) == IF HasRow(v) /\ \A i \in DOMAIN v : v[i] # Asks[r].path
             THEN Append(v, Asks[r].path) ELSE v

LEMMA TableFacts ==
  ASSUME NEW v, IsTable(v)
  PROVE  /\ Len(v) \in Nat /\ DOMAIN v = 1 .. Len(v) /\ Len(v) <= VMax
         /\ \A i \in 1 .. Len(v) : v[i] \in Paths
         /\ \A i, j \in 1 .. Len(v) : v[i] = v[j] => i = j
BY DEF IsTable

LEMMA GrowsFacts ==
  ASSUME NEW v, NEW w, Grows(v, w)
  PROVE  /\ Len(v) \in Nat /\ Len(w) \in Nat /\ Len(v) <= Len(w) /\ Len(w) <= VMax
         /\ DOMAIN v = 1 .. Len(v) /\ DOMAIN w = 1 .. Len(w)
         /\ \A i \in 1 .. Len(v) : w[i] = v[i]
         /\ \A i \in 1 .. Len(w) : i > Len(v) => w[i] \notin Missing
<1>1. IsTable(v) /\ IsTable(w)
  BY DEF Grows
<1>2. Len(v) \in Nat /\ Len(w) \in Nat /\ Len(w) <= VMax /\ DOMAIN v = 1 .. Len(v) /\ DOMAIN w = 1 .. Len(w)
  BY <1>1, TableFacts
<1> QED BY <1>2 DEF Grows

LEMMA GrowsSame == ASSUME NEW v, IsTable(v) PROVE Grows(v, v)
BY TableFacts DEF Grows

LEMMA GrowsOn ==
  ASSUME NEW u, NEW v, NEW w, Grows(u, v), Grows(v, w)
  PROVE  Grows(u, w)
<1>1. /\ Len(u) \in Nat /\ Len(v) \in Nat /\ Len(w) \in Nat /\ Len(u) <= Len(v) /\ Len(v) <= Len(w)
      /\ DOMAIN u = 1 .. Len(u) /\ DOMAIN v = 1 .. Len(v) /\ DOMAIN w = 1 .. Len(w)
      /\ \A i \in 1 .. Len(u) : v[i] = u[i]
      /\ \A i \in 1 .. Len(v) : w[i] = v[i]
  BY GrowsFacts
<1>2. /\ \A i \in 1 .. Len(v) : i > Len(u) => v[i] \notin Missing
      /\ \A i \in 1 .. Len(w) : i > Len(v) => w[i] \notin Missing
  BY GrowsFacts
<1>3. IsTable(u) /\ IsTable(w) /\ Len(u) <= Len(w)
  BY <1>1 DEF Grows
<1>4. \A i \in DOMAIN u : w[i] = u[i]
  BY <1>1
<1>5. \A i \in DOMAIN w : i > Len(u) => w[i] \notin Missing
  <2> SUFFICES ASSUME NEW i \in 1 .. Len(w), i > Len(u) PROVE w[i] \notin Missing
    BY <1>1
  <2>1. CASE i > Len(v)
    BY <1>2, <2>1
  <2>2. CASE ~(i > Len(v))
    <3>1. i \in 1 .. Len(v)
      BY <1>1, <2>2
    <3> QED BY <1>1, <1>2, <3>1
  <2> QED BY <2>1, <2>2
<1> QED BY <1>3, <1>4, <1>5 DEF Grows

LEMMA ServedStays ==
  ASSUME NEW v, NEW w, Grows(v, w), NEW r, Served(v, r)
  PROVE  Served(w, r)
<1>1. /\ Len(v) \in Nat /\ Len(w) \in Nat /\ Len(v) <= Len(w) /\ VMax \in Nat
      /\ DOMAIN v = 1 .. Len(v) /\ DOMAIN w = 1 .. Len(w)
      /\ \A i \in 1 .. Len(v) : w[i] = v[i]
  BY GrowsFacts, Counts
<1>2. CASE ~HasRow(v)
  <2>1. ~HasRow(w)
    BY <1>1, <1>2 DEF HasRow
  <2> QED BY <2>1 DEF Served
<1>3. CASE \E i \in DOMAIN v : v[i] = Asks[r].path
  <2>1. PICK i \in 1 .. Len(v) : v[i] = Asks[r].path
    BY <1>1, <1>3
  <2>2. i \in DOMAIN w /\ w[i] = Asks[r].path
    BY <1>1, <2>1
  <2> QED BY <2>2 DEF Served
<1> QED BY <1>2, <1>3 DEF Served

LEMMA RowGrows ==
  ASSUME NEW v, IsTable(v), NEW r \in Reqs, Asks[r].path \notin Missing
  PROVE  Grows(v, Row(v, r)) /\ Served(Row(v, r), r)
<1> DEFINE p == Asks[r].path
<1>1. /\ Len(v) \in Nat /\ DOMAIN v = 1 .. Len(v) /\ Len(v) <= VMax /\ VMax \in Nat
      /\ \A i \in 1 .. Len(v) : v[i] \in Paths
      /\ \A i, j \in 1 .. Len(v) : v[i] = v[j] => i = j
  BY TableFacts, Counts
<1>2. CASE HasRow(v) /\ \A i \in DOMAIN v : v[i] # p
  <2> DEFINE w == Append(v, p)
  <2>1. v \in Seq(Paths) /\ p \in Paths
    BY DEF IsTable, Paths
  <2>2. Row(v, r) = w
    BY <1>2 DEF Row
  <2> HIDE DEF p
  <2>3. /\ w \in Seq(Paths) /\ Len(w) = Len(v) + 1 /\ DOMAIN w = 1 .. Len(v) + 1
        /\ w[Len(v) + 1] = p /\ \A i \in 1 .. Len(v) : w[i] = v[i]
    BY <2>1
  <2> HIDE DEF w
  <2>4. \A i, j \in DOMAIN w : w[i] = w[j] => i = j
    <3> SUFFICES ASSUME NEW i \in 1 .. Len(v) + 1, NEW j \in 1 .. Len(v) + 1, w[i] = w[j] PROVE i = j
      BY <2>3
    <3>1. CASE i = Len(v) + 1 \/ j = Len(v) + 1
      BY <1>1, <1>2, <2>3, <3>1
    <3>2. CASE i # Len(v) + 1 /\ j # Len(v) + 1
      <4>1. i \in 1 .. Len(v) /\ j \in 1 .. Len(v)
        BY <1>1, <3>2
      <4> QED BY <1>1, <2>3, <4>1
    <3> QED BY <3>1, <3>2
  <2>5. Len(w) <= VMax
    BY <1>1, <1>2, <2>3 DEF HasRow
  <2>6. IsTable(w)
    BY <2>3, <2>4, <2>5 DEF IsTable
  <2>7. \A i \in DOMAIN w : i > Len(v) => w[i] \notin Missing
    <3> SUFFICES ASSUME NEW i \in 1 .. Len(v) + 1, i > Len(v) PROVE w[i] \notin Missing
      BY <2>3
    <3>1. i = Len(v) + 1
      BY <1>1
    <3> QED BY <2>3, <3>1 DEF p
  <2>8. Grows(v, w)
    BY <1>1, <2>3, <2>6, <2>7 DEF Grows
  <2>9. Len(v) + 1 \in DOMAIN w
    BY <1>1, <2>3
  <2>10. Served(w, r)
    BY <2>3, <2>9 DEF Served, p
  <2> QED BY <2>2, <2>8, <2>10
<1>3. CASE ~(HasRow(v) /\ \A i \in DOMAIN v : v[i] # p)
  <2>1. Row(v, r) = v
    BY <1>3 DEF Row
  <2> QED BY <1>3, <2>1, GrowsSame DEF Served
<1> QED BY <1>2, <1>3

LEMMA TableAfter ==
  ASSUME IsTable(vecs), NEW batch
  PROVE  /\ Grows(vecs, VecsAfter(batch))
         /\ \A r \in Reqs : r \in batch => Served(VecsAfter(batch), r)
<1>0. Len(Asks) \in Nat /\ Reqs = 1 .. Len(Asks)
  BY Counts
<1> DEFINE N == Len(Asks)
           Up(v, r) == IF r \in batch /\ Wants(r) THEN Row(v, r) ELSE v
           Is(g) == g = [r \in 0 .. N |-> IF r = 0 THEN vecs ELSE Up(g[r - 1], r)]
           h == CHOOSE g : Is(g)
           Good(v, r) == Grows(vecs, v) /\ \A q \in Reqs : q <= r /\ q \in batch => Served(v, q)
<1>1. VecsAfter(batch) = h[N]
  <2> DEFINE W(r) == r \in batch /\ Wants(r)
             Is2(g) == g = [r \in 0 .. N |-> IF r = 0 THEN vecs
                             ELSE IF W(r) /\ HasRow(g[r - 1]) /\ \A i \in DOMAIN g[r - 1] : g[r - 1][i] # Asks[r].path
                                  THEN Append(g[r - 1], Asks[r].path) ELSE g[r - 1]]
  <2>1. VecsAfter(batch) = (CHOOSE g : Is2(g))[N]
    BY DEF VecsAfter
  <2> DEFINE Up2(g, r) == IF W(r) /\ HasRow(g[r - 1]) /\ \A i \in DOMAIN g[r - 1] : g[r - 1][i] # Asks[r].path
                          THEN Append(g[r - 1], Asks[r].path) ELSE g[r - 1]
  <2>2. ASSUME NEW g, NEW r PROVE Up(g[r - 1], r) = Up2(g, r)
    BY DEF Row, Wants
  <2>3. ASSUME NEW g PROVE Is(g) <=> Is2(g)
    <3> HIDE DEF Up, Up2, N
    <3>1. [r \in 0 .. N |-> IF r = 0 THEN vecs ELSE Up(g[r - 1], r)]
            = [r \in 0 .. N |-> IF r = 0 THEN vecs ELSE Up2(g, r)]
      BY <2>2, Zenon
    <3> QED BY <3>1, Zenon DEF Up2
  <2> HIDE DEF Is2, Is
  <2>4. (CHOOSE g : Is(g)) = (CHOOSE g : Is2(g))
    BY <2>3
  <2> QED BY <2>1, <2>4, Zenon
<1>2. ASSUME NEW v, NEW r \in Reqs, Good(v, r - 1) PROVE Good(Up(v, r), r)
  <2>1. Grows(vecs, v) /\ IsTable(v) /\ \A q \in Reqs : q <= r - 1 /\ q \in batch => Served(v, q)
    BY <1>2 DEF Grows
  <2>2. ASSUME NEW w, Grows(v, w), r \in batch => Served(w, r) PROVE Good(w, r)
    <3>1. Grows(vecs, w)
      BY <2>1, <2>2, GrowsOn
    <3>2. ASSUME NEW q \in Reqs, q <= r, q \in batch PROVE Served(w, q)
      <4>1. CASE q = r
        BY <2>2, <3>2, <4>1
      <4>2. CASE q # r
        <5>1. q <= r - 1
          BY <1>0, <3>2, <4>2
        <5>2. Served(v, q)
          BY <2>1, <3>2, <5>1
        <5> QED BY <2>2, <5>2, ServedStays
      <4> QED BY <4>1, <4>2
    <3> QED BY <3>1, <3>2
  <2> HIDE DEF Good
  <2>3. CASE r \in batch /\ Wants(r)
    <3>1. Grows(v, Row(v, r)) /\ Served(Row(v, r), r)
      BY <2>1, <2>3, RowGrows DEF Wants
    <3> QED BY <2>2, <2>3, <3>1
  <2>4. CASE ~(r \in batch /\ Wants(r))
    <3>1. Grows(v, v) /\ (r \in batch => Served(v, r))
      BY <2>1, <2>4, GrowsSame DEF Served
    <3> QED BY <2>2, <2>4, <3>1
  <2> QED BY <2>3, <2>4
<1>3. Good(vecs, 0)
  BY <1>0, GrowsSame
<1>4. \E g : Is(g)
  <2> DEFINE X == { v \in Seq(Paths) : IsTable(v) }
             F == [r \in Nat |-> [v \in X |-> IF r \in Reqs THEN Up(v, r) ELSE v]]
  <2>1. F \in [Nat -> [X -> X]]
    <3>1. \A r \in Reqs : \A v \in X : Up(v, r) \in X
      <4> SUFFICES ASSUME NEW r \in Reqs, NEW v \in X PROVE Up(v, r) \in X
        OBVIOUS
      <4>1. CASE Wants(r)
        <5>1. Grows(v, Row(v, r))
          BY <4>1, RowGrows DEF Wants
        <5>2. Row(v, r) \in X
          BY <5>1 DEF Grows, IsTable
        <5> QED BY <5>2
      <4>2. CASE ~Wants(r)
        BY <4>2
      <4> QED BY <4>1, <4>2
    <3> HIDE DEF X, Up
    <3> QED BY <3>1
  <2>2. vecs \in X
    BY DEF IsTable
  <2>3. PICK g \in [0 .. N -> X] : g[0] = vecs /\ \A i \in 1 .. N : g[i] = F[i][g[i - 1]]
    <3>1. N \in Nat
      BY <1>0
    <3>2. PICK g : Chain(X, vecs, F, N, g)
      <4> HIDE DEF X, F, N
      <4> QED BY <2>1, <2>2, <3>1, Iterates, Zenon
    <3> HIDE DEF X, F, N
    <3> QED BY <3>2 DEF Chain
  <2>4. \A i \in 1 .. N : g[i] = Up(g[i - 1], i)
    <3> SUFFICES ASSUME NEW i \in 1 .. N PROVE g[i] = Up(g[i - 1], i)
      OBVIOUS
    <3>1. g[i] = F[i][g[i - 1]] /\ i \in Nat /\ i \in Reqs /\ i - 1 \in 0 .. N
      <4> HIDE DEF F, X
      <4> QED BY <1>0, <2>3
    <3>2. g[i - 1] \in X
      BY <2>3, <3>1
    <3> HIDE DEF X, Up
    <3> QED BY <3>1, <3>2
  <2>5. \A r \in 0 .. N : g[r] = IF r = 0 THEN vecs ELSE Up(g[r - 1], r)
    <3> HIDE DEF X, F, Up
    <3> SUFFICES ASSUME NEW r \in 0 .. N PROVE g[r] = IF r = 0 THEN vecs ELSE Up(g[r - 1], r)
      OBVIOUS
    <3>1. CASE r = 0
      BY <2>3, <3>1
    <3>2. CASE r # 0
      <4>1. r \in 1 .. N
        BY <1>0, <3>2
      <4> QED BY <2>4, <3>2, <4>1
    <3> QED BY <3>1, <3>2
  <2>6. g = [r \in 0 .. N |-> g[r]]
    BY <2>3
  <2> HIDE DEF X, F, Up
  <2> QED BY <2>5, <2>6
<1>5. Is(h)
  <2> HIDE DEF Is
  <2> QED BY <1>4
<1>6. \A r \in 0 .. N : h[r] = IF r = 0 THEN vecs ELSE Up(h[r - 1], r)
  <2> HIDE DEF Up, h
  <2> QED BY <1>5
<1> HIDE DEF h, Is, Good, Up
<1> DEFINE Bad == { r \in Nat : r <= N /\ ~Good(h[r], r) }
<1>7. ASSUME Bad # {} PROVE FALSE
  <2>1. PICK r \in Bad : \A k \in Bad : r <= k
    BY <1>7, Least
  <2>2. r # 0
    BY <1>0, <1>3, <1>6, <2>1
  <2>3. r - 1 \in Nat /\ r - 1 \notin Bad /\ r \in Reqs /\ r \in 0 .. N
    BY <1>0, <2>1, <2>2
  <2>4. Good(h[r - 1], r - 1)
    BY <1>0, <2>1, <2>3
  <2>5. Good(Up(h[r - 1], r), r)
    BY <1>2, <2>3, <2>4
  <2>6. h[r] = Up(h[r - 1], r)
    BY <1>6, <2>2, <2>3
  <2> QED BY <2>1, <2>5, <2>6
<1>8. Good(h[N], N)
  <2> HIDE DEF N
  <2>1. N \in Nat /\ N <= N /\ N \notin Bad
    BY <1>0, <1>7 DEF N
  <2> QED BY <2>1
<1>9. \A q \in Reqs : q <= N
  BY <1>0
<1> HIDE DEF N
<1> QED BY <1>1, <1>8, <1>9 DEF Good

-----------------------------------------------------------------------------
(* The slots. *)

RowsFor(v, r) == { i \in DOMAIN v : v[i] = Asks[r].path }

LEMMA SlotIs ==
  ASSUME NEW v, IsTable(v), NEW r \in Reqs
  PROVE  /\ SlotOf(r, v) \in Slots
         /\ SlotOf(r, v) # Unset => SlotOf(r, v).cell[1] \in DOMAIN v
         /\ SlotOf(r, v).layers # {} => Asks[r].steer
<1> DEFINE R == RowsFor(v, r)
           on == Asks[r].steer /\ R # {} /\ ~(Asks[r].adjust /\ Asks[r].path \in NoAvg)
<1>1. SlotOf(r, v) = IF on THEN [layers |-> Asks[r].layers, cell |-> <<Max(R), Asks[r].adjust>>] ELSE Unset
  BY DEF SlotOf, RowsFor
<1>2. CASE on
  <2>1. R # {} /\ Asks[r].steer
    BY <1>2
  <2>2. R \subseteq Nat /\ R \subseteq DOMAIN v /\ Len(v) \in Nat /\ \A i \in R : i <= Len(v)
    BY TableFacts DEF RowsFor
  <2>3. Max(R) \in R
    <3> HIDE DEF R
    <3> QED BY <2>1, <2>2, MaxIs
  <2>4. Max(R) \in DOMAIN v /\ Max(R) \in Nat
    BY <2>2, <2>3
  <2>5. Asks[r].layers \subseteq Layers /\ Asks[r].adjust \in BOOLEAN
    BY Sizes
  <2> HIDE DEF R
  <2> DEFINE cell == <<Max(R), Asks[r].adjust>>
  <2>6. cell \in Cells /\ cell[1] = Max(R)
    BY <2>4, <2>5 DEF Cells
  <2> HIDE DEF cell
  <2>7. SlotOf(r, v) = [layers |-> Asks[r].layers, cell |-> cell]
    BY <1>1, <1>2 DEF cell
  <2>8. SlotOf(r, v) \in Slots /\ SlotOf(r, v).cell[1] \in DOMAIN v
    BY <2>4, <2>5, <2>6, <2>7 DEF Slots
  <2> QED BY <2>1, <2>8
<1>3. CASE ~on
  <2>1. SlotOf(r, v) = Unset
    BY <1>1, <1>3
  <2>2. Unset \in Slots /\ Unset.layers = {}
    BY DEF Unset, Slots, Cells
  <2> QED BY <2>1, <2>2
<1> QED BY <1>2, <1>3

\* Slots stay right when the table grows: their vectors have their rows, or
\* will never have one.
LEMMA SlotKept ==
  ASSUME NEW v, NEW w, Grows(v, w), NEW r \in Reqs, Served(v, r)
  PROVE  Same(SlotOf(r, w), SlotOf(r, v))
<1>1. /\ Len(v) \in Nat /\ Len(w) \in Nat /\ Len(v) <= Len(w) /\ Len(w) <= VMax /\ VMax \in Nat
      /\ DOMAIN v = 1 .. Len(v) /\ DOMAIN w = 1 .. Len(w)
      /\ \A i \in 1 .. Len(v) : w[i] = v[i]
      /\ \A i \in 1 .. Len(w) : i > Len(v) => w[i] \notin Missing
  BY GrowsFacts, Counts
<1>2. \A i, j \in 1 .. Len(w) : w[i] = w[j] => i = j
  BY <1>1, TableFacts DEF Grows
<1>3. CASE Asks[r].layers = {}
  <2>1. SlotOf(r, w).layers = {} /\ SlotOf(r, v).layers = {}
    BY <1>3 DEF SlotOf, Unset
  <2> QED BY <2>1 DEF Same
<1>4. CASE ~Asks[r].steer
  <2>1. SlotOf(r, w) = Unset /\ SlotOf(r, v) = Unset
    BY <1>4 DEF SlotOf
  <2> QED BY <2>1 DEF Same
<1>5. CASE Asks[r].steer /\ Asks[r].layers # {}
  <2>1. RowsFor(v, r) = RowsFor(w, r)
    <3>1. RowsFor(v, r) \subseteq RowsFor(w, r)
      BY <1>1 DEF RowsFor
    <3>2. RowsFor(w, r) \subseteq RowsFor(v, r)
      <4> SUFFICES ASSUME NEW i \in 1 .. Len(w), w[i] = Asks[r].path PROVE i \in 1 .. Len(v)
        BY <1>1 DEF RowsFor
      <4>1. CASE Asks[r].path \in Missing
        BY <1>1, <4>1
      <4>2. CASE Asks[r].path \notin Missing
        <5>1. ~HasRow(v) \/ \E j \in DOMAIN v : v[j] = Asks[r].path
          BY <1>5, <4>2 DEF Served, Wants
        <5>2. CASE ~HasRow(v)
          BY <1>1, <5>2 DEF HasRow
        <5>3. CASE \E j \in DOMAIN v : v[j] = Asks[r].path
          <6>1. PICK j \in 1 .. Len(v) : v[j] = Asks[r].path
            BY <1>1, <5>3
          <6>2. j \in 1 .. Len(w) /\ w[j] = Asks[r].path
            BY <1>1, <6>1
          <6> QED BY <1>2, <6>1, <6>2
        <5> QED BY <5>1, <5>2, <5>3
      <4> QED BY <4>1, <4>2
    <3> QED BY <3>1, <3>2
  <2>2. ASSUME NEW u
        PROVE  SlotOf(r, u) = IF Asks[r].steer /\ RowsFor(u, r) # {} /\ ~(Asks[r].adjust /\ Asks[r].path \in NoAvg)
                              THEN [layers |-> Asks[r].layers, cell |-> <<Max(RowsFor(u, r)), Asks[r].adjust>>]
                              ELSE Unset
    BY DEF SlotOf, RowsFor
  <2>3. SlotOf(r, w) = SlotOf(r, v)
    BY <2>1, <2>2, Zenon
  <2> QED BY <2>3 DEF Same
<1> QED BY <1>3, <1>4, <1>5

-----------------------------------------------------------------------------
(* The columns a request steers. *)

LEMMA ColumnsOf ==
  ASSUME NEW take \in [Reqs -> Nat], NEW r \in Reqs
  PROVE  /\ Before(take, r) \in Nat /\ take[r] \in Nat
         /\ First(take, r) \in Nat /\ First(take, r) >= 1 /\ End(take, r) \in Nat
         /\ End(take, r) <= Total(take) /\ Total(take) \in Nat
         /\ take[r] > 0 => First(take, r) <= End(take, r)
<1>1. Before(take, r) \in Nat /\ Before(take, r) + take[r] <= Total(take) /\ Total(take) \in Nat
  BY WithinTotal
<1>2. take[r] \in Nat
  OBVIOUS
<1> QED BY <1>1, <1>2 DEF First, End

LEMMA SpanCases ==
  ASSUME NEW take, NEW r \in Reqs
  PROVE  /\ SteerSpan(take, r) \in {{}, {End(take, r)}, First(take, r) .. End(take, r)}
         /\ take[r] = 0 => SteerSpan(take, r) = {}
         /\ Asks[r].phase = "both" /\ Asks[r].positions = "all_tokens" /\ take[r] # 0 =>
              SteerSpan(take, r) = First(take, r) .. End(take, r)
BY DEF SteerSpan

LEMMA SpanIs ==
  ASSUME NEW take \in [Reqs -> Nat], NEW r \in Reqs
  PROVE  /\ SteerSpan(take, r) \subseteq First(take, r) .. End(take, r)
         /\ ColFor(take, r) \in Int
         /\ Asks[r].steer /\ Asks[r].valid /\ take[r] > 0 =>
              \A c \in First(take, r) .. End(take, r) :
                c \in SteerSpan(take, r) <=> ColFor(take, r) \in {ColAll, c}
         /\ Asks[r].steer /\ Asks[r].valid /\ take[r] > 0 /\ ~Gates(r) =>
              SteerSpan(take, r) = First(take, r) .. End(take, r)
<1> DEFINE F == First(take, r)
           E == End(take, r)
           S == SteerSpan(take, r)
<1>1. F \in Nat /\ F >= 1 /\ E \in Nat /\ (take[r] > 0 => F <= E) /\ take[r] \in Nat
  BY ColumnsOf
<1>2. S \in {{}, {E}, F .. E} /\ (take[r] = 0 => S = {})
  BY SpanCases
<1>3. ColFor(take, r) = IF ~Asks[r].steer \/ ~Asks[r].valid \/ S = {} THEN ColNone
                        ELSE IF S = F .. E THEN ColAll ELSE Max(S)
  BY DEF ColFor
<1>4. Asks[r].steer /\ Asks[r].valid /\ take[r] > 0 /\ ~Gates(r) => S = F .. E
  BY <1>1, SpanCases DEF Gates
<1> HIDE DEF F, E, S
<1>5. Max({E}) = E
  BY <1>1 DEF Max
<1>6. S \subseteq F .. E
  BY <1>1, <1>2
<1>7. ColFor(take, r) \in Int
  <2>1. ColAll \in Int /\ ColNone \in Int
    BY DEF ColAll, ColNone
  <2>2. ColFor(take, r) = ColNone \/ ColFor(take, r) = ColAll \/ ColFor(take, r) = E
    BY <1>2, <1>3, <1>5, Zenon
  <2> QED BY <1>1, <2>1, <2>2
<1>8. ASSUME Asks[r].steer, Asks[r].valid, take[r] > 0, NEW c \in F .. E
      PROVE  c \in S <=> ColFor(take, r) \in {ColAll, c}
  <2>1. c \in Nat /\ ColAll # c /\ ColNone # c /\ ColNone # ColAll /\ E # ColAll
    BY <1>1 DEF ColAll, ColNone
  <2>2. CASE S = {}
    BY <1>3, <2>1, <2>2
  <2>3. CASE S = F .. E
    <3>1. S # {}
      BY <1>1, <1>8, <2>3
    <3> QED BY <1>3, <1>8, <2>1, <2>3, <3>1
  <2>4. CASE S = {E} /\ S # F .. E
    <3>1. ColFor(take, r) = E
      BY <1>3, <1>5, <1>8, <2>4
    <3> QED BY <2>1, <2>4, <3>1
  <2> QED BY <1>2, <2>2, <2>3, <2>4
<1> QED BY <1>4, <1>6, <1>7, <1>8 DEF F, E, S

-----------------------------------------------------------------------------
(* What a batch asks, cell by cell. *)

LEMMA OneSteers ==
  ASSUME NEW take \in [Reqs -> Nat], NEW v, NEW l, NEW c, NEW r \in Reqs, NEW s \in Reqs,
         Steers(take, v, r, l, c), Steers(take, v, s, l, c)
  PROVE  r = s
<1>1. c \in First(take, r) .. End(take, r) /\ c \in First(take, s) .. End(take, s)
  BY SpanIs DEF Steers
<1>2. First(take, r) \in Nat /\ End(take, r) \in Nat
  BY ColumnsOf
<1>3. c \in Nat
  BY <1>1, <1>2
<1> QED BY <1>1, <1>3, OneOwner DEF First, End

LEMMA AskedIs ==
  ASSUME NEW take \in [Reqs -> Nat], NEW v, NEW l \in Layers, NEW c \in Cols
  PROVE  /\ \A r \in Reqs : Steers(take, v, r, l, c) => Asked(take, v)[l][c] = SlotOf(r, v).cell
         /\ (\A r \in Reqs : ~Steers(take, v, r, l, c)) => Asked(take, v)[l][c] = NoSteer
         /\ c > Total(take) => Asked(take, v)[l][c] = NoSteer
<1> DEFINE here == { r \in Reqs : Steers(take, v, r, l, c) }
<1>1. Asked(take, v)[l][c] = IF here = {} THEN NoSteer ELSE SlotOf(CHOOSE r \in here : TRUE, v).cell
  BY DEF Asked
<1>2. ASSUME NEW r \in Reqs, Steers(take, v, r, l, c)
      PROVE  Asked(take, v)[l][c] = SlotOf(r, v).cell
  <2>1. \A s \in here : s = r
    BY <1>2, OneSteers
  <2>2. r \in here
    BY <1>2
  <2> HIDE DEF here
  <2>3. (CHOOSE s \in here : TRUE) = r
    BY <2>1, <2>2
  <2> QED BY <1>1, <2>2, <2>3
<1>3. (\A r \in Reqs : ~Steers(take, v, r, l, c)) => here = {}
  OBVIOUS
<1>4. ASSUME c > Total(take), NEW r \in Reqs, Steers(take, v, r, l, c) PROVE FALSE
  <2>1. c \in First(take, r) .. End(take, r)
    BY <1>4, SpanIs DEF Steers
  <2>2. End(take, r) \in Nat /\ End(take, r) <= Total(take) /\ Total(take) \in Nat
        /\ First(take, r) \in Nat
    BY ColumnsOf
  <2> QED BY <1>4, <2>1, <2>2
<1>5. c > Total(take) => here = {}
  BY <1>4
<1> HIDE DEF here
<1> QED BY <1>1, <1>2, <1>3, <1>5

LEMMA AskedType ==
  ASSUME NEW take \in [Reqs -> Nat], NEW v, IsTable(v)
  PROVE  Asked(take, v) \in Slabs
<1>1. ASSUME NEW l \in Layers, NEW c \in Cols PROVE Asked(take, v)[l][c] \in Cells
  <2>1. CASE \E r \in Reqs : Steers(take, v, r, l, c)
    <3>1. PICK r \in Reqs : Steers(take, v, r, l, c)
      BY <2>1
    <3>2. Asked(take, v)[l][c] = SlotOf(r, v).cell
      BY <3>1, AskedIs
    <3>3. SlotOf(r, v) \in Slots
      BY SlotIs
    <3> QED BY <3>2, <3>3 DEF Slots
  <2>2. CASE ~ \E r \in Reqs : Steers(take, v, r, l, c)
    BY <2>2, AskedIs DEF Cells
  <2> QED BY <2>1, <2>2
<1> DEFINE A(l, c) == LET here == { r \in Reqs : Steers(take, v, r, l, c) }
                      IN IF here = {} THEN NoSteer ELSE SlotOf(CHOOSE r \in here : TRUE, v).cell
<1>2. Asked(take, v) = [l \in Layers |-> [c \in Cols |-> A(l, c)]]
  BY DEF Asked
<1> HIDE DEF A
<1>3. \A l \in Layers : \A c \in Cols : A(l, c) \in Cells
  BY <1>1, <1>2
<1> QED BY <1>2, <1>3 DEF Slabs

\* The i-th request of a batch steers a cell, by the columns of a key.
Plans(take, v, cols, i, l, c) ==
  /\ c \in First(take, Ids(take)[i]) .. End(take, Ids(take)[i])
  /\ Asks[Ids(take)[i]].valid /\ l \in SlotOf(Ids(take)[i], v).layers
  /\ cols # <<>> => cols[i] \in {ColAll, c}

LEMMA PlannedIs ==
  ASSUME NEW take \in [Reqs -> 0 .. Cap], Total(take) \in Cols, NEW v, NEW cols, NEW l, NEW c
  PROVE  /\ \A i \in DOMAIN Ids(take) :
              Plans(take, v, cols, i, l, c) => Planned(take, v, cols, l, c) = SlotOf(Ids(take)[i], v).cell
         /\ (\A i \in DOMAIN Ids(take) : ~Plans(take, v, cols, i, l, c)) =>
              Planned(take, v, cols, l, c) = NoSteer
<1> DEFINE ids == Ids(take)
           here == { i \in DOMAIN ids : Plans(take, v, cols, i, l, c) }
<1>1. Planned(take, v, cols, l, c) =
        IF here = {} THEN NoSteer ELSE SlotOf(ids[CHOOSE i \in here : TRUE], v).cell
  BY DEF Planned, Plans
<1>2. /\ take \in [Reqs -> Nat] /\ \A i \in DOMAIN ids : ids[i] \in Reqs
      /\ \A i, j \in DOMAIN ids : i < j => ids[i] < ids[j]
      /\ DOMAIN ids = 1 .. Len(ids) /\ Len(ids) \in Nat
  BY BatchIds, Counts
<1>3. ASSUME NEW i \in DOMAIN ids, Plans(take, v, cols, i, l, c)
      PROVE  Planned(take, v, cols, l, c) = SlotOf(ids[i], v).cell
  <2>1. \A j \in here : ids[j] = ids[i]
    <3> SUFFICES ASSUME NEW j \in DOMAIN ids, Plans(take, v, cols, j, l, c) PROVE ids[j] = ids[i]
      OBVIOUS
    <3>1. /\ c \in First(take, ids[i]) .. End(take, ids[i])
          /\ c \in First(take, ids[j]) .. End(take, ids[j])
      BY <1>3 DEF Plans
    <3> HIDE DEF ids
    <3>2. ids[i] \in Reqs /\ ids[j] \in Reqs
      BY <1>2
    <3>3. First(take, ids[i]) \in Nat /\ End(take, ids[i]) \in Nat
      BY <1>2, <3>2, ColumnsOf
    <3>4. c \in Nat
      BY <3>1, <3>3
    <3> QED BY <1>2, <3>1, <3>2, <3>4, OneOwner DEF First, End
  <2>2. i \in here
    BY <1>3
  <2> HIDE DEF here
  <2>3. (CHOOSE j \in here : TRUE) \in here
    BY <2>2
  <2> QED BY <1>1, <2>1, <2>2, <2>3
<1>4. (\A i \in DOMAIN ids : ~Plans(take, v, cols, i, l, c)) => here = {}
  OBVIOUS
<1> HIDE DEF here
<1> QED BY <1>1, <1>3, <1>4

\* No request of the batch that has layers steers some of its tokens only.
Ungated(take, v) == \A r \in Reqs : take[r] > 0 /\ SlotOf(r, v).layers # {} => ~Gates(r)

\* Columns that a slot table, or a key, may say the batch steers.
ColsFit(take, v, on, cols) ==
  IF on THEN \A i \in DOMAIN Ids(take) : cols[i] = ColFor(take, Ids(take)[i]) ELSE Ungated(take, v)

\* A request that has layers steers a column exactly when its columns say so.
LEMMA ColMatch ==
  ASSUME NEW take \in [Reqs -> 0 .. Cap], Total(take) \in Cols, NEW v, IsTable(v), NEW on, NEW cols,
         ColsFit(take, v, on, cols), NEW i \in DOMAIN Ids(take), NEW c,
         c \in First(take, Ids(take)[i]) .. End(take, Ids(take)[i]),
         Asks[Ids(take)[i]].valid, SlotOf(Ids(take)[i], v).layers # {}
  PROVE  c \in SteerSpan(take, Ids(take)[i]) <=> (on => cols[i] \in {ColAll, c})
<1> DEFINE r == Ids(take)[i]
<1>1. r \in Reqs /\ take[r] > 0 /\ take \in [Reqs -> Nat]
  BY BatchIds
<1>2. Asks[r].steer
  BY <1>1, SlotIs
<1>3. /\ c \in First(take, r) .. End(take, r) /\ Asks[r].valid /\ SlotOf(r, v).layers # {}
      /\ on => cols[i] = ColFor(take, r)
      /\ ~on => Ungated(take, v)
  BY DEF ColsFit
<1> HIDE DEF r
<1>4. /\ c \in SteerSpan(take, r) <=> ColFor(take, r) \in {ColAll, c}
      /\ ~Gates(r) => SteerSpan(take, r) = First(take, r) .. End(take, r)
  BY <1>1, <1>2, <1>3, SpanIs
<1>5. c \in SteerSpan(take, r) <=> (on => cols[i] \in {ColAll, c})
  <2>1. CASE on
    BY <1>3, <1>4, <2>1
  <2>2. CASE ~on
    BY <1>1, <1>3, <1>4, <2>2 DEF Ungated
  <2> QED BY <2>1, <2>2
<1> QED BY <1>5 DEF r

LEMMA AskedIsPlanned ==
  ASSUME NEW take \in [Reqs -> 0 .. Cap], Total(take) \in Cols, NEW v, IsTable(v), NEW cols,
         ColsFit(take, v, cols # <<>>, cols), NEW l \in Layers, NEW c \in Cols
  PROVE  Asked(take, v)[l][c] = Planned(take, v, cols, l, c)
<1> DEFINE ids == Ids(take)
<1>1. /\ take \in [Reqs -> Nat] /\ \A i \in DOMAIN ids : ids[i] \in Reqs /\ take[ids[i]] > 0
      /\ \A q \in Reqs : take[q] > 0 => \E i \in DOMAIN ids : ids[i] = q
  BY BatchIds
<1>2. ASSUME NEW i \in DOMAIN ids
      PROVE  Plans(take, v, cols, i, l, c) <=> Steers(take, v, ids[i], l, c)
  <2> DEFINE r == ids[i]
  <2>1. r \in Reqs /\ take[r] > 0 /\ SteerSpan(take, r) \subseteq First(take, r) .. End(take, r)
    BY <1>1, SpanIs
  <2>2. ASSUME c \in First(take, r) .. End(take, r), Asks[r].valid, l \in SlotOf(r, v).layers
        PROVE  c \in SteerSpan(take, r) <=> (cols # <<>> => cols[i] \in {ColAll, c})
    <3>1. SlotOf(r, v).layers # {}
      BY <2>2
    <3> QED BY <2>2, <3>1, ColMatch
  <2>3. Steers(take, v, r, l, c) <=>
          c \in SteerSpan(take, r) /\ Asks[r].valid /\ l \in SlotOf(r, v).layers
    BY <2>1 DEF Steers
  <2>4. Plans(take, v, cols, i, l, c) <=>
          /\ c \in First(take, r) .. End(take, r) /\ Asks[r].valid /\ l \in SlotOf(r, v).layers
          /\ cols # <<>> => cols[i] \in {ColAll, c}
    BY DEF Plans
  <2> HIDE DEF r
  <2>5. Plans(take, v, cols, i, l, c) <=> Steers(take, v, r, l, c)
    BY <2>1, <2>2, <2>3, <2>4
  <2> QED BY <2>5 DEF r
<1>3. CASE \E r \in Reqs : Steers(take, v, r, l, c)
  <2>1. PICK r \in Reqs : Steers(take, v, r, l, c)
    BY <1>3
  <2>2. PICK i \in DOMAIN ids : ids[i] = r
    BY <1>1, <2>1 DEF Steers
  <2>3. Plans(take, v, cols, i, l, c)
    BY <1>2, <2>1, <2>2
  <2>4. Planned(take, v, cols, l, c) = SlotOf(ids[i], v).cell
    BY <2>3, PlannedIs
  <2>5. Asked(take, v)[l][c] = SlotOf(r, v).cell
    BY <1>1, <2>1, AskedIs
  <2> QED BY <2>2, <2>4, <2>5
<1>4. CASE ~ \E r \in Reqs : Steers(take, v, r, l, c)
  <2>1. \A i \in DOMAIN ids : ~Plans(take, v, cols, i, l, c)
    BY <1>1, <1>2, <1>4
  <2>2. Planned(take, v, cols, l, c) = NoSteer
    BY <2>1, PlannedIs
  <2>3. Asked(take, v)[l][c] = NoSteer
    BY <1>1, <1>4, AskedIs
  <2> QED BY <2>2, <2>3
<1> QED BY <1>3, <1>4

\* The kernel spreads the slots over the columns as the batch asks.
LEMMA SpreadIs ==
  ASSUME NEW take \in [Reqs -> 0 .. Cap], Total(take) \in Cols, NEW v, IsTable(v),
         NEW y, y.ends = [i \in DOMAIN Ids(take) |-> End(take, Ids(take)[i])],
         NEW slots, \A i \in DOMAIN Ids(take) : Same(slots[i], SlotOf(Ids(take)[i], v)),
         NEW cols, ColsFit(take, v, y.cols, cols),
         \A r \in Reqs : Asks[r].steer => Asks[r].valid,
         NEW l \in Layers, NEW c \in Cols
  PROVE  Spread(y, slots, cols, l, c) = Asked(take, v)[l][c]
<1> DEFINE ids == Ids(take)
           s == SlotAt(y, c)
<1>1. /\ take \in [Reqs -> Nat] /\ \A i \in DOMAIN ids : ids[i] \in Reqs /\ take[ids[i]] > 0
      /\ \A q \in Reqs : take[q] > 0 => \E i \in DOMAIN ids : ids[i] = q
  BY BatchIds
<1>2. Spread(y, slots, cols, l, c) =
        IF /\ c <= y.ends[Len(y.ends)] /\ l \in slots[s].layers
           /\ y.cols => cols[s] \in {ColAll, c}
        THEN slots[s].cell ELSE NoSteer
  BY DEF Spread
<1>3. /\ c <= Total(take) => /\ s \in DOMAIN ids /\ c \in First(take, ids[s]) .. End(take, ids[s])
                             /\ c <= y.ends[Len(y.ends)]
      /\ ~(c <= Total(take)) => ~(c <= y.ends[Len(y.ends)])
  BY SlotAtIs
<1> HIDE DEF s
<1>4. CASE ~(c <= Total(take))
  <2>1. c > Total(take)
    BY <1>4, Counts DEF Cols
  <2>2. Asked(take, v)[l][c] = NoSteer
    BY <1>1, <2>1, AskedIs
  <2> QED BY <1>2, <1>3, <1>4, <2>2
<1>5. CASE c <= Total(take)
  <2> DEFINE r == ids[s]
  <2>1. r \in Reqs /\ take[r] > 0 /\ c \in First(take, r) .. End(take, r) /\ c <= y.ends[Len(y.ends)]
    BY <1>1, <1>3, <1>5
  <2>2. Same(slots[s], SlotOf(r, v)) /\ s \in DOMAIN ids
    BY <1>3, <1>5
  <2>3. ASSUME l \in SlotOf(r, v).layers
        PROVE  c \in SteerSpan(take, r) <=> (y.cols => cols[s] \in {ColAll, c})
    <3>1. SlotOf(r, v).layers # {} /\ Asks[r].valid
      BY <2>1, <2>3, SlotIs
    <3>2. s \in DOMAIN Ids(take) /\ r = Ids(take)[s]
      BY <2>2
    <3>3. /\ c \in First(take, Ids(take)[s]) .. End(take, Ids(take)[s])
          /\ Asks[Ids(take)[s]].valid /\ SlotOf(Ids(take)[s], v).layers # {}
      BY <2>1, <3>1, <3>2
    <3> HIDE DEF r, s, ids
    <3>4. c \in SteerSpan(take, Ids(take)[s]) <=> (y.cols => cols[s] \in {ColAll, c})
      BY <3>2, <3>3, ColMatch
    <3> QED BY <3>2, <3>4, Zenon
  <2>4. Steers(take, v, r, l, c) <=> l \in SlotOf(r, v).layers /\ c \in SteerSpan(take, r)
    BY <2>1, SlotIs DEF Steers
  <2>5. ASSUME NEW q \in Reqs, Steers(take, v, q, l, c) PROVE q = r
    <3>1. c \in First(take, q) .. End(take, q)
      BY <1>1, <2>5, SpanIs DEF Steers
    <3>2. c \in Nat
      BY Counts DEF Cols
    <3> HIDE DEF r
    <3> QED BY <1>1, <2>1, <3>1, <3>2, OneOwner DEF First, End
  <2> HIDE DEF r, ids
  <2>6. CASE Steers(take, v, r, l, c)
    <3>1. Asked(take, v)[l][c] = SlotOf(r, v).cell
      BY <1>1, <2>1, <2>6, AskedIs
    <3>2. l \in slots[s].layers /\ slots[s].cell = SlotOf(r, v).cell
      BY <2>2, <2>4, <2>6 DEF Same
    <3>3. y.cols => cols[s] \in {ColAll, c}
      BY <2>3, <2>4, <2>6
    <3> QED BY <1>2, <2>1, <3>1, <3>2, <3>3
  <2>7. CASE ~Steers(take, v, r, l, c)
    <3>1. Asked(take, v)[l][c] = NoSteer
      BY <1>1, <2>5, <2>7, AskedIs
    <3>2. ~(l \in slots[s].layers /\ (y.cols => cols[s] \in {ColAll, c}))
      BY <2>2, <2>3, <2>4, <2>7 DEF Same
    <3> QED BY <1>2, <3>1, <3>2
  <2> QED BY <2>6, <2>7
<1> QED BY <1>4, <1>5

-----------------------------------------------------------------------------
(* What the device comes to. *)

Steps == [copy : Copies, n : Cols, want : Slabs]

\* The queued copies write, after this step, what they would have written.
KeepsWritten ==
  \A k \in DOMAIN stream : \A l \in Layers : \A c \in Cols :
    Covers(k, l, c) => Written(k, l, c)' = Written(k, l, c)

\* What the slab comes to, it still comes to.
Carries ==
  \A l \in Layers : \A c \in Cols : \A x : Shows(Len(stream), l, c, x) => Shows(Len(stream), l, c, x)'

LEMMA AppendIs ==
  ASSUME NEW S, NEW s \in Seq(S), NEW e \in S, NEW t, t = Append(s, e)
  PROVE  /\ t \in Seq(S) /\ Len(t) = Len(s) + 1 /\ Len(s) \in Nat /\ t[Len(s) + 1] = e
         /\ DOMAIN s = 1 .. Len(s) /\ DOMAIN t = 1 .. Len(s) + 1
         /\ \A k \in 1 .. Len(s) : t[k] = s[k]
OBVIOUS

\* A step queued behind leaves what the earlier ones meet.
LEMMA ShowsBehind ==
  ASSUME stream \in Seq(Steps), NEW e \in Steps, stream' = Append(stream, e), slab' = slab, KeepsWritten,
         NEW i \in 0 .. Len(stream), NEW l \in Layers, NEW c \in Cols, NEW x, Shows(i, l, c, x)
  PROVE  Shows(i, l, c, x)'
<1>1. /\ Len(stream) \in Nat /\ DOMAIN stream = 1 .. Len(stream)
      /\ \A k \in 1 .. Len(stream) : stream'[k] = stream[k]
  BY AppendIs
<1>2. \A k \in 1 .. Len(stream) : Covers(k, l, c)' <=> Covers(k, l, c)
  BY <1>1 DEF Covers
<1>3. \A k \in 1 .. Len(stream) : Covers(k, l, c) => Written(k, l, c)' = Written(k, l, c)
  BY <1>1 DEF KeepsWritten
<1>4. \A k \in 1 .. i : k \in 1 .. Len(stream)
  BY <1>1
<1>5. CASE x = slab[l][c] /\ \A k \in 1 .. i : ~Covers(k, l, c)
  BY <1>2, <1>4, <1>5 DEF Shows
<1>6. CASE \E k \in 1 .. i : /\ Covers(k, l, c) /\ x = Written(k, l, c)
                             /\ \A m \in k + 1 .. i : ~Covers(m, l, c)
  <2>1. PICK k \in 1 .. i : /\ Covers(k, l, c) /\ x = Written(k, l, c)
                            /\ \A m \in k + 1 .. i : ~Covers(m, l, c)
    BY <1>6
  <2>2. Covers(k, l, c)' /\ x = Written(k, l, c)'
    BY <1>2, <1>3, <1>4, <2>1
  <2>3. \A m \in k + 1 .. i : m \in 1 .. i
    BY <1>1
  <2>4. \A m \in k + 1 .. i : ~Covers(m, l, c)'
    BY <1>2, <1>4, <2>1, <2>3
  <2> QED BY <2>1, <2>2, <2>4 DEF Shows
<1> QED BY <1>5, <1>6 DEF Shows

\* What the step queued last writes, or leaves.
LEMMA ShowsLast ==
  ASSUME NEW n \in Nat, NEW l, NEW c, NEW x,
         \/ Covers(n + 1, l, c)' /\ x = Written(n + 1, l, c)'
         \/ ~Covers(n + 1, l, c)' /\ Shows(n, l, c, x)'
  PROVE  Shows(n + 1, l, c, x)'
<1>1. n + 1 \in 1 .. n + 1 /\ \A m \in (n + 1) + 1 .. n + 1 : FALSE
  OBVIOUS
<1>2. CASE Covers(n + 1, l, c)' /\ x = Written(n + 1, l, c)'
  BY <1>1, <1>2 DEF Shows
<1>3. CASE ~Covers(n + 1, l, c)' /\ Shows(n, l, c, x)'
  <2>1. CASE x = slab'[l][c] /\ \A k \in 1 .. n : ~Covers(k, l, c)'
    <3>1. \A k \in 1 .. n + 1 : ~Covers(k, l, c)'
      <4> SUFFICES ASSUME NEW k \in 1 .. n + 1 PROVE ~Covers(k, l, c)'
        OBVIOUS
      <4>1. k = n + 1 \/ k \in 1 .. n
        OBVIOUS
      <4> QED BY <1>3, <2>1, <4>1
    <3> QED BY <2>1, <3>1 DEF Shows
  <2>2. CASE \E k \in 1 .. n : /\ Covers(k, l, c)' /\ x = Written(k, l, c)'
                               /\ \A m \in k + 1 .. n : ~Covers(m, l, c)'
    <3>1. PICK k \in 1 .. n : /\ Covers(k, l, c)' /\ x = Written(k, l, c)'
                              /\ \A m \in k + 1 .. n : ~Covers(m, l, c)'
      BY <2>2
    <3>2. k \in 1 .. n + 1
      OBVIOUS
    <3>3. \A m \in k + 1 .. n + 1 : ~Covers(m, l, c)'
      <4> SUFFICES ASSUME NEW m \in k + 1 .. n + 1 PROVE ~Covers(m, l, c)'
        OBVIOUS
      <4>1. m = n + 1 \/ m \in k + 1 .. n
        OBVIOUS
      <4> QED BY <1>3, <3>1, <4>1
    <3> QED BY <3>1, <3>2, <3>3 DEF Shows
  <2> QED BY <1>3, <2>1, <2>2 DEF Shows
<1> QED BY <1>2, <1>3

\* The copy at the head is done: the slab has what it writes.
LEMMA ShowsDone ==
  ASSUME NEW n \in Nat, NEW i \in 1 .. n, NEW l, NEW c, NEW x,
         ~Covers(1, l, c)',
         slab'[l][c] = (IF Covers(1, l, c) THEN Written(1, l, c) ELSE slab[l][c]),
         \A k \in 2 .. n : (Covers(k, l, c)' <=> Covers(k, l, c)) /\ Written(k, l, c)' = Written(k, l, c),
         Shows(i, l, c, x)
  PROVE  Shows(i, l, c, x)'
<1>1. CASE x = slab[l][c] /\ \A k \in 1 .. i : ~Covers(k, l, c)
  <2>1. \A k \in 1 .. i : ~Covers(k, l, c)'
    <3> SUFFICES ASSUME NEW k \in 1 .. i PROVE ~Covers(k, l, c)'
      OBVIOUS
    <3>1. k = 1 \/ k \in 2 .. n
      OBVIOUS
    <3> QED BY <1>1, <3>1
  <2>2. 1 \in 1 .. i
    OBVIOUS
  <2> QED BY <1>1, <2>1, <2>2 DEF Shows
<1>2. CASE \E k \in 1 .. i : /\ Covers(k, l, c) /\ x = Written(k, l, c)
                             /\ \A m \in k + 1 .. i : ~Covers(m, l, c)
  <2>1. PICK k \in 1 .. i : /\ Covers(k, l, c) /\ x = Written(k, l, c)
                            /\ \A m \in k + 1 .. i : ~Covers(m, l, c)
    BY <1>2
  <2>2. \A m \in k + 1 .. i : ~Covers(m, l, c)'
    <3> SUFFICES ASSUME NEW m \in k + 1 .. i PROVE ~Covers(m, l, c)'
      OBVIOUS
    <3>1. m \in 2 .. n
      OBVIOUS
    <3> QED BY <2>1, <3>1
  <2>3. CASE k = 1
    <3>1. x = slab'[l][c]
      BY <2>1, <2>3
    <3>2. \A m \in 1 .. i : ~Covers(m, l, c)'
      <4> SUFFICES ASSUME NEW m \in 1 .. i PROVE ~Covers(m, l, c)'
        OBVIOUS
      <4>1. m = 1 \/ m \in k + 1 .. i
        BY <2>3
      <4> QED BY <2>2, <4>1
    <3> QED BY <3>1, <3>2 DEF Shows
  <2>4. CASE k # 1
    <3>1. k \in 2 .. n
      BY <2>4
    <3>2. Covers(k, l, c)' /\ x = Written(k, l, c)'
      BY <2>1, <3>1
    <3> QED BY <2>2, <3>2 DEF Shows
  <2> QED BY <2>3, <2>4
<1> QED BY <1>1, <1>2 DEF Shows

\* The step at the head, whose copy is done, is gone.
LEMMA ShowsShifted ==
  ASSUME NEW n \in Nat, NEW i \in 0 .. n, NEW l, NEW c, NEW x,
         ~Covers(1, l, c), slab' = slab,
         \A k \in 1 .. n : (Covers(k, l, c)' <=> Covers(k + 1, l, c))
                           /\ Written(k, l, c)' = Written(k + 1, l, c),
         Shows(i + 1, l, c, x)
  PROVE  Shows(i, l, c, x)'
<1>1. CASE x = slab[l][c] /\ \A k \in 1 .. i + 1 : ~Covers(k, l, c)
  <2>1. \A k \in 1 .. i : ~Covers(k, l, c)'
    <3> SUFFICES ASSUME NEW k \in 1 .. i PROVE ~Covers(k, l, c)'
      OBVIOUS
    <3>1. k \in 1 .. n /\ k + 1 \in 1 .. i + 1
      OBVIOUS
    <3> QED BY <1>1, <3>1
  <2> QED BY <1>1, <2>1 DEF Shows
<1>2. CASE \E k \in 1 .. i + 1 : /\ Covers(k, l, c) /\ x = Written(k, l, c)
                                 /\ \A m \in k + 1 .. i + 1 : ~Covers(m, l, c)
  <2>1. PICK k \in 1 .. i + 1 : /\ Covers(k, l, c) /\ x = Written(k, l, c)
                                /\ \A m \in k + 1 .. i + 1 : ~Covers(m, l, c)
    BY <1>2
  <2>2. k # 1
    BY <2>1
  <2>3. PICK j \in 1 .. n : k = j + 1 /\ j \in 1 .. i
    <3>1. k - 1 \in 1 .. n /\ k = (k - 1) + 1 /\ k - 1 \in 1 .. i
      BY <2>2
    <3> QED BY <3>1
  <2>4. Covers(j, l, c)' /\ x = Written(j, l, c)'
    BY <2>1, <2>3
  <2>5. \A m \in j + 1 .. i : ~Covers(m, l, c)'
    <3> SUFFICES ASSUME NEW m \in j + 1 .. i PROVE ~Covers(m, l, c)'
      OBVIOUS
    <3>1. m \in 1 .. n /\ m + 1 \in k + 1 .. i + 1
      BY <2>3
    <3> QED BY <2>1, <3>1
  <2> QED BY <2>3, <2>4, <2>5 DEF Shows
<1> QED BY <1>1, <1>2 DEF Shows

\* A queued step still meets its cells, wherever it stands now.
LEMMA MeetsKept ==
  ASSUME NEW i, NEW j, Meets(i), way' = way,
         stream'[j].n = stream[i].n, stream'[j].want = stream[i].want,
         stream'[j].copy = stream[i].copy \/ stream'[j].copy = NoCopy,
         \A l \in Layers : \A c \in Cols : \A x : Shows(i, l, c, x) => Shows(j, l, c, x)'
  PROVE  Meets(j)'
<1>1. /\ stream'[j].copy.op = "mirror" => way'.backend # "gpu"
      /\ stream'[j].copy.op = "scatter" => way'.backend = "gpu" /\ Len(stream'[j].copy.ends) \in Reqs
  <2>1. CASE stream'[j].copy = stream[i].copy
    BY <2>1 DEF Meets
  <2>2. CASE stream'[j].copy = NoCopy
    BY <2>2 DEF NoCopy
  <2> QED BY <2>1, <2>2
<1>2. ASSUME NEW l \in Layers, NEW c \in Cols, ~(c <= stream'[j].n)
      PROVE  stream'[j].want[l][c] = NoSteer
  <2>1. ~(c <= stream[i].n)
    BY <1>2
  <2>2. IF c <= stream[i].n THEN Shows(i, l, c, stream[i].want[l][c])
        ELSE stream[i].want[l][c] = NoSteer
    BY Zenon DEF Meets
  <2> QED BY <2>1, <2>2
<1>3. ASSUME NEW l \in Layers, NEW c \in Cols, c <= stream'[j].n
      PROVE  Shows(j, l, c, stream[j].want[l][c])'
  <2>1. PICK x : x = stream[i].want[l][c]
    OBVIOUS
  <2>2. Shows(i, l, c, x)
    BY <1>3, <2>1 DEF Meets
  <2>3. Shows(j, l, c, x)'
    BY <2>2
  <2>4. x = stream'[j].want[l][c]
    BY <2>1
  <2> QED BY <2>3, <2>4 DEF Shows
<1> QED BY <1>1, <1>2, <1>3 DEF Meets

\* The key stands as long as what it stands for.
LEMMA KeyKept ==
  ASSUME KeyInv, lastKey' = lastKey, gated' = gated, vecs' = vecs, lastKey.width \in 0 .. Cap, Carries
  PROVE  KeyInv'
<1>0. Cap \in Nat /\ Cols = 1 .. Cap
  BY Counts DEF Cols
<1>1. CASE lastKey = NoKey
  BY <1>1 DEF KeyInv, NoKey
<1>2. CASE StandsIdle
  <2>1. \A l \in Layers : \A c \in 1 .. lastKey.width : Shows(Len(stream), l, c, NoSteer)'
    <3> SUFFICES ASSUME NEW l \in Layers, NEW c \in 1 .. lastKey.width
                 PROVE  Shows(Len(stream), l, c, NoSteer)'
      OBVIOUS
    <3>1. c \in Cols
      BY <1>0
    <3>2. Shows(Len(stream), l, c, NoSteer)
      BY <1>2 DEF StandsIdle
    <3>3. NoSteer = NoSteer'
      BY DEF NoSteer
    <3> QED BY <3>1, <3>2 DEF Carries
  <2>2. lastKey'.ids = <<0>>
    BY <1>2 DEF StandsIdle
  <2> QED BY <2>1, <2>2 DEF KeyInv, StandsIdle
<1>3. ASSUME NEW take \in [Reqs -> 0 .. Cap], StandsFor(take) PROVE KeyInv'
  <2>1. ASSUME lastKey.cols # <<>> \/ ~gated, NEW l \in Layers, NEW c \in 1 .. Total(take)
        PROVE  Shows(Len(stream), l, c, Planned(take, vecs, lastKey.cols, l, c))'
    <3>1. PICK x : x = Planned(take, vecs, lastKey.cols, l, c)
      OBVIOUS
    <3>2. c \in Cols /\ Shows(Len(stream), l, c, x)
      BY <1>0, <1>3, <2>1, <3>1 DEF StandsFor
    <3>3. Shows(Len(stream), l, c, x)'
      BY <3>2 DEF Carries
    <3>4. x = Planned(take, vecs, lastKey.cols, l, c)'
      BY <3>1
    <3> QED BY <3>3, <3>4 DEF Shows
  <2>2. StandsFor(take)'
    BY <1>3, <2>1 DEF StandsFor
  <2> QED BY <2>2 DEF KeyInv
<1> QED BY <1>1, <1>2, <1>3 DEF KeyInv

LEMMA StateKept ==
  ASSUME StateInv, way' = way, state' = state, mirror'[0] = mirror[0], Carries
  PROVE  StateInv'
<1>1. ASSUME way.backend = "incremental", NEW l \in Layers, NEW c \in Cols
      PROVE  Shows(Len(stream), l, c, state[l][c])'
  <2>1. PICK x : x = state[l][c]
    OBVIOUS
  <2>2. Shows(Len(stream), l, c, x)
    BY <1>1, <2>1 DEF StateInv
  <2>3. Shows(Len(stream), l, c, x)' /\ x = state'[l][c]
    BY <2>1, <2>2 DEF Carries
  <2> QED BY <2>3 DEF Shows
<1> QED BY <1>1 DEF StateInv

-----------------------------------------------------------------------------
(* The device's steps. *)

LEMMA HeadIs ==
  ASSUME stream \in Seq(Steps), stream # <<>>, stream' = [stream EXCEPT ![1].copy = NoCopy]
  PROVE  /\ Len(stream) \in Nat /\ Len(stream) >= 1 /\ DOMAIN stream = 1 .. Len(stream)
         /\ stream' \in Seq(Steps) /\ Len(stream') = Len(stream) /\ DOMAIN stream' = DOMAIN stream
         /\ stream[1] \in Steps /\ Head(stream) = stream[1]
         /\ stream'[1].copy = NoCopy /\ stream'[1].n = stream[1].n /\ stream'[1].want = stream[1].want
         /\ \A k \in 2 .. Len(stream) : stream'[k] = stream[k]
<1>1. /\ Len(stream) \in Nat /\ Len(stream) >= 1 /\ DOMAIN stream = 1 .. Len(stream)
      /\ stream[1] \in Steps /\ Head(stream) = stream[1]
  BY EmptySeq
<1>2. stream[1].n \in Cols /\ stream[1].want \in Slabs
  BY <1>1 DEF Steps
<1> DEFINE e == [stream[1] EXCEPT !.copy = NoCopy]
<1>3. stream' = [stream EXCEPT ![1] = e]
  OBVIOUS
<1>4. e \in Steps /\ e.copy = NoCopy /\ e.n = stream[1].n /\ e.want = stream[1].want
  BY <1>1 DEF Steps, Copies
<1> HIDE DEF e
<1>5. stream' \in Seq(Steps) /\ Len(stream') = Len(stream) /\ DOMAIN stream' = DOMAIN stream
      /\ stream'[1] = e /\ \A k \in 2 .. Len(stream) : stream'[k] = stream[k]
  BY <1>1, <1>3, <1>4
<1> QED BY <1>1, <1>4, <1>5

LEMMA StepTypes ==
  ASSUME SteerTypeOK
  PROVE  stream \in Seq(Steps) /\ lastKey.width \in 0 .. Cap /\ slab \in Slabs /\ IsTable(vecs)
         /\ mirror \in [0 .. Depth - 1 -> Slabs] /\ way \in Ways /\ Len(stream) <= Ahead[way.backend]
BY DEF SteerTypeOK, Steps, IsTable, Paths

\* A copy at the head done, every step meets what it would have.
LEMMA HeadKeeps ==
  ASSUME SteerTypeOK, QueueInv, stream # <<>>, stream' = [stream EXCEPT ![1].copy = NoCopy], way' = way,
         \A i \in 1 .. Len(stream) : \A l \in Layers : \A c \in Cols : \A x :
           Shows(i, l, c, x) => Shows(i, l, c, x)'
  PROVE  QueueInv' /\ Carries /\ Len(stream') = Len(stream) /\ stream' \in Seq(Steps)
<1>1. /\ Len(stream) \in Nat /\ Len(stream) >= 1 /\ DOMAIN stream = 1 .. Len(stream)
      /\ stream' \in Seq(Steps) /\ Len(stream') = Len(stream) /\ DOMAIN stream' = 1 .. Len(stream)
      /\ stream'[1].copy = NoCopy /\ stream'[1].n = stream[1].n /\ stream'[1].want = stream[1].want
      /\ \A k \in 2 .. Len(stream) : stream'[k] = stream[k]
  BY StepTypes, HeadIs
<1>2. \A i \in 1 .. Len(stream) : i = 1 \/ i \in 2 .. Len(stream)
  BY <1>1
<1>3. ASSUME NEW i \in 1 .. Len(stream) PROVE Meets(i)'
  <2>1. Meets(i)
    BY <1>1 DEF QueueInv
  <2>2. /\ stream'[i].n = stream[i].n /\ stream'[i].want = stream[i].want
        /\ stream'[i].copy = stream[i].copy \/ stream'[i].copy = NoCopy
    BY <1>1, <1>2
  <2>3. \A l \in Layers : \A c \in Cols : \A x : Shows(i, l, c, x) => Shows(i, l, c, x)'
    OBVIOUS
  <2> QED BY <2>1, <2>2, <2>3, MeetsKept
<1>4. ASSUME NEW i \in 1 .. Len(stream), NEW j \in 1 .. Len(stream),
             stream'[i].copy.op = "mirror", stream'[j].copy.op = "mirror",
             stream'[i].copy.slot = stream'[j].copy.slot
      PROVE  i = j
  <2>1. NoCopy.op # "mirror"
    BY DEF NoCopy
  <2>2. stream'[i] = stream[i] /\ stream'[j] = stream[j]
    BY <1>1, <1>2, <1>4, <2>1
  <2>3. \A k, m \in DOMAIN stream :
          stream[k].copy.op = "mirror" /\ stream[m].copy.op = "mirror"
            /\ stream[k].copy.slot = stream[m].copy.slot => k = m
    BY Zenon DEF QueueInv
  <2>4. i \in DOMAIN stream /\ j \in DOMAIN stream
    BY <1>1
  <2> QED BY <1>4, <2>2, <2>3, <2>4, Zenon
<1>5. QueueInv'
  BY <1>1, <1>3, <1>4 DEF QueueInv
<1>6. Carries
  <2>1. Len(stream) \in 1 .. Len(stream)
    BY <1>1
  <2>2. \A l \in Layers : \A c \in Cols : \A x :
          Shows(Len(stream), l, c, x) => Shows(Len(stream), l, c, x)'
    <3> SUFFICES ASSUME NEW l \in Layers, NEW c \in Cols, NEW x, Shows(Len(stream), l, c, x)
                 PROVE  Shows(Len(stream), l, c, x)'
      OBVIOUS
    <3>1. PICK n \in 1 .. Len(stream) : n = Len(stream) /\ n = Len(stream')
      BY <1>1, <2>1
    <3>2. Shows(n, l, c, x)
      BY <3>1
    <3>3. Shows(n, l, c, x)'
      BY <3>2
    <3> QED BY <3>1, <3>3 DEF Shows
  <2> QED BY <2>2 DEF Carries
<1> QED BY <1>1, <1>5, <1>6

LEMMA CopyIs ==
  ASSUME NEW y \in Copies
  PROVE  /\ y.op = "mirror" => y.slot \in 0 .. Depth - 1 /\ y.cells \subseteq Layers \X Cols
         /\ y.op = "scatter" => y.ends \in Seq(Cols) /\ y.width \in Cols
                                /\ y.slots \in BOOLEAN /\ y.cols \in BOOLEAN
         /\ y.op \in {"none", "mirror", "scatter"}
BY DEF Copies, NoCopy

LEMMA RunCopyKeeps == SteerInv /\ RunCopy => SteerInv'
<1> SUFFICES ASSUME SteerInv, RunCopy PROVE SteerInv'
  OBVIOUS
<1> DEFINE y == stream[1].copy
<1>0. SteerTypeOK /\ ForwardSteersAsAsked /\ QueueInv /\ StateInv /\ TableInv /\ KeyInv
  BY DEF SteerInv
<1>1. /\ stream # <<>> /\ Head(stream).copy.op = "mirror"
      /\ slab' = [l \in Layers |-> [j \in Cols |->
                    IF <<l, j>> \in Head(stream).copy.cells THEN mirror[Head(stream).copy.slot][l][j]
                    ELSE slab[l][j]]]
      /\ stream' = [stream EXCEPT ![1].copy = NoCopy]
  BY DEF RunCopy
<1>2. /\ way' = way /\ computed' = computed /\ vecs' = vecs /\ lastKey' = lastKey /\ gated' = gated
      /\ mirror' = mirror /\ idx' = idx /\ state' = state /\ slotKey' = slotKey
      /\ slotHost' = slotHost /\ colHost' = colHost /\ slotDev' = slotDev /\ colDev' = colDev
      /\ ran' = ran
  BY DEF RunCopy, host
<1>3. /\ Len(stream) \in Nat /\ Len(stream) >= 1 /\ DOMAIN stream = 1 .. Len(stream)
      /\ stream' \in Seq(Steps) /\ Len(stream') = Len(stream)
      /\ stream[1] \in Steps /\ Head(stream) = stream[1] /\ stream'[1].copy = NoCopy
      /\ \A k \in 2 .. Len(stream) : stream'[k] = stream[k]
  BY <1>0, <1>1, StepTypes, HeadIs
<1>4. y.op = "mirror" /\ y.slot \in 0 .. Depth - 1
  BY <1>1, <1>3, CopyIs DEF Steps
<1>5. slab' = [l \in Layers |-> [j \in Cols |-> IF <<l, j>> \in y.cells THEN mirror[y.slot][l][j] ELSE slab[l][j]]]
  BY <1>1, <1>3
<1> HIDE DEF y
<1>6. slab' \in Slabs
  <2>1. mirror[y.slot] \in Slabs /\ slab \in Slabs
    BY <1>0, <1>4, StepTypes
  <2>2. \A l \in Layers : \A c \in Cols : mirror[y.slot][l][c] \in Cells /\ slab[l][c] \in Cells
    BY <2>1 DEF Slabs
  <2> QED BY <1>5, <2>2 DEF Slabs
<1>7. ASSUME NEW i \in 1 .. Len(stream), NEW l \in Layers, NEW c \in Cols, NEW x, Shows(i, l, c, x)
      PROVE  Shows(i, l, c, x)'
  <2>1. Covers(1, l, c) <=> <<l, c>> \in y.cells
    BY <1>4 DEF Covers, y
  <2>2. Written(1, l, c) = mirror[y.slot][l][c]
    BY <1>4 DEF Written, y
  <2>3. slab'[l][c] = (IF Covers(1, l, c) THEN Written(1, l, c) ELSE slab[l][c])
    BY <1>5, <2>1, <2>2
  <2>4. ~Covers(1, l, c)'
    BY <1>3 DEF Covers, NoCopy
  <2>5. \A k \in 2 .. Len(stream) : (Covers(k, l, c)' <=> Covers(k, l, c))
                                    /\ Written(k, l, c)' = Written(k, l, c)
    <3> SUFFICES ASSUME NEW k \in 2 .. Len(stream)
                 PROVE  (Covers(k, l, c)' <=> Covers(k, l, c)) /\ Written(k, l, c)' = Written(k, l, c)
      OBVIOUS
    <3>1. stream'[k] = stream[k]
      BY <1>3
    <3> QED BY <1>2, <3>1 DEF Covers, Written, SlotsAfter, ColsAfter
  <2> QED BY <1>3, <1>7, <2>3, <2>4, <2>5, ShowsDone
<1>8. QueueInv' /\ Carries
  BY <1>0, <1>1, <1>2, <1>7, HeadKeeps
<1>9. KeyInv'
  BY <1>0, <1>2, <1>8, StepTypes, KeyKept
<1>10. StateInv'
  BY <1>0, <1>2, <1>8, StateKept
<1>11. TableInv'
  <2>1. way.backend # "gpu"
    <3>1. Meets(1)
      BY <1>0, <1>3 DEF QueueInv
    <3> QED BY <1>4, <3>1 DEF Meets, y
  <2> QED BY <1>2, <2>1 DEF TableInv
<1>12. SteerTypeOK'
  BY <1>0, <1>2, <1>3, <1>6 DEF SteerTypeOK, Steps
<1>13. ForwardSteersAsAsked'
  BY <1>0, <1>2 DEF ForwardSteersAsAsked
<1> QED BY <1>8, <1>9, <1>10, <1>11, <1>12, <1>13 DEF SteerInv

\* In step: with one step queued there is no more than a head.
GpuInStep ==
  \A m \in Ways : m.backend = "gpu" =>
    Ahead["gpu"] = 1 /\ \A r \in Reqs : Asks[r].steer => Asks[r].valid

LEMMA SpreadType ==
  ASSUME NEW y, y.ends \in Seq(Cols), Len(y.ends) \in Reqs, NEW slots \in [Reqs -> Slots], NEW cols,
         NEW l, NEW c \in Cols
  PROVE  Spread(y, slots, cols, l, c) \in Cells
<1> DEFINE s == SlotAt(y, c)
           N == Len(y.ends)
<1>1. Spread(y, slots, cols, l, c) =
        IF /\ c <= y.ends[N] /\ l \in slots[s].layers
           /\ y.cols => cols[s] \in {ColAll, c}
        THEN slots[s].cell ELSE NoSteer
  BY DEF Spread
<1>2. CASE c <= y.ends[N]
  <2>1. N \in Nat /\ N >= 1 /\ Len(Asks) \in Nat /\ N <= Len(Asks) /\ Reqs = 1 .. Len(Asks)
    BY Counts
  <2> DEFINE T == { i \in 1 .. N : c <= y.ends[i] }
  <2>2. T \subseteq Nat /\ N \in T /\ s = Min(T)
    BY <1>2, <2>1 DEF SlotAt
  <2>3. Min(T) \in T
    <3> HIDE DEF T
    <3> QED BY <2>2, MinIs
  <2>4. s \in 1 .. N
    BY <2>2, <2>3
  <2>5. s \in Reqs
    BY <2>1, <2>4
  <2>6. slots[s] \in Slots
    BY <2>5
  <2>7. slots[s].cell \in Cells
    BY <2>6 DEF Slots
  <2> HIDE DEF s, N
  <2> QED BY <1>1, <2>7 DEF Cells
<1>3. CASE ~(c <= y.ends[N])
  BY <1>1, <1>3 DEF Cells
<1> QED BY <1>2, <1>3

LEMMA RunScatterKeeps == GpuInStep /\ SteerInv /\ RunScatter => SteerInv'
<1> SUFFICES ASSUME GpuInStep, SteerInv, RunScatter PROVE SteerInv'
  OBVIOUS
<1> DEFINE y == stream[1].copy
<1>0. SteerTypeOK /\ ForwardSteersAsAsked /\ QueueInv /\ StateInv /\ TableInv /\ KeyInv
  BY DEF SteerInv
<1>1. /\ stream # <<>> /\ Head(stream).copy.op = "scatter"
      /\ slotDev' = SlotsAfter(Head(stream).copy) /\ colDev' = ColsAfter(Head(stream).copy)
      /\ slab' = [l \in Layers |-> [j \in Cols |->
                    IF j > Head(stream).copy.width THEN slab[l][j]
                    ELSE Spread(Head(stream).copy, SlotsAfter(Head(stream).copy),
                                ColsAfter(Head(stream).copy), l, j)]]
      /\ stream' = [stream EXCEPT ![1].copy = NoCopy]
  BY DEF RunScatter
<1>2. /\ way' = way /\ computed' = computed /\ vecs' = vecs /\ lastKey' = lastKey /\ gated' = gated
      /\ mirror' = mirror /\ idx' = idx /\ state' = state /\ slotKey' = slotKey
      /\ slotHost' = slotHost /\ colHost' = colHost /\ ran' = ran
  BY DEF RunScatter, host
<1>3. /\ Len(stream) \in Nat /\ Len(stream) >= 1 /\ DOMAIN stream = 1 .. Len(stream)
      /\ stream' \in Seq(Steps) /\ Len(stream') = Len(stream)
      /\ stream[1] \in Steps /\ Head(stream) = stream[1] /\ stream'[1].copy = NoCopy
  BY <1>0, <1>1, StepTypes, HeadIs
<1>4. /\ y.op = "scatter" /\ y.ends \in Seq(Cols) /\ y.width \in Cols
      /\ y.slots \in BOOLEAN /\ y.cols \in BOOLEAN
  BY <1>1, <1>3, CopyIs DEF Steps
<1>5. way.backend = "gpu" /\ Len(y.ends) \in Reqs
  <2>1. Meets(1)
    BY <1>0, <1>3 DEF QueueInv
  <2> QED BY <1>4, <2>1 DEF Meets
<1>6. Len(stream) = 1
  BY <1>0, <1>3, <1>5, StepTypes DEF GpuInStep
<1> DEFINE slots == SlotsAfter(y)
           cols == ColsAfter(y)
<1>7. /\ slotDev' = slots /\ colDev' = cols
      /\ slab' = [l \in Layers |-> [j \in Cols |->
                    IF j > y.width THEN slab[l][j] ELSE Spread(y, slots, cols, l, j)]]
  BY <1>1, <1>3
<1>8. slots \in [Reqs -> Slots] /\ cols \in [Reqs -> Int]
  BY <1>0 DEF SlotsAfter, ColsAfter, SteerTypeOK
<1> HIDE DEF y, slots, cols
<1>9. slab' \in Slabs
  <2>1. \A l \in Layers : \A c \in Cols : Spread(y, slots, cols, l, c) \in Cells /\ slab[l][c] \in Cells
    BY <1>0, <1>4, <1>5, <1>8, SpreadType, StepTypes DEF Slabs
  <2> QED BY <1>7, <2>1 DEF Slabs
<1>10. ASSUME NEW i \in 1 .. Len(stream), NEW l \in Layers, NEW c \in Cols, NEW x, Shows(i, l, c, x)
       PROVE  Shows(i, l, c, x)'
  <2>0. y.width \in Nat /\ c \in Nat
    BY <1>4, Counts DEF Cols
  <2>1. Covers(1, l, c) <=> c <= y.width
    BY <1>4 DEF Covers, y
  <2>2. Written(1, l, c) = Spread(y, slots, cols, l, c)
    BY <1>4 DEF Written, y, slots, cols
  <2>3. slab'[l][c] = (IF Covers(1, l, c) THEN Written(1, l, c) ELSE slab[l][c])
    <3>1. slab'[l][c] = IF c > y.width THEN slab[l][c] ELSE Spread(y, slots, cols, l, c)
      BY <1>7
    <3>2. c > y.width <=> ~(c <= y.width)
      BY <2>0
    <3> QED BY <2>1, <2>2, <3>1, <3>2
  <2>4. ~Covers(1, l, c)'
    BY <1>3 DEF Covers, NoCopy
  <2>5. \A k \in 2 .. Len(stream) : (Covers(k, l, c)' <=> Covers(k, l, c))
                                    /\ Written(k, l, c)' = Written(k, l, c)
    <3>1. \A k \in 2 .. Len(stream) : FALSE
      BY <1>6
    <3> QED BY <3>1
  <2> QED BY <1>3, <1>10, <2>3, <2>4, <2>5, ShowsDone
<1>11. QueueInv' /\ Carries
  BY <1>0, <1>1, <1>2, <1>10, HeadKeeps
<1>12. KeyInv'
  BY <1>0, <1>2, <1>11, StepTypes, KeyKept
<1>13. StateInv'
  BY <1>0, <1>2, <1>11, StateKept
<1>14. TableInv'
  <2> SUFFICES ASSUME NEW i \in DOMAIN slotKey PROVE SlotRight(i)'
    BY <1>2 DEF TableInv
  <2>1. SlotRight(i)
    BY <1>0, <1>5 DEF TableInv
  <2>2. i \in Reqs
    <3>1. slotKey \in Seq(Reqs) /\ Len(slotKey) <= Len(Asks)
      BY <1>0 DEF SteerTypeOK
    <3>2. i \in 1 .. Len(slotKey) /\ Len(slotKey) \in Nat
      BY <3>1
    <3> QED BY <3>1, <3>2, Counts
  <2>3. slots[i] = IF y.slots /\ i <= Len(y.ends) THEN slotHost[i] ELSE slotDev[i]
    BY <2>2 DEF slots, SlotsAfter
  <2>4. slotDev[i] = slotHost[i] \/ (y.slots /\ i <= Len(y.ends))
    BY <2>1 DEF SlotRight, y
  <2>5. slotDev'[i] = slotHost'[i]
    BY <1>2, <1>7, <2>3, <2>4
  <2>6. Served(vecs, slotKey[i])' /\ Same(slotHost[i], SlotOf(slotKey[i], vecs))'
        /\ (Gates(slotKey[i]) => gated)'
    BY <1>2, <2>1 DEF SlotRight
  <2> QED BY <2>5, <2>6 DEF SlotRight
<1>15. SteerTypeOK'
  BY <1>0, <1>2, <1>3, <1>7, <1>8, <1>9 DEF SteerTypeOK, Steps
<1>16. ForwardSteersAsAsked'
  BY <1>0, <1>2 DEF ForwardSteersAsAsked
<1> QED BY <1>11, <1>12, <1>13, <1>14, <1>15, <1>16 DEF SteerInv

LEMMA TailIs ==
  ASSUME NEW S, NEW s \in Seq(S), s # <<>>, NEW t, t = Tail(s)
  PROVE  /\ Len(s) \in Nat /\ Len(s) >= 1 /\ DOMAIN s = 1 .. Len(s) /\ s[1] \in S /\ Head(s) = s[1]
         /\ t \in Seq(S) /\ Len(t) = Len(s) - 1 /\ DOMAIN t = 1 .. Len(s) - 1
         /\ \A k \in 1 .. Len(s) - 1 : t[k] = s[k + 1]
<1>1. Len(s) \in Nat /\ Len(s) >= 1 /\ DOMAIN s = 1 .. Len(s) /\ s[1] \in S /\ Head(s) = s[1]
  BY EmptySeq
<1> QED BY <1>1

LEMMA RunForwardKeeps == SteerInv /\ RunForward => SteerInv'
<1> SUFFICES ASSUME SteerInv, RunForward PROVE SteerInv'
  OBVIOUS
<1> DEFINE op == stream[1]
           N == Len(stream) - 1
<1>0. SteerTypeOK /\ ForwardSteersAsAsked /\ QueueInv /\ StateInv /\ TableInv /\ KeyInv
  BY DEF SteerInv
<1>1. /\ stream # <<>> /\ Head(stream).copy.op = "none"
      /\ ran' = [got |-> [l \in Layers |-> [j \in Cols |->
                            IF j <= Head(stream).n THEN slab[l][j] ELSE NoSteer]],
                 want |-> Head(stream).want]
      /\ stream' = Tail(stream)
  BY DEF RunForward
<1>2. /\ way' = way /\ computed' = computed /\ vecs' = vecs /\ lastKey' = lastKey /\ gated' = gated
      /\ mirror' = mirror /\ idx' = idx /\ state' = state /\ slotKey' = slotKey
      /\ slotHost' = slotHost /\ colHost' = colHost /\ slotDev' = slotDev /\ colDev' = colDev
      /\ slab' = slab
  BY DEF RunForward, host
<1>3. /\ Len(stream) \in Nat /\ Len(stream) >= 1 /\ DOMAIN stream = 1 .. Len(stream)
      /\ stream[1] \in Steps /\ Head(stream) = stream[1]
      /\ stream' \in Seq(Steps) /\ Len(stream') = N /\ DOMAIN stream' = 1 .. N
      /\ \A k \in 1 .. N : stream'[k] = stream[k + 1]
  BY <1>0, <1>1, StepTypes, TailIs
<1>4. N \in Nat /\ N + 1 = Len(stream) /\ \A k \in 1 .. N : k + 1 \in 1 .. Len(stream)
  BY <1>3
<1>5. op \in Steps /\ op.copy.op = "none" /\ op.n \in Cols /\ op.want \in Slabs
  BY <1>1, <1>3 DEF Steps
<1>6. /\ ran'.want = op.want
      /\ ran' = [got |-> [l \in Layers |-> [j \in Cols |-> IF j <= op.n THEN slab[l][j] ELSE NoSteer]],
                 want |-> op.want]
  BY <1>1, <1>3
<1>7. \A l \in Layers : \A c \in Cols : ~Covers(1, l, c)
  BY <1>5 DEF Covers
<1>8. \A l \in Layers : \A c \in Cols : op.want[l][c] = IF c <= op.n THEN slab[l][c] ELSE NoSteer
  <2> SUFFICES ASSUME NEW l \in Layers, NEW c \in Cols
               PROVE  op.want[l][c] = IF c <= op.n THEN slab[l][c] ELSE NoSteer
    OBVIOUS
  <2>1. Meets(1)
    BY <1>0, <1>3 DEF QueueInv
  <2>2. IF c <= op.n THEN Shows(1, l, c, op.want[l][c]) ELSE op.want[l][c] = NoSteer
    BY <2>1, Zenon DEF Meets
  <2>3. ASSUME NEW x, Shows(1, l, c, x) PROVE x = slab[l][c]
    <3>1. \A k \in 1 .. 1 : ~Covers(k, l, c)
      BY <1>7
    <3> QED BY <2>3, <3>1 DEF Shows
  <2> HIDE DEF op
  <2> QED BY <2>2, <2>3
<1> HIDE DEF op, N
<1>9. slab \in Slabs
  BY <1>0, StepTypes
<1>10. op.want = [l \in Layers |-> [c \in Cols |-> IF c <= op.n THEN slab[l][c] ELSE NoSteer]]
  BY <1>5, <1>8 DEF Slabs
<1>11. ForwardSteersAsAsked' /\ ran' \in [got : Slabs, want : Slabs]
  <2>1. ran' = [got |-> op.want, want |-> op.want]
    BY <1>6, <1>10
  <2> QED BY <1>5, <2>1 DEF ForwardSteersAsAsked
<1>12. ASSUME NEW i \in 0 .. N, NEW l \in Layers, NEW c \in Cols, NEW x, Shows(i + 1, l, c, x)
       PROVE  Shows(i, l, c, x)'
  <2>1. \A k \in 1 .. N : (Covers(k, l, c)' <=> Covers(k + 1, l, c))
                          /\ Written(k, l, c)' = Written(k + 1, l, c)
    <3> SUFFICES ASSUME NEW k \in 1 .. N
                 PROVE  (Covers(k, l, c)' <=> Covers(k + 1, l, c))
                        /\ Written(k, l, c)' = Written(k + 1, l, c)
      OBVIOUS
    <3>1. stream'[k] = stream[k + 1]
      BY <1>3
    <3> QED BY <1>2, <3>1 DEF Covers, Written, SlotsAfter, ColsAfter
  <2> QED BY <1>2, <1>4, <1>7, <1>12, <2>1, ShowsShifted
<1>13. QueueInv'
  <2>1. ASSUME NEW i \in 1 .. N PROVE Meets(i)'
    <3>1. Meets(i + 1)
      BY <1>0, <1>3, <1>4 DEF QueueInv
    <3>2. stream'[i] = stream[i + 1] /\ i \in 0 .. N
      BY <1>3, <1>4
    <3>3. \A l \in Layers : \A c \in Cols : \A x : Shows(i + 1, l, c, x) => Shows(i, l, c, x)'
      BY <1>12, <3>2
    <3> QED BY <1>2, <3>1, <3>2, <3>3, MeetsKept
  <2>2. ASSUME NEW i \in 1 .. N, NEW j \in 1 .. N,
               stream'[i].copy.op = "mirror", stream'[j].copy.op = "mirror",
               stream'[i].copy.slot = stream'[j].copy.slot
        PROVE  i = j
    <3>1. i + 1 \in DOMAIN stream /\ j + 1 \in DOMAIN stream
          /\ stream'[i] = stream[i + 1] /\ stream'[j] = stream[j + 1]
      BY <1>3, <1>4
    <3>2. i + 1 = j + 1
      BY <1>0, <2>2, <3>1 DEF QueueInv
    <3> QED BY <1>4, <3>2
  <2> QED BY <1>3, <2>1, <2>2 DEF QueueInv
<1>14. Carries
  <2> SUFFICES ASSUME NEW l \in Layers, NEW c \in Cols, NEW x, Shows(Len(stream), l, c, x)
               PROVE  Shows(Len(stream), l, c, x)'
    BY DEF Carries
  <2>0. N \in Nat /\ N = Len(stream') /\ N + 1 = Len(stream)
    BY <1>3, <1>4, Zenon
  <2>1. PICK n \in Nat : n = N /\ n = Len(stream') /\ n + 1 = Len(stream)
    BY <2>0
  <2>2. Shows(n + 1, l, c, x)
    BY <2>1
  <2>3. n \in 0 .. N
    BY <2>1
  <2>4. Shows(n, l, c, x)'
    BY <1>12, <2>2, <2>3
  <2>5. n = Len(stream')
    BY <2>1
  <2> QED BY <2>4, <2>5, Zenon DEF Shows
<1>15. KeyInv'
  BY <1>0, <1>2, <1>14, StepTypes, KeyKept
<1>16. StateInv'
  BY <1>0, <1>2, <1>14, StateKept
<1>17. TableInv'
  <2> SUFFICES ASSUME way.backend = "gpu", NEW i \in DOMAIN slotKey PROVE SlotRight(i)'
    BY <1>2 DEF TableInv
  <2>1. SlotRight(i)
    BY <1>0 DEF TableInv
  <2>2. slotDev[i] = slotHost[i]
    BY <1>5, <2>1 DEF SlotRight, op
  <2> QED BY <1>2, <2>1, <2>2 DEF SlotRight
<1>18. Len(stream') <= Ahead[way'.backend]
  <2>1. way \in Ways /\ Len(stream) <= Ahead[way.backend] /\ Ahead[way.backend] \in Nat
    BY <1>0, StepTypes, Sizes
  <2> QED BY <1>2, <1>3, <1>4, <2>1
<1>19. SteerTypeOK'
  BY <1>0, <1>2, <1>3, <1>11, <1>18 DEF SteerTypeOK, Steps
<1> QED BY <1>11, <1>13, <1>15, <1>16, <1>17, <1>19 DEF SteerInv

-----------------------------------------------------------------------------
(* A step put on the stream. *)

LEMMA BatchIs ==
  ASSUME NEW take \in Batches
  PROVE  /\ take \in [Reqs -> 0 .. Cap] /\ take \in [Reqs -> Nat] /\ Total(take) \in Cols
         /\ Total(take) \in Nat /\ Width(Total(take)) \in Cols /\ Total(take) <= Width(Total(take))
<1>1. take \in [Reqs -> 0 .. Cap] /\ Total(take) \in Cols
  BY DEF Batches
<1>2. take \in [Reqs -> Nat]
  BY <1>1, BatchIds
<1>3. Total(take) \in Nat
  BY <1>1, Counts DEF Cols
<1> QED BY <1>1, <1>2, <1>3, WidthIs

LEMMA LaunchIs ==
  ASSUME SteerTypeOK, QueueInv, Len(stream) < Ahead[way.backend], NEW take \in Batches,
         NEW v, IsTable(v), NEW copy \in Copies, Launch(take, v, copy), KeepsWritten,
         copy.op = "mirror" => /\ way.backend # "gpu"
                               /\ \A k \in DOMAIN stream :
                                    stream[k].copy.op = "mirror" => stream[k].copy.slot # copy.slot,
         copy.op = "scatter" => way.backend = "gpu" /\ Len(copy.ends) \in Reqs,
         NEW n \in Nat, n = Len(stream), NEW want, want = Asked(take, v),
         \A l \in Layers : \A c \in Cols : c <= Total(take) => Shows(n + 1, l, c, want[l][c])'
  PROVE  /\ QueueInv' /\ stream' \in Seq(Steps) /\ Len(stream') <= Ahead[way'.backend]
         /\ computed' \in [Reqs -> Nat] /\ way' = way /\ slotDev' = slotDev /\ colDev' = colDev
         /\ slab' = slab /\ ran' = ran
<1> DEFINE e == [copy |-> copy, n |-> Total(take), want |-> want]
<1>1. /\ stream' = Append(stream, e) /\ computed' = [r \in Reqs |-> computed[r] + take[r]]
      /\ way' = way /\ slotDev' = slotDev /\ colDev' = colDev /\ slab' = slab /\ ran' = ran
  BY DEF Launch
<1>2. take \in [Reqs -> Nat] /\ Total(take) \in Cols /\ Total(take) \in Nat
  BY BatchIs
<1>3. e \in Steps
  <2>1. want \in Slabs
    BY <1>2, AskedType
  <2> QED BY <1>2, <2>1 DEF Steps
<1>4. stream \in Seq(Steps) /\ way \in Ways
  BY StepTypes
<1>5. e.copy = copy /\ e.n = Total(take) /\ e.want = want
  OBVIOUS
<1> HIDE DEF e
<1>6. /\ stream' \in Seq(Steps) /\ Len(stream') = n + 1 /\ stream'[n + 1] = e
      /\ DOMAIN stream = 1 .. n /\ DOMAIN stream' = 1 .. n + 1
      /\ \A k \in 1 .. n : stream'[k] = stream[k]
  BY <1>1, <1>3, <1>4, AppendIs
<1>7. \A i \in 1 .. n + 1 : i = n + 1 \/ i \in 1 .. n
  OBVIOUS
<1>8. ASSUME NEW i \in 1 .. n PROVE Meets(i)'
  <2>1. Meets(i)
    BY <1>6 DEF QueueInv
  <2>2. i \in 0 .. Len(stream)
    OBVIOUS
  <2>3. \A l \in Layers : \A c \in Cols : \A x : Shows(i, l, c, x) => Shows(i, l, c, x)'
    BY <1>1, <1>3, <1>4, <2>2, ShowsBehind
  <2>4. stream'[i] = stream[i]
    BY <1>6
  <2> QED BY <1>1, <2>1, <2>3, <2>4, MeetsKept
<1>9. Meets(n + 1)'
  <2>1. \A l \in Layers : \A c \in Cols : ~(c <= Total(take)) => want[l][c] = NoSteer
    <3> SUFFICES ASSUME NEW l \in Layers, NEW c \in Cols, ~(c <= Total(take)) PROVE want[l][c] = NoSteer
      OBVIOUS
    <3>1. c > Total(take)
      BY <1>2, Counts DEF Cols
    <3> QED BY <1>2, <3>1, AskedIs
  <2>2. ASSUME NEW l \in Layers, NEW c \in Cols
        PROVE  IF c <= stream'[n + 1].n THEN Shows(n + 1, l, c, stream[n + 1].want[l][c])'
               ELSE stream'[n + 1].want[l][c] = NoSteer
    <3>1. CASE c <= Total(take)
      <4>1. PICK x : x = want[l][c]
        OBVIOUS
      <4>2. Shows(n + 1, l, c, x)'
        BY <3>1, <4>1
      <4>3. x = stream'[n + 1].want[l][c] /\ c <= stream'[n + 1].n
        BY <1>5, <1>6, <3>1, <4>1
      <4>4. Shows(n + 1, l, c, stream[n + 1].want[l][c])'
        BY <4>2, <4>3, Zenon DEF Shows
      <4> QED BY <4>3, <4>4
    <3>2. CASE ~(c <= Total(take))
      <4>1. ~(c <= stream'[n + 1].n) /\ stream'[n + 1].want[l][c] = NoSteer
        BY <1>5, <1>6, <2>1, <3>2
      <4> QED BY <4>1
    <3> QED BY <3>1, <3>2
  <2>3. /\ stream'[n + 1].copy.op = "mirror" => way'.backend # "gpu"
        /\ stream'[n + 1].copy.op = "scatter" =>
             way'.backend = "gpu" /\ Len(stream'[n + 1].copy.ends) \in Reqs
    BY <1>1, <1>5, <1>6
  <2> QED BY <2>2, <2>3 DEF Meets
<1>10. \A i, j \in DOMAIN stream' :
         stream'[i].copy.op = "mirror" /\ stream'[j].copy.op = "mirror"
           /\ stream'[i].copy.slot = stream'[j].copy.slot => i = j
  <2> SUFFICES ASSUME NEW i \in 1 .. n + 1, NEW j \in 1 .. n + 1,
                      stream'[i].copy.op = "mirror", stream'[j].copy.op = "mirror",
                      stream'[i].copy.slot = stream'[j].copy.slot
               PROVE  i = j
    BY <1>6
  <2>1. \A k \in 1 .. n : stream'[k] = stream[k] /\ k \in DOMAIN stream
    BY <1>6
  <2>2. stream'[n + 1].copy = copy
    BY <1>5, <1>6
  <2>3. CASE i = n + 1 /\ j \in 1 .. n
    BY <2>1, <2>2, <2>3
  <2>4. CASE j = n + 1 /\ i \in 1 .. n
    BY <2>1, <2>2, <2>4
  <2>5. CASE i \in 1 .. n /\ j \in 1 .. n
    BY <2>1, <2>5 DEF QueueInv
  <2> QED BY <1>7, <2>3, <2>4, <2>5
<1>11. QueueInv'
  <2>1. \A i \in DOMAIN stream' : Meets(i)'
    BY <1>6, <1>7, <1>8, <1>9
  <2> QED BY <1>10, <2>1 DEF QueueInv
<1>12. computed' \in [Reqs -> Nat]
  <2>1. \A r \in Reqs : computed[r] \in Nat /\ take[r] \in Nat
    BY <1>2 DEF SteerTypeOK
  <2>2. \A r \in Reqs : computed[r] + take[r] \in Nat
    BY <2>1
  <2> QED BY <1>1, <2>2
<1>13. Len(stream') <= Ahead[way'.backend]
  <2>1. Ahead[way.backend] \in Nat
    BY <1>4, Sizes
  <2> QED BY <1>1, <1>6, <2>1
<1> QED BY <1>1, <1>6, <1>11, <1>12, <1>13

-----------------------------------------------------------------------------
(* The key. *)

LEMMA RouteKeyIs ==
  ASSUME NEW take \in Batches
  PROVE  /\ IdleFast(take) => RouteKey(take).ids = <<0>>
         /\ ~IdleFast(take) =>
              /\ RouteKey(take).ids = Ids(take)
              /\ RouteKey(take).qsl = [i \in DOMAIN Ids(take) |-> take[Ids(take)[i]]]
              /\ RouteKey(take).cols = IF gated THEN StepCols(take) ELSE <<>>
         /\ RouteKey(take).width = Width(Total(take))
         /\ RouteKey(take).qsl \in Seq(Nat) /\ RouteKey(take).cols \in Seq(Int)
         /\ RouteKey(take).width \in 0 .. Cap
         /\ StepCols(take) # <<>>
         /\ Ids(take) # <<>> /\ Ids(take) # <<0>>
<1> DEFINE ids == Ids(take)
           W == Width(Total(take))
<1>1. /\ take \in [Reqs -> Nat] /\ ids \in Seq(Reqs) /\ Len(ids) \in Reqs /\ DOMAIN ids = 1 .. Len(ids)
      /\ \A i \in DOMAIN ids : ids[i] \in Reqs
  BY BatchIs, BatchIds
<1>2. Len(ids) \in Nat /\ Len(ids) >= 1 /\ 0 \notin Reqs /\ Cap \in Nat /\ 1 \in DOMAIN ids
  BY <1>1, Counts
<1>3. W \in 0 .. Cap
  BY <1>2, BatchIs DEF Cols
<1> DEFINE qsl == [i \in DOMAIN ids |-> take[ids[i]]]
<1>4. qsl \in Seq(Nat)
  <2>1. \A i \in 1 .. Len(ids) : take[ids[i]] \in Nat
    BY <1>1
  <2>2. qsl = [i \in 1 .. Len(ids) |-> take[ids[i]]]
    <3> HIDE DEF ids
    <3> QED BY <1>1
  <2> HIDE DEF ids, qsl
  <2> QED BY <1>2, <2>1, <2>2, SeqIs
<1>5. StepCols(take) \in Seq(Int) /\ StepCols(take) # <<>>
  <2> DEFINE cols == [i \in 1 .. Len(ids) |-> ColFor(take, ids[i])]
  <2>1. StepCols(take) = cols
    <3>1. StepCols(take) = [i \in DOMAIN ids |-> ColFor(take, ids[i])]
      BY DEF StepCols
    <3> HIDE DEF ids
    <3> QED BY <1>1, <3>1
  <2>2. \A i \in 1 .. Len(ids) : ColFor(take, ids[i]) \in Int
    BY <1>1, SpanIs
  <2> HIDE DEF ids
  <2>3. cols \in Seq(Int) /\ Len(cols) = Len(ids)
    BY <1>2, <2>2, SeqIs
  <2> QED BY <1>2, <2>1, <2>3
<1>6. ids # <<>> /\ ids # <<0>>
  <2> HIDE DEF ids
  <2>1. ids[1] \in Reqs /\ ids[1] # 0
    BY <1>1, <1>2
  <2> QED BY <1>2, <2>1
<1>7. IdleFast(take) => RouteKey(take) = [ids |-> <<0>>, qsl |-> <<>>, cols |-> <<>>, width |-> W]
  BY DEF RouteKey, NoKey
<1>8. ~IdleFast(take) =>
        RouteKey(take) = [ids |-> ids, qsl |-> qsl,
                          cols |-> IF gated THEN StepCols(take) ELSE <<>>, width |-> W]
  BY DEF RouteKey
<1> HIDE DEF W, ids, qsl
<1>9. <<>> \in Seq(Nat) /\ <<>> \in Seq(Int)
  OBVIOUS
<1> DEFINE K == RouteKey(take)
           cols == IF gated THEN StepCols(take) ELSE <<>>
<1>10. cols \in Seq(Int)
  BY <1>5, <1>9
<1>11. K = IF IdleFast(take) THEN [ids |-> <<0>>, qsl |-> <<>>, cols |-> <<>>, width |-> W]
           ELSE [ids |-> ids, qsl |-> qsl, cols |-> cols, width |-> W]
  BY <1>7, <1>8
<1> HIDE DEF K, cols
<1>12. /\ IdleFast(take) => K.ids = <<0>>
       /\ ~IdleFast(take) => K.ids = ids /\ K.qsl = qsl /\ K.cols = cols
       /\ K.width = W
  BY <1>11
<1>13. K.qsl \in Seq(Nat) /\ K.cols \in Seq(Int)
  BY <1>4, <1>9, <1>10, <1>11
<1>14. K.width \in 0 .. Cap
  BY <1>3, <1>12
<1> QED BY <1>5, <1>6, <1>12, <1>13, <1>14, Zenon DEF W, ids, qsl, K, cols

\* A batch none of whose requests steers asks for nothing.
LEMMA IdleAsks ==
  ASSUME NEW take \in Batches, IdleFast(take), NEW v, IsTable(v), NEW l \in Layers, NEW c \in Cols
  PROVE  Asked(take, v)[l][c] = NoSteer
<1>1. take \in [Reqs -> Nat]
  BY BatchIs
<1>2. \A r \in Reqs : ~Steers(take, v, r, l, c)
  <2> SUFFICES ASSUME NEW r \in Reqs, Steers(take, v, r, l, c) PROVE FALSE
    OBVIOUS
  <2>1. take[r] > 0 /\ SlotOf(r, v).layers # {}
    BY DEF Steers
  <2>2. Asks[r].steer
    BY <2>1, SlotIs
  <2> QED BY <2>1, <2>2 DEF IdleFast
<1> QED BY <1>1, <1>2, AskedIs

\* The columns in a key with no gate seen, or with one.
LEMMA KeyColsFit ==
  ASSUME NEW take \in Batches, NEW v, NEW cols, NEW on \in BOOLEAN,
         cols = (IF on THEN StepCols(take) ELSE <<>>), ~on => Ungated(take, v)
  PROVE  ColsFit(take, v, cols # <<>>, cols)
<1>1. CASE on
  <2>1. cols # <<>> /\ cols = StepCols(take)
    BY <1>1, RouteKeyIs
  <2>2. \A i \in DOMAIN Ids(take) : cols[i] = ColFor(take, Ids(take)[i])
    BY <2>1 DEF StepCols
  <2> QED BY <2>1, <2>2 DEF ColsFit
<1>2. CASE ~on
  BY <1>2 DEF ColsFit
<1> QED BY <1>1, <1>2

\* While the key stands, the slab comes to what is asked.
LEMMA KeyServes ==
  ASSUME SteerTypeOK, KeyInv, NEW take \in Batches, RouteKey(take) = lastKey,
         NEW l \in Layers, NEW c \in Cols, c <= Total(take)
  PROVE  Shows(Len(stream), l, c, Asked(take, vecs)[l][c])
<1>0. IsTable(vecs) /\ gated \in BOOLEAN
  BY StepTypes DEF SteerTypeOK
<1>1. /\ take \in [Reqs -> 0 .. Cap] /\ Total(take) \in Cols /\ Total(take) \in Nat
      /\ Width(Total(take)) \in Nat /\ Total(take) <= Width(Total(take)) /\ c \in Nat /\ c >= 1
  BY BatchIs, Counts DEF Cols
<1>2. CASE lastKey = NoKey
  <2>1. RouteKey(take).ids = <<>>
    BY <1>2 DEF NoKey
  <2>2. RouteKey(take).ids = <<0>> \/ RouteKey(take).ids = Ids(take)
    BY RouteKeyIs
  <2>3. Ids(take) # <<>>
    BY RouteKeyIs
  <2> QED BY <2>1, <2>2, <2>3
<1>3. CASE StandsIdle
  <2>1. lastKey.ids = <<0>> /\ \A k \in 1 .. lastKey.width : Shows(Len(stream), l, k, NoSteer)
    BY <1>3 DEF StandsIdle
  <2>2. IdleFast(take)
    BY <2>1, RouteKeyIs
  <2>3. Asked(take, vecs)[l][c] = NoSteer
    BY <1>0, <2>2, IdleAsks
  <2>4. lastKey.width = Width(Total(take))
    BY RouteKeyIs
  <2>5. c \in 1 .. lastKey.width
    BY <1>1, <2>4
  <2> QED BY <2>1, <2>3, <2>5
<1>4. ASSUME NEW t \in [Reqs -> 0 .. Cap], StandsFor(t)
      PROVE  Shows(Len(stream), l, c, Asked(take, vecs)[l][c])
  <2>1. /\ Total(t) \in Cols /\ lastKey.ids = Ids(t)
        /\ lastKey.qsl = [i \in DOMAIN Ids(t) |-> t[Ids(t)[i]]]
    BY <1>4 DEF StandsFor
  <2>2. ~IdleFast(take)
    <3>1. \A i \in DOMAIN Ids(t) : Ids(t)[i] \in Reqs
      BY <2>1, BatchIds
    <3>2. Ids(t) # <<0>>
      BY <3>1, Counts
    <3> QED BY <2>1, <3>2, RouteKeyIs
  <2>3. /\ Ids(take) = Ids(t)
        /\ [i \in DOMAIN Ids(take) |-> take[Ids(take)[i]]] = [i \in DOMAIN Ids(t) |-> t[Ids(t)[i]]]
        /\ lastKey.cols = IF gated THEN StepCols(take) ELSE <<>>
    BY <2>1, <2>2, RouteKeyIs
  <2>4. take = t
    BY <1>1, <2>1, <2>3, OneBatch
  <2>5. lastKey.cols # <<>> \/ ~gated
    BY <2>3, RouteKeyIs
  <2>6. /\ Shows(Len(stream), l, c, Planned(take, vecs, lastKey.cols, l, c))
        /\ \A r \in Reqs : take[r] > 0 /\ SlotOf(r, vecs).layers # {} /\ Gates(r) => gated
    <3>1. c \in 1 .. Total(take)
      BY <1>1
    <3> QED BY <1>4, <2>4, <2>5, <3>1 DEF StandsFor
  <2>7. ColsFit(take, vecs, lastKey.cols # <<>>, lastKey.cols)
    <3>1. ~gated => Ungated(take, vecs)
      BY <2>6 DEF Ungated
    <3> QED BY <1>0, <2>3, <3>1, KeyColsFit
  <2>8. Asked(take, vecs)[l][c] = Planned(take, vecs, lastKey.cols, l, c)
    BY <1>0, <1>1, <2>7, AskedIsPlanned
  <2> QED BY <2>6, <2>8
<1> QED BY <1>2, <1>3, <1>4 DEF KeyInv

\* A key made anew stands for the slab that was made for it.
LEMMA KeyBuilt ==
  ASSUME NEW take \in Batches, lastKey' = RouteKey(take), gated \in BOOLEAN, gated' \in BOOLEAN,
         NEW v, v = vecs', IsTable(v), NEW want, want = Asked(take, v), NEW n \in Nat, n = Len(stream'),
         \A l \in Layers : \A c \in Cols : c <= Width(Total(take)) => Shows(n, l, c, want[l][c])',
         gated => gated', ~gated' => Ungated(take, v)
  PROVE  KeyInv'
<1>0. Cap \in Nat /\ Cols = 1 .. Cap
  BY Counts DEF Cols
<1>1. /\ take \in [Reqs -> 0 .. Cap] /\ Total(take) \in Cols /\ Total(take) \in Nat
      /\ Width(Total(take)) \in Cols /\ Width(Total(take)) \in Nat /\ Total(take) <= Width(Total(take))
  BY <1>0, BatchIs
<1>2. CASE IdleFast(take)
  <2>1. lastKey'.ids = <<0>> /\ lastKey'.width = Width(Total(take))
    BY <1>2, RouteKeyIs
  <2>2. ASSUME NEW l \in Layers, NEW c \in 1 .. lastKey'.width
        PROVE  Shows(Len(stream), l, c, NoSteer)'
    <3>1. c \in Cols /\ c <= Width(Total(take))
      BY <1>0, <1>1, <2>1
    <3>2. PICK x : x = want[l][c]
      OBVIOUS
    <3>3. Shows(n, l, c, x)'
      BY <3>1, <3>2
    <3>4. x = NoSteer
      BY <1>2, <3>1, <3>2, IdleAsks
    <3>5. x = NoSteer' /\ n = Len(stream')
      BY <3>4 DEF NoSteer
    <3> QED BY <3>3, <3>5, Zenon DEF Shows
  <2>3. StandsIdle'
    BY <2>1, <2>2 DEF StandsIdle
  <2> QED BY <2>3 DEF KeyInv
<1>3. CASE ~IdleFast(take)
  <2>1. /\ lastKey'.ids = Ids(take)
        /\ lastKey'.qsl = [i \in DOMAIN Ids(take) |-> take[Ids(take)[i]]]
        /\ lastKey'.cols = IF gated THEN StepCols(take) ELSE <<>>
    BY <1>3, RouteKeyIs
  <2>2. ASSUME lastKey'.cols # <<>> \/ ~gated', NEW l \in Layers, NEW c \in 1 .. Total(take)
        PROVE  Shows(Len(stream), l, c, Planned(take, vecs, lastKey.cols, l, c))'
    <3>1. c \in Cols /\ c <= Width(Total(take))
      BY <1>0, <1>1
    <3>2. PICK cols : cols = lastKey'.cols
      OBVIOUS
    <3>3. cols = (IF gated THEN StepCols(take) ELSE <<>>) /\ (~gated => Ungated(take, v))
      BY <2>1, <2>2, <3>2
    <3>4. ColsFit(take, v, cols # <<>>, cols)
      BY <3>3, KeyColsFit
    <3>5. want[l][c] = Planned(take, v, cols, l, c)
      BY <1>1, <3>1, <3>4, AskedIsPlanned
    <3>6. PICK x : x = want[l][c]
      OBVIOUS
    <3>7. Shows(n, l, c, x)'
      BY <3>1, <3>6
    <3>8. x = Planned(take, vecs, lastKey.cols, l, c)' /\ n = Len(stream')
      BY <3>2, <3>5, <3>6
    <3> QED BY <3>7, <3>8, Zenon DEF Shows
  <2>3. ASSUME NEW r \in Reqs, take[r] > 0, SlotOf(r, vecs').layers # {}, Gates(r) PROVE gated'
    BY <2>3 DEF Ungated
  <2>4. StandsFor(take)'
    BY <1>1, <2>1, <2>2, <2>3 DEF StandsFor
  <2> QED BY <1>1, <2>4 DEF KeyInv
<1> QED BY <1>2, <1>3

-----------------------------------------------------------------------------
(* The host's steps. *)

LEMMA ShowsNew ==
  ASSUME stream \in Seq(Steps), NEW e \in Steps, stream' = Append(stream, e), slab' = slab, KeepsWritten,
         NEW n \in Nat, n = Len(stream), NEW l \in Layers, NEW c \in Cols, NEW x,
         Covers(n + 1, l, c)' => x = Written(n + 1, l, c)',
         ~Covers(n + 1, l, c)' => Shows(n, l, c, x)
  PROVE  Shows(n + 1, l, c, x)'
<1>1. n \in 0 .. Len(stream)
  OBVIOUS
<1>2. ~Covers(n + 1, l, c)' => Shows(n, l, c, x)'
  BY <1>1, ShowsBehind
<1> QED BY <1>2, ShowsLast

LEMMA LaunchAppends ==
  ASSUME SteerTypeOK, NEW take \in Batches, NEW v, IsTable(v), NEW copy \in Copies, Launch(take, v, copy)
  PROVE  stream \in Seq(Steps) /\ \E e \in Steps : stream' = Append(stream, e) /\ e.copy = copy
<1> DEFINE e == [copy |-> copy, n |-> Total(take), want |-> Asked(take, v)]
<1>1. stream' = Append(stream, e) /\ e.copy = copy
  BY DEF Launch
<1>2. e \in Steps
  <2>1. Asked(take, v) \in Slabs /\ Total(take) \in Cols
    BY BatchIs, AskedType
  <2> QED BY <2>1 DEF Steps
<1>3. stream \in Seq(Steps)
  BY StepTypes
<1> HIDE DEF e
<1> QED BY <1>1, <1>2, <1>3

LEMMA LaunchFacts ==
  ASSUME SteerTypeOK, NEW take \in Batches, NEW v, IsTable(v), NEW copy \in Copies, Launch(take, v, copy)
  PROVE  /\ slab' = slab /\ slotDev' = slotDev /\ colDev' = colDev /\ way' = way
         /\ stream'[Len(stream) + 1].copy = copy
         /\ Len(stream') = Len(stream) + 1 /\ Len(stream) \in Nat /\ DOMAIN stream = 1 .. Len(stream)
         /\ \A k \in DOMAIN stream : stream'[k] = stream[k]
<1>1. PICK e \in Steps : stream' = Append(stream, e) /\ e.copy = copy
  BY LaunchAppends
<1>2. stream \in Seq(Steps)
  BY StepTypes
<1>3. /\ Len(stream) \in Nat /\ DOMAIN stream = 1 .. Len(stream) /\ stream'[Len(stream) + 1] = e
      /\ Len(stream') = Len(stream) + 1
      /\ \A k \in 1 .. Len(stream) : stream'[k] = stream[k]
  BY <1>1, <1>2, AppendIs
<1>4. slab' = slab /\ slotDev' = slotDev /\ colDev' = colDev /\ way' = way
  BY DEF Launch
<1> QED BY <1>1, <1>3, <1>4

LEMMA ReuseKeeps ==
  ASSUME SteerInv, GpuInStep, Len(stream) < Ahead[way.backend], NEW take \in Batches, Reuse(take)
  PROVE  SteerInv'
<1>0. SteerTypeOK /\ ForwardSteersAsAsked /\ QueueInv /\ StateInv /\ TableInv /\ KeyInv
  BY DEF SteerInv
<1>1. /\ RouteKey(take) = lastKey /\ Launch(take, vecs, NoCopy)
      /\ vecs' = vecs /\ lastKey' = lastKey /\ gated' = gated
      /\ mirror' = mirror /\ idx' = idx /\ state' = state /\ slotKey' = slotKey
      /\ slotHost' = slotHost /\ colHost' = colHost
  BY DEF Reuse
<1>2. PICK v : v = vecs
  OBVIOUS
<1>3. IsTable(v) /\ Launch(take, v, NoCopy) /\ NoCopy \in Copies /\ NoCopy.op = "none"
  BY <1>0, <1>1, <1>2, StepTypes DEF Copies, NoCopy
<1>4. slab' = slab /\ slotDev' = slotDev /\ colDev' = colDev /\ way' = way
  BY <1>0, <1>3, LaunchFacts
<1>5. PICK n \in Nat : n = Len(stream) /\ n + 1 = Len(stream') /\ DOMAIN stream = 1 .. n
                       /\ stream'[n + 1].copy = NoCopy /\ \A k \in 1 .. n : stream'[k] = stream[k]
  BY <1>0, <1>3, LaunchFacts
<1>6. KeepsWritten
  <2> SUFFICES ASSUME NEW k \in 1 .. n, NEW l \in Layers, NEW c \in Cols
               PROVE  Written(k, l, c)' = Written(k, l, c)
    BY <1>5 DEF KeepsWritten
  <2>1. stream'[k] = stream[k]
    BY <1>5
  <2> QED BY <1>1, <1>4, <2>1 DEF Written, SlotsAfter, ColsAfter
<1>7. ASSUME NEW l \in Layers, NEW c \in Cols, NEW x, Shows(n, l, c, x) PROVE Shows(n + 1, l, c, x)'
  <2>1. ~Covers(n + 1, l, c)'
    BY <1>3, <1>5 DEF Covers
  <2>2. PICK e \in Steps : stream' = Append(stream, e)
    BY <1>0, <1>3, LaunchAppends
  <2>3. stream \in Seq(Steps) /\ slab' = slab /\ n = Len(stream)
    BY <1>0, <1>4, <1>5, StepTypes
  <2> QED BY <1>6, <1>7, <2>1, <2>2, <2>3, ShowsNew
<1>8. Carries
  <2> SUFFICES ASSUME NEW l \in Layers, NEW c \in Cols, NEW x, Shows(Len(stream), l, c, x)
               PROVE  Shows(Len(stream), l, c, x)'
    BY DEF Carries
  <2>1. Shows(n, l, c, x)
    BY <1>5
  <2>2. Shows(n + 1, l, c, x)'
    BY <1>7, <2>1
  <2>3. n + 1 = Len(stream')
    BY <1>5
  <2> QED BY <2>2, <2>3, Zenon DEF Shows
<1>9. PICK want : want = Asked(take, v)
  OBVIOUS
<1>10. \A l \in Layers : \A c \in Cols : c <= Total(take) => Shows(n + 1, l, c, want[l][c])'
  <2> SUFFICES ASSUME NEW l \in Layers, NEW c \in Cols, c <= Total(take)
               PROVE  Shows(n + 1, l, c, want[l][c])'
    OBVIOUS
  <2>1. PICK x : x = want[l][c]
    OBVIOUS
  <2>2. Shows(n, l, c, x)
    <3>1. Shows(Len(stream), l, c, Asked(take, vecs)[l][c])
      BY <1>0, <1>1, KeyServes
    <3> QED BY <1>2, <1>5, <1>9, <2>1, <3>1
  <2>3. Shows(n + 1, l, c, x)'
    BY <1>7, <2>2
  <2> QED BY <2>1, <2>3
<1>11. /\ QueueInv' /\ stream' \in Seq(Steps) /\ Len(stream') <= Ahead[way'.backend]
       /\ computed' \in [Reqs -> Nat] /\ ran' = ran
  BY <1>0, <1>3, <1>5, <1>6, <1>9, <1>10, LaunchIs
<1>12. KeyInv'
  BY <1>0, <1>1, <1>8, StepTypes, KeyKept
<1>13. StateInv'
  BY <1>0, <1>1, <1>4, <1>8, StateKept
<1>14. TableInv'
  <2> SUFFICES ASSUME way.backend = "gpu", NEW i \in DOMAIN slotKey PROVE SlotRight(i)'
    BY <1>1, <1>4 DEF TableInv
  <2>1. SlotRight(i)
    BY <1>0 DEF TableInv
  <2>2. stream = <<>>
    <3>1. Ahead[way.backend] = 1
      BY <1>0, StepTypes DEF GpuInStep
    <3>2. Len(stream) = 0
      BY <1>5, <3>1
    <3> QED BY <1>0, <3>2, StepTypes, EmptySeq
  <2>3. slotDev[i] = slotHost[i]
    BY <2>1, <2>2 DEF SlotRight
  <2> QED BY <1>1, <1>4, <2>1, <2>3 DEF SlotRight
<1>15. SteerTypeOK'
  BY <1>0, <1>1, <1>4, <1>11 DEF SteerTypeOK, Steps
<1>16. ForwardSteersAsAsked'
  BY <1>0, <1>11 DEF ForwardSteersAsAsked
<1> QED BY <1>11, <1>12, <1>13, <1>14, <1>15, <1>16 DEF SteerInv

LEMMA NextSlot == ASSUME NEW d \in Nat \ {0}, NEW m \in Nat PROVE m % d \in 0 .. d - 1
OBVIOUS

LEMMA BuildHostKeeps ==
  ASSUME SteerInv, Len(stream) < Ahead[way.backend], NEW take \in Batches, BuildHost(take)
  PROVE  SteerInv'
<1>0. SteerTypeOK /\ ForwardSteersAsAsked /\ QueueInv /\ StateInv /\ TableInv /\ KeyInv
  BY DEF SteerInv
<1> DEFINE batch == { r \in Reqs : take[r] > 0 }
<1>1. PICK v, w, want, s : /\ v = VecsAfter(batch) /\ w = Width(Total(take)) /\ want = Asked(take, v)
                           /\ s = idx
  OBVIOUS
<1> DEFINE copy == [op |-> "mirror", slot |-> s, cells |-> Layers \X (1 .. w)]
<1>2. /\ way.backend = "host" /\ lastKey' = RouteKey(take) /\ Read(s)
      /\ mirror' = [mirror EXCEPT ![s] =
                      [l \in Layers |-> [c \in Cols |-> IF c <= w THEN want[l][c] ELSE @[l][c]]]]
      /\ idx' = (s + 1) % Depth /\ vecs' = v
      /\ gated' = (gated \/ \E r \in Reqs : take[r] > 0 /\ Gates(r) /\ SlotOf(r, v) # Unset)
      /\ Launch(take, v, copy)
      /\ state' = state /\ slotKey' = slotKey /\ slotHost' = slotHost /\ colHost' = colHost
  BY <1>1 DEF BuildHost, Build
<1>3. Grows(vecs, v) /\ IsTable(v)
  BY <1>0, <1>1, StepTypes, TableAfter DEF Grows
<1>4. /\ take \in [Reqs -> Nat] /\ w \in Cols /\ w \in Nat /\ Total(take) <= w /\ Total(take) \in Nat
      /\ Cols = 1 .. Cap /\ Cap \in Nat /\ want \in Slabs
  <2>1. Cols = 1 .. Cap /\ Cap \in Nat
    BY Counts DEF Cols
  <2>2. /\ take \in [Reqs -> Nat] /\ w \in Cols /\ Total(take) <= w /\ Total(take) \in Nat
    BY <1>1, BatchIs
  <2>3. want \in Slabs
    BY <1>1, <1>3, <2>2, AskedType
  <2> QED BY <2>1, <2>2, <2>3
<1>5. s \in 0 .. Depth - 1 /\ idx' \in 0 .. Depth - 1
  <2>1. s \in 0 .. Depth - 1
    BY <1>0, <1>1 DEF SteerTypeOK
  <2>2. s + 1 \in Nat /\ Depth \in Nat \ {0}
    BY <2>1, Counts
  <2> QED BY <1>2, <2>1, <2>2, NextSlot
<1>6. copy \in Copies /\ copy.op = "mirror" /\ copy.slot = s /\ copy.cells = Layers \X (1 .. w)
  <2>1. Layers \X (1 .. w) \subseteq Layers \X Cols
    BY <1>4
  <2> QED BY <1>5, <2>1 DEF Copies
<1> HIDE DEF copy, batch
<1>7. mirror \in [0 .. Depth - 1 -> Slabs] /\ stream \in Seq(Steps) /\ gated \in BOOLEAN
  BY <1>0, StepTypes DEF SteerTypeOK
<1>8. /\ \A l \in Layers : \A c \in Cols :
           mirror'[s][l][c] = IF c <= w THEN want[l][c] ELSE mirror[s][l][c]
      /\ \A i \in 0 .. Depth - 1 : i # s => mirror'[i] = mirror[i]
  BY <1>2, <1>5, <1>7
<1>9. mirror' \in [0 .. Depth - 1 -> Slabs]
  <2> DEFINE new == [l \in Layers |-> [c \in Cols |-> IF c <= w THEN want[l][c] ELSE mirror[s][l][c]]]
  <2>1. mirror[s] \in Slabs
    BY <1>5, <1>7
  <2>2. \A l \in Layers : \A c \in Cols : want[l][c] \in Cells /\ mirror[s][l][c] \in Cells
    BY <1>4, <2>1 DEF Slabs
  <2>3. new \in Slabs
    BY <2>2 DEF Slabs
  <2>4. mirror' = [mirror EXCEPT ![s] = new]
    BY <1>2
  <2> HIDE DEF new
  <2> QED BY <1>7, <2>3, <2>4
<1>10. slab' = slab /\ slotDev' = slotDev /\ colDev' = colDev /\ way' = way
  BY <1>0, <1>2, <1>3, <1>6, LaunchFacts
<1>11. PICK n \in Nat : n = Len(stream) /\ n + 1 = Len(stream') /\ DOMAIN stream = 1 .. n
                        /\ stream'[n + 1].copy = copy /\ \A k \in 1 .. n : stream'[k] = stream[k]
  BY <1>0, <1>2, <1>3, <1>6, LaunchFacts
<1>12. ASSUME NEW k \in DOMAIN stream, stream[k].copy.op = "mirror"
       PROVE  stream[k].copy.slot # s /\ stream[k].copy.slot \in 0 .. Depth - 1
  <2>1. stream[k] \in Steps
    BY <1>7
  <2> QED BY <1>2, <1>12, <2>1, CopyIs DEF Read, Steps
<1>13. KeepsWritten
  <2> SUFFICES ASSUME NEW k \in 1 .. n, NEW l \in Layers, NEW c \in Cols
               PROVE  Written(k, l, c)' = Written(k, l, c)
    BY <1>11 DEF KeepsWritten
  <2>1. stream'[k] = stream[k] /\ k \in DOMAIN stream
    BY <1>11
  <2>2. CASE stream[k].copy.op = "mirror"
    <3>1. mirror'[stream[k].copy.slot] = mirror[stream[k].copy.slot]
      BY <1>8, <1>12, <2>1, <2>2
    <3> QED BY <2>1, <2>2, <3>1 DEF Written
  <2>3. CASE stream[k].copy.op # "mirror"
    BY <1>2, <1>10, <2>1, <2>3 DEF Written, SlotsAfter, ColsAfter
  <2> QED BY <2>2, <2>3
<1>14. ASSUME NEW l \in Layers, NEW c \in Cols, c <= w PROVE Shows(n + 1, l, c, want[l][c])'
  <2>1. PICK x : x = want[l][c]
    OBVIOUS
  <2>2. c \in 1 .. w
    BY <1>4, <1>14
  <2>3. Covers(n + 1, l, c)'
    BY <1>6, <1>11, <2>2 DEF Covers
  <2>4. x = Written(n + 1, l, c)'
    BY <1>6, <1>8, <1>11, <1>14, <2>1 DEF Written
  <2>5. Shows(n + 1, l, c, x)'
    BY <2>3, <2>4, ShowsLast
  <2> QED BY <2>1, <2>5
<1>15. /\ QueueInv' /\ stream' \in Seq(Steps) /\ Len(stream') <= Ahead[way'.backend]
       /\ computed' \in [Reqs -> Nat] /\ ran' = ran
  <2>1. \A l \in Layers : \A c \in Cols : c <= Total(take) => Shows(n + 1, l, c, want[l][c])'
    <3> SUFFICES ASSUME NEW l \in Layers, NEW c \in Cols, c <= Total(take)
                 PROVE  Shows(n + 1, l, c, want[l][c])'
      OBVIOUS
    <3>1. c <= w
      BY <1>4
    <3> QED BY <1>14, <3>1
  <2>2. /\ copy.op = "mirror" => /\ way.backend # "gpu"
                                 /\ \A k \in DOMAIN stream :
                                      stream[k].copy.op = "mirror" => stream[k].copy.slot # copy.slot
        /\ copy.op = "scatter" => way.backend = "gpu" /\ Len(copy.ends) \in Reqs
    BY <1>2, <1>6, <1>12
  <2>3. n = Len(stream) /\ want = Asked(take, v)
    BY <1>1, <1>11
  <2> QED BY <1>0, <1>2, <1>3, <1>6, <1>13, <2>1, <2>2, <2>3, LaunchIs
<1>16. gated' \in BOOLEAN /\ (gated => gated') /\ (~gated' => Ungated(take, v))
  <2>1. Unset.layers = {}
    BY DEF Unset
  <2> QED BY <1>2, <1>7, <2>1 DEF Ungated
<1>17. KeyInv'
  <2>1. \A l \in Layers : \A c \in Cols : c <= Width(Total(take)) => Shows(n + 1, l, c, want[l][c])'
    BY <1>1, <1>14
  <2>2. PICK m \in Nat : m = n + 1 /\ m = Len(stream')
    BY <1>11
  <2>3. \A l \in Layers : \A c \in Cols : c <= Width(Total(take)) => Shows(m, l, c, want[l][c])'
    BY <2>1, <2>2
  <2> QED BY <1>1, <1>2, <1>3, <1>7, <1>16, <2>2, <2>3, KeyBuilt
<1>18. StateInv' /\ TableInv'
  BY <1>2, <1>10 DEF StateInv, TableInv
<1>19. SteerTypeOK'
  <2>1. \A i \in Reqs : slotHost'[i] # Unset => slotHost'[i].cell[1] \in DOMAIN vecs'
    <3>1. \A i \in Reqs : slotHost[i] # Unset => slotHost[i].cell[1] \in DOMAIN vecs
      BY <1>0 DEF SteerTypeOK
    <3>2. DOMAIN vecs \subseteq DOMAIN v
      BY <1>3, GrowsFacts
    <3> QED BY <1>2, <3>1, <3>2
  <2>2. lastKey'.qsl \in Seq(Nat) /\ lastKey'.cols \in Seq(Int) /\ lastKey'.width \in 0 .. Cap
    BY <1>2, RouteKeyIs
  <2>3. /\ vecs' \in Seq({Asks[r].path : r \in Reqs}) /\ Len(vecs') <= VMax
        /\ \A i, j \in DOMAIN vecs' : vecs'[i] = vecs'[j] => i = j
    BY <1>2, <1>3 DEF IsTable, Paths
  <2> QED BY <1>0, <1>2, <1>5, <1>9, <1>10, <1>15, <1>16, <2>1, <2>2, <2>3 DEF SteerTypeOK, Steps
<1>20. ForwardSteersAsAsked'
  BY <1>0, <1>15 DEF ForwardSteersAsAsked
<1> QED BY <1>15, <1>17, <1>18, <1>19, <1>20 DEF SteerInv
\* What is uploaded takes in what changed.
LEMMA UploadedIs ==
  ASSUME NEW w \in Nat, NEW changed, changed \subseteq Layers \X (1 .. w)
  PROVE  /\ changed \subseteq Uploaded(changed)
         /\ Uploaded(changed) \subseteq Layers \X (1 .. w)
<1> DEFINE ls == { x[1] : x \in changed }
           cs == { x[2] : x \in changed }
<1>1. CASE changed = {}
  BY <1>1 DEF Uploaded
<1>2. CASE changed # {}
  <2>1. Uploaded(changed) = ls \X (Min(cs) .. Max(cs))
    BY <1>2 DEF Uploaded
  <2>2. \A x \in changed : x[1] \in Layers /\ x[2] \in 1 .. w /\ x = <<x[1], x[2]>>
    OBVIOUS
  <2>3. ls \subseteq Layers /\ cs \subseteq 1 .. w /\ cs # {}
    BY <1>2, <2>2
  <2>4. \A x \in changed : x[1] \in ls /\ x[2] \in cs
    OBVIOUS
  <2> HIDE DEF ls, cs
  <2>5. cs \subseteq Nat /\ \A y \in cs : y <= w /\ y \in 1 .. w
    BY <2>3
  <2>6. Min(cs) \in cs /\ Max(cs) \in cs /\ \A y \in cs : Min(cs) <= y /\ y <= Max(cs)
    BY <2>3, <2>5, MinIs, MaxIs
  <2>7. PICK a, b : a = Min(cs) /\ b = Max(cs)
    OBVIOUS
  <2>8. a \in 1 .. w /\ b \in 1 .. w /\ \A y \in cs : y \in a .. b
    <3>1. a \in cs /\ b \in cs /\ \A y \in cs : a <= y /\ y <= b
      BY <2>6, <2>7
    <3>2. a \in 1 .. w /\ b \in 1 .. w
      BY <2>5, <3>1
    <3>3. \A y \in cs : y \in a .. b
      BY <2>5, <3>1, <3>2
    <3> QED BY <3>2, <3>3
  <2>9. Uploaded(changed) = ls \X (a .. b)
    BY <2>1, <2>7
  <2>10. ASSUME NEW x \in changed PROVE x \in Uploaded(changed)
    BY <2>2, <2>4, <2>8, <2>9
  <2>11. ls \X (a .. b) \subseteq Layers \X (1 .. w)
    BY <2>3, <2>8
  <2> QED BY <2>9, <2>10, <2>11
<1> QED BY <1>1, <1>2

LEMMA BuildIncrementalKeeps ==
  ASSUME SteerInv, Len(stream) < Ahead[way.backend], NEW take \in Batches, BuildIncremental(take)
  PROVE  SteerInv'
<1>0. SteerTypeOK /\ ForwardSteersAsAsked /\ QueueInv /\ StateInv /\ TableInv /\ KeyInv
  BY DEF SteerInv
<1> DEFINE batch == { r \in Reqs : take[r] > 0 }
<1>1. PICK v, w, want, changed :
         /\ v = VecsAfter(batch) /\ w = Width(Total(take)) /\ want = Asked(take, v)
         /\ changed = { x \in Layers \X (1 .. w) : want[x[1]][x[2]] # state[x[1]][x[2]] }
  OBVIOUS
<1>2. PICK copy : copy = IF changed = {} THEN NoCopy
                         ELSE [op |-> "mirror", slot |-> 0, cells |-> Uploaded(changed)]
  OBVIOUS
<1>3. /\ way.backend = "incremental" /\ lastKey' = RouteKey(take) /\ (changed # {} => Read(0))
      /\ mirror' = [mirror EXCEPT ![0] =
           [l \in Layers |-> [c \in Cols |-> IF <<l, c>> \in changed THEN want[l][c] ELSE @[l][c]]]]
      /\ state' = [l \in Layers |-> [c \in Cols |-> IF c <= w THEN want[l][c] ELSE state[l][c]]]
      /\ vecs' = v
      /\ gated' = (gated \/ \E r \in Reqs : take[r] > 0 /\ Gates(r) /\ SlotOf(r, v) # Unset)
      /\ Launch(take, v, copy)
      /\ idx' = idx /\ slotKey' = slotKey /\ slotHost' = slotHost /\ colHost' = colHost
  BY <1>1, <1>2, Zenon DEF BuildIncremental, Build
<1>4. Grows(vecs, v) /\ IsTable(v)
  BY <1>0, <1>1, StepTypes, TableAfter DEF Grows
<1>5. /\ take \in [Reqs -> Nat] /\ w \in Cols /\ w \in Nat /\ Total(take) <= w /\ Total(take) \in Nat
      /\ Cols = 1 .. Cap /\ Cap \in Nat /\ want \in Slabs
  <2>1. Cols = 1 .. Cap /\ Cap \in Nat
    BY Counts DEF Cols
  <2>2. /\ take \in [Reqs -> Nat] /\ w \in Cols /\ Total(take) <= w /\ Total(take) \in Nat
    BY <1>1, BatchIs
  <2>3. want \in Slabs
    BY <1>1, <1>4, <2>2, AskedType
  <2> QED BY <2>1, <2>2, <2>3
<1> HIDE DEF batch
<1>6. /\ mirror \in [0 .. Depth - 1 -> Slabs] /\ stream \in Seq(Steps) /\ gated \in BOOLEAN
      /\ 0 \in 0 .. Depth - 1 /\ state \in Slabs /\ mirror[0] = state
  <2>1. mirror[0] = state
    BY <1>0, <1>3 DEF StateInv
  <2>2. 0 \in 0 .. Depth - 1
    BY Counts
  <2>3. gated \in BOOLEAN /\ state \in Slabs
    BY <1>0 DEF SteerTypeOK
  <2> QED BY <1>0, <2>1, <2>2, <2>3, StepTypes
<1>7. changed \subseteq Layers \X (1 .. w)
  BY <1>1
<1>8. changed \subseteq Uploaded(changed) /\ Uploaded(changed) \subseteq Layers \X Cols
  <2>1. Layers \X (1 .. w) \subseteq Layers \X Cols
    BY <1>5
  <2> QED BY <1>5, <1>7, <2>1, UploadedIs
<1>9. /\ copy \in Copies
      /\ changed = {} => copy.op = "none"
      /\ changed # {} => copy.op = "mirror" /\ copy.slot = 0 /\ copy.cells = Uploaded(changed)
  <2>1. CASE changed = {}
    BY <1>2, <2>1 DEF NoCopy, Copies
  <2>2. CASE changed # {}
    BY <1>2, <1>6, <1>8, <2>2 DEF Copies
  <2> QED BY <2>1, <2>2
\* The state's cells, and that the mirror holds them still.
<1>10. state' \in Slabs
  <2>1. \A l \in Layers : \A c \in Cols : want[l][c] \in Cells /\ state[l][c] \in Cells
    BY <1>5, <1>6 DEF Slabs
  <2> QED BY <1>3, <2>1 DEF Slabs
<1>11. ASSUME NEW l \in Layers, NEW c \in Cols
       PROVE  /\ state'[l][c] = (IF c <= w THEN want[l][c] ELSE state[l][c])
              /\ <<l, c>> \in changed => state'[l][c] = want[l][c]
              /\ <<l, c>> \notin changed => state'[l][c] = state[l][c]
  <2>1. state'[l][c] = (IF c <= w THEN want[l][c] ELSE state[l][c])
    BY <1>3
  <2>2. c <= w => <<l, c>> \in Layers \X (1 .. w)
    BY <1>5
  <2>3. <<l, c>> \in Layers \X (1 .. w) => c <= w
    BY <1>5
  <2>4. <<l, c>> \in changed <=> <<l, c>> \in Layers \X (1 .. w) /\ want[l][c] # state[l][c]
    BY <1>1
  <2> QED BY <2>1, <2>2, <2>3, <2>4
<1>12. mirror' \in [0 .. Depth - 1 -> Slabs] /\ mirror'[0] = state'
       /\ \A s \in 0 .. Depth - 1 : s # 0 => mirror'[s] = mirror[s]
  <2> DEFINE new == [l \in Layers |-> [c \in Cols |-> IF <<l, c>> \in changed THEN want[l][c] ELSE state[l][c]]]
  <2>1. \A l \in Layers : \A c \in Cols :
           state'[l][c] = IF <<l, c>> \in changed THEN want[l][c] ELSE state[l][c]
    BY <1>11
  <2>2. state' = [l \in Layers |-> [c \in Cols |-> state'[l][c]]]
    BY <1>10 DEF Slabs
  <2>3. new = state'
    BY <2>1, <2>2
  <2>4. mirror' = [mirror EXCEPT ![0] = new]
    BY <1>3, <1>6
  <2> HIDE DEF new
  <2> QED BY <1>6, <1>10, <2>3, <2>4
<1>13. slab' = slab /\ slotDev' = slotDev /\ colDev' = colDev /\ way' = way
  BY <1>0, <1>3, <1>4, <1>9, LaunchFacts
<1>14. PICK n \in Nat : n = Len(stream) /\ n + 1 = Len(stream') /\ DOMAIN stream = 1 .. n
                        /\ stream'[n + 1].copy = copy /\ \A k \in 1 .. n : stream'[k] = stream[k]
  BY <1>0, <1>3, <1>4, <1>9, LaunchFacts
<1>15. ASSUME NEW k \in DOMAIN stream, stream[k].copy.op = "mirror"
       PROVE  /\ stream[k].copy.slot \in 0 .. Depth - 1
              /\ changed # {} => stream[k].copy.slot # 0
  <2>1. stream[k] \in Steps
    BY <1>6
  <2> QED BY <1>3, <1>15, <2>1, CopyIs DEF Read, Steps
<1>16. changed = {} => mirror' = mirror
  <2> SUFFICES ASSUME changed = {} PROVE mirror' = mirror
    OBVIOUS
  <2>1. \A l \in Layers : \A c \in Cols : state'[l][c] = state[l][c]
    BY <1>11
  <2>2. state' = state
    BY <1>6, <1>10, <2>1 DEF Slabs
  <2>3. \A s \in 0 .. Depth - 1 : mirror'[s] = mirror[s]
    BY <1>6, <1>12, <2>2
  <2>4. /\ mirror' = [s \in 0 .. Depth - 1 |-> mirror'[s]]
        /\ mirror = [s \in 0 .. Depth - 1 |-> mirror[s]]
    BY <1>6, <1>12
  <2> QED BY <2>3, <2>4, Zenon
<1>17. KeepsWritten
  <2> SUFFICES ASSUME NEW k \in 1 .. n, NEW l \in Layers, NEW c \in Cols
               PROVE  Written(k, l, c)' = Written(k, l, c)
    BY <1>14 DEF KeepsWritten
  <2>1. stream'[k] = stream[k] /\ k \in DOMAIN stream
    BY <1>14
  <2>2. CASE stream[k].copy.op = "mirror"
    <3>1. mirror'[stream[k].copy.slot] = mirror[stream[k].copy.slot]
      BY <1>12, <1>15, <1>16, <2>1, <2>2
    <3> QED BY <2>1, <2>2, <3>1 DEF Written
  <2>3. CASE stream[k].copy.op # "mirror"
    BY <1>3, <1>13, <2>1, <2>3 DEF Written, SlotsAfter, ColsAfter
  <2> QED BY <2>2, <2>3
<1>18. ASSUME NEW l \in Layers, NEW c \in Cols, NEW x, x = state'[l][c] PROVE Shows(n + 1, l, c, x)'
  <2>1. Covers(n + 1, l, c)' <=> copy.op = "mirror" /\ <<l, c>> \in Uploaded(changed)
    <3>1. copy.op # "scatter"
      BY <1>9
    <3> QED BY <1>9, <1>14, <3>1 DEF Covers
  <2>2. Covers(n + 1, l, c)' => x = Written(n + 1, l, c)'
    <3> SUFFICES ASSUME Covers(n + 1, l, c)' PROVE x = Written(n + 1, l, c)'
      OBVIOUS
    <3>1. stream'[n + 1].copy.op = "mirror" /\ stream'[n + 1].copy.slot = 0
      BY <1>9, <1>14, <2>1
    <3> QED BY <1>12, <1>18, <3>1 DEF Written
  <2>3. ~Covers(n + 1, l, c)' => Shows(n, l, c, x)
    <3> SUFFICES ASSUME ~Covers(n + 1, l, c)' PROVE Shows(n, l, c, x)
      OBVIOUS
    <3>1. <<l, c>> \notin changed
      BY <1>8, <1>9, <2>1
    <3>2. x = state[l][c]
      BY <1>11, <1>18, <3>1
    <3> QED BY <1>0, <1>3, <1>14, <3>2 DEF StateInv
  <2>4. PICK e \in Steps : stream' = Append(stream, e)
    BY <1>0, <1>3, <1>4, <1>9, LaunchAppends
  <2> QED BY <1>6, <1>13, <1>14, <1>17, <2>2, <2>3, <2>4, ShowsNew
<1>19. ASSUME NEW l \in Layers, NEW c \in Cols, c <= w PROVE Shows(n + 1, l, c, want[l][c])'
  <2>1. PICK x : x = want[l][c]
    OBVIOUS
  <2>2. x = state'[l][c]
    BY <1>11, <1>19, <2>1
  <2>3. Shows(n + 1, l, c, x)'
    BY <1>18, <2>2
  <2> QED BY <2>1, <2>3
<1>20. /\ QueueInv' /\ stream' \in Seq(Steps) /\ Len(stream') <= Ahead[way'.backend]
       /\ computed' \in [Reqs -> Nat] /\ ran' = ran
  <2>1. \A l \in Layers : \A c \in Cols : c <= Total(take) => Shows(n + 1, l, c, want[l][c])'
    <3> SUFFICES ASSUME NEW l \in Layers, NEW c \in Cols, c <= Total(take)
                 PROVE  Shows(n + 1, l, c, want[l][c])'
      OBVIOUS
    <3>1. c <= w
      BY <1>5
    <3> QED BY <1>19, <3>1
  <2>2. /\ copy.op = "mirror" => /\ way.backend # "gpu"
                                 /\ \A k \in DOMAIN stream :
                                      stream[k].copy.op = "mirror" => stream[k].copy.slot # copy.slot
        /\ copy.op = "scatter" => way.backend = "gpu" /\ Len(copy.ends) \in Reqs
    BY <1>3, <1>9, <1>15
  <2>3. n = Len(stream) /\ want = Asked(take, v)
    BY <1>1, <1>14
  <2> QED BY <1>0, <1>3, <1>4, <1>9, <1>17, <2>1, <2>2, <2>3, LaunchIs
<1>21. gated' \in BOOLEAN /\ (gated => gated') /\ (~gated' => Ungated(take, v))
  <2>1. Unset.layers = {}
    BY DEF Unset
  <2> QED BY <1>3, <1>6, <2>1 DEF Ungated
<1>22. PICK m \in Nat : m = n + 1 /\ m = Len(stream')
  BY <1>14
<1>23. KeyInv'
  <2>1. \A l \in Layers : \A c \in Cols : c <= Width(Total(take)) => Shows(n + 1, l, c, want[l][c])'
    BY <1>1, <1>19
  <2>2. \A l \in Layers : \A c \in Cols : c <= Width(Total(take)) => Shows(m, l, c, want[l][c])'
    BY <1>22, <2>1
  <2> QED BY <1>1, <1>3, <1>4, <1>6, <1>21, <1>22, <2>2, KeyBuilt
<1>24. StateInv'
  <2>1. ASSUME NEW l \in Layers, NEW c \in Cols PROVE Shows(Len(stream), l, c, state[l][c])'
    <3>1. PICK x : x = state'[l][c]
      OBVIOUS
    <3>2. Shows(n + 1, l, c, x)'
      BY <1>18, <3>1
    <3>3. Shows(m, l, c, x)'
      BY <1>22, <3>2
    <3> QED BY <1>22, <3>1, <3>3, Zenon DEF Shows
  <2> QED BY <1>12, <2>1 DEF StateInv
<1>25. TableInv'
  BY <1>3, <1>13 DEF TableInv
<1>26. SteerTypeOK'
  <2>1. \A i \in Reqs : slotHost'[i] # Unset => slotHost'[i].cell[1] \in DOMAIN vecs'
    <3>1. \A i \in Reqs : slotHost[i] # Unset => slotHost[i].cell[1] \in DOMAIN vecs
      BY <1>0 DEF SteerTypeOK
    <3>2. DOMAIN vecs \subseteq DOMAIN v
      BY <1>4, GrowsFacts
    <3> QED BY <1>3, <3>1, <3>2
  <2>2. lastKey'.qsl \in Seq(Nat) /\ lastKey'.cols \in Seq(Int) /\ lastKey'.width \in 0 .. Cap
    BY <1>3, RouteKeyIs
  <2>3. /\ vecs' \in Seq({Asks[r].path : r \in Reqs}) /\ Len(vecs') <= VMax
        /\ \A i, j \in DOMAIN vecs' : vecs'[i] = vecs'[j] => i = j
    BY <1>3, <1>4 DEF IsTable, Paths
  <2> QED BY <1>0, <1>3, <1>10, <1>12, <1>13, <1>20, <1>21, <2>1, <2>2, <2>3 DEF SteerTypeOK, Steps
<1>27. ForwardSteersAsAsked'
  BY <1>0, <1>20 DEF ForwardSteersAsAsked
<1> QED BY <1>20, <1>23, <1>24, <1>25, <1>26, <1>27 DEF SteerInv
LEMMA BuildGpuKeeps ==
  ASSUME SteerInv, GpuInStep, Len(stream) < Ahead[way.backend], NEW take \in Batches, BuildGpu(take)
  PROVE  SteerInv'
<1>0. SteerTypeOK /\ ForwardSteersAsAsked /\ QueueInv /\ StateInv /\ TableInv /\ KeyInv
  BY DEF SteerInv
<1> DEFINE ids == Ids(take)
           moved == ids # slotKey
           fresh == IF moved THEN Changed(ids) ELSE {}
           batch == { ids[i] : i \in fresh }
           resolved == moved \/ (gated /\ ~IdleFast(take))
           noticed == gated \/ (resolved /\ \E i \in DOMAIN ids : Gates(ids[i]))
           ends == [i \in DOMAIN ids |-> End(take, ids[i])]
<1>1. PICK v, w : v = VecsAfter(batch) /\ w = Width(Total(take))
  OBVIOUS
<1>2. PICK y : y = [op |-> "scatter", slots |-> moved, cols |-> noticed /\ resolved, ends |-> ends, width |-> w]
  OBVIOUS
<1>3. /\ way.backend = "gpu" /\ lastKey' = RouteKey(take)
      /\ slotHost' = [i \in Reqs |-> IF i \in fresh THEN SlotOf(ids[i], v) ELSE slotHost[i]]
      /\ slotKey' = ids /\ gated' = noticed
      /\ colHost' = [i \in Reqs |-> IF noticed /\ resolved /\ i \in DOMAIN ids
                                    THEN StepCols(take)[i] ELSE colHost[i]]
      /\ vecs' = v /\ Launch(take, v, y)
      /\ mirror' = mirror /\ idx' = idx /\ state' = state
  BY <1>1, <1>2, Zenon DEF BuildGpu, Build
<1>4. Grows(vecs, v) /\ IsTable(v) /\ \A r \in Reqs : r \in batch => Served(v, r)
  BY <1>0, <1>1, StepTypes, TableAfter DEF Grows
<1>5. /\ take \in [Reqs -> 0 .. Cap] /\ take \in [Reqs -> Nat] /\ w \in Cols /\ w \in Nat
      /\ Total(take) \in Cols /\ Total(take) <= w /\ Total(take) \in Nat
      /\ Cols = 1 .. Cap /\ Cap \in Nat
  BY <1>1, BatchIs, Counts DEF Cols
<1>6. /\ ids \in Seq(Reqs) /\ Len(ids) \in Reqs /\ DOMAIN ids = 1 .. Len(ids)
      /\ \A i \in DOMAIN ids : ids[i] \in Reqs /\ take[ids[i]] > 0 /\ i \in Reqs
      /\ \A q \in Reqs : take[q] > 0 => \E i \in DOMAIN ids : ids[i] = q
  BY <1>5, BatchIds
<1>7. Len(stream) = 0 /\ stream = <<>> /\ \A r \in Reqs : Asks[r].steer => Asks[r].valid
  <2>1. Ahead[way.backend] = 1 /\ \A r \in Reqs : Asks[r].steer => Asks[r].valid
    BY <1>0, <1>3, StepTypes DEF GpuInStep
  <2>2. stream \in Seq(Steps) /\ Len(stream) \in Nat
    BY <1>0, StepTypes
  <2>3. Len(stream) = 0
    BY <2>1, <2>2
  <2> QED BY <2>1, <2>2, <2>3, EmptySeq
<1>8. /\ fresh \subseteq DOMAIN ids
      /\ ~moved => fresh = {} /\ slotKey = ids
      /\ \A i \in DOMAIN ids : i \notin fresh => i \in DOMAIN slotKey /\ slotKey[i] = ids[i]
  <2>1. slotKey \in Seq(Reqs)
    BY <1>0 DEF SteerTypeOK
  <2>2. DOMAIN slotKey = 1 .. Len(slotKey) /\ Len(slotKey) \in Nat /\ Len(ids) \in Nat
    BY <1>6, <2>1
  <2> QED BY <1>6, <2>2 DEF Changed
<1>9. \A i \in DOMAIN slotKey : SlotRight(i)
  BY <1>0, <1>3 DEF TableInv
<1>10. gated \in BOOLEAN
  BY <1>0 DEF SteerTypeOK
<1>11. /\ moved \in BOOLEAN /\ resolved \in BOOLEAN /\ noticed \in BOOLEAN
       /\ moved => resolved
       /\ gated => noticed
       /\ resolved => \A i \in DOMAIN ids : Gates(ids[i]) => noticed
       /\ ~resolved /\ gated => IdleFast(take)
  BY <1>10
<1>12. /\ y.op = "scatter" /\ y.ends = ends /\ y.width = w
       /\ y.slots = moved /\ y.cols = (noticed /\ resolved)
  BY <1>2
<1>13. y.ends \in Seq(Cols) /\ Len(y.ends) = Len(ids)
  BY <1>5, <1>12, SlotAtIs
<1>14. y \in Copies
  BY <1>2, <1>5, <1>12, <1>13 DEF Copies
<1>15. ASSUME NEW i \in fresh PROVE ids[i] \in batch
  OBVIOUS
<1>16. ends = [i \in DOMAIN Ids(take) |-> End(take, Ids(take)[i])] /\ ids = Ids(take)
  OBVIOUS
<1> HIDE DEF batch, fresh, moved, resolved, noticed, ends
\* Every slot is its request's.
<1>17. ASSUME NEW i \in DOMAIN ids
       PROVE  Served(v, ids[i]) /\ Same(slotHost'[i], SlotOf(ids[i], v))
  <2>1. ids[i] \in Reqs /\ i \in Reqs
    BY <1>6
  <2>2. CASE i \in fresh
    <3>1. Served(v, ids[i])
      BY <1>4, <1>15, <2>1, <2>2
    <3>2. slotHost'[i] = SlotOf(ids[i], v)
      BY <1>3, <2>1, <2>2
    <3> QED BY <3>1, <3>2 DEF Same
  <2>3. CASE i \notin fresh
    <3>1. Served(vecs, ids[i]) /\ Same(slotHost[i], SlotOf(ids[i], vecs))
      BY <1>8, <1>9, <2>3 DEF SlotRight
    <3>2. slotHost'[i] = slotHost[i]
      BY <1>3, <2>1, <2>3
    <3>3. Served(v, ids[i])
      BY <1>4, <3>1, ServedStays
    <3>4. Same(SlotOf(ids[i], v), SlotOf(ids[i], vecs))
      BY <1>4, <2>1, <3>1, SlotKept
    <3> QED BY <3>1, <3>2, <3>3, <3>4 DEF Same
  <2> QED BY <2>2, <2>3
\* What nobody noticed gates nothing.
<1>18. ~(noticed /\ resolved) => Ungated(take, v)
  <2> SUFFICES ASSUME ~(noticed /\ resolved), NEW r \in Reqs, take[r] > 0, SlotOf(r, v).layers # {}, Gates(r)
               PROVE  FALSE
    BY DEF Ungated
  <2>1. PICK i \in DOMAIN ids : ids[i] = r
    BY <1>6
  <2>2. CASE resolved
    BY <1>11, <2>1, <2>2
  <2>3. CASE ~resolved
    <3>1. slotKey = ids
      BY <1>8, <1>11, <2>3
    <3>2. gated
      BY <1>9, <2>1, <3>1 DEF SlotRight
    <3>3. ~Asks[r].steer
      BY <1>11, <2>3, <3>2 DEF IdleFast
    <3> QED BY <1>4, <3>3, SlotIs
  <2> QED BY <2>2, <2>3
<1>19. slab' = slab /\ slotDev' = slotDev /\ colDev' = colDev /\ way' = way
  BY <1>0, <1>3, <1>4, <1>14, LaunchFacts
<1>20. PICK n \in Nat : n = 0 /\ n = Len(stream) /\ n + 1 = Len(stream') /\ stream'[n + 1].copy = y
  BY <1>0, <1>3, <1>4, <1>7, <1>14, LaunchFacts
<1>21. KeepsWritten
  BY <1>7 DEF KeepsWritten
<1>22. ASSUME ~moved, NEW i \in DOMAIN ids PROVE slotDev'[i] = slotHost'[i]
  <2>1. slotDev[i] = slotHost[i]
    BY <1>7, <1>8, <1>9, <1>22 DEF SlotRight
  <2>2. slotHost'[i] = slotHost[i]
    BY <1>3, <1>6, <1>8, <1>22
  <2> QED BY <1>19, <2>1, <2>2
<1>23. PICK slots, cols : slots = SlotsAfter(y)' /\ cols = ColsAfter(y)'
  OBVIOUS
<1>24. ASSUME NEW i \in DOMAIN ids
       PROVE  /\ slots[i] = slotHost'[i]
              /\ y.cols => cols[i] = ColFor(take, ids[i])
  <2>1. i \in Reqs /\ i <= Len(y.ends)
    BY <1>6, <1>13
  <2>2. slots[i] = slotHost'[i]
    BY <1>12, <1>22, <1>23, <2>1 DEF SlotsAfter
  <2>3. ASSUME y.cols PROVE cols[i] = ColFor(take, ids[i])
    <3>1. cols[i] = colHost'[i]
      BY <1>23, <2>1, <2>3 DEF ColsAfter
    <3>2. noticed /\ resolved
      BY <1>12, <2>3
    <3>3. colHost'[i] = StepCols(take)[i]
      BY <1>3, <2>1, <3>2
    <3> QED BY <1>16, <3>1, <3>3 DEF StepCols
  <2> QED BY <2>2, <2>3
<1>25. PICK want : want = Asked(take, v)
  OBVIOUS
<1>26. ASSUME NEW l \in Layers, NEW c \in Cols, c <= w PROVE Shows(n + 1, l, c, want[l][c])'
  <2>1. ColsFit(take, v, y.cols, cols)
    <3>1. CASE y.cols
      BY <1>16, <1>24, <3>1 DEF ColsFit
    <3>2. CASE ~y.cols
      BY <1>12, <1>18, <3>2 DEF ColsFit
    <3> QED BY <3>1, <3>2
  <2>2. \A i \in DOMAIN Ids(take) : Same(slots[i], SlotOf(Ids(take)[i], v))
    BY <1>16, <1>17, <1>24
  <2>3. y.ends = [i \in DOMAIN Ids(take) |-> End(take, Ids(take)[i])]
    BY <1>12, <1>16
  <2>4. Spread(y, slots, cols, l, c) = want[l][c]
    BY <1>4, <1>5, <1>7, <1>25, <2>1, <2>2, <2>3, SpreadIs
  <2>5. PICK x : x = want[l][c]
    OBVIOUS
  <2>6. Covers(n + 1, l, c)'
    BY <1>12, <1>20, <1>26 DEF Covers
  <2>7. Written(n + 1, l, c)' = Spread(y, slots, cols, l, c)
    BY <1>12, <1>20, <1>23 DEF Written
  <2>8. Shows(n + 1, l, c, x)'
    BY <2>4, <2>5, <2>6, <2>7, ShowsLast
  <2> QED BY <2>5, <2>8
<1>27. /\ QueueInv' /\ stream' \in Seq(Steps) /\ Len(stream') <= Ahead[way'.backend]
       /\ computed' \in [Reqs -> Nat] /\ ran' = ran
  <2>1. \A l \in Layers : \A c \in Cols : c <= Total(take) => Shows(n + 1, l, c, want[l][c])'
    <3> SUFFICES ASSUME NEW l \in Layers, NEW c \in Cols, c <= Total(take)
                 PROVE  Shows(n + 1, l, c, want[l][c])'
      OBVIOUS
    <3>1. c <= w
      BY <1>5
    <3> QED BY <1>26, <3>1
  <2>2. /\ y.op # "mirror"
        /\ y.op = "scatter" => way.backend = "gpu" /\ Len(y.ends) \in Reqs
    BY <1>3, <1>6, <1>12, <1>13
  <2> QED BY <1>0, <1>3, <1>4, <1>14, <1>20, <1>21, <1>25, <2>1, <2>2, LaunchIs
<1>28. gated' \in BOOLEAN /\ (gated => gated') /\ (~gated' => Ungated(take, v))
  BY <1>3, <1>11, <1>18
<1>29. KeyInv'
  <2>1. PICK m \in Nat : m = n + 1 /\ m = Len(stream')
    BY <1>20
  <2>2. \A l \in Layers : \A c \in Cols : c <= Width(Total(take)) => Shows(n + 1, l, c, want[l][c])'
    BY <1>1, <1>26
  <2>3. \A l \in Layers : \A c \in Cols : c <= Width(Total(take)) => Shows(m, l, c, want[l][c])'
    BY <2>1, <2>2
  <2> QED BY <1>3, <1>4, <1>10, <1>25, <1>28, <2>1, <2>3, KeyBuilt
<1>30. StateInv'
  BY <1>3, <1>19 DEF StateInv
<1>31. TableInv'
  <2> SUFFICES ASSUME NEW i \in DOMAIN ids PROVE SlotRight(i)'
    BY <1>3 DEF TableInv
  <2>1. Served(vecs, slotKey[i])' /\ Same(slotHost[i], SlotOf(slotKey[i], vecs))'
    BY <1>3, <1>17
  <2>2. \/ slotDev'[i] = slotHost'[i]
        \/ stream' # <<>> /\ stream'[1].copy.op = "scatter" /\ stream'[1].copy.slots
           /\ i <= Len(stream'[1].copy.ends)
    <3>1. CASE moved
      <4>1. stream'[1].copy = y /\ Len(stream') = 1
        BY <1>20
      <4>2. stream' # <<>>
        <5>1. Len(<< >>) # 1
          OBVIOUS
        <5> QED BY <4>1, <5>1, Zenon
      <4>3. i <= Len(y.ends) /\ y.slots
        BY <1>6, <1>12, <1>13, <3>1
      <4>4. stream'[1].copy = y
        BY <4>1
      <4> QED BY <1>12, <4>2, <4>3, <4>4, Zenon
    <3>2. CASE ~moved
      BY <1>22, <3>2
    <3> QED BY <3>1, <3>2
  <2>3. Gates(ids[i]) => gated'
    <3>1. CASE resolved
      BY <1>3, <1>11, <3>1
    <3>2. CASE ~resolved
      <4>1. slotKey = ids
        BY <1>8, <1>11, <3>2
      <4> QED BY <1>3, <1>9, <1>11, <4>1 DEF SlotRight
    <3> QED BY <3>1, <3>2
  <2> QED BY <1>3, <2>1, <2>2, <2>3 DEF SlotRight
<1>32. SteerTypeOK'
  <2>1. slotHost' \in [Reqs -> Slots]
        /\ \A i \in Reqs : slotHost'[i] # Unset => slotHost'[i].cell[1] \in DOMAIN vecs'
    <3> SUFFICES ASSUME NEW i \in Reqs
                 PROVE  /\ (IF i \in fresh THEN SlotOf(ids[i], v) ELSE slotHost[i]) \in Slots
                        /\ slotHost'[i] # Unset => slotHost'[i].cell[1] \in DOMAIN vecs'
      BY <1>3
    <3>1. CASE i \in fresh
      <4>1. ids[i] \in Reqs
        BY <1>6, <1>8, <3>1
      <4>2. slotHost'[i] = SlotOf(ids[i], v)
        BY <1>3, <3>1
      <4> QED BY <1>3, <1>4, <3>1, <4>1, <4>2, SlotIs
    <3>2. CASE i \notin fresh
      <4>1. slotHost[i] \in Slots /\ (slotHost[i] # Unset => slotHost[i].cell[1] \in DOMAIN vecs)
        BY <1>0 DEF SteerTypeOK
      <4>2. DOMAIN vecs \subseteq DOMAIN v
        BY <1>4, GrowsFacts
      <4>3. slotHost'[i] = slotHost[i]
        BY <1>3, <3>2
      <4> QED BY <1>3, <3>2, <4>1, <4>2, <4>3
    <3> QED BY <3>1, <3>2
  <2>2. lastKey'.qsl \in Seq(Nat) /\ lastKey'.cols \in Seq(Int) /\ lastKey'.width \in 0 .. Cap
    BY <1>3, RouteKeyIs
  <2>3. /\ vecs' \in Seq({Asks[r].path : r \in Reqs}) /\ Len(vecs') <= VMax
        /\ \A i, j \in DOMAIN vecs' : vecs'[i] = vecs'[j] => i = j
    BY <1>3, <1>4 DEF IsTable, Paths
  <2>4. colHost' \in [Reqs -> Int]
    <3>1. \A i \in DOMAIN ids : StepCols(take)[i] \in Int
      BY <1>5, <1>6, <1>16, SpanIs DEF StepCols
    <3>2. \A i \in Reqs : colHost[i] \in Int
      BY <1>0 DEF SteerTypeOK
    <3> QED BY <1>3, <3>1, <3>2
  <2>5. slotKey' \in Seq(Reqs) /\ Len(slotKey') <= Len(Asks)
    <3>1. Len(ids) <= Len(Asks)
      BY <1>6, Counts
    <3> QED BY <1>3, <1>6, <3>1
  <2> QED BY <1>0, <1>3, <1>19, <1>27, <1>28, <2>1, <2>2, <2>3, <2>4, <2>5 DEF SteerTypeOK, Steps
<1>33. ForwardSteersAsAsked'
  BY <1>0, <1>27 DEF ForwardSteersAsAsked
<1> QED BY <1>27, <1>29, <1>30, <1>31, <1>32, <1>33 DEF SteerInv
-----------------------------------------------------------------------------
(* Together. *)

LEMMA BlankIs == Blank \in Slabs /\ Unset \in Slots /\ ColAll \in Int
<1>1. NoSteer \in Cells
  BY DEF Cells
<1>2. Blank \in Slabs
  BY <1>1 DEF Blank, Slabs
<1> QED BY <1>1, <1>2 DEF Unset, Slots, ColAll

LEMMA SteerInitHolds == SteerInit => SteerInv
<1> SUFFICES ASSUME SteerInit PROVE SteerInv
  OBVIOUS
<1>1. /\ way \in Ways /\ computed = [r \in Reqs |-> 0] /\ vecs = <<>> /\ lastKey = NoKey /\ gated = FALSE
      /\ mirror = [s \in 0 .. Depth - 1 |-> Blank] /\ idx = 0 /\ state = Blank
      /\ slotKey = <<>> /\ slotHost = [i \in Reqs |-> Unset] /\ colHost = [i \in Reqs |-> ColAll]
      /\ stream = <<>> /\ slotDev = slotHost /\ colDev = colHost /\ slab = Blank
      /\ ran = [got |-> Blank, want |-> Blank]
  BY DEF SteerInit
<1>2. Len(stream) = 0 /\ DOMAIN stream = {} /\ DOMAIN slotKey = {} /\ Len(slotKey) = 0
      /\ DOMAIN vecs = {} /\ Len(vecs) = 0
  BY <1>1
<1>3. 0 \in 0 .. Depth - 1 /\ VMax \in Nat /\ Len(Asks) \in Nat /\ Cap \in Nat /\ Ahead[way.backend] \in Nat
  BY <1>1, Counts, Sizes
<1>4. SteerTypeOK
  <2>1. lastKey.qsl \in Seq(Nat) /\ lastKey.cols \in Seq(Int) /\ lastKey.width \in 0 .. Cap
    BY <1>1, <1>3 DEF NoKey
  <2>2. mirror \in [0 .. Depth - 1 -> Slabs] /\ state \in Slabs /\ slab \in Slabs /\ ran \in [got : Slabs, want : Slabs]
    BY <1>1, BlankIs
  <2>3. /\ slotHost \in [Reqs -> Slots] /\ slotDev \in [Reqs -> Slots]
        /\ colHost \in [Reqs -> Int] /\ colDev \in [Reqs -> Int]
        /\ \A i \in Reqs : slotHost[i] = Unset
    BY <1>1, BlankIs
  <2>4. computed \in [Reqs -> Nat] /\ gated \in BOOLEAN /\ idx \in 0 .. Depth - 1
    BY <1>1, <1>3
  <2>5. /\ vecs \in Seq({Asks[r].path : r \in Reqs}) /\ slotKey \in Seq(Reqs)
        /\ stream \in Seq([copy : Copies, n : Cols, want : Slabs])
    BY <1>1
  <2>6. Len(vecs) <= VMax /\ Len(slotKey) <= Len(Asks) /\ Len(stream) <= Ahead[way.backend]
    BY <1>2, <1>3
  <2>7. /\ \A i, j \in DOMAIN vecs : vecs[i] = vecs[j] => i = j
        /\ \A i \in Reqs : slotHost[i] # Unset => slotHost[i].cell[1] \in DOMAIN vecs
    BY <1>2, <2>3
  <2> QED BY <1>1, <2>1, <2>2, <2>3, <2>4, <2>5, <2>6, <2>7, Zenon DEF SteerTypeOK
<1>5. ForwardSteersAsAsked
  BY <1>1 DEF ForwardSteersAsAsked
<1>6. QueueInv /\ TableInv
  BY <1>2 DEF QueueInv, TableInv
<1>7. StateInv
  <2>1. ASSUME NEW l \in Layers, NEW c \in Cols PROVE Shows(Len(stream), l, c, state[l][c])
    <3>1. \A k \in 1 .. Len(stream) : FALSE
      BY <1>2
    <3>2. state[l][c] = slab[l][c]
      BY <1>1
    <3> QED BY <3>1, <3>2, Zenon DEF Shows
  <2>2. mirror[0] = state
    BY <1>1, <1>3
  <2> QED BY <2>1, <2>2 DEF StateInv
<1>8. KeyInv
  BY <1>1 DEF KeyInv
<1> QED BY <1>4, <1>5, <1>6, <1>7, <1>8 DEF SteerInv

LEMMA SteerStutterKeeps == SteerInv /\ UNCHANGED steerVars => SteerInv'
<1> SUFFICES ASSUME SteerInv, UNCHANGED steerVars PROVE SteerInv'
  OBVIOUS
<1>0. SteerTypeOK /\ ForwardSteersAsAsked /\ QueueInv /\ StateInv /\ TableInv /\ KeyInv
  BY ZenonT(30) DEF SteerInv
<1>1. /\ way' = way /\ computed' = computed /\ vecs' = vecs /\ lastKey' = lastKey /\ gated' = gated
      /\ mirror' = mirror /\ idx' = idx /\ state' = state /\ slotKey' = slotKey
      /\ slotHost' = slotHost /\ colHost' = colHost /\ slotDev' = slotDev /\ colDev' = colDev
      /\ stream' = stream /\ slab' = slab /\ ran' = ran
  BY Zenon DEF steerVars, host
<1>2. ASSUME NEW i, NEW l, NEW c, NEW x, Shows(i, l, c, x) PROVE Shows(i, l, c, x)'
  BY <1>1, <1>2, Zenon DEF Shows, Covers, Written, SlotsAfter, ColsAfter
<1>3. ASSUME NEW i \in DOMAIN stream PROVE Meets(i)'
  <2>1. Meets(i)
    BY <1>0 DEF QueueInv
  <2> QED BY <1>1, <1>2, <2>1, MeetsKept
<1>4. QueueInv'
  BY <1>0, <1>1, <1>3 DEF QueueInv
<1>5. Carries
  <2> SUFFICES ASSUME NEW l \in Layers, NEW c \in Cols, NEW x, Shows(Len(stream), l, c, x)
               PROVE  Shows(Len(stream), l, c, x)'
    BY DEF Carries
  <2>1. PICK n : n = Len(stream) /\ n = Len(stream')
    BY <1>1
  <2>2. Shows(n, l, c, x)
    BY <2>1
  <2>3. Shows(n, l, c, x)'
    BY <1>2, <2>2
  <2> QED BY <2>1, <2>3, Zenon DEF Shows
<1>6. KeyInv' /\ StateInv'
  BY <1>0, <1>1, <1>5, StepTypes, KeyKept, StateKept
<1>7. TableInv'
  BY <1>0, <1>1 DEF TableInv, SlotRight
<1>8. SteerTypeOK' /\ ForwardSteersAsAsked'
  BY <1>0, <1>1 DEF SteerTypeOK, ForwardSteersAsAsked
<1> QED BY <1>4, <1>6, <1>7, <1>8 DEF SteerInv

LEMMA SteerStepKeeps == GpuInStep /\ SteerInv /\ [SteerNext]_steerVars => SteerInv'
<1> SUFFICES ASSUME GpuInStep, SteerInv, [SteerNext]_steerVars PROVE SteerInv'
  OBVIOUS
<1>1. ASSUME Len(stream) < Ahead[way.backend], NEW take \in Batches,
             Reuse(take) \/ BuildHost(take) \/ BuildIncremental(take) \/ BuildGpu(take)
      PROVE  SteerInv'
  BY <1>1, ReuseKeeps, BuildHostKeeps, BuildIncrementalKeeps, BuildGpuKeeps
<1>2. CASE RunCopy
  BY <1>2, RunCopyKeeps
<1>3. CASE RunScatter
  BY <1>3, RunScatterKeeps
<1>4. CASE RunForward
  BY <1>4, RunForwardKeeps
<1>5. CASE UNCHANGED steerVars
  BY <1>5, SteerStutterKeeps
<1> QED BY <1>1, <1>2, <1>3, <1>4, <1>5 DEF SteerNext

\* The invariant of the three ways to steer: the slab comes to what the last key
\* stands for, every queued forward meets the cells its batch asked for, the
\* incremental state is the mirror and the slab, and each slot is its request's
\* (install_steer.py:305-380, steer_routing_gpu.py:64-85).  For the gpu way it is
\* proved with one step queued at a time and modes that parse: its pinned tables
\* are rewritten without waiting for the copies of the step before.  The host and
\* incremental ways need no such hypothesis.
THEOREM SteeringIsInvariant ==
  ASSUME GpuInStep
  PROVE  SteerSpec => []SteerInv
<1>1. GpuInStep
  OBVIOUS
<1>2. SteerInit => SteerInv
  BY SteerInitHolds
<1>3. SteerInv /\ [SteerNext]_steerVars => SteerInv'
  BY <1>1, SteerStepKeeps
<1> QED BY <1>2, <1>3, PTL DEF SteerSpec

\* Under the same hypothesis every forward steers exactly the tokens its
\* requests asked for, with their own vectors, whether its routing was made for
\* it or reused (install_steer.py:305-380).
THEOREM ForwardsSteerAsAsked ==
  ASSUME GpuInStep
  PROVE  SteerSpec => []ForwardSteersAsAsked
<1>1. SteerSpec => []SteerInv
  BY SteeringIsInvariant
<1>2. SteerInv => ForwardSteersAsAsked
  BY DEF SteerInv
<1> QED BY <1>1, <1>2, PTL

=============================================================================
