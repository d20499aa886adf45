------------------------ MODULE RunIndexChain_proofs ------------------------
(***************************************************************************)
(* The chain of the run index is exact, for any requests, steps and        *)
(* failures.                                                               *)
(***************************************************************************)
EXTENDS RunIndexChain, FiniteSetTheorems, TLAPS

-----------------------------------------------------------------------------
(* Rows of a list of blocks. *)

Block == [start : Nat, owner : Seq(Reqs)]

\* Row x of the files is one of r's.
RowAt(bs, r, x) ==
  \E i \in 1 .. Len(bs) : \E j \in 1 .. Len(bs[i].owner) :
    bs[i].owner[j] = r /\ x = bs[i].start + j - 1

\* RowsIn is the rows of r within the window.
LEMMA InRows ==
  ASSUME NEW bs \in Seq(Block), NEW r, NEW lo \in Nat, NEW hi \in Nat, NEW x
  PROVE  x \in RowsIn(bs, r, lo, hi) <=> RowAt(bs, r, x) /\ lo <= x /\ x < hi
<1>1. \A i \in 1 .. Len(bs) : bs[i] \in Block
  OBVIOUS
<1>2. x \in RowsIn(bs, r, lo, hi)
      <=> \E i \in 1 .. Len(bs) : \E j \in 1 .. Len(bs[i].owner) :
            /\ bs[i].owner[j] = r /\ bs[i].start + j - 1 >= lo /\ bs[i].start + j - 1 < hi
            /\ x = bs[i].start + j - 1
  <2> DEFINE P(b) == { b.start + j - 1 : j \in { k \in 1 .. Len(b.owner) :
                        b.owner[k] = r /\ b.start + k - 1 >= lo /\ b.start + k - 1 < hi } }
  <2>1. RowsIn(bs, r, lo, hi) = UNION { P(b) : b \in { bs[i] : i \in 1 .. Len(bs) } }
    BY DEF RowsIn
  <2>2. ASSUME NEW b
        PROVE  x \in P(b) <=> \E j \in 1 .. Len(b.owner) :
                 /\ b.owner[j] = r /\ b.start + j - 1 >= lo /\ b.start + j - 1 < hi
                 /\ x = b.start + j - 1
    OBVIOUS
  <2> HIDE DEF P
  <2>3. x \in RowsIn(bs, r, lo, hi) <=> \E i \in 1 .. Len(bs) : x \in P(bs[i])
    BY <2>1
  <2> QED BY <2>2, <2>3
<1>3. ASSUME NEW i \in 1 .. Len(bs), NEW j \in 1 .. Len(bs[i].owner)
      PROVE  bs[i].start + j - 1 \in Nat
  BY <1>1 DEF Block
<1> QED BY <1>2, <1>3 DEF RowAt

LEMMA RowsAreNat ==
  ASSUME NEW bs \in Seq(Block), NEW r, NEW x, RowAt(bs, r, x)
  PROVE  x \in Nat
<1>1. PICK i \in 1 .. Len(bs) : \E j \in 1 .. Len(bs[i].owner) : x = bs[i].start + j - 1
  BY DEF RowAt
<1>2. bs[i] \in Block
  OBVIOUS
<1> QED BY <1>1, <1>2, SMTT(30) DEF Block

LEMMA RowsFinite ==
  ASSUME NEW bs \in Seq(Block), NEW r, NEW lo \in Nat, NEW hi \in Nat
  PROVE  /\ RowsIn(bs, r, lo, hi) \in SUBSET Nat
         /\ IsFiniteSet(RowsIn(bs, r, lo, hi))
         /\ Cardinality(RowsIn(bs, r, lo, hi)) \in Nat
<1>1. RowsIn(bs, r, lo, hi) \subseteq lo .. hi
  BY InRows, RowsAreNat
<1>2. IsFiniteSet(lo .. hi)
  BY FS_Interval
<1>3. IsFiniteSet(RowsIn(bs, r, lo, hi))
  BY <1>1, <1>2, FS_Subset
<1> QED BY <1>1, <1>3, FS_CardinalityType

\* Two windows side by side.
LEMMA RowsSplit ==
  ASSUME NEW bs \in Seq(Block), NEW r, NEW lo \in Nat, NEW mid \in Nat, NEW hi \in Nat,
         lo <= mid, mid <= hi
  PROVE  /\ RowsIn(bs, r, lo, hi) = RowsIn(bs, r, lo, mid) \cup RowsIn(bs, r, mid, hi)
         /\ RowsIn(bs, r, lo, mid) \cap RowsIn(bs, r, mid, hi) = {}
<1>1. ASSUME NEW x
      PROVE  x \in RowsIn(bs, r, lo, hi)
             <=> x \in RowsIn(bs, r, lo, mid) \/ x \in RowsIn(bs, r, mid, hi)
  BY InRows, RowsAreNat
<1>2. ASSUME NEW x, x \in RowsIn(bs, r, lo, mid), x \in RowsIn(bs, r, mid, hi)
      PROVE  FALSE
  BY <1>2, InRows, RowsAreNat
<1> QED BY <1>1, <1>2

LEMMA RowsSplitAt ==
  ASSUME NEW bs \in Seq(Block), NEW r, NEW mid \in Nat, NEW hi \in Nat, mid <= hi
  PROVE  /\ RowsIn(bs, r, 0, hi) = RowsIn(bs, r, 0, mid) \cup RowsIn(bs, r, mid, hi)
         /\ RowsIn(bs, r, 0, mid) \cap RowsIn(bs, r, mid, hi) = {}
<1>1. 0 \in Nat /\ 0 <= mid
  OBVIOUS
<1> QED BY <1>1, RowsSplit

\* A block appended at or above a window leaves its rows alone.
LEMMA RowAppended ==
  ASSUME NEW bs \in Seq(Block), NEW b \in Block, NEW r, NEW x
  PROVE  RowAt(Append(bs, b), r, x)
         <=> RowAt(bs, r, x) \/ \E j \in 1 .. Len(b.owner) : b.owner[j] = r /\ x = b.start + j - 1
<1> DEFINE cs == Append(bs, b)
<1>1. Len(cs) = Len(bs) + 1 /\ cs[Len(bs) + 1] = b /\ \A i \in 1 .. Len(bs) : cs[i] = bs[i]
  OBVIOUS
<1> HIDE DEF cs
<1>2. RowAt(cs, r, x)
      <=> \/ \E i \in 1 .. Len(bs) : \E j \in 1 .. Len(cs[i].owner) :
               cs[i].owner[j] = r /\ x = cs[i].start + j - 1
          \/ \E j \in 1 .. Len(b.owner) : b.owner[j] = r /\ x = b.start + j - 1
  <2>1. 1 .. Len(cs) = (1 .. Len(bs)) \cup {Len(bs) + 1}
    BY <1>1
  <2> QED BY <1>1, <2>1 DEF RowAt
<1>3. RowAt(cs, r, x) <=> RowAt(bs, r, x)
        \/ \E j \in 1 .. Len(b.owner) : b.owner[j] = r /\ x = b.start + j - 1
  BY <1>1, <1>2 DEF RowAt
<1> QED BY <1>3 DEF cs

LEMMA RowsAppended ==
  ASSUME NEW bs \in Seq(Block), NEW b \in Block, NEW r, NEW lo \in Nat, NEW hi \in Nat,
         hi <= b.start
  PROVE  RowsIn(Append(bs, b), r, lo, hi) = RowsIn(bs, r, lo, hi)
<1>1. Append(bs, b) \in Seq(Block)
  OBVIOUS
<1>2. ASSUME NEW x
      PROVE  x \in RowsIn(Append(bs, b), r, lo, hi) <=> x \in RowsIn(bs, r, lo, hi)
  <2>1. ASSUME NEW j \in 1 .. Len(b.owner), x = b.start + j - 1, x < hi PROVE FALSE
    BY <2>1 DEF Block
  <2>2. x \in RowsIn(bs, r, lo, hi) <=> RowAt(bs, r, x) /\ lo <= x /\ x < hi
    BY InRows
  <2>3. x \in RowsIn(Append(bs, b), r, lo, hi)
        <=> RowAt(Append(bs, b), r, x) /\ lo <= x /\ x < hi
    BY <1>1, InRows
  <2>4. RowAt(Append(bs, b), r, x)
        <=> RowAt(bs, r, x) \/ \E j \in 1 .. Len(b.owner) : b.owner[j] = r /\ x = b.start + j - 1
    BY RowAppended
  <2> QED BY <2>1, <2>2, <2>3, <2>4
<1> QED BY <1>2

\* The blocks that end below a window may be left out.
LEMMA RowsOfSuffix ==
  ASSUME NEW bs \in Seq(Block), NEW n \in Nat, n <= Len(bs), NEW r,
         NEW lo \in Nat, NEW hi \in Nat,
         \A i \in 1 .. n : bs[i].start + Len(bs[i].owner) <= lo
  PROVE  RowsIn(SubSeq(bs, n + 1, Len(bs)), r, lo, hi) = RowsIn(bs, r, lo, hi)
<1> DEFINE cs == SubSeq(bs, n + 1, Len(bs))
<1>1. cs \in Seq(Block) /\ Len(cs) = Len(bs) - n /\ \A i \in 1 .. Len(bs) - n : cs[i] = bs[n + i]
  OBVIOUS
<1> HIDE DEF cs
<1>2. \A i \in 1 .. Len(bs) : bs[i] \in Block
  OBVIOUS
<1>3. ASSUME NEW x PROVE x \in RowsIn(cs, r, lo, hi) <=> x \in RowsIn(bs, r, lo, hi)
  <2>1. ASSUME RowAt(cs, r, x) PROVE RowAt(bs, r, x)
    <3>1. PICK i \in 1 .. Len(cs) : \E j \in 1 .. Len(cs[i].owner) :
                 cs[i].owner[j] = r /\ x = cs[i].start + j - 1
      BY <2>1 DEF RowAt
    <3>2. n + i \in 1 .. Len(bs) /\ cs[i] = bs[n + i]
      BY <1>1
    <3> QED BY <3>1, <3>2 DEF RowAt
  <2>2. ASSUME RowAt(bs, r, x), lo <= x PROVE RowAt(cs, r, x)
    <3>1. PICK i \in 1 .. Len(bs) : \E j \in 1 .. Len(bs[i].owner) :
                 bs[i].owner[j] = r /\ x = bs[i].start + j - 1
      BY <2>2 DEF RowAt
    <3>2. i > n
      BY <1>2, <2>2, <3>1, SMTT(30) DEF Block
    <3>3. i - n \in 1 .. Len(cs) /\ cs[i - n] = bs[i]
      BY <1>1, <3>2
    <3> QED BY <3>1, <3>3 DEF RowAt
  <2> QED BY <1>1, <2>1, <2>2, InRows
<1> QED BY <1>3 DEF cs

-----------------------------------------------------------------------------
(* The blocks. *)

Segment == [seq : Nat, since : Nat, upTo : Nat, rows : [Reqs -> SUBSET Nat],
            stamps : SUBSET Stamps]

LEMMA Types ==
  ASSUME TypeOK
  PROVE  /\ blocks \in Seq(Block) /\ Len(blocks) \in Nat /\ DOMAIN blocks = 1 .. Len(blocks)
         /\ \A i \in 1 .. Len(blocks) :
              /\ blocks[i] \in Block /\ blocks[i].start \in Nat
              /\ blocks[i].owner \in Seq(Reqs) /\ Len(blocks[i].owner) \in Nat
         /\ rowsTotal \in Nat /\ wm \in Nat /\ since \in Nat /\ seq \in Nat /\ blockLo \in Nat
         /\ segments \in Seq(Segment) /\ Len(segments) \in Nat
         /\ DOMAIN segments = 1 .. Len(segments)
         /\ \A i \in 1 .. Len(segments) : segments[i] \in Segment
<1>1. blocks \in Seq(Block) /\ segments \in Seq(Segment)
  BY DEF TypeOK, Block, Segment
<1>2. ASSUME NEW b \in Block
      PROVE  b.start \in Nat /\ b.owner \in Seq(Reqs) /\ Len(b.owner) \in Nat
  BY DEF Block
<1>3. rowsTotal \in Nat /\ wm \in Nat /\ since \in Nat /\ seq \in Nat /\ blockLo \in Nat
  BY DEF TypeOK
<1>4. /\ Len(blocks) \in Nat /\ DOMAIN blocks = 1 .. Len(blocks)
      /\ \A i \in 1 .. Len(blocks) : blocks[i] \in Block
  BY <1>1
<1>5. /\ Len(segments) \in Nat /\ DOMAIN segments = 1 .. Len(segments)
      /\ \A i \in 1 .. Len(segments) : segments[i] \in Segment
  BY <1>1
<1> QED BY <1>1, <1>2, <1>3, <1>4, <1>5

LEMMA CommittedIsNat == ASSUME TypeOK PROVE CommittedRows \in Nat
<1>1. CASE blocks = <<>>
  BY <1>1 DEF CommittedRows
<1>2. CASE blocks # <<>>
  <2>1. Len(blocks) \in 1 .. Len(blocks)
    BY <1>2, Types
  <2> QED BY <1>2, <2>1, Types, SMTT(30) DEF CommittedRows
<1> QED BY <1>1, <1>2

\* The blocks a segment lets go of end at its watermark or below.
LEMMA DoneBlocksEndBelow ==
  ASSUME TypeOK, BlocksInv, WindowInv, since <= wm
  PROVE  /\ BlocksDone \in Nat /\ blockLo + BlocksDone <= Len(blocks)
         /\ \A i \in 1 .. blockLo + BlocksDone : blocks[i].start + Len(blocks[i].owner) <= wm
<1> DEFINE n == Len(blocks) - blockLo
           Starts(k) == \A i \in 1 .. k : blocks[blockLo + 1 + i].start <= wm
           later == { k \in 1 .. (n - 1) : Starts(k) }
           c == Cardinality(later)
<1>1. blockLo \in Nat /\ Len(blocks) \in Nat /\ blockLo <= Len(blocks) /\ n \in Nat
      /\ wm \in Nat /\ since \in Nat /\ n = Len(blocks) - blockLo
  BY Types DEF WindowInv
<1>2. BlocksDone = c
  BY DEF BlocksDone
<1>3. \A k \in 1 .. n - 1 : Starts(k) => \A m \in 1 .. k : Starts(m)
  <2> SUFFICES ASSUME NEW k \in 1 .. n - 1, Starts(k), NEW m \in 1 .. k, NEW i \in 1 .. m
               PROVE  blocks[blockLo + 1 + i].start <= wm
    OBVIOUS
  <2>1. i \in 1 .. k
    BY <1>1
  <2> QED BY <2>1
<1>4. \A k \in 1 .. n - 1 : Starts(k) => blocks[blockLo + 1 + k].start <= wm
  BY <1>1
<1> HIDE DEF n, Starts
<1>5. IsFiniteSet(1 .. (n - 1))
  BY <1>1, FS_Interval
<1>6. later \subseteq 1 .. (n - 1)
  OBVIOUS
<1>7. IsFiniteSet(later)
  BY <1>5, <1>6, FS_Subset
<1>8. c \in Nat
  <2>1. Cardinality(later) \in Nat
    BY <1>7, FS_CardinalityType
  <2> QED BY <2>1
<1>9. ASSUME NEW k \in later PROVE k \in Nat /\ k <= c
  <2>1. k \in 1 .. (n - 1) /\ k \in Nat /\ k >= 1
    BY <1>1
  <2>2. 1 .. k \in SUBSET later
    BY <1>1, <1>3, <2>1
  <2>3. Cardinality(1 .. k) = k
    BY <2>1, FS_Interval
  <2>4. Cardinality(1 .. k) <= c
    BY <1>7, <2>2, FS_Subset
  <2> QED BY <2>1, <2>3, <2>4
<1>10. later = 1 .. c
  <2>1. later \in SUBSET (1 .. c)
    BY <1>1, <1>8, <1>9
  <2>2. IsFiniteSet(1 .. c) /\ Cardinality(1 .. c) = c
    BY <1>8, FS_Interval
  <2> QED BY <2>1, <2>2, FS_Subset
<1>11. \A k \in 1 .. c : k <= n - 1 /\ blocks[blockLo + 1 + k].start <= wm
  BY <1>1, <1>4, <1>6, <1>10
<1> HIDE DEF c, later
<1>12. blockLo + c <= Len(blocks)
  BY <1>1, <1>8, <1>11
<1>13. ASSUME NEW i \in 1 .. blockLo + c PROVE blocks[i].start + Len(blocks[i].owner) <= wm
  <2>1. i \in 1 .. Len(blocks) /\ blocks[i].start \in Nat /\ Len(blocks[i].owner) \in Nat
    BY <1>1, <1>8, <1>12, Types
  <2>2. CASE i <= blockLo
    <3>1. blocks[i].start + Len(blocks[i].owner) <= since
      BY <1>1, <2>1, <2>2 DEF WindowInv
    <3> QED BY <1>1, <2>1, <3>1
  <2>3. CASE i > blockLo
    <3>1. i - blockLo \in 1 .. c
      BY <1>1, <1>8, <2>3
    <3>2. blockLo + 1 + (i - blockLo) = i + 1
      BY <1>1
    <3>3. i \in 1 .. Len(blocks) - 1 /\ blocks[i + 1].start <= wm
      BY <1>1, <1>11, <3>1, <3>2
    <3> QED BY <3>3 DEF BlocksInv
  <2> QED BY <1>1, <2>2, <2>3
<1> QED BY <1>2, <1>8, <1>12, <1>13

-----------------------------------------------------------------------------
(* What each part of the invariant depends on. *)

LEMMA BlocksFrame ==
  ASSUME BlocksInv, UNCHANGED <<blocks, rowsTotal, consumer>>
  PROVE  BlocksInv'
BY DEF BlocksInv, CommittedRows

LEMMA WindowFrame ==
  ASSUME WindowInv, UNCHANGED <<blocks, rowsTotal, since, wm, flusher, blockLo, reqRows>>
  PROVE  WindowInv'
BY DEF WindowInv

LEMMA StampFrame ==
  ASSUME StampInv, UNCHANGED <<blocks, finished, stamps, flusher, wm, segments>>, done \subseteq done'
  PROVE  StampInv'
BY DEF StampInv, AllBelow, RowsOf, CommittedRows

LEMMA SegmentFrame ==
  ASSUME SegmentInv, ChainHoldsEveryRowOnce, UNCHANGED <<blocks, segments, since>>
  PROVE  SegmentInv' /\ ChainHoldsEveryRowOnce'
BY DEF SegmentInv, ChainHoldsEveryRowOnce

LEMMA ReaderFrame ==
  ASSUME ReaderInv, UNCHANGED <<blocks, segments, since, reader>>, done \subseteq done'
  PROVE  ReaderInv'
BY DEF ReaderInv, AllBelow, RowsOf, CommittedRows

-----------------------------------------------------------------------------
(* The consumer's steps. *)

LEMMA OwnersAreSeqs == ASSUME NEW owner \in Owners PROVE owner \in Seq(Reqs)
BY RunIndexAssumption DEF Owners

LEMMA CommitStepKeeps ==
  ASSUME IndexInv, NEW owner \in Owners, CommitStep(owner) PROVE IndexInv'
<1> DEFINE b == [start |-> CommittedRows, owner |-> owner]
           C == CommittedRows
<1> USE DEF IndexInv
<1>1. C \in Nat /\ owner \in Seq(Reqs) /\ Len(owner) \in Nat
  BY CommittedIsNat, OwnersAreSeqs
<1>2. b \in Block /\ b.start = C /\ b.owner = owner
  BY <1>1 DEF Block
<1>3. blocks' = Append(blocks, b) /\ consumer = "run" /\ consumer' = "noting"
      /\ UNCHANGED <<rowsTotal, finished, asked, finishing, done, mustStamp,
                     flushVars, chainVars, stopVars, reader>>
      /\ \A j \in 1 .. Len(owner) : owner[j] \notin done
  BY <1>1 DEF CommitStep
<1> HIDE DEF b
<1>4. /\ blocks \in Seq(Block) /\ blocks' \in Seq(Block) /\ Len(blocks') = Len(blocks) + 1
      /\ blocks'[Len(blocks) + 1] = b /\ \A i \in 1 .. Len(blocks) : blocks'[i] = blocks[i]
  BY <1>2, <1>3, Types
<1>5. CommittedRows' = C + Len(owner)
  <2>1. blocks' # <<>>
    BY <1>4, Types
  <2>2. CommittedRows' = blocks'[Len(blocks')].start + Len(blocks'[Len(blocks')].owner)
    BY <2>1 DEF CommittedRows
  <2> QED BY <1>2, <1>4, <2>2
<1> HIDE DEF C
<1>6. ASSUME NEW r, NEW lo \in Nat, NEW hi \in Nat, hi <= C
      PROVE  RowsIn(blocks', r, lo, hi) = RowsIn(blocks, r, lo, hi)
  BY <1>2, <1>3, <1>4, <1>6, RowsAppended
<1>7. ASSUME NEW r \in done, NEW x \in RowsIn(blocks', r, 0, CommittedRows')
      PROVE  x \in RowsIn(blocks, r, 0, C)
  <2>1. RowAt(blocks', r, x) /\ 0 <= x
    BY <1>1, <1>4, <1>5, <1>7, InRows
  <2>2. RowAt(blocks, r, x)
    BY <1>2, <1>3, <1>4, <2>1, RowAppended
  <2>3. PICK i \in 1 .. Len(blocks) : \E j \in 1 .. Len(blocks[i].owner) : x = blocks[i].start + j - 1
    BY <2>2 DEF RowAt
  <2>4. blocks[i].start + Len(blocks[i].owner) <= C
    BY Types DEF BlocksInv, C
  <2>5. x < C
    <3>1. PICK j \in 1 .. Len(blocks[i].owner) : x = blocks[i].start + j - 1
      BY <2>3
    <3>2. blocks[i].start \in Nat /\ Len(blocks[i].owner) \in Nat
      BY <2>3, Types
    <3>3. x < blocks[i].start + Len(blocks[i].owner)
      BY <3>1, <3>2
    <3>4. x \in Int
      BY <3>1, <3>2
    <3> QED BY <1>1, <2>4, <3>2, <3>3, <3>4
  <2> QED BY <1>1, <1>4, <2>1, <2>2, <2>5, InRows
<1>8. rowsTotal = C /\ since <= C /\ (flusher \in {"slice", "stamp", "write"} => wm <= C)
      /\ since \in Nat /\ wm \in Nat /\ rowsTotal \in Nat
  BY <1>3, Types DEF BlocksInv, WindowInv, C
<1>9. TypeOK'
  BY <1>3, <1>4 DEF TypeOK, Block, flushVars, chainVars, stopVars
<1>10. BlocksInv'
  <2>1. ASSUME NEW i \in 1 .. Len(blocks')
        PROVE  blocks'[i].start + Len(blocks'[i].owner) <= CommittedRows'
    <3>1. CASE i = Len(blocks) + 1
      BY <1>1, <1>2, <1>4, <1>5, <3>1
    <3>2. CASE i \in 1 .. Len(blocks)
      <4>1. blocks[i].start + Len(blocks[i].owner) <= C
        BY <3>2, Types DEF BlocksInv, C
      <4>2. blocks'[i] = blocks[i]
        BY <1>4, <3>2
      <4>3. blocks[i].start \in Nat /\ Len(blocks[i].owner) \in Nat
        BY <3>2, Types
      <4>4. blocks[i].start + Len(blocks[i].owner) <= C + Len(owner)
        BY <1>1, <4>1, <4>3
      <4> QED BY <1>5, <4>2, <4>4
    <3> QED BY <1>4, <3>1, <3>2, Types
  <2>2. ASSUME NEW i \in 1 .. Len(blocks') - 1
        PROVE  blocks'[i + 1].start = blocks'[i].start + Len(blocks'[i].owner)
    <3>1. CASE i = Len(blocks)
      <4>1. blocks # <<>>
        BY <3>1, Types
      <4>2. C = blocks[Len(blocks)].start + Len(blocks[Len(blocks)].owner)
        BY <4>1 DEF C, CommittedRows
      <4> QED BY <1>2, <1>4, <3>1, <4>2
    <3>2. CASE i \in 1 .. Len(blocks) - 1
      <4>1. i + 1 \in 1 .. Len(blocks) /\ i \in 1 .. Len(blocks)
        BY <3>2, Types
      <4> QED BY <1>4, <3>2, <4>1 DEF BlocksInv
    <3>3. Len(blocks) \in Nat /\ Len(blocks') - 1 = Len(blocks)
      BY <1>4, Types
    <3>4. i = Len(blocks) \/ i \in 1 .. Len(blocks) - 1
      BY <3>3
    <3> QED BY <3>1, <3>2, <3>4
  <2>3. DOMAIN blocks' = 1 .. Len(blocks')
    BY <1>4
  <2>4. rowsTotal' <= CommittedRows'
    BY <1>1, <1>3, <1>5, <1>8
  <2> QED BY <1>3, <2>1, <2>2, <2>3, <2>4 DEF BlocksInv
<1>11. WindowInv'
  <2>1. UNCHANGED <<since, wm, flusher, blockLo, reqRows, rowsTotal>>
    BY <1>3 DEF flushVars, chainVars
  <2>2. ASSUME NEW i \in 1 .. blockLo
        PROVE  blocks'[i].start + Len(blocks'[i].owner) <= since
    <3>1. i \in 1 .. Len(blocks)
      BY Types DEF WindowInv
    <3> QED BY <1>4, <3>1 DEF WindowInv
  <2>3. blockLo <= Len(blocks')
    BY <1>4, Types DEF WindowInv
  <2>4. ASSUME flusher \in {"stamp", "write"}, NEW r \in Reqs
        PROVE  reqRows[r] = RowsIn(blocks', r, since, wm)
    BY <1>6, <1>8, <2>4 DEF WindowInv
  <2> QED BY <2>1, <2>2, <2>3, <2>4 DEF WindowInv
<1>12. StampInv'
  <2>1. UNCHANGED <<finished, stamps, flusher, segments, wm, done>>
    BY <1>3 DEF flushVars, chainVars
  <2>2. ASSUME NEW r, NEW w, AllBelow(r, w)
        PROVE  r \in done /\ \A x \in RowsIn(blocks', r, 0, CommittedRows') : x < w
    BY <1>7, <2>2 DEF AllBelow, RowsOf, C
  <2> QED BY <2>1, <2>2 DEF StampInv, AllBelow, RowsOf
<1>13. SegmentInv' /\ ChainHoldsEveryRowOnce'
  <2>1. UNCHANGED <<segments, since>>
    BY <1>3 DEF chainVars
  <2>2. ASSUME NEW i \in 1 .. Len(segments), NEW r \in Reqs
        PROVE  segments[i].rows[r] = RowsIn(blocks', r, segments[i].since, segments[i].upTo)
    <3>1. segments[i].since \in Nat /\ segments[i].upTo \in Nat
      BY Types DEF Segment
    <3>2. segments[i].upTo <= since
            /\ segments[i].rows[r] = RowsIn(blocks, r, segments[i].since, segments[i].upTo)
      BY Types DEF SegmentInv
    <3> QED BY <1>1, <1>6, <1>8, <3>1, <3>2
  <2>3. \A r \in Reqs : RowsIn(blocks', r, 0, since) = RowsIn(blocks, r, 0, since)
    BY <1>6, <1>8
  <2>4. SegmentInv'
    BY <2>1, <2>2, Types DEF SegmentInv
  <2>5. ChainHoldsEveryRowOnce'
    BY <2>1, <2>3 DEF ChainHoldsEveryRowOnce
  <2> QED BY <2>4, <2>5
<1>14. ReaderInv'
  <2>1. UNCHANGED <<segments, since, reader, done>>
    BY <1>3 DEF chainVars
  <2>2. reader.lo \in Nat /\ reader.lo <= C
    BY <1>1, <1>8 DEF TypeOK, ReaderInv
  <2>3. \A r \in Reqs : RowsIn(blocks', r, 0, reader.lo) = RowsIn(blocks, r, 0, reader.lo)
    BY <1>6, <2>2
  <2>4. ASSUME NEW r, AllBelow(r, reader.lo)
        PROVE  r \in done /\ \A x \in RowsIn(blocks', r, 0, CommittedRows') : x < reader.lo
    BY <1>7, <2>4 DEF AllBelow, RowsOf, C
  <2> QED BY <2>1, <2>3, <2>4 DEF ReaderInv, AllBelow, RowsOf
<1> QED BY <1>9, <1>10, <1>11, <1>12, <1>13, <1>14

LEMMA ConsumerKeeps ==
  ASSUME IndexInv, Consumer PROVE IndexInv'
<1> USE DEF IndexInv
<1>1. ASSUME NEW owner \in Owners, CommitStep(owner) PROVE IndexInv'
  BY <1>1, CommitStepKeeps
<1>2. CASE NoteStep
  <2>1. /\ consumer = "noting" /\ consumer' = "run" /\ rowsTotal' = CommittedRows
        /\ UNCHANGED <<blocks, finished, asked, finishing, done, mustStamp,
                       flushVars, chainVars, stopVars, reader>>
    BY <1>2 DEF NoteStep
  <2>2. CommittedRows' = CommittedRows /\ CommittedRows \in Nat
    BY <2>1, CommittedIsNat DEF CommittedRows
  <2>3. TypeOK'
    BY <2>1, <2>2 DEF TypeOK, flushVars, chainVars, stopVars
  <2>4. BlocksInv'
    BY <2>1, <2>2 DEF BlocksInv
  <2>5. rowsTotal <= rowsTotal' /\ rowsTotal \in Nat /\ since \in Nat /\ wm \in Nat
    BY <2>1, Types DEF BlocksInv
  <2>6. WindowInv'
    BY <2>1, <2>2, <2>5 DEF WindowInv, flushVars, chainVars
  <2>7. StampInv' /\ SegmentInv' /\ ChainHoldsEveryRowOnce' /\ ReaderInv'
    BY <2>1, StampFrame, SegmentFrame, ReaderFrame DEF flushVars, chainVars
  <2> QED BY <2>3, <2>4, <2>6, <2>7
<1>3. ASSUME NEW r \in Reqs, NEW a \in BOOLEAN, NoteAsked(r, a) PROVE IndexInv'
  <2>1. /\ consumer = "run" /\ consumer' = "finishing" /\ finishing' = r
        /\ asked' \subseteq asked \cup {r} /\ mustStamp' \subseteq mustStamp \cup {r}
        /\ UNCHANGED <<blocks, rowsTotal, finished, done, flushVars, chainVars, stopVars, reader>>
    BY <1>3 DEF NoteAsked
  <2>2. TypeOK'
    BY <2>1 DEF TypeOK, flushVars, chainVars, stopVars
  <2>3. BlocksInv'
    BY <2>1 DEF BlocksInv, CommittedRows
  <2>4. WindowInv' /\ StampInv' /\ SegmentInv' /\ ChainHoldsEveryRowOnce' /\ ReaderInv'
    BY <2>1, WindowFrame, StampFrame, SegmentFrame, ReaderFrame DEF flushVars, chainVars
  <2> QED BY <2>2, <2>3, <2>4
<1>4. CASE QueueFinish
  <2>1. /\ consumer = "finishing" /\ consumer' = "run" /\ finishing' = NoReq
        /\ finished' = Append(finished, [req |-> finishing, w |-> rowsTotal])
        /\ done' = done \cup {finishing}
        /\ UNCHANGED <<blocks, rowsTotal, asked, mustStamp, flushVars, chainVars, stopVars, reader>>
    BY <1>4 DEF QueueFinish
  <2>2. finishing \in Reqs /\ rowsTotal \in Nat /\ finished \in Seq([req : Reqs, w : Nat])
        /\ rowsTotal = CommittedRows /\ CommittedRows' = CommittedRows
    BY <2>1 DEF TypeOK, BlocksInv, CommittedRows
  <2>3. TypeOK'
    BY <2>1, <2>2, SMTT(30) DEF TypeOK, flushVars, chainVars, stopVars
  <2>4. BlocksInv'
    BY <2>1, <2>2 DEF BlocksInv
  <2>5. WindowInv' /\ SegmentInv' /\ ChainHoldsEveryRowOnce' /\ ReaderInv'
    BY <2>1, WindowFrame, SegmentFrame, ReaderFrame DEF flushVars, chainVars
  <2>6. ASSUME NEW i \in DOMAIN finished'
        PROVE  /\ finished'[i].req \in done'
               /\ \A x \in RowsIn(blocks, finished'[i].req, 0, CommittedRows) : x < finished'[i].w
    <3>1. CASE i = Len(finished) + 1
      <4>1. finished'[i] = [req |-> finishing, w |-> rowsTotal]
        BY <2>1, <2>2, <3>1
      <4>2. \A x \in RowsIn(blocks, finishing, 0, CommittedRows) : x < rowsTotal
        BY <2>2, Types, CommittedIsNat, InRows
      <4> QED BY <2>1, <2>2, <4>1, <4>2
    <3>2. CASE i \in DOMAIN finished
      <4>1. finished'[i] = finished[i]
        BY <2>1, <2>2, <3>2
      <4>2. AllBelow(finished[i].req, finished[i].w)
        BY <3>2 DEF StampInv
      <4> QED BY <2>1, <2>2, <4>1, <4>2 DEF AllBelow, RowsOf
    <3> QED BY <2>1, <2>2, <3>1, <3>2
  <2>7. StampInv'
    <3>1. UNCHANGED <<blocks, stamps, flusher, segments, wm>>
      BY <2>1 DEF flushVars, chainVars
    <3>2. ASSUME NEW r, NEW w, AllBelow(r, w)
          PROVE  r \in done' /\ \A x \in RowsIn(blocks, r, 0, CommittedRows) : x < w
      BY <2>1, <3>2 DEF AllBelow, RowsOf
    <3> QED BY <2>2, <2>6, <3>1, <3>2 DEF StampInv, AllBelow, RowsOf
  <2> QED BY <2>3, <2>4, <2>5, <2>7
<1>5. CASE ConsumerEnds
  <2>1. /\ consumer = "run" /\ consumer' = "ended"
        /\ UNCHANGED <<indexVars, finishing, done, mustStamp, flushVars, chainVars, stopVars, reader>>
    BY <1>5 DEF ConsumerEnds
  <2>2. TypeOK'
    BY <2>1 DEF TypeOK, indexVars, flushVars, chainVars, stopVars
  <2>3. BlocksInv'
    BY <2>1 DEF BlocksInv, CommittedRows, indexVars
  <2>4. WindowInv' /\ StampInv' /\ SegmentInv' /\ ChainHoldsEveryRowOnce' /\ ReaderInv'
    BY <2>1, WindowFrame, StampFrame, SegmentFrame, ReaderFrame DEF indexVars, flushVars, chainVars
  <2> QED BY <2>2, <2>3, <2>4
<1> QED BY <1>1, <1>2, <1>3, <1>4, <1>5 DEF Consumer

-----------------------------------------------------------------------------
(* The flusher's steps. *)

LEMMA ReadWatermarkKeeps ==
  ASSUME IndexInv, ReadWatermark \/ FinalFlushAfterEnd PROVE IndexInv'
<1> USE DEF IndexInv
<1>1. /\ flusher \in {"wait", "off"} /\ flusher' = "slice" /\ wm' = rowsTotal
      /\ final' \in BOOLEAN
      /\ UNCHANGED <<blocks, rowsTotal, finished, asked, consumerVars, reqRows, stamps, chainVars,
                     stopVars, reader>>
  BY DEF ReadWatermark, FinalFlushAfterEnd, indexVars
<1>2. TypeOK'
  BY <1>1 DEF TypeOK, consumerVars, chainVars, stopVars
<1>3. BlocksInv' /\ SegmentInv' /\ ChainHoldsEveryRowOnce' /\ ReaderInv'
  BY <1>1, BlocksFrame, SegmentFrame, ReaderFrame DEF consumerVars, chainVars
<1>4. WindowInv'
  BY <1>1, Types DEF WindowInv, chainVars
<1>5. StampInv'
  <2>1. stamps = {}
    BY <1>1 DEF StampInv
  <2> QED BY <1>1, <2>1 DEF StampInv, AllBelow, RowsOf, CommittedRows, consumerVars, chainVars
<1> QED BY <1>2, <1>3, <1>4, <1>5

\* The end of a flush forgets its window, and nothing else of the invariant.
LEMMA FlushEndsTypes ==
  ASSUME TypeOK, NEW next \in {"wait", "off"}, FlushEnds(next)
  PROVE  /\ flusher' \in {"wait", "off"} /\ stamps' = {} /\ wm' = 0
         /\ reqRows' \in [Reqs -> SUBSET Nat] /\ final' \in BOOLEAN /\ finalDone' \in BOOLEAN
BY DEF FlushEnds, TypeOK, NoRows

LEMMA FlushEndsKeeps ==
  ASSUME IndexInv, NEW next \in {"wait", "off"}, FlushEnds(next),
         UNCHANGED <<blocks, rowsTotal, consumerVars, since, seq, blockLo, segments, stopping, reader>>,
         finished' \in Seq([req : Reqs, w : Nat]), asked' \subseteq Reqs,
         \A i \in DOMAIN finished' : \E k \in DOMAIN finished : finished'[i] = finished[k],
         rowCount' \in [Reqs -> Nat \cup {Absent}], flushFailed' \in BOOLEAN
  PROVE  IndexInv'
<1> USE DEF IndexInv
<1>1. /\ flusher' \in {"wait", "off"} /\ stamps' = {} /\ wm' = 0
      /\ reqRows' \in [Reqs -> SUBSET Nat] /\ final' \in BOOLEAN /\ finalDone' \in BOOLEAN
  BY FlushEndsTypes
<1>2. TypeOK'
  BY <1>1, SMTT(30) DEF TypeOK, consumerVars
<1>3. BlocksInv' /\ SegmentInv' /\ ChainHoldsEveryRowOnce' /\ ReaderInv'
  BY BlocksFrame, SegmentFrame, ReaderFrame DEF consumerVars
<1>4. WindowInv'
  BY <1>1 DEF WindowInv
<1>5. StampInv'
  BY <1>1 DEF StampInv, AllBelow, RowsOf, CommittedRows, consumerVars
<1> QED BY <1>2, <1>3, <1>4, <1>5

LEMMA SliceKeeps ==
  ASSUME IndexInv, SliceAndEncode PROVE IndexInv'
<1> USE DEF IndexInv
<1> DEFINE bs == SubSeq(blocks, blockLo + 1, Len(blocks))
           rows == [r \in Reqs |-> RowsIn(bs, r, since, wm)]
<1>1. /\ flusher = "slice" /\ since \in Nat /\ wm \in Nat
      /\ UNCHANGED <<indexVars, consumerVars, since, seq, blockLo, flushFailed, segments,
                     stopping, reader>>
  BY Types DEF SliceAndEncode
<1>2. CASE FlushEnds("wait") /\ UNCHANGED rowCount
  <2>1. finished' \in Seq([req : Reqs, w : Nat]) /\ finished' = finished /\ asked' \subseteq Reqs
        /\ rowCount' \in [Reqs -> Nat \cup {Absent}] /\ flushFailed' \in BOOLEAN
    BY <1>1, <1>2 DEF TypeOK, indexVars
  <2> QED BY <1>1, <1>2, <2>1, FlushEndsKeeps DEF indexVars
<1>3. CASE /\ reqRows' = rows
           /\ rowCount' = [r \in Reqs |->
                 IF rows[r] = {} THEN rowCount[r]
                 ELSE Cardinality(rows[r]) + (IF rowCount[r] = Absent THEN 0 ELSE rowCount[r])]
           /\ flusher' = "stamp"
           /\ UNCHANGED <<finalDone, final, wm, stamps>>
  <2>1. \A r \in Reqs : rows[r] = RowsIn(blocks, r, since, wm)
    BY <1>1, Types, RowsOfSuffix DEF WindowInv
  <2>2. \A r \in Reqs : rows[r] \in SUBSET Nat /\ Cardinality(rows[r]) \in Nat
    BY <1>1, <2>1, Types, RowsFinite
  <2>3. rows \in [Reqs -> SUBSET Nat]
    BY <2>2
  <2> HIDE DEF rows
  <2>4. rowCount' \in [Reqs -> Nat \cup {Absent}]
    <3>1. \A r \in Reqs : rowCount[r] \in Nat \cup {Absent}
      BY DEF TypeOK
    <3> QED BY <1>3, <2>2, <3>1 DEF Absent
  <2>5. TypeOK'
    BY <1>1, <1>3, <2>3, <2>4 DEF TypeOK, indexVars, consumerVars
  <2>6. BlocksInv' /\ SegmentInv' /\ ChainHoldsEveryRowOnce' /\ ReaderInv'
    BY <1>1, BlocksFrame, SegmentFrame, ReaderFrame DEF indexVars, consumerVars
  <2>7. WindowInv'
    BY <1>1, <1>3, <2>1 DEF WindowInv, indexVars
  <2>8. StampInv'
    BY <1>1, <1>3 DEF StampInv, AllBelow, RowsOf, CommittedRows, indexVars, consumerVars
  <2> QED BY <2>5, <2>6, <2>7, <2>8
<1> QED BY <1>2, <1>3 DEF SliceAndEncode

LEMMA RestOfSeq ==
  ASSUME NEW S, NEW q \in Seq(S), NEW c \in Nat
  PROVE  LET rest == SubSeq(q, c + 1, Len(q))
         IN  /\ rest \in Seq(S)
             /\ \A i \in DOMAIN rest : c + i \in DOMAIN q /\ rest[i] = q[c + i]
             /\ \A i \in DOMAIN q : q[i] \in S
             /\ DOMAIN q = 1 .. Len(q)
OBVIOUS

LEMMA TakeStampsKeeps ==
  ASSUME IndexInv, TakeStamps PROVE IndexInv'
<1> USE DEF IndexInv
<1> DEFINE taken == { finished[i] : i \in Covered }
           total(r) == IF rowCount[r] = Absent THEN 0 ELSE rowCount[r]
           new == { [req |-> f.req, w |-> f.w, total |-> total(f.req)] :
                      f \in { g \in taken : rowCount[g.req] # Absent \/ g.req \in asked } }
           reqs == { f.req : f \in taken }
<1>1. /\ flusher = "stamp"
      /\ finished' = SubSeq(finished, Cardinality(Covered) + 1, Len(finished))
      /\ asked' = asked \ reqs
      /\ rowCount' = [r \in Reqs |-> IF r \in reqs THEN Absent ELSE rowCount[r]]
      /\ UNCHANGED <<blocks, rowsTotal, consumerVars, since, seq,
                     blockLo, flushFailed, segments, stopping, reader>>
  BY DEF TakeStamps
<1>2. finished \in Seq([req : Reqs, w : Nat]) /\ rowCount \in [Reqs -> Nat \cup {Absent}]
  BY DEF TypeOK
<1>3. Cardinality(Covered) \in Nat
  <2>1. IsFiniteSet(1 .. Len(finished)) /\ Covered \in SUBSET (1 .. Len(finished))
    BY <1>2, FS_Interval DEF Covered
  <2>2. IsFiniteSet(Covered)
    BY <2>1, FS_Subset
  <2> QED BY <2>2, FS_CardinalityType
<1>4. /\ finished' \in Seq([req : Reqs, w : Nat])
      /\ \A i \in DOMAIN finished' : \E k \in DOMAIN finished : finished'[i] = finished[k]
  <2> DEFINE c == Cardinality(Covered)
  <2>1. c \in Nat /\ finished' = SubSeq(finished, c + 1, Len(finished))
    BY <1>1, <1>3
  <2> HIDE DEF c
  <2>2. /\ finished' \in Seq([req : Reqs, w : Nat])
        /\ \A i \in DOMAIN finished' : c + i \in DOMAIN finished /\ finished'[i] = finished[c + i]
    BY <1>2, <2>1, RestOfSeq
  <2> QED BY <2>2
<1>5. asked' \subseteq Reqs /\ rowCount' \in [Reqs -> Nat \cup {Absent}] /\ flushFailed' \in BOOLEAN
  BY <1>1, <1>2 DEF TypeOK
<1>6. CASE FlushEnds("wait")
  BY <1>1, <1>4, <1>5, <1>6, FlushEndsKeeps
<1>7. CASE flusher' = "write" /\ stamps' = new /\ UNCHANGED <<finalDone, final, wm, reqRows>>
  <2>1. ASSUME NEW s \in new
        PROVE  \E i \in Covered : s = [req |-> finished[i].req, w |-> finished[i].w,
                                        total |-> total(finished[i].req)]
    OBVIOUS
  <2>2. ASSUME NEW s \in new
        PROVE  /\ s \in Stamps /\ s.req \in done /\ s.w <= wm
               /\ \A x \in RowsIn(blocks, s.req, 0, CommittedRows) : x < s.w
    <3>1. PICK i \in Covered : s = [req |-> finished[i].req, w |-> finished[i].w,
                                    total |-> total(finished[i].req)]
      BY <2>1
    <3>2. i \in 1 .. Len(finished) /\ finished[i].w <= wm
      BY <1>2 DEF Covered
    <3>3. finished[i] \in [req : Reqs, w : Nat]
      <4>1. \A k \in 1 .. Len(finished) : finished[k] \in [req : Reqs, w : Nat]
        BY <1>2, RestOfSeq
      <4> QED BY <3>2, <4>1
    <3>4. total(finished[i].req) \in Nat
      BY <1>2, <3>3 DEF Absent
    <3>5. AllBelow(finished[i].req, finished[i].w)
      BY <1>2, <3>2 DEF StampInv
    <3> HIDE DEF new
    <3> QED BY <3>1, <3>2, <3>3, <3>4, <3>5 DEF Stamps, AllBelow, RowsOf
  <2> HIDE DEF new
  <2>3. TypeOK'
    BY <1>1, <1>4, <1>5, <1>7, <2>2 DEF TypeOK, consumerVars
  <2>4. BlocksInv' /\ SegmentInv' /\ ChainHoldsEveryRowOnce' /\ ReaderInv'
    BY <1>1, BlocksFrame, SegmentFrame, ReaderFrame DEF consumerVars
  <2>5. WindowInv'
    BY <1>1, <1>7 DEF WindowInv
  <2>6. StampInv'
    BY <1>1, <1>4, <1>7, <2>2 DEF StampInv, AllBelow, RowsOf, CommittedRows, consumerVars
  <2> QED BY <2>3, <2>4, <2>5, <2>6
<1> QED BY <1>6, <1>7 DEF TakeStamps

LEMMA WriteSegmentKeeps ==
  ASSUME IndexInv, WriteSegment PROVE IndexInv'
<1> USE DEF IndexInv
<1> DEFINE g == [seq |-> seq, since |-> since, upTo |-> wm, rows |-> reqRows, stamps |-> stamps]
           n == Len(segments)
<1>1. /\ flusher = "write" /\ segments' = Append(segments, g) /\ blockLo' = blockLo + BlocksDone
      /\ since' = wm /\ seq' = seq + 1 /\ FlushEnds("wait")
      /\ UNCHANGED <<indexVars, consumerVars, rowCount, flushFailed, stopping, reader>>
  BY DEF WriteSegment
<1>2. /\ g.since = since /\ g.upTo = wm /\ g.rows = reqRows /\ g.stamps = stamps
      /\ reqRows \in [Reqs -> SUBSET Nat] /\ g \in Segment
  BY Types DEF TypeOK, Segment
<1> HIDE DEF g
<1>3. /\ n \in Nat /\ Len(segments') = n + 1 /\ segments' \in Seq(Segment)
      /\ segments'[n + 1] = g /\ \A i \in 1 .. n : segments'[i] = segments[i]
      /\ DOMAIN segments = 1 .. n /\ DOMAIN segments' = 1 .. n + 1
  BY <1>1, <1>2, Types
<1>4. /\ since \in Nat /\ wm \in Nat /\ since <= wm /\ wm <= rowsTotal /\ seq \in Nat
      /\ rowsTotal \in Nat /\ blocks \in Seq(Block)
  BY <1>1, Types DEF WindowInv
<1>5. /\ BlocksDone \in Nat /\ blockLo \in Nat /\ blockLo + BlocksDone <= Len(blocks)
      /\ \A i \in 1 .. blockLo + BlocksDone : blocks[i].start + Len(blocks[i].owner) <= wm
  BY <1>4, Types, DoneBlocksEndBelow
<1>6. /\ flusher' \in {"wait", "off"} /\ stamps' = {} /\ wm' = 0
      /\ reqRows' \in [Reqs -> SUBSET Nat] /\ final' \in BOOLEAN /\ finalDone' \in BOOLEAN
  BY <1>1, FlushEndsTypes
<1>7. TypeOK'
  <2>1. blockLo' \in Nat /\ since' \in Nat /\ seq' \in Nat /\ wm' \in Nat
    BY <1>1, <1>4, <1>5, <1>6
  <2>2. segments' \in Seq([seq : Nat, since : Nat, upTo : Nat, rows : [Reqs -> SUBSET Nat],
                           stamps : SUBSET Stamps])
    BY <1>3 DEF Segment
  <2> QED BY <1>1, <1>6, <2>1, <2>2 DEF TypeOK, indexVars, consumerVars
<1>8. BlocksInv'
  BY <1>1, BlocksFrame DEF indexVars, consumerVars
<1>9. WindowInv'
  BY <1>1, <1>4, <1>5, <1>6 DEF WindowInv, indexVars
<1>10. StampInv'
  <2>1. UNCHANGED <<blocks, finished, done>>
    BY <1>1 DEF indexVars, consumerVars
  <2>2. ASSUME NEW i \in 1 .. n + 1, NEW s \in segments'[i].stamps
        PROVE  AllBelow(s.req, s.w) /\ s.w <= segments'[i].upTo
    <3>1. CASE i = n + 1
      BY <1>2, <1>3, <2>2, <3>1 DEF StampInv
    <3>2. CASE i \in 1 .. n
      BY <1>3, <2>2, <3>2 DEF StampInv
    <3> QED BY <1>3, <3>1, <3>2
  <2> QED BY <1>3, <1>6, <2>1, <2>2 DEF StampInv, AllBelow, RowsOf, CommittedRows
<1>11. \A r \in Reqs : reqRows[r] = RowsIn(blocks, r, since, wm)
  BY <1>1 DEF WindowInv
<1>12. ASSUME NEW i \in 1 .. n
       PROVE  /\ segments[i].upTo \in Nat /\ segments[i].since \in Nat /\ segments[i].upTo <= since
              /\ \A r \in Reqs : segments[i].rows[r]
                                 = RowsIn(blocks, r, segments[i].since, segments[i].upTo)
  BY <1>3, Types DEF SegmentInv, Segment
<1>13. SegmentInv'
  <2>1. UNCHANGED blocks
    BY <1>1 DEF indexVars
  <2>2. ASSUME NEW i \in 1 .. n + 1
        PROVE  /\ segments'[i].upTo <= wm
               /\ \A r \in Reqs : segments'[i].rows[r]
                                  = RowsIn(blocks, r, segments'[i].since, segments'[i].upTo)
    <3>1. CASE i = n + 1
      BY <1>2, <1>3, <1>4, <1>11, <3>1
    <3>2. CASE i \in 1 .. n
      BY <1>3, <1>4, <1>12, <3>2
    <3> QED BY <1>3, <3>1, <3>2
  <2>3. ASSUME NEW i \in 1 .. n + 1, NEW j \in 1 .. n + 1, i < j
        PROVE  segments'[i].upTo <= segments'[j].since
    <3>1. i \in 1 .. n /\ segments'[i] = segments[i]
      BY <1>3, <2>3
    <3>2. CASE j = n + 1
      BY <1>2, <1>3, <1>12, <3>1, <3>2
    <3>3. CASE j \in 1 .. n
      BY <1>3, <2>3, <3>1, <3>3 DEF SegmentInv
    <3> QED BY <1>3, <3>2, <3>3
  <2> QED BY <1>1, <1>3, <2>1, <2>2, <2>3 DEF SegmentInv
<1>14. ReaderInv'
  <2>1. UNCHANGED <<blocks, done, reader>>
    BY <1>1 DEF indexVars, consumerVars
  <2>2. reader.lo \in Nat /\ reader.seq \in Nat
    BY DEF TypeOK
  <2>3. reader.lo <= since' /\ reader.seq <= Len(segments')
    BY <1>1, <1>3, <1>4, <2>2 DEF ReaderInv
  <2> QED BY <2>1, <2>3 DEF ReaderInv, AllBelow, RowsOf, CommittedRows
<1>15. ChainHoldsEveryRowOnce'
  <2> SUFFICES ASSUME NEW r \in Reqs
               PROVE  /\ UNION { segments'[i].rows[r] : i \in 1 .. n + 1 } = RowsIn(blocks, r, 0, wm)
                      /\ \A i, j \in 1 .. n + 1 :
                           i # j => segments'[i].rows[r] \cap segments'[j].rows[r] = {}
    BY <1>1, <1>3 DEF ChainHoldsEveryRowOnce, indexVars
  <2>1. /\ RowsIn(blocks, r, 0, wm) = RowsIn(blocks, r, 0, since) \cup RowsIn(blocks, r, since, wm)
        /\ RowsIn(blocks, r, 0, since) \cap RowsIn(blocks, r, since, wm) = {}
    BY <1>4, RowsSplitAt
  <2>2. UNION { segments[i].rows[r] : i \in 1 .. n } = RowsIn(blocks, r, 0, since)
    BY DEF ChainHoldsEveryRowOnce
  <2>3. segments'[n + 1].rows[r] = RowsIn(blocks, r, since, wm)
    BY <1>2, <1>3, <1>11
  <2>4. \A i \in 1 .. n : segments'[i].rows[r] = segments[i].rows[r]
    BY <1>3
  <2>5. UNION { segments'[i].rows[r] : i \in 1 .. n + 1 }
          = (UNION { segments[i].rows[r] : i \in 1 .. n }) \cup segments'[n + 1].rows[r]
    <3>1. 1 .. n + 1 = (1 .. n) \cup {n + 1}
      BY <1>3
    <3> QED BY <2>4, <3>1
  <2>6. ASSUME NEW i \in 1 .. n
        PROVE  segments'[i].rows[r] \subseteq RowsIn(blocks, r, 0, since)
    BY <2>2, <2>4
  <2>7. ASSUME NEW i \in 1 .. n + 1, NEW j \in 1 .. n + 1, i # j
        PROVE  segments'[i].rows[r] \cap segments'[j].rows[r] = {}
    <3>1. CASE i \in 1 .. n /\ j \in 1 .. n
      BY <2>4, <2>7, <3>1 DEF ChainHoldsEveryRowOnce
    <3>2. CASE i = n + 1 /\ j \in 1 .. n
      BY <2>1, <2>3, <2>6, <3>2
    <3>3. CASE i \in 1 .. n /\ j = n + 1
      BY <2>1, <2>3, <2>6, <3>3
    <3> QED BY <1>3, <2>7, <3>1, <3>2, <3>3
  <2> QED BY <2>1, <2>2, <2>3, <2>5, <2>7
<1> QED BY <1>7, <1>8, <1>9, <1>10, <1>13, <1>14, <1>15

LEMMA SegmentFailsKeeps ==
  ASSUME IndexInv, SegmentFails PROVE IndexInv'
<1>1. /\ FlushEnds("off") /\ flushFailed' = TRUE
      /\ UNCHANGED <<indexVars, consumerVars, since, seq, blockLo, rowCount, segments, stopping, reader>>
  BY DEF SegmentFails
<1>2. /\ finished' \in Seq([req : Reqs, w : Nat]) /\ finished' = finished /\ asked' \subseteq Reqs
      /\ rowCount' \in [Reqs -> Nat \cup {Absent}]
  BY <1>1 DEF IndexInv, TypeOK, indexVars
<1> QED BY <1>1, <1>2, FlushEndsKeeps DEF indexVars

-----------------------------------------------------------------------------
(* The reader's step, and the theorems. *)

LEMMA ReadSegmentKeeps ==
  ASSUME IndexInv, ReadSegment PROVE IndexInv'
<1> USE DEF IndexInv
<1> DEFINE g == segments[reader.seq + 1]
<1>1. /\ reader.seq < Len(segments)
      /\ UNCHANGED <<indexVars, consumerVars, flushVars, chainVars, stopVars>>
      /\ reader' = IF Admissible(g)
                   THEN [seq |-> reader.seq + 1, lo |-> g.upTo,
                         rows |-> [r \in Reqs |-> reader.rows[r] \cup g.rows[r]],
                         count |-> [r \in Reqs |-> reader.count[r] + Cardinality(g.rows[r])],
                         complete |-> reader.complete \cup { s.req : s \in g.stamps },
                         refused |-> FALSE]
                   ELSE [reader EXCEPT !.refused = TRUE]
  BY DEF ReadSegment
<1>2. reader \in [seq : Nat, lo : Nat, rows : [Reqs -> SUBSET Nat], count : [Reqs -> Nat],
                 complete : SUBSET Reqs, refused : BOOLEAN]
  BY DEF TypeOK
<1>3. UNCHANGED <<blocks, rowsTotal, finished, consumer, done, flusher, wm, reqRows, stamps,
                  since, blockLo, segments>>
  BY <1>1 DEF indexVars, consumerVars, flushVars, chainVars
<1>4. BlocksInv' /\ WindowInv' /\ StampInv' /\ SegmentInv' /\ ChainHoldsEveryRowOnce'
  BY <1>3, BlocksFrame, WindowFrame, StampFrame, SegmentFrame
<1>5. reader.seq + 1 \in 1 .. Len(segments)
  BY <1>1, <1>2, Types
<1>6. g \in Segment /\ g.since \in Nat /\ g.upTo \in Nat /\ g.rows \in [Reqs -> SUBSET Nat]
      /\ g.stamps \subseteq Stamps /\ g.upTo <= since
      /\ \A r \in Reqs : g.rows[r] = RowsIn(blocks, r, g.since, g.upTo)
      /\ \A s \in g.stamps : AllBelow(s.req, s.w) /\ s.w <= g.upTo
  <2>1. g \in Segment
    BY <1>5, Types
  <2>2. /\ g.upTo <= since
        /\ \A r \in Reqs : g.rows[r] = RowsIn(blocks, r, g.since, g.upTo)
        /\ \A s \in g.stamps : AllBelow(s.req, s.w) /\ s.w <= g.upTo
    BY <1>5, Types DEF SegmentInv, StampInv
  <2> HIDE DEF g
  <2> QED BY <2>1, <2>2 DEF Segment
<1> HIDE DEF g
<1>7. CASE ~Admissible(g)
  <2>1. reader' = [reader EXCEPT !.refused = TRUE]
    BY <1>1, <1>7
  <2>2. TypeOK'
    <3>1. reader' \in [seq : Nat, lo : Nat, rows : [Reqs -> SUBSET Nat], count : [Reqs -> Nat],
                      complete : SUBSET Reqs, refused : BOOLEAN]
      BY <1>2, <2>1
    <3> QED BY <1>1, <3>1 DEF TypeOK, indexVars, consumerVars, flushVars, chainVars, stopVars
  <2>3. /\ reader'.seq = reader.seq /\ reader'.lo = reader.lo /\ reader'.rows = reader.rows
        /\ reader'.count = reader.count /\ reader'.complete = reader.complete
    BY <1>2, <2>1
  <2>4. ReaderInv'
    BY <1>3, <2>3 DEF ReaderInv, AllBelow, RowsOf, CommittedRows
  <2> QED BY <1>4, <2>2, <2>4
<1>8. CASE Admissible(g)
  <2>1. /\ reader'.seq = reader.seq + 1 /\ reader'.lo = g.upTo
        /\ reader'.rows = [r \in Reqs |-> reader.rows[r] \cup g.rows[r]]
        /\ reader'.count = [r \in Reqs |-> reader.count[r] + Cardinality(g.rows[r])]
        /\ reader'.complete = reader.complete \cup { s.req : s \in g.stamps }
        /\ reader' = [seq |-> reader.seq + 1, lo |-> g.upTo,
                      rows |-> [r \in Reqs |-> reader.rows[r] \cup g.rows[r]],
                      count |-> [r \in Reqs |-> reader.count[r] + Cardinality(g.rows[r])],
                      complete |-> reader.complete \cup { s.req : s \in g.stamps },
                      refused |-> FALSE]
    BY <1>1, <1>8
  <2>2. g.since = reader.lo /\ g.since <= g.upTo
    BY <1>8 DEF Admissible
  <2>3. ASSUME NEW r \in Reqs
        PROVE  /\ reader.rows[r] \cup g.rows[r] = RowsIn(blocks, r, 0, g.upTo)
               /\ Cardinality(g.rows[r]) \in Nat
               /\ reader.count[r] + Cardinality(g.rows[r])
                    = Cardinality(reader.rows[r] \cup g.rows[r])
    <3>1. /\ reader.rows[r] = RowsIn(blocks, r, 0, reader.lo)
          /\ g.rows[r] = RowsIn(blocks, r, reader.lo, g.upTo)
          /\ reader.count[r] = Cardinality(reader.rows[r])
          /\ reader.lo \in Nat
      BY <1>2, <1>6, <2>2 DEF ReaderInv
    <3>2. /\ RowsIn(blocks, r, 0, g.upTo) = reader.rows[r] \cup g.rows[r]
          /\ reader.rows[r] \cap g.rows[r] = {}
      <4>1. blocks \in Seq(Block) /\ reader.lo <= g.upTo
        BY <2>2, Types
      <4> QED BY <1>6, <3>1, <4>1, RowsSplitAt
    <3>3. IsFiniteSet(reader.rows[r]) /\ IsFiniteSet(g.rows[r])
          /\ Cardinality(reader.rows[r]) \in Nat /\ Cardinality(g.rows[r]) \in Nat
      <4>1. blocks \in Seq(Block) /\ 0 \in Nat
        BY Types
      <4>2. /\ IsFiniteSet(RowsIn(blocks, r, 0, reader.lo))
            /\ Cardinality(RowsIn(blocks, r, 0, reader.lo)) \in Nat
        BY <3>1, <4>1, RowsFinite
      <4>3. /\ IsFiniteSet(RowsIn(blocks, r, reader.lo, g.upTo))
            /\ Cardinality(RowsIn(blocks, r, reader.lo, g.upTo)) \in Nat
        BY <1>6, <3>1, <4>1, RowsFinite
      <4> QED BY <3>1, <4>2, <4>3
    <3>4. Cardinality(reader.rows[r] \cup g.rows[r])
            = Cardinality(reader.rows[r]) + Cardinality(g.rows[r]) - Cardinality({})
      BY <3>2, <3>3, FS_Union
    <3>5. Cardinality({}) = 0
      BY FS_EmptySet
    <3> QED BY <3>1, <3>2, <3>3, <3>4, <3>5
  <2>4. TypeOK'
    <3>1. /\ reader'.rows \in [Reqs -> SUBSET Nat] /\ reader'.count \in [Reqs -> Nat]
      <4>1. ASSUME NEW r \in Reqs
            PROVE  /\ reader.rows[r] \cup g.rows[r] \in SUBSET Nat
                   /\ reader.count[r] + Cardinality(g.rows[r]) \in Nat
        <5>1. reader.rows[r] \in SUBSET Nat /\ g.rows[r] \in SUBSET Nat /\ reader.count[r] \in Nat
          BY <1>2, <1>6
        <5>2. reader.rows[r] \cup g.rows[r] \in SUBSET Nat
          BY <5>1
        <5>3. Cardinality(g.rows[r]) \in Nat
          BY <2>3
        <5>4. reader.count[r] + Cardinality(g.rows[r]) \in Nat
          BY <5>1, <5>3
        <5> QED BY <5>2, <5>4
      <4> QED BY <2>1, <4>1
    <3>2. { s.req : s \in g.stamps } \subseteq Reqs
      BY <1>6 DEF Stamps
    <3>3. reader' \in [seq : Nat, lo : Nat, rows : [Reqs -> SUBSET Nat], count : [Reqs -> Nat],
                      complete : SUBSET Reqs, refused : BOOLEAN]
      BY <1>2, <1>6, <2>1, <3>1, <3>2
    <3> QED BY <1>1, <3>3 DEF TypeOK, indexVars, consumerVars, flushVars, chainVars, stopVars
  <2>5. ReaderInv'
    <3>1. reader'.seq <= Len(segments) /\ reader'.lo <= since
      BY <1>5, <1>6, <2>1, Types
    <3>2. \A r \in Reqs : /\ reader'.rows[r] = RowsIn(blocks, r, 0, reader'.lo)
                          /\ reader'.count[r] = Cardinality(reader'.rows[r])
      BY <2>1, <2>3
    <3>3. ASSUME NEW r \in reader'.complete
          PROVE  r \in done /\ \A x \in RowsIn(blocks, r, 0, CommittedRows) : x < g.upTo
      <4>1. PICK w \in Nat : AllBelow(r, w) /\ w <= g.upTo
        <5>1. CASE r \in reader.complete
          BY <1>2, <2>2, <5>1 DEF ReaderInv
        <5>2. CASE \E s \in g.stamps : r = s.req
          BY <1>6, <5>2 DEF Stamps
        <5> QED BY <2>1, <3>3, <5>1, <5>2
      <4>2. ASSUME NEW x \in RowsIn(blocks, r, 0, CommittedRows) PROVE x < g.upTo
        <5>1. x < w /\ x \in Nat
          BY <4>1, <4>2, Types, CommittedIsNat, RowsFinite DEF AllBelow, RowsOf
        <5> QED BY <1>6, <4>1, <5>1
      <4> QED BY <4>1, <4>2 DEF AllBelow
    <3> QED BY <1>3, <2>1, <3>1, <3>2, <3>3 DEF ReaderInv, AllBelow, RowsOf, CommittedRows
  <2> QED BY <1>4, <2>4, <2>5
<1> QED BY <1>7, <1>8

LEMMA IndexInit == ASSUME Init PROVE IndexInv
<1>1. /\ blocks = <<>> /\ segments = <<>> /\ finished = <<>> /\ stamps = {} /\ rowsTotal = 0
      /\ since = 0 /\ blockLo = 0 /\ consumer = "run" /\ flusher = "wait" /\ wm = 0
      /\ reader.lo = 0 /\ reader.seq = 0 /\ reader.rows = NoRows /\ reader.complete = {}
      /\ reader.count = [r \in Reqs |-> 0]
  BY DEF Init
<1>2. TypeOK
  <2>1. NoRows \in [Reqs -> SUBSET Nat] /\ [r \in Reqs |-> 0] \in [Reqs -> Nat]
    BY DEF NoRows
  <2>2. reader \in [seq : Nat, lo : Nat, rows : [Reqs -> SUBSET Nat], count : [Reqs -> Nat],
                   complete : SUBSET Reqs, refused : BOOLEAN]
    BY <2>1 DEF Init
  <2>3. /\ blocks \in Seq([start : Nat, owner : Seq(Reqs)]) /\ finished \in Seq([req : Reqs, w : Nat])
        /\ segments \in Seq([seq : Nat, since : Nat, upTo : Nat, rows : [Reqs -> SUBSET Nat],
                            stamps : SUBSET Stamps])
    BY <1>1
  <2>4. rowCount \in [Reqs -> Nat \cup {Absent}] /\ reqRows \in [Reqs -> SUBSET Nat]
    BY <2>1 DEF Init
  <2>5. /\ rowsTotal = 0 /\ asked = {} /\ done = {} /\ mustStamp = {} /\ finishing = NoReq
        /\ final = FALSE /\ seq = 0 /\ flushFailed = FALSE /\ stopping = FALSE /\ finalDone = FALSE
    BY DEF Init
  <2> QED BY <1>1, <2>2, <2>3, <2>4, <2>5 DEF TypeOK
<1>3. CommittedRows = 0
  BY <1>1 DEF CommittedRows
<1>4. BlocksInv /\ WindowInv /\ StampInv /\ SegmentInv
  BY <1>1, <1>3 DEF BlocksInv, WindowInv, StampInv, SegmentInv
<1>5. \A r \in Reqs : RowsIn(blocks, r, 0, 0) = {}
  BY <1>1 DEF RowsIn
<1>6. ReaderInv
  <2>1. Cardinality({}) = 0
    BY FS_EmptySet
  <2> QED BY <1>1, <1>5, <2>1 DEF ReaderInv, NoRows
<1>7. ChainHoldsEveryRowOnce
  BY <1>1, <1>5 DEF ChainHoldsEveryRowOnce
<1> QED BY <1>2, <1>4, <1>6, <1>7 DEF IndexInv

LEMMA IndexStep == ASSUME IndexInv, [Next]_vars PROVE IndexInv'
<1>1. CASE Consumer
  BY <1>1, ConsumerKeeps
<1>2. CASE Flusher
  BY <1>2, ReadWatermarkKeeps, SliceKeeps, TakeStampsKeeps, WriteSegmentKeeps, SegmentFailsKeeps
     DEF Flusher
<1>3. CASE Stop
  <2>1. UNCHANGED <<blocks, rowsTotal, finished, asked, consumerVars, flushVars, chainVars,
                    finalDone, reader>> /\ stopping' = TRUE
    BY <1>3 DEF Stop, indexVars
  <2>2. TypeOK'
    BY <2>1 DEF IndexInv, TypeOK, consumerVars, flushVars, chainVars
  <2> QED BY <2>1, <2>2, BlocksFrame, WindowFrame, StampFrame, SegmentFrame, ReaderFrame
          DEF IndexInv, consumerVars, flushVars, chainVars
<1>4. CASE ReadSegment
  BY <1>4, ReadSegmentKeeps
<1>5. CASE UNCHANGED vars
  <2>1. UNCHANGED <<indexVars, consumerVars, flushVars, chainVars, stopVars, reader>>
    BY <1>5 DEF vars
  <2>2. TypeOK'
    BY <2>1 DEF IndexInv, TypeOK, indexVars, consumerVars, flushVars, chainVars, stopVars
  <2> QED BY <2>1, <2>2, BlocksFrame, WindowFrame, StampFrame, SegmentFrame, ReaderFrame
          DEF IndexInv, indexVars, consumerVars, flushVars, chainVars
<1> QED BY <1>1, <1>2, <1>3, <1>4, <1>5 DEF Next

\* At every step of the consumer, the flusher and the reader, what the flusher
\* and the reader hold agrees with the sidecar's blocks (flush_once, feed).
THEOREM IndexInvAlways == Spec => []IndexInv
BY IndexInit, IndexStep, PTL DEF Spec

\* The segments hold each row below the chain's watermark once, under its owner,
\* and no other row, for any number of steps, rows and failed flushes.
THEOREM ChainIsExact == Spec => []ChainHoldsEveryRowOnce
<1>1. IndexInv => ChainHoldsEveryRowOnce
  BY DEF IndexInv
<1> QED BY <1>1, IndexInvAlways, PTL

\* A request the reader takes for complete has been read whole, each row once,
\* also from a chain some of whose flushes failed.
THEOREM CompleteIsWhole == Spec => []CompleteMeansEveryRow
<1>1. ASSUME IndexInv PROVE CompleteMeansEveryRow
  <2> SUFFICES ASSUME NEW r \in reader.complete
               PROVE  /\ reader.rows[r] = RowsOf(r)
                      /\ reader.count[r] = Cardinality(RowsOf(r))
    BY DEF CompleteMeansEveryRow
  <2>1. /\ r \in Reqs /\ reader.lo \in Nat /\ blocks \in Seq(Block) /\ CommittedRows \in Nat
        /\ since \in Nat /\ rowsTotal \in Nat
    BY <1>1, Types, CommittedIsNat DEF IndexInv, TypeOK
  <2>2. /\ reader.rows[r] = RowsIn(blocks, r, 0, reader.lo)
        /\ reader.count[r] = Cardinality(reader.rows[r])
        /\ \A x \in RowsOf(r) : x < reader.lo
    BY <1>1, <2>1 DEF IndexInv, ReaderInv, AllBelow
  <2>3. reader.lo <= CommittedRows
    BY <1>1, <2>1 DEF IndexInv, ReaderInv, WindowInv, BlocksInv
  <2>4. /\ RowsOf(r) = RowsIn(blocks, r, 0, reader.lo) \cup RowsIn(blocks, r, reader.lo, CommittedRows)
    BY <2>1, <2>3, RowsSplitAt DEF RowsOf
  <2>5. ASSUME NEW x \in RowsIn(blocks, r, reader.lo, CommittedRows) PROVE FALSE
    <3>1. reader.lo <= x /\ RowAt(blocks, r, x) /\ x \in Nat
      BY <2>1, InRows, RowsAreNat
    <3>2. x < reader.lo
      BY <2>2, <2>4
    <3> QED BY <2>1, <3>1, <3>2
  <2> QED BY <2>2, <2>4, <2>5
<1> QED BY <1>1, IndexInvAlways, PTL

=============================================================================
