------------------------ MODULE ApertureDrain_proofs -----------------------
(***************************************************************************)
(* The capture path keeps its rows: type correctness and the safety        *)
(* invariants of ApertureDrain for every ring size, every set of layers    *)
(* and every combination of failures, time-outs and dummy passes.  Where   *)
(* no join times out: what a close has stored, and that the whole          *)
(* implements CaptureLog.                                                  *)
(***************************************************************************)
EXTENDS ApertureDrain, SequenceTheorems, TLAPS

-----------------------------------------------------------------------------
(* The arithmetic of the ring (CaptureAperture), for every number of slots. *)

LEMMA MultipleAtLeast == ASSUME NEW m \in Nat \ {0}, NEW k \in Int, k >= 1
                         PROVE  m * k >= m
OBVIOUS

LEMMA DivisionOf == ASSUME NEW m \in Nat \ {0}, NEW l \in Nat
                    PROVE  /\ l % m \in 0 .. (m - 1)
                           /\ l \div m \in Nat
                           /\ l = m * (l \div m) + (l % m)
OBVIOUS

\* A remainder is determined by where the number lies.
LEMMA RemainderIs == ASSUME NEW m \in Nat \ {0}, NEW l \in Nat, NEW a \in Nat,
                            NEW r \in 0 .. (m - 1), l = m * a + r
                     PROVE  l % m = r
<1> DEFINE b == l \div m
           s == l % m
<1>1. b \in Nat /\ s \in 0 .. (m - 1) /\ l = m * b + s
  BY DivisionOf
<1> HIDE DEF b, s
<1>2. m * (a - b) = s - r
  BY <1>1
<1>3. CASE a - b >= 1
  <2>1. m * (a - b) >= m
    BY <1>1, <1>3, MultipleAtLeast
  <2> QED BY <1>1, <1>2, <2>1
<1>4. CASE b - a >= 1
  <2>1. m * (b - a) >= m
    BY <1>1, <1>4, MultipleAtLeast
  <2>2. m * (b - a) = r - s
    BY <1>1, <1>2
  <2> QED BY <1>1, <2>1, <2>2
<1>5. CASE a = b
  BY <1>1, <1>2, <1>5 DEF s
<1> QED BY <1>1, <1>3, <1>4, <1>5

LEMMA PhysicalSlotType == ASSUME NEW l \in Nat
                          PROVE  PhysicalSlot(l) \in Slots /\ PhysicalSlot(l) # Sentinel
BY NSlotsAssumption, DivisionOf DEF PhysicalSlot, Slots, Sentinel

\* Rows less than a lap apart live in different slots.
LEMMA SlotsDiffer ==
  ASSUME NEW l \in Nat, NEW k \in Nat, l < k, k < l + NSlots
  PROVE  PhysicalSlot(l) # PhysicalSlot(k)
<1> DEFINE a == l \div NSlots
           b == k \div NSlots
<1>1. /\ a \in Nat /\ b \in Nat
      /\ l = NSlots * a + (l % NSlots) /\ l % NSlots \in Int
      /\ k = NSlots * b + (k % NSlots) /\ k % NSlots \in Int
  BY NSlotsAssumption, DivisionOf
<1> HIDE DEF a, b
<1> SUFFICES ASSUME l % NSlots = k % NSlots PROVE FALSE
  BY DEF PhysicalSlot
<1>2. NSlots * (b - a) = k - l
  BY <1>1, NSlotsAssumption
<1>3. CASE b - a >= 1
  <2>1. NSlots * (b - a) >= NSlots
    BY <1>1, <1>3, NSlotsAssumption, MultipleAtLeast
  <2> QED BY <1>1, <1>2, <2>1, NSlotsAssumption
<1>4. CASE b - a <= 0
  <2>1. NSlots * (b - a) <= 0
    BY <1>1, <1>4, NSlotsAssumption
  <2> QED BY <1>1, <1>2, <2>1, NSlotsAssumption
<1> QED BY <1>1, <1>3, <1>4

\* The rows of one lap are told apart by their slots.
LEMMA SlotsInjective ==
  ASSUME NEW lo \in Nat, NEW l \in Nat, NEW k \in Nat,
         lo <= l, l < lo + NSlots, lo <= k, k < lo + NSlots,
         PhysicalSlot(l) = PhysicalSlot(k)
  PROVE  l = k
<1>1. CASE l < k
  BY <1>1, SlotsDiffer, NSlotsAssumption
<1>2. CASE k < l
  BY <1>2, SlotsDiffer, NSlotsAssumption
<1> QED BY <1>1, <1>2

\* segments_at: the one or two segments of a reservation, copied one after the
\* other, are the reservation's slots in row order, also when it wraps and when
\* it takes the whole ring.
THEOREM SegmentsCoverReservation ==
  ASSUME NEW start \in Nat, NEW n \in Nat, n <= NSlots
  PROVE  SegmentSlots(SegmentsAt(start, n))
           = [j \in 1 .. n |-> PhysicalSlot(start + j - 1)]
<1> DEFINE ps == PhysicalSlot(start)
           a == start \div NSlots
<1>1. ps \in 0 .. (NSlots - 1) /\ a \in Nat /\ start = NSlots * a + ps
  BY NSlotsAssumption, DivisionOf DEF PhysicalSlot
<1> HIDE DEF ps, a
<1>2. ASSUME NEW j \in 1 .. n, ps + j - 1 < NSlots
      PROVE  PhysicalSlot(start + j - 1) = ps + j - 1
  <2>1. start + j - 1 = NSlots * a + (ps + j - 1)
    BY <1>1, NSlotsAssumption
  <2>2. /\ start + j - 1 \in Nat /\ ps + j - 1 \in 0 .. (NSlots - 1)
    BY <1>1, <1>2, NSlotsAssumption
  <2> QED BY <1>1, <2>1, <2>2, RemainderIs, NSlotsAssumption DEF PhysicalSlot
<1>3. ASSUME NEW j \in 1 .. n, ps + j - 1 >= NSlots
      PROVE  PhysicalSlot(start + j - 1) = ps + j - 1 - NSlots
  <2>1. NSlots * (a + 1) = NSlots * a + NSlots
    BY <1>1, NSlotsAssumption
  <2>2. start + j - 1 = NSlots * (a + 1) + (ps + j - 1 - NSlots)
    BY <1>1, <2>1, NSlotsAssumption
  <2>3. /\ start + j - 1 \in Nat /\ a + 1 \in Nat
        /\ ps + j - 1 - NSlots \in 0 .. (NSlots - 1)
    BY <1>1, <1>3, NSlotsAssumption
  <2> QED BY <1>1, <2>2, <2>3, RemainderIs, NSlotsAssumption DEF PhysicalSlot
<1>4. CASE n = 0
  <2>1. SegmentsAt(start, n) = <<>>
    BY <1>4 DEF SegmentsAt
  <2> QED BY <1>4, <2>1 DEF SegmentSlots
<1>5. CASE n > 0 /\ ps + n <= NSlots
  <2>1. SegmentsAt(start, n) = << [from |-> ps, upto |-> ps + n] >>
    BY <1>5 DEF SegmentsAt, ps
  <2> DEFINE segs == << [from |-> ps, upto |-> ps + n] >>
  <2>2. SegmentSlots(segs) = [j \in 1 .. n |-> ps + (j - 1)]
    <3>1. segs # <<>> /\ Len(segs) # 2 /\ segs[1].upto - segs[1].from = n
      BY <1>1
    <3>2. segs[1].from = ps
      OBVIOUS
    <3> HIDE DEF segs
    <3> QED BY <3>1, <3>2 DEF SegmentSlots
  <2>3. \A j \in 1 .. n : PhysicalSlot(start + j - 1) = ps + (j - 1)
    BY <1>1, <1>2, <1>5, NSlotsAssumption
  <2> QED BY <2>1, <2>2, <2>3
<1>6. CASE n > 0 /\ ps + n > NSlots
  <2>1. SegmentsAt(start, n) = << [from |-> ps, upto |-> NSlots],
                                  [from |-> 0, upto |-> n - (NSlots - ps)] >>
    BY <1>1, <1>6, NSlotsAssumption DEF SegmentsAt, ps
  <2>2. SegmentSlots(SegmentsAt(start, n))
          = [j \in 1 .. n |-> IF j <= NSlots - ps THEN ps + (j - 1)
                              ELSE 0 + (j - (NSlots - ps) - 1)]
    BY <1>1, <1>6, <2>1, NSlotsAssumption DEF SegmentSlots
  <2>3. \A j \in 1 .. n :
          PhysicalSlot(start + j - 1)
            = IF j <= NSlots - ps THEN ps + (j - 1)
              ELSE 0 + (j - (NSlots - ps) - 1)
    <3> TAKE j \in 1 .. n
    <3>1. CASE ps + j - 1 < NSlots
      BY <1>1, <1>2, <3>1, NSlotsAssumption
    <3>2. CASE ps + j - 1 >= NSlots
      <4>1. PhysicalSlot(start + j - 1) = ps + j - 1 - NSlots
        BY <1>3, <3>2
      <4> QED BY <1>1, <3>2, <4>1, NSlotsAssumption
    <3> QED BY <1>1, <3>1, <3>2, NSlotsAssumption
  <2> QED BY <2>2, <2>3
<1> QED BY <1>1, <1>4, <1>5, <1>6, NSlotsAssumption

-----------------------------------------------------------------------------
(* What each process leaves alone. *)

LEMMA EngineFrame ==
  Engine => UNCHANGED <<drain, slot, consumerVars, diskVars, ioLock, closeVars>>
BY DEF Engine, StartStep, RetryReserve, ReserveGivesUp, StepRaises, RunForward,
       DummyPass, ReserveRows, Admit, ringVars, consumerVars, diskVars, closeVars

LEMMA KernelFrame ==
  RunKernel => UNCHANGED <<write, drain, engineVars, queue, consumerVars, diskVars,
                           ioLock, closeVars>>
BY DEF RunKernel

LEMMA ConsumerFrame ==
  Consumer => UNCHANGED <<write, slot, gpu, engineVars, closeVars>>
BY DEF Consumer, TakeItem, BeginItem, CopyFails, CommitItem, AbandonItem, FreeItem,
       CopyLayer, WriteLayer, WriteFails, ringVars

LEMMA CloserFrame ==
  Closer => UNCHANGED <<ringVars, stepStart, stepRows, need, consumerVars, diskVars>>
BY DEF Closer, BeginFlush, BeginClose, JoinReturns, StopReturns, LockForClose,
       LockTimesOut, SealFiles

-----------------------------------------------------------------------------
(* Type correctness. *)

LEMMA FunctionIsSeq == ASSUME NEW S, NEW n \in Nat, NEW f \in [1 .. n -> S]
                       PROVE  f \in Seq(S) /\ Len(f) = n
OBVIOUS

LEMMA TailFacts ==
  ASSUME NEW S, NEW s \in Seq(S), s # <<>>
  PROVE  /\ Head(s) = s[1] /\ Head(s) \in S /\ Tail(s) \in Seq(S)
         /\ Len(s) \in Nat \ {0} /\ Len(Tail(s)) = Len(s) - 1
         /\ \A i \in 1 .. (Len(s) - 1) : Tail(s)[i] = s[i + 1]
BY HeadTailProperties, EmptySeq

LEMMA SlotOfInt == ASSUME NEW l \in Int PROVE PhysicalSlot(l) \in Slots
BY NSlotsAssumption DEF PhysicalSlot, Slots

LEMMA TypeInit == Init => TypeOK
<1> SUFFICES ASSUME Init PROVE TypeOK
  OBVIOUS
<1> USE DEF Init
<1>1. RingType
  BY NSlotsAssumption DEF RingType, Slots, Junk
<1>2. EngineType /\ QueueType
  BY DEF EngineType, QueueType, NoRow
<1>3. ConsumerType /\ DiskType
  BY DEF ConsumerType, DiskType, NoItem, NoRow, Items
<1>4. CloseType
  <2>1. closeCall \in [by : {"none", "flush", "close"}, resume : {"idle", "dead"}]
    OBVIOUS
  <2>2. meta \in Seq(SidecarBlocks)
    OBVIOUS
  <2> QED BY <2>1, <2>2 DEF CloseType
<1> QED BY <1>1, <1>2, <1>3, <1>4 DEF TypeOK

LEMMA EngineKeepsType == ASSUME TypeOK, Engine PROVE TypeOK'
<1>1. ConsumerType' /\ DiskType' /\ CloseType'
  BY EngineFrame DEF TypeOK, ConsumerType, DiskType, CloseType, consumerVars, diskVars,
                     closeVars
<1>2. RingType' /\ EngineType' /\ QueueType'
  <2> USE DEF TypeOK, RingType, EngineType, QueueType, ringVars, engineVars
  <2>1. CASE StartStep BY <2>1 DEF StartStep, NoRow
  <2>2. CASE RetryReserve BY <2>2 DEF RetryReserve, Admit
  <2>3. CASE ReserveGivesUp BY <2>3 DEF ReserveGivesUp
  <2>4. CASE StepRaises BY <2>4 DEF StepRaises
  <2>5. CASE RunForward
    <3>1. Kernel(stepStart, stepRows) \in Kernels
      BY DEF Kernel, Kernels
    <3>2. StepItem(stepStart, stepRows) \in QueueItems
      BY DEF StepItem, QueueItems
    <3>3. Append(gpu, Kernel(stepStart, stepRows)) \in Seq(Kernels)
      BY <3>1, AppendProperties
    <3>4. Append(queue, StepItem(stepStart, stepRows)) \in Seq(QueueItems)
      BY <3>2, AppendProperties
    <3>6. RingType' /\ QueueType'
      BY <2>5, <3>3, <3>4 DEF RunForward
    <3>5. EngineType'
      BY <2>5 DEF RunForward, NoRow
    <3> QED BY <3>5, <3>6
  <2>6. CASE DummyPass
    <3>1. DummyKernel \in Kernels
      BY DEF DummyKernel, Kernel, NoRow, Kernels
    <3>2. Append(gpu, DummyKernel) \in Seq(Kernels)
      BY <3>1, AppendProperties
    <3> QED BY <2>6, <3>2 DEF DummyPass
  <2>7. ASSUME NEW n \in 1 .. StepCap, ReserveRows(n)
        PROVE  RingType' /\ EngineType' /\ QueueType'
    <3>1. n \in Nat
      BY ApertureDrainAssumption
    <3>2. CASE Admit(n) /\ UNCHANGED <<engine, need>>
      BY <2>7, <3>1, <3>2 DEF ReserveRows, Admit
    <3>3. CASE ~Admit(n) \/ ~UNCHANGED <<engine, need>>
      BY <2>7, <3>1, <3>3 DEF ReserveRows
    <3> QED BY <3>2, <3>3
  <2> QED BY <2>1, <2>2, <2>3, <2>4, <2>5, <2>6, <2>7 DEF Engine
<1> QED BY <1>1, <1>2 DEF TypeOK

LEMMA ScatterType ==
  ASSUME slot \in [Slots -> Int], NEW k \in Kernels
  PROVE  Scatter(k) \in [Slots -> Int]
<1>1. CASE k.n = 0
  BY <1>1, NSlotsAssumption DEF Scatter, Junk, StaleViewSlot, Slots
<1>2. CASE k.n # 0
  <2>1. RowsFrom(k.start, k.n) \subseteq Int
    BY DEF RowsFrom, Kernels
  <2> QED BY <1>2, <2>1 DEF Scatter
<1> QED BY <1>1, <1>2

LEMMA KernelKeepsType == ASSUME TypeOK, RunKernel PROVE TypeOK'
<1>1. Head(gpu) \in Kernels /\ Tail(gpu) \in Seq(Kernels)
  BY TailFacts DEF TypeOK, RingType, RunKernel
<1>2. RingType'
  BY <1>1, ScatterType DEF TypeOK, RingType, RunKernel
<1>3. EngineType' /\ QueueType' /\ ConsumerType' /\ DiskType' /\ CloseType'
  BY DEF RunKernel, TypeOK, EngineType, QueueType, ConsumerType, DiskType, CloseType,
         engineVars, consumerVars, diskVars, closeVars
<1> QED BY <1>2, <1>3 DEF TypeOK

LEMMA ConsumerKeepsType == ASSUME TypeOK, Consumer PROVE TypeOK'
<1>1. EngineType' /\ CloseType'
  BY ConsumerFrame DEF TypeOK, EngineType, CloseType, engineVars, closeVars
<1>2. QueueType'
  <2>1. CASE TakeItem
    BY <2>1, TailFacts DEF TypeOK, QueueType, TakeItem
  <2>2. CASE ~TakeItem
    BY <2>2 DEF Consumer, TypeOK, QueueType, BeginItem, CopyFails, CommitItem,
                AbandonItem, FreeItem, CopyLayer, WriteLayer, WriteFails
  <2> QED BY <2>1, <2>2
<1>3. RingType' /\ ConsumerType' /\ DiskType'
  <2> USE DEF TypeOK, RingType, ConsumerType, DiskType, ringVars, diskVars, consumerVars
  <2>1. CASE TakeItem
    <3>1. Head(queue) \in [kind : {"step", "stop"}, start : Int, n : Nat]
      BY <2>1, TailFacts DEF TakeItem, QueueType, QueueItems
    <3>2. CASE Head(queue).kind = "stop"
      BY <2>1, <3>2 DEF TakeItem
    <3>3. CASE Head(queue).kind = "step"
      <4>1. item' \in Items
        BY <2>1, <3>1, <3>3 DEF TakeItem, Items
      <4> QED BY <2>1, <3>3, <4>1 DEF TakeItem
    <3> QED BY <3>1, <3>2, <3>3
  <2>2. CASE BeginItem BY <2>2 DEF BeginItem, Items
  <2>3. CASE CopyFails BY <2>3 DEF CopyFails
  <2>4. CASE CommitItem
    <3>1. [start |-> item.start, n |-> item.n, cursor |-> cursor]
            \in SidecarBlocks
      BY DEF SidecarBlocks, Items
    <3>2. blocks' \in Seq(SidecarBlocks)
      BY <2>4, <3>1, AppendProperties DEF CommitItem
    <3> QED BY <2>4, <3>2 DEF CommitItem
  <2>5. CASE AbandonItem BY <2>5 DEF AbandonItem
  <2>6. CASE FreeItem BY <2>6 DEF FreeItem, NoItem, NoRow, Items
  <2>7. ASSUME NEW L \in Layers, CopyLayer(L)
        PROVE  RingType' /\ ConsumerType' /\ DiskType'
    <3>1. [j \in 1 .. item.n |-> slot[PhysicalSlot(item.start + j - 1)]] \in Seq(Int)
      <4>1. item.n \in Nat /\ item.start \in Int
        BY DEF Items
      <4>2. \A j \in 1 .. item.n : slot[PhysicalSlot(item.start + j - 1)] \in Int
        <5> TAKE j \in 1 .. item.n
        <5>1. item.start + j - 1 \in Int
          BY <4>1
        <5>2. PhysicalSlot(item.start + j - 1) \in Slots
          BY <5>1, SlotOfInt
        <5> QED BY <5>2
      <4>3. [j \in 1 .. item.n |-> slot[PhysicalSlot(item.start + j - 1)]]
              \in [1 .. item.n -> Int]
        BY <4>2
      <4> QED BY <4>1, <4>3, FunctionIsSeq, ZenonT(30)
    <3> QED BY <2>7, <3>1 DEF CopyLayer
  <2>8. ASSUME NEW L \in Layers, WriteLayer(L)
        PROVE  RingType' /\ ConsumerType' /\ DiskType'
    <3>1. file[L] \o host[L] \in Seq(Int)
      OBVIOUS
    <3> QED BY <2>8, <3>1 DEF WriteLayer
  <2>9. ASSUME NEW L \in Layers, WriteFails(L)
        PROVE  RingType' /\ ConsumerType' /\ DiskType'
    BY <2>9 DEF WriteFails
  <2> QED BY <2>1, <2>2, <2>3, <2>4, <2>5, <2>6, <2>7, <2>8, <2>9 DEF Consumer
<1> QED BY <1>1, <1>2, <1>3 DEF TypeOK

LEMMA CloserKeepsType == ASSUME TypeOK, Closer PROVE TypeOK'
<1>1. RingType' /\ DiskType'
  BY CloserFrame DEF TypeOK, RingType, DiskType, ringVars, diskVars
<1>2. QueueType'
  <2>1. StopItem \in QueueItems
    BY DEF StopItem, Enqueued, TypeOK, RingType, EngineType, QueueItems
  <2>2. Append(queue, StopItem) \in Seq(QueueItems)
    BY <2>1, AppendProperties DEF TypeOK, QueueType
  <2>3. queue' = queue \/ queue' = Append(queue, StopItem)
    BY DEF Closer, BeginFlush, BeginClose, AskStop, JoinReturns, StopReturns,
           LockForClose, LockTimesOut, SealFiles
  <2> QED BY <2>2, <2>3 DEF TypeOK, QueueType
<1>3. EngineType' /\ ConsumerType'
  BY CloserFrame
     DEF TypeOK, EngineType, ConsumerType, CloseType, consumerVars, Closer, BeginFlush,
         BeginClose, AskStop, JoinReturns, StopReturns, LockForClose, LockTimesOut,
         SealFiles
<1>4. CloseType'
  <2> USE DEF TypeOK, EngineType, DiskType, CloseType, closeVars
  <2>1. CASE BeginFlush BY <2>1 DEF BeginFlush
  <2>2. CASE BeginClose BY <2>2 DEF BeginClose
  <2>3. CASE JoinReturns BY <2>3 DEF JoinReturns
  <2>4. CASE StopReturns
    <3>1. stopError' \in BOOLEAN
      BY <2>4, Zenon DEF StopReturns
    <3> QED BY <2>4, <3>1 DEF StopReturns
  <2>5. CASE LockForClose BY <2>5 DEF LockForClose
  <2>6. CASE LockTimesOut BY <2>6 DEF LockTimesOut
  <2>7. CASE SealFiles
    <3>1. wpClosed' \in BOOLEAN
      BY <2>7, Zenon DEF SealFiles
    <3> QED BY <2>7, <3>1 DEF SealFiles
  <2> QED BY <2>1, <2>2, <2>3, <2>4, <2>5, <2>6, <2>7 DEF Closer
<1> QED BY <1>1, <1>2, <1>3, <1>4 DEF TypeOK

LEMMA TypeStep == TypeOK /\ [Next]_vars => TypeOK'
<1>1. ASSUME TypeOK, UNCHANGED vars PROVE TypeOK'
  BY <1>1 DEF vars, ringVars, engineVars, consumerVars, diskVars, closeVars, TypeOK,
              RingType, EngineType, QueueType, ConsumerType, DiskType, CloseType
<1> QED BY <1>1, EngineKeepsType, KernelKeepsType, ConsumerKeepsType, CloserKeepsType
        DEF Next

\* Every variable of the capture path keeps its type.
THEOREM TypeCorrect == Spec => []TypeOK
<1> QED BY TypeInit, TypeStep, PTL DEF Spec

-----------------------------------------------------------------------------
(* The io lock.                                                            *)

LEMMA IoLockStep == TypeOK /\ IoLockInv /\ [Next]_vars => IoLockInv'
<1> SUFFICES ASSUME TypeOK, IoLockInv, [Next]_vars PROVE IoLockInv'
  OBVIOUS
<1> USE DEF IoLockInv, Closing, TypeOK, EngineType, ConsumerType, CloseType, consumerVars,
            closeVars, engineVars
<1>1. CASE UNCHANGED vars
  BY <1>1 DEF vars
<1>2. CASE Engine
  BY <1>2 DEF Engine, StartStep, RetryReserve, ReserveGivesUp, StepRaises, RunForward,
              DummyPass, ReserveRows, Admit
<1>3. CASE RunKernel
  BY <1>3 DEF RunKernel
<1>4. CASE Consumer
  <2> USE ConsumerFrame, <1>4
  <2>1. CASE BeginItem
    BY <2>1 DEF BeginItem
  <2>2. CASE CommitItem \/ AbandonItem
    BY <2>2 DEF CommitItem, AbandonItem
  <2>3. CASE TakeItem \/ FreeItem
    BY <2>3 DEF TakeItem, FreeItem
  <2>4. CASE UNCHANGED <<consumer, ioLock>>
    BY <2>4
  <2> QED BY <2>1, <2>2, <2>3, <2>4
          DEF Consumer, CopyFails, CopyLayer, WriteLayer, WriteFails
<1>5. CASE Closer
  <2>1. CASE BeginFlush \/ BeginClose
    BY <2>1 DEF BeginFlush, BeginClose, AskStop
  <2>2. CASE JoinReturns \/ LockForClose \/ LockTimesOut
    BY <2>2 DEF JoinReturns, LockForClose, LockTimesOut
  <2>3. CASE StopReturns
    BY <2>3 DEF StopReturns
  <2>4. CASE SealFiles
    BY <2>4 DEF SealFiles
  <2> QED BY <1>5, <2>1, <2>2, <2>3, <2>4 DEF Closer
<1> QED BY <1>1, <1>2, <1>3, <1>4, <1>5 DEF Next

LEMMA FileChangesInStore == ASSUME TypeOK, [Next]_vars, consumer # "store"
                            PROVE  UNCHANGED file
BY EngineFrame, KernelFrame, CloserFrame
   DEF Next, vars, diskVars, Consumer, TakeItem, BeginItem, CopyFails, CommitItem,
       AbandonItem, FreeItem, CopyLayer, WriteLayer, WriteFails

\* A drain step and the closing of the files exclude one another: nothing is
\* appended to a closed file, also when the join timed out and the consumer
\* outlives it, whatever fails.
THEOREM ClosedFilesKeep == Spec => FilesStayClosed
<1>1. Init => IoLockInv
  BY DEF Init, IoLockInv, Closing
<1>2. TypeOK /\ IoLockInv /\ [Next]_vars => [wpClosed => UNCHANGED file]_vars
  BY FileChangesInStore DEF IoLockInv
<1> QED BY TypeCorrect, <1>1, <1>2, IoLockStep, PTL DEF Spec, FilesStayClosed

-----------------------------------------------------------------------------
(* The steps of the run, in order.                                         *)

OrderInv == EngineInv /\ QueueInv /\ ItemInv

LEMMA Numbers ==
  ASSUME TypeOK
  PROVE  /\ write \in Nat /\ drain \in Nat /\ stepRows \in Nat /\ need \in Nat
         /\ Enqueued \in Int /\ Front \in Int
         /\ item.start \in Int /\ item.n \in Nat /\ item.kind \in {"none", "step"}
         /\ Len(queue) \in Nat /\ Len(gpu) \in Nat
         /\ \A i \in 1 .. Len(queue) :
              queue[i].start \in Int /\ queue[i].n \in Nat
              /\ queue[i].kind \in {"step", "stop"} /\ queue[i] \in QueueItems
         /\ \A i \in 1 .. Len(gpu) :
              gpu[i].start \in Int /\ gpu[i].n \in Nat /\ gpu[i] \in Kernels
<1> USE DEF TypeOK, RingType, EngineType, QueueType, ConsumerType
<1>1. item.start \in Int /\ item.n \in Nat /\ item.kind \in {"none", "step"}
  BY DEF Items
<1>2. ASSUME NEW i \in 1 .. Len(queue)
      PROVE  queue[i].start \in Int /\ queue[i].n \in Nat
             /\ queue[i].kind \in {"step", "stop"} /\ queue[i] \in QueueItems
  <2>1. queue[i] \in QueueItems
    BY ElementOfSeq
  <2> QED BY <2>1 DEF QueueItems
<1>3. ASSUME NEW i \in 1 .. Len(gpu)
      PROVE  gpu[i].start \in Int /\ gpu[i].n \in Nat /\ gpu[i] \in Kernels
  <2>1. gpu[i] \in Kernels
    BY ElementOfSeq
  <2> QED BY <2>1 DEF Kernels
<1>4. Len(queue) \in Nat /\ Len(gpu) \in Nat
  BY LenProperties
<1> QED BY <1>1, <1>2, <1>3, <1>4 DEF Enqueued, Front, End

LEMMA QueueItemTypes ==
  ASSUME NEW q \in Seq(QueueItems)
  PROVE  /\ Len(q) \in Nat
         /\ \A i \in 1 .. Len(q) : /\ q[i] \in QueueItems
                                  /\ q[i].start \in Int /\ q[i].n \in Nat
                                  /\ q[i].kind \in {"step", "stop"}
<1>1. ASSUME NEW i \in 1 .. Len(q) PROVE q[i] \in QueueItems
  BY ElementOfSeq
<1>2. ASSUME NEW i \in 1 .. Len(q)
      PROVE  /\ q[i].start \in Int /\ q[i].n \in Nat
             /\ q[i].kind \in {"step", "stop"}
  BY <1>1 DEF QueueItems
<1> QED BY <1>1, <1>2, LenProperties

LEMMA ChainAppend ==
  ASSUME NEW q \in Seq(QueueItems), NEW lo \in Int, NEW hi \in Int, lo <= hi,
         NEW it \in QueueItems, Chain(q, lo, hi), it.start = hi
  PROVE  Chain(Append(q, it), lo, End(it))
<1> DEFINE r == Append(q, it)
<1>1. /\ Len(q) \in Nat /\ Len(r) = Len(q) + 1 /\ r # <<>>
      /\ \A i \in 1 .. Len(q) : r[i] = q[i]
      /\ r[Len(q) + 1] = it
  BY AppendProperties, LenProperties
<1>2. it.n \in Nat /\ End(it) = hi + it.n
  BY DEF QueueItems, End
<1>3. \A i \in 1 .. Len(q) : q[i].start \in Int /\ q[i].n \in Nat
  BY QueueItemTypes
<1> HIDE DEF r
<1>4. \A i \in 1 .. Len(r) : lo <= r[i].start /\ End(r[i]) <= End(it)
  <2> TAKE i \in 1 .. Len(r)
  <2>1. CASE i = Len(q) + 1
    BY <1>1, <1>2, <2>1
  <2>2. CASE i \in 1 .. Len(q)
    <3>1. lo <= q[i].start /\ End(q[i]) <= hi
      BY <2>2 DEF Chain
    <3>2. End(q[i]) \in Int
      BY <1>3, <2>2 DEF End
    <3>3. hi <= End(it) /\ End(it) \in Int
      BY <1>2
    <3> QED BY <1>1, <2>2, <3>1, <3>2, <3>3
  <2> QED BY <1>1, <2>1, <2>2
<1>5. \A i \in 1 .. (Len(r) - 1) : r[i + 1].start = End(r[i])
  <2> TAKE i \in 1 .. (Len(r) - 1)
  <2>1. CASE i = Len(q)
    BY <1>1, <2>1 DEF Chain
  <2>2. CASE i \in 1 .. (Len(q) - 1)
    BY <1>1, <2>2 DEF Chain
  <2> QED BY <1>1, <2>1, <2>2
<1>7. \A i, j \in 1 .. Len(r) : i < j => End(r[i]) <= r[j].start
  <2> TAKE i, j \in 1 .. Len(r)
  <2> HAVE i < j
  <2>1. CASE j = Len(q) + 1
    BY <1>1, <2>1 DEF Chain
  <2>2. CASE j \in 1 .. Len(q)
    BY <1>1, <2>2 DEF Chain
  <2> QED BY <1>1, <2>1, <2>2, SMTT(30)
<1>6. r[1].start = lo /\ End(r[Len(r)]) = End(it)
  <2>1. CASE q = <<>>
    BY <1>1, <2>1 DEF Chain
  <2>2. CASE q # <<>>
    BY <1>1, <2>2, EmptySeq DEF Chain
  <2> QED BY <2>1, <2>2
<1> QED BY <1>1, <1>4, <1>5, <1>6, <1>7 DEF Chain, r

LEMMA ChainTail ==
  ASSUME NEW q \in Seq(QueueItems), NEW lo \in Int, NEW hi \in Int,
         Chain(q, lo, hi), q # <<>>
  PROVE  /\ Head(q).start = lo /\ lo <= End(Head(q)) /\ End(Head(q)) <= hi
         /\ Chain(Tail(q), End(Head(q)), hi)
<1> DEFINE r == Tail(q)
           h == Head(q)
<1>1. /\ Len(q) \in Nat \ {0} /\ Len(r) = Len(q) - 1 /\ r \in Seq(QueueItems)
      /\ h = q[1] /\ h \in QueueItems
      /\ \A i \in 1 .. (Len(q) - 1) : r[i] = q[i + 1]
  BY TailFacts
<1>2. \A i \in 1 .. Len(q) : q[i].start \in Int /\ q[i].n \in Nat
  BY QueueItemTypes
<1>3. h.start = lo /\ lo <= End(h) /\ End(h) <= hi
  BY <1>1, <1>2 DEF Chain, End
<1> HIDE DEF r, h
<1>4. \A i \in 1 .. Len(r) : End(h) <= r[i].start /\ End(r[i]) <= hi
  <2> TAKE i \in 1 .. Len(r)
  <2>1. i + 1 \in 1 .. Len(q) /\ 1 \in 1 .. Len(q) /\ 1 < i + 1 /\ r[i] = q[i + 1]
    BY <1>1
  <2> QED BY <1>1, <2>1 DEF Chain
<1>5. \A i, j \in 1 .. Len(r) : i < j => End(r[i]) <= r[j].start
  <2> TAKE i, j \in 1 .. Len(r)
  <2>1. /\ i + 1 \in 1 .. Len(q) /\ j + 1 \in 1 .. Len(q)
        /\ i < j => i + 1 < j + 1
        /\ r[i] = q[i + 1] /\ r[j] = q[j + 1]
    BY <1>1
  <2> QED BY <2>1 DEF Chain
<1>6. \A i \in 1 .. (Len(r) - 1) : r[i + 1].start = End(r[i])
  <2> TAKE i \in 1 .. (Len(r) - 1)
  <2>1. /\ i + 1 \in 1 .. (Len(q) - 1) /\ r[i] = q[i + 1] /\ r[i + 1] = q[i + 1 + 1]
    BY <1>1
  <2> QED BY <2>1 DEF Chain
<1>7. IF r = <<>> THEN End(h) = hi ELSE r[1].start = End(h) /\ End(r[Len(r)]) = hi
  <2>1. End(q[Len(q)]) = hi
    BY DEF Chain
  <2>2. CASE r = <<>>
    <3>1. Len(q) = 1
      BY <1>1, <2>2
    <3> QED BY <1>1, <2>1, <2>2, <3>1
  <2>3. CASE r # <<>>
    <3>1. Len(q) >= 2
      BY <1>1, <2>3, EmptySeq
    <3>2. r[1] = q[2] /\ r[Len(r)] = q[Len(q)] /\ q[2].start = End(q[1])
      BY <1>1, <3>1 DEF Chain
    <3> QED BY <1>1, <2>1, <2>3, <3>2
  <2> QED BY <2>2, <2>3
<1>8. Chain(r, End(h), hi)
  BY <1>4, <1>5, <1>6, <1>7 DEF Chain
<1> QED BY <1>3, <1>8 DEF r, h

\* What an engine step does to the stream of rows: nothing, but perhaps launch a
\* dummy kernel; or hand the step's rows over, with their kernel.
EnqueuesNothing ==
  /\ Enqueued' = Enqueued /\ queue' = queue
  /\ gpu' = gpu \/ (DummyPasses /\ gpu' = Append(gpu, DummyKernel))

EnqueuesStep ==
  /\ stepRows > 0 /\ Enqueued' = Enqueued + stepRows
  /\ queue' = Append(queue, StepItem(Enqueued, stepRows))
  /\ gpu' = Append(gpu, Kernel(Enqueued, stepRows))

LEMMA EngineMoves ==
  ASSUME TypeOK, OrderInv, Engine
  PROVE  /\ EngineInv' /\ write' - drain' <= NSlots
         /\ EnqueuesNothing \/ EnqueuesStep
<1> USE NSlotsAssumption, ApertureDrainAssumption
    DEF OrderInv, EngineInv, ItemInv, Closing, Enqueued, EnqueuesNothing, EnqueuesStep,
        closeVars, ringVars, engineVars
<1>1. /\ write \in Nat /\ drain \in Nat /\ stepRows \in Nat /\ need \in Nat
      /\ stepStart \in Int
  BY DEF TypeOK, RingType, EngineType
<1>2. CASE StartStep
  BY <1>1, <1>2 DEF StartStep
<1>3. CASE RetryReserve
  BY <1>1, <1>3 DEF RetryReserve, Admit, Reservable, FreeRows, NoRow
<1>4. CASE ReserveGivesUp \/ StepRaises
  BY <1>1, <1>4 DEF ReserveGivesUp, StepRaises
<1>5. CASE RunForward
  BY <1>1, <1>5 DEF RunForward
<1>6. CASE DummyPass
  BY <1>1, <1>6 DEF DummyPass
<1>7. ASSUME NEW n \in 1 .. StepCap, ReserveRows(n)
      PROVE  /\ EngineInv' /\ write' - drain' <= NSlots
             /\ EnqueuesNothing \/ EnqueuesStep
  <2>1. CASE Admit(n) /\ UNCHANGED <<engine, need>>
    BY <1>1, <1>7, <2>1 DEF ReserveRows, Admit, Reservable, FreeRows, NoRow
  <2>2. CASE ~(Admit(n) /\ UNCHANGED <<engine, need>>)
    BY <1>1, <1>7, <2>2 DEF ReserveRows
  <2> QED BY <2>1, <2>2
<1> QED BY <1>2, <1>3, <1>4, <1>5, <1>6, <1>7 DEF Engine

LEMMA EngineKeepsOrder == ASSUME TypeOK, OrderInv, Engine PROVE OrderInv'
<1>1. /\ UNCHANGED <<drain, consumer, item>> /\ Front' = Front
      /\ EngineInv' /\ write' - drain' <= NSlots
      /\ EnqueuesNothing \/ EnqueuesStep
  BY EngineFrame, EngineMoves DEF consumerVars, Front, End
<1>2. Enqueued' \in Int /\ Enqueued <= Enqueued'
  BY <1>1, Numbers DEF EnqueuesNothing, EnqueuesStep
<1>3. ItemInv'
  BY <1>1, <1>2, Numbers DEF OrderInv, ItemInv
<1>4. QueueInv'
  <2>1. CASE EnqueuesNothing
    BY <1>1, <2>1 DEF OrderInv, QueueInv, EnqueuesNothing
  <2>2. CASE EnqueuesStep
    <3> DEFINE it == StepItem(Enqueued, stepRows)
    <3>1. /\ it \in QueueItems /\ it.start = Enqueued /\ it.kind = "step"
          /\ End(it) = Enqueued'
      BY <2>2, Numbers DEF EnqueuesStep, StepItem, QueueItems, End
    <3> HIDE DEF it
    <3>2. Chain(Append(queue, it), Front, End(it))
      BY <3>1, Numbers, ChainAppend DEF OrderInv, QueueInv, ItemInv, TypeOK, QueueType
    <3>3. queue' = Append(queue, it) /\ queue \in Seq(QueueItems)
      BY <2>2 DEF EnqueuesStep, it, TypeOK, QueueType
    <3>4. \A i \in 1 .. Len(queue') : queue'[i].kind = "stop" => queue'[i].n = 0
      BY <3>1, <3>3, AppendProperties, LenProperties DEF OrderInv, QueueInv
    <3> QED BY <1>1, <3>1, <3>2, <3>3, <3>4 DEF QueueInv
  <2> QED BY <1>1, <2>1, <2>2
<1> QED BY <1>1, <1>3, <1>4 DEF OrderInv

LEMMA KernelKeepsOrder == ASSUME TypeOK, OrderInv, RunKernel PROVE OrderInv'
BY DEF RunKernel, OrderInv, EngineInv, QueueInv, ItemInv, Closing, Enqueued, Front, End,
       Chain, engineVars, consumerVars, closeVars

LEMMA ConsumerKeepsOrder == ASSUME TypeOK, OrderInv, Consumer PROVE OrderInv'
<1>1. EngineInv' /\ Enqueued' = Enqueued /\ write' = write
  BY ConsumerFrame DEF OrderInv, EngineInv, Closing, Enqueued, engineVars, closeVars
<1>2. CASE TakeItem
  <2> DEFINE h == Head(queue)
  <2>1. /\ queue # <<>> /\ queue' = Tail(queue) /\ consumer = "get" /\ drain' = drain
        /\ item.kind = "none" /\ Front = drain
    BY <1>2 DEF TakeItem, ringVars, OrderInv, ItemInv, Front
  <2>2. /\ h = queue[1] /\ h \in QueueItems /\ Tail(queue) \in Seq(QueueItems)
        /\ Len(queue) \in Nat \ {0} /\ Len(Tail(queue)) = Len(queue) - 1
        /\ \A i \in 1 .. (Len(queue) - 1) : Tail(queue)[i] = queue[i + 1]
    BY <2>1, TailFacts DEF TypeOK, QueueType
  <2>3. /\ h.start = drain /\ End(h) <= Enqueued /\ Chain(queue', End(h), Enqueued)
        /\ drain <= End(h)
    BY <2>1, Numbers, ChainTail DEF OrderInv, QueueInv, TypeOK, QueueType
  <2>4. \A i \in 1 .. Len(queue') : queue'[i].kind = "stop" => queue'[i].n = 0
    BY <2>1, <2>2 DEF OrderInv, QueueInv
  <2> HIDE DEF h
  <2>5. CASE h.kind = "stop"
    <3>1. h.n = 0 /\ h.start \in Int
      BY <2>2, <2>5 DEF OrderInv, QueueInv, QueueItems
    <3>2. item' = item /\ consumer' = "exited" /\ Front' = End(h)
      BY <1>2, <2>1, <2>3, <2>5, <3>1 DEF TakeItem, h, Front, End
    <3> QED BY <1>1, <2>1, <2>3, <2>4, <3>2 DEF OrderInv, QueueInv, ItemInv
  <2>6. CASE h.kind = "step"
    <3>1. item' = h /\ consumer' = "lock" /\ Front' = End(h)
      BY <1>2, <2>3, <2>6 DEF TakeItem, h, Front, End
    <3> QED BY <1>1, <2>1, <2>3, <2>4, <2>6, <3>1 DEF OrderInv, QueueInv, ItemInv
  <2> QED BY <2>2, <2>5, <2>6 DEF QueueItems
<1>3. CASE FreeItem
  <2>1. /\ drain' = drain + item.n /\ item' = NoItem /\ queue' = queue
        /\ consumer = "advance"
    BY <1>3 DEF FreeItem
  <2>2. item.kind = "step" /\ item.start = drain /\ Front' = Front /\ drain' = Front
    BY <2>1, Numbers DEF OrderInv, ItemInv, Front, End, NoItem
  <2>3. consumer' \in {"get", "dead"} /\ drain <= drain'
    BY <1>3, Numbers DEF FreeItem
  <2> QED BY <1>1, <2>1, <2>2, <2>3, Numbers, NSlotsAssumption, SMTT(30) DEF OrderInv, QueueInv, ItemInv, NoItem
<1>4. CASE ~TakeItem /\ ~FreeItem
  <2>1. /\ UNCHANGED <<queue, item, drain>> /\ Front' = Front
        /\ consumer \in {"lock", "store"} /\ consumer' \in {"store", "advance", "dead"}
    BY <1>4 DEF Consumer, BeginItem, CopyFails, CommitItem, AbandonItem, CopyLayer,
                WriteLayer, WriteFails, ringVars, Front, End
  <2> QED BY <1>1, <2>1 DEF OrderInv, QueueInv, ItemInv
<1> QED BY <1>2, <1>3, <1>4

LEMMA CloserKeepsOrder == ASSUME TypeOK, OrderInv, Closer PROVE OrderInv'
<1>1. /\ UNCHANGED <<write, drain, stepRows, stepStart, need, consumer, item>>
      /\ Enqueued' = Enqueued /\ Front' = Front
  BY CloserFrame DEF ringVars, consumerVars, Enqueued, Front, End
<1>2. EngineInv'
  <2> USE <1>1 DEF OrderInv, EngineInv, Closing
  <2>1. CASE BeginFlush \/ BeginClose
    BY <2>1 DEF BeginFlush, BeginClose, AskStop
  <2>2. CASE JoinReturns \/ LockForClose \/ LockTimesOut
    BY <2>2 DEF JoinReturns, LockForClose, LockTimesOut, closeVars
  <2>3. closeCall.resume \in {"idle", "dead"}
    BY DEF TypeOK, CloseType
  <2>4. CASE StopReturns \/ SealFiles
    <3>1. closeCall' = closeCall /\ engine \in {"stopped", "sealing"}
          /\ engine' \in {closeCall.resume, "closing"}
      BY <2>4 DEF StopReturns, SealFiles
    <3> QED BY <2>3, <3>1
  <2> QED BY <2>1, <2>2, <2>4 DEF Closer
<1>3. ItemInv'
  BY <1>1 DEF OrderInv, ItemInv
<1>4. QueueInv'
  <2>1. queue' = queue \/ queue' = Append(queue, StopItem)
    BY DEF Closer, BeginFlush, BeginClose, AskStop, JoinReturns, StopReturns,
           LockForClose, LockTimesOut, SealFiles
  <2>2. CASE queue' = queue
    BY <1>1, <2>2 DEF OrderInv, QueueInv
  <2>3. CASE queue' = Append(queue, StopItem)
    <3>1. /\ StopItem \in QueueItems /\ StopItem.start = Enqueued /\ StopItem.n = 0
          /\ End(StopItem) = Enqueued
      BY Numbers DEF StopItem, QueueItems, End
    <3>2. queue \in Seq(QueueItems)
      BY DEF TypeOK, QueueType
    <3>3. Chain(Append(queue, StopItem), Front, Enqueued)
      BY <3>1, <3>2, Numbers, ChainAppend DEF OrderInv, QueueInv, ItemInv
    <3>4. \A i \in 1 .. Len(queue') : queue'[i].kind = "stop" => queue'[i].n = 0
      BY <2>3, <3>1, <3>2, AppendProperties, LenProperties DEF OrderInv, QueueInv
    <3> QED BY <1>1, <2>3, <3>3, <3>4 DEF QueueInv
  <2> QED BY <2>1, <2>2, <2>3
<1> QED BY <1>2, <1>3, <1>4 DEF OrderInv

LEMMA OrderStep == TypeOK /\ OrderInv /\ [Next]_vars => OrderInv'
<1>1. ASSUME OrderInv, UNCHANGED vars PROVE OrderInv'
  BY <1>1 DEF vars, ringVars, engineVars, consumerVars, closeVars, OrderInv, EngineInv,
              QueueInv, ItemInv, Closing, Enqueued, Front, End, Chain
<1> QED BY <1>1, EngineKeepsOrder, KernelKeepsOrder, ConsumerKeepsOrder, CloserKeepsOrder
        DEF Next

LEMMA OrderInit == Init => OrderInv
BY NSlotsAssumption DEF Init, OrderInv, EngineInv, QueueInv, ItemInv, Closing, Enqueued, Front, End,
       Chain, NoItem, NoRow

\* The cursors never pass or lap one another and steps are drained in the order
\* they were enqueued, for every ring size, interleaving, failure and time-out:
\* the assertions of advance_drain and _drain_item_fast cannot fail.
THEOREM DrainsInOrder == Spec => []StepsDrainInOrder
<1>1. TypeOK /\ OrderInv => StepsDrainInOrder
  <2> SUFFICES ASSUME TypeOK, OrderInv PROVE StepsDrainInOrder
    OBVIOUS
  <2>1. drain <= Front /\ Enqueued <= write
    BY Numbers, SMTT(30) DEF OrderInv, ItemInv, EngineInv, Front, End, Enqueued
  <2> QED BY <2>1, Numbers DEF OrderInv, ItemInv, StepsDrainInOrder, Front, End
<1> QED BY <1>1, TypeCorrect, OrderInit, OrderStep, PTL DEF Spec

-----------------------------------------------------------------------------
(* The ring: what the kernels still to run will write, and what must stay. *)

RingInv == KernelInv /\ PendingRowsIntact

\* An enqueued row is in the kernel that was launched with it, or scattered.
LEMMA RowsLeft ==
  ASSUME NEW k \in Kernels, NEW l \in Int
  PROVE  l \in RowsFrom(k.start, k.n) <=> k.n > 0 /\ k.start <= l /\ l < End(k)
BY DEF Kernels, RowsFrom, End

LEMMA EngineKeepsRing == ASSUME TypeOK, OrderInv, RingInv, Engine PROVE RingInv'
<1>1. /\ UNCHANGED <<drain, slot, consumer, item, copied>> /\ Front' = Front
      /\ EnqueuesNothing \/ EnqueuesStep
  BY EngineFrame, EngineMoves DEF consumerVars, Front, End
<1>2. /\ queue \in Seq(QueueItems) /\ gpu \in Seq(Kernels)
      /\ \A i \in 1 .. Len(gpu) : KernelFits(gpu[i])
  BY DEF TypeOK, QueueType, RingType, RingInv, KernelInv
<1>3. drain <= Front /\ Front <= Enqueued /\ drain \in Nat
  BY Numbers, SMTT(30) DEF OrderInv, ItemInv, Front, End
<1>4. CASE EnqueuesNothing
  <2>1. \A k : KernelFits(k) => KernelFits(k)'
    BY <1>1, <1>4 DEF EnqueuesNothing, KernelFits, Apart
  <2>2. CASE gpu' = gpu
    BY <1>1, <1>2, <1>4, <2>1, <2>2
       DEF EnqueuesNothing, RingInv, KernelInv, PendingRowsIntact, Scattered
  <2>3. CASE DummyPasses /\ gpu' = Append(gpu, DummyKernel)
    <3>1. DummyKernel \in Kernels /\ DummyKernel.n = 0
      BY DEF DummyKernel, Kernel, Kernels, NoRow
    <3>2. /\ Len(gpu') = Len(gpu) + 1 /\ Len(gpu) \in Nat
          /\ \A i \in 1 .. Len(gpu) : gpu'[i] = gpu[i]
          /\ gpu'[Len(gpu) + 1] = DummyKernel
      BY <1>2, <2>3, <3>1, AppendProperties, LenProperties
    <3>3. KernelFits(DummyKernel)'
      BY <2>3, <3>1 DEF KernelFits
    <3>4. KernelInv'
      BY <1>2, <2>1, <3>2, <3>3 DEF KernelInv
    <3>5. \A l : Scattered(l)' => Scattered(l)
      BY <3>2 DEF Scattered
    <3>6. PendingRowsIntact'
      BY <1>1, <1>4, <3>5 DEF RingInv, PendingRowsIntact, EnqueuesNothing
    <3> QED BY <3>4, <3>6 DEF RingInv
  <2> QED BY <1>4, <2>2, <2>3 DEF EnqueuesNothing
<1>5. CASE EnqueuesStep
  <2> DEFINE nk == Kernel(Enqueued, stepRows)
             it == StepItem(Enqueued, stepRows)
  <2>1. /\ nk \in Kernels /\ nk.start = Enqueued /\ nk.n = stepRows /\ End(nk) = Enqueued'
        /\ it \in QueueItems /\ it.start = Enqueued
        /\ Enqueued' = Enqueued + stepRows /\ stepRows \in Nat \ {0} /\ Enqueued \in Int
        /\ queue' = Append(queue, it) /\ gpu' = Append(gpu, nk)
    BY <1>5, Numbers DEF EnqueuesStep, Kernel, Kernels, StepItem, QueueItems, End
  <2> HIDE DEF nk, it
  <2>2. /\ Len(gpu') = Len(gpu) + 1 /\ Len(gpu) \in Nat
        /\ \A i \in 1 .. Len(gpu) : gpu'[i] = gpu[i]
        /\ gpu'[Len(gpu) + 1] = nk
    BY <1>2, <2>1, AppendProperties, LenProperties
  <2>3. /\ Len(queue') = Len(queue) + 1 /\ Len(queue) \in Nat
        /\ \A j \in 1 .. Len(queue) : queue'[j] = queue[j]
        /\ queue'[Len(queue) + 1] = it
    BY <1>2, <2>1, AppendProperties, LenProperties
  <2>4. ASSUME NEW k \in Kernels, KernelFits(k) PROVE KernelFits(k)'
    <3>1. k.start \in Int /\ k.n \in Nat
      BY DEF Kernels
    <3>2. CASE k.n = 0
      BY <2>4, <3>2 DEF KernelFits
    <3>3. CASE k.n > 0
      <4>1. k.start < Enqueued /\ End(k) <= Enqueued'
        BY <2>1, <2>4, <3>1, <3>3 DEF KernelFits, End
      <4>2. \A j \in 1 .. Len(queue') : Apart(k, queue'[j])
        <5> TAKE j \in 1 .. Len(queue')
        <5>1. CASE j = Len(queue) + 1
          BY <2>1, <2>3, <3>1, <4>1, <5>1 DEF Apart
        <5>2. CASE j \in 1 .. Len(queue)
          BY <2>3, <2>4, <3>3, <5>2 DEF KernelFits, Apart
        <5> QED BY <2>3, <5>1, <5>2
      <4> QED BY <1>1, <2>4, <3>3, <4>1, <4>2 DEF KernelFits, Apart
    <3> QED BY <3>1, <3>2, <3>3
  <2>5. ASSUME NEW k, k = nk PROVE KernelFits(k)'
    <3>1. drain' <= k.start /\ End(k) <= Enqueued' /\ Front <= k.start
      BY <1>1, <1>3, <2>1, <2>5, Numbers
    <3>2. item.kind = "step" => Apart(k, item)
      BY <1>3, <2>1, <2>5 DEF Apart, Front
    <3>3. \A j \in 1 .. Len(queue') : Apart(k, queue'[j])
      <4> TAKE j \in 1 .. Len(queue')
      <4>1. CASE j = Len(queue) + 1
        BY <2>1, <2>3, <2>5, <4>1 DEF Apart
      <4>2. CASE j \in 1 .. Len(queue)
        BY <2>1, <2>3, <2>5, <4>2 DEF OrderInv, QueueInv, Chain, Apart
      <4> QED BY <2>3, <4>1, <4>2
    <3>4. k.n > 0
      BY <2>1, <2>5
    <3> QED BY <1>1, <3>1, <3>2, <3>3, <3>4 DEF KernelFits, Apart
  <2>6. KernelInv'
    <3>1. ASSUME NEW i \in 1 .. Len(gpu'), NEW k, k = gpu'[i] PROVE KernelFits(k)'
      <4>1. CASE i = Len(gpu) + 1
        BY <2>2, <2>5, <3>1, <4>1
      <4>2. CASE i \in 1 .. Len(gpu)
        <5>1. k = gpu[i] /\ k \in Kernels /\ KernelFits(k)
          BY <1>2, <2>2, <3>1, <4>2, Numbers
        <5> QED BY <2>4, <5>1
      <4> QED BY <2>2, <4>1, <4>2
    <3> QED BY <3>1 DEF KernelInv, KernelFits
  <2>7. PendingRowsIntact'
    <3> SUFFICES ASSUME NEW l \in drain .. (Enqueued' - 1), Scattered(l)'
                 PROVE  slot[PhysicalSlot(l)] = l \/ Exempt(l)
      BY <1>1 DEF PendingRowsIntact
    <3>1. Scattered(l)
      BY <2>2 DEF Scattered
    <3>2. l \notin RowsFrom(nk.start, nk.n)
      BY <2>2 DEF Scattered
    <3>3. l \in drain .. (Enqueued - 1)
      BY <1>3, <2>1, <3>2, RowsLeft
    <3> QED BY <3>1, <3>3 DEF RingInv, PendingRowsIntact
  <2> QED BY <2>6, <2>7 DEF RingInv
<1> QED BY <1>1, <1>4, <1>5

\* A kernel writes the slots of its own rows; another row that is still pending
\* lives in another slot.
LEMMA ScatterKeepsOthers ==
  ASSUME TypeOK, OrderInv, NEW k \in Kernels, k.n > 0, drain <= k.start,
         End(k) <= Enqueued, NEW l \in drain .. (Enqueued - 1)
  PROVE  Scatter(k)[PhysicalSlot(l)]
           = IF l \in RowsFrom(k.start, k.n) THEN l ELSE slot[PhysicalSlot(l)]
<1> DEFINE R == RowsFrom(k.start, k.n)
<1>1. /\ drain \in Nat /\ Enqueued \in Int /\ Enqueued <= drain + NSlots
      /\ k.start \in Int /\ k.n \in Nat
  BY Numbers, NSlotsAssumption, SMTT(30) DEF OrderInv, ItemInv, EngineInv, Enqueued, Kernels
<1>2. \A r \in R : r \in Nat /\ drain <= r /\ r < drain + NSlots
  BY <1>1, NSlotsAssumption DEF RowsFrom, End
<1>3. l \in Nat /\ drain <= l /\ l < drain + NSlots
  BY <1>1, NSlotsAssumption
<1>4. \A r \in R : PhysicalSlot(r) = PhysicalSlot(l) => r = l
  BY <1>1, <1>2, <1>3, SlotsInjective
<1>5. PhysicalSlot(l) \in Slots
  BY <1>3, PhysicalSlotType
<1> HIDE DEF R
<1>6. Scatter(k)[PhysicalSlot(l)]
        = IF \E r \in R : PhysicalSlot(r) = PhysicalSlot(l)
          THEN CHOOSE r \in R : PhysicalSlot(r) = PhysicalSlot(l)
          ELSE slot[PhysicalSlot(l)]
  BY <1>1, <1>5 DEF Scatter, R
<1>7. CASE l \in R
  <2> DEFINE c == CHOOSE r \in R : PhysicalSlot(r) = PhysicalSlot(l)
  <2>1. c \in R /\ PhysicalSlot(c) = PhysicalSlot(l)
    BY <1>7
  <2>2. c = l
    BY <1>4, <2>1
  <2> QED BY <1>6, <1>7, <2>2 DEF R
<1>8. CASE l \notin R
  BY <1>4, <1>6, <1>8 DEF R
<1> QED BY <1>7, <1>8

LEMMA KernelKeepsRing == ASSUME TypeOK, OrderInv, RingInv, RunKernel PROVE RingInv'
<1> DEFINE h == Head(gpu)
<1>1. /\ gpu # <<>> /\ gpu' = Tail(gpu) /\ slot' = Scatter(h)
      /\ UNCHANGED <<drain, queue, consumer, item, copied>>
      /\ Enqueued' = Enqueued /\ Front' = Front
  BY DEF RunKernel, engineVars, consumerVars, Enqueued, Front, End
<1>2. /\ h = gpu[1] /\ h \in Kernels
      /\ Len(gpu) \in Nat \ {0} /\ Len(gpu') = Len(gpu) - 1
      /\ \A i \in 1 .. (Len(gpu) - 1) : gpu'[i] = gpu[i + 1]
  BY <1>1, TailFacts DEF TypeOK, RingType
<1>3. KernelFits(h) /\ drain \in Nat /\ slot \in [Slots -> Int]
  BY <1>2 DEF RingInv, KernelInv, TypeOK, RingType
<1> HIDE DEF h
<1>4. KernelInv'
  <2>1. \A k : KernelFits(k) => KernelFits(k)'
    BY <1>1 DEF KernelFits, Apart
  <2>2. ASSUME NEW i \in 1 .. Len(gpu'), NEW k, k = gpu'[i] PROVE KernelFits(k)'
    <3>1. i + 1 \in 1 .. Len(gpu) /\ k = gpu[i + 1]
      BY <1>2, <2>2
    <3> QED BY <2>1, <3>1 DEF RingInv, KernelInv
  <2> QED BY <2>2 DEF KernelInv, KernelFits
<1>5. ASSUME NEW l \in drain .. (Enqueued - 1), Scattered(l)'
      PROVE  slot'[PhysicalSlot(l)] = l \/ Exempt(l)
  <2>1. l \notin RowsFrom(h.start, h.n) => Scattered(l)
    <3> SUFFICES ASSUME l \notin RowsFrom(h.start, h.n), NEW i \in 1 .. Len(gpu)
                 PROVE  l \notin RowsFrom(gpu[i].start, gpu[i].n)
      BY DEF Scattered
    <3>1. CASE i = 1
      BY <1>2, <3>1
    <3>2. CASE i # 1
      <4>1. i - 1 \in 1 .. Len(gpu') /\ gpu'[i - 1] = gpu[i]
        BY <1>2, <3>2
      <4> QED BY <1>5, <4>1 DEF Scattered
    <3> QED BY <3>1, <3>2
  <2>2. CASE h.n = 0
    <3>1. h.n = 0 => RowsFrom(h.start, h.n) = {}
      BY <1>2 DEF RowsFrom, Kernels
    <3>2. slot[PhysicalSlot(l)] = l \/ Exempt(l)
      BY <2>1, <2>2, <3>1 DEF RingInv, PendingRowsIntact
    <3>3. PhysicalSlot(l) \in Slots
      BY <1>3, Numbers, PhysicalSlotType
    <3>4. CASE PhysicalSlot(l) = StaleViewSlot
      BY <1>3, <2>2, <3>4 DEF KernelFits, Exempt
    <3>5. CASE PhysicalSlot(l) # StaleViewSlot
      BY <1>1, <1>3, <2>2, <3>2, <3>3, <3>5 DEF Scatter
    <3> QED BY <3>4, <3>5
  <2>3. CASE h.n > 0
    BY <1>1, <1>2, <1>3, <2>1, <2>3, ScatterKeepsOthers
       DEF KernelFits, RingInv, PendingRowsIntact
  <2> QED BY <1>2, <2>2, <2>3 DEF Kernels
<1>6. PendingRowsIntact'
  BY <1>1, <1>5 DEF PendingRowsIntact
<1> QED BY <1>4, <1>6 DEF RingInv

\* Once the event of the held step has fired, or a layer of it was copied, no
\* kernel to run touches rows below Front.
LEMMA HeldRowsScattered ==
  ASSUME TypeOK, OrderInv, RingInv, consumer \in {"store", "advance"},
         EventFired(item) \/ copied # {},
         NEW i \in 1 .. Len(gpu), gpu[i].n > 0
  PROVE  Front <= gpu[i].start
<1>1. KernelFits(gpu[i]) /\ gpu[i].start \in Int
  BY Numbers DEF RingInv, KernelInv
<1>2. item.kind = "step" /\ item.start = drain /\ Front = End(item)
  BY DEF OrderInv, ItemInv, Front
<1> QED BY <1>1, <1>2, Numbers DEF KernelFits, Apart, EventFired

LEMMA ConsumerKeepsRing ==
  ASSUME TypeOK, OrderInv, RingInv, StoreInv, Consumer PROVE RingInv'
<1>1. UNCHANGED <<slot, gpu, write>> /\ Enqueued' = Enqueued
  BY ConsumerFrame DEF engineVars, Enqueued
<1>2. drain <= drain' /\ drain' \in Nat /\ drain \in Nat
  <2>1. CASE FreeItem
    BY <2>1, Numbers DEF FreeItem
  <2>2. CASE ~FreeItem
    <3>1. drain' = drain
      BY <2>2 DEF Consumer, TakeItem, BeginItem, CopyFails, CommitItem, AbandonItem,
                  CopyLayer, WriteLayer, WriteFails, ringVars
    <3> QED BY <3>1, Numbers
  <2> QED BY <2>1, <2>2
<1>3. PendingRowsIntact'
  <2>1. \A l : l \in drain' .. (Enqueued - 1) => l \in drain .. (Enqueued - 1)
    BY <1>2, Numbers
  <2>2. \A l : Scattered(l)' <=> Scattered(l)
    BY <1>1 DEF Scattered
  <2> QED BY <1>1, <2>1, <2>2 DEF RingInv, PendingRowsIntact
<1>4. ASSUME NEW k \in Kernels, KernelFits(k), k.n > 0,
             EventFired(item) /\ consumer = "store" => k.start # item.start
      PROVE  KernelFits(k)'
  <2>1. CASE TakeItem
    <3>1. /\ queue \in Seq(QueueItems) /\ queue # <<>> /\ queue' = Tail(queue)
          /\ UNCHANGED <<drain, copied>> /\ consumer' \in {"exited", "lock", "dead"}
          /\ item' = item \/ item' = Head(queue)
      BY <2>1 DEF TakeItem, TypeOK, QueueType, ringVars
    <3>2. /\ Head(queue) = queue[1]
          /\ Len(queue) \in Nat \ {0} /\ Len(queue') = Len(queue) - 1
          /\ \A i \in 1 .. (Len(queue) - 1) : queue'[i] = queue[i + 1]
      BY <3>1, TailFacts
    <3>3. \A j \in 1 .. Len(queue) : Apart(k, queue[j])
      BY <1>4 DEF KernelFits
    <3>4. \A j \in 1 .. Len(queue') : Apart(k, queue'[j])
      BY <3>2, <3>3
    <3>5. item'.kind = "step" => Apart(k, item')
      BY <1>4, <3>1, <3>2, <3>3 DEF KernelFits
    <3> QED BY <1>1, <1>4, <3>1, <3>4, <3>5 DEF KernelFits, Apart
  <2>2. CASE FreeItem
    <3>1. /\ drain' = Front /\ item'.kind = "none" /\ consumer' \in {"get", "dead"}
          /\ UNCHANGED queue /\ Front <= k.start
      BY <1>4, <2>2, Numbers
         DEF FreeItem, OrderInv, ItemInv, StoreInv, Front, End, NoItem, KernelFits
    <3> QED BY <1>1, <1>4, <3>1 DEF KernelFits, Apart
  <2>3. CASE ~TakeItem /\ ~FreeItem
    <3>1. UNCHANGED <<drain, queue, item>> /\ Front' = Front
      BY <2>3 DEF Consumer, BeginItem, CopyFails, CommitItem, AbandonItem, CopyLayer,
                  WriteLayer, WriteFails, ringVars, Front, End
    <3>2. ASSUME consumer' \in {"store", "advance"}, copied' # {}
          PROVE  Front <= k.start
      <4>1. CASE copied' = copied
        BY <1>4, <2>3, <3>2, <4>1
           DEF Consumer, BeginItem, CopyFails, CommitItem, AbandonItem, CopyLayer,
               WriteLayer, WriteFails, KernelFits
      <4>2. CASE copied' # copied
        <5>1. consumer = "store" /\ EventFired(item)
          BY <2>3, <3>2, <4>2
             DEF Consumer, BeginItem, CopyFails, CommitItem, AbandonItem, CopyLayer,
                 WriteLayer, WriteFails
        <5>2. item.kind = "step" /\ item.start = drain /\ Front = End(item)
          BY <5>1 DEF OrderInv, ItemInv, Front
        <5> QED BY <1>2, <1>4, <5>1, <5>2 DEF KernelFits, Apart, Kernels
      <4> QED BY <4>1, <4>2
    <3> QED BY <1>1, <1>4, <3>1, <3>2 DEF KernelFits, Apart
  <2> QED BY <2>1, <2>2, <2>3
<1>5. KernelInv'
  <2>1. ASSUME NEW i \in 1 .. Len(gpu'), NEW k, k = gpu'[i] PROVE KernelFits(k)'
    <3>1. /\ i \in 1 .. Len(gpu) /\ k = gpu[i] /\ k \in Kernels /\ KernelFits(k)
      BY <1>1, <2>1, Numbers DEF RingInv, KernelInv
    <3>2. EventFired(item) => k.start # item.start
      BY <3>1 DEF EventFired
    <3>3. CASE k.n > 0
      BY <1>4, <3>1, <3>2, <3>3
    <3>4. CASE k.n = 0
      BY <3>1, <3>4 DEF KernelFits
    <3> QED BY <3>1, <3>3, <3>4 DEF Kernels
  <2> QED BY <2>1 DEF KernelInv, KernelFits
<1> QED BY <1>3, <1>5 DEF RingInv

LEMMA CloserKeepsRing == ASSUME TypeOK, OrderInv, RingInv, Closer PROVE RingInv'
<1>1. /\ UNCHANGED <<drain, slot, gpu, consumer, item, copied>>
      /\ Enqueued' = Enqueued /\ Front' = Front
  BY CloserFrame DEF ringVars, consumerVars, Enqueued, Front, End
<1>2. PendingRowsIntact'
  BY <1>1 DEF RingInv, PendingRowsIntact, Scattered
<1>3. ASSUME NEW k \in Kernels, KernelFits(k) PROVE KernelFits(k)'
  <2>1. queue' = queue \/ queue' = Append(queue, StopItem)
    BY DEF Closer, BeginFlush, BeginClose, AskStop, JoinReturns, StopReturns,
           LockForClose, LockTimesOut, SealFiles
  <2>2. CASE queue' = queue
    BY <1>1, <1>3, <2>2 DEF KernelFits, Apart
  <2>3. CASE queue' = Append(queue, StopItem) /\ k.n > 0
    <3>1. StopItem \in QueueItems /\ StopItem.start = Enqueued
      BY Numbers DEF StopItem, QueueItems
    <3>2. /\ Len(queue') = Len(queue) + 1 /\ Len(queue) \in Nat
          /\ \A j \in 1 .. Len(queue) : queue'[j] = queue[j]
          /\ queue'[Len(queue) + 1] = StopItem
      BY <2>3, <3>1, AppendProperties, LenProperties DEF TypeOK, QueueType
    <3>3. k.start <= Enqueued
      BY <1>3, <2>3, Numbers DEF KernelFits, End, Kernels
    <3>4. \A j \in 1 .. Len(queue') : Apart(k, queue'[j])
      <4> TAKE j \in 1 .. Len(queue')
      <4>1. CASE j = Len(queue) + 1
        BY <3>1, <3>2, <3>3, <4>1 DEF Apart
      <4>2. CASE j \in 1 .. Len(queue)
        BY <1>3, <2>3, <3>2, <4>2 DEF KernelFits, Apart
      <4> QED BY <3>2, <4>1, <4>2
    <3> QED BY <1>1, <1>3, <2>3, <3>4 DEF KernelFits, Apart
  <2>4. CASE k.n = 0
    BY <1>3, <2>4 DEF KernelFits
  <2> QED BY <2>1, <2>2, <2>3, <2>4 DEF Kernels
<1>4. KernelInv'
  <2>1. ASSUME NEW i \in 1 .. Len(gpu'), NEW k, k = gpu'[i] PROVE KernelFits(k)'
    BY <1>1, <1>3, <2>1, Numbers DEF RingInv, KernelInv
  <2> QED BY <2>1 DEF KernelInv, KernelFits
<1> QED BY <1>2, <1>4 DEF RingInv

LEMMA RingStep == TypeOK /\ OrderInv /\ RingInv /\ StoreInv /\ [Next]_vars => RingInv'
<1>1. ASSUME RingInv, UNCHANGED vars PROVE RingInv'
  BY <1>1 DEF vars, ringVars, engineVars, consumerVars, RingInv, KernelInv, KernelFits,
              PendingRowsIntact, Scattered, Enqueued, Front, End, Apart
<1> QED BY <1>1, EngineKeepsRing, KernelKeepsRing, ConsumerKeepsRing, CloserKeepsRing
        DEF Next

-----------------------------------------------------------------------------
(* The files: what the held step has stored, and what the sidecar names.   *)

LEMMA DiskTypes ==
  ASSUME TypeOK
  PROVE  /\ cursor \in Nat /\ fileRows \in Nat
         /\ \A L \in Layers : /\ file[L] \in Seq(Int) /\ Len(file[L]) \in Nat
                              /\ host[L] \in Seq(Int) /\ Len(host[L]) \in Nat
         /\ Len(blocks) \in Nat
         /\ \A i \in 1 .. Len(blocks) : /\ blocks[i] \in SidecarBlocks
                                        /\ blocks[i].start \in Int /\ blocks[i].n \in Nat
                                        /\ blocks[i].cursor \in Nat
<1>1. ASSUME NEW i \in 1 .. Len(blocks) PROVE blocks[i] \in SidecarBlocks
  BY ElementOfSeq DEF TypeOK, DiskType
<1>2. ASSUME NEW i \in 1 .. Len(blocks)
      PROVE  blocks[i].start \in Int /\ blocks[i].n \in Nat /\ blocks[i].cursor \in Nat
  BY <1>1 DEF SidecarBlocks
<1> QED BY <1>1, <1>2, LenProperties DEF TypeOK, DiskType, ConsumerType

LEMMA OthersKeepFiles ==
  ASSUME StoreInv, SidecarNamesStoredRows,
         UNCHANGED <<consumerVars, diskVars>>
  PROVE  StoreInv' /\ SidecarNamesStoredRows'
BY DEF StoreInv, SidecarNamesStoredRows, StoredAt, consumerVars, diskVars

LEMMA CopyKeepsFiles ==
  ASSUME TypeOK, OrderInv, RingInv, StoreInv, NEW L \in Layers, CopyLayer(L)
  PROVE  StoreInv'
<1>1. /\ consumer = "store" /\ consumer' = "store" /\ EventFired(item)
      /\ UNCHANGED <<item, cursor, written, file, fileRows>> /\ copied' = copied \cup {L}
      /\ host' = [host EXCEPT ![L] =
                    [j \in 1 .. item.n |-> slot[PhysicalSlot(item.start + j - 1)]]]
  BY DEF CopyLayer, diskVars
<1>2. /\ item.start = drain /\ drain \in Nat /\ item.n \in Nat /\ Enqueued \in Int
      /\ drain + item.n <= Enqueued /\ Front = drain + item.n
  BY <1>1, Numbers DEF OrderInv, ItemInv, Front, End
<1>3. ASSUME NEW j \in 1 .. item.n
      PROVE  \/ slot[PhysicalSlot(item.start + j - 1)] = item.start + j - 1
             \/ Exempt(item.start + j - 1)
  <2> DEFINE l == item.start + j - 1
  <2>1. l \in drain .. (Enqueued - 1) /\ l < Front
    BY <1>2
  <2> HIDE DEF l
  <2>2. \A i \in 1 .. Len(gpu) : l \notin RowsFrom(gpu[i].start, gpu[i].n)
    <3> TAKE i \in 1 .. Len(gpu)
    <3>1. gpu[i] \in Kernels /\ gpu[i].start \in Int /\ gpu[i].n \in Nat
      BY Numbers
    <3>2. gpu[i].n > 0 => Front <= gpu[i].start
      BY <1>1, HeldRowsScattered
    <3>3. l \in Int /\ (gpu[i].n > 0 => l < gpu[i].start)
      BY <1>2, <2>1, <3>1, <3>2
    <3> QED BY <3>1, <3>3 DEF RowsFrom
  <2>3. slot[PhysicalSlot(l)] = l \/ Exempt(l)
    BY <2>1, <2>2 DEF RingInv, PendingRowsIntact, Scattered
  <2> QED BY <2>3 DEF l
<1> DEFINE buf == [j \in 1 .. item.n |-> slot[PhysicalSlot(item.start + j - 1)]]
<1>4. /\ Len(buf) = item.n
      /\ \A j \in 1 .. item.n : buf[j] = item.start + j - 1 \/ Exempt(item.start + j - 1)
  BY <1>2, <1>3
<1> HIDE DEF buf
<1>5. /\ host'[L] = buf
      /\ \A M \in Layers : M # L => host'[M] = host[M]
  BY <1>1 DEF buf, TypeOK, ConsumerType
<1>6. ASSUME NEW M \in copied'
      PROVE  /\ Len(host'[M]) = item.n
             /\ \A j \in 1 .. item.n : \/ host'[M][j] = item.start + j - 1
                                      \/ Exempt(item.start + j - 1)
  <2>1. CASE M = L
    BY <1>4, <1>5, <2>1
  <2>2. CASE M # L
    <3>1. M \in copied /\ M \in Layers /\ host'[M] = host[M]
      BY <1>1, <1>5, <1>6, <2>2 DEF TypeOK, ConsumerType
    <3> QED BY <1>1, <3>1 DEF StoreInv
  <2> QED BY <2>1, <2>2
<1>7. written' \subseteq copied' /\ fileRows' = cursor' + item'.n
  <2>1. written \subseteq copied /\ fileRows = cursor + item.n
    BY <1>1 DEF StoreInv
  <2>2. /\ written' = written /\ fileRows' = fileRows /\ cursor' = cursor
        /\ item' = item /\ copied \subseteq copied'
    BY <1>1
  <2> HIDE DEF StoreInv
  <2> QED BY <2>1, <2>2
<1>8. \A M \in Layers : Len(file'[M]) = IF M \in written' THEN fileRows' ELSE cursor'
  BY <1>1 DEF StoreInv
<1>9. \A M \in written' : \A j \in 1 .. item'.n :
        StoredAt(M, cursor + j, item.start + j - 1)'
  BY <1>1 DEF StoreInv, StoredAt
<1> QED BY <1>1, <1>6, <1>7, <1>8, <1>9, ZenonT(40) DEF StoreInv

\* A layer's append adds the step's rows and leaves the rows before them.
LEMMA WriteExtends ==
  ASSUME TypeOK, StoreInv, NEW L \in Layers, WriteLayer(L)
  PROVE  /\ \A M \in Layers : M # L => file'[M] = file[M]
         /\ Len(file[L]) = cursor /\ Len(file'[L]) = cursor + item.n
         /\ \A p \in 1 .. Len(file[L]) : file'[L][p] = file[L][p]
         /\ \A j \in 1 .. item.n : file'[L][cursor + j] = host[L][j]
<1>1. /\ consumer = "store" /\ L \in copied /\ L \notin written
      /\ file' = [file EXCEPT ![L] = file[L] \o host[L]]
  BY DEF WriteLayer
<1>2. /\ Len(file[L]) = cursor /\ Len(host[L]) = item.n
      /\ cursor \in Nat /\ item.n \in Nat
      /\ file[L] \in Seq(Int) /\ host[L] \in Seq(Int)
  BY <1>1, DiskTypes, Numbers DEF StoreInv
<1>3. file'[L] = file[L] \o host[L] /\ \A M \in Layers : M # L => file'[M] = file[M]
  BY <1>1 DEF TypeOK, DiskType
<1>4. /\ Len(file[L] \o host[L]) = cursor + item.n
      /\ \A i \in 1 .. (cursor + item.n) :
           (file[L] \o host[L])[i] = IF i <= cursor THEN file[L][i] ELSE host[L][i - cursor]
  <2>1. /\ Len(file[L] \o host[L]) = Len(file[L]) + Len(host[L])
        /\ \A i \in 1 .. Len(file[L]) + Len(host[L]) :
             (file[L] \o host[L])[i]
               = IF i <= Len(file[L]) THEN file[L][i] ELSE host[L][i - Len(file[L])]
    BY <1>2, ConcatProperties
  <2> QED BY <1>2, <2>1
<1>5. \A j \in 1 .. item.n : /\ cursor + j \in 1 .. (cursor + item.n) /\ ~(cursor + j <= cursor)
                            /\ (cursor + j) - cursor = j
  BY <1>2
<1>6. \A p \in 1 .. Len(file[L]) : p \in 1 .. (cursor + item.n) /\ p <= cursor
  BY <1>2
<1>7. \A p \in 1 .. Len(file[L]) : file'[L][p] = file[L][p]
  BY <1>3, <1>4, <1>6
<1>8. \A j \in 1 .. item.n : file'[L][cursor + j] = host[L][j]
  BY <1>3, <1>4, <1>5
<1> QED BY <1>2, <1>3, <1>4, <1>7, <1>8

LEMMA WriteKeepsFiles ==
  ASSUME TypeOK, OrderInv, StoreInv, SidecarNamesStoredRows,
         NEW L \in Layers, WriteLayer(L)
  PROVE  StoreInv' /\ SidecarNamesStoredRows'
<1>1. /\ consumer = "store" /\ consumer' = "store" /\ L \in copied /\ L \notin written
      /\ UNCHANGED <<item, cursor, copied, host, fileRows, blocks>>
      /\ written' = written \cup {L}
  BY DEF WriteLayer
<1>2. /\ fileRows = cursor + item.n /\ cursor \in Nat /\ item.n \in Nat
      /\ item.start \in Int
  BY <1>1, DiskTypes, Numbers DEF StoreInv
<1>3. ASSUME NEW M \in Layers, NEW pos \in Nat \ {0}, NEW l \in Int, StoredAt(M, pos, l)
      PROVE  StoredAt(M, pos, l)'
  <2>1. Len(file[M]) \in Nat
    BY DiskTypes
  <2>2. CASE M = L
    <3>1. pos \in 1 .. Len(file[L]) /\ Len(file[L]) <= Len(file'[L])
          /\ Len(file'[L]) \in Nat
      BY <1>2, <1>3, <2>1, <2>2, WriteExtends DEF StoredAt
    <3>2. file'[L][pos] = file[L][pos] /\ pos <= Len(file'[L])
      BY <1>2, <3>1, WriteExtends
    <3> QED BY <1>3, <2>2, <3>2 DEF StoredAt
  <2>3. CASE M # L
    BY <1>3, <2>3, WriteExtends DEF StoredAt
  <2> QED BY <2>2, <2>3
<1>4. ASSUME NEW j \in 1 .. item.n
      PROVE  StoredAt(L, cursor + j, item.start + j - 1)'
  <2>1. /\ file'[L][cursor + j] = host[L][j] /\ Len(file'[L]) = cursor + item.n
    BY WriteExtends
  <2>2. host[L][j] = item.start + j - 1 \/ Exempt(item.start + j - 1)
    BY <1>1 DEF StoreInv
  <2>3. cursor + j <= cursor + item.n
    BY <1>2
  <2> QED BY <1>1, <2>1, <2>2, <2>3 DEF StoredAt
<1>5. \A M \in Layers : Len(file'[M]) = IF M \in written' THEN fileRows ELSE cursor
  <2> TAKE M \in Layers
  <2>1. CASE M = L
    BY <1>1, <1>2, <2>1, WriteExtends
  <2>2. CASE M # L
    BY <1>1, <2>2, WriteExtends DEF StoreInv
  <2> QED BY <2>1, <2>2
<1>6. ASSUME NEW M \in written', NEW j \in 1 .. item.n
      PROVE  StoredAt(M, cursor + j, item.start + j - 1)'
  <2>1. CASE M = L
    BY <1>4, <2>1
  <2>2. CASE M # L
    <3>1. M \in written /\ M \in Layers
      BY <1>1, <1>6, <2>2 DEF TypeOK, ConsumerType
    <3>2. StoredAt(M, cursor + j, item.start + j - 1)
      BY <1>1, <3>1 DEF StoreInv
    <3>3. cursor + j \in Nat \ {0} /\ item.start + j - 1 \in Int
      BY <1>2
    <3> QED BY <1>1, <1>3, <3>1, <3>2, <3>3 DEF StoredAt
  <2> QED BY <2>1, <2>2
<1>7. StoreInv'
  BY <1>1, <1>2, <1>5, <1>6 DEF StoreInv, StoredAt
<1>8. SidecarNamesStoredRows'
  <2> SUFFICES ASSUME NEW i \in 1 .. Len(blocks), NEW M \in Layers,
                      NEW j \in 1 .. blocks[i].n
               PROVE  StoredAt(M, blocks[i].cursor + j, blocks[i].start + j - 1)'
    BY <1>1 DEF SidecarNamesStoredRows, StoredAt
  <2>1. /\ blocks[i].start \in Int /\ blocks[i].n \in Nat /\ blocks[i].cursor \in Nat
    BY DiskTypes
  <2>2. blocks[i].cursor + j \in Nat \ {0} /\ blocks[i].start + j - 1 \in Int
    BY <2>1
  <2>3. StoredAt(M, blocks[i].cursor + j, blocks[i].start + j - 1)
    BY DEF SidecarNamesStoredRows
  <2> QED BY <1>1, <1>3, <2>2, <2>3 DEF StoredAt
<1> QED BY <1>7, <1>8

LEMMA CommitKeepsFiles ==
  ASSUME TypeOK, OrderInv, StoreInv, SidecarNamesStoredRows, CommitItem
  PROVE  StoreInv' /\ SidecarNamesStoredRows'
<1> DEFINE b == [start |-> item.start, n |-> item.n, cursor |-> cursor]
<1>1. /\ consumer = "store" /\ consumer' = "advance" /\ written = Layers
      /\ blocks' = Append(blocks, b)
      /\ UNCHANGED <<item, cursor, copied, written, host, file, fileRows>>
  BY DEF CommitItem
<1>2. StoreInv'
  BY <1>1, ApertureDrainAssumption DEF StoreInv
<1>3. /\ b \in SidecarBlocks /\ b.start = item.start /\ b.n = item.n /\ b.cursor = cursor
  BY DiskTypes, Numbers DEF SidecarBlocks
<1> HIDE DEF b
<1>4. /\ Len(blocks') = Len(blocks) + 1 /\ Len(blocks) \in Nat
      /\ \A i \in 1 .. Len(blocks) : blocks'[i] = blocks[i]
      /\ blocks'[Len(blocks) + 1] = b
  BY <1>1, <1>3, AppendProperties, LenProperties DEF TypeOK, DiskType
<1>5. ASSUME NEW i \in 1 .. Len(blocks'), NEW M \in Layers, NEW j \in 1 .. blocks'[i].n
      PROVE  StoredAt(M, blocks'[i].cursor + j, blocks'[i].start + j - 1)
  <2>1. CASE i = Len(blocks) + 1
    BY <1>1, <1>3, <1>4, <1>5, <2>1 DEF StoreInv
  <2>2. CASE i \in 1 .. Len(blocks)
    BY <1>4, <1>5, <2>2 DEF SidecarNamesStoredRows
  <2> QED BY <1>4, <2>1, <2>2
<1>6. SidecarNamesStoredRows'
  BY <1>1, <1>5 DEF SidecarNamesStoredRows, StoredAt
<1> QED BY <1>2, <1>6

LEMMA ConsumerKeepsFiles ==
  ASSUME TypeOK, OrderInv, RingInv, StoreInv, SidecarNamesStoredRows, Consumer
  PROVE  StoreInv' /\ SidecarNamesStoredRows'
<1>1. CASE TakeItem
  <2>1. /\ consumer = "get" /\ consumer' \in {"exited", "lock", "dead"}
        /\ UNCHANGED <<cursor, copied, written, host, file, fileRows, blocks>>
    BY <1>1 DEF TakeItem, diskVars
  <2> QED BY <2>1 DEF StoreInv, SidecarNamesStoredRows, StoredAt
<1>2. CASE BeginItem
  <2>1. UNCHANGED <<file, blocks, item, host>> /\ consumer = "lock"
    BY <1>2 DEF BeginItem
  <2>2. CASE wpClosed
    <3>1. consumer' = "dead"
      BY <1>2, <2>2 DEF BeginItem
    <3> QED BY <2>1, <3>1 DEF StoreInv, SidecarNamesStoredRows, StoredAt
  <2>3. CASE ~wpClosed
    <3>1. /\ consumer' = "store" /\ cursor' = fileRows /\ fileRows' = fileRows + item.n
          /\ copied' = {} /\ written' = {}
      BY <1>2, <2>3 DEF BeginItem
    <3> QED BY <2>1, <3>1 DEF StoreInv, SidecarNamesStoredRows, StoredAt
  <2> QED BY <2>2, <2>3
<1>3. CASE CopyFails \/ \E L \in Layers : WriteFails(L)
  <2>1. UNCHANGED <<consumer, item, cursor, copied, written, host, file, fileRows, blocks>>
    BY <1>3 DEF CopyFails, WriteFails, diskVars
  <2> QED BY <2>1 DEF StoreInv, SidecarNamesStoredRows, StoredAt
<1>4. CASE AbandonItem
  <2>1. consumer' = "dead" /\ UNCHANGED <<file, blocks>>
    BY <1>4 DEF AbandonItem, diskVars
  <2> QED BY <2>1 DEF StoreInv, SidecarNamesStoredRows, StoredAt
<1>5. CASE FreeItem
  <2>1. /\ consumer = "advance" /\ consumer' \in {"get", "dead"}
        /\ UNCHANGED <<file, fileRows, blocks>>
    BY <1>5 DEF FreeItem, diskVars
  <2> QED BY <2>1 DEF StoreInv, SidecarNamesStoredRows, StoredAt
<1>6. ASSUME NEW L \in Layers, CopyLayer(L) PROVE StoreInv' /\ SidecarNamesStoredRows'
  <2>1. UNCHANGED <<file, blocks>>
    BY <1>6 DEF CopyLayer, diskVars
  <2> QED BY <1>6, <2>1, CopyKeepsFiles DEF SidecarNamesStoredRows, StoredAt
<1> QED BY <1>1, <1>2, <1>3, <1>4, <1>5, <1>6, WriteKeepsFiles, CommitKeepsFiles
        DEF Consumer

LEMMA FilesStep ==
  TypeOK /\ OrderInv /\ RingInv /\ StoreInv /\ SidecarNamesStoredRows /\ [Next]_vars
    => StoreInv' /\ SidecarNamesStoredRows'
<1>1. UNCHANGED vars => UNCHANGED <<consumerVars, diskVars>>
  BY DEF vars
<1> QED BY <1>1, OthersKeepFiles, EngineFrame, KernelFrame, CloserFrame,
           ConsumerKeepsFiles
        DEF Next

-----------------------------------------------------------------------------
LEMMA InvInit == Init => DrainInv
<1> SUFFICES ASSUME Init PROVE DrainInv
  OBVIOUS
<1>1. KernelInv /\ PendingRowsIntact /\ SidecarNamesStoredRows
  BY DEF Init, KernelInv, PendingRowsIntact, SidecarNamesStoredRows, Enqueued
<1>2. StoreInv /\ IoLockInv
  BY DEF Init, StoreInv, IoLockInv, Closing
<1> QED BY <1>1, <1>2, TypeInit, OrderInit DEF DrainInv, OrderInv

LEMMA InvStep == DrainInv /\ [Next]_vars => DrainInv'
BY TypeStep, OrderStep, RingStep, FilesStep, IoLockStep DEF DrainInv, OrderInv, RingInv

\* DrainInv is inductive.
THEOREM DrainInvAlways == Spec => []DrainInv
BY InvInit, InvStep, PTL DEF Spec

\* No captured row is overwritten before it is freed, whatever wraps and however
\* late a kernel runs, except in the slot of the dummy passes.
THEOREM PendingRowsKeep == Spec => []PendingRowsIntact
<1>1. DrainInv => PendingRowsIntact
  BY DEF DrainInv
<1> QED BY <1>1, DrainInvAlways, PTL

\* A committed sidecar block names rows every layer's file holds where the block
\* says, whatever fails and in whatever order the layers are written.
THEOREM SidecarIsTrue == Spec => []SidecarNamesStoredRows
<1>1. DrainInv => SidecarNamesStoredRows
  BY DEF DrainInv
<1> QED BY <1>1, DrainInvAlways, PTL

-----------------------------------------------------------------------------
(* The close.                                                              *)

\* With no time-out on the io lock, whoever seals the files holds it, and the
\* run directory is given back with the files closed.
SealInv == /\ engine = "sealing" => ioLock = "closer"
           /\ ~runLock => wpClosed

LEMMA SealStep ==
  "lock" \notin Timeouts /\ TypeOK /\ IoLockInv /\ SealInv /\ [Next]_vars => SealInv'
<1> SUFFICES ASSUME "lock" \notin Timeouts, TypeOK, IoLockInv, SealInv, [Next]_vars
             PROVE  SealInv'
  OBVIOUS
<1> USE DEF SealInv, TypeOK, EngineType, ConsumerType, CloseType, closeVars, engineVars
<1>1. CASE UNCHANGED vars
  BY <1>1 DEF vars
<1>2. CASE Engine
  BY <1>2 DEF Engine, StartStep, RetryReserve, ReserveGivesUp, StepRaises, RunForward,
              DummyPass, ReserveRows, Admit
<1>3. CASE RunKernel
  BY <1>3 DEF RunKernel
<1>4. CASE Consumer
  BY <1>4, ConsumerFrame
     DEF IoLockInv, Consumer, TakeItem, BeginItem, CopyFails, CommitItem, AbandonItem,
         FreeItem, CopyLayer, WriteLayer, WriteFails
<1>5. CASE Closer
  <2>1. closeCall.resume \in {"idle", "dead"}
    OBVIOUS
  <2>2. CASE BeginFlush \/ BeginClose
    BY <2>2 DEF BeginFlush, BeginClose, AskStop
  <2>3. CASE JoinReturns \/ LockForClose \/ LockTimesOut
    BY <2>3 DEF JoinReturns, LockForClose, LockTimesOut
  <2>4. CASE StopReturns
    BY <2>1, <2>4 DEF StopReturns
  <2>5. CASE SealFiles
    BY <2>1, <2>5 DEF SealFiles
  <2> QED BY <1>5, <2>2, <2>3, <2>4, <2>5 DEF Closer
<1> QED BY <1>1, <1>2, <1>3, <1>4, <1>5 DEF Next

\* An engine that finds the run directory free meets no writer of the one that
\* gave it back, if _close_write_path waited for the io lock: however late the
\* consumer runs, also when the join of stop() timed out.
THEOREM OneDrainLives == ASSUME "lock" \notin Timeouts PROVE Spec => OneLiveDrain
<1>1. Init => IoLockInv /\ SealInv
  BY DEF Init, IoLockInv, SealInv, Closing
<1>2. TypeOK /\ IoLockInv /\ SealInv /\ [Next]_vars => [~runLock => UNCHANGED file]_vars
  BY FileChangesInStore DEF IoLockInv, SealInv
<1> QED BY TypeCorrect, <1>1, <1>2, IoLockStep, SealStep, PTL DEF Spec, OneLiveDrain

-----------------------------------------------------------------------------
(* What a close that returns normally has stored, when the join of stop()  *)
(* does not time out.                                                      *)

\* A stop marker is the last item and somebody waits for its consumer, unless
\* that has died.
StopIsLast ==
  \A i \in 1 .. Len(queue) :
    queue[i].kind = "stop" => consumer = "dead" \/ (engine = "joining" /\ i = Len(queue))

\* The consumer exits with everything drained, and until the close is over
\* nothing is enqueued behind it; a stop has returned only after its end, and
\* close() goes on as if all were well only after a normal one.
EndInv ==
  /\ consumer = "exited" => closed \/ (Closing /\ queue = <<>>)
  /\ ~started \/ engine = "stopped" => consumer \in {"exited", "dead"}
  /\ ~started /\ ~closed /\ engine \notin {"closing", "sealing"} => outcome = "raised"
  /\ engine \in {"closing", "sealing"} =>
       stopError \/ outcome = "raised" \/ consumer = "exited"

\* The rows that are stored: those freed and those about to be.
StoredTo == IF consumer = "advance" THEN End(item) ELSE drain

BlocksCover == RowsNamed(blocks) = RowsFrom(0, StoredTo)

CloseInv == StopIsLast /\ EndInv /\ BlocksCover

LEMMA CloserKeepsClose ==
  ASSUME TypeOK, "join" \notin Timeouts, OrderInv, IoLockInv, CloseInv, Closer
  PROVE  CloseInv'
<1> USE DEF TypeOK, EngineType, ConsumerType, CloseType
<1>1. /\ UNCHANGED <<drain, consumer, item, blocks, stepRows, write>>
      /\ closeCall.resume \in {"idle", "dead"}
      /\ Len(queue) \in Nat /\ queue \in Seq(QueueItems)
  BY CloserFrame, Numbers DEF ringVars, consumerVars, diskVars, QueueType
<1>2. BlocksCover'
  BY <1>1 DEF CloseInv, BlocksCover, StoredTo, End, RowsNamed
<1>3. CASE BeginFlush \/ BeginClose
  <2>1. engine \in {"idle", "dead"} /\ ~closed /\ ~Closing
    BY <1>3 DEF BeginFlush, BeginClose, Closing
  <2>2. consumer # "exited" /\ \A i \in 1 .. Len(queue) : queue[i].kind = "stop" => consumer = "dead"
    BY <2>1 DEF CloseInv, StopIsLast, EndInv
  <2>3. UNCHANGED <<started, stopError, closed, outcome>>
    BY <1>3 DEF BeginFlush, BeginClose
  <2>4. CASE AskStop /\ IsAlive
    <3>1. engine' = "joining" /\ queue' = Append(queue, StopItem) /\ started
      BY <2>4 DEF AskStop, IsAlive
    <3>2. /\ Len(queue') = Len(queue) + 1
          /\ \A i \in 1 .. Len(queue) : queue'[i] = queue[i]
      BY <1>1, <3>1, Numbers, AppendProperties DEF StopItem, QueueItems
    <3>3. StopIsLast'
      BY <1>1, <2>2, <3>1, <3>2 DEF StopIsLast
    <3>4. EndInv'
      BY <1>1, <2>2, <2>3, <3>1 DEF EndInv
    <3> QED BY <1>2, <3>3, <3>4 DEF CloseInv
  <2>5. CASE ~(AskStop /\ IsAlive)
    <3>1. /\ queue' = queue /\ ~IsAlive
          /\ engine' = "stopped" \/ (engine' = "closing" /\ ~started)
      BY <1>3, <2>5 DEF BeginFlush, BeginClose, AskStop, IsAlive
    <3>2. consumer \in {"exited", "dead"}
      BY <3>1 DEF IsAlive, CloseInv, EndInv
    <3>3. StopIsLast'
      BY <1>1, <2>2, <3>1 DEF StopIsLast
    <3>4. EndInv'
      BY <1>1, <2>1, <2>2, <2>3, <3>1, <3>2 DEF CloseInv, EndInv
    <3> QED BY <1>2, <3>3, <3>4 DEF CloseInv
  <2> QED BY <2>4, <2>5
<1>4. CASE JoinReturns
  <2>1. /\ engine = "joining" /\ consumer \in {"exited", "dead"} /\ engine' = "stopped"
        /\ UNCHANGED <<queue, started, stopError, closed, outcome>>
    BY <1>4 DEF JoinReturns, closeVars
  <2>2. consumer = "exited" => queue = <<>>
    BY <2>1 DEF CloseInv, EndInv, IoLockInv, Closing
  <2>3. StopIsLast'
    BY <1>1, <2>1, <2>2 DEF CloseInv, StopIsLast
  <2>4. EndInv'
    BY <1>1, <2>1, <2>2 DEF CloseInv, EndInv, Closing
  <2> QED BY <1>2, <2>3, <2>4 DEF CloseInv
<1>5. CASE StopReturns
  <2>1. /\ engine = "stopped" /\ consumer \in {"exited", "dead"} /\ ~closed
        /\ UNCHANGED <<queue, closed>> /\ started' = FALSE
    BY <1>5 DEF StopReturns, CloseInv, EndInv, IoLockInv, Closing
  <2>2. StopIsLast'
    BY <1>1, <2>1 DEF CloseInv, StopIsLast
  <2>3. CASE consumer = "dead" /\ closeCall.by = "flush"
    BY <1>1, <1>2, <1>5, <2>1, <2>2, <2>3 DEF StopReturns, CloseInv, EndInv
  <2>4. CASE ~(consumer = "dead" /\ closeCall.by = "flush")
    <3>1. engine' = "closing" /\ (stopError' = (consumer = "dead")) /\ outcome' = outcome
      BY <1>5, <2>4 DEF StopReturns
    <3>2. consumer = "dead" => stopError'
      BY <3>1
    <3>3. consumer = "exited" => queue = <<>>
      BY <2>1 DEF CloseInv, EndInv
    <3>4. EndInv'
      BY <1>1, <2>1, <3>1, <3>2, <3>3 DEF EndInv, Closing
    <3> QED BY <1>2, <2>2, <3>4 DEF CloseInv
  <2> QED BY <2>3, <2>4
<1>6. CASE LockForClose \/ LockTimesOut
  <2>1. /\ engine = "closing" /\ engine' = "sealing"
        /\ UNCHANGED <<queue, started, stopError, closed, outcome>>
    BY <1>6 DEF LockForClose, LockTimesOut, closeVars
  <2>2. StopIsLast'
    BY <1>1, <2>1 DEF CloseInv, StopIsLast
  <2>3. EndInv'
    BY <1>1, <2>1 DEF CloseInv, EndInv, Closing
  <2> QED BY <1>2, <2>2, <2>3 DEF CloseInv
<1>7. CASE SealFiles
  <2>1. /\ engine = "sealing" /\ closed' /\ engine' \in {"idle", "dead"}
        /\ UNCHANGED <<queue, started>>
    BY <1>1, <1>7 DEF SealFiles
  <2>2. StopIsLast'
    BY <1>1, <2>1 DEF CloseInv, StopIsLast
  <2>3. EndInv'
    BY <1>1, <2>1 DEF CloseInv, EndInv
  <2> QED BY <1>2, <2>2, <2>3 DEF CloseInv
<1> QED BY <1>3, <1>4, <1>5, <1>6, <1>7 DEF Closer

LEMMA RowsNamedAppend ==
  ASSUME NEW bs \in Seq(SidecarBlocks), NEW b \in SidecarBlocks
  PROVE  RowsNamed(Append(bs, b)) = RowsNamed(bs) \cup RowsFrom(b.start, b.n)
<1> DEFINE cs == Append(bs, b)
<1>1. /\ Len(bs) \in Nat /\ Len(cs) = Len(bs) + 1
      /\ \A i \in 1 .. Len(bs) : cs[i] = bs[i]
      /\ cs[Len(bs) + 1] = b
  BY AppendProperties, LenProperties
<1> HIDE DEF cs
<1>2. 1 .. Len(cs) = (1 .. Len(bs)) \cup {Len(bs) + 1}
  BY <1>1
<1>3. ASSUME NEW x
      PROVE  x \in RowsNamed(cs) <=> x \in RowsNamed(bs) \/ x \in RowsFrom(b.start, b.n)
  <2>1. x \in RowsNamed(cs) <=> \E i \in 1 .. Len(cs) : x \in RowsFrom(cs[i].start, cs[i].n)
    BY DEF RowsNamed
  <2>2. x \in RowsNamed(bs) <=> \E i \in 1 .. Len(bs) : x \in RowsFrom(bs[i].start, bs[i].n)
    BY DEF RowsNamed
  <2> QED BY <1>1, <1>2, <2>1, <2>2
<1> QED BY <1>3 DEF cs

LEMMA ConsumerKeepsClose ==
  ASSUME TypeOK, "join" \notin Timeouts, OrderInv, IoLockInv, CloseInv, Consumer
  PROVE  CloseInv'
<1> USE DEF TypeOK, EngineType, ConsumerType, CloseType
<1>1. /\ UNCHANGED <<engine, started, stopError, closed, outcome>>
      /\ consumer \notin {"exited", "dead"}
  BY ConsumerFrame
     DEF engineVars, closeVars, Consumer, TakeItem, BeginItem, CopyFails, CommitItem,
         AbandonItem, FreeItem, CopyLayer, WriteLayer, WriteFails
<1>2. started /\ engine # "stopped" /\ (Closing' <=> Closing)
  BY <1>1 DEF CloseInv, EndInv, Closing
<1>3. CASE TakeItem
  <2>1. /\ consumer = "get" /\ queue # <<>> /\ queue' = Tail(queue)
        /\ UNCHANGED <<drain, blocks>> /\ consumer' \in {"lock", "dead", "exited"}
    BY <1>3 DEF TakeItem, ringVars, diskVars
  <2>2. /\ Head(queue) = queue[1] /\ Len(queue) \in Nat \ {0}
        /\ Len(Tail(queue)) = Len(queue) - 1 /\ Tail(queue) \in Seq(QueueItems)
        /\ \A i \in 1 .. (Len(queue) - 1) : Tail(queue)[i] = queue[i + 1]
    BY <2>1, TailFacts DEF QueueType
  <2>3. StopIsLast'
    <3>1. ASSUME NEW i \in 1 .. Len(queue'), queue'[i].kind = "stop"
          PROVE  engine = "joining" /\ i = Len(queue')
      <4>1. i + 1 \in 1 .. Len(queue) /\ queue[i + 1].kind = "stop"
        BY <2>1, <2>2, <3>1
      <4>2. engine = "joining" /\ i + 1 = Len(queue)
        BY <2>1, <4>1 DEF CloseInv, StopIsLast
      <4>3. i \in Int /\ Len(queue') = Len(queue) - 1 /\ Len(queue) \in Int
        BY <2>1, <2>2
      <4> QED BY <4>2, <4>3
    <3> QED BY <1>1, <3>1 DEF StopIsLast
  <2>4. consumer' = "exited" => Closing /\ queue' = <<>>
    <3>1. SUFFICES ASSUME consumer' = "exited" PROVE Closing /\ queue' = <<>>
      OBVIOUS
    <3>2. queue[1].kind = "stop" /\ 1 \in 1 .. Len(queue)
      BY <1>3, <2>2, <3>1 DEF TakeItem
    <3>3. engine = "joining" /\ 1 = Len(queue)
      BY <2>1, <3>2 DEF CloseInv, StopIsLast
    <3> QED BY <2>1, <2>2, <3>3, EmptySeq DEF Closing
  <2>5. EndInv'
    BY <1>1, <1>2, <2>1, <2>4 DEF CloseInv, EndInv
  <2>6. BlocksCover'
    BY <2>1 DEF CloseInv, BlocksCover, StoredTo, RowsNamed
  <2> QED BY <2>3, <2>5, <2>6 DEF CloseInv
<1>4. CASE ~TakeItem
  <2>1. queue' = queue /\ consumer' # "exited" /\ consumer # "get"
    BY <1>4 DEF Consumer, BeginItem, CopyFails, CommitItem, AbandonItem, FreeItem,
                CopyLayer, WriteLayer, WriteFails
  <2>2. StopIsLast'
    BY <1>1, <2>1 DEF CloseInv, StopIsLast
  <2>3. EndInv'
    BY <1>1, <1>2, <2>1 DEF CloseInv, EndInv
  <2>4. item.kind = "step" /\ item.start = drain /\ item.n \in Nat /\ drain \in Nat
    BY <1>1, <2>1, Numbers DEF OrderInv, ItemInv
  <2>5. CASE CommitItem
    <3> DEFINE b == [start |-> item.start, n |-> item.n, cursor |-> cursor]
    <3>1. /\ consumer = "store" /\ consumer' = "advance" /\ blocks' = Append(blocks, b)
          /\ UNCHANGED <<item, drain>>
      BY <2>5 DEF CommitItem, ringVars
    <3>2. b \in SidecarBlocks /\ b.start = drain /\ b.n = item.n
      BY <2>4, DiskTypes DEF SidecarBlocks
    <3> HIDE DEF b
    <3>3. RowsNamed(blocks') = RowsFrom(0, drain) \cup RowsFrom(drain, item.n)
      BY <3>1, <3>2, RowsNamedAppend DEF CloseInv, BlocksCover, StoredTo, DiskType
    <3>4. RowsFrom(0, drain) \cup RowsFrom(drain, item.n) = RowsFrom(0, drain + item.n)
      BY <2>4 DEF RowsFrom
    <3>5. BlocksCover'
      BY <2>4, <3>1, <3>3, <3>4 DEF BlocksCover, StoredTo, End
    <3> QED BY <2>2, <2>3, <3>5 DEF CloseInv
  <2>6. CASE FreeItem
    <3>1. /\ consumer = "advance" /\ drain' = End(item) /\ blocks' = blocks
          /\ consumer' \in {"get", "dead"}
      BY <2>4, <2>6 DEF FreeItem, End, diskVars
    <3>2. BlocksCover'
      BY <3>1 DEF CloseInv, BlocksCover, StoredTo, RowsNamed
    <3> QED BY <2>2, <2>3, <3>2 DEF CloseInv
  <2>7. CASE ~CommitItem /\ ~FreeItem
    <3>1. consumer # "advance" /\ consumer' # "advance" /\ UNCHANGED <<drain, blocks>>
      BY <1>4, <2>7 DEF Consumer, BeginItem, CopyFails, AbandonItem, CopyLayer, WriteLayer,
                       WriteFails, ringVars, diskVars
    <3>2. BlocksCover'
      BY <3>1 DEF CloseInv, BlocksCover, StoredTo, RowsNamed
    <3> QED BY <2>2, <2>3, <3>2 DEF CloseInv
  <2> QED BY <2>5, <2>6, <2>7
<1> QED BY <1>3, <1>4

LEMMA EngineKeepsClose ==
  ASSUME TypeOK, OrderInv, IoLockInv, CloseInv, Engine
  PROVE  CloseInv'
<1>1. /\ UNCHANGED <<drain, consumer, item, blocks, started, stopError, closed, outcome>>
      /\ EnqueuesNothing \/ EnqueuesStep
  BY EngineFrame, EngineMoves DEF consumerVars, diskVars, closeVars
<1>2. /\ engine \in {"idle", "routing", "blocked"}
      /\ engine' \in {"idle", "routing", "blocked", "dead"}
  BY DEF Engine, StartStep, RetryReserve, ReserveGivesUp, StepRaises, RunForward,
         DummyPass, ReserveRows, Admit, engineVars
<1>3. BlocksCover'
  BY <1>1 DEF CloseInv, BlocksCover, StoredTo, End, RowsNamed
<1>4. EndInv'
  BY <1>1, <1>2 DEF CloseInv, EndInv, Closing
<1>5. \A i \in 1 .. Len(queue) : queue[i].kind = "stop" => consumer = "dead"
  BY <1>2 DEF CloseInv, StopIsLast
<1>6. StopIsLast'
  <2>1. CASE EnqueuesNothing
    BY <1>1, <1>5, <2>1 DEF StopIsLast, EnqueuesNothing
  <2>2. CASE EnqueuesStep
    <3> DEFINE it == StepItem(Enqueued, stepRows)
    <3>1. it \in QueueItems /\ it.kind = "step" /\ queue' = Append(queue, it)
      BY <2>2, Numbers DEF EnqueuesStep, StepItem, QueueItems
    <3> HIDE DEF it
    <3>2. /\ Len(queue') = Len(queue) + 1 /\ Len(queue) \in Nat
          /\ \A i \in 1 .. Len(queue) : queue'[i] = queue[i]
          /\ queue'[Len(queue) + 1] = it
      BY <3>1, AppendProperties, LenProperties DEF TypeOK, QueueType
    <3> QED BY <1>1, <1>5, <3>1, <3>2 DEF StopIsLast
  <2> QED BY <1>1, <2>1, <2>2
<1> QED BY <1>3, <1>4, <1>6 DEF CloseInv

LEMMA CloseStep ==
  "join" \notin Timeouts /\ TypeOK /\ OrderInv /\ IoLockInv /\ CloseInv /\ [Next]_vars
    => CloseInv'
<1> SUFFICES ASSUME "join" \notin Timeouts, TypeOK, OrderInv, IoLockInv, CloseInv, [Next]_vars
             PROVE  CloseInv'
  OBVIOUS
<1>1. CASE RunKernel \/ UNCHANGED vars
  <2>1. UNCHANGED <<drain, consumer, item, queue, engine, blocks, closeVars>>
    BY <1>1 DEF RunKernel, vars, ringVars, engineVars, consumerVars, diskVars
  <2> QED BY <2>1 DEF CloseInv, StopIsLast, EndInv, BlocksCover, StoredTo, End, RowsNamed,
                     Closing, closeVars
<1> QED BY <1>1, EngineKeepsClose, ConsumerKeepsClose, CloserKeepsClose DEF Next

LEMMA CloseInit == Init => CloseInv
<1> SUFFICES ASSUME Init PROVE CloseInv
  OBVIOUS
<1>1. StopIsLast /\ EndInv
  BY DEF Init, StopIsLast, EndInv
<1>2. RowsNamed(blocks) = {} /\ RowsFrom(0, StoredTo) = {}
  BY DEF Init, RowsNamed, StoredTo, RowsFrom
<1> QED BY <1>1, <1>2 DEF CloseInv, BlocksCover

\* When close() ends normally the consumer has exited with nothing left.
LEMMA NormalEnd ==
  ASSUME TypeOK, OrderInv, IoLockInv, CloseInv, SealFiles, outcome' = "ok"
  PROVE  StoredTo = Enqueued /\ meta' = blocks /\ consumer = "exited"
<1>1. engine = "sealing" /\ ~stopError /\ outcome # "raised" /\ meta' = blocks
  BY DEF SealFiles
<1>2. consumer = "exited" /\ queue = <<>>
  BY <1>1 DEF CloseInv, EndInv, IoLockInv, Closing
<1> QED BY <1>1, <1>2 DEF OrderInv, QueueInv, ItemInv, Chain, Front, StoredTo

\* A close that returns normally has stored every enqueued step and says so in
\* the sidecar, whatever fails and whenever it is called, as long as the join of
\* stop() does not time out (aperture_drain_hs.py:1405).
THEOREM CloseStoresAll == ASSUME "join" \notin Timeouts PROVE Spec => CloseWritesEveryStep
<1>1. TypeOK /\ OrderInv /\ IoLockInv /\ CloseInv /\ [Next]_vars
        => [ (~closed /\ closed' /\ outcome' = "ok")
               => RowsNamed(meta') = RowsFrom(0, Enqueued) ]_vars
  <2> SUFFICES ASSUME TypeOK, OrderInv, IoLockInv, CloseInv, Next,
                      ~closed, closed', outcome' = "ok"
               PROVE  RowsNamed(meta') = RowsFrom(0, Enqueued)
    OBVIOUS
  <2>1. SealFiles
    BY EngineFrame, KernelFrame, ConsumerFrame
       DEF Next, Closer, BeginFlush, BeginClose, JoinReturns, StopReturns, LockForClose,
           LockTimesOut, closeVars
  <2> QED BY <2>1, NormalEnd DEF CloseInv, BlocksCover
<1>2. Init => IoLockInv
  BY DEF Init, IoLockInv, Closing
<1> QED BY <1>1, <1>2, TypeCorrect, OrderInit, OrderStep, IoLockStep, CloseInit, CloseStep, PTL
        DEF Spec, CloseWritesEveryStep

-----------------------------------------------------------------------------
(* The capture path implements CaptureLog.                                 *)

\* Where the consumer writes: as long as it lives, row l of the run is row l of
\* every file, and the blocks end where the stored rows end.
PlaceInv ==
  /\ consumer \in {"get", "lock", "exited"} => fileRows = drain
  /\ consumer = "store" => cursor = drain
  /\ consumer = "advance" => fileRows = End(item)
  /\ \A i \in 1 .. Len(blocks) : blocks[i].cursor = blocks[i].start
  /\ IF blocks = <<>> THEN StoredTo = 0
     ELSE blocks[Len(blocks)].start + blocks[Len(blocks)].n = StoredTo

LEMMA PlaceInit == Init => PlaceInv
BY DEF Init, PlaceInv, StoredTo

LEMMA PlaceStep ==
  TypeOK /\ OrderInv /\ StoreInv /\ PlaceInv /\ [Next]_vars => PlaceInv'
<1> SUFFICES ASSUME TypeOK, OrderInv, StoreInv, PlaceInv, [Next]_vars PROVE PlaceInv'
  OBVIOUS
<1>1. CASE UNCHANGED <<drain, consumer, item, cursor, fileRows, blocks>>
  BY <1>1 DEF PlaceInv, StoredTo, End
<1>2. CASE Consumer
  <2>1. consumer \in {"lock", "store", "advance"} =>
          item.kind = "step" /\ item.start = drain /\ item.n \in Nat /\ drain \in Nat
    BY Numbers DEF OrderInv, ItemInv
  <2>2. CASE TakeItem
    BY <2>2 DEF TakeItem, ringVars, diskVars, PlaceInv, StoredTo
  <2>3. CASE BeginItem
    BY <2>3 DEF BeginItem, ringVars, PlaceInv, StoredTo
  <2>4. CASE CommitItem
    <3> DEFINE b == [start |-> item.start, n |-> item.n, cursor |-> cursor]
    <3>1. /\ consumer = "store" /\ consumer' = "advance" /\ blocks' = Append(blocks, b)
          /\ UNCHANGED <<item, drain, fileRows, cursor>>
      BY <2>4 DEF CommitItem, ringVars
    <3>2. b \in SidecarBlocks /\ b.start = drain /\ b.n = item.n /\ b.cursor = drain
      BY <2>1, <3>1, DiskTypes DEF SidecarBlocks, PlaceInv
    <3> HIDE DEF b
    <3>3. /\ Len(blocks') = Len(blocks) + 1 /\ Len(blocks) \in Nat /\ blocks' # <<>>
          /\ \A i \in 1 .. Len(blocks) : blocks'[i] = blocks[i]
          /\ blocks'[Len(blocks) + 1] = b
      BY <3>1, <3>2, AppendProperties, LenProperties DEF TypeOK, DiskType
    <3>4. \A i \in 1 .. Len(blocks') : blocks'[i].cursor = blocks'[i].start
      <4> TAKE i \in 1 .. Len(blocks')
      <4>1. CASE i = Len(blocks) + 1
        BY <3>2, <3>3, <4>1
      <4>2. CASE i \in 1 .. Len(blocks)
        BY <3>3, <4>2 DEF PlaceInv
      <4> QED BY <3>3, <4>1, <4>2
    <3>5. fileRows' = End(item)' /\ StoredTo' = drain + item.n
      BY <2>1, <3>1 DEF StoreInv, PlaceInv, StoredTo, End
    <3> QED BY <3>1, <3>2, <3>3, <3>4, <3>5 DEF PlaceInv
  <2>5. CASE FreeItem
    <3>1. /\ consumer = "advance" /\ drain' = End(item) /\ UNCHANGED <<fileRows, blocks>>
          /\ consumer' \in {"get", "dead"}
      BY <2>1, <2>5 DEF FreeItem, End, diskVars
    <3> QED BY <3>1 DEF PlaceInv, StoredTo
  <2>6. CASE AbandonItem
    BY <2>6 DEF AbandonItem, ringVars, diskVars, PlaceInv, StoredTo
  <2>7. CASE CopyFails \/ \E L \in Layers : CopyLayer(L) \/ WriteLayer(L) \/ WriteFails(L)
    BY <1>1, <2>7 DEF CopyFails, CopyLayer, WriteLayer, WriteFails, ringVars, diskVars
  <2> QED BY <1>2, <2>2, <2>3, <2>4, <2>5, <2>6, <2>7 DEF Consumer
<1>3. CASE ~Consumer
  <2>1. UNCHANGED <<drain, consumer, item, cursor, fileRows, blocks>>
    BY <1>3, EngineFrame, KernelFrame, CloserFrame
       DEF Next, vars, ringVars, consumerVars, diskVars
  <2> QED BY <1>1, <2>1
<1> QED BY <1>2, <1>3

LEMMA InBlock ==
  ASSUME NEW a \in Int, NEW n \in Nat, NEW i \in Int, a <= i - 1, i - 1 <= a + n - 1
  PROVE  i - a \in 1 .. n /\ a + (i - a) = i /\ a + (i - a) - 1 = i - 1
OBVIOUS

\* What a reader finds are the rows below StoredTo and nothing else.
LEMMA StoredRowsAre ==
  ASSUME TypeOK, OrderInv, SidecarNamesStoredRows, BlocksCover, PlaceInv, ~DummyPasses
  PROVE  StoredTo \in Nat /\ StoredTo <= Enqueued /\ StoredRows = Log!FirstRows(StoredTo)
<1>1. StoredTo \in Nat /\ StoredTo <= Enqueued
  <2>1. /\ drain \in Nat /\ item.n \in Nat /\ Enqueued \in Int /\ Front <= Enqueued
        /\ item.kind = "step" => item.start = drain
        /\ consumer = "advance" => item.kind = "step"
    BY Numbers DEF OrderInv, ItemInv
  <2>2. CASE item.kind = "step"
    BY <2>1, <2>2 DEF StoredTo, Front, End
  <2>3. CASE item.kind # "step"
    BY <2>1, <2>3 DEF StoredTo, Front
  <2> QED BY <2>2, <2>3
<1>2. StoredRows = [i \in 1 .. StoredTo |-> [L \in Layers |-> file[L][i]]]
  <2>1. CASE blocks = <<>>
    BY <2>1 DEF StoredRows, PlaceInv
  <2>2. CASE blocks # <<>>
    <3>1. Len(blocks) \in 1 .. Len(blocks)
      BY <2>2, DiskTypes, EmptySeq DEF TypeOK, DiskType
    <3>2. blocks[Len(blocks)].cursor + blocks[Len(blocks)].n = StoredTo
      BY <2>2, <3>1 DEF PlaceInv
    <3> QED BY <2>2, <3>2 DEF StoredRows
  <2> QED BY <2>1, <2>2
<1>3. ASSUME NEW i \in 1 .. StoredTo, NEW L \in Layers
      PROVE  file[L][i] = i - 1
  <2>1. i - 1 \in RowsNamed(blocks)
    BY <1>1 DEF BlocksCover, RowsFrom
  <2>2. PICK k \in 1 .. Len(blocks) : i - 1 \in RowsFrom(blocks[k].start, blocks[k].n)
    BY <2>1 DEF RowsNamed
  <2>3. /\ blocks[k].start \in Int /\ blocks[k].n \in Nat
        /\ blocks[k].cursor = blocks[k].start
    BY DiskTypes DEF PlaceInv
  <2> DEFINE j == i - blocks[k].start
  <2>4. /\ j \in 1 .. blocks[k].n /\ blocks[k].cursor + j = i
        /\ blocks[k].start + j - 1 = i - 1
    <3>1. i \in Int /\ blocks[k].start <= i - 1 /\ i - 1 <= blocks[k].start + blocks[k].n - 1
      BY <1>1, <2>2, <2>3 DEF RowsFrom
    <3> QED BY <2>3, <3>1, InBlock, SMTT(30)
  <2> HIDE DEF j
  <2>5. StoredAt(L, i, i - 1)
    <3>1. StoredAt(L, blocks[k].cursor + j, blocks[k].start + j - 1)
      BY <2>4 DEF SidecarNamesStoredRows
    <3> QED BY <2>4, <3>1
  <2> QED BY <2>5 DEF StoredAt, Exempt
<1>4. [i \in 1 .. StoredTo |-> [L \in Layers |-> file[L][i]]]
        = [i \in 1 .. StoredTo |-> [L \in Layers |-> i - 1]]
  <2>1. \A i \in 1 .. StoredTo : [L \in Layers |-> file[L][i]] = [L \in Layers |-> i - 1]
    BY <1>3
  <2> QED BY <2>1
<1> QED BY <1>1, <1>2, <1>4 DEF Log!FirstRows, Log!RowOf

LEMMA FirstRowsLength == ASSUME NEW n \in Nat PROVE Len(Log!FirstRows(n)) = n
BY DEF Log!FirstRows

LogInv == /\ TypeOK /\ OrderInv /\ IoLockInv /\ SidecarNamesStoredRows
          /\ CloseInv /\ PlaceInv

\* The same of the next state.
LEMMA StoredRowsNext ==
  ASSUME ~DummyPasses
  PROVE  LogInv' => /\ StoredTo' \in Nat /\ StoredTo' <= Enqueued'
                    /\ StoredRows' = Log!FirstRows(StoredTo')
<1>1. LogInv => StoredTo \in Nat /\ StoredTo <= Enqueued /\ StoredRows = Log!FirstRows(StoredTo)
  BY StoredRowsAre DEF LogInv, CloseInv
<1>2. LogInv' => (StoredTo \in Nat /\ StoredTo <= Enqueued
                  /\ StoredRows = Log!FirstRows(StoredTo))'
  BY <1>1, PTL
<1> QED BY <1>2 DEF Log!FirstRows, Log!RowOf

LEMMA StepImplements ==
  ASSUME ~DummyPasses, LogInv, LogInv', [Next]_vars
  PROVE  [Log!LogNext]_(Log!logVars)
<1>1. /\ StoredTo \in Nat /\ StoredTo <= Enqueued
      /\ StoredRows = Log!FirstRows(StoredTo) /\ Len(StoredRows) = StoredTo
  BY StoredRowsAre, FirstRowsLength DEF LogInv, CloseInv
<1>2. /\ StoredTo' \in Nat /\ StoredTo' <= Enqueued'
      /\ StoredRows' = Log!FirstRows(StoredTo') /\ Len(StoredRows') = StoredTo'
  BY StoredRowsNext, FirstRowsLength
<1>3. Enqueued \in Int /\ item.n \in Nat
  BY Numbers DEF LogInv
<1>4. CASE StoredTo' = StoredTo /\ Enqueued' = Enqueued /\ outcome' = outcome
  BY <1>1, <1>2, <1>4 DEF Log!logVars
<1>5. CASE Engine
  <2>1. StoredTo' = StoredTo /\ outcome' = outcome
    BY <1>5, EngineFrame DEF consumerVars, closeVars, StoredTo, End
  <2>2. Enqueued' = Enqueued \/ Enqueued' > Enqueued
    BY <1>3, <1>5, EngineMoves, Numbers DEF LogInv, EnqueuesNothing, EnqueuesStep
  <2>3. CASE Enqueued' > Enqueued
    BY <1>1, <1>2, <2>1, <2>3 DEF Log!LogNext, Log!Accept
  <2> QED BY <1>4, <2>1, <2>2, <2>3
<1>6. CASE RunKernel \/ UNCHANGED vars
  BY <1>4, <1>6 DEF RunKernel, vars, ringVars, engineVars, consumerVars, closeVars,
                    StoredTo, End, Enqueued
<1>7. CASE Consumer
  <2>1. Enqueued' = Enqueued /\ outcome' = outcome
    BY <1>7, ConsumerFrame DEF engineVars, closeVars, Enqueued
  <2>2. StoredTo' = StoredTo \/ (CommitItem /\ StoredTo' = StoredTo + item.n)
    <3>1. consumer \in {"lock", "store", "advance"} =>
            item.start = drain /\ item.n \in Nat /\ drain \in Nat
      BY Numbers DEF LogInv, OrderInv, ItemInv
    <3>2. CASE CommitItem
      BY <3>1, <3>2 DEF CommitItem, ringVars, StoredTo, End
    <3>3. CASE FreeItem
      BY <3>1, <3>3 DEF FreeItem, StoredTo, End
    <3>4. CASE ~CommitItem /\ ~FreeItem
      BY <1>7, <3>4 DEF Consumer, TakeItem, BeginItem, CopyFails, AbandonItem, CopyLayer,
                       WriteLayer, WriteFails, ringVars, StoredTo
    <3> QED BY <3>2, <3>3, <3>4
  <2>3. CASE StoredTo' > StoredTo
    BY <1>1, <1>2, <2>1, <2>3 DEF Log!LogNext, Log!Store
  <2> QED BY <1>1, <1>2, <1>3, <1>4, <2>1, <2>2, <2>3
<1>8. CASE Closer
  <2>1. StoredTo' = StoredTo /\ Enqueued' = Enqueued
    BY <1>8, CloserFrame DEF ringVars, consumerVars, StoredTo, End, Enqueued
  <2>2. outcome' = outcome \/ outcome' = "raised" \/ (SealFiles /\ outcome' = "ok")
    BY <1>8 DEF Closer, BeginFlush, BeginClose, JoinReturns, StopReturns, LockForClose,
                LockTimesOut, SealFiles, closeVars
  <2>3. CASE outcome' = "raised"
    BY <1>1, <1>2, <2>1, <2>3 DEF Log!LogNext, Log!CloseRaising
  <2>4. CASE SealFiles /\ outcome' = "ok" /\ outcome' # outcome
    <3>1. StoredTo = Enqueued
      BY <2>4, NormalEnd DEF LogInv
    <3>2. outcome = "open"
      BY <2>4 DEF SealFiles, LogInv, TypeOK, CloseType
    <3> QED BY <1>1, <1>2, <2>1, <2>4, <3>1, <3>2 DEF Log!LogNext, Log!CloseNormally
  <2> QED BY <1>4, <2>1, <2>2, <2>3, <2>4
<1> QED BY <1>5, <1>6, <1>7, <1>8 DEF Next

\* Ring, threads, files and failures are an implementation of CaptureLog: rows
\* are stored once, in order and in every layer, and a normal close has stored
\* them all; for an engine without dummy passes whose join does not time out.
THEOREM CapturePathImplements ==
  ASSUME ~DummyPasses, "join" \notin Timeouts
  PROVE  Spec => ImplementsCaptureLog
<1>1. Init => Log!LogInit
  <2> SUFFICES ASSUME Init PROVE Log!LogInit
    OBVIOUS
  <2>1. StoredRows = [i \in 1 .. 0 |-> [L \in Layers |-> file[L][i]]]
    BY DEF Init, StoredRows
  <2>2. [i \in 1 .. 0 |-> [L \in Layers |-> file[L][i]]]
          = [i \in 1 .. 0 |-> [L \in Layers |-> i - 1]]
    OBVIOUS
  <2>3. Enqueued = 0 /\ outcome = "open"
    BY DEF Init, Enqueued
  <2> QED BY <2>1, <2>2, <2>3 DEF Log!LogInit, Log!FirstRows, Log!RowOf
<1>2. Init => DrainInv /\ LogInv
  BY InvInit, CloseInit, PlaceInit DEF DrainInv, LogInv, OrderInv
<1>3. DrainInv /\ LogInv /\ [Next]_vars => DrainInv' /\ LogInv'
  BY InvStep, CloseStep, PlaceStep DEF DrainInv, LogInv, OrderInv
<1>4. LogInv /\ LogInv' /\ [Next]_vars => [Log!LogNext]_(Log!logVars)
  BY StepImplements
<1> QED BY <1>1, <1>2, <1>3, <1>4, PTL DEF Spec, ImplementsCaptureLog, Log!LogSpec

=============================================================================
