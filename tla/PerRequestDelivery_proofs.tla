--------------------- MODULE PerRequestDelivery_proofs ---------------------
(***************************************************************************)
(* Per-request delivery keeps its rows: for any requests, any number of    *)
(* rows and retries, and every combination of failures.                    *)
(***************************************************************************)
EXTENDS PerRequestDelivery, FiniteSetTheorems, SequenceTheorems, TLAPS

-----------------------------------------------------------------------------
(* Items and the queue. *)

LEMMA RowMapTypes ==
  ASSUME NEW m \in RowMaps
  PROVE  DOMAIN m \subseteq Reqs /\ \A r \in DOMAIN m : m[r] \in Nat
<1>1. RowNumbers \subseteq Nat
  BY PerRequestAssumption DEF RowNumbers
<1>2. PICK S \in SUBSET Reqs : m \in [S -> RowNumbers]
  BY DEF RowMaps
<1> QED BY <1>1, <1>2

LEMMA NoRows == <<>> \in RowMaps /\ DOMAIN <<>> = {}
<1>1. DOMAIN <<>> = {}
  OBVIOUS
<1>2. <<>> = [r \in {} |-> 0]
  OBVIOUS
<1>3. <<>> \in [{} -> RowNumbers]
  BY <1>2
<1> QED BY <1>1, <1>3 DEF RowMaps

LEMMA ItemTypes ==
  /\ NoItem \in Items /\ DOMAIN NoItem.rows = {}
  /\ \A r \in Reqs : FinishItem(r) \in Items /\ DOMAIN FinishItem(r).rows = {}
  /\ \A m \in RowMaps : RowsItem(m) \in Items
BY NoRows DEF NoItem, FinishItem, RowsItem, Items

LEMMA QueueTypes ==
  ASSUME TypeOK
  PROVE  /\ Len(queue) \in Nat
         /\ \A i \in 1 .. Len(queue) :
              /\ queue[i] \in Items /\ DOMAIN queue[i].rows \subseteq Reqs
              /\ \A r \in DOMAIN queue[i].rows : queue[i].rows[r] \in Nat
         /\ consumer.item \in Items /\ DOMAIN consumer.item.rows \subseteq Reqs
         /\ \A r \in DOMAIN consumer.item.rows : consumer.item.rows[r] \in Nat
<1>1. Len(queue) \in Nat /\ \A i \in 1 .. Len(queue) : queue[i] \in Items
  BY DEF TypeOK, EngineType, DrainType
<1>2. consumer.item \in Items
  BY DEF TypeOK, EngineType, DrainType
<1>3. \A it \in Items : it.rows \in RowMaps
  BY DEF Items
<1> QED BY <1>1, <1>2, <1>3, RowMapTypes

\* The consumer takes the first item.
LEMMA Taken ==
  ASSUME TypeOK, queue # <<>>, queue' = Tail(queue)
  PROVE  /\ queue' \in Seq(Items) /\ Len(queue') = Len(queue) - 1 /\ 1 \in 1 .. Len(queue)
         /\ Head(queue) = queue[1] /\ Head(queue) \in Items
         /\ \A i \in 1 .. Len(queue') : i + 1 \in 1 .. Len(queue) /\ queue'[i] = queue[i + 1]
         /\ \A i \in 1 .. Len(queue) : i # 1 => i - 1 \in 1 .. Len(queue') /\ queue'[i - 1] = queue[i]
<1>1. queue \in Seq(Items) /\ Len(queue) \in Nat
  BY QueueTypes DEF TypeOK, EngineType, DrainType
<1>2. /\ queue' \in Seq(Items) /\ Len(queue') = Len(queue) - 1 /\ Head(queue) \in Items
      /\ \A i \in 1 .. Len(queue') : queue'[i] = queue[i + 1]
  BY <1>1, HeadTailProperties
<1>3. Len(queue) >= 1 /\ Head(queue) = queue[1]
  BY <1>1, EmptySeq
<1>4. ASSUME NEW i \in 1 .. Len(queue), i # 1
      PROVE  i - 1 \in 1 .. Len(queue') /\ queue'[i - 1] = queue[i]
  <2>1. i - 1 \in 1 .. Len(queue') /\ (i - 1) + 1 = i
    BY <1>1, <1>2, <1>4
  <2> QED BY <1>2, <2>1
<1> QED BY <1>1, <1>2, <1>3, <1>4

\* The finishes of a step name each request that has ended once.
LEMMA EachOnce ==
  ASSUME NEW F \in SUBSET Reqs, NEW fs \in [1 .. Cardinality(F) -> F],
         \A i, j \in 1 .. Cardinality(F) : i # j => fs[i] # fs[j]
  PROVE  Cardinality(F) \in Nat /\ \A r \in F : \E i \in 1 .. Cardinality(F) : fs[i] = r
<1> DEFINE n == Cardinality(F)
<1>1. IsFiniteSet(F) /\ n \in Nat
  BY PerRequestAssumption, FS_Subset, FS_CardinalityType
<1>2. IsFiniteSet(1 .. n) /\ Cardinality(1 .. n) = n
  BY <1>1, FS_Interval
<1>3. fs \in Injection(1 .. n, F)
  BY DEF Injection, IsInjective
<1>4. fs \in Surjection(1 .. n, F)
  BY <1>1, <1>2, <1>3, FS_Injection
<1> QED BY <1>1, <1>4 DEF Surjection

\* What a step adds to the queue: its rows, then its finishes.
LEMMA Enqueued ==
  ASSUME TypeOK, NEW S \in SUBSET running, NEW F \in SUBSET ended, ExecuteModel(S, F)
  PROVE  LET n == Len(queue) IN
         /\ queue' \in Seq(Items) /\ Len(queue') \in Nat /\ n <= Len(queue')
         /\ \A i \in 1 .. n : queue'[i] = queue[i]
         /\ \A i \in n + 1 .. Len(queue') :
              \/ /\ i = n + 1 /\ S # {} /\ queue'[i].kind = "rows" /\ queue'[i].req = NoReq
                 /\ DOMAIN queue'[i].rows = S /\ \A r \in S : queue'[i].rows[r] = captured[r]
              \/ /\ queue'[i].kind = "finish" /\ queue'[i].req \in F
                 /\ DOMAIN queue'[i].rows = {}
         /\ \A r \in F : \E i \in n + 1 .. Len(queue') : queue'[i].req = r
         /\ S # {} => /\ n + 1 \in 1 .. Len(queue')
                      /\ DOMAIN queue'[n + 1].rows = S
                      /\ \A r \in S : queue'[n + 1].rows[r] = captured[r]
         /\ \A i, j \in n + 1 .. Len(queue') : i < j =>
              queue'[j].req # queue'[i].req /\ DOMAIN queue'[j].rows = {}
<1> DEFINE m == Cardinality(F)
           n == Len(queue)
           steps == IF S = {} THEN <<>> ELSE << RowsItem([r \in S |-> captured[r]]) >>
<1>1. S \subseteq Reqs /\ F \subseteq Reqs /\ queue \in Seq(Items) /\ n \in Nat
  BY QueueTypes DEF TypeOK, EngineType, DrainType
<1>2. PICK fs \in [1 .. m -> F] :
        /\ \A i, j \in 1 .. m : i # j => fs[i] # fs[j]
        /\ queue' = queue \o steps \o [i \in 1 .. m |-> FinishItem(fs[i])]
  BY DEF ExecuteModel
<1>3. m \in Nat /\ \A r \in F : \E i \in 1 .. m : fs[i] = r
  BY <1>1, <1>2, EachOnce
<1> DEFINE fins == [i \in 1 .. m |-> FinishItem(fs[i])]
           rows == [r \in S |-> captured[r]]
<1>4. rows \in RowMaps
  <2>1. \A r \in S : captured[r] \in 0 .. MaxRows[r] - 1
    BY <1>1, PerRequestAssumption DEF ExecuteModel, TypeOK, EngineType
  <2>2. \A r \in S : captured[r] \in RowNumbers
    BY <1>1, <2>1 DEF RowNumbers
  <2> QED BY <1>1, <2>2 DEF RowMaps
<1>5. steps \in Seq(Items) /\ Len(steps) = (IF S = {} THEN 0 ELSE 1)
      /\ (S # {} => steps[1] = RowsItem(rows))
  BY <1>4, ItemTypes
<1>6. fins \in Seq(Items) /\ Len(fins) = m /\ \A i \in 1 .. m : fins[i] = FinishItem(fs[i])
  <2>1. \A i \in 1 .. m : FinishItem(fs[i]) \in Items
    BY <1>1, <1>2, ItemTypes
  <2> QED BY <1>3, <2>1
<1> DEFINE k == Len(steps)
<1>7. k \in {0, 1} /\ (k = 1 <=> S # {})
  BY <1>5
<1> HIDE DEF steps, fins, rows, k, m, n
<1>8. /\ queue \o steps \in Seq(Items) /\ Len(queue \o steps) = n + k
      /\ \A i \in 1 .. n + k : (queue \o steps)[i] = IF i <= n THEN queue[i] ELSE steps[i - n]
  BY <1>1, <1>5, ConcatProperties DEF n, k
<1>9. /\ queue' \in Seq(Items) /\ Len(queue') = n + k + m
      /\ \A i \in 1 .. n + k + m :
           queue'[i] = IF i <= n + k THEN (queue \o steps)[i] ELSE fins[i - (n + k)]
  <2>1. queue' = (queue \o steps) \o fins
    BY <1>2 DEF fins, steps, m
  <2> QED BY <1>6, <1>8, <2>1, ConcatProperties
<1>10. ASSUME NEW i \in 1 .. n PROVE queue'[i] = queue[i]
  <2>1. i \in 1 .. n + k + m /\ i <= n + k /\ i \in 1 .. n + k /\ i <= n
    BY <1>1, <1>3, <1>7
  <2> QED BY <1>8, <1>9, <2>1
<1>11. S # {} => n + 1 \in 1 .. Len(queue') /\ queue'[n + 1] = RowsItem(rows)
  <2>1. SUFFICES ASSUME S # {} PROVE n + 1 \in 1 .. Len(queue') /\ queue'[n + 1] = RowsItem(rows)
    OBVIOUS
  <2>2. k = 1 /\ steps[1] = RowsItem(rows)
    BY <1>5, <1>7, <2>1
  <2>3. /\ n + 1 \in 1 .. n + k + m /\ n + 1 \in 1 .. n + k
        /\ n + 1 <= n + k /\ ~(n + 1 <= n) /\ (n + 1) - n = 1
    BY <1>1, <1>3, <2>2
  <2>4. queue'[n + 1] = (queue \o steps)[n + 1]
    BY <1>9, <2>3
  <2>5. (queue \o steps)[n + 1] = steps[1]
    BY <1>8, <2>3
  <2> QED BY <1>9, <2>2, <2>3, <2>4, <2>5
<1>12. ASSUME NEW i \in n + k + 1 .. n + k + m
       PROVE  i - (n + k) \in 1 .. m /\ queue'[i] = FinishItem(fs[i - (n + k)])
  <2>1. i - (n + k) \in 1 .. m /\ i \in 1 .. n + k + m /\ ~(i <= n + k)
    BY <1>1, <1>3, <1>7
  <2> QED BY <1>6, <1>9, <2>1
<1>13. RowsItem(rows).kind = "rows" /\ RowsItem(rows).req = NoReq /\ RowsItem(rows).rows = rows
  BY DEF RowsItem
<1>14. DOMAIN rows = S /\ \A r \in S : rows[r] = captured[r]
  BY DEF rows
<1>15. ASSUME NEW i \in n + 1 .. Len(queue')
       PROVE  \/ /\ i = n + 1 /\ S # {} /\ queue'[i].kind = "rows" /\ queue'[i].req = NoReq
                 /\ DOMAIN queue'[i].rows = S /\ \A r \in S : queue'[i].rows[r] = captured[r]
              \/ /\ queue'[i].kind = "finish" /\ queue'[i].req \in F
                 /\ DOMAIN queue'[i].rows = {}
  <2>1. CASE S # {} /\ i = n + 1
    BY <1>11, <1>13, <1>14, <2>1
  <2>2. CASE ~(S # {} /\ i = n + 1)
    <3>1. i \in n + k + 1 .. n + k + m
      BY <1>1, <1>3, <1>7, <1>9, <2>2
    <3>2. i - (n + k) \in 1 .. m /\ queue'[i] = FinishItem(fs[i - (n + k)])
      BY <1>12, <3>1
    <3>3. fs[i - (n + k)] \in F
      BY <1>2, <3>2
    <3> QED BY <1>1, <3>2, <3>3, NoRows DEF FinishItem
  <2> QED BY <2>1, <2>2
<1>16. ASSUME NEW r \in F PROVE \E i \in n + 1 .. Len(queue') : queue'[i].req = r
  <2>1. PICK i \in 1 .. m : fs[i] = r
    BY <1>3
  <2>2. n + k + i \in n + k + 1 .. n + k + m /\ (n + k + i) - (n + k) = i
    BY <1>1, <1>3, <1>7
  <2>3. queue'[n + k + i] = FinishItem(r)
    BY <1>12, <2>1, <2>2
  <2>4. n + k + i \in n + 1 .. Len(queue')
    BY <1>1, <1>7, <1>9, <2>2
  <2> QED BY <2>3, <2>4 DEF FinishItem
<1>17. ASSUME NEW i \in n + 1 .. Len(queue'), NEW j \in n + 1 .. Len(queue'), i < j
       PROVE  queue'[j].req # queue'[i].req /\ DOMAIN queue'[j].rows = {}
  <2>1. j \in n + k + 1 .. n + k + m
    BY <1>1, <1>3, <1>7, <1>9, <1>17
  <2>2. j - (n + k) \in 1 .. m /\ queue'[j] = FinishItem(fs[j - (n + k)])
    BY <1>12, <2>1
  <2>3. queue'[j].req = fs[j - (n + k)] /\ DOMAIN queue'[j].rows = {}
    BY <2>2, NoRows DEF FinishItem
  <2>4. queue'[j].req \in F /\ NoReq \notin F
    BY <1>1, <1>2, <2>2, <2>3, PerRequestAssumption
  <2>5. CASE S # {} /\ i = n + 1
    BY <1>11, <1>13, <2>3, <2>4, <2>5
  <2>6. CASE ~(S # {} /\ i = n + 1)
    <3>1. i \in n + k + 1 .. n + k + m
      BY <1>1, <1>3, <1>7, <1>9, <2>6
    <3>2. i - (n + k) \in 1 .. m /\ queue'[i] = FinishItem(fs[i - (n + k)])
      BY <1>12, <3>1
    <3>3. i - (n + k) # j - (n + k)
      BY <1>1, <1>7, <1>17
    <3>4. fs[i - (n + k)] # fs[j - (n + k)]
      BY <1>2, <2>2, <3>2, <3>3 DEF m
    <3> QED BY <2>3, <3>2, <3>4 DEF FinishItem
  <2> QED BY <2>3, <2>5, <2>6
<1>18. Len(queue') \in Nat /\ n <= Len(queue')
  BY <1>1, <1>3, <1>7, <1>9
<1>19. S # {} => /\ DOMAIN queue'[n + 1].rows = S
                 /\ \A r \in S : queue'[n + 1].rows[r] = captured[r]
  BY <1>11, <1>13, <1>14
<1> QED BY <1>9, <1>10, <1>11, <1>15, <1>16, <1>17, <1>18, <1>19 DEF n

-----------------------------------------------------------------------------
(* Type correctness. *)

LEMMA TypeInit == Init => TypeOK
<1> SUFFICES ASSUME Init PROVE TypeOK
  OBVIOUS
<1>1. Empty \in RowSets
  BY DEF Empty, RowSets
<1>2. ClientType /\ EngineType
  BY <1>1, PerRequestAssumption DEF Init, ClientType, EngineType
<1>3. WorkerType /\ DrainType
  BY ItemTypes DEF Init, WorkerType, DrainType, IdleWorker, IdleConsumer, Stages
<1>4. TableType /\ HostType /\ DirType
  BY <1>1 DEF Init, TableType, HostType, DirType
<1>5. OffloadType
  BY OffloadAssumption DEF Init, OffloadInit, OffloadType
<1> QED BY <1>2, <1>3, <1>4, <1>5 DEF TypeOK

LEMMA TypeFrames ==
  /\ ClientType /\ UNCHANGED clientVars => ClientType'
  /\ EngineType /\ UNCHANGED engineVars => EngineType'
  /\ WorkerType /\ UNCHANGED worker => WorkerType'
  /\ DrainType /\ UNCHANGED <<queue, consumer>> => DrainType'
  /\ TableType /\ UNCHANGED tableVars => TableType'
  /\ HostType /\ UNCHANGED hostVars => HostType'
  /\ DirType /\ UNCHANGED dirVars => DirType'
  /\ OffloadType /\ UNCHANGED offloadVars => OffloadType'
<1>1. ClientType /\ UNCHANGED clientVars => ClientType'
  BY DEF ClientType, clientVars
<1>2. EngineType /\ UNCHANGED engineVars => EngineType'
  BY DEF EngineType, engineVars
<1>3. WorkerType /\ UNCHANGED worker => WorkerType'
  BY DEF WorkerType
<1>4. DrainType /\ UNCHANGED <<queue, consumer>> => DrainType'
  BY DEF DrainType
<1>5. TableType /\ UNCHANGED tableVars => TableType'
  BY DEF TableType, tableVars
<1>6. HostType /\ UNCHANGED hostVars => HostType'
  BY DEF HostType, hostVars
<1>7. DirType /\ UNCHANGED dirVars => DirType'
  BY DEF DirType, dirVars
<1>8. OffloadType /\ UNCHANGED offloadVars => OffloadType'
  BY DEF OffloadType, offloadVars
<1> QED BY <1>1, <1>2, <1>3, <1>4, <1>5, <1>6, <1>7, <1>8

LEMMA RequestsType ==
  ASSUME TypeOK, Requests PROVE TypeOK'
<1> USE TypeFrames DEF TypeOK
<1>1. ASSUME NEW S \in SUBSET running, NEW F \in SUBSET ended, ExecuteModel(S, F) PROVE TypeOK'
  <2>1. DrainType'
    BY <1>1, Enqueued DEF ExecuteModel, DrainType
  <2>2. captured' \in [Reqs -> Nat] /\ \A r \in Reqs : captured'[r] <= MaxRows[r]
    <3>1. captured' = [r \in Reqs |-> captured[r] + (IF r \in S THEN 1 ELSE 0)]
          /\ \A r \in S : captured[r] < MaxRows[r]
      BY <1>1 DEF ExecuteModel
    <3>2. \A r \in Reqs : captured[r] \in Nat /\ MaxRows[r] \in Nat /\ captured[r] <= MaxRows[r]
      BY PerRequestAssumption DEF EngineType
    <3> HIDE DEF TypeOK
    <3> QED BY <3>1, <3>2
  <2>3. EngineType'
    BY <1>1, <2>2 DEF ExecuteModel, EngineType
  <2> QED BY <1>1, <2>1, <2>3 DEF ExecuteModel
<1>2. ASSUME NEW r \in Reqs, Start(r) PROVE TypeOK'
  <2>1. ClientType'
    BY <1>2 DEF Start, ClientType
  <2>2. EngineType'
    BY <1>2 DEF Start, EngineType
  <2>3. TableType'
    BY <1>2 DEF Start, TableType
  <2> QED BY <1>2, <2>1, <2>2, <2>3 DEF Start
<1>3. ASSUME NEW r \in Reqs, EndRequest(r) PROVE TypeOK'
  <2>1. ClientType'
    BY <1>3 DEF EndRequest, ClientType
  <2>2. EngineType'
    BY <1>3 DEF EndRequest, EngineType
  <2> QED BY <1>3, <2>1, <2>2 DEF EndRequest
<1>4. ASSUME NEW r \in Reqs, Get(r) PROVE TypeOK'
  <2>1. Stashed \in RowSets /\ LeftInIndex \in RowSets
    BY DEF HostType, RowSets, Stashed, LeftInIndex
  <2>2. ClientType'
    BY <1>4, <2>1 DEF Get, ClientType, RowSets
  <2>3. HostType'
    BY <1>4, <2>1 DEF Get, HostType, RowSets
  <2> QED BY <1>4, <2>2, <2>3 DEF Get
<1>5. ASSUME NEW r \in Reqs, Confirm(r) PROVE TypeOK'
  <2>1. ClientType'
    BY <1>5 DEF Confirm, ClientType
  <2>2. TableType'
    BY <1>5 DEF Confirm, TableType
  <2>3. DirType'
    BY <1>5 DEF Confirm, DirType
  <2> QED BY <1>5, <2>1, <2>2, <2>3 DEF Confirm
<1>6. ASSUME NEW r \in Reqs, ClearDisk(r) PROVE TypeOK'
  <2>1. ClientType'
    BY <1>6 DEF ClearDisk, ClientType
  <2>2. TableType'
    BY <1>6 DEF ClearDisk, TableType
  <2>3. WorkerType'
    BY <1>6 DEF ClearDisk, WorkerType
  <2> QED BY <1>6, <2>1, <2>2, <2>3 DEF ClearDisk
<1> QED BY <1>1, <1>2, <1>3, <1>4, <1>5, <1>6 DEF Requests

LEMMA ClearingType ==
  ASSUME TypeOK, HostInv, Clearing PROVE TypeOK'
<1> USE TypeFrames DEF TypeOK
<1>0. worker.at # "idle" => worker.req \in Reqs
  BY DEF HostInv
<1>1. CASE ClearSource
  <2>1. WorkerType'
    BY <1>1 DEF ClearSource, WorkerType
  <2>2. TableType'
    BY <1>0, <1>1 DEF ClearSource, TableType
  <2>3. DirType'
    BY <1>1 DEF ClearSource, DirType
  <2> QED BY <1>1, <2>1, <2>2, <2>3 DEF ClearSource
<1>2. CASE MarkHost
  <2>1. WorkerType'
    BY <1>2 DEF MarkHost, WorkerType
  <2>2. TableType'
    BY <1>0, <1>2 DEF MarkHost, TableType
  <2> QED BY <1>2, <2>1, <2>2 DEF MarkHost
<1>3. CASE FreeHost
  <2>1. Stashed \in RowSets /\ LeftInIndex \in RowSets
    BY DEF HostType, RowSets, Stashed, LeftInIndex
  <2>2. HostType'
    BY <1>3, <2>1 DEF FreeHost, HostType, RowSets
  <2>3. WorkerType'
    BY <1>3 DEF FreeHost, WorkerType, IdleWorker
  <2> QED BY <1>3, <2>2, <2>3 DEF FreeHost
<1> QED BY <1>1, <1>2, <1>3 DEF Clearing

LEMMA ConsumerType ==
  ASSUME TypeOK, ConsumerInv, Consumer PROVE TypeOK'
<1> USE TypeFrames DEF TypeOK
<1>1. CASE TakeItem
  <2>1. queue' \in Seq(Items) /\ Head(queue) \in Items
    <3>1. queue # <<>> /\ queue' = Tail(queue)
      BY <1>1 DEF TakeItem
    <3> QED BY <3>1, Taken, ZenonT(40)
  <2>2. DOMAIN Head(queue).rows \subseteq Reqs /\ Head(queue).req \in Reqs \cup {NoReq}
    BY <2>1, RowMapTypes DEF Items
  <2>3. routed \subseteq Reqs
    BY DEF TableType
  <2>4. DrainType'
    BY <1>1, <2>1, <2>2, <2>3 DEF TakeItem, DrainType, IdleConsumer, Stages
  <2> QED BY <1>1, <2>4 DEF TakeItem
<1>2. CASE AppendRows
  <2>1. consumer.req \in Reqs /\ consumer.item.rows[consumer.req] \in Nat
    BY <1>2, QueueTypes DEF AppendRows, ConsumerInv, DrainType
  <2>2. DirType'
    BY <1>2, <2>1 DEF AppendRows, DirType, RowSets
  <2>3. DrainType'
    BY <1>2 DEF AppendRows, DrainType, Stages
  <2> QED BY <1>2, <2>2, <2>3 DEF AppendRows
<1>3. CASE AppendFails
  <2>1. consumer.req \in Reqs
    BY <1>3, QueueTypes DEF AppendFails, ConsumerInv, DrainType
  <2>2. DirType'
    BY <1>3, <2>1 DEF AppendFails, DirType
  <2>3. DrainType'
    BY <1>3 DEF AppendFails, DrainType, Stages
  <2>4. TableType'
    BY <1>3, <2>1 DEF AppendFails, TableType
  <2> QED BY <1>3, <2>2, <2>3, <2>4 DEF AppendFails
<1>4. CASE NoteRows
  <2>1. \A r \in consumer.staged : consumer.item.rows[r] \in Nat
    BY QueueTypes DEF ConsumerInv
  <2>2. HostType'
    BY <1>4, <2>1 DEF NoteRows, HostType, RowSets
  <2>3. DrainType'
    BY <1>4, ItemTypes DEF NoteRows, DrainType, Stages, IdleConsumer
  <2> QED BY <1>4, <2>2, <2>3 DEF NoteRows
<1>5. CASE HandleFinish
  <2>1. consumer'.at \in Stages /\ consumer' = [consumer EXCEPT !.at = consumer'.at]
    BY <1>5 DEF HandleFinish, Stages, DrainType
  <2>2. DrainType'
    BY <1>5, <2>1 DEF HandleFinish, DrainType
  <2>3. TableType'
    BY <1>5 DEF HandleFinish, TableType
  <2> QED BY <1>5, <2>2, <2>3 DEF HandleFinish
<1>6. CASE DiscardStaging
  <2>1. DrainType'
    BY <1>6 DEF DiscardStaging, DrainType, Stages
  <2>2. DirType'
    BY <1>6 DEF DiscardStaging, DirType
  <2> QED BY <1>6, <2>1, <2>2 DEF DiscardStaging
<1>7. CASE SubmitStaging
  <2>1. consumer.req \in Reqs
    BY <1>7 DEF SubmitStaging, ConsumerInv
  <2>2. OffloadType'
    <3>1. /\ jobs' \in {jobs, Append(jobs, consumer.req)}
          /\ inflight' \subseteq inflight \cup {consumer.req} /\ event' \subseteq event
          /\ UNCHANGED <<transfer, attempt, result>>
      BY <1>7 DEF SubmitStaging, Submit, offloadVars
    <3>2. jobs' \in Seq(Reqs)
      BY <2>1, <3>1 DEF OffloadType
    <3> QED BY <2>1, <3>1, <3>2 DEF OffloadType
  <2>3. DrainType'
    BY <1>7 DEF SubmitStaging, DrainType, Stages
  <2>4. DirType'
    BY <1>7, <2>1 DEF SubmitStaging, DirType
  <2> QED BY <1>7, <2>2, <2>3, <2>4 DEF SubmitStaging
<1>8. CASE FinishHost
  <2>1. consumer.req \in Reqs
    BY <1>8 DEF FinishHost, ConsumerInv
  <2>2. DrainType'
    BY <1>8 DEF FinishHost, DrainType, Stages
  <2>3. HostType'
    BY <1>8, <2>1 DEF FinishHost, HostType, RowSets
  <2>4. TableType'
    BY <1>8 DEF FinishHost, TableType
  <2> QED BY <1>8, <2>2, <2>3, <2>4 DEF FinishHost
<1>9. CASE ReclaimSettled
  <2>1. DrainType'
    BY <1>9, ItemTypes DEF ReclaimSettled, DrainType, Stages, IdleConsumer
  <2>2. TableType'
    BY <1>9 DEF ReclaimSettled, TableType
  <2>3. DirType'
    BY <1>9 DEF ReclaimSettled, DirType
  <2> QED BY <1>9, <2>1, <2>2, <2>3 DEF ReclaimSettled
<1>10. ASSUME NEW r \in Reqs, DemuxHost(r) PROVE TypeOK'
  <2>1. DrainType'
    BY <1>10 DEF DemuxHost, DrainType
  <2> QED BY <1>10, <2>1 DEF DemuxHost
<1>11. ASSUME NEW r \in Reqs, DemuxDisk(r) PROVE TypeOK'
  <2>1. DrainType'
    BY <1>11, ZenonT(40) DEF DemuxDisk, DrainType, Stages
  <2>2. TableType'
    BY <1>11 DEF DemuxDisk, TableType
  <2>3. DirType'
    BY <1>11 DEF DemuxDisk, DirType
  <2> QED BY <1>11, <2>1, <2>2, <2>3 DEF DemuxDisk
<1> QED BY <1>1, <1>2, <1>3, <1>4, <1>5, <1>6, <1>7, <1>8, <1>9, <1>10, <1>11 DEF Consumer

LEMMA OffloadWorkerType ==
  ASSUME TypeOK, Offload PROVE TypeOK'
<1> USE TypeFrames, OffloadAssumption DEF TypeOK
<1>1. CASE OffloadTakes
  <2>1. jobs' \in Seq(Reqs) /\ transfer' \in Reqs
    BY <1>1, HeadTailProperties DEF OffloadTakes, TakeJob, OffloadType
  <2>2. OffloadType'
    BY <1>1, <2>1 DEF OffloadTakes, TakeJob, OffloadType
  <2> QED BY <1>1, <2>2 DEF OffloadTakes
<1>2. CASE CopyDirectory
  <2>1. OffloadType'
    BY <1>2 DEF CopyDirectory, Settle, OffloadType
  <2>2. DirType'
    BY <1>2 DEF CopyDirectory, DirType, RowSets
  <2> QED BY <1>2, <2>1, <2>2 DEF CopyDirectory
<1>3. CASE CopyFails
  <2>1. OffloadType'
    BY <1>3 DEF CopyFails, Retry, GivesUp, Settle, OffloadType
  <2> QED BY <1>3, <2>1 DEF CopyFails
<1> QED BY <1>1, <1>2, <1>3 DEF Offload

LEMMA TypeStep == TypeOK /\ ConsumerInv /\ HostInv /\ [Next]_vars => TypeOK'
<1>1. ASSUME TypeOK, UNCHANGED vars PROVE TypeOK'
  BY <1>1, TypeFrames DEF TypeOK, vars
<1> QED BY <1>1, RequestsType, ClearingType, ConsumerType, OffloadWorkerType DEF Next

-----------------------------------------------------------------------------
(* What the steps do to the queue. *)

\* A step moves requests from the engine to the queue and adds its rows.
LEMMA ExecuteEnlists ==
  ASSUME TypeOK, QueueInv, NEW S \in SUBSET running, NEW F \in SUBSET ended, ExecuteModel(S, F)
  PROVE  /\ \A r \in Reqs : Enlisted(r)' <=> Enlisted(r)
         /\ \A r \in Reqs : FinishQueued(r)' => FinishQueued(r) \/ r \in F
         /\ \A r \in Reqs : \A x : RowQueued(r, x)' <=> RowQueued(r, x) \/ (r \in S /\ x = captured[r])
<1> DEFINE n == Len(queue)
<1>1. /\ n \in Nat /\ Len(queue') \in Nat /\ n <= Len(queue')
      /\ \A i \in 1 .. n : queue'[i] = queue[i]
      /\ \A i \in n + 1 .. Len(queue') :
           \/ /\ S # {} /\ queue'[i].req = NoReq
              /\ DOMAIN queue'[i].rows = S /\ \A r \in S : queue'[i].rows[r] = captured[r]
           \/ queue'[i].req \in F /\ DOMAIN queue'[i].rows = {}
      /\ \A r \in F : \E i \in n + 1 .. Len(queue') : queue'[i].req = r
      /\ S # {} => /\ n + 1 \in 1 .. Len(queue') /\ DOMAIN queue'[n + 1].rows = S
                   /\ \A r \in S : queue'[n + 1].rows[r] = captured[r]
  BY Enqueued, QueueTypes
<1>2. UNCHANGED running /\ ended' = ended \ F /\ S \subseteq running /\ F \subseteq ended
  BY DEF ExecuteModel
<1> HIDE DEF n
<1>3. \A i \in 1 .. Len(queue') : i \in 1 .. n \/ i \in n + 1 .. Len(queue')
  BY <1>1
<1>4. \A i \in 1 .. n : i \in 1 .. Len(queue')
  BY <1>1
<1>5. \A i \in n + 1 .. Len(queue') : i \in 1 .. Len(queue')
  BY <1>1
<1>6. ASSUME NEW r \in Reqs
      PROVE  FinishQueued(r)' <=> FinishQueued(r) \/ r \in F
  <2>1. ASSUME NEW i \in 1 .. Len(queue'), queue'[i].req = r PROVE FinishQueued(r) \/ r \in F
    <3>1. CASE i \in 1 .. n
      BY <1>1, <2>1, <3>1 DEF FinishQueued, n
    <3>2. CASE i \in n + 1 .. Len(queue')
      BY <1>1, <2>1, <3>2, PerRequestAssumption
    <3> QED BY <1>3, <3>1, <3>2
  <2>2. ASSUME FinishQueued(r) PROVE FinishQueued(r)'
    BY <1>1, <1>4, <2>2 DEF FinishQueued, n
  <2>3. ASSUME r \in F PROVE FinishQueued(r)'
    BY <1>1, <1>5, <2>3 DEF FinishQueued
  <2> QED BY <2>1, <2>2, <2>3 DEF FinishQueued
<1>7. ASSUME NEW r \in Reqs, NEW x
      PROVE  RowQueued(r, x)' <=> RowQueued(r, x) \/ (r \in S /\ x = captured[r])
  <2>1. ASSUME NEW i \in 1 .. Len(queue'), r \in DOMAIN queue'[i].rows, queue'[i].rows[r] = x
        PROVE  RowQueued(r, x) \/ (r \in S /\ x = captured[r])
    <3>1. CASE i \in 1 .. n
      BY <1>1, <2>1, <3>1 DEF RowQueued, n
    <3>2. CASE i \in n + 1 .. Len(queue')
      BY <1>1, <2>1, <3>2
    <3> QED BY <1>3, <3>1, <3>2
  <2>2. ASSUME RowQueued(r, x) PROVE RowQueued(r, x)'
    BY <1>1, <1>4, <2>2 DEF RowQueued, n
  <2>3. ASSUME r \in S, x = captured[r] PROVE RowQueued(r, x)'
    BY <1>1, <2>3 DEF RowQueued
  <2> QED BY <2>1, <2>2, <2>3 DEF RowQueued
<1> QED BY <1>2, <1>6, <1>7 DEF Enlisted

\* Taking an item moves a finish, or the rows of a step, to the consumer.
LEMMA TakeMoves ==
  ASSUME TypeOK, QueueInv, ConsumerInv, TakeItem
  PROVE  /\ consumer.at = "get" /\ consumer.todo = {} /\ consumer.staged = {}
         /\ consumer'.staged = {} /\ consumer'.todo = DOMAIN consumer'.item.rows
         /\ UNCHANGED <<clientVars, engineVars, worker, tableVars, hostVars, dirVars, offloadVars>>
         /\ \/ /\ consumer'.at = "demux" /\ consumer'.req = NoReq /\ consumer'.routes = routed
               /\ \A r \in Reqs : FinishQueued(r)' <=> FinishQueued(r)
               /\ \A r \in DOMAIN consumer'.item.rows :
                    r \in Reqs /\ Enlisted(r) /\ RowQueued(r, consumer'.item.rows[r])
            \/ /\ consumer'.at = "finish" /\ consumer'.req \in Reqs /\ consumer'.routes = {}
               /\ DOMAIN consumer'.item.rows = {} /\ FinishQueued(consumer'.req)
               /\ \A r \in Reqs : FinishQueued(r)' <=> FinishQueued(r) /\ r # consumer'.req
               /\ NoRowsQueued(consumer.req)'
         /\ \A r \in Reqs : \A x : RowQueued(r, x) <=>
              \/ RowQueued(r, x)'
              \/ r \in DOMAIN consumer'.item.rows /\ consumer'.item.rows[r] = x
<1> USE DEF NoRowsQueued
<1> DEFINE h == Head(queue)
<1>1. /\ Len(queue) \in Nat /\ 1 \in 1 .. Len(queue) /\ h = queue[1] /\ h \in Items
      /\ Len(queue') = Len(queue) - 1
      /\ \A i \in 1 .. Len(queue') : i + 1 \in 1 .. Len(queue) /\ queue'[i] = queue[i + 1]
      /\ \A i \in 1 .. Len(queue) : i # 1 => i - 1 \in 1 .. Len(queue') /\ queue'[i - 1] = queue[i]
  BY Taken, QueueTypes DEF TakeItem
<1>2. /\ \/ h.kind = "rows" /\ h.req = NoReq
         \/ h.kind = "finish" /\ h.req \in Reqs /\ DOMAIN h.rows = {}
      /\ \A r \in DOMAIN h.rows : r \in Reqs /\ Enlisted(r)
  BY <1>1, QueueTypes DEF QueueInv
<1>3. consumer'.item = h
  BY DEF TakeItem, DrainType, IdleConsumer
<1>4. /\ consumer.at = "get"
      /\ IF h.kind = "rows"
         THEN consumer'.at = "demux" /\ consumer'.req = NoReq /\ consumer'.routes = routed
              /\ consumer'.todo = DOMAIN h.rows /\ consumer'.staged = {}
         ELSE consumer'.at = "finish" /\ consumer'.req = h.req /\ consumer'.routes = {}
              /\ consumer'.todo = {} /\ consumer'.staged = {}
      /\ UNCHANGED <<clientVars, engineVars, worker, tableVars, hostVars, dirVars, offloadVars>>
  BY DEF TakeItem, IdleConsumer
<1> HIDE DEF h
<1>5. ASSUME NEW r \in Reqs
      PROVE  FinishQueued(r) <=> FinishQueued(r)' \/ h.req = r
  <2>1. FinishQueued(r)' => FinishQueued(r)
    BY <1>1 DEF FinishQueued
  <2>2. h.req = r => FinishQueued(r)
    BY <1>1 DEF FinishQueued
  <2>3. ASSUME NEW i \in 1 .. Len(queue), queue[i].req = r PROVE FinishQueued(r)' \/ h.req = r
    <3>1. CASE i = 1
      BY <1>1, <2>3, <3>1
    <3>2. CASE i # 1
      BY <1>1, <2>3, <3>2 DEF FinishQueued
    <3> QED BY <3>1, <3>2
  <2> QED BY <2>1, <2>2, <2>3 DEF FinishQueued
<1>6. ASSUME NEW r \in Reqs, NEW x
      PROVE  RowQueued(r, x) <=> RowQueued(r, x)' \/ (r \in DOMAIN h.rows /\ h.rows[r] = x)
  <2>1. RowQueued(r, x)' => RowQueued(r, x)
    BY <1>1 DEF RowQueued
  <2>2. r \in DOMAIN h.rows /\ h.rows[r] = x => RowQueued(r, x)
    BY <1>1 DEF RowQueued
  <2>3. ASSUME NEW i \in 1 .. Len(queue), r \in DOMAIN queue[i].rows, queue[i].rows[r] = x
        PROVE  RowQueued(r, x)' \/ (r \in DOMAIN h.rows /\ h.rows[r] = x)
    <3>1. CASE i = 1
      BY <1>1, <2>3, <3>1
    <3>2. CASE i # 1
      BY <1>1, <2>3, <3>2 DEF RowQueued
    <3> QED BY <3>1, <3>2
  <2> QED BY <2>1, <2>2, <2>3 DEF RowQueued
<1>7. ASSUME h.req \in Reqs, NEW i \in 1 .. Len(queue')
      PROVE  queue'[i].req # h.req /\ h.req \notin DOMAIN queue'[i].rows
  <2>1. i + 1 \in 1 .. Len(queue) /\ queue'[i] = queue[i + 1] /\ 1 < i + 1
    BY <1>1
  <2> QED BY <1>1, <1>7, <2>1 DEF QueueInv
<1>8. consumer.todo = {} /\ consumer.staged = {}
  BY <1>4 DEF ConsumerInv
<1>9. CASE h.kind = "rows"
  <2>1. \A r \in Reqs : h.req # r
    BY <1>2, <1>9, PerRequestAssumption
  <2>2. \A r \in DOMAIN h.rows : r \in Reqs /\ Enlisted(r) /\ RowQueued(r, h.rows[r])
    BY <1>2, <1>6
  <2> QED BY <1>3, <1>4, <1>5, <1>6, <1>8, <1>9, <2>1, <2>2
<1>10. CASE h.kind # "rows"
  <2>1. h.req \in Reqs /\ DOMAIN h.rows = {}
    BY <1>2, <1>10
  <2>2. \A r \in Reqs : FinishQueued(r)' => r # h.req
    BY <1>7, <2>1 DEF FinishQueued
  <2> QED BY <1>3, <1>4, <1>5, <1>6, <1>7, <1>8, <1>10, <2>1, <2>2
<1> QED BY <1>9, <1>10

\* The other steps leave the queue alone.
LEMMA SameQueue ==
  ASSUME UNCHANGED queue
  PROVE  /\ \A r : FinishQueued(r)' <=> FinishQueued(r)
         /\ \A r : NoRowsQueued(r)' <=> NoRowsQueued(r)
         /\ \A r, x : RowQueued(r, x)' <=> RowQueued(r, x)
BY DEF FinishQueued, NoRowsQueued, RowQueued

LEMMA NoRowOf ==
  ASSUME NEW r, NoRowsQueued(r), NEW x PROVE ~RowQueued(r, x)
BY DEF NoRowsQueued, RowQueued

-----------------------------------------------------------------------------
(* What each part of the invariant depends on. *)

LEMMA Basics ==
  ASSUME TypeOK
  PROVE  /\ client \in [Reqs -> {"new", "running", "awaiting", "served", "cleared"}]
         /\ transport \in [Reqs -> {"rpc", "disk"}] /\ captured \in [Reqs -> Nat]
         /\ running \subseteq Reqs /\ ended \subseteq Reqs /\ confirmed \subseteq Reqs
         /\ routed \subseteq Reqs /\ staging \subseteq Reqs /\ deliveredSrc \subseteq Reqs
         /\ pending \subseteq Reqs /\ diskAborted \subseteq Reqs /\ hostAborted \subseteq Reqs
         /\ unstaged \subseteq Reqs /\ deliverable \subseteq Reqs /\ dirs \subseteq Reqs
         /\ consumer.routes \subseteq Reqs /\ consumer.req \in Reqs \cup {NoReq}
         /\ index \in [Reqs -> SUBSET Nat] /\ stash \in [Reqs -> SUBSET Nat]
         /\ dirRows \in [Reqs -> SUBSET Nat] /\ destRows \in [Reqs -> SUBSET Nat]
         /\ got \in [Reqs -> SUBSET Nat]
<1>1. consumer.routes \subseteq Reqs /\ consumer.req \in Reqs \cup {NoReq}
  BY DEF TypeOK, DrainType
<1> QED BY <1>1 DEF TypeOK, ClientType, EngineType, TableType, HostType, DirType, RowSets

Parts == TypeOK /\ RowsInv /\ QueueInv /\ ConsumerInv /\ OffloadInv /\ DiskInv /\ HostInv

LEMMA RowsFrame ==
  ASSUME RowsInv, UNCHANGED <<captured, queue, got, index, stash, dirRows, destRows>>,
         consumer'.item = consumer.item \/ DOMAIN consumer'.item.rows = {}
  PROVE  RowsInv'
BY DEF RowsInv, RowsOf

LEMMA QueueFrame ==
  ASSUME TypeOK, QueueInv, UNCHANGED <<running, ended, captured, queue>>,
         \A r \in Reqs : client'[r] = "new" => client[r] = "new",
         \A r \in Reqs : Handling(r)' => Handling(r)
  PROVE  QueueInv'
<1>1. \A r : /\ FinishQueued(r)' <=> FinishQueued(r)
             /\ Enlisted(r)' <=> Enlisted(r)
  BY SameQueue DEF Enlisted
<1>2. running \cup ended \subseteq Reqs
  BY DEF TypeOK, EngineType
<1> QED BY <1>1, <1>2 DEF QueueInv

LEMMA ConsumerFrame ==
  ASSUME ConsumerInv, UNCHANGED <<running, ended, queue, consumer, transport>>,
         routed' \subseteq routed, staging \subseteq staging',
         \A r \in Reqs : client'[r] = "new" => client[r] = "new", consumer.routes \subseteq Reqs
  PROVE  ConsumerInv'
<1>1. \A r : /\ NoRowsQueued(r)' <=> NoRowsQueued(r)
             /\ Enlisted(r)' <=> Enlisted(r)
  BY SameQueue DEF Enlisted
<1> QED BY <1>1 DEF ConsumerInv

LEMMA OffloadFrame ==
  ASSUME OffloadInv, UNCHANGED <<offloadVars, captured, dirRows>>,
         \A r \in Reqs : Unfinished(r)' => Unfinished(r),
         consumer'.at = "submit" => consumer.at = "submit" /\ consumer'.req = consumer.req,
         \A r \in dirs : r \in inflight \/ (consumer.at = "submit" /\ consumer.req = r) => r \in dirs'
  PROVE  OffloadInv'
<1>1. \A r : NotSubmitted(r)' <=> NotSubmitted(r)
  BY DEF NotSubmitted, offloadVars
<1>2. UNCHANGED <<inflight, event>>
  BY DEF offloadVars
<1> QED BY <1>1, <1>2 DEF OffloadInv, SourceOutlivesTransfer, RowsOf

LEMMA DiskFrame ==
  ASSUME TypeOK, DiskInv,
         UNCHANGED <<transport, routed, staging, diskAborted, deliveredSrc, unstaged, dirs>>,
         \A r \in Reqs : Coming(r)' <=> Coming(r),
         \A r \in Reqs : client'[r] \in {"new", "cleared"} => client[r] \in {"new", "cleared"},
         \A r \in routed \ diskAborted : \A x \in RowsOf(r)' :
           (x \in RowsOf(r) => StagedOrComing(r, x)) => StagedOrComing(r, x)',
         \A r \in dirs : DirAwaited(r) => DirAwaited(r)'
  PROVE  DiskInv'
<1>1. \A r \in routed : transport'[r] = "disk" /\ client'[r] \notin {"new", "cleared"} /\ Coming(r)'
  BY Basics DEF DiskInv
<1>2. \A r \in staging \cup diskAborted : transport'[r] = "disk" /\ Coming(r)'
  BY Basics DEF DiskInv
<1>3. \A r \in Reqs : transport'[r] = "disk" /\ Coming(r)' => r \in routed \cup diskAborted
  BY DEF DiskInv
<1>4. \A r \in deliveredSrc : ~Coming(r)' /\ client'[r] \notin {"new", "cleared"}
  BY Basics DEF DiskInv
<1>5. \A r \in unstaged : client'[r] \notin {"new", "cleared"}
  BY Basics DEF DiskInv
<1>6. \A r \in routed \ diskAborted : \A x \in RowsOf(r)' : StagedOrComing(r, x)'
  BY DEF DiskInv
<1>7. \A r \in dirs : DirAwaited(r)'
  BY DEF DiskInv
<1>8. \A r \in staging : r \in dirs
  BY DEF DiskInv
<1> QED BY <1>1, <1>2, <1>3, <1>4, <1>5, <1>6, <1>7, <1>8 DEF DiskInv

LEMMA HostFrame ==
  ASSUME TypeOK, HostInv, UNCHANGED <<transport, index, stash, deliverable, got, hostAborted>>,
         \A r \in Reqs : RowsOf(r)' = RowsOf(r) \/ Unfinished(r),
         \A r \in Reqs : client'[r] = "new" => client[r] = "new",
         \A r \in Reqs : client[r] = "cleared" => client'[r] = "cleared",
         \A r \in Reqs : Unfinished(r)' => Unfinished(r),
         \A r \in Reqs : (Enlisted(r) \/ Handling(r))' => Enlisted(r) \/ Handling(r),
         worker'.at # "idle" => worker'.req \in Reqs /\ client'[worker'.req] = "cleared",
         \A r \in Reqs : \A x \in RowsOf(r)' :
           (Enlisted(r) \/ Handling(r))' /\ transport[r] = "rpc"
             /\ (x \in RowsOf(r) => IndexedOrComing(r, x)) => IndexedOrComing(r, x)'
  PROVE  HostInv'
<1>1. \A r \in hostAborted : client'[r] = "cleared"
  BY Basics DEF HostInv
<1>2. \A r \in Reqs : transport'[r] = "disk" \/ client'[r] = "new" =>
        index[r] = {} /\ stash[r] = {} /\ r \notin deliverable \cup hostAborted
  BY DEF HostInv
<1>3. \A r \in Reqs : Unfinished(r)' => r \notin deliverable /\ stash[r] = {} /\ got[r] = {}
  BY DEF HostInv
<1>4. \A r \in Reqs : r \in deliverable \/ stash[r] # {} \/ got[r] # {} => RowsOf(r)' = RowsOf(r)
  BY DEF HostInv
<1>5. HostRowsAreWhole'
  BY <1>4, Basics DEF HostInv, HostRowsAreWhole
<1>6. \A r \in Reqs : stash[r] # {} /\ client'[r] # "cleared" => stash[r] = RowsOf(r)'
  BY <1>4 DEF HostInv
<1>7. ASSUME NEW r \in Reqs, transport'[r] = "rpc", client'[r] # "cleared",
             (Enlisted(r) \/ Handling(r))', NEW x \in RowsOf(r)'
      PROVE  IndexedOrComing(r, x)'
  BY <1>7 DEF HostInv
<1> QED BY <1>1, <1>2, <1>3, <1>5, <1>6, <1>7 DEF HostInv

\* A request's place in the engine, the queue and the consumer's hands.
LEMMA SamePlaces ==
  ASSUME UNCHANGED <<running, ended, captured, queue, consumer>>
  PROVE  \A r : /\ Enlisted(r)' <=> Enlisted(r)
                /\ Handling(r)' <=> Handling(r)
                /\ Coming(r)' <=> Coming(r)
                /\ RowsOf(r)' = RowsOf(r)
                /\ \A x : RowQueued(r, x)' <=> RowQueued(r, x)
<1>1. \A r : /\ Enlisted(r)' <=> Enlisted(r)
             /\ \A x : RowQueued(r, x)' <=> RowQueued(r, x)
  BY SameQueue DEF Enlisted
<1>2. \A r : Handling(r)' <=> Handling(r)
  BY DEF Handling
<1>3. \A r : Coming(r)' <=> Coming(r)
  BY <1>1 DEF Coming
<1>4. \A r : RowsOf(r)' = RowsOf(r)
  BY DEF RowsOf
<1> QED BY <1>1, <1>2, <1>3, <1>4

LEMMA NoRowsIff ==
  ASSUME NEW r
  PROVE  /\ NoRowsQueued(r) <=> \A x : ~RowQueued(r, x)
         /\ NoRowsQueued(r)' <=> \A x : ~RowQueued(r, x)'
<1>1. NoRowsQueued(r) <=> \A x : ~RowQueued(r, x)
  BY DEF NoRowsQueued, RowQueued
<1>2. NoRowsQueued(r)' <=> \A x : ~RowQueued(r, x)'
  BY DEF NoRowsQueued, RowQueued
<1> QED BY <1>1, <1>2

-----------------------------------------------------------------------------
(* The engine's steps. *)

LEMMA StartKeeps ==
  ASSUME Parts, NEW q \in Reqs, Start(q) PROVE Parts'
<1>0. TypeOK /\ RowsInv /\ QueueInv /\ ConsumerInv /\ OffloadInv /\ DiskInv /\ HostInv
  BY DEF Parts
<1>1. /\ client[q] = "new" /\ client' = [client EXCEPT ![q] = "running"]
      /\ running' = running \cup {q}
      /\ \/ transport' = [transport EXCEPT ![q] = "disk"] /\ routed' = routed \cup {q}
         \/ transport' = [transport EXCEPT ![q] = "rpc"] /\ routed' = routed
      /\ UNCHANGED <<got, confirmed, ended, captured, worker, queue, consumer, staging,
                     deliveredSrc, pending, diskAborted, hostAborted, unstaged>>
      /\ UNCHANGED <<index, stash, deliverable, dirs, dirRows, destRows>>
      /\ UNCHANGED offloadVars
  BY DEF Start, hostVars, dirVars
<1>2. q \notin routed \cup staging \cup diskAborted \cup deliveredSrc
  BY <1>0, <1>1 DEF DiskInv, QueueInv, Handling, Coming
<1>3. /\ client'[q] = "running" /\ \A r \in Reqs : r # q => client'[r] = client[r]
      /\ transport'[q] \in {"disk", "rpc"} /\ (transport'[q] = "disk" <=> q \in routed')
      /\ \A r \in Reqs : r # q => transport'[r] = transport[r] /\ (r \in routed' <=> r \in routed)
  BY <1>0, <1>1, <1>2, Basics
<1>4. ~Enlisted(q) /\ ~Handling(q) /\ captured[q] = 0
  BY <1>0, <1>1 DEF QueueInv
<1>5. \A r : /\ FinishQueued(r)' <=> FinishQueued(r)
             /\ NoRowsQueued(r)' <=> NoRowsQueued(r)
             /\ \A x : RowQueued(r, x)' <=> RowQueued(r, x)
  BY <1>1, SameQueue
<1>6. \A r : Handling(r)' <=> Handling(r)
  BY <1>1 DEF Handling
<1>7. \A r : Enlisted(r)' <=> Enlisted(r) \/ r = q
  BY <1>1, <1>5 DEF Enlisted
<1>8. \A r : Coming(r)' <=> Coming(r) \/ r = q
  BY <1>1, <1>7 DEF Coming
<1>9. \A r \in Reqs : Unfinished(r)' => Unfinished(r)
  BY <1>1, <1>3, <1>6, <1>7 DEF Unfinished
<1>10. TypeOK'
  BY <1>0, TypeStep DEF Next, Requests
<1>11. RowsInv'
  BY <1>0, <1>1, RowsFrame
<1>12. QueueInv'
  <2>1. (running \cap ended = {})'
    BY <1>0, <1>1, <1>4 DEF QueueInv, Enlisted
  <2>2. \A r \in Reqs : client'[r] = "new" => captured'[r] = 0 /\ ~Enlisted(r)' /\ ~Handling(r)'
    BY <1>0, <1>1, <1>3, <1>6, <1>7 DEF QueueInv
  <2>3. \A r \in running' \cup ended' : ~FinishQueued(r)' /\ ~Handling(r)'
    BY <1>0, <1>1, <1>4, <1>5, <1>6 DEF QueueInv, Enlisted
  <2>4. \A i \in 1 .. Len(queue) : \A r \in DOMAIN queue[i].rows : Enlisted(r)'
    BY <1>0, <1>7 DEF QueueInv
  <2> QED BY <1>0, <1>1, <2>1, <2>2, <2>3, <2>4 DEF QueueInv
<1>13. ConsumerInv'
  <2>1. \A r \in DOMAIN consumer.item.rows : Enlisted(r) => Enlisted(r)' /\ r # q
    BY <1>4, <1>7
  <2>2. ASSUME consumer.at \in {"demux", "append"}, NEW r \in DOMAIN consumer.item.rows
        PROVE Enlisted(r)' /\ (r \notin consumer.routes => r \notin routed')
    BY <1>0, <1>1, <2>1, <2>2 DEF ConsumerInv
  <2>3. \A r \in consumer.routes : transport'[r] = "disk" /\ client'[r] # "new"
    BY <1>0, <1>1, <1>3, Basics DEF ConsumerInv
  <2>4. consumer.at \in {"finish", "discard", "submit", "host"} =>
          ~Enlisted(consumer.req)' /\ NoRowsQueued(consumer.req)'
    BY <1>0, <1>1, <1>4, <1>5, <1>7 DEF ConsumerInv, Handling
  <2> QED BY <1>0, <1>1, <2>2, <2>3, <2>4 DEF ConsumerInv
<1>14. OffloadInv'
  BY <1>0, <1>1, <1>9, OffloadFrame
<1>15. DiskInv'
  <2>1. \A r \in routed' : transport'[r] = "disk" /\ client'[r] \notin {"new", "cleared"} /\ Coming(r)'
    <3>1. \A r \in routed' : r \in Reqs /\ (r # q => r \in routed)
      BY <1>0, <1>1, Basics
    <3>2. \A r \in routed : transport[r] = "disk" /\ client[r] \notin {"new", "cleared"} /\ Coming(r)
      BY <1>0 DEF DiskInv
    <3> QED BY <1>3, <1>8, <3>1, <3>2
  <2>2. \A r \in staging \cup diskAborted : transport'[r] = "disk" /\ Coming(r)'
    BY <1>0, <1>2, <1>3, <1>8, Basics DEF DiskInv
  <2>3. \A r \in Reqs : transport'[r] = "disk" /\ Coming(r)' => r \in routed' \cup diskAborted
    BY <1>0, <1>3, <1>8 DEF DiskInv
  <2>4. \A r \in deliveredSrc : ~Coming(r)' /\ client'[r] \notin {"new", "cleared"}
    BY <1>0, <1>2, <1>3, <1>8, Basics DEF DiskInv
  <2>5. \A r \in unstaged : client'[r] \notin {"new", "cleared"}
    BY <1>0, <1>3, Basics DEF DiskInv
  <2>6. \A r \in routed' \ diskAborted : \A x \in RowsOf(r) : StagedOrComing(r, x)
    <3>1. RowsOf(q) = {}
      BY <1>4 DEF RowsOf
    <3>2. \A r \in routed' : r # q => r \in routed
      BY <1>1
    <3> QED BY <1>0, <3>1, <3>2 DEF DiskInv
  <2>7. \A r \in Reqs : \A x : StagedOrComing(r, x)' <=> StagedOrComing(r, x)
    BY <1>1, <1>5 DEF StagedOrComing
  <2>8. \A r \in dirs : DirAwaited(r)'
    BY <1>0, <1>1 DEF DiskInv, DirAwaited
  <2>9. \A r : RowsOf(r)' = RowsOf(r)
    BY <1>1 DEF RowsOf
  <2>10. \A r \in routed' \ diskAborted : r \in Reqs
    BY <1>0, <1>1, Basics
  <2>11. \A r \in routed' \ diskAborted : \A x \in RowsOf(r)' : StagedOrComing(r, x)'
    BY <2>6, <2>7, <2>9, <2>10
  <2> QED BY <1>0, <1>1, <2>1, <2>2, <2>3, <2>4, <2>5, <2>8, <2>11 DEF DiskInv
<1>16. HostInv'
  <2>1. worker.at # "idle" => worker.req \in Reqs /\ client'[worker.req] = "cleared"
    BY <1>0, <1>1, <1>3 DEF HostInv
  <2>2. \A r \in hostAborted : client'[r] = "cleared"
    BY <1>0, <1>1, <1>3, Basics DEF HostInv
  <2>3. index[q] = {} /\ stash[q] = {} /\ got[q] = {} /\ q \notin deliverable \cup hostAborted
    BY <1>0, <1>1, <1>3 DEF HostInv, Unfinished
  <2>4. \A r \in Reqs : transport'[r] = "disk" \/ client'[r] = "new" =>
          index[r] = {} /\ stash[r] = {} /\ r \notin deliverable \cup hostAborted
    BY <1>0, <1>3, <2>3 DEF HostInv
  <2>5. \A r \in Reqs : Unfinished(r)' => r \notin deliverable /\ stash[r] = {} /\ got[r] = {}
    BY <1>0, <1>9 DEF HostInv
  <2>6. \A r : RowsOf(r)' = RowsOf(r)
    BY <1>1 DEF RowsOf
  <2>7. HostRowsAreWhole'
    BY <1>0, <1>1, <1>3, <2>3, <2>6, Basics DEF HostInv, HostRowsAreWhole
  <2>8. \A r \in Reqs : stash[r] # {} /\ client'[r] # "cleared" => stash[r] = RowsOf(r)
    BY <1>0, <1>3, <2>3 DEF HostInv
  <2>9. \A r \in Reqs : \A x : IndexedOrComing(r, x)' <=> IndexedOrComing(r, x)
    BY <1>1, <1>5 DEF IndexedOrComing
  <2>10. RowsOf(q) = {}
    BY <1>4 DEF RowsOf
  <2>11. ASSUME NEW r \in Reqs, transport'[r] = "rpc", client'[r] # "cleared",
                Enlisted(r)' \/ Handling(r)', NEW x \in RowsOf(r)
         PROVE  IndexedOrComing(r, x)
    BY <1>0, <1>3, <1>6, <1>7, <2>10, <2>11 DEF HostInv
  <2> QED BY <1>1, <2>1, <2>2, <2>4, <2>5, <2>6, <2>7, <2>8, <2>9, <2>11 DEF HostInv
<1> QED BY <1>10, <1>11, <1>12, <1>13, <1>14, <1>15, <1>16 DEF Parts

LEMMA ExecuteKeeps ==
  ASSUME Parts, NEW S \in SUBSET running, NEW F \in SUBSET ended, ExecuteModel(S, F)
  PROVE  Parts'
<1>0. TypeOK /\ RowsInv /\ QueueInv /\ ConsumerInv /\ OffloadInv /\ DiskInv /\ HostInv
  BY DEF Parts
<1>1. /\ captured' = [r \in Reqs |-> captured[r] + (IF r \in S THEN 1 ELSE 0)]
      /\ ended' = ended \ F
      /\ UNCHANGED <<client, transport, got, confirmed, running, worker, consumer>>
      /\ UNCHANGED <<routed, staging, deliveredSrc, pending, diskAborted, hostAborted, unstaged>>
      /\ UNCHANGED <<index, stash, deliverable, dirs, dirRows, destRows>>
      /\ UNCHANGED offloadVars
  BY DEF ExecuteModel, clientVars, tableVars, hostVars, dirVars
<1>2. S \subseteq running /\ F \subseteq ended /\ S \subseteq Reqs /\ F \subseteq Reqs
  BY <1>0, Basics
<1>3. \A r \in Reqs : captured'[r] \in Nat /\ captured[r] <= captured'[r]
                      /\ (r \notin S => captured'[r] = captured[r])
                      /\ (r \in S => captured'[r] = captured[r] + 1)
  BY <1>0, <1>1, Basics
<1>4. /\ \A r \in Reqs : Enlisted(r)' <=> Enlisted(r)
      /\ \A r \in Reqs : FinishQueued(r)' => FinishQueued(r) \/ r \in F
      /\ \A r \in Reqs : \A x : RowQueued(r, x)' <=> RowQueued(r, x) \/ (r \in S /\ x = captured[r])
  BY <1>0, ExecuteEnlists
<1>5. \A r : Handling(r)' <=> Handling(r)
  BY <1>1 DEF Handling
<1>6. \A r \in Reqs : Coming(r)' <=> Coming(r)
  BY <1>1, <1>4 DEF Coming
<1>7. \A r \in Reqs : Unfinished(r)' <=> Unfinished(r)
  BY <1>1, <1>4, <1>5 DEF Unfinished
<1>8. \A r \in S : Enlisted(r) /\ Unfinished(r)
  BY <1>2 DEF Enlisted, Unfinished
<1>9. TypeOK'
  BY <1>0, TypeStep DEF Next, Requests
<1> DEFINE n == Len(queue)
<1>10. /\ n \in Nat /\ Len(queue') \in Nat /\ n <= Len(queue')
       /\ \A i \in 1 .. n : queue'[i] = queue[i]
       /\ \A i \in n + 1 .. Len(queue') :
            \/ /\ queue'[i].kind = "rows" /\ queue'[i].req = NoReq
               /\ DOMAIN queue'[i].rows = S /\ \A r \in S : queue'[i].rows[r] = captured[r]
            \/ /\ queue'[i].kind = "finish" /\ queue'[i].req \in F
               /\ DOMAIN queue'[i].rows = {}
       /\ \A i, j \in n + 1 .. Len(queue') : i < j =>
            queue'[j].req # queue'[i].req /\ DOMAIN queue'[j].rows = {}
  BY <1>0, Enqueued, QueueTypes
<1> HIDE DEF n
<1>11. \A i \in 1 .. Len(queue') : i \in 1 .. n \/ i \in n + 1 .. Len(queue')
  BY <1>10
<1>12. \A r \in Reqs : RowsOf(r) \subseteq RowsOf(r)'
  BY <1>0, <1>3, Basics DEF RowsOf
<1>13. RowsInv'
  <2>1. \A r \in Reqs : got[r] \cup index[r] \cup stash[r] \cup dirRows[r] \cup destRows[r]
                      \subseteq RowsOf(r)'
    BY <1>0, <1>12 DEF RowsInv
  <2>2. ASSUME NEW i \in 1 .. Len(queue'), NEW r \in DOMAIN queue'[i].rows
        PROVE  queue'[i].rows[r] < captured'[r]
    <3>1. CASE i \in 1 .. n
      <4>1. queue'[i].rows[r] < captured[r] /\ queue'[i].rows[r] \in Nat /\ r \in Reqs
        BY <1>0, <1>10, <2>2, <3>1, QueueTypes DEF RowsInv, n
      <4> QED BY <1>0, <1>3, <4>1, Basics
    <3>2. CASE i \in n + 1 .. Len(queue')
      <4>1. r \in S /\ queue'[i].rows[r] = captured[r]
        BY <1>10, <2>2, <3>2
      <4> QED BY <1>0, <1>2, <1>3, <4>1, Basics
    <3> QED BY <1>11, <3>1, <3>2
  <2>3. ASSUME NEW r \in DOMAIN consumer.item.rows PROVE consumer.item.rows[r] < captured'[r]
    <3>1. consumer.item.rows[r] < captured[r] /\ consumer.item.rows[r] \in Nat /\ r \in Reqs
      BY <1>0, QueueTypes DEF RowsInv
    <3> QED BY <1>0, <1>3, <3>1, Basics
  <2> QED BY <1>1, <2>1, <2>2, <2>3 DEF RowsInv
<1>14. QueueInv'
  <2>1. running \cap ended' = {}
    BY <1>0, <1>1 DEF QueueInv
  <2>2. \A r \in Reqs : client[r] = "new" => captured'[r] = 0 /\ ~Enlisted(r)' /\ ~Handling(r)'
    BY <1>0, <1>3, <1>4, <1>5, <1>8 DEF QueueInv
  <2>3. \A r \in running \cup ended' : ~FinishQueued(r)' /\ ~Handling(r)'
    <3>1. \A r \in running \cup ended' : r \in Reqs /\ r \in running \cup ended /\ r \notin F
      BY <1>0, <1>1, <1>2, Basics DEF QueueInv
    <3> QED BY <1>0, <1>4, <1>5, <3>1 DEF QueueInv
  <2>4. ASSUME NEW i \in 1 .. Len(queue')
        PROVE  /\ \/ queue'[i].kind = "rows" /\ queue'[i].req = NoReq
                  \/ queue'[i].kind = "finish" /\ queue'[i].req \in Reqs /\ DOMAIN queue'[i].rows = {}
               /\ \A r \in DOMAIN queue'[i].rows : r \in Reqs /\ Enlisted(r)
    <3>1. CASE i \in 1 .. n
      BY <1>0, <1>10, <3>1, QueueTypes DEF QueueInv, n
    <3>2. CASE i \in n + 1 .. Len(queue')
      BY <1>2, <1>8, <1>10, <3>2
    <3> QED BY <1>11, <3>1, <3>2
  <2>5. ASSUME NEW i \in 1 .. Len(queue'), NEW j \in 1 .. Len(queue'), i < j, queue'[i].req \in Reqs
        PROVE  queue'[j].req # queue'[i].req /\ queue'[i].req \notin DOMAIN queue'[j].rows
    <3>1. CASE j \in 1 .. n
      <4>1. i \in 1 .. n
        BY <1>10, <2>5, <3>1
      <4> QED BY <1>0, <1>10, <2>5, <3>1, <4>1 DEF QueueInv, n
    <3>2. CASE j \in n + 1 .. Len(queue') /\ i \in 1 .. n
      <4>1. FinishQueued(queue'[i].req)
        BY <1>10, <3>2 DEF FinishQueued, n
      <4>2. queue'[i].req \notin running \cup ended
        BY <1>0, <4>1 DEF QueueInv
      <4>3. queue'[i].req \notin S \cup F
        BY <1>2, <4>2
      <4> QED BY <1>10, <2>5, <3>2, <4>3, PerRequestAssumption
    <3>3. CASE j \in n + 1 .. Len(queue') /\ i \in n + 1 .. Len(queue')
      BY <1>10, <2>5, <3>3
    <3> QED BY <1>11, <3>1, <3>2, <3>3
  <2> QED BY <1>1, <1>4, <2>1, <2>2, <2>3, <2>4, <2>5 DEF QueueInv
<1>15. ConsumerInv'
  <2>1. ASSUME NEW r \in Reqs, ~Enlisted(r), NoRowsQueued(r) PROVE NoRowsQueued(r)'
    BY <1>4, <1>8, <2>1, NoRowsIff
  <2>2. consumer.at \in {"finish", "discard", "submit", "host"} =>
          consumer.req \in Reqs /\ ~Enlisted(consumer.req) /\ NoRowsQueued(consumer.req)'
    BY <1>0, <1>1, <2>1 DEF ConsumerInv
  <2>3. \A r \in DOMAIN consumer.item.rows : Enlisted(r)' <=> Enlisted(r)
    BY <1>0, <1>4, QueueTypes
  <2> QED BY <1>0, <1>1, <1>4, <2>2, <2>3 DEF ConsumerInv
<1>16. OffloadInv'
  <2>1. \A r \in Reqs : Unfinished(r)' => NotSubmitted(r)'
    BY <1>0, <1>1, <1>7 DEF OffloadInv, NotSubmitted, offloadVars
  <2>2. \A r \in inflight : r \notin S
    BY <1>0, <1>2, <1>8 DEF OffloadInv, NotSubmitted
  <2>3. SourceOutlivesTransfer'
    BY <1>0, <1>1, <1>3, <2>2 DEF OffloadInv, SourceOutlivesTransfer, RowsOf, offloadVars
  <2>4. consumer.at = "submit" => consumer.req \in Reqs /\ consumer.req \notin S
    BY <1>0, <1>8 DEF ConsumerInv
  <2>5. consumer.at = "submit" => consumer.req \in dirs /\ dirRows[consumer.req] = RowsOf(consumer.req)'
    BY <1>0, <1>1, <1>3, <2>4 DEF OffloadInv, RowsOf
  <2>6. (inflight \cap event)' = {}
    BY <1>0, <1>1 DEF OffloadInv, offloadVars
  <2> QED BY <1>1, <2>1, <2>3, <2>5, <2>6 DEF OffloadInv
<1>17. \A r \in Reqs : \A x \in RowsOf(r)' : x \in RowsOf(r) \/ RowQueued(r, x)'
  BY <1>0, <1>3, <1>4, Basics DEF RowsOf
<1>18. DiskInv'
  <2>1. \A r \in Reqs : \A x : StagedOrComing(r, x) => StagedOrComing(r, x)'
    BY <1>1, <1>4 DEF StagedOrComing
  <2>2. \A r \in Reqs : \A x : RowQueued(r, x)' => StagedOrComing(r, x)'
    BY DEF StagedOrComing
  <2>3. \A r : DirAwaited(r) => DirAwaited(r)'
    BY <1>1 DEF DirAwaited
  <2>4. \A r \in routed \ diskAborted : r \in Reqs
    BY <1>0, Basics
  <2> QED BY <1>0, <1>1, <1>6, <1>17, <2>1, <2>2, <2>3, <2>4, DiskFrame
<1>19. HostInv'
  <2>1. \A r \in Reqs : \A x : IndexedOrComing(r, x) => IndexedOrComing(r, x)'
    BY <1>1, <1>4 DEF IndexedOrComing
  <2>2. \A r \in Reqs : \A x : RowQueued(r, x)' => IndexedOrComing(r, x)'
    BY DEF IndexedOrComing
  <2>3. \A r \in Reqs : RowsOf(r)' = RowsOf(r) \/ Unfinished(r)
    BY <1>3, <1>8 DEF RowsOf
  <2>4. worker.at # "idle" => worker.req \in Reqs /\ client[worker.req] = "cleared"
    BY <1>0 DEF HostInv
  <2> QED BY <1>0, <1>1, <1>4, <1>5, <1>7, <1>17, <2>1, <2>2, <2>3, <2>4, HostFrame
<1> QED BY <1>9, <1>13, <1>14, <1>15, <1>16, <1>18, <1>19 DEF Parts

\* Ended requests stay enlisted.
LEMMA EndKeeps ==
  ASSUME Parts, NEW q \in Reqs, EndRequest(q) PROVE Parts'
<1>0. TypeOK /\ RowsInv /\ QueueInv /\ ConsumerInv /\ OffloadInv /\ DiskInv /\ HostInv
  BY DEF Parts
<1>1. /\ q \in running /\ running' = running \ {q} /\ ended' = ended \cup {q}
      /\ client' = [client EXCEPT ![q] = IF @ = "running" THEN "awaiting" ELSE @]
      /\ UNCHANGED <<transport, got, confirmed, captured, worker, consumer, queue>>
      /\ UNCHANGED <<routed, staging, deliveredSrc, pending, diskAborted, hostAborted, unstaged>>
      /\ UNCHANGED <<index, stash, deliverable, dirs, dirRows, destRows>>
      /\ UNCHANGED offloadVars
  BY DEF EndRequest, tableVars, hostVars, dirVars
<1>2. \A r \in Reqs : /\ client'[r] = "new" <=> client[r] = "new"
                      /\ client'[r] = "cleared" <=> client[r] = "cleared"
  BY <1>0, <1>1, Basics
<1>3. running' \cup ended' = running \cup ended
  BY <1>1
<1>4. \A r : /\ FinishQueued(r)' <=> FinishQueued(r)
             /\ NoRowsQueued(r)' <=> NoRowsQueued(r)
             /\ \A x : RowQueued(r, x)' <=> RowQueued(r, x)
  BY <1>1, SameQueue
<1>5. \A r : Enlisted(r)' <=> Enlisted(r)
  BY <1>3, <1>4 DEF Enlisted
<1>6. \A r : Handling(r)' <=> Handling(r)
  BY <1>1 DEF Handling
<1>7. \A r : Coming(r)' <=> Coming(r)
  BY <1>1, <1>5 DEF Coming
<1>8. \A r \in Reqs : Unfinished(r)' <=> Unfinished(r)
  BY <1>2, <1>5, <1>6 DEF Unfinished
<1>9. \A r : RowsOf(r)' = RowsOf(r)
  BY <1>1 DEF RowsOf
<1>10. TypeOK'
  BY <1>0, TypeStep DEF Next, Requests
<1>11. RowsInv'
  BY <1>0, <1>1, RowsFrame
<1>12. QueueInv'
  <2>1. running' \cap ended' = {}
    BY <1>0, <1>1 DEF QueueInv
  <2>2. \A r \in Reqs : client'[r] = "new" => captured[r] = 0 /\ ~Enlisted(r)' /\ ~Handling(r)'
    BY <1>0, <1>2, <1>5, <1>6 DEF QueueInv
  <2>3. \A r \in running' \cup ended' : ~FinishQueued(r)' /\ ~Handling(r)'
    BY <1>0, <1>3, <1>4, <1>6 DEF QueueInv
  <2> QED BY <1>0, <1>1, <1>5, <2>1, <2>2, <2>3 DEF QueueInv
<1>13. ConsumerInv'
  <2>1. \A r \in consumer.routes : transport[r] = "disk" /\ client'[r] # "new"
    BY <1>0, <1>2, Basics DEF ConsumerInv
  <2> QED BY <1>0, <1>1, <1>4, <1>5, <2>1 DEF ConsumerInv
<1>14. OffloadInv'
  BY <1>0, <1>1, <1>8, OffloadFrame
<1>15. DiskInv'
  <2>1. \A r, x : StagedOrComing(r, x) => StagedOrComing(r, x)'
    BY <1>1, <1>4 DEF StagedOrComing
  <2>2. \A r : DirAwaited(r) => DirAwaited(r)'
    BY <1>1 DEF DirAwaited
  <2> QED BY <1>0, <1>1, <1>2, <1>7, <1>9, <2>1, <2>2, DiskFrame
<1>16. HostInv'
  <2>1. \A r, x : IndexedOrComing(r, x) => IndexedOrComing(r, x)'
    BY <1>1, <1>4 DEF IndexedOrComing
  <2>2. worker.at # "idle" => worker.req \in Reqs /\ client'[worker.req] = "cleared"
    BY <1>0, <1>2 DEF HostInv
  <2> QED BY <1>0, <1>1, <1>2, <1>5, <1>6, <1>8, <1>9, <2>1, <2>2, HostFrame
<1> QED BY <1>10, <1>11, <1>12, <1>13, <1>14, <1>15, <1>16 DEF Parts

-----------------------------------------------------------------------------
(* The client's calls. *)

\* What draining the deliverable entries yields, and what it leaves.
LEMMA StashFacts ==
  ASSUME TypeOK, RowsInv, HostInv, NEW r \in Reqs
  PROVE  /\ Stashed[r] \subseteq RowsOf(r) /\ LeftInIndex[r] \subseteq index[r]
         /\ transport[r] = "disk" \/ client[r] = "new" => Stashed[r] = {}
         /\ Unfinished(r) => Stashed[r] = {} /\ LeftInIndex[r] = index[r]
         /\ client[r] # "cleared" /\ Stashed[r] # {} => Stashed[r] = RowsOf(r)
BY DEF RowsInv, HostInv, HostRowsAreWhole, Stashed, LeftInIndex

LEMMA GetKeeps ==
  ASSUME Parts, NEW q \in Reqs, Get(q) PROVE Parts'
<1>0. TypeOK /\ RowsInv /\ QueueInv /\ ConsumerInv /\ OffloadInv /\ DiskInv /\ HostInv
  BY DEF Parts
<1>1. /\ client[q] = "awaiting" /\ client' = [client EXCEPT ![q] = client'[q]]
      /\ client'[q] \in {"awaiting", "served"}
      /\ index' = LeftInIndex /\ deliverable' = {}
      /\ stash' = [Stashed EXCEPT ![q] = {}] /\ got' = [got EXCEPT ![q] = Stashed[q]]
      /\ UNCHANGED <<transport, confirmed, running, ended, captured, worker, consumer, queue>>
      /\ UNCHANGED <<routed, staging, deliveredSrc, pending, diskAborted, hostAborted, unstaged>>
      /\ UNCHANGED <<dirs, dirRows, destRows>>
      /\ UNCHANGED offloadVars
  BY <1>0, Basics DEF Get, engineVars, tableVars, dirVars
<1>2. \A r \in Reqs : /\ client'[r] = "new" <=> client[r] = "new"
                      /\ client'[r] = "cleared" <=> client[r] = "cleared"
  BY <1>0, <1>1, Basics
<1>3. \A r : /\ Enlisted(r)' <=> Enlisted(r)
             /\ Handling(r)' <=> Handling(r)
             /\ Coming(r)' <=> Coming(r)
             /\ RowsOf(r)' = RowsOf(r)
             /\ \A x : RowQueued(r, x)' <=> RowQueued(r, x)
  BY <1>1, SamePlaces
<1>4. \A r \in Reqs : Unfinished(r)' <=> Unfinished(r)
  BY <1>2, <1>3 DEF Unfinished
<1>5. TypeOK'
  BY <1>0, TypeStep DEF Next, Requests
<1>6. \A r \in Reqs : /\ index'[r] = LeftInIndex[r]
                      /\ stash'[r] = (IF r = q THEN {} ELSE Stashed[r])
                      /\ got'[r] = (IF r = q THEN Stashed[q] ELSE got[r])
  BY <1>0, <1>1, Basics DEF Stashed
<1>7. RowsInv'
  <2>1. \A r \in Reqs : got'[r] \cup index'[r] \cup stash'[r] \cup dirRows[r] \cup destRows[r]
                      \subseteq RowsOf(r)
    BY <1>0, <1>6, StashFacts DEF RowsInv
  <2> QED BY <1>0, <1>1, <1>3, <2>1 DEF RowsInv
<1>8. QueueInv'
  BY <1>0, <1>1, <1>2, <1>3, QueueFrame
<1>9. ConsumerInv'
  BY <1>0, <1>1, <1>2, Basics, ConsumerFrame
<1>10. OffloadInv'
  BY <1>0, <1>1, <1>4, OffloadFrame
<1>11. DiskInv'
  <2>1. \A r, x : StagedOrComing(r, x) => StagedOrComing(r, x)'
    BY <1>1, <1>3 DEF StagedOrComing
  <2>2. \A r : DirAwaited(r) => DirAwaited(r)'
    BY <1>1 DEF DirAwaited
  <2> QED BY <1>0, <1>1, <1>2, <1>3, <2>1, <2>2, DiskFrame
<1>12. HostInv'
  <2>1. worker.at # "idle" => worker.req \in Reqs /\ client'[worker.req] = "cleared"
    BY <1>0, <1>2 DEF HostInv
  <2>2. \A r \in hostAborted : client'[r] = "cleared"
    BY <1>0, <1>2, Basics DEF HostInv
  <2>3. \A r \in Reqs : transport[r] = "disk" \/ client'[r] = "new" =>
          index'[r] = {} /\ stash'[r] = {} /\ r \notin hostAborted
    BY <1>0, <1>2, <1>6, StashFacts DEF HostInv
  <2>4. \A r \in Reqs : Unfinished(r) => stash'[r] = {} /\ got'[r] = {}
    BY <1>0, <1>6, StashFacts DEF HostInv
  <2>5. HostRowsAreWhole'
    BY <1>0, <1>1, <1>3, <1>6, StashFacts DEF HostInv, HostRowsAreWhole
  <2>6. \A r \in Reqs : stash'[r] # {} /\ client'[r] # "cleared" => stash'[r] = RowsOf(r)
    BY <1>0, <1>2, <1>6, StashFacts
  <2>7. ASSUME NEW r \in Reqs, transport[r] = "rpc", client'[r] # "cleared",
               Enlisted(r) \/ Handling(r), NEW x \in RowsOf(r)
        PROVE  IndexedOrComing(r, x)'
    <3>1. IndexedOrComing(r, x)
      BY <1>0, <1>2, <2>7 DEF HostInv
    <3>2. index'[r] = index[r]
      BY <1>0, <1>6, <2>7, StashFacts DEF Unfinished
    <3> QED BY <1>1, <1>3, <3>1, <3>2 DEF IndexedOrComing
  <2> QED BY <1>1, <1>3, <1>4, <2>1, <2>2, <2>3, <2>4, <2>5, <2>6, <2>7 DEF HostInv
<1> QED BY <1>5, <1>7, <1>8, <1>9, <1>10, <1>11, <1>12 DEF Parts

\* A directory is unlinked only after its transfer has settled.
LEMMA ConfirmKeeps ==
  ASSUME Parts, NEW q \in Reqs, Confirm(q) PROVE Parts'
<1>0. TypeOK /\ RowsInv /\ QueueInv /\ ConsumerInv /\ OffloadInv /\ DiskInv /\ HostInv
  BY DEF Parts
<1>1. /\ client[q] = "awaiting" /\ client' = [client EXCEPT ![q] = "served"] /\ Delivered(q)
      /\ deliveredSrc' = deliveredSrc \ {q}
      /\ dirs' = IF q \in deliveredSrc THEN dirs \ {q} ELSE dirs
      /\ UNCHANGED <<transport, got, running, ended, captured, worker, consumer, queue>>
      /\ UNCHANGED <<routed, staging, pending, diskAborted, hostAborted, unstaged>>
      /\ UNCHANGED <<index, stash, deliverable, dirRows, destRows>>
      /\ UNCHANGED offloadVars
  BY DEF Confirm, engineVars, hostVars
<1>2. \A r \in Reqs : /\ client'[r] = "new" <=> client[r] = "new"
                      /\ client'[r] = "cleared" <=> client[r] = "cleared"
  BY <1>0, <1>1, Basics
<1>3. \A r : /\ Enlisted(r)' <=> Enlisted(r)
             /\ Handling(r)' <=> Handling(r)
             /\ Coming(r)' <=> Coming(r)
             /\ RowsOf(r)' = RowsOf(r)
             /\ \A x : RowQueued(r, x)' <=> RowQueued(r, x)
  BY <1>1, SamePlaces
<1>4. \A r \in Reqs : Unfinished(r)' <=> Unfinished(r)
  BY <1>2, <1>3 DEF Unfinished
<1>5. TypeOK'
  BY <1>0, TypeStep DEF Next, Requests
<1>6. q \in event /\ q \notin inflight /\ ~Unfinished(q)
  BY <1>0, <1>1 DEF Delivered, OffloadInv, NotSubmitted
<1>7. RowsInv'
  BY <1>0, <1>1, RowsFrame
<1>8. QueueInv'
  BY <1>0, <1>1, <1>2, <1>3, QueueFrame
<1>9. ConsumerInv'
  BY <1>0, <1>1, <1>2, Basics, ConsumerFrame
<1>10. OffloadInv'
  <2>1. consumer.at = "submit" => consumer.req # q
    BY <1>6 DEF Unfinished, Handling
  <2> QED BY <1>0, <1>1, <1>4, <1>6, <2>1, OffloadFrame
<1>11. DiskInv'
  <2>1. \A r, x : StagedOrComing(r, x)' <=> StagedOrComing(r, x)
    BY <1>1, <1>3 DEF StagedOrComing
  <2>2. \A r \in dirs' : DirAwaited(r)'
    BY <1>0, <1>1 DEF DirAwaited, DiskInv
  <2>3. \A r \in routed : transport[r] = "disk" /\ client'[r] \notin {"new", "cleared"} /\ Coming(r)
    BY <1>0, <1>2, Basics DEF DiskInv
  <2>4. \A r \in staging : transport[r] = "disk" /\ Coming(r) /\ r \in dirs'
    BY <1>0, <1>1 DEF DiskInv
  <2>5. \A r \in deliveredSrc' : ~Coming(r) /\ client'[r] \notin {"new", "cleared"}
    BY <1>0, <1>1, <1>2, Basics DEF DiskInv
  <2>6. \A r \in unstaged : client'[r] \notin {"new", "cleared"}
    BY <1>0, <1>2, Basics DEF DiskInv
  <2> QED BY <1>0, <1>1, <1>3, <2>1, <2>2, <2>3, <2>4, <2>5, <2>6 DEF DiskInv
<1>12. HostInv'
  <2>1. \A r, x : IndexedOrComing(r, x) => IndexedOrComing(r, x)'
    BY <1>1, <1>3 DEF IndexedOrComing
  <2>2. worker.at # "idle" => worker.req \in Reqs /\ client'[worker.req] = "cleared"
    BY <1>0, <1>2 DEF HostInv
  <2> QED BY <1>0, <1>1, <1>2, <1>3, <1>4, <2>1, <2>2, HostFrame
<1> QED BY <1>5, <1>7, <1>8, <1>9, <1>10, <1>11, <1>12 DEF Parts

\* What a clear takes from the tables it marks as aborted, or hands to the worker.
LEMMA ClearDiskKeeps ==
  ASSUME Parts, NEW q \in Reqs, ClearDisk(q) PROVE Parts'
<1>0. TypeOK /\ RowsInv /\ QueueInv /\ ConsumerInv /\ OffloadInv /\ DiskInv /\ HostInv
  BY DEF Parts
<1>1. /\ worker.at = "idle" /\ client[q] # "new" /\ client' = [client EXCEPT ![q] = "cleared"]
      /\ routed' = routed \ {q} /\ deliveredSrc' = deliveredSrc \ {q}
      /\ unstaged' = unstaged \ {q}
      /\ diskAborted' = IF q \in staging \cup routed THEN diskAborted \cup {q} ELSE diskAborted
      /\ worker'.at = "settle" /\ worker'.req = q /\ worker'.src = (q \in deliveredSrc)
      /\ UNCHANGED <<transport, got, running, ended, captured, consumer, queue>>
      /\ UNCHANGED <<staging, pending, hostAborted>>
      /\ UNCHANGED <<index, stash, deliverable, dirs, dirRows, destRows>>
      /\ UNCHANGED offloadVars
  BY DEF ClearDisk, engineVars, hostVars, dirVars
<1>2. client'[q] = "cleared" /\ \A r \in Reqs : r # q => client'[r] = client[r]
  BY <1>0, <1>1, Basics
<1>3. \A r : /\ Enlisted(r)' <=> Enlisted(r)
             /\ Handling(r)' <=> Handling(r)
             /\ Coming(r)' <=> Coming(r)
             /\ RowsOf(r)' = RowsOf(r)
             /\ \A x : RowQueued(r, x)' <=> RowQueued(r, x)
  BY <1>1, SamePlaces
<1>4. \A r \in Reqs : Unfinished(r)' => Unfinished(r)
  BY <1>2, <1>3 DEF Unfinished
<1>5. TypeOK'
  BY <1>0, TypeStep DEF Next, Requests
<1>6. RowsInv'
  BY <1>0, <1>1, RowsFrame
<1>7. QueueInv'
  BY <1>0, <1>1, <1>2, <1>3, QueueFrame
<1>8. ConsumerInv'
  BY <1>0, <1>1, <1>2, Basics, ConsumerFrame
<1>9. OffloadInv'
  BY <1>0, <1>1, <1>4, OffloadFrame
<1>10. DiskInv'
  <2>1. \A r, x : StagedOrComing(r, x)' <=> StagedOrComing(r, x)
    BY <1>1, <1>3 DEF StagedOrComing
  <2>2. \A r \in dirs : DirAwaited(r)'
    BY <1>0, <1>1 DEF DirAwaited, DiskInv
  <2>3. \A r \in routed' : transport[r] = "disk" /\ client'[r] \notin {"new", "cleared"} /\ Coming(r)
    BY <1>0, <1>1, <1>2, Basics DEF DiskInv
  <2>4. \A r \in diskAborted' : transport[r] = "disk" /\ Coming(r)
    BY <1>0, <1>1 DEF DiskInv
  <2>5. \A r \in deliveredSrc' : ~Coming(r) /\ client'[r] \notin {"new", "cleared"}
    BY <1>0, <1>1, <1>2, Basics DEF DiskInv
  <2>6. \A r \in unstaged' : client'[r] \notin {"new", "cleared"}
    BY <1>0, <1>1, <1>2, Basics DEF DiskInv
  <2>7. \A r \in Reqs : transport[r] = "disk" /\ Coming(r) => r \in routed' \cup diskAborted'
    BY <1>0, <1>1 DEF DiskInv
  <2>8. \A r \in routed' \ diskAborted' : r \in routed \ diskAborted
    BY <1>1
  <2> QED BY <1>0, <1>1, <1>3, <2>1, <2>2, <2>3, <2>4, <2>5, <2>6, <2>7, <2>8 DEF DiskInv
<1>11. HostInv'
  <2>1. \A r, x : IndexedOrComing(r, x) => IndexedOrComing(r, x)'
    BY <1>1, <1>3 DEF IndexedOrComing
  <2> QED BY <1>0, <1>1, <1>2, <1>3, <1>4, <2>1, HostFrame
<1> QED BY <1>5, <1>6, <1>7, <1>8, <1>9, <1>10, <1>11 DEF Parts

\* What has a settled transfer has finished.
LEMMA SettledIsFinished ==
  ASSUME OffloadInv, NEW r \in Reqs, Settled(r)
  PROVE  ~Unfinished(r) /\ r \notin inflight
BY DEF OffloadInv, NotSubmitted, Settled

LEMMA ClearSourceKeeps ==
  ASSUME Parts, ClearSource PROVE Parts'
<1> DEFINE w == worker.req
<1>0. TypeOK /\ RowsInv /\ QueueInv /\ ConsumerInv /\ OffloadInv /\ DiskInv /\ HostInv
  BY DEF Parts
<1>1. /\ worker.at = "settle" /\ worker'.at = "mark" /\ worker'.req = w
      /\ dirs' = IF worker.src /\ Settled(w) THEN dirs \ {w} ELSE dirs
      /\ pending' = IF worker.src /\ ~Settled(w) THEN pending \cup {w} ELSE pending
      /\ UNCHANGED <<client, transport, got, running, ended, captured, consumer, queue>>
      /\ UNCHANGED <<routed, staging, deliveredSrc, diskAborted, hostAborted, unstaged>>
      /\ UNCHANGED <<index, stash, deliverable, dirRows, destRows>>
      /\ UNCHANGED offloadVars
  BY <1>0 DEF ClearSource, clientVars, engineVars, hostVars, TypeOK, WorkerType
<1>2. w \in Reqs /\ client[w] = "cleared"
  BY <1>0, <1>1 DEF HostInv
<1> HIDE DEF w
<1>3. \A r : /\ Enlisted(r)' <=> Enlisted(r)
             /\ Handling(r)' <=> Handling(r)
             /\ Coming(r)' <=> Coming(r)
             /\ RowsOf(r)' = RowsOf(r)
             /\ \A x : RowQueued(r, x)' <=> RowQueued(r, x)
  BY <1>1, SamePlaces
<1>4. \A r \in Reqs : Unfinished(r)' <=> Unfinished(r)
  BY <1>1, <1>3 DEF Unfinished
<1>5. TypeOK'
  BY <1>0, TypeStep DEF Next, Clearing
<1>6. RowsInv'
  BY <1>0, <1>1, RowsFrame
<1>7. QueueInv'
  BY <1>0, <1>1, <1>3, QueueFrame
<1>8. ConsumerInv'
  BY <1>0, <1>1, Basics, ConsumerFrame
<1>9. OffloadInv'
  <2>1. Settled(w) => w \notin inflight /\ ~(consumer.at = "submit" /\ consumer.req = w)
    BY <1>0, <1>2, SettledIsFinished DEF Unfinished, Handling
  <2> QED BY <1>0, <1>1, <1>4, <2>1, OffloadFrame
<1>10. DiskInv'
  <2>1. \A r, x : StagedOrComing(r, x)' <=> StagedOrComing(r, x)
    BY <1>1, <1>3 DEF StagedOrComing
  <2>2. \A r \in dirs' : DirAwaited(r)'
    BY <1>0, <1>1 DEF DirAwaited, DiskInv, w
  <2>3. Settled(w) => ~Coming(w)
    BY <1>0, <1>2, SettledIsFinished DEF Unfinished, Handling, Coming
  <2>4. \A r \in staging : transport[r] = "disk" /\ Coming(r) /\ r \in dirs'
    BY <1>0, <1>1, <2>3 DEF DiskInv
  <2> QED BY <1>0, <1>1, <1>3, <2>1, <2>2, <2>4 DEF DiskInv
<1>11. HostInv'
  <2>1. \A r, x : IndexedOrComing(r, x) => IndexedOrComing(r, x)'
    BY <1>1, <1>3 DEF IndexedOrComing
  <2> QED BY <1>0, <1>1, <1>2, <1>3, <1>4, <2>1, HostFrame
<1> QED BY <1>5, <1>6, <1>7, <1>8, <1>9, <1>10, <1>11 DEF Parts

LEMMA MarkHostKeeps ==
  ASSUME Parts, MarkHost PROVE Parts'
<1>0. TypeOK /\ RowsInv /\ QueueInv /\ ConsumerInv /\ OffloadInv /\ DiskInv /\ HostInv
  BY DEF Parts
<1>1. /\ worker.at = "mark" /\ worker'.at = "free" /\ worker'.req = worker.req
      /\ hostAborted' = (IF index[worker.req] # {} THEN hostAborted \cup {worker.req}
                                                   ELSE hostAborted)
      /\ UNCHANGED <<client, transport, got, running, ended, captured, consumer, queue>>
      /\ UNCHANGED <<routed, staging, deliveredSrc, pending, diskAborted, unstaged>>
      /\ UNCHANGED <<index, stash, deliverable, dirs, dirRows, destRows>>
      /\ UNCHANGED offloadVars
  BY <1>0 DEF MarkHost, clientVars, engineVars, hostVars, dirVars, TypeOK, WorkerType
<1>2. worker.req \in Reqs /\ client[worker.req] = "cleared"
  BY <1>0, <1>1 DEF HostInv
<1>3. \A r : /\ Enlisted(r)' <=> Enlisted(r)
             /\ Handling(r)' <=> Handling(r)
             /\ Coming(r)' <=> Coming(r)
             /\ RowsOf(r)' = RowsOf(r)
             /\ \A x : RowQueued(r, x)' <=> RowQueued(r, x)
  BY <1>1, SamePlaces
<1>4. \A r \in Reqs : Unfinished(r)' <=> Unfinished(r)
  BY <1>1, <1>3 DEF Unfinished
<1>5. TypeOK'
  BY <1>0, TypeStep DEF Next, Clearing
<1>6. RowsInv'
  BY <1>0, <1>1, RowsFrame
<1>7. QueueInv'
  BY <1>0, <1>1, <1>3, QueueFrame
<1>8. ConsumerInv'
  BY <1>0, <1>1, Basics, ConsumerFrame
<1>9. OffloadInv'
  BY <1>0, <1>1, <1>4, OffloadFrame
<1>10. DiskInv'
  <2>1. \A r, x : StagedOrComing(r, x)' <=> StagedOrComing(r, x)
    BY <1>1, <1>3 DEF StagedOrComing
  <2>2. \A r : DirAwaited(r) => DirAwaited(r)'
    BY <1>1 DEF DirAwaited
  <2> QED BY <1>0, <1>1, <1>3, <2>1, <2>2, DiskFrame
<1>11. HostInv'
  <2>1. \A r, x : IndexedOrComing(r, x)' <=> IndexedOrComing(r, x)
    BY <1>1, <1>3 DEF IndexedOrComing
  <2>2. \A r \in hostAborted' : client[r] = "cleared"
    BY <1>0, <1>1, <1>2 DEF HostInv
  <2>3. \A r \in Reqs : transport[r] = "disk" \/ client[r] = "new" => r \notin hostAborted'
    BY <1>0, <1>1, <1>2 DEF HostInv
  <2>4. HostRowsAreWhole'
    BY <1>0, <1>1, <1>3 DEF HostInv, HostRowsAreWhole
  <2> QED BY <1>0, <1>1, <1>2, <1>3, <1>4, <2>1, <2>2, <2>3, <2>4 DEF HostInv
<1> QED BY <1>5, <1>6, <1>7, <1>8, <1>9, <1>10, <1>11 DEF Parts

LEMMA FreeHostKeeps ==
  ASSUME Parts, FreeHost PROVE Parts'
<1> DEFINE w == worker.req
<1>0. TypeOK /\ RowsInv /\ QueueInv /\ ConsumerInv /\ OffloadInv /\ DiskInv /\ HostInv
  BY DEF Parts
<1>1. /\ worker.at = "free" /\ worker'.at = "idle"
      /\ index' = [LeftInIndex EXCEPT ![w] = {}] /\ deliverable' = {}
      /\ stash' = [Stashed EXCEPT ![w] = {}]
      /\ UNCHANGED <<client, transport, got, running, ended, captured, consumer, queue>>
      /\ UNCHANGED <<routed, staging, deliveredSrc, pending, diskAborted, hostAborted, unstaged>>
      /\ UNCHANGED <<dirs, dirRows, destRows>>
      /\ UNCHANGED offloadVars
  BY DEF FreeHost, IdleWorker, clientVars, engineVars, tableVars, dirVars
<1>2. w \in Reqs /\ client[w] = "cleared"
  BY <1>0, <1>1 DEF HostInv
<1> HIDE DEF w
<1>3. \A r : /\ Enlisted(r)' <=> Enlisted(r)
             /\ Handling(r)' <=> Handling(r)
             /\ Coming(r)' <=> Coming(r)
             /\ RowsOf(r)' = RowsOf(r)
             /\ \A x : RowQueued(r, x)' <=> RowQueued(r, x)
  BY <1>1, SamePlaces
<1>4. \A r \in Reqs : Unfinished(r)' <=> Unfinished(r)
  BY <1>1, <1>3 DEF Unfinished
<1>5. TypeOK'
  BY <1>0, TypeStep DEF Next, Clearing
<1>6. \A r \in Reqs : /\ index'[r] = (IF r = w THEN {} ELSE LeftInIndex[r])
                      /\ stash'[r] = (IF r = w THEN {} ELSE Stashed[r])
  BY <1>1 DEF Stashed, LeftInIndex
<1>7. RowsInv'
  <2>1. \A r \in Reqs : got[r] \cup index'[r] \cup stash'[r] \cup dirRows[r] \cup destRows[r]
                      \subseteq RowsOf(r)
    BY <1>0, <1>6, StashFacts DEF RowsInv
  <2> QED BY <1>0, <1>1, <1>3, <2>1 DEF RowsInv
<1>8. QueueInv'
  BY <1>0, <1>1, <1>3, QueueFrame
<1>9. ConsumerInv'
  BY <1>0, <1>1, Basics, ConsumerFrame
<1>10. OffloadInv'
  BY <1>0, <1>1, <1>4, OffloadFrame
<1>11. DiskInv'
  <2>1. \A r, x : StagedOrComing(r, x) => StagedOrComing(r, x)'
    BY <1>1, <1>3 DEF StagedOrComing
  <2>2. \A r : DirAwaited(r) => DirAwaited(r)'
    BY <1>1 DEF DirAwaited
  <2> QED BY <1>0, <1>1, <1>3, <2>1, <2>2, DiskFrame
<1>12. HostInv'
  <2>3. \A r \in Reqs : transport[r] = "disk" \/ client[r] = "new" =>
          index'[r] = {} /\ stash'[r] = {} /\ r \notin hostAborted
    BY <1>0, <1>6, StashFacts DEF HostInv
  <2>4. \A r \in Reqs : Unfinished(r) => stash'[r] = {} /\ got[r] = {}
    BY <1>0, <1>6, StashFacts DEF HostInv
  <2>5. HostRowsAreWhole'
    BY <1>0, <1>1, <1>3 DEF HostInv, HostRowsAreWhole
  <2>6. \A r \in Reqs : stash'[r] # {} /\ client[r] # "cleared" => stash'[r] = RowsOf(r)
    BY <1>0, <1>6, StashFacts
  <2>7. ASSUME NEW r \in Reqs, transport[r] = "rpc", client[r] # "cleared",
               Enlisted(r) \/ Handling(r), NEW x \in RowsOf(r)
        PROVE  IndexedOrComing(r, x)'
    <3>1. IndexedOrComing(r, x)
      BY <1>0, <2>7 DEF HostInv
    <3>2. index'[r] = index[r]
      BY <1>0, <1>2, <1>6, <2>7, StashFacts DEF Unfinished
    <3> QED BY <1>1, <1>3, <3>1, <3>2 DEF IndexedOrComing
  <2> QED BY <1>0, <1>1, <1>3, <1>4, <2>3, <2>4, <2>5, <2>6, <2>7 DEF HostInv
<1> QED BY <1>5, <1>7, <1>8, <1>9, <1>10, <1>11, <1>12 DEF Parts

-----------------------------------------------------------------------------
(* The consumer. *)

LEMMA SameEngine ==
  ASSUME UNCHANGED <<running, ended, captured, queue>>
  PROVE  \A r : /\ Enlisted(r)' <=> Enlisted(r)
                /\ NoRowsQueued(r)' <=> NoRowsQueued(r)
                /\ RowsOf(r)' = RowsOf(r)
                /\ \A x : RowQueued(r, x)' <=> RowQueued(r, x)
<1>1. \A r : /\ Enlisted(r)' <=> Enlisted(r)
             /\ NoRowsQueued(r)' <=> NoRowsQueued(r)
             /\ \A x : RowQueued(r, x)' <=> RowQueued(r, x)
  BY SameQueue DEF Enlisted
<1>2. \A r : RowsOf(r)' = RowsOf(r)
  BY DEF RowsOf
<1> QED BY <1>1, <1>2

\* A row in the queue was captured.
LEMMA QueuedIsCaptured ==
  ASSUME RowsInv, NEW r, NEW x, RowQueued(r, x) PROVE x < captured[r]
BY DEF RowsInv, RowQueued

LEMMA TakeKeeps ==
  ASSUME Parts, TakeItem PROVE Parts'
<1>0. TypeOK /\ RowsInv /\ QueueInv /\ ConsumerInv /\ OffloadInv /\ DiskInv /\ HostInv
  BY DEF Parts
<1>1. /\ consumer.at = "get" /\ consumer.todo = {} /\ consumer.staged = {}
      /\ consumer'.staged = {} /\ consumer'.todo = DOMAIN consumer'.item.rows
      /\ \A r \in Reqs : FinishQueued(r)' => FinishQueued(r)
      /\ \A r \in Reqs : \A x : RowQueued(r, x) <=>
           \/ RowQueued(r, x)'
           \/ r \in DOMAIN consumer'.item.rows /\ consumer'.item.rows[r] = x
      /\ UNCHANGED <<client, transport, got, running, ended, captured, worker>>
      /\ UNCHANGED <<routed, staging, deliveredSrc, pending, diskAborted, hostAborted, unstaged>>
      /\ UNCHANGED <<index, stash, deliverable, dirs, dirRows, destRows>>
      /\ UNCHANGED offloadVars
  BY <1>0, TakeMoves DEF clientVars, engineVars, tableVars, hostVars, dirVars
<1>2. \/ /\ consumer'.at = "demux" /\ consumer'.req = NoReq /\ consumer'.routes = routed
         /\ \A r \in Reqs : FinishQueued(r)' <=> FinishQueued(r)
         /\ \A r \in DOMAIN consumer'.item.rows :
              r \in Reqs /\ Enlisted(r) /\ RowQueued(r, consumer'.item.rows[r])
      \/ /\ consumer'.at = "finish" /\ consumer'.req \in Reqs /\ consumer'.routes = {}
         /\ DOMAIN consumer'.item.rows = {} /\ FinishQueued(consumer'.req)
         /\ \A r \in Reqs : FinishQueued(r)' <=> FinishQueued(r) /\ r # consumer'.req
         /\ NoRowsQueued(consumer.req)'
  BY <1>0, TakeMoves
<1>3. consumer'.at = "finish" =>
        consumer'.req \in Reqs /\ FinishQueued(consumer'.req)
          /\ consumer'.req \notin running \cup ended
  BY <1>0, <1>2 DEF QueueInv
<1>4. \A r \in Reqs : /\ Enlisted(r)' <=> Enlisted(r) /\ ~(consumer'.at = "finish" /\ r = consumer'.req)
                      /\ Handling(r)' <=> consumer'.at = "finish" /\ r = consumer'.req
                      /\ ~Handling(r)
                      /\ Handling(r)' => Enlisted(r)
  BY <1>1, <1>2, <1>3 DEF Enlisted, Handling
<1>5. \A r \in Reqs : Coming(r)' <=> Coming(r)
  BY <1>1, <1>2, <1>4 DEF Coming, Handling
<1>6. \A r \in Reqs : Unfinished(r)' <=> Unfinished(r)
  BY <1>1, <1>4 DEF Unfinished
<1>7. \A r : RowsOf(r)' = RowsOf(r)
  BY <1>1 DEF RowsOf
<1>8. TypeOK'
  BY <1>0, TypeStep DEF Next, Consumer
<1>9. /\ \A i \in 1 .. Len(queue') : i + 1 \in 1 .. Len(queue) /\ queue'[i] = queue[i + 1]
      /\ Len(queue') \in Nat
  BY <1>0, Taken, QueueTypes DEF TakeItem
<1>10. \A i \in 1 .. Len(queue') : DOMAIN queue'[i].rows \subseteq Reqs
  BY <1>0, <1>9, QueueTypes
<1>11. DOMAIN consumer'.item.rows \subseteq Reqs
  BY <1>2
<1>12. RowsInv'
  <2>1. \A i \in 1 .. Len(queue') : \A r \in DOMAIN queue'[i].rows : queue'[i].rows[r] < captured[r]
    BY <1>0, <1>9 DEF RowsInv
  <2>2. \A r \in DOMAIN consumer'.item.rows : consumer'.item.rows[r] < captured[r]
    BY <1>0, <1>1, <1>11, QueuedIsCaptured
  <2> QED BY <1>0, <1>1, <1>7, <2>1, <2>2 DEF RowsInv
<1>13. QueueInv'
  <2>1. \A r \in Reqs : client[r] = "new" => captured[r] = 0 /\ ~Enlisted(r)' /\ ~Handling(r)'
    BY <1>0, <1>4 DEF QueueInv
  <2>2. \A r \in running \cup ended : ~FinishQueued(r)' /\ ~Handling(r)'
    BY <1>0, <1>1, <1>3, <1>4, Basics DEF QueueInv
  <2>3. ASSUME NEW i \in 1 .. Len(queue'), NEW r \in DOMAIN queue'[i].rows PROVE Enlisted(r)'
    <3>1. Enlisted(r) /\ r \in Reqs
      BY <1>0, <1>9, <1>10 DEF QueueInv
    <3>2. consumer'.at = "finish" => consumer'.req # r
      BY <1>2 DEF NoRowsQueued
    <3> QED BY <1>4, <3>1, <3>2
  <2>4. ASSUME NEW i \in 1 .. Len(queue')
        PROVE  \/ queue'[i].kind = "rows" /\ queue'[i].req = NoReq
               \/ queue'[i].kind = "finish" /\ queue'[i].req \in Reqs /\ DOMAIN queue'[i].rows = {}
    BY <1>0, <1>9 DEF QueueInv
  <2>5. ASSUME NEW i \in 1 .. Len(queue'), NEW j \in 1 .. Len(queue'), i < j, queue'[i].req \in Reqs
        PROVE  queue'[j].req # queue'[i].req /\ queue'[i].req \notin DOMAIN queue'[j].rows
    <3>1. /\ i + 1 \in 1 .. Len(queue) /\ queue'[i] = queue[i + 1]
          /\ j + 1 \in 1 .. Len(queue) /\ queue'[j] = queue[j + 1] /\ i + 1 < j + 1
      BY <1>9, <2>5
    <3> QED BY <1>0, <2>5, <3>1 DEF QueueInv
  <2>6. running \cap ended = {}
    BY <1>0 DEF QueueInv
  <2> QED BY <1>1, <2>1, <2>2, <2>3, <2>4, <2>5, <2>6 DEF QueueInv
<1>14. ConsumerInv'
  <2>1. CASE consumer'.at = "demux"
    <3>1. \A r \in consumer'.routes : transport[r] = "disk" /\ client[r] # "new"
      BY <1>0, <1>2, <2>1 DEF DiskInv
    <3>2. \A r \in DOMAIN consumer'.item.rows : Enlisted(r)' /\ (r \notin consumer'.routes => r \notin routed)
      BY <1>2, <1>4, <2>1
    <3> QED BY <1>1, <2>1, <3>1, <3>2 DEF ConsumerInv
  <2>2. CASE consumer'.at = "finish"
    <3>1. consumer'.routes = {} /\ DOMAIN consumer'.item.rows = {} /\ NoRowsQueued(consumer.req)'
      BY <1>2, <2>2
    <3>2. consumer'.req \in Reqs /\ ~Enlisted(consumer.req)'
      <4>1. \A r \in Reqs : r = consumer'.req => ~Enlisted(r)'
        BY <1>4, <2>2
      <4> QED BY <1>3, <2>2, <4>1
    <3> QED BY <1>1, <2>2, <3>1, <3>2 DEF ConsumerInv
  <2> QED BY <1>2, <2>1, <2>2
<1>15. OffloadInv'
  BY <1>0, <1>1, <1>2, <1>6, OffloadFrame
<1>16. DiskInv'
  <2>1. \A r \in Reqs : \A x : StagedOrComing(r, x) => StagedOrComing(r, x)'
    BY <1>1 DEF StagedOrComing
  <2>2. \A r : DirAwaited(r) => DirAwaited(r)'
    BY <1>1 DEF DirAwaited
  <2>3. \A r \in routed \ diskAborted : r \in Reqs
    BY <1>0, Basics
  <2> QED BY <1>0, <1>1, <1>5, <1>7, <2>1, <2>2, <2>3, DiskFrame
<1>17. HostInv'
  <2>1. \A r \in Reqs : \A x : IndexedOrComing(r, x) => IndexedOrComing(r, x)'
    BY <1>1 DEF IndexedOrComing
  <2>2. worker.at # "idle" => worker.req \in Reqs /\ client[worker.req] = "cleared"
    BY <1>0 DEF HostInv
  <2> QED BY <1>0, <1>1, <1>4, <1>6, <1>7, <2>1, <2>2, HostFrame
<1> QED BY <1>8, <1>12, <1>13, <1>14, <1>15, <1>16, <1>17 DEF Parts

LEMMA DemuxHostKeeps ==
  ASSUME Parts, NEW q \in Reqs, DemuxHost(q) PROVE Parts'
<1>0. TypeOK /\ RowsInv /\ QueueInv /\ ConsumerInv /\ OffloadInv /\ DiskInv /\ HostInv
  BY DEF Parts
<1>1. /\ consumer.at = "demux" /\ q \in consumer.todo \ consumer.routes
      /\ consumer'.at = "demux" /\ consumer'.req = consumer.req
      /\ consumer'.item = consumer.item /\ consumer'.routes = consumer.routes
      /\ consumer'.todo = consumer.todo \ {q} /\ consumer'.staged = consumer.staged \cup {q}
      /\ UNCHANGED <<client, transport, got, running, ended, captured, worker, queue>>
      /\ UNCHANGED <<routed, staging, deliveredSrc, pending, diskAborted, hostAborted, unstaged>>
      /\ UNCHANGED <<index, stash, deliverable, dirs, dirRows, destRows>>
      /\ UNCHANGED offloadVars
  BY <1>0 DEF DemuxHost, clientVars, engineVars, tableVars, hostVars, dirVars, TypeOK, DrainType
<1>2. \A r : /\ Enlisted(r)' <=> Enlisted(r)
             /\ RowsOf(r)' = RowsOf(r)
             /\ \A x : RowQueued(r, x)' <=> RowQueued(r, x)
  BY <1>1, SameEngine
<1>3. \A r : Handling(r)' <=> Handling(r)
  BY <1>1 DEF Handling
<1>4. \A r : Coming(r)' <=> Coming(r)
  BY <1>1, <1>2 DEF Coming
<1>5. \A r \in Reqs : Unfinished(r)' <=> Unfinished(r)
  BY <1>1, <1>2, <1>3 DEF Unfinished
<1>6. TypeOK'
  BY <1>0, TypeStep DEF Next, Consumer
<1>7. RowsInv'
  BY <1>0, <1>1, RowsFrame
<1>8. QueueInv'
  BY <1>0, <1>1, <1>3, QueueFrame
<1>9. ConsumerInv'
  BY <1>0, <1>1, <1>2 DEF ConsumerInv
<1>10. OffloadInv'
  BY <1>0, <1>1, <1>5, OffloadFrame
<1>11. DiskInv'
  <2>1. q \notin routed
    BY <1>0, <1>1 DEF ConsumerInv
  <2>2. \A r \in routed : \A x : StagedOrComing(r, x) => StagedOrComing(r, x)'
    BY <1>1, <1>2, <2>1 DEF StagedOrComing
  <2>3. \A r : DirAwaited(r) => DirAwaited(r)'
    BY <1>1 DEF DirAwaited
  <2> QED BY <1>0, <1>1, <1>2, <1>4, <2>2, <2>3, DiskFrame
<1>12. HostInv'
  <2>1. \A r, x : IndexedOrComing(r, x) => IndexedOrComing(r, x)'
    BY <1>1, <1>2 DEF IndexedOrComing
  <2>2. worker.at # "idle" => worker.req \in Reqs /\ client[worker.req] = "cleared"
    BY <1>0 DEF HostInv
  <2> QED BY <1>0, <1>1, <1>2, <1>3, <1>5, <2>1, <2>2, HostFrame
<1> QED BY <1>6, <1>7, <1>8, <1>9, <1>10, <1>11, <1>12 DEF Parts

\* Making a request's directory, skipping an aborted one, or aborting a failed one.
LEMMA DemuxDiskKeeps ==
  ASSUME Parts, NEW q \in Reqs, DemuxDisk(q) PROVE Parts'
<1>0. TypeOK /\ RowsInv /\ QueueInv /\ ConsumerInv /\ OffloadInv /\ DiskInv /\ HostInv
  BY DEF Parts
<1>1. /\ consumer.at = "demux" /\ q \in consumer.todo \cap consumer.routes
      /\ consumer'.item = consumer.item /\ consumer'.routes = consumer.routes
      /\ consumer'.staged = consumer.staged
      /\ \/ /\ q \in diskAborted' \/ q \notin routed
            /\ consumer'.at = "demux" /\ consumer'.todo = consumer.todo \ {q}
            /\ diskAborted' \in {diskAborted, diskAborted \cup {q}}
            /\ staging' = staging /\ dirs' = dirs
         \/ /\ consumer'.at = "append" /\ consumer'.req = q /\ consumer'.todo = consumer.todo
            /\ staging' = staging \cup {q} /\ dirs' = dirs \cup {q} /\ diskAborted' = diskAborted
      /\ UNCHANGED <<client, transport, got, running, ended, captured, worker, queue>>
      /\ UNCHANGED <<routed, deliveredSrc, pending, hostAborted, unstaged>>
      /\ UNCHANGED <<index, stash, deliverable, dirRows, destRows>>
      /\ UNCHANGED offloadVars
  BY <1>0 DEF DemuxDisk, clientVars, engineVars, hostVars, TypeOK, DrainType
<1>2. \A r : /\ Enlisted(r)' <=> Enlisted(r)
             /\ RowsOf(r)' = RowsOf(r)
             /\ \A x : RowQueued(r, x)' <=> RowQueued(r, x)
  BY <1>1, SameEngine
<1>3. \A r : ~Handling(r) /\ ~Handling(r)'
  BY <1>1 DEF Handling
<1>4. \A r : Coming(r)' <=> Coming(r)
  BY <1>1, <1>2 DEF Coming
<1>5. \A r \in Reqs : Unfinished(r)' <=> Unfinished(r)
  BY <1>1, <1>2, <1>3 DEF Unfinished
<1>6. TypeOK'
  BY <1>0, TypeStep DEF Next, Consumer
<1>7. Enlisted(q) /\ Coming(q) /\ transport[q] = "disk"
  BY <1>0, <1>1 DEF ConsumerInv, Coming
<1>8. RowsInv'
  BY <1>0, <1>1, RowsFrame
<1>9. QueueInv'
  BY <1>0, <1>1, <1>3, QueueFrame
<1>10. ConsumerInv'
  <2>1. consumer'.todo \cup consumer'.staged \subseteq DOMAIN consumer'.item.rows
    BY <1>0, <1>1 DEF ConsumerInv
  <2>2. consumer'.at = "append" => consumer'.req \in consumer'.todo \cap staging'
    BY <1>1
  <2>3. consumer'.at \in {"demux", "append"}
    BY <1>1
  <2> QED BY <1>0, <1>1, <1>2, <2>1, <2>2, <2>3 DEF ConsumerInv
<1>11. OffloadInv'
  BY <1>0, <1>1, <1>5, OffloadFrame
<1>12. DiskInv'
  <2>1. \A r \in routed \ diskAborted' : \A x : StagedOrComing(r, x) => StagedOrComing(r, x)'
    BY <1>1, <1>2 DEF StagedOrComing
  <2>2. \A r \in routed \ diskAborted' : r \in routed \ diskAborted
    BY <1>1
  <2>3. \A r \in routed \ diskAborted' : \A x \in RowsOf(r)' : StagedOrComing(r, x)'
    BY <1>0, <1>2, <2>1, <2>2 DEF DiskInv
  <2>4. \A r \in dirs : DirAwaited(r)
    BY <1>0 DEF DiskInv
  <2>5. \A r \in dirs' : DirAwaited(r)'
    BY <1>1, <2>4 DEF DirAwaited
  <2>6. \A r \in staging' : transport[r] = "disk" /\ Coming(r) /\ r \in dirs'
    BY <1>0, <1>1, <1>7 DEF DiskInv
  <2>7. \A r \in diskAborted' : transport[r] = "disk" /\ Coming(r)
    BY <1>0, <1>1, <1>7 DEF DiskInv
  <2>8. \A r \in Reqs : transport[r] = "disk" /\ Coming(r) => r \in routed \cup diskAborted'
    BY <1>0, <1>1 DEF DiskInv
  <2> QED BY <1>0, <1>1, <1>4, <2>3, <2>5, <2>6, <2>7, <2>8 DEF DiskInv
<1>13. HostInv'
  <2>1. \A r, x : r # q /\ IndexedOrComing(r, x) => IndexedOrComing(r, x)'
    BY <1>1, <1>2 DEF IndexedOrComing
  <2>2. worker.at # "idle" => worker.req \in Reqs /\ client[worker.req] = "cleared"
    BY <1>0 DEF HostInv
  <2> QED BY <1>0, <1>1, <1>2, <1>3, <1>5, <1>7, <2>1, <2>2, HostFrame
<1> QED BY <1>6, <1>8, <1>9, <1>10, <1>11, <1>12, <1>13 DEF Parts

LEMMA AppendKeeps ==
  ASSUME Parts, AppendRows PROVE Parts'
<1> DEFINE q == consumer.req
<1>0. TypeOK /\ RowsInv /\ QueueInv /\ ConsumerInv /\ OffloadInv /\ DiskInv /\ HostInv
  BY DEF Parts
<1>1. /\ consumer.at = "append" /\ consumer'.at = "demux" /\ consumer'.req = NoReq
      /\ consumer'.item = consumer.item /\ consumer'.routes = consumer.routes
      /\ consumer'.todo = consumer.todo \ {q} /\ consumer'.staged = consumer.staged
      /\ dirRows' = [dirRows EXCEPT ![q] = @ \cup {consumer.item.rows[q]}]
      /\ UNCHANGED <<client, transport, got, running, ended, captured, worker, queue>>
      /\ UNCHANGED <<routed, staging, deliveredSrc, pending, diskAborted, hostAborted, unstaged>>
      /\ UNCHANGED <<index, stash, deliverable, dirs, destRows>>
      /\ UNCHANGED offloadVars
  BY <1>0 DEF AppendRows, clientVars, engineVars, tableVars, hostVars, TypeOK, DrainType
<1>2. q \in consumer.todo /\ q \in staging /\ q \in DOMAIN consumer.item.rows /\ q \in Reqs
  BY <1>0, <1>1, Basics DEF ConsumerInv
<1>3. Enlisted(q) /\ Unfinished(q) /\ transport[q] = "disk" /\ consumer.item.rows[q] \in RowsOf(q)
  <2>1. Enlisted(q)
    BY <1>0, <1>1, <1>2 DEF ConsumerInv
  <2>2. consumer.item.rows[q] \in Nat /\ consumer.item.rows[q] < captured[q] /\ captured[q] \in Nat
    BY <1>0, <1>2, QueueTypes, Basics DEF RowsInv
  <2>3. transport[q] = "disk"
    BY <1>0, <1>2 DEF DiskInv
  <2>4. consumer.item.rows[q] \in RowsOf(q)
    BY <2>2 DEF RowsOf
  <2> QED BY <2>1, <2>3, <2>4 DEF Unfinished
<1> HIDE DEF q
<1>4. \A r \in Reqs : dirRows'[r] = IF r = q THEN dirRows[r] \cup {consumer.item.rows[q]} ELSE dirRows[r]
  BY <1>0, <1>1, Basics
<1>5. \A r : /\ Enlisted(r)' <=> Enlisted(r)
             /\ RowsOf(r)' = RowsOf(r)
             /\ \A x : RowQueued(r, x)' <=> RowQueued(r, x)
  BY <1>1, SameEngine
<1>6. \A r : ~Handling(r) /\ ~Handling(r)'
  BY <1>1 DEF Handling
<1>7. \A r : Coming(r)' <=> Coming(r)
  BY <1>1, <1>5 DEF Coming
<1>8. \A r \in Reqs : Unfinished(r)' <=> Unfinished(r)
  BY <1>1, <1>5, <1>6 DEF Unfinished
<1>9. TypeOK'
  BY <1>0, TypeStep DEF Next, Consumer
<1>10. RowsInv'
  <2>1. \A r \in Reqs : got[r] \cup index[r] \cup stash[r] \cup dirRows'[r] \cup destRows[r]
                      \subseteq RowsOf(r)
    BY <1>0, <1>3, <1>4 DEF RowsInv
  <2> QED BY <1>0, <1>1, <1>5, <2>1 DEF RowsInv
<1>11. QueueInv'
  BY <1>0, <1>1, <1>6, QueueFrame
<1>12. ConsumerInv'
  BY <1>0, <1>1, <1>5 DEF ConsumerInv
<1>13. OffloadInv'
  <2>1. NotSubmitted(q)
    BY <1>0, <1>2, <1>3 DEF OffloadInv
  <2>2. \A r : NotSubmitted(r)' <=> NotSubmitted(r)
    BY <1>1 DEF NotSubmitted, offloadVars
  <2>3. UNCHANGED <<inflight, event>>
    BY <1>1 DEF offloadVars
  <2>4. \A r \in Reqs : r \in inflight => r \in dirs /\ dirRows'[r] = RowsOf(r)
    BY <1>0, <1>4, <2>1 DEF OffloadInv, SourceOutlivesTransfer, NotSubmitted
  <2> QED BY <1>0, <1>1, <1>5, <1>8, <2>2, <2>3, <2>4 DEF OffloadInv, SourceOutlivesTransfer
<1>14. DiskInv'
  <2>1. \A r \in Reqs : \A x : StagedOrComing(r, x) => StagedOrComing(r, x)'
    BY <1>1, <1>4, <1>5 DEF StagedOrComing
  <2>2. \A r : DirAwaited(r) => DirAwaited(r)'
    BY <1>1 DEF DirAwaited
  <2>3. \A r \in routed \ diskAborted : r \in Reqs
    BY <1>0, Basics
  <2> QED BY <1>0, <1>1, <1>5, <1>7, <2>1, <2>2, <2>3, DiskFrame
<1>15. HostInv'
  <2>1. \A r, x : r # q /\ IndexedOrComing(r, x) => IndexedOrComing(r, x)'
    BY <1>1, <1>5 DEF IndexedOrComing
  <2>2. worker.at # "idle" => worker.req \in Reqs /\ client[worker.req] = "cleared"
    BY <1>0 DEF HostInv
  <2> QED BY <1>0, <1>1, <1>3, <1>5, <1>6, <1>8, <2>1, <2>2, HostFrame
<1> QED BY <1>9, <1>10, <1>11, <1>12, <1>13, <1>14, <1>15 DEF Parts

LEMMA AppendFailsKeeps ==
  ASSUME Parts, AppendFails PROVE Parts'
<1> DEFINE q == consumer.req
<1>0. TypeOK /\ RowsInv /\ QueueInv /\ ConsumerInv /\ OffloadInv /\ DiskInv /\ HostInv
  BY DEF Parts
<1>1. /\ consumer.at = "append" /\ consumer'.at = "demux" /\ consumer'.req = NoReq
      /\ consumer'.item = consumer.item /\ consumer'.routes = consumer.routes
      /\ consumer'.todo = consumer.todo \ {q} /\ consumer'.staged = consumer.staged
      /\ diskAborted' = (IF q \in staging \cup routed THEN diskAborted \cup {q} ELSE diskAborted)
      /\ UNCHANGED <<client, transport, got, running, ended, captured, worker, queue>>
      /\ UNCHANGED <<routed, staging, deliveredSrc, pending, hostAborted, unstaged>>
      /\ UNCHANGED <<index, stash, deliverable, dirs, dirRows, destRows>>
      /\ UNCHANGED offloadVars
  BY <1>0 DEF AppendFails, clientVars, engineVars, hostVars, TypeOK, DrainType
<1>2. q \in consumer.todo /\ q \in staging /\ q \in DOMAIN consumer.item.rows /\ q \in Reqs
  BY <1>0, <1>1, Basics DEF ConsumerInv
<1>3. diskAborted' = diskAborted \cup {q} /\ transport[q] = "disk" /\ Coming(q)
  BY <1>0, <1>1, <1>2 DEF DiskInv
<1> HIDE DEF q
<1>4. \A r : /\ Enlisted(r)' <=> Enlisted(r)
             /\ RowsOf(r)' = RowsOf(r)
             /\ \A x : RowQueued(r, x)' <=> RowQueued(r, x)
  BY <1>1, SameEngine
<1>5. \A r : ~Handling(r) /\ ~Handling(r)'
  BY <1>1 DEF Handling
<1>6. \A r : Coming(r)' <=> Coming(r)
  BY <1>1, <1>4 DEF Coming
<1>7. \A r \in Reqs : Unfinished(r)' <=> Unfinished(r)
  BY <1>1, <1>4, <1>5 DEF Unfinished
<1>8. TypeOK'
  BY <1>0, TypeStep DEF Next, Consumer
<1>9. RowsInv'
  BY <1>0, <1>1, RowsFrame
<1>10. QueueInv'
  BY <1>0, <1>1, <1>5, QueueFrame
<1>11. ConsumerInv'
  BY <1>0, <1>1, <1>4 DEF ConsumerInv
<1>12. OffloadInv'
  BY <1>0, <1>1, <1>7, OffloadFrame
<1>13. DiskInv'
  <2>1. \A r \in routed \ diskAborted' : \A x : StagedOrComing(r, x) => StagedOrComing(r, x)'
    BY <1>1, <1>3, <1>4 DEF StagedOrComing
  <2>2. \A r \in routed \ diskAborted' : \A x \in RowsOf(r)' : StagedOrComing(r, x)'
    BY <1>0, <1>3, <1>4, <2>1 DEF DiskInv
  <2>3. \A r \in dirs : DirAwaited(r)
    BY <1>0 DEF DiskInv
  <2>4. \A r \in dirs' : DirAwaited(r)'
    BY <1>1, <2>3 DEF DirAwaited
  <2>5. \A r \in diskAborted' : transport[r] = "disk" /\ Coming(r)
    BY <1>0, <1>3 DEF DiskInv
  <2>6. \A r \in Reqs : transport[r] = "disk" /\ Coming(r) => r \in routed \cup diskAborted'
    BY <1>0, <1>3 DEF DiskInv
  <2> QED BY <1>0, <1>1, <1>6, <2>2, <2>4, <2>5, <2>6 DEF DiskInv
<1>14. HostInv'
  <2>1. \A r, x : r # q /\ IndexedOrComing(r, x) => IndexedOrComing(r, x)'
    BY <1>1, <1>4 DEF IndexedOrComing
  <2>2. worker.at # "idle" => worker.req \in Reqs /\ client[worker.req] = "cleared"
    BY <1>0 DEF HostInv
  <2> QED BY <1>0, <1>1, <1>3, <1>4, <1>5, <1>7, <2>1, <2>2, HostFrame
<1> QED BY <1>8, <1>9, <1>10, <1>11, <1>12, <1>13, <1>14 DEF Parts

\* Back from an item, the consumer has nothing in its hands.
LEMMA IdleAgain ==
  ASSUME TypeOK, QueueInv, consumer' = [IdleConsumer EXCEPT !.at = "reclaim"]
                           \/ consumer' = IdleConsumer
  PROVE  /\ consumer'.at \in {"get", "reclaim"} /\ consumer'.req = NoReq
         /\ consumer'.item = NoItem /\ DOMAIN consumer'.item.rows = {}
         /\ consumer'.todo = {} /\ consumer'.staged = {} /\ consumer'.routes = {}
         /\ ConsumerInv'
<1>1. /\ consumer'.at \in {"get", "reclaim"} /\ consumer'.req = NoReq
      /\ consumer'.item = NoItem /\ consumer'.todo = {} /\ consumer'.staged = {}
      /\ consumer'.routes = {}
  BY DEF IdleConsumer
<1>2. DOMAIN consumer'.item.rows = {}
  BY <1>1, ItemTypes
<1> QED BY <1>1, <1>2 DEF ConsumerInv

LEMMA NoteKeeps ==
  ASSUME Parts, NoteRows PROVE Parts'
<1>0. TypeOK /\ RowsInv /\ QueueInv /\ ConsumerInv /\ OffloadInv /\ DiskInv /\ HostInv
  BY DEF Parts
<1> DEFINE kept == consumer.staged \ (hostAborted \cup diskAborted)
<1>1. /\ consumer.at = "demux" /\ consumer.todo = {}
      /\ consumer' = [IdleConsumer EXCEPT !.at = "reclaim"]
      /\ \A r \in Reqs : index'[r] = IF r \in kept THEN index[r] \cup {consumer.item.rows[r]}
                                     ELSE index[r]
      /\ UNCHANGED <<client, transport, got, running, ended, captured, worker, queue>>
      /\ UNCHANGED <<routed, staging, deliveredSrc, pending, diskAborted, hostAborted, unstaged>>
      /\ UNCHANGED <<stash, deliverable, dirs, dirRows, destRows>>
      /\ UNCHANGED offloadVars
  BY DEF NoteRows, clientVars, engineVars, tableVars, dirVars
<1>2. /\ consumer'.at = "reclaim" /\ consumer'.req = NoReq /\ consumer'.todo = {}
      /\ consumer'.staged = {} /\ DOMAIN consumer'.item.rows = {} /\ ConsumerInv'
  BY <1>0, <1>1, IdleAgain DEF IdleConsumer
<1>3. \A r : /\ Enlisted(r)' <=> Enlisted(r)
             /\ RowsOf(r)' = RowsOf(r)
             /\ \A x : RowQueued(r, x)' <=> RowQueued(r, x)
  BY <1>1, SameEngine
<1>4. \A r : ~Handling(r) /\ ~Handling(r)'
  BY <1>1, <1>2 DEF Handling
<1>5. \A r : Coming(r)' <=> Coming(r)
  BY <1>1, <1>2, <1>3 DEF Coming
<1>6. \A r \in Reqs : Unfinished(r)' <=> Unfinished(r)
  BY <1>1, <1>3, <1>4 DEF Unfinished
<1>7. TypeOK'
  BY <1>0, TypeStep DEF Next, Consumer
<1>8. ASSUME NEW r \in consumer.staged
      PROVE  /\ r \in Reqs /\ Enlisted(r) /\ Unfinished(r) /\ client[r] # "new"
             /\ consumer.item.rows[r] \in RowsOf(r)
             /\ r \notin routed
             /\ transport[r] = "disk" => r \in diskAborted
  <2>1. r \in DOMAIN consumer.item.rows /\ r \notin consumer.routes
    BY <1>0 DEF ConsumerInv
  <2>2. r \in Reqs /\ Enlisted(r) /\ r \notin routed
    BY <1>0, <1>1, <2>1, QueueTypes DEF ConsumerInv
  <2>3. consumer.item.rows[r] \in Nat /\ consumer.item.rows[r] < captured[r] /\ captured[r] \in Nat
    BY <1>0, <2>1, <2>2, QueueTypes, Basics DEF RowsInv
  <2>4. consumer.item.rows[r] \in RowsOf(r)
    BY <2>3 DEF RowsOf
  <2>5. transport[r] = "disk" => r \in diskAborted
    BY <1>0, <2>2 DEF DiskInv, Coming
  <2>6. client[r] # "new"
    BY <1>0, <2>2 DEF QueueInv
  <2> QED BY <2>2, <2>4, <2>5, <2>6 DEF Unfinished
<1>9. RowsInv'
  <2>1. \A r \in Reqs : got[r] \cup index'[r] \cup stash[r] \cup dirRows[r] \cup destRows[r]
                      \subseteq RowsOf(r)
    <3>1. \A r \in Reqs : got[r] \cup index[r] \cup stash[r] \cup dirRows[r] \cup destRows[r]
                        \subseteq RowsOf(r)
      BY <1>0 DEF RowsInv
    <3>2. \A r \in Reqs : index'[r] = index[r]
                           \/ (r \in consumer.staged /\ index'[r] = index[r] \cup {consumer.item.rows[r]})
      BY <1>1
    <3>3. \A r \in Reqs : index'[r] \subseteq RowsOf(r)
      BY <1>8, <3>1, <3>2
    <3> QED BY <3>1, <3>3
  <2> QED BY <1>0, <1>1, <1>2, <1>3, <2>1 DEF RowsInv
<1>10. QueueInv'
  BY <1>0, <1>1, <1>4, QueueFrame
<1>11. OffloadInv'
  BY <1>0, <1>1, <1>2, <1>6, OffloadFrame
<1>12. DiskInv'
  <2>1. \A r, x : StagedOrComing(r, x) => StagedOrComing(r, x)'
    BY <1>1, <1>3 DEF StagedOrComing
  <2>2. \A r : DirAwaited(r) => DirAwaited(r)'
    BY <1>1 DEF DirAwaited
  <2> QED BY <1>0, <1>1, <1>3, <1>5, <2>1, <2>2, DiskFrame
<1>13. HostInv'
  <2>1. \A r \in Reqs : transport[r] = "disk" \/ client[r] = "new" => index'[r] = {}
    BY <1>0, <1>1, <1>8 DEF HostInv
  <2>2. HostRowsAreWhole'
    BY <1>0, <1>1, <1>3, <1>8, Basics DEF HostInv, HostRowsAreWhole
  <2>3. ASSUME NEW r \in Reqs, transport[r] = "rpc", client[r] # "cleared",
               Enlisted(r), NEW x \in RowsOf(r)
        PROVE  IndexedOrComing(r, x)'
    <3>1. IndexedOrComing(r, x)
      BY <1>0, <2>3 DEF HostInv
    <3>2. CASE x \in index[r] \/ RowQueued(r, x)
      BY <1>1, <1>3, <3>2 DEF IndexedOrComing
    <3>3. CASE r \in consumer.staged /\ consumer.item.rows[r] = x
      <4>1. r \in kept
        BY <1>0, <2>3, <3>3 DEF HostInv, DiskInv
      <4> QED BY <1>1, <3>3, <4>1 DEF IndexedOrComing
    <3> QED BY <1>1, <3>1, <3>2, <3>3 DEF IndexedOrComing
  <2> HIDE DEF kept
  <2> QED BY <1>0, <1>1, <1>3, <1>4, <1>6, <2>1, <2>2, <2>3 DEF HostInv
<1> QED BY <1>2, <1>7, <1>9, <1>10, <1>11, <1>12, <1>13 DEF Parts

\* When its finish is handled every row of a request is in its place.
LEMMA FinishKeeps ==
  ASSUME Parts, HandleFinish PROVE Parts'
<1> DEFINE q == consumer.req
           aborted == q \in diskAborted
           disk == ~aborted /\ q \in routed
<1>0. TypeOK /\ RowsInv /\ QueueInv /\ ConsumerInv /\ OffloadInv /\ DiskInv /\ HostInv
  BY DEF Parts
<1>1. /\ consumer.at = "finish" /\ q \in Reqs /\ ~Enlisted(q) /\ NoRowsQueued(q)
      /\ DOMAIN consumer.item.rows = {} /\ consumer.todo = {} /\ consumer.staged = {}
      /\ Coming(q) /\ Handling(q) /\ client[q] # "new"
  <2>1. consumer.at = "finish"
    BY DEF HandleFinish
  <2>2. q \in Reqs /\ ~Enlisted(q) /\ NoRowsQueued(q) /\ DOMAIN consumer.item.rows = {}
        /\ consumer.todo = {} /\ consumer.staged = {}
    BY <1>0, <2>1 DEF ConsumerInv
  <2>3. Coming(q) /\ Handling(q)
    BY <2>1 DEF Coming, Handling
  <2>4. client[q] # "new"
    BY <1>0, <2>2, <2>3 DEF QueueInv
  <2> QED BY <2>1, <2>2, <2>3, <2>4
<1>2. transport[q] = "disk" <=> aborted \/ disk
  BY <1>0, <1>1 DEF DiskInv
<1>3. q \in staging => aborted \/ disk
  BY <1>0, <1>2 DEF DiskInv
<1>4. q \notin deliveredSrc /\ (q \in hostAborted => ~aborted)
  BY <1>0, <1>1, <1>2 DEF DiskInv, HostInv
<1>5. /\ consumer'.at = (IF aborted THEN (IF q \in staging THEN "discard" ELSE "reclaim")
                         ELSE IF disk THEN (IF q \in staging THEN "submit" ELSE "reclaim")
                         ELSE "host")
      /\ consumer'.req = q /\ consumer'.item = consumer.item
      /\ consumer'.routes = consumer.routes
      /\ consumer'.todo = consumer.todo /\ consumer'.staged = consumer.staged
      /\ diskAborted' = diskAborted \ {q} /\ routed' = routed \ {q}
      /\ staging' = staging \ {q} /\ hostAborted' = hostAborted
      /\ deliveredSrc' = (IF disk /\ q \in staging THEN deliveredSrc \cup {q} ELSE deliveredSrc)
      /\ unstaged' \in {unstaged, IF disk THEN unstaged \cup {q} ELSE unstaged}
      /\ UNCHANGED <<client, transport, got, running, ended, captured, worker, queue, pending>>
      /\ UNCHANGED <<index, stash, deliverable, dirs, dirRows, destRows>>
      /\ UNCHANGED offloadVars
  <2>1. /\ consumer' = [consumer EXCEPT !.at =
               IF aborted THEN (IF q \in staging THEN "discard" ELSE "reclaim")
               ELSE IF disk THEN (IF q \in staging THEN "submit" ELSE "reclaim") ELSE "host"]
        /\ diskAborted' = diskAborted \ {q} /\ routed' = routed \ {q}
        /\ staging' = (IF aborted \/ disk THEN staging \ {q} ELSE staging)
        /\ hostAborted' = (IF aborted THEN hostAborted \ {q} ELSE hostAborted)
        /\ deliveredSrc' = (IF aborted THEN deliveredSrc \ {q}
                            ELSE IF disk /\ q \in staging THEN deliveredSrc \cup {q}
                            ELSE deliveredSrc)
        /\ unstaged' = (IF disk /\ q \notin staging /\ NoteUnstaged
                        THEN unstaged \cup {q} ELSE unstaged)
    BY DEF HandleFinish
  <2>2. staging' = staging \ {q} /\ hostAborted' = hostAborted
    BY <1>3, <1>4, <2>1
  <2>3. deliveredSrc' = IF disk /\ q \in staging THEN deliveredSrc \cup {q} ELSE deliveredSrc
    BY <1>4, <2>1
  <2>4. unstaged' \in {unstaged, IF disk THEN unstaged \cup {q} ELSE unstaged}
    BY <2>1
  <2>5. /\ UNCHANGED <<client, transport, got, running, ended, captured, worker, queue, pending>>
        /\ UNCHANGED <<index, stash, deliverable, dirs, dirRows, destRows>>
        /\ UNCHANGED offloadVars
    BY DEF HandleFinish, clientVars, engineVars, hostVars, dirVars
  <2>6. /\ consumer'.at = (IF aborted THEN (IF q \in staging THEN "discard" ELSE "reclaim")
                           ELSE IF disk THEN (IF q \in staging THEN "submit" ELSE "reclaim")
                           ELSE "host")
        /\ consumer'.req = q /\ consumer'.item = consumer.item
        /\ consumer'.routes = consumer.routes
        /\ consumer'.todo = consumer.todo /\ consumer'.staged = consumer.staged
    BY <1>0, <2>1 DEF TypeOK, DrainType
  <2> QED BY <2>1, <2>2, <2>3, <2>4, <2>5, <2>6
<1>6. \A r : /\ Enlisted(r)' <=> Enlisted(r)
             /\ NoRowsQueued(r)' <=> NoRowsQueued(r)
             /\ RowsOf(r)' = RowsOf(r)
             /\ \A x : RowQueued(r, x)' <=> RowQueued(r, x)
  BY <1>5, SameEngine
<1> HIDE DEF q, aborted, disk
<1>7. \A r : Handling(r)' => Handling(r)
  BY <1>1, <1>5 DEF Handling, q
<1>8. \A r : Coming(r)' <=> Coming(r) /\ r # q
  BY <1>1, <1>5, <1>6 DEF Coming, q
<1>9. \A r \in Reqs : Unfinished(r)' => Unfinished(r)
  BY <1>5, <1>6, <1>7 DEF Unfinished
<1>10. TypeOK'
  BY <1>0, TypeStep DEF Next, Consumer
<1>11. RowsInv'
  BY <1>0, <1>5, RowsFrame
<1>12. QueueInv'
  BY <1>0, <1>5, <1>7, QueueFrame
<1>13. ConsumerInv'
  <2>1. consumer'.at \notin {"demux", "append"}
    BY <1>5
  <2>2. ~Enlisted(consumer.req)' /\ NoRowsQueued(consumer.req)'
    <3>1. \A r : r = q => ~Enlisted(r)' /\ NoRowsQueued(r)'
      BY <1>1, <1>6
    <3> QED BY <1>5, <3>1
  <2>3. \A r \in consumer'.routes : transport[r] = "disk" /\ client[r] # "new"
    BY <1>0, <1>5 DEF ConsumerInv
  <2> QED BY <1>1, <1>5, <2>1, <2>2, <2>3 DEF ConsumerInv
<1>14. OffloadInv'
  <2>1. ASSUME consumer'.at = "submit" PROVE q \in dirs /\ dirRows[q] = RowsOf(q)
    <3>1. q \in staging /\ q \in routed /\ q \notin diskAborted
      BY <1>5, <2>1 DEF aborted, disk
    <3>2. \A x \in RowsOf(q) : x \in dirRows[q]
      BY <1>0, <1>1, <3>1, NoRowOf DEF DiskInv, StagedOrComing
    <3>3. dirRows[q] \subseteq RowsOf(q)
      BY <1>0, <1>1 DEF RowsInv
    <3> QED BY <1>0, <3>1, <3>2, <3>3 DEF DiskInv
  <2>2. \A r : NotSubmitted(r)' <=> NotSubmitted(r)
    BY <1>5 DEF NotSubmitted, offloadVars
  <2>3. UNCHANGED <<inflight, event>>
    BY <1>5 DEF offloadVars
  <2> QED BY <1>0, <1>5, <1>6, <1>9, <2>1, <2>2, <2>3 DEF OffloadInv, SourceOutlivesTransfer
<1>15. DiskInv'
  <2>1. \A r, x : StagedOrComing(r, x)' <=> StagedOrComing(r, x)
    BY <1>5, <1>6 DEF StagedOrComing
  <2>2. \A r \in routed' : transport[r] = "disk" /\ client[r] \notin {"new", "cleared"} /\ Coming(r)'
    BY <1>0, <1>5, <1>8 DEF DiskInv
  <2>3. \A r \in staging' : transport[r] = "disk" /\ Coming(r)' /\ r \in dirs
    BY <1>0, <1>5, <1>8 DEF DiskInv
  <2>4. \A r \in diskAborted' : transport[r] = "disk" /\ Coming(r)'
    BY <1>0, <1>5, <1>8 DEF DiskInv
  <2>5. \A r \in Reqs : transport[r] = "disk" /\ Coming(r)' => r \in routed' \cup diskAborted'
    BY <1>0, <1>5, <1>8 DEF DiskInv
  <2>6. disk => client[q] \notin {"new", "cleared"}
    BY <1>0 DEF DiskInv, disk
  <2>7. \A r \in deliveredSrc' : ~Coming(r)' /\ client[r] \notin {"new", "cleared"}
    BY <1>0, <1>5, <1>8, <2>6 DEF DiskInv
  <2>8. \A r \in unstaged' : client[r] \notin {"new", "cleared"}
    BY <1>0, <1>5, <2>6 DEF DiskInv
  <2>9. \A r \in routed' \ diskAborted' : r \in routed \ diskAborted
    BY <1>5
  <2>10. ASSUME NEW r \in dirs PROVE DirAwaited(r)'
    <3>1. DirAwaited(r)
      BY <1>0 DEF DiskInv
    <3>2. CASE r = q
      BY <1>1, <1>3, <1>4, <1>5, <3>1, <3>2 DEF DirAwaited
    <3>3. CASE r # q
      BY <1>1, <1>5, <3>1, <3>3 DEF DirAwaited
    <3> QED BY <3>2, <3>3
  <2> QED BY <1>0, <1>5, <1>6, <2>1, <2>2, <2>3, <2>4, <2>5, <2>7, <2>8, <2>9, <2>10 DEF DiskInv
<1>16. HostInv'
  <2>1. \A r, x : IndexedOrComing(r, x) => IndexedOrComing(r, x)'
    BY <1>5, <1>6 DEF IndexedOrComing
  <2>2. worker.at # "idle" => worker.req \in Reqs /\ client[worker.req] = "cleared"
    BY <1>0 DEF HostInv
  <2> QED BY <1>0, <1>5, <1>6, <1>7, <1>9, <2>1, <2>2, HostFrame
<1> QED BY <1>10, <1>11, <1>12, <1>13, <1>14, <1>15, <1>16 DEF Parts

\* After a finish the consumer leaves the request.
LEMMA LeavesRequest ==
  ASSUME TypeOK, QueueInv, ConsumerInv, consumer.at \in {"discard", "submit", "host"},
         consumer' = [consumer EXCEPT !.at = "reclaim"],
         UNCHANGED <<client, transport, running, ended, captured, queue, routed, staging>>
  PROVE  /\ consumer.req \in Reqs /\ ~Enlisted(consumer.req) /\ ~Coming(consumer.req)
         /\ NoRowsQueued(consumer.req) /\ Handling(consumer.req) /\ client[consumer.req] # "new"
         /\ DOMAIN consumer.item.rows = {} /\ consumer.todo = {} /\ consumer.staged = {}
         /\ consumer'.at = "reclaim" /\ consumer'.req = consumer.req
         /\ consumer'.item = consumer.item /\ consumer'.todo = {} /\ consumer'.staged = {}
         /\ \A r : /\ Enlisted(r)' <=> Enlisted(r)
                   /\ RowsOf(r)' = RowsOf(r)
                   /\ Coming(r)' <=> Coming(r)
                   /\ ~Handling(r)'
                   /\ \A x : RowQueued(r, x)' <=> RowQueued(r, x)
         /\ \A r \in Reqs : Unfinished(r)' <=> Unfinished(r) /\ r # consumer.req
         /\ ConsumerInv' /\ QueueInv'
<1> DEFINE q == consumer.req
<1>1. /\ consumer'.at = "reclaim" /\ consumer'.req = q /\ consumer'.item = consumer.item
      /\ consumer'.todo = consumer.todo /\ consumer'.staged = consumer.staged
      /\ consumer'.routes = consumer.routes
  BY DEF TypeOK, DrainType
<1>2. /\ q \in Reqs /\ ~Enlisted(q) /\ NoRowsQueued(q)
      /\ DOMAIN consumer.item.rows = {} /\ consumer.todo = {} /\ consumer.staged = {}
  BY DEF ConsumerInv
<1>3. \A r : /\ Enlisted(r)' <=> Enlisted(r)
             /\ RowsOf(r)' = RowsOf(r)
             /\ \A x : RowQueued(r, x)' <=> RowQueued(r, x)
  BY SameEngine
<1>4. \A r : ~Handling(r)' /\ (Handling(r) <=> r = q)
  BY <1>1 DEF Handling
<1>5. \A r : (Coming(r) <=> Enlisted(r)) /\ (Coming(r)' <=> Enlisted(r))
  BY <1>1, <1>3 DEF Coming
<1>6. client[q] # "new"
  BY <1>2, <1>4 DEF QueueInv
<1>7. \A r \in Reqs : Unfinished(r)' <=> Unfinished(r) /\ r # q
  BY <1>2, <1>3, <1>4, <1>6 DEF Unfinished
<1>8. ConsumerInv'
  BY <1>1, <1>2 DEF ConsumerInv
<1>9. QueueInv'
  BY <1>4, QueueFrame
<1> QED BY <1>1, <1>2, <1>3, <1>4, <1>5, <1>6, <1>7, <1>8, <1>9

LEMMA DiscardKeeps ==
  ASSUME Parts, DiscardStaging PROVE Parts'
<1> DEFINE q == consumer.req
<1>0. TypeOK /\ RowsInv /\ QueueInv /\ ConsumerInv /\ OffloadInv /\ DiskInv /\ HostInv
  BY DEF Parts
<1>1. /\ consumer.at = "discard" /\ consumer' = [consumer EXCEPT !.at = "reclaim"]
      /\ dirs' = dirs \ {q}
      /\ UNCHANGED <<client, transport, got, running, ended, captured, worker, queue>>
      /\ UNCHANGED <<routed, staging, deliveredSrc, pending, diskAborted, hostAborted, unstaged>>
      /\ UNCHANGED <<index, stash, deliverable, dirRows, destRows>>
      /\ UNCHANGED offloadVars
  BY DEF DiscardStaging, clientVars, engineVars, tableVars, hostVars
<1>2. /\ q \in Reqs /\ ~Coming(q) /\ consumer.todo = {} /\ consumer.staged = {}
      /\ consumer'.at = "reclaim" /\ consumer'.req = q
      /\ consumer'.item = consumer.item /\ consumer'.todo = {} /\ consumer'.staged = {}
      /\ \A r : /\ Enlisted(r)' <=> Enlisted(r)
                /\ RowsOf(r)' = RowsOf(r)
                /\ Coming(r)' <=> Coming(r)
                /\ ~Handling(r)'
                /\ \A x : RowQueued(r, x)' <=> RowQueued(r, x)
      /\ \A r \in Reqs : Unfinished(r)' <=> Unfinished(r) /\ r # q
      /\ ConsumerInv' /\ QueueInv' /\ Handling(q)
  BY <1>0, <1>1, LeavesRequest
<1> HIDE DEF q
<1>3. TypeOK'
  BY <1>0, TypeStep DEF Next, Consumer
<1>4. RowsInv'
  BY <1>0, <1>1, <1>2, RowsFrame
<1>5. OffloadInv'
  <2>1. q \notin inflight
    BY <1>0, <1>2 DEF OffloadInv, NotSubmitted, Unfinished
  <2> QED BY <1>0, <1>1, <1>2, <2>1, OffloadFrame
<1>6. DiskInv'
  <2>1. \A r, x : StagedOrComing(r, x)' <=> StagedOrComing(r, x)
    BY <1>1, <1>2 DEF StagedOrComing
  <2>2. \A r \in staging : transport[r] = "disk" /\ Coming(r) /\ r \in dirs'
    BY <1>0, <1>1, <1>2 DEF DiskInv
  <2>3. \A r \in dirs' : DirAwaited(r)'
    BY <1>0, <1>1, <1>2 DEF DiskInv, DirAwaited, q
  <2> QED BY <1>0, <1>1, <1>2, <2>1, <2>2, <2>3 DEF DiskInv
<1>7. HostInv'
  <2>1. \A r, x : IndexedOrComing(r, x) => IndexedOrComing(r, x)'
    BY <1>1, <1>2 DEF IndexedOrComing
  <2>2. worker.at # "idle" => worker.req \in Reqs /\ client[worker.req] = "cleared"
    BY <1>0 DEF HostInv
  <2> QED BY <1>0, <1>1, <1>2, <2>1, <2>2, HostFrame
<1> QED BY <1>2, <1>3, <1>4, <1>5, <1>6, <1>7 DEF Parts

\* A directory is handed over whole, and once.
LEMMA SubmitKeeps ==
  ASSUME Parts, SubmitStaging PROVE Parts'
<1> DEFINE q == consumer.req
<1>0. TypeOK /\ RowsInv /\ QueueInv /\ ConsumerInv /\ OffloadInv /\ DiskInv /\ HostInv
  BY DEF Parts
<1>1. /\ consumer.at = "submit" /\ consumer' = [consumer EXCEPT !.at = "reclaim"]
      /\ UNCHANGED <<client, transport, got, running, ended, captured, worker, queue>>
      /\ UNCHANGED <<routed, staging, deliveredSrc, pending, diskAborted, hostAborted, unstaged>>
      /\ UNCHANGED <<index, stash, deliverable, dirs, dirRows, destRows>>
  BY DEF SubmitStaging, clientVars, engineVars, tableVars, hostVars
<1>2. /\ q \in Reqs /\ ~Coming(q) /\ consumer.todo = {} /\ consumer.staged = {}
      /\ consumer'.at = "reclaim" /\ consumer'.req = q
      /\ consumer'.item = consumer.item /\ consumer'.todo = {} /\ consumer'.staged = {}
      /\ \A r : /\ Enlisted(r)' <=> Enlisted(r)
                /\ RowsOf(r)' = RowsOf(r)
                /\ Coming(r)' <=> Coming(r)
                /\ ~Handling(r)'
                /\ \A x : RowQueued(r, x)' <=> RowQueued(r, x)
      /\ \A r \in Reqs : Unfinished(r)' <=> Unfinished(r) /\ r # q
      /\ ConsumerInv' /\ QueueInv' /\ Handling(q)
  BY <1>0, <1>1, LeavesRequest
<1>3. q \notin inflight /\ NotSubmitted(q)
  BY <1>0, <1>2 DEF OffloadInv, NotSubmitted, Unfinished
<1>4. /\ inflight' = inflight \cup {q} /\ event' = event \ {q} /\ jobs' = Append(jobs, q)
      /\ UNCHANGED <<transfer, result>>
  BY <1>3 DEF SubmitStaging, Submit
<1> HIDE DEF q
<1>5. TypeOK'
  BY <1>0, TypeStep DEF Next, Consumer
<1>6. RowsInv'
  BY <1>0, <1>1, <1>2, RowsFrame
<1>7. OffloadInv'
  <2>1. \A k \in 1 .. Len(jobs') : jobs'[k] = q \/ \E j \in 1 .. Len(jobs) : jobs'[k] = jobs[j]
    <3>1. jobs \in Seq(Reqs)
      BY <1>0 DEF TypeOK, OffloadType
    <3> QED BY <1>2, <1>4, <3>1
  <2>2. ASSUME NEW r \in Reqs, Unfinished(r)' PROVE NotSubmitted(r)'
    <3>1. NotSubmitted(r) /\ r # q
      BY <1>0, <1>2, <2>2 DEF OffloadInv
    <3> QED BY <1>4, <2>1, <3>1 DEF NotSubmitted
  <2>3. q \in dirs /\ dirRows[q] = RowsOf(q)
    BY <1>0, <1>1 DEF OffloadInv, q
  <2>4. SourceOutlivesTransfer'
    BY <1>0, <1>1, <1>2, <1>4, <2>3 DEF OffloadInv, SourceOutlivesTransfer
  <2>5. inflight' \cap event' = {}
    BY <1>0, <1>4 DEF OffloadInv
  <2> QED BY <1>2, <2>2, <2>4, <2>5 DEF OffloadInv
<1>8. DiskInv'
  <2>1. \A r, x : StagedOrComing(r, x) => StagedOrComing(r, x)'
    BY <1>1, <1>2 DEF StagedOrComing
  <2>2. \A r : DirAwaited(r) => DirAwaited(r)'
    BY <1>1 DEF DirAwaited
  <2> QED BY <1>0, <1>1, <1>2, <2>1, <2>2, DiskFrame
<1>9. HostInv'
  <2>1. \A r, x : IndexedOrComing(r, x) => IndexedOrComing(r, x)'
    BY <1>1, <1>2 DEF IndexedOrComing
  <2>2. worker.at # "idle" => worker.req \in Reqs /\ client[worker.req] = "cleared"
    BY <1>0 DEF HostInv
  <2> QED BY <1>0, <1>1, <1>2, <2>1, <2>2, HostFrame
<1> QED BY <1>2, <1>5, <1>6, <1>7, <1>8, <1>9 DEF Parts

LEMMA FinishHostKeeps ==
  ASSUME Parts, FinishHost PROVE Parts'
<1> DEFINE q == consumer.req
<1>0. TypeOK /\ RowsInv /\ QueueInv /\ ConsumerInv /\ OffloadInv /\ DiskInv /\ HostInv
  BY DEF Parts
<1>1. /\ consumer.at = "host" /\ consumer' = [consumer EXCEPT !.at = "reclaim"]
      /\ \/ /\ q \in hostAborted /\ index' = [index EXCEPT ![q] = {}]
            /\ hostAborted' = hostAborted \ {q} /\ deliverable' = deliverable
         \/ /\ q \notin hostAborted /\ index' = index /\ hostAborted' = hostAborted
            /\ deliverable' = IF index[q] # {} THEN deliverable \cup {q} ELSE deliverable
      /\ UNCHANGED <<client, transport, got, running, ended, captured, worker, queue>>
      /\ UNCHANGED <<routed, staging, deliveredSrc, pending, diskAborted, unstaged>>
      /\ UNCHANGED <<stash, dirs, dirRows, destRows>>
      /\ UNCHANGED offloadVars
  BY DEF FinishHost, clientVars, engineVars, dirVars
<1>2. /\ q \in Reqs /\ ~Enlisted(q) /\ NoRowsQueued(q) /\ Handling(q) /\ client[q] # "new"
      /\ consumer.todo = {} /\ consumer.staged = {}
      /\ consumer'.at = "reclaim" /\ consumer'.req = q
      /\ consumer'.item = consumer.item /\ consumer'.todo = {} /\ consumer'.staged = {}
      /\ \A r : /\ Enlisted(r)' <=> Enlisted(r)
                /\ RowsOf(r)' = RowsOf(r)
                /\ Coming(r)' <=> Coming(r)
                /\ ~Handling(r)'
                /\ \A x : RowQueued(r, x)' <=> RowQueued(r, x)
      /\ \A r \in Reqs : Unfinished(r)' <=> Unfinished(r) /\ r # q
      /\ ConsumerInv' /\ QueueInv'
  BY <1>0, <1>1, LeavesRequest
<1> HIDE DEF q
<1>3. /\ \A r \in Reqs : index'[r] = (IF q \in hostAborted /\ r = q THEN {} ELSE index[r])
      /\ deliverable' \subseteq deliverable \cup {q}
      /\ deliverable \subseteq deliverable'
      /\ q \in deliverable' => q \in deliverable \/ (q \notin hostAborted /\ index[q] # {})
  BY <1>0, <1>1, Basics
<1>4. Unfinished(q)
  BY <1>2 DEF Unfinished
<1>5. TypeOK'
  BY <1>0, TypeStep DEF Next, Consumer
<1>6. RowsInv'
  <2>1. \A r \in Reqs : got[r] \cup index'[r] \cup stash[r] \cup dirRows[r] \cup destRows[r]
                      \subseteq RowsOf(r)
    BY <1>0, <1>3 DEF RowsInv
  <2> QED BY <1>0, <1>1, <1>2, <2>1 DEF RowsInv
<1>7. OffloadInv'
  BY <1>0, <1>1, <1>2, OffloadFrame
<1>8. DiskInv'
  <2>1. \A r, x : StagedOrComing(r, x) => StagedOrComing(r, x)'
    BY <1>1, <1>2 DEF StagedOrComing
  <2>2. \A r : DirAwaited(r) => DirAwaited(r)'
    BY <1>1 DEF DirAwaited
  <2> QED BY <1>0, <1>1, <1>2, <2>1, <2>2, DiskFrame
<1>9. HostInv'
  <2>1. q \notin deliverable
    BY <1>0, <1>2, <1>4 DEF HostInv
  <2>2. client[q] # "cleared" /\ q \in deliverable' => index[q] = RowsOf(q)
    <3>1. ASSUME client[q] # "cleared", q \in deliverable' PROVE index[q] = RowsOf(q)
      <4>1. index[q] # {}
        BY <1>3, <2>1, <3>1
      <4>2. transport[q] = "rpc"
        BY <1>0, <1>2, <4>1, Basics DEF HostInv
      <4>3. \A x \in RowsOf(q) : IndexedOrComing(q, x)
        BY <1>0, <1>2, <3>1, <4>2 DEF HostInv
      <4>4. \A x \in RowsOf(q) : x \in index[q]
        BY <1>2, <4>3, NoRowOf DEF IndexedOrComing
      <4>5. index[q] \subseteq RowsOf(q)
        BY <1>0, <1>2 DEF RowsInv
      <4> QED BY <4>4, <4>5
    <3> QED BY <3>1
  <2>3. HostRowsAreWhole'
    <3>1. \A r \in Reqs : got[r] # {} => got[r] = RowsOf(r)
      BY <1>0 DEF HostInv, HostRowsAreWhole
    <3>2. ASSUME NEW r \in deliverable'
          PROVE  index'[r] # {} /\ (client[r] # "cleared" => index'[r] = RowsOf(r))
      <4>1. CASE r = q
        BY <1>2, <1>3, <2>1, <2>2, <4>1
      <4>2. CASE r # q
        BY <1>0, <1>3, <4>2, Basics DEF HostInv, HostRowsAreWhole
      <4> QED BY <4>1, <4>2
    <3> QED BY <1>1, <1>2, <3>1, <3>2 DEF HostRowsAreWhole
  <2>4. \A r \in Reqs : transport[r] = "disk" \/ client[r] = "new" =>
          index'[r] = {} /\ stash[r] = {} /\ r \notin deliverable' \cup hostAborted'
    BY <1>0, <1>1, <1>2, <1>3 DEF HostInv
  <2>5. \A r \in Reqs : Unfinished(r)' => r \notin deliverable' /\ stash[r] = {} /\ got[r] = {}
    BY <1>0, <1>2, <1>3 DEF HostInv
  <2>6. \A r \in hostAborted' : client[r] = "cleared"
    BY <1>0, <1>1 DEF HostInv
  <2>7. ASSUME NEW r \in Reqs, transport[r] = "rpc", client[r] # "cleared", Enlisted(r),
               NEW x \in RowsOf(r)
        PROVE  IndexedOrComing(r, x)'
    <3>1. IndexedOrComing(r, x) /\ r # q
      BY <1>0, <1>2, <2>7 DEF HostInv
    <3> QED BY <1>2, <1>3, <3>1 DEF IndexedOrComing
  <2> QED BY <1>0, <1>1, <1>2, <2>3, <2>4, <2>5, <2>6, <2>7 DEF HostInv
<1> QED BY <1>2, <1>5, <1>6, <1>7, <1>8, <1>9 DEF Parts

\* What is reclaimed has settled.
LEMMA ReclaimKeeps ==
  ASSUME Parts, ReclaimSettled PROVE Parts'
<1> DEFINE gone == { r \in pending : Settled(r) }
<1>0. TypeOK /\ RowsInv /\ QueueInv /\ ConsumerInv /\ OffloadInv /\ DiskInv /\ HostInv
  BY DEF Parts
<1>1. /\ consumer.at = "reclaim" /\ consumer' = IdleConsumer
      /\ pending' = pending \ gone /\ dirs' = dirs \ gone
      /\ UNCHANGED <<client, transport, got, running, ended, captured, worker, queue>>
      /\ UNCHANGED <<routed, staging, deliveredSrc, diskAborted, hostAborted, unstaged>>
      /\ UNCHANGED <<index, stash, deliverable, dirRows, destRows>>
      /\ UNCHANGED offloadVars
  BY DEF ReclaimSettled, clientVars, engineVars, hostVars
<1>2. \A r \in gone : r \in Reqs /\ ~Unfinished(r) /\ r \notin inflight
  BY <1>0, SettledIsFinished, Basics
<1> HIDE DEF gone
<1>3. /\ consumer'.at = "get" /\ consumer'.req = NoReq /\ consumer'.todo = {}
      /\ consumer'.staged = {} /\ DOMAIN consumer'.item.rows = {} /\ ConsumerInv'
  BY <1>0, <1>1, IdleAgain DEF IdleConsumer
<1>4. consumer.todo = {} /\ consumer.staged = {}
  BY <1>0, <1>1 DEF ConsumerInv
<1>5. \A r : /\ Enlisted(r)' <=> Enlisted(r)
             /\ RowsOf(r)' = RowsOf(r)
             /\ \A x : RowQueued(r, x)' <=> RowQueued(r, x)
  BY <1>1, SameEngine
<1>6. \A r : ~Handling(r) /\ ~Handling(r)'
  BY <1>1, <1>3 DEF Handling
<1>7. \A r : (Coming(r)' <=> Coming(r)) /\ (Coming(r) <=> Enlisted(r))
  BY <1>1, <1>3, <1>5 DEF Coming
<1>8. \A r \in Reqs : Unfinished(r)' <=> Unfinished(r)
  BY <1>1, <1>5, <1>6 DEF Unfinished
<1>9. TypeOK'
  BY <1>0, TypeStep DEF Next, Consumer
<1>10. RowsInv'
  BY <1>0, <1>1, <1>3, RowsFrame
<1>11. QueueInv'
  BY <1>0, <1>1, <1>6, QueueFrame
<1>12. OffloadInv'
  BY <1>0, <1>1, <1>2, <1>3, <1>8, OffloadFrame
<1>13. DiskInv'
  <2>1. \A r, x : StagedOrComing(r, x)' <=> StagedOrComing(r, x)
    BY <1>1, <1>3, <1>4, <1>5 DEF StagedOrComing
  <2>2. \A r \in staging : transport[r] = "disk" /\ Coming(r) /\ r \in dirs'
    BY <1>0, <1>1, <1>2, <1>7 DEF DiskInv, Unfinished
  <2>3. \A r \in dirs' : DirAwaited(r)'
    BY <1>0, <1>1 DEF DiskInv, DirAwaited
  <2> QED BY <1>0, <1>1, <1>5, <1>7, <2>1, <2>2, <2>3 DEF DiskInv
<1>14. HostInv'
  <2>1. \A r, x : IndexedOrComing(r, x) => IndexedOrComing(r, x)'
    BY <1>1, <1>3, <1>4, <1>5 DEF IndexedOrComing
  <2>2. worker.at # "idle" => worker.req \in Reqs /\ client[worker.req] = "cleared"
    BY <1>0 DEF HostInv
  <2> QED BY <1>0, <1>1, <1>5, <1>6, <1>8, <2>1, <2>2, HostFrame
<1> QED BY <1>3, <1>9, <1>10, <1>11, <1>12, <1>13, <1>14 DEF Parts

-----------------------------------------------------------------------------
(* The offload worker. *)

\* A job moves on; nothing enters the tables here.
LEMMA OffloadMoves ==
  ASSUME TypeOK, OffloadInv, Offload
  PROVE  /\ inflight' \subseteq inflight /\ inflight' \cap event' = {}
         /\ \A r \in Reqs : NotSubmitted(r) => NotSubmitted(r)'
         /\ \A r \in Reqs : result[r] # "none" => result'[r] # "none"
<1>1. jobs \in Seq(Reqs) /\ transfer \in Reqs \cup {NoReq}
      /\ result \in [Reqs -> {"none", "done", "failed"}]
  BY DEF TypeOK, OffloadType
<1>2. inflight \cap event = {}
  BY DEF OffloadInv
<1>3. CASE OffloadTakes
  <2>1. /\ jobs # <<>> /\ transfer' = Head(jobs) /\ jobs' = Tail(jobs)
        /\ UNCHANGED <<inflight, event, result>>
    BY <1>3 DEF OffloadTakes, TakeJob
  <2>2. /\ 1 \in 1 .. Len(jobs) /\ Head(jobs) = jobs[1]
        /\ \A k \in 1 .. Len(jobs') : k + 1 \in 1 .. Len(jobs) /\ jobs'[k] = jobs[k + 1]
    BY <1>1, <2>1, HeadTailProperties, EmptySeq
  <2> QED BY <1>2, <2>1, <2>2 DEF NotSubmitted
<1>4. ASSUME NEW o \in {"done", "failed"}, Settle(o)
      PROVE  /\ inflight' \subseteq inflight /\ inflight' \cap event' = {}
             /\ \A r \in Reqs : NotSubmitted(r) => NotSubmitted(r)'
             /\ \A r \in Reqs : result[r] # "none" => result'[r] # "none"
  <2>1. /\ transfer \in Reqs /\ inflight' = inflight \ {transfer} /\ event' = event \cup {transfer}
        /\ result' = [result EXCEPT ![transfer] = o] /\ transfer' = NoReq /\ jobs' = jobs
    BY <1>1, <1>4 DEF Settle
  <2>2. \A r \in Reqs : NotSubmitted(r) => NotSubmitted(r)'
    BY <1>1, <2>1, PerRequestAssumption DEF NotSubmitted
  <2>3. \A r \in Reqs : result[r] # "none" => result'[r] # "none"
    BY <1>1, <2>1
  <2> QED BY <1>2, <2>1, <2>2, <2>3
<1>5. CASE CopyDirectory
  BY <1>4, <1>5 DEF CopyDirectory
<1>6. CASE CopyFails
  <2>1. CASE Retry
    BY <1>2, <2>1 DEF Retry, NotSubmitted
  <2>2. CASE GivesUp
    BY <1>4, <2>2 DEF GivesUp
  <2> QED BY <1>6, <2>1, <2>2 DEF CopyFails
<1> QED BY <1>3, <1>5, <1>6 DEF Offload

\* It touches its own tables and the client's path.
LEMMA OffloadKeeps ==
  ASSUME Parts, Offload PROVE Parts'
<1>0. TypeOK /\ RowsInv /\ QueueInv /\ ConsumerInv /\ OffloadInv /\ DiskInv /\ HostInv
  BY DEF Parts
<1>1. /\ UNCHANGED <<client, transport, got, running, ended, captured, worker, queue, consumer>>
      /\ UNCHANGED <<routed, staging, deliveredSrc, pending, diskAborted, hostAborted, unstaged>>
      /\ UNCHANGED <<index, stash, deliverable, dirs, dirRows>>
  BY DEF Offload, OffloadTakes, CopyDirectory, CopyFails, clientVars, engineVars, tableVars,
         hostVars, dirVars
<1>2. \A r : /\ Enlisted(r)' <=> Enlisted(r)
             /\ Handling(r)' <=> Handling(r)
             /\ Coming(r)' <=> Coming(r)
             /\ RowsOf(r)' = RowsOf(r)
             /\ \A x : RowQueued(r, x)' <=> RowQueued(r, x)
  BY <1>1, SamePlaces
<1>3. \A r \in Reqs : Unfinished(r)' <=> Unfinished(r)
  BY <1>1, <1>2 DEF Unfinished
<1>4. TypeOK'
  BY <1>0, TypeStep DEF Next
<1>5. \A r \in Reqs : destRows'[r] = destRows[r] \/ destRows'[r] = dirRows[r]
  <2>1. CASE CopyDirectory
    BY <1>0, <2>1, Basics DEF CopyDirectory
  <2>2. CASE OffloadTakes \/ CopyFails
    BY <2>2 DEF OffloadTakes, CopyFails, dirVars
  <2> QED BY <2>1, <2>2 DEF Offload
<1>6. RowsInv'
  <2>1. \A r \in Reqs : got[r] \cup index[r] \cup stash[r] \cup dirRows[r] \cup destRows'[r]
                      \subseteq RowsOf(r)
    BY <1>0, <1>5 DEF RowsInv
  <2> QED BY <1>0, <1>1, <1>2, <2>1 DEF RowsInv
<1>7. QueueInv'
  BY <1>0, <1>1, <1>2, QueueFrame
<1>8. ConsumerInv'
  BY <1>0, <1>1, Basics, ConsumerFrame
<1>9. /\ inflight' \subseteq inflight /\ inflight' \cap event' = {}
      /\ \A r \in Reqs : NotSubmitted(r) => NotSubmitted(r)'
  BY <1>0, OffloadMoves
<1>10. OffloadInv'
  <2>1. SourceOutlivesTransfer'
    BY <1>0, <1>1, <1>2, <1>9 DEF OffloadInv, SourceOutlivesTransfer
  <2> QED BY <1>0, <1>1, <1>2, <1>3, <1>9, <2>1 DEF OffloadInv
<1>11. DiskInv'
  <2>1. \A r, x : StagedOrComing(r, x) => StagedOrComing(r, x)'
    BY <1>1, <1>2 DEF StagedOrComing
  <2>2. \A r : DirAwaited(r) => DirAwaited(r)'
    BY <1>1 DEF DirAwaited
  <2> QED BY <1>0, <1>1, <1>2, <2>1, <2>2, DiskFrame
<1>12. HostInv'
  <2>1. \A r, x : IndexedOrComing(r, x) => IndexedOrComing(r, x)'
    BY <1>1, <1>2 DEF IndexedOrComing
  <2>2. worker.at # "idle" => worker.req \in Reqs /\ client[worker.req] = "cleared"
    BY <1>0 DEF HostInv
  <2> QED BY <1>0, <1>1, <1>2, <1>3, <2>1, <2>2, HostFrame
<1> QED BY <1>4, <1>6, <1>7, <1>8, <1>10, <1>11, <1>12 DEF Parts

-----------------------------------------------------------------------------
(* Failed writes. *)

LEMMA BrokenFrame ==
  ASSUME BrokenInv, UNCHANGED <<broken, confirmed>>, broken \subseteq Reqs,
         \A r \in Reqs : NotSubmitted(r) => NotSubmitted(r)' \/ r \notin broken,
         \A r \in Reqs : client'[r] = "new" => client[r] = "new",
         \A r \in broken : Coming(r)' => Coming(r) /\ (r \in diskAborted => r \in diskAborted'),
         \A r \in broken : consumer'.at = "submit" /\ consumer'.req = r =>
                             consumer.at = "submit" /\ consumer.req = r,
         \A r \in confirmed : result[r] # "none" => result'[r] # "none"
  PROVE  BrokenInv'
<1>1. \A r \in broken : NotSubmitted(r)' /\ client'[r] # "new"
  BY DEF BrokenInv
<1>2. \A r \in broken : Coming(r)' => r \in diskAborted'
  BY DEF BrokenInv
<1>3. \A r \in broken : consumer'.req = r => consumer'.at # "submit"
  BY DEF BrokenInv
<1>4. \A r \in confirmed : result'[r] # "none"
  BY DEF BrokenInv
<1> QED BY <1>1, <1>2, <1>3, <1>4 DEF BrokenInv

LEMMA SameSubmitted ==
  ASSUME UNCHANGED offloadVars PROVE result' = result /\ \A r : NotSubmitted(r)' <=> NotSubmitted(r)
BY DEF offloadVars, NotSubmitted

\* The client's steps and the engine's.
LEMMA RequestsBreakNothing ==
  ASSUME Parts, BrokenInv, Requests PROVE BrokenInv'
<1>0. TypeOK /\ RowsInv /\ QueueInv /\ ConsumerInv /\ OffloadInv /\ DiskInv /\ HostInv
  BY DEF Parts
<1>1. broken \subseteq Reqs /\ confirmed \subseteq Reqs
  BY <1>0 DEF TypeOK, DirType, ClientType
<1>2. ASSUME NEW S \in SUBSET running, NEW F \in SUBSET ended, ExecuteModel(S, F) PROVE BrokenInv'
  <2>1. UNCHANGED <<broken, confirmed, client, consumer, diskAborted, offloadVars>>
    BY <1>2 DEF ExecuteModel, clientVars, tableVars, dirVars
  <2>2. \A r \in Reqs : Enlisted(r)' <=> Enlisted(r)
    BY <1>0, <1>2, ExecuteEnlists
  <2>3. \A r \in broken : Coming(r)' <=> Coming(r)
    BY <1>1, <2>1, <2>2 DEF Coming
  <2> QED BY <1>1, <2>1, <2>3, BrokenFrame, SameSubmitted
<1>3. ASSUME NEW q \in Reqs, Start(q) PROVE BrokenInv'
  <2>1. UNCHANGED <<broken, confirmed, ended, queue, consumer, diskAborted, offloadVars>>
    BY <1>3 DEF Start, dirVars
  <2>2. client[q] = "new" /\ client' = [client EXCEPT ![q] = "running"] /\ running' = running \cup {q}
    BY <1>3 DEF Start
  <2>3. q \notin broken
    BY <2>2 DEF BrokenInv
  <2>4. \A r \in broken : Coming(r)' <=> Coming(r)
    BY <2>1, <2>2, <2>3, SameQueue DEF Coming, Enlisted
  <2>5. \A r \in Reqs : client'[r] = "new" => client[r] = "new"
    BY <1>0, <2>2, Basics
  <2> QED BY <1>1, <2>1, <2>4, <2>5, BrokenFrame, SameSubmitted
<1>4. ASSUME NEW q \in Reqs, EndRequest(q) PROVE BrokenInv'
  <2>1. UNCHANGED <<broken, confirmed, queue, consumer, diskAborted, offloadVars>>
    BY <1>4 DEF EndRequest, tableVars, dirVars
  <2>2. /\ client' = [client EXCEPT ![q] = IF @ = "running" THEN "awaiting" ELSE @]
        /\ running' \cup ended' = running \cup ended
    BY <1>4 DEF EndRequest
  <2>3. \A r : Coming(r)' <=> Coming(r)
    BY <2>1, <2>2, SameQueue DEF Coming, Enlisted
  <2>4. \A r \in Reqs : client'[r] = "new" => client[r] = "new"
    BY <1>0, <2>2, Basics
  <2> QED BY <1>1, <2>1, <2>3, <2>4, BrokenFrame, SameSubmitted
<1>5. ASSUME NEW q \in Reqs, Get(q) \/ ClearDisk(q) PROVE BrokenInv'
  <2>1. /\ UNCHANGED <<broken, confirmed, running, ended, captured, queue, consumer, offloadVars>>
        /\ diskAborted \subseteq diskAborted'
    BY <1>5 DEF Get, ClearDisk, engineVars, tableVars, dirVars
  <2>2. client' = [client EXCEPT ![q] = client'[q]] /\ client'[q] # "new"
    BY <1>0, <1>5, Basics DEF Get, ClearDisk
  <2>3. \A r : Coming(r)' <=> Coming(r)
    BY <2>1, SamePlaces
  <2>4. \A r \in Reqs : client'[r] = "new" => client[r] = "new"
    BY <1>0, <2>2, Basics
  <2> QED BY <1>1, <2>1, <2>3, <2>4, BrokenFrame, SameSubmitted
<1>6. ASSUME NEW q \in Reqs, Confirm(q) PROVE BrokenInv'
  <2>1. UNCHANGED <<broken, running, ended, captured, queue, consumer, diskAborted, offloadVars>>
    BY <1>6 DEF Confirm, engineVars
  <2>2. /\ client' = [client EXCEPT ![q] = "served"] /\ confirmed' = confirmed \cup {q}
        /\ result[q] = "done"
    BY <1>6 DEF Confirm, Delivered
  <2>3. \A r : Coming(r)' <=> Coming(r)
    BY <2>1, SamePlaces
  <2>4. result' = result /\ \A r : NotSubmitted(r)' <=> NotSubmitted(r)
    BY <2>1, SameSubmitted
  <2>5. \A r \in broken : client'[r] # "new"
    BY <1>0, <1>1, <2>2, Basics DEF BrokenInv
  <2> QED BY <1>1, <2>1, <2>2, <2>3, <2>4, <2>5 DEF BrokenInv
<1> QED BY <1>2, <1>3, <1>4, <1>5, <1>6 DEF Requests

LEMMA NoSidecarFails ==
  ASSUME ~SidecarFailures, SubmitStaging PROVE UNCHANGED broken
BY Zenon DEF SubmitStaging

\* A request whose write fails is on its way, and aborted from then on.
LEMMA ConsumerBreaksNothing ==
  ASSUME Parts, BrokenInv, Consumer PROVE BrokenInv' \/ (SubmitStaging /\ broken' # broken)
<1>0. TypeOK /\ RowsInv /\ QueueInv /\ ConsumerInv /\ OffloadInv /\ DiskInv /\ HostInv
  BY DEF Parts
<1>1. /\ broken \subseteq Reqs /\ confirmed \subseteq Reqs
      /\ UNCHANGED <<client, confirmed, running, ended, captured>>
  <2>1. broken \subseteq Reqs /\ confirmed \subseteq Reqs
    BY <1>0 DEF TypeOK, DirType, ClientType
  <2>2. UNCHANGED clientVars /\ UNCHANGED engineVars
    BY Zenon DEF Consumer, TakeItem, AppendRows, AppendFails, NoteRows, HandleFinish,
                 DiscardStaging, SubmitStaging, FinishHost, ReclaimSettled, DemuxHost, DemuxDisk
  <2>3. UNCHANGED <<client, confirmed, running, ended, captured>>
    BY <2>2 DEF clientVars, engineVars
  <2> QED BY <2>1, <2>3
<1>2. CASE TakeItem
  <2>1. UNCHANGED <<broken, diskAborted, offloadVars>>
    BY <1>2 DEF TakeItem, tableVars, dirVars
  <2>2. \A r \in Reqs : FinishQueued(r)' => FinishQueued(r)
    BY <1>0, <1>2, TakeMoves
  <2>3. consumer'.at # "submit" /\ (consumer'.at = "finish" => FinishQueued(consumer'.req))
    BY <1>0, <1>2, TakeMoves
  <2>4. \A r \in broken : Coming(r)' => Coming(r)
    BY <1>1, <2>2, <2>3 DEF Coming, Enlisted
  <2> QED BY <1>1, <2>1, <2>3, <2>4, BrokenFrame, SameSubmitted
<1>3. ASSUME UNCHANGED <<queue, broken, diskAborted, offloadVars>>,
             consumer'.at \notin {"finish", "submit"}
      PROVE  BrokenInv'
  <2>1. \A r : Enlisted(r)' <=> Enlisted(r)
    BY <1>1, <1>3, SameEngine
  <2>2. \A r : Coming(r)' => Coming(r)
    BY <1>3, <2>1 DEF Coming
  <2> QED BY <1>1, <1>3, <2>2, BrokenFrame, SameSubmitted
<1>4. CASE AppendRows \/ NoteRows \/ DiscardStaging \/ FinishHost \/ ReclaimSettled
           \/ \E r \in Reqs : DemuxHost(r)
  <2>1. UNCHANGED <<queue, broken, diskAborted, offloadVars>>
    BY <1>4 DEF AppendRows, NoteRows, DiscardStaging, FinishHost, ReclaimSettled, DemuxHost,
                tableVars, dirVars
  <2>2. consumer'.at \notin {"finish", "submit"}
    <3>1. CASE AppendRows \/ \E r \in Reqs : DemuxHost(r)
      BY <1>0, <3>1 DEF AppendRows, DemuxHost, TypeOK, DrainType
    <3>2. CASE NoteRows \/ ReclaimSettled
      BY <3>2 DEF NoteRows, ReclaimSettled, IdleConsumer
    <3>3. CASE DiscardStaging \/ FinishHost
      BY <1>0, <3>3 DEF DiscardStaging, FinishHost, TypeOK, DrainType
    <3> QED BY <1>4, <3>1, <3>2, <3>3
  <2> QED BY <1>3, <2>1, <2>2
<1>5. ASSUME NEW q \in Reqs, Enlisted(q), consumer'.at \notin {"finish", "submit"},
             UNCHANGED <<queue, offloadVars>>, diskAborted \subseteq diskAborted',
             broken' = broken \/ (broken' = broken \cup {q} /\ q \in diskAborted')
      PROVE  BrokenInv'
  <2>1. \A r : Enlisted(r)' <=> Enlisted(r)
    BY <1>1, <1>5, SameEngine
  <2>2. \A r : Coming(r)' => Coming(r)
    BY <1>5, <2>1 DEF Coming
  <2>3. NotSubmitted(q) /\ client[q] # "new"
    BY <1>0, <1>5 DEF OffloadInv, QueueInv, Unfinished
  <2>4. result' = result /\ \A r : NotSubmitted(r)' <=> NotSubmitted(r)
    BY <1>5, SameSubmitted
  <2>5. \A r \in broken' : NotSubmitted(r)' /\ client'[r] # "new"
    BY <1>1, <1>5, <2>3, <2>4 DEF BrokenInv
  <2>6. \A r \in broken' : Coming(r)' => r \in diskAborted'
    BY <1>5, <2>2 DEF BrokenInv
  <2> QED BY <1>1, <1>5, <2>4, <2>5, <2>6 DEF BrokenInv
<1>6. CASE AppendFails
  <2>1. consumer.req \in Reqs /\ Enlisted(consumer.req) /\ consumer.req \in staging
    BY <1>0, <1>6, Basics, QueueTypes DEF AppendFails, ConsumerInv
  <2>2. /\ consumer'.at = "demux" /\ UNCHANGED <<queue, offloadVars>>
        /\ broken' = broken \cup {consumer.req} /\ diskAborted' = diskAborted \cup {consumer.req}
    BY <1>0, <1>6, <2>1 DEF AppendFails, TypeOK, DrainType
  <2> QED BY <1>5, <2>1, <2>2
<1>7. ASSUME NEW q \in Reqs, DemuxDisk(q) PROVE BrokenInv'
  <2>1. Enlisted(q)
    BY <1>0, <1>7 DEF DemuxDisk, ConsumerInv
  <2>2. /\ consumer'.at \in {"demux", "append"} /\ UNCHANGED <<queue, offloadVars>>
        /\ diskAborted \subseteq diskAborted'
        /\ broken' = broken \/ (broken' = broken \cup {q} /\ q \in diskAborted')
    BY <1>0, <1>7 DEF DemuxDisk, TypeOK, DrainType
  <2> QED BY <1>5, <2>1, <2>2
<1>8. CASE HandleFinish
  <2>1. /\ consumer.at = "finish" /\ consumer'.at \in {"discard", "submit", "host", "reclaim"}
        /\ consumer'.at = "submit" => consumer.req \notin diskAborted
        /\ consumer'.req = consumer.req /\ diskAborted' = diskAborted \ {consumer.req}
        /\ UNCHANGED <<queue, broken, offloadVars>>
    BY <1>0, <1>8 DEF HandleFinish, TypeOK, DrainType, dirVars
  <2>2. ~Enlisted(consumer.req) /\ Coming(consumer.req)
    BY <1>0, <2>1 DEF ConsumerInv, Coming
  <2>3. \A r : Enlisted(r)' <=> Enlisted(r)
    BY <1>1, <2>1, SameEngine
  <2>4. \A r : Coming(r)' => Coming(r) /\ r # consumer.req
    BY <2>1, <2>2, <2>3 DEF Coming
  <2>5. consumer'.at = "submit" => consumer'.req \notin broken
    BY <2>1, <2>2 DEF BrokenInv
  <2> QED BY <1>1, <2>1, <2>4, <2>5, BrokenFrame, SameSubmitted
<1>9. CASE SubmitStaging /\ broken' = broken
  <2>1. /\ consumer.at = "submit" /\ consumer'.at = "reclaim" /\ Submit(consumer.req)
        /\ UNCHANGED <<queue, broken, diskAborted>>
    <3>1. consumer' = [consumer EXCEPT !.at = "reclaim"]
      BY <1>9 DEF SubmitStaging
    <3> QED BY <1>0, <1>9, <3>1 DEF SubmitStaging, TypeOK, DrainType, tableVars
  <2>2. consumer.req \in Reqs /\ consumer.req \notin broken
    BY <1>0, <2>1 DEF BrokenInv, ConsumerInv
  <2>3. \A r : Enlisted(r)' <=> Enlisted(r)
    BY <1>1, <2>1, SameEngine
  <2>4. \A r : Coming(r)' => Coming(r)
    BY <2>1, <2>3 DEF Coming
  <2>5. jobs \in Seq(Reqs)
    BY <1>0 DEF TypeOK, OffloadType
  <2>6. /\ inflight' \subseteq inflight \cup {consumer.req} /\ event' \subseteq event
        /\ jobs' \in {jobs, Append(jobs, consumer.req)} /\ UNCHANGED <<transfer, result>>
    BY <2>1 DEF Submit, offloadVars
  <2>7. \A k \in 1 .. Len(jobs') : jobs'[k] = consumer.req \/ \E j \in 1 .. Len(jobs) : jobs'[k] = jobs[j]
    BY <2>2, <2>5, <2>6
  <2>8. \A r \in Reqs : r # consumer.req /\ NotSubmitted(r) => NotSubmitted(r)'
    BY <2>6, <2>7 DEF NotSubmitted
  <2> QED BY <1>1, <2>1, <2>2, <2>4, <2>6, <2>8, BrokenFrame
<1> QED BY <1>2, <1>4, <1>6, <1>7, <1>8, <1>9, Zenon DEF Consumer

LEMMA OthersBreakNothing ==
  ASSUME Parts, BrokenInv, Clearing \/ Offload \/ UNCHANGED vars PROVE BrokenInv'
<1>0. TypeOK /\ OffloadInv
  BY DEF Parts
<1>1. broken \subseteq Reqs /\ confirmed \subseteq Reqs
  BY <1>0 DEF TypeOK, DirType, ClientType
<1>2. UNCHANGED <<client, confirmed, running, ended, captured, queue, consumer, diskAborted, broken>>
  BY DEF Clearing, ClearSource, MarkHost, FreeHost, Offload, OffloadTakes, CopyDirectory,
         CopyFails, clientVars, engineVars, tableVars, dirVars, vars
<1>3. \A r : Coming(r)' <=> Coming(r)
  BY <1>2, SamePlaces
<1>4. \A r \in Reqs : NotSubmitted(r) => NotSubmitted(r)'
  <2>1. CASE Offload
    BY <1>0, <2>1, OffloadMoves
  <2>2. CASE Clearing \/ UNCHANGED vars
    BY <2>2, SameSubmitted DEF Clearing, ClearSource, MarkHost, FreeHost, vars
  <2> QED BY <2>1, <2>2
<1>5. \A r \in Reqs : result[r] # "none" => result'[r] # "none"
  <2>1. CASE Offload
    BY <1>0, <2>1, OffloadMoves
  <2>2. CASE Clearing \/ UNCHANGED vars
    BY <2>2, SameSubmitted DEF Clearing, ClearSource, MarkHost, FreeHost, vars
  <2> QED BY <2>1, <2>2
<1> QED BY <1>1, <1>2, <1>3, <1>4, <1>5, BrokenFrame

-----------------------------------------------------------------------------
(* The invariant, and what it gives. *)

LEMMA InitHolds == Init => DeliveryInv
<1> SUFFICES ASSUME Init PROVE DeliveryInv
  OBVIOUS
<1>1. TypeOK
  BY TypeInit
<1>2. /\ client = [r \in Reqs |-> "new"] /\ transport = [r \in Reqs |-> "rpc"]
      /\ captured = [r \in Reqs |-> 0] /\ running = {} /\ ended = {} /\ confirmed = {}
      /\ worker.at = "idle" /\ queue = <<>> /\ consumer = IdleConsumer
      /\ routed = {} /\ staging = {} /\ deliveredSrc = {} /\ diskAborted = {}
      /\ hostAborted = {} /\ unstaged = {} /\ deliverable = {} /\ dirs = {} /\ broken = {}
      /\ jobs = <<>> /\ transfer = NoReq /\ inflight = {} /\ event = {}
      /\ \A r \in Reqs : /\ got[r] = {} /\ index[r] = {} /\ stash[r] = {} /\ dirRows[r] = {}
                         /\ destRows[r] = {} /\ result[r] = "none"
  BY DEF Init, OffloadInit, Empty, IdleWorker
<1>3. /\ consumer.at = "get" /\ consumer.req = NoReq /\ consumer.todo = {} /\ consumer.staged = {}
      /\ consumer.routes = {} /\ DOMAIN consumer.item.rows = {}
  BY <1>2, ItemTypes DEF IdleConsumer
<1>4. Len(queue) = 0 /\ Len(jobs) = 0
  BY <1>2
<1>5. \A r \in Reqs : ~FinishQueued(r) /\ ~Enlisted(r) /\ ~Handling(r)
  <2>1. \A r : ~FinishQueued(r)
    BY <1>4 DEF FinishQueued
  <2>2. \A r : ~Handling(r)
    BY <1>3 DEF Handling
  <2> QED BY <1>2, <2>1, <2>2 DEF Enlisted
<1>6. RowsInv /\ QueueInv /\ ConsumerInv
  <2>1. RowsInv
    BY <1>2, <1>3, <1>4 DEF RowsInv
  <2>2. QueueInv
    BY <1>2, <1>4, <1>5 DEF QueueInv
  <2>3. ConsumerInv
    BY <1>3 DEF ConsumerInv
  <2> QED BY <2>1, <2>2, <2>3
<1>7. \A r \in Reqs : NotSubmitted(r)
  <2>1. \A r \in Reqs : r # NoReq
    BY PerRequestAssumption
  <2>2. /\ transfer = NoReq /\ inflight = {} /\ event = {}
        /\ \A r \in Reqs : result[r] = "none"
        /\ \A k \in 1 .. Len(jobs) : FALSE
    BY <1>2, <1>4
  <2> QED BY <2>1, <2>2 DEF NotSubmitted
<1>8. OffloadInv
  BY <1>2, <1>3, <1>7 DEF OffloadInv, SourceOutlivesTransfer
<1>9. DiskInv
  BY <1>2 DEF DiskInv
<1>10. HostInv
  BY <1>2, <1>5 DEF HostInv, HostRowsAreWhole
<1>11. BrokenInv
  BY <1>2 DEF BrokenInv
<1> QED BY <1>1, <1>6, <1>8, <1>9, <1>10, <1>11 DEF DeliveryInv

LEMMA PartsStep == Parts /\ [Next]_vars => Parts'
<1>1. ASSUME Parts, UNCHANGED vars PROVE Parts'
  <2>1. /\ UNCHANGED <<client, transport, got, running, ended, captured, worker, queue, consumer>>
        /\ UNCHANGED <<routed, staging, deliveredSrc, pending, diskAborted, hostAborted, unstaged>>
        /\ UNCHANGED <<index, stash, deliverable, dirs, dirRows, destRows>>
        /\ UNCHANGED offloadVars
    BY <1>1 DEF vars, clientVars, engineVars, tableVars, hostVars, dirVars
  <2>2. TypeOK /\ RowsInv /\ QueueInv /\ ConsumerInv /\ OffloadInv /\ DiskInv /\ HostInv
    BY <1>1 DEF Parts
  <2>3. \A r : /\ Enlisted(r)' <=> Enlisted(r)
               /\ Handling(r)' <=> Handling(r)
               /\ Coming(r)' <=> Coming(r)
               /\ RowsOf(r)' = RowsOf(r)
               /\ \A x : RowQueued(r, x)' <=> RowQueued(r, x)
    BY <2>1, SamePlaces
  <2>4. \A r \in Reqs : Unfinished(r)' <=> Unfinished(r)
    BY <2>1, <2>3 DEF Unfinished
  <2>5. TypeOK'
    BY <1>1, <2>2, TypeStep
  <2>6. RowsInv'
    BY <2>1, <2>2, RowsFrame
  <2>7. QueueInv'
    BY <2>1, <2>2, <2>3, QueueFrame
  <2>8. ConsumerInv'
    BY <2>1, <2>2, Basics, ConsumerFrame
  <2>9. OffloadInv'
    BY <2>1, <2>2, <2>4, OffloadFrame
  <2>10. DiskInv'
    <3>1. \A r, x : StagedOrComing(r, x) => StagedOrComing(r, x)'
      BY <2>1, <2>3 DEF StagedOrComing
    <3>2. \A r : DirAwaited(r) => DirAwaited(r)'
      BY <2>1 DEF DirAwaited
    <3> QED BY <2>1, <2>2, <2>3, <3>1, <3>2, DiskFrame
  <2>11. HostInv'
    <3>1. \A r, x : IndexedOrComing(r, x) => IndexedOrComing(r, x)'
      BY <2>1, <2>3 DEF IndexedOrComing
    <3>2. worker.at # "idle" => worker.req \in Reqs /\ client[worker.req] = "cleared"
      BY <2>2 DEF HostInv
    <3> QED BY <2>1, <2>2, <2>3, <2>4, <3>1, <3>2, HostFrame
  <2> QED BY <2>5, <2>6, <2>7, <2>8, <2>9, <2>10, <2>11 DEF Parts
<1>2. ASSUME Parts, Requests PROVE Parts'
  BY <1>2, ExecuteKeeps, StartKeeps, EndKeeps, GetKeeps, ConfirmKeeps, ClearDiskKeeps DEF Requests
<1>3. ASSUME Parts, Clearing PROVE Parts'
  BY <1>3, ClearSourceKeeps, MarkHostKeeps, FreeHostKeeps DEF Clearing
<1>4. ASSUME Parts, Consumer PROVE Parts'
  BY <1>4, TakeKeeps, AppendKeeps, AppendFailsKeeps, NoteKeeps, FinishKeeps, DiscardKeeps,
     SubmitKeeps, FinishHostKeeps, ReclaimKeeps, DemuxHostKeeps, DemuxDiskKeeps DEF Consumer
<1> QED BY <1>1, <1>2, <1>3, <1>4, OffloadKeeps DEF Next

LEMMA DeliveryStep == DeliveryInv /\ [Next]_vars => DeliveryInv'
<1> SUFFICES ASSUME DeliveryInv, [Next]_vars PROVE DeliveryInv'
  OBVIOUS
<1>1. Parts
  BY DEF DeliveryInv, Parts
<1>2. Parts'
  BY <1>1, PartsStep
<1>3. ASSUME ~SidecarFailures PROVE BrokenInv'
  <2>1. BrokenInv
    BY <1>3 DEF DeliveryInv
  <2>2. SubmitStaging => UNCHANGED broken
    BY <1>3, NoSidecarFails
  <2>3. CASE Consumer
    BY <1>1, <2>1, <2>2, <2>3, ConsumerBreaksNothing
  <2>4. CASE Requests
    BY <1>1, <2>1, <2>4, RequestsBreakNothing
  <2>5. CASE Clearing \/ Offload \/ UNCHANGED vars
    BY <1>1, <2>1, <2>5, OthersBreakNothing
  <2> QED BY <2>3, <2>4, <2>5 DEF Next
<1>4. ~SidecarFailures => BrokenInv'
  BY <1>3
<1> QED BY <1>2, <1>4 DEF DeliveryInv, Parts

\* Every reachable state of the delivery satisfies its invariant, whatever the
\* requests, their rows, the retries and the failures that can happen.
THEOREM DeliveryInvariant == Spec => []DeliveryInv
<1>1. Init => DeliveryInv
  BY InitHolds
<1>2. DeliveryInv /\ [Next]_vars => DeliveryInv'
  BY DeliveryStep
<1> QED BY <1>1, <1>2, PTL DEF Spec

\* The tables hold what they are declared to hold.
THEOREM TypeCorrect == Spec => []TypeOK
<1>1. DeliveryInv => TypeOK
  BY DEF DeliveryInv
<1> QED BY <1>1, DeliveryInvariant, PTL

\* While a transfer is queued or under way, its source directory is there with every
\* row of its request: no confirm, clear or reclaim takes it away.
THEOREM SourcesOutlive == Spec => []SourceOutlivesTransfer
<1>1. DeliveryInv => SourceOutlivesTransfer
  BY DEF DeliveryInv, OffloadInv
<1> QED BY <1>1, DeliveryInvariant, PTL

\* A client served in memory has every row captured for it, and an entry listed as
\* deliverable is there, whole unless its client is clearing it.
THEOREM HostRowsWhole == Spec => []HostRowsAreWhole
<1>1. DeliveryInv => HostRowsAreWhole
  BY DEF DeliveryInv, HostInv
<1> QED BY <1>1, DeliveryInvariant, PTL

\* A cleared request that went to disk leaves no table entry, and no directory that
\* is not due to be reclaimed.
THEOREM ClearLeavesNothing == Spec => []DiskClearLeavesNothing
<1>1. ASSUME DeliveryInv PROVE DiskClearLeavesNothing
  <2>1. QueueInv /\ DiskInv /\ HostInv
    BY <1>1 DEF DeliveryInv
  <2> SUFFICES ASSUME NEW r \in Reqs, Quiet(r), transport[r] = "disk"
               PROVE  InNoTable(r) /\ (r \in dirs => r \in pending)
    BY DEF DiskClearLeavesNothing
  <2>2. client[r] = "cleared" /\ worker.req # r /\ consumer.req # r /\ ~FinishQueued(r)
        /\ r \notin running \cup ended
    BY DEF Quiet, NothingQueued, FinishQueued
  <2>3. ~Coming(r)
    BY <2>2 DEF Coming, Enlisted
  <2>4. r \notin routed \cup staging \cup deliveredSrc \cup diskAborted \cup unstaged
    BY <2>1, <2>2, <2>3 DEF DiskInv
  <2>5. index[r] = {} /\ stash[r] = {} /\ r \notin hostAborted
    BY <2>1 DEF HostInv
  <2>6. r \in dirs => r \in pending
    BY <2>1, <2>2, <2>4 DEF DiskInv, DirAwaited
  <2> QED BY <2>4, <2>5, <2>6 DEF InNoTable
<1> QED BY <1>1, DeliveryInvariant, PTL

\* No client is told that a directory has landed whose rows met a failed write,
\* where writing the sidecar does not fail.
THEOREM BrokenNotDelivered == ASSUME ~SidecarFailures PROVE Spec => []BrokenIsNotDelivered
<1>1. DeliveryInv => BrokenIsNotDelivered
  BY DEF DeliveryInv, BrokenInv, NotSubmitted, BrokenIsNotDelivered
<1> QED BY <1>1, DeliveryInvariant, PTL

=============================================================================
