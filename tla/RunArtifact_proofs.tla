------------------------- MODULE RunArtifact_proofs -------------------------
(***************************************************************************)
(* A run artifact keeps its turns and its last response, for any number of *)
(* responses and prompts, and however aborts, lost deliveries, expired     *)
(* turns and killed servers fall between the steps of the writers.         *)
(***************************************************************************)
EXTENDS RunArtifact, SequenceTheorems, TLAPS

-----------------------------------------------------------------------------
(* Writes and sequences. *)

LEMMA Pairs ==
  /\ 0 \in Prompts /\ Prompts \subseteq Nat
  /\ \A w \in Writes : /\ w[1] \in Resps /\ w[2] \in Prompts /\ w = <<w[1], w[2]>>
                       /\ UnitOf[w[1]] \in Units /\ UnitOf[w[1]] \in Nat
                       /\ KeyOf(w) \in Units \X Prompts
  /\ \A r \in Resps : \A i \in Prompts :
       <<r, i>> \in Writes /\ <<r, i>>[1] = r /\ <<r, i>>[2] = i
  /\ \A r \in Resps : UnitOf[r] \in Units
  /\ NoOne \notin Writes
  /\ \A w \in Writes : Earlier(w) \subseteq Prompts
BY ArtifactAssumption DEF Prompts, Writes, Units, KeyOf, Earlier

LEMMA Appended ==
  ASSUME NEW S, NEW s \in Seq(S), NEW x \in S
  PROVE  /\ Append(s, x) \in Seq(S) /\ Len(Append(s, x)) = Len(s) + 1
         /\ \A k \in 1 .. Len(s) : Append(s, x)[k] = s[k]
         /\ Append(s, x)[Len(s) + 1] = x /\ Append(s, x) # <<>>
OBVIOUS

\* A step of one writer, and a turn that ends.
LEMMA PcMoves ==
  ASSUME TypeOK, NEW w \in Writes, NEW x \in Stages, pc' = [pc EXCEPT ![w] = x]
  PROVE  /\ pc' \in [Writes -> Stages] /\ pc'[w] = x
         /\ \A v \in Writes : v # w => pc'[v] = pc[v]
BY DEF TypeOK

LEMMA TurnEnds ==
  ASSUME TypeOK, NEW w \in Writes, EndTurn(w)
  PROVE  /\ ended' \in [Units -> SUBSET Prompts]
         /\ ended'[UnitOf[w[1]]] = ended[UnitOf[w[1]]] \cup {w[2]}
         /\ \A u \in Units : u # UnitOf[w[1]] => ended'[u] = ended[u]
BY Pairs DEF EndTurn, TypeOK

LEMMA StageNames ==
  /\ {"new", "gen", "wait", "turn", "ready", "locked", "wrote"} \subseteq Stages
  /\ {"written", "skipped", "failed", "aborted"} \subseteq Stages
BY DEF Stages

-----------------------------------------------------------------------------
(* Type correctness. *)

LEMMA TypeInit == Init => TypeOK
<1> SUFFICES ASSUME Init PROVE TypeOK
  OBVIOUS
<1>1. /\ pc \in [Writes -> Stages] /\ stamp \in [Writes -> Nat]
      /\ missing \in [Writes -> SUBSET Prompts]
  BY StageNames DEF Init
<1>2. start \in [Resps -> Nat] /\ ended \in [Units -> SUBSET Prompts] /\ clock \in Nat
  BY DEF Init
<1>3. /\ late \subseteq Writes /\ lock \in Writes \cup {NoOne} /\ restart \in BOOLEAN
      /\ torn \in BOOLEAN /\ man = <<>> /\ data = <<>>
      /\ got \in [Resps -> Seq(Writes) \cup {NoOne}]
  BY DEF Init
<1> QED BY <1>1, <1>2, <1>3 DEF TypeOK

\* A write that begins the run anew does not need a manifest.
LEMMA ManifestType ==
  ASSUME TypeOK, HoldInv, NEW w \in Writes, WriteManifest(w)
  PROVE  man'[1] \in Manifests
<1>1. man' = NewManifest(w) /\ lock = w /\ lock # NoOne
  BY Pairs DEF WriteManifest, HoldInv
<1>2. KeyOf(w) \in Units \X Prompts /\ UnitOf[w[1]] \in Units /\ w[1] \in Resps
  BY Pairs
<1>3. stamp[w] \in Nat /\ start[w[1]] \in Nat
  BY <1>2 DEF TypeOK
<1>4. CASE restart
  <2>1. man'[1] = [unit |-> UnitOf[w[1]], stamp |-> stamp[w], start |-> start[w[1]],
                   requests |-> <<KeyOf(w)>>, nonces |-> <<w>>]
    BY <1>1, <1>4 DEF NewManifest
  <2>2. <<KeyOf(w)>> \in Seq(Units \X Prompts) /\ <<w>> \in Seq(Writes)
    BY <1>2
  <2> QED BY <1>2, <1>3, <2>1, <2>2 DEF Manifests
<1>5. CASE ~restart
  <2>1. man # <<>>
    BY <1>1, <1>5 DEF HoldInv, Replaces, SameUnit
  <2>2. man[1] \in Manifests
    BY <2>1 DEF TypeOK
  <2>3. /\ man'[1] = [man[1] EXCEPT !.stamp = LargerOf(man[1].stamp, stamp[w]),
                                    !.start = SmallerOf(man[1].start, start[w[1]]),
                                    !.requests = Append(man[1].requests, KeyOf(w)),
                                    !.nonces = Append(man[1].nonces, w)]
    BY <1>1, <1>5 DEF NewManifest
  <2>4. /\ LargerOf(man[1].stamp, stamp[w]) \in Nat
        /\ SmallerOf(man[1].start, start[w[1]]) \in Nat
    BY <1>3, <2>2 DEF Manifests, LargerOf, SmallerOf
  <2>5. /\ Append(man[1].requests, KeyOf(w)) \in Seq(Units \X Prompts)
        /\ Append(man[1].nonces, w) \in Seq(Writes)
    BY <1>2, <2>2, Appended DEF Manifests
  <2> QED BY <2>2, <2>3, <2>4, <2>5 DEF Manifests
<1> QED BY <1>4, <1>5

LEMMA TypeStep == TypeOK /\ HoldInv /\ [Next]_vars => TypeOK'
<1> SUFFICES ASSUME TypeOK, HoldInv, [Next]_vars PROVE TypeOK'
  OBVIOUS
<1> USE Pairs, StageNames
<1>1. ASSUME NEW r \in Resps, Arrive(r) PROVE TypeOK'
  <2>1. pc' \in [Writes -> Stages] /\ start' \in [Resps -> Nat] /\ clock' \in Nat
    BY <1>1 DEF Arrive, TypeOK
  <2> QED BY <1>1, <2>1 DEF Arrive, TypeOK
<1>2. ASSUME NEW r \in Resps, Abort(r) PROVE TypeOK'
  <2>1. pc' \in [Writes -> Stages] /\ ended' \in [Units -> SUBSET Prompts]
    BY <1>2 DEF Abort, TypeOK
  <2> QED BY <1>2, <2>1 DEF Abort, TypeOK
<1>3. ASSUME NEW r \in Resps, ReadRun(r) PROVE TypeOK'
  <2>1. (IF data = <<>> THEN <<>> ELSE data[1]) \in Seq(Writes)
    BY DEF TypeOK
  <2>2. got' \in [Resps -> Seq(Writes) \cup {NoOne}]
    BY <1>3, <2>1 DEF ReadRun, TypeOK
  <2> QED BY <1>3, <2>2 DEF ReadRun, TypeOK
<1>4. ASSUME NEW w \in Writes, Finish(w) PROVE TypeOK'
  <2>1. pc' \in [Writes -> Stages]
    BY <1>4, PcMoves DEF Finish
  <2>2. stamp' \in [Writes -> Nat] /\ clock' \in Nat
    BY <1>4 DEF Finish, TypeOK
  <2> QED BY <1>4, <2>1, <2>2 DEF Finish, TypeOK
<1>5. ASSUME NEW w \in Writes, Delivered(w) PROVE TypeOK'
  <2>1. pc' \in [Writes -> Stages]
    BY <1>5, PcMoves DEF Delivered
  <2>2. missing' \in [Writes -> SUBSET Prompts]
    <3>1. Awaited(w) \in SUBSET Prompts
      BY DEF Awaited
    <3> QED BY <1>5, <3>1 DEF Delivered, TypeOK
  <2> QED BY <1>5, <2>1, <2>2 DEF Delivered, TypeOK
<1>6. ASSUME NEW w \in Writes, NotDelivered(w) PROVE TypeOK'
  <2>1. pc' \in [Writes -> Stages] /\ ended' \in [Units -> SUBSET Prompts]
    BY <1>6, PcMoves, TurnEnds DEF NotDelivered
  <2> QED BY <1>6, <2>1 DEF NotDelivered, TypeOK
<1>7. ASSUME NEW w \in Writes, TurnComes(w) PROVE TypeOK'
  <2>1. pc' \in [Writes -> Stages]
    BY <1>7, PcMoves DEF TurnComes
  <2>2. missing' \in [Writes -> SUBSET Prompts]
    BY <1>7 DEF TurnComes, TypeOK
  <2> QED BY <1>7, <2>1, <2>2 DEF TurnComes, TypeOK
<1>8. ASSUME NEW w \in Writes, TurnTimesOut(w) PROVE TypeOK'
  <2>1. pc' \in [Writes -> Stages]
    BY <1>8, PcMoves DEF TurnTimesOut
  <2>2. missing' \in [Writes -> SUBSET Prompts]
    BY <1>8 DEF TurnTimesOut, TypeOK
  <2> QED BY <1>8, <2>1, <2>2, SMTT(30) DEF TurnTimesOut, TypeOK
<1>9. ASSUME NEW w \in Writes, LockRun(w) PROVE TypeOK'
  <2>1. UNCHANGED <<start, stamp, clock, missing, late, man, data, torn, got>>
    BY <1>9 DEF LockRun
  <2>2. CASE Outdated(w) \/ Gone(w)
    <3>1. \E x \in {"skipped", "failed"} : pc' = [pc EXCEPT ![w] = x]
      BY <1>9, <2>2 DEF LockRun
    <3>2. pc' \in [Writes -> Stages]
      BY <3>1, PcMoves
    <3>3. ended' \in [Units -> SUBSET Prompts] /\ UNCHANGED <<lock, restart>>
      BY <1>9, <2>2, TurnEnds DEF LockRun
    <3> QED BY <2>1, <3>2, <3>3 DEF TypeOK
  <2>3. CASE ~(Outdated(w) \/ Gone(w))
    <3>1. pc' = [pc EXCEPT ![w] = "locked"] /\ lock' = w /\ UNCHANGED ended
      BY <1>9, <2>3 DEF LockRun
    <3>2. restart' \in BOOLEAN
      BY <1>9, <2>3 DEF LockRun, Replaces
    <3>3. pc' \in [Writes -> Stages]
      BY <3>1, PcMoves
    <3> QED BY <2>1, <3>1, <3>2, <3>3 DEF TypeOK
  <2> QED BY <2>2, <2>3
<1>10. ASSUME NEW w \in Writes, WriteArtifact(w) PROVE TypeOK'
  <2>1. data' = <<>> \/ data'[1] \in Seq(Writes)
    <3>1. data # <<>> => data[1] \in Seq(Writes)
      BY DEF TypeOK
    <3> DEFINE kept == IF restart \/ data = <<>> THEN <<>> ELSE data[1]
    <3>2. kept \in Seq(Writes)
      BY <3>1
    <3> HIDE DEF kept
    <3>3. Append(kept, w) \in Seq(Writes)
      BY <3>2, Appended
    <3>4. data' = IF w \in Rowless THEN IF restart THEN <<>> ELSE data
                  ELSE <<Append(kept, w)>>
      BY <1>10 DEF WriteArtifact, NewData, kept
    <3> QED BY <3>1, <3>3, <3>4
  <2>2. pc' \in [Writes -> Stages]
    BY <1>10, PcMoves DEF WriteArtifact
  <2> QED BY <1>10, <2>1, <2>2 DEF WriteArtifact, TypeOK
<1>11. ASSUME NEW w \in Writes, WriteManifest(w) PROVE TypeOK'
  <2>1. man'[1] \in Manifests
    BY <1>11, ManifestType
  <2>2. pc' \in [Writes -> Stages] /\ ended' \in [Units -> SUBSET Prompts]
    BY <1>11, PcMoves, TurnEnds DEF WriteManifest
  <2> QED BY <1>11, <2>1, <2>2 DEF WriteManifest, TypeOK
<1>12. ASSUME Crash PROVE TypeOK'
  <2>1. /\ pc' \in [Writes -> Stages] /\ ended' \in [Units -> SUBSET Prompts]
        /\ missing' \in [Writes -> SUBSET Prompts] /\ torn' \in BOOLEAN
    BY <1>12 DEF Crash, ServerDies, TypeOK
  <2> QED BY <1>12, <2>1 DEF Crash, ServerDies, TypeOK
<1>13. ASSUME UNCHANGED vars PROVE TypeOK'
  BY <1>13 DEF vars, TypeOK
<1> QED BY <1>1, <1>2, <1>3, <1>4, <1>5, <1>6, <1>7, <1>8, <1>9, <1>10, <1>11, <1>12, <1>13
        DEF Next, Writer

-----------------------------------------------------------------------------
(* One writer at a time. *)

InFiles(w) == pc[w] \in {"locked", "wrote"}

LEMMA ReplacesFrame == UNCHANGED man => \A w \in Writes : Replaces(w)' <=> Replaces(w)
BY DEF Replaces, Reused, SameUnit, Listed, KeyOf

LEMMA HoldFrame ==
  ASSUME HoldInv, UNCHANGED lock, UNCHANGED restart, UNCHANGED man,
         \A w \in Writes : InFiles(w)' <=> InFiles(w)
  PROVE  HoldInv'
BY ReplacesFrame DEF HoldInv, InFiles

\* A writer that goes from one stage to another, none of them in the files.
LEMMA HoldMoves ==
  ASSUME TypeOK, HoldInv, NEW w \in Writes, NEW x \in Stages, pc' = [pc EXCEPT ![w] = x],
         ~InFiles(w), x \notin {"locked", "wrote"},
         UNCHANGED lock, UNCHANGED restart, UNCHANGED man
  PROVE  HoldInv'
<1>1. \A v \in Writes : InFiles(v)' <=> InFiles(v)
  BY PcMoves DEF InFiles
<1> QED BY <1>1, HoldFrame

\* A response arrives once, with all its prompts.
LEMMA ArrivesNew ==
  ASSUME ClockInv, NEW r \in Resps, Arrive(r)
  PROVE  /\ start[r] = 0
         /\ \A w \in Writes : w[1] = r => pc[w] = "new"
<1>1. <<r, 0>> \in Writes /\ <<r, 0>>[1] = r /\ pc[<<r, 0>>] = "new"
  BY Pairs DEF Arrive
<1> QED BY <1>1 DEF ClockInv

LEMMA HoldStep == TypeOK /\ HoldInv /\ ClockInv /\ [Next]_vars => HoldInv'
<1> SUFFICES ASSUME TypeOK, HoldInv, ClockInv, [Next]_vars PROVE HoldInv'
  OBVIOUS
<1> USE Pairs, StageNames
<1>1. ASSUME NEW r \in Resps, Arrive(r) PROVE HoldInv'
  <2>1. \A w \in Writes : w[1] = r => pc[w] = "new"
    BY <1>1, ArrivesNew
  <2>2. \A w \in Writes : InFiles(w)' <=> InFiles(w)
    BY <1>1, <2>1 DEF Arrive, InFiles, TypeOK
  <2> QED BY <1>1, <2>2, HoldFrame DEF Arrive
<1>2. ASSUME NEW r \in Resps, Abort(r) PROVE HoldInv'
  <2>1. \A w \in Writes : pc'[w] = pc[w] \/ (pc[w] = "gen" /\ pc'[w] = "aborted")
    BY <1>2 DEF Abort, TypeOK
  <2>2. \A w \in Writes : InFiles(w)' <=> InFiles(w)
    BY <2>1 DEF InFiles
  <2> QED BY <1>2, <2>2, HoldFrame DEF Abort
<1>3. ASSUME NEW r \in Resps, ReadRun(r) PROVE HoldInv'
  BY <1>3, HoldFrame DEF ReadRun, InFiles
<1>4. ASSUME NEW w \in Writes, Finish(w) PROVE HoldInv'
  <2>1. /\ pc' = [pc EXCEPT ![w] = "wait"] /\ ~InFiles(w)
        /\ UNCHANGED lock /\ UNCHANGED restart /\ UNCHANGED man
    BY <1>4 DEF Finish, InFiles
  <2> QED BY <2>1, HoldMoves
<1>5. ASSUME NEW w \in Writes, Delivered(w) PROVE HoldInv'
  <2>1. /\ pc' = [pc EXCEPT ![w] = "turn"] /\ ~InFiles(w)
        /\ UNCHANGED lock /\ UNCHANGED restart /\ UNCHANGED man
    BY <1>5 DEF Delivered, InFiles
  <2> QED BY <2>1, HoldMoves
<1>6. ASSUME NEW w \in Writes, NotDelivered(w) PROVE HoldInv'
  <2>1. /\ pc' = [pc EXCEPT ![w] = "failed"] /\ ~InFiles(w)
        /\ UNCHANGED lock /\ UNCHANGED restart /\ UNCHANGED man
    BY <1>6 DEF NotDelivered, InFiles
  <2> QED BY <2>1, HoldMoves
<1>7. ASSUME NEW w \in Writes, TurnComes(w) PROVE HoldInv'
  <2>1. /\ pc' = [pc EXCEPT ![w] = "ready"] /\ ~InFiles(w)
        /\ UNCHANGED lock /\ UNCHANGED restart /\ UNCHANGED man
    BY <1>7 DEF TurnComes, InFiles
  <2> QED BY <2>1, HoldMoves
<1>8. ASSUME NEW w \in Writes, TurnTimesOut(w) PROVE HoldInv'
  <2>1. /\ pc' = [pc EXCEPT ![w] = "ready"] /\ ~InFiles(w)
        /\ UNCHANGED lock /\ UNCHANGED restart /\ UNCHANGED man
    BY <1>8 DEF TurnTimesOut, InFiles
  <2> QED BY <2>1, HoldMoves
<1>9. ASSUME NEW w \in Writes, LockRun(w) PROVE HoldInv'
  <2>1. UNCHANGED man /\ pc[w] = "ready" /\ lock = NoOne
    BY <1>9 DEF LockRun
  <2>2. CASE Outdated(w) \/ Gone(w)
    <3>1. \E x \in {"skipped", "failed"} : pc' = [pc EXCEPT ![w] = x]
      BY <1>9, <2>2 DEF LockRun
    <3> QED BY <1>9, <2>1, <2>2, <3>1, HoldMoves DEF LockRun, InFiles
  <2>3. CASE ~(Outdated(w) \/ Gone(w))
    <3>1. pc' = [pc EXCEPT ![w] = "locked"] /\ lock' = w /\ restart' = Replaces(w)
      BY <1>9, <2>3 DEF LockRun
    <3>2. \A v \in Writes : pc'[v] \in {"locked", "wrote"} <=> v = w
      <4>1. \A v \in Writes : pc[v] \notin {"locked", "wrote"}
        BY <2>1 DEF HoldInv
      <4>2. pc'[w] = "locked" /\ \A v \in Writes : v # w => pc'[v] = pc[v]
        BY <3>1, PcMoves
      <4> QED BY <4>1, <4>2
    <3>3. Replaces(w)' <=> Replaces(w)
      BY <2>1, ReplacesFrame
    <3> QED BY <3>1, <3>2, <3>3 DEF HoldInv
  <2> QED BY <2>2, <2>3
<1>10. ASSUME NEW w \in Writes, WriteArtifact(w) PROVE HoldInv'
  <2>1. \A v \in Writes : InFiles(v)' <=> InFiles(v)
    BY <1>10, PcMoves DEF InFiles, WriteArtifact
  <2> QED BY <1>10, <2>1, HoldFrame DEF WriteArtifact
<1>11. ASSUME NEW w \in Writes, WriteManifest(w) PROVE HoldInv'
  <2>1. \A v \in Writes : pc'[v] \notin {"locked", "wrote"}
    <3>1. pc' = [pc EXCEPT ![w] = "written"] /\ pc[w] = "wrote"
      BY <1>11 DEF WriteManifest
    <3>2. pc'[w] = "written" /\ \A v \in Writes : v # w => pc'[v] = pc[v]
      BY <3>1, PcMoves
    <3>3. \A v \in Writes : v # w => pc[v] \notin {"locked", "wrote"}
      BY <3>1 DEF HoldInv
    <3> QED BY <3>2, <3>3
  <2>2. lock' = NoOne
    BY <1>11 DEF WriteManifest
  <2> QED BY <2>1, <2>2 DEF HoldInv
<1>12. ASSUME Crash PROVE HoldInv'
  <2>1. \A v \in Writes : pc'[v] \notin {"locked", "wrote"}
    BY <1>12 DEF Crash, ServerDies, Ended, TypeOK
  <2>2. lock' = NoOne
    BY <1>12 DEF Crash
  <2> QED BY <2>1, <2>2 DEF HoldInv
<1>13. ASSUME UNCHANGED vars PROVE HoldInv'
  BY <1>13, HoldFrame DEF vars, InFiles
<1> QED BY <1>1, <1>2, <1>3, <1>4, <1>5, <1>6, <1>7, <1>8, <1>9, <1>10, <1>11, <1>12, <1>13
        DEF Next, Writer

-----------------------------------------------------------------------------
(* Arrivals and stamps. *)

Finished(w) == pc[w] \notin {"new", "gen", "failed", "aborted"}

\* The clock stands still and no write arrives or finishes.
LEMMA ClockFrame ==
  ASSUME ClockInv, UNCHANGED start, UNCHANGED stamp, UNCHANGED clock,
         \A w \in Writes : /\ pc'[w] = "new" <=> pc[w] = "new"
                           /\ pc'[w] = "gen" => pc[w] = "gen"
                           /\ Finished(w)' => Finished(w)
  PROVE  ClockInv'
BY DEF ClockInv, Finished

LEMMA ClockMoves ==
  ASSUME TypeOK, ClockInv, NEW w \in Writes, NEW x \in Stages, pc' = [pc EXCEPT ![w] = x],
         UNCHANGED start, UNCHANGED stamp, UNCHANGED clock,
         x \notin {"new", "gen"}, Finished(w)
  PROVE  ClockInv'
<1>1. pc'[w] = x /\ \A v \in Writes : v # w => pc'[v] = pc[v]
  BY PcMoves
<1>2. \A v \in Writes : /\ pc'[v] = "new" <=> pc[v] = "new"
                        /\ pc'[v] = "gen" => pc[v] = "gen"
                        /\ Finished(v)' => Finished(v)
  BY <1>1 DEF Finished
<1> QED BY <1>2, ClockFrame

LEMMA ClockInit == Init => ClockInv
BY Pairs DEF Init, ClockInv

LEMMA ClockStep == TypeOK /\ HoldInv /\ ClockInv /\ [Next]_vars => ClockInv'
<1> SUFFICES ASSUME TypeOK, HoldInv, ClockInv, [Next]_vars PROVE ClockInv'
  OBVIOUS
<1> USE Pairs, StageNames
<1>0. /\ clock \in Nat /\ (\A r \in Resps : start[r] \in Nat /\ start[r] <= clock)
      /\ (\A w \in Writes : stamp[w] \in Nat /\ stamp[w] <= clock /\ pc[w] \in Stages)
  BY DEF TypeOK, ClockInv
<1>1. ASSUME NEW r \in Resps, Arrive(r) PROVE ClockInv'
  <2>1. \A w \in Writes : w[1] = r => pc[w] = "new" /\ stamp[w] = 0
    BY <1>1, ArrivesNew DEF ClockInv
  <2>2. /\ \A w \in Writes : pc'[w] = IF w[1] = r THEN "gen" ELSE pc[w]
        /\ \A s \in Resps : start'[s] = IF s = r THEN clock + 1 ELSE start[s]
        /\ clock' = clock + 1 /\ stamp' = stamp
    BY <1>1 DEF Arrive, TypeOK
  <2>3. \A w \in Writes : pc'[w] = "new" <=> start'[w[1]] = 0
    BY <1>0, <2>2 DEF ClockInv
  <2>4. /\ \A w \in Writes : pc'[w] \in {"new", "gen"} => stamp'[w] = 0
        /\ \A w \in Writes : pc'[w] \notin {"new", "gen", "failed", "aborted"} => stamp'[w] > 0
        /\ \A w \in Writes : stamp'[w] > 0 => start'[w[1]] < stamp'[w]
    BY <2>1, <2>2 DEF ClockInv
  <2>5. /\ \A s \in Resps : start'[s] <= clock'
        /\ \A w \in Writes : stamp'[w] <= clock'
    BY <1>0, <2>2
  <2> QED BY <2>3, <2>4, <2>5 DEF ClockInv
<1>2. ASSUME NEW r \in Resps, Abort(r) PROVE ClockInv'
  <2>1. \A w \in Writes : pc'[w] = pc[w] \/ (pc[w] = "gen" /\ pc'[w] = "aborted")
    BY <1>2 DEF Abort, TypeOK
  <2>2. \A w \in Writes : /\ pc'[w] = "new" <=> pc[w] = "new"
                          /\ pc'[w] = "gen" => pc[w] = "gen"
                          /\ Finished(w)' => Finished(w)
    BY <2>1 DEF Finished
  <2> QED BY <1>2, <2>2, ClockFrame DEF Abort
<1>3. ASSUME NEW r \in Resps, ReadRun(r) PROVE ClockInv'
  BY <1>3, ClockFrame DEF ReadRun, Finished
<1>4. ASSUME NEW w \in Writes, Finish(w) PROVE ClockInv'
  <2>1. /\ pc[w] = "gen" /\ pc' = [pc EXCEPT ![w] = "wait"] /\ start' = start
        /\ clock' = clock + 1
        /\ stamp'[w] = clock + 1 /\ \A v \in Writes : v # w => stamp'[v] = stamp[v]
    BY <1>4 DEF Finish, TypeOK
  <2>2. pc'[w] = "wait" /\ \A v \in Writes : v # w => pc'[v] = pc[v]
    BY <2>1, PcMoves
  <2>3. \A v \in Writes : pc'[v] = "new" <=> start'[v[1]] = 0
    BY <2>1, <2>2 DEF ClockInv
  <2>4. /\ \A v \in Writes : pc'[v] \in {"new", "gen"} => stamp'[v] = 0
        /\ \A v \in Writes : pc'[v] \notin {"new", "gen", "failed", "aborted"} => stamp'[v] > 0
    BY <1>0, <2>1, <2>2 DEF ClockInv
  <2>5. \A v \in Writes : stamp'[v] > 0 => start'[v[1]] < stamp'[v]
    BY <1>0, <2>1 DEF ClockInv
  <2>6. /\ \A s \in Resps : start'[s] <= clock'
        /\ \A v \in Writes : stamp'[v] <= clock'
    BY <1>0, <2>1
  <2> QED BY <2>3, <2>4, <2>5, <2>6 DEF ClockInv
<1>5. ASSUME NEW w \in Writes, Delivered(w) PROVE ClockInv'
  <2>1. /\ pc' = [pc EXCEPT ![w] = "turn"] /\ Finished(w)
        /\ UNCHANGED start /\ UNCHANGED stamp /\ UNCHANGED clock
    BY <1>5 DEF Delivered, Finished
  <2> QED BY <2>1, ClockMoves
<1>6. ASSUME NEW w \in Writes, NotDelivered(w) PROVE ClockInv'
  <2>1. /\ pc' = [pc EXCEPT ![w] = "failed"] /\ Finished(w)
        /\ UNCHANGED start /\ UNCHANGED stamp /\ UNCHANGED clock
    BY <1>6 DEF NotDelivered, Finished
  <2> QED BY <2>1, ClockMoves
<1>7. ASSUME NEW w \in Writes, TurnComes(w) PROVE ClockInv'
  <2>1. /\ pc' = [pc EXCEPT ![w] = "ready"] /\ Finished(w)
        /\ UNCHANGED start /\ UNCHANGED stamp /\ UNCHANGED clock
    BY <1>7 DEF TurnComes, Finished
  <2> QED BY <2>1, ClockMoves
<1>8. ASSUME NEW w \in Writes, TurnTimesOut(w) PROVE ClockInv'
  <2>1. /\ pc' = [pc EXCEPT ![w] = "ready"] /\ Finished(w)
        /\ UNCHANGED start /\ UNCHANGED stamp /\ UNCHANGED clock
    BY <1>8 DEF TurnTimesOut, Finished
  <2> QED BY <2>1, ClockMoves
<1>9. ASSUME NEW w \in Writes, LockRun(w) PROVE ClockInv'
  <2>1. \E x \in {"skipped", "failed", "locked"} : pc' = [pc EXCEPT ![w] = x]
    BY <1>9 DEF LockRun
  <2>2. Finished(w) /\ UNCHANGED start /\ UNCHANGED stamp /\ UNCHANGED clock
    BY <1>9 DEF LockRun, Finished
  <2> QED BY <2>1, <2>2, ClockMoves
<1>10. ASSUME NEW w \in Writes, WriteArtifact(w) PROVE ClockInv'
  <2>1. /\ pc' = [pc EXCEPT ![w] = "wrote"] /\ Finished(w)
        /\ UNCHANGED start /\ UNCHANGED stamp /\ UNCHANGED clock
    BY <1>10 DEF WriteArtifact, Finished
  <2> QED BY <2>1, ClockMoves
<1>11. ASSUME NEW w \in Writes, WriteManifest(w) PROVE ClockInv'
  <2>1. /\ pc' = [pc EXCEPT ![w] = "written"] /\ Finished(w)
        /\ UNCHANGED start /\ UNCHANGED stamp /\ UNCHANGED clock
    BY <1>11 DEF WriteManifest, Finished
  <2> QED BY <2>1, ClockMoves
<1>12. ASSUME Crash PROVE ClockInv'
  <2>1. \A w \in Writes : pc'[w] = pc[w] \/ (pc[w] # "new" /\ pc'[w] = "failed")
    BY <1>12 DEF Crash, ServerDies, TypeOK
  <2>2. \A w \in Writes : /\ pc'[w] = "new" <=> pc[w] = "new"
                          /\ pc'[w] = "gen" => pc[w] = "gen"
                          /\ Finished(w)' => Finished(w)
    BY <2>1 DEF Finished
  <2> QED BY <1>12, <2>2, ClockFrame DEF Crash, ServerDies
<1>13. ASSUME UNCHANGED vars PROVE ClockInv'
  BY <1>13, ClockFrame DEF vars, Finished
<1> QED BY <1>1, <1>2, <1>3, <1>4, <1>5, <1>6, <1>7, <1>8, <1>9, <1>10, <1>11, <1>12, <1>13
        DEF Next, Writer

-----------------------------------------------------------------------------
(* Turns.  Where an id comes back, the prompts of the first response have    *)
(* ended turns that the second would wait for, hence IdsDiffer.              *)

Taken(w) == pc[w] \in {"ready", "locked", "wrote", "written"}

LEMMA TurnFrame ==
  ASSUME TurnInv, late \subseteq late',
         \A w \in Writes : w[2] \in ended'[UnitOf[w[1]]] =>
           w[2] \in ended[UnitOf[w[1]]] \/ Ended(w)',
         \A w \in Writes : Ended(w) => Ended(w)',
         \A w \in Writes : pc'[w] = "turn" => pc[w] = "turn" /\ missing'[w] = missing[w],
         \A w \in Writes : Taken(w)' => Taken(w)
  PROVE  TurnInv'
<1>1. \A w \in Writes : w[2] \in ended'[UnitOf[w[1]]] => Ended(w)'
  BY DEF TurnInv
<1>2. ASSUME NEW w \in Writes, NEW j \in Prompts, j < w[2], pc'[w] = "turn"
      PROVE  Ended(<<w[1], j>>)' \/ j \in missing'[w]
  <2>1. <<w[1], j>> \in Writes
    BY Pairs
  <2>2. Ended(<<w[1], j>>) \/ j \in missing[w]
    BY <1>2 DEF TurnInv
  <2>3. Ended(<<w[1], j>>) => Ended(<<w[1], j>>)'
    BY <2>1
  <2> QED BY <1>2, <2>2, <2>3
<1>3. ASSUME NEW w \in Writes, NEW j \in Prompts, j < w[2], Taken(w)', w \notin late'
      PROVE  Ended(<<w[1], j>>)'
  <2>1. <<w[1], j>> \in Writes
    BY Pairs
  <2>2. Ended(<<w[1], j>>)
    BY <1>3 DEF TurnInv, TurnsAreKept, Taken
  <2> QED BY <2>1, <2>2
<1>4. TurnsAreKept'
  BY <1>3 DEF TurnsAreKept, Taken
<1> QED BY <1>1, <1>2, <1>4 DEF TurnInv

LEMMA TurnOver ==
  ASSUME TypeOK, IdsDiffer, NEW w \in Writes, EndTurn(w), Ended(w)'
  PROVE  \A v \in Writes : v[2] \in ended'[UnitOf[v[1]]] =>
           v[2] \in ended[UnitOf[v[1]]] \/ Ended(v)'
<1> SUFFICES ASSUME NEW v \in Writes, v[2] \in ended'[UnitOf[v[1]]],
                    v[2] \notin ended[UnitOf[v[1]]]
             PROVE  v = w
  OBVIOUS
<1>1. UnitOf[v[1]] \in Units /\ v[1] \in Resps /\ w[1] \in Resps
  BY Pairs
<1>2. UnitOf[v[1]] = UnitOf[w[1]] /\ v[2] = w[2]
  BY <1>1, TurnEnds
<1>3. v[1] = w[1]
  BY <1>1, <1>2 DEF IdsDiffer
<1> QED BY <1>2, <1>3, Pairs

LEMMA TurnInit == Init => TurnInv
BY Pairs DEF Init, TurnInv, TurnsAreKept

LEMMA TurnStep == TypeOK /\ ClockInv /\ IdsDiffer /\ TurnInv /\ [Next]_vars => TurnInv'
<1> SUFFICES ASSUME TypeOK, ClockInv, IdsDiffer, TurnInv, [Next]_vars PROVE TurnInv'
  OBVIOUS
<1> USE Pairs, StageNames
<1>1. ASSUME NEW r \in Resps, Arrive(r) PROVE TurnInv'
  <2>1. \A w \in Writes : w[1] = r => pc[w] = "new"
    BY <1>1, ArrivesNew
  <2>2. \A w \in Writes : pc'[w] = pc[w] \/ (pc[w] = "new" /\ pc'[w] = "gen")
    BY <1>1, <2>1 DEF Arrive, TypeOK
  <2>3. UNCHANGED ended /\ UNCHANGED missing /\ UNCHANGED late
    BY <1>1 DEF Arrive
  <2>4. \A w \in Writes : /\ Ended(w) => Ended(w)'
                          /\ pc'[w] = "turn" => pc[w] = "turn"
                          /\ Taken(w)' => Taken(w)
    BY <2>2 DEF Ended, Taken
  <2> QED BY <2>3, <2>4, TurnFrame
<1>2. ASSUME NEW r \in Resps, Abort(r) PROVE TurnInv'
  <2>1. \A w \in Writes : \/ pc'[w] = pc[w] /\ ~(w[1] = r /\ pc[w] = "gen")
                          \/ w[1] = r /\ pc[w] = "gen" /\ pc'[w] = "aborted"
    <3>1. \A w \in Writes : w[1] = r => pc[<<r, w[2]>>] = pc[w]
      OBVIOUS
    <3> QED BY <1>2, <3>1 DEF Abort, TypeOK
  <2>2. \A w \in Writes : /\ Ended(w) => Ended(w)'
                          /\ pc'[w] = "turn" => pc[w] = "turn"
                          /\ Taken(w)' => Taken(w)
                          /\ w[1] = r /\ pc[w] = "gen" => Ended(w)'
    BY <2>1 DEF Ended, Taken
  <2>3. UNCHANGED missing /\ UNCHANGED late
    BY <1>2 DEF Abort
  <2>4. ASSUME NEW w \in Writes, w[2] \in ended'[UnitOf[w[1]]], w[2] \notin ended[UnitOf[w[1]]]
        PROVE  w[1] = r /\ pc[w] = "gen"
    <3>1. UnitOf[w[1]] = UnitOf[r] /\ pc[<<r, w[2]>>] = "gen"
      BY <1>2, <2>4 DEF Abort, TypeOK
    <3>2. w[1] = r
      BY <3>1 DEF IdsDiffer
    <3> QED BY <3>1, <3>2
  <2>5. \A w \in Writes : w[2] \in ended'[UnitOf[w[1]]] =>
          w[2] \in ended[UnitOf[w[1]]] \/ Ended(w)'
    BY <2>2, <2>4
  <2> QED BY <2>2, <2>3, <2>5, TurnFrame
<1>3. ASSUME NEW r \in Resps, ReadRun(r) PROVE TurnInv'
  BY <1>3, TurnFrame DEF ReadRun, Ended, Taken
<1>4. ASSUME NEW w \in Writes, Finish(w) PROVE TurnInv'
  <2>1. /\ pc' = [pc EXCEPT ![w] = "wait"] /\ ~Ended(w)
        /\ UNCHANGED ended /\ UNCHANGED missing /\ UNCHANGED late
    BY <1>4 DEF Finish, Ended
  <2>2. /\ \A v \in Writes : Ended(v) => Ended(v)'
        /\ \A v \in Writes : pc'[v] = "turn" => pc[v] = "turn"
        /\ \A v \in Writes : Taken(v)' => Taken(v)
    <3>1. pc'[w] = "wait" /\ \A v \in Writes : v # w => pc'[v] = pc[v]
      BY <2>1, PcMoves
    <3> QED BY <2>1, <3>1 DEF Ended, Taken
  <2> QED BY <2>1, <2>2, TurnFrame
<1>5. ASSUME NEW w \in Writes, Delivered(w) PROVE TurnInv'
  <2>1. /\ pc' = [pc EXCEPT ![w] = "turn"] /\ ~Ended(w) /\ UNCHANGED ended /\ UNCHANGED late
        /\ missing'[w] = Awaited(w) /\ \A v \in Writes : v # w => missing'[v] = missing[v]
    BY <1>5 DEF Delivered, TypeOK, Ended
  <2>2. /\ pc'[w] = "turn" /\ \A v \in Writes : v # w => pc'[v] = pc[v]
    BY <2>1, PcMoves
  <2>3. /\ \A v \in Writes : Ended(v) => Ended(v)'
        /\ \A v \in Writes : Taken(v)' => Taken(v)
    <3>1. pc'[w] = "turn" /\ \A v \in Writes : v # w => pc'[v] = pc[v]
      BY <2>1, PcMoves
    <3> QED BY <2>1, <3>1 DEF Ended, Taken
  <2>4. \A v \in Writes : v[2] \in ended'[UnitOf[v[1]]] => Ended(v)'
    BY <2>1, <2>3 DEF TurnInv
  <2>5. ASSUME NEW v \in Writes, NEW j \in Prompts, j < v[2], pc'[v] = "turn"
        PROVE  Ended(<<v[1], j>>)' \/ j \in missing'[v]
    <3>1. <<v[1], j>> \in Writes /\ <<v[1], j>>[1] = v[1] /\ <<v[1], j>>[2] = j
      OBVIOUS
    <3>2. Ended(<<v[1], j>>) => Ended(<<v[1], j>>)'
      BY <2>3, <3>1
    <3>3. CASE v # w
      <4>1. Ended(<<v[1], j>>) \/ j \in missing[v]
        BY <2>2, <2>5, <3>3 DEF TurnInv
      <4> QED BY <2>1, <3>2, <3>3, <4>1
    <3>4. CASE v = w
      <4>1. j \in 0 .. w[2] - 1
        BY <2>5, <3>4
      <4>2. j \in ended[UnitOf[v[1]]] => Ended(<<v[1], j>>)
        BY <3>1 DEF TurnInv
      <4> QED BY <2>1, <3>2, <3>4, <4>1, <4>2 DEF Awaited, Earlier
    <3> QED BY <3>3, <3>4
  <2>6. TurnsAreKept'
    <3> SUFFICES ASSUME NEW v \in Writes, Taken(v)', v \notin late', NEW j \in Prompts, j < v[2]
                 PROVE  Ended(<<v[1], j>>)'
      BY DEF TurnsAreKept, Taken
    <3>1. Ended(<<v[1], j>>)
      BY <2>1, <2>3 DEF TurnInv, TurnsAreKept, Taken
    <3> QED BY <2>3, <3>1
  <2> QED BY <2>4, <2>5, <2>6 DEF TurnInv
<1>6. ASSUME NEW w \in Writes, NotDelivered(w) PROVE TurnInv'
  <2>1. /\ pc' = [pc EXCEPT ![w] = "failed"] /\ ~Ended(w) /\ EndTurn(w)
        /\ UNCHANGED missing /\ UNCHANGED late
    BY <1>6 DEF NotDelivered, Ended
  <2>2. /\ \A v \in Writes : Ended(v) => Ended(v)'
        /\ \A v \in Writes : pc'[v] = "turn" => pc[v] = "turn"
        /\ \A v \in Writes : Taken(v)' => Taken(v)
        /\ Ended(w)'
    <3>1. pc'[w] = "failed" /\ \A v \in Writes : v # w => pc'[v] = pc[v]
      BY <2>1, PcMoves
    <3> QED BY <2>1, <3>1 DEF Ended, Taken
  <2>3. \A v \in Writes : v[2] \in ended'[UnitOf[v[1]]] =>
         v[2] \in ended[UnitOf[v[1]]] \/ Ended(v)'
    BY <2>1, <2>2, TurnOver
  <2> QED BY <2>1, <2>2, <2>3, TurnFrame
<1>7. ASSUME NEW w \in Writes, TurnComes(w) \/ TurnTimesOut(w) PROVE TurnInv'
  <2>1. /\ pc[w] = "turn" /\ pc' = [pc EXCEPT ![w] = "ready"] /\ ~Ended(w) /\ UNCHANGED ended
        /\ \A v \in Writes : v # w => missing'[v] = missing[v]
    BY <1>7, SMTT(30) DEF TurnComes, TurnTimesOut, TypeOK, Ended
  <2>2. \/ late' = late /\ missing[w] \subseteq ended[UnitOf[w[1]]]
        \/ late' = late \cup {w}
    BY <1>7 DEF TurnComes, TurnTimesOut
  <2>3. /\ \A v \in Writes : Ended(v) => Ended(v)'
        /\ \A v \in Writes : pc'[v] = "turn" => pc[v] = "turn" /\ v # w
        /\ \A v \in Writes : v # w => (Taken(v)' <=> Taken(v))
    <3>1. pc'[w] = "ready" /\ \A v \in Writes : v # w => pc'[v] = pc[v]
      BY <2>1, PcMoves
    <3> QED BY <2>1, <3>1 DEF Ended, Taken
  <2>4. \A v \in Writes : v[2] \in ended'[UnitOf[v[1]]] => Ended(v)'
    BY <2>1, <2>3 DEF TurnInv
  <2>5. ASSUME NEW v \in Writes, NEW j \in Prompts, j < v[2], pc'[v] = "turn"
        PROVE  Ended(<<v[1], j>>)' \/ j \in missing'[v]
    <3>1. <<v[1], j>> \in Writes
      OBVIOUS
    <3>2. Ended(<<v[1], j>>) \/ j \in missing[v]
      BY <2>3, <2>5 DEF TurnInv
    <3> QED BY <2>1, <2>3, <2>5, <3>1, <3>2
  <2>6. ASSUME NEW v \in Writes, Taken(v)', v \notin late', NEW j \in Prompts, j < v[2]
        PROVE  Ended(<<v[1], j>>)'
    <3>1. <<v[1], j>> \in Writes /\ <<v[1], j>>[1] = v[1] /\ <<v[1], j>>[2] = j
      OBVIOUS
    <3>2. CASE v # w
      <4>1. Taken(v) /\ v \notin late
        BY <2>2, <2>3, <2>6, <3>2
      <4>2. Ended(<<v[1], j>>)
        BY <2>6, <4>1 DEF TurnInv, TurnsAreKept, Taken
      <4> QED BY <2>3, <3>1, <4>2
    <3>3. CASE v = w
      <4>1. Ended(<<v[1], j>>) \/ j \in missing[v]
        BY <2>1, <2>6, <3>3 DEF TurnInv
      <4>2. missing[v] \subseteq ended[UnitOf[v[1]]]
        BY <2>2, <2>6, <3>3
      <4>3. j \in ended[UnitOf[v[1]]] => Ended(<<v[1], j>>)
        BY <3>1 DEF TurnInv
      <4> QED BY <2>3, <3>1, <4>1, <4>2, <4>3
    <3> QED BY <3>2, <3>3
  <2>7. TurnsAreKept'
    BY <2>6 DEF TurnsAreKept, Taken
  <2> QED BY <2>4, <2>5, <2>7 DEF TurnInv
<1>9. ASSUME NEW w \in Writes, LockRun(w) PROVE TurnInv'
  <2>1. UNCHANGED missing /\ UNCHANGED late /\ pc[w] = "ready" /\ ~Ended(w) /\ Taken(w)
    BY <1>9 DEF LockRun, Ended, Taken
  <2>2. CASE Outdated(w) \/ Gone(w)
    <3>1. EndTurn(w) /\ \E x \in {"skipped", "failed"} : pc' = [pc EXCEPT ![w] = x]
      BY <1>9, <2>2 DEF LockRun
    <3>2. PICK x \in {"skipped", "failed"} : pc' = [pc EXCEPT ![w] = x]
      BY <3>1
    <3>3. /\ \A v \in Writes : Ended(v) => Ended(v)'
          /\ \A v \in Writes : pc'[v] = "turn" => pc[v] = "turn"
          /\ \A v \in Writes : Taken(v)' => Taken(v)
          /\ Ended(w)'
      <4>1. pc'[w] = x /\ \A v \in Writes : v # w => pc'[v] = pc[v]
        <5>1. x \in Stages /\ pc' = [pc EXCEPT ![w] = x]
          BY <3>2
        <5> QED BY <5>1, PcMoves
      <4> QED BY <2>1, <3>2, <4>1 DEF Ended, Taken
    <3>4. \A v \in Writes : v[2] \in ended'[UnitOf[v[1]]] =>
           v[2] \in ended[UnitOf[v[1]]] \/ Ended(v)'
      BY <3>1, <3>3, TurnOver
    <3> QED BY <2>1, <3>3, <3>4, TurnFrame
  <2>3. CASE ~(Outdated(w) \/ Gone(w))
    <3>1. pc' = [pc EXCEPT ![w] = "locked"] /\ UNCHANGED ended
      BY <1>9, <2>3 DEF LockRun
    <3>2. /\ \A v \in Writes : Ended(v) => Ended(v)'
          /\ \A v \in Writes : pc'[v] = "turn" => pc[v] = "turn"
          /\ \A v \in Writes : Taken(v)' => Taken(v)
      <4>1. pc'[w] = "locked" /\ \A v \in Writes : v # w => pc'[v] = pc[v]
        BY <2>1, <3>1, PcMoves
      <4> QED BY <2>1, <3>1, <4>1 DEF Ended, Taken
    <3> QED BY <2>1, <3>1, <3>2, TurnFrame
  <2> QED BY <2>2, <2>3
<1>10. ASSUME NEW w \in Writes, WriteArtifact(w) PROVE TurnInv'
  <2>1. /\ pc' = [pc EXCEPT ![w] = "wrote"] /\ ~Ended(w) /\ Taken(w)
        /\ UNCHANGED ended /\ UNCHANGED missing /\ UNCHANGED late
    BY <1>10 DEF WriteArtifact, Ended, Taken
  <2>2. /\ \A v \in Writes : Ended(v) => Ended(v)'
        /\ \A v \in Writes : pc'[v] = "turn" => pc[v] = "turn"
        /\ \A v \in Writes : Taken(v)' => Taken(v)
    <3>1. pc'[w] = "wrote" /\ \A v \in Writes : v # w => pc'[v] = pc[v]
      BY <2>1, PcMoves
    <3> QED BY <2>1, <3>1 DEF Ended, Taken
  <2> QED BY <2>1, <2>2, TurnFrame
<1>11. ASSUME NEW w \in Writes, WriteManifest(w) PROVE TurnInv'
  <2>1. /\ pc' = [pc EXCEPT ![w] = "written"] /\ ~Ended(w) /\ Taken(w) /\ EndTurn(w)
        /\ UNCHANGED missing /\ UNCHANGED late
    BY <1>11 DEF WriteManifest, Ended, Taken
  <2>2. /\ \A v \in Writes : Ended(v) => Ended(v)'
        /\ \A v \in Writes : pc'[v] = "turn" => pc[v] = "turn"
        /\ \A v \in Writes : Taken(v)' => Taken(v)
        /\ Ended(w)'
    <3>1. pc'[w] = "written" /\ \A v \in Writes : v # w => pc'[v] = pc[v]
      BY <2>1, PcMoves
    <3> QED BY <2>1, <3>1 DEF Ended, Taken
  <2>3. \A v \in Writes : v[2] \in ended'[UnitOf[v[1]]] =>
         v[2] \in ended[UnitOf[v[1]]] \/ Ended(v)'
    BY <2>1, <2>2, TurnOver
  <2> QED BY <2>1, <2>2, <2>3, TurnFrame
<1>12. ASSUME Crash PROVE TurnInv'
  <2>1. \A w \in Writes : \/ pc[w] = "new" /\ pc'[w] = "new"
                          \/ Ended(w) /\ pc'[w] = pc[w]
                          \/ pc'[w] = "failed"
    BY <1>12 DEF Crash, ServerDies, TypeOK
  <2>2. \A w \in Writes : /\ Ended(w) => Ended(w)'
                          /\ pc'[w] # "turn"
                          /\ Taken(w)' => Taken(w)
    BY <2>1 DEF Ended, Taken
  <2>3. late' = late /\ \A w \in Writes : ended'[UnitOf[w[1]]] = {}
    BY <1>12 DEF Crash, ServerDies
  <2> QED BY <2>2, <2>3, TurnFrame
<1>13. ASSUME UNCHANGED vars PROVE TurnInv'
  BY <1>13, TurnFrame DEF vars, Ended, Taken
<1> QED BY <1>1, <1>2, <1>3, <1>4, <1>5, <1>6, <1>7, <1>9, <1>10, <1>11, <1>12, <1>13
        DEF Next, Writer

-----------------------------------------------------------------------------
(* The manifest. *)

LEMMA ManifestFacts ==
  ASSUME TypeOK, ManifestInv, man # <<>>
  PROVE  /\ Len(man[1].requests) \in Nat \ {0} /\ Len(man[1].nonces) = Len(man[1].requests)
         /\ DOMAIN man[1].requests = 1 .. Len(man[1].requests)
         /\ DOMAIN man[1].nonces = 1 .. Len(man[1].requests)
         /\ man[1].requests \in Seq(Units \X Prompts) /\ man[1].nonces \in Seq(Writes)
         /\ man[1].stamp \in Nat /\ man[1].start \in Nat
         /\ \A k \in 1 .. Len(man[1].requests) :
              /\ man[1].nonces[k] \in Writes /\ man[1].requests[k] = KeyOf(man[1].nonces[k])
              /\ pc[man[1].nonces[k]] = "written"
              /\ UnitOf[man[1].nonces[k][1]] = man[1].unit
              /\ start[man[1].nonces[k][1]] = man[1].start
              /\ stamp[man[1].nonces[k]] <= man[1].stamp
         /\ \E k \in 1 .. Len(man[1].requests) : stamp[man[1].nonces[k]] = man[1].stamp
<1> DEFINE m == man[1]
<1>1. m \in Manifests
  BY DEF TypeOK
<1>2. /\ m.requests \in Seq(Units \X Prompts) /\ m.nonces \in Seq(Writes)
      /\ m.stamp \in Nat /\ m.start \in Nat
  BY <1>1 DEF Manifests
<1>3. /\ m.requests # <<>> /\ Len(m.nonces) = Len(m.requests)
      /\ \A k \in 1 .. Len(m.requests) :
           /\ pc[m.nonces[k]] = "written" /\ m.requests[k] = KeyOf(m.nonces[k])
           /\ UnitOf[m.nonces[k][1]] = m.unit /\ start[m.nonces[k][1]] = m.start
           /\ stamp[m.nonces[k]] <= m.stamp
      /\ \E k \in 1 .. Len(m.requests) : stamp[m.nonces[k]] = m.stamp
  BY DEF ManifestInv
<1> HIDE DEF m
<1>4. Len(m.requests) \in Nat \ {0} /\ DOMAIN m.requests = 1 .. Len(m.requests)
  BY <1>2, <1>3
<1>5. DOMAIN m.nonces = 1 .. Len(m.requests) /\ \A k \in 1 .. Len(m.requests) : m.nonces[k] \in Writes
  BY <1>2, <1>3
<1> QED BY <1>2, <1>3, <1>4, <1>5 DEF m

\* Where no id is sent again, no key comes back under another nonce.
LEMMA NotReused ==
  ASSUME TypeOK, IdsDiffer, ManifestInv, NEW w \in Writes
  PROVE  /\ Replaces(w) <=> ~Owns(w[1])
         /\ SameUnit(w) <=> Owns(w[1])
<1>1. SameUnit(w) <=> Owns(w[1])
  BY DEF SameUnit, Owns
<1>2. ASSUME Reused(w) PROVE FALSE
  <2>1. man # <<>> /\ KeyOf(w) \in Listed(man[1])
        /\ w \notin {man[1].nonces[k] : k \in DOMAIN man[1].requests}
    BY <1>2 DEF Reused
  <2>2. PICK k \in DOMAIN man[1].requests : KeyOf(w) = man[1].requests[k]
    BY <2>1 DEF Listed
  <2> DEFINE v == man[1].nonces[k]
  <2>3. v \in Writes /\ KeyOf(w) = KeyOf(v)
    BY <2>1, <2>2, ManifestFacts
  <2> HIDE DEF v
  <2>4. UnitOf[w[1]] = UnitOf[v[1]] /\ w[2] = v[2]
    BY <2>3 DEF KeyOf
  <2>5. w[1] = v[1]
    BY <2>3, <2>4, Pairs DEF IdsDiffer
  <2>6. w = v
    BY <2>3, <2>4, <2>5, Pairs
  <2> QED BY <2>1, <2>2, <2>6 DEF v
<1> QED BY <1>1, <1>2 DEF Replaces

LEMMA ManifestFrame ==
  ASSUME TypeOK, ManifestInv, UNCHANGED man,
         \A v \in Writes : pc[v] = "written" =>
           pc'[v] = "written" /\ start'[v[1]] = start[v[1]] /\ stamp'[v] = stamp[v]
  PROVE  ManifestInv'
<1> SUFFICES ASSUME man # <<>> PROVE ManifestInv'
  BY DEF ManifestInv
<1> DEFINE m == man[1]
<1>1. /\ Len(m.requests) \in Nat \ {0} /\ Len(m.nonces) = Len(m.requests)
      /\ m.requests # <<>>
      /\ \A k \in 1 .. Len(m.requests) :
              /\ m.nonces[k] \in Writes /\ m.requests[k] = KeyOf(m.nonces[k])
              /\ pc[m.nonces[k]] = "written"
              /\ UnitOf[m.nonces[k][1]] = m.unit
              /\ start[m.nonces[k][1]] = m.start
              /\ stamp[m.nonces[k]] <= m.stamp
      /\ \E k \in 1 .. Len(m.requests) : stamp[m.nonces[k]] = m.stamp
  BY ManifestFacts DEF ManifestInv
<1>2. man'[1] = m
  OBVIOUS
<1> HIDE DEF m
<1> QED BY <1>1, <1>2 DEF ManifestInv

LEMMA ManifestMoves ==
  ASSUME TypeOK, ManifestInv, NEW w \in Writes, NEW x \in Stages, pc' = [pc EXCEPT ![w] = x],
         pc[w] # "written", UNCHANGED start, UNCHANGED stamp, UNCHANGED man
  PROVE  ManifestInv'
<1>1. \A v \in Writes : v # w => pc'[v] = pc[v]
  BY PcMoves
<1> QED BY <1>1, ManifestFrame

\* The lists of a manifest with one more write.
LEMMA ManifestGrows ==
  ASSUME TypeOK, IdsDiffer, HoldInv, ManifestInv, NEW w \in Writes, WriteManifest(w)
  PROVE  LET m == man[1]
             n == Len(m.requests)
             o == man'[1] IN
         /\ man' # <<>> /\ o.unit = UnitOf[w[1]]
         /\ ~Owns(w[1]) =>
              /\ o.requests = <<KeyOf(w)>> /\ o.nonces = <<w>>
              /\ o.stamp = stamp[w] /\ o.start = start[w[1]]
         /\ Owns(w[1]) =>
              /\ man # <<>> /\ m.unit = UnitOf[w[1]] /\ n \in Nat \ {0}
              /\ Len(o.requests) = n + 1 /\ Len(o.nonces) = n + 1
              /\ \A k \in 1 .. n : o.requests[k] = m.requests[k] /\ o.nonces[k] = m.nonces[k]
              /\ o.requests[n + 1] = KeyOf(w) /\ o.nonces[n + 1] = w
              /\ o.stamp = LargerOf(m.stamp, stamp[w]) /\ o.start = start[w[1]]
<1>1. lock = w /\ man' = NewManifest(w) /\ (restart <=> ~Owns(w[1]))
  <2>1. lock = w /\ man' = NewManifest(w)
    BY DEF WriteManifest, HoldInv
  <2>2. restart <=> Replaces(w)
    BY <2>1 DEF HoldInv
  <2> QED BY <2>1, <2>2, NotReused
<1>2. CASE ~Owns(w[1])
  BY <1>1, <1>2, SMTT(30) DEF NewManifest
<1>3. CASE Owns(w[1])
  <2> DEFINE m == man[1]
             n == Len(m.requests)
             o == man'[1]
  <2>1. man # <<>> /\ m.unit = UnitOf[w[1]]
    BY <1>3 DEF Owns
  <2>2. /\ n \in Nat \ {0} /\ Len(m.nonces) = n
        /\ m.requests \in Seq(Units \X Prompts) /\ m.nonces \in Seq(Writes)
        /\ start[m.nonces[1][1]] = m.start /\ UnitOf[m.nonces[1][1]] = m.unit
        /\ m.nonces[1] \in Writes
    BY <2>1, ManifestFacts
  <2>3. m.start = start[w[1]] /\ start[w[1]] \in Nat
    <3>1. m.nonces[1][1] = w[1]
      BY <2>1, <2>2, Pairs DEF IdsDiffer
    <3> QED BY <2>2, <3>1, Pairs DEF TypeOK
  <2>4. m \in Manifests
    BY <2>1 DEF TypeOK
  <2>5. o = [m EXCEPT !.stamp = LargerOf(m.stamp, stamp[w]),
                      !.start = SmallerOf(m.start, start[w[1]]),
                      !.requests = Append(m.requests, KeyOf(w)),
                      !.nonces = Append(m.nonces, w)]
        /\ man' # <<>>
    BY <1>1, <1>3 DEF NewManifest
  <2>6. /\ o.unit = m.unit /\ o.stamp = LargerOf(m.stamp, stamp[w])
        /\ o.start = SmallerOf(m.start, start[w[1]])
        /\ o.requests = Append(m.requests, KeyOf(w)) /\ o.nonces = Append(m.nonces, w)
    BY <2>4, <2>5 DEF Manifests
  <2>7. SmallerOf(m.start, start[w[1]]) = start[w[1]]
    BY <2>3 DEF SmallerOf
  <2>8. KeyOf(w) \in Units \X Prompts
    BY Pairs
  <2> HIDE DEF m, o
  <2>9. /\ Len(o.requests) = n + 1 /\ Len(o.nonces) = n + 1
        /\ \A k \in 1 .. n : o.requests[k] = m.requests[k] /\ o.nonces[k] = m.nonces[k]
        /\ o.requests[n + 1] = KeyOf(w) /\ o.nonces[n + 1] = w
    BY <2>2, <2>6, <2>8, Appended
  <2> QED BY <1>3, <2>1, <2>2, <2>5, <2>6, <2>7, <2>9 DEF m, o
<1> QED BY <1>2, <1>3

LEMMA ManifestInit == Init => ManifestInv
BY DEF Init, ManifestInv

LEMMA ManifestStep ==
  TypeOK /\ HoldInv /\ ClockInv /\ IdsDiffer /\ ManifestInv /\ [Next]_vars => ManifestInv'
<1> SUFFICES ASSUME TypeOK, HoldInv, ClockInv, IdsDiffer, ManifestInv, [Next]_vars
             PROVE  ManifestInv'
  OBVIOUS
<1> USE Pairs, StageNames
<1>1. ASSUME NEW r \in Resps, Arrive(r) PROVE ManifestInv'
  <2>1. \A w \in Writes : w[1] = r => pc[w] = "new"
    BY <1>1, ArrivesNew
  <2>2. \A w \in Writes : pc[w] = "written" =>
           pc'[w] = "written" /\ start'[w[1]] = start[w[1]] /\ stamp'[w] = stamp[w]
    BY <1>1, <2>1 DEF Arrive, TypeOK
  <2> QED BY <1>1, <2>2, ManifestFrame DEF Arrive
<1>2. ASSUME NEW r \in Resps, Abort(r) PROVE ManifestInv'
  <2>1. \A w \in Writes : pc[w] = "written" => pc'[w] = "written"
    BY <1>2 DEF Abort, TypeOK
  <2> QED BY <1>2, <2>1, ManifestFrame DEF Abort
<1>3. ASSUME NEW r \in Resps, ReadRun(r) PROVE ManifestInv'
  BY <1>3, ManifestFrame DEF ReadRun
<1>4. ASSUME NEW w \in Writes, Finish(w) PROVE ManifestInv'
  <2>1. /\ pc[w] = "gen" /\ pc' = [pc EXCEPT ![w] = "wait"] /\ start' = start /\ man' = man
        /\ \A v \in Writes : v # w => stamp'[v] = stamp[v]
    BY <1>4 DEF Finish, TypeOK
  <2>2. \A v \in Writes : v # w => pc'[v] = pc[v]
    BY <2>1, PcMoves
  <2> QED BY <2>1, <2>2, ManifestFrame
<1>5. ASSUME NEW w \in Writes, Delivered(w) PROVE ManifestInv'
  <2>1. /\ pc' = [pc EXCEPT ![w] = "turn"] /\ pc[w] # "written"
        /\ UNCHANGED start /\ UNCHANGED stamp /\ UNCHANGED man
    BY <1>5 DEF Delivered
  <2> QED BY <2>1, ManifestMoves
<1>6. ASSUME NEW w \in Writes, NotDelivered(w) PROVE ManifestInv'
  <2>1. /\ pc' = [pc EXCEPT ![w] = "failed"] /\ pc[w] # "written"
        /\ UNCHANGED start /\ UNCHANGED stamp /\ UNCHANGED man
    BY <1>6 DEF NotDelivered
  <2> QED BY <2>1, ManifestMoves
<1>7. ASSUME NEW w \in Writes, TurnComes(w) PROVE ManifestInv'
  <2>1. /\ pc' = [pc EXCEPT ![w] = "ready"] /\ pc[w] # "written"
        /\ UNCHANGED start /\ UNCHANGED stamp /\ UNCHANGED man
    BY <1>7 DEF TurnComes
  <2> QED BY <2>1, ManifestMoves
<1>8. ASSUME NEW w \in Writes, TurnTimesOut(w) PROVE ManifestInv'
  <2>1. /\ pc' = [pc EXCEPT ![w] = "ready"] /\ pc[w] # "written"
        /\ UNCHANGED start /\ UNCHANGED stamp /\ UNCHANGED man
    BY <1>8 DEF TurnTimesOut
  <2> QED BY <2>1, ManifestMoves
<1>10. ASSUME NEW w \in Writes, WriteArtifact(w) PROVE ManifestInv'
  <2>1. /\ pc' = [pc EXCEPT ![w] = "wrote"] /\ pc[w] # "written"
        /\ UNCHANGED start /\ UNCHANGED stamp /\ UNCHANGED man
    BY <1>10 DEF WriteArtifact
  <2> QED BY <2>1, ManifestMoves
<1>9. ASSUME NEW w \in Writes, LockRun(w) PROVE ManifestInv'
  <2>1. PICK x \in {"skipped", "failed", "locked"} : pc' = [pc EXCEPT ![w] = x]
    BY <1>9 DEF LockRun
  <2>2. pc[w] # "written" /\ UNCHANGED start /\ UNCHANGED stamp /\ UNCHANGED man
    BY <1>9 DEF LockRun
  <2> QED BY <2>1, <2>2, ManifestMoves
<1>11. ASSUME NEW w \in Writes, WriteManifest(w) PROVE ManifestInv'
  <2> DEFINE m == man[1]
             n == Len(m.requests)
             o == man'[1]
  <2>1. pc[w] = "wrote" /\ UNCHANGED start /\ UNCHANGED stamp
        /\ pc' = [pc EXCEPT ![w] = "written"]
    BY <1>11 DEF WriteManifest
  <2>2. pc'[w] = "written" /\ \A v \in Writes : v # w => pc'[v] = pc[v]
    BY <2>1, PcMoves
  <2>3. stamp[w] \in Nat
    BY DEF TypeOK
  <2>4. man' # <<>> /\ o.unit = UnitOf[w[1]]
    BY <1>11, ManifestGrows
  <2>5. CASE ~Owns(w[1])
    <3>1. /\ o.requests = <<KeyOf(w)>> /\ o.nonces = <<w>>
          /\ o.stamp = stamp[w] /\ o.start = start[w[1]]
      BY <1>11, <2>5, ManifestGrows, SMTT(30)
    <3> HIDE DEF o
    <3>2. /\ o.requests # <<>> /\ Len(o.requests) = 1 /\ Len(o.nonces) = 1
          /\ o.requests[1] = KeyOf(w) /\ o.nonces[1] = w
      BY <3>1
    <3>3. \A k \in 1 .. Len(o.requests) : k = 1
      BY <3>2
    <3>4. \A k \in 1 .. Len(o.requests) :
             /\ pc'[o.nonces[k]] = "written" /\ o.requests[k] = KeyOf(o.nonces[k])
             /\ UnitOf[o.nonces[k][1]] = o.unit /\ start'[o.nonces[k][1]] = o.start
             /\ stamp'[o.nonces[k]] <= o.stamp
      BY <2>1, <2>2, <2>3, <2>4, <3>1, <3>2, <3>3
    <3>5. 1 \in 1 .. Len(o.requests) /\ stamp'[o.nonces[1]] = o.stamp
      BY <2>1, <3>1, <3>2
    <3> QED BY <2>4, <3>2, <3>4, <3>5 DEF ManifestInv, o
  <2>6. CASE Owns(w[1])
    <3>1. /\ man # <<>> /\ m.unit = UnitOf[w[1]] /\ n \in Nat \ {0}
          /\ Len(o.requests) = n + 1 /\ Len(o.nonces) = n + 1
          /\ \A k \in 1 .. n : o.requests[k] = m.requests[k] /\ o.nonces[k] = m.nonces[k]
          /\ o.requests[n + 1] = KeyOf(w) /\ o.nonces[n + 1] = w
          /\ o.stamp = LargerOf(m.stamp, stamp[w]) /\ o.start = start[w[1]]
      BY <1>11, <2>6, ManifestGrows, SMTT(30)
    <3>2. /\ m.stamp \in Nat
          /\ \A k \in 1 .. n :
              /\ m.nonces[k] \in Writes /\ m.requests[k] = KeyOf(m.nonces[k])
              /\ pc[m.nonces[k]] = "written"
              /\ UnitOf[m.nonces[k][1]] = m.unit
              /\ start[m.nonces[k][1]] = m.start
              /\ stamp[m.nonces[k]] <= m.stamp
         /\ \E k \in 1 .. n : stamp[m.nonces[k]] = m.stamp
      BY <3>1, ManifestFacts
    <3> HIDE DEF o, m, n
    <3>3. o.stamp \in Nat /\ m.stamp <= o.stamp /\ stamp[w] <= o.stamp
          /\ (o.stamp = m.stamp \/ o.stamp = stamp[w])
      BY <2>3, <3>1, <3>2, SMTT(30) DEF LargerOf
    <3>4. ASSUME NEW k \in 1 .. n
          PROVE  /\ pc'[o.nonces[k]] = "written" /\ o.requests[k] = KeyOf(o.nonces[k])
                 /\ UnitOf[o.nonces[k][1]] = o.unit /\ start'[o.nonces[k][1]] = o.start
                 /\ stamp'[o.nonces[k]] <= o.stamp
      <4> DEFINE v == m.nonces[k]
      <4>1. /\ o.nonces[k] = v /\ o.requests[k] = KeyOf(v) /\ v \in Writes /\ pc[v] = "written"
            /\ UnitOf[v[1]] = m.unit /\ stamp[v] <= m.stamp /\ stamp[v] \in Nat
        <5>1. v \in Writes /\ pc[v] = "written" /\ UnitOf[v[1]] = m.unit
              /\ stamp[v] <= m.stamp /\ m.requests[k] = KeyOf(v)
          BY <3>2
        <5>2. o.nonces[k] = v /\ o.requests[k] = m.requests[k]
          BY <3>1
        <5>3. stamp[v] \in Nat
          BY <5>1 DEF TypeOK
        <5> HIDE DEF v
        <5> QED BY <5>1, <5>2, <5>3
      <4> HIDE DEF v
      <4>2. v[1] = w[1]
        BY <3>1, <4>1 DEF IdsDiffer
      <4>3. pc'[v] = "written" /\ UnitOf[v[1]] = o.unit /\ start'[v[1]] = o.start
        BY <2>1, <2>2, <2>4, <3>1, <4>1, <4>2
      <4>4. stamp'[v] <= o.stamp
        BY <2>1, <3>2, <3>3, <4>1
      <4> QED BY <4>1, <4>3, <4>4
    <3>5. n + 1 \in 1 .. Len(o.requests)
          /\ \A k \in 1 .. Len(o.requests) : k \in 1 .. n \/ k = n + 1
      BY <3>1
    <3>6. \A k \in 1 .. Len(o.requests) :
             /\ pc'[o.nonces[k]] = "written" /\ o.requests[k] = KeyOf(o.nonces[k])
             /\ UnitOf[o.nonces[k][1]] = o.unit /\ start'[o.nonces[k][1]] = o.start
             /\ stamp'[o.nonces[k]] <= o.stamp
      BY <2>1, <2>2, <2>4, <3>1, <3>3, <3>4, <3>5
    <3>7. \E k \in 1 .. Len(o.requests) : stamp'[o.nonces[k]] = o.stamp
      <4>1. CASE o.stamp = stamp[w]
        BY <2>1, <3>1, <3>5, <4>1
      <4>2. CASE o.stamp = m.stamp
        <5>1. PICK k \in 1 .. n : stamp[m.nonces[k]] = m.stamp
          BY <3>2
        <5>2. k \in 1 .. Len(o.requests)
          BY <3>1
        <5> QED BY <2>1, <3>1, <4>2, <5>1, <5>2
      <4> QED BY <3>3, <4>1, <4>2
    <3>8. o.requests # <<>> /\ Len(o.nonces) = Len(o.requests)
      BY <3>1
    <3> QED BY <2>4, <3>6, <3>7, <3>8 DEF ManifestInv, o
  <2> QED BY <2>5, <2>6
<1>12. ASSUME Crash PROVE ManifestInv'
  <2>1. \A w \in Writes : pc[w] = "written" => pc'[w] = "written"
    BY <1>12 DEF Crash, ServerDies, TypeOK, Ended
  <2> QED BY <1>12, <2>1, ManifestFrame DEF Crash, ServerDies
<1>13. ASSUME UNCHANGED vars PROVE ManifestInv'
  BY <1>13, ManifestFrame DEF vars
<1> QED BY <1>1, <1>2, <1>3, <1>4, <1>5, <1>6, <1>7, <1>8, <1>9, <1>10, <1>11, <1>12, <1>13
        DEF Next, Writer

-----------------------------------------------------------------------------
(* The newest response. *)

LEMMA KeepsFrame ==
  ASSUME NEW r \in Resps, KeepsRun(r), UNCHANGED man,
         \A i \in Prompts : /\ pc'[<<r, i>>] # "skipped"
                            /\ pc'[<<r, i>>] = "written" => pc[<<r, i>>] = "written",
         \A v \in Writes : lock' = v => lock = v \/ v[1] = r \/ ~Owns(r)
  PROVE  KeepsRun(r)'
<1>1. Owns(r)' <=> Owns(r)
  BY DEF Owns
<1>2. \A i \in Prompts : pc'[<<r, i>>] = "written" =>
        Owns(r)' /\ \E k \in 1 .. Len(man'[1].nonces) : man'[1].nonces[k] = <<r, i>>
  BY <1>1 DEF KeepsRun
<1>3. \A w \in Writes : lock' = w /\ Owns(r)' => w[1] = r
  BY <1>1 DEF KeepsRun
<1> QED BY <1>2, <1>3 DEF KeepsRun

LEMMA NewestFrame ==
  ASSUME NewestInv, UNCHANGED man,
         \A r \in Resps : Newest(r)' => Newest(r),
         \A v \in Writes : /\ pc'[v] = "skipped" => pc[v] = "skipped"
                           /\ pc'[v] = "written" => pc[v] = "written"
                           /\ lock' = v => lock = v
  PROVE  NewestInv'
<1> SUFFICES ASSUME NEW r \in Resps, Newest(r)' PROVE KeepsRun(r)'
  BY DEF NewestInv
<1>1. KeepsRun(r)
  BY DEF NewestInv
<1>2. \A i \in Prompts : <<r, i>> \in Writes
  BY Pairs
<1>3. \A i \in Prompts : pc[<<r, i>>] # "skipped"
  BY <1>1 DEF KeepsRun
<1> QED BY <1>1, <1>2, <1>3, KeepsFrame

\* Arrivals and stamps as they are.
LEMMA NewestStays ==
  ASSUME UNCHANGED start, UNCHANGED stamp
  PROVE  \A r \in Resps : Newest(r)' <=> Newest(r)
BY DEF Newest

LEMMA NewestMoves ==
  ASSUME TypeOK, NewestInv, NEW w \in Writes, NEW x \in Stages, pc' = [pc EXCEPT ![w] = x],
         x \notin {"skipped", "written"},
         UNCHANGED start, UNCHANGED stamp, UNCHANGED man, UNCHANGED lock
  PROVE  NewestInv'
<1>1. pc'[w] = x /\ \A v \in Writes : v # w => pc'[v] = pc[v]
  BY PcMoves
<1>2. \A v \in Writes : /\ pc'[v] = "skipped" => pc[v] = "skipped"
                        /\ pc'[v] = "written" => pc[v] = "written"
  BY <1>1
<1> QED BY <1>2, NewestFrame, NewestStays

\* A write of the newest response is not refused as older, and one of another
\* response is refused once the run is the newest one's.
LEMMA NewestIsNotOutdated ==
  ASSUME TypeOK, ClockInv, IdsDiffer, ManifestInv, NEW r \in Resps, Newest(r),
         NEW w \in Writes, Finished(w)
  PROVE  /\ w[1] = r => ~Outdated(w)
         /\ w[1] # r /\ Owns(r) => Outdated(w)
<1>1. /\ start[r] \in Nat /\ start[r] > 0 /\ stamp[w] \in Nat /\ stamp[w] > 0
      /\ start[w[1]] \in Nat /\ start[w[1]] < stamp[w] /\ w[1] \in Resps
      /\ w[1] # r => stamp[w] < start[r]
  BY Pairs DEF ClockInv, TypeOK, Newest, Finished
<1>2. Replaces(w) <=> ~Owns(w[1])
  BY NotReused
<1>3. CASE man = <<>>
  BY <1>3 DEF Outdated, Owns
<1>4. CASE man # <<>>
  <2>1. PICK v \in Writes : /\ pc[v] = "written" /\ UnitOf[v[1]] = man[1].unit
                            /\ start[v[1]] = man[1].start /\ stamp[v] = man[1].stamp
    BY <1>4, ManifestFacts
  <2>2. /\ v[1] \in Resps /\ stamp[v] \in Nat /\ stamp[v] > 0 /\ start[v[1]] \in Nat
        /\ start[v[1]] < stamp[v]
        /\ v[1] # r => stamp[v] < start[r]
    BY <2>1, Pairs DEF ClockInv, TypeOK, Newest
  <2>3. \A s \in Resps : Owns(s) <=> v[1] = s
    BY <1>4, <2>1, <2>2 DEF Owns, IdsDiffer
  <2>4. Outdated(w) <=> IF ~Owns(w[1]) THEN stamp[v] > stamp[w] ELSE stamp[w] < start[v[1]]
    BY <1>2, <1>4, <2>1 DEF Outdated
  <2>5. ASSUME w[1] = r PROVE ~Outdated(w)
    <3>1. CASE v[1] = r
      BY <1>1, <2>2, <2>3, <2>4, <2>5, <3>1
    <3>2. CASE v[1] # r
      BY <1>1, <2>2, <2>3, <2>4, <2>5, <3>2
    <3> QED BY <3>1, <3>2
  <2>6. ASSUME w[1] # r, Owns(r) PROVE Outdated(w)
    <3>1. v[1] = r /\ ~Owns(w[1])
      BY <1>1, <2>3, <2>6
    <3> QED BY <1>1, <2>2, <2>4, <2>6, <3>1
  <2> QED BY <2>5, <2>6
<1> QED BY <1>3, <1>4

LEMMA NewestInit == Init => NewestInv
BY DEF Init, NewestInv, Newest

LEMMA NewestStep ==
  TypeOK /\ HoldInv /\ ClockInv /\ IdsDiffer /\ ManifestInv /\ NewestInv /\ [Next]_vars
    => NewestInv'
<1> SUFFICES ASSUME TypeOK, HoldInv, ClockInv, IdsDiffer, ManifestInv, NewestInv, [Next]_vars
             PROVE  NewestInv'
  OBVIOUS
<1> USE Pairs, StageNames
<1>1. ASSUME NEW r \in Resps, Arrive(r) PROVE NewestInv'
  <2>1. /\ start[r] = 0 /\ start'[r] > 0
        /\ \A s \in Resps : s # r => start'[s] = start[s]
        /\ stamp' = stamp /\ man' = man /\ lock' = lock
        /\ \A w \in Writes : pc'[w] = IF w[1] = r THEN "gen" ELSE pc[w]
        /\ \A w \in Writes : w[1] = r => pc[w] = "new"
    <3>1. start[r] = 0 /\ \A w \in Writes : w[1] = r => pc[w] = "new"
      BY <1>1, ArrivesNew
    <3>2. /\ clock + 1 > 0 /\ start'[r] = clock + 1
          /\ \A s \in Resps : s # r => start'[s] = start[s]
      BY <1>1 DEF Arrive, TypeOK
    <3>3. /\ stamp' = stamp /\ man' = man /\ lock' = lock
          /\ \A w \in Writes : pc'[w] = IF w[1] = r THEN "gen" ELSE pc[w]
      BY <1>1 DEF Arrive
    <3> QED BY <3>1, <3>2, <3>3
  <2>2. ~Owns(r)
    <3>1. CASE man # <<>>
      <4>1. PICK v \in Writes : pc[v] = "written" /\ UnitOf[v[1]] = man[1].unit
        BY <3>1, ManifestFacts
      <4> QED BY <2>1, <3>1, <4>1 DEF Owns, IdsDiffer
    <3> QED BY <3>1 DEF Owns
  <2> SUFFICES ASSUME NEW s \in Resps, Newest(s)' PROVE KeepsRun(s)'
    BY DEF NewestInv
  <2>3. CASE s = r
    <3>1. ~Owns(r)'
      BY <2>1, <2>2 DEF Owns
    <3>2. \A i \in Prompts : pc'[<<r, i>>] = "gen"
      BY <2>1
    <3> QED BY <2>3, <3>1, <3>2 DEF KeepsRun
  <2>4. CASE s # r
    <3>1. Newest(s)
      BY <2>1, <2>4 DEF Newest
    <3>2. KeepsRun(s)
      BY <3>1 DEF NewestInv
    <3>3. \A i \in Prompts : pc'[<<s, i>>] = pc[<<s, i>>] /\ pc[<<s, i>>] # "skipped"
      BY <2>1, <2>4, <3>2 DEF KeepsRun
    <3> QED BY <2>1, <3>2, <3>3, KeepsFrame
  <2> QED BY <2>3, <2>4
<1>2. ASSUME NEW r \in Resps, Abort(r) PROVE NewestInv'
  <2>1. \A w \in Writes : /\ pc'[w] = "skipped" => pc[w] = "skipped"
                          /\ pc'[w] = "written" => pc[w] = "written"
    BY <1>2 DEF Abort, TypeOK
  <2> QED BY <1>2, <2>1, NewestFrame, NewestStays DEF Abort
<1>3. ASSUME NEW r \in Resps, ReadRun(r) PROVE NewestInv'
  BY <1>3, NewestFrame, NewestStays DEF ReadRun
<1>4. ASSUME NEW w \in Writes, Finish(w) PROVE NewestInv'
  <2>1. /\ pc[w] = "gen" /\ pc' = [pc EXCEPT ![w] = "wait"] /\ start' = start /\ man' = man
        /\ lock' = lock /\ stamp'[w] = clock + 1
        /\ \A v \in Writes : v # w => stamp'[v] = stamp[v]
    BY <1>4 DEF Finish, TypeOK
  <2>2. pc'[w] = "wait" /\ \A v \in Writes : v # w => pc'[v] = pc[v]
    BY <2>1, PcMoves
  <2>3. ASSUME NEW r \in Resps, Newest(r)' PROVE Newest(r)
    <3>1. start[r] \in Nat /\ start[r] <= clock /\ clock \in Nat
      BY DEF TypeOK, ClockInv
    <3>2. w[1] = r
      BY <2>1, <2>3, <3>1 DEF Newest
    <3>3. start[r] > 0 /\ \A v \in Writes : v[1] # r => stamp'[v] = stamp[v]
      BY <2>1, <2>3, <3>2 DEF Newest
    <3> QED BY <2>1, <2>3, <3>3 DEF Newest
  <2>4. \A v \in Writes : /\ pc'[v] = "skipped" => pc[v] = "skipped"
                          /\ pc'[v] = "written" => pc[v] = "written"
    BY <2>2
  <2> QED BY <2>1, <2>3, <2>4, NewestFrame
<1>5. ASSUME NEW w \in Writes, Delivered(w) PROVE NewestInv'
  <2>1. /\ pc' = [pc EXCEPT ![w] = "turn"]
        /\ UNCHANGED start /\ UNCHANGED stamp /\ UNCHANGED man /\ UNCHANGED lock
    BY <1>5 DEF Delivered
  <2> QED BY <2>1, NewestMoves, ZenonT(40)
<1>6. ASSUME NEW w \in Writes, NotDelivered(w) PROVE NewestInv'
  <2>1. /\ pc' = [pc EXCEPT ![w] = "failed"]
        /\ UNCHANGED start /\ UNCHANGED stamp /\ UNCHANGED man /\ UNCHANGED lock
    BY <1>6 DEF NotDelivered
  <2> QED BY <2>1, NewestMoves, ZenonT(40)
<1>7. ASSUME NEW w \in Writes, TurnComes(w) PROVE NewestInv'
  <2>1. /\ pc' = [pc EXCEPT ![w] = "ready"]
        /\ UNCHANGED start /\ UNCHANGED stamp /\ UNCHANGED man /\ UNCHANGED lock
    BY <1>7 DEF TurnComes
  <2> QED BY <2>1, NewestMoves, ZenonT(40)
<1>8. ASSUME NEW w \in Writes, TurnTimesOut(w) PROVE NewestInv'
  <2>1. /\ pc' = [pc EXCEPT ![w] = "ready"]
        /\ UNCHANGED start /\ UNCHANGED stamp /\ UNCHANGED man /\ UNCHANGED lock
    BY <1>8 DEF TurnTimesOut
  <2> QED BY <2>1, NewestMoves, ZenonT(40)
<1>10. ASSUME NEW w \in Writes, WriteArtifact(w) PROVE NewestInv'
  <2>1. /\ pc' = [pc EXCEPT ![w] = "wrote"]
        /\ UNCHANGED start /\ UNCHANGED stamp /\ UNCHANGED man /\ UNCHANGED lock
    BY <1>10 DEF WriteArtifact
  <2> QED BY <2>1, NewestMoves, ZenonT(40)
<1>9. ASSUME NEW w \in Writes, LockRun(w) PROVE NewestInv'
  <2>1. /\ pc[w] = "ready" /\ Finished(w) /\ UNCHANGED start /\ UNCHANGED stamp /\ UNCHANGED man
        /\ lock = NoOne
    BY <1>9 DEF LockRun, Finished
  <2>2. \E x \in {"skipped", "failed", "locked"} :
          pc' = [pc EXCEPT ![w] = x] /\ (x = "skipped" => Outdated(w))
    BY <1>9 DEF LockRun
  <2>3. \A v \in Writes : lock' = v => v = w /\ ~Outdated(w)
    BY <1>9 DEF LockRun
  <2>4. PICK x \in {"skipped", "failed", "locked"} :
          pc' = [pc EXCEPT ![w] = x] /\ (x = "skipped" => Outdated(w))
    BY <2>2
  <2>5. pc'[w] = x /\ \A v \in Writes : v # w => pc'[v] = pc[v]
    <3>1. x \in Stages /\ pc' = [pc EXCEPT ![w] = x]
      BY <2>4
    <3> QED BY <3>1, PcMoves
  <2> SUFFICES ASSUME NEW r \in Resps, Newest(r) PROVE KeepsRun(r)'
    <3>1. \A r \in Resps : Newest(r)' <=> Newest(r)
      BY <2>1, NewestStays
    <3> QED BY <3>1 DEF NewestInv
  <2>6. KeepsRun(r)
    BY DEF NewestInv
  <2>7. (w[1] = r => ~Outdated(w)) /\ (w[1] # r /\ Owns(r) => Outdated(w))
    BY <2>1, NewestIsNotOutdated
  <2>8. \A i \in Prompts : pc[<<r, i>>] # "skipped"
    BY <2>6 DEF KeepsRun
  <2>9. \A i \in Prompts : /\ pc'[<<r, i>>] # "skipped"
                           /\ pc'[<<r, i>>] = "written" => pc[<<r, i>>] = "written"
    BY <2>4, <2>5, <2>7, <2>8
  <2>10. \A v \in Writes : lock' = v => v[1] = r \/ ~Owns(r)
    BY <2>3, <2>7
  <2> QED BY <2>1, <2>6, <2>9, <2>10, KeepsFrame
<1>11. ASSUME NEW w \in Writes, WriteManifest(w) PROVE NewestInv'
  <2> DEFINE m == man[1]
             n == Len(m.requests)
             o == man'[1]
  <2>1. /\ pc' = [pc EXCEPT ![w] = "written"] /\ UNCHANGED start /\ UNCHANGED stamp
        /\ lock' = NoOne
    BY <1>11 DEF WriteManifest
  <2>2. pc'[w] = "written" /\ \A v \in Writes : v # w => pc'[v] = pc[v]
    BY <2>1, PcMoves
  <2>3. lock = w
    BY <1>11 DEF WriteManifest, HoldInv
  <2>4. man' # <<>> /\ o.unit = UnitOf[w[1]]
    BY <1>11, ManifestGrows
  <2> SUFFICES ASSUME NEW r \in Resps, Newest(r) PROVE KeepsRun(r)'
    <3>1. \A r \in Resps : Newest(r)' <=> Newest(r)
      BY <2>1, NewestStays
    <3> QED BY <3>1 DEF NewestInv
  <2>5. /\ \A i \in Prompts : pc[<<r, i>>] # "skipped"
        /\ \A i \in Prompts : pc[<<r, i>>] = "written" =>
             Owns(r) /\ \E k \in 1 .. Len(m.nonces) : m.nonces[k] = <<r, i>>
        /\ Owns(r) => w[1] = r
    BY <2>3 DEF NewestInv, KeepsRun
  <2>6. /\ \A i \in Prompts : pc'[<<r, i>>] # "skipped"
        /\ \A i \in Prompts : pc'[<<r, i>>] = "written" =>
             pc[<<r, i>>] = "written" \/ w = <<r, i>>
        /\ \A v \in Writes : lock' # v
    BY <2>1, <2>2, <2>5
  <2>7. ASSUME NEW i \in Prompts, pc'[<<r, i>>] = "written"
        PROVE  Owns(r)' /\ \E k \in 1 .. Len(o.nonces) : o.nonces[k] = <<r, i>>
    <3>1. w[1] = r
      BY <2>5, <2>6, <2>7
    <3>2. Owns(r)'
      BY <2>4, <3>1 DEF Owns
    <3>3. CASE Owns(r)
      <4>1. /\ n \in Nat \ {0} /\ Len(o.nonces) = n + 1 /\ man # <<>>
            /\ \A k \in 1 .. n : o.nonces[k] = m.nonces[k]
            /\ o.nonces[n + 1] = w
        BY <1>11, <3>1, <3>3, ManifestGrows
      <4>2. Len(m.nonces) = n
        BY <4>1, ManifestFacts
      <4> HIDE DEF m, n, o
      <4>3. CASE w = <<r, i>>
        <5>1. n + 1 \in 1 .. Len(o.nonces)
          BY <4>1
        <5> QED BY <3>2, <4>1, <4>3, <5>1
      <4>4. CASE w # <<r, i>>
        <5>1. PICK k \in 1 .. Len(m.nonces) : m.nonces[k] = <<r, i>>
          BY <2>5, <2>6, <2>7, <4>4
        <5>2. k \in 1 .. n /\ k \in 1 .. Len(o.nonces)
          BY <4>1, <4>2, <5>1
        <5> QED BY <3>2, <4>1, <5>1, <5>2
      <4> QED BY <4>3, <4>4
    <3>4. CASE ~Owns(r)
      <4>1. o.nonces = <<w>> /\ w = <<r, i>>
        BY <1>11, <2>5, <2>6, <2>7, <3>1, <3>4, ManifestGrows
      <4> HIDE DEF o
      <4>2. 1 \in 1 .. Len(o.nonces) /\ o.nonces[1] = w
        BY <4>1
      <4> QED BY <3>2, <4>1, <4>2
    <3> QED BY <3>3, <3>4
  <2> QED BY <2>6, <2>7 DEF KeepsRun
<1>12. ASSUME Crash PROVE NewestInv'
  <2>1. \A w \in Writes : /\ pc'[w] = "skipped" => pc[w] = "skipped"
                          /\ pc'[w] = "written" => pc[w] = "written"
    BY <1>12 DEF Crash, ServerDies, TypeOK
  <2> QED BY <1>12, <2>1, NewestFrame, NewestStays DEF Crash, ServerDies
<1>13. ASSUME UNCHANGED vars PROVE NewestInv'
  BY <1>13, NewestFrame, NewestStays DEF vars
<1> QED BY <1>1, <1>2, <1>3, <1>4, <1>5, <1>6, <1>7, <1>8, <1>9, <1>10, <1>11, <1>12, <1>13
        DEF Next, Writer

-----------------------------------------------------------------------------
(* The artifact file. *)

LEMMA Contents ==
  ASSUME TypeOK
  PROVE  Rows \in Seq(Writes) /\ Nonces \in Seq(Writes)
BY DEF Rows, Nonces, TypeOK, Manifests

LEMMA NoRows == RowsAreOf(<<>>, <<>>)
BY DEF RowsAreOf, ToSet

\* A write is appended to the file, if it has rows, and to the manifest.
LEMMA RowsGrow ==
  ASSUME NEW d \in Seq(Writes), NEW n \in Seq(Writes), RowsAreOf(d, n),
         NEW w \in Writes, w \notin ToSet(n)
  PROVE  RowsAreOf(IF w \in Rowless THEN d ELSE Append(d, w), Append(n, w))
<1> DEFINE p == Append(n, w)
<1>1. /\ Len(p) = Len(n) + 1 /\ \A a \in 1 .. Len(n) : p[a] = n[a]
      /\ p[Len(n) + 1] = w /\ DOMAIN p = 1 .. Len(n) + 1
  BY Appended
<1>2. DOMAIN n = 1 .. Len(n) /\ DOMAIN d = 1 .. Len(d) /\ Len(n) \in Nat /\ Len(d) \in Nat
  OBVIOUS
<1> HIDE DEF p
<1>3. ToSet(p) = ToSet(n) \cup {w}
  <2>1. \A a \in DOMAIN p : p[a] \in ToSet(n) \cup {w}
    BY <1>1, <1>2 DEF ToSet
  <2>2. \A a \in DOMAIN n : n[a] = p[a] /\ a \in DOMAIN p
    BY <1>1, <1>2
  <2>3. Len(n) + 1 \in DOMAIN p
    BY <1>1, <1>2
  <2> QED BY <1>1, <2>1, <2>2, <2>3 DEF ToSet
<1>4. /\ ToSet(d) = ToSet(n) \ Rowless
      /\ \A i, j \in DOMAIN d : \A a, b \in DOMAIN n :
           d[i] = n[a] /\ d[j] = n[b] => (i < j <=> a < b)
  BY DEF RowsAreOf
<1>5. \A i \in DOMAIN d : d[i] # w
  BY <1>4 DEF ToSet
<1>6. \A a \in DOMAIN p : \/ a \in DOMAIN n /\ p[a] = n[a]
                          \/ a = Len(n) + 1 /\ p[a] = w
  BY <1>1, <1>2
<1>7. \A a \in DOMAIN n : n[a] # w
  BY DEF ToSet
<1>8. CASE w \in Rowless
  <2>1. ToSet(d) = ToSet(p) \ Rowless
    BY <1>3, <1>4, <1>8
  <2>2. ASSUME NEW i \in DOMAIN d, NEW j \in DOMAIN d, NEW a \in DOMAIN p, NEW b \in DOMAIN p,
               d[i] = p[a], d[j] = p[b]
        PROVE  i < j <=> a < b
    <3>1. a \in DOMAIN n /\ p[a] = n[a] /\ b \in DOMAIN n /\ p[b] = n[b]
      BY <1>5, <1>6, <2>2
    <3> QED BY <1>4, <2>2, <3>1
  <2> QED BY <1>8, <2>1, <2>2 DEF RowsAreOf, p
<1>9. CASE w \notin Rowless
  <2> DEFINE e == Append(d, w)
  <2>1. /\ Len(e) = Len(d) + 1 /\ \A i \in 1 .. Len(d) : e[i] = d[i]
        /\ e[Len(d) + 1] = w /\ DOMAIN e = 1 .. Len(d) + 1
    BY Appended
  <2> HIDE DEF e
  <2>2. \A i \in DOMAIN e : \/ i \in DOMAIN d /\ e[i] = d[i]
                            \/ i = Len(d) + 1 /\ e[i] = w
    BY <1>2, <2>1
  <2>3. ToSet(e) = ToSet(d) \cup {w}
    <3>1. \A i \in DOMAIN e : e[i] \in ToSet(d) \cup {w}
      BY <2>2 DEF ToSet
    <3>2. \A i \in DOMAIN d : d[i] = e[i] /\ i \in DOMAIN e
      BY <1>2, <2>1
    <3>3. Len(d) + 1 \in DOMAIN e
      BY <1>2, <2>1
    <3> QED BY <2>1, <3>1, <3>2, <3>3 DEF ToSet
  <2>4. ToSet(e) = ToSet(p) \ Rowless
    BY <1>3, <1>4, <1>9, <2>3
  <2>5. ASSUME NEW i \in DOMAIN e, NEW j \in DOMAIN e, NEW a \in DOMAIN p, NEW b \in DOMAIN p,
               e[i] = p[a], e[j] = p[b]
        PROVE  i < j <=> a < b
    <3>1. \/ i \in DOMAIN d /\ e[i] = d[i] /\ a \in DOMAIN n /\ p[a] = n[a]
          \/ i = Len(d) + 1 /\ a = Len(n) + 1
      BY <1>5, <1>6, <1>7, <2>2, <2>5
    <3>2. \/ j \in DOMAIN d /\ e[j] = d[j] /\ b \in DOMAIN n /\ p[b] = n[b]
          \/ j = Len(d) + 1 /\ b = Len(n) + 1
      BY <1>5, <1>6, <1>7, <2>2, <2>5
    <3>3. CASE i \in DOMAIN d /\ e[i] = d[i] /\ a \in DOMAIN n /\ p[a] = n[a]
               /\ j \in DOMAIN d /\ e[j] = d[j] /\ b \in DOMAIN n /\ p[b] = n[b]
      BY <1>4, <2>5, <3>3
    <3>4. CASE i = Len(d) + 1 /\ a = Len(n) + 1
      BY <1>2, <3>2, <3>4
    <3>5. CASE j = Len(d) + 1 /\ b = Len(n) + 1
      BY <1>2, <3>1, <3>5
    <3> QED BY <3>1, <3>2, <3>3, <3>4, <3>5
  <2> QED BY <1>9, <2>4, <2>5 DEF RowsAreOf, p, e
<1> QED BY <1>8, <1>9

LEMMA OneWrite ==
  ASSUME NEW w \in Writes
  PROVE  RowsAreOf(IF w \in Rowless THEN <<>> ELSE <<w>>, <<w>>)
<1>1. RowsAreOf(IF w \in Rowless THEN <<>> ELSE Append(<<>>, w), Append(<<>>, w))
  <2>1. <<>> \in Seq(Writes) /\ w \notin ToSet(<<>>)
    BY DEF ToSet
  <2> QED BY <2>1, NoRows, RowsGrow
<1>2. Append(<<>>, w) = <<w>>
  OBVIOUS
<1> QED BY <1>1, <1>2

\* A step that writes neither file.
LEMMA DataFrame ==
  ASSUME DataInv, UNCHANGED man, UNCHANGED data, UNCHANGED torn, late \subseteq late',
         \A w \in Writes : pc'[w] = "wrote" <=> pc[w] = "wrote",
         (\E w \in Writes : pc[w] = "wrote") => UNCHANGED restart,
         \A w \in Writes : Ended(w) => Ended(w)'
  PROVE  DataInv'
<1>1. Rows' = Rows /\ Nonces' = Nonces
  BY DEF Rows, Nonces
<1> QED BY <1>1 DEF DataInv

LEMMA DataMoves ==
  ASSUME TypeOK, DataInv, NEW w \in Writes, NEW x \in Stages, pc' = [pc EXCEPT ![w] = x],
         pc[w] # "wrote", x # "wrote", ~Ended(w), late \subseteq late',
         UNCHANGED man, UNCHANGED data, UNCHANGED torn,
         UNCHANGED restart \/ \A v \in Writes : pc[v] # "wrote"
  PROVE  DataInv'
<1>1. pc'[w] = x /\ \A v \in Writes : v # w => pc'[v] = pc[v]
  BY PcMoves
<1>2. \A v \in Writes : Ended(v) => Ended(v)'
  BY <1>1 DEF Ended
<1> QED BY <1>1, <1>2, DataFrame

LEMMA DataInit == Init => DataInv
<1> SUFFICES ASSUME Init PROVE DataInv
  OBVIOUS
<1>1. Rows = <<>> /\ Nonces = <<>> /\ ~torn /\ \A w \in Writes : pc[w] # "wrote"
  BY DEF Init, Rows, Nonces
<1> QED BY <1>1, NoRows DEF DataInv

\* The write in the files is not listed yet.
LEMMA NotListed ==
  ASSUME TypeOK, ManifestInv, NEW w \in Writes, pc[w] # "written"
  PROVE  w \notin ToSet(Nonces)
<1>1. CASE man = <<>>
  BY <1>1 DEF Nonces, ToSet
<1>2. CASE man # <<>>
  BY <1>2, ManifestFacts DEF Nonces, ToSet
<1> QED BY <1>1, <1>2

\* After a server that died between the two files no write extends the run: the
\* prompts of its response came together and have ended with the server.
LEMMA DataCrash ==
  ASSUME TypeOK, ClockInv, IdsDiffer, ManifestInv, DataInv, Crash
  PROVE  DataInv'
<1>1. \A w \in Writes : \/ pc[w] = "new" /\ pc'[w] = "new"
                        \/ Ended(w) /\ pc'[w] = pc[w]
                        \/ pc'[w] = "failed"
  BY DEF Crash, ServerDies, TypeOK
<1>2. /\ UNCHANGED man /\ UNCHANGED data /\ UNCHANGED late
      /\ ~torn' => ~torn /\ \A w \in Writes : pc[w] # "wrote"
  BY DEF Crash, ServerDies
<1>3. \A w \in Writes : pc'[w] # "wrote"
  BY <1>1 DEF Ended
<1>4. ASSUME man # <<>>, NEW w \in Writes, UnitOf[w[1]] = man[1].unit PROVE Ended(w)'
  <2> DEFINE v == man[1].nonces[1]
  <2>1. v \in Writes /\ pc[v] = "written" /\ UnitOf[v[1]] = man[1].unit
    BY <1>4, ManifestFacts
  <2> HIDE DEF v
  <2>2. v[1] = w[1]
    BY <1>4, <2>1, Pairs DEF IdsDiffer
  <2>3. pc[w] # "new"
    BY <2>1, <2>2 DEF ClockInv
  <2> QED BY <1>1, <2>3 DEF Ended
<1>5. Rows' = Rows /\ Nonces' = Nonces
  BY <1>2 DEF Rows, Nonces
<1>6. /\ ~torn' => RowsAreOf(Rows, Nonces)
      /\ \A a, b \in DOMAIN Nonces :
           a < b /\ Nonces[a] \notin late => Nonces[a][2] < Nonces[b][2]
  BY <1>2 DEF DataInv
<1> QED BY <1>2, <1>3, <1>4, <1>5, <1>6 DEF DataInv

LEMMA DataWritten ==
  ASSUME TypeOK, HoldInv, IdsDiffer, ManifestInv, DataInv, NEW w \in Writes, WriteArtifact(w)
  PROVE  DataInv'
<1>1. /\ pc[w] = "locked" /\ data' = NewData(w) /\ pc' = [pc EXCEPT ![w] = "wrote"]
      /\ UNCHANGED man /\ UNCHANGED torn /\ UNCHANGED late /\ UNCHANGED restart
  BY DEF WriteArtifact
<1>2. pc'[w] = "wrote" /\ \A v \in Writes : v # w => pc'[v] = pc[v]
  BY <1>1, PcMoves, StageNames
<1>3. lock = w /\ \A v \in Writes : pc[v] # "wrote"
  BY <1>1 DEF HoldInv
<1>4. Nonces' = Nonces
  BY <1>1 DEF Nonces
<1>5. RowsAreOf(Rows', Append(IF restart THEN <<>> ELSE Nonces, w))
  <2>1. CASE restart
    <3>1. Rows' = IF w \in Rowless THEN <<>> ELSE <<w>>
      BY <1>1, <2>1 DEF NewData, Rows
    <3>2. Append(<<>>, w) = <<w>>
      OBVIOUS
    <3> QED BY <2>1, <3>1, <3>2, OneWrite
  <2>2. CASE ~restart
    <3>1. man # <<>> /\ man[1].unit = UnitOf[w[1]]
      BY <1>3, <2>2 DEF HoldInv, Replaces, SameUnit
    <3>2. ~torn
      BY <1>1, <3>1 DEF DataInv, Ended
    <3>3. RowsAreOf(Rows, Nonces)
      BY <1>3, <3>2 DEF DataInv
    <3>4. Rows' = IF w \in Rowless THEN Rows ELSE Append(Rows, w)
      BY <1>1, <2>2 DEF NewData, Rows
    <3>5. w \notin ToSet(Nonces)
      BY <1>1, NotListed
    <3> QED BY <2>2, <3>3, <3>4, <3>5, Contents, RowsGrow
  <2> QED BY <2>1, <2>2
<1>6. torn /\ man # <<>> => \A v \in Writes : UnitOf[v[1]] = man[1].unit => Ended(v)'
  BY <1>1, <1>2 DEF DataInv, Ended
<1>7. \A a, b \in DOMAIN Nonces :
        a < b /\ Nonces[a] \notin late => Nonces[a][2] < Nonces[b][2]
  BY DEF DataInv
<1>8. \A v \in Writes : pc'[v] = "wrote" => v = w
  BY <1>2, <1>3
<1> QED BY <1>1, <1>2, <1>4, <1>5, <1>6, <1>7, <1>8 DEF DataInv

LEMMA DataListed ==
  ASSUME TypeOK, HoldInv, IdsDiffer, TurnInv, ManifestInv, DataInv,
         NEW w \in Writes, WriteManifest(w)
  PROVE  DataInv'
<1> DEFINE n == IF restart THEN <<>> ELSE Nonces
<1>1. /\ pc[w] = "wrote" /\ man' = NewManifest(w) /\ ~torn' /\ ~restart'
      /\ pc' = [pc EXCEPT ![w] = "written"]
      /\ UNCHANGED data /\ UNCHANGED late
  BY DEF WriteManifest
<1>2. pc'[w] = "written" /\ \A v \in Writes : v # w => pc'[v] = pc[v]
  BY <1>1, PcMoves, StageNames
<1>3. lock = w /\ \A v \in Writes : pc[v] = "wrote" => v = w
  BY <1>1 DEF HoldInv
<1>4. ~restart => man # <<>> /\ man[1].unit = UnitOf[w[1]]
  BY <1>3 DEF HoldInv, Replaces, SameUnit
<1>5. n \in Seq(Writes)
  BY Contents
<1>6. Nonces' = Append(n, w)
  <2>1. CASE restart
    BY <1>1, <2>1 DEF NewManifest, Nonces
  <2>2. CASE ~restart
    <3>1. man[1] \in Manifests
      BY <1>4, <2>2 DEF TypeOK
    <3>2. man'[1].nonces = Append(man[1].nonces, w) /\ man' # <<>>
      BY <1>1, <2>2, <3>1 DEF NewManifest, Manifests
    <3> QED BY <1>4, <2>2, <3>2 DEF Nonces
  <2> QED BY <2>1, <2>2
<1>7. RowsAreOf(Rows', Nonces')
  <2>1. Rows' = Rows
    BY <1>1 DEF Rows
  <2> QED BY <1>1, <1>6, <2>1 DEF DataInv
<1>8. \A v \in Writes : pc'[v] # "wrote"
  BY <1>2, <1>3
<1>9. ASSUME NEW a \in DOMAIN Nonces', NEW b \in DOMAIN Nonces', a < b, Nonces'[a] \notin late
      PROVE  Nonces'[a][2] < Nonces'[b][2]
  <2>1. /\ Len(n) \in Nat /\ DOMAIN n = 1 .. Len(n) /\ DOMAIN Nonces' = 1 .. Len(n) + 1
        /\ \A c \in 1 .. Len(n) : Nonces'[c] = n[c]
        /\ Nonces'[Len(n) + 1] = w
    BY <1>5, <1>6, Appended
  <2> HIDE DEF n
  <2>2. a \in 1 .. Len(n) /\ Nonces'[a] = n[a] /\ (b \in 1 .. Len(n) \/ b = Len(n) + 1)
    BY <1>9, <2>1
  <2>3. ~restart /\ n = Nonces
    <3>1. n # <<>>
      BY <2>1, <2>2
    <3> QED BY <3>1 DEF n
  <2>4. CASE b \in 1 .. Len(n)
    <3>1. Nonces'[b] = n[b]
      BY <2>1, <2>4
    <3> QED BY <1>9, <2>1, <2>2, <2>3, <2>4, <3>1 DEF DataInv
  <2>5. CASE b = Len(n) + 1
    <3> DEFINE v == Nonces[a]
    <3>1. v \in Writes /\ pc[v] = "written" /\ UnitOf[v[1]] = man[1].unit
      BY <1>4, <2>2, <2>3, ManifestFacts DEF Nonces
    <3>2. v \notin late /\ Nonces'[a] = v /\ Nonces'[b] = w
      BY <1>9, <2>1, <2>2, <2>3, <2>5
    <3> HIDE DEF v
    <3>3. v[1] = w[1] /\ v # w
      BY <1>1, <1>4, <2>3, <3>1, Pairs DEF IdsDiffer
    <3>4. v[2] \in Nat /\ w[2] \in Nat /\ w[2] \in Prompts /\ w = <<v[1], w[2]>> /\ v[2] # w[2]
      BY <3>1, <3>3, Pairs
    <3>5. w[2] < v[2] => Ended(w)
      BY <3>1, <3>2, <3>4 DEF TurnInv, TurnsAreKept
    <3>6. ~Ended(w)
      BY <1>1 DEF Ended
    <3> QED BY <3>2, <3>4, <3>5, <3>6
  <2> QED BY <2>2, <2>4, <2>5
<1> QED BY <1>1, <1>7, <1>8, <1>9 DEF DataInv

LEMMA DataStep ==
  TypeOK /\ HoldInv /\ ClockInv /\ IdsDiffer /\ TurnInv /\ ManifestInv /\ DataInv /\ [Next]_vars
    => DataInv'
<1> SUFFICES ASSUME TypeOK, HoldInv, ClockInv, IdsDiffer, TurnInv, ManifestInv, DataInv,
                    [Next]_vars
             PROVE  DataInv'
  OBVIOUS
<1> USE StageNames
<1>1. ASSUME NEW r \in Resps, Arrive(r) PROVE DataInv'
  <2>1. \A w \in Writes : w[1] = r => pc[w] = "new"
    BY <1>1, ArrivesNew
  <2>2. \A w \in Writes : \/ pc[w] = "new" /\ pc'[w] = "gen"
                          \/ pc'[w] = pc[w]
    BY <1>1, <2>1 DEF Arrive
  <2>3. \A w \in Writes : /\ pc'[w] = "wrote" <=> pc[w] = "wrote"
                          /\ Ended(w) => Ended(w)'
    BY <2>2 DEF Ended
  <2> QED BY <1>1, <2>3, DataFrame DEF Arrive
<1>2. ASSUME NEW r \in Resps, Abort(r) PROVE DataInv'
  <2>1. \A w \in Writes : \/ pc[w] = "gen" /\ pc'[w] = "aborted"
                          \/ pc'[w] = pc[w]
    BY <1>2, Pairs DEF Abort
  <2>2. \A w \in Writes : /\ pc'[w] = "wrote" <=> pc[w] = "wrote"
                          /\ Ended(w) => Ended(w)'
    BY <2>1 DEF Ended
  <2> QED BY <1>2, <2>2, DataFrame DEF Abort
<1>3. ASSUME NEW r \in Resps, ReadRun(r) PROVE DataInv'
  BY <1>3, DataFrame DEF ReadRun, Ended
<1>4. ASSUME NEW w \in Writes, Finish(w) PROVE DataInv'
  <2>1. /\ pc[w] = "gen" /\ pc' = [pc EXCEPT ![w] = "wait"] /\ UNCHANGED late
        /\ UNCHANGED man /\ UNCHANGED data /\ UNCHANGED torn /\ UNCHANGED restart
    BY <1>4 DEF Finish
  <2> QED BY <2>1, DataMoves DEF Ended
<1>5. ASSUME NEW w \in Writes, Delivered(w) PROVE DataInv'
  <2>1. /\ pc[w] = "wait" /\ pc' = [pc EXCEPT ![w] = "turn"] /\ UNCHANGED late
        /\ UNCHANGED man /\ UNCHANGED data /\ UNCHANGED torn /\ UNCHANGED restart
    BY <1>5 DEF Delivered
  <2> QED BY <2>1, DataMoves DEF Ended
<1>6. ASSUME NEW w \in Writes, NotDelivered(w) PROVE DataInv'
  <2>1. /\ pc[w] = "wait" /\ pc' = [pc EXCEPT ![w] = "failed"] /\ UNCHANGED late
        /\ UNCHANGED man /\ UNCHANGED data /\ UNCHANGED torn /\ UNCHANGED restart
    BY <1>6 DEF NotDelivered
  <2> QED BY <2>1, DataMoves DEF Ended
<1>7. ASSUME NEW w \in Writes, TurnComes(w) PROVE DataInv'
  <2>1. /\ pc[w] = "turn" /\ pc' = [pc EXCEPT ![w] = "ready"] /\ UNCHANGED late
        /\ UNCHANGED man /\ UNCHANGED data /\ UNCHANGED torn /\ UNCHANGED restart
    BY <1>7 DEF TurnComes
  <2> QED BY <2>1, DataMoves DEF Ended
<1>8. ASSUME NEW w \in Writes, TurnTimesOut(w) PROVE DataInv'
  <2>1. /\ pc[w] = "turn" /\ pc' = [pc EXCEPT ![w] = "ready"] /\ late \subseteq late'
        /\ UNCHANGED man /\ UNCHANGED data /\ UNCHANGED torn /\ UNCHANGED restart
    BY <1>8 DEF TurnTimesOut
  <2> QED BY <2>1, DataMoves DEF Ended
<1>9. ASSUME NEW w \in Writes, LockRun(w) PROVE DataInv'
  <2>1. PICK x \in {"skipped", "failed", "locked"} : pc' = [pc EXCEPT ![w] = x]
    BY <1>9 DEF LockRun
  <2>2. /\ pc[w] = "ready" /\ lock = NoOne /\ UNCHANGED late
        /\ UNCHANGED man /\ UNCHANGED data /\ UNCHANGED torn
    BY <1>9 DEF LockRun
  <2>3. \A v \in Writes : pc[v] # "wrote"
    BY <2>2, Pairs DEF HoldInv
  <2>4. x \in Stages /\ x # "wrote" /\ ~Ended(w)
    BY <2>2 DEF Ended
  <2> QED BY <2>1, <2>2, <2>3, <2>4, DataMoves
<1>10. ASSUME NEW w \in Writes, WriteArtifact(w) PROVE DataInv'
  BY <1>10, DataWritten
<1>11. ASSUME NEW w \in Writes, WriteManifest(w) PROVE DataInv'
  BY <1>11, DataListed
<1>12. ASSUME Crash PROVE DataInv'
  BY <1>12, DataCrash
<1>13. ASSUME UNCHANGED vars PROVE DataInv'
  BY <1>13, DataFrame DEF vars, Ended
<1> QED BY <1>1, <1>2, <1>3, <1>4, <1>5, <1>6, <1>7, <1>8, <1>9, <1>10, <1>11, <1>12, <1>13
        DEF Next, Writer

-----------------------------------------------------------------------------
(* The theorems. *)

LEMMA InvInit == Init => ArtifactInv
<1> SUFFICES ASSUME Init PROVE ArtifactInv
  OBVIOUS
<1>1. HoldInv
  BY Pairs DEF Init, HoldInv
<1> QED BY <1>1, TypeInit, ClockInit, TurnInit, ManifestInit, NewestInit, DataInit
       DEF ArtifactInv

LEMMA InvStep == ArtifactInv /\ [Next]_vars => ArtifactInv'
<1> SUFFICES ASSUME ArtifactInv, [Next]_vars PROVE ArtifactInv'
  OBVIOUS
<1>1. TypeOK /\ HoldInv /\ ClockInv
  BY DEF ArtifactInv
<1>2. TypeOK' /\ HoldInv' /\ ClockInv'
  BY <1>1, TypeStep, HoldStep, ClockStep
<1>3. ASSUME IdsDiffer PROVE TurnInv' /\ ManifestInv' /\ NewestInv' /\ DataInv'
  <2>1. TurnInv /\ ManifestInv /\ NewestInv /\ DataInv
    BY <1>3 DEF ArtifactInv
  <2> QED BY <1>1, <1>3, <2>1, TurnStep, ManifestStep, NewestStep, DataStep
<1> QED BY <1>2, <1>3 DEF ArtifactInv

\* The invariant that the others rest on: one writer at a time is in the run's files,
\* and where no response id is sent again the manifest is that of one response and
\* the newest response keeps the run.
THEOREM ArtifactInvariant == Spec => []ArtifactInv
BY InvInit, InvStep, PTL DEF Spec

\* Every variable keeps its type; a write that extends the manifest found one.
THEOREM TypeCorrect == Spec => []TypeOK
<1>1. ArtifactInv => TypeOK
  BY DEF ArtifactInv
<1> QED BY <1>1, ArtifactInvariant, PTL

\* No prompt is written before the earlier prompts of its completion have ended
\* their turns, unless it gave up waiting (await_turn).
THEOREM TurnsKept == ASSUME IdsDiffer PROVE Spec => []TurnsAreKept
<1>1. ArtifactInv => TurnsAreKept
  BY DEF ArtifactInv, TurnInv
<1> QED BY <1>1, ArtifactInvariant, PTL

LEMMA NewestHolds ==
  ASSUME IdsDiffer, ArtifactInv, NEW r \in Resps, CameLast(r),
         \A i \in Prompts : Ended(<<r, i>>)
  PROVE  Holds(r)
<1>1. TypeOK /\ ClockInv /\ ManifestInv /\ NewestInv
  BY DEF ArtifactInv
<1>2. Newest(r)
  BY DEF CameLast, Newest
<1>3. KeepsRun(r)
  BY <1>1, <1>2 DEF NewestInv
<1>4. \A i \in Prompts : pc[<<r, i>>] = "written"
  BY <1>3 DEF KeepsRun, CameLast, Ended
<1>5. Owns(r) /\ man # <<>>
  BY <1>3, <1>4, Pairs DEF KeepsRun, Owns
<1> DEFINE m == man[1]
<1>6. \A i \in Prompts : \E k \in 1 .. Len(m.nonces) : m.nonces[k] = <<r, i>>
  BY <1>3, <1>4 DEF KeepsRun
<1>7. /\ DOMAIN m.requests = 1 .. Len(m.nonces) /\ DOMAIN m.nonces = 1 .. Len(m.nonces)
      /\ \A k \in 1 .. Len(m.nonces) : /\ m.nonces[k] \in Writes
                                       /\ m.requests[k] = KeyOf(m.nonces[k])
                                       /\ UnitOf[m.nonces[k][1]] = m.unit
  BY <1>1, <1>5, ManifestFacts
<1>8. m.unit = UnitOf[r]
  BY <1>5 DEF Owns
<1> HIDE DEF m
<1>9. Listed(m) = {KeyOf(<<r, i>>) : i \in Prompts}
  <2>1. ASSUME NEW k \in 1 .. Len(m.nonces)
        PROVE  m.requests[k] \in {KeyOf(<<r, i>>) : i \in Prompts}
    <3> DEFINE v == m.nonces[k]
    <3>1. v \in Writes /\ m.requests[k] = KeyOf(v) /\ UnitOf[v[1]] = UnitOf[r]
      BY <1>7, <1>8
    <3> HIDE DEF v
    <3>2. v[1] = r /\ v[2] \in Prompts /\ v = <<v[1], v[2]>>
      BY <3>1, Pairs DEF IdsDiffer
    <3>3. v = <<r, v[2]>>
      BY <3>2
    <3> QED BY <3>1, <3>2, <3>3
  <2>2. ASSUME NEW i \in Prompts
        PROVE  \E k \in 1 .. Len(m.nonces) : m.requests[k] = KeyOf(<<r, i>>)
    <3>1. PICK k \in 1 .. Len(m.nonces) : m.nonces[k] = <<r, i>>
      BY <1>6
    <3> QED BY <1>7, <3>1
  <2> QED BY <1>7, <2>1, <2>2 DEF Listed
<1>10. \A i \in Prompts : <<r, i>> \in {m.nonces[k] : k \in DOMAIN m.nonces}
  BY <1>6, <1>7
<1> QED BY <1>5, <1>9, <1>10 DEF Holds, m

\* The run is that of the response that came last, whatever older writes are still
\* to come (run_artifact.append).
THEOREM LastResponseHeld == ASSUME IdsDiffer PROVE Spec => []LastResponseIsHeld
<1>1. ArtifactInv => LastResponseIsHeld
  BY NewestHolds DEF LastResponseIsHeld
<1> QED BY <1>1, ArtifactInvariant, PTL
LEMMA ReadIsWhole ==
  ASSUME ArtifactInv, IdsDiffer, NEW r \in Resps, ReadRun(r), ~torn
  PROVE  /\ ToSet(got'[r]) = RowsOf(r) /\ IsInjective(got'[r])
         /\ (\A i \in Prompts : <<r, i>> \notin late) =>
              \A j, k \in DOMAIN got'[r] : j < k => got'[r][j][2] < got'[r][k][2]
<1>1. TypeOK /\ HoldInv /\ ManifestInv /\ DataInv
  BY DEF ArtifactInv
<1>2. got'[r] = Rows
  BY <1>1 DEF ReadRun, TypeOK, Rows
<1>3. lock = NoOne /\ Holds(r)
  BY DEF ReadRun, MayRead
<1>4. RowsAreOf(Rows, Nonces)
  <2>1. \A w \in Writes : pc[w] # "wrote"
    BY <1>1, <1>3, Pairs DEF HoldInv
  <2> QED BY <1>1, <2>1 DEF DataInv
<1>5. /\ man # <<>> /\ Nonces = man[1].nonces /\ Nonces \in Seq(Writes)
      /\ \A i \in Prompts : \E k \in DOMAIN Nonces : Nonces[k] = <<r, i>>
  BY <1>1, <1>3, Contents DEF Holds, Nonces
<1>6. \A k \in DOMAIN Nonces : Nonces[k] \in Writes /\ UnitOf[Nonces[k][1]] = man[1].unit
  BY <1>1, <1>5, ManifestFacts
<1>7. man[1].unit = UnitOf[r]
  <2>1. PICK k \in DOMAIN Nonces : Nonces[k] = <<r, 0>>
    BY <1>5, Pairs
  <2> QED BY <1>6, <2>1, Pairs
<1>8. \A k \in DOMAIN Nonces : Nonces[k][2] \in Prompts /\ Nonces[k] = <<r, Nonces[k][2]>>
  BY <1>6, <1>7, Pairs DEF IdsDiffer
<1>9. ToSet(Nonces) = {<<r, i>> : i \in Prompts}
  <2>1. \A k \in DOMAIN Nonces : Nonces[k] \in {<<r, i>> : i \in Prompts}
    BY <1>8
  <2>2. \A i \in Prompts : <<r, i>> \in ToSet(Nonces)
    BY <1>5 DEF ToSet
  <2> QED BY <2>1, <2>2 DEF ToSet
<1>10. ToSet(Rows) = RowsOf(r)
  BY <1>4, <1>9 DEF RowsAreOf, RowsOf
<1>11. /\ \A j \in DOMAIN Rows : \E a \in DOMAIN Nonces : Rows[j] = Nonces[a]
       /\ \A i, j \in DOMAIN Rows : \A a, b \in DOMAIN Nonces :
            Rows[i] = Nonces[a] /\ Rows[j] = Nonces[b] => (i < j <=> a < b)
  BY <1>4 DEF RowsAreOf, ToSet
<1>12. Rows \in Seq(Writes) /\ \A j \in DOMAIN Rows : j \in Nat
  BY <1>1, Contents
<1>13. IsInjective(Rows)
  <2> SUFFICES ASSUME NEW j \in DOMAIN Rows, NEW k \in DOMAIN Rows, Rows[j] = Rows[k]
               PROVE  j = k
    BY DEF IsInjective
  <2>1. PICK a \in DOMAIN Nonces : Rows[j] = Nonces[a] /\ Rows[k] = Nonces[a]
    BY <1>11
  <2>2. (j < k <=> a < a) /\ (k < j <=> a < a) /\ a \in Nat
    BY <1>5, <1>11, <2>1
  <2> QED BY <1>12, <2>2
<1>14. ASSUME \A i \in Prompts : <<r, i>> \notin late, NEW j \in DOMAIN Rows,
              NEW k \in DOMAIN Rows, j < k
       PROVE  Rows[j][2] < Rows[k][2]
  <2>1. PICK a \in DOMAIN Nonces : Rows[j] = Nonces[a]
    BY <1>11
  <2>2. PICK b \in DOMAIN Nonces : Rows[k] = Nonces[b]
    BY <1>11
  <2>3. a < b
    BY <1>11, <1>14, <2>1, <2>2
  <2>4. Nonces[a] \notin late
    BY <1>8, <1>14
  <2> QED BY <1>1, <2>1, <2>2, <2>3, <2>4 DEF DataInv
<1> QED BY <1>2, <1>10, <1>13, <1>14

\* A client that reads a run gets the rows of its own response, all of them once and
\* in the order of its prompts, however other responses replace the run meanwhile
\* (append, and the shared lock that client.py reads under).
THEOREM ReadersGetTheirs == ASSUME IdsDiffer PROVE Spec => ReaderGetsItsResponse
<1>1. ASSUME ArtifactInv, [Next]_vars, NEW r \in Resps, got'[r] # got[r]
      PROVE  ReadRun(r)
  <2>1. got \in [Resps -> Seq(Writes) \cup {NoOne}]
    BY <1>1 DEF ArtifactInv, TypeOK
  <2>2. ~UNCHANGED got
    BY <1>1
  <2>3. PICK s \in Resps : ReadRun(s)
    BY <1>1, <2>2 DEF Next, Writer, Arrive, Abort, Finish, Delivered, NotDelivered,
       TurnComes, TurnTimesOut, LockRun, WriteArtifact, WriteManifest, Crash, ServerDies, vars
  <2>4. s = r
    BY <1>1, <2>1, <2>3 DEF ReadRun
  <2> QED BY <2>3, <2>4
<1>2. ArtifactInv /\ [Next]_vars =>
        [\A r \in Resps :
           got'[r] # got[r] /\ ~torn =>
             /\ ToSet(got'[r]) = RowsOf(r) /\ IsInjective(got'[r])
             /\ (\A i \in Prompts : <<r, i>> \notin late) =>
                  \A j, k \in DOMAIN got'[r] : j < k => got'[r][j][2] < got'[r][k][2]]_vars
  BY <1>1, ReadIsWhole
<1> QED BY <1>2, ArtifactInvariant, PTL DEF Spec, ReaderGetsItsResponse
=============================================================================
