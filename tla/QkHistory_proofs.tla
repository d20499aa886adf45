-------------------------- MODULE QkHistory_proofs --------------------------
(***************************************************************************)
(* What a client gets of the history of its request, for every prompt,     *)
(* chunking, order of preemptions and way to leave: the keys and queries   *)
(* delivered are exact when no prefix is found cached, an undisturbed      *)
(* request is served, and a request cleared on its way to disk leaves      *)
(* nothing.                                                                *)
(***************************************************************************)
EXTENDS QkHistory, SequenceTheorems, FiniteSetTheorems, TLAPS

-----------------------------------------------------------------------------
(***************************************************************************)
(* The inductive invariant.                                                *)
(***************************************************************************)

\* Rows on their way to where they are kept.
Flow == (IF consumer.at = "rows" THEN <<consumer.item>> ELSE <<>>) \o queue

\* The position after the last one that an item, or a file of keys, holds.
Reach(x) == x.nc + Len(x.k)
LastReach(k) == IF k = <<>> THEN 0 ELSE LastOf(k) + 1

\* The first position whose queries an undisturbed request asks for.
From == IF ask.hooks = "decode" THEN Prompt
        ELSE IF ask.mode = "last_token" THEN Prompt - 1 ELSE 0

GreatestOf(a, b) == IF a >= b THEN a ELSE b

\* The rows of one step: consecutive positions, and the queries it asks for.
ItemOK(x) ==
  /\ x.k = Positions(x.nc, Reach(x)) /\ x.end \in {-1, Reach(x)}
  /\ x.end = -1 => x.q = <<>>
  /\ x.end # -1 => x.q = IF ask.mode = "all_tokens" THEN x.k ELSE <<Reach(x) - 1>>
  /\ preempts = 0 => /\ x.end # -1 <=> Reach(x) > From
                     /\ x.q = Positions(GreatestOf(x.nc, From), Reach(x))

\* After rows up to position r, the last of which kept queries when emits
\* holds: rows x continue them or start anew, and keep theirs if they continue.
Follows(r, emits, x) ==
  /\ x.nc \in {0, r}
  /\ x.nc = r /\ emits /\ ask.mode = "all_tokens" => x.end # -1
  /\ preempts = 0 => x.nc = r

\* ... and so will the rows of the engine's next captured step.
EngineFollows(r, emits) ==
  /\ engine = "running" =>
       /\ computed \in {0, r} \/ (ask.hooks = "prefill" /\ ~Prefilling)
       /\ computed = r /\ emits /\ ask.mode = "all_tokens"
            => ~(ask.hooks = "decode" /\ Prefilling)
  /\ preempts = 0
       => r = IF ask.hooks = "prefill" /\ ~Prefilling THEN Prompt ELSE computed

\* What comes after the first i items on their way.
Continues(r, emits, i) ==
  IF i < Len(Flow) /\ Flow[i + 1].kind = "rows"
  THEN Follows(r, emits, Flow[i + 1]) ELSE EngineFollows(r, emits)

FlowInv == \A i \in 1 .. Len(Flow) :
  Flow[i].kind = "rows"
    => ItemOK(Flow[i]) /\ Continues(Reach(Flow[i]), Flow[i].end # -1, i)

\* The engine: it stops for a client that waits only when it has all tokens,
\* and an undisturbed request computes its prompt, then a token at a time.
EngineInv ==
  /\ client = "waiting" /\ engine # "running" => tokens = goal
  /\ preempts = 0 => /\ prefillLen = Prompt
                     /\ computed < Prompt => tokens = Prompt
                     /\ computed >= Prompt => tokens = computed + 1

\* The finish is the last item, enqueued once.
FinishInv ==
  /\ consumer.at = "finish" => engine = "finished" /\ queue = <<>>
  /\ \A i \in 1 .. Len(queue) :
       queue[i].kind = "finish" => engine = "finished" /\ i = Len(queue)
  /\ engine = "finished" /\ consumer.at = "rows" => queue # <<>>
  /\ engine = "finished" /\ queue # <<>> => queue[Len(queue)].kind = "finish"

\* The drain has met the finish.
Met == engine = "finished" /\ queue = <<>> /\ consumer = Idle

\* A request to disk is routed or marked aborted until its finish is met, and
\* leaves no trace in the host index.
DiskInv == ask.route = "disk" =>
  /\ index = NoEntry /\ kmeta = <<>> /\ ~deliverable /\ ~hostAborted
  /\ IF Met THEN ~routed /\ ~diskAborted /\ ~staging.open ELSE routed \/ diskAborted
  /\ routed /\ consumer.at = "rows" => consumer.disk
  /\ landed # "no" => engine = "finished"
  /\ landed = "landed" /\ client = "waiting" => dest = source

\* A request by RPC is never routed to disk; while its client waits its entry
\* is complete once it is deliverable.
HostInv == ask.route = "rpc" =>
  /\ ~routed /\ ~diskAborted /\ ~consumer.disk /\ ~staging.open
  /\ client = "waiting" =>
       /\ ~hostAborted
       /\ ~Met => kmeta = index.ends /\ ~deliverable

\* Kept rows that hold each position once, in order.
Clean(k) == LastReach(k) = Len(k)

\* What is kept: histories are shorter than the keys once positions are kept
\* again, and exact while none is.
StoreOK(k, q, ends) ==
  /\ ends \in Seq(Nat \ {0})
  /\ LastReach(k) <= Len(k)
  /\ \A i \in 1 .. Len(ends) : ends[i] <= Len(k)
  /\ ~Clean(k) => \A i \in 1 .. Len(ends) : ends[i] < Len(k)
  /\ Clean(k) =>
       /\ k = Positions(0, Len(k))
       /\ \A i \in 1 .. Len(ends) - 1 : ends[i] < ends[i + 1]
       /\ ask.mode = "last_token"
            => Len(q) = Len(ends) /\ \A i \in 1 .. Len(ends) : q[i] = ends[i] - 1
       /\ ask.mode = "all_tokens" /\ ends = <<>> => q = <<>>
       /\ ask.mode = "all_tokens" /\ ends # <<>>
            => /\ LastOf(ends) = Len(k)
               /\ \E f \in 0 .. ends[1] - 1 : q = Positions(f, Len(k))
  /\ preempts = 0 =>
       /\ Clean(k) /\ q = Positions(From, Len(k))
       /\ ends # <<>> <=> Len(k) > From
       /\ ends # <<>> => LastOf(ends) = Len(k)

Emitted(k, ends) == Clean(k) /\ ends # <<>> /\ LastOf(ends) = Len(k)

StoreInv(k, q, ends) ==
  StoreOK(k, q, ends) /\ Continues(LastReach(k), Emitted(k, ends), 0)

\* The entries of a staging name its rows from the first to the last.
Tiled(d) ==
  /\ Len(d.entries) > 0 => /\ d.entries[1].kStart = 0 /\ d.entries[1].qStart = 0
                           /\ d.entries[1].nc = 0
  /\ \A i \in 1 .. Len(d.entries) - 1 :
       /\ d.entries[i + 1].kStart = d.entries[i].kStart + d.entries[i].kRows
       /\ d.entries[i + 1].qStart = d.entries[i].qStart + d.entries[i].qRows
  /\ IF Len(d.entries) = 0 THEN d.k = <<>> /\ d.q = <<>>
     ELSE /\ LastOf(d.entries).kStart + LastOf(d.entries).kRows = Len(d.k)
          /\ LastOf(d.entries).qStart + LastOf(d.entries).qRows = Len(d.q)

\* What is kept is exact wherever it lies: in the host index for a client that
\* waits, in the staging of a request that was not given up, in what was sent.
KeptInv ==
  /\ ask.route = "rpc" /\ client = "waiting"
       => index.nc \in {-1, 0} /\ StoreInv(index.k, index.q, index.ends)
  /\ ask.route = "disk" /\ routed /\ ~diskAborted
       => /\ Tiled(staging) /\ (staging.open <=> staging.entries # <<>>)
          /\ StoreInv(staging.k, staging.q, EndsOf(staging.entries))
  /\ ask.route = "disk" /\ landed # "no"
       => /\ Tiled(source) /\ source.entries # <<>>
          /\ StoreOK(source.k, source.q, EndsOf(source.entries))
          /\ EngineFollows(LastReach(source.k), FALSE)

HistoryInv == EngineInv /\ FlowInv /\ KeptInv

-----------------------------------------------------------------------------
(***************************************************************************)
(* Numbers and positions.                                                  *)
(***************************************************************************)

\* The order of the naturals is well-founded, as a fact about one set.
LEMMA Least ==
  ASSUME NEW T, T \subseteq Nat, T # {}
  PROVE  \E x \in T : \A y \in T : x <= y
<1> DEFINE R == OpToRel(<, Nat)
<1>1. IsWellFoundedOn(R, Nat)
  BY NatLessThanWellFounded, Zenon
<1>2. \A x, y \in Nat : y < x => <<y, x>> \in R
  <2> SUFFICES ASSUME NEW x \in Nat, NEW y \in Nat, y < x PROVE <<y, x>> \in R
    OBVIOUS
  <2>1. R = {ss \in Nat \X Nat : ss[1] < ss[2]}
    BY Zenon DEF OpToRel
  <2> QED BY <2>1
<1> HIDE DEF R
<1>3. \E x \in T : \A y \in T : ~(<<y, x>> \in R)
  BY <1>1, WFMin, Zenon
<1>4. PICK x \in T : \A y \in T : ~(<<y, x>> \in R)
  BY <1>3
<1>5. \A y \in T : ~(y < x)
  BY <1>2, <1>4
<1> QED BY <1>5

LEMMA Constants ==
  /\ Prompt \in Nat \ {0} /\ MaxGen \in Nat \ {0} /\ Chunk \in Nat \ {0}
  /\ Block \in Nat \ {0} /\ MaxPreempts \in Nat
  /\ CacheHits \in BOOLEAN /\ WriteFailures \in BOOLEAN
  /\ \A a \in Asks : /\ a.hooks \in {"prefill", "decode", "both"}
                     /\ a.mode \in {"all_tokens", "last_token"}
                     /\ a.route \in {"rpc", "disk"}
BY QkAssumption DEF Hooks, Modes, Routes

LEMMA PositionsType ==
  ASSUME NEW a \in Nat, NEW b \in Nat
  PROVE  /\ Positions(a, b) \in Rows
         /\ a <= b => Len(Positions(a, b)) = b - a
         /\ b <= a => Len(Positions(a, b)) = 0
         /\ \A i \in 1 .. b - a : Positions(a, b)[i] = a + i - 1
         /\ Positions(a, b) = <<>> <=> b <= a
<1>1. CASE a <= b
  <2>1. b - a \in Nat
    BY <1>1
  <2>2. Positions(a, b) \in [1 .. b - a -> Nat]
    BY DEF Positions
  <2>3. Positions(a, b) \in Seq(Nat) /\ Len(Positions(a, b)) = b - a
    BY <2>1, <2>2
  <2> QED BY <1>1, <2>3 DEF Rows, Positions
<1>2. CASE b < a
  <2>1. 1 .. b - a = {}
    BY <1>2
  <2>2. Positions(a, b) = <<>>
    BY <2>1 DEF Positions
  <2> QED BY <1>2, <2>1, <2>2 DEF Rows
<1> QED BY <1>1, <1>2

LEMMA PositionsAre ==
  ASSUME NEW a \in Nat, NEW b \in Nat, a <= b
  PROVE  /\ Positions(a, b) \in Rows /\ Len(Positions(a, b)) = b - a
         /\ \A i \in 1 .. b - a : Positions(a, b)[i] = a + i - 1
BY PositionsType

LEMMA PositionsEmpty ==
  ASSUME NEW a \in Nat, NEW b \in Nat, b <= a
  PROVE  Positions(a, b) = <<>>
BY PositionsType

\* Files of rows, as sequences of numbers.
LEMMA RowsFacts ==
  ASSUME NEW s \in Rows, NEW t \in Rows
  PROVE  /\ Len(s) \in Nat /\ Len(t) \in Nat
         /\ \A i \in 1 .. Len(s) : s[i] \in Nat
         /\ s # <<>> <=> Len(s) > 0
         /\ s \o t \in Rows /\ Len(s \o t) = Len(s) + Len(t)
         /\ \A i \in 1 .. Len(s) : (s \o t)[i] = s[i]
         /\ \A i \in 1 .. Len(t) : (s \o t)[Len(s) + i] = t[i]
<1>1. s \in Seq(Nat) /\ t \in Seq(Nat)
  BY DEF Rows
<1>2. /\ Len(s) \in Nat /\ Len(t) \in Nat
      /\ \A i \in 1 .. Len(s) : s[i] \in Nat
      /\ s # <<>> <=> Len(s) > 0
  BY <1>1
<1>3. /\ s \o t \in Seq(Nat) /\ Len(s \o t) = Len(s) + Len(t)
      /\ \A i \in 1 .. Len(s) + Len(t) :
           (s \o t)[i] = IF i <= Len(s) THEN s[i] ELSE t[i - Len(s)]
  BY <1>1, ConcatProperties
<1>4. \A i \in 1 .. Len(s) : (s \o t)[i] = s[i]
  BY <1>2, <1>3
<1>5. \A i \in 1 .. Len(t) : (s \o t)[Len(s) + i] = t[i]
  <2> SUFFICES ASSUME NEW i \in 1 .. Len(t) PROVE (s \o t)[Len(s) + i] = t[i]
    OBVIOUS
  <2>1. Len(s) + i \in 1 .. Len(s) + Len(t) /\ ~(Len(s) + i <= Len(s)) /\ (Len(s) + i) - Len(s) = i
    BY <1>2
  <2> QED BY <1>3, <2>1
<1> QED BY <1>2, <1>3, <1>4, <1>5 DEF Rows

LEMMA SameRows ==
  ASSUME NEW s \in Rows, NEW t \in Rows, Len(s) = Len(t),
         \A i \in 1 .. Len(s) : s[i] = t[i]
  PROVE  s = t
BY SeqEqual DEF Rows

LEMMA RowsPiece ==
  ASSUME NEW s \in Rows, NEW m \in Nat, NEW n \in Nat, m <= n, n <= Len(s)
  PROVE  /\ SubSeq(s, m + 1, n) \in Rows /\ Len(SubSeq(s, m + 1, n)) = n - m
         /\ \A i \in 1 .. n - m : SubSeq(s, m + 1, n)[i] = s[m + i]
<1>1. \A i \in m + 1 .. n : s[i] \in Nat
  BY DEF Rows
<1>2. /\ SubSeq(s, m + 1, n) \in Seq(Nat)
      /\ Len(SubSeq(s, m + 1, n)) = IF m + 1 <= n THEN n - (m + 1) + 1 ELSE 0
      /\ \A i \in 1 .. n - (m + 1) + 1 : SubSeq(s, m + 1, n)[i] = s[(m + 1) + i - 1]
  BY <1>1, SubSeqProperties
<1>3. n - (m + 1) + 1 = n - m /\ \A i \in 1 .. n - m : (m + 1) + i - 1 = m + i
  OBVIOUS
<1> QED BY <1>2, <1>3 DEF Rows

\* What a file of consecutive positions is.
LEMMA ArePositions ==
  ASSUME NEW a \in Nat, NEW b \in Nat, a <= b, NEW w \in Rows, Len(w) = b - a,
         \A i \in 1 .. b - a : w[i] = a + i - 1
  PROVE  w = Positions(a, b)
<1> DEFINE u == Positions(a, b)
<1>1. u \in Rows /\ Len(u) = b - a /\ \A i \in 1 .. b - a : u[i] = a + i - 1
  BY PositionsAre, Zenon
<1> HIDE DEF u
<1>2. Len(w) = Len(u) /\ \A i \in 1 .. Len(w) : w[i] = u[i]
  BY <1>1
<1>3. w = u
  BY <1>1, <1>2, SameRows, Zenon
<1> QED BY <1>3 DEF u

\* Consecutive positions after consecutive positions.
LEMMA PositionsConcat ==
  ASSUME NEW a \in Nat, NEW b \in Nat, NEW c \in Nat, a <= b, b <= c
  PROVE  Positions(a, b) \o Positions(b, c) = Positions(a, c)
<1> DEFINE s == Positions(a, b)
           t == Positions(b, c)
           w == s \o t
<1>1. s \in Rows /\ Len(s) = b - a /\ \A i \in 1 .. b - a : s[i] = a + i - 1
  BY PositionsAre, Zenon
<1>2. t \in Rows /\ Len(t) = c - b /\ \A i \in 1 .. c - b : t[i] = b + i - 1
  BY PositionsAre, Zenon
<1> HIDE DEF s, t
<1>3. /\ w \in Rows /\ Len(w) = Len(s) + Len(t)
      /\ \A i \in 1 .. Len(s) : w[i] = s[i]
      /\ \A i \in 1 .. Len(t) : w[Len(s) + i] = t[i]
  BY <1>1, <1>2, RowsFacts, Zenon
<1> HIDE DEF w
<1>4. /\ Len(w) = c - a /\ a <= c
      /\ \A i \in 1 .. b - a : w[i] = a + i - 1
      /\ \A i \in 1 .. c - b : w[(b - a) + i] = b + i - 1
  <2>1. \A i \in 1 .. b - a : w[i] = a + i - 1
    BY <1>1, <1>3, Zenon
  <2>2. \A i \in 1 .. c - b : w[(b - a) + i] = b + i - 1
    BY <1>1, <1>2, <1>3, Zenon
  <2>3. Len(w) = c - a /\ a <= c
    BY <1>1, <1>2, <1>3
  <2> QED BY <2>1, <2>2, <2>3
<1>5. \A i \in 1 .. c - a : w[i] = a + i - 1
  <2> SUFFICES ASSUME NEW i \in 1 .. c - a PROVE w[i] = a + i - 1
    OBVIOUS
  <2>1. CASE i <= b - a
    BY <1>4, <2>1
  <2>2. CASE i > b - a
    <3>1. i - (b - a) \in 1 .. c - b /\ (b - a) + (i - (b - a)) = i
      BY <2>2
    <3>2. w[(b - a) + (i - (b - a))] = b + (i - (b - a)) - 1
      BY <1>4, <3>1, Zenon
    <3> QED BY <3>1, <3>2
  <2> QED BY <2>1, <2>2
<1>6. w = Positions(a, c)
  BY <1>3, <1>4, <1>5, ArePositions, Zenon
<1> QED BY <1>6 DEF w, s, t

\* The last position.
LEMMA PositionsLast ==
  ASSUME NEW a \in Nat, NEW b \in Nat, a < b
  PROVE  LastOf(Positions(a, b)) = b - 1 /\ Positions(a, b) # <<>>
<1> DEFINE s == Positions(a, b)
<1>1. a <= b
  OBVIOUS
<1>2. s \in Rows /\ Len(s) = b - a /\ \A i \in 1 .. b - a : s[i] = a + i - 1
  BY <1>1, PositionsAre, Zenon
<1> HIDE DEF s
<1>3. s[b - a] = b - 1 /\ s # <<>>
  BY <1>2
<1> QED BY <1>2, <1>3 DEF s, LastOf

\* A piece of consecutive positions.
PieceOf(a, c, i, j) ==
  a \in Nat /\ c \in Nat /\ i \in Nat /\ j \in Nat /\ a <= c /\ i <= j /\ j <= c - a

PieceFound(a, c, i, j) == SubSeq(Positions(a, c), i + 1, j) = Positions(a + i, a + j)

LEMMA PieceIs ==
  ASSUME NEW a, NEW c, NEW i, NEW j, PieceOf(a, c, i, j)
  PROVE  PieceFound(a, c, i, j)
<1> SUFFICES ASSUME a \in Nat, c \in Nat, i \in Nat, j \in Nat, a <= c, i <= j, j <= c - a
             PROVE  PieceFound(a, c, i, j)
  BY DEF PieceOf
<1>1. PICK s \in Rows : /\ s = Positions(a, c) /\ Len(s) = c - a
                        /\ \A m \in 1 .. c - a : s[m] = a + m - 1
  BY PositionsAre, Zenon
<1>2. /\ a + i \in Nat /\ a + j \in Nat /\ a + i <= a + j /\ (a + j) - (a + i) = j - i
      /\ j <= Len(s)
  BY <1>1
<1>3. PICK w : w = SubSeq(s, i + 1, j)
  OBVIOUS
<1>4. w \in Rows /\ Len(w) = j - i /\ \A m \in 1 .. j - i : w[m] = s[i + m]
  BY <1>2, <1>3, RowsPiece
<1>5. \A m \in 1 .. j - i : w[m] = (a + i) + m - 1
  <2> SUFFICES ASSUME NEW m \in 1 .. j - i PROVE w[m] = (a + i) + m - 1
    OBVIOUS
  <2>1. i + m \in 1 .. c - a /\ a + (i + m) - 1 = (a + i) + m - 1
    OBVIOUS
  <2>2. w[m] = s[i + m] /\ s[i + m] = a + (i + m) - 1
    BY <1>1, <1>4, <2>1, Zenon
  <2> QED BY <2>1, <2>2, Zenon
<1>6. Len(w) = (a + j) - (a + i) /\ \A m \in 1 .. (a + j) - (a + i) : w[m] = (a + i) + m - 1
  BY <1>2, <1>4, <1>5, Zenon
<1>7. w = Positions(a + i, a + j)
  BY <1>2, <1>4, <1>6, ArePositions, Zenon
<1> QED BY <1>1, <1>3, <1>7, Zenon DEF PieceFound

\* One more position.
LEMMA PositionsOne ==
  ASSUME NEW b \in Nat
  PROVE  Positions(b, b + 1) = <<b>> /\ <<b>> \in Rows /\ Len(<<b>>) = 1
<1>1. <<b>> \in Rows /\ Len(<<b>>) = 1 /\ <<b>>[1] = b
  BY DEF Rows
<1>2. b + 1 \in Nat /\ b <= b + 1 /\ (b + 1) - b = 1 /\ \A i \in 1 .. 1 : b + i - 1 = b /\ i = 1
  OBVIOUS
<1>3. Len(<<b>>) = (b + 1) - b /\ \A i \in 1 .. (b + 1) - b : <<b>>[i] = b + i - 1
  BY <1>1, <1>2
<1>4. <<b>> = Positions(b, b + 1)
  BY <1>1, <1>2, <1>3, ArePositions, Zenon
<1> QED BY <1>1, <1>4

-----------------------------------------------------------------------------
(***************************************************************************)
(* What is defined entry by entry.                                         *)
(***************************************************************************)

EndsTo(es, n, f) ==
  f = [i \in 0 .. n |-> IF i = 0 THEN <<>>
                        ELSE IF es[i].end < 0 THEN f[i - 1]
                        ELSE Append(f[i - 1], es[i].end)]

LEMMA EndsToStep ==
  ASSUME NEW es, NEW n \in Nat, NEW g, EndsTo(es, n, g)
  PROVE  \E h : EndsTo(es, n + 1, h)
<1> DEFINE next == IF es[n + 1].end < 0 THEN g[n] ELSE Append(g[n], es[n + 1].end)
           h == [i \in 0 .. n + 1 |-> IF i = n + 1 THEN next ELSE g[i]]
<1>1. \A i \in 0 .. n : g[i] = IF i = 0 THEN <<>>
                               ELSE IF es[i].end < 0 THEN g[i - 1]
                               ELSE Append(g[i - 1], es[i].end)
  BY DEF EndsTo
<1>2. \A i \in 0 .. n + 1 : h[i] = IF i = 0 THEN <<>>
                                   ELSE IF es[i].end < 0 THEN h[i - 1]
                                   ELSE Append(h[i - 1], es[i].end)
  <2> SUFFICES ASSUME NEW i \in 0 .. n + 1
               PROVE  h[i] = IF i = 0 THEN <<>>
                             ELSE IF es[i].end < 0 THEN h[i - 1]
                             ELSE Append(h[i - 1], es[i].end)
    OBVIOUS
  <2>1. CASE i = n + 1
    <3>1. i # 0 /\ i - 1 \in 0 .. n + 1 /\ i - 1 # n + 1 /\ i - 1 = n
      BY <2>1
    <3>2. h[i] = next /\ h[i - 1] = g[n]
      BY <2>1, <3>1
    <3> HIDE DEF h
    <3> QED BY <2>1, <3>1, <3>2
  <2>2. CASE i # n + 1
    <3>1. h[i] = g[i] /\ i \in 0 .. n
      BY <2>2
    <3>2. i # 0 => h[i - 1] = g[i - 1]
      BY <2>2
    <3> HIDE DEF h
    <3> QED BY <1>1, <3>1, <3>2
  <2> QED BY <2>1, <2>2
<1>3. h = [i \in 0 .. n + 1 |-> IF i = 0 THEN <<>>
                                ELSE IF es[i].end < 0 THEN h[i - 1]
                                ELSE Append(h[i - 1], es[i].end)]
  BY <1>2
<1> QED BY <1>3 DEF EndsTo

LEMMA EndsToExists ==
  ASSUME NEW es, NEW n \in Nat
  PROVE  \E g : EndsTo(es, n, g)
<1> DEFINE Bad == { m \in Nat : ~ \E g : EndsTo(es, m, g) }
<1>1. CASE Bad = {}
  BY <1>1
<1>2. CASE Bad # {}
  <2>1. PICK m \in Bad : \A k \in Bad : m <= k
    BY <1>2, Least
  <2>2. CASE m = 0
    <3>1. EndsTo(es, 0, [i \in 0 .. 0 |-> <<>>])
      BY DEF EndsTo
    <3> QED BY <2>1, <2>2, <3>1
  <2>3. CASE m # 0
    <3>1. m - 1 \in Nat /\ m - 1 \notin Bad
      BY <2>1, <2>3
    <3>2. PICK g : EndsTo(es, m - 1, g)
      BY <3>1
    <3>3. \E h : EndsTo(es, (m - 1) + 1, h)
      BY <3>1, <3>2, EndsToStep
    <3>4. (m - 1) + 1 = m
      BY <2>1
    <3> QED BY <2>1, <3>3, <3>4
  <2> QED BY <2>2, <2>3
<1> QED BY <1>1, <1>2

LEMMA EndsOfIs ==
  ASSUME NEW es, Len(es) \in Nat
  PROVE  \E g : EndsTo(es, Len(es), g) /\ EndsOf(es) = g[Len(es)]
<1> DEFINE g == CHOOSE x : EndsTo(es, Len(es), x)
<1>1. EndsTo(es, Len(es), g)
  BY EndsToExists, Zenon
<1>2. EndsOf(es) = g[Len(es)]
  BY DEF EndsOf, EndsTo
<1> HIDE DEF g
<1> QED BY <1>1, <1>2

\* An entry adds its history length, if it has one.
LEMMA EndsOfAppend ==
  ASSUME NEW S, NEW es \in Seq(S), NEW e \in S
  PROVE  EndsOf(Append(es, e)) = IF e.end < 0 THEN EndsOf(es)
                                 ELSE Append(EndsOf(es), e.end)
<1> DEFINE fs == Append(es, e)
<1>1. PICK n \in Nat : n = Len(es)
  OBVIOUS
<1>2. /\ Len(fs) = n + 1 /\ Len(fs) \in Nat /\ fs[n + 1] = e
      /\ \A i \in 1 .. n : fs[i] = es[i]
  BY <1>1
<1> HIDE DEF fs
<1>3. PICK g : EndsTo(es, n, g) /\ EndsOf(es) = g[n]
  BY <1>1, EndsOfIs
<1>4. PICK h : EndsTo(fs, n + 1, h) /\ EndsOf(fs) = h[n + 1]
  BY <1>2, EndsOfIs
<1>5. \A i \in 0 .. n : g[i] = IF i = 0 THEN <<>>
                               ELSE IF es[i].end < 0 THEN g[i - 1]
                               ELSE Append(g[i - 1], es[i].end)
  BY <1>3 DEF EndsTo
<1>6. \A i \in 0 .. n + 1 : h[i] = IF i = 0 THEN <<>>
                                   ELSE IF fs[i].end < 0 THEN h[i - 1]
                                   ELSE Append(h[i - 1], fs[i].end)
  BY <1>4 DEF EndsTo
<1> DEFINE Bad == { i \in Nat : i <= n /\ g[i] # h[i] }
<1>7. CASE Bad # {}
  <2>1. PICK i \in Bad : \A k \in Bad : i <= k
    BY <1>7, Least
  <2>2. i # 0
    BY <1>5, <1>6, <2>1
  <2>3. i - 1 \in Nat /\ i - 1 <= n /\ i - 1 \notin Bad /\ i \in 1 .. n /\ i \in 0 .. n + 1 /\ i \in 0 .. n
    BY <2>1, <2>2
  <2>4. g[i - 1] = h[i - 1] /\ es[i] = fs[i] /\ g[i] # h[i]
    BY <1>2, <2>1, <2>3
  <2> HIDE DEF Bad
  <2> QED BY <1>5, <1>6, <2>2, <2>3, <2>4
<1>8. CASE Bad = {}
  <2>1. g[n] = h[n]
    BY <1>8
  <2>2. h[n + 1] = IF fs[n + 1].end < 0 THEN h[n] ELSE Append(h[n], fs[n + 1].end)
    <3>1. n + 1 # 0 /\ (n + 1) - 1 = n /\ n + 1 \in 0 .. n + 1
      OBVIOUS
    <3> QED BY <1>6, <3>1
  <2> QED BY <1>2, <1>3, <1>4, <2>1, <2>2 DEF fs
<1> QED BY <1>7, <1>8

LEMMA EndsOfEmpty == EndsOf(<<>>) = <<>>
<1>1. Len(<<>>) = 0 /\ Len(<<>>) \in Nat
  OBVIOUS
<1>2. PICK g : EndsTo(<<>>, 0, g) /\ EndsOf(<<>>) = g[0]
  BY <1>1, EndsOfIs
<1> QED BY <1>2 DEF EndsTo

\* Entries that name a file from its first row to its last name the file.
RowsTo(file, es, start, count, f) ==
  f = [i \in 0 .. Len(es) |->
         IF i = 0 THEN <<>>
         ELSE f[i - 1] \o SubSeq(file, es[i][start] + 1, es[i][start] + es[i][count])]

\* Entry i names the rows from at[i - 1] to at[i].
RowsAt(file, es, start, count, at) ==
  /\ file \in Rows /\ Len(es) \in Nat
  /\ at \in [0 .. Len(es) -> Nat] /\ at[0] = 0 /\ at[Len(es)] = Len(file)
  /\ \A i \in 1 .. Len(es) : at[i - 1] <= at[i] /\ at[i] <= Len(file)
  /\ \A i \in 1 .. Len(es) : es[i][start] = at[i - 1] /\ es[i][start] + es[i][count] = at[i]

LEMMA RowsNamedIs ==
  ASSUME NEW file, NEW es, NEW start, NEW count, NEW at, RowsAt(file, es, start, count, at)
  PROVE  RowsNamed(file, es, start, count) = file
<1>0. /\ file \in Rows /\ Len(es) \in Nat
      /\ at \in [0 .. Len(es) -> Nat] /\ at[0] = 0 /\ at[Len(es)] = Len(file)
      /\ \A i \in 1 .. Len(es) : at[i - 1] <= at[i] /\ at[i] <= Len(file)
      /\ \A i \in 1 .. Len(es) : es[i][start] = at[i - 1] /\ es[i][start] + es[i][count] = at[i]
  BY DEF RowsAt
<1> USE <1>0
<1>1. PICK n \in Nat : n = Len(es)
  OBVIOUS
<1> DEFINE g == [i \in 0 .. n |-> SubSeq(file, 1, at[i])]
<1>2. file \in Seq(Nat) /\ Len(file) \in Nat
  BY DEF Rows
<1>3. g[0] = <<>>
  <2>1. SubSeq(file, 1, 0) = <<>>
    BY SubSeqEmpty
  <2> QED BY <2>1
<1>4. g[n] = file
  <2>1. SubSeq(file, 1, Len(file)) = file
    BY <1>2, SubSeqFull
  <2> QED BY <1>1, <2>1
<1>5. \A i \in 1 .. n : g[i] = g[i - 1] \o SubSeq(file, es[i][start] + 1, es[i][start] + es[i][count])
  <2> SUFFICES ASSUME NEW i \in 1 .. n
               PROVE  g[i] = g[i - 1] \o SubSeq(file, es[i][start] + 1, es[i][start] + es[i][count])
    OBVIOUS
  <2>1. PICK a \in Nat, b \in Nat : a = at[i - 1] /\ b = at[i] /\ a <= b /\ b <= Len(file)
    BY <1>1
  <2>2. SubSeq(file, 1, a) \o SubSeq(file, a + 1, b) = SubSeq(file, 1, b)
    <3>1. 1 \in 1 .. Len(file) + 1 /\ a \in 1 - 1 .. Len(file) /\ b \in a .. Len(file)
      BY <1>2, <2>1
    <3> QED BY <1>2, <3>1, ConcatAdjacentSubSeq
  <2>3. g[i] = SubSeq(file, 1, b) /\ g[i - 1] = SubSeq(file, 1, a)
    <3>1. i \in 0 .. n /\ i - 1 \in 0 .. n
      OBVIOUS
    <3>2. g[i] = SubSeq(file, 1, at[i]) /\ g[i - 1] = SubSeq(file, 1, at[i - 1])
      BY <3>1, Zenon
    <3> QED BY <2>1, <3>2, Zenon
  <2>4. es[i][start] + 1 = a + 1 /\ es[i][start] + es[i][count] = b
    <3>1. es[i][start] = at[i - 1] /\ es[i][start] + es[i][count] = at[i]
      BY <1>1
    <3> QED BY <2>1, <3>1, Zenon
  <2> HIDE DEF g
  <2> QED BY <2>2, <2>3, <2>4
<1> DEFINE h == CHOOSE x : RowsTo(file, es, start, count, x)
<1>6. RowsTo(file, es, start, count, g)
  <2>1. \A i \in 0 .. n : g[i] =
          IF i = 0 THEN <<>>
          ELSE g[i - 1] \o SubSeq(file, es[i][start] + 1, es[i][start] + es[i][count])
    <3> HIDE DEF g
    <3> SUFFICES ASSUME NEW i \in 0 .. n
                 PROVE  g[i] = IF i = 0 THEN <<>>
                        ELSE g[i - 1] \o SubSeq(file, es[i][start] + 1,
                                                es[i][start] + es[i][count])
      OBVIOUS
    <3>1. i = 0 \/ i \in 1 .. n
      OBVIOUS
    <3>2. i \in 1 .. n => i # 0
      OBVIOUS
    <3> QED BY <1>3, <1>5, <3>1, <3>2, Zenon
  <2>2. g = [i \in 0 .. n |-> g[i]]
    OBVIOUS
  <2> HIDE DEF g
  <2>3. g = [i \in 0 .. n |->
               IF i = 0 THEN <<>>
               ELSE g[i - 1] \o SubSeq(file, es[i][start] + 1, es[i][start] + es[i][count])]
    BY <2>1, <2>2
  <2> QED BY <1>1, <2>3 DEF RowsTo
<1>7. RowsTo(file, es, start, count, h)
  BY <1>6, Zenon
<1>8. RowsNamed(file, es, start, count) = h[n]
  BY <1>1 DEF RowsNamed, RowsTo
<1> HIDE DEF g, h
<1>9. /\ h[0] = <<>>
      /\ \A i \in 1 .. n : h[i] = h[i - 1] \o SubSeq(file, es[i][start] + 1, es[i][start] + es[i][count])
  <2>1. \A i \in 0 .. n : h[i] = IF i = 0 THEN <<>>
          ELSE h[i - 1] \o SubSeq(file, es[i][start] + 1, es[i][start] + es[i][count])
    BY <1>1, <1>7 DEF RowsTo
  <2>2. 0 \in 0 .. n /\ \A i \in 1 .. n : i \in 0 .. n /\ i # 0
    OBVIOUS
  <2> QED BY <2>1, <2>2, Zenon
<1> DEFINE Bad == { i \in Nat : i <= n /\ g[i] # h[i] }
<1>10. CASE Bad # {}
  <2>1. PICK i \in Bad : \A k \in Bad : i <= k
    BY <1>10, Least
  <2>2. i # 0
    BY <1>3, <1>9, <2>1
  <2>3. i - 1 \in Nat /\ i - 1 <= n /\ i - 1 \notin Bad /\ i \in 1 .. n
    BY <2>1, <2>2
  <2>4. g[i - 1] = h[i - 1] /\ g[i] # h[i]
    BY <2>1, <2>3
  <2> HIDE DEF Bad
  <2> QED BY <1>5, <1>9, <2>3, <2>4
<1>11. CASE Bad = {}
  <2>1. g[n] = h[n]
    BY <1>11
  <2> QED BY <1>4, <1>8, <2>1
<1> QED BY <1>10, <1>11

SumIs(sizes, n, f) == f = [i \in 0 .. n |-> IF i = 0 THEN 0 ELSE f[i - 1] + sizes[i]]

\* A sum is what adds up step by step.
LEMMA SumToIs ==
  ASSUME NEW sizes, NEW n \in Nat, NEW g \in [0 .. n -> Int], g[0] = 0,
         \A i \in 1 .. n : g[i] = g[i - 1] + sizes[i]
  PROVE  SumTo(sizes, n) = g[n]
<1> DEFINE h == CHOOSE x : SumIs(sizes, n, x)
<1>1. SumIs(sizes, n, g)
  <2>1. \A i \in 0 .. n : g[i] = IF i = 0 THEN 0 ELSE g[i - 1] + sizes[i]
    OBVIOUS
  <2>2. g = [i \in 0 .. n |-> g[i]]
    OBVIOUS
  <2>3. g = [i \in 0 .. n |-> IF i = 0 THEN 0 ELSE g[i - 1] + sizes[i]]
    BY <2>1, <2>2
  <2> QED BY <2>3 DEF SumIs
<1>2. SumIs(sizes, n, h)
  BY <1>1, Zenon
<1>3. SumTo(sizes, n) = h[n]
  BY DEF SumTo, SumIs
<1> HIDE DEF h
<1>4. \A i \in 0 .. n : h[i] = IF i = 0 THEN 0 ELSE h[i - 1] + sizes[i]
  BY <1>2 DEF SumIs
<1> DEFINE Bad == { i \in Nat : i <= n /\ g[i] # h[i] }
<1>5. CASE Bad # {}
  <2>1. PICK i \in Bad : \A k \in Bad : i <= k
    BY <1>5, Least
  <2>2. i # 0
    BY <1>4, <2>1
  <2>3. i - 1 \in Nat /\ i - 1 <= n /\ i - 1 \notin Bad /\ i \in 1 .. n /\ i \in 0 .. n
    BY <2>1, <2>2
  <2>4. g[i - 1] = h[i - 1] /\ g[i] # h[i]
    BY <2>1, <2>3
  <2> HIDE DEF Bad
  <2> QED BY <1>4, <2>2, <2>3, <2>4
<1>6. CASE Bad = {}
  BY <1>3, <1>6
<1> QED BY <1>5, <1>6

QueriesTo(passes, n, f) ==
  f = [i \in 0 .. n |-> IF i = 0 THEN <<>> ELSE f[i - 1] \o passes[i].q]

\* What the passes of an answer hold together.
LEMMA QueriesOfIs ==
  ASSUME NEW passes, NEW n \in Nat, n = Len(passes), NEW g, DOMAIN g = 0 .. n,
         g = [i \in 0 .. n |-> g[i]], g[0] = <<>>,
         \A i \in 1 .. n : g[i] = g[i - 1] \o passes[i].q
  PROVE  QueriesOf(passes) = g[n]
<1> DEFINE h == CHOOSE x : QueriesTo(passes, n, x)
<1>1. QueriesTo(passes, n, g)
  <2>1. \A i \in 0 .. n : g[i] = IF i = 0 THEN <<>> ELSE g[i - 1] \o passes[i].q
    <3>1. \A i \in 0 .. n : i = 0 \/ i \in 1 .. n
      OBVIOUS
    <3>2. \A i \in 1 .. n : i # 0
      OBVIOUS
    <3> QED BY <3>1, <3>2, Zenon
  <2>2. g = [i \in 0 .. n |-> IF i = 0 THEN <<>> ELSE g[i - 1] \o passes[i].q]
    BY <2>1
  <2> QED BY <2>2 DEF QueriesTo
<1>2. QueriesTo(passes, n, h)
  BY <1>1, Zenon
<1>3. QueriesOf(passes) = h[n]
  BY DEF QueriesOf, QueriesTo
<1> HIDE DEF h
<1>4. \A i \in 0 .. n : h[i] = IF i = 0 THEN <<>> ELSE h[i - 1] \o passes[i].q
  BY <1>2 DEF QueriesTo
<1> DEFINE Bad == { i \in Nat : i <= n /\ g[i] # h[i] }
<1>5. CASE Bad # {}
  <2>1. PICK i \in Bad : \A k \in Bad : i <= k
    BY <1>5, Least
  <2>2. i # 0
    BY <1>4, <2>1
  <2>3. i - 1 \in Nat /\ i - 1 <= n /\ i - 1 \notin Bad /\ i \in 1 .. n /\ i \in 0 .. n
    BY <2>1, <2>2
  <2>4. g[i - 1] = h[i - 1] /\ g[i] # h[i]
    BY <2>1, <2>3
  <2>5. h[i] = h[i - 1] \o passes[i].q
    BY <1>4, <2>2, <2>3, Zenon
  <2>6. g[i] = g[i - 1] \o passes[i].q
    BY <2>3, Zenon
  <2> QED BY <2>4, <2>5, <2>6, Zenon
<1>6. CASE Bad = {}
  BY <1>3, <1>6
<1> QED BY <1>5, <1>6

-----------------------------------------------------------------------------
(***************************************************************************)
(* The variables keep their types.                                         *)
(***************************************************************************)

LEMMA Empties ==
  /\ <<>> \in Rows /\ NoStaging \in Stagings /\ NoEntry \in IndexEntries
  /\ NoEntry.nc = -1 /\ NoEntry.k = <<>>
<1>1. <<>> \in Rows
  BY DEF Rows
<1> QED BY <1>1 DEF NoStaging, Stagings, NoEntry, IndexEntries

LEMMA AskIs ==
  ASSUME ask \in Asks
  PROVE  /\ ask.hooks \in {"prefill", "decode", "both"}
         /\ ask.mode \in {"all_tokens", "last_token"}
         /\ ask.route \in {"rpc", "disk"}
BY Constants

LEMMA TypeInit == Init => TypeOK
<1> SUFFICES ASSUME Init PROVE TypeOK
  OBVIOUS
<1>1. EngineType
  BY Constants DEF Init, Cached, EngineType
<1>2. QueueType
  BY DEF Init, QueueType
<1>3. DrainType
  <2>1. /\ index \in IndexEntries /\ staging \in Stagings /\ index.nc = -1 /\ index.k = <<>>
    BY Empties, Zenon DEF Init
  <2>2. /\ routed \in BOOLEAN /\ diskAborted \in BOOLEAN /\ hostAborted \in BOOLEAN
        /\ deliverable \in BOOLEAN
    BY DEF Init
  <2>3. kmeta \in Seq(1 .. goal)
    <3>1. <<>> \in Seq(1 .. goal)
      BY EmptySeq
    <3> QED BY <3>1, Zenon DEF Init
  <2> QED BY <2>1, <2>2, <2>3, Zenon DEF DrainType
<1>4. ClientType
  BY Empties DEF Init, NoAnswer, AnswerKinds, ClientType
<1> QED BY <1>1, <1>2, <1>3, <1>4 DEF TypeOK

\* The rows of a step.
LEMMA RecordType ==
  ASSUME TypeOK, NEW n \in 1 .. Chunk, n <= tokens - computed
  PROVE  /\ RecordOf(n) \in RowItems /\ RecordOf(n).kind = "rows"
         /\ RecordOf(n).k = Positions(computed, computed + n)
         /\ Len(RecordOf(n).k) = n /\ RecordOf(n).nc = computed
         /\ RecordOf(n).end = (IF EmitsQ(n) THEN computed + n ELSE -1)
         /\ RecordOf(n).q = (IF ~EmitsQ(n) THEN <<>>
                             ELSE IF ask.mode = "all_tokens" THEN RecordOf(n).k
                             ELSE <<computed + n - 1>>)
<1>1. /\ computed \in Nat /\ n \in Nat /\ n > 0 /\ computed + n \in 1 .. goal
      /\ computed \in 0 .. goal /\ goal \in Nat /\ (computed + n) - computed = n
      /\ computed + n \in Nat
  BY Constants DEF TypeOK, EngineType
<1> DEFINE k == Positions(computed, computed + n)
           q == IF ~EmitsQ(n) THEN <<>>
                ELSE IF ask.mode = "all_tokens" THEN k ELSE <<LastOf(k)>>
           end == IF EmitsQ(n) THEN computed + n ELSE -1
<1>2. computed <= computed + n /\ computed < computed + n
  BY <1>1
<1>3. k \in Rows /\ Len(k) = n
  BY <1>1, <1>2, PositionsAre
<1>4. k # <<>> /\ LastOf(k) = computed + n - 1
  <2>1. k # <<>> /\ LastOf(k) = (computed + n) - 1
    BY <1>1, <1>2, PositionsLast, Zenon
  <2> HIDE DEF k
  <2> QED BY <1>1, <2>1
<1>5. RecordOf(n) = [kind |-> "rows", k |-> k, q |-> q, nc |-> computed, end |-> end]
  BY DEF RecordOf
<1> HIDE DEF k
<1>6. computed + n - 1 \in Nat
  BY <1>1
<1>7. q \in Rows
  <2>1. <<>> \in Rows /\ <<LastOf(k)>> \in Rows
    BY <1>4, <1>6 DEF Rows
  <2> QED BY <1>3, <2>1
<1>8. q = IF ~EmitsQ(n) THEN <<>>
          ELSE IF ask.mode = "all_tokens" THEN k ELSE <<computed + n - 1>>
  BY <1>4
<1>9. end \in {-1} \cup 1 .. goal
  BY <1>1
<1> HIDE DEF q
<1>10. end = IF EmitsQ(n) THEN computed + n ELSE -1
  OBVIOUS
<1> HIDE DEF end
<1>11. RecordOf(n) \in RowItems
  BY <1>1, <1>3, <1>4, <1>5, <1>7, <1>9 DEF RowItems
<1>12. /\ RecordOf(n).kind = "rows" /\ RecordOf(n).k = k /\ RecordOf(n).nc = computed
       /\ RecordOf(n).q = q /\ RecordOf(n).end = end
  BY <1>5
<1> QED BY <1>3, <1>8, <1>10, <1>11, <1>12 DEF k

\* The sets of records depend on nothing but the goal.
LEMMA SameTypes ==
  ASSUME goal' = goal
  PROVE  RowItems' = RowItems /\ Stagings' = Stagings /\ IndexEntries' = IndexEntries
BY DEF RowItems, Stagings, IndexEntries

LEMMA SameQueueType ==
  ASSUME QueueType, goal' = goal, queue' = queue, consumer' = consumer PROVE QueueType'
BY SameTypes DEF QueueType

LEMMA SameDrainType ==
  ASSUME DrainType, goal' = goal, UNCHANGED drainVars PROVE DrainType'
BY SameTypes DEF DrainType, drainVars

LEMMA SameClientType ==
  ASSUME ClientType, goal' = goal, UNCHANGED <<clientVars, diskVars>> PROVE ClientType'
BY SameTypes DEF ClientType, clientVars, diskVars

LEMMA SameEngineType ==
  ASSUME EngineType, UNCHANGED engineVars PROVE EngineType'
BY DEF EngineType, engineVars

LEMMA TypeStep ==
  ASSUME TypeOK, NEW n \in 1 .. Chunk, Step(n) PROVE TypeOK'
<1> USE DEF Step
<1>1. goal' = goal
  OBVIOUS
<1>2. EngineType'
  BY Constants DEF TypeOK, EngineType
<1>3. QueueType'
  <2>1. RecordOf(n) \in RowItems \cup {FinishItem}
    BY RecordType
  <2>2. queue \in Seq(RowItems \cup {FinishItem})
    BY DEF TypeOK, QueueType
  <2>3. Append(queue, RecordOf(n)) \in Seq(RowItems \cup {FinishItem})
    BY <2>1, <2>2, AppendProperties
  <2>4. queue' \in Seq(RowItems \cup {FinishItem}) /\ consumer' = consumer
    BY <2>2, <2>3
  <2> QED BY <1>1, <2>4, SameTypes DEF TypeOK, QueueType
<1> QED BY <1>1, <1>2, <1>3, SameDrainType, SameClientType DEF TypeOK

LEMMA TypePreempt ==
  ASSUME TypeOK, NEW c \in Cached, Preempt(c) PROVE TypeOK'
<1>1. EngineType'
  BY Constants DEF Preempt, TypeOK, EngineType, Cached
<1> QED BY <1>1, SameQueueType, SameDrainType, SameClientType DEF Preempt, TypeOK

LEMMA TypeEnqueueFinish ==
  ASSUME TypeOK, EnqueueFinish PROVE TypeOK'
<1> USE DEF EnqueueFinish
<1>1. EngineType'
  BY DEF TypeOK, EngineType
<1>2. QueueType'
  <2>1. queue \in Seq(RowItems \cup {FinishItem}) /\ FinishItem \in RowItems \cup {FinishItem}
    BY DEF TypeOK, QueueType
  <2>2. queue' \in Seq(RowItems \cup {FinishItem}) /\ consumer' = consumer
    BY <2>1, AppendProperties
  <2> QED BY <2>2, SameTypes DEF TypeOK, QueueType
<1> QED BY <1>1, <1>2, SameDrainType, SameClientType DEF TypeOK

LEMMA TypeTakeItem ==
  ASSUME TypeOK, TakeItem PROVE TypeOK'
<1> USE DEF TakeItem
<1>1. goal' = goal
  BY DEF engineVars
<1>2. QueueType'
  <2>1. queue \in Seq(RowItems \cup {FinishItem}) /\ routed \in BOOLEAN
    BY DEF TypeOK, QueueType, DrainType
  <2>2. /\ Head(queue) \in RowItems \cup {FinishItem}
        /\ Tail(queue) \in Seq(RowItems \cup {FinishItem})
    BY <2>1, HeadTailProperties
  <2>3. CASE Head(queue) \in RowItems
    <3>1. consumer' \in [at : {"rows"}, item : RowItems, disk : BOOLEAN]
      BY <2>1, <2>3 DEF RowItems
    <3> QED BY <1>1, <2>2, <3>1, SameTypes DEF QueueType
  <2>4. CASE Head(queue) = FinishItem
    <3>1. Head(queue).kind = "finish"
      BY <2>4 DEF FinishItem
    <3>2. consumer' = [at |-> "finish", item |-> FinishItem, disk |-> FALSE]
      BY <2>1, <2>4, <3>1
    <3>3. consumer' \in [at : {"finish"}, item : {FinishItem}, disk : BOOLEAN]
      BY <3>2
    <3> QED BY <1>1, <2>2, <3>3, SameTypes DEF QueueType
  <2> QED BY <2>2, <2>3, <2>4
<1> QED BY <1>1, <1>2, SameEngineType, SameDrainType, SameClientType DEF TypeOK

Entries == [kStart : Nat, kRows : Nat, qStart : Nat, qRows : Nat,
            end : {-1} \cup 1 .. goal, nc : 0 .. goal]

LEMMA ItemType ==
  ASSUME NEW x \in RowItems
  PROVE  /\ x.kind = "rows" /\ x.k \in Rows /\ x.k # <<>> /\ x.q \in Rows
         /\ x.nc \in 0 .. goal /\ x.end \in {-1} \cup 1 .. goal
         /\ Len(x.k) \in Nat /\ Len(x.k) > 0 /\ Len(x.q) \in Nat
<1>1. /\ x.kind = "rows" /\ x.k \in Rows /\ x.k # <<>> /\ x.q \in Rows
      /\ x.nc \in 0 .. goal /\ x.end \in {-1} \cup 1 .. goal
  BY DEF RowItems
<1>2. Len(x.k) \in Nat /\ Len(x.k) > 0 /\ Len(x.q) \in Nat
  BY <1>1, RowsFacts
<1> QED BY <1>1, <1>2

LEMMA StagingType ==
  ASSUME NEW s \in Stagings
  PROVE  /\ s.k \in Rows /\ s.q \in Rows /\ s.open \in BOOLEAN /\ s.entries \in Seq(Entries)
         /\ Len(s.k) \in Nat /\ Len(s.q) \in Nat /\ Len(s.entries) \in Nat
<1>1. s.k \in Rows /\ s.q \in Rows /\ s.open \in BOOLEAN /\ s.entries \in Seq(Entries)
  BY DEF Stagings, Entries
<1>2. Len(s.k) \in Nat /\ Len(s.q) \in Nat
  BY <1>1, RowsFacts
<1> QED BY <1>1, <1>2

\* What the item that the consumer holds is.
LEMMA HeldType ==
  ASSUME QueueType
  PROVE  /\ consumer.at \in {"get", "rows", "finish"}
         /\ consumer.at = "get" <=> consumer = Idle
         /\ consumer.at = "rows" => consumer.item \in RowItems /\ consumer.disk \in BOOLEAN
         /\ consumer.at = "finish" => consumer.item = FinishItem
BY DEF QueueType, Idle

LEMMA IdleType ==
  ASSUME QueueType, goal' = goal, queue' = queue, consumer' = Idle PROVE QueueType'
BY SameTypes DEF QueueType

\* The entry of some rows.
EntryOf(s, x) ==
  [kStart |-> Len(s.k), kRows |-> Len(x.k), qStart |-> Len(s.q), qRows |-> Len(x.q),
   end |-> x.end, nc |-> x.nc]

LEMMA WithRowsType ==
  ASSUME NEW s \in Stagings, NEW x \in RowItems
  PROVE  /\ EntryOf(s, x) \in Entries /\ WithRows(s, x) \in Stagings
         /\ WithRows(s, x).k = s.k \o x.k /\ WithRows(s, x).q = s.q \o x.q
         /\ WithRows(s, x).open = TRUE
         /\ WithRows(s, x).entries = Append(s.entries, EntryOf(s, x))
<1> DEFINE w == WithRows(s, x)
<1>1. w = [k |-> s.k \o x.k, q |-> s.q \o x.q, open |-> TRUE,
           entries |-> Append(s.entries, EntryOf(s, x))]
  BY DEF WithRows, EntryOf
<1>2. s.k \o x.k \in Rows /\ s.q \o x.q \in Rows
  BY StagingType, ItemType, RowsFacts
<1>3. EntryOf(s, x) \in Entries
  <2>1. /\ Len(s.k) \in Nat /\ Len(x.k) \in Nat /\ Len(s.q) \in Nat /\ Len(x.q) \in Nat
        /\ x.end \in {-1} \cup 1 .. goal /\ x.nc \in 0 .. goal
    BY StagingType, ItemType
  <2> QED BY <2>1 DEF EntryOf, Entries
<1>4. Append(s.entries, EntryOf(s, x)) \in Seq(Entries)
  BY <1>3, StagingType, AppendProperties
<1> HIDE DEF w
<1>5. w \in Stagings
  BY <1>1, <1>2, <1>4 DEF Stagings, Entries
<1>6. /\ w.k = s.k \o x.k /\ w.q = s.q \o x.q /\ w.open = TRUE
      /\ w.entries = Append(s.entries, EntryOf(s, x))
  BY <1>1
<1> QED BY <1>3, <1>5, <1>6, Zenon DEF w

LEMMA TypeDemuxToDisk ==
  ASSUME TypeOK, DemuxToDisk PROVE TypeOK'
<1> USE DEF DemuxToDisk
<1>1. goal' = goal /\ consumer.item \in RowItems
  BY HeldType DEF TypeOK, engineVars
<1>2. staging' \in Stagings
  BY <1>1, WithRowsType DEF TypeOK, DrainType
<1>3. DrainType'
  BY <1>1, <1>2, SameTypes DEF TypeOK, DrainType
<1> QED BY <1>1, <1>3, SameEngineType, IdleType, SameClientType DEF TypeOK

LEMMA TypeDiskWriteFails ==
  ASSUME TypeOK, DiskWriteFails PROVE TypeOK'
<1> USE DEF DiskWriteFails
<1>1. goal' = goal /\ consumer.item \in RowItems /\ staging \in Stagings
  BY HeldType DEF TypeOK, engineVars, DrainType
<1>2. staging' \in Stagings
  <2>1. staging.k \o consumer.item.k \in Rows
    BY <1>1, StagingType, ItemType, RowsFacts
  <2> DEFINE k == staging.k \o consumer.item.k
  <2>2. staging' = [staging EXCEPT !.k = k, !.open = TRUE]
    OBVIOUS
  <2>3. k \in Rows
    BY <2>1
  <2> HIDE DEF k
  <2> DEFINE S == Seq(Entries)
  <2>4. Stagings = [k : Rows, q : Rows, open : BOOLEAN, entries : S]
    BY DEF Stagings, Entries
  <2> HIDE DEF S
  <2> QED BY <1>1, <2>2, <2>3, <2>4
<1>3. DrainType'
  BY <1>1, <1>2, SameTypes DEF TypeOK, DrainType
<1> QED BY <1>1, <1>3, SameEngineType, IdleType, SameClientType DEF TypeOK

LEMMA IndexType ==
  ASSUME NEW e \in IndexEntries
  PROVE  /\ e.k \in Rows /\ e.q \in Rows /\ e.ends \in Seq(1 .. goal)
         /\ e.nc \in {-1} \cup 0 .. goal /\ e.finished \in BOOLEAN
BY DEF IndexEntries

LEMMA NotedType ==
  ASSUME NEW e \in IndexEntries, NEW x \in RowItems, NEW ends \in Seq(1 .. goal)
  PROVE  /\ Noted(e, x, ends) \in IndexEntries
         /\ Noted(e, x, ends).k = e.k \o x.k /\ Noted(e, x, ends).q = e.q \o x.q
         /\ Noted(e, x, ends).ends = ends /\ Noted(e, x, ends).finished = e.finished
         /\ Noted(e, x, ends).nc = (IF e.nc = -1 THEN x.nc ELSE e.nc)
         /\ Noted(e, x, ends).nc # -1 /\ Noted(e, x, ends).k # <<>>
<1> DEFINE nc == IF e.nc = -1 THEN x.nc ELSE e.nc
           w == Noted(e, x, ends)
<1>1. w = [k |-> e.k \o x.k, q |-> e.q \o x.q, finished |-> e.finished, ends |-> ends,
           nc |-> nc]
  BY DEF Noted
<1>2. /\ e.k \o x.k \in Rows /\ e.q \o x.q \in Rows /\ e.finished \in BOOLEAN
      /\ Len(e.k \o x.k) = Len(e.k) + Len(x.k) /\ Len(e.k) \in Nat /\ Len(x.k) > 0
      /\ Len(x.k) \in Nat
  BY IndexType, ItemType, RowsFacts
<1>3. e.k \o x.k # <<>>
  BY <1>2, RowsFacts
<1>4. nc \in {-1} \cup 0 .. goal /\ nc # -1
  BY IndexType, ItemType
<1> HIDE DEF w, nc
<1>5. w \in IndexEntries
  BY <1>1, <1>2, <1>4 DEF IndexEntries
<1>6. /\ w.k = e.k \o x.k /\ w.q = e.q \o x.q /\ w.ends = ends
      /\ w.finished = e.finished /\ w.nc = nc
  BY <1>1
<1> QED BY <1>3, <1>4, <1>5, <1>6, Zenon DEF w, nc

LEMMA TypeDemuxToHost ==
  ASSUME TypeOK, DemuxToHost PROVE TypeOK'
<1> USE DEF DemuxToHost
<1>1. goal' = goal /\ consumer.item \in RowItems /\ index \in IndexEntries
      /\ kmeta \in Seq(1 .. goal)
  BY HeldType DEF TypeOK, engineVars, DrainType
<1>2. kmeta' \in Seq(1 .. goal)
  <2>1. CASE IsAborted
    BY <1>1, <2>1
  <2>2. CASE ~IsAborted /\ consumer.item.end >= 0
    <3>1. consumer.item.end \in 1 .. goal
      BY <1>1, <2>2, ItemType
    <3>2. Append(kmeta, consumer.item.end) \in Seq(1 .. goal)
      BY <1>1, <3>1, AppendProperties
    <3> QED BY <2>2, <3>2
  <2>3. CASE ~IsAborted /\ ~(consumer.item.end >= 0)
    BY <1>1, <2>3
  <2> QED BY <2>1, <2>2, <2>3, Zenon
<1>3. index' \in IndexEntries /\ (index'.nc = -1 <=> index'.k = <<>>)
  <2>1. CASE IsAborted
    BY <2>1 DEF TypeOK, DrainType
  <2>2. CASE ~IsAborted
    <3>1. index' = Noted(index, consumer.item, kmeta')
      BY <2>2
    <3> QED BY <1>1, <1>2, <3>1, NotedType
  <2> QED BY <2>1, <2>2
<1>4. DrainType'
  BY <1>1, <1>2, <1>3, SameTypes DEF TypeOK, DrainType
<1> QED BY <1>1, <1>4, SameEngineType, IdleType, SameClientType DEF TypeOK

LEMMA TypeFinishAborted ==
  ASSUME TypeOK, FinishAborted PROVE TypeOK'
<1> USE DEF FinishAborted
<1>1. goal' = goal
  BY DEF engineVars
<1>2. DrainType'
  <2>1. kmeta' \in Seq(1 .. goal)
    BY EmptySeq
  <2>2. staging' \in Stagings
    BY Empties
  <2> QED BY <1>1, <2>1, <2>2, SameTypes DEF TypeOK, DrainType
<1> QED BY <1>1, <1>2, SameEngineType, IdleType, SameClientType DEF TypeOK

LEMMA TypeFinishDisk ==
  ASSUME TypeOK, FinishDisk PROVE TypeOK'
<1> USE DEF FinishDisk
<1>1. goal' = goal
  BY DEF engineVars
<1>2. DrainType'
  BY <1>1, Empties, SameTypes DEF TypeOK, DrainType
<1>3. ClientType'
  BY <1>1, SameTypes DEF TypeOK, ClientType, DrainType, clientVars
<1> QED BY <1>1, <1>2, <1>3, SameEngineType, IdleType DEF TypeOK

LEMMA TypeFinishHost ==
  ASSUME TypeOK, FinishHost PROVE TypeOK'
<1> USE DEF FinishHost
<1>1. goal' = goal
  BY DEF engineVars
<1>2. index' \in IndexEntries /\ (index'.nc = -1 <=> index'.k = <<>>)
  <2>1. CASE hostAborted
    BY <2>1, Empties
  <2>2. CASE ~hostAborted /\ index.nc # -1
    <3>1. index' = [index EXCEPT !.finished = TRUE] /\ index \in IndexEntries
      BY <2>2 DEF TypeOK, DrainType
    <3>2. index' \in IndexEntries /\ index'.nc = index.nc /\ index'.k = index.k
      BY <3>1 DEF IndexEntries
    <3> QED BY <3>2 DEF TypeOK, DrainType
  <2>3. CASE ~hostAborted /\ ~(index.nc # -1)
    BY <2>3 DEF TypeOK, DrainType
  <2> QED BY <2>1, <2>2, <2>3
<1>3. kmeta' \in Seq(1 .. goal)
  BY EmptySeq DEF TypeOK, DrainType
<1>4. DrainType'
  BY <1>1, <1>2, <1>3, SameTypes DEF TypeOK, DrainType
<1> QED BY <1>1, <1>4, SameEngineType, IdleType, SameClientType DEF TypeOK

LEMMA SameDrainButClears ==
  ASSUME TypeOK, goal' = goal, staging' = staging, kmeta' = kmeta,
         routed' \in BOOLEAN, diskAborted' \in BOOLEAN, hostAborted' \in BOOLEAN,
         deliverable' \in BOOLEAN, index' = index \/ index' = NoEntry
  PROVE  DrainType'
BY Empties, SameTypes DEF TypeOK, DrainType

LEMMA TypeTransfer ==
  ASSUME TypeOK, Transfer PROVE TypeOK'
<1> USE DEF Transfer
<1>1. goal' = goal
  BY DEF engineVars
<1>2. ClientType'
  BY <1>1, SameTypes DEF TypeOK, ClientType, clientVars
<1> QED BY <1>1, <1>2, SameEngineType, SameQueueType, SameDrainType DEF TypeOK

\* Whatever is assembled is one of the kinds of answers.
LEMMA ProbesKind ==
  ASSUME NEW q, NEW kAll, NEW k
  PROVE  Probes(q, kAll, k).kind \in {"probes", "refused", "nothing"}
BY DEF Probes, Nothing, Refused, Served

LEMMA AssembleKind ==
  ASSUME NEW e
  PROVE  Assemble(e).kind \in {"probes", "refused", "nothing"}
BY ProbesKind DEF Assemble, Nothing, Refused

LEMMA LoadKind ==
  ASSUME NEW d
  PROVE  LoadArtifact(d).kind \in {"probes", "refused", "nothing"}
BY ProbesKind DEF LoadArtifact, Refused

LEMMA TypeFetch ==
  ASSUME TypeOK, Fetch PROVE TypeOK'
<1> USE DEF Fetch
<1>1. goal' = goal
  BY DEF engineVars
<1>2. DrainType'
  BY <1>1, SameDrainButClears DEF TypeOK, DrainType
<1>3. FetchedStash.kind \in AnswerKinds
  BY AssembleKind DEF FetchedStash, AnswerKinds, TypeOK, ClientType
<1>4. NoAnswer.kind \in AnswerKinds
  BY DEF NoAnswer, AnswerKinds
<1>5. ClientType'
  <2>1. answer'.kind \in AnswerKinds /\ stash'.kind \in AnswerKinds
    BY <1>3, <1>4
  <2>2. landed' = landed /\ source' = source /\ dest' = dest /\ client' = "clearing"
    BY DEF diskVars
  <2> QED BY <1>1, <2>1, <2>2, SameTypes DEF TypeOK, ClientType, AnswerKinds
<1> QED BY <1>1, <1>2, <1>5, SameEngineType, SameQueueType DEF TypeOK

LEMMA TypeConfirm ==
  ASSUME TypeOK, Confirm PROVE TypeOK'
<1> USE DEF Confirm
<1>1. goal' = goal
  BY DEF engineVars
<1>2. answer'.kind \in AnswerKinds
  BY LoadKind DEF AnswerKinds
<1>3. ClientType'
  BY <1>1, <1>2, Empties, SameTypes DEF TypeOK, ClientType, AnswerKinds
<1> QED BY <1>1, <1>3, SameEngineType, SameQueueType, SameDrainType DEF TypeOK

LEMMA TypeWaitTimesOut ==
  ASSUME TypeOK, WaitTimesOut PROVE TypeOK'
<1> USE DEF WaitTimesOut
<1>1. goal' = goal
  BY DEF engineVars
<1>2. answer'.kind \in AnswerKinds
  BY DEF AnswerKinds, TimedOut
<1>3. ClientType'
  BY <1>1, <1>2, Empties, SameTypes DEF TypeOK, ClientType, AnswerKinds
<1> QED BY <1>1, <1>3, SameEngineType, SameQueueType, SameDrainType DEF TypeOK

LEMMA TypeAbort ==
  ASSUME TypeOK, Abort PROVE TypeOK'
<1> USE DEF Abort
<1>1. goal' = goal
  OBVIOUS
<1>2. EngineType'
  BY DEF TypeOK, EngineType
<1>3. ClientType'
  BY <1>1, SameTypes DEF TypeOK, ClientType, diskVars
<1> QED BY <1>1, <1>2, <1>3, SameQueueType, SameDrainType DEF TypeOK

LEMMA TypeClear ==
  ASSUME TypeOK, ClearDisk \/ MarkHost \/ FreeHost PROVE TypeOK'
<1> USE DEF ClearDisk, MarkHost, FreeHost
<1>1. goal' = goal /\ UNCHANGED engineVars /\ queue' = queue /\ consumer' = consumer
  BY DEF engineVars
<1>2. DrainType'
  <2>1. /\ routed' \in BOOLEAN /\ diskAborted' \in BOOLEAN /\ hostAborted' \in BOOLEAN
        /\ deliverable' \in BOOLEAN
    BY DEF TypeOK, DrainType
  <2>2. staging' = staging /\ kmeta' = kmeta /\ (index' = index \/ index' = NoEntry)
    OBVIOUS
  <2> QED BY <1>1, <2>1, <2>2, SameDrainButClears
<1>3. ClientType'
  BY <1>1, SameTypes DEF TypeOK, ClientType, diskVars, NoAnswer, AnswerKinds
<1> QED BY <1>1, <1>2, <1>3, SameEngineType, SameQueueType DEF TypeOK

LEMMA TypeNext == TypeOK /\ [Next]_vars => TypeOK'
<1> SUFFICES ASSUME TypeOK, [Next]_vars PROVE TypeOK'
  OBVIOUS
<1>1. CASE UNCHANGED vars
  <2>1. /\ UNCHANGED engineVars /\ goal' = goal /\ queue' = queue /\ consumer' = consumer
        /\ UNCHANGED drainVars /\ UNCHANGED <<clientVars, diskVars>>
    BY <1>1 DEF vars, engineVars, drainVars, clientVars, diskVars
  <2> QED BY <2>1, SameEngineType, SameQueueType, SameDrainType, SameClientType DEF TypeOK
<1>2. CASE Engine
  BY <1>2, TypeStep, TypePreempt, TypeEnqueueFinish, Zenon DEF Engine
<1>3. CASE Consumer
  BY <1>3, TypeTakeItem, TypeDemuxToDisk, TypeDiskWriteFails, TypeDemuxToHost,
     TypeFinishAborted, TypeFinishDisk, TypeFinishHost, Zenon DEF Consumer
<1>4. CASE Transfer
  BY <1>4, TypeTransfer, Zenon
<1>5. CASE Client
  BY <1>5, TypeFetch, TypeConfirm, TypeWaitTimesOut, TypeAbort, TypeClear, Zenon DEF Client
<1> QED BY <1>1, <1>2, <1>3, <1>4, <1>5, Zenon DEF Next

\* The request, what is kept of it and what its client gets stay well formed,
\* and no history that aperture_drain_qk.py records is longer than the request.
THEOREM HistoryTypes == Spec => []TypeOK
BY TypeInit, TypeNext, PTL DEF Spec

-----------------------------------------------------------------------------
(***************************************************************************)
(* The finish comes last and once, and a request to disk leaves nothing.   *)
(***************************************************************************)

Item == RowItems \cup {FinishItem}

LEMMA ItemKind ==
  ASSUME NEW x \in Item
  PROVE  /\ x.kind \in {"rows", "finish"}
         /\ x.kind = "rows" => x \in RowItems
         /\ x.kind = "finish" => x = FinishItem
BY DEF Item, RowItems, FinishItem

LEMMA QueueFacts ==
  ASSUME QueueType
  PROVE  /\ queue \in Seq(Item) /\ Len(queue) \in Nat
         /\ \A i \in 1 .. Len(queue) : queue[i] \in Item
         /\ queue # <<>> <=> Len(queue) > 0
BY DEF QueueType, Item

LEMMA Appended ==
  ASSUME QueueType, NEW x \in Item, queue' = Append(queue, x)
  PROVE  /\ Len(queue') = Len(queue) + 1 /\ queue'[Len(queue) + 1] = x
         /\ \A i \in 1 .. Len(queue) : queue'[i] = queue[i]
         /\ queue' # <<>> /\ Len(queue) \in Nat
<1>1. queue \in Seq(Item) /\ Len(queue) \in Nat
  BY QueueFacts
<1>2. queue' \in Seq(Item) /\ Len(queue') = Len(queue) + 1
  BY <1>1, AppendProperties
<1>3. \A i \in 1 .. Len(queue) + 1 :
        queue'[i] = IF i <= Len(queue) THEN queue[i] ELSE x
  BY <1>1
<1>4. queue' # <<>>
  BY <1>1, <1>2
<1> QED BY <1>1, <1>2, <1>3, <1>4

LEMMA Taken ==
  ASSUME QueueType, queue # <<>>, queue' = Tail(queue)
  PROVE  /\ Head(queue) = queue[1] /\ queue[1] \in Item
         /\ Len(queue) \in Nat /\ Len(queue) > 0 /\ Len(queue') = Len(queue) - 1
         /\ \A i \in 1 .. Len(queue) - 1 : queue'[i] = queue[i + 1]
         /\ queue' = <<>> <=> Len(queue) = 1
<1>1. queue \in Seq(Item) /\ Len(queue) \in Nat /\ Len(queue) > 0
  BY QueueFacts
<1>2. /\ Tail(queue) \in Seq(Item) /\ Len(Tail(queue)) = Len(queue) - 1
      /\ \A i \in 1 .. Len(Tail(queue)) : Tail(queue)[i] = queue[i + 1]
  BY <1>1, HeadTailProperties
<1>3. Tail(queue) = <<>> <=> Len(Tail(queue)) = 0
  <2> DEFINE t == Tail(queue)
  <2>1. t \in Seq(Item)
    BY <1>2
  <2> HIDE DEF t
  <2>2. t = <<>> <=> Len(t) = 0
    BY <2>1
  <2> QED BY <2>2 DEF t
<1>4. Head(queue) = queue[1] /\ queue[1] \in Item
  BY <1>1
<1> QED BY <1>1, <1>2, <1>3, <1>4

LEMMA FinishSame ==
  ASSUME FinishInv, queue' = queue, consumer' = consumer \/ consumer' = Idle,
         engine' = "finished" <=> engine = "finished"
  PROVE  FinishInv'
BY DEF FinishInv, Idle

LEMMA FinishInit == Init => FinishInv
<1> SUFFICES ASSUME Init PROVE FinishInv
  OBVIOUS
<1>1. queue = <<>> /\ consumer.at = "get" /\ engine = "running"
  BY DEF Init, Idle
<1>2. 1 .. Len(queue) = {}
  BY <1>1
<1> QED BY <1>1, <1>2 DEF FinishInv

LEMMA FinishNext == TypeOK /\ FinishInv /\ [Next]_vars => FinishInv'
<1> SUFFICES ASSUME TypeOK, FinishInv, [Next]_vars PROVE FinishInv'
  OBVIOUS
<1>1. QueueType
  BY DEF TypeOK
<1>2. CASE UNCHANGED vars
  BY <1>2, FinishSame DEF vars, engineVars
<1>3. ASSUME NEW n \in 1 .. Chunk, Step(n) PROVE FinishInv'
  <2>1. engine = "running" /\ engine' # "finished" /\ consumer' = consumer
    BY <1>3 DEF Step
  <2>2. CASE queue' = queue
    BY <2>1, <2>2, FinishSame
  <2>3. CASE queue' = Append(queue, RecordOf(n))
    <3>1. RecordOf(n) \in Item /\ RecordOf(n).kind = "rows"
      BY <1>3, RecordType DEF Step, Item
    <3>2. /\ Len(queue') = Len(queue) + 1 /\ queue'[Len(queue) + 1] = RecordOf(n)
          /\ \A i \in 1 .. Len(queue) : queue'[i] = queue[i]
          /\ Len(queue) \in Nat
      BY <1>1, <2>3, <3>1, Appended
    <3>3. \A i \in 1 .. Len(queue') : queue'[i].kind # "finish"
      BY <2>1, <3>1, <3>2 DEF FinishInv
    <3> QED BY <2>1, <3>3 DEF FinishInv
  <2> QED BY <1>3, <2>2, <2>3 DEF Step
<1>4. ASSUME NEW c \in Cached, Preempt(c) PROVE FinishInv'
  BY <1>4, FinishSame DEF Preempt
<1>5. CASE EnqueueFinish
  <2>1. engine = "stopped" /\ engine' = "finished" /\ consumer' = consumer
        /\ queue' = Append(queue, FinishItem)
    BY <1>5 DEF EnqueueFinish
  <2>2. FinishItem \in Item /\ FinishItem.kind = "finish"
    BY DEF Item, FinishItem
  <2>3. /\ Len(queue') = Len(queue) + 1 /\ queue'[Len(queue) + 1] = FinishItem
        /\ \A i \in 1 .. Len(queue) : queue'[i] = queue[i]
        /\ Len(queue) \in Nat /\ queue' # <<>>
    BY <1>1, <2>1, <2>2, Appended
  <2>4. \A i \in 1 .. Len(queue') : queue'[i].kind = "finish" => i = Len(queue')
    <3>1. \A i \in 1 .. Len(queue) : queue'[i].kind # "finish"
      BY <2>1, <2>3 DEF FinishInv
    <3>2. \A i \in 1 .. Len(queue') : i \in 1 .. Len(queue) \/ i = Len(queue')
      BY <2>3
    <3> QED BY <3>1, <3>2, Zenon
  <2>5. queue'[Len(queue')].kind = "finish"
    BY <2>2, <2>3, Zenon
  <2> QED BY <2>1, <2>3, <2>4, <2>5 DEF FinishInv
<1>6. CASE TakeItem
  <2>1. /\ queue # <<>> /\ queue' = Tail(queue) /\ engine' = engine
        /\ consumer' = [at |-> Head(queue).kind, item |-> Head(queue),
                        disk |-> routed /\ Head(queue).kind = "rows"]
    BY <1>6 DEF TakeItem, engineVars
  <2>2. /\ Head(queue) = queue[1] /\ queue[1] \in Item
        /\ Len(queue) \in Nat /\ Len(queue) > 0 /\ Len(queue') = Len(queue) - 1
        /\ \A i \in 1 .. Len(queue) - 1 : queue'[i] = queue[i + 1]
        /\ queue' = <<>> <=> Len(queue) = 1
    BY <1>1, <2>1, Taken
  <2>3. queue[1].kind \in {"rows", "finish"} /\ consumer'.at = queue[1].kind
    BY <2>1, <2>2, ItemKind
  <2>4. queue[1].kind = "finish" => engine = "finished" /\ Len(queue) = 1
    BY <2>2 DEF FinishInv
  <2>5. \A i \in 1 .. Len(queue') :
          queue'[i].kind = "finish" => engine = "finished" /\ i = Len(queue')
    <3> SUFFICES ASSUME NEW i \in 1 .. Len(queue'), queue'[i].kind = "finish"
                 PROVE  engine = "finished" /\ i = Len(queue')
      OBVIOUS
    <3>1. i + 1 \in 1 .. Len(queue) /\ queue[i + 1].kind = "finish"
      BY <2>2
    <3>2. engine = "finished" /\ i + 1 = Len(queue)
      BY <3>1 DEF FinishInv
    <3> QED BY <2>2, <3>2
  <2>6. engine = "finished" => queue[Len(queue)].kind = "finish"
    BY <2>1 DEF FinishInv
  <2>7. engine = "finished" /\ queue' # <<>> => queue'[Len(queue')].kind = "finish"
    <3>1. queue' # <<>> => Len(queue') \in 1 .. Len(queue) - 1
      BY <2>2
    <3>2. queue' # <<>> => queue'[Len(queue')] = queue[Len(queue)]
      BY <2>2, <3>1
    <3> QED BY <2>6, <3>2
  <2>8. engine = "finished" /\ queue[1].kind = "rows" => queue' # <<>>
    BY <2>2, <2>6
  <2>9. queue[1].kind = "finish" => queue' = <<>>
    BY <2>2, <2>4
  <2>10. engine' = engine /\ consumer'.at = queue[1].kind
    BY <2>1, <2>3
  <2> QED BY <2>4, <2>5, <2>7, <2>8, <2>9, <2>10, Zenon DEF FinishInv
<1>7. CASE DemuxToDisk \/ DiskWriteFails \/ DemuxToHost \/ FinishAborted \/ FinishDisk
           \/ FinishHost
  <2>1. queue' = queue /\ consumer' = Idle /\ engine' = engine
    BY <1>7 DEF DemuxToDisk, DiskWriteFails, DemuxToHost, FinishAborted, FinishDisk,
                FinishHost, engineVars
  <2> QED BY <2>1, FinishSame
<1>8. CASE Transfer \/ Fetch \/ Confirm \/ WaitTimesOut \/ ClearDisk \/ MarkHost \/ FreeHost
  <2>1. queue' = queue /\ consumer' = consumer /\ engine' = engine
    BY <1>8 DEF Transfer, Fetch, Confirm, WaitTimesOut, ClearDisk, MarkHost, FreeHost,
                engineVars
  <2> QED BY <2>1, FinishSame
<1>9. CASE Abort
  <2>1. queue' = queue /\ consumer' = consumer /\ (engine' = "finished" <=> engine = "finished")
    BY <1>9 DEF Abort
  <2> QED BY <2>1, FinishSame
<1> QED BY <1>2, <1>3, <1>4, <1>5, <1>6, <1>7, <1>8, <1>9, Zenon
        DEF Next, Engine, Consumer, Client

LEMMA DiskInit == Init => DiskInv
<1> SUFFICES ASSUME Init, ask.route = "disk" PROVE DiskInv
  BY DEF DiskInv
<1>1. /\ index = NoEntry /\ kmeta = <<>> /\ ~deliverable /\ ~hostAborted
      /\ routed /\ landed = "no" /\ consumer.at = "get" /\ engine = "running"
  BY DEF Init, Idle
<1>2. ~Met
  BY <1>1 DEF Met
<1> QED BY <1>1, <1>2 DEF DiskInv

\* The drain has met the finish before and after, or neither.
LEMMA MetSame ==
  ASSUME queue' = queue, consumer' = consumer, engine' = "finished" <=> engine = "finished"
  PROVE  Met' <=> Met
BY DEF Met

LEMMA DiskNext == TypeOK /\ FinishInv /\ DiskInv /\ [Next]_vars => DiskInv'
<1> SUFFICES ASSUME TypeOK, FinishInv, DiskInv, [Next]_vars, ask'.route = "disk"
             PROVE  DiskInv'
  BY DEF DiskInv
<1>1. ask' = ask
  BY DEF vars, engineVars, Next, Engine, Step, Preempt, EnqueueFinish, Consumer, TakeItem,
         DemuxToDisk, DiskWriteFails, DemuxToHost, FinishAborted, FinishDisk, FinishHost,
         Transfer, Client, Fetch, Confirm, WaitTimesOut, Abort, ClearDisk, MarkHost, FreeHost
<1>2. /\ index = NoEntry /\ kmeta = <<>> /\ ~deliverable /\ ~hostAborted
      /\ Met => ~routed /\ ~diskAborted /\ ~staging.open
      /\ ~Met => routed \/ diskAborted
      /\ routed /\ consumer.at = "rows" => consumer.disk
      /\ landed # "no" => engine = "finished"
      /\ landed = "landed" /\ client = "waiting" => dest = source
  BY <1>1 DEF DiskInv
<1>3. QueueType /\ DrainType
  BY DEF TypeOK
<1>4. CASE UNCHANGED vars
  BY <1>2, <1>4 DEF vars, engineVars, drainVars, clientVars, diskVars, DiskInv, Met
<1>5. CASE Engine
  <2>1. UNCHANGED <<consumer, drainVars, clientVars, diskVars>>
    BY <1>5 DEF Engine, Step, Preempt, EnqueueFinish
  <2>2. engine # "finished" /\ ~Met
    BY <1>5 DEF Engine, Step, Preempt, EnqueueFinish, Met
  <2>3. ~Met'
    <3>1. CASE EnqueueFinish
      <4>1. FinishItem \in Item /\ queue' = Append(queue, FinishItem)
        BY <3>1 DEF EnqueueFinish, Item
      <4>2. queue' # <<>>
        BY <1>3, <4>1, Appended
      <4> QED BY <4>2 DEF Met
    <3>2. CASE ~EnqueueFinish
      <4>1. engine' # "finished"
        BY <1>5, <2>2, <3>2 DEF Engine, Step, Preempt
      <4> QED BY <4>1 DEF Met
    <3> QED BY <3>1, <3>2
  <2> QED BY <1>2, <2>1, <2>2, <2>3 DEF DiskInv, drainVars, clientVars, diskVars
<1>6. CASE TakeItem
  <2>1. /\ queue # <<>> /\ consumer'.at = Head(queue).kind
        /\ consumer'.disk = (routed /\ Head(queue).kind = "rows")
        /\ UNCHANGED <<engineVars, drainVars, clientVars, diskVars>>
    BY <1>6 DEF TakeItem
  <2>2. consumer'.at # "get"
    BY <1>3, <1>6, <2>1, ItemKind, Taken DEF TakeItem
  <2>3. ~Met /\ ~Met'
    BY <2>1, <2>2 DEF Met, Idle
  <2>4. routed' /\ consumer'.at = "rows" => consumer'.disk
    BY <2>1 DEF drainVars
  <2> QED BY <1>2, <2>1, <2>3, <2>4 DEF DiskInv, engineVars, drainVars, clientVars, diskVars
<1>7. CASE DemuxToDisk \/ DiskWriteFails \/ DemuxToHost
  <2>1. /\ consumer.at = "rows" /\ consumer' = Idle
        /\ UNCHANGED <<engineVars, queue, routed, hostAborted, deliverable, clientVars, diskVars>>
    BY <1>7 DEF DemuxToDisk, DiskWriteFails, DemuxToHost
  <2>2. ~Met /\ ~Met'
    BY <2>1 DEF Met, FinishInv, Idle, engineVars
  <2>3. index' = NoEntry /\ kmeta' = <<>>
    <3>1. CASE DemuxToDisk \/ DiskWriteFails
      BY <1>2, <3>1 DEF DemuxToDisk, DiskWriteFails
    <3>2. CASE DemuxToHost
      <4>1. ~routed
        BY <1>2, <2>1, <3>2 DEF DemuxToHost
      <4>2. IsAborted
        BY <1>2, <2>2, <4>1 DEF IsAborted
      <4> QED BY <1>2, <3>2, <4>2 DEF DemuxToHost
    <3> QED BY <1>7, <3>1, <3>2
  <2>4. routed' \/ diskAborted'
    BY <1>2, <1>7, <2>1, <2>2 DEF DemuxToDisk, DiskWriteFails, DemuxToHost
  <2>5. consumer'.at # "rows"
    BY <2>1 DEF Idle
  <2> QED BY <1>2, <2>1, <2>2, <2>3, <2>4, <2>5 DEF DiskInv, engineVars, clientVars, diskVars
<1>8. CASE FinishAborted \/ FinishDisk
  <2>1. consumer.at = "finish" /\ consumer' = Idle
    BY <1>8 DEF FinishAborted, FinishDisk
  <2>2. engine = "finished" /\ queue = <<>>
    BY <2>1 DEF FinishInv
  <2>3. engine' = engine /\ queue' = queue
    BY <1>8 DEF FinishAborted, FinishDisk, engineVars
  <2>4. Met'
    BY <2>1, <2>2, <2>3 DEF Met
  <2>5. /\ index' = NoEntry /\ kmeta' = <<>> /\ ~deliverable' /\ ~hostAborted'
        /\ ~routed' /\ ~diskAborted' /\ ~staging'.open
    BY <1>2, <1>8 DEF FinishAborted, FinishDisk, NoStaging
  <2>6. landed' = "landed" /\ client' = "waiting" => dest' = source'
    BY <1>2, <1>8 DEF FinishAborted, FinishDisk, clientVars, diskVars
  <2> QED BY <2>2, <2>3, <2>4, <2>5, <2>6 DEF DiskInv
<1>9. CASE FinishHost
  <2>1. consumer.at = "finish" /\ ~diskAborted /\ ~routed
    BY <1>9 DEF FinishHost
  <2>2. ~Met
    BY <2>1 DEF Met, Idle
  <2> QED BY <1>2, <2>1, <2>2
<1>10. CASE Transfer
  <2>1. /\ UNCHANGED <<engineVars, queue, consumer, drainVars, clientVars, source>>
        /\ landed = "submitted" /\ (landed' = "landed" => dest' = source)
    BY <1>10 DEF Transfer
  <2>2. Met' <=> Met
    BY <2>1, MetSame DEF engineVars
  <2> QED BY <1>2, <2>1, <2>2 DEF DiskInv, engineVars, drainVars, clientVars
<1>11. CASE Fetch \/ Confirm \/ WaitTimesOut
  <2>1. ~Fetch
    BY <1>1 DEF Fetch
  <2>2. /\ UNCHANGED <<engineVars, queue, consumer, drainVars, landed>> /\ client' = "clearing"
    BY <1>11, <2>1 DEF Confirm, WaitTimesOut
  <2>3. Met' <=> Met
    BY <2>2, MetSame DEF engineVars
  <2> QED BY <1>2, <2>2, <2>3 DEF DiskInv, engineVars, drainVars
<1>12. CASE Abort
  <2>1. /\ UNCHANGED <<queue, consumer, drainVars, diskVars>> /\ client' = "clearing"
        /\ engine' = "finished" <=> engine = "finished"
    BY <1>12 DEF Abort
  <2>2. Met' <=> Met
    BY <2>1, MetSame
  <2> QED BY <1>2, <2>1, <2>2 DEF DiskInv, drainVars, diskVars
<1>13. CASE ClearDisk
  <2>1. /\ UNCHANGED <<engineVars, queue, consumer, hostAborted, staging, index, kmeta,
                       deliverable, diskVars>>
        /\ client' = "marking" /\ ~routed'
        /\ diskAborted' = (diskAborted \/ staging.open \/ routed)
    BY <1>13 DEF ClearDisk
  <2>2. Met' <=> Met
    BY <2>1, MetSame DEF engineVars
  <2> QED BY <1>2, <2>1, <2>2 DEF DiskInv, engineVars, diskVars
<1>14. CASE MarkHost \/ FreeHost
  <2>1. /\ UNCHANGED <<engineVars, queue, consumer, routed, diskAborted, staging, kmeta,
                       diskVars>>
        /\ client' # "waiting" /\ index' = NoEntry /\ ~deliverable' /\ ~hostAborted'
    <3>1. index.nc = -1
      BY <1>2, Empties, Zenon
    <3>2. CASE MarkHost
      <4>1. hostAborted' = (hostAborted \/ index.nc # -1)
        BY <3>2 DEF MarkHost
      <4>2. ~hostAborted'
        BY <1>2, <3>1, <4>1
      <4> QED BY <1>2, <3>2, <4>2 DEF MarkHost
    <3>3. CASE FreeHost
      BY <1>2, <3>3 DEF FreeHost
    <3> QED BY <1>14, <3>2, <3>3
  <2>2. Met' <=> Met
    BY <2>1, MetSame DEF engineVars
  <2> QED BY <1>2, <2>1, <2>2 DEF DiskInv, engineVars, diskVars
<1> QED BY <1>4, <1>5, <1>6, <1>7, <1>8, <1>9, <1>10, <1>11, <1>12, <1>13, <1>14, Zenon
        DEF Next, Consumer, Client

LEMMA DiskAlways == Spec => [](FinishInv /\ DiskInv)
BY HistoryTypes, FinishInit, FinishNext, DiskInit, DiskNext, PTL DEF Spec

\* However a request on its way to disk ends (served, timed out, given up for a
\* failed write, aborted at any point), once the drain has met its finish
\* neither a staging nor a mark nor a row in the host index is left of it.
THEOREM DiskClearIsClean == Spec => []DiskClearLeavesNothing
<1>1. DiskInv => DiskClearLeavesNothing
  BY DEF DiskInv, DiskClearLeavesNothing, Met
<1> QED BY <1>1, DiskAlways, PTL

-----------------------------------------------------------------------------
(***************************************************************************)
(* The engine, and the flow of rows from it to where they are kept.        *)
(***************************************************************************)

LEMMA SameAsk ==
  ASSUME [Next]_vars
  PROVE  ask' = ask /\ goal' = goal
BY DEF vars, engineVars, Next, Engine, Step, Preempt, EnqueueFinish, Consumer, TakeItem,
       DemuxToDisk, DiskWriteFails, DemuxToHost, FinishAborted, FinishDisk, FinishHost,
       Transfer, Client, Fetch, Confirm, WaitTimesOut, Abort, ClearDisk, MarkHost, FreeHost

LEMMA EngineInit == Init => EngineInv
BY Constants DEF Init, EngineInv, Cached

LEMMA EngineNext == TypeOK /\ EngineInv /\ [Next]_vars => EngineInv'
<1> SUFFICES ASSUME TypeOK, EngineInv, [Next]_vars PROVE EngineInv'
  OBVIOUS
<1> USE Constants
<1>1. /\ goal \in Nat /\ computed \in Nat /\ tokens \in Nat /\ computed <= tokens
      /\ preempts \in Nat /\ Prompt \in Nat /\ Prompt <= tokens
      /\ engine \in {"running", "stopped", "finished"}
      /\ engine = "running" => computed < tokens /\ tokens < goal
  BY DEF TypeOK, EngineType
<1>2. CASE UNCHANGED engineVars /\ (client' = "waiting" => client = "waiting")
  BY <1>2 DEF engineVars, EngineInv
<1>3. ASSUME NEW n \in 1 .. Chunk, Step(n) PROVE EngineInv'
  <2>1. n \in Nat /\ n > 0 /\ n <= tokens - computed
    BY <1>3 DEF Step
  <2>2. /\ computed' = computed + n /\ prefillLen' = prefillLen /\ preempts' = preempts
        /\ tokens' = (IF computed' = tokens THEN tokens + 1 ELSE tokens)
        /\ engine' = (IF tokens' = goal THEN "stopped" ELSE "running") /\ goal' = goal
    BY <1>3 DEF Step
  <2> QED BY <1>1, <2>1, <2>2 DEF EngineInv
<1>4. ASSUME NEW c \in Cached, Preempt(c) PROVE EngineInv'
  BY <1>1, <1>4 DEF Preempt, EngineInv, clientVars
<1>5. CASE EnqueueFinish
  BY <1>5 DEF EnqueueFinish, EngineInv, clientVars
<1>6. CASE Abort
  BY <1>6 DEF Abort, EngineInv
<1>7. CASE UNCHANGED vars
  BY <1>2, <1>7 DEF vars, engineVars, clientVars
<1>8. CASE Consumer \/ Transfer
  BY <1>2, <1>8 DEF Consumer, TakeItem, DemuxToDisk, DiskWriteFails, DemuxToHost,
     FinishAborted, FinishDisk, FinishHost, Transfer, clientVars
<1>9. CASE Fetch \/ Confirm \/ WaitTimesOut \/ ClearDisk \/ MarkHost \/ FreeHost
  BY <1>2, <1>9 DEF Fetch, Confirm, WaitTimesOut, ClearDisk, MarkHost, FreeHost
<1> QED BY <1>3, <1>4, <1>5, <1>6, <1>7, <1>8, <1>9, Zenon DEF Next, Engine, Client

LEMMA HostInit == Init => HostInv
<1> SUFFICES ASSUME Init, ask.route = "rpc" PROVE HostInv
  BY DEF HostInv
<1>1. /\ routed = FALSE /\ diskAborted = FALSE /\ consumer.disk = FALSE
      /\ staging.open = FALSE /\ hostAborted = FALSE /\ deliverable = FALSE
      /\ kmeta = <<>> /\ index.ends = <<>>
  BY DEF Init, Idle, NoStaging, NoEntry
<1> QED BY <1>1 DEF HostInv

LEMMA HostNext == TypeOK /\ FinishInv /\ HostInv /\ [Next]_vars => HostInv'
<1> SUFFICES ASSUME TypeOK, FinishInv, HostInv, [Next]_vars, ask'.route = "rpc"
             PROVE  HostInv'
  BY DEF HostInv
<1>1. ask' = ask
  BY SameAsk
<1>2. /\ ~routed /\ ~diskAborted /\ ~consumer.disk /\ ~staging.open
      /\ client = "waiting" =>
           ~hostAborted /\ (~Met => kmeta = index.ends /\ ~deliverable)
  BY <1>1 DEF HostInv
<1>3. QueueType /\ DrainType
  BY DEF TypeOK
<1>4. CASE UNCHANGED vars
  BY <1>2, <1>4 DEF vars, engineVars, drainVars, clientVars, diskVars, HostInv, Met
<1>5. CASE Engine
  <2>1. UNCHANGED <<consumer, drainVars, clientVars>>
    BY <1>5 DEF Engine, Step, Preempt, EnqueueFinish
  <2>2. ~Met
    BY <1>5 DEF Engine, Step, Preempt, EnqueueFinish, Met
  <2> QED BY <1>2, <2>1, <2>2 DEF HostInv, drainVars, clientVars
<1>6. CASE TakeItem
  <2>1. /\ queue # <<>> /\ consumer'.disk = (routed /\ Head(queue).kind = "rows")
        /\ UNCHANGED <<drainVars, clientVars>>
    BY <1>6 DEF TakeItem
  <2>2. ~Met
    BY <2>1 DEF Met
  <2>3. ~consumer'.disk
    BY <1>2, <2>1
  <2> QED BY <1>2, <2>1, <2>2, <2>3 DEF HostInv, drainVars, clientVars
<1>7. CASE DemuxToDisk \/ DiskWriteFails
  BY <1>2, <1>7 DEF DemuxToDisk, DiskWriteFails
<1>8. CASE DemuxToHost
  <2>1. /\ consumer.at = "rows" /\ consumer'.disk = FALSE
        /\ UNCHANGED <<routed, diskAborted, hostAborted, staging, deliverable, clientVars>>
    BY <1>8 DEF DemuxToHost, Idle
  <2>2. ~Met
    BY <2>1 DEF Met, Idle
  <2>3. client = "waiting" => kmeta' = index'.ends
    <3>1. CASE IsAborted
      BY <1>2, <2>2, <1>8, <3>1 DEF DemuxToHost
    <3>2. CASE ~IsAborted
      BY <1>8, <3>2 DEF DemuxToHost, Noted
    <3> QED BY <3>1, <3>2
  <2> QED BY <1>2, <2>1, <2>2, <2>3 DEF HostInv, clientVars
<1>9. CASE FinishAborted \/ FinishDisk
  BY <1>2, <1>9 DEF FinishAborted, FinishDisk
<1>10. CASE FinishHost
  <2>1. /\ consumer.at = "finish" /\ consumer' = Idle /\ queue' = queue /\ engine' = engine
        /\ UNCHANGED <<routed, diskAborted, staging, clientVars>>
    BY <1>10 DEF FinishHost, engineVars
  <2>2. Met' /\ consumer'.disk = FALSE
    BY <2>1 DEF Met, FinishInv, Idle
  <2>3. client' = "waiting" => ~hostAborted'
    BY <1>2, <1>10, <2>1 DEF FinishHost, clientVars
  <2> QED BY <1>2, <2>1, <2>2, <2>3 DEF HostInv
<1>11. CASE Transfer
  BY <1>2, <1>11 DEF Transfer, HostInv, Met, engineVars, drainVars, clientVars
<1>12. CASE Fetch \/ Confirm \/ WaitTimesOut \/ Abort
  BY <1>2, <1>12 DEF Fetch, Confirm, WaitTimesOut, Abort, HostInv, drainVars
<1>13. CASE ClearDisk \/ MarkHost \/ FreeHost
  BY <1>2, <1>13 DEF ClearDisk, MarkHost, FreeHost, HostInv
<1> QED BY <1>4, <1>5, <1>6, <1>7, <1>8, <1>9, <1>10, <1>11, <1>12, <1>13, Zenon
        DEF Next, Consumer, Client

\* What a step does to the request and to the counts of the engine.
LEMMA StepFacts ==
  ASSUME TypeOK, EngineInv, NEW n \in 1 .. Chunk, Step(n)
  PROVE  /\ engine = "running" /\ n \in Nat /\ n > 0 /\ n <= tokens - computed
         /\ computed \in Nat /\ tokens \in Nat /\ prefillLen \in Nat /\ Prompt \in Nat
         /\ preempts \in Nat /\ Prompt <= prefillLen /\ Prompt > 0
         /\ computed' = computed + n /\ prefillLen' = prefillLen /\ preempts' = preempts
         /\ ask' = ask
         /\ preempts = 0 => /\ prefillLen = Prompt
                            /\ computed < Prompt => computed + n <= Prompt
                            /\ computed >= Prompt => n = 1
         /\ ask.hooks \in {"prefill", "decode", "both"}
         /\ ask.mode \in {"all_tokens", "last_token"}
<1> USE Constants
<1>1. /\ computed \in Nat /\ tokens \in Nat /\ prefillLen \in Nat /\ Prompt \in Nat
      /\ Prompt <= prefillLen /\ Prompt > 0 /\ preempts \in Nat
  BY DEF TypeOK, EngineType
<1>2. /\ engine = "running" /\ n \in Nat /\ n > 0 /\ n <= tokens - computed
      /\ computed' = computed + n /\ prefillLen' = prefillLen /\ preempts' = preempts
      /\ ask' = ask
  BY DEF Step
<1>3. ask.hooks \in {"prefill", "decode", "both"} /\ ask.mode \in {"all_tokens", "last_token"}
  BY AskIs DEF TypeOK, EngineType
<1>4. preempts = 0 => /\ prefillLen = Prompt
                      /\ computed < Prompt => computed + n <= Prompt
                      /\ computed >= Prompt => n = 1
  BY <1>1, <1>2 DEF EngineInv
<1> QED BY <1>1, <1>2, <1>3, <1>4

\* The rows of a captured step follow what was captured before.
LEMMA StepFollows ==
  ASSUME TypeOK, EngineInv, NEW n \in 1 .. Chunk, Step(n), Captures,
         NEW r \in Nat, NEW e \in BOOLEAN, EngineFollows(r, e),
         NEW x \in RowItems, x = RecordOf(n)
  PROVE  Follows(r, e, x)
<1>1. x.nc = computed /\ x.end = IF EmitsQ(n) THEN computed + n ELSE -1
  BY RecordType DEF Step
<1>2. ~(ask.hooks = "prefill" /\ ~Prefilling)
  BY DEF Captures
<1>3. computed \in {0, r} /\ (preempts = 0 => computed = r)
  BY <1>2, StepFacts DEF EngineFollows
<1>4. x.nc = r /\ e /\ ask.mode = "all_tokens" => x.end # -1
  BY <1>1, StepFacts DEF EngineFollows, EmitsQ
<1> QED BY <1>1, <1>3, <1>4 DEF Follows

\* ... and hold consecutive positions, with the queries the request asks for.
LEMMA StepItem ==
  ASSUME TypeOK, EngineInv, NEW n \in 1 .. Chunk, Step(n), Captures,
         NEW x \in RowItems, x = RecordOf(n)
  PROVE  ItemOK(x) /\ Reach(x) = computed + n
<1> USE StepFacts
<1> DEFINE c == computed
           b == c + n
<1>1. /\ x.k = Positions(c, b) /\ Len(x.k) = n /\ x.nc = c
      /\ x.end = (IF EmitsQ(n) THEN b ELSE -1)
      /\ x.q = (IF ~EmitsQ(n) THEN <<>>
                ELSE IF ask.mode = "all_tokens" THEN x.k ELSE <<c + n - 1>>)
  BY RecordType DEF Step
<1>2. Reach(x) = b /\ b \in Nat /\ b # -1 /\ c \in Nat /\ c < b /\ c + n - 1 = b - 1
  BY <1>1 DEF Reach
<1> HIDE DEF c, b
<1>3. x.k = Positions(x.nc, Reach(x)) /\ x.end \in {-1, Reach(x)}
  BY <1>1, <1>2
<1>4. /\ x.end = -1 => x.q = <<>>
      /\ x.end # -1 => x.q = IF ask.mode = "all_tokens" THEN x.k ELSE <<Reach(x) - 1>>
  BY <1>1, <1>2
<1>5. ASSUME preempts = 0
      PROVE  /\ x.end # -1 <=> b > From
             /\ x.q = Positions(GreatestOf(c, From), b)
  <2>1. /\ c < Prompt => b <= Prompt
        /\ c >= Prompt => b = c + 1
        /\ Prefilling <=> c < Prompt
    BY <1>2, <1>5 DEF Prefilling, c, b
  <2>2. From \in Nat
    BY DEF From
  <2>3. EmitsQ(n) <=> b > From
    BY <1>2, <2>1 DEF EmitsQ, From, c, b
  <2>4. CASE ~EmitsQ(n)
    <3>1. GreatestOf(c, From) \in Nat /\ b <= GreatestOf(c, From)
      BY <1>2, <2>2, <2>3, <2>4 DEF GreatestOf
    <3>2. Positions(GreatestOf(c, From), b) = <<>>
      BY <1>2, <3>1, PositionsEmpty, Zenon
    <3> QED BY <1>1, <2>3, <2>4, <3>2, Zenon
  <2>5. CASE EmitsQ(n) /\ ask.mode = "all_tokens"
    <3>1. From <= c
      BY <1>2, <2>1, <2>5 DEF EmitsQ, From, c
    <3>2. GreatestOf(c, From) = c
      BY <1>2, <2>2, <3>1 DEF GreatestOf
    <3> QED BY <1>1, <1>2, <2>3, <2>5, <3>2
  <2>6. CASE EmitsQ(n) /\ ask.mode = "last_token"
    <3>1. GreatestOf(c, From) = b - 1
      BY <1>2, <2>1, <2>3, <2>6 DEF EmitsQ, From, c, GreatestOf
    <3>2. Positions(b - 1, (b - 1) + 1) = <<b - 1>> /\ (b - 1) + 1 = b
      <4>1. b - 1 \in Nat /\ (b - 1) + 1 = b
        BY <1>2
      <4> QED BY <4>1, PositionsOne, Zenon
    <3>3. x.q = <<b - 1>>
      BY <1>1, <1>2, <2>6
    <3> QED BY <1>1, <1>2, <2>3, <2>6, <3>1, <3>2, <3>3
  <2> QED BY <2>4, <2>5, <2>6
<1>6. x.end # -1 <=> EmitsQ(n)
  BY <1>1, <1>2
<1>7. preempts = 0 => /\ x.end # -1 <=> Reach(x) > From
                      /\ x.q = Positions(GreatestOf(x.nc, From), Reach(x))
  BY <1>1, <1>2, <1>5, Zenon
<1> QED BY <1>2, <1>3, <1>4, <1>7 DEF ItemOK, b, c

\* What follows them is again what the engine computes next.
LEMMA StepLeads ==
  ASSUME TypeOK, EngineInv, NEW n \in 1 .. Chunk, Step(n), Captures,
         NEW r \in Nat, r = computed + n, NEW e \in BOOLEAN, e => EmitsQ(n)
  PROVE  EngineFollows(r, e)'
<1> USE StepFacts
<1>1. computed' = r /\ (~Prefilling => ~Prefilling') /\ (Prefilling' <=> r < prefillLen)
  BY DEF Prefilling
<1>2. e /\ ask.hooks = "decode" => ~Prefilling'
  BY <1>1 DEF EmitsQ
<1>3. preempts = 0 /\ ask.hooks = "prefill" /\ ~Prefilling' => r = Prompt
  BY <1>1 DEF Captures, Prefilling
<1> QED BY <1>1, <1>2, <1>3 DEF EngineFollows

\* A step that is not captured changes nothing about what will be.
LEMMA StepUncaptured ==
  ASSUME TypeOK, EngineInv, NEW n \in 1 .. Chunk, Step(n), ~Captures,
         NEW r \in Nat, NEW e \in BOOLEAN, EngineFollows(r, e)
  PROVE  EngineFollows(r, e)'
<1> USE StepFacts
<1>1. ask.hooks = "prefill" /\ ~Prefilling /\ ~Prefilling'
  BY DEF Captures, Prefilling
<1> QED BY <1>1 DEF EngineFollows

\* Without cached prefixes a preempted request starts from nothing.
LEMMA PreemptLeads ==
  ASSUME TypeOK, ~CacheHits, NEW c \in Cached, Preempt(c),
         NEW r \in Nat, NEW e \in BOOLEAN, e => r > 0, EngineFollows(r, e)
  PROVE  EngineFollows(r, e)'
<1>1. c = 0
  BY DEF Cached
<1>2. computed' = 0 /\ preempts' # 0 /\ ask' = ask
  BY <1>1 DEF Preempt, TypeOK, EngineType
<1>3. computed' = r /\ e => FALSE
  BY <1>2
<1> QED BY <1>2, <1>3 DEF EngineFollows

LEMMA OtherLeads ==
  ASSUME ask' = ask, computed' = computed, prefillLen' = prefillLen, preempts' = preempts,
         engine' = "running" => engine = "running",
         NEW r, NEW e, EngineFollows(r, e)
  PROVE  EngineFollows(r, e)'
BY DEF EngineFollows, Prefilling

LEMMA ItemPersists ==
  ASSUME ask' = ask, preempts' = 0 => preempts = 0, NEW x, ItemOK(x)
  PROVE  ItemOK(x)'
BY DEF ItemOK, From

LEMMA FollowsPersists ==
  ASSUME ask' = ask, preempts' = 0 => preempts = 0, NEW r, NEW e, NEW x, Follows(r, e, x)
  PROVE  Follows(r, e, x)'
BY DEF Follows

LEMMA OneBefore ==
  ASSUME NEW S, NEW x \in S, NEW q \in Seq(S)
  PROVE  /\ Len(<<x>> \o q) = Len(q) + 1 /\ Len(q) \in Nat /\ (<<x>> \o q)[1] = x
         /\ \A i \in 1 .. Len(q) : (<<x>> \o q)[i + 1] = q[i]
         /\ \A i \in 1 .. Len(q) : q[i] \in S
         /\ <<>> \o q = q
<1>1. <<x>> \in Seq(S) /\ Len(<<x>>) = 1 /\ <<x>>[1] = x
  OBVIOUS
<1>2. /\ Len(<<x>> \o q) = Len(<<x>>) + Len(q)
      /\ \A i \in 1 .. Len(<<x>>) + Len(q) :
           (<<x>> \o q)[i] = IF i <= Len(<<x>>) THEN <<x>>[i] ELSE q[i - Len(<<x>>)]
  BY <1>1, ConcatProperties
<1> DEFINE w == <<x>> \o q
           n == Len(q)
<1>3. n \in Nat /\ \A i \in 1 .. n : q[i] \in S
  OBVIOUS
<1>4. Len(w) = n + 1 /\ \A i \in 1 .. n + 1 : w[i] = IF i <= 1 THEN x ELSE q[i - 1]
  <2>1. \A i \in 1 .. n + 1 : i <= 1 => i = 1
    BY <1>3
  <2> QED BY <1>1, <1>2, <1>3, <2>1
<1>5. <<>> \o q = q
  BY ConcatEmptySeq
<1> HIDE DEF w, n
<1>6. w[1] = x /\ \A i \in 1 .. n : w[i + 1] = q[i]
  BY <1>3, <1>4
<1> QED BY <1>3, <1>4, <1>5, <1>6 DEF w, n

\* The flow, now and after a step.
LEMMA FlowIs ==
  ASSUME QueueType
  PROVE  /\ Len(Flow) \in Nat /\ Len(queue) \in Nat
         /\ \A i \in 1 .. Len(Flow) : Flow[i] \in Item
         /\ consumer.at = "rows"
              => /\ Len(Flow) = Len(queue) + 1 /\ Flow[1] = consumer.item
                 /\ \A i \in 1 .. Len(queue) : Flow[i + 1] = queue[i]
         /\ consumer.at # "rows" => Flow = queue
<1>1. queue \in Seq(Item) /\ Len(queue) \in Nat /\ \A i \in 1 .. Len(queue) : queue[i] \in Item
  BY QueueFacts
<1>2. CASE consumer.at = "rows"
  <2>1. PICK x \in Item : x = consumer.item
    BY <1>2, HeldType DEF Item
  <2>2. Flow = <<x>> \o queue
    BY <1>2, <2>1 DEF Flow
  <2>3. /\ Len(Flow) = Len(queue) + 1 /\ Flow[1] = x
        /\ \A i \in 1 .. Len(queue) : Flow[i + 1] = queue[i]
    BY <1>1, <2>2, OneBefore
  <2>4. \A i \in 1 .. Len(Flow) : Flow[i] \in Item
    <3> SUFFICES ASSUME NEW i \in 1 .. Len(Flow) PROVE Flow[i] \in Item
      OBVIOUS
    <3>1. CASE i = 1
      BY <2>3, <3>1
    <3>2. CASE i # 1
      <4>1. i - 1 \in 1 .. Len(queue) /\ (i - 1) + 1 = i
        BY <1>1, <2>3, <3>2
      <4>2. Flow[(i - 1) + 1] = queue[i - 1]
        BY <2>3, <4>1, Zenon
      <4> QED BY <1>1, <4>1, <4>2
    <3> QED BY <3>1, <3>2
  <2> QED BY <1>1, <1>2, <2>1, <2>3, <2>4
<1>3. CASE consumer.at # "rows"
  <2>1. FinishItem \in Item
    BY DEF Item
  <2>2. Flow = queue
    BY <1>1, <1>3, <2>1, OneBefore DEF Flow
  <2> QED BY <1>1, <1>3, <2>2
<1> QED BY <1>2, <1>3

LEMMA FlowAfter ==
  ASSUME QueueType', goal' = goal
  PROVE  /\ Len(Flow') \in Nat /\ Len(queue') \in Nat
         /\ consumer'.at = "rows"
              => /\ Len(Flow') = Len(queue') + 1 /\ Flow'[1] = consumer'.item
                 /\ \A i \in 1 .. Len(queue') : Flow'[i + 1] = queue'[i]
         /\ consumer'.at # "rows" => Flow' = queue'
<1>1. RowItems' = RowItems
  BY SameTypes
<1>2. PICK q \in Seq(Item) : q = queue'
  BY <1>1 DEF QueueType, Item
<1>3. CASE consumer'.at = "rows"
  <2>1. PICK x \in Item : x = consumer'.item
    BY <1>1, <1>3 DEF QueueType, Idle, Item
  <2>2. Flow' = <<x>> \o q
    BY <1>2, <1>3, <2>1 DEF Flow
  <2>3. /\ Len(Flow') = Len(q) + 1 /\ Len(q) \in Nat /\ Flow'[1] = x
        /\ \A i \in 1 .. Len(q) : Flow'[i + 1] = q[i]
    BY <2>2, OneBefore
  <2>4. Len(Flow') \in Nat
    BY <2>3
  <2> QED BY <1>2, <1>3, <2>1, <2>3, <2>4, Zenon
<1>4. CASE consumer'.at # "rows"
  <2>1. FinishItem \in Item
    BY DEF Item
  <2>2. Flow' = q /\ Len(q) \in Nat
    BY <1>2, <1>4, <2>1, OneBefore DEF Flow
  <2> QED BY <1>2, <1>4, <2>2
<1> QED BY <1>3, <1>4

-----------------------------------------------------------------------------
(* The flow, step by step. *)

\* What comes continues what is kept, if it did before.
FlowGoesOn ==
  /\ FlowInv'
  /\ \A r \in Nat, e \in BOOLEAN :
       (e => r > 0) /\ Continues(r, e, 0) => Continues(r, e, 0)'

\* What the engine computes next continues what it would have.
LEMMA FlowKeeps ==
  ASSUME QueueType, FlowInv, ask' = ask, preempts' = 0 => preempts = 0,
         Len(Flow') = Len(Flow), \A i \in 1 .. Len(Flow) : Flow'[i] = Flow[i],
         \A r \in Nat, e \in BOOLEAN :
           (e => r > 0) /\ EngineFollows(r, e) => EngineFollows(r, e)'
  PROVE  FlowGoesOn
<1>1. Len(Flow) \in Nat /\ \A i \in 1 .. Len(Flow) : Flow[i] \in Item
  BY FlowIs
<1>2. ASSUME NEW r \in Nat, NEW e \in BOOLEAN, e => r > 0, NEW i \in 0 .. Len(Flow),
             Continues(r, e, i)
      PROVE  Continues(r, e, i)'
  <2>1. CASE i < Len(Flow) /\ Flow[i + 1].kind = "rows"
    <3>1. i + 1 \in 1 .. Len(Flow)
      BY <1>1, <2>1
    <3>2. PICK x \in Item : x = Flow[i + 1]
      BY <1>1, <3>1
    <3>3. Follows(r, e, x)
      BY <1>2, <2>1, <3>2 DEF Continues
    <3>4. Follows(r, e, x)' /\ Flow'[i + 1] = x
      BY <3>1, <3>2, <3>3, FollowsPersists
    <3> QED BY <2>1, <3>2, <3>4 DEF Continues
  <2>2. CASE ~(i < Len(Flow) /\ Flow[i + 1].kind = "rows")
    <3>1. EngineFollows(r, e)
      BY <1>2, <2>2 DEF Continues
    <3>2. EngineFollows(r, e)'
      BY <1>2, <3>1
    <3>3. ~(i < Len(Flow') /\ Flow'[i + 1].kind = "rows")
      <4>1. i < Len(Flow) => i + 1 \in 1 .. Len(Flow)
        BY <1>1
      <4> QED BY <2>2, <4>1
    <3> QED BY <3>2, <3>3 DEF Continues
  <2> QED BY <2>1, <2>2
<1>3. FlowInv'
  <2> SUFFICES ASSUME NEW i \in 1 .. Len(Flow'), Flow'[i].kind = "rows"
               PROVE  /\ ItemOK(Flow[i])'
                      /\ Continues(Reach(Flow[i]), Flow[i].end # -1, i)'
    BY DEF FlowInv
  <2>1. i \in 1 .. Len(Flow) /\ i \in 0 .. Len(Flow)
    BY <1>1
  <2>2. PICK x \in RowItems : x = Flow[i] /\ x = Flow'[i] /\ x.kind = "rows"
    BY <1>1, <2>1, ItemKind
  <2>3. PICK r \in Nat : r = Reach(x) /\ r > 0
    <3>1. x.nc \in Nat /\ Len(x.k) \in Nat /\ Len(x.k) > 0
      BY ItemType
    <3> QED BY <3>1 DEF Reach
  <2>4. PICK e \in BOOLEAN : e <=> x.end # -1
    OBVIOUS
  <2>5. ItemOK(x) /\ Continues(r, e, i)
    BY <2>1, <2>2, <2>3, <2>4 DEF FlowInv
  <2>6. ItemOK(x)' /\ Continues(r, e, i)'
    BY <1>2, <2>1, <2>3, <2>5, ItemPersists
  <2> QED BY <2>2, <2>3, <2>4, <2>6
<1>4. \A r \in Nat, e \in BOOLEAN :
        (e => r > 0) /\ Continues(r, e, 0) => Continues(r, e, 0)'
  <2>1. 0 \in 0 .. Len(Flow)
    BY <1>1
  <2> QED BY <1>2, <2>1, Zenon
<1> QED BY <1>3, <1>4 DEF FlowGoesOn
\* A captured step, or the finish, comes last.
LEMMA FlowAppend ==
  ASSUME QueueType, FlowInv, ask' = ask, preempts' = 0 => preempts = 0,
         NEW x \in Item, NEW n \in Nat, n = Len(Flow),
         Len(Flow') = n + 1, Flow'[n + 1] = x, \A i \in 1 .. n : Flow'[i] = Flow[i],
         \A i \in 1 .. n : Flow[i].kind = "rows",
         x.kind = "rows" => ItemOK(x)',
         \A r \in Nat, e \in BOOLEAN :
           x.kind = "rows" /\ r = Reach(x) /\ e = (x.end # -1) => EngineFollows(r, e)',
         \A r \in Nat, e \in BOOLEAN :
           (e => r > 0) /\ EngineFollows(r, e)
             => /\ x.kind = "rows" => Follows(r, e, x)'
                /\ x.kind # "rows" => EngineFollows(r, e)'
  PROVE  FlowGoesOn
<1>1. \A i \in 1 .. n : Flow[i] \in Item
  BY FlowIs
<1>2. ASSUME NEW r \in Nat, NEW e \in BOOLEAN, e => r > 0, NEW i \in 0 .. n,
             Continues(r, e, i)
      PROVE  Continues(r, e, i)'
  <2>1. CASE i < n
    <3>1. i + 1 \in 1 .. n /\ i < n + 1
      BY <2>1
    <3>2. PICK y \in Item : y = Flow[i + 1] /\ y = Flow'[i + 1] /\ y.kind = "rows"
      BY <1>1, <3>1
    <3>3. Follows(r, e, y)
      BY <1>2, <2>1, <3>2 DEF Continues
    <3>4. Follows(r, e, y)'
      BY <3>3, FollowsPersists
    <3> QED BY <3>1, <3>2, <3>4 DEF Continues
  <2>2. CASE i = n
    <3>1. EngineFollows(r, e) /\ i < n + 1
      BY <1>2, <2>2 DEF Continues
    <3>2. /\ x.kind = "rows" => Follows(r, e, x)'
          /\ x.kind # "rows" => EngineFollows(r, e)'
      BY <1>2, <3>1
    <3> QED BY <2>2, <3>1, <3>2 DEF Continues
  <2> QED BY <2>1, <2>2
<1>3. FlowInv'
  <2> SUFFICES ASSUME NEW i \in 1 .. Len(Flow'), Flow'[i].kind = "rows"
               PROVE  /\ ItemOK(Flow[i])'
                      /\ Continues(Reach(Flow[i]), Flow[i].end # -1, i)'
    BY DEF FlowInv
  <2>1. CASE i <= n
    <3>1. i \in 1 .. n /\ i \in 0 .. n
      BY <2>1
    <3>2. PICK y \in RowItems : y = Flow[i] /\ y = Flow'[i] /\ y.kind = "rows"
      BY <1>1, <3>1, ItemKind
    <3>3. PICK r \in Nat : r = Reach(y) /\ r > 0
      <4>1. y.nc \in Nat /\ Len(y.k) \in Nat /\ Len(y.k) > 0
        BY ItemType
      <4> QED BY <4>1 DEF Reach
    <3>4. PICK e \in BOOLEAN : e <=> y.end # -1
      OBVIOUS
    <3>5. ItemOK(y) /\ Continues(r, e, i)
      BY <3>1, <3>2, <3>3, <3>4 DEF FlowInv
    <3>6. ItemOK(y)' /\ Continues(r, e, i)'
      BY <1>2, <3>1, <3>3, <3>5, ItemPersists
    <3> QED BY <3>2, <3>3, <3>4, <3>6
  <2>2. CASE i = n + 1
    <3>1. x \in RowItems /\ x.kind = "rows" /\ Flow'[i] = x
      BY <2>2, ItemKind
    <3>2. PICK r \in Nat : r = Reach(x)
      <4>1. x.nc \in Nat /\ Len(x.k) \in Nat /\ Len(x.k) > 0
        BY <3>1, ItemType
      <4> QED BY <4>1 DEF Reach
    <3>3. PICK e \in BOOLEAN : e = (x.end # -1)
      OBVIOUS
    <3>4. EngineFollows(r, e)' /\ ItemOK(x)'
      BY <3>1, <3>2, <3>3
    <3>5. Continues(r, e, i)'
      BY <2>2, <3>4 DEF Continues
    <3> QED BY <3>1, <3>2, <3>3, <3>4, <3>5
  <2> QED BY <2>1, <2>2
<1>4. \A r \in Nat, e \in BOOLEAN :
        (e => r > 0) /\ Continues(r, e, 0) => Continues(r, e, 0)'
  <2>1. 0 \in 0 .. n
    OBVIOUS
  <2> QED BY <1>2, <2>1, Zenon
<1> QED BY <1>3, <1>4 DEF FlowGoesOn

\* The first item goes to where it is kept: the next one continues it.
LEMMA FlowTail ==
  ASSUME QueueType, FlowInv, ask' = ask, preempts' = preempts,
         NEW x \in RowItems, NEW n \in Nat, Len(Flow) = n + 1, Flow[1] = x,
         Len(Flow') = n, \A i \in 1 .. n : Flow'[i] = Flow[i + 1],
         \A r \in Nat, e \in BOOLEAN : EngineFollows(r, e) => EngineFollows(r, e)'
  PROVE  /\ FlowInv' /\ ItemOK(x)
         /\ \A r \in Nat, e \in BOOLEAN :
              r = Reach(x) /\ e = (x.end # -1) => Continues(r, e, 0)'
         /\ \A r \in Nat, e \in BOOLEAN : Continues(r, e, 0) => Follows(r, e, x)
<1>1. /\ \A i \in 1 .. n + 1 : Flow[i] \in Item
      /\ x.kind = "rows"
  BY FlowIs, ItemType
<1>2. ASSUME NEW r \in Nat, NEW e \in BOOLEAN, NEW i \in 0 .. n, Continues(r, e, i + 1)
      PROVE  Continues(r, e, i)'
  <2>1. CASE i < n
    <3>1. i + 1 \in 1 .. n /\ i + 1 < n + 1 /\ (i + 1) + 1 \in 1 .. n + 1
      BY <2>1
    <3>2. PICK y \in Item : y = Flow[(i + 1) + 1] /\ y = Flow'[i + 1]
      BY <1>1, <3>1
    <3>3. CASE y.kind = "rows"
      <4>1. Follows(r, e, y)
        BY <1>2, <3>1, <3>2, <3>3 DEF Continues
      <4>2. Follows(r, e, y)'
        BY <4>1, FollowsPersists
      <4> QED BY <2>1, <3>2, <3>3, <4>2 DEF Continues
    <3>4. CASE y.kind # "rows"
      <4>1. EngineFollows(r, e)
        BY <1>2, <3>1, <3>2, <3>4 DEF Continues
      <4>2. EngineFollows(r, e)'
        BY <4>1
      <4> QED BY <3>2, <3>4, <4>2 DEF Continues
    <3> QED BY <3>3, <3>4
  <2>2. CASE i = n
    <3>1. ~(i + 1 < n + 1) /\ ~(i < n)
      BY <2>2
    <3>2. EngineFollows(r, e)
      BY <1>2, <3>1 DEF Continues
    <3>3. EngineFollows(r, e)'
      BY <3>2
    <3> QED BY <3>1, <3>3 DEF Continues
  <2> QED BY <2>1, <2>2
<1>3. ASSUME NEW y \in RowItems, NEW r \in Nat, NEW e \in BOOLEAN, NEW i \in 1 .. n + 1,
             y = Flow[i], r = Reach(y), e = (y.end # -1)
      PROVE  ItemOK(y) /\ Continues(r, e, i)
  <2>1. y.kind = "rows"
    BY ItemType
  <2> QED BY <1>3, <2>1 DEF FlowInv
<1>4. ASSUME NEW y \in RowItems PROVE \E r \in Nat, e \in BOOLEAN : r = Reach(y) /\ e = (y.end # -1)
  <2>1. y.nc \in Nat /\ Len(y.k) \in Nat
    BY ItemType
  <2>2. PICK r \in Nat : r = Reach(y)
    BY <2>1 DEF Reach
  <2>3. CASE y.end = -1
    BY <2>2, <2>3
  <2>4. CASE y.end # -1
    BY <2>2, <2>4
  <2> QED BY <2>3, <2>4
<1>5. FlowInv'
  <2> SUFFICES ASSUME NEW i \in 1 .. Len(Flow'), Flow'[i].kind = "rows"
               PROVE  /\ ItemOK(Flow[i])'
                      /\ Continues(Reach(Flow[i]), Flow[i].end # -1, i)'
    BY DEF FlowInv
  <2>1. i \in 1 .. n /\ i \in 0 .. n /\ i + 1 \in 1 .. n + 1
    OBVIOUS
  <2>2. PICK y \in RowItems : y = Flow[i + 1] /\ y = Flow'[i]
    BY <1>1, <2>1, ItemKind
  <2>3. PICK r \in Nat, e \in BOOLEAN : r = Reach(y) /\ e = (y.end # -1)
    BY <1>4
  <2>4. ItemOK(y) /\ Continues(r, e, i + 1)
    BY <1>3, <2>1, <2>2, <2>3
  <2>5. ItemOK(y)' /\ Continues(r, e, i)'
    BY <1>2, <2>1, <2>4, ItemPersists
  <2> QED BY <2>2, <2>3, <2>5
<1>6. ItemOK(x) /\ \A r \in Nat, e \in BOOLEAN :
              r = Reach(x) /\ e = (x.end # -1) => Continues(r, e, 0)'
  <2>1. 1 \in 1 .. n + 1 /\ 0 \in 0 .. n /\ 0 + 1 = 1
    OBVIOUS
  <2>2. \A r \in Nat, e \in BOOLEAN :
              r = Reach(x) /\ e = (x.end # -1) => ItemOK(x) /\ Continues(r, e, 0 + 1)
    BY <1>3, <2>1
  <2> QED BY <1>2, <1>4, <2>1, <2>2
<1>7. ASSUME NEW r \in Nat, NEW e \in BOOLEAN, Continues(r, e, 0) PROVE Follows(r, e, x)
  <2>1. 0 < n + 1 /\ 0 + 1 = 1
    OBVIOUS
  <2> QED BY <1>1, <1>7, <2>1 DEF Continues
<1> QED BY <1>5, <1>6, <1>7
LEMMA FlowAppended ==
  ASSUME QueueType, QueueType', goal' = goal, NEW x \in Item,
         queue' = Append(queue, x), consumer' = consumer
  PROVE  \E n \in Nat : /\ n = Len(Flow) /\ Len(Flow') = n + 1 /\ Flow'[n + 1] = x
                        /\ \A i \in 1 .. n : Flow'[i] = Flow[i]
<1>1. PICK m \in Nat : m = Len(queue)
  BY FlowIs
<1>2. Len(queue') = m + 1 /\ queue'[m + 1] = x /\ \A i \in 1 .. m : queue'[i] = queue[i]
  BY <1>1, Appended
<1>3. CASE consumer.at = "rows"
  <2>1. /\ Len(Flow) = m + 1 /\ Flow[1] = consumer.item
        /\ \A i \in 1 .. m : Flow[i + 1] = queue[i]
    BY <1>1, <1>3, FlowIs
  <2>2. /\ Len(Flow') = m + 1 + 1 /\ Flow'[1] = consumer.item
        /\ \A i \in 1 .. m + 1 : Flow'[i + 1] = queue'[i]
    BY <1>2, <1>3, FlowAfter
  <2>3. m + 1 \in Nat /\ m + 1 \in 1 .. m + 1
    OBVIOUS
  <2>4. Flow'[m + 1 + 1] = x
    BY <1>2, <2>2, <2>3, Zenon
  <2>5. ASSUME NEW i \in 1 .. m + 1 PROVE Flow'[i] = Flow[i]
    <3>1. CASE i = 1
      BY <2>1, <2>2, <3>1
    <3>2. CASE i # 1
      <4>1. PICK j \in 1 .. m : i = j + 1
        <5>1. i - 1 \in 1 .. m /\ i = (i - 1) + 1
          BY <3>2
        <5> QED BY <5>1, Zenon
      <4>2. j \in 1 .. m + 1
        OBVIOUS
      <4>3. Flow'[j + 1] = queue'[j] /\ queue'[j] = queue[j] /\ Flow[j + 1] = queue[j]
        BY <1>2, <2>1, <2>2, <4>2
      <4> QED BY <4>1, <4>3
    <3> QED BY <3>1, <3>2
  <2> QED BY <2>1, <2>2, <2>3, <2>4, <2>5, Zenon
<1>4. CASE consumer.at # "rows"
  <2>1. Flow = queue /\ Flow' = queue'
    BY <1>4, FlowIs, FlowAfter
  <2> QED BY <1>1, <1>2, <2>1
<1> QED BY <1>3, <1>4

\* Before the finish only rows are on their way.
LEMMA OnlyRows ==
  ASSUME QueueType, FinishInv, engine # "finished"
  PROVE  \A i \in 1 .. Len(Flow) : Flow[i].kind = "rows"
<1>1. \A i \in 1 .. Len(queue) : queue[i].kind = "rows"
  BY QueueFacts, ItemKind DEF FinishInv
<1>2. CASE consumer.at = "rows"
  <2>1. /\ Len(Flow) = Len(queue) + 1 /\ Flow[1] = consumer.item /\ Len(queue) \in Nat
        /\ \A i \in 1 .. Len(queue) : Flow[i + 1] = queue[i]
    BY <1>2, FlowIs
  <2>2. Flow[1].kind = "rows"
    BY <1>2, <2>1, HeldType, ItemType
  <2>3. \A i \in 1 .. Len(Flow) : i = 1 \/ (i - 1 \in 1 .. Len(queue) /\ (i - 1) + 1 = i)
    BY <2>1
  <2>4. \A i \in 1 .. Len(queue) : Flow[i + 1].kind = "rows"
    BY <1>1, <2>1
  <2> QED BY <2>2, <2>3, <2>4
<1>3. CASE consumer.at # "rows"
  BY <1>1, <1>3, FlowIs
<1> QED BY <1>2, <1>3

LEMMA FlowStep ==
  ASSUME TypeOK, TypeOK', FinishInv, EngineInv, FlowInv, NEW n \in 1 .. Chunk, Step(n)
  PROVE  FlowGoesOn
<1>1. /\ QueueType /\ QueueType' /\ goal' = goal /\ ask' = ask /\ preempts' = preempts
      /\ engine # "finished" /\ consumer' = consumer /\ n <= tokens - computed
      /\ queue' = IF Captures THEN Append(queue, RecordOf(n)) ELSE queue
  BY DEF TypeOK, Step
<1>2. CASE Captures
  <2>1. PICK x \in RowItems : x = RecordOf(n)
    BY <1>1, RecordType
  <2>2. x \in Item /\ x.kind = "rows" /\ queue' = Append(queue, x)
    BY <1>1, <1>2, <2>1, ItemType DEF Item
  <2>3. PICK m \in Nat : /\ m = Len(Flow) /\ Len(Flow') = m + 1 /\ Flow'[m + 1] = x
                         /\ \A i \in 1 .. m : Flow'[i] = Flow[i]
    BY <1>1, <2>2, FlowAppended
  <2>4. \A i \in 1 .. m : Flow[i].kind = "rows"
    BY <1>1, <2>3, OnlyRows
  <2>5. ItemOK(x) /\ Reach(x) = computed + n
    BY <1>2, <2>1, StepItem
  <2>6. ItemOK(x)'
    BY <1>1, <2>5, ItemPersists
  <2>7. ASSUME NEW r \in Nat, NEW e \in BOOLEAN, r = Reach(x), e = (x.end # -1)
        PROVE  EngineFollows(r, e)'
    <3>1. e => EmitsQ(n)
      BY <1>1, <2>1, <2>7, RecordType
    <3> QED BY <1>2, <2>5, <2>7, <3>1, StepLeads
  <2>8. ASSUME NEW r \in Nat, NEW e \in BOOLEAN, EngineFollows(r, e) PROVE Follows(r, e, x)'
    <3>1. Follows(r, e, x)
      BY <1>2, <2>1, <2>8, StepFollows
    <3> QED BY <1>1, <3>1, FollowsPersists
  <2>9. preempts' = 0 => preempts = 0
    BY <1>1
  <2> HIDE DEF Item
  <2> QED BY <1>1, <2>2, <2>3, <2>4, <2>6, <2>7, <2>8, <2>9, FlowAppend
<1>3. CASE ~Captures
  <2>1. queue' = queue
    BY <1>1, <1>3
  <2>2. Flow' = Flow /\ Len(Flow) \in Nat
    BY <1>1, <2>1, FlowIs DEF Flow
  <2>3. \A r \in Nat, e \in BOOLEAN : EngineFollows(r, e) => EngineFollows(r, e)'
    BY <1>3, StepUncaptured
  <2> QED BY <1>1, <2>2, <2>3, FlowKeeps
<1> QED BY <1>2, <1>3

LEMMA FlowFinish ==
  ASSUME TypeOK, TypeOK', FinishInv, FlowInv, EnqueueFinish
  PROVE  FlowGoesOn
<1>1. /\ QueueType /\ QueueType' /\ UNCHANGED <<ask, goal, computed, prefillLen, preempts>>
      /\ engine # "finished" /\ engine' # "running" /\ consumer' = consumer
      /\ queue' = Append(queue, FinishItem)
  BY DEF TypeOK, EnqueueFinish
<1>2. FinishItem \in Item /\ FinishItem.kind = "finish"
  BY DEF Item, FinishItem
<1>3. PICK m \in Nat : /\ m = Len(Flow) /\ Len(Flow') = m + 1 /\ Flow'[m + 1] = FinishItem
                       /\ \A i \in 1 .. m : Flow'[i] = Flow[i]
  BY <1>1, <1>2, FlowAppended
<1>4. \A i \in 1 .. m : Flow[i].kind = "rows"
  BY <1>1, <1>3, OnlyRows
<1>5. PICK x \in Item : x = FinishItem
  BY <1>2
<1>6. \A r \in Nat, e \in BOOLEAN : EngineFollows(r, e) => EngineFollows(r, e)'
  BY <1>1, OtherLeads
<1>7. x.kind # "rows" /\ (preempts' = 0 => preempts = 0)
  BY <1>1, <1>2, <1>5
<1> QED BY <1>1, <1>3, <1>4, <1>5, <1>6, <1>7, FlowAppend

LEMMA FlowTake ==
  ASSUME TypeOK, TypeOK', FinishInv, FlowInv, TakeItem
  PROVE  FlowGoesOn
<1>1. /\ QueueType /\ QueueType' /\ UNCHANGED engineVars
      /\ consumer.at = "get" /\ queue # <<>> /\ queue' = Tail(queue)
      /\ consumer'.at = Head(queue).kind /\ consumer'.item = Head(queue)
  BY DEF TypeOK, TakeItem
<1>2. /\ ask' = ask /\ goal' = goal /\ (preempts' = 0 => preempts = 0)
      /\ \A r \in Nat, e \in BOOLEAN : EngineFollows(r, e) => EngineFollows(r, e)'
  BY <1>1, OtherLeads DEF engineVars
<1>3. PICK m \in Nat, x \in Item :
        /\ Len(queue) = m + 1 /\ Len(queue') = m /\ x = queue[1] /\ x = Head(queue)
        /\ \A i \in 1 .. m : queue'[i] = queue[i + 1]
  <2>1. /\ Head(queue) = queue[1] /\ queue[1] \in Item
        /\ Len(queue) \in Nat /\ Len(queue) > 0 /\ Len(queue') = Len(queue) - 1
        /\ \A i \in 1 .. Len(queue) - 1 : queue'[i] = queue[i + 1]
    BY <1>1, Taken
  <2>2. Len(queue) - 1 \in Nat /\ Len(queue) = (Len(queue) - 1) + 1
    BY <2>1
  <2> QED BY <2>1, <2>2, Zenon
<1>4. Flow = queue
  BY <1>1, FlowIs
<1>5. CASE x.kind = "rows"
  <2>1. /\ Len(Flow') = m + 1 /\ Flow'[1] = x
        /\ \A i \in 1 .. m : Flow'[i + 1] = queue[i + 1]
    BY <1>1, <1>2, <1>3, <1>5, FlowAfter
  <2>2. ASSUME NEW i \in 1 .. m + 1 PROVE Flow'[i] = Flow[i]
    <3>1. CASE i = 1
      BY <1>3, <1>4, <2>1, <3>1
    <3>2. CASE i # 1
      <4>1. PICK j \in 1 .. m : i = j + 1
        <5>1. i - 1 \in 1 .. m /\ i = (i - 1) + 1
          BY <3>2
        <5> QED BY <5>1, Zenon
      <4> QED BY <1>4, <2>1, <4>1
    <3> QED BY <3>1, <3>2
  <2>3. Len(Flow') = Len(Flow) /\ \A i \in 1 .. Len(Flow) : Flow'[i] = Flow[i]
    BY <1>3, <1>4, <2>1, <2>2
  <2> QED BY <1>1, <1>2, <2>3, FlowKeeps
<1>6. CASE x.kind # "rows"
  <2>1. queue[1].kind = "finish" /\ 1 \in 1 .. Len(queue)
    BY <1>3, <1>6, ItemKind
  <2>2. Len(queue) = 1
    BY <1>1, <1>3, <2>1 DEF FinishInv
  <2>3. Len(queue') = 0 /\ Flow' = queue'
    <3>1. consumer'.at # "rows"
      BY <1>1, <1>3, <1>6, Zenon
    <3>3. m + 1 = 1 /\ Len(queue') = m
      BY <1>3, <2>2, Zenon
    <3>2. Flow' = queue'
      BY <1>1, <1>2, <3>1, FlowAfter
    <3> QED BY <3>2, <3>3
  <2>4. FlowInv'
    <3>1. 1 .. Len(Flow') = {}
      BY <2>3
    <3> QED BY <3>1 DEF FlowInv
  <2>5. ASSUME NEW r \in Nat, NEW e \in BOOLEAN, Continues(r, e, 0) PROVE Continues(r, e, 0)'
    <3>1. Flow[0 + 1].kind # "rows" /\ ~(0 < Len(Flow'))
      BY <1>4, <2>1, <2>3
    <3>2. EngineFollows(r, e)
      BY <2>5, <3>1 DEF Continues
    <3>3. EngineFollows(r, e)'
      BY <1>2, <3>2
    <3> QED BY <3>1, <3>3 DEF Continues
  <2> QED BY <2>4, <2>5 DEF FlowGoesOn
<1> QED BY <1>5, <1>6

\* The rows that the consumer holds are kept.
LEMMA FlowDemux ==
  ASSUME TypeOK, TypeOK', FlowInv, consumer.at = "rows", consumer' = Idle,
         UNCHANGED <<engineVars, queue>>, NEW x \in RowItems, x = consumer.item
  PROVE  /\ FlowInv' /\ ItemOK(x)
         /\ \A r \in Nat, e \in BOOLEAN :
              r = Reach(x) /\ e = (x.end # -1) => Continues(r, e, 0)'
         /\ \A r \in Nat, e \in BOOLEAN : Continues(r, e, 0) => Follows(r, e, x)
<1>1. QueueType /\ QueueType' /\ goal' = goal /\ ask' = ask /\ preempts' = preempts
  BY DEF TypeOK, engineVars
<1>2. PICK n \in Nat : n = Len(queue)
  BY <1>1, FlowIs
<1>3. /\ Len(Flow) = n + 1 /\ Flow[1] = x
      /\ \A i \in 1 .. n : Flow[i + 1] = queue[i]
  BY <1>1, <1>2, FlowIs
<1>4. Flow' = queue
  BY <1>1, FlowAfter DEF Idle
<1>5. \A r \in Nat, e \in BOOLEAN : EngineFollows(r, e) => EngineFollows(r, e)'
  BY OtherLeads DEF engineVars
<1>6. Len(Flow') = n /\ \A i \in 1 .. n : Flow'[i] = Flow[i + 1]
  BY <1>2, <1>3, <1>4
<1> QED BY <1>1, <1>3, <1>5, <1>6, FlowTail

LEMMA FlowOther ==
  ASSUME TypeOK, TypeOK', FinishInv, EngineInv, FlowInv, ~CacheHits, [Next]_vars,
         consumer.at = "rows" => consumer' = consumer
  PROVE  FlowGoesOn
<1>1. QueueType /\ ask' = ask /\ goal' = goal
  BY SameAsk DEF TypeOK
<1>2. ASSUME consumer' = consumer \/ (consumer.at # "rows" /\ consumer'.at # "rows"),
             queue' = queue, preempts' = 0 => preempts = 0,
             \A r \in Nat, e \in BOOLEAN :
               (e => r > 0) /\ EngineFollows(r, e) => EngineFollows(r, e)'
      PROVE  FlowGoesOn
  <2>1. Flow' = Flow
    BY <1>2 DEF Flow
  <2> QED BY <1>1, <1>2, <2>1, FlowKeeps
<1>3. ASSUME consumer' = consumer \/ (consumer.at # "rows" /\ consumer'.at # "rows"),
             queue' = queue,
             UNCHANGED <<computed, prefillLen, preempts>>, engine' = "running" => engine = "running"
      PROVE  FlowGoesOn
  <2>1. preempts' = 0 => preempts = 0
    BY <1>3
  <2>2. \A r \in Nat, e \in BOOLEAN :
          (e => r > 0) /\ EngineFollows(r, e) => EngineFollows(r, e)'
    BY <1>1, <1>3, OtherLeads
  <2> QED BY <1>2, <1>3, <2>1, <2>2, Zenon
<1>4. ASSUME NEW n \in 1 .. Chunk, Step(n) PROVE FlowGoesOn
  BY <1>4, FlowStep
<1>5. ASSUME NEW c \in Cached, Preempt(c) PROVE FlowGoesOn
  <2>1. consumer' = consumer /\ queue' = queue /\ (preempts' = 0 => preempts = 0)
    BY <1>5 DEF Preempt, TypeOK, EngineType
  <2>2. \A r \in Nat, e \in BOOLEAN :
          (e => r > 0) /\ EngineFollows(r, e) => EngineFollows(r, e)'
    BY <1>5, PreemptLeads
  <2> QED BY <1>2, <2>1, <2>2, Zenon
<1>6. CASE EnqueueFinish
  BY <1>6, FlowFinish
<1>7. CASE TakeItem
  BY <1>7, FlowTake
<1>8. CASE DemuxToDisk \/ DiskWriteFails \/ DemuxToHost
  BY <1>8, <1>1, HeldType DEF DemuxToDisk, DiskWriteFails, DemuxToHost, Idle
<1>9. CASE FinishAborted \/ FinishDisk \/ FinishHost
  <2>1. consumer.at = "finish" /\ consumer' = Idle /\ UNCHANGED <<engineVars, queue>>
    BY <1>9 DEF FinishAborted, FinishDisk, FinishHost
  <2>2. consumer.at # "rows" /\ consumer'.at # "rows"
    BY <2>1 DEF Idle
  <2> QED BY <1>3, <2>1, <2>2 DEF engineVars
<1>10. CASE UNCHANGED vars \/ Transfer \/ Fetch \/ Confirm \/ WaitTimesOut \/ Abort
            \/ ClearDisk \/ MarkHost \/ FreeHost
  <2>1. consumer' = consumer /\ queue' = queue /\ UNCHANGED <<computed, prefillLen, preempts>>
        /\ (engine' = "running" => engine = "running")
    BY <1>10 DEF vars, engineVars, Transfer, Fetch, Confirm, WaitTimesOut, Abort,
       ClearDisk, MarkHost, FreeHost
  <2> QED BY <1>3, <2>1
<1> QED
  BY <1>4, <1>5, <1>6, <1>7, <1>8, <1>9, <1>10, Zenon DEF Next, Engine, Consumer, Client
-----------------------------------------------------------------------------
(***************************************************************************)
(* What is kept.                                                           *)
(***************************************************************************)

LEMMA EndsGrow ==
  ASSUME NEW ends \in Seq(Nat \ {0}), NEW b \in Nat \ {0}
  PROVE  /\ Append(ends, b) \in Seq(Nat \ {0}) /\ Len(ends) \in Nat
         /\ Len(Append(ends, b)) = Len(ends) + 1
         /\ \A i \in 1 .. Len(ends) : Append(ends, b)[i] = ends[i]
         /\ Append(ends, b)[Len(ends) + 1] = b
         /\ Append(ends, b) # <<>> /\ LastOf(Append(ends, b)) = b
<1> DEFINE w == Append(ends, b)
           n == Len(ends)
<1>1. n \in Nat /\ w \in Seq(Nat \ {0}) /\ Len(w) = n + 1
  BY AppendProperties
<1>2. \A i \in 1 .. n + 1 : w[i] = IF i <= n THEN ends[i] ELSE b
  OBVIOUS
<1> HIDE DEF w, n
<1>3. (\A i \in 1 .. n : w[i] = ends[i]) /\ w[n + 1] = b
  BY <1>1, <1>2
<1>4. w # <<>>
  BY <1>1
<1> QED BY <1>1, <1>3, <1>4 DEF w, n, LastOf

LEMMA EndsFacts ==
  ASSUME NEW ends \in Seq(Nat \ {0})
  PROVE  /\ Len(ends) \in Nat /\ \A i \in 1 .. Len(ends) : ends[i] \in Nat /\ ends[i] > 0
         /\ ends # <<>> <=> Len(ends) > 0
         /\ ends # <<>> => LastOf(ends) = ends[Len(ends)] /\ 1 \in 1 .. Len(ends)
                           /\ Len(ends) \in 1 .. Len(ends)
<1>1. /\ Len(ends) \in Nat /\ \A i \in 1 .. Len(ends) : ends[i] \in Nat \ {0}
      /\ ends # <<>> <=> Len(ends) > 0
  OBVIOUS
<1> QED BY <1>1 DEF LastOf

LEMMA ReachIs ==
  ASSUME NEW k \in Rows
  PROVE  /\ LastReach(k) \in Nat /\ Len(k) \in Nat
         /\ k = <<>> => LastReach(k) = 0 /\ Len(k) = 0
         /\ k # <<>> => LastReach(k) = k[Len(k)] + 1 /\ Len(k) > 0
         /\ Len(k) = 0 => k = <<>>
<1>1. Len(k) \in Nat /\ (k # <<>> <=> Len(k) > 0) /\ \A i \in 1 .. Len(k) : k[i] \in Nat
  BY RowsFacts
<1>2. k # <<>> => k[Len(k)] \in Nat
  BY <1>1
<1> QED BY <1>1, <1>2 DEF LastReach, LastOf

\* Rows of an item, after those that are kept.
LEMMA KeysGrow ==
  ASSUME NEW k \in Rows, NEW c \in Nat, NEW b \in Nat, c < b
  PROVE  /\ k \o Positions(c, b) \in Rows
         /\ Len(k \o Positions(c, b)) = Len(k) + (b - c)
         /\ LastReach(k \o Positions(c, b)) = b
         /\ k = Positions(0, c) => k \o Positions(c, b) = Positions(0, b)
<1> DEFINE p == Positions(c, b)
           w == k \o p
           n == Len(k)
<1>1. p \in Rows /\ Len(p) = b - c /\ \A i \in 1 .. b - c : p[i] = c + i - 1
  <2>1. c <= b
    OBVIOUS
  <2> QED BY <2>1, PositionsAre, Zenon
<1> HIDE DEF p
<1>2. /\ w \in Rows /\ Len(w) = n + Len(p) /\ n \in Nat
      /\ \A i \in 1 .. Len(p) : w[n + i] = p[i]
  BY <1>1, RowsFacts
<1> HIDE DEF w, n
<1>3. w # <<>> /\ w[n + (b - c)] = b - 1 /\ Len(w) = n + (b - c)
  <2>1. b - c \in 1 .. b - c /\ c + (b - c) - 1 = b - 1 /\ b - c > 0
    OBVIOUS
  <2>2. p[b - c] = b - 1
    BY <1>1, <2>1
  <2>3. w[n + (b - c)] = p[b - c] /\ Len(w) = n + (b - c)
    BY <1>1, <1>2, <2>1
  <2>4. w # <<>>
    BY <1>2, <2>1, <2>3, RowsFacts
  <2> QED BY <2>2, <2>3, <2>4
<1>4. LastReach(w) = b
  <2>1. LastReach(w) = w[Len(w)] + 1
    BY <1>2, <1>3, ReachIs
  <2>2. w[Len(w)] = b - 1
    BY <1>3, Zenon
  <2> QED BY <2>1, <2>2
<1>5. k = Positions(0, c) => w = Positions(0, b)
  <2>1. 0 \in Nat /\ 0 <= c /\ c <= b
    OBVIOUS
  <2>2. Positions(0, c) \o Positions(c, b) = Positions(0, b)
    BY <2>1, PositionsConcat, Zenon
  <2> QED BY <2>2 DEF w, p
<1> QED BY <1>2, <1>3, <1>4, <1>5 DEF w, p, n

\* Nothing is kept yet.
LEMMA StoreEmpty ==
  /\ StoreOK(<<>>, <<>>, <<>>) /\ LastReach(<<>>) = 0 /\ ~Emitted(<<>>, <<>>)
<1>1. <<>> \in Seq(Nat \ {0}) /\ <<>> \in Rows /\ Len(<<>>) = 0 /\ 1 .. 0 = {}
  BY EmptySeq DEF Rows
<1>2. LastReach(<<>>) = 0
  BY DEF LastReach
<1>3. From \in Nat
  BY Constants DEF From
<1>4. Positions(0, 0) = <<>> /\ Positions(From, 0) = <<>>
  BY <1>3, PositionsEmpty
<1>5. 1 .. 0 - 1 = {}
  OBVIOUS
<1> QED BY <1>1, <1>2, <1>3, <1>4, <1>5 DEF StoreOK, Emitted, Clean

\* A request that is preempted loses only the exactness of what is undisturbed.
LEMMA StorePersists ==
  ASSUME ask' = ask, preempts' = 0 => preempts = 0, NEW k, NEW q, NEW ends, StoreOK(k, q, ends)
  PROVE  StoreOK(k, q, ends)'
BY DEF StoreOK, Clean, LastReach, From

LEMMA StoreAppend ==
  ASSUME TypeOK, NEW k \in Rows, NEW q \in Rows, NEW ends, StoreOK(k, q, ends),
         NEW x \in RowItems, ItemOK(x), Follows(LastReach(k), Emitted(k, ends), x),
         NEW more, more = IF x.end < 0 THEN ends ELSE Append(ends, x.end)
  PROVE  /\ StoreOK(k \o x.k, q \o x.q, more)
         /\ LastReach(k \o x.k) = Reach(x)
         /\ Emitted(k \o x.k, more) => x.end # -1
<1> DEFINE L == Len(k)
           c == x.nc
           b == Reach(x)
           K == k \o x.k
           Q == q \o x.q
           m == Len(ends)
<1>1. /\ c \in Nat /\ b \in Nat /\ c < b /\ L \in Nat /\ b # -1 /\ x.q \in Rows
      /\ x.k = Positions(c, b) /\ x.end \in {-1, b}
  <2>1. x.nc \in Nat /\ Len(x.k) \in Nat /\ Len(x.k) > 0 /\ x.q \in Rows
    BY ItemType DEF TypeOK, EngineType
  <2>2. Len(k) \in Nat
    BY RowsFacts
  <2> QED BY <2>1, <2>2 DEF Reach, ItemOK
<1>2. /\ ask.mode \in {"all_tokens", "last_token"} /\ From \in Nat
  BY AskIs, Constants DEF TypeOK, EngineType, From
<1>3. /\ K \in Rows /\ Len(K) = L + (b - c) /\ LastReach(K) = b
      /\ k = Positions(0, c) => K = Positions(0, b)
  <2> HIDE DEF L, c, b, K
  <2>1. /\ k \o Positions(c, b) \in Rows
        /\ Len(k \o Positions(c, b)) = L + (b - c)
        /\ LastReach(k \o Positions(c, b)) = b
        /\ k = Positions(0, c) => k \o Positions(c, b) = Positions(0, b)
    BY <1>1, KeysGrow, Zenon DEF L
  <2>2. K = k \o Positions(c, b)
    BY <1>1 DEF K
  <2> QED BY <2>1, <2>2, Zenon
<1>4. /\ ends \in Seq(Nat \ {0}) /\ m \in Nat
      /\ \A i \in 1 .. m : ends[i] \in Nat /\ ends[i] > 0 /\ ends[i] <= L
      /\ ends # <<>> <=> m > 0
      /\ ends # <<>> => LastOf(ends) = ends[m] /\ 1 \in 1 .. m /\ m \in 1 .. m
  BY EndsFacts DEF StoreOK
<1>5. LastReach(k) <= L /\ LastReach(k) \in Nat /\ (Clean(k) <=> LastReach(k) = L)
      /\ c \in {0, LastReach(k)} /\ (preempts = 0 => c = LastReach(k))
      /\ (L = 0 => LastReach(k) = 0)
  BY ReachIs DEF StoreOK, Clean, Follows
<1>6. /\ more \in Seq(Nat \ {0})
      /\ x.end = -1 => more = ends /\ Len(more) = m
      /\ x.end # -1 => /\ Len(more) = m + 1 /\ more[m + 1] = b
                       /\ \A i \in 1 .. m : more[i] = ends[i]
                       /\ more # <<>> /\ LastOf(more) = b
  <2>1. CASE x.end = -1
    BY <1>4, <2>1
  <2>2. CASE x.end # -1
    <3>1. more = Append(ends, b) /\ b \in Nat \ {0}
      BY <1>1, <2>2
    <3> QED BY <1>4, <2>2, <3>1, EndsGrow
  <2> QED BY <2>1, <2>2
<1> HIDE DEF L, b, K, Q, m
<1>7. \A i \in 1 .. Len(more) : more[i] <= Len(K) /\ (c < L => more[i] < Len(K))
  <2> SUFFICES ASSUME NEW i \in 1 .. Len(more)
               PROVE  more[i] <= Len(K) /\ (c < L => more[i] < Len(K))
    OBVIOUS
  <2>1. c <= L
    BY <1>1, <1>5
  <2> HIDE DEF c
  <2>2. PICK d \in Nat : d = b - c /\ d > 0 /\ Len(K) = L + d /\ b = c + d
    <3>1. b - c \in Nat /\ b - c > 0 /\ b = c + (b - c)
      BY <1>1
    <3> QED BY <1>3, <3>1, Zenon
  <2>3. CASE i \in 1 .. m
    <3>1. more[i] = ends[i] /\ ends[i] \in Nat /\ ends[i] <= L
      BY <1>4, <1>6, <2>3
    <3>2. PICK e \in Nat : e = more[i] /\ e <= L
      BY <3>1
    <3>3. e <= L + d /\ e < L + d
      BY <1>1, <2>2, <3>2
    <3> QED BY <2>2, <3>2, <3>3
  <2>4. CASE i \notin 1 .. m
    <3>1. x.end # -1
      BY <1>6, <2>4
    <3>2. Len(more) = m + 1 /\ m \in Nat
      BY <1>4, <1>6, <3>1
    <3>3. i = m + 1
      BY <2>4, <3>2
    <3>4. more[i] = b
      BY <1>6, <3>1, <3>3
    <3>5. c + d <= L + d /\ (c < L => c + d < L + d)
      BY <1>1, <2>1, <2>2
    <3> QED BY <2>2, <3>4, <3>5
  <2> QED BY <2>3, <2>4
<1>8. LastReach(K) <= Len(K) /\ (Clean(K) <=> c = L)
  BY <1>1, <1>3, <1>5 DEF Clean
<1>9. Emitted(K, more) => x.end # -1
  <2> SUFFICES ASSUME Emitted(K, more), x.end = -1 PROVE FALSE
    OBVIOUS
  <2>1. more = ends /\ ends # <<>> /\ LastOf(ends) = Len(K)
    BY <1>6 DEF Emitted
  <2>2. ends[m] <= L /\ ends[m] \in Nat /\ ends[m] = Len(K)
    BY <1>4, <2>1
  <2> QED BY <1>1, <1>3, <2>2
<1>10. ASSUME c = L PROVE Clean(k) /\ c = LastReach(k) /\ k = Positions(0, L) /\ K = Positions(0, b)
  <2>1. Clean(k) /\ c = LastReach(k)
    BY <1>1, <1>5, <1>10
  <2>2. k = Positions(0, L)
    BY <2>1 DEF StoreOK, L
  <2> QED BY <1>3, <1>10, <2>1, <2>2
<1>11. ASSUME c = L, NEW i \in 1 .. Len(more) - 1 PROVE more[i] < more[i + 1]
  <2>1. \A j \in 1 .. m - 1 : ends[j] < ends[j + 1]
    BY <1>10, <1>11 DEF StoreOK, m
  <2>2. CASE x.end = -1
    BY <1>6, <1>11, <2>1, <2>2 DEF m
  <2>3. CASE x.end # -1
    <3>1. i \in 1 .. m /\ Len(more) = m + 1
      BY <1>4, <1>6, <2>3
    <3>2. CASE i = m
      <4>1. more[i] = ends[i] /\ ends[i] <= L /\ ends[i] \in Nat /\ more[i + 1] = b
        BY <1>4, <1>6, <2>3, <3>1, <3>2
      <4> QED BY <1>1, <1>11, <4>1
    <3>3. CASE i # m
      <4>1. i \in 1 .. m - 1 /\ i + 1 \in 1 .. m
        BY <1>4, <3>1, <3>3
      <4>2. more[i] = ends[i] /\ more[i + 1] = ends[i + 1]
        BY <1>6, <2>3, <3>1, <4>1
      <4> QED BY <2>1, <4>1, <4>2
    <3> QED BY <3>2, <3>3
  <2> QED BY <2>2, <2>3
<1>12. ASSUME c = L, ask.mode = "last_token"
       PROVE  Len(Q) = Len(more) /\ \A i \in 1 .. Len(more) : Q[i] = more[i] - 1
  <2>1. Len(q) = m /\ \A i \in 1 .. m : q[i] = ends[i] - 1
    BY <1>10, <1>12 DEF StoreOK, m
  <2>2. CASE x.end = -1
    <3>1. x.q = <<>>
      BY <2>2 DEF ItemOK
    <3>2. Q = q
      BY <3>1, ConcatEmptySeq DEF Q, Rows
    <3> QED BY <1>6, <2>1, <2>2, <3>2 DEF m
  <2>3. CASE x.end # -1
    <3>1. x.q = <<b - 1>>
      BY <1>12, <2>3 DEF ItemOK, b
    <3>2. x.q \in Rows /\ Len(x.q) = 1 /\ x.q[1] = b - 1
      BY <1>1, <3>1
    <3>3. /\ Len(Q) = m + 1 /\ \A i \in 1 .. m : Q[i] = q[i]
          /\ Q[m + 1] = b - 1
      <4>1. /\ Len(Q) = Len(q) + Len(x.q) /\ \A i \in 1 .. Len(q) : Q[i] = q[i]
            /\ \A i \in 1 .. Len(x.q) : Q[Len(q) + i] = x.q[i]
        BY <3>2, RowsFacts DEF Q
      <4>2. 1 \in 1 .. 1
        OBVIOUS
      <4> QED BY <2>1, <3>2, <4>1, <4>2
    <3>4. \A i \in 1 .. m + 1 : i \in 1 .. m \/ i = m + 1
      BY <1>4
    <3> QED BY <1>6, <2>1, <2>3, <3>3, <3>4
  <2> QED BY <2>2, <2>3
<1>13. ASSUME c = L, ask.mode = "all_tokens", more = <<>> PROVE Q = <<>>
  <2>1. x.end = -1 /\ ends = <<>>
    BY <1>6, <1>13
  <2>2. x.q = <<>> /\ q = <<>>
    BY <1>10, <1>13, <2>1 DEF StoreOK, ItemOK
  <2> QED BY <2>2, ConcatEmptySeq DEF Q, Rows
<1>14. ASSUME c = L, ask.mode = "all_tokens", more # <<>>
       PROVE  LastOf(more) = Len(K) /\ \E f \in 0 .. more[1] - 1 : Q = Positions(f, Len(K))
  <2>1. x.end # -1
    <3> SUFFICES ASSUME x.end = -1 PROVE FALSE
      OBVIOUS
    <3>1. ends # <<>>
      BY <1>6, <1>14
    <3>2. Emitted(k, ends)
      BY <1>10, <1>14, <3>1 DEF StoreOK, Emitted
    <3> QED BY <1>10, <1>14, <3>2 DEF Follows
  <2>2. LastOf(more) = b /\ Len(K) = b /\ x.q = Positions(L, b)
    BY <1>1, <1>3, <1>6, <1>14, <2>1 DEF ItemOK
  <2>3. CASE ends = <<>>
    <3>1. q = <<>>
      BY <1>10, <1>14, <2>3 DEF StoreOK
    <3>2. Q = Positions(L, b)
      BY <1>1, <2>2, <3>1, ConcatEmptySeq DEF Q, Rows
    <3>3. more[1] = b
      BY <1>4, <1>6, <2>1, <2>3
    <3>4. L \in 0 .. more[1] - 1
      BY <1>1, <1>14, <3>3
    <3> QED BY <2>2, <3>2, <3>4, Zenon
  <2>4. CASE ends # <<>>
    <3>1. PICK f \in 0 .. ends[1] - 1 : q = Positions(f, L)
      BY <1>10, <1>14, <2>4 DEF StoreOK, L
    <3>2. ends[1] \in Nat /\ ends[1] <= L /\ more[1] = ends[1]
      BY <1>4, <1>6, <2>1, <2>4
    <3>3. f \in Nat /\ f <= L /\ L <= b /\ f \in 0 .. more[1] - 1
      BY <1>1, <1>14, <3>2
    <3>4. Positions(f, L) \o Positions(L, b) = Positions(f, b)
      BY <1>1, <3>3, PositionsConcat, Zenon
    <3>5. Q = Positions(f, b)
      BY <2>2, <3>1, <3>4 DEF Q
    <3> QED BY <2>2, <3>3, <3>5, Zenon
  <2> QED BY <2>3, <2>4
<1>15. ASSUME preempts = 0
       PROVE  /\ c = L /\ Q = Positions(From, Len(K))
              /\ more # <<>> <=> Len(K) > From
              /\ more # <<>> => LastOf(more) = Len(K)
  <2>1. Clean(k) /\ q = Positions(From, L) /\ (ends # <<>> <=> L > From)
    BY <1>15 DEF StoreOK, L
  <2>2. c = L /\ Len(K) = b
    BY <1>1, <1>3, <1>5, <1>15, <2>1
  <2>3. (x.end # -1 <=> b > From) /\ x.q = Positions(GreatestOf(L, From), b)
    BY <1>15, <2>2 DEF ItemOK, b
  <2>4. Q = Positions(From, b)
    <3>1. CASE From <= L
      <4>1. GreatestOf(L, From) = L /\ L <= b
        BY <1>1, <1>2, <2>2, <3>1 DEF GreatestOf
      <4>2. Positions(From, L) \o Positions(L, b) = Positions(From, b)
        BY <1>1, <1>2, <3>1, <4>1, PositionsConcat, Zenon
      <4> QED BY <2>1, <2>3, <4>1, <4>2 DEF Q
    <3>2. CASE ~(From <= L)
      <4>1. GreatestOf(L, From) = From /\ L <= From
        BY <1>1, <1>2, <3>2 DEF GreatestOf
      <4>2. q = <<>>
        BY <1>1, <1>2, <2>1, <4>1, PositionsEmpty, Zenon
      <4>3. x.q = Positions(From, b)
        BY <2>3, <4>1
      <4> QED BY <1>1, <4>2, <4>3, ConcatEmptySeq DEF Q, Rows
    <3> QED BY <3>1, <3>2
  <2>5. x.end = -1 => more = <<>>
    BY <1>1, <1>2, <1>6, <2>1, <2>2, <2>3
  <2> QED BY <1>6, <2>2, <2>3, <2>4, <2>5
<1>16. ~Clean(K) => c < L
  BY <1>1, <1>5, <1>8
<1>17. Clean(K) => K = Positions(0, Len(K))
  BY <1>1, <1>3, <1>8, <1>10
<1>18. StoreOK(K, Q, more)
  BY <1>6, <1>7, <1>8, <1>11, <1>12, <1>13, <1>14, <1>15, <1>16, <1>17, Zenon DEF StoreOK
<1> QED BY <1>3, <1>9, <1>18 DEF K, Q, b
LEMMA EmittedReach ==
  ASSUME NEW k \in Rows, NEW ends \in Seq(Nat \ {0})
  PROVE  \E r \in Nat, e \in BOOLEAN :
           r = LastReach(k) /\ e = Emitted(k, ends) /\ (e => r > 0)
<1>1. PICK r \in Nat : r = LastReach(k)
  BY ReachIs
<1>2. Emitted(k, ends) \in BOOLEAN
  BY DEF Emitted
<1>3. Emitted(k, ends) => r > 0
  BY <1>1, EndsFacts DEF Emitted, Clean
<1> QED BY <1>1, <1>2, <1>3

LEMMA ContinuesWeaker ==
  ASSUME NEW r, NEW e \in BOOLEAN, NEW d \in BOOLEAN, d => e, Continues(r, e, 0)'
  PROVE  Continues(r, d, 0)'
BY DEF Continues, Follows, EngineFollows

\* What is kept stays right when no rows are added to it.
LEMMA StoreKeeps ==
  ASSUME NEW k \in Rows, NEW q, NEW ends, StoreInv(k, q, ends), FlowGoesOn,
         ask' = ask, preempts' = 0 => preempts = 0
  PROVE  StoreInv(k, q, ends)'
<1>1. StoreOK(k, q, ends) /\ Continues(LastReach(k), Emitted(k, ends), 0)
  BY DEF StoreInv
<1>2. ends \in Seq(Nat \ {0})
  BY <1>1 DEF StoreOK
<1>3. PICK r \in Nat, e \in BOOLEAN :
        r = LastReach(k) /\ e = Emitted(k, ends) /\ (e => r > 0)
  BY <1>2, EmittedReach
<1>4. Continues(r, e, 0)'
  BY <1>1, <1>3 DEF FlowGoesOn
<1>5. StoreOK(k, q, ends)'
  BY <1>1, StorePersists
<1>6. LastReach(k)' = r /\ Emitted(k, ends)' = e
  BY <1>3 DEF LastReach, Emitted, Clean
<1> QED BY <1>4, <1>5, <1>6 DEF StoreInv

\* ... and when the rows that the consumer holds are.
LEMMA StoreGrows ==
  ASSUME TypeOK, TypeOK', FlowInv, consumer.at = "rows", consumer' = Idle,
         UNCHANGED <<engineVars, queue>>, NEW x \in RowItems, x = consumer.item,
         NEW k \in Rows, NEW q \in Rows, NEW ends, StoreInv(k, q, ends),
         NEW more, more = IF x.end < 0 THEN ends ELSE Append(ends, x.end),
         NEW newk, newk = k \o x.k, NEW newq, newq = q \o x.q
  PROVE  StoreInv(newk, newq, more)' /\ (k = <<>> => x.nc = 0)
<1>1. /\ ItemOK(x)
      /\ \A r \in Nat, e \in BOOLEAN :
           r = Reach(x) /\ e = (x.end # -1) => Continues(r, e, 0)'
      /\ \A r \in Nat, e \in BOOLEAN : Continues(r, e, 0) => Follows(r, e, x)
  BY FlowDemux
<1>2. StoreOK(k, q, ends) /\ Continues(LastReach(k), Emitted(k, ends), 0)
  BY DEF StoreInv
<1>3. ends \in Seq(Nat \ {0})
  BY <1>2 DEF StoreOK
<1>4. PICK r \in Nat, e \in BOOLEAN : r = LastReach(k) /\ e = Emitted(k, ends)
  BY <1>3, EmittedReach
<1>5. Follows(LastReach(k), Emitted(k, ends), x)
  BY <1>1, <1>2, <1>4
<1>6. /\ StoreOK(newk, newq, more) /\ LastReach(newk) = Reach(x)
      /\ Emitted(newk, more) => x.end # -1
  BY <1>1, <1>2, <1>5, StoreAppend
<1>7. newk \in Rows
  BY ItemType, RowsFacts
<1>8. more \in Seq(Nat \ {0})
  BY <1>6 DEF StoreOK
<1>9. PICK s \in Nat, d \in BOOLEAN : s = LastReach(newk) /\ d = Emitted(newk, more)
  BY <1>7, <1>8, EmittedReach
<1>10. PICK g \in BOOLEAN : g = (x.end # -1)
  OBVIOUS
<1>11. Continues(s, g, 0)' /\ (d => g)
  BY <1>1, <1>6, <1>9, <1>10
<1>12. Continues(s, d, 0)'
  BY <1>11, ContinuesWeaker
<1>13. StoreOK(newk, newq, more)'
  <2>1. ask' = ask /\ (preempts' = 0 => preempts = 0)
    BY DEF engineVars
  <2> QED BY <1>6, <2>1, StorePersists
<1>14. LastReach(newk)' = s /\ Emitted(newk, more)' = d
  BY <1>9 DEF LastReach, Emitted, Clean
<1>15. k = <<>> => x.nc = 0
  BY <1>5, ReachIs DEF Follows
<1> QED BY <1>12, <1>13, <1>14, <1>15 DEF StoreInv

\* The entry of the rows that are added names them.
LEMMA TiledGrows ==
  ASSUME NEW s \in Stagings, NEW x \in RowItems, Tiled(s), s.k = <<>> => x.nc = 0
  PROVE  Tiled(WithRows(s, x)) /\ WithRows(s, x).entries # <<>>
<1> DEFINE w == WithRows(s, x)
           n == Len(s.entries)
           e == EntryOf(s, x)
           es == s.entries
           fs == w.entries
<1>1. /\ s.k \in Rows /\ s.q \in Rows /\ es \in Seq(Entries) /\ n \in Nat
      /\ Len(s.k) \in Nat /\ Len(s.q) \in Nat
      /\ x.k \in Rows /\ x.q \in Rows
  BY StagingType, ItemType
<1>2. /\ w.k = s.k \o x.k /\ w.q = s.q \o x.q /\ fs = Append(es, e) /\ e \in Entries
  BY WithRowsType
<1>3. /\ e.kStart = Len(s.k) /\ e.kRows = Len(x.k) /\ e.qStart = Len(s.q)
      /\ e.qRows = Len(x.q) /\ e.nc = x.nc
  BY DEF EntryOf
<1>4. Len(w.k) = Len(s.k) + Len(x.k) /\ Len(w.q) = Len(s.q) + Len(x.q)
  BY <1>1, <1>2, RowsFacts
<1>5. /\ Len(fs) = n + 1 /\ fs[n + 1] = e /\ \A i \in 1 .. n : fs[i] = es[i]
      /\ fs # <<>>
  <2> HIDE DEF w, e
  <2>1. /\ Append(es, e) \in Seq(Entries) /\ Len(Append(es, e)) = n + 1
        /\ \A i \in 1 .. n + 1 : Append(es, e)[i] = IF i <= n THEN es[i] ELSE e
    BY <1>1, <1>2, AppendProperties
  <2>2. n + 1 \in 1 .. n + 1 /\ ~(n + 1 <= n) /\ \A i \in 1 .. n : i \in 1 .. n + 1 /\ i <= n
    BY <1>1
  <2>3. Append(es, e) # <<>>
    BY <1>1, <2>1
  <2> QED BY <1>2, <2>1, <2>2, <2>3
<1>6. /\ n > 0 => es[1].kStart = 0 /\ es[1].qStart = 0 /\ es[1].nc = 0
      /\ \A i \in 1 .. n - 1 : /\ es[i + 1].kStart = es[i].kStart + es[i].kRows
                               /\ es[i + 1].qStart = es[i].qStart + es[i].qRows
      /\ n = 0 => s.k = <<>> /\ s.q = <<>>
      /\ n # 0 => /\ es[n].kStart + es[n].kRows = Len(s.k)
                  /\ es[n].qStart + es[n].qRows = Len(s.q)
  BY DEF Tiled, LastOf
<1> HIDE DEF w, n, e, es, fs
<1>7. fs[1].kStart = 0 /\ fs[1].qStart = 0 /\ fs[1].nc = 0
  <2>1. CASE n = 0
    <3>1. fs[1] = e /\ Len(s.k) = 0 /\ Len(s.q) = 0 /\ x.nc = 0
      BY <1>5, <1>6, <2>1
    <3> QED BY <1>3, <3>1
  <2>2. CASE n # 0
    <3>1. fs[1] = es[1] /\ n > 0
      BY <1>1, <1>5, <2>2
    <3> QED BY <1>6, <3>1
  <2> QED BY <2>1, <2>2
<1>8. ASSUME NEW i \in 1 .. n
      PROVE  /\ fs[i + 1].kStart = fs[i].kStart + fs[i].kRows
             /\ fs[i + 1].qStart = fs[i].qStart + fs[i].qRows
  <2>1. CASE i = n
    <3>1. n # 0 /\ fs[i + 1] = e /\ fs[i] = es[n]
      BY <1>5, <2>1
    <3> QED BY <1>3, <1>6, <3>1
  <2>2. CASE i # n
    <3>1. i \in 1 .. n - 1 /\ i + 1 \in 1 .. n
      BY <1>1, <2>2
    <3>2. fs[i + 1] = es[i + 1] /\ fs[i] = es[i]
      BY <1>5, <3>1
    <3> QED BY <1>6, <3>1, <3>2
  <2> QED BY <2>1, <2>2
<1>9. Len(fs) - 1 = n /\ Len(fs) # 0 /\ LastOf(fs) = e
  BY <1>1, <1>5 DEF LastOf
<1>10. e.kStart + e.kRows = Len(w.k) /\ e.qStart + e.qRows = Len(w.q)
  BY <1>3, <1>4
<1>11. Tiled(w)
  BY <1>7, <1>8, <1>9, <1>10 DEF Tiled, fs
<1> QED BY <1>5, <1>11 DEF w, fs
LEMMA KeptInit == ~CacheHits /\ Init => FlowInv /\ KeptInv
<1> SUFFICES ASSUME ~CacheHits, Init PROVE FlowInv /\ KeptInv
  OBVIOUS
<1>1. /\ queue = <<>> /\ consumer.at = "get" /\ index = NoEntry /\ staging = NoStaging
      /\ landed = "no" /\ engine = "running" /\ preempts = 0 /\ prefillLen = Prompt
      /\ computed \in Cached /\ computed < Prompt
  BY DEF Init, Idle
<1>2. /\ index.nc = -1 /\ index.k = <<>> /\ index.q = <<>> /\ index.ends = <<>>
      /\ staging.k = <<>> /\ staging.q = <<>> /\ staging.entries = <<>> /\ staging.open = FALSE
  BY <1>1 DEF NoEntry, NoStaging
<1>3. Flow = <<>> /\ Len(Flow) = 0
  BY <1>1, ConcatEmptySeq DEF Flow
<1>4. FlowInv
  <2>1. 1 .. Len(Flow) = {}
    BY <1>3
  <2> QED BY <2>1 DEF FlowInv
<1>5. Continues(0, FALSE, 0)
  <2>1. computed = 0
    BY <1>1 DEF Cached
  <2>2. EngineFollows(0, FALSE)
    BY <1>1, <2>1, Constants DEF EngineFollows, Prefilling
  <2>3. ~(0 < Len(Flow))
    BY <1>3
  <2> QED BY <2>2, <2>3 DEF Continues
<1>6. StoreInv(<<>>, <<>>, <<>>)
  <2>1. Emitted(<<>>, <<>>) = FALSE
    BY StoreEmpty DEF Emitted
  <2> QED BY <1>5, <2>1, StoreEmpty DEF StoreInv
<1>7. Tiled(staging)
  <2>1. Len(staging.entries) = 0 /\ 1 .. 0 - 1 = {}
    BY <1>2
  <2> QED BY <1>2, <2>1 DEF Tiled
<1>8. KeptInv
  BY <1>1, <1>2, <1>6, <1>7, EndsOfEmpty DEF KeptInv
<1> QED BY <1>4, <1>8

LEMMA PreemptsGrow ==
  ASSUME TypeOK, [Next]_vars
  PROVE  preempts' = 0 => preempts = 0
<1>1. preempts' = preempts \/ preempts' = preempts + 1
  BY DEF vars, engineVars, Next, Engine, Step, Preempt, EnqueueFinish, Consumer, TakeItem,
     DemuxToDisk, DiskWriteFails, DemuxToHost, FinishAborted, FinishDisk, FinishHost,
     Transfer, Client, Fetch, Confirm, WaitTimesOut, Abort, ClearDisk, MarkHost, FreeHost
<1>2. preempts \in Nat
  BY Constants DEF TypeOK, EngineType
<1> QED BY <1>1, <1>2

\* The three places of what is kept, each with what a step does to it.
LEMMA IndexKept ==
  ASSUME TypeOK, TypeOK', FinishInv, HostInv, EngineInv, FlowInv, KeptInv, ~CacheHits,
         [Next]_vars, ask.route = "rpc", client' = "waiting"
  PROVE  index'.nc \in {-1, 0} /\ StoreInv(index.k, index.q, index.ends)'
<1>1. ask' = ask /\ (preempts' = 0 => preempts = 0)
  BY SameAsk, PreemptsGrow
<1>2. UNCHANGED vars \/ Engine \/ Consumer \/ Transfer
  BY DEF Next, Client, Fetch, Confirm, WaitTimesOut, Abort, ClearDisk, MarkHost, FreeHost
<1>3. client = "waiting"
  BY <1>2 DEF vars, Engine, Step, Preempt, EnqueueFinish, Consumer, TakeItem,
     DemuxToDisk, DiskWriteFails, DemuxToHost, FinishAborted, FinishDisk, FinishHost,
     Transfer, clientVars
<1>4. /\ ~routed /\ ~diskAborted /\ ~consumer.disk /\ ~hostAborted
      /\ ~Met => kmeta = index.ends
      /\ index.nc \in {-1, 0} /\ StoreInv(index.k, index.q, index.ends)
  BY <1>3 DEF HostInv, KeptInv
<1>5. index \in IndexEntries /\ kmeta \in Seq(1 .. goal) /\ (index.nc = -1 <=> index.k = <<>>)
  BY DEF TypeOK, DrainType
<1>6. PICK k \in Rows, q \in Rows, ends \in Seq(1 .. goal) :
        k = index.k /\ q = index.q /\ ends = index.ends
  BY <1>5, IndexType
<1>7. StoreInv(k, q, ends)
  BY <1>4, <1>6
<1>8. ASSUME FlowGoesOn, index'.k = index.k, index'.q = index.q, index'.ends = index.ends,
             index'.nc = index.nc
      PROVE  index'.nc \in {-1, 0} /\ StoreInv(index.k, index.q, index.ends)'
  <2>1. StoreInv(k, q, ends)'
    BY <1>1, <1>7, <1>8, StoreKeeps
  <2>2. k = index'.k /\ q = index'.q /\ ends = index'.ends
    BY <1>6, <1>8
  <2> QED BY <1>4, <1>8, <2>1, <2>2
<1>9. CASE DemuxToHost
  <2>1. /\ consumer.at = "rows" /\ consumer' = Idle /\ UNCHANGED <<engineVars, queue>>
        /\ ~IsAborted
        /\ kmeta' = IF consumer.item.end >= 0 THEN Append(kmeta, consumer.item.end) ELSE kmeta
        /\ index' = Noted(index, consumer.item, kmeta')
    BY <1>4, <1>9 DEF DemuxToHost, IsAborted
  <2>2. PICK x \in RowItems : x = consumer.item
    BY <2>1, HeldType DEF TypeOK
  <2>3. ~Met
    BY <2>1 DEF Met, Idle
  <2>4. PICK more \in Seq(1 .. goal) : more = kmeta'
    BY SameTypes, SameAsk DEF TypeOK, DrainType
  <2>5. x.end \in {-1} \cup 1 .. goal /\ goal \in Nat
    BY ItemType DEF TypeOK, EngineType
  <2>6. more = IF x.end < 0 THEN ends ELSE Append(ends, x.end)
    BY <1>4, <1>6, <2>1, <2>2, <2>3, <2>4, <2>5
  <2>7. /\ index'.k = k \o x.k /\ index'.q = q \o x.q /\ index'.ends = more
        /\ index'.nc = IF index.nc = -1 THEN x.nc ELSE index.nc
    <3>1. PICK i \in IndexEntries : i = index
      BY <1>5
    <3>2. index' = Noted(i, x, more)
      BY <2>1, <2>2, <2>4, <3>1
    <3>3. /\ Noted(i, x, more).k = i.k \o x.k /\ Noted(i, x, more).q = i.q \o x.q
          /\ Noted(i, x, more).ends = more
          /\ Noted(i, x, more).nc = IF i.nc = -1 THEN x.nc ELSE i.nc
      BY NotedType, Zenon
    <3> QED BY <1>6, <3>1, <3>2, <3>3, Zenon
  <2>8. PICK newk, newq : newk = k \o x.k /\ newq = q \o x.q
    OBVIOUS
  <2>9. StoreInv(newk, newq, more)' /\ (k = <<>> => x.nc = 0)
    BY <1>7, <2>1, <2>2, <2>6, <2>8, StoreGrows
  <2>10. index'.nc \in {-1, 0}
    BY <1>4, <1>5, <1>6, <2>7, <2>9
  <2>11. newk = index'.k /\ newq = index'.q /\ more = index'.ends
    BY <2>7, <2>8
  <2> QED BY <2>9, <2>10, <2>11
<1>10. CASE UNCHANGED vars \/ Engine \/ TakeItem \/ Transfer
  <2>1. index' = index
    BY <1>10 DEF vars, drainVars, Engine, Step, Preempt, EnqueueFinish, TakeItem, Transfer
  <2>2. consumer.at = "rows" => consumer' = consumer
    BY <1>10 DEF vars, Engine, Step, Preempt, EnqueueFinish, TakeItem, Transfer
  <2> QED BY <1>8, <2>1, <2>2, FlowOther
<1>11. CASE DemuxToDisk \/ DiskWriteFails \/ FinishAborted \/ FinishDisk
  BY <1>4, <1>11 DEF DemuxToDisk, DiskWriteFails, FinishAborted, FinishDisk
<1>12. CASE FinishHost
  <2>1. index' = index \/ index' = [index EXCEPT !.finished = TRUE]
    BY <1>4, <1>12 DEF FinishHost
  <2>2. /\ index'.k = index.k /\ index'.q = index.q /\ index'.ends = index.ends
        /\ index'.nc = index.nc
    BY <1>5, <2>1 DEF IndexEntries
  <2>3. consumer.at = "rows" => consumer' = consumer
    BY <1>12 DEF FinishHost
  <2> QED BY <1>8, <2>2, <2>3, FlowOther
<1> QED BY <1>2, <1>9, <1>10, <1>11, <1>12 DEF Consumer

LEMMA StagingKept ==
  ASSUME TypeOK, TypeOK', FinishInv, DiskInv, EngineInv, FlowInv, KeptInv, ~CacheHits,
         [Next]_vars, ask.route = "disk", routed', ~diskAborted'
  PROVE  /\ Tiled(staging)' /\ (staging'.open <=> staging'.entries # <<>>)
         /\ StoreInv(staging.k, staging.q, EndsOf(staging.entries))'
<1>1. ask' = ask /\ goal' = goal /\ (preempts' = 0 => preempts = 0)
  BY SameAsk, PreemptsGrow
<1>2. routed /\ ~diskAborted
  <2>1. CASE FinishAborted \/ FinishDisk \/ ClearDisk \/ DiskWriteFails
    BY <2>1 DEF FinishAborted, FinishDisk, ClearDisk, DiskWriteFails
  <2>2. CASE UNCHANGED <<routed, diskAborted>>
    BY <2>2, Zenon
  <2>3. CASE UNCHANGED vars \/ Engine \/ TakeItem \/ Transfer
    BY <2>2, <2>3 DEF vars, drainVars, Engine, Step, Preempt, EnqueueFinish, TakeItem, Transfer
  <2>4. CASE DemuxToDisk \/ DemuxToHost \/ FinishHost
    BY <2>2, <2>4 DEF DemuxToDisk, DemuxToHost, FinishHost
  <2>5. CASE Fetch \/ Confirm \/ WaitTimesOut \/ Abort \/ MarkHost \/ FreeHost
    BY <2>2, <2>5 DEF drainVars, Fetch, Confirm, WaitTimesOut, Abort, MarkHost, FreeHost
  <2> QED BY <2>1, <2>3, <2>4, <2>5, Zenon DEF Next, Consumer, Client
<1>3. /\ Tiled(staging) /\ (staging.open <=> staging.entries # <<>>)
      /\ StoreInv(staging.k, staging.q, EndsOf(staging.entries))
      /\ consumer.at = "rows" => consumer.disk
  BY <1>2 DEF KeptInv, DiskInv
<1>4. PICK s \in Stagings : s = staging
  BY DEF TypeOK, DrainType
<1>5. PICK k \in Rows, q \in Rows, es \in Seq(Entries) :
        k = s.k /\ q = s.q /\ es = s.entries
  BY StagingType
<1>6. PICK ends : ends = EndsOf(es)
  OBVIOUS
<1>7. StoreInv(k, q, ends) /\ Tiled(s)
  BY <1>3, <1>4, <1>5, <1>6
<1>8. CASE staging' = staging /\ (consumer.at = "rows" => consumer' = consumer)
  <2>1. FlowGoesOn
    BY <1>8, FlowOther
  <2>2. StoreInv(k, q, ends)'
    BY <1>1, <1>7, <2>1, StoreKeeps
  <2>3. s = staging'
    BY <1>4, <1>8
  <2>4. /\ Tiled(s) /\ (s.open <=> s.entries # <<>>)
    BY <1>3, <1>4
  <2>5. Tiled(staging)'
    BY <2>3, <2>4 DEF Tiled, LastOf
  <2>6. k = staging'.k /\ q = staging'.q /\ ends = EndsOf(staging.entries)'
    BY <1>5, <1>6, <2>3 DEF EndsOf
  <2> QED BY <2>2, <2>3, <2>4, <2>5, <2>6
<1>9. CASE DemuxToDisk
  <2>1. PICK x \in RowItems : x = consumer.item
    BY <1>9, HeldType DEF TypeOK, DemuxToDisk
  <2>2. /\ consumer.at = "rows" /\ consumer' = Idle /\ UNCHANGED <<engineVars, queue>>
        /\ staging' = WithRows(s, x)
    BY <1>2, <1>4, <1>9, <2>1 DEF DemuxToDisk
  <2>3. PICK newk, newq, newes, more :
          newk = k \o x.k /\ newq = q \o x.q /\ newes = Append(es, EntryOf(s, x))
          /\ more = IF x.end < 0 THEN ends ELSE Append(ends, x.end)
    OBVIOUS
  <2>4. StoreInv(newk, newq, more)' /\ (k = <<>> => x.nc = 0)
    BY <1>7, <2>1, <2>2, <2>3, StoreGrows
  <2>5. PICK w \in Stagings : w = WithRows(s, x)
    BY WithRowsType
  <2>6. Tiled(w) /\ w.entries # <<>>
    BY <1>5, <1>7, <2>4, <2>5, TiledGrows
  <2>7. w.k = newk /\ w.q = newq /\ w.open = TRUE /\ w.entries = newes
    BY <1>5, <2>3, <2>5, WithRowsType
  <2>8. EndsOf(newes) = more
    <3>1. EntryOf(s, x) \in Entries /\ EntryOf(s, x).end = x.end
      BY WithRowsType DEF EntryOf
    <3> QED BY <1>6, <2>3, <3>1, EndsOfAppend
  <2>9. w = staging'
    BY <2>2, <2>5
  <2>10. Tiled(staging)'
    BY <2>6, <2>9 DEF Tiled, LastOf
  <2>11. newk = staging'.k /\ newq = staging'.q /\ more = EndsOf(staging.entries)'
    BY <2>7, <2>8, <2>9 DEF EndsOf
  <2> QED BY <2>4, <2>6, <2>7, <2>9, <2>10, <2>11
<1>10. CASE DiskWriteFails \/ FinishAborted \/ FinishDisk
  BY <1>10 DEF DiskWriteFails, FinishAborted, FinishDisk
<1>11. CASE DemuxToHost
  BY <1>3, <1>11 DEF DemuxToHost
<1>12. CASE UNCHANGED vars \/ Engine \/ TakeItem \/ FinishHost \/ Transfer \/ Client
  <2>1. CASE UNCHANGED vars \/ Engine \/ TakeItem \/ Transfer
    BY <1>8, <2>1 DEF vars, drainVars, Engine, Step, Preempt, EnqueueFinish, TakeItem, Transfer
  <2>2. CASE FinishHost
    BY <1>8, <2>2 DEF FinishHost
  <2>3. CASE Client
    BY <1>8, <2>3 DEF drainVars, Client, Fetch, Confirm, WaitTimesOut, Abort, ClearDisk,
       MarkHost, FreeHost
  <2> QED BY <1>12, <2>1, <2>2, <2>3
<1> QED BY <1>9, <1>10, <1>11, <1>12, Zenon DEF Next, Consumer
LEMMA SourceKept ==
  ASSUME TypeOK, TypeOK', FinishInv, DiskInv, EngineInv, FlowInv, KeptInv, ~CacheHits,
         [Next]_vars, ask.route = "disk", landed' # "no"
  PROVE  /\ Tiled(source)' /\ source'.entries # <<>>
         /\ StoreOK(source.k, source.q, EndsOf(source.entries))'
         /\ EngineFollows(LastReach(source.k), FALSE)'
<1> DEFINE Good(s) == /\ Tiled(s) /\ s.entries # <<>>
                      /\ StoreOK(s.k, s.q, EndsOf(s.entries))
                      /\ EngineFollows(LastReach(s.k), FALSE)
<1>1. ask' = ask /\ goal' = goal /\ (preempts' = 0 => preempts = 0)
  BY SameAsk, PreemptsGrow
<1>2. ASSUME NEW s \in Stagings, Good(s), source' = s, UNCHANGED <<computed, prefillLen, preempts>>,
             engine' = "running" => engine = "running"
      PROVE  Good(source)'
  <2>1. PICK k, q, es, ends, r :
          k = s.k /\ q = s.q /\ es = s.entries /\ ends = EndsOf(es) /\ r = LastReach(k)
    OBVIOUS
  <2>2. StoreOK(k, q, ends)'
    BY <1>1, <1>2, <2>1, StorePersists
  <2>3. EngineFollows(r, FALSE)'
    BY <1>1, <1>2, <2>1, OtherLeads
  <2>4. Tiled(source)' /\ source'.entries # <<>>
    BY <1>2 DEF Tiled, LastOf
  <2>5. /\ k = source'.k /\ q = source'.q /\ ends = EndsOf(source.entries)'
        /\ r = LastReach(source.k)'
    BY <1>2, <2>1 DEF EndsOf, LastReach, LastOf
  <2> QED BY <2>2, <2>3, <2>4, <2>5
<1>3. CASE FinishDisk /\ staging.open
  <2>1. /\ consumer.at = "finish" /\ ~diskAborted /\ routed /\ source' = staging
        /\ UNCHANGED engineVars
    BY <1>3 DEF FinishDisk
  <2>2. PICK s \in Stagings : s = staging
    BY DEF TypeOK, DrainType
  <2>3. /\ Tiled(s) /\ s.entries # <<>> /\ StoreInv(s.k, s.q, EndsOf(s.entries))
    BY <1>3, <2>1, <2>2 DEF KeptInv
  <2>4. PICK r : r = LastReach(s.k)
    OBVIOUS
  <2>5. EngineFollows(r, FALSE)
    <3>1. queue = <<>>
      BY <2>1 DEF FinishInv
    <3>2. Len(Flow) = 0
      BY <2>1, <3>1, FlowIs DEF TypeOK
    <3>3. ~(0 < Len(Flow))
      BY <3>2
    <3>4. EngineFollows(r, Emitted(s.k, EndsOf(s.entries)))
      BY <2>3, <2>4, <3>3 DEF StoreInv, Continues
    <3> QED BY <3>4 DEF EngineFollows
  <2>6. Good(s) /\ source' = s
    BY <2>1, <2>2, <2>3, <2>4, <2>5 DEF StoreInv
  <2> HIDE DEF Good
  <2>7. Good(source)'
    BY <1>2, <2>1, <2>6 DEF engineVars
  <2> QED BY <2>7 DEF Good
<1>4. CASE ~(FinishDisk /\ staging.open)
  <2>1. landed # "no" /\ source' = source
    <3>1. CASE FinishDisk
      BY <1>4, <3>1 DEF FinishDisk
    <3>2. CASE Transfer
      BY <3>2 DEF Transfer
    <3>3. CASE UNCHANGED vars \/ Engine
      BY <3>3 DEF vars, diskVars, Engine, Step, Preempt, EnqueueFinish
    <3>4. CASE TakeItem \/ DemuxToDisk \/ DiskWriteFails \/ DemuxToHost \/ FinishAborted \/ FinishHost
      BY <3>4 DEF diskVars, TakeItem, DemuxToDisk, DiskWriteFails, DemuxToHost, FinishAborted,
         FinishHost
    <3>5. CASE Client
      BY <3>5 DEF diskVars, Client, Fetch, Confirm, WaitTimesOut, Abort, ClearDisk, MarkHost,
         FreeHost
    <3> QED BY <3>1, <3>2, <3>3, <3>4, <3>5, Zenon DEF Next, Consumer
  <2>2. engine = "finished"
    BY <2>1 DEF DiskInv
  <2>3. UNCHANGED <<computed, prefillLen, preempts>> /\ (engine' = "running" => engine = "running")
    <3>1. ~Engine
      BY <2>2 DEF Engine, Step, Preempt, EnqueueFinish
    <3>2. CASE UNCHANGED vars \/ Consumer \/ Transfer
      BY <3>2 DEF vars, engineVars, Consumer, TakeItem, DemuxToDisk, DiskWriteFails,
         DemuxToHost, FinishAborted, FinishDisk, FinishHost, Transfer
    <3>3. CASE Client
      BY <3>3 DEF engineVars, Client, Fetch, Confirm, WaitTimesOut, Abort, ClearDisk, MarkHost,
         FreeHost
    <3> QED BY <3>1, <3>2, <3>3 DEF Next
  <2>4. PICK s \in Stagings : s = source
    BY DEF TypeOK, ClientType
  <2>5. Good(s) /\ source' = s
    BY <2>1, <2>4 DEF KeptInv
  <2> HIDE DEF Good
  <2>6. Good(source)'
    BY <1>2, <2>3, <2>5
  <2> QED BY <2>6 DEF Good
<1> QED BY <1>3, <1>4

LEMMA FlowNext ==
  ASSUME TypeOK, TypeOK', FinishInv, EngineInv, FlowInv, ~CacheHits, [Next]_vars
  PROVE  FlowInv'
<1>1. CASE consumer.at = "rows" => consumer' = consumer
  BY <1>1, FlowOther DEF FlowGoesOn
<1>2. CASE consumer.at = "rows" /\ consumer' # consumer
  <2>1. DemuxToDisk \/ DiskWriteFails \/ DemuxToHost
    BY <1>2 DEF vars, Next, Engine, Step, Preempt, EnqueueFinish, Consumer, TakeItem,
       FinishAborted, FinishDisk, FinishHost, Transfer, Client, Fetch, Confirm, WaitTimesOut,
       Abort, ClearDisk, MarkHost, FreeHost
  <2>2. consumer' = Idle /\ UNCHANGED <<engineVars, queue>>
    BY <2>1 DEF DemuxToDisk, DiskWriteFails, DemuxToHost
  <2>3. PICK x \in RowItems : x = consumer.item
    BY <1>2, HeldType DEF TypeOK
  <2> QED BY <1>2, <2>2, <2>3, FlowDemux
<1> QED BY <1>1, <1>2

LEMMA KeptNext ==
  ASSUME TypeOK, TypeOK', FinishInv, DiskInv, HostInv, EngineInv, FlowInv, KeptInv,
         ~CacheHits, [Next]_vars
  PROVE  KeptInv'
<1>1. ask' = ask
  BY SameAsk
<1>2. ask.route = "rpc" /\ client' = "waiting"
        => index'.nc \in {-1, 0} /\ StoreInv(index.k, index.q, index.ends)'
  BY IndexKept
<1>3. ask.route = "disk" /\ routed' /\ ~diskAborted'
        => /\ Tiled(staging)' /\ (staging'.open <=> staging'.entries # <<>>)
           /\ StoreInv(staging.k, staging.q, EndsOf(staging.entries))'
  BY StagingKept
<1>4. ask.route = "disk" /\ landed' # "no"
        => /\ Tiled(source)' /\ source'.entries # <<>>
           /\ StoreOK(source.k, source.q, EndsOf(source.entries))'
           /\ EngineFollows(LastReach(source.k), FALSE)'
  BY SourceKept
<1> QED BY <1>1, <1>2, <1>3, <1>4 DEF KeptInv

LEMMA HistoryAlways ==
  ASSUME ~CacheHits
  PROVE  Spec => [](FinishInv /\ DiskInv /\ HostInv /\ HistoryInv)
<1> DEFINE Inv == TypeOK /\ FinishInv /\ DiskInv /\ HostInv /\ HistoryInv
<1>1. Init => Inv
  BY TypeInit, FinishInit, DiskInit, HostInit, EngineInit, KeptInit DEF HistoryInv
<1>2. Inv /\ [Next]_vars => Inv'
  <2> SUFFICES ASSUME Inv, [Next]_vars PROVE Inv'
    OBVIOUS
  <2>1. TypeOK /\ FinishInv /\ DiskInv /\ HostInv /\ EngineInv /\ FlowInv /\ KeptInv
    BY DEF HistoryInv
  <2>2. TypeOK'
    BY <2>1, TypeNext
  <2>3. FinishInv' /\ DiskInv' /\ HostInv' /\ EngineInv'
    BY <2>1, FinishNext, DiskNext, HostNext, EngineNext
  <2>4. FlowInv' /\ KeptInv'
    BY <2>1, <2>2, FlowNext, KeptNext
  <2> QED BY <2>2, <2>3, <2>4 DEF HistoryInv
<1>3. Inv => FinishInv /\ DiskInv /\ HostInv /\ HistoryInv
  OBVIOUS
<1> HIDE DEF Inv
<1> QED BY <1>1, <1>2, <1>3, PTL DEF Spec
-----------------------------------------------------------------------------
(***************************************************************************)
(* What a client gets of what is kept.                                     *)
(***************************************************************************)

\* The history of each pass is the first rows that are kept.
LEMMA HistoriesAre ==
  ASSUME NEW k \in Rows, NEW q, NEW ends, StoreOK(k, q, ends), NEW h, h = Histories(k, ends)
  PROVE  /\ DOMAIN h = 1 .. Len(ends) /\ Len(ends) \in Nat /\ ends = [i \in 1 .. Len(ends) |-> ends[i]]
         /\ \A i \in 1 .. Len(ends) :
              /\ ends[i] \in Nat /\ ends[i] > 0 /\ ends[i] <= Len(k)
              /\ h[i] = SubSeq(k, 1, ends[i]) /\ h[i] \in Rows /\ Len(h[i]) = ends[i]
         /\ h = <<>> <=> ends = <<>>
         /\ h # <<>> => LastOf(h) = h[Len(ends)] /\ Len(LastOf(h)) = LastOf(ends)
<1>1. ends \in Seq(Nat \ {0}) /\ \A i \in 1 .. Len(ends) : ends[i] <= Len(k)
  BY DEF StoreOK
<1>2. PICK n \in Nat : n = Len(ends)
  BY <1>1
<1>3. DOMAIN ends = 1 .. n /\ ends = [i \in 1 .. n |-> ends[i]]
  BY <1>1, <1>2
<1>4. /\ \A i \in 1 .. n : ends[i] \in Nat /\ ends[i] > 0 /\ ends[i] <= Len(k)
      /\ ends # <<>> <=> n > 0
      /\ ends # <<>> => LastOf(ends) = ends[n]
  BY <1>1, <1>2, EndsFacts
<1>5. Len(k) \in Nat
  BY RowsFacts
<1>6. h = [i \in 1 .. n |-> First(k, ends[i])]
  BY <1>3 DEF Histories
<1>7. ASSUME NEW i \in 1 .. n
      PROVE  h[i] = SubSeq(k, 1, ends[i]) /\ h[i] \in Rows /\ Len(h[i]) = ends[i]
  <2>1. ends[i] \in Nat /\ ends[i] <= Len(k)
    BY <1>4
  <2>2. h[i] = First(k, ends[i])
    BY <1>6
  <2>3. PICK e \in Nat : e = ends[i] /\ e <= Len(k)
    BY <2>1
  <2>4. h[i] = SubSeq(k, 1, e)
    BY <1>5, <2>2, <2>3 DEF First, LeastOf
  <2>5. /\ SubSeq(k, 0 + 1, e) \in Rows /\ Len(SubSeq(k, 0 + 1, e)) = e - 0
    <3>1. 0 \in Nat /\ 0 <= e
      OBVIOUS
    <3> QED BY <2>3, <3>1, RowsPiece, Zenon
  <2>6. 0 + 1 = 1 /\ e - 0 = e
    OBVIOUS
  <2> QED BY <2>3, <2>4, <2>5, <2>6
<1>8. h \in Seq(Rows) /\ Len(h) = n /\ DOMAIN h = 1 .. n
  <2>1. h \in [1 .. n -> Rows]
    BY <1>6, <1>7
  <2> QED BY <2>1
<1>9. h = <<>> <=> n = 0
  BY <1>8
<1>10. n > 0 => LastOf(h) = h[n] /\ Len(h[n]) = ends[n]
  BY <1>7, <1>8 DEF LastOf
<1>11. h = <<>> <=> ends = <<>>
  BY <1>2, <1>4, <1>9
<1>12. h # <<>> => LastOf(h) = h[n] /\ Len(LastOf(h)) = LastOf(ends)
  BY <1>2, <1>4, <1>9, <1>10
<1> QED BY <1>2, <1>3, <1>4, <1>7, <1>8, <1>11, <1>12, Zenon

\* What qk_probes makes of what is kept.
LEMMA ProbesAre ==
  ASSUME NEW k \in Rows, NEW q, NEW ends, StoreOK(k, q, ends), NEW h, h = Histories(k, ends),
         NEW j, NEW sizes, sizes = PassRows(Len(q), ends, ask.mode)
  PROVE  /\ ends = <<>> => Probes(q, h, j) = Nothing
         /\ ends # <<>> =>
              Probes(q, h, j) =
                IF Len(j) # LastOf(ends) THEN Refused
                ELSE IF ~(ask.hooks = "decode" \/ ask.mode = "last_token" \/ sizes[1] = ends[1])
                        \/ \E i \in DOMAIN sizes : sizes[i] <= 0
                THEN Refused
                ELSE Served([i \in 1 .. Len(ends) |->
                       [k |-> h[i],
                        q |-> SubSeq(q, SumTo(sizes, i - 1) + 1, SumTo(sizes, i))]])
<1>1. /\ DOMAIN h = 1 .. Len(ends) /\ ends = [i \in 1 .. Len(ends) |-> ends[i]]
      /\ \A i \in 1 .. Len(ends) : Len(h[i]) = ends[i]
      /\ h = <<>> <=> ends = <<>>
  BY HistoriesAre
<1>2. ends = [i \in DOMAIN h |-> Len(h[i])]
  BY <1>1
<1> QED BY <1>1, <1>2 DEF Probes

SpanOf(a, b, f, l) ==
  /\ a \in Nat /\ b \in Nat /\ f \in Nat /\ l \in Nat
  /\ a < b /\ b <= l /\ a - f \in Nat

LEMMA Spans ==
  ASSUME NEW a, NEW b, NEW f, NEW l, SpanOf(a, b, f, l)
  PROVE  /\ b - a \in Nat /\ b - a > 0 /\ b - a <= b /\ b - f = (a - f) + (b - a)
         /\ b - f <= l - f /\ f + (a - f) = b - (b - a) /\ f + (b - f) = b
         /\ a - f <= b - f
BY DEF SpanOf

\* Rows that are given, in n passes of these sizes.
Given(k, q, ends, n, sizes) ==
  /\ k \in Rows /\ q \in Rows /\ StoreOK(k, q, ends)
  /\ ends # <<>> /\ LastOf(ends) = Len(k)
  /\ n \in Nat /\ n = Len(ends) /\ sizes = PassRows(Len(q), ends, ask.mode)

\* The first i passes have g[i] queries, those of a pass being of the last
\* positions of its history.
Measured(q, ends, n, sizes, g) ==
  /\ g \in [0 .. n -> Nat] /\ g[0] = 0 /\ g[n] = Len(q)
  /\ \A i \in 1 .. n :
       /\ sizes[i] \in Nat /\ sizes[i] > 0 /\ sizes[i] <= ends[i]
       /\ g[i] = g[i - 1] + sizes[i] /\ g[i] <= Len(q)
       /\ SubSeq(q, g[i - 1] + 1, g[i]) = Positions(ends[i] - sizes[i], ends[i])

\* The passes of rows that hold each position once: their queries are those of
\* the last positions of their histories, and all of them are given.
LEMMA PassesAre ==
  ASSUME TypeOK, NEW k, NEW q, NEW ends, NEW n, NEW sizes, Given(k, q, ends, n, sizes)
  PROVE  DOMAIN sizes = 1 .. n /\ \E g : Measured(q, ends, n, sizes, g)
<1> SUFFICES ASSUME k \in Rows, q \in Rows, StoreOK(k, q, ends), n \in Nat
             PROVE  DOMAIN sizes = 1 .. n /\ \E g : Measured(q, ends, n, sizes, g)
  BY DEF Given
<1>0. /\ ends # <<>> /\ LastOf(ends) = Len(k) /\ n = Len(ends)
      /\ sizes = PassRows(Len(q), ends, ask.mode)
  BY DEF Given
<1>1. /\ ends \in Seq(Nat \ {0}) /\ n > 0 /\ ends[n] = Len(k) /\ Len(k) \in Nat /\ Len(q) \in Nat
      /\ \A i \in 1 .. n : ends[i] \in Nat /\ ends[i] > 0 /\ ends[i] <= Len(k)
      /\ DOMAIN ends = 1 .. n
  <2>1. ends \in Seq(Nat \ {0}) /\ \A i \in 1 .. n : ends[i] <= Len(k)
    BY <1>0 DEF StoreOK
  <2>2. /\ \A i \in 1 .. n : ends[i] \in Nat /\ ends[i] > 0
        /\ n > 0 /\ LastOf(ends) = ends[n]
    BY <1>0, <2>1, EndsFacts
  <2>3. Len(k) \in Nat /\ Len(q) \in Nat
    BY RowsFacts
  <2>4. DOMAIN ends = 1 .. n
    BY <1>0, <2>1
  <2> QED BY <1>0, <2>1, <2>2, <2>3, <2>4, Zenon
<1>2. Clean(k)
  <2>1. n \in 1 .. n /\ ~(ends[n] < Len(k))
    BY <1>1
  <2> QED BY <1>0, <2>1 DEF StoreOK
<1>3. \A i \in 1 .. n - 1 : ends[i] < ends[i + 1]
  BY <1>0, <1>2 DEF StoreOK
<1>4. ask.mode \in {"all_tokens", "last_token"}
  BY AskIs DEF TypeOK, EngineType
<1>5. CASE ask.mode = "last_token"
  <2>1. sizes = [i \in 1 .. n |-> 1]
    BY <1>0, <1>1, <1>5 DEF PassRows
  <2>2. Len(q) = n /\ \A i \in 1 .. n : q[i] = ends[i] - 1
    BY <1>0, <1>2, <1>5 DEF StoreOK
  <2> DEFINE g == [i \in 0 .. n |-> i]
  <2>3. g \in [0 .. n -> Nat] /\ g[0] = 0 /\ g[n] = Len(q)
    BY <2>2
  <2>4. ASSUME NEW i \in 1 .. n
        PROVE  /\ sizes[i] \in Nat /\ sizes[i] > 0 /\ sizes[i] <= ends[i]
               /\ g[i] = g[i - 1] + sizes[i] /\ g[i] <= Len(q)
               /\ SubSeq(q, g[i - 1] + 1, g[i]) = Positions(ends[i] - sizes[i], ends[i])
    <3>1. sizes[i] = 1 /\ sizes[i] <= ends[i]
      BY <1>1, <2>1
    <3>2. g[i] = i /\ g[i - 1] = i - 1 /\ i - 1 \in Nat
      OBVIOUS
    <3>3. PICK m \in Nat : m = i - 1 /\ m + 1 = i
      BY <3>2
    <3>4. PICK w : w = SubSeq(q, m + 1, i)
      OBVIOUS
    <3>5. w \in Rows /\ Len(w) = 1 /\ w[1] = q[i]
      <4>1. i \in Nat /\ m <= i /\ i <= Len(q) /\ i - m = 1
        BY <2>2, <3>3
      <4>2. /\ w \in Rows /\ Len(w) = i - m /\ \A c \in 1 .. i - m : w[c] = q[m + c]
        BY <3>4, <4>1, RowsPiece, Zenon
      <4>3. 1 \in 1 .. 1
        OBVIOUS
      <4>4. w[1] = q[m + 1]
        BY <4>1, <4>2, <4>3
      <4> QED BY <3>3, <4>1, <4>2, <4>4
    <3>6. PICK b \in Nat : b + 1 = ends[i] /\ b = ends[i] - 1
      <4>1. ends[i] - 1 \in Nat /\ (ends[i] - 1) + 1 = ends[i]
        BY <1>1
      <4> QED BY <4>1, Zenon
    <3>7. w = <<b>>
      <4>1. w[1] = b
        BY <2>2, <3>5, <3>6
      <4>2. <<b>> \in Rows /\ Len(<<b>>) = 1 /\ <<b>>[1] = b
        BY PositionsOne
      <4>3. Len(w) = Len(<<b>>) /\ \A m1 \in 1 .. Len(w) : w[m1] = <<b>>[m1]
        BY <3>5, <4>1, <4>2
      <4> QED BY <3>5, <4>2, <4>3, SameRows, Zenon
    <3>8. w = Positions(b, b + 1)
      BY <3>7, PositionsOne
    <3> HIDE DEF g
    <3>9. g[i] = g[i - 1] + sizes[i] /\ g[i] <= Len(q)
      BY <2>2, <3>1, <3>2
    <3> QED BY <3>1, <3>2, <3>3, <3>4, <3>6, <3>8, <3>9
  <2> HIDE DEF g
  <2>5. DOMAIN sizes = 1 .. n
    BY <2>1
  <2>6. Measured(q, ends, n, sizes, g)
    BY <2>3, <2>4, Zenon DEF Measured
  <2> QED BY <2>5, <2>6, Zenon
<1>6. CASE ask.mode = "all_tokens"
  <2>1. PICK f \in 0 .. ends[1] - 1 : q = Positions(f, Len(k))
    BY <1>0, <1>2, <1>6 DEF StoreOK
  <2>2. /\ f \in Nat /\ f < ends[1] /\ ends[1] \in Nat /\ ends[1] <= Len(k) /\ f <= Len(k)
        /\ Len(q) = Len(k) - f
    <3>1. 1 \in 1 .. n
      BY <1>1
    <3>2. f \in Nat /\ f < ends[1] /\ ends[1] \in Nat /\ ends[1] <= Len(k) /\ f <= Len(k)
      BY <1>1, <3>1
    <3> QED BY <1>1, <2>1, <3>2, PositionsAre
  <2>3. /\ DOMAIN sizes = 1 .. n
        /\ sizes[1] = Len(q) - (ends[n] - ends[1])
        /\ \A i \in 1 .. n : i # 1 => sizes[i] = ends[i] - ends[i - 1]
    <3>1. ask.mode # "last_token"
      BY <1>6
    <3>2. sizes = [i \in 1 .. n |-> IF i = 1 THEN Len(q) - (LastOf(ends) - ends[1])
                                    ELSE ends[i] - ends[i - 1]]
      BY <1>0, <1>1, <3>1 DEF PassRows
    <3>3. LastOf(ends) = ends[n] /\ 1 \in 1 .. n
      BY <1>0, <1>1
    <3> QED BY <3>2, <3>3
  <2> DEFINE g == [i \in 0 .. n |-> IF i = 0 THEN 0 ELSE ends[i] - f]
  <2>4. ASSUME NEW i \in 1 .. n PROVE ends[i] - f \in Nat /\ ends[i] - f > 0
    <3>1. ends[1] <= ends[i]
      <4> DEFINE T == {m \in 1 .. n : ends[m] < ends[1]}
      <4>1. T # {} => FALSE
        <5> SUFFICES ASSUME T # {} PROVE FALSE
          OBVIOUS
        <5>1. PICK m \in T : \A y \in T : m <= y
          <6>1. T \subseteq Nat
            OBVIOUS
          <6> HIDE DEF T
          <6> QED BY <6>1, Least
        <5>2. m \in 1 .. n /\ ends[m] < ends[1] /\ m # 1
          BY <1>1, <5>1
        <5>3. m - 1 \in 1 .. n - 1 /\ (m - 1) + 1 = m /\ m - 1 \in 1 .. n /\ ~(m <= m - 1)
          BY <5>2
        <5>4. ends[m - 1] < ends[m]
          BY <1>3, <5>3
        <5>5. m - 1 \in T
          <6>1. ends[m - 1] \in Nat /\ ends[m] \in Nat
            BY <1>1, <5>2, <5>3
          <6>2. ends[m - 1] < ends[1]
            BY <2>2, <5>2, <5>4, <6>1
          <6> QED BY <5>3, <6>2
        <5> QED BY <5>1, <5>3, <5>5
      <4>2. ~(ends[i] < ends[1])
        BY <4>1
      <4> QED BY <1>1, <2>2, <4>2
    <3> QED BY <1>1, <2>2, <3>1
  <2>5. g \in [0 .. n -> Nat] /\ g[0] = 0 /\ \A i \in 1 .. n : g[i] = ends[i] - f
    BY <2>4
  <2> HIDE DEF g
  <2>6. g[n] = Len(q)
    <3>1. n \in 1 .. n
      BY <1>1
    <3>2. g[n] = ends[n] - f
      BY <2>5, <3>1
    <3> QED BY <1>1, <2>2, <3>2
  <2>7. ASSUME NEW i \in 1 .. n
        PROVE  /\ sizes[i] \in Nat /\ sizes[i] > 0 /\ sizes[i] <= ends[i]
               /\ g[i] = g[i - 1] + sizes[i] /\ g[i] <= Len(q)
               /\ f + g[i - 1] = ends[i] - sizes[i] /\ f + g[i] = ends[i]
               /\ g[i] \in Nat /\ g[i - 1] \in Nat /\ g[i - 1] <= g[i]
    <3>1. ends[i] \in Nat /\ ends[i] <= Len(k) /\ g[i] = ends[i] - f /\ g[i] \in Nat
      BY <1>1, <2>4, <2>5
    <3>2. CASE i = 1
      <4>1. sizes[i] = ends[1] - f
        <5>1. sizes[1] = (Len(k) - f) - (Len(k) - ends[1])
          BY <1>1, <2>2, <2>3
        <5>2. PICK b \in Nat, e \in Nat : b = Len(k) /\ e = ends[1]
          BY <1>1, <2>2
        <5>3. (b - f) - (b - e) = e - f
          BY <2>2, <5>2
        <5> QED BY <3>2, <5>1, <5>2, <5>3
      <4>2. i - 1 = 0
        BY <3>2
      <4>3. g[i - 1] = 0
        BY <2>5, <4>2
      <4>4. g[i] = ends[1] - f /\ ends[i] = ends[1]
        BY <3>1, <3>2
      <4>5. PICK e \in Nat : e = ends[1] /\ f < e /\ e <= Len(k)
        BY <2>2
      <4>6. /\ e - f \in Nat /\ e - f > 0 /\ e - f <= e /\ e - f = 0 + (e - f) /\ 0 \in Nat
            /\ e - f <= Len(k) - f /\ f + 0 = e - (e - f) /\ f + (e - f) = e /\ 0 <= e - f
        BY <1>1, <2>2, <4>5
      <4>7. sizes[i] = e - f /\ g[i - 1] = 0 /\ g[i] = e - f /\ ends[i] = e
        BY <4>1, <4>3, <4>4, <4>5
      <4> QED BY <2>2, <4>6, <4>7
    <3>3. CASE i # 1
      <4>1. i - 1 \in 1 .. n - 1 /\ (i - 1) + 1 = i /\ i - 1 \in 1 .. n
        BY <3>3
      <4>2. /\ ends[i - 1] < ends[i] /\ ends[i - 1] \in Nat /\ g[i - 1] = ends[i - 1] - f
            /\ g[i - 1] \in Nat
        BY <1>1, <1>3, <2>4, <2>5, <4>1
      <4>3. sizes[i] = ends[i] - ends[i - 1]
        BY <2>3, <3>3
      <4>4. PICK b \in Nat, a \in Nat : b = ends[i] /\ a = ends[i - 1] /\ a < b
        BY <3>1, <4>2
      <4>5. /\ g[i] = b - f /\ g[i - 1] = a - f /\ sizes[i] = b - a /\ b <= Len(k)
            /\ b - f \in Nat /\ a - f \in Nat
        BY <3>1, <4>2, <4>3, <4>4
      <4>6. /\ b - a \in Nat /\ b - a > 0 /\ b - a <= b /\ b - f = (a - f) + (b - a)
            /\ b - f <= Len(k) - f /\ f + (a - f) = b - (b - a) /\ f + (b - f) = b
            /\ a - f <= b - f
        <5>1. SpanOf(a, b, f, Len(k))
          BY <1>1, <2>2, <4>4, <4>5 DEF SpanOf
        <5> QED BY <5>1, Spans, Zenon
      <4> QED BY <2>2, <4>2, <4>4, <4>5, <4>6
    <3> QED BY <3>2, <3>3
  <2>8. ASSUME NEW i \in 1 .. n
        PROVE  SubSeq(q, g[i - 1] + 1, g[i]) = Positions(ends[i] - sizes[i], ends[i])
    <3>1. PICK a \in Nat, b \in Nat : a = g[i - 1] /\ b = g[i] /\ a <= b /\ b <= Len(q)
      BY <2>7
    <3>2. f \in Nat /\ Len(k) \in Nat /\ f <= Len(k) /\ b <= Len(k) - f
      BY <1>1, <2>2, <3>1
    <3>3. SubSeq(Positions(f, Len(k)), a + 1, b) = Positions(f + a, f + b)
      <4>1. PieceOf(f, Len(k), a, b)
        BY <3>1, <3>2 DEF PieceOf
      <4>2. PieceFound(f, Len(k), a, b)
        BY <4>1, PieceIs, Zenon
      <4> QED BY <4>2, Zenon DEF PieceFound
    <3>4. f + a = ends[i] - sizes[i] /\ f + b = ends[i]
      BY <2>7, <3>1
    <3> QED BY <2>1, <3>1, <3>3, <3>4
  <2>9. Measured(q, ends, n, sizes, g)
    BY <2>5, <2>6, <2>7, <2>8, Zenon DEF Measured
  <2> QED BY <2>3, <2>9, Zenon
<1> QED BY <1>4, <1>5, <1>6

\* The sizes of the passes add up to where each pass starts.
LEMMA Sums ==
  ASSUME NEW sizes, NEW n \in Nat, NEW g \in [0 .. n -> Nat], g[0] = 0,
         \A i \in 1 .. n : g[i] = g[i - 1] + sizes[i], NEW m \in 0 .. n
  PROVE  SumTo(sizes, m) = g[m]
<1> DEFINE u == [i \in 0 .. m |-> g[i]]
<1>1. m \in Nat /\ 0 .. m \subseteq 0 .. n /\ 1 .. m \subseteq 1 .. n
  OBVIOUS
<1>2. \A i \in 1 .. m : i \in 0 .. m /\ i - 1 \in 0 .. m
  BY <1>1
<1>3. 0 \in 0 .. m /\ m \in 0 .. m
  BY <1>1
<1>4. \A i \in 0 .. m : u[i] = g[i]
  OBVIOUS
<1>5. u \in [0 .. m -> Int]
  <2>1. \A i \in 0 .. m : g[i] \in Int
    BY <1>1
  <2> QED BY <2>1
<1> HIDE DEF u
<1>6. u[0] = 0 /\ \A i \in 1 .. m : u[i] = u[i - 1] + sizes[i]
  <2>1. u[0] = 0
    BY <1>3, <1>4
  <2>2. ASSUME NEW i \in 1 .. m PROVE u[i] = u[i - 1] + sizes[i]
    <3>1. g[i] = g[i - 1] + sizes[i]
      BY <1>1
    <3>2. u[i] = g[i] /\ u[i - 1] = g[i - 1]
      BY <1>2, <1>4
    <3> QED BY <3>1, <3>2, Zenon
  <2> QED BY <2>1, <2>2
<1>7. SumTo(sizes, m) = u[m]
  BY <1>1, <1>5, <1>6, SumToIs
<1> QED BY <1>3, <1>4, <1>7

\* The passes that are given.
PassesOf(q, h, n, sizes) ==
  [i \in 1 .. n |-> [k |-> h[i], q |-> SubSeq(q, SumTo(sizes, i - 1) + 1, SumTo(sizes, i))]]

Passes(q, ends, n, sizes, p, g) ==
  /\ DOMAIN p = 1 .. n /\ p \in Seq([k : Rows, q : Rows])
  /\ g \in [0 .. n -> Nat] /\ g[0] = 0 /\ g[n] = Len(q)
  /\ \A i \in 1 .. n :
       /\ ends[i] \in Nat /\ sizes[i] \in Nat /\ sizes[i] > 0 /\ sizes[i] <= ends[i]
       /\ g[i - 1] <= g[i] /\ g[i] <= Len(q)
       /\ p[i].k = Positions(0, ends[i])
       /\ p[i].q = SubSeq(q, g[i - 1] + 1, g[i])
       /\ p[i].q = Positions(ends[i] - sizes[i], ends[i])

LEMMA GivenPasses ==
  ASSUME TypeOK, NEW k, NEW q, NEW ends, NEW n, NEW sizes, Given(k, q, ends, n, sizes)
  PROVE  \E g : Passes(q, ends, n, sizes, PassesOf(q, Histories(k, ends), n, sizes), g)
<1>10. PICK h : h = Histories(k, ends)
  OBVIOUS
<1>11. PICK p : p = PassesOf(q, h, n, sizes)
  OBVIOUS
<1>0. /\ k \in Rows /\ q \in Rows /\ StoreOK(k, q, ends)
      /\ ends # <<>> /\ LastOf(ends) = Len(k) /\ n \in Nat /\ n = Len(ends)
  BY DEF Given
<1>1. PICK g : Measured(q, ends, n, sizes, g)
  BY PassesAre, Zenon
<1>2. /\ g \in [0 .. n -> Nat] /\ g[0] = 0 /\ g[n] = Len(q)
      /\ \A i \in 1 .. n :
           /\ sizes[i] \in Nat /\ sizes[i] > 0 /\ sizes[i] <= ends[i]
           /\ g[i] = g[i - 1] + sizes[i] /\ g[i] <= Len(q)
           /\ SubSeq(q, g[i - 1] + 1, g[i]) = Positions(ends[i] - sizes[i], ends[i])
  BY <1>1, Zenon DEF Measured
<1>3. /\ Len(k) \in Nat
      /\ \A i \in 1 .. n : /\ ends[i] \in Nat /\ ends[i] > 0 /\ ends[i] <= Len(k)
                           /\ h[i] = SubSeq(k, 1, ends[i])
  <2>1. \A i \in 1 .. Len(ends) :
          ends[i] \in Nat /\ ends[i] > 0 /\ ends[i] <= Len(k) /\ h[i] = SubSeq(k, 1, ends[i])
    BY <1>0, <1>10, HistoriesAre
  <2> QED BY <1>0, <2>1, RowsFacts
<1>4. k = Positions(0, Len(k))
  <2>1. /\ n > 0 /\ ends[n] = Len(k)
    BY <1>0, EndsFacts DEF StoreOK
  <2>2. n \in 1 .. n /\ ~(ends[n] < Len(k))
    BY <1>0, <1>3, <2>1
  <2>3. Clean(k)
    BY <1>0, <2>2 DEF StoreOK
  <2> QED BY <1>0, <2>3 DEF StoreOK
<1>5. ASSUME NEW i \in 1 .. n
      PROVE  /\ p[i].k = Positions(0, ends[i])
             /\ p[i].q = SubSeq(q, g[i - 1] + 1, g[i])
             /\ p[i].q = Positions(ends[i] - sizes[i], ends[i])
             /\ p[i] = [k |-> p[i].k, q |-> p[i].q] /\ g[i - 1] <= g[i]
  <2>1. p[i] = [k |-> h[i], q |-> SubSeq(q, SumTo(sizes, i - 1) + 1, SumTo(sizes, i))]
    BY <1>11 DEF PassesOf
  <2>2. i \in 0 .. n /\ i - 1 \in 0 .. n
    BY <1>0
  <2>3. \A m \in 1 .. n : g[m] = g[m - 1] + sizes[m]
    BY <1>2
  <2>4. SumTo(sizes, i) = g[i] /\ SumTo(sizes, i - 1) = g[i - 1]
    <3>1. n \in Nat /\ g \in [0 .. n -> Nat] /\ g[0] = 0
      BY <1>0, <1>2
    <3> QED BY <2>2, <2>3, <3>1, Sums, Zenon
  <2>5. PICK a \in Nat, c \in Nat : a = ends[i] /\ c = Len(k) /\ a <= c
    BY <1>3
  <2>6. SubSeq(Positions(0, c), 0 + 1, a) = Positions(0 + 0, 0 + a)
    <3>1. PieceOf(0, c, 0, a)
      BY <2>5 DEF PieceOf
    <3>2. PieceFound(0, c, 0, a)
      BY <3>1, PieceIs, Zenon
    <3> QED BY <3>2, Zenon DEF PieceFound
  <2>7. h[i] = Positions(0, a)
    <3>1. 0 + 1 = 1 /\ 0 + 0 = 0 /\ 0 + a = a
      OBVIOUS
    <3>2. h[i] = SubSeq(Positions(0, c), 1, a)
      BY <1>3, <1>4, <2>5
    <3> QED BY <2>6, <3>1, <3>2
  <2>8. g[i - 1] <= g[i]
    BY <1>2, <2>2, <2>3
  <2>9. SubSeq(q, g[i - 1] + 1, g[i]) = Positions(ends[i] - sizes[i], ends[i])
    BY <1>2
  <2>10. p[i].k = h[i] /\ p[i].q = SubSeq(q, g[i - 1] + 1, g[i]) /\ p[i] = [k |-> p[i].k, q |-> p[i].q]
    <3>1. p[i] = [k |-> h[i], q |-> SubSeq(q, g[i - 1] + 1, g[i])]
      BY <2>1, <2>4, Zenon
    <3>2. PICK x, y, r : x = h[i] /\ y = SubSeq(q, g[i - 1] + 1, g[i]) /\ r = p[i]
      OBVIOUS
    <3>3. r = [k |-> x, q |-> y]
      BY <3>1, <3>2, Zenon
    <3>4. r.k = x /\ r.q = y /\ r = [k |-> r.k, q |-> r.q]
      BY <3>3
    <3> QED BY <3>2, <3>4, Zenon
  <2> QED BY <2>5, <2>7, <2>8, <2>9, <2>10, Zenon
<1>6. p \in [1 .. n -> [k : Rows, q : Rows]]
  <2>1. ASSUME NEW i \in 1 .. n PROVE p[i] \in [k : Rows, q : Rows]
    <3>1. 0 \in Nat /\ ends[i] \in Nat /\ ends[i] - sizes[i] \in Nat
      BY <1>2, <1>3
    <3>2. p[i].k \in Rows /\ p[i].q \in Rows
      BY <1>5, <3>1, PositionsType
    <3>3. PICK r : r = p[i]
      OBVIOUS
    <3>4. r = [k |-> r.k, q |-> r.q] /\ r.k \in Rows /\ r.q \in Rows
      BY <1>5, <3>2, <3>3
    <3> QED BY <3>3, <3>4
  <2>2. p = [i \in 1 .. n |-> p[i]]
    BY <1>11 DEF PassesOf
  <2> QED BY <2>1, <2>2
<1>7. DOMAIN p = 1 .. n /\ p \in Seq([k : Rows, q : Rows])
  <2>1. n \in Nat
    BY <1>0
  <2>2. \A S : p \in [1 .. n -> S] => DOMAIN p = 1 .. n /\ p \in Seq(S)
    BY <2>1
  <2> QED BY <1>6, <2>2, Zenon
<1>9. Passes(q, ends, n, sizes, p, g)
  BY <1>2, <1>3, <1>5, <1>7, Zenon DEF Passes
<1> QED BY <1>9, <1>10, <1>11, Zenon

\* What qk_probes answers: nothing without a history, and refusals when the
\* rows do not fit it, else all passes.
LEMMA ProbesNone ==
  ASSUME NEW k \in Rows, NEW q, NEW ends, StoreOK(k, q, ends), NEW j
  PROVE  /\ ends = <<>> => Probes(q, Histories(k, ends), j) = Nothing
         /\ ends # <<>> /\ Len(j) # LastOf(ends) => Probes(q, Histories(k, ends), j) = Refused
<1> PICK h : h = Histories(k, ends)
  OBVIOUS
<1>1. /\ DOMAIN h = 1 .. Len(ends) /\ ends = [i \in 1 .. Len(ends) |-> ends[i]]
      /\ \A i \in 1 .. Len(ends) : Len(h[i]) = ends[i]
      /\ h = <<>> <=> ends = <<>>
  BY HistoriesAre
<1>2. ends = [i \in DOMAIN h |-> Len(h[i])]
  BY <1>1
<1>3. /\ h = <<>> => Probes(q, h, j) = Nothing
      /\ h # <<>> /\ Len(j) # LastOf([i \in DOMAIN h |-> Len(h[i])]) => Probes(q, h, j) = Refused
  BY DEF Probes
<1>4. /\ ends = <<>> => Probes(q, h, j) = Nothing
      /\ ends # <<>> /\ Len(j) # LastOf(ends) => Probes(q, h, j) = Refused
  BY <1>1, <1>2, <1>3
<1> QED BY <1>4

Fits(j, ends) == Len(j) = LastOf(ends)

Answered(a, k, q, ends, n, sizes) ==
  \/ a = Served(PassesOf(q, Histories(k, ends), n, sizes))
  \/ a = Refused /\ ask.hooks # "decode" /\ ask.mode # "last_token" /\ sizes[1] # ends[1]

LEMMA ProbesGive ==
  ASSUME TypeOK, NEW k, NEW q, NEW ends, NEW n, NEW sizes, Given(k, q, ends, n, sizes),
         NEW j, Fits(j, ends)
  PROVE  Answered(Probes(q, Histories(k, ends), j), k, q, ends, n, sizes)
<1>1. PICK h : h = Histories(k, ends)
  OBVIOUS
<1>2. /\ k \in Rows /\ StoreOK(k, q, ends) /\ ends # <<>> /\ n \in Nat /\ n = Len(ends)
      /\ sizes = PassRows(Len(q), ends, ask.mode)
  BY DEF Given
<1>3. Probes(q, h, j) =
        IF Len(j) # LastOf(ends) THEN Refused
        ELSE IF ~(ask.hooks = "decode" \/ ask.mode = "last_token" \/ sizes[1] = ends[1])
                \/ \E i \in DOMAIN sizes : sizes[i] <= 0
        THEN Refused
        ELSE Served(PassesOf(q, h, n, sizes))
  BY <1>1, <1>2, ProbesAre DEF PassesOf
<1>4. ~ \E i \in DOMAIN sizes : sizes[i] <= 0
  <2>1. PICK g : Measured(q, ends, n, sizes, g)
    BY PassesAre, Zenon
  <2>2. DOMAIN sizes = 1 .. n
    BY PassesAre, Zenon
  <2>3. \A i \in 1 .. n : sizes[i] \in Nat /\ sizes[i] > 0
    BY <2>1, Zenon DEF Measured
  <2> QED BY <2>2, <2>3
<1>5. Len(j) = LastOf(ends)
  BY DEF Fits
<1> QED BY <1>1, <1>3, <1>4, <1>5, Zenon DEF Answered

\* An answer whose passes are exact.
Exact(a) ==
  \A i \in DOMAIN a.passes :
    LET p == a.passes[i]
    IN  /\ p.k = Positions(0, Len(p.k))
        /\ p.q # <<>>
        /\ p.q = Positions(Len(p.k) - Len(p.q), Len(p.k))

LEMMA NoneIsExact == \A a \in {NoAnswer, Nothing, Refused, TimedOut} : Exact(a)
<1>1. \A a \in {NoAnswer, Nothing, Refused, TimedOut} : a.passes = <<>>
  BY DEF NoAnswer, Nothing, Refused, TimedOut
<1>2. DOMAIN <<>> = {}
  OBVIOUS
<1> QED BY <1>1, <1>2 DEF Exact

LEMMA ServedIsExact ==
  ASSUME TypeOK, NEW k, NEW q, NEW ends, NEW n, NEW sizes, Given(k, q, ends, n, sizes),
         NEW p, p = PassesOf(q, Histories(k, ends), n, sizes)
  PROVE  Exact(Served(p))
<1>1. PICK g : Passes(q, ends, n, sizes, p, g)
  BY GivenPasses, Zenon
<1>2. /\ DOMAIN p = 1 .. n
      /\ \A i \in 1 .. n :
           /\ ends[i] \in Nat /\ sizes[i] \in Nat /\ sizes[i] > 0 /\ sizes[i] <= ends[i]
           /\ p[i].k = Positions(0, ends[i])
           /\ p[i].q = Positions(ends[i] - sizes[i], ends[i])
  BY <1>1, Zenon DEF Passes
<1>3. Served(p).passes = p
  BY DEF Served
<1>4. ASSUME NEW i \in 1 .. n
      PROVE  /\ p[i].k = Positions(0, Len(p[i].k))
             /\ p[i].q # <<>>
             /\ p[i].q = Positions(Len(p[i].k) - Len(p[i].q), Len(p[i].k))
  <2>1. PICK e \in Nat, s \in Nat : e = ends[i] /\ s = sizes[i] /\ s > 0 /\ s <= e
    BY <1>2
  <2>2. p[i].k = Positions(0, e) /\ p[i].q = Positions(e - s, e)
    BY <1>2, <2>1
  <2>3. 0 \in Nat /\ 0 <= e /\ e - 0 = e /\ e - s \in Nat /\ e - s <= e /\ e - (e - s) = s
    BY <2>1
  <2>4. Len(Positions(0, e)) = e
    BY <2>3, PositionsAre
  <2>5. Len(Positions(e - s, e)) = s /\ Positions(e - s, e) # <<>>
    <3>1. PICK d \in Nat : d = e - s /\ d <= e /\ e - d = s /\ ~(e <= d)
      <4>1. ~(e <= e - s)
        BY <2>1
      <4> QED BY <2>3, <4>1, Zenon
    <3>2. Len(Positions(d, e)) = e - d /\ Positions(d, e) # <<>>
      BY <3>1, PositionsType
    <3> QED BY <3>1, <3>2
  <2> QED BY <2>2, <2>4, <2>5, Zenon
<1> QED BY <1>2, <1>3, <1>4, Zenon DEF Exact

\* So is what qk_probes makes of rows that hold as many positions as their
\* last history, when it answers at all.
LEMMA ProbesExact ==
  ASSUME TypeOK, NEW k \in Rows, NEW q \in Rows, NEW ends, StoreOK(k, q, ends), NEW j,
         ends # <<>> /\ Len(j) = LastOf(ends) => LastOf(ends) = Len(k)
  PROVE  Exact(Probes(q, Histories(k, ends), j))
<1>1. CASE ends = <<>> \/ Len(j) # LastOf(ends)
  BY <1>1, ProbesNone, NoneIsExact
<1>2. CASE ends # <<>> /\ Len(j) = LastOf(ends)
  <2>1. PICK n, sizes : n = Len(ends) /\ sizes = PassRows(Len(q), ends, ask.mode)
    OBVIOUS
  <2>2. n \in Nat
    BY <2>1, EndsFacts DEF StoreOK
  <2>3. Given(k, q, ends, n, sizes)
    BY <1>2, <2>1, <2>2 DEF Given
  <2>4. Fits(j, ends)
    BY <1>2 DEF Fits
  <2>5. PICK a : a = Probes(q, Histories(k, ends), j) /\ Answered(a, k, q, ends, n, sizes)
    BY <2>3, <2>4, ProbesGive, Zenon
  <2>6. PICK p : p = PassesOf(q, Histories(k, ends), n, sizes)
    OBVIOUS
  <2>7. Exact(Served(p)) /\ Exact(Refused)
    BY <2>3, <2>6, ServedIsExact, NoneIsExact
  <2>8. Exact(a)
    BY <2>5, <2>6, <2>7, Zenon DEF Answered
  <2> QED BY <2>5, <2>8
<1> QED BY <1>1, <1>2

\* Entries that follow one another name their file.
Rowed(file, es, start, count) ==
  /\ file \in Rows /\ Len(es) \in Nat /\ Len(es) > 0
  /\ \A i \in 1 .. Len(es) : es[i][start] \in Nat /\ es[i][count] \in Nat
  /\ es[1][start] = 0
  /\ \A i \in 1 .. Len(es) - 1 : es[i + 1][start] = es[i][start] + es[i][count]
  /\ es[Len(es)][start] + es[Len(es)][count] = Len(file)

LEMMA RowedNames ==
  ASSUME NEW file, NEW S, NEW es \in Seq(S), NEW start, NEW count, Rowed(file, es, start, count)
  PROVE  RowsNamed(file, es, start, count) = file
<1>1. PICK n \in Nat : n = Len(es) /\ n > 0
  BY DEF Rowed
<1>2. /\ file \in Rows /\ Len(file) \in Nat
      /\ \A i \in 1 .. n : es[i][start] \in Nat /\ es[i][count] \in Nat
      /\ es[1][start] = 0
      /\ \A i \in 1 .. n - 1 : es[i + 1][start] = es[i][start] + es[i][count]
      /\ es[n][start] + es[n][count] = Len(file)
  BY <1>1, RowsFacts DEF Rowed
<1> DEFINE at == [i \in 0 .. n |-> IF i = 0 THEN 0 ELSE es[i][start] + es[i][count]]
<1>3. at \in [0 .. n -> Nat] /\ at[0] = 0
  <2>1. \A i \in 0 .. n : i # 0 => i \in 1 .. n
    OBVIOUS
  <2>2. ASSUME NEW i \in 0 .. n, i # 0 PROVE es[i][start] + es[i][count] \in Nat
    <3>1. es[i][start] \in Nat /\ es[i][count] \in Nat
      BY <1>2, <2>1, <2>2
    <3> QED BY <3>1
  <2> QED BY <2>2
<1>4. \A i \in 1 .. n : at[i] = es[i][start] + es[i][count]
  OBVIOUS
<1> HIDE DEF at
<1>5. ASSUME NEW i \in 1 .. n
      PROVE  es[i][start] = at[i - 1] /\ es[i][start] + es[i][count] = at[i] /\ at[i - 1] <= at[i]
  <2>1. es[i][start] + es[i][count] = at[i]
    BY <1>4
  <2>2. es[i][start] = at[i - 1]
    <3>1. CASE i = 1
      <4>1. i - 1 = 0
        BY <3>1
      <4> QED BY <1>2, <1>3, <3>1, <4>1
    <3>2. CASE i # 1
      <4>1. PICK m \in 1 .. n - 1 : m + 1 = i /\ m = i - 1 /\ m \in 1 .. n
        <5>1. i - 1 \in 1 .. n - 1 /\ (i - 1) + 1 = i /\ i - 1 \in 1 .. n
          BY <3>2
        <5> QED BY <5>1, Zenon
      <4>2. es[m + 1][start] = es[m][start] + es[m][count] /\ at[m] = es[m][start] + es[m][count]
        BY <1>2, <1>4, <4>1
      <4> QED BY <4>1, <4>2
    <3> QED BY <3>1, <3>2
  <2>3. es[i][start] <= es[i][start] + es[i][count]
    <3>1. \A a \in Nat, c \in Nat : a <= a + c
      OBVIOUS
    <3> QED BY <1>2, <3>1, Zenon
  <2> QED BY <2>1, <2>2, <2>3
<1>6. at[n] = Len(file)
  <2>1. n \in 1 .. n
    BY <1>1
  <2> QED BY <1>2, <1>4, <2>1
<1>7. \A i \in 0 .. n : at[i] <= Len(file)
  <2> DEFINE T == {m \in Nat : m <= n /\ ~(at[n - m] <= Len(file))}
  <2>1. T # {} => FALSE
    <3> SUFFICES ASSUME T # {} PROVE FALSE
      OBVIOUS
    <3>1. PICK m \in T : \A y \in T : m <= y
      BY Least
    <3>2. m \in Nat /\ m <= n /\ ~(at[n - m] <= Len(file))
      BY <3>1
    <3>3. m # 0
      <4>1. n - 0 = n /\ Len(file) <= Len(file)
        BY <1>2
      <4> QED BY <1>6, <3>2, <4>1
    <3>4. PICK y \in Nat : y = m - 1 /\ y <= n /\ ~(m <= y)
      <4>1. m - 1 \in Nat /\ m - 1 <= n /\ ~(m <= m - 1)
        BY <3>2, <3>3
      <4> QED BY <4>1, Zenon
    <3>5. y \notin T
      BY <3>1, <3>4
    <3>6. at[n - y] <= Len(file)
      BY <3>4, <3>5
    <3>7. PICK i \in 1 .. n : i = n - y /\ i - 1 = n - m
      <4>1. n - y \in 1 .. n /\ (n - y) - 1 = n - m
        BY <3>2, <3>4
      <4> QED BY <4>1, Zenon
    <3>8. at[i - 1] <= at[i] /\ at[i] <= Len(file) /\ ~(at[i - 1] <= Len(file))
      BY <1>5, <3>2, <3>6, <3>7
    <3>9. i \in 0 .. n /\ i - 1 \in 0 .. n
      OBVIOUS
    <3>10. at[i] \in Nat /\ at[i - 1] \in Nat
      BY <1>3, <3>9
    <3> QED BY <1>2, <3>8, <3>10
  <2>2. ASSUME NEW i \in 0 .. n PROVE at[i] <= Len(file)
    <3>1. n - i \in Nat /\ n - i <= n /\ n - (n - i) = i
      OBVIOUS
    <3>2. n - i \notin T
      BY <2>1
    <3> QED BY <3>1, <3>2
  <2> QED BY <2>2
<1>8. RowsAt(file, es, start, count, at)
  <2>1. \A i \in 1 .. n : i \in 0 .. n
    OBVIOUS
  <2> QED BY <1>1, <1>2, <1>3, <1>5, <1>6, <1>7, <2>1 DEF RowsAt
<1> QED BY <1>8, RowsNamedIs, Zenon

\* The directory of a client holds what was staged.
LEMMA LoadIs ==
  ASSUME NEW d \in Stagings, Tiled(d), d.entries # <<>>
  PROVE  LoadArtifact(d) = Probes(d.q, Histories(d.k, EndsOf(d.entries)), d.k)
<1>1. /\ d.k \in Rows /\ d.q \in Rows /\ d.entries \in Seq(Entries)
  BY StagingType
<1>2. PICK es : es = d.entries
  OBVIOUS
<1>3. /\ es \in Seq(Entries) /\ Len(es) \in Nat /\ Len(es) > 0
      /\ \A i \in 1 .. Len(es) :
           es[i].kStart \in Nat /\ es[i].kRows \in Nat /\ es[i].qStart \in Nat /\ es[i].qRows \in Nat
  <2>1. es \in Seq(Entries) /\ Len(es) \in Nat /\ Len(es) > 0
    BY <1>1, <1>2
  <2>2. \A i \in 1 .. Len(es) : es[i] \in Entries
    BY <2>1
  <2>3. \A e \in Entries : e.kStart \in Nat /\ e.kRows \in Nat /\ e.qStart \in Nat /\ e.qRows \in Nat
    BY DEF Entries
  <2> QED BY <2>1, <2>2, <2>3
<1>4. /\ es[1].kStart = 0 /\ es[1].qStart = 0 /\ es[1].nc = 0
      /\ \A i \in 1 .. Len(es) - 1 :
           /\ es[i + 1].kStart = es[i].kStart + es[i].kRows
           /\ es[i + 1].qStart = es[i].qStart + es[i].qRows
      /\ es[Len(es)].kStart + es[Len(es)].kRows = Len(d.k)
      /\ es[Len(es)].qStart + es[Len(es)].qRows = Len(d.q)
  BY <1>2, <1>3 DEF Tiled, LastOf
<1>5. Rowed(d.k, es, "kStart", "kRows") /\ Rowed(d.q, es, "qStart", "qRows")
  BY <1>1, <1>3, <1>4 DEF Rowed
<1>6. RowsNamed(d.k, es, "kStart", "kRows") = d.k /\ RowsNamed(d.q, es, "qStart", "qRows") = d.q
  BY <1>3, <1>5, RowedNames
<1>7. ~(es[1].nc > 0)
  BY <1>4
<1> QED BY <1>2, <1>6, <1>7 DEF LoadArtifact

-----------------------------------------------------------------------------
(***************************************************************************)
(* The answer.                                                             *)
(***************************************************************************)

\* What the host index answers: nothing or a refusal, or what qk_probes makes
\* of an entry whose keys are as many as its last history is long.
LEMMA AssembleIs ==
  ASSUME NEW e \in IndexEntries, StoreOK(e.k, e.q, e.ends)
  PROVE  \/ /\ Assemble(e) = Refused
            /\ \/ e.nc > 0
               \/ e.ends # <<>> /\ (e.q = <<>> \/ Len(e.k) # LastOf(e.ends))
         \/ Assemble(e) = Nothing /\ e.q = <<>> /\ e.ends = <<>>
         \/ \E j : /\ Assemble(e) = Probes(e.q, Histories(e.k, e.ends), j)
                   /\ e.ends # <<>> => Fits(j, e.ends) /\ LastOf(e.ends) = Len(e.k)
<1>1. e.k \in Rows
  BY DEF IndexEntries
<1>2. PICK h : h = Histories(e.k, e.ends)
  OBVIOUS
<1>3. (h = <<>> <=> e.ends = <<>>) /\ (h # <<>> => Len(LastOf(h)) = LastOf(e.ends))
  BY <1>1, <1>2, HistoriesAre
<1>4. e.ends # <<>> => Fits(LastOf(h), e.ends)
  BY <1>3 DEF Fits
<1>5. Assemble(e) = IF e.nc > 0 THEN Refused
                    ELSE IF e.q = <<>> THEN IF e.ends # <<>> THEN Refused ELSE Nothing
                    ELSE IF e.ends # <<>> /\ Len(e.k) # LastOf(e.ends) THEN Refused
                    ELSE Probes(e.q, h, LastOf(h))
  BY <1>2 DEF Assemble
<1> QED BY <1>2, <1>4, <1>5

LEMMA AssembleExact ==
  ASSUME TypeOK, NEW e \in IndexEntries, StoreOK(e.k, e.q, e.ends)
  PROVE  Exact(Assemble(e))
<1>1. CASE Assemble(e) = Refused \/ Assemble(e) = Nothing
  BY <1>1, NoneIsExact
<1>2. ASSUME NEW j, Assemble(e) = Probes(e.q, Histories(e.k, e.ends), j),
             e.ends # <<>> => Fits(j, e.ends) /\ LastOf(e.ends) = Len(e.k)
      PROVE  Exact(Assemble(e))
  <2>1. PICK k \in Rows, q \in Rows, ends \in Seq(1 .. goal) : k = e.k /\ q = e.q /\ ends = e.ends
    BY DEF IndexEntries
  <2>2. StoreOK(k, q, ends) /\ (ends # <<>> /\ Len(j) = LastOf(ends) => LastOf(ends) = Len(k))
    BY <1>2, <2>1
  <2>3. Exact(Probes(q, Histories(k, ends), j))
    BY <2>2, ProbesExact
  <2> QED BY <1>2, <2>1, <2>3
<1> QED BY <1>1, <1>2, AssembleIs

LEMMA LoadExact ==
  ASSUME TypeOK, NEW d \in Stagings, Tiled(d), d.entries # <<>>,
         StoreOK(d.k, d.q, EndsOf(d.entries))
  PROVE  Exact(LoadArtifact(d))
<1>0. EndsOf(d.entries) \in Seq(Nat \ {0})
  BY DEF StoreOK
<1>1. PICK k \in Rows, q \in Rows, ends \in Seq(Nat \ {0}) :
        k = d.k /\ q = d.q /\ ends = EndsOf(d.entries)
  BY <1>0, StagingType
<1>2. StoreOK(k, q, ends) /\ (ends # <<>> /\ Len(k) = LastOf(ends) => LastOf(ends) = Len(k))
  BY <1>1
<1>3. Exact(Probes(q, Histories(k, ends), k))
  BY <1>2, ProbesExact
<1> QED BY <1>1, <1>3, LoadIs

\* Where an answer comes from.
Answering ==
  /\ client = "waiting"
  /\ \/ ask.route = "rpc" /\ deliverable /\ answer' = Assemble(index)
     \/ ask.route = "disk" /\ landed = "landed" /\ answer' = LoadArtifact(dest)

LEMMA Answers ==
  ASSUME stash = NoAnswer, [Next]_vars
  PROVE  stash' = NoAnswer /\ (answer' = answer \/ answer' = TimedOut \/ Answering)
<1>1. CASE Fetch
  BY <1>1 DEF Fetch, FetchedStash, Answering
<1>2. CASE Confirm
  BY <1>2 DEF Confirm, Answering
<1>3. CASE WaitTimesOut
  BY <1>3 DEF WaitTimesOut
<1>4. CASE FreeHost
  BY <1>4 DEF FreeHost
<1>5. CASE Abort \/ ClearDisk \/ MarkHost
  BY <1>5 DEF Abort, ClearDisk, MarkHost
<1>6. CASE Engine \/ Transfer
  BY <1>6 DEF Engine, Step, Preempt, EnqueueFinish, Transfer, clientVars
<1>7. CASE Consumer
  BY <1>7 DEF Consumer, TakeItem, DemuxToDisk, DiskWriteFails, DemuxToHost,
     FinishAborted, FinishDisk, FinishHost, clientVars
<1>8. CASE UNCHANGED vars
  BY <1>8 DEF vars, clientVars
<1> QED BY <1>1, <1>2, <1>3, <1>4, <1>5, <1>6, <1>7, <1>8 DEF Next, Client

\* What lies where an answer comes from.
LEMMA AnswersFrom ==
  ASSUME TypeOK, DiskInv, HostInv, KeptInv, Answering
  PROVE  /\ engine = "finished" /\ client = "waiting"
         /\ \/ /\ answer' = Assemble(index) /\ index \in IndexEntries /\ index.nc \in {-1, 0}
               /\ StoreInv(index.k, index.q, index.ends) /\ Met
            \/ /\ answer' = LoadArtifact(source) /\ source \in Stagings
               /\ Tiled(source) /\ source.entries # <<>>
               /\ StoreOK(source.k, source.q, EndsOf(source.entries))
               /\ EngineFollows(LastReach(source.k), FALSE)
<1>1. CASE ask.route = "rpc" /\ deliverable /\ answer' = Assemble(index)
  <2>1. client = "waiting"
    BY DEF Answering
  <2>2. Met
    BY <1>1, <2>1 DEF HostInv
  <2>3. index.nc \in {-1, 0} /\ StoreInv(index.k, index.q, index.ends)
    BY <1>1, <2>1 DEF KeptInv
  <2>4. index \in IndexEntries
    BY DEF TypeOK, DrainType
  <2> QED BY <1>1, <2>1, <2>2, <2>3, <2>4 DEF Met
<1>2. CASE ask.route = "disk" /\ landed = "landed" /\ answer' = LoadArtifact(dest)
  <2>1. client = "waiting"
    BY DEF Answering
  <2>2. engine = "finished" /\ dest = source
    BY <1>2, <2>1 DEF DiskInv
  <2>3. /\ Tiled(source) /\ source.entries # <<>>
        /\ StoreOK(source.k, source.q, EndsOf(source.entries))
        /\ EngineFollows(LastReach(source.k), FALSE)
    BY <1>2 DEF KeptInv
  <2>4. source \in Stagings
    BY DEF TypeOK, ClientType
  <2> QED BY <1>2, <2>1, <2>2, <2>3, <2>4
<1> QED BY <1>1, <1>2 DEF Answering

AnswerInv == stash = NoAnswer /\ Exact(answer)

LEMMA AnswerNext ==
  ASSUME TypeOK, DiskInv, HostInv, KeptInv, AnswerInv, [Next]_vars
  PROVE  AnswerInv'
<1>1. stash' = NoAnswer /\ (answer' = answer \/ answer' = TimedOut \/ Answering)
  BY Answers DEF AnswerInv
<1>2. CASE Answering
  <2>1. CASE /\ answer' = Assemble(index) /\ index \in IndexEntries
             /\ StoreInv(index.k, index.q, index.ends)
    <3>1. Exact(Assemble(index))
      BY <2>1, AssembleExact DEF StoreInv
    <3> QED BY <1>1, <2>1, <3>1 DEF AnswerInv, Exact
  <2>2. CASE /\ answer' = LoadArtifact(source) /\ source \in Stagings
             /\ Tiled(source) /\ source.entries # <<>>
             /\ StoreOK(source.k, source.q, EndsOf(source.entries))
    <3>1. Exact(LoadArtifact(source))
      BY <2>2, LoadExact
    <3> QED BY <1>1, <2>2, <3>1 DEF AnswerInv, Exact
  <2> QED BY <1>2, <2>1, <2>2, AnswersFrom
<1>3. CASE answer' = answer
  BY <1>1, <1>3 DEF AnswerInv, Exact
<1>4. CASE answer' = TimedOut
  <2>1. Exact(TimedOut)
    BY NoneIsExact
  <2> QED BY <1>1, <1>4, <2>1 DEF AnswerInv, Exact
<1> QED BY <1>1, <1>2, <1>3, <1>4

\* A history that is delivered is exact, whatever was preempted: the keys of a
\* pass are those of positions 0 .. L - 1, each once and in order, and its
\* queries are those of the last positions of that history (what qk_probes
\* gives of the rows that append and note_rows kept), unless prefixes can be
\* found cached.
THEOREM HistoryExact == ~CacheHits => (Spec => []HistoryIsExact)
<1> SUFFICES ASSUME ~CacheHits PROVE Spec => []HistoryIsExact
  OBVIOUS
<1> DEFINE Kept == DiskInv /\ HostInv /\ KeptInv
<1>1. Spec => []TypeOK
  BY HistoryTypes
<1>2. Spec => [](FinishInv /\ DiskInv /\ HostInv /\ HistoryInv)
  BY HistoryAlways
<1>3. Init => AnswerInv
  BY NoneIsExact DEF Init, AnswerInv
<1>4. TypeOK /\ Kept /\ AnswerInv /\ [Next]_vars => AnswerInv'
  BY AnswerNext
<1>5. FinishInv /\ DiskInv /\ HostInv /\ HistoryInv => Kept
  BY DEF HistoryInv
<1>6. AnswerInv => HistoryIsExact
  BY DEF AnswerInv, Exact, HistoryIsExact
<1> HIDE DEF Kept
<1> QED BY <1>1, <1>2, <1>3, <1>4, <1>5, <1>6, PTL DEF Spec

-----------------------------------------------------------------------------
(***************************************************************************)
(* A request that nothing disturbs is served.                              *)
(***************************************************************************)

LEMMA QueriesNone == QueriesOf(<<>>) = <<>>
<1> DEFINE g == [i \in 0 .. 0 |-> <<>>]
<1>1. DOMAIN g = 0 .. 0 /\ g = [i \in 0 .. 0 |-> g[i]] /\ g[0] = <<>> /\ 1 .. 0 = {}
  OBVIOUS
<1> HIDE DEF g
<1>2. PICK e : e = <<>>
  OBVIOUS
<1>3. Len(e) = 0 /\ 0 \in Nat
  BY <1>2
<1>4. QueriesOf(e) = g[0]
  BY <1>1, <1>3, QueriesOfIs
<1> QED BY <1>1, <1>2, <1>4

\* The passes that are given hold all queries that are kept.
LEMMA GivenAll ==
  ASSUME TypeOK, NEW k, NEW q, NEW ends, NEW n, NEW sizes, Given(k, q, ends, n, sizes)
  PROVE  QueriesOf(PassesOf(q, Histories(k, ends), n, sizes)) = q
<1>1. PICK p : p = PassesOf(q, Histories(k, ends), n, sizes)
  OBVIOUS
<1>2. n \in Nat /\ q \in Seq(Nat) /\ Len(q) \in Nat
  BY RowsFacts DEF Given, Rows
<1>3. PICK g : Passes(q, ends, n, sizes, p, g)
  BY <1>1, GivenPasses, Zenon
<1>4. /\ DOMAIN p = 1 .. n /\ p \in Seq([k : Rows, q : Rows])
      /\ g \in [0 .. n -> Nat] /\ g[0] = 0 /\ g[n] = Len(q)
      /\ \A i \in 1 .. n : /\ g[i - 1] <= g[i] /\ g[i] <= Len(q)
                           /\ p[i].q = SubSeq(q, g[i - 1] + 1, g[i])
  BY <1>3, Zenon DEF Passes
<1>5. n = Len(p)
  BY <1>2, <1>4
<1> DEFINE G == [i \in 0 .. n |-> SubSeq(q, 1, g[i])]
<1>6. G[0] = <<>>
  <2>1. SubSeq(q, 1, 0) = <<>>
    BY SubSeqEmpty
  <2> QED BY <1>2, <1>4, <2>1
<1>7. G[n] = q
  <2>1. SubSeq(q, 1, Len(q)) = q
    BY <1>2, SubSeqFull
  <2> QED BY <1>2, <1>4, <2>1
<1>8. DOMAIN G = 0 .. n /\ G = [i \in 0 .. n |-> G[i]]
  OBVIOUS
<1>9. ASSUME NEW i \in 1 .. n PROVE G[i] = G[i - 1] \o p[i].q
  <2>1. i \in 0 .. n /\ i - 1 \in 0 .. n
    BY <1>2
  <2>2. PICK a \in Nat, b \in Nat : a = g[i - 1] /\ b = g[i] /\ a <= b /\ b <= Len(q)
    BY <1>4, <2>1
  <2>3. G[i] = SubSeq(q, 1, b) /\ G[i - 1] = SubSeq(q, 1, a)
    <3>1. G[i] = SubSeq(q, 1, g[i]) /\ G[i - 1] = SubSeq(q, 1, g[i - 1])
      BY <2>1, Zenon
    <3> QED BY <2>2, <3>1, Zenon
  <2>4. SubSeq(q, 1, a) \o SubSeq(q, a + 1, b) = SubSeq(q, 1, b)
    <3>1. 1 \in 1 .. Len(q) + 1 /\ a \in 1 - 1 .. Len(q) /\ b \in a .. Len(q)
      BY <1>2, <2>2
    <3> QED BY <1>2, <3>1, ConcatAdjacentSubSeq
  <2>5. p[i].q = SubSeq(q, a + 1, b)
    BY <1>4, <2>2
  <2> HIDE DEF G
  <2> QED BY <2>3, <2>4, <2>5
<1> HIDE DEF G
<1>10. QueriesOf(p) = G[n]
  BY <1>2, <1>5, <1>6, <1>8, <1>9, QueriesOfIs
<1> QED BY <1>1, <1>7, <1>10

\* An answer that is no refusal and holds all queries that were asked for.
Full(a) == a.kind # "refused" /\ QueriesOf(a.passes) = Wanted

\* What is kept of a request that nothing disturbed, when the drain has met its
\* finish.
Whole(k, q, ends) ==
  /\ k \in Rows /\ q \in Rows /\ StoreOK(k, q, ends) /\ q = Wanted
  /\ ends = <<>> => q = <<>>
  /\ ends # <<>> => q # <<>> /\ LastOf(ends) = Len(k)
                    /\ (ask.hooks # "decode" /\ ask.mode # "last_token" => Len(q) = Len(k))

LEMMA NothingIsFull == Wanted = <<>> => Full(Nothing)
BY QueriesNone DEF Full, Nothing

LEMMA ProbesFull ==
  ASSUME TypeOK, NEW k, NEW q, NEW ends, Whole(k, q, ends), NEW j,
         ends # <<>> => Fits(j, ends)
  PROVE  Full(Probes(q, Histories(k, ends), j))
<1>1. k \in Rows /\ q \in Rows /\ StoreOK(k, q, ends) /\ q = Wanted
  BY DEF Whole
<1>2. CASE ends = <<>>
  <2>1. Probes(q, Histories(k, ends), j) = Nothing
    BY <1>1, <1>2, ProbesNone
  <2>2. Wanted = <<>>
    BY <1>2 DEF Whole
  <2> QED BY <2>1, <2>2, NothingIsFull
<1>3. CASE ends # <<>>
  <2>1. PICK n, sizes : n = Len(ends) /\ sizes = PassRows(Len(q), ends, ask.mode)
    OBVIOUS
  <2>2. /\ n \in Nat /\ n > 0 /\ 1 \in 1 .. n /\ DOMAIN ends = 1 .. n
        /\ ends[1] \in Nat
    <3>1. ends \in Seq(Nat \ {0})
      BY <1>1 DEF StoreOK
    <3> QED BY <1>3, <2>1, <3>1, EndsFacts
  <2>3. Given(k, q, ends, n, sizes) /\ Fits(j, ends)
    BY <1>1, <1>3, <2>1, <2>2 DEF Given, Whole
  <2>4. Answered(Probes(q, Histories(k, ends), j), k, q, ends, n, sizes)
    BY <2>3, ProbesGive, Zenon
  <2>5. ~(ask.hooks # "decode" /\ ask.mode # "last_token" /\ sizes[1] # ends[1])
    <3> SUFFICES ASSUME ask.hooks # "decode", ask.mode # "last_token" PROVE sizes[1] = ends[1]
      OBVIOUS
    <3>1. sizes[1] = Len(q) - (LastOf(ends) - ends[1])
      BY <2>1, <2>2 DEF PassRows
    <3>2. Len(q) = Len(k) /\ LastOf(ends) = Len(k) /\ Len(k) \in Nat
      BY <1>1, <1>3, RowsFacts DEF Whole
    <3> QED BY <2>2, <3>1, <3>2
  <2>6. Probes(q, Histories(k, ends), j) = Served(PassesOf(q, Histories(k, ends), n, sizes))
    BY <2>4, <2>5, Zenon DEF Answered
  <2>7. QueriesOf(PassesOf(q, Histories(k, ends), n, sizes)) = q
    BY <2>3, GivenAll, Zenon
  <2>8. PICK p : p = PassesOf(q, Histories(k, ends), n, sizes)
    OBVIOUS
  <2>9. Served(p).passes = p /\ Served(p).kind # "refused"
    BY DEF Served
  <2> QED BY <1>1, <2>6, <2>7, <2>8, <2>9 DEF Full
<1> QED BY <1>2, <1>3

\* At its end an undisturbed request was computed to the last token but one.
LEMMA EngineWhole ==
  ASSUME TypeOK, EngineInv, preempts = 0, engine = "finished", client = "waiting"
  PROVE  /\ ~Prefilling /\ computed = goal - 1 /\ goal - 1 \in Nat /\ Prompt \in Nat
         /\ Prompt <= goal - 1
<1>1. /\ Prompt \in Nat /\ goal \in Nat /\ Prompt + 1 <= goal /\ computed \in Nat /\ tokens \in Nat
  BY Constants DEF TypeOK, EngineType
<1>2. tokens = goal /\ prefillLen = Prompt
  BY DEF EngineInv
<1>3. computed >= Prompt
  <2>1. computed < Prompt => tokens = Prompt
    BY DEF EngineInv
  <2> QED BY <1>1, <1>2, <2>1
<1>4. tokens = computed + 1
  BY <1>3 DEF EngineInv
<1> QED BY <1>1, <1>2, <1>3, <1>4 DEF Prefilling

LEMMA KeptWhole ==
  ASSUME TypeOK, EngineInv, preempts = 0, engine = "finished", client = "waiting",
         NEW k \in Rows, NEW q \in Rows, NEW ends, StoreOK(k, q, ends),
         NEW emits, EngineFollows(LastReach(k), emits)
  PROVE  Whole(k, q, ends)
<1> DEFINE to == IF ask.hooks = "prefill" THEN Prompt ELSE goal - 1
<1>1. to \in Nat /\ From \in Nat
  BY EngineWhole, Constants DEF From
<1>2. LastReach(k) = to
  BY EngineWhole DEF EngineFollows
<1> HIDE DEF to
<1>3. /\ Len(k) = to /\ q = Positions(From, Len(k))
      /\ ends # <<>> <=> Len(k) > From
      /\ ends # <<>> => LastOf(ends) = Len(k)
  BY <1>2 DEF StoreOK, Clean
<1>4. Wanted = Positions(From, to)
  BY DEF Wanted, From, to
<1>5. q = Wanted
  BY <1>3, <1>4
<1>6. q = <<>> <=> to <= From
  BY <1>1, <1>3, PositionsType
<1>7. (ends = <<>> => q = <<>>) /\ (ends # <<>> => q # <<>>)
  BY <1>1, <1>3, <1>6
<1>8. ask.hooks # "decode" /\ ask.mode # "last_token" => Len(q) = Len(k)
  <2> SUFFICES ASSUME ask.hooks # "decode", ask.mode # "last_token" PROVE Len(q) = Len(k)
    OBVIOUS
  <2>1. From = 0
    BY DEF From
  <2>2. 0 \in Nat /\ 0 <= to /\ to - 0 = to
    BY <1>1
  <2>3. Len(Positions(0, to)) = to - 0
    BY <1>1, <2>2, PositionsAre
  <2> QED BY <1>3, <2>1, <2>2, <2>3
<1> QED BY <1>3, <1>5, <1>7, <1>8 DEF Whole

LEMMA AnswerFull ==
  ASSUME TypeOK, EngineInv, DiskInv, HostInv, KeptInv, Answering, preempts = 0
  PROVE  \E a : answer' = a /\ Full(a)
<1>1. engine = "finished" /\ client = "waiting"
  BY AnswersFrom
<1>2. CASE /\ answer' = Assemble(index) /\ index \in IndexEntries /\ index.nc \in {-1, 0}
           /\ StoreInv(index.k, index.q, index.ends) /\ Met
  <2>1. PICK k \in Rows, q \in Rows, ends \in Seq(1 .. goal) :
          k = index.k /\ q = index.q /\ ends = index.ends
    BY <1>2 DEF IndexEntries
  <2>2. StoreOK(k, q, ends) /\ Continues(LastReach(k), Emitted(k, ends), 0)
    BY <1>2, <2>1 DEF StoreInv
  <2>3. EngineFollows(LastReach(k), Emitted(k, ends))
    <3>1. Flow = <<>>
      <4>1. consumer.at # "rows" /\ queue = <<>>
        BY <1>2 DEF Met, Idle
      <4> QED BY <4>1 DEF Flow
    <3>2. ~(0 < Len(Flow))
      BY <3>1
    <3> QED BY <2>2, <3>2 DEF Continues
  <2>4. Whole(k, q, ends)
    BY <1>1, <2>2, <2>3, KeptWhole
  <2>5. \/ Assemble(index) = Nothing /\ q = <<>>
        \/ \E j : /\ Assemble(index) = Probes(q, Histories(k, ends), j)
                  /\ ends # <<>> => Fits(j, ends)
    <3>1. StoreOK(index.k, index.q, index.ends) /\ ~(index.nc > 0)
      BY <1>2 DEF StoreInv
    <3>2. ends # <<>> => q # <<>> /\ Len(k) = LastOf(ends)
      BY <2>4 DEF Whole
    <3> QED BY <1>2, <2>1, <3>1, <3>2, AssembleIs
  <2>6. Full(Assemble(index))
    <3>1. CASE Assemble(index) = Nothing /\ q = <<>>
      BY <2>4, <3>1, NothingIsFull DEF Whole
    <3>2. ASSUME NEW j, Assemble(index) = Probes(q, Histories(k, ends), j),
                 ends # <<>> => Fits(j, ends)
          PROVE  Full(Assemble(index))
      BY <2>4, <3>2, ProbesFull
    <3> QED BY <2>5, <3>1, <3>2
  <2> QED BY <1>2, <2>6
<1>3. CASE /\ answer' = LoadArtifact(source) /\ source \in Stagings
           /\ Tiled(source) /\ source.entries # <<>>
           /\ StoreOK(source.k, source.q, EndsOf(source.entries))
           /\ EngineFollows(LastReach(source.k), FALSE)
  <2>0. EndsOf(source.entries) \in Seq(Nat \ {0})
    BY <1>3 DEF StoreOK
  <2>1. PICK k \in Rows, q \in Rows, ends \in Seq(Nat \ {0}) :
          k = source.k /\ q = source.q /\ ends = EndsOf(source.entries)
    BY <1>3, <2>0, StagingType
  <2>2. StoreOK(k, q, ends) /\ EngineFollows(LastReach(k), FALSE)
    BY <1>3, <2>1
  <2>3. Whole(k, q, ends)
    BY <1>1, <2>2, KeptWhole
  <2>4. ends # <<>> => Fits(k, ends)
    BY <2>3 DEF Whole, Fits
  <2>5. Full(Probes(q, Histories(k, ends), k))
    BY <2>3, <2>4, ProbesFull
  <2>6. LoadArtifact(source) = Probes(q, Histories(k, ends), k)
    BY <1>3, <2>1, LoadIs
  <2> QED BY <1>3, <2>5, <2>6
<1> QED BY <1>2, <1>3, AnswersFrom

UndisturbedInv ==
  stash = NoAnswer /\ (preempts = 0 /\ answer \notin {NoAnswer, TimedOut} => Full(answer))

LEMMA UndisturbedNext ==
  ASSUME TypeOK, EngineInv, DiskInv, HostInv, KeptInv, UndisturbedInv, [Next]_vars
  PROVE  UndisturbedInv'
<1>1. stash' = NoAnswer /\ (answer' = answer \/ answer' = TimedOut \/ Answering)
  BY Answers DEF UndisturbedInv
<1>2. SUFFICES ASSUME preempts' = 0, answer' \notin {NoAnswer, TimedOut} PROVE Full(answer)'
  BY <1>1 DEF UndisturbedInv
<1>3. preempts = 0
  BY <1>2, PreemptsGrow
<1>4. ask' = ask /\ goal' = goal
  BY SameAsk
<1>5. \E a : answer' = a /\ Full(a)
  <2>1. CASE answer' = answer
    <3>1. answer \notin {NoAnswer, TimedOut}
      BY <1>2, <2>1
    <3> QED BY <1>3, <2>1, <3>1 DEF UndisturbedInv
  <2>2. CASE Answering
    BY <1>3, <2>2, AnswerFull
  <2> QED BY <1>1, <1>2, <2>1, <2>2
<1>6. PICK a : answer' = a /\ Full(a)
  BY <1>5
<1>7. Wanted' = Wanted
  BY <1>4 DEF Wanted
<1>8. Full(a)'
  BY <1>6, <1>7 DEF Full
<1> QED BY <1>6, <1>8 DEF Full

\* A request that is answered in time and met no preemption and no cached
\* prefix is not refused and gets every query it asked for once, in order,
\* however its prompt was split into chunks: what the routing asks for and the
\* drain keeps is what qk_probes gives out.
THEOREM UndisturbedServed == Spec => []UndisturbedIsServed
<1> DEFINE Kept == EngineInv /\ DiskInv /\ HostInv /\ KeptInv
<1>1. CASE CacheHits
  <2>1. UndisturbedIsServed
    BY <1>1 DEF UndisturbedIsServed
  <2>2. [](CacheHits) => []UndisturbedIsServed
    <3>1. CacheHits => UndisturbedIsServed
      BY DEF UndisturbedIsServed
    <3> QED BY <3>1, PTL
  <2> QED BY <1>1, <2>2, PTL
<1>2. CASE ~CacheHits
  <2>1. Spec => []TypeOK
    BY HistoryTypes
  <2>2. Spec => [](FinishInv /\ DiskInv /\ HostInv /\ HistoryInv)
    BY <1>2, HistoryAlways
  <2>3. Init => UndisturbedInv
    BY DEF Init, UndisturbedInv
  <2>4. TypeOK /\ Kept /\ UndisturbedInv /\ [Next]_vars => UndisturbedInv'
    BY UndisturbedNext
  <2>5. FinishInv /\ DiskInv /\ HostInv /\ HistoryInv => Kept
    BY DEF HistoryInv
  <2>6. UndisturbedInv => UndisturbedIsServed
    BY DEF UndisturbedInv, UndisturbedIsServed, Full
  <2> HIDE DEF Kept
  <2> QED BY <2>1, <2>2, <2>3, <2>4, <2>5, <2>6, PTL DEF Spec
<1> QED BY <1>1, <1>2

=============================================================================
