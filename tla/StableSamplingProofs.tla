------------------------ MODULE StableSamplingProofs ------------------------
(***************************************************************************)
(* Proofs about StableSampling, for every number of nodes, of engines and  *)
(* of samples.                                                             *)
(*                                                                         *)
(* SamplesGrow is not inductive by itself: that the next sample is not     *)
(* smaller than the last one needs the last one to be at most the counter  *)
(* (LastIsCovered), and that in turn that counters and windows restart     *)
(* together.  The events of the last sample are not ahead of the counters  *)
(* after clear_stat because they are zero at every one (EventsRestart).    *)
(***************************************************************************)
EXTENDS StableSampling, TLAPS

-----------------------------------------------------------------------------
(***************************************************************************)
(* The slots of the vector.                                                *)
(***************************************************************************)
Sample == 0 .. engineWindow - 1

\* A smaller factor leaves room for one more.
LEMMA ProductLeavesRoom ==
  ASSUME NEW a \in Nat, NEW b \in Nat, NEW w \in Nat, a < b
  PROVE  a * w + w <= b * w
<1>1. b = (a + 1) + (b - (a + 1)) /\ b - (a + 1) \in Nat
  OBVIOUS
<1>2. ((a + 1) + (b - (a + 1))) * w = a * w + w + (b - (a + 1)) * w
  OBVIOUS
<1>3. (b - (a + 1)) * w >= 0
  BY <1>1
<1>4. a * w \in Nat /\ (b - (a + 1)) * w \in Nat
  BY <1>1
<1> QED
  BY <1>1, <1>2, <1>3, <1>4

\* The window of an engine is a positive number of samples.
LEMMA WindowIsPositive == engineWindow \in Nat \ {0}
<1> USE SamplingAssumption
<1>1. window \div num_threads \in Nat
  OBVIOUS
<1> QED
  BY <1>1 DEF engineWindow

\* The windows lie side by side, each half of the vector holding one of every node.
LEMMA SlotsInHalf ==
  ASSUME NEW n \in Node, NEW j \in Sample
  PROVE  n * engineWindow + j \in 0 .. num_nodes * engineWindow - 1
<1>1. PICK w \in Nat \ {0} : w = engineWindow
  BY WindowIsPositive
<1>2. n \in Nat /\ n < num_nodes /\ num_nodes \in Nat /\ j \in Nat /\ j < w
  BY <1>1, SamplingAssumption DEF Node, Sample
<1>3. n * w + w <= num_nodes * w
  BY <1>1, <1>2, ProductLeavesRoom
<1>4. n * w \in Nat /\ num_nodes * w \in Nat
  BY <1>1, <1>2
<1>5. n * w + j \in 0 .. num_nodes * w - 1
  BY <1>1, <1>2, <1>3, <1>4
<1> QED
  BY <1>1, <1>5

\* No two samples of a half have the same place.
LEMMA SlotsDiffer ==
  ASSUME NEW n \in Node, NEW j \in Sample, NEW m \in Node, NEW k \in Sample,
         n * engineWindow + j = m * engineWindow + k
  PROVE  n = m /\ j = k
<1>1. PICK w \in Nat \ {0} : w = engineWindow
  BY WindowIsPositive
<1>2. n \in Nat /\ m \in Nat /\ j \in 0 .. w - 1 /\ k \in 0 .. w - 1
  BY <1>1, SamplingAssumption DEF Node, Sample
<1>3. n * w \in Nat /\ m * w \in Nat /\ n * w + j = m * w + k
  BY <1>1, <1>2
<1>4. CASE n < m
  <2>1. n * w + w <= m * w
    BY <1>1, <1>2, <1>4, ProductLeavesRoom
  <2> QED
    BY <1>1, <1>2, <1>3, <2>1
<1>5. CASE m < n
  <2>1. m * w + w <= n * w
    BY <1>1, <1>2, <1>5, ProductLeavesRoom
  <2> QED
    BY <1>1, <1>2, <1>3, <2>1
<1>6. CASE n = m
  BY <1>2, <1>3, <1>6
<1> QED
  BY <1>2, <1>4, <1>5, <1>6

Place == 0 .. sizeVect - 1

\* Every sample has a place of its own.
LEMMA Slots ==
  /\ \A n \in Node, j \in Sample : HitSlot(n, j) \in Place /\ MissSlot(n, j) \in Place
  /\ \A n, m \in Node, j, k \in Sample :
       /\ HitSlot(n, j) = HitSlot(m, k) => n = m /\ j = k
       /\ MissSlot(n, j) = MissSlot(m, k) => n = m /\ j = k
       /\ HitSlot(n, j) # MissSlot(m, k)
<1>1. PICK half \in Nat : half = num_nodes * engineWindow
  BY WindowIsPositive, SamplingAssumption
<1>2. sizeVect = half + half
  <2>1. num_nodes \in Nat /\ engineWindow \in Nat
    BY WindowIsPositive, SamplingAssumption
  <2>2. num_nodes * 2 * engineWindow = num_nodes * engineWindow + num_nodes * engineWindow
    BY <2>1
  <2> QED
    BY <1>1, <2>2 DEF sizeVect
<1>3. ASSUME NEW n \in Node, NEW j \in Sample
      PROVE  /\ HitSlot(n, j) \in 0 .. half - 1
             /\ n * engineWindow + j \in 0 .. half - 1
             /\ MissSlot(n, j) = half + HitSlot(n, j)
  <2>1. n * engineWindow + j \in 0 .. half - 1
    BY <1>1, SlotsInHalf
  <2>2. n * engineWindow \in Nat /\ j \in Nat
    BY WindowIsPositive, SamplingAssumption DEF Node, Sample
  <2> QED
    BY <1>1, <2>1, <2>2 DEF HitSlot, MissSlot
<1>4. \A n \in Node, j \in Sample : HitSlot(n, j) \in Place /\ MissSlot(n, j) \in Place
  BY <1>2, <1>3 DEF Place
<1>5. ASSUME NEW n \in Node, NEW m \in Node, NEW j \in Sample, NEW k \in Sample
      PROVE  /\ HitSlot(n, j) = HitSlot(m, k) => n = m /\ j = k
             /\ MissSlot(n, j) = MissSlot(m, k) => n = m /\ j = k
             /\ HitSlot(n, j) # MissSlot(m, k)
  <2>1. HitSlot(n, j) = HitSlot(m, k) => n = m /\ j = k
    BY SlotsDiffer DEF HitSlot
  <2>2. /\ HitSlot(n, j) \in 0 .. half - 1 /\ MissSlot(n, j) = half + HitSlot(n, j)
        /\ HitSlot(m, k) \in 0 .. half - 1 /\ MissSlot(m, k) = half + HitSlot(m, k)
    BY <1>3
  <2> QED
    BY <2>1, <2>2
<1> QED
  BY <1>4, <1>5

-----------------------------------------------------------------------------
(***************************************************************************)
(* The inductive invariant.                                                *)
(***************************************************************************)
Typed ==
  /\ hit \in [Node -> Nat] /\ miss \in [Node -> Nat] /\ decision_yes \in [Node -> Nat]
  /\ events \in [Node -> Nat]
  /\ HitMiss \in [Place -> Nat \cup {NoSample}]
  /\ steady \in BOOLEAN

\* Until the steady state, the counters are not behind the last sample.
LastIsCovered ==
  ~steady => \A n \in Node :
    sample_counter[n] > 0 =>
      /\ HitMiss[HitSlot(n, sample_counter[n] - 1)] <= hit[n]
      /\ HitMiss[MissSlot(n, sample_counter[n] - 1)] <= miss[n]

\* In the steady state no sample is taken, and the changes are counted from zero.
EventsRestart == steady => events = Zero

Windows == WindowsAreFilledInOrder /\ SamplesGrow

IInv == Typed /\ Windows /\ LastIsCovered /\ EventsAreNotAhead /\ EventsRestart

\* Empty windows satisfy whatever is said of windows.
LEMMA EmptyWindows ==
  ASSUME HitMiss = EmptyVector, sample_counter = Zero
  PROVE  Windows /\ LastIsCovered /\ HitMiss \in [Place -> Nat \cup {NoSample}]
<1>1. HitMiss = [i \in Place |-> NoSample]
  BY DEF EmptyVector, Place
<1>2. \A n \in Node : sample_counter[n] = 0
  BY DEF Zero
<1>3. engineWindow \in Nat
  BY WindowIsPositive
<1>4. WindowsAreFilledInOrder
  <2>1. sample_counter \in [Node -> 0 .. engineWindow]
    BY <1>3 DEF Zero
  <2>2. DOMAIN HitMiss = 0 .. sizeVect - 1
    BY <1>1 DEF Place
  <2>3. \A n \in Node, j \in Sample :
          HitMiss[HitSlot(n, j)] = NoSample /\ HitMiss[MissSlot(n, j)] = NoSample
    BY <1>1, Slots
  <2>4. \A n \in Node, j \in Sample : ~(j < sample_counter[n])
    BY <1>2, <1>3 DEF Sample
  <2> QED
    BY <2>1, <2>2, <2>3, <2>4 DEF WindowsAreFilledInOrder, Sample
<1>5. SamplesGrow /\ LastIsCovered
  BY <1>2, <1>3 DEF SamplesGrow, LastIsCovered
<1> QED
  BY <1>1, <1>4, <1>5 DEF Windows, NoSample

EmptyIsSound ==
  HitMiss = EmptyVector /\ sample_counter = Zero =>
    Windows /\ LastIsCovered /\ HitMiss \in [Place -> Nat \cup {NoSample}]

LEMMA EmptyIsSoundHolds == EmptyIsSound
  BY EmptyWindows DEF EmptyIsSound

\* The same of the next state.
LEMMA EmptyIsSoundNext == EmptyIsSound'
  BY EmptyIsSoundHolds, PTL

LEMMA Initially == Init => IInv
<1> SUFFICES ASSUME Init PROVE IInv
  OBVIOUS
<1>1. Windows /\ LastIsCovered /\ HitMiss \in [Place -> Nat \cup {NoSample}]
  BY EmptyWindows DEF Init
<1>2. Zero \in [Node -> Nat] /\ \A n \in Node : Zero[n] = 0
  BY DEF Zero
<1>3. Typed /\ EventsRestart
  BY <1>1, <1>2 DEF Init, Typed, EventsRestart
<1>4. EventsAreNotAhead
  BY <1>2 DEF Init, EventsAreNotAhead, Changes
<1> QED
  BY <1>1, <1>3, <1>4 DEF IInv

-----------------------------------------------------------------------------
(***************************************************************************)
(* The steps of the engine.                                                *)
(***************************************************************************)

\* A packet at a node: counters only grow, and nothing else changes.
LEMMA TrafficStep ==
  ASSUME IInv, NEW n \in Node, Hit(n) \/ Miss(n) \/ Accept(n)
  PROVE  IInv'
<1>1. /\ UNCHANGED <<events, sample_counter, HitMiss, steady>>
      /\ Typed
  BY DEF IInv, Hit, Miss, Accept, sampleVars
<1>2. /\ hit' \in [Node -> Nat] /\ miss' \in [Node -> Nat] /\ decision_yes' \in [Node -> Nat]
      /\ \A m \in Node : hit[m] <= hit'[m] /\ miss[m] <= miss'[m]
                         /\ decision_yes[m] <= decision_yes'[m]
  BY <1>1 DEF Hit, Miss, Accept, Typed
<1>3. Typed' /\ EventsRestart' /\ Windows'
  BY <1>1, <1>2
  DEF IInv, Typed, EventsRestart, Windows, WindowsAreFilledInOrder, SamplesGrow
<1>4. EventsAreNotAhead'
  <2>1. \A m \in Node : events[m] <= decision_yes[m] + hit[m]
    BY DEF IInv, EventsAreNotAhead, Changes
  <2>2. \A m \in Node : events'[m] <= decision_yes'[m] + hit'[m]
    BY <1>1, <1>2, <2>1 DEF Typed
  <2> QED
    BY <2>2 DEF EventsAreNotAhead, Changes
<1>5. LastIsCovered'
  <2> SUFFICES ASSUME ~steady, NEW m \in Node, sample_counter[m] > 0
               PROVE  /\ HitMiss[HitSlot(m, sample_counter[m] - 1)] <= hit'[m]
                      /\ HitMiss[MissSlot(m, sample_counter[m] - 1)] <= miss'[m]
    BY <1>1 DEF LastIsCovered, HitSlot, MissSlot
  <2>1. sample_counter[m] - 1 \in Sample
    BY WindowIsPositive DEF IInv, Windows, WindowsAreFilledInOrder, Sample
  <2>2. /\ HitMiss[HitSlot(m, sample_counter[m] - 1)] \in Int
        /\ HitMiss[MissSlot(m, sample_counter[m] - 1)] \in Int
    BY <1>1, <2>1, Slots DEF Typed, NoSample
  <2>3. /\ HitMiss[HitSlot(m, sample_counter[m] - 1)] <= hit[m]
        /\ HitMiss[MissSlot(m, sample_counter[m] - 1)] <= miss[m]
    BY DEF IInv, LastIsCovered
  <2> QED
    BY <1>1, <1>2, <2>2, <2>3 DEF Typed
<1> QED
  BY <1>3, <1>4, <1>5 DEF IInv

\* What a check writes: the sample of a node at the end of its window, and nothing
\* elsewhere.
LEMMA CollectedAt ==
  ASSUME Typed, sample_counter \in [Node -> 0 .. engineWindow], NEW n \in Node, NEW j \in Sample
  PROVE  /\ Collected[HitSlot(n, j)] =
              IF Sampled(n) /\ j = sample_counter[n] THEN hit[n] ELSE HitMiss[HitSlot(n, j)]
         /\ Collected[MissSlot(n, j)] =
              IF Sampled(n) /\ j = sample_counter[n] THEN miss[n] ELSE HitMiss[MissSlot(n, j)]
<1> DEFINE here(i, m) == Sampled(m) /\ i = HitSlot(m, sample_counter[m])
           there(i, m) == Sampled(m) /\ i = MissSlot(m, sample_counter[m])
<1>1. \A m \in Node : Sampled(m) => sample_counter[m] \in Sample
  BY WindowIsPositive DEF Sampled, Sample
<1>2. \A i \in Place :
        Collected[i] = IF \E m \in Node : here(i, m) THEN hit[CHOOSE m \in Node : here(i, m)]
                       ELSE IF \E m \in Node : there(i, m) THEN miss[CHOOSE m \in Node : there(i, m)]
                       ELSE HitMiss[i]
  BY DEF Collected, Place
<1>3. \A m \in Node : here(HitSlot(n, j), m) <=> Sampled(n) /\ j = sample_counter[n] /\ m = n
  BY <1>1, Slots
<1>4. \A m \in Node : there(MissSlot(n, j), m) <=> Sampled(n) /\ j = sample_counter[n] /\ m = n
  BY <1>1, Slots
<1>5. \A m \in Node : ~there(HitSlot(n, j), m) /\ ~here(MissSlot(n, j), m)
  BY <1>1, Slots
<1>6. HitSlot(n, j) \in Place /\ MissSlot(n, j) \in Place
  BY Slots
<1> HIDE DEF here, there
<1>7. Collected[HitSlot(n, j)] =
        IF Sampled(n) /\ j = sample_counter[n] THEN hit[n] ELSE HitMiss[HitSlot(n, j)]
  BY <1>2, <1>3, <1>5, <1>6
<1>8. Collected[MissSlot(n, j)] =
        IF Sampled(n) /\ j = sample_counter[n] THEN miss[n] ELSE HitMiss[MissSlot(n, j)]
  BY <1>2, <1>4, <1>5, <1>6
<1> QED
  BY <1>7, <1>8

LEMMA CollectedTyped ==
  ASSUME Typed
  PROVE  Collected \in [Place -> Nat \cup {NoSample}]
<1>1. \A i \in Place : Collected[i] \in Nat \cup {NoSample}
  BY DEF Collected, Typed, Place
<1> QED
  BY <1>1 DEF Collected, Place

\* A check that writes samples leaves the windows filled in order and growing, with
\* the counters as they are at or above the last samples.
LEMMA Collecting ==
  ASSUME IInv, ~steady, HitMiss' = Collected, sample_counter' = CountedSamples
  PROVE  /\ Windows' /\ HitMiss' \in [Place -> Nat \cup {NoSample}]
         /\ \A n \in Node :
              sample_counter'[n] > 0 =>
                /\ HitMiss'[HitSlot(n, sample_counter'[n] - 1)] <= hit[n]
                /\ HitMiss'[MissSlot(n, sample_counter'[n] - 1)] <= miss[n]
<1>1. Typed /\ WindowsAreFilledInOrder /\ SamplesGrow /\ LastIsCovered
  BY DEF IInv, Windows
<1>2. /\ sample_counter \in [Node -> 0 .. engineWindow]
      /\ engineWindow \in Nat \ {0}
      /\ hit \in [Node -> Nat] /\ miss \in [Node -> Nat]
      /\ HitMiss \in [Place -> Nat \cup {NoSample}]
  BY <1>1, WindowIsPositive DEF WindowsAreFilledInOrder, Typed
<1>3. HitMiss' \in [Place -> Nat \cup {NoSample}]
  BY <1>1, CollectedTyped
<1>4. ASSUME NEW n \in Node
      PROVE  sample_counter'[n] = IF Sampled(n) THEN sample_counter[n] + 1 ELSE sample_counter[n]
  BY DEF CountedSamples
<1>5. sample_counter' \in [Node -> 0 .. engineWindow]
  BY <1>2 DEF CountedSamples, Sampled
<1>6. ASSUME NEW n \in Node, NEW j \in Sample
      PROVE  /\ HitMiss'[HitSlot(n, j)] =
                  IF Sampled(n) /\ j = sample_counter[n] THEN hit[n] ELSE HitMiss[HitSlot(n, j)]
             /\ HitMiss'[MissSlot(n, j)] =
                  IF Sampled(n) /\ j = sample_counter[n] THEN miss[n] ELSE HitMiss[MissSlot(n, j)]
  BY <1>1, <1>2, CollectedAt
<1>7. WindowsAreFilledInOrder'
  <2>1. DOMAIN HitMiss' = 0 .. sizeVect - 1
    BY <1>3 DEF Place
  <2>2. ASSUME NEW n \in Node, NEW j \in Sample
        PROVE  /\ HitMiss'[HitSlot(n, j)] # NoSample <=> j < sample_counter'[n]
               /\ HitMiss'[MissSlot(n, j)] # NoSample <=> j < sample_counter'[n]
    <3>1. /\ HitMiss[HitSlot(n, j)] # NoSample <=> j < sample_counter[n]
          /\ HitMiss[MissSlot(n, j)] # NoSample <=> j < sample_counter[n]
      BY <1>1 DEF WindowsAreFilledInOrder, Sample
    <3>2. hit[n] # NoSample /\ miss[n] # NoSample
      BY <1>2 DEF NoSample
    <3>3. sample_counter[n] \in Nat /\ j \in Nat
      BY <1>2 DEF Sample
    <3> QED
      BY <1>4, <1>6, <3>1, <3>2, <3>3
  <2> QED
    BY <1>5, <2>1, <2>2 DEF WindowsAreFilledInOrder, HitSlot, MissSlot, Sample
<1>8. ASSUME NEW n \in Node, Sampled(n)
      PROVE  sample_counter[n] \in Sample
  BY <1>2, <1>8 DEF Sampled, Sample
<1>9. ASSUME NEW n \in Node, sample_counter[n] > 0
      PROVE  /\ sample_counter[n] - 1 \in Sample
             /\ HitMiss[HitSlot(n, sample_counter[n] - 1)] <= hit[n]
             /\ HitMiss[MissSlot(n, sample_counter[n] - 1)] <= miss[n]
  BY <1>1, <1>2, <1>9 DEF LastIsCovered, Sample
<1>10. SamplesGrow'
  <2> SUFFICES ASSUME NEW n \in Node, NEW j \in Sample, j > 0, j < sample_counter'[n]
               PROVE  /\ HitMiss'[HitSlot(n, j - 1)] <= HitMiss'[HitSlot(n, j)]
                      /\ HitMiss'[MissSlot(n, j - 1)] <= HitMiss'[MissSlot(n, j)]
    BY DEF SamplesGrow, HitSlot, MissSlot, Sample
  <2>1. j - 1 \in Sample
    BY <1>2 DEF Sample
  <2>2. CASE Sampled(n) /\ j = sample_counter[n]
    <3>1. j - 1 # sample_counter[n] /\ sample_counter[n] > 0
      BY <1>2, <2>2
    <3>2. HitMiss'[HitSlot(n, j)] = hit[n] /\ HitMiss'[MissSlot(n, j)] = miss[n]
      BY <1>6, <2>2
    <3>3. /\ HitMiss'[HitSlot(n, j - 1)] = HitMiss[HitSlot(n, j - 1)]
          /\ HitMiss'[MissSlot(n, j - 1)] = HitMiss[MissSlot(n, j - 1)]
      BY <1>6, <2>1, <3>1
    <3> QED
      BY <1>9, <2>2, <3>1, <3>2, <3>3
  <2>3. CASE ~(Sampled(n) /\ j = sample_counter[n])
    <3>1. j < sample_counter[n] /\ j - 1 # sample_counter[n]
      BY <1>2, <1>4, <2>3 DEF Sample
    <3>2. /\ HitMiss'[HitSlot(n, j)] = HitMiss[HitSlot(n, j)]
          /\ HitMiss'[MissSlot(n, j)] = HitMiss[MissSlot(n, j)]
      BY <1>6, <2>3
    <3>3. /\ HitMiss'[HitSlot(n, j - 1)] = HitMiss[HitSlot(n, j - 1)]
          /\ HitMiss'[MissSlot(n, j - 1)] = HitMiss[MissSlot(n, j - 1)]
      BY <1>6, <2>1, <3>1
    <3>4. /\ HitMiss[HitSlot(n, j - 1)] <= HitMiss[HitSlot(n, j)]
          /\ HitMiss[MissSlot(n, j - 1)] <= HitMiss[MissSlot(n, j)]
      BY <1>1, <3>1 DEF SamplesGrow, Sample
    <3> QED
      BY <3>2, <3>3, <3>4
  <2> QED
    BY <2>2, <2>3
<1>11. ASSUME NEW n \in Node, sample_counter'[n] > 0
       PROVE  /\ HitMiss'[HitSlot(n, sample_counter'[n] - 1)] <= hit[n]
              /\ HitMiss'[MissSlot(n, sample_counter'[n] - 1)] <= miss[n]
  <2>1. CASE Sampled(n)
    <3>1. sample_counter'[n] - 1 = sample_counter[n]
      BY <1>2, <1>4, <2>1
    <3>2. sample_counter[n] \in Sample
      BY <1>8, <2>1
    <3> QED
      BY <1>2, <1>6, <2>1, <3>1, <3>2
  <2>2. CASE ~Sampled(n)
    <3>1. sample_counter'[n] = sample_counter[n]
      BY <1>4, <2>2
    <3> QED
      BY <1>6, <1>9, <1>11, <2>2, <3>1
  <2> QED
    BY <2>1, <2>2
<1> QED
  BY <1>3, <1>7, <1>10, <1>11 DEF Windows

\* The changes noted are at most those that have happened.
LEMMA NotedAreNotAhead ==
  ASSUME IInv
  PROVE  /\ NotedEvents \in [Node -> Nat]
         /\ \A n \in Node : NotedEvents[n] <= Changes(n)
BY DEF IInv, Typed, NotedEvents, EventsAreNotAhead, Changes

\* Counters of zero, with events of zero.
LEMMA Restarted ==
  ASSUME ClearStat, events' = Zero
  PROVE  /\ hit' \in [Node -> Nat] /\ miss' \in [Node -> Nat] /\ decision_yes' \in [Node -> Nat]
         /\ events' \in [Node -> Nat]
         /\ EventsAreNotAhead' /\ EventsRestart'
<1>1. Zero \in [Node -> Nat] /\ \A n \in Node : Zero[n] = 0
  BY DEF Zero
<1> QED
  BY <1>1 DEF ClearStat, EventsAreNotAhead, EventsRestart, Changes, Zero

LEMMA CheckIncompleteStep == IInv /\ CheckIncomplete => IInv'
<1> SUFFICES ASSUME IInv, CheckIncomplete PROVE IInv'
  OBVIOUS
<1>1. /\ ~steady /\ UNCHANGED <<hit, miss, decision_yes, steady>> /\ Typed
      /\ events' = NotedEvents /\ HitMiss' = Collected /\ sample_counter' = CountedSamples
  BY DEF CheckIncomplete, countVars, IInv
<1>2. /\ Windows' /\ HitMiss' \in [Place -> Nat \cup {NoSample}]
      /\ \A n \in Node :
           sample_counter'[n] > 0 =>
             /\ HitMiss'[HitSlot(n, sample_counter'[n] - 1)] <= hit[n]
             /\ HitMiss'[MissSlot(n, sample_counter'[n] - 1)] <= miss[n]
  BY <1>1, Collecting
<1>3. LastIsCovered'
  BY <1>1, <1>2 DEF LastIsCovered, HitSlot, MissSlot
<1>4. Typed' /\ EventsAreNotAhead' /\ EventsRestart'
  BY <1>1, <1>2, NotedAreNotAhead DEF Typed, EventsAreNotAhead, EventsRestart, Changes
<1> QED
  BY <1>2, <1>3, <1>4 DEF IInv

LEMMA CheckContinuesStep == IInv /\ CheckContinues => IInv'
<1> SUFFICES ASSUME IInv, CheckContinues PROVE IInv'
  OBVIOUS
<1>1. /\ ~steady /\ UNCHANGED <<hit, miss, decision_yes, steady>> /\ Typed
      /\ events' = NotedEvents /\ HitMiss' = EmptyVector /\ sample_counter' = Zero
  BY DEF CheckContinues, countVars, IInv
<1>2. Windows' /\ LastIsCovered' /\ HitMiss' \in [Place -> Nat \cup {NoSample}]
  BY <1>1, EmptyIsSoundNext DEF EmptyIsSound, EmptyVector, Zero
<1>3. Typed' /\ EventsAreNotAhead' /\ EventsRestart'
  BY <1>1, <1>2, NotedAreNotAhead DEF Typed, EventsAreNotAhead, EventsRestart, Changes
<1> QED
  BY <1>2, <1>3 DEF IInv

LEMMA CheckIsStableStep == IInv /\ CheckIsStable => IInv'
<1> SUFFICES ASSUME IInv, CheckIsStable PROVE IInv'
  OBVIOUS
<1>1. /\ ~steady /\ steady' = TRUE /\ ClearStat /\ events' = Zero
      /\ HitMiss' = Collected /\ sample_counter' = CountedSamples
  BY DEF CheckIsStable
<1>2. Windows' /\ HitMiss' \in [Place -> Nat \cup {NoSample}]
  BY <1>1, Collecting
<1>3. Typed' /\ EventsAreNotAhead' /\ EventsRestart'
  BY <1>1, <1>2, Restarted DEF Typed
<1> QED
  BY <1>1, <1>2, <1>3 DEF IInv, LastIsCovered

LEMMA NextCycleStep == IInv /\ NextCycle => IInv'
<1> SUFFICES ASSUME IInv, NextCycle PROVE IInv'
  OBVIOUS
<1>1. /\ steady /\ steady' = FALSE /\ ClearStat /\ UNCHANGED events
      /\ HitMiss' = EmptyVector /\ sample_counter' = Zero
  BY DEF NextCycle
<1>2. events' = Zero
  BY <1>1 DEF IInv, EventsRestart
<1>3. Windows' /\ LastIsCovered' /\ HitMiss' \in [Place -> Nat \cup {NoSample}]
  BY <1>1, EmptyIsSoundNext DEF EmptyIsSound, EmptyVector, Zero
<1>4. Typed' /\ EventsAreNotAhead' /\ EventsRestart'
  BY <1>1, <1>2, <1>3, Restarted DEF Typed
<1> QED
  BY <1>3, <1>4 DEF IInv

-----------------------------------------------------------------------------
(***************************************************************************)
(* The theorems.                                                           *)
(***************************************************************************)

\* The windows, the counters and the noted changes agree, always.
THEOREM Inductive == Spec => []IInv
<1>1. IInv /\ [Next]_vars => IInv'
  <2> SUFFICES ASSUME IInv, [Next]_vars PROVE IInv'
    OBVIOUS
  <2>1. ASSUME NEW n \in Node, Hit(n) \/ Miss(n) \/ Accept(n) PROVE IInv'
    BY <2>1, TrafficStep
  <2>2. CASE CheckIncomplete
    BY <2>2, CheckIncompleteStep
  <2>3. CASE CheckContinues
    BY <2>3, CheckContinuesStep
  <2>4. CASE CheckIsStable
    BY <2>4, CheckIsStableStep
  <2>5. CASE NextCycle
    BY <2>5, NextCycleStep
  <2>6. CASE UNCHANGED vars
    BY <2>6
    DEF vars, countVars, sampleVars, IInv, Typed, Windows, WindowsAreFilledInOrder,
        SamplesGrow, LastIsCovered, EventsAreNotAhead, EventsRestart, Changes
  <2> QED
    BY <2>1, <2>2, <2>3, <2>4, <2>5, <2>6 DEF Next
<1> QED
  BY Initially, <1>1, PTL DEF Spec

\* Every node's windows of hits and misses are filled from their beginning without
\* holes and touch no other window, for every number of nodes, engines and samples.
THEOREM WindowsAreFilledInOrderHolds == Spec => []WindowsAreFilledInOrder
<1>1. IInv => WindowsAreFilledInOrder
  BY DEF IInv, Windows
<1> QED
  BY Inductive, <1>1, PTL

\* No window mixes samples from before and after clear_stat.
THEOREM SamplesGrowHolds == Spec => []SamplesGrow
<1>1. IInv => SamplesGrow
  BY DEF IInv, Windows
<1> QED
  BY Inductive, <1>1, PTL

\* The changes noted at the last sample are never more than those counted.
THEOREM EventsAreNotAheadHolds == Spec => []EventsAreNotAhead
<1>1. IInv => EventsAreNotAhead
  BY DEF IInv
<1> QED
  BY Inductive, <1>1, PTL
=============================================================================
