--------------------------- MODULE StableSampling ---------------------------
(***************************************************************************)
(* How one engine collects the samples of the centralized stable check     *)
(* (src/statistics/statistics.cc, centralized_stable and the handling of   *)
(* CENTRALIZED_STABLE_CHECK and END): one vector HitMiss holds, for every  *)
(* node, a window of hits in its first half and of misses in its second.   *)
(*                                                                         *)
(* A sample is a pair of cumulative counters of the content store of the   *)
(* node, which grow as packets come and restart at clear_stat.  The engine *)
(* sleeps while it waits for the master, so a check is one step together   *)
(* with the answer it gets.                                                *)
(***************************************************************************)
EXTENDS Integers, FiniteSets

CONSTANTS
  num_nodes,     \* number of nodes, numbered from 0
  window,        \* samples per node in all engines together
  num_threads,   \* number of engines
  MinWindow,     \* 10 in the code: an engine has no smaller window
  Proportion,    \* the parameter partial_n, in hundredths
  MaxEvents,     \* bound: hits, and misses, of a node between two clear_stat
  MaxCycles      \* bound: MC-TTL cycles

\* window is a double in the code, and must be a whole number if there is one engine:
\* no counter of samples ever equals another.  A Proportion above one is refused.
ASSUME SamplingAssumption ==
  /\ num_nodes \in Nat \ {0}
  /\ window \in Nat
  /\ num_threads \in Nat \ {0}
  /\ MinWindow \in Nat \ {0}
  /\ Proportion \in 0 .. 100
  /\ MaxEvents \in Nat
  /\ MaxCycles \in Nat

Node == 0 .. num_nodes - 1

\* Samples per node of this engine: its share of the window, if it is not too small.
engineWindow ==
  LET share == IF num_threads = 1 THEN window ELSE window \div num_threads
  IN IF share < MinWindow THEN MinWindow ELSE share

\* Full windows that make a check complete: round(partial_n * num_nodes).
partial_n == (2 * Proportion * num_nodes + 100) \div 200

sizeVect == num_nodes * 2 * engineWindow
NoSample == -1

VARIABLES
  hit, miss, decision_yes,  \* base_cache, per node
  events,                   \* hits and decisions at the last sample, per node
  sample_counter,           \* samples collected, per node
  HitMiss,                  \* the vector sent to the master
  steady,                   \* the master has declared the steady state
  sim_cycles

countVars == <<hit, miss, decision_yes>>
sampleVars == <<events, sample_counter, HitMiss>>
vars == <<countVars, sampleVars, steady, sim_cycles>>

Zero == [n \in Node |-> 0]
EmptyVector == [i \in 0 .. sizeVect - 1 |-> NoSample]

Init ==
  /\ hit = Zero /\ miss = Zero /\ decision_yes = Zero
  /\ events = Zero /\ sample_counter = Zero
  /\ HitMiss = EmptyVector
  /\ steady = FALSE
  /\ sim_cycles = 1

-----------------------------------------------------------------------------
(***************************************************************************)
(* The traffic of a node.                                                  *)
(***************************************************************************)
Hit(n) ==
  /\ hit[n] < MaxEvents
  /\ hit' = [hit EXCEPT ![n] = @ + 1]
  /\ UNCHANGED <<miss, decision_yes, sampleVars, steady, sim_cycles>>

Miss(n) ==
  /\ miss[n] < MaxEvents
  /\ miss' = [miss EXCEPT ![n] = @ + 1]
  /\ UNCHANGED <<hit, decision_yes, sampleVars, steady, sim_cycles>>

\* A chunk comes back and is accepted; the Interest for it may have been counted
\* before the last clear_stat.
Accept(n) ==
  /\ decision_yes[n] < MaxEvents
  /\ decision_yes' = [decision_yes EXCEPT ![n] = @ + 1]
  /\ UNCHANGED <<hit, miss, sampleVars, steady, sim_cycles>>

-----------------------------------------------------------------------------
(***************************************************************************)
(* The stable check.                                                       *)
(***************************************************************************)
Changes(n) == decision_yes[n] + hit[n]

Inactive(n) == hit[n] = 0 /\ miss[n] = 0

\* centralized_stable: a sample of node n is taken if its window is not full and
\* it is inactive, or has hits and something has changed since the last sample.
Sampled(n) ==
  /\ sample_counter[n] # engineWindow
  /\ Inactive(n) \/ (hit[n] # 0 /\ Changes(n) # events[n])

\* The number of changes is noted with a sample, and while there are only misses.
Noted(n) ==
  /\ sample_counter[n] # engineWindow
  /\ ~Inactive(n)
  /\ hit[n] = 0 \/ Changes(n) # events[n]

HitSlot(n, j)  == n * engineWindow + j

\* Mutant of MissSlot: the first half is taken to be one sample per node.
MissSlotTooLow(n, j) == num_nodes + n * engineWindow + j

MissSlot(n, j) == num_nodes * engineWindow + n * engineWindow + j

\* The vector after every node has been looked at.
Collected ==
  [i \in 0 .. sizeVect - 1 |->
    IF \E n \in Node : Sampled(n) /\ i = HitSlot(n, sample_counter[n])
    THEN hit[CHOOSE n \in Node : Sampled(n) /\ i = HitSlot(n, sample_counter[n])]
    ELSE IF \E n \in Node : Sampled(n) /\ i = MissSlot(n, sample_counter[n])
    THEN miss[CHOOSE n \in Node : Sampled(n) /\ i = MissSlot(n, sample_counter[n])]
    ELSE HitMiss[i]]

CountedSamples == [n \in Node |-> IF Sampled(n) THEN sample_counter[n] + 1 ELSE sample_counter[n]]
NotedEvents    == [n \in Node |-> IF Noted(n) THEN Changes(n) ELSE events[n]]

\* numValidNodes >= partial_n
Complete == Cardinality({n \in Node : CountedSamples[n] = engineWindow}) >= partial_n

\* Not enough full windows: collect, and check again later.
CheckIncomplete ==
  /\ ~steady
  /\ ~Complete
  /\ HitMiss' = Collected
  /\ sample_counter' = CountedSamples
  /\ events' = NotedEvents
  /\ UNCHANGED <<countVars, steady, sim_cycles>>

\* The vector is sent and the master says continue: the windows are emptied, the
\* counters of the nodes go on.
CheckContinues ==
  /\ ~steady
  /\ Complete
  /\ HitMiss' = EmptyVector
  /\ sample_counter' = Zero
  /\ events' = NotedEvents
  /\ UNCHANGED <<countVars, steady, sim_cycles>>

\* clear_stat
ClearStat == hit' = Zero /\ miss' = Zero /\ decision_yes' = Zero

\* Mutant of CheckIsStable: the noted changes outlive the counters.
StableKeepsEvents ==
  /\ ~steady
  /\ Complete
  /\ steady' = TRUE
  /\ HitMiss' = Collected
  /\ sample_counter' = CountedSamples
  /\ events' = NotedEvents
  /\ ClearStat
  /\ UNCHANGED sim_cycles

\* The vector is sent and the master declares the steady state: the statistics
\* restart; the windows stay full until the next cycle.
CheckIsStable ==
  /\ ~steady
  /\ Complete
  /\ steady' = TRUE
  /\ HitMiss' = Collected
  /\ sample_counter' = CountedSamples
  /\ events' = Zero
  /\ ClearStat
  /\ UNCHANGED sim_cycles

\* Mutant of NextCycle: the windows are not emptied.
NextCycleKeepsWindows ==
  /\ steady
  /\ sim_cycles < MaxCycles
  /\ sim_cycles' = sim_cycles + 1
  /\ steady' = FALSE
  /\ ClearStat
  /\ UNCHANGED sampleVars

\* END, and the master wants another cycle.
NextCycle ==
  /\ steady
  /\ sim_cycles < MaxCycles
  /\ sim_cycles' = sim_cycles + 1
  /\ steady' = FALSE
  /\ ClearStat
  /\ sample_counter' = Zero
  /\ HitMiss' = EmptyVector
  /\ UNCHANGED events

Next ==
  \/ \E n \in Node : Hit(n) \/ Miss(n) \/ Accept(n)
  \/ CheckIncomplete \/ CheckContinues \/ CheckIsStable
  \/ NextCycle

Spec == Init /\ [][Next]_vars

-----------------------------------------------------------------------------
(***************************************************************************)
(* Properties.                                                             *)
(***************************************************************************)
\* A window is filled from its beginning and without holes, for hits and misses
\* alike, and no node writes into the window of another: what the master reads
\* as "not collected" is exactly what was not collected.
WindowsAreFilledInOrder ==
  /\ sample_counter \in [Node -> 0 .. engineWindow] /\ DOMAIN HitMiss = 0 .. sizeVect - 1
  /\ \A n \in Node, j \in 0 .. engineWindow - 1 :
       /\ HitMiss[HitSlot(n, j)] # NoSample <=> j < sample_counter[n]
       /\ HitMiss[MissSlot(n, j)] # NoSample <=> j < sample_counter[n]

\* The samples of a window are values of the same cumulative counters: they never
\* decrease, so no window mixes samples from before and after a clear_stat.
SamplesGrow ==
  \A n \in Node, j \in 0 .. engineWindow - 1 :
    j > 0 /\ j < sample_counter[n] =>
      /\ HitMiss[HitSlot(n, j - 1)] <= HitMiss[HitSlot(n, j)]
      /\ HitMiss[MissSlot(n, j - 1)] <= HitMiss[MissSlot(n, j)]

\* What is remembered of the last sample is never ahead of the counters: a node
\* with new hits is not taken for one where nothing has changed, across the
\* resets of the statistics.
EventsAreNotAhead == \A n \in Node : events[n] <= Changes(n)
=============================================================================
