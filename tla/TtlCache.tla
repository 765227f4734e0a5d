------------------------------ MODULE TtlCache ------------------------------
(***************************************************************************)
(* The TTL content store (src/node/cache/ttl_cache.cc) of one node: a      *)
(* table of eviction times that a periodic check and the lookups clean up, *)
(* the online average of its size, and the correction of its time to live  *)
(* (Tc) at the end of an MC-TTL cycle (statistics.cc, END).                *)
(*                                                                         *)
(* Time is a natural number of ticks.  A chunk is stored only after a      *)
(* lookup of it has failed (the core layer stores what it has missed), and *)
(* once for all the lookups that failed since.                             *)
(*                                                                         *)
(* The average is kept as the exact fraction area/span, with               *)
(*   area = avg * span.                                                    *)
(***************************************************************************)
EXTENDS Integers, FiniteSets

CONSTANTS
  Chunk,         \* chunk names
  Absent,        \* the eviction time of a chunk that is not in the table
  CheckPeriod,   \* ttl_check_timer
  TcInit,        \* Tc read from the file
  Target,        \* target_cache
  Unset,         \* avg_as_curr, which no constructor or initialize sets
  MaxTc,         \* bound: Tc is cut down to it
  MaxTime        \* bound: last tick

ASSUME TtlAssumption ==
  /\ Absent \notin Int
  /\ CheckPeriod \in Nat \ {0}
  /\ Target \in Nat \ {0}
  /\ MaxTc \in Nat \ {0}
  /\ TcInit \in 1 .. MaxTc
  /\ MaxTime \in Nat

VARIABLES
  now,                  \* simTime()
  next_check,           \* when ttl_check_msg is due
  cache,                \* chunk -> eviction time, or Absent
  actual_size, max_as,  \* ttl_cache::actual_size, max_as
  tc_node,              \* base_cache::tc_node
  time_extend,          \* start of the cycle
  cycle_avg_meas_time,  \* when in the cycle the average was last computed
  avg_as_prev,          \* its area then (0 if it was not)
  avg_as_curr,          \* the average, a record or Unset
  interests,            \* whether core_layer::interests is not 0
  missed,               \* chunks looked up in vain and not stored since
  found                 \* answer of the last lookup

tableVars == <<cache, actual_size, max_as>>
avgVars   == <<cycle_avg_meas_time, avg_as_prev, avg_as_curr>>
cycleVars == <<tc_node, time_extend>>
vars      == <<now, next_check, tableVars, avgVars, cycleVars, interests, missed, found>>

Present == {c \in Chunk : cache[c] # Absent}

\* Mutant of Expired: a chunk dies one instant early.
ExpiredEarly(c) == cache[c] # Absent /\ now >= cache[c]

Expired(c) == cache[c] # Absent /\ now > cache[c]

Init ==
  /\ now = 0 /\ next_check = CheckPeriod
  /\ cache = [c \in Chunk |-> Absent]
  /\ actual_size = 0 /\ max_as = 0
  /\ tc_node = TcInit
  /\ time_extend = 0
  /\ cycle_avg_meas_time = 0 /\ avg_as_prev = 0 /\ avg_as_curr = Unset
  /\ interests = FALSE
  /\ missed = {}
  /\ found = FALSE

-----------------------------------------------------------------------------
(***************************************************************************)
(* Lookup and store.                                                       *)
(***************************************************************************)

\* if(actual_size > 0) actual_size--, n times.
Shrunk(n) == IF actual_size > n THEN actual_size - n ELSE 0

\* Mutant of Measure: the time of the computation is not noted.
MeasureWithoutTime ==
  LET span == now - time_extend
      area == avg_as_prev + actual_size * (span - cycle_avg_meas_time)
  IN
  /\ span > 0
  /\ avg_as_curr' = [area |-> area, span |-> span]
  /\ avg_as_prev' = area
  /\ UNCHANGED cycle_avg_meas_time

\* One failed lookup in ten recomputes the average: the average until the last
\* computation weighs for its time, the present size for the time since then.
\* Packets arrive at other instants than cycles begin, so the span is not 0.
Measure ==
  LET span == now - time_extend
      area == avg_as_prev + actual_size * (span - cycle_avg_meas_time)
  IN
  /\ span > 0
  /\ avg_as_curr' = [area |-> area, span |-> span]
  /\ avg_as_prev' = area
  /\ cycle_avg_meas_time' = span

\* data_lookup: the chunk is not in the table.
LookupAbsent(c) ==
  /\ cache[c] = Absent
  /\ Measure \/ UNCHANGED avgVars
  /\ found' = FALSE
  /\ missed' = missed \cup {c}
  /\ interests' = TRUE
  /\ UNCHANGED <<now, next_check, tableVars, cycleVars>>

\* data_lookup: the chunk is in the table but the check has not come by yet.
LookupExpired(c) ==
  /\ Expired(c)
  /\ cache' = [cache EXCEPT ![c] = Absent]
  /\ actual_size' = Shrunk(1)
  /\ found' = FALSE
  /\ missed' = missed \cup {c}
  /\ interests' = TRUE
  /\ UNCHANGED <<now, next_check, max_as, avgVars, cycleVars>>

\* data_lookup: a hit renews the chunk.
LookupHit(c) ==
  /\ cache[c] # Absent /\ ~Expired(c)
  /\ cache' = [cache EXCEPT ![c] = now + tc_node]
  /\ found' = TRUE
  /\ interests' = TRUE
  /\ UNCHANGED <<now, next_check, actual_size, max_as, avgVars, cycleVars, missed>>

\* data_store does nothing for a chunk that is in the table, expired or not.
Store(c) ==
  /\ c \in missed
  /\ missed' = missed \ {c}
  /\ IF cache[c] # Absent
     THEN UNCHANGED tableVars
     ELSE /\ cache' = [cache EXCEPT ![c] = now + tc_node]
          /\ actual_size' = actual_size + 1
          /\ max_as' = IF actual_size' > max_as THEN actual_size' ELSE max_as
  /\ UNCHANGED <<now, next_check, avgVars, cycleVars, interests, found>>

\* The Data packet never comes, or the decision policy refuses the chunk.
NotStored(c) ==
  /\ c \in missed
  /\ missed' = missed \ {c}
  /\ UNCHANGED <<now, next_check, tableVars, avgVars, cycleVars, interests, found>>

-----------------------------------------------------------------------------
(***************************************************************************)
(* Time.                                                                   *)
(***************************************************************************)

\* An event that is due is executed before time goes on.
Tick ==
  /\ now < next_check
  /\ now < MaxTime
  /\ now' = now + 1
  /\ UNCHANGED <<next_check, tableVars, avgVars, cycleVars, interests, missed, found>>

\* Mutant of TtlCheck: the check is rescheduled before anything is swept.
TtlCheckSweepsNothing ==
  /\ now = next_check
  /\ next_check' = now + CheckPeriod
  /\ UNCHANGED <<now, tableVars, avgVars, cycleVars, interests, missed, found>>

\* handleMessage, TTL_CHECK: the table is swept.
TtlCheck ==
  /\ now = next_check
  /\ cache' = [c \in Chunk |-> IF Expired(c) THEN Absent ELSE cache[c]]
  /\ actual_size' = Shrunk(Cardinality({c \in Chunk : Expired(c)}))
  /\ next_check' = now + CheckPeriod
  /\ UNCHANGED <<now, max_as, avgVars, cycleVars, interests, missed, found>>

-----------------------------------------------------------------------------
(***************************************************************************)
(* The cycles of MC-TTL.                                                   *)
(***************************************************************************)

\* statistics::clear_stat at the start of the steady phase: from here on
\* interests tells whether the node has traffic in the measured phase.
Stabilized ==
  /\ interests' = FALSE
  /\ UNCHANGED <<now, next_check, tableVars, avgVars, cycleVars, missed, found>>

\* The node counts in the sum of the measured sizes.
Summed == interests

\* |target_cache - avg_as_curr| / target_cache < 0.1
CloseToTarget(a) ==
  LET gap == Target * a.span - a.area
  IN  (IF gap < 0 THEN -gap ELSE gap) * 10 < Target * a.span

\* tc_node * target_cache / avg_as_curr, in whole ticks between 1 and MaxTc.
Corrected(a) ==
  LET tc == (tc_node * Target * a.span) \div a.area
  IN  IF tc < 1 THEN 1 ELSE IF tc > MaxTc THEN MaxTc ELSE tc

\* What extend_sim makes of Tc: nothing if the node is inactive, close to its
\* target or without an average; anything if the average was never set.
NewTc ==
  IF ~Summed THEN {tc_node}
  ELSE IF avg_as_curr = Unset THEN 1 .. MaxTc
  ELSE IF avg_as_curr.area = 0 \/ CloseToTarget(avg_as_curr) THEN {tc_node}
  ELSE {Corrected(avg_as_curr)}

\* END, when the master wants another cycle: extend_sim, which flushes the
\* table and starts the average again but keeps avg_as_curr, and clear_stat.
ExtendSim ==
  /\ tc_node' \in NewTc
  /\ time_extend' = now
  /\ cycle_avg_meas_time' = 0 /\ avg_as_prev' = 0
  /\ cache' = [c \in Chunk |-> Absent] /\ actual_size' = 0
  /\ interests' = FALSE
  /\ UNCHANGED <<now, next_check, max_as, avg_as_curr, missed, found>>

Next ==
  \/ \E c \in Chunk : \/ LookupAbsent(c) \/ LookupExpired(c) \/ LookupHit(c)
                      \/ Store(c) \/ NotStored(c)
  \/ Tick
  \/ TtlCheck
  \/ Stabilized
  \/ ExtendSim

Spec == Init /\ [][Next]_vars

-----------------------------------------------------------------------------
(***************************************************************************)
(* Properties.                                                             *)
(***************************************************************************)
Average == [area : Nat, span : Nat \ {0}]

TypeOK ==
  /\ now \in Nat /\ next_check \in Nat
  /\ cache \in [Chunk -> Nat \cup {Absent}]
  /\ actual_size \in Nat /\ max_as \in Nat
  /\ tc_node \in 1 .. MaxTc
  /\ time_extend \in Nat /\ cycle_avg_meas_time \in Nat
  /\ avg_as_prev \in Nat
  /\ avg_as_curr \in Average \cup {Unset}
  /\ interests \in BOOLEAN
  /\ missed \in SUBSET Chunk
  /\ found \in BOOLEAN

\* An expired chunk stays in the table for one period of the check at most, so
\* the measured sizes count dead chunks no longer than that.
SweptInTime == \A c \in Present : cache[c] + CheckPeriod >= now

\* The average lies between 0 and the largest size the store ever had: the spans
\* it is weighted with never overlap and never reach back into a former cycle.
AverageIsBounded ==
  /\ cycle_avg_meas_time <= now - time_extend
  /\ avg_as_prev <= max_as * cycle_avg_meas_time
  /\ avg_as_curr # Unset => avg_as_curr.area <= max_as * avg_as_curr.span

\* The store behaves like one that drops every chunk the instant it expires: the
\* sweep, the lazy removal and the eviction times do not show.
Never == Absent
Contents == INSTANCE TtlContents WITH
  tc   <- tc_node,
  last <- [c \in Chunk |-> IF cache[c] = Absent \/ Expired(c)
                           THEN Never ELSE cache[c] - tc_node]
ImplementsContents == Contents!Spec
=============================================================================
