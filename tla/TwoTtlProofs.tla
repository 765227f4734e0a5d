---------------------------- MODULE TwoTtlProofs ----------------------------
(***************************************************************************)
(* Proofs about TtlCache and TwoTtl, for every set of chunks, period of    *)
(* the check and time to live.                                             *)
(*                                                                         *)
(* A step of TwoTtl is a step of TtlCache or leaves its variables alone    *)
(* (StepsOfTheStore), so what Next preserves holds in TwoTtl too.  None of *)
(* the invariants of the runs is inductive: that dead entries are swept in *)
(* time follows from where the next check lies (InTime), and the average   *)
(* is bounded because the size never was above its maximum (Average...).   *)
(***************************************************************************)
EXTENDS TwoTtl, FiniteSetTheorems, TLAPS

-----------------------------------------------------------------------------
(***************************************************************************)
(* The inductive invariant of the content store.                           *)
(***************************************************************************)

\* The next check is not behind and not more than a period away, and what will
\* be dead at that check has died within the period before it.
InTime ==
  /\ now <= next_check /\ next_check <= now + CheckPeriod
  /\ \A c \in Chunk : cache[c] # Absent => cache[c] + CheckPeriod >= next_check

\* The size is that of the table, and what was missed is not in the table.
Sized ==
  /\ IsFiniteSet(Present) /\ actual_size = Cardinality(Present)
  /\ actual_size <= max_as
  /\ \A c \in missed : cache[c] = Absent

\* The average is bounded, in a cycle that has begun.
Averaged == time_extend <= now /\ AverageIsBounded

StoreInv == TypeOK /\ InTime /\ Sized /\ Averaged

-----------------------------------------------------------------------------
(***************************************************************************)
(* Facts about natural numbers.                                            *)
(***************************************************************************)

LEMMA ProductIsNat == \A a \in Nat, b \in Nat : a * b \in Nat
  OBVIOUS

\* A larger factor makes a larger product.
LEMMA ProductGrows ==
  ASSUME NEW a \in Nat, NEW b \in Nat, NEW n \in Nat, a <= b
  PROVE  a * n <= b * n
<1>1. b = a + (b - a) /\ b - a \in Nat
  OBVIOUS
<1>2. (a + (b - a)) * n = a * n + (b - a) * n
  OBVIOUS
<1>3. (b - a) * n >= 0
  BY <1>1
<1>4. a * n \in Nat /\ (b - a) * n \in Nat
  BY <1>1
<1> QED
  BY <1>1, <1>2, <1>3, <1>4

\* What is added to the area for the time since the last computation keeps it
\* below the maximum, if the size is.
LEMMA AreaIsBounded ==
  ASSUME NEW size \in Nat, NEW most \in Nat, size <= most,
         NEW then \in Nat, NEW span \in Nat, then <= span,
         NEW area \in Nat, area <= most * then
  PROVE  /\ area + size * (span - then) \in Nat
         /\ area + size * (span - then) <= most * span
<1>1. span - then \in Nat
  OBVIOUS
<1>2. size * (span - then) <= most * (span - then)
  BY <1>1, ProductGrows
<1>3. most * span = most * then + most * (span - then)
  OBVIOUS
<1>4. size * (span - then) \in Nat
  BY <1>1
<1>5. most * then \in Nat /\ most * (span - then) \in Nat
  BY <1>1
<1> QED
  BY <1>2, <1>3, <1>4, <1>5

-----------------------------------------------------------------------------
(***************************************************************************)
(* The steps of the content store preserve it.                             *)
(***************************************************************************)

LEMMA StoreInitially == Init => StoreInv
<1> SUFFICES ASSUME Init PROVE StoreInv
  OBVIOUS
<1> USE TtlAssumption DEF Init
<1>1. TypeOK
  BY DEF TypeOK
<1>2. InTime
  BY DEF InTime
<1>3. Present = {}
  BY DEF Present
<1>4. Sized
  BY <1>3, FS_EmptySet DEF Sized
<1>5. Averaged
  BY DEF Averaged, AverageIsBounded
<1> QED
  BY <1>1, <1>2, <1>4, <1>5 DEF StoreInv

\* The corrected time to live is a time to live, whatever the average was.
LEMMA NewTcIsTc ==
  ASSUME TypeOK
  PROVE  NewTc \subseteq 1 .. MaxTc
<1> USE TtlAssumption DEF TypeOK
<1>1. ASSUME avg_as_curr # Unset, avg_as_curr.area # 0
      PROVE  Corrected(avg_as_curr) \in 1 .. MaxTc
  <2>1. avg_as_curr.area \in Nat \ {0} /\ avg_as_curr.span \in Nat
    BY <1>1 DEF Average
  <2>2. tc_node * Target * avg_as_curr.span \in Int
    BY <2>1
  <2>3. \A n \in Int, d \in Nat \ {0} : n \div d \in Int
    OBVIOUS
  <2> DEFINE tc == (tc_node * Target * avg_as_curr.span) \div avg_as_curr.area
  <2>4. tc \in Int
    BY <2>1, <2>2, <2>3
  <2>5. Corrected(avg_as_curr) = IF tc < 1 THEN 1 ELSE IF tc > MaxTc THEN MaxTc ELSE tc
    BY DEF Corrected
  <2> HIDE DEF tc
  <2> QED
    BY <2>4, <2>5
<1> QED
  BY <1>1 DEF NewTc

LEMMA StoreTyped ==
  ASSUME StoreInv, [Next]_vars
  PROVE  TypeOK'
<1> USE TtlAssumption DEF TypeOK
<1>0. TypeOK /\ Averaged
  BY DEF StoreInv
<1> DEFINE tableOK == cache' \in [Chunk -> Nat \cup {Absent}]
                      /\ actual_size' \in Nat /\ max_as' \in Nat
<1>1. ASSUME NEW c \in Chunk, LookupAbsent(c) PROVE TypeOK'
  <2>1. CASE Measure
    <3> DEFINE span == now - time_extend
               area == avg_as_prev + actual_size * (span - cycle_avg_meas_time)
    <3>1. span \in Nat \ {0} /\ cycle_avg_meas_time <= span
      BY <1>0, <2>1 DEF Measure, Averaged, AverageIsBounded
    <3>2. area \in Nat
      <4>1. span - cycle_avg_meas_time \in Nat
        BY <1>0, <3>1
      <4>2. actual_size * (span - cycle_avg_meas_time) \in Nat
        BY <1>0, <4>1
      <4> QED
        BY <1>0, <4>2
    <3>3. /\ avg_as_curr' = [area |-> area, span |-> span]
          /\ avg_as_prev' = area /\ cycle_avg_meas_time' = span
      BY <2>1 DEF Measure
    <3> HIDE DEF span, area
    <3>4. avg_as_curr' \in Average
      BY <3>1, <3>2, <3>3 DEF Average
    <3> QED
      BY <1>0, <1>1, <3>1, <3>2, <3>3, <3>4 DEF LookupAbsent, tableVars, cycleVars
  <2>2. CASE UNCHANGED avgVars
    BY <1>0, <1>1, <2>2 DEF LookupAbsent, tableVars, avgVars, cycleVars
  <2> QED
    BY <1>1, <2>1, <2>2 DEF LookupAbsent
<1>2. ASSUME NEW c \in Chunk, LookupExpired(c) PROVE TypeOK'
  <2>1. Shrunk(1) \in Nat
    BY <1>0 DEF Shrunk
  <2> QED
    BY <1>0, <1>2, <2>1 DEF LookupExpired, avgVars, cycleVars
<1>3. ASSUME NEW c \in Chunk, LookupHit(c) PROVE TypeOK'
  BY <1>0, <1>3 DEF LookupHit, avgVars, cycleVars
<1>4. ASSUME NEW c \in Chunk, Store(c) PROVE TypeOK'
  <2>1. CASE cache[c] # Absent
    BY <1>0, <1>4, <2>1 DEF Store, tableVars, avgVars, cycleVars
  <2>2. CASE cache[c] = Absent
    <3>1. now + tc_node \in Nat /\ actual_size + 1 \in Nat
      BY <1>0
    <3>2. cache' \in [Chunk -> Nat \cup {Absent}]
      BY <1>0, <1>4, <2>2, <3>1 DEF Store
    <3>3. actual_size' \in Nat /\ max_as' \in Nat
      BY <1>0, <1>4, <2>2, <3>1 DEF Store
    <3> QED
      BY <1>0, <1>4, <3>2, <3>3 DEF Store, avgVars, cycleVars
  <2> QED
    BY <2>1, <2>2
<1>5. ASSUME NEW c \in Chunk, NotStored(c) PROVE TypeOK'
  BY <1>0, <1>5 DEF NotStored, tableVars, avgVars, cycleVars
<1>6. CASE Tick
  BY <1>0, <1>6 DEF Tick, tableVars, avgVars, cycleVars
<1>7. CASE TtlCheck
  <2>1. IsFiniteSet({c \in Chunk : Expired(c)})
    <3>1. {c \in Chunk : Expired(c)} \in SUBSET Present
      BY DEF Present, Expired
    <3> QED
      BY <3>1, FS_Subset DEF StoreInv, Sized
  <2>2. Cardinality({c \in Chunk : Expired(c)}) \in Nat
    BY <2>1, FS_CardinalityType
  <2>3. actual_size' \in Nat
    BY <1>0, <1>7, <2>2 DEF TtlCheck, Shrunk
  <2>4. cache' \in [Chunk -> Nat \cup {Absent}]
    BY <1>0, <1>7 DEF TtlCheck
  <2>5. next_check' \in Nat
    BY <1>0, <1>7 DEF TtlCheck
  <2> QED
    BY <1>0, <1>7, <2>3, <2>4, <2>5 DEF TtlCheck, avgVars, cycleVars
<1>8. CASE Stabilized
  BY <1>0, <1>8 DEF Stabilized, tableVars, avgVars, cycleVars
<1>9. CASE ExtendSim
  BY <1>0, <1>9, NewTcIsTc DEF ExtendSim
<1>10. CASE UNCHANGED vars
  BY <1>0, <1>10 DEF vars, tableVars, avgVars, cycleVars
<1> QED
  BY <1>1, <1>2, <1>3, <1>4, <1>5, <1>6, <1>7, <1>8, <1>9, <1>10 DEF Next

LEMMA StoreInTime ==
  ASSUME TypeOK, InTime, [Next]_vars
  PROVE  InTime'
<1> USE TtlAssumption DEF TypeOK, InTime
<1>1. ASSUME NEW c \in Chunk, LookupAbsent(c) PROVE InTime'
  BY <1>1 DEF LookupAbsent, tableVars
<1>2. ASSUME NEW c \in Chunk, LookupExpired(c) PROVE InTime'
  BY <1>2 DEF LookupExpired
<1>3. ASSUME NEW c \in Chunk, LookupHit(c) PROVE InTime'
  <2>1. (now + tc_node) + CheckPeriod >= next_check
    OBVIOUS
  <2>2. cache' = [cache EXCEPT ![c] = now + tc_node] /\ UNCHANGED <<now, next_check>>
    BY <1>3 DEF LookupHit
  <2> QED
    BY <2>1, <2>2
<1>4. ASSUME NEW c \in Chunk, Store(c) PROVE InTime'
  <2>1. (now + tc_node) + CheckPeriod >= next_check
    OBVIOUS
  <2>2. /\ cache' = cache \/ cache' = [cache EXCEPT ![c] = now + tc_node]
        /\ UNCHANGED <<now, next_check>>
    BY <1>4 DEF Store, tableVars
  <2> QED
    BY <2>1, <2>2
<1>5. ASSUME NEW c \in Chunk, NotStored(c) PROVE InTime'
  BY <1>5 DEF NotStored, tableVars
<1>6. CASE Tick
  BY <1>6 DEF Tick, tableVars
<1>7. CASE TtlCheck
  BY <1>7 DEF TtlCheck, Expired
<1>8. CASE Stabilized
  BY <1>8 DEF Stabilized, tableVars
<1>9. CASE ExtendSim
  BY <1>9 DEF ExtendSim
<1>10. CASE UNCHANGED vars
  BY <1>10 DEF vars, tableVars
<1> QED
  BY <1>1, <1>2, <1>3, <1>4, <1>5, <1>6, <1>7, <1>8, <1>9, <1>10 DEF Next

LEMMA StoreSized ==
  ASSUME TypeOK, Sized, [Next]_vars
  PROVE  Sized'
<1> USE TtlAssumption DEF TypeOK, Sized
<1>1. ASSUME NEW c \in Chunk, LookupAbsent(c) PROVE Sized'
  <2>1. Present' = Present
    BY <1>1 DEF LookupAbsent, tableVars, Present
  <2> QED
    BY <1>1, <2>1 DEF LookupAbsent, tableVars
<1>2. ASSUME NEW c \in Chunk, LookupExpired(c) PROVE Sized'
  <2>1. c \in Present /\ Present' = Present \ {c}
    BY <1>2 DEF LookupExpired, Present, Expired
  <2>2. IsFiniteSet(Present') /\ Cardinality(Present') = Cardinality(Present) - 1
    BY <2>1, FS_RemoveElement
  <2>3. actual_size # 0
    BY <2>1, FS_EmptySet
  <2>4. actual_size' = actual_size - 1
    BY <1>2, <2>3 DEF LookupExpired, Shrunk
  <2>5. \A d \in missed' : cache'[d] = Absent
    BY <1>2 DEF LookupExpired
  <2>6. max_as' = max_as
    BY <1>2 DEF LookupExpired
  <2> QED
    BY <2>2, <2>4, <2>5, <2>6
<1>3. ASSUME NEW c \in Chunk, LookupHit(c) PROVE Sized'
  <2>1. now + tc_node # Absent
    OBVIOUS
  <2>2. Present' = Present
    BY <1>3, <2>1 DEF LookupHit, Present
  <2>3. \A d \in missed' : cache'[d] = Absent
    BY <1>3 DEF LookupHit
  <2> QED
    BY <1>3, <2>2, <2>3 DEF LookupHit
<1>4. ASSUME NEW c \in Chunk, Store(c) PROVE Sized'
  <2>1. cache[c] = Absent
    BY <1>4 DEF Store
  <2>2. /\ cache' = [cache EXCEPT ![c] = now + tc_node]
        /\ actual_size' = actual_size + 1
        /\ max_as' = IF actual_size' > max_as THEN actual_size' ELSE max_as
        /\ missed' = missed \ {c}
    BY <1>4, <2>1 DEF Store
  <2>3. now + tc_node # Absent
    OBVIOUS
  <2>4. c \notin Present /\ Present' = Present \cup {c}
    BY <2>1, <2>2, <2>3 DEF Present
  <2>5. IsFiniteSet(Present') /\ Cardinality(Present') = Cardinality(Present) + 1
    BY <2>4, FS_AddElement
  <2>6. \A d \in missed' : cache'[d] = Absent
    BY <2>2
  <2> QED
    BY <2>2, <2>5, <2>6
<1>5. ASSUME NEW c \in Chunk, NotStored(c) PROVE Sized'
  <2>1. Present' = Present
    BY <1>5 DEF NotStored, tableVars, Present
  <2> QED
    BY <1>5, <2>1 DEF NotStored, tableVars
<1>6. CASE Tick
  <2>1. Present' = Present
    BY <1>6 DEF Tick, tableVars, Present
  <2> QED
    BY <1>6, <2>1 DEF Tick, tableVars
<1>7. CASE TtlCheck
  <2> DEFINE dead == {c \in Chunk : Expired(c)}
  <2>1. dead \in SUBSET Present /\ Present' = Present \ dead
    BY <1>7 DEF TtlCheck, Present, Expired
  <2>2. /\ IsFiniteSet(dead) /\ Cardinality(dead) <= Cardinality(Present)
        /\ Cardinality(dead) \in Nat
    BY <2>1, FS_Subset, FS_CardinalityType
  <2>3. actual_size' = Shrunk(Cardinality(dead)) /\ max_as' = max_as
    BY <1>7 DEF TtlCheck
  <2> HIDE DEF dead
  <2>4. Present \cap dead = dead
    BY <2>1
  <2>5. /\ IsFiniteSet(Present')
        /\ Cardinality(Present') = Cardinality(Present) - Cardinality(dead)
    BY <2>1, <2>4, FS_Difference
  <2>6. actual_size' = actual_size - Cardinality(dead)
    BY <2>2, <2>3 DEF Shrunk
  <2>7. \A d \in missed' : cache'[d] = Absent
    BY <1>7 DEF TtlCheck
  <2> QED
    BY <2>2, <2>3, <2>5, <2>6, <2>7
<1>8. CASE Stabilized
  <2>1. Present' = Present
    BY <1>8 DEF Stabilized, tableVars, Present
  <2> QED
    BY <1>8, <2>1 DEF Stabilized, tableVars
<1>9. CASE ExtendSim
  <2>1. Present' = {}
    BY <1>9 DEF ExtendSim, Present
  <2> QED
    BY <1>9, <2>1, FS_EmptySet DEF ExtendSim
<1>10. CASE UNCHANGED vars
  <2>1. Present' = Present
    BY <1>10 DEF vars, tableVars, Present
  <2> QED
    BY <1>10, <2>1 DEF vars, tableVars
<1> QED
  BY <1>1, <1>2, <1>3, <1>4, <1>5, <1>6, <1>7, <1>8, <1>9, <1>10 DEF Next

LEMMA StoreAveraged ==
  ASSUME StoreInv, [Next]_vars
  PROVE  Averaged'
<1> USE TtlAssumption
<1>0. TypeOK /\ Averaged /\ actual_size <= max_as
  BY DEF StoreInv, Sized
<1> USE DEF TypeOK
<1>1. ASSUME NEW c \in Chunk, LookupAbsent(c) PROVE Averaged'
  <2>1. CASE Measure
    <3> DEFINE span == now - time_extend
               area == avg_as_prev + actual_size * (span - cycle_avg_meas_time)
    <3>1. span \in Nat \ {0} /\ cycle_avg_meas_time <= span
      BY <1>0, <2>1 DEF Measure, Averaged, AverageIsBounded
    <3>2. /\ avg_as_prev <= max_as * cycle_avg_meas_time
          /\ actual_size \in Nat /\ max_as \in Nat
          /\ cycle_avg_meas_time \in Nat /\ avg_as_prev \in Nat
      BY <1>0 DEF Averaged, AverageIsBounded
    <3>3. area <= max_as * span
      <4> HIDE DEF span
      <4> QED
        BY <1>0, <3>1, <3>2, AreaIsBounded
    <3>4. /\ avg_as_curr' = [area |-> area, span |-> span]
          /\ avg_as_prev' = area /\ cycle_avg_meas_time' = span
      BY <2>1 DEF Measure
    <3>5. max_as' = max_as /\ now' = now /\ time_extend' = time_extend
      BY <1>1 DEF LookupAbsent, tableVars, cycleVars
    <3>6. span = now' - time_extend' /\ time_extend' <= now'
      BY <1>0, <3>5 DEF Averaged
    <3> HIDE DEF span, area
    <3>7. avg_as_curr'.area = area /\ avg_as_curr'.span = span
      BY <3>4
    <3>8. cycle_avg_meas_time' <= now' - time_extend'
      BY <3>1, <3>4, <3>6
    <3> QED
      BY <3>3, <3>4, <3>5, <3>6, <3>7, <3>8 DEF Averaged, AverageIsBounded
  <2>2. CASE UNCHANGED avgVars
    BY <1>0, <1>1, <2>2
    DEF LookupAbsent, tableVars, avgVars, cycleVars, Averaged, AverageIsBounded
  <2> QED
    BY <1>1, <2>1, <2>2 DEF LookupAbsent
<1>2. ASSUME NEW c \in Chunk, LookupExpired(c) PROVE Averaged'
  BY <1>0, <1>2 DEF LookupExpired, avgVars, cycleVars, Averaged, AverageIsBounded
<1>3. ASSUME NEW c \in Chunk, LookupHit(c) PROVE Averaged'
  BY <1>0, <1>3 DEF LookupHit, avgVars, cycleVars, Averaged, AverageIsBounded
<1>4. ASSUME NEW c \in Chunk, Store(c) PROVE Averaged'
  <2>1. max_as' \in Nat /\ max_as <= max_as'
    <3>1. CASE cache[c] # Absent
      BY <1>0, <1>4, <3>1 DEF Store, tableVars
    <3>2. CASE cache[c] = Absent
      BY <1>0, <1>4, <3>2 DEF Store
    <3> QED
      BY <3>1, <3>2
  <2>2. /\ UNCHANGED <<now, time_extend, cycle_avg_meas_time, avg_as_prev, avg_as_curr>>
    BY <1>4 DEF Store, avgVars, cycleVars
  <2>3. max_as * cycle_avg_meas_time <= max_as' * cycle_avg_meas_time
    BY <1>0, <2>1, ProductGrows
  <2>4. ASSUME avg_as_curr # Unset
        PROVE  avg_as_curr.area <= max_as' * avg_as_curr.span
    <3>1. avg_as_curr.span \in Nat /\ avg_as_curr.area \in Nat
      BY <1>0, <2>4 DEF Average
    <3>2. max_as * avg_as_curr.span <= max_as' * avg_as_curr.span
      BY <1>0, <2>1, <3>1, ProductGrows
    <3>3. avg_as_curr.area <= max_as * avg_as_curr.span
      BY <1>0, <2>4 DEF Averaged, AverageIsBounded
    <3>4. max_as * avg_as_curr.span \in Nat /\ max_as' * avg_as_curr.span \in Nat
      BY <1>0, <2>1, <3>1
    <3> QED
      BY <3>1, <3>2, <3>3, <3>4
  <2>5. avg_as_prev <= max_as' * cycle_avg_meas_time
    <3>1. avg_as_prev <= max_as * cycle_avg_meas_time
      BY <1>0 DEF Averaged, AverageIsBounded
    <3>2. /\ max_as * cycle_avg_meas_time \in Nat
          /\ max_as' * cycle_avg_meas_time \in Nat
          /\ avg_as_prev \in Nat
      <4>1. max_as \in Nat /\ cycle_avg_meas_time \in Nat /\ avg_as_prev \in Nat
        BY <1>0
      <4> HIDE DEF TypeOK
      <4> QED
        BY <2>1, <4>1, ProductIsNat
    <3> QED
      BY <2>3, <3>1, <3>2
  <2>6. time_extend <= now /\ cycle_avg_meas_time <= now - time_extend
    BY <1>0 DEF Averaged, AverageIsBounded
  <2> QED
    BY <2>2, <2>4, <2>5, <2>6 DEF Averaged, AverageIsBounded
<1>5. ASSUME NEW c \in Chunk, NotStored(c) PROVE Averaged'
  BY <1>0, <1>5 DEF NotStored, tableVars, avgVars, cycleVars, Averaged, AverageIsBounded
<1>6. CASE Tick
  <2>1. /\ now' = now + 1
        /\ UNCHANGED <<max_as, time_extend, cycle_avg_meas_time, avg_as_prev, avg_as_curr>>
    BY <1>6 DEF Tick, tableVars, avgVars, cycleVars
  <2>2. time_extend <= now + 1 /\ cycle_avg_meas_time <= now + 1 - time_extend
    BY <1>0 DEF Averaged, AverageIsBounded
  <2> QED
    BY <1>0, <2>1, <2>2 DEF Averaged, AverageIsBounded
<1>7. CASE TtlCheck
  BY <1>0, <1>7 DEF TtlCheck, avgVars, cycleVars, Averaged, AverageIsBounded
<1>8. CASE Stabilized
  BY <1>0, <1>8 DEF Stabilized, tableVars, avgVars, cycleVars, Averaged, AverageIsBounded
<1>9. CASE ExtendSim
  <2>1. /\ UNCHANGED <<now, max_as, avg_as_curr>>
        /\ time_extend' = now /\ cycle_avg_meas_time' = 0 /\ avg_as_prev' = 0
    BY <1>9 DEF ExtendSim
  <2>2. 0 <= now - now /\ 0 <= max_as * 0
    BY <1>0
  <2> QED
    BY <1>0, <2>1, <2>2 DEF Averaged, AverageIsBounded
<1>10. CASE UNCHANGED vars
  BY <1>0, <1>10 DEF vars, tableVars, avgVars, cycleVars, Averaged, AverageIsBounded
<1> QED
  BY <1>1, <1>2, <1>3, <1>4, <1>5, <1>6, <1>7, <1>8, <1>9, <1>10 DEF Next

\* The invariant of the content store is inductive.
LEMMA StoreInductive == StoreInv /\ [Next]_vars => StoreInv'
  BY StoreTyped, StoreInTime, StoreSized, StoreAveraged DEF StoreInv

\* In particular the content store holds no dead chunk for longer than a period.
LEMMA InTimeIsSwept == TypeOK /\ InTime => SweptInTime
  BY TtlAssumption DEF TypeOK, InTime, SweptInTime, Present

-----------------------------------------------------------------------------
(***************************************************************************)
(* The content store implements TtlContents.                               *)
(***************************************************************************)

\* What Contents knows as the last uses of the chunks.
Used == [c \in Chunk |-> IF cache[c] = Absent \/ Expired(c)
                         THEN Never ELSE cache[c] - tc_node]

\* A chunk is used now when its eviction time is set, and the others are not.
LEMMA UsedNow ==
  ASSUME TypeOK, NEW c \in Chunk, cache' = [cache EXCEPT ![c] = now + tc_node],
         UNCHANGED <<now, tc_node>>
  PROVE  Used' = [Used EXCEPT ![c] = now]
<1> USE TtlAssumption DEF TypeOK
<1>1. now + tc_node # Absent /\ (now + tc_node) - tc_node = now /\ ~(now > now + tc_node)
  OBVIOUS
<1>2. Used'[c] = now
  BY <1>1 DEF Used, Expired
<1>3. \A d \in Chunk \ {c} : Used'[d] = Used[d]
  BY DEF Used, Expired
<1> QED
  BY <1>2, <1>3 DEF Used

LEMMA ContentsSteps ==
  ASSUME TypeOK, [Next]_vars
  PROVE  [Contents!Next]_Contents!vars
<1> USE TtlAssumption
<1> USE DEF TypeOK
<1>a. Contents!vars = <<now, tc_node, Used, found>>
  BY DEF Contents!vars, Used
<1>1. ASSUME NEW c \in Chunk, LookupAbsent(c) PROVE Contents!Request(c)
  <2>1. Used' = Used /\ Used[c] = Never
    BY <1>1 DEF LookupAbsent, tableVars, cycleVars, Used, Expired
  <2> QED
    BY <1>1, <2>1 DEF LookupAbsent, cycleVars, Contents!Request, Used
<1>2. ASSUME NEW c \in Chunk, LookupExpired(c) PROVE Contents!Request(c)
  <2>1. Used' = Used /\ Used[c] = Never
    BY <1>2 DEF LookupExpired, cycleVars, Used, Expired
  <2> QED
    BY <1>2, <2>1 DEF LookupExpired, cycleVars, Contents!Request, Used
<1>3. ASSUME NEW c \in Chunk, LookupHit(c) PROVE Contents!Request(c)
  <2>1. Used' = [Used EXCEPT ![c] = now]
    BY <1>3, UsedNow DEF LookupHit, cycleVars
  <2>2. Used[c] # Never
    BY <1>3 DEF LookupHit, Used, Never
  <2> QED
    BY <1>3, <2>1, <2>2 DEF LookupHit, cycleVars, Contents!Request, Used
<1>4. ASSUME NEW c \in Chunk, Store(c), cache[c] = Absent PROVE Contents!Put(c)
  <2>1. Used' = [Used EXCEPT ![c] = now]
    BY <1>4, UsedNow DEF Store, cycleVars
  <2>2. Used[c] = Never
    BY <1>4 DEF Used
  <2> QED
    BY <1>4, <2>1, <2>2 DEF Store, cycleVars, Contents!Put, Used
<1>5. ASSUME NEW c \in Chunk, Store(c), cache[c] # Absent PROVE UNCHANGED Contents!vars
  BY <1>a, <1>5 DEF Store, tableVars, cycleVars, Used, Expired, Contents!vars
<1>6. ASSUME NEW c \in Chunk, NotStored(c) PROVE UNCHANGED Contents!vars
  BY <1>6 DEF NotStored, tableVars, cycleVars, Expired, Contents!vars
<1>7. CASE Tick
  <2>1. /\ now' = now + 1
        /\ UNCHANGED <<cache, tc_node, found>>
    BY <1>7 DEF Tick, tableVars, cycleVars
  <2>2. ASSUME NEW c \in Chunk
        PROVE  Used'[c] = IF Used[c] # Never /\ now' > Used[c] + tc_node
                          THEN Never ELSE Used[c]
    <3>1. CASE cache[c] = Absent
      BY <2>1, <3>1 DEF Used
    <3>2. CASE cache[c] # Absent
      <4>1. cache[c] \in Nat /\ (cache[c] - tc_node) + tc_node = cache[c]
        BY <3>2
      <4>2. cache[c] - tc_node # Never
        BY <4>1 DEF Never
      <4> QED
        BY <2>1, <3>2, <4>1, <4>2 DEF Used, Expired
    <3> QED
      BY <3>1, <3>2
  <2> QED
    BY <2>1, <2>2 DEF Contents!Next, Contents!Tick, Used
<1>8. CASE TtlCheck
  <2>1. Used' = Used
    BY <1>8 DEF TtlCheck, cycleVars, Used, Expired
  <2> QED
    BY <1>a, <1>8, <2>1 DEF TtlCheck, cycleVars, Contents!vars, Used
<1>9. CASE Stabilized
  BY <1>9 DEF Stabilized, tableVars, cycleVars, Expired, Contents!vars
<1>10. CASE ExtendSim
  <2>1. tc_node' \in Nat
    BY <1>10, NewTcIsTc DEF ExtendSim
  <2>2. Used' = [c \in Chunk |-> Never]
    BY <1>10 DEF ExtendSim, Used
  <2> QED
    BY <1>10, <2>1, <2>2 DEF ExtendSim, Contents!Next, Contents!Restart, Used
<1>11. CASE UNCHANGED vars
  BY <1>11 DEF vars, tableVars, cycleVars, Expired, Contents!vars
<1> QED
  BY <1>1, <1>2, <1>3, <1>4, <1>5, <1>6, <1>7, <1>8, <1>9, <1>10, <1>11
  DEF Next, Contents!Next

-----------------------------------------------------------------------------
(***************************************************************************)
(* TwoTtl.                                                                 *)
(***************************************************************************)

NamesPresent == {c \in Chunk : names[c] # Absent}

\* The names die within the period before the next check, like the contents.
NamesInTime == \A c \in Chunk : names[c] # Absent => names[c] + CheckPeriod >= next_check

NamesSized == IsFiniteSet(NamesPresent) /\ name_size = Cardinality(NamesPresent)

\* There are no names with another policy, nor with an infinite time to live:
\* the first name that would be stored ends the simulation.
NamesEmpty ==
  DS # "two_ttl" \/ tc_name_node = Infinite => \A c \in Chunk : names[c] = Absent

\* The average of the names is one of the three that TwoTtl tells apart.
NameAvgKnown == name_avg \in {"unset", "zero", "positive"}

IInv == StoreInv /\ TwoTypeOK /\ NameAvgKnown /\ NamesInTime /\ NamesSized /\ NamesEmpty

\* Every step of the node is a step of its content store or leaves it alone.
LEMMA StepsOfTheStore == [TwoNext]_<<vars, twoVars>> => [Next]_vars
  BY DEF TwoNext, Next, Interest, Data, TimePasses, Check, NextCycle

-----------------------------------------------------------------------------
(***************************************************************************)
(* What a step does to the name cache.                                     *)
(***************************************************************************)

NameThere(c) == names[c] # Absent /\ ~NameExpired(c)

NamesAlone == UNCHANGED <<DS, nameTable, tc_name_node, verdict, now, next_check>>

\* A name is renewed, replaced or stored.
NameUsed(c) ==
  /\ tc_name_node # Infinite /\ DS = "two_ttl"
  /\ names' = [names EXCEPT ![c] = now + tc_name_node]
  /\ name_size' = IF NameThere(c) \/ (NameExpired(c) /\ name_size > 0)
                  THEN name_size ELSE name_size + 1
  /\ verdict' = NameThere(c)
  /\ UNCHANGED <<DS, tc_name_node, now, next_check>>

\* A name is not stored because of an infinite time to live.
NameRefused(c) ==
  /\ ~NameThere(c)
  /\ verdict' = FALSE
  /\ UNCHANGED <<DS, nameTable, tc_name_node, now, next_check>>

NamesAge ==
  /\ now < next_check /\ now' = now + 1
  /\ UNCHANGED <<DS, nameTable, tc_name_node, verdict, next_check>>

\* The check passes, with and without names to sweep.
NamesSwept ==
  /\ CheckNames
  /\ now = next_check /\ next_check' = now + CheckPeriod
  /\ UNCHANGED <<DS, tc_name_node, verdict, now>>
NamesUnchecked ==
  /\ DS # "two_ttl"
  /\ now = next_check /\ next_check' = now + CheckPeriod
  /\ UNCHANGED <<DS, nameTable, tc_name_node, verdict, now>>

NamesFlushed ==
  /\ DS = "two_ttl"
  /\ tc_name_node' \in (1 .. MaxTc) \cup {Infinite}
  /\ names' = [c \in Chunk |-> Absent] /\ name_size' = 0
  /\ UNCHANGED <<DS, verdict, now, next_check>>

NamesStep ==
  \/ NamesAlone
  \/ \E c \in Chunk : NameUsed(c) \/ NameRefused(c)
  \/ NamesAge
  \/ NamesSwept
  \/ NamesUnchecked
  \/ NamesFlushed

LEMMA NamesSteps ==
  ASSUME IInv, [TwoNext]_<<vars, twoVars>>
  PROVE  NamesStep
<1>1. ASSUME NEW c \in Chunk, Interest(c) PROVE NamesStep
  <2>1. UNCHANGED <<DS, now, next_check>>
    BY <1>1 DEF Interest, LookupAbsent, LookupExpired, LookupHit
  <2>2. CASE DS # "two_ttl"
    BY <1>1, <2>1, <2>2 DEF Interest, NameToCache, nameVars, NamesStep, NamesAlone
  <2>3. CASE DS = "two_ttl" /\ NameFound(c) /\ UNCHANGED tc_name_node
    <3>1. tc_name_node # Infinite
      BY <2>3 DEF IInv, NamesEmpty, NameFound
    <3>2. NameUsed(c)
      BY <2>1, <2>3, <3>1 DEF NameFound, NameUsed, NameThere
    <3> QED
      BY <3>2 DEF NamesStep
  <2>4. CASE DS = "two_ttl" /\ NameNotFound(c) /\ UNCHANGED tc_name_node
    <3>1. ~NameThere(c)
      BY <2>4 DEF NameNotFound, NameThere
    <3>2. CASE tc_name_node = Infinite
      <4>1. UNCHANGED nameTable /\ verdict' = FALSE
        BY <2>4, <3>2 DEF NameNotFound, StoreName
      <4>2. NameRefused(c)
        BY <2>1, <2>4, <3>1, <4>1 DEF NameRefused
      <4> QED
        BY <4>2 DEF NamesStep
    <3>3. CASE tc_name_node # Infinite
      <4>1. /\ names' = [names EXCEPT ![c] = now + tc_name_node]
            /\ name_size' = IF NameExpired(c) /\ name_size > 0
                            THEN name_size ELSE name_size + 1
            /\ verdict' = FALSE
        BY <2>4, <3>3 DEF NameNotFound, StoreName
      <4>2. NameUsed(c)
        BY <2>1, <2>4, <3>1, <3>3, <4>1 DEF NameUsed, NameThere
      <4> QED
        BY <4>2 DEF NamesStep
    <3> QED
      BY <3>2, <3>3
  <2> QED
    BY <1>1, <2>2, <2>3, <2>4 DEF Interest, NameToCache
<1>2. ASSUME NEW c \in Chunk, Data(c) PROVE NamesStep
  BY <1>2 DEF Data, Store, NotStored, nameVars, NamesStep, NamesAlone
<1>3. CASE TimePasses
  BY <1>3 DEF TimePasses, Tick, NamesStep, NamesAge
<1>4. CASE Check
  BY <1>4 DEF Check, TtlCheck, NamesStep, NamesSwept, NamesUnchecked
<1>5. CASE Stabilized /\ UNCHANGED twoVars
  BY <1>5 DEF Stabilized, twoVars, nameVars, NamesStep, NamesAlone
<1>6. CASE NextCycle
  <2>1. UNCHANGED <<DS, now, next_check, verdict>>
    BY <1>6 DEF NextCycle, ExtendSim
  <2>2. CASE DS = "two_ttl"
    <3>1. ExtendNames
      BY <1>6, <2>2 DEF NextCycle
    <3>2. NewNameTc \subseteq (1 .. MaxTc) \cup {Infinite}
      BY DEF NewNameTc, IInv, NameAvgKnown
    <3> QED
      BY <2>1, <2>2, <3>1, <3>2 DEF ExtendNames, NamesFlushed, NamesStep
  <2>3. CASE DS # "two_ttl"
    BY <1>6, <2>1, <2>3 DEF NextCycle, NamesStep, NamesAlone
  <2> QED
    BY <2>2, <2>3
<1>7. CASE UNCHANGED <<vars, twoVars>>
  BY <1>7 DEF vars, twoVars, nameVars, NamesStep, NamesAlone
<1> QED
  BY <1>1, <1>2, <1>3, <1>4, <1>5, <1>6, <1>7 DEF TwoNext

-----------------------------------------------------------------------------
(***************************************************************************)
(* The steps of the node preserve the rest of the invariant.               *)
(***************************************************************************)

LEMMA Initially == TwoInit => IInv
<1> SUFFICES ASSUME TwoInit PROVE IInv
  OBVIOUS
<1> USE TtlAssumption, TwoTtlAssumption DEF TwoInit
<1>1. StoreInv
  BY StoreInitially
<1>2. TwoTypeOK
  BY <1>1 DEF StoreInv, TwoTypeOK
<1>3. NamesPresent = {}
  BY DEF NamesPresent
<1> QED
  BY <1>1, <1>2, <1>3, FS_EmptySet
  DEF IInv, NameAvgKnown, NamesInTime, NamesSized, NamesEmpty

LEMMA NameAvgKnownNext ==
  ASSUME IInv, [TwoNext]_<<vars, twoVars>>
  PROVE  NameAvgKnown'
<1> USE DEF NameAvgKnown
<1>0. NameAvgKnown
  BY DEF IInv
<1>1. ASSUME NEW c \in Chunk, Interest(c) PROVE NameAvgKnown'
  <2>1. MeasureNames \/ name_avg' = name_avg
    BY <1>1 DEF Interest, NameToCache, NameFound, NameNotFound, nameAvg, nameVars
  <2> QED
    BY <1>0, <2>1 DEF MeasureNames
<1> QED
  BY <1>0, <1>1
  DEF TwoNext, Data, TimePasses, Check, NextCycle, nameAvg, nameVars, twoVars

\* The names have eviction times or none, and a time to live.
NamesTyped ==
  /\ names \in [Chunk -> Nat \cup {Absent}]
  /\ name_size \in Nat
  /\ tc_name_node \in (1 .. MaxTc) \cup {Infinite}

LEMMA NamesTypedNext ==
  ASSUME IInv, NamesStep
  PROVE  NamesTyped'
<1> USE TtlAssumption, TwoTtlAssumption DEF NamesTyped
<1>0. NamesTyped /\ now \in Nat
  BY DEF IInv, TwoTypeOK, StoreInv, TypeOK
<1>1. ASSUME NEW c \in Chunk, NameUsed(c) PROVE NamesTyped'
  <2>1. tc_name_node \in Nat
    BY <1>0, <1>1 DEF NameUsed
  <2>2. now + tc_name_node \in Nat /\ name_size + 1 \in Nat
    BY <1>0, <2>1
  <2>3. name_size' \in Nat
    BY <1>0, <1>1, <2>2 DEF NameUsed
  <2> QED
    BY <1>0, <1>1, <2>2, <2>3 DEF NameUsed
<1>2. CASE NamesSwept
  <2> DEFINE gone == {c \in Chunk : NameExpired(c)}
  <2>1. gone \in SUBSET NamesPresent
    BY DEF NamesPresent, NameExpired
  <2>2. Cardinality(gone) \in Nat
    BY <2>1, FS_Subset, FS_CardinalityType DEF IInv, NamesSized
  <2>3. name_size' = IF name_size > Cardinality(gone) THEN name_size - Cardinality(gone) ELSE 0
    BY <1>2 DEF NamesSwept, CheckNames
  <2>4. name_size' \in Nat
    BY <1>0, <2>2, <2>3
  <2>5. names' = [c \in Chunk |-> IF c \in gone THEN Absent ELSE names[c]]
    BY <1>2 DEF NamesSwept, CheckNames
  <2> HIDE DEF gone
  <2>6. names' \in [Chunk -> Nat \cup {Absent}]
    BY <1>0, <2>5
  <2> QED
    BY <1>0, <1>2, <2>4, <2>6 DEF NamesSwept
<1> QED
  BY <1>0, <1>1, <1>2
  DEF NamesStep, NamesAlone, NameRefused, NamesAge, NamesUnchecked, NamesFlushed, nameTable

LEMMA CacheableNext ==
  ASSUME IInv, [TwoNext]_<<vars, twoVars>>
  PROVE  cacheable' \subseteq missed'
<1>0. cacheable \subseteq missed
  BY DEF IInv, TwoTypeOK
<1>1. ASSUME NEW c \in Chunk, Interest(c) PROVE cacheable' \subseteq missed'
  <2>1. CASE LookupHit(c) /\ UNCHANGED cacheable
    BY <1>0, <2>1 DEF LookupHit
  <2>2. CASE ~(LookupHit(c) /\ UNCHANGED cacheable)
    <3>1. missed' = missed \cup {c}
      BY <1>1, <2>2 DEF Interest, LookupAbsent, LookupExpired
    <3>2. cacheable' \subseteq cacheable \cup {c}
      BY <1>1, <2>2 DEF Interest
    <3> QED
      BY <1>0, <3>1, <3>2
  <2> QED
    BY <2>1, <2>2
<1>2. ASSUME NEW c \in Chunk, Data(c) PROVE cacheable' \subseteq missed'
  BY <1>0, <1>2 DEF Data, Store, NotStored
<1>3. ASSUME UNCHANGED <<cacheable, missed>> PROVE cacheable' \subseteq missed'
  BY <1>0, <1>3
<1>4. \/ \E c \in Chunk : Interest(c) \/ Data(c)
      \/ UNCHANGED <<cacheable, missed>>
  BY DEF TwoNext, TimePasses, Tick, Check, TtlCheck, Stabilized, NextCycle, ExtendSim,
         vars, twoVars
<1> QED
  BY <1>1, <1>2, <1>3, <1>4

LEMMA NamesInTimeNext ==
  ASSUME IInv, NamesStep
  PROVE  NamesInTime'
<1> USE TtlAssumption, TwoTtlAssumption DEF NamesInTime
<1>0. /\ NamesTyped /\ NamesInTime
      /\ now \in Nat /\ next_check \in Nat /\ next_check <= now + CheckPeriod
  BY DEF IInv, TwoTypeOK, NamesTyped, StoreInv, TypeOK, InTime
<1>1. ASSUME NEW c \in Chunk, NameUsed(c) PROVE NamesInTime'
  <2>1. tc_name_node \in Nat
    BY <1>0, <1>1 DEF NameUsed, NamesTyped
  <2>2. (now + tc_name_node) + CheckPeriod >= next_check
    BY <1>0, <2>1
  <2> QED
    BY <1>0, <1>1, <2>2 DEF NameUsed, NamesTyped
<1>2. CASE NamesSwept
  <2>1. ASSUME NEW c \in Chunk, names'[c] # Absent
        PROVE  names'[c] + CheckPeriod >= next_check'
    <3>1. names[c] # Absent /\ ~NameExpired(c) /\ names'[c] = names[c]
      BY <1>2, <2>1 DEF NamesSwept, CheckNames
    <3>2. names[c] \in Nat /\ names[c] >= now
      BY <1>0, <3>1 DEF NameExpired, NamesTyped
    <3> QED
      BY <1>0, <1>2, <3>1, <3>2 DEF NamesSwept
  <2> QED
    BY <2>1
<1>3. CASE NamesUnchecked
  <2>1. \A c \in Chunk : names'[c] = Absent
    BY <1>3 DEF NamesUnchecked, nameTable, IInv, NamesEmpty
  <2> QED
    BY <2>1
<1>4. CASE NamesFlushed
  BY <1>4 DEF NamesFlushed
<1> QED
  BY <1>0, <1>1, <1>2, <1>3, <1>4
  DEF NamesStep, NamesAlone, NameRefused, NamesAge, nameTable

LEMMA NamesSizedNext ==
  ASSUME IInv, NamesStep
  PROVE  NamesSized'
<1> USE TtlAssumption, TwoTtlAssumption DEF NamesSized
<1>0. NamesTyped /\ NamesSized /\ now \in Nat
  BY DEF IInv, TwoTypeOK, NamesTyped, StoreInv, TypeOK
<1>1. ASSUME NEW c \in Chunk, NameUsed(c) PROVE NamesSized'
  <2>1. now + tc_name_node # Absent
    BY <1>0, <1>1 DEF NameUsed, NamesTyped
  <2>2. names' = [names EXCEPT ![c] = now + tc_name_node]
    BY <1>1 DEF NameUsed
  <2>3. NamesPresent' = NamesPresent \cup {c}
    BY <1>0, <2>1, <2>2 DEF NamesPresent, NamesTyped
  <2>4. /\ IsFiniteSet(NamesPresent')
        /\ Cardinality(NamesPresent') = IF c \in NamesPresent
                                        THEN Cardinality(NamesPresent)
                                        ELSE Cardinality(NamesPresent) + 1
    BY <1>0, <2>3, FS_AddElement
  <2>5. CASE c \in NamesPresent
    <3>1. name_size > 0
      <4>1. Cardinality(NamesPresent) # 0
        BY <1>0, <2>5, FS_EmptySet
      <4> QED
        BY <1>0, <4>1 DEF NamesTyped
    <3>2. name_size' = name_size
      BY <1>1, <2>5, <3>1 DEF NameUsed, NameThere, NamesPresent
    <3> QED
      BY <1>0, <2>4, <2>5, <3>2
  <2>6. CASE c \notin NamesPresent
    <3>1. name_size' = name_size + 1
      BY <1>1, <2>6 DEF NameUsed, NameThere, NameExpired, NamesPresent
    <3> QED
      BY <1>0, <2>4, <2>6, <3>1
  <2> QED
    BY <2>5, <2>6
<1>2. CASE NamesSwept
  <2> DEFINE gone == {c \in Chunk : NameExpired(c)}
  <2>1. gone \in SUBSET NamesPresent
    BY DEF NamesPresent, NameExpired
  <2>2. /\ IsFiniteSet(gone) /\ Cardinality(gone) <= Cardinality(NamesPresent)
        /\ Cardinality(gone) \in Nat
    BY <1>0, <2>1, FS_Subset, FS_CardinalityType
  <2>3. name_size' = IF name_size > Cardinality(gone) THEN name_size - Cardinality(gone) ELSE 0
    BY <1>2 DEF NamesSwept, CheckNames
  <2>4. NamesPresent' = NamesPresent \ gone
    BY <1>2 DEF NamesSwept, CheckNames, NamesPresent
  <2> HIDE DEF gone
  <2>5. NamesPresent \cap gone = gone
    BY <2>1
  <2>6. /\ IsFiniteSet(NamesPresent')
        /\ Cardinality(NamesPresent') = Cardinality(NamesPresent) - Cardinality(gone)
    BY <1>0, <2>4, <2>5, FS_Difference
  <2> QED
    BY <1>0, <2>2, <2>3, <2>6 DEF NamesTyped
<1>3. CASE NamesFlushed
  <2>1. NamesPresent' = {}
    BY <1>3 DEF NamesFlushed, NamesPresent
  <2> QED
    BY <1>3, <2>1, FS_EmptySet DEF NamesFlushed
<1>4. CASE UNCHANGED nameTable
  <2>1. NamesPresent' = NamesPresent
    BY <1>4 DEF nameTable, NamesPresent
  <2> QED
    BY <1>0, <1>4, <2>1 DEF nameTable
<1> QED
  BY <1>1, <1>2, <1>3, <1>4
  DEF NamesStep, NamesAlone, NameRefused, NamesAge, NamesUnchecked

LEMMA NamesEmptyNext ==
  ASSUME IInv, NamesStep
  PROVE  NamesEmpty'
<1> USE DEF NamesEmpty
<1>0. NamesEmpty
  BY DEF IInv
<1>1. CASE NamesSwept
  BY <1>0, <1>1 DEF NamesSwept, CheckNames
<1> QED
  BY <1>0, <1>1
  DEF NamesStep, NamesAlone, NameUsed, NameRefused, NamesAge, NamesUnchecked, NamesFlushed,
      nameTable

LEMMA Consecution == IInv /\ [TwoNext]_<<vars, twoVars>> => IInv'
<1> SUFFICES ASSUME IInv, [TwoNext]_<<vars, twoVars>> PROVE IInv'
  OBVIOUS
<1>1. StoreInv'
  BY StepsOfTheStore, StoreInductive DEF IInv
<1>2. NamesStep
  BY NamesSteps
<1>3. NamesTyped'
  BY <1>2, NamesTypedNext
<1>4. TwoTypeOK'
  BY <1>1, <1>3, CacheableNext DEF StoreInv, TwoTypeOK, NamesTyped
<1> QED
  BY <1>1, <1>2, <1>4, NameAvgKnownNext, NamesInTimeNext, NamesSizedNext, NamesEmptyNext
  DEF IInv

\* In every state the node may reach, the tables are swept up to the next check,
\* counted exactly, and the average of the contents is bounded.
THEOREM Inductive == TwoSpec => []IInv
<1>1. TwoInit => IInv
  BY Initially
<1>2. IInv /\ [TwoNext]_<<vars, twoVars>> => IInv'
  BY Consecution
<1> QED
  BY <1>1, <1>2, PTL DEF TwoSpec

\* The counters of both tables are their sizes, for any number of chunks, and
\* data_store never meets a chunk that is in the table (TtlCache.SizesAreExact).
THEOREM SizesAreExactHolds == TwoSpec => []SizesAreExact
<1>1. IInv => SizesAreExact
  BY DEF IInv, StoreInv, Sized, NamesSized, NamesPresent, SizesAreExact
<1> QED
  BY <1>1, Inductive, PTL

\* No dead entry outlives a period of the check, whatever the period and the
\* times to live are.
THEOREM BothSweptInTimeHolds == TwoSpec => []BothSweptInTime
<1>1. IInv => BothSweptInTime
  <2> SUFFICES ASSUME IInv PROVE BothSweptInTime
    OBVIOUS
  <2>1. SweptInTime
    BY InTimeIsSwept DEF IInv, StoreInv
  <2>2. ASSUME NEW c \in Chunk, names[c] # Absent
        PROVE  names[c] + CheckPeriod >= now
    <3>1. names[c] \in Nat /\ names[c] + CheckPeriod >= next_check
      BY <2>2 DEF IInv, TwoTypeOK, NamesInTime
    <3>2. now \in Nat /\ next_check \in Nat /\ now <= next_check
      BY DEF IInv, StoreInv, TypeOK, InTime
    <3> QED
      BY <3>1, <3>2, TtlAssumption
  <2> QED
    BY <2>1, <2>2 DEF BothSweptInTime
<1> QED
  BY <1>1, Inductive, PTL

\* The average of the size is never above the largest size, through lookups,
\* corrections and cycles.
THEOREM AverageIsBoundedHolds == TwoSpec => []AverageIsBounded
<1>1. IInv => AverageIsBounded
  BY DEF IInv, StoreInv, Averaged
<1> QED
  BY <1>1, Inductive, PTL

\* The content store, with its lazy sweeps, behaves like a store that forgets a
\* chunk the instant it dies.
THEOREM ImplementsContentsHolds == TwoSpec => ImplementsContents
<1>1. TwoInit => Contents!Init
  BY TtlAssumption DEF TwoInit, Init, Contents!Init, Expired, Never
<1>2. IInv /\ [TwoNext]_<<vars, twoVars>> => [Contents!Next]_Contents!vars
  BY StepsOfTheStore, ContentsSteps DEF IInv, StoreInv
<1> QED
  BY <1>1, <1>2, Inductive, PTL DEF TwoSpec, ImplementsContents, Contents!Spec

-----------------------------------------------------------------------------
(***************************************************************************)
(* The name cache implements TtlContents.                                  *)
(***************************************************************************)

NameTc == IF tc_name_node = Infinite THEN 0 ELSE tc_name_node

\* What Names knows as the last uses of the names.
NamesUsed == [c \in Chunk |-> IF names[c] = Absent \/ NameExpired(c)
                              THEN Never ELSE names[c] - tc_name_node]

LEMMA NamesSame ==
  ASSUME UNCHANGED <<names, tc_name_node, now>>
  PROVE  NamesUsed' = NamesUsed /\ NameTc' = NameTc
BY DEF NamesUsed, NameTc, NameExpired

LEMMA NamesRefine ==
  ASSUME IInv, NamesStep
  PROVE  [Names!Next]_Names!vars
<1> USE TtlAssumption, TwoTtlAssumption
<1>a. UNCHANGED <<now, NameTc, NamesUsed, verdict>> => UNCHANGED Names!vars
  BY DEF Names!vars, NamesUsed, NameTc
<1>b. NamesTyped /\ now \in Nat /\ NameTc \in Nat
  BY DEF IInv, TwoTypeOK, NamesTyped, StoreInv, TypeOK, NameTc
<1>1. CASE NamesAlone
  BY <1>1, <1>a, NamesSame DEF NamesAlone, nameTable
<1>2. ASSUME NEW c \in Chunk, NameUsed(c) PROVE [Names!Next]_Names!vars
  <2>1. /\ tc_name_node \in Nat /\ NameTc = tc_name_node /\ NameTc' = NameTc
        /\ names' = [names EXCEPT ![c] = now + tc_name_node]
        /\ UNCHANGED <<now, tc_name_node>>
    BY <1>2, <1>b DEF NameUsed, NamesTyped, NameTc
  <2>2. /\ now + tc_name_node # Absent /\ (now + tc_name_node) - tc_name_node = now
        /\ ~(now > now + tc_name_node)
    BY <1>b, <2>1
  <2>3. NamesUsed'[c] = now
    BY <1>b, <2>1, <2>2 DEF NamesUsed, NameExpired, NamesTyped
  <2>4. \A d \in Chunk \ {c} : NamesUsed'[d] = NamesUsed[d]
    BY <1>b, <2>1 DEF NamesUsed, NameExpired, NamesTyped
  <2>5. NamesUsed' = [NamesUsed EXCEPT ![c] = now]
    BY <2>3, <2>4 DEF NamesUsed
  <2>6. NameThere(c) <=> NamesUsed[c] # Never
    BY <1>b, <2>1 DEF NamesUsed, NamesTyped, NameThere, Never
  <2>7. CASE NameThere(c)
    <3>1. Names!Request(c)
      BY <1>2, <2>1, <2>5, <2>6, <2>7
      DEF NameUsed, NameThere, Names!Request, NamesUsed, NameTc
    <3> QED
      BY <3>1 DEF Names!Next
  <2>8. CASE ~NameThere(c)
    <3>1. Names!RequestAndPut(c)
      BY <1>2, <2>1, <2>5, <2>6, <2>8
      DEF NameUsed, NameThere, Names!RequestAndPut, NamesUsed, NameTc
    <3> QED
      BY <3>1 DEF Names!Next
  <2> QED
    BY <2>7, <2>8
<1>3. ASSUME NEW c \in Chunk, NameRefused(c) PROVE [Names!Next]_Names!vars
  <2>1. NamesUsed' = NamesUsed /\ NameTc' = NameTc /\ now' = now /\ verdict' = FALSE
    BY <1>3, NamesSame DEF NameRefused, nameTable
  <2>2. NamesUsed[c] = Never
    BY <1>3 DEF NameRefused, NameThere, NamesUsed
  <2>3. Names!Request(c)
    BY <2>1, <2>2 DEF Names!Request, NamesUsed, NameTc
  <2> QED
    BY <2>3 DEF Names!Next
<1>4. CASE NamesAge
  <2>1. now' = now + 1 /\ UNCHANGED <<names, tc_name_node, verdict>> /\ NameTc' = NameTc
    BY <1>4 DEF NamesAge, nameTable, NameTc
  <2>2. ASSUME NEW c \in Chunk
        PROVE  NamesUsed'[c] = IF NamesUsed[c] # Never /\ now' > NamesUsed[c] + NameTc
                               THEN Never ELSE NamesUsed[c]
    <3>1. CASE names[c] = Absent
      BY <2>1, <3>1 DEF NamesUsed
    <3>2. CASE names[c] # Absent
      <4>0. NameTc = tc_name_node
        BY <3>2 DEF IInv, NamesEmpty, NameTc
      <4>1. names[c] \in Nat /\ (names[c] - NameTc) + NameTc = names[c]
        BY <1>b, <3>2 DEF NamesTyped
      <4>2. names[c] - NameTc # Never
        BY <1>b, <4>1 DEF Never
      <4> QED
        BY <1>b, <2>1, <3>2, <4>0, <4>1, <4>2 DEF NamesUsed, NameExpired
    <3> QED
      BY <3>1, <3>2
  <2>3. NamesUsed' = [c \in Chunk |-> IF NamesUsed[c] # Never /\ now' > NamesUsed[c] + NameTc
                                      THEN Never ELSE NamesUsed[c]]
    BY <2>2 DEF NamesUsed
  <2>4. verdict' = verdict
    BY <2>1
  <2>5. Names!Tick
    BY <2>1, <2>3, <2>4, Zenon DEF Names!Tick, NamesUsed, NameTc
  <2> QED
    BY <2>5 DEF Names!Next
<1>5. CASE NamesSwept
  <2>1. UNCHANGED <<tc_name_node, verdict, now>> /\ NameTc' = NameTc
    BY <1>5 DEF NamesSwept, NameTc
  <2>2. NamesUsed' = NamesUsed
    BY <1>5, <2>1 DEF NamesSwept, CheckNames, NamesUsed, NameExpired
  <2> QED
    BY <1>a, <2>1, <2>2
<1>6. CASE NamesUnchecked
  BY <1>6, <1>a, NamesSame DEF NamesUnchecked, nameTable
<1>7. CASE NamesFlushed
  <2>1. NameTc' \in Nat
    BY <1>7 DEF NamesFlushed, NameTc
  <2>2. NamesUsed' = [c \in Chunk |-> Never]
    BY <1>7 DEF NamesFlushed, NamesUsed
  <2>3. Names!Restart
    BY <1>7, <2>1, <2>2 DEF NamesFlushed, Names!Restart, NamesUsed, NameTc
  <2> QED
    BY <2>3 DEF Names!Next
<1> QED
  BY <1>1, <1>2, <1>3, <1>4, <1>5, <1>6, <1>7 DEF NamesStep

\* The verdict on an Interest is whether its name was asked for within the time
\* to live of the names, renewals, sweeps and infinite times to live included.
THEOREM ImplementsNamesHolds == TwoSpec => ImplementsNames
<1>1. TwoInit => Names!Init
  <2> SUFFICES ASSUME TwoInit PROVE Names!Init
    OBVIOUS
  <2>1. tc_name_node # Infinite /\ tc_name_node \in Nat
    BY TwoTtlAssumption, TtlAssumption DEF TwoInit
  <2> QED
    BY <2>1 DEF TwoInit, Init, Names!Init, NameExpired
<1>2. IInv /\ [TwoNext]_<<vars, twoVars>> => [Names!Next]_Names!vars
  BY NamesSteps, NamesRefine
<1> QED
  BY <1>1, <1>2, Inductive, PTL DEF TwoSpec, ImplementsNames, Names!Spec

=============================================================================
