------------------------------- MODULE TwoTtl -------------------------------
(***************************************************************************)
(* The two_ttl decision policy (include/two_ttl_policy.h) and its name     *)
(* cache (src/node/cache/ttl_name_cache.cc), at work beside the TTL        *)
(* content store of TtlCache: every Interest is first shown to the name    *)
(* cache, whose verdict the PIT entry keeps for the Data packet.  With     *)
(* another policy the module is TtlCache.                                  *)
(*                                                                         *)
(* Of the online average of the names matters here only whether it was     *)
(* ever set and is above 0; the test for a gap of a tenth of the target is *)
(* an arbitrary choice.  An average of 0 makes an infinite time to live,   *)
(* which the content store catches and the name cache does not: the next   *)
(* name it stores ends the simulation, infinity being no simulation time.  *)
(***************************************************************************)
EXTENDS TtlCache

CONSTANTS
  TcNameInit,  \* the Tc of the names read from the file
  Infinite,    \* the time to live that comes of an average of 0
  MaxTwoTime   \* bound: last tick with the policy two_ttl

ASSUME TwoTtlAssumption ==
  TcNameInit \in 1 .. MaxTc /\ Infinite \notin Int /\ MaxTwoTime \in Nat

VARIABLES
  DS,            \* the decision policy: "two_ttl" or another
  names,         \* name cache: chunk -> eviction time, or Absent
  name_size,     \* ttl_name_cache::actual_size
  tc_name_node,
  name_avg,      \* ttl_name_cache::avg_as_curr: "unset", "zero" or "positive"
  name_area,     \* whether avg_as_prev is above 0
  name_measured, \* the average was computed at this very instant
  verdict,       \* the last answer of name_to_cache
  cacheable,     \* the chunks of missed whose PIT entry says cacheable
  aborted        \* infinity was added to simTime()

nameTable == <<names, name_size>>
nameAvg   == <<name_avg, name_area, name_measured>>
nameVars  == <<nameTable, nameAvg, tc_name_node, verdict, aborted>>
twoVars   == <<DS, nameVars, cacheable>>

TwoInit ==
  /\ Init
  /\ DS \in {"lce", "two_ttl"}
  /\ names = [c \in Chunk |-> Absent] /\ name_size = 0
  /\ tc_name_node = TcNameInit
  /\ name_avg = "unset" /\ name_area = FALSE /\ name_measured = TRUE
  /\ verdict = FALSE
  /\ cacheable = {}
  /\ aborted = FALSE

-----------------------------------------------------------------------------
(***************************************************************************)
(* The name cache.                                                         *)
(***************************************************************************)

\* Mutant of NameExpired: a name dies one instant early.
NameExpiredEarly(c) == names[c] # Absent /\ now >= names[c]

NameExpired(c) == names[c] # Absent /\ now > names[c]

\* The average of the names is computed again, by one failed lookup in ten.
MeasureNames ==
  LET positive == name_area \/ (name_size > 0 /\ ~name_measured) IN
  /\ now > time_extend
  /\ name_avg' = IF positive THEN "positive" ELSE "zero"
  /\ name_area' = positive
  /\ name_measured' = TRUE

\* store_name_ttl of a name that data_lookup has not found, or has just erased.
StoreName(c) ==
  IF tc_name_node = Infinite
  THEN aborted' = TRUE /\ UNCHANGED nameTable
  ELSE /\ names' = [names EXCEPT ![c] = now + tc_name_node]
       /\ name_size' = IF NameExpired(c) /\ name_size > 0
                       THEN name_size ELSE name_size + 1
       /\ UNCHANGED aborted

\* name_to_cache: a name that is there is renewed, another is stored.
NameFound(c) ==
  /\ names[c] # Absent /\ ~NameExpired(c)
  /\ names' = [names EXCEPT ![c] = now + tc_name_node]
  /\ verdict' = TRUE
  /\ UNCHANGED <<name_size, nameAvg, aborted>>

NameNotFound(c) ==
  /\ names[c] = Absent \/ NameExpired(c)
  /\ \/ names[c] = Absent /\ MeasureNames
     \/ UNCHANGED nameAvg
  /\ StoreName(c)
  /\ verdict' = FALSE

NameToCache(c) ==
  IF DS = "two_ttl"
  THEN (NameFound(c) \/ NameNotFound(c)) /\ UNCHANGED tc_name_node
  ELSE UNCHANGED nameVars

-----------------------------------------------------------------------------
(***************************************************************************)
(* The two caches in the node.                                             *)
(***************************************************************************)

\* handle_interest: the name cache, then the content store.  A miss makes the
\* PIT entry, or makes it anew; otherwise the entry keeps the verdict it has.
Interest(c) ==
  /\ NameToCache(c)
  /\ \/ /\ LookupAbsent(c) \/ LookupExpired(c)
        /\ \E renew \in BOOLEAN :
             cacheable' = IF ~renew /\ c \in missed THEN cacheable
                          ELSE IF DS # "two_ttl" \/ verdict' THEN cacheable \cup {c}
                          ELSE cacheable \ {c}
     \/ LookupHit(c) /\ UNCHANGED cacheable
  /\ UNCHANGED DS

\* handle_data: the chunk is stored only if the entry says cacheable.
Data(c) ==
  /\ \/ c \in cacheable /\ Store(c)
     \/ NotStored(c)
  /\ cacheable' = cacheable \ {c}
  /\ UNCHANGED <<DS, nameVars>>

TimePasses ==
  /\ DS = "two_ttl" => now < MaxTwoTime
  /\ Tick
  /\ name_measured' = FALSE
  /\ UNCHANGED <<DS, nameTable, name_avg, name_area, tc_name_node, verdict,
                 cacheable, aborted>>

\* Mutant of CheckNames: the names that are swept are not counted off.
CheckNamesUncounted ==
  /\ names' = [c \in Chunk |-> IF NameExpired(c) THEN Absent ELSE names[c]]
  /\ UNCHANGED name_size

\* check_name_cache: the names are swept with the contents (TWO_TTL_CHECK).
CheckNames ==
  LET gone == {c \in Chunk : NameExpired(c)} IN
  /\ names' = [c \in Chunk |-> IF c \in gone THEN Absent ELSE names[c]]
  /\ name_size' = IF name_size > Cardinality(gone)
                  THEN name_size - Cardinality(gone) ELSE 0

Check ==
  /\ TtlCheck
  /\ IF DS = "two_ttl" THEN CheckNames ELSE UNCHANGED nameTable
  /\ UNCHANGED <<DS, nameAvg, tc_name_node, verdict, cacheable, aborted>>

\* Whether the time to live of the names is corrected is up to the gap between
\* the average and the target, which an average of 0 always is away from.
NewNameTc ==
  CASE name_avg = "positive" -> 1 .. MaxTc
    [] name_avg = "zero"     -> {Infinite}
    [] name_avg = "unset"    -> (1 .. MaxTc) \cup {Infinite}

\* ttl_name_cache::extend_sim
ExtendNames ==
  /\ tc_name_node' \in NewNameTc
  /\ name_area' = FALSE /\ name_measured' = TRUE
  /\ names' = [c \in Chunk |-> Absent] /\ name_size' = 0

\* END, another cycle: every node corrects its content store, then its names.
\* Bound: with two_ttl only one more cycle follows the first.
NextCycle ==
  /\ DS = "two_ttl" => time_extend = 0 /\ now > 0
  /\ ExtendSim
  /\ IF DS = "two_ttl" THEN ExtendNames
     ELSE UNCHANGED <<tc_name_node, name_area, name_measured, nameTable>>
  /\ UNCHANGED <<DS, name_avg, verdict, cacheable, aborted>>

TwoNext ==
  /\ ~aborted
  /\ \/ \E c \in Chunk : Interest(c) \/ Data(c)
     \/ TimePasses
     \/ Check
     \/ Stabilized /\ UNCHANGED twoVars
     \/ NextCycle

TwoSpec == TwoInit /\ [][TwoNext]_<<vars, twoVars>>

-----------------------------------------------------------------------------
(***************************************************************************)
(* Properties.                                                             *)
(***************************************************************************)
TwoTypeOK ==
  /\ TypeOK
  /\ names \in [Chunk -> Nat \cup {Absent}]
  /\ name_size \in Nat
  /\ tc_name_node \in (1 .. MaxTc) \cup {Infinite}
  /\ cacheable \in SUBSET missed

\* Both counters are the sizes of their tables, although several places lower
\* them under a guard that could hide an error; and what waits to be stored is in
\* no table, not even expired, so data_store never ignores a new chunk.
SizesAreExact ==
  /\ TwoTypeOK
  /\ actual_size = Cardinality(Present)
  /\ name_size = Cardinality({c \in Chunk : names[c] # Absent})
  /\ \A c \in missed : cache[c] = Absent

\* Neither table keeps a dead entry for longer than a period of the check, which
\* one message does for both.
BothSweptInTime ==
  /\ SweptInTime
  /\ \A c \in Chunk : names[c] # Absent => names[c] + CheckPeriod >= now

\* The name cache behaves like one that forgets a name the instant it expires: the
\* verdict is true exactly when the chunk was asked for within the last Tc of the
\* names, in the same cycle.
Names == INSTANCE TtlContents WITH
  tc    <- IF tc_name_node = Infinite THEN 0 ELSE tc_name_node,
  found <- verdict,
  last  <- [c \in Chunk |-> IF names[c] = Absent \/ NameExpired(c)
                            THEN Never ELSE names[c] - tc_name_node]
ImplementsNames == Names!Spec
=============================================================================
