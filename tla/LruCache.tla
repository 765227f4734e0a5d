------------------------------ MODULE LruCache ------------------------------
(***************************************************************************)
(* The LRU store (src/node/cache/lru_cache.cc), which a node uses as its   *)
(* content store or, with the two_lru decision policy, as its name cache:  *)
(* a map into a doubly linked list, and the monitoring of how long chunks  *)
(* stay (Tc), of which only matters here which chunks have a timer.        *)
(*                                                                         *)
(* An element of the list is named by its chunk: data_store never makes a  *)
(* second one for a chunk of the map.  A pointer is a chunk or Null.  The  *)
(* flag stability is set by the statistics module at the steady state, and *)
(* by nothing before that: its first value is arbitrary.                   *)
(***************************************************************************)
EXTENDS Integers, FiniteSets

CONSTANTS
  Chunk,  \* chunk names
  Null,   \* the null pointer
  Sizes   \* values of the parameter C; a store of size 0 never calls data_store

ASSUME LruAssumption ==
  /\ Null \notin Chunk
  /\ IsFiniteSet(Sizes) /\ Sizes # {} /\ Sizes \subseteq Nat \ {0}

VARIABLES
  cache_size,          \* get_size(), fixed by initialize or set_size
  cache,               \* the keys of the map
  older, newer,        \* the fields of the elements
  lru, mru,            \* both ends of the list
  actual_size,
  stability,
  monitored_contents,  \* the keys of the timers
  exited,              \* exit(1) was called
  answer               \* the last data_lookup: the chunk, and whether it was found

listVars    == <<cache, older, newer, lru, mru, actual_size>>
monitorVars == <<monitored_contents, exited>>
vars        == <<cache_size, listVars, monitorVars, stability, answer>>

Nowhere  == [c \in Chunk |-> Null]
NoLookup == [chunk |-> Null, found |-> FALSE]

Init ==
  /\ cache_size \in Sizes
  /\ cache = {} /\ older = Nowhere /\ newer = Nowhere
  /\ lru = Null /\ mru = Null /\ actual_size = 0
  /\ stability \in BOOLEAN
  /\ monitored_contents = {} /\ exited = FALSE
  /\ answer = NoLookup

-----------------------------------------------------------------------------
\* Mutant of MoveToFront: the LRU that is moved stays the LRU.
MoveToFrontKeepsLru(c) ==
  LET o == older[c]
      n == newer[c]
  IN
  /\ older' = [older EXCEPT ![n] = o, ![c] = mru]
  /\ newer' = [d \in Chunk |-> CASE d = c   -> Null
                                 [] d = mru -> c
                                 [] d = o   -> n
                                 [] OTHER   -> newer[d]]
  /\ mru' = c
  /\ UNCHANGED lru

\* The element of c, which is not the MRU, is unlinked and put in front.
MoveToFront(c) ==
  LET o == older[c]
      n == newer[c]
  IN
  /\ older' = [older EXCEPT ![n] = o, ![c] = mru]
  /\ newer' = [d \in Chunk |-> CASE d = c   -> Null
                                 [] d = mru -> c
                                 [] d = o   -> n
                                 [] OTHER   -> newer[d]]
  /\ lru' = IF o = Null THEN n ELSE lru
  /\ mru' = c

\* Mutant of Renew: the chunk keeps its place.
RenewInPlace(c) == UNCHANGED <<listVars, monitorVars>>

\* data_lookup of a chunk of the map.  The MRU stays where it is, and its timer
\* is left alone.
Renew(c) ==
  /\ IF newer[c] = Null
     THEN UNCHANGED <<older, newer, lru, mru, monitored_contents>>
     ELSE /\ MoveToFront(c)
          /\ monitored_contents' = IF stability
                                   THEN monitored_contents \cup {c}
                                   ELSE monitored_contents
  /\ UNCHANGED <<cache, actual_size, exited>>

Lookup(c) ==
  /\ answer' = [chunk |-> c, found |-> c \in cache]
  /\ IF c \in cache
     THEN Renew(c)
     ELSE UNCHANGED <<listVars, monitorVars>>
  /\ UNCHANGED stability

\* Mutant of Monitor: the timer of the evicted chunk is not removed.
MonitorKeepsEvicted(c, evicted) ==
  IF stability
  THEN /\ monitored_contents' = monitored_contents \cup {c}
       /\ exited' = (c \in monitored_contents)
  ELSE UNCHANGED monitorVars

\* The timers: the one of the evicted chunk is read and removed, the one of the
\* new chunk is started.  A new chunk that has one already ends the program.
Monitor(c, evicted) ==
  IF stability
  THEN /\ monitored_contents' = (monitored_contents \ evicted) \cup {c}
       /\ exited' = (c \in monitored_contents)
  ELSE UNCHANGED monitorVars

\* data_store, the map is empty (the list need not be: flush leaves its ends).
StoreFirst(c) ==
  /\ actual_size = 0
  /\ cache' = cache \cup {c}
  /\ older' = [older EXCEPT ![c] = Null]
  /\ newer' = [newer EXCEPT ![c] = Null]
  /\ lru' = c /\ mru' = c
  /\ actual_size' = 1
  /\ Monitor(c, {})

\* data_store, there is room: the new element goes in front.
StoreInFront(c) ==
  /\ actual_size # 0 /\ actual_size # cache_size
  /\ cache' = cache \cup {c}
  /\ older' = [older EXCEPT ![c] = mru]
  /\ newer' = [newer EXCEPT ![mru] = c, ![c] = Null]
  /\ mru' = c
  /\ actual_size' = actual_size + 1
  /\ UNCHANGED lru
  /\ Monitor(c, {})

\* data_store, the store is full: the new element goes in front, then the LRU is
\* dropped, which is the one the new element was put in front of if the size is 1.
StoreAndEvict(c) ==
  LET linked == [newer EXCEPT ![mru] = c, ![c] = Null] IN
  /\ actual_size # 0 /\ actual_size = cache_size
  /\ cache' = (cache \ {lru}) \cup {c}
  /\ newer' = [linked EXCEPT ![lru] = Null]
  /\ lru' = linked[lru]
  /\ older' = [older EXCEPT ![c] = IF linked[lru] = c THEN Null ELSE mru,
                            ![linked[lru]] = Null]
  /\ mru' = c
  /\ UNCHANGED actual_size
  /\ Monitor(c, {lru})

Store(c) ==
  /\ IF c \in cache
     THEN Renew(c)
     ELSE StoreFirst(c) \/ StoreInFront(c) \/ StoreAndEvict(c)
  /\ UNCHANGED <<stability, answer>>

\* flush empties the map, so that no element can be reached by its chunk; lru and
\* mru are left pointing at the old ones.
Flush ==
  /\ cache' = {} /\ actual_size' = 0
  /\ older' = Nowhere /\ newer' = Nowhere
  /\ monitored_contents' = {}
  /\ UNCHANGED <<lru, mru, exited, stability, answer>>

\* statistics, at the steady state.
Stabilized ==
  /\ ~stability
  /\ stability' = TRUE
  /\ UNCHANGED <<listVars, monitorVars, answer>>

Next ==
  /\ ~exited
  /\ UNCHANGED cache_size
  /\ \/ \E c \in Chunk : Lookup(c) \/ Store(c)
     \/ Flush
     \/ Stabilized

Spec == Init /\ [][Next]_vars

-----------------------------------------------------------------------------
(***************************************************************************)
(* Properties.                                                             *)
(***************************************************************************)
Pointer == Chunk \cup {Null}

TypeOK ==
  /\ cache \in SUBSET Chunk
  /\ older \in [Chunk -> Pointer] /\ newer \in [Chunk -> Pointer]
  /\ lru \in Pointer /\ mru \in Pointer
  /\ cache_size \in Sizes
  /\ actual_size \in 0 .. cache_size
  /\ stability \in BOOLEAN
  /\ monitored_contents \in SUBSET Chunk
  /\ exited \in BOOLEAN
  /\ answer \in [chunk: Chunk, found: BOOLEAN] \cup {NoLookup}

\* The list and the map agree, and the list can be walked both ways: older and
\* newer are each other's inverse inside the store and only end at its ends.
ListIsSound ==
  /\ TypeOK
  /\ actual_size = Cardinality(cache)
  /\ cache # {} => lru \in cache /\ mru \in cache
  /\ \A c \in cache :
       /\ older[c] = Null <=> c = lru
       /\ newer[c] = Null <=> c = mru
       /\ c # lru => older[c] \in cache /\ newer[older[c]] = c
       /\ c # mru => newer[c] \in cache /\ older[newer[c]] = c

\* "The entry is present despite the previous miss event" never happens: only
\* chunks of the store are monitored, whenever stability became true.
NeverExits ==
  /\ ~exited
  /\ monitored_contents \subseteq cache

\* The list, walked from the MRU, is the order of an LRU cache.
Walk[k \in 0 .. cache_size] == IF k = 0 THEN mru
                         ELSE IF Walk[k - 1] = Null THEN Null ELSE older[Walk[k - 1]]
Recency == INSTANCE RecencyCache WITH
  size <- cache_size, order <- [k \in 1 .. actual_size |-> Walk[k - 1]]
ImplementsRecency == Recency!Spec
=============================================================================
