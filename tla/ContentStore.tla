---------------------------- MODULE ContentStore ----------------------------
(***************************************************************************)
(* The stores a node can be given besides the TTL cache, at work in the    *)
(* node: base_cache.cc with its derived classes fifo_cache.cc,             *)
(* random_cache.cc, two_cache.cc and lru_cache.cc, and the decision        *)
(* policies (include/*_policy.h).                                          *)
(*                                                                         *)
(* With RS = "lru_cache" the module is LruCache, driven by any sequence of *)
(* calls.  With another RS the content store is fed by the core layer: an  *)
(* Interest for a chunk it has not makes a PIT entry, the Data packet that *)
(* meets the entry offers the chunk to the store.  The LRU list of         *)
(* LruCache is then the name cache that the policy two_lru keeps, whose    *)
(* verdict on the Interest the PIT entry carries to the Data packet.       *)
(*                                                                         *)
(* A chunk goes to a full random_cache in place of any other.  two_cache   *)
(* draws two positions and takes the more popular content; as both may be  *)
(* the same, any chunk can go there too, at other odds.  A RS other than   *)
(* ttl_cache passes the stores but is refused by this version's statistics *)
(* module, so that nothing flushes them and they become stable never or at *)
(* any moment.                                                             *)
(***************************************************************************)
EXTENDS LruCache, Sequences, SequencesExt

CONSTANTS
  StoreSizes,  \* values of the parameter C of the content store
  MaxNames     \* bound: different chunks asked for at the node

ASSUME ContentStoreAssumption == StoreSizes \subseteq Nat /\ MaxNames \in Nat

VARIABLES
  RS, DS,     \* replacement strategy and decision policy
  C,          \* the size of the content store
  copies,     \* the map cache: chunk -> replicas (fifo), or 1 and 0 for presence
  deq,        \* the deque of the stored chunks
  timers,     \* the keys of monitored_contents (fifo)
  measuring,  \* the flag stability of the content store
  pending,    \* chunk -> PIT entry: "none", or whether it says cacheable
  asked       \* history: Interests received for a chunk, counted up to two

storeVars   == <<copies, deq, timers>>
contentVars == <<RS, DS, C, storeVars, measuring, pending, asked>>

Strategies == {"fifo_cache", "random_cache", "two_cache"}
Policies   == {"lce", "lcd", "fix", "prob_cache", "btw", "never", "two_lru"}

StoreInit ==
  /\ Init
  /\ RS \in Strategies \cup {"lru_cache"}
  /\ DS \in Policies
  /\ RS = "lru_cache" => DS = "lce"
  /\ C \in StoreSizes
  /\ RS = "lru_cache" => C = Max(StoreSizes)
  /\ RS # "lru_cache" /\ DS # "two_lru" => cache_size = Max(Sizes) /\ ~stability
  /\ copies = [c \in Chunk |-> 0] /\ deq = <<>> /\ timers = {}
  /\ measuring = FALSE
  /\ pending = [c \in Chunk |-> "none"]
  /\ asked = [c \in Chunk |-> 0]

-----------------------------------------------------------------------------
(***************************************************************************)
(* data_store of the three stores.                                         *)
(***************************************************************************)
Present == {c \in Chunk : copies[c] > 0}

\* fifo_cache::data_store: one more replica of the chunk at the back, its timer
\* started (exit(1) if it runs already), and one replica off the front if there
\* are too many, whose chunk is forgotten with its last replica.
FifoStore(c) ==
  LET longer  == Append(deq, c)
      more    == [copies EXCEPT ![c] = @ + 1]
      full    == Len(longer) > C
      less    == [more EXCEPT ![Head(longer)] = @ - 1]
      running == timers \cup {c}
  IN
  /\ copies' = IF full THEN less ELSE more
  /\ deq' = IF full THEN Tail(longer) ELSE longer
  /\ timers' = IF ~measuring THEN timers
               ELSE IF full /\ less[Head(longer)] = 0 THEN running \ {Head(longer)}
               ELSE running
  /\ exited' = (measuring /\ c \in timers)

\* random_cache::data_store: the chunk enters the map, then takes a position of
\* the full deque, whose chunk leaves the map (were it the same, it would leave).
RandomStore(c) ==
  /\ IF Len(deq) = C
     THEN \E pos \in DOMAIN deq :
            /\ deq' = [deq EXCEPT ![pos] = c]
            /\ copies' = [copies EXCEPT ![c] = 1, ![deq[pos]] = 0]
     ELSE deq' = Append(deq, c) /\ copies' = [copies EXCEPT ![c] = 1]
  /\ UNCHANGED <<timers, exited>>

\* two_cache::data_store: of two positions drawn, either may be taken.
TwoStore(c) ==
  /\ IF Len(deq) = C
     THEN \E pos1, pos2 \in DOMAIN deq : \E pos \in {pos1, pos2} :
            /\ deq' = [deq EXCEPT ![pos] = c]
            /\ copies' = [copies EXCEPT ![c] = 1, ![deq[pos]] = 0]
     ELSE deq' = Append(deq, c) /\ copies' = [copies EXCEPT ![c] = 1]
  /\ UNCHANGED <<timers, exited>>

DataStore(c) ==
  \/ RS = "fifo_cache" /\ FifoStore(c)
  \/ RS = "random_cache" /\ RandomStore(c)
  \/ RS = "two_cache" /\ TwoStore(c)

-----------------------------------------------------------------------------
(***************************************************************************)
(* The decision policies.                                                  *)
(***************************************************************************)

\* What data_to_cache may say of a Data packet.  LCD: it has made one hop since the
\* node that served it.
LCD(hops) == {hops = 1}

\* Fix: a draw is less than p, which cacheFill sets to 1 for a while.
Fix == BOOLEAN

\* prob_cache: a draw is less than a weight of the place on the path, made of the
\* capacities counted by the Interest and of the hops to and from the server; the
\* weight may exceed 1 and is 0 when the capacity is used up.
ProbCache == BOOLEAN

\* Betweenness: the packet carries the highest betweenness of the nodes its
\* Interest went through; is it the node's own?
Betweenness(carried, own) == {carried = own}

\* Always, Never, and two_lru, which has had its say on the Interest.
Verdicts(hops, carried, own) ==
  CASE DS \in {"lce", "two_lru"} -> {TRUE}
    [] DS = "never"              -> {FALSE}
    [] DS = "lcd"                -> LCD(hops)
    [] DS = "btw"                -> Betweenness(carried, own)
    [] DS = "fix"                -> Fix
    [] DS = "prob_cache"         -> ProbCache

\* base_cache::store: a store of size 0 and a policy that refuses discard.
Offer(c) ==
  \E hops, carried \in 1 .. 2 :
    \E yes \in Verdicts(hops, carried, 1) :
      IF C # 0 /\ yes THEN DataStore(c) ELSE UNCHANGED <<storeVars, exited>>

\* Mutant of Cacheable: a name the cache has not is cacheable.
CacheableAtFirst(c) == DS # "two_lru" \/ c \notin cache

\* The verdict of name_to_cache, before it changes the name cache.
Cacheable(c) == DS # "two_lru" \/ c \in cache

\* Two_Lru::name_to_cache: lookup_name, and on a miss store_name.  Its timers
\* would need nc_stable, which nothing sets.
NameToCache(c) ==
  IF DS # "two_lru" THEN UNCHANGED <<listVars, monitorVars, stability, answer>>
  ELSE IF c \in cache THEN Lookup(c)
  ELSE Store(c)

-----------------------------------------------------------------------------
(***************************************************************************)
(* The calls of the core layer.                                            *)
(***************************************************************************)

\* Mutant of ReceiveInterest: a chunk of the store is waited for all the same.
ReceiveInterestWaits(c) ==
  /\ \E flag \in BOOLEAN :
       pending' = [pending EXCEPT ![c] = IF flag \/ @ = "none"
                                         THEN IF Cacheable(c) THEN "yes" ELSE "no"
                                         ELSE @]
  /\ NameToCache(c)
  /\ asked' = [asked EXCEPT ![c] = IF @ < 2 THEN @ + 1 ELSE @]
  /\ UNCHANGED <<RS, DS, C, storeVars, measuring, cache_size>>

\* handle_interest: the name cache is asked first, then the store.  A miss makes
\* the PIT entry, or makes it anew if it is not valid any more; otherwise the
\* entry keeps the verdict of the Interest that made it.
ReceiveInterest(c) ==
  /\ \E renew \in BOOLEAN :
       pending' = IF c \in Present THEN pending
                  ELSE [pending EXCEPT ![c] = IF renew \/ @ = "none"
                                              THEN IF Cacheable(c) THEN "yes" ELSE "no"
                                              ELSE @]
  /\ NameToCache(c)
  /\ asked' = [asked EXCEPT ![c] = IF @ < 2 THEN @ + 1 ELSE @]
  /\ UNCHANGED <<RS, DS, C, storeVars, measuring, cache_size>>

\* handle_data of a chunk that is waited for: offered if the entry says so.
ReceiveData(c) ==
  /\ pending[c] # "none"
  /\ IF pending[c] = "yes" THEN Offer(c) ELSE UNCHANGED <<storeVars, exited>>
  /\ pending' = [pending EXCEPT ![c] = "none"]
  /\ UNCHANGED <<RS, DS, C, measuring, asked, cache_size, listVars,
                 monitored_contents, stability, answer>>

\* statistics, at the steady state: the timers of the content store run.
Measure ==
  /\ ~measuring
  /\ measuring' = TRUE
  /\ UNCHANGED <<RS, DS, C, storeVars, pending, asked, cache_size, listVars,
                 monitorVars, stability, answer>>

AtTheNode ==
  /\ RS # "lru_cache"
  /\ ~exited
  /\ \/ \E c \in Chunk :
          /\ Cardinality({d \in Chunk : asked[d] > 0} \cup {c}) <= MaxNames
          /\ ReceiveInterest(c)
     \/ \E c \in Chunk : ReceiveData(c)
     \/ Measure

AnyCall == RS = "lru_cache" /\ Next /\ UNCHANGED contentVars

StoreNext == AnyCall \/ AtTheNode

StoreSpec == StoreInit /\ [][StoreNext]_<<vars, contentVars>>

-----------------------------------------------------------------------------
(***************************************************************************)
(* Properties.                                                             *)
(***************************************************************************)

\* The map and the deque of a content store say the same, no chunk is there
\* twice, and the store never holds more than C: what makes full() true and the
\* hits of the store hits of chunks it has.  It leans on the PIT, as data_store
\* looks for no earlier copy: no chunk waits that the store holds.
StoreIsExact ==
  /\ Len(deq) <= C
  /\ IsInjective(deq)
  /\ \A c \in Chunk : copies[c] = IF c \in ToSet(deq) THEN 1 ELSE 0
  /\ timers \subseteq Present
  /\ \A c \in Present : pending[c] = "none"

\* What two_lru is for: a chunk asked for only once never reaches the content
\* store, whatever the order of Interests and Data packets, PIT entries that
\* are renewed and names that the name cache forgets.
StoredOnSecondRequest ==
  DS = "two_lru" => \A c \in Present : asked[c] = 2
=============================================================================
