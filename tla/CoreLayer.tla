------------------------------ MODULE CoreLayer ------------------------------
(***************************************************************************)
(* The core layer of one ccnSim node (src/node/core_layer.cc): the Pending *)
(* Interest Table, the lookup order Content Store -> repository -> PIT,    *)
(* the handling of Data packets, and the counters kept on the way by the   *)
(* core layer and by its content store (src/node/cache/base_cache.cc).     *)
(*                                                                         *)
(* The node sits in an open environment: at any moment an Interest for any *)
(* chunk may arrive on any face, and a Data packet for any chunk may       *)
(* arrive, solicited or not, so that lost, late, duplicated and reordered  *)
(* packets are all covered.  A face is a gate of the vector "face$o".      *)
(*                                                                         *)
(* Abstracted: the content store is the set of the chunks it holds, with   *)
(* an arbitrary choice of what a replacement policy evicts and of what the *)
(* decision policy accepts; the name cache of the two-layer policies only  *)
(* shows by its verdict "cacheable"; simulated time only shows by whether  *)
(* a PIT entry is older than 2*RTT; hop counts by whether the TTL is met.  *)
(***************************************************************************)
EXTENDS Integers, FiniteSets

CONSTANTS
  Face,          \* the gates of the node
  ClientFace,    \* those with a client at the other end
  Chunk,         \* chunk names
  Owned,         \* chunks for which my_bitmask & __repo(name) is not 0
  CacheSize,     \* parameter C of the content store
  Aggregation,   \* parameter interest_aggregation
  TwoLayer,      \* parameter DS is two_lru or two_ttl
  NoEntry,       \* what PIT.find answers when there is no entry
  MaxInterests,  \* bound: Interests handled between two clear_stat
  MaxData,       \* bound: Data packets handled between two clear_stat
  MaxCredit      \* bound: unanswered Interests per face and chunk

\* struct pit_entry; "expired" is simTime() - time > 2*RTT.
PitEntry == [interfaces: SUBSET Face, expired: BOOLEAN, cacheable: BOOLEAN]

ASSUME CoreAssumption ==
  /\ ClientFace \subseteq Face
  /\ Owned \subseteq Chunk
  /\ CacheSize \in Nat
  /\ Aggregation \in BOOLEAN
  /\ TwoLayer \in BOOLEAN
  /\ NoEntry \notin PitEntry
  /\ MaxInterests \in Nat
  /\ MaxData \in Nat
  /\ MaxCredit \in Nat

VARIABLES
  PIT,                           \* chunk -> entry or NoEntry
  CS,                            \* chunks held by the content store
  interests,                     \* core_layer::interests
  data,                          \* core_layer::data
  repo_load,                     \* core_layer::repo_load
  unsolicited_data,              \* SEVERE_DEBUG counters of core_layer
  discarded_interests,
  unsatisfied_interests,
  interests_satisfied_by_cache,
  hit, miss,                     \* base_cache::hit, base_cache::miss
  decision_yes, decision_no,     \* base_cache::decision_yes, decision_no
  credit,                        \* history: Interests received minus Data sent,
                                 \* per chunk and face
  upstream,                      \* history: faces on which a chunk was asked for
                                 \* since its last Data packet came in
  refused                        \* history: chunks that the strategy was asked
                                 \* about since then and found no face for

pitVars     == <<PIT, CS, credit, upstream, refused>>
debugVars   == <<unsolicited_data, discarded_interests, unsatisfied_interests,
                 interests_satisfied_by_cache>>
storeVars   == <<hit, miss, decision_yes, decision_no>>
counterVars == <<interests, data, repo_load, debugVars, storeVars>>
vars        == <<pitVars, counterVars>>

Init ==
  /\ PIT = [c \in Chunk |-> NoEntry]
  /\ CS = {}
  /\ interests = 0 /\ data = 0 /\ repo_load = 0
  /\ unsolicited_data = 0 /\ discarded_interests = 0
  /\ unsatisfied_interests = 0 /\ interests_satisfied_by_cache = 0
  /\ hit = 0 /\ miss = 0 /\ decision_yes = 0 /\ decision_no = 0
  /\ credit = [c \in Chunk |-> [f \in Face |-> 0]]
  /\ upstream = [c \in Chunk |-> {}]
  /\ refused = {}

-----------------------------------------------------------------------------
(***************************************************************************)
(* What the content store does with a Data packet.                         *)
(***************************************************************************)

\* Mutants of AfterDiscardingData: the refusal is not counted, or counted backwards.
DiscardUncounted == UNCHANGED <<CS, decision_yes, decision_no>>
DiscardRefunded  == decision_no' = decision_no - 1 /\ UNCHANGED <<CS, decision_yes>>

\* base_cache::after_discarding_data
AfterDiscardingData ==
  /\ decision_no' = decision_no + 1
  /\ UNCHANGED <<CS, decision_yes>>

\* base_cache::store: a store of size 0 discards; otherwise the decision policy
\* has its say, and an accepted chunk may push out others.
Store(c) ==
  \/ AfterDiscardingData
  \/ /\ CacheSize # 0
     /\ decision_yes' = decision_yes + 1
     /\ \E victims \in SUBSET (CS \ {c}) : CS' = (CS \cup {c}) \ victims
     /\ UNCHANGED decision_no

\* The verdict of name_to_cache; the other decision policies have no name cache.
CacheableVerdicts == IF TwoLayer THEN BOOLEAN ELSE {TRUE}

\* Mutant of SendData: a copy goes out on every face.
SendDataEverywhere(c, fs) ==
  credit' = [credit EXCEPT ![c] = [f \in Face |-> credit[c][f] - 1]]

\* send_data on the faces fs.
SendData(c, fs) == credit' = [credit EXCEPT ![c] =
  [f \in Face |-> IF f \in fs THEN credit[c][f] - 1 ELSE credit[c][f]]]

-----------------------------------------------------------------------------
(***************************************************************************)
(* Interests: handleMessage, case CCN_I, and handle_interest.              *)
(***************************************************************************)

\* The packet is counted before anything else is looked at.
ReceiveInterest ==
  /\ interests < MaxInterests
  /\ interests' = interests + 1
  /\ UNCHANGED data

\* The hop counter has met the TTL: counted and dropped.
DiscardInterest ==
  /\ ReceiveInterest
  /\ discarded_interests' = discarded_interests + 1
  /\ UNCHANGED <<pitVars, repo_load, unsolicited_data, unsatisfied_interests,
                 interests_satisfied_by_cache, storeVars>>

\* a) The content store has the chunk: answered on the arrival face, whose
\*    credit rises by the Interest and falls by the answer.
SatisfyFromCache(c) ==
  /\ ReceiveInterest
  /\ c \in CS
  /\ hit' = hit + 1
  /\ interests_satisfied_by_cache' = interests_satisfied_by_cache + 1
  /\ UNCHANGED <<pitVars, repo_load, unsolicited_data, discarded_interests,
                 unsatisfied_interests, miss, decision_yes, decision_no>>

\* b) The attached repository owns the chunk.  A chunk that the name cache has
\*    just refused is not offered to the store, and no decision is counted.
SatisfyFromRepo(c, cacheable) ==
  /\ ReceiveInterest
  /\ c \notin CS
  /\ c \in Owned
  /\ miss' = miss + 1
  /\ repo_load' = repo_load + 1
  /\ IF cacheable THEN Store(c) ELSE UNCHANGED <<CS, decision_yes, decision_no>>
  /\ UNCHANGED <<PIT, credit, upstream, refused, debugVars, hit>>

\* The entry is missing, is invalidated by a retransmission of the client
\* (nfound), or is older than 2*RTT.
EntryNotValid(c, nfound) ==
  \/ PIT[c] = NoEntry
  \/ nfound
  \/ PIT[c].expired

\* Mutant of ForwardedTo: the test on the client is the wrong way round.
ForwardedToClients(decision) == decision \cap ClientFace

\* The faces an Interest is sent to: handle_decision skips those of the clients.
ForwardedTo(decision) == decision \ ClientFace

\* A decision without a face that leads to a node; only SEVERE_DEBUG objects to it.
Refuses(decision) == decision \subseteq ClientFace

\* c) The Interest waits in the PIT, whatever the strategy decides.  An entry that is not valid is made anew,
\*    which forgets the faces it had; the Interest is forwarded if the entry is
\*    new, or aggregation is off, or the Interest must not be aggregated: its
\*    sender said so, or this node is its target (toMe) and has lost the chunk.
WaitInPit(f, c, cacheable, nfound, toMe, aggregate, decision) ==
  LET renew   == EntryNotValid(c, nfound)
      forward == renew \/ ~Aggregation \/ toMe \/ ~aggregate
  IN
  /\ ReceiveInterest
  /\ c \notin CS
  /\ c \notin Owned
  /\ credit[c][f] < MaxCredit
  /\ miss' = miss + 1
  /\ unsatisfied_interests' = unsatisfied_interests + 1
  /\ PIT' = [PIT EXCEPT ![c] =
       IF renew
       THEN [interfaces |-> {f}, expired |-> FALSE, cacheable |-> cacheable]
       ELSE [PIT[c] EXCEPT !.interfaces = PIT[c].interfaces \cup {f}]]
  /\ credit' = [credit EXCEPT ![c][f] = @ + 1]
  /\ upstream' = IF forward
                 THEN [upstream EXCEPT ![c] = @ \cup ForwardedTo(decision)]
                 ELSE upstream
  /\ refused' = IF forward /\ Refuses(decision) THEN refused \cup {c} ELSE refused
  /\ UNCHANGED <<CS, repo_load, unsolicited_data, discarded_interests,
                 interests_satisfied_by_cache, hit, decision_yes, decision_no>>

\* What a strategy may decide: any faces.  nrr1 decides none once it has explored far
\* enough, and in a dead end at most the face of a client.
Decisions == SUBSET Face

HandleInterest ==
  \/ DiscardInterest
  \/ \E c \in Chunk : SatisfyFromCache(c)
  \/ \E c \in Chunk, cacheable \in CacheableVerdicts : SatisfyFromRepo(c, cacheable)
  \/ \E f \in Face, c \in Chunk, cacheable \in CacheableVerdicts,
        nfound, toMe, aggregate \in BOOLEAN, decision \in Decisions :
          WaitInPit(f, c, cacheable, nfound, toMe, aggregate, decision)

-----------------------------------------------------------------------------
(***************************************************************************)
(* Data: handleMessage, case CCN_D, and handle_data.                       *)
(***************************************************************************)
ReceiveData ==
  /\ data < MaxData
  /\ data' = data + 1
  /\ UNCHANGED interests

\* Mutant of SolicitedData: the entry is not erased.
SolicitedDataKeepsEntry(c) ==
  /\ ReceiveData
  /\ PIT[c] # NoEntry
  /\ IF PIT[c].cacheable THEN Store(c) ELSE AfterDiscardingData
  /\ SendData(c, PIT[c].interfaces)
  /\ upstream' = [upstream EXCEPT ![c] = {}] /\ refused' = refused \ {c}
  /\ UNCHANGED <<PIT, repo_load, debugVars, hit, miss>>

\* The PIT is consulted: the chunk is offered to the store if the entry says so,
\* a copy goes to every face of the entry, and the entry is erased.
SolicitedData(c) ==
  /\ ReceiveData
  /\ PIT[c] # NoEntry
  /\ IF PIT[c].cacheable THEN Store(c) ELSE AfterDiscardingData
  /\ SendData(c, PIT[c].interfaces)
  /\ PIT' = [PIT EXCEPT ![c] = NoEntry]
  /\ upstream' = [upstream EXCEPT ![c] = {}] /\ refused' = refused \ {c}
  /\ UNCHANGED <<repo_load, debugVars, hit, miss>>

\* Nobody waits for the chunk: dropped.
UnsolicitedData(c) ==
  /\ ReceiveData
  /\ PIT[c] = NoEntry
  /\ unsolicited_data' = unsolicited_data + 1
  /\ upstream' = [upstream EXCEPT ![c] = {}] /\ refused' = refused \ {c}
  /\ UNCHANGED <<PIT, CS, credit, repo_load, discarded_interests,
                 unsatisfied_interests, interests_satisfied_by_cache, storeVars>>

HandleData == \E c \in Chunk : SolicitedData(c) \/ UnsolicitedData(c)

-----------------------------------------------------------------------------
(***************************************************************************)
(* Time, and what the statistics module does to a node.                    *)
(***************************************************************************)

\* The entry of c becomes older than 2*RTT.
EntryAges(c) ==
  /\ PIT[c] # NoEntry
  /\ ~PIT[c].expired
  /\ PIT' = [PIT EXCEPT ![c].expired = TRUE]
  /\ UNCHANGED <<CS, credit, upstream, refused, counterVars>>

\* A content leaves the store between two packets: the TTL check of a TTL
\* cache, or the flush of the whole store at the start of an MC-TTL cycle.
ContentsLeave ==
  /\ \E gone \in (SUBSET CS) \ {{}} : CS' = CS \ gone
  /\ UNCHANGED <<PIT, credit, upstream, refused, counterVars>>

\* statistics::clear_stat: the counters of the core layer and of its store
\* restart, while Interests stay pending.
ClearStat ==
  /\ interests' = 0 /\ data' = 0 /\ repo_load' = 0
  /\ unsolicited_data' = 0 /\ discarded_interests' = 0
  /\ unsatisfied_interests' = 0 /\ interests_satisfied_by_cache' = 0
  /\ hit' = 0 /\ miss' = 0 /\ decision_yes' = 0 /\ decision_no' = 0
  /\ UNCHANGED pitVars

Next ==
  \/ HandleInterest
  \/ HandleData
  \/ \E c \in Chunk : EntryAges(c)
  \/ ContentsLeave
  \/ ClearStat

Spec == Init /\ [][Next]_vars

-----------------------------------------------------------------------------
(***************************************************************************)
(* Properties.                                                             *)
(***************************************************************************)

\* Every variable has its type; the history variable credit is kept in Int so
\* that FlowBalance has something to say.
TypeOK ==
  /\ PIT \in [Chunk -> PitEntry \cup {NoEntry}]
  /\ CS \in SUBSET Chunk
  /\ interests \in Nat /\ data \in Nat /\ repo_load \in Nat
  /\ unsolicited_data \in Nat /\ discarded_interests \in Nat
  /\ unsatisfied_interests \in Nat /\ interests_satisfied_by_cache \in Nat
  /\ hit \in Nat /\ miss \in Nat
  /\ decision_yes \in Nat /\ decision_no \in Nat
  /\ credit \in [Chunk -> [Face -> Int]]
  /\ upstream \in [Chunk -> SUBSET Face]
  /\ refused \subseteq Chunk

\* A chunk some face waits for is neither in the content store nor in the
\* attached repository: an Interest never waits for what the node can serve.
\* The caches that keep no order lean on it, they would drop a chunk they store
\* twice (random_cache.cc, two_cache.cc).
PendingIsAbsent ==
  \A c \in Chunk : PIT[c] # NoEntry => c \notin CS /\ c \notin Owned

\* The node never sends more Data packets for a chunk on a face than it received
\* Interests for it there, whatever is lost, duplicated, reset or retransmitted.
FlowBalance == \A c \in Chunk, f \in Face : credit[c][f] >= 0

\* Whoever waits in the PIT waits for something: the chunk was asked for on some
\* face towards a node since its last Data packet, so an aggregated Interest has
\* another one ahead of it.  The only exception is the doing of the strategy: it was
\* asked since then, and found no face.  Neither aggregation, a renewed or an old
\* entry, nor late Data makes another one; and nobody waits without anything ahead
\* with a strategy that never refuses.
PendingWasForwarded ==
  \A c \in Chunk : PIT[c] # NoEntry => upstream[c] \ ClientFace # {} \/ c \in refused

\* check_if_correct, first assertion: every Interest is discarded, answered by
\* the cache, answered by the repository or left unsatisfied, exactly one of
\* them, across any sequence of packets and resets of the statistics.
InterestAccounting ==
  repo_load = interests - discarded_interests - unsatisfied_interests
              - interests_satisfied_by_cache

\* check_if_correct, third assertion: the decisions of the store and the
\* unsolicited packets add up to the Data packets received or made locally.
DecisionAccounting ==
  decision_yes + decision_no + unsolicited_data = data + repo_load

\* With a two-layer policy the third assertion holds as an inequality only: the
\* answers of the repository that the name cache refuses are not decided upon.
DecisionBound ==
  /\ decision_yes + decision_no + unsolicited_data <= data + repo_load
  /\ data <= decision_yes + decision_no + unsolicited_data

\* The hits and misses of the store, from which the hit ratio sent to the master
\* is made, are the Interests of the core layer that were not discarded, and a
\* hit is an Interest answered by the cache.
LookupAccounting ==
  /\ hit = interests_satisfied_by_cache
  /\ hit + miss = interests - discarded_interests

\* Every counter adds up, whatever the decision policy.
Balances == InterestAccounting /\ LookupAccounting /\ DecisionBound
=============================================================================
