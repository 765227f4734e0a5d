------------------------------- MODULE Network -------------------------------
(***************************************************************************)
(* The way of one chunk through a network of ccnSim nodes: the clients,    *)
(* the core layers (src/node/core_layer.cc), the links between them and    *)
(* the strategies (src/node/strategy/): spr.cc, nrr.cc, nrr1.cc,           *)
(* parallel_repository.cc and random_repository.cc.                        *)
(*                                                                         *)
(* CoreLayer says what one node does to any packet at all; here it is the  *)
(* packets of the other nodes that come, in the order of each link, none   *)
(* of them lost.  A face is named by the node at its other end, the face   *)
(* of the client by the node itself.                                       *)
(*                                                                         *)
(* The hops of an Interest are counted with the strategies that send it    *)
(* out on several faces, where it may go round until its TTL ends it.  With *)
(* the others the TTL is longer than any way in the network.               *)
(*                                                                         *)
(* RTT is set "RTT >> N_D*d" (Parallel_ModelGraft_Akaroa.ini), and a timer *)
(* is checked more seldom still: a download is late, and a PIT entry old,  *)
(* only when nothing has been in transit for a while, and a client asks    *)
(* again once in such a time.                                              *)
(***************************************************************************)
EXTENDS Integers, SequencesExt

CONSTANTS
  Node,          \* indices of the nodes
  Clients,       \* nodes with a client
  Caching,       \* nodes whose content store has room
  NextHop,       \* FIB: NextHop[n][d] is the neighbour of n on its way to d
  Dist,          \* FIB: Dist[n][d] is the length of that way
  TTL,           \* an Interest is discarded after so many hops
  TTL1,          \* NRR1 explores so many hops
  TTL2,          \* NRR looks no farther for a copy
  Scenarios      \* the configurations to consider: strategy, interest_aggregation and
                 \* repositories of the chunk, and the bounds, how often each client
                 \* asks for it and how often a store evicts it

\* Target -1 of an Interest.
None == 0

ASSUME NetworkAssumption ==
  /\ Node \subseteq Nat \ {None} /\ IsFiniteSet(Node)
  /\ Clients \subseteq Node /\ Caching \subseteq Node
  /\ NextHop \in [Node -> [Node -> Node]]
  /\ Dist \in [Node -> [Node -> Nat]]
  /\ \A n, d \in Node : n # d => /\ NextHop[n][d] # n
                                 /\ Dist[n][d] = Dist[NextHop[n][d]][d] + 1
  /\ \A n \in Node : Dist[n][n] = 0
  /\ TTL \in Nat \ {0} /\ TTL1 \in Nat /\ TTL2 \in Nat
  /\ \A s \in Scenarios :
       /\ s.FS \in {"spr", "nrr", "nrr1", "parallel_repository", "random_repository"}
       /\ s.interest_aggregation \in BOOLEAN
       /\ s.repos \subseteq Node /\ s.repos # {}
       /\ s.requests \in [Clients -> Nat] /\ s.evictions \in Nat

\* The link of a node with itself is the one from its client.
Link == (UNION {{<<n, NextHop[n][d]>> : d \in Node \ {n}} : n \in Node})
          \cup {<<n, n>> : n \in Clients}

\* Faces are inout gates, and connected both ways.
ASSUME LinksAssumption == \A l \in Link : <<l[2], l[1]>> \in Link

\* hops is what the next node will find.
Interest == [kind: {"CCN_I"}, target: Node \cup {None}, nfound: BOOLEAN, aggregate: BOOLEAN,
             hops: Nat]
Data     == [kind |-> "CCN_D"]

VARIABLES
  FS,                   \* the strategy of all nodes
  interest_aggregation, \* the parameter of all nodes
  repos,                \* get_repos(): nodes with a repository that owns the chunk
  ended,                \* severe_error has ended the simulation
  PIT,                  \* faces of the entry of each node, {} if there is none
  expired,              \* nodes whose entry is older than 2*RTT
  CS,                   \* nodes whose content store holds the chunk
  evictions,            \* bound: how often the chunk may still be evicted
  link,                 \* packets on each link, in order
  requests,             \* bound: how often each client may still ask
  waiting,              \* clients with the download in current_downloads
  late                  \* those whose timer will find simTime() - last > RTT

configVars == <<FS, interest_aggregation, repos>>
clientVars == <<requests, waiting, late>>
vars       == <<configVars, ended, PIT, expired, CS, evictions, link, clientVars>>

Init ==
  /\ \E s \in Scenarios :
       /\ FS = s.FS /\ interest_aggregation = s.interest_aggregation
       /\ repos = s.repos
       /\ requests = s.requests /\ evictions = s.evictions
  /\ ended = FALSE
  /\ PIT = [n \in Node |-> {}]
  /\ expired = {}
  /\ CS = {}
  /\ link = [l \in Link |-> <<>>]
  /\ waiting = {} /\ late = {}

-----------------------------------------------------------------------------
(***************************************************************************)
(* The strategies.                                                         *)
(***************************************************************************)

\* The elements of S that are nearest to node n.
NearestOf(n, S) == {s \in S : \A t \in S : Dist[n][s] <= Dist[n][t]}

\* cfib and fake_lookup: the other nodes within reach that hold the chunk now.
Holders(n) == {c \in CS \ {n} : Dist[n][c] <= TTL2}

\* Where an Interest without a target goes: to a copy, if the nearest one is not
\* farther than the repository by more than a hop.
NearestTargets(n) ==
  LET near == NearestOf(n, Holders(n)) IN
  UNION {IF \E c \in near : Dist[n][c] <= Dist[n][r] + 1 THEN near ELSE {r}
         : r \in NearestOf(n, repos)}

\* Mutant of Targets: a target that has lost the chunk looks for another copy.
TargetsAgain(n, target) == IF target \in {None, n} THEN NearestTargets(n) ELSE {target}

\* nrr::exploit, the target of an Interest when it leaves node n.  One that was sent
\* for a copy which is gone goes to the repository.
Targets(n, target) ==
  CASE target = None -> NearestTargets(n)
    [] target = n    -> NearestOf(n, repos)
    [] OTHER         -> {target}

\* Mutant of ModelFaces: a copy must be as near as the repository.
ModelFacesNearer(n) ==
  LET near == NearestOf(n, Holders(n)) IN
  UNION {IF \E c \in near : Dist[n][c] <= Dist[n][r]
         THEN {NextHop[n][c] : c \in near} ELSE {NextHop[n][r]} : r \in {Max(repos)}}

\* nrr::exploit_model: the faces on which the analytical model lets the Interests of
\* node n for the chunk leave.  Of several repositories it knows the last.
ModelFaces(n) ==
  LET near == NearestOf(n, Holders(n)) IN
  UNION {IF \E c \in near : Dist[n][c] <= Dist[n][r] + 1
         THEN {NextHop[n][c] : c \in near} ELSE {NextHop[n][r]} : r \in {Max(repos)}}

\* spr::exploit: the face towards a nearest repository.
TowardsNearest(n) == {{NextHop[n][r]} : r \in NearestOf(n, repos)}

\* nrr1::get_decision for an Interest from face f: away from where it comes from, as
\* long as it is young, or to the nearest repository, if it is a retransmission.
Explored(n, f, m) ==
  IF m.nfound THEN TowardsNearest(n)
  ELSE IF m.hops >= TTL1 THEN {{}}
  ELSE {{d \in Node \ {n, f} : <<n, d>> \in Link}}

\* parallel_repository::exploit: the faces towards all repositories.
TowardsAll(n) == {{NextHop[n][r] : r \in repos}}

\* get_decision: the faces an Interest from face f leaves on, and its target then.
\* random_repository decides nothing.
Decisions(n, f, m) ==
  CASE FS = "nrr"  -> {[faces |-> {NextHop[n][t]}, target |-> t] : t \in Targets(n, m.target)}
    [] FS = "spr"  -> {[faces |-> F, target |-> m.target] : F \in TowardsNearest(n)}
    [] FS = "nrr1" -> {[faces |-> F, target |-> m.target] : F \in Explored(n, f, m)}
    [] FS = "parallel_repository" ->
                      {[faces |-> F, target |-> m.target] : F \in TowardsAll(n)}
    [] OTHER       -> {}

-----------------------------------------------------------------------------
(***************************************************************************)
(* The core layer of node n.  "links" are the links without the packet     *)
(* that is being handled.                                                  *)
(***************************************************************************)

\* Data goes out on a set of faces of n; its own client is served at once.
SendData(links, n, faces) ==
  /\ link' = [l \in Link |-> IF l[1] = n /\ l[2] \in faces \ {n}
                             THEN Append(links[l], Data) ELSE links[l]]
  /\ waiting' = waiting \ (faces \cap {n})
  /\ late' = late \ (faces \cap {n})

\* The decision policy takes the chunk or leaves it, if there is room for it at all.
Store(n) == CS' \in {CS, CS \cup ({n} \cap Caching)}

\* An Interest at the end of its TTL is discarded.
Discard(m, links) ==
  /\ m.hops = TTL
  /\ link' = links
  /\ UNCHANGED <<PIT, expired, CS, waiting, late>>

\* a) and b) The content store has the chunk, or the repository.
Satisfy(n, f, links) ==
  /\ n \in CS \cup repos
  /\ IF n \in CS THEN UNCHANGED CS ELSE Store(n)
  /\ SendData(links, n, {f})
  /\ UNCHANGED <<PIT, expired>>

\* The Interest must not be aggregated: it says so, or n is its target.
NotAggregated(n, m) == ~m.aggregate \/ m.target = n

\* Mutant of NotValid: a retransmission does not renew the entry.
NotValidByAge(n, m) == PIT[n] = {} \/ n \in expired

\* The entry is missing, renewed by a retransmission, or too old.
NotValid(n, m) == PIT[n] = {} \/ m.nfound \/ n \in expired

\* Mutant of AddToPit: the entry knows its last face only.
AddLastToPit(n, f, renew) == {f}

\* The entry of n once face f is in it.
AddToPit(n, f, renew) == IF renew THEN {f} ELSE PIT[n] \cup {f}

\* Mutant of MustForward: the parameter is taken for its opposite.
MustForwardIfAggregating(n, m) ==
  NotValid(n, m) \/ interest_aggregation \/ NotAggregated(n, m)

\* No other Interest is ahead of this one, or it does not wait for it.
MustForward(n, m) == NotValid(n, m) \/ ~interest_aggregation \/ NotAggregated(n, m)

\* The strategies that send an Interest out on several faces.
SentOnMany == FS \in {"nrr1", "parallel_repository"}

\* handle_decision: how an Interest leaves the node.
Sent(m, target) ==
  [m EXCEPT !.target = target, !.hops = IF SentOnMany THEN @ + 1 ELSE @]

\* random_repository::exploit fails whatever it is asked.
DecideAtRandom(n, m) ==
  /\ FS = "random_repository"
  /\ n \notin CS \cup repos
  /\ MustForward(n, m)
  /\ ended' = TRUE
  /\ UNCHANGED <<PIT, expired, CS, link, waiting, late>>

\* c) The Interest waits in the PIT, and perhaps goes on.
WaitInPit(n, f, m, links) ==
  LET renew == NotValid(n, m)
      sent  == [m EXCEPT !.aggregate = ~NotAggregated(n, m)]
  IN
  /\ n \notin CS \cup repos
  /\ PIT' = [PIT EXCEPT ![n] = AddToPit(n, f, renew)]
  /\ expired' = IF renew THEN expired \ {n} ELSE expired
  /\ IF MustForward(n, m)
     THEN \E d \in Decisions(n, f, sent) :
            link' = [l \in Link |-> IF l[1] = n /\ l[2] \in d.faces
                                   THEN Append(links[l], Sent(sent, d.target)) ELSE links[l]]
     ELSE link' = links
  /\ UNCHANGED <<CS, waiting, late>>

\* Data goes to the faces of the entry; without an entry it is dropped.
HandleData(n, links) ==
  /\ IF PIT[n] = {} THEN UNCHANGED CS ELSE Store(n)
  /\ SendData(links, n, PIT[n])
  /\ PIT' = [PIT EXCEPT ![n] = {}]
  /\ expired' = expired \ {n}

\* The first packet of a link arrives.
Arrive(l) ==
  LET m     == Head(link[l])
      links == [link EXCEPT ![l] = Tail(@)]
  IN
  /\ ~ended
  /\ link[l] # <<>>
  /\ \/ m.kind = "CCN_I" /\ Discard(m, links) /\ UNCHANGED ended
     \/ m.kind = "CCN_I" /\ m.hops # TTL /\ Satisfy(l[2], l[1], links) /\ UNCHANGED ended
     \/ m.kind = "CCN_I" /\ m.hops # TTL /\ WaitInPit(l[2], l[1], m, links) /\ UNCHANGED ended
     \/ m.kind = "CCN_I" /\ m.hops # TTL /\ DecideAtRandom(l[2], m)
     \/ m.kind = "CCN_D" /\ HandleData(l[2], links) /\ UNCHANGED ended
  /\ UNCHANGED <<configVars, evictions, requests>>

-----------------------------------------------------------------------------
(***************************************************************************)
(* Clients, time and stores.                                               *)
(***************************************************************************)
SendInterest(n, nfound) ==
  link' = [link EXCEPT ![<<n, n>>] = Append(@,
    [kind |-> "CCN_I", target |-> None, nfound |-> nfound, aggregate |-> TRUE,
     hops |-> 0])]

\* request_file: one download of the chunk at a time.
RequestFile(n) ==
  /\ ~ended
  /\ requests[n] > 0
  /\ n \notin waiting
  /\ requests' = [requests EXCEPT ![n] = @ - 1]
  /\ waiting' = waiting \cup {n}
  /\ SendInterest(n, FALSE)
  /\ UNCHANGED <<configVars, ended, PIT, expired, CS, evictions, late>>

\* Nothing is in transit.
Quiet == \A l \in Link : link[l] = <<>>

\* RTT goes by in quiet, and perhaps 2*RTT for some of the PIT entries.
TimePasses ==
  /\ ~ended
  /\ Quiet
  /\ waiting # late
  /\ late' = waiting
  /\ \E old \in SUBSET {n \in Node : PIT[n] # {}} : expired' = expired \cup old
  /\ UNCHANGED <<configVars, ended, PIT, CS, evictions, link, requests, waiting>>

\* handle_timers, resend_interest: the client of n asks again.
Resend(n) ==
  /\ ~ended
  /\ n \in late
  /\ late' = late \ {n}
  /\ SendInterest(n, TRUE)
  /\ UNCHANGED <<configVars, ended, PIT, expired, CS, evictions, requests, waiting>>

\* The store of n evicts the chunk.
Evict(n) ==
  /\ ~ended
  /\ n \in CS
  /\ evictions > 0
  /\ evictions' = evictions - 1
  /\ CS' = CS \ {n}
  /\ UNCHANGED <<configVars, ended, PIT, expired, link, clientVars>>

Next ==
  \/ \E l \in Link : Arrive(l)
  \/ \E n \in Clients : RequestFile(n) \/ Resend(n)
  \/ TimePasses
  \/ \E n \in Node : Evict(n)

Spec == Init /\ [][Next]_vars

\* Links deliver, and timers strike.
Fairness ==
  /\ \A l \in Link : WF_vars(Arrive(l))
  /\ WF_vars(TimePasses)
  /\ \A n \in Clients : WF_vars(Resend(n))

FairSpec == Spec /\ Fairness

-----------------------------------------------------------------------------
(***************************************************************************)
(* Properties.                                                             *)
(***************************************************************************)
\* With SPR a node that waits is heeded: its Interest is on the way to the next hop
\* towards the nearest repository, or that node knows that it waits, or the Data is
\* on its way back.  So a chain of waiting nodes ends in a packet.
WaitingIsHeeded ==
  FS = "spr" =>
    \A n \in Node : PIT[n] # {} =>
      \E r \in NearestOf(n, repos) :
        LET hop == NextHop[n][r] IN
        \/ n \in PIT[hop]
        \/ \E i \in DOMAIN link[<<n, hop>>] : link[<<n, hop>>][i].kind = "CCN_I"
        \/ <<hop, n>> \in Link /\ Data \in ToSet(link[<<hop, n>>])

\* An Interest is sent back by a node that has lost the chunk at most once: it goes
\* for a repository then, which cannot lose it.
RedirectedOnce ==
  \A l \in Link : \A m \in ToSet(link[l]) :
    m.kind = "CCN_I" /\ ~m.aggregate => m.target \in repos

\* The analytical model, whose rates replace the traffic in the model of NRR, sends
\* Interests where the simulation sends them, wherever copies are: on all the faces
\* that nrr::exploit chooses from and on no other.  For a chunk of one repository, since
\* the model takes the last of several and the simulation the nearest.
ModelAgrees ==
  FS = "nrr" /\ Cardinality(repos) = 1 =>
    \A n \in Node \ repos :
      ModelFaces(n) = {NextHop[n][t] : t \in Targets(n, None)}

\* No Interest disappears on its way: when nothing is in transit any more, every
\* client has its chunk.
NoInterestDisappears == Quiet => waiting = {}

\* With SPR or all repositories, or with NRR and no aggregation, the network answers
\* every request by itself, and no timer ever strikes: wherever copies come and go, an Interest that waits
\* behind another never waits for itself.
NeedsNoTimer ==
  FS \in {"spr", "parallel_repository"} \/ (FS = "nrr" /\ ~interest_aggregation)
    => NoInterestDisappears

\* With the timers every request is answered, whatever the strategy, once the chunk is
\* not evicted any more: retransmissions that renew PIT entries and forget each other's
\* faces do so in vain only for a time.
AllAnswered == \A n \in Clients : n \in waiting ~> n \notin waiting \/ ended
=============================================================================
