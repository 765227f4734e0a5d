# ccnSim-Parallel: a TLA+ verification project

ccnSim-0.4-Parallel simulates Content-Centric Networks (CCN) on OMNeT++ and runs
several copies of one simulation in parallel, the *engines*, under the control of
an Akaroa *master*.  Its `ModelGraft` mode replaces caches by downsized TTL caches
whose time to live (Tc) is corrected from cycle to cycle until their measured
sizes meet a target ("MC-TTL").  This directory models the parts of it whose
order of events is hard to test, checks them with TLC on small instances, and
proves most of what the runs check, refinements included, with TLAPS for every
instance.

All source paths are below `src/ccnSim-Parallel/`; line numbers are those of the
commit beside this directory.

## 1. The system and its parts

| part | source | state it keeps | operations | module |
|---|---|---|---|---|
| core layer of a node | `src/node/core_layer.cc` | PIT, counters of packets | Interest, Data, clear_stat | `CoreLayer`, `Network` |
| content store interface | `src/node/cache/base_cache.cc` | hits, misses, decisions | lookup, store, after_discarding_data | in `CoreLayer`, `ContentStore` |
| TTL content store | `ttl_cache.cc` | table of eviction times, size, online average, Tc | lookup, store, periodic sweep, extend_sim | `TtlCache` |
| TTL name cache, `two_ttl` | `ttl_name_cache.cc`, `two_ttl_policy.h` | a second table, of names | name_to_cache, sweep, extend_sim | `TwoTtl` |
| LRU store | `lru_cache.cc` | map, doubly linked list, timers | lookup, store, flush | `LruCache` |
| FIFO, random, two-choice stores, `two_lru`, decision policies | `fifo_cache.cc`, `random_cache.cc`, `two_cache.cc`, `include/*_policy.h` | map, deque | lookup, store, name_to_cache, data_to_cache | `ContentStore` |
| engine life cycle | `src/statistics/statistics.cc` | two scheduled events, flags set by signals, cycle number | stable check, END, signal handler, checkStability | `Engine`, `EngineFailure` |
| sampling of the stable check | same file | windows of samples, remembered events | centralized_stable | `StableSampling` |
| analytical model | same file, `Tc_Solver.cc` | matrices of rates | fixed points | not modelled |
| shortest paths | `patch/omnet-5x/ctopology.cc` | distances and paths of nodes | extractFromNetwork, weightedMultiShortestPathsTo | `Topology` |
| content distribution | `src/content/` | repositories, clients, placement of contents | initialize, init_repos, init_clients, choose_repos | `ContentDistribution` |
| forwarding tables | `src/node/strategy/strategy_layer.cc` and its two subclasses | FIB, failure events | initialize, FAILURE, NEW_ROUTES, NEW_MODEL, decide_out_gate | `StrategyLayer` |
| strategies | `spr.cc`, `nrr.cc`, `nrr1.cc`, `parallel_repository.cc`, `random_repository.cc` | candidates of NRR | get_decision | `Network` |
| client | `src/clients/client.cc`, `client_IRM.cc` | downloads, averages | request, timer, Data | `Client`, `Clients` |
| window client | `client_Window.cc` | size of the window, packets in flight | window of requests, timeout, Data | `WindowClient` |
| shot noise client | `client_ShotNoise.cc`, `ShotNoiseContentDistribution.cc` | ON/OFF states of contents | request of a class, validateRequest | `ShotNoiseClient` |
| Zipf sampling | `zipf.cc`, `zipf_sampled.cc` | cumulated weights | value, sample | `Zipf` |

How they interact:

* At the start the **content distribution** places repositories, clients and contents;
  then every node computes its **forwarding table** by the shortest paths of the
  patched topology class.
* A **client** draws a content from the catalog and sends an Interest through
  `client_port` to the core layer of its
  node.  The **core layer** asks the name cache (two-layer policies), then the
  **content store**, then the attached repository, and else enters the face in
  the **PIT** and sends the Interest where the **strategy** decides.  A Data packet
  goes back to the faces of the PIT entry, and is offered to the store on its way.
* Timers retransmit: the client marks its second Interest with `nfound`, which
  makes every node renew its PIT entry; an entry older than `2*RTT` is renewed too.
* The **statistics** module of an engine samples the stores of all nodes every
  `ts` seconds.  Once enough windows are full it sends them to the **master**
  and sleeps until a signal arrives.  In the transient phase signal 30 says "go on
  sampling" and 31 "the steady state is reached"; in the steady phase, after END,
  30 says "another cycle" and 31 "stop".  The steady state resets the counters of
  every client, core layer and store; another cycle corrects Tc, empties the stores
  and resets the counters again.
* A **failure scenario** disables links, computes new routes, and asks for a new
  stability check (`checkStability`).

What is hard here: packets that are late, repeated or lost while PIT entries are
renewed; counters that are reset in the middle of everything and must still add
up; a signal handler that runs between any two instructions of its process and
whose meaning depends on a flag it writes itself; several processes that all wait
for each other; chunks that expire between two sweeps; states that are brought up to
date only when somebody looks; searches that leave results behind for the next one;
and events scheduled from more than one place.  `PROJECT.json` lists these hazards
line by line.

## 2. The modules

Every variable bears the name of the C++ field it stands for; a variable marked
*history* exists for the properties only.  The operators called "Mutant of X"
before a definition X are wrong versions of it, used to see that the properties
notice; no specification refers to them.

How they build on each other:

```
CoreLayer *                                  SimulationCycles <~ Engine * <- EngineFailure
TtlContents <~ TtlCache <- TwoTtl *          StableSampling *
RecencyCache <~ LruCache <- ContentStore *   Network *
Topology <- ContentDistribution <- StrategyLayer *
Client <- WindowClient, ShotNoiseClient <- Clients *      Zipf <- ShotNoiseClient
        (A <- B: B extends A;  A <~ B: B is shown to implement A;
         *: theorems in a module of the same name with "Proofs" behind it, which extends it)
```

### CoreLayer
One node in an open environment.  Actions: `DiscardInterest` (TTL met),
`SatisfyFromCache`, `SatisfyFromRepo`, `WaitInPit` are the four ways through
`handleMessage`/`handle_interest`; `SolicitedData` and `UnsolicitedData` the two
through `handle_data`; `EntryAges` is the passing of 2*RTT, `ContentsLeave` what
a TTL sweep or a flush does to the store, `ClearStat` the reset of the statistics.
Any Interest and any Data packet may arrive at any time on any face, so loss,
duplication, delay and reordering need no actions of their own.  A decision of the
strategy is any set of faces, none and those of clients included, as `nrr1` returns it; the
check in `handle_decision` is compiled only with `SEVERE_DEBUG`, which
`include/ccnsim.h:15` leaves off.  *History*: `credit` (Interests that entered the PIT
minus Data sent, per face and chunk), `upstream` (where a chunk was asked for
since its last Data) and `refused` (the chunks the strategy has found no node for
since then).  The counters kept under `SEVERE_DEBUG` are modelled, since
the assertions of `check_if_correct` are stated with them; the assertions
themselves are properties, not guards.

* `PendingIsAbsent`: nobody waits for a chunk the node has or owns.
* `FlowBalance`: no face is sent more Data than it asked for.
* `PendingWasForwarded`: whoever waits has an Interest ahead of it, aggregated or not,
  unless the strategy itself was asked since the last Data and found no face to a node.
* `Balances`: `InterestAccounting`, the first assertion of `check_if_correct`;
  `DecisionBound`, what is left of the third, `DecisionAccounting`, with two layers; and
  `LookupAccounting`, which ties the counters of the store to those of the core layer.

### TtlCache and TwoTtl, with the abstract TtlContents
`TtlCache` is the TTL content store.  Time is counted in ticks; due events come
before the clock goes on.  The average
`avg_as_curr` is kept as the exact fraction `area/span`, which is the formula of
`data_lookup` multiplied by `cycle_curr_time`; `dblrand() < 0.1` is a free choice.
`Tc` is cut to whole ticks between 1 and `MaxTc`.  `TtlContents` is a store in
which a chunk vanishes the instant its time is over.

`TwoTtl` puts it to work in a node.  With the policy `two_ttl` every Interest is
first shown to the name cache (`NameToCache`), whose verdict the PIT entry keeps
(`cacheable`) for the Data packet; with another policy nothing is added.
`Check` sweeps both tables by one message, `NextCycle` corrects both times to live.
Of the average of the names only its sign matters: an average of zero makes their Tc
infinite, which the name cache, unlike the content store, does not catch; the next
name it stores ends the simulation (`aborted`).

* `SizesAreExact`: both counters are the sizes of their tables; what waits to be
  stored is in no table.
* `BothSweptInTime`: no table keeps a dead entry for longer than a period.
* `AverageIsBounded`: the average is a size the store has had.
* `ImplementsContents`: sweep, lazy removal and eviction times implement
  `TtlContents`, for every answer of a lookup, across cycles that change Tc.
* `ImplementsNames`: the verdict of the name cache is true exactly when the chunk
  was asked for within the last Tc of the names.

### LruCache and ContentStore, with the abstract RecencyCache
`LruCache` has the map and the pointers of the list, step by step as `data_lookup` and
`data_store` set them, and the monitoring of Tc with its two calls of `exit(1)`.
`ListIsSound` is the invariant of the doubly linked list; `ImplementsRecency` maps
the list, walked from the MRU, to a sequence in the order of last use; the answer of
the last lookup is part of both, so that a use must move the very chunk that was
asked for.

`ContentStore` extends it.  With `RS = "lru_cache"` it is `LruCache` under any sequence
of calls.  Otherwise a `fifo_cache`, `random_cache` or `two_cache` is fed by the core
layer: `ReceiveInterest` makes the PIT entry of a chunk the store lacks,
`ReceiveData` offers the chunk (`Offer`) to the decision policy, one of the seven of
`Policies`.  With `two_lru` the LRU list is the name cache, and its verdict is kept by
the PIT entry.  The statistics module of this version refuses every RS but
`ttl_cache`, so nothing flushes these stores; `Measure` starts their timers at any time.

* `NeverExits`: neither of the timers' consistency checks ends the program.
* `StoreIsExact`: map and deque agree, no chunk is there twice, the size is kept.  The
  stores do not look for an earlier copy; they lean on the PIT.
* `StoredOnSecondRequest`: with `two_lru` a chunk asked for once is never stored.

### Engine and EngineFailure, with the abstract SimulationCycles
One process per engine and the master.  `pc` tells whether an engine runs its
events, waits in `while(!signal_received)` or is in the `sleep(1)` after it, for
either phase.  `SignalHandler` may run between any two steps of its process.
A stable check with too few full windows only reschedules itself and is no step.
The master is not in the repository: `Decide` and `SendSignal` model it from the
way its answers are used, deciding once it has the same kind of observation from
all engines, and signalling them one by one.  Pending signals are a set, since
the operating system does not queue them.  `dynamic_tc` is true, as `statistics.h`
sets it and nothing changes it.  `EngineFailure` adds the event NEW_MODEL of the
failure scenario, which asks for a stable check whatever is scheduled.

* `NoSignalLost`: a signal finds its engine waiting with the flag clear.
* `DecisionUnderstood`: after a wait the flags mean what the master meant.
* `LockStep`: engines are at most one decision apart and agree on cycle and phase.
* `OneEventAhead`: a running engine has exactly the event of its phase scheduled.
* `EveryRoundIsAnswered`: liveness.
* `ImplementsSimulation`: all engines together behave as one simulation.

### StableSampling
The windows of one engine: how large they are (`engineWindow`, `partial_n`, the
conversions of the parameters `window` and `partial_n`), what a check samples from the counters of each node,
where it is put into the vector, when the windows are emptied, and how the resets
of the counters interleave with that.  The engine sleeps while it waits, so a
check and its answer are one step.  `WindowsAreFilledInOrder`, `SamplesGrow` and
`EventsAreNotAhead` are what the master and the next check rely on.

### Topology, ContentDistribution and StrategyLayer
The start of a simulation, and its failure scenario.  `Topology` is the search for all
shortest paths as the patch to OMNeT++ has it: a pure function of the links, the target
and of what an earlier search on the same object left in the nodes (`SearchFrom` keeps
`outPaths`).  `ContentDistribution` places repositories, clients and contents, as
`content_distribution` does or as its subclass `WeightedContentDistribution`; `Refused`
are the configurations either ends with an error for.  `StrategyLayer` fills the table of
one node after the other (`PopulateRoutingTable`), then lets the events FAILURE,
NEW_ROUTES and NEW_MODEL of the nodes come in every order their times allow;
`DecideOutGate` is where a node sends an Interest for a repository.

* `ContentIsPlaced`: repositories are on different nodes, every content has as many as
  it should and `total_replicas` counts them; those without any are exactly those of a
  weighted draw of zero.
* `OneRepositoryEach`: every content of the weighted class has one repository; false
  because of that draw (section 4).
* `DisconnectionIsReported`: a simulation does not begin on a network that falls apart,
  although the paths to an earlier target hide it from single nodes.
* `RoutesAreShortest`: as long as no channel is disabled, every table has the shortest
  paths, one of them or all, whether `initialize` or NEW_ROUTES has computed it.
* `ContentIsReachable`: as long as no channel is disabled, an Interest for any content finds
  its repository by the tables of all nodes on its way.
* `NewRoutesAvoidFailure`: what should hold of the tables after a failure; false (section 4).
  A NEW_ROUTES that left out the disabled channels would satisfy it, and all the others.

### Network
One chunk on its way through a network: core layers, links, strategies, clients.
What `CoreLayer` leaves to an arbitrary environment is here the other nodes.  A
link is a sequence of packets (OMNeT++ delivers on a link in order); nothing is
lost.  `Satisfy`, `WaitInPit` and `HandleData` are the paths of the core layer that are
left for one chunk, `Decisions` what the five strategies decide: the nearest
repository (`spr`), the nearest copy found by looking into the stores of other nodes
(`nrr`, `Holders` being `fake_lookup`), all faces while the Interest is young (`nrr1`), the
faces towards all repositories (`parallel_repository`), and `random_repository`, which
ends the simulation.
`Evict` is a store that loses the chunk, by expiry or for want of room; a chunk that
has expired and is not swept yet is one that is evicted by its next lookup, which is
the same as `Evict` just before it.  `TimePasses` makes downloads late, and PIT
entries old, and only when nothing is in transit, since RTT is chosen "usually, RTT >>
N_D*d" (`Parallel_ModelGraft_Akaroa.ini:65`).  Hops are counted where an Interest is
sent on several faces.

* `WaitingIsHeeded` (SPR): a node in whose PIT somebody waits has its Interest on the
  way to the next hop, or waits in the PIT there, or has Data coming back; with it the
  waiting nodes form chains that end in a packet.
* `RedirectedOnce`: an Interest whose target lost the chunk goes to a repository and
  is not sent to a second copy.
* `NeedsNoTimer`: with SPR, with all repositories, or with NRR and no aggregation, the
  network comes to rest only when every client is served.
* `AllAnswered`: with the timers every request is answered, whatever the strategy.
* `ModelAgrees`: for a chunk of one repository the faces that NRR gives the analytical
  model (`ModelFaces`) are those it chooses from itself.
* `NoInterestDisappears`: what `NeedsNoTimer` says, for NRR with aggregation too;
  false (section 4).

### Client, WindowClient, ShotNoiseClient, Zipf and Clients
`Client` is what the three kinds of clients share: downloads of files in chunks.  One
Data packet serves all downloads that wait for its chunk; the timer asks again for every
late download; the network may lose or delay what was asked for, and answers each of
several Interests for a chunk, so that `in_transit` counts packets.

`WindowClient` adds the window: `RequestWindow` is the event
ARRIVAL, `WinTimeout` is WinTO, `ReceiveData` is the handler of Data, which serves the
downloads as `Client` does and then counts the packet.  `arrival` counts how often the
event is scheduled, a second time being refused by the kernel.  *History*: the
requests of the `window` and the `surplus` of packets that are not the first of one of them.

`ShotNoiseClient` adds contents that are ON and OFF in turn, and the catalog of classes
they come from.  Nothing happens when a period ends; a request brings the state of its
content up to date (`Outcomes`, the loops of `validateRequest`).  A content whose class has
no states, or comes after one that has none, is drawn afresh at each request (`State`).
`Zipf` is the binary search in the cumulated weights, over unsigned indices.

`Clients` runs a client of one of the kinds: `IrmRequest` are independent requests, of
contents or, if the catalog is downsized, of meta-contents; the last content of
a downsized catalog has none, and ends the simulation (`IrmRefused`).

* `ServedInOrder`: a download gets its chunks in order and ends with the last one.
* `WindowIsCounted`: what is in flight is what the window lacks, less the surplus; the
  next window is scheduled exactly when the count is zero or less, and once.
* `DrawIsQuantile`: the search finds the first content whose cumulated weight is not
  below the draw, for every draw, so the classes are drawn from as they should.
* `OffPeriodsAreWhole`: a content that has been found OFF is ON again only after the whole
  of its OFF period, however seldom its state is looked at.
* `DownloadsEnd`, `WindowsGoOn` (liveness): every download ends, and the window client
  never stops.  The names of a window must
  differ for this: one Data packet would otherwise serve two of its requests, and be
  counted once.

### MC modules
`MC*` modules are what TLC runs: catalogs and classes in `MCClients`, the chain of nodes and
the scenarios in `MCNetwork`, the networks and configurations in `MCStrategyLayer`, the
symmetry of chunks in `MCContentStore` and `MCTwoTtl`, which is
sound there: no definition tells chunks apart, and all properties are safety.

## 3. The runs

| run | instance | states | shows |
|---|---|---|---|
| `core_layer` | 1 client, 1 neighbour, 1 chunk of the network and 1 owned, 4 Interests and 2 Data between resets, 2 unanswered Interests per face and chunk, aggregation, two-layer policy | 277k | `TypeOK`, `PendingIsAbsent`, `FlowBalance`, `PendingWasForwarded`, `Balances` |
| `engine` | 3 engines, 3 cycles, 4 "continue" | 7.8k | all safety properties, `EveryRoundIsAnswered`, `ImplementsSimulation` |
| `engine_failure` | 2 engines, failure scenario | violated | `OneEventAhead` fails |
| `stable_sampling` | 3 nodes of which half, 2, must be full, a window of 5 shared by two engines, 2 cycles | 804k | all invariants |
| `two_ttl` | 2 chunks, sweep every 2, Tc up to 3, 6 ticks, with `two_ttl` 3 ticks and one further cycle | 556k | all invariants, both refinements |
| `content_store` | LRU list of 1, 2 or 4 places and 5 interchangeable chunks; stores of 0, 1 or 2 places, 3 different chunks, 3 stores, 7 policies | 42k | all invariants, `ImplementsRecency` |
| `startup` | 7 networks of 4 nodes, 2 contents, 14 configurations, draws in quarters | 4.4k | `RoutesAreShortest`, `DisconnectionIsReported`, `ContentIsReachable`, `ContentIsPlaced` |
| `startup_failure` | the same | violated | `NewRoutesAvoidFailure` fails |
| `startup_zero_draw` | the same | violated | `OneRepositoryEach` fails |
| `network` | chain of 4 nodes, 9 scenarios: `spr` and `nrr` with and without aggregation, one repository, 3 clients of which one asks twice, 1 eviction; `nrr1` with one and two repositories; `parallel_repository` with two; `random_repository` | 136k | `WaitingIsHeeded`, `RedirectedOnce`, `NeedsNoTimer`, `ModelAgrees`, `AllAnswered` |
| `network_loop` | the chain, a store at the far end only, NRR with aggregation, 2 evictions | violated | `NoInterestDisappears` fails |
| `clients` | files of 1 and 2 chunks, 2 packets in transit per chunk; 3 requests of an IRM client, as is or downsized by 2; 3 of a client with windows of 1 and 2; 1 of a shot noise client with 3 catalogs, 6 instants | 31k | `ServedInOrder`, `WindowIsCounted`, `DrawIsQuantile`, `OffPeriodsAreWhole`, `DownloadsEnd`, `WindowsGoOn` |

Each run is the module and the configuration `PROJECT.json` names.

**Why the bounds are enough.**  In CoreLayer the chunks do not influence each other
but through the size of the store, which evicts arbitrarily, and through the
counters; one owned chunk and one that is not cover every path, and four Interests let two
faces aggregate, a retransmission renew the entry, and another face join it.  The
two-layer policy allows every behaviour of the others (its verdict may be "yes"
each time), and the neighbour, which also asks, may be asked in return, or nobody.  The proofs
of section 5 remove the bounds and cover the policies without aggregation.  In TtlCache
six ticks hold three sweeps and two cycles with different Tc; with `two_ttl` three
ticks hold a name that expires, a sweep, and a cycle with another Tc of either kind.
Four places have a middle of the LRU
list with two chunks, two have ends that touch, one is where both ends coincide; a store
of two places has a full and a not yet full state and a choice of what to evict.
Two engines suffice for every race of a signal against an engine that is behind; three make
sure nothing depends on there being two.  Three windows of two samples make each half of
the vector have an inside and a neighbour, and let one node be full while the check
waits for another, or not full when it is sent.  The networks of `startup` have nodes
with one and with two shortest paths, triangles, a leaf, and two ways of falling apart;
the configurations reach every branch and every refusal.  Two packets in transit for a chunk are
what it takes for one of them to come when nobody waits, and three requests for two
windows.  Six instants hold several ON and OFF periods of the shortest class between two
looks at a content.  In Network a chain of four nodes has two inner nodes with a client each, so
that Interests of one client meet those of another from either side, while the
repository and the nearest copy lie in opposite directions; the client in the middle
asks twice, once before and once after copies are made, and one eviction lets an
Interest meet a target that has lost the chunk.  A TTL of four hops is more than any
way in the chain; longer ones only let Interests that go round do so for longer.

**Deadlock** is checked in all runs but these: the windows of `stable_sampling`
end with the last cycle; time ends in `two_ttl`, and the simulation may abort; an error
may end it in `clients` and `network`, and the latter comes to rest when the
clients have made all their requests and are served.

**Fairness.**  `Engine`: every process and the delivery of signals progress (the
operating system), the master answers when it has all observations (its purpose),
and a stable check is complete in the end; the last one is an assumption on the
traffic, not a fact of the code, since a node that never has a hit never fills
its window.  `Clients`: time passes and the timer event is rescheduled at each
firing, hence weak fairness; a chunk asked for again and again arrives, strong
fairness, which is weaker than a reliable network: without the timer the property
fails.  Nothing is assumed of requests and windows.  `Network`: links deliver,
time passes, and the timer of a late download strikes.  `AllAnswered` also needs the
evictions to be bounded (`evictions` of a scenario).  Without that bound it is false: a
retransmission keeps its flag `nfound` when a target that lost the chunk sends it
back, so that the nodes on the way forget the client they waited for, and a
store that loses the chunk each time at that moment makes this go on for ever.

## 4. Findings

Four runs show a disagreement between the code and what the repository says of it.

1. `statistics.cc:1040`: the stability check of the failure scenario schedules an
   event that the transient phase has scheduled already.
2. `core_layer.cc:557`: `ccn_interest.msg:33` explains that an aggregated Interest in a
   loop disappears and that the flag `aggregate` is cleared to avoid it; it is cleared
   only by a target that has lost the chunk.  With NRR and aggregation two neighbours,
   one of which chose the repository before a copy appeared and the other the copy
   after it, aggregate each other's Interests, and both clients wait for their timers.
3. `strategy_layer.cc:164`: NEW_ROUTES extracts the topology without looking whether a
   channel is disabled, so that the routes after a failure are those of before, over the
   link that has failed, where the comment on line 114 promises new ones.
4. `WeightedContentDistribution.cc:265`: a weighted draw of exactly zero does not enter the
   loop that looks for a repository, and the content has none, where the comment on line 255
   promises "one and only one repository" and the assertions at 282-296 check it.

Two more assertions, compiled with `SEVERE_DEBUG` only, do not hold, and need no run:

* `core_layer.cc:850` with `two_lru` and `two_ttl`: an answer of the repository that the name
  cache refuses counts in `repo_load`, but no decision is counted (`core_layer.cc:436`).
  The theorem `RefusalIsNotCounted` says that the first such answer breaks it.
* `core_layer.cc:745`, at the end of `handle_decision`, takes it for an error that an Interest
  is sent to no node.  `nrr1` does so with an Interest that has gone far enough
  (`nrr1.cc:50`) or has come to a dead end (`nrr1.cc:67`), as its decisions in `Network`
  have it.

Things the models show and nothing in the repository denies, so that no run is made of
them: a downsized catalog whose last content has no meta-content
(`client_IRM.cc:126`); an infinite Tc of the names after a cycle that measured an
average of zero (`ttl_name_cache.cc:184`); shot noise contents that are
asked for a state they do not have (`ShotNoiseContentDistribution.cc:200`);
`random_repository`, which ends the simulation whenever it is asked.

## 5. The proofs

Eight modules hold theorems; `PROJECT.json` lists them with the properties they
state.  Every one holds for all values of the constants that satisfy the named
assumptions of the modules, which TLC evaluates in the runs; the only further hypotheses
are `ClassesAreDrawable` and `ReplicasArePositive`, below.  The bounds of the models (`MaxCycles`, `MaxTime`,
`MaxRequests`, the requests and evictions of a scenario) are constants too, so
that a theorem holds for every bound.

They are laid out alike.  `IInv` (`StrategyInv` of the strategy layer) is the inductive
invariant, and a theorem says `Spec => []IInv`; it rests on a lemma for `Init` and one for
each action or group of actions.  The theorems on the properties follow from it, with a
lemma where that takes more than unfolding.  Refinements are proved as
`Init => A!Init` and `IInv /\ [Next]_vars => [A!Next]_A!vars`.

**CoreLayerProofs**, for every set of faces and chunks, every content of the
repository and every size of the store.  `IInv` is `TypeOK`,
`PendingIsAbsent`, `PendingWasForwarded`, `FlowBalance`, `Balances`, and
`WaitingHasCredit`: every face of a PIT entry is owed an answer.  The last is what
`FlowBalance` lacks to be inductive: a Data packet lowers the credit of exactly
the faces of the entry, so they must have some, whatever renewed the entry before.
Nothing is assumed of the decisions of the strategy: `PendingWasForwardedHolds` says that
only a refusal of the strategy leaves somebody waiting with nothing ahead.
`DecisionAccountingHolds` is the third assertion of the code, if the policy is not
a two-layer one; `RefusalIsNotCounted` shows that the hypothesis is needed.

**EngineProofs**, for every number of engines, cycles and decisions "continue".  No
property of `Engine` is inductive.  `Round` names the seven stages an engine can be in
between two decisions of the master (`Runs`, `HasObserved`, `IsDecided`, `IsSignalled`,
`HasCaught`, `Sleeps`, `HasEnded`), each with what it implies for the flags, the pending
signals and the scheduled events; `Together` says that engines which have acted on the
same decisions are in the same place, and that one which has acted on the last decision
is where the others will be once they act on it (`IsAhead`).  Every race of a signal
is a step from one stage to the next.  `ImplementsSimulationHolds` maps all
engines to the slowest of them.

**TwoTtlProofs**, for every number of chunks, every period of the check and every time
to live.  A step of `TwoTtl` is one of `TtlCache` or leaves its variables alone
(`StepsOfTheStore`), so the content store is proved about once.  That dead entries are
swept in time is not inductive; `InTime` and `NamesInTime` say where the next check
lies: every entry dies at most a period before it.  `Averaged` bounds the area under the
online average (`AreaIsBounded`).  `NamesEmpty`, for `ImplementsNamesHolds`, says that
an infinite Tc of the names goes with an empty table, since the first name that would be
stored ends the simulation.

**ContentStoreProofs**, for every number of chunks, size of a store, policy and kind of
store.  `ListIsSound` is not inductive: two chunks that are each other's neighbour on
both sides satisfy it, and to move one of them would break the list.  What excludes such a
circle is that the elements form one chain from `mru` to `lru` (`Chain`), a sequence
without repetitions that the pointers follow both ways.  The lemmas `ChainMoveToFront`, and
those on a new element and on a dropped one, say what the assignments to the pointers do
to the sequence; from these `ImplementsRecencyHolds` is immediate.  For `StoreIsExact` the PIT is
part of the invariant, as it is of the property; `AskedEnough` adds, for `two_lru`, that
names in the name cache were asked for once, and what is waited for as cacheable twice.

**StableSamplingProofs**, for every number of nodes, engines and samples.  The places
of the samples in the vector are shown not to overlap (`Slots`, some arithmetic on
products).  `SamplesGrow` needs `LastIsCovered`: the last sample is at most the
counter it was taken from; `EventsRestart` says why `clear_stat` does not leave the
remembered changes ahead of the counters.

**NetworkProofs**, for every network whose next hops lead nearer to where they are going
(`NetworkAssumption`, what the shortest paths of section 2 give) over links that work
both ways (`LinksAssumption`: faces are inout gates), any clients, stores, repositories
and evictions.  `NeedsNoTimerHolds` says that no client ever has to ask again with SPR,
or with NRR without aggregation.  Two arguments lead there.  With SPR a node that waits is
*heeded* by its next hop, which is nearer to a repository (`Heeded`), and a repository
does not wait; so among the waiting nodes the nearest one has a packet on its way.  With
NRR there is no such measure, since copies come and go; what is not lost is a *trail* of
PIT entries from each node that waits to a packet on its way (`Trailed`), however
often the trail crosses itself.  Both need that no timer has struck, and none strikes
because nothing disappears: one invariant holds it all (`Calm`, `Heard`).  The
strategy `parallel_repository` is left out of the theorem: for it the statement depends
on the TTL, which the scenarios choose.  `WaitingIsHeeded`, `RedirectedOnce` and `ModelAgrees`
are proved as they are checked.

**ClientsProofs**, for every set of files and sizes, every catalog, every law of losses.
`Downloads` and `Window` are `ServedInOrder` and `WindowIsCounted` with what they lack:
requests not yet made have nothing, and the names in a window differ.  `DrawIsQuantileHolds`
is about the binary search of `zipf_distribution::value`, over indices of unsigned
type: `SearchNarrows` is its invariant, `Distances` the measure that shows it ends.
`ClassesAreDrawable` is its hypothesis: no class is empty, for which the code would read
before the beginning of the table, and twice the length of a table is an
unsigned number, for otherwise the middle of two indices overflows.  It is a
hypothesis of the other theorems of the module as well, because the names that the shot
noise client requests are those that the search draws.

`OffPeriodsAreWholeHolds` rests on `Periods`: a content that has been found OFF is kept as OFF,
until an OFF period after the last instant it was ON or later.  What keeps it true is
`OutcomesLater`: wherever the loops of `validateRequest` end, the state holds at this instant,
and loops that began with ON have been through an OFF period.

**StrategyLayerProofs**, for every network of links in both directions, every size of a
catalog, every configuration. The search of `cTopology` is proved right first
(`SearchFinds`): a node that reaches the target gets its distance, and exactly its nearer
neighbours as paths, each of them once; a node that does not reach it keeps the paths of
an earlier search. Its loop invariant (`SearchInv`) has four parts: the queue is in order
of distance, and the distances in it differ by one at most (`InOrder`); no link that has
been visited could shorten a distance (`Closed`); every distance is that of some path
(`Sound`); the paths of a node are the visited links to nearer nodes (`Paths`). That the
queue is empty after as many rounds as there are nodes is a count of the nodes that are
known (`AtNode`).

`TableIsRight` carries this through `populate_routing_table`. What makes it work is the
first target other than the node itself (`First`): before it the node has no stale path,
so that the node ends the program if it cannot reach that one. A later target that cannot
be reached is hidden by stale paths; but if every node reaches its first target, then all
reach node 0, and with links in both directions they all reach each other
(`AllConnected`). Hence `DisconnectionTheorem`, and from it and `GatesLeadNearer`, which
is where two parameters of the strategies come in, `ReachabilityTheorem`: the set of nodes
where an Interest may be after i hops consists of nodes whose distance is i less.
`StrategyInv`, which is inductive, adds that a link that will fail is a link.  It also says
that the tables are those of the whole network, failed links included, which is what the
code computes and not what it should; so `RoutesTheorem` and `ReachabilityTheorem`, which
say that the tables are right, are stated for as long as no channel is disabled.

`PlacementTheorem` follows `choose_repos` through both classes (`GoodPlacement`): a draw
that is not zero falls into the part of exactly one repository (`ForcedIsOne`), and sums
over the catalog are carried out (`SumFacts`). Its hypothesis `ReplicasArePositive` is
what `replicas` means; with zero replicas and one repository, which is never asked for,
the statement is false.

The assumptions: nodes are numbered from zero without gaps, as OMNeT++ does with a vector
of modules (`TopologyAssumption`); links lead both ways, as faces are inout gates; and a
node with several shortest paths to a target gives one of them a positive split factor
(`StrategyAssumption`), since `decide_out_gate` would go on drawing for ever otherwise;
weights are not all zero (`DistributionAssumption`). `MCSplit` has a factor of zero.

Recursive definitions over data are within reach as long as they are functions: the sums
of weights, the searches, the loops over periods and over targets are shown to exist
(`SumsExist`, `TailRecursion`, `CollectionExists`, `RecursionExists`, `SumExists`) and to
be what they should by the least number for which they are not (`LeastNat`), which needs
no theorem that takes an operator.

### Only model-checked
* Liveness and what rests on ENABLED: `EveryRoundIsAnswered`, `AllAnswered`, `DownloadsEnd`,
  `WindowsGoOn`.
* `NeedsNoTimer` for `parallel_repository`.
* The four statements of the sources that do not hold (section 4), for which a run has a
  counterexample.

## 6. Not modelled

The analytical model and its solver, and the cost-aware policies (floating point); the law of random draws; the rates and instants of
clients; output files, link loads and averages; memory management; the reading of
parameters and of files, with the routes read from one; prices and sizes of contents;
windows that are not whole numbers; a repository beside a store in `ContentStore` and
`TwoTtl`, which have a node without one (`CoreLayer` has both); what `checkStability` would do to the windows
of a steady engine; the parts of the topology class that ccnSim does not call.

## 7. Plan

1. *Done*: all modules of section 2; the proofs of section 5, which state every safety
   property of the passing runs.
2. Left: `NeedsNoTimer` for `parallel_repository`, which needs a bound of the TTL in terms of
   the network; tables that are read from a file; the failure scenario together with the
   packets of `Network`.
