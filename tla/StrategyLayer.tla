---------------------------- MODULE StrategyLayer ----------------------------
(***************************************************************************)
(* The forwarding tables of the nodes and the scenario of a link failure   *)
(* (src/node/strategy/strategy_layer.cc and the two ways to choose among   *)
(* paths in MonopathStrategyLayer.cc and ProbabilisticSplitStrategy.cc),   *)
(* after the repositories and the contents have been placed.               *)
(*                                                                         *)
(* A face that leads to a neighbour is named by the neighbour, which is    *)
(* what gatelu does; faces of clients do not matter here.  The routes are  *)
(* computed, not read from a file.  Simulated time shows by the order of   *)
(* the events: failures before new routes before the new model.  Two more  *)
(* parameters: fail_scenario, the link to a repository fails, and          *)
(* multipath, the strategy is a MultipathStrategyLayer.                    *)
(***************************************************************************)
EXTENDS ContentDistribution

CONSTANTS
  Topologies,    \* the networks, sets of links
  Split,         \* Split[v][w]: the split factor at v of the face that leads to w
  Spared         \* the node whose links never fail, number 2 in the code

\* A link between two nodes is one in each direction, as the faces are inout gates.
\* A node with several shortest paths gives one of them a positive factor: it would
\* not end its first draw otherwise.
ASSUME StrategyAssumption ==
  /\ \A t \in Topologies : t \subseteq Node \X Node /\ \A e \in t : <<e[2], e[1]>> \in t
  /\ Split \in [Node -> [Node -> Nat]]
  /\ \A t \in Topologies : \A v, dest \in Node :
       Cardinality(NearerNodes(t, v, dest)) > 1 =>
         \E w \in NearerNodes(t, v, dest) : Split[v][w] > 0
  /\ \A p \in Parameters : p.fail_scenario \in BOOLEAN /\ p.multipath \in BOOLEAN

VARIABLES
  links,        \* the network
  initialized,  \* how many of the nodes, in their order, have been initialised
  FIB,          \* FIB[v][dest]: the entries of node v, <<>> if there is no key
  disabled,     \* links whose channel is disabled
  failRec,      \* the neighbour at face failRecInt of a node
  failure, new_routes, new_model   \* the nodes with these messages scheduled

eventVars == <<failure, new_routes, new_model>>
routeVars == <<links, initialized, FIB, disabled, failRec, eventVars>>
vars      == <<distributionVars, error, routeVars>>

NoRoutes == [dest \in Node |-> <<>>]

Init ==
  /\ DistributionInit
  /\ links \in Topologies
  /\ initialized = 0
  /\ FIB = [v \in Node |-> NoRoutes]
  /\ disabled = {}
  /\ failRec = [v \in Node |-> v]
  /\ failure = {} /\ new_routes = {} /\ new_model = {}

-----------------------------------------------------------------------------
(***************************************************************************)
(* The table of a node: populate_routing_table.                            *)
(***************************************************************************)

\* How many of the paths choose_paths takes.  A MonopathStrategyLayer draws one of
\* them, but the caller only looks at how many were drawn.
ChosenPaths(num_paths) == IF par.multipath THEN num_paths ELSE 1

\* Mutant of Hops: the paths in the order they were found, none left out.
AllHops(paths, dist) == [i \in 1 .. Len(paths) |-> [id |-> paths[i], len |-> dist]]

\* add_FIB_entry for each of the chosen paths: getPath(i)->getLocalGate() and the
\* distance to the target.
Hops(paths, dist) ==
  [i \in 1 .. ChosenPaths(Len(paths)) |-> [id |-> paths[i], len |-> dist]]

\* The entries of node v for one target, on the cTopology object that has the paths of
\* the targets before it.  A target without paths ends the program.
AddTarget(topo, v, table, dest) ==
  LET s == ShortestPathsTo(topo, dest, table.paths) IN
  IF dest = v \/ table.failed THEN table
  ELSE IF s.outPaths[v] = <<>> THEN [table EXCEPT !.failed = TRUE]
  ELSE [table EXCEPT !.paths = s.outPaths, !.routes[dest] = Hops(s.outPaths[v], s.dist[v])]

\* One target after the other.
AddRoutes(topo, v) ==
  LET table[n \in 0 .. Cardinality(Node)] ==
        IF n = 0 THEN [paths |-> NoPaths, routes |-> NoRoutes, failed |-> FALSE]
        ELSE AddTarget(topo, v, table[n - 1], n - 1)
  IN table[Cardinality(Node)]

\* Mutant of PopulateRoutingTable: a missing path is only printed.
PopulateAnyway(v) ==
  /\ FIB' = [FIB EXCEPT ![v] = AddRoutes(Extract(links, disabled), v).routes]
  /\ UNCHANGED error

\* The table of node v replaces the one it has.
PopulateRoutingTable(v) ==
  LET table == AddRoutes(Extract(links, disabled), v) IN
  IF table.failed THEN error' = TRUE /\ UNCHANGED FIB
                  ELSE FIB' = [FIB EXCEPT ![v] = table.routes] /\ UNCHANGED error

-----------------------------------------------------------------------------
(***************************************************************************)
(* The events of a node.                                                   *)
(***************************************************************************)

\* The neighbours whose link a node makes fail: each of them schedules the same
\* message, so that a second one ends the program.
Failing(v) ==
  IF par.fail_scenario /\ v # Spared
  THEN {w \in Range(repositories) : <<v, w>> \in links} ELSE {}

\* initialize, one node after the other once the contents are distributed.
Initialize(v) ==
  /\ distributed /\ ~error /\ initialized = v
  /\ initialized' = initialized + 1
  /\ IF Cardinality(Failing(v)) > 1
     THEN error' = TRUE /\ UNCHANGED <<FIB, failRec, eventVars>>
     ELSE /\ PopulateRoutingTable(v)
          /\ failRec' = [failRec EXCEPT ![v] = IF Failing(v) = {} THEN v ELSE Min(Failing(v))]
          /\ failure' = IF Failing(v) = {} THEN failure ELSE failure \cup {v}
          /\ new_routes' = IF par.fail_scenario THEN new_routes \cup {v} ELSE new_routes
          /\ UNCHANGED new_model
  /\ UNCHANGED <<distributionVars, links, disabled>>

AllInitialized == initialized = Cardinality(Node)

\* FAILURE: both directions of the link are disabled.
Failure(v) ==
  /\ AllInitialized /\ ~error /\ v \in failure
  /\ failure' = failure \ {v}
  /\ disabled' = disabled \cup {<<v, failRec[v]>>, <<failRec[v], v>>}
  /\ UNCHANGED <<distributionVars, error, links, initialized, FIB, failRec, new_routes, new_model>>

\* NEW_ROUTES: the table is computed again, and the model is to be solved after it.
NewRoutes(v) ==
  /\ AllInitialized /\ ~error /\ failure = {} /\ v \in new_routes
  /\ PopulateRoutingTable(v)
  /\ new_routes' = new_routes \ {v}
  /\ new_model' = new_model \cup {v}
  /\ UNCHANGED <<distributionVars, links, initialized, disabled, failRec, failure>>

\* NEW_MODEL: only node 0 does something, which EngineFailure models.
NewModel(v) ==
  /\ AllInitialized /\ ~error /\ new_routes = {} /\ v \in new_model
  /\ new_model' = new_model \ {v}
  /\ UNCHANGED <<distributionVars, error, links, initialized, FIB, disabled, failRec, failure, new_routes>>

-----------------------------------------------------------------------------
(***************************************************************************)
(* Where an Interest is sent.                                              *)
(***************************************************************************)

\* get_repos: the nodes an Interest for content d may be meant for.  One of them is
\* drawn where the Interest begins its way, and kept in Rep_target.
Targets(d) == {repositories[i] : i \in repo[d]}

\* get_FIB_entry of a MonopathStrategyLayer takes the first entry; decide_out_gate
\* of ProbabilisticSplitStrategy draws a face by the split factors until it is one
\* of the entries, and does not draw if there is only one.
DecideOutGate(v, dest) ==
  LET entries == FIB[v][dest] IN
  IF ~par.multipath \/ Len(entries) = 1 THEN {entries[1].id}
  ELSE {w \in {entries[i].id : i \in 1 .. Len(entries)} : Split[v][w] > 0}

-----------------------------------------------------------------------------
\* Nothing of the strategy layer is ahead.
Done ==
  /\ error \/ (AllInitialized /\ failure \cup new_routes \cup new_model = {})
  /\ UNCHANGED vars

Next ==
  \/ (Distribute \/ DistributeRefused) /\ UNCHANGED routeVars
  \/ \E v \in Node : Initialize(v) \/ Failure(v) \/ NewRoutes(v) \/ NewModel(v)
  \/ Done

Spec == Init /\ [][Next]_vars

-----------------------------------------------------------------------------
(***************************************************************************)
(* Properties.                                                             *)
(***************************************************************************)
TypeOK ==
  /\ par \in Parameters /\ links \in Topologies
  /\ initialized \in 0 .. Cardinality(Node)
  /\ \A v, dest \in Node : \A i \in 1 .. Len(FIB[v][dest]) :
       FIB[v][dest][i] \in [id : Node, len : 0 .. Infinity]
  /\ disabled \subseteq links
  /\ failRec \in [Node -> Node]
  /\ failure \cup new_routes \cup new_model \subseteq Node

\* Every variable has its type, and as long as no channel is disabled
\* the tables of the initialised nodes are right, when they are first computed and
\* when NEW_ROUTES computes them again: a target that can be reached has entries of
\* the shortest distance over faces that come nearer to it, one of them or, with
\* several paths, each of them once.  Of the tables once a channel is disabled
\* NewRoutesAvoidFailure speaks.
RoutesAreShortest ==
  /\ TypeOK
  /\ ~error /\ disabled = {} =>
    \A v \in 0 .. initialized - 1 : \A dest \in Node \ {v} :
      Reaches(links, v, dest) =>
        LET nearer == NearerNodes(links, v, dest)
            hops   == FIB[v][dest]
            faces  == {hops[i].id : i \in 1 .. Len(hops)}
        IN /\ \A i \in 1 .. Len(hops) : hops[i].len = Distance(links, v, dest)
           /\ IF par.multipath THEN faces = nearer /\ Len(hops) = Cardinality(nearer)
                           ELSE faces \subseteq nearer /\ Len(hops) = 1

\* A network in which a node cannot be reached is reported before the simulation
\* begins, although the paths of an earlier target hide it from single nodes: each
\* of them ends the program only if it has found no path to any target before.
DisconnectionIsReported == AllInitialized /\ ~error => Connected(links)

\* Where an Interest from v to dest may be after n hops.
After(v, dest, n) ==
  LET at[i \in 0 .. n] ==
        IF i = 0 THEN {v}
        ELSE UNION {IF u = dest THEN {dest} ELSE DecideOutGate(u, dest) : u \in at[i - 1]}
  IN at[n]

\* Once the simulation begins and until a channel is disabled, an Interest for a
\* content, from whatever node, finds the repository it is meant for, by the tables
\* of the nodes on its way, which each computed on its own and draw from on its own.
ContentIsReachable ==
  AllInitialized /\ ~error /\ disabled = {} =>
    \A d \in Content, v \in Node : \A dest \in Targets(d) :
      After(v, dest, Distance(links, v, dest)) = {dest}

\* "Each node will recompute new routes after a transient period (after the
\* failure)" (strategy_layer.cc:114): the tables then avoid the link that failed,
\* if the network holds together without it.
NewRoutesAvoidFailure ==
  AllInitialized /\ ~error /\ failure \cup new_routes = {} /\ Connected(links \ disabled) =>
    \A v, dest \in Node : v # dest => \E w \in DecideOutGate(v, dest) : <<v, w>> \notin disabled
=============================================================================
