------------------------------ MODULE Topology ------------------------------
(***************************************************************************)
(* The shortest paths of the patched OMNeT++ (patch/omnet-5x/ctopology.cc) *)
(* as the strategy layer of ccnSim asks for them.                          *)
(*                                                                         *)
(* A topology is a set of links <<src, dest>> between nodes, which are     *)
(* numbered as their modules are.  Every link has its weight of one, since *)
(* nobody calls extractWeight, and every node and link is enabled: a       *)
(* disabled channel is not looked at when the topology is extracted.       *)
(*                                                                         *)
(* A search leaves its results in the nodes, and only some of them are     *)
(* reset by the next search on the same cTopology object: outPaths is not. *)
(***************************************************************************)
EXTENDS Integers, SequencesExt

CONSTANT Node

ASSUME TopologyAssumption == IsFiniteSet(Node) /\ Node = 0 .. Cardinality(Node) - 1

\* INFINITY, a distance no path has.
Infinity == 2 * Cardinality(Node) + 1

\* extractFromNetwork: every link between two nodes, whatever its channel is like.
Extract(links, disabled) == links

\* The topology as it is when nothing has been searched yet.
NoPaths == [v \in Node |-> <<>>]

\* The beginning of a search: distances are reset, the paths found before stay.
SearchFrom(target, paths) ==
  [dist     |-> [v \in Node |-> IF v = target THEN 0 ELSE Infinity],
   known    |-> [v \in Node |-> FALSE],
   outPaths |-> paths,
   q        |-> <<target>>]

\* Mutant of Visit: the paths found before are kept when a node is reached.
VisitKeeps(s, dest, src) ==
  CASE s.dist[src] = Infinity \/ (~s.known[src] /\ s.dist[src] > s.dist[dest] + 1) ->
         [s EXCEPT !.dist[src] = s.dist[dest] + 1,
                   !.outPaths[src] = Append(@, dest), !.q = Append(@, src)]
    [] s.dist[src] # Infinity /\ ~s.known[src] /\ s.dist[src] = s.dist[dest] + 1 ->
         [s EXCEPT !.outPaths[src] = Append(@, dest)]
    [] OTHER -> s

\* The link from src to dest, when dest has been taken from the queue: src is
\* reached for the first time, or on one more path that is as short.
Visit(s, dest, src) ==
  CASE s.dist[src] = Infinity \/ (~s.known[src] /\ s.dist[src] > s.dist[dest] + 1) ->
         [s EXCEPT !.dist[src] = s.dist[dest] + 1,
                   !.outPaths[src] = <<dest>>, !.q = Append(@, src)]
    [] s.dist[src] # Infinity /\ ~s.known[src] /\ s.dist[src] = s.dist[dest] + 1 ->
         [s EXCEPT !.outPaths[src] = Append(@, dest)]
    [] OTHER -> s

\* The next node of the queue becomes known, and all its in-links are visited, in the
\* order of the nodes they come from.
Pop(links, s) ==
  LET dest == Head(s.q)
      visit[n \in 0 .. Cardinality(Node)] ==
        IF n = 0 THEN [s EXCEPT !.q = Tail(@), !.known[dest] = TRUE]
        ELSE IF <<n - 1, dest>> \in links THEN Visit(visit[n - 1], dest, n - 1)
        ELSE visit[n - 1]
  IN visit[Cardinality(Node)]

\* weightedMultiShortestPathsTo: the queue takes every node at most once.
ShortestPathsTo(links, target, paths) ==
  LET search[k \in 0 .. Cardinality(Node)] ==
        IF k = 0 THEN SearchFrom(target, paths)
        ELSE LET s == search[k - 1] IN IF s.q = <<>> THEN s ELSE Pop(links, s)
  IN search[Cardinality(Node)]

-----------------------------------------------------------------------------
(***************************************************************************)
(* What the searches should find.                                          *)
(***************************************************************************)

\* The nodes from which target is at most k links away.
Within(links, target, k) ==
  LET reach[i \in 0 .. k] ==
        IF i = 0 THEN {target}
        ELSE reach[i - 1] \cup {u \in Node : \E w \in reach[i - 1] : <<u, w>> \in links}
  IN reach[k]

Reaches(links, v, target) == v \in Within(links, target, Cardinality(Node))

Connected(links) == \A v, w \in Node : Reaches(links, v, w)

\* The number of links from v to a target it reaches.
Distance(links, v, target) ==
  CHOOSE k \in 0 .. Cardinality(Node) :
    v \in Within(links, target, k) /\ (k > 0 => v \notin Within(links, target, k - 1))

\* The neighbours of v that are one link less away from a target it reaches.
NearerNodes(links, v, target) ==
  {w \in Node : /\ <<v, w>> \in links /\ Reaches(links, w, target)
                /\ Distance(links, w, target) = Distance(links, v, target) - 1}
=============================================================================
