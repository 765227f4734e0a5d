--------------------------- MODULE MCStrategyLayer ---------------------------
(***************************************************************************)
(* Instances of StrategyLayer for TLC: four nodes, two contents.           *)
(***************************************************************************)
EXTENDS StrategyLayer

MCNode == 0 .. 3
MCContent == 1 .. 2

\* The networks that have these undirected links.
Both(edges) == edges \cup {<<e[2], e[1]>> : e \in edges}

\* A ring, a ring with a chord, a chain, a star, a triangle with a tail, and two
\* networks that fall apart: two pairs, and a lone node 3.
MCTopologies ==
  {Both({<<0, 1>>, <<1, 2>>, <<2, 3>>, <<3, 0>>}),
   Both({<<0, 1>>, <<1, 2>>, <<2, 3>>, <<3, 0>>, <<0, 2>>}),
   Both({<<0, 1>>, <<1, 2>>, <<2, 3>>}),
   Both({<<0, 3>>, <<1, 3>>, <<2, 3>>}),
   Both({<<0, 1>>, <<0, 2>>, <<1, 2>>, <<2, 3>>}),
   Both({<<0, 1>>, <<2, 3>>}),
   Both({<<0, 1>>, <<1, 2>>, <<2, 0>>})}

\* Node 0 never takes the face that leads to node 1 when it has another.
MCSplit == [v \in MCNode |-> [w \in MCNode |-> IF v = 0 /\ w = 1 THEN 0 ELSE 1]]

Plain(node_repos, num_repos, num_clients, replicas) ==
  [weighted |-> FALSE, replication_admitted |-> FALSE,
   node_repos |-> node_repos, num_repos |-> num_repos,
   node_clients |-> <<0>>, num_clients |-> num_clients, replicas |-> replicas,
   catalog_split |-> [i \in 1 .. num_repos |-> 0],
   fail_scenario |-> TRUE, multipath |-> FALSE]

Weighted(admitted, num_repos, replicas, split) ==
  [Plain(<<3, 1, 2>>, num_repos, 1, replicas) EXCEPT
     !.weighted = TRUE, !.replication_admitted = admitted, !.catalog_split = split]

Multipath(p)     == [p EXCEPT !.multipath = TRUE]
WithoutFailure(p) == [p EXCEPT !.fail_scenario = FALSE]

\* One repository, also with all nodes as clients; two replicas in three; the
\* subclass without and with replication.
MCAccepted ==
  {Plain(<<>>, 1, 1, 1), Multipath(Plain(<<1, 3>>, 2, 1, 1)),
   WithoutFailure(Plain(<<1>>, 3, 1, 2)), WithoutFailure(Multipath(Plain(<<2>>, 1, -1, 1))),
   Weighted(FALSE, 3, 1, <<1, 3, 0>>),
   WithoutFailure(Multipath(Weighted(TRUE, 3, -1, <<1, 4, 2>>)))}

\* Configurations that are refused, each for a reason of its own.
MCRefused ==
  {Plain(<<0, 1>>, 1, 1, 1), Plain(<<7>>, 1, 1, 1), Plain(<<0, 1>>, 2, 1, 3),
   Plain(<<>>, 5, 1, 1), Plain(<<0>>, 2, 0, 1),
   Weighted(TRUE, 3, 1, <<1, 1, 1>>), Weighted(FALSE, 3, 1, <<1, 5, 1>>),
   Weighted(FALSE, 2, 1, <<1, 1>>)}

MCParameters == MCAccepted \cup MCRefused
=============================================================================
