------------------------------ MODULE MCNetwork ------------------------------
(***************************************************************************)
(* Instances of Network for TLC: a chain of four nodes, the first with a   *)
(* repository, and the last for the strategies that ask several at once.   *)
(***************************************************************************)
EXTENDS Network

MCNode == 1 .. 4

MCDist == [n \in MCNode |-> [d \in MCNode |-> IF n < d THEN d - n ELSE n - d]]

MCNextHop == [n \in MCNode |-> [d \in MCNode |->
               CASE n < d -> n + 1 [] n > d -> n - 1 [] OTHER -> n]]

\* A configuration in which each client asks once, but client 3 that often.
Scenario(strategy, aggregation, nodes, often, times) ==
  [FS |-> strategy, interest_aggregation |-> aggregation, repos |-> nodes,
   requests |-> [n \in 2 .. 4 |-> IF n = 3 THEN often ELSE 1], evictions |-> times]

MCScenarios ==
  {Scenario(s, b, {1}, 2, 1) : s \in {"spr", "nrr"}, b \in BOOLEAN}
    \cup {Scenario("nrr1", b, {1, 4}, 1, 1) : b \in BOOLEAN}
    \cup {Scenario("nrr1", TRUE, {1}, 1, 0),
          Scenario("parallel_repository", TRUE, {1, 4}, 1, 0),
          Scenario("random_repository", TRUE, {1}, 1, 0)}

MCOnlyNrr == {Scenario("nrr", TRUE, {1}, 2, 2)}
=============================================================================
