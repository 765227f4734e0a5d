------------------------- MODULE ContentDistribution -------------------------
(***************************************************************************)
(* The placement of repositories, clients and contents at the start of a   *)
(* simulation (src/content/content_distribution.cc and its subclass in     *)
(* WeightedContentDistribution.cc).                                        *)
(*                                                                         *)
(* The parameters are those of omnetpp.ini:                                *)
(*   weighted       the class is WeightedContentDistribution               *)
(*   node_repos, node_clients, num_repos, num_clients, replicas            *)
(*   replication_admitted, catalog_split    of the subclass, the weights   *)
(*                                          in parts of Grid               *)
(* The draws of random numbers are choices; those of real numbers in       *)
(* [0, 1) are multiples of 1/Grid, zero included as in the generator.      *)
(* Sizes, prices and popularities of contents are left out.                *)
(***************************************************************************)
EXTENDS Topology

CONSTANTS
  Content,      \* the catalog, 1 .. newCardF
  Parameters,   \* the parameters a simulation may be given
  ShortBits,    \* width of the unsigned short a placement is kept in, 16
  Grid          \* bound: real numbers drawn are multiples of 1/Grid

ASSUME DistributionAssumption ==
  /\ IsFiniteSet(Content)
  /\ Grid \in Nat \ {0} /\ ShortBits \in Nat \ {0}
  /\ \A p \in Parameters :
       /\ p.weighted \in BOOLEAN /\ p.replication_admitted \in BOOLEAN
       /\ p.num_repos \in Nat \ {0} /\ p.num_clients \in Int /\ p.replicas \in Int
       /\ p.node_repos \in Seq(Nat) /\ p.node_clients \in Seq(Nat)
       /\ p.catalog_split \in [1 .. p.num_repos -> Nat]
       /\ p.weighted => \E i \in 1 .. p.num_repos : p.catalog_split[i] > 0

VARIABLES
  par,              \* the parameters, which do not change
  repositories,     \* repositories[i] is the node of the i-th repository
  clients,          \* clients[i] is the node of the i-th client
  repo,             \* the repositories of a content, indexes of repositories
  total_replicas,   \* *total_replicas_p
  drawn_zero,       \* history: the contents placed by a draw of exactly zero
  distributed,      \* initialize has returned
  error             \* the program has ended with an error message

distributionVars == <<par, repositories, clients, repo, total_replicas, drawn_zero, distributed>>

DistributionInit ==
  /\ par \in Parameters
  /\ repositories = <<>> /\ clients = <<>>
  /\ repo = [d \in Content |-> {}]
  /\ total_replicas = 0
  /\ drawn_zero = {}
  /\ distributed = FALSE
  /\ error = FALSE

-----------------------------------------------------------------------------
(***************************************************************************)
(* Nodes of the repositories and of the clients.                           *)
(***************************************************************************)

\* The nodes that are given, and then random ones until n are found, each of
\* them different from all before it.  The given ones are not compared.
Extensions(given, n) ==
  {f \in [1 .. n -> Node] :
     /\ \A i \in 1 .. Len(given) : f[i] = given[i]
     /\ \A i \in Len(given) + 1 .. n : \A j \in 1 .. i - 1 : f[j] # f[i]}

\* The checks of init_repos and init_clients on a list of given nodes.
Misplaced(given, n) ==
  \/ Len(given) > n
  \/ \E i \in 1 .. Len(given) : given[i] \notin Node

\* num_clients, all nodes if it is negative.
NumClients == IF par.num_clients < 0 THEN Cardinality(Node) ELSE par.num_clients

-----------------------------------------------------------------------------
(***************************************************************************)
(* The repositories of one content: what choose_repos returns and adds to  *)
(* the count of replicas.                                                  *)
(***************************************************************************)
Placement(repos, count, zero) == [repos |-> repos, count |-> count, zero |-> zero]

\* Mutant of BinaryStrings: too few ones are counted as enough.
BinaryStringsAtMost(num_ones, len) ==
  {s \cap 1 .. ShortBits : s \in
     {t \in SUBSET (1 .. len) : Cardinality(t \cap 1 .. ShortBits) <= num_ones} \ {{}}}

\* binary_strings: the strings of len bits with num_ones ones, which are counted
\* and kept in a short.
BinaryStrings(num_ones, len) ==
  {s \cap 1 .. ShortBits : s \in
     {t \in SUBSET (1 .. len) : Cardinality(t \cap 1 .. ShortBits) = num_ones} \ {{}}}

\* The weights of the repositories up to the i-th, of which a draw takes its part.
SplitUpTo(i) ==
  LET sum[j \in 0 .. i] == IF j = 0 THEN 0 ELSE sum[j - 1] + par.catalog_split[j]
  IN sum[i]

\* The repository a draw forces a content into: the first whose weights add up to
\* the draw.  Zero is not greater than nothing, so that none is taken, and the
\* bit that is set lies outside of the short.
Forced(draw) ==
  IF draw = 0 THEN {}
  ELSE {CHOOSE i \in 1 .. par.num_repos :
          /\ draw * SplitUpTo(par.num_repos) <= SplitUpTo(i) * Grid
          /\ draw * SplitUpTo(par.num_repos) > SplitUpTo(i - 1) * Grid}

\* The content stays with the first repository that wins its draw.
Kept(winners) == {Min(winners)}

\* The repositories that may win their own draw, when replication is admitted.
Winners ==
  IF ~par.replication_admitted THEN {{}}
  ELSE {w \in SUBSET (1 .. par.num_repos) :
          \A i \in 1 .. par.num_repos :
            IF i \in w THEN par.catalog_split[i] > 0 ELSE par.catalog_split[i] < Grid}

\* WeightedContentDistribution::choose_repos
WeightedPlacements ==
  {Placement(Kept(w), Cardinality(w), FALSE) : w \in Winners \ {{}}}
  \cup {Placement(Forced(draw), 1, draw = 0) :
          draw \in IF {} \in Winners THEN 0 .. Grid - 1 ELSE {}}

\* content_distribution::choose_repos, which is not asked if there is one repository.
PlainPlacements ==
  IF par.num_repos = 1 THEN {Placement({1}, 0, FALSE)}
  ELSE {Placement(s, 0, FALSE) : s \in BinaryStrings(par.replicas, par.num_repos)}

Placements ==
  IF par.weighted /\ par.num_repos > 1 THEN WeightedPlacements ELSE PlainPlacements

\* The configurations initialize ends with an error for: a wrong weight, nodes that
\* do not exist, prices for other than three repositories, no placement to draw
\* from, or a number of replicas that does not suit the subclass.
Refused ==
  \/ par.weighted /\ \E i \in 1 .. par.num_repos : par.catalog_split[i] > Grid
  \/ Content = {}
  \/ par.num_repos > Cardinality(Node)
  \/ Misplaced(par.node_repos, par.num_repos)
  \/ par.weighted /\ par.num_repos # 3
  \/ Misplaced(par.node_clients, NumClients)
  \/ Placements = {}
  \/ par.weighted /\ par.replicas # (IF par.replication_admitted THEN -1 ELSE 1)

\* finalize_total_replica: the plain class knows the number, the subclass has counted.
TotalReplicas(counted) ==
  IF par.weighted THEN counted ELSE Cardinality(Content) * par.replicas

\* content_distribution::initialize
Distribute ==
  /\ ~distributed /\ ~error /\ ~Refused
  /\ \E r \in Extensions(par.node_repos, par.num_repos) : repositories' = r
  /\ \E c \in Extensions(par.node_clients, NumClients) : clients' = c
  /\ \E f \in [Content -> Placements] :
       /\ repo' = [d \in Content |-> f[d].repos]
       /\ total_replicas' =
            TotalReplicas(MapThenSumSet(LAMBDA d : f[d].count, Content))
       /\ drawn_zero' = {d \in Content : f[d].zero}
  /\ distributed' = TRUE
  /\ UNCHANGED <<par, error>>

DistributeRefused ==
  /\ ~distributed /\ ~error /\ Refused
  /\ error' = TRUE
  /\ UNCHANGED distributionVars

-----------------------------------------------------------------------------
(***************************************************************************)
(* Properties.                                                             *)
(***************************************************************************)

\* The repositories are on different nodes of the network, as long as the given
\* ones are.  No content has more of them than it should: as many as there are
\* replicas in the plain class, a single one in the subclass; those without any are
\* exactly the ones of a weighted draw of zero, whatever else is drawn (that there
\* are such is against what OneRepositoryEach states).  The count of replicas,
\* which statistics reports, is never below what there is, and exact in the plain
\* class (asked for no more replicas than repositories) and without replication.
ContentIsPlaced ==
  distributed =>
    /\ IsInjective(par.node_repos) => IsInjective(repositories)
    /\ \A d \in Content :
         /\ repo[d] \subseteq 1 .. par.num_repos
         /\ repo[d] = {} <=> d \in drawn_zero
         /\ Cardinality(repo[d]) <= (IF par.weighted THEN 1 ELSE par.replicas)
    /\ LET placed == MapThenSumSet(LAMBDA d : Cardinality(repo[d]), Content \ drawn_zero)
       IN IF par.weighted
          THEN /\ total_replicas >= placed
               /\ ~par.replication_admitted => total_replicas = Cardinality(Content)
          ELSE par.replicas <= par.num_repos => total_replicas = placed

\* "we assign the object to one and only one repository"
\* (WeightedContentDistribution.cc:255), which the assertions below it repeat for every
\* content of the subclass, replicated or not: "No repo has been assigned" (line 289).
OneRepositoryEach ==
  distributed /\ par.weighted => \A d \in Content : Cardinality(repo[d]) = 1
=============================================================================
