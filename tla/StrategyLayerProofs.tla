------------------------ MODULE StrategyLayerProofs ------------------------
(***************************************************************************)
(* Proofs about the start of a simulation: the search for shortest paths,  *)
(* the forwarding tables that come of it, and the ways of Interests.       *)
(***************************************************************************)
EXTENDS StrategyLayer, FunctionTheorems, FiniteSetTheorems, NaturalsInduction,
        WellFoundedInduction, TLAPS

-----------------------------------------------------------------------------
(***************************************************************************)
(* Numbers and recursive functions.                                        *)
(***************************************************************************)

\* Every set of natural numbers that is not empty has a least one.
LEMMA LeastNat ==
  ASSUME NEW T, T \subseteq Nat, T # {}
  PROVE  \E n \in T : \A m \in T : n <= m
<1>1. \E n \in T : \A m \in T : ~(<<m, n>> \in OpToRel(<, Nat))
  BY NatLessThanWellFounded, WFMin, Zenon
<1>2. \A m \in Nat, n \in Nat : m < n => <<m, n>> \in OpToRel(<, Nat)
  BY Zenon DEF OpToRel
<1>3. \A m \in Nat, n \in Nat : ~(m < n) => n <= m
  OBVIOUS
<1> QED
  BY <1>1, <1>2, <1>3, Zenon

\* A set that holds zero and the successor of each of its numbers holds all numbers.
LEMMA Steps ==
  ASSUME NEW n \in Nat, NEW G, 0 \in G, \A k \in 1 .. n : k - 1 \in G => k \in G
  PROVE  \A k \in 0 .. n : k \in G
<1> DEFINE T == {k \in 0 .. n : k \notin G}
<1> SUFFICES ASSUME T # {} PROVE FALSE
  OBVIOUS
<1>1. PICK k \in T : \A m \in T : k <= m
  <2>1. T \subseteq Nat
    OBVIOUS
  <2> HIDE DEF T
  <2> QED
    BY <2>1, LeastNat
<1>2. k \in 1 .. n /\ k - 1 \in 0 .. n /\ ~(k <= k - 1)
  BY <1>1
<1>3. k - 1 \in G
  BY <1>1, <1>2
<1> QED
  BY <1>1, <1>2, <1>3

\* The same for the numbers without an end.
LEMMA StepsForEver ==
  ASSUME NEW G, 0 \in G, \A k \in Nat : k \in G => k + 1 \in G
  PROVE  \A k \in Nat : k \in G
<1> SUFFICES ASSUME NEW k \in Nat PROVE k \in G
  OBVIOUS
<1>1. \A m \in 1 .. k : m - 1 \in G => m \in G
  OBVIOUS
<1>2. \A m \in 0 .. k : m \in G
  BY <1>1, Steps
<1> QED
  BY <1>2

\* A function on 0 .. n that makes each of its values of the one before.
Recurs(f, n, b, nx) == f = [k \in 0 .. n |-> IF k = 0 THEN b ELSE nx[k][f[k - 1]]]

\* It exists.
LEMMA RecursionExists ==
  ASSUME NEW n \in Nat, NEW S, NEW b \in S, NEW nx \in [1 .. n -> [S -> S]]
  PROVE  \E f \in [0 .. n -> S] : Recurs(f, n, b, nx)
<1> DEFINE G == {k \in Nat : \E f \in [0 .. k -> S] : Recurs(f, k, b, nx)}
<1>1. 0 \in G
  <2>1. Recurs([i \in 0 .. 0 |-> b], 0, b, nx)
    BY DEF Recurs
  <2>2. [i \in 0 .. 0 |-> b] \in [0 .. 0 -> S]
    OBVIOUS
  <2> QED
    BY <2>1, <2>2
<1>2. ASSUME NEW k \in 1 .. n, k - 1 \in G PROVE k \in G
  <2>1. PICK f \in [0 .. k - 1 -> S] : Recurs(f, k - 1, b, nx)
    BY <1>2
  <2>2. \A i \in 0 .. k - 1 : f[i] = IF i = 0 THEN b ELSE nx[i][f[i - 1]]
    BY <2>1 DEF Recurs
  <2>3. PICK g : g = [i \in 0 .. k |-> IF i = k THEN nx[k][f[k - 1]] ELSE f[i]]
    OBVIOUS
  <2>4. nx[k][f[k - 1]] \in S
    <3>1. f[k - 1] \in S /\ nx[k] \in [S -> S]
      OBVIOUS
    <3> QED
      BY <3>1
  <2>5. g \in [0 .. k -> S]
    BY <2>3, <2>4
  <2>6. ASSUME NEW i \in 0 .. k PROVE g[i] = IF i = 0 THEN b ELSE nx[i][g[i - 1]]
    <3>1. CASE i = k
      <4>1. g[i - 1] = f[k - 1] /\ g[i] = nx[k][f[k - 1]]
        BY <2>3, <3>1
      <4> QED
        BY <3>1, <4>1
    <3>2. CASE i # k
      <4>1. i \in 0 .. k - 1 /\ g[i] = f[i] /\ (i # 0 => g[i - 1] = f[i - 1])
        BY <2>3, <3>2
      <4> QED
        BY <2>2, <4>1
    <3> QED
      BY <3>1, <3>2
  <2>7. Recurs(g, k, b, nx)
    BY <2>5, <2>6 DEF Recurs
  <2> QED
    BY <2>5, <2>7
<1> HIDE DEF G
<1>3. \A k \in 0 .. n : k \in G
  BY <1>1, <1>2, Steps
<1>4. n \in G
  BY <1>3
<1> QED
  BY <1>4 DEF G

-----------------------------------------------------------------------------
(***************************************************************************)
(* Distances.                                                              *)
(***************************************************************************)

\* The nodes of a set, and those one link before them.
OneBefore(net, W) == W \cup {u \in Node : \E w \in W : <<u, w>> \in net}

\* The recursive function of Within.
IsReach(f, net, t, k) ==
  f = [i \in 0 .. k |-> IF i = 0 THEN {t}
                        ELSE f[i - 1] \cup {u \in Node : \E w \in f[i - 1] : <<u, w>> \in net}]

\* Within is the last value of its recursive function, which exists.
LEMMA ReachExists ==
  ASSUME NEW net, NEW t \in Node, NEW k \in Nat
  PROVE  \E f \in [0 .. k -> SUBSET Node] : IsReach(f, net, t, k) /\ Within(net, t, k) = f[k]
<1>1. PICK nx : nx = [i \in 1 .. k |-> [W \in SUBSET Node |-> OneBefore(net, W)]]
  OBVIOUS
<1>2. nx \in [1 .. k -> [SUBSET Node -> SUBSET Node]]
  BY <1>1 DEF OneBefore
<1>3. {t} \in SUBSET Node
  OBVIOUS
<1>4. PICK f \in [0 .. k -> SUBSET Node] : Recurs(f, k, {t}, nx)
  BY <1>2, <1>3, RecursionExists
<1>5. ASSUME NEW i \in 0 .. k
      PROVE  (IF i = 0 THEN {t} ELSE nx[i][f[i - 1]])
               = IF i = 0 THEN {t}
                 ELSE f[i - 1] \cup {u \in Node : \E w \in f[i - 1] : <<u, w>> \in net}
  <2>1. CASE i = 0
    BY <2>1
  <2>2. CASE i # 0
    <3>1. i \in 1 .. k /\ i - 1 \in 0 .. k
      BY <2>2
    <3>2. f[i - 1] \in SUBSET Node
      BY <3>1
    <3>3. nx[i][f[i - 1]] = OneBefore(net, f[i - 1])
      BY <1>1, <3>1, <3>2
    <3> QED
      BY <2>2, <3>3 DEF OneBefore
  <2> QED
    BY <2>1, <2>2
<1>6. IsReach(f, net, t, k)
  BY <1>4, <1>5 DEF Recurs, IsReach
<1>7. PICK g : g = CHOOSE h : IsReach(h, net, t, k)
  OBVIOUS
<1>8. IsReach(g, net, t, k)
  BY <1>6, <1>7, Zenon
<1>9. Within(net, t, k) = g[k]
  BY <1>7, Zenon DEF Within, IsReach
<1>10. g = f
  <2>1. \A i \in 0 .. k : f[i] = IF i = 0 THEN {t} ELSE OneBefore(net, f[i - 1])
    BY <1>6, Zenon DEF IsReach, OneBefore
  <2>2. \A i \in 0 .. k : g[i] = IF i = 0 THEN {t} ELSE OneBefore(net, g[i - 1])
    BY <1>8, Zenon DEF IsReach, OneBefore
  <2> DEFINE G == {i \in 0 .. k : f[i] = g[i]}
  <2>3. 0 \in G
    <3>1. 0 \in 0 .. k
      OBVIOUS
    <3> QED
      BY <2>1, <2>2, <3>1
  <2>4. ASSUME NEW i \in 1 .. k, i - 1 \in G PROVE i \in G
    <3>1. i \in 0 .. k /\ i # 0
      OBVIOUS
    <3> QED
      BY <2>1, <2>2, <2>4, <3>1
  <2> HIDE DEF G
  <2>5. \A i \in 0 .. k : i \in G
    BY <2>3, <2>4, Steps
  <2>6. \A i \in 0 .. k : f[i] = g[i]
    BY <2>5 DEF G
  <2>7. f = [i \in 0 .. k |-> f[i]] /\ g = [i \in 0 .. k |-> g[i]]
    BY <1>6, <1>8 DEF IsReach
  <2> QED
    BY <2>6, <2>7
<1> QED
  BY <1>6, <1>9, <1>10

\* What is at most k + 1 links away is at most k links away or one link before that.
LEMMA WithinSteps ==
  ASSUME NEW net, NEW t \in Node
  PROVE  /\ Within(net, t, 0) = {t}
         /\ \A k \in Nat : /\ Within(net, t, k) \subseteq Node
                           /\ Within(net, t, k + 1) = OneBefore(net, Within(net, t, k))
<1>1. Within(net, t, 0) = {t}
  <2>1. PICK f \in [0 .. 0 -> SUBSET Node] : IsReach(f, net, t, 0) /\ Within(net, t, 0) = f[0]
    BY ReachExists
  <2> QED
    BY <2>1 DEF IsReach
<1>2. ASSUME NEW k \in Nat
      PROVE  /\ Within(net, t, k) \subseteq Node
             /\ Within(net, t, k + 1) = OneBefore(net, Within(net, t, k))
  <2>1. PICK f \in [0 .. k -> SUBSET Node] : IsReach(f, net, t, k) /\ Within(net, t, k) = f[k]
    BY ReachExists
  <2>2. PICK g \in [0 .. k + 1 -> SUBSET Node] :
          IsReach(g, net, t, k + 1) /\ Within(net, t, k + 1) = g[k + 1]
    BY ReachExists
  <2>3. \A i \in 0 .. k : f[i] = IF i = 0 THEN {t} ELSE OneBefore(net, f[i - 1])
    BY <2>1, Zenon DEF IsReach, OneBefore
  <2>4. \A i \in 0 .. k + 1 : g[i] = IF i = 0 THEN {t} ELSE OneBefore(net, g[i - 1])
    BY <2>2, Zenon DEF IsReach, OneBefore
  <2> DEFINE G == {i \in 0 .. k : f[i] = g[i]}
  <2>5. 0 \in G
    <3>1. 0 \in 0 .. k /\ 0 \in 0 .. k + 1
      OBVIOUS
    <3> QED
      BY <2>3, <2>4, <3>1
  <2>6. ASSUME NEW i \in 1 .. k, i - 1 \in G PROVE i \in G
    <3>1. i \in 0 .. k /\ i \in 0 .. k + 1 /\ i # 0
      OBVIOUS
    <3> QED
      BY <2>3, <2>4, <2>6, <3>1
  <2> HIDE DEF G
  <2>7. k \in G
    BY <2>5, <2>6, Steps, SMTT(30)
  <2>8. f[k] = g[k]
    BY <2>7 DEF G
  <2>9. k + 1 \in 0 .. k + 1 /\ k + 1 # 0 /\ (k + 1) - 1 = k
    OBVIOUS
  <2>10. g[k + 1] = OneBefore(net, g[k])
    BY <2>4, <2>9
  <2> QED
    BY <2>1, <2>2, <2>8, <2>10
<1> QED
  BY <1>1, <1>2

\* More links lead to more nodes.
LEMMA WithinGrows ==
  ASSUME NEW net, NEW t \in Node, NEW j \in Nat, NEW k \in Nat, j <= k
  PROVE  Within(net, t, j) \subseteq Within(net, t, k)
<1> DEFINE G == {i \in Nat : Within(net, t, j) \subseteq Within(net, t, j + i)}
<1>1. 0 \in G
  OBVIOUS
<1>2. ASSUME NEW i \in Nat, i \in G PROVE i + 1 \in G
  <2>1. j + i \in Nat /\ j + (i + 1) = (j + i) + 1
    OBVIOUS
  <2>2. Within(net, t, (j + i) + 1) = OneBefore(net, Within(net, t, j + i))
    BY <2>1, WithinSteps
  <2>3. Within(net, t, j + i) \subseteq Within(net, t, (j + i) + 1)
    BY <2>2 DEF OneBefore
  <2> QED
    BY <1>2, <2>1, <2>3
<1> HIDE DEF G
<1>3. \A i \in Nat : i \in G
  BY <1>1, <1>2, StepsForEver
<1>4. k - j \in Nat /\ j + (k - j) = k
  OBVIOUS
<1>5. k - j \in G
  BY <1>3, <1>4
<1> QED
  BY <1>4, <1>5 DEF G

-----------------------------------------------------------------------------
(***************************************************************************)
(* Lists.                                                                  *)
(***************************************************************************)

\* The first n of o are the members of W, each of them once.
Lists(o, n, W) ==
  /\ \A i \in 1 .. n : o[i] \in W
  /\ \A w \in W : \E i \in 1 .. n : o[i] = w
  /\ \A i, j \in 1 .. n : i # j => o[i] # o[j]

\* A list stays one of different things when a new thing is added to it.
LEMMA AppendLists ==
  ASSUME NEW S, NEW o \in Seq(S), NEW W, Lists(o, Len(o), W), NEW d \in S, d \notin W
  PROVE  Lists(Append(o, d), Len(Append(o, d)), W \cup {d})
<1>1. PICK n, p : n = Len(o) /\ p = Append(o, d)
  OBVIOUS
<1>2. n \in Nat /\ Len(p) = n + 1 /\ p[n + 1] = d /\ \A i \in 1 .. n : p[i] = o[i]
  BY <1>1
<1>3. Lists(o, n, W)
  BY <1>1
<1> SUFFICES Lists(p, n + 1, W \cup {d})
  BY <1>1, <1>2
<1>4. \A i \in 1 .. n + 1 : i \in 1 .. n \/ i = n + 1
  BY <1>2
<1>5. \A i \in 1 .. n : i \in 1 .. n + 1
  BY <1>2
<1>6. n + 1 \in 1 .. n + 1
  BY <1>2
<1> QED
  BY <1>2, <1>3, <1>4, <1>5, <1>6, SMTT(30) DEF Lists

-----------------------------------------------------------------------------
(***************************************************************************)
(* One search: what holds after every visit of a link.  D, K, O, Q are the *)
(* dist, known, outPaths and q of the search; seen are the links it has    *)
(* visited, l is the distance of the node it is at, c the number of nodes  *)
(* it has been at, and P the paths of the searches before it.              *)
(***************************************************************************)
N == Cardinality(Node)

\* The n nodes of the queue have been reached and not been at, the nearer first.
InOrder(D, K, Q, n, l) ==
  /\ \A i \in 1 .. n : Q[i] \in Node /\ ~K[Q[i]] /\ D[Q[i]] >= l /\ D[Q[i]] <= l + 1
  /\ \A i, j \in 1 .. n : i < j => Q[i] # Q[j] /\ D[Q[i]] <= D[Q[j]]
  /\ \A v \in Node : D[v] # Infinity /\ ~K[v] => \E i \in 1 .. n : Q[i] = v
  /\ \A v \in Node : K[v] => D[v] <= l

\* No visit could shorten a distance.
Closed(D, K, seen) ==
  \A u, w \in Node : <<u, w>> \in seen => K[w] /\ D[u] <= D[w] + 1

\* There is a path of every distance that has been found.
Sound(D, net, t, c) ==
  /\ D[t] = 0
  /\ \A v \in Node : D[v] # Infinity => D[v] <= c /\ v \in Within(net, t, D[v])

\* The links visited that lead from a node to a nearer one.
Nearer(D, seen, v) == {w \in Node : <<v, w>> \in seen /\ D[w] + 1 = D[v]}

\* The paths of a node are these links, each of them once; those of the target
\* and of the nodes not reached are left from before.
Paths(D, O, t, seen, P) ==
  \A v \in Node : IF v = t \/ D[v] = Infinity THEN O[v] = P[v]
                  ELSE Lists(O[v], Len(O[v]), Nearer(D, seen, v))

\* The number of nodes, and the distance no path has.
LEMMA SizeIsNat == N \in Nat /\ Node = 0 .. N - 1 /\ Infinity = 2 * N + 1
<1>1. N \in Nat
  BY TopologyAssumption, FS_CardinalityType DEF N
<1> QED
  BY <1>1, TopologyAssumption DEF N, Infinity

\* All of this holds, and the link from src to d, at which the search is, has not been
\* visited yet.
AtLink(D, K, O, Q, n, net, t, l, c, seen, P, d, src) ==
  /\ D \in [Node -> Nat] /\ K \in [Node -> BOOLEAN] /\ O \in [Node -> Seq(Node)]
  /\ Q \in Seq(Node) /\ n = Len(Q)
  /\ t \in Node /\ l \in Nat /\ c \in Nat /\ l + 1 <= c /\ c <= N
  /\ InOrder(D, K, Q, n, l) /\ Closed(D, K, seen)
  /\ Sound(D, net, t, c) /\ Paths(D, O, t, seen, P)
  /\ d \in Node /\ src \in Node /\ K[d] /\ D[d] = l
  /\ <<src, d>> \in net /\ <<src, d>> \notin seen

Farther(D, src, l) == [D EXCEPT ![src] = l + 1]
OnePath(O, src, d) == [O EXCEPT ![src] = <<d>>]
OnePathMore(O, src, d) == [O EXCEPT ![src] = Append(@, d)]

\* What is known when a link is looked at, spelled out.
LEMMA AtLinkFacts ==
  ASSUME NEW D, NEW K, NEW O, NEW Q, NEW n, NEW net, NEW t, NEW l, NEW c, NEW seen, NEW P,
         NEW d, NEW src, AtLink(D, K, O, Q, n, net, t, l, c, seen, P, d, src)
  PROVE  /\ D \in [Node -> Nat] /\ K \in [Node -> BOOLEAN] /\ O \in [Node -> Seq(Node)]
         /\ Q \in Seq(Node) /\ n = Len(Q) /\ n \in Nat
         /\ t \in Node /\ l \in Nat /\ c \in Nat /\ l + 1 <= c /\ c <= N
         /\ InOrder(D, K, Q, n, l) /\ Closed(D, K, seen)
         /\ Sound(D, net, t, c) /\ Paths(D, O, t, seen, P)
         /\ d \in Node /\ src \in Node /\ K[d] /\ D[d] = l
         /\ <<src, d>> \in net /\ <<src, d>> \notin seen
         /\ N \in Nat /\ Infinity = 2 * N + 1 /\ l < N /\ l + 1 < Infinity
         /\ \A v \in Node : K[v] => D[v] <= l
         /\ D[t] = 0
<1>1. /\ D \in [Node -> Nat] /\ K \in [Node -> BOOLEAN] /\ O \in [Node -> Seq(Node)]
      /\ Q \in Seq(Node) /\ n = Len(Q)
      /\ t \in Node /\ l \in Nat /\ c \in Nat /\ l + 1 <= c /\ c <= N
      /\ InOrder(D, K, Q, n, l) /\ Closed(D, K, seen)
      /\ Sound(D, net, t, c) /\ Paths(D, O, t, seen, P)
      /\ d \in Node /\ src \in Node /\ K[d] /\ D[d] = l
      /\ <<src, d>> \in net /\ <<src, d>> \notin seen
  BY DEF AtLink
<1>2. n \in Nat
  BY <1>1
<1>3. N \in Nat /\ Infinity = 2 * N + 1 /\ l < N /\ l + 1 < Infinity
  BY <1>1, SizeIsNat
<1>4. \A v \in Node : K[v] => D[v] <= l
  BY <1>1 DEF InOrder
<1>5. D[t] = 0
  BY <1>1 DEF Sound
<1> QED
  BY <1>1, <1>2, <1>3, <1>4, <1>5

\* A node is reached for the first time: the queue.
LEMMA QueueGrows ==
  ASSUME NEW D, NEW K, NEW O, NEW Q, NEW n, NEW net, NEW t, NEW l, NEW c, NEW seen, NEW P,
         NEW d, NEW src, AtLink(D, K, O, Q, n, net, t, l, c, seen, P, d, src), D[src] = Infinity
  PROVE  InOrder(Farther(D, src, l), K, Append(Q, src), n + 1, l)
<1>00. /\ D \in [Node -> Nat] /\ K \in [Node -> BOOLEAN] /\ O \in [Node -> Seq(Node)]
       /\ Q \in Seq(Node) /\ n = Len(Q) /\ n \in Nat
       /\ t \in Node /\ l \in Nat /\ c \in Nat /\ l + 1 <= c /\ c <= N
       /\ InOrder(D, K, Q, n, l) /\ Closed(D, K, seen)
       /\ Sound(D, net, t, c) /\ Paths(D, O, t, seen, P)
       /\ d \in Node /\ src \in Node /\ K[d] /\ D[d] = l
       /\ <<src, d>> \in net /\ <<src, d>> \notin seen
       /\ \A v \in Node : K[v] => D[v] <= l
       /\ D[t] = 0
  BY AtLinkFacts, SMTT(30)
<1>01. PICK D2, Q2 : D2 = [D EXCEPT ![src] = l + 1] /\ Q2 = Append(Q, src)
  OBVIOUS
<1> SUFFICES InOrder(D2, K, Q2, n + 1, l)
  BY <1>01 DEF Farther
<1>0. /\ D2 \in [Node -> Nat] /\ D2[src] = l + 1 /\ \A v \in Node : v # src => D2[v] = D[v]
      /\ Q2[n + 1] = src /\ \A i \in 1 .. n : Q2[i] = Q[i]
  BY <1>00, <1>01
<1>02. /\ D \in [Node -> Nat] /\ K \in [Node -> BOOLEAN]
       /\ l \in Nat /\ l + 1 <= N /\ InOrder(D, K, Q, n, l) /\ src \in Node /\ n \in Nat
  <2>1. l + 1 <= N
    <3>1. N \in Nat
      BY SizeIsNat
    <3> QED
      BY <1>00, <3>1
  <2> QED
    BY <1>00, <2>1
<1> USE <1>0, <1>02
<1>1. N \in Nat /\ Infinity = 2 * N + 1 /\ Infinity \in Nat /\ l + 1 < Infinity
  BY SizeIsNat
<1>2. ~K[src]
  BY <1>1 DEF InOrder
<1>3. ASSUME NEW i \in 1 .. n
      PROVE  /\ i \in 1 .. n + 1 /\ Q[i] \in Node /\ Q[i] # src /\ ~K[Q[i]]
             /\ D[Q[i]] >= l /\ D[Q[i]] <= l + 1 /\ D2[Q[i]] = D[Q[i]]
  <2>1. Q[i] \in Node /\ ~K[Q[i]] /\ D[Q[i]] >= l /\ D[Q[i]] <= l + 1
    BY DEF InOrder
  <2>2. Q[i] # src
    BY <1>1, <2>1
  <2> QED
    BY <2>1, <2>2
<1>4. \A i \in 1 .. n + 1 : i \in 1 .. n \/ i = n + 1
  OBVIOUS
<1>5. ASSUME NEW i \in 1 .. n + 1
      PROVE  Q2[i] \in Node /\ ~K[Q2[i]] /\ D2[Q2[i]] >= l /\ D2[Q2[i]] <= l + 1
  BY <1>2, <1>3, <1>4
<1>6. ASSUME NEW i \in 1 .. n + 1, NEW j \in 1 .. n + 1, i < j
      PROVE  Q2[i] # Q2[j] /\ D2[Q2[i]] <= D2[Q2[j]]
  <2>1. i \in 1 .. n
    BY <1>6
  <2>2. CASE j = n + 1
    BY <1>3, <2>1, <2>2
  <2>3. CASE j \in 1 .. n
    <3>1. Q[i] # Q[j] /\ D[Q[i]] <= D[Q[j]]
      BY <1>6, <2>1, <2>3 DEF InOrder
    <3> QED
      BY <1>3, <2>1, <2>3, <3>1
  <2> QED
    BY <1>4, <2>2, <2>3
<1>7. ASSUME NEW v \in Node, D2[v] # Infinity, ~K[v] PROVE \E i \in 1 .. n + 1 : Q2[i] = v
  <2>1. CASE v = src
    <3>1. n + 1 \in 1 .. n + 1
      OBVIOUS
    <3> QED
      BY <2>1, <3>1
  <2>2. CASE v # src
    <3>1. PICK i \in 1 .. n : Q[i] = v
      BY <1>7, <2>2 DEF InOrder
    <3> QED
      BY <1>3, <3>1
  <2> QED
    BY <2>1, <2>2
<1>8. \A v \in Node : K[v] => D2[v] <= l
  BY <1>2 DEF InOrder
<1> QED
  BY <1>5, <1>6, <1>7, <1>8 DEF InOrder

\* A node is reached for the first time: distances and paths.
LEMMA VisitReaches ==
  ASSUME NEW D, NEW K, NEW O, NEW Q, NEW n, NEW net, NEW t, NEW l, NEW c, NEW seen, NEW P,
         NEW d, NEW src, AtLink(D, K, O, Q, n, net, t, l, c, seen, P, d, src), D[src] = Infinity
  PROVE  /\ Closed(Farther(D, src, l), K, seen \cup {<<src, d>>})
         /\ Sound(Farther(D, src, l), net, t, c)
         /\ Paths(Farther(D, src, l), OnePath(O, src, d), t, seen \cup {<<src, d>>}, P)
<1>00. /\ D \in [Node -> Nat] /\ K \in [Node -> BOOLEAN] /\ O \in [Node -> Seq(Node)]
       /\ Q \in Seq(Node) /\ n = Len(Q) /\ n \in Nat
       /\ t \in Node /\ l \in Nat /\ c \in Nat /\ l + 1 <= c /\ c <= N
       /\ InOrder(D, K, Q, n, l) /\ Closed(D, K, seen)
       /\ Sound(D, net, t, c) /\ Paths(D, O, t, seen, P)
       /\ d \in Node /\ src \in Node /\ K[d] /\ D[d] = l
       /\ <<src, d>> \in net /\ <<src, d>> \notin seen
       /\ \A v \in Node : K[v] => D[v] <= l
       /\ D[t] = 0
  BY AtLinkFacts, SMTT(30)
<1> USE <1>00
<1>01. PICK D2, O2, seen2 : /\ D2 = [D EXCEPT ![src] = l + 1] /\ O2 = [O EXCEPT ![src] = <<d>>]
                            /\ seen2 = seen \cup {<<src, d>>}
  OBVIOUS
<1> SUFFICES Closed(D2, K, seen2) /\ Sound(D2, net, t, c) /\ Paths(D2, O2, t, seen2, P)
  BY <1>01 DEF Farther, OnePath
<1>0. /\ D2 \in [Node -> Nat] /\ D2[src] = l + 1 /\ \A v \in Node : v # src => D2[v] = D[v]
      /\ O2[src] = <<d>> /\ \A v \in Node : v # src => O2[v] = O[v]
      /\ seen2 = seen \cup {<<src, d>>}
  BY <1>01
<1>1. N \in Nat /\ Infinity = 2 * N + 1 /\ Infinity \in Nat /\ l + 1 < Infinity
  BY SizeIsNat
<1>3. ~K[src] /\ src # t /\ src # d
  BY <1>0, <1>1, SMTT(30) DEF Sound
<1>4. \A w \in Node : <<src, w>> \notin seen
  <2> SUFFICES ASSUME NEW w \in Node, <<src, w>> \in seen PROVE FALSE
    OBVIOUS
  <2>1. K[w] /\ D[src] <= D[w] + 1
    BY <1>0 DEF Closed
  <2>2. D[w] <= l /\ D[w] \in Nat
    BY <1>0, <2>1
  <2> QED
    BY <1>0, <1>1, <2>1, <2>2, SMTT(90)
<1>8. Closed(D2, K, seen2)
  <2> SUFFICES ASSUME NEW u \in Node, NEW w \in Node, <<u, w>> \in seen2
               PROVE  K[w] /\ D2[u] <= D2[w] + 1
    BY <1>0 DEF Closed
  <2>1. CASE u = src
    <3>1. w = d
      BY <1>0, <1>4, <2>1
    <3> QED
      BY <1>0, <1>3, <2>1, <3>1
  <2>2. CASE u # src
    <3>1. K[w] /\ D[u] <= D[w] + 1
      BY <1>0, <2>2 DEF Closed
    <3>2. w # src
      BY <1>0, <1>3, <3>1
    <3> QED
      BY <1>0, <2>2, <3>1, <3>2
  <2> QED
    BY <1>0, <2>1, <2>2
<1>9. Sound(D2, net, t, c)
  <2>1. d \in Within(net, t, l)
    BY <1>0, <1>1 DEF Sound
  <2>2. Within(net, t, l + 1) = OneBefore(net, Within(net, t, l))
    BY WithinSteps, ZenonT(60)
  <2>3. src \in Within(net, t, l + 1)
    BY <1>0, <2>1, <2>2 DEF OneBefore
  <2>4. ASSUME NEW v \in Node, D2[v] # Infinity PROVE D2[v] <= c /\ v \in Within(net, t, D2[v])
    BY <1>0, <2>3, <2>4 DEF Sound
  <2>5. D2[t] = 0
    BY <1>0, <1>3 DEF Sound
  <2> QED
    BY <1>0, <2>4, <2>5 DEF Sound
<1>10. Paths(D2, O2, t, seen2, P)
  <2>1. Nearer(D2, seen2, src) = {d}
    <3>1. \A w \in Node : <<src, w>> \in seen2 <=> w = d
      BY <1>0, <1>4
    <3>2. D2[d] + 1 = D2[src]
      BY <1>0, <1>3
    <3> QED
      BY <1>0, <3>1, <3>2 DEF Nearer
  <2>2. Lists(O2[src], Len(O2[src]), {d})
    <3>1. Len(O2[src]) = 1 /\ O2[src][1] = d
      BY <1>0
    <3> QED
      BY <1>0, <3>1 DEF Lists
  <2>3. ASSUME NEW v \in Node, v # src PROVE Nearer(D2, seen2, v) = Nearer(D, seen, v)
    <3>1. D2[v] = D[v]
      BY <1>0, <2>3
    <3>2. \A w \in Node : <<v, w>> \in seen2 <=> <<v, w>> \in seen
      BY <1>0, <2>3
    <3>3. \A w \in Node : <<v, w>> \in seen => w # src
      BY <1>0, <1>3 DEF Closed
    <3> QED
      BY <1>0, <3>1, <3>2, <3>3 DEF Nearer
  <2>4. ASSUME NEW v \in Node
        PROVE  IF v = t \/ D2[v] = Infinity THEN O2[v] = P[v]
               ELSE Lists(O2[v], Len(O2[v]), Nearer(D2, seen2, v))
    <3>1. CASE v = src
      <4>1. v # t /\ D2[v] # Infinity
        BY <1>0, <1>1, <1>3, <3>1
      <4>2. Lists(O2[v], Len(O2[v]), Nearer(D2, seen2, v))
        BY <1>0, <2>1, <2>2, <3>1
      <4> QED
        BY <1>0, <4>1, <4>2
    <3>2. CASE v # src
      <4>1. O2[v] = O[v] /\ D2[v] = D[v]
        BY <1>0, <3>2
      <4> QED
        BY <1>0, <2>3, <3>2, <4>1 DEF Paths
    <3> QED
      BY <1>0, <3>1, <3>2
  <2> QED
    BY <1>0, <2>4 DEF Paths
<1> QED
  BY <1>0, <1>8, <1>9, <1>10

\* A node is reached on one more path.
LEMMA VisitAdds ==
  ASSUME NEW D, NEW K, NEW O, NEW Q, NEW n, NEW net, NEW t, NEW l, NEW c, NEW seen, NEW P,
         NEW d, NEW src, AtLink(D, K, O, Q, n, net, t, l, c, seen, P, d, src), D[src] = l + 1
  PROVE  /\ Closed(D, K, seen \cup {<<src, d>>})
         /\ Paths(D, OnePathMore(O, src, d), t, seen \cup {<<src, d>>}, P)
<1>00. /\ D \in [Node -> Nat] /\ K \in [Node -> BOOLEAN] /\ O \in [Node -> Seq(Node)]
       /\ Q \in Seq(Node) /\ n = Len(Q) /\ n \in Nat
       /\ t \in Node /\ l \in Nat /\ c \in Nat /\ l + 1 <= c /\ c <= N
       /\ InOrder(D, K, Q, n, l) /\ Closed(D, K, seen)
       /\ Sound(D, net, t, c) /\ Paths(D, O, t, seen, P)
       /\ d \in Node /\ src \in Node /\ K[d] /\ D[d] = l
       /\ <<src, d>> \in net /\ <<src, d>> \notin seen
       /\ \A v \in Node : K[v] => D[v] <= l
       /\ D[t] = 0
  BY AtLinkFacts, SMTT(30)
<1> USE <1>00
<1>01. PICK O2, seen2 : /\ O2 = [O EXCEPT ![src] = Append(@, d)]
                        /\ seen2 = seen \cup {<<src, d>>}
  OBVIOUS
<1> SUFFICES Closed(D, K, seen2) /\ Paths(D, O2, t, seen2, P)
  BY <1>01 DEF OnePathMore
<1>0. /\ O2[src] = Append(O[src], d) /\ \A v \in Node : v # src => O2[v] = O[v]
      /\ seen2 = seen \cup {<<src, d>>}
  BY <1>01
<1>1. D[src] # Infinity /\ src # t
  <2>1. N \in Nat /\ Infinity = 2 * N + 1
    BY SizeIsNat
  <2>2. l + 1 # 2 * N + 1 /\ l + 1 # 0
    BY <1>0, <2>1
  <2> QED
    BY <1>0, <2>1, <2>2
<1>2. Closed(D, K, seen2)
  <2> SUFFICES ASSUME NEW u \in Node, NEW w \in Node, <<u, w>> \in seen2
               PROVE  K[w] /\ D[u] <= D[w] + 1
    BY <1>0 DEF Closed
  <2>1. <<u, w>> \in seen \/ (u = src /\ w = d)
    BY <1>01
  <2> QED
    BY <1>0, <2>1, SMTT(30) DEF Closed
<1>3. PICK W : W = Nearer(D, seen, src)
  OBVIOUS
<1>4. Nearer(D, seen2, src) = W \cup {d} /\ d \notin W
  BY <1>0, <1>3 DEF Nearer
<1>5. Lists(O[src], Len(O[src]), W)
  BY <1>0, <1>1, <1>3 DEF Paths
<1>6. Lists(O2[src], Len(O2[src]), W \cup {d})
  BY <1>0, <1>4, <1>5, AppendLists
<1>7. ASSUME NEW v \in Node, v # src PROVE Nearer(D, seen2, v) = Nearer(D, seen, v)
  <2>1. \A w \in Node : <<v, w>> \in seen2 <=> <<v, w>> \in seen
    BY <1>0, <1>7
  <2> QED
    BY <1>0, <2>1 DEF Nearer
<1>8. Paths(D, O2, t, seen2, P)
  BY <1>0, <1>1, <1>4, <1>6, <1>7 DEF Paths
<1> QED
  BY <1>0, <1>2, <1>8

\* A link leads to a node that is as near.
LEMMA VisitSkips ==
  ASSUME NEW D, NEW K, NEW O, NEW Q, NEW n, NEW net, NEW t, NEW l, NEW c, NEW seen, NEW P,
         NEW d, NEW src, AtLink(D, K, O, Q, n, net, t, l, c, seen, P, d, src), D[src] <= D[d]
  PROVE  Closed(D, K, seen \cup {<<src, d>>}) /\ Paths(D, O, t, seen \cup {<<src, d>>}, P)
<1>00. /\ D \in [Node -> Nat] /\ K \in [Node -> BOOLEAN] /\ O \in [Node -> Seq(Node)]
       /\ Q \in Seq(Node) /\ n = Len(Q) /\ n \in Nat
       /\ t \in Node /\ l \in Nat /\ c \in Nat /\ l + 1 <= c /\ c <= N
       /\ InOrder(D, K, Q, n, l) /\ Closed(D, K, seen)
       /\ Sound(D, net, t, c) /\ Paths(D, O, t, seen, P)
       /\ d \in Node /\ src \in Node /\ K[d] /\ D[d] = l
       /\ <<src, d>> \in net /\ <<src, d>> \notin seen
       /\ \A v \in Node : K[v] => D[v] <= l
       /\ D[t] = 0
  BY AtLinkFacts, SMTT(30)
<1> USE <1>00
<1>01. PICK seen2 : seen2 = seen \cup {<<src, d>>}
  OBVIOUS
<1> SUFFICES Closed(D, K, seen2) /\ Paths(D, O, t, seen2, P)
  BY <1>01
<1>1. Closed(D, K, seen2)
  <2> SUFFICES ASSUME NEW u \in Node, NEW w \in Node, <<u, w>> \in seen2
               PROVE  K[w] /\ D[u] <= D[w] + 1
    BY DEF Closed
  <2>1. <<u, w>> \in seen \/ (u = src /\ w = d)
    BY <1>01
  <2> QED
    BY <2>1, SMTT(30) DEF Closed
<1>2. \A v, w \in Node : D[w] + 1 = D[v] => (<<v, w>> \in seen2 <=> <<v, w>> \in seen)
  BY <1>01, SMTT(30)
<1>3. \A v \in Node : Nearer(D, seen2, v) = Nearer(D, seen, v)
  BY <1>2 DEF Nearer
<1> QED
  BY <1>1, <1>3 DEF Paths

-----------------------------------------------------------------------------
(***************************************************************************)
(* The steps of a search.                                                  *)
(***************************************************************************)
SearchStates ==
  [dist : [Node -> Nat], known : [Node -> BOOLEAN], outPaths : [Node -> Seq(Node)], q : Seq(Node)]

\* A visited link leaves a state of a search.
LEMMA VisitTyped ==
  ASSUME NEW s \in SearchStates, NEW d \in Node, NEW src \in Node
  PROVE  Visit(s, d, src) \in SearchStates
<1>1. PICK r : r = Visit(s, d, src)
  OBVIOUS
<1>0. s.dist[src] \in Nat /\ s.dist[d] \in Nat
  BY DEF SearchStates
<1>2. CASE s.dist[src] = Infinity \/ (~s.known[src] /\ s.dist[src] > s.dist[d] + 1)
  <2>1. r = [s EXCEPT !.dist[src] = s.dist[d] + 1, !.outPaths[src] = <<d>>, !.q = Append(@, src)]
    BY <1>0, <1>1, <1>2 DEF Visit
  <2>2. /\ [s.dist EXCEPT ![src] = s.dist[d] + 1] \in [Node -> Nat]
        /\ [s.outPaths EXCEPT ![src] = <<d>>] \in [Node -> Seq(Node)]
        /\ Append(s.q, src) \in Seq(Node)
    BY DEF SearchStates
  <2> QED
    BY <1>1, <2>1, <2>2, ZenonT(60) DEF SearchStates
<1>3. CASE /\ ~(s.dist[src] = Infinity \/ (~s.known[src] /\ s.dist[src] > s.dist[d] + 1))
           /\ ~s.known[src] /\ s.dist[src] = s.dist[d] + 1
  <2>1. r = [s EXCEPT !.outPaths[src] = Append(@, d)]
    BY <1>1, <1>3 DEF Visit
  <2>2. [s.outPaths EXCEPT ![src] = Append(@, d)] \in [Node -> Seq(Node)]
    BY DEF SearchStates
  <2> QED
    BY <1>1, <2>1, <2>2 DEF SearchStates
<1>4. CASE /\ ~(s.dist[src] = Infinity \/ (~s.known[src] /\ s.dist[src] > s.dist[d] + 1))
           /\ ~(~s.known[src] /\ s.dist[src] = s.dist[d] + 1)
  <2>1. r = s
    BY <1>1, <1>4 DEF Visit
  <2> QED
    BY <1>1, <2>1
<1> QED
  BY <1>2, <1>3, <1>4

\* A node of the queue is at hand.
Taken(s) == [s EXCEPT !.q = Tail(@), !.known[Head(s.q)] = TRUE]

\* The in-links of node d from the first n nodes have been visited.
Visited(f, net, d, n, b) ==
  f = [m \in 0 .. n |-> IF m = 0 THEN b
                        ELSE IF <<m - 1, d>> \in net THEN Visit(f[m - 1], d, m - 1)
                        ELSE f[m - 1]]

\* The loop over the in-links of the node that is taken has a recursive function, and Pop
\* returns its last value.
LEMMA PopVisits ==
  ASSUME NEW net, NEW s \in SearchStates, s.q # <<>>
  PROVE  /\ Head(s.q) \in Node /\ Taken(s) \in SearchStates
         /\ \E f \in [0 .. N -> SearchStates] :
              Visited(f, net, Head(s.q), N, Taken(s)) /\ Pop(net, s) = f[N]
<1> DEFINE d == Head(s.q)
           b == Taken(s)
<1>1. N \in Nat /\ Node = 0 .. N - 1
  BY SizeIsNat
<1>2. s.q \in Seq(Node) /\ d \in Node /\ Tail(s.q) \in Seq(Node)
  BY DEF SearchStates
<1>3. b \in SearchStates
  <2>1. [s.known EXCEPT ![d] = TRUE] \in [Node -> BOOLEAN]
    BY DEF SearchStates
  <2> QED
    BY <1>2, <2>1 DEF SearchStates, Taken
<1>4. PICK nx : nx = [m \in 1 .. N |-> [r \in SearchStates |->
                        IF <<m - 1, d>> \in net THEN Visit(r, d, m - 1) ELSE r]]
  OBVIOUS
<1>5. nx \in [1 .. N -> [SearchStates -> SearchStates]]
  <2> SUFFICES ASSUME NEW m \in 1 .. N, NEW r \in SearchStates
               PROVE  (IF <<m - 1, d>> \in net THEN Visit(r, d, m - 1) ELSE r) \in SearchStates
    BY <1>4
  <2>1. m - 1 \in Node
    BY <1>1
  <2>2. Visit(r, d, m - 1) \in SearchStates
    BY <1>2, <2>1, VisitTyped
  <2> QED
    BY <2>2
<1> HIDE DEF d, b
<1>6. PICK f \in [0 .. N -> SearchStates] : Recurs(f, N, b, nx)
  BY <1>1, <1>3, <1>5, RecursionExists
<1>7. ASSUME NEW m \in 0 .. N
      PROVE  (IF m = 0 THEN b ELSE nx[m][f[m - 1]])
               = IF m = 0 THEN b
                 ELSE IF <<m - 1, d>> \in net THEN Visit(f[m - 1], d, m - 1) ELSE f[m - 1]
  <2>1. CASE m = 0
    BY <2>1
  <2>2. CASE m # 0
    <3>1. m \in 1 .. N /\ m - 1 \in 0 .. N
      BY <1>1, <2>2
    <3>2. f[m - 1] \in SearchStates
      BY <3>1
    <3>3. nx[m][f[m - 1]] = IF <<m - 1, d>> \in net THEN Visit(f[m - 1], d, m - 1) ELSE f[m - 1]
      BY <1>4, <3>1, <3>2
    <3> QED
      BY <2>2, <3>3
  <2> QED
    BY <2>1, <2>2
<1>8. Visited(f, net, d, N, b)
  BY <1>6, <1>7 DEF Recurs, Visited
<1>9. PICK g : g = CHOOSE h : Visited(h, net, d, N, b)
  OBVIOUS
<1>10. Visited(g, net, d, N, b)
  BY <1>8, <1>9, Zenon
<1>11. Pop(net, s) = g[N]
  BY <1>9, Zenon DEF Pop, Visited, N, b, d, Taken
<1>12. g = f
  <2>1. \A m \in 0 .. N : f[m] = IF m = 0 THEN b
                                 ELSE IF <<m - 1, d>> \in net THEN Visit(f[m - 1], d, m - 1)
                                 ELSE f[m - 1]
    BY <1>8, Zenon DEF Visited
  <2>2. \A m \in 0 .. N : g[m] = IF m = 0 THEN b
                                 ELSE IF <<m - 1, d>> \in net THEN Visit(g[m - 1], d, m - 1)
                                 ELSE g[m - 1]
    BY <1>10, Zenon DEF Visited
  <2> DEFINE G == {m \in 0 .. N : f[m] = g[m]}
  <2>3. 0 \in G
    <3>1. 0 \in 0 .. N
      BY <1>1
    <3> QED
      BY <2>1, <2>2, <3>1
  <2>4. ASSUME NEW m \in 1 .. N, m - 1 \in G PROVE m \in G
    <3>1. m \in 0 .. N /\ m # 0
      BY <1>1
    <3> QED
      BY <2>1, <2>2, <2>4, <3>1
  <2> HIDE DEF G
  <2>5. \A m \in 0 .. N : m \in G
    BY <1>1, <2>3, <2>4, Steps
  <2>6. \A m \in 0 .. N : f[m] = g[m]
    BY <2>5 DEF G
  <2>7. f = [m \in 0 .. N |-> f[m]] /\ g = [m \in 0 .. N |-> g[m]]
    BY <1>8, <1>10 DEF Visited
  <2> QED
    BY <2>6, <2>7
<1> QED
  BY <1>2, <1>3, <1>8, <1>11, <1>12 DEF d, b

\* The nodes of the queue are taken, one after the other.
Searched(f, net, t, P, n) ==
  f = [k \in 0 .. n |-> IF k = 0 THEN SearchFrom(t, P)
                        ELSE IF f[k - 1].q = <<>> THEN f[k - 1] ELSE Pop(net, f[k - 1])]

\* The loop over the queue has one too, and ShortestPathsTo returns its last value.
LEMMA SearchPops ==
  ASSUME NEW net, NEW t \in Node, NEW P \in [Node -> Seq(Node)]
  PROVE  \E f \in [0 .. N -> SearchStates] :
           Searched(f, net, t, P, N) /\ ShortestPathsTo(net, t, P) = f[N]
<1>1. N \in Nat
  BY SizeIsNat
<1>2. PICK b : b = SearchFrom(t, P)
  OBVIOUS
<1>3. b \in SearchStates
  <2>1. Infinity \in Nat
    BY SizeIsNat
  <2>2. /\ [v \in Node |-> IF v = t THEN 0 ELSE Infinity] \in [Node -> Nat]
        /\ [v \in Node |-> FALSE] \in [Node -> BOOLEAN] /\ <<t>> \in Seq(Node)
    BY <2>1
  <2> QED
    BY <1>2, <2>2 DEF SearchFrom, SearchStates
<1>4. PICK nx : nx = [k \in 1 .. N |-> [r \in SearchStates |->
                        IF r.q = <<>> THEN r ELSE Pop(net, r)]]
  OBVIOUS
<1>5. nx \in [1 .. N -> [SearchStates -> SearchStates]]
  <2> SUFFICES ASSUME NEW r \in SearchStates
               PROVE  (IF r.q = <<>> THEN r ELSE Pop(net, r)) \in SearchStates
    BY <1>4
  <2>1. ASSUME r.q # <<>> PROVE Pop(net, r) \in SearchStates
    <3>1. PICK f \in [0 .. N -> SearchStates] : Pop(net, r) = f[N]
      BY <2>1, PopVisits
    <3>2. N \in 0 .. N
      BY <1>1
    <3> QED
      BY <3>1, <3>2
  <2> QED
    BY <2>1
<1>6. PICK f \in [0 .. N -> SearchStates] : Recurs(f, N, b, nx)
  BY <1>1, <1>3, <1>5, RecursionExists
<1>7. ASSUME NEW k \in 0 .. N
      PROVE  (IF k = 0 THEN b ELSE nx[k][f[k - 1]])
               = IF k = 0 THEN b
                 ELSE IF f[k - 1].q = <<>> THEN f[k - 1] ELSE Pop(net, f[k - 1])
  <2>1. CASE k = 0
    BY <2>1
  <2>2. CASE k # 0
    <3>1. k \in 1 .. N /\ k - 1 \in 0 .. N
      BY <1>1, <2>2
    <3>2. f[k - 1] \in SearchStates
      BY <3>1
    <3>3. nx[k][f[k - 1]] = IF f[k - 1].q = <<>> THEN f[k - 1] ELSE Pop(net, f[k - 1])
      BY <1>4, <3>1, <3>2
    <3> QED
      BY <2>2, <3>3
  <2> QED
    BY <2>1, <2>2
<1>8. Searched(f, net, t, P, N)
  BY <1>2, <1>6, <1>7 DEF Recurs, Searched
<1>9. PICK g : g = CHOOSE h : Searched(h, net, t, P, N)
  OBVIOUS
<1>10. Searched(g, net, t, P, N)
  BY <1>8, <1>9, Zenon
<1>11. ShortestPathsTo(net, t, P) = g[N]
  BY <1>9, Zenon DEF ShortestPathsTo, Searched, N
<1>12. g = f
  <2>1. \A k \in 0 .. N : f[k] = IF k = 0 THEN b
                                 ELSE IF f[k - 1].q = <<>> THEN f[k - 1] ELSE Pop(net, f[k - 1])
    BY <1>2, <1>8, Zenon DEF Searched
  <2>2. \A k \in 0 .. N : g[k] = IF k = 0 THEN b
                                 ELSE IF g[k - 1].q = <<>> THEN g[k - 1] ELSE Pop(net, g[k - 1])
    BY <1>2, <1>10, Zenon DEF Searched
  <2> DEFINE G == {k \in 0 .. N : f[k] = g[k]}
  <2>3. 0 \in G
    <3>1. 0 \in 0 .. N
      BY <1>1
    <3> QED
      BY <2>1, <2>2, <3>1
  <2>4. ASSUME NEW k \in 1 .. N, k - 1 \in G PROVE k \in G
    <3>1. k \in 0 .. N /\ k # 0
      BY <1>1
    <3> QED
      BY <2>1, <2>2, <2>4, <3>1
  <2> HIDE DEF G
  <2>5. \A k \in 0 .. N : k \in G
    BY <1>1, <2>3, <2>4, Steps
  <2>6. \A k \in 0 .. N : f[k] = g[k]
    BY <2>5 DEF G
  <2>7. f = [k \in 0 .. N |-> f[k]] /\ g = [k \in 0 .. N |-> g[k]]
    BY <1>8, <1>10 DEF Searched
  <2> QED
    BY <2>6, <2>7
<1> QED
  BY <1>8, <1>11, <1>12

-----------------------------------------------------------------------------
(***************************************************************************)
(* The invariant of a search.                                              *)
(***************************************************************************)
SearchInv(s, net, t, l, c, seen, P) ==
  /\ InOrder(s.dist, s.known, s.q, Len(s.q), l)
  /\ Closed(s.dist, s.known, seen)
  /\ Sound(s.dist, net, t, c)
  /\ Paths(s.dist, s.outPaths, t, seen, P)

\* A link to the node the search is at, not visited yet.
Ready(s, net, t, l, c, seen, P, d, src) ==
  /\ s \in SearchStates /\ t \in Node /\ l \in Nat /\ c \in Nat /\ l + 1 <= c /\ c <= N
  /\ SearchInv(s, net, t, l, c, seen, P)
  /\ d \in Node /\ src \in Node /\ s.known[d] /\ s.dist[d] = l
  /\ <<src, d>> \in net /\ <<src, d>> \notin seen

\* It has been visited, and r is the state after that.
Went(r, s, net, t, l, c, seen, P, d, src) ==
  /\ SearchInv(r, net, t, l, c, seen \cup {<<src, d>>}, P)
  /\ r.known = s.known /\ r.dist[d] = l

\* A visited link keeps the invariant of the search, and becomes one of the links that have
\* been seen.
LEMMA VisitStep ==
  ASSUME NEW s, NEW net, NEW t, NEW l, NEW c, NEW seen, NEW P, NEW d, NEW src,
         Ready(s, net, t, l, c, seen, P, d, src)
  PROVE  Went(Visit(s, d, src), s, net, t, l, c, seen, P, d, src)
<1>01. /\ s \in SearchStates /\ t \in Node /\ l \in Nat /\ c \in Nat /\ l + 1 <= c /\ c <= N
       /\ SearchInv(s, net, t, l, c, seen, P)
       /\ d \in Node /\ src \in Node /\ s.known[d] /\ s.dist[d] = l
       /\ <<src, d>> \in net \ seen
  BY DEF Ready
<1> USE <1>01
<1>02. PICK r : r = Visit(s, d, src)
  OBVIOUS
<1> SUFFICES /\ SearchInv(r, net, t, l, c, seen \cup {<<src, d>>}, P)
             /\ r.known = s.known /\ r.dist[d] = l
  BY <1>02 DEF Went
<1>1. PICK D, K, O, Q, n : D = s.dist /\ K = s.known /\ O = s.outPaths /\ Q = s.q /\ n = Len(Q)
  OBVIOUS
<1>2. AtLink(D, K, O, Q, n, net, t, l, c, seen, P, d, src)
  <2>1. /\ D \in [Node -> Nat] /\ K \in [Node -> BOOLEAN] /\ O \in [Node -> Seq(Node)]
        /\ Q \in Seq(Node)
    BY <1>1 DEF SearchStates
  <2>2. /\ InOrder(D, K, Q, n, l) /\ Closed(D, K, seen) /\ Sound(D, net, t, c)
        /\ Paths(D, O, t, seen, P) /\ K[d] /\ D[d] = l
    BY <1>1 DEF SearchInv
  <2> QED
    BY <1>1, <2>1, <2>2 DEF AtLink
<1>3. /\ D \in [Node -> Nat] /\ O \in [Node -> Seq(Node)] /\ Q \in Seq(Node) /\ n \in Nat
      /\ InOrder(D, K, Q, n, l) /\ Sound(D, net, t, c) /\ D[d] = l
      /\ N \in Nat /\ Infinity = 2 * N + 1 /\ l + 1 < Infinity
      /\ \A v \in Node : K[v] => D[v] <= l
  BY <1>2, AtLinkFacts
<1>4. D[src] # Infinity /\ ~K[src] => D[src] <= l + 1
  BY <1>3 DEF InOrder
<1>5. s.dist[src] \in Nat /\ s.dist[d] \in Nat
  BY DEF SearchStates
<1>6. CASE D[src] = Infinity
  <2>1. PICK D2, O2, Q2 : D2 = Farther(D, src, l) /\ O2 = OnePath(O, src, d) /\ Q2 = Append(Q, src)
    OBVIOUS
  <2>2. r = [s EXCEPT !.dist[src] = s.dist[d] + 1, !.outPaths[src] = <<d>>, !.q = Append(@, src)]
    BY <1>02, <1>1, <1>5, <1>6 DEF Visit
  <2>3. r.dist = D2 /\ r.known = K /\ r.outPaths = O2 /\ r.q = Q2
    BY <1>1, <1>3, <2>1, <2>2 DEF SearchStates, Farther, OnePath
  <2>4. Len(Q2) = n + 1
    BY <1>1, <1>3, <2>1
  <2>5. InOrder(D2, K, Q2, n + 1, l)
    BY <1>2, <1>6, <2>1, QueueGrows
  <2>6. /\ Closed(D2, K, seen \cup {<<src, d>>}) /\ Sound(D2, net, t, c)
        /\ Paths(D2, O2, t, seen \cup {<<src, d>>}, P)
    BY <1>2, <1>6, <2>1, VisitReaches
  <2>7. d # src
    BY <1>3, <1>6
  <2>8. D2[d] = l
    BY <1>3, <2>1, <2>7 DEF Farther
  <2> QED
    BY <1>1, <2>3, <2>4, <2>5, <2>6, <2>8 DEF SearchInv
<1>7. CASE D[src] = l + 1 /\ ~K[src]
  <2>1. PICK O2 : O2 = OnePathMore(O, src, d)
    OBVIOUS
  <2>2. s.dist[src] = s.dist[d] + 1 /\ ~s.known[src] /\ s.dist[src] # Infinity
    BY <1>1, <1>3, <1>7
  <2>3. r = [s EXCEPT !.outPaths[src] = Append(@, d)]
    BY <1>02, <1>5, <2>2 DEF Visit
  <2>4. r.dist = D /\ r.known = K /\ r.outPaths = O2 /\ r.q = Q
    BY <1>1, <2>1, <2>3 DEF SearchStates, OnePathMore
  <2>5. Closed(D, K, seen \cup {<<src, d>>}) /\ Paths(D, O2, t, seen \cup {<<src, d>>}, P)
    BY <1>2, <1>7, <2>1, VisitAdds
  <2> QED
    BY <1>1, <1>3, <2>4, <2>5 DEF SearchInv
<1>8. CASE D[src] # Infinity /\ ~(D[src] = l + 1 /\ ~K[src])
  <2>1. D[src] <= D[d]
    BY <1>1, <1>3, <1>4, <1>5, <1>8
  <2>2. s.dist[src] <= s.dist[d] /\ s.dist[src] # Infinity
    BY <1>1, <1>8, <2>1
  <2>3. r = s
    BY <1>02, <1>5, <2>2 DEF Visit
  <2>4. Closed(D, K, seen \cup {<<src, d>>}) /\ Paths(D, O, t, seen \cup {<<src, d>>}, P)
    BY <1>2, <2>1, VisitSkips
  <2> QED
    BY <1>1, <1>3, <2>3, <2>4 DEF SearchInv
<1> QED
  BY <1>6, <1>7, <1>8

\* The links to the nodes the search has been at.
Into(net, K) == {e \in net : K[e[2]]}

\* A node is taken from the queue.
LEMMA QueueShrinks ==
  ASSUME NEW D \in [Node -> Nat], NEW K \in [Node -> BOOLEAN],
         NEW n \in Nat, NEW Q, NEW l \in Nat, n > 0, InOrder(D, K, Q, n, l),
         NEW K2 \in [Node -> BOOLEAN], K2[Q[1]], \A v \in Node : v # Q[1] => K2[v] = K[v],
         NEW Q2, \A i \in 1 .. n - 1 : Q2[i] = Q[i + 1]
  PROVE  InOrder(D, K2, Q2, n - 1, D[Q[1]])
<1>1. 1 \in 1 .. n
  OBVIOUS
<1>2. Q[1] \in Node /\ D[Q[1]] \in Nat /\ D[Q[1]] >= l /\ D[Q[1]] <= l + 1
  BY <1>1 DEF InOrder
<1>3. ASSUME NEW i \in 1 .. n - 1
      PROVE  /\ i + 1 \in 1 .. n /\ Q2[i] = Q[i + 1] /\ Q[i + 1] \in Node
             /\ Q[i + 1] # Q[1] /\ ~K[Q[i + 1]] /\ ~K2[Q[i + 1]]
             /\ D[Q[i + 1]] >= D[Q[1]] /\ D[Q[i + 1]] <= D[Q[1]] + 1
  <2>1. i + 1 \in 1 .. n /\ 1 < i + 1
    OBVIOUS
  <2>2. Q[i + 1] \in Node /\ ~K[Q[i + 1]] /\ D[Q[i + 1]] <= l + 1
    BY <2>1 DEF InOrder
  <2>3. Q[1] # Q[i + 1] /\ D[Q[1]] <= D[Q[i + 1]]
    BY <1>1, <2>1 DEF InOrder
  <2>4. D[Q[i + 1]] \in Nat
    BY <2>2
  <2> QED
    BY <1>2, <2>1, <2>2, <2>3, <2>4
<1>4. ASSUME NEW i \in 1 .. n - 1, NEW j \in 1 .. n - 1, i < j
      PROVE  Q2[i] # Q2[j] /\ D[Q2[i]] <= D[Q2[j]]
  <2>1. i + 1 \in 1 .. n /\ j + 1 \in 1 .. n /\ i + 1 < j + 1
    BY <1>4
  <2>2. Q[i + 1] # Q[j + 1] /\ D[Q[i + 1]] <= D[Q[j + 1]]
    BY <2>1 DEF InOrder
  <2> QED
    BY <2>2
<1>5. ASSUME NEW v \in Node, D[v] # Infinity, ~K2[v] PROVE \E i \in 1 .. n - 1 : Q2[i] = v
  <2>1. v # Q[1] /\ ~K[v]
    BY <1>2, <1>5
  <2>2. PICK i \in 1 .. n : Q[i] = v
    BY <1>5, <2>1 DEF InOrder
  <2>3. i # 1
    BY <2>1, <2>2
  <2>4. i - 1 \in 1 .. n - 1 /\ (i - 1) + 1 = i
    BY <2>3
  <2>5. Q2[i - 1] = Q[(i - 1) + 1]
    BY <2>4
  <2> QED
    BY <2>2, <2>4, <2>5
<1>6. \A v \in Node : K2[v] => D[v] <= D[Q[1]]
  <2> SUFFICES ASSUME NEW v \in Node, K2[v] PROVE D[v] <= D[Q[1]]
    OBVIOUS
  <2>1. CASE v = Q[1]
    BY <1>2, <2>1
  <2>2. CASE v # Q[1]
    <3>1. D[v] <= l /\ D[v] \in Nat
      BY <2>2 DEF InOrder
    <3> QED
      BY <1>2, <3>1
  <2> QED
    BY <2>1, <2>2
<1>7. \A i \in 1 .. n - 1 : Q2[i] \in Node /\ ~K2[Q2[i]] /\ D[Q2[i]] >= D[Q[1]]
                            /\ D[Q2[i]] <= D[Q[1]] + 1
  BY <1>3
<1> QED
  BY <1>4, <1>5, <1>6, <1>7 DEF InOrder

\* A node is taken from the queue, before its in-links are visited.
LEMMA TakenStep ==
  ASSUME NEW s \in SearchStates, s.q # <<>>, NEW net, NEW t, NEW l \in Nat, NEW c \in Nat,
         l <= c, c <= N, NEW seen, NEW P, SearchInv(s, net, t, l, c, seen, P), NEW d, d = Head(s.q),
         NEW r, r = Taken(s)
  PROVE  /\ SearchInv(r, net, t, s.dist[d], c + 1, seen, P)
         /\ r.dist = s.dist /\ r.known = [s.known EXCEPT ![d] = TRUE]
         /\ d \in Node /\ ~s.known[d] /\ s.dist[d] <= c
<1>1. PICK D, K, Q, n : D = s.dist /\ K = s.known /\ Q = s.q /\ n = Len(Q)
  OBVIOUS
<1>2. PICK K2, Q2 : K2 = [K EXCEPT ![d] = TRUE] /\ Q2 = Tail(Q)
  OBVIOUS
<1>3. /\ D \in [Node -> Nat] /\ K \in [Node -> BOOLEAN] /\ Q \in Seq(Node) /\ Q # <<>>
      /\ InOrder(D, K, Q, n, l) /\ Closed(D, K, seen) /\ Sound(D, net, t, c)
  BY <1>1 DEF SearchStates, SearchInv
<1>4. /\ n \in Nat /\ n > 0 /\ d = Q[1] /\ d \in Node /\ Len(Q2) = n - 1
      /\ \A i \in 1 .. n - 1 : Q2[i] = Q[i + 1]
  BY <1>1, <1>2, <1>3
<1>5. /\ K2 \in [Node -> BOOLEAN] /\ K2[Q[1]] /\ \A v \in Node : v # Q[1] => K2[v] = K[v]
  BY <1>2, <1>3, <1>4
<1>6. InOrder(D, K2, Q2, n - 1, D[Q[1]])
  BY <1>3, <1>4, <1>5, QueueShrinks
<1>7. r.dist = D /\ r.known = K2 /\ r.q = Q2 /\ r.outPaths = s.outPaths
  BY <1>1, <1>2 DEF Taken, SearchStates
<1>8. Closed(D, K2, seen)
  BY <1>3, <1>4, <1>5 DEF Closed
<1>9. ~K[d] /\ D[d] # Infinity /\ D[d] <= c
  <2>1. 1 \in 1 .. n
    BY <1>4
  <2>2. ~K[d]
    BY <1>3, <1>4, <2>1 DEF InOrder
  <2>3. D[d] <= l + 1 /\ D[d] \in Nat
    BY <1>3, <1>4, <2>1 DEF InOrder
  <2>4. D[d] # Infinity
    <3>1. N \in Nat /\ N > 0 /\ Infinity = 2 * N + 1
      BY <1>4, SizeIsNat
    <3> QED
      BY <2>3, <3>1
  <2> QED
    BY <1>3, <1>4, <2>2, <2>4 DEF Sound
<1>10. Sound(D, net, t, c + 1)
  BY <1>3 DEF Sound
<1> QED
  BY <1>1, <1>2, <1>4, <1>6, <1>7, <1>8, <1>9, <1>10 DEF SearchInv

\* The links to the nodes the search has been at, and those to d from the first m nodes.
Partly(net, K, d, m) == {e \in net : K[e[2]] \/ (e[2] = d /\ e[1] < m)}

\* A node of the queue is at hand, and all its in-links are visited.
LEMMA PopStep ==
  ASSUME NEW s \in SearchStates, s.q # <<>>, NEW net, NEW t \in Node,
         NEW l \in Nat, NEW c \in Nat, l <= c, c < N, NEW P,
         net \subseteq Node \X Node, SearchInv(s, net, t, l, c, Into(net, s.known), P),
         NEW d, d = Head(s.q), NEW r, r = Pop(net, s)
  PROVE  /\ r \in SearchStates /\ r.known = [s.known EXCEPT ![d] = TRUE]
         /\ d \in Node /\ ~s.known[d] /\ s.dist[d] \in Nat /\ s.dist[d] <= c
         /\ SearchInv(r, net, t, s.dist[d], c + 1, Into(net, r.known), P)
<1>1. PICK f \in [0 .. N -> SearchStates] : Visited(f, net, d, N, Taken(s)) /\ r = f[N]
  BY PopVisits
<1>2. PICK K, m0 : K = s.known /\ m0 = s.dist[d]
  OBVIOUS
<1>3. /\ N \in Nat /\ Node = 0 .. N - 1
  BY SizeIsNat
<1>4. /\ SearchInv(Taken(s), net, t, m0, c + 1, Into(net, K), P)
      /\ Taken(s).dist = s.dist /\ Taken(s).known = [K EXCEPT ![d] = TRUE]
      /\ d \in Node /\ ~K[d] /\ m0 <= c
  BY <1>2, <1>3, TakenStep
<1>5. m0 \in Nat /\ K \in [Node -> BOOLEAN]
  BY <1>2, <1>4 DEF SearchStates
<1>6. PICK K2 : K2 = [K EXCEPT ![d] = TRUE] /\ K2[d]
  BY <1>4, <1>5
<1>7. /\ f[0] = Taken(s)
      /\ \A m \in 1 .. N : f[m] = IF <<m - 1, d>> \in net THEN Visit(f[m - 1], d, m - 1)
                                   ELSE f[m - 1]
  <2>1. \A m \in 0 .. N : f[m] = IF m = 0 THEN Taken(s)
                                 ELSE IF <<m - 1, d>> \in net THEN Visit(f[m - 1], d, m - 1)
                                 ELSE f[m - 1]
    BY <1>1, Zenon DEF Visited
  <2>2. 0 \in 0 .. N /\ \A m \in 1 .. N : m \in 0 .. N /\ m # 0
    BY <1>3
  <2> QED
    BY <2>1, <2>2
<1> DEFINE Good(m) == /\ SearchInv(f[m], net, t, m0, c + 1, Partly(net, K, d, m), P)
                      /\ f[m].known = K2 /\ f[m].dist[d] = m0
           G == {m \in 0 .. N : Good(m)}
<1>8. 0 \in G
  <2>1. \A e \in net : ~(e[1] < 0)
    BY <1>3
  <2>2. Partly(net, K, d, 0) = Into(net, K)
    BY <2>1 DEF Partly, Into
  <2>3. Good(0)
    BY <1>2, <1>4, <1>6, <1>7, <2>2
  <2> HIDE DEF Good
  <2> QED
    BY <1>3, <2>3
<1>9. ASSUME NEW m \in 1 .. N, m - 1 \in G PROVE m \in G
  <2>1. PICK u : u = m - 1 /\ u \in Node /\ u \in 0 .. N /\ m = u + 1
    BY <1>3
  <2>2. Good(u) /\ f[u] \in SearchStates
    BY <1>9, <2>1
  <2>3. CASE <<u, d>> \in net
    <3>1. f[m] = Visit(f[u], d, u)
      BY <1>7, <2>1, <2>3
    <3>2. <<u, d>> \notin Partly(net, K, d, u)
      BY <1>3, <1>4, <2>1 DEF Partly
    <3>3. <<u, d>> \in net \ Partly(net, K, d, u)
      BY <2>3, <3>2
    <3>4. f[u].known[d] /\ m0 + 1 <= c + 1 /\ c + 1 <= N /\ c + 1 \in Nat
      BY <1>3, <1>4, <1>5, <1>6, <2>2
    <3>5. /\ SearchInv(f[m], net, t, m0, c + 1, Partly(net, K, d, u) \cup {<<u, d>>}, P)
          /\ f[m].known = f[u].known /\ f[m].dist[d] = m0
      <4>1. PICK s2, c2, seen : s2 = f[u] /\ c2 = c + 1 /\ seen = Partly(net, K, d, u)
        OBVIOUS
      <4>2. Ready(s2, net, t, m0, c2, seen, P, d, u)
        <5>1. SearchInv(s2, net, t, m0, c2, seen, P)
          BY <2>2, <4>1
        <5>2. s2 \in SearchStates /\ s2.known[d] /\ s2.dist[d] = m0
          BY <2>2, <3>4, <4>1
        <5>3. m0 \in Nat /\ c2 \in Nat /\ m0 + 1 <= c2 /\ c2 <= N
          BY <1>5, <3>4, <4>1
        <5>4. <<u, d>> \in net /\ <<u, d>> \notin seen
          BY <3>3, <4>1
        <5>5. t \in Node /\ d \in Node /\ u \in Node
          BY <1>4, <2>1
        <5> QED
          BY <5>1, <5>2, <5>3, <5>4, <5>5, Zenon DEF Ready
      <4>3. Went(Visit(s2, d, u), s2, net, t, m0, c2, seen, P, d, u)
        BY <4>2, VisitStep
      <4> QED
        BY <3>1, <4>1, <4>3 DEF Went
    <3>6. Partly(net, K, d, m) = Partly(net, K, d, u) \cup {<<u, d>>}
      <4>1. ASSUME NEW e \in net
            PROVE  (e[2] = d /\ e[1] < m) <=> (e[2] = d /\ e[1] < u) \/ e = <<u, d>>
        <5>1. e = <<e[1], e[2]>> /\ e[1] \in 0 .. N - 1
          BY <1>3
        <5> QED
          BY <2>1, <5>1
      <4> QED
        BY <2>3, <4>1 DEF Partly
    <3>7. m \in 0 .. N
      BY <1>3
    <3>8. Good(m)
      BY <2>2, <3>5, <3>6
    <3> HIDE DEF Good
    <3> QED
      BY <3>7, <3>8
  <2>4. CASE <<u, d>> \notin net
    <3>1. f[m] = f[u]
      BY <1>7, <2>1, <2>4
    <3>2. Partly(net, K, d, m) = Partly(net, K, d, u)
      <4>1. ASSUME NEW e \in net
            PROVE  (e[2] = d /\ e[1] < m) <=> (e[2] = d /\ e[1] < u)
        <5>1. e = <<e[1], e[2]>> /\ e[1] \in 0 .. N - 1
          BY <1>3
        <5> QED
          BY <2>1, <2>4, <5>1
      <4> QED
        BY <4>1 DEF Partly
    <3>7. m \in 0 .. N
      BY <1>3
    <3>8. Good(m)
      BY <2>2, <3>1, <3>2
    <3> HIDE DEF Good
    <3> QED
      BY <3>7, <3>8
  <2> QED
    BY <2>3, <2>4
<1> HIDE DEF G
<1>10. N \in G
  <2>1. N \in 0 .. N
    BY <1>3
  <2> QED
    BY <1>3, <1>8, <1>9, <2>1, Steps
<1>11. Good(N)
  BY <1>10 DEF G
<1>12. Partly(net, K, d, N) = Into(net, K2)
  <2>1. ASSUME NEW e \in net PROVE (K[e[2]] \/ (e[2] = d /\ e[1] < N)) <=> K2[e[2]]
    <3>1. e[1] \in 0 .. N - 1 /\ e[2] \in Node
      BY <1>3
    <3>2. e[1] < N
      BY <1>3, <3>1
    <3> QED
      BY <1>4, <1>5, <1>6, <3>1, <3>2
  <2> QED
    BY <2>1 DEF Partly, Into
<1>13. r \in SearchStates
  <2>1. N \in 0 .. N
    BY <1>3
  <2> QED
    BY <1>1, <2>1
<1> QED
  BY <1>1, <1>2, <1>4, <1>5, <1>6, <1>11, <1>12, <1>13

\* A search is at an end, or has taken k nodes from the queue: c nodes are known, the
\* last of them l links away.
AtNode(s, net, t, P, k) ==
  \E l, c \in Nat :
    /\ l <= c /\ c <= N /\ Cardinality({v \in Node : s.known[v]}) = c
    /\ SearchInv(s, net, t, l, c, Into(net, s.known), P)
    /\ s.q = <<>> \/ c = k

\* The search begins with its invariant: no node is known and only the target has a distance,
\* whatever paths an earlier search has left.
LEMMA SearchBegins ==
  ASSUME NEW net, NEW t \in Node, NEW P \in [Node -> Seq(Node)]
  PROVE  AtNode(SearchFrom(t, P), net, t, P, 0)
<1>1. PICK s, D, K, Q : s = SearchFrom(t, P) /\ D = s.dist /\ K = s.known /\ Q = s.q
  OBVIOUS
<1>2. /\ D = [v \in Node |-> IF v = t THEN 0 ELSE Infinity] /\ K = [v \in Node |-> FALSE]
      /\ Q = <<t>> /\ s.outPaths = P
  BY <1>1 DEF SearchFrom
<1>3. N \in Nat /\ Infinity = 2 * N + 1 /\ Infinity \in Nat /\ Infinity # 0
  BY SizeIsNat
<1>4. Len(Q) = 1 /\ Q[1] = t /\ D[t] = 0 /\ \A v \in Node : ~K[v] /\ (v # t => D[v] = Infinity)
  BY <1>2
<1>5. InOrder(D, K, Q, 1, 0)
  <2>1. \A i \in 1 .. 1 : i = 1
    OBVIOUS
  <2>2. 1 \in 1 .. 1 /\ ~(1 < 1)
    OBVIOUS
  <2>3. D[t] >= 0 /\ D[t] <= 0 + 1
    BY <1>4
  <2> QED
    BY <1>4, <2>1, <2>2, <2>3 DEF InOrder
<1>6. Closed(D, K, Into(net, K))
  <2>1. \A e \in net : e[2] \in Node => e \notin Into(net, K)
    BY <1>4 DEF Into
  <2>2. \A u, w \in Node : <<u, w>> \notin Into(net, K)
    BY <1>4 DEF Into
  <2> QED
    BY <2>2 DEF Closed
<1>7. Sound(D, net, t, 0)
  <2>1. t \in Within(net, t, 0)
    BY WithinSteps
  <2> QED
    BY <1>4, <2>1 DEF Sound
<1>8. Paths(D, s.outPaths, t, Into(net, K), P)
  BY <1>2, <1>4 DEF Paths
<1>9. SearchInv(s, net, t, 0, 0, Into(net, s.known), P)
  BY <1>1, <1>4, <1>5, <1>6, <1>7, <1>8 DEF SearchInv
<1>10. Cardinality({v \in Node : s.known[v]}) = 0
  <2>1. {v \in Node : s.known[v]} = {}
    BY <1>1, <1>4
  <2> QED
    BY <2>1, FS_EmptySet
<1>11. 0 \in Nat /\ 0 <= 0 /\ 0 <= N
  BY <1>3
<1> QED
  BY <1>1, <1>9, <1>10, <1>11 DEF AtNode

\* Every round of the loop over the queue keeps the invariant.
LEMMA SearchSteps ==
  ASSUME NEW s \in SearchStates, NEW net, net \subseteq Node \X Node, NEW t \in Node, NEW P,
         NEW k \in 1 .. N, AtNode(s, net, t, P, k - 1)
  PROVE  AtNode(IF s.q = <<>> THEN s ELSE Pop(net, s), net, t, P, k)
<1>1. PICK l \in Nat, c \in Nat :
        /\ l <= c /\ c <= N /\ Cardinality({v \in Node : s.known[v]}) = c
        /\ SearchInv(s, net, t, l, c, Into(net, s.known), P)
        /\ s.q = <<>> \/ c = k - 1
  BY DEF AtNode
<1>2. N \in Nat /\ IsFiniteSet(Node)
  BY SizeIsNat, TopologyAssumption
<1>3. CASE s.q = <<>>
  BY <1>1, <1>3 DEF AtNode
<1>4. CASE s.q # <<>>
  <2>1. PICK r, d : r = Pop(net, s) /\ d = Head(s.q)
    OBVIOUS
  <2>2. c = k - 1 /\ c < N /\ c + 1 = k /\ c + 1 \in Nat /\ c + 1 <= N
    BY <1>1, <1>2, <1>4
  <2>3. /\ r.known = [s.known EXCEPT ![d] = TRUE]
        /\ d \in Node /\ ~s.known[d] /\ s.dist[d] \in Nat /\ s.dist[d] <= c
        /\ SearchInv(r, net, t, s.dist[d], c + 1, Into(net, r.known), P)
    BY <1>1, <1>4, <2>1, <2>2, PopStep, ZenonT(60)
  <2>4. Cardinality({v \in Node : r.known[v]}) = c + 1
    <3>1. s.known \in [Node -> BOOLEAN]
      BY DEF SearchStates
    <3>2. {v \in Node : r.known[v]} = {v \in Node : s.known[v]} \cup {d}
      BY <2>3, <3>1
    <3>3. d \notin {v \in Node : s.known[v]}
      BY <2>3
    <3>4. IsFiniteSet({v \in Node : s.known[v]})
      BY <1>2, FS_Subset
    <3>5. PICK W : W = {v \in Node : s.known[v]}
      OBVIOUS
    <3>6. Cardinality(W \cup {d}) = Cardinality(W) + 1
      BY <3>3, <3>4, <3>5, FS_AddElement
    <3> QED
      BY <1>1, <3>2, <3>5, <3>6
  <2>5. s.dist[d] <= c + 1
    BY <2>3
  <2>6. AtNode(r, net, t, P, k)
    <3>1. PICK m, c2 : m = s.dist[d] /\ c2 = c + 1
      OBVIOUS
    <3>2. /\ m \in Nat /\ c2 \in Nat /\ m <= c2 /\ c2 <= N
          /\ Cardinality({v \in Node : r.known[v]}) = c2
          /\ SearchInv(r, net, t, m, c2, Into(net, r.known), P) /\ c2 = k
      BY <2>2, <2>3, <2>4, <2>5, <3>1
    <3> QED
      BY <3>2 DEF AtNode
  <2> QED
    BY <1>4, <2>1, <2>6
<1> QED
  BY <1>3, <1>4

\* At its end every node that has been reached is known.
LEMMA SearchEnds ==
  ASSUME NEW net, net \subseteq Node \X Node, NEW t \in Node, NEW P \in [Node -> Seq(Node)],
         NEW s, s = ShortestPathsTo(net, t, P)
  PROVE  /\ s \in SearchStates
         /\ \E l, c \in Nat : c <= N /\ SearchInv(s, net, t, l, c, Into(net, s.known), P)
         /\ \A v \in Node : s.dist[v] # Infinity => s.known[v]
<1>1. PICK f \in [0 .. N -> SearchStates] : Searched(f, net, t, P, N) /\ s = f[N]
  BY SearchPops
<1>2. N \in Nat /\ IsFiniteSet(Node)
  BY SizeIsNat, TopologyAssumption
<1>3. \A k \in 0 .. N : f[k] = IF k = 0 THEN SearchFrom(t, P)
                               ELSE IF f[k - 1].q = <<>> THEN f[k - 1] ELSE Pop(net, f[k - 1])
  BY <1>1, Zenon DEF Searched
<1> DEFINE G == {k \in 0 .. N : AtNode(f[k], net, t, P, k)}
<1>4. 0 \in G
  <2>1. 0 \in 0 .. N
    BY <1>2
  <2>2. f[0] = SearchFrom(t, P)
    BY <1>3, <2>1
  <2> QED
    BY <2>1, <2>2, SearchBegins
<1>5. ASSUME NEW k \in 1 .. N, k - 1 \in G PROVE k \in G
  <2>1. PICK r : r = f[k - 1]
    OBVIOUS
  <2>2. k \in 0 .. N /\ k # 0 /\ k - 1 \in 0 .. N
    BY <1>2
  <2>3. r \in SearchStates /\ AtNode(r, net, t, P, k - 1)
    BY <1>5, <2>1, <2>2
  <2>4. f[k] = IF r.q = <<>> THEN r ELSE Pop(net, r)
    BY <1>3, <2>1, <2>2
  <2>5. AtNode(f[k], net, t, P, k)
    BY <2>3, <2>4, SearchSteps
  <2> QED
    BY <2>2, <2>5
<1> HIDE DEF G
<1>6. N \in 0 .. N
  BY <1>2
<1>7. N \in G
  BY <1>2, <1>4, <1>5, <1>6, Steps
<1>8. s \in SearchStates /\ AtNode(s, net, t, P, N)
  BY <1>1, <1>6, <1>7 DEF G
<1>9. PICK l \in Nat, c \in Nat :
        /\ c <= N /\ Cardinality({v \in Node : s.known[v]}) = c
        /\ SearchInv(s, net, t, l, c, Into(net, s.known), P)
        /\ s.q = <<>> \/ c = N
  BY <1>8 DEF AtNode
<1>10. ASSUME NEW v \in Node, s.dist[v] # Infinity PROVE s.known[v]
  <2>1. CASE s.q = <<>>
    <3>1. Len(s.q) = 0
      BY <2>1
    <3>2. InOrder(s.dist, s.known, s.q, 0, l)
      BY <1>9, <3>1 DEF SearchInv
    <3>3. \A i \in 1 .. 0 : FALSE
      OBVIOUS
    <3> QED
      BY <1>10, <3>2, <3>3 DEF InOrder
  <2>2. CASE c = N
    <3>1. PICK W : W = {u \in Node : s.known[u]}
      OBVIOUS
    <3>2. W \subseteq Node /\ Cardinality(W) = Cardinality(Node)
      BY <1>9, <2>2, <3>1 DEF N
    <3>3. W = Node
      BY <1>2, <3>2, FS_Subset
    <3> QED
      BY <3>1, <3>3
  <2> QED
    BY <1>9, <2>1, <2>2
<1> QED
  BY <1>8, <1>9, <1>10

-----------------------------------------------------------------------------
(***************************************************************************)
(* What a search finds.                                                    *)
(***************************************************************************)

\* The distance is the least number of links.
LEMMA DistanceIs ==
  ASSUME NEW net, NEW t \in Node, NEW v, NEW k \in 0 .. N, v \in Within(net, t, k),
         \A j \in Nat : v \in Within(net, t, j) => k <= j
  PROVE  Reaches(net, v, t) /\ Distance(net, v, t) = k
<1>1. N \in Nat /\ k \in Nat /\ k <= N
  BY SizeIsNat
<1>2. Within(net, t, k) \subseteq Within(net, t, N)
  BY <1>1, WithinGrows
<1>3. Reaches(net, v, t)
  BY <1>2 DEF Reaches, N
<1> DEFINE Is(j) == v \in Within(net, t, j) /\ (j > 0 => v \notin Within(net, t, j - 1))
<1>4. Is(k)
  <2>1. k > 0 => k - 1 \in Nat /\ ~(k <= k - 1)
    BY <1>1
  <2> QED
    BY <2>1
<1>5. ASSUME NEW j \in 0 .. N, Is(j) PROVE j = k
  <2>1. j \in Nat /\ k <= j
    BY <1>1, <1>5
  <2>2. ASSUME k < j PROVE FALSE
    <3>1. j > 0 /\ j - 1 \in Nat /\ k <= j - 1
      BY <1>1, <2>1, <2>2
    <3>2. Within(net, t, k) \subseteq Within(net, t, j - 1)
      BY <1>1, <3>1, WithinGrows
    <3> QED
      BY <1>5, <3>1, <3>2
  <2> QED
    BY <1>1, <2>1, <2>2
<1>6. PICK m : m = CHOOSE j \in 0 .. N : Is(j)
  OBVIOUS
<1>7. m \in 0 .. N /\ Is(m)
  <2> HIDE DEF Is
  <2> QED
    BY <1>4, <1>6
<1>8. m = k
  BY <1>5, <1>7
<1>9. Distance(net, v, t) = m
  BY <1>6 DEF Distance, N
<1> QED
  BY <1>3, <1>8, <1>9

\* The distances are those of the nodes that reach t, and their paths begin at the
\* neighbours that are nearer; the paths of the others are left from before.
Finds(s, net, t, P) ==
  /\ s \in SearchStates
  /\ \A v \in Node :
       /\ IF Reaches(net, v, t)
          THEN /\ s.dist[v] = Distance(net, v, t) /\ s.dist[v] \in 0 .. N
               /\ v \in Within(net, t, s.dist[v])
          ELSE s.dist[v] = Infinity
       /\ \A k \in Nat : v \in Within(net, t, k) => Reaches(net, v, t) /\ s.dist[v] <= k
       /\ IF v = t \/ ~Reaches(net, v, t) THEN s.outPaths[v] = P[v]
          ELSE Lists(s.outPaths[v], Len(s.outPaths[v]), NearerNodes(net, v, t))

\* weightedMultiShortestPathsTo is right: a node that reaches the target has its distance and
\* exactly the nearer neighbours as its paths; one that does not keeps the paths it had.
LEMMA SearchFinds ==
  ASSUME NEW net, net \subseteq Node \X Node, NEW t \in Node, NEW P \in [Node -> Seq(Node)],
         NEW s, s = ShortestPathsTo(net, t, P)
  PROVE  Finds(s, net, t, P)
<1>1. /\ s \in SearchStates
      /\ \A v \in Node : s.dist[v] # Infinity => s.known[v]
  BY SearchEnds
<1>2. PICK l \in Nat, c \in Nat : c <= N /\ SearchInv(s, net, t, l, c, Into(net, s.known), P)
  BY SearchEnds
<1>3. PICK D, K, seen : D = s.dist /\ K = s.known /\ seen = Into(net, K)
  OBVIOUS
<1>4. /\ D \in [Node -> Nat] /\ Closed(D, K, seen) /\ Sound(D, net, t, c)
      /\ Paths(D, s.outPaths, t, seen, P) /\ \A v \in Node : D[v] # Infinity => K[v]
  BY <1>1, <1>2, <1>3 DEF SearchStates, SearchInv
<1>5. N \in Nat /\ Infinity = 2 * N + 1 /\ N > 0
  BY SizeIsNat
<1>6. ASSUME NEW u \in Node, NEW w \in Node, <<u, w>> \in net, D[w] # Infinity
      PROVE  <<u, w>> \in seen /\ D[u] <= D[w] + 1
  <2>1. <<u, w>> \in seen
    BY <1>3, <1>4, <1>6 DEF Into
  <2> QED
    BY <1>4, <2>1 DEF Closed
<1>7. \A v \in Node : D[v] # Infinity => D[v] \in 0 .. N /\ v \in Within(net, t, D[v])
  BY <1>2, <1>4, <1>5 DEF Sound
<1> DEFINE G == {k \in Nat : \A v \in Within(net, t, k) : v \in Node /\ D[v] # Infinity /\ D[v] <= k}
<1>8. 0 \in G
  <2>1. Within(net, t, 0) = {t} /\ D[t] = 0
    BY <1>4, WithinSteps DEF Sound
  <2> QED
    BY <1>5, <2>1
<1>9. ASSUME NEW k \in Nat, k \in G PROVE k + 1 \in G
  <2> SUFFICES ASSUME NEW v \in Within(net, t, k + 1)
               PROVE  v \in Node /\ D[v] # Infinity /\ D[v] <= k + 1
    OBVIOUS
  <2>1. v \in OneBefore(net, Within(net, t, k))
    BY WithinSteps
  <2>2. CASE v \in Within(net, t, k)
    <3>1. v \in Node /\ D[v] # Infinity /\ D[v] <= k /\ D[v] \in Nat
      BY <1>4, <1>9, <2>2
    <3> QED
      BY <3>1
  <2>3. CASE v \notin Within(net, t, k)
    <3>1. v \in Node /\ \E w \in Within(net, t, k) : <<v, w>> \in net
      BY <2>1, <2>3 DEF OneBefore
    <3>2. PICK w \in Within(net, t, k) : <<v, w>> \in net
      BY <3>1
    <3>3. w \in Node /\ D[w] # Infinity /\ D[w] <= k /\ D[w] \in 0 .. N
      BY <1>7, <1>9, <3>2
    <3>4. D[v] <= D[w] + 1 /\ D[v] \in Nat
      BY <1>4, <1>6, <3>1, <3>2, <3>3
    <3> QED
      BY <1>5, <3>1, <3>3, <3>4
  <2> QED
    BY <2>2, <2>3
<1> HIDE DEF G
<1>10. \A k \in Nat : k \in G
  BY <1>8, <1>9, StepsForEver
<1>11. \A k \in Nat : \A v \in Within(net, t, k) : v \in Node /\ D[v] # Infinity /\ D[v] <= k
  BY <1>10 DEF G
<1>12. \A v \in Node : Reaches(net, v, t) <=> D[v] # Infinity
  <2> SUFFICES ASSUME NEW v \in Node PROVE Reaches(net, v, t) <=> D[v] # Infinity
    OBVIOUS
  <2>1. Reaches(net, v, t) => D[v] # Infinity
    BY <1>5, <1>11 DEF Reaches, N
  <2>2. ASSUME D[v] # Infinity PROVE Reaches(net, v, t)
    <3>1. D[v] \in Nat /\ D[v] <= N /\ v \in Within(net, t, D[v])
      BY <1>5, <1>7, <2>2
    <3>2. Within(net, t, D[v]) \subseteq Within(net, t, N)
      BY <1>5, <3>1, WithinGrows
    <3> QED
      BY <3>1, <3>2 DEF Reaches, N
  <2> QED
    BY <2>1, <2>2
<1>13. ASSUME NEW v \in Node, D[v] # Infinity
       PROVE  Reaches(net, v, t) /\ Distance(net, v, t) = D[v]
  <2>1. PICK k : k = D[v]
    OBVIOUS
  <2>2. k \in 0 .. N /\ v \in Within(net, t, k) /\ \A j \in Nat : v \in Within(net, t, j) => k <= j
    BY <1>7, <1>11, <1>13, <2>1
  <2> QED
    BY <2>1, <2>2, DistanceIs
<1>14. ASSUME NEW v \in Node, D[v] # Infinity
       PROVE  Nearer(D, seen, v) = NearerNodes(net, v, t)
  <2>1. ASSUME NEW w \in Node
        PROVE  (<<v, w>> \in seen /\ D[w] + 1 = D[v])
                 <=> (<<v, w>> \in net /\ Reaches(net, w, t)
                        /\ Distance(net, w, t) = Distance(net, v, t) - 1)
    <3>1. D[v] \in 0 .. N /\ Distance(net, v, t) = D[v] /\ D[w] \in Nat
      BY <1>4, <1>7, <1>13, <1>14
    <3>2. CASE D[w] = Infinity
      <4>1. ~(D[w] + 1 = D[v])
        BY <1>5, <3>1, <3>2
      <4>2. ~Reaches(net, w, t)
        BY <1>12, <3>2
      <4> QED
        BY <4>1, <4>2
    <3>3. CASE D[w] # Infinity
      <4>1. Reaches(net, w, t) /\ Distance(net, w, t) = D[w]
        BY <1>13, <3>3
      <4>2. <<v, w>> \in seen <=> <<v, w>> \in net
        BY <1>3, <1>6, <3>3 DEF Into
      <4>3. D[w] + 1 = D[v] <=> D[w] = D[v] - 1
        BY <3>1
      <4> QED
        BY <3>1, <4>1, <4>2, <4>3
    <3> QED
      BY <3>2, <3>3
  <2> QED
    BY <2>1 DEF Nearer, NearerNodes
<1> SUFFICES ASSUME NEW v \in Node
             PROVE  /\ IF Reaches(net, v, t)
                       THEN /\ D[v] = Distance(net, v, t) /\ D[v] \in 0 .. N
                            /\ v \in Within(net, t, D[v])
                       ELSE D[v] = Infinity
                    /\ \A k \in Nat : v \in Within(net, t, k) => Reaches(net, v, t) /\ D[v] <= k
                    /\ IF v = t \/ ~Reaches(net, v, t) THEN s.outPaths[v] = P[v]
                       ELSE Lists(s.outPaths[v], Len(s.outPaths[v]), NearerNodes(net, v, t))
  BY <1>1, <1>3 DEF Finds
<1>15. IF Reaches(net, v, t)
       THEN D[v] = Distance(net, v, t) /\ D[v] \in 0 .. N /\ v \in Within(net, t, D[v])
       ELSE D[v] = Infinity
  BY <1>7, <1>12, <1>13
<1>16. \A k \in Nat : v \in Within(net, t, k) => Reaches(net, v, t) /\ D[v] <= k
  BY <1>11, <1>12
<1>17. IF v = t \/ ~Reaches(net, v, t) THEN s.outPaths[v] = P[v]
       ELSE Lists(s.outPaths[v], Len(s.outPaths[v]), NearerNodes(net, v, t))
  <2>1. CASE v = t \/ ~Reaches(net, v, t)
    BY <1>4, <1>12, <2>1 DEF Paths
  <2>2. CASE v # t /\ Reaches(net, v, t)
    <3>1. Lists(s.outPaths[v], Len(s.outPaths[v]), Nearer(D, seen, v))
      BY <1>4, <1>12, <2>2 DEF Paths
    <3> QED
      BY <1>12, <1>14, <2>2, <3>1
  <2> QED
    BY <2>1, <2>2
<1> QED
  BY <1>15, <1>16, <1>17

\* No paths are lists of nodes.
LEMMA NoPathsIsTyped == NoPaths \in [Node -> Seq(Node)]
  BY DEF NoPaths

\* A node is k links or fewer away exactly if it reaches the target and is not farther.
LEMMA DistanceFacts ==
  ASSUME NEW net, net \subseteq Node \X Node, NEW t \in Node, NEW v \in Node
  PROVE  /\ Reaches(net, v, t) => /\ Distance(net, v, t) \in 0 .. N
                                  /\ v \in Within(net, t, Distance(net, v, t))
         /\ \A k \in Nat : v \in Within(net, t, k) =>
              Reaches(net, v, t) /\ Distance(net, v, t) <= k
<1>1. PICK s : s = ShortestPathsTo(net, t, NoPaths)
  OBVIOUS
<1>2. /\ IF Reaches(net, v, t)
         THEN /\ s.dist[v] = Distance(net, v, t) /\ s.dist[v] \in 0 .. N
              /\ v \in Within(net, t, s.dist[v])
         ELSE s.dist[v] = Infinity
      /\ \A k \in Nat : v \in Within(net, t, k) => Reaches(net, v, t) /\ s.dist[v] <= k
  <2>1. PICK P : P = NoPaths /\ P \in [Node -> Seq(Node)] /\ s = ShortestPathsTo(net, t, P)
    BY <1>1, NoPathsIsTyped
  <2>2. Finds(s, net, t, P)
    BY <2>1, SearchFinds
  <2> QED
    BY <2>2 DEF Finds
<1>3. PICK m : m = s.dist[v]
  OBVIOUS
<1>4. Reaches(net, v, t) => Distance(net, v, t) = m /\ m \in 0 .. N /\ v \in Within(net, t, m)
  BY <1>2, <1>3
<1>5. \A k \in Nat : v \in Within(net, t, k) => Reaches(net, v, t) /\ m <= k
  BY <1>2, <1>3
<1> QED
  BY <1>4, <1>5

\* A node that reaches another one has a neighbour that is nearer to it.
LEMMA NearerExists ==
  ASSUME NEW net, net \subseteq Node \X Node, NEW t \in Node, NEW v \in Node,
         Reaches(net, v, t), v # t
  PROVE  \E w : w \in NearerNodes(net, v, t)
<1>1. PICK k : k = Distance(net, v, t)
  OBVIOUS
<1>2. N \in Nat
  BY SizeIsNat
<1>3. k \in 0 .. N /\ k \in Nat /\ v \in Within(net, t, k)
  BY <1>1, <1>2, DistanceFacts
<1>4. k # 0
  BY <1>3, WithinSteps
<1>5. PICK j : j = k - 1 /\ j \in Nat /\ j + 1 = k /\ ~(k <= j)
  BY <1>3, <1>4
<1>6. v \in OneBefore(net, Within(net, t, j))
  <2>1. Within(net, t, j + 1) = OneBefore(net, Within(net, t, j))
    BY <1>5, WithinSteps
  <2> QED
    BY <1>3, <1>5, <2>1
<1>7. v \notin Within(net, t, j)
  BY <1>1, <1>5, DistanceFacts
<1>8. PICK w \in Within(net, t, j) : <<v, w>> \in net
  BY <1>6, <1>7 DEF OneBefore
<1>9. w \in Node
  BY <1>5, <1>8, WithinSteps
<1>10. PICK i : i = Distance(net, w, t)
  OBVIOUS
<1>11. Reaches(net, w, t) /\ i <= j
  BY <1>5, <1>8, <1>9, <1>10, DistanceFacts
<1>12. i \in 0 .. N /\ i \in Nat /\ w \in Within(net, t, i)
  BY <1>2, <1>9, <1>10, <1>11, DistanceFacts
<1>13. v \in Within(net, t, i + 1)
  <2>1. v \in OneBefore(net, Within(net, t, i))
    BY <1>8, <1>12 DEF OneBefore
  <2> QED
    BY <1>12, <2>1, WithinSteps
<1>14. k <= i + 1
  BY <1>1, <1>12, <1>13, DistanceFacts
<1>15. i = k - 1
  BY <1>3, <1>5, <1>11, <1>12, <1>14
<1> QED
  BY <1>1, <1>8, <1>9, <1>10, <1>11, <1>15 DEF NearerNodes

\* From u over v to w.
LEMMA WithinJoins ==
  ASSUME NEW net, NEW w \in Node, NEW v, NEW k \in Nat, v \in Within(net, w, k),
         NEW j \in Nat, NEW u, u \in Within(net, v, j)
  PROVE  u \in Within(net, w, k + j)
<1>1. v \in Node
  BY WithinSteps
<1> DEFINE G == {i \in Nat : Within(net, v, i) \subseteq Within(net, w, k + i)}
<1>2. 0 \in G
  <2>1. Within(net, v, 0) = {v} /\ k + 0 = k
    BY <1>1, WithinSteps
  <2> QED
    BY <2>1
<1>3. ASSUME NEW i \in Nat, i \in G PROVE i + 1 \in G
  <2>1. k + i \in Nat /\ k + (i + 1) = (k + i) + 1
    OBVIOUS
  <2>2. Within(net, v, i + 1) = OneBefore(net, Within(net, v, i))
    BY <1>1, WithinSteps
  <2>3. Within(net, w, (k + i) + 1) = OneBefore(net, Within(net, w, k + i))
    BY <2>1, WithinSteps
  <2>4. OneBefore(net, Within(net, v, i)) \subseteq OneBefore(net, Within(net, w, k + i))
    BY <1>3 DEF OneBefore
  <2> QED
    BY <2>1, <2>2, <2>3, <2>4
<1> HIDE DEF G
<1>4. j \in G
  BY <1>2, <1>3, StepsForEver
<1> QED
  BY <1>4 DEF G

\* A network that leads back over every link.
Symmetric(net) == net \subseteq Node \X Node /\ \A u, v \in Node : <<u, v>> \in net => <<v, u>> \in net

\* With links in both directions, a target is as far from a node as the node from the target.
LEMMA WithinTurns ==
  ASSUME NEW net, Symmetric(net), NEW t \in Node, NEW k \in Nat, NEW u, u \in Within(net, t, k)
  PROVE  u \in Node /\ t \in Within(net, u, k)
<1> DEFINE G == {i \in Nat : \A x \in Within(net, t, i) : x \in Node /\ t \in Within(net, x, i)}
<1>1. 0 \in G
  <2>1. ASSUME NEW x \in Within(net, t, 0) PROVE x \in Node /\ t \in Within(net, x, 0)
    <3>1. Within(net, t, 0) = {t}
      BY WithinSteps
    <3>2. x = t
      BY <3>1
    <3> QED
      BY <3>1, <3>2
  <2> QED
    BY <2>1
<1>2. ASSUME NEW i \in Nat, i \in G PROVE i + 1 \in G
  <2> SUFFICES ASSUME NEW x \in Within(net, t, i + 1)
               PROVE  x \in Node /\ t \in Within(net, x, i + 1)
    OBVIOUS
  <2>1. x \in OneBefore(net, Within(net, t, i))
    BY WithinSteps
  <2>2. CASE x \in Within(net, t, i)
    <3>1. x \in Node /\ t \in Within(net, x, i)
      BY <1>2, <2>2
    <3>2. Within(net, x, i) \subseteq Within(net, x, i + 1)
      BY <3>1, WithinGrows
    <3> QED
      BY <3>1, <3>2
  <2>3. CASE x \notin Within(net, t, i)
    <3>1. PICK y \in Within(net, t, i) : x \in Node /\ <<x, y>> \in net
      BY <2>1, <2>3 DEF OneBefore
    <3>2. y \in Node /\ t \in Within(net, y, i)
      BY <1>2
    <3>3. <<y, x>> \in net
      BY <3>1, <3>2 DEF Symmetric
    <3>4. y \in Within(net, x, 1)
      <4>1. Within(net, x, 0 + 1) = OneBefore(net, Within(net, x, 0)) /\ Within(net, x, 0) = {x}
        BY <3>1, WithinSteps
      <4>2. 0 + 1 = 1
        OBVIOUS
      <4> QED
        BY <3>2, <3>3, <4>1, <4>2 DEF OneBefore
    <3>5. t \in Within(net, x, 1 + i)
      <4>1. 1 \in Nat /\ i \in Nat
        OBVIOUS
      <4> QED
        BY <3>1, <3>2, <3>4, <4>1, WithinJoins, Zenon
    <3>6. 1 + i = i + 1
      OBVIOUS
    <3> QED
      BY <3>1, <3>5, <3>6
  <2> QED
    BY <2>2, <2>3
<1> HIDE DEF G
<1>3. k \in G
  BY <1>1, <1>2, StepsForEver
<1> QED
  BY <1>3 DEF G

\* Nodes that reach the same node reach each other.
LEMMA ReachesJoins ==
  ASSUME NEW net, Symmetric(net), NEW t \in Node, NEW u \in Node, NEW v \in Node,
         Reaches(net, u, t), Reaches(net, v, t)
  PROVE  Reaches(net, u, v)
<1>1. N \in Nat
  BY SizeIsNat
<1>2. u \in Within(net, t, N) /\ v \in Within(net, t, N)
  BY DEF Reaches, N
<1>3. t \in Within(net, v, N)
  BY <1>1, <1>2, WithinTurns
<1>4. u \in Within(net, v, N + N) /\ N + N \in Nat
  BY <1>1, <1>2, <1>3, WithinJoins
<1> QED
  BY <1>4, DistanceFacts DEF Symmetric

\* A list of different things is as long as there are things.
LEMMA ListsCounts ==
  ASSUME NEW o, NEW n \in Nat, NEW W, Lists(o, n, W)
  PROVE  Cardinality(W) = n /\ IsFiniteSet(W)
<1>1. PICK f : f = [i \in 1 .. n |-> o[i]]
  OBVIOUS
<1>2. f \in Bijection(1 .. n, W)
  <2>1. f \in [1 .. n -> W]
    BY <1>1 DEF Lists
  <2>2. \A i, j \in 1 .. n : f[i] = f[j] => i = j
    BY <1>1 DEF Lists
  <2>3. \A w \in W : \E i \in 1 .. n : f[i] = w
    BY <1>1 DEF Lists
  <2> QED
    BY <2>1, <2>2, <2>3, Fun_IsBij
<1>3. ExistsBijection(1 .. n, W)
  BY <1>2 DEF ExistsBijection
<1> QED
  BY <1>3, FS_CountingElements, FS_NatBijection

-----------------------------------------------------------------------------
(***************************************************************************)
(* The table of a node.                                                    *)
(***************************************************************************)
Entries == [id : Node, len : 0 .. Infinity]
Tables  == [paths : [Node -> Seq(Node)], routes : [Node -> Seq(Entries)], failed : BOOLEAN]

\* The entries of v for a target are those RoutesAreShortest asks for, in the network
\* that populate_routing_table looks at.
RouteIsRight(hops, net, multi, v, dest) ==
  LET nearer == NearerNodes(net, v, dest)
      faces  == {hops[i].id : i \in 1 .. Len(hops)}
  IN /\ \A i \in 1 .. Len(hops) : hops[i].len = Distance(net, v, dest)
     /\ IF multi THEN faces = nearer /\ Len(hops) = Cardinality(nearer)
                 ELSE faces \subseteq nearer /\ Len(hops) = 1

\* The entries that add_FIB_entry makes: the first of the chosen number of paths.
LEMMA HopsAreTyped ==
  ASSUME NEW o \in Seq(Node), o # <<>>, NEW d \in 0 .. Infinity, par.multipath \in BOOLEAN
  PROVE  /\ Hops(o, d) \in Seq(Entries)
         /\ Len(Hops(o, d)) = ChosenPaths(Len(o))
         /\ ChosenPaths(Len(o)) \in 1 .. Len(o)
         /\ \A i \in 1 .. ChosenPaths(Len(o)) : Hops(o, d)[i] = [id |-> o[i], len |-> d]
<1>1. PICK n : n = ChosenPaths(Len(o))
  OBVIOUS
<1>2. Len(o) \in Nat /\ Len(o) > 0
  OBVIOUS
<1>3. n \in 1 .. Len(o)
  <2>1. CASE par.multipath
    BY <1>1, <1>2, <2>1 DEF ChosenPaths
  <2>2. CASE ~par.multipath
    BY <1>1, <1>2, <2>2 DEF ChosenPaths
  <2> QED
    BY <2>1, <2>2
<1>4. PICK h : h = [i \in 1 .. n |-> [id |-> o[i], len |-> d]]
  OBVIOUS
<1>5. h = Hops(o, d)
  BY <1>1, <1>4 DEF Hops
<1>6. \A i \in 1 .. n : o[i] \in Node
  BY <1>3
<1>7. n \in Nat
  BY <1>2, <1>3
<1>8. h \in [1 .. n -> Entries]
  BY <1>4, <1>6 DEF Entries
<1>9. h \in Seq(Entries) /\ Len(h) = n
  BY <1>7, <1>8, SMT
<1> QED
  BY <1>1, <1>3, <1>4, <1>5, <1>9

\* The entries of a node that has been found lead to nearer nodes, over the shortest distance.
LEMMA HopsAreRight ==
  ASSUME NEW net, NEW t \in Node, NEW P, NEW s, Finds(s, net, t, P), NEW v \in Node,
         v # t, Reaches(net, v, t), s.outPaths[v] # <<>>, par.multipath \in BOOLEAN
  PROVE  RouteIsRight(Hops(s.outPaths[v], s.dist[v]), net, par.multipath, v, t)
<1>1. PICK o, d, W, h : /\ o = s.outPaths[v] /\ d = s.dist[v] /\ W = NearerNodes(net, v, t)
                        /\ h = Hops(o, d)
  OBVIOUS
<1>2. N \in Nat /\ Infinity = 2 * N + 1
  BY SizeIsNat
<1>3. o \in Seq(Node) /\ o # <<>> /\ d = Distance(net, v, t) /\ d \in 0 .. N /\ Lists(o, Len(o), W)
  BY <1>1 DEF Finds, SearchStates
<1>4. d \in 0 .. Infinity
  BY <1>2, <1>3
<1>5. PICK n : n = ChosenPaths(Len(o))
  OBVIOUS
<1>6. /\ Len(h) = n /\ n \in 1 .. Len(o) /\ Len(o) \in Nat
      /\ \A i \in 1 .. n : h[i] = [id |-> o[i], len |-> d]
  BY <1>1, <1>3, <1>4, <1>5, HopsAreTyped
<1>7. \A i \in 1 .. n : h[i].id = o[i] /\ h[i].len = d
  BY <1>6
<1>8. {h[i].id : i \in 1 .. n} = {o[i] : i \in 1 .. n}
  BY <1>7
<1>9. CASE par.multipath
  <2>1. n = Len(o)
    BY <1>5, <1>9 DEF ChosenPaths
  <2>2. {o[i] : i \in 1 .. n} = W
    BY <1>3, <2>1, SMTT(30) DEF Lists
  <2>3. n = Cardinality(W)
    BY <1>3, <1>6, <2>1, ListsCounts
  <2> QED
    BY <1>1, <1>3, <1>6, <1>7, <1>8, <1>9, <2>2, <2>3, SMTT(30) DEF RouteIsRight
<1>10. CASE ~par.multipath
  <2>1. n = 1
    BY <1>5, <1>10 DEF ChosenPaths
  <2>2. {o[i] : i \in 1 .. n} \subseteq W
    BY <1>3, <1>6 DEF Lists
  <2> QED
    BY <1>1, <1>3, <1>6, <1>7, <1>8, <1>10, <2>1, <2>2 DEF RouteIsRight
<1> QED
  BY <1>9, <1>10

\* The first target of v.
First(v) == IF v = 0 THEN 1 ELSE 0

\* The table after the targets below n: no target ended the program, the first one has
\* been found, and all that have been reached have the right entries.
TableIsRight(a, net, multi, v, n) ==
  /\ a \in Tables
  /\ ~a.failed =>
       /\ \A t \in Node : t < n /\ t # v /\ Reaches(net, v, t) =>
            RouteIsRight(a.routes[t], net, multi, v, t)
       /\ n <= First(v) => a.paths[v] = <<>>
       /\ First(v) < n /\ First(v) \in Node => Reaches(net, v, First(v))

\* One more target keeps the table right: without a path the program ends, or the paths are
\* those of an earlier target, which a node without any way to others cannot have.
LEMMA TargetAdded ==
  ASSUME NEW net, net \subseteq Node \X Node, NEW v \in Node, NEW t \in Node, NEW a,
         par.multipath \in BOOLEAN, TableIsRight(a, net, par.multipath, v, t)
  PROVE  TableIsRight(AddTarget(net, v, a, t), net, par.multipath, v, t + 1)
<1>1. PICK b, s : b = AddTarget(net, v, a, t) /\ s = ShortestPathsTo(net, t, a.paths)
  OBVIOUS
<1>2. a \in Tables /\ t \in Nat /\ v \in Nat
  BY SizeIsNat DEF TableIsRight
<1>3. CASE t = v \/ a.failed
  <2>1. b = a
    BY <1>1, <1>3 DEF AddTarget
  <2>2. CASE a.failed
    BY <1>1, <1>2, <2>1, <2>2 DEF TableIsRight
  <2>3. CASE ~a.failed
    <3>1. t = v /\ t # First(v) /\ First(v) \in Nat
      BY <1>2, <1>3, <2>3 DEF First
    <3>2. \A u \in Node : u < t + 1 /\ u # v => u < t
      BY <3>1, SizeIsNat
    <3>3. /\ \A u \in Node : u < t /\ u # v /\ Reaches(net, v, u) =>
               RouteIsRight(a.routes[u], net, par.multipath, v, u)
          /\ t <= First(v) => a.paths[v] = <<>>
          /\ First(v) < t /\ First(v) \in Node => Reaches(net, v, First(v))
      BY <2>3 DEF TableIsRight
    <3>4. (t + 1 <= First(v) => t <= First(v)) /\ (First(v) < t + 1 => First(v) < t)
      BY <1>2, <3>1
    <3> QED
      BY <1>1, <1>2, <2>1, <3>2, <3>3, <3>4 DEF TableIsRight
  <2> QED
    BY <2>2, <2>3
<1>4. CASE t # v /\ ~a.failed
  <2>1. PICK P : P = a.paths /\ P \in [Node -> Seq(Node)]
    BY <1>2 DEF Tables
  <2>2. Finds(s, net, t, P)
    BY <1>1, <2>1, SearchFinds
  <2>3. CASE s.outPaths[v] = <<>>
    <3>1. b = [a EXCEPT !.failed = TRUE]
      BY <1>1, <1>4, <2>3 DEF AddTarget
    <3>2. b \in Tables /\ b.failed
      BY <1>2, <3>1 DEF Tables
    <3> QED
      BY <1>1, <3>2 DEF TableIsRight
  <2>4. CASE s.outPaths[v] # <<>>
    <3>1. PICK h : h = Hops(s.outPaths[v], s.dist[v])
      OBVIOUS
    <3>2. b = [a EXCEPT !.paths = s.outPaths, !.routes[t] = h]
      BY <1>1, <1>4, <2>4, <3>1 DEF AddTarget
    <3>3. s.outPaths \in [Node -> Seq(Node)] /\ s.outPaths[v] \in Seq(Node)
      BY <2>2 DEF Finds, SearchStates
    <3>4. s.dist[v] \in 0 .. Infinity
      <4>1. N \in Nat /\ Infinity = 2 * N + 1
        BY SizeIsNat
      <4>2. s.dist[v] \in 0 .. N \/ s.dist[v] = Infinity
        BY <2>2 DEF Finds
      <4> QED
        BY <4>1, <4>2
    <3>5. h \in Seq(Entries)
      BY <2>4, <3>1, <3>3, <3>4, HopsAreTyped
    <3>6. PICK R : R = [a.routes EXCEPT ![t] = h]
      OBVIOUS
    <3>7. /\ b.paths = s.outPaths /\ b.routes = R /\ b.failed = FALSE
          /\ R \in [Node -> Seq(Entries)] /\ R[t] = h /\ \A u \in Node : u # t => R[u] = a.routes[u]
      BY <1>2, <1>4, <3>2, <3>5, <3>6 DEF Tables
    <3>8. b \in Tables
      BY <1>2, <3>2, <3>3, <3>6, <3>7 DEF Tables
    <3>9. ASSUME NEW u \in Node, u < t + 1, u # v, Reaches(net, v, u)
          PROVE  RouteIsRight(R[u], net, par.multipath, v, u)
      <4>1. CASE u = t
        BY <1>4, <2>2, <2>4, <3>1, <3>7, <3>9, <4>1, HopsAreRight
      <4>2. CASE u # t
        <5>1. u < t
          BY <1>2, <3>9, <4>2, SizeIsNat
        <5> QED
          BY <1>4, <3>7, <3>9, <4>2, <5>1 DEF TableIsRight
      <4> QED
        BY <4>1, <4>2
    <3>10. First(v) < t + 1 /\ First(v) \in Node => Reaches(net, v, First(v))
      <4> SUFFICES ASSUME First(v) < t + 1, First(v) \in Node PROVE Reaches(net, v, First(v))
        OBVIOUS
      <4>1. CASE First(v) < t
        BY <1>4, <4>1 DEF TableIsRight
      <4>2. CASE First(v) = t
        <5>1. t <= First(v)
          BY <1>2, <4>2
        <5>2. P[v] = <<>>
          BY <1>4, <2>1, <5>1 DEF TableIsRight
        <5> QED
          BY <2>2, <2>4, <4>2, <5>2 DEF Finds
      <4>3. First(v) \in Nat
        BY DEF First
      <4> QED
        BY <1>2, <4>1, <4>2, <4>3
    <3>11. ~(t + 1 <= First(v))
      <4>1. t # 0 \/ First(v) = 0
        BY <1>4 DEF First
      <4>2. First(v) = 0 \/ First(v) = 1
        BY DEF First
      <4> QED
        BY <1>2, <4>1, <4>2
    <3> QED
      BY <1>1, <3>7, <3>8, <3>9, <3>10, <3>11 DEF TableIsRight
  <2> QED
    BY <2>3, <2>4
<1> QED
  BY <1>3, <1>4

\* One more target leaves a table.
LEMMA AddTargetTyped ==
  ASSUME NEW net, net \subseteq Node \X Node, NEW v \in Node, NEW t \in Node, NEW a \in Tables,
         par.multipath \in BOOLEAN
  PROVE  AddTarget(net, v, a, t) \in Tables
<1>1. PICK b, s : b = AddTarget(net, v, a, t) /\ s = ShortestPathsTo(net, t, a.paths)
  OBVIOUS
<1>2. CASE t = v \/ a.failed
  <2>1. b = a
    BY <1>1, <1>2 DEF AddTarget
  <2> QED
    BY <1>1, <2>1
<1>3. CASE ~(t = v \/ a.failed) /\ s.outPaths[v] = <<>>
  <2>1. b = [a EXCEPT !.failed = TRUE]
    BY <1>1, <1>3 DEF AddTarget
  <2> QED
    BY <1>1, <2>1 DEF Tables
<1>4. CASE ~(t = v \/ a.failed) /\ s.outPaths[v] # <<>>
  <2>1. PICK P : P = a.paths /\ P \in [Node -> Seq(Node)]
    BY DEF Tables
  <2>2. Finds(s, net, t, P)
    BY <1>1, <2>1, SearchFinds
  <2>3. PICK h : h = Hops(s.outPaths[v], s.dist[v])
    OBVIOUS
  <2>4. b = [a EXCEPT !.paths = s.outPaths, !.routes[t] = h]
    BY <1>1, <1>4, <2>3 DEF AddTarget
  <2>5. s.outPaths \in [Node -> Seq(Node)] /\ s.outPaths[v] \in Seq(Node)
    BY <2>2 DEF Finds, SearchStates
  <2>6. s.dist[v] \in 0 .. Infinity
    <3>1. N \in Nat /\ Infinity = 2 * N + 1
      BY SizeIsNat
    <3>2. s.dist[v] \in 0 .. N \/ s.dist[v] = Infinity
      BY <2>2 DEF Finds
    <3> QED
      BY <3>1, <3>2
  <2>7. h \in Seq(Entries)
    BY <1>4, <2>3, <2>5, <2>6, HopsAreTyped
  <2>8. [a.routes EXCEPT ![t] = h] \in [Node -> Seq(Entries)]
    BY <2>7 DEF Tables
  <2> QED
    BY <1>1, <2>4, <2>5, <2>8, ZenonT(60) DEF Tables
<1> QED
  BY <1>2, <1>3, <1>4

\* The targets below n have been added.
NewTable == [paths |-> NoPaths, routes |-> NoRoutes, failed |-> FALSE]
Filled(f, net, v, n) ==
  f = [m \in 0 .. n |-> IF m = 0 THEN NewTable ELSE AddTarget(net, v, f[m - 1], m - 1)]

\* What populate_routing_table computes.
LEMMA TableIsFilled ==
  ASSUME NEW net, net \subseteq Node \X Node, NEW v \in Node, par.multipath \in BOOLEAN
  PROVE  TableIsRight(AddRoutes(net, v), net, par.multipath, v, N)
<1>1. N \in Nat /\ Node = 0 .. N - 1
  BY SizeIsNat
<1>2. NewTable \in Tables
  <2>1. NoRoutes \in [Node -> Seq(Entries)]
    BY DEF NoRoutes
  <2> QED
    BY <2>1, NoPathsIsTyped DEF NewTable, Tables
<1>3. PICK nx : nx = [m \in 1 .. N |-> [a \in Tables |-> AddTarget(net, v, a, m - 1)]]
  OBVIOUS
<1>4. nx \in [1 .. N -> [Tables -> Tables]]
  <2> SUFFICES ASSUME NEW m \in 1 .. N, NEW a \in Tables PROVE AddTarget(net, v, a, m - 1) \in Tables
    BY <1>3
  <2>1. m - 1 \in Node
    BY <1>1
  <2> QED
    BY <2>1, AddTargetTyped
<1>5. PICK f \in [0 .. N -> Tables] : Recurs(f, N, NewTable, nx)
  BY <1>1, <1>2, <1>4, RecursionExists
<1>6. ASSUME NEW m \in 0 .. N
      PROVE  (IF m = 0 THEN NewTable ELSE nx[m][f[m - 1]])
               = IF m = 0 THEN NewTable ELSE AddTarget(net, v, f[m - 1], m - 1)
  <2>1. CASE m = 0
    BY <2>1
  <2>2. CASE m # 0
    <3>1. m \in 1 .. N /\ m - 1 \in 0 .. N
      BY <1>1, <2>2
    <3>2. f[m - 1] \in Tables
      BY <3>1
    <3>3. nx[m][f[m - 1]] = AddTarget(net, v, f[m - 1], m - 1)
      BY <1>3, <3>1, <3>2
    <3> QED
      BY <2>2, <3>3
  <2> QED
    BY <2>1, <2>2
<1>7. Filled(f, net, v, N)
  BY <1>5, <1>6 DEF Recurs, Filled
<1>8. PICK g : g = CHOOSE h : Filled(h, net, v, N)
  OBVIOUS
<1>9. Filled(g, net, v, N)
  BY <1>7, <1>8, Zenon
<1>10. AddRoutes(net, v) = g[N]
  BY <1>8, Zenon DEF AddRoutes, Filled, NewTable, N
<1>11. \A m \in 0 .. N : g[m] = IF m = 0 THEN NewTable ELSE AddTarget(net, v, g[m - 1], m - 1)
  BY <1>9, Zenon DEF Filled
<1> DEFINE G == {m \in 0 .. N : TableIsRight(g[m], net, par.multipath, v, m)}
<1>12. 0 \in G
  <2>1. 0 \in 0 .. N
    BY <1>1
  <2>2. g[0] = NewTable
    BY <1>11, <2>1
  <2>3. \A t \in Node : ~(t < 0)
    BY <1>1
  <2>4. ~(First(v) < 0)
    BY DEF First
  <2>5. NewTable.paths[v] = <<>>
    BY DEF NewTable, NoPaths
  <2>6. TableIsRight(NewTable, net, par.multipath, v, 0)
    BY <1>2, <2>3, <2>4, <2>5 DEF TableIsRight
  <2> QED
    BY <2>1, <2>2, <2>6
<1>13. ASSUME NEW m \in 1 .. N, m - 1 \in G PROVE m \in G
  <2>1. PICK t, a : t = m - 1 /\ a = g[m - 1]
    OBVIOUS
  <2>2. t \in Node /\ t + 1 = m /\ m \in 0 .. N /\ m # 0
    BY <1>1, <2>1
  <2>3. TableIsRight(a, net, par.multipath, v, t)
    BY <1>13, <2>1
  <2>4. TableIsRight(AddTarget(net, v, a, t), net, par.multipath, v, t + 1)
    BY <2>2, <2>3, TargetAdded
  <2>5. g[m] = AddTarget(net, v, a, t)
    BY <1>11, <2>1, <2>2
  <2> QED
    BY <2>2, <2>4, <2>5
<1> HIDE DEF G
<1>14. N \in 0 .. N
  BY <1>1
<1>15. N \in G
  BY <1>1, <1>12, <1>13, <1>14, Steps
<1> QED
  BY <1>10, <1>15 DEF G

\* The table of a node that has got one.
RowIsRight(row, net, multi, v) ==
  /\ \A t \in Node : t # v /\ Reaches(net, v, t) => RouteIsRight(row[t], net, multi, v, t)
  /\ First(v) \in Node => Reaches(net, v, First(v))

\* populate_routing_table makes a right table, or ends the program.
LEMMA TableIsPopulated ==
  ASSUME NEW net, net \subseteq Node \X Node, NEW v \in Node, par.multipath \in BOOLEAN
  PROVE  /\ AddRoutes(net, v).routes \in [Node -> Seq(Entries)]
         /\ ~AddRoutes(net, v).failed => RowIsRight(AddRoutes(net, v).routes, net, par.multipath, v)
<1>1. PICK a : a = AddRoutes(net, v)
  OBVIOUS
<1>2. TableIsRight(a, net, par.multipath, v, N)
  BY <1>1, TableIsFilled
<1>3. \A t \in Node : t < N
  BY SizeIsNat
<1>4. a.routes \in [Node -> Seq(Entries)]
  BY <1>2 DEF TableIsRight, Tables
<1>5. ~a.failed => RowIsRight(a.routes, net, par.multipath, v)
  BY <1>2, <1>3 DEF TableIsRight, RowIsRight
<1> QED
  BY <1>1, <1>4, <1>5

-----------------------------------------------------------------------------
(***************************************************************************)
(* The placement of contents.                                              *)
(***************************************************************************)

\* The least member of a set of numbers is one of them.
LEMMA MinIsMember ==
  ASSUME NEW S, S \subseteq Nat, S # {}
  PROVE  Min(S) \in S
<1>1. \E n \in S : \A m \in S : n <= m
  BY LeastNat
<1> QED
  BY <1>1, Zenon DEF Min

\* The sum of the first i weights.
Sums(f, i) == f = [j \in 0 .. i |-> IF j = 0 THEN 0 ELSE f[j - 1] + par.catalog_split[j]]

\* The sum of the first i weights adds them one by one.
LEMMA SplitSums ==
  ASSUME NEW n \in Nat, par.catalog_split \in [1 .. n -> Nat]
  PROVE  /\ SplitUpTo(0) = 0 /\ \A i \in 0 .. n : SplitUpTo(i) \in Nat
         /\ \A i \in 1 .. n : SplitUpTo(i) = SplitUpTo(i - 1) + par.catalog_split[i]
<1>1. ASSUME NEW i \in 0 .. n
      PROVE  \E f \in [0 .. i -> Nat] : Sums(f, i) /\ SplitUpTo(i) = f[i]
  <2>1. PICK nx : nx = [j \in 1 .. i |-> [x \in Nat |-> x + par.catalog_split[j]]]
    OBVIOUS
  <2>2. \A j \in 1 .. i : j \in 1 .. n /\ par.catalog_split[j] \in Nat
    OBVIOUS
  <2>3. nx \in [1 .. i -> [Nat -> Nat]]
    <3> SUFFICES ASSUME NEW j \in 1 .. i, NEW x \in Nat PROVE x + par.catalog_split[j] \in Nat
      BY <2>1
    <3> QED
      BY <2>2
  <2>4. i \in Nat /\ 0 \in Nat
    OBVIOUS
  <2>5. PICK f \in [0 .. i -> Nat] : Recurs(f, i, 0, nx)
    BY <2>3, <2>4, RecursionExists
  <2>6. ASSUME NEW j \in 0 .. i
        PROVE  (IF j = 0 THEN 0 ELSE nx[j][f[j - 1]])
                 = IF j = 0 THEN 0 ELSE f[j - 1] + par.catalog_split[j]
    <3>1. CASE j = 0
      BY <3>1
    <3>2. CASE j # 0
      <4>1. j \in 1 .. i /\ j - 1 \in 0 .. i
        BY <3>2
      <4>2. f[j - 1] \in Nat
        BY <4>1
      <4>3. nx[j][f[j - 1]] = f[j - 1] + par.catalog_split[j]
        BY <2>1, <4>1, <4>2
      <4> QED
        BY <3>2, <4>3
    <3> QED
      BY <3>1, <3>2
  <2>7. Sums(f, i)
    BY <2>5, <2>6 DEF Recurs, Sums
  <2>8. PICK g : g = CHOOSE h : Sums(h, i)
    OBVIOUS
  <2>9. Sums(g, i)
    BY <2>7, <2>8, Zenon
  <2>10. SplitUpTo(i) = g[i]
    BY <2>8, Zenon DEF SplitUpTo, Sums
  <2>11. g = f
    <3>1. \A j \in 0 .. i : f[j] = IF j = 0 THEN 0 ELSE f[j - 1] + par.catalog_split[j]
      BY <2>7, Zenon DEF Sums
    <3>2. \A j \in 0 .. i : g[j] = IF j = 0 THEN 0 ELSE g[j - 1] + par.catalog_split[j]
      BY <2>9, Zenon DEF Sums
    <3> DEFINE G == {j \in 0 .. i : f[j] = g[j]}
    <3>3. 0 \in G
      <4>1. 0 \in 0 .. i
        OBVIOUS
      <4> QED
        BY <3>1, <3>2, <4>1
    <3>4. ASSUME NEW j \in 1 .. i, j - 1 \in G PROVE j \in G
      <4>1. j \in 0 .. i /\ j # 0
        OBVIOUS
      <4> QED
        BY <3>1, <3>2, <3>4, <4>1
    <3> HIDE DEF G
    <3>5. \A j \in 0 .. i : j \in G
      BY <2>4, <3>3, <3>4, Steps
    <3>6. \A j \in 0 .. i : f[j] = g[j]
      BY <3>5 DEF G
    <3>7. f = [j \in 0 .. i |-> f[j]] /\ g = [j \in 0 .. i |-> g[j]]
      BY <2>7, <2>9 DEF Sums
    <3> QED
      BY <3>6, <3>7
  <2> QED
    BY <2>7, <2>10, <2>11
<1>2. ASSUME NEW i \in 0 .. n, NEW f \in [0 .. i -> Nat], Sums(f, i), NEW k \in 0 .. i
      PROVE  SplitUpTo(k) = f[k]
  <2>1. k \in 0 .. n /\ k \in Nat
    OBVIOUS
  <2>2. PICK g \in [0 .. k -> Nat] : Sums(g, k) /\ SplitUpTo(k) = g[k]
    BY <1>1, <2>1
  <2>3. \A j \in 0 .. i : f[j] = IF j = 0 THEN 0 ELSE f[j - 1] + par.catalog_split[j]
    BY <1>2, Zenon DEF Sums
  <2>4. \A j \in 0 .. k : g[j] = IF j = 0 THEN 0 ELSE g[j - 1] + par.catalog_split[j]
    BY <2>2, Zenon DEF Sums
  <2> DEFINE G == {j \in 0 .. k : f[j] = g[j]}
  <2>5. 0 \in G
    <3>1. 0 \in 0 .. k /\ 0 \in 0 .. i
      OBVIOUS
    <3> QED
      BY <2>3, <2>4, <3>1
  <2>6. ASSUME NEW j \in 1 .. k, j - 1 \in G PROVE j \in G
    <3>1. j \in 0 .. k /\ j \in 0 .. i /\ j # 0
      OBVIOUS
    <3> QED
      BY <2>3, <2>4, <2>6, <3>1
  <2> HIDE DEF G
  <2>7. k \in G
    <3>1. \A j \in 0 .. k : j \in G
      BY <2>1, <2>5, <2>6, Steps
    <3> QED
      BY <2>1, <3>1
  <2> QED
    BY <2>2, <2>7 DEF G
<1>3. SplitUpTo(0) = 0
  <2>1. 0 \in 0 .. n /\ 0 \in 0 .. 0
    OBVIOUS
  <2>2. PICK f \in [0 .. 0 -> Nat] : Sums(f, 0) /\ SplitUpTo(0) = f[0]
    BY <1>1, <2>1
  <2>3. f[0] = 0
    BY <2>1, <2>2 DEF Sums
  <2> QED
    BY <2>2, <2>3
<1>4. \A i \in 0 .. n : SplitUpTo(i) \in Nat
  <2> SUFFICES ASSUME NEW i \in 0 .. n PROVE SplitUpTo(i) \in Nat
    OBVIOUS
  <2>1. PICK f \in [0 .. i -> Nat] : SplitUpTo(i) = f[i]
    BY <1>1
  <2>2. i \in 0 .. i
    OBVIOUS
  <2> QED
    BY <2>1, <2>2
<1>5. ASSUME NEW i \in 1 .. n PROVE SplitUpTo(i) = SplitUpTo(i - 1) + par.catalog_split[i]
  <2>1. i \in 0 .. n /\ i \in 0 .. i /\ i - 1 \in 0 .. i /\ i # 0
    OBVIOUS
  <2>2. PICK f \in [0 .. i -> Nat] : Sums(f, i) /\ SplitUpTo(i) = f[i]
    BY <1>1, <2>1
  <2>3. SplitUpTo(i - 1) = f[i - 1]
    BY <1>2, <2>1, <2>2
  <2>4. f[i] = f[i - 1] + par.catalog_split[i]
    BY <2>1, <2>2 DEF Sums
  <2> QED
    BY <2>2, <2>3, <2>4
<1> QED
  BY <1>3, <1>4, <1>5

\* What is placed for one content.
GoodPlacement(p, n, weighted, admitted, replicas) ==
  /\ p.repos \subseteq 1 .. n /\ p.count \in Nat /\ p.zero \in BOOLEAN
  /\ IF weighted
     THEN /\ IF p.zero THEN p.repos = {} ELSE Cardinality(p.repos) = 1
          /\ p.count >= 1 /\ (~admitted => p.count = 1)
     ELSE /\ ~p.zero
          /\ replicas > 0 => 0 < Cardinality(p.repos) /\ Cardinality(p.repos) <= replicas
          /\ replicas \in 1 .. n => Cardinality(p.repos) = replicas

\* What is assumed of the parameters, for those of this simulation.
LEMMA ParameterFacts ==
  ASSUME par \in Parameters
  PROVE  /\ par.weighted \in BOOLEAN /\ par.replication_admitted \in BOOLEAN
         /\ par.num_repos \in Nat /\ par.num_repos > 0 /\ par.replicas \in Int
         /\ par.node_repos \in Seq(Nat) /\ par.catalog_split \in [1 .. par.num_repos -> Nat]
         /\ par.weighted => \E i \in 1 .. par.num_repos : par.catalog_split[i] > 0
         /\ par.multipath \in BOOLEAN /\ Grid \in Nat /\ Grid > 0 /\ ShortBits \in Nat
  BY DistributionAssumption, StrategyAssumption

\* Products of natural numbers.
LEMMA TimesGrows ==
  ASSUME NEW a \in Nat, NEW b \in Nat, NEW c \in Nat, a <= b
  PROVE  a * c \in Nat /\ a * c <= c * b /\ (a > 0 /\ c > 0 => a * c > 0) /\ 0 * c = 0
  OBVIOUS

\* A draw that is not zero forces the content into one repository.
LEMMA ForcedIsOne ==
  ASSUME par \in Parameters, par.weighted, NEW draw \in 1 .. Grid - 1
  PROVE  \E i \in 1 .. par.num_repos : Forced(draw) = {i}
<1>1. PICK n : n = par.num_repos
  OBVIOUS
<1>2. /\ n \in Nat /\ n > 0 /\ par.catalog_split \in [1 .. n -> Nat] /\ Grid \in Nat /\ Grid > 0
      /\ \E i \in 1 .. n : par.catalog_split[i] > 0
  BY <1>1, ParameterFacts
<1>3. PICK S : S = [i \in 0 .. n |-> SplitUpTo(i)]
  OBVIOUS
<1>4. /\ S \in [0 .. n -> Nat] /\ S[0] = 0
      /\ \A i \in 1 .. n : S[i] = S[i - 1] + par.catalog_split[i]
  <2>1. /\ SplitUpTo(0) = 0 /\ \A i \in 0 .. n : SplitUpTo(i) \in Nat
        /\ \A i \in 1 .. n : SplitUpTo(i) = SplitUpTo(i - 1) + par.catalog_split[i]
    BY <1>2, SplitSums
  <2>2. 0 \in 0 .. n /\ \A i \in 1 .. n : i \in 0 .. n /\ i - 1 \in 0 .. n
    BY <1>2
  <2> QED
    BY <1>3, <2>1, <2>2
<1>5. S[n] > 0
  <2>1. PICK j \in 1 .. n : par.catalog_split[j] > 0
    BY <1>2
  <2> DEFINE G == {i \in 0 .. n : j <= i => S[i] > 0}
  <2>2. 0 \in G
    BY <1>2
  <2>3. ASSUME NEW i \in 1 .. n, i - 1 \in G PROVE i \in G
    <3>0. i \in 0 .. n /\ i - 1 \in 0 .. n
      BY <1>2
    <3>1. /\ S[i] = S[i - 1] + par.catalog_split[i] /\ i \in 0 .. n /\ i - 1 \in 0 .. n
          /\ par.catalog_split[i] \in Nat /\ S[i - 1] \in Nat
      BY <1>2, <1>4, <3>0
    <3>2. CASE i = j
      BY <2>1, <3>1, <3>2
    <3>3. CASE i # j
      BY <2>3, <3>1, <3>3
    <3> QED
      BY <3>2, <3>3
  <2> HIDE DEF G
  <2>4. \A i \in 0 .. n : i \in G
    BY <1>2, <2>2, <2>3, Steps
  <2>5. n \in 0 .. n
    BY <1>2
  <2> QED
    BY <2>1, <2>4, <2>5 DEF G
<1>6. PICK X, Y : X = draw * S[n] /\ Y = [i \in 0 .. n |-> S[i] * Grid]
  OBVIOUS
<1>7. n \in 0 .. n /\ 0 \in 0 .. n /\ S[n] \in Nat
  BY <1>2, <1>4
<1>8. X \in Nat /\ Y \in [0 .. n -> Nat] /\ Y[0] = 0 /\ X > 0 /\ X <= Y[n]
  <2>1. X \in Nat
    <3>1. draw \in Nat
      BY <1>2
    <3>2. PICK a, b : a = draw /\ b = S[n]
      OBVIOUS
    <3> QED
      BY <1>6, <1>7, <3>1, <3>2, TimesGrows
  <2>2. \A i \in 0 .. n : S[i] * Grid \in Nat
    <3> SUFFICES ASSUME NEW i \in 0 .. n PROVE S[i] * Grid \in Nat
      OBVIOUS
    <3>1. S[i] \in Nat /\ Grid \in Nat
      BY <1>2, <1>4
    <3>2. PICK a, b : a = S[i] /\ b = Grid
      OBVIOUS
    <3> QED
      BY <3>1, <3>2, TimesGrows
  <2>3. Y[0] = 0
    <3>1. Grid \in Nat /\ 0 * Grid = 0
      BY <1>2
    <3>2. S[0] = 0 /\ Y[0] = S[0] * Grid
      BY <1>4, <1>6, <1>7
    <3> QED
      BY <3>1, <3>2
  <2>4. draw \in Nat /\ draw <= Grid /\ draw > 0
    BY <1>2
  <2>5. draw * S[n] <= S[n] * Grid /\ draw * S[n] > 0
    BY <1>2, <1>5, <1>7, <2>4, TimesGrows
  <2> QED
    BY <1>6, <1>7, <2>1, <2>2, <2>3, <2>5
<1> DEFINE T == {i \in 1 .. n : X <= Y[i]}
<1>9. PICK i \in T : \A m \in T : i <= m
  <2>1. T \subseteq Nat /\ n \in T
    BY <1>2, <1>8
  <2> HIDE DEF T
  <2> QED
    BY <2>1, LeastNat
<1>10. i \in 1 .. n /\ i \in 0 .. n /\ i - 1 \in 0 .. n /\ X <= Y[i] /\ X > Y[i - 1]
  <2>1. i \in 1 .. n /\ i \in 0 .. n /\ i - 1 \in 0 .. n /\ X <= Y[i] /\ Y[i - 1] \in Nat
    BY <1>2, <1>8, <1>9
  <2>2. CASE i = 1
    BY <1>8, <2>1, <2>2
  <2>3. CASE i # 1
    <3>1. i - 1 \in 1 .. n /\ ~(i <= i - 1)
      BY <2>1, <2>3
    <3>2. ~(X <= Y[i - 1])
      BY <1>9, <3>1
    <3> QED
      BY <1>8, <2>1, <3>2
  <2> QED
    BY <2>2, <2>3
<1> DEFINE P(k) == /\ draw * SplitUpTo(n) <= SplitUpTo(k) * Grid
                   /\ draw * SplitUpTo(n) > SplitUpTo(k - 1) * Grid
<1>11. P(i)
  BY <1>3, <1>6, <1>7, <1>10
<1>12. PICK z : z = CHOOSE k \in 1 .. n : P(k)
  OBVIOUS
<1>13. z \in 1 .. n
  <2> HIDE DEF P
  <2> QED
    BY <1>10, <1>11, <1>12
<1>14. Forced(draw) = {z}
  <2>1. draw # 0
    BY <1>2
  <2> QED
    BY <1>1, <1>12, <2>1 DEF Forced
<1> QED
  BY <1>1, <1>13, <1>14

\* A string of binary_strings has as many ones as it should.
LEMMA OnesAreGood ==
  ASSUME NEW n \in Nat, NEW r \in Int, NEW s \in BinaryStrings(r, n), ShortBits \in Nat
  PROVE  s \subseteq 1 .. n /\ Cardinality(s) = r
<1>1. PICK t \in SUBSET (1 .. n) : s = t \cap 1 .. ShortBits /\ Cardinality(t \cap 1 .. ShortBits) = r
  BY DEF BinaryStrings
<1> QED
  BY <1>1

\* Every placement is good.
LEMMA PlacementsAreGood ==
  ASSUME par \in Parameters, par.weighted => par.num_repos > 1, NEW p \in Placements
  PROVE  GoodPlacement(p, par.num_repos, par.weighted, par.replication_admitted, par.replicas)
<1>1. /\ par.weighted \in BOOLEAN /\ par.replication_admitted \in BOOLEAN
      /\ par.num_repos \in Nat /\ par.num_repos > 0 /\ par.replicas \in Int
      /\ Grid \in Nat /\ Grid > 0 /\ ShortBits \in Nat
  BY ParameterFacts
<1>2. PICK n : n = par.num_repos /\ n \in Nat /\ n > 0
  BY <1>1
<1>3. \A i : Cardinality({i}) = 1
  BY FS_Singleton
<1>4. CASE par.weighted
  <2>1. p \in WeightedPlacements
    BY <1>4 DEF Placements
  <2>2. CASE p \in {Placement(Kept(w), Cardinality(w), FALSE) : w \in Winners \ {{}}}
    <3>1. PICK w \in Winners \ {{}} : p = Placement(Kept(w), Cardinality(w), FALSE)
      BY <2>2
    <3>2. par.replication_admitted
      BY <1>1, <3>1 DEF Winners
    <3>3. w \subseteq 1 .. n /\ w # {}
      BY <1>2, <3>1, <3>2 DEF Winners
    <3>4. w \subseteq Nat
      BY <3>3
    <3>5. Min(w) \in w
      BY <3>3, <3>4, MinIsMember
    <3>6. Cardinality(w) \in Nat /\ Cardinality(w) >= 1
      <4>1. IsFiniteSet(1 .. n)
        BY <1>2, FS_Interval
      <4>2. IsFiniteSet(w)
        BY <3>3, <4>1, FS_Subset
      <4>3. Cardinality(w) \in Nat
        BY <4>2, FS_CardinalityType
      <4>4. Cardinality(w) # 0
        BY <3>3, <4>2, FS_EmptySet
      <4> QED
        BY <4>3, <4>4
    <3>7. /\ p.repos = {Min(w)} /\ p.count = Cardinality(w) /\ p.zero = FALSE
      BY <3>1 DEF Placement, Kept
    <3> QED
      BY <1>2, <1>3, <1>4, <3>2, <3>3, <3>5, <3>6, <3>7 DEF GoodPlacement
  <2>3. CASE p \in {Placement(Forced(draw), 1, draw = 0) :
                      draw \in IF {} \in Winners THEN 0 .. Grid - 1 ELSE {}}
    <3>1. PICK draw \in 0 .. Grid - 1 : p = Placement(Forced(draw), 1, draw = 0)
      BY <2>3
    <3>2. p.repos = Forced(draw) /\ p.count = 1 /\ p.zero = (draw = 0)
      BY <3>1 DEF Placement
    <3>3. CASE draw = 0
      <4>1. p.repos = {} /\ p.zero = TRUE
        BY <3>2, <3>3 DEF Forced
      <4> QED
        BY <1>4, <3>2, <4>1 DEF GoodPlacement
    <3>4. CASE draw # 0
      <4>1. draw \in 1 .. Grid - 1
        BY <1>1, <3>4
      <4>2. PICK i \in 1 .. n : p.repos = {i}
        BY <1>2, <1>4, <3>2, <4>1, ForcedIsOne
      <4>3. p.zero = FALSE
        BY <3>2, <3>4
      <4>4. p.repos \subseteq 1 .. par.num_repos /\ Cardinality(p.repos) = 1
        BY <1>2, <1>3, <4>2
      <4>5. p.count \in Nat /\ p.count >= 1
        BY <3>2
      <4> QED
        BY <1>4, <3>2, <4>3, <4>4, <4>5 DEF GoodPlacement
    <3> QED
      BY <3>3, <3>4
  <2> QED
    BY <2>1, <2>2, <2>3 DEF WeightedPlacements
<1>5. CASE ~par.weighted
  <2>1. p \in PlainPlacements
    BY <1>5 DEF Placements
  <2>2. CASE n = 1
    <3>1. p = Placement({1}, 0, FALSE)
      BY <1>2, <2>1, <2>2 DEF PlainPlacements
    <3>2. p.repos = {1} /\ p.count = 0 /\ p.zero = FALSE
      BY <3>1 DEF Placement
    <3>3. Cardinality(p.repos) = 1 /\ p.repos \subseteq 1 .. par.num_repos
      BY <1>2, <1>3, <3>2
    <3>4. par.replicas > 0 => 0 < Cardinality(p.repos) /\ Cardinality(p.repos) <= par.replicas
      BY <1>1, <3>3
    <3>5. par.replicas \in 1 .. par.num_repos => Cardinality(p.repos) = par.replicas
      BY <1>1, <1>2, <2>2, <3>3
    <3>7. p.count \in Nat
      BY <3>2
    <3>8. p.zero \in BOOLEAN /\ ~p.zero
      BY <3>2, Zenon
    <3> QED
      BY <1>5, <3>7, <3>3, <3>4, <3>5, <3>8, Zenon DEF GoodPlacement
  <2>3. CASE n # 1
    <3>1. PICK s \in BinaryStrings(par.replicas, n) : p = Placement(s, 0, FALSE)
      BY <1>2, <2>1, <2>3 DEF PlainPlacements
    <3>2. p.repos = s /\ p.count = 0 /\ p.zero = FALSE
      BY <3>1 DEF Placement
    <3>3. s \subseteq 1 .. n /\ Cardinality(s) = par.replicas
      BY <1>1, <1>2, <3>1, OnesAreGood
    <3>4. p.repos \subseteq 1 .. par.num_repos
      BY <1>2, <3>2, <3>3
    <3>5. par.replicas > 0 => 0 < Cardinality(p.repos) /\ Cardinality(p.repos) <= par.replicas
      BY <1>1, <3>2, <3>3
    <3>6. par.replicas \in 1 .. par.num_repos => Cardinality(p.repos) = par.replicas
      BY <3>2, <3>3
    <3>7. p.count \in Nat
      BY <3>2
    <3>8. p.zero \in BOOLEAN /\ ~p.zero
      BY <3>2, Zenon
    <3> QED
      BY <1>5, <3>7, <3>4, <3>5, <3>6, <3>8, Zenon DEF GoodPlacement
  <2> QED
    BY <2>2, <2>3
<1> QED
  BY <1>1, <1>4, <1>5

-----------------------------------------------------------------------------
(***************************************************************************)
(* The inductive invariant.                                                *)
(***************************************************************************)

\* The variables have their types.
StrategyTypes ==
  /\ par \in Parameters /\ links \in Topologies /\ initialized \in 0 .. N
  /\ FIB \in [Node -> [Node -> Seq(Entries)]]
  /\ disabled \subseteq links /\ failRec \in [Node -> Node]
  /\ failure \subseteq Node /\ new_routes \subseteq Node /\ new_model \subseteq Node

\* A node that will make a link fail has been initialised, and has this link.
FailuresAreLinks == \A v \in failure : v < initialized /\ <<v, failRec[v]>> \in links

\* The nodes that have been initialised have their tables, unless the program has ended:
\* those of the whole network, since the code does not look at disabled channels.
TablesAreRight ==
  ~error => \A v \in Node : v < initialized => RowIsRight(FIB[v], links, par.multipath, v)

\* The repositories of the contents are nodes.
TargetsAreNodes == \A d \in Content : \A i \in repo[d] : repositories[i] \in Node

StrategyInv == StrategyTypes /\ FailuresAreLinks /\ TablesAreRight /\ TargetsAreNodes

\* The links of the network lead from node to node, and in both directions.
LEMMA LinkFacts ==
  ASSUME links \in Topologies
  PROVE  links \subseteq Node \X Node /\ Symmetric(links)
<1>1. links \subseteq Node \X Node /\ \A e \in links : <<e[2], e[1]>> \in links
  BY StrategyAssumption
<1>2. ASSUME NEW u \in Node, NEW v \in Node, <<u, v>> \in links PROVE <<v, u>> \in links
  <2>1. PICK e : e = <<u, v>>
    OBVIOUS
  <2>2. e \in links /\ e[1] = u /\ e[2] = v
    BY <1>2, <2>1
  <2> QED
    BY <1>1, <2>2
<1> QED
  BY <1>1, <1>2 DEF Symmetric

\* The invariant holds at the start.
LEMMA StrategyInit == Init => StrategyInv
<1> SUFFICES ASSUME Init PROVE StrategyInv
  OBVIOUS
<1>1. par \in Parameters /\ \A d \in Content : repo[d] = {}
  BY DEF Init, DistributionInit
<1>2. N \in Nat /\ Node = 0 .. N - 1
  BY SizeIsNat
<1>3. NoRoutes \in [Node -> Seq(Entries)]
  BY DEF NoRoutes
<1>4. FIB \in [Node -> [Node -> Seq(Entries)]] /\ failRec \in [Node -> Node]
  BY <1>3 DEF Init
<1>5. StrategyTypes
  BY <1>1, <1>2, <1>4 DEF Init, StrategyTypes
<1>6. FailuresAreLinks
  BY DEF Init, FailuresAreLinks
<1>7. TablesAreRight
  <2>1. \A v \in Node : ~(v < initialized)
    BY <1>2 DEF Init
  <2> QED
    BY <2>1 DEF TablesAreRight
<1>8. TargetsAreNodes
  BY <1>1 DEF TargetsAreNodes
<1> QED
  BY <1>5, <1>6, <1>7, <1>8 DEF StrategyInv

\* The repositories are placed on nodes, and the contents in repositories.
LEMMA DistributeStep ==
  ASSUME StrategyInv, Distribute, UNCHANGED routeVars
  PROVE  StrategyInv'
<1>1. par \in Parameters /\ par' = par /\ error' = error
  BY DEF StrategyInv, StrategyTypes, Distribute
<1>2. UNCHANGED <<links, initialized, FIB, disabled, failRec, failure, new_routes, new_model>>
  BY DEF routeVars, eventVars
<1>3. repositories' \in [1 .. par.num_repos -> Node]
  BY DEF Distribute, Extensions
<1>4. par.weighted => par.num_repos > 1
  <2>1. par.weighted => par.num_repos = 3
    BY DEF Distribute, Refused
  <2> QED
    BY <2>1
<1>5. ASSUME NEW d \in Content, NEW i \in repo'[d] PROVE repositories'[i] \in Node
  <2>1. PICK f \in [Content -> Placements] : repo' = [c \in Content |-> f[c].repos]
    BY DEF Distribute
  <2>2. PICK p : p = f[d]
    OBVIOUS
  <2>3. p \in Placements /\ repo'[d] = p.repos
    BY <2>1, <2>2
  <2>4. GoodPlacement(p, par.num_repos, par.weighted, par.replication_admitted, par.replicas)
    BY <1>1, <1>4, <2>3, PlacementsAreGood
  <2>5. i \in 1 .. par.num_repos
    BY <1>5, <2>3, <2>4 DEF GoodPlacement
  <2> QED
    BY <1>3, <2>5
<1>6. StrategyTypes' /\ FailuresAreLinks' /\ TablesAreRight'
  BY <1>1, <1>2 DEF StrategyInv, StrategyTypes, FailuresAreLinks, TablesAreRight
<1> QED
  BY <1>5, <1>6 DEF StrategyInv, TargetsAreNodes

\* A table is computed, first or again.
LEMMA Populates ==
  ASSUME StrategyInv, NEW v \in Node, PopulateRoutingTable(v)
  PROVE  /\ FIB' \in [Node -> [Node -> Seq(Entries)]]
         /\ ~error' => /\ ~error /\ RowIsRight(FIB'[v], links, par.multipath, v)
                       /\ \A w \in Node : w # v => FIB'[w] = FIB[w]
<1>1. PICK net, t : net = links /\ t = AddRoutes(net, v)
  OBVIOUS
<1>2. /\ net \subseteq Node \X Node /\ par.multipath \in BOOLEAN
      /\ FIB \in [Node -> [Node -> Seq(Entries)]]
  BY <1>1, LinkFacts, ParameterFacts DEF StrategyInv, StrategyTypes
<1>3. t.routes \in [Node -> Seq(Entries)] /\ (~t.failed => RowIsRight(t.routes, net, par.multipath, v))
  BY <1>1, <1>2, TableIsPopulated
<1>4. \/ t.failed /\ error' = TRUE /\ FIB' = FIB
      \/ ~t.failed /\ FIB' = [FIB EXCEPT ![v] = t.routes] /\ error' = error
  BY <1>1 DEF PopulateRoutingTable, Extract
<1>5. CASE t.failed /\ error' = TRUE /\ FIB' = FIB
  BY <1>2, <1>5
<1>6. CASE ~t.failed /\ FIB' = [FIB EXCEPT ![v] = t.routes] /\ error' = error
  <2>1. /\ FIB' \in [Node -> [Node -> Seq(Entries)]] /\ FIB'[v] = t.routes
        /\ \A w \in Node : w # v => FIB'[w] = FIB[w]
    BY <1>2, <1>3, <1>6
  <2> QED
    BY <1>1, <1>3, <1>6, <2>1
<1> QED
  BY <1>4, <1>5, <1>6

\* A node is initialised: it gets its table, and perhaps a link that will fail.
LEMMA InitializeStep ==
  ASSUME StrategyInv, NEW v \in Node, Initialize(v)
  PROVE  StrategyInv'
<1>1. N \in Nat /\ Node = 0 .. N - 1
  BY SizeIsNat
<1>2. /\ ~error /\ initialized = v /\ initialized' = v + 1
      /\ UNCHANGED <<par, repositories, repo, links, disabled>>
  BY DEF Initialize, distributionVars
<1>3. /\ par \in Parameters /\ links \in Topologies /\ FIB \in [Node -> [Node -> Seq(Entries)]]
      /\ disabled \subseteq links /\ failRec \in [Node -> Node]
      /\ failure \subseteq Node /\ new_routes \subseteq Node /\ new_model \subseteq Node
      /\ \A w \in failure : w < v /\ <<w, failRec[w]>> \in links
      /\ \A w \in Node : w < v => RowIsRight(FIB[w], links, par.multipath, w)
      /\ TargetsAreNodes
  BY <1>2 DEF StrategyInv, StrategyTypes, FailuresAreLinks, TablesAreRight
<1>4. v \in Nat /\ v + 1 \in 0 .. N
  BY <1>1
<1>5. TargetsAreNodes'
  BY <1>2, <1>3 DEF TargetsAreNodes
<1>6. CASE error' = TRUE /\ UNCHANGED <<FIB, failRec, eventVars>>
  <2>1. UNCHANGED <<FIB, failRec, failure, new_routes, new_model>>
    BY <1>6 DEF eventVars
  <2>2. StrategyTypes'
    BY <1>2, <1>3, <1>4, <2>1 DEF StrategyTypes
  <2>3. FailuresAreLinks'
    <3>1. \A w \in Node : w < v => w < v + 1
      BY <1>1
    <3>2. \A w \in failure : w \in Node /\ w < v
      BY <1>3
    <3> QED
      BY <1>2, <1>3, <2>1, <3>1, <3>2 DEF FailuresAreLinks
  <2>4. TablesAreRight'
    BY <1>6 DEF TablesAreRight
  <2> QED
    BY <1>5, <2>2, <2>3, <2>4 DEF StrategyInv
<1>7. CASE /\ PopulateRoutingTable(v)
           /\ failRec' = [failRec EXCEPT ![v] = IF Failing(v) = {} THEN v ELSE Min(Failing(v))]
           /\ failure' = IF Failing(v) = {} THEN failure ELSE failure \cup {v}
           /\ new_routes' = IF par.fail_scenario THEN new_routes \cup {v} ELSE new_routes
           /\ UNCHANGED new_model
  <2>1. /\ FIB' \in [Node -> [Node -> Seq(Entries)]]
        /\ ~error' => /\ ~error /\ RowIsRight(FIB'[v], links, par.multipath, v)
                      /\ \A w \in Node : w # v => FIB'[w] = FIB[w]
    BY <1>7, Populates
  <2>2. PICK W : W = Failing(v)
    OBVIOUS
  <2>3. links \subseteq Node \X Node
    BY <1>3, LinkFacts
  <2>4. \A w \in W : <<v, w>> \in links /\ w \in Node
    <3>1. \A w \in W : <<v, w>> \in links
      BY <2>2 DEF Failing
    <3> QED
      BY <2>3, <3>1
  <2>5. W # {} => Min(W) \in Node /\ <<v, Min(W)>> \in links
    <3>1. W \subseteq Nat
      <4>1. Node \subseteq Nat
        BY <1>1
      <4> QED
        BY <2>4, <4>1
    <3>2. W # {} => Min(W) \in W
      BY <3>1, MinIsMember
    <3> QED
      BY <2>4, <3>2
  <2>6. /\ failRec' \in [Node -> Node] /\ failRec'[v] = (IF W = {} THEN v ELSE Min(W))
        /\ \A w \in Node : w # v => failRec'[w] = failRec[w]
    BY <1>3, <1>7, <2>2, <2>5
  <2>7. failure' \subseteq Node /\ \A w \in failure' : w \in failure \/ (w = v /\ W # {})
    BY <1>3, <1>7, <2>2
  <2>8. new_routes' \subseteq Node /\ new_model' \subseteq Node
    BY <1>3, <1>7
  <2>9. StrategyTypes'
    BY <1>2, <1>3, <1>4, <2>1, <2>6, <2>7, <2>8 DEF StrategyTypes
  <2>10. FailuresAreLinks'
    <3> SUFFICES ASSUME NEW w \in failure'
                 PROVE  w < v + 1 /\ <<w, failRec'[w]>> \in links
      BY <1>2 DEF FailuresAreLinks
    <3>1. CASE w \in failure
      <4>1. w \in Node /\ w < v /\ <<w, failRec[w]>> \in links
        BY <1>3, <3>1
      <4>2. w # v /\ w < v + 1
        BY <1>1, <4>1
      <4> QED
        BY <2>6, <4>1, <4>2
    <3>2. CASE w = v /\ W # {}
      BY <1>4, <2>5, <2>6, <3>2
    <3> QED
      BY <2>7, <3>1, <3>2
  <2>11. TablesAreRight'
    <3> SUFFICES ASSUME ~error', NEW w \in Node, w < v + 1
                 PROVE  RowIsRight(FIB'[w], links, par.multipath, w)
      BY <1>2 DEF TablesAreRight
    <3>1. CASE w = v
      BY <2>1, <3>1
    <3>2. CASE w # v
      <4>1. w < v
        BY <1>1, <3>2
      <4> QED
        BY <1>3, <2>1, <3>2, <4>1
    <3> QED
      BY <3>1, <3>2
  <2> QED
    BY <1>5, <2>9, <2>10, <2>11 DEF StrategyInv
<1> QED
  BY <1>6, <1>7 DEF Initialize

\* A link fails. The tables stay as they are.
LEMMA FailureStep ==
  ASSUME StrategyInv, NEW v \in Node, Failure(v)
  PROVE  StrategyInv'
<1>1. /\ v \in failure /\ failure' = failure \ {v}
      /\ disabled' = disabled \cup {<<v, failRec[v]>>, <<failRec[v], v>>}
      /\ UNCHANGED <<par, repositories, repo, error, links, initialized, FIB, failRec,
                     new_routes, new_model>>
  BY DEF Failure, distributionVars
<1>2. disabled' \subseteq links
  <2>1. <<v, failRec[v]>> \in links /\ failRec[v] \in Node /\ Symmetric(links) /\ disabled \subseteq links
    BY <1>1, LinkFacts DEF StrategyInv, StrategyTypes, FailuresAreLinks
  <2>2. <<failRec[v], v>> \in links
    BY <2>1 DEF Symmetric
  <2> QED
    BY <1>1, <2>1, <2>2
<1>3. StrategyTypes' /\ FailuresAreLinks'
  BY <1>1, <1>2 DEF StrategyInv, StrategyTypes, FailuresAreLinks
<1>4. TablesAreRight' /\ TargetsAreNodes'
  BY <1>1 DEF StrategyInv, TablesAreRight, TargetsAreNodes
<1> QED
  BY <1>3, <1>4 DEF StrategyInv

\* A node computes its table again, of the same links as before.
LEMMA NewRoutesStep ==
  ASSUME StrategyInv, NEW v \in Node, NewRoutes(v)
  PROVE  StrategyInv'
<1>1. /\ PopulateRoutingTable(v) /\ new_routes' = new_routes \ {v} /\ new_model' = new_model \cup {v}
      /\ UNCHANGED <<par, repositories, repo, links, initialized, disabled, failRec, failure>>
  BY DEF NewRoutes, distributionVars
<1>2. /\ FIB' \in [Node -> [Node -> Seq(Entries)]]
      /\ ~error' => /\ ~error /\ RowIsRight(FIB'[v], links, par.multipath, v)
                    /\ \A w \in Node : w # v => FIB'[w] = FIB[w]
  BY <1>1, Populates
<1>3. StrategyTypes'
  BY <1>1, <1>2 DEF StrategyInv, StrategyTypes
<1>4. FailuresAreLinks' /\ TargetsAreNodes'
  BY <1>1 DEF StrategyInv, FailuresAreLinks, TargetsAreNodes
<1>5. TablesAreRight'
  <2> SUFFICES ASSUME ~error', NEW w \in Node, w < initialized
               PROVE  RowIsRight(FIB'[w], links, par.multipath, w)
    BY <1>1 DEF TablesAreRight
  <2>1. CASE w = v
    BY <1>2, <2>1
  <2>2. CASE w # v
    BY <1>2, <2>2 DEF StrategyInv, TablesAreRight
  <2> QED
    BY <2>1, <2>2
<1> QED
  BY <1>3, <1>4, <1>5 DEF StrategyInv

\* Every step keeps the invariant.
LEMMA StrategyStep == StrategyInv /\ [Next]_vars => StrategyInv'
<1> SUFFICES ASSUME StrategyInv, [Next]_vars PROVE StrategyInv'
  OBVIOUS
<1>1. CASE Distribute /\ UNCHANGED routeVars
  BY <1>1, DistributeStep
<1>2. CASE DistributeRefused /\ UNCHANGED routeVars
  <2>1. /\ error' = TRUE
        /\ UNCHANGED <<par, repositories, repo, links, initialized, FIB, disabled, failRec,
                       failure, new_routes, new_model>>
    BY <1>2 DEF DistributeRefused, distributionVars, routeVars, eventVars
  <2> QED
    BY <2>1 DEF StrategyInv, StrategyTypes, FailuresAreLinks, TablesAreRight, TargetsAreNodes
<1>3. ASSUME NEW v \in Node, Initialize(v) PROVE StrategyInv'
  BY <1>3, InitializeStep
<1>4. ASSUME NEW v \in Node, Failure(v) PROVE StrategyInv'
  BY <1>4, FailureStep
<1>5. ASSUME NEW v \in Node, NewRoutes(v) PROVE StrategyInv'
  BY <1>5, NewRoutesStep
<1>6. ASSUME NEW v \in Node, NewModel(v) PROVE StrategyInv'
  <2>1. /\ new_model' = new_model \ {v}
        /\ UNCHANGED <<par, repositories, repo, error, links, initialized, FIB, disabled, failRec,
                       failure, new_routes>>
    BY <1>6 DEF NewModel, distributionVars
  <2> QED
    BY <2>1 DEF StrategyInv, StrategyTypes, FailuresAreLinks, TablesAreRight, TargetsAreNodes
<1>7. CASE UNCHANGED vars
  <2>1. UNCHANGED <<par, repositories, repo, error, links, initialized, FIB, disabled, failRec,
                    failure, new_routes, new_model>>
    BY <1>7 DEF vars, distributionVars, routeVars, eventVars
  <2> QED
    BY <2>1 DEF StrategyInv, StrategyTypes, FailuresAreLinks, TablesAreRight, TargetsAreNodes
<1> QED
  BY <1>1, <1>2, <1>3, <1>4, <1>5, <1>6, <1>7 DEF Next, Done

\* What initialize, FAILURE, NEW_ROUTES and NEW_MODEL in strategy_layer.cc keep: the tables are
\* those of the network as it was built, whatever channels are disabled, the links that are
\* to fail are links, and repositories are nodes.  As long as no channel is disabled these
\* are the tables there should be (RoutesTheorem); afterwards they are not (the run
\* startup_failure).
THEOREM StrategyInvariant == Spec => []StrategyInv
<1> QED
  BY StrategyInit, StrategyStep, PTL DEF Spec

-----------------------------------------------------------------------------
(***************************************************************************)
(* The tables lead to the repositories.                                    *)
(***************************************************************************)

\* As long as no channel is disabled the tables of the nodes are the shortest routes: all of
\* them or one, although populate_routing_table searches with the paths that are left from
\* other targets, and whether initialize or NEW_ROUTES computed them.
THEOREM RoutesTheorem == Spec => []RoutesAreShortest
<1>1. StrategyInv => RoutesAreShortest
  <2> SUFFICES ASSUME StrategyInv PROVE RoutesAreShortest
    OBVIOUS
  <2>1. N \in Nat /\ Node = 0 .. N - 1
    BY SizeIsNat
  <2>2. TypeOK
    <3>1. StrategyTypes
      BY DEF StrategyInv
    <3>2. ASSUME NEW v \in Node, NEW t \in Node, NEW i \in 1 .. Len(FIB[v][t])
          PROVE  FIB[v][t][i] \in [id : Node, len : 0 .. Infinity]
      <4>1. PICK hops : hops = FIB[v][t]
        OBVIOUS
      <4>2. hops \in Seq(Entries)
        BY <3>1, <4>1 DEF StrategyTypes
      <4>3. hops[i] \in Entries
        BY <3>2, <4>1, <4>2
      <4> QED
        BY <4>1, <4>3 DEF Entries
    <3> QED
      BY <3>1, <3>2 DEF TypeOK, StrategyTypes, N
  <2>3. ASSUME ~error, disabled = {}, NEW v \in 0 .. initialized - 1, NEW t \in Node \ {v}, Reaches(links, v, t)
        PROVE  RouteIsRight(FIB[v][t], links, par.multipath, v, t)
    <3>1. v \in Node /\ v < initialized
      BY <2>1 DEF StrategyInv, StrategyTypes
    <3>2. RowIsRight(FIB[v], links, par.multipath, v)
      BY <2>3, <3>1 DEF StrategyInv, TablesAreRight
    <3> QED
      BY <2>3, <3>2 DEF RowIsRight
  <2> QED
    BY <2>2, <2>3, Zenon DEF RoutesAreShortest, RouteIsRight
<1> QED
  BY <1>1, StrategyInvariant, PTL

\* All nodes have a table, so that all of them reach node 0, and with links in both directions
\* each other.
LEMMA AllConnected ==
  ASSUME StrategyInv, AllInitialized, ~error
  PROVE  Connected(links)
<1>1. N \in Nat /\ Node = 0 .. N - 1
  BY SizeIsNat
<1>2. links \subseteq Node \X Node /\ Symmetric(links)
  BY LinkFacts DEF StrategyInv, StrategyTypes
<1>3. \A v \in Node : v < initialized
  BY <1>1 DEF AllInitialized, N
<1>4. \A v \in Node : First(v) \in Node => Reaches(links, v, First(v))
  BY <1>3 DEF StrategyInv, TablesAreRight, RowIsRight
<1>5. ASSUME NEW v \in Node PROVE Reaches(links, v, v)
  <2>1. v \in Within(links, v, 0) /\ 0 \in Nat
    BY WithinSteps
  <2> QED
    BY <1>2, <2>1, DistanceFacts
<1>6. \A v \in Node : Reaches(links, v, 0)
  <2> SUFFICES ASSUME NEW v \in Node PROVE Reaches(links, v, 0)
    OBVIOUS
  <2>1. CASE v = 0
    BY <1>5, <2>1
  <2>2. CASE v # 0
    <3>1. First(v) = 0 /\ 0 \in Node
      BY <1>1, <2>2 DEF First
    <3> QED
      BY <1>4, <3>1
  <2> QED
    BY <2>1, <2>2
<1>7. ASSUME NEW v \in Node, NEW w \in Node PROVE Reaches(links, v, w)
  <2>1. PICK z : z = 0 /\ z \in Node
    BY <1>1
  <2>2. Reaches(links, v, z) /\ Reaches(links, w, z)
    BY <1>6, <2>1
  <2> QED
    BY <1>2, <2>1, <2>2, ReachesJoins
<1> QED
  BY <1>7 DEF Connected

\* A simulation whose nodes have all been initialised has a network in which every node
\* reaches every other one.
THEOREM DisconnectionTheorem == Spec => []DisconnectionIsReported
<1>1. StrategyInv => DisconnectionIsReported
  BY AllConnected DEF DisconnectionIsReported
<1> QED
  BY <1>1, StrategyInvariant, PTL

\* A node sends an Interest to a neighbour that is nearer.
LEMMA GatesLeadNearer ==
  ASSUME StrategyInv, AllInitialized, ~error, NEW u \in Node, NEW t \in Node, u # t
  PROVE  DecideOutGate(u, t) # {} /\ DecideOutGate(u, t) \subseteq NearerNodes(links, u, t)
<1>1. PICK W, hops, n : W = NearerNodes(links, u, t) /\ hops = FIB[u][t] /\ n = Len(hops)
  OBVIOUS
<1>2. N \in Nat /\ Node = 0 .. N - 1
  BY SizeIsNat
<1>3. Reaches(links, u, t)
  BY AllConnected DEF Connected
<1>4. /\ links \subseteq Node \X Node /\ hops \in Seq(Entries) /\ links \in Topologies
      /\ par.multipath \in BOOLEAN
  BY <1>1, LinkFacts, ParameterFacts DEF StrategyInv, StrategyTypes
<1>5. RouteIsRight(hops, links, par.multipath, u, t)
  <2>1. u < initialized
    BY <1>2 DEF AllInitialized, N
  <2> QED
    BY <1>1, <1>3, <2>1 DEF StrategyInv, TablesAreRight, RowIsRight
<1>6. n \in Nat /\ \E w : w \in W
  BY <1>1, <1>3, <1>4, NearerExists
<1>7. CASE ~par.multipath \/ n = 1
  <2>1. n = 1 /\ {hops[i].id : i \in 1 .. n} \subseteq W
    BY <1>1, <1>5, <1>7 DEF RouteIsRight
  <2>2. hops[1].id \in W
    BY <2>1
  <2>3. DecideOutGate(u, t) = {hops[1].id}
    BY <1>1, <1>7 DEF DecideOutGate
  <2> QED
    BY <1>1, <2>2, <2>3
<1>8. CASE par.multipath /\ n # 1
  <2>1. {hops[i].id : i \in 1 .. n} = W /\ n = Cardinality(W)
    BY <1>1, <1>5, <1>8 DEF RouteIsRight
  <2>2. n > 1
    <3>1. n # 0
      <4>1. n = 0 => \A i \in 1 .. n : FALSE
        BY <1>6
      <4> QED
        BY <1>6, <2>1, <4>1
    <3> QED
      BY <1>6, <1>8, <3>1
  <2>3. \E w \in W : Split[u][w] > 0
    BY <1>1, <1>4, <2>1, <2>2, StrategyAssumption
  <2>4. DecideOutGate(u, t) = {w \in {hops[i].id : i \in 1 .. n} : Split[u][w] > 0}
    BY <1>1, <1>8 DEF DecideOutGate
  <2> QED
    BY <1>1, <2>1, <2>3, <2>4
<1> QED
  BY <1>4, <1>7, <1>8

\* The way of an Interest.
Moved(t, W) == UNION {IF u = t THEN {t} ELSE DecideOutGate(u, t) : u \in W}
Moves(f, v, t, n) == f = [i \in 0 .. n |-> IF i = 0 THEN {v} ELSE Moved(t, f[i - 1])]

\* After is the last value of its recursive function, which exists.
LEMMA AfterMoves ==
  ASSUME StrategyInv, AllInitialized, ~error, NEW v \in Node, NEW t \in Node, NEW n \in Nat
  PROVE  \E f \in [0 .. n -> SUBSET Node] :
           /\ f[0] = {v} /\ \A i \in 1 .. n : f[i] = Moved(t, f[i - 1])
           /\ After(v, t, n) = f[n]
<1>1. ASSUME NEW W \in SUBSET Node PROVE Moved(t, W) \in SUBSET Node
  <2>1. ASSUME NEW u \in W PROVE (IF u = t THEN {t} ELSE DecideOutGate(u, t)) \subseteq Node
    <3>1. CASE u = t
      BY <3>1
    <3>2. CASE u # t
      BY <3>2, GatesLeadNearer DEF NearerNodes
    <3> QED
      BY <3>1, <3>2
  <2> QED
    BY <2>1 DEF Moved
<1>2. PICK nx : nx = [i \in 1 .. n |-> [W \in SUBSET Node |-> Moved(t, W)]]
  OBVIOUS
<1>3. nx \in [1 .. n -> [SUBSET Node -> SUBSET Node]]
  BY <1>1, <1>2
<1>4. {v} \in SUBSET Node
  OBVIOUS
<1>5. PICK f \in [0 .. n -> SUBSET Node] : Recurs(f, n, {v}, nx)
  BY <1>3, <1>4, RecursionExists
<1>6. ASSUME NEW i \in 0 .. n
      PROVE  (IF i = 0 THEN {v} ELSE nx[i][f[i - 1]]) = IF i = 0 THEN {v} ELSE Moved(t, f[i - 1])
  <2>1. CASE i = 0
    BY <2>1
  <2>2. CASE i # 0
    <3>1. i \in 1 .. n /\ i - 1 \in 0 .. n
      BY <2>2
    <3>2. f[i - 1] \in SUBSET Node
      BY <3>1
    <3>3. nx[i][f[i - 1]] = Moved(t, f[i - 1])
      BY <1>2, <3>1, <3>2
    <3> QED
      BY <2>2, <3>3
  <2> QED
    BY <2>1, <2>2
<1>7. Moves(f, v, t, n)
  BY <1>5, <1>6 DEF Recurs, Moves
<1>8. PICK g : g = CHOOSE h : Moves(h, v, t, n)
  OBVIOUS
<1>9. Moves(g, v, t, n)
  BY <1>7, <1>8, Zenon
<1>10. After(v, t, n) = g[n]
  BY <1>8, Zenon DEF After, Moves, Moved
<1>11. \A i \in 0 .. n : f[i] = IF i = 0 THEN {v} ELSE Moved(t, f[i - 1])
  BY <1>7, Zenon DEF Moves
<1>12. \A i \in 0 .. n : g[i] = IF i = 0 THEN {v} ELSE Moved(t, g[i - 1])
  BY <1>9, Zenon DEF Moves
<1> DEFINE G == {i \in 0 .. n : f[i] = g[i]}
<1>13. 0 \in 0 .. n /\ n \in 0 .. n /\ \A i \in 1 .. n : i \in 0 .. n /\ i # 0
  OBVIOUS
<1>14. 0 \in G
  BY <1>11, <1>12, <1>13
<1>15. ASSUME NEW i \in 1 .. n, i - 1 \in G PROVE i \in G
  BY <1>11, <1>12, <1>13, <1>15
<1> HIDE DEF G
<1>16. n \in G
  BY <1>13, <1>14, <1>15, Steps
<1>17. g[n] = f[n]
  BY <1>16 DEF G
<1>18. f[0] = {v} /\ \A i \in 1 .. n : f[i] = Moved(t, f[i - 1])
  BY <1>11, <1>13
<1> QED
  BY <1>10, <1>17, <1>18

\* After as many hops as the distance an Interest is at its target, wherever the tables
\* let it choose.
LEMMA AllArrive ==
  ASSUME StrategyInv, AllInitialized, ~error, NEW v \in Node, NEW t \in Node
  PROVE  After(v, t, Distance(links, v, t)) = {t}
<1>1. PICK n : n = Distance(links, v, t)
  OBVIOUS
<1>2. N \in Nat /\ links \subseteq Node \X Node
  BY SizeIsNat, LinkFacts DEF StrategyInv, StrategyTypes
<1>3. \A u \in Node : Reaches(links, u, t)
  BY AllConnected DEF Connected
<1>4. ASSUME NEW u \in Node
      PROVE  Distance(links, u, t) \in Nat /\ (Distance(links, u, t) = 0 <=> u = t)
  <2>1. /\ Distance(links, u, t) \in 0 .. N /\ u \in Within(links, t, Distance(links, u, t))
        /\ \A k \in Nat : u \in Within(links, t, k) => Distance(links, u, t) <= k
    BY <1>2, <1>3, DistanceFacts
  <2>2. Within(links, t, 0) = {t}
    BY WithinSteps
  <2>3. PICK k : k = Distance(links, u, t)
    OBVIOUS
  <2>4. k \in Nat /\ u \in Within(links, t, k) /\ (u \in Within(links, t, 0) => k <= 0)
    BY <1>2, <2>1, <2>3
  <2> QED
    BY <2>2, <2>3, <2>4
<1>5. n \in Nat
  BY <1>1, <1>4
<1>6. PICK f \in [0 .. n -> SUBSET Node] :
        /\ f[0] = {v} /\ \A i \in 1 .. n : f[i] = Moved(t, f[i - 1])
        /\ After(v, t, n) = f[n]
  BY <1>5, AfterMoves, ZenonT(60)
<1> DEFINE G == {i \in 0 .. n : f[i] # {} /\ \A u \in f[i] : Distance(links, u, t) = n - i}
<1>7. 0 \in G
  BY <1>1, <1>5, <1>6
<1>8. ASSUME NEW i \in 1 .. n, i - 1 \in G PROVE i \in G
  <2>1. i \in 0 .. n /\ i - 1 \in 0 .. n /\ n - (i - 1) # 0 /\ (n - (i - 1)) - 1 = n - i
    BY <1>5
  <2>2. PICK W : W = f[i - 1] /\ W # {} /\ W \subseteq Node
    BY <1>8, <2>1
  <2>3. ASSUME NEW u \in W
        PROVE  /\ u # t /\ DecideOutGate(u, t) # {}
               /\ \A w \in DecideOutGate(u, t) : Distance(links, w, t) = n - i
    <3>1. Distance(links, u, t) = n - (i - 1) /\ u \in Node
      BY <1>8, <2>2
    <3>2. u # t
      BY <1>4, <2>1, <3>1
    <3>3. DecideOutGate(u, t) # {} /\ DecideOutGate(u, t) \subseteq NearerNodes(links, u, t)
      BY <3>1, <3>2, GatesLeadNearer
    <3>4. \A w \in NearerNodes(links, u, t) : Distance(links, w, t) = Distance(links, u, t) - 1
      BY DEF NearerNodes
    <3> QED
      BY <2>1, <3>1, <3>2, <3>3, <3>4
  <2>4. f[i] = Moved(t, W)
    BY <1>6, <2>2
  <2>5. \A w : w \in Moved(t, W) <=> \E u \in W : w \in DecideOutGate(u, t)
    BY <2>3 DEF Moved
  <2>6. \E w : w \in Moved(t, W)
    BY <2>2, <2>3, <2>5
  <2>7. \A w \in Moved(t, W) : Distance(links, w, t) = n - i
    BY <2>3, <2>5
  <2> QED
    BY <2>1, <2>4, <2>6, <2>7
<1> HIDE DEF G
<1>9. n \in 0 .. n
  BY <1>5
<1>10. n \in G
  BY <1>5, <1>7, <1>8, <1>9, Steps
<1>11. f[n] # {} /\ f[n] \subseteq Node /\ \A u \in f[n] : Distance(links, u, t) = 0
  BY <1>5, <1>9, <1>10 DEF G
<1>12. f[n] = {t}
  BY <1>4, <1>11
<1> QED
  BY <1>1, <1>6, <1>12

\* Once the simulation begins and until a channel is disabled, every Interest for a content
\* finds the repository it is meant for, from every node and whichever of the shortest paths
\* the nodes choose.
THEOREM ReachabilityTheorem == Spec => []ContentIsReachable
<1>1. StrategyInv => ContentIsReachable
  <2> SUFFICES ASSUME StrategyInv, AllInitialized, ~error, disabled = {},
                      NEW d \in Content, NEW v \in Node, NEW t \in Targets(d)
               PROVE  After(v, t, Distance(links, v, t)) = {t}
    BY DEF ContentIsReachable
  <2>1. t \in Node
    BY DEF Targets, StrategyInv, TargetsAreNodes
  <2> QED
    BY <2>1, AllArrive
<1> QED
  BY <1>1, StrategyInvariant, PTL

-----------------------------------------------------------------------------
(***************************************************************************)
(* Sums over sets, and the count of replicas.                              *)
(***************************************************************************)

\* The recursive function of MapThenSumSet: it takes an element of each set.
AnElement(s) == CHOOSE x \in s : TRUE
SumsOver(it, S, g) ==
  it = [s \in SUBSET S |-> IF s = {} THEN 0 ELSE g[AnElement(s)] + it[s \ {AnElement(s)}]]

\* A set that is not empty loses its element, and is smaller by one.
LEMMA ElementFacts ==
  ASSUME NEW S, IsFiniteSet(S), NEW s \in SUBSET S, s # {}
  PROVE  /\ AnElement(s) \in s /\ AnElement(s) \in S /\ s \ {AnElement(s)} \in SUBSET S
         /\ Cardinality(s) \in Nat /\ Cardinality(s) > 0
         /\ Cardinality(s \ {AnElement(s)}) = Cardinality(s) - 1
<1>1. AnElement(s) \in s
  BY DEF AnElement
<1>2. IsFiniteSet(s)
  BY FS_Subset
<1>3. Cardinality(s) \in Nat /\ Cardinality(s) # 0
  BY <1>2, FS_CardinalityType, FS_EmptySet
<1>4. Cardinality(s \ {AnElement(s)}) = Cardinality(s) - 1
  BY <1>1, <1>2, FS_RemoveElement
<1> QED
  BY <1>1, <1>3, <1>4

\* It exists: after k rounds it is right for the sets of no more than k elements.
LEMMA SumExists ==
  ASSUME NEW S, IsFiniteSet(S), NEW g \in [S -> Nat]
  PROVE  \E it : SumsOver(it, S, g)
<1>1. PICK n : n = Cardinality(S)
  OBVIOUS
<1>2. n \in Nat /\ n + 1 \in Nat /\ n \in 0 .. n + 1 /\ n + 1 \in 1 .. n + 1
  BY <1>1, FS_CardinalityType
<1>3. PICK F : F = [SUBSET S -> Nat]
  OBVIOUS
<1> DEFINE AddOne(f) == [s \in SUBSET S |->
                        IF s = {} THEN 0 ELSE g[AnElement(s)] + f[s \ {AnElement(s)}]]
<1>4. ASSUME NEW f \in F PROVE AddOne(f) \in F
  <2> SUFFICES ASSUME NEW s \in SUBSET S, s # {} PROVE g[AnElement(s)] + f[s \ {AnElement(s)}] \in Nat
    BY <1>3
  <2>1. AnElement(s) \in S /\ s \ {AnElement(s)} \in SUBSET S
    BY ElementFacts
  <2>2. g[AnElement(s)] \in Nat /\ f[s \ {AnElement(s)}] \in Nat
    BY <1>3, <2>1
  <2> QED
    BY <2>2
<1> HIDE DEF AddOne
<1>5. PICK b, nx : b = [s \in SUBSET S |-> 0] /\ nx = [k \in 1 .. n + 1 |-> [f \in F |-> AddOne(f)]]
  OBVIOUS
<1>6. b \in F /\ nx \in [1 .. n + 1 -> [F -> F]]
  BY <1>3, <1>4, <1>5
<1>7. PICK h \in [0 .. n + 1 -> F] : Recurs(h, n + 1, b, nx)
  BY <1>2, <1>6, RecursionExists
<1>8. h[0] = b /\ \A k \in 1 .. n + 1 : h[k] = AddOne(h[k - 1]) /\ h[k] \in F
  <2>1. h[0] = b
    BY <1>2, <1>7 DEF Recurs
  <2>2. ASSUME NEW k \in 1 .. n + 1 PROVE h[k] = AddOne(h[k - 1]) /\ h[k] \in F
    <3>1. k \in 0 .. n + 1 /\ k - 1 \in 0 .. n + 1 /\ k # 0
      BY <1>2
    <3>2. h[k] = nx[k][h[k - 1]] /\ h[k - 1] \in F /\ h[k] \in F
      BY <1>7, <3>1 DEF Recurs
    <3> QED
      BY <1>5, <3>2
  <2> QED
    BY <2>1, <2>2
<1> DEFINE G == {k \in 0 .. n : \A s \in SUBSET S : Cardinality(s) <= k => h[k][s] = h[k + 1][s]}
<1>9. 0 \in G
  <2>1. 0 + 1 \in 1 .. n + 1 /\ 0 \in 0 .. n
    BY <1>2
  <2>2. h[0 + 1] = AddOne(h[0])
    BY <1>8, <2>1
  <2>3. ASSUME NEW s \in SUBSET S, Cardinality(s) <= 0 PROVE h[0][s] = h[0 + 1][s]
    <3>1. s = {}
      <4> SUFFICES ASSUME s # {} PROVE FALSE
        OBVIOUS
      <4>1. Cardinality(s) \in Nat /\ Cardinality(s) > 0
        BY ElementFacts
      <4> QED
        BY <2>3, <4>1
    <3> QED
      BY <1>5, <1>8, <2>2, <3>1 DEF AddOne
  <2> QED
    BY <2>1, <2>3
<1>10. ASSUME NEW k \in 1 .. n, k - 1 \in G PROVE k \in G
  <2>1. k \in 0 .. n /\ k \in 1 .. n + 1 /\ k + 1 \in 1 .. n + 1 /\ (k + 1) - 1 = k /\ (k - 1) + 1 = k
    BY <1>2
  <2>2. h[k] = AddOne(h[k - 1]) /\ h[k + 1] = AddOne(h[k])
    BY <1>8, <2>1
  <2>3. ASSUME NEW s \in SUBSET S, Cardinality(s) <= k PROVE h[k][s] = h[k + 1][s]
    <3>1. CASE s = {}
      BY <2>2, <3>1 DEF AddOne
    <3>2. CASE s # {}
      <4>1. PICK x, r : x = AnElement(s) /\ r = s \ {AnElement(s)}
        OBVIOUS
      <4>2. r \in SUBSET S /\ Cardinality(r) <= k - 1
        BY <2>1, <2>3, <3>2, <4>1, ElementFacts
      <4>3. h[k - 1][r] = h[k][r]
        BY <1>10, <2>1, <4>2
      <4>4. h[k][s] = g[x] + h[k - 1][r] /\ h[k + 1][s] = g[x] + h[k][r]
        BY <2>2, <3>2, <4>1 DEF AddOne
      <4> QED
        BY <4>3, <4>4
    <3> QED
      BY <3>1, <3>2
  <2> QED
    BY <2>1, <2>3
<1> HIDE DEF G
<1>11. n \in G
  <2>1. n \in 0 .. n
    BY <1>2
  <2> QED
    BY <1>2, <1>9, <1>10, <2>1, Steps
<1>12. PICK it : it = h[n]
  OBVIOUS
<1>13. ASSUME NEW s \in SUBSET S PROVE it[s] = AddOne(it)[s]
  <2>1. Cardinality(s) <= n
    BY <1>1, FS_Subset
  <2>2. h[n][s] = h[n + 1][s]
    BY <1>11, <2>1 DEF G
  <2>3. h[n + 1] = AddOne(h[n])
    BY <1>2, <1>8
  <2> QED
    BY <1>12, <2>2, <2>3
<1>14. it \in F
  BY <1>2, <1>7, <1>12
<1>15. it = AddOne(it)
  <2>1. it = [s \in SUBSET S |-> it[s]]
    BY <1>3, <1>14
  <2>2. AddOne(it) = [s \in SUBSET S |-> AddOne(it)[s]]
    BY DEF AddOne
  <2> QED
    BY <1>13, <2>1, <2>2
<1> QED
  BY <1>15 DEF SumsOver, AddOne

\* A number once more.
LEMMA OnceMore ==
  ASSUME NEW c \in Nat, NEW k \in Nat
  PROVE  c + c * k = c * (k + 1)
  OBVIOUS

\* A sum of equal numbers is a product, and a sum of positive numbers is no less than
\* how many they are.
LEMMA SumFacts ==
  ASSUME NEW S, IsFiniteSet(S), NEW g, NEW it, SumsOver(it, S, g)
  PROVE  /\ \A c \in Nat : (\A x \in S : g[x] = c) => it[S] = c * Cardinality(S)
         /\ (\A x \in S : g[x] \in Nat /\ g[x] >= 1) => it[S] \in Nat /\ it[S] >= Cardinality(S)
<1>1. /\ it[{}] = 0
      /\ \A s \in SUBSET S : s # {} => it[s] = g[AnElement(s)] + it[s \ {AnElement(s)}]
  BY DEF SumsOver
<1>2. \A s \in SUBSET S : s # {} =>
        /\ AnElement(s) \in S /\ s \ {AnElement(s)} \in SUBSET S
        /\ Cardinality(s) \in Nat /\ Cardinality(s) > 0
        /\ Cardinality(s \ {AnElement(s)}) = Cardinality(s) - 1
  BY ElementFacts
<1>3. Cardinality({}) = 0 /\ Cardinality(S) \in Nat
  BY FS_EmptySet, FS_CardinalityType
<1>4. ASSUME NEW c \in Nat, \A x \in S : g[x] = c PROVE it[S] = c * Cardinality(S)
  <2> DEFINE G == {k \in Nat : \A s \in SUBSET S : Cardinality(s) = k => it[s] = c * k}
  <2>1. 0 \in G
    <3>1. ASSUME NEW s \in SUBSET S, Cardinality(s) = 0 PROVE it[s] = 0
      <4>1. s # {} => Cardinality(s) > 0
        BY <1>2
      <4>2. s = {}
        BY <3>1, <4>1
      <4> QED
        BY <1>1, <4>2
    <3>2. c * 0 = 0
      OBVIOUS
    <3> QED
      BY <3>1, <3>2
  <2>2. ASSUME NEW k \in Nat, k \in G PROVE k + 1 \in G
    <3>1. ASSUME NEW s \in SUBSET S, Cardinality(s) = k + 1 PROVE it[s] = c * (k + 1)
      <4>1. s # {}
        BY <1>3, <3>1
      <4>2. PICK x, r : x = AnElement(s) /\ r = s \ {AnElement(s)}
        OBVIOUS
      <4>3. r \in SUBSET S /\ Cardinality(r) = k /\ x \in S /\ it[s] = g[x] + it[r]
        <5>1. /\ x \in S /\ r \in SUBSET S /\ Cardinality(s) \in Nat
              /\ Cardinality(r) = Cardinality(s) - 1
          BY <1>2, <4>1, <4>2, Zenon
        <5>2. it[s] = g[x] + it[r]
          BY <1>1, <4>1, <4>2, Zenon
        <5>3. Cardinality(r) = k
          BY <3>1, <5>1
        <5> QED
          BY <5>1, <5>2, <5>3
      <4>4. it[r] = c * k
        BY <2>2, <4>3
      <4>5. it[s] = c + c * k
        BY <1>4, <4>3, <4>4, Zenon
      <4>6. c + c * k = c * (k + 1)
        BY OnceMore
      <4> QED
        BY <4>5, <4>6, Zenon
    <3> QED
      BY <3>1
  <2> HIDE DEF G
  <2>3. Cardinality(S) \in G
    BY <1>3, <2>1, <2>2, StepsForEver
  <2> QED
    BY <2>3 DEF G
<1>5. ASSUME \A x \in S : g[x] \in Nat /\ g[x] >= 1
      PROVE  it[S] \in Nat /\ it[S] >= Cardinality(S)
  <2> DEFINE G == {k \in Nat : \A s \in SUBSET S : Cardinality(s) = k => it[s] \in Nat /\ it[s] >= k}
  <2>1. 0 \in G
    <3>1. ASSUME NEW s \in SUBSET S, Cardinality(s) = 0 PROVE it[s] = 0
      <4>1. s # {} => Cardinality(s) > 0
        BY <1>2
      <4>2. s = {}
        BY <3>1, <4>1
      <4> QED
        BY <1>1, <4>2
    <3> QED
      BY <3>1
  <2>2. ASSUME NEW k \in Nat, k \in G PROVE k + 1 \in G
    <3>1. ASSUME NEW s \in SUBSET S, Cardinality(s) = k + 1 PROVE it[s] \in Nat /\ it[s] >= k + 1
      <4>1. s # {}
        BY <1>3, <3>1
      <4>2. PICK x, r : x = AnElement(s) /\ r = s \ {AnElement(s)}
        OBVIOUS
      <4>3. r \in SUBSET S /\ Cardinality(r) = k /\ x \in S /\ it[s] = g[x] + it[r]
        <5>1. /\ x \in S /\ r \in SUBSET S /\ Cardinality(s) \in Nat
              /\ Cardinality(r) = Cardinality(s) - 1
          BY <1>2, <4>1, <4>2, Zenon
        <5>2. it[s] = g[x] + it[r]
          BY <1>1, <4>1, <4>2, Zenon
        <5>3. Cardinality(r) = k
          BY <3>1, <5>1
        <5> QED
          BY <5>1, <5>2, <5>3
      <4>4. it[r] \in Nat /\ it[r] >= k /\ g[x] \in Nat /\ g[x] >= 1
        BY <1>5, <2>2, <4>3
      <4> QED
        BY <4>3, <4>4
    <3> QED
      BY <3>1
  <2> HIDE DEF G
  <2>3. Cardinality(S) \in G
    BY <1>3, <2>1, <2>2, StepsForEver
  <2> QED
    BY <2>3 DEF G
<1> QED
  BY <1>4, <1>5

\* What is placed, with the sums carried out.
PlacedInv ==
  distributed =>
    /\ IsInjective(par.node_repos) => IsInjective(repositories)
    /\ drawn_zero \subseteq Content
    /\ \A d \in Content :
         /\ repo[d] \subseteq 1 .. par.num_repos
         /\ repo[d] = {} <=> d \in drawn_zero
         /\ IF par.weighted THEN d \notin drawn_zero => Cardinality(repo[d]) = 1
            ELSE /\ d \notin drawn_zero /\ Cardinality(repo[d]) <= par.replicas
                 /\ par.replicas <= par.num_repos => Cardinality(repo[d]) = par.replicas
    /\ IF par.weighted
       THEN /\ total_replicas \in Nat /\ total_replicas >= Cardinality(Content)
            /\ ~par.replication_admitted => total_replicas = Cardinality(Content)
       ELSE total_replicas = Cardinality(Content) * par.replicas

\* What the subclass has counted for the contents is at least their number, and their
\* number if it replicates nothing.
LEMMA CountsAreSummed ==
  ASSUME par \in Parameters, par.weighted, par.num_repos > 1, NEW f \in [Content -> Placements]
  PROVE  LET counted == MapThenSumSet(LAMBDA d : f[d].count, Content)
         IN /\ counted \in Nat /\ counted >= Cardinality(Content)
            /\ ~par.replication_admitted => counted = Cardinality(Content)
<1>1. PICK g : g = [d \in Content |-> f[d].count]
  OBVIOUS
<1>2. IsFiniteSet(Content) /\ Cardinality(Content) \in Nat
  BY DistributionAssumption, FS_CardinalityType
<1>3. ASSUME NEW d \in Content
      PROVE  /\ f[d].count \in Nat /\ f[d].count >= 1
             /\ ~par.replication_admitted => f[d].count = 1
  <2>1. PICK p \in Placements : p = f[d]
    OBVIOUS
  <2>2. GoodPlacement(p, par.num_repos, par.weighted, par.replication_admitted, par.replicas)
    BY PlacementsAreGood
  <2> QED
    BY <2>1, <2>2 DEF GoodPlacement
<1>4. g \in [Content -> Nat]
  BY <1>1, <1>3
<1> DEFINE P(it) == it = [s \in SUBSET Content |->
                           IF s = {} THEN 0
                           ELSE f[CHOOSE x \in s : TRUE].count + it[s \ {CHOOSE x \in s : TRUE}]]
<1>5. \A it : SumsOver(it, Content, g) <=> P(it)
  <2> SUFFICES ASSUME NEW it, NEW s \in SUBSET Content, s # {}
               PROVE  g[AnElement(s)] = f[CHOOSE x \in s : TRUE].count
    BY DEF SumsOver, AnElement
  <2>1. AnElement(s) \in Content
    BY <1>2, ElementFacts
  <2> QED
    BY <1>1, <2>1 DEF AnElement
<1> HIDE DEF P
<1>6. PICK it : it = CHOOSE h : P(h)
  OBVIOUS
<1>7. SumsOver(it, Content, g)
  <2>1. PICK h : SumsOver(h, Content, g)
    BY <1>2, <1>4, SumExists
  <2>2. P(h)
    BY <1>5, <2>1
  <2> QED
    BY <1>5, <1>6, <2>2, Zenon
<1>8. MapThenSumSet(LAMBDA d : f[d].count, Content) = it[Content]
  BY <1>6, Zenon DEF MapThenSumSet, MapThenFoldSet, P
<1>9. it[Content] \in Nat /\ it[Content] >= Cardinality(Content)
  BY <1>1, <1>2, <1>3, <1>7, SumFacts
<1>10. ASSUME ~par.replication_admitted PROVE it[Content] = Cardinality(Content)
  <2>1. \A x \in Content : g[x] = 1
    BY <1>1, <1>3, <1>10
  <2>2. it[Content] = 1 * Cardinality(Content)
    BY <1>2, <1>7, <2>1, SumFacts
  <2> QED
    BY <1>2, <2>2
<1> QED
  BY <1>8, <1>9, <1>10

\* At least one replica is asked for, unless the class is the weighted one, which has
\* its own way to say how many there are.
ReplicasArePositive == \A p \in Parameters : p.weighted \/ p.replicas > 0

\* The repositories are on different nodes if the given ones are.
LEMMA ExtensionsDiffer ==
  ASSUME NEW n \in Nat, NEW given \in Seq(Nat), ~Misplaced(given, n), NEW r \in Extensions(given, n),
         IsInjective(given)
  PROVE  IsInjective(r)
<1>1. PICK m : m = Len(given)
  OBVIOUS
<1>2. m \in Nat /\ m <= n /\ DOMAIN given = 1 .. m
  BY <1>1 DEF Misplaced
<1>3. /\ DOMAIN r = 1 .. n /\ \A i \in 1 .. m : r[i] = given[i]
      /\ \A i \in m + 1 .. n : \A j \in 1 .. i - 1 : r[j] # r[i]
  BY <1>1 DEF Extensions
<1>4. \A i, j \in 1 .. m : given[i] = given[j] => i = j
  BY <1>2 DEF IsInjective
<1>5. ASSUME NEW i \in 1 .. n, NEW j \in 1 .. n, j < i PROVE r[j] # r[i]
  <2>1. CASE i <= m
    <3>1. i \in 1 .. m /\ j \in 1 .. m /\ i # j
      BY <1>2, <1>5, <2>1
    <3> QED
      BY <1>3, <1>4, <3>1
  <2>2. CASE i > m
    <3>1. i \in m + 1 .. n /\ j \in 1 .. i - 1
      BY <1>2, <1>5, <2>2
    <3> QED
      BY <1>3, <3>1
  <2> QED
    BY <1>2, <2>1, <2>2
<1>6. ASSUME NEW i \in 1 .. n, NEW j \in 1 .. n, r[i] = r[j] PROVE i = j
  <2>1. ~(i < j) /\ ~(j < i)
    BY <1>5, <1>6
  <2> QED
    BY <2>1
<1> QED
  BY <1>3, <1>6 DEF IsInjective

\* initialize places the contents as it should.
LEMMA DistributePlaces ==
  ASSUME ReplicasArePositive, par \in Parameters, Distribute
  PROVE  PlacedInv'
<1>1. PICK n, given : n = par.num_repos /\ given = par.node_repos
  OBVIOUS
<1>2. /\ n \in Nat /\ n > 0 /\ given \in Seq(Nat) /\ par.weighted \in BOOLEAN
      /\ par.replication_admitted \in BOOLEAN /\ par.replicas \in Int
      /\ (par.weighted \/ par.replicas > 0)
  BY <1>1, ParameterFacts DEF ReplicasArePositive
<1>3. par' = par /\ ~Misplaced(given, n) /\ (par.weighted => n > 1)
  <2>1. par' = par /\ ~Misplaced(given, n) /\ (par.weighted => n = 3)
    BY <1>1 DEF Distribute, Refused
  <2> QED
    BY <2>1
<1>4. PICK f \in [Content -> Placements] :
        /\ repo' = [d \in Content |-> f[d].repos]
        /\ total_replicas' = TotalReplicas(MapThenSumSet(LAMBDA d : f[d].count, Content))
        /\ drawn_zero' = {d \in Content : f[d].zero}
  BY DEF Distribute
<1>5. IsInjective(given) => IsInjective(repositories')
  <2>1. repositories' \in Extensions(given, n)
    BY <1>1 DEF Distribute
  <2> QED
    BY <1>2, <1>3, <2>1, ExtensionsDiffer
<1>6. ASSUME NEW d \in Content
      PROVE  /\ repo'[d] \subseteq 1 .. n
             /\ repo'[d] = {} <=> d \in drawn_zero'
             /\ IF par.weighted THEN d \notin drawn_zero' => Cardinality(repo'[d]) = 1
                ELSE /\ d \notin drawn_zero' /\ Cardinality(repo'[d]) <= par.replicas
                     /\ par.replicas <= n => Cardinality(repo'[d]) = par.replicas
  <2>1. PICK p \in Placements : p = f[d]
    BY <1>6
  <2>2. repo'[d] = p.repos /\ (d \in drawn_zero' <=> p.zero)
    BY <1>4, <2>1
  <2>3. GoodPlacement(p, n, par.weighted, par.replication_admitted, par.replicas)
    BY <1>1, <1>3, PlacementsAreGood
  <2>4. Cardinality({}) = 0
    BY FS_EmptySet
  <2>5. CASE par.weighted
    <3>1. p.repos \subseteq 1 .. n /\ IF p.zero THEN p.repos = {} ELSE Cardinality(p.repos) = 1
      BY <2>3, <2>5 DEF GoodPlacement
    <3>2. ~p.zero => p.repos # {}
      BY <2>4, <3>1
    <3> QED
      BY <2>2, <2>5, <3>1, <3>2
  <2>6. CASE ~par.weighted
    <3>1. /\ p.repos \subseteq 1 .. n /\ ~p.zero
          /\ 0 < Cardinality(p.repos) /\ Cardinality(p.repos) <= par.replicas
          /\ par.replicas \in 1 .. n => Cardinality(p.repos) = par.replicas
      BY <1>2, <2>3, <2>6 DEF GoodPlacement
    <3>2. p.repos # {}
      BY <2>4, <3>1
    <3>3. par.replicas <= n => par.replicas \in 1 .. n
      BY <1>2, <2>6
    <3> QED
      BY <2>2, <2>6, <3>1, <3>2, <3>3
  <2> QED
    BY <2>5, <2>6
<1>7. IF par.weighted
      THEN /\ total_replicas' \in Nat /\ total_replicas' >= Cardinality(Content)
           /\ ~par.replication_admitted => total_replicas' = Cardinality(Content)
      ELSE total_replicas' = Cardinality(Content) * par.replicas
  <2>1. CASE par.weighted
    BY <1>1, <1>3, <1>4, <2>1, CountsAreSummed DEF TotalReplicas
  <2>2. CASE ~par.weighted
    BY <1>4, <2>2 DEF TotalReplicas
  <2> QED
    BY <2>1, <2>2
<1>8. drawn_zero' \subseteq Content
  BY <1>4
<1> QED
  BY <1>1, <1>3, <1>5, <1>6, <1>7, <1>8 DEF PlacedInv

\* The sum that ContentIsPlaced compares the count of replicas with.
LEMMA PlacedIsSummed ==
  ASSUME NEW S, S \subseteq Content, NEW c \in Nat, \A d \in S : Cardinality(repo[d]) = c
  PROVE  /\ MapThenSumSet(LAMBDA d : Cardinality(repo[d]), S) = c * Cardinality(S)
         /\ Cardinality(S) \in Nat /\ Cardinality(Content) \in Nat
         /\ Cardinality(S) <= Cardinality(Content)
<1>1. PICK g : g = [d \in S |-> Cardinality(repo[d])]
  OBVIOUS
<1>2. /\ IsFiniteSet(S) /\ Cardinality(S) \in Nat /\ Cardinality(Content) \in Nat
      /\ Cardinality(S) <= Cardinality(Content)
  BY DistributionAssumption, FS_Subset, FS_CardinalityType
<1>3. g \in [S -> Nat] /\ \A x \in S : g[x] = c
  BY <1>1
<1> DEFINE P(it) == it = [s \in SUBSET S |->
                           IF s = {} THEN 0
                           ELSE Cardinality(repo[CHOOSE x \in s : TRUE])
                                  + it[s \ {CHOOSE x \in s : TRUE}]]
<1>4. \A it : SumsOver(it, S, g) <=> P(it)
  <2> SUFFICES ASSUME NEW it, NEW s \in SUBSET S, s # {}
               PROVE  g[AnElement(s)] = Cardinality(repo[CHOOSE x \in s : TRUE])
    BY DEF SumsOver, AnElement
  <2>1. AnElement(s) \in S
    BY <1>2, ElementFacts
  <2> QED
    BY <1>1, <2>1 DEF AnElement
<1> HIDE DEF P
<1>5. PICK it : it = CHOOSE h : P(h)
  OBVIOUS
<1>6. SumsOver(it, S, g)
  <2>1. PICK h : SumsOver(h, S, g)
    BY <1>2, <1>3, SumExists
  <2>2. P(h)
    BY <1>4, <2>1
  <2> QED
    BY <1>4, <1>5, <2>2, Zenon
<1>7. MapThenSumSet(LAMBDA d : Cardinality(repo[d]), S) = it[S]
  BY <1>5, Zenon DEF MapThenSumSet, MapThenFoldSet, P
<1>8. it[S] = c * Cardinality(S)
  BY <1>2, <1>3, <1>6, SumFacts
<1> QED
  BY <1>2, <1>7, <1>8

\* With the sums carried out.
LEMMA PlacedIsCounted ==
  ASSUME ReplicasArePositive, par \in Parameters, PlacedInv
  PROVE  ContentIsPlaced
<1> SUFFICES ASSUME distributed PROVE ContentIsPlaced
  BY DEF ContentIsPlaced
<1>1. PICK S : S = Content \ drawn_zero
  OBVIOUS
<1>2. /\ par.weighted \in BOOLEAN /\ par.replicas \in Int /\ (par.weighted \/ par.replicas > 0)
      /\ S \subseteq Content
  BY <1>1, ParameterFacts DEF ReplicasArePositive
<1>3. ASSUME NEW d \in Content
      PROVE  /\ repo[d] \subseteq 1 .. par.num_repos
             /\ repo[d] = {} <=> d \in drawn_zero
             /\ Cardinality(repo[d]) <= (IF par.weighted THEN 1 ELSE par.replicas)
  <2>1. d \in drawn_zero => Cardinality(repo[d]) = 0
    BY FS_EmptySet DEF PlacedInv
  <2> QED
    BY <1>2, <2>1 DEF PlacedInv
<1>4. CASE par.weighted
  <2>1. \A d \in S : Cardinality(repo[d]) = 1
    BY <1>1, <1>4 DEF PlacedInv
  <2>2. PICK m : m = MapThenSumSet(LAMBDA d : Cardinality(repo[d]), S)
    OBVIOUS
  <2>3. /\ m = 1 * Cardinality(S) /\ Cardinality(S) \in Nat /\ Cardinality(Content) \in Nat
        /\ Cardinality(S) <= Cardinality(Content)
    BY <1>2, <2>1, <2>2, PlacedIsSummed
  <2>4. /\ total_replicas \in Nat /\ total_replicas >= Cardinality(Content)
        /\ ~par.replication_admitted => total_replicas = Cardinality(Content)
    BY <1>4 DEF PlacedInv
  <2>5. total_replicas >= m
    BY <2>3, <2>4
  <2> QED
    BY <1>1, <1>3, <1>4, <2>2, <2>4, <2>5 DEF ContentIsPlaced, PlacedInv
<1>5. CASE ~par.weighted
  <2>1. S = Content /\ par.replicas \in Nat
    BY <1>1, <1>2, <1>5 DEF PlacedInv
  <2>2. PICK m : m = MapThenSumSet(LAMBDA d : Cardinality(repo[d]), S)
    OBVIOUS
  <2>3. ASSUME par.replicas <= par.num_repos PROVE total_replicas = m
    <3>1. \A d \in S : Cardinality(repo[d]) = par.replicas
      BY <1>5, <2>1, <2>3 DEF PlacedInv
    <3>2. m = par.replicas * Cardinality(S) /\ Cardinality(S) \in Nat
      BY <1>2, <2>1, <2>2, <3>1, PlacedIsSummed
    <3>3. total_replicas = Cardinality(Content) * par.replicas
      BY <1>5 DEF PlacedInv
    <3> QED
      BY <2>1, <3>2, <3>3
  <2> QED
    BY <1>1, <1>3, <1>5, <2>2, <2>3 DEF ContentIsPlaced, PlacedInv
<1> QED
  BY <1>2, <1>4, <1>5

\* The repositories are on different nodes, no content has more of them than it should have
\* and none is without any but after a weighted draw of zero, and finalize_total_replica
\* counts them: whatever choose_repos draws, and in whichever of the two classes.
THEOREM PlacementTheorem ==
  ASSUME ReplicasArePositive
  PROVE  Spec => []ContentIsPlaced
<1>1. Init => PlacedInv
  BY DEF Init, DistributionInit, PlacedInv
<1>2. StrategyInv /\ PlacedInv /\ [Next]_vars => PlacedInv'
  <2> SUFFICES ASSUME StrategyInv, PlacedInv, [Next]_vars PROVE PlacedInv'
    OBVIOUS
  <2>1. CASE Distribute
    <3>1. par \in Parameters
      BY DEF StrategyInv, StrategyTypes
    <3> QED
      BY <2>1, <3>1, DistributePlaces
  <2>2. CASE UNCHANGED distributionVars
    BY <2>2 DEF PlacedInv, distributionVars
  <2>3. Distribute \/ UNCHANGED distributionVars
    BY DEF Next, vars, Done, DistributeRefused, Initialize, Failure, NewRoutes, NewModel
  <2> QED
    BY <2>1, <2>2, <2>3
<1>3. StrategyInv /\ PlacedInv => ContentIsPlaced
  BY PlacedIsCounted DEF StrategyInv, StrategyTypes
<1> QED
  BY <1>1, <1>2, <1>3, StrategyInvariant, PTL DEF Spec

=============================================================================
