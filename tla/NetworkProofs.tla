---------------------------- MODULE NetworkProofs ----------------------------
(***************************************************************************)
(* Proofs about Network, for every network and every place of clients,     *)
(* stores and repositories.                                                *)
(*                                                                         *)
(* That no Interest disappears is proved of the strategies and settings    *)
(* called Prompt below.  Two arguments lead to it.  With SPR a node that   *)
(* waits is heeded by one that is nearer to a repository, and a repository *)
(* does not wait, so that among the waiting nodes the nearest one has a    *)
(* packet on its way.  With NRR there is no such measure, as copies come   *)
(* and go; what does not get lost is a trail of PIT entries that leads     *)
(* from each waiting client to a packet, however often the trail crosses   *)
(* itself.  Both need that no timer has struck, and no timer strikes       *)
(* because nothing disappears: one invariant holds it all.                 *)
(***************************************************************************)
EXTENDS Network, FiniteSetTheorems, SequenceTheorems, NaturalsInduction, WellFoundedInduction, TLAPS

-----------------------------------------------------------------------------
(***************************************************************************)
(* Links, as the sets of the packets on them.                              *)
(***************************************************************************)
Packet == Interest \cup {Data}

Carried(l)   == ToSet(link[l])
Interests(l) == {m \in Carried(l) : m.kind = "CCN_I"}

\* The packets of a link are its first one and the others.
LEMMA HeadAndTail ==
  ASSUME NEW s \in Seq(Packet), s # <<>>
  PROVE  /\ Head(s) \in Packet /\ Tail(s) \in Seq(Packet)
         /\ ToSet(s) = {Head(s)} \cup ToSet(Tail(s))
<1>1. /\ Len(s) \in Nat /\ Len(s) > 0 /\ Head(s) = s[1] /\ DOMAIN s = 1 .. Len(s)
      /\ Tail(s) \in Seq(Packet) /\ DOMAIN Tail(s) = 1 .. Len(s) - 1
      /\ \A i \in 1 .. Len(s) - 1 : Tail(s)[i] = s[i + 1]
  OBVIOUS
<1>2. Head(s) \in Packet
  BY <1>1
<1>3. ASSUME NEW x \in ToSet(s) PROVE x = Head(s) \/ x \in ToSet(Tail(s))
  <2>1. PICK i \in 1 .. Len(s) : x = s[i]
    BY <1>1 DEF ToSet
  <2>2. CASE i = 1
    BY <1>1, <2>1, <2>2
  <2>3. CASE i # 1
    <3>1. i - 1 \in 1 .. Len(s) - 1 /\ Tail(s)[i - 1] = x
      BY <1>1, <2>1, <2>3
    <3> QED
      BY <1>1, <3>1 DEF ToSet
  <2> QED
    BY <2>2, <2>3
<1>4. Head(s) \in ToSet(s)
  BY <1>1 DEF ToSet
<1>5. ASSUME NEW x \in ToSet(Tail(s)) PROVE x \in ToSet(s)
  <2>1. PICK i \in 1 .. Len(s) - 1 : x = Tail(s)[i]
    BY <1>1 DEF ToSet
  <2>2. i + 1 \in 1 .. Len(s) /\ s[i + 1] = x
    BY <1>1, <2>1
  <2> QED
    BY <1>1, <2>2 DEF ToSet
<1> QED
  BY <1>1, <1>2, <1>3, <1>4, <1>5

LEMMA Appended ==
  ASSUME NEW s \in Seq(Packet), NEW p \in Packet
  PROVE  Append(s, p) \in Seq(Packet) /\ ToSet(Append(s, p)) = ToSet(s) \cup {p}
<1> DEFINE t == Append(s, p)
<1>1. /\ t \in Seq(Packet) /\ Len(t) = Len(s) + 1 /\ Len(s) \in Nat
      /\ DOMAIN s = 1 .. Len(s) /\ DOMAIN t = 1 .. Len(s) + 1
      /\ \A i \in 1 .. Len(s) : t[i] = s[i]
      /\ t[Len(s) + 1] = p
  OBVIOUS
<1> HIDE DEF t
<1>2. ToSet(t) = ToSet(s) \cup {p}
  BY <1>1 DEF ToSet
<1> QED
  BY <1>1, <1>2 DEF t

\* The links with one more packet on those of S.
Plus(links, S, p) == [k \in Link |-> IF k \in S THEN Append(links[k], p) ELSE links[k]]

LEMMA PlusCarries ==
  ASSUME NEW links \in [Link -> Seq(Packet)], NEW p \in Packet, NEW S
  PROVE  /\ Plus(links, S, p) \in [Link -> Seq(Packet)]
         /\ \A k \in Link : \A x :
              x \in ToSet(Plus(links, S, p)[k]) <=> x \in ToSet(links[k]) \/ (k \in S /\ x = p)
<1>1. \A k \in Link : Plus(links, S, p)[k] = IF k \in S THEN Append(links[k], p) ELSE links[k]
  BY DEF Plus
<1>2. ASSUME NEW k \in Link
      PROVE  /\ Plus(links, S, p)[k] \in Seq(Packet)
             /\ \A x :
                  x \in ToSet(Plus(links, S, p)[k]) <=> x \in ToSet(links[k]) \/ (k \in S /\ x = p)
  <2>1. links[k] \in Seq(Packet)
    OBVIOUS
  <2>2. CASE k \in S
    BY <1>1, <2>1, <2>2, Appended, ZenonT(30)
  <2>3. CASE k \notin S
    BY <1>1, <2>1, <2>3
  <2> QED
    BY <2>2, <2>3
<1>3. Plus(links, S, p) \in [Link -> Seq(Packet)]
  BY <1>2 DEF Plus
<1> QED
  BY <1>2, <1>3

\* The two kinds of packets.
LEMMA Kinds ==
  /\ \A m \in Packet : (m.kind = "CCN_I" <=> m \in Interest) /\ (m.kind = "CCN_D" <=> m = Data)
  /\ Data.kind = "CCN_D"
<1>1. Data.kind = "CCN_D"
  BY DEF Data
<1>2. \A m \in Interest : m.kind = "CCN_I"
  BY DEF Interest
<1> QED
  BY <1>1, <1>2 DEF Packet

\* Every link has two nodes at its ends, different ones unless a client is there.
LEMMA Ends ==
  /\ \A l \in Link : l = <<l[1], l[2]>> /\ l[1] \in Node /\ l[2] \in Node
  /\ \A n \in Node, d \in Node : n # d => <<n, NextHop[n][d]>> \in Link /\ NextHop[n][d] # n
  /\ \A n \in Clients : <<n, n>> \in Link
  /\ \A l \in Link : l[1] = l[2] => l[1] \in Clients
<1>1. \A n \in Node, d \in Node : NextHop[n][d] \in Node /\ (n # d => NextHop[n][d] # n)
  BY NetworkAssumption
<1>2. Clients \subseteq Node
  BY NetworkAssumption
<1>3. ASSUME NEW n \in Node, NEW d \in Node, n # d PROVE <<n, NextHop[n][d]>> \in Link
  BY <1>3 DEF Link
<1>4. \A n \in Clients : <<n, n>> \in Link
  BY DEF Link
<1>5. ASSUME NEW l \in Link
      PROVE  \/ \E n \in Clients : l = <<n, n>>
             \/ \E n \in Node : \E d \in Node \ {n} : l = <<n, NextHop[n][d]>>
  BY DEF Link
<1> QED
  BY <1>1, <1>2, <1>3, <1>4, <1>5

-----------------------------------------------------------------------------
(***************************************************************************)
(* The types, and what the arrival of a packet does.                       *)
(***************************************************************************)
Typed ==
  /\ repos \subseteq Node /\ CS \subseteq Node /\ expired \subseteq Node
  /\ PIT \in [Node -> SUBSET Node]
  /\ \A n \in Node : \A f \in PIT[n] : <<f, n>> \in Link
  /\ link \in [Link -> Seq(Packet)]
  /\ waiting \subseteq Clients /\ late \subseteq waiting

\* The links from node n to the nodes of F.
Out(n, F) == {k \in Link : k[1] = n /\ k[2] \in F}

\* Packet m leaves link l, and p comes onto the links of S.
Moves(l, m, S, p) ==
  /\ link' \in [Link -> Seq(Packet)]
  /\ m \in Carried(l)
  /\ \A k \in Link :
       /\ \A x \in Carried(k)' : x \in Carried(k) \/ (k \in S /\ x = p)
       /\ \A x \in Carried(k) : x \in Carried(k)' \/ (k = l /\ x = m)
       /\ k \in S => p \in Carried(k)'

Without(l) == [link EXCEPT ![l] = Tail(@)]

LEMMA Moved ==
  ASSUME Typed, NEW l \in Link, link[l] # <<>>, NEW p \in Packet, NEW S,
         link' = Plus(Without(l), S, p)
  PROVE  Moves(l, Head(link[l]), S, p)
<1> DEFINE m == Head(link[l])
<1> PICK links : links = Without(l)
  OBVIOUS
<1>1. link \in [Link -> Seq(Packet)]
  BY DEF Typed
<1>2. /\ m \in Packet /\ Tail(link[l]) \in Seq(Packet)
      /\ ToSet(link[l]) = {m} \cup ToSet(Tail(link[l]))
  BY <1>1, HeadAndTail
<1>3. /\ links \in [Link -> Seq(Packet)]
      /\ links[l] = Tail(link[l])
      /\ \A k \in Link : k # l => links[k] = link[k]
  BY <1>1, <1>2 DEF Without
<1>4. /\ link' \in [Link -> Seq(Packet)]
      /\ \A k \in Link : \A x : x \in ToSet(link'[k]) <=> x \in ToSet(links[k]) \/ (k \in S /\ x = p)
  <2>1. link' = Plus(links, S, p)
    OBVIOUS
  <2>2. /\ Plus(links, S, p) \in [Link -> Seq(Packet)]
        /\ \A k \in Link : \A x :
             x \in ToSet(Plus(links, S, p)[k]) <=> x \in ToSet(links[k]) \/ (k \in S /\ x = p)
    BY <1>3, PlusCarries, ZenonT(30)
  <2> QED
    BY <2>1, <2>2
<1>5. ASSUME NEW k \in Link
      PROVE  /\ \A x : x \in ToSet(links[k]) => x \in ToSet(link[k])
             /\ \A x : x \in ToSet(link[k]) => x \in ToSet(links[k]) \/ (k = l /\ x = m)
  BY <1>2, <1>3
<1> HIDE DEF m
<1>6. Moves(l, m, S, p)
  BY <1>2, <1>4, <1>5 DEF Moves, Carried
<1> QED
  BY <1>6 DEF m

\* The forms in which the core layer sends.
LEMMA MovedOut ==
  ASSUME Typed, NEW l \in Link, link[l] # <<>>, NEW p \in Packet, NEW n, NEW F,
         NEW links, links = Without(l),
         link' = [k \in Link |-> IF k[1] = n /\ k[2] \in F THEN Append(links[k], p) ELSE links[k]]
  PROVE  Moves(l, Head(link[l]), Out(n, F), p)
<1>1. \A k \in Link : k \in Out(n, F) <=> k[1] = n /\ k[2] \in F
  BY DEF Out
<1>2. link' = Plus(links, Out(n, F), p)
  BY <1>1 DEF Plus
<1> QED
  BY <1>2, Moved

LEMMA MovedAway ==
  ASSUME Typed, NEW l \in Link, link[l] # <<>>, link' = Without(l)
  PROVE  Moves(l, Head(link[l]), {}, Data)
<1> PICK links : links = Without(l)
  OBVIOUS
<1>1. links = [k \in Link |-> links[k]]
  BY DEF Typed, Without
<1>2. link' = Plus(links, {}, Data)
  BY <1>1 DEF Plus
<1>3. Data \in Packet
  BY DEF Packet
<1> QED
  BY <1>2, <1>3, Moved

\* Where an Interest goes on to.
LEMMA Decided ==
  ASSUME NEW n, NEW f, NEW m, NEW d \in Decisions(n, f, m)
  PROVE  /\ FS = "spr" => \E r \in NearestOf(n, repos) : d.faces = {NextHop[n][r]}
         /\ FS = "nrr" => d.target \in Targets(n, m.target) /\ d.faces = {NextHop[n][d.target]}
         /\ FS # "nrr" => d.target = m.target
BY DEF Decisions, TowardsNearest

LEMMA TargetsTyped ==
  ASSUME Typed, NEW n \in Node, NEW target \in Node \cup {None}
  PROVE  /\ Targets(n, target) \subseteq Node
         /\ n \notin repos => n \notin Targets(n, target)
<1>0. repos \subseteq Node /\ CS \subseteq Node
  BY DEF Typed
<1>1. NearestOf(n, repos) \subseteq repos /\ NearestOf(n, Holders(n)) \subseteq CS \ {n}
  BY DEF NearestOf, Holders
<1>2. NearestTargets(n) \subseteq (CS \ {n}) \cup repos
  BY <1>1 DEF NearestTargets
<1>3. Targets(n, target) \in {NearestTargets(n), NearestOf(n, repos)}
        \/ (Targets(n, target) = {target} /\ target \in Node /\ target # n)
  BY DEF Targets
<1> QED
  BY <1>0, <1>1, <1>2, <1>3

\* An Interest that is sent on.
Onward(x, m, target) == Sent([m EXCEPT !.aggregate = ~NotAggregated(x, m)], target)

LEMMA OnwardTyped ==
  ASSUME NEW x, NEW m \in Interest, NEW target \in Node \cup {None}
  PROVE  /\ Onward(x, m, target) \in Interest
         /\ Onward(x, m, target).target = target
         /\ Onward(x, m, target).aggregate = ~NotAggregated(x, m)
         /\ \A b : m.nfound = b => Onward(x, m, target).nfound = b
         /\ \A h : m.hops = h /\ FS \in {"spr", "nrr"} => Onward(x, m, target).hops = h
<1>1. PICK a \in BOOLEAN : a = ~NotAggregated(x, m)
  BY DEF NotAggregated
<1>2. PICK n \in Interest : n = [m EXCEPT !.aggregate = a]
  BY DEF Interest
<1>3. n.nfound = m.nfound /\ n.aggregate = a /\ n.hops = m.hops /\ n.hops \in Nat
  BY <1>2 DEF Interest
<1>4. PICK h \in Nat : h = IF SentOnMany THEN n.hops + 1 ELSE n.hops
  BY <1>3
<1>5. Onward(x, m, target) = [n EXCEPT !.target = target, !.hops = h]
  BY <1>1, <1>2, <1>4, Zenon DEF Onward, Sent
<1>6. PICK r : r = [n EXCEPT !.target = target, !.hops = h]
  OBVIOUS
<1>7. /\ r \in Interest /\ r.target = target /\ r.hops = h
      /\ r.nfound = n.nfound /\ r.aggregate = n.aggregate
  BY <1>6 DEF Interest
<1>8. FS \in {"spr", "nrr"} => h = m.hops
  BY <1>3, <1>4 DEF SentOnMany
<1>9. /\ Onward(x, m, target).nfound = m.nfound
      /\ FS \in {"spr", "nrr"} => Onward(x, m, target).hops = m.hops
  BY <1>3, <1>5, <1>6, <1>7, <1>8
<1> QED
  BY <1>1, <1>3, <1>5, <1>6, <1>7, <1>9

\* What may become of an Interest m that arrives over link l at x, and of Data.
Discarded(l, m) ==
  /\ m \in Interest /\ m.hops = TTL
  /\ Moves(l, m, {}, Data)
  /\ UNCHANGED <<PIT, expired, CS, waiting, late>>

Served(n, F) == waiting' = waiting \ (F \cap {n}) /\ late' = late \ (F \cap {n})

Satisfied(l, m) ==
  /\ m \in Interest
  /\ CS' \subseteq CS \cup {l[2]}
  /\ Moves(l, m, Out(l[2], {l[1]} \ {l[2]}), Data)
  /\ Served(l[2], {l[1]})
  /\ UNCHANGED <<PIT, expired>>

Entered(l, m) ==
  /\ m \in Interest
  /\ l[2] \notin CS \cup repos
  /\ PIT' = [PIT EXCEPT ![l[2]] = AddToPit(l[2], l[1], NotValid(l[2], m))]
  /\ expired' \subseteq expired
  /\ UNCHANGED <<CS, waiting, late>>

Kept(l, m) ==
  /\ Entered(l, m)
  /\ ~MustForward(l[2], m)
  /\ Moves(l, m, {}, Data)

WentOn(l, m) ==
  /\ Entered(l, m)
  /\ \E d \in Decisions(l[2], l[1], [m EXCEPT !.aggregate = ~NotAggregated(l[2], m)]) :
       Moves(l, m, Out(l[2], d.faces), Onward(l[2], m, d.target))

Answered(l) ==
  /\ CS' \subseteq CS \cup {l[2]}
  /\ Moves(l, Data, Out(l[2], PIT[l[2]] \ {l[2]}), Data)
  /\ Served(l[2], PIT[l[2]])
  /\ PIT' = [PIT EXCEPT ![l[2]] = {}]
  /\ expired' \subseteq expired

Failed == FS = "random_repository" /\ UNCHANGED <<PIT, expired, CS, link, waiting, late>>

LEMMA Arrival ==
  ASSUME Typed, NEW l \in Link, Arrive(l)
  PROVE  /\ UNCHANGED <<FS, interest_aggregation, repos>>
         /\ \/ \E m \in Packet : Discarded(l, m) \/ Satisfied(l, m) \/ Kept(l, m) \/ WentOn(l, m)
            \/ Answered(l)
            \/ Failed
<1> DEFINE links == Without(l)
           x == l[2]
           f == l[1]
<1> PICK m : m = Head(link[l])
  OBVIOUS
<1>1. link[l] # <<>> /\ UNCHANGED <<FS, interest_aggregation, repos>>
  BY DEF Arrive, configVars
<1>2. m \in Packet
  BY <1>1, HeadAndTail DEF Typed
<1>3. l = <<f, x>> /\ f \in Node /\ x \in Node
  BY Ends
<1>4. \/ m \in Interest /\ Discard(m, links)
      \/ m \in Interest /\ Satisfy(x, f, links)
      \/ m \in Interest /\ WaitInPit(x, f, m, links)
      \/ DecideAtRandom(x, m)
      \/ m = Data /\ HandleData(x, links)
  BY <1>2, Kinds DEF Arrive, Without
<1> HIDE DEF links, x, f
<1>5. Data \in Packet /\ links = Without(l)
  BY DEF Packet, links
<1>6. ASSUME NEW F, SendData(links, x, F)
      PROVE  Moves(l, m, Out(x, F \ {x}), Data) /\ Served(x, F)
  <2>1. link' = [k \in Link |-> IF k[1] = x /\ k[2] \in F \ {x}
                                THEN Append(links[k], Data) ELSE links[k]]
    BY <1>6 DEF SendData
  <2>2. Moves(l, m, Out(x, F \ {x}), Data)
    BY <1>1, <1>5, <2>1, MovedOut
  <2> QED
    BY <1>6, <2>2 DEF SendData, Served
<1>7. Store(x) \/ UNCHANGED CS => CS' \subseteq CS \cup {x}
  BY DEF Store
<1>8. ASSUME link' = links
      PROVE  Moves(l, m, {}, Data)
  BY <1>1, <1>5, <1>8, MovedAway
<1>9. CASE m \in Interest /\ Discard(m, links)
  <2>1. Discarded(l, m)
    BY <1>8, <1>9 DEF Discard, Discarded
  <2> QED
    BY <1>1, <1>2, <2>1
<1>10. CASE m \in Interest /\ Satisfy(x, f, links)
  <2>1. Moves(l, m, Out(x, {f} \ {x}), Data) /\ Served(x, {f})
    BY <1>6, <1>10 DEF Satisfy
  <2>2. CS' \subseteq CS \cup {x} /\ UNCHANGED <<PIT, expired>>
    BY <1>7, <1>10 DEF Satisfy
  <2>3. Satisfied(l, m)
    BY <1>10, <2>1, <2>2 DEF Satisfied, x, f
  <2> QED
    BY <1>1, <1>2, <2>3
<1>11. CASE m \in Interest /\ WaitInPit(x, f, m, links)
  <2>1. Entered(l, m)
    BY <1>11 DEF WaitInPit, Entered, x, f
  <2>2. CASE ~MustForward(x, m)
    <3>1. link' = links
      BY <1>11, <2>2 DEF WaitInPit
    <3>2. Kept(l, m)
      BY <1>8, <2>1, <2>2, <3>1 DEF Kept, x
    <3> QED
      BY <1>1, <1>2, <3>2
  <2>3. CASE MustForward(x, m)
    <3> DEFINE sent == [m EXCEPT !.aggregate = ~NotAggregated(x, m)]
    <3>1. PICK d \in Decisions(x, f, sent) :
            link' = [k \in Link |-> IF k[1] = x /\ k[2] \in d.faces
                                    THEN Append(links[k], Sent(sent, d.target)) ELSE links[k]]
      BY <1>11, <2>3 DEF WaitInPit
    <3>2. d.target \in Node \cup {None}
      <4>1. sent.target = m.target /\ m.target \in Node \cup {None}
        BY <1>11 DEF Interest
      <4> HIDE DEF sent
      <4>2. FS = "nrr" => d.target \in Targets(x, m.target)
        BY <3>1, <4>1, Decided
      <4>3. FS # "nrr" => d.target = m.target
        BY <3>1, <4>1, Decided
      <4> QED
        BY <1>3, <4>1, <4>2, <4>3, TargetsTyped
    <3>3. Sent(sent, d.target) = Onward(x, m, d.target)
      BY DEF Onward
    <3>4. PICK p \in Packet : p = Onward(x, m, d.target)
      BY <1>11, <3>2, OnwardTyped DEF Packet
    <3>5. link' = [k \in Link |-> IF k[1] = x /\ k[2] \in d.faces
                                  THEN Append(links[k], p) ELSE links[k]]
      BY <3>1, <3>3, <3>4
    <3>6. Moves(l, m, Out(x, d.faces), p)
      BY <1>1, <1>5, <3>5, MovedOut
    <3>7. WentOn(l, m)
      BY <2>1, <3>1, <3>4, <3>6 DEF WentOn, x, f
    <3> QED
      BY <1>1, <1>2, <3>7
  <2> QED
    BY <2>2, <2>3
<1>12. CASE DecideAtRandom(x, m)
  BY <1>1, <1>12 DEF DecideAtRandom, Failed
<1>13. CASE m = Data /\ HandleData(x, links)
  <2>1. Moves(l, Data, Out(x, PIT[x] \ {x}), Data) /\ Served(x, PIT[x])
    BY <1>6, <1>13 DEF HandleData
  <2>2. CS' \subseteq CS \cup {x}
    BY <1>7, <1>13 DEF HandleData
  <2>3. Answered(l)
    BY <1>13, <2>1, <2>2 DEF HandleData, Answered, x
  <2> QED
    BY <1>1, <2>3
<1> QED
  BY <1>4, <1>9, <1>10, <1>11, <1>12, <1>13

\* An Interest of a client, the first or a retransmission.
Ask(again) == [kind |-> "CCN_I", target |-> None, nfound |-> again, aggregate |-> TRUE, hops |-> 0]

LEMMA Requested ==
  ASSUME Typed, NEW n \in Clients, NEW again \in BOOLEAN, SendInterest(n, again)
  PROVE  /\ Ask(again) \in Interest
         /\ link' \in [Link -> Seq(Packet)]
         /\ \A k \in Link : \A x :
              x \in Carried(k)' <=> x \in Carried(k) \/ (k = <<n, n>> /\ x = Ask(again))
<1>1. Ask(again) \in Interest
  BY DEF Ask, Interest
<1>2. PICK p \in Packet : p = Ask(again)
  BY <1>1 DEF Packet
<1>3. link \in [Link -> Seq(Packet)] /\ <<n, n>> \in Link
  BY Ends DEF Typed
<1>4. link' = [link EXCEPT ![<<n, n>>] = Append(@, p)]
  BY <1>2 DEF SendInterest, Ask
<1>5. link' = Plus(link, {<<n, n>>}, p)
  <2>1. PICK here \in Link : here = <<n, n>>
    BY <1>3
  <2>2. link' = [link EXCEPT ![here] = Append(@, p)]
    BY <1>4, <2>1
  <2>3. link' = Plus(link, {here}, p)
    BY <1>3, <2>2 DEF Plus
  <2> QED
    BY <2>1, <2>3
<1>6. /\ Plus(link, {<<n, n>>}, p) \in [Link -> Seq(Packet)]
      /\ \A k \in Link : \A x :
           x \in ToSet(Plus(link, {<<n, n>>}, p)[k])
             <=> x \in ToSet(link[k]) \/ (k \in {<<n, n>>} /\ x = p)
  BY <1>3, PlusCarries
<1> QED
  BY <1>1, <1>2, <1>5, <1>6 DEF Carried

LEMMA TypedInitially == Init => Typed
<1> SUFFICES ASSUME Init PROVE Typed
  OBVIOUS
<1>1. repos \subseteq Node
  BY NetworkAssumption DEF Init
<1>2. link \in [Link -> Seq(Packet)]
  BY DEF Init
<1> QED
  BY <1>1, <1>2 DEF Init, Typed

LEMMA EnteredTyped ==
  ASSUME Typed, NEW l \in Link, NEW m, Entered(l, m), UNCHANGED repos, link' \in [Link -> Seq(Packet)]
  PROVE  Typed'
<1> DEFINE F == AddToPit(l[2], l[1], NotValid(l[2], m))
<1>1. l = <<l[1], l[2]>> /\ l[1] \in Node /\ l[2] \in Node
  BY Ends
<1>2. F \subseteq PIT[l[2]] \cup {l[1]}
  BY DEF AddToPit
<1>3. F \in SUBSET Node /\ \A f \in F : <<f, l[2]>> \in Link
  BY <1>1, <1>2 DEF Typed
<1>4. PIT' = [PIT EXCEPT ![l[2]] = F] /\ PIT \in [Node -> SUBSET Node]
  BY DEF Entered, Typed
<1> HIDE DEF F
<1>5. PIT' \in [Node -> SUBSET Node] /\ \A n \in Node : \A f \in PIT'[n] : <<f, n>> \in Link
  BY <1>1, <1>3, <1>4 DEF Typed
<1> QED
  BY <1>5 DEF Entered, Typed

LEMMA TypedNext == Typed /\ [Next]_vars => Typed'
<1> SUFFICES ASSUME Typed, [Next]_vars PROVE Typed'
  OBVIOUS
<1>1. ASSUME NEW l \in Link, Arrive(l) PROVE Typed'
  <2>1. l[1] \in Node /\ l[2] \in Node /\ UNCHANGED repos
    BY <1>1, Arrival, Ends
  <2>2. ASSUME NEW m, Discarded(l, m) PROVE Typed'
    BY <2>1, <2>2 DEF Typed, Discarded, Moves
  <2>3. ASSUME NEW m, Satisfied(l, m) PROVE Typed'
    <3>1. waiting' \subseteq waiting /\ late' \subseteq waiting'
      BY <2>3 DEF Satisfied, Served, Typed
    <3> QED
      BY <2>1, <2>3, <3>1 DEF Typed, Satisfied, Moves
  <2>4. ASSUME NEW m, Kept(l, m) \/ WentOn(l, m) PROVE Typed'
    BY <2>1, <2>4, EnteredTyped DEF Kept, WentOn, Moves
  <2>5. CASE Answered(l)
    <3>1. waiting' \subseteq waiting /\ late' \subseteq waiting'
      BY <2>5 DEF Answered, Served, Typed
    <3>2. PIT' \in [Node -> SUBSET Node] /\ \A n \in Node : PIT'[n] \subseteq PIT[n]
      BY <2>1, <2>5 DEF Typed, Answered
    <3> QED
      BY <2>1, <2>5, <3>1, <3>2 DEF Typed, Answered, Moves
  <2>6. CASE Failed
    BY <2>1, <2>6 DEF Typed, Failed
  <2> QED
    BY <1>1, <2>2, <2>3, <2>4, <2>5, <2>6, Arrival
<1>2. ASSUME NEW n \in Clients, RequestFile(n) PROVE Typed'
  <2>1. link' \in [Link -> Seq(Packet)]
    BY <1>2, Requested DEF RequestFile
  <2> QED
    BY <1>2, <2>1 DEF RequestFile, Typed, configVars
<1>3. ASSUME NEW n \in Clients, Resend(n) PROVE Typed'
  <2>1. link' \in [Link -> Seq(Packet)]
    BY <1>3, Requested DEF Resend
  <2> QED
    BY <1>3, <2>1 DEF Resend, Typed, configVars
<1>4. CASE TimePasses
  <2>1. expired' \subseteq Node
    BY <1>4 DEF TimePasses, Typed
  <2> QED
    BY <1>4, <2>1 DEF TimePasses, Typed, configVars
<1>5. ASSUME NEW n \in Node, Evict(n) PROVE Typed'
  BY <1>5 DEF Evict, Typed, configVars, clientVars
<1>6. CASE UNCHANGED vars
  BY <1>6 DEF vars, Typed, configVars, clientVars
<1> QED
  BY <1>1, <1>2, <1>3, <1>4, <1>5, <1>6 DEF Next

-----------------------------------------------------------------------------
(***************************************************************************)
(* The Interests in transit.                                               *)
(***************************************************************************)

\* An Interest is one that was there, or of a client, or was sent on by a node.
LEMMA NewInterests ==
  ASSUME Typed, [Next]_vars, NEW k \in Link, NEW p \in Interests(k)'
  PROVE  \/ p \in Interests(k)
         \/ p = Ask(FALSE)
         \/ p = Ask(TRUE) /\ late # {}
         \/ \E l \in Link : \E m \in Interests(l) :
              /\ m \in Interest /\ l[2] \notin repos
              /\ \E d \in Decisions(l[2], l[1], [m EXCEPT !.aggregate = ~NotAggregated(l[2], m)]) :
                   p = Onward(l[2], m, d.target)
<1>0. p \in Carried(k)' /\ p.kind = "CCN_I" /\ p # Data
  BY Kinds DEF Interests
<1>1. ASSUME NEW l \in Link, Arrive(l), p \notin Carried(k)
      PROVE  \E m \in Interests(l) :
               /\ m \in Interest /\ l[2] \notin repos
               /\ \E d \in Decisions(l[2], l[1], [m EXCEPT !.aggregate = ~NotAggregated(l[2], m)]) :
                    p = Onward(l[2], m, d.target)
  <2>1. ASSUME NEW m, NEW S, Moves(l, m, S, Data) PROVE FALSE
    BY <1>0, <1>1, <2>1 DEF Moves
  <2>2. UNCHANGED link => FALSE
    BY <1>0, <1>1 DEF Carried
  <2>3. PICK m \in Packet : WentOn(l, m)
    BY <1>1, <2>1, <2>2, Arrival DEF Discarded, Satisfied, Kept, Answered, Failed
  <2>4. PICK d \in Decisions(l[2], l[1], [m EXCEPT !.aggregate = ~NotAggregated(l[2], m)]) :
               Moves(l, m, Out(l[2], d.faces), Onward(l[2], m, d.target))
    BY <2>3 DEF WentOn
  <2>5. p = Onward(l[2], m, d.target)
    BY <1>0, <1>1, <2>4 DEF Moves
  <2>6. m \in Carried(l) /\ m \in Interest /\ l[2] \notin repos
    BY <2>3, <2>4 DEF WentOn, Entered, Moves
  <2>7. m \in Interests(l)
    BY <2>6, Kinds DEF Interests
  <2> QED
    BY <2>5, <2>6, <2>7
<1>2. ASSUME NEW n \in Clients, RequestFile(n), p \notin Carried(k) PROVE p = Ask(FALSE)
  BY <1>0, <1>2, Requested DEF RequestFile
<1>3. ASSUME NEW n \in Clients, Resend(n), p \notin Carried(k) PROVE p = Ask(TRUE) /\ late # {}
  BY <1>0, <1>3, Requested DEF Resend
<1>4. ASSUME TimePasses \/ (\E n \in Node : Evict(n)) \/ UNCHANGED vars PROVE p \in Carried(k)
  BY <1>0, <1>4 DEF TimePasses, Evict, vars, Carried
<1>5. p \in Carried(k) => p \in Interests(k)
  BY <1>0 DEF Interests
<1> QED
  BY <1>1, <1>2, <1>3, <1>4, <1>5 DEF Next

\* Only NRR gives an Interest a target, and takes its right to wait in a PIT from it
\* only with a repository as target.
GoodTarget(m) ==
  /\ FS # "nrr" => m.target = None /\ m.aggregate
  /\ ~m.aggregate => m.target \in repos

Targeted == \A l \in Link : \A m \in Interests(l) : GoodTarget(m)

LEMMA OnwardTargeted ==
  ASSUME Typed, NEW x \in Node \ repos, NEW f, NEW m \in Interest, GoodTarget(m),
         NEW d \in Decisions(x, f, [m EXCEPT !.aggregate = ~NotAggregated(x, m)])
  PROVE  GoodTarget(Onward(x, m, d.target))
<1> DEFINE sent == [m EXCEPT !.aggregate = ~NotAggregated(x, m)]
<1>1. sent.target = m.target /\ m.target \in Node \cup {None} /\ m.aggregate \in BOOLEAN
  BY DEF Interest
<1>0. d \in Decisions(x, f, sent)
  OBVIOUS
<1> HIDE DEF sent
<1>2. /\ FS = "nrr" => d.target \in Targets(x, m.target)
      /\ FS # "nrr" => d.target = m.target
  BY <1>0, <1>1, Decided
<1>3. d.target \in Node \cup {None}
  BY <1>1, <1>2, TargetsTyped
<1>9. \A t \in Node \cup {None} : /\ Onward(x, m, t).target = t
                                 /\ Onward(x, m, t).aggregate = ~NotAggregated(x, m)
  BY OnwardTyped
<1>4. /\ Onward(x, m, d.target).target = d.target
      /\ Onward(x, m, d.target).aggregate = ~NotAggregated(x, m)
  BY <1>3, <1>9
<1>5. NearestOf(x, repos) \subseteq repos
  BY DEF NearestOf
<1>6. x # None /\ None \notin repos
  BY NetworkAssumption DEF Typed
<1>7. CASE FS # "nrr"
  <2>1. m.target = None /\ m.aggregate /\ d.target = None
    BY <1>2, <1>7 DEF GoodTarget
  <2>2. ~NotAggregated(x, m)
    BY <1>6, <2>1 DEF NotAggregated
  <2> QED
    BY <1>4, <1>7, <2>1, <2>2 DEF GoodTarget
<1>8. CASE FS = "nrr"
  <2> SUFFICES ASSUME NotAggregated(x, m) PROVE d.target \in repos
    BY <1>4, <1>8 DEF GoodTarget
  <2>1. CASE m.target = x
    BY <1>2, <1>5, <1>6, <1>8, <2>1 DEF Targets
  <2>2. CASE m.target # x
    <3>1. m.target \in repos
      BY <2>2 DEF NotAggregated, GoodTarget
    <3> QED
      BY <1>2, <1>6, <1>8, <2>2, <3>1 DEF Targets
  <2> QED
    BY <2>1, <2>2
<1> QED
  BY <1>7, <1>8

-----------------------------------------------------------------------------
(***************************************************************************)
(* The networks that need no timer.                                        *)
(***************************************************************************)
Prompt == FS = "spr" \/ (FS = "nrr" /\ ~interest_aggregation)

\* No timer has struck, and no Interest is at the end of its TTL.
Calm ==
  /\ late = {} /\ expired = {}
  /\ \A l \in Link : \A m \in Interests(l) : m.hops = 0 /\ ~m.nfound

\* A client waits for an Interest to get to its node, or is in the PIT there.
Heard == \A n \in waiting : Interests(<<n, n>>) # {} \/ n \in PIT[n]

\* Interest m over l waits at its node, behind another or after it was sent on.
Waits(l, m) ==
  /\ m \in Interests(l) /\ l[2] \notin repos
  /\ PIT' = [PIT EXCEPT ![l[2]] = @ \cup {l[1]}]
  /\ UNCHANGED <<waiting, late>> /\ expired' \subseteq expired
  /\ \/ PIT[l[2]] # {} /\ interest_aggregation /\ Moves(l, m, {}, Data)
     \/ \E t \in Node \ {l[2]} : \E p \in Interest :
          /\ FS = "spr" => t \in NearestOf(l[2], repos)
          /\ Moves(l, m, Out(l[2], {NextHop[l[2]][t]}), p)

LEMMA CalmWaits ==
  ASSUME Typed, Prompt, Calm, NEW l \in Link, NEW m \in Packet, Kept(l, m) \/ WentOn(l, m)
  PROVE  Waits(l, m)
<1> DEFINE x == l[2]
           sent == [m EXCEPT !.aggregate = ~NotAggregated(x, m)]
<1>1. m \in Interest /\ m \in Carried(l)
  BY DEF Kept, WentOn, Entered, Moves
<1>2. m \in Interests(l) /\ ~m.nfound /\ m.target \in Node \cup {None}
  BY <1>1, Kinds DEF Interests, Calm, Interest
<1>3. NotValid(x, m) <=> PIT[x] = {}
  BY <1>2 DEF NotValid, Calm
<1>4. /\ PIT' = [PIT EXCEPT ![x] = @ \cup {l[1]}]
      /\ x \notin repos /\ UNCHANGED <<waiting, late>> /\ expired' \subseteq expired
  <2>1. Entered(l, m)
    BY DEF Kept, WentOn
  <2>2. AddToPit(x, l[1], NotValid(x, m)) = PIT[x] \cup {l[1]}
    BY <1>3 DEF AddToPit
  <2>3. PIT' = [PIT EXCEPT ![x] = PIT[x] \cup {l[1]}]
    BY <2>1, <2>2 DEF Entered
  <2> QED
    BY <2>1, <2>3 DEF Entered
<1>5. CASE Kept(l, m)
  <2>1. PIT[x] # {} /\ interest_aggregation /\ Moves(l, m, {}, Data)
    BY <1>3, <1>5 DEF Kept, MustForward
  <2> QED
    BY <1>2, <1>4, <2>1 DEF Waits
<1>6. CASE WentOn(l, m)
  <2>1. PICK d \in Decisions(x, l[1], sent) :
               Moves(l, m, Out(x, d.faces), Onward(x, m, d.target))
    BY <1>6 DEF WentOn
  <2>2. sent.target = m.target
    BY <1>1 DEF Interest
  <2>3. x \in Node
    BY Ends
  <2> HIDE DEF sent, x
  <2>4. CASE FS = "spr"
    <3>1. PICK r \in NearestOf(x, repos) : d.faces = {NextHop[x][r]}
      BY <2>1, <2>4, Decided
    <3>2. r \in Node \ {x}
      BY <1>4, <3>1 DEF NearestOf, Typed
    <3>3. d.target \in Node \cup {None}
      BY <1>2, <2>1, <2>2, <2>4, Decided
    <3>4. Onward(x, m, d.target) \in Interest
      BY <1>1, <3>3, OnwardTyped
    <3> QED
      BY <1>2, <1>4, <2>1, <3>1, <3>2, <3>4 DEF Waits, x
  <2>5. CASE FS = "nrr"
    <3>1. d.target \in Targets(x, m.target) /\ d.faces = {NextHop[x][d.target]}
      BY <2>1, <2>2, <2>5, Decided
    <3>2. d.target \in Node \ {x}
      BY <1>2, <1>4, <2>3, <3>1, TargetsTyped
    <3>3. Onward(x, m, d.target) \in Interest
      BY <1>1, <3>2, OnwardTyped
    <3> QED
      BY <1>2, <1>4, <2>1, <2>5, <3>1, <3>2, <3>3 DEF Waits, x
  <2> QED
    BY <2>4, <2>5 DEF Prompt
<1> QED
  BY <1>5, <1>6

\* In such a network an arrival is one of three.
LEMMA CalmArrival ==
  ASSUME Typed, Prompt, Calm, NEW l \in Link, Arrive(l)
  PROVE  (\E m \in Interests(l) : Satisfied(l, m) \/ Waits(l, m)) \/ Answered(l)
<1>1. ASSUME NEW m \in Packet, Satisfied(l, m) PROVE m \in Interests(l)
  BY <1>1, Kinds DEF Satisfied, Moves, Interests
<1>2. ASSUME NEW m \in Packet, Discarded(l, m) PROVE FALSE
  <2>1. m \in Interests(l)
    BY <1>2, Kinds DEF Discarded, Moves, Interests
  <2> QED
    BY <1>2, <2>1, NetworkAssumption DEF Discarded, Calm
<1>3. ~Failed
  BY DEF Failed, Prompt
<1>4. ASSUME NEW m \in Packet, Kept(l, m) \/ WentOn(l, m) PROVE m \in Interests(l) /\ Waits(l, m)
  BY <1>4, CalmWaits DEF Waits
<1> QED
  BY <1>1, <1>2, <1>3, <1>4, Arrival

\* Whatever packet is moved, another one stays where it is.
LEMMA Stays ==
  ASSUME NEW l, NEW m, NEW S, NEW p, Moves(l, m, S, p), NEW k \in Link, NEW q \in Carried(k)
  PROVE  q \in Carried(k)' \/ (k = l /\ q = m)
BY DEF Moves

LEMMA HeardAfterArrival ==
  ASSUME Typed, Prompt, Calm, Heard, NEW l \in Link, Arrive(l)
  PROVE  Heard'
<1> SUFFICES ASSUME NEW n \in waiting' PROVE Interests(<<n, n>>)' # {} \/ n \in PIT'[n]
  BY DEF Heard, Interests, Carried
<1>0. l = <<l[1], l[2]>> /\ l[1] \in Node /\ l[2] \in Node
  BY Ends
<1>1. waiting' \subseteq waiting
  BY CalmArrival DEF Satisfied, Waits, Answered, Served
<1>2. n \in Clients /\ n \in Node /\ <<n, n>> \in Link
  BY <1>1, Ends, NetworkAssumption DEF Typed
<1>3. Interests(<<n, n>>) # {} \/ n \in PIT[n]
  BY <1>1 DEF Heard
<1>4. ASSUME NEW m \in Interests(l), Satisfied(l, m)
      PROVE  Interests(<<n, n>>)' # {} \/ n \in PIT'[n]
  <2>1. CASE n \in PIT[n]
    BY <1>4, <2>1 DEF Satisfied
  <2>2. CASE Interests(<<n, n>>) # {}
    <3>1. PICK q \in Interests(<<n, n>>) : TRUE
      BY <2>2
    <3>2. q \in Carried(<<n, n>>)' \/ <<n, n>> = l
      BY <1>2, <1>4, <3>1, Stays DEF Satisfied, Interests
    <3>3. <<n, n>> # l
      <4>1. waiting' = waiting \ ({l[1]} \cap {l[2]})
        BY <1>4 DEF Satisfied, Served
      <4>2. <<n, n>> = l => l[1] = n /\ l[2] = n
        OBVIOUS
      <4> QED
        BY <4>1, <4>2
    <3> QED
      BY <3>1, <3>2, <3>3 DEF Interests
  <2> QED
    BY <1>3, <2>1, <2>2
<1>5. ASSUME NEW m \in Interests(l), Waits(l, m)
      PROVE  Interests(<<n, n>>)' # {} \/ n \in PIT'[n]
  <2>1. CASE n \in PIT[n]
    BY <1>0, <1>2, <1>5, <2>1 DEF Waits, Typed
  <2>2. CASE Interests(<<n, n>>) # {}
    <3>1. PICK q \in Interests(<<n, n>>) : TRUE
      BY <2>2
    <3>2. q \in Carried(<<n, n>>)' \/ <<n, n>> = l
      BY <1>2, <1>5, <3>1, Stays DEF Waits, Interests
    <3>3. <<n, n>> = l => n \in PIT'[n]
      BY <1>0, <1>2, <1>5 DEF Waits, Typed
    <3> QED
      BY <3>1, <3>2, <3>3 DEF Interests
  <2> QED
    BY <1>3, <2>1, <2>2
<1>6. ASSUME Answered(l) PROVE Interests(<<n, n>>)' # {} \/ n \in PIT'[n]
  <2>1. CASE n \in PIT[n]
    <3>1. n # l[2]
      BY <1>6, <2>1 DEF Answered, Served
    <3> QED
      BY <1>2, <1>6, <2>1, <3>1 DEF Answered, Typed
  <2>2. CASE Interests(<<n, n>>) # {}
    <3>1. PICK q \in Interests(<<n, n>>) : TRUE
      BY <2>2
    <3>2. q # Data
      BY <3>1, Kinds DEF Interests
    <3>3. q \in Carried(<<n, n>>)'
      BY <1>2, <1>6, <3>1, <3>2, Stays DEF Answered, Interests
    <3> QED
      BY <3>1, <3>3 DEF Interests
  <2> QED
    BY <1>3, <2>1, <2>2
<1> QED
  BY <1>4, <1>5, <1>6, CalmArrival

-----------------------------------------------------------------------------
(***************************************************************************)
(* SPR: who waits is heeded.                                               *)
(***************************************************************************)
HeededBy(n, hop) ==
  \/ n \in PIT[hop]
  \/ Interests(<<n, hop>>) # {}
  \/ <<hop, n>> \in Link /\ Data \in Carried(<<hop, n>>)

Heeded == \A n \in Node : PIT[n] # {} => \E r \in NearestOf(n, repos) : HeededBy(n, NextHop[n][r])

LEMMA HeededIsHeeded == Heeded => WaitingIsHeeded
<1> SUFFICES ASSUME Heeded, NEW n \in Node, PIT[n] # {}, NEW r \in NearestOf(n, repos),
                    HeededBy(n, NextHop[n][r])
             PROVE  LET hop == NextHop[n][r] IN
                    \/ n \in PIT[hop]
                    \/ \E i \in DOMAIN link[<<n, hop>>] : link[<<n, hop>>][i].kind = "CCN_I"
                    \/ <<hop, n>> \in Link /\ Data \in ToSet(link[<<hop, n>>])
  BY DEF Heeded, WaitingIsHeeded
<1> QED
  BY DEF HeededBy, Interests, Carried, ToSet

\* A neighbour goes on heeding a node that waits, unless that node is answered.
LEMMA HeededStays ==
  ASSUME Typed, Prompt, Calm, NEW l \in Link, Arrive(l),
         NEW n \in Node, NEW hop \in Node, n # hop, <<n, hop>> \in Link, HeededBy(n, hop), PIT'[n] # {}
  PROVE  HeededBy(n, hop)'
<1>0. /\ l = <<l[1], l[2]>> /\ l[1] \in Node /\ l[2] \in Node
      /\ <<hop, n>> \in Link /\ <<hop, n>>[1] = hop /\ <<hop, n>>[2] = n
      /\ <<n, hop>>[1] = n /\ <<n, hop>>[2] = hop
  BY Ends, LinksAssumption
<1>1. ASSUME NEW m \in Interests(l), Satisfied(l, m) PROVE HeededBy(n, hop)'
  <2>0. m # Data
    BY Kinds DEF Interests
  <2>1. CASE n \in PIT[hop]
    BY <1>1, <2>1 DEF Satisfied, HeededBy
  <2>2. CASE Data \in Carried(<<hop, n>>)
    <3>1. Data \in Carried(<<hop, n>>)'
      BY <1>0, <1>1, <2>0, <2>2, Stays DEF Satisfied
    <3> QED
      BY <1>0, <3>1 DEF HeededBy
  <2>3. CASE Interests(<<n, hop>>) # {}
    <3>1. PICK q \in Interests(<<n, hop>>) : TRUE
      BY <2>3
    <3>2. CASE q \in Carried(<<n, hop>>)'
      BY <3>1, <3>2 DEF HeededBy, Interests
    <3>3. CASE <<n, hop>> = l
      <4>1. l[1] = n /\ l[2] = hop
        BY <1>0, <3>3
      <4>2. <<hop, n>> \in Out(l[2], {l[1]} \ {l[2]})
        BY <1>0, <4>1 DEF Out
      <4>3. Data \in Carried(<<hop, n>>)'
        BY <1>0, <1>1, <4>2 DEF Satisfied, Moves
      <4> QED
        BY <1>0, <4>3 DEF HeededBy
    <3> QED
      BY <1>1, <3>1, <3>2, <3>3, Stays DEF Satisfied, Interests
  <2> QED
    BY <2>1, <2>2, <2>3 DEF HeededBy
<1>2. ASSUME NEW m \in Interests(l), Waits(l, m) PROVE HeededBy(n, hop)'
  <2>0. m # Data /\ \E S, p : Moves(l, m, S, p)
    BY <1>2, Kinds DEF Interests, Waits
  <2>1. CASE n \in PIT[hop]
    BY <1>0, <1>2, <2>1 DEF Waits, HeededBy, Typed
  <2>2. CASE Data \in Carried(<<hop, n>>)
    <3>1. Data \in Carried(<<hop, n>>)'
      BY <1>0, <2>0, <2>2, Stays
    <3> QED
      BY <1>0, <3>1 DEF HeededBy
  <2>3. CASE Interests(<<n, hop>>) # {}
    <3>1. PICK q \in Interests(<<n, hop>>) : TRUE
      BY <2>3
    <3>2. CASE q \in Carried(<<n, hop>>)'
      BY <3>1, <3>2 DEF HeededBy, Interests
    <3>3. CASE <<n, hop>> = l
      <4>1. l[1] = n /\ l[2] = hop
        BY <1>0, <3>3
      <4>2. n \in PIT'[hop]
        BY <1>2, <4>1 DEF Waits, Typed
      <4> QED
        BY <4>2 DEF HeededBy
    <3> QED
      BY <1>2, <3>1, <3>2, <3>3, Stays DEF Waits, Interests
  <2> QED
    BY <2>1, <2>2, <2>3 DEF HeededBy
<1>3. ASSUME Answered(l) PROVE HeededBy(n, hop)'
  <2>0. /\ PIT' = [PIT EXCEPT ![l[2]] = {}] /\ l[2] # n
        /\ Moves(l, Data, Out(l[2], PIT[l[2]] \ {l[2]}), Data)
    BY <1>0, <1>3 DEF Answered, Typed
  <2>1. CASE n \in PIT[hop] /\ hop # l[2]
    BY <2>0, <2>1 DEF HeededBy, Typed
  <2>2. CASE n \in PIT[hop] /\ hop = l[2]
    <3>1. <<hop, n>> \in Out(l[2], PIT[l[2]] \ {l[2]})
      BY <1>0, <2>2 DEF Out
    <3>2. Data \in Carried(<<hop, n>>)'
      BY <1>0, <2>0, <3>1 DEF Moves
    <3> QED
      BY <1>0, <3>2 DEF HeededBy
  <2>3. CASE Data \in Carried(<<hop, n>>)
    <3>1. <<hop, n>> # l
      BY <1>0, <2>0
    <3>2. Data \in Carried(<<hop, n>>)'
      BY <1>0, <2>0, <2>3, <3>1, Stays
    <3> QED
      BY <1>0, <3>2 DEF HeededBy
  <2>4. CASE Interests(<<n, hop>>) # {}
    <3>1. PICK q \in Interests(<<n, hop>>) : TRUE
      BY <2>4
    <3>2. q # Data
      BY <3>1, Kinds DEF Interests
    <3>3. q \in Carried(<<n, hop>>)'
      BY <2>0, <3>1, <3>2, Stays DEF Interests
    <3> QED
      BY <3>1, <3>3 DEF HeededBy, Interests
  <2> QED
    BY <2>1, <2>2, <2>3, <2>4 DEF HeededBy
<1> QED
  BY <1>1, <1>2, <1>3, CalmArrival

LEMMA HeededAfterArrival ==
  ASSUME Typed, FS = "spr", Calm, \A r \in repos : PIT[r] = {}, Heeded, NEW l \in Link, Arrive(l)
  PROVE  Heeded'
<1>0. /\ l = <<l[1], l[2]>> /\ l[1] \in Node /\ l[2] \in Node
      /\ Prompt /\ UNCHANGED repos /\ repos \subseteq Node
  BY Ends, Arrival DEF Prompt, Typed
<1> SUFFICES ASSUME NEW n \in Node, PIT'[n] # {}
             PROVE  \E r \in NearestOf(n, repos) : HeededBy(n, NextHop[n][r])'
  BY <1>0 DEF Heeded, NearestOf
<1>1. CASE PIT[n] # {}
  <2>1. PICK r \in NearestOf(n, repos) : HeededBy(n, NextHop[n][r])
    BY <1>1 DEF Heeded
  <2>2. n # r /\ r \in Node
    BY <1>0, <1>1, <2>1 DEF NearestOf
  <2>3. <<n, NextHop[n][r]>> \in Link /\ NextHop[n][r] # n
    BY <2>2, Ends
  <2>4. NextHop[n][r] \in Node
    BY <2>2, NetworkAssumption
  <2>5. HeededBy(n, NextHop[n][r])'
    BY <1>0, <2>1, <2>3, <2>4, HeededStays
  <2> QED
    BY <2>5
<1>2. CASE PIT[n] = {}
  <2>1. PICK m \in Interests(l) : Waits(l, m) /\ n = l[2]
    <3>1. ASSUME NEW m \in Interests(l), Satisfied(l, m) PROVE FALSE
      BY <1>2, <3>1 DEF Satisfied
    <3>2. ~Answered(l)
      BY <1>2 DEF Answered, Typed
    <3>3. ASSUME NEW m \in Interests(l), Waits(l, m) PROVE n = l[2]
      BY <1>0, <1>2, <3>3 DEF Waits, Typed
    <3> QED
      BY <1>0, <3>1, <3>2, <3>3, CalmArrival
  <2>2. PICK t \in Node \ {n} : \E p \in Interest :
               /\ t \in NearestOf(n, repos)
               /\ Moves(l, m, Out(n, {NextHop[n][t]}), p)
    BY <1>2, <2>1 DEF Waits
  <2>3. PICK p \in Interest : Moves(l, m, Out(n, {NextHop[n][t]}), p)
    BY <2>2
  <2>4. <<n, NextHop[n][t]>> \in Out(n, {NextHop[n][t]}) /\ <<n, NextHop[n][t]>> \in Link
    BY Ends DEF Out
  <2>5. p \in Carried(<<n, NextHop[n][t]>>)'
    BY <2>3, <2>4 DEF Moves
  <2>6. p.kind = "CCN_I"
    BY DEF Interest
  <2>7. HeededBy(n, NextHop[n][t])'
    BY <2>5, <2>6 DEF HeededBy, Interests
  <2> QED
    BY <2>2, <2>7
<1> QED
  BY <1>1, <1>2

\* Induction over the natural numbers: a set of them has a least element.
LEMMA LeastNat ==
  ASSUME NEW T, T \subseteq Nat, T # {}
  PROVE  \E n \in T : \A m \in T : n <= m
<1>1. \E n \in T : \A m \in T : ~(<<m, n>> \in OpToRel(<, Nat))
  BY NatLessThanWellFounded, WFMin, Zenon
<1>2. \A m \in Nat, n \in Nat : m < n => <<m, n>> \in OpToRel(<, Nat)
  BY Zenon DEF OpToRel
<1>3. \A m \in Nat, n \in Nat : ~(m < n) => n <= m
  OBVIOUS
<1> QED
  BY <1>1, <1>2, <1>3, Zenon

\* When nothing is in transit, nobody waits: the waiting node that is nearest to a
\* repository would be waited for by one that is nearer.
LEMMA QuietIsIdle ==
  ASSUME Typed, \A r \in repos : PIT[r] = {}, Heeded, Quiet
  PROVE  \A n \in Node : PIT[n] = {}
<1> SUFFICES ASSUME NEW o \in Node, PIT[o] # {} PROVE FALSE
  OBVIOUS
<1> DEFINE T == {k \in Nat : \E n \in Node : \E r \in NearestOf(n, repos) : PIT[n] # {} /\ k = Dist[n][r]}
<1>1. ASSUME NEW n \in Node, PIT[n] # {}
      PROVE  \E r \in NearestOf(n, repos) :
               /\ r \in repos /\ r \in Node /\ n # r
               /\ NextHop[n][r] \in Node /\ PIT[NextHop[n][r]] # {}
  <2>1. PICK r \in NearestOf(n, repos) : HeededBy(n, NextHop[n][r])
    BY <1>1 DEF Heeded
  <2>2. r \in repos /\ r \in Node /\ n # r
    BY <1>1, <2>1 DEF NearestOf, Typed
  <2>3. <<n, NextHop[n][r]>> \in Link /\ NextHop[n][r] \in Node
    BY <2>2, Ends, NetworkAssumption
  <2>4. \A k \in Link : Carried(k) = {}
    BY DEF Quiet, Carried, ToSet
  <2>5. n \in PIT[NextHop[n][r]]
    BY <2>1, <2>3, <2>4 DEF HeededBy, Interests
  <2> QED
    BY <2>2, <2>3, <2>5
<1>2. \A n, r \in Node : Dist[n][r] \in Nat
  BY NetworkAssumption
<1>3. T # {}
  BY <1>1, <1>2
<1>4. PICK k \in T : \A j \in T : k <= j
  BY <1>3, LeastNat
<1>5. PICK n \in Node : PIT[n] # {} /\ \E r \in NearestOf(n, repos) : k = Dist[n][r]
  BY <1>4
<1>6. PICK r \in NearestOf(n, repos) :
        /\ r \in repos /\ r \in Node /\ n # r
        /\ NextHop[n][r] \in Node /\ PIT[NextHop[n][r]] # {}
  BY <1>1, <1>5
<1>7. k = Dist[n][r]
  <2>1. PICK s \in NearestOf(n, repos) : k = Dist[n][s]
    BY <1>5
  <2>2. Dist[n][s] <= Dist[n][r] /\ Dist[n][r] <= Dist[n][s] /\ s \in Node
    BY <1>6, <2>1 DEF NearestOf, Typed
  <2>3. Dist[n][s] \in Nat /\ Dist[n][r] \in Nat
    BY <1>2, <1>6, <2>2
  <2> QED
    BY <2>1, <2>2, <2>3
<1>8. PICK hop \in Node : hop = NextHop[n][r] /\ PIT[hop] # {}
  BY <1>6
<1>9. PICK s \in NearestOf(hop, repos) : s \in Node
  BY <1>1, <1>8
<1>10. Dist[hop][s] <= Dist[hop][r] /\ Dist[n][r] = Dist[hop][r] + 1
  BY <1>6, <1>8, <1>9, NetworkAssumption DEF NearestOf
<1>11. Dist[hop][s] \in T
  BY <1>2, <1>8, <1>9
<1>12. Dist[hop][s] \in Nat /\ Dist[hop][r] \in Nat /\ Dist[n][r] <= Dist[hop][s]
  BY <1>2, <1>4, <1>6, <1>7, <1>8, <1>9, <1>11
<1> QED
  BY <1>10, <1>12

-----------------------------------------------------------------------------
(***************************************************************************)
(* NRR without aggregation: from who waits a trail leads to a packet.      *)
(***************************************************************************)

\* An Interest has left node z for another node, or Data comes to it from one.
OnTheWay(z) ==
  \E y \in Node \ {z} :
    \/ <<z, y>> \in Link /\ Interests(<<z, y>>) # {}
    \/ <<y, z>> \in Link /\ Data \in Carried(<<y, z>>)

\* w goes from n along PIT entries to a node that has a packet on the way.
Leads(n, k, w) ==
  /\ k \in Nat /\ w \in [0 .. k -> Node] /\ w[0] = n
  /\ \A i \in 1 .. k : w[i - 1] \in PIT[w[i]] /\ w[i - 1] # w[i]
  /\ OnTheWay(w[k])

Trailed == \A n \in Node : PIT[n] # {} => \E k, w : Leads(n, k, w)

LEMMA TrailAfterSatisfied ==
  ASSUME Typed, NEW l \in Link, NEW m \in Interests(l), Satisfied(l, m),
         NEW n, NEW k, NEW w, Leads(n, k, w)
  PROVE  Leads(n, k, w)'
<1>0. /\ l = <<l[1], l[2]>> /\ l[1] \in Node /\ l[2] \in Node /\ <<l[2], l[1]>> \in Link
      /\ m # Data /\ UNCHANGED PIT
      /\ Moves(l, m, Out(l[2], {l[1]} \ {l[2]}), Data)
  BY Ends, LinksAssumption, Kinds DEF Interests, Satisfied
<1>1. PICK z \in Node : z = w[k]
  BY DEF Leads
<1>2. PICK y \in Node \ {z} : \/ <<z, y>> \in Link /\ Interests(<<z, y>>) # {}
                              \/ <<y, z>> \in Link /\ Data \in Carried(<<y, z>>)
  BY <1>1 DEF Leads, OnTheWay
<1>3. ASSUME <<y, z>> \in Link, Data \in Carried(<<y, z>>) PROVE OnTheWay(z)'
  <2>1. Data \in Carried(<<y, z>>)'
    BY <1>0, <1>3, Stays
  <2> QED
    BY <1>3, <2>1 DEF OnTheWay
<1>4. ASSUME <<z, y>> \in Link, Interests(<<z, y>>) # {} PROVE OnTheWay(z)'
  <2>1. PICK q \in Interests(<<z, y>>) : TRUE
    BY <1>4
  <2>2. CASE q \in Carried(<<z, y>>)'
    BY <1>4, <2>1, <2>2 DEF OnTheWay, Interests
  <2>3. CASE <<z, y>> = l
    <3>1. l[1] = z /\ l[2] = y
      BY <2>3
    <3>2. <<y, z>> \in Out(l[2], {l[1]} \ {l[2]}) /\ <<y, z>> \in Link
      BY <1>0, <3>1 DEF Out
    <3>3. Data \in Carried(<<y, z>>)'
      BY <1>0, <3>2 DEF Moves
    <3> QED
      BY <3>2, <3>3 DEF OnTheWay
  <2> QED
    BY <1>0, <1>4, <2>1, <2>2, <2>3, Stays DEF Interests
<1>5. OnTheWay(z)'
  BY <1>2, <1>3, <1>4
<1> QED
  BY <1>0, <1>1, <1>5 DEF Leads

\* An Interest that goes on takes the end of the trail along.
LEMMA TrailAfterWaits ==
  ASSUME Typed, NEW l \in Link, NEW m \in Interests(l), Waits(l, m), ~interest_aggregation
  PROVE  /\ \A n, k, w : Leads(n, k, w) => \E j, v : Leads(n, j, v)'
         /\ \E j, v : Leads(l[2], j, v)'
<1> DEFINE x == l[2]
           f == l[1]
<1>0. l = <<f, x>> /\ f \in Node /\ x \in Node
  BY Ends
<1> HIDE DEF x, f
<1>1. PICK t \in Node \ {x} : \E p \in Interest : Moves(l, m, Out(x, {NextHop[x][t]}), p)
  BY DEF Waits, x
<1>2. PICK p \in Interest : Moves(l, m, Out(x, {NextHop[x][t]}), p)
  BY <1>1
<1>3. PIT' = [PIT EXCEPT ![x] = @ \cup {f}] /\ m # Data
  BY Kinds DEF Waits, x, f, Interests
<1>4. \A a \in Node : PIT[a] \subseteq PIT'[a]
  BY <1>0, <1>3 DEF Typed
<1>5. OnTheWay(x)'
  <2>0. NextHop[x][t] \in Node \ {x} /\ <<x, NextHop[x][t]>> \in Link
    <3>1. NextHop[x][t] \in Node
      BY <1>0, NetworkAssumption
    <3> QED
      BY <1>0, <3>1, Ends
  <2>1. PICK y \in Node \ {x} : y = NextHop[x][t] /\ <<x, y>> \in Link
    BY <2>0
  <2>2. <<x, y>> \in Out(x, {NextHop[x][t]})
    BY <2>1 DEF Out
  <2>3. p \in Carried(<<x, y>>)' /\ p.kind = "CCN_I"
    BY <1>2, <2>1, <2>2 DEF Moves, Interest
  <2> QED
    BY <2>1, <2>3 DEF OnTheWay, Interests
<1>6. \E j, v : Leads(x, j, v)'
  <2>1. Leads(x, 0, [i \in 0 .. 0 |-> x])'
    BY <1>0, <1>5 DEF Leads
  <2> QED
    BY <2>1
<1>7. ASSUME NEW n, NEW k, NEW w, Leads(n, k, w)
      PROVE  \E j, v : Leads(n, j, v)'
  <2>1. /\ k \in Nat /\ w \in [0 .. k -> Node] /\ w[0] = n /\ w[k] \in Node
        /\ \A i \in 1 .. k : w[i - 1] \in PIT[w[i]] /\ w[i - 1] # w[i]
    BY <1>7 DEF Leads
  <2>2. \A i \in 1 .. k : w[i - 1] \in PIT'[w[i]] /\ w[i - 1] # w[i]
    BY <1>4, <2>1
  <2>3. CASE OnTheWay(w[k])'
    <3>1. Leads(n, k, w)'
      BY <2>1, <2>2, <2>3 DEF Leads
    <3> QED
      BY <3>1
  <2>4. CASE w[k] = f /\ f # x
    <3>1. PICK v : v = [i \in 0 .. k + 1 |-> IF i = k + 1 THEN x ELSE w[i]]
      OBVIOUS
    <3>2. /\ v \in [0 .. k + 1 -> Node] /\ v[0] = n /\ v[k + 1] = x /\ k + 1 \in Nat
          /\ \A i \in 0 .. k : v[i] = w[i]
      BY <1>0, <2>1, <3>1
    <3>3. ASSUME NEW i \in 1 .. k + 1 PROVE v[i - 1] \in PIT'[v[i]] /\ v[i - 1] # v[i]
      <4>1. CASE i = k + 1
        <5>1. v[i - 1] = f /\ v[i] = x
          BY <2>1, <2>4, <3>2, <4>1
        <5> QED
          BY <1>0, <1>3, <2>4, <5>1 DEF Typed
      <4>2. CASE i # k + 1
        <5>1. i \in 1 .. k /\ v[i - 1] = w[i - 1] /\ v[i] = w[i]
          BY <2>1, <3>2, <4>2
        <5> QED
          BY <2>2, <5>1
      <4> QED
        BY <4>1, <4>2
    <3>4. Leads(n, k + 1, v)'
      BY <1>5, <3>2, <3>3 DEF Leads
    <3> QED
      BY <3>4
  <2>5. OnTheWay(w[k])' \/ (w[k] = f /\ f # x)
    <3>0. PICK z \in Node : z = w[k]
      BY <2>1
    <3>1. PICK y \in Node \ {z} : \/ <<z, y>> \in Link /\ Interests(<<z, y>>) # {}
                                  \/ <<y, z>> \in Link /\ Data \in Carried(<<y, z>>)
      BY <1>7, <3>0 DEF Leads, OnTheWay
    <3>2. CASE <<y, z>> \in Link /\ Data \in Carried(<<y, z>>)
      <4>1. Data \in Carried(<<y, z>>)'
        BY <1>2, <1>3, <3>2, Stays
      <4> QED
        BY <3>0, <3>2, <4>1 DEF OnTheWay
    <3>3. CASE <<z, y>> \in Link /\ Interests(<<z, y>>) # {}
      <4>1. PICK q \in Interests(<<z, y>>) : TRUE
        BY <3>3
      <4>2. CASE q \in Carried(<<z, y>>)'
        <5>1. OnTheWay(z)'
          BY <3>3, <4>1, <4>2 DEF OnTheWay, Interests
        <5> QED
          BY <3>0, <5>1
      <4>3. CASE <<z, y>> = l
        BY <1>0, <3>0, <4>3
      <4> QED
        BY <1>2, <3>3, <4>1, <4>2, <4>3, Stays DEF Interests
    <3> QED
      BY <3>1, <3>2, <3>3
  <2> QED
    BY <2>3, <2>4, <2>5
<1> QED
  BY <1>6, <1>7 DEF x

\* The answer to a node of the trail goes on to the one before it.
LEMMA TrailAfterAnswered ==
  ASSUME Typed, NEW l \in Link, Answered(l), NEW n, n # l[2], NEW k, NEW w, Leads(n, k, w)
  PROVE  \E j, v : Leads(n, j, v)'
<1> DEFINE x == l[2]
<1>0. l = <<l[1], x>> /\ x \in Node
  BY Ends
<1> HIDE DEF x
<1>1. PIT' = [PIT EXCEPT ![x] = {}] /\ Moves(l, Data, Out(x, PIT[x] \ {x}), Data) /\ n # x
  BY DEF Answered, x
<1>2. /\ k \in Nat /\ w \in [0 .. k -> Node] /\ w[0] = n /\ w[k] \in Node
      /\ \A i \in 1 .. k : w[i - 1] \in PIT[w[i]] /\ w[i - 1] # w[i]
  BY DEF Leads
<1> DEFINE T == {i \in 0 .. k : w[i] = x}
<1>3. CASE T = {}
  <2>1. \A i \in 1 .. k : w[i - 1] \in PIT'[w[i]] /\ w[i - 1] # w[i]
    <3> SUFFICES ASSUME NEW i \in 1 .. k PROVE w[i - 1] \in PIT'[w[i]] /\ w[i - 1] # w[i]
      OBVIOUS
    <3>1. i \in 0 .. k
      BY <1>2
    <3>2. w[i] \in Node /\ w[i] # x
      BY <1>2, <1>3, <3>1
    <3> QED
      BY <1>1, <1>2, <3>2 DEF Typed
  <2>2. OnTheWay(w[k])'
    <3>1. PICK z \in Node : z = w[k] /\ z # x
      BY <1>2, <1>3
    <3>2. PICK y \in Node \ {z} : \/ <<z, y>> \in Link /\ Interests(<<z, y>>) # {}
                                  \/ <<y, z>> \in Link /\ Data \in Carried(<<y, z>>)
      BY <3>1 DEF Leads, OnTheWay
    <3>3. ASSUME <<y, z>> \in Link, Data \in Carried(<<y, z>>) PROVE OnTheWay(z)'
      <4>1. <<y, z>> # l
        BY <1>0, <3>1
      <4>2. Data \in Carried(<<y, z>>)'
        BY <1>1, <3>3, <4>1, Stays
      <4> QED
        BY <3>3, <4>2 DEF OnTheWay
    <3>4. ASSUME <<z, y>> \in Link, Interests(<<z, y>>) # {} PROVE OnTheWay(z)'
      <4>1. PICK q \in Interests(<<z, y>>) : q # Data
        BY <3>4, Kinds DEF Interests
      <4>2. q \in Carried(<<z, y>>)'
        BY <1>1, <3>4, <4>1, Stays DEF Interests
      <4> QED
        BY <3>4, <4>1, <4>2 DEF OnTheWay, Interests
    <3>5. OnTheWay(z)'
      BY <3>2, <3>3, <3>4
    <3> QED
      BY <3>1, <3>5
  <2>3. Leads(n, k, w)'
    BY <1>2, <2>1, <2>2 DEF Leads
  <2> QED
    BY <2>3
<1>4. CASE T # {}
  <2>1. PICK i \in T : \A j \in T : i <= j
    <3>1. T \subseteq Nat
      BY <1>2
    <3> QED
      BY <1>4, <3>1, LeastNat
  <2>2. i \in 1 .. k /\ w[i] = x /\ i - 1 \in Nat /\ i - 1 \in 0 .. k
    BY <1>1, <1>2, <2>1
  <2>3. PICK j \in Nat : j = i - 1
    BY <2>2
  <2>4. \A h \in 0 .. j : w[h] # x /\ w[h] \in Node /\ h \in 0 .. k
    <3> SUFFICES ASSUME NEW h \in 0 .. j PROVE w[h] # x /\ w[h] \in Node /\ h \in 0 .. k
      OBVIOUS
    <3>1. h \in 0 .. k /\ ~(i <= h)
      BY <1>2, <2>2, <2>3
    <3> QED
      BY <1>2, <2>1, <3>1
  <2>5. PICK v : v = [h \in 0 .. j |-> w[h]]
    OBVIOUS
  <2>6. v \in [0 .. j -> Node] /\ v[0] = n /\ v[j] = w[j] /\ \A h \in 0 .. j : v[h] = w[h]
    BY <1>2, <2>4, <2>5
  <2>7. ASSUME NEW h \in 1 .. j PROVE v[h - 1] \in PIT'[v[h]] /\ v[h - 1] # v[h]
    <3>1. h \in 1 .. k /\ h - 1 \in 0 .. j /\ h \in 0 .. j
      BY <1>2, <2>2, <2>3
    <3>2. w[h - 1] \in PIT[w[h]] /\ w[h - 1] # w[h] /\ w[h] # x
      BY <1>2, <2>4, <3>1
    <3> QED
      BY <1>1, <2>4, <2>6, <3>1, <3>2 DEF Typed
  <2>8. OnTheWay(v[j])'
    <3>1. w[j] \in PIT[x] /\ w[j] # x /\ w[j] \in Node
      BY <1>2, <2>2, <2>3
    <3>2. <<w[j], x>> \in Link
      BY <1>0, <3>1 DEF Typed
    <3>3. <<x, w[j]>> \in Link
      BY <3>2, LinksAssumption
    <3>4. <<x, w[j]>> \in Out(x, PIT[x] \ {x})
      BY <3>1, <3>3 DEF Out
    <3>5. Data \in Carried(<<x, w[j]>>)'
      BY <1>1, <3>3, <3>4 DEF Moves
    <3>6. OnTheWay(w[j])'
      BY <1>0, <3>1, <3>3, <3>5 DEF OnTheWay
    <3> QED
      BY <2>6, <3>6
  <2>9. Leads(n, j, v)'
    BY <2>6, <2>7, <2>8 DEF Leads
  <2> QED
    BY <2>9
<1> QED
  BY <1>3, <1>4

LEMMA TrailedAfterArrival ==
  ASSUME Typed, FS = "nrr", ~interest_aggregation, Calm, Trailed, NEW l \in Link, Arrive(l)
  PROVE  Trailed'
<1>0. Prompt /\ l[1] \in Node /\ l[2] \in Node
  BY Ends DEF Prompt
<1> SUFFICES ASSUME NEW n \in Node, PIT'[n] # {} PROVE \E j, v : Leads(n, j, v)'
  BY DEF Trailed
<1>1. ASSUME NEW m \in Interests(l), Satisfied(l, m) PROVE \E j, v : Leads(n, j, v)'
  <2>1. PICK k, w : Leads(n, k, w)
    BY <1>1 DEF Satisfied, Trailed
  <2>2. Leads(n, k, w)'
    BY <1>1, <2>1, TrailAfterSatisfied
  <2> QED
    BY <2>2
<1>2. ASSUME NEW m \in Interests(l), Waits(l, m) PROVE \E j, v : Leads(n, j, v)'
  <2>1. CASE n = l[2]
    BY <1>2, <2>1, TrailAfterWaits
  <2>2. CASE n # l[2]
    <3>1. PIT[n] # {}
      BY <1>0, <1>2, <2>2 DEF Waits, Typed
    <3>2. PICK k, w : Leads(n, k, w)
      BY <3>1 DEF Trailed
    <3> QED
      BY <1>2, <3>2, TrailAfterWaits
  <2> QED
    BY <2>1, <2>2
<1>3. ASSUME Answered(l) PROVE \E j, v : Leads(n, j, v)'
  <2>1. n # l[2] /\ PIT[n] # {}
    BY <1>0, <1>3 DEF Answered, Typed
  <2>2. PICK k, w : Leads(n, k, w)
    BY <2>1 DEF Trailed
  <2> QED
    BY <1>3, <2>1, <2>2, TrailAfterAnswered
<1> QED
  BY <1>0, <1>1, <1>2, <1>3, CalmArrival

-----------------------------------------------------------------------------
(***************************************************************************)
(* The inductive invariant.                                                *)
(***************************************************************************)
ReposReady == \A r \in repos : PIT[r] = {}

Followed ==
  /\ FS = "spr" => Heeded
  /\ FS = "nrr" /\ ~interest_aggregation => Trailed

IInv ==
  /\ Typed /\ Targeted /\ ReposReady
  /\ Prompt => Calm /\ Heard
  /\ Followed

\* When nothing is in transit, no client waits.
LEMMA QuietIsServed ==
  ASSUME IInv, Prompt, Quiet
  PROVE  waiting = {}
<1> SUFFICES ASSUME NEW n \in waiting PROVE FALSE
  OBVIOUS
<1>1. \A k \in Link : Carried(k) = {} /\ Interests(k) = {}
  BY DEF Quiet, Carried, Interests, ToSet
<1>2. n \in Clients /\ n \in Node
  BY NetworkAssumption DEF IInv, Typed
<1>3. PIT[n] # {}
  BY <1>1, <1>2, Ends DEF IInv, Heard
<1>4. CASE FS = "spr"
  BY <1>2, <1>3, <1>4, QuietIsIdle DEF IInv, ReposReady, Followed
<1>5. CASE FS = "nrr" /\ ~interest_aggregation
  <2>1. PICK k, w : Leads(n, k, w)
    BY <1>2, <1>3, <1>5 DEF IInv, Followed, Trailed
  <2>2. OnTheWay(w[k])
    BY <2>1 DEF Leads
  <2> QED
    BY <1>1, <2>2 DEF OnTheWay
<1> QED
  BY <1>4, <1>5 DEF Prompt

\* More packets do no harm.
LEMMA MorePackets ==
  ASSUME IInv, UNCHANGED <<FS, interest_aggregation, repos, PIT>>,
         \A k \in Link : Carried(k) \subseteq Carried(k)'
  PROVE  Followed' /\ ReposReady'
<1>0. ReposReady'
  BY DEF IInv, ReposReady
<1>1. \A k \in Link : Interests(k) \subseteq Interests(k)'
  BY DEF Interests
<1>2. ASSUME FS = "spr" PROVE Heeded'
  <2> SUFFICES ASSUME NEW n \in Node, PIT[n] # {}
               PROVE  \E r \in NearestOf(n, repos) : HeededBy(n, NextHop[n][r])'
    BY DEF Heeded, NearestOf
  <2>1. PICK r \in NearestOf(n, repos) : HeededBy(n, NextHop[n][r])
    BY <1>2 DEF IInv, Followed, Heeded
  <2>2. n # r /\ r \in Node
    BY <2>1 DEF IInv, ReposReady, NearestOf, Typed
  <2>3. PICK hop \in Node : hop = NextHop[n][r] /\ <<n, hop>> \in Link
    BY <2>2, Ends, NetworkAssumption
  <2>4. HeededBy(n, hop)'
    BY <1>1, <2>1, <2>3 DEF HeededBy
  <2> QED
    BY <2>3, <2>4
<1>3. ASSUME FS = "nrr", ~interest_aggregation PROVE Trailed'
  <2>1. ASSUME NEW z, OnTheWay(z) PROVE OnTheWay(z)'
    BY <1>1, <2>1 DEF OnTheWay
  <2>2. ASSUME NEW n, NEW k, NEW w, Leads(n, k, w) PROVE Leads(n, k, w)'
    BY <2>1, <2>2 DEF Leads
  <2> QED
    BY <1>3, <2>2 DEF IInv, Followed, Trailed
<1> QED
  BY <1>0, <1>2, <1>3 DEF Followed

LEMMA DecisionTyped ==
  ASSUME Typed, NEW x \in Node, NEW f, NEW m \in Interest,
         NEW d \in Decisions(x, f, [m EXCEPT !.aggregate = ~NotAggregated(x, m)])
  PROVE  d.target \in Node \cup {None}
<1>3. PICK sent : sent = [m EXCEPT !.aggregate = ~NotAggregated(x, m)]
  OBVIOUS
<1>0. d \in Decisions(x, f, sent)
  BY <1>3
<1>1. sent.target = m.target /\ m.target \in Node \cup {None}
  BY <1>3 DEF Interest
<1>2. /\ FS = "nrr" => d.target \in Targets(x, m.target)
      /\ FS # "nrr" => d.target = m.target
  BY <1>0, <1>1, Decided
<1> QED
  BY <1>1, <1>2, TargetsTyped

LEMMA TargetedNext ==
  ASSUME Typed, Targeted, [Next]_vars, UNCHANGED <<FS, repos>>
  PROVE  Targeted'
<1> SUFFICES ASSUME NEW k \in Link, NEW p \in Interests(k)' PROVE GoodTarget(p)
  BY DEF Targeted, GoodTarget
<1>1. GoodTarget(Ask(FALSE)) /\ GoodTarget(Ask(TRUE))
  BY DEF GoodTarget, Ask
<1>2. ASSUME NEW l \in Link, NEW m \in Interests(l), m \in Interest, l[2] \notin repos,
             NEW d \in Decisions(l[2], l[1], [m EXCEPT !.aggregate = ~NotAggregated(l[2], m)])
      PROVE  GoodTarget(Onward(l[2], m, d.target))
  <2>1. GoodTarget(m)
    BY DEF Targeted
  <2>2. l[2] \in Node \ repos
    BY <1>2, Ends
  <2> QED
    BY <1>2, <2>1, <2>2, OnwardTargeted
<1>3. p \in Interests(k) => GoodTarget(p)
  BY DEF Targeted
<1>4. ASSUME \E l \in Link : \E m \in Interests(l) :
               /\ m \in Interest /\ l[2] \notin repos
               /\ \E d \in Decisions(l[2], l[1], [m EXCEPT !.aggregate = ~NotAggregated(l[2], m)]) :
                    p = Onward(l[2], m, d.target)
      PROVE  GoodTarget(p)
  <2>1. PICK l \in Link : \E m \in Interests(l) :
               /\ m \in Interest /\ l[2] \notin repos
               /\ \E d \in Decisions(l[2], l[1], [m EXCEPT !.aggregate = ~NotAggregated(l[2], m)]) :
                    p = Onward(l[2], m, d.target)
    BY <1>4
  <2>2. PICK m \in Interests(l) :
               /\ m \in Interest /\ l[2] \notin repos
               /\ \E d \in Decisions(l[2], l[1], [m EXCEPT !.aggregate = ~NotAggregated(l[2], m)]) :
                    p = Onward(l[2], m, d.target)
    BY <2>1
  <2>3. PICK d \in Decisions(l[2], l[1], [m EXCEPT !.aggregate = ~NotAggregated(l[2], m)]) :
               p = Onward(l[2], m, d.target)
    BY <2>2
  <2> QED
    BY <1>2, <2>2, <2>3
<1> QED
  BY <1>1, <1>3, <1>4, NewInterests

\* Without timers no retransmission comes, and no hops are counted.
LEMMA CalmNext ==
  ASSUME Typed, Prompt, Calm, [Next]_vars, late' = {}, expired' = {}
  PROVE  Calm'
<1> SUFFICES ASSUME NEW k \in Link, NEW p \in Interests(k)' PROVE p.hops = 0 /\ ~p.nfound
  BY DEF Calm
<1>1. Ask(FALSE).hops = 0 /\ ~Ask(FALSE).nfound
  BY DEF Ask
<1>2. ASSUME NEW l \in Link, NEW m \in Interests(l), m \in Interest,
             NEW d \in Decisions(l[2], l[1], [m EXCEPT !.aggregate = ~NotAggregated(l[2], m)])
      PROVE  Onward(l[2], m, d.target).hops = 0 /\ ~Onward(l[2], m, d.target).nfound
  <2>1. d.target \in Node \cup {None}
    BY <1>2, Ends, DecisionTyped
  <2>2. m.hops = 0 /\ ~m.nfound
    BY DEF Calm
  <2>3. FS \in {"spr", "nrr"}
    BY DEF Prompt
  <2>4. \A t \in Node \cup {None} :
          Onward(l[2], m, t).hops = 0 /\ Onward(l[2], m, t).nfound = FALSE
    BY <1>2, <2>2, <2>3, OnwardTyped
  <2> QED
    BY <2>1, <2>2, <2>4
<1>3. p \in Interests(k) => p.hops = 0 /\ ~p.nfound
  BY DEF Calm
<1>4. late = {}
  BY DEF Calm
<1>5. ASSUME \E l \in Link : \E m \in Interests(l) :
               /\ m \in Interest /\ l[2] \notin repos
               /\ \E d \in Decisions(l[2], l[1], [m EXCEPT !.aggregate = ~NotAggregated(l[2], m)]) :
                    p = Onward(l[2], m, d.target)
      PROVE  p.hops = 0 /\ ~p.nfound
  <2>1. PICK l \in Link : \E m \in Interests(l) :
               /\ m \in Interest /\ l[2] \notin repos
               /\ \E d \in Decisions(l[2], l[1], [m EXCEPT !.aggregate = ~NotAggregated(l[2], m)]) :
                    p = Onward(l[2], m, d.target)
    BY <1>5
  <2>2. PICK m \in Interests(l) :
               /\ m \in Interest /\ l[2] \notin repos
               /\ \E d \in Decisions(l[2], l[1], [m EXCEPT !.aggregate = ~NotAggregated(l[2], m)]) :
                    p = Onward(l[2], m, d.target)
    BY <2>1
  <2>3. PICK d \in Decisions(l[2], l[1], [m EXCEPT !.aggregate = ~NotAggregated(l[2], m)]) :
               p = Onward(l[2], m, d.target)
    BY <2>2
  <2> QED
    BY <1>2, <2>2, <2>3
<1> QED
  BY <1>1, <1>3, <1>4, <1>5, NewInterests, ZenonT(30)

LEMMA Initially == Init => IInv
<1> SUFFICES ASSUME Init PROVE IInv
  OBVIOUS
<1>1. Typed
  BY TypedInitially
<1>2. \A k \in Link : Carried(k) = {} /\ Interests(k) = {}
  BY DEF Init, Carried, Interests, ToSet
<1>3. \A n \in Node : PIT[n] = {}
  BY DEF Init
<1>4. late = {} /\ expired = {} /\ waiting = {}
  BY DEF Init
<1>5. Targeted /\ Calm /\ Heard
  BY <1>2, <1>4 DEF Targeted, Calm, Heard
<1>6. ReposReady /\ Heeded /\ Trailed
  BY <1>1, <1>3 DEF ReposReady, Heeded, Trailed, Typed
<1> QED
  BY <1>1, <1>5, <1>6 DEF IInv, Followed

LEMMA ArriveStep ==
  ASSUME IInv, NEW l \in Link, Arrive(l)
  PROVE  ReposReady' /\ Followed' /\ (Prompt => late' = {} /\ expired' = {} /\ Heard')
<1>0. Typed /\ ReposReady /\ Followed /\ (Prompt => Calm /\ Heard)
  BY DEF IInv
<1>1. UNCHANGED <<FS, interest_aggregation, repos>> /\ repos \subseteq Node /\ l[2] \in Node
  BY <1>0, Arrival, Ends DEF Typed
<1>2. ReposReady'
  <2>1. ASSUME NEW m, Kept(l, m) \/ WentOn(l, m) PROVE ReposReady'
    BY <1>0, <1>1, <2>1 DEF Kept, WentOn, Entered, ReposReady, Typed
  <2>2. ASSUME NEW m, Discarded(l, m) \/ Satisfied(l, m) PROVE ReposReady'
    BY <1>0, <1>1, <2>2 DEF Discarded, Satisfied, ReposReady
  <2>3. CASE Answered(l)
    BY <1>0, <1>1, <2>3 DEF Answered, ReposReady, Typed
  <2>4. CASE Failed
    BY <1>0, <1>1, <2>4 DEF Failed, ReposReady
  <2> QED
    BY <1>0, <2>1, <2>2, <2>3, <2>4, Arrival
<1>3. Followed'
  <2>1. FS = "spr" => Heeded'
    BY <1>0, HeededAfterArrival DEF Prompt, ReposReady, Followed
  <2>2. FS = "nrr" /\ ~interest_aggregation => Trailed'
    BY <1>0, TrailedAfterArrival DEF Prompt, Followed
  <2> QED
    BY <1>1, <2>1, <2>2 DEF Followed
<1>4. ASSUME Prompt PROVE late' = {} /\ expired' = {} /\ Heard'
  <2>1. Calm /\ late = {} /\ expired = {}
    BY <1>0, <1>4 DEF Calm
  <2>2. late' \subseteq late /\ expired' \subseteq expired
    BY <1>0, <1>4, <2>1, CalmArrival DEF Satisfied, Waits, Answered, Served
  <2>3. Heard'
    BY <1>0, <1>4, HeardAfterArrival
  <2> QED
    BY <2>1, <2>2, <2>3
<1> QED
  BY <1>2, <1>3, <1>4

\* A client asks: its Interest is on the link to its node.
LEMMA RequestStep ==
  ASSUME IInv, NEW n \in Clients, NEW again \in BOOLEAN, SendInterest(n, again),
         UNCHANGED <<FS, interest_aggregation, repos, PIT>>, waiting' \subseteq waiting \cup {n}
  PROVE  ReposReady' /\ Followed' /\ (Prompt => Heard')
<1>1. \A k \in Link : \A x :
        x \in Carried(k)' <=> x \in Carried(k) \/ (k = <<n, n>> /\ x = Ask(again))
  BY Requested DEF IInv
<1>2. \A k \in Link : Carried(k) \subseteq Carried(k)' /\ Interests(k) \subseteq Interests(k)'
  BY <1>1 DEF Interests
<1>3. <<n, n>> \in Link /\ Ask(again).kind = "CCN_I"
  BY Ends DEF Ask
<1>4. Interests(<<n, n>>)' # {}
  BY <1>1, <1>3 DEF Interests
<1>5. ASSUME Prompt, NEW c \in waiting' PROVE Interests(<<c, c>>)' # {} \/ c \in PIT'[c]
  <2>1. CASE c = n
    BY <1>4, <2>1
  <2>2. CASE c # n
    <3>1. c \in waiting /\ <<c, c>> \in Link
      BY <1>5, <2>2, Ends DEF IInv, Typed
    <3>2. Interests(<<c, c>>) # {} \/ c \in PIT[c]
      BY <1>5, <3>1 DEF IInv, Heard
    <3> QED
      BY <1>2, <3>1, <3>2
  <2> QED
    BY <2>1, <2>2
<1>6. Prompt => Heard'
  BY <1>5 DEF Heard
<1> QED
  BY <1>2, <1>6, MorePackets

LEMMA Consecution == IInv /\ [Next]_vars => IInv'
<1> SUFFICES ASSUME IInv, [Next]_vars PROVE IInv'
  OBVIOUS
<1>0. Typed /\ Targeted /\ ReposReady /\ Followed /\ (Prompt => Calm /\ Heard)
  BY DEF IInv
<1>1. Prompt => late = {} /\ expired = {}
  BY <1>0 DEF Calm
<1> DEFINE Conserved ==
             /\ UNCHANGED <<FS, interest_aggregation, repos>>
             /\ ReposReady' /\ Followed'
             /\ Prompt => late' = {} /\ expired' = {} /\ Heard'
<1>2. ASSUME NEW l \in Link, Arrive(l) PROVE Conserved
  BY <1>0, <1>2, ArriveStep, Arrival
<1>3. ASSUME NEW n \in Clients, RequestFile(n) PROVE Conserved
  <2>1. /\ SendInterest(n, FALSE) /\ UNCHANGED <<FS, interest_aggregation, repos, PIT, late, expired>>
        /\ waiting' = waiting \cup {n}
    BY <1>3 DEF RequestFile, configVars
  <2>2. ReposReady' /\ Followed' /\ (Prompt => Heard')
    BY <2>1, RequestStep
  <2> QED
    BY <1>1, <2>1, <2>2
<1>4. ASSUME NEW n \in Clients, Resend(n) PROVE Conserved
  <2>1. /\ SendInterest(n, TRUE)
        /\ UNCHANGED <<FS, interest_aggregation, repos, PIT, expired, waiting>>
        /\ late' \subseteq late
    BY <1>4 DEF Resend, configVars
  <2>2. ReposReady' /\ Followed' /\ (Prompt => Heard')
    BY <2>1, RequestStep
  <2> QED
    BY <1>1, <2>1, <2>2
<1>5. ASSUME TimePasses PROVE Conserved
  <2>1. UNCHANGED <<FS, interest_aggregation, repos, PIT, link, waiting>> /\ Quiet /\ waiting # late
    BY <1>5 DEF TimePasses, configVars
  <2>2. ~Prompt
    BY <1>0, <1>1, <2>1, QuietIsServed
  <2>3. ReposReady' /\ Followed'
    BY <2>1, MorePackets DEF Carried
  <2> QED
    BY <2>1, <2>2, <2>3
<1>6. ASSUME (\E n \in Node : Evict(n)) \/ UNCHANGED vars PROVE Conserved
  <2>1. UNCHANGED <<FS, interest_aggregation, repos, PIT, link, waiting, late, expired>>
    BY <1>6 DEF Evict, vars, configVars, clientVars
  <2>2. ReposReady' /\ Followed'
    BY <2>1, MorePackets DEF Carried
  <2>3. Prompt => Heard'
    BY <1>0, <2>1 DEF Heard, Interests, Carried
  <2> QED
    BY <1>1, <2>1, <2>2, <2>3
<1> HIDE DEF Conserved
<1>7. Conserved
  BY <1>2, <1>3, <1>4, <1>5, <1>6 DEF Next
<1> USE DEF Conserved
<1>8. Typed'
  BY <1>0, TypedNext
<1>9. Targeted'
  BY <1>0, <1>7, TargetedNext
<1>10. Prompt => Calm'
  BY <1>0, <1>7, CalmNext
<1>11. Prompt' = Prompt
  BY <1>7 DEF Prompt
<1> QED
  BY <1>7, <1>8, <1>9, <1>10, <1>11 DEF IInv


-----------------------------------------------------------------------------
(***************************************************************************)
(* The theorems.                                                           *)
(***************************************************************************)
\* The network keeps its invariant, through every arrival, request, retransmission
\* and eviction.
THEOREM Inductive == Spec => []IInv
BY Initially, Consecution, PTL DEF Spec

\* handle_interest and nrr::exploit: an Interest that lost its copy and must not be
\* aggregated is bound for a repository, so that it is sent back once at most.
THEOREM RedirectedOnceHolds == Spec => []RedirectedOnce
<1>1. IInv => RedirectedOnce
  BY DEF IInv, Targeted, GoodTarget, RedirectedOnce, Interests, Carried
<1> QED
  BY <1>1, Inductive, PTL

\* spr::exploit and add_to_pit: a node that waits is heeded by its next hop, or a
\* packet is on the way between the two.
THEOREM WaitingIsHeededHolds == Spec => []WaitingIsHeeded
<1>1. IInv => WaitingIsHeeded
  BY HeededIsHeeded DEF IInv, Followed, WaitingIsHeeded
<1> QED
  BY <1>1, Inductive, PTL

\* PIT, spr and nrr: with SPR, and with NRR that does not aggregate, no Interest
\* disappears and no timer of a client strikes, on any network.
THEOREM NeedsNoTimerHolds == Spec => [](FS # "parallel_repository" => NeedsNoTimer)
<1>1. IInv => (FS # "parallel_repository" => NeedsNoTimer)
  BY QuietIsServed DEF NeedsNoTimer, NoInterestDisappears, Prompt
<1> QED
  BY <1>1, Inductive, PTL

\* nrr::exploit_model and nrr::exploit: the analytical model and the simulation send
\* a new Interest on the same faces, wherever the copies of the chunk are.
THEOREM ModelAgreesHolds == Spec => []ModelAgrees
<1>1. ASSUME IInv PROVE ModelAgrees
  <2> SUFFICES ASSUME FS = "nrr", Cardinality(repos) = 1, NEW n \in Node \ repos
               PROVE  ModelFaces(n) = {NextHop[n][t] : t \in Targets(n, None)}
    BY DEF ModelAgrees
  <2>1. repos \subseteq Node /\ IsFiniteSet(repos)
    BY <1>1, NetworkAssumption, FS_Subset DEF IInv, Typed
  <2>2. PICK r : repos = {r}
    BY <2>1, FS_Singleton
  <2>3. r \in Node /\ r \in Nat /\ Dist[n][r] \in Nat
    BY <2>1, <2>2, NetworkAssumption
  <2>4. Max(repos) = r
    BY <2>2, <2>3 DEF Max
  <2>5. NearestOf(n, repos) = {r}
    BY <2>2, <2>3 DEF NearestOf
  <2> DEFINE near == NearestOf(n, Holders(n))
             Nearer == \E c \in near : Dist[n][c] <= Dist[n][r] + 1
  <2>6. ModelFaces(n) = IF Nearer THEN {NextHop[n][c] : c \in near} ELSE {NextHop[n][r]}
    BY <2>4 DEF ModelFaces
  <2>7. NearestTargets(n) = IF Nearer THEN near ELSE {r}
    BY <2>5 DEF NearestTargets
  <2>8. n # None
    BY NetworkAssumption
  <2>9. Targets(n, None) = NearestTargets(n)
    BY <2>8 DEF Targets
  <2> QED
    BY <2>6, <2>7, <2>9
<1> QED
  BY <1>1, Inductive, PTL

=============================================================================
