-------------------------- MODULE CoreLayerProofs --------------------------
(***************************************************************************)
(* Proofs about CoreLayer, for every number of faces and chunks, every     *)
(* content of the repository and every value of the bounds.                *)
(*                                                                         *)
(* The counters are balanced action by action.  FlowBalance needs more: it *)
(* follows from WaitingHasCredit, that every face of a PIT entry is owed   *)
(* an answer, which is what makes one Data packet per face of the entry    *)
(* the right number to send.                                               *)
(***************************************************************************)
EXTENDS CoreLayer, TLAPS

\* Every face of a PIT entry has an Interest that is not answered yet.
WaitingHasCredit ==
  \A c \in Chunk : PIT[c] # NoEntry => \A f \in PIT[c].interfaces : credit[c][f] >= 1

IInv ==
  /\ TypeOK
  /\ PendingIsAbsent
  /\ PendingWasForwarded
  /\ FlowBalance
  /\ WaitingHasCredit
  /\ Balances

-----------------------------------------------------------------------------
(***************************************************************************)
(* Lemmas on the helpers.                                                  *)
(***************************************************************************)

\* One of the two counters of decisions goes up by one.
OneDecision ==
  \/ decision_yes' = decision_yes + 1 /\ decision_no' = decision_no
  \/ decision_yes' = decision_yes /\ decision_no' = decision_no + 1

\* Store counts exactly one decision, and what it holds afterwards was held
\* before or is the chunk it was given.
LEMMA StoreEffect ==
  ASSUME NEW c \in Chunk, TypeOK, Store(c)
  PROVE  /\ CS' \subseteq CS \cup {c}
         /\ OneDecision
<1>1. CASE AfterDiscardingData
  BY <1>1 DEF AfterDiscardingData, OneDecision
<1>2. CASE ~AfterDiscardingData
  <2>1. /\ decision_yes' = decision_yes + 1
        /\ decision_no' = decision_no
        /\ \E victims \in SUBSET (CS \ {c}) : CS' = (CS \cup {c}) \ victims
    BY <1>2 DEF Store
  <2>2. QED
    BY <2>1 DEF OneDecision
<1>3. QED
  BY <1>1, <1>2

\* Sending to fs lowers the credit of the faces of fs by one.
LEMMA SendDataEffect ==
  ASSUME NEW c \in Chunk, NEW fs \in SUBSET Face, TypeOK, SendData(c, fs)
  PROVE  /\ credit' \in [Chunk -> [Face -> Int]]
         /\ \A d \in Chunk \ {c} : credit'[d] = credit[d]
         /\ \A f \in fs : credit'[c][f] = credit[c][f] - 1
         /\ \A f \in Face \ fs : credit'[c][f] = credit[c][f]
<1> DEFINE row == [f \in Face |-> IF f \in fs THEN credit[c][f] - 1 ELSE credit[c][f]]
<1>1. credit \in [Chunk -> [Face -> Int]]
  BY DEF TypeOK
<1>2. \A f \in Face : credit[c][f] \in Int
  BY <1>1
<1>3. row \in [Face -> Int]
  BY <1>2
<1>4. credit' = [credit EXCEPT ![c] = row]
  BY DEF SendData
<1>5. credit'[c] = row /\ \A d \in Chunk \ {c} : credit'[d] = credit[d]
  BY <1>1, <1>4
<1>6. credit' \in [Chunk -> [Face -> Int]]
  BY <1>1, <1>3, <1>4
<1>7. QED
  BY <1>5, <1>6

\* Each disjunct of Next, with its parameters, so that the step lemmas below
\* have one case per action.
LEMMA NextCases ==
  ASSUME [Next]_vars
  PROVE  \/ DiscardInterest
         \/ \E c \in Chunk : SatisfyFromCache(c)
         \/ \E c \in Chunk, cacheable \in CacheableVerdicts : SatisfyFromRepo(c, cacheable)
         \/ \E f \in Face, c \in Chunk, cacheable \in CacheableVerdicts,
              nfound, toMe, aggregate \in BOOLEAN, decision \in Decisions :
                WaitInPit(f, c, cacheable, nfound, toMe, aggregate, decision)
         \/ \E c \in Chunk : SolicitedData(c)
         \/ \E c \in Chunk : UnsolicitedData(c)
         \/ \E c \in Chunk : EntryAges(c)
         \/ ContentsLeave
         \/ ClearStat
         \/ UNCHANGED vars
  BY DEF Next, HandleInterest, HandleData

-----------------------------------------------------------------------------
(***************************************************************************)
(* Types.                                                                  *)
(***************************************************************************)
LEMMA InitType == Init => TypeOK
BY CoreAssumption DEF Init, TypeOK

\* WaitInPit leaves a well-formed entry, and touches the row of its chunk only.
LEMMA WaitInPitEffect ==
  ASSUME TypeOK,
         NEW f \in Face, NEW c \in Chunk, NEW cacheable \in CacheableVerdicts,
         NEW nfound \in BOOLEAN, NEW toMe \in BOOLEAN, NEW aggregate \in BOOLEAN,
         NEW decision \in Decisions,
         WaitInPit(f, c, cacheable, nfound, toMe, aggregate, decision)
  PROVE  /\ PIT' \in [Chunk -> PitEntry \cup {NoEntry}]
         /\ \A d \in Chunk \ {c} : PIT'[d] = PIT[d]
         /\ PIT'[c] \in PitEntry
         /\ PIT'[c].interfaces \subseteq
               {f} \cup (IF PIT[c] = NoEntry THEN {} ELSE PIT[c].interfaces)
         /\ credit' \in [Chunk -> [Face -> Int]]
         /\ \A d \in Chunk \ {c} : credit'[d] = credit[d]
         /\ credit'[c][f] = credit[c][f] + 1
         /\ \A g \in Face \ {f} : credit'[c][g] = credit[c][g]
         /\ upstream' \in [Chunk -> SUBSET Face]
         /\ \A d \in Chunk : upstream[d] \subseteq upstream'[d]
         /\ refused \subseteq refused' /\ refused' \subseteq Chunk
         /\ PIT[c] = NoEntry => upstream'[c] \ ClientFace # {} \/ c \in refused'
<1> DEFINE fresh == [interfaces |-> {f}, expired |-> FALSE, cacheable |-> cacheable]
           kept  == [PIT[c] EXCEPT !.interfaces = PIT[c].interfaces \cup {f}]
           renew == EntryNotValid(c, nfound)
           entry == IF renew THEN fresh ELSE kept
<1>1. cacheable \in BOOLEAN
  BY CoreAssumption DEF CacheableVerdicts
<1>2. fresh \in PitEntry /\ fresh.interfaces = {f}
  BY <1>1 DEF PitEntry
<1>3. ~renew => PIT[c] \in PitEntry /\ PIT[c] # NoEntry
  BY DEF EntryNotValid, TypeOK
<1>4. ~renew => kept \in PitEntry /\ kept.interfaces = PIT[c].interfaces \cup {f}
  BY <1>3 DEF PitEntry
<1>5. entry \in PitEntry
  BY <1>2, <1>4
<1>6. entry.interfaces \subseteq
        {f} \cup (IF PIT[c] = NoEntry THEN {} ELSE PIT[c].interfaces)
  BY <1>2, <1>3, <1>4
<1>7. PIT' = [PIT EXCEPT ![c] = entry]
  BY DEF WaitInPit
<1>8. /\ PIT' \in [Chunk -> PitEntry \cup {NoEntry}]
      /\ PIT'[c] = entry
      /\ \A d \in Chunk \ {c} : PIT'[d] = PIT[d]
  <2> HIDE DEF entry
  <2> QED
    BY <1>5, <1>7 DEF TypeOK
<1>9. /\ credit' \in [Chunk -> [Face -> Int]]
      /\ \A d \in Chunk \ {c} : credit'[d] = credit[d]
      /\ credit'[c][f] = credit[c][f] + 1
      /\ \A g \in Face \ {f} : credit'[c][g] = credit[c][g]
  <2>1. credit' = [credit EXCEPT ![c][f] = @ + 1]
    BY DEF WaitInPit
  <2>2. credit \in [Chunk -> [Face -> Int]]
    BY DEF TypeOK
  <2>3. credit[c] \in [Face -> Int]
    BY <2>2
  <2> QED
    BY <2>1, <2>2, <2>3
<1>10. ForwardedTo(decision) \in SUBSET Face /\ (ForwardedTo(decision) # {} \/ Refuses(decision))
  BY DEF Decisions, ForwardedTo, Refuses
<1>11. upstream' = upstream \/ upstream' = [upstream EXCEPT ![c] = @ \cup ForwardedTo(decision)]
  BY DEF WaitInPit
<1>12. upstream' \in [Chunk -> SUBSET Face] /\ \A d \in Chunk : upstream[d] \subseteq upstream'[d]
  BY <1>10, <1>11 DEF TypeOK
<1>13. refused \subseteq refused' /\ refused' \subseteq Chunk
  BY DEF WaitInPit, TypeOK
<1>14. ASSUME PIT[c] = NoEntry PROVE upstream'[c] \ ClientFace # {} \/ c \in refused'
  <2>1. /\ upstream' = [upstream EXCEPT ![c] = @ \cup ForwardedTo(decision)]
        /\ Refuses(decision) => c \in refused'
    BY <1>14 DEF WaitInPit, EntryNotValid
  <2>2. upstream'[c] = upstream[c] \cup ForwardedTo(decision)
    BY <2>1 DEF TypeOK
  <2> QED
    BY <2>1, <2>2, <1>10 DEF ForwardedTo
<1>15. QED
  BY <1>5, <1>6, <1>8, <1>9, <1>12, <1>13, <1>14

\* Handing a chunk to the store, or not, and what that leaves of the store.
LEMMA SolicitedEffect ==
  ASSUME NEW c \in Chunk, TypeOK, SolicitedData(c)
  PROVE  /\ CS' \subseteq CS \cup {c}
         /\ OneDecision
<1>1. CASE Store(c)
  BY <1>1, StoreEffect
<1>2. CASE AfterDiscardingData
  BY <1>2 DEF AfterDiscardingData, OneDecision
<1>3. QED
  BY <1>1, <1>2 DEF SolicitedData

\* The same for the answer of the repository, whose decision may be missing.
LEMMA RepoEffect ==
  ASSUME NEW c \in Chunk, NEW cacheable \in CacheableVerdicts, TypeOK,
         SatisfyFromRepo(c, cacheable)
  PROVE  /\ CS' \subseteq CS \cup {c}
         /\ OneDecision \/ (TwoLayer /\ UNCHANGED <<decision_yes, decision_no>>)
<1>1. CASE cacheable
  <2>1. Store(c)
    BY <1>1 DEF SatisfyFromRepo
  <2> QED
    BY <2>1, StoreEffect
<1>2. CASE ~cacheable
  <2>1. UNCHANGED <<CS, decision_yes, decision_no>> /\ TwoLayer
    BY <1>2 DEF SatisfyFromRepo, CacheableVerdicts
  <2> QED
    BY <2>1
<1>3. QED
  BY <1>1, <1>2

LEMMA TypeStep == TypeOK /\ [Next]_vars => TypeOK'
<1> SUFFICES ASSUME TypeOK, [Next]_vars PROVE TypeOK'
  OBVIOUS
<1> USE DEF pitVars, debugVars, storeVars, counterVars
<1>1. CASE DiscardInterest
  BY <1>1 DEF TypeOK, DiscardInterest, ReceiveInterest
<1>2. ASSUME NEW c \in Chunk, SatisfyFromCache(c) PROVE TypeOK'
  BY <1>2 DEF TypeOK, SatisfyFromCache, ReceiveInterest
<1>3. ASSUME NEW c \in Chunk, NEW cacheable \in CacheableVerdicts,
             SatisfyFromRepo(c, cacheable)
      PROVE TypeOK'
  <2>1. CS' \in SUBSET Chunk /\ decision_yes' \in Nat /\ decision_no' \in Nat
    BY <1>3, RepoEffect DEF TypeOK, OneDecision
  <2> QED
    BY <1>3, <2>1 DEF TypeOK, SatisfyFromRepo, ReceiveInterest
<1>4. ASSUME NEW f \in Face, NEW c \in Chunk, NEW cacheable \in CacheableVerdicts,
             NEW nfound \in BOOLEAN, NEW toMe \in BOOLEAN, NEW aggregate \in BOOLEAN,
             NEW decision \in Decisions,
             WaitInPit(f, c, cacheable, nfound, toMe, aggregate, decision)
      PROVE TypeOK'
  <2>1. /\ PIT' \in [Chunk -> PitEntry \cup {NoEntry}]
        /\ credit' \in [Chunk -> [Face -> Int]]
        /\ upstream' \in [Chunk -> SUBSET Face]
        /\ refused' \subseteq Chunk
    BY <1>4, WaitInPitEffect
  <2> QED
    BY <1>4, <2>1 DEF TypeOK, WaitInPit, ReceiveInterest
<1>5. ASSUME NEW c \in Chunk, SolicitedData(c) PROVE TypeOK'
  <2>1. CS' \in SUBSET Chunk /\ decision_yes' \in Nat /\ decision_no' \in Nat
    BY <1>5, SolicitedEffect DEF TypeOK, OneDecision
  <2>2. PIT[c].interfaces \in SUBSET Face
    BY <1>5 DEF SolicitedData, TypeOK, PitEntry
  <2>3. credit' \in [Chunk -> [Face -> Int]]
    BY <1>5, <2>2, SendDataEffect DEF SolicitedData
  <2>4. /\ PIT' \in [Chunk -> PitEntry \cup {NoEntry}]
        /\ upstream' \in [Chunk -> SUBSET Face]
        /\ refused' \subseteq Chunk
    BY <1>5 DEF SolicitedData, TypeOK
  <2> QED
    BY <1>5, <2>1, <2>3, <2>4 DEF TypeOK, SolicitedData, ReceiveData
<1>6. ASSUME NEW c \in Chunk, UnsolicitedData(c) PROVE TypeOK'
  BY <1>6 DEF TypeOK, UnsolicitedData, ReceiveData
<1>7. ASSUME NEW c \in Chunk, EntryAges(c) PROVE TypeOK'
  <2>1. PIT[c] \in PitEntry
    BY <1>7 DEF EntryAges, TypeOK
  <2>2. [PIT[c] EXCEPT !.expired = TRUE] \in PitEntry
    BY <2>1 DEF PitEntry
  <2>3. PIT' = [PIT EXCEPT ![c] = [PIT[c] EXCEPT !.expired = TRUE]]
    BY <1>7 DEF EntryAges
  <2>4. PIT' \in [Chunk -> PitEntry \cup {NoEntry}]
    BY <2>2, <2>3 DEF TypeOK
  <2> QED
    BY <1>7, <2>4 DEF TypeOK, EntryAges
<1>8. CASE ContentsLeave
  BY <1>8 DEF TypeOK, ContentsLeave
<1>9. CASE ClearStat
  BY <1>9 DEF TypeOK, ClearStat
<1>10. CASE UNCHANGED vars
  BY <1>10 DEF TypeOK, vars
<1>11. QED
  BY <1>1, <1>2, <1>3, <1>4, <1>5, <1>6, <1>7, <1>8, <1>9, <1>10, NextCases

-----------------------------------------------------------------------------
(***************************************************************************)
(* The Pending Interest Table.                                             *)
(***************************************************************************)

\* The parts of IInv about the entries of the PIT.
Table == PendingIsAbsent /\ PendingWasForwarded /\ FlowBalance /\ WaitingHasCredit

\* A step that leaves the entries as they are, or only lets them age, and puts
\* nothing but an owned chunk in the store.
LEMMA TableFramed ==
  ASSUME TypeOK, Table,
         CS' \subseteq CS \cup Owned, credit' = credit, upstream' = upstream,
         refused' = refused,
         \A c \in Chunk : \/ PIT'[c] = PIT[c]
                          \/ PIT[c] # NoEntry /\ PIT'[c].interfaces = PIT[c].interfaces
  PROVE  Table'
<1>1. PendingIsAbsent'
  BY DEF Table, PendingIsAbsent
<1>2. PendingWasForwarded'
  BY DEF Table, PendingWasForwarded
<1>3. FlowBalance' /\ WaitingHasCredit'
  BY DEF Table, FlowBalance, WaitingHasCredit
<1>4. QED
  BY <1>1, <1>2, <1>3 DEF Table

LEMMA TableStep == TypeOK /\ Table /\ [Next]_vars => Table'
<1> SUFFICES ASSUME TypeOK, Table, [Next]_vars PROVE Table'
  OBVIOUS
<1> USE DEF pitVars, debugVars, storeVars, counterVars
<1>1. CASE DiscardInterest
  BY <1>1, TableFramed DEF DiscardInterest
<1>2. ASSUME NEW c \in Chunk, SatisfyFromCache(c) PROVE Table'
  BY <1>2, TableFramed DEF SatisfyFromCache
<1>3. ASSUME NEW c \in Chunk, NEW cacheable \in CacheableVerdicts,
             SatisfyFromRepo(c, cacheable)
      PROVE Table'
  <2>1. CS' \subseteq CS \cup Owned
    BY <1>3, RepoEffect DEF SatisfyFromRepo
  <2> QED
    BY <1>3, <2>1, TableFramed DEF SatisfyFromRepo
<1>4. ASSUME NEW f \in Face, NEW c \in Chunk, NEW cacheable \in CacheableVerdicts,
             NEW nfound \in BOOLEAN, NEW toMe \in BOOLEAN, NEW aggregate \in BOOLEAN,
             NEW decision \in Decisions,
             WaitInPit(f, c, cacheable, nfound, toMe, aggregate, decision)
      PROVE Table'
  <2>1. CS' = CS /\ c \notin CS /\ c \notin Owned
    BY <1>4 DEF WaitInPit
  <2>2. /\ \A d \in Chunk \ {c} : PIT'[d] = PIT[d]
        /\ PIT'[c].interfaces \subseteq
              {f} \cup (IF PIT[c] = NoEntry THEN {} ELSE PIT[c].interfaces)
        /\ \A d \in Chunk \ {c} : credit'[d] = credit[d]
        /\ credit'[c][f] = credit[c][f] + 1
        /\ \A g \in Face \ {f} : credit'[c][g] = credit[c][g]
        /\ \A d \in Chunk : upstream[d] \subseteq upstream'[d]
        /\ refused \subseteq refused'
        /\ PIT[c] = NoEntry => upstream'[c] \ ClientFace # {} \/ c \in refused'
    BY <1>4, WaitInPitEffect
  <2>3. PendingIsAbsent'
    BY <2>1, <2>2 DEF Table, PendingIsAbsent
  <2>4. PendingWasForwarded'
    BY <2>2 DEF Table, PendingWasForwarded
  <2>5. \A d \in Chunk, g \in Face : credit[d][g] \in Int /\ credit[d][g] >= 0
    BY DEF TypeOK, Table, FlowBalance
  <2>6. FlowBalance'
    BY <2>2, <2>5 DEF FlowBalance
  <2>7. ASSUME NEW d \in Chunk, PIT'[d] # NoEntry, NEW g \in PIT'[d].interfaces
        PROVE credit'[d][g] >= 1
    <3>1. CASE d # c
      BY <2>2, <2>7, <3>1 DEF Table, WaitingHasCredit
    <3>2. CASE d = c /\ g = f
      BY <2>2, <2>5, <3>2
    <3>3. CASE d = c /\ g # f
      <4>1. PIT[c] # NoEntry /\ g \in PIT[c].interfaces
        BY <2>2, <2>7, <3>3
      <4>2. g \in Face
        BY <4>1 DEF TypeOK, PitEntry
      <4> QED
        BY <2>2, <3>3, <4>1, <4>2 DEF Table, WaitingHasCredit
    <3> QED
      BY <3>1, <3>2, <3>3
  <2>8. WaitingHasCredit'
    BY <2>7 DEF WaitingHasCredit
  <2> QED
    BY <2>3, <2>4, <2>6, <2>8 DEF Table
<1>5. ASSUME NEW c \in Chunk, SolicitedData(c) PROVE Table'
  <2>1. CS' \subseteq CS \cup {c}
    BY <1>5, SolicitedEffect
  <2>2. PIT'[c] = NoEntry /\ \A d \in Chunk \ {c} : PIT'[d] = PIT[d]
    BY <1>5 DEF SolicitedData, TypeOK
  <2>3. refused' = refused \ {c} /\ \A d \in Chunk \ {c} : upstream'[d] = upstream[d]
    BY <1>5 DEF SolicitedData, TypeOK
  <2>4. PIT[c] # NoEntry /\ PIT[c].interfaces \in SUBSET Face
    BY <1>5 DEF SolicitedData, TypeOK, PitEntry
  <2>5. /\ \A d \in Chunk \ {c} : credit'[d] = credit[d]
        /\ \A f \in PIT[c].interfaces : credit'[c][f] = credit[c][f] - 1
        /\ \A f \in Face \ PIT[c].interfaces : credit'[c][f] = credit[c][f]
    BY <1>5, <2>4, SendDataEffect DEF SolicitedData
  <2>6. PendingIsAbsent'
    BY <2>1, <2>2 DEF Table, PendingIsAbsent
  <2>7. PendingWasForwarded'
    BY <2>2, <2>3 DEF Table, PendingWasForwarded
  <2>8. \A f \in PIT[c].interfaces : credit[c][f] >= 1
    BY <2>4 DEF Table, WaitingHasCredit
  <2>9. \A d \in Chunk, f \in Face : credit[d][f] \in Int /\ credit[d][f] >= 0
    BY DEF TypeOK, Table, FlowBalance
  <2>10. \A f \in Face : credit'[c][f] >= 0
    BY <2>4, <2>5, <2>8, <2>9
  <2>11. FlowBalance'
    BY <2>5, <2>9, <2>10 DEF FlowBalance
  <2>12. WaitingHasCredit'
    BY <2>2, <2>5 DEF Table, WaitingHasCredit
  <2> QED
    BY <2>6, <2>7, <2>11, <2>12 DEF Table
<1>6. ASSUME NEW c \in Chunk, UnsolicitedData(c) PROVE Table'
  <2>1. PIT' = PIT /\ CS' = CS /\ credit' = credit /\ PIT[c] = NoEntry
    BY <1>6 DEF UnsolicitedData
  <2>2. refused' = refused \ {c} /\ \A d \in Chunk \ {c} : upstream'[d] = upstream[d]
    BY <1>6 DEF UnsolicitedData, TypeOK
  <2>3. PendingWasForwarded'
    BY <2>1, <2>2 DEF Table, PendingWasForwarded
  <2> QED
    BY <2>1, <2>3 DEF Table, PendingIsAbsent, FlowBalance, WaitingHasCredit
<1>7. ASSUME NEW c \in Chunk, EntryAges(c) PROVE Table'
  <2>1. PIT[c] \in PitEntry /\ PIT[c] # NoEntry
    BY <1>7 DEF EntryAges, TypeOK
  <2>2. PIT' = [PIT EXCEPT ![c] = [PIT[c] EXCEPT !.expired = TRUE]]
    BY <1>7 DEF EntryAges
  <2>3. [PIT[c] EXCEPT !.expired = TRUE].interfaces = PIT[c].interfaces
    BY <2>1 DEF PitEntry
  <2>4. \A d \in Chunk : \/ PIT'[d] = PIT[d]
                         \/ PIT[d] # NoEntry /\ PIT'[d].interfaces = PIT[d].interfaces
    BY <2>1, <2>2, <2>3 DEF TypeOK
  <2> QED
    BY <1>7, <2>4, TableFramed DEF EntryAges
<1>8. CASE ContentsLeave
  BY <1>8, TableFramed DEF ContentsLeave
<1>9. CASE ClearStat
  BY <1>9, TableFramed DEF ClearStat
<1>10. CASE UNCHANGED vars
  BY <1>10, TableFramed DEF vars
<1>11. QED
  BY <1>1, <1>2, <1>3, <1>4, <1>5, <1>6, <1>7, <1>8, <1>9, <1>10, NextCases

-----------------------------------------------------------------------------
(***************************************************************************)
(* The balances of the counters.                                           *)
(***************************************************************************)
LEMMA BalancesStep == TypeOK /\ Balances /\ [Next]_vars => Balances'
<1> SUFFICES ASSUME TypeOK, Balances, [Next]_vars PROVE Balances'
  OBVIOUS
<1> USE DEF pitVars, debugVars, storeVars, counterVars
<1> USE DEF Balances, InterestAccounting, LookupAccounting, DecisionBound
<1>0. /\ interests \in Nat /\ data \in Nat /\ repo_load \in Nat
      /\ unsolicited_data \in Nat /\ discarded_interests \in Nat
      /\ unsatisfied_interests \in Nat /\ interests_satisfied_by_cache \in Nat
      /\ hit \in Nat /\ miss \in Nat
      /\ decision_yes \in Nat /\ decision_no \in Nat
  BY DEF TypeOK
<1>1. CASE DiscardInterest
  BY <1>1 DEF TypeOK, DiscardInterest, ReceiveInterest
<1>2. ASSUME NEW c \in Chunk, SatisfyFromCache(c) PROVE Balances'
  BY <1>2 DEF TypeOK, SatisfyFromCache, ReceiveInterest
<1>3. ASSUME NEW c \in Chunk, NEW cacheable \in CacheableVerdicts,
             SatisfyFromRepo(c, cacheable)
      PROVE Balances'
  <2>1. \/ decision_yes' = decision_yes /\ decision_no' = decision_no
        \/ OneDecision
    BY <1>3, RepoEffect
  <2>2. /\ interests' = interests + 1 /\ repo_load' = repo_load + 1
        /\ miss' = miss + 1
        /\ data' = data /\ hit' = hit
        /\ unsolicited_data' = unsolicited_data
        /\ discarded_interests' = discarded_interests
        /\ unsatisfied_interests' = unsatisfied_interests
        /\ interests_satisfied_by_cache' = interests_satisfied_by_cache
    BY <1>3 DEF SatisfyFromRepo, ReceiveInterest
  <2> QED
    BY <1>0, <2>1, <2>2 DEF OneDecision
<1>4. ASSUME NEW f \in Face, NEW c \in Chunk, NEW cacheable \in CacheableVerdicts,
             NEW nfound \in BOOLEAN, NEW toMe \in BOOLEAN, NEW aggregate \in BOOLEAN,
             NEW decision \in Decisions,
             WaitInPit(f, c, cacheable, nfound, toMe, aggregate, decision)
      PROVE Balances'
  <2>1. /\ interests' = interests + 1 /\ miss' = miss + 1
        /\ unsatisfied_interests' = unsatisfied_interests + 1
        /\ UNCHANGED <<data, repo_load, unsolicited_data, discarded_interests,
                       interests_satisfied_by_cache, hit, decision_yes, decision_no>>
    BY <1>4 DEF WaitInPit, ReceiveInterest
  <2> QED
    BY <1>0, <2>1
<1>5. ASSUME NEW c \in Chunk, SolicitedData(c) PROVE Balances'
  <2>1. OneDecision
    BY <1>5, SolicitedEffect
  <2>2. /\ data' = data + 1
        /\ interests' = interests /\ repo_load' = repo_load
        /\ hit' = hit /\ miss' = miss
        /\ unsolicited_data' = unsolicited_data
        /\ discarded_interests' = discarded_interests
        /\ unsatisfied_interests' = unsatisfied_interests
        /\ interests_satisfied_by_cache' = interests_satisfied_by_cache
    BY <1>5 DEF SolicitedData, ReceiveData
  <2> QED
    BY <1>0, <2>1, <2>2 DEF OneDecision
<1>6. ASSUME NEW c \in Chunk, UnsolicitedData(c) PROVE Balances'
  BY <1>6 DEF TypeOK, UnsolicitedData, ReceiveData
<1>7. ASSUME NEW c \in Chunk, EntryAges(c) PROVE Balances'
  BY <1>7 DEF EntryAges
<1>8. CASE ContentsLeave
  BY <1>8 DEF ContentsLeave
<1>9. CASE ClearStat
  BY <1>9 DEF ClearStat
<1>10. CASE UNCHANGED vars
  BY <1>10 DEF vars
<1>11. QED
  BY <1>1, <1>2, <1>3, <1>4, <1>5, <1>6, <1>7, <1>8, <1>9, <1>10, NextCases

\* A policy that is not two-layer decides on every chunk it is given, and the
\* third balance is exact.
LEMMA DecisionStep ==
  TypeOK /\ ~TwoLayer /\ DecisionAccounting /\ [Next]_vars => DecisionAccounting'
<1> SUFFICES ASSUME TypeOK, ~TwoLayer, DecisionAccounting, [Next]_vars
             PROVE DecisionAccounting'
  OBVIOUS
<1> USE DEF pitVars, debugVars, storeVars, counterVars
<1> USE DEF DecisionAccounting
<1>0. /\ data \in Nat /\ repo_load \in Nat /\ unsolicited_data \in Nat
      /\ decision_yes \in Nat /\ decision_no \in Nat
  BY DEF TypeOK
<1>1. CASE DiscardInterest
  BY <1>1 DEF DiscardInterest, ReceiveInterest
<1>2. ASSUME NEW c \in Chunk, SatisfyFromCache(c) PROVE DecisionAccounting'
  BY <1>2 DEF SatisfyFromCache, ReceiveInterest
<1>3. ASSUME NEW c \in Chunk, NEW cacheable \in CacheableVerdicts,
             SatisfyFromRepo(c, cacheable)
      PROVE DecisionAccounting'
  <2>1. OneDecision
    BY <1>3, RepoEffect
  <2>2. /\ repo_load' = repo_load + 1 /\ data' = data
        /\ unsolicited_data' = unsolicited_data
    BY <1>3 DEF SatisfyFromRepo, ReceiveInterest
  <2> QED
    BY <1>0, <2>1, <2>2 DEF OneDecision
<1>4. ASSUME NEW f \in Face, NEW c \in Chunk, NEW cacheable \in CacheableVerdicts,
             NEW nfound \in BOOLEAN, NEW toMe \in BOOLEAN, NEW aggregate \in BOOLEAN,
             NEW decision \in Decisions,
             WaitInPit(f, c, cacheable, nfound, toMe, aggregate, decision)
      PROVE DecisionAccounting'
  BY <1>4 DEF WaitInPit, ReceiveInterest
<1>5. ASSUME NEW c \in Chunk, SolicitedData(c) PROVE DecisionAccounting'
  <2>1. OneDecision
    BY <1>5, SolicitedEffect
  <2>2. /\ data' = data + 1 /\ repo_load' = repo_load
        /\ unsolicited_data' = unsolicited_data
    BY <1>5 DEF SolicitedData, ReceiveData
  <2> QED
    BY <1>0, <2>1, <2>2 DEF OneDecision
<1>6. ASSUME NEW c \in Chunk, UnsolicitedData(c) PROVE DecisionAccounting'
  BY <1>0, <1>6 DEF UnsolicitedData, ReceiveData
<1>7. ASSUME NEW c \in Chunk, EntryAges(c) PROVE DecisionAccounting'
  BY <1>7 DEF EntryAges
<1>8. CASE ContentsLeave
  BY <1>8 DEF ContentsLeave
<1>9. CASE ClearStat
  BY <1>9 DEF ClearStat
<1>10. CASE UNCHANGED vars
  BY <1>10 DEF vars
<1>11. QED
  BY <1>1, <1>2, <1>3, <1>4, <1>5, <1>6, <1>7, <1>8, <1>9, <1>10, NextCases

-----------------------------------------------------------------------------
(***************************************************************************)
(* The theorems.                                                           *)
(***************************************************************************)

\* The variables of the node always have their types.
THEOREM TypeCorrect == Spec => []TypeOK
<1>1. TypeOK /\ [Next]_vars => TypeOK'
  BY TypeStep
<1>2. QED
  BY InitType, <1>1, PTL DEF Spec

\* IInv, the strengthening of the safety properties, is inductive.
THEOREM Inductive == Spec => []IInv
<1>1. Init => IInv
  <2> SUFFICES ASSUME Init PROVE IInv
    OBVIOUS
  <2>1. TypeOK
    BY InitType
  <2>2. PendingIsAbsent /\ PendingWasForwarded /\ FlowBalance /\ WaitingHasCredit
    BY DEF Init, PendingIsAbsent, PendingWasForwarded, FlowBalance, WaitingHasCredit
  <2>3. Balances
    BY DEF Init, Balances, InterestAccounting, LookupAccounting, DecisionBound
  <2> QED
    BY <2>1, <2>2, <2>3 DEF IInv
<1>2. IInv /\ [Next]_vars => IInv'
  BY TypeStep, TableStep, BalancesStep DEF IInv, Table
<1>3. QED
  BY <1>1, <1>2, PTL DEF Spec

\* An Interest never waits for a chunk that the content store or the repository
\* of the node holds.
THEOREM PendingIsAbsentHolds == Spec => []PendingIsAbsent
<1>1. IInv => PendingIsAbsent
  BY DEF IInv
<1>2. QED
  BY Inductive, <1>1, PTL

\* A node never sends more Data packets for a chunk on a face than it received
\* Interests for it there.
THEOREM FlowBalanceHolds == Spec => []FlowBalance
<1>1. IInv => FlowBalance
  BY DEF IInv
<1>2. QED
  BY Inductive, <1>1, PTL

\* Whatever waits in the PIT was asked for towards another node since the last
\* Data packet for it, whatever the strategy decides, unless the strategy itself
\* found no face for it since then.
THEOREM PendingWasForwardedHolds == Spec => []PendingWasForwarded
<1>1. IInv => PendingWasForwarded
  BY DEF IInv
<1>2. QED
  BY Inductive, <1>1, PTL

\* The balances of check_if_correct that no decision policy disturbs.
THEOREM AccountingHolds == Spec => []Balances
<1>1. IInv => Balances
  BY DEF IInv
<1>2. QED
  BY Inductive, <1>1, PTL

\* With a two-layer policy the third assertion of check_if_correct is false: the first
\* answer of the repository that the name cache refuses breaks it, since repo_load is
\* counted for it and no decision is.
THEOREM RefusalIsNotCounted ==
  ASSUME TypeOK, DecisionAccounting, NEW c \in Chunk, SatisfyFromRepo(c, FALSE)
  PROVE  ~DecisionAccounting'
<1>1. /\ data \in Nat /\ repo_load \in Nat /\ unsolicited_data \in Nat
      /\ decision_yes \in Nat /\ decision_no \in Nat
  BY DEF TypeOK
<1>2. /\ repo_load' = repo_load + 1 /\ data' = data
      /\ unsolicited_data' = unsolicited_data
      /\ decision_yes' = decision_yes /\ decision_no' = decision_no
  BY DEF SatisfyFromRepo, ReceiveInterest, debugVars
<1>3. QED
  BY <1>1, <1>2 DEF DecisionAccounting

\* It holds with every other policy.
THEOREM DecisionAccountingHolds == ASSUME ~TwoLayer PROVE Spec => []DecisionAccounting
<1>1. Init => DecisionAccounting
  BY DEF Init, DecisionAccounting
<1>2. TypeOK /\ DecisionAccounting /\ [Next]_vars => DecisionAccounting'
  BY DecisionStep
<1>3. QED
  BY TypeCorrect, <1>1, <1>2, PTL DEF Spec
=============================================================================
