---------------------------- MODULE ClientsProofs ----------------------------
(***************************************************************************)
(* Proofs about the clients, for every catalog, every size of the files,   *)
(* and every bound, and about the search that draws contents.              *)
(***************************************************************************)
EXTENDS Clients, FiniteSetTheorems, NaturalsInduction, WellFoundedInduction, TLAPS

-----------------------------------------------------------------------------
(***************************************************************************)
(* The inductive invariant.                                                *)
(***************************************************************************)
Typed ==
  /\ requested \in 0 .. MaxRequests
  /\ current_downloads \subseteq 1 .. requested /\ late \subseteq current_downloads
  /\ name \in [Request -> File] /\ chunk \in [Request -> Nat]
  /\ in_transit \in [Chunk -> 0 .. MaxCopies] /\ tot_chunks \in 0 .. MaxChunks
  /\ classInfo \in Catalogs
  /\ kind \in DOMAIN Requests /\ down \in Nat \ {0}

\* What a download has got, and whether it goes on.
Download(r) ==
  /\ got[r] = [i \in 1 .. chunk[r] |-> i - 1]
  /\ r > requested => chunk[r] = 0
  /\ r \in current_downloads => chunk[r] < Size[name[r]]
  /\ r <= requested /\ r \notin current_downloads => chunk[r] = Size[name[r]]

Downloads == \A r \in Request : Download(r)

\* Nothing comes before something has been asked for.
NothingComes == requested = 0 => \A c \in Chunk : in_transit[c] = 0

\* The requests of the window no packet has come for.
Unopened == {r \in window : got[r] = <<>>}

Window ==
  /\ window \subseteq 1 .. requested
  /\ \A r, q \in window : name[r] = name[q] => r = q
  /\ surplus \in Nat /\ inFlightPkts \in Int
  /\ requested > 0 => inFlightPkts = Cardinality(Unopened) - surplus
  /\ arrival = IF requested = 0 \/ inFlightPkts <= 0 THEN 1 ELSE 0
  /\ currWinSize \in defWinSize .. maxWinSize
  /\ kind # "Window" => window = {} /\ surplus = 0 /\ inFlightPkts = 0

IInv == Typed /\ Downloads /\ NothingComes /\ Window

-----------------------------------------------------------------------------
(***************************************************************************)
(* Lemmas on the helpers.                                                  *)
(***************************************************************************)
LEMMA MinOfTwo ==
  ASSUME NEW a \in Nat, NEW b \in Nat
  PROVE  Min({a, b}) \in Nat /\ Min({a, b}) <= a /\ Min({a, b}) <= b
<1>1. \E x \in {a, b} : \A y \in {a, b} : x <= y
  OBVIOUS
<1>2. Min({a, b}) \in {a, b} /\ \A y \in {a, b} : Min({a, b}) <= y
  BY <1>1, Zenon DEF Min
<1> QED
  BY <1>2

LEMMA SizesAreNumbers == \A n \in File : Size[n] \in Nat /\ Size[n] > 0
BY ClientAssumption

LEMMA ChunkPairs ==
  /\ \A c \in Chunk : c = <<c[1], c[2]>> /\ c[1] \in File /\ c[2] \in Nat
  /\ \A n \in File, k \in Nat : k < Size[n] => <<n, k>> \in Chunk
<1>1. ASSUME NEW c \in Chunk PROVE c = <<c[1], c[2]>> /\ c[1] \in File /\ c[2] \in Nat
  <2>1. PICK n \in File : c \in {n} \X (0 .. Size[n] - 1)
    BY DEF Chunk
  <2> QED
    BY <2>1, SizesAreNumbers
<1>2. ASSUME NEW n \in File, NEW k \in Nat, k < Size[n] PROVE <<n, k>> \in Chunk
  <2>1. <<n, k>> \in {n} \X (0 .. Size[n] - 1)
    BY <1>2, SizesAreNumbers
  <2> QED
    BY <2>1 DEF Chunk
<1> QED
  BY <1>1, <1>2

\* The network is given no more than it takes.
LEMMA SentIsTyped ==
  ASSUME NEW traffic \in [Chunk -> Nat], NEW interests \in [Chunk -> Nat],
         SendInterests(traffic, interests)
  PROVE  in_transit' \in [Chunk -> 0 .. MaxCopies]
<1>1. MaxCopies \in Nat
  BY ClientAssumption
<1>2. ASSUME NEW c \in Chunk
      PROVE  Min({traffic[c] + interests[c], MaxCopies}) \in 0 .. MaxCopies
  <2>1. traffic[c] + interests[c] \in Nat
    OBVIOUS
  <2> QED
    BY <1>1, <2>1, MinOfTwo
<1> QED
  BY <1>2 DEF SendInterests

\* How many downloads of a set wait for a chunk is a number.
LEMMA PartsAreFinite ==
  ASSUME NEW S, S \subseteq Request
  PROVE  IsFiniteSet(S) /\ Cardinality(S) \in Nat
<1>1. MaxRequests \in Nat
  BY ClientAssumption
<1>2. IsFiniteSet(Request)
  BY <1>1, FS_Interval DEF Request
<1>3. IsFiniteSet(S)
  BY <1>2, FS_Subset
<1> QED
  BY <1>3, FS_CardinalityType

\* The chunks 0, 1, ... k - 1 and then chunk k.
LEMMA OneMoreChunk ==
  ASSUME NEW k \in Nat
  PROVE  /\ [i \in 1 .. 0 |-> i - 1] = << >>
         /\ Append([i \in 1 .. k |-> i - 1], k) = [i \in 1 .. k + 1 |-> i - 1]
         /\ [i \in 1 .. k + 1 |-> i - 1] # << >>
<1> DEFINE s == [i \in 1 .. k |-> i - 1]
           t == [i \in 1 .. k + 1 |-> i - 1]
<1>1. s \in Seq(Nat) /\ Len(s) = k /\ \A i \in 1 .. k : s[i] = i - 1
  OBVIOUS
<1>2. t \in Seq(Nat) /\ Len(t) = k + 1 /\ \A i \in 1 .. k + 1 : t[i] = i - 1
  OBVIOUS
<1> QED
  BY <1>1, <1>2

-----------------------------------------------------------------------------
(***************************************************************************)
(* The steps of the downloads.                                             *)
(***************************************************************************)
\* So many downloads begin, of the files f.
Begun(m, f) ==
  LET new == requested + 1 .. m IN
  /\ requested' = m /\ m \in requested + 1 .. MaxRequests
  /\ \A r \in new : f[r] \in File
  /\ name' = [r \in Request |-> IF r \in new THEN f[r] ELSE name[r]]
  /\ current_downloads' = current_downloads \cup new
  /\ in_transit' \in [Chunk -> 0 .. MaxCopies]
  /\ UNCHANGED <<chunk, got, late, tot_chunks>>

LEMMA DownloadsBegin ==
  ASSUME Typed, Downloads, NEW m, NEW f, Begun(m, f),
         UNCHANGED <<classInfo, kindVars>>
  PROVE  Typed' /\ Downloads' /\ NothingComes'
<1>1. /\ requested \in Nat /\ m \in Nat /\ MaxRequests \in Nat
      /\ requested < m /\ m <= MaxRequests /\ requested' = m
  BY ClientAssumption DEF Typed, Begun
<1>2. Typed'
  BY <1>1 DEF Typed, Begun, kindVars, Request
<1>3. ASSUME NEW r \in Request PROVE Download(r)'
  <2>1. got'[r] = got[r] /\ chunk'[r] = chunk[r] /\ Download(r)
    BY DEF Begun, Downloads
  <2>2. r \in Nat
    BY <1>1 DEF Request
  <2>3. CASE r \in requested + 1 .. m
    <3>1. /\ name'[r] = f[r] /\ f[r] \in File /\ r \in current_downloads'
          /\ r > requested /\ r <= m
      BY <1>1, <2>2, <2>3 DEF Begun
    <3>2. chunk[r] = 0 /\ chunk[r] < Size[f[r]]
      BY <1>1, <2>1, <3>1, SizesAreNumbers DEF Download
    <3> QED
      BY <1>1, <2>1, <3>1, <3>2 DEF Download
  <2>4. CASE r \notin requested + 1 .. m
    <3>1. /\ name'[r] = name[r] /\ (r \in current_downloads' <=> r \in current_downloads)
          /\ (r > m => r > requested) /\ (r <= m => r <= requested)
      BY <1>1, <2>2, <2>4 DEF Begun
    <3> QED
      BY <1>1, <2>1, <3>1 DEF Download
  <2> QED
    BY <2>3, <2>4
<1> QED
  BY <1>1, <1>2, <1>3 DEF Downloads, NothingComes

LEMMA FileBegins ==
  ASSUME Typed, NEW n \in File, RequestFile(n)
  PROVE  Begun(requested + 1, [r \in {requested + 1} |-> n])
<1>1. MaxRequests \in Nat /\ requested \in Nat /\ requested < MaxRequests
      /\ requested' = requested + 1
  BY ClientAssumption DEF RequestFile, Typed
<1>2. requested + 1 .. requested + 1 = {requested + 1}
  BY <1>1
<1> DEFINE interests == [c \in Chunk |-> IF c = <<n, 0>> THEN 1 ELSE 0]
<1>3. in_transit \in [Chunk -> Nat] /\ interests \in [Chunk -> Nat]
  BY ClientAssumption DEF Typed
<1>4. SendInterests(in_transit, interests)
  BY DEF RequestFile
<1> HIDE DEF interests
<1>5. in_transit' \in [Chunk -> 0 .. MaxCopies]
  BY <1>3, <1>4, SentIsTyped
<1>6. name' = [r \in Request |-> IF r \in {requested + 1} THEN n ELSE name[r]]
  BY <1>1 DEF RequestFile, Typed
<1>7. PICK f : f = [r \in {requested + 1} |-> n]
  OBVIOUS
<1>8. name' = [r \in Request |-> IF r \in {requested + 1} THEN f[r] ELSE name[r]]
  BY <1>6, <1>7
<1>9. current_downloads' = current_downloads \cup {requested + 1}
  BY <1>1 DEF RequestFile
<1>10. \A r \in {requested + 1} : f[r] \in File
  BY <1>7
<1>11. requested + 1 \in requested + 1 .. MaxRequests
  BY <1>1
<1>12. UNCHANGED <<chunk, got, late, tot_chunks>>
  BY DEF RequestFile
<1>13. Begun(requested + 1, f)
  BY <1>1, <1>2, <1>5, <1>8, <1>9, <1>10, <1>11, <1>12 DEF Begun
<1> QED
  BY <1>7, <1>13

LEMMA WindowBegins ==
  ASSUME Typed, Window, RequestWindow
  PROVE  /\ \E f : Begun(requested + currWinSize, f)
         /\ window' = requested + 1 .. requested + currWinSize
         /\ \A r, q \in window' : name'[r] = name'[q] => r = q
<1>1. /\ MaxRequests \in Nat /\ requested \in Nat /\ currWinSize \in Nat /\ currWinSize > 0
      /\ requested + currWinSize <= MaxRequests
  BY ClientAssumption, WindowAssumption DEF RequestWindow, Typed, Window
<1>2. PICK new : new = requested + 1 .. requested + currWinSize
  OBVIOUS
<1>3. new \subseteq Request
  BY <1>1, <1>2 DEF Request
<1>4. PICK f \in FilesOfWindow(new) :
        /\ name' = [r \in Request |-> IF r \in new THEN f[r] ELSE name[r]]
        /\ SendInterests(in_transit,
             [c \in Chunk |-> Cardinality({r \in new : <<f[r], 0>> = c})])
  BY <1>2 DEF RequestWindow
<1>5. f \in [new -> File] /\ \A r, q \in new : f[r] = f[q] => r = q
  BY <1>4 DEF FilesOfWindow
<1> DEFINE interests == [c \in Chunk |-> Cardinality({r \in new : <<f[r], 0>> = c})]
<1>6. interests \in [Chunk -> Nat]
  BY <1>3, PartsAreFinite
<1>7. in_transit \in [Chunk -> Nat]
  BY ClientAssumption DEF Typed
<1>8. SendInterests(in_transit, interests)
  BY <1>4
<1> HIDE DEF interests
<1>9. in_transit' \in [Chunk -> 0 .. MaxCopies]
  BY <1>6, <1>7, <1>8, SentIsTyped
<1>10. Begun(requested + currWinSize, f)
  BY <1>1, <1>2, <1>4, <1>5, <1>9 DEF Begun, RequestWindow
<1>11. window' = new
  BY <1>2 DEF RequestWindow
<1>12. \A r \in new : name'[r] = f[r]
  BY <1>3, <1>4
<1> QED
  BY <1>2, <1>5, <1>10, <1>11, <1>12

\* What a Data packet does to a download.
LEMMA DownloadGoesOn ==
  ASSUME Typed, Downloads, NEW n \in File, NEW k \in Nat, HandleIncomingChunk(n, k),
         NEW r \in Request
  PROVE  /\ Download(r)'
         /\ IF r \in Served(n, k) THEN chunk'[r] = k + 1 /\ got'[r] # <<>>
                                  ELSE chunk'[r] = chunk[r] /\ got'[r] = got[r]
<1>0. /\ Download(r) /\ chunk[r] \in Nat /\ requested' = requested /\ name' = name
      /\ requested \in Nat /\ r \in Nat
  BY SMTT(20) DEF Downloads, Typed, HandleIncomingChunk, Request
<1>1. CASE r \in Served(n, k)
  <2>1. r \in current_downloads /\ name[r] = n /\ chunk[r] = k
    BY <1>1 DEF Served
  <2>2. chunk'[r] = k + 1 /\ got'[r] = Append(got[r], k)
    BY <1>1, <2>1 DEF HandleIncomingChunk
  <2>3. got[r] = [i \in 1 .. k |-> i - 1] /\ k < Size[n] /\ r <= requested
    BY <1>0, <2>1 DEF Download, Typed
  <2>4. got'[r] = [i \in 1 .. k + 1 |-> i - 1] /\ got'[r] # <<>>
    BY <2>2, <2>3, OneMoreChunk
  <2>5. CASE IsLast(n, k)
    <3>1. k + 1 = Size[n]
      BY <2>3, <2>5, SizesAreNumbers DEF IsLast
    <3>2. r \notin current_downloads'
      BY <1>1, <2>5 DEF HandleIncomingChunk, Ended
    <3> QED
      BY <1>0, <1>1, <2>1, <2>2, <2>3, <2>4, <3>1, <3>2, SMTT(20) DEF Download
  <2>6. CASE ~IsLast(n, k)
    <3>1. k + 1 < Size[n]
      BY <2>6, SizesAreNumbers DEF IsLast
    <3>2. r \in current_downloads'
      BY <2>1, <2>6 DEF HandleIncomingChunk, Ended
    <3> QED
      BY <1>0, <1>1, <2>1, <2>2, <2>3, <2>4, <3>1, <3>2 DEF Download
  <2> QED
    BY <2>5, <2>6
<1>2. CASE r \notin Served(n, k)
  <2>1. chunk'[r] = chunk[r] /\ got'[r] = got[r]
    BY <1>2 DEF HandleIncomingChunk
  <2>2. r \in current_downloads' <=> r \in current_downloads
    BY <1>2 DEF HandleIncomingChunk, Ended
  <2> QED
    BY <1>0, <1>2, <2>1, <2>2 DEF Download
<1> QED
  BY <1>1, <1>2

LEMMA ChunkComes ==
  ASSUME Typed, Downloads, NothingComes, NEW n \in File, NEW k \in Nat, <<n, k>> \in Chunk,
         HandleIncomingChunk(n, k), UNCHANGED <<classInfo, kindVars>>
  PROVE  Typed' /\ Downloads' /\ NothingComes' /\ requested > 0
<1>1. MaxChunks \in Nat /\ requested \in Nat /\ in_transit[<<n, k>>] > 0
  BY ClientAssumption DEF HandleIncomingChunk, Typed
<1>2. requested > 0
  BY <1>1 DEF NothingComes
<1>3. Downloads'
  BY DownloadGoesOn DEF Downloads
<1>4. tot_chunks' \in 0 .. MaxChunks
  <2>1. tot_chunks + 1 \in Nat /\ tot_chunks' = Min({tot_chunks + 1, MaxChunks})
    BY DEF Typed, HandleIncomingChunk
  <2> QED
    BY <1>1, <2>1, MinOfTwo
<1>5. Served(n, k) \subseteq Request
  <2>1. MaxRequests \in Nat /\ requested <= MaxRequests
    BY ClientAssumption DEF Typed
  <2>2. 1 .. requested \subseteq Request
    BY <1>1, <2>1 DEF Request
  <2> QED
    BY <2>2 DEF Served, Typed
<1>6. in_transit' \in [Chunk -> 0 .. MaxCopies]
  <2> DEFINE traffic == [in_transit EXCEPT ![<<n, k>>] = @ - 1]
  <2>1. in_transit[<<n, k>>] - 1 \in Nat /\ in_transit \in [Chunk -> Nat]
    BY <1>1, ClientAssumption DEF Typed
  <2>2. traffic \in [Chunk -> Nat]
    BY <2>1
  <2>3. Following(n, k) \in [Chunk -> Nat]
    BY <1>5, PartsAreFinite DEF Following
  <2>4. SendInterests(traffic, Following(n, k))
    BY DEF HandleIncomingChunk
  <2> HIDE DEF traffic
  <2> QED
    BY <2>2, <2>3, <2>4, SentIsTyped
<1>7. chunk' \in [Request -> Nat]
  BY DEF Typed, HandleIncomingChunk
<1>8. current_downloads' \subseteq 1 .. requested' /\ late' \subseteq current_downloads'
  BY DEF Typed, HandleIncomingChunk, Ended
<1>9. Typed'
  BY <1>4, <1>6, <1>7, <1>8 DEF Typed, HandleIncomingChunk, kindVars
<1> QED
  BY <1>1, <1>2, <1>3, <1>9 DEF NothingComes, HandleIncomingChunk

-----------------------------------------------------------------------------
(***************************************************************************)
(* The steps of the window.                                                *)
(***************************************************************************)
\* A client without windows keeps its count.
LEMMA NoWindowStays ==
  ASSUME Window, kind # "Window", UNCHANGED <<windowVars, kindVars>>, requested' \in Nat,
         requested \in Nat
  PROVE  Window'
<1>1. window = {} /\ surplus = 0 /\ inFlightPkts = 0 /\ arrival = 1
  BY DEF Window
<1>2. /\ window' = {} /\ surplus' = 0 /\ inFlightPkts' = 0 /\ arrival' = 1
      /\ currWinSize' = currWinSize /\ kind' = kind
  BY <1>1 DEF windowVars, kindVars
<1>3. Unopened' = {}
  BY <1>2 DEF Unopened
<1>4. Cardinality(Unopened') = 0
  BY <1>3, FS_EmptySet
<1>5. currWinSize' \in defWinSize .. maxWinSize
  BY <1>2 DEF Window
<1> QED
  BY <1>2, <1>4, <1>5 DEF Window

\* A step that is not the window's own.
LEMMA WindowStays ==
  ASSUME Window, UNCHANGED <<downloadVars, inFlightPkts, arrival, window, surplus, kindVars>>,
         currWinSize' \in defWinSize .. maxWinSize
  PROVE  Window'
<1>1. UNCHANGED <<requested, name, got, inFlightPkts, arrival, window, surplus, kind>>
  BY DEF downloadVars, kindVars
<1>2. Unopened' = Unopened
  BY <1>1 DEF Unopened
<1> QED
  BY <1>1, <1>2 DEF Window

\* A new window is counted from its size.
LEMMA WindowOpens ==
  ASSUME Typed, Downloads, Window, RequestWindow, kind = "Window", UNCHANGED kindVars
  PROVE  Window'
<1>1. /\ MaxRequests \in Nat /\ requested \in Nat /\ currWinSize \in Nat /\ currWinSize > 0
      /\ requested' = requested + currWinSize /\ requested' <= MaxRequests
      /\ kind' = kind /\ currWinSize' = currWinSize /\ got' = got /\ surplus' = 0
      /\ inFlightPkts' = currWinSize /\ arrival' = arrival - 1 /\ arrival > 0
  BY ClientAssumption, WindowAssumption DEF RequestWindow, Typed, Window, kindVars
<1>2. /\ window' = requested + 1 .. requested + currWinSize
      /\ \A r, q \in window' : name'[r] = name'[q] => r = q
  BY WindowBegins
<1>3. ASSUME NEW r \in window' PROVE got'[r] = <<>> /\ r \in 1 .. requested'
  <2>1. r \in Request /\ r > requested /\ r \in 1 .. requested'
    BY <1>1, <1>2, <1>3 DEF Request
  <2>2. got[r] = [i \in 1 .. 0 |-> i - 1]
    BY <2>1 DEF Downloads, Download
  <2> QED
    BY <1>1, <2>1, <2>2, OneMoreChunk
<1>4. Unopened' = window'
  BY <1>3 DEF Unopened
<1>5. Cardinality(Unopened') = currWinSize
  <2>1. Cardinality(requested + 1 .. requested + currWinSize) = currWinSize
    BY <1>1, FS_Interval
  <2> QED
    BY <1>2, <1>4, <2>1
<1>6. arrival' = 0
  BY <1>1 DEF Window
<1>7. window' \subseteq 1 .. requested'
  BY <1>3
<1>8. currWinSize' \in defWinSize .. maxWinSize
  BY <1>1 DEF Window
<1> QED
  BY <1>1, <1>2, <1>5, <1>6, <1>7, <1>8 DEF Window

\* A packet takes one request of the window off the count, or is one too many.
LEMMA PacketIsCounted ==
  ASSUME Typed, Downloads, Window, requested > 0, NEW n \in File, NEW k \in Nat,
         ReceiveData(n, k), kind = "Window", UNCHANGED kindVars
  PROVE  Window'
<1>1. /\ HandleIncomingChunk(n, k) /\ window' = window /\ requested' = requested
      /\ name' = name /\ kind' = kind /\ inFlightPkts' = inFlightPkts - 1
  BY DEF ReceiveData, HandleIncomingChunk, kindVars, Flown
<1>2. window \subseteq Request
  <2>1. MaxRequests \in Nat /\ requested <= MaxRequests /\ requested \in Nat
    BY ClientAssumption DEF Typed
  <2>2. 1 .. requested \subseteq Request
    BY <2>1 DEF Request
  <2> QED
    BY <2>2 DEF Window
<1>3. \A r \in window : IF r \in Served(n, k) THEN got'[r] # <<>> ELSE got'[r] = got[r]
  BY <1>1, <1>2, DownloadGoesOn
<1>4. Unopened' = Unopened \ Served(n, k)
  BY <1>1, <1>3 DEF Unopened
<1>5. \A r, q \in window \cap Served(n, k) : r = q
  BY DEF Window, Served
<1>6. IsFiniteSet(Unopened)
  BY <1>2, PartsAreFinite DEF Unopened
<1>7. Cardinality(Unopened) \in Nat
  BY <1>6, FS_CardinalityType
<1>8. /\ surplus' \in Nat
      /\ Cardinality(Unopened') - surplus' = Cardinality(Unopened) - surplus - 1
  <2>1. CASE Opens(n, k)
    <3>1. PICK r \in window \cap Served(n, k) : got[r] = <<>>
      BY <2>1 DEF Opens
    <3>2. r \in Unopened /\ Unopened' = Unopened \ {r}
      BY <1>4, <1>5, <3>1 DEF Unopened
    <3>3. Cardinality(Unopened') = Cardinality(Unopened) - 1
      BY <1>6, <3>2, FS_RemoveElement
    <3> QED
      BY <1>7, <2>1, <3>3 DEF ReceiveData, Window
  <2>2. CASE ~Opens(n, k)
    <3>1. Unopened' = Unopened
      BY <1>4, <2>2 DEF Opens, Unopened
    <3> QED
      BY <1>7, <2>2, <3>1 DEF ReceiveData, Window
  <2> QED
    BY <2>1, <2>2
<1>9. /\ inFlightPkts \in Int /\ surplus \in Nat /\ requested \in Nat
      /\ inFlightPkts = Cardinality(Unopened) - surplus
      /\ arrival = IF inFlightPkts <= 0 THEN 1 ELSE 0
  BY DEF Window, Typed
<1>10. inFlightPkts' \in Int /\ inFlightPkts' = Cardinality(Unopened') - surplus'
  BY <1>1, <1>7, <1>8, <1>9
<1>11. arrival' = IF inFlightPkts' <= 0 THEN 1 ELSE 0
  BY <1>1, <1>9 DEF ReceiveData, Due
<1>12. currWinSize' \in defWinSize .. maxWinSize
  BY WindowAssumption DEF ReceiveData, Grown, Window
<1> QED
  BY <1>1, <1>8, <1>9, <1>10, <1>11, <1>12 DEF Window

-----------------------------------------------------------------------------
(***************************************************************************)
(* Recursive functions.  None of the theorems of the library on recursion  *)
(* can be used here, as they take operators; two cases are enough.         *)
(***************************************************************************)
\* Induction over the natural numbers: a set of them has a least element.
LEMMA LeastNat ==
  ASSUME NEW T, T \subseteq Nat, T # {}
  PROVE  \E n \in T : \A m \in T : n <= m
<1>1. \E n \in T : \A m \in T : ~(<<m, n>> \in OpToRel(<, Nat))
  BY NatLessThanWellFounded, WFMin, Zenon
<1>2. \A m \in Nat, n \in Nat : m < n => <<m, n>> \in OpToRel(<, Nat)
  BY Zenon DEF OpToRel
<1>3. \A m \in Nat, n \in Nat : ~(m < n) => n <= m
  OBVIOUS
<1> QED
  BY <1>1, <1>2, <1>3, Zenon

\* The sums of the first numbers of a sequence.
SumsOf(w, n, f) == f = [i \in 0 .. n |-> IF i = 0 THEN 0 ELSE f[i - 1] + w[i]]

LEMMA SumsExist ==
  ASSUME NEW n \in Nat, NEW w \in [1 .. n -> Nat]
  PROVE  \E f \in [0 .. n -> Nat] : SumsOf(w, n, f)
<1> DEFINE T == {k \in 0 .. n : ~ \E f \in [0 .. k -> Nat] : SumsOf(w, k, f)}
<1>1. T = {}
  <2> SUFFICES ASSUME T # {} PROVE FALSE
    OBVIOUS
  <2>1. PICK k \in T : \A m \in T : k <= m
    <3>1. T \subseteq Nat
      OBVIOUS
    <3> HIDE DEF T
    <3> QED
      BY <3>1, LeastNat
  <2>2. CASE k = 0
    <3>1. SumsOf(w, 0, [i \in 0 .. 0 |-> 0])
      BY DEF SumsOf
    <3> QED
      BY <2>1, <2>2, <3>1
  <2>3. CASE k # 0
    <3>0. k \in 0 .. n
      BY <2>1
    <3>9. k - 1 \in 0 .. n /\ k \in 1 .. n /\ ~(k <= k - 1)
      BY <2>3, <3>0
    <3>1. k - 1 \in 0 .. n /\ k - 1 \notin T /\ k \in 1 .. n
      <4> HIDE DEF T
      <4> QED
        BY <2>1, <3>9
    <3>2. PICK f \in [0 .. k - 1 -> Nat] : SumsOf(w, k - 1, f)
      BY <3>1
    <3>3. \A i \in 0 .. k - 1 : f[i] = IF i = 0 THEN 0 ELSE f[i - 1] + w[i]
      BY <3>2 DEF SumsOf
    <3>4. PICK g : g = [i \in 0 .. k |-> IF i = k THEN f[k - 1] + w[k] ELSE f[i]]
      OBVIOUS
    <3>5. f[k - 1] + w[k] \in Nat
      BY <3>1, <3>2
    <3>6. g \in [0 .. k -> Nat]
      BY <3>1, <3>2, <3>4, <3>5
    <3>7. ASSUME NEW i \in 0 .. k PROVE g[i] = IF i = 0 THEN 0 ELSE g[i - 1] + w[i]
      <4>1. CASE i = k
        <5>1. g[i - 1] = f[k - 1] /\ g[i] = f[k - 1] + w[k]
          BY <3>1, <3>4, <4>1
        <5> QED
          BY <3>1, <4>1, <5>1
      <4>2. CASE i # k
        <5>1. i \in 0 .. k - 1 /\ g[i] = f[i] /\ (i # 0 => g[i - 1] = f[i - 1])
          BY <3>1, <3>4, <4>2
        <5> QED
          BY <3>3, <5>1
      <4> QED
        BY <4>1, <4>2
    <3>8. SumsOf(w, k, g)
      BY <3>6, <3>7 DEF SumsOf
    <3> QED
      BY <2>1, <3>6, <3>8
  <2> QED
    BY <2>2, <2>3
<1>2. n \in 0 .. n
  OBVIOUS
<1> QED
  BY <1>1, <1>2

LEMMA SumsAreNumbers ==
  ASSUME NEW n \in Nat, NEW w \in [1 .. n -> Nat], NEW f, SumsOf(w, n, f)
  PROVE  f \in [0 .. n -> Nat]
<1>1. \A i \in 0 .. n : f[i] = IF i = 0 THEN 0 ELSE f[i - 1] + w[i]
  BY DEF SumsOf
<1>2. \A i \in 0 .. n : f[i] \in Nat
  <2> DEFINE T == {i \in 0 .. n : f[i] \notin Nat}
  <2> SUFFICES ASSUME T # {} PROVE FALSE
    OBVIOUS
  <2>1. T \subseteq Nat
    OBVIOUS
  <2>2. PICK k \in T : \A m \in T : k <= m
    <3> HIDE DEF T
    <3> QED
      BY <2>1, LeastNat
  <2>3. k \in 0 .. n /\ f[k] \notin Nat
    BY <2>2
  <2>4. k # 0
    BY <1>1, <2>3
  <2>5. k - 1 \in 0 .. n /\ ~(k <= k - 1) /\ k \in 1 .. n
    BY <2>3, <2>4
  <2>6. f[k - 1] \in Nat
    BY <2>2, <2>5
  <2> QED
    BY <1>1, <2>3, <2>4, <2>5, <2>6
<1> QED
  BY <1>2 DEF SumsOf

\* What grows from each index to the next grows from each to all that follow.
LEMMA GrowingSteps ==
  ASSUME NEW n \in Nat, NEW c \in [0 .. n -> Int], \A i \in 1 .. n : c[i - 1] < c[i]
  PROVE  \A i, j \in 0 .. n : i < j => c[i] < c[j]
<1> SUFFICES ASSUME NEW i \in 0 .. n,
                    {j \in 0 .. n : i < j /\ ~(c[i] < c[j])} # {} PROVE FALSE
  OBVIOUS
<1>1. PICK j \in {x \in 0 .. n : i < x /\ ~(c[i] < c[x])} :
        \A m \in {x \in 0 .. n : i < x /\ ~(c[i] < c[x])} : j <= m
  <2> DEFINE T == {x \in 0 .. n : i < x /\ ~(c[i] < c[x])}
  <2>1. T \subseteq Nat /\ T # {}
    OBVIOUS
  <2> HIDE DEF T
  <2>2. \E j \in T : \A m \in T : j <= m
    BY <2>1, LeastNat
  <2> QED
    BY <2>2 DEF T
<1>2. j \in 1 .. n /\ j - 1 \in 0 .. n /\ c[j - 1] < c[j]
  OBVIOUS
<1>3. i = j - 1 \/ c[i] < c[j - 1]
  BY <1>1, <1>2
<1> QED
  BY <1>1, <1>2, <1>3

\* A function that looks at its argument, and then answers or asks itself once.
Answers(f, D, S, nx, out) == f = [s \in D |-> IF s \in S THEN out[s] ELSE f[nx[s]]]

\* It exists, even where the questions never end.
LEMMA TailRecursion ==
  ASSUME NEW D, NEW S, NEW nx \in [D -> D], NEW out
  PROVE  \E f : Answers(f, D, S, nx, out)
<1> DEFINE Closed(C) == \A t \in D : t \notin S /\ nx[t] \in C => t \in C
           E == [s \in D |-> {e \in D \cap S : \A C \in SUBSET D : e \in C /\ Closed(C) => s \in C}]
<1>1. ASSUME NEW s \in D, s \in S PROVE E[s] = {s}
  <2>1. s \in E[s]
    BY <1>1
  <2>2. ASSUME NEW e \in E[s], e # s PROVE FALSE
    <3>1. Closed(D \ {s})
      BY <1>1
    <3>2. e \in D \ {s} /\ D \ {s} \in SUBSET D
      BY <2>2
    <3> HIDE DEF Closed
    <3>3. \A C \in SUBSET D : e \in C /\ Closed(C) => s \in C
      BY <2>2
    <3> QED
      BY <3>1, <3>2, <3>3
  <2> QED
    BY <2>1, <2>2
<1>2. ASSUME NEW s \in D, s \notin S PROVE E[s] = E[nx[s]]
  <2>1. nx[s] \in D
    OBVIOUS
  <2>2. ASSUME NEW e \in E[nx[s]] PROVE e \in E[s]
    BY <1>2, <2>1, <2>2
  <2>3. ASSUME NEW e \in E[s] PROVE e \in E[nx[s]]
    <3>1. e \in D \cap S /\ e # s /\ \A C \in SUBSET D : e \in C /\ Closed(C) => s \in C
      BY <1>2, <2>3
    <3>2. ASSUME NEW C \in SUBSET D, e \in C, Closed(C), nx[s] \notin C PROVE FALSE
      <4>1. Closed(C \ {s})
        BY <3>2
      <4>2. e \in C \ {s} /\ C \ {s} \in SUBSET D
        BY <3>1, <3>2
      <4> HIDE DEF Closed
      <4> QED
        BY <3>1, <4>1, <4>2
    <3> QED
      BY <2>1, <3>1, <3>2
  <2> QED
    BY <2>2, <2>3
<1> HIDE DEF E
<1> DEFINE Member(A) == CHOOSE e : e \in A
           f == [s \in D |-> out[Member(E[s])]]
<1>3. ASSUME NEW s \in D PROVE f[s] = IF s \in S THEN out[s] ELSE f[nx[s]]
  <2>1. CASE s \in S
    <3>1. Member({s}) = s
      OBVIOUS
    <3>2. f[s] = out[Member(E[s])]
      OBVIOUS
    <3> HIDE DEF Member, f
    <3> QED
      BY <1>1, <2>1, <3>1, <3>2
  <2>2. CASE s \notin S
    <3>1. nx[s] \in D
      OBVIOUS
    <3> HIDE DEF Member
    <3>2. f[s] = out[Member(E[s])] /\ f[nx[s]] = out[Member(E[nx[s]])]
      BY <3>1
    <3> HIDE DEF f
    <3> QED
      BY <1>2, <2>2, <3>2
  <2> QED
    BY <2>1, <2>2
<1>4. Answers(f, D, S, nx, out)
  BY <1>3 DEF Answers
<1> QED
  BY <1>4

-----------------------------------------------------------------------------
(***************************************************************************)
(* The binary search.                                                      *)
(***************************************************************************)
LEMMA CdfGrows ==
  ASSUME NEW weight \in Seq(Nat \ {0})
  PROVE  /\ Cdf(weight) \in [0 .. Len(weight) -> Int]
         /\ Cdf(weight)[0] = -1
         /\ \A i, j \in 0 .. Len(weight) : i < j => Cdf(weight)[i] < Cdf(weight)[j]
<1> DEFINE n   == Len(weight)
           sum == CHOOSE f : SumsOf(weight, Len(weight), f)
<1>1. n \in Nat /\ weight \in [1 .. n -> Nat] /\ \A i \in 1 .. n : weight[i] > 0
  OBVIOUS
<1>2. SumsOf(weight, n, sum)
  BY <1>1, SumsExist
<1>3. Cdf(weight) = [i \in 0 .. n |-> IF i = 0 THEN -1 ELSE sum[i]]
  BY Zenon DEF Cdf, SumsOf
<1> HIDE DEF sum, n
<1>4. \A i \in 0 .. n : sum[i] = IF i = 0 THEN 0 ELSE sum[i - 1] + weight[i]
  BY <1>2 DEF SumsOf
<1>5. \A i \in 0 .. n : sum[i] \in Nat
  BY <1>1, <1>2, SumsAreNumbers
<1>6. Cdf(weight) \in [0 .. n -> Int] /\ Cdf(weight)[0] = -1
  BY <1>1, <1>3, <1>5
<1>7. ASSUME NEW i \in 1 .. n PROVE Cdf(weight)[i - 1] < Cdf(weight)[i]
  <2>1. i - 1 \in 0 .. n /\ i \in 0 .. n /\ i # 0
    BY <1>1
  <2>2. Cdf(weight)[i] = sum[i - 1] + weight[i] /\ weight[i] \in Nat /\ weight[i] > 0
    BY <1>1, <1>3, <1>4, <2>1
  <2>3. sum[i - 1] \in Nat
    BY <1>5, <2>1
  <2>4. Cdf(weight)[i - 1] = IF i - 1 = 0 THEN -1 ELSE sum[i - 1]
    BY <1>3, <2>1
  <2> QED
    BY <2>2, <2>3, <2>4
<1> HIDE DEF Cdf
<1>8. \A i, j \in 0 .. n : i < j => Cdf(weight)[i] < Cdf(weight)[j]
  BY <1>1, <1>6, <1>7, GrowingSteps
<1> QED
  BY <1>6, <1>8 DEF n

\* Unsigned numbers.
LEMMA Unsigned ==
  /\ \A x \in 0 .. Word - 1 : x % Word = x /\ (Word + x) % Word = x
  /\ (-1) % Word = Word - 1
  /\ \A x \in Int : x % Word \in 0 .. Word - 1
<1>1. Word \in Nat /\ Word > 0
  BY ZipfAssumption
<1> QED
  BY <1>1

\* The search, a step at a time: where it is next, and when it is there.
Tried(s)           == ((s[1] + s[2] + 1) % Word) \div 2
Narrowed(cdf, p, s) ==
  IF AtLeast(cdf[Tried(s)], p) THEN <<s[1], Tried(s), Tried(s)>>
                               ELSE <<(Tried(s) - 1) % Word, s[2], Tried(s)>>

Triples == Nat \X Nat \X Nat

LEMMA SearchSteps ==
  ASSUME NEW cdf, NEW p, NEW last
  PROVE  \E f : /\ Value(cdf, last, p) = f[<<Word - 1, last, Word - 1>>]
                /\ \A s \in Triples :
                     f[s] = IF Tried(s) = s[3] THEN s[2] ELSE f[Narrowed(cdf, p, s)]
<1>1. Word \in Nat /\ Word > 0
  BY ZipfAssumption
<1>2. ASSUME NEW s \in Triples PROVE Tried(s) \in Nat /\ Narrowed(cdf, p, s) \in Triples
  <2>1. s[1] \in Nat /\ s[2] \in Nat
    BY DEF Triples
  <2>2. (s[1] + s[2] + 1) % Word \in Nat
    BY <2>1, Unsigned
  <2>3. Tried(s) \in Nat
    BY <2>2 DEF Tried
  <2>4. (Tried(s) - 1) % Word \in Nat
    BY <1>1, <2>3, Unsigned
  <2> QED
    BY <2>1, <2>3, <2>4 DEF Narrowed, Triples
<1>3. PICK Stop, nx, out : /\ Stop = {s \in Triples : Tried(s) = s[3]}
                           /\ nx = [s \in Triples |-> Narrowed(cdf, p, s)]
                           /\ out = [s \in Triples |-> s[2]]
  OBVIOUS
<1> DEFINE Search(f) == f = [s \in Triples |-> IF Tried(s) = s[3] THEN s[2]
                                               ELSE f[Narrowed(cdf, p, s)]]
<1>4. \E f : Search(f)
  <2>1. nx \in [Triples -> Triples]
    BY <1>2, <1>3
  <2>2. PICK f : Answers(f, Triples, Stop, nx, out)
    BY <2>1, TailRecursion
  <2>3. f = [s \in Triples |-> IF s \in Stop THEN out[s] ELSE f[nx[s]]]
    BY <2>2 DEF Answers
  <2>4. Search(f)
    BY <1>3, <2>3
  <2> QED
    BY <2>4
<1>5. Value(cdf, last, p) = (CHOOSE f : Search(f))[<<Word - 1, last, Word - 1>>]
  BY Zenon DEF Value, Narrowed, Tried, Triples
<1> HIDE DEF Search
<1>6. PICK f : f = CHOOSE g : Search(g)
  OBVIOUS
<1>7. Search(f) /\ Value(cdf, last, p) = f[<<Word - 1, last, Word - 1>>]
  BY <1>4, <1>5, <1>6, Zenon
<1>8. \A s \in Triples :
        f[s] = IF Tried(s) = s[3] THEN s[2] ELSE f[Narrowed(cdf, p, s)]
  BY <1>7 DEF Search
<1> QED
  BY <1>7, <1>8

\* Where the search is: what is below l + 1 or there is too small, and what is above
\* u - 1 is large enough, as far as there is something above.  It has tried one of
\* the two, if it has tried anything.
Searching(s, l, cdf, p, last) ==
  /\ s \in Triples /\ l \in -1 .. last - 1
  /\ s[1] = l % Word /\ s[2] \in 1 .. last /\ l < s[2]
  /\ cdf[l + 1] < p
  /\ cdf[s[2]] >= p \/ s[2] = last
  /\ s[3] \in {l + 1, s[2], Word - 1}

Distances(s, l) == 2 * (s[2] - l) + (IF s[3] = l + 1 THEN 0 ELSE 1)

LEMMA TriedIsBetween ==
  ASSUME NEW last \in Nat, 2 * last < Word, NEW cdf, NEW p, NEW s, NEW l,
         Searching(s, l, cdf, p, last)
  PROVE  /\ l \in Int /\ s[2] \in Nat /\ Tried(s) \in Nat
         /\ Tried(s) = (l + s[2] + 1) \div 2
         /\ l + 1 <= Tried(s) /\ Tried(s) <= s[2]
<1>1. /\ Word \in Nat /\ Word > 0 /\ l \in Int /\ -1 <= l /\ l < s[2] /\ s[2] \in Nat
      /\ s[2] >= 1 /\ s[2] <= last /\ s[1] = l % Word
  BY ZipfAssumption DEF Searching
<1>2. (s[1] + s[2] + 1) % Word = l + s[2] + 1
  <2>1. CASE l = -1
    <3>1. s[1] = Word - 1 /\ s[2] \in 0 .. Word - 1
      BY <1>1, <2>1, Unsigned
    <3>2. s[1] + s[2] + 1 = Word + s[2]
      BY <1>1, <3>1
    <3> QED
      BY <1>1, <2>1, <3>1, <3>2, Unsigned
  <2>2. CASE l # -1
    <3>1. l \in 0 .. Word - 1 /\ l + s[2] + 1 \in 0 .. Word - 1
      BY <1>1, <2>2
    <3>2. s[1] = l
      BY <1>1, <3>1, Unsigned
    <3> QED
      BY <3>1, <3>2, Unsigned
  <2> QED
    BY <2>1, <2>2
<1>3. Tried(s) = (l + s[2] + 1) \div 2
  BY <1>2 DEF Tried
<1> QED
  BY <1>1, <1>3

LEMMA SearchEnds ==
  ASSUME NEW last \in Nat, 2 * last < Word, NEW cdf \in [0 .. last -> Int], NEW p \in Int,
         \A i, j \in 0 .. last : i < j => cdf[i] < cdf[j],
         NEW s, NEW l, Searching(s, l, cdf, p, last), Tried(s) = s[3]
  PROVE  IsQuantile(s[2], cdf, last, p)
<1>1. PICK u : u = s[2]
  OBVIOUS
<1>2. /\ l \in Int /\ -1 <= l /\ l <= last - 1 /\ l < u /\ u \in 1 .. last
      /\ cdf[l + 1] < p /\ (cdf[u] >= p \/ u = last)
  BY <1>1 DEF Searching
<1>3. Tried(s) = (l + u + 1) \div 2 /\ Tried(s) <= u
  BY <1>1, TriedIsBetween, SMTT(20)
<1>4. Tried(s) \in {l + 1, u}
  BY <1>1, <1>2, <1>3, ZipfAssumption DEF Searching
<1>5. u - 1 <= l + 1
  BY <1>2, <1>3, <1>4
<1>6. cdf[u - 1] < p
  <2>1. u - 1 \in 0 .. last /\ l + 1 \in 0 .. last /\ (u - 1 = l + 1 \/ u - 1 < l + 1)
    BY <1>2, <1>5
  <2>2. cdf[u - 1] <= cdf[l + 1] /\ cdf[u - 1] \in Int /\ cdf[l + 1] \in Int
    BY <2>1
  <2> QED
    BY <1>2, <2>2
<1> QED
  BY <1>1, <1>2, <1>6 DEF IsQuantile

LEMMA SearchNarrows ==
  ASSUME NEW last \in Nat, 2 * last < Word, NEW cdf \in [0 .. last -> Int], NEW p \in Int,
         NEW s, NEW l, Searching(s, l, cdf, p, last), Tried(s) # s[3]
  PROVE  \E m : /\ Searching(Narrowed(cdf, p, s), m, cdf, p, last)
                /\ Distances(Narrowed(cdf, p, s), m) < Distances(s, l)
<1>1. PICK u, t : u = s[2] /\ t = Tried(s)
  OBVIOUS
<1>2. /\ l \in Int /\ -1 <= l /\ l <= last - 1 /\ l < u /\ u \in 1 .. last
      /\ cdf[l + 1] < p /\ (cdf[u] >= p \/ u = last) /\ s[1] = l % Word
      /\ s \in Triples
  BY <1>1 DEF Searching
<1>3. t \in Nat /\ t = (l + u + 1) \div 2 /\ l + 1 <= t /\ t <= u
  BY <1>1, TriedIsBetween
<1>4. Word \in Nat /\ Word > 0
  BY ZipfAssumption
<1>5. CASE cdf[t] >= p
  <2>1. Narrowed(cdf, p, s) = <<s[1], t, t>>
    BY <1>1, <1>5 DEF Narrowed, AtLeast
  <2>2. PICK r : r = <<s[1], t, t>>
    OBVIOUS
  <2>3. l + 1 # t
    <3>1. cdf[t] \in Int
      BY <1>2, <1>3
    <3> QED
      BY <1>2, <1>5, <3>1
  <2>4. t # u
    BY <1>2, <1>3, <2>3
  <2>5. r \in Triples /\ r[1] = s[1] /\ r[2] = t /\ r[3] = t
    BY <1>2, <1>3, <2>2 DEF Triples
  <2>6. Searching(r, l, cdf, p, last)
    BY <1>2, <1>3, <1>5, <2>3, <2>5 DEF Searching
  <2>7. Distances(r, l) < Distances(s, l)
    <3>1. Distances(r, l) = 2 * (t - l) + 1
      BY <2>3, <2>5 DEF Distances
    <3>2. Distances(s, l) = 2 * (u - l) + (IF s[3] = l + 1 THEN 0 ELSE 1)
      BY <1>1 DEF Distances
    <3>3. 2 * (t - l) + 1 < 2 * (u - l)
      BY <1>2, <1>3, <2>4
    <3>4. (IF s[3] = l + 1 THEN 0 ELSE 1) \in {0, 1}
      OBVIOUS
    <3> QED
      BY <1>2, <1>3, <3>1, <3>2, <3>3, <3>4
  <2> QED
    BY <2>1, <2>2, <2>6, <2>7
<1>6. CASE ~(cdf[t] >= p)
  <2>1. Narrowed(cdf, p, s) = <<(t - 1) % Word, u, t>>
    BY <1>1, <1>6 DEF Narrowed, AtLeast
  <2>2. PICK r : r = <<(t - 1) % Word, u, t>>
    OBVIOUS
  <2>3. PICK a \in Nat : a = (t - 1) % Word
    BY <1>3, <1>4, Unsigned
  <2>9. r = <<a, u, t>>
    BY <2>2, <2>3
  <2>4. r \in Triples /\ r[1] = (t - 1) % Word /\ r[2] = u /\ r[3] = t
    <3>1. u \in Nat /\ t \in Nat /\ a \in Nat
      BY <1>2, <1>3
    <3>2. r \in Triples
      BY <2>9, <3>1 DEF Triples
    <3>3. r[1] = a /\ r[2] = u /\ r[3] = t
      BY <2>9
    <3> QED
      BY <2>3, <3>2, <3>3
  <2>5. cdf[t] < p
    <3>1. cdf[t] \in Int
      BY <1>2, <1>3
    <3> QED
      BY <1>6, <3>1
  <2>6. (t - 1) + 1 = t /\ t - 1 \in -1 .. last - 1 /\ t - 1 < u
    BY <1>2, <1>3
  <2>7. Searching(r, t - 1, cdf, p, last)
    BY <1>2, <1>3, <2>4, <2>5, <2>6 DEF Searching
  <2>8. Distances(r, t - 1) < Distances(s, l)
    <3>1. Distances(r, t - 1) = 2 * (u - (t - 1))
      BY <1>2, <1>3, <2>4, <2>6 DEF Distances
    <3>2. Distances(s, l) = 2 * (u - l) + (IF s[3] = l + 1 THEN 0 ELSE 1)
      BY <1>1 DEF Distances
    <3>3. CASE t = l + 1
      <4>1. s[3] # l + 1
        BY <1>1, <3>3
      <4>2. Distances(s, l) = 2 * (u - l) + 1
        BY <3>2, <4>1
      <4> QED
        BY <1>2, <1>3, <3>1, <3>3, <4>2
    <3>4. CASE t # l + 1
      <4>1. 2 * (u - (t - 1)) < 2 * (u - l)
        BY <1>2, <1>3, <3>4
      <4>2. (IF s[3] = l + 1 THEN 0 ELSE 1) \in {0, 1}
        OBVIOUS
      <4> QED
        BY <1>2, <1>3, <3>1, <3>2, <4>1, <4>2
    <3> QED
      BY <3>3, <3>4
  <2> QED
    BY <2>1, <2>2, <2>7, <2>8
<1> QED
  BY <1>5, <1>6

\* The search finds the quantile, however long the table.
LEMMA ValueIsQuantile ==
  ASSUME NEW last \in Nat, last > 0, 2 * last < Word, NEW cdf \in [0 .. last -> Int],
         NEW p \in Nat, cdf[0] < p,
         \A i, j \in 0 .. last : i < j => cdf[i] < cdf[j]
  PROVE  IsQuantile(Value(cdf, last, p), cdf, last, p)
<1>1. PICK f : /\ Value(cdf, last, p) = f[<<Word - 1, last, Word - 1>>]
               /\ \A s \in Triples :
                    f[s] = IF Tried(s) = s[3] THEN s[2] ELSE f[Narrowed(cdf, p, s)]
  BY SearchSteps, SMTT(20)
<1> DEFINE Wrong(s, l) == Searching(s, l, cdf, p, last) /\ ~IsQuantile(f[s], cdf, last, p)
           T == {k \in Nat : \E s, l : Wrong(s, l) /\ k = Distances(s, l)}
<1>2. ASSUME NEW s, NEW l, Searching(s, l, cdf, p, last)
      PROVE  Distances(s, l) \in Nat /\ s \in Triples
  <2>1. s \in Triples /\ l \in Int /\ s[2] \in Int /\ l < s[2]
    BY <1>2 DEF Searching
  <2>2. (IF s[3] = l + 1 THEN 0 ELSE 1) \in {0, 1}
    OBVIOUS
  <2>3. 2 * (s[2] - l) \in Nat
    BY <2>1
  <2>4. PICK d, e : d = 2 * (s[2] - l) /\ e = IF s[3] = l + 1 THEN 0 ELSE 1
    OBVIOUS
  <2>5. Distances(s, l) = d + e
    BY <2>4, Zenon DEF Distances
  <2>6. d \in Nat /\ e \in Nat
    BY <2>2, <2>3, <2>4
  <2> QED
    BY <2>1, <2>5, <2>6
<1>3. ASSUME NEW s, NEW l, Wrong(s, l)
      PROVE  \E r, m : Wrong(r, m) /\ Distances(r, m) < Distances(s, l)
  <2>1. s \in Triples
    BY <1>2, <1>3
  <2>2. Tried(s) # s[3]
    <3>1. Tried(s) = s[3] => f[s] = s[2]
      BY <1>1, <2>1
    <3>2. p \in Int /\ Searching(s, l, cdf, p, last)
      BY <1>3
    <3>3. Tried(s) = s[3] => IsQuantile(s[2], cdf, last, p)
      BY <3>2, SearchEnds
    <3> QED
      BY <1>3, <3>1, <3>3
  <2>3. PICK m : /\ Searching(Narrowed(cdf, p, s), m, cdf, p, last)
                 /\ Distances(Narrowed(cdf, p, s), m) < Distances(s, l)
    BY <1>3, <2>2, SearchNarrows
  <2>4. f[s] = f[Narrowed(cdf, p, s)]
    BY <1>1, <2>1, <2>2
  <2>5. Wrong(Narrowed(cdf, p, s), m)
    BY <1>3, <2>3, <2>4
  <2> QED
    BY <2>3, <2>5
<1>4. T = {}
  <2> SUFFICES ASSUME T # {} PROVE FALSE
    OBVIOUS
  <2>1. PICK k \in T : \A m \in T : k <= m
    <3>1. T \subseteq Nat
      OBVIOUS
    <3> HIDE DEF T
    <3> QED
      BY <3>1, LeastNat
  <2>2. PICK s, l : Wrong(s, l) /\ k = Distances(s, l)
    BY <2>1
  <2>3. PICK r, m : Wrong(r, m) /\ Distances(r, m) < Distances(s, l)
    BY <1>3, <2>2
  <2>4. Distances(r, m) \in Nat /\ k \in Nat
    BY <1>2, <2>1, <2>3
  <2>5. Distances(r, m) \in T
    BY <2>3, <2>4
  <2>6. k <= Distances(r, m)
    BY <2>1, <2>5
  <2> QED
    BY <2>2, <2>3, <2>4, <2>6
<1>5. Searching(<<Word - 1, last, Word - 1>>, -1, cdf, p, last)
  <2>1. Word \in Nat /\ Word > 0
    BY ZipfAssumption
  <2>2. <<Word - 1, last, Word - 1>> \in Triples
    BY <2>1 DEF Triples
  <2> QED
    BY <2>1, <2>2, Unsigned DEF Searching
<1>6. \A s, l : ~Wrong(s, l)
  BY <1>2, <1>4
<1> QED
  BY <1>1, <1>5, <1>6

-----------------------------------------------------------------------------
(***************************************************************************)
(* The catalog of the shot noise model.                                    *)
(***************************************************************************)
\* Every class has a content, and no class so many that their indexes, added up, go
\* beyond an unsigned number.
ClassesAreDrawable ==
  \A classes \in Catalogs : \A i \in DOMAIN classes :
    Len(classes[i].weight) > 0 /\ 2 * Len(classes[i].weight) < Word

LEMMA CatalogTyped ==
  ASSUME NEW classes \in Catalogs
  PROVE  /\ Len(classes) \in Nat /\ DOMAIN classes = 1 .. Len(classes)
         /\ \A i \in DOMAIN classes : /\ classes[i].weight \in Seq(Nat \ {0})
                                      /\ Len(classes[i].weight) \in Nat
<1>1. classes \in Seq(Class)
  BY ShotNoiseAssumption
<1>2. \A i \in DOMAIN classes : classes[i] \in Class
  BY <1>1
<1> QED
  BY <1>1, <1>2 DEF Class

\* The contents of a class follow those of the class before it.
LEMMA ClassesFollow ==
  ASSUME NEW classes \in Catalogs
  PROVE  /\ \A i \in 0 .. Len(classes) : LessPopular(classes, i) \in Nat
         /\ \A i \in DOMAIN classes :
              LessPopular(classes, i) = LessPopular(classes, i - 1) + Len(classes[i].weight)
<1>1. PICK n \in Nat : n = Len(classes)
  BY CatalogTyped
<1>2. PICK w : w = [j \in 1 .. n |-> Len(classes[j].weight)]
  OBVIOUS
<1>3. w \in [1 .. n -> Nat]
  BY <1>1, <1>2, CatalogTyped
<1> DEFINE Sum(f) == f = [j \in 0 .. Len(classes) |->
                            IF j = 0 THEN 0 ELSE f[j - 1] + Len(classes[j].weight)]
<1>4. ASSUME NEW f PROVE Sum(f) <=> SumsOf(w, n, f)
  <2>1. \A j \in 0 .. n : j # 0 => w[j] = Len(classes[j].weight)
    BY <1>2
  <2> QED
    BY <1>1, <2>1 DEF SumsOf
<1>5. \A i : LessPopular(classes, i) = (CHOOSE f : Sum(f))[i]
  BY Zenon DEF LessPopular
<1> HIDE DEF Sum
<1>6. \E f : Sum(f)
  BY <1>3, <1>4, SumsExist
<1>7. PICK f : f = CHOOSE g : Sum(g)
  OBVIOUS
<1>8. Sum(f) /\ \A i : LessPopular(classes, i) = f[i]
  BY <1>5, <1>6, <1>7, Zenon
<1>9. SumsOf(w, n, f)
  BY <1>4, <1>8
<1>10. f \in [0 .. n -> Nat]
  BY <1>3, <1>9, SumsAreNumbers
<1>11. \A i \in 1 .. n : f[i] = f[i - 1] + w[i]
  BY <1>9 DEF SumsOf
<1>12. ASSUME NEW i \in DOMAIN classes
       PROVE  LessPopular(classes, i) = LessPopular(classes, i - 1) + Len(classes[i].weight)
  <2>1. i \in 1 .. n
    BY <1>1, CatalogTyped
  <2>2. f[i] = f[i - 1] + Len(classes[i].weight)
    BY <1>2, <1>11, <2>1
  <2> QED
    BY <1>8, <2>2
<1>13. \A i \in 0 .. Len(classes) : LessPopular(classes, i) \in Nat
  BY <1>1, <1>8, <1>10
<1> QED
  BY <1>12, <1>13

\* What is drawn from a class are its contents.
LEMMA DrawsAreQuantiles ==
  ASSUME ClassesAreDrawable, NEW classes \in Catalogs, NEW i \in DOMAIN classes
  PROVE  LET last == Len(classes[i].weight)
             cdf  == Cdf(classes[i].weight)
         IN /\ \A p \in Draws(cdf, last) : IsQuantile(Value(cdf, last, p), cdf, last, p)
            /\ Drawn(classes, i) = MostPopular(classes, i) .. LessPopular(classes, i)
<1> DEFINE last == Len(classes[i].weight)
           cdf  == Cdf(classes[i].weight)
<1>1. last \in Nat /\ last > 0 /\ 2 * last < Word
  BY CatalogTyped DEF ClassesAreDrawable
<1>2. /\ cdf \in [0 .. last -> Int] /\ cdf[0] = -1
      /\ \A j, k \in 0 .. last : j < k => cdf[j] < cdf[k]
  BY CatalogTyped, CdfGrows
<1>3. PICK base \in Nat : base = MostPopular(classes, i) - 1 /\ LessPopular(classes, i) = base + last
  <2>1. i - 1 \in 0 .. Len(classes)
    BY CatalogTyped
  <2>2. LessPopular(classes, i - 1) \in Nat
    BY <2>1, ClassesFollow
  <2> QED
    BY <2>2, ClassesFollow DEF MostPopular
<1>4. MostPopular(classes, i) .. LessPopular(classes, i) = base + 1 .. base + last
  <2>1. MostPopular(classes, i) = LessPopular(classes, i - 1) + 1
    BY DEF MostPopular
  <2>2. LessPopular(classes, i - 1) \in Nat
    BY CatalogTyped, ClassesFollow
  <2> QED
    BY <1>3, <2>1, <2>2
<1>5. Drawn(classes, i) = {base + Value(cdf, last, p) : p \in Draws(cdf, last)}
  BY <1>3 DEF Drawn
<1> HIDE DEF last, cdf
<1>6. Draws(cdf, last) \subseteq Nat
  BY DEF Draws
<1>7. ASSUME NEW p \in Draws(cdf, last) PROVE IsQuantile(Value(cdf, last, p), cdf, last, p)
  <2>1. p \in Nat /\ cdf[0] < p
    BY <1>2, <1>6
  <2> QED
    BY <1>1, <1>2, <2>1, ValueIsQuantile
<1>8. ASSUME NEW y \in 1 .. last PROVE \E p \in Draws(cdf, last) : Value(cdf, last, p) = y
  <2>1. y \in 0 .. last /\ last \in 0 .. last /\ 0 \in 0 .. last /\ 0 < y /\ (y < last \/ y = last)
    BY <1>1
  <2>2. cdf[y] \in Int /\ cdf[last] \in Int /\ -1 < cdf[y] /\ cdf[y] <= cdf[last]
    BY <1>2, <2>1
  <2>3. cdf[y] \in Draws(cdf, last)
    BY <2>2, ZipfAssumption DEF Draws
  <2>4. PICK z : z = Value(cdf, last, cdf[y])
    OBVIOUS
  <2>5. z \in 1 .. last /\ cdf[z - 1] < cdf[y] /\ (cdf[z] >= cdf[y] \/ z = last)
    BY <1>7, <2>3, <2>4 DEF IsQuantile
  <2>6. z - 1 \in 0 .. last /\ z \in 0 .. last
    BY <1>1, <2>5
  <2>7. ~(y <= z - 1)
    <3>1. y <= z - 1 => y < z - 1 \/ y = z - 1
      BY <2>1, <2>6
    <3>2. cdf[y] <= cdf[z - 1] => ~(cdf[z - 1] < cdf[y])
      BY <1>2, <2>2, <2>6
    <3>3. y <= z - 1 => cdf[y] <= cdf[z - 1]
      BY <1>2, <2>1, <2>2, <2>6, <3>1
    <3> QED
      BY <2>5, <3>2, <3>3
  <2>8. ~(z < y)
    <3>1. z < y => cdf[z] < cdf[y] /\ z # last
      BY <1>1, <1>2, <2>1, <2>6
    <3>2. cdf[z] \in Int
      BY <1>2, <2>6
    <3> QED
      BY <2>2, <2>5, <3>1, <3>2
  <2>9. z = y
    BY <1>1, <2>5, <2>7, <2>8
  <2> QED
    BY <2>3, <2>4, <2>9
<1>9. \A x : x \in Drawn(classes, i) <=> x \in base + 1 .. base + last
  <2>1. ASSUME NEW x \in Drawn(classes, i) PROVE x \in base + 1 .. base + last
    <3>1. PICK p \in Draws(cdf, last) : x = base + Value(cdf, last, p)
      BY <1>5
    <3>2. Value(cdf, last, p) \in 1 .. last
      BY <1>7 DEF IsQuantile
    <3> QED
      BY <1>1, <3>1, <3>2
  <2>2. ASSUME NEW x \in base + 1 .. base + last PROVE x \in Drawn(classes, i)
    <3>1. x - base \in 1 .. last /\ base + (x - base) = x
      BY <1>1
    <3>2. PICK p \in Draws(cdf, last) : Value(cdf, last, p) = x - base
      BY <1>8, <3>1
    <3> QED
      BY <1>5, <3>1, <3>2
  <2> QED
    BY <2>1, <2>2
<1>10. Drawn(classes, i) = MostPopular(classes, i) .. LessPopular(classes, i)
  BY <1>4, <1>9
<1> QED
  BY <1>7, <1>10 DEF last, cdf

\* The classes have more and more contents behind them.
LEMMA CatalogGrows ==
  ASSUME ClassesAreDrawable, NEW classes \in Catalogs
  PROVE  \A j, k \in 0 .. Len(classes) : j < k => LessPopular(classes, j) < LessPopular(classes, k)
<1> DEFINE n == Len(classes)
           c == [j \in 0 .. n |-> LessPopular(classes, j)]
<1>1. n \in Nat
  BY CatalogTyped
<1>2. c \in [0 .. n -> Int]
  BY ClassesFollow
<1>3. ASSUME NEW j \in 1 .. n PROVE c[j - 1] < c[j]
  <2>1. j \in DOMAIN classes /\ j - 1 \in 0 .. n /\ j \in 0 .. n
    BY <1>1, CatalogTyped
  <2>2. /\ LessPopular(classes, j) = LessPopular(classes, j - 1) + Len(classes[j].weight)
        /\ Len(classes[j].weight) > 0 /\ Len(classes[j].weight) \in Nat
        /\ LessPopular(classes, j - 1) \in Nat
    BY <2>1, ClassesFollow, CatalogTyped DEF ClassesAreDrawable
  <2> QED
    BY <2>1, <2>2
<1>4. \A j, k \in 0 .. n : j < k => c[j] < c[k]
  <2> HIDE DEF c, n
  <2> QED
    BY <1>1, <1>2, <1>3, GrowingSteps
<1> QED
  BY <1>4

\* What is drawn are files.
LEMMA DrawnAreFiles ==
  ASSUME ClassesAreDrawable, NEW classes \in Catalogs, NEW i \in DOMAIN classes
  PROVE  Drawn(classes, i) \subseteq File
<1> DEFINE n == Len(classes)
<1>1. n \in Nat /\ i \in 1 .. n
  BY CatalogTyped
<1>5. LessPopular(classes, i) <= LessPopular(classes, n)
  <2>1. i \in 0 .. n /\ n \in 0 .. n /\ (i = n \/ i < n)
    BY <1>1
  <2>2. LessPopular(classes, i) \in Nat /\ LessPopular(classes, n) \in Nat
    BY <2>1, ClassesFollow
  <2> QED
    BY <2>1, <2>2, CatalogGrows
<1>6. MostPopular(classes, i) \in Nat \ {0}
  <2>1. i - 1 \in 0 .. n
    BY <1>1
  <2> QED
    BY <2>1, ClassesFollow DEF MostPopular
<1>7. File = 1 .. LessPopular(classes, n)
  BY ClientsAssumption
<1>8. LessPopular(classes, i) \in Nat /\ LessPopular(classes, n) \in Nat
  BY <1>1, ClassesFollow
<1>9. Drawn(classes, i) = MostPopular(classes, i) .. LessPopular(classes, i)
  BY DrawsAreQuantiles
<1> QED
  BY <1>5, <1>6, <1>7, <1>8, <1>9

-----------------------------------------------------------------------------
(***************************************************************************)
(* The invariant is kept.                                                  *)
(***************************************************************************)
LEMMA Initially == ClientsInit => IInv
<1> SUFFICES ASSUME ClientsInit PROVE IInv
  OBVIOUS
<1>1. /\ requested = 0 /\ current_downloads = {} /\ late = {} /\ tot_chunks = 0
      /\ name = [r \in Request |-> CHOOSE n \in File : TRUE]
      /\ chunk = [r \in Request |-> 0] /\ got = [r \in Request |-> <<>>]
      /\ in_transit = [c \in Chunk |-> 0]
      /\ classInfo \in Catalogs /\ kind \in DOMAIN Requests
      /\ down \in IF kind = "IRM" THEN Downsize ELSE {1}
  BY DEF ClientsInit, Init, ShotNoiseInit
<1>2. (CHOOSE n \in File : TRUE) \in File
  BY ClientAssumption
<1>3. down \in Nat \ {0}
  BY <1>1, ClientsAssumption
<1>4. MaxRequests \in Nat /\ MaxCopies \in Nat /\ MaxChunks \in Nat
  BY ClientAssumption
<1>5. Typed
  BY <1>1, <1>2, <1>3, <1>4 DEF Typed
<1>6. ASSUME NEW r \in Request PROVE Download(r)
  <2>1. r > 0 /\ chunk[r] = 0 /\ got[r] = <<>>
    BY <1>1 DEF Request
  <2>2. got[r] = [i \in 1 .. chunk[r] |-> i - 1]
    BY <2>1, OneMoreChunk
  <2> QED
    BY <1>1, <2>1, <2>2 DEF Download, Request
<1>7. NothingComes
  BY <1>1 DEF NothingComes
<1>8. Window
  <2>1. /\ window = {} /\ surplus = 0 /\ arrival = 1 /\ currWinSize = defWinSize
        /\ inFlightPkts \in {0, 1} /\ (kind # "Window" => inFlightPkts = 0)
    BY DEF ClientsInit, WindowInit
  <2> QED
    BY <1>1, <2>1, WindowAssumption DEF Window
<1> QED
  BY <1>5, <1>6, <1>7, <1>8 DEF IInv, Downloads

\* A file that is asked for alone.
LEMMA FileRequested ==
  ASSUME IInv, kind # "Window", NEW n \in File, RequestFile(n),
         UNCHANGED <<windowVars, kindVars, classInfo>>
  PROVE  IInv'
<1>1. \E f : Begun(requested + 1, f)
  BY FileBegins DEF IInv
<1>2. Typed' /\ Downloads' /\ NothingComes'
  BY <1>1, DownloadsBegin DEF IInv
<1>3. requested \in Nat /\ requested' \in Nat
  BY <1>2, ClientAssumption DEF IInv, Typed
<1>4. Window'
  BY <1>3, NoWindowStays DEF IInv
<1> QED
  BY <1>2, <1>4 DEF IInv

\* A step that neither requests nor receives.
LEMMA DownloadsStay ==
  ASSUME IInv, UNCHANGED <<downloadVars, classInfo, kindVars>>,
         late' \subseteq current_downloads, tot_chunks' \in 0 .. MaxChunks,
         in_transit' \in [Chunk -> 0 .. MaxCopies],
         \A c \in Chunk : in_transit'[c] > in_transit[c] => late # {},
         UNCHANGED <<inFlightPkts, arrival, window, surplus>>,
         currWinSize' \in defWinSize .. maxWinSize
  PROVE  IInv'
<1>1. UNCHANGED <<requested, current_downloads, name, chunk, got, kind, down>>
  BY DEF downloadVars, kindVars
<1>2. Typed'
  BY <1>1 DEF IInv, Typed
<1>3. Downloads'
  BY <1>1 DEF IInv, Downloads, Download
<1>4. NothingComes'
  <2> SUFFICES ASSUME requested = 0, NEW c \in Chunk PROVE in_transit'[c] = 0
    BY <1>1 DEF NothingComes
  <2>1. late = {}
    BY DEF IInv, Typed
  <2>2. in_transit[c] = 0 /\ in_transit'[c] \in Nat /\ ~(in_transit'[c] > in_transit[c])
    BY <2>1, ClientAssumption DEF IInv, NothingComes
  <2> QED
    BY <2>2
<1>5. Window'
  BY WindowStays DEF IInv
<1> QED
  BY <1>2, <1>3, <1>4, <1>5 DEF IInv

LEMMA NothingMoves ==
  ASSUME IInv, UNCHANGED <<vars, windowVars, classInfo, kindVars>>
  PROVE  IInv'
<1>1. /\ UNCHANGED <<downloadVars, late, in_transit, tot_chunks, classInfo, kindVars>>
      /\ UNCHANGED <<inFlightPkts, arrival, window, surplus, currWinSize>>
  BY DEF vars, windowVars
<1>2. /\ in_transit \in [Chunk -> 0 .. MaxCopies] /\ tot_chunks \in 0 .. MaxChunks
      /\ late \subseteq current_downloads /\ currWinSize \in defWinSize .. maxWinSize
      /\ MaxCopies \in Nat
  BY ClientAssumption DEF IInv, Typed, Window
<1>3. \A c \in Chunk : in_transit'[c] > in_transit[c] => late # {}
  BY <1>1, <1>2
<1> QED
  BY <1>1, <1>2, <1>3, DownloadsStay

LEMMA CatalogIsFinite ==
  ASSUME IInv
  PROVE  newCard \in Nat
<1>1. PICK n \in Nat : File = 1 .. n
  <2>1. LessPopular(classInfo, Len(classInfo)) \in Nat
    BY CatalogTyped, ClassesFollow DEF IInv, Typed
  <2> QED
    BY <2>1, ClientsAssumption DEF IInv, Typed
<1> QED
  BY <1>1, FS_Interval, SMTT(20) DEF newCard

LEMMA OwnSteps ==
  ASSUME ClassesAreDrawable, IInv, OwnStep, UNCHANGED kindVars
  PROVE  IInv'
<1>1. /\ Typed /\ classInfo \in Catalogs /\ down \in Nat \ {0} /\ requested \in Nat
      /\ in_transit \in [Chunk -> 0 .. MaxCopies] /\ tot_chunks \in 0 .. MaxChunks
      /\ late \subseteq current_downloads /\ currWinSize \in defWinSize .. maxWinSize
  BY DEF IInv, Typed, Window
<1>2. File = 1 .. newCard
  BY ClientsAssumption DEF newCard
<1>3. ASSUME IrmRequest PROVE IInv'
  <2>1. kind # "Window" /\ UNCHANGED <<windowVars, classInfo>>
    BY <1>3 DEF IrmRequest, shotVars
  <2>2. PICK n : RequestFile(n) /\ n \in 1 .. newCard
    <3>1. ASSUME NEW o \in Sample(down * newCard), MetaContent(o) <= newCard,
                 RequestFile(MetaContent(o))
          PROVE  MetaContent(o) \in 1 .. newCard
      <4>1. newCard \in Nat
        BY CatalogIsFinite
      <4>2. o \in Nat /\ o \div down \in Nat
        BY <1>1, <4>1 DEF Sample
      <4> QED
        BY <3>1, <4>1, <4>2 DEF MetaContent
    <3> QED
      BY <1>3, <3>1 DEF IrmRequest, Sample
  <2> QED
    BY <1>2, <2>1, <2>2, FileRequested
<1>4. ASSUME kind = "Window", RequestWindow, UNCHANGED <<shotVars, ended>> PROVE IInv'
  <2>1. classInfo' = classInfo
    BY <1>4 DEF shotVars
  <2>2. \E f : Begun(requested + currWinSize, f)
    BY <1>4, WindowBegins DEF IInv
  <2>3. Typed' /\ Downloads' /\ NothingComes'
    BY <2>1, <2>2, DownloadsBegin DEF IInv
  <2>4. Window'
    BY <1>4, WindowOpens DEF IInv
  <2> QED
    BY <2>3, <2>4 DEF IInv
<1>5. ASSUME WinTimeout, UNCHANGED <<shotVars, ended>> PROVE IInv'
  <2>1. UNCHANGED <<downloadVars, late, in_transit, tot_chunks, inFlightPkts, arrival,
                    window, surplus, classInfo>>
    BY <1>5 DEF WinTimeout, vars, shotVars
  <2>2. currWinSize' \in defWinSize .. maxWinSize
    BY <1>5, WindowAssumption DEF WinTimeout
  <2>3. \A c \in Chunk : in_transit'[c] > in_transit[c] => late # {}
    BY <1>1, <2>1, ClientAssumption
  <2> QED
    BY <1>1, <2>1, <2>2, <2>3, DownloadsStay
<1>6. ASSUME kind = "ShotNoise", ShotNoiseRequest, UNCHANGED <<windowVars, ended>>
      PROVE  IInv'
  <2>0. PICK i \in DOMAIN classInfo : \E n \in Drawn(classInfo, i) :
               RequestOn(i, n) \/ RequestOff(i, n)
    BY <1>6 DEF ShotNoiseRequest
  <2>1. PICK n \in Drawn(classInfo, i) : RequestOn(i, n) \/ RequestOff(i, n)
    BY <2>0
  <2>2. n \in File
    BY <1>1, <2>1, DrawnAreFiles
  <2>3. CASE RequestOn(i, n)
    <3>1. RequestFile(n) /\ classInfo' = classInfo
      BY <2>3 DEF RequestOn
    <3> QED
      BY <1>6, <2>2, <3>1, FileRequested
  <2>4. CASE RequestOff(i, n)
    <3>1. UNCHANGED <<classInfo, vars>>
      BY <2>4 DEF RequestOff
    <3> QED
      BY <1>1, <1>6, <3>1, NothingMoves
  <2> QED
    BY <2>1, <2>3, <2>4
<1>7. ASSUME Tick, UNCHANGED <<windowVars, ended>> PROVE IInv'
  <2>1. UNCHANGED <<classInfo, vars>>
    BY <1>7 DEF Tick
  <2> QED
    BY <1>7, <2>1, NothingMoves
<1>8. ASSUME IrmRefused PROVE IInv'
  BY <1>8, NothingMoves DEF IrmRefused, shotVars
<1> QED
  BY <1>3, <1>4, <1>5, <1>6, <1>7, <1>8 DEF OwnStep

LEMMA Consecution ==
  ASSUME ClassesAreDrawable
  PROVE  IInv /\ [ClientsNext]_allVars => IInv'
<1> SUFFICES ASSUME IInv, [ClientsNext]_allVars PROVE IInv'
  OBVIOUS
<1>0. /\ Typed /\ in_transit \in [Chunk -> 0 .. MaxCopies] /\ tot_chunks \in 0 .. MaxChunks
      /\ late \subseteq current_downloads /\ currWinSize \in defWinSize .. maxWinSize
      /\ MaxCopies \in Nat /\ MaxChunks \in Nat
  BY ClientAssumption DEF IInv, Typed, Window
<1>1. CASE OwnStep /\ UNCHANGED kindVars
  BY <1>1, OwnSteps
<1>2. ASSUME NEW c \in Chunk, Receive(c[1], c[2]) PROVE IInv'
  <2>1. PICK n \in File, k \in Nat : c = <<n, k>> /\ n = c[1] /\ k = c[2]
    BY ChunkPairs
  <2>2. HandleIncomingChunk(n, k) /\ UNCHANGED <<classInfo, kindVars>>
    BY <1>2, <2>1 DEF Receive, ReceiveData, shotVars
  <2>3. Typed' /\ Downloads' /\ NothingComes' /\ requested > 0
    BY <2>1, <2>2, ChunkComes DEF IInv
  <2>4. Window'
    <3>1. CASE kind = "Window"
      <4>1. ReceiveData(n, k)
        BY <1>2, <2>1, <3>1 DEF Receive
      <4> QED
        BY <2>2, <2>3, <3>1, <4>1, PacketIsCounted DEF IInv
    <3>2. CASE kind # "Window"
      <4>1. UNCHANGED windowVars /\ requested' = requested /\ requested \in Nat
        BY <1>0, <1>2, <2>2, <3>2 DEF Receive, HandleIncomingChunk, Typed
      <4> QED
        BY <2>2, <3>2, <4>1, NoWindowStays DEF IInv
    <3> QED
      BY <3>1, <3>2
  <2> QED
    BY <2>3, <2>4 DEF IInv
<1>3. CASE Timer
  <2>1. UNCHANGED <<downloadVars, late, tot_chunks, windowVars, classInfo, kindVars>> /\ late # {}
    BY <1>3 DEF Timer, HandleTimers, shotVars
  <2>2. late \subseteq Request
    <3>1. MaxRequests \in Nat
      BY ClientAssumption
    <3> QED
      BY <3>1 DEF IInv, Typed, Request
  <2>3. Overdue \in [Chunk -> Nat] /\ in_transit \in [Chunk -> Nat]
    BY <1>0, <2>2, PartsAreFinite DEF Overdue, Waiting
  <2>4. in_transit' \in [Chunk -> 0 .. MaxCopies]
    BY <1>3, <2>3, SentIsTyped DEF Timer, HandleTimers
  <2>5. UNCHANGED <<inFlightPkts, arrival, window, surplus, currWinSize>>
    BY <2>1 DEF windowVars
  <2> QED
    BY <1>0, <2>1, <2>4, <2>5, DownloadsStay
<1>4. ASSUME NEW r \in Request, Late(r) PROVE IInv'
  <2>1. /\ UNCHANGED <<downloadVars, in_transit, tot_chunks, windowVars, classInfo, kindVars>>
        /\ late' \subseteq current_downloads
    BY <1>0, <1>4 DEF Late, BecomesLate, shotVars
  <2>2. UNCHANGED <<inFlightPkts, arrival, window, surplus, currWinSize>>
    BY <2>1 DEF windowVars
  <2>3. \A c \in Chunk : in_transit'[c] > in_transit[c] => late # {}
    BY <1>0, <2>1
  <2> QED
    BY <1>0, <2>1, <2>2, <2>3, DownloadsStay
<1>5. ASSUME ClearStat \/ \E c \in Chunk : Lose(c),
             UNCHANGED <<windowVars, shotVars, kindVars, ended>>
      PROVE  IInv'
  <2>1. /\ UNCHANGED <<downloadVars, late, classInfo, kindVars>>
        /\ tot_chunks' \in 0 .. MaxChunks
        /\ UNCHANGED <<inFlightPkts, arrival, window, surplus, currWinSize>>
    BY <1>0, <1>5 DEF ClearStat, Lose, shotVars, windowVars
  <2>2. /\ in_transit' \in [Chunk -> 0 .. MaxCopies]
        /\ \A c \in Chunk : ~(in_transit'[c] > in_transit[c])
    BY <1>0, <1>5 DEF ClearStat, Lose
  <2> QED
    BY <1>0, <2>1, <2>2, DownloadsStay
<1>6. CASE UNCHANGED allVars
  BY <1>6, NothingMoves DEF allVars, shotVars
<1> QED
  BY <1>1, <1>2, <1>3, <1>4, <1>5, <1>6 DEF ClientsNext

-----------------------------------------------------------------------------
(***************************************************************************)
(* ON and OFF periods.                                                     *)
(***************************************************************************)

\* What a content has been found to be holds until state_times: when it was found OFF
\* since it was last ON, at least until the end of an OFF period.
Periods ==
  /\ now \in Nat
  /\ state_flags \in [OnOffContents(classInfo) -> BOOLEAN]
  /\ state_times \in [OnOffContents(classInfo) -> Nat]
  /\ last_on \in [OnOffContents(classInfo) -> Nat]
  /\ off_since \in [OnOffContents(classInfo) -> BOOLEAN]
  /\ \A c \in OnOffContents(classInfo) :
       IF off_since[c]
       THEN /\ ~state_flags[c]
            /\ state_times[c] >= last_on[c] + Toff(classInfo, ClassOf(classInfo, c))
       ELSE state_flags[c] /\ state_times[c] >= last_on[c]

\* A function of sets that looks at its argument, and then is its answer or what it
\* is for all of the next ones.
Collects(f, D, S, nx) == f = [s \in D |-> IF s \in S THEN {s} ELSE UNION {f[z] : z \in nx[s]}]

\* It exists: it gives what can be arrived at.
LEMMA CollectionExists ==
  ASSUME NEW D, NEW S, NEW nx \in [D -> SUBSET D]
  PROVE  \E f : Collects(f, D, S, nx)
<1> DEFINE Closed(P) == /\ \A t \in D \cap S : <<t, t>> \in P
                        /\ \A t \in D \ S : \A z \in nx[t] : \A e \in D :
                             <<z, e>> \in P => <<t, e>> \in P
           Arrives(t, e) == \A P \in SUBSET (D \X D) : Closed(P) => <<t, e>> \in P
           f == [t \in D |-> {e \in D : Arrives(t, e)}]
<1>1. ASSUME NEW t \in D \cap S PROVE Arrives(t, t)
  BY <1>1
<1>2. ASSUME NEW t \in D \ S, NEW z \in nx[t], NEW e \in D, Arrives(z, e) PROVE Arrives(t, e)
  BY <1>2
<1>3. PICK R : R = {q \in D \X D : Arrives(q[1], q[2])}
  OBVIOUS
<1>4. R \in SUBSET (D \X D) /\ \A t \in D, e \in D : <<t, e>> \in R <=> Arrives(t, e)
  <2> HIDE DEF Arrives
  <2> QED
    BY <1>3
<1>5. ASSUME NEW P \in SUBSET (D \X D), Closed(P), NEW t \in D, NEW e \in D, Arrives(t, e)
      PROVE  <<t, e>> \in P
  BY <1>5
<1> HIDE DEF Arrives
<1>6. ASSUME NEW t \in D \cap S, NEW e \in D, Arrives(t, e) PROVE e = t
  <2> SUFFICES ASSUME e # t PROVE FALSE
    OBVIOUS
  <2> DEFINE P == R \ {<<t, e>>}
  <2>1. P \in SUBSET (D \X D)
    BY <1>4
  <2>2. \A u \in D \cap S : <<u, u>> \in P
    BY <1>1, <1>4
  <2>3. ASSUME NEW u \in D \ S, NEW z \in nx[u], NEW d \in D, <<z, d>> \in P
        PROVE  <<u, d>> \in P
    <3>1. z \in D /\ u \in D /\ u # t
      BY <1>6, <2>3
    <3>2. Arrives(z, d)
      BY <1>4, <2>3, <3>1
    <3>3. <<u, d>> \in R
      BY <1>2, <1>4, <2>3, <3>1, <3>2
    <3> QED
      BY <3>1, <3>3
  <2>4. Closed(P)
    BY <2>2, <2>3
  <2> HIDE DEF Closed
  <2>5. <<t, e>> \in P
    BY <1>5, <1>6, <2>1, <2>4
  <2> QED
    BY <2>5
<1>7. ASSUME NEW t \in D \ S, NEW e \in D, Arrives(t, e) PROVE \E z \in nx[t] : Arrives(z, e)
  <2> SUFFICES ASSUME \A z \in nx[t] : ~Arrives(z, e) PROVE FALSE
    OBVIOUS
  <2> DEFINE P == R \ {<<t, e>>}
  <2>1. P \in SUBSET (D \X D)
    BY <1>4
  <2>2. \A u \in D \cap S : <<u, u>> \in P
    BY <1>1, <1>4, <1>7
  <2>3. ASSUME NEW u \in D \ S, NEW z \in nx[u], NEW d \in D, <<z, d>> \in P
        PROVE  <<u, d>> \in P
    <3>1. z \in D /\ u \in D
      BY <2>3
    <3>2. Arrives(z, d)
      BY <1>4, <2>3, <3>1
    <3>3. <<u, d>> \in R
      BY <1>2, <1>4, <2>3, <3>1, <3>2
    <3>4. ~(u = t /\ d = e)
      BY <2>3, <3>2
    <3> QED
      BY <3>3, <3>4
  <2>4. Closed(P)
    BY <2>2, <2>3
  <2> HIDE DEF Closed
  <2>5. <<t, e>> \in P
    BY <1>5, <1>7, <2>1, <2>4
  <2> QED
    BY <2>5
<1> HIDE DEF Closed
<1>8. ASSUME NEW t \in D PROVE f[t] = IF t \in S THEN {t} ELSE UNION {f[z] : z \in nx[t]}
  <2>1. \A u \in D : f[u] = {e \in D : Arrives(u, e)}
    OBVIOUS
  <2> HIDE DEF f
  <2>2. nx[t] \subseteq D
    OBVIOUS
  <2>3. CASE t \in S
    BY <1>1, <1>6, <2>1, <2>3
  <2>4. CASE t \notin S
    <3>1. \A e : e \in f[t] <=> e \in D /\ \E z \in nx[t] : Arrives(z, e)
      BY <1>2, <1>7, <2>1, <2>4
    <3>2. \A e : e \in UNION {f[z] : z \in nx[t]} <=> \E z \in nx[t] : e \in D /\ Arrives(z, e)
      BY <2>1, <2>2
    <3>3. f[t] = UNION {f[z] : z \in nx[t]}
      BY <3>1, <3>2
    <3> QED
      BY <2>4, <3>3
  <2> QED
    BY <2>3, <2>4
<1>9. Collects(f, D, S, nx)
  BY <1>8 DEF Collects
<1> QED
  BY <1>9

\* Where the loops of validateRequest end: a state that holds now, the one they began
\* with or one that ends later, by an OFF period if they began with ON.
LEMMA OutcomesLater ==
  ASSUME now \in Nat, NEW i, NEW x \in BOOLEAN \X Nat, NEW s \in Outcomes(i, x),
         Toff(classInfo, i) \in Nat, Toff(classInfo, i) > 0
  PROVE  /\ s \in BOOLEAN \X Nat /\ s[2] >= now
         /\ \/ s = x
            \/ /\ x[2] < now /\ s[2] >= x[2]
               /\ x[1] => s[2] >= x[2] + Toff(classInfo, i)
<1> DEFINE D == BOOLEAN \X Nat
           T == Toff(classInfo, i)
           NextStates(y) == IF y[1] THEN {<<FALSE, y[2] + T>>} ELSE {<<TRUE, y[2] + on>> : on \in OnTimes}
           To(f) == f = [y \in BOOLEAN \X Nat |->
                           IF y[2] >= now THEN {y}
                           ELSE IF y[1] THEN f[<<FALSE, y[2] + Toff(classInfo, i)>>]
                           ELSE UNION {f[<<TRUE, y[2] + on>>] : on \in OnTimes}]
<1>0. T \in Nat /\ T > 0
  OBVIOUS
<1>1. Outcomes(i, x) = (CHOOSE f : To(f))[x]
  BY Zenon DEF Outcomes
<1>2. PICK S, nx : S = {y \in D : y[2] >= now} /\ nx = [y \in D |-> NextStates(y)]
  OBVIOUS
<1>3. ASSUME NEW y \in D PROVE NextStates(y) \subseteq D
  <2>1. y[1] \in BOOLEAN /\ y[2] \in Nat
    OBVIOUS
  <2>2. y[2] + T \in Nat /\ \A on \in OnTimes : y[2] + on \in Nat
    BY <1>0, <2>1, ShotNoiseAssumption
  <2> HIDE DEF T
  <2>3. <<FALSE, y[2] + T>> \in D /\ \A on \in OnTimes : <<TRUE, y[2] + on>> \in D
    BY <2>2
  <2> QED
    BY <2>3
<1>13. ASSUME NEW y \in D, NEW r \in NextStates(y) PROVE y[2] \in Nat /\ r[2] \in Nat /\ r[2] > y[2]
  <2>1. y[2] \in Nat
    OBVIOUS
  <2>2. CASE y[1]
    <3>1. r = <<FALSE, y[2] + T>>
      BY <1>13, <2>2
    <3> HIDE DEF T
    <3>2. r[2] = y[2] + T
      BY <3>1
    <3> QED
      BY <1>0, <2>1, <3>2
  <2>3. CASE ~y[1]
    <3>1. PICK on \in OnTimes : r = <<TRUE, y[2] + on>>
      BY <1>13, <2>3
    <3>2. on \in Nat /\ on > 0 /\ r[2] = y[2] + on
      BY <3>1, ShotNoiseAssumption
    <3> QED
      BY <2>1, <3>2
  <2> QED
    BY <2>2, <2>3
<1>4. \E f : To(f)
  <2>1. nx \in [D -> SUBSET D]
    BY <1>2, <1>3
  <2>2. PICK f : Collects(f, D, S, nx)
    BY <2>1, CollectionExists
  <2>3. f = [y \in D |-> IF y \in S THEN {y} ELSE UNION {f[z] : z \in nx[y]}]
    BY <2>2 DEF Collects
  <2>4. ASSUME NEW y \in D
        PROVE  (IF y \in S THEN {y} ELSE UNION {f[z] : z \in nx[y]})
                 = IF y[2] >= now THEN {y}
                   ELSE IF y[1] THEN f[<<FALSE, y[2] + T>>]
                   ELSE UNION {f[<<TRUE, y[2] + on>>] : on \in OnTimes}
    <3>1. nx[y] = NextStates(y)
      BY <1>2
    <3>2. CASE y[1]
      <4>1. nx[y] = {<<FALSE, y[2] + T>>}
        BY <3>1, <3>2
      <4>2. UNION {f[z] : z \in nx[y]} = f[<<FALSE, y[2] + T>>]
        BY <4>1
      <4> QED
        BY <1>2, <3>2, <4>2
    <3>3. CASE ~y[1]
      <4>1. nx[y] = {<<TRUE, y[2] + on>> : on \in OnTimes}
        BY <3>1, <3>3
      <4>2. UNION {f[z] : z \in nx[y]} = UNION {f[<<TRUE, y[2] + on>>] : on \in OnTimes}
        BY <4>1
      <4> QED
        BY <1>2, <3>3, <4>2
    <3> QED
      BY <3>2, <3>3
  <2>5. To(f)
    BY <2>3, <2>4
  <2> QED
    BY <2>5
<1> HIDE DEF To
<1>5. PICK f : f = CHOOSE g : To(g)
  OBVIOUS
<1>6. To(f) /\ Outcomes(i, x) = f[x]
  BY <1>1, <1>4, <1>5, Zenon
<1>7. /\ \A y \in D : y[2] >= now => f[y] = {y}
      /\ \A y \in D : y[2] < now => \A z \in f[y] : \E r \in NextStates(y) : z \in f[r]
  <2>1. \A y \in D : f[y] = IF y[2] >= now THEN {y}
                            ELSE IF y[1] THEN f[<<FALSE, y[2] + T>>]
                            ELSE UNION {f[<<TRUE, y[2] + on>>] : on \in OnTimes}
    BY <1>6 DEF To
  <2>2. \A y \in D : y[2] \in Nat
    OBVIOUS
  <2>3. ASSUME NEW y \in D, y[2] < now, NEW z \in f[y] PROVE \E r \in NextStates(y) : z \in f[r]
    <3>1. ~(y[2] >= now)
      BY <2>2, <2>3
    <3>2. CASE y[1]
      <4>1. f[y] = f[<<FALSE, y[2] + T>>] /\ NextStates(y) = {<<FALSE, y[2] + T>>}
        BY <2>1, <3>1, <3>2
      <4> QED
        BY <2>3, <4>1
    <3>3. CASE ~y[1]
      <4>1. /\ f[y] = UNION {f[<<TRUE, y[2] + on>>] : on \in OnTimes}
            /\ NextStates(y) = {<<TRUE, y[2] + on>> : on \in OnTimes}
        BY <2>1, <3>1, <3>3
      <4> QED
        BY <2>3, <4>1
    <3> QED
      BY <3>2, <3>3
  <2> QED
    BY <2>1, <2>3
<1> DEFINE Reached(y, z) == /\ z \in D /\ z[2] >= now /\ (z = y \/ (y[2] < now /\ z[2] >= y[2]))
           Wrong(y) == y \in D /\ \E z \in f[y] : ~Reached(y, z)
           W == {k \in Nat : \E y : Wrong(y) /\ k + y[2] = now}
<1>8. ASSUME NEW y, Wrong(y) PROVE /\ y \in D /\ y[2] \in Nat /\ y[2] < now
                                   /\ \E r \in NextStates(y) : Wrong(r)
  <2>1. y \in D /\ y[2] \in Nat
    BY <1>8
  <2>2. y[2] < now
    BY <1>7, <1>8, <2>1
  <2>3. PICK z \in f[y] : ~Reached(y, z)
    BY <1>8
  <2>4. PICK r \in NextStates(y) : z \in f[r]
    BY <1>7, <2>1, <2>2, <2>3
  <2>5. r \in D /\ r[2] \in Nat /\ r[2] > y[2]
    <3>1. r \in D
      BY <1>3, <2>1, <2>4
    <3> QED
      BY <1>13, <2>1, <2>4, <3>1
  <2>6. ASSUME Reached(r, z) PROVE FALSE
    <3>1. z \in D /\ z[2] >= now /\ z[2] \in Nat /\ (z = r \/ z[2] >= r[2])
      BY <2>6
    <3>2. z[2] >= y[2]
      BY <2>1, <2>5, <3>1
    <3> QED
      BY <2>2, <2>3, <3>1, <3>2
  <2> QED
    BY <2>1, <2>2, <2>4, <2>5, <2>6
<1>9. \A y : ~Wrong(y)
  <2> HIDE DEF Wrong
  <2> SUFFICES ASSUME NEW y, Wrong(y) PROVE FALSE
    OBVIOUS
  <2>1. ASSUME NEW u, Wrong(u) PROVE now - u[2] \in W
    <3>0. u[2] \in Nat /\ u[2] < now
      BY <1>8, <2>1, Zenon
    <3>1. now - u[2] \in Nat /\ now - u[2] + u[2] = now
      BY <3>0
    <3> QED
      BY <2>1, <3>1
  <2>2. PICK k \in W : \A m \in W : k <= m
    <3>1. W \subseteq Nat /\ W # {}
      BY <2>1
    <3> HIDE DEF W
    <3> QED
      BY <3>1, LeastNat
  <2>3. PICK u : Wrong(u) /\ k + u[2] = now
    BY <2>2
  <2>4. PICK r \in NextStates(u) : Wrong(r)
    BY <1>8, <2>3
  <2>5. now - r[2] \in W
    BY <2>1, <2>4
  <2>6. u[2] \in Nat /\ r[2] \in Nat /\ r[2] > u[2] /\ k \in Nat
    <3>1. u \in D /\ k \in Nat
      BY <1>8, <2>2, <2>3
    <3> QED
      BY <1>13, <2>4, <3>1
  <2> HIDE DEF W
  <2>7. k <= now - r[2]
    BY <2>2, <2>5
  <2> QED
    BY <2>3, <2>6, <2>7
<1>10. ASSUME NEW y \in D, NEW z \in f[y] PROVE Reached(y, z)
  BY <1>9, <1>10
<1>11. Reached(x, s)
  BY <1>6, <1>10
<1>12. ASSUME x[1], s # x PROVE s[2] >= x[2] + T
  <2>1. x[2] \in Nat /\ x[2] < now
    BY <1>11, <1>12
  <2>2. NextStates(x) = {<<FALSE, x[2] + T>>}
    BY <1>12
  <2>3. s \in f[<<FALSE, x[2] + T>>]
    <3>1. \E r \in NextStates(x) : s \in f[r]
      BY <1>6, <1>7, <2>1
    <3> QED
      BY <2>2, <3>1
  <2>4. <<FALSE, x[2] + T>> \in D
    <3>1. x[2] + T \in Nat
      BY <1>0, <2>1
    <3> HIDE DEF T
    <3> QED
      BY <3>1
  <2>5. Reached(<<FALSE, x[2] + T>>, s)
    BY <1>10, <2>3, <2>4
  <2>6. x[2] + T \in Nat /\ s[2] \in Nat
    BY <1>0, <2>1, <2>5
  <2> HIDE DEF T
  <2>7. <<FALSE, x[2] + T>>[2] = x[2] + T
    OBVIOUS
  <2>8. s = <<FALSE, x[2] + T>> \/ s[2] >= x[2] + T
    BY <2>5, <2>7
  <2>9. ASSUME s = <<FALSE, x[2] + T>> PROVE s[2] = x[2] + T
    BY <2>7, <2>9
  <2>10. PICK a, b : a = s[2] /\ b = x[2] + T
    OBVIOUS
  <2>11. a \in Nat /\ b \in Nat /\ (a = b \/ a >= b)
    BY <2>6, <2>8, <2>9, <2>10, Zenon
  <2>12. a >= b
    BY <2>11
  <2> QED
    BY <2>10, <2>12, Zenon
<1> QED
  BY <1>11, <1>12

\* A content belongs to one class.
LEMMA ClassIsOne ==
  ASSUME ClassesAreDrawable, NEW classes \in Catalogs, NEW i \in DOMAIN classes,
         NEW c \in MostPopular(classes, i) .. LessPopular(classes, i)
  PROVE  ClassOf(classes, c) = i
<1>1. PICK n \in Nat : n = Len(classes) /\ DOMAIN classes = 1 .. n
  BY CatalogTyped
<1>2. PICK sum : sum = [j \in 0 .. n |-> LessPopular(classes, j)]
  OBVIOUS
<1>3. sum \in [0 .. n -> Nat] /\ \A j, k \in 0 .. n : j < k => sum[j] < sum[k]
  BY <1>1, <1>2, ClassesFollow, CatalogGrows
<1>4. ASSUME NEW j \in 1 .. n
      PROVE  MostPopular(classes, j) = sum[j - 1] + 1 /\ LessPopular(classes, j) = sum[j]
  <2>1. j - 1 \in 0 .. n /\ j \in 0 .. n
    BY <1>1
  <2> QED
    BY <1>2, <2>1 DEF MostPopular
<1>5. i \in 1 .. n /\ c \in sum[i - 1] + 1 .. sum[i]
  BY <1>1, <1>4
<1>6. ASSUME NEW j \in 1 .. n, NEW k \in 1 .. n, j < k,
             c \in sum[j - 1] + 1 .. sum[j], c \in sum[k - 1] + 1 .. sum[k]
      PROVE  FALSE
  <2>1. /\ j \in 0 .. n /\ k - 1 \in 0 .. n /\ j - 1 \in 0 .. n /\ k \in 0 .. n
        /\ (j = k - 1 \/ j < k - 1)
    BY <1>6
  <2>2. sum[j] <= sum[k - 1] /\ sum[j] \in Nat /\ sum[k - 1] \in Nat
    BY <1>3, <2>1
  <2>3. sum[j - 1] \in Nat /\ sum[k] \in Nat
    BY <1>3, <2>1
  <2>4. c \in Int /\ c <= sum[j] /\ c >= sum[k - 1] + 1
    BY <1>6, <2>2, <2>3
  <2> QED
    BY <2>2, <2>4
<1>7. ASSUME NEW j \in DOMAIN classes, c \in MostPopular(classes, j) .. LessPopular(classes, j)
      PROVE  j = i
  <2>1. j \in 1 .. n /\ c \in sum[j - 1] + 1 .. sum[j]
    BY <1>1, <1>4, <1>7
  <2>2. ~(j < i) /\ ~(i < j)
    BY <1>5, <1>6, <2>1
  <2> QED
    BY <1>5, <2>1, <2>2
<1> QED
  BY <1>7, Zenon DEF ClassOf

\* Contents with a state are in classes that have states.
LEMMA StatesOfClass ==
  ASSUME ClassesAreDrawable, NEW classes \in Catalogs, NEW i \in DOMAIN classes,
         NEW c \in MostPopular(classes, i) .. LessPopular(classes, i),
         c \in OnOffContents(classes)
  PROVE  classes[i].ton < steadySimTime
<1> DEFINE W == WithState(classes)
<1>1. PICK n \in Nat : n = Len(classes) /\ DOMAIN classes = 1 .. n
  BY CatalogTyped
<1>2. \A k \in W : k \in 1 .. n /\ \A j \in 1 .. k : j \in W
  <2> SUFFICES ASSUME NEW k \in W PROVE k \in 1 .. n /\ \A j \in 1 .. k : j \in W
    OBVIOUS
  <2>1. k \in 1 .. n /\ \A j \in 1 .. k : classes[j].ton < steadySimTime
    BY <1>1 DEF WithState
  <2>2. ASSUME NEW j \in 1 .. k PROVE j \in 1 .. n /\ 1 .. j \subseteq 1 .. k
    BY <2>1
  <2> QED
    BY <1>1, <2>1, <2>2 DEF WithState
<1> HIDE DEF W
<1>3. PICK m \in 0 .. n : W = 1 .. m
  <2>1. CASE 1 .. n \subseteq W
    <3>1. W = 1 .. n
      BY <1>2, <2>1
    <3> QED
      BY <3>1
  <2>2. CASE ~(1 .. n \subseteq W)
    <3>1. PICK k \in (1 .. n) \ W : \A j \in (1 .. n) \ W : k <= j
      <4>1. (1 .. n) \ W \subseteq Nat /\ (1 .. n) \ W # {}
        BY <2>2
      <4> QED
        BY <4>1, LeastNat
    <3>2. k - 1 \in 0 .. n
      BY <3>1
    <3>3. ASSUME NEW j PROVE j \in W <=> j \in 1 .. k - 1
      <4>1. ASSUME j \in W PROVE j \in 1 .. k - 1
        <5>1. j \in 1 .. n /\ ~(k \in 1 .. j)
          BY <1>2, <3>1, <4>1
        <5> QED
          BY <3>1, <5>1
      <4>2. ASSUME j \in 1 .. k - 1 PROVE j \in W
        <5>1. j \in 1 .. n /\ ~(k <= j)
          BY <3>1, <4>2
        <5> QED
          BY <3>1, <5>1
      <4> QED
        BY <4>1, <4>2
    <3>4. W = 1 .. k - 1
      BY <3>3
    <3> QED
      BY <3>2, <3>4
  <2> QED
    BY <2>1, <2>2
<1>4. Cardinality(W) = m
  BY <1>3, FS_Interval
<1>5. c <= LessPopular(classes, m)
  BY <1>4 DEF OnOffContents, W
<1>6. c >= LessPopular(classes, i - 1) + 1
  BY DEF MostPopular
<1>7. ASSUME i > m PROVE FALSE
  <2>1. i - 1 \in 0 .. n /\ m \in 0 .. n /\ (m = i - 1 \/ m < i - 1)
    BY <1>1, <1>7
  <2>2. PICK a, b : a = LessPopular(classes, m) /\ b = LessPopular(classes, i - 1)
    OBVIOUS
  <2>3. a \in Nat /\ b \in Nat /\ a <= b
    BY <1>1, <2>1, <2>2, ClassesFollow, CatalogGrows
  <2>4. LessPopular(classes, m) \in Nat
    BY <2>2, <2>3
  <2>5. c \in Int /\ c <= a /\ c >= b + 1
    BY <1>5, <1>6, <2>2, <2>4 DEF OnOffContents
  <2> QED
    BY <2>3, <2>5
<1>8. i \in 1 .. n
  BY <1>1
<1>9. i \in W
  BY <1>3, <1>7, <1>8
<1>10. i \in 1 .. i
  BY <1>8
<1> QED
  BY <1>9, <1>10 DEF W, WithState

LEMMA PeriodsBegin == ClientsInit => Periods
<1> SUFFICES ASSUME ClientsInit PROVE Periods
  OBVIOUS
<1>1. ShotNoiseInit
  BY DEF ClientsInit
<1>2. OnTimes \subseteq Nat
  BY ShotNoiseAssumption
<1>3. PICK P : P = OnOffContents(classInfo)
  OBVIOUS
<1>4. /\ state_flags = [c \in P |-> TRUE] /\ state_times \in [P -> OnTimes] /\ now = 0
      /\ last_on = [c \in P |-> 0] /\ off_since = [c \in P |-> FALSE]
  BY <1>1, <1>3 DEF ShotNoiseInit
<1>5. state_times \in [P -> Nat]
  BY <1>2, <1>4
<1>6. /\ now \in Nat /\ state_flags \in [P -> BOOLEAN]
      /\ last_on \in [P -> Nat] /\ off_since \in [P -> BOOLEAN]
  BY <1>4
<1>7. \A c \in P : /\ ~off_since[c] /\ state_flags[c] /\ state_times[c] >= last_on[c]
  BY <1>4, <1>5
<1> QED
  BY <1>3, <1>5, <1>6, <1>7 DEF Periods

\* A request for content c of class i, whose state holds, finds out whether it is ON,
\* for as long as the state has been brought up to.
LEMMA RequestKeepsPeriods ==
  ASSUME ClassesAreDrawable, classInfo \in Catalogs, Periods,
         NEW i \in DOMAIN classInfo, NEW c \in Drawn(classInfo, i),
         RequestOn(i, c) \/ RequestOff(i, c)
  PROVE  /\ Periods'
         /\ \A d \in DOMAIN state_flags :
              off_since[d] /\ ~off_since'[d] =>
                now - last_on[d] > Toff(classInfo, ClassOf(classInfo, d))
<1> DEFINE P == OnOffContents(classInfo)
           T == Toff(classInfo, ClassOf(classInfo, c))
<1>1. /\ now \in Nat /\ now' = now /\ classInfo' = classInfo
      /\ state_flags \in [P -> BOOLEAN] /\ state_times \in [P -> Nat]
      /\ last_on \in [P -> Nat] /\ off_since \in [P -> BOOLEAN]
      /\ \A d \in P :
           IF off_since[d]
           THEN /\ ~state_flags[d]
                /\ state_times[d] >= last_on[d] + Toff(classInfo, ClassOf(classInfo, d))
           ELSE state_flags[d] /\ state_times[d] >= last_on[d]
  BY DEF Periods, RequestOn, RequestOff
<1>2. c \in MostPopular(classInfo, i) .. LessPopular(classInfo, i)
  BY DrawsAreQuantiles
<1>3. ClassOf(classInfo, c) = i
  BY <1>2, ClassIsOne
<1>4. classInfo[i].ton \in Nat /\ classInfo[i].ton > 0
  <2>1. classInfo \in Seq(Class)
    BY ShotNoiseAssumption
  <2>2. classInfo[i] \in Class
    BY <2>1
  <2> QED
    BY <2>2 DEF Class
<1>5. T \in Nat /\ T > 0 /\ T = Toff(classInfo, i)
  <2>1. toff_mult_factor \in Nat /\ toff_mult_factor > 0
    BY ShotNoiseAssumption
  <2> QED
    BY <1>3, <1>4, <2>1 DEF Toff
<1> HIDE DEF P, T
<1>6. ASSUME c \notin P, NEW d \in P
      PROVE  /\ state_flags'[d] = state_flags[d] /\ state_times'[d] = state_times[d]
             /\ last_on'[d] = last_on[d] /\ off_since'[d] = off_since[d]
  BY <1>1, <1>6 DEF RequestOn, RequestOff, Keep
<1>7. ASSUME c \in P, NEW d \in P, d # c
      PROVE  /\ state_flags'[d] = state_flags[d] /\ state_times'[d] = state_times[d]
             /\ last_on'[d] = last_on[d] /\ off_since'[d] = off_since[d]
  BY <1>1, <1>7 DEF RequestOn, RequestOff, Keep
<1>8. ASSUME c \in P PROVE OnOffClass(i)
  <2>1. classInfo[i].ton < steadySimTime
    BY <1>2, <1>8, StatesOfClass DEF P
  <2> QED
    BY <1>4, <2>1, ShotNoiseAssumption DEF OnOffClass
<1>9. ASSUME c \in P
      PROVE  \E s \in Outcomes(i, <<state_flags[c], state_times[c]>>) :
               /\ state_flags' = [state_flags EXCEPT ![c] = s[1]]
               /\ state_times' = [state_times EXCEPT ![c] = s[2]]
               /\ \/ s[1] /\ last_on' = [last_on EXCEPT ![c] = now]
                          /\ off_since' = [off_since EXCEPT ![c] = FALSE]
                  \/ ~s[1] /\ last_on' = last_on /\ off_since' = [off_since EXCEPT ![c] = TRUE]
  <2>1. DOMAIN state_flags = P /\ State(c) = <<state_flags[c], state_times[c]>>
    BY <1>1, <1>9 DEF State
  <2> QED
    BY <1>8, <1>9, <2>1 DEF RequestOn, RequestOff, Keep
<1>10. ASSUME c \in P
       PROVE  /\ state_flags'[c] \in BOOLEAN /\ state_times'[c] \in Nat
              /\ last_on'[c] \in Nat /\ off_since'[c] \in BOOLEAN
              /\ IF off_since'[c]
                 THEN ~state_flags'[c] /\ state_times'[c] >= last_on'[c] + T
                 ELSE state_flags'[c] /\ state_times'[c] >= last_on'[c]
              /\ off_since[c] /\ ~off_since'[c] => now - last_on[c] > T
  <2>1. PICK s \in Outcomes(i, <<state_flags[c], state_times[c]>>) :
               /\ state_flags' = [state_flags EXCEPT ![c] = s[1]]
               /\ state_times' = [state_times EXCEPT ![c] = s[2]]
               /\ \/ s[1] /\ last_on' = [last_on EXCEPT ![c] = now]
                          /\ off_since' = [off_since EXCEPT ![c] = FALSE]
                  \/ ~s[1] /\ last_on' = last_on /\ off_since' = [off_since EXCEPT ![c] = TRUE]
    BY <1>9, <1>10
  <2>2. PICK flag, until, last, off :
          /\ flag = state_flags[c] /\ until = state_times[c]
          /\ last = last_on[c] /\ off = off_since[c]
    OBVIOUS
  <2>3. /\ flag \in BOOLEAN /\ until \in Nat /\ last \in Nat /\ off \in BOOLEAN
        /\ off => ~flag /\ until >= last + T
        /\ ~off => flag /\ until >= last
    BY <1>1, <1>10, <2>2 DEF T
  <2>4. /\ s \in BOOLEAN \X Nat /\ s[2] >= now
        /\ \/ s = <<flag, until>>
           \/ /\ until < now /\ s[2] >= until
              /\ flag => s[2] >= until + T
    <3>1. <<flag, until>> \in BOOLEAN \X Nat /\ s \in Outcomes(i, <<flag, until>>)
      BY <2>1, <2>2, <2>3
    <3>2. PICK x : x = <<flag, until>>
      OBVIOUS
    <3>3. x \in BOOLEAN \X Nat /\ s \in Outcomes(i, x) /\ x[1] = flag /\ x[2] = until
      BY <3>1, <3>2
    <3>4. /\ s \in BOOLEAN \X Nat /\ s[2] >= now
          /\ s = x \/ (x[2] < now /\ s[2] >= x[2] /\ (x[1] => s[2] >= x[2] + T))
      BY <1>1, <1>5, <3>3, OutcomesLater
    <3> QED
      BY <3>2, <3>3, <3>4
  <2>5. PICK on, end : on = s[1] /\ end = s[2] /\ on \in BOOLEAN /\ end \in Nat
    BY <2>4
  <2>6. /\ end >= now
        /\ \/ on = flag /\ end = until
           \/ until < now /\ end >= until /\ (flag => end >= until + T)
    BY <2>4, <2>5
  <2>7. state_flags'[c] = on /\ state_times'[c] = end
    BY <1>1, <1>10, <2>1, <2>5
  <2>8. CASE on
    <3>1. last_on'[c] = now /\ off_since'[c] = FALSE
      BY <1>1, <1>10, <2>1, <2>5, <2>8
    <3>2. ASSUME off PROVE now - last > T
      <4>1. ~flag /\ on # flag
        BY <2>3, <2>8, <3>2
      <4>2. until < now
        BY <2>6, <4>1
      <4>3. until \in Nat /\ last \in Nat /\ until >= last + T
        BY <2>3, <3>2
      <4> QED
        BY <1>1, <1>5, <4>2, <4>3
    <3>3. off_since[c] /\ ~off_since'[c] => now - last_on[c] > T
      BY <2>2, <3>2
    <3>4. state_times'[c] >= last_on'[c]
      BY <2>6, <2>7, <3>1
    <3>5. /\ state_flags'[c] \in BOOLEAN /\ state_times'[c] \in Nat
          /\ last_on'[c] \in Nat /\ off_since'[c] \in BOOLEAN
      BY <1>1, <2>5, <2>7, <3>1
    <3> QED
      BY <2>7, <2>8, <3>1, <3>3, <3>4, <3>5, Zenon
  <2>9. CASE ~on
    <3>1. last_on'[c] = last /\ off_since'[c] = TRUE
      BY <1>1, <1>10, <2>1, <2>2, <2>5, <2>9
    <3>2. end >= last + T
      BY <1>1, <1>5, <2>3, <2>5, <2>6, <2>9
    <3> QED
      BY <2>3, <2>5, <2>7, <2>9, <3>1, <3>2
  <2> QED
    BY <2>8, <2>9
<1>11. /\ DOMAIN state_flags' = P /\ DOMAIN state_times' = P
       /\ DOMAIN last_on' = P /\ DOMAIN off_since' = P
  BY <1>1 DEF RequestOn, RequestOff, Keep
<1>12. ASSUME NEW d \in P
       PROVE  /\ state_flags'[d] \in BOOLEAN /\ state_times'[d] \in Nat
              /\ last_on'[d] \in Nat /\ off_since'[d] \in BOOLEAN
              /\ IF off_since'[d]
                 THEN /\ ~state_flags'[d]
                      /\ state_times'[d] >= last_on'[d] + Toff(classInfo, ClassOf(classInfo, d))
                 ELSE state_flags'[d] /\ state_times'[d] >= last_on'[d]
              /\ off_since[d] /\ ~off_since'[d] =>
                   now - last_on[d] > Toff(classInfo, ClassOf(classInfo, d))
  <2>1. CASE d = c
    BY <1>10, <1>12, <2>1 DEF T
  <2>2. CASE d # c
    <3>1. /\ state_flags'[d] = state_flags[d] /\ state_times'[d] = state_times[d]
          /\ last_on'[d] = last_on[d] /\ off_since'[d] = off_since[d]
      BY <1>6, <1>7, <2>2
    <3> QED
      BY <1>1, <3>1
  <2> QED
    BY <2>1, <2>2
<1>13. /\ \E f : state_flags' = [state_flags EXCEPT ![c] = f] \/ state_flags' = state_flags
       /\ \E g : state_times' = [state_times EXCEPT ![c] = g] \/ state_times' = state_times
       /\ last_on' = [last_on EXCEPT ![c] = now] \/ last_on' = last_on
       /\ \E b : off_since' = [off_since EXCEPT ![c] = b]
  BY DEF RequestOn, RequestOff, Keep
<1>14. /\ state_flags' \in [P -> BOOLEAN] /\ state_times' \in [P -> Nat]
       /\ last_on' \in [P -> Nat] /\ off_since' \in [P -> BOOLEAN]
  <2>1. state_flags' \in [P -> BOOLEAN]
    BY <1>1, <1>12, <1>13
  <2>2. state_times' \in [P -> Nat]
    BY <1>1, <1>12, <1>13
  <2>3. last_on' \in [P -> Nat]
    BY <1>1, <1>12, <1>13
  <2>4. off_since' \in [P -> BOOLEAN]
    BY <1>1, <1>12, <1>13
  <2> QED
    BY <2>1, <2>2, <2>3, <2>4
<1>15. P = OnOffContents(classInfo)
  BY DEF P
<1> HIDE DEF P
<1>16. Periods'
  BY <1>1, <1>12, <1>14, <1>15 DEF Periods
<1>17. \A d \in DOMAIN state_flags :
         off_since[d] /\ ~off_since'[d] =>
           now - last_on[d] > Toff(classInfo, ClassOf(classInfo, d))
  <2>1. DOMAIN state_flags = P
    BY <1>1
  <2> QED
    BY <1>12, <2>1
<1> QED
  BY <1>16, <1>17

\* A step of a client keeps what is said of its periods, and lets no content that has
\* been OFF be ON again before an OFF period is over.
LEMMA PeriodsStep ==
  ASSUME ClassesAreDrawable, IInv, Periods, [ClientsNext]_allVars
  PROVE  /\ Periods'
         /\ \/ \A d \in DOMAIN state_flags :
                 off_since[d] /\ ~off_since'[d] =>
                   now - last_on[d] > Toff(classInfo, ClassOf(classInfo, d))
            \/ UNCHANGED shotVars
<1>1. CASE UNCHANGED shotVars
  BY <1>1 DEF Periods, shotVars
<1>2. CASE ShotNoiseRequest
  <2>1. classInfo \in Catalogs
    BY DEF IInv, Typed
  <2> QED
    BY <1>2, <2>1, RequestKeepsPeriods DEF ShotNoiseRequest
<1>3. CASE Tick
  <2>1. UNCHANGED <<classInfo, state_flags, state_times, last_on, off_since>> /\ now' = now + 1
    BY <1>3 DEF Tick
  <2>2. now' \in Nat
    BY <2>1 DEF Periods
  <2>3. Periods'
    BY <2>1, <2>2 DEF Periods
  <2>4. \A d \in DOMAIN state_flags : off_since'[d] = off_since[d]
    BY <2>1
  <2> QED
    BY <2>3, <2>4
<1>4. ShotNoiseRequest \/ Tick \/ UNCHANGED shotVars
  BY DEF ClientsNext, OwnStep, IrmRequest, IrmRefused, Receive, Timer, Late, allVars
<1> QED
  BY <1>1, <1>2, <1>3, <1>4

-----------------------------------------------------------------------------
(***************************************************************************)
(* The theorems.                                                           *)
(***************************************************************************)
\* Clients of all three kinds keep their invariant.
THEOREM Inductive ==
  ASSUME ClassesAreDrawable
  PROVE  ClientsSpec => []IInv
<1>1. IInv /\ [ClientsNext]_allVars => IInv'
  BY Consecution
<1> QED
  BY <1>1, Initially, PTL DEF ClientsSpec

\* handle_incoming_chunk: every download gets its chunks in order, each of them once,
\* and ends with the last one, whatever is lost, repeated or late.
THEOREM ServedInOrderHolds ==
  ASSUME ClassesAreDrawable
  PROVE  ClientsSpec => []ServedInOrder
<1>1. IInv => ServedInOrder
  <2> SUFFICES ASSUME IInv PROVE ServedInOrder
    OBVIOUS
  <2>1. MaxRequests \in Nat /\ requested \in Nat /\ requested <= MaxRequests
    BY ClientAssumption DEF IInv, Typed
  <2>2. ASSUME NEW r \in 1 .. requested
        PROVE  /\ got[r] = [i \in 1 .. chunk[r] |-> i - 1]
               /\ IF r \in current_downloads THEN chunk[r] < Size[name[r]]
                                             ELSE chunk[r] = Size[name[r]]
    <3>1. r \in Request /\ r <= requested
      BY <2>1 DEF Request
    <3> QED
      BY <3>1 DEF IInv, Downloads, Download
  <2> QED
    BY <2>2 DEF IInv, Typed, ServedInOrder
<1> QED
  BY <1>1, Inductive, PTL

\* client_Window::handleMessage: the packets in flight are counted exactly, and the
\* next window is scheduled once, when the count has come down to zero.
THEOREM WindowIsCountedHolds ==
  ASSUME ClassesAreDrawable
  PROVE  ClientsSpec => []WindowIsCounted
<1>1. IInv => WindowIsCounted
  BY DEF IInv, Window, Typed, Unopened, WindowIsCounted
<1> QED
  BY <1>1, Inductive, PTL

\* zipf_distribution::value: the binary search over unsigned indexes ends, finds the
\* quantile for every draw, and so draws every content of the class and no other.
THEOREM DrawIsQuantileHolds ==
  ASSUME ClassesAreDrawable
  PROVE  ClientsSpec => []DrawIsQuantile
<1>1. IInv => DrawIsQuantile
  BY DrawsAreQuantiles DEF IInv, Typed, DrawIsQuantile
<1> QED
  BY <1>1, Inductive, PTL

\* validateRequest: a content found OFF is not ON again before the OFF period that
\* began after it was last ON is over, however seldom requests look at its state.
THEOREM OffPeriodsAreWholeHolds ==
  ASSUME ClassesAreDrawable
  PROVE  ClientsSpec => OffPeriodsAreWhole
<1>1. IInv /\ Periods /\ [ClientsNext]_allVars => Periods'
  BY PeriodsStep
<1>2. IInv /\ Periods /\ [ClientsNext]_allVars =>
        [\A c \in DOMAIN state_flags :
           off_since[c] /\ ~off_since'[c] =>
             now - last_on[c] > Toff(classInfo, ClassOf(classInfo, c))]_shotVars
  BY PeriodsStep
<1> QED
  BY <1>1, <1>2, Inductive, PeriodsBegin, PTL DEF ClientsSpec, OffPeriodsAreWhole

=============================================================================
