------------------------------- MODULE Client -------------------------------
(***************************************************************************)
(* A client that downloads files chunk by chunk over a network that may    *)
(* lose, delay and repeat packets (src/clients/client.cc): what the three  *)
(* kinds of clients share.  Module Clients has their next-state relation.  *)
(*                                                                         *)
(* current_downloads is a multimap: the same file may be in download       *)
(* several times at once, and one Data packet serves every download that   *)
(* waits for its chunk.  Here a download has an identity of its own, the   *)
(* number of the request that began it; the order in which equal keys are  *)
(* visited does not show, since a visit only touches its own download.     *)
(*                                                                         *)
(* The network is what lies behind client_port: an Interest, or the Data   *)
(* packet that answers it, is "in transit".  Every Interest is answered by *)
(* one packet at most (FlowBalance of CoreLayer).  Simulated time only     *)
(* shows by which downloads are late, simTime() - last > RTT.              *)
(***************************************************************************)
EXTENDS Integers, Sequences, FiniteSetsExt

CONSTANTS
  File,         \* names of the catalog
  Size,         \* __size(name), chunks per file
  MaxRequests,  \* bound: requests of the client
  MaxCopies,    \* bound: packets in transit for one chunk, the network loses more
  MaxChunks     \* bound: tot_chunks is not counted beyond it

ASSUME ClientAssumption ==
  /\ File # {}
  /\ Size \in [File -> Nat \ {0}]
  /\ MaxRequests \in Nat
  /\ MaxCopies \in Nat \ {0}
  /\ MaxChunks \in Nat

Request == 1 .. MaxRequests
Chunk   == UNION {{n} \X (0 .. Size[n] - 1) : n \in File}

VARIABLES
  requested,          \* how many requests the client has made
  current_downloads,  \* the requests that are not completed
  name, chunk,        \* file of a download, and the chunk it waits for
  late,               \* the downloads with simTime() - last > RTT
  in_transit,         \* network: Interests and Data on their way, for each chunk
  tot_chunks,         \* Data packets counted since the last clear_stat
  got                 \* history: the chunks a download was served, in order

downloadVars == <<requested, current_downloads, name, chunk, got>>
vars         == <<downloadVars, late, in_transit, tot_chunks>>

Init ==
  /\ requested = 0
  /\ current_downloads = {}
  /\ name = [r \in Request |-> CHOOSE n \in File : TRUE]  \* set by the request
  /\ chunk = [r \in Request |-> 0]
  /\ late = {}
  /\ in_transit = [c \in Chunk |-> 0]
  /\ tot_chunks = 0
  /\ got = [r \in Request |-> <<>>]

-----------------------------------------------------------------------------
(***************************************************************************)
(* Requests and timers.                                                    *)
(***************************************************************************)

\* How many of the downloads wait for each chunk.
Waiting(downloads) ==
  [c \in Chunk |-> Cardinality({r \in downloads : <<name[r], chunk[r]>> = c})]

\* send_interest and resend_interest: so many Interests for each chunk, beside
\* what is in transit already.
SendInterests(traffic, interests) ==
  in_transit' = [c \in Chunk |-> Min({traffic[c] + interests[c], MaxCopies})]

\* request_file: a download of file n begins with chunk 0.
RequestFile(n) ==
  /\ requested < MaxRequests
  /\ requested' = requested + 1
  /\ current_downloads' = current_downloads \cup {requested'}
  /\ name' = [name EXCEPT ![requested'] = n]
  /\ SendInterests(in_transit, [c \in Chunk |-> IF c = <<n, 0>> THEN 1 ELSE 0])
  /\ UNCHANGED <<chunk, got, late, tot_chunks>>

\* More than RTT has gone by since a download began or was last served.
BecomesLate(r) ==
  /\ r \in current_downloads \ late
  /\ late' = late \cup {r}
  /\ UNCHANGED <<downloadVars, in_transit, tot_chunks>>

\* Mutant of Overdue: the chunk before the one that is missing is asked for.
OverdueBefore ==
  [c \in Chunk |-> Cardinality({r \in late : <<name[r], chunk[r] - 1>> = c})]

\* The Interests that the late downloads repeat.
Overdue == Waiting(late)

\* TIMER, handle_timers: every late download asks again.  Its "last" is left as
\* it was, so that it is still late when the timer strikes next.
HandleTimers ==
  /\ late # {}
  /\ SendInterests(in_transit, Overdue)
  /\ UNCHANGED <<downloadVars, late, tot_chunks>>

-----------------------------------------------------------------------------
(***************************************************************************)
(* Data packets.                                                           *)
(***************************************************************************)

\* The downloads that wait for chunk k of file n.
Served(n, k) == {r \in current_downloads : name[r] = n /\ chunk[r] = k}

\* Chunk k is the last one of file n.
IsLast(n, k) == k + 1 >= Size[n]

\* Mutant of Ended: erase(name) takes all the downloads of the file along.
EndedByName(n, k) ==
  IF IsLast(n, k) /\ Served(n, k) # {}
  THEN {r \in current_downloads : name[r] = n} ELSE {}

\* The downloads that chunk k of file n completes.
Ended(n, k) == IF IsLast(n, k) THEN Served(n, k) ELSE {}

\* The Interests for the next chunk, one of each download that was served.
Following(n, k) ==
  [c \in Chunk |-> IF c = <<n, k + 1>> THEN Cardinality(Served(n, k)) ELSE 0]

\* handle_incoming_chunk: the downloads that wait for the chunk go on to the next one.
HandleIncomingChunk(n, k) ==
  LET served == Served(n, k) IN
  /\ in_transit[<<n, k>>] > 0
  /\ tot_chunks' = Min({tot_chunks + 1, MaxChunks})
  /\ chunk' = [r \in Request |-> IF r \in served THEN chunk[r] + 1 ELSE chunk[r]]
  /\ got' = [r \in Request |-> IF r \in served THEN Append(got[r], k) ELSE got[r]]
  /\ late' = late \ served
  /\ current_downloads' = current_downloads \ Ended(n, k)
  /\ SendInterests([in_transit EXCEPT ![<<n, k>>] = @ - 1], Following(n, k))
  /\ UNCHANGED <<requested, name>>

\* The network loses an Interest, or the packet that answers it.
Lose(c) ==
  /\ in_transit[c] > 0
  /\ in_transit' = [in_transit EXCEPT ![c] = @ - 1]
  /\ UNCHANGED <<downloadVars, late, tot_chunks>>

\* clear_stat: the averages restart while files are in download.
ClearStat ==
  /\ tot_chunks' = 0
  /\ UNCHANGED <<downloadVars, late, in_transit>>

-----------------------------------------------------------------------------
(***************************************************************************)
(* Properties.                                                             *)
(***************************************************************************)
\* A download is served the chunks of its file in order, each of them once, and
\* ends when it has them all and not before, whatever other downloads of the
\* file are going on and whatever the network loses or repeats.
ServedInOrder ==
  /\ current_downloads \in SUBSET (1 .. requested) /\ late \in SUBSET current_downloads
  /\ in_transit \in [Chunk -> 0 .. MaxCopies] /\ tot_chunks \in 0 .. MaxChunks
  /\ \A r \in 1 .. requested :
       /\ got[r] = [i \in 1 .. chunk[r] |-> i - 1]
       /\ IF r \in current_downloads THEN chunk[r] < Size[name[r]]
                                     ELSE chunk[r] = Size[name[r]]
=============================================================================
