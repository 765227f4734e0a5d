------------------------------ MODULE Clients ------------------------------
(***************************************************************************)
(* A client of any of the three kinds: independent requests (client_IRM.cc,*)
(* of contents or, when the catalog is downsized, of meta-contents),       *)
(* windows of requests, or shot noise.  They differ in how they request    *)
(* files and in what else they do with a Data packet; downloads, timers    *)
(* and the network are those of Client.                                    *)
(***************************************************************************)
EXTENDS WindowClient, ShotNoiseClient

CONSTANTS
  Downsize,  \* the downsizing factors of the catalog
  Requests   \* bound: the requests of a client of each kind

ASSUME ClientsAssumption ==
  /\ File = 1 .. Cardinality(File)
  /\ Downsize \in SUBSET (Nat \ {0})
  /\ Requests \in [{"IRM", "Window", "ShotNoise"} -> 0 .. MaxRequests]
  /\ \A classes \in Catalogs : File = 1 .. LessPopular(classes, Len(classes))

VARIABLES
  kind,   \* which client it is
  down,   \* factor by which the catalog of an IRM client is downsized
  ended   \* severe_error has ended the simulation

kindVars == <<kind, down>>
allVars  == <<vars, windowVars, shotVars, kindVars, ended>>

\* newCard: how many contents or meta-contents there are.
newCard == Cardinality(File)

ClientsInit ==
  /\ Init /\ WindowInit /\ ShotNoiseInit
  /\ kind \in DOMAIN Requests
  /\ down \in IF kind = "IRM" THEN Downsize ELSE {1}
  /\ kind # "Window" => inFlightPkts = 0
  /\ kind # "ShotNoise" => classInfo = CHOOSE c \in Catalogs : TRUE
  /\ kind # "ShotNoise" => state_times \in [DOMAIN state_times -> {CHOOSE t \in OnTimes : TRUE}]
  /\ ended = FALSE

-----------------------------------------------------------------------------
(***************************************************************************)
(* The requests of the kinds.                                              *)
(***************************************************************************)

\* The meta-content that stands for a content of the original catalog: down of
\* them share one, but the last content of the catalog is beyond the last.
MetaContent(origContent) == origContent \div down + 1

\* ARRIVAL, with the catalog as it is, and ARRIVAL_TTL, where it is downsized.
IrmRequest ==
  /\ kind = "IRM"
  /\ \/ down = 1 /\ \E n \in Sample(newCard) : RequestFile(n)
     \/ /\ down > 1
        /\ \E o \in Sample(down * newCard) :
             MetaContent(o) <= newCard /\ RequestFile(MetaContent(o))
  /\ UNCHANGED <<windowVars, shotVars, ended>>

\* ARRIVAL_TTL: a content that has no meta-content is a severe_error.
IrmRefused ==
  /\ kind = "IRM" /\ down > 1 /\ requested < Requests[kind]
  /\ \E o \in Sample(down * newCard) : MetaContent(o) > newCard
  /\ ended' = TRUE
  /\ UNCHANGED <<vars, windowVars, shotVars>>

\* The requests and timers of the client's own kind, within the bound.
OwnStep ==
  /\ \/ IrmRequest
     \/ kind = "Window" /\ RequestWindow /\ UNCHANGED <<shotVars, ended>>
     \/ kind = "Window" /\ WinTimeout /\ UNCHANGED <<shotVars, ended>>
     \/ kind = "ShotNoise" /\ ShotNoiseRequest /\ UNCHANGED <<windowVars, ended>>
     \/ kind = "ShotNoise" /\ Tick /\ UNCHANGED <<windowVars, ended>>
     \/ IrmRefused
  /\ requested' <= Requests[kind]

\* CCN_D: a Data packet.
Receive(n, k) ==
  /\ ~ended
  /\ IF kind = "Window" THEN ReceiveData(n, k)
     ELSE HandleIncomingChunk(n, k) /\ UNCHANGED windowVars
  /\ UNCHANGED <<shotVars, kindVars, ended>>

\* TIMER.
Timer ==
  /\ ~ended
  /\ HandleTimers
  /\ UNCHANGED <<windowVars, shotVars, kindVars, ended>>

\* Time passes for a download.
Late(r) ==
  /\ ~ended
  /\ BecomesLate(r)
  /\ UNCHANGED <<windowVars, shotVars, kindVars, ended>>

ClientsNext ==
  \/ ~ended /\ OwnStep /\ UNCHANGED kindVars
  \/ \E c \in Chunk : Receive(c[1], c[2])
  \/ Timer
  \/ \E r \in Request : Late(r)
  \/ /\ ~ended
     /\ ClearStat \/ \E c \in Chunk : Lose(c)
     /\ UNCHANGED <<windowVars, shotVars, kindVars, ended>>

ClientsSpec == ClientsInit /\ [][ClientsNext]_allVars

\* Time passes, the timer strikes again and again, and a chunk that is asked for
\* again and again arrives some day.  Nothing about requests or windows.
ClientsFairness ==
  /\ \A r \in Request : WF_allVars(Late(r))
  /\ WF_allVars(Timer)
  /\ \A c \in Chunk : SF_allVars(Receive(c[1], c[2]))

FairClientsSpec == ClientsSpec /\ ClientsFairness

-----------------------------------------------------------------------------
(***************************************************************************)
(* Properties.                                                             *)
(***************************************************************************)

\* Every download ends, unless the simulation does, as long as the network does
\* not lose a chunk for ever.
DownloadsEnd ==
  \A r \in Request : r \in current_downloads ~> r \notin current_downloads \/ ended

\* The client of windows never stops: whatever is lost, repeated or shared between
\* downloads of different windows, the next window is scheduled in the end.
WindowsGoOn == arrival = 0 ~> arrival > 0
=============================================================================
