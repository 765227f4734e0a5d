---------------------------- MODULE WindowClient ----------------------------
(***************************************************************************)
(* The client that requests a window of files at once and the next window  *)
(* when its packets have come back (src/clients/client_Window.cc).  It is  *)
(* a client like any other in all that concerns Data packets and timers;   *)
(* request_file, which it overrides, is never called.                      *)
(***************************************************************************)
EXTENDS Client

CONSTANTS
  defWinSize,  \* initial and default size of the window
  maxWinSize   \* maximal size; request_file_window never returns if it exceeds
               \* the catalog, since the names of a window are distinct

ASSUME WindowAssumption ==
  /\ defWinSize \in Nat \ {0} /\ maxWinSize \in Nat
  /\ defWinSize <= maxWinSize /\ maxWinSize <= Cardinality(File)

VARIABLES
  currWinSize,   \* current size
  inFlightPkts,  \* packets that are missing before the window is taken for done
  arrival,       \* how many times ARRIVAL is scheduled; a second time is an error
  window,        \* history: the requests of the last window
  surplus        \* history: packets since then that are not the first of a request in it

windowVars == <<currWinSize, inFlightPkts, arrival, window, surplus>>

\* inFlightPkts has no value before the first ARRIVAL; nothing looks at it until then.
WindowInit ==
  /\ currWinSize = defWinSize
  /\ inFlightPkts \in {0, 1}
  /\ arrival = 1
  /\ window = {} /\ surplus = 0

\* Mutant of FilesOfWindow: a name may be drawn twice.
FilesDrawn(requests) == [requests -> File]

\* The names a window can be given, all different.
FilesOfWindow(requests) ==
  {f \in [requests -> File] : \A r, q \in requests : f[r] = f[q] => r = q}

\* ARRIVAL, request_file_window: currWinSize downloads begin.
RequestWindow ==
  LET new == requested + 1 .. requested + currWinSize IN
  /\ arrival > 0
  /\ requested + currWinSize <= MaxRequests
  /\ \E f \in FilesOfWindow(new) :
       /\ name' = [r \in Request |-> IF r \in new THEN f[r] ELSE name[r]]
       /\ SendInterests(in_transit,
            [c \in Chunk |-> Cardinality({r \in new : <<f[r], 0>> = c})])
  /\ requested' = requested + currWinSize
  /\ current_downloads' = current_downloads \cup new
  /\ inFlightPkts' = currWinSize
  /\ arrival' = arrival - 1
  /\ window' = new /\ surplus' = 0
  /\ UNCHANGED <<chunk, got, late, tot_chunks, currWinSize>>

\* WinTO: the window shrinks to its default, whatever is in flight.
WinTimeout ==
  /\ currWinSize' = defWinSize
  /\ UNCHANGED <<vars, inFlightPkts, arrival, window, surplus>>

\* The last packet in flight has come.
Due(n) == n = 0

\* The next size of the window.
Grown(size) == IF size < maxWinSize THEN size + 1 ELSE size

\* Mutant of Flown: a packet that serves no download is not counted.
FlownIfServed(n, k) == IF Served(n, k) # {} THEN inFlightPkts - 1 ELSE inFlightPkts

\* Every Data packet counts.
Flown(n, k) == inFlightPkts - 1

\* The packet is the first that a request of the window gets.
Opens(n, k) == \E r \in window \cap Served(n, k) : got[r] = <<>>

\* CCN_D, handle_incoming_chunk and then the count of the window.
ReceiveData(n, k) ==
  /\ HandleIncomingChunk(n, k)
  /\ inFlightPkts' = Flown(n, k)
  /\ IF Due(inFlightPkts') THEN /\ arrival' = arrival + 1
                                /\ currWinSize' = Grown(currWinSize)
                           ELSE UNCHANGED <<arrival, currWinSize>>
  /\ surplus' = IF Opens(n, k) THEN surplus ELSE surplus + 1
  /\ UNCHANGED window

-----------------------------------------------------------------------------
(***************************************************************************)
(* Properties.                                                             *)
(***************************************************************************)
\* The count is exact: what is in flight are the files of the window no packet has
\* come for, less the packets that came for something else (repeated packets,
\* later chunks, downloads of earlier windows).  So a window is opened early by
\* such packets and by nothing else.  The next window is scheduled when the count
\* has come down to zero, and only once, however many packets still come (the
\* kernel refuses a message that is scheduled already).
WindowIsCounted ==
  requested > 0 =>
    /\ inFlightPkts = Cardinality({r \in window : got[r] = <<>>}) - surplus
    /\ arrival = IF inFlightPkts <= 0 THEN 1 ELSE 0
    /\ currWinSize \in defWinSize .. maxWinSize
=============================================================================
