---------------------------- MODULE TtlContents ----------------------------
(***************************************************************************)
(* What a TTL content store promises, whatever it does to keep its table   *)
(* small: a chunk is there for Tc time units after it was put there or was *)
(* last found there, and not an instant longer.                            *)
(***************************************************************************)
EXTENDS Integers

CONSTANTS
  Chunk,   \* chunk names
  Never    \* the last use of a chunk that is not there

VARIABLES
  now,     \* the time
  tc,      \* the time to live
  last,    \* last use of every chunk that is there
  found    \* answer to the last request

vars == <<now, tc, last, found>>

Init ==
  /\ now \in Nat
  /\ tc \in Nat
  /\ last = [c \in Chunk |-> Never]
  /\ found = FALSE

\* Time passes: a chunk whose last use is more than tc ago is gone.
Tick ==
  /\ now' = now + 1
  /\ last' = [c \in Chunk |-> IF last[c] # Never /\ now' > last[c] + tc
                              THEN Never ELSE last[c]]
  /\ UNCHANGED <<tc, found>>

\* A request finds a chunk that is there and renews it.
Request(c) ==
  /\ found' = (last[c] # Never)
  /\ last' = IF last[c] # Never THEN [last EXCEPT ![c] = now] ELSE last
  /\ UNCHANGED <<now, tc>>

\* A request does not find a chunk and puts it there.
RequestAndPut(c) ==
  /\ last[c] = Never
  /\ found' = FALSE
  /\ last' = [last EXCEPT ![c] = now]
  /\ UNCHANGED <<now, tc>>

\* A chunk is put into the store, where it was not.
Put(c) ==
  /\ last[c] = Never
  /\ last' = [last EXCEPT ![c] = now]
  /\ UNCHANGED <<now, tc, found>>

\* The store is emptied, and starts again with another time to live.
Restart ==
  /\ tc' \in Nat
  /\ last' = [c \in Chunk |-> Never]
  /\ UNCHANGED <<now, found>>

Next ==
  \/ Tick
  \/ \E c \in Chunk : Request(c) \/ RequestAndPut(c) \/ Put(c)
  \/ Restart

Spec == Init /\ [][Next]_vars
=============================================================================
