---------------------------- MODULE RecencyCache ----------------------------
(***************************************************************************)
(* What a cache with Least Recently Used replacement promises: it holds at *)
(* most size chunks in the order of their last use, a use moves a chunk to *)
(* the front, and a full cache makes room by dropping the last one.        *)
(***************************************************************************)
EXTENDS Integers, Sequences, SequencesExt

CONSTANTS
  Chunk, Sizes,
  Null  \* no chunk

VARIABLES
  size,   \* how many chunks it may hold
  order,  \* the chunks held, the most recently used first
  answer  \* the last lookup: the chunk, and whether it was found

vars == <<size, order, answer>>

Held == ToSet(order)

\* The k-th chunk of s in front of the others.
ToFront(k, s) == <<s[k]>> \o RemoveAt(s, k)

Init == size \in Sizes /\ order = <<>> /\ answer = [chunk |-> Null, found |-> FALSE]

Renew(c) == \E k \in DOMAIN order : order[k] = c /\ order' = ToFront(k, order)

Lookup(c) ==
  /\ answer' = [chunk |-> c, found |-> c \in Held]
  /\ Renew(c) \/ (c \notin Held /\ UNCHANGED order)

Add(c) ==
  /\ c \notin Held
  /\ order' = <<c>> \o IF Len(order) = size THEN SubSeq(order, 1, size - 1) ELSE order

Store(c) == (Renew(c) \/ Add(c)) /\ UNCHANGED answer

Flush == order' = <<>> /\ UNCHANGED answer

Next ==
  /\ (\E c \in Chunk : Lookup(c) \/ Store(c)) \/ Flush
  /\ UNCHANGED size

Spec == Init /\ [][Next]_vars
=============================================================================
