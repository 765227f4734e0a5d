-------------------------- MODULE SimulationCycles --------------------------
(***************************************************************************)
(* What the engines and the master compute together: one simulation that   *)
(* goes through MC-TTL cycles, each with a transient and a steady phase,   *)
(* and ends after a steady phase.                                          *)
(***************************************************************************)
EXTENDS Integers

CONSTANT MaxCycles  \* no cycle is begun after cycle MaxCycles + 1

VARIABLES phase, cycle

vars == <<phase, cycle>>

Init == phase = "transient" /\ cycle = 1

\* The stable check succeeds.
Stabilize == phase = "transient" /\ phase' = "steady" /\ UNCHANGED cycle

\* The measured sizes are not consistent with the targets.
NextCycle ==
  /\ phase = "steady" /\ cycle <= MaxCycles
  /\ phase' = "transient"
  /\ cycle' = cycle + 1

End == phase = "steady" /\ phase' = "ended" /\ UNCHANGED cycle

Next == Stabilize \/ NextCycle \/ End

Spec == Init /\ [][Next]_vars
=============================================================================
