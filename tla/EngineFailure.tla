---------------------------- MODULE EngineFailure ----------------------------
(***************************************************************************)
(* The engines of a failure scenario (parameter fail_scenario of the       *)
(* strategy layer): some time after the failure of a link, when the new    *)
(* routes are there, node 0 asks the statistics module of its engine to    *)
(* look for a stable state again, whatever the engine is doing.            *)
(***************************************************************************)
EXTENDS Engine

VARIABLE rerouted  \* the event NEW_MODEL of an engine is over

failureVars == <<vars, rerouted>>

FailureInit ==
  /\ Init
  /\ rerouted = [e \in Engine |-> FALSE]

\* NEW_MODEL and checkStability: a stable check is scheduled, whatever the engine
\* has among its future events.
NewModel(e) ==
  /\ pc[e] = Running /\ ~rerouted[e]
  /\ rerouted' = [rerouted EXCEPT ![e] = TRUE]
  /\ ScheduleCheck(e)
  /\ UNCHANGED <<end_scheduled, sim_cycles, acted, flagVars, observed, pending, masterVars>>

FailureNext ==
  \/ Next /\ UNCHANGED rerouted
  \/ \E e \in Engine : NewModel(e)

FailureSpec == FailureInit /\ [][FailureNext]_failureVars
=============================================================================
