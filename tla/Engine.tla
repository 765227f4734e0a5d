------------------------------- MODULE Engine -------------------------------
(***************************************************************************)
(* The parallel engines of ccnSim and the Akaroa master: the life cycle    *)
(* of the statistics module (src/statistics/statistics.cc) as the events   *)
(* of its simulation and the signals of the master drive it.               *)
(*                                                                         *)
(* Each engine is one process that simulates the whole network.  In its    *)
(* transient phase it runs a "centralized stable check" every ts seconds;  *)
(* once enough nodes have a full window of samples it sends them to the    *)
(* master and sleeps until a signal comes.  In its steady phase it waits   *)
(* for the END event, sends the measured cache size, and sleeps again.     *)
(* A signal is 30 (continue) or 31 (stop); what it means depends on the    *)
(* flag steadyState of the engine that catches it.                         *)
(*                                                                         *)
(* The master is not part of the repository: it decides once it has the    *)
(* same kind of observation from every engine, then signals the engines    *)
(* one at a time.  Signals 30 and 31 are not queued by the operating       *)
(* system: a second one before the first is caught would be lost.          *)
(*                                                                         *)
(* A stable check that finds too few full windows only reschedules itself  *)
(* and is not a step here; StableSampling models how the windows fill.     *)
(***************************************************************************)
EXTENDS Integers, FiniteSets

CONSTANTS
  Engine,        \* the processes, num_threads of them
  MaxCycles,     \* 20 in the code: an engine gives up in a later cycle
  MaxContinues   \* bound: how often the master answers "continue"

ASSUME EngineAssumption ==
  /\ IsFiniteSet(Engine) /\ Engine # {}
  /\ MaxCycles \in Nat
  /\ MaxContinues \in Nat

Continue == 30
Stop     == 31

\* paramNum of the two kinds of observations; None while there is no observation.
None         == 0
MeasuredSize == 1
HitMiss      == 2

VARIABLES
  pc,                  \* what the process of an engine is doing
  check_scheduled,     \* centralized_stable_check is among the future events
  end_scheduled,       \* end is among the future events
  steadyState, signal_received, stop_simulation,  \* globals of statistics.cc
  sim_cycles,          \* statistics::sim_cycles
  observed,            \* master: the observation it holds of each engine
  pending,             \* signals sent to an engine and not caught yet
  to_signal,           \* master: the engines it still has to signal
  signal,              \* master: the signal it is sending, the last one it sent
  continues,           \* how often the master said continue
  decided, acted       \* history: decisions of the master; those an engine acted on

engineVars == <<pc, check_scheduled, end_scheduled, sim_cycles, acted>>
flagVars   == <<steadyState, signal_received, stop_simulation>>
masterVars == <<to_signal, signal, continues, decided>>
vars       == <<engineVars, flagVars, observed, pending, masterVars>>

Running     == "running"      \* executing the events of the simulation
StableWait  == "stable wait"    \* while(!signal_received) after HitMiss
StableSleep == "stable sleep"   \* the sleep(1) after it
EndWait     == "end wait"     \* while(!signal_received) after the END event
EndSleep    == "end sleep"    \* the sleep(1) after it
Ended       == "ended"        \* endSimulation()
Aborted     == "aborted"      \* the simulation kernel refused a scheduleAt

\* initialize: the first stable check is scheduled, END is not.
Init ==
  /\ pc = [e \in Engine |-> Running]
  /\ check_scheduled = [e \in Engine |-> TRUE]
  /\ end_scheduled = [e \in Engine |-> FALSE]
  /\ steadyState = [e \in Engine |-> FALSE]
  /\ signal_received = [e \in Engine |-> FALSE]
  /\ stop_simulation = [e \in Engine |-> FALSE]
  /\ sim_cycles = [e \in Engine |-> 1]
  /\ observed = [e \in Engine |-> None]
  /\ pending = [e \in Engine |-> {}]
  /\ to_signal = {} /\ signal = Continue
  /\ continues = 0 /\ decided = 0
  /\ acted = [e \in Engine |-> 0]

-----------------------------------------------------------------------------
(***************************************************************************)
(* The engine: statistics::handleMessage.                                  *)
(***************************************************************************)

\* Mutant of ScheduleCheck: nothing is scheduled.
ScheduleNothing(e) == pc' = [pc EXCEPT ![e] = Running] /\ UNCHANGED check_scheduled

\* scheduleAt of the stable check: an event that is already scheduled is refused.
ScheduleCheck(e) ==
  IF check_scheduled[e]
  THEN pc' = [pc EXCEPT ![e] = Aborted] /\ UNCHANGED check_scheduled
  ELSE /\ check_scheduled' = [check_scheduled EXCEPT ![e] = TRUE]
       /\ pc' = [pc EXCEPT ![e] = Running]

\* CENTRALIZED_STABLE_CHECK with enough full windows.
StableCheck(e) ==
  /\ pc[e] = Running /\ check_scheduled[e]
  /\ check_scheduled' = [check_scheduled EXCEPT ![e] = FALSE]
  /\ observed' = [observed EXCEPT ![e] = HitMiss]
  /\ pc' = [pc EXCEPT ![e] = StableWait]
  /\ UNCHANGED <<end_scheduled, sim_cycles, acted, flagVars, pending, masterVars>>

\* Mutant of StableWake: the engine does not wait.
StableWakeAtOnce(e) ==
  /\ pc[e] = StableWait
  /\ pc' = [pc EXCEPT ![e] = StableSleep]
  /\ UNCHANGED <<check_scheduled, end_scheduled, sim_cycles, acted,
                 flagVars, observed, pending, masterVars>>

\* The loop sees the flag; the flag is cleared only after the sleep.
StableWake(e) ==
  /\ pc[e] = StableWait /\ signal_received[e]
  /\ pc' = [pc EXCEPT ![e] = StableSleep]
  /\ UNCHANGED <<check_scheduled, end_scheduled, sim_cycles, acted,
                 flagVars, observed, pending, masterVars>>

\* After the sleep: either the steady phase begins and END is scheduled, or the
\* windows are emptied and the check goes on.
StableAct(e) ==
  /\ pc[e] = StableSleep
  /\ signal_received' = [signal_received EXCEPT ![e] = FALSE]
  /\ IF ~steadyState[e]
     THEN ScheduleCheck(e) /\ UNCHANGED end_scheduled
     ELSE /\ pc' = [pc EXCEPT ![e] = IF end_scheduled[e] THEN Aborted ELSE Running]
          /\ end_scheduled' = [end_scheduled EXCEPT ![e] = TRUE]
          /\ UNCHANGED check_scheduled
  /\ acted' = [acted EXCEPT ![e] = @ + 1]
  /\ UNCHANGED <<steadyState, stop_simulation, sim_cycles, observed,
                 pending, masterVars>>

\* END: the measured size is sent to the master.
EndEvent(e) ==
  /\ pc[e] = Running /\ end_scheduled[e]
  /\ end_scheduled' = [end_scheduled EXCEPT ![e] = FALSE]
  /\ observed' = [observed EXCEPT ![e] = MeasuredSize]
  /\ pc' = [pc EXCEPT ![e] = EndWait]
  /\ UNCHANGED <<check_scheduled, sim_cycles, acted, flagVars, pending, masterVars>>

\* Mutants of EndWake: the engine does not wait; it waits for the stop.
EndWakeAtOnce(e) ==
  /\ pc[e] = EndWait
  /\ signal_received' = [signal_received EXCEPT ![e] = FALSE]
  /\ pc' = [pc EXCEPT ![e] = EndSleep]
  /\ UNCHANGED <<check_scheduled, end_scheduled, sim_cycles, acted,
                 steadyState, stop_simulation, observed, pending, masterVars>>
EndWakeOnStop(e)    == stop_simulation[e] /\ EndWakeAtOnce(e)

\* Here the flag is cleared before the sleep.
EndWake(e) ==
  /\ pc[e] = EndWait /\ signal_received[e]
  /\ signal_received' = [signal_received EXCEPT ![e] = FALSE]
  /\ pc' = [pc EXCEPT ![e] = EndSleep]
  /\ UNCHANGED <<check_scheduled, end_scheduled, sim_cycles, acted,
                 steadyState, stop_simulation, observed, pending, masterVars>>

\* Mutant of GivesUp: one cycle too many.
GivesUpLate(e) == sim_cycles[e] > MaxCycles + 1

GivesUp(e) == sim_cycles[e] > MaxCycles

\* After the sleep: the simulation ends, or another MC-TTL cycle begins.
EndAct(e) ==
  /\ pc[e] = EndSleep
  /\ IF stop_simulation[e] \/ GivesUp(e)
     THEN pc' = [pc EXCEPT ![e] = Ended] /\ UNCHANGED <<sim_cycles, check_scheduled>>
     ELSE sim_cycles' = [sim_cycles EXCEPT ![e] = @ + 1] /\ ScheduleCheck(e)
  /\ acted' = [acted EXCEPT ![e] = @ + 1]
  /\ UNCHANGED <<end_scheduled, flagVars, observed, pending, masterVars>>

\* Mutant of SignalHandler: a stop ends the simulation in either phase.
SignalHandlerStops(e, s) ==
  /\ s \in pending[e]
  /\ pc[e] \notin {Ended, Aborted}
  /\ pending' = [pending EXCEPT ![e] = @ \ {s}]
  /\ signal_received' = [signal_received EXCEPT ![e] = TRUE]
  /\ steadyState' = [steadyState EXCEPT ![e] = (s = Stop)]
  /\ stop_simulation' = [stop_simulation EXCEPT ![e] = (s = Stop)]
  /\ UNCHANGED <<engineVars, observed, masterVars>>

\* signal_handler, which runs between any two instructions of the process.
SignalHandler(e, s) ==
  /\ s \in pending[e]
  /\ pc[e] \notin {Ended, Aborted}
  /\ pending' = [pending EXCEPT ![e] = @ \ {s}]
  /\ signal_received' = [signal_received EXCEPT ![e] = TRUE]
  /\ steadyState' = [steadyState EXCEPT ![e] = (s = Stop)]
  /\ stop_simulation' = [stop_simulation EXCEPT ![e] = (s = Stop /\ steadyState[e])]
  /\ UNCHANGED <<engineVars, observed, masterVars>>

-----------------------------------------------------------------------------
(***************************************************************************)
(* The master.                                                             *)
(***************************************************************************)

\* Every engine has sent the same kind of observation, and the signals of the
\* decision before are out.
Decide(s) ==
  /\ to_signal = {}
  /\ \E p \in {MeasuredSize, HitMiss} : \A e \in Engine : observed[e] = p
  /\ s = Continue => continues < MaxContinues
  /\ continues' = IF s = Continue THEN continues + 1 ELSE continues
  /\ signal' = s
  /\ to_signal' = Engine
  /\ observed' = [e \in Engine |-> None]
  /\ decided' = decided + 1
  /\ UNCHANGED <<engineVars, flagVars, pending>>

\* kill(pid, signal)
SendSignal(e) ==
  /\ e \in to_signal
  /\ to_signal' = to_signal \ {e}
  /\ pending' = [pending EXCEPT ![e] = @ \cup {signal}]
  /\ UNCHANGED <<engineVars, flagVars, observed, signal, continues, decided>>

-----------------------------------------------------------------------------
AllEnded == \A e \in Engine : pc[e] = Ended

Step(e) ==
  \/ StableCheck(e) \/ StableWake(e) \/ StableAct(e)
  \/ EndEvent(e) \/ EndWake(e) \/ EndAct(e)
  \/ \E s \in {Continue, Stop} : SignalHandler(e, s)

\* The engines are done, which is not a deadlock.
Done == AllEnded /\ UNCHANGED vars

Next ==
  \/ \E e \in Engine : Step(e) \/ SendSignal(e)
  \/ \E s \in {Continue, Stop} : Decide(s)
  \/ Done

Spec == Init /\ [][Next]_vars

\* Processes and the operating system make progress, the master answers when it
\* has all observations, and the windows of samples fill up in the end.
Fairness ==
  /\ \A e \in Engine : WF_vars(Step(e)) /\ WF_vars(SendSignal(e))
  /\ WF_vars(\E s \in {Continue, Stop} : Decide(s))

FairSpec == Spec /\ Fairness

-----------------------------------------------------------------------------
(***************************************************************************)
(* Properties.                                                             *)
(***************************************************************************)
\* No signal is lost: a signal on its way to an engine finds it waiting, with
\* the signal before caught and consumed.  Clearing signal_received after the
\* wait would otherwise throw away the answer to a later observation.
NoSignalLost ==
  \A e \in Engine : e \in to_signal \/ pending[e] # {} =>
    /\ pc[e] \in {StableWait, EndWait}
    /\ ~signal_received[e]
    /\ ~(e \in to_signal /\ pending[e] # {})

\* Every engine does what the master decided, although the two signals mean
\* different things in the two phases: once a signal has ended a wait, the flags
\* the engine is about to read say what the master said.
DecisionUnderstood ==
  \A e \in Engine :
    /\ pc[e] = StableSleep => (steadyState[e] <=> signal = Stop) /\ ~stop_simulation[e]
    /\ pc[e] = EndSleep => (stop_simulation[e] <=> signal = Stop)

\* Between two decisions the engines are at most one apart, and those that have
\* acted on the same decisions are in the same cycle and in the same phase.
LockStep ==
  \A e, f \in Engine :
    /\ acted[e] \in {decided - 1, decided}
    /\ acted[e] = acted[f] =>
         /\ sim_cycles[e] = sim_cycles[f]
         /\ pc[e] \in {StableWait, StableSleep} => pc[f] \notin {EndWait, EndSleep, Ended}
         /\ pc[e] = Ended => pc[f] = Ended

\* An engine that runs has exactly one of its two events ahead of it, the one of
\* its phase, and the kernel never refuses one.
OneEventAhead ==
  \A e \in Engine :
    /\ pc[e] # Aborted
    /\ pc[e] = Running => /\ check_scheduled[e] # end_scheduled[e]
                          /\ end_scheduled[e] = steadyState[e]

\* An engine that has sent an observation is answered once all have.
EveryRoundIsAnswered ==
  \A e \in Engine :
    (\A f \in Engine : observed[f] # None) ~> pc[e] \notin {StableWait, EndWait}

\* The phase an engine is in, which changes when it acts on a decision, and not
\* when the signal changes steadyState.
PhaseOf(e) ==
  CASE pc[e] = Ended -> "ended"
    [] pc[e] \in {EndWait, EndSleep} -> "steady"
    [] pc[e] \in {StableWait, StableSleep} -> "transient"
    [] OTHER -> IF end_scheduled[e] THEN "steady" ELSE "transient"

\* An engine that has acted on the fewest decisions.
Slowest == CHOOSE e \in Engine : \A f \in Engine : acted[e] <= acted[f]

\* All engines together run one simulation: seen through the slowest of them,
\* they go through the phases and cycles of one run, never back and never past.
Simulation == INSTANCE SimulationCycles WITH
  phase <- PhaseOf(Slowest), cycle <- sim_cycles[Slowest]
ImplementsSimulation == Simulation!Spec
=============================================================================
