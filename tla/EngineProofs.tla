---------------------------- MODULE EngineProofs ----------------------------
(***************************************************************************)
(* Proofs about Engine, for every number of engines and of cycles.         *)
(*                                                                         *)
(* None of the properties of Engine is inductive.  IInv says in which      *)
(* stage of the round of observations and signals an engine may be         *)
(* (Round), and that an engine that has still to act on the last decision  *)
(* will come to the phase and the cycle of those that have acted on it     *)
(* (Together).                                                             *)
(***************************************************************************)
EXTENDS Engine, TLAPS

States == {Running, StableWait, StableSleep, EndWait, EndSleep, Ended}

TypeOK ==
  /\ pc \in [Engine -> States]
  /\ check_scheduled \in [Engine -> BOOLEAN] /\ end_scheduled \in [Engine -> BOOLEAN]
  /\ steadyState \in [Engine -> BOOLEAN] /\ signal_received \in [Engine -> BOOLEAN]
  /\ stop_simulation \in [Engine -> BOOLEAN]
  /\ sim_cycles \in [Engine -> Nat]
  /\ observed \in [Engine -> {None, MeasuredSize, HitMiss}]
  /\ pending \in [Engine -> SUBSET {Continue, Stop}]
  /\ to_signal \in SUBSET Engine
  /\ signal \in {Continue, Stop}
  /\ continues \in Nat /\ decided \in Nat
  /\ acted \in [Engine -> Nat]

-----------------------------------------------------------------------------
(***************************************************************************)
(* The stages of a round, as seen by one engine.                           *)
(***************************************************************************)

\* No signal is on its way to the engine, or waits to be looked at.
Undisturbed(e) == e \notin to_signal /\ pending[e] = {} /\ ~signal_received[e]

Waiting(e) == pc[e] \in {StableWait, EndWait}

\* The flags are those of the phase of the engine, or what the signal has made of them.
FlagsOfPhase(e) ==
  /\ ~stop_simulation[e]
  /\ steadyState[e] <=> pc[e] = EndWait \/ (pc[e] = Running /\ end_scheduled[e])
FlagsOfSignal(e) ==
  /\ steadyState[e] <=> signal = Stop
  /\ stop_simulation[e] <=> signal = Stop /\ pc[e] \in {EndWait, EndSleep}

Runs(e) ==
  /\ pc[e] = Running /\ acted[e] = decided
  /\ observed[e] = None /\ Undisturbed(e) /\ FlagsOfPhase(e)

HasObserved(e) ==
  /\ Waiting(e) /\ acted[e] = decided
  /\ observed[e] = IF pc[e] = StableWait THEN HitMiss ELSE MeasuredSize
  /\ Undisturbed(e) /\ FlagsOfPhase(e)

IsDecided(e) ==
  /\ Waiting(e) /\ acted[e] = decided - 1
  /\ observed[e] = None /\ FlagsOfPhase(e)
  /\ e \in to_signal /\ pending[e] = {} /\ ~signal_received[e]

IsSignalled(e) ==
  /\ Waiting(e) /\ acted[e] = decided - 1
  /\ observed[e] = None /\ FlagsOfPhase(e)
  /\ e \notin to_signal /\ pending[e] = {signal} /\ ~signal_received[e]

HasCaught(e) ==
  /\ Waiting(e) /\ acted[e] = decided - 1
  /\ observed[e] = None /\ FlagsOfSignal(e)
  /\ e \notin to_signal /\ pending[e] = {} /\ signal_received[e]

Sleeps(e) ==
  /\ pc[e] \in {StableSleep, EndSleep} /\ acted[e] = decided - 1
  /\ observed[e] = None /\ FlagsOfSignal(e)
  /\ e \notin to_signal /\ pending[e] = {}
  /\ signal_received[e] <=> pc[e] = StableSleep

HasEnded(e) ==
  /\ pc[e] = Ended /\ acted[e] = decided
  /\ observed[e] = None /\ Undisturbed(e)

\* An engine that runs has one event ahead of it, another engine none.
Events(e) ==
  IF pc[e] = Running THEN check_scheduled[e] <=> ~end_scheduled[e]
                     ELSE ~check_scheduled[e] /\ ~end_scheduled[e]

Stage(e) ==
  \/ Runs(e) \/ HasObserved(e) \/ IsDecided(e) \/ IsSignalled(e)
  \/ HasCaught(e) \/ Sleeps(e) \/ HasEnded(e)

Round == \A e \in Engine : Events(e) /\ Stage(e)

-----------------------------------------------------------------------------
(***************************************************************************)
(* The phases and cycles of several engines.                               *)
(***************************************************************************)

\* The phase of an engine of an inductive state, without a CASE.
Steady(e)    == pc[e] \in {EndWait, EndSleep} \/ (pc[e] = Running /\ end_scheduled[e])
Transient(e) == pc[e] \in {StableWait, StableSleep} \/ (pc[e] = Running /\ ~end_scheduled[e])

SamePlace(e, f) ==
  /\ sim_cycles[e] = sim_cycles[f]
  /\ Steady(e) <=> Steady(f)
  /\ pc[e] = Ended <=> pc[f] = Ended

\* Engine f is where engine e will be once it acts on the last signal.
IsAhead(e, f) ==
  IF Transient(e)
  THEN /\ sim_cycles[f] = sim_cycles[e]
       /\ IF signal = Stop THEN Steady(f) ELSE Transient(f)
  ELSE IF signal = Stop \/ GivesUp(e)
  THEN pc[f] = Ended /\ sim_cycles[f] = sim_cycles[e]
  ELSE Transient(f) /\ sim_cycles[f] = sim_cycles[e] + 1

Together ==
  \A e, f \in Engine :
    /\ acted[e] = acted[f] => SamePlace(e, f)
    /\ acted[e] = decided - 1 /\ acted[f] = decided => IsAhead(e, f)

IInv == TypeOK /\ Round /\ Together

\* The values of pc are different from each other, and so are those of signals
\* and of observations.
USE DEF Running, StableWait, StableSleep, EndWait, EndSleep, Ended, Aborted,
        Continue, Stop, None, MeasuredSize, HitMiss

-----------------------------------------------------------------------------
(***************************************************************************)
(* What a step of one engine leaves alone.                                 *)
(***************************************************************************)

\* What is known of engine f is as it was.
Unmoved(f) ==
  /\ pc'[f] = pc[f] /\ acted'[f] = acted[f] /\ observed'[f] = observed[f]
  /\ check_scheduled'[f] = check_scheduled[f] /\ end_scheduled'[f] = end_scheduled[f]
  /\ steadyState'[f] = steadyState[f] /\ stop_simulation'[f] = stop_simulation[f]
  /\ signal_received'[f] = signal_received[f] /\ pending'[f] = pending[f]
  /\ f \in to_signal' <=> f \in to_signal

\* An engine that is not touched stays in its stage.
LEMMA UnmovedKeepsStage ==
  ASSUME NEW f \in Engine, Round, Unmoved(f), UNCHANGED <<signal, decided>>
  PROVE  Events(f)' /\ Stage(f)'
<1>1. Events(f) /\ Stage(f)
  BY DEF Round
<1>2. Events(f)'
  BY <1>1 DEF Events, Unmoved
<1>3. Stage(f)'
  BY <1>1 DEF Unmoved, Stage, Runs, HasObserved, IsDecided, IsSignalled, HasCaught, Sleeps,
     HasEnded, Waiting, Undisturbed, FlagsOfPhase, FlagsOfSignal
<1> QED
  BY <1>2, <1>3

\* The phases and cycles stay together if no engine leaves its own.
LEMMA PlacesKept ==
  ASSUME Together, UNCHANGED <<acted, decided, sim_cycles, signal>>,
         \A e \in Engine : /\ Steady(e)' <=> Steady(e)
                           /\ Transient(e)' <=> Transient(e)
                           /\ pc'[e] = Ended <=> pc[e] = Ended
  PROVE  Together'
<1> SUFFICES ASSUME NEW e \in Engine, NEW f \in Engine
             PROVE /\ acted'[e] = acted'[f] => SamePlace(e, f)'
                   /\ acted'[e] = decided' - 1 /\ acted'[f] = decided' => IsAhead(e, f)'
  BY DEF Together
<1>1. acted[e] = acted[f] => SamePlace(e, f)
  BY DEF Together
<1>2. acted[e] = decided - 1 /\ acted[f] = decided => IsAhead(e, f)
  BY DEF Together
<1>3. SamePlace(e, f) => SamePlace(e, f)'
  BY DEF SamePlace
<1>4. IsAhead(e, f) => IsAhead(e, f)'
  BY DEF IsAhead, GivesUp
<1> QED
  BY <1>1, <1>2, <1>3, <1>4

\* The stage of an engine, given what it is doing.
LEMMA StageOf ==
  ASSUME NEW e \in Engine, Round
  PROVE  /\ pc[e] = Running => Runs(e)
         /\ Waiting(e) => HasObserved(e) \/ IsDecided(e) \/ IsSignalled(e) \/ HasCaught(e)
         /\ Waiting(e) /\ signal_received[e] => HasCaught(e)
         /\ pc[e] \in {StableSleep, EndSleep} => Sleeps(e)
         /\ pending[e] # {} => IsSignalled(e)
         /\ e \in to_signal => IsDecided(e)
         /\ observed[e] # None => HasObserved(e)
  BY DEF Round, Stage, Runs, HasObserved, IsDecided, IsSignalled, HasCaught, Sleeps, HasEnded,
     Waiting, Undisturbed

-----------------------------------------------------------------------------
(***************************************************************************)
(* The steps of an engine.                                                 *)
(***************************************************************************)
LEMMA StableCheckStep ==
  ASSUME IInv, NEW e \in Engine, StableCheck(e) PROVE IInv'
<1> USE DEF IInv, TypeOK, engineVars, flagVars, masterVars
<1>1. TypeOK'
  BY DEF StableCheck, States
<1>2. Runs(e)
  BY StageOf DEF StableCheck
<1>3. ~end_scheduled[e]
  BY DEF StableCheck, Round, Events
<1>4. ASSUME NEW f \in Engine, f # e PROVE Events(f)' /\ Stage(f)'
  BY <1>4, UnmovedKeepsStage, ZenonT(30) DEF StableCheck, Unmoved
<1>5. Events(e)' /\ HasObserved(e)'
  BY <1>2, <1>3 DEF StableCheck, Events, Runs, HasObserved, Waiting, Undisturbed, FlagsOfPhase
<1>6. Together'
  BY <1>3, PlacesKept DEF StableCheck, Steady, Transient
<1> QED
  BY <1>1, <1>4, <1>5, <1>6 DEF Round, Stage

LEMMA StableWakeStep ==
  ASSUME IInv, NEW e \in Engine, StableWake(e) PROVE IInv'
<1> USE DEF IInv, TypeOK, engineVars, flagVars, masterVars
<1>1. TypeOK'
  BY DEF StableWake, States
<1>2. HasCaught(e) /\ Events(e)
  BY StageOf DEF StableWake, Waiting, Round
<1>3. ASSUME NEW f \in Engine, f # e PROVE Events(f)' /\ Stage(f)'
  BY <1>3, UnmovedKeepsStage DEF StableWake, Unmoved
<1>4. Events(e)' /\ Sleeps(e)'
  BY <1>2 DEF StableWake, Events, HasCaught, Sleeps, FlagsOfSignal
<1>5. Together'
  BY PlacesKept DEF StableWake, Steady, Transient
<1> QED
  BY <1>1, <1>3, <1>4, <1>5 DEF Round, Stage

LEMMA EndEventStep ==
  ASSUME IInv, NEW e \in Engine, EndEvent(e) PROVE IInv'
<1> USE DEF IInv, TypeOK, engineVars, flagVars, masterVars
<1>1. TypeOK'
  BY DEF EndEvent, States
<1>2. Runs(e)
  BY StageOf DEF EndEvent
<1>3. ~check_scheduled[e]
  BY DEF EndEvent, Round, Events
<1>4. ASSUME NEW f \in Engine, f # e PROVE Events(f)' /\ Stage(f)'
  BY <1>4, UnmovedKeepsStage, ZenonT(30) DEF EndEvent, Unmoved
<1>5. Events(e)' /\ HasObserved(e)'
  BY <1>2, <1>3 DEF EndEvent, Events, Runs, HasObserved, Waiting, Undisturbed, FlagsOfPhase
<1>6. Together'
  BY PlacesKept DEF EndEvent, Steady, Transient
<1> QED
  BY <1>1, <1>4, <1>5, <1>6 DEF Round, Stage

LEMMA EndWakeStep ==
  ASSUME IInv, NEW e \in Engine, EndWake(e) PROVE IInv'
<1> USE DEF IInv, TypeOK, engineVars, flagVars, masterVars
<1>1. TypeOK'
  BY DEF EndWake, States
<1>2. HasCaught(e) /\ Events(e)
  BY StageOf DEF EndWake, Waiting, Round
<1>3. ASSUME NEW f \in Engine, f # e PROVE Events(f)' /\ Stage(f)'
  BY <1>3, UnmovedKeepsStage DEF EndWake, Unmoved
<1>4. Events(e)' /\ Sleeps(e)'
  BY <1>2 DEF EndWake, Events, HasCaught, Sleeps, FlagsOfSignal
<1>5. Together'
  BY PlacesKept DEF EndWake, Steady, Transient
<1> QED
  BY <1>1, <1>3, <1>4, <1>5 DEF Round, Stage

\* A signal is caught by an engine that waits for it, whose flags are still those
\* of its phase.
LEMMA SignalStep ==
  ASSUME IInv, NEW e \in Engine, NEW s \in {Continue, Stop}, SignalHandler(e, s) PROVE IInv'
<1> USE DEF IInv, TypeOK, engineVars, flagVars, masterVars
<1>1. TypeOK'
  BY DEF SignalHandler
<1>2. IsSignalled(e) /\ Events(e)
  <2>1. pending[e] # {}
    BY DEF SignalHandler
  <2> QED
    BY <2>1, StageOf DEF Round
<1>0. s = signal
  BY <1>2 DEF SignalHandler, IsSignalled
<1>3. ASSUME NEW f \in Engine, f # e PROVE Events(f)' /\ Stage(f)'
  BY <1>3, UnmovedKeepsStage, ZenonT(30) DEF SignalHandler, Unmoved
<1>4. Events(e)' /\ HasCaught(e)'
  <2>1. /\ pc' = pc /\ acted' = acted /\ decided' = decided /\ observed' = observed
        /\ check_scheduled' = check_scheduled /\ end_scheduled' = end_scheduled
        /\ to_signal' = to_signal /\ signal' = signal
        /\ signal_received'[e] /\ pending'[e] = {}
    BY <1>0, <1>2 DEF SignalHandler, IsSignalled
  <2>2. FlagsOfSignal(e)'
    BY <1>0, <1>2 DEF SignalHandler, IsSignalled, Waiting, FlagsOfPhase, FlagsOfSignal
  <2> QED
    BY <1>2, <2>1, <2>2 DEF Events, IsSignalled, HasCaught, Waiting
<1>5. Together'
  BY PlacesKept DEF SignalHandler, Steady, Transient
<1> QED
  BY <1>1, <1>3, <1>4, <1>5 DEF Round, Stage

-----------------------------------------------------------------------------
(***************************************************************************)
(* The steps that act on a decision.                                       *)
(***************************************************************************)

\* Engine e acts on the last decision, and goes where IsAhead says.
Acts(e) ==
  /\ acted[e] = decided - 1 /\ acted' = [acted EXCEPT ![e] = @ + 1]
  /\ UNCHANGED <<decided, signal>>
  /\ \A f \in Engine \ {e} : /\ pc'[f] = pc[f] /\ end_scheduled'[f] = end_scheduled[f]
                             /\ sim_cycles'[f] = sim_cycles[f]
  /\ IF Transient(e)
     THEN /\ sim_cycles'[e] = sim_cycles[e]
          /\ IF signal = Stop THEN Steady(e)' ELSE Transient(e)'
     ELSE IF signal = Stop \/ GivesUp(e)
     THEN pc'[e] = Ended /\ sim_cycles'[e] = sim_cycles[e]
     ELSE Transient(e)' /\ sim_cycles'[e] = sim_cycles[e] + 1

\* It comes to where the engines are that have acted before, and the others
\* will come to where it is.
LEMMA ActKeepsTogether ==
  ASSUME TypeOK, Round, Together, NEW e \in Engine, Acts(e)
  PROVE  Together'
<1> USE DEF TypeOK, Acts
<1> SUFFICES ASSUME NEW f \in Engine, NEW g \in Engine
             PROVE /\ acted'[f] = acted'[g] => SamePlace(f, g)'
                   /\ acted'[f] = decided' - 1 /\ acted'[g] = decided' => IsAhead(f, g)'
  BY DEF Together
<1>1. acted'[e] = decided' /\ decided' # decided' - 1
  OBVIOUS
<1>2. ASSUME NEW h \in Engine, h # e
      PROVE /\ acted'[h] = acted[h] /\ pc'[h] = pc[h] /\ sim_cycles'[h] = sim_cycles[h]
            /\ Steady(h)' <=> Steady(h)
            /\ Transient(h)' <=> Transient(h)
            /\ GivesUp(h)' <=> GivesUp(h)
            /\ acted[h] = decided => IsAhead(e, h)
            /\ acted[h] = decided - 1 => SamePlace(e, h)
  <2>1. acted'[h] = acted[h] /\ pc'[h] = pc[h] /\ sim_cycles'[h] = sim_cycles[h]
        /\ end_scheduled'[h] = end_scheduled[h]
    BY <1>2
  <2>2. (Steady(h)' <=> Steady(h)) /\ (Transient(h)' <=> Transient(h))
    BY <2>1 DEF Steady, Transient
  <2>3. GivesUp(h)' <=> GivesUp(h)
    BY <2>1 DEF GivesUp
  <2>4. /\ acted[h] = decided => IsAhead(e, h)
        /\ acted[h] = decided - 1 => SamePlace(e, h)
    BY DEF Together
  <2> QED
    BY <2>1, <2>2, <2>3, <2>4
<1>3. CASE f # e /\ g # e
  <2>1. acted[f] = acted[g] => SamePlace(f, g)
    BY DEF Together
  <2>2. acted[f] = decided - 1 /\ acted[g] = decided => IsAhead(f, g)
    BY DEF Together
  <2> QED
    BY <1>2, <1>3, <2>1, <2>2 DEF SamePlace, IsAhead
<1>4. CASE f = e /\ g = e
  BY <1>1, <1>4 DEF SamePlace
<1>5. ASSUME NEW h \in Engine, h # e, acted[h] = decided
      PROVE SamePlace(e, h)' /\ SamePlace(h, e)'
  <2>1. IsAhead(e, h)
    BY <1>2, <1>5
  <2>2. /\ sim_cycles'[h] = sim_cycles[h] /\ pc'[h] = pc[h]
        /\ Steady(h)' <=> Steady(h)
        /\ Transient(h)' <=> Transient(h)
    BY <1>2, <1>5
  <2>3. /\ sim_cycles[h] = sim_cycles'[e]
        /\ \/ Transient(e)' /\ Transient(h)'
           \/ Steady(e)' /\ Steady(h)'
           \/ pc'[e] = Ended /\ pc'[h] = Ended
    BY <2>1, <2>2 DEF IsAhead
  <2> QED
    BY <2>2, <2>3 DEF SamePlace, Steady, Transient
<1>6. ASSUME NEW h \in Engine, h # e, acted[h] = decided - 1
      PROVE IsAhead(h, e)'
  <2>1. SamePlace(e, h)
    BY <1>2, <1>6
  <2>2. Transient(e) <=> Transient(h)
    BY <2>1 DEF SamePlace, Steady, Transient, States
  <2> QED
    BY <1>2, <1>6, <2>1, <2>2 DEF SamePlace, IsAhead, GivesUp
<1>7. CASE f = e /\ g # e
  BY <1>1, <1>2, <1>5, <1>7
<1>8. CASE f # e /\ g = e
  BY <1>1, <1>2, <1>5, <1>6, <1>8
<1> QED
  BY <1>3, <1>4, <1>7, <1>8

LEMMA ActedOnce ==
  ASSUME TypeOK, NEW e \in Engine, acted[e] = decided - 1,
         acted' = [acted EXCEPT ![e] = @ + 1], UNCHANGED decided
  PROVE  acted' \in [Engine -> Nat] /\ acted'[e] = decided'
<1>1. acted \in [Engine -> Nat] /\ decided \in Nat
  BY DEF TypeOK
<1>2. acted[e] + 1 \in Nat /\ acted[e] + 1 = decided
  BY <1>1
<1> QED
  BY <1>1, <1>2

LEMMA StableActStep ==
  ASSUME IInv, NEW e \in Engine, StableAct(e) PROVE IInv' /\ Acts(e)
<1>1. TypeOK /\ Round /\ Together /\ Sleeps(e) /\ Events(e)
  BY StageOf DEF IInv, StableAct, Round
<1>2. ~check_scheduled[e] /\ ~end_scheduled[e]
  BY <1>1 DEF StableAct, Events
<1>3. /\ pc' = [pc EXCEPT ![e] = Running]
      /\ steadyState[e] <=> signal = Stop
      /\ IF signal = Stop
         THEN end_scheduled' = [end_scheduled EXCEPT ![e] = TRUE] /\ UNCHANGED check_scheduled
         ELSE check_scheduled' = [check_scheduled EXCEPT ![e] = TRUE] /\ UNCHANGED end_scheduled
  BY <1>1, <1>2 DEF StableAct, ScheduleCheck, Sleeps, FlagsOfSignal
<1>4. /\ acted' = [acted EXCEPT ![e] = @ + 1]
      /\ acted' \in [Engine -> Nat] /\ acted'[e] = decided' /\ UNCHANGED <<decided, signal>>
  BY <1>1, ActedOnce DEF StableAct, Sleeps, masterVars
<1>5. check_scheduled' \in [Engine -> BOOLEAN] /\ end_scheduled' \in [Engine -> BOOLEAN]
  <2>1. check_scheduled \in [Engine -> BOOLEAN] /\ end_scheduled \in [Engine -> BOOLEAN]
    BY <1>1 DEF TypeOK
  <2> QED
    BY <1>3, <2>1
<1>6. TypeOK'
  BY <1>1, <1>3, <1>4, <1>5, ZenonT(30) DEF TypeOK, StableAct, States, masterVars
<1>7. ASSUME NEW f \in Engine, f # e
      PROVE /\ Events(f)' /\ Stage(f)'
            /\ pc'[f] = pc[f] /\ end_scheduled'[f] = end_scheduled[f]
  <2>1. /\ pc'[f] = pc[f] /\ acted'[f] = acted[f]
        /\ check_scheduled'[f] = check_scheduled[f] /\ end_scheduled'[f] = end_scheduled[f]
    BY <1>1, <1>3, <1>4, <1>7 DEF TypeOK
  <2>2. /\ signal_received'[f] = signal_received[f]
        /\ UNCHANGED <<steadyState, stop_simulation, observed, pending, to_signal>>
    BY <1>1, <1>7 DEF StableAct, TypeOK, masterVars
  <2> QED
    BY <1>1, <1>4, <2>1, <2>2, UnmovedKeepsStage DEF Unmoved
<1>8. Events(e)' /\ Runs(e)'
  <2>1. Events(e)'
    BY <1>1, <1>2, <1>3 DEF Events, TypeOK
  <2>2. /\ pc'[e] = Running /\ observed'[e] = None
        /\ e \notin to_signal' /\ pending'[e] = {} /\ ~signal_received'[e]
    BY <1>1, <1>3 DEF StableAct, Sleeps, TypeOK, masterVars
  <2>3. /\ ~stop_simulation'[e]
        /\ steadyState'[e] <=> end_scheduled'[e]
    BY <1>1, <1>2, <1>3, ZenonT(30) DEF StableAct, Sleeps, FlagsOfSignal, TypeOK
  <2> QED
    BY <1>4, <2>1, <2>2, <2>3 DEF Runs, Undisturbed, FlagsOfPhase
<1>9. /\ Transient(e)
      /\ IF signal = Stop THEN Steady(e)' ELSE Transient(e)'
  BY <1>1, <1>2, <1>3, ZenonT(30) DEF StableAct, Transient, Steady, TypeOK
<1>10. Acts(e)
  <2>1. acted[e] = decided - 1
    BY <1>1 DEF Sleeps
  <2>2. UNCHANGED sim_cycles
    BY DEF StableAct
  <2> QED
    BY <1>4, <1>7, <1>9, <2>1, <2>2 DEF Acts
<1>11. Together'
  BY <1>1, <1>10, ActKeepsTogether
<1> QED
  BY <1>6, <1>7, <1>8, <1>10, <1>11 DEF IInv, Round, Stage

LEMMA EndActStep ==
  ASSUME IInv, NEW e \in Engine, EndAct(e) PROVE IInv' /\ Acts(e)
<1>1. TypeOK /\ Round /\ Together /\ Sleeps(e) /\ Events(e)
  BY StageOf DEF IInv, EndAct, Round
<1>2. ~check_scheduled[e] /\ ~end_scheduled[e]
  BY <1>1 DEF EndAct, Events
<1>3. /\ stop_simulation[e] <=> signal = Stop
      /\ IF signal = Stop \/ GivesUp(e)
         THEN /\ pc' = [pc EXCEPT ![e] = Ended]
              /\ UNCHANGED <<sim_cycles, check_scheduled>>
         ELSE /\ pc' = [pc EXCEPT ![e] = Running]
              /\ sim_cycles' = [sim_cycles EXCEPT ![e] = @ + 1]
              /\ check_scheduled' = [check_scheduled EXCEPT ![e] = TRUE]
  BY <1>1, <1>2 DEF EndAct, ScheduleCheck, Sleeps, FlagsOfSignal
<1>4. /\ acted' = [acted EXCEPT ![e] = @ + 1]
      /\ acted' \in [Engine -> Nat] /\ acted'[e] = decided' /\ UNCHANGED <<decided, signal>>
  BY <1>1, ActedOnce DEF EndAct, Sleeps, masterVars
<1>5. /\ check_scheduled' \in [Engine -> BOOLEAN] /\ sim_cycles' \in [Engine -> Nat]
      /\ pc' \in [Engine -> States]
  <2>1. /\ check_scheduled \in [Engine -> BOOLEAN] /\ sim_cycles \in [Engine -> Nat]
        /\ pc \in [Engine -> States] /\ sim_cycles[e] + 1 \in Nat
    BY <1>1 DEF TypeOK
  <2>2. CASE signal = Stop \/ GivesUp(e)
    BY <1>3, <2>1, <2>2 DEF States
  <2>3. CASE ~(signal = Stop \/ GivesUp(e))
    BY <1>3, <2>1, <2>3 DEF States
  <2> QED
    BY <2>2, <2>3
<1>6. TypeOK'
  BY <1>1, <1>4, <1>5 DEF TypeOK, EndAct, flagVars, masterVars
<1>7. ASSUME NEW f \in Engine, f # e
      PROVE /\ Events(f)' /\ Stage(f)'
            /\ pc'[f] = pc[f] /\ end_scheduled'[f] = end_scheduled[f]
            /\ sim_cycles'[f] = sim_cycles[f]
  <2>1. /\ pc'[f] = pc[f] /\ sim_cycles'[f] = sim_cycles[f]
        /\ check_scheduled'[f] = check_scheduled[f]
    BY <1>1, <1>3, <1>7 DEF TypeOK
  <2>2. acted'[f] = acted[f] /\ UNCHANGED <<end_scheduled, flagVars, observed, pending, to_signal>>
    BY <1>1, <1>4, <1>7, ZenonT(30) DEF EndAct, TypeOK, masterVars
  <2> QED
    BY <1>1, <1>4, <2>1, <2>2, UnmovedKeepsStage DEF Unmoved, flagVars
<1>8. Events(e)' /\ Stage(e)'
  <2>1. /\ observed'[e] = None /\ e \notin to_signal' /\ pending'[e] = {}
        /\ ~signal_received'[e] /\ ~end_scheduled'[e]
    BY <1>1, <1>2 DEF EndAct, Sleeps, flagVars, masterVars
  <2>2. CASE signal = Stop \/ GivesUp(e)
    <3>1. pc'[e] = Ended /\ ~check_scheduled'[e]
      BY <1>1, <1>2, <1>3, <2>2 DEF TypeOK
    <3> QED
      BY <1>4, <2>1, <3>1 DEF Events, HasEnded, Undisturbed, Stage
  <2>3. CASE ~(signal = Stop \/ GivesUp(e))
    <3>1. pc'[e] = Running /\ check_scheduled'[e]
      BY <1>1, <1>3, <2>3 DEF TypeOK
    <3>2. ~stop_simulation'[e] /\ ~steadyState'[e]
      BY <1>1, <2>3 DEF EndAct, Sleeps, FlagsOfSignal, flagVars
    <3> QED
      BY <1>4, <2>1, <3>1, <3>2 DEF Events, Runs, Undisturbed, FlagsOfPhase, Stage
  <2> QED
    BY <2>2, <2>3
<1>9. /\ ~Transient(e)
      /\ IF signal = Stop \/ GivesUp(e)
         THEN pc'[e] = Ended /\ sim_cycles'[e] = sim_cycles[e]
         ELSE Transient(e)' /\ sim_cycles'[e] = sim_cycles[e] + 1
  <2>1. ~Transient(e) /\ end_scheduled' = end_scheduled
    BY DEF EndAct, Transient
  <2>2. CASE signal = Stop \/ GivesUp(e)
    BY <1>1, <1>3, <2>1, <2>2 DEF TypeOK
  <2>3. CASE ~(signal = Stop \/ GivesUp(e))
    <3>1. pc \in [Engine -> States] /\ sim_cycles \in [Engine -> Nat]
      BY <1>1 DEF TypeOK
    <3>2. pc'[e] = Running /\ sim_cycles'[e] = sim_cycles[e] + 1
      BY <1>3, <2>3, <3>1
    <3> QED
      BY <1>2, <2>1, <2>3, <3>2 DEF Transient
  <2> QED
    BY <2>2, <2>3
<1>10. Acts(e)
  <2>1. acted[e] = decided - 1
    BY <1>1 DEF Sleeps
  <2> QED
    BY <1>4, <1>7, <1>9, <2>1 DEF Acts
<1>11. Together'
  BY <1>1, <1>10, ActKeepsTogether
<1> QED
  BY <1>6, <1>7, <1>8, <1>10, <1>11 DEF IInv, Round

-----------------------------------------------------------------------------
(***************************************************************************)
(* The steps of the master.                                                *)
(***************************************************************************)

\* The master decides when all engines wait for it in the same phase.
LEMMA DecideStep ==
  ASSUME IInv, NEW s \in {Continue, Stop}, Decide(s) PROVE IInv'
<1>1. TypeOK /\ Round /\ Together
  BY DEF IInv
<1>2. ASSUME NEW e \in Engine PROVE HasObserved(e)
  <2>1. observed[e] # None
    BY DEF Decide
  <2> QED
    BY <1>1, <2>1, StageOf
<1>3. decided \in Nat /\ decided' = decided + 1 /\ decided' - 1 = decided
  BY <1>1 DEF Decide, TypeOK
<1>4. TypeOK'
  <2>1. continues' \in Nat /\ decided' \in Nat
    BY <1>1, <1>3 DEF Decide, TypeOK
  <2>2. observed' \in [Engine -> {None, MeasuredSize, HitMiss}]
    BY DEF Decide
  <2> QED
    BY <1>1, <2>1, <2>2 DEF Decide, TypeOK, engineVars, flagVars
<1>5. ASSUME NEW e \in Engine PROVE Events(e)' /\ IsDecided(e)'
  <2>1. Events(e)'
    BY <1>1 DEF Decide, Round, Events, engineVars
  <2>2. HasObserved(e)
    BY <1>2
  <2>3. acted'[e] = decided' - 1 /\ observed'[e] = None /\ e \in to_signal'
    BY <1>3, <2>2 DEF Decide, HasObserved, engineVars
  <2>4. IsDecided(e)'
    BY <2>2, <2>3 DEF Decide, HasObserved, IsDecided, Waiting, Undisturbed, FlagsOfPhase,
       engineVars, flagVars
  <2> QED
    BY <2>1, <2>4
<1>6. Together'
  <2>1. \A e \in Engine : acted[e] = decided /\ acted'[e] = decided' - 1
    BY <1>2, <1>5 DEF HasObserved, IsDecided
  <2>2. \A e, f \in Engine : SamePlace(e, f)
    BY <1>1, <2>1 DEF Together
  <2>3. \A e, f \in Engine : SamePlace(e, f)'
    BY <2>2 DEF Decide, SamePlace, Steady, engineVars
  <2> QED
    BY <1>3, <2>1, <2>3 DEF Together
<1> QED
  BY <1>4, <1>5, <1>6 DEF IInv, Round, Stage

LEMMA SendSignalStep ==
  ASSUME IInv, NEW e \in Engine, SendSignal(e) PROVE IInv'
<1> USE DEF IInv, TypeOK, engineVars, flagVars, masterVars
<1>1. TypeOK'
  BY DEF SendSignal
<1>2. IsDecided(e) /\ Events(e)
  BY StageOf DEF SendSignal, Round
<1>3. ASSUME NEW f \in Engine, f # e PROVE Events(f)' /\ Stage(f)'
  BY <1>3, UnmovedKeepsStage DEF SendSignal, Unmoved
<1>4. Events(e)' /\ IsSignalled(e)'
  BY <1>2 DEF SendSignal, Events, IsDecided, IsSignalled, Waiting, FlagsOfPhase
<1>5. Together'
  BY PlacesKept DEF SendSignal, Steady, Transient
<1> QED
  BY <1>1, <1>3, <1>4, <1>5 DEF Round, Stage

-----------------------------------------------------------------------------
(***************************************************************************)
(* The inductive invariant.                                                *)
(***************************************************************************)
LEMMA InitIInv == Init => IInv
<1> SUFFICES ASSUME Init PROVE IInv
  OBVIOUS
<1>1. TypeOK
  BY DEF Init, TypeOK, States
<1>2. Round
  BY DEF Init, Round, Events, Stage, Runs, Undisturbed, FlagsOfPhase
<1>3. Together
  BY DEF Init, Together, SamePlace, Steady
<1> QED
  BY <1>1, <1>2, <1>3 DEF IInv

LEMMA StutterStep == IInv /\ UNCHANGED vars => IInv'
<1> SUFFICES ASSUME IInv, UNCHANGED vars PROVE IInv'
  OBVIOUS
<1> USE DEF IInv, vars, engineVars, flagVars, masterVars
<1>1. TypeOK'
  BY DEF TypeOK
<1>2. Round'
  BY UnmovedKeepsStage DEF Unmoved, Round
<1>3. Together'
  BY PlacesKept DEF Steady, Transient
<1> QED
  BY <1>1, <1>2, <1>3

LEMMA NextStep == IInv /\ [Next]_vars => IInv'
<1> SUFFICES ASSUME IInv, [Next]_vars PROVE IInv'
  OBVIOUS
<1>1. ASSUME NEW e \in Engine, Step(e) PROVE IInv'
  BY <1>1, StableCheckStep, StableWakeStep, StableActStep, EndEventStep, EndWakeStep,
     EndActStep, SignalStep DEF Step
<1>2. ASSUME NEW e \in Engine, SendSignal(e) PROVE IInv'
  BY <1>2, SendSignalStep
<1>3. ASSUME NEW s \in {Continue, Stop}, Decide(s) PROVE IInv'
  BY <1>3, DecideStep
<1>4. CASE UNCHANGED vars
  BY <1>4, StutterStep
<1> QED
  BY <1>1, <1>2, <1>3, <1>4 DEF Next, Done

\* Every engine is in a stage of its round, and the engines stay together.
THEOREM Inductive == Spec => []IInv
<1>1. IInv /\ [Next]_vars => IInv'
  BY NextStep
<1>2. QED
  BY InitIInv, <1>1, PTL DEF Spec

\* No signal comes before the one before it is consumed, or to an engine that does
\* not wait for it.
THEOREM NoSignalLostHolds == Spec => []NoSignalLost
<1>1. IInv => NoSignalLost
  BY StageOf DEF IInv, NoSignalLost, IsDecided, IsSignalled, Waiting
<1>2. QED
  BY Inductive, <1>1, PTL

\* The flags an engine reads after a wait say what the master said.
THEOREM DecisionUnderstoodHolds == Spec => []DecisionUnderstood
<1>1. IInv => DecisionUnderstood
  BY StageOf DEF IInv, DecisionUnderstood, Sleeps, FlagsOfSignal
<1>2. QED
  BY Inductive, <1>1, PTL

\* Engines that have acted on the same decisions are in the same cycle and phase.
THEOREM LockStepHolds == Spec => []LockStep
<1>1. IInv => LockStep
  <2> SUFFICES ASSUME IInv, NEW e \in Engine, NEW f \in Engine
               PROVE /\ acted[e] \in {decided - 1, decided}
                     /\ acted[e] = acted[f] =>
                          /\ sim_cycles[e] = sim_cycles[f]
                          /\ pc[e] \in {StableWait, StableSleep} =>
                               pc[f] \notin {EndWait, EndSleep, Ended}
                          /\ pc[e] = Ended => pc[f] = Ended
    BY DEF LockStep
  <2>1. acted[e] \in {decided - 1, decided}
    BY DEF IInv, Round, Stage, Runs, HasObserved, IsDecided, IsSignalled, HasCaught, Sleeps,
       HasEnded
  <2>2. acted[e] = acted[f] => SamePlace(e, f)
    BY DEF IInv, Together
  <2> QED
    BY <2>1, <2>2 DEF SamePlace, Steady
<1>2. QED
  BY Inductive, <1>1, PTL

\* An engine that runs has the one event of its phase ahead of it, and the kernel
\* never refuses one.
THEOREM OneEventAheadHolds == Spec => []OneEventAhead
<1>1. IInv => OneEventAhead
  <2> SUFFICES ASSUME IInv, NEW e \in Engine
               PROVE /\ pc[e] # Aborted
                     /\ pc[e] = Running => /\ check_scheduled[e] # end_scheduled[e]
                                           /\ end_scheduled[e] = steadyState[e]
    BY DEF OneEventAhead
  <2>1. pc[e] # Aborted
    BY DEF IInv, TypeOK, States
  <2>2. pc[e] = Running => Runs(e) /\ Events(e)
    BY StageOf DEF IInv, Round
  <2>3. {check_scheduled[e], end_scheduled[e], steadyState[e]} \subseteq BOOLEAN
    BY DEF IInv, TypeOK
  <2> QED
    BY <2>1, <2>2, <2>3 DEF Runs, Events, FlagsOfPhase
<1>2. QED
  BY Inductive, <1>1, PTL

-----------------------------------------------------------------------------
(***************************************************************************)
(* The engines implement one simulation.                                   *)
(***************************************************************************)

\* The phase of an engine of an inductive state.
LEMMA Phases ==
  ASSUME NEW e \in Engine, pc[e] \in States
  PROVE  /\ PhaseOf(e) \in {"transient", "steady", "ended"}
         /\ PhaseOf(e) = "transient" <=> Transient(e)
         /\ PhaseOf(e) = "steady" <=> Steady(e)
         /\ PhaseOf(e) = "ended" <=> pc[e] = Ended
  BY DEF PhaseOf, States, Transient, Steady

SlowestIsLeast == Slowest \in Engine /\ \A f \in Engine : acted[Slowest] <= acted[f]

\* Some engine has acted on the fewest decisions, and Slowest is one of those.
LEMMA SlowestExists == IInv => SlowestIsLeast
<1> SUFFICES ASSUME IInv PROVE SlowestIsLeast
  OBVIOUS
<1>1. \A f \in Engine : acted[f] \in {decided - 1, decided}
  BY DEF IInv, Round, Stage, Runs, HasObserved, IsDecided, IsSignalled, HasCaught, Sleeps, HasEnded
<1>2. decided \in Nat
  BY DEF IInv, TypeOK
<1>3. \E e \in Engine : \A f \in Engine : acted[e] <= acted[f]
  <2>1. CASE \E e \in Engine : acted[e] = decided - 1
    BY <1>1, <1>2, <2>1
  <2>2. CASE \A e \in Engine : acted[e] = decided
    BY <1>2, <2>2, EngineAssumption
  <2> QED
    BY <1>1, <2>1, <2>2
<1> QED
  BY <1>3 DEF Slowest, SlowestIsLeast

LEMMA PhasesNext ==
  ASSUME NEW e \in Engine, pc'[e] \in States
  PROVE  /\ PhaseOf(e)' \in {"transient", "steady", "ended"}
         /\ PhaseOf(e)' = "transient" <=> Transient(e)'
         /\ PhaseOf(e)' = "steady" <=> Steady(e)'
         /\ PhaseOf(e)' = "ended" <=> pc'[e] = Ended
  BY DEF PhaseOf, States, Transient, Steady

LEMMA SlowestExistsNext == IInv' => SlowestIsLeast'
BY SlowestExists, PTL

\* A step by which no engine acts changes no phase and no cycle.
LEMMA OtherSteps ==
  ASSUME IInv, [Next]_vars, \A e \in Engine : ~StableAct(e) /\ ~EndAct(e)
  PROVE  /\ UNCHANGED <<acted, sim_cycles>>
         /\ \A f \in Engine : PhaseOf(f)' = PhaseOf(f)
<1> USE DEF IInv, TypeOK, engineVars, flagVars, masterVars
<1>1. ASSUME NEW e \in Engine, StableCheck(e)
      PROVE UNCHANGED <<acted, sim_cycles>> /\ \A f \in Engine : PhaseOf(f)' = PhaseOf(f)
  <2>1. ~end_scheduled[e]
    BY <1>1 DEF StableCheck, Round, Events
  <2> QED
    BY <1>1, <2>1, ZenonT(30) DEF StableCheck, PhaseOf
<1>2. ASSUME NEW e \in Engine, StableWake(e)
      PROVE UNCHANGED <<acted, sim_cycles>> /\ \A f \in Engine : PhaseOf(f)' = PhaseOf(f)
  <2>1. pc'[e] = StableSleep /\ \A f \in Engine \ {e} : pc'[f] = pc[f]
    BY <1>2 DEF StableWake
  <2> QED
    BY <1>2, <2>1 DEF StableWake, PhaseOf
<1>3. ASSUME NEW e \in Engine, EndEvent(e)
      PROVE UNCHANGED <<acted, sim_cycles>> /\ \A f \in Engine : PhaseOf(f)' = PhaseOf(f)
  BY <1>3, ZenonT(30) DEF EndEvent, PhaseOf
<1>4. ASSUME NEW e \in Engine, EndWake(e)
      PROVE UNCHANGED <<acted, sim_cycles>> /\ \A f \in Engine : PhaseOf(f)' = PhaseOf(f)
  <2>1. pc'[e] = EndSleep /\ \A f \in Engine \ {e} : pc'[f] = pc[f]
    BY <1>4 DEF EndWake
  <2> QED
    BY <1>4, <2>1 DEF EndWake, PhaseOf
<1>5. ASSUME UNCHANGED engineVars
      PROVE UNCHANGED <<acted, sim_cycles>> /\ \A f \in Engine : PhaseOf(f)' = PhaseOf(f)
  BY <1>5 DEF PhaseOf
<1>6. ASSUME NEW e \in Engine, NEW s \in {Continue, Stop}, SignalHandler(e, s)
      PROVE UNCHANGED engineVars
  BY <1>6 DEF SignalHandler
<1>7. ASSUME NEW e \in Engine, SendSignal(e) PROVE UNCHANGED engineVars
  BY <1>7 DEF SendSignal
<1>8. ASSUME NEW s \in {Continue, Stop}, Decide(s) PROVE UNCHANGED engineVars
  BY <1>8 DEF Decide
<1>9. CASE UNCHANGED vars
  BY <1>5, <1>9 DEF vars
<1> QED
  BY <1>1, <1>2, <1>3, <1>4, <1>5, <1>6, <1>7, <1>8, <1>9 DEF Next, Step, Done

\* When an engine acts, the slowest engine stays in its phase and cycle if others
\* have still to act, and goes on with the last one.
LEMMA ActSimulates ==
  ASSUME IInv, IInv', NEW e \in Engine, Acts(e)
  PROVE  [Simulation!Next]_Simulation!vars
<1>1. /\ Slowest \in Engine /\ \A f \in Engine : acted[Slowest] <= acted[f]
      /\ Slowest' \in Engine /\ \A f \in Engine : acted'[Slowest'] <= acted'[f]
  BY SlowestExists, SlowestExistsNext DEF SlowestIsLeast
<1>2. PICK s \in Engine : s = Slowest /\ \A f \in Engine : acted[s] <= acted[f]
  BY <1>1
<1>3. PICK t \in Engine : t = Slowest' /\ \A f \in Engine : acted'[t] <= acted'[f]
  BY <1>1
<1>4. /\ acted \in [Engine -> Nat] /\ decided \in Nat
      /\ acted[e] = decided - 1 /\ acted'[e] = decided /\ decided' = decided
      /\ \A f \in Engine \ {e} : acted'[f] = acted[f]
  <2>1. acted[e] = decided - 1 /\ acted' = [acted EXCEPT ![e] = @ + 1] /\ decided' = decided
    BY DEF Acts
  <2> QED
    BY <2>1, ActedOnce DEF IInv, TypeOK
<1>5. \A f \in Engine : acted[f] \in {decided - 1, decided}
  BY DEF IInv, Round, Stage, Runs, HasObserved, IsDecided, IsSignalled, HasCaught, Sleeps, HasEnded
<1>6. acted[s] = decided - 1
  BY <1>2, <1>4, <1>5
<1>7. SamePlace(s, e)
  BY <1>4, <1>6 DEF IInv, Together
<1>8. PhaseOf(Slowest) = PhaseOf(e) /\ sim_cycles[Slowest] = sim_cycles[e]
  <2>1. pc[s] \in States /\ pc[e] \in States
    BY DEF IInv, TypeOK
  <2> QED
    BY <1>2, <1>7, <2>1, Phases DEF SamePlace, States, Steady, Transient
<1>9. PhaseOf(Slowest)' = PhaseOf(t)' /\ sim_cycles[Slowest]' = sim_cycles'[t]
  BY <1>3 DEF PhaseOf
<1>10. pc[e] \in States /\ pc[t] \in States /\ pc'[e] \in States /\ pc'[t] \in States
  BY DEF IInv, TypeOK
<1>11. CASE t # e /\ acted'[t] = decided - 1
  <2>1. SamePlace(t, e)
    BY <1>4, <1>11 DEF IInv, Together
  <2>2. PhaseOf(t)' = PhaseOf(t) /\ sim_cycles'[t] = sim_cycles[t]
    BY <1>11 DEF Acts, PhaseOf
  <2>3. PhaseOf(t) = PhaseOf(e) /\ sim_cycles[t] = sim_cycles[e]
    BY <1>10, <2>1, Phases DEF SamePlace, States, Steady, Transient
  <2> QED
    BY <1>8, <1>9, <2>2, <2>3 DEF Simulation!vars
<1>12. CASE acted'[t] = decided
  <2>1. SamePlace(t, e)'
    BY <1>4, <1>12 DEF IInv, Together
  <2>2. PhaseOf(t)' = PhaseOf(e)' /\ sim_cycles'[t] = sim_cycles'[e]
    BY <1>10, <2>1, PhasesNext DEF SamePlace, States, Steady, Transient
  <2>3. CASE Transient(e) /\ signal = Stop
    <3>1. PhaseOf(e) = "transient" /\ PhaseOf(e)' = "steady" /\ sim_cycles'[e] = sim_cycles[e]
      BY <1>10, <2>3, Phases, PhasesNext DEF Acts
    <3> QED
      BY <1>8, <1>9, <2>2, <3>1 DEF Simulation!Next, Simulation!Stabilize
  <2>4. CASE Transient(e) /\ signal # Stop
    <3>1. PhaseOf(e) = "transient" /\ PhaseOf(e)' = "transient" /\ sim_cycles'[e] = sim_cycles[e]
      BY <1>10, <2>4, Phases, PhasesNext DEF Acts
    <3> QED
      BY <1>8, <1>9, <2>2, <3>1 DEF Simulation!vars
  <2>5. CASE ~Transient(e)
    <3>1. pc[e] # Ended
      <4>1. Stage(e) /\ acted[e] # decided
        BY <1>4 DEF IInv, Round
      <4> QED
        BY <4>1 DEF Stage, Runs, HasObserved, IsDecided, IsSignalled, HasCaught, Sleeps, HasEnded,
           Waiting
    <3>2. PhaseOf(e) = "steady"
      BY <1>10, <2>5, <3>1, Phases
    <3>3. CASE signal = Stop \/ GivesUp(e)
      <4>1. PhaseOf(e)' = "ended" /\ sim_cycles'[e] = sim_cycles[e]
        BY <1>10, <2>5, <3>3, PhasesNext DEF Acts
      <4> QED
        BY <1>8, <1>9, <2>2, <3>2, <4>1 DEF Simulation!Next, Simulation!End
    <3>4. CASE ~(signal = Stop \/ GivesUp(e))
      <4>1. PhaseOf(e)' = "transient" /\ sim_cycles'[e] = sim_cycles[e] + 1
        BY <1>10, <2>5, <3>4, PhasesNext DEF Acts
      <4>2. sim_cycles[e] <= MaxCycles
        BY <3>4, EngineAssumption DEF GivesUp, IInv, TypeOK
      <4> QED
        BY <1>8, <1>9, <2>2, <3>2, <4>1, <4>2 DEF Simulation!Next, Simulation!NextCycle
    <3> QED
      BY <3>3, <3>4
  <2> QED
    BY <2>3, <2>4, <2>5
<1>13. acted'[t] \in {decided - 1, decided} /\ acted'[e] = decided
  BY <1>4, <1>5
<1> QED
  BY <1>4, <1>11, <1>12, <1>13

\* Seen through the slowest of them, the engines run one simulation.
THEOREM ImplementsSimulationHolds == Spec => ImplementsSimulation
<1>1. Init => Simulation!Init
  <2> SUFFICES ASSUME Init PROVE Simulation!Init
    OBVIOUS
  <2>1. Slowest \in Engine
    BY InitIInv, SlowestExists DEF SlowestIsLeast
  <2> QED
    BY <2>1 DEF Init, Simulation!Init, PhaseOf
<1>2. IInv /\ IInv' /\ [Next]_vars => [Simulation!Next]_Simulation!vars
  <2> SUFFICES ASSUME IInv, IInv', [Next]_vars PROVE [Simulation!Next]_Simulation!vars
    OBVIOUS
  <2>1. CASE \E e \in Engine : StableAct(e) \/ EndAct(e)
    BY <2>1, StableActStep, EndActStep, ActSimulates
  <2>2. CASE \A e \in Engine : ~StableAct(e) /\ ~EndAct(e)
    <3>1. /\ UNCHANGED <<acted, sim_cycles>>
          /\ \A f \in Engine : PhaseOf(f)' = PhaseOf(f)
      BY <2>2, OtherSteps
    <3>2. Slowest \in Engine /\ Slowest' = Slowest
      BY <3>1, SlowestExists DEF Slowest, SlowestIsLeast
    <3> QED
      BY <3>1, <3>2 DEF Simulation!vars
  <2> QED
    BY <2>1, <2>2
<1>3. QED
  BY <1>1, <1>2, Inductive, PTL DEF Spec, ImplementsSimulation, Simulation!Spec
=============================================================================
