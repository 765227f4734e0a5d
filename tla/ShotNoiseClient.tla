-------------------------- MODULE ShotNoiseClient --------------------------
(***************************************************************************)
(* The client of the shot noise model, whose contents are asked for in ON  *)
(* periods only (src/clients/client_ShotNoise.cc), with the contents and   *)
(* the classes of content/ShotNoiseContentDistribution.cc.                 *)
(*                                                                         *)
(* Nothing happens when a period ends: the state of a content is brought   *)
(* up to date by the next request for it.  A class has an own clock for    *)
(* its requests; here a request may come at any instant.                   *)
(***************************************************************************)
EXTENDS Client, Zipf

CONSTANTS
  Catalogs,       \* what the configuration file may say: sequences of classes
  toff_mult_factor,
  steadySimTime,  \* num_tot_req / totalLambda
  OnTimes,        \* lengths of an ON period, exponential in the code
  MaxTime         \* bound: the last instant

\* A class as a line of the file has it; the probabilities give its contents.
Class == [ton : Nat \ {0}, weight : Seq(Nat \ {0})]

ASSUME ShotNoiseAssumption ==
  /\ Catalogs \in SUBSET Seq(Class)
  /\ toff_mult_factor \in Nat \ {0}
  /\ steadySimTime \in Nat
  /\ OnTimes \in SUBSET (Nat \ {0}) /\ OnTimes # {}
  /\ MaxTime \in Nat

VARIABLES
  classInfo,    \* the classes
  state_flags,  \* is a content ON?  For the contents that have a state
  state_times,  \* the instant until which it is
  now,          \* simTime()
  last_on,      \* history: the last instant a content is known to be ON
  off_since     \* history: has a request found it OFF since then?

shotVars == <<classInfo, state_flags, state_times, now, last_on, off_since>>

-----------------------------------------------------------------------------
(***************************************************************************)
(* The catalog.                                                            *)
(***************************************************************************)

\* The last content of the first i classes.
LessPopular(classes, i) ==
  LET sum[j \in 0 .. Len(classes)] ==
        IF j = 0 THEN 0 ELSE sum[j - 1] + Len(classes[j].weight)
  IN sum[i]

\* The first content of class i.
MostPopular(classes, i) == LessPopular(classes, i - 1) + 1

Toff(classes, i) == toff_mult_factor * classes[i].ton

\* The class of a content.
ClassOf(classes, c) ==
  CHOOSE i \in DOMAIN classes :
    c \in MostPopular(classes, i) .. LessPopular(classes, i)

\* The classes with a state: those before the first that is ON too long.
WithState(classes) ==
  {i \in DOMAIN classes : \A j \in 1 .. i : classes[j].ton < steadySimTime}

\* onOffContents: the contents with a state.
OnOffContents(classes) == 1 .. LessPopular(classes, Cardinality(WithState(classes)))

\* import_catalog_features and initialize_contents: all begin ON.
ShotNoiseInit ==
  /\ classInfo \in Catalogs
  /\ state_flags = [c \in OnOffContents(classInfo) |-> TRUE]
  /\ state_times \in [OnOffContents(classInfo) -> OnTimes]
  /\ now = 0
  /\ last_on = [c \in OnOffContents(classInfo) |-> 0]
  /\ off_since = [c \in OnOffContents(classInfo) |-> FALSE]

-----------------------------------------------------------------------------
(***************************************************************************)
(* Requests.                                                               *)
(***************************************************************************)

\* onOffClass: is a request for the class validated?  The client asks for
\* ton <= steadySimTime where the contents have ton < steadySimTime, and asks it
\* of every class.
OnOffClass(i) == classInfo[i].ton <= steadySimTime

\* check_state_flag and get_state_time; a content without a state is OFF at 0.
State(c) == IF c \in DOMAIN state_flags THEN <<state_flags[c], state_times[c]>>
                                        ELSE <<FALSE, 0>>

\* The loops of validateRequest: what a content that was in state s may have come
\* to.  An OFF period is Toff of the class, an ON period is drawn.
Outcomes(i, s) ==
  LET to[x \in BOOLEAN \X Nat] ==
        IF x[2] >= now THEN {x}
        ELSE IF x[1] THEN to[<<FALSE, x[2] + Toff(classInfo, i)>>]
        ELSE UNION {to[<<TRUE, x[2] + on>>] : on \in OnTimes}
  IN to[s]

\* Mutant of Keep: the instant of the transition is not stored.
KeepFlag(c, s) ==
  /\ state_flags' = [state_flags EXCEPT ![c] = s[1]]
  /\ UNCHANGED state_times

\* set_state_flag, unset_state_flag and set_state_time.
Keep(c, s) ==
  IF c \in DOMAIN state_flags
  THEN /\ state_flags' = [state_flags EXCEPT ![c] = s[1]]
       /\ state_times' = [state_times EXCEPT ![c] = s[2]]
  ELSE UNCHANGED <<state_flags, state_times>>

\* request_file: a content of class i is drawn.
Drawn(classes, i) ==
  LET last == Len(classes[i].weight)
      cdf  == Cdf(classes[i].weight)
  IN {MostPopular(classes, i) - 1 + Value(cdf, last, p) : p \in Draws(cdf, last)}

\* The request is made: content c is ON, or its class is never OFF.
RequestOn(i, c) ==
  /\ \/ /\ OnOffClass(i)
        /\ \E s \in Outcomes(i, State(c)) : s[1] /\ Keep(c, s)
     \/ ~OnOffClass(i) /\ UNCHANGED <<state_flags, state_times>>
  /\ RequestFile(c)
  /\ last_on' = [last_on EXCEPT ![c] = now]
  /\ off_since' = [off_since EXCEPT ![c] = FALSE]
  /\ UNCHANGED <<classInfo, now>>

\* Content c is OFF: the request is not made.
RequestOff(i, c) ==
  /\ OnOffClass(i)
  /\ \E s \in Outcomes(i, State(c)) : ~s[1] /\ Keep(c, s)
  /\ off_since' = [off_since EXCEPT ![c] = TRUE]
  /\ UNCHANGED <<classInfo, now, last_on, vars>>

\* ARRIVAL of class i.
ShotNoiseRequest ==
  \E i \in DOMAIN classInfo : \E c \in Drawn(classInfo, i) : RequestOn(i, c) \/ RequestOff(i, c)

\* Time goes by.
Tick ==
  /\ now < MaxTime
  /\ now' = now + 1
  /\ UNCHANGED <<classInfo, state_flags, state_times, last_on, off_since, vars>>

-----------------------------------------------------------------------------
(***************************************************************************)
(* Properties.                                                             *)
(***************************************************************************)

\* A content that has a state, was ON, has been found OFF and is ON again has been
\* OFF for the whole of its OFF period, however seldom its state is looked at.
OffPeriodsAreWhole ==
  [][\A c \in DOMAIN state_flags :
       off_since[c] /\ ~off_since'[c] =>
         now - last_on[c] > Toff(classInfo, ClassOf(classInfo, c))]_shotVars

\* A draw p gives the p-quantile of its class, and so a content of the class.
DrawIsQuantile ==
  \A i \in DOMAIN classInfo :
    LET last == Len(classInfo[i].weight)
        cdf  == Cdf(classInfo[i].weight)
    IN /\ \A p \in Draws(cdf, last) : IsQuantile(Value(cdf, last, p), cdf, last, p)
       /\ Drawn(classInfo, i) = MostPopular(classInfo, i) .. LessPopular(classInfo, i)
=============================================================================
