SPECIFICATION FairSpec
CONSTANTS
  Engine = {e1, e2, e3}
  MaxCycles = 2
  MaxContinues = 4
INVARIANTS NoSignalLost DecisionUnderstood LockStep OneEventAhead
PROPERTIES EveryRoundIsAnswered ImplementsSimulation
