SPECIFICATION Spec
CONSTANTS
  num_nodes = 3
  window = 5
  num_threads = 2
  MinWindow = 1
  Proportion = 50
  MaxEvents = 1
  MaxCycles = 2
INVARIANTS WindowsAreFilledInOrder SamplesGrow EventsAreNotAhead
CHECK_DEADLOCK FALSE
