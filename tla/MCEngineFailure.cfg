SPECIFICATION FailureSpec
CONSTANTS
  Engine = {e1, e2}
  MaxCycles = 1
  MaxContinues = 2
INVARIANT OneEventAhead
