SPECIFICATION TwoSpec
CHECK_DEADLOCK FALSE
SYMMETRY Symmetry
CONSTANTS
  Chunk = {c1, c2}
  Absent = Absent
  Unset = Unset
  Infinite = Infinite
  CheckPeriod = 2
  TcInit = 2
  TcNameInit = 1
  Target = 1
  MaxTc = 3
  MaxTime = 6
  MaxTwoTime = 3
INVARIANTS SizesAreExact BothSweptInTime AverageIsBounded
PROPERTIES ImplementsContents ImplementsNames
