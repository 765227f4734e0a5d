SPECIFICATION FairClientsSpec
CONSTANTS
  File = {1, 2}
  Size <- MCSizes
  MaxRequests = 3
  MaxCopies = 2
  MaxChunks = 0
  defWinSize = 1
  maxWinSize = 2
  Word = 256
  Rounding = 1
  Catalogs <- MCCatalogs
  toff_mult_factor = 2
  steadySimTime = 3
  OnTimes = {1, 2}
  MaxTime = 6
  Downsize = {1, 2}
  Requests <- MCRequests
INVARIANTS ServedInOrder WindowIsCounted DrawIsQuantile
PROPERTY DownloadsEnd WindowsGoOn OffPeriodsAreWhole
\* The simulation may end, by an error.
CHECK_DEADLOCK FALSE
