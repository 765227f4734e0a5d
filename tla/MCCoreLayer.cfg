SPECIFICATION Spec
CONSTANTS
  Face = {cl, n1}
  ClientFace = {cl}
  Chunk = {c1, own}
  Owned = {own}
  CacheSize = 1
  Aggregation = TRUE
  TwoLayer = TRUE
  NoEntry = NoEntry
  MaxInterests = 4
  MaxData = 2
  MaxCredit = 2
INVARIANTS TypeOK PendingIsAbsent FlowBalance PendingWasForwarded Balances
