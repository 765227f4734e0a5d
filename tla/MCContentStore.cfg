SPECIFICATION StoreSpec
SYMMETRY Symmetry
CONSTANTS
  Chunk = {c1, c2, c3, c4, c5}
  Null = Null
  Sizes = {1, 2, 4}
  StoreSizes = {0, 1, 2}
  MaxNames = 3
INVARIANTS ListIsSound NeverExits StoreIsExact StoredOnSecondRequest
PROPERTY ImplementsRecency
