CONSTANTS
  r1 = r1
  r2 = r2
  k1 = k1
  k2 = k2
  h1 = h1
  h2 = h2
  x1 = x1
  None = None
  Receivers <- MCReceivers
  ReceiverList <- MCReceiverList
  Keys <- MCKeys
  Handlers <- TwoHandlers
  Dismissers <- OneDismisser
  InitialCatalogs <- MCInitialCatalogs
  MaxRows = 4
  MaxPerRemote = 2
  MaxTotal = 3
  EvictHits = 2
  EvictAge = 1
  MaxCaptures = 3
  MaxSetups = 1
SPECIFICATION Spec
SYMMETRY MCSymmetry
CHECK_DEADLOCK FALSE
INVARIANTS
  KnownRowsStay
  HitsAreCaptures
  LeaksOnlyDuplicates
  CatalogInv
