CONSTANTS
  d1 = d1
  d2 = d2
  k1 = k1
  k2 = k2
  h1 = h1
  h2 = h2
  Name = Name
  None = None
  Devices <- MCDevices
  Keys <- MCKeys
  Handlers <- MCHandlers
  Primaries <- MCPrimaries
  PrimaryLast <- MCPrimaryLast
  InitialStores <- MCInitialStores
  Edits <- MCEdits
  MaxCalls = 3
  MaxStarts = 1
SPECIFICATION Spec
SYMMETRY MCSymmetry
CHECK_DEADLOCK FALSE
INVARIANTS
  DeviceInv
  StoredIsRegistered
  EntitiesFollow
PROPERTIES
  NothingComesBack
  SavesLoseOnlyWhatMoved
