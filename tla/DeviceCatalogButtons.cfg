CONSTANTS
  d1 = d1
  d2 = d2
  k1 = k1
  k2 = k2
  h1 = h1
  h2 = h2
  Name = Name
  None = None
  Devices <- MCDevices
  Keys <- MCKeys
  Handlers <- OneHandler
  Primaries <- MCPrimaries
  PrimaryLast <- MCPrimaryLast
  InitialStores <- MCInitialStores
  Edits <- MCEdits
  MaxCalls = 2
  MaxStarts = 1
SPECIFICATION Spec
CHECK_DEADLOCK FALSE
INVARIANTS
  ButtonsSendWhatIsStored
