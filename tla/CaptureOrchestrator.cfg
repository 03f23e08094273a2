CONSTANTS
  s1 = s1
  s2 = s2
  c1 = c1
  c2 = c2
  k1 = k1
  None = None
  Sessions <- MCSessions
  Callers <- MCCallers
  Listeners <- MCListeners
  MaxSerial = 2
  MaxPolls = 2
  ProviderSuspends = TRUE
SPECIFICATION ProvidersFairSpec
INVARIANTS
  SingleFlight
  ReleaserIsOwner
  IInv
  SweepIsNotStopped
  SweepIsEnded
  PulseOfItsSession
PROPERTIES
  OneEndingPerSession
  ImplementsCaptureSessions
  CancelReturns
  ReleasedUnlessDead
