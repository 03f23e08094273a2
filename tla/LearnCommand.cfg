CONSTANTS
  s1 = s1
  s2 = s2
  l1 = l1
  l2 = l2
  x1 = x1
  None = None
  Sessions <- MCSessions
  Learners <- MCLearners
  Cancellers <- MCCancellers
  Callers <- MCCallers
  Listeners <- MCListeners
  MaxSerial = 3
  ProviderSuspends = TRUE
SPECIFICATION LearnFairSpec
INVARIANTS
  FreshCapture
  CaptureOfItsCommand
PROPERTIES
  NotCancelledWhileRunning
  LearnReturns
