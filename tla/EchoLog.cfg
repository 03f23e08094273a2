CONSTANTS
  p1 = p1
  e1 = e1
  e2 = e2
  r1 = r1
  Signals <- MCSignals
  SentBy <- MCSentBy
  HeardAs <- MCHeardAs
  Receivers <- MCReceivers
  Ttl = 1
  Capacity = 1
  Rate = 1
  MaxCaptures = 3
  MaxWaiting = 2
  None = None
  Senders <- MCSenders
  Emitters <- MCEmitters
  RepeatGap = 1
  StaggerGap = 2
  Timeout = 1
  MaxSends = 3
  MaxTime = 3
SPECIFICATION EchoFairSpec
CHECK_DEADLOCK FALSE
INVARIANTS
  LeaksOnlyLate
  BurstIsBounded
PROPERTIES
  StaggeredInLedger
  SendReturns
