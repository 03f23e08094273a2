CONSTANTS
  p1 = p1
  p2 = p2
  p3 = p3
  e1 = e1
  e2 = e2
  None = None
  Senders <- TwoSenders
  Emitters <- TwoEmitters
  RepeatGap = 1
  StaggerGap = 3
  Timeout = 50
  MaxSends = 4
  MaxTime = 5
SPECIFICATION Spec
CHECK_DEADLOCK FALSE
PROPERTIES
  StaggeredInLedger
