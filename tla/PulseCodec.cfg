SPECIFICATION CodecSpec
CONSTANTS
  Bodies <- MCBodies
  MaxBytes = 3
  MaxTicks = 0
  IdleTrim = 20000
  TerminatorSpace = 50000
  SlThreshold = 500
  GapThreshold = 25000
  HashBin = 20
INVARIANT
  BufferUnpacks
CHECK_DEADLOCK FALSE
