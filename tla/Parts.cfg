SPECIFICATION MCSpec
CONSTANTS
  Kinds = {"fan", "light", "switch", "cover", "media_player", "climate", "remote"}
  Callers = {t1, t2}
  Speeds = 4
  Levels = {1, 2, 5}
  Percentages = {1, 34, 100}
  Brightnesses = {1, 128, 255}
  Positions = {49, 50}
  Sources = {1, 2}
  Modes = {1, 2}
  Temperatures = {41, 43}
  FanModes = {1}
  MaxCalls = 3
  b1 = b1  b2 = b2
  s1 = s1  r1 = r1
  Nobody = Nobody
  None = None
  NoNumber = NoNumber
  Presses = {p1, p2, p3}
  Signals = {s1}
  Receivers = {r1, Nobody}
  Bindings = {b1, b2}
  Binding <- MCBinding
  Window = 3
  Dedup = 1
  Watts = {1, 2, 3}
  OnAbove = 3
  OffBelow = 1
  Debounce = 2
  Bodies <- MCBodies
  MaxBytes = 5
  MaxTicks = 6
  IdleTrim = 20000
  TerminatorSpace = 50000
  SlThreshold = 500
  GapThreshold = 25000
  HashBin = 20
  Tasks = {t1, t2}
  Devices = {d1, d2}
  Platforms = {fan}
  MaxSetups = 2
  MaxEntries = 2
INVARIANTS
  ShownIsHeard
  
  FiresOnFreshPresses
  StaleOnlyIfBounced
  PlaysWhatWasLearned
  ReplayIsRecognised
  OneGate
  SniffersAreOwned
  StoredHaveEntities
PROPERTIES
  FiresAreRare
SYMMETRY Symmetry
CHECK_DEADLOCK FALSE
