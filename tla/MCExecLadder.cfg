\* Every fault at once over two rows, until the window ends.
SPECIFICATION FairSpec
CONSTANTS
  TaskCount = 2
  Table <- PairTable
  WindowFrames = 6
  FrameTicks = 2
  WdogTicks = 8
  TraceCapacity = 12
  LogCapacity = 4
  ShortBootLimit = 5
  BootModes = {"nominal", "safe"}
  BootStreaks = {0, 5}
  Faults = {"hang", "clock unstable", "clock stopped", "late overrun"}
  MaxCost = 3
  MaxLag = 1
  MaxOverruns = 5
  MaxStrikes = 2
INVARIANTS LogNeverOverflows
PROPERTIES NoSpuriousReset MissedBoundaryIsAnnounced SafeEntryIsHonest WindowEnds
