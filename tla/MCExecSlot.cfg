SPECIFICATION Spec
CONSTANTS
  TaskCount = 3
  Table <- SmallTable
  WindowFrames = 6
  FrameTicks = 2
  WdogTicks = 8
  TraceCapacity = 16
  LogCapacity = 6
  ShortBootLimit = 5
  BootModes = {"nominal"}
  BootStreaks = {0}
  Faults = {}
  MaxCost = 0
  MaxLag = 0
  MaxOverruns = 2
  MaxStrikes = 0
PROPERTIES NoDispatchWhereWithheld
