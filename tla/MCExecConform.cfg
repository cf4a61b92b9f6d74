\* The flight table over the flight window, in both builds.
SPECIFICATION BuildSpec
CONSTANTS
  Builds = {"flight", "skip"}
  SkipFrame = 7
  SkipTask = 0
  TaskCount = 5
  Table <- FlightTable
  WindowFrames = 16
  FrameTicks = 1
  WdogTicks = 4
  TraceCapacity = 256
  LogCapacity = 16
  ShortBootLimit = 5
  BootModes = {"nominal"}
  BootStreaks = {0}
  Faults = {}
  MaxCost = 1
  MaxLag = 1
  MaxOverruns = 1
  MaxStrikes = 1
INVARIANTS Conformance
