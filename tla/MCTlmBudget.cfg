\* One dispatch of the flight image with the figures of the build in groups:
\* 91 bytes of 7 instructions as 7 of 91, 256 polls of 5 as 16 of 80, and the
\* 1915 instructions the budget of 4500 leaves above the nominal 2585.
SPECIFICATION BuildSpec
CONSTANTS
  Builds = {"flight"}
  StallAllowances = {0}
  FlightTable <- WholeFrame
  FrameLen = 7
  Tables <- FlightOnly
  Sensors = {temp}
  Raw = {good}
  InRange = {good}
  Invalid = Invalid
  StuckLimit = 8
  RunMax = 255
  RetryTotal = 16
  PollInstr = 80
  ByteInstr = 91
  SpareInstr = 1915
  AnnounceLen = 2
  MaxDispatches = 1
  MaxResets = 0
  MaxHits = 0
CHECK_DEADLOCK FALSE
INVARIANT DispatchFitsItsBudget
