\* Four frames of three bytes, one sensor with a good and a bad reading, ports
\* that refuse at will, one frame the link spoils and one rung 2 reset.
SPECIFICATION BuildSpec
CONSTANTS
  Builds = {"flight", "sensor_blind", "sensor_paranoid", "uart_stalled",
            "uart_impatient", "tlm_layout_wrong"}
  StallAllowances = {0, 1, 3}
  FlightTable <- MCFlightTable
  FrameLen = 3
  Tables <- MCTables
  Sensors = {temp}
  Raw = {low, good}
  InRange = {good}
  Invalid = Invalid
  StuckLimit = 3
  RunMax = 3
  RetryTotal = 2
  PollInstr = 5
  ByteInstr = 7
  SpareInstr = 19
  AnnounceLen = 2
  MaxDispatches = 4
  MaxResets = 1
  MaxHits = 1
CHECK_DEADLOCK FALSE
INVARIANTS
  ReadingsAreHonest WaitIsBracketed WrongLayoutIsSilent
  EveryWholeFrameIsFound ShedIsToldFromLost ShedFramesAreReported
