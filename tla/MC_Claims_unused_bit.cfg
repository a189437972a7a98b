CONSTANTS
  Images <- PullStatus
  PrintDevices <- MC_PrintDevices
  DebugModes <- MC_DebugModes
  Lines <- MC_Lines
SPECIFICATION DebuggerSpec
INVARIANT UnusedBitIsOne
CHECK_DEADLOCK FALSE
