CONSTANTS
  Images <- NoZero
  PrintDevices <- MC_PrintDevices
  DebugModes <- MC_DebugModes
  Lines <- MC_Lines
SPECIFICATION DebuggerSpec
INVARIANT ZeroTellsOfResult
CHECK_DEADLOCK FALSE
