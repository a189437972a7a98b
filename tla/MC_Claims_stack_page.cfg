CONSTANTS
  Images <- Push
  PrintDevices <- MC_PrintDevices
  DebugModes <- MC_DebugModes
  Lines <- MC_Lines
SPECIFICATION DebuggerSpec
PROPERTY StackIsInPageOne
CHECK_DEADLOCK FALSE
