CONSTANTS
  Images <- Wait
  PrintDevices <- MC_PrintDevices
  DebugModes <- MC_DebugModes
  Lines <- MC_Lines
SPECIFICATION FairDebuggerSpec
PROPERTY UnknownOpcodeExits
CHECK_DEADLOCK FALSE
