CONSTANTS
  Images <- AddDecimal
  PrintDevices <- MC_PrintDevices
  DebugModes <- MC_DebugModes
  Lines <- MC_Lines
SPECIFICATION DebuggerSpec
PROPERTY AddsDecimals
CHECK_DEADLOCK FALSE
