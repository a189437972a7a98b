CONSTANTS
  Images <- MC_Images
  PrintDevices <- MC_PrintDevices
  DebugModes <- MC_DebugModes
SPECIFICATION StackSpec
INVARIANT StackIntegrity
PROPERTIES StackImplementsLifo ReturnsToCaller InterruptRestores
\* the programs end with STP
CHECK_DEADLOCK FALSE
