CONSTANTS
  Images <- MC_Images
  PrintDevices <- MC_PrintDevices
  DebugModes <- MC_DebugModes
SPECIFICATION Spec
INVARIANTS TypeOK PrintedIsStored WordsAddUp
PROPERTIES StoredIsPrinted OperandsAreNotExecuted FlagsDescribeResult
           AddsBothWays SubtractsBothWays
\* a program stops at STP
CHECK_DEADLOCK FALSE
