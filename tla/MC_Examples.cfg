CONSTANTS
  Images <- Examples
  PrintDevices <- MC_PrintDevices
  DebugModes <- MC_DebugModes
  Lines <- MC_Lines
SPECIFICATION ExampleSpec
INVARIANTS SubtractAsExpected HelloPrintsItsMessage SubroutineAsExpected InterruptAsExpected
PROPERTY TerminatesWithoutDebugger
\* the process ends when run returns and when the user exits
CHECK_DEADLOCK FALSE
