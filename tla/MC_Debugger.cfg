CONSTANTS
  Images <- MC_Images
  PrintDevices <- MC_PrintDevices
  DebugModes <- MC_DebugModes
  Lines <- MC_Lines
SPECIFICATION FairDebuggerSpec
INVARIANT PhaseHasReason
PROPERTIES DebuggerImplementsExecute EndOfInputHangs LastStepRepeats DebugOffEnds
\* the process ends when run returns, when the user exits and when it crashes
CHECK_DEADLOCK FALSE
