CONSTANTS
  Images <- MC_Images
  PrintDevices <- MC_PrintDevices
  DebugModes <- MC_DebugModes
  Lines <- MC_Lines
  Files <- MC_Files
  CommandLines <- MC_CommandLines
  Numbers <- MC_Numbers
  TooLarge <- MC_TooLarge
SPECIFICATION StartupSpec
PROPERTIES SessionBegins EndsWithoutUser
\* the process ends
CHECK_DEADLOCK FALSE
