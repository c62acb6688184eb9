SPECIFICATION ConsoleSpec
CONSTANTS
  KB_MAXBUFFER = 2
  VGA_WIDTH = 3
  VGA_HEIGHT = 2
  SIZE_RANGE = 64
  WORD = 256
  MaxBytes = 3
  PrintfCalls <- MCPrintfCalls
  LogCalls <- MCLogCalls
  Banner <- MCBanner
  Echoes <- MCEchoes
  EchoesInside <- MCEchoesInside
INVARIANTS
  TypeOK
  ShiftHeld
  TextRight
  Recovers
  ScreenRight
