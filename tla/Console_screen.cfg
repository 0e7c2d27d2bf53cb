SPECIFICATION Spec
CONSTANTS
  NUMTERMINALS = 2
  NUM_COLS = 3
  NUM_ROWS = 3
  SAVED_CELLS = 11
  BUFFERSIZE = 6
  KEYS = {"a"}
  WRITES <- MCWrites
  HELPER <- MCHelper
  PAPER <- MCPaper
  SPOILED = 2
INVARIANTS
  TypeOK
  ScreenIsText
PROPERTIES
  CursorStaysOnScreen
  ScreensApart
