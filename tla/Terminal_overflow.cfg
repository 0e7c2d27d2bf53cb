SPECIFICATION Spec
CONSTANTS
  NUMTERMINALS = 2
  BUFFERSIZE = 2
  KEYS = {"a"}
  MODIFIERS = {"alt"}
  NBYTES = {2}
  READERS = {0}
  LINE_ROOM = 3
PROPERTY
  OnlyOwnRow
