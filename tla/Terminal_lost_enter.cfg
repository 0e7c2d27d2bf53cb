SPECIFICATION FairSpec
CONSTANTS
  NUMTERMINALS = 2
  BUFFERSIZE = 2
  KEYS = {"a"}
  MODIFIERS = {"alt"}
  NBYTES = {2}
  READERS = {1}
  LINE_ROOM = 2
PROPERTY
  EnterAnswered
