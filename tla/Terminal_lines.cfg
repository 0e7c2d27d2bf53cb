SPECIFICATION FairSpec
CONSTANTS
  NUMTERMINALS = 2
  BUFFERSIZE = 3
  KEYS = {"a"}
  MODIFIERS = {"alt"}
  NBYTES = {2}
  READERS = {1}
  LINE_ROOM = 3
INVARIANTS
  TypeOK
  ReadGetsTheLine
  TailIsEmpty
  AltFollowsKey
PROPERTIES
  OnlyOwnRow
  EnterAnsweredUnlessReleased
