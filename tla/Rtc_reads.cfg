SPECIFICATION FairSpec
CONSTANTS
  NUMTERMINALS = 3
  FREQUENCIES = {1, 2, 3, 64, 128, 1024}
INVARIANTS
  TypeOK
  InServiceWhileHandled
  LineIsAnswered
  RateIsLastSet
  OneReadPerTick
PROPERTY
  ReadReturnsUnlessSuspended
