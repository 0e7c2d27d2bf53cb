SPECIFICATION FairSpec
CONSTANTS
  NUMTERMINALS = 2
  FREQUENCIES = {1, 2, 3, 64, 128, 1024}
PROPERTY
  ReadReturns
