SPECIFICATION Spec
CONSTANTS
  FOPS_NUM = 4
  DIRECTORY <- MCDirectory
  INODES <- MCInodes
  BLOCK_SIZE = 2
  NUM_DATA_BLOCK = 3
  WORD = 16
  NBYTES = {0, 1, 4, 15}
  BUFFASIZE = 6
  COMMANDS <- MCCommands
  ELF_SIZE = 2
  EXECUTABLES = {0, 1}
  NULL = NULL
INVARIANTS
  TypeOK
  OnlyOwnFiles
  ReadsInOrder
  ZeroMeansEnd
  ReadFitsBuffer
  ArgumentIsTheCommands
PROPERTY
  OpenTakesAFreeOne
