SPECIFICATION SpaceSpec
CONSTANTS
  MAX_PROCESSES = 4
  NULL = NULL
  BOOT = BOOT
  NESTING = 0
INVARIANTS
  TypeOK
  CurrentIsRunning
  Accounting
  ReturnFrames
  ResumeFrames
  StrandedOnlyWhenFull
  SwitchIsMapped
  OwnImage
  MemoryApart
PROPERTY
  RefinesStacks
