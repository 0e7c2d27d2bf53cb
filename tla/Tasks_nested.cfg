SPECIFICATION LaunchSpec
CONSTANTS
  MAX_PROCESSES = 3
  NULL = NULL
  BOOT = BOOT
  NESTING = 1
INVARIANTS
  LaunchTypeOK
  CurrentIsRunning
  AccountingMidway
  StartedReturn
  LoadsOwnDirectory
PROPERTY
  RefinesStacks
