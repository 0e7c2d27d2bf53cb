SPECIFICATION Spec
CONSTANTS
  MAX_PROCESSES = 3
  NULL = NULL
  BOOT = BOOT
  NESTING = 1
INVARIANT
  ResumeFrames
