SPECIFICATION NotifierFairSpec
CONSTANTS
  Interrupters = {"sink", "reactor"}
  MaxChunks = 1
  MaxInterrupts = 1
PROPERTY VadSettles
CHECK_DEADLOCK FALSE
