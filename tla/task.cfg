SPECIFICATION TaskSpec
CONSTANTS
  Last = 3
  Bridges = {1}
  Prev <- FlatPrev
  Cap = 1
  Vad = 2
  Consumers = {}
  Injected = {"Text", "InputAudio", "End", "Cancel", "Error", "Heartbeat"}
  MaxInject = 3
  MaxGen = 0
  MaxRequests = 0
  MaxErrors = 1
  Queued = {"Text", "End", "Error"}
  MaxQueued = 2
  Signals = TRUE
  IdleWatch = FALSE
  Heartbeats = TRUE
  Fatal = TRUE
INVARIANTS PumpDrains
PROPERTIES ChainSpec
CHECK_DEADLOCK FALSE
