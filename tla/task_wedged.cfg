SPECIFICATION FairTaskSpec
CONSTANTS
  Last = 3
  Bridges = {1}
  Prev <- FlatPrev
  Cap = 1
  Vad = 2
  Consumers = {}
  Injected = {"Text", "InputAudio", "End", "Cancel", "Error", "Heartbeat"}
  MaxInject = 8
  MaxGen = 0
  MaxRequests = 1
  MaxErrors = 0
  Queued = {"Text"}
  MaxQueued = 7
  Signals = TRUE
  IdleWatch = FALSE
  Heartbeats = FALSE
  Fatal = FALSE
PROPERTY TokenEnds
CHECK_DEADLOCK FALSE
