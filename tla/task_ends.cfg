SPECIFICATION FairTaskSpec
CONSTANTS
  Last = 3
  Bridges = {1}
  Prev <- FlatPrev
  Cap = 1
  Vad = 2
  Consumers = {}
  Injected = {"Text", "InputAudio", "End", "Cancel", "Error", "Heartbeat"}
  MaxInject = 4
  MaxGen = 1
  MaxRequests = 1
  MaxErrors = 0
  Queued = {"InputAudio", "End"}
  MaxQueued = 2
  Signals = TRUE
  IdleWatch = TRUE
  Heartbeats = FALSE
  Fatal = FALSE
PROPERTY TaskEnds
CHECK_DEADLOCK FALSE
