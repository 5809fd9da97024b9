SPECIFICATION FairSpec
CONSTANTS
  Last = 4
  Bridges = {1}
  Prev <- FlatPrev
  Cap = 2
  Vad = 2
  Consumers = {}
  Injected = {"Text", "InputAudio"}
  MaxInject = 2
  MaxGen = 1
  MaxRequests = 1
  MaxErrors = 0
PROPERTY RequestEndsTask
CHECK_DEADLOCK FALSE
