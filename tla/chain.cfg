SPECIFICATION FairSpec
CONSTANTS
  Last = 4
  Bridges = {1}
  Prev <- FlatPrev
  Cap = 2
  Vad = 2
  Consumers = {3}
  Injected = {"Text", "InputAudio", "FunctionCallResult", "End", "Cancel"}
  MaxInject = 3
  MaxGen = 1
  MaxRequests = 0
  MaxErrors = 0
INVARIANTS TypeOK NoStaleText TerminalNotLost HooksInOrder
PROPERTIES EndStopsAll
CHECK_DEADLOCK FALSE
