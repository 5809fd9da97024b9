SPECIFICATION Spec
CONSTANTS
  MaxUtterances = 3
  MaxCuts = 2
  MaxChars = 3
  MaxLlmRuns = 1
  Inbound = {i1, i2}
  Outbound = {o1}
  QueueDepth = 1
  RtpPorts = 1
  MinReregister = 4
  Expiries = {0, 2, 4, 5, 8}
  MaxRegisters = 3
  Offers = {c1, c2}
  PortRanges <- MCPortRanges
  PortMax = 8
  OthersPorts = {1, 2, 3, 4, 6}
  MaxEvents = 2
  b1 = b1
  b2 = b2
  Branches <- TwoBranches
  Cap = 1
  Entering = {"Text", "Interruption", "End", "Cancel"}
  EarlyCancel = FALSE
  MaxIds = 4
INVARIANTS UtterancesOwn CompletionsWhole RegisteredIsBound ServerKeeps BlockInOrder
PROPERTIES ServiceWorkEnds
CHECK_DEADLOCK FALSE
