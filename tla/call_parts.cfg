SPECIFICATION Spec
CONSTANTS
  Ceiling = 2
  MaxFrames = 3
  MaxDrops = 4
  MaxUpdates = 1
  KeepRecent = 1
  MinTurns = 1
  TriggerAfter = 2
  MaxTurns = 5
  MaxUsages = 4
  MaxBases = 1
  StartNode = "a"
  Edges <- MCEdges
  NodeTools <- MCNodeTools
  Statuses = {"ok", "ended"}
  MaxUsers = 1
  MaxToolCalls = 2
  MaxBarges = 1
  InboundDepth = 1
  OutboundDepth = 1
  MaxPackets = 3
  MaxChunks = 3
  HalvesPerChunk = {1, 3}
INVARIANTS SessionWhole PromptCarriesAll BrainFollowed PeerOrdered
PROPERTIES SessionRecovers CallWorkEnds
CHECK_DEADLOCK FALSE
