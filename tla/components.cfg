SPECIFICATION Spec
CONSTANTS
  TextChunks = 1
  Audios = 2
  MaxUserTurns = 2
  MaxBargeIns = 2
  MaxSttChunks = 5
  MaxMessages = 2
  MaxDeaths = 1
  Window = 2
  Batch = 2
  Gap = 2
  McpTools = {"next", "mcp"}
  MaxCallFrames = 2
  GraphSpecs <- MCGraphSpecs
  SeqCircle = 16
  FirstSeq = 12
  JitterDepth = 2
  InboundDepth = 1
  OutboundDepth = 2
  PrerollFrames = 2
  ReorderWindow = 3
  MaxPackets = 4
  MaxFaults = 1
  MaxBotAudio = 5
  MaxText = 5
  Speakers = {"u1", "u2"}
  MaxHeard = 3
  Keepalive = 2
  LongTurn = 3
  RequiredArg = {"book"}
  Scripts <- MCScripts
  StartFrames = 2
  StopFrames = 2
  SilenceWindows = 2
  SttTimeout = 1
  SpeechTimeout = 2
  MinWords = 2
  ToolCalls = {"c1", "c2"}
  MaxTurnFrames = 3
  FrameWindows = 4
  MaxChunks = 2
  MaxInbox = 3
  TonePackets = 1
  MaxPresses = 3
  MaxNet = 2
  MutedGroups = {}
  ReportLevel = "Name"
  MaxTurns = 2
  Panels <- MCPanels
  MaxLag = 1
  Answers <- MCAnswers
  PrerollCap = 3
  Block = 2
  Rate = 2
  Held = 2
  FilterFrame = 3
  SourceLen = 3
  ChunkSizes = {1, 3}
  MaxSamples = 6
  MaxToggles = 4
  MaxTicks = 6
INVARIANTS BargeInClean CallerTranscribed GraphFollowed MediaInOrder StagesFaithful
  TurnsEarned CarriersAgree ObserversAgree SamplesWhole
PROPERTIES StepsSound
CHECK_DEADLOCK FALSE
