SPECIFICATION DuplexSpec
CONSTANTS
  TextChunks = 1
  Audios = 1
  MaxUserTurns = 2
  MaxBargeIns = 1
PROPERTY TurnRuns
CHECK_DEADLOCK FALSE
