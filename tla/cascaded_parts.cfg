SPECIFICATION Spec
CONSTANTS
  Interrupters = {"sink", "reactor"}
  MaxChunks = 3
  MaxInterrupts = 2
  MaxBegins = 3
  MaxReply = 1
  MaxCalls = 2
  Trigger = 2
  Keep = 2
  MaxLog = 6
INVARIANTS SpeakingIsWatched LockIsWatched HistoryWhole
PROPERTIES SpeakingSettles CallerReheard SummarizerFreed
CHECK_DEADLOCK FALSE
