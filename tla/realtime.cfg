SPECIFICATION FairSpec
CONSTANTS
  Notifies = TRUE
  MaxEvents = 2
  MaxAudio = 1
INVARIANTS ReportWhole
PROPERTIES ReportedOnce SessionServed CallAnswered
