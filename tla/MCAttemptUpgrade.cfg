CONSTANTS
  Writers = {"worker"}
  Offers <- MCOffers
  Faults = {}
  Responses <- MCImproving
  Transcripts <- MCTranscripts
  Verifying = FALSE
  MinSimilarity = 35
  ScanMode = "upgrade"
SPECIFICATION AttemptSpec
PROPERTY UpgradePromotes
CHECK_DEADLOCK FALSE
