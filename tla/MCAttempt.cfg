CONSTANTS
  Writers = {"worker"}
  Offers <- MCOffers
  Faults = {"disk", "crash"}
  Responses <- MCResponses
  Transcripts <- MCTranscripts
  Verifying = TRUE
  MinSimilarity = 35
  ScanMode = "upgrade"
SPECIFICATION AttemptSpec
INVARIANT WriterInv
INVARIANT SavedIsThere
INVARIANT DoubtIsVerified
INVARIANT SampleRemoved
INVARIANT DoneIsThere
PROPERTY GivenUpForNew
PROPERTY RowSettles
CHECK_DEADLOCK FALSE
