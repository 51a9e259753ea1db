CONSTANTS
  Files <- OneFile
  Libraries = {"l1"}
  Keys = {"k1"}
  Paths <- OnePaths
  LibOf <- OneLibOf
  PathOf <- OnePathOf
  KeyOf <- OneKeyOf
  HookPath = "hook"
  Scanners = {"serve", "scan"}
  Forced = {}
  Env = {"crash", "busy", "walk", "limit", "miss", "stop", "undecodable", "hook", "delete", "clear", "retry", "clearDone", "library", "empty", "unwritable"}
  MaxScan = 1
  MaxWork = 2
  AttemptCap = 1
  Delay <- MCDelay
SPECIFICATION ServiceSpec
INVARIANT ClaimIsCurrent
INVARIANT DoneWasWritten
INVARIANT ServiceInv
PROPERTY OrphansOnlyByFaults
PROPERTY UsesTransactions
CHECK_DEADLOCK FALSE
