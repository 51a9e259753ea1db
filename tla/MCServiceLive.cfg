CONSTANTS
  Files <- TwoFiles
  Libraries = {"l1"}
  Keys = {"k1", "k2"}
  Paths <- TwoPaths
  LibOf <- TwoLibOf
  PathOf <- TwoPathOf
  KeyOf <- TwoKeyOf
  HookPath = "hook"
  Scanners = {"serve"}
  Forced = {}
  Env = {"limit", "miss", "unwritable", "clearDone", "library"}
  MaxScan = 2
  MaxWork = 3
  AttemptCap = 2
  Delay <- MCDelay
SPECIFICATION FairServiceSpec
INVARIANT ReservedIsBacked
INVARIANT CalmInv
PROPERTY PeriodicScansKeepDone
PROPERTY EveryFileSettles
CHECK_DEADLOCK FALSE
