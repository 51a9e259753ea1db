CONSTANTS
  Files <- MCFiles
  Libraries = {"l1", "l2"}
  Keys = {"k1"}
  Paths <- MCPaths
  LibOf <- MCLibOf
  PathOf <- MCPathOf
  HookPath = "hook"
  MaxScan = 2
  MaxWork = 3
  AttemptCap = 2
  Delay <- MCDelay
SPECIFICATION DatabaseSpec
INVARIANT DatabaseInv
PROPERTY ClaimProtected
PROPERTY DoneTogether
PROPERTY ScanClearExact
PROPERTY BackoffHonoured
PROPERTY ImplementsLedger
CHECK_DEADLOCK FALSE
