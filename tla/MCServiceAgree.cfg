CONSTANTS
  Files <- TwoFiles
  Libraries = {"l1"}
  Keys = {"k1"}
  Paths <- TwoPaths
  LibOf <- TwoLibOf
  PathOf <- TwoPathOf
  KeyOf <- SameKeyOf
  HookPath = "hook"
  Scanners = {"serve"}
  Forced = {}
  Env = {}
  MaxScan = 2
  MaxWork = 1
  AttemptCap = 1
  Delay <- MCDelay
SPECIFICATION ServiceSpec
INVARIANT CompleteAgreement
CHECK_DEADLOCK FALSE
