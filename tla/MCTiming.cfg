CONSTANTS
  MaxInt = 31
  Attempts <- MCAttempts
  Durations <- MCDurations
  Files <- OneFile
  Libraries = {"l1"}
  Paths <- OnePaths
  LibOf <- OneLibOf
  PathOf <- OnePathOf
  HookPath = "hook"
  MaxScan = 0
  AttemptCap = 3
  Delay <- MCDelay
  RateLimits = TRUE
  CircuitTicks = 6
  Keys = {"k1", "k2"}
  HookKeys = {"k2"}
  Bad = {}
  MaxWork = 2
SPECIFICATION TimingSpec
INVARIANT Correct
INVARIANT LoopInv
INVARIANT PaceInv
INVARIANT PromptWebhook
PROPERTY RowsServed
