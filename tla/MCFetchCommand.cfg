CONSTANTS
  MaxInputs = 4
  Modes <- MCModes
  Dirs <- MCDirs
  Root = "top"
  Subdirs <- MCSubdirs
  Tracks <- MCTracks
  TypeOf <- MCTypeOf
  StemOf <- MCStemOf
  Depths <- MCDepths
  MaxChanges = 1
SPECIFICATION CommandSpec
INVARIANT WalkComplete
INVARIANT WalkOrdered
INVARIANT NothingLost
INVARIANT HonestEnd
PROPERTY RunReturns
CHECK_DEADLOCK FALSE
