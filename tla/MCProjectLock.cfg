CONSTANTS
  a = a  b = b  c = c
  Procs <- TwoProcs
  MaxAttempts = 3
  MaxDepth = 2
  MaxCrashes = 1
  MaxRestarts = 1
  MaxWriteFailures = 1
  NoProc = NoProc
  NoFile = NoFile
SPECIFICATION FairSpec
INVARIANTS TypeOK HolderNamedUntilCrash MutualExclusion
PROPERTIES OnlyDeadOwnerUnlinked StaleLockReclaimed
CHECK_DEADLOCK FALSE
