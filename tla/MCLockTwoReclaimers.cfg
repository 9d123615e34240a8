CONSTANTS
  a = a  b = b  c = c
  Procs <- ThreeProcs
  MaxAttempts = 2
  MaxDepth = 2
  MaxCrashes = 1
  MaxRestarts = 0
  MaxWriteFailures = 0
  NoProc = NoProc
  NoFile = NoFile
SPECIFICATION Spec
INVARIANT MutualExclusion
CHECK_DEADLOCK FALSE
