SPECIFICATION StoreSpec
CONSTANTS
  a = a  b = b  c = c
  Procs <- TwoProcs
  Operations = {"open", "create", "replace"}
  MaxStores = 4
  MaxGenerations = 3
  MaxRefusals = 0
  NoProc = NoProc
PROPERTY NothingLost
CHECK_DEADLOCK FALSE
