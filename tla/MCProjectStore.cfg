SPECIFICATION StoreSpec
CONSTANTS
  a = a  b = b  c = c
  Procs <- ThreeProcs
  Operations = {"open", "view", "create", "replace", "materialize"}
  MaxStores = 3
  MaxGenerations = 4
  MaxRefusals = 1
  NoProc = NoProc
CONSTRAINT SwapsAlone
INVARIANTS StoreTypeOK OneWriter IdleHoldsNothing
PROPERTY StoreIsAtomic
CHECK_DEADLOCK FALSE
