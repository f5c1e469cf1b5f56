SPECIFICATION ActivitySpec
CONSTANTS
  SignIns <- mcSignIns
  Codes = {1, 2, 3}
  TopLimit = 2
  MaxSignIns = 5
INVARIANTS
  HiddenLevelLeavesTheCountOut
CHECK_DEADLOCK FALSE
