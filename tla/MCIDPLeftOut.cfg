SPECIFICATION IDPSpec
CONSTANTS
  Tenants <- MCTenants
  Levels = {"trust"}
  MaxFailures = 1
INVARIANT
  LeftOutValuesAreAbsent
CHECK_DEADLOCK FALSE
