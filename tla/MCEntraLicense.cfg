SPECIFICATION IDPSpec
CONSTANTS
  Tenants <- MCTenants
  Levels = {"internal"}
  MaxFailures = 1
INVARIANT
  LicenseGapsAreListed
CHECK_DEADLOCK FALSE
