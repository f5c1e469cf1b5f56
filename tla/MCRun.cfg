CONSTANTS
  Tenants <- mcTenants
  Levels = {"internal"}
  MaxFailures = 1
  Configurations <- mcConfigurations
  MaxAzureFailures = 1
SPECIFICATION RunSpec
INVARIANTS
  EveryArtifactNamesEveryFailure
  IAMFollowsEntra
PROPERTIES RunCompletes
CHECK_DEADLOCK FALSE
