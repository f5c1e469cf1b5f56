SPECIFICATION CloudSpec
CONSTANTS
  Configurations <- MCConfigurations
  Levels = {"trust", "audit"}
  MaxFailures = 2
INVARIANTS
  AzureNullsExplained
  NumbersAreTrue
  ValuesRestOnTheirReads
  AzureGapsNameTheirCause
  CloudFollowsAzure
PROPERTY
  AzureKeepsThePromise
CHECK_DEADLOCK FALSE
