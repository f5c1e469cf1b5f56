SPECIFICATION IDPSpec
CONSTANTS
  Tenants <- MCTenants
  Levels = {"trust", "internal"}
  MaxFailures = 3
INVARIANTS
  EveryNullIsExplained
  NoValueFromAFailedRead
  GapsNameTheirCause
  UnavailableIsUnavailable
  PostureRestsOnEntra
  AbsentHasTheSameGap
PROPERTY
  KeepsThePromise
CHECK_DEADLOCK FALSE
