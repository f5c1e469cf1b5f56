SPECIFICATION RequestsSpec
CONSTANTS
  Pages <- mcPages
  FirstPage = "p1"
  Services <- mcServices
  Calls <- mcCalls
  MaxCalls = 4
  Groups <- mcGroups
  Names <- mcNames
  Margin = 1
  Lifetimes <- mcLifetimes
  DefaultLifetime = 2
  Claims <- mcClaims
  Federated = TRUE
  MaxTime = 5
  MaxReads = 2
  Configs <- mcConfigs
  MaxRenewals = 2
INVARIANTS
  EveryPageAskedAlike
  FailureNamesItsCause
  PathsDropTheNames
  RoutesReachTheResource
  CarriedTokenIsGood
  CredentialsReachListedHosts
PROPERTIES
  ReadIsWhole
  OnlySignInFailsTheRun
  EveryPartEnds
CHECK_DEADLOCK FALSE
