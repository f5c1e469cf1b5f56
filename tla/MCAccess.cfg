SPECIFICATION AccessesSpec
CONSTANTS
  Members <- MCMembers
  Strangers <- MCStrangers
  Groups <- MCGroups
  DirRoles <- MCDirRoles
  OtherApps <- MCOtherApps
  Tenants <- MCTenants
  Defaults = {"on", "off", "unread"}
  Users <- MCUsers
  ServicePrincipals <- MCServicePrincipals
  Tenancies <- MCTenancies
  Directories <- MCDirectories
  Levels = {"trust", "audit"}
INVARIANTS
  CoverageIsRight
  FlagsHoldOfSignIns
  FlagAndCoverageAgree
  WrittenValuesAreTrue
  ValueOrGap
  TotalsFollowScopes
CHECK_DEADLOCK FALSE
