SPECIFICATION Spec
CONSTANTS
  Members <- MCMembers
  Strangers <- MCStrangers
  Groups <- MCGroups
  DirRoles <- MCDirRoles
  OtherApps <- MCOtherApps
  Tenants <- MCNamedTwice
  Defaults = {"on", "off", "unread"}
INVARIANTS
  CoverageIsRight
CHECK_DEADLOCK FALSE
