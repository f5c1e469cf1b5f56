SPECIFICATION Spec
CONSTANTS
  Members <- MCMembers
  Strangers <- MCStrangers
  Groups <- MCGroups
  DirRoles <- MCDirRoles
  OtherApps <- MCOtherApps
  Tenants <- MCBrowserOnly
  Defaults = {"on", "off", "unread"}
INVARIANTS
  EverySignInRequiresMFA
CHECK_DEADLOCK FALSE
