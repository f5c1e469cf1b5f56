SPECIFICATION CountsSpec
CONSTANTS
  UserIDs <- mcUserIDs
  Directories <- mcDirectories
  InactiveDays = 1
  MaxDay = 2
  MaxChanges = 2
  Catalog <- mcCatalog
  NoDate = NoDate
  BadDate = BadDate
  ExpiryWindow = 2
  Year = 3
  LastDay = 3
  MaxCredentialChanges = 2
  MaxRuns = 2
  RoleUsers <- mcRoleUsers
  RoleGroups = {"g1"}
  Others = {"app"}
  HolderDirectories <- mcHolderDirectories
  MaxAssignments = 3
  MaxSchedules = 1
  SignIns <- mcSignIns
  Codes = {1, 2, 3}
  TopLimit = 2
  MaxSignIns = 5
  SecurityGroups <- mcSecurityGroups
  MaxGroups = 2
  Resources <- mcResources
  environmentTagKeys <- mcKeys
  Limit = 2
  MaxResources = 5
INVARIANTS
  InactiveDidNotSignIn
  SteadyUsersCount
  ExpiryIsForeseen
  ValuesHoldForEveryMembership
  LeftOutForItsCause
  WrittenCountsAreCertain
  TopCodesAreDetermined
  StrangersAreCounted
  InventoryIsDetermined
CHECK_DEADLOCK FALSE
