CONSTANTS
  Groups <- mcGroups
  Names <- mcNames
SPECIFICATION NamesSpec
INVARIANTS EveryGroupIsReached
CHECK_DEADLOCK FALSE
