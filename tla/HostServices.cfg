SPECIFICATION HostSpec
CONSTANTS
  None = None
  Absent = Absent
  UserOrder <- TwoUsers
  Chains <- SomeChains
  Hosts <- SomeHosts
  MinRange = 2
  IdLimit = 8
INVARIANTS
  EveryDeclarationHolds
  IdsAreDisjoint
  EarlyChecksCatch
  MountsReachTheirPath
  PrivatePathsAreManaged
  UnitsRequireWhatTheyUse
CHECK_DEADLOCK FALSE
