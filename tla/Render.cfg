CONSTANTS
  HostOrder <- TwoHosts
  Configs <- SomeConfigs
  MaxRuns = 2
SPECIFICATION Spec
CHECK_DEADLOCK FALSE
INVARIANTS
  ManifestIsExact
  ParentsAreManaged
  FinishedIsDeclared
