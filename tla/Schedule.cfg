CONSTANTS
  garbage = garbage
  Unset = Unset
  Nothing = Nothing
  Malformed = Malformed
  Revs = {"r1", "r2"}
  Configured <- SomeSettings
  Minimum = 2
  Default = 4
  Cooldown = 2
  Limit = 5
SPECIFICATION FairSpec
PROPERTIES
  RepairsPaced
  AuditsAreCovered
  FullsRecur
