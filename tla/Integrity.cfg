CONSTANTS
  Malformed = Malformed
  Manifests <- SomeManifests
  Chunks = {"a", "b"}
  MaxHash = 2
  Ids = {1, 2}
  Busy = {"conf", "keys", "d"}
  MaxChanges = 2
  MaxFaults = 1
SPECIFICATION Spec
CHECK_DEADLOCK FALSE
INVARIANTS
  CleanWasInPlace
  IntactIsClean
  BothScopesCoverManifest
