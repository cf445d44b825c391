CONSTANTS
  v1 = v1
  v2 = v2
  Absent = Absent
  Foreign = Foreign
  Nothing = Nothing
  Files <- SomeFiles
  Kind <- SomeKinds
  Owner <- SomeOwners
  Contents = {v1, v2}
  Manifests <- SomeManifests
  Faults = {"failure", "power"}
  MaxEdits = 1
SPECIFICATION FairSpec
CHECK_DEADLOCK FALSE
INVARIANTS
  CommittedIsDesired
  CommittedIsRunning
PROPERTIES
  RemovedWasVerified
  ChangesAreMarked
  NoReloadAmidBatch
  FilesKeepPromise
  Recovers
