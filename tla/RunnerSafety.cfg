CONSTANTS
  c1 = c1
  c2 = c2
  c3 = c3
  None = None
  Revs = {c1, c2, c3}
  Ancestry <- LinearAncestry
  AllowRewind = TRUE
  Faults = {"state-write"}
SPECIFICATION Spec
INVARIANTS
  IInv
  HostTracked
  ReportedMeansRestored
  BootNetworkAccepted
  SuppressedNotRetried
PROPERTIES
  ImplementsPromise
  MarkerClearedWhenRestored
  LastAdvancesWhenApplied
  FullRecordAfterCommit
