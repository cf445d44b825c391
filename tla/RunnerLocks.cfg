CONSTANTS
  c1 = c1
  c2 = c2
  c3 = c3
  None = None
  Revs = {c1, c2}
  Ancestry <- LinearAncestry
  AllowRewind = TRUE
  Faults = {"git-lock", "state-write"}
SPECIFICATION Spec
PROPERTY
  OfflineKeepsAuthority
