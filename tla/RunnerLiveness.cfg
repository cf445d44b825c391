CONSTANTS
  c1 = c1
  c2 = c2
  c3 = c3
  None = None
  Revs = {c1, c2}
  Ancestry <- LinearAncestry
  AllowRewind = FALSE
  Faults = {"state-write"}
SPECIFICATION FairSpec
PROPERTY
  Converges
