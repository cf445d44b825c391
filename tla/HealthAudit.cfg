CONSTANTS
  NoUser = NoUser
  Entries <- SomeEntries
  Services <- SomeServices
  Addresses = {"lan"}
  Endpoints = {"here", "there"}
  Local = {"here"}
  VaultAgent <- MappedAgent
  Users = {"abhaile", "media"}
  Strangers <- SomeStrangers
  Serials = {"s1", "s2"}
  MaxChanges = 1
  MaxTimeouts = 1
SPECIFICATION Spec
CHECK_DEADLOCK FALSE
INVARIANTS
  OkMeansSeenUp
  RepairsAreLocal
  ConsistentMeansShared
