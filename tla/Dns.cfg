CONSTANTS
  HostOrder <- TwoHosts
  Networks <- SomeNetworks
  Mappings <- SomeMappings
  Catalogues <- SomeCatalogues
  Services <- SomeServices
  Serials <- SomeSerials
  MaxEdits = 2
SPECIFICATION Spec
CHECK_DEADLOCK FALSE
INVARIANTS
  ChainsAreExact
PROPERTIES
  StampedIsServed
  AnswersAreDeployed
  PtrsMirrorForward
