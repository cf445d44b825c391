CONSTANTS
  HostOrder <- TwoHosts
  Networks <- SomeNetworks
  Mappings <- SomeMappings
  Catalogues <- SoundCatalogue
  Services <- SomeServices
  Serials <- SomeSerials
  MaxEdits = 2
SPECIFICATION Spec
CHECK_DEADLOCK FALSE
PROPERTY
  SerialNamesContent
