SPECIFICATION FairSpec
CONSTANTS
  bus = bus
  Modules <- MCModules
  IntMax = 1048575
  UInt16Max = 65535
  Files <- MCFiles
  MaxInits = 2
  MaxStarts = 2
  MaxDeliveries = 2
INVARIANTS
  TypeOK
  InitAgreesWithFile
  CallbackFindsItsDriver
  QuietOutsideStarted
PROPERTIES
  LateCallIsRefused
  ReturnsUnlessStranded
