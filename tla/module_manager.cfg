SPECIFICATION Spec
CONSTANTS
  bus1 = bus1
  bus2 = bus2
  app = app
  Modules <- MCModules
  Files <- MCFiles
  TypeOf <- MCTypeOf
  Providers <- MCProviders
INVARIANTS
  TypeOK
  RegistryMatchesModules
PROPERTIES
  DestroyedClean
  LoadAllOrNothing
  LoadedAsWritten
  StartsInOrder
  FiniInReverse
  OkMeansAll
