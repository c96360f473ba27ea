CONSTANTS
  app = app
  data = data
  extra = extra
  old = old
  new = new
  link = link
  Missing = Missing
  Torn = Torn
  NoPackage = NoPackage
  Files <- MCFiles
  UserFiles <- MCUserFiles
  NestedLinks <- MCLinks
  Contents <- MCContents
  Packages <- MCPackages
SPECIFICATION FairSpec
INVARIANTS
  SnapshotIntact
  NothingLostWhileRemoving
  ResultTellsTheTruth
PROPERTIES
  TouchedOnlyUnderSnapshot
  EveryUpdateReturns
  ImplementsAtomicUpdate
