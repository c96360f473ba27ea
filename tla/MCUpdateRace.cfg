CONSTANTS
  app = app
  extra = extra
  old = old
  new = new
  Missing = Missing
  Torn = Torn
  NoPackage = NoPackage
  Files <- MCFiles
  NestedLinks = {}
  UserFiles = {}
  Contents <- MCContents
  Packages <- MCPackages
SPECIFICATION RaceSpec
INVARIANTS
  SafeUnlessOverlapped
CONSTRAINT NotOverlapped
