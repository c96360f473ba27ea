CONSTANTS
  NumSources = 2
  AppId = AppId
  OtherApp = OtherApp
  PinnedKey = PinnedKey
  OtherKey = OtherKey
  None = None
  MaxValidity = 2
  ValidDays = {0, 2}
  MigrationAcceptsUnsigned = TRUE
  MaxVersion = 2
  MaxDay = 4
SPECIFICATION Spec
INVARIANTS
  OfferedIsNewerThanInstalled
