CONSTANTS
  exe = exe
  mods = mods
  save = save
  A = A
  B = B
  main = main
  extras = extras
  Uninstaller = Uninstaller
  Core = Core
  NotPacked = NotPacked
  Nobody = Nobody
  User = User
  NoFile = NoFile
  Unreadable = Unreadable
  Absent = Absent
  Files <- MCFiles
  UserFiles <- MCUserFiles
  Apps = {A, B}
  Comps <- MCComps
  Setups <- MCSetups
  Places <- MCPlaces
SPECIFICATION Spec
INVARIANTS
  OwnedFolderHadNothing
  RecordCoversInstall
PROPERTIES
  UserFilesStay
