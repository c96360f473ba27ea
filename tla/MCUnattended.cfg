CONSTANTS
  MaxVersion = 2
  NotInstalled = NotInstalled
  Unknown = Unknown
  Empty = Empty
  Mixed = Mixed
  Setups <- MCSetups
  CommandLines <- MCCommandLines
SPECIFICATION FairSpec
INVARIANTS
  ExitTellsTheTruth
  TouchesOnlyWhatIsVerified
  CloseInTimeWritesNothing
PROPERTIES
  NeverOlderThanRecorded
  EveryRunExits
