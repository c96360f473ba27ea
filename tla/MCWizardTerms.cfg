CONSTANTS
  Absent = Absent
  Options <- MCOptions
  Kind <- MCKind
  ValuesOf <- MCValuesOf
  Default <- MCDefault
  Parent <- MCParent
  Group <- MCGroup
  Cards <- MCCards
  CustomCard <- MCCustomCard
  Gives <- MCGives
  Required = {"choice", "legal"}
  SendsData = {"telemetry", "recorder"}
  Legal = "legal"
  Installs = {"recorder"}
  Groups <- MCGroups
  AlwaysAsk = {}
  FinalOption = "theme"
  Tracked <- MCPackaged
  FlagFor <- MCFlagFor
  GivenSets <- MCGivenSets
  Langs <- MCLangs
  Fallback = "en"
  Parts <- MCParts
  Shorter <- MCShorter
  Keys <- MCKeys
  EngineOnly = {"signature.unsigned"}
  EngineHas <- MCEngineHas
  ProductHas <- MCProductHas
  Documents <- MCDocuments
  Versions <- MCVersions
  Packaged <- MCPackaged
SPECIFICATION Spec
INVARIANTS
  TermsAcceptedBeforeInstall
