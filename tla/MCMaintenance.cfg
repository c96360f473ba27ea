SPECIFICATION FairSpec
CONSTANTS
  Files <- MCFiles
  Comps = {"program", "tools"}
  Required = {"program"}
  Default = {"program"}
  Core = "core"
  CompOf <- MCCompOf
  Shortcuts <- MCShortcuts
  DefaultShortcuts <- MCShortcuts
  Autostart = "autostart"
  MaxVersion = 2
  Places = {"default"}
  DefaultPlace = "default"
  MaxRuns = 2
  Nothing = Nothing
INVARIANTS
  UpdateIsToTheShownVersion
  NoUnaskedShortcut
  EveryShortcutIsOnRecord
  RegisteredIsOnDisk
PROPERTIES
  UpdateNeverGoesBack
  WindowComesBack
