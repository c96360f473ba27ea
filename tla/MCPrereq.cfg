SPECIFICATION Spec
CONSTANTS
  Prereqs <- MCPrereqs
  Entries = 2
  MaxRuns = 3
  Nothing = Nothing
INVARIANTS
  OnlyPinnedBytes
  RequiredIsThere
  WholeUnlessTorn
PROPERTY UninstallTakesZips
