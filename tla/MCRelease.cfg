SPECIFICATION Spec
CONSTANTS
  c1 = c1
  c2 = c2
  Configs = {c1, c2}
  Versions = {1, 2}
  VersionOf <- MCVersionOf
  Payloads = {p1, p2}
  Keys = {ours}
  Jobs = {j1, j2}
  MaxCommands = 6
  Nobody = Nobody
  Nothing = Nothing
  Torn = Torn
SYMMETRY Symmetry
INVARIANTS
  SignedIsInstalled
  AcceptedAgrees
  AcceptedIsSigned
