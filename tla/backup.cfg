CONSTANTS
  Tables = {config, calls}
  Secrets = config
  Runs = {b1, b2}
  NoRun = NoRun
  Horizon = 1
  MaxFaults = 2
SYMMETRY Symmetry
SPECIFICATION Spec
INVARIANTS
  ReportedIsRestorable
  ReportedHasItsKey
PROPERTIES
  FoldersAreOwned
