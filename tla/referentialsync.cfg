SPECIFICATION MCSpec
CONSTANTS
  a = a
  b = b
  g = g
  e = e
  full_auto = full_auto
  Categories = {}
  Entities = {e}
  Technicians = {a, b}
  Groups = {g}
  Sheets = {a, g}
  Modes = {full_auto}
  None = None
  AbsenceLists <- MCAbsenceLists
  ModeChoices <- MCModeChoices
  SavedKinds = {"technician", "group"}
  Savers = {s1, s2}
  Page = 1
  Today = 2
  Keep = 0
  MaxSaves = 3
  MaxScans = 2
  MaxChanges = 1
SYMMETRY Symmetry
CHECK_DEADLOCK FALSE
INVARIANTS
  ModesAreTraced
  OneFallback
  RoutingFollowsWhitelist
  SessionsAreClosed
PROPERTIES
  ScanOnlyConfirms
