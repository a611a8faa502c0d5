\* Two documents, three texts, two requests under way, a late write each.
CONSTANTS
  main = main
  notes = notes
  starter = starter
  draft = draft
  dos = dos
  absent = absent
  binary = binary
  k1 = k1
  k2 = k2
  Path = {main, notes}
  DefaultPath = main
  Text = {starter, draft, dos}
  Starter = starter
  Absent = absent
  NotText = binary
  PlainForm <- MCPlainForm
  MonacoForm <- MCMonacoForm
  Call = {k1, k2}
  MaxLate = 1
SPECIFICATION Spec
INVARIANTS
  SavedIsStored
  NothingHangs
PROPERTIES
  UpgradeKeepsText
