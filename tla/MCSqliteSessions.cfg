\* Two sessions racing for one database through nested transactions.
CONSTANTS
  s1 = s1
  s2 = s2
  w1 = w1
  w2 = w2
  Session = {s1, s2}
  Batch = {}
  Write = {w1, w2}
  MaxDepth = 2
  MaxFree = 0
  NoOne = NoOne
  NoImage = NoImage
  Torn = Torn
  SideEffects = {"begin", "prepare"}
  ImageFaults = {}
SYMMETRY Symmetry
SPECIFICATION Spec
INVARIANTS
  TypeOK
  FreeImageIsPublished
  DepthsAgree
  SnapshotIsPublished
PROPERTIES
  ImplementsStore
