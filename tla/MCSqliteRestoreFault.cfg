\* The same service when serializing or rebuilding an image may fail too.
CONSTANTS
  s1 = s1
  b1 = b1
  w1 = w1
  w2 = w2
  Session = {s1}
  Batch = {b1}
  Write = {w1, w2}
  MaxDepth = 1
  MaxFree = 0
  NoOne = NoOne
  NoImage = NoImage
  Torn = Torn
  SideEffects = {}
  ImageFaults = {"serialize", "rebuild"}
SYMMETRY Symmetry
SPECIFICATION Spec
INVARIANTS
  RejectedStaysOut
