\* A session and two HTTP batches of one to three writes, with a page to reclaim.
CONSTANTS
  s1 = s1
  b1 = b1
  b2 = b2
  w1 = w1
  w2 = w2
  w3 = w3
  Session = {s1}
  Batch = {b1, b2}
  Write = {w1, w2, w3}
  MaxDepth = 1
  MaxFree = 1
  NoOne = NoOne
  NoImage = NoImage
  Torn = Torn
  SideEffects = {"begin", "prepare"}
  ImageFaults = {}
SYMMETRY Symmetry
SPECIFICATION Spec
INVARIANTS
  ImageIsWhole
PROPERTIES
  PublicationIsAtomic
  
