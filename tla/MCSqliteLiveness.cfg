\* Liveness: one session and one batch, no symmetry.
CONSTANTS
  s1 = s1
  b1 = b1
  w1 = w1
  w2 = w2
  Session = {s1}
  Batch = {b1}
  Write = {w1, w2}
  MaxDepth = 1
  MaxFree = 0
  NoOne = NoOne
  NoImage = NoImage
  Torn = Torn
  SideEffects = {"begin", "prepare"}
  ImageFaults = {}
SPECIFICATION FairSpec
PROPERTIES
  SilentSessionReleasesGuard
  BatchIsAnswered
