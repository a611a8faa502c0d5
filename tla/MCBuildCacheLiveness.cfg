\* Liveness: one edit anywhere, no symmetry.
CONSTANTS
  Base = {1}
  Dep = {2}
  Late = {3}
  Staged = {1, 2}
  Content = {c1, c2}
  c1 = c1
  c2 = c2
  Missing = Missing
  Selection = {dev, release}
  dev = dev
  release = release
  NoStamp = NoStamp
  NoOutput = NoOutput
  Foreign = Foreign
  Optional = {3}
  Deletable = {2}
  MaxEdits = 1
SPECIFICATION FairSpec
PROPERTIES
  SettledBuildsAreReused
