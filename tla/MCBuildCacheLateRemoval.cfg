\* A late-learned input may be removed while the build runs.
CONSTANTS
  Base = {1}
  Dep = {2}
  Late = {3}
  Staged = {1}
  Content = {c1, c2}
  c1 = c1
  c2 = c2
  Missing = Missing
  Selection = {dev, release}
  dev = dev
  release = release
  NoStamp = NoStamp
  NoOutput = NoOutput
  Foreign = Foreign
  Optional = {}
  Deletable = {3}
  MaxEdits = 2
SPECIFICATION Spec
INVARIANTS
  EditsPreventReuse
