\* Three edits at any moment; the base input may come and go, the base and the
\* metadata input are copied while staging, the late one may be removed.
CONSTANTS
  Base = {1}
  Dep = {2}
  Late = {3}
  Staged = {1, 2}
  Content = {c1, c2}
  c1 = c1
  c2 = c2
  Missing = Missing
  Selection = {dev, release}
  dev = dev
  release = release
  NoStamp = NoStamp
  NoOutput = NoOutput
  Foreign = Foreign
  Optional = {1}
  Deletable = {1, 3}
  MaxEdits = 3
SYMMETRY Symmetry
SPECIFICATION Spec
INVARIANTS
  TypeOK
  StampIsSound
  FreshIsSound
