\* Two messages, one run of loadAll next to the list of one job.
CONSTANTS
  m1 = m1
  m2 = m2
  k1 = k1
  j1 = j1
  None = None
  Message = {m1, m2}
  Load = {k1}
  Job = {j1}
SPECIFICATION FairSpec
INVARIANTS
  DetailIsOfSelection
  JobIsHonest
PROPERTIES
  PageCatchesUp
