\* Three threads, three colliding sites, two slots.
CONSTANTS
  s1 = s1
  s2 = s2
  s3 = s3
  t1 = t1
  t2 = t2
  t3 = t3
  Thread = {t1, t2, t3}
  Site = {s1, s2, s3}
  N = 2
  Start <- MCStart
  Idle = Idle
SPECIFICATION FairSpec
INVARIANTS
  TypeOK
  OneSlotPerSite
  AnnouncedOnce
  FullMeansFull
PROPERTIES
  CallsEnd
  RegisteredIsAnnounced
  ImplementsRegistry
