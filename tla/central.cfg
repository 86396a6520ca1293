\* Two threads, two CPUs, either of which may go down and come back.  The
\* kernel stops when schedule dereferences NULL.
SPECIFICATION FairSpec
CHECK_DEADLOCK FALSE
CONSTANTS
  t1 = t1
  t2 = t2
  Null = Null
  Tasks = {t1, t2}
  NumCpus = 2
  Siblings <- MCSiblings
  Slice = 2
  Times <- MCTimes
  HotplugCpus = {0, 1}
INVARIANTS
  TypeOK
  Placement
  MetadataAgrees
  EntityIsNoOther
  NothingOnDeadCpu
PROPERTIES
  ServesInOrder
  NoStarvation
