\* saakm_central.c lines 133-134: two siblings go in and out of idle.
SPECIFICATION Spec
CHECK_DEADLOCK FALSE
CONSTANTS
  t1 = t1
  t2 = t2
  Null = Null
  Tasks = {t1}
  NumCpus = 3
  Siblings <- MCSiblings
  Slice = 2
  Times <- MCTimes
  HotplugCpus = {}
INVARIANTS
  SmtMeansCoreIdle
