\* rusty_saakm.c line 485: the CPUs claimed right after the module is loaded.
SPECIFICATION Spec
CONSTANTS
  t1 = t1
  t2 = t2
  Null = Null
  Tasks = {t1, t2}
  NumCpus = 2
  Siblings <- MCOwnCore
  NumDoms = 1
  Domain <- MCOneDomain
  Affinities <- MCFixed
  Slice = 1
  HotplugCpus <- MCAlwaysUp
PROPERTIES
  DirectIsIdle
