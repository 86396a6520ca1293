\* rusty_saakm.c line 983: one core, with SMT or not.
SPECIFICATION FairSpec
CONSTANTS
  t1 = t1
  t2 = t2
  Null = Null
  Tasks = {t1}
  NumCpus = 2
  Siblings <- MCOneCore
  NumDoms = 1
  Domain <- MCOneDomain
  Affinities <- MCFixed
  Slice = 1
  HotplugCpus <- MCAlwaysUp
PROPERTIES
  IdleIsFound
