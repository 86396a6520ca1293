\* Three threads, two CPUs, either of which may go down and come back.
SPECIFICATION Spec
SYMMETRY Threads
CONSTANTS
  t1 = t1
  t2 = t2
  t3 = t3
  Null = Null
  Global = Global
  Tasks = {t1, t2, t3}
  NumCpus = 2
  HotplugCpus = {0, 1}
  Quantum = 2
INVARIANTS
  TypeOK
  InOnePlace
  LocalHoldsOne
  FreedIsNotScheduled
PROPERTIES
  ServesSharedLine
