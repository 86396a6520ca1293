\* Two threads whose affinity may change, two CPUs in two domains, with SMT or
\* without; then CPU 1 may go down and come back.
SPECIFICATION Spec
VIEW SchedulingView
SYMMETRY Threads
CONSTANTS
  t1 = t1
  t2 = t2
  Null = Null
  Tasks = {t1, t2}
  NumCpus = 2
  Siblings <- MCOwnCore
  NumDoms = 2
  Domain <- MCOwnDomain
  Affinities <- MCNarrowed
  Slice = 2
  HotplugCpus <- MCLastMayGo
INVARIANTS
  TypeOK
  OfferedIsIdle
  SearchHasDomain
PROPERTIES
  FallsBackWhenBooked
  ServesInOrder
