\* Three threads, one of which may leave or be moved while it waits, two CPUs,
\* either of which may go down and come back, pulls interleaved with every other
\* handler.
SPECIFICATION Spec
VIEW SchedulingView
CONSTANTS
  t1 = t1
  t2 = t2
  t3 = t3
  Null = Null
  Global = Global
  Tasks = {t1, t2, t3}
  Pid <- MCPid
  NumCpus = 2
  HotplugCpus = {0, 1}
  Leavers = {t1}
  Quantum = 3
  Word = 16
  MaxTickGap = 1
INVARIANTS
  TypeOK
  NoThreadLost
  LocalThreadsAreLocal
  HeldHeadStaysQueued
  NothingOnDeadCpu
PROPERTIES
  ServesInOrder
