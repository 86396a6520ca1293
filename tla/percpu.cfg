\* Two threads on two CPUs, either of which may go down and come back.
SPECIFICATION FairSpec
CONSTANTS
  t1 = t1
  t2 = t2
  Null = Null
  Tasks = {t1, t2}
  Pid <- MCPid
  NumCpus = 2
  HotplugCpus = {0, 1}
  Quantum = 3
  MaxTickGap = 2
INVARIANTS
  TypeOK
  Placement
  MetadataAgrees
  QuantumNeverOverrun
  NothingOnDeadCpu
PROPERTIES
  ServesInOrder
  NoStarvation
