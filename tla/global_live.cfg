\* Fair ticks, schedules and periodic balancing.
SPECIFICATION FairSpec
CONSTANTS
  t1 = t1
  t2 = t2
  t3 = t3
  Null = Null
  Global = Global
  Tasks = {t1, t2}
  Pid <- MCPid2
  NumCpus = 2
  HotplugCpus = {}
  Leavers = {}
  Quantum = 3
  Word = 16
  MaxTickGap = 1
PROPERTIES
  NoStarvation
