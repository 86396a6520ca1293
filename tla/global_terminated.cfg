\* t1 may leave the class while a core carries it.
SPECIFICATION Spec
CONSTANTS
  t1 = t1
  t2 = t2
  t3 = t3
  Null = Null
  Global = Global
  Tasks = {t1, t2}
  Pid <- MCPid2
  NumCpus = 2
  HotplugCpus = {}
  Leavers = {t1}
  Quantum = 3
  Word = 16
  MaxTickGap = 1
PROPERTIES
  TerminatedStaysOut
