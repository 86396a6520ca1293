\* Fair ticks, schedules and idle cores; either thread may leave at any time.
SPECIFICATION FairSpec
CONSTANTS
  t1 = t1
  t2 = t2
  t3 = t3
  Null = Null
  Global = Global
  Tasks = {t1, t2}
  NumCpus = 2
  HotplugCpus = {}
  Quantum = 2
PROPERTIES
  NoStarvation
