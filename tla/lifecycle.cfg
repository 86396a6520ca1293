\* Modules loaded and unloaded in any order.  The kernel stops at an oops.
SPECIFICATION FairSpec
CHECK_DEADLOCK FALSE
CONSTANTS
  Null = Null
  Modules = {"fifo_benchs", "global_fifo", "fifo_one_queue", "saakm_central", "rusty_saakm"}
  MaxLoaded = 2
INVARIANTS
  TypeOK
  RegisteredIsWhole
  UsedIsRegistered
  ExitFreesOnce
PROPERTIES
  OnlyRefusedLeak
  EntryGoesWithItsModule
  UnloadEnds
