SPECIFICATION Spec
CONSTANTS
  NPROC = 3
  NCPU = 2
  QUANTUM = 2
  ALPHA = 50
  Policies = {"FCFS", "SRT", "CFSD"}
  Priorities = {1}
  MaxTicks = 3
  MaxQueue = 5
INVARIANTS OneCPU TicksAddUp
PROPERTY PicksMinimum
