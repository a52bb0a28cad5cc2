SPECIFICATION FairSpec
CONSTANTS
  NPROC = 2
  NCPU = 1
  MaxPid = 3
  KillPids = {2, 3}
  Events <- AllEvents
PROPERTIES RunnableRuns  KilledExits
