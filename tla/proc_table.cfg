SPECIFICATION Spec
CONSTANTS
  NPROC = 3
  NCPU = 2
  MaxPid = 3
  KillPids = {3}
  Events <- TableEvents
INVARIANTS SchedOK OneCPU ParentAlive NoLostExit
