CONSTANTS
  Slots = {s0, s1, s2, s3}
  InitProc = s0
  CPUs = {c1, c2}
  Statuses = {0, 1}
  Chans = {}
  Devices = {}
  Calls = {"fork", "wait"}
  MaxPid = 4
  None = None
SYMMETRY Symmetry
SPECIFICATION Spec
INVARIANTS OneCPUPerStack ParentIsAlive NoSleepOverZombie StatusIsDelivered
