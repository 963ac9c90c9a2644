CONSTANTS
  Slots = {s0, s1}
  InitProc = s0
  CPUs = {c1, c2}
  Statuses = {0}
  Chans = {ch, dev}
  Devices = {dev}
  Calls = {"fork", "wait", "kill", "block", "io"}
  MaxPid = 2
  None = None
SPECIFICATION FairSpec
PROPERTIES KilledExit ZombiesAreReaped
