CONSTANTS
  CPUs = {0, 1}
  Procs = {1, 2}
  UintRange = 4
  Naps = {2}
  None = None
SPECIFICATION Spec
INVARIANTS InterruptsMatch SleepersSawTheTick TimesAddUp
