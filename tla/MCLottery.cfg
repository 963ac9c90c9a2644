CONSTANTS
  NPROC = 2
  CPUs = {c1, c2}
  Uniform = 2
  Priority = 2
  Dynamic = 3
  Bonus = 2
  Enough = 4
  Priorities <- MCPriorities
  Policies = {0, 1, 2, 3}
  None = None
SYMMETRY Symmetry
SPECIFICATION Spec
INVARIANTS DrawIsFair NobodyStarves
