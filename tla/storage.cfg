SPECIFICATION Spec
CONSTANTS
  r1 = r1
  r2 = r2
  Refs = {r1, r2}
  p1 = p1
  p2 = p2
  Procs = {p1, p2}
  Free = Free
  MaxFrames = 2
  MaxDeaths = 2
  MaxDamage = 1
  MaxErrors = 1
INVARIANTS
  AckedKept
  OnlyDamageRefuses
  MemoryIsDisk
SYMMETRY LogSymmetry
CHECK_DEADLOCK FALSE
