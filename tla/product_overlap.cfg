SPECIFICATION FairSpec
CONSTANTS
  None = None
  Unborn = Unborn
  v1 = v1
  v2 = v2
  b1 = b1
  Requests = {r1, r2}
  InitVariants = {v1, v2}
  MaxNew = 2
  MaxVariants = 1
  MaxReferences = 1
  Brands = {b1}
  g1 = g1
  Categories = {g1}
  Commands <- MCCommands
INVARIANTS ProductInvariant LockedRowsStand 
PROPERTIES UncontestedEdits EveryCommandAnswered
