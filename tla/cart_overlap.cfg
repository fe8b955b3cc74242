SPECIFICATION Spec
CONSTANTS
  None = None
  v1 = v1
  v2 = v2
  v3 = v3
  Requests = {r1, r2}
  InitItems = {i1, i2}
  Variants = {v1, v2, v3}
  Qtys = {1, 2}
  PageLimit = 2
  MaxTime = 1
  Commands <- MCCommands
  Overlap = TRUE
INVARIANTS CartInvariant OneItemPerVariant
PROPERTIES UncontestedEdits SavesAreWhole
