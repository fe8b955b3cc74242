SPECIFICATION Spec
CONSTANTS
  None = None
  Root = Root
  Absent = Absent
  a = a
  b = b
  c = c
  d = d
  r1 = r1
  r2 = r2
  r3 = r3
  Requests = {r1, r2}
  InitCategories = {a, b, c, d}
  MaxDepth = 4
  WalkLimit = 8
  Commands <- SerialCommands
  Overlap = FALSE
SYMMETRY MCSymmetry
INVARIANT TreeShowsEveryCategory
PROPERTIES CreationsFit CommandsEditForest
