SPECIFICATION FairSpec
CONSTANTS
  None = None
  w1 = w1
  s1 = s1
  s2 = s2
  v1 = v1
  v2 = v2
  n1 = n1
  n2 = n2
  Requests = {r1, r2}
  InitWarehouses <- MCWarehouses
  InitStocks <- MCOneStock
  Variants <- MCVariants
  Names <- MCNames
  MaxQty = 2
  Commands <- AllCommands
  Overlap = TRUE
INVARIANTS OneRowPerVariant IInv
PROPERTIES DeletedStaysDeleted RenamePostsNothing EveryCommandAnswered
