SPECIFICATION Spec
CONSTANTS
  None = None
  w1 = w1
  s1 = s1
  s2 = s2
  v1 = v1
  v2 = v2
  n1 = n1
  n2 = n2
  Requests = {r1, r2, r3}
  InitWarehouses <- MCWarehouses
  InitStocks <- MCOneStock
  Variants <- MCVariants
  Names <- MCNames
  MaxQty = 2
  Commands <- SerialCommands
  Overlap = FALSE
SYMMETRY RequestSymmetry
INVARIANTS MatchesListedUntilGap JournalExplainsListing QueriesAgree
PROPERTY CommandsChangeOneShelf
