\* Six cells: two full devices take them all; shorter lists leave room for what leaks.
CONSTANTS
  NULL = NULL
  Junk = Junk
  Free = Free
  NotArray = NotArray
  Nameless = Nameless
  u1 = u1
  u2 = u2
  n1 = n1
  n2 = n2
  Cells = {c1, c2, c3, c4, c5, c6}
  Labels <- TypedLabels
  DevURLs = {u1, u2}
  Names = {n1, n2}
  Answers <- GatewayAnswers
SPECIFICATION Spec
INVARIANTS TypeOK HeapSound NoDeviceLost InventoryIsAnswer CompletionIsExact
SYMMETRY Symmetry
\* An assert may end the program.
CHECK_DEADLOCK FALSE
