\* Completion of the argument of Command against its lookup.
CONSTANTS
  NULL = NULL
  Junk = Junk
  Free = Free
  NotArray = NotArray
  Nameless = Nameless
  u1 = u1
  u2 = u2
  n1 = n1
  n2 = n2
  Cells = {c1, c2, c3, c4}
  Labels <- TypedLabels
  DevURLs = {u1, u2}
  Names = {n1, n2}
  Answers <- GatewayAnswers
SPECIFICATION Spec
INVARIANT OffersAddressable
\* An assert may end the program.
CHECK_DEADLOCK FALSE
