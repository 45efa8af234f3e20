\* Two hosts, addresses and tokens so that a stale value differs from the
\* current one; ports below, at and beyond the width of uint16_t.
CONSTANTS
  NULL = NULL
  Dangling = Dangling
  Hosts = {h1, h2}
  Addrs = {a1, a2}
  Tokens = {t1, t2}
  PortArgs <- TypedPorts
  Adverts <- GatewayAdverts
  AllocMayFail = TRUE
SPECIFICATION Spec
INVARIANTS TypeOK URLCurrent ListsCurrent HandleHoldsLiveLists
PROPERTY ScanIsAllOrNothing
\* The program stops when the user quits.
CHECK_DEADLOCK FALSE
