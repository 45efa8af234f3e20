\* One gateway, two announcements of it, an address of each family.
CONSTANTS
  NULL = NULL
  Dangling = Dangling
  h1 = h1
  a4 = a4
  a6 = a6
  Hosts = {h1}
  Addrs = {a4, a6}
  V6 = {a6}
  Tokens = {t1}
  PortArgs <- TypedPorts
  Adverts <- GatewayAdverts
  AllocMayFail = FALSE
  Services <- GatewayServices
SPECIFICATION DiscSpec
INVARIANT DiscTypeOK
PROPERTIES ImplementsConnection ScanEnds
\* The program stops when the user quits.
CHECK_DEADLOCK FALSE
