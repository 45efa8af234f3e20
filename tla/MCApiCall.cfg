\* Settings with two values each, so that a request can carry a stale one.
CONSTANTS
  NULL = NULL
  Dangling = Dangling
  Hosts = {h1}
  Addrs = {a1, a2}
  Tokens = {t1, t2}
  PortArgs <- TypedPorts
  Adverts <- GatewayAdverts
  AllocMayFail = FALSE
  Bodies = {b1}
  NoData = NoData
  TimeoutArgs <- TypedTimeouts
  MaxTimeout <- LongestTimeout
  Outcomes <- TransferEnds
SPECIFICATION ApiSpec
INVARIANTS ApiTypeOK BodyIsOwn
PROPERTY ImplementsDirectClient
CHECK_DEADLOCK FALSE
