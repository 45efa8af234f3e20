\* One complete configuration is enough: the timeout is what changes.
CONSTANTS
  NULL = NULL
  Dangling = Dangling
  Hosts = {h1}
  Addrs = {a1}
  Tokens = {t1}
  PortArgs <- TypedPorts
  Adverts <- GatewayAdverts
  AllocMayFail = FALSE
  Bodies = {b1}
  NoData = NoData
  TimeoutArgs <- TimeoutOnOff
  MaxTimeout <- LongestTimeout
  Outcomes <- TransferEnds
SPECIFICATION ApiSpec
INVARIANT TimeoutIsCurrent
CHECK_DEADLOCK FALSE
