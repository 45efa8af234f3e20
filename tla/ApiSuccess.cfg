\* One complete configuration is enough: what matters is which transfer came before.
CONSTANTS
  NULL = NULL
  Dangling = Dangling
  Hosts = {h1}
  Addrs = {a1}
  Tokens = {t1}
  PortArgs <- TypedPorts
  Adverts <- GatewayAdverts
  AllocMayFail = FALSE
  Bodies = {b1}
  NoData = NoData
  TimeoutArgs <- TimeoutOnOff
  MaxTimeout <- LongestTimeout
  Outcomes <- WholeAnswers
SPECIFICATION ApiSpec
INVARIANT SuccessMeansDone
CHECK_DEADLOCK FALSE
