\* Two lives of the program, three files open at once; a host may be empty only by -H.
CONSTANTS
  NULL = NULL
  Dangling = Dangling
  NoFile = NoFile
  Empty = Empty
  h1 = h1
  a1 = a1
  t1 = t1
  rc = rc
  conf = conf
  loop = loop
  On = On
  More = More
  Off = Off
  tokenFile = tokenFile
  noToken = noToken
  Hosts = {h1, Empty}
  Addrs = {a1}
  Tokens = {t1}
  PortArgs = {443, 65979}
  Adverts <- GatewayAdverts
  AllocMayFail = FALSE
  Files = {rc, conf, loop, missing}
  Startup = rc
  UserKnown = TRUE
  Others = {"status", "Event"}
  Asks = {"Event"}
  Lines <- TypedLines
  FirstFiles <- FileSystems
  TokenOf <- TokenArguments
  Flags = {"trace"}
  MaxOpen = 3
  MaxStarts = 2
SPECIFICATION ShellSpec
INVARIANTS ShellTypeOK
PROPERTIES SaveRestores ScriptsEnd
CHECK_DEADLOCK FALSE
