\* Two completions of a line; an int has four bits.
CONSTANTS
  NULL = NULL
  NotFound = NotFound
  MaxInt = 7
  MaxDepth = 32
  Space = " "
  Breaks = {"'"}
  Others = {"eacute"}
  Blanks <- Blank
  Graphs <- Graphic
  NameOf <- Names
  Lines <- TypedLines
  Replies <- GatewayReplies
  Json <- Answered
  Depth <- Nested
  Texts <- Strings
  MaxTabs = 2
SPECIFICATION PromptSpec
INVARIANTS PromptTypeOK CountsLikeCommands NeverWithoutWord OfferedIsAddressed RequestIsTheLine
  StatesAreTheOnesNamed ShownIsSent CurrentNamesDevices
\* A null pointer may end the program.
CHECK_DEADLOCK FALSE
