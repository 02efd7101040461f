SPECIFICATION McpSpec
CONSTANTS
  Ids = {1, 2, 3}
  Needs = {"n1"}
  OtherArguments = {}
  MaxNeedsPerTask = 1
  MaxWorkersPerTask = 1
  MultiNeedEnabled = TRUE
  OrdinalMax = 255
  QueueMax = 1
  StoreMayFail = FALSE
  MaxLines = 4
CHECK_DEADLOCK FALSE
INVARIANT LimitReturnsBypass
