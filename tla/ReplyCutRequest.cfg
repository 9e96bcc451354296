\* A request that carries words arrives in two receives of the server.
CONSTANTS
  RequestUnits = 2
  ReplyUnits = 3
  MaxRequests = 3
  MaxStreams = 3
  MaxParts = 0
  CutRequests = TRUE
  CutReplies = FALSE
SPECIFICATION Spec
INVARIANT ActsOnWholePackets
CHECK_DEADLOCK FALSE
