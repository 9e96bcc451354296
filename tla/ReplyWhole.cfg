\* Packets arrive whole; calls may time out and their answers come late.
CONSTANTS
  RequestUnits = 2
  ReplyUnits = 3
  MaxRequests = 3
  MaxStreams = 3
  MaxParts = 0
  CutRequests = FALSE
  CutReplies = FALSE
SPECIFICATION Spec
INVARIANTS TypeOK ReplyMatches
CHECK_DEADLOCK FALSE
