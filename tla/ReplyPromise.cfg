\* Packets arrive whole: what a caller is promised.
CONSTANTS
  RequestUnits = 2
  ReplyUnits = 3
  MaxRequests = 3
  MaxStreams = 3
  MaxParts = 0
  CutRequests = FALSE
  CutReplies = FALSE
SPECIFICATION Spec
PROPERTY CallRefinement
CHECK_DEADLOCK FALSE
