\* Everything may be cut, sends complete in part.
CONSTANTS
  RequestUnits = 2
  ReplyUnits = 4
  MaxRequests = 2
  MaxStreams = 2
  MaxParts = 2
  CutRequests = TRUE
  CutReplies = TRUE
SPECIFICATION Spec
INVARIANT SendsTheRest
CHECK_DEADLOCK FALSE
