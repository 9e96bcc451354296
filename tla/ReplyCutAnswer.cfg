\* An answer that carries words arrives in two recvs of the client.
CONSTANTS
  RequestUnits = 2
  ReplyUnits = 3
  MaxRequests = 3
  MaxStreams = 3
  MaxParts = 0
  CutRequests = FALSE
  CutReplies = TRUE
SPECIFICATION Spec
INVARIANT CountsWhatCame
CHECK_DEADLOCK FALSE
