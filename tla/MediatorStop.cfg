\* The comment on the loop of ReconnectTcp.
CONSTANTS
  Thread = {t1}
  NoThread = NoThread
  Handler = {}
  NoHandler = NoHandler
  Mishap = {}
  Flaky = TRUE
SPECIFICATION FairSpec
PROPERTY TcpEndsOnShutdown
CHECK_DEADLOCK FALSE
