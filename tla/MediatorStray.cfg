\* The comment on the notification thread.
CONSTANTS
  Thread = {t1}
  NoThread = NoThread
  Handler = {}
  NoHandler = NoHandler
  Mishap = {"longName", "shortDatagram", "otherCommand"}
  Flaky = TRUE
SPECIFICATION Spec
INVARIANT ListensUntilShutdown
CHECK_DEADLOCK FALSE
