\* A thread object assigned to, or destroyed, before its thread is joined.
CONSTANTS
  Thread = {t1}
  NoThread = NoThread
  Handler = {}
  NoHandler = NoHandler
  Mishap = {"longName", "shortDatagram", "otherCommand"}
  Flaky = TRUE
SPECIFICATION Spec
INVARIANT NeverTerminates
CHECK_DEADLOCK FALSE
