\* Stop at any time, every mishap: what is proved of Stop.
CONSTANTS
  Thread = {t1, t2}
  NoThread = NoThread
  Handler = {h1}
  NoHandler = NoHandler
  Mishap = {"longName", "shortDatagram", "otherCommand"}
  Flaky = TRUE
SPECIFICATION Spec
INVARIANTS StopNeverStuck CallersTakeTurns
PROPERTY RunsDown
CHECK_DEADLOCK FALSE
