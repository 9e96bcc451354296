\* A server that comes and goes, every mishap of the notification thread, Stop at any time.
CONSTANTS
  Thread = {t1, t2}
  NoThread = NoThread
  Handler = {h1}
  NoHandler = NoHandler
  Mishap = {"longName", "shortDatagram", "otherCommand"}
  Flaky = TRUE
SPECIFICATION FairSpec
INVARIANTS TypeOK SomebodyListens ListenerOwned OverwritesOnlyEnded
PROPERTY SleepersWake
CHECK_DEADLOCK FALSE
