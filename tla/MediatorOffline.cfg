\* The comment on reconnecting.
CONSTANTS
  Thread = {t1}
  NoThread = NoThread
  Handler = {}
  NoHandler = NoHandler
  Mishap = {}
  Flaky = TRUE
SPECIFICATION FairSpec
PROPERTY OfflineTriesAgain
CHECK_DEADLOCK FALSE
