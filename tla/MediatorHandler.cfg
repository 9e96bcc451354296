\* The comment on the handlers.
CONSTANTS
  Thread = {t1}
  NoThread = NoThread
  Handler = {h1, h2}
  NoHandler = NoHandler
  Mishap = {}
  Flaky = TRUE
SPECIFICATION Spec
INVARIANT HandlerInForce
CHECK_DEADLOCK FALSE
