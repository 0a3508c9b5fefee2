SPECIFICATION RouterSpec
CONSTANTS
  Handlers = {h1, h2}
  Connections = {c1}
  MaxHandlers = 2
  None = None
INVARIANT EveryHandlerHears
CHECK_DEADLOCK FALSE
