CONSTANTS
  t1 = t1
  t2 = t2
  Game = {t1, t2}
  Loader = loader
  InitThread = init_thread
  None = None
  Lines <- mcLines
SPECIFICATION FairSpec
INVARIANTS TypeOK FileExclusive LaterLinesKept
PROPERTIES LoggersReturn
CHECK_DEADLOCK FALSE
