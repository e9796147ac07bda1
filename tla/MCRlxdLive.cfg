CONSTANTS
  t1 = t1
  t2 = t2
  t3 = t3
  m1 = m1
  m2 = m2
  h1 = h1
  red = red
  NoTask = NoTask
  Tasks = {t1, t2, t3}
  Managers = {m1}
  Handlers = {h1}
  Labels = {}
  TaskLabels <- MCTaskLabels
  Submitter <- MCSubmitter
  Registrar <- MCRegistrar
  QueueCapacity = 0
  ConcurrencyLimit = 0
  Dispatchers = 0
  FutureOutcomes = {"Success"}
  ShutdownModes = {"Graceful"}
  TimeoutsFire = TRUE
SPECIFICATION FairSpec
ACTION_CONSTRAINTS
  MCBound
  TasksInTurn
INVARIANTS
  RlxdTypeOK
PROPERTIES
  RlxdHandlesResolve
  RlxdSubmitReturns
  RlxdShutdownReturns
  RlxdWindsDown
