CONSTANTS
  t1 = t1
  t2 = t2
  t3 = t3
  m1 = m1
  m2 = m2
  h1 = h1
  red = red
  NoTask = NoTask
  Tasks = {t1}
  Managers = {m1, m2}
  Handlers = {h1}
  Labels = {red}
  TaskLabels <- MCTaskLabels
  Submitter <- MCSubmitter
  Registrar <- MCRegistrar
  QueueCapacity = 1
  ConcurrencyLimit = 1
  FutureOutcomes = {"Success"}
  ShutdownModes = {"ForcefulCancel"}
  TimeoutsFire = TRUE
SPECIFICATION FairSpec
INVARIANTS
  NoTaskLeftBehind
PROPERTIES
  CancelTakesEffect
  PoolWindsDown
