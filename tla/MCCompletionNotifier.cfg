CONSTANTS
  t1 = t1
  t2 = t2
  t3 = t3
  h1 = h1
  h2 = h2
  m1 = m1
  NoTask = NoTask
  Tasks = {t1, t2, t3}
  Managers = {m1}
  Handlers = {h1, h2}
  Labels = {}
  TaskLabels <- MCTaskLabels
  Submitter <- MCSubmitter
  Registrar <- MCRegistrar
  QueueCapacity = 1
  ConcurrencyLimit = 1
SPECIFICATION MCFairSpec
INVARIANTS
  StopsDrained
  EveryMessageOnceInOrder
PROPERTIES
  CloseTerminatesWorker
