CONSTANTS
  t1 = t1
  t2 = t2
  t3 = t3
  t4 = t4
  m1 = m1
  m2 = m2
  NoTask = NoTask
  Tasks = {t1, t2, t3, t4}
  Managers = {m1, m2}
  Handlers = {}
  Labels = {}
  TaskLabels <- MCTaskLabels
  Submitter <- MCSubmitter
  Registrar <- MCRegistrar
  QueueCapacity = 2
  ConcurrencyLimit = 1
SPECIFICATION FairQueueSpec
INVARIANTS
  Backpressure
  FailsOnlyOnShutdown
  WaitListExact
PROPERTIES
  SubmitReturns
