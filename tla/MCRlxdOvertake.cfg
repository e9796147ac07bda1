CONSTANTS
  t1 = t1
  t2 = t2
  t3 = t3
  m1 = m1
  m2 = m2
  h1 = h1
  red = red
  NoTask = NoTask
  Tasks = {t1, t2, t3}
  Managers = {m1}
  Handlers = {}
  Labels = {}
  TaskLabels <- MCTaskLabels
  Submitter <- MCSubmitter
  Registrar <- MCRegistrar
  QueueCapacity = 1
  ConcurrencyLimit = 1
  Dispatchers = 1
  FutureOutcomes = {"Success"}
  ShutdownModes = {"Graceful"}
  TimeoutsFire = FALSE
SPECIFICATION HistorySpec
INVARIANTS
  NeverOvertaken
