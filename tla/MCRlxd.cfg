CONSTANTS
  t1 = t1
  t2 = t2
  t3 = t3
  m1 = m1
  m2 = m2
  h1 = h1
  red = red
  NoTask = NoTask
  Tasks = {t1, t2, t3}
  Managers = {m1, m2}
  Handlers = {h1}
  Labels = {}
  TaskLabels <- MCTaskLabels
  Submitter <- MCSubmitter
  Registrar <- MCRegistrar
  QueueCapacity = 1
  ConcurrencyLimit = 1
  Dispatchers = 2
  FutureOutcomes = {"Success"}
  ShutdownModes = {"Graceful", "ForcefulCancel"}
  TimeoutsFire = FALSE
SPECIFICATION Spec
ACTION_CONSTRAINTS
  MCBound
INVARIANTS
  RunPermitConservation
  TaskInOnePlace
  LaneLeavesNothing
  LanePermitAccounting
  ShutdownJoinsAll
PROPERTIES
  RlxdImplementsLifecycle
SYMMETRY TaskSymmetry
