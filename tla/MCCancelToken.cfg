CONSTANTS
  w1 = w1
  w2 = w2
  w3 = w3
  c1 = c1
  c2 = c2
  Waiters = {w1, w2, w3}
  Cancellers = {c1, c2}
SPECIFICATION TokenFairSpec
INVARIANTS
  ListedWhileWaiting
  NoMissedCancel
PROPERTIES
  CancelReachesWaiters
  ImplementsLatch
