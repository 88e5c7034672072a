\* Two callers that retry, two losses, nobody else: two attempts for each of 2 losses + 2 conflicts.
SPECIFICATION RetriedSpec
CONSTANTS
  e1 = e1
  e2 = e2
  f1 = f1
  f2 = f2
  Executors <- MCTwoExecutors
  Refreshers <- MCNoRefresher
  MaxAttempts = 8
  Lease = 1
  Humans <- MCNobody
  MaxPulls = 2
  MaxRunVersion = 1
  MaxLosses = 2

PROPERTY InterruptionIsReconciled
\* Calls end and people stop: the instance may come to rest.
CHECK_DEADLOCK FALSE
