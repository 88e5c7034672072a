\* Two overlapping calls while people edit the branch and its pull requests.
SPECIFICATION Spec
CONSTANTS
  e1 = e1
  e2 = e2
  f1 = f1
  f2 = f2
  Executors <- MCTwoExecutors
  Refreshers <- MCNoRefresher
  MaxAttempts = 2
  Lease = 1
  Humans <- MCGitHub
  MaxPulls = 2
  MaxRunVersion = 1
  MaxLosses = 2
SYMMETRY MCSymmetry
INVARIANT DeliveryIsSound
PROPERTY PublicationFailsClosed
\* Calls end and people stop: the instance may come to rest.
CHECK_DEADLOCK FALSE
