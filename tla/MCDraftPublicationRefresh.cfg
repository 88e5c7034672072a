\* Two overlapping refreshes of one pull request that people edit, close and merge.
SPECIFICATION FollowedSpec
CONSTANTS
  e1 = e1
  e2 = e2
  f1 = f1
  f2 = f2
  Executors <- MCOneExecutor
  Refreshers <- MCTwoRefreshers
  MaxAttempts = 1
  Lease = 1
  Humans <- MCFollowed
  MaxPulls = 1
  MaxRunVersion = 2
  MaxLosses = 0
INVARIANT RefreshesAreTrue
PROPERTY MergeIsNoticed
\* Calls end and people stop: the instance may come to rest.
CHECK_DEADLOCK FALSE
