\* Two scheduler processes, three tasks, one retry each.
SPECIFICATION BudgetSpec
CONSTANTS
  t1 = t1
  t2 = t2
  t3 = t3
  s1 = s1
  s2 = s2
  NoPlan = NoPlan
  TaskOrder <- MCOrder
  Paths <- MCPaths
  Proposals <- MCGraphs
  Scheduled <- MCShapes
  Schedulers <- MCTwoSchedulers
  MaxRetries = 1
  BudgetPolicies <- MCPolicies
SYMMETRY MCSymmetry
INVARIANT SchedulingIsSound
PROPERTY CallsAreOneUse
\* A plan ends.
CHECK_DEADLOCK FALSE
