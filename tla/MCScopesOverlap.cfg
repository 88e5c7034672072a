\* Every pair of scopes, for ordered and for independent tasks.
SPECIFICATION PlanSpec
CONSTANTS
  t1 = t1
  t2 = t2
  NoPlan = NoPlan
  TaskOrder <- MCOrder
  Paths <- MCPaths
  Proposals <- MCScoped
INVARIANT IndependentTasksOwnDisjointPaths
CHECK_DEADLOCK FALSE
