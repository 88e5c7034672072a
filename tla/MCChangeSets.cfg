\* Two repositories, dependent and independent; one admission and two callers of the
\* preparation, execution, rollout and retry services; one recovery plan.
SPECIFICATION MCSpec
CONSTANTS
  lib = lib
  app = app
  k1 = k1
  c1 = c1
  c2 = c2
  open = open
  unreviewed = unreviewed
  withdrawn = withdrawn
  Repos <- MCRepos
  Plans <- MCPlans
  Admitters <- MCKeys
  Callers <- MCCallers
  Policies <- MCPolicies
  Coordinating <- MCCoordinating
  Executing <- MCPolicies
  Reviewing <- MCReviewing
  Outcomes = {"succeeded", "blocked"}
  MaxDeploys = 1
  MaxCrashes = 1
  Order <- MCOrder
  Recoveries <- MCKeys
  Processes <- MCCallers
  MaxAttempts = 2
  MaxEvents = 1
SYMMETRY MCSymmetry
INVARIANTS
  MembersTakeTurns
  RolloutIsOrdered
PROPERTY ChangeSetsStand
\* Change sets end.
CHECK_DEADLOCK FALSE
