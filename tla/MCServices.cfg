\* A review with two gates, the second of which may rewrite the draft; three members of a
\* change set and two runners of their gates.
SPECIFICATION ServicesSpec
CONSTANTS
  empty = empty
  patch1 = patch1
  patch2 = patch2
  patch3 = patch3
  lib = lib
  app = app
  docs = docs
  p1 = p1
  p2 = p2
  Patches <- MCPatches
  EmptyPatch = empty
  GateCount = 2
  Rewriting <- MCSecondGate
  MaxRemediationRounds = 1
  Members <- MCMembers
  Schedules <- MCSchedules
  Runners <- MCRunners
  MaxDeploys = 1
  MaxTampers = 1
  MaxRestores = 1
  MaxCrashes = 1
INVARIANTS
  ApprovalIsEarned
  BarrierIsEarned
PROPERTY VerdictsSettle
\* A settled review takes no further step.
CHECK_DEADLOCK FALSE
