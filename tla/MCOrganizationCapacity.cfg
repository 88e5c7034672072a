\* Two lifecycles of one provider call each, three policies, two recoveries.
SPECIFICATION Spec
CONSTANTS
  execution = execution
  review = review
  k1 = k1
  k2 = k2
  Works <- MCWorks
  Demand <- MCDemand
  Runtime <- MCOneCall
  Policies <- MCPolicies
  BatchKeys <- MCBatchKeys
  Lease = 2
  RecoveryLimit = 1
  MaxTime = 4
  MaxEvents = 2
SYMMETRY MCSymmetry
INVARIANTS
  TypeOK
  WorkflowsWithinPolicy
  CallsWithinPolicy
  RecoveryAccounted
  
PROPERTIES
  DriftFailsClosed
  EnforcedFitIsKept
  ClaimLifecycle
\* The clock and the event streams are bounded, so the instance stops.
CHECK_DEADLOCK FALSE
