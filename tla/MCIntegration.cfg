\* Two attempts, one caller of the conflict services, two requests to integrate.
SPECIFICATION IntegrationSpec
CONSTANTS
  a1 = a1
  a2 = a2
  q1 = q1
  q2 = q2
  c1 = c1
  r1 = r1
  r2 = r2
  Attempts <- MCAttempts
  Promotions <- MCPromotions
  Callers <- MCOneCaller
  Requests <- MCRequests
  Policies <- MCBothPolicies
  MaxCrashes = 1
  MaxRecoveries = 1
SYMMETRY MCSymmetry
 
PROPERTY IntegrationStands
\* Invocations and promotions end.
CHECK_DEADLOCK FALSE
