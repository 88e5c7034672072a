\* One run with up to three attempts and one member run, two lost calls.
SPECIFICATION FairSpec
CONSTANTS
  r1 = r1
  r2 = r2
  m1 = m1
  NoRun = NoRun
  Runs <- MCRunAndMember
  Members <- MCMembers
  ReviewEnabled = TRUE
  Ceiling = 1
  MaxAttempts = 3
  MaxVersion = 9
  MaxCrashes = 2
INVARIANTS
  TypeOK
  AttemptsAreSerial
  
PROPERTIES
  CompletedIsImmutable
  ClaimLifecycle
  WorkGoesOn
\* Every run may end cancelled or archived, with nothing left to do.
CHECK_DEADLOCK FALSE
