\* A run cancelled while its attempt runs.
SPECIFICATION Spec
CONSTANTS
  r1 = r1
  r2 = r2
  m1 = m1
  NoRun = NoRun
  Runs <- MCOneRun
  Members <- MCNoMembers
  ReviewEnabled = TRUE
  Ceiling = 1
  MaxAttempts = 1
  MaxVersion = 5
  MaxCrashes = 0
PROPERTIES
  CancellationIsTerminal
\* Every run may end cancelled or archived, with nothing left to do.
CHECK_DEADLOCK FALSE
