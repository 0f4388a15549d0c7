CONSTANTS
  Limit = 2
  Lines = {l1}
  Stragglers = TRUE
SPECIFICATION Spec
INVARIANTS
  TypeOK
  LocksFollowTheAgent
  DispatchBudget
  OneVerdictAtATime
  CancelBound
PROPERTIES
  CleanupIsEnforced
  KeepsTheContract
