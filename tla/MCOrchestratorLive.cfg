CONSTANTS
  Limit = 2
  Lines = {l1}
  Stragglers = FALSE
SPECIFICATION FairSpec
INVARIANT VerdictIsCurrent
PROPERTIES
  CancelledRunExits
  EndsUnlessRevisedForever
