CONSTANTS
  Limit = 2
  Lines = {l1}
  Stragglers = FALSE
SPECIFICATION Spec
PROPERTIES
  CleanupNeedsNoNewVerdict
