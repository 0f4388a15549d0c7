CONSTANTS
  Limit = 4
  MaxFaults = 2
  None = None
  Arguments <- MCArguments
  Written <- MCWritten
SPECIFICATION Spec
INVARIANTS
  TypeOK
  VerdictsAreSound
  ObedientReviewerIsHeard
  EachDeliveryIsReviewed
  ReportIsWhereItIsSaid
  AgentsAreBriefed
