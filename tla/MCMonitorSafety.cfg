CONSTANTS
  Kinds = {"implement", "document", "review"}
  HangConfirm = 2
  HangMax = 3
  CommitGrace = 2
  OutboxGrace = 1
  FinalizingKill = 1
SPECIFICATION FairSpec
INVARIANTS
  TypeOK
  EndsWithTheAgentDead
  NoResultIsRetried
  ChangesAreReviewed
  CapIsFinal
PROPERTIES
  LiveLogIsNoHang
  KeepsTheContract
  EndsOnceQuiet
  CancelledAttemptEnds
