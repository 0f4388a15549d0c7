CONSTANTS
  Kinds = {"implement"}
  HangConfirm = 2
  HangMax = 3
  CommitGrace = 2
  OutboxGrace = 1
  FinalizingKill = 1
SPECIFICATION Spec
PROPERTIES
  HangsAreAsDocumented
