CONSTANTS
  Limit = 1
  Lines = {}
  Stragglers = TRUE
  Work = "implement"
  Writes = {"empty", "revise"}
  HangConfirm = 1
  HangMax = 1
  CommitGrace = 1
  OutboxGrace = 1
  FinalizingKill = 1
SPECIFICATION ComposedSpec
INVARIANTS
  AgentIsWatched
PROPERTIES
  ImplementsTheRun
