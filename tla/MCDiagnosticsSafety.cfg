CONSTANTS
  Said = {"cap", "auth", "plain"}
  MaxAttempts = 2
  MaxLines = 2
  MaxLog = 2
  CaptureTail = 1
  LogTail = 1
SPECIFICATION Spec
INVARIANTS
  TypeOK
  CapIsOfThisAttempt
PROPERTIES
  LastWordsAreHeard
  CapOfTheLivingIsSeen
