SPECIFICATION Spec
CONSTANTS
  r1 = r1
  r2 = r2
  r3 = r3
  Runs = {r1, r2, r3}
  Sessions = {s1, s2}
  LockDir <- MCLockDir
INVARIANTS
  TypeOK
  LocksFollowTheRun
  OneMonitorPerSession
  SomeoneGoesOn
PROPERTY NoStaleLock
