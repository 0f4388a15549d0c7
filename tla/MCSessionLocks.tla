--------------------------- MODULE MCSessionLocks ---------------------------
(***************************************************************************)
(* Instances of SessionLocks: three processes over two sessions, two with  *)
(* the same lock directory; and two over two sessions with one directory.  *)
(***************************************************************************)
EXTENDS SessionLocks

CONSTANTS r1, r2, r3

MCLockDir == [r \in Runs |-> IF r = r3 THEN "home" ELSE "runtime"]
MCSameDir == [r \in Runs |-> "runtime"]
=============================================================================
