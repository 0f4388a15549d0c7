------------------------------ MODULE LockView ------------------------------
(***************************************************************************)
(* The two session locks of a run as that run sees them, while other       *)
(* processes take and give up theirs.  SessionLocks implements it for each *)
(* of its runs, and Orchestrator implements it with its other processes    *)
(* left open: what Orchestrator allows them is what SessionLocks has them  *)
(* do.                                                                     *)
(***************************************************************************)
CONSTANT Roles

VARIABLES
  lock,   \* for each role: "free", "mine", or "other"
  phase   \* "between" two attempts, "attempt", "leaving" (the loop is left)
          \* or "closed"

lockVars == <<lock, phase>>

Start ==
  /\ phase = "between"
  /\ lock \in [Roles -> {"free", "other"}]

\* The lock of a role is taken only when it is free, and only between two
\* attempts; a dispatch that fails after that leaves the loop with it.
Take(r) ==
  /\ phase = "between" /\ lock[r] = "free"
  /\ lock' = [lock EXCEPT ![r] = "mine"]
  /\ phase' \in {"attempt", "leaving"}

\* Only the lock of the attempt is given up, and never one of another process.
Give(r) ==
  /\ phase = "attempt" /\ lock[r] = "mine"
  /\ lock' = [lock EXCEPT ![r] = "free"]
  /\ phase' \in {"between", "leaving"}

\* Locked out, cancelled or failed; a lock that is held is kept.
Leave ==
  /\ phase \in {"between", "attempt"}
  /\ phase' = "leaving"
  /\ UNCHANGED lock

\* The context is dropped, or the process dies in the middle of anything.
Close ==
  /\ phase # "closed"
  /\ phase' = "closed"
  /\ lock' = [r \in Roles |-> IF lock[r] = "mine" THEN "free" ELSE lock[r]]

\* A step of another process is about one session of its own.
Others(r) ==
  /\ \/ lock[r] = "free" /\ lock' = [lock EXCEPT ![r] = "other"]
     \/ lock[r] = "other" /\ lock' = [lock EXCEPT ![r] = "free"]
  /\ UNCHANGED phase

LockStep == (\E r \in Roles : Take(r) \/ Give(r) \/ Others(r)) \/ Leave \/ Close

OneRunsLocks == Start /\ [][LockStep]_lockVars
=============================================================================
