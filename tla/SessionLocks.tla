---------------------------- MODULE SessionLocks ----------------------------
(***************************************************************************)
(* Several orchestrator processes and the session locks between them       *)
(* (src/src/locks.rs).                                                     *)
(*                                                                         *)
(* A process locks the session of a role when it dispatches to it and      *)
(* unlocks it when the attempt is over, so that between two attempts it    *)
(* holds nothing and another process may have taken the session.  The lock *)
(* is a flock on a file named after (provider, session id), in a directory *)
(* taken from the environment of the process: the kernel frees it when the *)
(* process ends, however it ends, while the agent it started may live on   *)
(* for a moment.                                                           *)
(*                                                                         *)
(* What a run does between two dispatches is module Orchestrator; a        *)
(* session stands for its (provider, session id), and SessionBind gives    *)
(* the two roles of a run different ones (module SessionBind).             *)
(***************************************************************************)
CONSTANTS
  Runs,       (* orchestrator processes                                     *)
  Sessions,   (* provider sessions, each a (provider, session id)           *)
  LockDir     (* the lock directory each process derives from XDG_RUNTIME_DIR *)
              (* or HOME                                                    *)

ASSUME RunsAssumption == Runs # {}
ASSUME NoRunAssumption == "none" \notin Runs

LockDirs == {LockDir[r] : r \in Runs}
Roles == {"executor", "reviewer"}

\* What SESSION_BIND lets through.
AnyTwo == [Roles -> Sessions]
Bindings == {b \in [Roles -> Sessions] : b["executor"] # b["reviewer"]}

VARIABLES
  binding,   \* ctx.executor_session_id and ctx.reviewer_session_id
  role,      \* the role of the dispatch or attempt the run is at
  phase,     \* "dispatch", "monitor", "leaving" (the loop has ended, the
             \* context is still there), "closed" (its lock files are closed)
             \* or "over" (the process has ended)
  ending,    \* why the run left its loop
  holder,    \* the run that holds the lock file of a session, per directory
  alive      \* <<r, s>>: an agent r started on session s is still alive

vars == <<binding, role, phase, ending, holder, alive>>

Held == {"monitor", "leaving"}
Session(r) == binding[r][role[r]]
Lock(r) == <<LockDir[r], Session(r)>>
MyLocks(r) == {l \in LockDirs \X Sessions : holder[l] = r}

\* Runs start in any order: one still at its first dispatch has not started
\* as far as the locks can tell.
Init ==
  /\ binding \in [Runs -> Bindings]
  /\ role = [r \in Runs |-> "executor"]
  /\ phase = [r \in Runs |-> "dispatch"]
  /\ ending = [r \in Runs |-> "none"]
  /\ holder = [l \in LockDirs \X Sessions |-> "none"]
  /\ alive = {}

Leave(r, why) ==
  /\ phase' = [phase EXCEPT ![r] = "leaving"]
  /\ ending' = [ending EXCEPT ![r] = why]

Acquired(r) == [holder EXCEPT ![Lock(r)] = r]

Released(r) == [holder EXCEPT ![Lock(r)] = "none"]

\* The process is gone: the kernel closes its files.
LeftBehind(r) == holder
Closed(r) == [l \in LockDirs \X Sessions |->
                IF l \in MyLocks(r) THEN "none" ELSE holder[l]]

-----------------------------------------------------------------------------
\* acquire_session_lock does not wait: a session another process has is the
\* end of the run.
LockedByItsFile(r) ==
  /\ phase[r] = "dispatch"
  /\ \E q \in Runs \ {r} : phase[q] \notin {"closed", "over"} /\ Lock(q) = Lock(r)
  /\ Leave(r, "locked")
  /\ UNCHANGED <<binding, role, holder, alive>>
DispatchLocked(r) ==
  /\ phase[r] = "dispatch"
  /\ holder[Lock(r)] # "none"
  /\ Leave(r, "locked")
  /\ UNCHANGED <<binding, role, holder, alive>>

\* The run ends before it dispatches (cancelled, or the lock file cannot be
\* made), or a later step of the dispatch fails: the lock stays with the
\* context.
DispatchFails(r) ==
  /\ phase[r] = "dispatch"
  /\ holder[Lock(r)] = "none"
  /\ holder' \in {holder, Acquired(r)}
  /\ Leave(r, "internal")
  /\ UNCHANGED <<binding, role, alive>>

LockIsOverwritten(r) == TRUE
LockIsFree(r) == holder[Lock(r)] = "none"

Dispatch(r) ==
  /\ phase[r] = "dispatch"
  /\ LockIsFree(r)
  /\ holder' = Acquired(r)
  /\ alive' = alive \cup {<<r, Session(r)>>}
  /\ phase' = [phase EXCEPT ![r] = "monitor"]
  /\ UNCHANGED <<binding, role, ending>>

\* The attempt is over: its agent has ended, or is hung and terminated.  The
\* same role is retried, the other one is dispatched, or the run has its
\* result.
AttemptOver(r) ==
  /\ phase[r] = "monitor"
  /\ alive' = alive \ {<<r, Session(r)>>}
  /\ holder' = Released(r)
  /\ \/ /\ \E next \in Roles : role' = [role EXCEPT ![r] = next]
        /\ phase' = [phase EXCEPT ![r] = "dispatch"]
        /\ UNCHANGED ending
     \/ Leave(r, "result") /\ UNCHANGED role
  /\ UNCHANGED binding

\* A service cap ends the run; nothing stops the agent that reported it.
ServiceCap(r) ==
  /\ phase[r] = "monitor"
  /\ holder' = Released(r)
  /\ Leave(r, "capped")
  /\ UNCHANGED <<binding, role, alive>>

\* Cancelled in do_monitor: the agent is terminated; only the classifier's
\* branch releases the lock before the context is dropped.
Cancelled(r) ==
  /\ phase[r] = "monitor"
  /\ alive' = alive \ {<<r, Session(r)>>}
  /\ holder' \in {holder, Released(r)}
  /\ Leave(r, "cancelled")
  /\ UNCHANGED <<binding, role>>

\* An error of a probe ends the run with the lock held and the agent alive.
MonitorFails(r) ==
  /\ phase[r] = "monitor"
  /\ Leave(r, "internal")
  /\ UNCHANGED <<binding, role, holder, alive>>

\* run returns and the context is dropped, in the order of its fields: the
\* lock files are closed, then an agent still alive is killed.
CloseLocks(r) ==
  /\ phase[r] = "leaving"
  /\ phase' = [phase EXCEPT ![r] = "closed"]
  /\ holder' = Closed(r)
  /\ UNCHANGED <<binding, role, ending, alive>>

Exit(r) ==
  /\ phase[r] = "closed"
  /\ phase' = [phase EXCEPT ![r] = "over"]
  /\ alive' = {a \in alive : a[1] # r}
  /\ UNCHANGED <<binding, role, ending, holder>>

\* The process is killed (SIGKILL, out of memory): its agent is only sent
\* SIGTERM by the kernel, and may take its time.
Crash(r) ==
  /\ phase[r] # "over"
  /\ phase' = [phase EXCEPT ![r] = "over"]
  /\ ending' = [ending EXCEPT ![r] = IF @ = "none" THEN "crashed" ELSE @]
  /\ holder' = Closed(r)
  /\ UNCHANGED <<binding, role, alive>>

AgentExits ==
  /\ \E a \in alive : alive' = alive \ {a}
  /\ UNCHANGED <<binding, role, phase, ending, holder>>

AllOver == (\A r \in Runs : phase[r] = "over") /\ alive = {} /\ UNCHANGED vars

Next ==
  \/ \E r \in Runs : \/ DispatchLocked(r) \/ DispatchFails(r) \/ Dispatch(r)
                     \/ AttemptOver(r) \/ ServiceCap(r) \/ Cancelled(r)
                     \/ MonitorFails(r) \/ CloseLocks(r) \/ Exit(r)
                     \/ Crash(r)
  \/ AgentExits
  \/ AllOver

Spec == Init /\ [][Next]_vars

-----------------------------------------------------------------------------
Endings == {"none", "locked", "internal", "result", "capped", "cancelled", "crashed"}

\* Types of the runs' contexts, the lock files and the agents.
TypeOK ==
  /\ binding \in [Runs -> [Roles -> Sessions]]
  /\ \A r \in Runs : binding[r]["executor"] # binding[r]["reviewer"]
  /\ role \in [Runs -> Roles]
  /\ phase \in [Runs -> {"dispatch", "monitor", "leaving", "closed", "over"}]
  /\ ending \in [Runs -> Endings]
  /\ holder \in [LockDirs \X Sessions -> Runs \cup {"none"}]
  /\ alive \subseteq Runs \X Sessions

\* A run holds at most one lock, that of the session it monitors or was at
\* when it left: between two attempts and once its process has ended it holds
\* none, and while it monitors an attempt it always holds its own.
LocksFollowTheRun ==
  /\ \A l \in LockDirs \X Sessions :
       holder[l] # "none" => phase[holder[l]] \in Held /\ l = Lock(holder[l])
  /\ \A r \in Runs : phase[r] = "monitor" => holder[Lock(r)] = r

\* Two processes with the same lock directory never monitor attempts on one
\* session at the same time (acquire_session_lock before every dispatch).
OneMonitorPerSession ==
  \A r, q \in Runs : r # q /\ phase[r] = "monitor" /\ phase[q] = "monitor"
                     => LockDir[r] # LockDir[q] \/ Session(r) # Session(q)

\* Of the runs that share a lock directory and compete for their sessions, in
\* either order of the roles, not all give up as locked: the lock that stops the
\* last one would be held.
SomeoneGoesOn ==
  \A d \in LockDirs : \E r \in Runs : LockDir[r] = d /\ ending[r] # "locked"

\* A run is refused a session only by another process that is still there: no
\* crash, failure or forgotten release makes a session unusable, and no run
\* stands in its own way.
NoStaleLock ==
  [][\A r \in Runs : ending'[r] = "locked" /\ ending[r] # "locked" =>
        \E q \in Runs \ {r} : phase[q] \in Held /\ Lock(q) = Lock(r)]_vars

\* README.md:242: "a file lock keyed by (provider, session_id) prevents two
\* orchestrator processes from dispatching to the same session simultaneously",
\* stated of the agents two processes that are both still there have running.
SessionsAreNotShared ==
  \A a, b \in alive : a # b /\ a[2] = b[2] => phase[a[1]] = "over" \/ phase[b[1]] = "over"
-----------------------------------------------------------------------------
(***************************************************************************)
(* The locks as one run sees them.                                         *)
(***************************************************************************)

Seen(r, h) == CASE h = "none" -> "free" [] h = r -> "mine" [] OTHER -> "other"

View(r) == INSTANCE LockView WITH
  lock <- [x \in Roles |-> Seen(r, holder[<<LockDir[r], binding[r][x]>>])],
  phase <- CASE phase[r] = "dispatch" -> "between"
             [] phase[r] = "monitor" -> "attempt"
             [] phase[r] = "leaving" -> "leaving"
             [] OTHER -> "closed"

\* To each run its two locks behave as LockView says, whatever the others do: it
\* takes only what is free, gives up only what it took, and one step of another
\* process touches one lock.
RunsSeeLockView ==
  /\ \A r \in Runs : View(r)!Start
  /\ [][\A r \in Runs : [View(r)!LockStep]_(View(r)!lockVars)]_vars
=============================================================================
