------------------------- MODULE SessionLocksProofs -------------------------
(***************************************************************************)
(* Proofs of the safety properties of SessionLocks, for any processes,     *)
(* sessions and lock directories.  TypeOK and LocksFollowTheRun together   *)
(* are inductive; the other properties, and that each run sees its locks   *)
(* behave as LockView says, follow from them.                              *)
(***************************************************************************)
EXTENDS SessionLocks, TLAPS

IInv == TypeOK /\ LocksFollowTheRun

\* Locks are indexed by what LockDir and the binding of a run give.
LEMMA LockType ==
  ASSUME TypeOK, NEW r \in Runs
  PROVE  Lock(r) \in LockDirs \X Sessions /\ Session(r) \in Sessions
  BY DEF TypeOK, Lock, Session, LockDirs, Roles

\* A lock that is held is held by a run.
LEMMA HolderIsARun ==
  ASSUME TypeOK, NEW l \in LockDirs \X Sessions, holder[l] # "none"
  PROVE  holder[l] \in Runs
  BY DEF TypeOK

LEMMA InitIInv == Init => IInv
  BY NoRunAssumption DEF Init, IInv, TypeOK, LocksFollowTheRun, Bindings, Roles,
     Endings, Held

\* Every step keeps the types.
LEMMA TypeStep == IInv /\ [Next]_vars => TypeOK'
<1> SUFFICES ASSUME IInv, [Next]_vars PROVE TypeOK'
  OBVIOUS
<1> USE DEF IInv
<1>1. CASE UNCHANGED vars
  BY <1>1 DEF TypeOK, vars
<1>2. ASSUME NEW r \in Runs, DispatchLocked(r) PROVE TypeOK'
  BY <1>2 DEF DispatchLocked, Leave, TypeOK, Endings
<1>3. ASSUME NEW r \in Runs, DispatchFails(r) PROVE TypeOK'
  BY <1>3, LockType DEF DispatchFails, Leave, Acquired, TypeOK, Endings
<1>4. ASSUME NEW r \in Runs, Dispatch(r) PROVE TypeOK'
  BY <1>4, LockType DEF Dispatch, Acquired, TypeOK
<1>5. ASSUME NEW r \in Runs, AttemptOver(r) PROVE TypeOK'
  BY <1>5, LockType DEF AttemptOver, Released, Leave, TypeOK, Endings
<1>6. ASSUME NEW r \in Runs, ServiceCap(r) PROVE TypeOK'
  BY <1>6, LockType DEF ServiceCap, Released, Leave, TypeOK, Endings
<1>7. ASSUME NEW r \in Runs, Cancelled(r) PROVE TypeOK'
  BY <1>7, LockType DEF Cancelled, Released, Leave, TypeOK, Endings
<1>8. ASSUME NEW r \in Runs, MonitorFails(r) PROVE TypeOK'
  BY <1>8 DEF MonitorFails, Leave, TypeOK, Endings
<1>9. ASSUME NEW r \in Runs, CloseLocks(r) \/ Exit(r) PROVE TypeOK'
  BY <1>9 DEF CloseLocks, Exit, Closed, MyLocks, TypeOK
<1>10. ASSUME NEW r \in Runs, Crash(r) PROVE TypeOK'
  BY <1>10 DEF Crash, Closed, MyLocks, TypeOK, Endings
<1>11. CASE AgentExits
  BY <1>11 DEF AgentExits, TypeOK
<1>12. CASE AllOver
  BY <1>12 DEF AllOver, TypeOK, vars
<1> QED
  BY <1>1, <1>2, <1>3, <1>4, <1>5, <1>6, <1>7, <1>8, <1>9, <1>10, <1>11, <1>12 DEF Next

\* A run that moves on and gives up the lock it is at holds none.
LEMMA ReleaseStep ==
  ASSUME IInv, TypeOK', NEW r \in Runs, phase[r] = "monitor", phase'[r] # "monitor",
         holder' = Released(r), binding' = binding,
         \A q \in Runs \ {r} : role'[q] = role[q] /\ phase'[q] = phase[q]
  PROVE  LocksFollowTheRun'
<1> USE NoRunAssumption
<1>1. TypeOK /\ LocksFollowTheRun
  BY DEF IInv
<1>2. Lock(r) \in LockDirs \X Sessions /\ holder[Lock(r)] = r
  BY <1>1, LockType DEF LocksFollowTheRun
<1>3. \A q \in Runs \ {r} : Lock(q)' = Lock(q)
  BY DEF Lock, Session
<1>4. ASSUME NEW l \in LockDirs \X Sessions, holder'[l] # "none"
      PROVE  phase'[holder'[l]] \in Held /\ l = Lock(holder[l])'
  <2>1. l # Lock(r) /\ holder'[l] = holder[l]
    BY <1>1, <1>2, <1>4 DEF Released, TypeOK
  <2>2. holder[l] \in Runs /\ phase[holder[l]] \in Held /\ l = Lock(holder[l])
    BY <1>1, <1>4, <2>1, HolderIsARun DEF LocksFollowTheRun
  <2>3. holder[l] # r
    BY <2>1, <2>2
  <2> QED
    BY <1>3, <2>1, <2>2, <2>3
<1>5. ASSUME NEW q \in Runs, phase'[q] = "monitor" PROVE holder'[Lock(q)'] = q
  <2>1. q # r /\ holder[Lock(q)] = q /\ Lock(q) # Lock(r)
    BY <1>1, <1>2, <1>5 DEF LocksFollowTheRun
  <2>2. Lock(q)' = Lock(q) /\ Lock(q) \in LockDirs \X Sessions
    BY <1>1, <1>3, <2>1, LockType
  <2>3. holder'[Lock(q)] = q
    BY <1>1, <2>1, <2>2 DEF Released, TypeOK
  <2> QED
    BY <2>2, <2>3
<1> QED
  BY <1>4, <1>5 DEF LocksFollowTheRun

\* Every step keeps LocksFollowTheRun.
LEMMA LocksStep == IInv /\ [Next]_vars => LocksFollowTheRun'
<1> SUFFICES ASSUME IInv, [Next]_vars PROVE LocksFollowTheRun'
  OBVIOUS
<1> USE NoRunAssumption
<1>a. TypeOK /\ LocksFollowTheRun
  BY DEF IInv
<1>b. TypeOK'
  BY TypeStep
<1>1. CASE UNCHANGED vars
  BY <1>1, <1>a DEF LocksFollowTheRun, Lock, Session, vars
<1>2. ASSUME NEW r \in Runs, DispatchLocked(r) PROVE LocksFollowTheRun'
  BY <1>2, <1>a, HolderIsARun DEF DispatchLocked, Leave, LocksFollowTheRun, Lock,
     Session, Held, TypeOK
<1>3. ASSUME NEW r \in Runs, DispatchFails(r) PROVE LocksFollowTheRun'
  <2>1. CASE holder' = holder
    BY <1>3, <2>1, <1>a, HolderIsARun DEF DispatchFails, Leave, LocksFollowTheRun,
       Lock, Session, Held, TypeOK
  <2>2. CASE holder' = Acquired(r)
    BY <1>3, <2>2, <1>a, HolderIsARun, LockType DEF DispatchFails, Acquired, Leave,
       LocksFollowTheRun, Lock, Session, Held, TypeOK
  <2> QED
    BY <1>3, <2>1, <2>2 DEF DispatchFails
<1>4. ASSUME NEW r \in Runs, Dispatch(r) PROVE LocksFollowTheRun'
  BY <1>4, <1>a, HolderIsARun, LockType DEF Dispatch, LockIsFree,
     Acquired, LocksFollowTheRun, Lock, Session, Held, TypeOK
<1>5. ASSUME NEW r \in Runs, AttemptOver(r) PROVE LocksFollowTheRun'
  BY <1>5, <1>a, <1>b, ReleaseStep DEF AttemptOver, Leave, TypeOK
<1>6. ASSUME NEW r \in Runs, ServiceCap(r) PROVE LocksFollowTheRun'
  BY <1>6, <1>a, <1>b, ReleaseStep DEF ServiceCap, Leave, TypeOK
<1>7. ASSUME NEW r \in Runs, Cancelled(r) PROVE LocksFollowTheRun'
  <2>1. CASE holder' = holder
    BY <1>7, <2>1, <1>a, HolderIsARun DEF Cancelled, Leave, LocksFollowTheRun,
       Lock, Session, Held, TypeOK
  <2>2. CASE holder' = Released(r)
    BY <1>7, <2>2, <1>a, <1>b, ReleaseStep DEF Cancelled, Leave, TypeOK
  <2> QED
    BY <1>7, <2>1, <2>2 DEF Cancelled
<1>8. ASSUME NEW r \in Runs, MonitorFails(r) PROVE LocksFollowTheRun'
  BY <1>8, <1>a, HolderIsARun DEF MonitorFails, Leave, LocksFollowTheRun, Lock,
     Session, Held, TypeOK
<1>9. ASSUME NEW r \in Runs, CloseLocks(r) \/ Exit(r) PROVE LocksFollowTheRun'
  <2>1. CASE CloseLocks(r)
    BY <2>1, <1>a, HolderIsARun, LockType DEF CloseLocks, Closed, MyLocks,
       LocksFollowTheRun, Lock, Session, Held, TypeOK
  <2>2. CASE Exit(r)
    BY <2>2, <1>a, HolderIsARun, LockType DEF Exit, LocksFollowTheRun, Lock,
       Session, Held, TypeOK
  <2> QED
    BY <1>9, <2>1, <2>2
<1>10. ASSUME NEW r \in Runs, Crash(r) PROVE LocksFollowTheRun'
  BY <1>10, <1>a, HolderIsARun, LockType DEF Crash, Closed, MyLocks,
     LocksFollowTheRun, Lock, Session, Held, TypeOK
<1>11. CASE AgentExits
  BY <1>11, <1>a DEF AgentExits, LocksFollowTheRun, Lock, Session
<1>12. CASE AllOver
  BY <1>12, <1>a DEF AllOver, LocksFollowTheRun, Lock, Session, vars
<1> QED
  BY <1>1, <1>2, <1>3, <1>4, <1>5, <1>6, <1>7, <1>8, <1>9, <1>10, <1>11, <1>12 DEF Next

\* TypeOK and LocksFollowTheRun hold in every state.
LEMMA IInvHolds == Spec => []IInv
<1>1. IInv /\ [Next]_vars => IInv'
  BY TypeStep, LocksStep DEF IInv
<1> QED
  BY InitIInv, <1>1, PTL DEF Spec

\* The types of the contexts, lock files and agents.
THEOREM TypeCorrect == Spec => []TypeOK
<1>1. IInv => TypeOK
  BY DEF IInv
<1> QED
  BY IInvHolds, <1>1, PTL

\* A lock is held exactly by a run that is at the session it names.
THEOREM LocksFollow == Spec => []LocksFollowTheRun
<1>1. IInv => LocksFollowTheRun
  BY DEF IInv
<1> QED
  BY IInvHolds, <1>1, PTL

\* Mutual exclusion of the monitors of a session, within a lock directory.
THEOREM Exclusion == Spec => []OneMonitorPerSession
<1>1. IInv => OneMonitorPerSession
  BY DEF IInv, LocksFollowTheRun, OneMonitorPerSession, Lock
<1> QED
  BY IInvHolds, <1>1, PTL

\* A run that finds its session locked finds the run that holds the lock.
LEMMA LockedByAnother ==
  ASSUME IInv, [Next]_vars, NEW r \in Runs, ending'[r] = "locked", ending[r] # "locked"
  PROVE  \E q \in Runs \ {r} : /\ holder[Lock(r)] = q
                               /\ phase[q] \in Held /\ Lock(q) = Lock(r)
                               /\ ending'[q] = ending[q]
<1>1. TypeOK /\ LocksFollowTheRun
  BY DEF IInv
<1>2. DispatchLocked(r)
  BY <1>1 DEF Next, vars, TypeOK, DispatchLocked, DispatchFails, Dispatch,
     AttemptOver, ServiceCap, Cancelled, MonitorFails, CloseLocks, Exit, Crash, AgentExits,
     AllOver, Leave
<1>3. holder[Lock(r)] \in Runs /\ holder[Lock(r)] # "none"
  BY <1>1, <1>2, LockType, HolderIsARun DEF DispatchLocked
<1>4. phase[holder[Lock(r)]] \in Held /\ Lock(holder[Lock(r)]) = Lock(r)
  BY <1>1, <1>3, LockType DEF LocksFollowTheRun
<1>5. holder[Lock(r)] # r
  BY <1>2, <1>4 DEF DispatchLocked, Held
<1>6. ending'[holder[Lock(r)]] = ending[holder[Lock(r)]]
  BY <1>1, <1>2, <1>3, <1>5 DEF DispatchLocked, Leave, TypeOK
<1> QED
  BY <1>3, <1>4, <1>5, <1>6

\* No crash, failure or release leaves a lock that stops a later run.
THEOREM NoStale == Spec => NoStaleLock
<1>1. IInv /\ [Next]_vars =>
        [\A r \in Runs : ending'[r] = "locked" /\ ending[r] # "locked" =>
            \E q \in Runs \ {r} : phase[q] \in Held /\ Lock(q) = Lock(r)]_vars
  BY LockedByAnother
<1> QED
  BY IInvHolds, <1>1, PTL DEF Spec, NoStaleLock

\* What SomeoneGoesOn rests on: a run that ended as locked left at a dispatch,
\* where it held no lock.
LockedHoldNone ==
  \A r \in Runs : ending[r] = "locked" =>
     /\ phase[r] \in {"leaving", "closed", "over"}
     /\ \A l \in LockDirs \X Sessions : holder[l] # r

SomeoneInv == LockedHoldNone /\ SomeoneGoesOn

\* A step of a run r is of no consequence for the locks of a run that ended
\* as locked, except that r itself may end so.
LEMMA LockedStep ==
  ASSUME IInv, TypeOK', [Next]_vars, LockedHoldNone PROVE LockedHoldNone'
<1>1. TypeOK /\ LocksFollowTheRun
  BY DEF IInv
<1>2. SUFFICES ASSUME NEW q \in Runs, ending'[q] = "locked"
               PROVE  /\ phase'[q] \in {"leaving", "closed", "over"}
                      /\ \A l \in LockDirs \X Sessions : holder'[l] # q
  BY DEF LockedHoldNone
<1>3. CASE ending[q] # "locked"
  <2>1. DispatchLocked(q)
    BY <1>1, <1>2, <1>3 DEF Next, vars, TypeOK, DispatchLocked, DispatchFails,
       Dispatch, AttemptOver, ServiceCap, Cancelled, MonitorFails, CloseLocks, Exit, Crash,
       AgentExits, AllOver, Leave
  <2>2. \A l \in LockDirs \X Sessions : holder[l] # q
    BY <1>1, <2>1, NoRunAssumption DEF DispatchLocked, LocksFollowTheRun, Held
  <2> QED
    BY <1>1, <2>1, <2>2 DEF DispatchLocked, Leave, TypeOK
<1>4. CASE ending[q] = "locked"
  <2>1. phase[q] \in {"leaving", "closed", "over"} /\ \A l \in LockDirs \X Sessions : holder[l] # q
    BY <1>4 DEF LockedHoldNone
  <2>2. phase'[q] \in {"leaving", "closed", "over"}
    BY <1>1, <1>2, <2>1 DEF Next, vars, TypeOK, DispatchLocked, DispatchFails,
       Dispatch, AttemptOver, ServiceCap, Cancelled, MonitorFails, CloseLocks, Exit, Crash,
       AgentExits, AllOver, Leave
  <2>3. \A l \in LockDirs \X Sessions : holder'[l] \in {holder[l], "none"}
          \/ phase[holder'[l]] = "dispatch"
    BY <1>1, LockType DEF Next, vars, TypeOK, DispatchLocked, DispatchFails,
       Dispatch, AttemptOver, ServiceCap, Cancelled, MonitorFails, CloseLocks, Exit, Crash,
       AgentExits, AllOver, Acquired, Released, Closed, MyLocks
  <2> QED
    BY <2>1, <2>2, <2>3, NoRunAssumption
<1> QED
  BY <1>3, <1>4

\* The runs of one lock directory never all end as locked, whatever their number,
\* roles and sessions.
THEOREM SomeoneRemains == Spec => []SomeoneGoesOn
<1>1. Init => SomeoneInv
  BY RunsAssumption DEF Init, SomeoneInv, LockedHoldNone, SomeoneGoesOn, LockDirs
<1>2. IInv /\ IInv' /\ SomeoneInv /\ [Next]_vars => SomeoneInv'
  <2> SUFFICES ASSUME IInv, IInv', SomeoneInv, [Next]_vars PROVE SomeoneInv'
    OBVIOUS
  <2>1. LockedHoldNone'
    BY LockedStep DEF IInv, SomeoneInv
  <2>2. ASSUME NEW d \in LockDirs
        PROVE  \E r \in Runs : LockDir[r] = d /\ ending'[r] # "locked"
    <3>1. PICK r \in Runs : LockDir[r] = d /\ ending[r] # "locked"
      BY DEF SomeoneInv, SomeoneGoesOn
    <3>2. CASE ending'[r] # "locked"
      BY <3>1, <3>2
    <3>3. CASE ending'[r] = "locked"
      <4>1. PICK q \in Runs : holder[Lock(r)] = q /\ Lock(q) = Lock(r) /\ ending'[q] = ending[q]
        BY <3>1, <3>3, LockedByAnother
      <4>2. ending[q] # "locked"
        BY <4>1, LockType DEF IInv, SomeoneInv, LockedHoldNone
      <4>3. LockDir[q] = d
        BY <3>1, <4>1 DEF Lock
      <4> QED
        BY <4>1, <4>2, <4>3
    <3> QED
      BY <3>2, <3>3
  <2> QED
    BY <2>1, <2>2 DEF SomeoneInv, SomeoneGoesOn
<1>3. SomeoneInv => SomeoneGoesOn
  BY DEF SomeoneInv
<1> QED
  BY IInvHolds, <1>1, <1>2, <1>3, PTL DEF Spec
-----------------------------------------------------------------------------
(***************************************************************************)
(* To each run its locks are those of LockView.                            *)
(***************************************************************************)

\* The lock file of a role of a run; the two roles of a run have different ones.
Place(r, x) == <<LockDir[r], binding[r][x]>>

LEMMA PlacesDiffer ==
  ASSUME TypeOK, NEW r \in Runs
  PROVE  /\ \A x \in Roles : Place(r, x) \in LockDirs \X Sessions
         /\ \A x, y \in Roles : Place(r, x) = Place(r, y) => x = y
         /\ Lock(r) = Place(r, role[r]) /\ role[r] \in Roles
  BY DEF TypeOK, Place, Lock, Session, LockDirs, Roles

\* A process that closes its files frees at most the lock it is at.
LEMMA ClosedIsReleased ==
  ASSUME IInv, NEW q \in Runs
  PROVE  \A l \in LockDirs \X Sessions :
           Closed(q)[l] = IF l = Lock(q) /\ holder[l] = q THEN "none" ELSE holder[l]
  BY NoRunAssumption DEF IInv, TypeOK, LocksFollowTheRun, Closed, MyLocks

\* q is the only run that moves, and l the only lock file it locks, which was
\* free, or unlocks, which was its own.
OnlyMoves(q, l) ==
  /\ \A k \in (LockDirs \X Sessions) \ {l} : holder'[k] = holder[k]
  /\ \/ holder'[l] = holder[l]
     \/ holder[l] = "none" /\ holder'[l] = q
     \/ holder[l] = q /\ holder'[l] = "none"
  /\ \A p \in Runs \ {q} : phase'[p] = phase[p]

Acts(q) ==
  \/ DispatchLocked(q) \/ DispatchFails(q) \/ Dispatch(q) \/ AttemptOver(q) \/ ServiceCap(q)
  \/ Cancelled(q) \/ MonitorFails(q) \/ CloseLocks(q) \/ Exit(q) \/ Crash(q)

\* A step of a run is at its own lock, whatever else it does.
LEMMA OneLockMoves ==
  ASSUME IInv, NEW q \in Runs, Acts(q)
  PROVE  binding' = binding /\ OnlyMoves(q, Lock(q))
<1>1. TypeOK /\ LocksFollowTheRun
  BY DEF IInv
<1>2. binding' = binding
  BY DEF Acts, DispatchLocked, DispatchFails, Dispatch, AttemptOver, ServiceCap,
     Cancelled, MonitorFails, CloseLocks, Exit, Crash
<1>3. CASE DispatchLocked(q) \/ DispatchFails(q) \/ Dispatch(q)
  BY <1>1, <1>3, LockType DEF OnlyMoves, TypeOK, DispatchLocked, DispatchFails, Dispatch,
     LockIsFree, Acquired, Leave
<1>4. CASE AttemptOver(q) \/ ServiceCap(q) \/ Cancelled(q) \/ MonitorFails(q)
  BY <1>1, <1>4, LockType DEF OnlyMoves, TypeOK, LocksFollowTheRun, AttemptOver, ServiceCap,
     Cancelled, MonitorFails, Released, Leave
<1>5. CASE CloseLocks(q) \/ Crash(q)
  <2>1. holder' = Closed(q) /\ \A p \in Runs \ {q} : phase'[p] = phase[p]
    BY <1>1, <1>5 DEF CloseLocks, Crash, TypeOK
  <2> QED
    BY <1>1, <1>2, <2>1, ClosedIsReleased, LockType DEF OnlyMoves
<1>6. CASE Exit(q)
  BY <1>1, <1>6 DEF Exit, OnlyMoves, TypeOK
<1> QED
  BY <1>2, <1>3, <1>4, <1>5, <1>6 DEF Acts

\* What another run does to its lock is, to run r, a step of others or nothing.
LEMMA OthersStep ==
  ASSUME IInv, binding' = binding, NEW r \in Runs, NEW q \in Runs \ {r},
         OnlyMoves(q, Lock(q))
  PROVE  [View(r)!LockStep]_(View(r)!lockVars)
<1> DEFINE l == Lock(q)
<1>1. TypeOK /\ l \in LockDirs \X Sessions
  BY LockType DEF IInv
<1>2. phase'[r] = phase[r]
  BY DEF OnlyMoves
<1>3. \A x \in Roles : Place(r, x)' = Place(r, x)
  BY DEF Place
<1>4. CASE holder'[l] = holder[l] \/ \A x \in Roles : Place(r, x) # l
  <2>1. \A x \in Roles : holder'[Place(r, x)'] = holder[Place(r, x)]
    BY <1>1, <1>3, <1>4, PlacesDiffer DEF OnlyMoves
  <2> QED
    BY <1>2, <2>1 DEF View!lockVars, Place
<1>5. ASSUME NEW x \in Roles, Place(r, x) = l, holder'[l] # holder[l]
      PROVE  View(r)!Others(x)
  <2>1. \A y \in Roles \ {x} : holder'[Place(r, y)'] = holder[Place(r, y)]
    BY <1>1, <1>3, <1>5, PlacesDiffer DEF OnlyMoves
  <2>2. \/ Seen(r, holder[Place(r, x)]) = "free" /\ Seen(r, holder'[Place(r, x)']) = "other"
        \/ Seen(r, holder[Place(r, x)]) = "other" /\ Seen(r, holder'[Place(r, x)']) = "free"
    BY <1>3, <1>5, NoRunAssumption DEF OnlyMoves, Seen
  <2> QED
    BY <1>2, <2>1, <2>2 DEF View!Others, Place
<1> QED
  BY <1>4, <1>5 DEF View!LockStep

\* A run that leaves its lock as it is.
LEMMA SameLocks ==
  ASSUME UNCHANGED <<binding, holder>>, NEW r \in Runs
  PROVE  UNCHANGED [x \in Roles |-> Seen(r, holder[Place(r, x)])]
  BY DEF Place

\* A run that takes the lock of its role, gives it up or closes its files.
LEMMA MovedLocks ==
  ASSUME IInv, binding' = binding, NEW r \in Runs
  PROVE  LET seen == [x \in Roles |-> Seen(r, holder[Place(r, x)])]
         IN  /\ holder' = Acquired(r) => seen' = [seen EXCEPT ![role[r]] = "mine"]
             /\ holder' = Released(r) => seen' = [seen EXCEPT ![role[r]] = "free"]
             /\ holder' = Closed(r) =>
                  seen' = [x \in Roles |-> IF seen[x] = "mine" THEN "free" ELSE seen[x]]
<1>1. TypeOK /\ Lock(r) = Place(r, role[r]) /\ role[r] \in Roles
  BY PlacesDiffer DEF IInv
<1>2. \A x \in Roles : /\ Place(r, x)' = Place(r, x)
                       /\ Place(r, x) \in LockDirs \X Sessions
                       /\ Place(r, x) = Lock(r) => x = role[r]
  BY <1>1, PlacesDiffer DEF Place
<1>3. Seen(r, r) = "mine" /\ Seen(r, "none") = "free"
  BY NoRunAssumption DEF Seen
<1>4. ASSUME holder' = Acquired(r)
      PROVE  \A x \in Roles : Seen(r, holder'[Place(r, x)']) =
                 IF x = role[r] THEN "mine" ELSE Seen(r, holder[Place(r, x)])
  BY <1>1, <1>2, <1>3, <1>4 DEF Acquired, TypeOK
<1>5. ASSUME holder' = Released(r)
      PROVE  \A x \in Roles : Seen(r, holder'[Place(r, x)']) =
                 IF x = role[r] THEN "free" ELSE Seen(r, holder[Place(r, x)])
  BY <1>1, <1>2, <1>3, <1>5 DEF Released, TypeOK
<1>6. ASSUME holder' = Closed(r)
      PROVE  \A x \in Roles : Seen(r, holder'[Place(r, x)']) =
                 IF Seen(r, holder[Place(r, x)]) = "mine" THEN "free"
                 ELSE Seen(r, holder[Place(r, x)])
  BY <1>2, <1>6, NoRunAssumption DEF Closed, MyLocks, Seen
<1> QED
  BY <1>1, <1>4, <1>5, <1>6

\* The steps of a run are those LockView gives it.
LEMMA OwnStep ==
  ASSUME IInv, NEW r \in Runs, Acts(r)
  PROVE  [View(r)!LockStep]_(View(r)!lockVars)
<1> DEFINE seen == [x \in Roles |-> Seen(r, holder[Place(r, x)])]
<1>1. TypeOK /\ LocksFollowTheRun /\ binding' = binding
  BY OneLockMoves DEF IInv
<1>2. /\ Lock(r) = Place(r, role[r]) /\ role[r] \in Roles
      /\ seen[role[r]] = Seen(r, holder[Lock(r)])
      /\ Seen(r, "none") = "free" /\ Seen(r, r) = "mine"
  BY <1>1, PlacesDiffer, NoRunAssumption DEF Seen
<1>3. CASE UNCHANGED holder /\ phase[r] \in {"dispatch", "monitor"} /\ phase'[r] = "leaving"
  <2>1. View(r)!Leave
    BY <1>1, <1>3, SameLocks DEF View!Leave, Place
  <2> QED
    BY <2>1 DEF View!LockStep
<1>4. CASE /\ phase[r] = "dispatch" /\ holder[Lock(r)] = "none" /\ holder' = Acquired(r)
           /\ phase'[r] \in {"monitor", "leaving"}
  <2>1. View(r)!Take(role[r])
    BY <1>1, <1>2, <1>4, MovedLocks DEF View!Take, Place
  <2> QED
    BY <1>2, <2>1 DEF View!LockStep
<1>5. CASE /\ phase[r] = "monitor" /\ holder' = Released(r)
           /\ phase'[r] \in {"dispatch", "leaving"}
  <2>1. holder[Lock(r)] = r
    BY <1>1, <1>5 DEF LocksFollowTheRun
  <2>2. View(r)!Give(role[r])
    BY <1>1, <1>2, <1>5, <2>1, MovedLocks DEF View!Give, Place
  <2> QED
    BY <1>2, <2>2 DEF View!LockStep
<1>6. CASE /\ phase[r] \in {"dispatch", "monitor", "leaving"} /\ holder' = Closed(r)
           /\ phase'[r] \in {"closed", "over"}
  <2>1. View(r)!Close
    BY <1>1, <1>6, MovedLocks DEF View!Close, Place
  <2> QED
    BY <2>1 DEF View!LockStep
<1>7. CASE /\ phase[r] = "closed" /\ phase'[r] = "over" /\ UNCHANGED holder
  BY <1>1, <1>7, SameLocks DEF View!lockVars, Place
<1>8. CASE DispatchLocked(r) \/ DispatchFails(r) \/ Dispatch(r)
  BY <1>1, <1>3, <1>4, <1>8 DEF TypeOK, DispatchLocked, DispatchFails, Dispatch, Leave, LockIsFree
<1>9. CASE AttemptOver(r) \/ ServiceCap(r) \/ Cancelled(r) \/ MonitorFails(r)
  BY <1>1, <1>3, <1>5, <1>9 DEF TypeOK, AttemptOver, ServiceCap, Cancelled, MonitorFails, Leave
<1>10. CASE CloseLocks(r) \/ Exit(r)
  BY <1>1, <1>6, <1>7, <1>10 DEF TypeOK, CloseLocks, Exit
<1>11. CASE Crash(r)
  <2>1. phase[r] \notin Held => holder' = holder
    BY <1>1, <1>11, NoRunAssumption, LockType, ClosedIsReleased DEF Crash, LocksFollowTheRun, Closed, TypeOK
  <2> QED
    BY <1>1, <1>6, <1>7, <1>11, <2>1 DEF TypeOK, Crash, Held
<1> QED
  BY <1>8, <1>9, <1>10, <1>11 DEF Acts

\* To every run, for any processes, sessions and lock directories, its two locks
\* behave as LockView says: a step of another process is never seen as anything
\* but the taking or giving up of one free session.
THEOREM LocksAreAsSeen == Spec => RunsSeeLockView
<1>1. ASSUME Init, NEW r \in Runs PROVE View(r)!Start
  <2>1. \A x \in Roles : Seen(r, holder[Place(r, x)]) = "free"
    <3>1. \A x \in Roles : Place(r, x) \in LockDirs \X Sessions
      BY <1>1, InitIInv, PlacesDiffer DEF IInv
    <3>2. \A x \in Roles : holder[Place(r, x)] = "none"
      BY <1>1, <3>1 DEF Init
    <3> QED
      BY <3>2, NoRunAssumption DEF Seen
  <2>2. phase[r] = "dispatch"
    BY <1>1 DEF Init
  <2> QED
    BY <2>1, <2>2 DEF View!Start, Place
<1>2. ASSUME IInv, [Next]_vars, NEW r \in Runs
      PROVE  [View(r)!LockStep]_(View(r)!lockVars)
  <2>1. CASE AgentExits \/ AllOver \/ UNCHANGED vars
    BY <2>1 DEF AgentExits, AllOver, vars, View!lockVars
  <2>2. ASSUME NEW q \in Runs, Acts(q) PROVE [View(r)!LockStep]_(View(r)!lockVars)
    BY <1>2, <2>2, OneLockMoves, OthersStep, OwnStep
  <2> QED
    BY <1>2, <2>1, <2>2 DEF Next, Acts
<1>3. IInv /\ [Next]_vars => [\A r \in Runs : [View(r)!LockStep]_(View(r)!lockVars)]_vars
  BY <1>2
<1>4. Init => \A r \in Runs : View(r)!Start
  BY <1>1
<1> QED
  BY IInvHolds, <1>4, <1>3, PTL DEF Spec, RunsSeeLockView
=============================================================================
