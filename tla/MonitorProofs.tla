---------------------------- MODULE MonitorProofs ----------------------------
(***************************************************************************)
(* What holds of the monitoring of an attempt for all thresholds: the      *)
(* invariants of Monitor, that Monitor keeps the contract of Attempt, and  *)
(* that its probe loop winds down.                                         *)
(***************************************************************************)
EXTENDS Monitor, TLAPS

-----------------------------------------------------------------------------
(***************************************************************************)
(* What the priorities of the classifier leave of a snapshot.              *)
(***************************************************************************)

\* No rule yields a verdict on a quota that is exhausted but the service cap's.
LEMMA CapComesFirst ==
  ASSUME NEW s, s.providerError = "ServiceCap"
  PROVE  Classify(s) \in {"Cancelled", "FailedServiceCap"}
  BY DEF Classify

\* A result is a success only with its contract met.
LEMMA SuccessHasContract ==
  ASSUME NEW s, Classify(s) \in {"Success", "SoftSuccess"}
  PROVE  s.successContract \/ s.softSuccess
  BY DEF Classify

\* What counts as failed left the process dead and met no success contract.
LEMMA FailureHasNoContract ==
  ASSUME NEW s, Classify(s) \in {"FailedSilent", "FailedProtocol"}
  PROVE  /\ ~s.successContract /\ ~s.softSuccess
         /\ s.grace # "running"
         /\ Classify(s) = "FailedSilent" => s.exited
         /\ Classify(s) = "FailedProtocol" => s.protocolInvalid
  BY DEF Classify, FinalResultBoundaryReached

\* A hang is confirmed of a stale provider log only, and never of a process
\* that was reaped.
LEMMA HangIsStale ==
  ASSUME NEW s, Classify(s) = "HangConfirmed"
  PROVE  s.providerStale /\ ~s.exited
  BY DEF Classify, HangConfirmed, CeilingReached

\* What a snapshot says of the process, of the contracts and of the provider.
LEMMA SnapshotFields ==
  /\ Snapshot.exited <=> ~pid
  /\ Snapshot.successContract <=> SuccessContract
  /\ Snapshot.softSuccess <=> SoftSuccessContract
  /\ Snapshot.protocolInvalid <=> (~Executor /\ ~pid)
  /\ Snapshot.providerStale <=> ProviderStale
  /\ Snapshot.grace = Grace
  /\ cap => Snapshot.providerError = "ServiceCap"
  BY DEF Snapshot, CapReported

-----------------------------------------------------------------------------
(***************************************************************************)
(* The inductive invariant.                                                *)
(***************************************************************************)

\* An agent is only taken for dead when it is.
DeadIsDead == agent = "running" => pid

EndingIsLast == ending # "none" <=> pc = "ended"

\* A hang was confirmed of a process that had not been reaped.
HangIsAlive == pc = "stopHang" => pid

MonitorInv ==
  /\ TypeOK /\ DeadIsDead /\ EndingIsLast /\ HangIsAlive
  /\ EndsWithTheAgentDead /\ NoResultIsRetried /\ ChangesAreReviewed /\ CapIsFinal

\* The monitoring starts with a live agent and no grace.
LEMMA MonitorStart == Init => MonitorInv
  <1> SUFFICES ASSUME Init PROVE MonitorInv
    OBVIOUS
  <1>1. {age, idle} \subseteq {0} /\ {graceCommit, graceOutbox, written} \subseteq {{}}
    BY DEF Init
  <1>2. log \in {{}} \cup {{t} : t \in 0..HangConfirm}
    BY TimesAssumption DEF Init
  <1>3. {pid, seen, signal, children, content, dirty, committed, artifact, cap, cancel}
          \subseteq BOOLEAN
    BY DEF Init
  <1>4. TypeOK
    BY <1>1, <1>2, <1>3, TimesAssumption DEF Init, TypeOK
  <1> QED BY <1>4 DEF Init, MonitorInv, DeadIsDead, EndingIsLast, HangIsAlive, EndsWithTheAgentDead,
               NoResultIsRetried, ChangesAreReviewed, CapIsFinal

\* A grace period opens with its full length and is closed by a result.
LEMMA GraceType ==
  ASSUME TypeOK
  PROVE  /\ OutboxGraceNow \in {{}} \cup {{t} : t \in 0..OutboxGrace}
         /\ CommitGraceNow \in {{}} \cup {{t} : t \in 0..CommitGrace}
  BY TimesAssumption DEF TypeOK, OutboxGraceNow, CommitGraceNow

\* As long as a changed repository comes without a report, a grace period is
\* running or over.
LEMMA ChangesHaveGrace ==
  ASSUME TypeOK, Executor, ~content, dirty \/ committed
  PROVE  Grace # "none"
  <1>1. OutboxGraceNow # {} \/ CommitGraceNow # {}
    BY DEF OutboxGraceNow, CommitGraceNow
  <1> QED BY <1>1 DEF Grace, GraceOf

\* Time, probes and the world keep every variable in its type.
LEMMA MonitorTypeStep == TypeOK /\ [Next]_vars => TypeOK'
  <1> SUFFICES ASSUME TypeOK, [Next]_vars PROVE TypeOK'
    OBVIOUS
  <1> USE TimesAssumption DEF TypeOK, timers, world
  <1>1. CASE Tick
    <2>1. age' \in 0..HangMax /\ idle' \in 0..HangConfirm
      BY <1>1 DEF Tick, Older
    <2>2. \A bound \in Nat \ {0} : \A g \in {{}} \cup {{t} : t \in 0..bound} :
            /\ Left(g) \in {{}} \cup {{t} : t \in 0..bound}
            /\ {Older(t, bound) : t \in g} \in {{}} \cup {{t} : t \in 0..bound}
      <3> SUFFICES ASSUME NEW bound \in Nat \ {0}, NEW g \in {{}} \cup {{t} : t \in 0..bound}
                   PROVE  /\ Left(g) \in {{}} \cup {{t} : t \in 0..bound}
                          /\ {Older(t, bound) : t \in g} \in {{}} \cup {{t} : t \in 0..bound}
        OBVIOUS
      <3>1. CASE g = {}
        BY <3>1 DEF Left
      <3>2. ASSUME NEW t \in 0..bound, g = {t}
            PROVE  /\ Left(g) \in {{}} \cup {{u} : u \in 0..bound}
                   /\ {Older(u, bound) : u \in g} \in {{}} \cup {{u} : u \in 0..bound}
        <4>1. Left(g) = {IF t > 0 THEN t - 1 ELSE 0} /\ {Older(u, bound) : u \in g} = {Older(t, bound)}
          BY <3>2 DEF Left
        <4>2. (IF t > 0 THEN t - 1 ELSE 0) \in 0..bound /\ Older(t, bound) \in 0..bound
          BY DEF Older
        <4> QED BY <4>1, <4>2
      <3> QED BY <3>1, <3>2
    <2>3. /\ graceCommit' \in {{}} \cup {{t} : t \in 0..CommitGrace}
          /\ graceOutbox' \in {{}} \cup {{t} : t \in 0..OutboxGrace}
          /\ written' \in {{}} \cup {{t} : t \in 0..FinalizingKill}
          /\ log' \in {{}} \cup {{t} : t \in 0..HangConfirm}
      BY <1>1, <2>2 DEF Tick
    <2> QED BY <1>1, <2>1, <2>3 DEF Tick
  <1>2. CASE SeeCancel \/ Poll
    BY <1>2 DEF SeeCancel, Poll
  <1>3. ASSUME NEW states, Probe(states),
               \/ \E how \in {"collect", "silent", "protocol", "cap"} : End(how)
               \/ \E to \in {"stopHang", "stopCancel", "stopFinalize", "sleep"} : Proceed(to)
        PROVE  TypeOK'
    <2>1. /\ graceCommit' \in {{}} \cup {{t} : t \in 0..CommitGrace}
          /\ graceOutbox' \in {{}} \cup {{t} : t \in 0..OutboxGrace}
      BY <1>3, GraceType DEF Probe
    <2>2. seen' \in BOOLEAN /\ signal' \in BOOLEAN
      <3>1. seen' = SeenNow /\ signal' = FALSE
        BY <1>3 DEF Probe
      <3>2. SeenNow \in BOOLEAN
        BY DEF SeenNow
      <3> QED BY <3>1, <3>2
    <2>4. idle' \in 0..HangConfirm
      <3>1. idle' = 0 \/ idle' = idle
        BY <1>3 DEF Probe
      <3> QED BY <3>1
    <2>3. /\ pc' \in {"sleep", "poll", "classify", "stopHang", "stopFinalize", "stopCancel", "ended"}
          /\ ending' \in {"none", "collect", "silent", "protocol", "hang", "cap", "aborted", "failed"}
      BY <1>3 DEF End, Proceed
    <2> QED BY <1>3, <2>1, <2>2, <2>3, <2>4 DEF Probe
  <1>4. CASE Collect \/ FailSilent \/ FailProtocol \/ ServiceCap \/ ConfirmHang
              \/ CancelProbe \/ KeepWatching \/ Finalize
    BY <1>3, <1>4 DEF Collect, FailSilent, FailProtocol, ServiceCap, ConfirmHang,
         CancelProbe, KeepWatching, Finalize
  <1>5. CASE StopHung \/ StopCancelled \/ StopFinalizing
    BY <1>5 DEF StopHung, StopCancelled, StopFinalizing, Terminated, End, Proceed
  <1>6. CASE ProbeFails
    BY <1>6 DEF ProbeFails, End
  <1>7. CASE AgentWrites
    <2>1. written' \in {{}} \cup {{t} : t \in 0..FinalizingKill}
      BY <1>7 DEF AgentWrites
    <2> QED BY <1>7, <2>1 DEF AgentWrites, World
  <1>8. CASE AgentWorks
    BY <1>8 DEF AgentWorks, World
  <1>9. CASE LogWritten
    <2>1. log' \in {{}} \cup {{t} : t \in 0..HangConfirm}
      BY <1>9 DEF LogWritten
    <2> QED BY <1>9, <2>1 DEF LogWritten, World
  <1>10. CASE AgentForks \/ AgentExits \/ LogRemoved \/ Diagnostics \/ Cancel
    BY <1>10 DEF AgentForks, AgentExits, LogRemoved, Diagnostics, Cancel, World
  <1>11. CASE UNCHANGED vars
    BY <1>11 DEF vars
  <1> QED BY <1>1, <1>2, <1>4, <1>5, <1>6, <1>7, <1>8, <1>9, <1>10, <1>11
          DEF Next, System, Activity, Ended
\* Every step keeps the invariant: a probe that ends the attempt without a hang
\* has polled a dead process, and what it saw of the outbox, of the repository
\* and of the diagnostics can no longer change.
LEMMA MonitorStep == MonitorInv /\ [Next]_vars => MonitorInv'
  <1> SUFFICES ASSUME MonitorInv, [Next]_vars
               PROVE  (/\ DeadIsDead /\ EndingIsLast /\ HangIsAlive /\ EndsWithTheAgentDead
                       /\ NoResultIsRetried /\ ChangesAreReviewed /\ CapIsFinal)'
    BY MonitorTypeStep DEF MonitorInv
  <1> DEFINE Inv == /\ DeadIsDead /\ EndingIsLast /\ HangIsAlive /\ EndsWithTheAgentDead
                    /\ NoResultIsRetried /\ ChangesAreReviewed /\ CapIsFinal
  <1> USE DEF DeadIsDead, EndingIsLast, HangIsAlive, EndsWithTheAgentDead, NoResultIsRetried,
       ChangesAreReviewed, CapIsFinal, world, timers
  <1>0. Inv /\ agent \in {"running", "exited"}
    BY DEF MonitorInv, TypeOK
  <1>1. CASE Tick \/ SeeCancel \/ Poll
    BY <1>0, <1>1 DEF Tick, SeeCancel, Poll
  <1>2. CASE Collect
    <2>1. SuccessContract \/ SoftSuccessContract
      BY <1>2, SuccessHasContract, SnapshotFields DEF Collect, Probe
    <2>2. ~pid
      BY <2>1 DEF SuccessContract, SoftSuccessContract
    <2>3. ~cap
      BY <1>2, CapComesFirst, SnapshotFields DEF Collect, Probe
    <2> QED BY <1>0, <1>2, <2>2, <2>3 DEF Collect, Probe, End
  <1>3. CASE FailSilent \/ FailProtocol
    <2>1. Classify(Snapshot) \in {"FailedSilent", "FailedProtocol"}
      BY <1>3 DEF FailSilent, FailProtocol, Probe
    <2>2. ~pid
      BY <2>1, FailureHasNoContract, SnapshotFields
    <2>3. ~content
      BY <2>1, <2>2, FailureHasNoContract, SnapshotFields DEF SuccessContract
    <2>4. ~cap
      BY <2>1, CapComesFirst, SnapshotFields
    <2>5. kind = "implement" => Grace = "none"
      <3>1. Grace # "running" /\ ~SoftSuccessContract
        BY <2>1, FailureHasNoContract, SnapshotFields
      <3>2. Grace \in {"none", "over", "running"}
        BY DEF Grace, GraceOf
      <3> QED BY <2>2, <2>3, <3>1, <3>2 DEF SoftSuccessContract, Executor
    <2>6. kind = "implement" => ~dirty /\ ~committed
      BY <2>3, <2>5, ChangesHaveGrace DEF MonitorInv, Executor
    <2> QED BY <1>0, <1>3, <2>2, <2>3, <2>4, <2>6 DEF FailSilent, FailProtocol, Probe, End
  <1>4. CASE ServiceCap \/ CancelProbe \/ KeepWatching \/ Finalize
    BY <1>0, <1>4 DEF ServiceCap, CancelProbe, KeepWatching, Finalize,
         Probe, End, Proceed
  <1>5. CASE StopHung \/ StopCancelled \/ StopFinalizing
    BY <1>0, <1>5 DEF StopHung, StopCancelled, StopFinalizing, Terminated, End, Proceed
  <1>6. CASE ProbeFails
    BY <1>0, <1>6 DEF ProbeFails, End
  <1>7. CASE Activity \/ Cancel
    BY <1>0, <1>7 DEF Activity, AgentWrites, AgentWorks, AgentForks, AgentExits,
         LogWritten, LogRemoved, Diagnostics, Cancel, World
  <1>8. CASE UNCHANGED vars
    BY <1>0, <1>8 DEF vars
  <1>9. CASE ConfirmHang
    <2>1. pid
      BY <1>9, HangIsStale, SnapshotFields DEF ConfirmHang, Probe
    <2> QED BY <1>0, <1>9, <2>1 DEF ConfirmHang, Probe, Proceed
  <1> QED BY <1>1, <1>2, <1>3, <1>4, <1>5, <1>6, <1>7, <1>8, <1>9 DEF Next, System, Ended

\* The invariant of the monitoring of an attempt.
LEMMA MonitorInvariant == Spec => []MonitorInv
  BY MonitorStart, MonitorStep, PTL DEF Spec

-----------------------------------------------------------------------------
(***************************************************************************)
(* The theorems.                                                           *)
(***************************************************************************)

\* Type correctness: ages stay below their thresholds and grace periods within
\* their lengths, whatever the order of ticks, probes and agent steps.
THEOREM TypeCorrect == Spec => []TypeOK
  <1>1. MonitorInv => TypeOK
    BY DEF MonitorInv
  <1> QED BY <1>1, MonitorInvariant, PTL

\* Whoever follows a monitor that ended, other than on a service cap or an
\* error, meets no agent.
THEOREM NoAgentIsLeft == Spec => []EndsWithTheAgentDead
  <1>1. MonitorInv => EndsWithTheAgentDead
    BY DEF MonitorInv
  <1> QED BY <1>1, MonitorInvariant, PTL

\* An attempt is never retried over a result it left in the outbox.
THEOREM ResultsAreCollected == Spec => []NoResultIsRetried
  <1>1. MonitorInv => NoResultIsRetried
    BY DEF MonitorInv
  <1> QED BY <1>1, MonitorInvariant, PTL

\* An implementer that changed the repository and fell silent is reviewed,
\* however the grace periods and the hang thresholds are chosen.
THEOREM ChangesReachTheReviewer == Spec => []ChangesAreReviewed
  <1>1. MonitorInv => ChangesAreReviewed
    BY DEF MonitorInv
  <1> QED BY <1>1, MonitorInvariant, PTL

\* An exhausted quota that is reported is never retried.
THEOREM CapsAreNotRetried == Spec => []CapIsFinal
  <1>1. MonitorInv => CapIsFinal
    BY DEF MonitorInv
  <1> QED BY <1>1, MonitorInvariant, PTL

\* No agent is given up while its provider log is alive, or before it appeared.
THEOREM LiveAgentsAreKept == Spec => LiveLogIsNoHang
  <1> DEFINE Safe == pc = "classify" /\ pc' = "stopHang" =>
                       seen' /\ \A t \in log : t >= HangConfirm
  <1>1. MonitorInv /\ [Next]_vars => [Safe]_vars
    <2> SUFFICES ASSUME MonitorInv, Next, pc = "classify", pc' = "stopHang"
                 PROVE  seen' /\ \A t \in log : t >= HangConfirm
      OBVIOUS
    <2>1. ConfirmHang
      BY DEF Next, System, Activity, Tick, SeeCancel, Poll, Collect, FailSilent,
           FailProtocol, ServiceCap, CancelProbe, KeepWatching, Finalize, StopHung,
           StopCancelled, StopFinalizing, ProbeFails, AgentWrites, AgentWorks,
           AgentForks, AgentExits, LogWritten, LogRemoved, Diagnostics, Cancel, World,
           Ended, vars, End, Proceed
    <2>2. ProviderStale /\ pid
      BY <2>1, HangIsStale, SnapshotFields DEF ConfirmHang, Probe
    <2>3. seen' = SeenNow
      BY <2>1 DEF ConfirmHang, Probe
    <2>4. log = {} \/ \E u \in 0..HangConfirm : log = {u}
      BY DEF MonitorInv, TypeOK
    <2> QED BY <2>2, <2>3, <2>4 DEF ProviderStale, SeenNow
  <1> QED BY <1>1, MonitorInvariant, PTL DEF Spec, LiveLogIsNoHang
-----------------------------------------------------------------------------
(***************************************************************************)
(* Monitor implements Attempt.                                             *)
(***************************************************************************)

\* Every step of the monitor, of its agent and of the operator is a step of the
\* contract or none at all.
LEMMA AttemptStep ==
  MonitorInv /\ [Next]_vars => [Contract!Step]_(Contract!attemptVars)
  <1> SUFFICES ASSUME MonitorInv, [Next]_vars
               PROVE  Contract!Step \/ UNCHANGED Contract!attemptVars
    OBVIOUS
  <1> USE DEF world, timers
  <1>0. /\ agent \in {"running", "exited"} /\ pid \in BOOLEAN /\ content \in BOOLEAN
        /\ agent = "running" => pid
        /\ ending # "none" <=> pc = "ended"
    BY DEF MonitorInv, TypeOK, DeadIsDead, EndingIsLast
  <1>1. CASE \/ Tick \/ SeeCancel \/ ConfirmHang \/ CancelProbe \/ KeepWatching
             \/ Finalize \/ AgentWorks \/ AgentForks \/ LogWritten \/ LogRemoved
             \/ Diagnostics \/ Cancel \/ UNCHANGED vars
    <2>1. UNCHANGED <<kind, agent, pid, content, ending>>
      BY <1>1 DEF Tick, SeeCancel, ConfirmHang, CancelProbe, KeepWatching, Finalize,
           Probe, Proceed, AgentWorks, AgentForks, LogWritten, LogRemoved, Diagnostics,
           Cancel, World, vars
    <2> QED BY <2>1 DEF Contract!attemptVars, Executor
  <1>2. CASE AgentWrites
    <2>1. UNCHANGED <<kind, agent, pid, ending>> /\ agent = "running" /\ content' \in BOOLEAN
      BY <1>2 DEF AgentWrites, World
    <2> QED BY <2>1 DEF Contract!Step, Contract!Deliver, Executor
  <1>3. CASE AgentExits
    <2>1. /\ UNCHANGED <<kind, pid, content, ending>> /\ agent = "running"
          /\ ending = "none" /\ pid
      BY <1>0, <1>3 DEF AgentExits, World
    <2> QED BY <2>1 DEF Contract!attemptVars, Executor
  <1>4. CASE Poll
    <2>1. UNCHANGED <<kind, agent, content, ending>> /\ ending = "none"
      BY <1>0, <1>4 DEF Poll
    <2>2. CASE pid' = pid
      BY <2>1, <2>2 DEF Contract!attemptVars, Executor
    <2>3. CASE pid' # pid
      <3>1. pid /\ ~pid' /\ agent = "exited"
        BY <1>0, <1>4, <2>3 DEF Poll
      <3> QED BY <2>1, <3>1 DEF Contract!Step, Contract!Exit, Executor
    <2> QED BY <2>2, <2>3
  <1>5. CASE StopFinalizing
    <2>1. /\ UNCHANGED <<kind, content, ending>> /\ ending = "none"
          /\ agent' = "exited" /\ pid' = FALSE
      BY <1>0, <1>5 DEF StopFinalizing, Terminated, Proceed
    <2>2. CASE agent = "running" \/ pid
      BY <2>1, <2>2 DEF Contract!Step, Contract!Exit, Executor
    <2>3. CASE ~(agent = "running" \/ pid)
      BY <2>1, <2>3 DEF Contract!attemptVars, Executor
    <2> QED BY <2>2, <2>3
  <1>6. CASE Collect
    <2>1. /\ UNCHANGED <<kind, agent, pid, content>>
          /\ ending = "none" /\ ending' = "collect"
      BY <1>0, <1>6 DEF Collect, Probe, End
    <2>2. SuccessContract \/ SoftSuccessContract
      BY <1>6, SuccessHasContract, SnapshotFields DEF Collect, Probe
    <2>3. ~pid /\ agent = "exited" /\ (content \/ Executor)
      BY <1>0, <2>2 DEF SuccessContract, SoftSuccessContract
    <2> QED BY <2>1, <2>3 DEF Contract!Step, Contract!Collect, Executor
  <1>7. CASE FailSilent \/ FailProtocol
    <2>1. /\ UNCHANGED <<kind, agent, pid, content>>
          /\ ending = "none" /\ ending' \in {"silent", "protocol"}
      BY <1>0, <1>7 DEF FailSilent, FailProtocol, Probe, End
    <2>2. Classify(Snapshot) \in {"FailedSilent", "FailedProtocol"}
      BY <1>7 DEF FailSilent, FailProtocol, Probe
    <2>3. ~pid
      BY <2>2, FailureHasNoContract, SnapshotFields
    <2>4. ~content /\ agent = "exited"
      BY <1>0, <2>2, <2>3, FailureHasNoContract, SnapshotFields DEF SuccessContract
    <2> QED BY <2>1, <2>3, <2>4 DEF Contract!Step, Contract!Retry, Executor
  <1>8. CASE ServiceCap \/ ProbeFails
    <2>1. /\ UNCHANGED <<kind, agent, pid, content>>
          /\ ending = "none" /\ ending' \in {"cap", "failed"}
      BY <1>0, <1>8 DEF ServiceCap, ProbeFails, Probe, End
    <2> QED BY <2>1 DEF Contract!Step, Contract!Stop, Executor
  <1>9. CASE StopHung
    <2>1. /\ UNCHANGED <<kind, pid, content>> /\ agent' = "exited"
          /\ ending = "none" /\ ending' = "hang"
      BY <1>0, <1>9 DEF StopHung, Terminated, End
    <2>2. pid
      BY <1>9 DEF MonitorInv, HangIsAlive, StopHung
    <2> QED BY <2>1, <2>2 DEF Contract!Step, Contract!GiveUp, Executor
  <1>10. CASE StopCancelled
    <2>1. /\ UNCHANGED <<kind, pid, content>> /\ agent' = "exited"
          /\ ending = "none" /\ ending' = "aborted"
      BY <1>0, <1>10 DEF StopCancelled, Terminated, End
    <2> QED BY <2>1 DEF Contract!Step, Contract!Abort, Executor
  <1> QED BY <1>1, <1>2, <1>3, <1>4, <1>5, <1>6, <1>7, <1>8, <1>9, <1>10
          DEF Next, System, Activity, Ended

\* The monitoring of an attempt keeps the contract of Attempt for all
\* thresholds: a result is collected from a dead agent, nothing is retried over
\* one, and an agent that is given up or cancelled is dead before the round goes
\* on.
THEOREM AttemptIsKept == Spec => KeepsTheContract
  <1>1. Init => Contract!Begun
    BY DEF Init, Contract!Begun, Executor
  <1> QED BY <1>1, MonitorInvariant, AttemptStep, PTL
          DEF Spec, KeepsTheContract, Contract!Attempted
-----------------------------------------------------------------------------
(***************************************************************************)
(* The probe loop winds down.                                              *)
(***************************************************************************)

\* A time that may be missing, and what is left of it until its bound.
Amount(g) == IF g = {} THEN 0 ELSE CHOOSE t \in g : TRUE
Till(g, bound) == IF g = {} THEN 0 ELSE bound - Amount(g)

\* The grace period the next probe acts on, and whether it has yet to open it.
Deadline == IF OutboxGraceNow # {} THEN OutboxGraceNow ELSE CommitGraceNow
Opening == OutboxGraceNow # graceOutbox \/ CommitGraceNow # graceCommit

\* The clocks of an attempt, and whether the next tick brings one of them on.
Ages == (HangMax - age) + Till(log, HangConfirm) + Till(written, FinalizingKill)
Clocks == Ages + Amount(Deadline)
Ticking == Ages > 0 \/ (Amount(Deadline) > 0 /\ ~Opening)

\* What is left of an attempt when nobody does anything more: its clocks, that
\* its process may still have to be reaped and a grace period opened, and the
\* steps to the end of the probe; one more probe when no clock runs any more.
ToGo ==
  IF pc = "ended" THEN 0
  ELSE IF pc \in {"stopHang", "stopFinalize", "stopCancel"} THEN 1
  ELSE IF pc = "sleep" THEN (IF Ticking THEN 2 ELSE 5)
  ELSE IF pc = "classify" THEN 3 ELSE 4
Rank == 6 * (Clocks + (IF pid THEN 1 ELSE 0) + (IF Opening THEN 1 ELSE 0)) + ToGo
RankBound == 6 * (HangMax + HangConfirm + FinalizingKill + CommitGrace + OutboxGrace + 2) + 5

\* Every step of the probe loop brings the attempt nearer to its end, except a
\* probe that finds the process alive and its provider log never there.
WindsDown == [][System => Rank' < Rank \/ (pc = "classify" /\ pid /\ ~seen')]_vars

\* A time that is there is the one in its set.
LEMMA Amounts ==
  /\ Amount({}) = 0 /\ \A t : Amount({t}) = t
  /\ \A bound : Till({}, bound) = 0 /\ \A t : Till({t}, bound) = bound - t
BY DEF Amount, Till

LEMMA TillType ==
  ASSUME NEW bound \in Nat, NEW g \in {{}} \cup {{t} : t \in 0..bound}
  PROVE  Till(g, bound) \in 0..bound /\ Amount(g) \in 0..bound
  <1>1. CASE g = {}
    BY <1>1, Amounts
  <1>2. ASSUME NEW t \in 0..bound, g = {t}
        PROVE  Till(g, bound) \in 0..bound /\ Amount(g) \in 0..bound
    <2>1. Till(g, bound) = bound - t /\ Amount(g) = t
      BY <1>2, Amounts
    <2> QED BY <2>1
  <1> QED BY <1>1, <1>2

\* A tick makes a file older, up to its bound, and a grace period shorter.
LEMMA TickedTime ==
  ASSUME NEW bound \in Nat, NEW g \in {{}} \cup {{t} : t \in 0..bound}
  PROVE  /\ Till({Older(t, bound) : t \in g}, bound)
              = IF Till(g, bound) > 0 THEN Till(g, bound) - 1 ELSE 0
         /\ Amount(Left(g)) = IF Amount(g) > 0 THEN Amount(g) - 1 ELSE 0
         /\ Left(g) = {} <=> g = {}
  <1>1. CASE g = {}
    <2>1. {Older(t, bound) : t \in g} = {} /\ Left(g) = {}
      BY <1>1 DEF Left
    <2> QED BY <1>1, <2>1, Amounts
  <1>2. ASSUME NEW t \in 0..bound, g = {t}
        PROVE  /\ Till({Older(u, bound) : u \in g}, bound)
                    = IF Till(g, bound) > 0 THEN Till(g, bound) - 1 ELSE 0
               /\ Amount(Left(g)) = IF Amount(g) > 0 THEN Amount(g) - 1 ELSE 0
               /\ Left(g) # {}
    <2>1. {Older(u, bound) : u \in g} = {Older(t, bound)} /\ Left(g) = {IF t > 0 THEN t - 1 ELSE 0}
      BY <1>2 DEF Left
    <2>2. /\ Till({Older(u, bound) : u \in g}, bound) = bound - Older(t, bound)
          /\ Amount(Left(g)) = IF t > 0 THEN t - 1 ELSE 0
          /\ Till(g, bound) = bound - t /\ Amount(g) = t
      BY <1>2, <2>1, Amounts
    <2>3. bound - Older(t, bound) = IF bound - t > 0 THEN bound - t - 1 ELSE 0
      BY DEF Older
    <2> QED BY <2>1, <2>2, <2>3
  <1> QED BY <1>1, <1>2

\* The measure is a number below its bound.
LEMMA AgesType ==
  ASSUME TypeOK PROVE Ages \in 0 .. (HangMax + HangConfirm + FinalizingKill)
  <1>1. Till(log, HangConfirm) \in 0..HangConfirm /\ Till(written, FinalizingKill) \in 0..FinalizingKill
    BY TimesAssumption, TillType DEF TypeOK
  <1>2. HangMax - age \in 0..HangMax
    BY TimesAssumption DEF TypeOK
  <1> QED BY <1>1, <1>2, TimesAssumption DEF Ages

LEMMA DeadlineType ==
  ASSUME TypeOK PROVE Amount(Deadline) \in 0 .. (CommitGrace + OutboxGrace)
  <1>1. Amount(OutboxGraceNow) \in 0..OutboxGrace /\ Amount(CommitGraceNow) \in 0..CommitGrace
    BY GraceType, TimesAssumption, TillType
  <1> QED BY <1>1, TimesAssumption DEF Deadline

LEMMA RankType == TypeOK => Rank \in 0..RankBound
  <1> SUFFICES ASSUME TypeOK PROVE Rank \in 0..RankBound
    OBVIOUS
  <1>1. Clocks \in 0 .. (HangMax + HangConfirm + FinalizingKill + CommitGrace + OutboxGrace)
    BY AgesType, DeadlineType, TimesAssumption DEF Clocks
  <1>2. ToGo \in 0..5
    BY DEF ToGo
  <1> QED BY <1>1, <1>2, TimesAssumption DEF Rank, RankBound

\* A tick brings on the clocks that are not at their bounds.
LEMMA TickedAges ==
  ASSUME TypeOK, Tick
  PROVE  Ages' <= Ages /\ (Ages > 0 => Ages' < Ages)
  <1>1. /\ Till(log, HangConfirm) \in 0..HangConfirm
        /\ Till(log', HangConfirm)
             = IF Till(log, HangConfirm) > 0 THEN Till(log, HangConfirm) - 1 ELSE 0
    BY TimesAssumption, TillType, TickedTime DEF TypeOK, Tick
  <1>2. /\ Till(written, FinalizingKill) \in 0..FinalizingKill
        /\ Till(written', FinalizingKill)
             = IF Till(written, FinalizingKill) > 0 THEN Till(written, FinalizingKill) - 1 ELSE 0
    BY TimesAssumption, TillType, TickedTime DEF TypeOK, Tick
  <1>3. /\ HangMax - age \in 0..HangMax
        /\ HangMax - age' = IF HangMax - age > 0 THEN HangMax - age - 1 ELSE 0
    BY TimesAssumption DEF TypeOK, Tick, Older
  <1>4. /\ Ages = (HangMax - age) + Till(log, HangConfirm) + Till(written, FinalizingKill)
        /\ Ages' = (HangMax - age') + Till(log', HangConfirm) + Till(written', FinalizingKill)
    BY DEF Ages
  <1> QED BY <1>1, <1>2, <1>3, <1>4, TimesAssumption

LEMMA TickedDeadline ==
  ASSUME TypeOK, Tick
  PROVE  /\ Opening' = Opening
         /\ Amount(Deadline)' <= Amount(Deadline)
         /\ Amount(Deadline) > 0 /\ ~Opening => Amount(Deadline)' < Amount(Deadline)
  <1>1. /\ graceCommit' = Left(graceCommit) /\ graceOutbox' = Left(graceOutbox)
        /\ UNCHANGED <<kind, content, committed, dirty>>
    BY DEF Tick
  <1>2. /\ graceCommit' = {} <=> graceCommit = {}
        /\ graceOutbox' = {} <=> graceOutbox = {}
        /\ Amount(graceOutbox') = IF Amount(graceOutbox) > 0 THEN Amount(graceOutbox) - 1 ELSE 0
        /\ Amount(graceCommit') = IF Amount(graceCommit) > 0 THEN Amount(graceCommit) - 1 ELSE 0
        /\ Amount(graceOutbox) \in Nat /\ Amount(graceCommit) \in Nat
    <2>1. /\ OutboxGrace \in Nat /\ graceOutbox \in {{}} \cup {{t} : t \in 0..OutboxGrace}
          /\ CommitGrace \in Nat /\ graceCommit \in {{}} \cup {{t} : t \in 0..CommitGrace}
      BY TimesAssumption DEF TypeOK
    <2>2. /\ Left(graceOutbox) = {} <=> graceOutbox = {}
          /\ Amount(Left(graceOutbox)) = IF Amount(graceOutbox) > 0 THEN Amount(graceOutbox) - 1 ELSE 0
          /\ Amount(graceOutbox) \in 0..OutboxGrace
      BY <2>1, TickedTime, TillType
    <2>3. /\ Left(graceCommit) = {} <=> graceCommit = {}
          /\ Amount(Left(graceCommit)) = IF Amount(graceCommit) > 0 THEN Amount(graceCommit) - 1 ELSE 0
          /\ Amount(graceCommit) \in 0..CommitGrace
      BY <2>1, TickedTime, TillType
    <2> QED BY <1>1, <2>1, <2>2, <2>3
  <1>3. Opening = (\/ (content \/ ~Executor) /\ (graceOutbox # {} \/ graceCommit # {})
                   \/ ~content /\ Executor /\ committed /\ (graceOutbox = {} \/ graceCommit # {})
                   \/ /\ ~content /\ Executor /\ ~committed /\ dirty
                      /\ graceOutbox = {} /\ graceCommit = {})
    BY TimesAssumption DEF Opening, OutboxGraceNow, CommitGraceNow
  <1>4. Opening' = (\/ (content \/ ~Executor) /\ (graceOutbox' # {} \/ graceCommit' # {})
                    \/ ~content /\ Executor /\ committed /\ (graceOutbox' = {} \/ graceCommit' # {})
                    \/ /\ ~content /\ Executor /\ ~committed /\ dirty
                       /\ graceOutbox' = {} /\ graceCommit' = {})
    BY <1>1, TimesAssumption DEF Opening, OutboxGraceNow, CommitGraceNow, Executor
  <1>5. Opening' = Opening
    BY <1>2, <1>3, <1>4
  <1>6. Executor' = Executor
    BY <1>1 DEF Executor
  <1>7. CASE content \/ ~Executor
    BY <1>1, <1>5, <1>6, <1>7, Amounts DEF Deadline, OutboxGraceNow, CommitGraceNow
  <1>8. CASE ~content /\ Executor /\ graceOutbox # {}
    <2>1. Deadline = graceOutbox /\ Deadline' = graceOutbox'
      BY <1>1, <1>2, <1>6, <1>8 DEF Deadline, OutboxGraceNow
    <2> QED BY <1>2, <1>5, <2>1
  <1>9. CASE ~content /\ Executor /\ graceOutbox = {} /\ committed
    <2>1. Deadline = {OutboxGrace} /\ Deadline' = {OutboxGrace} /\ Opening
      BY <1>1, <1>2, <1>3, <1>6, <1>9 DEF Deadline, OutboxGraceNow
    <2>2. Amount(Deadline) = OutboxGrace /\ Amount(Deadline)' = OutboxGrace
      BY <2>1, Amounts
    <2> QED BY <1>5, <2>1, <2>2, TimesAssumption
  <1>10. CASE ~content /\ Executor /\ graceOutbox = {} /\ ~committed /\ Opening
    <2>1. Deadline = {CommitGrace} /\ Deadline' = {CommitGrace}
      BY <1>1, <1>2, <1>3, <1>6, <1>10 DEF Deadline, OutboxGraceNow, CommitGraceNow
    <2>2. Amount(Deadline) = CommitGrace /\ Amount(Deadline)' = CommitGrace
      BY <2>1, Amounts
    <2> QED BY <1>5, <1>10, <2>2, TimesAssumption
  <1>11. CASE ~content /\ Executor /\ graceOutbox = {} /\ ~committed /\ ~Opening
    <2>1. Deadline = graceCommit /\ Deadline' = graceCommit'
      BY <1>1, <1>2, <1>3, <1>6, <1>11 DEF Deadline, OutboxGraceNow, CommitGraceNow
    <2> QED BY <1>2, <1>5, <2>1
  <1> QED BY <1>7, <1>8, <1>9, <1>10, <1>11

\* A probe leaves the clocks alone and opens the grace period it acts on.
LEMMA ProbedClocks ==
  ASSUME TypeOK, NEW states, Probe(states)
  PROVE  Clocks' = Clocks /\ Ages' = Ages /\ Amount(Deadline)' = Amount(Deadline) /\ ~Opening'
  <1>1. /\ graceCommit' = CommitGraceNow /\ graceOutbox' = OutboxGraceNow
        /\ UNCHANGED <<kind, age, content, committed, dirty, log, written>>
    BY DEF Probe, world
  <1>2. Executor' = Executor
    BY <1>1 DEF Executor
  <1>3. OutboxGraceNow' = OutboxGraceNow
    BY <1>1, <1>2 DEF OutboxGraceNow
  <1>4. CommitGraceNow' = CommitGraceNow
    BY <1>1, <1>2 DEF OutboxGraceNow, CommitGraceNow
  <1>5. Deadline' = Deadline /\ ~Opening'
    BY <1>1, <1>3, <1>4 DEF Deadline, Opening
  <1>6. Ages' = Ages
    BY <1>1 DEF Ages
  <1> QED BY <1>5, <1>6 DEF Clocks

\* With every clock at its bound and no grace period to open, a probe goes on
\* only with a process that lives and a log that was never there.
LEMMA LastProbe ==
  ASSUME TypeOK, KeepWatching \/ Finalize, pc' = "sleep", ~Ticking, ~Opening
  PROVE  pid /\ ~seen'
  <1>1. Ages = 0 /\ Amount(Deadline) = 0
    BY AgesType, DeadlineType, TimesAssumption DEF Ticking
  <1>2. /\ Till(log, HangConfirm) \in 0..HangConfirm
        /\ Till(written, FinalizingKill) \in 0..FinalizingKill
        /\ HangMax - age \in 0..HangMax
    BY TillType, TimesAssumption DEF TypeOK
  <1>3. HangMax - age = 0 /\ Till(log, HangConfirm) = 0 /\ Till(written, FinalizingKill) = 0
    BY <1>1, <1>2, TimesAssumption DEF Ages
  <1>4. age >= HangMax
    BY <1>3, TimesAssumption DEF TypeOK
  <1>5. log = {} \/ log = {HangConfirm}
    <2>1. ASSUME NEW t \in 0..HangConfirm, log = {t} PROVE log = {HangConfirm}
      <3>1. Till(log, HangConfirm) = HangConfirm - t
        BY <2>1, Amounts
      <3>2. t = HangConfirm
        BY <1>3, <3>1, TimesAssumption
      <3> QED BY <2>1, <3>2
    <2> QED BY <2>1 DEF TypeOK
  <1>6. Grace # "running"
    <2>1. Deadline \in {{}} \cup {{t} : t \in 0..OutboxGrace} \cup {{t} : t \in 0..CommitGrace}
      BY GraceType DEF Deadline
    <2>2. ASSUME NEW t, Deadline = {t} PROVE 0 \in Deadline
      BY <1>1, <2>2, Amounts
    <2>3. Deadline = {} \/ 0 \in Deadline
      BY <2>1, <2>2
    <2> QED BY <2>3 DEF Grace, GraceOf, Deadline
  <1>7. /\ Classify(Snapshot) \in {"Running", "WaitingOutput", "Finalizing"}
        /\ seen' = SeenNow
    BY DEF KeepWatching, Finalize, Probe
  <1>8. Snapshot.grace # "running" /\ Snapshot.ceiling
    BY <1>4, <1>6 DEF Snapshot
  <1>9. ~Snapshot.exited /\ ~Snapshot.providerStale
    <2>1. ~(Snapshot.exited /\ Snapshot.providerStale)
      BY <1>7, <1>8 DEF Classify, FinalResultBoundaryReached
    <2>2. ~pid => ProviderStale
      BY <1>5, TimesAssumption DEF ProviderStale
    <2>3. ~Snapshot.exited
      BY <2>1, <2>2, SnapshotFields
    <2>4. ~Snapshot.providerStale
      BY <1>7, <1>8, <2>3 DEF Classify, CeilingReached
    <2> QED BY <2>3, <2>4
  <1>10. pid /\ ~ProviderStale
    BY <1>9, SnapshotFields
  <1>11. ~SeenNow
    BY <1>5, <1>10, TimesAssumption DEF ProviderStale, SeenNow
  <1> QED BY <1>7, <1>10, <1>11

\* The process a result has outlived is still there when it is stopped.
FinalizeIsAlive == pc = "stopFinalize" => pid

LEMMA FinalizeIsAliveStep ==
  TypeOK /\ FinalizeIsAlive /\ [Next]_vars => FinalizeIsAlive'
  <1> SUFFICES ASSUME TypeOK, FinalizeIsAlive, [Next]_vars PROVE FinalizeIsAlive'
    OBVIOUS
  <1>1. CASE Finalize
    <2>1. Classify(Snapshot) = "Finalizing" /\ pid' = pid
      BY <1>1 DEF Finalize, Probe
    <2>2. ~Snapshot.exited
      BY <2>1 DEF Classify
    <2> QED BY <2>1, <2>2, SnapshotFields DEF FinalizeIsAlive
  <1>2. CASE Collect \/ FailSilent \/ FailProtocol \/ ServiceCap \/ ConfirmHang
              \/ CancelProbe \/ KeepWatching
    BY <1>2 DEF Collect, FailSilent, FailProtocol, ServiceCap, ConfirmHang, CancelProbe,
         KeepWatching, End, Proceed, FinalizeIsAlive
  <1>3. CASE Tick \/ SeeCancel \/ Poll \/ StopHung \/ StopCancelled \/ StopFinalizing
              \/ ProbeFails
    BY <1>3 DEF Tick, SeeCancel, Poll, StopHung, StopCancelled, StopFinalizing, ProbeFails,
         End, Proceed, FinalizeIsAlive
  <1>4. CASE Activity \/ Cancel
    BY <1>4 DEF Activity, AgentWrites, AgentWorks, AgentForks, AgentExits, LogWritten,
         LogRemoved, Diagnostics, Cancel, World, FinalizeIsAlive
  <1>5. CASE UNCHANGED vars
    BY <1>5 DEF vars, FinalizeIsAlive
  <1> QED BY <1>1, <1>2, <1>3, <1>4, <1>5 DEF Next, System, Ended

\* Nothing the clocks and the grace periods are computed from is touched.
LEMMA SameClocks ==
  ASSUME UNCHANGED <<kind, age, graceCommit, graceOutbox, content, written, dirty,
                     committed, log>>
  PROVE  Clocks' = Clocks /\ Opening' = Opening
  BY DEF Clocks, Ages, Deadline, Opening, OutboxGraceNow, CommitGraceNow, Executor

\* A step from a rank to a lower one, part by part: what is left of the steps to
\* the end of the probe may grow by less than the 6 that any other part is
\* worth.
LEMMA LowerRank ==
  ASSUME NEW c \in Nat, NEW d \in Nat, NEW p \in 0..1, NEW q \in 0..1, NEW o \in 0..1,
         NEW n \in 0..1, NEW g \in 0..5, NEW h \in 0..5,
         d <= c, q <= p, n <= o,
         d < c \/ q < p \/ n < o \/ h < g
  PROVE  6 * (d + q + n) + h < 6 * (c + p + o) + g
  <1>1. CASE d + q + n < c + p + o
    <2>1. d + q + n + 1 <= c + p + o
      BY <1>1
    <2> QED BY <2>1
  <1>2. CASE d + q + n = c + p + o
    <2>1. h < g
      BY <1>2
    <2> QED BY <1>2, <2>1
  <1> QED BY <1>1, <1>2

ClocksType == Ages \in Nat /\ Amount(Deadline) \in Nat

\* Every step of the probe loop takes the attempt nearer to its end.
LEMMA WindsDownStep ==
  ASSUME TypeOK, ClocksType, ClocksType', FinalizeIsAlive, System
  PROVE  Rank' < Rank \/ (pc = "classify" /\ pid /\ ~seen')
  <1> DEFINE Reap == IF pid THEN 1 ELSE 0
             Open == IF Opening THEN 1 ELSE 0
  <1> HIDE DEF Reap, Open
  <1>1. /\ Clocks \in Nat /\ Clocks' \in Nat /\ Reap \in 0..1 /\ Reap' \in 0..1
        /\ Open \in 0..1 /\ Open' \in 0..1 /\ ToGo \in 0..5 /\ ToGo' \in 0..5
    <2>1. Clocks \in Nat
      BY DEF Clocks, ClocksType
    <2>2. Clocks' \in Nat
      BY DEF Clocks, ClocksType
    <2>3. Reap \in 0..1 /\ Reap' \in 0..1 /\ Open \in 0..1 /\ Open' \in 0..1
      BY DEF Reap, Open
    <2>4. ToGo \in 0..5 /\ ToGo' \in 0..5
      BY DEF ToGo
    <2> QED BY <2>1, <2>2, <2>3, <2>4
  <1>2. Rank = 6 * (Clocks + Reap + Open) + ToGo /\ Rank' = 6 * (Clocks' + Reap' + Open') + ToGo'
    BY DEF Rank, Reap, Open
  <1>3. ASSUME Clocks' <= Clocks, Reap' <= Reap, Open' <= Open,
               Clocks' < Clocks \/ Reap' < Reap \/ Open' < Open \/ ToGo' < ToGo
        PROVE  Rank' < Rank
    BY <1>1, <1>2, <1>3, LowerRank
  <1>4. UNCHANGED pid => Reap' = Reap
    BY DEF Reap
  <1>5. Opening' = Opening => Open' = Open
    BY DEF Open
  <1>6. CASE Tick
    <2>1. /\ Opening' = Opening /\ UNCHANGED pid /\ pc = "sleep" /\ pc' = "poll"
          /\ Amount(Deadline)' <= Amount(Deadline) /\ Ages' <= Ages
          /\ Ages > 0 => Ages' < Ages
          /\ Amount(Deadline) > 0 /\ ~Opening => Amount(Deadline)' < Amount(Deadline)
      BY <1>6, TickedAges, TickedDeadline DEF Tick
    <2>2. Ages \in Nat /\ Amount(Deadline) \in Nat /\ Ages' \in Nat /\ Amount(Deadline)' \in Nat
      BY DEF ClocksType
    <2>3. Clocks = Ages + Amount(Deadline) /\ Clocks' = Ages' + Amount(Deadline)'
      BY DEF Clocks
    <2>4. Clocks' <= Clocks /\ (Ticking => Clocks' < Clocks)
      BY <2>1, <2>2, <2>3 DEF Ticking
    <2>5. ToGo' = 4 /\ ToGo = IF Ticking THEN 2 ELSE 5
      BY <2>1 DEF ToGo
    <2> QED BY <1>1, <1>3, <1>4, <1>5, <2>1, <2>4, <2>5
  <1>7. CASE SeeCancel
    <2>1. /\ Clocks' = Clocks /\ Opening' = Opening /\ UNCHANGED pid
          /\ pc \in {"sleep", "poll"} /\ pc' = "stopCancel"
      BY <1>7, SameClocks DEF SeeCancel, timers, world
    <2>2. ToGo' < ToGo
      BY <2>1 DEF ToGo
    <2> QED BY <1>1, <1>3, <1>4, <1>5, <2>1, <2>2
  <1>8. CASE Poll
    <2>1. /\ Clocks' = Clocks /\ Opening' = Opening /\ (pid' => pid)
          /\ pc = "poll" /\ pc' = "classify"
      BY <1>8, SameClocks DEF Poll, timers, world
    <2>2. Reap' <= Reap
      BY <2>1 DEF Reap
    <2>3. ToGo' < ToGo
      BY <2>1 DEF ToGo
    <2> QED BY <1>1, <1>3, <1>5, <2>1, <2>2, <2>3
  <1>9. ASSUME NEW states, Probe(states)
        PROVE  /\ Clocks' = Clocks /\ UNCHANGED pid /\ ~Opening' /\ Open' <= Open
               /\ (Opening => Open' < Open) /\ ToGo = 3
    <2>1. Clocks' = Clocks /\ UNCHANGED pid /\ ~Opening' /\ pc = "classify"
      BY <1>9, ProbedClocks DEF Probe
    <2> QED BY <2>1 DEF Open, ToGo
  <1>10. CASE Collect \/ FailSilent \/ FailProtocol \/ ServiceCap \/ ConfirmHang \/ CancelProbe
    <2>1. /\ Clocks' = Clocks /\ UNCHANGED pid /\ Open' <= Open /\ ToGo = 3
          /\ pc' \in {"ended", "stopHang", "stopCancel"}
      BY <1>9, <1>10 DEF Collect, FailSilent, FailProtocol, ServiceCap, ConfirmHang,
           CancelProbe, End, Proceed
    <2>2. ToGo' < ToGo
      BY <2>1 DEF ToGo
    <2> QED BY <1>1, <1>3, <1>4, <2>1, <2>2
  <1>11. CASE KeepWatching \/ Finalize
    <2>1. /\ Clocks' = Clocks /\ UNCHANGED pid /\ ~Opening' /\ Open' <= Open
          /\ (Opening => Open' < Open) /\ ToGo = 3
          /\ Ages' = Ages /\ Amount(Deadline)' = Amount(Deadline)
          /\ pc = "classify" /\ pc' \in {"stopFinalize", "sleep"}
      BY <1>9, <1>11, ProbedClocks DEF KeepWatching, Finalize, Probe, Proceed
    <2>2. CASE Opening \/ pc' = "stopFinalize"
      <3>1. Open' < Open \/ ToGo' < ToGo
        BY <2>1, <2>2 DEF ToGo
      <3> QED BY <1>1, <1>3, <1>4, <2>1, <3>1
    <2>3. CASE ~Opening /\ pc' = "sleep" /\ Ticking
      <3>1. Ticking'
        BY <2>1, <2>3 DEF Ticking
      <3>2. ToGo' < ToGo
        BY <2>1, <2>3, <3>1 DEF ToGo
      <3> QED BY <1>1, <1>3, <1>4, <2>1, <3>2
    <2>4. CASE ~Opening /\ pc' = "sleep" /\ ~Ticking
      BY <1>11, <2>1, <2>4, LastProbe
    <2> QED BY <2>1, <2>2, <2>3, <2>4
  <1>12. CASE StopHung \/ StopCancelled
    <2>1. /\ Clocks' = Clocks /\ Opening' = Opening /\ UNCHANGED pid
          /\ pc \in {"stopHang", "stopCancel"} /\ pc' = "ended"
      BY <1>12, SameClocks DEF StopHung, StopCancelled, End, timers
    <2>2. ToGo' < ToGo
      BY <2>1 DEF ToGo
    <2> QED BY <1>1, <1>3, <1>4, <1>5, <2>1, <2>2
  <1>13. CASE StopFinalizing
    <2>1. Clocks' = Clocks /\ Opening' = Opening /\ pid /\ ~pid'
      BY <1>13, SameClocks DEF StopFinalizing, Proceed, timers, FinalizeIsAlive
    <2>2. Reap' < Reap
      BY <2>1 DEF Reap
    <2> QED BY <1>1, <1>3, <1>5, <2>1, <2>2
  <1> QED BY <1>6, <1>7, <1>8, <1>10, <1>11, <1>12, <1>13 DEF System

\* An attempt in which nothing happens any more ends within RankBound steps of
\* the probe loop, whatever the thresholds: unless its agent is alive and the
\* provider log has never appeared.  What anyone does can only raise the measure
\* up to its bound.
THEOREM AttemptWindsDown == Spec => WindsDown /\ [](Rank \in 0..RankBound)
  <1>1. MonitorInv => TypeOK /\ ClocksType /\ Rank \in 0..RankBound
    BY RankType, AgesType, DeadlineType, TimesAssumption DEF MonitorInv, ClocksType
  <1>2. Init => FinalizeIsAlive
    BY DEF Init, FinalizeIsAlive
  <1>3. TypeOK /\ ClocksType /\ ClocksType' /\ FinalizeIsAlive /\ [Next]_vars
          => [System => Rank' < Rank \/ (pc = "classify" /\ pid /\ ~seen')]_vars
    BY WindsDownStep
  <1> QED BY <1>1, <1>2, <1>3, FinalizeIsAliveStep, MonitorInvariant, PTL
          DEF Spec, WindsDown

\* What is left of an attempt that was cancelled.
ToAbort ==
  IF pc = "ended" THEN 0
  ELSE IF pc \in {"stopHang", "stopCancel"} THEN 1
  ELSE IF pc \in {"poll", "classify"} THEN 2
  ELSE IF pc = "sleep" THEN 3 ELSE 4

\* A cancel stays, and from then on the probe loop leads straight to the end,
\* whatever state the cancel found it in; the agent, the provider and the operator
\* cannot hold it back.
AbortsDirectly ==
  [][cancel => cancel' /\ (pc' = pc \/ ToAbort' < ToAbort) /\ (System => pc' # pc)]_vars

\* A cancelled attempt ends within four steps of the probe loop: no probe goes on
\* and no process is polled once the flag is set.
THEOREM CancelsArePrompt == Spec => AbortsDirectly /\ [](ToAbort \in 0..4)
  <1>1. MonitorInv /\ Next => (cancel => cancel' /\ (pc' = pc \/ ToAbort' < ToAbort)
                                               /\ (System => pc' # pc))
    <2> SUFFICES ASSUME MonitorInv, Next, cancel
                 PROVE  /\ cancel' /\ (pc' = pc \/ ToAbort' < ToAbort)
                        /\ System => pc' # pc
      OBVIOUS
    <2>1. Classify(Snapshot) = "Cancelled"
      BY DEF Snapshot, IsCancelled, Classify
    <2>2. /\ ~Poll /\ ~Collect /\ ~FailSilent /\ ~FailProtocol /\ ~ServiceCap
          /\ ~ConfirmHang /\ ~KeepWatching /\ ~Finalize
      BY <2>1 DEF Poll, IsCancelled, Collect, FailSilent, FailProtocol, ServiceCap,
           ConfirmHang, KeepWatching, Finalize, Probe
    <2>3. ASSUME System PROVE cancel' /\ pc' # pc /\ ToAbort' < ToAbort
      <3>1. CASE Tick \/ SeeCancel \/ CancelProbe
        <4>1. /\ cancel'
              /\ \/ pc = "sleep" /\ pc' = "poll"
                 \/ pc \in {"sleep", "poll", "classify"} /\ pc' = "stopCancel"
          BY <3>1 DEF Tick, SeeCancel, CancelProbe, Probe, Proceed
        <4> QED BY <4>1 DEF ToAbort
      <3>2. CASE StopHung \/ StopCancelled
        <4>1. pc \in {"stopHang", "stopCancel"} /\ pc' = "ended" /\ cancel'
          BY <3>2 DEF StopHung, StopCancelled, End
        <4> QED BY <4>1 DEF ToAbort
      <3>3. CASE StopFinalizing
        <4>1. pc = "stopFinalize" /\ pc' = "sleep" /\ cancel'
          BY <3>3 DEF StopFinalizing, Proceed
        <4> QED BY <4>1 DEF ToAbort
      <3> QED BY <2>2, <2>3, <3>1, <3>2, <3>3 DEF System
    <2>4. CASE ProbeFails
      <3>1. pc = "classify" /\ pc' = "ended" /\ cancel'
        BY <2>4 DEF ProbeFails, End
      <3> QED BY <3>1 DEF ToAbort
    <2>5. CASE Activity \/ Cancel \/ Ended
      <3>1. pc' = pc /\ cancel'
        BY <2>5 DEF Activity, AgentWrites, AgentWorks, AgentForks, AgentExits, LogWritten,
             LogRemoved, Diagnostics, Cancel, World, Ended, vars
      <3> QED BY <2>3, <3>1
    <2> QED BY <2>3, <2>4, <2>5 DEF Next
  <1>2. ToAbort \in 0..4
    BY DEF ToAbort
  <1> QED BY <1>1, <1>2, MonitorInvariant, PTL DEF Spec, AbortsDirectly
=============================================================================
