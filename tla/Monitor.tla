------------------------------ MODULE Monitor -------------------------------
(***************************************************************************)
(* The monitoring of one attempt: the probe loop do_monitor of             *)
(* src/src/orchestrator/monitor.rs, with the agent it watches, from the    *)
(* dispatch to the run state that follows.                                 *)
(*                                                                         *)
(* Each probe polls the child process, then collects the signals (outbox,  *)
(* git, provider log, children, diagnostics), classifies them and acts.    *)
(* The agent goes on working between any two of these steps.  Time is      *)
(* counted in probes; a file time is the number of probes since it, capped *)
(* where its threshold lies.  A value that may be missing is a set with at *)
(* most one element.                                                       *)
(***************************************************************************)
EXTENDS Naturals, Classifier

CONSTANTS
  Kinds,          (* what is attempted: "review" by the reviewer, by the   *)
                  (* executor "implement", or "document" (plan, investigate) *)
  HangConfirm,    (* HANG_CONFIRM_SEC, in probes                           *)
  HangMax,        (* HANG_MAX_WITH_WORK_SIGNALS_SEC                        *)
  CommitGrace,    (* COMMIT_GRACE_SEC                                      *)
  OutboxGrace,    (* OUTBOX_GRACE_SEC                                      *)
  FinalizingKill  (* OUTBOX_FINALIZING_KILL_SEC                            *)

ASSUME KindsAssumption == Kinds \subseteq {"implement", "document", "review"}
ASSUME TimesAssumption ==
  /\ {HangConfirm, HangMax, CommitGrace, OutboxGrace, FinalizingKill} \subseteq Nat \ {0}

VARIABLES
  kind,         \* the role and workflow of the attempt
  pc,           \* "sleep" until the next probe; "poll" the process;
                \* "classify" the signals; "stopHang", "stopFinalize" and
                \* "stopCancel": in terminate_active_child; "ended"
  ending,       \* how the monitoring ended
  pid,          \* attempt.pid is Some
  age,          \* since attempt.dispatch_ts
  idle,         \* since attempt.last_work_signal_ts
  graceCommit,  \* left until attempt.grace_until_commit
  graceOutbox,  \* left until attempt.grace_until_outbox
  seen,         \* attempt.provider_log_ever_seen
  signal,       \* git, HEAD, outbox or provider log differ from what the
                \* last probe saw
  agent,        \* the child process: "running" or "exited"
  children,     \* it has live descendants
  content,      \* outbox.txt is not empty
  written,      \* since outbox.txt was written, when that was after dispatch
  dirty,        \* git status differs from the one at the dispatch
  committed,    \* so does HEAD
  artifact,     \* PLAN.md or INVESTIGATION.md is there
  log,          \* since the provider log was written
  cap,          \* a service-cap message is in the diagnostics
  cancel        \* CANCEL_FLAG

world == <<agent, children, content, written, dirty, committed, artifact, log, cap>>
timers == <<age, idle, graceCommit, graceOutbox>>
vars == <<kind, pc, ending, pid, age, idle, graceCommit, graceOutbox, seen, signal,
          agent, children, content, written, dirty, committed, artifact, log, cap,
          cancel>>

\* The outbox of a reviewer still holds the executor's report; an executor may
\* have written between its spawn and dispatch_ts.
Init ==
  /\ kind \in Kinds
  /\ pc = "poll" /\ ending = "none"
  /\ pid = TRUE /\ agent = "running" /\ children = FALSE
  /\ age = 0 /\ idle = 0 /\ graceCommit = {} /\ graceOutbox = {}
  /\ seen = FALSE /\ signal = TRUE
  /\ content \in BOOLEAN /\ written = {}
  /\ dirty = FALSE /\ committed = FALSE
  /\ artifact \in (IF kind = "document" THEN BOOLEAN ELSE {FALSE})
  /\ log \in {{}, {HangConfirm}}
  /\ cap = FALSE /\ cancel = FALSE

-----------------------------------------------------------------------------
(***************************************************************************)
(* What a probe computes.                                                  *)
(***************************************************************************)

Executor == kind # "review"

WorkChanged == signal \/ (pid /\ children)

\* A log that disappeared, or that never was there when the process has
\* ended, is stale; one that has not appeared yet is not.
SeenNow == seen \/ log # {}
ProviderStale ==
  \/ log = {} /\ (SeenNow \/ ~pid)
  \/ \E t \in log : t >= HangConfirm

\* apply_grace_transitions
GraceSwapped ==
  IF content \/ ~Executor THEN {}
  ELSE IF committed /\ graceOutbox = {} THEN {CommitGrace} ELSE graceOutbox
OutboxGraceNow ==
  IF content \/ ~Executor THEN {}
  ELSE IF committed /\ graceOutbox = {} THEN {OutboxGrace} ELSE graceOutbox
CommitGraceNow ==
  IF content \/ ~Executor \/ committed THEN {}
  ELSE IF dirty /\ graceCommit = {} /\ graceOutbox = {} THEN {CommitGrace}
  ELSE graceCommit

GraceOf(outboxGrace, commitGrace) ==
  LET deadline == IF outboxGrace # {} THEN outboxGrace ELSE commitGrace
  IN  IF deadline = {} THEN "none" ELSE IF 0 \in deadline THEN "over" ELSE "running"
StaleGrace == GraceOf(graceOutbox, graceCommit)
Grace == GraceOf(OutboxGraceNow, CommitGraceNow)

\* A reviewer that has not written yet passes too: the collect phase compares
\* the file time.
OnlyRecentSuccess == ~pid /\ content /\ written # {}
AliveSuccess == content
SuccessContract == ~pid /\ content

SoftSuccessContract ==
  /\ Executor /\ ~pid /\ ~content
  /\ Grace = "over"
  /\ kind = "document" => artifact

\* Only a service cap is an error: access and transport messages are warnings.
CapOfTheLiving == cap /\ pid
CapReported == cap

CancelUnread == FALSE
IsCancelled == cancel

Snapshot == [
  cancelled       |-> IsCancelled,
  providerError   |-> IF CapReported THEN "ServiceCap" ELSE "none",
  successContract |-> SuccessContract,
  softSuccess     |-> SoftSuccessContract,
  protocolInvalid |-> ~Executor /\ ~pid,
  exited          |-> ~pid,
  outboxPresent   |-> content /\ written # {},
  grace           |-> Grace,
  workChanged     |-> WorkChanged,
  workStale       |-> idle >= HangConfirm,
  providerStale   |-> ProviderStale,
  ceiling         |-> age >= HangMax]

-----------------------------------------------------------------------------
(***************************************************************************)
(* The probe loop.                                                         *)
(***************************************************************************)

Older(time, bound) == IF time < bound THEN time + 1 ELSE time
Left(grace) == {IF t > 0 THEN t - 1 ELSE 0 : t \in grace}

Tick ==
  /\ pc = "sleep"
  /\ pc' = "poll"
  /\ age' = Older(age, HangMax)
  /\ idle' = Older(idle, HangConfirm)
  /\ graceCommit' = Left(graceCommit)
  /\ graceOutbox' = Left(graceOutbox)
  /\ log' = {Older(t, HangConfirm) : t \in log}
  /\ written' = {Older(t, FinalizingKill) : t \in written}
  /\ UNCHANGED <<kind, ending, pid, seen, signal, agent, children, content, dirty,
                 committed, artifact, cap, cancel>>

\* The flag is read before the sleep and after it.
SeeCancel ==
  /\ pc \in {"sleep", "poll"} /\ IsCancelled
  /\ pc' = "stopCancel"
  /\ UNCHANGED <<kind, ending, pid, timers, seen, signal, world, cancel>>

\* try_wait
Poll ==
  /\ pc = "poll" /\ ~IsCancelled
  /\ pid' = (pid /\ agent = "running")
  /\ pc' = "classify"
  /\ UNCHANGED <<kind, ending, timers, seen, signal, world, cancel>>

\* The part every probe has in common: it is classified as one of states.
\* The work-signal time the snapshot saw is the one of the probe before.
Probe(states) ==
  /\ pc = "classify"
  /\ Classify(Snapshot) \in states
  /\ graceCommit' = CommitGraceNow /\ graceOutbox' = OutboxGraceNow
  /\ seen' = SeenNow
  /\ signal' = FALSE
  /\ idle' = IF WorkChanged THEN 0 ELSE idle
  /\ UNCHANGED <<kind, pid, age, world, cancel>>

End(how) == pc' = "ended" /\ ending' = how
Proceed(to) == pc' = to /\ UNCHANGED ending

Collect == Probe({"Success", "SoftSuccess"}) /\ End("collect")
FailSilent == Probe({"FailedSilent"}) /\ End("silent")
FailProtocol == Probe({"FailedProtocol"}) /\ End("protocol")
ServiceCap == Probe({"FailedServiceCap"}) /\ End("cap")
ConfirmHang == Probe({"HangConfirmed"}) /\ Proceed("stopHang")
CancelProbe == Probe({"Cancelled"}) /\ Proceed("stopCancel")
KeepWatching == Probe({"Running", "WaitingOutput"}) /\ Proceed("sleep")

\* A result was written, the agent lives on: it is given FinalizingKill.
Finalize ==
  /\ Probe({"Finalizing"})
  /\ Proceed(IF \E t \in written : t >= FinalizingKill THEN "stopFinalize" ELSE "sleep")

\* A signal cannot be read: the run fails, the agent is left to its end.
ProbeFails ==
  /\ pc = "classify"
  /\ End("failed")
  /\ UNCHANGED <<kind, pid, timers, seen, signal, world, cancel>>

\* terminate_active_child returns when the child has been reaped, or killed.
TerminateUnawaited == UNCHANGED <<agent, children>>
Terminated == agent' = "exited" /\ children' = FALSE

StopHung ==
  /\ pc = "stopHang" /\ Terminated /\ End("hang")
  /\ UNCHANGED <<kind, pid, timers, seen, signal, content, written, dirty, committed,
                 artifact, log, cap, cancel>>

StopCancelled ==
  /\ pc = "stopCancel" /\ Terminated /\ End("aborted")
  /\ UNCHANGED <<kind, pid, timers, seen, signal, content, written, dirty, committed,
                 artifact, log, cap, cancel>>

StopFinalizing ==
  /\ pc = "stopFinalize" /\ Terminated /\ Proceed("sleep")
  /\ pid' = FALSE
  /\ UNCHANGED <<kind, timers, seen, signal, content, written, dirty, committed,
                 artifact, log, cap, cancel>>

Ended == pc = "ended" /\ UNCHANGED vars

-----------------------------------------------------------------------------
(***************************************************************************)
(* The world: the agent, its provider, the operator.                       *)
(***************************************************************************)

World ==
  /\ pc # "ended"
  /\ UNCHANGED <<kind, pc, ending, pid, timers, seen>>

AgentWrites ==
  /\ World /\ agent = "running"
  /\ \E c \in BOOLEAN : content' = c /\ written' = IF c THEN {0} ELSE {}
  /\ signal' = TRUE
  /\ UNCHANGED <<agent, children, dirty, committed, artifact, log, cap, cancel>>

\* It edits, reverts, commits or resets; an edit to a file that is dirty
\* already shows in no signal.
AgentWorks ==
  /\ World /\ agent = "running"
  /\ dirty' \in BOOLEAN /\ committed' \in BOOLEAN
  /\ artifact' \in (IF kind = "document" THEN BOOLEAN ELSE {artifact})
  /\ signal' = TRUE
  /\ UNCHANGED <<agent, children, content, written, log, cap, cancel>>

AgentForks ==
  /\ World /\ agent = "running"
  /\ children' = ~children
  /\ UNCHANGED <<signal, agent, content, written, dirty, committed, artifact, log, cap,
                 cancel>>

AgentExits ==
  /\ World /\ agent = "running"
  /\ agent' = "exited" /\ children' = FALSE
  /\ UNCHANGED <<signal, content, written, dirty, committed, artifact, log, cap, cancel>>

\* The provider goes on after the local process has ended.
LogWritten ==
  /\ World
  /\ log' = {0} /\ signal' = TRUE
  /\ UNCHANGED <<agent, children, content, written, dirty, committed, artifact, cap, cancel>>

LogRemoved ==
  /\ World /\ log # {}
  /\ log' = {}
  /\ UNCHANGED <<signal, agent, children, content, written, dirty, committed, artifact,
                 cap, cancel>>

\* The message is reported, and more output pushes it out of the tail that is
\* read.
Diagnostics ==
  /\ World /\ agent = "running"
  /\ cap' = ~cap
  /\ UNCHANGED <<signal, agent, children, content, written, dirty, committed, artifact,
                 log, cancel>>

Cancel ==
  /\ World /\ cancel' = TRUE
  /\ UNCHANGED <<signal, world>>

-----------------------------------------------------------------------------
System ==
  \/ Tick \/ SeeCancel \/ Poll
  \/ Collect \/ FailSilent \/ FailProtocol \/ ServiceCap \/ ConfirmHang \/ CancelProbe
  \/ KeepWatching \/ Finalize
  \/ StopHung \/ StopCancelled \/ StopFinalizing

Activity ==
  \/ AgentWrites \/ AgentWorks \/ AgentForks \/ AgentExits \/ LogWritten \/ LogRemoved
  \/ Diagnostics

Next == System \/ ProbeFails \/ Activity \/ Cancel \/ Ended

Spec == Init /\ [][Next]_vars

\* Timers fire and the runtime polls the task; the agent owes nothing.
FairSpec == Spec /\ WF_vars(System)

-----------------------------------------------------------------------------
(***************************************************************************)
(* Properties.                                                             *)
(***************************************************************************)

\* Every field of the attempt and of the world has a value of its type, and
\* no grace period is longer than it was granted.
TypeOK ==
  /\ kind \in Kinds
  /\ pc \in {"sleep", "poll", "classify", "stopHang", "stopFinalize", "stopCancel", "ended"}
  /\ ending \in {"none", "collect", "silent", "protocol", "hang", "cap", "aborted", "failed"}
  /\ {pid, seen, signal, children, content, dirty, committed, artifact, cap, cancel}
       \subseteq BOOLEAN
  /\ age \in 0..HangMax /\ idle \in 0..HangConfirm
  /\ graceCommit \in {{}} \cup {{t} : t \in 0..CommitGrace}
  /\ graceOutbox \in {{}} \cup {{t} : t \in 0..OutboxGrace}
  /\ agent \in {"running", "exited"}
  /\ written \in {{}} \cup {{t} : t \in 0..FinalizingKill}
  /\ log \in {{}} \cup {{t} : t \in 0..HangConfirm}

\* The next attempt, or whoever collects the result, never meets the agent of
\* this one: nothing that is read or rewritten after the monitor has ended can
\* change under it.
EndsWithTheAgentDead ==
  ending \in {"collect", "silent", "protocol", "hang", "aborted"} => agent = "exited"

\* A result an agent left in the outbox before it exited is collected, even
\* when it was written between two steps of a probe; only giving up a live
\* agent may discard one.
NoResultIsRetried == ending \in {"silent", "protocol"} => ~content

\* An implementer that changed the repository and exited without a report is
\* handed to the reviewer, not dispatched again on top of its own work.
ChangesAreReviewed ==
  kind = "implement" /\ ending = "silent" => ~dirty /\ ~committed

\* An exhausted quota the diagnostics report is never retried or taken for a
\* result.
CapIsFinal == ending \in {"collect", "silent", "protocol"} => ~cap

\* An agent is only given up once its provider log has been still for
\* HangConfirm or is gone, children or no children; so one whose log never
\* appeared is never given up.
LiveLogIsNoHang ==
  [][pc = "classify" /\ pc' = "stopHang" =>
       seen' /\ \A t \in log : t >= HangConfirm]_vars

\* The phases of the round that follow may rely on Attempt.
Contract == INSTANCE Attempt WITH
  mayBeSilent <- Executor,
  alive <- agent = "running" \/ (pid /\ ending = "none"),
  delivered <- content,
  ending <- CASE ending \in {"silent", "protocol", "hang"} -> "retry"
              [] ending \in {"cap", "failed"} -> "stopped"
              [] OTHER -> ending

\* The monitoring of an attempt ends only in the ways Attempt allows.
KeepsTheContract == Contract!Attempted

\* Once everything has gone quiet the attempt ends, with the agent alive or
\* dead, with children or without: unless it is alive and its provider log
\* never appeared.
EndsOnceQuiet ==
  <>[][~Activity]_vars => <>(pc = "ended") \/ <>[](agent = "running" /\ ~seen)

\* A cancelled attempt ends, whatever the agent does.
CancelledAttemptEnds == cancel ~> pc = "ended"

-----------------------------------------------------------------------------
(***************************************************************************)
(* What the README says of the monitor and the code does not do: violated  *)
(* by a run of its own.                                                    *)
(***************************************************************************)

\* README: an agent is given up when "work signals absent >= 420 s AND provider
\* log stale >= 420 s", or past the ceiling, which is for "a live attempt with
\* continuing work signals but no result".  A probe that gives an agent up has
\* itself seen no work signal, or finds no result that has just been written.
HangsAreAsDocumented ==
  [][pc = "classify" /\ pc' = "stopHang" =>
       \/ idle >= HangConfirm /\ ~WorkChanged
       \/ age >= HangMax /\ ~(content /\ written # {})]_vars
=============================================================================
