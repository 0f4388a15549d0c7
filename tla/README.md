# A verification of multi-agent-orchestrator-rs

`orchestrate` runs two coding agents against one git repository: an *executor*
that does a task and a *reviewer* that judges it, in rounds, until the reviewer
accepts or the run has to stop. This directory holds TLA+ models of the program
in `src/src/`, the TLC runs that check them and the proofs that TLAPS checks.
File references are to `src/` of the repository; `src/README.md` is the
program's own README.

## 1. The system

### 1.1 Components, their state and their operations

| Component | Source | State | Operations |
|---|---|---|---|
| run loop | `orchestrator/mod.rs`, `state.rs` | `run_state`, `consecutive_failure_count`, everything in `OrchestratorCtx`, `CANCEL_FLAG` | `run` (loop head, step, errors to terminal states), the signal handler, the drop of the context |
| start of a run | `phases.rs` 28-243 | canonical root, branch, initial HEAD, bound sessions | `validate_inputs`, `do_context_prep`, `do_session_bind` |
| session discovery | `providers/*.rs` | none of its own; reads Claude logs, the Codex index, the OpenCode list | `discover_by_thread` of each provider, `claude_effective_title` |
| session locks | `locks.rs` | one lock file per (provider, session id), open in the context | `acquire_session_lock`, `release_lock`, close on drop or process end |
| dispatch and transport | `phases.rs` 536-670, `transport.rs` | `inbox.txt`, `outbox.txt`, fingerprint, worktree baseline, `attempt`, `active_process` | `dispatch_role` with `reset_transport`, `write_request`, `verify_request_fingerprint` |
| attempt monitor | `monitor.rs`, `signals.rs` | `AttemptStateData`: times, previous signals, two grace periods | the probe loop `do_monitor`: cancel, poll, signals, graces, classify, act |
| classifier | `fsm.rs` | none | `classify` |
| collection, retries, gate | `phases.rs` 751-1124 | `review_result`, the two rejections, `outbox_present`, failure counter | the phases from `EXECUTOR_OUTPUT_COLLECT` to `ROUND_FEEDBACK_PREP`, and `ROUND_RETRY_DECIDE` |
| verdict check | `yaml_check.rs`, `phases.rs` 981-1002 | none | prescan, parse, validate, Notion policy |
| provider processes | `providers/*.rs`, `signals.rs` 235-250 | the child process, its captured stdout and stderr, the Claude session log | `dispatch`, `kill_on_drop`, the parent-death signal, diagnostics |
| prompts | `workflow.rs` | none | `render_template` |
| report | `report.rs` | none | `build_report` |

### 1.2 How they interact

Everything in a run happens in one task: the loop calls one phase handler per
step, and each handler sets the next state. Concurrency comes from outside:

* the **agent**, a child process that writes the outbox and the worktree while
  `do_monitor` samples it with a poll every probe; between the poll and the
  reading of the signals it may do anything, and it may leave processes behind;
* the **operator**, whose signal sets `CANCEL_FLAG` at any time, read at the
  loop head and in the monitor only;
* **other orchestrators**, through the session locks;
* the **user and the providers**, who rename sessions and write their logs while
  the run searches them, and use a session between two attempts on it.

Orchestrator and agents talk through files: `inbox.txt` (request), `outbox.txt`
(report or verdict, told apart from an older one by its mtime only), `git status`
and HEAD (work), the provider's log (life). The outbox does not say who wrote it.

### 1.3 What is hard, and what makes each part correct

* *Run and rounds.* A verdict must be about the latest delivery although the
  outbox outlives attempts; a saved verdict must survive a cleanup detour; one
  counter must bound the retries of two roles and three kinds of rejection; the
  operator's cancel may fall anywhere; a failing dispatch leaves half its effects.
* *Monitor.* Each probe is a non-atomic snapshot. A dead agent's result must not
  be lost, a live agent must not be replaced, and every attempt must end.
* *Locks.* Held only during an attempt, not waited for, freed by the kernel: two
  runs may compete for the same two sessions in opposite roles, and a process may
  die between any two steps.
* *Discovery.* Names are history in append-only files, of two kinds (Claude), out
  of order (Codex), changing between the two scans of one bind.

* *Conversation.* A verdict passes eight kinds of check on three paths (first parse,
  repair, cleanup); each rejection names one fault and counts against a limit the
  reviewer is not told of; the requests of repairs and later rounds leave out what
  a session should remember.
* *Diagnostics.* A service cap has to stop the run, but only tails of files are
  read, the session log outlives attempts, and another message may come first.

The hazards are listed one by one, each at its line and with the properties that
cover it, in `PROJECT.json`.

## 2. The modules

| Module | What it is |
|---|---|
| `ReviewLoop` | what a run promises: rounds, a bounded number of failures, acceptance by a current verdict |
| `Orchestrator` | the run: loop, phases, transport files, locks, worktree, agents by what they do |
| `Attempt` | what the monitoring of one attempt promises the round |
| `MonitoredRun` | a run with its probe loop: `Orchestrator` with `Monitor` in the place of its monitor actions |
| `LockView` | the two locks of one run as that run sees them, other processes left open |
| `Classifier` | `classify` on a snapshot, as a function |
| `Monitor` | the probe loop against a working agent; EXTENDS `Classifier` |
| `VerdictCheck` | the checks of a reviewer's document, as operators; EXTENDS nothing of the project |
| `Prompts` | what each request says, as sets of instructions; EXTENDS `VerdictCheck` |
| `Review` | the conversation of a run with its two agents; EXTENDS `Prompts` |
| `Diagnostics` | what provider processes print and log, and how a service cap is noticed |
| `SessionLocks` | several runs and the lock files between them |
| `SessionDiscovery` | `SESSION_BIND` against users and providers |
| `MC*` | the instances for TLC |
| `OrchestratorProofs`, `OrchestratorRefinement`, `MonitorProofs`, `MonitoredRunProofs`, `DiagnosticsProofs`, `ReviewProofs`, `SessionLocksProofs`, `SessionDiscoveryProofs` | theorems |

How the modules are tied together, each by INSTANCE with a refinement mapping:

* `Orchestrator` implements `ReviewLoop`, and so does `Review` from its first
  dispatch on. `Review` is `Orchestrator` seen from another side: the same phases
  with documents and requests in full, and without locks, cancel, errors and
  stragglers, which would only stop the conversation or are `Orchestrator`'s
  question. That both implement one contract is what makes them two views of one
  program.
* `Monitor` implements `Attempt`, what the monitoring of an attempt promises.
* `MonitoredRun` instantiates `Monitor` and implements `Orchestrator`. So what the
  monitor actions of `Orchestrator` assume about the end of an attempt is a
  theorem about the probe loop, not a correspondence.
* `Orchestrator` and each run of `SessionLocks` implement `LockView`. So the
  environment of `Orchestrator` (`OtherLocks`, `OtherUnlocks`) allows all that other
  runs of `SessionLocks` can do to a run, and the locks of `SessionLocks` are used as
  the phases use them.

`Diagnostics` is where the `cap` of `Monitor` comes from: `MonitorsCapIsSound` shows
that it behaves as the one flag `Monitor` has for it. `SessionLocks` takes from
`SessionDiscovery` that the two sessions of a run differ (`Bindings`), which is
`RolesApart` there; that the two modules mean the same sessions is a correspondence.

### 2.1 Orchestrator

One action per phase handler, taken in two parts: `LoopHead` (the cancel and
terminal tests) and the handler (`ValidateInputs`, `ContextPrep`, `SessionBind`,
`Dispatch*`, `Monitor*`, `RoundRetryDecide`, `ExecutorOutputCollect`,
`OrchVerify`, `Collect*`, `QualityGate`, `RoundFeedbackPrep`), so that a cancel
falls between any two. Variables are the fields of `OrchestratorCtx` that the
control reads, and the files. A handler is one step, except that the files it
shares with a live agent are covered by the monitor's own actions; every error
exit of a handler is a step that leaves the effects made before it.

Abstractions: the outbox is what `parse_reviewer_yaml` makes of it plus whether it
was *touched* since the dispatch (the mtime comparison); `git status` is a set of
lines; a request is its template, the verdict it carries and whether it is still
what was written. `Stragglers` says whether processes an executor left behind
write the outbox during the review. Three variables (`verdictOrigin`, `spent`,
`lateDispatches`) are history that no action reads; the last two stop
counting one above the bound that is claimed of them.

`RunFailedProviderAccess`, `RunFailedTransport` and the refusal of a soft success
by `soft_success_allowed` are not modelled: nothing in the code reaches them.

### 2.2 Monitor

A probe is `Tick` (sleep), `Poll` (`try_wait`), the reading of the signals with
classification and the action on the result, with agent steps between them; the
termination of a child is a step of its own. Time is counted in probes; ages stop
at the threshold they are compared with. `Classify` is the whole of `classify`, in
its order. The reading of the signals itself is one step: a change made and
undone within one probe is seen, and a log removed within it counts as a change,
which only makes work signals more frequent than they are.
Stragglers and edits by the user are in `Orchestrator`, not here.

### 2.3 MonitoredRun

While `do_monitor` is on, the steps are those of `Monitor`: `Watching` for the probes
that go on, and one action for each arm of the `match` at its end (`ArmCollect`,
`ArmFailed`, `ArmHang`, `ArmServiceCap`, `ArmCancelled`), with what that arm does to the
context: the lock, the counter, `outbox_present`, the next state. The rest of the loop
is that of `Orchestrator`. `process` is the true state of the child and `agent` what
the run knows of it: the run learns of an exit by polling, so the two differ
between an exit and the next probe, and `agent` is what the phases go by. None of the
guards `Orchestrator` puts on the end of an attempt is repeated here; that they
hold is `ImplementsTheRun`. `Writes` bounds what is written into the outbox, `Work` is the
workflow. When no attempt is under way the variables of the monitor are reset
(`Forgotten`): a dispatch makes `ctx.attempt` anew, and nothing reads the old one.

### 2.4 SessionLocks

Each run is a small cycle dispatch, monitor, dispatch or leave; why it retries or
stops is `Orchestrator`'s business, so all ways are possible. Dropping the
context closes the locks and then kills the agent, in the order of the fields of
`OrchestratorCtx`; a crash frees the locks and leaves the agent to SIGTERM.
`LockDir` gives each process the directory `lock_file_path` computes from its
environment; with different directories there is no exclusion, and the
properties say so.

### 2.5 SessionDiscovery

Naming events are steps of the environment, each of which changes both the true
name (`title`, `agentName`) and, at once or later, the file the run reads. The
properties compare the session that is bound with the true names. Assumed of
Codex: timestamps grow with time (the comparison is of strings, and the earlier
of two equal ones would win).

### 2.6 Review, Prompts and VerdictCheck

A *document* is a record: the checks of its form it fails (`form`: the prescan, and
serde's two faults, an unknown field and one missing or of the wrong type), the
fields the rules read, and nothing of the free text. The prescan searches the raw
text, prose included, for its patterns; `misread` holds those it finds where no
fence, anchor, alias, tag or second document is (`x: &str` in the rationale, a line
*emphasised*, a quoted fence, a leading `---`). `Breaches` are the faults without
these. `CheckOrder` is the order of `prescan_reviewer_yaml`, `parse_reviewer_yaml`,
`validate_reviewer_yaml` and `enforce_reviewer_notion_policy`; `FirstFault` is what the
reviewer hears of. `Sound` states the format and the strict rules of README 271-300
independently of the checks.

A *request* is its template and values; `Render` gives the set of instructions the
rendered text holds, each named, for each of the five templates of `workflow.rs`
with every condition on provider, workflow, policy and report. A rule for the
document has the name of the fault that breaks it, so "told" and "rejected for"
can be compared. Both templates give the fields there must be and a "minimal
schema"; neither says that there may be no others, so `unknown_field` is not told,
nor are the patterns of the prescan, as against the YAML features they stand for.

`Review` has one action per ending of an attempt and per phase after it. History
variables follow what each session has read (`heard`), which rules
the reviewer knows while it breaks none of them (`told`) and how often it was
rejected all the same for a rule its document does break (`unfair`), whether this
delivery came with a report and whether its review was asked for. That a session
remembers what it read is what README 238 relies on when it leaves things out of later requests.

### 2.7 Diagnostics

The captured files and the session log are sequences of lines, each by its class.
Time is counted in spawns and dispatch times only (the n-th attempt spawns at
2n-1 and takes `dispatch_ts` at 2n), which is what `tail_service_cap_since`
compares. A line of the log may be seen half-written, may be cut by the
end of its process and is then run into the next one; between attempts others
write to the session. `CaptureTail` and `LogTail` are the 8192 bytes and
`MAX_JSONL_TAIL_BYTES`, in lines.

## 3. What TLC checks

| Run | Shows | Bounds | Distinct states |
|---|---|---|---|
| `run_safety` | locks follow agents; at most `Limit`+1 dispatches per round; a verdict and a rejection exclude each other; cleanup demands are kept; at most one dispatch after a cancel; `Orchestrator` implements `ReviewLoop`, with stragglers | `Limit` 2, one line, any outbox and worktree to begin with | 1.35 M |
| `run_live` | without stragglers the gate acts on the latest verdict; a cancelled run exits; a run that is not revised forever ends | `Limit` 2, one line | 0.34 M |
| `monitored_run` | a run with its probe loop is a run of `Orchestrator`, with stragglers; no process lives unwatched | `Limit` 1, no lines, thresholds of one probe, an agent that reports or leaves nothing | 0.63 M |
| `attempt_safety` | attempts end with the agent dead, results and changes are not lost, a cap is final, live logs are no hang; `Monitor` implements `Attempt`; a quiet or cancelled attempt ends | thresholds 1 to 3 probes, all three kinds | 0.56 M |
| `review_safety` | verdicts keep the strict rules; an obedient reviewer is rejected at most four times for what it breaks unawares; each delivery is reviewed; the report is where it is said to be; agents are briefed | `Limit` 4, documents with up to two faults, three command lines | 2.72 M |
| `diagnostics_safety` | a cap is of this attempt; last words are heard; a cap of a living process is seen | two attempts, two lines per file and log, tails of one line | 0.76 M |
| `locks_safety` | lock discipline, exclusion, no stale lock, in each lock directory a run that is not refused | three runs over two sessions, two lock directories | 1.22 M |
| `bind_safety` | the named session is bound, refusals are true, roles share no session | two sessions per provider, two names, three events | 3.13 M |

Why the bounds are enough:

* `Limit` is 5 in the code; 2 is the least with a retry, a retry of a retry and an
  end by the limit. The proofs hold for any limit.
* One status line tells clean from dirty, and one that was asked to be removed
  from one that was not, as worktree, baseline and the named lines are compared line by
  line. The proofs hold for any set.
* `monitored_run` asks only whether the two halves fit, which takes one attempt of
  each role, one retry and any order of probe and agent steps; its halves are
  checked with larger bounds by `run_safety` and `attempt_safety`.
* The monitor's thresholds keep the order of `constants.rs` (finalizing kill, then
  graces, then hang, then ceiling: `MCMonitor!ThresholdOrder`) and are all met,
  missed by one and passed. The proofs hold for any thresholds.
* Three runs are needed for two that compete beside one in another lock
  directory (`SomeoneGoesOn` is asked of each directory by itself); each run needs only its two sessions.
* Three events (names given, lines damaged, rollouts lost) suffice for a
  rename between the scans, for two rows out of order and for two names that
  meet; each of the mutants below needs two or three.
* The obedient reviewer can be given its four rejections within one round, as
  `Limit` is 4 in `review_safety`, and a fifth in the next, as the gate resets the
  failures. One pattern of the prescan stands for the five, hit rightly and
  wrongly. Two faults in one document are needed for one to
  hide another. The three command lines have every provider in the roles it
  differs in, every workflow and every policy; the proofs hold for all of them.
* Two attempts are needed for what the first leaves in the log, and a tail
  shorter than the file for output that scrolls past. A document's fields that
  no rule of its decision reads have one value (`MCReview!Relevant`).

Deadlock is checked in every run; a finished run or attempt stutters explicitly.

**Fairness.** `Orchestrator!FairSpec` has weak fairness of `Progress` (the tokio
runtime goes on polling the one task; all its timers fire) and of `AgentExits`
(a process ends some day: without it only a hang or a cancel ends an attempt, and
those are `Monitor`'s question). Errors and the environment have none.
`Monitor!FairSpec` has weak fairness of `System` only: the agent owes nothing,
not even to exit. `Diagnostics!Spec` has weak fairness of `TakeDispatchTime` and
`Probe`: the monitor goes on probing, and the process owes nothing. No liveness is
claimed of locks, which are never waited for, nor of the conversation, which may
revise forever.

**Mutants.** For every property `PROJECT.json` names a definition and a plausible
bug (`ReleaseForgotten`, `UntouchedUnchecked`, `LastRowName`, ...) with which the
property fails.

### 3.1 Disagreements between the code and what is said of it

| Run | The text | What the code does |
|---|---|---|
| `cleanup` | a cleanup retry need not touch the outbox (prompt, phases.rs 965, README 240) | the mtime check (phases.rs 890) fails it until the limit |
| `corrupted` | unparsable lines are skipped "rather than failing the whole scan" (claude.rs 341) | one line that is not UTF-8 fails `read_to_string`, and with it every Claude bind of the project |
| `session` | the lock prevents two orchestrators from using one session simultaneously (README 242) | on a service cap the lock goes before the agent (monitor.rs 632), and so it does on drop |
| `hang` | a hang is confirmed with work signals absent, and the ceiling is for attempts without a result (README 232-234) | the classifier gets the time of the previous work signal (monitor.rs 465), so a probe that sees one confirms a hang; and rule 9a precedes Finalizing (fsm.rs 96), so a result that has just been written does not stop the ceiling |

Noted while modelling, without a run of their own: the worktree baseline is taken
again at every reviewer dispatch that is no cleanup, so leftovers of a crashed
reviewer are accepted (phases.rs 587; mod.rs 79 says "the first reviewer
dispatch"). mod.rs 90 says the locks are held for the duration of the run; they
are released after each attempt. Success looks at the outbox and not at the exit
code. Reviewer rejections count as failures, where README 236 says that only
infrastructure failures do. The fingerprint of the inbox is compared on every
dispatch but the first, not on retries only. A live agent whose provider log
never appears is never found hung. Two workspaces whose paths differ in `/`
and `-` share their Claude sessions (sessions.rs 43). `outbox_present` is also set by
a reviewer whose document cannot be used; the next request for a review is then
about a delivery whose report the reviewer has overwritten. An agent whose own output
quotes a cap message is taken for capped, as stdout is searched like stderr
(providers/mod.rs 103-107). A missing Claude log is normal at the start
of an attempt (monitor.rs 397-405) but fails the run when it is searched for a cap. A cap is
passed over beside a diagnostic of another class (monitor.rs 749), and when it was
logged between the spawn and `dispatch_ts`.

The prescan of a verdict (yaml_check.rs 81-108) rejects more than the fences, anchors,
aliases, tags and second documents that README 271 and its own comments ("at value
position") name: its patterns are searched for in free text too. A quoted or
block scalar with `fn f(x: &str)`, with a line that begins with `*emphasis*`, or with a
quoted fence is refused by a reason ("YAML anchor in reviewer output") that does not fit, and the repair request
only repeats it. A reviewer that breaks no rule it was told may so be rejected again
and again, until the failure limit ends the run with `RunFailedConsecutiveFailureLimit`:
in `Review` the trace is write, reject, retry until `Limit`, with
`misread = {"anchor"}` in every document. `ObedientReviewerIsHeard` does not count such rejections and promises
nothing about them. Unknown fields are refused as README 271 says (yaml_check.rs 16),
but no request tells the reviewer (workflow.rs 728-733): one rejection is the price,
and it is in the bound.

## 4. What is proved

All theorems are for every value of the constants, under the named ASSUMEs only:
`Limit` is positive; thresholds are positive and kinds are the three; there is a
run and "none" is not one; the providers' sessions are finite sets and
disjoint, and "noSession" is none of them; the number of naming events is a
natural number; a run's work is one of the two kinds of the executor and what is
written into its outbox is of the types of `Orchestrator`; command lines and documents are records of their
types, and `None` is neither a document nor a fault; bounds and tails of the
diagnostics are positive and what is printed is of the five classes. Every
safety invariant, action property, type invariant and refinement a passing run
checks is also a theorem.

* **Orchestrator** (`OrchestratorProofs`): type correctness with `failures <=
  Limit`, and every safety and action property of `run_safety`. None is
  inductive alone. The strengthening is by parts: `ControlInv` says which role,
  agent and locks go with each run state (locks follow from it);
  `SpentIsAccountedFor` equates the dispatches of a round with the failures counted
  so far plus the attempt under way, which is what makes the dispatch bound
  inductive through retries of either role; `LateDispatchIsLast` says that after a
  late dispatch the flag is set and the run is not inside a handler, so the loop
  head aborts it; `VerdictInv`, `CleanupInv` and
  `LeftoversAreNew` relate the saved verdict, the rejections and the
  baseline in each review state; `OutboxInv` and `OriginInv` follow the
  writer of the outbox to the verdict, without stragglers. `VerdictSurvives`
  and `CleanupIsEnforced` are then shown of one step.
* **Refinement** (`OrchestratorRefinement`): `Spec => Contract!Loop`. Initial
  states map to initial states, and each action to a step of `ReviewLoop` or a
  stutter; `RoundInv` supplies what the abstract guards need (no attempt starts
  with the failures used up, a verdict is void when the reviewer starts).
  `FeedbackIsARevision` and `SavedVerdictsSurvive` state two consequences of the contract
  by themselves; no run repeats them.
* **The loop winds down** (`RunsWindDown`): between two requests for a revision the
  loop takes at most `28 * Limit + 30` steps, whatever fails, is rejected or is cleaned up.
  The measure `Rank` has the failures still allowed as its high part, so that a
  retry may begin the round anew, and the distance to the end of the round as its low
  part. This is the half of `EndsUnlessRevisedForever` that needs no fairness: what is
  left to TLC is that steps are taken at all.
* **Locks, seen by one run** (`RunUsesLocks`, `LocksAreAsSeen`): `Orchestrator`
  implements `LockView`, and each run of `SessionLocks` does. The second needs
  `LocksFollowTheRun`: a lock a run holds is that of the session it is at, so what it gives up is
  its own. The two theorems together close the assumption that `Orchestrator`'s
  environment is that of real runs.
* **Monitor** (`MonitorProofs`): type correctness, the five safety properties and the refinement of
  `Attempt`, from `MonitorInv`: types, `DeadIsDead` (a child taken for dead is
  dead), `EndingIsLast` (an ending is set exactly when the loop is left, so nothing
  is judged twice) and `HangIsAlive` (a hang is confirmed of a child that was not
  reaped).
* **The probe loop winds down** (`AttemptWindsDown`): its measure counts what is left
  of every clock and of the grace period, whether one has yet to be opened and the process
  reaped, and the steps to the end of the probe. Each step of the loop lowers it,
  except a probe of a live process whose log has never appeared, the exception
  `EndsOnceQuiet` makes too. With every clock at its bound (`LastProbe`) no probe goes on
  otherwise; that is where the order of the rules of `classify` is needed. Once cancelled
  an attempt ends within four steps (`CancelsArePrompt`), with no exception.
* **MonitoredRun** (`MonitoredRunProofs`): `Tie` relates the two halves: what the
  run knows of the process is what the last poll found, a process that lives is known
  to, a hang was confirmed of one not reaped and a cancellation has its flag. With it each arm of the match finds the guards of the
  corresponding action of `Orchestrator` true: a result is collected and a retry counted with the
  agent dead. `MonitoredRunIsSafe` and `MonitoredGateActsOnTheReview` then carry the
  theorems about `Orchestrator` over, and `ChangesAreReviewedInARun` shows of
  the whole loop that silence over changes is not retried.
* **SessionLocks** (`SessionLocksProofs`): `TypeOK /\ LocksFollowTheRun` is
  inductive and gives exclusion; a refused run finds in it the other holder
  (`NoStaleLock`). `SomeoneGoesOn` needs besides that a run that ended as locked
  holds nothing: then the holder that stops a run, which has the same lock directory,
  has not itself ended so.
* **SessionDiscovery** (`SessionDiscoveryProofs`): the roles share no session,
  whatever the provider files say, since ids are compared within a provider and
  providers have no session in common (`BoundInv`). For `BindsTheNamed` and
  `RefusalIsTrue` the files are related to the names that were given:
  `NamesInv` says that the name of a session *stands* in its log (it is in the last
  line of its kind) and that the latest of a Codex session's rows, written or
  not, has its title. An appended line keeps this (`AppendStands`), a row on its
  way to the index does not change it (`WrittenRow`), and what the code computes from
  a file with all rows in it is the name that stands (`NamesAreRead`).
* **Diagnostics** (`DiagnosticsProofs`): `CaptureIsOwn` and `LogIsOwn` say that a
  cap in a captured file, or a reported one in the log no older than
  `dispatch_ts`, is of this process; `LogIsPast` (no line is from the future)
  makes that true at the moment `dispatch_ts` is taken. With the lemma that a
  tail holds the last line and nothing else than the file, both directions
  follow: `CapsAreOwn` and `CapsAreHeard`. `MonitorsCapIsSound` looks at the same
  from `Monitor`: in a watched attempt only a living process changes whether a cap shows, and
  a probe that can read the log goes by it.
* **The checks** (`ReviewProofs`): `ChecksAreExact` says that the twenty checks, in
  their order, take exactly the documents that keep the format and the strict rules
  and have no text that is misread, and report the first fault; hence `RepairsGoForward`: mending what was reported and breaking
  nothing leads to a later check, never back.
* **Review** (`ReviewProofs`): `IInv` is types and, by parts, which role, request,
  document and saved verdict go with each phase; it gives the soundness of
  verdicts, the review of each delivery and the place of the report.
  `FirstPosition` shows, check by check, that one of the twenty fails first, so
  that a rejection names a fault the document has. For
  `ObedientReviewerIsHeard`, `ObedientInv` bounds the unfair rejections by the
  number of the three rules no template states that rejections have supplied so
  far (`Supplied`): an obedient reviewer that is rejected has learnt one more,
  unless its text was misread, which leaves the count as it is. For
  `AgentsAreBriefed`, `HeardInv` says which templates a role must have read in each
  phase, and lemmas about `Render` say what they hold.
  `ConversationKeepsTheContract` maps each ending of an attempt and each decision to a
  step of `ReviewLoop`.

Only model-checked: liveness, as fairness and ENABLED are beyond the prover. These are
`CancelledRunExits` and `EndsUnlessRevisedForever`, `EndsOnceQuiet` and
`CancelledAttemptEnds`, and `CapOfTheLivingIsSeen`. The measures above prove that
neither loop can go on without end by itself, not that its steps are taken. The runs of section
3.1 are counterexamples and prove nothing.

## 5. What is not modelled

* The text of a document: which text has which fault of form, and whether a pattern
  of the prescan is hit rightly or wrongly, is a choice of the model. The score is
  an integer; a fraction is abstracted to its comparison with the bounds, and NaN
  fails the range check.
* The wording of the requests; the process tree walk and the patterns of
  diagnostics (`signals.rs`): a line is of a class.
* Clocks and mtime granularity: "touched since" is exact, as the pauses between
  phases (`PHASE_SEPARATOR_WAIT_SEC`) are there to make it.
* `.git/info/exclude` (`ensure_agent_io_excluded`), the final report,
  logging, heartbeats, command lines of providers, systemd units: text and I/O.
* Two orchestrators in one workspace, which share `.agent-io` although their
  sessions differ.

## 6. Plan

Done: the run and its contract, the monitor and its contract, their composition, the
conversation with its documents and requests as another view of the run, diagnostics,
locks and the view a run has of them, discovery, and the proofs of all of them. Next, in
this order:

1. Two runs in one workspace: the shared transport files under different session
   locks.
2. The start of a run in its single checks, with `.git/info/exclude`.
