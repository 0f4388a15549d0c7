---------------------------- MODULE Diagnostics -----------------------------
(***************************************************************************)
(* How a service cap of a provider is noticed: read_diagnostics,           *)
(* classify_provider_error_with_match and detect_provider_error over the   *)
(* attempts of one role, against a provider process that writes its        *)
(* captured output and, for Claude, the JSONL log of its session.          *)
(*                                                                         *)
(* Time is counted in spawns and dispatch times: the n-th attempt spawns   *)
(* its process at 2n - 1 and takes its dispatch_ts at 2n.                  *)
(***************************************************************************)
EXTENDS Naturals, Sequences, SequencesExt

CONSTANTS
  Said,         (* the classes of line a provider prints                   *)
  MaxAttempts,  (* attempts of the role                                    *)
  MaxLines,     (* lines in a captured file                                *)
  MaxLog,       (* lines in the session log                                *)
  CaptureTail,  (* lines in the 8192 bytes read of a captured file         *)
  LogTail       (* lines in MAX_JSONL_TAIL_BYTES of the session log        *)

Files == {"stdout", "stderr"}
Classes == {"cap", "permission", "auth", "transport"}
NonFatal == Classes \ {"cap"}

ASSUME SaidAssumption == Said \subseteq Classes \cup {"plain"}
ASSUME BoundsAssumption ==
  {MaxAttempts, MaxLines, MaxLog, CaptureTail, LogTail} \subseteq Nat \ {0}

\* A line of the log: when it was written, whether it reports a cap, and
\* whether its end has been written.  One that is run into another is garbage.
LogLines == [at : 0..2 * MaxAttempts, kind : {"cap", "other", "garbage"}, whole : BOOLEAN]

VARIABLES
  provider,  \* the provider of the role
  phase,     \* "retry": between attempts; "spawned": the process runs, and
             \* dispatch_ts is not taken yet; "watching": do_monitor;
             \* "capped", "failed": the run ended for a cap, for a read error
  attempt,   \* the number of the attempt
  alive,     \* the provider process runs
  capture,   \* the captured files of the attempt
  log,       \* the JSONL log of the session
  logThere,  \* it is where it is looked for
  warnings,  \* the diagnostics in ctx.warnings
  \* History variable, read by no action:
  capSaid    \* the process of this attempt has reported a cap

files == <<capture, log, logThere>>
vars == <<provider, phase, attempt, alive, capture, log, logThere, warnings,
          capSaid>>

\* File::create of each captured file.
Created == [f \in Files |-> <<>>]

Init ==
  /\ provider \in {"claude", "opencode"}
  /\ phase = "retry" /\ attempt = 0 /\ alive = FALSE
  /\ capture = Created
  /\ log = <<>> /\ logThere = TRUE
  /\ warnings = {} /\ capSaid = FALSE

\* attempt.dispatch_ts, and the time it is.
DispatchTime == 2 * attempt
Now == IF phase = "spawned" THEN DispatchTime - 1 ELSE DispatchTime

-----------------------------------------------------------------------------
(***************************************************************************)
(* What the orchestrator reads.                                            *)
(***************************************************************************)

\* read_log_tail
HeadOf(s, n) == SubSeq(s, 1, IF Len(s) < n THEN Len(s) ELSE n)
TailOf(s, n) == SubSeq(s, IF Len(s) < n THEN 1 ELSE Len(s) - n + 1, Len(s))

\* read_provider_diagnostics: the tails of both files in one text.
Diagnosed == UNION {ToSet(TailOf(capture[f], CaptureTail)) : f \in Files}

\* classify_provider_error_with_match: the first class, in this order, that has
\* a pattern anywhere in the text.
CapComesLast(text) ==
  CASE "permission" \in text -> "permission" [] "auth" \in text      -> "auth"
    [] "transport" \in text  -> "transport"  [] "cap" \in text       -> "cap"
    [] OTHER                 -> "none"
ClassOf(text) ==
  IF "cap" \in text THEN "cap"
  ELSE IF "permission" \in text THEN "permission"
  ELSE IF "auth" \in text THEN "auth"
  ELSE IF "transport" \in text THEN "transport" ELSE "none"

\* tail_service_cap_since: lines that do not parse, bear no time or are older
\* than the dispatch are passed over.
Reports(line) == line.whole /\ line.kind = "cap"
AnyAge(since) == \E line \in ToSet(TailOf(log, LogTail)) : Reports(line)
CapSince(since) ==
  \E line \in ToSet(TailOf(log, LogTail)) : Reports(line) /\ line.at >= since

-----------------------------------------------------------------------------
(***************************************************************************)
(* An attempt.                                                             *)
(***************************************************************************)

\* dispatch of a provider: the captured files are created anew.
Spawn ==
  /\ phase = "retry" /\ attempt < MaxAttempts
  /\ phase' = "spawned" /\ attempt' = attempt + 1 /\ alive' = TRUE
  /\ capture' = Created
  /\ capSaid' = FALSE
  /\ UNCHANGED <<provider, log, logThere, warnings>>

\* dispatch_role takes the time once the process runs.
TakeDispatchTime ==
  /\ phase = "spawned"
  /\ phase' = "watching"
  /\ UNCHANGED <<provider, attempt, alive, files, warnings, capSaid>>

Watching == phase = "watching"

\* A cap in the captured output, or, when that holds none of the four classes,
\* in the log of a Claude session.
CapOfTheDeadOnly ==
  ~alive /\ \/ ClassOf(Diagnosed) = "cap"
            \/ /\ ClassOf(Diagnosed) = "none" /\ provider = "claude"
               /\ logThere /\ CapSince(DispatchTime)
CapFound ==
  \/ ClassOf(Diagnosed) = "cap"
  \/ /\ ClassOf(Diagnosed) = "none" /\ provider = "claude"
     /\ logThere /\ CapSince(DispatchTime)

ProbeFindsCap ==
  /\ Watching /\ CapFound
  /\ phase' = "capped"
  /\ UNCHANGED <<provider, attempt, alive, files, warnings, capSaid>>

\* A Claude log that is not there cannot be opened.
ProbeFails ==
  /\ Watching
  /\ ClassOf(Diagnosed) = "none" /\ provider = "claude" /\ ~logThere
  /\ phase' = "failed"
  /\ UNCHANGED <<provider, attempt, alive, files, warnings, capSaid>>

\* Any other class is a warning, and the log is not looked at.  The attempt goes
\* on, or it is over: the process had exited, or it hangs and is killed.
ProbeFindsNoCap ==
  /\ Watching /\ ~CapFound
  /\ ClassOf(Diagnosed) = "none" /\ provider = "claude" => logThere
  /\ warnings' = warnings \cup ({ClassOf(Diagnosed)} \ {"none"})
  /\ \/ UNCHANGED <<phase, alive>>
     \/ phase' = "retry" /\ alive' = FALSE
  /\ UNCHANGED <<provider, attempt, files, capSaid>>

-----------------------------------------------------------------------------
(***************************************************************************)
(* The provider process.                                                   *)
(***************************************************************************)

Running == alive /\ phase \in {"spawned", "watching"}

Prints ==
  /\ Running
  /\ \E f \in Files, class \in Said :
       /\ Len(capture[f]) < MaxLines
       /\ capture' = [capture EXCEPT ![f] = Append(@, class)]
       /\ capSaid' = (capSaid \/ class = "cap")
  /\ UNCHANGED <<provider, phase, attempt, alive, log, logThere, warnings>>

Line(kind, whole) == [at |-> Now, kind |-> kind, whole |-> whole]
Torn == log # <<>> /\ ~Last(log).whole
Own(line) == line.at > DispatchTime - 2

\* A line appended to one that was never ended becomes part of it.
Appended(line) ==
  IF Torn THEN Append(Front(log), [line EXCEPT !.kind = "garbage"]) ELSE Append(log, line)
HasRoom == Torn \/ Len(log) < MaxLog
KeepsLog == provider = "claude"

\* The process writes a line, which a probe may see half.
BeginsLine ==
  /\ KeepsLog /\ Running /\ HasRoom
  /\ ~(Torn /\ Own(Last(log)))
  /\ \E kind \in {"cap", "other"} : log' = Appended(Line(kind, FALSE))
  /\ UNCHANGED <<provider, phase, attempt, alive, capture, logThere, warnings, capSaid>>

EndsLine ==
  /\ Running /\ Torn /\ Own(Last(log))
  /\ log' = Append(Front(log), [Last(log) EXCEPT !.whole = TRUE])
  /\ capSaid' = (capSaid \/ Last(log).kind = "cap")
  /\ UNCHANGED <<provider, phase, attempt, alive, capture, logThere, warnings>>

\* Between attempts the session may be used otherwise.
OthersLog ==
  /\ KeepsLog /\ phase = "retry" /\ HasRoom
  /\ \E kind \in {"cap", "other"} : log' = Appended(Line(kind, TRUE))
  /\ UNCHANGED <<provider, phase, attempt, alive, capture, logThere, warnings, capSaid>>

LosesLog ==
  /\ KeepsLog /\ phase \notin {"capped", "failed"}
  /\ logThere /\ logThere' = FALSE
  /\ UNCHANGED <<provider, phase, attempt, alive, capture, log, warnings, capSaid>>

ProcessExits ==
  /\ Running /\ alive' = FALSE
  /\ UNCHANGED <<provider, phase, attempt, files, warnings, capSaid>>

\* The run is over, or uses up its attempts.
Ended ==
  /\ phase \in {"capped", "failed"} \/ (phase = "retry" /\ attempt = MaxAttempts)
  /\ UNCHANGED vars

-----------------------------------------------------------------------------
Probe == ProbeFindsCap \/ ProbeFails \/ ProbeFindsNoCap
Next ==
  \/ Spawn \/ TakeDispatchTime \/ Probe
  \/ Prints \/ BeginsLine \/ EndsLine \/ OthersLog \/ LosesLog \/ ProcessExits \/ Ended

\* The monitor goes on probing.
Spec == Init /\ [][Next]_vars /\ WF_vars(TakeDispatchTime) /\ WF_vars(Probe)

-----------------------------------------------------------------------------
(***************************************************************************)
(* Properties.                                                             *)
(***************************************************************************)

\* Every variable has a value of its type, and the files keep their bounds.
TypeOK ==
  /\ provider \in {"claude", "opencode"}
  /\ phase \in {"retry", "spawned", "watching", "capped", "failed"}
  /\ attempt \in 0..MaxAttempts
  /\ alive \in BOOLEAN /\ logThere \in BOOLEAN
  /\ \A f \in Files : capture[f] \in Seq(Said) /\ Len(capture[f]) <= MaxLines
  /\ log \in Seq(LogLines) /\ Len(log) <= MaxLog
  /\ warnings \subseteq NonFatal
  /\ capSaid \in BOOLEAN

\* A run is stopped for a cap only if the process of the current attempt has
\* reported one: not for what an earlier attempt, or anybody who used the session
\* in between, left in the log or printed.
CapIsOfThisAttempt == phase = "capped" => capSaid

\* The last words of the process, in a captured file or in its log.
LastPrinted(class) == \E f \in Files : capture[f] # <<>> /\ Last(capture[f]) = class
LastLogged == log # <<>> /\ Reports(Last(log)) /\ Last(log).at >= DispatchTime

\* A process that ends with a cap is not dispatched again: whatever it printed
\* before, when a cap is the last line of a captured file; when it is the last
\* line of its log, unless it printed a diagnostic of another class as well.
LastWordsAreHeard ==
  [][phase = "watching" /\ phase' = "retry" /\ ~alive =>
       /\ ~LastPrinted("cap")
       /\ provider = "claude" /\ LastLogged =>
            \E class \in NonFatal, f \in Files : class \in ToSet(capture[f])]_vars

\* A process that prints a cap and hangs, as the code expects of OpenCode, is not
\* waited for: the run stops, unless the cap is printed over in the meantime.
CapOfTheLivingIsSeen ==
  [](alive /\ LastPrinted("cap") => <>(phase = "capped" \/ ~LastPrinted("cap")))
=============================================================================
