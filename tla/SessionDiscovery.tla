-------------------------- MODULE SessionDiscovery --------------------------
(***************************************************************************)
(* SESSION_BIND: how a run finds the two provider sessions it was given by *)
(* name (do_session_bind and discover_by_thread of each provider), while   *)
(* the user and the providers go on naming sessions.                       *)
(*                                                                         *)
(* The names are read from files and a command of the providers:           *)
(*   Claude    one log per session; naming lines are appended to it;       *)
(*   Codex     one index for all sessions; a row is stamped when a session *)
(*             is named and appended later, perhaps by another process;    *)
(*   OpenCode  a list that shows the title a session has now.              *)
(* A log is the sequence of its naming and damaged lines: other lines do   *)
(* not matter to the scan.                                                 *)
(***************************************************************************)
EXTENDS Naturals, Sequences, FiniteSets, FiniteSetsExt

CONSTANTS
  Claude, Codex, Opencode,  (* the sessions of each provider                 *)
  Names,                    (* thread names                                  *)
  Root,                     (* --workspace-root                              *)
  Home,                     (* the directory each session was started in     *)
  Key,                      (* claude_project_key of a directory: not one to *)
                            (* one, as "/" and "-" both become "-"           *)
  MaxEvents                 (* bound on what users and providers do          *)

ASSUME ProvidersAssumption ==
  Claude \cap Codex = {} /\ Claude \cap Opencode = {} /\ Codex \cap Opencode = {}

Providers == {"claude", "codex", "opencode"}
SessionsOf(p) == CASE p = "claude" -> Claude [] p = "codex" -> Codex
                   [] p = "opencode" -> Opencode
Sessions == Claude \cup Codex \cup Opencode
NoName == "noName"
NoSession == "noSession"
Roles == {"executor", "reviewer"}

ASSUME SessionsAssumption == IsFiniteSet(Sessions) /\ NoSession \notin Sessions
ASSUME EventsAssumption == MaxEvents \in Nat

VARIABLES
  log,       \* the Claude logs: [kind, name] lines
  index,     \* session_index.jsonl of Codex: [id, name, at] rows
  unwritten, \* rows stamped but not appended yet
  torn,      \* the last line of the index is still being written
  rollouts,  \* Codex sessions whose rollout and its cwd can be read
  title,     \* the title a session was given last
  agentName, \* the agent name a Claude session was given last
  clock,     \* the time, which is the number of events so far
  task,      \* provider and thread name of each role on the command line
  phase,     \* "input", then the role to bind, then "bound" or "failed"
  bound,     \* ctx.executor_session_id, ctx.reviewer_session_id
  why        \* why the run failed

providerVars == <<log, index, unwritten, torn, rollouts, title, agentName, clock>>
runVars == <<task, phase, bound, why>>
vars == <<log, index, unwritten, torn, rollouts, title, agentName, clock,
          task, phase, bound, why>>

Init ==
  /\ log = [s \in Claude |-> <<>>]
  /\ index = <<>> /\ unwritten = {} /\ torn = FALSE
  /\ rollouts = Codex
  /\ title = [s \in Sessions |-> NoName]
  /\ agentName = [s \in Claude |-> NoName]
  /\ clock = 0
  /\ task \in [Roles -> [provider : Providers, name : Names]]
  /\ phase = "input"
  /\ bound = [r \in Roles |-> NoSession]
  /\ why = "none"

-----------------------------------------------------------------------------
(***************************************************************************)
(* Users and providers.                                                    *)
(***************************************************************************)
Happens ==
  /\ phase \notin {"bound", "failed"}
  /\ clock < MaxEvents
  /\ clock' = clock + 1
  /\ UNCHANGED runVars

\* A custom-title or agent-name line.  A line whose name is not a string takes
\* the name back.
NameClaude(s, kind, n) ==
  /\ Happens
  /\ log' = [log EXCEPT ![s] = Append(@, [kind |-> kind, name |-> n])]
  /\ IF kind = "custom-title"
     THEN title' = [title EXCEPT ![s] = n] /\ UNCHANGED agentName
     ELSE agentName' = [agentName EXCEPT ![s] = n] /\ UNCHANGED title
  /\ UNCHANGED <<index, unwritten, torn, rollouts>>

\* An interrupted write leaves a line that is no JSON ("cut", which includes a
\* block of NUL bytes), or is not even UTF-8 ("bytes").
DamageClaude(s, kind) ==
  /\ Happens
  /\ log' = [log EXCEPT ![s] = Append(@, [kind |-> kind, name |-> NoName])]
  /\ UNCHANGED <<index, unwritten, torn, rollouts, title, agentName>>

NameCodex(s, n) ==
  /\ Happens
  /\ unwritten' = unwritten \cup {[id |-> s, name |-> n, at |-> clock]}
  /\ title' = [title EXCEPT ![s] = n]
  /\ UNCHANGED <<log, index, torn, rollouts, agentName>>

\* A row reaches the index, in part and then whole.
WriteRow ==
  /\ phase \notin {"bound", "failed"}
  /\ \/ ~torn /\ unwritten # {} /\ torn' = TRUE /\ UNCHANGED <<index, unwritten>>
     \/ \E row \in unwritten : /\ index' = Append(index, row)
                               /\ unwritten' = unwritten \ {row}
                               /\ torn' = FALSE
  /\ UNCHANGED <<log, rollouts, title, agentName, clock, runVars>>

LoseRollout(s) ==
  /\ Happens
  /\ rollouts' = rollouts \ {s}
  /\ UNCHANGED <<log, index, unwritten, torn, title, agentName>>

NameOpencode(s, n) ==
  /\ Happens
  /\ title' = [title EXCEPT ![s] = n]
  /\ UNCHANGED <<log, index, unwritten, torn, rollouts, agentName>>

-----------------------------------------------------------------------------
(***************************************************************************)
(* The names a run reads.                                                  *)
(***************************************************************************)

\* The name in the last line of a kind.
LastNamed(s, kind) ==
  LET at == {i \in DOMAIN log[s] : log[s][i].kind = kind}
  IN  IF at = {} THEN NoName ELSE log[s][Max(at)].name

\* claude_effective_title: any custom title goes before any agent name.
LastLineTitle(s) ==
  LET at == {i \in DOMAIN log[s] : log[s][i].kind \in {"custom-title", "agent-name"}}
  IN  IF at = {} THEN NoName ELSE log[s][Max(at)].name

EffectiveTitle(s) ==
  IF LastNamed(s, "custom-title") # NoName THEN LastNamed(s, "custom-title")
                                           ELSE LastNamed(s, "agent-name")

\* The row of a Codex session with the latest updated_at, whatever its place
\* in the index.
LastRowName(s) ==
  LET at == {i \in DOMAIN index : index[i].id = s}
  IN  IF at = {} THEN NoName ELSE index[Max(at)].name

LatestName(s) ==
  LET rows == {index[i] : i \in {j \in DOMAIN index : index[j].id = s}}
  IN  IF rows = {} THEN NoName
      ELSE (CHOOSE row \in rows : \A other \in rows : row.at >= other.at).name

ReadName(s) == CASE s \in Claude   -> EffectiveTitle(s)
                 [] s \in Codex    -> LatestName(s)
                 [] s \in Opencode -> title[s]

\* Claude logs are found in the directory named by the project key; the other
\* providers record the directory of a session.
InWorkspace(s) == CASE s \in Claude   -> Key[Home[s]] = Key[Root]
                    [] s \in Codex    -> s \in rollouts /\ Home[s] = Root
                    [] s \in Opencode -> Home[s] = Root

AnyProvider(p, n) == {s \in Sessions : InWorkspace(s) /\ ReadName(s) = n}
Candidates(p, n) == {s \in SessionsOf(p) : InWorkspace(s) /\ ReadName(s) = n}

\* One log of the project that is not UTF-8 fails the search, and so does one
\* row of the index that does not parse.
Unreadable(p) ==
  \/ /\ p = "claude"
     /\ \E s \in Claude : InWorkspace(s) /\ \E i \in DOMAIN log[s] : log[s][i].kind = "bytes"
  \/ p = "codex" /\ torn

-----------------------------------------------------------------------------
(***************************************************************************)
(* The run.                                                                *)
(***************************************************************************)
Fail(reason) == phase' = "failed" /\ why' = reason /\ UNCHANGED <<task, bound>>

\* validate_inputs: the roles are not given one name of one provider.
ValidateInputs ==
  /\ phase = "input"
  /\ IF task["executor"] = task["reviewer"]
     THEN Fail("input")
     ELSE phase' = "executor" /\ UNCHANGED <<task, bound, why>>
  /\ UNCHANGED providerVars

\* The provider's files or the list command of OpenCode cannot be read.
DiscoverUnreadable(r) ==
  /\ phase = r
  /\ Unreadable(task[r].provider) \/ task[r].provider = "opencode"
  /\ Fail("unreadable")
  /\ UNCHANGED providerVars

DiscoverNoOne(r) ==
  /\ phase = r
  /\ ~Unreadable(task[r].provider)
  /\ Cardinality(Candidates(task[r].provider, task[r].name)) # 1
  /\ Fail(IF Candidates(task[r].provider, task[r].name) = {} THEN "noMatch" ELSE "ambiguous")
  /\ UNCHANGED providerVars

\* Session ids are compared, not names: the scans for the two roles are at
\* different times.
NamesDiffer(s) == task["executor"] # task["reviewer"]
RolesDiffer(s) ==
  task["executor"].provider = task["reviewer"].provider => s # bound["executor"]

Discover(r) ==
  /\ phase = r
  /\ ~Unreadable(task[r].provider)
  /\ \E s \in Candidates(task[r].provider, task[r].name) :
       /\ Candidates(task[r].provider, task[r].name) = {s}
       /\ IF r = "reviewer" /\ ~RolesDiffer(s)
          THEN Fail("sameSession")
          ELSE /\ bound' = [bound EXCEPT ![r] = s]
               /\ phase' = IF r = "executor" THEN "reviewer" ELSE "bound"
               /\ UNCHANGED <<task, why>>
  /\ UNCHANGED providerVars

Done == phase \in {"bound", "failed"} /\ UNCHANGED vars

Next ==
  \/ \E s \in Claude :
       \/ \E kind \in {"custom-title", "agent-name"}, n \in Names \cup {NoName} :
            NameClaude(s, kind, n)
       \/ \E kind \in {"cut", "bytes"} : DamageClaude(s, kind)
  \/ \E s \in Codex : LoseRollout(s) \/ \E n \in Names : NameCodex(s, n)
  \/ \E s \in Opencode, n \in Names : NameOpencode(s, n)
  \/ WriteRow
  \/ ValidateInputs
  \/ \E r \in Roles : DiscoverUnreadable(r) \/ DiscoverNoOne(r) \/ Discover(r)
  \/ Done

Spec == Init /\ [][Next]_vars

-----------------------------------------------------------------------------
(***************************************************************************)
(* Properties.  They speak of the names sessions were given, not of what   *)
(* the files say.                                                          *)
(***************************************************************************)
Reasons == {"none", "input", "unreadable", "noMatch", "ambiguous", "sameSession"}
Lines == [kind : {"custom-title", "agent-name", "cut", "bytes"}, name : Names \cup {NoName}]
Rows == [id : Codex, name : Names, at : 0..MaxEvents - 1]

\* Types; a bound run has a session of the right provider for each role.
TypeOK ==
  /\ log \in [Claude -> Seq(Lines)]
  /\ index \in Seq(Rows) /\ unwritten \subseteq Rows /\ torn \in BOOLEAN
  /\ rollouts \subseteq Codex
  /\ title \in [Sessions -> Names \cup {NoName}]
  /\ agentName \in [Claude -> Names \cup {NoName}]
  /\ clock \in 0..MaxEvents
  /\ task \in [Roles -> [provider : Providers, name : Names]]
  /\ phase \in Roles \cup {"input", "bound", "failed"}
  /\ \A r \in Roles : bound[r] \in SessionsOf(task[r].provider) \cup {NoSession}
  /\ (phase = "bound") => \A r \in Roles : bound[r] # NoSession
  /\ why \in Reasons /\ (phase = "failed" <=> why # "none")

\* The name a session goes by: a Claude agent name counts when the user gave no
\* title.
GoesBy(s) == IF s \in Claude /\ title[s] = NoName THEN agentName[s] ELSE title[s]
Called(r) == {s \in SessionsOf(task[r].provider) : InWorkspace(s) /\ GoesBy(s) = task[r].name}

\* No Codex row is on its way to the index.
Settled == unwritten = {}

\* A role is bound to the session of the workspace that goes by the name it was
\* given, and only if no other does: neither an earlier name, nor the order of
\* the rows, nor a damaged line misleads the search.
BindsTheNamed ==
  [][\A r \in Roles : bound'[r] # bound[r] /\ Settled => Called(r) = {bound'[r]}]_vars

\* A run is told that no session has its name, or that several have, only if
\* that is so at that time.
RefusalIsTrue ==
  [][/\ why' = "noMatch" /\ why = "none" /\ Settled => Called(phase) = {}
     /\ why' = "ambiguous" /\ why = "none" /\ Settled => Cardinality(Called(phase)) > 1]_vars

\* Executor and reviewer never share a session, even if sessions are renamed
\* between the scan for the one and the scan for the other.
RolesShareNoSession == phase = "bound" => bound["executor"] # bound["reviewer"]

\* claude.rs, of claude_effective_title: "Skips lines that cannot be parsed as
\* valid JSON ... rather than failing the whole scan - session logs are not
\* under orchestrator control and may contain corrupted lines."
CorruptedLinesAreSkipped ==
  [][\A r \in Roles : phase = r /\ task[r].provider = "claude" => why' # "unreadable"]_vars
=============================================================================
