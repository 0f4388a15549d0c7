----------------------- MODULE SessionDiscoveryProofs -----------------------
(***************************************************************************)
(* What holds of SESSION_BIND for all sessions and names: the two roles    *)
(* never get one session, and what a search reads, binds and refuses are   *)
(* the names the sessions go by.                                           *)
(***************************************************************************)
EXTENDS SessionDiscovery, FiniteSetTheorems, TLAPS

\* A bound role has a session of its provider, and once both are bound the
\* ids were compared if the providers are the same.
BoundInv ==
  /\ task \in [Roles -> [provider : Providers, name : Names]]
  /\ bound \in [Roles -> Sessions \cup {NoSession}]
  /\ phase \in Roles \cup {"input", "bound", "failed"}
  /\ phase \in {"reviewer", "bound"} =>
       bound["executor"] \in SessionsOf(task["executor"].provider)
  /\ phase = "bound" =>
       /\ bound["reviewer"] \in SessionsOf(task["reviewer"].provider)
       /\ task["executor"].provider = task["reviewer"].provider =>
            bound["reviewer"] # bound["executor"]

\* The sessions of two providers are never the same.
LEMMA ProvidersDisjoint ==
  ASSUME NEW p \in Providers, NEW q \in Providers, p # q
  PROVE  SessionsOf(p) \cap SessionsOf(q) = {}
  BY ProvidersAssumption DEF Providers, SessionsOf

LEMMA SessionsOfProvider ==
  ASSUME NEW p \in Providers PROVE SessionsOf(p) \subseteq Sessions
  BY DEF Providers, SessionsOf, Sessions

\* What users and providers do leaves the run alone.
LEMMA RunUnchanged == BoundInv /\ UNCHANGED runVars => BoundInv'
  BY DEF BoundInv, runVars

\* Every step of the run keeps BoundInv.
LEMMA BoundStep == BoundInv /\ [Next]_vars => BoundInv'
<1> SUFFICES ASSUME BoundInv, [Next]_vars PROVE BoundInv'
  OBVIOUS
<1>1. CASE UNCHANGED runVars
  BY <1>1, RunUnchanged
<1>2. CASE ValidateInputs
  BY <1>2 DEF ValidateInputs, Fail, BoundInv, Roles
<1>3. ASSUME NEW r \in Roles, DiscoverUnreadable(r) \/ DiscoverNoOne(r) PROVE BoundInv'
  BY <1>3 DEF DiscoverUnreadable, DiscoverNoOne, Fail, BoundInv
<1>4. ASSUME NEW r \in Roles, Discover(r) PROVE BoundInv'
  <2>1. PICK s \in Candidates(task[r].provider, task[r].name) :
          IF r = "reviewer" /\ ~RolesDiffer(s)
          THEN Fail("sameSession")
          ELSE /\ bound' = [bound EXCEPT ![r] = s]
               /\ phase' = IF r = "executor" THEN "reviewer" ELSE "bound"
               /\ UNCHANGED <<task, why>>
    BY <1>4 DEF Discover
  <2>2. s \in SessionsOf(task[r].provider) /\ s \in Sessions /\ phase = r
    BY <1>4, <2>1, SessionsOfProvider DEF Discover, Candidates, BoundInv
  <2>3. CASE r = "reviewer" /\ ~RolesDiffer(s)
    BY <2>1, <2>3 DEF Fail, BoundInv
  <2>4. CASE r = "reviewer" /\ RolesDiffer(s)
    BY <2>1, <2>2, <2>4 DEF BoundInv, RolesDiffer, Roles
  <2>5. CASE r = "executor"
    BY <2>1, <2>2, <2>5 DEF BoundInv, Roles
  <2> QED
    BY <2>3, <2>4, <2>5 DEF Roles
<1> QED
  BY <1>1, <1>2, <1>3, <1>4 DEF Next, NameClaude, DamageClaude, NameCodex, WriteRow,
     LoseRollout, NameOpencode, Happens, Done, vars, runVars

\* The roles of a bound run have different sessions: same-provider ids were
\* compared, and providers share none.
THEOREM RolesApart == Spec => []RolesShareNoSession
<1>1. Init => BoundInv
  BY DEF Init, BoundInv, Roles
<1>2. BoundInv => RolesShareNoSession
  <2> SUFFICES ASSUME BoundInv, phase = "bound"
               PROVE  bound["executor"] # bound["reviewer"]
    BY DEF RolesShareNoSession
  <2>1. task["executor"].provider \in Providers /\ task["reviewer"].provider \in Providers
    BY DEF BoundInv, Roles
  <2> QED
    BY <2>1, ProvidersDisjoint DEF BoundInv
<1> QED
  BY <1>1, <1>2, BoundStep, PTL DEF Spec

-----------------------------------------------------------------------------
(***************************************************************************)
(* Type correctness.                                                       *)
(***************************************************************************)

FilesType ==
  /\ log \in [Claude -> Seq(Lines)]
  /\ index \in Seq(Rows) /\ unwritten \subseteq Rows /\ torn \in BOOLEAN
  /\ rollouts \subseteq Codex
  /\ title \in [Sessions -> Names \cup {NoName}]
  /\ agentName \in [Claude -> Names \cup {NoName}]
  /\ clock \in 0..MaxEvents

RunType ==
  /\ task \in [Roles -> [provider : Providers, name : Names]]
  /\ phase \in Roles \cup {"input", "bound", "failed"}
  /\ \A r \in Roles : bound[r] \in SessionsOf(task[r].provider) \cup {NoSession}
  /\ (phase = "bound") => \A r \in Roles : bound[r] # NoSession
  /\ why \in Reasons /\ (phase = "failed" <=> why # "none")

\* What users and providers do.
Naming ==
  \/ \E s \in Claude, kind \in {"custom-title", "agent-name"}, n \in Names \cup {NoName} :
       NameClaude(s, kind, n)
  \/ \E s \in Claude, kind \in {"cut", "bytes"} : DamageClaude(s, kind)
  \/ \E s \in Codex : LoseRollout(s) \/ \E n \in Names : NameCodex(s, n)
  \/ \E s \in Opencode, n \in Names : NameOpencode(s, n)
  \/ WriteRow

LEMMA TypeParts == TypeOK <=> FilesType /\ RunType
  BY DEF TypeOK, FilesType, RunType

LEMMA FilesStep == FilesType /\ Naming => FilesType'
<1> SUFFICES ASSUME FilesType, Naming PROVE FilesType'
  OBVIOUS
<1> USE DEF FilesType
<1>1. ASSUME NEW s \in Claude, NEW kind \in {"custom-title", "agent-name"},
             NEW n \in Names \cup {NoName}, NameClaude(s, kind, n)
      PROVE  FilesType'
  <2>1. [kind |-> kind, name |-> n] \in Lines
    BY DEF Lines
  <2>2. log' \in [Claude -> Seq(Lines)]
    BY <1>1, <2>1 DEF NameClaude
  <2>3. title' \in [Sessions -> Names \cup {NoName}] /\ agentName' \in [Claude -> Names \cup {NoName}]
    BY <1>1 DEF NameClaude
  <2> QED BY <1>1, <2>2, <2>3, EventsAssumption DEF NameClaude, Happens
<1>2. ASSUME NEW s \in Claude, NEW kind \in {"cut", "bytes"}, DamageClaude(s, kind)
      PROVE  FilesType'
  <2>1. [kind |-> kind, name |-> NoName] \in Lines
    BY DEF Lines
  <2>2. log' \in [Claude -> Seq(Lines)]
    BY <1>2, <2>1 DEF DamageClaude
  <2> QED BY <1>2, <2>2, EventsAssumption DEF DamageClaude, Happens
<1>3. ASSUME NEW s \in Codex, LoseRollout(s)  PROVE FilesType'
  BY <1>3, EventsAssumption DEF LoseRollout, Happens
<1>4. ASSUME NEW s \in Codex, NEW n \in Names, NameCodex(s, n)  PROVE FilesType'
  <2>1. [id |-> s, name |-> n, at |-> clock] \in Rows
    BY <1>4, EventsAssumption DEF NameCodex, Happens, Rows
  <2>2. title' \in [Sessions -> Names \cup {NoName}]
    BY <1>4 DEF NameCodex
  <2> QED BY <1>4, <2>1, <2>2, EventsAssumption DEF NameCodex, Happens
<1>5. ASSUME NEW s \in Opencode, NEW n \in Names, NameOpencode(s, n)  PROVE FilesType'
  <2>1. title' \in [Sessions -> Names \cup {NoName}]
    BY <1>5 DEF NameOpencode
  <2> QED BY <1>5, <2>1, EventsAssumption DEF NameOpencode, Happens
<1>6. CASE WriteRow
  <2>1. UNCHANGED <<log, rollouts, title, agentName, clock>>
    BY <1>6 DEF WriteRow
  <2>2. CASE torn' = TRUE /\ UNCHANGED <<index, unwritten>>
    BY <2>1, <2>2
  <2>3. ASSUME NEW row \in unwritten, index' = Append(index, row),
               unwritten' = unwritten \ {row}, torn' = FALSE
        PROVE  FilesType'
    <3>1. index' \in Seq(Rows)
      BY <2>3
    <3> QED BY <2>1, <2>3, <3>1
  <2> QED BY <1>6, <2>2, <2>3 DEF WriteRow
<1> QED BY <1>1, <1>2, <1>3, <1>4, <1>5, <1>6 DEF Naming

\* Naming leaves the run alone, and the run leaves the files alone.
LEMMA NamingOrRun ==
  ASSUME [Next]_vars
  PROVE  \/ Naming /\ UNCHANGED runVars
         \/ UNCHANGED vars
         \/ /\ UNCHANGED providerVars
            /\ ValidateInputs \/ \E r \in Roles : DiscoverUnreadable(r) \/ DiscoverNoOne(r) \/ Discover(r)
<1>1. Naming => UNCHANGED runVars
  BY DEF Naming, NameClaude, DamageClaude, LoseRollout, NameCodex, NameOpencode, WriteRow, Happens,
         runVars
<1>2. CASE ValidateInputs
  BY <1>2 DEF ValidateInputs
<1>3. ASSUME NEW r \in Roles, DiscoverUnreadable(r) \/ DiscoverNoOne(r) \/ Discover(r)
      PROVE  UNCHANGED providerVars
  <2>1. CASE DiscoverUnreadable(r)
    BY <2>1 DEF DiscoverUnreadable
  <2>2. CASE DiscoverNoOne(r)
    BY <2>2 DEF DiscoverNoOne
  <2>3. CASE Discover(r)
    BY <2>3 DEF Discover
  <2> QED BY <1>3, <2>1, <2>2, <2>3
<1> QED BY <1>1, <1>2, <1>3 DEF Next, Naming, Done

LEMMA RunTypeStep ==
  ASSUME BoundInv, RunType,
         ValidateInputs \/ \E r \in Roles : DiscoverUnreadable(r) \/ DiscoverNoOne(r) \/ Discover(r)
  PROVE  RunType'
<1>1. ASSUME UNCHANGED <<task, bound>>, phase' = "failed", why' \in Reasons \ {"none"}
      PROVE  RunType'
  BY <1>1 DEF RunType
<1>2. CASE ValidateInputs
  <2>1. CASE task["executor"] = task["reviewer"]
    BY <1>1, <1>2, <2>1 DEF ValidateInputs, Fail, Reasons
  <2>2. CASE task["executor"] # task["reviewer"]
    BY <1>2, <2>2 DEF ValidateInputs, RunType, Roles
  <2> QED BY <2>1, <2>2
<1>3. ASSUME NEW r \in Roles, DiscoverUnreadable(r)  PROVE RunType'
  BY <1>1, <1>3 DEF DiscoverUnreadable, Fail, Reasons
<1>4. ASSUME NEW r \in Roles, DiscoverNoOne(r)  PROVE RunType'
  BY <1>1, <1>4 DEF DiscoverNoOne, Fail, Reasons
<1>5. ASSUME NEW r \in Roles, Discover(r)  PROVE RunType'
  <2>1. PICK s \in Candidates(task[r].provider, task[r].name) :
          IF r = "reviewer" /\ ~RolesDiffer(s)
          THEN Fail("sameSession")
          ELSE /\ bound' = [bound EXCEPT ![r] = s]
               /\ phase' = IF r = "executor" THEN "reviewer" ELSE "bound"
               /\ UNCHANGED <<task, why>>
    BY <1>5 DEF Discover
  <2>2. task[r].provider \in Providers /\ phase = r
    BY <1>5 DEF Discover, BoundInv
  <2>3. s \in SessionsOf(task[r].provider) /\ s \in Sessions
    BY <2>2, SessionsOfProvider DEF Candidates
  <2>4. CASE r = "reviewer" /\ ~RolesDiffer(s)
    BY <1>1, <2>1, <2>4 DEF Fail, Reasons
  <2>5. CASE ~(r = "reviewer" /\ ~RolesDiffer(s))
    <3>1. /\ bound' = [bound EXCEPT ![r] = s]
          /\ phase' = IF r = "executor" THEN "reviewer" ELSE "bound"
          /\ UNCHANGED <<task, why>>
      BY <2>1, <2>5
    <3>2. \A q \in Roles : bound'[q] = IF q = r THEN s ELSE bound[q]
      BY <3>1 DEF BoundInv
    <3>3. r = "reviewer" => bound["executor"] \in Sessions
      BY <2>2, SessionsOfProvider DEF BoundInv, Roles
    <3>4. phase' = "bound" => \A q \in Roles : bound'[q] # NoSession
      BY <2>3, <3>1, <3>2, <3>3, SessionsAssumption DEF Roles
    <3>5. \A q \in Roles : bound'[q] \in SessionsOf(task'[q].provider) \cup {NoSession}
      BY <2>3, <3>1, <3>2 DEF RunType
    <3>6. phase' \in {"reviewer", "bound"} /\ why = "none"
      BY <2>2, <3>1 DEF RunType, Roles
    <3> QED BY <3>1, <3>4, <3>5, <3>6 DEF RunType, Roles
  <2> QED BY <2>4, <2>5
<1> QED BY <1>2, <1>3, <1>4, <1>5

\* Type correctness: a bound run has a session of the right provider for each
\* role, and a failed one has its reason.
THEOREM TypeCorrect == Spec => []TypeOK
<1>1. Init => TypeOK /\ BoundInv
  <2> SUFFICES ASSUME Init PROVE TypeOK /\ BoundInv
    OBVIOUS
  <2>1. FilesType
    <3>1. log \in [Claude -> Seq(Lines)] /\ index \in Seq(Rows)
      BY DEF Init
    <3>2. /\ title \in [Sessions -> Names \cup {NoName}]
          /\ agentName \in [Claude -> Names \cup {NoName}]
      BY DEF Init
    <3>3. /\ unwritten \subseteq Rows /\ torn \in BOOLEAN /\ rollouts \subseteq Codex
          /\ clock \in 0..MaxEvents
      <4>1. unwritten = {} /\ torn = FALSE /\ rollouts = Codex /\ clock = 0
        BY DEF Init
      <4>2. 0 \in 0..MaxEvents
        BY EventsAssumption
      <4> QED BY <4>1, <4>2
    <3> QED BY <3>1, <3>2, <3>3 DEF FilesType
  <2>2. RunType /\ BoundInv
    BY DEF Init, RunType, BoundInv, Roles, Reasons
  <2> QED BY <2>1, <2>2, TypeParts
<1>2. TypeOK /\ BoundInv /\ [Next]_vars => TypeOK' /\ BoundInv'
  <2> SUFFICES ASSUME TypeOK, BoundInv, [Next]_vars PROVE TypeOK'
    BY BoundStep
  <2>1. FilesType /\ RunType
    BY TypeParts
  <2>2. CASE Naming /\ UNCHANGED runVars
    <3>1. RunType'
      BY <2>1, <2>2 DEF RunType, runVars
    <3> QED BY <2>1, <2>2, <3>1, FilesStep DEF TypeOK, FilesType, RunType
  <2>3. CASE UNCHANGED vars
    BY <2>3 DEF vars, TypeOK
  <2>4. CASE /\ UNCHANGED providerVars
             /\ ValidateInputs \/ \E r \in Roles : DiscoverUnreadable(r) \/ DiscoverNoOne(r) \/ Discover(r)
    <3>1. FilesType'
      BY <2>1, <2>4 DEF FilesType, providerVars
    <3> QED BY <2>1, <2>4, <3>1, RunTypeStep DEF TypeOK, FilesType, RunType
  <2> QED BY <2>2, <2>3, <2>4, NamingOrRun
<1> QED BY <1>1, <1>2, PTL DEF Spec

-----------------------------------------------------------------------------
(***************************************************************************)
(* What is read are the names that were given.                             *)
(***************************************************************************)

\* The rows of a Codex session, in the index or on their way.
Recorded(s) == {row \in unwritten \cup {index[i] : i \in DOMAIN index} : row.id = s}

\* n is the name in the last line of a kind.
Stands(lines, kind, n) ==
  \/ n = NoName /\ \A i \in DOMAIN lines : lines[i].kind # kind
  \/ \E i \in DOMAIN lines :
       /\ lines[i].kind = kind /\ lines[i].name = n
       /\ \A j \in DOMAIN lines : lines[j].kind = kind => j <= i

\* n is the name in the latest of a set of rows.
IsLatest(rows, n) ==
  \/ rows = {} /\ n = NoName
  \/ \E row \in rows : /\ row.name = n
                       /\ \A other \in rows : other = row \/ row.at > other.at

\* The names a Claude session has stand in its log, and the latest row of a
\* Codex session has its title; rows are stamped before now.
NamesInv ==
  /\ \A s \in Claude : /\ Stands(log[s], "custom-title", title[s])
                      /\ Stands(log[s], "agent-name", agentName[s])
  /\ \A s \in Codex : IsLatest(Recorded(s), title[s])
  /\ \A s \in Codex : \A row \in Recorded(s) : row.at < clock

\* A line that is appended takes the place of the last of its kind.
LEMMA AppendStands ==
  ASSUME NEW lines \in Seq(Lines), NEW line \in Lines, NEW kind, NEW n, Stands(lines, kind, n)
  PROVE  Stands(Append(lines, line), kind, IF line.kind = kind THEN line.name ELSE n)
<1> DEFINE new == Append(lines, line)
<1>1. /\ DOMAIN lines = 1..Len(lines) /\ Len(lines) \in Nat
      /\ DOMAIN new = 1..Len(lines) + 1
      /\ new[Len(lines) + 1] = line
      /\ \A i \in 1..Len(lines) : new[i] = lines[i]
  OBVIOUS
<1> HIDE DEF new
<1>2. CASE line.kind = kind
  <2>1. Len(lines) + 1 \in DOMAIN new /\ \A j \in DOMAIN new : j <= Len(lines) + 1
    BY <1>1
  <2> QED BY <1>1, <1>2, <2>1 DEF Stands, new
<1>3. CASE line.kind # kind /\ n = NoName /\ \A i \in DOMAIN lines : lines[i].kind # kind
  <2>1. \A i \in DOMAIN new : new[i].kind # kind
    BY <1>1, <1>3
  <2> QED BY <1>3, <2>1 DEF Stands, new
<1>4. ASSUME line.kind # kind, NEW i \in DOMAIN lines, lines[i].kind = kind, lines[i].name = n,
             \A j \in DOMAIN lines : lines[j].kind = kind => j <= i
      PROVE  Stands(new, kind, n)
  <2>1. i \in DOMAIN new /\ new[i] = lines[i]
    BY <1>1
  <2>2. \A j \in DOMAIN new : new[j].kind = kind => j <= i
    BY <1>1, <1>4
  <2> QED BY <1>4, <2>1, <2>2 DEF Stands
<1> QED BY <1>2, <1>3, <1>4 DEF Stands, new

\* The name that stands is the one that is read.
LEMMA LastNamedStands ==
  ASSUME NEW s \in Claude, log[s] \in Seq(Lines), NEW kind, NEW n, Stands(log[s], kind, n)
  PROVE  LastNamed(s, kind) = n
<1> DEFINE at == {i \in DOMAIN log[s] : log[s][i].kind = kind}
<1>1. LastNamed(s, kind) = IF at = {} THEN NoName ELSE log[s][Max(at)].name
  BY Zenon DEF LastNamed
<1>2. CASE n = NoName /\ \A i \in DOMAIN log[s] : log[s][i].kind # kind
  BY <1>1, <1>2
<1>3. ASSUME NEW i \in DOMAIN log[s], log[s][i].kind = kind, log[s][i].name = n,
             \A j \in DOMAIN log[s] : log[s][j].kind = kind => j <= i
      PROVE  LastNamed(s, kind) = n
  <2>1. i \in at /\ (\A j \in at : i >= j) /\ at \subseteq Nat
    BY <1>3
  <2> HIDE DEF at
  <2>2. Max(at) \in at /\ \A j \in at : Max(at) >= j
    BY <2>1 DEF Max
  <2>3. Max(at) = i
    <3>1. Max(at) \in Nat /\ i \in Nat /\ i >= Max(at) /\ Max(at) >= i
      BY <2>1, <2>2
    <3> QED BY <3>1
  <2> QED BY <1>1, <1>3, <2>1, <2>3
<1> QED BY <1>2, <1>3 DEF Stands

\* So is the one in the latest row, once every row is in the index.
LEMMA LatestNameStands ==
  ASSUME NEW s \in Codex, index \in Seq(Rows), unwritten = {}, NEW n, IsLatest(Recorded(s), n)
  PROVE  LatestName(s) = n
<1> DEFINE rows == {index[i] : i \in {j \in DOMAIN index : index[j].id = s}}
<1>1. Recorded(s) = rows /\ \A row \in rows : row.at \in Nat
  <2>1. \A i \in DOMAIN index : index[i] \in Rows
    OBVIOUS
  <2>3. \A row \in Rows : row.at \in Nat
    BY DEF Rows
  <2>2. Recorded(s) = {row \in {index[i] : i \in DOMAIN index} : row.id = s}
    BY DEF Recorded
  <2> QED BY <2>1, <2>2, <2>3
<1>2. LatestName(s) = IF rows = {} THEN NoName
                      ELSE (CHOOSE row \in rows : \A other \in rows : row.at >= other.at).name
  BY Zenon DEF LatestName
<1> HIDE DEF rows
<1>3. CASE rows = {} /\ n = NoName
  BY <1>2, <1>3
<1>4. ASSUME NEW row \in rows, row.name = n,
             \A other \in rows : other = row \/ row.at > other.at
      PROVE  LatestName(s) = n
  <2> DEFINE chosen == CHOOSE r \in rows : \A other \in rows : r.at >= other.at
  <2>1. \A other \in rows : row.at >= other.at
    BY <1>1, <1>4
  <2>2. chosen \in rows /\ \A other \in rows : chosen.at >= other.at
    BY <2>1
  <2>3. chosen = row
    BY <1>1, <1>4, <2>2
  <2> QED BY <1>2, <1>4, <2>3
<1> QED BY <1>1, <1>3, <1>4 DEF IsLatest

\* What a search reads are the names the sessions go by.
LEMMA NamesAreRead ==
  ASSUME TypeOK, NamesInv, Settled, NEW s \in Sessions
  PROVE  ReadName(s) = GoesBy(s)
<1>1. CASE s \in Claude
  <2>1. LastNamed(s, "custom-title") = title[s] /\ LastNamed(s, "agent-name") = agentName[s]
    BY <1>1, LastNamedStands DEF NamesInv, TypeOK
  <2>2. ReadName(s) = EffectiveTitle(s)
    BY <1>1, ProvidersAssumption, Zenon DEF ReadName
  <2> QED BY <1>1, <2>1, <2>2 DEF EffectiveTitle, GoesBy
<1>2. CASE s \in Codex
  <2>1. LatestName(s) = title[s]
    BY <1>2, LatestNameStands DEF NamesInv, TypeOK, Settled
  <2>2. s \notin Claude /\ s \notin Opencode
    BY <1>2, ProvidersAssumption
  <2>3. ReadName(s) = LatestName(s)
    BY <1>2, <2>2, Zenon DEF ReadName
  <2> QED BY <2>1, <2>2, <2>3 DEF GoesBy
<1>3. CASE s \in Opencode
  <2>1. s \notin Claude /\ s \notin Codex
    BY <1>3, ProvidersAssumption
  <2>2. ReadName(s) = title[s]
    BY <1>3, <2>1, Zenon DEF ReadName
  <2> QED BY <2>1, <2>2 DEF GoesBy
<1> QED BY <1>1, <1>2, <1>3 DEF Sessions

\* A step that leaves the logs, the rows and the names alone keeps NamesInv.
LEMMA NamesUnchanged ==
  ASSUME NamesInv, UNCHANGED <<log, index, unwritten, title, agentName, clock>>
  PROVE  NamesInv'
  BY DEF NamesInv, Recorded, Stands, IsLatest

\* A line goes to the end of a Claude log and the name with it.
LEMMA ClaudeNames ==
  ASSUME TypeOK, NamesInv, NEW s \in Claude, NEW line \in Lines,
         log' = [log EXCEPT ![s] = Append(@, line)],
         title' = IF line.kind = "custom-title" THEN [title EXCEPT ![s] = line.name] ELSE title,
         agentName' = IF line.kind = "agent-name" THEN [agentName EXCEPT ![s] = line.name]
                                                  ELSE agentName,
         UNCHANGED <<index, unwritten>>, clock' = clock + 1
  PROVE  NamesInv'
<1>1. ASSUME NEW q \in Claude
      PROVE  Stands(log'[q], "custom-title", title'[q]) /\ Stands(log'[q], "agent-name", agentName'[q])
  <2>1. log[q] \in Seq(Lines) /\ q \in Sessions
    BY DEF TypeOK, Sessions
  <2>2. Stands(log[q], "custom-title", title[q]) /\ Stands(log[q], "agent-name", agentName[q])
    BY DEF NamesInv
  <2>3. CASE q = s
    <3>1. log'[q] = Append(log[q], line)
      BY <2>3 DEF TypeOK
    <3>2. title'[q] = IF line.kind = "custom-title" THEN line.name ELSE title[q]
      BY <2>1, <2>3 DEF TypeOK
    <3>3. agentName'[q] = IF line.kind = "agent-name" THEN line.name ELSE agentName[q]
      BY <2>3 DEF TypeOK
    <3> QED BY <2>1, <2>2, <3>1, <3>2, <3>3, AppendStands
  <2>4. CASE q # s
    <3>1. log'[q] = log[q] /\ title'[q] = title[q] /\ agentName'[q] = agentName[q]
      BY <2>1, <2>4 DEF TypeOK
    <3> QED BY <2>2, <3>1
  <2> QED BY <2>3, <2>4
<1>2. ASSUME NEW q \in Codex
      PROVE  IsLatest(Recorded(q), title[q])' /\ \A row \in Recorded(q)' : row.at < clock'
  <2>1. title'[q] = title[q]
    BY ProvidersAssumption DEF TypeOK, Sessions
  <2>2. Recorded(q)' = Recorded(q)
    BY DEF Recorded
  <2>3. IsLatest(Recorded(q), title[q]) /\ \A row \in Recorded(q) : row.at < clock
    BY DEF NamesInv
  <2>4. \A row \in Recorded(q) : row.at \in Nat
    <3>1. \A row \in Rows : row.at \in Nat
      BY DEF Rows
    <3>2. Recorded(q) \subseteq Rows
      BY DEF Recorded, TypeOK
    <3> QED BY <3>1, <3>2
  <2>5. clock \in Nat
    BY DEF TypeOK
  <2>6. \A row \in Recorded(q) : row.at < clock'
    BY <2>3, <2>4, <2>5
  <2> QED BY <2>1, <2>2, <2>3, <2>6 DEF IsLatest
<1> QED BY <1>1, <1>2 DEF NamesInv

\* A Codex session that is named gets a row that is later than its others.
LEMMA CodexNames ==
  ASSUME TypeOK, NamesInv, NEW s \in Codex, NEW n \in Names, NameCodex(s, n)
  PROVE  NamesInv'
<1> DEFINE new == [id |-> s, name |-> n, at |-> clock]
<1>1. /\ UNCHANGED <<log, index, agentName>> /\ clock' = clock + 1 /\ clock \in Nat
      /\ unwritten' = unwritten \cup {new}
      /\ title' = [title EXCEPT ![s] = n]
  BY DEF NameCodex, Happens, TypeOK
<1>2. ASSUME NEW q \in Claude
      PROVE  Stands(log'[q], "custom-title", title'[q]) /\ Stands(log'[q], "agent-name", agentName'[q])
  <2>1. title'[q] = title[q]
    BY <1>1, ProvidersAssumption DEF TypeOK, Sessions
  <2> QED BY <1>1, <2>1 DEF NamesInv
<1>3. ASSUME NEW q \in Codex
      PROVE  IsLatest(Recorded(q), title[q])' /\ \A row \in Recorded(q)' : row.at < clock'
  <2>1. IsLatest(Recorded(q), title[q]) /\ \A row \in Recorded(q) : row.at < clock
    BY DEF NamesInv
  <2>2. \A row \in Recorded(q) : row.at \in Nat
    <3>1. \A row \in Rows : row.at \in Nat
      BY DEF Rows
    <3>2. Recorded(q) \subseteq Rows
      BY DEF Recorded, TypeOK
    <3> QED BY <3>1, <3>2
  <2>3. CASE q = s
    <3>1. Recorded(q)' = Recorded(q) \cup {new}
      BY <1>1, <2>3 DEF Recorded
    <3>2. title'[q] = n
      BY <1>1, <2>3 DEF TypeOK, Sessions
    <3>3. \A row \in Recorded(q) : new.at > row.at
      BY <1>1, <2>1, <2>2
    <3>4. \A row \in Recorded(q)' : row.at < clock'
      BY <1>1, <2>1, <2>2, <3>1
    <3>5. new \in Recorded(q)' /\ new.name = n /\ \A other \in Recorded(q)' : other = new \/ new.at > other.at
      BY <3>1, <3>3
    <3> QED BY <3>2, <3>4, <3>5 DEF IsLatest
  <2>4. CASE q # s
    <3>1. Recorded(q)' = Recorded(q)
      BY <1>1, <2>4 DEF Recorded
    <3>2. title'[q] = title[q]
      BY <1>1, <2>4 DEF TypeOK, Sessions
    <3>3. \A row \in Recorded(q) : row.at < clock'
      BY <1>1, <2>1, <2>2
    <3> QED BY <2>1, <3>1, <3>2, <3>3 DEF IsLatest
  <2> QED BY <2>3, <2>4
<1> QED BY <1>2, <1>3 DEF NamesInv

\* A row is as much recorded on its way as in the index.
LEMMA WrittenRow ==
  ASSUME TypeOK, NamesInv, WriteRow
  PROVE  NamesInv'
<1>1. UNCHANGED <<log, title, agentName, clock>>
  BY DEF WriteRow
<1>2. CASE UNCHANGED <<index, unwritten>>
  BY <1>1, <1>2, NamesUnchanged
<1>3. ASSUME NEW row \in unwritten, index' = Append(index, row), unwritten' = unwritten \ {row}
      PROVE  NamesInv'
  <2>1. row \in Rows /\ index \in Seq(Rows)
    BY <1>3 DEF TypeOK
  <2>2. {index'[i] : i \in DOMAIN index'} = {index[i] : i \in DOMAIN index} \cup {row}
    <3>1. /\ DOMAIN index = 1..Len(index) /\ Len(index) \in Nat
          /\ DOMAIN index' = 1..Len(index) + 1
          /\ index'[Len(index) + 1] = row
          /\ \A i \in 1..Len(index) : index'[i] = index[i]
      BY <1>3, <2>1
    <3>2. \A i \in DOMAIN index' : i = Len(index) + 1 \/ i \in DOMAIN index
      BY <3>1
    <3>3. Len(index) + 1 \in DOMAIN index' /\ DOMAIN index \subseteq DOMAIN index'
      BY <3>1
    <3> QED BY <3>1, <3>2, <3>3
  <2>3. \A q \in Codex : Recorded(q)' = Recorded(q)
    BY <1>3, <2>2 DEF Recorded
  <2> QED BY <1>1, <2>3 DEF NamesInv, Stands, IsLatest
<1> QED BY <1>2, <1>3 DEF WriteRow

\* Time that passes, and names of OpenCode sessions, keep NamesInv.
LEMMA Later ==
  ASSUME TypeOK, NamesInv, UNCHANGED <<log, index, unwritten, agentName>>, clock' = clock + 1,
         \A q \in Claude \cup Codex : title'[q] = title[q]
  PROVE  NamesInv'
<1>1. ASSUME NEW q \in Codex  PROVE \A row \in Recorded(q) : row.at < clock'
  <2>1. \A row \in Rows : row.at \in Nat
    BY DEF Rows
  <2>2. Recorded(q) \subseteq Rows /\ clock \in Nat
    BY DEF Recorded, TypeOK
  <2>3. \A row \in Recorded(q) : row.at < clock
    BY DEF NamesInv
  <2> QED BY <2>1, <2>2, <2>3
<1>2. \A q \in Codex : Recorded(q)' = Recorded(q)
  BY DEF Recorded
<1>3. \A q \in Claude : title'[q] = title[q]
  OBVIOUS
<1>4. \A q \in Codex : title'[q] = title[q]
  OBVIOUS
<1> QED BY <1>1, <1>2, <1>3, <1>4 DEF NamesInv, IsLatest

LEMMA NamesStep == TypeOK /\ NamesInv /\ [Next]_vars => NamesInv'
<1> SUFFICES ASSUME TypeOK, NamesInv, [Next]_vars PROVE NamesInv'
  OBVIOUS
<1>1. ASSUME NEW s \in Claude, NEW kind \in {"custom-title", "agent-name"},
             NEW n \in Names \cup {NoName}, NameClaude(s, kind, n)
      PROVE  NamesInv'
  <2> DEFINE line == [kind |-> kind, name |-> n]
  <2>1. line \in Lines
    BY DEF Lines
  <2>2. /\ log' = [log EXCEPT ![s] = Append(@, line)]
        /\ title' = IF line.kind = "custom-title" THEN [title EXCEPT ![s] = line.name] ELSE title
        /\ agentName' = IF line.kind = "agent-name" THEN [agentName EXCEPT ![s] = line.name]
                                                    ELSE agentName
        /\ UNCHANGED <<index, unwritten>> /\ clock' = clock + 1
    BY <1>1 DEF NameClaude, Happens
  <2> HIDE DEF line
  <2> QED BY <2>1, <2>2, ClaudeNames
<1>2. ASSUME NEW s \in Claude, NEW kind \in {"cut", "bytes"}, DamageClaude(s, kind)
      PROVE  NamesInv'
  <2> DEFINE line == [kind |-> kind, name |-> NoName]
  <2>1. line \in Lines
    BY DEF Lines
  <2>2. /\ log' = [log EXCEPT ![s] = Append(@, line)]
        /\ title' = IF line.kind = "custom-title" THEN [title EXCEPT ![s] = line.name] ELSE title
        /\ agentName' = IF line.kind = "agent-name" THEN [agentName EXCEPT ![s] = line.name]
                                                    ELSE agentName
        /\ UNCHANGED <<index, unwritten>> /\ clock' = clock + 1
    BY <1>2 DEF DamageClaude, Happens
  <2> HIDE DEF line
  <2> QED BY <2>1, <2>2, ClaudeNames
<1>3. ASSUME NEW s \in Codex, LoseRollout(s)  PROVE NamesInv'
  <2>1. UNCHANGED <<log, index, unwritten, title, agentName>> /\ clock' = clock + 1 /\ clock \in Nat
    BY <1>3 DEF LoseRollout, Happens, TypeOK
  <2> QED BY <2>1, Later
<1>4. ASSUME NEW s \in Opencode, NEW n \in Names, NameOpencode(s, n)  PROVE NamesInv'
  <2>1. /\ UNCHANGED <<log, index, unwritten, agentName>> /\ clock' = clock + 1
        /\ \A q \in Claude \cup Codex : title'[q] = title[q]
    BY <1>4, ProvidersAssumption DEF NameOpencode, Happens, TypeOK, Sessions
  <2> QED BY <2>1, Later
<1>5. CASE UNCHANGED providerVars
  BY <1>5, NamesUnchanged DEF providerVars
<1> QED BY <1>1, <1>2, <1>3, <1>4, <1>5, CodexNames, WrittenRow, NamingOrRun
        DEF Naming, vars, providerVars

LEMMA NamesTrue == Spec => [](TypeOK /\ BoundInv /\ NamesInv)
<1>1. Init => NamesInv
  <2> SUFFICES ASSUME Init PROVE NamesInv
    OBVIOUS
  <2>1. \A q \in Claude : log[q] = <<>> /\ title[q] = NoName /\ agentName[q] = NoName
    BY DEF Init, Sessions
  <2>2. \A q \in Codex : Recorded(q) = {} /\ title[q] = NoName
    BY DEF Init, Recorded, Sessions
  <2> QED BY <2>1, <2>2 DEF NamesInv, Stands, IsLatest
<1>2. Init => BoundInv
  BY DEF Init, BoundInv, Roles
<1> QED BY <1>1, <1>2, TypeCorrect, BoundStep, NamesStep, PTL DEF Spec

\* The candidates of a search are the sessions that go by the name.
LEMMA CandidatesAreCalled ==
  ASSUME TypeOK, NamesInv, Settled, NEW r \in Roles
  PROVE  Candidates(task[r].provider, task[r].name) = Called(r)
<1>1. task[r].provider \in Providers
  BY DEF TypeOK
<1>2. \A s \in SessionsOf(task[r].provider) : s \in Sessions
  BY <1>1, SessionsOfProvider
<1>3. \A s \in SessionsOf(task[r].provider) : ReadName(s) = GoesBy(s)
  BY <1>2, NamesAreRead
<1> QED BY <1>3 DEF Candidates, Called

\* Only Discover binds, and only the role whose turn it is.
LEMMA DiscoverBinds ==
  ASSUME TypeOK, BoundInv, [Next]_vars, NEW r \in Roles, bound'[r] # bound[r]
  PROVE  Candidates(task[r].provider, task[r].name) = {bound'[r]}
<1>1. bound' # bound
  OBVIOUS
<1>2. ASSUME NEW q \in Roles, Discover(q)
      PROVE  Candidates(task[r].provider, task[r].name) = {bound'[r]}
  <2>1. PICK s \in Candidates(task[q].provider, task[q].name) :
          /\ Candidates(task[q].provider, task[q].name) = {s}
          /\ IF q = "reviewer" /\ ~RolesDiffer(s)
             THEN Fail("sameSession")
             ELSE /\ bound' = [bound EXCEPT ![q] = s]
                  /\ phase' = IF q = "executor" THEN "reviewer" ELSE "bound"
                  /\ UNCHANGED <<task, why>>
    BY <1>2 DEF Discover
  <2>2. bound' = [bound EXCEPT ![q] = s]
    BY <1>1, <2>1 DEF Fail
  <2>3. r = q /\ bound'[q] = s
    BY <2>2 DEF BoundInv
  <2> QED BY <2>1, <2>3
<1>3. Naming => UNCHANGED runVars
  BY DEF Naming, NameClaude, DamageClaude, LoseRollout, NameCodex, NameOpencode, WriteRow, Happens,
         runVars
<1>4. ValidateInputs => bound' = bound
  BY DEF ValidateInputs, Fail
<1>5. \A q \in Roles : DiscoverUnreadable(q) \/ DiscoverNoOne(q) => bound' = bound
  BY DEF DiscoverUnreadable, DiscoverNoOne, Fail
<1> QED BY <1>1, <1>2, <1>3, <1>4, <1>5, NamingOrRun DEF vars, runVars

\* A role is bound to the one session of the workspace that goes by its name:
\* earlier names, the order of the Codex rows and damaged lines do not matter.
THEOREM TheNamedIsBound == Spec => BindsTheNamed
<1>1. TypeOK /\ BoundInv /\ NamesInv /\ [Next]_vars
        => [\A r \in Roles : bound'[r] # bound[r] /\ Settled => Called(r) = {bound'[r]}]_vars
  BY CandidatesAreCalled, DiscoverBinds
<1> QED BY <1>1, NamesTrue, PTL DEF Spec, BindsTheNamed

\* "No session has this name" and "several have" are said only when it is so.
THEOREM RefusalsAreTrue == Spec => RefusalIsTrue
<1>1. TypeOK /\ BoundInv /\ NamesInv /\ [Next]_vars
        => [/\ why' = "noMatch" /\ why = "none" /\ Settled => Called(phase) = {}
            /\ why' = "ambiguous" /\ why = "none" /\ Settled => Cardinality(Called(phase)) > 1]_vars
  <2> SUFFICES ASSUME TypeOK, BoundInv, NamesInv, [Next]_vars, why = "none", Settled,
                      why' \in {"noMatch", "ambiguous"}
               PROVE  /\ why' = "noMatch" => Called(phase) = {}
                      /\ why' = "ambiguous" => Cardinality(Called(phase)) > 1
    OBVIOUS
  <2>1. ASSUME NEW r \in Roles, DiscoverNoOne(r)
        PROVE  /\ why' = "noMatch" => Called(phase) = {}
               /\ why' = "ambiguous" => Cardinality(Called(phase)) > 1
    <3>1. Candidates(task[r].provider, task[r].name) = Called(r)
      BY CandidatesAreCalled
    <3>2. /\ phase = r
          /\ Cardinality(Called(r)) # 1
          /\ why' = IF Called(r) = {} THEN "noMatch" ELSE "ambiguous"
      BY <2>1, <3>1 DEF DiscoverNoOne, Fail
    <3>3. IsFiniteSet(Called(r))
      <4>1. task[r].provider \in Providers
        BY DEF TypeOK
      <4>2. Called(r) \subseteq Sessions
        BY <4>1, SessionsOfProvider DEF Called
      <4> QED BY <4>2, SessionsAssumption, FS_Subset
    <3>4. Called(r) # {} => Cardinality(Called(r)) > 1
      BY <3>2, <3>3, FS_CardinalityType, FS_EmptySet
    <3> QED BY <3>2, <3>4
  <2>2. Naming => why' = why
    BY DEF Naming, NameClaude, DamageClaude, LoseRollout, NameCodex, NameOpencode, WriteRow,
           Happens, runVars
  <2>3. ValidateInputs => why' \in {why, "input"}
    BY DEF ValidateInputs, Fail
  <2>4. \A r \in Roles : DiscoverUnreadable(r) => why' = "unreadable"
    BY DEF DiscoverUnreadable, Fail
  <2>5. \A r \in Roles : Discover(r) => why' \in {why, "sameSession"}
    BY DEF Discover, Fail
  <2> QED BY <2>1, <2>2, <2>3, <2>4, <2>5, NamingOrRun DEF vars
<1> QED BY <1>1, NamesTrue, PTL DEF Spec, RefusalIsTrue
=============================================================================
