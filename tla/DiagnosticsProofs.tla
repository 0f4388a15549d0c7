-------------------------- MODULE DiagnosticsProofs --------------------------
(***************************************************************************)
(* What holds of the diagnostics of an attempt for all bounds and all      *)
(* lengths of the tails that are read: a run is only stopped for a cap of  *)
(* its own, and the last words of a process are heard.                     *)
(***************************************************************************)
EXTENDS Diagnostics, TLAPS

-----------------------------------------------------------------------------
(***************************************************************************)
(* Tails.                                                                  *)
(***************************************************************************)

\* A tail has nothing but what was written, and it has the last line.
LEMMA TailIsOfTheFile ==
  ASSUME NEW S, NEW s \in Seq(S), NEW n \in Nat \ {0}
  PROVE  /\ ToSet(TailOf(s, n)) \subseteq ToSet(s)
         /\ s # <<>> => Last(s) \in ToSet(TailOf(s, n))
<1> DEFINE first == IF Len(s) < n THEN 1 ELSE Len(s) - n + 1
<1>1. first \in Nat /\ 1 <= first /\ first <= Len(s) + 1 /\ (Len(s) > 0 => first <= Len(s))
  OBVIOUS
<1>2. TailOf(s, n) = SubSeq(s, first, Len(s))
  BY DEF TailOf
<1> HIDE DEF first
<1>3. /\ DOMAIN SubSeq(s, first, Len(s)) = 1..(Len(s) - first + 1)
      /\ \A i \in 1..(Len(s) - first + 1) : SubSeq(s, first, Len(s))[i] = s[i + first - 1]
  BY <1>1
<1>4. \A i \in 1..(Len(s) - first + 1) : i + first - 1 \in DOMAIN s
  BY <1>1
<1>5. ToSet(TailOf(s, n)) \subseteq ToSet(s)
  BY <1>2, <1>3, <1>4 DEF ToSet
<1>6. ASSUME s # <<>>  PROVE Last(s) \in ToSet(TailOf(s, n))
  <2>1. Len(s) > 0
    BY <1>6
  <2>2. Len(s) - first + 1 \in 1..(Len(s) - first + 1)
    BY <1>1, <2>1
  <2>3. SubSeq(s, first, Len(s))[Len(s) - first + 1] = s[Len(s)]
    <3>1. SubSeq(s, first, Len(s))[Len(s) - first + 1] = s[(Len(s) - first + 1) + first - 1]
      BY <1>3, <2>2
    <3>2. (Len(s) - first + 1) + first - 1 = Len(s)
      BY <1>1
    <3> QED BY <3>1, <3>2
  <2> QED BY <1>2, <1>3, <2>2, <2>3 DEF ToSet, Last
<1> QED BY <1>5, <1>6

\* Another line at the end of a file.
LEMMA AppendedSet ==
  ASSUME NEW S, NEW s \in Seq(S), NEW x
  PROVE  ToSet(Append(s, x)) = ToSet(s) \cup {x}
<1>1. /\ DOMAIN s = 1..Len(s) /\ Len(s) \in Nat
      /\ DOMAIN Append(s, x) = 1..Len(s) + 1
      /\ Append(s, x)[Len(s) + 1] = x
      /\ \A i \in 1..Len(s) : Append(s, x)[i] = s[i]
  OBVIOUS
<1>2. \A i \in 1..Len(s) + 1 : i = Len(s) + 1 \/ i \in 1..Len(s)
  BY <1>1
<1>3. Len(s) + 1 \in 1..Len(s) + 1 /\ 1..Len(s) \subseteq 1..Len(s) + 1
  BY <1>1
<1> QED BY <1>1, <1>2, <1>3 DEF ToSet

\* A file without its last line.
LEMMA FrontIsOfTheFile ==
  ASSUME NEW S, NEW s \in Seq(S), s # <<>>
  PROVE  /\ Front(s) \in Seq(S) /\ Len(Front(s)) = Len(s) - 1
         /\ ToSet(Front(s)) \subseteq ToSet(s)
         /\ Last(s) \in S /\ Last(s) \in ToSet(s)
<1>1. Len(s) \in Nat /\ Len(s) > 0 /\ DOMAIN s = 1..Len(s)
  OBVIOUS
<1>2. /\ Front(s) = SubSeq(s, 1, Len(s) - 1)
      /\ Front(s) \in Seq(S) /\ Len(Front(s)) = Len(s) - 1
      /\ \A i \in 1..Len(s) - 1 : Front(s)[i] = s[i]
  BY <1>1 DEF Front
<1>3. DOMAIN Front(s) = 1..Len(s) - 1 /\ 1..Len(s) - 1 \subseteq DOMAIN s
  BY <1>1, <1>2
<1>4. Last(s) = s[Len(s)] /\ Len(s) \in DOMAIN s
  BY <1>1 DEF Last
<1> QED BY <1>2, <1>3, <1>4 DEF ToSet

-----------------------------------------------------------------------------
(***************************************************************************)
(* The inductive invariant.                                                *)
(***************************************************************************)

\* The captured files are those of one process, which was spawned.
Capturing ==
  /\ capture \in [Files -> Seq(Said)]
  /\ phase \in {"spawned", "watching"} => attempt > 0

\* The captured files hold what the process of this attempt printed.
CaptureIsOwn == \A f \in Files : "cap" \in ToSet(capture[f]) => capSaid

\* No line of the log is from the future.
LogIsPast == \A line \in ToSet(log) : line.at <= Now

\* Once the dispatch time is taken, what is younger is of the process.
LogIsOwn ==
  phase \in {"watching", "capped"} =>
    \A line \in ToSet(log) : Reports(line) /\ line.at >= DispatchTime => capSaid

DiagnosticsInv ==
  TypeOK /\ Capturing /\ CaptureIsOwn /\ LogIsPast /\ LogIsOwn /\ CapIsOfThisAttempt

\* A cap that is found was reported by the process of this attempt.
LEMMA CapIsOwn ==
  ASSUME DiagnosticsInv, Watching, CapFound
  PROVE  capSaid
<1>1. ASSUME ClassOf(Diagnosed) = "cap"  PROVE capSaid
  <2>1. "cap" \in Diagnosed
    BY <1>1 DEF ClassOf
  <2>2. PICK f \in Files : "cap" \in ToSet(TailOf(capture[f], CaptureTail))
    BY <2>1 DEF Diagnosed
  <2>3. capture[f] \in Seq(Said) /\ CaptureTail \in Nat \ {0}
    BY BoundsAssumption DEF DiagnosticsInv, Capturing
  <2>4. "cap" \in ToSet(capture[f])
    BY <2>2, <2>3, TailIsOfTheFile
  <2> QED BY <2>4 DEF DiagnosticsInv, CaptureIsOwn
<1>2. ASSUME CapSince(DispatchTime)  PROVE capSaid
  <2>1. PICK line \in ToSet(TailOf(log, LogTail)) : Reports(line) /\ line.at >= DispatchTime
    BY <1>2 DEF CapSince
  <2>2. log \in Seq(LogLines) /\ LogTail \in Nat \ {0}
    BY BoundsAssumption DEF DiagnosticsInv, TypeOK
  <2>3. line \in ToSet(log)
    BY <2>1, <2>2, TailIsOfTheFile
  <2> QED BY <2>1, <2>3 DEF DiagnosticsInv, LogIsOwn, Watching
<1> QED BY <1>1, <1>2 DEF CapFound

\* A line that replaces the last one, or follows it.
LEMMA AppendedType ==
  ASSUME DiagnosticsInv, HasRoom, NEW line \in LogLines
  PROVE  /\ Appended(line) \in Seq(LogLines) /\ Len(Appended(line)) <= MaxLog
         /\ \A l \in ToSet(Appended(line)) :
              l \in ToSet(log) \/ (l.at = line.at /\ l.whole = line.whole)
<1>1. log \in Seq(LogLines) /\ Len(log) <= MaxLog /\ MaxLog \in Nat
  BY BoundsAssumption DEF DiagnosticsInv, TypeOK
<1>2. CASE Torn
  <2> DEFINE garbage == [line EXCEPT !.kind = "garbage"]
  <2>1. garbage \in LogLines /\ garbage.at = line.at /\ garbage.whole = line.whole
    BY DEF LogLines
  <2> HIDE DEF garbage
  <2>2. log # <<>>
    BY <1>2 DEF Torn
  <2>3. /\ Front(log) \in Seq(LogLines) /\ Len(Front(log)) = Len(log) - 1
        /\ ToSet(Front(log)) \subseteq ToSet(log)
    BY <1>1, <2>2, FrontIsOfTheFile
  <2>4. Appended(line) = Append(Front(log), garbage)
    BY <1>2 DEF Appended, garbage
  <2>5. /\ Append(Front(log), garbage) \in Seq(LogLines)
        /\ Len(Append(Front(log), garbage)) = Len(log)
    BY <1>1, <2>1, <2>3
  <2>6. ToSet(Append(Front(log), garbage)) = ToSet(Front(log)) \cup {garbage}
    BY <2>3, AppendedSet
  <2> QED BY <1>1, <2>1, <2>3, <2>4, <2>5, <2>6
<1>3. CASE ~Torn
  <2>1. Appended(line) = Append(log, line) /\ Len(log) < MaxLog
    BY <1>3 DEF Appended, HasRoom
  <2>2. Append(log, line) \in Seq(LogLines) /\ Len(Append(log, line)) = Len(log) + 1
    BY <1>1
  <2>3. ToSet(Append(log, line)) = ToSet(log) \cup {line}
    BY <1>1, AppendedSet
  <2>4. Len(log) + 1 <= MaxLog
    BY <1>1, <2>1
  <2> QED BY <2>1, <2>2, <2>3, <2>4
<1> QED BY <1>2, <1>3

LEMMA DiagnosticsStart == Init => DiagnosticsInv
<1> SUFFICES ASSUME Init PROVE DiagnosticsInv
  OBVIOUS
<1>1. \A f \in Files : capture[f] = <<>>
  BY DEF Init, Created
<1>2. capture \in [Files -> Seq(Said)] /\ log = <<>> /\ log \in Seq(LogLines)
  BY DEF Init, Created
<1>3. {MaxAttempts, MaxLines, MaxLog} \subseteq Nat
  BY BoundsAssumption
<1>4. \A f \in Files : capture[f] \in Seq(Said) /\ Len(capture[f]) <= MaxLines
  <2>3. Len(<<>>) = 0
    OBVIOUS
  <2>1. \A f \in Files : capture[f] \in Seq(Said) /\ Len(capture[f]) = 0
    BY <1>1, <1>2, <2>3, Zenon
  <2>2. 0 <= MaxLines
    BY <1>3
  <2> QED BY <2>1, <2>2
<1>5. log \in Seq(LogLines) /\ Len(log) <= MaxLog /\ attempt \in 0..MaxAttempts
  BY <1>2, <1>3 DEF Init
<1>6. TypeOK
  BY <1>4, <1>5 DEF Init, TypeOK
<1> QED BY <1>1, <1>2, <1>6 DEF Init, DiagnosticsInv, Capturing, CaptureIsOwn, LogIsPast, LogIsOwn,
           CapIsOfThisAttempt, ToSet

\* The classes, and what a probe that finds no cap warns of.
LEMMA ClassIsKnown ==
  /\ ClassOf(Diagnosed) \in Classes \cup {"none"}
  /\ ~CapFound => ClassOf(Diagnosed) \in NonFatal \cup {"none"}
  /\ ClassOf(Diagnosed) # "none" => ClassOf(Diagnosed) \in Diagnosed
  BY DEF ClassOf, CapFound, Classes, NonFatal

\* What the attempts and the process do keeps the invariant.
LEMMA DiagnosticsStep == DiagnosticsInv /\ [Next]_vars => DiagnosticsInv'
<1> SUFFICES ASSUME DiagnosticsInv, [Next]_vars PROVE DiagnosticsInv'
  OBVIOUS
<1> USE DEF DiagnosticsInv, Capturing, CaptureIsOwn, CapIsOfThisAttempt, files
<1>0. /\ attempt \in Nat /\ MaxAttempts \in Nat /\ MaxLines \in Nat /\ MaxLog \in Nat
      /\ attempt <= MaxAttempts
      /\ log \in Seq(LogLines) /\ \A line \in ToSet(log) : line.at \in Nat
  <2>1. {MaxAttempts, MaxLines, MaxLog} \subseteq Nat
    BY BoundsAssumption
  <2>2. \A line \in LogLines : line.at \in Nat
    BY <2>1 DEF LogLines
  <2>3. \A line \in ToSet(log) : line \in LogLines
    BY DEF TypeOK, ToSet
  <2> QED BY <2>1, <2>2, <2>3 DEF TypeOK
<1>1. CASE Spawn
  <2>1. /\ attempt' = attempt + 1 /\ phase' = "spawned" /\ phase = "retry"
        /\ capture' = Created /\ capSaid' = FALSE
        /\ UNCHANGED <<provider, log, logThere, warnings>> /\ alive' = TRUE
        /\ attempt < MaxAttempts
    BY <1>1 DEF Spawn
  <2>2. /\ Capturing' /\ \A f \in Files : capture'[f] = <<>>
    BY <1>0, <2>1 DEF Created
  <2>5. \A f \in Files : capture'[f] \in Seq(Said) /\ Len(capture'[f]) <= MaxLines
    BY <1>0, <2>2
  <2>6. attempt' \in 0..MaxAttempts
    BY <1>0, <2>1
  <2>3. TypeOK'
    BY <2>1, <2>5, <2>6 DEF TypeOK
  <2>4. LogIsPast'
    BY <1>0, <2>1 DEF LogIsPast, Now, DispatchTime
  <2> QED BY <2>1, <2>2, <2>3, <2>4 DEF LogIsOwn, ToSet
<1>2. CASE TakeDispatchTime
  <2>1. /\ phase = "spawned" /\ phase' = "watching"
        /\ UNCHANGED <<provider, attempt, alive, files, warnings, capSaid>>
    BY <1>2 DEF TakeDispatchTime
  <2>2. \A line \in ToSet(log) : line.at < DispatchTime
    BY <1>0, <2>1 DEF LogIsPast, Now, DispatchTime
  <2>3. LogIsPast' /\ LogIsOwn'
    BY <1>0, <2>1, <2>2 DEF LogIsPast, LogIsOwn, Now, DispatchTime
  <2> QED BY <2>1, <2>3 DEF TypeOK
<1>3. CASE ProbeFindsCap
  <2>1. capSaid /\ Watching
    BY <1>3, CapIsOwn DEF ProbeFindsCap
  <2>2. /\ phase' = "capped" /\ UNCHANGED <<provider, attempt, alive, files, warnings, capSaid>>
    BY <1>3 DEF ProbeFindsCap
  <2> QED BY <2>1, <2>2 DEF TypeOK, LogIsPast, LogIsOwn, Now, DispatchTime, Watching
<1>4. CASE ProbeFails \/ ProbeFindsNoCap
  <2>1. /\ phase = "watching" /\ phase' \in {"watching", "failed", "retry"}
        /\ UNCHANGED <<provider, attempt, files, capSaid>>
        /\ alive' \in BOOLEAN
    BY <1>4 DEF ProbeFails, ProbeFindsNoCap, Watching, TypeOK
  <2>2. warnings' \subseteq NonFatal
    BY <1>4, ClassIsKnown DEF ProbeFails, ProbeFindsNoCap, TypeOK
  <2> QED BY <2>1, <2>2 DEF TypeOK, LogIsPast, LogIsOwn, Now, DispatchTime
<1>5. CASE Prints
  <2>1. PICK f \in Files, class \in Said :
          /\ Len(capture[f]) < MaxLines
          /\ capture' = [capture EXCEPT ![f] = Append(@, class)]
          /\ capSaid' = (capSaid \/ class = "cap")
    BY <1>5 DEF Prints
  <2>2. UNCHANGED <<provider, phase, attempt, alive, log, logThere, warnings>>
    BY <1>5 DEF Prints
  <2>3. \A g \in Files : /\ capture[g] \in Seq(Said)
                         /\ capture'[g] = IF g = f THEN Append(capture[f], class) ELSE capture[g]
    BY <2>1
  <2>4. /\ Append(capture[f], class) \in Seq(Said)
        /\ Len(Append(capture[f], class)) <= MaxLines
        /\ ToSet(Append(capture[f], class)) = ToSet(capture[f]) \cup {class}
    BY <1>0, <2>1, <2>3, AppendedSet
  <2>5. Capturing'
    BY <2>1, <2>2, <2>4
  <2>6. TypeOK'
    BY <2>1, <2>2, <2>3, <2>4 DEF TypeOK
  <2>7. CaptureIsOwn'
    BY <2>1, <2>3, <2>4
  <2>8. LogIsPast' /\ LogIsOwn'
    BY <2>1, <2>2 DEF LogIsPast, LogIsOwn, Now, DispatchTime
  <2> QED BY <2>1, <2>2, <2>5, <2>6, <2>7, <2>8
<1>6. CASE BeginsLine \/ OthersLog
  <2>1. PICK kind \in {"cap", "other"}, whole \in BOOLEAN :
          /\ log' = Appended(Line(kind, whole))
          /\ phase = "watching" => ~whole
    BY <1>6 DEF BeginsLine, OthersLog
  <2>2. /\ UNCHANGED <<provider, phase, attempt, alive, capture, logThere, warnings, capSaid>>
        /\ HasRoom /\ phase \in {"spawned", "watching", "retry"}
    BY <1>6 DEF BeginsLine, OthersLog, Running
  <2>3. Now \in 0..2 * MaxAttempts
    BY <1>0 DEF Now, DispatchTime
  <2>4. Line(kind, whole) \in LogLines /\ Line(kind, whole).at = Now /\ Line(kind, whole).whole = whole
    BY <2>3 DEF Line, LogLines
  <2>5. /\ log' \in Seq(LogLines) /\ Len(log') <= MaxLog
        /\ \A l \in ToSet(log') : l \in ToSet(log) \/ (l.at = Now /\ l.whole = whole)
    BY <2>1, <2>2, <2>4, AppendedType
  <2>6. LogIsPast'
    BY <2>2, <2>3, <2>5 DEF LogIsPast, Now, DispatchTime
  <2>7. LogIsOwn'
    BY <2>1, <2>2, <2>5 DEF LogIsOwn, Reports, DispatchTime
  <2> QED BY <2>2, <2>5, <2>6, <2>7 DEF TypeOK
<1>7. CASE EndsLine
  <2> DEFINE line == [Last(log) EXCEPT !.whole = TRUE]
  <2>1. /\ log # <<>> /\ log' = Append(Front(log), line)
        /\ capSaid' = (capSaid \/ Last(log).kind = "cap")
        /\ UNCHANGED <<provider, phase, attempt, alive, capture, logThere, warnings>>
    BY <1>7 DEF EndsLine, Torn
  <2>2. /\ Front(log) \in Seq(LogLines) /\ Len(Front(log)) = Len(log) - 1
        /\ ToSet(Front(log)) \subseteq ToSet(log)
        /\ Last(log) \in LogLines /\ Last(log) \in ToSet(log)
    BY <1>0, <2>1, FrontIsOfTheFile
  <2>3. line \in LogLines /\ line.at = Last(log).at /\ line.kind = Last(log).kind
    BY <2>2 DEF LogLines
  <2> HIDE DEF line
  <2>4. /\ log' \in Seq(LogLines) /\ Len(log') = Len(log)
        /\ ToSet(log') = ToSet(Front(log)) \cup {line}
    BY <1>0, <2>1, <2>2, <2>3, AppendedSet
  <2>5. TypeOK'
    BY <2>1, <2>4 DEF TypeOK
  <2>6. LogIsPast'
    BY <2>1, <2>2, <2>3, <2>4 DEF LogIsPast, Now, DispatchTime
  <2>7. LogIsOwn'
    BY <2>1, <2>2, <2>3, <2>4 DEF LogIsOwn, Reports, DispatchTime
  <2> QED BY <2>1, <2>5, <2>6, <2>7
<1>8. CASE LosesLog \/ ProcessExits \/ UNCHANGED vars
  <2>1. /\ UNCHANGED <<provider, phase, attempt, capture, log, warnings, capSaid>>
        /\ alive' \in BOOLEAN /\ logThere' \in BOOLEAN
    BY <1>8 DEF LosesLog, ProcessExits, vars, TypeOK
  <2> QED BY <2>1 DEF TypeOK, LogIsPast, LogIsOwn, Now, DispatchTime
<1> QED BY <1>1, <1>2, <1>3, <1>4, <1>5, <1>6, <1>7, <1>8 DEF Next, Probe, Ended

LEMMA DiagnosticsInvariant == Spec => []DiagnosticsInv
  BY DiagnosticsStart, DiagnosticsStep, PTL DEF Spec

-----------------------------------------------------------------------------
(***************************************************************************)
(* The theorems.                                                           *)
(***************************************************************************)

\* Type correctness: the files keep their bounds, and only what is not fatal
\* becomes a warning.
THEOREM TypeCorrect == Spec => []TypeOK
<1>1. DiagnosticsInv => TypeOK
  BY DEF DiagnosticsInv
<1> QED BY <1>1, DiagnosticsInvariant, PTL

\* However much of the files is read, a run is only stopped for a cap that the
\* process of the current attempt reported.
THEOREM CapsAreOwn == Spec => []CapIsOfThisAttempt
<1>1. DiagnosticsInv => CapIsOfThisAttempt
  BY DEF DiagnosticsInv
<1> QED BY <1>1, DiagnosticsInvariant, PTL

\* A cap in the last words of a process that ended is never passed over for
\* another attempt, but for a diagnostic of another class it printed.
THEOREM CapsAreHeard == Spec => LastWordsAreHeard
<1>1. DiagnosticsInv /\ [Next]_vars
        => [phase = "watching" /\ phase' = "retry" /\ ~alive =>
              /\ ~LastPrinted("cap")
              /\ provider = "claude" /\ LastLogged =>
                   \E class \in NonFatal, f \in Files : class \in ToSet(capture[f])]_vars
  <2> SUFFICES ASSUME DiagnosticsInv, [Next]_vars, phase = "watching", phase' = "retry"
               PROVE  /\ ~LastPrinted("cap")
                      /\ provider = "claude" /\ LastLogged =>
                           \E class \in NonFatal, f \in Files : class \in ToSet(capture[f])
    OBVIOUS
  <2>1. ProbeFindsNoCap
    BY DEF Next, Probe, Spawn, TakeDispatchTime, ProbeFindsCap, ProbeFails, Prints, BeginsLine,
           EndsLine, OthersLog, LosesLog, ProcessExits, Ended, vars
  <2>2. ~CapFound /\ (ClassOf(Diagnosed) = "none" /\ provider = "claude" => logThere)
    BY <2>1 DEF ProbeFindsNoCap
  <2>3. /\ CaptureTail \in Nat \ {0} /\ LogTail \in Nat \ {0}
        /\ log \in Seq(LogLines) /\ \A f \in Files : capture[f] \in Seq(Said)
    BY BoundsAssumption DEF DiagnosticsInv, TypeOK
  <2>4. ASSUME LastPrinted("cap")  PROVE FALSE
    <3>1. PICK f \in Files : capture[f] # <<>> /\ Last(capture[f]) = "cap"
      BY <2>4 DEF LastPrinted
    <3>2. "cap" \in ToSet(TailOf(capture[f], CaptureTail))
      BY <2>3, <3>1, TailIsOfTheFile
    <3>3. ClassOf(Diagnosed) = "cap"
      BY <3>2 DEF Diagnosed, ClassOf
    <3> QED BY <2>2, <3>3 DEF CapFound
  <2>5. ASSUME provider = "claude", LastLogged
        PROVE  \E class \in NonFatal, f \in Files : class \in ToSet(capture[f])
    <3>1. Last(log) \in ToSet(TailOf(log, LogTail))
      BY <2>3, <2>5, TailIsOfTheFile DEF LastLogged
    <3>2. CapSince(DispatchTime)
      BY <2>5, <3>1 DEF LastLogged, CapSince
    <3>3. ClassOf(Diagnosed) # "none"
      BY <2>2, <2>5, <3>2 DEF CapFound
    <3>4. ClassOf(Diagnosed) \in NonFatal /\ ClassOf(Diagnosed) \in Diagnosed
      BY <2>2, <3>3, ClassIsKnown
    <3>5. PICK f \in Files : ClassOf(Diagnosed) \in ToSet(TailOf(capture[f], CaptureTail))
      BY <3>4 DEF Diagnosed
    <3>6. ClassOf(Diagnosed) \in ToSet(capture[f])
      BY <2>3, <3>5, TailIsOfTheFile
    <3> QED BY <3>4, <3>6
  <2> QED BY <2>4, <2>5
<1> QED BY <1>1, DiagnosticsInvariant, PTL DEF Spec, LastWordsAreHeard

-----------------------------------------------------------------------------
(***************************************************************************)
(* What Monitor makes of it.                                               *)
(***************************************************************************)

\* The cap a probe of this attempt finds in what was written, when it can read it.
CapShown ==
  \/ ClassOf(Diagnosed) = "cap"
  \/ ClassOf(Diagnosed) = "none" /\ provider = "claude" /\ CapSince(DispatchTime)

\* While an attempt is watched, a cap appears or is written over only by a process
\* that lives, and a probe goes by it or cannot read it: Monitor has one flag for
\* it, changed by its agent and read by its probes, which may fail.
CapIsTheAgents ==
  [][phase = "watching" =>
       /\ phase' = "watching" /\ CapShown' # CapShown => alive
       /\ phase' = "capped" => CapShown
       /\ Probe => phase' \in {"capped", "failed"} \/ ~CapShown]_vars

\* What Monitor assumes of a service cap is so, for all bounds and tails.
THEOREM MonitorsCapIsSound == Spec => CapIsTheAgents
<1>1. Next /\ phase = "watching" =>
        /\ phase' = "watching" /\ CapShown' # CapShown => alive
        /\ phase' = "capped" => CapShown
        /\ Probe => phase' \in {"capped", "failed"} \/ ~CapShown
  <2> SUFFICES ASSUME Next, phase = "watching"
               PROVE  /\ phase' = "watching" /\ CapShown' # CapShown => alive
                      /\ phase' = "capped" => CapShown
                      /\ Probe => phase' \in {"capped", "failed"} \/ ~CapShown
    OBVIOUS
  <2>0. Probe => phase' \in {"capped", "failed"} \/ ~CapShown
    BY DEF Probe, ProbeFindsCap, ProbeFails, ProbeFindsNoCap, CapFound, CapShown
  <2>1. UNCHANGED <<provider, attempt, capture, log>> => CapShown' = CapShown
    BY DEF CapShown, Diagnosed, CapSince, DispatchTime
  <2>2. CASE ProbeFindsCap
    BY <2>0, <2>2 DEF ProbeFindsCap, CapFound, CapShown
  <2>3. CASE ProbeFails
    BY <2>0, <2>3 DEF ProbeFails
  <2>4. CASE ProbeFindsNoCap
    <3>1. CapShown' = CapShown /\ phase' \in {"watching", "retry"}
      BY <2>1, <2>4 DEF ProbeFindsNoCap, files
    <3> QED BY <2>0, <3>1
  <2>5. CASE Prints \/ BeginsLine \/ EndsLine
    BY <2>0, <2>5 DEF Prints, BeginsLine, EndsLine, Running
  <2>6. CASE LosesLog \/ ProcessExits
    <3>1. CapShown' = CapShown /\ phase' = "watching"
      BY <2>1, <2>6 DEF LosesLog, ProcessExits, files
    <3> QED BY <2>0, <3>1
  <2> QED BY <2>2, <2>3, <2>4, <2>5, <2>6
          DEF Next, Probe, Spawn, TakeDispatchTime, OthersLog, Ended
<1> QED BY <1>1, PTL DEF Spec, CapIsTheAgents
=============================================================================
