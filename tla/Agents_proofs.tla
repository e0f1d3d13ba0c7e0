---------------------------- MODULE Agents_proofs ----------------------------
(***************************************************************************)
(* Proofs about managed Codex steps, managed accounts and investigations,  *)
(* for every number of processes and supervisors, every set of accounts    *)
(* and every set of reports.  One invariant for each: StepInv, AccountsInv *)
(* and RunInv.  That a step and an investigation settle is checked by TLC. *)
(***************************************************************************)
EXTENDS MCAgents, SequenceTheorems, FiniteSetTheorems,
        WellFoundedInduction, TLAPS

(***************************************************************************)
(* A managed step                                                          *)
(***************************************************************************)
Places == {"ended", "resume", "launch", "sync", "row", "wait", "lastrow", "afresh",
           "limited", "finish", "pause", "asleep", "delete", "owner"}
Process == [pc : Places, session : Procs \cup {None}, wait : BOOLEAN,
            resumed : BOOLEAN, switched : BOOLEAN, out : Outcomes \cup {"none"}]
Checkpoint == [status : {"none", "running", "paused", "failed", "completed"},
               session : Procs \cup {None}, prompt : Prompts \cup {"none"},
               eligible : BOOLEAN]
Supervisor == [pc : {"idle", "list", "spawn", "upsert"}, snap : SUBSET Procs,
               child : Procs \cup {None}]

OwnSession(p) ==
  proc[p].pc \in {"sync", "row", "wait", "lastrow"} =>
    proc[p].resumed \/ proc[p].session \in {None, p}

FilesTyped ==
  /\ ckpt \in Checkpoint /\ (ckpt.eligible => ckpt.session # None)
  /\ row = None \/ row \in Rows
  /\ owner \in {"open", "terminal"} /\ sess \subseteq Procs
  /\ raced \in BOOLEAN /\ fell \in BOOLEAN
ProcTyped == proc \in [Procs -> Process] /\ \A p \in Procs : OwnSession(p)
SupTyped ==
  /\ sup \in [Sups -> Supervisor]
  /\ \A s \in Sups : sup[s].pc = "upsert" => sup[s].child \in Procs
StepTyped == FilesTyped /\ ProcTyped /\ SupTyped

(* After the last worker died nobody works, until someone joins the step;  *)
(* and its row is there.                                                   *)
Left == fell /\ ~raced => Working = {} /\ (row # None \/ owner = "terminal")

(* What is written of a session while Codex runs or waits can be resumed.  *)
Continues ==
  ckpt.session # None =>
    /\ ckpt.prompt # "none"
    /\ ckpt.status \in {"none", "running", "paused"} => ckpt.eligible

StepInv == StepTyped /\ Left /\ Continues

-----------------------------------------------------------------------------
LEMMA NoneIsNone == None \notin Procs /\ None \notin Rows
  BY ProcsAssumption

LEMMA Idles == ASSUME NEW l \in Places PROVE Idle(l) \in Process /\ Idle(l).pc = l
  BY DEF Idle, Process, Outcomes

LEMMA StepInit == Init => StepInv
  <1> SUFFICES ASSUME Init PROVE StepInv
    OBVIOUS
  <1>1. ProcTyped
    BY Idles DEF Init, ProcTyped, OwnSession, Places
  <1>2. FilesTyped
    BY DEF Init, FilesTyped, NoCkpt, Checkpoint
  <1>3. SupTyped
    BY DEF Init, SupTyped, Supervisor
  <1> QED
    BY <1>1, <1>2, <1>3 DEF Init, NoCkpt, StepInv, StepTyped, Left, Continues

(* One process is somewhere else; nobody else has moved.                   *)
LEMMA Moved ==
  ASSUME ProcTyped, NEW p \in Procs, NEW q \in Process, proc' = [proc EXCEPT ![p] = q],
         q.pc \in {"sync", "row", "wait", "lastrow"} =>
           q.resumed \/ q.session \in {None, p}
  PROVE ProcTyped'
  BY DEF ProcTyped, OwnSession

LEMMA Busy ==
  ASSUME StepInv, NEW p \in Procs, proc[p].pc \notin {"ended", "resume"}
  PROVE ~(fell /\ ~raced)
  BY DEF StepInv, StepTyped, ProcTyped, Left, Working, Live

LEMMA BeginStep ==
  ASSUME StepInv, NEW p \in Procs, Begin(p) PROVE StepInv'
  <1>1. ProcTyped'
    BY Moved, Idles DEF Begin, Born, Leave, StepInv, StepTyped, Places, Idle
  <1> QED
    BY <1>1 DEF Begin, Born, Join, StepInv, StepTyped, FilesTyped, SupTyped, Left, Continues

LEMMA ResumeStep ==
  ASSUME StepInv, NEW p \in Procs, Resume(p) PROVE StepInv'
  <1>1. ProcTyped'
    BY Moved, Idles DEF Resume, Leave, StepInv, StepTyped, Places, Idle
  <1>2. Left'
    <2>1. CASE owner = "open"
      BY <2>1 DEF Resume, Join, Left
    <2>2. CASE owner = "terminal"
      <3>1. Working' \subseteq Working
        BY <2>2, Idles DEF Resume, Leave, Working, Live, StepInv, StepTyped, ProcTyped, Places
      <3> QED
        BY <2>2, <3>1 DEF Resume, Left, StepInv
    <2> QED
      BY <2>1, <2>2 DEF Resume
  <1> QED
    BY <1>1, <1>2 DEF Resume, Join, StepInv, StepTyped, FilesTyped, SupTyped, Continues

LEMMA LaunchStep ==
  ASSUME StepInv, NEW p \in Procs, Launch(p) PROVE StepInv'
  <1>1. ProcTyped'
    BY DEF Launch, StepInv, StepTyped, FilesTyped, ProcTyped, OwnSession, Process, Checkpoint,
           Places
  <1>2. Left'
    BY Busy DEF Launch, Left
  <1> QED
    BY <1>1, <1>2 DEF Launch, StepInv, StepTyped, FilesTyped, SupTyped, Continues

LEMMA SessionStartsStep ==
  ASSUME StepInv, NEW p \in Procs, SessionStarts(p) PROVE StepInv'
  BY DEF SessionStarts, StepInv, StepTyped, FilesTyped, SupTyped, ProcTyped, OwnSession,
         Left, Continues, Working, Live

LEMMA Discovers ==
  ASSUME StepInv, NEW p \in Procs, proc[p].pc \in {"sync", "wait"}
  PROVE /\ Discover(p) \in Procs \cup {None}
        /\ proc[p].resumed \/ Discover(p) \in {None, p}
        /\ InFlight(p, Discover(p)) \in Checkpoint
        /\ InFlight(p, Discover(p)).eligible = (InFlight(p, Discover(p)).session # None)
        /\ InFlight(p, Discover(p)).prompt # "none"
  BY NoneIsNone DEF Discover, InFlight, Checkpoint, Prompts, StepInv, StepTyped, ProcTyped,
     Process, OwnSession

LEMMA SyncFileStep ==
  ASSUME StepInv, NEW p \in Procs, SyncFile(p) PROVE StepInv'
  <1>1. proc[p] \in Process /\ proc[p].pc \in {"sync", "wait"}
    BY DEF SyncFile, StepInv, StepTyped, ProcTyped
  <1>2. ProcTyped'
    BY <1>1, Discovers DEF SyncFile, StepInv, StepTyped, ProcTyped, OwnSession, Process, Places
  <1>3. FilesTyped' /\ Continues'
    BY <1>1, Discovers DEF SyncFile, StepInv, StepTyped, FilesTyped, Continues
  <1>4. Left'
    BY <1>1, Busy DEF SyncFile, Left
  <1> QED
    BY <1>2, <1>3, <1>4 DEF SyncFile, StepInv, StepTyped, SupTyped

LEMMA CodexEndsStep ==
  ASSUME StepInv, NEW p \in Procs, NEW o \in Outcomes, CodexEnds(p, o) PROVE StepInv'
  <1>1. proc[p] \in Process /\ proc[p].pc = "wait"
    BY DEF CodexEnds, StepInv, StepTyped, ProcTyped
  <1>2. ProcTyped'
    BY <1>1, Discovers DEF CodexEnds, StepInv, StepTyped, ProcTyped, OwnSession, Process, Places
  <1>3. FilesTyped' /\ Continues'
    BY <1>1, Discovers DEF CodexEnds, StepInv, StepTyped, FilesTyped, Continues
  <1>4. Left'
    BY <1>1, Busy DEF CodexEnds, Left
  <1> QED
    BY <1>2, <1>3, <1>4 DEF CodexEnds, StepInv, StepTyped, SupTyped

LEMMA SyncRowStep ==
  ASSUME StepInv, NEW p \in Procs, SyncRow(p) PROVE StepInv'
  <1>1. proc[p] \in Process /\ proc[p].pc \in {"row", "lastrow"} /\ OwnSession(p)
    BY DEF SyncRow, StepInv, StepTyped, ProcTyped
  <1>2. row' \in Rows
    BY DEF SyncRow, Rows
  <1>3. Outcome(p) \in {"afresh", "limited", "finish"}
    BY DEF Outcome
  <1>4. ProcTyped'
    <2>1. CASE proc[p].pc = "row"
      BY <1>1, <2>1 DEF SyncRow, Goto, StepInv, StepTyped, ProcTyped, OwnSession, Process, Places
    <2>2. CASE proc[p].pc = "lastrow"
      <3>1. Told(p) \in Process /\ Told(p).pc \in {"afresh", "limited", "finish"}
        <4>1. CASE Outcome(p) = "afresh"
          BY <4>1, Idles DEF Told, Places
        <4>2. CASE Outcome(p) # "afresh"
          BY <1>1, <1>3, <4>2 DEF Told, Process, Places, Outcomes
        <4> QED
          BY <4>1, <4>2
      <3> QED
        BY <2>2, <3>1, Moved DEF SyncRow, StepInv, StepTyped
    <2> QED
      BY <1>1, <2>1, <2>2
  <1>5. Left'
    BY <1>1, Busy DEF SyncRow, Left
  <1> QED
    BY <1>2, <1>4, <1>5 DEF SyncRow, StepInv, StepTyped, FilesTyped, SupTyped, Continues

LEMMA SyncFailsStep ==
  ASSUME StepInv, NEW p \in Procs, SyncFails(p) PROVE StepInv'
  <1>1. proc[p] \in Process
    BY DEF StepInv, StepTyped, ProcTyped
  <1>3. /\ [proc[p] EXCEPT !.pc = "finish", !.out = "none"] \in Process
        /\ [proc[p] EXCEPT !.pc = "finish", !.out = "none"].pc = "finish"
    BY <1>1 DEF Process, Places
  <1>4. ProcTyped'
    BY <1>3, Moved DEF SyncFails, StepInv, StepTyped
  <1>2. Left'
    BY Busy DEF SyncFails, Left
  <1> QED
    BY <1>2, <1>4 DEF SyncFails, StepInv, StepTyped, FilesTyped, SupTyped, Continues

LEMMA SwitchedStep ==
  ASSUME StepInv, NEW p \in Procs, Switched(p) PROVE StepInv'
  <1>1. /\ [Idle("launch") EXCEPT !.switched = TRUE] \in Process
        /\ [Idle("launch") EXCEPT !.switched = TRUE].pc = "launch"
    BY DEF Idle, Process, Places, Outcomes
  <1>2. ProcTyped'
    BY <1>1, Moved DEF Switched, StepInv, StepTyped
  <1>3. Left'
    BY Busy DEF Switched, Left
  <1> QED
    BY <1>2, <1>3 DEF Switched, StepInv, StepTyped, FilesTyped, SupTyped, Continues

LEMMA PauseFileStep ==
  ASSUME StepInv, NEW p \in Procs, PauseFile(p) PROVE StepInv'
  <1>1. proc[p] \in Process /\ proc[p].pc = "limited"
    BY DEF PauseFile, StepInv, StepTyped, ProcTyped
  <1>2. /\ [Idle("pause") EXCEPT !.wait = TRUE] \in Process
        /\ [Idle("pause") EXCEPT !.wait = TRUE].pc = "pause"
    BY DEF Idle, Process, Places, Outcomes
  <1>3. ProcTyped'
    BY <1>2, Moved DEF PauseFile, StepInv, StepTyped
  <1>4. ckpt' \in Checkpoint /\ ckpt'.prompt = "step"
        /\ ckpt'.eligible = (ckpt'.session # None)
    BY <1>1 DEF PauseFile, Checkpoint, Process, Prompts
  <1>5. Left'
    BY <1>1, Busy DEF PauseFile, Left
  <1> QED
    BY <1>3, <1>4, <1>5 DEF PauseFile, StepInv, StepTyped, FilesTyped, SupTyped, Continues

LEMMA PauseRowStep ==
  ASSUME StepInv, NEW p \in Procs, PauseRow(p) PROVE StepInv'
  <1>1. proc[p] \in Process /\ proc[p].pc = "pause"
    BY DEF PauseRow, StepInv, StepTyped, ProcTyped
  <1>2. row' \in Rows
    BY <1>1 DEF PauseRow, Rows, Process
  <1>3. ProcTyped'
    <2>1. [proc[p] EXCEPT !.pc = "asleep"] \in Process /\ [proc[p] EXCEPT !.pc = "asleep"].pc = "asleep"
      BY <1>1 DEF Process, Places
    <2> QED
      BY <2>1, Idles, Moved DEF PauseRow, Leave, Goto, StepInv, StepTyped, Places
  <1>4. Left'
    BY <1>1, Busy DEF PauseRow, Left
  <1> QED
    BY <1>2, <1>3, <1>4 DEF PauseRow, StepInv, StepTyped, FilesTyped, SupTyped, Continues

LEMMA WakeStep ==
  ASSUME StepInv, NEW p \in Procs, Wake(p) PROVE StepInv'
  <1>1. ProcTyped'
    BY DEF Wake, Goto, StepInv, StepTyped, ProcTyped, OwnSession, Process, Places
  <1>2. Left'
    BY Busy DEF Wake, Left
  <1> QED
    BY <1>1, <1>2 DEF Wake, StepInv, StepTyped, FilesTyped, SupTyped, Continues

LEMMA FinishFileStep ==
  ASSUME StepInv, NEW p \in Procs, FinishFile(p) PROVE StepInv'
  <1>1. proc[p] \in Process /\ proc[p].pc = "finish"
    BY DEF FinishFile, StepInv, StepTyped, ProcTyped
  <1>2. ProcTyped'
    <2>1. /\ [Idle("delete") EXCEPT !.out = proc[p].out] \in Process
          /\ [Idle("delete") EXCEPT !.out = proc[p].out].pc = "delete"
      BY <1>1 DEF Idle, Process, Places
    <2> QED
      BY <2>1, Moved DEF FinishFile, StepInv, StepTyped
  <1>3. /\ ckpt' \in Checkpoint /\ ckpt'.prompt = "step"
        /\ ckpt'.status \in {"completed", "failed"}
        /\ ckpt'.eligible => ckpt'.session # None
    BY <1>1 DEF FinishFile, Checkpoint, Process, Prompts
  <1>4. Left'
    BY <1>1, Busy DEF FinishFile, Left
  <1> QED
    BY <1>2, <1>3, <1>4 DEF FinishFile, StepInv, StepTyped, FilesTyped, SupTyped, Continues

LEMMA DeleteRowStep ==
  ASSUME StepInv, NEW p \in Procs, DeleteRow(p) PROVE StepInv'
  <1>1. ProcTyped'
    BY DEF DeleteRow, Goto, StepInv, StepTyped, ProcTyped, OwnSession, Process, Places
  <1>2. Left'
    BY Busy DEF DeleteRow, Left
  <1> QED
    BY <1>1, <1>2 DEF DeleteRow, StepInv, StepTyped, FilesTyped, SupTyped, Continues

LEMMA SaveOwnerStep ==
  ASSUME StepInv, NEW p \in Procs, SaveOwner(p) PROVE StepInv'
  <1>1. ProcTyped'
    BY Idles, Moved DEF SaveOwner, Leave, StepInv, StepTyped, Places
  <1>2. Left'
    BY Busy DEF SaveOwner, Left
  <1> QED
    BY <1>1, <1>2 DEF SaveOwner, StepInv, StepTyped, FilesTyped, SupTyped, Continues

(* The last worker dies: nobody works, and its row is there.               *)
LEMMA CrashStep ==
  ASSUME StepInv, NEW p \in Procs, Crash(p) PROVE StepInv'
  <1>1. ProcTyped'
    BY Idles, Moved DEF Crash, Leave, StepInv, StepTyped, Places
  <1>5. fell' \in BOOLEAN
    BY DEF Crash
  <1>6. NoCkpt \in Checkpoint /\ NoCkpt.session = None /\ NoCkpt.eligible = FALSE
    BY DEF NoCkpt, Checkpoint
  <1>2. FilesTyped' /\ Continues'
    <2>1. CASE UNCHANGED ckpt
      BY <1>5, <2>1 DEF Crash, StepInv, StepTyped, FilesTyped, Continues
    <2>2. CASE ckpt' = NoCkpt
      BY <1>5, <1>6, <2>2 DEF Crash, StepInv, StepTyped, FilesTyped, Continues
    <2> QED
      BY <2>1, <2>2 DEF Crash
  <1>3. Live' = Live \ {p}
    BY Idles DEF Crash, Leave, Live, Places, StepInv, StepTyped, ProcTyped
  <1>4. Left'
    BY <1>3 DEF Crash, Left, Working
  <1> QED
    BY <1>1, <1>2, <1>4 DEF Crash, StepInv, StepTyped, SupTyped

LEMMA LoseSessionStep ==
  ASSUME StepInv, NEW p \in Procs, LoseSession(p) PROVE StepInv'
  BY DEF LoseSession, StepInv, StepTyped, FilesTyped, SupTyped, ProcTyped, OwnSession,
         Left, Continues, Working, Live

LEMMA ElapseStep ==
  ASSUME StepInv, Elapse PROVE StepInv'
  <1>1. ASSUME NEW p \in Procs
        PROVE proc'[p] \in Process /\ proc'[p].pc = proc[p].pc
              /\ proc'[p].resumed = proc[p].resumed /\ proc'[p].session = proc[p].session
    BY DEF Elapse, StepInv, StepTyped, ProcTyped, Process
  <1>2. ProcTyped'
    BY <1>1 DEF Elapse, StepInv, StepTyped, ProcTyped, OwnSession
  <1>3. row # None => row' \in Rows
    BY DEF Elapse, StepInv, StepTyped, FilesTyped, Rows
  <1>4. Working' = Working
    BY <1>1 DEF Working, Live
  <1>5. Left'
    BY <1>3, <1>4, NoneIsNone DEF Elapse, Left, StepInv
  <1> QED
    BY <1>2, <1>3, <1>5 DEF Elapse, StepInv, StepTyped, FilesTyped, SupTyped, Continues

LEMMA SupervisorSteps ==
  ASSUME StepInv, NEW s \in Sups, Snapshot(s) \/ List(s) \/ SupCrash(s) PROVE StepInv'
  <1>1. Live \subseteq Procs
    BY DEF Live
  <1>2. SupTyped'
    BY <1>1 DEF Snapshot, List, SupCrash, StepInv, StepTyped, SupTyped, Supervisor
  <1>3. ProcTyped'
    BY DEF Snapshot, List, SupCrash, StepInv, StepTyped, ProcTyped, OwnSession
  <1>4. Left'
    BY DEF Snapshot, List, SupCrash, StepInv, Left, Working, Live, OwnerTerminal
  <1> QED
    BY <1>2, <1>3, <1>4 DEF Snapshot, List, SupCrash, StepInv, StepTyped, FilesTyped, Continues

LEMMA UpsertStep ==
  ASSUME StepInv, NEW s \in Sups, Upsert(s) PROVE StepInv'
  <1>1. row' \in Rows
    BY DEF Upsert, StepInv, StepTyped, SupTyped, Rows
  <1>2. SupTyped'
    BY DEF Upsert, StepInv, StepTyped, SupTyped, Supervisor
  <1>3. ProcTyped'
    BY DEF Upsert, StepInv, StepTyped, ProcTyped, OwnSession
  <1>4. Left'
    BY <1>1, NoneIsNone DEF Upsert, StepInv, Left, Working, Live
  <1> QED
    BY <1>1, <1>2, <1>3, <1>4 DEF Upsert, StepInv, StepTyped, FilesTyped, Continues

(* A resume command that was started does not work yet.                    *)
LEMMA SpawnStep ==
  ASSUME StepInv, NEW s \in Sups, NEW p \in Procs, Spawn(s, p) PROVE StepInv'
  <1>1. ProcTyped'
    BY Idles, Moved DEF Spawn, Born, Leave, StepInv, StepTyped, Places
  <1>2. SupTyped'
    BY DEF Spawn, StepInv, StepTyped, SupTyped, Supervisor
  <1>3. Working' \subseteq Working
    BY Idles DEF Spawn, Born, Leave, Working, Live, Places, StepInv, StepTyped, ProcTyped
  <1>4. Left'
    BY <1>3 DEF Spawn, StepInv, Left
  <1> QED
    BY <1>1, <1>2, <1>4 DEF Spawn, Born, StepInv, StepTyped, FilesTyped, Continues

LEMMA StepNext == StepInv /\ [Next]_vars => StepInv'
  <1> SUFFICES ASSUME StepInv, [Next]_vars PROVE StepInv'
    OBVIOUS
  <1>1. CASE Next
    <2>1. ASSUME NEW p \in Procs, Work(p) PROVE StepInv'
      BY <2>1, ResumeStep, LaunchStep, SyncFileStep, SyncRowStep, SwitchedStep, PauseFileStep, PauseRowStep,
         WakeStep, FinishFileStep, DeleteRowStep, SaveOwnerStep DEF Work
    <2>2. ASSUME NEW s \in Sups, Pass(s) PROVE StepInv'
      BY <2>2, SupervisorSteps, SpawnStep, UpsertStep DEF Pass
    <2> QED
      BY <1>1, <2>1, <2>2, BeginStep, SessionStartsStep, SyncFailsStep, CrashStep,
         LoseSessionStep, CodexEndsStep, SupervisorSteps, ElapseStep DEF Next
  <1>2. CASE UNCHANGED vars
    BY <1>2 DEF vars, StepInv, StepTyped, FilesTyped, ProcTyped, OwnSession, SupTyped, Left,
       Continues, Working, Live
  <1> QED
    BY <1>1, <1>2

LEMMA MCSteps == [MCNext]_allVars => [Next]_vars
  BY DEF MCNext, Aside, Beside, allVars, vars

LEMMA StepInvariant == MCInit /\ [][MCNext]_allVars => []StepInv
  <1>1. MCInit => StepInv
    BY StepInit DEF MCInit
  <1>2. StepInv /\ [MCNext]_allVars => StepInv'
    BY StepNext, MCSteps
  <1> QED
    BY <1>1, <1>2, PTL

(* A step whose process died after its row was written is not forgotten    *)
(* (managed_prompt_recovery.go, codex_exec_resume.go).                     *)
THEOREM StepsRecovered == MCSpec => []StepsRecoverable
  <1>1. StepInv => StepsRecoverable
    BY DEF StepInv, StepTyped, FilesTyped, ProcTyped, OwnSession, Left, StepsRecoverable,
       TypeOK, Recoverable, Checkpoint, Process, Sessions, Live
  <1> QED
    BY <1>1, StepInvariant, PTL DEF MCSpec

(* A step that was interrupted in its first run continues the session it   *)
(* had (shouldResume in codex_exec_resume.go).                             *)
THEOREM RestartsWarm == MCSpec => WarmRestart
  <1> DEFINE Cold(p) == Launch(p) /\ ~proc'[p].resumed /\ proc[p].pc = "launch"
             Unfit == \/ ckpt.session = None \/ ckpt.status = "completed"
                      \/ ckpt.prompt = "continuation"
                      \/ ckpt.status = "failed" /\ ~ckpt.eligible
  <1>1. ASSUME StepInv, NEW p \in Procs, Cold(p)
        PROVE Unfit
    <2>1. ASSUME ShouldResume PROVE proc'[p].resumed
      <3>1. proc' = [proc EXCEPT ![p].pc = "sync", ![p].resumed = TRUE,
                                 ![p].session = ckpt.session]
        BY <1>1, <2>1 DEF Launch
      <3> QED
        BY <1>1, <3>1 DEF StepInv, StepTyped, ProcTyped, Process
    <2>2. ~ShouldResume
      BY <1>1, <2>1
    <2> QED
      BY <2>2 , <1>1 DEF ShouldResume, StepInv, StepTyped, FilesTyped, Continues, Checkpoint,
         Prompts
  <1>2. StepInv /\ [MCNext]_allVars => [\A p \in Procs : Cold(p) => Unfit]_vars
    BY <1>1
  <1> QED
    BY <1>2, StepInvariant, PTL DEF MCSpec, WarmRestart

-----------------------------------------------------------------------------
(***************************************************************************)
(* An investigation: the invariant                                         *)
(***************************************************************************)
InRound == {"investigator", "validator", "revise", "accept", "complete"}
Member == [pc : {"ended", "probe", "ready", "round"} \cup InRound,
           m : I!Manifests \cup {None}, round : 0..(MaxRounds + 1), heard : BOOLEAN,
           r : Found \cup {None}, waits : BOOLEAN]

DiskTyped ==
  /\ disk \in I!Manifests \cup {None} /\ (disk # None => Len(disk.rounds) <= MaxRounds)
  /\ mcp \in {"none", "ok", "broken"} /\ servers \in {"ok", "broken"}
  /\ verdict \in [1..MaxRounds -> I!Verdicts \cup {None}]
  /\ report \in [1..MaxRounds -> Found \cup {None}]
  /\ final \in Found \cup {None} /\ rows \in [I!Steps -> Workers \cup {None}]
RunTyped == DiskTyped /\ team \in [Workers -> Member] /\ crowded \in BOOLEAN

(* A manifest of a run that goes on.  A round that needs a revision has    *)
(* its verdict on disk.                                                    *)
Known(m) == \A i \in 1..Len(m.rounds) : m.rounds[i] = "needs_revision" => verdict[i] # None
Going(m) == /\ m \in I!Manifests /\ m.status # "completed"
            /\ Len(m.rounds) <= MaxRounds /\ Known(m)

(* What a member of the team has, and has found, whoever else works.       *)
Holds(p) ==
  LET t == team[p] IN
  /\ t.pc # "ended" => Going(t.m)
  /\ t.pc = "round" => /\ t.round > 0
                       /\ t.round <= MaxRounds => t.round <= Len(t.m.rounds) + 1
  /\ t.pc \in InRound => t.round \in 1..MaxRounds /\ Len(t.m.rounds) = t.round
  /\ t.pc \in {"validator", "accept", "complete"} => t.r # None
  /\ t.pc \in {"accept", "complete"} => I!Violations(t.r) = {}
  /\ t.pc = "complete" => final # None
  /\ t.pc = "revise" => verdict[t.round] # None
  /\ t.waits => t.pc \in {"investigator", "validator"}

Founded ==
  /\ final # None => I!Violations(final) = {}
  /\ disk # None => Known(disk)
  /\ disk # None /\ disk.status = "completed" => final # None

(* Who works alone finds on disk what it wrote there itself.               *)
Finds(p) ==
  LET t == team[p] IN
  /\ t.pc # "ended" => disk = None \/ disk.status # "completed"
  /\ t.pc \in {"validator", "accept", "complete"} => report[t.round] = t.r
  /\ t.pc \in {"accept", "complete"} =>
       verdict[t.round] = [accepted |-> TRUE, violations |-> FALSE]
  /\ t.pc = "complete" => final = t.r
  /\ t.pc = "revise" /\ verdict[t.round].violations => t.heard
  /\ t.pc = "round" /\ t.round \in 2..MaxRounds =>
       t.heard \/ Len(t.m.rounds) = t.round \/ ~verdict[t.round - 1].violations

Named ==
  disk # None /\ disk.status = "completed" =>
    /\ disk.accepted \in 1..MaxRounds /\ report[disk.accepted] = final
    /\ verdict[disk.accepted] = [accepted |-> TRUE, violations |-> FALSE]

AloneFinds ==
  ~crowded =>
    /\ \A p, q \in Workers : team[p].pc # "ended" /\ team[q].pc # "ended" => p = q
    /\ \A p \in Workers : Finds(p)
    /\ Named

RunInv == RunTyped /\ (\A p \in Workers : Holds(p)) /\ Founded /\ AloneFinds

-----------------------------------------------------------------------------
(***************************************************************************)
(* An investigation: what its operators do                                 *)
(***************************************************************************)
LEMMA Bounds == MaxRounds \in Nat /\ MaxRounds > 0
  BY InvestigationAssumption DEF I!InvestigationBounds

LEMMA NoneApart ==
  /\ None \notin Workers /\ None \notin Found
  /\ None \notin I!Verdicts /\ None \notin I!Manifests
  BY InvestigationAssumption DEF I!ReportsAssumption

(* A primary proof that breaks no rule has a link, and one that is good    *)
(* for its kind.                                                           *)
LEMMA ProofCounts ==
  ASSUME NEW proofs, proofs \subseteq I!Proofs, I!ProofViolations(proofs) = {},
         I!HasPrimary(proofs)
  PROVE \E p \in proofs : /\ p.primary /\ p.kind # "documentation" /\ p.link # "none"
                          /\ p.link = "gone" => p.kind = "other"
  <1> DEFINE rules ==
        [missing_proofs |-> proofs = {},
         missing_proof_link |-> \E p \in proofs : p.link = "none",
         documentation_is_not_primary |->
           \E p \in proofs : p.primary /\ p.kind = "documentation",
         invalid_proof_link |-> \E p \in proofs : ~I!LinkHolds(p)]
  <1>1. I!Failing(rules) = {}
    BY DEF I!ProofViolations
  <1>2. \A c \in DOMAIN rules : ~rules[c]
    BY <1>1 DEF I!Failing
  <1>3. ~\E p \in proofs : p.link = "none"
    BY <1>2
  <1>4. ~\E p \in proofs : ~I!LinkHolds(p)
    BY <1>2
  <1>5. PICK p \in proofs : p.primary /\ p.kind # "documentation"
    BY DEF I!HasPrimary
  <1>6. p \in I!Proofs /\ I!LinkHolds(p) /\ p.link # "none"
    BY <1>3, <1>4
  <1>7. p.link = "gone" => p.kind = "other"
    BY <1>5, <1>6 DEF I!LinkHolds, I!Proofs, I!Kinds, I!Web
  <1> QED
    BY <1>5, <1>6, <1>7

LEMMA NoViolationProves ==
  ASSUME NEW r \in Found, I!Violations(r) = {}
  PROVE I!Proved(r)
  <1>1. r.proofs \subseteq I!Proofs /\ r.issues \subseteq I!Issues
    BY InvestigationAssumption DEF I!ReportsAssumption
  <1>2. I!ProofViolations(r.proofs) = {} /\ \A i \in r.issues : I!IssueViolations(i) = {}
    BY DEF I!Violations
  <1>3. I!HasPrimary(r.proofs)
    <2> DEFINE rules ==
          [invalid_overall_status |->
             r.status \notin {"REFUTED", "CONFIRMED", "PARTIALLY_CONFIRMED"},
           missing_overall_text |-> ~r.told,
           missing_primary_overall_proof |-> ~I!HasPrimary(r.proofs)]
    <2>1. I!Failing(rules) = {}
      BY DEF I!Violations
    <2>2. "missing_primary_overall_proof" \notin I!Failing(rules)
      BY <2>1
    <2> QED
      BY <2>2 DEF I!Failing
  <1>4. ASSUME NEW i \in r.issues
        PROVE I!ProofViolations(i.proofs) = {} /\ I!HasPrimary(i.proofs)
              /\ i.proofs \subseteq I!Proofs
    <2> DEFINE rules == [missing_issue_text |-> ~i.told,
                         missing_primary_issue_proof |-> ~I!HasPrimary(i.proofs)]
    <2>1. I!Failing(rules) = {} /\ I!ProofViolations(i.proofs) = {}
      BY <1>2 DEF I!IssueViolations
    <2>2. "missing_primary_issue_proof" \notin I!Failing(rules)
      BY <2>1
    <2>3. I!HasPrimary(i.proofs)
      BY <2>2 DEF I!Failing
    <2>4. i \in I!Issues
      BY <1>1
    <2>5. i.proofs \subseteq I!Proofs
      BY <2>4 DEF I!Issues
    <2> QED
      BY <2>1, <2>3, <2>5
  <1>5. ASSUME NEW claim \in {r} \cup r.issues
        PROVE \E p \in claim.proofs :
                /\ p.primary /\ p.kind # "documentation" /\ p.link # "none"
                /\ p.link = "gone" => p.kind = "other"
    BY <1>1, <1>2, <1>3, <1>4, ProofCounts
  <1> QED
    BY <1>5 DEF I!Proved

LEMMA Judging ==
  ASSUME NEW r, NEW a \in BOOLEAN, NEW o \in BOOLEAN
  PROVE /\ I!Judged(r, a, o) \in I!Verdicts
        /\ I!Judged(r, a, o).accepted =>
             /\ I!Violations(r) = {}
             /\ I!Judged(r, a, o) = [accepted |-> TRUE, violations |-> FALSE]
  <1>1. CASE I!Violations(r) = {}
    BY <1>1 DEF I!Judged, I!Verdicts
  <1>2. CASE I!Violations(r) # {}
    BY <1>2 DEF I!Judged, I!Verdicts
  <1> QED
    BY <1>1, <1>2

(* Only the last round changes.                                            *)
LEMMA LastSet ==
  ASSUME NEW m \in I!Manifests, Len(m.rounds) > 0, NEW s \in I!RoundStatuses
  PROVE LET n == I!SetLast(m, s) IN
        /\ n \in I!Manifests /\ n.status = m.status /\ Len(n.rounds) = Len(m.rounds)
        /\ \A i \in 1..Len(m.rounds) : n.rounds[i] = IF i = Len(m.rounds) THEN s ELSE m.rounds[i]
  <1> DEFINE n == I!SetLast(m, s)
             rs == [m.rounds EXCEPT ![Len(m.rounds)] = s]
  <1>1. m.rounds \in Seq(I!RoundStatuses) /\ Len(m.rounds) \in Nat
    BY DEF I!Manifests
  <1>2. rs \in Seq(I!RoundStatuses) /\ Len(rs) = Len(m.rounds)
        /\ \A i \in 1..Len(m.rounds) : rs[i] = IF i = Len(m.rounds) THEN s ELSE m.rounds[i]
    BY <1>1
  <1>3. n = [m EXCEPT !.rounds = rs]
    BY DEF I!SetLast
  <1> HIDE DEF rs, n
  <1>4. n \in I!Manifests /\ n.status = m.status /\ n.rounds = rs
    BY <1>2, <1>3 DEF I!Manifests
  <1> QED
    BY <1>2, <1>4 DEF n

LEMMA GoingSet ==
  ASSUME NEW m, Going(m), Len(m.rounds) > 0, NEW s \in I!RoundStatuses,
         s = "needs_revision" => verdict[Len(m.rounds)] # None
  PROVE Going(I!SetLast(m, s)) /\ Len(I!SetLast(m, s).rounds) = Len(m.rounds)
  <1> DEFINE n == I!SetLast(m, s)
  <1>1. /\ n \in I!Manifests /\ n.status = m.status /\ Len(n.rounds) = Len(m.rounds)
        /\ \A i \in 1..Len(m.rounds) : n.rounds[i] = IF i = Len(m.rounds) THEN s ELSE m.rounds[i]
    BY LastSet DEF Going
  <1> HIDE DEF n
  <1>2. Going(n)
    BY <1>1 DEF Going, Known
  <1> QED
    BY <1>1, <1>2 DEF n

(* A round begins in place of what the manifest had of it.                 *)
LEMMA Beginning ==
  ASSUME NEW m, Going(m), NEW r \in 1..MaxRounds, r <= Len(m.rounds) + 1
  PROVE LET n == [m EXCEPT !.rounds = Append(SubSeq(@, 1, r - 1), "running")] IN
        Going(n) /\ Len(n.rounds) = r
  <1> DEFINE rs == Append(SubSeq(m.rounds, 1, r - 1), "running")
             n == [m EXCEPT !.rounds = rs]
  <1>1. m.rounds \in Seq(I!RoundStatuses) /\ Len(m.rounds) \in Nat /\ r \in Nat
    BY Bounds DEF Going, I!Manifests
  <1>2. /\ SubSeq(m.rounds, 1, r - 1) \in Seq(I!RoundStatuses)
        /\ Len(SubSeq(m.rounds, 1, r - 1)) = r - 1
        /\ \A i \in 1..(r - 1) : SubSeq(m.rounds, 1, r - 1)[i] = m.rounds[i]
    BY <1>1, SubSeqProperties
  <1>3. /\ rs \in Seq(I!RoundStatuses) /\ Len(rs) = r
        /\ \A i \in 1..r : rs[i] = IF i = r THEN "running" ELSE m.rounds[i]
    BY <1>1, <1>2, AppendProperties DEF I!RoundStatuses
  <1> HIDE DEF rs
  <1>4. n \in I!Manifests /\ n.status = m.status /\ n.rounds = rs
    BY <1>3 DEF Going, I!Manifests
  <1> HIDE DEF n
  <1>5. Going(n) /\ Len(n.rounds) = r
    BY <1>1, <1>3, <1>4, Bounds DEF Going, Known
  <1> QED
    BY <1>5 DEF n, rs

-----------------------------------------------------------------------------
(***************************************************************************)
(* An investigation: its steps                                             *)
(***************************************************************************)
LEMMA Unmoved ==
  ASSUME RunInv, NEW q \in Workers, team'[q] = team[q],
         \A i \in 1..MaxRounds : verdict[i] # None => verdict'[i] # None,
         final # None => final' # None
  PROVE Holds(q)'
  <1>1. Holds(q) /\ team[q] \in Member
    BY DEF RunInv, RunTyped
  <1>2. ASSUME Going(team[q].m) PROVE Known(team[q].m)'
    <2>1. Len(team[q].m.rounds) \in Nat /\ Len(team[q].m.rounds) <= MaxRounds
      BY <1>2 DEF Going, I!Manifests
    <2>2. 1..Len(team[q].m.rounds) \subseteq 1..MaxRounds
      BY <2>1, Bounds
    <2> QED
      BY <1>2, <2>2 DEF Going, Known
  <1>3. ASSUME Going(team[q].m) PROVE Going(team[q].m)'
    BY <1>2, <1>3 DEF Going
  <1>4. team[q].pc = "revise" => verdict'[team[q].round] # None
    BY <1>1 DEF Holds, InRound
  <1> QED
    BY <1>1, <1>3, <1>4 DEF Holds

(* A step of p: the others have lost nothing, and if p works alone nobody  *)
(* else is there.                                                          *)
LEMMA Stepped ==
  ASSUME RunInv, NEW p \in Workers, team[p].pc # "ended", NEW ch \in Member,
         team' = [team EXCEPT ![p] = ch], UNCHANGED crowded, DiskTyped',
         \A i \in 1..MaxRounds : verdict[i] # None => verdict'[i] # None,
         final # None => final' # None,
         Holds(p)', Founded', ~crowded => Finds(p)' /\ Named'
  PROVE RunInv'
  <1>1. team' \in [Workers -> Member] /\ team'[p] = ch
        /\ \A q \in Workers \ {p} : team'[q] = team[q]
    BY DEF RunInv, RunTyped
  <1>2. ASSUME NEW q \in Workers \ {p} PROVE Holds(q)'
    BY <1>1, Unmoved
  <1>3. AloneFinds'
    <2> SUFFICES ASSUME ~crowded PROVE AloneFinds'
      BY DEF AloneFinds
    <2>1. \A q \in Workers \ {p} : team'[q].pc = "ended"
      BY <1>1 DEF RunInv, AloneFinds
    <2>2. \A q \in Workers \ {p} : Finds(q)'
      BY <2>1 DEF Finds
    <2> QED
      BY <2>1, <2>2 DEF AloneFinds
  <1> QED
    BY <1>1, <1>2, <1>3 DEF RunInv, RunTyped

(* A step that leaves the run's files alone, but for the rows.             *)
LEMMA Quiet ==
  ASSUME RunInv, NEW p \in Workers, team[p].pc # "ended", NEW ch \in Member,
         team' = [team EXCEPT ![p] = ch], mcp' \in {"none", "ok", "broken"},
         rows' \in [I!Steps -> Workers \cup {None}],
         UNCHANGED <<crowded, disk, verdict, report, final, servers>>,
         Holds(p)', ~crowded => Finds(p)'
  PROVE RunInv'
  <1>1. DiskTyped' /\ Founded'
    BY DEF RunInv, RunTyped, DiskTyped, Founded, Known
  <1>2. ~crowded => Named'
    BY DEF RunInv, AloneFinds, Named
  <1> QED
    BY <1>1, <1>2, Stepped

(* A manifest of a run that goes on is written.                            *)
LEMMA Written ==
  ASSUME RunInv, NEW p \in Workers, team[p].pc # "ended", NEW ch \in Member,
         team' = [team EXCEPT ![p] = ch], NEW m, Going(m), disk' = m,
         mcp' \in {"none", "ok", "broken"}, rows' \in [I!Steps -> Workers \cup {None}],
         UNCHANGED <<crowded, verdict, report, final, servers>>,
         Holds(p)', ~crowded => Finds(p)'
  PROVE RunInv'
  <1>1. DiskTyped' /\ Founded'
    BY DEF RunInv, RunTyped, DiskTyped, Founded, Known, Going
  <1>2. Named'
    BY DEF Going, Named
  <1> QED
    BY <1>1, <1>2, Stepped

LEMMA Stating ==
  ASSUME NEW m, Going(m), NEW status \in I!Statuses \ {"completed"}, NEW e \in BOOLEAN
  PROVE /\ Going([m EXCEPT !.status = status, !.error = e])
        /\ [m EXCEPT !.status = status, !.error = e].rounds = m.rounds
  BY DEF Going, Known, I!Manifests

LEMMA EndedMember ==
  /\ I!Ended \in Member /\ I!Ended.pc = "ended" /\ I!Ended.waits = FALSE
  BY Bounds DEF I!Ended, I!Idle, Member

LEMMA Fails ==
  ASSUME RunInv, NEW p \in Workers, team[p].pc # "ended",
         NEW status \in I!Statuses \ {"completed"}, NEW m, Going(m), I!Fail(p, status, m),
         mcp' \in {"none", "ok", "broken"}, rows' \in [I!Steps -> Workers \cup {None}],
         UNCHANGED <<crowded, verdict, report, final, servers>>
  PROVE RunInv'
  <1>1. team'[p] = I!Ended
    BY DEF I!Fail, RunInv, RunTyped
  <1>2. Holds(p)' /\ Finds(p)'
    BY <1>1, EndedMember DEF Holds, Finds, InRound
  <1> QED
    BY <1>2, EndedMember, Stating, Written DEF I!Fail

LEMMA Persists ==
  ASSUME RunInv, NEW p \in Workers, team[p].pc # "ended", NEW m, Going(m),
         NEW ch \in Member, I!Persist(p, m, ch),
         UNCHANGED <<crowded, verdict, report, final, servers, mcp, rows>>,
         disk' = m /\ team' = [team EXCEPT ![p] = ch] => Holds(p)' /\ (~crowded => Finds(p)')
  PROVE RunInv'
  <1>1. mcp \in {"none", "ok", "broken"} /\ rows \in [I!Steps -> Workers \cup {None}]
    BY DEF RunInv, RunTyped, DiskTyped
  <1>2. CASE disk' = m /\ team' = [team EXCEPT ![p] = ch]
    BY <1>1, <1>2, Written
  <1>3. CASE I!Fail(p, "failed_executor", m)
    BY <1>1, <1>3, Fails DEF I!Statuses
  <1> QED
    BY <1>2, <1>3 DEF I!Persist

-----------------------------------------------------------------------------
(* A process with a number of its own, and what the disk said.             *)
LEMMA BornStep ==
  ASSUME RunInv, NEW p \in Workers, NEW m, Going(m), I!Born(p, m),
         rows' \in [I!Steps -> Workers \cup {None}],
         UNCHANGED <<disk, mcp, servers, verdict, report, final>>,
         disk = None \/ disk.status # "completed"
  PROVE RunInv'
  <1> DEFINE ch == I!Idle("probe", m)
  <1>1. ch \in Member /\ ch.pc = "probe" /\ ch.m = m /\ ch.waits = FALSE
    BY Bounds DEF I!Idle, Member, Going
  <1> HIDE DEF ch
  <1>2. team' = [team EXCEPT ![p] = ch] /\ (crowded' = (crowded \/ I!Live # {}))
    BY DEF I!Born, ch
  <1>3. team' \in [Workers -> Member] /\ team'[p] = ch
        /\ \A q \in Workers \ {p} : team'[q] = team[q]
    BY <1>1, <1>2 DEF RunInv, RunTyped
  <1>4. DiskTyped' /\ Founded' /\ crowded' \in BOOLEAN
    BY <1>2 DEF RunInv, RunTyped, DiskTyped, Founded, Known
  <1>5. Holds(p)'
    BY <1>1, <1>3 DEF Holds, InRound, Going, Known
  <1>6. \A q \in Workers \ {p} : Holds(q)'
    BY <1>3, Unmoved
  <1>7. AloneFinds'
    <2> SUFFICES ASSUME ~crowded' PROVE AloneFinds'
      BY DEF AloneFinds
    <2>1. \A q \in Workers : team[q].pc = "ended"
      BY <1>2 DEF I!Live
    <2>2. \A q \in Workers \ {p} : team'[q].pc = "ended"
      BY <1>3, <2>1
    <2>3. \A q \in Workers : Finds(q)'
      BY <1>1, <1>3, <2>2 DEF Finds
    <2>4. Named'
      BY DEF Named
    <2> QED
      BY <2>2, <2>3, <2>4 DEF AloneFinds
  <1> QED
    BY <1>3, <1>4, <1>5, <1>6, <1>7 DEF RunInv, RunTyped

LEMMA StartStep == ASSUME RunInv, NEW p \in Workers, I!Start(p) PROVE RunInv'
  <1>1. Going(I!Fresh)
    <2>1. <<>> \in Seq(I!RoundStatuses) /\ Len(<<>>) = 0
      OBVIOUS
    <2> QED
      BY <2>1, Bounds DEF Going, Known, I!Fresh, I!Manifests, I!Statuses
  <1> QED
    BY <1>1, BornStep DEF I!Start, RunInv, RunTyped, DiskTyped

LEMMA RejoinStep == ASSUME RunInv, NEW p \in Workers, I!Resume(p) PROVE RunInv'
  <1>1. Going(disk)
    BY DEF I!Resume, RunInv, RunTyped, DiskTyped, Founded, Going
  <1> QED
    BY <1>1, BornStep DEF I!Resume, RunInv, RunTyped, DiskTyped

LEMMA RecoverStep == ASSUME RunInv, NEW p \in Workers, I!Recover(p) PROVE RunInv'
  <1>1. Going(disk) /\ disk.status # "completed"
    BY DEF I!Recover, I!Terminal, I!Open, RunInv, RunTyped, DiskTyped, Founded, Going
  <1>2. rows' \in [I!Steps -> Workers \cup {None}]
    BY DEF I!Recover, RunInv, RunTyped, DiskTyped
  <1> QED
    BY <1>1, <1>2, BornStep DEF I!Recover

LEMMA ProbeStep == ASSUME RunInv, NEW p \in Workers, I!Probe(p) PROVE RunInv'
  <1>1. Holds(p) /\ team[p] \in Member /\ team[p].pc = "probe" /\ Going(team[p].m)
    BY DEF I!Probe, RunInv, RunTyped, Holds
  <1>2. mcp' \in {"none", "ok", "broken"} /\ rows' \in [I!Steps -> Workers \cup {None}]
    BY DEF I!Probe, RunInv, RunTyped, DiskTyped
  <1>3. CASE I!Fail(p, "failed_executor", team[p].m)
    BY <1>1, <1>2, <1>3, Fails DEF I!Probe, I!Statuses
  <1>4. CASE team' = [team EXCEPT ![p].pc = "ready"] /\ UNCHANGED disk
    <2> DEFINE ch == [team[p] EXCEPT !.pc = "ready"]
    <2>1. ch \in Member /\ ch.pc = "ready" /\ ch.m = team[p].m /\ ch.waits = team[p].waits
      BY <1>1 DEF Member
    <2>2. team' = [team EXCEPT ![p] = ch]
      BY <1>4
    <2> HIDE DEF ch
    <2>3. team'[p] = ch
      BY <2>2 DEF RunInv, RunTyped
    <2>4. Holds(p)'
      BY <1>1, <2>1, <2>3 DEF I!Probe, Holds, InRound, Going, Known
    <2>5. ~crowded => Finds(p)'
      BY <1>1, <1>4, <2>1, <2>3 DEF I!Probe, Finds, RunInv, AloneFinds
    <2> QED
      BY <1>1, <1>2, <1>4, <2>1, <2>2, <2>4, <2>5, Quiet DEF I!Probe
  <1> QED
    BY <1>3, <1>4 DEF I!Probe

(* Where a run goes on, and what its process is told.                      *)
LEMMA Resuming ==
  ASSUME RunInv, NEW m, Going(m)
  PROVE LET r == I!ResumeState(m) IN
        /\ r.round \in 1..(MaxRounds + 1) /\ r.heard \in BOOLEAN
        /\ r.round <= MaxRounds => r.round <= Len(m.rounds) + 1
        /\ r.round \in 2..MaxRounds =>
             r.heard \/ Len(m.rounds) = r.round \/ ~verdict[r.round - 1].violations
  <1> DEFINE n == Len(m.rounds)
  <1>1. n \in Nat /\ n <= MaxRounds /\ (n > 0 => m.rounds[n] \in I!RoundStatuses)
    BY DEF Going, I!Manifests
  <1>2. CASE n = 0
    <2>1. I!ResumeState(m) = [round |-> 1, heard |-> FALSE]
      BY <1>1, <1>2 DEF I!ResumeState
    <2> QED
      BY <1>2, <2>1, Bounds
  <1>3. CASE n > 0 /\ m.rounds[n] = "needs_revision"
    <2>1. verdict[n] \in I!Verdicts /\ verdict[n] # None
      BY <1>1, <1>3 DEF Going, Known, RunInv, RunTyped, DiskTyped
    <2>2. I!ResumeState(m) = [round |-> n + 1, heard |-> verdict[n] # None /\ verdict[n].violations]
      BY <1>1, <1>3 DEF I!ResumeState
    <2>3. verdict[n].violations \in BOOLEAN
      BY <2>1 DEF I!Verdicts
    <2> HIDE DEF n
    <2>4. (verdict[n] # None /\ verdict[n].violations) = verdict[n].violations
      BY <2>1, <2>3
    <2>5. I!ResumeState(m) = [round |-> n + 1, heard |-> verdict[n].violations]
      BY <2>2, <2>4
    <2> QED
      BY <1>1, <2>3, <2>5, Bounds DEF n
  <1>4. CASE n > 0 /\ m.rounds[n] = "accepted"
    <2>1. I!ResumeState(m) = [round |-> MaxRounds + 1, heard |-> FALSE]
      BY <1>1, <1>4 DEF I!ResumeState
    <2> QED
      BY <2>1, Bounds
  <1>5. CASE n > 0 /\ m.rounds[n] \notin {"accepted", "needs_revision"}
    <2>1. I!ResumeState(m) = [round |-> n, heard |-> FALSE]
      BY <1>1, <1>5 DEF I!ResumeState
    <2>2. n \in 1..(MaxRounds + 1) /\ n <= n + 1
      BY <1>1, <1>5, Bounds
    <2> QED
      BY <2>1, <2>2
  <1> QED
    BY <1>1, <1>2, <1>3, <1>4, <1>5

LEMMA ReadyStep == ASSUME RunInv, NEW p \in Workers, I!Ready(p) PROVE RunInv'
  <1> DEFINE m == team[p].m
             r == I!ResumeState(m)
             ch == [I!Idle("round", m) EXCEPT !.round = r.round, !.heard = r.heard]
  <1>1. Holds(p) /\ team[p].pc = "ready" /\ Going(m)
    BY DEF I!Ready, RunInv, Holds
  <1>2. CASE I!Fail(p, "failed_readiness", m)
    BY <1>1, <1>2, Fails DEF I!Ready, I!Statuses, RunInv, RunTyped, DiskTyped
  <1>3. CASE I!Persist(p, m, ch)
    <2>1. /\ r.round \in 1..(MaxRounds + 1) /\ r.heard \in BOOLEAN
          /\ r.round <= MaxRounds => r.round <= Len(m.rounds) + 1
          /\ r.round \in 2..MaxRounds =>
               r.heard \/ Len(m.rounds) = r.round \/ ~verdict[r.round - 1].violations
      BY <1>1, Resuming
    <2>8. r.round \in 0..(MaxRounds + 1) /\ 0 \in 0..(MaxRounds + 1) /\ m \in I!Manifests
      BY <1>1, <2>1, Bounds DEF Going
    <2> HIDE DEF r, m
    <2>2. /\ ch \in Member /\ ch.pc = "round" /\ ch.m = m /\ ch.round = r.round
          /\ ch.heard = r.heard /\ ch.waits = FALSE
      BY <2>1, <2>8 DEF I!Idle, Member
    <2>3. I!Persist(p, m, ch)
      BY <1>3 DEF m, r
    <2> HIDE DEF ch
    <2>4. ASSUME team' = [team EXCEPT ![p] = ch] PROVE team'[p] = ch
      BY <2>4 DEF RunInv, RunTyped
    <2>5. UNCHANGED verdict
      BY DEF I!Ready
    <2>6. ASSUME team' = [team EXCEPT ![p] = ch] PROVE Holds(p)'
      BY <1>1, <2>1, <2>2, <2>4, <2>5, <2>6 DEF Holds, InRound, Going, Known
    <2>7. ASSUME disk' = m, team' = [team EXCEPT ![p] = ch] PROVE Finds(p)'
      BY <1>1, <2>1, <2>2, <2>4, <2>5, <2>7 DEF Finds, Going
    <2> QED
      BY <1>1, <2>2, <2>3, <2>6, <2>7, Persists DEF I!Ready
  <1> QED
    BY <1>2, <1>3 DEF I!Ready

LEMMA RoundStep == ASSUME RunInv, NEW p \in Workers, I!Begin(p) PROVE RunInv'
  <1> DEFINE r == team[p].round
             m == [team[p].m EXCEPT !.rounds = Append(SubSeq(@, 1, r - 1), "running")]
             ch == [team[p] EXCEPT !.pc = "investigator", !.m = m]
  <1>1. /\ Holds(p) /\ team[p] \in Member /\ team[p].pc = "round" /\ Going(team[p].m)
        /\ team[p].waits = FALSE
    BY DEF I!Begin, RunInv, RunTyped, Holds, Member
  <1>4. r \in Int /\ MaxRounds \in Int
    BY <1>1, Bounds DEF Member
  <1>2. CASE r > MaxRounds
    <2>1. I!Fail(p, "failed_validator_exhausted", team[p].m) /\ UNCHANGED rows
      BY <1>2, <1>4 DEF I!Begin
    <2> QED
      BY <1>1, <2>1, Fails DEF I!Begin, I!Statuses, RunInv, RunTyped, DiskTyped
  <1>3. CASE r <= MaxRounds
    <2>1. r \in 1..MaxRounds /\ r <= Len(team[p].m.rounds) + 1
      BY <1>1, <1>3, Bounds DEF Holds, Member
    <2>2. Going(m) /\ Len(m.rounds) = r
      BY <1>1, <2>1, Beginning
    <2>3. team' = [team EXCEPT ![p].pc = "investigator", ![p].m = m] /\ UNCHANGED disk
          /\ rows' = [rows EXCEPT ![<<r, "investigator">>] = p]
      BY <1>3, Bounds, <2>1 DEF I!Begin
    <2> HIDE DEF m
    <2>4. /\ ch \in Member /\ ch.pc = "investigator" /\ ch.m = m /\ ch.round = r
          /\ ch.waits = FALSE
      BY <1>1, <2>2 DEF Member, InRound, Going
    <2>5. team' = [team EXCEPT ![p] = ch]
      BY <2>3
    <2>6. rows' \in [I!Steps -> Workers \cup {None}]
      BY <2>3 DEF RunInv, RunTyped, DiskTyped
    <2> HIDE DEF ch
    <2>7. team'[p] = ch /\ UNCHANGED <<verdict, disk>>
      BY <2>3, <2>5 DEF I!Begin, RunInv, RunTyped
    <2>8. Holds(p)'
      BY <2>1, <2>2, <2>4, <2>7 DEF Holds, InRound, Going, Known
    <2>9. ~crowded => Finds(p)'
      BY <1>1, <2>4, <2>7 DEF Finds, RunInv, AloneFinds
    <2> QED
      BY <1>1, <2>3, <2>4, <2>5, <2>6, <2>8, <2>9, Quiet DEF I!Begin, RunInv, RunTyped, DiskTyped
  <1> QED
    BY <1>2, <1>3, <1>4

(* Codex hits a limit, and goes on.                                        *)
LEMMA PauseStep ==
  ASSUME RunInv, NEW p \in Workers, I!Pause(p) \/ I!GoOn(p) PROVE RunInv'
  <1> DEFINE m == [team[p].m EXCEPT !.status = disk'.status, !.error = disk'.error]
  <1>1. /\ Holds(p) /\ team[p] \in Member /\ Going(team[p].m)
        /\ team[p].pc \in {"investigator", "validator"}
    BY DEF I!Pause, I!GoOn, I!Prompting, RunInv, RunTyped, Holds
  <1>2. PICK w \in BOOLEAN, s \in {"paused", "running"}, e \in BOOLEAN :
          /\ disk' = [team[p].m EXCEPT !.status = s, !.error = e]
          /\ team' = [team EXCEPT ![p].waits = w]
    BY DEF I!Pause, I!GoOn
  <1> DEFINE ch == [team[p] EXCEPT !.waits = w]
  <1>3. /\ ch \in Member /\ ch.pc = team[p].pc /\ ch.m = team[p].m /\ ch.round = team[p].round
        /\ ch.r = team[p].r
    BY <1>1 DEF Member
  <1>4. team' = [team EXCEPT ![p] = ch]
    BY <1>2
  <1> HIDE DEF ch
  <1>5. Going(disk') /\ disk'.rounds = team[p].m.rounds
    BY <1>1, <1>2, Stating DEF I!Statuses
  <1>6. team'[p] = ch /\ UNCHANGED <<crowded, verdict, report, final, servers, mcp, rows>>
    BY <1>4 DEF I!Pause, I!GoOn, RunInv, RunTyped
  <1>7. Holds(p)'
    BY <1>1, <1>3, <1>6 DEF Holds, InRound, Going, Known
  <1>8. ~crowded => Finds(p)'
    BY <1>1, <1>3, <1>5, <1>6 DEF Finds, RunInv, AloneFinds, Going
  <1> QED
    BY <1>1, <1>3, <1>4, <1>5, <1>6, <1>7, <1>8, Written DEF RunInv, RunTyped, DiskTyped

(* What is not the process's own doing changes only rows and servers.      *)
LEMMA AsideStep ==
  ASSUME RunInv, (\E p \in Workers : I!Heartbeat(p)) \/ I!ServerChanges \/ I!Clean
  PROVE RunInv'
  <1>1. rows' \in [I!Steps -> Workers \cup {None}] /\ servers' \in {"ok", "broken"}
    BY DEF I!Heartbeat, I!ServerChanges, I!Clean, RunInv, RunTyped, DiskTyped
  <1>2. UNCHANGED <<disk, mcp, verdict, report, final, team, crowded>>
    BY DEF I!Heartbeat, I!ServerChanges, I!Clean
  <1>3. RunTyped' /\ Founded'
    BY <1>1, <1>2 DEF RunInv, RunTyped, DiskTyped, Founded, Known
  <1>4. \A q \in Workers : Holds(q)'
    BY <1>2, Unmoved
  <1>5. AloneFinds'
    BY <1>2 DEF RunInv, AloneFinds, Finds, Named
  <1> QED
    BY <1>3, <1>4, <1>5 DEF RunInv

LEMMA DeathStep == ASSUME RunInv, NEW p \in Workers, I!Crash(p) PROVE RunInv'
  <1>1. team[p].pc # "ended"
    BY DEF I!Crash, I!Live
  <1>2. team'[p] = I!Ended
    BY DEF I!Crash, RunInv, RunTyped
  <1>3. Holds(p)' /\ Finds(p)'
    BY <1>2, EndedMember DEF Holds, Finds, InRound
  <1> QED
    BY <1>1, <1>3, EndedMember, Quiet DEF I!Crash, RunInv, RunTyped, DiskTyped

LEMMA PromptFailsStep == ASSUME RunInv, NEW p \in Workers, I!PromptFails(p) PROVE RunInv'
  <1>1. /\ Holds(p) /\ team[p].pc \in InRound /\ Going(team[p].m)
        /\ Len(team[p].m.rounds) > 0
    BY Bounds DEF I!PromptFails, I!Prompting, RunInv, Holds, InRound
  <1>2. Going(I!SetLast(team[p].m, "failed"))
    BY <1>1, GoingSet DEF I!RoundStatuses
  <1>3. rows' \in [I!Steps -> Workers \cup {None}]
    BY DEF I!PromptFails, RunInv, RunTyped, DiskTyped
  <1> QED
    BY <1>1, <1>2, <1>3, Fails DEF I!PromptFails, I!Statuses, InRound, RunInv, RunTyped, DiskTyped

(***************************************************************************)
(* An investigation: the answers of Codex                                  *)
(***************************************************************************)
LEMMA RowsTyped ==
  ASSUME RunInv, NEW p \in Workers, NEW s, NEW x \in Workers \cup {None}
  PROVE [rows EXCEPT ![s] = x] \in [I!Steps -> Workers \cup {None}]
  BY DEF RunInv, RunTyped, DiskTyped

(* A manifest stays one of a run that goes on, whatever verdict is added.   *)
LEMMA StaysGoing ==
  ASSUME NEW m, Going(m), \A i \in 1..MaxRounds : verdict[i] # None => verdict'[i] # None
  PROVE m \in I!Manifests /\ m.status # "completed" /\ Len(m.rounds) <= MaxRounds /\ Known(m)'
  <1>1. Len(m.rounds) \in Nat /\ Len(m.rounds) <= MaxRounds
    BY DEF Going, I!Manifests
  <1>2. 1..Len(m.rounds) \subseteq 1..MaxRounds
    BY <1>1, Bounds
  <1> QED
    BY <1>2 DEF Going, Known

(* The verdict on the round of p is written.                               *)
LEMMA Answered ==
  ASSUME RunInv, NEW p \in Workers, team[p].pc \in InRound, NEW v \in I!Verdicts,
         verdict' = [verdict EXCEPT ![team[p].round] = v],
         NEW ch \in Member, team' = [team EXCEPT ![p] = ch], ch.round = team[p].round,
         ch.r = team[p].r, ch.waits = FALSE, Going(ch.m), Len(ch.m.rounds) = ch.round,
         \/ ch.pc = "revise" /\ (v.violations => ch.heard)
         \/ /\ ch.pc = "accept" /\ team[p].pc = "validator"
            /\ I!Violations(ch.r) = {} /\ v = [accepted |-> TRUE, violations |-> FALSE],
         UNCHANGED <<disk, mcp, servers, report, final, crowded>>,
         rows' \in [I!Steps -> Workers \cup {None}]
  PROVE RunInv'
  <1>1. /\ Holds(p) /\ team[p].pc # "ended" /\ team[p].round \in 1..MaxRounds
        /\ team'[p] = ch
    BY DEF RunInv, RunTyped, Holds, InRound
  <1>2. /\ verdict' \in [1..MaxRounds -> I!Verdicts \cup {None}]
        /\ verdict'[ch.round] = v /\ v # None
        /\ \A i \in 1..MaxRounds : verdict[i] # None => verdict'[i] # None
    BY <1>1, NoneApart DEF RunInv, RunTyped, DiskTyped
  <1>3. DiskTyped'
    BY <1>2 DEF RunInv, RunTyped, DiskTyped
  <1>4. Founded'
    <2>1. disk # None => Known(disk)'
      <3> SUFFICES ASSUME disk # None PROVE Known(disk)'
        OBVIOUS
      <3>1. Len(disk.rounds) \in Nat /\ Len(disk.rounds) <= MaxRounds
        BY DEF RunInv, RunTyped, DiskTyped, I!Manifests
      <3>2. 1..Len(disk.rounds) \subseteq 1..MaxRounds
        BY <3>1, Bounds
      <3> QED
        BY <1>2, <3>2 DEF RunInv, Founded, Known
    <2> QED
      BY <2>1 DEF RunInv, Founded
  <1>5. Going(ch.m)'
    BY <1>1, <1>2, StaysGoing DEF Going
  <1>6. Holds(p)'
    BY <1>1, <1>2, <1>5 DEF Holds, InRound
  <1>7. ASSUME ~crowded PROVE Finds(p)' /\ Named'
    <2>1. Finds(p)
      BY <1>7 DEF RunInv, AloneFinds
    <2>2. Named'
      BY <1>1, <2>1 DEF Finds, Named
    <2>3. CASE ch.pc = "revise" /\ (v.violations => ch.heard)
      <3>1. disk' = None \/ disk'.status # "completed"
        BY <1>1, <2>1 DEF Finds
      <3>2. verdict'[team'[p].round].violations => team'[p].heard
        BY <1>1, <1>2, <2>3
      <3>3. team'[p].pc = "revise"
        BY <1>1, <2>3
      <3> QED
        BY <2>2, <3>1, <3>2, <3>3 DEF Finds
    <2>4. CASE /\ ch.pc = "accept" /\ team[p].pc = "validator"
               /\ v = [accepted |-> TRUE, violations |-> FALSE]
      <3>1. disk' = None \/ disk'.status # "completed"
        BY <1>1, <2>1 DEF Finds
      <3>2. verdict'[team'[p].round] = [accepted |-> TRUE, violations |-> FALSE]
        BY <1>1, <1>2, <2>4
      <3>3. team'[p].pc = "accept" /\ report'[team'[p].round] = team'[p].r
        BY <1>1, <2>1, <2>4 DEF Finds
      <3> QED
        BY <2>2, <3>1, <3>2, <3>3 DEF Finds
    <2> QED
      BY <2>2, <2>3, <2>4
  <1> QED
    BY <1>1, <1>2, <1>3, <1>4, <1>6, <1>7, Stepped

(* An answer that does not parse counts as a rejection.                    *)
LEMMA GarbledStep ==
  ASSUME RunInv, NEW p \in Workers, I!GarbledReport(p) \/ I!GarbledVerdict(p)
  PROVE RunInv'
  <1>1. /\ Holds(p) /\ team[p] \in Member /\ Going(team[p].m) /\ team[p].waits = FALSE
        /\ team[p].pc \in {"investigator", "validator"} /\ team[p].round \in 1..MaxRounds
        /\ Len(team[p].m.rounds) = team[p].round
    BY DEF I!GarbledReport, I!GarbledVerdict, I!Answering, RunInv, RunTyped, Holds, InRound, Member
  <1>2. PICK s \in {"failed_report_parse", "failed_validator_parse"} :
          team' = [team EXCEPT ![p].pc = "revise", ![p].heard = TRUE, ![p].m.status = s]
    BY DEF I!GarbledReport, I!GarbledVerdict
  <1> DEFINE m == [team[p].m EXCEPT !.status = s]
             ch == [team[p] EXCEPT !.pc = "revise", !.heard = TRUE, !.m = m]
  <1>3. team' = [team EXCEPT ![p] = ch]
    BY <1>1, <1>2 DEF RunInv, RunTyped
  <1>4. Going(m) /\ m.rounds = team[p].m.rounds
    BY <1>1 DEF Going, Known, I!Manifests, I!Statuses
  <1> HIDE DEF m
  <1>5. /\ ch \in Member /\ ch.pc = "revise" /\ ch.m = m /\ ch.round = team[p].round
        /\ ch.heard = TRUE /\ ch.waits = FALSE
    BY <1>1, <1>4 DEF Member, InRound, Going
  <1> HIDE DEF ch
  <1>6. /\ verdict' = [verdict EXCEPT ![team[p].round] = I!Unreadable]
        /\ UNCHANGED <<disk, mcp, servers, report, final, crowded>>
        /\ rows' \in [I!Steps -> Workers \cup {None}]
    BY RowsTyped DEF I!GarbledReport, I!GarbledVerdict
  <1>7. I!Unreadable \in I!Verdicts
    BY DEF I!Unreadable, I!Verdicts
  <1>8. ch.r = team[p].r /\ team[p].pc \in InRound
    BY <1>1 DEF ch, Member, InRound
  <1> QED
    BY <1>1, <1>3, <1>4, <1>5, <1>6, <1>7, <1>8, Answered

LEMMA ValidatedStep ==
  ASSUME RunInv, NEW p \in Workers, NEW a \in BOOLEAN, NEW o \in BOOLEAN,
         I!Validated(p, a, o)
  PROVE RunInv'
  <1> DEFINE v == I!Judged(team[p].r, a, o)
             ch == [team[p] EXCEPT !.pc = IF v.accepted THEN "accept" ELSE "revise",
                                   !.heard = v.violations]
  <1>1. /\ Holds(p) /\ team[p] \in Member /\ Going(team[p].m) /\ team[p].waits = FALSE
        /\ team[p].pc = "validator" /\ team[p].round \in 1..MaxRounds
        /\ Len(team[p].m.rounds) = team[p].round
    BY DEF I!Validated, I!Answering, RunInv, RunTyped, Holds, InRound, Member
  <1>2. /\ v \in I!Verdicts
        /\ v.accepted => /\ I!Violations(team[p].r) = {}
                         /\ v = [accepted |-> TRUE, violations |-> FALSE]
    BY Judging
  <1>3. /\ verdict' = [verdict EXCEPT ![team[p].round] = v]
        /\ team' = [team EXCEPT ![p].pc = IF v.accepted THEN "accept" ELSE "revise",
                                ![p].heard = v.violations]
        /\ UNCHANGED <<disk, mcp, servers, report, final, crowded>>
        /\ rows' \in [I!Steps -> Workers \cup {None}]
    BY RowsTyped DEF I!Validated
  <1> HIDE DEF v
  <1>4. team' = [team EXCEPT ![p] = ch]
    BY <1>3
  <1>5. /\ ch \in Member /\ ch.m = team[p].m /\ ch.round = team[p].round
        /\ ch.r = team[p].r /\ ch.waits = FALSE
        /\ ch.pc = IF v.accepted THEN "accept" ELSE "revise"
        /\ ch.heard = v.violations
    BY <1>1, <1>2 DEF Member, InRound, I!Verdicts
  <1> HIDE DEF ch
  <1>6. \/ ch.pc = "revise" /\ (v.violations => ch.heard)
        \/ /\ ch.pc = "accept" /\ team[p].pc = "validator"
           /\ I!Violations(ch.r) = {} /\ v = [accepted |-> TRUE, violations |-> FALSE]
    BY <1>1, <1>2, <1>5
  <1>7. Going(ch.m) /\ Len(ch.m.rounds) = ch.round /\ team[p].pc \in InRound
    BY <1>1, <1>5 DEF InRound
  <1> QED
    BY <1>2, <1>3, <1>4, <1>5, <1>6, <1>7, Answered

LEMMA ReportedStep ==
  ASSUME RunInv, NEW p \in Workers, NEW r \in Found, I!Reported(p, r)
  PROVE RunInv'
  <1> DEFINE ch == [team[p] EXCEPT !.pc = "validator", !.r = r]
  <1>1. /\ Holds(p) /\ team[p] \in Member /\ Going(team[p].m) /\ team[p].waits = FALSE
        /\ team[p].pc = "investigator" /\ team[p].round \in 1..MaxRounds
        /\ Len(team[p].m.rounds) = team[p].round
    BY DEF I!Reported, I!Answering, RunInv, RunTyped, Holds, InRound, Member
  <1>2. /\ report' = [report EXCEPT ![team[p].round] = r]
        /\ team' = [team EXCEPT ![p] = ch]
        /\ UNCHANGED <<disk, mcp, servers, verdict, final, crowded>>
        /\ rows' \in [I!Steps -> Workers \cup {None}]
    BY DEF I!Reported, RunInv, RunTyped, DiskTyped
  <1>3. /\ ch \in Member /\ ch.pc = "validator" /\ ch.m = team[p].m
        /\ ch.round = team[p].round /\ ch.r = r /\ ch.waits = FALSE
    BY <1>1 DEF Member, InRound
  <1> HIDE DEF ch
  <1>4. team'[p] = ch /\ report' \in [1..MaxRounds -> Found \cup {None}]
        /\ report'[ch.round] = r
    BY <1>1, <1>2, <1>3 DEF RunInv, RunTyped, DiskTyped
  <1>5. DiskTyped' /\ Founded'
    BY <1>2, <1>4 DEF RunInv, RunTyped, DiskTyped, Founded, Known
  <1>6. Holds(p)'
    BY <1>1, <1>2, <1>3, <1>4, NoneApart DEF Holds, InRound, Going, Known
  <1>7. ~crowded => Finds(p)' /\ Named'
    BY <1>1, <1>2, <1>3, <1>4 DEF RunInv, AloneFinds, Finds, Named
  <1> QED
    BY <1>1, <1>2, <1>3, <1>5, <1>6, <1>7, Stepped

LEMMA ReviseStep == ASSUME RunInv, NEW p \in Workers, I!Revise(p) PROVE RunInv'
  <1> DEFINE m == I!SetLast(team[p].m, "needs_revision")
             ch == [I!Idle("round", m) EXCEPT !.round = team[p].round + 1,
                                              !.heard = team[p].heard]
  <1>1. /\ Holds(p) /\ team[p] \in Member /\ Going(team[p].m)
        /\ team[p].pc = "revise" /\ team[p].round \in 1..MaxRounds
        /\ Len(team[p].m.rounds) = team[p].round /\ verdict[team[p].round] # None
    BY DEF I!Revise, RunInv, RunTyped, Holds, InRound
  <1>2. Going(m) /\ Len(m.rounds) = team[p].round
    BY <1>1, GoingSet, Bounds DEF I!RoundStatuses
  <1>3. I!Persist(p, m, ch) /\ UNCHANGED <<crowded, verdict, report, final, servers, mcp, rows>>
    BY DEF I!Revise
  <1> HIDE DEF m
  <1>4. team[p].round + 1 \in 1..(MaxRounds + 1) /\ team[p].round + 1 \in 0..(MaxRounds + 1)
        /\ 0 \in 0..(MaxRounds + 1) /\ team[p].heard \in BOOLEAN /\ m \in I!Manifests
    BY <1>1, <1>2, Bounds DEF Member, Going
  <1>5. /\ ch \in Member /\ ch.pc = "round" /\ ch.m = m /\ ch.round = team[p].round + 1
        /\ ch.heard = team[p].heard /\ ch.waits = FALSE
    BY <1>4 DEF I!Idle, Member
  <1> HIDE DEF ch
  <1>6. ASSUME team' = [team EXCEPT ![p] = ch] PROVE team'[p] = ch
    BY <1>6 DEF RunInv, RunTyped
  <1>7. ASSUME team' = [team EXCEPT ![p] = ch] PROVE Holds(p)'
    BY <1>1, <1>2, <1>3, <1>4, <1>5, <1>6, <1>7, Bounds DEF Holds, InRound, Going, Known
  <1>8. ASSUME ~crowded, disk' = m, team' = [team EXCEPT ![p] = ch] PROVE Finds(p)'
    <2>1. verdict[team[p].round].violations => team[p].heard
      BY <1>1, <1>8 DEF RunInv, AloneFinds, Finds
    <2>2. ch.round - 1 = team[p].round
      BY <1>1, <1>5, Bounds
    <2> QED
      BY <1>1, <1>2, <1>3, <1>5, <1>6, <1>8, <2>1, <2>2 DEF Finds, Going
  <1> QED
    BY <1>1, <1>2, <1>3, <1>5, <1>7, <1>8, Persists

LEMMA FinaliseStep == ASSUME RunInv, NEW p \in Workers, I!Finalise(p) PROVE RunInv'
  <1> DEFINE ch == [team[p] EXCEPT !.pc = "complete"]
  <1>1. /\ Holds(p) /\ team[p] \in Member /\ Going(team[p].m) /\ team[p].waits = FALSE
        /\ team[p].pc = "accept" /\ team[p].round \in 1..MaxRounds /\ team[p].r # None
        /\ Len(team[p].m.rounds) = team[p].round /\ I!Violations(team[p].r) = {}
    BY DEF I!Finalise, RunInv, RunTyped, Holds, InRound, Member
  <1>2. /\ final' = team[p].r /\ team' = [team EXCEPT ![p] = ch]
        /\ UNCHANGED <<disk, mcp, servers, verdict, report, rows, crowded>>
    BY DEF I!Finalise
  <1>3. /\ ch \in Member /\ ch.pc = "complete" /\ ch.m = team[p].m
        /\ ch.round = team[p].round /\ ch.r = team[p].r /\ ch.waits = FALSE
    BY <1>1 DEF Member, InRound
  <1> HIDE DEF ch
  <1>4. team'[p] = ch /\ final' \in Found
    BY <1>1, <1>2 DEF RunInv, RunTyped, Member
  <1>5. DiskTyped' /\ Founded'
    BY <1>1, <1>2, <1>4 DEF RunInv, RunTyped, DiskTyped, Founded, Known
  <1>6. Holds(p)'
    BY <1>1, <1>2, <1>3, <1>4 DEF Holds, InRound, Going, Known
  <1>7. ~crowded => Finds(p)' /\ Named'
    BY <1>1, <1>2, <1>3, <1>4 DEF RunInv, AloneFinds, Finds, Named
  <1> QED
    BY <1>1, <1>2, <1>3, <1>5, <1>6, <1>7, Stepped

(* The manifest says completed, and names the round.                       *)
LEMMA CompleteStep == ASSUME RunInv, NEW p \in Workers, I!Complete(p) PROVE RunInv'
  <1> DEFINE n == I!SetLast(team[p].m, "accepted")
             m == [n EXCEPT !.status = "completed", !.accepted = team[p].round]
  <1>1. /\ Holds(p) /\ team[p] \in Member /\ Going(team[p].m) /\ team[p].pc = "complete"
        /\ team[p].round \in 1..MaxRounds /\ final # None
        /\ Len(team[p].m.rounds) = team[p].round
    BY DEF I!Complete, RunInv, RunTyped, Holds, InRound
  <1>2. Going(n)
    BY <1>1, GoingSet, Bounds DEF I!RoundStatuses
  <1>3. /\ I!Persist(p, m, I!Ended)
        /\ UNCHANGED <<crowded, verdict, report, final, servers, mcp, rows>>
    BY DEF I!Complete
  <1> HIDE DEF n
  <1>10. team[p].round \in 0..MaxRounds /\ n \in I!Manifests
    BY <1>1, <1>2, Bounds DEF Going
  <1>4. /\ m \in I!Manifests /\ m.status = "completed" /\ m.accepted = team[p].round
        /\ m.rounds = n.rounds
    BY <1>10 DEF I!Manifests, I!Statuses
  <1> HIDE DEF m
  <1>5. Len(m.rounds) <= MaxRounds /\ Known(m)
    BY <1>2, <1>4 DEF Going, Known
  <1>6. team'[p] = I!Ended
    BY <1>3 DEF I!Persist, I!Fail, RunInv, RunTyped
  <1>7. Holds(p)' /\ Finds(p)'
    BY <1>6, EndedMember DEF Holds, Finds, InRound
  <1>8. CASE disk' = m /\ team' = [team EXCEPT ![p] = I!Ended]
    <2>1. DiskTyped' /\ Founded'
      BY <1>1, <1>3, <1>4, <1>5, <1>8 DEF RunInv, RunTyped, DiskTyped, Founded, Known
    <2>2. ~crowded => Named'
      BY <1>1, <1>3, <1>4, <1>8 DEF RunInv, AloneFinds, Finds, Named
    <2> QED
      BY <1>1, <1>3, <1>7, <1>8, <2>1, <2>2, EndedMember, Stepped
  <1>9. CASE I!Fail(p, "failed_executor", m)
    <2> DEFINE f == [m EXCEPT !.status = "failed_executor", !.error = TRUE]
    <2>1. f \in I!Manifests /\ f.status = "failed_executor" /\ f.rounds = m.rounds
      BY <1>4 DEF I!Manifests, I!Statuses
    <2>2. disk' = f /\ team' = [team EXCEPT ![p] = I!Ended]
      BY <1>9 DEF I!Fail
    <2> HIDE DEF f
    <2>3. Going(f)
      BY <1>5, <2>1 DEF Going, Known
    <2> QED
      BY <1>1, <1>3, <1>7, <2>2, <2>3, EndedMember, Written DEF RunInv, RunTyped, DiskTyped
  <1> QED
    BY <1>3, <1>8, <1>9 DEF I!Persist

(***************************************************************************)
(* An investigation: the theorems                                          *)
(***************************************************************************)
LEMMA RunInit == I!Init => RunInv
  <1> SUFFICES ASSUME I!Init PROVE RunInv
    OBVIOUS
  <1>1. \A p \in Workers : team[p] = I!Ended
    BY DEF I!Init
  <1>2. RunTyped
    BY EndedMember DEF I!Init, RunTyped, DiskTyped
  <1>3. \A p \in Workers : Holds(p) /\ Finds(p)
    BY <1>1, EndedMember DEF Holds, Finds, InRound
  <1>4. Founded /\ AloneFinds
    BY <1>1, <1>3, EndedMember DEF I!Init, Founded, AloneFinds, Named
  <1> QED
    BY <1>2, <1>3, <1>4 DEF RunInv

LEMMA RunNext == RunInv /\ I!Next => RunInv'
  <1> SUFFICES ASSUME RunInv, I!Next PROVE RunInv'
    OBVIOUS
  <1>1. ASSUME NEW p \in Workers, I!Work(p) PROVE RunInv'
    BY <1>1, ProbeStep, ReadyStep, RoundStep, ReviseStep, FinaliseStep, CompleteStep,
       PauseStep, ReportedStep, ValidatedStep DEF I!Work, I!Answers
  <1> QED
    BY <1>1, StartStep, RejoinStep, PauseStep, AsideStep, PromptFailsStep, GarbledStep,
       DeathStep, RecoverStep DEF I!Next

LEMMA RunStays ==
  ASSUME RunInv, UNCHANGED investigationVars PROVE RunInv'
  <1>1. \A q \in Workers : Holds(q)'
    BY Unmoved DEF investigationVars
  <1>2. RunTyped' /\ Founded'
    BY DEF investigationVars, RunInv, RunTyped, DiskTyped, Founded, Known
  <1>3. AloneFinds'
    BY DEF investigationVars, RunInv, AloneFinds, Finds, Named
  <1> QED
    BY <1>1, <1>2, <1>3 DEF RunInv

(* Without an investigation nobody works on one.                           *)
RunsWell ==
  /\ part = "investigation" => RunInv
  /\ part # "investigation" => team = [p \in Workers |-> I!Ended]

LEMMA RunInvariant == MCInit /\ [][MCNext]_allVars => []RunsWell
  <1>1. MCInit => RunsWell
    BY RunInit DEF MCInit, NoInvestigation, RunsWell
  <1>2. RunsWell /\ [MCNext]_allVars => RunsWell'
    BY RunNext, RunStays DEF RunsWell, MCNext, Aside, Beside, allVars, investigationVars
  <1> QED
    BY <1>1, <1>2, PTL

(* A completed investigation has a final report whose claims are proved,   *)
(* after whatever crash, retry and second process (investigate.go).        *)
THEOREM ConclusionsProved == MCSpec => []CompletedProved
  <1>1. RunInv => I!TypeOK
    BY DEF RunInv, RunTyped, DiskTyped, Member, I!TypeOK, I!Live
  <1>2. RunInv => I!CompletedProved
    BY NoViolationProves DEF RunInv, RunTyped, DiskTyped, Founded, AloneFinds, Named,
       I!CompletedProved
  <1>3. RunsWell => CompletedProved
    BY <1>1, <1>2 DEF RunsWell, CompletedProved
  <1> QED
    BY <1>3, RunInvariant, PTL DEF MCSpec

(* Whoever goes on after a rejected round knows what was wrong with its    *)
(* report (investigateResumeState and the rounds of investigate.go).       *)
THEOREM RevisionsTold == MCSpec => RevisionTold
  <1> DEFINE Ignorant(p) == LET r == team[p].round IN
               I!Begin(p) /\ ~crowded /\ r \in 2..MaxRounds /\ verdict[r - 1].violations
             Knows(p) == team[p].heard \/ Len(team[p].m.rounds) = team[p].round
  <1>1. ASSUME RunsWell, NEW p \in Workers, Ignorant(p) PROVE Knows(p)
    <2>1. CASE part = "investigation"
      BY <1>1, <2>1 DEF RunsWell, RunInv, AloneFinds, Finds, I!Begin
    <2>2. CASE part # "investigation"
      BY <1>1, <2>2, EndedMember DEF RunsWell, I!Begin
    <2> QED
      BY <2>1, <2>2
  <1>2. RunsWell /\ [MCNext]_allVars => [\A p \in Workers : Ignorant(p) => Knows(p)]_(I!vars)
    BY <1>1
  <1> QED
    BY <1>2, RunInvariant, PTL DEF MCSpec, RevisionTold, I!RevisionTold

-----------------------------------------------------------------------------
(***************************************************************************)
(* Accounts: sequences of accounts                                         *)
(***************************************************************************)
LEMMA LeastNatural ==
  ASSUME NEW T, T \subseteq Nat, T # {}
  PROVE  A!Min(T) \in T /\ \A y \in T : A!Min(T) <= y
  <1>1. PICK x \in T : \A y \in T : ~(<<y, x>> \in OpToRel(<, Nat))
    BY WFMin, NatLessThanWellFounded, Zenon
  <1>2. \A y \in T : <<y, x>> \in Nat \X Nat
    OBVIOUS
  <1>3. \A y \in T : ~(y < x)
    BY <1>1, <1>2 DEF OpToRel
  <1>4. \A y \in T : x <= y
    BY <1>3
  <1> QED
    BY <1>4 DEF A!Min

LEMMA FirstFits ==
  ASSUME NEW S, NEW seq \in Seq(S), NEW fit
  PROVE  \/ A!First(seq, fit) = None /\ A!Range(seq) \cap fit = {}
         \/ A!First(seq, fit) \in A!Range(seq) \cap fit
  <1> DEFINE places == {i \in DOMAIN seq : seq[i] \in fit}
  <1>1. A!First(seq, fit) = IF places = {} THEN None ELSE seq[A!Min(places)]
    BY DEF A!First
  <1>2. places \subseteq Nat
    OBVIOUS
  <1>3. places # {} => A!Min(places) \in places
    BY <1>2, LeastNatural
  <1>4. places = {} => A!Range(seq) \cap fit = {}
    BY DEF A!Range
  <1> QED
    BY <1>1, <1>3, <1>4 DEF A!Range

LEMMA WithoutKeeps ==
  ASSUME NEW S, NEW seq \in Seq(S), NEW a
  PROVE  /\ A!Without(seq, a) \in Seq(S)
         /\ A!Range(A!Without(seq, a)) \subseteq A!Range(seq)
         /\ A!Range(seq) \ {a} \subseteq A!Range(A!Without(seq, a))
  <1> DEFINE places == {i \in DOMAIN seq : seq[i] = a}
             i == A!Min(places)
             left == SubSeq(seq, 1, i - 1)
             right == SubSeq(seq, i + 1, Len(seq))
  <1>1. A!Without(seq, a) = IF places = {} THEN seq ELSE left \o right
    BY DEF A!Without, A!RemoveAt
  <1>2. CASE places = {}
    BY <1>1, <1>2 DEF A!Range
  <1>3. CASE places # {}
    <2>1. i \in 1..Len(seq) /\ seq[i] = a
      <3>1. places \subseteq Nat
        OBVIOUS
      <3>2. i \in places
        BY <1>3, <3>1, LeastNatural
      <3> HIDE DEF i
      <3> QED
        BY <3>2
    <2> HIDE DEF i
    <2>2. left \in Seq(S) /\ Len(left) = i - 1 /\ \A j \in 1..i - 1 : left[j] = seq[j]
      BY <2>1
    <2>3. right \in Seq(S) /\ Len(right) = Len(seq) - i
          /\ \A j \in 1..Len(seq) - i : right[j] = seq[i + j]
      BY <2>1
    <2> HIDE DEF left, right
    <2> DEFINE both == left \o right
    <2>4. both \in Seq(S) /\ Len(both) = Len(seq) - 1
          /\ \A j \in 1..Len(seq) - 1 : both[j] = IF j < i THEN seq[j] ELSE seq[j + 1]
      <3>1. both \in Seq(S) /\ Len(both) = Len(seq) - 1
        <4>1. both \in Seq(S) /\ Len(both) = Len(left) + Len(right)
          BY <2>2, <2>3
        <4> QED
          BY <2>1, <2>2, <2>3, <4>1
      <3>2. ASSUME NEW j \in 1..Len(seq) - 1, j < i PROVE both[j] = seq[j]
        BY <2>1, <2>2, <2>3, <3>2
      <3>3. ASSUME NEW j \in 1..Len(seq) - 1, j >= i PROVE both[j] = seq[j + 1]
        <4>1. both[j] = right[j - (i - 1)]
          BY <2>1, <2>2, <2>3, <3>3
        <4>2. j - (i - 1) \in 1..Len(seq) - i /\ i + (j - (i - 1)) = j + 1
          BY <2>1, <3>3
        <4> QED
          BY <2>3, <4>1, <4>2
      <3> QED
        BY <2>1, <3>1, <3>2, <3>3
    <2> HIDE DEF both
    <2>5. A!Range(both) \subseteq A!Range(seq)
      BY <2>1, <2>4 DEF A!Range
    <2>6. ASSUME NEW b \in A!Range(seq) \ {a} PROVE b \in A!Range(both)
      <3>1. PICK j \in 1..Len(seq) : seq[j] = b
        BY DEF A!Range
      <3>2. j # i
        BY <2>1, <3>1
      <3>3. CASE j < i
        BY <2>1, <2>4, <3>1, <3>3 DEF A!Range
      <3>4. CASE j > i
        <4>1. j - 1 \in 1..Len(seq) - 1 /\ both[j - 1] = b
          BY <2>1, <2>4, <3>1, <3>4
        <4> QED
          BY <2>4, <4>1 DEF A!Range
      <3> QED
        BY <2>1, <3>1, <3>2, <3>3, <3>4
    <2>7. A!Without(seq, a) = both
      BY <1>1, <1>3 DEF both
    <2> QED
      BY <2>4, <2>5, <2>6, <2>7
  <1> QED
    BY <1>2, <1>3

LEMMA PutFirstKeeps ==
  ASSUME NEW S, NEW seq \in Seq(S), NEW a
  PROVE  A!PutFirst(seq, a) \in Seq(S) /\ A!Range(A!PutFirst(seq, a)) = A!Range(seq)
  <1>1. CASE a \notin A!Range(seq)
    BY <1>1 DEF A!PutFirst
  <1>2. CASE a \in A!Range(seq)
    <2> DEFINE rest == A!Without(seq, a)
    <2>1. rest \in Seq(S) /\ A!Range(rest) \subseteq A!Range(seq)
          /\ A!Range(seq) \ {a} \subseteq A!Range(rest)
      BY WithoutKeeps
    <2> HIDE DEF rest
    <2>2. a \in S
      BY <1>2 DEF A!Range
    <2> DEFINE all == <<a>> \o rest
    <2>3. all \in Seq(S) /\ Len(all) = Len(rest) + 1 /\ all[1] = a
          /\ \A j \in 1..Len(rest) : all[j + 1] = rest[j]
      BY <2>1, <2>2
    <2>4. A!PutFirst(seq, a) = all
      BY <1>2 DEF A!PutFirst, rest
    <2> HIDE DEF all
    <2>5. \A j \in 1..Len(all) : all[j] = a \/ all[j] \in A!Range(rest)
      <3> TAKE j \in 1..Len(all)
      <3>1. CASE j = 1
        BY <2>3, <3>1
      <3>2. CASE j # 1
        <4>1. j - 1 \in 1..Len(rest) /\ all[(j - 1) + 1] = rest[j - 1]
          BY <2>1, <2>3, <3>2
        <4>2. (j - 1) + 1 = j
          BY <3>2, <2>3
        <4> QED
          BY <2>1, <4>1, <4>2 DEF A!Range
      <3> QED
        BY <3>1, <3>2
    <2>6. A!Range(all) = {a} \cup A!Range(rest)
      <3>1. A!Range(all) \subseteq {a} \cup A!Range(rest)
        BY <2>3, <2>5 DEF A!Range
      <3>2. a \in A!Range(all)
        BY <2>1, <2>3 DEF A!Range
      <3>3. \A j \in 1..Len(rest) : j + 1 \in 1..Len(all)
        BY <2>1, <2>3
      <3>4. A!Range(rest) \subseteq A!Range(all)
        BY <2>1, <2>3, <3>3 DEF A!Range
      <3> QED
        BY <3>1, <3>2, <3>4
    <2> QED
      BY <1>2, <2>1, <2>3, <2>4, <2>6
  <1> QED
    BY <1>1, <1>2

LEMMA Appended ==
  ASSUME NEW S, NEW seq \in Seq(S), NEW a \in S
  PROVE  Append(seq, a) \in Seq(S) /\ A!Range(Append(seq, a)) = A!Range(seq) \cup {a}
  <1> DEFINE all == Append(seq, a)
  <1>1. all \in Seq(S) /\ Len(all) = Len(seq) + 1 /\ all[Len(seq) + 1] = a
        /\ \A j \in 1..Len(seq) : all[j] = seq[j]
    OBVIOUS
  <1> HIDE DEF all
  <1>2. A!Range(all) \subseteq A!Range(seq) \cup {a}
    <2> SUFFICES ASSUME NEW j \in 1..Len(all) PROVE all[j] \in A!Range(seq) \cup {a}
      BY <1>1 DEF A!Range
    <2> QED
      BY <1>1 DEF A!Range
  <1>3. A!Range(seq) \cup {a} \subseteq A!Range(all)
    BY <1>1 DEF A!Range
  <1> QED
    BY <1>1, <1>2, <1>3 DEF all


LEMMA NamesListed ==
  A!SetToSeq(Names) \in Seq(Names) /\ A!SetToSeq(Names) # <<>>
  /\ A!Range(A!SetToSeq(Names)) = Names
  <1> DEFINE n == Cardinality(Names)
             seq == A!SetToSeq(Names)
  <1>1. n \in Nat /\ ExistsBijection(1..n, Names)
    <2>1. IsFiniteSet(Names)
      BY AccountsAssumption DEF A!NamesAssumption, A!IsFiniteSet, IsFiniteSet
    <2> QED
      BY <2>1, FS_CardinalityType
  <1>2. PICK f \in Bijection(1..n, Names) : TRUE
    BY <1>1 DEF ExistsBijection
  <1>3. f \in [1..n -> Names] /\ A!IsInjective(f)
    BY <1>2 DEF Bijection, Injection, IsInjective, A!IsInjective
  <1>4. seq \in [1..n -> Names] /\ A!IsInjective(seq)
    <2>1. n = A!Cardinality(Names)
      BY DEF Cardinality, A!Cardinality
    <2> HIDE DEF n
    <2> QED
      BY <1>3, <2>1 DEF A!SetToSeq
  <1> HIDE DEF seq
  <1>5. seq \in Surjection(1..n, Names)
    <2>1. seq \in Injection(1..n, Names)
      BY <1>4 DEF Injection, IsInjective, A!IsInjective
    <2>2. IsFiniteSet(1..n) /\ Cardinality(1..n) = n
      BY <1>1, FS_Interval
    <2>3. IsFiniteSet(Names)
      BY AccountsAssumption DEF A!NamesAssumption, A!IsFiniteSet, IsFiniteSet
    <2> QED
      BY <2>1, <2>2, <2>3, FS_Injection
  <1>6. A!Range(seq) = Names
    BY <1>4, <1>5 DEF A!Range, Surjection
  <1>7. seq \in Seq(Names) /\ seq # <<>>
    BY <1>1, <1>4, <1>6, AccountsAssumption DEF A!Range, A!NamesAssumption
  <1> QED
    BY <1>6, <1>7 DEF seq

-----------------------------------------------------------------------------
(***************************************************************************)
(* Accounts: the state that a decision leaves                              *)
(***************************************************************************)
Account == [result : {"none", "ok", "stale", "transient", "permanent"},
            used : 0..2, limit : BOOLEAN, retry : Nat, fresh : Nat, acted : Nat]
State == {s \in [active : Names \cup {None}, pending : Names \cup {None},
                 acct : [Names -> Account]] : s.pending # None => s.pending # s.active}
Roster == {r \in [order : Seq(Names), on : SUBSET Names, pref : Names \cup {None}] :
             r.on \subseteq A!Range(r.order)}
Registry == {r \in Roster : r.pref \in A!Range(r.order) \cup {None}}
Heard(g) == g.at \in Nat /\ \A a \in Names \cap DOMAIN g.said :
              g.said[a].level \in 0..5 /\ g.said[a].reset \in Nat

LEMMA AccountNames ==
  /\ None \notin Names /\ Names # {} /\ StaleAfter \in Nat /\ Dwell \in Nat
  /\ MaxNow \in Nat /\ MaxNow > 0 /\ Policy \in {"usage", "preferred"}
  BY AccountsAssumption DEF A!NamesAssumption, A!NatAssumption, A!PolicyAssumption

LEMMA ListedNames ==
  ASSUME NEW r \in Roster
  PROVE  /\ A!Range(r.order) \subseteq Names /\ A!Ordered(r) \in Seq(Names)
         /\ A!Range(A!Ordered(r)) = A!Range(r.order)
  <1>1. r.order \in Seq(Names)
    BY DEF Roster
  <1>2. A!Range(r.order) \subseteq Names
    BY <1>1 DEF A!Range
  <1> QED
    BY <1>1, <1>2, PutFirstKeeps DEF A!Ordered

LEMMA MergeTyped ==
  ASSUME NEW acc \in Account, NEW said, said.level \in 0..5, said.reset \in Nat,
         NEW t \in Nat
  PROVE  A!Merge(acc, said, t) \in Account
  <1> USE AccountNames DEF A!Near, A!Hard, A!Down, A!Refused
  <1>1. CASE said.level \in 0..3
    <2>1. A!Merge(acc, said, t) =
            [acc EXCEPT !.result = "ok", !.limit = said.level = 3,
                        !.used = IF said.level = 3 THEN 1 ELSE said.level,
                        !.retry = IF said.level \in {2, 3} THEN said.reset ELSE 0,
                        !.fresh = t + StaleAfter]
      BY <1>1 DEF A!Merge
    <2>2. /\ (said.level = 3) \in BOOLEAN /\ t + StaleAfter \in Nat
          /\ (IF said.level = 3 THEN 1 ELSE said.level) \in 0..2
          /\ (IF said.level \in {2, 3} THEN said.reset ELSE 0) \in Nat
      BY <1>1
    <2> QED
      BY <2>1, <2>2 DEF Account
  <1>2. CASE said.level = 4 /\ acc.fresh > 0 /\ t <= acc.fresh
    BY <1>2 DEF A!Merge, Account
  <1>3. CASE ~(said.level \in 0..3) /\ ~(said.level = 4 /\ acc.fresh > 0 /\ t <= acc.fresh)
    <2>1. A!Merge(acc, said, t) =
            [acc EXCEPT !.limit = FALSE,
                        !.result = IF said.level = 4 THEN "transient" ELSE "permanent"]
      BY <1>3 DEF A!Merge
    <2> QED
      BY <2>1 DEF Account
  <1> QED
    BY <1>1, <1>2, <1>3

(* What was just said of an account decides whether it has room.           *)
LEMMA MergeTells ==
  ASSUME NEW acc \in Account, NEW said, said.level \in 0..5, said.reset \in Nat,
         NEW t \in Nat
  PROVE  LET m == A!Merge(acc, said, t) IN
         /\ said.level < 2 => /\ m.result = "ok" /\ ~m.limit /\ m.used = said.level
                              /\ m.retry = 0 /\ m.fresh = t + StaleAfter
         /\ m.result = "ok" => /\ said.level \in 0..3
                               /\ said.level = 3 => m.limit
                               /\ said.level = 2 => m.used = 2
         /\ m.result = "stale" => said.level = 4
  <1> USE AccountNames DEF A!Near, A!Hard, A!Down, A!Refused
  <1> DEFINE m == A!Merge(acc, said, t)
  <1>1. CASE said.level \in 0..3
    <2>1. m = [acc EXCEPT !.result = "ok", !.limit = said.level = 3,
                          !.used = IF said.level = 3 THEN 1 ELSE said.level,
                          !.retry = IF said.level \in {2, 3} THEN said.reset ELSE 0,
                          !.fresh = t + StaleAfter]
      BY <1>1 DEF A!Merge
    <2> HIDE DEF m
    <2>2. m.result = "ok" /\ m.fresh = t + StaleAfter
      BY <2>1 DEF Account
    <2>3. m.limit = (said.level = 3)
      BY <2>1 DEF Account
    <2>4. m.used = IF said.level = 3 THEN 1 ELSE said.level
      BY <2>1 DEF Account
    <2>5. m.retry = IF said.level \in {2, 3} THEN said.reset ELSE 0
      BY <2>1 DEF Account
    <2>6. said.level < 2 => m.used = said.level /\ m.retry = 0
      BY <1>1, <2>4, <2>5
    <2>7. m.limit <=> said.level = 3
      BY <2>3
    <2>8. said.level = 2 => m.used = 2
      BY <2>4
    <2> QED
      BY <1>1, <2>2, <2>6, <2>7, <2>8 DEF m
  <1>2. CASE said.level = 4 /\ acc.fresh > 0 /\ t <= acc.fresh
    <2>1. m.result = "stale"
      BY <1>2 DEF A!Merge, Account
    <2> QED
      BY <1>2, <2>1
  <1>3. CASE ~(said.level \in 0..3) /\ ~(said.level = 4 /\ acc.fresh > 0 /\ t <= acc.fresh)
    <2>1. m = [acc EXCEPT !.limit = FALSE,
                          !.result = IF said.level = 4 THEN "transient" ELSE "permanent"]
      BY <1>3 DEF A!Merge
    <2>2. m.result \in {"transient", "permanent"}
      BY <2>1 DEF Account
    <2> QED
      BY <1>3, <2>2
  <1> QED
    BY <1>1, <1>2, <1>3

LEMMA QueueKeeps ==
  ASSUME NEW r \in Roster, NEW s \in State, NEW a
  PROVE  /\ A!Queue(r, s, a) \in State
         /\ A!Queue(r, s, a).active = s.active /\ A!Queue(r, s, a).acct = s.acct
  BY AccountNames DEF A!Queue, State, Roster

LEMMA Evaluated ==
  ASSUME NEW r \in Roster, NEW s \in State, NEW g, Heard(g)
  PROVE  LET e == A!Evaluate(r, s, g) IN
         /\ e \in State /\ e.active = s.active
         /\ \A a \in Names : e.acct[a] = IF a \in DOMAIN g.said
                                         THEN A!Merge(s.acct[a], g.said[a], g.at)
                                         ELSE s.acct[a]
  <1> DEFINE acct == [a \in Names |-> IF a \in DOMAIN g.said
                                      THEN A!Merge(s.acct[a], g.said[a], g.at)
                                      ELSE s.acct[a]]
             merged == [s EXCEPT !.acct = acct]
  <1>1. acct \in [Names -> Account]
    BY MergeTyped DEF Heard, State
  <1>2. \A a \in Names : acct[a] = IF a \in DOMAIN g.said
                                   THEN A!Merge(s.acct[a], g.said[a], g.at)
                                   ELSE s.acct[a]
    OBVIOUS
  <1>3. A!Evaluate(r, s, g) = A!Refresh(r, merged, g.at)
    BY DEF A!Evaluate
  <1> HIDE DEF acct
  <1>4. merged \in State /\ merged.active = s.active /\ merged.acct = acct
    BY <1>1 DEF State
  <1> HIDE DEF merged
  <1>5. \E a : A!Refresh(r, merged, g.at) = A!Queue(r, merged, a)
    BY DEF A!Refresh
  <1> QED
    BY <1>2, <1>3, <1>4, <1>5, QueueKeeps

LEMMA ActivatedTyped ==
  ASSUME NEW s \in State, NEW a \in Names, NEW t \in Nat
  PROVE  A!Activated(s, a, t) \in State /\ A!Activated(s, a, t).active = a
  <1> DEFINE acct == [s.acct EXCEPT ![a].retry = 0, ![a].acted = t]
  <1>1. acct \in [Names -> Account]
    BY DEF State, Account
  <1>2. A!Activated(s, a, t) = [s EXCEPT !.active = a, !.pending = None, !.acct = acct]
    BY DEF A!Activated, State
  <1> HIDE DEF acct
  <1> QED
    BY <1>1, <1>2, AccountNames DEF State

LEMMA LeastUsedFits ==
  ASSUME NEW r \in Roster, NEW s \in State, NEW favour, NEW eligible
  PROVE  LET fit == eligible \cap A!Range(r.order)
             a == A!LeastUsed(r, s, favour, eligible) IN
         a \in fit \/ (a = None /\ fit = {})
  <1> DEFINE fit == eligible \cap A!Range(r.order)
             best == {a \in fit : \A b \in fit : s.acct[a].used <= s.acct[b].used}
  <1>1. A!LeastUsed(r, s, favour, eligible) =
          IF favour \in best THEN favour ELSE A!First(A!Ordered(r), best)
    BY DEF A!LeastUsed, A!Listed
  <1>2. fit \subseteq Names
    BY ListedNames
  <1>3. best = {} => fit = {}
    <2> SUFFICES ASSUME fit # {} PROVE best # {}
      OBVIOUS
    <2> DEFINE used == {s.acct[a].used : a \in fit}
    <2>1. used # {} /\ used \subseteq Nat
      BY <1>2 DEF State, Account
    <2>2. PICK u \in used : \A v \in used : u <= v
      BY <2>1, LeastNatural
    <2>3. PICK a \in fit : s.acct[a].used = u
      OBVIOUS
    <2>4. \A b \in fit : s.acct[a].used <= s.acct[b].used
      BY <2>2, <2>3
    <2> QED
      BY <2>4
  <1>4. best \subseteq fit
    OBVIOUS
  <1> HIDE DEF best
  <1>5. \/ A!First(A!Ordered(r), best) = None /\ A!Range(r.order) \cap best = {}
        \/ A!First(A!Ordered(r), best) \in A!Range(r.order) \cap best
    BY ListedNames, FirstFits
  <1> QED
    BY <1>1, <1>3, <1>4, <1>5

LEMMA FallbackFits ==
  ASSUME NEW r \in Roster, NEW s \in State, NEW eligible \in SUBSET r.on
  PROVE  LET others == eligible \ {s.active}
             a == A!Fallback(r, s, eligible) IN
         a \in others \/ (a = None /\ others = {})
  <1> DEFINE others == eligible \ {s.active}
  <1>1. others \subseteq A!Range(r.order)
    BY DEF Roster
  <1>2. A!Fallback(r, s, eligible) =
          IF Policy = "usage" THEN A!LeastUsed(r, s, None, others)
          ELSE A!First(A!Ordered(r), others)
    BY DEF A!Fallback
  <1> HIDE DEF others
  <1>3. A!LeastUsed(r, s, None, others) \in others
        \/ (A!LeastUsed(r, s, None, others) = None /\ others = {})
    BY <1>1, LeastUsedFits
  <1>4. A!First(A!Ordered(r), others) \in others
        \/ (A!First(A!Ordered(r), others) = None /\ others = {})
    BY <1>1, ListedNames, FirstFits
  <1> QED
    BY <1>2, <1>3, <1>4 DEF others

LEMMA LaunchFits ==
  ASSUME NEW r \in Roster, NEW s \in State, NEW t \in Nat
  PROVE  LET fresh == A!FreshOnes(r, s, t)
             a == A!LaunchAccount(r, s, t) IN
         /\ fresh # {} => a \in fresh
         /\ a \in Names \/ (a = None /\ s.active = None)
  <1> DEFINE fresh == A!FreshOnes(r, s, t)
             best == IF Policy = "usage" THEN A!LeastUsed(r, s, s.active, fresh)
                     ELSE IF s.pending \in fresh THEN s.pending
                     ELSE IF s.active \in fresh /\ r.pref \notin fresh THEN s.active
                     ELSE A!First(A!Ordered(r), fresh)
             rest == IF ~A!ActiveUsable(r, s, s.active, t) /\ r.pref \in r.on THEN r.pref
                     ELSE s.active
  <1>1. A!LaunchAccount(r, s, t) = IF best # None THEN best ELSE rest
    BY DEF A!LaunchAccount
  <1>2. fresh \subseteq r.on /\ r.on \subseteq A!Range(r.order) /\ r.on \subseteq Names
    BY DEF A!FreshOnes, Roster
  <1> HIDE DEF fresh
  <1>3. A!LeastUsed(r, s, s.active, fresh) \in fresh
        \/ (A!LeastUsed(r, s, s.active, fresh) = None /\ fresh = {})
    BY <1>2, LeastUsedFits
  <1>4. A!First(A!Ordered(r), fresh) \in fresh
        \/ (A!First(A!Ordered(r), fresh) = None /\ fresh = {})
    BY <1>2, ListedNames, FirstFits
  <1>5. best \in fresh \/ (best = None /\ fresh = {})
    BY <1>3, <1>4
  <1>6. rest \in Names \/ (rest = None /\ s.active = None)
    BY <1>2 DEF State
  <1> HIDE DEF best, rest
  <1> QED
    BY <1>1, <1>2, <1>5, <1>6, AccountNames DEF fresh

-----------------------------------------------------------------------------
(***************************************************************************)
(* Accounts: what the commands write                                       *)
(***************************************************************************)
Write == [file : {"reg"}, value : Registry] \cup [file : {"st"}, value : State]
         \cup [file : {"auth", "activate", "forget", "creds"}, value : Names]
Writing(ws) == ws \in Seq(Write) /\ ws # <<>>

LEMMA Wrote ==
  ASSUME NEW file, NEW value, [file |-> file, value |-> value] \in Write
  PROVE  Writing(A!W(file, value))
  <1> DEFINE w == [file |-> file, value |-> value]
  <1>1. w \in Write
    OBVIOUS
  <1>2. A!W(file, value) = <<w>>
    BY DEF A!W
  <1> HIDE DEF w
  <1>3. <<w>> \in Seq(Write) /\ Len(<<w>>) = 1
    BY <1>1
  <1> QED
    BY <1>2, <1>3 DEF Writing

LEMMA WroteName ==
  ASSUME NEW file \in {"auth", "activate", "forget", "creds"}, NEW a \in Names
  PROVE  Writing(A!W(file, a))
  BY Wrote DEF Write

LEMMA WroteRegistry == ASSUME NEW r \in Registry PROVE Writing(A!W("reg", r))
  BY Wrote DEF Write

LEMMA WroteState == ASSUME NEW s \in State PROVE Writing(A!W("st", s))
  BY Wrote DEF Write

LEMMA Together ==
  ASSUME NEW ws, Writing(ws), NEW vs \in Seq(Write) PROVE Writing(ws \o vs)
  <1> DEFINE all == ws \o vs
  <1>1. ws \in Seq(Write) /\ Len(ws) > 0
    BY DEF Writing
  <1>2. all \in Seq(Write) /\ Len(all) = Len(ws) + Len(vs)
    BY <1>1
  <1>3. Len(all) > 0
    BY <1>1, <1>2
  <1> QED
    BY <1>2, <1>3 DEF Writing

LEMMA PreferTyped ==
  ASSUME NEW r \in Roster, NEW a \in A!Range(r.order) PROVE A!Prefer(r, a) \in Registry
  <1> DEFINE order == A!PutFirst(r.order, a)
  <1>1. order \in Seq(Names) /\ A!Range(order) = A!Range(r.order)
    BY PutFirstKeeps DEF Roster
  <1>2. A!Prefer(r, a) = [r EXCEPT !.pref = a, !.order = order]
    BY DEF A!Prefer, Roster
  <1> HIDE DEF order
  <1>3. a \in Names
    BY ListedNames
  <1> QED
    BY <1>1, <1>2, <1>3 DEF Registry, Roster

LEMMA FirstOnFits ==
  ASSUME NEW r \in Roster, NEW skip
  PROVE  LET a == A!FirstOn(r, skip) IN a = None \/ a \in A!Range(r.order) \cap (r.on \ {skip})
  <1>1. \/ A!First(A!Ordered(r), r.on \ {skip}) = None
        \/ A!First(A!Ordered(r), r.on \ {skip}) \in A!Range(r.order) \cap (r.on \ {skip})
    BY ListedNames, FirstFits
  <1> QED
    BY <1>1 DEF A!FirstOn

LEMMA ActivateTyped ==
  ASSUME NEW r \in Registry, NEW a \in A!Range(r.order)
  PROVE  Writing(A!ActivateWrites(r, a))
  <1> DEFINE e == [r EXCEPT !.on = @ \cup {a}]
  <1>1. a \in Names
    BY ListedNames DEF Registry
  <1>2. e \in Roster /\ e.order = r.order
    BY <1>1 DEF Registry, Roster
  <1>3. A!Prefer(e, a) \in Registry
    BY <1>2, PreferTyped
  <1>4. A!ActivateWrites(r, a)
        = A!W("reg", A!Prefer(e, a)) \o A!W("auth", a) \o A!W("activate", a)
    BY DEF A!ActivateWrites
  <1> HIDE DEF e
  <1>5. Writing(A!W("reg", A!Prefer(e, a)) \o A!W("auth", a))
    BY <1>1, <1>3, WroteRegistry, WroteName, Together DEF Writing
  <1>6. A!W("activate", a) \in Seq(Write)
    BY <1>1, WroteName DEF Writing
  <1> QED
    BY <1>4, <1>5, <1>6, Together

LEMMA EnableTyped ==
  ASSUME NEW r \in Registry, NEW a \in A!Range(r.order)
  PROVE  Writing(A!EnableWrites(r, a))
  <1> DEFINE e == [r EXCEPT !.on = @ \cup {a}]
  <1>1. a \in Names
    BY ListedNames DEF Registry
  <1>2. e \in Registry /\ e.order = r.order /\ e \in Roster
    BY <1>1 DEF Registry, Roster
  <1>3. A!EnableWrites(r, a) = A!W("reg", IF e.pref = None THEN A!Prefer(e, a) ELSE e)
    BY DEF A!EnableWrites
  <1> HIDE DEF e
  <1> QED
    BY <1>2, <1>3, PreferTyped, WroteRegistry

LEMMA LoadedTyped == ASSUME NEW r \in Registry PROVE A!Loaded(r) \in Registry
  <1>1. CASE r.pref = None /\ r.order # <<>>
    <2>1. r.order \in Seq(Names) /\ r.order # <<>> /\ 1 \in DOMAIN r.order
      BY <1>1 DEF Registry, Roster
    <2>2. r.order[1] \in A!Range(r.order) /\ r.order[1] \in Names
      BY <2>1 DEF A!Range
    <2> QED
      BY <1>1, <2>2 DEF A!Loaded, Registry, Roster
  <1>2. CASE ~(r.pref = None /\ r.order # <<>>)
    BY <1>2 DEF A!Loaded
  <1> QED
    BY <1>1, <1>2

LEMMA DisableTyped ==
  ASSUME NEW r \in Registry, NEW s \in State, NEW a \in A!Range(r.order),
         s.active = a => A!FirstOn(r, a) # None, now \in Nat
  PROVE  Writing(A!DisableWrites(r, s, a))
  <1> DEFINE off == [r EXCEPT !.on = @ \ {a}]
             next == A!FirstOn(off, a)
             moved == IF s.active = a THEN A!Activated(s, next, now) ELSE s
             kept == IF r.pref = a THEN A!Loaded([off EXCEPT !.pref = A!FirstOn(off, None)])
                     ELSE off
             left == IF moved.pending = a THEN [moved EXCEPT !.pending = None] ELSE moved
             first == IF s.active = a THEN A!W("auth", next) ELSE <<>>
  <1>1. off \in Registry /\ off \in Roster /\ off.order = r.order /\ off.pref = r.pref
        /\ off.on = r.on \ {a}
    BY DEF Registry, Roster
  <1>2. A!DisableWrites(r, s, a) = first \o A!W("reg", kept) \o A!W("st", left)
    BY DEF A!DisableWrites
  <1>3. s.active = a => next \in Names
    <2>1. A!Ordered(off) = A!Ordered(r)
      BY <1>1 DEF A!Ordered
    <2>2. next = A!FirstOn(r, a)
      BY <1>1, <2>1 DEF A!FirstOn
    <2> HIDE DEF next, off
    <2>3. r \in Roster
      BY DEF Registry
    <2>4. next = None \/ next \in A!Range(r.order)
      BY <2>2, <2>3, FirstOnFits
    <2> QED
      BY <2>2, <2>3, <2>4, ListedNames
  <1> HIDE DEF next
  <1>4. moved \in State
    BY <1>3, ActivatedTyped
  <1> HIDE DEF moved
  <1>5. left \in State
    BY <1>4, AccountNames DEF State
  <1>6. kept \in Registry
    <2> DEFINE b == A!FirstOn(off, None)
    <2>1. b = None \/ b \in A!Range(r.order)
      BY <1>1, FirstOnFits
    <2> HIDE DEF b
    <2>2. b \in Names \cup {None}
      BY <1>1, <2>1, ListedNames
    <2>3. [off EXCEPT !.pref = b] \in Registry
      BY <1>1, <2>1, <2>2 DEF Registry, Roster
    <2>4. A!Loaded([off EXCEPT !.pref = b]) \in Registry
      BY <2>3, LoadedTyped
    <2> QED
      BY <1>1, <2>4 DEF b
  <1> HIDE DEF kept, left, off
  <1>7. first \in Seq(Write)
    BY <1>3, WroteName DEF Writing
  <1>8. A!W("reg", kept) \in Seq(Write) /\ Writing(A!W("st", left))
    BY <1>5, <1>6, WroteRegistry, WroteState DEF Writing
  <1> HIDE DEF first
  <1>9. first \o A!W("reg", kept) \in Seq(Write)
    BY <1>7, <1>8
  <1> DEFINE before == first \o A!W("reg", kept)
             last == A!W("st", left)
  <1> HIDE DEF before, last
  <1>10. Len(before \o last) = Len(before) + Len(last) /\ before \o last \in Seq(Write)
         /\ Len(last) > 0 /\ Len(before) \in Nat
    BY <1>8, <1>9 DEF Writing, before, last
  <1>11. before \o last # <<>>
    BY <1>10
  <1> QED
    BY <1>2, <1>10, <1>11 DEF Writing, before, last

LEMMA RemoveTyped ==
  ASSUME NEW r \in Registry, NEW a \in A!Range(r.order)
  PROVE  Writing(A!RemoveWrites(r, a))
  <1> DEFINE rest == A!Without(r.order, a)
             pref == IF r.pref # a THEN r.pref ELSE IF rest = <<>> THEN None ELSE rest[1]
             left == [order |-> rest, on |-> r.on \ {a}, pref |-> pref]
  <1>1. /\ rest \in Seq(Names) /\ A!Range(rest) \subseteq A!Range(r.order)
        /\ A!Range(r.order) \ {a} \subseteq A!Range(rest)
    BY WithoutKeeps DEF Registry, Roster
  <1>2. A!RemoveWrites(r, a) = A!W("reg", left) \o A!W("forget", a)
    BY DEF A!RemoveWrites
  <1> HIDE DEF rest
  <1>3. pref \in A!Range(rest) \cup {None}
    <2>1. CASE r.pref # a
      BY <1>1, <2>1 DEF Registry
    <2>2. CASE rest # <<>>
      <3>1. 1 \in DOMAIN rest
        BY <1>1, <2>2
      <3>2. rest[1] \in A!Range(rest)
        BY <3>1 DEF A!Range
      <3> QED
        BY <2>1, <2>2, <3>2
    <2> QED
      BY <2>1, <2>2
  <1>4. A!Range(rest) \subseteq Names
    BY <1>1 DEF A!Range
  <1> HIDE DEF pref
  <1>5. left \in Registry
    BY <1>1, <1>3, <1>4 DEF Registry, Roster
  <1>6. a \in Names
    BY ListedNames DEF Registry
  <1> HIDE DEF left
  <1> QED
    BY <1>2, <1>5, <1>6, WroteRegistry, WroteName, Together DEF Writing

LEMMA ImportTyped ==
  ASSUME NEW r \in Registry, NEW s \in State, NEW a \in Names, NEW primary \in BOOLEAN,
         now \in Nat
  PROVE  Writing(A!ImportWrites(r, s, a, primary))
  <1> DEFINE order == IF a \in A!Range(r.order) THEN r.order ELSE Append(r.order, a)
             new == [r EXCEPT !.on = @ \cup {a}, !.order = order]
             done == IF r.pref = None \/ Len(new.order) = 1 \/ primary
                     THEN A!Prefer(new, a) ELSE new
             rest == IF s.active # None /\ done.pref # a THEN <<>>
                     ELSE A!W("auth", a) \o A!W("st", A!Activated(s, a, now))
  <1>1. order \in Seq(Names) /\ A!Range(order) = A!Range(r.order) \cup {a}
    BY Appended DEF Registry, Roster
  <1>2. A!ImportWrites(r, s, a, primary) = A!W("creds", a) \o A!W("reg", done) \o rest
    BY DEF A!ImportWrites, Registry, Roster
  <1> HIDE DEF order
  <1>3. new \in Registry /\ new \in Roster /\ new.order = order
    BY <1>1 DEF Registry, Roster
  <1> HIDE DEF new
  <1>4. done \in Registry
    BY <1>1, <1>3, PreferTyped
  <1> HIDE DEF done
  <1>5. Writing(A!W("auth", a) \o A!W("st", A!Activated(s, a, now)))
    BY ActivatedTyped, WroteName, WroteState, Together DEF Writing
  <1>6. rest \in Seq(Write)
    BY <1>5 DEF Writing
  <1> HIDE DEF rest
  <1>7. Writing(A!W("creds", a) \o A!W("reg", done))
    BY <1>4, WroteName, WroteRegistry, Together DEF Writing
  <1> QED
    BY <1>2, <1>6, <1>7, Together

LEMMA SampledHeard ==
  ASSUME NEW r \in Roster, usage \in [Names -> 0..5], now \in 1..MaxNow
  PROVE  /\ Heard(A!Sampled(r)) /\ A!Sampled(r).at = now
         /\ DOMAIN A!Sampled(r).said = A!Range(r.order)
  <1>1. now \in Nat
    BY AccountNames
  <1>2. A!Range(r.order) \subseteq Names
    BY ListedNames
  <1> QED
    BY <1>1, <1>2 DEF A!Sampled, A!Listed, Heard, A!Near, A!Hard

LEMMA LimitsTyped ==
  ASSUME NEW r \in Registry, NEW s \in State, usage \in [Names -> 0..5], now \in 1..MaxNow
  PROVE  Writing(A!LimitsWrites(r, s))
  <1> DEFINE g == A!Sampled(r)
             acct == [a \in Names |-> IF a \in DOMAIN g.said
                                      THEN A!Merge(s.acct[a], g.said[a], now)
                                      ELSE s.acct[a]]
  <1>1. Heard(g) /\ now \in Nat
    BY SampledHeard, AccountNames DEF Registry
  <1>2. A!LimitsWrites(r, s) = A!W("st", [s EXCEPT !.acct = acct])
    BY DEF A!LimitsWrites, State
  <1> HIDE DEF g
  <1>3. acct \in [Names -> Account]
    BY <1>1, MergeTyped DEF Heard, State
  <1> HIDE DEF acct
  <1>4. [s EXCEPT !.acct = acct] \in State
    BY <1>3 DEF State
  <1> QED
    BY <1>2, <1>4, WroteState

-----------------------------------------------------------------------------
(***************************************************************************)
(* Accounts: the invariant                                                 *)
(***************************************************************************)
Threads == {"main", "monitor"}
Memory == [reg : Registry, st : State, wait : Nat]

SessionTyped ==
  /\ mem \in Memory /\ DOMAIN samples = Threads /\ \A t \in Threads : Heard(samples[t])
AccountsTyped ==
  /\ usage \in [Names -> 0..5] /\ now \in 1..MaxNow
  /\ reg \in Registry /\ st \in State
  /\ auth \in Names \cup {None} /\ creds \subseteq Names
  /\ cli \in Seq(Write) /\ SessionTyped

(* Whoever decides has just asked about the accounts it knows.             *)
JustSampled ==
  pc \in {"decide", "judge"} =>
    /\ samples["main"].at \in 1..MaxNow
    /\ DOMAIN samples["main"].said = A!Range(mem.reg.order)

(* The credentials follow the state, once it is saved; until then they are *)
(* already those of the account that will be active.                       *)
Followed ==
  ~mixed =>
    /\ pc \in {"run", "limited", "judge", "paused"} /\ mem.st.active # None =>
         auth = mem.st.active /\ st.active = mem.st.active
    /\ pc = "save" => auth = mem.st.active

AccountsInv == AccountsTyped /\ JustSampled /\ Followed

LEMMA Nothing ==
  /\ A!NoMemory \in Memory /\ Heard(A!NoSamples)
  /\ [t \in {"main", "monitor"} |-> A!NoSamples]["main"] = A!NoSamples
  /\ [a \in Names |-> A!NewAccount] \in [Names -> Account]
  <1>1. A!NewAccount \in Account
    BY DEF A!NewAccount, Account
  <1>2. A!Range(<<>>) = {} /\ <<>> \in Seq(Names)
    BY DEF A!Range
  <1>3. [order |-> <<>>, on |-> {}, pref |-> None] \in Registry
    BY <1>2 DEF Registry, Roster
  <1>4. [active |-> None, pending |-> None, acct |-> [a \in Names |-> A!NewAccount]] \in State
    BY <1>1 DEF State
  <1>5. A!NoMemory \in Memory
    BY <1>3, <1>4 DEF A!NoMemory, Memory
  <1>6. Heard(A!NoSamples)
    BY DEF A!NoSamples, Heard
  <1> QED
    BY <1>1, <1>5, <1>6

LEMMA AccountsInit == A!Init => AccountsInv
  <1> SUFFICES ASSUME A!Init PROVE AccountsInv
    OBVIOUS
  <1> DEFINE order == A!SetToSeq(Names)
             first == Head(order)
  <1>1. order \in Seq(Names) /\ order # <<>> /\ A!Range(order) = Names
    BY NamesListed
  <1>2. reg = [order |-> order, on |-> Names, pref |-> first]
        /\ st = [active |-> first, pending |-> None,
                 acct |-> [a \in Names |-> A!NewAccount]]
        /\ auth = first
    BY DEF A!Init
  <1> HIDE DEF order
  <1>3. first \in Names
    BY <1>1
  <1> HIDE DEF first
  <1>4. reg \in Registry
    BY <1>1, <1>2, <1>3 DEF Registry, Roster
  <1>5. st \in State
    BY <1>2, <1>3, Nothing DEF State
  <1>6. SessionTyped
    BY Nothing DEF A!Init, SessionTyped, Threads
  <1>7. usage \in [Names -> 0..5] /\ now \in 1..MaxNow /\ creds = Names /\ cli \in Seq(Write)
        /\ pc = "off"
    BY AccountNames DEF A!Init
  <1> QED
    BY <1>2, <1>3, <1>4, <1>5, <1>6, <1>7 DEF AccountsInv, AccountsTyped, JustSampled, Followed

LEMMA Filed ==
  ASSUME AccountsInv, SessionTyped', UNCHANGED <<usage, now, reg, creds, cli>>,
         st' \in State, auth' \in Names \cup {None}
  PROVE  AccountsTyped'
  BY DEF AccountsInv, AccountsTyped

LEMMA SampleKept ==
  ASSUME AccountsInv, NEW t \in Threads, NEW g, Heard(g),
         samples' = [samples EXCEPT ![t] = g], mem' \in Memory
  PROVE  SessionTyped' /\ samples'[t] = g /\ \A u \in Threads \ {t} : samples'[u] = samples[u]
  BY DEF AccountsInv, AccountsTyped, SessionTyped

LEMMA Offs ==
  ASSUME AccountsInv, pc' = "off", mem' = A!NoMemory,
         samples' = [t \in {"main", "monitor"} |-> A!NoSamples],
         UNCHANGED <<usage, now, reg, creds, cli, auth>>, st' \in State
  PROVE  AccountsInv'
  <1>1. SessionTyped'
    BY Nothing DEF SessionTyped, Threads
  <1>2. AccountsTyped'
    BY <1>1, Filed DEF AccountsInv, AccountsTyped
  <1> QED
    BY <1>2 DEF AccountsInv, JustSampled, Followed

LEMMA Starting == AccountsInv /\ A!Start => AccountsInv'
  <1> SUFFICES ASSUME AccountsInv, A!Start PROVE AccountsInv'
    OBVIOUS
  <1>1. mem' = [reg |-> reg, st |-> st, wait |-> 0] /\ pc' = "decide"
        /\ samples' = [samples EXCEPT !["main"] = A!Sampled(reg)]
        /\ UNCHANGED <<usage, now, reg, st, creds, auth, cli>>
    BY DEF A!Start, A!disk
  <1>2. reg \in Roster /\ reg \in Registry /\ st \in State /\ usage \in [Names -> 0..5]
        /\ now \in 1..MaxNow
    BY DEF AccountsInv, AccountsTyped, Registry
  <1>3. mem' \in Memory /\ mem'.reg = reg
    BY <1>1, <1>2 DEF Memory
  <1>4. SessionTyped' /\ samples'["main"] = A!Sampled(reg)
    BY <1>1, <1>2, <1>3, SampledHeard, SampleKept DEF Threads
  <1>5. AccountsTyped'
    BY <1>1, <1>4, Filed DEF AccountsInv, AccountsTyped
  <1>6. JustSampled'
    BY <1>1, <1>2, <1>3, <1>4, SampledHeard DEF JustSampled
  <1> QED
    BY <1>1, <1>5, <1>6 DEF AccountsInv, Followed

LEMMA Sampling == AccountsInv /\ (A!Sample \/ A!MonitorSamples) => AccountsInv'
  <1> SUFFICES ASSUME AccountsInv, NEW t \in Threads, samples' = [samples EXCEPT ![t] = A!Sampled(mem.reg)],
                      UNCHANGED <<usage, now, reg, st, creds, auth, cli, mem, mixed>>,
                      \/ t = "main" /\ pc = "limited" /\ pc' = "judge"
                      \/ t = "monitor" /\ pc' = pc
               PROVE AccountsInv'
    BY DEF A!Sample, A!MonitorSamples, A!disk, Threads
  <1>1. mem \in Memory /\ mem.reg \in Roster /\ usage \in [Names -> 0..5] /\ now \in 1..MaxNow
    BY DEF AccountsInv, AccountsTyped, SessionTyped, Memory, Registry
  <1>2. SessionTyped' /\ samples'[t] = A!Sampled(mem.reg)
        /\ \A u \in Threads \ {t} : samples'[u] = samples[u]
    BY <1>1, SampledHeard, SampleKept
  <1>3. AccountsTyped'
    BY <1>2, Filed DEF AccountsInv, AccountsTyped
  <1>4. JustSampled'
    <2>1. CASE t = "main"
      BY <1>1, <1>2, <2>1, SampledHeard DEF JustSampled
    <2>2. CASE t = "monitor"
      BY <1>2, <2>2 DEF AccountsInv, JustSampled, Threads
    <2> QED
      BY <2>1, <2>2 DEF Threads
  <1>5. Followed'
    BY DEF AccountsInv, Followed
  <1> QED
    BY <1>3, <1>4, <1>5 DEF AccountsInv

LEMMA Monitoring == AccountsInv /\ A!MonitorDecides => AccountsInv'
  <1> SUFFICES ASSUME AccountsInv, A!MonitorDecides PROVE AccountsInv'
    OBVIOUS
  <1> DEFINE s == A!Evaluate(mem.reg, mem.st, samples["monitor"])
  <1>1. mem \in Memory /\ mem.reg \in Roster /\ mem.st \in State /\ Heard(samples["monitor"])
    BY DEF AccountsInv, AccountsTyped, SessionTyped, Memory, Registry, Threads
  <1>2. s \in State /\ s.active = mem.st.active
    BY <1>1, Evaluated
  <1>3. mem' = [mem EXCEPT !.st = s] /\ st' = mem'.st
        /\ samples' = [samples EXCEPT !["monitor"] = A!NoSamples]
        /\ UNCHANGED <<usage, now, reg, auth, creds, pc, cli, mixed>>
    BY DEF A!MonitorDecides
  <1> HIDE DEF s
  <1>4. mem' \in Memory /\ mem'.st = s /\ mem'.reg = mem.reg
    BY <1>1, <1>2, <1>3 DEF Memory
  <1>5. SessionTyped' /\ samples'["main"] = samples["main"]
    BY <1>3, <1>4, Nothing, SampleKept DEF Threads
  <1>6. AccountsTyped'
    BY <1>2, <1>3, <1>4, <1>5, Filed DEF AccountsInv, AccountsTyped
  <1>7. JustSampled'
    BY <1>3, <1>4, <1>5 DEF AccountsInv, JustSampled
  <1>8. Followed'
    BY <1>2, <1>3, <1>4 DEF AccountsInv, Followed
  <1> QED
    BY <1>6, <1>7, <1>8 DEF AccountsInv

LEMMA PuttingInPlace ==
  ASSUME AccountsInv, NEW s \in State, NEW a \in Names, s.active = a,
         A!PutInPlace(s, a, "save"), st' \in State,
         UNCHANGED <<usage, now, reg, creds, cli, mixed>>
  PROVE  AccountsInv'
  <1>1. CASE a \in creds
    <2>1. auth' = a /\ pc' = "save" /\ mem' = [mem EXCEPT !.st = s, !.wait = 0]
          /\ samples' = [samples EXCEPT !["main"] = A!NoSamples]
      BY <1>1 DEF A!PutInPlace, A!Sampleless
    <2>2. mem' \in Memory /\ mem'.st = s
      BY <2>1 DEF AccountsInv, AccountsTyped, SessionTyped, Memory
    <2>3. SessionTyped'
      BY <2>1, <2>2, Nothing, SampleKept DEF Threads
    <2>4. AccountsTyped'
      BY <2>1, <2>3, Filed
    <2> QED
      BY <2>1, <2>2, <2>4 DEF AccountsInv, JustSampled, Followed
  <1>2. CASE a \notin creds
    BY <1>2, Offs DEF A!PutInPlace
  <1> QED
    BY <1>1, <1>2

-----------------------------------------------------------------------------
(***************************************************************************)
(* Accounts: the steps of the session                                      *)
(***************************************************************************)
LEMMA Deciding == AccountsInv /\ A!Decide => AccountsInv'
  <1> SUFFICES ASSUME AccountsInv, A!Decide PROVE AccountsInv'
    OBVIOUS
  <1> DEFINE t == samples["main"].at
             s == A!Evaluate(mem.reg, mem.st, samples["main"])
             queued == s.pending # None /\ s.pending # s.active
                       /\ A!FreshEligible(mem.reg, s, s.pending, t)
             name == IF queued THEN s.pending ELSE A!LaunchAccount(mem.reg, s, t)
             next == IF name = s.active THEN [s EXCEPT !.pending = None]
                     ELSE A!Activated(s, name, t)
  <1>1. mem \in Memory /\ mem.reg \in Roster /\ mem.st \in State /\ Heard(samples["main"])
        /\ t \in Nat
    BY DEF AccountsInv, AccountsTyped, SessionTyped, Memory, Registry, Threads, Heard
  <1>2. s \in State /\ s.active = mem.st.active
    BY <1>1, Evaluated
  <1>3. /\ st' = s /\ UNCHANGED <<usage, now, reg, creds, cli, mixed>>
        /\ IF name = None
           THEN /\ pc' = "run" /\ mem' = [mem EXCEPT !.st = s] /\ UNCHANGED auth
                /\ A!Sampleless("main")
           ELSE A!PutInPlace(next, name, "save")
    BY DEF A!Decide
  <1> HIDE DEF s, t
  <1>4. name \in Names \/ (name = None /\ s.active = None)
    <2>1. A!LaunchAccount(mem.reg, s, t) \in Names
          \/ (A!LaunchAccount(mem.reg, s, t) = None /\ s.active = None)
      BY <1>1, <1>2, LaunchFits
    <2>2. s.pending \in Names \cup {None}
      BY <1>2 DEF State
    <2> QED
      BY <2>1, <2>2
  <1> HIDE DEF name
  <1>5. CASE name # None
    <2>1. name \in Names
      BY <1>4, <1>5
    <2>2. next \in State /\ next.active = name
      BY <1>1, <1>2, <2>1, ActivatedTyped DEF State
    <2> HIDE DEF next
    <2> QED
      BY <1>2, <1>3, <1>5, <2>1, <2>2, PuttingInPlace
  <1>6. CASE name = None
    <2>1. pc' = "run" /\ mem' = [mem EXCEPT !.st = s] /\ UNCHANGED auth
          /\ samples' = [samples EXCEPT !["main"] = A!NoSamples]
      BY <1>3, <1>6 DEF A!Sampleless
    <2>2. mem' \in Memory /\ mem'.st = s
      BY <1>1, <1>2, <2>1 DEF Memory
    <2>3. SessionTyped'
      BY <2>1, <2>2, Nothing, SampleKept DEF Threads
    <2>4. AccountsTyped'
      BY <1>2, <1>3, <2>1, <2>3, Filed DEF AccountsInv, AccountsTyped
    <2>5. s.active = None
      BY <1>4, <1>6, AccountNames
    <2> QED
      BY <2>1, <2>2, <2>4, <2>5 DEF AccountsInv, JustSampled, Followed
  <1> QED
    BY <1>5, <1>6

LEMMA Unsampled ==
  ASSUME AccountsInv, UNCHANGED <<usage, now, reg, auth, creds, mem, samples, cli, mixed>>,
         pc' \notin {"decide", "judge"}, st' \in State, Followed'
  PROVE  AccountsInv'
  <1>1. SessionTyped'
    BY DEF AccountsInv, AccountsTyped, SessionTyped
  <1> QED
    BY <1>1, Filed DEF AccountsInv, AccountsTyped, JustSampled

LEMMA Saving == AccountsInv /\ A!Save => AccountsInv'
  <1> SUFFICES ASSUME AccountsInv, A!Save PROVE AccountsInv'
    OBVIOUS
  <1>1. mem.st \in State
    BY DEF AccountsInv, AccountsTyped, SessionTyped, Memory
  <1>2. Followed'
    BY DEF AccountsInv, Followed, A!Save
  <1> QED
    BY <1>1, <1>2, Unsampled DEF A!Save

LEMMA Limiting == AccountsInv /\ (A!RateLimit \/ A!Resume) => AccountsInv'
  <1> SUFFICES ASSUME AccountsInv, A!RateLimit \/ A!Resume PROVE AccountsInv'
    OBVIOUS
  <1>1. Followed'
    BY DEF AccountsInv, Followed, A!RateLimit, A!Resume, A!disk
  <1> QED
    BY <1>1, Unsampled DEF A!RateLimit, A!Resume, A!disk, AccountsInv, AccountsTyped

LEMMA Stopping == AccountsInv /\ A!Stop => AccountsInv'
  BY Offs DEF A!Stop, A!disk, AccountsInv, AccountsTyped

(* A rate limit: what is known of the active account, whoever else may run. *)
Hit(s, t) ==
  IF s.active = None \/ s.acct[s.active].retry > 0 THEN s
  ELSE [s EXCEPT !.acct[s.active].retry = t + 1]
Able(r, s, t) == {b \in r.on : A!ExecutionEligible(r, s, b, t)}
Target(r, s, t) == IF s.active = None THEN None ELSE A!Fallback(r, s, Able(r, s, t))

LEMMA HitTyped ==
  ASSUME NEW s \in State, NEW t \in Nat
  PROVE  /\ Hit(s, t) \in State /\ Hit(s, t).active = s.active
         /\ \A a \in Names \ {s.active} : Hit(s, t).acct[a] = s.acct[a]
  <1>1. CASE s.active = None \/ s.acct[s.active].retry > 0
    BY <1>1 DEF Hit
  <1>2. CASE ~(s.active = None \/ s.acct[s.active].retry > 0)
    <2> DEFINE acct == [s.acct EXCEPT ![s.active].retry = t + 1]
    <2>1. acct \in [Names -> Account] /\ \A a \in Names \ {s.active} : acct[a] = s.acct[a]
      <3>1. s.acct \in [Names -> Account] /\ s.active \in Names
        BY <1>2 DEF State
      <3>2. [s.acct[s.active] EXCEPT !.retry = t + 1] \in Account
        BY <3>1 DEF Account
      <3> QED
        BY <3>1, <3>2
    <2>2. Hit(s, t) = [s EXCEPT !.acct = acct]
      BY <1>2 DEF Hit, State
    <2> HIDE DEF acct
    <2> QED
      BY <2>1, <2>2 DEF State
  <1> QED
    BY <1>1, <1>2

LEMMA TargetFits ==
  ASSUME NEW r \in Roster, NEW s \in State, NEW t \in Nat
  PROVE  LET a == Target(r, s, t) IN
         /\ a \in (Able(r, s, t) \ {s.active}) \cap Names \/ a = None
         /\ a = None => s.active = None \/ Able(r, s, t) \subseteq {s.active}
  <1>1. Able(r, s, t) \in SUBSET r.on /\ Able(r, s, t) \subseteq Names
    BY DEF Able, Roster
  <1> QED
    BY <1>1, FallbackFits, AccountNames DEF Target

LEMMA RetryLater ==
  ASSUME NEW r \in Roster, NEW s \in State, NEW t \in Nat
  PROVE  A!RetryAt(r, s, t) \in Nat /\ A!RetryAt(r, s, t) > t
  <1> DEFINE times == {s.acct[a].retry : a \in A!Range(r.order) \cap r.on} \ 0..t
  <1>1. A!RetryAt(r, s, t) = IF s.active = None \/ times = {} THEN t + 1 ELSE A!Min(times)
    BY DEF A!RetryAt, A!Listed
  <1>2. times \subseteq Nat
    BY DEF Roster, State, Account
  <1>3. times # {} => A!Min(times) \in times
    BY <1>2, LeastNatural
  <1>4. \A x \in times : x > t
    BY <1>2
  <1> HIDE DEF times
  <1>5. CASE s.active = None \/ times = {}
    BY <1>1, <1>5
  <1>6. CASE ~(s.active = None \/ times = {})
    <2>1. A!RetryAt(r, s, t) \in times
      BY <1>1, <1>3, <1>6
    <2> QED
      BY <1>2, <1>4, <2>1
  <1> QED
    BY <1>5, <1>6

(* What Judge does, with names for its parts.                              *)
LEMMA Judged ==
  ASSUME AccountsInv, A!Judge
  PROVE  LET t == samples["main"].at
             s == A!Evaluate(mem.reg, mem.st, samples["main"])
             hit == Hit(s, t)
             target == Target(mem.reg, hit, t) IN
         /\ pc = "judge" /\ UNCHANGED <<usage, now, reg, creds, cli, mixed>>
         /\ \/ /\ target # None /\ st' = s
               /\ A!PutInPlace(A!Activated(hit, target, t), target, "save")
            \/ /\ target = None /\ st' = hit /\ pc' = "paused" /\ UNCHANGED auth
               /\ samples' = [samples EXCEPT !["main"] = A!NoSamples]
               /\ mem' = [mem EXCEPT !.st = hit, !.wait = A!RetryAt(mem.reg, hit, t)]
  <1> DEFINE t == samples["main"].at
             s == A!Evaluate(mem.reg, mem.st, samples["main"])
             hit == IF s.active = None \/ s.acct[s.active].retry > 0 THEN s
                    ELSE [s EXCEPT !.acct[s.active].retry = t + 1]
             able == {b \in mem.reg.on : A!ExecutionEligible(mem.reg, hit, b, t)}
             target == IF s.active = None THEN None ELSE A!Fallback(mem.reg, hit, able)
  <1>1. /\ pc = "judge" /\ UNCHANGED <<usage, now, reg, creds, cli, mixed>>
        /\ \/ /\ target # None /\ st' = s
              /\ A!PutInPlace(A!Activated(hit, target, t), target, "save")
           \/ /\ target = None /\ st' = hit /\ pc' = "paused" /\ UNCHANGED auth
              /\ samples' = [samples EXCEPT !["main"] = A!NoSamples]
              /\ mem' = [mem EXCEPT !.st = hit, !.wait = A!RetryAt(mem.reg, hit, t)]
    BY DEF A!Judge, A!Sampleless
  <1>2. mem.reg \in Roster /\ mem.st \in State /\ Heard(samples["main"]) /\ t \in Nat
    BY DEF AccountsInv, AccountsTyped, SessionTyped, Memory, Registry, Threads, Heard
  <1>3. s \in State
    BY <1>2, Evaluated
  <1>4. hit = Hit(s, t)
    BY DEF Hit
  <1> HIDE DEF s
  <1>5. Hit(s, t).active = s.active
    BY <1>2, <1>3, HitTyped
  <1> HIDE DEF hit
  <1>6. target = Target(mem.reg, hit, t)
    BY <1>4, <1>5 DEF Target, Able
  <1> HIDE DEF target
  <1> QED
    BY <1>1, <1>4, <1>6 DEF s

LEMMA Pausing ==
  ASSUME AccountsInv, NEW hit \in State, NEW w \in Nat, hit.active = mem.st.active,
         pc = "judge", pc' = "paused", st' = hit,
         UNCHANGED <<usage, now, reg, creds, cli, mixed, auth>>,
         samples' = [samples EXCEPT !["main"] = A!NoSamples],
         mem' = [mem EXCEPT !.st = hit, !.wait = w]
  PROVE  AccountsInv'
  <1>1. mem' \in Memory /\ mem'.st = hit
    BY DEF AccountsInv, AccountsTyped, SessionTyped, Memory
  <1>2. SessionTyped'
    BY <1>1, Nothing, SampleKept DEF Threads
  <1>3. AccountsTyped'
    BY <1>2, Filed DEF AccountsInv, AccountsTyped
  <1> QED
    BY <1>1, <1>3 DEF AccountsInv, JustSampled, Followed

LEMMA RateLimited == AccountsInv /\ A!Judge => AccountsInv'
  <1> SUFFICES ASSUME AccountsInv, A!Judge PROVE AccountsInv'
    OBVIOUS
  <1> DEFINE t == samples["main"].at
             s == A!Evaluate(mem.reg, mem.st, samples["main"])
             hit == Hit(s, t)
             target == Target(mem.reg, hit, t)
             later == A!RetryAt(mem.reg, hit, t)
  <1>1. mem \in Memory /\ mem.reg \in Roster /\ mem.st \in State /\ Heard(samples["main"])
        /\ t \in Nat
    BY DEF AccountsInv, AccountsTyped, SessionTyped, Memory, Registry, Threads, Heard
  <1>2. s \in State /\ s.active = mem.st.active
    BY <1>1, Evaluated
  <1>3. /\ pc = "judge" /\ UNCHANGED <<usage, now, reg, creds, cli, mixed>>
        /\ \/ /\ target # None /\ st' = s
              /\ A!PutInPlace(A!Activated(hit, target, t), target, "save")
           \/ /\ target = None /\ st' = hit /\ pc' = "paused" /\ UNCHANGED auth
              /\ samples' = [samples EXCEPT !["main"] = A!NoSamples]
              /\ mem' = [mem EXCEPT !.st = hit, !.wait = later]
    BY Judged
  <1> HIDE DEF s, t
  <1>4. hit \in State /\ hit.active = mem.st.active
    BY <1>1, <1>2, HitTyped
  <1> HIDE DEF hit
  <1>5. target \in Names \/ target = None
    BY <1>1, <1>4, TargetFits
  <1>6. later \in Nat
    BY <1>1, <1>4, RetryLater
  <1> HIDE DEF target, later
  <1>7. CASE target # None
    <2>1. A!Activated(hit, target, t) \in State /\ A!Activated(hit, target, t).active = target
      BY <1>1, <1>4, <1>5, <1>7, ActivatedTyped
    <2> QED
      BY <1>2, <1>3, <1>5, <1>7, <2>1, PuttingInPlace
  <1>8. CASE target = None
    BY <1>3, <1>4, <1>6, <1>8, Pausing
  <1> QED
    BY <1>7, <1>8

-----------------------------------------------------------------------------
(***************************************************************************)
(* Accounts: the commands                                                  *)
(***************************************************************************)
LEMMA ForgetTyped ==
  ASSUME NEW s \in State, NEW a \in Names PROVE A!Forget(s, a) \in State
  <1>1. [s.acct EXCEPT ![a] = A!NewAccount] \in [Names -> Account]
    BY DEF State, A!NewAccount, Account
  <1> QED
    BY <1>1, AccountNames DEF State, A!Forget

LEMMA Applied ==
  ASSUME AccountsInv, NEW ws, Writing(ws), A!Apply(ws) PROVE AccountsInv'
  <1> DEFINE w == Head(ws)
  <1>1. w \in Write /\ Tail(ws) \in Seq(Write)
    BY DEF Writing
  <1>2. /\ mixed' = (mixed \/ pc # "off")
        /\ reg' = IF w.file = "reg" THEN w.value ELSE reg
        /\ auth' = IF w.file = "auth" /\ w.value \in creds THEN w.value ELSE auth
        /\ UNCHANGED <<usage, now, pc, mem, samples>>
    BY DEF A!Apply
  <1>3. st' = CASE w.file = "st" -> w.value
                [] w.file = "activate" -> A!Activated(st, w.value, now)
                [] w.file = "forget" -> A!Forget(st, w.value)
                [] OTHER -> st
    BY DEF A!Apply
  <1>4. creds' = CASE w.file = "creds" -> creds \cup {w.value}
                   [] w.file = "forget" -> creds \ {w.value}
                   [] OTHER -> creds
    BY DEF A!Apply
  <1>5. \/ cli' \in {<<>>, Tail(ws)}
        \/ reg.pref # None /\ cli' = A!ActivateWrites(reg, reg.pref)
    <2>1. cli' = CASE w.file = "auth" /\ w.value \notin creds -> <<>>
                   [] w.file = "forget" /\ st'.active = None /\ reg.pref # None ->
                        A!ActivateWrites(reg, reg.pref)
                   [] OTHER -> Tail(ws)
      BY DEF A!Apply
    <2> HIDE DEF w
    <2>2. CASE w.file = "auth" /\ w.value \notin creds
      BY <2>1, <2>2
    <2>3. CASE w.file = "forget" /\ st'.active = None /\ reg.pref # None
      BY <2>1, <2>3
    <2>4. CASE /\ ~(w.file = "auth" /\ w.value \notin creds)
               /\ ~(w.file = "forget" /\ st'.active = None /\ reg.pref # None)
      BY <2>1, <2>4
    <2> QED
      BY <2>2, <2>3, <2>4
  <1> HIDE DEF w
  <1>6. /\ w.file = "reg" => w.value \in Registry
        /\ w.file = "st" => w.value \in State
        /\ w.file \in {"auth", "activate", "forget", "creds"} => w.value \in Names
        /\ w.file \in {"reg", "st", "auth", "activate", "forget", "creds"}
    BY <1>1 DEF Write
  <1>7. st \in State /\ reg \in Registry /\ now \in Nat /\ cli \in Seq(Write)
    BY AccountNames DEF AccountsInv, AccountsTyped
  <1>8. st' \in State
    <2>1. CASE w.file = "st"
      BY <1>3, <1>6, <2>1
    <2>2. CASE w.file = "activate"
      BY <1>3, <1>6, <1>7, <2>2, ActivatedTyped
    <2>3. CASE w.file = "forget"
      BY <1>3, <1>6, <1>7, <2>3, ForgetTyped
    <2>4. CASE w.file \notin {"st", "activate", "forget"}
      BY <1>3, <1>7, <2>4
    <2> QED
      BY <2>1, <2>2, <2>3, <2>4
  <1>9. reg' \in Registry /\ auth' \in Names \cup {None}
    BY <1>2, <1>6 DEF AccountsInv, AccountsTyped
  <1>10. creds' \subseteq Names
    <2>1. creds \subseteq Names
      BY DEF AccountsInv, AccountsTyped
    <2>2. CASE w.file = "creds"
      BY <1>4, <1>6, <2>1, <2>2
    <2>3. CASE w.file = "forget"
      BY <1>4, <2>1, <2>3
    <2>4. CASE w.file \notin {"creds", "forget"}
      BY <1>4, <2>1, <2>4
    <2> QED
      BY <2>2, <2>3, <2>4
  <1>11. cli' \in Seq(Write)
    <2>1. reg.pref # None => A!ActivateWrites(reg, reg.pref) \in Seq(Write)
      BY <1>7, ActivateTyped DEF Registry, Writing
    <2>2. <<>> \in Seq(Write)
      OBVIOUS
    <2> QED
      BY <1>1, <1>5, <2>1, <2>2
  <1>12. SessionTyped'
    BY <1>2 DEF AccountsInv, AccountsTyped, SessionTyped
  <1>13. AccountsTyped'
    BY <1>2, <1>8, <1>9, <1>10, <1>11, <1>12 DEF AccountsInv, AccountsTyped
  <1> QED
    BY <1>2, <1>13 DEF AccountsInv, JustSampled, Followed

(* Whoever is left alone by a command, or by the clock, goes on as before. *)
LEMMA Spared ==
  ASSUME AccountsInv, UNCHANGED <<reg, st, auth, creds, pc, mem, samples, mixed>>,
         usage' \in [Names -> 0..5], now' \in 1..MaxNow, cli' \in Seq(Write)
  PROVE  AccountsInv'
  <1>1. SessionTyped'
    BY DEF AccountsInv, AccountsTyped, SessionTyped
  <1>2. AccountsTyped'
    BY <1>1 DEF AccountsInv, AccountsTyped
  <1> QED
    BY <1>2 DEF AccountsInv, JustSampled, Followed

LEMMA WritesTyped ==
  ASSUME AccountsInv, NEW ws \in A!Writes PROVE Writing(ws)
  <1>1. reg \in Registry /\ st \in State /\ usage \in [Names -> 0..5]
        /\ now \in 1..MaxNow /\ now \in Nat
    BY AccountNames DEF AccountsInv, AccountsTyped
  <1>2. \/ \E a \in A!Range(reg.order) : ws = A!ActivateWrites(reg, a)
        \/ \E a \in A!Range(reg.order) : ws = A!RemoveWrites(reg, a)
        \/ \E a \in A!Range(reg.order) : ws = A!EnableWrites(reg, a)
        \/ \E a \in A!Range(reg.order) :
             ws = A!DisableWrites(reg, st, a) /\ (st.active = a => A!FirstOn(reg, a) # None)
        \/ \E a \in Names, primary \in BOOLEAN : ws = A!ImportWrites(reg, st, a, primary)
        \/ ws = A!LimitsWrites(reg, st)
    BY DEF A!Writes, A!Listed
  <1> QED
    BY <1>1, <1>2, ActivateTyped, RemoveTyped, EnableTyped, DisableTyped, ImportTyped,
       LimitsTyped

LEMMA Commanding == AccountsInv /\ (A!Command \/ A!CommandWrites) => AccountsInv'
  <1>1. ASSUME AccountsInv, A!Command PROVE AccountsInv'
    <2>1. PICK ws \in A!Writes :
             \/ A!Apply(ws)
             \/ cli' = ws /\ UNCHANGED <<usage, now, A!disk, pc, mem, samples, mixed>>
      BY <1>1 DEF A!Command
    <2>2. Writing(ws)
      BY <1>1, WritesTyped
    <2>3. CASE A!Apply(ws)
      BY <1>1, <2>2, <2>3, Applied
    <2>4. CASE cli' = ws /\ UNCHANGED <<usage, now, A!disk, pc, mem, samples, mixed>>
      BY <1>1, <2>2, <2>4, Spared DEF A!disk, Writing, AccountsInv, AccountsTyped
    <2> QED
      BY <2>1, <2>3, <2>4
  <1>2. ASSUME AccountsInv, A!CommandWrites PROVE AccountsInv'
    BY <1>2, Applied DEF A!CommandWrites, AccountsInv, AccountsTyped, Writing
  <1> QED
    BY <1>1, <1>2

LEMMA Passing == AccountsInv /\ (A!CommandDies \/ A!Tick) => AccountsInv'
  <1>1. ASSUME AccountsInv, A!CommandDies PROVE AccountsInv'
    BY <1>1, Spared DEF A!CommandDies, A!disk, AccountsInv, AccountsTyped
  <1>2. ASSUME AccountsInv, A!Tick PROVE AccountsInv'
    <2>1. Levels \subseteq 0..5 /\ MaxNow \in Nat
      BY AccountsAssumption, AccountNames DEF A!LevelsAssumption
    <2>2. usage' \in [Names -> 0..5] /\ now' \in 1..MaxNow
      BY <1>2, <2>1 DEF A!Tick, AccountsInv, AccountsTyped
    <2> QED
      BY <1>2, <2>2, Spared DEF A!Tick, A!disk, AccountsInv, AccountsTyped
  <1> QED
    BY <1>1, <1>2

LEMMA AccountsNext == AccountsInv /\ A!Next => AccountsInv'
  BY Starting, Sampling, Monitoring, Deciding, Saving, Limiting, RateLimited, Stopping,
     Commanding, Passing DEF A!Next

LEMMA AccountsStay == AccountsInv /\ UNCHANGED accountVars => AccountsInv'
  BY Spared DEF accountVars, AccountsInv, AccountsTyped

AccountsWell == part = "accounts" => AccountsInv

LEMMA AccountsInvariant == MCInit /\ [][MCNext]_allVars => []AccountsWell
  <1>1. MCInit => AccountsWell
    BY AccountsInit DEF MCInit, AccountsWell
  <1>2. AccountsWell /\ [MCNext]_allVars => AccountsWell'
    BY AccountsNext, AccountsStay DEF AccountsWell, MCNext, Aside, Beside, allVars
  <1> QED
    BY <1>1, <1>2, PTL

(* While no account command wrote since the session was launched, Codex    *)
(* runs with the credentials of the account that the state calls active:   *)
(* after any crash between auth.json and the state, any switch and any     *)
(* tick of the monitor (auth_runtime.go).                                  *)
THEOREM CredentialsFollow == MCSpec => []AuthFollowsState
  <1>1. AccountsInv => A!TypeOK
    <2> SUFFICES ASSUME AccountsInv PROVE A!TypeOK
      OBVIOUS
    <2>1. st \in A!StateType /\ mem.st \in A!StateType
          /\ (st.pending # None => st.pending # st.active)
      BY DEF AccountsInv, AccountsTyped, SessionTyped, Memory, State, Account,
         A!StateType, A!Near
    <2>2. \A r \in Registry : A!RegistryOK(r)
      BY ListedNames DEF Registry, Roster, A!RegistryOK, A!Listed
    <2> QED
      BY <2>1, <2>2 DEF AccountsInv, AccountsTyped, SessionTyped, Memory, A!TypeOK,
         A!Refused
  <1>2. AccountsInv => A!AuthFollowsState
    BY DEF AccountsInv, Followed, A!AuthFollowsState
  <1>3. AccountsWell => AuthFollowsState
    BY <1>1, <1>2 DEF AccountsWell, AuthFollowsState
  <1> QED
    BY <1>3, AccountsInvariant, PTL DEF MCSpec

-----------------------------------------------------------------------------
(***************************************************************************)
(* Accounts: the choices                                                   *)
(***************************************************************************)
(* What a decision knows of the accounts is what was just said of them.    *)
LEMMA Informed ==
  ASSUME AccountsInv, pc \in {"decide", "judge"}
  PROVE  LET t == samples["main"].at
             s == A!Evaluate(mem.reg, mem.st, samples["main"]) IN
         /\ mem.reg \in Roster /\ s \in State /\ s.active = mem.st.active
         /\ t \in Nat /\ t > 0 /\ A!Range(mem.reg.order) \subseteq Names
         /\ mem.reg.on \subseteq A!Range(mem.reg.order)
         /\ \A a \in A!Range(mem.reg.order) :
              LET level == A!Level(a)
                  m == s.acct[a] IN
              /\ level \in 0..5
              /\ level < 2 => /\ m.result = "ok" /\ ~m.limit /\ m.used = level
                              /\ m.retry = 0 /\ m.fresh = t + StaleAfter
              /\ m.result = "ok" => /\ level \in 0..3
                                    /\ level = 3 => m.limit
                                    /\ level = 2 => m.used = 2
              /\ m.result = "stale" => level = 4
  <1> DEFINE g == samples["main"]
             s == A!Evaluate(mem.reg, mem.st, g)
  <1>1. mem.reg \in Roster /\ mem.st \in State /\ Heard(g)
    BY DEF AccountsInv, AccountsTyped, SessionTyped, Memory, Registry, Threads
  <1>2. g.at \in Nat /\ g.at > 0 /\ DOMAIN g.said = A!Range(mem.reg.order)
    BY AccountNames DEF AccountsInv, JustSampled
  <1>3. A!Range(mem.reg.order) \subseteq Names /\ mem.reg.on \subseteq A!Range(mem.reg.order)
    BY <1>1, ListedNames DEF Roster
  <1>4. /\ s \in State /\ s.active = mem.st.active
        /\ \A a \in A!Range(mem.reg.order) :
             s.acct[a] = A!Merge(mem.st.acct[a], g.said[a], g.at)
    BY <1>1, <1>2, <1>3, Evaluated
  <1> HIDE DEF s
  <1>5. ASSUME NEW a \in A!Range(mem.reg.order)
        PROVE  /\ g.said[a].level \in 0..5 /\ g.said[a].reset \in Nat
               /\ mem.st.acct[a] \in Account
    BY <1>1, <1>2, <1>3 DEF Heard, State
  <1>6. ASSUME NEW a \in A!Range(mem.reg.order)
        PROVE  LET level == g.said[a].level
                   m == s.acct[a] IN
               /\ level < 2 => /\ m.result = "ok" /\ ~m.limit /\ m.used = level
                               /\ m.retry = 0 /\ m.fresh = g.at + StaleAfter
               /\ m.result = "ok" => /\ level \in 0..3
                                     /\ level = 3 => m.limit
                                     /\ level = 2 => m.used = 2
               /\ m.result = "stale" => level = 4
    BY <1>2, <1>4, <1>5, MergeTells
  <1> QED
    BY <1>1, <1>2, <1>3, <1>4, <1>5, <1>6 DEF s, A!Level

LEMMA RoomIsFresh ==
  ASSUME AccountsInv, pc \in {"decide", "judge"}
  PROVE  A!FreshOnes(mem.reg, A!Evaluate(mem.reg, mem.st, samples["main"]),
                     samples["main"].at) = A!Roomy
  <1> DEFINE t == samples["main"].at
             s == A!Evaluate(mem.reg, mem.st, samples["main"])
  <1>1. t \in Nat /\ t > 0 /\ mem.reg.on \subseteq A!Range(mem.reg.order)
        /\ A!Range(mem.reg.order) \subseteq Names /\ s \in State
    BY Informed
  <1>2. ASSUME NEW a \in mem.reg.on
        PROVE  A!FreshEligible(mem.reg, s, a, t) <=> A!Level(a) < 2
    <2>1. /\ A!Level(a) \in 0..5
          /\ A!Level(a) < 2 => /\ s.acct[a].result = "ok" /\ ~s.acct[a].limit
                               /\ s.acct[a].used = A!Level(a) /\ s.acct[a].retry = 0
                               /\ s.acct[a].fresh = t + StaleAfter
          /\ s.acct[a].result = "ok" => /\ A!Level(a) \in 0..3
                                        /\ A!Level(a) = 3 => s.acct[a].limit
                                        /\ A!Level(a) = 2 => s.acct[a].used = 2
      BY <1>1, <1>2, Informed
    <2> HIDE DEF s, t
    <2>2. A!FreshEligible(mem.reg, s, a, t) <=>
            /\ s.acct[a].result = "ok" /\ ~s.acct[a].limit /\ s.acct[a].used < 2
            /\ s.acct[a].fresh >= t /\ s.acct[a].fresh > 0 /\ ~(s.acct[a].retry > t)
      BY <1>1, AccountNames DEF A!FreshEligible, A!Pending, A!Near
    <2>3. A!Level(a) < 2 => A!FreshEligible(mem.reg, s, a, t)
      BY <1>1, <2>1, <2>2, AccountNames
    <2>4. A!FreshEligible(mem.reg, s, a, t) => A!Level(a) < 2
      BY <2>1, <2>2
    <2> QED
      BY <2>3, <2>4
  <1> HIDE DEF s, t
  <1>3. A!FreshOnes(mem.reg, s, t) = {a \in mem.reg.on : A!Level(a) < 2}
    BY <1>2 DEF A!FreshOnes
  <1> QED
    BY <1>1, <1>3 DEF A!Roomy, A!Listed, A!Near, s, t

(* A launch goes to an account with room, when there is one.               *)
LEMMA LaunchesInRoom ==
  ASSUME AccountsInv, A!Decide, pc' \in {"run", "save"}, A!Roomy # {}
  PROVE  mem'.st.active \in A!Roomy
  <1> DEFINE t == samples["main"].at
             s == A!Evaluate(mem.reg, mem.st, samples["main"])
             queued == s.pending # None /\ s.pending # s.active
                       /\ A!FreshEligible(mem.reg, s, s.pending, t)
             name == IF queued THEN s.pending ELSE A!LaunchAccount(mem.reg, s, t)
             next == IF name = s.active THEN [s EXCEPT !.pending = None]
                     ELSE A!Activated(s, name, t)
  <1>1. /\ pc = "decide"
        /\ IF name = None
           THEN /\ pc' = "run" /\ mem' = [mem EXCEPT !.st = s] /\ UNCHANGED auth
                /\ A!Sampleless("main")
           ELSE A!PutInPlace(next, name, "save")
    BY DEF A!Decide
  <1>2. mem \in Memory /\ mem.reg \in Roster /\ s \in State /\ t \in Nat
        /\ mem.reg.on \subseteq Names
    BY <1>1, Informed DEF AccountsInv, AccountsTyped, SessionTyped
  <1>3. A!FreshOnes(mem.reg, s, t) = A!Roomy
    BY <1>1, RoomIsFresh
  <1> HIDE DEF s, t
  <1>4. A!LaunchAccount(mem.reg, s, t) \in A!Roomy
    BY <1>2, <1>3, LaunchFits
  <1>5. queued => s.pending \in A!Roomy
    <2> SUFFICES ASSUME queued PROVE s.pending \in A!FreshOnes(mem.reg, s, t)
      BY <1>3
    <2> QED
      BY DEF A!FreshOnes, A!FreshEligible
  <1> HIDE DEF queued
  <1>6. name \in A!Roomy
    BY <1>4, <1>5
  <1> HIDE DEF name
  <1>7. name \in Names
    BY <1>2, <1>6 DEF A!Roomy
  <1>8. next \in State /\ next.active = name
    BY <1>2, <1>7, ActivatedTyped, AccountNames DEF State
  <1> HIDE DEF next
  <1>9. mem' = [mem EXCEPT !.st = next, !.wait = 0]
    BY <1>1, <1>7, AccountNames DEF A!PutInPlace
  <1>10. mem'.st = next
    BY <1>2, <1>9 DEF Memory
  <1> QED
    BY <1>6, <1>8, <1>10

(* A rate limit moves on to another account that was seen to have room, or *)
(* was not seen at all but is still trusted; or it waits.                  *)
LEMMA MovesOrWaits ==
  ASSUME AccountsInv, A!Judge
  PROVE  /\ pc' = "save" =>
              /\ mem'.st.active \in mem.reg.on \ {mem.st.active}
              /\ A!Level(mem'.st.active) \in {0, 1, A!Down}
         /\ pc' = "paused" =>
              /\ A!Roomy \subseteq {mem.st.active} \/ mem.st.active = None
              /\ mem'.wait > samples["main"].at
  <1> DEFINE t == samples["main"].at
             s == A!Evaluate(mem.reg, mem.st, samples["main"])
             hit == Hit(s, t)
             target == Target(mem.reg, hit, t)
             later == A!RetryAt(mem.reg, hit, t)
  <1>1. /\ pc = "judge"
        /\ \/ target # None /\ A!PutInPlace(A!Activated(hit, target, t), target, "save")
           \/ /\ target = None /\ pc' = "paused"
              /\ mem' = [mem EXCEPT !.st = hit, !.wait = later]
    BY Judged
  <1>2. mem \in Memory /\ mem.reg \in Roster /\ s \in State /\ s.active = mem.st.active
        /\ t \in Nat /\ t > 0 /\ mem.reg.on \subseteq A!Range(mem.reg.order)
        /\ A!Range(mem.reg.order) \subseteq Names
    BY <1>1, Informed DEF AccountsInv, AccountsTyped, SessionTyped
  <1>3. \A a \in A!Range(mem.reg.order) :
          /\ A!Level(a) \in 0..5
          /\ s.acct[a].result = "ok" => /\ A!Level(a) \in 0..3
                                        /\ A!Level(a) = 3 => s.acct[a].limit
                                        /\ A!Level(a) = 2 => s.acct[a].used = 2
          /\ s.acct[a].result = "stale" => A!Level(a) = 4
    BY <1>1, Informed
  <1>4. A!FreshOnes(mem.reg, s, t) = A!Roomy
    BY <1>1, RoomIsFresh
  <1> HIDE DEF s, t
  <1>5. /\ hit \in State /\ hit.active = mem.st.active
        /\ \A a \in Names \ {mem.st.active} : hit.acct[a] = s.acct[a]
    BY <1>2, HitTyped
  <1> HIDE DEF hit
  <1>6. /\ target \in (Able(mem.reg, hit, t) \ {mem.st.active}) \cap Names \/ target = None
        /\ target = None => mem.st.active = None
                            \/ Able(mem.reg, hit, t) \subseteq {mem.st.active}
    BY <1>2, <1>5, TargetFits
  <1>7. later \in Nat /\ later > t
    BY <1>2, <1>5, RetryLater
  <1> HIDE DEF target, later
  <1>8. CASE target # None
    <2>1. A!Activated(hit, target, t).active = target
      BY <1>2, <1>5, <1>6, <1>8, ActivatedTyped
    <2>2. target \in mem.reg.on \ {mem.st.active} /\ target \in Names
          /\ A!ExecutionEligible(mem.reg, hit, target, t)
      BY <1>6, <1>8 DEF Able
    <2>3. A!Level(target) \in {0, 1, 4}
      <3>1. hit.acct[target] = s.acct[target] /\ target \in A!Range(mem.reg.order)
        BY <1>2, <1>5, <2>2
      <3>2. \/ s.acct[target].result = "ok" /\ ~s.acct[target].limit
               /\ s.acct[target].used < 2
            \/ s.acct[target].result = "stale"
        BY <2>2, <3>1 DEF A!ExecutionEligible, A!FreshEligible, A!ActiveUsable, A!Near
      <3> QED
        BY <1>3, <3>1, <3>2
    <2>4. CASE target \in creds
      <3>1. mem' = [mem EXCEPT !.st = A!Activated(hit, target, t), !.wait = 0]
            /\ pc' = "save"
        BY <1>1, <1>8, <2>4 DEF A!PutInPlace
      <3>2. mem'.st.active = target
        BY <1>2, <2>1, <3>1 DEF Memory
      <3> QED
        BY <2>2, <2>3, <3>1, <3>2 DEF A!Down
    <2>5. CASE target \notin creds
      BY <1>1, <1>8, <2>5 DEF A!PutInPlace
    <2> QED
      BY <2>4, <2>5
  <1>9. CASE target = None
    <2>1. pc' = "paused" /\ mem'.wait = later
      BY <1>1, <1>2, <1>9 DEF Memory
    <2>2. mem.st.active # None => A!Roomy \subseteq {mem.st.active}
      <3> SUFFICES ASSUME mem.st.active # None, NEW a \in A!Roomy, a # mem.st.active
                   PROVE FALSE
        OBVIOUS
      <3>1. a \in mem.reg.on /\ A!FreshEligible(mem.reg, s, a, t)
        BY <1>4 DEF A!FreshOnes
      <3>2. hit.acct[a] = s.acct[a]
        BY <1>2, <1>5, <3>1
      <3>3. A!FreshEligible(mem.reg, hit, a, t)
        BY <3>1, <3>2 DEF A!FreshEligible, A!Pending
      <3>4. a \in Able(mem.reg, hit, t)
        BY <3>1, <3>3 DEF Able, A!ExecutionEligible
      <3> QED
        BY <1>6, <1>9, <3>4
    <2> QED
      BY <1>7, <2>1, <2>2 DEF t
  <1> QED
    BY <1>8, <1>9

(* Which steps of the session leave a decision behind.                     *)
LEMMA Decisions ==
  ASSUME A!Next
  PROVE  /\ pc = "decide" /\ pc' \in {"run", "save"} => A!Decide
         /\ pc = "judge" /\ pc' \in {"save", "paused"} => A!Judge
  <1>1. CASE A!Start \/ A!Sample \/ A!Save \/ A!RateLimit \/ A!Resume \/ A!Stop
    BY <1>1 DEF A!Start, A!Sample, A!Save, A!RateLimit, A!Resume, A!Stop
  <1>2. CASE A!MonitorSamples \/ A!MonitorDecides \/ A!CommandDies \/ A!Tick
    BY <1>2 DEF A!MonitorSamples, A!MonitorDecides, A!CommandDies, A!Tick
  <1>3. CASE A!Command \/ A!CommandWrites
    <2>1. pc' = pc
      BY <1>3 DEF A!Command, A!CommandWrites, A!Apply
    <2> QED
      BY <2>1
  <1>4. CASE A!Decide
    BY <1>4 DEF A!Decide
  <1>5. CASE A!Judge
    BY <1>5 DEF A!Judge
  <1> QED
    BY <1>1, <1>2, <1>3, <1>4, <1>5 DEF A!Next

(* A launch takes an account that was just seen to have room, when there   *)
(* is one; a rate limit moves on to another enabled account, never to one  *)
(* just seen to have none, and otherwise waits for a time to come          *)
(* (chooseLaunchAccount and handleExecutionRateLimit of auth_runtime.go).  *)
THEOREM RoomChosen == MCSpec => ChoosesRoom
  <1> DEFINE Chooses ==
        /\ pc = "decide" /\ pc' \in {"run", "save"} /\ A!Roomy # {} =>
             mem'.st.active \in A!Roomy
        /\ pc = "judge" /\ pc' = "save" =>
             /\ mem'.st.active \in mem.reg.on \ {mem.st.active}
             /\ A!Level(mem'.st.active) \in {0, 1, A!Down}
        /\ pc = "judge" /\ pc' = "paused" =>
             /\ A!Roomy \subseteq {mem.st.active} \/ mem.st.active = None
             /\ mem'.wait > samples["main"].at
  <1>1. ASSUME AccountsInv, A!Next PROVE Chooses
    BY <1>1, Decisions, LaunchesInRoom, MovesOrWaits
  <1>2. AccountsWell /\ [MCNext]_allVars => [Chooses]_(A!vars)
    <2> SUFFICES ASSUME AccountsWell, [MCNext]_allVars, ~UNCHANGED A!vars PROVE Chooses
      OBVIOUS
    <2>1. ~UNCHANGED accountVars
      BY DEF accountVars, A!vars, A!disk
    <2>2. part = "accounts" /\ A!Next
      BY <2>1 DEF MCNext, Aside, Beside, allVars
    <2> QED
      BY <1>1, <2>2 DEF AccountsWell
  <1> QED
    BY <1>2, AccountsInvariant, PTL DEF MCSpec, ChoosesRoom, A!ChoosesRoom
=============================================================================
