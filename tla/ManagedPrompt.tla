--------------------------- MODULE ManagedPrompt ---------------------------
(***************************************************************************)
(* One managed Codex step (internal/gocli/codex_exec_resume.go) and its    *)
(* recovery by the passes of "nana start" (managed_prompt_recovery.go).    *)
(*                                                                         *)
(* A process runs the step: it reads the checkpoint, starts Codex afresh   *)
(* or on the checkpoint's session, keeps the checkpoint file and then the  *)
(* row of managed_prompt_recovery up to date, and deals with Codex's       *)
(* outcome.  A supervisor looks at the row once per pass and launches the  *)
(* owner's resume command when the row's process is gone.  Codex, its      *)
(* session files and the owner's own state are external.                   *)
(***************************************************************************)
EXTENDS Integers, FiniteSets

CONSTANTS Procs,     \* numbers of the processes that run the step
          Sups,      \* "nana start" processes
          None,      \* no process, no row
          Managed,   \* there are managed accounts: a limit has a decision
          Returns,   \* the rate limit policy is return_pause
          Begins,    \* bound on the starts and resumptions by the user
          Faults     \* bound on crashes, failed writes, lost sessions, limits

ASSUME BoundsAssumption == {Begins, Faults} \subseteq Nat
Rows == [status : {"running", "paused", "recovering"}, pid : Procs, wait : BOOLEAN]
ASSUME ProcsAssumption ==
  Procs = 1..Cardinality(Procs) /\ None \notin Procs /\ None \notin Rows
ASSUME PolicyAssumption == Managed \in BOOLEAN /\ Returns \in BOOLEAN

VARIABLES
  ckpt,     \* the checkpoint file
  row,      \* the recovery row, or None
  owner,    \* status in the owner's manifest: "open", "terminal"
  proc,     \* the processes
  sess,     \* the session files
  sup,      \* the supervisors
  begins, faults,
  raced,    \* history: two processes have run the step at once
  fell      \* history: the last worker died with its row written

vars == <<ckpt, row, owner, proc, sess, sup, begins, faults, raced, fell>>

(* A fresh Codex is given the step's prompt, a resumed one a continuation; *)
(* a session has the name of the process whose Codex started it.           *)
Prompts == {"step", "continuation"}
Sessions == Procs
NoCkpt == [status |-> "none", session |-> None, prompt |-> "none",
           eligible |-> FALSE]
Outcomes == {"ok", "fail", "limit", "missing", "unauthorized"}
Live == {p \in Procs : proc[p].pc # "ended"}
Working == {p \in Live : proc[p].pc # "resume"}

Idle(l) == [pc |-> l, session |-> None, wait |-> FALSE, resumed |-> FALSE,
            switched |-> FALSE, out |-> "none"]
Init ==
  /\ ckpt = NoCkpt /\ row = None /\ owner = "open"
  /\ proc = [p \in Procs |-> Idle("ended")]
  /\ sess = {}
  /\ sup = [s \in Sups |-> [pc |-> "idle", snap |-> {}, child |-> None]]
  /\ begins = 0 /\ faults = 0 /\ raced = FALSE /\ fell = FALSE

Goto(p, l) == proc' = [proc EXCEPT ![p].pc = l]
(* A process joins the step: two at a time is what recovery should avoid.  *)
Join(p) == raced' = (raced \/ Working \ {p} # {}) /\ fell' = FALSE

(* Process numbers are used again once nothing mentions them.              *)
RowPid == IF row = None THEN None ELSE row.pid
Free(p) ==
  /\ proc[p].pc = "ended" /\ p \notin {ckpt.session, RowPid}
  /\ \A q \in Procs \ {p} : proc[q].session # p
  /\ \A s \in Sups : p \notin sup[s].snap \cup {sup[s].child}

Leave(p, l) == proc' = [proc EXCEPT ![p] = Idle(l)]

(* The process of a new number; which of the free ones does not matter.     *)
Born(p, l) ==
  /\ Free(p) /\ \A q \in 1..(p - 1) : ~Free(q)
  /\ Leave(p, l)
  /\ sess' = sess \ {p}

(***************************************************************************)
(* The process                                                             *)
(***************************************************************************)
(* The user, or the scheduler, starts or resumes an owner nobody runs.     *)
Begin(p) ==
  /\ begins < Begins /\ begins' = begins + 1
  /\ Live = {} /\ owner = "open" /\ Born(p, "launch") /\ Join(p)
  /\ UNCHANGED <<ckpt, row, owner, sup, faults>>

(* The resume command of a relaunch: nothing to do for a terminal owner.   *)
Resume(p) ==
  /\ proc[p].pc = "resume"
  /\ \/ owner = "terminal" /\ Leave(p, "ended") /\ UNCHANGED <<raced, fell>>
     \/ owner = "open" /\ Leave(p, "launch") /\ Join(p)
  /\ UNCHANGED <<begins, ckpt, row, owner, sess, sup, faults>>

(* The session of the checkpoint may be continued.                         *)
ShouldResume ==
  ckpt.eligible /\ ckpt.session # None /\ ckpt.prompt = "step"

(* Codex is started, on the checkpoint's session or afresh.                *)
Launch(p) ==
  /\ \/ /\ proc[p].pc = "launch" /\ ShouldResume
        /\ proc' = [proc EXCEPT ![p].pc = "sync", ![p].resumed = TRUE,
                                ![p].session = ckpt.session]
     \/ /\ (proc[p].pc = "launch" /\ ~ShouldResume) \/ proc[p].pc = "afresh"
        /\ proc' = [proc EXCEPT ![p].pc = "sync", ![p].resumed = FALSE,
                                ![p].session = None]
  /\ UNCHANGED <<begins, ckpt, row, owner, sess, sup, faults, raced, fell>>

(* Codex writes its session file some time after it started.               *)
SessionStarts(p) ==
  /\ proc[p].pc \in {"sync", "row", "wait"}
  /\ ~proc[p].resumed /\ p \notin sess
  /\ sess' = sess \cup {p}
  /\ UNCHANGED <<begins, ckpt, row, owner, proc, sup, faults, raced, fell>>

(* The session a fresh Codex is found to write: its own, once it exists.   *)
Discover(p) == IF proc[p].session = None /\ ~proc[p].resumed /\ p \in sess
               THEN p ELSE proc[p].session

(* Mutant: what is written while Codex runs cannot be resumed.             *)
InFlightCold(p, s) ==
  [status |-> "running", session |-> s, eligible |-> FALSE,
   prompt |-> IF proc[p].resumed THEN "continuation" ELSE "step"]

InFlight(p, s) ==
  [status |-> "running", session |-> s, eligible |-> s # None,
   prompt |-> IF proc[p].resumed THEN "continuation" ELSE "step"]

(* The checkpoint is written while Codex runs: at once, when its session   *)
(* is found, and a last time, when Codex has ended with outcome o.         *)
SyncFile(p) ==
  LET s == Discover(p) IN
  /\ \/ proc[p].pc = "sync"
     \/ proc[p].pc = "wait" /\ s # proc[p].session
  /\ ckpt' = InFlight(p, s)
  /\ proc' = [proc EXCEPT ![p].session = s, ![p].pc = "row"]
  /\ UNCHANGED <<begins, row, owner, sess, sup, faults, raced, fell>>

CodexEnds(p, o) ==
  LET s == Discover(p) IN
  /\ proc[p].pc = "wait"
  /\ ckpt' = InFlight(p, s)
  /\ proc' = [proc EXCEPT ![p].session = s, ![p].pc = "lastrow", ![p].out = o]
  /\ o = "missing" => proc[p].resumed /\ s \notin sess
  /\ o = "unauthorized" => proc[p].resumed
  /\ o = "ok" => s \in sess
  /\ IF o = "limit" THEN faults < Faults /\ faults' = faults + 1
                    ELSE UNCHANGED faults
  /\ UNCHANGED <<begins, row, owner, sess, sup, raced, fell>>

(* Codex's outcome: a missing session, or one another account may not see, *)
(* is started afresh; a limit asks the accounts; the rest ends the step.   *)
Outcome(p) ==
  CASE proc[p].out = "missing" \/ (proc[p].out = "unauthorized" /\ proc[p].switched)
         -> "afresh"
    [] proc[p].out = "limit" /\ Managed -> "limited"
    [] OTHER -> "finish"

Told(p) ==
  IF Outcome(p) = "afresh" THEN Idle("afresh")
  ELSE [proc[p] EXCEPT !.switched = FALSE, !.pc = Outcome(p),
                       !.out = IF @ = "ok" THEN "ok" ELSE "fail"]

(* The row follows the file; after the last time the outcome is dealt with.*)
SyncRow(p) ==
  /\ proc[p].pc \in {"row", "lastrow"}
  /\ row' = [status |-> "running", pid |-> p, wait |-> FALSE]
  /\ IF proc[p].pc = "row" THEN Goto(p, "wait")
     ELSE proc' = [proc EXCEPT ![p] = Told(p)]
  /\ UNCHANGED <<begins, ckpt, owner, sess, sup, faults, raced, fell>>

(* The row cannot be written: Codex is killed and the step fails, without  *)
(* its session being marked fit to resume.                                 *)
SyncFails(p) ==
  /\ proc[p].pc \in {"row", "lastrow"} /\ faults < Faults
  /\ faults' = faults + 1
  /\ proc' = [proc EXCEPT ![p].pc = "finish", ![p].out = "none"]
  /\ UNCHANGED <<begins, ckpt, row, owner, sess, sup, raced, fell>>

(* handleExecutionRateLimit: another account, or a time to wait for.       *)
Switched(p) ==
  /\ proc[p].pc = "limited"
  /\ proc' = [proc EXCEPT ![p] = [Idle("launch") EXCEPT !.switched = TRUE]]
  /\ UNCHANGED <<begins, ckpt, row, owner, sess, sup, faults, raced, fell>>

PauseFile(p) ==
  /\ proc[p].pc = "limited"
  /\ ckpt' = [status |-> "paused", session |-> proc[p].session, prompt |-> "step",
              eligible |-> proc[p].session # None]
  /\ proc' = [proc EXCEPT ![p] = [Idle("pause") EXCEPT !.wait = TRUE]]
  /\ UNCHANGED <<begins, row, owner, sess, sup, faults, raced, fell>>

PauseRow(p) ==
  /\ proc[p].pc = "pause"
  /\ row' = [status |-> "paused", pid |-> p, wait |-> proc[p].wait]
  /\ IF Returns THEN Leave(p, "ended") ELSE Goto(p, "asleep")
  /\ UNCHANGED <<begins, ckpt, owner, sess, sup, faults, raced, fell>>

Wake(p) ==
  /\ proc[p].pc = "asleep" /\ ~proc[p].wait /\ Goto(p, "launch")
  /\ UNCHANGED <<begins, ckpt, row, owner, sess, sup, faults, raced, fell>>

(* finalize: the checkpoint says completed or failed, then the row goes.   *)
FinishFile(p) ==
  /\ proc[p].pc = "finish"
  /\ proc' = [proc EXCEPT ![p] = [Idle("delete") EXCEPT !.out = proc[p].out]]
  /\ ckpt' = [status |-> IF proc[p].out = "ok" THEN "completed" ELSE "failed",
              session |-> proc[p].session, prompt |-> "step",
              eligible |-> proc[p].session # None /\ proc[p].out \notin {"ok", "none"}]
  /\ UNCHANGED <<begins, row, owner, sess, sup, faults, raced, fell>>

DeleteRow(p) ==
  /\ proc[p].pc = "delete" /\ row' = None /\ Goto(p, "owner")
  /\ UNCHANGED <<begins, ckpt, owner, sess, sup, faults, raced, fell>>

(* The owner takes the outcome over; a failed one may stay open.           *)
SaveOwner(p) ==
  /\ proc[p].pc = "owner" /\ Leave(p, "ended")
  /\ \/ owner' = "terminal" /\ UNCHANGED faults
     \/ /\ proc[p].out # "ok" /\ faults < Faults
        /\ faults' = faults + 1 /\ UNCHANGED owner
  /\ UNCHANGED <<begins, ckpt, row, sess, sup, raced, fell>>

(* A process dies anywhere; the file it was writing may be torn.           *)
Crash(p) ==
  /\ p \in Live /\ faults < Faults /\ faults' = faults + 1
  /\ Leave(p, "ended")
  /\ fell' = (~raced /\ Live \ {p} = {} /\ proc[p].pc \in
                {"wait", "row", "lastrow", "afresh", "limited", "pause", "asleep"}
              /\ row # None /\ row.pid = p)
  /\ \/ UNCHANGED ckpt
     \/ proc[p].pc \in {"sync", "wait", "limited", "finish"} /\ ckpt' = NoCkpt
  /\ UNCHANGED <<begins, row, owner, sess, sup, raced>>

(* Codex's session files are removed, by the user or a new sandbox.        *)
LoseSession(s) ==
  /\ s \in sess \ Live /\ faults < Faults
  /\ faults' = faults + 1 /\ sess' = sess \ {s}
  /\ UNCHANGED <<begins, ckpt, row, owner, proc, sup, raced, fell>>

(* The retry time of every pause passes.                                   *)
RowWaits == row # None /\ row.wait
Elapse ==
  /\ RowWaits \/ \E p \in Procs : proc[p].wait
  /\ proc' = [p \in Procs |-> [proc[p] EXCEPT !.wait = FALSE]]
  /\ row' = IF row = None THEN None ELSE [row EXCEPT !.wait = FALSE]
  /\ UNCHANGED <<begins, ckpt, owner, sess, sup, faults, raced, fell>>

(***************************************************************************)
(* The supervisor                                                          *)
(***************************************************************************)
(* Mutant: a row whose process is gone is cleaned up too.                  *)
OwnerTerminalOrGone == owner = "terminal" \/ RowPid \notin Live

(* cleanupManagedPromptRecoveryRows, then the snapshot of the processes.   *)
OwnerTerminal == owner = "terminal"
Snapshot(s) ==
  /\ sup[s].pc = "idle"
  /\ row' = IF OwnerTerminal THEN None ELSE row
  /\ sup' = [sup EXCEPT ![s].pc = "list", ![s].snap = Live]
  /\ UNCHANGED <<begins, ckpt, owner, proc, sess, faults, raced, fell>>

(* Mutant: only paused rows are resumed.                                   *)
RowDuePaused(snap) ==
  row # None /\ row.pid \notin snap /\ row.status = "paused" /\ ~row.wait

(* The row is read after the snapshot and judged by it.                    *)
RowDue(snap) ==
  row # None /\ row.pid \notin snap /\ (row.status = "paused" => ~row.wait)

List(s) ==
  /\ sup[s].pc = "list"
  /\ sup' = [sup EXCEPT ![s] = IF RowDue(sup[s].snap)
       THEN [pc |-> "spawn", snap |-> {}, child |-> None]
       ELSE [pc |-> "idle", snap |-> {}, child |-> None]]
  /\ UNCHANGED <<begins, ckpt, row, owner, proc, sess, faults, raced, fell>>

(* The owner's resume command is started, then the row says so, whatever   *)
(* the child has done meanwhile.  At most two processes live at once.      *)
Spawn(s, p) ==
  /\ sup[s].pc = "spawn" /\ Cardinality(Live) < 2 /\ Born(p, "resume")
  /\ sup' = [sup EXCEPT ![s].pc = "upsert", ![s].child = p]
  /\ UNCHANGED <<begins, ckpt, row, owner, faults, raced, fell>>

Upsert(s) ==
  /\ sup[s].pc = "upsert"
  /\ row' = [status |-> "recovering", pid |-> sup[s].child, wait |-> FALSE]
  /\ sup' = [sup EXCEPT ![s] = [pc |-> "idle", snap |-> {}, child |-> None]]
  /\ UNCHANGED <<begins, ckpt, owner, proc, sess, faults, raced, fell>>

SupCrash(s) ==
  /\ sup[s].pc # "idle" /\ faults < Faults /\ faults' = faults + 1
  /\ sup' = [sup EXCEPT ![s] = [pc |-> "idle", snap |-> {}, child |-> None]]
  /\ UNCHANGED <<begins, ckpt, row, owner, proc, sess, raced, fell>>

Work(p) == \/ Resume(p) \/ Launch(p) \/ SyncFile(p) \/ SyncRow(p)
           \/ Switched(p) \/ PauseFile(p) \/ PauseRow(p) \/ Wake(p)
           \/ FinishFile(p) \/ DeleteRow(p) \/ SaveOwner(p)
Pass(s) == Snapshot(s) \/ List(s) \/ (\E p \in Procs : Spawn(s, p)) \/ Upsert(s)

Next ==
  \/ \E p \in Procs : \/ Begin(p) \/ Work(p) \/ SessionStarts(p) \/ SyncFails(p)
                      \/ Crash(p) \/ LoseSession(p)
                      \/ \E o \in Outcomes : CodexEnds(p, o)
  \/ \E s \in Sups : Pass(s) \/ SupCrash(s)
  \/ Elapse

(* A process that lives goes on, Codex ends, time passes, and "nana start" *)
(* repeats its passes.                                                     *)
Fairness ==
  /\ \A p \in Procs : /\ WF_vars(Work(p)) /\ WF_vars(SessionStarts(p))
                      /\ WF_vars(\E o \in Outcomes : CodexEnds(p, o))
  /\ \A s \in Sups : WF_vars(Pass(s))
  /\ WF_vars(Elapse)

Spec == Init /\ [][Next]_vars /\ Fairness

(***************************************************************************)
(* Properties                                                              *)
(***************************************************************************)
TypeOK ==
  /\ ckpt \in [status : {"none", "running", "paused", "failed", "completed"},
               session : Sessions \cup {None}, prompt : Prompts \cup {"none"},
               eligible : BOOLEAN]
  /\ row = None \/ row \in Rows
  /\ owner \in {"open", "terminal"}
  /\ ckpt.eligible => ckpt.session # None
  /\ \A p \in Live : /\ proc[p].session \in Sessions \cup {None}
                     /\ proc[p].pc \in {"wait", "row", "sync"} => proc[p].resumed
                          \/ proc[p].session \in {None, p}

(* A worker that died after its row was written is not forgotten: as long  *)
(* as nobody else took the step up, the row that makes the next pass       *)
(* resume it is there (unless two processes ran the step at once, when the *)
(* one that ends deletes the row of the other).                            *)
Recoverable == (fell /\ ~raced) => (row # None \/ owner = "terminal")

(* After a crash in its first, fresh run, or a failure, the step continues *)
(* the session it had: the next launch is fresh only if the checkpoint has *)
(* no session, is finished or unfit after a failed row, or was written     *)
(* while a continuation ran.                                               *)
WarmRestart ==
  [][\A p \in Procs :
       Launch(p) /\ ~proc'[p].resumed /\ proc[p].pc = "launch" =>
         \/ ckpt.session = None \/ ckpt.status = "completed"
         \/ ckpt.prompt = "continuation"
         \/ ckpt.status = "failed" /\ ~ckpt.eligible]_vars

(* An interrupted step does not stay interrupted: its row goes, because    *)
(* the step was finished or its owner is.                                  *)
StepAtRest == row = None \/ owner = "terminal"
Settles == []<>StepAtRest
=============================================================================
