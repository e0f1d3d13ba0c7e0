----------------------------- MODULE WorkItems -----------------------------
(***************************************************************************)
(* One work item (internal/gocli/work_items.go, work_items_github.go): its *)
(* row of work_items, its row of tasks (task_store.go), the recovery row   *)
(* of the Codex step that drafts it, and the processes that act on it.     *)
(*                                                                         *)
(* Every command reads the item, does something slow with its copy, writes *)
(* the whole copy back in one transaction and brings the row of tasks up   *)
(* to date in another.  Nothing keeps two commands apart.  Codex, GitHub   *)
(* and the runs an item starts are external.                               *)
(***************************************************************************)
EXTENDS Integers, FiniteSets

CONSTANTS Procs,      \* numbers of the processes that act on the item at once
          None,       \* no row, no copy
          Kinds,      \* kinds of item, of those below: "routed" is an
                      \* unrouted one that a user gave a target
          AutoSubmit, \* what is drafted is submitted at once
          Commands,   \* bound on the commands of users and the refreshes
          Faults      \* bound on crashes, limits, failures

ASSUME ItemBounds == {Commands, Faults} \subseteq Nat
ASSUME ItemSubmit == AutoSubmit \in BOOLEAN
ASSUME ItemProcs == Procs = 1..Cardinality(Procs) /\ None \notin Procs
ASSUME ItemKinds ==
  /\ Kinds \subseteq {"github", "execution", "unrouted", "routed"}
  /\ "unrouted" \in Kinds => "routed" \in Kinds

VARIABLES
  row,      \* the item's row of work_items, or None
  task,     \* the status in its row of tasks, or None
  prompts,  \* recovery rows of its Codex steps: the process and the pause
  proc,     \* the processes
  posted,   \* GitHub has a review or a reply of the item
  commands, faults,
  orphan,   \* history: a process died with nothing to resume its run by
  mixed     \* history: a write of tasks was overtaken, or lost in a crash

vars == <<row, task, prompts, proc, posted, commands, faults, orphan, mixed>>

(* pause: none, a retry time to come, or one that has passed.  draft: what *)
(* the draft suggests.  restore: the status to restore from a deletion.    *)
Statuses == {"queued", "running", "draft_ready", "submitted", "dropped",
             "silenced", "needs_routing", "failed", "paused", "deleted"}
Items == [kind : Kinds, status : Statuses, hidden : BOOLEAN,
          draft : {"none", "review", "ignore"},
          pause : {"none", "pending", "over"},
          auto : BOOLEAN,
          restore : {"none", "dropped", "silenced"}]
ASSUME ItemNone == None \notin Items

Idle == [pc |-> "idle", op |-> "none", then |-> "none", copy |-> None]

Init ==
  /\ row = None /\ task = None /\ prompts = {}
  /\ proc = [p \in Procs |-> Idle]
  /\ posted = FALSE /\ commands = 0 /\ faults = 0
  /\ orphan = FALSE /\ mixed = FALSE

At(p, l) == proc[p].pc = l
Set(p, l, op, then, c) ==
  proc' = [proc EXCEPT ![p] = [pc |-> l, op |-> op, then |-> then, copy |-> c]]
Leave(p) == proc' = [proc EXCEPT ![p] = Idle]
Fault == faults < Faults /\ faults' = faults + 1

(* A process is new when it starts: no row has its number.  Which of the   *)
(* unused numbers it gets does not matter.                                 *)
Unused(p) == At(p, "idle") /\ \A r \in prompts : r.pid # p
New(p) == Unused(p) /\ \A q \in 1..(p - 1) : ~Unused(q)
(* A user gives a command, or intake meets the item again.                 *)
Asked(p) == New(p) /\ commands < Commands /\ commands' = commands + 1

Syncing == {p \in Procs : At(p, "sync")}
(* A write in one transaction; the row of tasks follows in the next step.  *)
Write(p, c, op, then) ==
  /\ row' = c /\ Set(p, "sync", op, then, c)
  /\ mixed' = (mixed \/ Syncing \ {p} # {})

Silences(d) == d = "ignore"

(***************************************************************************)
(* Intake: syncGithubWorkItems, enqueueWorkItem                            *)
(***************************************************************************)
(* A refresh keeps the status and the draft of the item that is there.  It *)
(* does not keep what else the program wrote to it: the pause, the status  *)
(* to restore, an edited route.                                            *)
Merged(new) ==
  IF row = None THEN new
  ELSE [new EXCEPT !.status = row.status, !.hidden = row.hidden,
                   !.draft = row.draft]

Ingest(p, kind, auto) ==
  LET new == [kind |-> kind, draft |-> "none", hidden |-> FALSE,
              pause |-> "none", auto |-> auto,
              restore |-> "none",
              status |-> IF kind = "unrouted" THEN "needs_routing" ELSE "queued"]
      c == Merged(new) IN
  /\ kind # "routed"
  /\ IF row = None THEN New(p) /\ UNCHANGED commands
     ELSE /\ Asked(p)
          /\ kind = row.kind \/ (kind = "unrouted" /\ row.kind = "routed")
  /\ Write(p, c, "run", IF c.auto /\ c.status = "queued" /\ kind = "github"
                        THEN "run" ELSE "idle")
  /\ UNCHANGED <<faults, task, prompts, posted, orphan>>

(***************************************************************************)
(* A run: dispatchQueuedWorkItems, runWorkItemByIDWithOptions              *)
(***************************************************************************)
Runnable(i) ==
  /\ i.auto /\ ~i.hidden
  /\ i.status = "queued" \/ (i.status = "paused" /\ i.pause # "pending")

(* "nana start" dispatches what is due; the item is run later on.          *)
Dispatch(p) ==
  /\ New(p) /\ row # None /\ Runnable(row)
  /\ Set(p, "run", "run", "none", None)
  /\ UNCHANGED <<row, task, prompts, posted, commands, faults, orphan, mixed>>

UserRun(p) ==
  /\ Asked(p) /\ row # None
  /\ Set(p, "run", "run", "none", None)
  /\ UNCHANGED <<row, task, prompts, posted, faults, orphan, mixed>>

(* The recovery row of a process that is gone makes "nana start" run the   *)
(* same attempt again, unless the item is seen to have ended.              *)
Ended == row = None \/ row.status \in {"draft_ready", "submitted", "failed",
                                       "dropped", "silenced", "needs_routing"}
Relaunch(p, r) ==
  /\ At(p, "idle") /\ At(r.pid, "idle") /\ (New(p) \/ r.pid = p)
  /\ IF Ended THEN prompts' = prompts \ {r} /\ UNCHANGED proc
     ELSE /\ r.pause # "pending"
          /\ prompts' = (prompts \ {r}) \cup {[pid |-> p, pause |-> "none"]}
          /\ Set(p, "run", "run", "none", None)
  /\ UNCHANGED <<row, task, posted, commands, faults, orphan, mixed>>

(* startWorkItemAttempt, resumeWorkItemAttempt: any status but "deleted".  *)
Start(p) ==
  LET c == [row EXCEPT !.status = "running", !.hidden = FALSE] IN
  /\ At(p, "run")
  /\ IF row = None \/ row.status = "deleted"
     THEN Leave(p) /\ UNCHANGED <<row, mixed>>
     ELSE Write(p, c, proc[p].op, "exec")
  /\ UNCHANGED <<commands, faults, task, prompts, posted, orphan>>

(* A draft is asked of Codex, whose recovery row is written first.         *)
Mine(p) == {r \in prompts : r.pid = p}
AskCodex(p) ==
  /\ At(p, "exec") /\ (proc[p].op = "fix" \/ proc[p].copy.kind = "github")
  /\ prompts' = (prompts \ Mine(p)) \cup {[pid |-> p, pause |-> "none"]}
  /\ proc' = [proc EXCEPT ![p].pc = "codex"]
  /\ UNCHANGED <<row, task, posted, commands, faults, orphan, mixed>>

(* The run of another kind of item is not followed here.                   *)
Executing(p) ==
  \/ At(p, "codex")
  \/ At(p, "exec") /\ proc[p].op # "fix" /\ proc[p].copy.kind # "github"

(* What follows the write of an outcome: submission, when it is asked for, *)
(* and what "recover" writes on top.                                       *)
AfterRun(p, c) ==
  IF proc[p].op = "fix" \/ c.status = "failed" THEN "idle"
  ELSE IF AutoSubmit /\ c.status = "draft_ready" THEN "submit"
  ELSE IF proc[p].op = "recover" THEN "again" ELSE "idle"

Outcome(p, c) ==
  /\ Executing(p)
  /\ Set(p, "save", proc[p].op, AfterRun(p, c), c)
  /\ UNCHANGED <<row, task, posted, commands, orphan, mixed>>

(* Mutant: a silenced item loses the draft that silenced it.               *)
DraftedEmpty(c, d, status) ==
  [c EXCEPT !.pause = "none", !.draft = IF Silences(d) THEN "none" ELSE d,
            !.hidden = Silences(d),
            !.status = IF Silences(d) THEN "silenced" ELSE status]

Drafted(c, d, status) ==
  [c EXCEPT !.pause = "none", !.draft = d, !.hidden = Silences(d),
            !.status = IF Silences(d) THEN "silenced" ELSE status]

(* Codex's advice decides only for what Codex drafts; an item without a    *)
(* route is told so in a draft of its own.                                 *)
Succeeds(p, d) ==
  /\ d = "ignore" => At(p, "codex")
  /\ Outcome(p, Drafted(proc[p].copy, d,
       IF At(p, "exec") /\ proc[p].copy.kind = "unrouted"
       THEN "needs_routing" ELSE "draft_ready"))
  /\ prompts' = prompts \ Mine(p)
  /\ UNCHANGED faults

Pauses(p) ==
  /\ Fault /\ proc[p].copy # None /\ (At(p, "codex") \/ proc[p].copy.kind # "unrouted")
  /\ Outcome(p, [proc[p].copy EXCEPT !.status = "paused", !.pause = "pending"])
  /\ prompts' = (prompts \ Mine(p)) \cup
       (IF At(p, "codex") THEN {[pid |-> p, pause |-> "pending"]} ELSE {})

Fails(p) ==
  /\ Fault /\ proc[p].copy # None
  /\ Outcome(p, [proc[p].copy EXCEPT !.status = "failed", !.pause = "none"])
  /\ prompts' = prompts \ Mine(p)

(* Every command ends with the write of its copy, whatever is there now.   *)
Save(p) ==
  /\ At(p, "save") /\ Write(p, proc[p].copy, proc[p].op, proc[p].then)
  /\ orphan' = (orphan \/ (proc[p].copy.status = "running"
                            /\ (row = None \/ row.status # "running")))
  /\ UNCHANGED <<task, prompts, posted, commands, faults>>

(* syncCanonicalWorkItemTask                                               *)
TaskOf(i) == IF i = None THEN None
             ELSE IF i.status = "deleted" THEN None ELSE i.status

SyncTask(p) ==
  LET then == proc[p].then IN
  /\ At(p, "sync") /\ task' = TaskOf(proc[p].copy)
  /\ CASE then = "idle" -> Leave(p)
       [] then = "again" -> \* persistRecoveredWorkItem
            Set(p, "save", "recover", "idle",
                [proc[p].copy EXCEPT !.hidden = FALSE, !.pause = "none"])
       [] OTHER -> proc' = [proc EXCEPT ![p].pc = then, ![p].then = "none"]
  /\ UNCHANGED <<row, prompts, posted, commands, faults, orphan, mixed>>

(***************************************************************************)
(* The other commands                                                      *)
(***************************************************************************)
(* submitWorkItemByID: the draft, whatever the status, unless deleted.     *)
ReadToSubmit(p) ==
  /\ \/ At(p, "submit") /\ UNCHANGED commands
     \/ Asked(p) /\ row # None
  /\ IF row = None \/ row.status = "deleted" \/ row.draft = "none"
     THEN Leave(p)
     ELSE Set(p, "post", IF At(p, "submit") THEN proc[p].op ELSE "submit",
              "none", row)
  /\ UNCHANGED <<row, task, prompts, posted, faults, orphan, mixed>>

(* An error, even one that comes after GitHub took the draft, leaves the   *)
(* item as it is.                                                          *)
Post(p) ==
  LET c == [proc[p].copy EXCEPT !.status = "submitted", !.hidden = FALSE] IN
  /\ At(p, "post")
  /\ \/ /\ Set(p, "save", proc[p].op,
               IF proc[p].op = "recover" THEN "again" ELSE "idle", c)
        /\ posted' = (posted \/ c.kind = "github") /\ UNCHANGED faults
     \/ /\ Fault /\ Leave(p)
        /\ posted' \in {posted, posted \/ proc[p].copy.kind = "github"}
  /\ UNCHANGED <<row, task, prompts, commands, orphan, mixed>>

(* fixWorkItemByID: another draft is asked for; the status stays.          *)
Fix(p) ==
  /\ Asked(p) /\ row # None
  /\ row.status # "deleted" /\ row.draft # "none"
  /\ Set(p, "exec", "fix", "none", row)
  /\ UNCHANGED <<row, task, prompts, posted, faults, orphan, mixed>>

(* A command that reads, changes a copy and writes it in a later step.     *)
Edit(p, c) ==
  /\ Asked(p) /\ Set(p, "save", "edit", "idle", c)
  /\ UNCHANGED <<row, task, prompts, posted, faults, orphan, mixed>>

Drop(p) ==
  /\ row # None /\ row.status # "deleted"
  /\ Edit(p, [row EXCEPT !.hidden = Silences(row.draft),
                !.status = IF Silences(row.draft) THEN "silenced" ELSE "dropped"])

Requeue(p) ==
  /\ row # None /\ row.status = "paused"
  /\ Edit(p, [row EXCEPT !.status = "queued", !.hidden = FALSE, !.pause = "none"])

Restore(p) ==
  /\ row # None /\ (row.status = "deleted" => row.restore # "none")
  /\ Edit(p, IF row.status = "deleted"
             THEN [row EXCEPT !.status = row.restore, !.restore = "none",
                              !.hidden = row.restore = "silenced"]
             ELSE [row EXCEPT !.hidden = FALSE, !.status =
                     IF row.draft = "none" THEN "queued" ELSE "draft_ready"])

Editable == row.status \notin {"submitted", "dropped", "silenced", "deleted"}
Patch(p) ==
  /\ row # None /\ Editable
  /\ Edit(p, IF row.kind = "unrouted" THEN [row EXCEPT !.kind = "routed"] ELSE row)

(* recoverWorkItemByID: the linked run goes on, or the item is run again;  *)
(* which of the two its run decides, which is not followed here.           *)
Recover(p) ==
  /\ Asked(p) /\ row # None
  /\ row.status # "deleted" /\ row.kind \in {"execution", "routed"}
  /\ \/ Set(p, "run", "recover", "none", None)
     \/ Set(p, "save", "edit", "idle",
            [row EXCEPT !.status = "draft_ready", !.draft = "review",
                        !.hidden = FALSE, !.pause = "none"])
  /\ UNCHANGED <<row, task, prompts, posted, faults, orphan, mixed>>

(* maintainDismissedWorkItems, in one transaction, after days in which no  *)
(* command is at work.                                                     *)
Retain ==
  /\ row # None /\ row.status \in {"dropped", "silenced", "deleted"}
  /\ \A p \in Procs : At(p, "idle")
  /\ IF row.status = "deleted" THEN row' = None
     ELSE row' = [row EXCEPT !.restore = row.status, !.status = "deleted",
                             !.hidden = TRUE]
  /\ task' = None
  /\ UNCHANGED <<prompts, proc, posted, commands, faults, orphan, mixed>>

(***************************************************************************)
(* Time and crashes                                                        *)
(***************************************************************************)
Passed(i) == IF i = None THEN None
             ELSE IF i.pause = "pending" THEN [i EXCEPT !.pause = "over"] ELSE i
Elapse ==
  /\ \/ row # None /\ row.pause = "pending"
     \/ \E r \in prompts : r.pause = "pending"
  /\ row' = Passed(row) /\ prompts' = {Passed(r) : r \in prompts}
  /\ proc' = [p \in Procs |-> [proc[p] EXCEPT !.copy = Passed(proc[p].copy)]]
  /\ UNCHANGED <<task, posted, commands, faults, orphan, mixed>>

Crash(p) ==
  /\ ~At(p, "idle") /\ Fault /\ Leave(p)
  /\ orphan' = (orphan \/ (proc[p].op \in {"run", "recover"} /\ Mine(p) = {}))
  /\ mixed' = (mixed \/ At(p, "sync"))
  /\ UNCHANGED <<row, task, prompts, posted, commands>>

Work(p) ==
  \/ Start(p) \/ AskCodex(p) \/ Save(p) \/ SyncTask(p) \/ Post(p)
  \/ At(p, "submit") /\ ReadToSubmit(p)
Pass(p) == Dispatch(p) \/ \E r \in prompts : Relaunch(p, r)
Ends(p) == (\E d \in {"review", "ignore"} : Succeeds(p, d)) \/ Pauses(p) \/ Fails(p)

Next ==
  \/ \E p \in Procs :
       \/ Work(p) \/ Pass(p) \/ Ends(p) \/ Crash(p)
       \/ \E k \in Kinds, a \in BOOLEAN : Ingest(p, k, a)
       \/ UserRun(p) \/ (At(p, "idle") /\ ReadToSubmit(p)) \/ Fix(p)
       \/ Drop(p) \/ Requeue(p) \/ Restore(p) \/ Patch(p) \/ Recover(p)
  \/ Retain \/ Elapse

(* Processes go on, Codex ends, "nana start" repeats its passes and time   *)
(* passes.                                                                 *)
Progress == (\E p \in Procs : Work(p) \/ Pass(p) \/ Ends(p)) \/ Elapse

Spec == Init /\ [][Next]_vars /\ WF_vars(Progress)

(***************************************************************************)
(* Properties                                                              *)
(***************************************************************************)
TypeOK ==
  /\ row \in Items \cup {None} /\ task \in Statuses \cup {None}
  /\ prompts \subseteq [pid : Procs, pause : {"none", "pending", "over"}]
  /\ \A p \in Procs : /\ proc[p].copy \in Items \cup {None}
                      /\ Cardinality(Mine(p)) <= 1

(* Whatever the commands overwrite of each other, an item never claims     *)
(* what it cannot show: a draft to review or hide, a review on GitHub.     *)
StatusTold ==
  row # None =>
    /\ row.status \in {"draft_ready", "submitted", "silenced"} => row.draft # "none"
    /\ row.status = "submitted" /\ row.kind = "github" => posted

(* The task list shows the item as it is whenever no command is under way, *)
(* unless one wrote between another's two writes, or died between its own. *)
TaskMirrors ==
  (~mixed /\ \A p \in Procs : At(p, "idle")) => task = TaskOf(row)

(* A run ends, over any crash of the process that runs it while Codex      *)
(* drafts, unless it was started anew with nothing to resume it by, or a   *)
(* command wrote an old copy that says "running" back.  What is left to    *)
(* "nana start" is run.                                                    *)
Unsettled == row # None /\ ~orphan /\ (row.status = "running" \/ Runnable(row))
ItemSettles == Unsettled ~> ~Unsettled
=============================================================================
