---------------------------- MODULE Desk_proofs ----------------------------
(***************************************************************************)
(* What nana keeps at hand for its user, for any number of processes,      *)
(* runs, users, workers, rounds and faults: a work item never claims what  *)
(* it cannot show, a planned item is launched as often as it was asked     *)
(* for, a scout's run is never without its job, and GitHub gets what was   *)
(* verified and keeps the feedback.  The four modules share nothing but    *)
(* their user, so each has an inductive invariant of its own.              *)
(***************************************************************************)
EXTENDS MCDesk, FiniteSetTheorems, WellFoundedInduction, TLAPS

-----------------------------------------------------------------------------
(***************************************************************************)
(* Work items: WorkItems                                                   *)
(***************************************************************************)
Recoveries == [pid : Procs, pause : {"none", "pending", "over"}]
ActorOps == {"none", "run", "fix", "recover", "edit", "submit"}
Actors ==
  [pc : {"idle", "run", "exec", "codex", "save", "sync", "submit", "post"}, op : ActorOps,
   then : {"none", "idle", "run", "exec", "submit", "again"}, copy : Items \cup {None}]
(* A process has one recovery row at most.                                 *)
Unshared(ps) == ps \subseteq Recoveries /\ \A r, s \in ps : r.pid = s.pid => r = s
ItemTyped ==
  /\ row \in Items \cup {None} /\ task \in Statuses \cup {None} /\ Unshared(prompts)
  /\ proc \in [Procs -> Actors] /\ posted \in BOOLEAN /\ mixed \in BOOLEAN

(* What an item, or a copy of it, claims, when it is on GitHub or not.  A  *)
(* deleted item will claim again what it is restored to.                   *)
Claims(c, there) ==
  c # None =>
    /\ c.status \in {"draft_ready", "submitted", "silenced"} => c.draft # "none"
    /\ c.restore = "silenced" => c.draft # "none"
    /\ c.status = "submitted" /\ c.kind = "github" => there

(* A process that has something to write has a copy that claims no more.   *)
Fit(a, there) ==
  /\ a.pc \in {"exec", "codex", "save", "sync", "post"} => a.copy # None
  /\ a.pc = "post" => a.copy.draft # "none"
  /\ a.pc \in {"save", "sync"} => a.then # "none"
  /\ Claims(a.copy, there)

(* The row of tasks is the item's, or one process is about to see to it.   *)
Mirrored ==
  mixed \/ /\ Syncing = {} => task = TaskOf(row)
           /\ \A p \in Syncing : Syncing = {p} /\ TaskOf(proc[p].copy) = TaskOf(row)

(* The order of an item and its copies.                                    *)
ItemInv ==
  /\ ItemTyped /\ Claims(row, posted) /\ Mirrored
  /\ \A p \in Procs : Fit(proc[p], posted)

(* The first state of an item.                                             *)
LEMMA ItemBegins == Init => ItemInv
  <1> SUFFICES ASSUME Init PROVE ItemInv
    OBVIOUS
  <1>1. Idle \in Actors /\ Idle.pc = "idle" /\ Idle.copy = None
    BY DEF Idle, Actors, ActorOps
  <1>2. ItemTyped
    BY <1>1 DEF Init, ItemTyped, Unshared
  <1>3. Claims(row, posted) /\ \A p \in Procs : Fit(proc[p], posted)
    BY <1>1 DEF Init, Claims, Fit
  <1>4. Mirrored
    BY <1>1 DEF Init, Mirrored, Syncing, At, TaskOf
  <1> QED
    BY <1>2, <1>3, <1>4 DEF ItemInv

(* A process goes on with another record, and the rest stays in order.     *)
LEMMA ItemMoves ==
  ASSUME ItemInv, NEW p \in Procs, NEW a \in Actors, proc' = [proc EXCEPT ![p] = a],
         row' \in Items \cup {None}, task' \in Statuses \cup {None}, Unshared(prompts'),
         mixed' \in BOOLEAN, posted' \in BOOLEAN, posted => posted',
         Claims(row', posted'), Fit(a, posted')
  PROVE  ItemTyped' /\ Claims(row', posted') /\ \A q \in Procs : Fit(proc'[q], posted')
  <1>1. /\ proc' \in [Procs -> Actors] /\ proc'[p] = a
        /\ \A q \in Procs \ {p} : proc'[q] = proc[q]
    BY DEF ItemInv, ItemTyped
  <1>2. \A q \in Procs : Fit(proc'[q], posted')
    BY <1>1 DEF ItemInv, Fit, Claims
  <1> QED
    BY <1>1, <1>2 DEF ItemTyped

(* A process that neither writes the item nor sees to the row of tasks.    *)
LEMMA Apart ==
  ASSUME ItemInv, NEW p \in Procs, NEW a \in Actors, proc' = [proc EXCEPT ![p] = a],
         ~At(p, "sync"), a.pc # "sync", UNCHANGED <<row, task, mixed>>, Unshared(prompts'),
         posted' \in BOOLEAN, posted => posted', Fit(a, posted')
  PROVE  ItemInv'
  <1>1. Syncing' = Syncing /\ \A q \in Syncing : proc'[q] = proc[q]
    BY DEF ItemInv, ItemTyped, Syncing, At
  <1>2. Mirrored'
    BY <1>1 DEF ItemInv, Mirrored, TaskOf
  <1>3. Claims(row', posted')
    BY DEF ItemInv, Claims
  <1>4. row' \in Items \cup {None} /\ task' \in Statuses \cup {None} /\ mixed' \in BOOLEAN
    BY DEF ItemInv, ItemTyped
  <1> QED
    BY <1>2, <1>3, <1>4, ItemMoves DEF ItemInv

(* A process that writes the item.                                         *)
LEMMA WriteStep ==
  ASSUME ItemInv, NEW p \in Procs, NEW c \in Items, NEW op \in ActorOps,
         NEW then \in {"idle", "run", "exec", "submit", "again"}, Write(p, c, op, then),
         ~At(p, "sync"), Claims(c, posted), UNCHANGED <<task, prompts, posted>>
  PROVE  ItemInv'
  <1> DEFINE a == [pc |-> "sync", op |-> op, then |-> then, copy |-> c]
  <1>1. /\ a \in Actors /\ a.copy = c /\ a.pc = "sync" /\ a.then = then
        /\ proc' = [proc EXCEPT ![p] = a] /\ row' = c
        /\ mixed' = (mixed \/ Syncing \ {p} # {})
    BY DEF Actors, Write, Set
  <1> HIDE DEF a
  <1>2. Fit(a, posted)
    BY <1>1, ItemNone DEF Fit
  <1>3. /\ mixed' \in BOOLEAN /\ posted' \in BOOLEAN /\ task' \in Statuses \cup {None}
        /\ Unshared(prompts')
    BY <1>1 DEF ItemInv, ItemTyped
  <1>4. ItemTyped' /\ Claims(row', posted') /\ \A q \in Procs : Fit(proc'[q], posted')
    BY <1>1, <1>2, <1>3, ItemMoves
  <1>5. Mirrored'
    <2>1. proc'[p] = a /\ \A q \in Procs \ {p} : proc'[q] = proc[q]
      BY <1>1 DEF ItemInv, ItemTyped
    <2>2. Syncing' = Syncing \cup {p}
      BY <1>1, <2>1 DEF Syncing, At
    <2> QED
      BY <1>1, <2>1, <2>2 DEF Mirrored
  <1> QED
    BY <1>4, <1>5 DEF ItemInv

(* Intake.  What it merges claims no more than the row did.                *)
LEMMA IngestStep ==
  ASSUME ItemInv, NEW p \in Procs, NEW k \in Kinds, NEW auto \in BOOLEAN, Ingest(p, k, auto)
  PROVE  ItemInv'
  <1> DEFINE new == [kind |-> k, draft |-> "none", hidden |-> FALSE, pause |-> "none",
                     auto |-> auto, restore |-> "none",
                     status |-> IF k = "unrouted" THEN "needs_routing" ELSE "queued"]
             c == Merged(new)
  <1>1. new \in Items
    BY DEF Items, Statuses
  <1>2. c \in Items /\ Claims(c, posted)
    <2>1. CASE row = None
      BY <1>1, <2>1 DEF Merged, Claims
    <2>2. CASE row # None
      <3>1. row \in Items /\ Claims(row, posted)
        BY <2>2 DEF ItemInv, ItemTyped
      <3>2. c = [kind |-> k, draft |-> row.draft, hidden |-> row.hidden, pause |-> "none",
                 auto |-> auto, restore |-> "none", status |-> row.status]
        BY <2>2 DEF Merged
      <3>3. k = "github" => row.kind = "github"
        BY <2>2 DEF Ingest
      <3> HIDE DEF c, new
      <3>4. c \in Items
        BY <3>1, <3>2 DEF Items
      <3> QED
        BY <2>2, <3>1, <3>2, <3>3, <3>4 DEF Claims
    <2> QED
      BY <2>1, <2>2
  <1>3. PICK t \in {"idle", "run"} : Write(p, c, "run", t)
    BY DEF Ingest
  <1> HIDE DEF c, new
  <1>4. At(p, "idle") /\ UNCHANGED <<task, posted, prompts>> /\ "run" \in ActorOps
    BY DEF Ingest, Asked, New, Unused, ActorOps
  <1> QED
    BY <1>2, <1>3, <1>4, WriteStep DEF At

(* Recovery rows, of which a process that asks Codex has one.              *)
LEMMA RowsChange ==
  ASSUME ItemInv, NEW p \in Procs, NEW pause \in {"none", "pending", "over"}
  PROVE  /\ Unshared(prompts \ Mine(p))
         /\ Unshared((prompts \ Mine(p)) \cup {[pid |-> p, pause |-> pause]})
  <1>1. Unshared(prompts)
    BY DEF ItemInv, ItemTyped
  <1> QED
    BY <1>1 DEF Unshared, Mine, Recoveries

(* A process that sets out to do something with the copy it has read.      *)
LEMMA SetStep ==
  ASSUME ItemInv, NEW p \in Procs, NEW op \in ActorOps, NEW c \in Items \cup {None},
         NEW pc \in {"run", "exec", "save", "post"},
         NEW then \in {"none", "idle", "submit", "again"}, Set(p, pc, op, then, c),
         pc # "run" => c # None, pc = "save" => then # "none",
         pc = "post" => c.draft # "none", ~At(p, "sync"), UNCHANGED <<row, task, mixed>>,
         Unshared(prompts'), posted' \in BOOLEAN, posted => posted', Claims(c, posted')
  PROVE  ItemInv'
  <1> DEFINE a == [pc |-> pc, op |-> op, then |-> then, copy |-> c]
  <1>1. /\ a \in Actors /\ a.copy = c /\ a.pc = pc /\ a.then = then
        /\ proc' = [proc EXCEPT ![p] = a]
    BY DEF Actors, Set
  <1> HIDE DEF a
  <1>2. Fit(a, posted')
    BY <1>1 DEF Fit
  <1> QED
    BY <1>1, <1>2, Apart

(* A process that leaves.                                                  *)
LEMMA ItemLeaves ==
  ASSUME ItemInv, NEW p \in Procs, Leave(p), ~At(p, "sync"), UNCHANGED <<row, task, mixed>>,
         Unshared(prompts'), posted' \in BOOLEAN, posted => posted'
  PROVE  ItemInv'
  <1>1. Idle \in Actors /\ Idle.pc = "idle" /\ Idle.copy = None
    BY DEF Idle, Actors, ActorOps
  <1>2. Fit(Idle, posted')
    BY <1>1 DEF Fit, Claims
  <1> QED
    BY <1>1, <1>2, Apart DEF Leave

(* A run begins: the copy says so, and the recovery row is the process's   *)
(* own.                                                                    *)
LEMMA RunSteps ==
  ASSUME ItemInv, NEW p \in Procs,
         Dispatch(p) \/ UserRun(p) \/ (\E r \in prompts : Relaunch(p, r)) \/ Start(p) \/ AskCodex(p)
  PROVE  ItemInv'
  <1>1. Unshared(prompts) /\ posted \in BOOLEAN /\ ActorOps # {} /\ "run" \in ActorOps
        /\ proc[p] \in Actors /\ Fit(proc[p], posted) /\ Claims(None, posted)
    BY DEF ItemInv, ItemTyped, ActorOps, Claims
  <1>2. CASE Dispatch(p) \/ UserRun(p)
    <2>1. /\ ~At(p, "sync") /\ Set(p, "run", "run", "none", None)
          /\ UNCHANGED <<row, task, mixed, prompts, posted>>
      BY <1>2 DEF Dispatch, UserRun, Asked, New, Unused, At
    <2> QED
      BY <1>1, <2>1, SetStep
  <1>3. ASSUME NEW r \in prompts, Relaunch(p, r) PROVE ItemInv'
    <2>1. At(p, "idle") /\ (New(p) \/ r.pid = p) /\ UNCHANGED <<row, task, posted, mixed>>
      BY <1>3 DEF Relaunch
    <2>2. CASE Ended
      <3>1. UNCHANGED proc /\ prompts' = prompts \ {r}
        BY <1>3, <2>2 DEF Relaunch
      <3>2. Syncing' = Syncing
        BY <3>1 DEF Syncing, At
      <3> QED
        BY <1>1, <2>1, <3>1, <3>2 DEF ItemInv, ItemTyped, Unshared, Mirrored, TaskOf
    <2>3. CASE ~Ended
      <3>1. /\ prompts' = (prompts \ {r}) \cup {[pid |-> p, pause |-> "none"]}
            /\ Set(p, "run", "run", "none", None)
        BY <1>3, <2>3 DEF Relaunch
      <3>2. \A s \in prompts \ {r} : s.pid # p
        BY <1>1, <2>1 DEF New, Unused, Unshared
      <3>3. Unshared(prompts')
        BY <1>1, <3>1, <3>2 DEF Unshared, Recoveries
      <3> QED
        BY <1>1, <2>1, <3>1, <3>3, SetStep DEF At
    <2> QED
      BY <2>2, <2>3
  <1>4. CASE Start(p)
    <2>1. CASE row = None \/ row.status = "deleted"
      <3>1. Leave(p) /\ ~At(p, "sync") /\ UNCHANGED <<row, task, mixed, prompts, posted>>
        BY <1>4, <2>1 DEF Start, At
      <3> QED
        BY <1>1, <3>1, ItemLeaves
    <2>2. CASE ~(row = None \/ row.status = "deleted")
      <3> DEFINE c == [row EXCEPT !.status = "running", !.hidden = FALSE]
      <3>1. row \in Items /\ Claims(row, posted)
        BY <2>2 DEF ItemInv, ItemTyped
      <3>2. c \in Items /\ Claims(c, posted)
        BY <3>1, ItemNone DEF Claims, Items, Statuses
      <3>3. /\ Write(p, c, proc[p].op, "exec") /\ ~At(p, "sync") /\ UNCHANGED <<task, prompts, posted>>
        BY <1>4, <2>2 DEF Start, At
      <3>4. proc[p].op \in ActorOps
        BY <1>1 DEF Actors
      <3> HIDE DEF c
      <3> QED
        BY <3>2, <3>3, <3>4, WriteStep
    <2> QED
      BY <2>1, <2>2
  <1>5. CASE AskCodex(p)
    <2> DEFINE a == [proc[p] EXCEPT !.pc = "codex"]
    <2>1. a \in Actors /\ a.pc = "codex" /\ a.copy = proc[p].copy /\ a.then = proc[p].then
      BY <1>1 DEF Actors
    <2>2. /\ proc' = [proc EXCEPT ![p] = a] /\ UNCHANGED <<row, task, mixed, posted>>
          /\ At(p, "exec") /\ prompts' = (prompts \ Mine(p)) \cup {[pid |-> p, pause |-> "none"]}
      BY <1>5 DEF AskCodex
    <2> HIDE DEF a
    <2>3. Fit(a, posted) /\ Unshared(prompts')
      BY <1>1, <2>1, <2>2, RowsChange DEF Fit, At
    <2> QED
      BY <1>1, <2>1, <2>2, <2>3, Apart DEF At
  <1> QED
    BY <1>2, <1>3, <1>4, <1>5

(* A run or a draft ends, with what it made of the copy.                   *)
LEMMA OutcomeStep ==
  ASSUME ItemInv, NEW p \in Procs, NEW c \in Items, Outcome(p, c), Claims(c, posted),
         Unshared(prompts')
  PROVE  ItemInv'
  <1>1. /\ ~At(p, "sync") /\ UNCHANGED <<row, task, mixed, posted>>
        /\ Set(p, "save", proc[p].op, AfterRun(p, c), c)
    BY DEF Outcome, Executing, At
  <1>2. /\ AfterRun(p, c) \in {"idle", "submit", "again"} /\ proc[p].op \in ActorOps
        /\ posted \in BOOLEAN
    BY DEF AfterRun, ItemInv, ItemTyped, Actors
  <1> QED
    BY <1>1, <1>2, ItemNone, SetStep

(* What Codex drafts, a limit or a failure goes into the copy.             *)
LEMMA EndSteps ==
  ASSUME ItemInv, NEW p \in Procs, Ends(p)
  PROVE  ItemInv'
  <1> DEFINE c == proc[p].copy
  <1>1. /\ c \in Items \cup {None} /\ Claims(c, posted)
        /\ At(p, "exec") \/ At(p, "codex") => c # None
    BY DEF ItemInv, ItemTyped, Actors, Fit, At
  <1> HIDE DEF c
  <1>2. ASSUME NEW d \in {"review", "ignore"}, Succeeds(p, d) PROVE ItemInv'
    <2>1. PICK st \in {"needs_routing", "draft_ready"} :
            Outcome(p, Drafted(c, d, st))
      BY <1>2 DEF Succeeds, c
    <2>2. c \in Items
      BY <1>1, <2>1 DEF Outcome, Executing
    <2>3. Drafted(c, d, st) \in Items /\ Claims(Drafted(c, d, st), posted)
      BY <1>1, <2>2 DEF Drafted, Silences, Items, Statuses, Claims
    <2>4. Unshared(prompts')
      BY <1>2, RowsChange DEF Succeeds
    <2> QED
      BY <2>1, <2>3, <2>4, OutcomeStep
  <1>3. CASE Pauses(p)
    <2> DEFINE e == [c EXCEPT !.status = "paused", !.pause = "pending"]
    <2>1. Outcome(p, e) /\ c \in Items
      BY <1>1, <1>3 DEF Pauses, c
    <2>2. e \in Items /\ e.status = "paused" /\ e.draft = c.draft /\ e.restore = c.restore
      BY <2>1 DEF Items, Statuses
    <2> HIDE DEF e
    <2>4. Claims(e, posted)
      BY <1>1, <2>1, <2>2, ItemNone DEF Claims
    <2>3. Unshared(prompts')
      <3>1. \/ prompts' = (prompts \ Mine(p)) \cup {[pid |-> p, pause |-> "pending"]}
            \/ prompts' = prompts \ Mine(p)
        BY <1>3 DEF Pauses
      <3> QED
        BY <3>1, RowsChange
    <2> QED
      BY <2>1, <2>2, <2>3, <2>4, OutcomeStep
  <1>4. CASE Fails(p)
    <2> DEFINE e == [c EXCEPT !.status = "failed", !.pause = "none"]
    <2>1. Outcome(p, e) /\ c \in Items
      BY <1>1, <1>4 DEF Fails, c
    <2>2. e \in Items /\ e.status = "failed" /\ e.draft = c.draft /\ e.restore = c.restore
      BY <2>1 DEF Items, Statuses
    <2> HIDE DEF e
    <2>4. Claims(e, posted)
      BY <1>1, <2>1, <2>2, ItemNone DEF Claims
    <2>3. Unshared(prompts')
      BY <1>4, RowsChange DEF Fails
    <2> QED
      BY <2>1, <2>2, <2>3, <2>4, OutcomeStep
  <1> QED
    BY <1>2, <1>3, <1>4 DEF Ends

(* A copy is written over whatever is there, and claims no more than it    *)
(* can show.                                                               *)
LEMMA SaveStep ==
  ASSUME ItemInv, NEW p \in Procs, Save(p)
  PROVE  ItemInv'
  <1>1. /\ proc[p] \in Actors /\ Fit(proc[p], posted) /\ At(p, "save")
    BY DEF ItemInv, ItemTyped, Save
  <1>2. /\ proc[p].copy \in Items /\ Claims(proc[p].copy, posted) /\ proc[p].op \in ActorOps
        /\ proc[p].then \in {"idle", "run", "exec", "submit", "again"} /\ ~At(p, "sync")
    BY <1>1 DEF Actors, Fit, At
  <1>3. /\ Write(p, proc[p].copy, proc[p].op, proc[p].then)
        /\ UNCHANGED <<task, prompts, posted>>
    BY DEF Save
  <1> QED
    BY <1>2, <1>3, WriteStep

(* The row of tasks is brought up to date by the one that is to do it.     *)
LEMMA SyncTaskStep ==
  ASSUME ItemInv, NEW p \in Procs, SyncTask(p)
  PROVE  ItemInv'
  <1> DEFINE c == proc[p].copy
  <1>1. /\ proc[p] \in Actors /\ At(p, "sync") /\ c \in Items /\ Claims(c, posted)
        /\ proc[p].then \in {"idle", "run", "exec", "submit", "again"}
        /\ task' = TaskOf(c) /\ UNCHANGED <<row, prompts, posted, mixed>>
    BY DEF ItemInv, ItemTyped, SyncTask, Fit, At, Actors
  <1> HIDE DEF c
  <1>2. PICK a \in Actors : /\ proc' = [proc EXCEPT ![p] = a] /\ Fit(a, posted)
                            /\ a.pc # "sync"
    <2>1. CASE proc[p].then = "idle"
      <3>1. Idle \in Actors /\ Fit(Idle, posted) /\ Idle.pc # "sync"
        BY DEF Idle, Actors, ActorOps, Fit, Claims
      <3> QED
        BY <2>1, <3>1 DEF SyncTask, Leave
    <2>2. CASE proc[p].then = "again"
      <3> DEFINE e == [c EXCEPT !.hidden = FALSE, !.pause = "none"]
                 a == [pc |-> "save", op |-> "recover", then |-> "idle", copy |-> e]
      <3>1. /\ e \in Items /\ e.status = c.status /\ e.draft = c.draft /\ e.restore = c.restore
            /\ e.kind = c.kind
        BY <1>1 DEF Items
      <3>2. proc' = [proc EXCEPT ![p] = a]
        BY <2>2 DEF SyncTask, Set, c
      <3> HIDE DEF e
      <3>4. Claims(e, posted)
        BY <1>1, <3>1, ItemNone DEF Claims
      <3>3. a \in Actors /\ Fit(a, posted) /\ a.pc # "sync"
        BY <3>1, <3>4, ItemNone DEF Actors, ActorOps, Fit
      <3> QED
        BY <3>2, <3>3
    <2>3. CASE proc[p].then \in {"run", "exec", "submit"}
      <3> DEFINE a == [proc[p] EXCEPT !.pc = proc[p].then, !.then = "none"]
      <3>1. proc' = [proc EXCEPT ![p] = a]
        <4>1. proc' = [proc EXCEPT ![p].pc = proc[p].then, ![p].then = "none"]
          BY <2>3 DEF SyncTask
        <4>2. proc \in [Procs -> Actors]
          BY DEF ItemInv, ItemTyped
        <4> QED
          BY <4>1, <4>2 DEF Actors
      <3>2. a \in Actors /\ a.pc = proc[p].then /\ a.copy = c
        BY <1>1, <2>3 DEF Actors, c
      <3> HIDE DEF a
      <3>3. Fit(a, posted) /\ a.pc # "sync"
        BY <1>1, <2>3, <3>2, ItemNone DEF Fit
      <3> QED
        BY <3>1, <3>2, <3>3
    <2> QED
      BY <1>1, <2>1, <2>2, <2>3
  <1>3. TaskOf(c) \in Statuses \cup {None}
    BY <1>1 DEF TaskOf, Items
  <1>4. /\ row' \in Items \cup {None} /\ Unshared(prompts') /\ mixed' \in BOOLEAN
        /\ posted' \in BOOLEAN /\ Claims(row', posted')
    BY <1>1 DEF ItemInv, ItemTyped
  <1>5. ItemTyped' /\ Claims(row', posted') /\ \A q \in Procs : Fit(proc'[q], posted')
    BY <1>1, <1>2, <1>3, <1>4, ItemMoves
  <1>6. Mirrored'
    <2>1. proc'[p] = a /\ \A q \in Procs \ {p} : proc'[q] = proc[q]
      BY <1>2 DEF ItemInv, ItemTyped
    <2>2. Syncing' = Syncing \ {p} /\ p \in Syncing
      BY <1>1, <1>2, <2>1 DEF Syncing, At
    <2>3. ~mixed => Syncing = {p} /\ TaskOf(c) = TaskOf(row)
      BY <2>2 DEF ItemInv, Mirrored, c
    <2>4. TaskOf(row)' = TaskOf(row)
      BY <1>1 DEF TaskOf
    <2> QED
      BY <1>1, <2>2, <2>3, <2>4 DEF Mirrored
  <1> QED
    BY <1>5, <1>6 DEF ItemInv

(* A draft is posted as it was read, unless the item is gone.              *)
LEMMA SubmitSteps ==
  ASSUME ItemInv, NEW p \in Procs, ReadToSubmit(p) \/ Post(p)
  PROVE  ItemInv'
  <1>1. /\ Unshared(prompts) /\ posted \in BOOLEAN /\ proc[p] \in Actors /\ Fit(proc[p], posted)
        /\ proc[p].op \in ActorOps /\ "submit" \in ActorOps
    BY DEF ItemInv, ItemTyped, Actors, ActorOps
  <1>2. CASE ReadToSubmit(p)
    <2>1. /\ ~At(p, "sync") /\ UNCHANGED <<row, task, mixed, prompts, posted>>
      BY <1>2 DEF ReadToSubmit, Asked, New, Unused, At
    <2>2. CASE row = None \/ row.status = "deleted" \/ row.draft = "none"
      BY <1>1, <1>2, <2>1, <2>2, ItemLeaves DEF ReadToSubmit
    <2>3. CASE ~(row = None \/ row.status = "deleted" \/ row.draft = "none")
      <3>1. PICK op \in ActorOps : Set(p, "post", op, "none", row)
        BY <1>1, <1>2, <2>3 DEF ReadToSubmit
      <3>2. row \in Items /\ Claims(row, posted)
        BY <2>3 DEF ItemInv, ItemTyped
      <3> QED
        BY <1>1, <2>1, <2>3, <3>1, <3>2, SetStep
    <2> QED
      BY <2>2, <2>3
  <1>3. CASE Post(p)
    <2> DEFINE c == [proc[p].copy EXCEPT !.status = "submitted", !.hidden = FALSE]
    <2>1. /\ ~At(p, "sync") /\ UNCHANGED <<row, task, prompts, mixed>>
          /\ proc[p].copy \in Items /\ proc[p].copy.draft # "none"
      BY <1>1, <1>3 DEF Post, At, Fit, Actors
    <2>2. /\ c \in Items /\ c.status = "submitted" /\ c.draft # "none" /\ c.kind = proc[p].copy.kind
      BY <2>1 DEF Items, Statuses
    <2>3. \/ \E t \in {"idle", "again"} :
               Set(p, "save", proc[p].op, t, c) /\ posted' = (posted \/ c.kind = "github")
          \/ Leave(p) /\ posted' \in {posted, posted \/ proc[p].copy.kind = "github"}
      BY <1>3 DEF Post
    <2> HIDE DEF c
    <2>4. ASSUME NEW t \in {"idle", "again"}, Set(p, "save", proc[p].op, t, c),
                 posted' = (posted \/ c.kind = "github")
          PROVE  ItemInv'
      <3>1. Claims(c, posted')
        BY <2>2, <2>4 DEF Claims
      <3>2. posted' \in BOOLEAN /\ (posted => posted') /\ Unshared(prompts')
        BY <1>1, <2>1, <2>4
      <3>3. c # None
        BY <2>2, ItemNone
      <3> QED
        BY <1>1, <2>1, <2>2, <2>4, <3>1, <3>2, <3>3, SetStep
    <2>5. CASE Leave(p) /\ posted' \in {posted, posted \/ proc[p].copy.kind = "github"}
      <3>1. posted' \in BOOLEAN /\ (posted => posted') /\ Unshared(prompts')
        BY <1>1, <2>1, <2>5
      <3> QED
        BY <2>1, <2>5, <3>1, ItemLeaves
    <2> QED
      BY <2>3, <2>4, <2>5
  <1> QED
    BY <1>2, <1>3

(* A copy that a command changes and will write.                           *)
LEMMA EditStep ==
  ASSUME ItemInv, NEW p \in Procs, NEW c \in Items, Claims(c, posted), Edit(p, c)
  PROVE  ItemInv'
  <1>1. /\ ~At(p, "sync") /\ UNCHANGED <<row, task, mixed, prompts, posted>>
        /\ Set(p, "save", "edit", "idle", c)
    BY DEF Edit, Asked, New, Unused, At
  <1>2. Unshared(prompts) /\ posted \in BOOLEAN /\ "edit" \in ActorOps
    BY DEF ItemInv, ItemTyped, ActorOps
  <1> QED
    BY <1>1, <1>2, ItemNone, SetStep

(* What a user changes keeps the draft that the status needs.              *)
LEMMA EditSteps ==
  ASSUME ItemInv, NEW p \in Procs, row # None,
         Drop(p) \/ Requeue(p) \/ Restore(p) \/ Patch(p)
  PROVE  ItemInv'
  <1>1. row \in Items /\ Claims(row, posted)
    BY DEF ItemInv, ItemTyped
  <1>2. CASE Drop(p)
    <2> DEFINE c == [row EXCEPT !.hidden = Silences(row.draft),
                       !.status = IF Silences(row.draft) THEN "silenced" ELSE "dropped"]
    <2>1. /\ c \in Items /\ c.draft = row.draft /\ c.restore = row.restore
          /\ c.status \in {"silenced", "dropped"} /\ (c.status = "silenced" => row.draft # "none")
      BY <1>1 DEF Items, Statuses, Silences
    <2>2. Edit(p, c)
      BY <1>2 DEF Drop
    <2> HIDE DEF c
    <2>3. Claims(c, posted)
      BY <1>1, <2>1, ItemNone DEF Claims
    <2> QED
      BY <2>1, <2>2, <2>3, EditStep
  <1>3. CASE Requeue(p)
    <2> DEFINE c == [row EXCEPT !.status = "queued", !.hidden = FALSE, !.pause = "none"]
    <2>1. c \in Items /\ c.draft = row.draft /\ c.restore = row.restore /\ c.status = "queued"
      BY <1>1 DEF Items, Statuses
    <2>2. Edit(p, c)
      BY <1>3 DEF Requeue
    <2> HIDE DEF c
    <2>3. Claims(c, posted)
      BY <1>1, <2>1, ItemNone DEF Claims
    <2> QED
      BY <2>1, <2>2, <2>3, EditStep
  <1>4. CASE Restore(p)
    <2>1. CASE row.status = "deleted"
      <3> DEFINE c == [row EXCEPT !.status = row.restore, !.restore = "none",
                              !.hidden = row.restore = "silenced"]
      <3>1. row.restore \in {"dropped", "silenced"}
        BY <1>1, <1>4, <2>1 DEF Restore, Items
      <3>2. c \in Items /\ c.draft = row.draft /\ c.restore = "none" /\ c.status = row.restore
        BY <1>1, <3>1 DEF Items, Statuses
      <3>3. Edit(p, c)
        BY <1>4, <2>1 DEF Restore
      <3> HIDE DEF c
      <3>4. Claims(c, posted)
        BY <1>1, <3>1, <3>2, ItemNone DEF Claims
      <3> QED
        BY <3>2, <3>3, <3>4, EditStep
    <2>2. CASE row.status # "deleted"
      <3> DEFINE c == [row EXCEPT !.hidden = FALSE, !.status =
                     IF row.draft = "none" THEN "queued" ELSE "draft_ready"]
      <3>1. /\ c \in Items /\ c.draft = row.draft /\ c.restore = row.restore
            /\ c.status \in {"queued", "draft_ready"}
            /\ c.status = "draft_ready" => row.draft # "none"
        BY <1>1 DEF Items, Statuses
      <3>2. Edit(p, c)
        BY <1>4, <2>2 DEF Restore
      <3> HIDE DEF c
      <3>3. Claims(c, posted)
        BY <1>1, <3>1, ItemNone DEF Claims
      <3> QED
        BY <3>1, <3>2, <3>3, EditStep
    <2> QED
      BY <2>1, <2>2
  <1>5. CASE Patch(p)
    <2>1. CASE row.kind = "unrouted"
      <3> DEFINE c == [row EXCEPT !.kind = "routed"]
      <3>1. /\ c \in Items /\ c.draft = row.draft /\ c.restore = row.restore /\ c.status = row.status
            /\ c.kind = "routed"
        BY <1>1, <2>1, ItemKinds DEF Items
      <3>2. Edit(p, c)
        BY <1>5, <2>1 DEF Patch
      <3> HIDE DEF c
      <3>3. Claims(c, posted)
        BY <1>1, <3>1, ItemNone DEF Claims
      <3> QED
        BY <3>1, <3>2, <3>3, EditStep
    <2>2. CASE row.kind # "unrouted"
      BY <1>1, <1>5, <2>2, EditStep DEF Patch
    <2> QED
      BY <2>1, <2>2
  <1> QED
    BY <1>2, <1>3, <1>4, <1>5

(* Another draft, and what is recovered.                                   *)
LEMMA RedoSteps ==
  ASSUME ItemInv, NEW p \in Procs, Fix(p) \/ Recover(p)
  PROVE  ItemInv'
  <1>1. /\ ~At(p, "sync") /\ UNCHANGED <<row, task, mixed, prompts, posted>>
        /\ row \in Items /\ Claims(row, posted) /\ Unshared(prompts) /\ posted \in BOOLEAN
        /\ {"fix", "edit", "recover"} \subseteq ActorOps
    BY DEF Fix, Recover, Asked, New, Unused, At, ItemInv, ItemTyped, ActorOps
  <1>2. CASE Fix(p)
    BY <1>1, <1>2, ItemNone, SetStep DEF Fix
  <1>3. CASE Set(p, "run", "recover", "none", None)
    BY <1>1, <1>3, SetStep DEF Claims
  <1>4. CASE Recover(p) /\ ~Set(p, "run", "recover", "none", None)
    <2> DEFINE c == [row EXCEPT !.status = "draft_ready", !.draft = "review",
                        !.hidden = FALSE, !.pause = "none"]
    <2>1. c \in Items /\ c.draft = "review" /\ c.status = "draft_ready"
      BY <1>1 DEF Items, Statuses
    <2>2. Set(p, "save", "edit", "idle", c)
      BY <1>4 DEF Recover
    <2> HIDE DEF c
    <2>3. Claims(c, posted)
      BY <2>1 DEF Claims
    <2> QED
      BY <1>1, <2>1, <2>2, <2>3, ItemNone, SetStep
  <1> QED
    BY <1>2, <1>3, <1>4

(* What is deleted stays deleted in both rows.                             *)
LEMMA RetainStep ==
  ASSUME ItemInv, Retain
  PROVE  ItemInv'
  <1>1. /\ row \in Items /\ Claims(row, posted) /\ row.status \in {"dropped", "silenced", "deleted"}
        /\ task' = None /\ UNCHANGED <<prompts, proc, posted, mixed>>
        /\ \A p \in Procs : At(p, "idle")
    BY DEF Retain, ItemInv, ItemTyped
  <1>2. row' \in Items \cup {None} /\ Claims(row', posted) /\ TaskOf(row') = None
    <2>1. CASE row.status = "deleted"
      BY <2>1 DEF Retain, Claims, TaskOf
    <2>2. CASE row.status # "deleted"
      <3> DEFINE c == [row EXCEPT !.restore = row.status, !.status = "deleted",
                             !.hidden = TRUE]
      <3>1. /\ c \in Items /\ c.draft = row.draft /\ c.restore = row.status
            /\ c.status = "deleted"
        BY <1>1, <2>2 DEF Items, Statuses
      <3>2. row' = c
        BY <2>2 DEF Retain
      <3> HIDE DEF c
      <3>3. Claims(c, posted) /\ TaskOf(c) = None
        BY <1>1, <3>1, ItemNone DEF Claims, TaskOf
      <3> QED
        BY <3>1, <3>2, <3>3
    <2> QED
      BY <2>1, <2>2
  <1>3. Syncing = {} /\ Syncing' = {} /\ TaskOf(row)' = None
    BY <1>1, <1>2 DEF Syncing, At, TaskOf
  <1> QED
    BY <1>1, <1>2, <1>3 DEF ItemInv, ItemTyped, Mirrored

(* Time changes the pause of an item or a row, and nothing else.           *)
LEMMA PassedIs ==
  ASSUME NEW c \in Items
  PROVE  /\ Passed(c) \in Items /\ Passed(c).status = c.status /\ Passed(c).draft = c.draft
         /\ Passed(c).restore = c.restore /\ Passed(c).kind = c.kind
  BY ItemNone DEF Passed, Items

LEMMA ItemElapses ==
  ASSUME ItemInv, Elapse
  PROVE  ItemInv'
  <1>1. /\ row' = Passed(row) /\ prompts' = {Passed(r) : r \in prompts}
        /\ proc' = [p \in Procs |-> [proc[p] EXCEPT !.copy = Passed(proc[p].copy)]]
        /\ UNCHANGED <<task, posted, mixed>>
    BY DEF Elapse
  <1>2. \A c \in Items \cup {None} :
          /\ Passed(c) \in Items \cup {None} /\ TaskOf(Passed(c)) = TaskOf(c)
          /\ c # None => Passed(c) # None /\ Passed(c).draft = c.draft
          /\ Claims(c, posted) => Claims(Passed(c), posted)
    <2>1. Passed(None) = None
      BY DEF Passed
    <2> QED
      BY <2>1, PassedIs, ItemNone DEF TaskOf, Claims
  <1>3. Unshared(prompts')
    <2>1. \A r \in Recoveries : Passed(r) \in Recoveries /\ Passed(r).pid = r.pid
      BY DEF Passed, Recoveries
    <2> QED
      BY <1>1, <2>1 DEF ItemInv, ItemTyped, Unshared
  <1>4. row \in Items \cup {None} /\ \A p \in Procs : proc[p] \in Actors
    BY DEF ItemInv, ItemTyped
  <1>5. \A p \in Procs : proc[p].copy \in Items \cup {None}
    BY <1>4 DEF Actors
  <1>6. \A p \in Procs :
          /\ proc'[p] \in Actors /\ proc'[p].pc = proc[p].pc
          /\ proc'[p].then = proc[p].then /\ proc'[p].copy = Passed(proc[p].copy)
    <2> SUFFICES ASSUME NEW p \in Procs
                 PROVE  /\ proc'[p] \in Actors /\ proc'[p].pc = proc[p].pc
                        /\ proc'[p].then = proc[p].then /\ proc'[p].copy = Passed(proc[p].copy)
      OBVIOUS
    <2>1. Passed(proc[p].copy) \in Items \cup {None}
      BY <1>2, <1>5
    <2>2. proc'[p] = [proc[p] EXCEPT !.copy = Passed(proc[p].copy)]
      BY <1>1
    <2> QED
      BY <1>4, <2>1, <2>2 DEF Actors
  <1>7. ItemTyped'
    <2>1. proc' \in [Procs -> Actors]
      BY <1>1, <1>6
    <2>2. row' \in Items \cup {None}
      BY <1>1, <1>2, <1>4
    <2> QED
      BY <1>1, <1>3, <2>1, <2>2 DEF ItemInv, ItemTyped
  <1>8. Claims(row', posted') /\ \A p \in Procs : Fit(proc'[p], posted')
    <2>1. Claims(row', posted')
      BY <1>1, <1>2, <1>4 DEF ItemInv
    <2>2. ASSUME NEW p \in Procs PROVE Fit(proc'[p], posted')
      <3>1. Fit(proc[p], posted)
        BY DEF ItemInv
      <3>2. /\ proc[p].copy # None => /\ proc'[p].copy # None
                                      /\ proc'[p].copy.draft = proc[p].copy.draft
            /\ Claims(proc[p].copy, posted) => Claims(proc'[p].copy, posted)
        BY <1>2, <1>5, <1>6
      <3>3. proc[p].pc = "post" => proc[p].copy # None
        BY <3>1 DEF Fit
      <3> QED
        BY <1>1, <1>6, <3>1, <3>2, <3>3 DEF Fit
    <2> QED
      BY <2>1, <2>2
  <1>9. Mirrored'
    <2>1. Syncing' = Syncing
      BY <1>6 DEF Syncing, At
    <2>2. TaskOf(row') = TaskOf(row)
      BY <1>1, <1>2, <1>4
    <2>3. \A p \in Syncing : TaskOf(proc'[p].copy) = TaskOf(proc[p].copy)
      BY <1>2, <1>5, <1>6 DEF Syncing
    <2> QED
      BY <1>1, <2>1, <2>2, <2>3 DEF ItemInv, Mirrored
  <1> QED
    BY <1>7, <1>8, <1>9 DEF ItemInv

(* A crash between the two writes is remembered.                           *)
LEMMA ItemCrashes ==
  ASSUME ItemInv, NEW p \in Procs, Crash(p)
  PROVE  ItemInv'
  <1>1. /\ Unshared(prompts) /\ posted \in BOOLEAN /\ mixed' = (mixed \/ At(p, "sync"))
        /\ Leave(p) /\ UNCHANGED <<row, task, prompts, posted>>
    BY DEF Crash, ItemInv, ItemTyped
  <1>2. CASE ~At(p, "sync")
    <2>1. mixed' = mixed
      BY <1>1, <1>2 DEF ItemInv, ItemTyped
    <2> QED
      BY <1>1, <1>2, <2>1, ItemLeaves
  <1>3. CASE At(p, "sync")
    <2>1. Idle \in Actors /\ Fit(Idle, posted)
      BY DEF Idle, Actors, ActorOps, Fit, Claims
    <2>2. mixed' = TRUE /\ Claims(row, posted) /\ row \in Items \cup {None} /\ task \in Statuses \cup {None}
      BY <1>1, <1>3 DEF ItemInv, ItemTyped
    <2>3. ItemTyped' /\ Claims(row', posted') /\ \A q \in Procs : Fit(proc'[q], posted')
      BY <1>1, <2>1, <2>2, ItemMoves DEF Leave
    <2> QED
      BY <2>2, <2>3 DEF ItemInv, Mirrored
  <1> QED
    BY <1>2, <1>3

(* Every step keeps an item in order.                                      *)
LEMMA ItemStays ==
  ASSUME ItemInv, Next \/ UNCHANGED vars
  PROVE  ItemInv'
  <1>1. CASE UNCHANGED vars
    BY <1>1 DEF vars, ItemInv, ItemTyped, Mirrored, Syncing, At, TaskOf
  <1>2. ASSUME NEW p \in Procs,
               Work(p) \/ Pass(p) \/ Ends(p) \/ Crash(p) \/ UserRun(p) \/ ReadToSubmit(p)
               \/ Fix(p) \/ Recover(p)
        PROVE  ItemInv'
    BY <1>2, RunSteps, EndSteps, SaveStep, SyncTaskStep, SubmitSteps, RedoSteps, ItemCrashes
       DEF Work, Pass
  <1>3. ASSUME NEW p \in Procs, Drop(p) \/ Requeue(p) \/ Restore(p) \/ Patch(p)
        PROVE  ItemInv'
    BY <1>3, EditSteps DEF Drop, Requeue, Restore, Patch
  <1>4. ASSUME NEW p \in Procs, \E k \in Kinds, a \in BOOLEAN : Ingest(p, k, a)
        PROVE  ItemInv'
    BY <1>4, IngestStep
  <1>5. CASE Retain \/ Elapse
    BY <1>5, RetainStep, ItemElapses
  <1> QED
    BY <1>1, <1>2, <1>3, <1>4, <1>5 DEF Next

LEMMA ItemIs ==
  ASSUME ItemInv
  PROVE  TypeOK /\ StatusTold /\ TaskMirrors
  <1>1. ASSUME NEW p \in Procs PROVE proc[p].copy \in Items \cup {None} /\ Cardinality(Mine(p)) <= 1
    <2>1. CASE Mine(p) = {}
      BY <2>1, FS_EmptySet DEF ItemInv, ItemTyped, Actors
    <2>2. ASSUME NEW r \in Mine(p) PROVE Cardinality(Mine(p)) = 1
      <3>1. Mine(p) = {r}
        BY DEF Mine, ItemInv, ItemTyped, Unshared
      <3> QED
        BY <3>1, FS_Singleton
    <2> QED
      BY <2>1, <2>2 DEF ItemInv, ItemTyped, Actors
  <1>2. TypeOK
    BY <1>1 DEF TypeOK, ItemInv, ItemTyped, Unshared, Recoveries
  <1>3. StatusTold
    BY DEF StatusTold, ItemInv, Claims
  <1>4. TaskMirrors
    BY DEF TaskMirrors, ItemInv, Mirrored, Syncing, At
  <1> QED
    BY <1>2, <1>3, <1>4

-----------------------------------------------------------------------------
(***************************************************************************)
(* Planned items: PlannedItems                                             *)
(***************************************************************************)
Listed == [Ids -> P!Records \cup {None, P!Gone}]

(* Types, and what the records of the coordinator are at each place.       *)
PlannedTyped ==
  /\ P!TypeOK
  /\ {asked, made, unsure} \subseteq [Ids -> Nat]
  /\ req \in [Users -> P!Keyed \cup {None}]
  /\ driver.pc = "mark" => driver.task \in Ids /\ driver.kind \in P!LaunchKinds
  /\ driver.pc = "refresh" => seen \in Listed
  /\ copy \in Listed \cup {None}

(* A picked task has a worker left for it, and an idle coordinator runs    *)
(* nothing.                                                                *)
Room ==
  /\ driver.pc \in {"refresh", "mark"} => Cardinality(P!Running) < Workers
  /\ driver.pc = "off" => P!Running = {}

(* What is yet to be launched, the launch under way included, is owed to a *)
(* request or to a launch that was left untold.                            *)
Owed(i) == made[i] < asked[i] + unsure[i]
Owes(i) ==
  /\ made[i] <= asked[i] + unsure[i]
  /\ P!Present(i) /\ item[i].st = "queued" => Owed(i)
  /\ P!Present(i) /\ item[i].st = "launching" /\ i \notin P!Running => Owed(i)
  /\ i \in P!Running => /\ P!Present(i) /\ item[i].st = "launching"
                        /\ launch[i].res \in {"run", "paused", "refused"} => Owed(i)
  /\ driver.pc = "mark" /\ driver.task = i => Owed(i) /\ i \notin P!Running

(* No two items hold the key, and every launch is owed, until an old copy  *)
(* is written over a newer item.                                           *)
PlannedInv ==
  /\ PlannedTyped /\ Room
  /\ stale \/ /\ \A i, j \in P!Holders : i = j
              /\ \A i \in Ids : Owes(i)

(* Counting is the same in every module.                                   *)
LEMMA Counts ==
  ASSUME NEW T
  PROVE  P!Cardinality(T) = Cardinality(T) /\ (P!IsFiniteSet(T) <=> IsFiniteSet(T))
  BY DEF P!Cardinality, Cardinality, P!IsFiniteSet, IsFiniteSet

(* A set of numbers has a least one.                                       *)
LEMMA LeastNatural ==
  ASSUME NEW T, T \subseteq Nat, T # {}
  PROVE  \E x \in T : \A y \in T : x <= y
<1>1. PICK x \in T : \A y \in T : ~(<<y, x>> \in OpToRel(<, Nat))
  BY WFMin, NatLessThanWellFounded, Zenon
<1>2. \A y \in T : <<y, x>> \in Nat \X Nat
  OBVIOUS
<1>3. \A y \in T : ~(y < x)
  BY <1>1, <1>2 DEF OpToRel
<1> QED BY <1>3

(* The first state of the planned items.                                   *)
LEMMA PlannedBegins == P!PlannedBounds /\ P!Init => PlannedInv
  <1> SUFFICES ASSUME P!PlannedBounds, P!Init PROVE PlannedInv
    OBVIOUS
  <1>1. P!Running = {} /\ Cardinality(P!Running) = 0
    BY FS_EmptySet DEF P!Init, P!Running
  <1>2. PlannedTyped
    BY Counts, <1>1 DEF P!PlannedBounds, P!Init, PlannedTyped, P!TypeOK, P!Off, Listed
  <1>3. Room
    BY <1>1 DEF Room, P!Init, P!Off
  <1>4. \A i, j \in P!Holders : i = j
    BY DEF P!Holders, P!Present, P!Init
  <1>5. \A i \in Ids : Owes(i)
    BY <1>1 DEF Owes, P!Init, P!Present, P!Off
  <1> QED
    BY <1>2, <1>3, <1>4, <1>5 DEF PlannedInv

(* The workers at work are counted.                                        *)
LEMMA RunningFinite ==
  ASSUME P!PlannedBounds
  PROVE  /\ IsFiniteSet(P!Running) /\ Cardinality(P!Running) \in Nat
         /\ IsFiniteSet(P!Running') /\ Cardinality(P!Running') \in Nat
  BY Counts, FS_Subset, FS_CardinalityType DEF P!PlannedBounds, P!Running

(* A worker that ends frees its place.                                     *)
LEMMA RunningFewer ==
  ASSUME P!PlannedBounds, P!Running' \subseteq P!Running
  PROVE  Cardinality(P!Running') <= Cardinality(P!Running)
  BY RunningFinite, FS_Subset

(* The first free item.                                                    *)
LEMMA NextIsFree ==
  ASSUME P!PlannedBounds, P!Free # {}
  PROVE  P!Next1 \in Ids /\ item[P!Next1] = None
  <1>1. P!Free \subseteq Nat
    BY Counts, FS_CardinalityType DEF P!PlannedBounds, P!Free
  <1>2. \E i \in P!Free : \A j \in P!Free : i <= j
    BY <1>1, LeastNatural
  <1> QED
    BY <1>2 DEF P!Next1, P!Free

(* A user changes one item that no worker has.                             *)
LEMMA PlannedEdit ==
  ASSUME P!PlannedBounds, PlannedInv, ~stale, P!Rest, req' \in [Users -> P!Keyed \cup {None}],
         NEW i \in Ids, i \notin P!Running, NEW r \in P!Records \cup {P!Gone},
         item' = [item EXCEPT ![i] = r],
         asked' \in {asked, [asked EXCEPT ![i] = @ + 1]},
         r = P!Gone \/ (r.st = "queued" /\ (Owed(i) \/ asked' = [asked EXCEPT ![i] = @ + 1])),
         r # P!Gone /\ r.key => P!Holders \subseteq {i}
  PROVE  PlannedInv'
  <1> USE DEF P!Rest
  <1>1. PlannedTyped /\ Room /\ (\A j, k \in P!Holders : j = k) /\ \A j \in Ids : Owes(j)
    BY DEF PlannedInv
  <1>2. P!Running' = P!Running
    BY DEF P!Running
  <1>3. /\ item' \in Listed /\ asked' \in [Ids -> Nat] /\ item'[i] = r
        /\ asked'[i] >= asked[i]
        /\ \A j \in Ids \ {i} : item'[j] = item[j] /\ asked'[j] = asked[j]
    BY <1>1 DEF PlannedTyped, P!TypeOK, Listed
  <1>4. PlannedTyped'
    BY <1>1, <1>2, <1>3 DEF PlannedTyped, P!TypeOK, Listed
  <1>5. Room'
    BY <1>1, <1>2 DEF Room
  <1>6. (\A j, k \in P!Holders : j = k)'
    BY <1>1, <1>3 DEF P!Holders, P!Present
  <1>7. ASSUME NEW j \in Ids PROVE Owes(j)'
    <2>1. made[j] \in Nat /\ asked[j] \in Nat /\ unsure[j] \in Nat /\ asked'[j] \in Nat
      BY <1>1, <1>3 DEF PlannedTyped
    <2>2. CASE j # i
      BY <1>1, <1>2, <1>3, <2>2 DEF Owes, Owed, P!Present
    <2>3. CASE j = i
      BY <1>1, <1>2, <1>3, <2>1, <2>3 DEF Owes, Owed, P!Present, PlannedTyped
    <2> QED
      BY <2>2, <2>3
  <1> QED
    BY <1>4, <1>5, <1>6, <1>7 DEF PlannedInv

(* What users ask for is counted when they ask for it.                     *)
LEMMA UserSteps ==
  ASSUME P!PlannedBounds, PlannedInv, ~stale, P!User
  PROVE  PlannedInv'
  <1> USE DEF P!Rest
  <1>1. PlannedTyped /\ Room /\ (\A j, k \in P!Holders : j = k) /\ \A j \in Ids : Owes(j)
    BY DEF PlannedInv
  <1>2. /\ item \in Listed /\ asked \in [Ids -> Nat] /\ req \in [Users -> P!Keyed \cup {None}]
        /\ P!Gone \notin P!Records
    BY <1>1 DEF PlannedTyped, P!TypeOK, Listed, P!Gone, P!Records, P!States
  <1>3. ASSUME UNCHANGED <<item, asked>>, P!Rest, req' \in [Users -> P!Keyed \cup {None}]
        PROVE  PlannedInv'
    <2>1. P!Running' = P!Running /\ P!Holders' = P!Holders
      BY <1>3 DEF P!Running, P!Holders, P!Present
    <2>2. PlannedTyped' /\ Room'
      BY <1>1, <1>3, <2>1 DEF PlannedTyped, P!TypeOK, Room, Listed
    <2> QED
      BY <1>1, <1>3, <2>1, <2>2 DEF PlannedInv, Owes, Owed, P!Present
  <1>4. ASSUME P!Free # {}, P!Rest, P!Counted(P!Next1), req' \in [Users -> P!Keyed \cup {None}],
               NEW k \in P!LaunchKinds, NEW key \in BOOLEAN, NEW due \in BOOLEAN,
               key => P!Holders = {}, item' = [item EXCEPT ![P!Next1] = P!New(k, key, due)]
        PROVE  PlannedInv'
    <2>1. P!Next1 \in Ids /\ item[P!Next1] = None
      BY <1>4, NextIsFree
    <2>2. P!Next1 \notin P!Running
      BY <1>1, <2>1 DEF Owes, P!Present
    <2>3. P!New(k, key, due) \in P!Records /\ P!New(k, key, due).st = "queued"
          /\ P!New(k, key, due).key = key
      BY DEF P!New, P!Records, P!States
    <2> QED
      BY <1>2, <1>4, <2>1, <2>2, <2>3, PlannedEdit DEF P!Counted
  <1>5. ASSUME NEW i \in Ids, P!Editable(i), P!Rest, UNCHANGED req, P!Reasked(i), NEW due \in BOOLEAN,
               item' = [item EXCEPT ![i] = P!Requeued(item[i], due)]
                 \/ (item[i].st = "queued" /\ item' = [item EXCEPT ![i] = [item[i] EXCEPT !.due = due]])
        PROVE  PlannedInv'
    <2>1. item[i] \in P!Records /\ i \notin P!Running
      BY <1>1, <1>2, <1>5 DEF P!Editable, P!Present, Owes, Listed
    <2>2. PICK r \in P!Records : item' = [item EXCEPT ![i] = r] /\ r.st = "queued" /\ r.key = item[i].key
      <3>1. /\ P!Requeued(item[i], due) \in P!Records /\ P!Requeued(item[i], due).st = "queued"
            /\ P!Requeued(item[i], due).key = item[i].key
        BY <2>1 DEF P!Requeued, P!Records, P!States
      <3>2. item[i].st = "queued" =>
              /\ [item[i] EXCEPT !.due = due] \in P!Records
              /\ [item[i] EXCEPT !.due = due].st = "queued"
              /\ [item[i] EXCEPT !.due = due].key = item[i].key
        BY <2>1 DEF P!Records, P!States
      <3> QED
        BY <1>5, <3>1, <3>2
    <2>3. Owed(i) \/ asked' = [asked EXCEPT ![i] = @ + 1]
      BY <1>1, <1>5, <2>1 DEF P!Reasked, P!Counted, P!Editable, Owes
    <2>4. r.key => P!Holders \subseteq {i}
      BY <1>1, <1>5, <2>2 DEF P!Holders, P!Editable
    <2>5. asked' \in {asked, [asked EXCEPT ![i] = @ + 1]}
      BY <1>5 DEF P!Reasked, P!Counted
    <2> QED
      BY <1>2, <1>5, <2>1, <2>2, <2>3, <2>4, <2>5, PlannedEdit
  <1>6. ASSUME NEW u \in Users, P!Ask(u) PROVE PlannedInv'
    BY <1>2, <1>3, <1>6 DEF P!Ask
  <1>7. ASSUME NEW u \in Users, P!Create(u) PROVE PlannedInv'
    <2>1. req[u] \in P!LaunchKinds /\ req' \in [Users -> P!Keyed \cup {None}]
      BY <1>2, <1>7 DEF P!Create, P!LaunchKinds
    <2> QED
      BY <1>3, <1>4, <1>7, <2>1 DEF P!Create
  <1>8. ASSUME P!Track PROVE PlannedInv'
    BY <1>2, <1>4, <1>5, <1>8 DEF P!Track, P!OfIssue, P!LaunchKinds, P!Reasked
  <1>9. ASSUME NEW i \in Ids, P!Patch(i) PROVE PlannedInv'
    <2>1. PICK due \in BOOLEAN :
            item' = [item EXCEPT ![i] = IF item[i].st = "failed" THEN P!Requeued(item[i], due)
                                        ELSE [item[i] EXCEPT !.due = due]]
      BY <1>9 DEF P!Patch
    <2> QED
      BY <1>5, <1>9, <2>1 DEF P!Patch, P!Editable
  <1>10. ASSUME NEW i \in Ids, P!LaunchNow(i) PROVE PlannedInv'
    BY <1>5, <1>10 DEF P!LaunchNow
  <1>11. ASSUME NEW i \in Ids, P!Delete(i) PROVE PlannedInv'
    <2>1. i \notin P!Running
      BY <1>1, <1>11 DEF P!Delete, P!Editable, Owes
    <2> QED
      BY <1>2, <1>11, <2>1, PlannedEdit DEF P!Delete
  <1> QED
    BY <1>6, <1>7, <1>8, <1>9, <1>10, <1>11 DEF P!User

(* A time that comes is the time of an item that waits.                    *)
LEMMA ElapseStep ==
  ASSUME P!PlannedBounds, PlannedInv, ~stale, NEW i \in Ids, P!Elapse(i)
  PROVE  PlannedInv'
  <1>1. PlannedTyped /\ (\A j, k \in P!Holders : j = k) /\ \A j \in Ids : Owes(j)
    BY DEF PlannedInv
  <1>2. item[i] \in P!Records /\ i \notin P!Running
    BY <1>1 DEF P!Elapse, P!Present, Owes, PlannedTyped, P!TypeOK
  <1>3. PICK r \in P!Records : /\ item' = [item EXCEPT ![i] = r] /\ r.st = "queued"
                               /\ r.key = item[i].key
    <2>1. item' = [item EXCEPT ![i] = [item[i] EXCEPT !.due = TRUE]] /\ item[i].st = "queued"
      BY DEF P!Elapse
    <2>2. /\ [item[i] EXCEPT !.due = TRUE] \in P!Records
          /\ [item[i] EXCEPT !.due = TRUE].st = "queued"
          /\ [item[i] EXCEPT !.due = TRUE].key = item[i].key
      BY <1>2, <2>1 DEF P!Records
    <2> QED
      BY <2>1, <2>2
  <1>4. P!Rest /\ UNCHANGED <<req, asked>> /\ Owed(i)
    BY <1>1 DEF P!Elapse, Owes
  <1>5. r.key => P!Holders \subseteq {i}
    BY <1>1, <1>3 DEF P!Elapse, P!Holders
  <1> QED
    BY <1>1, <1>2, <1>3, <1>4, <1>5, PlannedEdit DEF PlannedTyped

(* What the coordinator chooses is owed.                                   *)
LEMMA ChooseOwed ==
  ASSUME P!PlannedBounds, PlannedTyped, \A i \in Ids : Owes(i), P!Choose(item),
         Cardinality(P!Running) < Workers
  PROVE  /\ driver'.pc \in {"off", "mark", "wait"}
         /\ driver'.pc = "mark" =>
              /\ driver'.task \in Ids /\ driver'.kind \in P!LaunchKinds
              /\ Owed(driver'.task) /\ driver'.task \notin P!Running
         /\ driver'.pc = "off" => P!Running = {}
  <1>1. ASSUME NEW i \in P!Queue(item), driver' = [pc |-> "mark", task |-> i, kind |-> item[i].kind]
        PROVE  i \in Ids /\ item[i].kind \in P!LaunchKinds /\ Owed(i) /\ i \notin P!Running
    BY <1>1 DEF P!Queue, P!Recoverable, Owes, P!Present, PlannedTyped, P!TypeOK, P!Records
  <1> QED
    BY <1>1 DEF P!Choose, P!Off, P!At

(* The coordinator refreshes what it knows and picks a task.               *)
LEMMA CoordinatorSteps ==
  ASSUME P!PlannedBounds, PlannedInv, ~stale, P!StartRefresh \/ P!Reload \/ P!AllBusy
  PROVE  PlannedInv'
  <1> USE DEF P!Quiet, P!UserSide
  <1>1. PlannedTyped /\ Room /\ (\A j, k \in P!Holders : j = k) /\ \A j \in Ids : Owes(j)
    BY DEF PlannedInv
  <1>2. UNCHANGED <<item, req, launch, copy, stale, asked, made, unsure>>
    BY DEF P!StartRefresh, P!Reload, P!AllBusy
  <1>3. P!Running' = P!Running /\ P!Holders' = P!Holders
    BY <1>2 DEF P!Running, P!Holders, P!Present
  <1>4. CASE P!StartRefresh
    <2>1. Cardinality(P!Running) < Workers
      <3>1. P!Running = {} => Cardinality(P!Running) = 0
        BY FS_EmptySet
      <3> QED
        BY Counts, <1>1, <1>4, <3>1 DEF P!StartRefresh, Room, P!PlannedBounds
    <2>2. PlannedTyped' /\ Room'
      BY <1>1, <1>2, <1>3, <1>4, <2>1 DEF P!StartRefresh, PlannedTyped, P!TypeOK, Room, P!At, Listed
    <2> QED
      BY <1>1, <1>2, <1>3, <1>4, <2>2 DEF P!StartRefresh, PlannedInv, Owes, Owed, P!Present, P!At
  <1>5. CASE P!Reload
    <2>1. /\ driver'.pc \in {"off", "mark", "wait"}
          /\ driver'.pc = "mark" =>
               /\ driver'.task \in Ids /\ driver'.kind \in P!LaunchKinds
               /\ Owed(driver'.task) /\ driver'.task \notin P!Running
          /\ driver'.pc = "off" => P!Running = {}
      BY Counts, <1>1, <1>5, ChooseOwed DEF P!Reload
    <2>2. PlannedTyped' /\ Room'
      BY Counts, <1>1, <1>2, <1>3, <1>5, <2>1 DEF P!Reload, PlannedTyped, P!TypeOK, Room, Listed
    <2> QED
      BY <1>1, <1>2, <1>3, <1>5, <2>1, <2>2 DEF PlannedInv, Owes, Owed, P!Present
  <1>6. CASE P!AllBusy
    <2>1. PlannedTyped' /\ Room'
      BY <1>1, <1>2, <1>3, <1>6 DEF P!AllBusy, PlannedTyped, P!TypeOK, Room, P!At, Listed
    <2> QED
      BY <1>1, <1>2, <1>3, <1>6, <2>1 DEF P!AllBusy, PlannedInv, Owes, Owed, P!Present, P!At
  <1> QED
    BY <1>4, <1>5, <1>6

(* What is merged is the item as it is, unless an old copy is written.     *)
LEMMA MergedIs ==
  ASSUME item \in Listed, NEW s \in Listed
  PROVE  P!Merged(s) \in Listed /\ (~P!Older(s) => P!Merged(s) = item)
  BY DEF P!Merged, P!Older, Listed

(* An issue sync writes what it has read.                                  *)
LEMMA SyncSteps ==
  ASSUME P!PlannedBounds, PlannedInv, ~stale, P!Refresh \/ P!StartSync \/ P!Sync
  PROVE  PlannedInv'
  <1> USE DEF P!Quiet, P!UserSide
  <1>1. PlannedTyped /\ Room /\ (\A j, k \in P!Holders : j = k) /\ \A j \in Ids : Owes(j)
    BY DEF PlannedInv
  <1>2. UNCHANGED <<req, launch, asked, made, unsure>> /\ P!Running' = P!Running
    BY DEF P!Refresh, P!StartSync, P!Sync, P!Running
  <1>3. CASE P!Refresh
    <2>1. seen \in Listed /\ item \in Listed /\ Cardinality(P!Running) < Workers
      BY <1>1, <1>3 DEF P!Refresh, PlannedTyped, P!TypeOK, Room, Listed
    <2>2. item' \in Listed /\ (~stale' => item' = item)
      BY <1>3, <2>1, MergedIs DEF P!Refresh
    <2>3. /\ driver'.pc \in {"off", "mark", "wait"}
          /\ driver'.pc = "mark" => driver'.task \in Ids /\ driver'.kind \in P!LaunchKinds
          /\ driver'.pc = "off" => P!Running = {}
      BY <1>3, <2>2 DEF P!Refresh, P!Choose, P!Queue, P!Off, P!At, Listed, P!Records
    <2>4. PlannedTyped' /\ Room'
      BY <1>1, <1>2, <1>3, <2>1, <2>2, <2>3 DEF P!Refresh, PlannedTyped, P!TypeOK, Room, Listed
    <2>5. CASE ~stale'
      <3>1. P!Choose(item) /\ item' = item
        BY <1>3, <2>2, <2>5 DEF P!Refresh
      <3>2. driver'.pc = "mark" => Owed(driver'.task) /\ driver'.task \notin P!Running
        BY <1>1, <2>1, <3>1, ChooseOwed
      <3> QED
        BY <1>1, <1>2, <2>4, <3>1, <3>2 DEF PlannedInv, Owes, Owed, P!Present, P!Holders
    <2> QED
      BY <2>4, <2>5 DEF PlannedInv
  <1>4. CASE P!StartSync
    <2>1. PlannedTyped' /\ Room'
      BY <1>1, <1>2, <1>4 DEF P!StartSync, PlannedTyped, P!TypeOK, Room, Listed
    <2> QED
      BY <1>1, <1>2, <1>4, <2>1 DEF P!StartSync, PlannedInv, Owes, Owed, P!Present, P!Holders
  <1>5. CASE P!Sync
    <2>1. copy \in Listed /\ item \in Listed
      BY <1>1, <1>5 DEF P!Sync, PlannedTyped, P!TypeOK, Listed
    <2>2. item' \in Listed /\ (~stale' => item' = item)
      BY <1>5, <2>1, MergedIs DEF P!Sync
    <2>3. PlannedTyped' /\ Room'
      BY <1>1, <1>2, <1>5, <2>2 DEF P!Sync, PlannedTyped, P!TypeOK, Room, Listed
    <2> QED
      BY <1>1, <1>2, <1>5, <2>2, <2>3 DEF P!Sync, PlannedInv, Owes, Owed, P!Present, P!Holders
  <1> QED
    BY <1>3, <1>4, <1>5

(* A picked item is marked, and its goroutine starts: it was owed, and the *)
(* others are as they were.                                                *)
LEMMA MarkStep ==
  ASSUME P!PlannedBounds, PlannedInv, ~stale, P!Mark
  PROVE  PlannedInv'
  <1> USE DEF P!Quiet, P!UserSide
  <1>0. PICK i \in Ids : i = driver.task
    BY DEF P!Mark, PlannedInv, PlannedTyped
  <1> DEFINE r == IF P!Present(i) THEN [item[i] EXCEPT !.st = "launching", !.due = TRUE] ELSE P!Ghost
             l == [kind |-> driver.kind, res |-> "run"]
  <1>1. PlannedTyped /\ Room /\ (\A j, k \in P!Holders : j = k) /\ \A j \in Ids : Owes(j)
    BY DEF PlannedInv
  <1>2. /\ i \in Ids /\ item' = [item EXCEPT ![i] = r] /\ launch' = [launch EXCEPT ![i] = l]
        /\ driver' = P!At("ready") /\ UNCHANGED <<req, seen, copy, stale, asked, made, unsure>>
    BY <1>0 DEF P!Mark
  <1>3. /\ r \in P!Records /\ r.st = "launching" /\ (r.key => i \in P!Holders)
        /\ l \in P!Launches /\ l.res = "run" /\ l # None
    <2>1. l \in P!Launches /\ l.res = "run"
      BY <1>1, <1>0 DEF P!Mark, PlannedTyped, P!Launches
    <2>2. CASE P!Present(i)
      <3>1. item[i] \in P!Records
        BY <1>1, <1>2, <2>2 DEF P!Present, PlannedTyped, P!TypeOK
      <3>2. r = [item[i] EXCEPT !.st = "launching", !.due = TRUE]
        BY <2>2
      <3>3. r \in P!Records /\ r.st = "launching" /\ r.key = item[i].key
        BY <3>1, <3>2 DEF P!Records, P!States
      <3> QED
        BY <1>2, <2>1, <2>2, <3>3 DEF P!Holders, P!PlannedBounds
    <2>3. CASE ~P!Present(i)
      <3>1. r = P!Ghost
        BY <2>3
      <3>2. P!Ghost \in P!Records /\ P!Ghost.st = "launching" /\ P!Ghost.key = FALSE
        BY DEF P!Ghost, P!New, P!Records, P!States, P!LaunchKinds, P!Keyed
      <3> QED
        BY <2>1, <3>1, <3>2 DEF P!PlannedBounds
    <2> QED
      BY <2>2, <2>3
  <1> HIDE DEF r, l
  <1>4. P!Running' = P!Running \cup {i}
    BY <1>1, <1>2, <1>3 DEF P!Running, PlannedTyped, P!TypeOK
  <1>5. Cardinality(P!Running') <= Workers
    <2>1. Cardinality(P!Running) < Workers
      BY <1>1 DEF P!Mark, Room
    <2>2. IsFiniteSet(P!Running) /\ Cardinality(P!Running) \in Nat
      BY RunningFinite
    <2>3. Cardinality(P!Running \cup {i}) \in {Cardinality(P!Running), Cardinality(P!Running) + 1}
      BY <2>2, FS_AddElement
    <2> QED
      BY <1>4, <2>1, <2>2, <2>3 DEF P!PlannedBounds
  <1>6. PlannedTyped' /\ Room'
    BY Counts, <1>1, <1>2, <1>3, <1>5 DEF PlannedTyped, P!TypeOK, Room, Listed, P!At
  <1>7. (\A j, k \in P!Holders : j = k)'
    <2>1. P!Holders' \subseteq P!Holders
      BY <1>1, <1>2, <1>3 DEF P!Holders, P!Present, PlannedTyped, P!TypeOK
    <2> QED
      BY <1>1, <2>1
  <1>8. ASSUME NEW j \in Ids PROVE Owes(j)'
    <2>1. CASE j = i
      <3>1. /\ item'[i] = r /\ launch'[i] = l /\ r # None /\ r # P!Gone
            /\ Owed(i) /\ Owed(i)' /\ made[i] <= asked[i] + unsure[i]
        <4>1. item'[i] = r /\ launch'[i] = l
          BY <1>1, <1>2 DEF PlannedTyped, P!TypeOK
        <4>2. r # None /\ r # P!Gone
          BY <1>3 DEF P!PlannedBounds, P!Gone, P!Records, P!States
        <4>3. Owed(i) /\ made[i] <= asked[i] + unsure[i]
          BY <1>0, <1>1, <1>2 DEF P!Mark, Owes
        <4> QED
          BY <1>2, <4>1, <4>2, <4>3 DEF Owed
      <3>2. P!Present(i)' /\ item'[i].st = "launching" /\ driver'.pc # "mark" /\ i \in P!Running'
        BY <1>2, <1>3, <1>4, <3>1 DEF P!Present, P!At
      <3> QED
        BY <1>2, <2>1, <3>1, <3>2 DEF Owes, Owed
    <2>2. CASE j # i
      <3>1. item'[j] = item[j] /\ launch'[j] = launch[j] /\ (j \in P!Running' <=> j \in P!Running)
        BY <1>1, <1>2, <1>4, <2>2 DEF PlannedTyped, P!TypeOK
      <3> QED
        BY <1>1, <1>2, <3>1 DEF Owes, Owed, P!Present, P!At
    <2> QED
      BY <2>1, <2>2
  <1> QED
    BY <1>6, <1>7, <1>8 DEF PlannedInv

(* What a launch returns is applied to its item.                           *)
LEMMA ApplyStep ==
  ASSUME P!PlannedBounds, PlannedInv, ~stale, NEW i \in Ids, P!Apply(i)
  PROVE  PlannedInv'
  <1> USE DEF P!Quiet, P!UserSide
  <1> DEFINE res == launch[i].res
             tracked == launch[i].kind = "tracked"
             r == CASE res = "ok" -> [item[i] EXCEPT !.st = "launched", !.run = launch[i].kind # "issue"]
                    [] res = "paused" -> [item[i] EXCEPT !.st = "queued", !.due = FALSE,
                                                         !.run = item[i].run \/ tracked]
                    [] OTHER -> [item[i] EXCEPT !.st = "failed"]
  <1>1. PlannedTyped /\ Room /\ (\A j, k \in P!Holders : j = k) /\ \A j \in Ids : Owes(j)
    BY DEF PlannedInv
  <1>2. /\ item' = [item EXCEPT ![i] = r] /\ launch' = [launch EXCEPT ![i] = None]
        /\ driver' = P!At("ready") /\ UNCHANGED <<req, seen, copy, stale, asked, made, unsure>>
    BY DEF P!Apply
  <1>3. /\ i \in P!Running /\ item[i] \in P!Records /\ launch[i] \in P!Launches
        /\ res \in {"ok", "paused", "lost", "refused"}
    BY <1>1 DEF P!Apply, P!Running, Owes, P!Present, PlannedTyped, P!TypeOK, P!Launches
  <1>4. /\ r \in P!Records /\ r.key = item[i].key /\ r.st # "launching"
        /\ r.st = "queued" => Owed(i)
    <2>1. res = "paused" => Owed(i)
      BY <1>1, <1>3 DEF Owes
    <2> QED
      BY <1>3, <2>1 DEF P!Records, P!States, P!Launches
  <1> HIDE DEF r
  <1>5. P!Running' = P!Running \ {i}
    BY <1>1, <1>2 DEF P!Running, PlannedTyped, P!TypeOK
  <1>6. PlannedTyped' /\ Room'
    <2>1. Cardinality(P!Running') <= Workers
      BY Counts, <1>1, <1>5, RunningFewer, RunningFinite DEF PlannedTyped, P!TypeOK, P!PlannedBounds
    <2> QED
      BY Counts, <1>1, <1>2, <1>4, <2>1 DEF PlannedTyped, P!TypeOK, Room, Listed, P!At
  <1>7. (\A j, k \in P!Holders : j = k)'
    <2>1. P!Holders' \subseteq P!Holders
      BY <1>1, <1>2, <1>3, <1>4 DEF P!Holders, P!Present, PlannedTyped, P!TypeOK, P!PlannedBounds, P!Gone,
         P!Records, P!States
    <2> QED
      BY <1>1, <2>1
  <1>8. ASSUME NEW j \in Ids PROVE Owes(j)'
    <2>1. CASE j = i
      BY <1>1, <1>2, <1>4, <1>5, <2>1 DEF Owes, Owed, P!Present, P!At, PlannedTyped, P!TypeOK
    <2>2. CASE j # i
      <3>1. item'[j] = item[j] /\ launch'[j] = launch[j] /\ (j \in P!Running' <=> j \in P!Running)
        BY <1>1, <1>2, <1>5, <2>2 DEF PlannedTyped, P!TypeOK
      <3> QED
        BY <1>1, <1>2, <3>1 DEF Owes, Owed, P!Present, P!At
    <2> QED
      BY <2>1, <2>2
  <1> QED
    BY <1>6, <1>7, <1>8 DEF PlannedInv

(* A launch is made once for what was asked, or left untold.               *)
LEMMA LaunchStep ==
  ASSUME P!PlannedBounds, PlannedInv, ~stale, NEW i \in Ids, P!Launch(i)
  PROVE  PlannedInv'
  <1> USE DEF P!UserSide
  <1>1. PlannedTyped /\ Room /\ (\A j, k \in P!Holders : j = k) /\ \A j \in Ids : Owes(j)
    BY DEF PlannedInv
  <1>2. PICK res \in {"ok", "paused", "lost", "refused"} : P!Ends(i, res)
    BY DEF P!Launch, P!LaunchIssue, P!LaunchLocal, P!LaunchTracked
  <1>3. launch[i] \in P!Launches /\ launch[i].res = "run" /\ i \in P!Running
    BY <1>1 DEF P!Launch, P!LaunchIssue, P!LaunchLocal, P!LaunchTracked, P!Runs, PlannedTyped, P!TypeOK,
       P!Running
  <1> DEFINE l == [launch[i] EXCEPT !.res = res]
  <1>4. /\ l \in P!Launches /\ l.res = res /\ l # None
        /\ launch' = [launch EXCEPT ![i] = l]
        /\ UNCHANGED <<item, req, driver, seen, copy, stale, asked>>
    BY <1>2, <1>3 DEF P!Ends, P!Launches, P!PlannedBounds
  <1> HIDE DEF l
  <1>5. P!Running' = P!Running
    BY <1>1, <1>3, <1>4 DEF P!Running, PlannedTyped, P!TypeOK
  <1>6. /\ made' \in [Ids -> Nat] /\ unsure' \in [Ids -> Nat]
        /\ \A j \in Ids \ {i} : made'[j] = made[j] /\ unsure'[j] = unsure[j]
        /\ made'[i] = IF res = "refused" THEN made[i] ELSE made[i] + 1
        /\ unsure'[i] = IF res = "paused" THEN unsure[i] + 1 ELSE unsure[i]
    BY <1>1, <1>2 DEF P!Ends, PlannedTyped
  <1>7. PlannedTyped' /\ Room'
    BY <1>1, <1>4, <1>5, <1>6 DEF PlannedTyped, P!TypeOK, Room, Listed
  <1>8. ASSUME NEW j \in Ids PROVE Owes(j)'
    <2>1. CASE j = i
      <3>1. /\ Owed(i) /\ P!Present(i) /\ item[i].st = "launching"
            /\ ~(driver.pc = "mark" /\ driver.task = i)
        BY <1>1, <1>3 DEF Owes
      <3> QED
        BY <1>1, <1>3, <1>4, <1>5, <1>6, <2>1, <3>1 DEF Owes, Owed, P!Present, PlannedTyped, P!TypeOK
    <2>2. CASE j # i
      BY <1>1, <1>4, <1>5, <1>6, <2>2 DEF Owes, Owed, P!Present, PlannedTyped, P!TypeOK
    <2> QED
      BY <2>1, <2>2
  <1> QED
    BY <1>1, <1>4, <1>7, <1>8 DEF PlannedInv, P!Holders, P!Present


(* A crash leaves launches untold, and the items owe them again.           *)
LEMMA PlannedCrash ==
  ASSUME P!PlannedBounds, PlannedInv, ~stale, P!Crash
  PROVE  PlannedInv'
  <1> USE DEF P!UserSide
  <1>1. PlannedTyped /\ Room /\ (\A j, k \in P!Holders : j = k) /\ \A j \in Ids : Owes(j)
    BY DEF PlannedInv
  <1>2. /\ UNCHANGED <<item, req, stale, asked>> /\ launch' = [i \in Ids |-> None]
        /\ driver' = P!Off /\ seen' = None /\ copy' = None
    BY DEF P!Crash
  <1>3. P!Running' = {}
    BY <1>2 DEF P!Running
  <1>4. PICK done \in SUBSET {i \in P!Running : launch[i].res = "run"} :
          LET untold == done \cup {i \in P!Running : launch[i].res \in {"ok", "lost"}} IN
          /\ made' = [i \in Ids |-> IF i \in done THEN made[i] + 1 ELSE made[i]]
          /\ unsure' = [i \in Ids |-> IF i \in untold THEN unsure[i] + 1 ELSE unsure[i]]
    BY DEF P!Crash
  <1>5. PlannedTyped' /\ Room'
    <2>1. made' \in [Ids -> Nat] /\ unsure' \in [Ids -> Nat]
      BY <1>1, <1>4 DEF PlannedTyped
    <2>2. Cardinality(P!Running') <= Workers
      BY <1>3, FS_EmptySet DEF P!PlannedBounds
    <2> QED
      BY Counts, <1>1, <1>2, <1>3, <2>1, <2>2 DEF PlannedTyped, P!TypeOK, Room, P!Off, Listed
  <1>6. ASSUME NEW i \in Ids PROVE Owes(i)'
    <2>1. /\ made[i] \in Nat /\ asked[i] \in Nat /\ unsure[i] \in Nat /\ Owes(i)
          /\ made'[i] \in {made[i], made[i] + 1} /\ unsure'[i] \in {unsure[i], unsure[i] + 1}
          /\ made'[i] = made[i] + 1 => unsure'[i] = unsure[i] + 1
          /\ i \in P!Running /\ launch[i].res \in {"ok", "lost"} =>
               unsure'[i] = unsure[i] + 1 /\ made'[i] = made[i]
      BY <1>1, <1>4 DEF PlannedTyped
    <2>2. made'[i] <= asked[i] + unsure'[i] /\ (Owed(i) => made'[i] < asked[i] + unsure'[i])
      BY <2>1 DEF Owes, Owed
    <2>3. i \in P!Running => made'[i] < asked[i] + unsure'[i]
      <3>1. i \in P!Running => launch[i].res \in {"run", "ok", "paused", "lost", "refused"}
        BY <1>1 DEF P!Running, PlannedTyped, P!TypeOK, P!Launches
      <3> QED
        BY <2>1, <2>2, <3>1 DEF Owes
    <2> QED
      BY <1>2, <1>3, <2>1, <2>2, <2>3 DEF Owes, Owed, P!Present, P!Off
  <1> QED
    BY <1>1, <1>2, <1>5, <1>6 DEF PlannedInv, P!Holders, P!Present

(* Every step keeps the order of the planned items.                        *)
LEMMA PlannedStays ==
  ASSUME P!PlannedBounds, PlannedInv, (~stale /\ P!Next) \/ UNCHANGED P!vars
  PROVE  PlannedInv'
  <1>1. CASE UNCHANGED P!vars
    <2>1. P!Running' = P!Running /\ P!Holders' = P!Holders
      BY <1>1 DEF P!vars, P!Running, P!Holders, P!Present
    <2>2. PlannedTyped' /\ Room'
      BY <1>1, <2>1 DEF P!vars, PlannedInv, PlannedTyped, P!TypeOK, Room, Listed
    <2> QED
      BY <1>1, <2>1, <2>2 DEF P!vars, PlannedInv, Owes, Owed, P!Present
  <1>2. CASE ~stale /\ P!Next
    BY <1>2, UserSteps, ElapseStep, CoordinatorSteps, SyncSteps, MarkStep, ApplyStep, LaunchStep,
       PlannedCrash DEF P!Next, P!Coordinate, P!GoesOn
  <1> QED
    BY <1>1, <1>2

(* The order of the planned items is what the runs check of them.          *)
LEMMA PlannedIs ==
  ASSUME P!PlannedBounds, PlannedInv
  PROVE  P!TypeOK /\ P!KeyOnce /\ P!LaunchedAsAsked
  <1>1. P!TypeOK
    BY DEF PlannedInv, PlannedTyped
  <1>2. P!KeyOnce
    <2>1. CASE P!Holders = {}
      BY Counts, <2>1, FS_EmptySet DEF P!KeyOnce
    <2>2. CASE ~stale /\ P!Holders # {}
      <3>1. PICK i \in P!Holders : TRUE
        BY <2>2
      <3>2. P!Holders = {i}
        BY <2>2 DEF PlannedInv
      <3>3. Cardinality({i}) = 1
        BY FS_Singleton
      <3> QED
        BY Counts, <3>2, <3>3 DEF P!KeyOnce
    <2> QED
      BY <2>1, <2>2 DEF P!KeyOnce
  <1>3. P!LaunchedAsAsked
    BY DEF PlannedInv, P!LaunchedAsAsked, Owes
  <1> QED
    BY <1>1, <1>2, <1>3

-----------------------------------------------------------------------------
(***************************************************************************)
(* Scout jobs: ScoutJobs                                                   *)
(***************************************************************************)
Coords == [pc : {"idle", "picked", "marked", "launched"}, run : 0..MaxRuns,
           out : {"none", "ok", "error", "limit"}]
Slows == [op : {"none", "prepare", "cycle", "retain", "sync"}, pc : {"idle", "read", "write"},
          of : 0..MaxRuns, resumed : BOOLEAN, seen : S!Jobs \cup {None}, copy : S!Jobs \cup {None}]

(* Types; a command that reads works on a run.                             *)
ScoutTyped ==
  /\ S!TypeOK /\ kind \in {"local", "review"}
  /\ run \in [S!Runs -> [st : S!RunStatuses, live : BOOLEAN]]
  /\ coord \in Coords /\ slow \in Slows
  /\ slow.pc = "read" => slow.of \in S!Runs

(* A job that is not running has no run, or one that has ended.            *)
Sound(j) ==
  /\ j.stale => j.status = "queued"
  /\ j.status = "queued" => j.run = 0
  /\ j.run # 0 /\ j.status # "running" =>
       kind = "local" /\ run[j.run].st \in {"completed", "failed"}

(* What the coordinator has in hand is of a job that has no run yet.       *)
InHand ==
  /\ coord.pc # "idle" => job = None \/ job.run = 0
  /\ coord.pc # "launched" => coord.run = 0
  /\ coord.pc = "launched" => (coord.out = "ok" <=> coord.run # 0)

(* The copies that are kept, of the job as it was.                         *)
Kept ==
  /\ slow.op \in {"prepare", "retain"} => coord.pc = "idle"
  /\ slow.pc = "read" => slow.resumed \/ S!IsStale(run[slow.of].st)
  /\ slow.pc = "write" =>
       \/ slow.op = "sync" /\ slow.copy = slow.seen
       \/ /\ slow.op = "retain" /\ slow.seen # None
          /\ slow.seen.status \in {"dismissed", "deleted"} /\ slow.copy = S!Retained(slow.seen)
       \/ /\ slow.op = "prepare" /\ slow.seen # None /\ slow.copy # None
          /\ slow.seen.run = slow.of
          /\ \/ slow.copy.status = "running" /\ slow.copy.run = slow.of /\ ~slow.copy.stale
             \/ /\ slow.copy.status = "queued" /\ slow.copy.run = 0
                /\ S!IsStale(run[slow.of].st)

(* A run that may go on is its job's, the coordinator has it in hand, or   *)
(* it is one of the exceptions.                                            *)
Unended(r) == run[r].st \in {"running", "paused"}
Known ==
  \A r \in S!Runs : Unended(r) =>
    coord.run = r \/ r \in astray \/ (job # None /\ job.run = r /\ job.status = "running")

(* A job, what is kept of it, and its runs are in order.                   *)
ScoutSafe ==
  /\ planned # None => job = None /\ planned.run = 0
  /\ job # None => Sound(job)
  /\ InHand /\ Kept /\ Known

(* Runs that went astray have begun, and neither the job nor the           *)
(* coordinator names them; what is in hand has begun as well.              *)
Estranged ==
  /\ coord.run # 0 => run[coord.run].st # "none"
  /\ \A r \in astray :
       run[r].st # "none" /\ coord.run # r /\ (job = None \/ job.run # r)

(* What holds until copies are mixed up or a legacy state haunts the job.  *)
ScoutInv == ScoutTyped /\ (mixed \/ S!Haunted \/ (ScoutSafe /\ Estranged))

(* The first states, with what older versions left behind.                 *)
LEMMA ScoutBegins == S!ScoutBounds /\ S!Init => ScoutInv
  <1> SUFFICES ASSUME S!ScoutBounds, S!Init PROVE ScoutInv
    OBVIOUS
  <1>1. PICK l \in S!Legacy : /\ record = l[1] /\ planned = l[2]
                              /\ run = [r \in S!Runs |-> IF r = 1 /\ l[2] # None /\ l[2].run = 1
                                        THEN [st |-> "running", live |-> TRUE] ELSE S!NoRun]
    BY DEF S!Init
  <1>2. /\ record \in S!RecordKinds \cup {None} /\ planned \in S!PlannedKinds \cup {None}
        /\ record = None => planned = None
        /\ planned # None => (planned.run = record.run)
    <2>1. CASE l = <<None, None>>
      BY <1>1, <2>1
    <2>2. ASSUME NEW s \in {"running", "completed", "failed", "dismissed"},
                 l = <<[st |-> s, run |-> 0], None>>
          PROVE  record \in S!RecordKinds /\ planned = None
      BY <1>1, <2>2 DEF S!RecordKinds
    <2>3. ASSUME NEW s \in {"queued", "launching", "launched", "failed"},
                 l = <<[st |-> "running", run |-> 0], [state |-> s, run |-> 0]>>
          PROVE  record \in S!RecordKinds /\ planned \in S!PlannedKinds /\ planned.run = 0 /\ record.run = 0
      BY <1>1, <2>3 DEF S!RecordKinds, S!PlannedKinds
    <2>4. ASSUME l = <<[st |-> "running", run |-> 1], [state |-> "launching", run |-> 1]>>
          PROVE  record \in S!RecordKinds /\ planned \in S!PlannedKinds /\ planned.run = 1 /\ record.run = 1
      BY <1>1, <2>4 DEF S!RecordKinds, S!PlannedKinds
    <2>5. None \notin S!RecordKinds
      BY DEF S!ScoutBounds
    <2> QED
      BY <2>1, <2>2, <2>3, <2>4, <2>5 DEF S!Legacy
  <1>3. run \in [S!Runs -> [st : S!RunStatuses, live : BOOLEAN]]
    BY <1>1 DEF S!RunStatuses, S!NoRun
  <1>4. \A r \in S!Runs : run[r].live => run[r].st = "running"
    BY <1>1 DEF S!NoRun
  <1>5. coord \in Coords /\ slow \in Slows /\ slow.op = "none" /\ slow.pc = "idle"
    BY DEF S!Init, S!Rested, S!NoCopy, Coords, Slows, S!ScoutBounds
  <1>6. ScoutTyped
    BY <1>2, <1>3, <1>4, <1>5 DEF ScoutTyped, S!TypeOK, S!Init, S!Rested, S!ScoutBounds
  <1>7. ~S!Haunted => \A r \in S!Runs : run[r].st = "none"
    BY <1>1, <1>2 DEF S!Haunted, S!NoRun, S!RecordKinds, S!PlannedKinds
  <1>8. ~S!Haunted /\ planned # None => planned.run = 0
    BY <1>2 DEF S!Haunted
  <1> QED
    BY <1>5, <1>6, <1>7, <1>8
    DEF ScoutInv, ScoutSafe, Estranged, S!Init, InHand, Kept, Known, Unended, S!Rested

(* What brings a job up to date keeps its type.                            *)
LEMMA DerivedTyped ==
  ASSUME S!ScoutBounds, ScoutTyped, NEW e \in S!Jobs \cup {None}
  PROVE  S!Derived(e) \in S!Jobs
  <1> DEFINE j == IF e = None THEN S!New ELSE e
  <1>1. j \in S!Jobs
    BY DEF S!New, S!Jobs, S!ScoutBounds
  <1>2. planned # None => S!FromPlanned(j, S!Bound(e, record), planned) \in S!Jobs
    <2>1. S!Bound(e, record) \in 0..MaxRuns
      BY DEF S!Bound, S!ScoutBounds, ScoutTyped, S!TypeOK, S!RecordKinds, S!Jobs
    <2>2. planned # None => planned.run \in 0..MaxRuns
      BY DEF ScoutTyped, S!TypeOK, S!PlannedKinds, S!ScoutBounds
    <2> HIDE DEF j
    <2> QED
      BY <1>1, <2>1, <2>2 DEF S!FromPlanned, S!Jobs, S!ScoutBounds
  <1>3. record # None => S!FromRecord(j, record) \in S!Jobs
    <2>1. record # None => /\ record.run \in 0..MaxRuns
                           /\ record.st \in {"running", "completed", "failed", "dismissed", "deleted"}
      BY DEF ScoutTyped, S!TypeOK, S!RecordKinds, S!ScoutBounds
    <2> HIDE DEF j
    <2> QED
      BY <1>1, <2>1 DEF S!FromRecord, S!Jobs, S!ScoutBounds
  <1> QED
    BY <1>1, <1>2, <1>3 DEF S!Derived

LEMMA RequeuedTyped ==
  ASSUME S!ScoutBounds, NEW j \in S!Jobs, NEW pause \in {"none", "cool"}
  PROVE  S!Requeued(j, pause) \in S!Jobs
  <1>1. 0 \in 0..MaxRuns
    BY DEF S!ScoutBounds
  <1> QED
    BY <1>1 DEF S!Requeued, S!Jobs

LEMMA ReconciledTyped ==
  ASSUME S!ScoutBounds, NEW j \in S!Jobs
  PROVE  S!Reconciled(j, run) \in S!Jobs
  <1>1. S!Requeued(j, "none") \in S!Jobs /\ S!Requeued(j, "cool") \in S!Jobs
    BY RequeuedTyped
  <1>2. /\ [j EXCEPT !.stale = FALSE, !.pause = "none"] \in S!Jobs
        /\ [j EXCEPT !.status = "running", !.pause = "limit"] \in S!Jobs
        /\ [j EXCEPT !.status = "completed", !.stale = FALSE, !.pause = "none",
                     !.recovered = FALSE] \in S!Jobs
        /\ [j EXCEPT !.status = "failed", !.stale = FALSE, !.pause = "none"] \in S!Jobs
    BY DEF S!Jobs
  <1> QED
    BY <1>1, <1>2 DEF S!Reconciled

LEMMA ClearedTyped ==
  ASSUME NEW j \in S!Jobs
  PROVE  /\ S!Cleared(j) \in S!Jobs /\ S!Cleared(j).status = j.status /\ S!Cleared(j).run = j.run
         /\ S!Cleared(j).stale = j.stale
  BY DEF S!Cleared, S!Jobs

LEMMA UpToDateTyped ==
  ASSUME S!ScoutBounds, ScoutTyped, NEW e \in S!Jobs \cup {None}
  PROVE  S!UpToDate(e, run) \in S!Jobs \cup {None}
  BY DerivedTyped, ReconciledTyped, ClearedTyped DEF S!UpToDate

(* Where nothing haunts it, it is sound when it was, keeps a run that may  *)
(* go on, and names no other.                                              *)
LEMMA DerivedSound ==
  ASSUME S!ScoutBounds, ScoutTyped, ~S!Haunted, NEW e \in S!Jobs \cup {None}, e # None => Sound(e),
         planned # None => e = None /\ planned.run = 0
  PROVE  /\ Sound(S!Derived(e)) /\ (S!Derived(e).run = 0 \/ (e # None /\ S!Derived(e).run = e.run))
         /\ e # None /\ e.status = "running" /\ e.run # 0 => S!Derived(e) = e
  <1> DEFINE j == IF e = None THEN S!New ELSE e
  <1>1. /\ j \in S!Jobs /\ Sound(j) /\ (e = None => j.run = 0) /\ (e # None => j = e)
        /\ ~(e = None /\ j.status = "deleted")
    BY DEF S!New, S!Jobs, S!ScoutBounds, Sound
  <1>2. record # None => /\ record.run = 0
                         /\ record.st \in {"running", "completed", "failed", "dismissed", "deleted"}
    BY DEF S!Haunted, ScoutTyped, S!TypeOK, S!RecordKinds
  <1>3. CASE planned # None
    <2>1. /\ e = None /\ j = S!New /\ S!Bound(e, record) = 0 /\ planned.run = 0
          /\ planned.state \in {"queued", "launching", "launched", "failed"}
      BY <1>2, <1>3 DEF S!Bound, ScoutTyped, S!TypeOK, S!PlannedKinds
    <2>2. S!Derived(e) = S!FromPlanned(S!New, 0, planned)
      <3>1. S!New.status # "deleted"
        BY DEF S!New
      <3> HIDE DEF j
      <3> QED
        BY <1>3, <2>1, <3>1 DEF S!Derived
    <2>3. /\ S!FromPlanned(S!New, 0, planned).run = 0
          /\ S!FromPlanned(S!New, 0, planned).stale = FALSE
      BY <2>1 DEF S!FromPlanned, S!New, S!Resolved
    <2> QED
      BY <2>1, <2>2, <2>3 DEF Sound
  <1>4. CASE planned = None /\ record # None
    <2>1. CASE j.status = "deleted" \/ j.status = "failed" \/ (j.status = "running" /\ j.run # 0)
      <3>1. S!Derived(e) = j
        BY <1>2, <1>4, <2>1 DEF S!Derived
      <3> QED
        BY <1>1, <3>1
    <2>2. CASE ~(j.status = "deleted" \/ j.status = "failed" \/ (j.status = "running" /\ j.run # 0))
      <3> DEFINE k == IF record.st # "running" THEN [j EXCEPT !.status = record.st]
                      ELSE IF record.run = 0 /\ ~S!Resolved(j)
                        THEN [j EXCEPT !.status = "queued", !.run = 0]
                      ELSE IF record.run # 0 /\ j.status \in {"queued", "running"}
                        THEN [j EXCEPT !.status = "running"]
                      ELSE j
                 d == S!FromRecord(j, record)
      <3>1. S!Derived(e) = d
        BY <1>2, <1>4, <2>2 DEF S!Derived
      <3>2. k \in S!Jobs /\ d.status = k.status /\ d.run = k.run
            /\ d.stale = IF record.st = "failed" \/ k.status # "failed" THEN FALSE ELSE k.stale
        <4> HIDE DEF j
        <4>1. k \in S!Jobs
          <5>1. k \in {j, [j EXCEPT !.status = record.st], [j EXCEPT !.status = "queued", !.run = 0],
                       [j EXCEPT !.status = "running"]}
            OBVIOUS
          <5> HIDE DEF k
          <5>2. 0 \in 0..MaxRuns
            BY DEF S!ScoutBounds
          <5> QED
            BY <1>1, <1>2, <1>4, <5>1, <5>2 DEF S!Jobs
        <4>2. d = [k EXCEPT !.run = IF record.run # 0 THEN record.run ELSE @,
                            !.stale = IF record.st = "failed" \/ k.status # "failed" THEN FALSE ELSE @]
          BY DEF S!FromRecord
        <4> HIDE DEF k, d
        <4> QED
          BY <1>2, <1>4, <4>1, <4>2 DEF S!Jobs
      <3>3. CASE record.st # "running"
        <4>1. k.status = record.st /\ k.run = j.run
          <5> HIDE DEF j
          <5>1. k = [j EXCEPT !.status = record.st]
            BY <3>3
          <5> HIDE DEF k
          <5> QED
            BY <1>1, <5>1 DEF S!Jobs
        <4> HIDE DEF k, d, j
        <4> QED
          BY <1>1, <1>2, <1>4, <2>2, <3>1, <3>2, <3>3, <4>1 DEF Sound, S!Jobs
      <3>4. CASE record.st = "running" /\ ~S!Resolved(j)
        <4>1. k.status = "queued" /\ k.run = 0
          BY <1>1, <1>2, <1>4, <3>4 DEF S!Jobs
        <4> HIDE DEF k, d, j
        <4> QED
          BY <1>1, <2>2, <3>1, <3>2, <3>4, <4>1 DEF Sound
      <3>5. CASE record.st = "running" /\ S!Resolved(j)
        <4>1. k = j
          BY <1>2, <1>4, <3>5
        <4> HIDE DEF k, d, j
        <4> QED
          BY <1>1, <2>2, <3>1, <3>2, <3>5, <4>1 DEF Sound, S!Resolved
      <3> QED
        BY <3>3, <3>4, <3>5
    <2> QED
      BY <2>1, <2>2
  <1>5. CASE planned = None /\ record = None
    <2>1. S!Derived(e) = j
      BY <1>5 DEF S!Derived
    <2> QED
      BY <1>1, <2>1
  <1> QED
    BY <1>3, <1>4, <1>5

(* A job that its run has been asked for is sound, and names no other run. *)
LEMMA ReconciledSound ==
  ASSUME S!ScoutBounds, ScoutTyped, kind = "local", NEW j \in S!Jobs, Sound(j)
  PROVE  /\ Sound(S!Reconciled(j, run)) /\ S!Reconciled(j, run).run \in {0, j.run}
         /\ j.status = "running" /\ j.run # 0 /\ Unended(j.run) =>
              S!Reconciled(j, run).status = "running" /\ S!Reconciled(j, run).run = j.run
         /\ S!Reconciled(j, run).run # 0 => ~S!IsStale(run[S!Reconciled(j, run).run].st)
  <1> DEFINE k == S!Reconciled(j, run)
             st == run[j.run].st
  <1>1. CASE j.run = 0
    BY <1>1 DEF S!Reconciled
  <1>2. CASE j.run # 0 /\ j.status # "running"
    BY <1>2 DEF S!Reconciled, Sound, S!IsStale
  <1>3. CASE j.run # 0 /\ j.status = "running"
    <2>1. ~j.stale /\ j.run \in S!Runs /\ st \in S!RunStatuses
      BY <1>3 DEF Sound, ScoutTyped, S!Runs, S!Jobs
    <2>2. CASE st = "none"
      BY <1>3, <2>1, <2>2 DEF S!Reconciled, S!IsStale, Unended
    <2>3. CASE S!IsStale(st)
      <3>1. k \in {S!Requeued(j, "cool"), S!Requeued(j, "none")}
        BY <1>3, <2>1, <2>3 DEF S!Reconciled, S!IsStale
      <3>2. k.status = "queued" /\ k.run = 0
        BY <3>1 DEF S!Requeued, S!Jobs
      <3> HIDE DEF k
      <3>3. Sound(k)
        BY <3>2 DEF Sound
      <3> QED
        BY <2>3, <3>2, <3>3 DEF k, S!IsStale, Unended
    <2>4. CASE st = "running"
      <3>1. k = [j EXCEPT !.stale = FALSE, !.pause = "none"]
        BY <1>3, <2>1, <2>4 DEF S!Reconciled, S!IsStale
      <3>2. k.status = "running" /\ k.run = j.run /\ k.stale = FALSE
        BY <1>3, <3>1 DEF S!Jobs
      <3> HIDE DEF k
      <3>3. Sound(k)
        BY <3>2 DEF Sound
      <3> QED
        BY <2>4, <3>2, <3>3 DEF k, S!IsStale
    <2>5. CASE st = "paused"
      <3>1. k = [j EXCEPT !.status = "running", !.pause = "limit"]
        BY <1>3, <2>1, <2>5 DEF S!Reconciled, S!IsStale
      <3>2. k.status = "running" /\ k.run = j.run /\ k.stale = FALSE
        BY <1>3, <2>1, <3>1 DEF S!Jobs
      <3> HIDE DEF k
      <3>3. Sound(k)
        BY <3>2 DEF Sound
      <3> QED
        BY <2>5, <3>2, <3>3 DEF k, S!IsStale
    <2>6. CASE st \in {"completed", "failed"}
      <3>1. k \in {[j EXCEPT !.status = "completed", !.stale = FALSE, !.pause = "none",
                            !.recovered = FALSE],
                   [j EXCEPT !.status = "failed", !.stale = FALSE, !.pause = "none"]}
        BY <1>3, <2>1, <2>6 DEF S!Reconciled, S!IsStale
      <3>2. k.status \in {"completed", "failed"} /\ k.run = j.run /\ k.stale = FALSE
        BY <3>1 DEF S!Jobs
      <3> HIDE DEF k
      <3>3. Sound(k)
        BY <2>6, <3>2 DEF Sound
      <3> QED
        BY <2>6, <3>2, <3>3 DEF k, S!IsStale, Unended
    <2> QED
      BY <2>1, <2>2, <2>3, <2>4, <2>5, <2>6 DEF S!IsStale, S!RunStatuses
  <1> QED
    BY <1>1, <1>2, <1>3

(* What a job is made of when it is brought up to date.                    *)
UpdateOf(e, n) ==
  /\ n \in S!Jobs \cup {None} /\ (e # None => n # None) /\ (n # None => Sound(n))
  /\ n # None => n.run = 0 \/ (e # None /\ n.run = e.run)
  /\ e # None /\ e.status = "running" /\ e.run # 0 /\ Unended(e.run) =>
       n.status = "running" /\ n.run = e.run
  /\ n # None /\ n.run # 0 /\ S!IsStale(run[n.run].st) => n.status = "running"

(* Bringing a job up to date makes a sound job of it.                      *)
LEMMA UpToDateIs ==
  ASSUME S!ScoutBounds, ScoutTyped, ~S!Haunted, NEW e \in S!Jobs \cup {None}, e # None => Sound(e),
         planned # None => e = None /\ planned.run = 0
  PROVE  UpdateOf(e, S!UpToDate(e, run))
  <1>1. CASE kind = "local"
    <2> DEFINE d == S!Derived(e)
               c == S!Reconciled(d, run)
    <2>1. d \in S!Jobs /\ Sound(d) /\ (d.run = 0 \/ (e # None /\ d.run = e.run))
          /\ (e # None /\ e.status = "running" /\ e.run # 0 => d = e)
      BY DerivedTyped, DerivedSound
    <2> HIDE DEF d
    <2>2. /\ c \in S!Jobs /\ Sound(c) /\ c.run \in {0, d.run}
          /\ d.status = "running" /\ d.run # 0 /\ Unended(d.run) =>
               c.status = "running" /\ c.run = d.run
          /\ c.run # 0 => ~S!IsStale(run[c.run].st)
      BY <1>1, <2>1, ReconciledTyped, ReconciledSound
    <2> HIDE DEF c
    <2>3. S!UpToDate(e, run) = S!Cleared(c) /\ S!Cleared(c) # None
      BY <1>1, <2>2, ClearedTyped DEF S!UpToDate, c, d, S!ScoutBounds
    <2>4. /\ S!Cleared(c) \in S!Jobs /\ Sound(S!Cleared(c)) /\ S!Cleared(c).run = c.run
          /\ S!Cleared(c).status = c.status
      BY <2>2, ClearedTyped DEF Sound
    <2> QED
      BY <2>1, <2>2, <2>3, <2>4 DEF UpdateOf
  <1>2. CASE kind # "local" /\ e = None
    BY <1>2 DEF S!UpToDate, UpdateOf
  <1>3. CASE kind # "local" /\ e # None
    <2>1. S!UpToDate(e, run) = S!Cleared(e) /\ e \in S!Jobs
      BY <1>3 DEF S!UpToDate
    <2>2. /\ S!Cleared(e) \in S!Jobs /\ S!Cleared(e).status = e.status /\ S!Cleared(e).run = e.run
          /\ S!Cleared(e).stale = e.stale
      BY <2>1, ClearedTyped
    <2>3. e.run # 0 => e.status = "running"
      BY <1>3 DEF Sound
    <2> QED
      BY <1>3, <2>1, <2>2, <2>3 DEF UpdateOf, Sound, S!ScoutBounds
  <1> QED
    BY <1>1, <1>2, <1>3

(* The cleanup of one run.                                                 *)
Cleans(op, r, s) ==
  /\ op = "prepare" => coord.pc = "idle"
  /\ S!Cleaned(r, s)
  /\ run' = [run EXCEPT ![r] = [st |-> s, live |-> s = "running"]]
  /\ slow' = [S!NoCopy EXCEPT !.op = op, !.pc = "read", !.of = r, !.resumed = (s = "running")]
  /\ astray' = IF s = "running" /\ S!GivenUp(r) THEN astray \cup {r} ELSE astray

LEMMA CleanupIs ==
  ASSUME S!Cleanup
  PROVE  \E op \in {"prepare", "cycle"}, r \in S!Runs, s \in S!RunStatuses : Cleans(op, r, s)
  <1>1. PICK op \in {"prepare", "cycle"}, r \in S!Runs, s \in S!RunStatuses :
          /\ op = "prepare" => coord.pc = "idle"
          /\ S!Cleaned(r, s) /\ (s = "refused" => faults < ScoutFaults)
          /\ faults' = IF s = "refused" THEN faults + 1 ELSE faults
          /\ run' = [run EXCEPT ![r] = [st |-> s, live |-> s = "running"]]
          /\ slow' = [S!NoCopy EXCEPT !.op = op, !.pc = "read", !.of = r,
                                    !.resumed = (s = "running")]
          /\ astray' = IF s = "running" /\ S!GivenUp(r) THEN astray \cup {r} ELSE astray
    BY DEF S!Cleanup
  <1> QED
    <2>1. Cleans(op, r, s)
      BY <1>1 DEF Cleans
    <2> QED
      BY <2>1

LEMMA NowTyped ==
  ASSUME S!ScoutBounds, ScoutTyped
  PROVE  S!Now \in S!Jobs \cup {None} /\ None \notin S!Jobs
  BY UpToDateTyped DEF S!Now, ScoutTyped, S!TypeOK, S!ScoutBounds

(* Of the job brought up to date.                                          *)
LEMMA NowIs ==
  ASSUME S!ScoutBounds, ScoutTyped, ~S!Haunted, ScoutSafe
  PROVE  /\ UpdateOf(job, S!Now) /\ (job # None => job \in S!Jobs)
         /\ coord.pc # "idle" => S!Now = None \/ S!Now.run = 0
         /\ \A r \in S!Runs : Unended(r) =>
              coord.run = r \/ r \in astray
              \/ (S!Now # None /\ S!Now.run = r /\ S!Now.status = "running")
  <1>1. UpdateOf(job, S!Now)
    BY UpToDateIs DEF S!Now, ScoutTyped, S!TypeOK, ScoutSafe
  <1>2. \A r \in S!Runs : r # 0
    BY DEF S!Runs
  <1> QED
    BY <1>1, <1>2 DEF UpdateOf, ScoutSafe, InHand, Known, ScoutTyped, S!TypeOK

(* Every step keeps the types.                                             *)
LEMMA ScoutTypedStays ==
  ASSUME S!ScoutBounds, ScoutTyped, S!Next
  PROVE  ScoutTyped'
  <1>0. /\ S!Now \in S!Jobs \cup {None} /\ None \notin S!Jobs /\ S!New \in S!Jobs /\ coord \in Coords
        /\ slow \in Slows
    BY NowTyped DEF S!New, S!Jobs, S!ScoutBounds, ScoutTyped
  <1>21. astray' \subseteq S!Runs
    <2>1. astray \subseteq S!Runs /\ coord.run \in 0..MaxRuns
      BY DEF ScoutTyped, S!TypeOK
    <2>2. CASE S!Cleanup
      <3>1. PICK op \in {"prepare", "cycle"}, r \in S!Runs, s \in S!RunStatuses : Cleans(op, r, s)
        BY <2>2, CleanupIs
      <3> QED
        BY <2>1, <3>1 DEF Cleans
    <2>3. CASE S!StartDies
      <3>1. coord.run # 0 => coord.run \in S!Runs
        BY <2>1 DEF S!Runs
      <3>2. astray' = IF coord.run # 0 THEN astray \cup {coord.run} ELSE astray
        BY <2>3 DEF S!StartDies
      <3> QED
        BY <2>1, <3>1, <3>2
    <2>4. CASE UNCHANGED astray
      BY <2>1, <2>4
    <2> QED
      BY <2>2, <2>3, <2>4
      DEF S!Next, S!Progress, S!Read, S!Pick, S!MarkStarted, S!Launch, S!ApplyResult, S!RecoverJob,
          S!ReadToRetain, S!ReadToSync, S!WriteBack, S!Dismiss, S!Retry, S!Restore, S!Promote,
          S!Mutate, S!RunEnds, S!RunResumes, S!RunDies, S!Elapse
  <1>1. ASSUME job' \in S!Jobs \cup {None}, planned' \in {None, planned}, coord' \in Coords,
               slow' \in Slows, UNCHANGED <<kind, run>>,
               record' = record \/ (record # None /\ record' = [record EXCEPT !.st = "deleted"]),
               slow'.op = "none" <=> slow'.pc = "idle",
               slow'.pc = "read" => slow' = slow
        PROVE  ScoutTyped'
    <2>1. record' \in S!RecordKinds \cup {None}
      BY <1>1 DEF ScoutTyped, S!TypeOK, S!RecordKinds
    <2> QED
      BY <1>1, <1>21, <2>1 DEF ScoutTyped, S!TypeOK, Coords
  <1>2. ASSUME run' \in [S!Runs -> [st : S!RunStatuses, live : BOOLEAN]], coord' \in Coords,
               \A r \in S!Runs : run'[r].live => run'[r].st = "running",
               UNCHANGED <<kind, record>>, job' \in S!Jobs \cup {None}, planned' \in {None, planned},
               slow' \in Slows, slow'.op = "none" <=> slow'.pc = "idle",
               slow'.pc = "read" => slow'.of \in S!Runs
        PROVE  ScoutTyped'
    BY <1>2, <1>21 DEF ScoutTyped, S!TypeOK, Coords
  <1>3. ASSUME NEW r \in S!Runs, NEW s \in S!RunStatuses, NEW l \in BOOLEAN, l => s = "running",
               run' = [run EXCEPT ![r] = [st |-> s, live |-> l]], coord' \in Coords,
               UNCHANGED <<kind, record>>, job' \in S!Jobs \cup {None}, planned' \in {None, planned},
               slow' \in Slows, slow'.op = "none" <=> slow'.pc = "idle",
               slow'.pc = "read" => slow'.of \in S!Runs
        PROVE  ScoutTyped'
    BY <1>2, <1>3 DEF ScoutTyped, S!TypeOK
  <1>4. ASSUME NEW op \in {"retain", "sync"}, NEW n \in S!Jobs \cup {None}, NEW c \in S!Jobs \cup {None},
               slow' = [S!NoCopy EXCEPT !.op = op, !.pc = "write", !.seen = n, !.copy = c]
        PROVE  slow' \in Slows /\ slow'.op = op /\ slow'.pc = "write"
    <2>1. slow' = [op |-> op, pc |-> "write", of |-> 0, resumed |-> FALSE, seen |-> n, copy |-> c]
      BY <1>4 DEF S!NoCopy
    <2> QED
      BY <2>1 DEF Slows, S!ScoutBounds
  <1>5. CASE S!Read
    BY <1>0, <1>1, <1>5 DEF S!Read, S!Put, ScoutTyped, S!TypeOK
  <1>6. CASE S!Pick
    BY <1>0, <1>1, <1>6 DEF S!Pick, ScoutTyped, S!TypeOK, Coords
  <1>7. CASE S!MarkStarted
    <2> DEFINE j == IF S!Now = None THEN S!New ELSE S!Now
    <2>1. j \in S!Jobs /\ (j = S!Now \/ j = S!New)
      BY <1>0
    <2>2. (IF j.attempts < 2 THEN j.attempts + 1 ELSE j.attempts) \in 0..2
      BY <2>1 DEF S!Jobs
    <2>3. job' = [j EXCEPT !.status = "running", !.stale = FALSE, !.pause = "none",
                           !.attempts = IF @ < 2 THEN @ + 1 ELSE @] /\ planned' = None
      BY <1>7 DEF S!MarkStarted, S!Put
    <2> HIDE DEF j
    <2>4. job' \in S!Jobs
      BY <2>1, <2>2, <2>3 DEF S!Jobs
    <2> QED
      BY <1>0, <1>1, <1>7, <2>3, <2>4 DEF S!MarkStarted, ScoutTyped, S!TypeOK, Coords
  <1>8. CASE S!Launch
    <2>1. CASE \E r \in S!Free : /\ run' = [run EXCEPT ![r] = [st |-> "running", live |-> TRUE]]
                                 /\ coord' = [pc |-> "launched", run |-> r, out |-> "ok"]
      <3>1. PICK r \in S!Runs : /\ run' = [run EXCEPT ![r] = [st |-> "running", live |-> TRUE]]
                                /\ coord' = [pc |-> "launched", run |-> r, out |-> "ok"]
        BY <2>1 DEF S!Free
      <3>2. coord' \in Coords
        BY <3>1 DEF Coords, S!Runs, S!ScoutBounds
      <3> QED
        BY <1>0, <1>3, <1>8, <3>1, <3>2 DEF S!Launch, S!RunStatuses, ScoutTyped, S!TypeOK
    <2>2. CASE run' = run /\ \E o \in {"error", "limit"} :
                 coord' = [pc |-> "launched", run |-> 0, out |-> o]
      <3>1. coord' \in Coords
        BY <2>2 DEF Coords, S!ScoutBounds
      <3> QED
        BY <1>0, <1>1, <1>8, <2>2, <3>1 DEF S!Launch, ScoutTyped, S!TypeOK
    <2> QED
      BY <1>8, <2>1, <2>2 DEF S!Launch
  <1>9. CASE S!ApplyResult
    <2> DEFINE j == IF S!Now = None THEN S!New ELSE S!Now
               k == [j EXCEPT !.run = IF coord.run # 0 THEN coord.run ELSE @]
    <2>1. j \in S!Jobs
      BY <1>0
    <2>2. k \in S!Jobs
      <3> HIDE DEF j
      <3> QED
        BY <2>1 DEF ScoutTyped, S!TypeOK, S!Jobs
    <2>3. /\ job' \in {[k EXCEPT !.status = "running", !.stale = FALSE],
                       [k EXCEPT !.status = "failed", !.stale = FALSE],
                       [k EXCEPT !.status = "queued", !.stale = FALSE, !.pause = "limit"]}
          /\ planned' = None
      BY <1>9 DEF S!ApplyResult, S!Put
    <2> HIDE DEF k
    <2>4. job' \in S!Jobs
      BY <2>2, <2>3 DEF S!Jobs
    <2>5. S!Rested \in Coords
      BY DEF S!Rested, Coords, S!ScoutBounds
    <2> QED
      BY <1>0, <1>1, <1>9, <2>3, <2>4, <2>5 DEF S!ApplyResult, ScoutTyped, S!TypeOK
  <1>10. CASE S!Cleanup
    <2>1. PICK op \in {"prepare", "cycle"}, r \in S!Runs, s \in S!RunStatuses : Cleans(op, r, s)
      BY <1>10, CleanupIs
    <2>2. slow' \in Slows /\ slow'.op # "none" /\ slow'.pc = "read" /\ slow'.of = r
      <3>1. slow' = [op |-> op, pc |-> "read", of |-> r, resumed |-> (s = "running"),
                     seen |-> None, copy |-> None]
        BY <2>1 DEF Cleans, S!NoCopy
      <3> QED
        BY <3>1 DEF Slows, S!Runs
    <2> QED
      BY <1>0, <1>3, <1>10, <2>1, <2>2 DEF Cleans, S!Cleanup, ScoutTyped, S!TypeOK
  <1>11. S!NoCopy \in Slows /\ S!NoCopy.op = "none" /\ S!NoCopy.pc = "idle"
    BY DEF S!NoCopy, Slows, S!ScoutBounds
  <1>12. CASE S!RecoverJob
    <2>1. PICK anew \in BOOLEAN :
            /\ anew => S!CanResume(S!Now)
            /\ run' = IF anew THEN [run EXCEPT ![S!Now.run] = [st |-> "running", live |-> TRUE]]
                      ELSE run
            /\ IF slow.op = "cycle" THEN S!Put(S!Recovered(S!Now, anew)) /\ slow' = S!NoCopy
               ELSE /\ S!Put(S!Now)
                    /\ slow' = IF S!Recovered(S!Now, anew) = S!Now THEN S!NoCopy
                               ELSE [slow EXCEPT !.pc = "write", !.seen = S!Now,
                                                 !.copy = S!Recovered(S!Now, anew)]
      BY <1>12 DEF S!RecoverJob
    <2>2. slow.of \in S!Runs /\ slow.op # "none"
      BY <1>12 DEF S!RecoverJob, ScoutTyped
    <2>3. S!Recovered(S!Now, anew) \in S!Jobs \cup {None}
      <3>1. S!Now # None => [S!Now EXCEPT !.status = "running", !.stale = FALSE, !.pause = "none",
                                      !.recovered = TRUE] \in S!Jobs
        BY <1>0 DEF S!Jobs
      <3>2. S!Now # None => S!Requeued(S!Now, "none") \in S!Jobs
        BY <1>0, RequeuedTyped
      <3> QED
        BY <1>0, <3>1, <3>2 DEF S!Recovered
    <2>4. job' \in S!Jobs \cup {None} /\ planned' = None
      BY <1>0, <2>1, <2>3 DEF S!Put
    <2>5. /\ slow' \in Slows /\ (slow'.op = "none" <=> slow'.pc = "idle") /\ slow'.pc # "read"
      <3>1. CASE slow' = S!NoCopy
        BY <1>11, <3>1
      <3>2. CASE slow' = [slow EXCEPT !.pc = "write", !.seen = S!Now, !.copy = S!Recovered(S!Now, anew)]
        BY <1>0, <2>2, <2>3, <3>2 DEF Slows
      <3> QED
        BY <2>1, <3>1, <3>2
    <2>6. CASE anew
      <3>1. S!Now.run \in S!Runs
        BY <2>1, <2>2, <2>6 DEF S!CanResume
      <3> QED
        BY <1>0, <1>3, <1>12, <2>1, <2>4, <2>5, <2>6, <3>1 DEF S!RecoverJob, S!RunStatuses
    <2>7. CASE ~anew
      BY <1>0, <1>1, <1>12, <2>1, <2>4, <2>5, <2>7 DEF S!RecoverJob
    <2> QED
      BY <2>6, <2>7
  <1>13. CASE S!ReadToRetain
    <2>1. S!Retained(S!Now) \in S!Jobs \cup {None}
      BY <1>0, <1>13 DEF S!ReadToRetain, S!Retained, S!Jobs
    <2>2. slow' \in Slows /\ slow'.op = "retain" /\ slow'.pc = "write"
      BY <1>0, <1>4, <1>13, <2>1 DEF S!ReadToRetain
    <2> QED
      BY <1>0, <1>1, <1>13, <2>2 DEF S!ReadToRetain, S!Put
  <1>14. CASE S!ReadToSync
    <2>1. slow' \in Slows /\ slow'.op = "sync" /\ slow'.pc = "write"
      BY <1>0, <1>4, <1>14 DEF S!ReadToSync
    <2> QED
      BY <1>0, <1>1, <1>14, <2>1 DEF S!ReadToSync, S!Put
  <1>15. CASE S!WriteBack
    <2>1. (IF slow.copy = None /\ slow.op # "retain" THEN job ELSE slow.copy) \in S!Jobs \cup {None}
      BY <1>0 DEF Slows, ScoutTyped, S!TypeOK
    <2> QED
      BY <1>0, <1>1, <1>11, <1>15, <2>1, UpToDateTyped DEF S!WriteBack, S!Put
  <1>16. CASE S!Dismiss \/ S!Retry \/ S!Restore \/ S!Promote
    <2>1. job' \in S!Jobs
      <3>1. CASE S!Dismiss
        BY <1>0, <3>1 DEF S!Dismiss, S!Mutate, S!Put, S!Jobs
      <3>2. CASE S!Retry
        <4>1. S!Now \in S!Jobs /\ 0 \in 0..MaxRuns
          BY <1>0, <3>2 DEF S!Retry, S!ScoutBounds
        <4>2. job' = [S!Now EXCEPT !.status = "queued", !.run = 0, !.stale = FALSE,
                                 !.pause = "none", !.recovered = FALSE]
          BY <3>2 DEF S!Retry, S!Mutate, S!Put
        <4> QED
          BY <4>1, <4>2 DEF S!Jobs
      <3>3. CASE S!Restore
        BY <1>0, <3>3 DEF S!Restore, S!Mutate, S!Put, S!Jobs
      <3>4. CASE S!Promote
        BY <1>0, <3>4 DEF S!Promote, S!Mutate, S!Put
      <3> QED
        BY <1>16, <3>1, <3>2, <3>3, <3>4
    <2>2. UNCHANGED <<kind, record, run, coord, slow>> /\ planned' = None
      BY <1>16 DEF S!Dismiss, S!Retry, S!Restore, S!Promote, S!Mutate, S!Put
    <2> QED
      BY <1>0, <1>1, <2>1, <2>2 DEF ScoutTyped, S!TypeOK
  <1>17. ASSUME NEW r \in S!Runs, S!RunEnds(r) \/ S!RunResumes(r)
         PROVE  ScoutTyped'
    <2>1. PICK s \in S!RunStatuses, l \in BOOLEAN :
            (l => s = "running") /\ run' = [run EXCEPT ![r] = [st |-> s, live |-> l]]
      BY <1>17 DEF S!RunEnds, S!RunResumes, S!RunStatuses
    <2>2. UNCHANGED <<kind, job, record, planned, coord, slow>>
      BY <1>17 DEF S!RunEnds, S!RunResumes
    <2> QED
      BY <1>0, <1>3, <2>1, <2>2 DEF ScoutTyped, S!TypeOK
  <1>20. ASSUME NEW r \in S!Runs, S!RunDies(r) PROVE ScoutTyped'
    <2>1. run' = [run EXCEPT ![r].live = FALSE] /\ UNCHANGED <<kind, job, record, planned, coord, slow>>
      BY <1>20 DEF S!RunDies
    <2>2. /\ run' \in [S!Runs -> [st : S!RunStatuses, live : BOOLEAN]]
          /\ \A q \in S!Runs : run'[q].live => run'[q].st = "running"
      BY <2>1 DEF ScoutTyped, S!TypeOK
    <2> QED
      BY <1>0, <1>2, <2>1, <2>2 DEF ScoutTyped, S!TypeOK
  <1>18. CASE S!Elapse
    <2>1. job' \in S!Jobs
      BY <1>0, <1>18 DEF S!Elapse, ScoutTyped, S!TypeOK, S!Jobs
    <2> QED
      BY <1>0, <1>1, <1>18, <2>1 DEF S!Elapse, ScoutTyped, S!TypeOK
  <1>19. CASE S!StartDies
    <2>1. S!Rested \in Coords
      BY DEF S!Rested, Coords, S!ScoutBounds
    <2> QED
      BY <1>0, <1>1, <1>11, <1>19, <2>1 DEF S!StartDies, ScoutTyped, S!TypeOK
  <1> QED
    BY <1>5, <1>6, <1>7, <1>8, <1>9, <1>10, <1>12, <1>13, <1>14, <1>15, <1>16, <1>17, <1>18, <1>19, <1>20
    DEF S!Next, S!Progress

(* What is written to the file, when the rest is in order.                 *)
LEMMA PutSafe ==
  ASSUME planned' = None, job' # None => Sound(job)', InHand', Kept', UNCHANGED run,
         UNCHANGED astray,
         \A r \in S!Runs : Unended(r) =>
           coord'.run = r \/ r \in astray
           \/ (job' # None /\ job'.run = r /\ job'.status = "running")
  PROVE  ScoutSafe'
  BY DEF ScoutSafe, Known, Unended

(* The job and its copies stay as they are.                                *)
LEMMA RestSafe ==
  ASSUME ScoutSafe, UNCHANGED <<kind, job, record, planned, run>>, InHand', Kept',
         \A r \in S!Runs : coord.run = r \/ r \in astray => coord'.run = r \/ r \in astray'
  PROVE  ScoutSafe'
  BY DEF ScoutSafe, Known, Unended, Sound

(* What is written back: the job as it is, its copy retained, or its copy  *)
(* recovered.                                                              *)
Copied == IF slow.copy = None /\ slow.op # "retain" THEN job ELSE slow.copy
CopyOf(c) ==
  /\ \/ c = job
     \/ /\ slow.op = "retain" /\ job # None /\ job.status \in {"dismissed", "deleted"}
        /\ c = S!Retained(job)
     \/ /\ slow.op = "prepare" /\ job # None /\ c # None /\ job.run = slow.of
        /\ \/ c.status = "running" /\ c.run = slow.of /\ ~c.stale
           \/ c.status = "queued" /\ c.run = 0 /\ S!IsStale(run[slow.of].st)
  /\ c # None =>
       /\ Sound(c) /\ (coord.pc # "idle" => c.run = 0)
       /\ c.run = 0 \/ (job # None /\ c.run = job.run)

LEMMA CopyIs ==
  ASSUME S!ScoutBounds, ScoutTyped, ~S!Haunted, ScoutSafe, slow.pc = "write", job = slow.seen
  PROVE  CopyOf(Copied) /\ UpdateOf(Copied, S!UpToDate(Copied, run))
  <1> DEFINE kept == Copied
  <1>0. /\ None \notin S!Jobs /\ slow \in Slows /\ job \in S!Jobs \cup {None}
        /\ (job # None => Sound(job)) /\ InHand /\ Kept
    BY NowTyped DEF ScoutTyped, S!TypeOK, ScoutSafe
  <1>2. kept \in S!Jobs \cup {None}
    BY <1>0 DEF Slows, Copied
  <1>3. \/ kept = job
        \/ /\ slow.op = "retain" /\ job # None /\ job.status \in {"dismissed", "deleted"}
           /\ kept = S!Retained(job)
        \/ /\ slow.op = "prepare" /\ job # None /\ kept # None /\ job.run = slow.of
           /\ \/ kept.status = "running" /\ kept.run = slow.of /\ ~kept.stale
              \/ kept.status = "queued" /\ kept.run = 0 /\ S!IsStale(run[slow.of].st)
    BY <1>0 DEF Kept, Copied
  <1> HIDE DEF kept
  <1>4. kept # None =>
          /\ Sound(kept) /\ (coord.pc # "idle" => kept.run = 0)
          /\ kept.run = 0 \/ (job # None /\ kept.run = job.run)
    <2>1. CASE kept = job
      BY <1>0, <2>1 DEF InHand
    <2>2. CASE slow.op = "retain" /\ job # None /\ job.status \in {"dismissed", "deleted"}
               /\ kept = S!Retained(job)
      <3>1. kept # None => kept = [job EXCEPT !.status = "deleted"] /\ job \in S!Jobs
        BY <1>0, <2>2 DEF S!Retained
      <3>2. kept # None => kept.status = "deleted" /\ kept.run = job.run /\ kept.stale = job.stale
        BY <3>1 DEF S!Jobs
      <3>3. Sound(job) /\ coord.pc = "idle"
        BY <1>0, <2>2 DEF Kept
      <3> QED
        BY <2>2, <3>2, <3>3 DEF Sound
    <2>3. CASE /\ slow.op = "prepare" /\ job # None /\ kept # None /\ job.run = slow.of
               /\ \/ kept.status = "running" /\ kept.run = slow.of /\ ~kept.stale
                  \/ kept.status = "queued" /\ kept.run = 0 /\ S!IsStale(run[slow.of].st)
      <3>1. coord.pc = "idle"
        BY <1>0, <2>3 DEF Kept
      <3> QED
        BY <2>3, <3>1 DEF Sound
    <2> QED
      BY <1>3, <2>1, <2>2, <2>3
  <1>5. planned # None => kept = None /\ planned.run = 0
    BY <1>3 DEF ScoutSafe
  <1>6. UpdateOf(kept, S!UpToDate(kept, run))
    BY <1>2, <1>4, <1>5, UpToDateIs
  <1>7. CopyOf(kept)
    BY <1>3, <1>4 DEF CopyOf
  <1> QED
    BY <1>6, <1>7 DEF kept

(* Every step keeps a job in order, unless it mixes up copies.             *)
LEMMA ScoutSafeStays ==
  ASSUME S!ScoutBounds, ScoutTyped, ~S!Haunted, ScoutSafe, S!Next, ~mixed'
  PROVE  ScoutSafe'
  <1>0. /\ S!Now \in S!Jobs \cup {None} /\ None \notin S!Jobs /\ coord \in Coords /\ slow \in Slows
        /\ \A r \in S!Runs : r # 0
    BY NowTyped DEF ScoutTyped, S!Runs
  <1>1. /\ UpdateOf(job, S!Now) /\ (job # None => job \in S!Jobs /\ Sound(job))
        /\ coord.pc # "idle" => S!Now = None \/ S!Now.run = 0
        /\ \A r \in S!Runs : Unended(r) =>
             coord.run = r \/ r \in astray
             \/ (S!Now # None /\ S!Now.run = r /\ S!Now.status = "running")
    BY NowIs DEF ScoutSafe
  <1>2. /\ S!Now # None => Sound(S!Now)
        /\ InHand /\ Kept /\ Known
        /\ Sound(S!New) /\ S!New.run = 0 /\ S!New.status = "queued"
    BY <1>1 DEF ScoutSafe, UpdateOf, Sound, S!New
  <1>3. ASSUME UNCHANGED <<kind, run>> PROVE \A j \in S!Jobs : Sound(j) => Sound(j)'
    BY <1>3 DEF Sound
  <1>4. ASSUME UNCHANGED <<run, coord, slow>> PROVE Kept'
    BY <1>2, <1>4 DEF Kept
  <1>5. CASE S!Read
    <2>1. UNCHANGED <<kind, run, coord, slow, astray>> /\ job' = S!Now /\ planned' = None
      BY <1>5 DEF S!Read, S!Put
    <2>2. InHand'
      BY <1>1, <1>2, <2>1 DEF InHand
    <2>3. job' # None => Sound(job)'
      BY <1>2, <2>1 DEF Sound
    <2> QED
      BY <1>1, <1>4, <2>1, <2>2, <2>3, PutSafe
  <1>6. CASE S!Pick
    <2>1. /\ UNCHANGED <<kind, job, record, planned, run, slow, astray>> /\ job # None /\ job.run = 0
          /\ coord' = [coord EXCEPT !.pc = "picked"] /\ coord.pc = "idle"
          /\ slow.op \in {"none", "sync"}
      BY <1>1, <1>6 DEF S!Pick, Sound
    <2>2. coord'.pc = "picked" /\ coord'.run = 0 /\ coord.run = 0
      BY <1>0, <1>2, <2>1 DEF Coords, InHand
    <2>3. InHand' /\ Kept'
      BY <1>2, <2>1, <2>2 DEF InHand, Kept
    <2> QED
      BY <2>1, <2>2, <2>3, RestSafe
  <1>7. CASE S!MarkStarted
    <2> DEFINE j == IF S!Now = None THEN S!New ELSE S!Now
    <2>1. j \in S!Jobs /\ j.run = 0 /\ coord.pc = "picked"
      BY <1>0, <1>1, <1>2, <1>7 DEF S!MarkStarted, S!New, S!Jobs, S!ScoutBounds
    <2>2. /\ job' = [j EXCEPT !.status = "running", !.stale = FALSE, !.pause = "none",
                              !.attempts = IF @ < 2 THEN @ + 1 ELSE @]
          /\ planned' = None /\ UNCHANGED <<kind, run, slow, astray>>
          /\ coord' = [coord EXCEPT !.pc = "marked"]
      BY <1>7 DEF S!MarkStarted, S!Put
    <2> HIDE DEF j
    <2>3. job'.run = 0 /\ job'.status = "running" /\ job'.stale = FALSE
      BY <2>1, <2>2 DEF S!Jobs
    <2>4. coord'.pc = "marked" /\ coord'.run = 0 /\ coord.run = 0
      BY <1>0, <1>2, <2>1, <2>2 DEF Coords, InHand
    <2>5. InHand' /\ Kept'
      BY <1>2, <2>1, <2>2, <2>3, <2>4 DEF InHand, Kept
    <2>6. Sound(job)'
      BY <2>3 DEF Sound
    <2>7. \A r \in S!Runs : Unended(r) => r \in astray
      BY <1>0, <1>1, <2>1, <2>4
    <2> QED
      BY <2>2, <2>5, <2>6, <2>7, PutSafe
  <1>8. CASE S!Launch
    <2>1. /\ UNCHANGED <<kind, job, record, planned, slow, astray>> /\ coord.pc = "marked"
          /\ coord.run = 0 /\ (job = None \/ job.run = 0)
      BY <1>2, <1>8 DEF S!Launch, InHand
    <2>2. \A r \in S!Runs : Unended(r) => r \in astray
      BY <1>0, <1>2, <2>1 DEF Known
    <2>3. CASE \E r \in S!Free : /\ run' = [run EXCEPT ![r] = [st |-> "running", live |-> TRUE]]
                                 /\ coord' = [pc |-> "launched", run |-> r, out |-> "ok"]
      <3>1. PICK r \in S!Runs : /\ run' = [run EXCEPT ![r] = [st |-> "running", live |-> TRUE]]
                                /\ coord' = [pc |-> "launched", run |-> r, out |-> "ok"]
                                /\ run[r].st = "none"
        BY <2>3 DEF S!Free
      <3>2. \A q \in S!Runs : q # r => run'[q] = run[q]
        BY <3>1
      <3>3. InHand'
        BY <1>0, <2>1, <3>1 DEF InHand
      <3>4. Kept'
        <4>1. slow.op \notin {"prepare", "retain"}
          BY <1>2, <2>1 DEF Kept
        <4>2. slow.pc = "read" => slow.of \in S!Runs /\ (slow.of # r \/ slow.resumed)
          BY <1>2, <3>1 DEF Kept, S!IsStale, ScoutTyped
        <4> QED
          BY <1>2, <2>1, <3>2, <4>1, <4>2 DEF Kept
      <3>5. Known'
        BY <2>1, <2>2, <3>1, <3>2 DEF Known, Unended
      <3>6. job # None => Sound(job)'
        <4>1. job # None => job.run = 0 /\ Sound(job)
          BY <1>1, <2>1
        <4> QED
          BY <2>1, <4>1 DEF Sound
      <3> QED
        BY <2>1, <3>3, <3>4, <3>5, <3>6 DEF ScoutSafe
    <2>4. CASE run' = run /\ \E o \in {"error", "limit"} :
                 coord' = [pc |-> "launched", run |-> 0, out |-> o]
      <3>1. InHand' /\ Kept' /\ coord'.run = 0
        BY <1>2, <2>1, <2>4 DEF InHand, Kept
      <3> QED
        BY <2>1, <2>4, <3>1, RestSafe
    <2> QED
      BY <1>8, <2>3, <2>4 DEF S!Launch
  <1>9. CASE S!ApplyResult
    <2> DEFINE j == IF S!Now = None THEN S!New ELSE S!Now
               k == [j EXCEPT !.run = IF coord.run # 0 THEN coord.run ELSE @]
    <2>1. j \in S!Jobs /\ j.run = 0 /\ coord.pc = "launched"
      BY <1>0, <1>1, <1>2, <1>9 DEF S!ApplyResult, S!New, S!Jobs, S!ScoutBounds
    <2>2. /\ planned' = None /\ UNCHANGED <<kind, run, slow, astray>> /\ coord' = S!Rested
          /\ job' = CASE coord.out = "ok" -> [k EXCEPT !.status = "running", !.stale = FALSE]
                      [] coord.out = "error" -> [k EXCEPT !.status = "failed", !.stale = FALSE]
                      [] OTHER -> [k EXCEPT !.status = "queued", !.stale = FALSE, !.pause = "limit"]
      BY <1>9 DEF S!ApplyResult, S!Put
    <2>3. k \in S!Jobs /\ k.run = coord.run
      <3> HIDE DEF j
      <3> QED
        BY <1>0, <2>1 DEF Coords, S!Jobs
    <2> HIDE DEF k
    <2>4. /\ job' # None /\ job'.run = coord.run /\ job'.stale = FALSE
          /\ job'.status = IF coord.out = "ok" THEN "running"
                           ELSE IF coord.out = "error" THEN "failed" ELSE "queued"
      <3>1. CASE coord.out = "ok"
        <4>1. job' = [k EXCEPT !.status = "running", !.stale = FALSE]
          BY <2>2, <3>1
        <4> QED
          BY <1>0, <2>3, <3>1, <4>1 DEF S!Jobs
      <3>2. CASE coord.out = "error"
        <4>1. job' = [k EXCEPT !.status = "failed", !.stale = FALSE]
          BY <2>2, <3>2
        <4> QED
          BY <1>0, <2>3, <3>2, <4>1 DEF S!Jobs
      <3>3. CASE coord.out \notin {"ok", "error"}
        <4>1. job' = [k EXCEPT !.status = "queued", !.stale = FALSE, !.pause = "limit"]
          BY <2>2, <3>3
        <4> QED
          BY <1>0, <2>3, <3>3, <4>1 DEF S!Jobs
      <3> QED
        BY <3>1, <3>2, <3>3
    <2>5. coord.out = "ok" <=> coord.run # 0
      BY <1>2, <2>1 DEF InHand
    <2>6. InHand' /\ Kept'
      BY <1>2, <2>1, <2>2 DEF InHand, Kept, S!Rested
    <2>7. Sound(job)'
      BY <2>4, <2>5 DEF Sound
    <2>8. \A r \in S!Runs : Unended(r) => coord.run = r \/ r \in astray
      BY <1>0, <1>1, <2>1 DEF InHand
    <2> QED
      BY <1>0, <2>2, <2>4, <2>5, <2>6, <2>7, <2>8, PutSafe
  <1>10. CASE S!Cleanup
    <2>1. PICK op \in {"prepare", "cycle"}, r \in S!Runs, s \in S!RunStatuses : Cleans(op, r, s)
      BY <1>10, CleanupIs
    <2>2. /\ slow.op = "none" /\ UNCHANGED <<kind, job, record, planned, coord>>
          /\ op = "prepare" => coord.pc = "idle"
          /\ run' = [run EXCEPT ![r] = [st |-> s, live |-> s = "running"]]
          /\ astray' = IF s = "running" /\ S!GivenUp(r) THEN astray \cup {r} ELSE astray
          /\ run[r].st \in {"running", "refused"}
          /\ s \in {"running", "stale", "unbegun", "refused"}
      BY <1>10, <2>1 DEF Cleans, S!Cleaned, S!Cleanup
    <2>3. run'[r].st = s /\ \A q \in S!Runs : q # r => run'[q] = run[q]
      BY <2>2 DEF ScoutTyped
    <2>4. /\ slow'.op = op /\ slow'.pc = "read" /\ slow'.of = r /\ slow'.resumed = (s = "running")
      BY <2>1 DEF Cleans, S!NoCopy
    <2>5. InHand'
      BY <1>2, <2>2 DEF InHand
    <2>6. Kept'
      BY <2>2, <2>3, <2>4 DEF Kept, S!IsStale
    <2>7. job # None => Sound(job)'
      <3>1. job # None /\ job.run # 0 /\ job.status # "running" =>
              kind = "local" /\ run[job.run].st \in {"completed", "failed"} /\ job.run \in S!Runs
        BY <1>1 DEF Sound, S!Jobs, S!Runs
      <3>2. job # None => (job.stale => job.status = "queued") /\ (job.status = "queued" => job.run = 0)
        BY <1>1 DEF Sound
      <3> QED
        BY <2>2, <2>3, <3>1, <3>2 DEF Sound
    <2>8. Known'
      <3>1. ASSUME s = "running"
            PROVE  coord.run = r \/ r \in astray' \/ (job # None /\ job.run = r /\ job.status = "running")
        <4>1. CASE run[r].st = "running"
          BY <1>2, <2>2, <4>1 DEF Known, Unended
        <4>2. CASE run[r].st = "refused" /\ ~S!GivenUp(r)
          BY <1>0, <1>1, <4>2 DEF S!GivenUp, Sound
        <4>3. CASE S!GivenUp(r)
          BY <2>2, <3>1, <4>3
        <4> QED
          BY <2>2, <4>1, <4>2, <4>3
      <3>2. astray \subseteq astray'
        BY <2>2
      <3> QED
        BY <1>2, <2>2, <2>3, <3>1, <3>2 DEF Known, Unended
    <2> QED
      BY <1>2, <2>2, <2>5, <2>6, <2>7, <2>8 DEF ScoutSafe
  <1>11. S!NoCopy.op = "none" /\ S!NoCopy.pc = "idle"
    BY DEF S!NoCopy
  <1>12. CASE S!RecoverJob
    <2>1. PICK anew \in BOOLEAN :
            /\ anew => S!CanResume(S!Now)
            /\ run' = IF anew THEN [run EXCEPT ![S!Now.run] = [st |-> "running", live |-> TRUE]]
                      ELSE run
            /\ IF slow.op = "cycle" THEN S!Put(S!Recovered(S!Now, anew)) /\ slow' = S!NoCopy
               ELSE /\ S!Put(S!Now)
                    /\ slow' = IF S!Recovered(S!Now, anew) = S!Now THEN S!NoCopy
                               ELSE [slow EXCEPT !.pc = "write", !.seen = S!Now,
                                                 !.copy = S!Recovered(S!Now, anew)]
      BY <1>12 DEF S!RecoverJob
    <2>2. /\ slow.of \in S!Runs /\ slow.op \in {"prepare", "cycle"} /\ UNCHANGED <<kind, coord, astray>>
          /\ slow.of # 0 /\ (slow.resumed \/ S!IsStale(run[slow.of].st))
      BY <1>0, <1>2, <1>12 DEF S!RecoverJob, ScoutTyped, Kept
    <2> DEFINE R == S!Recovered(S!Now, anew)
               mine == S!Now # None /\ S!Now.run = slow.of
    <2>3. mine => coord.pc = "idle" /\ coord.run = 0
      BY <1>1, <1>2, <2>2 DEF InHand
    <2>4. anew => /\ mine /\ ~slow.resumed /\ S!IsStale(run[slow.of].st) /\ S!Now.status = "running"
                  /\ run' = [run EXCEPT ![slow.of] = [st |-> "running", live |-> TRUE]]
      <3>1. anew => mine /\ ~slow.resumed
        BY <2>1 DEF S!CanResume
      <3> QED
        BY <1>1, <2>1, <2>2, <3>1 DEF UpdateOf
    <2>5. ~anew => run' = run
      BY <2>1
    <2>6. /\ ~mine => R = S!Now
          /\ mine /\ (slow.resumed \/ anew) =>
               /\ R # None /\ R.status = "running" /\ R.run = slow.of /\ R.stale = FALSE
          /\ mine /\ ~slow.resumed /\ ~anew =>
               /\ R # None /\ R.status = "queued" /\ R.run = 0
      <3>1. CASE ~mine
        BY <2>2, <3>1 DEF S!Recovered
      <3>2. CASE mine /\ (slow.resumed \/ anew)
        <4>1. R = [S!Now EXCEPT !.status = "running", !.stale = FALSE, !.pause = "none",
                              !.recovered = TRUE] /\ S!Now \in S!Jobs
          BY <1>0, <2>2, <3>2 DEF S!Recovered
        <4> HIDE DEF R
        <4>2. R \in S!Jobs /\ R.status = "running" /\ R.run = S!Now.run /\ R.stale = FALSE
          BY <4>1 DEF S!Jobs
        <4> QED
          BY <1>0, <3>2, <4>2
      <3>3. CASE mine /\ ~slow.resumed /\ ~anew
        <4>1. R = S!Requeued(S!Now, "none") /\ S!Now \in S!Jobs
          BY <1>0, <2>2, <3>3 DEF S!Recovered
        <4> HIDE DEF R
        <4>2. R \in S!Jobs /\ R.status = "queued" /\ R.run = 0
          <5>1. R \in S!Jobs
            BY <4>1, RequeuedTyped
          <5> QED
            BY <4>1, <5>1 DEF S!Requeued, S!Jobs
        <4> QED
          BY <1>0, <3>3, <4>2
      <3> QED
        BY <3>1, <3>2, <3>3
    <2> HIDE DEF R
    <2>7. \A r \in S!Runs : Unended(r)' =>
            coord'.run = r \/ r \in astray
            \/ (S!Now # None /\ S!Now.run = r /\ S!Now.status = "running")
      <3>1. ASSUME NEW r \in S!Runs, Unended(r)', ~Unended(r) PROVE anew /\ r = slow.of
        BY <2>4, <2>5, <3>1 DEF Unended, ScoutTyped
      <3> QED
        BY <1>1, <2>2, <2>4, <3>1
    <2>8. S!Now # None =>
            /\ S!Now.stale => S!Now.status = "queued"
            /\ S!Now.status = "queued" => S!Now.run = 0
            /\ S!Now.run # 0 /\ S!Now.status # "running" =>
                 kind = "local" /\ run'[S!Now.run].st \in {"completed", "failed"}
      <3>1. CASE anew
        BY <1>2, <2>4, <3>1 DEF Sound
      <3>2. CASE ~anew
        BY <1>2, <2>5, <3>2 DEF Sound
      <3> QED
        BY <3>1, <3>2
    <2>9. CASE slow.op = "cycle"
      <3>1. job' = R /\ planned' = None /\ slow' = S!NoCopy
        BY <2>1, <2>9 DEF S!Put, R
      <3>2. InHand'
        BY <1>1, <1>2, <2>2, <2>3, <2>6, <3>1 DEF InHand
      <3>3. Kept'
        BY <1>11, <3>1 DEF Kept
      <3>4. job' # None => Sound(job)'
        <4>1. CASE ~mine
          BY <2>2, <2>6, <2>8, <3>1, <4>1 DEF Sound
        <4>2. CASE mine
          <5>1. (job'.status = "running" /\ job'.stale = FALSE)
                \/ (job'.status = "queued" /\ job'.run = 0)
            BY <2>6, <3>1, <4>2
          <5> QED
            BY <5>1 DEF Sound
        <4> QED
          BY <4>1, <4>2
      <3>5. Known'
        <4>1. ASSUME mine, ~slow.resumed, ~anew, NEW r \in S!Runs, Unended(r)' PROVE r \in astray
          BY <1>0, <2>2, <2>3, <2>5, <2>7, <4>1 DEF Unended, S!IsStale
        <4>2. ASSUME mine, slow.resumed \/ anew, NEW r \in S!Runs, Unended(r)'
              PROVE  r \in astray \/ (job'.run = r /\ job'.status = "running" /\ job' # None)
          BY <1>0, <2>2, <2>3, <2>6, <2>7, <3>1, <4>2
        <4>3. ASSUME ~mine, NEW r \in S!Runs, Unended(r)'
              PROVE  coord'.run = r \/ r \in astray
                     \/ (job' # None /\ job'.run = r /\ job'.status = "running")
          BY <2>6, <2>7, <3>1, <4>3
        <4> QED
          BY <2>2, <4>1, <4>2, <4>3 DEF Known
      <3> QED
        BY <3>1, <3>2, <3>3, <3>4, <3>5 DEF ScoutSafe
    <2>10. CASE slow.op = "prepare"
      <3>1. job' = S!Now /\ planned' = None
        BY <2>1, <2>10 DEF S!Put
      <3>2. coord.pc = "idle"
        BY <1>2, <2>10 DEF Kept
      <3>3. InHand'
        BY <1>2, <2>2, <3>2 DEF InHand
      <3>4. Kept'
        <4>1. CASE slow' = S!NoCopy
          BY <1>11, <4>1 DEF Kept
        <4>2. CASE mine /\ slow' = [slow EXCEPT !.pc = "write", !.seen = S!Now, !.copy = R]
          <5>1. /\ slow'.pc = "write" /\ slow'.seen = S!Now /\ slow'.copy = R /\ slow'.op = "prepare"
                /\ slow'.of = slow.of
            BY <1>0, <2>10, <4>2 DEF Slows
          <5> QED
            BY <2>2, <2>5, <2>6, <3>2, <4>2, <5>1 DEF Kept
        <4> QED
          BY <2>1, <2>6, <2>10, <4>1, <4>2 DEF R
      <3>5. Known'
        BY <2>2, <2>7, <3>1 DEF Known
      <3>6. job' # None => Sound(job)'
        BY <2>2, <2>8, <3>1 DEF Sound
      <3> QED
        BY <3>1, <3>3, <3>4, <3>5, <3>6 DEF ScoutSafe
    <2> QED
      BY <2>2, <2>9, <2>10
  <1>13. CASE S!ReadToRetain \/ S!ReadToSync
    <2>1. /\ UNCHANGED <<kind, run, coord, astray>> /\ job' = S!Now /\ planned' = None /\ S!Now # None
      BY <1>13 DEF S!ReadToRetain, S!ReadToSync, S!Put
    <2>2. InHand'
      BY <1>1, <1>2, <2>1 DEF InHand
    <2>3. Kept'
      <3>1. CASE S!ReadToRetain
        <4>1. S!Now.status \in {"dismissed", "deleted"} /\ coord.pc = "idle"
          BY <3>1 DEF S!ReadToRetain, S!Retained
        <4>2. /\ slow'.op = "retain" /\ slow'.pc = "write" /\ slow'.seen = S!Now
              /\ slow'.copy = S!Retained(S!Now)
          BY <3>1 DEF S!ReadToRetain, S!NoCopy
        <4> QED
          BY <2>1, <4>1, <4>2 DEF Kept, S!Retained
      <3>2. CASE S!ReadToSync
        <4>1. /\ slow'.op = "sync" /\ slow'.pc = "write" /\ slow'.seen = S!Now /\ slow'.copy = S!Now
          BY <3>2 DEF S!ReadToSync, S!NoCopy
        <4> QED
          BY <4>1 DEF Kept
      <3> QED
        BY <1>13, <3>1, <3>2
    <2>4. Sound(job)'
      BY <1>2, <2>1 DEF Sound
    <2> QED
      BY <1>1, <2>1, <2>2, <2>3, <2>4, PutSafe
  <1>14. CASE S!WriteBack
    <2> DEFINE n == S!UpToDate(Copied, run)
    <2>1. /\ UNCHANGED <<kind, run, coord, record, astray>> /\ job' = n /\ planned' = None
          /\ slow' = S!NoCopy /\ job = slow.seen /\ slow.pc = "write"
      BY <1>14 DEF S!WriteBack, S!Put, Copied
    <2>2. CopyOf(Copied) /\ UpdateOf(Copied, n)
      BY <2>1, CopyIs
    <2> HIDE DEF n
    <2>7. InHand'
      BY <1>2, <2>1, <2>2 DEF InHand, UpdateOf, CopyOf
    <2>8. Kept' 
      BY <1>11, <2>1 DEF Kept
    <2>9. job' # None => Sound(job)'
      BY <2>1, <2>2 DEF UpdateOf, Sound
    <2>10. ASSUME NEW r \in S!Runs, Unended(r), coord.run # r, r \notin astray
           PROVE  n # None /\ n.run = r /\ n.status = "running"
      <3>1. job # None /\ job.run = r /\ job.status = "running"
        BY <1>2, <2>10 DEF Known
      <3>2. Copied # None /\ Copied.run = r /\ Copied.status = "running"
        BY <2>2, <2>10, <3>1 DEF Unended, S!IsStale, CopyOf
      <3> QED
        BY <1>0, <2>2, <2>10, <3>2 DEF UpdateOf
    <2> QED
      BY <2>1, <2>7, <2>8, <2>9, <2>10, PutSafe
  <1>15. CASE S!Dismiss \/ S!Retry \/ S!Restore
    <2>1. /\ UNCHANGED <<kind, run, coord, slow, astray>> /\ planned' = None /\ S!Now \in S!Jobs
          /\ S!Now.status # "running"
      BY <1>0, <1>15 DEF S!Dismiss, S!Retry, S!Restore, S!Retryable, S!Mutate, S!Put
    <2>2. \A r \in S!Runs : Unended(r) => coord.run = r \/ r \in astray
      BY <1>1, <2>1
    <2>3. /\ job' # None /\ Sound(job') /\ (job'.run = 0 \/ job'.run = S!Now.run)
      <3>1. Sound(S!Now)
        BY <1>0, <1>2, <2>1
      <3>2. CASE S!Dismiss
        <4>1. job' = [S!Now EXCEPT !.status = "dismissed", !.stale = FALSE, !.pause = "none",
                                 !.recovered = FALSE]
          BY <3>2 DEF S!Dismiss, S!Mutate, S!Put
        <4>2. job' \in S!Jobs /\ job'.status = "dismissed" /\ job'.stale = FALSE /\ job'.run = S!Now.run
          BY <2>1, <4>1 DEF S!Jobs
        <4> QED
          BY <1>0, <2>1, <3>1, <4>2 DEF Sound
      <3>3. CASE S!Retry
        <4>1. job' = [S!Now EXCEPT !.status = "queued", !.run = 0, !.stale = FALSE,
                                 !.pause = "none", !.recovered = FALSE]
          BY <3>3 DEF S!Retry, S!Mutate, S!Put
        <4>2. job' # None /\ job'.status = "queued" /\ job'.stale = FALSE /\ job'.run = 0
          <5>1. 0 \in 0..MaxRuns
            BY DEF S!ScoutBounds
          <5>2. job' \in S!Jobs
            BY <2>1, <4>1, <5>1 DEF S!Jobs
          <5> QED
            BY <1>0, <2>1, <4>1, <5>2 DEF S!Jobs
        <4> QED
          BY <4>2 DEF Sound
      <3>4. CASE S!Restore
        <4>1. job' = [S!Now EXCEPT !.status = "dismissed"] /\ S!Now.status = "deleted"
          BY <3>4 DEF S!Restore, S!Mutate, S!Put
        <4>2. job' \in S!Jobs /\ job'.status = "dismissed" /\ job'.stale = S!Now.stale /\ job'.run = S!Now.run
          BY <2>1, <4>1 DEF S!Jobs
        <4> QED
          BY <1>0, <2>1, <3>1, <4>1, <4>2 DEF Sound
      <3> QED
        BY <1>15, <3>2, <3>3, <3>4
    <2>4. InHand'
      BY <1>0, <1>1, <1>2, <2>1, <2>3 DEF InHand
    <2>5. Sound(job)'
      BY <2>1, <2>3 DEF Sound
    <2> QED
      BY <1>4, <2>1, <2>2, <2>4, <2>5, PutSafe
  <1>16. CASE S!Promote
    <2>1. UNCHANGED <<kind, run, coord, slow, astray>> /\ planned' = None /\ job' = S!New /\ job = None
      BY <1>16 DEF S!Promote, S!Mutate, S!Put
    <2>2. InHand'
      BY <1>2, <2>1 DEF InHand
    <2>3. Sound(job)'
      BY <1>2, <2>1 DEF Sound
    <2>4. \A r \in S!Runs : Unended(r) => coord'.run = r \/ r \in astray
      BY <1>2, <2>1 DEF Known
    <2> QED
      BY <1>4, <2>1, <2>2, <2>3, <2>4, PutSafe
  <1>17. ASSUME NEW r \in S!Runs, S!RunEnds(r) \/ S!RunResumes(r) \/ S!RunDies(r)
         PROVE  ScoutSafe'
    <2>1. UNCHANGED <<kind, job, record, planned, coord, slow, astray>>
      BY <1>17 DEF S!RunEnds, S!RunResumes, S!RunDies
    <2>2. /\ run[r].st \in {"running", "paused"}
          /\ run'[r].st \in {"completed", "failed", "paused", "running"}
          /\ \A q \in S!Runs : q # r => run'[q] = run[q]
      BY <1>17 DEF S!RunEnds, S!RunResumes, S!RunDies, ScoutTyped, S!TypeOK
    <2>3. InHand'
      BY <1>2, <2>1 DEF InHand
    <2>4. Kept'
      <3>1. slow.pc = "read" => slow.of \in S!Runs
        BY DEF ScoutTyped
      <3>2. S!IsStale(run[slow.of].st) => slow.of # r
        BY <2>2 DEF S!IsStale
      <3>3. slow.of = 0 \/ slow.of \in S!Runs
        BY <1>0 DEF Slows, S!Runs, S!ScoutBounds
      <3>4. S!IsStale(run[slow.of].st) => run'[slow.of].st = run[slow.of].st
        <4>1. slow.of \in S!Runs => run'[slow.of].st = run[slow.of].st \/ slow.of = r
          BY <2>2
        <4>2. slow.of = 0 => run'[0] = run[0]
          <5>1. \E f : run' = [run EXCEPT ![r] = f]
            BY <1>17 DEF S!RunEnds, S!RunResumes, S!RunDies
          <5> QED
            BY <1>0, <5>1 DEF ScoutTyped
        <4> QED
          BY <3>2, <3>3, <4>1, <4>2
      <3> QED
        BY <1>2, <2>1, <3>1, <3>4 DEF Kept
    <2>5. job # None => Sound(job)'
      <3>1. job # None /\ job.run # 0 /\ job.status # "running" =>
              kind = "local" /\ run[job.run].st \in {"completed", "failed"} /\ job.run \in S!Runs
        BY <1>1 DEF Sound, S!Jobs, S!Runs
      <3>2. job # None => (job.stale => job.status = "queued") /\ (job.status = "queued" => job.run = 0)
        BY <1>1 DEF Sound
      <3> QED
        BY <2>1, <2>2, <3>1, <3>2 DEF Sound
    <2>6. Known'
      BY <1>2, <2>1, <2>2 DEF Known, Unended
    <2> QED
      BY <2>1, <2>3, <2>4, <2>5, <2>6 DEF ScoutSafe
  <1>18. CASE S!Elapse
    <2>1. /\ UNCHANGED <<kind, record, planned, run, coord, slow, astray>> /\ job # None
          /\ job' = [job EXCEPT !.pause = "none"] /\ job \in S!Jobs
      BY <1>1, <1>18 DEF S!Elapse
    <2>2. /\ job' \in S!Jobs /\ job'.status = job.status /\ job'.run = job.run /\ job'.stale = job.stale
      BY <2>1 DEF S!Jobs
    <2>3. Sound(job)' /\ job' # None
      BY <1>0, <1>1, <2>1, <2>2 DEF Sound
    <2>4. InHand' /\ Known'
      BY <1>2, <2>1, <2>2, <2>3 DEF InHand, Known, Unended
    <2> QED
      BY <1>2, <1>4, <2>1, <2>3, <2>4 DEF ScoutSafe
  <1>19. CASE S!StartDies
    <2>1. /\ UNCHANGED <<kind, job, record, planned, run>> /\ coord' = S!Rested /\ slow' = S!NoCopy
          /\ astray' = IF coord.run # 0 THEN astray \cup {coord.run} ELSE astray
      BY <1>19 DEF S!StartDies
    <2>2. InHand' /\ Kept'
      BY <1>11, <2>1 DEF InHand, Kept, S!Rested
    <2>3. \A r \in S!Runs : coord.run = r \/ r \in astray => coord'.run = r \/ r \in astray'
      BY <1>0, <2>1
    <2> QED
      BY <2>1, <2>2, <2>3, RestSafe
  <1> QED
    BY <1>5, <1>6, <1>7, <1>8, <1>9, <1>10, <1>12, <1>13, <1>14, <1>15, <1>16, <1>17, <1>18, <1>19
    DEF S!Next, S!Progress

(* A run, once it has begun, is never again one that has not.              *)
LEMMA BegunStays ==
  ASSUME S!ScoutBounds, ScoutTyped, S!Next, NEW r \in S!Runs, run[r].st # "none"
  PROVE  run'[r].st # "none"
  <1>1. CASE \E q \in S!Runs : S!RunEnds(q) \/ S!RunResumes(q) \/ S!RunDies(q)
    BY <1>1 DEF S!RunEnds, S!RunResumes, S!RunDies, ScoutTyped
  <1>2. CASE S!Cleanup
    <2>1. PICK op \in {"prepare", "cycle"}, q \in S!Runs, s \in S!RunStatuses : Cleans(op, q, s)
      BY <1>2, CleanupIs
    <2> QED
      BY <2>1 DEF Cleans, S!Cleaned, ScoutTyped
  <1>3. CASE S!Launch
    BY <1>3 DEF S!Launch, ScoutTyped
  <1>4. CASE S!RecoverJob
    BY <1>4 DEF S!RecoverJob, ScoutTyped
  <1>5. CASE UNCHANGED run
    BY <1>5
  <1> QED
    BY <1>1, <1>2, <1>3, <1>4, <1>5
    DEF S!Next, S!Progress, S!Read, S!Pick, S!MarkStarted, S!ApplyResult, S!ReadToRetain,
        S!ReadToSync, S!WriteBack, S!Dismiss, S!Retry, S!Restore, S!Promote, S!Mutate, S!Elapse,
        S!StartDies

(* A step gives the job no run but its own or the coordinator's.           *)
LEMMA RunOfJob ==
  ASSUME S!ScoutBounds, ScoutTyped, ~S!Haunted, ScoutSafe, S!Next, ~mixed'
  PROVE  \/ job' = None \/ job'.run = 0 \/ (job # None /\ job'.run = job.run)
         \/ S!ApplyResult /\ job'.run = coord.run
  <1>0. /\ S!Now \in S!Jobs \cup {None} /\ None \notin S!Jobs
        /\ S!Now # None => S!Now.run = 0 \/ (job # None /\ S!Now.run = job.run)
        /\ S!New.run = 0 /\ S!New \in S!Jobs /\ 0 \in 0..MaxRuns
        /\ job # None => job \in S!Jobs
    BY NowTyped, NowIs DEF UpdateOf, S!New, S!Jobs, S!ScoutBounds
  <1>1. CASE S!MarkStarted
    <2> DEFINE j == IF S!Now = None THEN S!New ELSE S!Now
    <2>1. j \in S!Jobs /\ (j.run = 0 \/ (job # None /\ j.run = job.run))
      BY <1>0
    <2>2. job' = [j EXCEPT !.status = "running", !.stale = FALSE, !.pause = "none",
                           !.attempts = IF @ < 2 THEN @ + 1 ELSE @]
      BY <1>1 DEF S!MarkStarted, S!Put
    <2> HIDE DEF j
    <2> QED
      BY <2>1, <2>2 DEF S!Jobs
  <1>2. CASE S!ApplyResult
    <2> DEFINE j == IF S!Now = None THEN S!New ELSE S!Now
               k == [j EXCEPT !.run = IF coord.run # 0 THEN coord.run ELSE @]
    <2>1. j \in S!Jobs /\ (j.run = 0 \/ (job # None /\ j.run = job.run))
      BY <1>0
    <2>2. job' \in {[k EXCEPT !.status = "running", !.stale = FALSE],
                    [k EXCEPT !.status = "failed", !.stale = FALSE],
                    [k EXCEPT !.status = "queued", !.stale = FALSE, !.pause = "limit"]}
      BY <1>2 DEF S!ApplyResult, S!Put
    <2>3. k \in S!Jobs /\ (k.run = coord.run \/ k.run = j.run)
      <3> HIDE DEF j
      <3> QED
        BY <2>1 DEF ScoutTyped, S!TypeOK, S!Jobs
    <2> HIDE DEF k
    <2>4. job'.run = k.run
      BY <2>2, <2>3 DEF S!Jobs
    <2> HIDE DEF j
    <2> QED
      BY <1>2, <2>1, <2>3, <2>4
  <1>3. CASE S!RecoverJob
    <2>1. PICK anew \in BOOLEAN : S!Put(S!Recovered(S!Now, anew)) \/ S!Put(S!Now)
      BY <1>3 DEF S!RecoverJob
    <2>2. S!Now # None => [S!Now EXCEPT !.status = "running", !.stale = FALSE, !.pause = "none",
                                        !.recovered = TRUE].run = S!Now.run
      BY <1>0 DEF S!Jobs
    <2>3. S!Now # None => S!Requeued(S!Now, "none").run = 0
      <3>1. S!Now # None => S!Requeued(S!Now, "none") \in S!Jobs
        BY <1>0, RequeuedTyped
      <3> QED
        BY <1>0, <3>1 DEF S!Requeued, S!Jobs
    <2> QED
      BY <1>0, <2>1, <2>2, <2>3 DEF S!Put, S!Recovered
  <1>4. CASE S!WriteBack
    <2>1. job = slow.seen /\ slow.pc = "write" /\ job' = S!UpToDate(Copied, run)
      BY <1>4 DEF S!WriteBack, S!Put, Copied
    <2>2. CopyOf(Copied) /\ UpdateOf(Copied, job')
      BY <2>1, CopyIs
    <2> QED
      BY <2>2 DEF UpdateOf, CopyOf
  <1>5. CASE S!Dismiss \/ S!Retry \/ S!Restore \/ S!Promote
    <2>1. CASE S!Dismiss
      BY <1>0, <2>1 DEF S!Dismiss, S!Mutate, S!Put, S!Jobs
    <2>2. CASE S!Retry
      BY <1>0, <2>2 DEF S!Retry, S!Mutate, S!Put, S!Jobs
    <2>3. CASE S!Restore
      BY <1>0, <2>3 DEF S!Restore, S!Mutate, S!Put, S!Jobs
    <2>4. CASE S!Promote
      BY <1>0, <2>4 DEF S!Promote, S!Mutate, S!Put
    <2> QED
      BY <1>5, <2>1, <2>2, <2>3, <2>4
  <1>6. CASE S!Elapse
    BY <1>0, <1>6 DEF S!Elapse, S!Jobs
  <1>7. CASE job' = job \/ job' = S!Now
    BY <1>0, <1>7
  <1> QED
    BY <1>1, <1>2, <1>3, <1>4, <1>5, <1>6, <1>7
    DEF S!Next, S!Progress, S!Read, S!Pick, S!Launch, S!Cleanup, S!ReadToRetain, S!ReadToSync,
        S!Put, S!RunEnds, S!RunResumes, S!RunDies, S!StartDies

(* The exceptions stay apart from the job.                                 *)
LEMMA ApartStays ==
  ASSUME S!ScoutBounds, ScoutTyped, ~S!Haunted, ScoutSafe, Estranged, S!Next, ~mixed'
  PROVE  Estranged'
  <1>1. /\ astray \subseteq S!Runs /\ coord.run \in 0..MaxRuns /\ coord \in Coords
        /\ \A r \in S!Runs : r # 0
    BY DEF ScoutTyped, S!TypeOK, S!Runs
  <1>2. \A r \in S!Runs : run[r].st # "none" => run'[r].st # "none"
    BY BegunStays
  <1>3. \/ job' = None \/ job'.run = 0 \/ (job # None /\ job'.run = job.run)
        \/ S!ApplyResult /\ job'.run = coord.run
    BY RunOfJob
  <1>4. CASE S!Launch
    <2>1. UNCHANGED <<job, astray>>
      BY <1>4 DEF S!Launch
    <2>2. CASE \E r \in S!Free : /\ run' = [run EXCEPT ![r] = [st |-> "running", live |-> TRUE]]
                                 /\ coord' = [pc |-> "launched", run |-> r, out |-> "ok"]
      <3>1. PICK r \in S!Free : /\ run' = [run EXCEPT ![r] = [st |-> "running", live |-> TRUE]]
                                /\ coord' = [pc |-> "launched", run |-> r, out |-> "ok"]
        BY <2>2
      <3>2. r \notin astray /\ r \in S!Runs
        BY <3>1 DEF Estranged, S!Free
      <3>3. coord'.run = r /\ run'[r].st = "running"
        BY <3>1, <3>2 DEF ScoutTyped
      <3> QED
        BY <1>1, <1>2, <2>1, <3>2, <3>3 DEF Estranged
    <2>3. CASE coord'.run = 0
      BY <1>1, <1>2, <2>1, <2>3 DEF Estranged
    <2> QED
      BY <1>4, <2>2, <2>3 DEF S!Launch
  <1>5. CASE S!Cleanup
    <2>1. PICK op \in {"prepare", "cycle"}, r \in S!Runs, s \in S!RunStatuses : Cleans(op, r, s)
      BY <1>5, CleanupIs
    <2>2. UNCHANGED <<job, coord>>
      BY <1>5 DEF S!Cleanup
    <2>3. coord.run # 0 => coord.run \in S!Runs
      BY <1>1 DEF S!Runs
    <2>4. \A q \in astray' : q \in astray \/ (q = r /\ S!GivenUp(r))
      BY <2>1 DEF Cleans
    <2>5. S!GivenUp(r) => run[r].st # "none" /\ coord.run # r /\ (job = None \/ job.run # r)
      BY DEF S!GivenUp
    <2> QED
      BY <1>1, <1>2, <2>2, <2>3, <2>4, <2>5 DEF Estranged
  <1>6. CASE S!StartDies
    <2>1. /\ UNCHANGED <<job, run>> /\ coord'.run = 0
          /\ astray' = IF coord.run # 0 THEN astray \cup {coord.run} ELSE astray
      BY <1>6 DEF S!StartDies, S!Rested
    <2>2. coord.run # 0 => job = None \/ job.run = 0
      BY DEF ScoutSafe, InHand
    <2> QED
      BY <1>1, <2>1, <2>2 DEF Estranged
  <1>7. CASE S!ApplyResult
    <2>1. UNCHANGED <<run, astray>> /\ coord'.run = 0
      BY <1>7 DEF S!ApplyResult, S!Rested
    <2> QED
      BY <1>1, <1>3, <2>1 DEF Estranged
  <1>8. CASE UNCHANGED astray /\ coord'.run = coord.run /\ ~S!ApplyResult
    <2>1. coord.run # 0 => coord.run \in S!Runs
      BY <1>1 DEF S!Runs
    <2> QED
      BY <1>1, <1>2, <1>3, <1>8, <2>1 DEF Estranged
  <1>9. S!Pick \/ S!MarkStarted => coord'.run = coord.run /\ UNCHANGED astray
    BY <1>1 DEF S!Pick, S!MarkStarted, Coords
  <1> QED
    BY <1>4, <1>5, <1>6, <1>7, <1>8, <1>9
    DEF S!Next, S!Progress, S!Read, S!RecoverJob, S!ReadToRetain, S!ReadToSync, S!WriteBack,
        S!Dismiss, S!Retry, S!Restore, S!Promote, S!Mutate, S!RunEnds, S!RunResumes, S!RunDies,
        S!Elapse

LEMMA ScoutStays ==
  ASSUME S!ScoutBounds, ScoutInv, (~mixed /\ S!Next) \/ UNCHANGED S!vars
  PROVE  ScoutInv'
  <1>1. CASE UNCHANGED S!vars
    <2>1. ScoutTyped'
      BY <1>1 DEF S!vars, ScoutInv, ScoutTyped, S!TypeOK, Coords, Slows
    <2>2. ScoutSafe /\ Estranged => ScoutSafe' /\ Estranged'
      BY <1>1 DEF S!vars, ScoutSafe, Estranged, Sound, InHand, Kept, Known, Unended
    <2> QED
      BY <1>1, <2>1, <2>2 DEF S!vars, ScoutInv, S!Haunted
  <1>2. CASE ~mixed /\ S!Next
    <2>1. ScoutTyped'
      BY <1>2, ScoutTypedStays DEF ScoutInv
    <2>2. S!Haunted' = S!Haunted
      <3>1. record' = record \/ (record # None /\ record' = [record EXCEPT !.st = "deleted"])
        BY <1>2 DEF S!Next, S!Progress, S!Read, S!Pick, S!MarkStarted, S!Launch, S!ApplyResult, S!Cleanup, S!RecoverJob,
           S!ReadToRetain, S!ReadToSync, S!WriteBack, S!Dismiss, S!Retry, S!Restore, S!Promote, S!Mutate, S!RunEnds,
           S!RunResumes, S!RunDies, S!Elapse, S!StartDies
      <3>2. record \in S!RecordKinds \cup {None} /\ record' \in S!RecordKinds \cup {None} 
            /\ None \notin S!RecordKinds
        BY <2>1 DEF ScoutInv, ScoutTyped, S!TypeOK, S!ScoutBounds
      <3>3. record # None => [record EXCEPT !.st = "deleted"] \in S!RecordKinds
                             /\ [record EXCEPT !.st = "deleted"].run = record.run
        BY <3>2 DEF S!RecordKinds
      <3> QED
        BY <3>1, <3>2, <3>3 DEF S!Haunted
    <2> QED
      BY <1>2, <2>1, <2>2, ScoutSafeStays, ApartStays DEF ScoutInv
  <1> QED
    BY <1>1, <1>2

(* A run that may go on is named by its job, is the coordinator's, or is   *)
(* an exception.                                                           *)
LEMMA ScoutIs ==
  ASSUME S!ScoutBounds, ScoutInv
  PROVE  S!TypeOK /\ S!NoStrays
  <1>1. ASSUME ~mixed, ~S!Haunted, NEW r \in S!Runs
        PROVE  /\ run[r].st \in {"running", "paused"} =>
                    coord.run = r \/ r \in astray
                    \/ (S!Now # None /\ S!Now.run = r /\ S!Now.status = "running")
               /\ r \in astray => coord.run # r /\ (S!Now = None \/ S!Now.run # r)
    <2>1. ScoutTyped /\ ScoutSafe /\ Estranged /\ r # 0
      BY <1>1 DEF ScoutInv, S!Runs
    <2>2. Unended(r) => coord.run = r \/ r \in astray
            \/ (S!Now # None /\ S!Now.run = r /\ S!Now.status = "running")
      BY <1>1, <2>1, NowIs
    <2>3. S!Now = None \/ S!Now.run = 0 \/ (job # None /\ S!Now.run = job.run)
      BY <1>1, <2>1, NowIs DEF UpdateOf
    <2> QED
      BY <2>1, <2>2, <2>3 DEF Unended, Estranged
  <1> QED
    BY <1>1 DEF ScoutInv, ScoutTyped, S!NoStrays

-----------------------------------------------------------------------------
(***************************************************************************)
(* GitHub work: GithubWork                                                 *)
(***************************************************************************)
Manifests ==
  [status : {"none", "running", "completed", "failed", "paused", "blocked"},
   phase : {"leader", "loop", "completed"}, followups : 0..MaxFollowups, cursor : 0..Comments,
   pr : BOOLEAN, pub : {"none", "blocked", "ci_waiting", "ci_green"},
   merge : {"none", "blocked", "merged"}]
Locked == {"gate", "push", "pr", "ci", "merge", "leader", "check", "harden", "followup",
           "finish", "lane"}
Hands ==
  [op : {"none", "start", "resume", "sync", "sync-last", "lane", "publish", "refresh"},
   pc : Locked \cup {"idle", "lock", "fetch", "store", "poll"}, m : Manifests, round : G!Rounds,
   news : SUBSET G!Feedback, out : {"none", "ok", "failed", "paused", "blocked"}, draft : BOOLEAN]
Hubs ==
  [head : G!Revs, ci : {"none", "pending", "green", "red"},
   pr : {"none", "draft", "ready", "merged"}, review : {"none", "approved"},
   comments : 0..Comments, merged : SUBSET G!Revs]

(* Types.                                                                  *)
GithubTyped ==
  /\ G!TypeOK /\ disk \in Manifests /\ hand \in [Procs -> Hands] /\ hub \in Hubs

(* Whoever works on the sandbox holds its lock; only what the sandbox was  *)
(* or is has a verification, and what is about to be pushed passes it.     *)
Guarded ==
  /\ \A p \in Procs : hand[p].pc \in Locked => holder = p
  /\ \A p \in Procs : hand[p].pc = "push" => tree \notin bad
  /\ bad \subseteq 1..tree /\ {hub.head} \cup hub.merged \subseteq 0..tree
  /\ G!PublishedAsVerified

(* Only a sync has feedback, and tells its leader of it.                   *)
ToldOf == told \cup omitted
PastLeader(h) == h.pc \in {"check", "harden", "followup"} \/ (h.pc = "finish" /\ h.out = "ok")
Informed ==
  \A p \in Procs :
    /\ hand[p].pc \in {"fetch", "store"} => hand[p].op = "sync"
    /\ hand[p].op \notin {"sync", "sync-last"} => hand[p].news = {}
    /\ PastLeader(hand[p]) => hand[p].news \subseteq ToldOf

(* Feedback that the leader was told of or that is stored stays so; what a *)
(* sync has in hand is so too, once it has stored it; and no copy of the   *)
(* manifest is past other feedback.                                        *)
Settled == ToldOf \cup stored
Accounted ==
  /\ \A p \in Procs : hand[p].pc # "store" => hand[p].news \subseteq Settled
  /\ \A m \in {disk} \cup {hand[p].m : p \in Procs} : \A c \in 1..m.cursor :
       c \in Settled \/ \E p \in Procs : c \in hand[p].news

(* Together; feedback is accounted for until syncs cross.                  *)
GithubInv == GithubTyped /\ Guarded /\ Informed /\ (crossed \/ Accounted)

(* What a step of a process p, which becomes q, does to the sandbox and its*)
(* lock, and to the feedback.                                              *)
Holds(p, q) ==
  /\ holder' = holder \/ (holder = p /\ holder' = None) \/ (holder = None /\ holder' = p)
  /\ q.pc \in Locked => holder' = p
  /\ UNCHANGED <<tree, bad>> \/ (holder = p /\ tree < MaxRev /\ tree' = tree + 1
                                 /\ bad' \in {bad, bad \cup {tree + 1}})
  /\ q.pc = "push" => tree \notin bad /\ UNCHANGED <<tree, bad>>
  /\ hub' \in Hubs /\ hub'.merged \subseteq hub.merged \cup {hub.head}
  /\ hub'.head = hub.head \/ (hub'.head = tree /\ tree \notin bad)
Accounts(p, q) ==
  /\ ToldOf \subseteq ToldOf' /\ Settled' \subseteq G!Feedback
  /\ crossed' \in BOOLEAN /\ (crossed => crossed')
  /\ q.pc \in {"fetch", "store"} => q.op = "sync"
  /\ q.op \notin {"sync", "sync-last"} => q.news = {}
  /\ PastLeader(q) => q.news \subseteq ToldOf'
  /\ disk' \in Manifests
  /\ ~crossed' =>
       /\ Settled \subseteq Settled' /\ hand[p].news \subseteq Settled' \cup q.news
       /\ q.pc # "store" => q.news \subseteq Settled'
       /\ \A c \in (1..q.m.cursor) \cup (1..disk'.cursor) :
            c \in (1..disk.cursor) \cup (1..hand[p].m.cursor) \cup Settled' \cup q.news

(* A process goes on with another record; what it keeps of the three, the  *)
(* whole keeps.                                                            *)
LEMMA HandMoves ==
  ASSUME G!GithubBounds, GithubInv, NEW p \in Procs, NEW q \in Hands,
         hand' = [hand EXCEPT ![p] = q], Holds(p, q), Accounts(p, q),
         session' \in {None} \cup SUBSET G!Feedback
  PROVE  GithubInv'
  <1>1. /\ GithubTyped /\ Guarded /\ Informed /\ (crossed \/ Accounted) /\ hand'[p] = q /\ None \notin Procs
        /\ \A r \in Procs : r # p => hand'[r] = hand[r]
    BY DEF GithubInv, GithubTyped, G!GithubBounds
  <1>2. tree \in Nat /\ tree' \in Nat /\ tree <= tree' /\ tree' \in G!Revs /\ bad' \subseteq 1..tree'
    <2>1. MaxRev \in Nat /\ tree \in 0..MaxRev /\ bad \subseteq 1..tree
      BY <1>1 DEF GithubTyped, G!TypeOK, Guarded, G!Revs, G!GithubBounds
    <2>2. CASE UNCHANGED <<tree, bad>>
      BY <2>1, <2>2 DEF G!Revs
    <2>3. CASE tree < MaxRev /\ tree' = tree + 1 /\ bad' \in {bad, bad \cup {tree + 1}}
      BY <2>1, <2>3 DEF G!Revs
    <2> QED
      BY <2>2, <2>3 DEF Holds
  <1>3. GithubTyped'
    <2>1. bad' \subseteq 1..MaxRev /\ holder' \in Procs \cup {None}
      BY <1>1, <1>2 DEF Holds, GithubTyped, G!TypeOK, G!Revs, G!GithubBounds
    <2>2. hand' \in [Procs -> Hands]
      BY <1>1 DEF GithubTyped
    <2>3. disk' \in Manifests /\ disk'.cursor \in 0..Comments /\ disk'.followups \in 0..MaxFollowups
      BY DEF Accounts, Manifests
    <2>4. hub' \in Hubs /\ hub'.merged \subseteq G!Revs
      BY DEF Holds, Hubs
    <2>5. (stored \cup told \cup omitted \subseteq G!Feedback /\ crossed \in BOOLEAN)'
      BY DEF Accounts, Settled, ToldOf
    <2> QED
      BY <1>2, <2>1, <2>2, <2>3, <2>4, <2>5 DEF GithubTyped, G!TypeOK
  <1>4. Guarded'
    <2>1. ASSUME NEW r \in Procs, hand'[r].pc \in Locked PROVE holder' = r
      BY <1>1, <2>1 DEF Holds, Guarded
    <2>2. ASSUME NEW r \in Procs, hand'[r].pc = "push" PROVE tree' \notin bad'
      BY <1>1, <2>2 DEF Holds, Guarded, Locked
    <2>3. {hub'.head} \cup hub'.merged \subseteq 0..tree
      BY <1>1, <1>2 DEF Holds, Guarded
    <2>4. ({hub'.head} \cup hub'.merged) \cap bad = {}
      BY <1>1 DEF Holds, Guarded, G!PublishedAsVerified
    <2>5. tree + 1 \notin 0..tree /\ 0..tree \subseteq 0..tree'
      BY <1>2
    <2>6. bad' = bad \/ bad' = bad \cup {tree + 1}
      BY DEF Holds
    <2>7. G!PublishedAsVerified'
      BY <2>3, <2>4, <2>5, <2>6 DEF G!PublishedAsVerified
    <2> QED
      BY <1>2, <2>1, <2>2, <2>3, <2>5, <2>7 DEF Guarded
  <1>5. ASSUME ~crossed' PROVE Accounted'
    <2>0. ~crossed /\ Accounted
      BY <1>1, <1>5 DEF Accounts
    <2>1. ASSUME NEW r \in Procs, hand'[r].pc # "store" PROVE hand'[r].news \subseteq Settled'
      BY <1>1, <1>5, <2>0, <2>1 DEF Accounts, Accounted
    <2>2. ASSUME NEW c, c \in Settled \/ \E r \in Procs : c \in hand[r].news
          PROVE  c \in Settled' \/ \E r \in Procs : c \in hand'[r].news
      BY <1>1, <1>5, <2>2 DEF Accounts
    <2>3. ASSUME NEW c \in (1..disk.cursor) \cup (1..hand[p].m.cursor) \cup Settled' \cup q.news
          PROVE  c \in Settled' \/ \E r \in Procs : c \in hand'[r].news
      BY <1>1, <2>0, <2>2, <2>3 DEF Accounted
    <2>4. ASSUME NEW m \in {disk'} \cup {hand'[r].m : r \in Procs}, NEW c \in 1..m.cursor
          PROVE  c \in Settled' \/ \E r \in Procs : c \in hand'[r].news
      <3>1. CASE m = disk' \/ m = q.m
        BY <1>5, <2>3, <2>4, <3>1 DEF Accounts
      <3>2. CASE \E r \in Procs : r # p /\ m = hand[r].m
        BY <1>1, <2>0, <2>2, <2>4, <3>2 DEF Accounted
      <3> QED
        BY <1>1, <2>4, <3>1, <3>2
    <2> QED
      BY <2>1, <2>4 DEF Accounted
  <1>6. Informed'
    BY <1>1 DEF Informed, Accounts, PastLeader
  <1> QED
    BY <1>3, <1>4, <1>5, <1>6 DEF GithubInv

(* A process at rest, and the manifest of a new run.                       *)
LEMMA IdleIs ==
  ASSUME G!GithubBounds
  PROVE  /\ G!Idle \in Hands /\ G!Idle.pc = "idle" /\ G!Idle.news = {} /\ G!Idle.m.cursor = 0
         /\ G!Idle.op = "none" /\ ~PastLeader(G!Idle)
         /\ G!Started \in Manifests
  <1>1. G!Started \in Manifests /\ G!Started.cursor = 0
    BY DEF G!Started, Manifests, G!GithubBounds
  <1>2. 0 \in G!Rounds
    BY DEF G!Rounds, G!GithubBounds
  <1> QED
    BY <1>1, <1>2 DEF G!Idle, Hands, Locked, PastLeader

(* The first states.                                                       *)
LEMMA GithubBegins == G!GithubBounds /\ G!Init => GithubInv
  <1> SUFFICES ASSUME G!GithubBounds, G!Init PROVE GithubInv
    OBVIOUS
  <1>1. hub \in Hubs /\ tree \in G!Revs /\ tree \in {0, 1} /\ hub.head = 0 /\ hub.merged = {}
    BY DEF G!Init, Hubs, G!Revs, G!GithubBounds
  <1>2. hand \in [Procs -> Hands] /\ \A p \in Procs :
          hand[p].pc \in {"idle", "lock"} /\ hand[p].news = {} /\ hand[p].m.cursor = 0
    <2>1. [G!Idle EXCEPT !.op = "start", !.pc = "lock"] \in Hands
      BY IdleIs DEF Hands
    <2>2. /\ [G!Idle EXCEPT !.op = "start", !.pc = "lock"].pc = "lock"
          /\ [G!Idle EXCEPT !.op = "start", !.pc = "lock"].news = {}
          /\ [G!Idle EXCEPT !.op = "start", !.pc = "lock"].m.cursor = 0
      BY IdleIs DEF Hands, G!Idle
    <2>3. hand = [p \in Procs |-> IF p = 1 THEN [G!Idle EXCEPT !.op = "start", !.pc = "lock"] ELSE G!Idle]
          \/ hand = [p \in Procs |-> G!Idle]
      BY DEF G!Init
    <2> QED
      BY <2>1, <2>2, <2>3, IdleIs
  <1>3. disk \in Manifests /\ disk.cursor = 0
    <2>1. [G!Started EXCEPT !.status = "completed", !.phase = "completed", !.followups = 1] \in Manifests
      <3>1. 1 \in 0..MaxFollowups
        BY DEF G!GithubBounds
      <3> QED
        BY <3>1, IdleIs DEF Manifests
    <2>2. [G!Started EXCEPT !.status = "completed", !.phase = "completed", !.followups = 1].cursor = 0
      BY DEF G!Started
    <2>3. G!Started.cursor = 0
      BY DEF G!Started
    <2> QED
      BY <2>1, <2>2, <2>3, IdleIs DEF G!Init
  <1>4. GithubTyped
    BY <1>1, <1>2, <1>3 DEF GithubTyped, G!TypeOK, G!Init, Manifests, Hubs
  <1>5. Guarded
    BY <1>1, <1>2 DEF Guarded, G!PublishedAsVerified, G!Init, Locked
  <1>6. Accounted
    BY <1>2, <1>3 DEF Accounted
  <1>7. Informed
    BY <1>2 DEF Informed, PastLeader
  <1> QED
    BY <1>4, <1>5, <1>6, <1>7 DEF GithubInv

(* The changes of a manifest that keep its cursor.                         *)
LEMMA ManifestIs ==
  ASSUME G!GithubBounds, NEW m \in Manifests
  PROVE  /\ G!Running(m) \in Manifests /\ G!Running(m).cursor = m.cursor
         /\ G!Running(m).followups = m.followups
         /\ \A s \in {"none", "running", "completed", "failed", "paused", "blocked"} :
              [m EXCEPT !.status = s] \in Manifests /\ [m EXCEPT !.status = s].cursor = m.cursor
         /\ [m EXCEPT !.phase = "completed"] \in Manifests
         /\ [m EXCEPT !.phase = "completed"].cursor = m.cursor
         /\ \A s \in {"blocked", "ci_waiting", "ci_green"} :
              [m EXCEPT !.pub = s] \in Manifests /\ [m EXCEPT !.pub = s].cursor = m.cursor
         /\ \A s \in {"blocked", "merged"} :
              [m EXCEPT !.merge = s] \in Manifests /\ [m EXCEPT !.merge = s].cursor = m.cursor
         /\ [m EXCEPT !.pr = TRUE] \in Manifests /\ [m EXCEPT !.pr = TRUE].cursor = m.cursor
  BY DEF G!Running, Manifests

(* The changes of a hand that keep its news.                               *)
LEMMA HandIs ==
  ASSUME G!GithubBounds, NEW h \in Hands, NEW m \in Manifests,
         NEW pc \in Locked \cup {"idle", "lock", "fetch", "store", "poll"},
         NEW o \in {"none", "ok", "failed", "paused", "blocked"}, NEW r \in G!Rounds
  PROVE  /\ [h EXCEPT !.pc = pc] \in Hands /\ [h EXCEPT !.pc = pc].pc = pc
         /\ [h EXCEPT !.pc = pc].news = h.news /\ [h EXCEPT !.pc = pc].m = h.m
         /\ [h EXCEPT !.pc = pc, !.m = m] \in Hands /\ [h EXCEPT !.pc = pc, !.m = m].pc = pc
         /\ [h EXCEPT !.pc = pc, !.m = m].news = h.news /\ [h EXCEPT !.pc = pc, !.m = m].m = m
         /\ [h EXCEPT !.pc = pc, !.out = o] \in Hands /\ [h EXCEPT !.pc = pc, !.out = o].pc = pc
         /\ [h EXCEPT !.pc = pc, !.out = o].news = h.news
         /\ [h EXCEPT !.pc = pc, !.out = o].m = h.m
         /\ [h EXCEPT !.pc = pc, !.out = o, !.m = m] \in Hands
         /\ [h EXCEPT !.pc = pc, !.out = o, !.m = m].pc = pc
         /\ [h EXCEPT !.pc = pc, !.out = o, !.m = m].news = h.news
         /\ [h EXCEPT !.pc = pc, !.out = o, !.m = m].m = m
         /\ [h EXCEPT !.pc = pc, !.round = r, !.m = m] \in Hands
         /\ [h EXCEPT !.pc = pc, !.round = r, !.m = m].pc = pc
         /\ [h EXCEPT !.pc = pc, !.round = r, !.m = m].news = h.news
         /\ [h EXCEPT !.pc = pc, !.round = r, !.m = m].m = m
  BY DEF Hands

(* What a process has in hand.                                             *)
LEMMA HandOf ==
  ASSUME G!GithubBounds, GithubInv, NEW p \in Procs
  PROVE  /\ hand[p] \in Hands /\ hand[p].m \in Manifests /\ hand[p].news \subseteq G!Feedback
         /\ ~crossed /\ hand[p].pc # "store" => hand[p].news \subseteq Settled
         /\ crossed \in BOOLEAN
         /\ hand[p].pc \in {"fetch", "store"} => hand[p].op = "sync"
         /\ hand[p].op \notin {"sync", "sync-last"} => hand[p].news = {}
         /\ PastLeader(hand[p]) => hand[p].news \subseteq ToldOf
         /\ hand[p].pc \in Locked => holder = p
         /\ disk \in Manifests /\ hub \in Hubs /\ session \in {None} \cup SUBSET G!Feedback
         /\ Settled \subseteq G!Feedback /\ p # None
  BY DEF G!GithubBounds, GithubInv, GithubTyped, G!TypeOK, Hands, Accounted, Informed, Guarded,
     Settled, ToldOf

(* Most steps neither move feedback nor GitHub.                            *)
LEMMA Keeps ==
  ASSUME G!GithubBounds, GithubInv, NEW p \in Procs, NEW q \in Hands,
         UNCHANGED <<stored, told, omitted, crossed>>, hand[p].pc # "store",
         q.op = hand[p].op \/ q.news = {}, PastLeader(q) => PastLeader(hand[p]) \/ q.news = {},
         q.news \subseteq hand[p].news, q.pc \notin {"fetch", "store"},
         q.m.cursor \in {0, hand[p].m.cursor, disk.cursor},
         disk' \in Manifests, disk'.cursor \in {disk.cursor, hand[p].m.cursor}
  PROVE  Accounts(p, q)
  <1>1. Settled' = Settled /\ ToldOf' = ToldOf
    BY DEF Settled, ToldOf
  <1>2. 1..0 = {}
    OBVIOUS
  <1> QED
    BY <1>1, <1>2, HandOf DEF Accounts

(* A process that goes on.                                                 *)
LEMMA Works ==
  ASSUME G!GithubBounds, GithubInv, NEW p \in Procs, NEW q \in Hands, hand[p].pc \in Locked,
         UNCHANGED <<holder, hub>>, G!Edit \/ UNCHANGED <<tree, bad>>, q.pc # "push"
  PROVE  Holds(p, q)
  BY HandOf DEF Holds, G!Edit

(* A process that leaves.                                                  *)
LEMMA Leaves ==
  ASSUME G!GithubBounds, GithubInv, NEW p \in Procs, UNCHANGED hub, G!Leave(p),
         UNCHANGED <<tree, bad>> \/ (hand[p].pc \in Locked /\ G!Edit)
  PROVE  Holds(p, G!Idle) /\ G!Idle \in Hands /\ hand' = [hand EXCEPT ![p] = G!Idle]
  <1>1. G!Idle.pc \notin Locked /\ G!Idle.pc # "push" /\ G!Idle \in Hands
    BY IdleIs DEF Locked
  <1> QED
    BY <1>1, HandOf DEF Holds, G!Leave, G!Step, G!Edit

(* A new command, and what the commands do before they have the lock.      *)
LEMMA OpStep ==
  ASSUME G!GithubBounds, GithubInv, NEW p \in Procs,
         G!Resume(p) \/ G!Sync(p) \/ G!SyncLast(p) \/ G!Lane(p) \/ G!Publish(p) \/ G!Refresh(p)
  PROVE  GithubInv'
  <1>1. PICK op \in {"resume", "sync", "sync-last", "lane", "publish", "refresh"},
             pc \in {"lock", "fetch", "poll"}, news \in {{}, stored} :
               /\ G!Op(p, op, pc, news) /\ (pc = "fetch" => op = "sync")
               /\ op # "sync-last" => news = {}
    BY DEF G!Resume, G!Sync, G!SyncLast, G!Lane, G!Publish, G!Refresh
  <1> DEFINE q == [G!Idle EXCEPT !.op = op, !.pc = pc, !.m = disk, !.news = news]
  <1>2. /\ hand' = [hand EXCEPT ![p] = q]
        /\ UNCHANGED <<tree, bad, art, disk, stored, session, told, omitted, hub, holder, crossed>>
    BY <1>1 DEF G!Op, G!Step
  <1>3. news \subseteq G!Feedback /\ news \subseteq Settled /\ disk \in Manifests
    BY HandOf DEF GithubInv, GithubTyped, G!TypeOK, Settled
  <1>4. q \in Hands /\ q.pc = pc /\ q.m = disk /\ q.news = news /\ q.op = op
    BY <1>3, IdleIs DEF Hands
  <1> HIDE DEF q
  <1>5. hand[p].pc # "store" /\ hand[p].news = {}
    BY <1>1, HandOf DEF G!Op
  <1>6. Holds(p, q)
    BY <1>2, <1>4, HandOf DEF Holds, Locked
  <1>7. Accounts(p, q)
    <2>1. Settled' = Settled /\ ToldOf' = ToldOf /\ ~PastLeader(q)
      BY <1>2, <1>4 DEF Settled, ToldOf, PastLeader
    <2> QED
      BY <1>1, <1>2, <1>3, <1>4, <1>5, <2>1, HandOf DEF Accounts
  <1> QED
    BY <1>2, <1>4, <1>6, <1>7, HandMoves, HandOf

(* Feedback that is fetched is in the hand until it is stored.             *)
LEMMA FetchStep ==
  ASSUME G!GithubBounds, GithubInv, NEW p \in Procs, G!Fetch(p)
  PROVE  GithubInv'
  <1> DEFINE h == hand[p]
             m == h.m
             q == [h EXCEPT !.pc = "store", !.news = G!NewFeedback(m), !.m.cursor = G!Cursor(m)]
  <1>1. /\ h \in Hands /\ m \in Manifests /\ h.pc = "fetch" /\ h.op = "sync"
        /\ ~crossed => h.news \subseteq Settled
        /\ UNCHANGED <<tree, bad, art, stored, session, told, omitted, hub, crossed>>
        /\ hub.comments \in 0..Comments /\ m.cursor \in 0..Comments /\ Comments \in Nat
    BY HandOf DEF G!Fetch, G!At, Hubs, Manifests, G!GithubBounds
  <1>2. CASE G!NewFeedback(m) = {}
    <2>1. G!Leave(p) /\ disk' = m
      BY <1>2 DEF G!Fetch
    <2>2. Accounts(p, G!Idle)
      BY <1>1, <2>1, Keeps, IdleIs
    <2> QED
      BY <1>1, <2>1, <2>2, Leaves, HandMoves, HandOf
  <1>3. CASE G!NewFeedback(m) # {}
    <2>1. hand' = [hand EXCEPT ![p] = q] /\ disk' = q.m /\ UNCHANGED holder
      BY <1>3 DEF G!Fetch, G!Save, G!Step
    <2>2. /\ G!NewFeedback(m) \subseteq G!Feedback /\ G!Cursor(m) \in 0..Comments
          /\ 1..G!Cursor(m) \subseteq (1..m.cursor) \cup G!NewFeedback(m)
      BY <1>1 DEF G!NewFeedback, G!Snapshot, G!Feedback, G!Cursor
    <2>3. /\ q.pc = "store" /\ q.news = G!NewFeedback(m) /\ q.m \in Manifests /\ q.m.cursor = G!Cursor(m)
          /\ q \in Hands /\ q.op = "sync" /\ ~PastLeader(q)
      <3>1. [m EXCEPT !.cursor = G!Cursor(m)] \in Manifests
            /\ [m EXCEPT !.cursor = G!Cursor(m)].cursor = G!Cursor(m)
        BY <1>1, <2>2 DEF Manifests
      <3>2. q = [h EXCEPT !.pc = "store", !.news = G!NewFeedback(m), !.m = [m EXCEPT !.cursor = G!Cursor(m)]]
        BY <1>1 DEF Hands
      <3> HIDE DEF q, h, m
      <3> QED
        BY <1>1, <2>2, <3>1, <3>2, HandOf DEF Hands, h, PastLeader
    <2> HIDE DEF q
    <2>4. Holds(p, q)
      BY <1>1, <2>1, <2>3, HandOf DEF Holds, Locked
    <2>5. Settled' = Settled /\ ToldOf' = ToldOf
      BY <1>1 DEF Settled, ToldOf
    <2>6. Accounts(p, q)
      BY <1>1, <2>1, <2>2, <2>3, <2>5, HandOf DEF Accounts
    <2> QED
      BY <1>1, <2>1, <2>3, <2>4, <2>6, HandMoves, HandOf
  <1> QED
    BY <1>2, <1>3

(* What is stored is settled.                                              *)
LEMMA StoreStep ==
  ASSUME G!GithubBounds, GithubInv, NEW p \in Procs, G!Store(p)
  PROVE  GithubInv'
  <1> DEFINE q == [hand[p] EXCEPT !.pc = "lock"]
  <1>1. /\ hand' = [hand EXCEPT ![p] = q] /\ stored' = hand[p].news
        /\ crossed' = (crossed \/ stored # {}) /\ hand[p].pc = "store"
        /\ UNCHANGED <<tree, bad, art, disk, session, told, omitted, hub, holder>>
    BY DEF G!Store, G!Step, G!At
  <1>2. /\ q \in Hands /\ q.pc = "lock" /\ q.news = hand[p].news /\ q.m = hand[p].m
        /\ q.op = hand[p].op /\ ~PastLeader(q)
    BY HandOf DEF Hands, PastLeader
  <1> HIDE DEF q
  <1>3. Holds(p, q)
    BY <1>1, <1>2, HandOf DEF Holds, Locked
  <1>4. /\ ~crossed' => Settled \subseteq Settled' /\ ~crossed
        /\ Settled' \subseteq G!Feedback /\ q.news \subseteq Settled' /\ ToldOf' = ToldOf
        /\ crossed' \in BOOLEAN /\ (crossed => crossed')
    BY <1>1, <1>2, HandOf DEF Settled, ToldOf
  <1>5. Accounts(p, q)
    BY <1>1, <1>2, <1>4, HandOf DEF Accounts
  <1> QED
    BY <1>1, <1>2, <1>3, <1>5, HandMoves, HandOf

(* The lock is free for one.                                               *)
LEMMA LockStep ==
  ASSUME G!GithubBounds, GithubInv, NEW p \in Procs, G!Lock(p)
  PROVE  GithubInv'
  <1>1. PICK pc \in {"gate", "lane", "check", "leader"} :
          /\ hand' = [hand EXCEPT ![p] = [hand[p] EXCEPT !.pc = pc]]
          /\ pc = "check" => hand[p].op = "resume"
    BY DEF G!Lock, G!Step
  <1> DEFINE q == [hand[p] EXCEPT !.pc = pc]
  <1>2. /\ hand[p].pc = "lock" /\ holder = None /\ holder' = p
        /\ UNCHANGED <<tree, bad, art, disk, stored, session, told, omitted, hub, crossed>>
    BY DEF G!Lock, G!At
  <1>3. /\ q \in Hands /\ q.pc = pc /\ q.news = hand[p].news /\ q.m = hand[p].m
        /\ q.op = hand[p].op
    BY HandOf DEF Hands, Locked
  <1> HIDE DEF q
  <1>4. Holds(p, q)
    BY <1>2, <1>3, HandOf DEF Holds
  <1>5. PastLeader(q) => q.news = {}
    BY <1>1, <1>3, HandOf DEF PastLeader
  <1>6. Accounts(p, q)
    BY <1>2, <1>3, <1>5, Keeps, HandOf
  <1> QED
    BY <1>1, <1>2, <1>3, <1>4, <1>6, HandMoves, HandOf DEF q

(* The leader is told of the feedback, and edits.                          *)
LEMMA LeaderSteps ==
  ASSUME G!GithubBounds, GithubInv, NEW p \in Procs, G!Leader(p) \/ G!LeaderFails(p)
  PROVE  GithubInv'
  <1>1. /\ hand[p].pc = "leader" /\ hand[p].pc \in Locked /\ G!Edit
        /\ UNCHANGED <<stored, hub, holder, crossed>>
    BY DEF G!Leader, G!LeaderFails, G!At, Locked
  <1>2. /\ G!LeaderSaved(hand[p]) \in Manifests /\ G!LeaderSaved(hand[p]).cursor = hand[p].m.cursor
    BY HandOf, ManifestIs DEF G!LeaderSaved
  <1>3. PICK q \in Hands :
          /\ hand' = [hand EXCEPT ![p] = q] /\ q.news = hand[p].news /\ q.pc \in {"check", "finish"}
          /\ q.m.cursor = hand[p].m.cursor /\ q.op = hand[p].op
          /\ PastLeader(q) => G!Leader(p)
    <2>1. CASE G!Leader(p)
      <3> DEFINE q == [hand[p] EXCEPT !.pc = "check", !.m = G!LeaderSaved(hand[p])]
      <3>1. hand' = [hand EXCEPT ![p] = q]
        BY <2>1 DEF G!Leader, G!Step
      <3>2. q \in Hands /\ q.pc = "check" /\ q.news = hand[p].news /\ q.m = G!LeaderSaved(hand[p])
            /\ q.op = hand[p].op
        BY <1>2, HandOf DEF Hands, Locked
      <3> HIDE DEF q
      <3> QED
        BY <1>2, <2>1, <3>1, <3>2
    <2>2. CASE G!LeaderFails(p)
      <3>1. PICK o \in {"failed", "paused"} :
              hand' = [hand EXCEPT ![p] = [hand[p] EXCEPT !.pc = "finish", !.out = o]]
        BY <2>2 DEF G!LeaderFails, G!Step
      <3> DEFINE q == [hand[p] EXCEPT !.pc = "finish", !.out = o]
      <3>2. q \in Hands /\ q.pc = "finish" /\ q.news = hand[p].news /\ q.m = hand[p].m
            /\ q.op = hand[p].op /\ q.out # "ok"
        BY HandOf DEF Hands, Locked
      <3> HIDE DEF q
      <3> QED
        BY <3>1, <3>2 DEF q, PastLeader
    <2> QED
      BY <2>1, <2>2
  <1>4. /\ session' \in {session, hand[p].news} /\ disk' \in {disk, G!LeaderSaved(hand[p])}
        /\ ToldOf' \in {ToldOf, ToldOf \cup hand[p].news}
        /\ G!Leader(p) => hand[p].news \subseteq ToldOf'
    <2>1. ASSUME NEW f PROVE G!Shown(f) \subseteq f
      BY DEF G!Shown
    <2>2. G!Tell(hand[p].news) => /\ session' = hand[p].news
                                  /\ ToldOf' = ToldOf \cup hand[p].news
      BY <2>1 DEF G!Tell, ToldOf
    <2> QED
      BY <2>2 DEF G!Leader, G!LeaderFails, ToldOf
  <1>5. /\ ToldOf \subseteq ToldOf' /\ Settled \subseteq Settled' /\ Settled' \subseteq G!Feedback
        /\ ~crossed => hand[p].news \subseteq Settled
    BY <1>1, <1>4, HandOf DEF Settled
  <1>6. Accounts(p, q)
    BY <1>1, <1>2, <1>3, <1>4, <1>5, HandOf DEF Accounts
  <1>7. Holds(p, q)
    BY <1>1, <1>3, Works
  <1> QED
    BY <1>3, <1>4, <1>6, <1>7, HandMoves, HandOf

(* A run ends as its rounds said.                                          *)
LEMMA FinishStep ==
  ASSUME G!GithubBounds, GithubInv, NEW p \in Procs, G!Finish(p)
  PROVE  GithubInv'
  <1> DEFINE m == hand[p].m
             s == IF hand[p].out = "ok" THEN "completed" ELSE hand[p].out
  <1>1. /\ hand[p].pc = "finish" /\ hand[p].pc \in Locked /\ G!Leave(p)
        /\ stored' \in {stored, {}} /\ crossed' \in BOOLEAN /\ (crossed => crossed')
        /\ UNCHANGED <<tree, bad, art, session, told, omitted, hub>>
    BY HandOf DEF G!Finish, G!At, Locked
  <1>2. /\ ToldOf' = ToldOf /\ Settled' \subseteq G!Feedback
        /\ ~crossed' => Settled' = Settled /\ hand[p].news \subseteq Settled
    <2>1. ToldOf' = ToldOf /\ Settled' \subseteq Settled
      BY <1>1 DEF ToldOf, Settled
    <2>2. ~crossed' => stored' = stored \/ stored = {} \/ (stored = hand[p].news /\ PastLeader(hand[p]))
      BY <1>1 DEF G!Finish, PastLeader
    <2>3. ~crossed' => stored' = stored \/ stored \subseteq ToldOf
      BY <2>2, HandOf
    <2>4. ~crossed' => Settled' = Settled
      BY <2>1, <2>3 DEF Settled
    <2> QED
      BY <1>1, <2>1, <2>4, HandOf
  <1>3. disk' \in Manifests /\ disk'.cursor = m.cursor
    <2>1. disk' = [m EXCEPT !.status = s, !.phase = IF hand[p].out = "ok" THEN "completed" ELSE @]
      BY DEF G!Finish
    <2>2. s \in {"none", "running", "completed", "failed", "paused", "blocked"}
      BY HandOf DEF Hands
    <2> HIDE DEF s
    <2> QED
      BY <2>1, <2>2, HandOf DEF Manifests
  <1>4. Accounts(p, G!Idle)
    BY <1>1, <1>2, <1>3, IdleIs, HandOf DEF Accounts
  <1> QED
    BY <1>1, <1>4, Leaves, HandMoves, HandOf

(* A process goes on with the sandbox, or leaves it.                       *)
LEMMA LoopStep ==
  ASSUME G!GithubBounds, GithubInv, NEW p \in Procs, hand[p].pc \in Locked, NEW q \in Hands,
         hand' = [hand EXCEPT ![p] = q], disk' \in {disk, q.m}, q.news = hand[p].news,
         q.m.cursor = hand[p].m.cursor, q.pc \notin {"fetch", "store", "push"},
         q.op = hand[p].op, PastLeader(hand[p]), G!Edit \/ UNCHANGED <<tree, bad>>,
         UNCHANGED <<stored, session, told, omitted, hub, holder, crossed>>
  PROVE  GithubInv'
  <1>1. disk' \in Manifests /\ disk'.cursor \in {disk.cursor, hand[p].m.cursor}
    BY HandOf DEF Hands
  <1>2. Accounts(p, q)
    BY <1>1, Keeps DEF Locked
  <1> QED
    BY <1>2, Works, HandMoves, HandOf

LEMMA LeaveStep ==
  ASSUME G!GithubBounds, GithubInv, NEW p \in Procs, hand[p].pc # "store", G!Leave(p),
         disk' \in Manifests, disk'.cursor \in {disk.cursor, hand[p].m.cursor},
         UNCHANGED <<tree, bad>> \/ (hand[p].pc \in Locked /\ G!Edit),
         UNCHANGED <<stored, session, told, omitted, hub, crossed>>
  PROVE  GithubInv'
  <1>1. Accounts(p, G!Idle)
    BY Keeps, IdleIs
  <1> QED
    BY <1>1, Leaves, HandMoves, HandOf

(* The completion rounds and the follow-ups.                               *)
LEMMA LoopSteps ==
  ASSUME G!GithubBounds, GithubInv, NEW p \in Procs,
         G!Check(p) \/ G!NoDiff(p) \/ G!Blocked(p) \/ G!Harden(p) \/ G!Followup(p) \/ G!Fail(p)
  PROVE  GithubInv'
  <1> DEFINE h == hand[p]
  <1>0. /\ h \in Hands /\ h.m \in Manifests /\ h.round \in G!Rounds
        /\ h.pc \in {"check", "harden", "followup"} /\ h.pc \in Locked /\ PastLeader(h)
        /\ UNCHANGED <<stored, session, told, omitted, hub, holder, crossed>>
    BY HandOf DEF G!Check, G!NoDiff, G!Blocked, G!Harden, G!Followup, G!Fail, G!At, Hands, Locked,
                  PastLeader
  <1>1. G!Edit \/ UNCHANGED <<tree, bad>>
    BY DEF G!Check, G!NoDiff, G!Blocked, G!Harden, G!Followup, G!Fail
  <1>2. /\ G!Running(h.m) \in Manifests /\ G!Running(h.m).cursor = h.m.cursor
        /\ G!Running(h.m).followups = h.m.followups
    BY <1>0, ManifestIs
  <1> SUFFICES \E q \in Hands :
                 /\ hand' = [hand EXCEPT ![p] = q] /\ disk' \in {disk, q.m} /\ q.news = h.news
                 /\ q.m.cursor = h.m.cursor /\ q.pc \notin {"fetch", "store", "push"}
                 /\ q.op = h.op
    BY <1>0, <1>1, LoopStep
  <1>3. CASE G!Check(p)
    <2>1. PICK fine \in BOOLEAN : G!Save(p, G!AfterRound(h, fine))
      BY <1>3 DEF G!Check
    <2> DEFINE q == G!AfterRound(h, fine)
    <2>2. CASE fine
      <3>1. q = [h EXCEPT !.pc = "followup", !.m = G!Running(h.m)]
        BY <1>0, <2>2 DEF G!AfterRound, Hands
      <3> HIDE DEF q
      <3>2. q \in Hands /\ q.pc = "followup" /\ q.news = h.news /\ q.op = h.op /\ q.m = G!Running(h.m)
        BY <1>0, <1>2, <3>1 DEF Hands, Locked
      <3> QED
        BY <1>2, <2>1, <3>2 DEF G!Save, G!Step, q
    <2>3. CASE ~fine /\ h.round = MaxRounds
      <3>1. q = [h EXCEPT !.pc = "finish", !.out = "failed", !.m = G!Running(h.m)]
        BY <1>0, <2>3 DEF G!AfterRound, Hands
      <3> HIDE DEF q
      <3>2. q \in Hands /\ q.pc = "finish" /\ q.news = h.news /\ q.op = h.op /\ q.m = G!Running(h.m)
        BY <1>0, <1>2, <3>1 DEF Hands, Locked
      <3> QED
        BY <1>2, <2>1, <3>2 DEF G!Save, G!Step, q
    <2>4. CASE ~fine /\ h.round # MaxRounds
      <3>1. q = [h EXCEPT !.pc = "harden", !.round = h.round + 1, !.m = G!Running(h.m)]
        BY <1>0, <2>4 DEF G!AfterRound, Hands
      <3>2. h.round + 1 \in G!Rounds
        BY <1>0, <2>4 DEF G!Rounds, G!GithubBounds
      <3> HIDE DEF q
      <3>3. q \in Hands /\ q.pc = "harden" /\ q.news = h.news /\ q.op = h.op /\ q.m = G!Running(h.m)
        BY <1>0, <1>2, <3>1, <3>2 DEF Hands, Locked
      <3> QED
        BY <1>2, <2>1, <3>3 DEF G!Save, G!Step, q
    <2> QED
      BY <2>2, <2>3, <2>4
  <1>4. CASE G!NoDiff(p)
    <2> DEFINE q == [h EXCEPT !.pc = "finish", !.out = "ok", !.m = [h.m EXCEPT !.phase = "completed"]]
    <2>1. hand' = [hand EXCEPT ![p] = q] /\ disk' = q.m
      <3>1. q = [h EXCEPT !.pc = "finish", !.out = "ok", !.m.phase = "completed"]
        BY <1>0 DEF Hands
      <3> QED
        BY <1>4, <3>1 DEF G!NoDiff, G!Save, G!Step
    <2>2. [h.m EXCEPT !.phase = "completed"] \in Manifests
          /\ [h.m EXCEPT !.phase = "completed"].cursor = h.m.cursor
      BY <1>0, ManifestIs
    <2>3. q \in Hands /\ q.pc = "finish" /\ q.news = h.news /\ q.op = h.op /\ q.m = [h.m EXCEPT !.phase = "completed"]
      BY <1>0, <2>2 DEF Hands, Locked
    <2> HIDE DEF q
    <2> QED
      BY <2>1, <2>2, <2>3
  <1>5. CASE G!Blocked(p)
    <2> DEFINE k == [G!Running(h.m) EXCEPT !.status = "blocked"]
               q == [h EXCEPT !.pc = "finish", !.out = "blocked", !.m = k]
    <2>1. hand' = [hand EXCEPT ![p] = q] /\ disk' = q.m
      BY <1>5 DEF G!Blocked, G!Save, G!Step
    <2>2. k \in Manifests /\ k.cursor = h.m.cursor
      BY <1>2, ManifestIs
    <2> HIDE DEF k
    <2>3. q \in Hands /\ q.pc = "finish" /\ q.news = h.news /\ q.op = h.op /\ q.m = k
      BY <1>0, <2>2 DEF Hands, Locked
    <2> HIDE DEF q
    <2> QED
      BY <2>1, <2>2, <2>3
  <1>6. CASE G!Harden(p)
    <2>1. CASE art[h.round].hardened
      <3> DEFINE q == [h EXCEPT !.pc = "check"]
      <3>1. hand' = [hand EXCEPT ![p] = q] /\ disk' = disk
        BY <1>6, <2>1 DEF G!Harden, G!Step
      <3>2. q \in Hands /\ q.pc = "check" /\ q.news = h.news /\ q.op = h.op /\ q.m = h.m
        BY <1>0 DEF Hands, Locked
      <3> HIDE DEF q
      <3> QED
        BY <3>1, <3>2
    <2>2. CASE ~art[h.round].hardened
      <3> DEFINE q == [h EXCEPT !.pc = "check", !.m = G!Running(h.m)]
      <3>1. hand' = [hand EXCEPT ![p] = q] /\ disk' = q.m
        BY <1>6, <2>2 DEF G!Harden, G!Save, G!Step
      <3>2. q \in Hands /\ q.pc = "check" /\ q.news = h.news /\ q.op = h.op /\ q.m = G!Running(h.m)
        BY <1>0, <1>2 DEF Hands, Locked
      <3> HIDE DEF q
      <3> QED
        BY <1>2, <3>1, <3>2
    <2> QED
      BY <2>1, <2>2
  <1>7. CASE G!Followup(p)
    <2> DEFINE n == h.m.followups + 1
               k == [G!Running(h.m) EXCEPT !.followups = IF n > MaxFollowups THEN MaxFollowups ELSE n]
    <2>1. k \in Manifests /\ k.cursor = h.m.cursor
      <3>1. (IF n > MaxFollowups THEN MaxFollowups ELSE n) \in 0..MaxFollowups
        BY <1>0 DEF Manifests, G!GithubBounds
      <3> QED
        BY <1>2, <3>1 DEF Manifests
    <2>2. \/ G!Save(p, [h EXCEPT !.pc = "finish", !.out = "ok", !.m = k])
          \/ G!Save(p, [h EXCEPT !.pc = "finish", !.out = "failed", !.m = k])
          \/ G!Save(p, [h EXCEPT !.pc = "check", !.round = 0, !.m = k])
      BY <1>7 DEF G!Followup
    <2> HIDE DEF k
    <2>3. ASSUME NEW o \in {"ok", "failed"}, G!Save(p, [h EXCEPT !.pc = "finish", !.out = o, !.m = k])
          PROVE  \E q \in Hands :
                 /\ hand' = [hand EXCEPT ![p] = q] /\ disk' \in {disk, q.m} /\ q.news = h.news
                 /\ q.m.cursor = h.m.cursor /\ q.pc \notin {"fetch", "store", "push"}
                 /\ q.op = h.op
      <3> DEFINE q == [h EXCEPT !.pc = "finish", !.out = o, !.m = k]
      <3>1. hand' = [hand EXCEPT ![p] = q] /\ disk' = q.m
        BY <2>3 DEF G!Save, G!Step
      <3>2. q \in Hands /\ q.pc = "finish" /\ q.news = h.news /\ q.op = h.op /\ q.m = k
        BY <1>0, <2>1 DEF Hands, Locked
      <3> HIDE DEF q
      <3> QED
        BY <2>1, <3>1, <3>2
    <2>4. ASSUME G!Save(p, [h EXCEPT !.pc = "check", !.round = 0, !.m = k])
          PROVE  \E q \in Hands :
                 /\ hand' = [hand EXCEPT ![p] = q] /\ disk' \in {disk, q.m} /\ q.news = h.news
                 /\ q.m.cursor = h.m.cursor /\ q.pc \notin {"fetch", "store", "push"}
                 /\ q.op = h.op
      <3> DEFINE q == [h EXCEPT !.pc = "check", !.round = 0, !.m = k]
      <3>1. hand' = [hand EXCEPT ![p] = q] /\ disk' = q.m
        BY <2>4 DEF G!Save, G!Step
      <3>2. 0 \in G!Rounds
        BY DEF G!Rounds, G!GithubBounds
      <3>3. q \in Hands /\ q.pc = "check" /\ q.news = h.news /\ q.op = h.op /\ q.m = k
        BY <1>0, <2>1, <3>2 DEF Hands, Locked
      <3> HIDE DEF q
      <3> QED
        BY <2>1, <3>1, <3>3
    <2> QED
      BY <2>2, <2>3, <2>4
  <1>8. CASE G!Fail(p)
    <2>1. PICK o \in {"failed", "paused"} :
            G!Save(p, [h EXCEPT !.pc = "finish", !.out = o, !.m = G!Running(h.m)])
      BY <1>8 DEF G!Fail
    <2> DEFINE q == [h EXCEPT !.pc = "finish", !.out = o, !.m = G!Running(h.m)]
    <2>2. hand' = [hand EXCEPT ![p] = q] /\ disk' = q.m
      BY <2>1 DEF G!Save, G!Step
    <2>3. q \in Hands /\ q.pc = "finish" /\ q.news = h.news /\ q.op = h.op /\ q.m = G!Running(h.m)
      BY <1>0, <1>2 DEF Hands, Locked
    <2> HIDE DEF q
    <2> QED
      BY <1>2, <2>2, <2>3
  <1> QED
    BY <1>3, <1>4, <1>5, <1>6, <1>7, <1>8

(* The gate verifies the tree that is to be published.                     *)
LEMMA GateStep ==
  ASSUME G!GithubBounds, GithubInv, NEW p \in Procs, G!Gate(p)
  PROVE  GithubInv'
  <1>1. /\ hand[p].pc = "gate" /\ hand[p].pc \in Locked
        /\ UNCHANGED <<tree, bad, art, stored, session, told, omitted, hub, crossed>>
    BY DEF G!Gate, G!At, Locked
  <1>2. CASE tree \in bad
    <2>1. disk' \in Manifests /\ disk'.cursor = hand[p].m.cursor /\ G!Leave(p)
      BY <1>2, HandOf, ManifestIs DEF G!Gate
    <2> QED
      BY <1>1, <2>1, LeaveStep
  <1>3. CASE tree \notin bad
    <2> DEFINE q == [hand[p] EXCEPT !.pc = "push"]
    <2>1. hand' = [hand EXCEPT ![p] = q] /\ UNCHANGED <<disk, holder>>
      BY <1>3 DEF G!Gate, G!Step
    <2>2. /\ q \in Hands /\ q.pc = "push" /\ q.news = hand[p].news /\ q.m = hand[p].m
          /\ q.op = hand[p].op /\ ~PastLeader(q)
      BY HandOf DEF Hands, Locked, PastLeader
    <2> HIDE DEF q
    <2>3. Holds(p, q)
      BY <1>1, <1>3, <2>1, <2>2, HandOf DEF Holds
    <2>4. Accounts(p, q)
      BY <1>1, <2>1, <2>2, Keeps, HandOf
    <2> QED
      BY <1>1, <2>1, <2>2, <2>3, <2>4, HandMoves, HandOf
  <1> QED
    BY <1>2, <1>3

(* What is pushed is what the gate saw.                                    *)
LEMMA PushSteps ==
  ASSUME G!GithubBounds, GithubInv, NEW p \in Procs, G!Push(p) \/ G!OpenPR(p) \/ G!ReadCI(p)
  PROVE  GithubInv'
  <1>1. /\ hand[p].pc \in {"push", "pr", "ci"} /\ hand[p].pc \in Locked
        /\ UNCHANGED <<tree, bad, art, disk, stored, session, told, omitted, holder, crossed>>
    BY DEF G!Push, G!OpenPR, G!ReadCI, G!At, Locked
  <1>2. PICK q \in Hands : /\ hand' = [hand EXCEPT ![p] = q] /\ q.news = hand[p].news
                           /\ q.m.cursor = hand[p].m.cursor /\ q.pc \in {"pr", "ci", "merge"}
                           /\ q.op = hand[p].op
    <2>1. CASE G!Push(p)
      <3> DEFINE q == [hand[p] EXCEPT !.pc = "pr"]
      <3>1. hand' = [hand EXCEPT ![p] = q]
        BY <2>1 DEF G!Push, G!Step
      <3>2. q \in Hands /\ q.pc = "pr" /\ q.news = hand[p].news /\ q.m = hand[p].m /\ q.op = hand[p].op
        BY HandOf DEF Hands, Locked
      <3> HIDE DEF q
      <3> QED
        BY <3>1, <3>2
    <2>2. CASE G!OpenPR(p)
      <3> DEFINE d == (IF hub.pr \in {"none", "merged"} THEN "draft" ELSE hub.pr) = "draft"
                 q == [hand[p] EXCEPT !.pc = "ci", !.draft = d, !.m = [hand[p].m EXCEPT !.pr = TRUE]]
      <3>1. hand' = [hand EXCEPT ![p] = q]
        <4>1. q = [hand[p] EXCEPT !.pc = "ci", !.draft = d, !.m.pr = TRUE]
          BY HandOf DEF Hands
        <4> QED
          BY <2>2, <4>1 DEF G!OpenPR, G!Step
      <3>2. d \in BOOLEAN
        OBVIOUS
      <3>3. [hand[p].m EXCEPT !.pr = TRUE] \in Manifests
            /\ [hand[p].m EXCEPT !.pr = TRUE].cursor = hand[p].m.cursor
        BY HandOf, ManifestIs
      <3> HIDE DEF d
      <3>4. q \in Hands /\ q.pc = "ci" /\ q.news = hand[p].news /\ q.m = [hand[p].m EXCEPT !.pr = TRUE]
            /\ q.op = hand[p].op
        BY <3>2, <3>3, HandOf DEF Hands, Locked
      <3> HIDE DEF q
      <3> QED
        BY <3>1, <3>3, <3>4
    <2>3. CASE G!ReadCI(p)
      <3>1. PICK s \in {"blocked", "ci_waiting", "ci_green"} :
              hand' = [hand EXCEPT ![p] = [hand[p] EXCEPT !.pc = "merge", !.m.pub = s]]
        BY <2>3 DEF G!ReadCI, G!Step, G!CIState
      <3> DEFINE k == [hand[p].m EXCEPT !.pub = s]
                 q == [hand[p] EXCEPT !.pc = "merge", !.m = k]
      <3>2. q = [hand[p] EXCEPT !.pc = "merge", !.m.pub = s]
        BY HandOf DEF Hands
      <3>3. k \in Manifests /\ k.cursor = hand[p].m.cursor
        BY HandOf, ManifestIs
      <3> HIDE DEF k
      <3>4. q \in Hands /\ q.pc = "merge" /\ q.news = hand[p].news /\ q.m = k /\ q.op = hand[p].op
        BY <3>3, HandOf DEF Hands, Locked
      <3> HIDE DEF q
      <3> QED
        BY <3>1, <3>2, <3>3, <3>4
    <2> QED
      BY <2>1, <2>2, <2>3
  <1>3. /\ hub' \in Hubs /\ hub'.merged = hub.merged
        /\ hub'.head = hub.head \/ (hub'.head = tree /\ tree \notin bad)
    <2>1. CASE G!Push(p)
      <3>1. tree \notin bad /\ tree \in G!Revs
        BY <2>1 DEF G!Push, G!At, GithubInv, Guarded, GithubTyped, G!TypeOK
      <3> QED
        BY <2>1, <3>1, HandOf DEF G!Push, Hubs
    <2>2. CASE G!OpenPR(p)
      BY <2>2, HandOf DEF G!OpenPR, Hubs
    <2>3. CASE G!ReadCI(p)
      BY <2>3, HandOf DEF G!ReadCI
    <2> QED
      BY <2>1, <2>2, <2>3
  <1>4. Holds(p, q)
    BY <1>1, <1>2, <1>3, HandOf DEF Holds
  <1>5. Accounts(p, q)
    <2>1. ~PastLeader(q)
      BY <1>2 DEF PastLeader
    <2> QED
      BY <1>1, <1>2, <2>1, Keeps, HandOf
  <1> QED
    BY <1>1, <1>2, <1>4, <1>5, HandMoves, HandOf

(* What is merged is the head of the pull request.                         *)
LEMMA MergeStep ==
  ASSUME G!GithubBounds, GithubInv, NEW p \in Procs, G!Merge(p)
  PROVE  GithubInv'
  <1>1. /\ hand[p].pc = "merge" /\ hand[p].pc \in Locked /\ G!Leave(p)
        /\ UNCHANGED <<tree, bad, art, stored, session, told, omitted, crossed>>
    BY DEF G!Merge, G!At, Locked
  <1>2. disk' \in Manifests /\ disk'.cursor = hand[p].m.cursor
    <2>1. PICK s \in {"blocked", "merged"} : disk' = [hand[p].m EXCEPT !.merge = s]
      BY DEF G!Merge
    <2> QED
      BY <2>1, HandOf, ManifestIs
  <1>3. /\ hub' \in Hubs /\ hub'.head = hub.head /\ hub'.merged \subseteq hub.merged \cup {hub.head}
    <2>1. hub' \in {hub, [hub EXCEPT !.pr = "merged", !.merged = hub.merged \cup {hub.head}]}
      BY DEF G!Merge
    <2>2. hub \in Hubs /\ hub.merged \cup {hub.head} \in SUBSET G!Revs
      BY HandOf DEF Hubs
    <2> DEFINE g == hub.merged \cup {hub.head}
    <2>3. /\ [hub EXCEPT !.pr = "merged", !.merged = g] \in Hubs
          /\ [hub EXCEPT !.pr = "merged", !.merged = g].head = hub.head
          /\ [hub EXCEPT !.pr = "merged", !.merged = g].merged = g
      <3> HIDE DEF g
      <3> QED
        BY <2>2 DEF Hubs, g
    <2> QED
      BY <2>1, <2>2, <2>3
  <1>4. Accounts(p, G!Idle)
    BY <1>1, <1>2, Keeps, IdleIs
  <1>5. Holds(p, G!Idle)
    BY <1>1, <1>3, IdleIs, HandOf DEF Holds, G!Leave, Locked
  <1> QED
    BY <1>1, <1>4, <1>5, IdleIs, HandMoves, HandOf DEF G!Leave, G!Step

LEMMA LeaveSteps ==
  ASSUME G!GithubBounds, GithubInv, NEW p \in Procs, G!LaneRuns(p) \/ G!PublishFails(p) \/ G!Poll(p)
  PROVE  GithubInv'
  <1>1. CASE G!LaneRuns(p)
    BY <1>1, LeaveStep, HandOf DEF G!LaneRuns, G!At, Locked
  <1>2. CASE G!PublishFails(p)
    BY <1>2, LeaveStep, HandOf DEF G!PublishFails
  <1>3. CASE G!Poll(p)
    <2>1. disk' \in Manifests /\ disk'.cursor = hand[p].m.cursor
      <3>1. G!CIState(hub.ci) \in {"blocked", "ci_waiting", "ci_green"}
        BY DEF G!CIState
      <3> QED
        BY <1>3, <3>1, HandOf, ManifestIs DEF G!Poll
    <2> QED
      BY <1>3, <2>1, LeaveStep DEF G!Poll, G!At
  <1> QED
    BY <1>1, <1>2, <1>3

(* A crash gives the lock back and loses what was in the hand.             *)
LEMMA GithubCrash ==
  ASSUME G!GithubBounds, GithubInv, NEW p \in Procs, G!Crash(p)
  PROVE  GithubInv'
  <1>1. /\ G!Leave(p) /\ crossed' = (crossed \/ hand[p].pc = "store")
        /\ UNCHANGED <<tree, bad, art, disk, stored, session, told, omitted, hub>>
    BY DEF G!Crash, G!At
  <1>2. /\ Settled' = Settled /\ ToldOf' = ToldOf /\ crossed' \in BOOLEAN
        /\ ~crossed' => hand[p].news \subseteq Settled'
    BY <1>1, HandOf DEF Settled, ToldOf
  <1>3. Accounts(p, G!Idle)
    BY <1>1, <1>2, IdleIs, HandOf DEF Accounts
  <1> QED
    BY <1>1, <1>3, Leaves, HandMoves, HandOf

(* GitHub and its users.                                                   *)
LEMMA HubSteps ==
  ASSUME G!GithubBounds, GithubInv, G!CIRuns \/ G!Comment \/ G!MarkReady \/ G!Approve
  PROVE  GithubInv'
  <1>1. /\ UNCHANGED <<tree, bad, art, disk, stored, session, told, omitted, hand, holder, crossed>>
        /\ hub' \in Hubs /\ hub'.head = hub.head /\ hub'.merged = hub.merged
    <2>1. hub \in Hubs
      BY DEF GithubInv, GithubTyped
    <2>2. CASE G!CIRuns
      BY <2>1, <2>2 DEF G!CIRuns, G!Hub, Hubs
    <2>3. CASE G!Comment
      BY <2>1, <2>3 DEF G!Comment, G!Hub, Hubs, G!GithubBounds
    <2>4. CASE G!MarkReady \/ G!Approve
      BY <2>1, <2>4 DEF G!MarkReady, G!Approve, G!Hub, Hubs
    <2> QED
      BY <2>2, <2>3, <2>4
  <1>2. GithubTyped'
    BY <1>1 DEF GithubInv, GithubTyped, G!TypeOK
  <1>3. Guarded'
    BY <1>1 DEF GithubInv, Guarded, G!PublishedAsVerified
  <1>4. Informed' /\ (Accounted => Accounted')
    BY <1>1 DEF GithubInv, Accounted, Informed, Settled, ToldOf, PastLeader
  <1> QED
    BY <1>1, <1>2, <1>3, <1>4 DEF GithubInv

(* Every step keeps the three.                                             *)
LEMMA GithubStays ==
  ASSUME G!GithubBounds, GithubInv, G!Next \/ UNCHANGED G!vars
  PROVE  GithubInv'
  <1>1. CASE UNCHANGED G!vars
    <2>1. GithubTyped'
      BY <1>1 DEF G!vars, GithubInv, GithubTyped, G!TypeOK
    <2>2. Guarded'
      BY <1>1 DEF G!vars, GithubInv, Guarded, G!PublishedAsVerified
    <2>3. Informed' /\ (Accounted => Accounted')
      BY <1>1 DEF G!vars, GithubInv, Accounted, Informed, Settled, ToldOf, PastLeader
    <2> QED
      BY <1>1, <2>1, <2>2, <2>3 DEF G!vars, GithubInv
  <1>2. CASE G!Next
    BY <1>2, OpStep, FetchStep, StoreStep, LockStep, LeaderSteps, FinishStep, LoopSteps, GateStep,
       PushSteps, MergeStep, LeaveSteps, GithubCrash, HubSteps DEF G!Next, G!Progress
  <1> QED
    BY <1>1, <1>2

LEMMA GithubIs ==
  ASSUME GithubInv
  PROVE  G!TypeOK /\ G!PublishedAsVerified /\ G!FeedbackKept
  BY DEF GithubInv, GithubTyped, Guarded, Accounted, G!FeedbackKept, Settled, ToldOf

-----------------------------------------------------------------------------
(* What nana keeps at hand: of the modules that a behaviour is not about   *)
(* nothing is said.                                                        *)
DeskInv ==
  /\ part \in {"items", "planned", "scouts"} \cup GithubParts
  /\ part = "items" => ItemInv
  /\ part = "planned" => PlannedInv
  /\ part = "scouts" => ScoutInv
  /\ part \in GithubParts => GithubInv

(* The modules begin with what they keep.                                  *)
LEMMA DeskBegins == MCInit => DeskInv
  <1> SUFFICES ASSUME MCInit PROVE DeskInv
    OBVIOUS
  <1>0. part = "items" => Init
    BY DEF MCInit, GithubParts
  <1>1. part = "planned" => P!Init
    BY DEF MCInit, GithubParts
  <1>2. part = "scouts" => S!Init
    BY DEF MCInit, GithubParts
  <1>3. part \in GithubParts => G!Init
    BY DEF MCInit, GithubParts
  <1>4. part \in {"items", "planned", "scouts"} \cup GithubParts
    BY DEF MCInit, GithubParts
  <1> QED
    BY <1>0, <1>1, <1>2, <1>3, <1>4, ItemBegins, PlannedBegins, ScoutBegins, GithubBegins,
       PlannedAssumption, ScoutAssumption, GithubAssumption DEF DeskInv

LEMMA DeskStays == DeskInv /\ [MCNext]_allVars => DeskInv'
  <1> SUFFICES ASSUME DeskInv, [MCNext]_allVars PROVE DeskInv'
    OBVIOUS
  <1>1. /\ part' = part
        /\ part = "items" => Next \/ UNCHANGED vars
        /\ part = "planned" => (~stale /\ P!Next) \/ UNCHANGED plannedVars
        /\ part = "scouts" => (~mixed /\ S!Next) \/ UNCHANGED <<vars, scoutVars>>
        /\ part \in GithubParts => G!Next \/ UNCHANGED <<vars, githubVars>>
    BY DEF MCNext, allVars, ItemStep, ScoutStep, PlannedStep, GithubParts
  <1>2. ASSUME part = "planned" PROVE PlannedInv'
    <2>1. UNCHANGED plannedVars => UNCHANGED P!vars
      BY DEF plannedVars, P!vars
    <2> QED
      BY <1>1, <1>2, <2>1, PlannedStays, PlannedAssumption DEF DeskInv
  <1>3. ASSUME part = "scouts" PROVE ScoutInv'
    <2>1. UNCHANGED <<vars, scoutVars>> => UNCHANGED S!vars
      BY DEF scoutVars, vars, S!vars
    <2> QED
      BY <1>1, <1>3, <2>1, ScoutStays, ScoutAssumption DEF DeskInv
  <1>4. ASSUME part \in GithubParts PROVE GithubInv'
    <2>1. UNCHANGED <<vars, githubVars>> => UNCHANGED G!vars
      BY DEF githubVars, vars, G!vars
    <2> QED
      BY <1>1, <1>4, <2>1, GithubStays, GithubAssumption DEF DeskInv
  <1>5. ASSUME part = "items" PROVE ItemInv'
    BY <1>1, <1>5, ItemStays DEF DeskInv
  <1>6. GithubParts' = GithubParts
    BY DEF GithubParts
  <1> QED
    BY <1>1, <1>2, <1>3, <1>4, <1>5, <1>6 DEF DeskInv

(* So they keep it always.                                                 *)
LEMMA DeskAlways == MCSpec => []DeskInv
  BY DeskBegins, DeskStays, PTL DEF MCSpec

(* An item never claims what it cannot show: a draft to review or hide, a  *)
(* review on GitHub; and the task list shows the item as it is whenever no *)
(* command is under way, unless one wrote between another's two writes or  *)
(* died between its own (syncCanonicalWorkItemTask).  Every part has its   *)
(* types.                                                                  *)
THEOREM ItemsToldAsTheyAre == MCSpec => []ItemTold
  <1>1. DeskInv => TypesOK
    <2>1. ("items" \notin GithubParts) /\ ("planned" \notin GithubParts) /\ "scouts" \notin GithubParts
      BY DEF GithubParts
    <2> QED
      BY <2>1, ItemIs, PlannedIs, ScoutIs, GithubIs, PlannedAssumption, ScoutAssumption
         DEF DeskInv, TypesOK
  <1>2. DeskInv => ItemTold
    BY <1>1, ItemIs DEF DeskInv, ItemTold
  <1> QED
    BY <1>2, DeskAlways, PTL

(* However requests with the same key overlap they get one item            *)
(* (createStartUIPlannedItem), and no item is launched more often than it  *)
(* was asked for, but for what a pause or a crash left untold, until an    *)
(* issue sync writes an old copy over a newer item.                        *)
THEOREM PlannedLaunchedOnce == MCSpec => []LaunchedOnce
  <1>1. DeskInv => LaunchedOnce
    BY PlannedIs, PlannedAssumption DEF DeskInv, LaunchedOnce
  <1> QED
    BY <1>1, DeskAlways, PTL

(* A scout's run that goes on or will be resumed is the one that its job   *)
(* names, or the coordinator has just launched it and is to name it        *)
(* (runStartWorkScoutJob, applyTaskResult), over cleanups, recoveries,     *)
(* retention and what users do, with the exceptions that the code makes: a *)
(* copy that replaced a newer job; runs that the cleanup resumed when      *)
(* their job had given them up, and launches lost with their process,      *)
(* which the job never names again; and records of older versions.         *)
THEOREM ScoutsNeverStray == MCSpec => []NoStrays
  <1>1. DeskInv => NoStrays
    BY ScoutIs, ScoutAssumption DEF DeskInv, NoStrays
  <1> QED
    BY <1>1, DeskAlways, PTL

(* What is pushed or merged passes its verification as it stands, in       *)
(* whatever order commands, lanes and resumed runs work on the sandbox     *)
(* (runPublisherVerificationGate, ensureGithubMerge).                      *)
THEOREM GithubPublishesVerified == MCSpec => []PublishedAsVerified
  <1>1. DeskInv => PublishedAsVerified
    BY GithubIs DEF DeskInv, PublishedAsVerified
  <1> QED
    BY <1>1, DeskAlways, PTL

(* Feedback that the manifest's cursor is past, and that no later sync     *)
(* fetches, was shown to a leader or counted as left out by a prompt that  *)
(* showed newer ones, is stored for --resume-last, or is in the hands of a *)
(* sync (syncGithubWork), with the exceptions that the code makes: a sync  *)
(* replaced or deleted what another had stored, or died between the cursor *)
(* and the stored feedback.                                                *)
THEOREM GithubKeepsFeedback == MCSpec => []FeedbackKept
  <1>1. DeskInv => FeedbackKept
    BY GithubIs DEF DeskInv, FeedbackKept
  <1> QED
    BY <1>1, DeskAlways, PTL

-----------------------------------------------------------------------------
(* An item keeps its word also after a write of tasks was overtaken or     *)
(* lost, which MCSpec does not follow (syncCanonicalWorkItemTask).         *)
THEOREM ItemsKeepTheirWord == Spec => [](StatusTold /\ TaskMirrors)
  <1>1. ItemInv => StatusTold /\ TaskMirrors
    BY ItemIs
  <1>2. Init => ItemInv
    BY ItemBegins
  <1>3. ItemInv /\ [Next]_vars => ItemInv'
    BY ItemStays
  <1> QED
    BY <1>1, <1>2, <1>3, PTL DEF Spec

(* What is published is verified and feedback is kept whichever commands   *)
(* meet, where MCSpec takes one kind of them at a time (syncGithubWork,    *)
(* runPublisherVerificationGate).                                          *)
THEOREM GithubCommandsMeet == G!Spec => [](G!PublishedAsVerified /\ G!FeedbackKept)
  <1>1. GithubInv => G!PublishedAsVerified /\ G!FeedbackKept
    BY GithubIs
  <1>2. G!Init => GithubInv
    BY GithubBegins, GithubAssumption
  <1>3. GithubInv /\ [G!Next]_(G!vars) => GithubInv'
    BY GithubStays, GithubAssumption
  <1> QED
    BY <1>1, <1>2, <1>3, PTL DEF G!Spec
=============================================================================
