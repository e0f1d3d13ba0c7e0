---------------------------- MODULE StartScheduler ----------------------------
(***************************************************************************)
(* The cycles of `nana start` over one repository                          *)
(* (runStartRepoCyclesSharedWorkers and startRepoCoordinator in            *)
(* internal/gocli/start_scheduler.go).  One goroutine, the coordinator,    *)
(* picks tasks and applies results; each task runs in a goroutine of its   *)
(* own.  All of them share the persisted state.  Every update takes        *)
(* startWorkStateFileMu around a read and a write of it, except the two    *)
(* that talk to GitHub in between: a refresh by the coordinator and an     *)
(* issue sync by a worker write back what they read before.                *)
(***************************************************************************)
EXTENDS StartTasks

CONSTANTS Workers, \* slots for task goroutines (--parallel)
          Faults   \* what may go wrong, a subset of FaultKinds

(* "crash": nana start is killed, and started again.  "error": a task      *)
(* fails.  "pause": an agent reports a provider rate limit.  "github": a   *)
(* refresh fails.  "edit": somebody revises an issue; "revert": and may    *)
(* undo an earlier edit, which brings back its old fingerprint.            *)
FaultKinds == {"crash", "error", "pause", "github", "edit", "revert"}

ASSUME SchedulerAssumption == Workers # {} /\ Faults \subseteq FaultKinds

VARIABLES
  state,   \* start-state.json
  version, \* GitHub: the current revision of each issue
  latest,  \* the latest work run of each issue, 0 for none
  now,     \* how many rate-limit pauses have run out
  at,      \* where the coordinator is
  copy,    \* the state a refresh read and has not written back
  pick,    \* the task the coordinator chose and has not started
  refresh, \* refreshState
  turn,    \* nextQueue
  cycle,   \* cycleID
  running, \* the coordinator's map of running tasks
  worker,  \* the task goroutine in each slot
  studied  \* history: the revisions of an issue a finished triage was given

vars == <<state, version, latest, now, at, copy, pick, refresh, turn, cycle,
          running, worker, studied>>
loop == <<at, copy, pick, refresh, turn, cycle, running>>
world == <<version, latest, now>>

Places == {"fill", "refreshing", "picked", "wait", "dropped", "idle", "dead"}

(* A task goroutine: its key, what it was given of the issue, the run it   *)
(* makes, and for an issue sync how far it is and what it read.            *)
NoJob == [key |-> <<"none">>, fp |-> 0, run |-> 0, err |-> FALSE,
          phase |-> "new", copy |-> EmptyState]

Job(s, k) ==
  CASE Kind(k) = "triage" -> [NoJob EXCEPT !.key = k, !.fp = s.issue[Subject(k)].fp]
    [] Kind(k) = "reconcile" ->
         [NoJob EXCEPT !.key = k, !.run = s.issue[Subject(k)].run,
                       !.err = s.issue[Subject(k)].err]
    [] OTHER -> [NoJob EXCEPT !.key = k]

Busy == {w \in Workers : worker[w] # NoJob}
InFlight(k) == \E w \in Workers : worker[w].key = k

Init ==
  /\ state = EmptyState
  /\ version = [i \in Issues |-> 1]
  /\ latest = [i \in Issues |-> 0]
  /\ now = 0
  /\ at = "fill"
  /\ copy = EmptyState
  /\ pick = NoJob
  /\ refresh = TRUE
  /\ turn = "service"
  /\ cycle = 1
  /\ running = {}
  /\ worker = [w \in Workers |-> NoJob]
  /\ studied = [i \in Issues |-> {}]

-----------------------------------------------------------------------------
(* The coordinator.  While a slot is free, nextTask reads the state anew,  *)
(* or refreshes it, and picks a task from one of the two queues in turn.   *)
Choose(s) ==
  LET service == ServiceQueue(s, now, cycle)
      work    == WorkQueue(s, now, running)
      serve   == service # {} /\ (turn = "service" \/ work = {})
  IN IF service \cup work = {}
       THEN /\ at' = IF Busy = {} THEN "idle" ELSE "wait"
            /\ UNCHANGED <<pick, turn>>
       ELSE /\ \E k \in IF serve THEN service ELSE work : pick' = Job(s, k)
            /\ turn' = IF serve THEN "work" ELSE "service"
            /\ at' = "picked"

Reload ==
  /\ at = "fill" /\ ~refresh
  /\ Choose(state)
  /\ UNCHANGED <<state, world, copy, refresh, cycle, running, worker, studied>>

RefreshRead ==
  /\ at = "fill" /\ refresh
  /\ copy' = Mirror(state, version)
  /\ at' = "refreshing"
  /\ UNCHANGED <<state, world, pick, refresh, turn, cycle, running, worker, studied>>

(* due: the scout roles whose schedule has come.  active: the triages      *)
(* whose agent the recovery table shows as alive at this moment.           *)
RefreshWrite(due, active) ==
  /\ at = "refreshing"
  /\ \A i \in active : InFlight(Triage(i))
  /\ LET s == SyncServiceTasks(copy, due, active, running, cycle)
     IN state' = s /\ Choose(s)
  /\ copy' = EmptyState
  /\ refresh' = FALSE
  /\ UNCHANGED <<world, cycle, running, worker, studied>>

(* The repository is dropped from the cycle; its tasks keep running.       *)
RefreshFail ==
  /\ "github" \in Faults
  /\ at = "refreshing"
  /\ at' = IF Busy = {} THEN "idle" ELSE "dropped"
  /\ copy' = EmptyState
  /\ UNCHANGED <<state, world, pick, refresh, turn, cycle, running, worker, studied>>

(* markTaskStarted and the launch.  A work run may fail before it has made *)
(* a run of its own.                                                       *)
Start ==
  /\ at = "picked"
  /\ state' = MarkStarted(state, pick.key)
  /\ \E made \in (IF "error" \in Faults THEN {FALSE} ELSE {})
                \cup {Kind(pick.key) = "work"} :
       LET w   == CHOOSE v \in Workers \ Busy : TRUE
           i   == Subject(pick.key)
           run == (latest[i] % MaxRuns) + 1
       IN /\ latest' = IF made THEN [latest EXCEPT ![i] = run] ELSE latest
          /\ worker' = [worker EXCEPT ![w] =
                          IF made THEN [pick EXCEPT !.run = run] ELSE pick]
  /\ running' = running \cup {pick.key}
  /\ pick' = NoJob
  /\ at' = IF Busy' = Workers THEN "wait" ELSE "fill"
  /\ UNCHANGED <<version, now, copy, refresh, turn, cycle, studied>>

-----------------------------------------------------------------------------
(* The issue sync: it reads the state, mirrors the issues into what it     *)
(* read, and writes all of that.                                           *)
SyncRead(w) ==
  /\ Kind(worker[w].key) = "sync" /\ worker[w].phase = "new"
  /\ worker' = [worker EXCEPT ![w].phase = "read",
                              ![w].copy = Mirror(state, version)]
  /\ UNCHANGED <<state, world, loop, studied>>

SyncWrite(w) ==
  /\ Kind(worker[w].key) = "sync" /\ worker[w].phase = "read"
  /\ state' = worker[w].copy
  /\ worker' = [worker EXCEPT ![w].phase = "done", ![w].copy = EmptyState]
  /\ UNCHANGED <<world, loop, studied>>

Failures == (Faults \cap {"error"}) \cup {f \in Faults \cap {"pause"} : now < MaxTime}

(* What a goroutine may return.                                            *)
Outcomes(job) ==
  LET kind == Kind(job.key)
      Verdicts(run) ==
        (Faults \cap {"error"}) \cup {"waiting"}
        \cup (IF run = 0 THEN {} ELSE {"blocked"})
        \cup (IF run = 0 \/ job.err THEN {} ELSE {"completed"})
  IN CASE kind = "sync" -> IF job.phase = "done" THEN {"ok"} ELSE Faults \cap {"error"}
       [] kind = "reconcile" ->
            Verdicts(IF job.run # 0 THEN job.run ELSE latest[Subject(job.key)])
       [] kind \in {"scout", "triage"} -> {"ok"} \cup Failures
       [] kind = "work" -> (IF job.run = 0 THEN {} ELSE {"ok"}) \cup Failures
       [] OTHER -> {}

Applied(job, outcome) ==
  LET k == job.key
      i == Subject(k)
  IN CASE Kind(k) = "work" -> ApplyWork(state, i, job.run, outcome, now)
       [] Kind(k) = "triage" -> ApplyTriage(state, i, outcome)
       [] Kind(k) = "reconcile" ->
            ApplyReconcile(state, i, IF job.run # 0 THEN job.run ELSE latest[i],
                           outcome, cycle)
       [] OTHER -> ApplyService(state, k, outcome, now)

(* The coordinator receives a result and applies it.                       *)
Complete(w) ==
  /\ at = "wait"
  /\ \E outcome \in Outcomes(worker[w]) :
       /\ state' = Applied(worker[w], outcome)
       /\ refresh' = (refresh \/ (outcome = "ok"
                                  /\ Kind(worker[w].key) \in {"scout", "sync"}))
       /\ studied' = IF outcome = "ok" /\ Kind(worker[w].key) = "triage"
                       THEN [studied EXCEPT ![Subject(worker[w].key)] =
                                              @ \cup {worker[w].fp}]
                       ELSE studied
  /\ running' = running \ {worker[w].key}
  /\ worker' = [worker EXCEPT ![w] = NoJob]
  /\ at' = "fill"
  /\ UNCHANGED <<world, copy, pick, turn, cycle>>

(* The process ends, and its goroutines with it.                           *)
Die(place) ==
  /\ at' = place
  /\ worker' = [w \in Workers |-> NoJob]
  /\ copy' = EmptyState
  /\ pick' = NoJob
  /\ UNCHANGED <<state, world, refresh, turn, cycle, running, studied>>

(* A result for a repository that was dropped: its coordinator is nil.     *)
Panic(w) ==
  /\ at = "dropped"
  /\ Outcomes(worker[w]) # {}
  /\ Die("dead")

Crash ==
  /\ "crash" \in Faults
  /\ at \notin {"idle", "dead"}
  /\ Die("idle")

(* The loop of `nana start`, or a new process, begins the next cycle.      *)
NextCycle ==
  /\ at \in {"idle", "dead"}
  /\ cycle < MaxCycles
  /\ cycle' = cycle + 1
  /\ at' = "fill"
  /\ refresh' = TRUE
  /\ turn' = "service"
  /\ running' = {}
  /\ UNCHANGED <<state, world, copy, pick, worker, studied>>

-----------------------------------------------------------------------------
Revisions(i) ==
  IF "revert" \in Faults THEN (1 .. MaxVersion) \ {version[i]}
                         ELSE version[i] + 1 .. MaxVersion

Edit(i) ==
  /\ "edit" \in Faults
  /\ \E v \in Revisions(i) : version' = [version EXCEPT ![i] = v]
  /\ UNCHANGED <<state, latest, now, loop, worker, studied>>

Tick ==
  /\ "pause" \in Faults
  /\ now < MaxTime
  /\ now' = now + 1
  /\ UNCHANGED <<state, version, latest, loop, worker, studied>>

Coordinate ==
  \/ Reload
  \/ RefreshRead
  \/ \E due \in SUBSET Roles, active \in SUBSET Issues : RefreshWrite(due, active)
  \/ RefreshFail
  \/ Start

Serve(w) == SyncRead(w) \/ SyncWrite(w) \/ Complete(w) \/ Panic(w)

Next ==
  \/ Coordinate
  \/ \E w \in Workers : Serve(w)
  \/ Crash
  \/ NextCycle
  \/ \E i \in Issues : Edit(i)
  \/ Tick

Spec == Init /\ [][Next]_vars

(* Go runs every goroutine that can run, and a task returns: an agent run  *)
(* ends or is cut off by its timeout.                                      *)
Fairness == WF_vars(Coordinate) /\ \A w \in Workers : WF_vars(Serve(w))

FairSpec == Spec /\ Fairness

-----------------------------------------------------------------------------
(* Types.                                                                  *)
Versions == 0 .. MaxVersion
Runs == 0 .. MaxRuns
TaskStatuses == {"none", "queued", "running", "completed", "failed"}

IsState(s) ==
  /\ s.issue \in [Issues ->
       [fp : Versions, triage : {"queued", "completed", "failed"},
        triaged : Versions, run : Runs, err : BOOLEAN, later : 0 .. MaxTime,
        status : {"queued", "in_progress", "reconciling", "completed", "blocked"}]]
  /\ DOMAIN s.task = ServiceKeys
  /\ \A k \in ServiceKeys : s.task[k] \in
       [id : BOOLEAN, status : TaskStatuses, attempts : 0 .. RetryLimit(k),
        wait : 0 .. MaxCycles, until : 0 .. MaxTime, gen : 0 .. MaxCycles,
        fp : Versions, run : Runs, deps : SUBSET ServiceKeys]

TypeOK ==
  /\ IsState(state) /\ IsState(copy)
  /\ \A w \in Workers : IsState(worker[w].copy)
  /\ at \in Places
  /\ cycle \in 1 .. MaxCycles
  /\ running \subseteq ServiceKeys \cup {Work(i) : i \in Issues}
  /\ at = "picked" <=> pick # NoJob
  /\ at = "picked" => Busy # Workers

-----------------------------------------------------------------------------
(* No issue is being implemented by two agents at a time: the state file   *)
(* may say "queued" again, after an issue sync wrote back what it had read *)
(* before the launch, while the first agent is at work.                    *)
OneImplementation ==
  \A i \in Issues, w1, w2 \in Workers :
    worker[w1].key = Work(i) /\ worker[w2].key = Work(i) => w1 = w2

(* Were the coordinator to start over now, the reconcile of an issue would  *)
(* be queued.                                                              *)
Watched(i) ==
  LET t == SyncServiceTasks(state, {}, {}, {}, cycle).task[Reconcile(i)]
  IN t.id /\ t.status = "queued"

(* An issue left in progress by a crash is never stranded: an agent works  *)
(* on it or a reconcile will look at it.  (So it is in a repository        *)
(* without scout roles: two issue syncs at a time, of which the first      *)
(* writes back an issue as queued and the second its finished reconcile,   *)
(* leave one that nobody looks at.)                                        *)
InProgressWatched ==
  \A i \in Issues :
    state.issue[i].status = "in_progress" => InFlight(Work(i)) \/ Watched(i)

(* A triage task that is closed for the revision on file has left a        *)
(* priority for it: otherwise upsertServiceTask refuses to queue it again  *)
(* and the issue never becomes eligible.  (So it is unless an edit made    *)
(* while the issue is worked on is undone: the priority is then marked     *)
(* stale, and the closed task is for the revision that came back.)         *)
TriageSettled ==
  \A i \in Issues :
    LET t == state.task[Triage(i)]
    IN t.id /\ t.status = "completed" /\ t.fp = state.issue[i].fp
         => Fresh(state.issue[i])

(* Every cycle ends: whatever fails, no task is retried forever.           *)
CycleEnds == (at \notin {"idle", "dead"}) ~> (at \in {"idle", "dead"})

(* An issue that is waiting to be reconciled has a reconcile to wait for.  *)
ReconcilingWatched ==
  \A i \in Issues : state.issue[i].status = "reconciling" => Watched(i)

(* An issue counts as triaged only for a revision that a triage was given. *)
TriagedAsRead ==
  \A i \in Issues :
    Fresh(state.issue[i]) => state.issue[i].fp \in studied[i]

(* A repository whose refresh fails does not take the process down.        *)
NeverPanics == at # "dead"
=============================================================================
