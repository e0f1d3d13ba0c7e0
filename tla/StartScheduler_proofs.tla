------------------------ MODULE StartScheduler_proofs -------------------------
(***************************************************************************)
(* Proofs about StartScheduler for every set of issues, roles and workers  *)
(* and any number of cycles.  The first part (one agent for an issue)      *)
(* assumes nothing of the state file: after a lost update it may say       *)
(* anything, and the proof rests on the coordinator's own bookkeeping.     *)
(* The second part is about what the file says: its types, triages that    *)
(* are done, and issues somebody has to come back to.                      *)
(***************************************************************************)
EXTENDS StartScheduler, TLAPS

JobFields == {"key", "fp", "run", "err", "phase", "copy"}

Shape ==
  /\ at \in Places
  /\ worker = [w \in Workers |-> worker[w]]
  /\ \A w \in Workers : DOMAIN worker[w] = JobFields
  /\ DOMAIN pick = JobFields

(* A slot is free while the coordinator looks for a task, and no goroutine *)
(* outlives its cycle.                                                     *)
Slots ==
  /\ at \in {"fill", "refreshing", "picked"} => Busy # Workers
  /\ at \in {"idle", "dead"} => Busy = {}

(* The coordinator's map has every issue an agent works on ...             *)
Known ==
  at \notin {"idle", "dead"} =>
    \A w \in Workers, i \in Issues : worker[w].key = Work(i) => Work(i) \in running

(* ... and it never picks one of those.                                    *)
PickedAnew ==
  at = "picked" => \A i \in Issues : pick.key = Work(i) => Work(i) \notin running

IInv == Shape /\ Slots /\ Known /\ PickedAnew /\ OneImplementation

-----------------------------------------------------------------------------
(* Task keys of different kinds differ.                                    *)
LEMMA ServiceNotWork ==
  ASSUME NEW k \in ServiceKeys, NEW i \in Issues
  PROVE  k # Work(i)
  BY DEF ServiceKeys, Scouts, Scout, Sync, Triage, Reconcile, Work

LEMMA NoJobNotWork ==
  ASSUME NEW i \in Issues
  PROVE  /\ NoJob.key # Work(i)
         /\ DOMAIN NoJob = JobFields
  BY DEF NoJob, JobFields, Work

(* What a task goroutine is given has the key of its task.                 *)
LEMMA JobKey ==
  ASSUME NEW s, NEW k
  PROVE  /\ Job(s, k).key = k
         /\ DOMAIN Job(s, k) = JobFields
  <1>1. CASE Kind(k) = "triage"
    BY <1>1 DEF Job, NoJob, JobFields
  <1>2. CASE Kind(k) = "reconcile"
    BY <1>2 DEF Job, NoJob, JobFields
  <1>3. CASE Kind(k) # "triage" /\ Kind(k) # "reconcile"
    BY <1>3 DEF Job, NoJob, JobFields
  <1> QED BY <1>1, <1>2, <1>3

(* What nextTask can do, whatever state it has read.                       *)
LEMMA ChooseStep ==
  ASSUME NEW s, Choose(s)
  PROVE  /\ at' \in {"idle", "wait", "picked"}
         /\ at' = "idle" => Busy = {}
         /\ at' # "picked" => pick' = pick
         /\ at' = "picked" =>
              /\ DOMAIN pick' = JobFields
              /\ \A i \in Issues : pick'.key = Work(i) => Work(i) \notin running
  <1> DEFINE service == ServiceQueue(s, now, cycle)
             work == WorkQueue(s, now, running)
  <1>1. CASE service \cup work = {}
    BY <1>1 DEF Choose
  <1>2. CASE service \cup work # {}
    <2>1. PICK k \in service \cup work : pick' = Job(s, k)
      BY <1>2 DEF Choose
    <2>2. ASSUME NEW i \in Issues, k = Work(i) PROVE Work(i) \notin running
      <3>1. k \notin service
        BY <2>2, ServiceNotWork DEF ServiceQueue
      <3>2. k \in work
        BY <2>1, <3>1
      <3> QED BY <2>2, <3>2 DEF WorkQueue
    <2>3. at' = "picked"
      BY <1>2 DEF Choose
    <2> QED BY <2>1, <2>2, <2>3, JobKey
  <1> QED BY <1>1, <1>2

-----------------------------------------------------------------------------
LEMMA Initially == Init => IInv
  <1> SUFFICES ASSUME Init PROVE IInv
    OBVIOUS
  <1>1. Shape
    BY NoJobNotWork DEF Init, Shape, Places, NoJob, JobFields
  <1>2. \A w \in Workers : worker[w] = NoJob
    BY DEF Init
  <1>3. Slots
    BY <1>2, SchedulerAssumption DEF Init, Slots, Busy
  <1>4. Known /\ PickedAnew /\ OneImplementation
    BY <1>2, NoJobNotWork DEF Init, Known, PickedAnew, OneImplementation
  <1> QED BY <1>1, <1>3, <1>4 DEF IInv

(* A step that leaves the goroutines and the map alone and goes no further *)
(* than from one place with a free slot to another.                        *)
LEMMA CoordinatorStep ==
  ASSUME IInv, UNCHANGED <<running, worker>>,
         at \notin {"idle", "dead"},
         at' \in Places \ {"dead"},
         at' \in {"fill", "refreshing", "picked"} => Busy # Workers,
         at' = "idle" => Busy = {},
         DOMAIN pick' = JobFields,
         at' = "picked" =>
           \A i \in Issues : pick'.key = Work(i) => Work(i) \notin running
  PROVE  IInv'
  <1>1. Shape'
    BY DEF IInv, Shape
  <1>2. Slots'
    BY DEF IInv, Slots, Busy
  <1>3. Known' /\ PickedAnew' /\ OneImplementation'
    BY DEF IInv, Known, PickedAnew, OneImplementation
  <1> QED BY <1>1, <1>2, <1>3 DEF IInv

(* The end of the process.                                                 *)
LEMMA DieStep ==
  ASSUME IInv, NEW place \in {"idle", "dead"}, Die(place)
  PROVE  IInv'
  <1>1. \A w \in Workers : worker'[w] = NoJob
    BY DEF Die
  <1>2. Shape'
    BY NoJobNotWork DEF Die, Shape, Places, NoJob, JobFields
  <1>3. Slots'
    BY <1>1 DEF Slots, Busy, Die
  <1>4. Known' /\ PickedAnew' /\ OneImplementation'
    BY <1>1, NoJobNotWork DEF Die, Known, PickedAnew, OneImplementation
  <1> QED BY <1>2, <1>3, <1>4 DEF IInv

(* A goroutine that goes on keeps its key.                                 *)
LEMMA WorkerStep ==
  ASSUME IInv, UNCHANGED loop, NEW v \in Workers, NEW r,
         worker' = [worker EXCEPT ![v] = r],
         r.key = worker[v].key, DOMAIN r = JobFields,
         worker[v] # NoJob, r # NoJob
  PROVE  IInv'
  <1>1. \A w \in Workers : worker'[w].key = worker[w].key
    BY DEF IInv, Shape
  <1>2. Shape'
    BY DEF IInv, Shape, loop
  <1>3. Busy' = Busy
    BY DEF IInv, Shape, Busy
  <1>4. Slots'
    BY <1>3 DEF IInv, Slots, loop
  <1>5. Known' /\ PickedAnew' /\ OneImplementation'
    BY <1>1 DEF IInv, Known, PickedAnew, OneImplementation, loop
  <1> QED BY <1>2, <1>4, <1>5 DEF IInv

LEMMA StartStep ==
  ASSUME IInv, Start
  PROVE  IInv'
  <1> DEFINE w == CHOOSE v \in Workers \ Busy : TRUE
  <1>1. w \in Workers \ Busy
    <2>1. at = "picked"
      BY DEF Start
    <2>2. Workers \ Busy # {}
      BY <2>1 DEF IInv, Slots, Busy
    <2> QED BY <2>2
  <1>2. PICK r : /\ worker' = [worker EXCEPT ![w] = r]
                 /\ r.key = pick.key
                 /\ DOMAIN r = JobFields
    <2>1. PICK made \in {TRUE, FALSE} :
            worker' = [worker EXCEPT ![w] =
              IF made THEN [pick EXCEPT !.run = (latest[Subject(pick.key)] % MaxRuns) + 1]
                      ELSE pick]
      BY DEF Start
    <2>2. DOMAIN pick = JobFields
      BY DEF IInv, Shape
    <2>3. CASE made
      <3> DEFINE r0 == [pick EXCEPT !.run = (latest[Subject(pick.key)] % MaxRuns) + 1]
      <3>1. r0.key = pick.key /\ DOMAIN r0 = JobFields
        BY <2>2 DEF JobFields
      <3>2. worker' = [worker EXCEPT ![w] = r0]
        BY <2>1, <2>3
      <3> HIDE DEF r0
      <3> QED BY <3>1, <3>2
    <2>4. CASE ~made
      BY <2>1, <2>2, <2>4
    <2> QED BY <2>1, <2>3, <2>4
  <1> HIDE DEF w
  <1>3. worker'[w] = r /\ \A v \in Workers \ {w} : worker'[v] = worker[v]
    BY <1>1, <1>2 DEF IInv, Shape
  <1>4. worker[w] = NoJob
    BY <1>1 DEF Busy
  <1>5. Shape'
    BY <1>1, <1>2, NoJobNotWork DEF IInv, Shape, Start, Places, NoJob, JobFields
  <1>6. Slots'
    BY DEF Start, Slots
  <1>7. at = "picked" /\ at' \notin {"idle", "dead", "picked"}
    BY DEF Start
  <1>8. running' = running \cup {pick.key}
    BY DEF Start
  <1>9. Known'
    BY <1>1, <1>2, <1>3, <1>7, <1>8 DEF IInv, Known
  <1>10. PickedAnew'
    BY <1>7 DEF PickedAnew
  <1>11. OneImplementation'
    <2> SUFFICES ASSUME NEW i \in Issues, NEW w1 \in Workers, NEW w2 \in Workers,
                        worker'[w1].key = Work(i), worker'[w2].key = Work(i)
                 PROVE  w1 = w2
      BY DEF OneImplementation
    <2>1. CASE w1 # w /\ w2 # w
      BY <1>3, <2>1 DEF IInv, OneImplementation
    <2>2. ASSUME NEW v \in Workers \ {w}, pick.key = Work(i) PROVE worker'[v].key # Work(i)
      BY <1>3, <1>7, <2>2 DEF IInv, Known, PickedAnew
    <2>3. CASE w1 = w \/ w2 = w
      BY <1>2, <1>3, <2>2, <2>3
    <2> QED BY <2>1, <2>3
  <1> QED BY <1>5, <1>6, <1>9, <1>10, <1>11 DEF IInv

LEMMA CompleteStep ==
  ASSUME IInv, NEW w \in Workers, Complete(w)
  PROVE  IInv'
  <1>1. /\ worker'[w] = NoJob
        /\ \A v \in Workers \ {w} : worker'[v] = worker[v]
    BY DEF Complete, IInv, Shape
  <1>2. Shape'
    BY NoJobNotWork DEF Complete, IInv, Shape, Places, NoJob, JobFields
  <1>3. Slots'
    BY <1>1 DEF Complete, Slots, Busy
  <1>4. running' = running \ {worker[w].key} /\ at = "wait" /\ at' = "fill"
    BY DEF Complete
  <1>5. Known'
    <2> SUFFICES ASSUME NEW v \in Workers, NEW i \in Issues, worker'[v].key = Work(i)
                 PROVE  Work(i) \in running'
      BY DEF Known
    <2>1. v # w
      BY <1>1, NoJobNotWork
    <2>2. worker[v].key = Work(i) /\ worker[w].key # Work(i)
      BY <1>1, <2>1 DEF IInv, OneImplementation
    <2> QED BY <1>4, <2>2 DEF IInv, Known
  <1>6. PickedAnew'
    BY <1>4 DEF PickedAnew
  <1>7. OneImplementation'
    BY <1>1, NoJobNotWork DEF IInv, OneImplementation
  <1> QED BY <1>2, <1>3, <1>5, <1>6, <1>7 DEF IInv

LEMMA NextCycleStep ==
  ASSUME IInv, NextCycle
  PROVE  IInv'
  <1>1. \A w \in Workers : worker'[w] = NoJob
    BY DEF NextCycle, IInv, Slots, Busy
  <1>2. Shape'
    BY DEF NextCycle, IInv, Shape, Places
  <1>3. Slots'
    BY <1>1, SchedulerAssumption DEF NextCycle, Slots, Busy
  <1>4. Known' /\ PickedAnew' /\ OneImplementation'
    BY <1>1, NoJobNotWork DEF NextCycle, Known, PickedAnew, OneImplementation
  <1> QED BY <1>2, <1>3, <1>4 DEF IInv

-----------------------------------------------------------------------------
LEMMA Inductive == IInv /\ [Next]_vars => IInv'
  <1> SUFFICES ASSUME IInv, [Next]_vars PROVE IInv'
    OBVIOUS
  <1>p. DOMAIN pick = JobFields
    BY DEF IInv, Shape
  <1>1. CASE Reload
    <2>1. Choose(state) /\ at = "fill" /\ UNCHANGED <<running, worker>>
      BY <1>1 DEF Reload
    <2> QED BY <1>p, <2>1, ChooseStep, CoordinatorStep DEF IInv, Slots, Places
  <1>2. CASE RefreshRead
    BY <1>2, <1>p, CoordinatorStep DEF RefreshRead, IInv, Slots, Places
  <1>3. ASSUME NEW due \in SUBSET Roles, NEW active \in SUBSET Issues,
               RefreshWrite(due, active)
        PROVE  IInv'
    <2>1. PICK s : Choose(s)
      BY <1>3 DEF RefreshWrite
    <2>2. at = "refreshing" /\ UNCHANGED <<running, worker>>
      BY <1>3 DEF RefreshWrite
    <2> QED BY <1>p, <2>1, <2>2, ChooseStep, CoordinatorStep DEF IInv, Slots, Places
  <1>4. CASE RefreshFail
    BY <1>4, <1>p, CoordinatorStep DEF RefreshFail, Places
  <1>5. CASE Start
    BY <1>5, StartStep
  <1>6. ASSUME NEW w \in Workers, SyncRead(w) PROVE IInv'
    <2> DEFINE r == [worker[w] EXCEPT !.phase = "read", !.copy = Mirror(state, version)]
    <2>1. worker[w] # NoJob /\ r.key = worker[w].key /\ r.phase = "read" /\ DOMAIN r = JobFields
      BY <1>6 DEF SyncRead, IInv, Shape, JobFields, NoJob, Kind
    <2>2. worker' = [worker EXCEPT ![w] = r] /\ UNCHANGED loop
      BY <1>6 DEF SyncRead
    <2>3. NoJob.phase = "new"
      BY DEF NoJob
    <2> HIDE DEF r
    <2> QED BY <2>1, <2>2, <2>3, WorkerStep
  <1>7. ASSUME NEW w \in Workers, SyncWrite(w) PROVE IInv'
    <2> DEFINE r == [worker[w] EXCEPT !.phase = "done", !.copy = EmptyState]
    <2>1. worker[w] # NoJob /\ r.key = worker[w].key /\ r.phase = "done" /\ DOMAIN r = JobFields
      BY <1>7 DEF SyncWrite, IInv, Shape, JobFields, NoJob, Kind
    <2>2. worker' = [worker EXCEPT ![w] = r] /\ UNCHANGED loop
      BY <1>7 DEF SyncWrite
    <2>3. NoJob.phase = "new"
      BY DEF NoJob
    <2> HIDE DEF r
    <2> QED BY <2>1, <2>2, <2>3, WorkerStep
  <1>8. ASSUME NEW w \in Workers, Complete(w) PROVE IInv'
    BY <1>8, CompleteStep
  <1>9. ASSUME NEW w \in Workers, Panic(w) PROVE IInv'
    BY <1>9, DieStep DEF Panic
  <1>10. CASE Crash
    BY <1>10, DieStep DEF Crash
  <1>11. CASE NextCycle
    BY <1>11, NextCycleStep
  <1>12. ASSUME UNCHANGED <<loop, worker>> PROVE IInv'
    <2>1. Shape' /\ Slots'
      BY <1>12 DEF IInv, Shape, Slots, Busy, loop
    <2>2. Known' /\ PickedAnew' /\ OneImplementation'
      BY <1>12 DEF IInv, Known, PickedAnew, OneImplementation, loop
    <2> QED BY <2>1, <2>2 DEF IInv
  <1>13. ASSUME NEW i \in Issues, Edit(i) PROVE IInv'
    BY <1>12, <1>13 DEF Edit
  <1>14. CASE Tick
    BY <1>12, <1>14 DEF Tick
  <1>15. CASE UNCHANGED vars
    BY <1>12, <1>15 DEF vars, loop
  <1> QED BY <1>1, <1>2, <1>3, <1>4, <1>5, <1>6, <1>7, <1>8, <1>9, <1>10, <1>11,
             <1>13, <1>14, <1>15 DEF Next, Coordinate, Serve

(* No two agents implement one issue at a time, whatever the state file    *)
(* says: startRepoCoordinator.running is what keeps them apart.            *)
THEOREM OneAgentPerIssue == Spec => []OneImplementation
  <1>1. IInv => OneImplementation
    BY DEF IInv
  <1> QED BY <1>1, Initially, Inductive, PTL DEF Spec

(* The coordinator starts a task only while a slot is free, and no task    *)
(* goroutine is left when a cycle has ended or the process has.            *)
THEOREM SlotsRespected == Spec => []Slots
  <1>1. IInv => Slots
    BY DEF IInv
  <1> QED BY <1>1, Initially, Inductive, PTL DEF Spec

-----------------------------------------------------------------------------
(* Types.                                                                  *)
IssueRec ==
  [fp : Versions, triage : {"queued", "completed", "failed"},
   triaged : Versions, run : Runs, err : BOOLEAN, later : 0 .. MaxTime,
   status : {"queued", "in_progress", "reconciling", "completed", "blocked"}]

TaskRec(k) ==
  [id : BOOLEAN, status : TaskStatuses, attempts : 0 .. RetryLimit(k),
   wait : 0 .. MaxCycles, until : 0 .. MaxTime, gen : 0 .. MaxCycles,
   fp : Versions, run : Runs, deps : SUBSET ServiceKeys]

Typed(s) ==
  /\ s = [issue |-> s.issue, task |-> s.task]
  /\ s.issue \in [Issues -> IssueRec]
  /\ s.task = [k \in ServiceKeys |-> s.task[k]]
  /\ \A k \in ServiceKeys : s.task[k] \in TaskRec(k)

AllKeys == ServiceKeys \cup {Work(i) : i \in Issues}

TypedJob(job) ==
  /\ job.key \in AllKeys \cup {NoJob.key}
  /\ job.fp \in Versions
  /\ job.run \in Runs
  /\ job.err \in BOOLEAN
  /\ Typed(job.copy)

TypeInv ==
  /\ Typed(state) /\ Typed(copy)
  /\ TypedJob(pick) /\ \A w \in Workers : TypedJob(worker[w])
  /\ version \in [Issues -> Versions \ {0}]
  /\ latest \in [Issues -> Runs]
  /\ now \in 0 .. MaxTime
  /\ cycle \in 1 .. MaxCycles
  /\ running \subseteq AllKeys
  /\ at = "picked" <=> pick # NoJob
  /\ at = "picked" => pick.key \in AllKeys
  /\ pick.phase = "new" /\ pick.copy = EmptyState

LEMMA Bounds ==
  /\ 0 \in Versions /\ 1 \in Versions \ {0}
  /\ 0 \in Runs /\ 0 \in 0 .. MaxTime /\ 0 \in 0 .. MaxCycles
  /\ \A k : RetryLimit(k) \in {2, 3}
  BY TasksAssumption DEF Versions, Runs, RetryLimit

LEMMA Keys ==
  /\ \A i \in Issues : /\ Triage(i) \in ServiceKeys /\ Kind(Triage(i)) = "triage"
                       /\ Subject(Triage(i)) = i
                       /\ Reconcile(i) \in ServiceKeys /\ Kind(Reconcile(i)) = "reconcile"
                       /\ Subject(Reconcile(i)) = i
                       /\ Work(i) \notin ServiceKeys /\ Kind(Work(i)) = "work"
                       /\ Subject(Work(i)) = i
  /\ \A k \in ServiceKeys :
       /\ Kind(k) \in {"scout", "sync", "triage", "reconcile"}
       /\ Kind(k) = "scout" => Subject(k) \in Roles /\ k = Scout(Subject(k))
       /\ Kind(k) = "sync" => Subject(k) \in 1 .. MaxCycles /\ k = Sync(Subject(k))
       /\ Kind(k) = "triage" => Subject(k) \in Issues /\ k = Triage(Subject(k))
       /\ Kind(k) = "reconcile" => Subject(k) \in Issues /\ k = Reconcile(Subject(k))
  /\ \A c \in 1 .. MaxCycles : Sync(c) \in ServiceKeys /\ Kind(Sync(c)) = "sync"
  /\ \A r \in Roles : Scout(r) \in ServiceKeys /\ Kind(Scout(r)) = "scout"
  <1>1. \A i \in Issues : /\ Triage(i) \in ServiceKeys /\ Kind(Triage(i)) = "triage"
                       /\ Subject(Triage(i)) = i
                       /\ Reconcile(i) \in ServiceKeys /\ Kind(Reconcile(i)) = "reconcile"
                       /\ Subject(Reconcile(i)) = i
    BY DEF ServiceKeys, Scouts, Scout, Sync, Triage, Reconcile, Kind, Subject
  <1>2. \A i \in Issues : /\ Work(i) \notin ServiceKeys /\ Kind(Work(i)) = "work"
                          /\ Subject(Work(i)) = i
    BY ServiceNotWork DEF Work, Kind, Subject
  <1>3. ASSUME NEW k \in ServiceKeys
        PROVE  /\ Kind(k) \in {"scout", "sync", "triage", "reconcile"}
               /\ Kind(k) = "scout" => Subject(k) \in Roles /\ k = Scout(Subject(k))
               /\ Kind(k) = "sync" => Subject(k) \in 1 .. MaxCycles /\ k = Sync(Subject(k))
               /\ Kind(k) = "triage" => Subject(k) \in Issues /\ k = Triage(Subject(k))
               /\ Kind(k) = "reconcile" => Subject(k) \in Issues /\ k = Reconcile(Subject(k))
    BY DEF ServiceKeys, Scouts, Scout, Sync, Triage, Reconcile, Kind, Subject
  <1>4. \A c \in 1 .. MaxCycles : Sync(c) \in ServiceKeys /\ Kind(Sync(c)) = "sync"
    BY DEF ServiceKeys, Sync, Kind
  <1>5. \A r \in Roles : Scout(r) \in ServiceKeys /\ Kind(Scout(r)) = "scout"
    BY DEF ServiceKeys, Scouts, Scout, Kind
  <1> QED BY <1>1, <1>2, <1>3, <1>4, <1>5

LEMMA TypedIsState == ASSUME NEW s, Typed(s) PROVE IsState(s)
  BY DEF Typed, IsState, IssueRec, TaskRec

LEMMA SetIssueFacts ==
  ASSUME NEW s, Typed(s), NEW i \in Issues, NEW r \in IssueRec
  PROVE  /\ Typed(SetIssue(s, i, r))
         /\ SetIssue(s, i, r).issue[i] = r
         /\ \A j \in Issues \ {i} : SetIssue(s, i, r).issue[j] = s.issue[j]
         /\ SetIssue(s, i, r).task = s.task
  <1>1. SetIssue(s, i, r) = [issue |-> [s.issue EXCEPT ![i] = r], task |-> s.task]
    BY DEF Typed, SetIssue
  <1> QED BY <1>1 DEF Typed

LEMMA SetTaskFacts ==
  ASSUME NEW s, Typed(s), NEW k \in ServiceKeys, NEW t \in TaskRec(k)
  PROVE  /\ Typed(SetTask(s, k, t))
         /\ SetTask(s, k, t).task[k] = t
         /\ \A j \in ServiceKeys \ {k} : SetTask(s, k, t).task[j] = s.task[j]
         /\ SetTask(s, k, t).issue = s.issue
  <1>1. SetTask(s, k, t) = [issue |-> s.issue, task |-> [s.task EXCEPT ![k] = t]]
    BY DEF Typed, SetTask
  <1> QED BY <1>1 DEF Typed

LEMMA EmptyTyped == Typed(EmptyState)
  <1>1. NoIssue \in IssueRec
    BY Bounds DEF NoIssue, IssueRec
  <1>2. \A k \in ServiceKeys : NoTask \in TaskRec(k)
    BY Bounds DEF NoTask, TaskRec, TaskStatuses
  <1> QED BY <1>1, <1>2 DEF EmptyState, Typed

LEMMA MirrorTyped ==
  ASSUME NEW s, Typed(s), NEW v \in [Issues -> Versions \ {0}]
  PROVE  /\ Typed(Mirror(s, v))
         /\ \A i \in Issues : Mirror(s, v).issue[i] = Mirrored(s.issue[i], v[i])
         /\ Mirror(s, v).task = s.task
  <1>1. Mirror(s, v) = [issue |-> [i \in Issues |-> Mirrored(s.issue[i], v[i])], task |-> s.task]
    BY DEF Typed, Mirror
  <1>2. \A i \in Issues : s.issue[i] \in IssueRec /\ v[i] \in Versions
    BY DEF Typed
  <1>3. \A i \in Issues : Mirrored(s.issue[i], v[i]) \in IssueRec
    BY <1>2 DEF Mirrored, IssueRec
  <1> QED BY <1>1, <1>3 DEF Typed

-----------------------------------------------------------------------------
(* syncServiceTasks.                                                       *)
LEMMA SweptTyped ==
  ASSUME NEW k \in ServiceKeys, NEW t \in TaskRec(k), NEW active, NEW due,
         NEW c \in 1 .. MaxCycles
  PROVE  /\ Requeued(k, t, active) \in TaskRec(k)
         /\ Lapsed(k, t, due, c) \in TaskRec(k)
  <1>1. Requeued(k, t, active) \in TaskRec(k)
    BY DEF Requeued, TaskRec, TaskStatuses
  <1>2. c \in 0 .. MaxCycles /\ "completed" \in TaskStatuses
    BY TasksAssumption DEF TaskStatuses
  <1>3. Lapsed(k, t, due, c) \in TaskRec(k)
    BY <1>2, Bounds DEF Lapsed, TaskRec
  <1> QED BY <1>1, <1>3

LEMMA QueuedTyped ==
  ASSUME NEW k \in ServiceKeys, NEW gen \in 0 .. MaxCycles, NEW fp \in Versions,
         NEW run \in Runs, NEW deps \in SUBSET ServiceKeys
  PROVE  Queued(gen, fp, run, deps) \in TaskRec(k)
  <1>1. 0 \in 0 .. RetryLimit(k) /\ "queued" \in TaskStatuses
    BY DEF RetryLimit, TaskStatuses
  <1> QED BY <1>1, Bounds DEF Queued, NoTask, TaskRec

LEMMA UpsertedTyped ==
  ASSUME NEW k \in ServiceKeys, NEW old \in TaskRec(k), NEW new \in TaskRec(k)
  PROVE  Upserted(k, old, new) \in TaskRec(k)
  BY DEF Upserted, TaskRec

Swept(s, k, due, active, c) == Lapsed(k, Requeued(k, s.task[k], active), due, c)

(* Its triage task is as the sweep left it, or queued for the issue.       *)
TriageUpsert(i, issue, swept, t, busy) ==
  \/ t = swept
  \/ \E deps \in SUBSET ServiceKeys :
       /\ WantsTriage(issue, busy)
       /\ t = Upserted(Triage(i), swept, Queued(0, issue.fp, 0, deps))

(* So is its reconcile task.                                               *)
ReconcileUpsert(i, issue, swept, t, busy) ==
  t = IF WantsReconcile(issue, busy)
        THEN Upserted(Reconcile(i), swept, WantedReconcile(issue)) ELSE swept

SameId(a, b) == a.id = b.id

LEMMA SyncFacts ==
  ASSUME NEW s, Typed(s), NEW due \in SUBSET Roles, NEW active, NEW working,
         NEW c \in 1 .. MaxCycles, NEW r, r = SyncServiceTasks(s, due, active, working, c)
  PROVE  /\ Typed(r)
         /\ \A i \in Issues : r.issue[i] = Untriaged(s, i, active)
         /\ due = {} => \A d \in 1 .. MaxCycles : SameId(s.task[Sync(d)], r.task[Sync(d)])
         /\ \A i \in Issues :
              TriageUpsert(i, r.issue[i], Swept(s, Triage(i), due, active, c),
                           r.task[Triage(i)], Work(i) \in working)
         /\ \A i \in Issues :
              ReconcileUpsert(i, r.issue[i], Swept(s, Reconcile(i), due, active, c),
                              r.task[Reconcile(i)], Work(i) \in working)
  <1> DEFINE issue == [i \in Issues |-> Untriaged(s, i, active)]
             swept == [k \in ServiceKeys |-> Swept(s, k, due, active, c)]
             sync == IF due = {} THEN swept[Sync(c)]
                     ELSE Upserted(Sync(c), swept[Sync(c)],
                                   Queued(c, 0, 0, {Scout(x) : x \in due}))
             deps == IF sync.id /\ sync.status # "completed" THEN {Sync(c)} ELSE {}
             PerIssue(k, i) ==
               IF Kind(k) = "triage"
                 THEN IF WantsTriage(issue[i], Work(i) \in working)
                        THEN Upserted(k, swept[k], Queued(0, issue[i].fp, 0, deps))
                        ELSE swept[k]
                 ELSE IF WantsReconcile(issue[i], Work(i) \in working)
                        THEN Upserted(k, swept[k], WantedReconcile(issue[i]))
                        ELSE swept[k]
             Task(k) == CASE k = Sync(c) -> sync
                          [] Kind(k) = "sync" /\ k # Sync(c) -> swept[k]
                          [] Kind(k) = "scout" ->
                               IF Subject(k) \in due
                                 THEN Upserted(k, swept[k], Queued(c, 0, 0, {}))
                                 ELSE swept[k]
                          [] OTHER -> PerIssue(k, Subject(k))
  <1>1. r = [issue |-> issue, task |-> [k \in ServiceKeys |-> Task(k)]]
    BY DEF SyncServiceTasks, Swept
  <1>2. \A i \in Issues : issue[i] \in IssueRec /\ issue[i] = Untriaged(s, i, active)
    BY DEF Untriaged, Typed, IssueRec
  <1>3. \A k \in ServiceKeys : swept[k] \in TaskRec(k) /\ swept[k] = Swept(s, k, due, active, c)
    BY SweptTyped DEF Swept, Typed
  <1>4. sync \in TaskRec(Sync(c)) /\ (due = {} => sync = swept[Sync(c)])
    <2>1. {Scout(x) : x \in due} \in SUBSET ServiceKeys /\ c \in 0 .. MaxCycles /\ Sync(c) \in ServiceKeys
      BY Keys
    <2> HIDE DEF swept
    <2> QED BY <1>3, <2>1, UpsertedTyped, QueuedTyped, Bounds
  <1>5. deps \in SUBSET ServiceKeys
    BY Keys
  <1> HIDE DEF issue, swept, sync, deps
  <1>6. ASSUME NEW i \in Issues
        PROVE  /\ PerIssue(Triage(i), i) \in TaskRec(Triage(i))
               /\ PerIssue(Reconcile(i), i) \in TaskRec(Reconcile(i))
    <2>1. Triage(i) \in ServiceKeys /\ Reconcile(i) \in ServiceKeys
          /\ Kind(Triage(i)) = "triage" /\ Kind(Reconcile(i)) = "reconcile"
      BY Keys
    <2>2. issue[i].fp \in Versions /\ issue[i].run \in Runs
      BY <1>2 DEF IssueRec
    <2>3. Queued(0, issue[i].fp, 0, deps) \in TaskRec(Triage(i))
      BY <1>5, <2>1, <2>2, QueuedTyped, Bounds
    <2>4. WantedReconcile(issue[i]) \in TaskRec(Reconcile(i))
      BY <2>1, <2>2, QueuedTyped, Bounds DEF WantedReconcile
    <2>5. Upserted(Triage(i), swept[Triage(i)], Queued(0, issue[i].fp, 0, deps)) \in TaskRec(Triage(i))
      BY <1>3, <2>1, <2>3, UpsertedTyped
    <2>6. Upserted(Reconcile(i), swept[Reconcile(i)], WantedReconcile(issue[i])) \in TaskRec(Reconcile(i))
      BY <1>3, <2>1, <2>4, UpsertedTyped
    <2> QED BY <1>3, <2>1, <2>5, <2>6
  <1>7. ASSUME NEW k \in ServiceKeys PROVE Task(k) \in TaskRec(k)
    <2>1. CASE k = Sync(c)
      <3>0. Kind(k) = "sync"
        BY <2>1, Keys
      <3>1. Task(k) = sync
        BY <2>1, <3>0
      <3> HIDE DEF Task
      <3> QED BY <1>4, <2>1, <3>1
    <2>2. CASE k # Sync(c) /\ Kind(k) = "sync"
      BY <1>3, <2>2
    <2>3. CASE Kind(k) = "scout"
      <3>1. Queued(c, 0, 0, {}) \in TaskRec(k)
        BY QueuedTyped, Bounds
      <3>2. Upserted(k, swept[k], Queued(c, 0, 0, {})) \in TaskRec(k)
        BY <1>3, <3>1, UpsertedTyped
      <3>3. k # Sync(c)
        BY <2>3, Keys
      <3> QED BY <1>3, <2>3, <3>2, <3>3
    <2>4. CASE Kind(k) = "triage"
      <3>1. k # Sync(c) /\ Subject(k) \in Issues /\ k = Triage(Subject(k))
        BY <2>4, Keys
      <3>2. Task(k) = PerIssue(k, Subject(k))
        BY <2>4, <3>1
      <3> HIDE DEF Task, PerIssue
      <3> QED BY <1>6, <3>1, <3>2
    <2>5. CASE Kind(k) = "reconcile"
      <3>1. k # Sync(c) /\ Subject(k) \in Issues /\ k = Reconcile(Subject(k))
        BY <2>5, Keys
      <3>2. Task(k) = PerIssue(k, Subject(k))
        BY <2>5, <3>1
      <3> HIDE DEF Task, PerIssue
      <3> QED BY <1>6, <3>1, <3>2
    <2> QED BY <2>1, <2>2, <2>3, <2>4, <2>5, Keys
  <1>8. /\ \A i \in Issues : r.issue[i] = issue[i]
        /\ \A k \in ServiceKeys : r.task[k] = Task(k)
    BY <1>1
  <1>9. Typed(r)
    <2>1. issue = [i \in Issues |-> issue[i]]
      BY DEF issue
    <2> HIDE DEF Task
    <2>2. issue \in [Issues -> IssueRec]
      BY <1>2, <2>1
    <2> QED BY <1>1, <1>7, <2>2 DEF Typed
  <1>10. \A i \in Issues : Task(Triage(i)) = PerIssue(Triage(i), i)
                           /\ Task(Reconcile(i)) = PerIssue(Reconcile(i), i)
    <2> SUFFICES ASSUME NEW i \in Issues
                 PROVE  Task(Triage(i)) = PerIssue(Triage(i), i)
                           /\ Task(Reconcile(i)) = PerIssue(Reconcile(i), i)
      OBVIOUS
    <2>1. Triage(i) # Sync(c) /\ Reconcile(i) # Sync(c) /\ Kind(Triage(i)) = "triage"
          /\ Kind(Reconcile(i)) = "reconcile" /\ Subject(Triage(i)) = i /\ Subject(Reconcile(i)) = i
      BY Keys
    <2> HIDE DEF PerIssue
    <2> QED BY <2>1
  <1>11. ASSUME due = {}, NEW d \in 1 .. MaxCycles
         PROVE  SameId(s.task[Sync(d)], r.task[Sync(d)])
    <2>1. r.task[Sync(d)] = Swept(s, Sync(d), due, active, c)
      BY <1>3, <1>4, <1>8, <1>11, Keys
    <2>2. s.task[Sync(d)] \in TaskRec(Sync(d))
      BY Keys DEF Typed
    <2> QED BY <2>1, <2>2 DEF SameId, Swept, Lapsed, Requeued, TaskRec
  <1>12. ASSUME NEW i \in Issues
         PROVE  TriageUpsert(i, r.issue[i], Swept(s, Triage(i), due, active, c),
                             r.task[Triage(i)], Work(i) \in working)
    <2> HIDE DEF Task
    <2>1. \/ r.task[Triage(i)] = Swept(s, Triage(i), due, active, c)
          \/ /\ WantsTriage(r.issue[i], Work(i) \in working)
             /\ r.task[Triage(i)] =
                  Upserted(Triage(i), Swept(s, Triage(i), due, active, c),
                           Queued(0, r.issue[i].fp, 0, deps))
      BY <1>3, <1>8, <1>10, Keys
    <2> QED BY <1>5, <2>1 DEF TriageUpsert
  <1>13. ASSUME NEW i \in Issues
         PROVE  ReconcileUpsert(i, r.issue[i], Swept(s, Reconcile(i), due, active, c),
                                r.task[Reconcile(i)], Work(i) \in working)
    <2> HIDE DEF Task
    <2> QED BY <1>3, <1>8, <1>10, Keys DEF ReconcileUpsert
  <1> QED BY <1>2, <1>5, <1>8, <1>9, <1>11, <1>12, <1>13

-----------------------------------------------------------------------------
(* What markTaskStarted and applyTaskResult keep of a state.               *)
LEMMA TaskEdits ==
  ASSUME NEW k \in ServiceKeys, NEW t \in TaskRec(k)
  PROVE  /\ StartedTask(k, t) \in TaskRec(k)
         /\ \A status \in TaskStatuses : Settled(t, status) \in TaskRec(k)
         /\ \A n \in 0 .. MaxTime : [t EXCEPT !.until = n] \in TaskRec(k)
         /\ \A f \in Versions : [t EXCEPT !.fp = f] \in TaskRec(k)
         /\ \A run \in Runs : [t EXCEPT !.run = run] \in TaskRec(k)
         /\ \A status \in TaskStatuses : [t EXCEPT !.status = status] \in TaskRec(k)
         /\ \A run \in Runs, c \in 0 .. MaxCycles :
              [t EXCEPT !.wait = c, !.run = run] \in TaskRec(k)
         /\ \A f \in Versions, run \in Runs : HandedOver(t, f, run) \in TaskRec(k)
  <1>1. StartedTask(k, t) \in TaskRec(k)
    <2>1. \A n \in 0 .. RetryLimit(k) : n < RetryLimit(k) => n + 1 \in 0 .. RetryLimit(k)
      BY Bounds
    <2>2. "running" \in TaskStatuses
      BY DEF TaskStatuses
    <2> QED BY <2>1, <2>2, Bounds DEF StartedTask, TaskRec
  <1>2. \A status \in TaskStatuses : Settled(t, status) \in TaskRec(k)
    BY Bounds DEF Settled, TaskRec
  <1>3. \A f \in Versions, run \in Runs : HandedOver(t, f, run) \in TaskRec(k)
    BY Bounds DEF HandedOver, TaskRec, TaskStatuses
  <1>4. /\ \A n \in 0 .. MaxTime : [t EXCEPT !.until = n] \in TaskRec(k)
        /\ \A f \in Versions : [t EXCEPT !.fp = f] \in TaskRec(k)
        /\ \A run \in Runs : [t EXCEPT !.run = run] \in TaskRec(k)
    BY DEF TaskRec
  <1>5. /\ \A status \in TaskStatuses : [t EXCEPT !.status = status] \in TaskRec(k)
        /\ \A run \in Runs, c \in 0 .. MaxCycles :
             [t EXCEPT !.wait = c, !.run = run] \in TaskRec(k)
    BY DEF TaskRec
  <1> QED BY <1>1, <1>2, <1>3, <1>4, <1>5

LEMMA StartedFacts ==
  ASSUME NEW s, Typed(s)
  PROVE  /\ \A i \in Issues :
              /\ Typed(MarkStarted(s, Work(i)))
              /\ MarkStarted(s, Work(i)).issue[i] = StartedIssue(s.issue[i])
              /\ \A j \in Issues \ {i} : MarkStarted(s, Work(i)).issue[j] = s.issue[j]
              /\ MarkStarted(s, Work(i)).task = s.task
         /\ \A k \in ServiceKeys :
              /\ Typed(MarkStarted(s, k))
              /\ MarkStarted(s, k).task[k] = StartedTask(k, s.task[k])
              /\ \A j \in ServiceKeys \ {k} : MarkStarted(s, k).task[j] = s.task[j]
              /\ MarkStarted(s, k).issue = s.issue
  <1>1. ASSUME NEW i \in Issues
        PROVE  /\ MarkStarted(s, Work(i)) = SetIssue(s, i, StartedIssue(s.issue[i]))
               /\ StartedIssue(s.issue[i]) \in IssueRec
    <2>1. Kind(Work(i)) = "work" /\ Subject(Work(i)) = i
      BY Keys
    <2>2. s.issue[i] \in IssueRec
      BY DEF Typed
    <2>3. StartedIssue(s.issue[i]) \in IssueRec
      BY <2>2, Bounds DEF StartedIssue, IssueRec
    <2> QED BY <2>1, <2>3 DEF MarkStarted
  <1>2. ASSUME NEW k \in ServiceKeys
        PROVE  /\ MarkStarted(s, k) = SetTask(s, k, StartedTask(k, s.task[k]))
               /\ StartedTask(k, s.task[k]) \in TaskRec(k)
    <2>1. Kind(k) # "work"
      BY Keys
    <2> QED BY <2>1, TaskEdits DEF MarkStarted, Typed
  <1>3. ASSUME NEW i \in Issues
        PROVE  /\ Typed(MarkStarted(s, Work(i)))
               /\ MarkStarted(s, Work(i)).issue[i] = StartedIssue(s.issue[i])
               /\ \A j \in Issues \ {i} : MarkStarted(s, Work(i)).issue[j] = s.issue[j]
               /\ MarkStarted(s, Work(i)).task = s.task
    BY <1>1, SetIssueFacts
  <1>4. ASSUME NEW k \in ServiceKeys
        PROVE  /\ Typed(MarkStarted(s, k))
               /\ MarkStarted(s, k).task[k] = StartedTask(k, s.task[k])
               /\ \A j \in ServiceKeys \ {k} : MarkStarted(s, k).task[j] = s.task[j]
               /\ MarkStarted(s, k).issue = s.issue
    BY <1>2, SetTaskFacts
  <1> QED BY <1>3, <1>4

(* The state with another record of an issue and of one of its tasks.      *)
LEMMA SetBoth ==
  ASSUME NEW s, Typed(s), NEW i \in Issues, NEW k \in ServiceKeys,
         NEW issue \in IssueRec, NEW t \in TaskRec(k),
         NEW r, r = SetTask(SetIssue(s, i, issue), k, t)
  PROVE  /\ Typed(r)
         /\ r.issue[i] = issue /\ r.task[k] = t
         /\ \A j \in Issues \ {i} : r.issue[j] = s.issue[j]
         /\ \A j \in ServiceKeys \ {k} : r.task[j] = s.task[j]
  BY SetIssueFacts, SetTaskFacts

LEMMA WorkFacts ==
  ASSUME NEW s, Typed(s), NEW i \in Issues, NEW run \in Runs, NEW outcome,
         NEW n \in 0 .. MaxTime, outcome = "pause" => n < MaxTime,
         NEW r, r = ApplyWork(s, i, run, outcome, n)
  PROVE  /\ Typed(r)
         /\ r.issue[i] = IF outcome = "pause" THEN Paused(s.issue[i], run, n)
                                              ELSE Returned(s.issue[i], run, outcome)
         /\ \A j \in Issues \ {i} : r.issue[j] = s.issue[j]
         /\ \A k \in ServiceKeys \ {Reconcile(i)} : r.task[k] = s.task[k]
         /\ outcome = "pause" => r.task = s.task
  <1>1. s.issue[i] \in IssueRec /\ s.task[Reconcile(i)] \in TaskRec(Reconcile(i))
        /\ Reconcile(i) \in ServiceKeys
    BY Keys DEF Typed
  <1>2. CASE outcome = "pause"
    <2>1. r = SetIssue(s, i, Paused(s.issue[i], run, n))
      BY <1>2 DEF ApplyWork
    <2>2. n + 1 \in 0 .. MaxTime
      BY <1>2, TasksAssumption
    <2>3. Paused(s.issue[i], run, n) \in IssueRec
      BY <1>1, <2>2 DEF Paused, IssueRec
    <2> QED BY <1>2, <2>1, <2>3, SetIssueFacts
  <1>3. CASE outcome # "pause"
    <2>1. r = SetTask(SetIssue(s, i, Returned(s.issue[i], run, outcome)), Reconcile(i),
                      HandedOver(s.task[Reconcile(i)], s.issue[i].fp, run))
      BY <1>3 DEF ApplyWork
    <2>2. Returned(s.issue[i], run, outcome) \in IssueRec /\ s.issue[i].fp \in Versions
      BY <1>1 DEF Returned, IssueRec
    <2>3. HandedOver(s.task[Reconcile(i)], s.issue[i].fp, run) \in TaskRec(Reconcile(i))
      BY <1>1, <2>2, TaskEdits
    <2> QED BY <1>1, <1>3, <2>1, <2>2, <2>3, SetBoth
  <1> QED BY <1>2, <1>3

LEMMA ServiceFacts ==
  ASSUME NEW s, Typed(s), NEW k \in ServiceKeys, NEW outcome,
         NEW n \in 0 .. MaxTime, outcome = "pause" => n < MaxTime,
         NEW r, r = ApplyService(s, k, outcome, n)
  PROVE  /\ Typed(r)
         /\ r.issue = s.issue
         /\ \A j \in ServiceKeys \ {k} : r.task[j] = s.task[j]
         /\ r.task[k].id = s.task[k].id
  <1> DEFINE t == s.task[k]
  <1>1. t \in TaskRec(k)
    BY DEF Typed
  <1>2. PICK u \in TaskRec(k) : u.id = t.id /\ (r = SetTask(s, k, u) \/ (r = s /\ u = t))
    <2>1. CASE outcome = "ok"
      <3>1. Settled(t, "completed") \in TaskRec(k)
        BY <1>1, TaskEdits DEF TaskStatuses
      <3>2. Settled(t, "completed").id = t.id
        BY <1>1 DEF Settled, TaskRec
      <3> QED BY <2>1, <3>1, <3>2 DEF ApplyService
    <2>2. CASE outcome # "ok" /\ ~t.id
      BY <1>1, <2>2 DEF ApplyService, HandleFailure
    <2>3. CASE outcome = "pause" /\ t.id
      <3>1. Settled(t, "queued") \in TaskRec(k)
        BY <1>1, TaskEdits DEF TaskStatuses
      <3>4. n + 1 \in 0 .. MaxTime
        BY <2>3, TasksAssumption
      <3>2. [Settled(t, "queued") EXCEPT !.until = n + 1] \in TaskRec(k)
        BY <3>1, <3>4, TaskEdits
      <3>3. [Settled(t, "queued") EXCEPT !.until = n + 1].id = t.id
        BY <1>1, <3>1 DEF Settled, TaskRec
      <3> QED BY <2>3, <3>2, <3>3 DEF ApplyService, HandleFailure
    <2>4. CASE outcome \notin {"ok", "pause"} /\ t.id
      <3>1. PICK x \in {"failed", "queued"} : r = SetTask(s, k, Settled(t, x))
        BY <2>4 DEF ApplyService, HandleFailure
      <3>2. Settled(t, x) \in TaskRec(k)
        BY <1>1, TaskEdits DEF TaskStatuses
      <3>3. Settled(t, x).id = t.id
        BY <1>1 DEF Settled, TaskRec
      <3> QED BY <3>1, <3>2, <3>3
    <2> QED BY <2>1, <2>2, <2>3, <2>4
  <1> QED BY <1>2, SetTaskFacts

(* What applyStartWorkTriageResult makes of an issue and its triage.       *)
Judged(issue, done, fp) == [issue EXCEPT !.triage = done, !.triaged = fp]
JudgedTask(t, done, fp) == [Settled(t, done) EXCEPT !.fp = fp]

LEMMA JudgedTyped ==
  ASSUME NEW k \in ServiceKeys, NEW t \in TaskRec(k), NEW issue \in IssueRec,
         NEW done \in {"completed", "failed", "queued"}
  PROVE  /\ \A fp \in Versions : Judged(issue, done, fp) \in IssueRec
         /\ \A fp \in Versions : JudgedTask(t, done, fp) \in TaskRec(k)
         /\ [issue EXCEPT !.triage = done] = Judged(issue, done, issue.triaged)
         /\ Settled(t, done) = JudgedTask(t, done, t.fp)
  <1>1. /\ \A fp \in Versions : Judged(issue, done, fp) \in IssueRec
        /\ [issue EXCEPT !.triage = done] = Judged(issue, done, issue.triaged)
    BY DEF Judged, IssueRec
  <1>2. Settled(t, done) \in TaskRec(k) /\ Settled(t, done).fp = t.fp
    <2>1. Settled(t, done) \in TaskRec(k)
      BY TaskEdits DEF TaskStatuses
    <2>2. Settled(t, done).fp = t.fp
      BY DEF Settled, TaskRec
    <2> QED BY <2>1, <2>2
  <1>3. \A x \in TaskRec(k) : /\ \A fp \in Versions : [x EXCEPT !.fp = fp] \in TaskRec(k)
                              /\ x = [x EXCEPT !.fp = x.fp]
    BY DEF TaskRec
  <1> QED BY <1>1, <1>2, <1>3 DEF JudgedTask

LEMMA TriageFacts ==
  ASSUME NEW s, Typed(s), NEW i \in Issues, NEW outcome,
         NEW r, r = ApplyTriage(s, i, outcome)
  PROVE  /\ Typed(r)
         /\ \A j \in Issues \ {i} : r.issue[j] = s.issue[j]
         /\ \A k \in ServiceKeys \ {Triage(i)} : r.task[k] = s.task[k]
         /\ \/ r = s
            \/ /\ s.task[Triage(i)].status # "none"
               /\ \E done \in {"completed", "failed", "queued"}, fp \in Versions, f \in Versions :
                    /\ done = "completed" => fp = s.issue[i].fp /\ f = s.issue[i].fp
                    /\ r.issue[i] = Judged(s.issue[i], done, fp)
                    /\ r.task[Triage(i)] = JudgedTask(s.task[Triage(i)], done, f)
  <1> DEFINE k == Triage(i)
             t == s.task[k]
             issue == s.issue[i]
  <1>1. issue \in IssueRec /\ t \in TaskRec(k) /\ k \in ServiceKeys
        /\ issue.fp \in Versions /\ issue.triaged \in Versions /\ t.fp \in Versions
    BY Keys DEF Typed, IssueRec, TaskRec
  <1>2. CASE t.status = "none"
    BY <1>2 DEF ApplyTriage
  <1>3. CASE t.status # "none"
    <2>1. PICK done \in {"completed", "failed", "queued"}, fp \in Versions, f \in Versions :
            /\ done = "completed" => fp = issue.fp /\ f = issue.fp
            /\ r = SetTask(SetIssue(s, i, Judged(issue, done, fp)), k, JudgedTask(t, done, f))
      <3>1. CASE outcome = "ok"
        <4>1. r = SetTask(SetIssue(s, i, Judged(issue, "completed", issue.fp)),
                          k, JudgedTask(t, "completed", issue.fp))
          BY <1>3, <3>1 DEF ApplyTriage, Judged, JudgedTask
        <4> QED BY <1>1, <4>1
      <3>2. CASE outcome # "ok"
        <4>1. PICK done \in {"failed", "queued"} :
                r = SetTask(SetIssue(s, i, [issue EXCEPT !.triage = done]), k, Settled(t, done))
          BY <1>3, <3>2 DEF ApplyTriage
        <4>2. /\ [issue EXCEPT !.triage = done] = Judged(issue, done, issue.triaged)
              /\ Settled(t, done) = JudgedTask(t, done, t.fp)
          BY <1>1, JudgedTyped
        <4> QED BY <1>1, <4>1, <4>2
      <3> QED BY <3>1, <3>2
    <2>2. Judged(issue, done, fp) \in IssueRec /\ JudgedTask(t, done, f) \in TaskRec(k)
      BY <1>1, JudgedTyped
    <2>3. /\ Typed(r) /\ r.issue[i] = Judged(issue, done, fp) /\ r.task[k] = JudgedTask(t, done, f)
          /\ \A j \in Issues \ {i} : r.issue[j] = s.issue[j]
          /\ \A j \in ServiceKeys \ {k} : r.task[j] = s.task[j]
      BY <1>1, <2>1, <2>2, SetBoth
    <2> QED BY <1>3, <2>1, <2>3
  <1> QED BY <1>2, <1>3

(* What a reconcile makes of its issue.                                    *)
Looked(issue, status, last) == [issue EXCEPT !.status = status, !.run = last]
LookedAt(old, new) ==
  \E status \in {"reconciling", "blocked", "completed"}, last \in Runs :
    new = Looked(old, status, last)

Reconciled(s, i, r) ==
  /\ \A j \in Issues \ {i} : r.issue[j] = s.issue[j]
  /\ \A k \in ServiceKeys \ {Reconcile(i)} : r.task[k] = s.task[k]
  /\ LookedAt(s.issue[i], r.issue[i])
  /\ SameId(s.task[Reconcile(i)], r.task[Reconcile(i)])

LEMMA ReconcileFacts ==
  ASSUME NEW s, Typed(s), NEW i \in Issues, NEW run \in Runs,
         NEW verdict \in {"error", "waiting", "blocked", "completed"},
         NEW c \in 1 .. MaxCycles, NEW r, r = ApplyReconcile(s, i, run, verdict, c)
  PROVE  Typed(r) /\ Reconciled(s, i, r)
  <1> DEFINE k == Reconcile(i)
             t == s.task[k]
             issue == s.issue[i]
             Both(x, y) == SetTask(SetIssue(s, i, x), k, y)
  <1>1. issue \in IssueRec /\ t \in TaskRec(k) /\ k \in ServiceKeys
    BY Keys DEF Typed
  <1>2. \A status \in {"reconciling", "blocked", "completed"} :
          [issue EXCEPT !.status = status] = Looked(issue, status, issue.run) /\ issue.run \in Runs
    BY <1>1 DEF IssueRec, Looked
  <1>3. PICK status \in {"reconciling", "blocked", "completed"}, last \in Runs, u \in TaskRec(k) :
          u.id = t.id /\ r = Both(Looked(issue, status, last), u)
    <2>1. CASE verdict = "error" /\ ~Spent(k, t)
      <3>1. [t EXCEPT !.status = "queued"] \in TaskRec(k)
        BY <1>1, TaskEdits DEF TaskStatuses
      <3>5. [t EXCEPT !.status = "queued"].id = t.id
        BY <1>1 DEF TaskRec
      <3>2. r = Both([issue EXCEPT !.status = "reconciling"], [t EXCEPT !.status = "queued"])
        BY <2>1 DEF ApplyReconcile
      <3> QED BY <1>2, <3>1, <3>2, <3>5
    <2>2. CASE verdict = "error" /\ Spent(k, t)
      <3>1. [t EXCEPT !.status = "failed"] \in TaskRec(k)
        BY <1>1, TaskEdits DEF TaskStatuses
      <3>5. [t EXCEPT !.status = "failed"].id = t.id
        BY <1>1 DEF TaskRec
      <3>2. r = Both([issue EXCEPT !.status = "blocked"], [t EXCEPT !.status = "failed"])
        BY <2>2 DEF ApplyReconcile
      <3> QED BY <1>2, <3>1, <3>2, <3>5
    <2>3. CASE verdict = "waiting" /\ ~Spent(k, t)
      <3>1. Settled(t, "queued") \in TaskRec(k)
        BY <1>1, TaskEdits DEF TaskStatuses
      <3>4. c \in 0 .. MaxCycles
        BY TasksAssumption
      <3>2. [Settled(t, "queued") EXCEPT !.wait = c, !.run = run] \in TaskRec(k)
        BY <3>1, <3>4 DEF TaskRec
      <3>5. [Settled(t, "queued") EXCEPT !.wait = c, !.run = run].id = t.id
        BY <1>1 DEF Settled, TaskRec
      <3>3. r = Both(Looked(issue, "reconciling", run), [Settled(t, "queued") EXCEPT !.wait = c, !.run = run])
        BY <2>3 DEF ApplyReconcile, Looked
      <3> QED BY <3>2, <3>3, <3>5
    <2>4. CASE (verdict = "waiting" /\ Spent(k, t)) \/ verdict \in {"blocked", "completed"}
      <3>1. Settled(t, "completed") \in TaskRec(k)
        BY <1>1, TaskEdits DEF TaskStatuses
      <3>2. [Settled(t, "completed") EXCEPT !.run = run] \in TaskRec(k)
        BY <3>1 DEF TaskRec
      <3>5. [Settled(t, "completed") EXCEPT !.run = run].id = t.id
        BY <1>1 DEF Settled, TaskRec
      <3>3. PICK status \in {"reconciling", "blocked", "completed"} :
              r = Both(Looked(issue, status, run), [Settled(t, "completed") EXCEPT !.run = run])
        BY <2>4 DEF ApplyReconcile, Looked
      <3> QED BY <3>2, <3>3, <3>5
    <2> QED BY <2>1, <2>2, <2>3, <2>4
  <1>4. Looked(issue, status, last) \in IssueRec
    BY <1>1 DEF IssueRec, Looked
  <1>5. /\ Typed(r) /\ r.task[k] = u /\ r.issue[i] = Looked(issue, status, last)
        /\ \A j \in Issues \ {i} : r.issue[j] = s.issue[j]
        /\ \A j \in ServiceKeys \ {k} : r.task[j] = s.task[j]
    BY <1>1, <1>3, <1>4, SetBoth
  <1> QED BY <1>3, <1>5 DEF Reconciled, LookedAt, SameId

-----------------------------------------------------------------------------
LEMMA NoneNoKey == NoJob.key \notin AllKeys /\ Kind(NoJob.key) = "none"
  <1>1. \A k \in AllKeys : Kind(k) # "none"
    BY Keys DEF AllKeys
  <1>2. Kind(NoJob.key) = "none"
    BY DEF NoJob, Kind
  <1> QED BY <1>1, <1>2

LEMMA NoJobTyped == TypedJob(NoJob) /\ NoJob.phase = "new" /\ NoJob.copy = EmptyState
  BY EmptyTyped, Bounds DEF TypedJob, NoJob

LEMMA JobTyped ==
  ASSUME NEW s, Typed(s), NEW k \in AllKeys
  PROVE  /\ TypedJob(Job(s, k)) /\ Job(s, k) # NoJob
         /\ Job(s, k).phase = "new" /\ Job(s, k).copy = EmptyState
  <1>1. Job(s, k).key = k /\ Job(s, k) # NoJob
    BY JobKey, NoneNoKey
  <1>2. CASE Kind(k) = "triage"
    <2>1. s.issue[Subject(k)].fp \in Versions
      BY <1>2, Keys DEF AllKeys, Typed, IssueRec
    <2>2. Job(s, k) = [NoJob EXCEPT !.key = k, !.fp = s.issue[Subject(k)].fp]
      BY <1>2 DEF Job
    <2> QED BY <1>1, <2>1, <2>2, EmptyTyped, Bounds DEF TypedJob, NoJob
  <1>3. CASE Kind(k) = "reconcile"
    <2>1. s.issue[Subject(k)].run \in Runs /\ s.issue[Subject(k)].err \in BOOLEAN
      BY <1>3, Keys DEF AllKeys, Typed, IssueRec
    <2>2. Job(s, k) = [NoJob EXCEPT !.key = k, !.run = s.issue[Subject(k)].run,
                                    !.err = s.issue[Subject(k)].err]
      BY <1>3 DEF Job
    <2> QED BY <1>1, <2>1, <2>2, EmptyTyped, Bounds DEF TypedJob, NoJob
  <1>4. CASE Kind(k) \notin {"triage", "reconcile"}
    <2>1. Job(s, k) = [NoJob EXCEPT !.key = k]
      BY <1>4 DEF Job
    <2> QED BY <1>1, <2>1, EmptyTyped, Bounds DEF TypedJob, NoJob
  <1> QED BY <1>2, <1>3, <1>4

LEMMA ChooseTyped ==
  ASSUME NEW s, Typed(s), Choose(s)
  PROVE  /\ at' # "picked" => pick' = pick
         /\ at' = "picked" =>
              /\ TypedJob(pick') /\ pick' # NoJob /\ pick'.key \in AllKeys
              /\ pick'.phase = "new" /\ pick'.copy = EmptyState
              /\ pick'.key \in ServiceQueue(s, now, cycle) \cup WorkQueue(s, now, running)
  <1> DEFINE service == ServiceQueue(s, now, cycle)
             work == WorkQueue(s, now, running)
  <1>1. CASE service \cup work = {}
    BY <1>1 DEF Choose
  <1>2. CASE service \cup work # {}
    <2>1. at' = "picked"
      BY <1>2 DEF Choose
    <2>2. PICK k \in service \cup work : pick' = Job(s, k)
      BY <1>2 DEF Choose
    <2>3. k \in AllKeys
      BY DEF AllKeys, ServiceQueue, WorkQueue
    <2> QED BY <2>1, <2>2, <2>3, JobTyped, JobKey
  <1> QED BY <1>1, <1>2

(* What a goroutine may return, and what the coordinator does with it.     *)
LEMMA OutcomeFacts ==
  ASSUME NEW job, TypedJob(job), NEW outcome \in Outcomes(job)
  PROVE  /\ job.key \in AllKeys
         /\ outcome = "pause" => now < MaxTime
         /\ Kind(job.key) = "reconcile" =>
              outcome \in {"error", "waiting", "blocked", "completed"}
  <1>1. job.key \in AllKeys
    BY NoneNoKey DEF TypedJob, Outcomes
  <1>2. Kind(job.key) \in {"scout", "sync", "triage", "reconcile", "work"}
    BY <1>1, Keys DEF AllKeys
  <1>3. CASE Kind(job.key) = "sync"
    BY <1>1, <1>3 DEF Outcomes
  <1>4. CASE Kind(job.key) = "reconcile"
    BY <1>1, <1>4 DEF Outcomes
  <1>5. CASE Kind(job.key) \in {"scout", "triage"}
    BY <1>1, <1>5 DEF Outcomes, Failures
  <1>6. CASE Kind(job.key) = "work"
    BY <1>1, <1>6 DEF Outcomes, Failures
  <1> QED BY <1>2, <1>3, <1>4, <1>5, <1>6

AppliedAs(job, outcome, r) ==
  \/ \E i \in Issues :
       /\ job.key = Work(i)
       /\ r = ApplyWork(state, i, job.run, outcome, now)
  \/ \E i \in Issues :
       /\ job.key = Triage(i)
       /\ r = ApplyTriage(state, i, outcome)
  \/ \E i \in Issues, run \in Runs :
       /\ job.key = Reconcile(i)
       /\ r = ApplyReconcile(state, i, run, outcome, cycle)
  \/ /\ job.key \in ServiceKeys /\ Kind(job.key) \in {"scout", "sync"}
     /\ r = ApplyService(state, job.key, outcome, now)

LEMMA AppliedCases ==
  ASSUME TypeInv, NEW job, TypedJob(job), job.key \in AllKeys, NEW outcome
  PROVE  AppliedAs(job, outcome, Applied(job, outcome))
  <1>1. CASE \E i \in Issues : job.key = Work(i)
    BY <1>1, Keys DEF Applied, AppliedAs
  <1>2. CASE job.key \in ServiceKeys /\ Kind(job.key) = "triage"
    BY <1>2, Keys DEF Applied, AppliedAs
  <1>3. CASE job.key \in ServiceKeys /\ Kind(job.key) = "reconcile"
    <2>1. PICK i \in Issues : job.key = Reconcile(i) /\ Subject(job.key) = i
      BY <1>3, Keys
    <2> DEFINE run == IF job.run # 0 THEN job.run ELSE latest[i]
    <2>2. run \in Runs
      BY DEF TypeInv, TypedJob
    <2>3. Applied(job, outcome) = ApplyReconcile(state, i, run, outcome, cycle)
      BY <1>3, <2>1 DEF Applied
    <2> QED BY <2>1, <2>2, <2>3 DEF AppliedAs
  <1>4. CASE job.key \in ServiceKeys /\ Kind(job.key) \in {"scout", "sync"}
    BY <1>4 DEF Applied, AppliedAs
  <1> QED BY <1>1, <1>2, <1>3, <1>4, Keys DEF AllKeys

LEMMA AppliedTyped ==
  ASSUME TypeInv, NEW job, TypedJob(job), NEW outcome \in Outcomes(job)
  PROVE  Typed(Applied(job, outcome))
  <1> DEFINE r == Applied(job, outcome)
  <1>1. /\ job.key \in AllKeys /\ Typed(state) /\ job.run \in Runs
        /\ outcome = "pause" => now < MaxTime
        /\ now \in 0 .. MaxTime /\ cycle \in 1 .. MaxCycles
        /\ Kind(job.key) = "reconcile" =>
             outcome \in {"error", "waiting", "blocked", "completed"}
    BY OutcomeFacts DEF TypeInv, TypedJob
  <1>2. AppliedAs(job, outcome, r)
    BY <1>1, AppliedCases
  <1> SUFFICES Typed(r)
    OBVIOUS
  <1> HIDE DEF r
  <1>3. ASSUME NEW i \in Issues, r = ApplyWork(state, i, job.run, outcome, now) PROVE Typed(r)
    BY <1>1, <1>3, WorkFacts
  <1>4. ASSUME NEW i \in Issues, r = ApplyTriage(state, i, outcome) PROVE Typed(r)
    BY <1>1, <1>4, TriageFacts
  <1>5. ASSUME NEW i \in Issues, NEW run \in Runs, job.key = Reconcile(i),
               r = ApplyReconcile(state, i, run, outcome, cycle)
        PROVE  Typed(r)
    <2>1. Kind(job.key) = "reconcile"
      BY <1>5, Keys
    <2> QED BY <1>1, <1>5, <2>1, ReconcileFacts
  <1>6. ASSUME job.key \in ServiceKeys, r = ApplyService(state, job.key, outcome, now)
        PROVE  Typed(r)
    BY <1>1, <1>6, ServiceFacts
  <1> QED BY <1>2, <1>3, <1>4, <1>5, <1>6 DEF AppliedAs

-----------------------------------------------------------------------------
LEMMA TypeInitially == Init => TypeInv
  <1> SUFFICES ASSUME Init PROVE TypeInv
    OBVIOUS
  <1>1. \A w \in Workers : worker[w] = NoJob
    BY DEF Init
  <1> QED BY <1>1, NoJobTyped, EmptyTyped, Bounds, TasksAssumption DEF Init, TypeInv, AllKeys

(* A step of the coordinator that leaves the goroutines alone.             *)
LEMMA TypeStep ==
  ASSUME TypeInv, UNCHANGED <<version, latest, now, cycle, running, worker>>,
         Typed(state'), Typed(copy'),
         \/ at' # "picked" /\ pick' = pick /\ at # "picked"
         \/ at' = "picked" /\ TypedJob(pick') /\ pick' # NoJob /\ pick'.key \in AllKeys
            /\ pick'.phase = "new" /\ pick'.copy = EmptyState
  PROVE  TypeInv'
  <1>1. \A w \in Workers : TypedJob(worker[w])' 
    BY DEF TypeInv, TypedJob
  <1>2. pick' = pick => TypedJob(pick)'
    BY DEF TypeInv, TypedJob
  <1> QED BY <1>1, <1>2 DEF TypeInv

LEMMA TypeStart ==
  ASSUME IInv, TypeInv, Start
  PROVE  TypeInv'
  <1> DEFINE w == CHOOSE v \in Workers \ Busy : TRUE
             i == Subject(pick.key)
             run == (latest[i] % MaxRuns) + 1
  <1>1. pick.key \in AllKeys /\ TypedJob(pick)
    BY DEF Start, TypeInv
  <1>2. PICK made \in BOOLEAN :
          /\ made => Kind(pick.key) = "work"
          /\ latest' = IF made THEN [latest EXCEPT ![i] = run] ELSE latest
          /\ worker' = [worker EXCEPT ![w] = IF made THEN [pick EXCEPT !.run = run] ELSE pick]
    BY DEF Start
  <1>3. made => i \in Issues
    BY <1>1, <1>2, Keys DEF AllKeys
  <1>4. made => run \in Runs
    <2>1. made => latest[i] \in Nat
      BY <1>3, TasksAssumption DEF TypeInv, Runs
    <2>2. \A n \in Nat : (n % MaxRuns) + 1 \in 0 .. MaxRuns
      BY TasksAssumption
    <2> QED BY <2>1, <2>2 DEF Runs
  <1>5. latest' \in [Issues -> Runs]
    BY <1>2, <1>3, <1>4 DEF TypeInv
  <1> HIDE DEF run
  <1>6. PICK r : TypedJob(r) /\ worker' = [worker EXCEPT ![w] = r]
    <2>1. CASE made
      <3> DEFINE r == [pick EXCEPT !.run = run]
      <3>1. DOMAIN pick = JobFields
        BY DEF IInv, Shape
      <3>2. TypedJob(r)
        BY <1>1, <1>4, <2>1, <3>1 DEF TypedJob, JobFields
      <3>3. worker' = [worker EXCEPT ![w] = r]
        BY <1>2, <2>1
      <3> HIDE DEF r
      <3> QED BY <3>2, <3>3
    <2>2. CASE ~made
      BY <1>1, <1>2, <2>2
    <2> QED BY <2>1, <2>2
  <1>7. \A v \in Workers : TypedJob(worker'[v])
    BY <1>6 DEF TypeInv, IInv, Shape
  <1>8. \A v \in Workers : TypedJob(worker[v])'
    BY <1>7 DEF TypedJob
  <1>9. Typed(state')
    BY <1>1, StartedFacts DEF Start, TypeInv, AllKeys
  <1>10. /\ pick' = NoJob /\ at' # "picked" /\ UNCHANGED <<version, now, copy, cycle>>
         /\ running' = running \cup {pick.key}
    BY DEF Start
  <1>11. TypedJob(pick)'
    BY <1>10, NoJobTyped DEF TypedJob
  <1> QED BY <1>1, <1>5, <1>8, <1>9, <1>10, <1>11, NoJobTyped DEF TypeInv

LEMMA TypeServe ==
  ASSUME IInv, TypeInv, NEW w \in Workers, NEW r, TypedJob(r),
         worker' = [worker EXCEPT ![w] = r], Typed(state'),
         UNCHANGED <<version, latest, now, cycle, copy, pick>>,
         running' \subseteq running, at # "picked", at' # "picked"
  PROVE  TypeInv'
  <1>1. \A v \in Workers : TypedJob(worker'[v])
    BY DEF TypeInv, IInv, Shape
  <1>2. \A v \in Workers : TypedJob(worker[v])'
    BY <1>1 DEF TypedJob
  <1>3. TypedJob(pick)'
    BY DEF TypeInv, TypedJob
  <1> QED BY <1>2, <1>3 DEF TypeInv

LEMMA TypeDie ==
  ASSUME TypeInv, NEW place \in {"idle", "dead"}, Die(place)
  PROVE  TypeInv'
  <1>1. /\ \A w \in Workers : worker'[w] = NoJob
        /\ pick' = NoJob /\ copy' = EmptyState /\ at' # "picked"
        /\ UNCHANGED <<state, version, latest, now, cycle, running>>
    BY DEF Die, world
  <1>2. /\ TypedJob(pick)' /\ \A w \in Workers : TypedJob(worker[w])'
    BY <1>1, NoJobTyped DEF TypedJob
  <1> QED BY <1>1, <1>2, NoJobTyped, EmptyTyped DEF TypeInv

LEMMA TypeWorld ==
  ASSUME TypeInv, UNCHANGED <<state, copy, pick, at, latest, running, worker>>,
         version' \in [Issues -> Versions \ {0}], now' \in 0 .. MaxTime,
         cycle' \in 1 .. MaxCycles
  PROVE  TypeInv'
  <1>1. /\ TypedJob(pick)' /\ \A w \in Workers : TypedJob(worker[w])'
    BY DEF TypeInv, TypedJob
  <1> QED BY <1>1 DEF TypeInv

LEMMA TypeInductive == IInv /\ TypeInv /\ [Next]_vars => TypeInv'
  <1> SUFFICES ASSUME IInv, TypeInv, [Next]_vars PROVE TypeInv'
    OBVIOUS
  <1>0. /\ Typed(state) /\ Typed(copy) /\ Typed(EmptyState)
        /\ version \in [Issues -> Versions \ {0}] /\ cycle \in 1 .. MaxCycles
    BY EmptyTyped DEF TypeInv
  <1>1. CASE Reload
    <2>1. /\ Choose(state) /\ at = "fill"
          /\ UNCHANGED <<state, version, latest, now, copy, cycle, running, worker>>
      BY <1>1 DEF Reload, world
    <2> QED BY <1>0, <2>1, ChooseTyped, TypeStep
  <1>2. CASE RefreshRead
    <2>1. /\ copy' = Mirror(state, version) /\ at = "fill" /\ at' = "refreshing"
          /\ UNCHANGED <<state, version, latest, now, pick, cycle, running, worker>>
      BY <1>2 DEF RefreshRead, world
    <2>2. Typed(copy')
      BY <1>0, <2>1, MirrorTyped
    <2> QED BY <1>0, <2>1, <2>2, TypeStep
  <1>3. ASSUME NEW due \in SUBSET Roles, NEW active \in SUBSET Issues,
               RefreshWrite(due, active)
        PROVE  TypeInv'
    <2> DEFINE s == SyncServiceTasks(copy, due, active, running, cycle)
    <2>1. /\ state' = s /\ Choose(s) /\ at = "refreshing" /\ copy' = EmptyState
          /\ UNCHANGED <<version, latest, now, cycle, running, worker>>
      BY <1>3 DEF RefreshWrite, world
    <2>2. Typed(s)
      BY <1>0, SyncFacts
    <2> HIDE DEF s
    <2> QED BY <1>0, <2>1, <2>2, ChooseTyped, TypeStep
  <1>4. CASE RefreshFail
    <2>1. /\ at = "refreshing" /\ at' # "picked" /\ copy' = EmptyState
          /\ UNCHANGED <<state, version, latest, now, pick, cycle, running, worker>>
      BY <1>4 DEF RefreshFail, world
    <2> QED BY <1>0, <2>1, TypeStep
  <1>5. CASE Start
    BY <1>5, TypeStart
  <1>6. ASSUME NEW w \in Workers, SyncRead(w) \/ SyncWrite(w) PROVE TypeInv'
    <2>1. /\ UNCHANGED <<version, latest, now, at, cycle, copy, pick, running>>
          /\ TypedJob(worker[w]) /\ DOMAIN worker[w] = JobFields
      BY <1>6 DEF SyncRead, SyncWrite, world, loop, TypeInv, IInv, Shape
    <2>2. CASE SyncRead(w)
      <3> DEFINE m == Mirror(state, version)
                 r == [worker[w] EXCEPT !.phase = "read", !.copy = m]
      <3>1. Typed(m)
        BY <1>0, MirrorTyped
      <3> HIDE DEF m
      <3>2. TypedJob(r)
        BY <2>1, <3>1 DEF TypedJob, JobFields
      <3>3. worker' = [worker EXCEPT ![w] = r] /\ state' = state
        BY <2>2 DEF SyncRead, m
      <3> HIDE DEF r
      <3>4. CASE at = "picked"
        <4>1. \A v \in Workers : TypedJob(worker'[v])
          BY <3>2, <3>3 DEF TypeInv, IInv, Shape
        <4>2. TypedJob(pick)' /\ \A v \in Workers : TypedJob(worker[v])'
          BY <2>1, <4>1 DEF TypeInv, TypedJob
        <4> QED BY <2>1, <3>3, <4>2 DEF TypeInv
      <3> QED BY <1>0, <2>1, <3>2, <3>3, <3>4, TypeServe
    <2>3. CASE SyncWrite(w)
      <3> DEFINE r == [worker[w] EXCEPT !.phase = "done", !.copy = EmptyState]
      <3>1. Typed(worker[w].copy)
        BY <2>1 DEF TypedJob
      <3>2. TypedJob(r)
        BY <1>0, <2>1 DEF TypedJob, JobFields
      <3>3. worker' = [worker EXCEPT ![w] = r] /\ state' = worker[w].copy
        BY <2>3 DEF SyncWrite
      <3> HIDE DEF r
      <3>4. CASE at = "picked"
        <4>1. \A v \in Workers : TypedJob(worker'[v])
          BY <3>2, <3>3 DEF TypeInv, IInv, Shape
        <4>2. TypedJob(pick)' /\ \A v \in Workers : TypedJob(worker[v])'
          BY <2>1, <4>1 DEF TypeInv, TypedJob
        <4> QED BY <2>1, <3>1, <3>3, <4>2 DEF TypeInv
      <3> QED BY <1>0, <2>1, <3>1, <3>2, <3>3, <3>4, TypeServe
    <2> QED BY <1>6, <2>2, <2>3
  <1>8. ASSUME NEW w \in Workers, Complete(w) PROVE TypeInv'
    <2>1. PICK outcome \in Outcomes(worker[w]) : state' = Applied(worker[w], outcome)
      BY <1>8 DEF Complete
    <2>2. Typed(state')
      BY <2>1, AppliedTyped DEF TypeInv
    <2>3. /\ worker' = [worker EXCEPT ![w] = NoJob] /\ running' \subseteq running
          /\ at = "wait" /\ at' = "fill"
          /\ UNCHANGED <<version, latest, now, cycle, copy, pick>>
      BY <1>8 DEF Complete, world
    <2> QED BY <2>2, <2>3, NoJobTyped, TypeServe
  <1>9. ASSUME NEW w \in Workers, Panic(w) PROVE TypeInv'
    BY <1>9, TypeDie DEF Panic
  <1>10. CASE Crash
    BY <1>10, TypeDie DEF Crash
  <1>11. CASE NextCycle
    <2>1. /\ UNCHANGED <<state, copy, pick, latest, worker, version, now>>
          /\ running' = {} /\ cycle' = cycle + 1 /\ cycle < MaxCycles
          /\ at \in {"idle", "dead"} /\ at' = "fill"
      BY <1>11 DEF NextCycle, world
    <2>2. cycle' \in 1 .. MaxCycles
      BY <1>0, <2>1, TasksAssumption
    <2>3. /\ TypedJob(pick)' /\ \A w \in Workers : TypedJob(worker[w])'
      BY <2>1 DEF TypeInv, TypedJob
    <2> QED BY <2>1, <2>2, <2>3 DEF TypeInv
  <1>13. ASSUME NEW i \in Issues, Edit(i) PROVE TypeInv'
    <2>1. /\ UNCHANGED <<state, copy, pick, at, latest, running, worker, now, cycle>>
          /\ \E v \in Revisions(i) : version' = [version EXCEPT ![i] = v]
      BY <1>13 DEF Edit, loop
    <2>2. version[i] \in Versions \ {0}
      BY <1>0
    <2>3. Revisions(i) \subseteq Versions \ {0}
      BY <2>2, TasksAssumption DEF Revisions, Versions
    <2>4. version' \in [Issues -> Versions \ {0}]
      BY <1>0, <2>1, <2>3
    <2>5. now' \in 0 .. MaxTime /\ cycle' \in 1 .. MaxCycles
      BY <1>0, <2>1 DEF TypeInv
    <2> QED BY <2>1, <2>4, <2>5, TypeWorld
  <1>14. CASE Tick
    <2>1. /\ UNCHANGED <<state, copy, pick, at, latest, running, worker, version, cycle>>
          /\ now' = now + 1 /\ now < MaxTime
      BY <1>14 DEF Tick, loop
    <2>2. now' \in 0 .. MaxTime
      BY <2>1, TasksAssumption DEF TypeInv
    <2> QED BY <1>0, <2>1, <2>2, TypeWorld
  <1>15. CASE UNCHANGED vars
    <2>1. /\ UNCHANGED <<state, copy, pick, at, latest, running, worker, version, now, cycle>>
      BY <1>15 DEF vars
    <2>2. now' \in 0 .. MaxTime
      BY <2>1 DEF TypeInv
    <2> QED BY <1>0, <2>1, <2>2, TypeWorld
  <1> QED BY <1>1, <1>2, <1>3, <1>4, <1>5, <1>6, <1>8, <1>9, <1>10, <1>11,
             <1>13, <1>14, <1>15 DEF Next, Coordinate, Serve

(* The state file, the copies that goroutines hold of it and the           *)
(* coordinator's own variables always have their types.                    *)
THEOREM TypeCorrect == Spec => []TypeOK
  <1>1. IInv /\ TypeInv => TypeOK
    <2> SUFFICES ASSUME IInv, TypeInv PROVE TypeOK
      OBVIOUS
    <2>1. IsState(state) /\ IsState(copy) /\ \A w \in Workers : IsState(worker[w].copy)
      BY TypedIsState DEF TypeInv, TypedJob
    <2>2. at \in Places /\ (at = "picked" => Busy # Workers)
      BY DEF IInv, Shape, Slots
    <2> QED BY <2>1, <2>2 DEF TypeOK, TypeInv, AllKeys
  <1>2. IInv /\ TypeInv /\ [Next]_vars => IInv' /\ TypeInv'
    BY Inductive, TypeInductive
  <1> QED BY <1>1, <1>2, Initially, TypeInitially, PTL DEF Spec

-----------------------------------------------------------------------------
(* What a state says of the triage of one issue, where v is the issue's    *)
(* current revision.                                                       *)
Consistent(issue, t, v) ==
  /\ issue.fp <= v
  /\ t.status # "none" => issue.fp # 0
  /\ t.id /\ t.status = "completed" =>
       /\ issue.triaged = t.fp
       /\ t.fp <= issue.fp
       /\ t.fp = issue.fp => Fresh(issue)

AllConsistent(s) ==
  \A i \in Issues : Consistent(s.issue[i], s.task[Triage(i)], version[i])

AllMirrored(s) == \A i \in Issues : s.issue[i].fp # 0

(* Every state on file or in a goroutine's hands is consistent; and once a *)
(* refresh has been written, every one has the issues mirrored.            *)
SettledInv ==
  /\ AllConsistent(state) /\ AllConsistent(copy)
  /\ \A w \in Workers : AllConsistent(worker[w].copy)
  /\ at = "refreshing" => AllMirrored(copy)
  /\ \A w \in Workers : worker[w].phase = "read" => AllMirrored(worker[w].copy)
  /\ ~refresh \/ at = "picked" \/ Busy # {} => AllMirrored(state)

LEMMA TypedNat ==
  ASSUME NEW s, Typed(s), NEW i \in Issues
  PROVE  /\ s.issue[i] \in IssueRec /\ s.task[Triage(i)] \in TaskRec(Triage(i))
         /\ s.issue[i].fp \in Nat /\ s.task[Triage(i)].fp \in Nat
  BY Keys, TasksAssumption DEF Typed, IssueRec, TaskRec, Versions

LEMMA ConsistentEmpty ==
  ASSUME version \in [Issues -> Versions \ {0}]
  PROVE  AllConsistent(EmptyState)
  <1> SUFFICES ASSUME NEW i \in Issues PROVE Consistent(NoIssue, NoTask, version[i])
    BY Keys DEF AllConsistent, EmptyState
  <1>1. version[i] \in Versions
    OBVIOUS
  <1> QED BY <1>1, TasksAssumption DEF Consistent, NoIssue, NoTask, Versions

LEMMA ConsistentMirrored ==
  ASSUME NEW issue \in IssueRec, NEW t, t.fp \in Nat, NEW v \in Versions \ {0},
         Consistent(issue, t, v)
  PROVE  Consistent(Mirrored(issue, v), t, v) /\ Mirrored(issue, v).fp # 0
  <1> DEFINE m == Mirrored(issue, v)
  <1>1. /\ m.fp = v /\ m.triaged = issue.triaged
        /\ m.triage = IF issue.triaged # v THEN "queued" ELSE issue.triage
    BY DEF Mirrored, IssueRec
  <1>2. v \in Nat /\ v # 0 /\ issue.fp \in Nat /\ issue.fp <= v
    BY TasksAssumption DEF Versions, IssueRec, Consistent
  <1> HIDE DEF m
  <1>3. ASSUME t.id, t.status = "completed"
        PROVE  m.triaged = t.fp /\ t.fp <= m.fp /\ (t.fp = m.fp => Fresh(m))
    <2>1. issue.triaged = t.fp /\ t.fp <= issue.fp /\ (t.fp = issue.fp => Fresh(issue))
      BY <1>3 DEF Consistent
    <2> QED BY <1>1, <1>2, <2>1 DEF Fresh
  <1> QED BY <1>1, <1>2, <1>3 DEF Consistent, m

LEMMA MirrorConsistent ==
  ASSUME NEW s, Typed(s), version \in [Issues -> Versions \ {0}], AllConsistent(s)
  PROVE  AllConsistent(Mirror(s, version)) /\ AllMirrored(Mirror(s, version))
  BY MirrorTyped, ConsistentMirrored, TypedNat DEF AllConsistent, AllMirrored

(* Only the fingerprint and the priority of an issue matter to its triage. *)
SameTriage(a, b) == a.fp = b.fp /\ a.triage = b.triage /\ a.triaged = b.triaged

LEMMA ConsistentSame ==
  ASSUME NEW a, NEW b, SameTriage(a, b), NEW t, NEW v, Consistent(a, t, v)
  PROVE  Consistent(b, t, v)
  BY DEF SameTriage, Consistent, Fresh

LEMMA SyncConsistent ==
  ASSUME NEW s, Typed(s), NEW due \in SUBSET Roles, NEW active, NEW working,
         NEW c \in 1 .. MaxCycles, AllConsistent(s), AllMirrored(s),
         NEW r, r = SyncServiceTasks(s, due, active, working, c)
  PROVE  AllConsistent(r) /\ AllMirrored(r)
  <1> SUFFICES ASSUME NEW i \in Issues
               PROVE  /\ Consistent(r.issue[i], r.task[Triage(i)], version[i])
                      /\ r.issue[i].fp # 0
    BY DEF AllConsistent, AllMirrored
  <1> DEFINE k == Triage(i)
             old == s.task[k]
             swept == Swept(s, k, due, active, c)
             issue == r.issue[i]
             t == r.task[k]
  <1>1. /\ Consistent(s.issue[i], old, version[i]) /\ s.issue[i].fp # 0
        /\ s.issue[i] \in IssueRec /\ old \in TaskRec(k)
    BY TypedNat DEF AllConsistent, AllMirrored
  <1>2. /\ issue = Untriaged(s, i, active)
        /\ \/ t = swept
           \/ \E deps \in SUBSET ServiceKeys : t = Upserted(k, swept, Queued(0, issue.fp, 0, deps))
    <2>1. /\ r.issue[i] = Untriaged(s, i, active)
          /\ TriageUpsert(i, r.issue[i], Swept(s, Triage(i), due, active, c),
                          r.task[Triage(i)], Work(i) \in working)
      <3>1. TriageUpsert(i, r.issue[i], Swept(s, Triage(i), due, active, c),
                         r.task[Triage(i)], Work(i) \in working)
        BY SyncFacts
      <3>2. r.issue[i] = Untriaged(s, i, active)
        BY DEF SyncServiceTasks
      <3> QED BY <3>1, <3>2
    <2> QED BY <2>1 DEF TriageUpsert
  <1>3. /\ issue.fp = s.issue[i].fp
        /\ \/ issue = s.issue[i]
           \/ old.status = "running" /\ i \notin active
    BY <1>1, <1>2 DEF Untriaged, IssueRec
  <1>4. Kind(k) = "triage"
    BY Keys
  <1>5. swept = old \/ swept.status = "queued"
    BY <1>1, <1>4 DEF Swept, Lapsed, Requeued, TaskRec
  <1>6. swept.status # "none" => old.status # "none"
    BY <1>1, <1>4 DEF Swept, Lapsed, Requeued, TaskRec
  <1>7. t = swept \/ t.status = "queued"
    BY <1>2 DEF Upserted, Queued, NoTask
  <1>8. t = old \/ t.status = "queued"
    BY <1>5, <1>7
  <1>9. issue.fp # 0 /\ issue.fp <= version[i]
    BY <1>1, <1>3 DEF Consistent
  <1>10. ASSUME t.id, t.status = "completed"
         PROVE  /\ issue.triaged = t.fp /\ t.fp <= issue.fp
                /\ t.fp = issue.fp => Fresh(issue)
    <2>1. t = old /\ issue = s.issue[i]
      BY <1>3, <1>8, <1>10
    <2> QED BY <1>1, <1>10, <2>1 DEF Consistent
  <1> HIDE DEF issue, t
  <1>11. Consistent(issue, t, version[i])
    BY <1>9, <1>10 DEF Consistent
  <1> QED BY <1>9, <1>11 DEF issue, t

LEMMA StartConsistent ==
  ASSUME NEW s, Typed(s), NEW k \in AllKeys, AllConsistent(s), AllMirrored(s)
  PROVE  AllConsistent(MarkStarted(s, k)) /\ AllMirrored(MarkStarted(s, k))
  <1> DEFINE r == MarkStarted(s, k)
  <1> SUFFICES ASSUME NEW j \in Issues
               PROVE  /\ Consistent(r.issue[j], r.task[Triage(j)], version[j])
                      /\ r.issue[j].fp # 0
    BY DEF AllConsistent, AllMirrored
  <1>1. /\ Consistent(s.issue[j], s.task[Triage(j)], version[j]) /\ s.issue[j].fp # 0
        /\ s.issue[j] \in IssueRec /\ s.task[Triage(j)] \in TaskRec(Triage(j))
        /\ Triage(j) \in ServiceKeys
    BY TypedNat, Keys DEF AllConsistent, AllMirrored
  <1>2. CASE \E i \in Issues : k = Work(i)
    <2>1. PICK i \in Issues : k = Work(i)
      BY <1>2
    <2>2. /\ r.task = s.task
          /\ r.issue[j] \in {s.issue[j], StartedIssue(s.issue[j])}
      BY <2>1, StartedFacts
    <2>3. SameTriage(s.issue[j], r.issue[j])
      BY <1>1, <2>2 DEF SameTriage, StartedIssue, IssueRec
    <2> HIDE DEF r
    <2>4. Consistent(r.issue[j], s.task[Triage(j)], version[j])
      BY <1>1, <2>3, ConsistentSame
    <2> QED BY <1>1, <2>2, <2>3, <2>4 DEF SameTriage
  <1>3. CASE k \in ServiceKeys
    <2>1. r.issue = s.issue
      BY <1>3, StartedFacts
    <2>2. r.task[Triage(j)] \in {s.task[Triage(j)], StartedTask(k, s.task[Triage(j)])}
      BY <1>1, <1>3, StartedFacts
    <2>3. StartedTask(k, s.task[Triage(j)]).status = "running"
      BY <1>1 DEF StartedTask, TaskRec
    <2> HIDE DEF r
    <2> QED BY <1>1, <2>1, <2>2, <2>3 DEF Consistent
  <1> QED BY <1>2, <1>3 DEF AllKeys

LEMMA AppliedConsistent ==
  ASSUME TypeInv, NEW job, TypedJob(job), NEW outcome \in Outcomes(job), AllConsistent(state)
  PROVE  /\ AllConsistent(Applied(job, outcome))
         /\ AllMirrored(state) => AllMirrored(Applied(job, outcome))
  <1> DEFINE r == Applied(job, outcome)
  <1> SUFFICES ASSUME NEW j \in Issues
               PROVE  /\ Consistent(r.issue[j], r.task[Triage(j)], version[j])
                      /\ r.issue[j].fp = state.issue[j].fp
    BY DEF AllConsistent, AllMirrored
  <1>1. /\ job.key \in AllKeys /\ Typed(state) /\ job.run \in Runs
        /\ outcome = "pause" => now < MaxTime
        /\ now \in 0 .. MaxTime /\ cycle \in 1 .. MaxCycles
        /\ Kind(job.key) = "reconcile" =>
             outcome \in {"error", "waiting", "blocked", "completed"}
    BY OutcomeFacts DEF TypeInv, TypedJob
  <1>2. AppliedAs(job, outcome, r)
    BY <1>1, AppliedCases
  <1>3. /\ Consistent(state.issue[j], state.task[Triage(j)], version[j])
        /\ state.issue[j] \in IssueRec /\ state.task[Triage(j)] \in TaskRec(Triage(j))
        /\ Triage(j) \in ServiceKeys /\ Kind(Triage(j)) = "triage"
    BY <1>1, TypedNat, Keys DEF AllConsistent
  <1>4. SUFFICES \/ /\ r.task[Triage(j)] = state.task[Triage(j)]
                    /\ SameTriage(state.issue[j], r.issue[j])
                 \/ /\ r.issue[j].fp = state.issue[j].fp
                    /\ Consistent(r.issue[j], r.task[Triage(j)], version[j])
    <2> HIDE DEF r
    <2> QED BY <1>3, ConsistentSame DEF SameTriage
  <1> HIDE DEF r
  <1>5. ASSUME NEW i \in Issues, r = ApplyWork(state, i, job.run, outcome, now)
        PROVE  /\ r.task[Triage(j)] = state.task[Triage(j)]
               /\ SameTriage(state.issue[j], r.issue[j])
    <2>1. Triage(j) # Reconcile(i)
      BY Keys
    <2>2. /\ r.issue[j] \in {state.issue[j], Paused(state.issue[j], job.run, now),
                             Returned(state.issue[j], job.run, outcome)}
          /\ r.task[Triage(j)] = state.task[Triage(j)]
      BY <1>1, <1>3, <1>5, <2>1, WorkFacts
    <2> QED BY <1>3, <2>2 DEF SameTriage, Paused, Returned, IssueRec
  <1>6. ASSUME NEW i \in Issues, r = ApplyTriage(state, i, outcome)
        PROVE  \/ /\ r.task[Triage(j)] = state.task[Triage(j)]
                  /\ SameTriage(state.issue[j], r.issue[j])
               \/ /\ r.issue[j].fp = state.issue[j].fp
                  /\ Consistent(r.issue[j], r.task[Triage(j)], version[j])
    <2>1. CASE i # j \/ r = state
      <3>1. i # j => Triage(j) # Triage(i)
        BY Keys
      <3> QED BY <1>1, <1>3, <1>6, <2>1, <3>1, TriageFacts DEF SameTriage
    <2>2. CASE i = j /\ r # state
      <3> DEFINE issue == state.issue[j]
                 t == state.task[Triage(j)]
      <3>1. t.status # "none"
        BY <1>1, <1>6, <2>2, TriageFacts
      <3>2. PICK done \in {"completed", "failed", "queued"}, fp \in Versions, f \in Versions :
              /\ done = "completed" => fp = issue.fp /\ f = issue.fp
              /\ r.issue[j] = Judged(issue, done, fp)
              /\ r.task[Triage(j)] = JudgedTask(t, done, f)
        BY <1>1, <1>6, <2>2, TriageFacts
      <3>3. /\ r.issue[j].fp = issue.fp /\ r.issue[j].triage = done /\ r.issue[j].triaged = fp
        BY <1>3, <3>2 DEF Judged, IssueRec
      <3>4. r.task[Triage(j)].status = done /\ r.task[Triage(j)].fp = f
        BY <1>3, <3>2 DEF JudgedTask, Settled, TaskRec
      <3>5. issue.fp # 0 /\ issue.fp <= version[j]
        BY <1>3, <3>1 DEF Consistent
      <3>6. issue.fp \in Nat
        BY <1>3, TasksAssumption DEF IssueRec, Versions
      <3>7. Consistent(r.issue[j], r.task[Triage(j)], version[j])
        BY <3>2, <3>3, <3>4, <3>5, <3>6 DEF Consistent, Fresh
      <3> QED BY <3>3, <3>7
    <2> QED BY <2>1, <2>2
  <1>7. ASSUME NEW i \in Issues, NEW run \in Runs, job.key = Reconcile(i),
               r = ApplyReconcile(state, i, run, outcome, cycle)
        PROVE  /\ r.task[Triage(j)] = state.task[Triage(j)]
               /\ SameTriage(state.issue[j], r.issue[j])
    <2>1. Kind(job.key) = "reconcile" /\ Triage(j) # Reconcile(i)
      BY <1>7, Keys
    <2>3. outcome \in {"error", "waiting", "blocked", "completed"}
      BY <1>1, <2>1
    <2>4. Reconciled(state, i, r)
      BY <1>1, <1>7, <2>3, ReconcileFacts
    <2>2. /\ r.task[Triage(j)] = state.task[Triage(j)]
          /\ r.issue[j] = state.issue[j] \/ LookedAt(state.issue[j], r.issue[j])
      BY <1>3, <2>1, <2>4 DEF Reconciled
    <2> QED BY <1>3, <2>2 DEF SameTriage, LookedAt, Looked, IssueRec
  <1>8. ASSUME job.key \in ServiceKeys, Kind(job.key) \in {"scout", "sync"},
               r = ApplyService(state, job.key, outcome, now)
        PROVE  /\ r.task[Triage(j)] = state.task[Triage(j)]
               /\ SameTriage(state.issue[j], r.issue[j])
    <2>1. Triage(j) # job.key
      BY <1>3, <1>8
    <2> QED BY <1>1, <1>3, <1>8, <2>1, ServiceFacts DEF SameTriage
  <1> QED BY <1>2, <1>5, <1>6, <1>7, <1>8 DEF AppliedAs

-----------------------------------------------------------------------------
LEMMA SettledInitially == Init => SettledInv
  <1> SUFFICES ASSUME Init PROVE SettledInv
    OBVIOUS
  <1>1. /\ \A w \in Workers : worker[w] = NoJob
        /\ state = EmptyState /\ copy = EmptyState
        /\ at = "fill" /\ refresh
    BY DEF Init
  <1>2. AllConsistent(EmptyState)
    BY Bounds, ConsistentEmpty DEF Init
  <1>3. Busy = {}
    BY <1>1 DEF Busy
  <1> QED BY <1>1, <1>2, <1>3, NoJobTyped DEF SettledInv

(* A revision that is not undone keeps every state consistent.             *)
LEMMA ConsistentLater ==
  ASSUME NEW s, Typed(s), AllConsistent(s),
         \A i \in Issues : version[i] \in Nat /\ version'[i] \in Nat /\ version[i] <= version'[i]
  PROVE  \A i \in Issues : Consistent(s.issue[i], s.task[Triage(i)], version'[i])
  <1> SUFFICES ASSUME NEW i \in Issues
               PROVE  Consistent(s.issue[i], s.task[Triage(i)], version'[i])
    OBVIOUS
  <1>1. Consistent(s.issue[i], s.task[Triage(i)], version[i]) /\ s.issue[i].fp \in Nat
    BY TypedNat DEF AllConsistent
  <1> QED BY <1>1 DEF Consistent

LEMMA SettledWorld ==
  ASSUME TypeInv, SettledInv, UNCHANGED <<state, copy, at, refresh, worker>>,
         \A i \in Issues : version[i] \in Nat /\ version'[i] \in Nat /\ version[i] <= version'[i]
  PROVE  SettledInv'
  <1>1. \A s : Typed(s) /\ AllConsistent(s) =>
          \A i \in Issues : Consistent(s.issue[i], s.task[Triage(i)], version'[i])
    BY ConsistentLater
  <1>2. Typed(state) /\ Typed(copy) /\ \A w \in Workers : Typed(worker[w].copy)
    BY DEF TypeInv, TypedJob
  <1>3. AllConsistent(state)'
    BY <1>1, <1>2 DEF SettledInv, AllConsistent
  <1>4. AllConsistent(copy)'
    BY <1>1, <1>2 DEF SettledInv, AllConsistent
  <1>5. ASSUME NEW w \in Workers PROVE AllConsistent(worker[w].copy)'
    BY <1>1, <1>2 DEF SettledInv, AllConsistent
  <1>6. Busy' = Busy
    BY DEF Busy
  <1> QED BY <1>3, <1>4, <1>5, <1>6 DEF SettledInv, AllMirrored

(* The other steps leave the issues on GitHub alone.                       *)
LEMMA SettledStep ==
  ASSUME SettledInv, version' = version,
         NEW s, state' = s, AllConsistent(s), NEW c, copy' = c, AllConsistent(c),
         \A w \in Workers : AllConsistent(worker'[w].copy),
         at' = "refreshing" => AllMirrored(c),
         \A w \in Workers : worker'[w].phase = "read" => AllMirrored(worker'[w].copy),
         ~refresh' \/ at' = "picked" \/ Busy' # {} => AllMirrored(s)
  PROVE  SettledInv'
  <1>1. AllConsistent(state)' /\ AllConsistent(copy)'
    BY DEF AllConsistent
  <1>2. \A w \in Workers : AllConsistent(worker[w].copy)'
    BY DEF AllConsistent
  <1>3. (at = "refreshing" => AllMirrored(copy))'
    BY DEF AllMirrored
  <1>4. \A w \in Workers : (worker[w].phase = "read" => AllMirrored(worker[w].copy))'
    BY DEF AllMirrored
  <1>5. (~refresh \/ at = "picked" \/ Busy # {} => AllMirrored(state))'
    BY DEF AllMirrored
  <1> QED BY <1>1, <1>2, <1>3, <1>4, <1>5 DEF SettledInv

(* No issue revision is ever undone.                                       *)
NoRevert == "revert" \notin Faults

LEMMA SettledInductive ==
  ASSUME NoRevert
  PROVE  IInv /\ TypeInv /\ SettledInv /\ [Next]_vars => SettledInv'
  <1> SUFFICES ASSUME IInv, TypeInv, SettledInv, [Next]_vars PROVE SettledInv'
    OBVIOUS
  <1>0. /\ Typed(state) /\ Typed(copy) /\ Typed(EmptyState)
        /\ version \in [Issues -> Versions \ {0}] /\ cycle \in 1 .. MaxCycles
        /\ worker = [w \in Workers |-> worker[w]]
        /\ \A w \in Workers : TypedJob(worker[w]) /\ DOMAIN worker[w] = JobFields
        /\ AllConsistent(state) /\ AllConsistent(copy)
    BY EmptyTyped DEF TypeInv, IInv, Shape, SettledInv
  <1>e. AllConsistent(EmptyState)
    BY <1>0, ConsistentEmpty
  <1>i. /\ \A w \in Workers : AllConsistent(worker[w].copy)
        /\ \A w \in Workers : worker[w].phase = "read" => AllMirrored(worker[w].copy)
        /\ ~refresh \/ at = "picked" \/ Busy # {} => AllMirrored(state)
        /\ at = "refreshing" => AllMirrored(copy)
    BY DEF SettledInv
  <1>1. CASE Reload
    <2>1. /\ Choose(state) /\ at = "fill" /\ ~refresh
          /\ UNCHANGED <<state, version, copy, refresh, worker>>
      BY <1>1 DEF Reload, world
    <2>2. at' # "refreshing"
      BY <2>1, ChooseStep
    <2> QED BY <1>0, <1>i, <2>1, <2>2, SettledStep
  <1>2. CASE RefreshRead
    <2>1. /\ copy' = Mirror(state, version) /\ at = "fill" /\ at' = "refreshing"
          /\ UNCHANGED <<state, version, refresh, worker>>
      BY <1>2 DEF RefreshRead, world
    <2>2. Busy' = Busy
      BY <2>1 DEF Busy
    <2> QED BY <1>0, <1>i, <2>1, <2>2, MirrorConsistent, SettledStep
  <1>3. ASSUME NEW due \in SUBSET Roles, NEW active \in SUBSET Issues,
               RefreshWrite(due, active)
        PROVE  SettledInv'
    <2> DEFINE s == SyncServiceTasks(copy, due, active, running, cycle)
    <2>1. /\ state' = s /\ Choose(s) /\ at = "refreshing" /\ copy' = EmptyState
          /\ UNCHANGED <<version, worker>>
      BY <1>3 DEF RefreshWrite, world
    <2>2. AllConsistent(s) /\ AllMirrored(s)
      BY <1>0, <1>i, <2>1, SyncConsistent
    <2> HIDE DEF s
    <2>3. at' # "refreshing"
      BY <2>1, ChooseStep
    <2> QED BY <1>0, <1>e, <1>i, <2>1, <2>2, <2>3, SettledStep
  <1>4. CASE RefreshFail
    <2>1. /\ at = "refreshing" /\ at' \notin {"picked", "refreshing"} /\ copy' = EmptyState
          /\ UNCHANGED <<state, version, refresh, worker>>
      BY <1>4 DEF RefreshFail, world
    <2>2. Busy' = Busy
      BY <2>1 DEF Busy
    <2> QED BY <1>0, <1>e, <1>i, <2>1, <2>2, SettledStep
  <1>5. CASE Start
    <2>1. /\ at = "picked" /\ at' # "refreshing" /\ state' = MarkStarted(state, pick.key)
          /\ UNCHANGED <<version, copy, refresh>>
      BY <1>5 DEF Start
    <2>2. pick.key \in AllKeys /\ AllMirrored(state)
      BY <1>i, <2>1 DEF TypeInv
    <2>3. AllConsistent(state') /\ AllMirrored(state')
      BY <1>0, <2>1, <2>2, StartConsistent
    <2>4. \A w \in Workers :
            \/ worker'[w] = worker[w]
            \/ worker'[w].copy = EmptyState /\ worker'[w].phase = "new"
      <3> DEFINE v == CHOOSE v \in Workers \ Busy : TRUE
                 run == (latest[Subject(pick.key)] % MaxRuns) + 1
      <3>1. PICK made \in BOOLEAN :
              worker' = [worker EXCEPT ![v] = IF made THEN [pick EXCEPT !.run = run] ELSE pick]
        BY <1>5 DEF Start
      <3>2. /\ pick.copy = EmptyState /\ pick.phase = "new" /\ DOMAIN pick = JobFields
        BY DEF TypeInv, IInv, Shape
      <3> HIDE DEF v, run
      <3>3. /\ [pick EXCEPT !.run = run].copy = EmptyState
            /\ [pick EXCEPT !.run = run].phase = "new"
        BY <3>2 DEF JobFields
      <3> QED BY <1>0, <3>1, <3>2, <3>3
    <2>5. /\ \A w \in Workers : AllConsistent(worker'[w].copy)
          /\ \A w \in Workers : worker'[w].phase = "read" => AllMirrored(worker'[w].copy)
      BY <1>e, <1>i, <2>4
    <2> QED BY <1>0, <2>1, <2>3, <2>5, SettledStep
  <1>6. ASSUME NEW w \in Workers, SyncRead(w) PROVE SettledInv'
    <2> DEFINE m == Mirror(state, version)
    <2>1. AllConsistent(m) /\ AllMirrored(m)
      BY <1>0, MirrorConsistent
    <2> HIDE DEF m
    <2>2. /\ worker' = [worker EXCEPT ![w].phase = "read", ![w].copy = m]
          /\ UNCHANGED <<state, version, copy, refresh, at>>
          /\ worker[w] # NoJob
      BY <1>6, NoneNoKey DEF SyncRead, world, loop, m
    <2>3. worker'[w].copy = m /\ \A v \in Workers \ {w} : worker'[v] = worker[v]
      BY <1>0, <2>2 DEF JobFields
    <2>4. Busy # {}
      BY <2>2 DEF Busy
    <2>5. /\ \A v \in Workers : AllConsistent(worker'[v].copy)
          /\ \A v \in Workers : worker'[v].phase = "read" => AllMirrored(worker'[v].copy)
      BY <1>i, <2>1, <2>3
    <2> QED BY <1>0, <1>i, <2>2, <2>4, <2>5, SettledStep
  <1>7. ASSUME NEW w \in Workers, SyncWrite(w) PROVE SettledInv'
    <2>1. /\ worker' = [worker EXCEPT ![w].phase = "done", ![w].copy = EmptyState]
          /\ state' = worker[w].copy /\ worker[w].phase = "read"
          /\ UNCHANGED <<version, copy, refresh, at>>
      BY <1>7 DEF SyncWrite, world, loop
    <2>2. /\ worker'[w].copy = EmptyState /\ worker'[w].phase = "done"
          /\ \A v \in Workers \ {w} : worker'[v] = worker[v]
      BY <1>0, <2>1 DEF JobFields
    <2>3. /\ \A v \in Workers : AllConsistent(worker'[v].copy)
          /\ \A v \in Workers : worker'[v].phase = "read" => AllMirrored(worker'[v].copy)
      BY <1>e, <1>i, <2>2
    <2> QED BY <1>0, <1>i, <2>1, <2>3, SettledStep
  <1>8. ASSUME NEW w \in Workers, Complete(w) PROVE SettledInv'
    <2>1. PICK outcome \in Outcomes(worker[w]) :
            /\ state' = Applied(worker[w], outcome)
            /\ refresh' = (refresh \/ (outcome = "ok"
                                       /\ Kind(worker[w].key) \in {"scout", "sync"}))
      BY <1>8 DEF Complete
    <2>2. /\ worker' = [worker EXCEPT ![w] = NoJob]
          /\ at = "wait" /\ at' = "fill"
          /\ UNCHANGED <<version, copy>>
      BY <1>8 DEF Complete, world
    <2>3. worker[w] # NoJob
      BY <1>0, <2>1, OutcomeFacts, NoneNoKey
    <2>4. AllMirrored(state)
      BY <1>i, <2>3 DEF Busy
    <2>5. AllConsistent(state') /\ AllMirrored(state')
      BY <1>0, <2>1, <2>4, AppliedConsistent
    <2>6. /\ \A v \in Workers : AllConsistent(worker'[v].copy)
          /\ \A v \in Workers : worker'[v].phase = "read" => AllMirrored(worker'[v].copy)
      BY <1>0, <1>e, <1>i, <2>2, NoJobTyped
    <2> QED BY <1>0, <2>2, <2>5, <2>6, SettledStep
  <1>9. ASSUME NEW place \in {"idle", "dead"}, Die(place) PROVE SettledInv'
    <2>1. /\ \A w \in Workers : worker'[w] = NoJob
          /\ copy' = EmptyState /\ at' \notin {"picked", "refreshing"}
          /\ UNCHANGED <<state, version, refresh>>
      BY <1>9 DEF Die, world
    <2>2. Busy' = {}
      BY <2>1 DEF Busy
    <2> QED BY <1>0, <1>e, <1>i, <2>1, <2>2, NoJobTyped, SettledStep
  <1>10. (\E w \in Workers : Panic(w)) \/ Crash => SettledInv'
    BY <1>9 DEF Panic, Crash
  <1>11. CASE NextCycle
    <2>1. /\ UNCHANGED <<state, version, copy, worker>>
          /\ refresh' /\ at \in {"idle", "dead"} /\ at' = "fill"
      BY <1>11 DEF NextCycle, world
    <2>2. Busy' = {}
      BY <2>1 DEF IInv, Slots, Busy
    <2> QED BY <1>0, <1>i, <2>1, <2>2, SettledStep
  <1>13. ASSUME NEW i \in Issues, Edit(i) PROVE SettledInv'
    <2>1. /\ UNCHANGED <<state, copy, at, refresh, worker>>
          /\ \E v \in version[i] + 1 .. MaxVersion : version' = [version EXCEPT ![i] = v]
      BY <1>13 DEF Edit, loop, Revisions, NoRevert
    <2>2. \A j \in Issues : version[j] \in Nat
      BY <1>0, TasksAssumption DEF Versions
    <2>3. \A j \in Issues : version'[j] \in Nat /\ version[j] <= version'[j]
      BY <1>0, <2>1, <2>2, TasksAssumption
    <2> QED BY <2>1, <2>2, <2>3, SettledWorld
  <1>14. CASE Tick \/ UNCHANGED vars
    <2>1. UNCHANGED <<state, copy, at, refresh, worker, version>>
      BY <1>14 DEF Tick, loop, vars
    <2>2. \A j \in Issues : version[j] \in Nat
      BY <1>0, TasksAssumption DEF Versions
    <2> QED BY <2>1, <2>2, SettledWorld
  <1> QED BY <1>1, <1>2, <1>3, <1>4, <1>5, <1>6, <1>7, <1>8, <1>10, <1>11,
             <1>13, <1>14 DEF Next, Coordinate, Serve

(* A closed triage has left a priority for the revision it was closed for, *)
(* whatever crashes, failures and lost updates there are, as long as       *)
(* nobody undoes an edit of an issue.                                      *)
THEOREM ClosedIsTriaged ==
  ASSUME NoRevert
  PROVE  Spec => []TriageSettled
  <1>1. SettledInv => TriageSettled
    BY DEF SettledInv, AllConsistent, Consistent, TriageSettled
  <1>2. Init => IInv /\ TypeInv /\ SettledInv
    BY Initially, TypeInitially, SettledInitially
  <1>3. IInv /\ TypeInv /\ SettledInv /\ [Next]_vars => (IInv /\ TypeInv /\ SettledInv)'
    BY Inductive, TypeInductive, SettledInductive
  <1> QED BY <1>1, <1>2, <1>3, PTL DEF Spec

-----------------------------------------------------------------------------
(* Without scout roles there is no issue sync, so nobody writes back an    *)
(* old state, and the status of an issue and its reconcile task stay in    *)
(* step.                                                                   *)
Steady(issue, t) ==
  /\ issue.status = "queued" => ~t.id
  /\ issue.status = "in_progress" => ~t.id \/ t.status \in {"queued", "running"}

Given(job) ==
  /\ Kind(job.key) # "sync"
  /\ \A i \in Issues : job.key = Reconcile(i) => state.task[Reconcile(i)].id

WatchInv ==
  /\ \A i \in Issues : Steady(state.issue[i], state.task[Reconcile(i)])
  /\ \A c \in 1 .. MaxCycles : ~state.task[Sync(c)].id
  /\ at = "refreshing" =>
       /\ copy.task = state.task
       /\ \A i \in Issues : copy.issue[i].status = state.issue[i].status
  /\ \A w \in Workers : Given(worker[w])
  /\ \A w \in Workers, i \in Issues :
       worker[w].key = Work(i) =>
         state.issue[i].status = "in_progress" /\ ~state.task[Reconcile(i)].id
  /\ at = "picked" =>
       /\ Given(pick)
       /\ \A i \in Issues : pick.key = Work(i) => state.issue[i].status = "queued"

LEMMA NoScouts ==
  ASSUME Roles = {}
  PROVE  \A k \in ServiceKeys : Kind(k) # "scout"
  BY Keys

(* How syncServiceTasks treats the reconcile task of an issue.             *)
LEMMA SyncSteady ==
  ASSUME NEW s, Typed(s), NEW active, NEW working, NEW c \in 1 .. MaxCycles,
         NEW r, r = SyncServiceTasks(s, {}, active, working, c), NEW i \in Issues
  PROVE  /\ r.issue[i].status = s.issue[i].status
         /\ s.task[Reconcile(i)].id => r.task[Reconcile(i)].id
         /\ r.task[Reconcile(i)].id =>
              \/ s.task[Reconcile(i)].id
              \/ /\ WantsReconcile(r.issue[i], Work(i) \in working)
                 /\ r.task[Reconcile(i)].status = "queued"
         /\ s.task[Reconcile(i)].status \in {"queued", "running"} =>
              r.task[Reconcile(i)].status = "queued"
         /\ WantsReconcile(r.issue[i], Work(i) \in working) => r.task[Reconcile(i)].id
  <1> DEFINE k == Reconcile(i)
             old == s.task[k]
             swept == Swept(s, k, {}, active, c)
             issue == r.issue[i]
             t == r.task[k]
             wants == WantsReconcile(issue, Work(i) \in working)
  <1>1. /\ s.issue[i] \in IssueRec /\ old \in TaskRec(k)
        /\ k \in ServiceKeys /\ Kind(k) = "reconcile"
    BY Keys DEF Typed
  <1>2. t = IF wants THEN Upserted(k, swept, WantedReconcile(issue)) ELSE swept
    <2>1. {} \in SUBSET Roles
      OBVIOUS
    <2>2. ReconcileUpsert(i, r.issue[i], Swept(s, Reconcile(i), {}, active, c),
                          r.task[Reconcile(i)], Work(i) \in working)
      BY <2>1, SyncFacts
    <2> QED BY <2>2 DEF ReconcileUpsert
  <1>3. issue = Untriaged(s, i, active)
    BY DEF SyncServiceTasks
  <1>4. issue.status = s.issue[i].status
    BY <1>1, <1>3 DEF Untriaged, IssueRec
  <1>5. /\ swept.id = old.id
        /\ old.status \in {"queued", "running"} => swept.status = "queued"
    BY <1>1 DEF Swept, Lapsed, Requeued, TaskRec
  <1>6. swept \in TaskRec(k)
    BY <1>1, SweptTyped DEF Swept
  <1> HIDE DEF old, swept, issue, t, wants
  <1>7. WantedReconcile(issue).id /\ WantedReconcile(issue).status = "queued"
    BY DEF WantedReconcile, Queued, NoTask
  <1>8. wants => \/ t = swept /\ swept.id
                 \/ t.id /\ t.status = "queued"
    BY <1>2, <1>7 DEF Upserted, Refused, WantedReconcile, Queued, NoTask
  <1>9. ~wants => t = swept
    BY <1>2
  <1>10. /\ old.id => t.id
         /\ t.id => old.id \/ (wants /\ t.status = "queued")
         /\ old.status \in {"queued", "running"} => t.status = "queued"
         /\ wants => t.id
    BY <1>5, <1>8, <1>9
  <1> QED BY <1>4, <1>10 DEF old, issue, t, wants

(* What nextTask picks.                                                    *)
LEMMA ChosenSteady ==
  ASSUME Roles = {}, NEW s, Typed(s), Choose(s), at' = "picked",
         \A c \in 1 .. MaxCycles : ~s.task[Sync(c)].id
  PROVE  /\ Kind(pick'.key) # "sync"
         /\ \A i \in Issues : pick'.key = Reconcile(i) => s.task[Reconcile(i)].id
         /\ \A i \in Issues : pick'.key = Work(i) => s.issue[i].status = "queued"
  <1> DEFINE k == pick'.key
  <1>1. k \in ServiceQueue(s, now, cycle) \cup WorkQueue(s, now, running)
    BY ChooseTyped
  <1> HIDE DEF k
  <1>2. CASE k \in ServiceQueue(s, now, cycle)
    <2>1. k \in ServiceKeys /\ s.task[k].id
      BY <1>2 DEF ServiceQueue
    <2>2. Kind(k) # "sync"
      BY <2>1, Keys
    <2>3. \A i \in Issues : k # Work(i)
      BY <2>1, Keys
    <2> QED BY <2>1, <2>2, <2>3 DEF k
  <1>3. CASE k \in WorkQueue(s, now, running)
    <2>1. PICK j \in Issues : k = Work(j) /\ s.issue[j].status = "queued"
      BY <1>3 DEF WorkQueue
    <2>2. /\ Kind(k) = "work" /\ \A i \in Issues : k # Reconcile(i)
          /\ \A i \in Issues : k = Work(i) => i = j
      BY <2>1, Keys
    <2> QED BY <2>1, <2>2 DEF k
  <1> QED BY <1>1, <1>2, <1>3

LEMMA WatchInitially == Init => WatchInv
  <1> SUFFICES ASSUME Init PROVE WatchInv
    OBVIOUS
  <1>1. /\ \A w \in Workers : worker[w] = NoJob
        /\ state = EmptyState /\ at = "fill"
    BY DEF Init
  <1>2. /\ \A i \in Issues : state.issue[i] = NoIssue /\ state.task[Reconcile(i)] = NoTask
        /\ \A c \in 1 .. MaxCycles : state.task[Sync(c)] = NoTask
    BY <1>1, Keys DEF EmptyState
  <1>3. NoTask.id = FALSE /\ Steady(NoIssue, NoTask)
    BY DEF NoTask, NoIssue, Steady
  <1>4. Kind(NoJob.key) # "sync" /\ \A i \in Issues : NoJob.key \notin {Reconcile(i), Work(i)}
    BY NoneNoKey, Keys DEF AllKeys
  <1> QED BY <1>1, <1>2, <1>3, <1>4 DEF WatchInv, Given

(* A step that leaves the state file alone.                                *)
LEMMA WatchStep ==
  ASSUME WatchInv, state' = state,
         \A w \in Workers : worker'[w].key = worker[w].key \/ worker'[w] = NoJob,
         at' = "picked" =>
           \/ at = "picked" /\ pick' = pick
           \/ /\ Kind(pick'.key) # "sync"
              /\ \A i \in Issues : pick'.key = Reconcile(i) => state.task[Reconcile(i)].id
              /\ \A i \in Issues : pick'.key = Work(i) => state.issue[i].status = "queued",
         at' = "refreshing" =>
           \/ at = "refreshing" /\ copy' = copy
           \/ /\ copy'.task = state.task
              /\ \A i \in Issues : copy'.issue[i].status = state.issue[i].status
  PROVE  WatchInv'
  <1>1. Kind(NoJob.key) # "sync" /\ \A i \in Issues : NoJob.key \notin {Reconcile(i), Work(i)}
    BY NoneNoKey, Keys DEF AllKeys
  <1>2. \A w \in Workers : Given(worker[w])'
    BY <1>1 DEF WatchInv, Given
  <1>3. \A w \in Workers, i \in Issues :
          worker'[w].key = Work(i) =>
            state'.issue[i].status = "in_progress" /\ ~state'.task[Reconcile(i)].id
    BY <1>1 DEF WatchInv
  <1>4. (at = "picked" =>
          /\ Given(pick)
          /\ \A i \in Issues : pick.key = Work(i) => state.issue[i].status = "queued")'
    BY DEF WatchInv, Given
  <1>5. (at = "refreshing" =>
          /\ copy.task = state.task
          /\ \A i \in Issues : copy.issue[i].status = state.issue[i].status)'
    BY DEF WatchInv
  <1> QED BY <1>2, <1>3, <1>4, <1>5 DEF WatchInv

LEMMA WatchStart ==
  ASSUME IInv, TypeInv, WatchInv, Roles = {}, Start
  PROVE  WatchInv'
  <1> DEFINE v == CHOOSE v \in Workers \ Busy : TRUE
  <1>1. /\ at = "picked" /\ at' \notin {"picked", "refreshing"}
        /\ state' = MarkStarted(state, pick.key)
        /\ pick.key \in AllKeys /\ Typed(state)
    BY DEF Start, TypeInv
  <1>2. \A w \in Workers : worker'[w] = worker[w] \/ worker'[w].key = pick.key
    <2> DEFINE run == (latest[Subject(pick.key)] % MaxRuns) + 1
    <2>1. PICK made \in BOOLEAN :
            worker' = [worker EXCEPT ![v] = IF made THEN [pick EXCEPT !.run = run] ELSE pick]
      BY DEF Start
    <2>2. DOMAIN pick = JobFields
      BY DEF IInv, Shape
    <2> HIDE DEF v, run
    <2>3. [pick EXCEPT !.run = run].key = pick.key
      BY <2>2 DEF JobFields
    <2>4. worker = [w \in Workers |-> worker[w]]
      BY DEF IInv, Shape
    <2> QED BY <2>1, <2>3, <2>4
  <1>3. /\ Kind(pick.key) # "sync"
        /\ \A i \in Issues : pick.key = Reconcile(i) => state.task[Reconcile(i)].id
        /\ \A i \in Issues : pick.key = Work(i) => state.issue[i].status = "queued"
    BY <1>1 DEF WatchInv, Given
  <1>4. CASE \E i \in Issues : pick.key = Work(i)
    <2>1. PICK i \in Issues : pick.key = Work(i)
      BY <1>4
    <2>2. /\ state'.issue[i] = StartedIssue(state.issue[i])
          /\ \A j \in Issues \ {i} : state'.issue[j] = state.issue[j]
          /\ state'.task = state.task
      BY <1>1, <2>1, StartedFacts
    <2>3. state'.issue[i].status = "in_progress" /\ ~state.task[Reconcile(i)].id
      BY <1>1, <1>3, <2>1, <2>2 DEF StartedIssue, Typed, IssueRec, WatchInv, Steady
    <2>4. \A j \in Issues : j # i => Work(j) # Work(i)
      BY Keys
    <2>5. \A j \in Issues : Steady(state'.issue[j], state'.task[Reconcile(j)])
      BY <2>2, <2>3 DEF WatchInv, Steady
    <2>6. \A w \in Workers : Given(worker[w])'
      BY <1>2, <1>3, <2>2 DEF WatchInv, Given
    <2>7. \A w \in Workers, j \in Issues :
            worker'[w].key = Work(j) =>
              state'.issue[j].status = "in_progress" /\ ~state'.task[Reconcile(j)].id
      BY <1>2, <2>1, <2>2, <2>3, <2>4 DEF WatchInv
    <2> QED BY <1>1, <2>2, <2>5, <2>6, <2>7 DEF WatchInv
  <1>5. CASE pick.key \in ServiceKeys
    <2> DEFINE k == pick.key
    <2>1. /\ state'.task[k] = StartedTask(k, state.task[k])
          /\ \A j \in ServiceKeys \ {k} : state'.task[j] = state.task[j]
          /\ state'.issue = state.issue
      BY <1>1, <1>5, StartedFacts
    <2>2. state'.task[k].id = state.task[k].id /\ state'.task[k].status = "running"
      BY <1>1, <1>5, <2>1 DEF StartedTask, Typed, TaskRec
    <2>3. \A j \in ServiceKeys : state'.task[j].id = state.task[j].id
      BY <2>1, <2>2
    <2>4. \A j \in Issues : Steady(state'.issue[j], state'.task[Reconcile(j)])
      <3> SUFFICES ASSUME NEW j \in Issues
                   PROVE  Steady(state'.issue[j], state'.task[Reconcile(j)])
        OBVIOUS
      <3>1. Reconcile(j) \in ServiceKeys /\ Steady(state.issue[j], state.task[Reconcile(j)])
        BY Keys DEF WatchInv
      <3> QED BY <2>1, <2>2, <2>3, <3>1 DEF Steady
    <2>5. \A c \in 1 .. MaxCycles : ~state'.task[Sync(c)].id
      BY <2>3, Keys DEF WatchInv
    <2>6. \A w \in Workers : Given(worker[w])'
      BY <1>2, <1>3, <2>3, Keys DEF WatchInv, Given
    <2>7. \A w \in Workers, j \in Issues :
            worker'[w].key = Work(j) =>
              state'.issue[j].status = "in_progress" /\ ~state'.task[Reconcile(j)].id
      BY <1>2, <1>5, <2>1, <2>3, Keys DEF WatchInv
    <2> QED BY <1>1, <2>4, <2>5, <2>6, <2>7 DEF WatchInv
  <1> QED BY <1>1, <1>4, <1>5 DEF AllKeys

LEMMA WatchRefresh ==
  ASSUME IInv, TypeInv, WatchInv, Roles = {}, NEW due \in SUBSET Roles,
         NEW active \in SUBSET Issues, RefreshWrite(due, active)
  PROVE  WatchInv'
  <1> DEFINE s == SyncServiceTasks(copy, {}, active, running, cycle)
  <1>1. /\ state' = s /\ Choose(s) /\ at = "refreshing" /\ worker' = worker
    BY DEF RefreshWrite
  <1>2. Typed(copy) /\ cycle \in 1 .. MaxCycles
    BY DEF TypeInv
  <1>3. /\ copy.task = state.task
        /\ \A i \in Issues : copy.issue[i].status = state.issue[i].status
    BY <1>1 DEF WatchInv
  <1>4. Typed(s) /\ \A c \in 1 .. MaxCycles : ~s.task[Sync(c)].id
    <2>1. {} \in SUBSET Roles
      OBVIOUS
    <2>2. Typed(s) /\ \A c \in 1 .. MaxCycles : SameId(copy.task[Sync(c)], s.task[Sync(c)])
      BY <1>2, <2>1, SyncFacts
    <2> QED BY <1>3, <2>2 DEF WatchInv, SameId
  <1>5. ASSUME NEW i \in Issues
        PROVE  /\ s.issue[i].status = state.issue[i].status
               /\ state.task[Reconcile(i)].id => s.task[Reconcile(i)].id
               /\ s.task[Reconcile(i)].id =>
                    \/ state.task[Reconcile(i)].id
                    \/ /\ WantsReconcile(s.issue[i], Work(i) \in running)
                       /\ s.task[Reconcile(i)].status = "queued"
               /\ state.task[Reconcile(i)].status \in {"queued", "running"} =>
                    s.task[Reconcile(i)].status = "queued"
    BY <1>2, <1>3, SyncSteady
  <1> HIDE DEF s
  <1>6. \A i \in Issues : Steady(s.issue[i], s.task[Reconcile(i)])
    BY <1>5 DEF WatchInv, Steady, WantsReconcile
  <1>7. \A w \in Workers, i \in Issues :
          worker[w].key = Work(i) =>
            s.issue[i].status = "in_progress" /\ ~s.task[Reconcile(i)].id
    <2> SUFFICES ASSUME NEW w \in Workers, NEW i \in Issues, worker[w].key = Work(i)
                 PROVE  s.issue[i].status = "in_progress" /\ ~s.task[Reconcile(i)].id
      OBVIOUS
    <2>1. Work(i) \in running
      BY <1>1 DEF IInv, Known
    <2>2. state.issue[i].status = "in_progress" /\ ~state.task[Reconcile(i)].id
      BY DEF WatchInv
    <2> QED BY <1>5, <2>1, <2>2 DEF WantsReconcile
  <1>8. \A w \in Workers : Given(worker[w])'
    BY <1>1, <1>5 DEF WatchInv, Given
  <1>9. at' # "refreshing" /\ (at' = "picked" =>
          /\ Given(pick)'
          /\ \A i \in Issues : pick'.key = Work(i) => s.issue[i].status = "queued")
    BY <1>1, <1>4, ChooseStep, ChosenSteady DEF Given
  <1> QED BY <1>1, <1>4, <1>6, <1>7, <1>8, <1>9 DEF WatchInv

LEMMA WatchComplete ==
  ASSUME IInv, TypeInv, WatchInv, Roles = {}, NEW w \in Workers, Complete(w)
  PROVE  WatchInv'
  <1> DEFINE job == worker[w]
  <1>1. PICK outcome \in Outcomes(job) : state' = Applied(job, outcome)
    BY DEF Complete
  <1>2. /\ job.key \in AllKeys /\ Typed(state) /\ job.run \in Runs /\ TypedJob(job)
        /\ outcome = "pause" => now < MaxTime
        /\ now \in 0 .. MaxTime /\ cycle \in 1 .. MaxCycles
        /\ Kind(job.key) = "reconcile" =>
             outcome \in {"error", "waiting", "blocked", "completed"}
    BY OutcomeFacts DEF TypeInv, TypedJob
  <1>3. AppliedAs(job, outcome, state')
    BY <1>1, <1>2, AppliedCases
  <1>4. /\ worker'[w] = NoJob /\ \A v \in Workers \ {w} : worker'[v] = worker[v]
        /\ at = "wait" /\ at' = "fill"
    BY DEF Complete, IInv, Shape
  <1>5. Kind(NoJob.key) # "sync" /\ \A i \in Issues : NoJob.key \notin {Reconcile(i), Work(i)}
    BY NoneNoKey, Keys DEF AllKeys
  <1>6. SUFFICES /\ \A i \in Issues : Steady(state'.issue[i], state'.task[Reconcile(i)])
                 /\ \A k \in ServiceKeys : state.task[k].id => state'.task[k].id
                 /\ \A c \in 1 .. MaxCycles : ~state'.task[Sync(c)].id
                 /\ \A v \in Workers \ {w}, i \in Issues :
                      worker[v].key = Work(i) =>
                        state'.issue[i].status = "in_progress" /\ ~state'.task[Reconcile(i)].id
    <2>1. \A v \in Workers : Given(worker[v])'
      BY <1>4, <1>5, <1>6, Keys DEF WatchInv, Given
    <2>2. \A v \in Workers, i \in Issues :
            worker'[v].key = Work(i) =>
              state'.issue[i].status = "in_progress" /\ ~state'.task[Reconcile(i)].id
      BY <1>4, <1>5, <1>6
    <2> QED BY <1>4, <1>6, <2>1, <2>2 DEF WatchInv
  <1>7. \A v \in Workers \ {w}, i \in Issues : worker[v].key = Work(i) => job.key # Work(i)
    BY DEF IInv, OneImplementation
  <1>8. \A k \in ServiceKeys : state.task[k] \in TaskRec(k)
    BY <1>2 DEF Typed
  <1> HIDE DEF job
  <1>9. ASSUME NEW i \in Issues, job.key = Work(i),
               state' = ApplyWork(state, i, job.run, outcome, now)
        PROVE  /\ \A j \in Issues : Steady(state'.issue[j], state'.task[Reconcile(j)])
               /\ \A k \in ServiceKeys : state.task[k].id => state'.task[k].id
               /\ \A c \in 1 .. MaxCycles : ~state'.task[Sync(c)].id
               /\ \A v \in Workers \ {w}, j \in Issues :
                    worker[v].key = Work(j) =>
                      state'.issue[j].status = "in_progress" /\ ~state'.task[Reconcile(j)].id
    <2>1. /\ state'.issue[i] = IF outcome = "pause" THEN Paused(state.issue[i], job.run, now)
                               ELSE Returned(state.issue[i], job.run, outcome)
          /\ \A j \in Issues \ {i} : state'.issue[j] = state.issue[j]
          /\ \A k \in ServiceKeys \ {Reconcile(i)} : state'.task[k] = state.task[k]
          /\ outcome = "pause" => state'.task = state.task
      BY <1>2, <1>9, WorkFacts
    <2>2. /\ state.issue[i].status = "in_progress" /\ ~state.task[Reconcile(i)].id
          /\ state.issue[i] \in IssueRec
      BY <1>2, <1>9 DEF WatchInv, Typed, job
    <2>3. /\ outcome = "pause" => state'.issue[i].status = "queued"
          /\ outcome # "pause" => state'.issue[i].status = "reconciling"
      BY <2>1, <2>2 DEF Paused, Returned, IssueRec
    <2>4. \A j \in Issues \ {i} : Reconcile(j) # Reconcile(i) /\ Reconcile(j) \in ServiceKeys
      BY Keys
    <2>5. \A j \in Issues : Steady(state'.issue[j], state'.task[Reconcile(j)])
      BY <2>1, <2>2, <2>3, <2>4 DEF WatchInv, Steady
    <2>6. \A k \in ServiceKeys : state.task[k].id => state'.task[k].id
      BY <2>1, <2>2
    <2>7. \A c \in 1 .. MaxCycles : ~state'.task[Sync(c)].id
      <3>1. \A c \in 1 .. MaxCycles : Sync(c) # Reconcile(i) /\ Sync(c) \in ServiceKeys
        BY Keys
      <3> QED BY <2>1, <3>1 DEF WatchInv
    <2>8. \A v \in Workers \ {w}, j \in Issues :
            worker[v].key = Work(j) =>
              state'.issue[j].status = "in_progress" /\ ~state'.task[Reconcile(j)].id
      BY <1>7, <1>9, <2>1, <2>4 DEF WatchInv
    <2> QED BY <2>5, <2>6, <2>7, <2>8
  <1>10. ASSUME NEW i \in Issues, state' = ApplyTriage(state, i, outcome)
         PROVE  /\ \A j \in Issues : state'.issue[j].status = state.issue[j].status
                /\ \A j \in Issues : state'.task[Reconcile(j)] = state.task[Reconcile(j)]
                /\ \A k \in ServiceKeys : state'.task[k].id = state.task[k].id
    <2> DEFINE k == Triage(i)
    <2>1. /\ \A j \in Issues \ {i} : state'.issue[j] = state.issue[j]
          /\ \A x \in ServiceKeys \ {k} : state'.task[x] = state.task[x]
          /\ \/ state' = state
             \/ \E done \in {"completed", "failed", "queued"}, fp \in Versions, f \in Versions :
                  /\ state'.issue[i] = Judged(state.issue[i], done, fp)
                  /\ state'.task[k] = JudgedTask(state.task[k], done, f)
      BY <1>2, <1>10, TriageFacts
    <2>2. state.issue[i] \in IssueRec /\ state.task[k] \in TaskRec(k)
      BY <1>2, TypedNat
    <2>3. state'.issue[i].status = state.issue[i].status /\ state'.task[k].id = state.task[k].id
      BY <2>1, <2>2 DEF Judged, JudgedTask, Settled, IssueRec, TaskRec
    <2>4. \A j \in Issues : Reconcile(j) # k /\ Reconcile(j) \in ServiceKeys
      BY Keys
    <2> QED BY <2>1, <2>3, <2>4
  <1>11. ASSUME NEW i \in Issues, NEW run \in Runs, job.key = Reconcile(i),
                state' = ApplyReconcile(state, i, run, outcome, cycle)
         PROVE  /\ \A j \in Issues \ {i} : state'.issue[j] = state.issue[j]
                /\ \A k \in ServiceKeys \ {Reconcile(i)} : state'.task[k] = state.task[k]
                /\ state'.issue[i].status \in {"reconciling", "blocked", "completed"}
                /\ state.task[Reconcile(i)].id
                /\ state'.task[Reconcile(i)].id = state.task[Reconcile(i)].id
    <2>1. Kind(job.key) = "reconcile"
      BY <1>11, Keys
    <2>2. outcome \in {"error", "waiting", "blocked", "completed"}
      BY <1>2, <2>1
    <2>3. /\ \A j \in Issues \ {i} : state'.issue[j] = state.issue[j]
          /\ \A k \in ServiceKeys \ {Reconcile(i)} : state'.task[k] = state.task[k]
          /\ LookedAt(state.issue[i], state'.issue[i])
          /\ SameId(state.task[Reconcile(i)], state'.task[Reconcile(i)])
      <3>1. Reconciled(state, i, state')
        BY <1>2, <1>11, <2>2, ReconcileFacts
      <3> QED BY <3>1 DEF Reconciled
    <2>4. state.issue[i] \in IssueRec
      BY <1>2 DEF Typed
    <2>5. state'.issue[i].status \in {"reconciling", "blocked", "completed"}
      BY <2>3, <2>4 DEF LookedAt, Looked, IssueRec
    <2>6. state.task[Reconcile(i)].id
      BY <1>11 DEF WatchInv, Given, job
    <2> QED BY <2>3, <2>5, <2>6 DEF SameId
  <1>12. ASSUME job.key \in ServiceKeys, Kind(job.key) \in {"scout", "sync"}
         PROVE  FALSE
    BY <1>12, NoScouts DEF WatchInv, Given, job
  <1>13. CASE \E i \in Issues : job.key = Work(i)
                  /\ state' = ApplyWork(state, i, job.run, outcome, now)
    BY <1>9, <1>13
  <1>14. CASE \E i \in Issues : job.key = Triage(i) /\ state' = ApplyTriage(state, i, outcome)
    BY <1>10, <1>14, Keys DEF WatchInv, Steady
  <1>15. CASE \E i \in Issues, run \in Runs : job.key = Reconcile(i)
                  /\ state' = ApplyReconcile(state, i, run, outcome, cycle)
    <2>1. PICK i \in Issues, run \in Runs : job.key = Reconcile(i)
                  /\ state' = ApplyReconcile(state, i, run, outcome, cycle)
      BY <1>15
    <2>2. /\ \A j \in Issues \ {i} : state'.issue[j] = state.issue[j]
          /\ \A k \in ServiceKeys \ {Reconcile(i)} : state'.task[k] = state.task[k]
          /\ state'.issue[i].status \in {"reconciling", "blocked", "completed"}
          /\ state.task[Reconcile(i)].id
          /\ state'.task[Reconcile(i)].id = state.task[Reconcile(i)].id
      BY <1>11, <2>1
    <2>3. /\ \A j \in Issues \ {i} : Reconcile(j) # Reconcile(i) /\ Reconcile(j) \in ServiceKeys
          /\ \A c \in 1 .. MaxCycles : Sync(c) # Reconcile(i) /\ Sync(c) \in ServiceKeys
      BY Keys
    <2>4. \A j \in Issues : Steady(state'.issue[j], state'.task[Reconcile(j)])
      BY <2>2, <2>3 DEF WatchInv, Steady
    <2>5. /\ \A k \in ServiceKeys : state.task[k].id => state'.task[k].id
          /\ \A c \in 1 .. MaxCycles : ~state'.task[Sync(c)].id
      BY <2>2, <2>3 DEF WatchInv
    <2>6. \A v \in Workers \ {w}, j \in Issues :
            worker[v].key = Work(j) =>
              state'.issue[j].status = "in_progress" /\ ~state'.task[Reconcile(j)].id
      BY <2>2, <2>3 DEF WatchInv
    <2> QED BY <2>4, <2>5, <2>6
  <1> QED BY <1>3, <1>12, <1>13, <1>14, <1>15 DEF AppliedAs

LEMMA WatchInductive ==
  ASSUME Roles = {}
  PROVE  IInv /\ TypeInv /\ WatchInv /\ [Next]_vars => WatchInv'
  <1> SUFFICES ASSUME IInv, TypeInv, WatchInv, [Next]_vars PROVE WatchInv'
    OBVIOUS
  <1>0. /\ Typed(state) /\ version \in [Issues -> Versions \ {0}]
        /\ worker = [w \in Workers |-> worker[w]]
        /\ \A w \in Workers : DOMAIN worker[w] = JobFields
    BY DEF TypeInv, IInv, Shape
  <1>1. CASE Reload
    <2>1. Choose(state) /\ UNCHANGED <<state, worker>>
      BY <1>1 DEF Reload
    <2>2. \A c \in 1 .. MaxCycles : ~state.task[Sync(c)].id
      BY DEF WatchInv
    <2> QED BY <1>0, <2>1, <2>2, ChooseStep, ChosenSteady, WatchStep
  <1>2. CASE RefreshRead
    <2>1. copy' = Mirror(state, version) /\ at' = "refreshing" /\ UNCHANGED <<state, worker>>
      BY <1>2 DEF RefreshRead
    <2>2. /\ copy'.task = state.task
          /\ \A i \in Issues : copy'.issue[i] = Mirrored(state.issue[i], version[i])
      BY <1>0, <2>1, MirrorTyped
    <2>3. \A i \in Issues : copy'.issue[i].status = state.issue[i].status
      <3>1. \A i \in Issues : state.issue[i] \in IssueRec
        BY <1>0 DEF Typed
      <3> QED BY <2>2, <3>1 DEF Mirrored, IssueRec
    <2> QED BY <2>1, <2>2, <2>3, WatchStep
  <1>3. ASSUME NEW due \in SUBSET Roles, NEW active \in SUBSET Issues,
               RefreshWrite(due, active)
        PROVE  WatchInv'
    BY <1>3, WatchRefresh
  <1>4. CASE RefreshFail
    BY <1>4, WatchStep DEF RefreshFail
  <1>5. CASE Start
    BY <1>5, WatchStart
  <1>6. ASSUME NEW w \in Workers, SyncRead(w) \/ SyncWrite(w) PROVE FALSE
    BY <1>6 DEF SyncRead, SyncWrite, WatchInv, Given
  <1>8. ASSUME NEW w \in Workers, Complete(w) PROVE WatchInv'
    BY <1>8, WatchComplete
  <1>9. ASSUME NEW place \in {"idle", "dead"}, Die(place) PROVE WatchInv'
    BY <1>9, WatchStep DEF Die
  <1>10. (\E w \in Workers : Panic(w)) \/ Crash => WatchInv'
    BY <1>9 DEF Panic, Crash
  <1>11. CASE NextCycle
    BY <1>11, WatchStep DEF NextCycle
  <1>12. CASE UNCHANGED <<state, loop, worker>>
    BY <1>12, WatchStep DEF loop
  <1>13. ASSUME NEW i \in Issues, Edit(i) PROVE WatchInv'
    BY <1>12, <1>13 DEF Edit, loop
  <1>14. CASE Tick \/ UNCHANGED vars
    BY <1>12, <1>14 DEF Tick, vars, loop
  <1> QED BY <1>1, <1>2, <1>3, <1>4, <1>5, <1>6, <1>8, <1>10, <1>11,
             <1>13, <1>14 DEF Next, Coordinate, Serve

(* In a repository without scout roles an issue that is in progress has an *)
(* agent at work on it, or the next refresh queues a reconcile for it,     *)
(* wherever `nana start` was killed.                                       *)
THEOREM NoneStranded ==
  ASSUME Roles = {}
  PROVE  Spec => []InProgressWatched
  <1>1. TypeInv /\ WatchInv => InProgressWatched
    <2> SUFFICES ASSUME TypeInv, WatchInv, NEW i \in Issues,
                        state.issue[i].status = "in_progress"
                 PROVE  Watched(i)
      BY DEF InProgressWatched
    <2> DEFINE r == SyncServiceTasks(state, {}, {}, {}, cycle)
               t == r.task[Reconcile(i)]
               old == state.task[Reconcile(i)]
    <2>1. Typed(state) /\ cycle \in 1 .. MaxCycles
      BY DEF TypeInv
    <2>2. /\ r.issue[i].status = state.issue[i].status
          /\ t.id => \/ old.id
                     \/ t.status = "queued"
          /\ old.status \in {"queued", "running"} => t.status = "queued"
          /\ WantsReconcile(r.issue[i], Work(i) \in {}) => t.id
      BY <2>1, SyncSteady
    <2>3. WantsReconcile(r.issue[i], Work(i) \in {})
      BY <2>2 DEF WantsReconcile
    <2>4. Steady(state.issue[i], old)
      BY DEF WatchInv
    <2> HIDE DEF r, old
    <2> QED BY <2>2, <2>3, <2>4 DEF Watched, Steady, r
  <1>2. Init => IInv /\ TypeInv /\ WatchInv
    BY Initially, TypeInitially, WatchInitially
  <1>3. IInv /\ TypeInv /\ WatchInv /\ [Next]_vars => (IInv /\ TypeInv /\ WatchInv)'
    BY Inductive, TypeInductive, WatchInductive
  <1> QED BY <1>1, <1>2, <1>3, PTL DEF Spec
=============================================================================
