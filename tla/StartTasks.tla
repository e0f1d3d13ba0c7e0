------------------------------ MODULE StartTasks ------------------------------
(***************************************************************************)
(* The persisted state of one repository that `nana start` works on        *)
(* (start-state.json): its mirrored issues and its service tasks, and what *)
(* the coordinator of internal/gocli/start_scheduler.go computes from it.  *)
(* Every operator here is a function of a state; StartScheduler says which *)
(* goroutine applies it, to which copy and when.                           *)
(***************************************************************************)
EXTENDS Naturals

CONSTANTS Issues,     \* the open issues of the source repository
          Roles,      \* the scout roles its policies declare
          MaxVersion, \* bound: revisions of an issue, its source fingerprints
          MaxCycles,  \* bound: cycles, each with a cycleID and an issue sync
          MaxRuns,    \* bound: distinct work run ids of an issue
          MaxTime     \* bound: rate-limit pauses that can run out

ASSUME TasksAssumption ==
  /\ MaxVersion \in Nat \ {0}
  /\ MaxCycles \in Nat \ {0}
  /\ MaxRuns \in Nat \ {0}
  /\ MaxTime \in Nat

(* Task keys, as startServiceTaskKey builds them.                          *)
Scout(r) == <<"scout", r>>
Sync(c) == <<"sync", c>>
Triage(i) == <<"triage", i>>
Reconcile(i) == <<"reconcile", i>>
Work(i) == <<"work", i>>
Kind(k) == k[1]
Subject(k) == k[2]

Scouts == {Scout(r) : r \in Roles}
ServiceKeys == Scouts \cup {Sync(c) : c \in 1 .. MaxCycles}
               \cup {Triage(i) : i \in Issues} \cup {Reconcile(i) : i \in Issues}

RetryLimit(k) == IF Kind(k) = "scout" THEN 2 ELSE 3

(* fp: source fingerprint, 0 before the issue is mirrored.  triaged: the   *)
(* fingerprint its priority was recorded for.  run: LastRunID, 0 when      *)
(* empty.  err: LastRunError is set.  later: ScheduleAt.                   *)
NoIssue == [fp |-> 0, triage |-> "queued", triaged |-> 0, status |-> "queued",
            run |-> 0, err |-> FALSE, later |-> 0]

(* id: the record has its ID, Kind and Queue; an update of a record that   *)
(* is no longer there writes one without them.  wait: WaitCycle, 0 when    *)
(* empty.  until: WaitUntil.  attempts counts to the retry limit only: the *)
(* code compares it with nothing else.                                     *)
NoTask == [id |-> FALSE, status |-> "none", attempts |-> 0, wait |-> 0,
           until |-> 0, gen |-> 0, fp |-> 0, run |-> 0, deps |-> {}]

EmptyState == [issue |-> [i \in Issues |-> NoIssue],
               task |-> [k \in ServiceKeys |-> NoTask]]

-----------------------------------------------------------------------------
(* Mutant: mirroring that drops every recorded priority.                   *)
MirroredAlwaysStale(issue, version) ==
  [issue EXCEPT !.fp = version, !.triage = "queued"]

(* Mirroring.  A new revision makes the recorded priority stale.           *)
Mirrored(issue, version) ==
  [issue EXCEPT !.fp = version,
                !.triage = IF issue.triaged # version THEN "queued" ELSE @]

Mirror(s, world) ==
  [s EXCEPT !.issue = [i \in Issues |-> Mirrored(s.issue[i], world[i])]]

Fresh(issue) ==
  issue.fp # 0 /\ issue.triage = "completed" /\ issue.triaged = issue.fp

-----------------------------------------------------------------------------
(* The sweep at the head of syncServiceTasks: a task found running is      *)
(* queued again, unless it is a triage whose agent is known to be alive,   *)
(* and a queued scout that is not due is closed.                           *)
Requeued(k, t, active) ==
  IF t.status = "running" /\ ~(t.id /\ Kind(k) = "triage" /\ Subject(k) \in active)
    THEN [t EXCEPT !.status = "queued"] ELSE t

Lapsed(k, t, due, cycle) ==
  IF t.id /\ Kind(k) = "scout" /\ t.status = "queued" /\ Subject(k) \notin due
    THEN [t EXCEPT !.status = "completed", !.wait = 0, !.until = 0, !.gen = cycle]
    ELSE t

Untriaged(s, i, active) ==
  LET t == s.task[Triage(i)]
  IN IF t.id /\ t.status = "running" /\ i \notin active
       THEN [s.issue[i] EXCEPT !.triage = "queued"] ELSE s.issue[i]

(* upsertServiceTask: the cases in which the record on file stands.        *)
Refused(k, old, new) ==
  LET same == old.fp = new.fp /\ old.run = new.run
      spent == old.attempts >= RetryLimit(k)
  IN /\ old.id
     /\ IF Kind(k) = "scout"
          THEN old.gen = new.gen /\ (old.status # "failed" \/ spent)
          ELSE \/ old.status = "running"
               \/ old.status \in {"queued", "completed"} /\ same
               \/ old.status = "failed" /\ same /\ spent

Upserted(k, old, new) ==
  IF Refused(k, old, new) THEN old
  ELSE [new EXCEPT !.attempts = old.attempts, !.wait = old.wait,
                   !.until = old.until]

Queued(gen, fp, run, deps) ==
  [NoTask EXCEPT !.id = TRUE, !.status = "queued", !.gen = gen, !.fp = fp,
                 !.run = run, !.deps = deps]

WantsTriage(issue, busy) ==
  issue.fp # 0 /\ issue.status # "completed" /\ ~busy /\ ~Fresh(issue)

(* Mutant: only runs that returned are reconciled.                         *)
WantsReconcileAnswered(issue, busy) == issue.status = "reconciling"

WantsReconcile(issue, busy) ==
  issue.status = "reconciling" \/ (issue.status = "in_progress" /\ ~busy)

WantedReconcile(issue) == Queued(0, issue.fp, issue.run, {})

(* working: the tasks the coordinator believes are running.                *)
SyncServiceTasks(s, due, active, working, cycle) ==
  LET issue == [i \in Issues |-> Untriaged(s, i, active)]
      swept == [k \in ServiceKeys |->
                  Lapsed(k, Requeued(k, s.task[k], active), due, cycle)]
      sync  == IF due = {} THEN swept[Sync(cycle)]
               ELSE Upserted(Sync(cycle), swept[Sync(cycle)],
                             Queued(cycle, 0, 0, {Scout(r) : r \in due}))
      deps  == IF sync.id /\ sync.status # "completed" THEN {Sync(cycle)} ELSE {}
      PerIssue(k, i) ==
        IF Kind(k) = "triage"
          THEN IF WantsTriage(issue[i], Work(i) \in working)
                 THEN Upserted(k, swept[k], Queued(0, issue[i].fp, 0, deps))
                 ELSE swept[k]
          ELSE IF WantsReconcile(issue[i], Work(i) \in working)
                 THEN Upserted(k, swept[k], WantedReconcile(issue[i]))
                 ELSE swept[k]
  IN [issue |-> issue,
      task |-> [k \in ServiceKeys |->
                  CASE k = Sync(cycle) -> sync
                    [] Kind(k) = "sync" /\ k # Sync(cycle) -> swept[k]
                    [] Kind(k) = "scout" ->
                         IF Subject(k) \in due
                           THEN Upserted(k, swept[k], Queued(cycle, 0, 0, {}))
                           ELSE swept[k]
                    [] OTHER -> PerIssue(k, Subject(k))]]

-----------------------------------------------------------------------------
(* The queues.  The code sorts each by priority and recency; the model     *)
(* takes any member as its head.                                           *)
Ready(s, t) == \A d \in t.deps : s.task[d].id /\ s.task[d].status = "completed"

ServiceQueue(s, now, cycle) ==
  {k \in ServiceKeys :
     LET t == s.task[k]
     IN t.id /\ t.status = "queued" /\ t.wait # cycle /\ t.until <= now /\ Ready(s, t)}

(* Mutant: a queue that trusts the status on file.                         *)
WorkQueueByStatus(s, now, working) ==
  {Work(i) : i \in {j \in Issues :
     s.issue[j].status = "queued" /\ Fresh(s.issue[j]) /\ s.issue[j].later <= now}}

WorkQueue(s, now, working) ==
  {Work(i) : i \in {j \in Issues :
     /\ s.issue[j].status = "queued" /\ Fresh(s.issue[j])
     /\ s.issue[j].later <= now
     /\ Work(j) \notin working}}

-----------------------------------------------------------------------------
(* The state with another record of an issue, or of a task.                *)
SetIssue(s, i, issue) == [s EXCEPT !.issue[i] = issue]
SetTask(s, k, t) == [s EXCEPT !.task[k] = t]

(* Mutant: a start that does not count as an attempt.                      *)
MarkStartedUncounted(s, k) ==
  IF Kind(k) = "work"
    THEN SetIssue(s, Subject(k), [s.issue[Subject(k)] EXCEPT !.status = "in_progress"])
    ELSE SetTask(s, k, [s.task[k] EXCEPT !.status = "running", !.wait = 0, !.until = 0])

(* markTaskStarted.                                                        *)
StartedIssue(issue) ==
  [issue EXCEPT !.status = "in_progress", !.err = FALSE, !.later = 0]

StartedTask(k, t) ==
  [t EXCEPT !.status = "running", !.wait = 0, !.until = 0,
            !.attempts = IF @ < RetryLimit(k) THEN @ + 1 ELSE @]

MarkStarted(s, k) ==
  IF Kind(k) = "work"
    THEN SetIssue(s, Subject(k), StartedIssue(s.issue[Subject(k)]))
    ELSE SetTask(s, k, StartedTask(k, s.task[k]))

(* applyTaskResult, one operator per kind of task.  A paused run goes back *)
(* to the queue until the provider's limit lifts; any other one is handed  *)
(* to a reconcile task.                                                    *)
Paused(issue, run, now) ==
  [issue EXCEPT !.run = run, !.status = "queued", !.err = TRUE, !.later = now + 1]

Returned(issue, run, outcome) ==
  [issue EXCEPT !.run = run, !.status = "reconciling", !.err = (outcome = "error")]

HandedOver(t, fp, run) ==
  [t EXCEPT !.id = TRUE, !.status = "queued", !.fp = fp, !.run = run,
            !.wait = 0, !.until = 0]

ApplyWork(s, i, run, outcome, now) ==
  LET r == Reconcile(i)
  IN IF outcome = "pause"
       THEN SetIssue(s, i, Paused(s.issue[i], run, now))
       ELSE SetTask(SetIssue(s, i, Returned(s.issue[i], run, outcome)),
                    r, HandedOver(s.task[r], s.issue[i].fp, run))

Settled(t, status) == [t EXCEPT !.status = status, !.wait = 0, !.until = 0]

Spent(k, t) == t.attempts >= RetryLimit(k)

(* handleServiceTaskFailure: a record without an ID is filed elsewhere.    *)
HandleFailure(s, k, outcome, now) ==
  LET t == s.task[k]
  IN IF ~t.id THEN s
     ELSE SetTask(s, k,
            IF outcome = "pause" THEN [Settled(t, "queued") EXCEPT !.until = now + 1]
            ELSE Settled(t, IF Spent(k, t) THEN "failed" ELSE "queued"))

ApplyService(s, k, outcome, now) ==
  IF outcome = "ok" THEN SetTask(s, k, Settled(s.task[k], "completed"))
                    ELSE HandleFailure(s, k, outcome, now)

(* applyStartWorkTriageResult: the priority is recorded for the            *)
(* fingerprint on file now; a rate-limit pause counts as a failure.        *)
ApplyTriage(s, i, outcome) ==
  LET k == Triage(i)
      t == s.task[k]
      issue == s.issue[i]
      failed == IF Spent(k, t) THEN "failed" ELSE "queued"
  IN IF t.status = "none" THEN s
     ELSE IF outcome = "ok"
       THEN SetTask(SetIssue(s, i, [issue EXCEPT !.triage = "completed", !.triaged = issue.fp]),
                    k, [Settled(t, "completed") EXCEPT !.fp = issue.fp])
       ELSE SetTask(SetIssue(s, i, [issue EXCEPT !.triage = failed]),
                    k, Settled(t, failed))

(* The verdict of a reconcile: "error", or the status it found, where      *)
(* "waiting" asks for another look in the next cycle.                      *)
ApplyReconcile(s, i, run, verdict, cycle) ==
  LET k == Reconcile(i)
      t == s.task[k]
      Both(issue, task) == SetTask(SetIssue(s, i, issue), k, task)
      ToStatus(status) == [s.issue[i] EXCEPT !.status = status]
      OfRun(status) == [s.issue[i] EXCEPT !.status = status, !.run = run]
      Found(status) == Both(OfRun(status), [Settled(t, "completed") EXCEPT !.run = run])
  IN CASE verdict = "error" /\ ~Spent(k, t) ->
            Both(ToStatus("reconciling"), [t EXCEPT !.status = "queued"])
       [] verdict = "error" /\ Spent(k, t) ->
            Both(ToStatus("blocked"), [t EXCEPT !.status = "failed"])
       [] verdict = "waiting" /\ ~Spent(k, t) ->
            Both(OfRun("reconciling"),
                 [Settled(t, "queued") EXCEPT !.wait = cycle, !.run = run])
       [] verdict = "waiting" /\ Spent(k, t) -> Found("reconciling")
       [] OTHER -> Found(verdict)
=============================================================================
