----------------------------- MODULE ScoutJobs -----------------------------
(***************************************************************************)
(* One scout proposal that is implemented locally: its scout job in        *)
(* start-state.json (internal/gocli/scout_jobs.go), the coordinator that   *)
(* launches it (start_scheduler.go), the local work runs it is given, the  *)
(* writers that keep a copy of the state (start.go, start_work.go,         *)
(* dismissed_retention.go) and the user (start_ui.go).                     *)
(*                                                                         *)
(* Every read and every write of the file brings the job up to date with   *)
(* the proposal, the pickup record of an older version and the run it      *)
(* names.  A job of a "review" proposal, once promoted, is not among those *)
(* brought up to date.  The runs themselves are LocalWork's.               *)
(***************************************************************************)
EXTENDS Integers, FiniteSets

CONSTANTS None,     \* no job, no record
          MaxRuns,  \* bound on the runs that are started
          Commands, \* bound on the commands of users and the issue syncs
          Faults    \* bound on crashes, failures and pauses

VARIABLES
  kind,     \* where the proposal goes: "local", or "review" until promoted
  job,      \* the job in the file, or None
  record,   \* its pickup record of an older version, or None
  planned,  \* its planned item of an older version, or None
  run,      \* the runs: their status, and whether a process is at work
  coord,    \* the coordinator of the repo
  slow,     \* what keeps a copy: preparation, retention, an issue sync
  commands, faults,
  mixed,    \* history: a copy replaced a newer job
  astray    \* history: runs that were resumed once their job had given them
            \* up, or whose launch was lost with its process

vars == <<kind, job, record, planned, run, coord, slow, commands, faults, mixed, astray>>

(* status of a run: "stale" was cleaned up, "unbegun" before its first     *)
(* iteration; "refused" could not be resumed by the cleanup and may yet be *)
Runs == 1..MaxRuns
RunStatuses == {"none", "running", "paused", "completed", "failed",
                "stale", "unbegun", "refused"}
IsStale(st) == st \in {"stale", "unbegun", "refused"}

(* run: 0 is no run.  pause: none, the cooldown of an automatic retry, a   *)
(* rate limit.  stale: the last error is that of the cleanup.              *)
Jobs == [status : {"queued", "running", "failed", "completed", "dismissed", "deleted"},
         run : 0..MaxRuns, pause : {"none", "cool", "limit"}, stale : BOOLEAN,
         attempts : 0..2, recovered : BOOLEAN]
New == [status |-> "queued", run |-> 0, pause |-> "none", stale |-> FALSE,
        attempts |-> 0, recovered |-> FALSE]

(* The pickup records and the planned items of an older version.           *)
RecordKinds == [st : {"running", "completed", "failed", "dismissed", "deleted"}, run : {0, 1}]
PlannedKinds == [state : {"queued", "launching", "launched", "failed"}, run : {0, 1}]

(* Assumed of the constants.                                               *)
ScoutBounds ==
  /\ MaxRuns \in Nat \ {0} /\ {Commands, Faults} \subseteq Nat
  /\ None \notin Jobs \cup RecordKinds \cup PlannedKinds

Resolved(j) == j.status \in {"completed", "dismissed", "deleted"}
NoRun == [st |-> "none", live |-> FALSE]
Rested == [pc |-> "idle", run |-> 0, out |-> "none"]
NoCopy == [op |-> "none", pc |-> "idle", of |-> 0, resumed |-> FALSE,
           seen |-> None, copy |-> None]

(* What an older version leaves: nothing, a pickup record, or a record and *)
(* the planned item it was queued as.                                      *)
Legacy ==
  {<<None, None>>} \cup
  {<<[st |-> s, run |-> 0], None>> : s \in {"running", "completed", "failed", "dismissed"}} \cup
  {<<[st |-> "running", run |-> 0], [state |-> s, run |-> 0]>> :
     s \in {"queued", "launching", "launched", "failed"}} \cup
  {<<[st |-> "running", run |-> 1], [state |-> "launching", run |-> 1]>>}

Init ==
  /\ kind \in {"local", "review"} /\ job = None
  /\ \E l \in Legacy : /\ record = l[1] /\ planned = l[2]
                       /\ kind = "review" => l[1] = None
                       /\ run = [r \in Runs |-> IF r = 1 /\ l[2] # None /\ l[2].run = 1
                                 THEN [st |-> "running", live |-> TRUE] ELSE NoRun]
  /\ coord = Rested /\ slow = NoCopy
  /\ commands = 0 /\ faults = 0 /\ mixed = FALSE /\ astray = {}

Fault == faults < Faults /\ faults' = faults + 1
Asked == commands < Commands /\ commands' = commands + 1
Free == {r \in Runs : run[r].st = "none"}

(***************************************************************************)
(* Bringing a job up to date: syncStartWorkScoutJobsIntoState              *)
(***************************************************************************)
(* boundRunningScoutJobRun                                                 *)
Bound(e, rec) ==
  IF e # None /\ e.status = "running" /\ e.run # 0 THEN e.run
  ELSE IF rec # None /\ rec.st = "running" THEN rec.run ELSE 0

(* The job as its planned item says.                                       *)
FromPlanned(j, b, p) ==
  LET k == IF p.state = "launched" THEN [j EXCEPT !.status = "completed", !.stale = FALSE]
           ELSE IF p.state = "failed" THEN [j EXCEPT !.status = "failed", !.stale = FALSE]
           ELSE IF p.state = "launching" /\ p.run # 0
             THEN [j EXCEPT !.status = "running", !.stale = FALSE]
           ELSE IF b # 0 THEN [j EXCEPT !.status = "running", !.run = b]
           ELSE IF Resolved(j) THEN j
           ELSE [j EXCEPT !.status = "queued", !.run = 0, !.stale = FALSE]
  IN [k EXCEPT !.run = IF p.run # 0 THEN p.run ELSE @]

(* The job as its pickup record says.  A job that failed, was deleted or   *)
(* has a run of its own is left alone.                                     *)
FromRecord(j, rec) ==
  LET k == IF rec.st # "running" THEN [j EXCEPT !.status = rec.st]
           ELSE IF rec.run = 0 /\ ~Resolved(j) THEN [j EXCEPT !.status = "queued", !.run = 0]
           ELSE IF rec.run # 0 /\ j.status \in {"queued", "running"}
             THEN [j EXCEPT !.status = "running"]
           ELSE j
  IN [k EXCEPT !.run = IF rec.run # 0 THEN rec.run ELSE @,
               !.stale = IF rec.st = "failed" \/ k.status # "failed" THEN FALSE ELSE @]

(* deriveScoutJobLegacyState                                               *)
Derived(e) ==
  LET j == IF e = None THEN New ELSE e IN
  IF j.status = "deleted" THEN j
  ELSE IF planned # None THEN FromPlanned(j, Bound(e, record), planned)
  ELSE IF record = None \/ j.status = "failed" THEN j
  ELSE IF j.status = "running" /\ j.run # 0 /\ record.run = 0 THEN j
  ELSE FromRecord(j, record)

Requeued(j, pause) ==
  [j EXCEPT !.status = "queued", !.run = 0, !.stale = TRUE,
            !.pause = pause, !.recovered = TRUE]

(* Mutant: a run that was cleaned up is taken for one that goes on.        *)
ReconciledBlind(j, R) ==
  IF j.run = 0 \/ j.status # "running" THEN j
  ELSE LET st == R[j.run].st IN
    CASE st = "completed" -> [j EXCEPT !.status = "completed", !.stale = FALSE,
                                       !.pause = "none", !.recovered = FALSE]
      [] st = "failed" -> [j EXCEPT !.status = "failed", !.stale = FALSE, !.pause = "none"]
      [] OTHER -> j

(* reconcileStartWorkScoutJobRunState: the job as its run says.            *)
Reconciled(j, R) ==
  IF ~(j.run # 0 /\ (j.status = "running" \/ (j.status = "failed" /\ j.stale))) THEN j
  ELSE LET st == R[j.run].st IN
    CASE st = "none" -> IF j.stale THEN Requeued(j, "none") ELSE j
      [] IsStale(st) ->
           Requeued(j, IF st = "unbegun" /\ ~j.recovered /\ j.attempts <= 1 THEN "cool" ELSE "none")
      [] st = "running" -> [j EXCEPT !.stale = FALSE, !.pause = "none"]
      [] st = "paused" -> [j EXCEPT !.status = "running", !.pause = "limit"]
      [] st = "completed" -> [j EXCEPT !.status = "completed", !.stale = FALSE,
                                       !.pause = "none", !.recovered = FALSE]
      [] OTHER -> [j EXCEPT !.status = "failed", !.stale = FALSE, !.pause = "none"]

(* startWorkScoutJobNormalizeRecovery                                      *)
Cleared(j) ==
  IF ~Resolved(j) THEN j
  ELSE [j EXCEPT !.recovered = FALSE, !.pause = IF @ = "cool" THEN "none" ELSE @]

UpToDate(e, R) ==
  IF kind = "local" THEN Cleared(Reconciled(Derived(e), R))
  ELSE IF e = None THEN None ELSE Cleared(e)

(* The planned items of an older version go with the first read.           *)
Put(j) == job' = j /\ planned' = None
Now == UpToDate(job, run)

(* Any read of the state; only one that finds the file out of date writes. *)
Read ==
  /\ Now # job \/ planned # None
  /\ Put(Now)
  /\ UNCHANGED <<kind, record, run, coord, slow, commands, faults, mixed, astray>>

(***************************************************************************)
(* The coordinator: buildScoutJobQueue, markTaskStarted, launchTask,       *)
(* applyTaskResult                                                         *)
(***************************************************************************)
Pick ==
  /\ coord.pc = "idle" /\ slow.op \in {"none", "sync"} /\ Free # {}
  /\ job # None /\ job.status = "queued" /\ job.pause = "none"
  /\ coord' = [coord EXCEPT !.pc = "picked"]
  /\ UNCHANGED <<kind, job, record, planned, run, slow, commands, faults, mixed, astray>>

(* Whatever the job is by now, and a job of no content if it is gone.      *)
MarkStarted ==
  LET j == IF Now = None THEN New ELSE Now IN
  /\ coord.pc = "picked"
  /\ Put([j EXCEPT !.status = "running", !.stale = FALSE, !.pause = "none",
                   !.attempts = IF @ < 2 THEN @ + 1 ELSE @])
  /\ coord' = [coord EXCEPT !.pc = "marked"]
  /\ UNCHANGED <<kind, record, run, slow, commands, faults, mixed, astray>>

(* runStartWorkScoutJob: a run of its own process, or none.                *)
Launch ==
  /\ coord.pc = "marked"
  /\ \/ \E r \in Free :
          /\ \A q \in Free : r <= q
          /\ run' = [run EXCEPT ![r] = [st |-> "running", live |-> TRUE]]
          /\ coord' = [pc |-> "launched", run |-> r, out |-> "ok"]
          /\ UNCHANGED faults
     \/ /\ Fault /\ UNCHANGED run
        /\ \E o \in {"error", "limit"} :
             coord' = [pc |-> "launched", run |-> 0, out |-> o]
  /\ UNCHANGED <<kind, job, record, planned, slow, commands, mixed, astray>>

ApplyResult ==
  LET j == IF Now = None THEN New ELSE Now
      k == [j EXCEPT !.run = IF coord.run # 0 THEN coord.run ELSE @] IN
  /\ coord.pc = "launched"
  /\ Put(CASE coord.out = "ok" -> [k EXCEPT !.status = "running", !.stale = FALSE]
           [] coord.out = "error" -> [k EXCEPT !.status = "failed", !.stale = FALSE]
           [] OTHER -> [k EXCEPT !.status = "queued", !.stale = FALSE, !.pause = "limit"])
  /\ coord' = Rested
  /\ UNCHANGED <<kind, record, run, slow, commands, faults, mixed, astray>>

(***************************************************************************)
(* Those that keep a copy                                                  *)
(***************************************************************************)
(* cleanupStaleLocalWorkRunsForRepoDetailed: a run whose process is gone   *)
(* is resumed or marked stale.                                             *)
Cleaned(r, s) ==
  \/ run[r].st = "running" /\ ~run[r].live /\ s \in {"running", "stale", "unbegun", "refused"}
  \/ run[r].st = "refused" /\ s = "running"

(* prepareStartRepoCycle and, in a cycle, reconcileStaleLocalRuns.  A run  *)
(* that could not be resumed, so that its job gave it up, is resumed all   *)
(* the same.                                                               *)
GivenUp(r) == run[r].st = "refused" /\ coord.run # r /\ (job = None \/ job.run # r)
Cleanup ==
  /\ slow.op = "none"
  /\ \E op \in {"prepare", "cycle"}, r \in Runs, s \in RunStatuses :
       /\ op = "prepare" => coord.pc = "idle"
       /\ Cleaned(r, s) /\ (s = "refused" => faults < Faults)
       /\ faults' = IF s = "refused" THEN faults + 1 ELSE faults
       /\ run' = [run EXCEPT ![r] = [st |-> s, live |-> s = "running"]]
       /\ slow' = [NoCopy EXCEPT !.op = op, !.pc = "read", !.of = r,
                                 !.resumed = (s = "running")]
       /\ astray' = IF s = "running" /\ GivenUp(r) THEN astray \cup {r} ELSE astray
  /\ UNCHANGED <<kind, job, record, planned, coord, commands, mixed>>

(* recoverStartWorkScoutJobsFromStaleManifests: the job of a run that was  *)
(* cleaned up, as the cleanup left it; "again" is a run that is resumed    *)
(* only now.                                                               *)
Recovered(j, again) ==
  IF j = None \/ j.run # slow.of \/ slow.of = 0 THEN j
  ELSE IF slow.resumed \/ again
       THEN [j EXCEPT !.status = "running", !.stale = FALSE, !.pause = "none",
                      !.recovered = TRUE]
       ELSE Requeued(j, "none")

CanResume(j) == j # None /\ j.run = slow.of /\ ~slow.resumed

(* The preparation reads here and writes later; the coordinator does both  *)
(* under the lock of the file.                                             *)
RecoverJob ==
  /\ slow.pc = "read" /\ slow.op \in {"prepare", "cycle"}
  /\ \E again \in BOOLEAN :
       /\ again => CanResume(Now)
       /\ run' = IF again THEN [run EXCEPT ![Now.run] = [st |-> "running", live |-> TRUE]]
                 ELSE run
       /\ IF slow.op = "cycle" THEN Put(Recovered(Now, again)) /\ slow' = NoCopy
          ELSE /\ Put(Now)
               /\ slow' = IF Recovered(Now, again) = Now THEN NoCopy
                          ELSE [slow EXCEPT !.pc = "write", !.seen = Now,
                                            !.copy = Recovered(Now, again)]
  /\ UNCHANGED <<kind, record, coord, commands, faults, mixed, astray>>

(* maintainDismissedStartWorkStateItems, after the days that are set.      *)
Retained(j) ==
  CASE j.status = "dismissed" -> [j EXCEPT !.status = "deleted"]
    [] j.status = "deleted" -> None
    [] OTHER -> j
ReadToRetain ==
  /\ slow.op = "none" /\ coord.pc = "idle" /\ Now # None /\ Retained(Now) # Now
  /\ Put(Now)
  /\ slow' = [NoCopy EXCEPT !.op = "retain", !.pc = "write", !.seen = Now, !.copy = Retained(Now)]
  /\ record' = IF record # None /\ record.st = "dismissed"
               THEN [record EXCEPT !.st = "deleted"] ELSE record
  /\ UNCHANGED <<kind, run, coord, commands, faults, mixed, astray>>

(* startRunIssueSync: it goes through GitHub with the state it read.       *)
ReadToSync ==
  /\ slow.op = "none" /\ Now # None /\ Asked
  /\ Put(Now)
  /\ slow' = [NoCopy EXCEPT !.op = "sync", !.pc = "write", !.seen = Now, !.copy = Now]
  /\ UNCHANGED <<kind, record, run, coord, faults, mixed, astray>>

(* writeStartWorkStatePreservingPlannedItems keeps only the jobs that the  *)
(* copy lacks; retention writes its copy as it is.                         *)
WriteBack ==
  LET kept == IF slow.copy = None /\ slow.op # "retain" THEN job ELSE slow.copy IN
  /\ slow.pc = "write"
  /\ Put(UpToDate(kept, run)) /\ slow' = NoCopy
  /\ mixed' = (mixed \/ job # slow.seen)
  /\ UNCHANGED <<kind, record, run, coord, commands, faults, astray>>

(***************************************************************************)
(* The user: mutateStartWorkScoutJob, promoteStartUIScoutItem              *)
(***************************************************************************)
(* Mutant: any job that is not resolved may be retried.                    *)
RetryableAny(j) == j.status \in {"running", "failed", "dismissed"}

Retryable(j) == j.status \in {"failed", "dismissed"}

Mutate(j) ==
  /\ Asked /\ Put(j)
  /\ UNCHANGED <<kind, record, run, coord, slow, faults, mixed, astray>>

Dismiss ==
  /\ Now # None /\ Now.status \in {"queued", "failed"}
  /\ Mutate([Now EXCEPT !.status = "dismissed", !.stale = FALSE, !.pause = "none",
                        !.recovered = FALSE])
Retry ==
  /\ Now # None /\ Retryable(Now)
  /\ Mutate([Now EXCEPT !.status = "queued", !.run = 0, !.stale = FALSE,
                        !.pause = "none", !.recovered = FALSE])
Restore ==
  /\ Now # None /\ Now.status = "deleted"
  /\ Mutate([Now EXCEPT !.status = "dismissed"])
Promote == kind = "review" /\ job = None /\ Mutate(New)

(***************************************************************************)
(* Runs, time and crashes                                                  *)
(***************************************************************************)
RunEnds(r) ==
  /\ run[r].live
  /\ \E s \in {"completed", "failed", "paused"} :
       /\ run' = [run EXCEPT ![r] = [st |-> s, live |-> FALSE]]
       /\ IF s = "completed" THEN UNCHANGED faults ELSE Fault
  /\ UNCHANGED <<kind, job, record, planned, coord, slow, commands, mixed, astray>>

(* A paused run is resumed when its limit has passed.                      *)
RunResumes(r) ==
  /\ run[r].st = "paused"
  /\ run' = [run EXCEPT ![r] = [st |-> "running", live |-> TRUE]]
  /\ UNCHANGED <<kind, job, record, planned, coord, slow, commands, faults, mixed, astray>>

RunDies(r) ==
  /\ run[r].live /\ Fault
  /\ run' = [run EXCEPT ![r].live = FALSE]
  /\ UNCHANGED <<kind, job, record, planned, coord, slow, commands, mixed, astray>>

(* A pause matters to a job that waits.                                    *)
Elapse ==
  /\ job # None /\ job.status = "queued" /\ job.pause # "none"
  /\ job' = [job EXCEPT !.pause = "none"]
  /\ UNCHANGED <<kind, record, planned, run, coord, slow, commands, faults, mixed, astray>>

(* "nana start" dies; the runs it launched go on.                          *)
StartDies ==
  /\ Fault /\ (coord # Rested \/ slow # NoCopy)
  /\ coord' = Rested /\ slow' = NoCopy
  /\ astray' = IF coord.run # 0 THEN astray \cup {coord.run} ELSE astray
  /\ UNCHANGED <<kind, job, record, planned, run, commands, mixed>>

Progress ==
  \/ Read \/ Pick \/ MarkStarted \/ Launch \/ ApplyResult
  \/ Cleanup \/ RecoverJob \/ WriteBack \/ Elapse
  \/ \E r \in Runs : RunEnds(r) \/ RunResumes(r)
Next ==
  \/ Progress \/ ReadToRetain \/ ReadToSync
  \/ Dismiss \/ Retry \/ Restore \/ Promote
  \/ StartDies \/ \E r \in Runs : RunDies(r)

(* "nana start" repeats its cycles, runs end or pause, and time passes.    *)
Spec == Init /\ [][Next]_vars /\ WF_vars(Progress)

(***************************************************************************)
(* Properties                                                              *)
(***************************************************************************)
TypeOK ==
  /\ job \in Jobs \cup {None} /\ coord.run \in 0..MaxRuns
  /\ record \in RecordKinds \cup {None} /\ planned \in PlannedKinds \cup {None}
  /\ \A r \in Runs : run[r].st \in RunStatuses /\ (run[r].live => run[r].st = "running")
  /\ slow.op = "none" <=> slow.pc = "idle"
  /\ astray \subseteq Runs

(* The run of an older version's record comes back over any later one.     *)
Haunted == record # None /\ record.run # 0

(* A run that goes on, or will be resumed, is known to its job, or is      *)
(* being recorded: a retry, a recovery or a second launch never leaves one *)
(* behind.  The code makes three exceptions: a stale copy replaced a newer *)
(* job (startRunIssueSync); the cleanup resumed a run that it first could  *)
(* not, and that its job had given up (scout_jobs.go:896); "nana start"    *)
(* died between a launch and its record.  The job never comes back to such *)
(* a run, and they do not lead to others.                                  *)
NoStrays ==
  ~mixed /\ ~Haunted => \A r \in Runs :
     /\ run[r].st \in {"running", "paused"} =>
          \/ coord.run = r \/ r \in astray
          \/ Now # None /\ Now.run = r /\ Now.status = "running"
     /\ r \in astray => coord.run # r /\ (Now = None \/ Now.run # r)

(* A job marked started whose launch nobody remembers.                     *)
Lost == job # None /\ job.status = "running" /\ job.run = 0 /\ coord.pc \notin {"marked", "launched"}

(* A job brought up to date with its run does not stay "running" over any  *)
(* death of the run, and what is queued is launched, while a run number is *)
(* left.                                                                   *)
Waits == job # None /\ job.status = "queued" /\ Free # {}
Unsettled ==
  kind = "local" /\ ~mixed /\ (Waits \/ (job # None /\ job.status = "running" /\ ~Lost))
JobSettles == Unsettled ~> ~Unsettled

(* docs/work.md:208: deleted items are purged.  A deleted job is restored  *)
(* by the user, or is gone; it does not go back to the queue.              *)
PurgedIsGone ==
  [][job # None /\ job.status = "deleted" => job' = None \/ job'.status # "queued"]_vars
=============================================================================
