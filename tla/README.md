# Verification of nana

nana is a Go program that runs coding agents on local checkouts and GitHub
repositories. Its hard parts are protocols by which goroutines and processes
share files: a lock on a checkout, the state of the runtime kernel, the state
of the automation loop, a database behind a proxy, and the many records (runs,
items, findings, checkpoints, accounts) that commands read, keep a copy of while
an agent works for minutes, and write back. This directory holds TLA+ models of
them, the TLC runs that check the models, and the TLAPS proofs about them.

`PROJECT.json` maps every definition to the lines it stands for, and lists the
runs, the mutants, the findings, the hazards with their lines and the theorems.
Paths below are relative to `src/internal/gocli/` where no directory is given.

Contents: 1. Inventory. 2. The models. 3. The runs. 4. What the runs found.
5. The proofs. 6. What is only model-checked. 7. What is not modelled.
8. Plan.

## 1. Inventory

### Components that are modelled

| Component | State it keeps | What is hard | Correct when |
|---|---|---|---|
| Repo access lock (`repo_access_lock.go`) | `writer.json`, a file per reader, a heartbeat per handle | every file operation interleaves; records are created in two steps; cleanup removes by path; live processes pause, dead ones leave records | one writer or many readers; nobody's record is removed under him; acquires return; the dead do not block the living |
| nana-runtime (`cmd/nana-runtime/main.go`) | `snapshot.json`, `events.json`, six views | eight files written one after the other, dirty flags, a log thinned by compaction, no lock between invocations | one owner of the lease; what was acknowledged is loaded next; the files tell one story |
| Start scheduler (`start_scheduler.go`, `start_work.go`, `start_triage.go`, `start_reconcile.go`, `start.go`) | issues and service tasks in `start-state.json`; the coordinator's map of running tasks | reads and writes of the state with minutes between them; edits meanwhile; crashes; bounded retries | one agent per issue; no issue stranded; a priority for what was triaged; every cycle ends |
| Planned items, scout schedule (`start_planned.go`, `start_tasks.go`, `scout_schedule.go`) | planned items and their tracking issues | two users, a coordinator, stale copies; a request repeated under its key | one item per key; launched as asked; not forgotten |
| Scout jobs (`scout_jobs.go`, `scout_pickup.go`) | the job of a proposal, a legacy pickup record, runs | three sources of truth that every read reconciles | no run goes on beside its job; a job settles |
| Work database and proxy (`work_db.go`, `work_db_proxy.go`) | SQLite, a supervisor that serves it over a socket | lost answers, retried writes, clients that die in a transaction, migrations that die half-way | writes are atomic and at most once; nothing lingers; opens give a complete schema |
| Usage index (`usage_sqlite.go`, `usage_history.go`, `usage_store.go`) | sources, checkpoints, sessions, a version marker | three ways to read the same session, by several processes | a session is counted once, but for runs that the old index knew, and its windows add up |
| Findings (`findings.go`, `dismissed_retention.go`) | findings, candidates, their planned items | every read normalises; positional ids; stale copies | one planned item per finding; what is dismissed stays so |
| Managed prompt recovery (`managed_prompt_recovery.go`, `codex_exec_resume.go`, `codex_rate_limit.go`) | a checkpoint file and a row per step | two writes per change; a supervisor relaunches what looks dead | an interrupted step is resumed, warm, and settles |
| Managed accounts (`auth.go`, `auth_runtime.go`, `auth_limits.go`, `account_usage_api.go`) | registry, runtime state, `auth.json` | sampling without the mutex; whole-state overwrites | Codex runs with the credentials of the active account, chosen because it has room |
| Investigate (`investigate.go`) | the manifest of a run with its rounds | crashes, resumptions, two processes | completed only with a proved report; settles |
| Local work runs (`work_local.go`, `work_local_finalization.go`, `work_stop.go`, `work_drop.go`) | manifest, runtime state, sandbox, source and remote | a loop that keeps its copy; stop, drop, cleanup, resolve beside it; a commit, a push and a record that are three writes | only what was verified is applied; the status tells the truth; no finding is lost |
| Work items (`work_items.go`, `work_items_github.go`) | a row, its task row, its recovery row | every command writes a whole copy back | the item says what can be shown; it settles |
| GitHub work (`github_start.go`, `github_sync.go`, `github_completion.go`, `github_lane_exec.go`, `github_publisher.go`, `work_followup.go`) | the manifest, artifacts per round, the pull request | manifest read before the lock; a remote that changes | published as verified; feedback reaches the agent |

### Components that are not modelled

| Component | Why |
|---|---|
| Scouts (`improve.go`) | prompts and artifact files; the schedule enters `StartScheduler` as the set of due roles |
| GitHub policy, review and commands (`github_review.go`, `github_policy.go`, `github_commands.go`, `github_defaults.go`) | prompts, policies and command lines; the state they lead to is in `GithubWork` |
| Start UI and API (`start_ui.go`) | an HTTP server over the same state; the handlers that change planned items, findings, scout jobs and work items are actions of those modules, the rest is reading |
| Service socket (`service.go`), verification (`verify.go`) | I/O |
| Launch, setup, doctor, HUD, hooks, routing; telemetry and sessions; build and helper commands | arguments, installed files, output |

Interactions: the work commands and the scheduler's prompts run under the repo
access lock; the scheduler launches planned items, scout jobs and work runs;
agent steps are managed prompts, which the passes of `nana start` recover, and
run with a managed account; findings of runs become planned items; all rows
live in the work database. The UI runs inside `nana start`; other commands are
processes of their own. `nana-runtime` stands alone and is called by agents.

## 2. The models

| Module | Stands for |
|---|---|
| `RWLock`, `RepoAccessLock` | what the lock promises (many readers or one writer, atomic downgrade); the file protocol, every file operation a step |
| `RuntimeEngine`, `RuntimeExec` | the engine's state machine, replay and compaction (operators only); invocations over the state directory, a file at a time |
| `StartTasks`, `StartScheduler` | the start state and what the coordinator computes from it (operators only); coordinator, task goroutines, issue sync, crash, next cycle |
| `PlannedItems`, `ScoutJobs` | the other records of the start state, each with its coordinator, users and stale copies |
| `AtomicWrites`, `WorkDB` | writes that happen once or not at all; connections, sessions, transactions, retries, supervisors |
| `WorkDBSchema`, `UsageIndex` | opening, upgrading, repairing and trimming the database; the usage index in it |
| `Findings` | findings and import candidates of one repository |
| `ManagedPrompt`, `Accounts`, `Investigations` | one agent step with its supervisor; accounts; investigations |
| `LocalWork`, `FindingsValidation` | one local run; the validation of its findings |
| `WorkItems`, `GithubWork` | one work item; one GitHub run |
| `MCRepoAccessLock`, `MCRuntimeExec`, `MCStartScheduler`, `MCAgents`, `MCStores`, `MCLocalWork`, `MCDesk` | symmetry sets, and the components that are checked side by side |
| `..._proofs` | theorems about the module before the underscore |

The header of each module says what a step stands for and what is left out. The
conventions are the same everywhere: a process is a record with its place
(`pc`, `at`), its copy of what it has read, and what it is about to do; a read
and the write that follows it are two actions whenever the code lets go of the
mutex, the lock or the transaction in between; deaths, failures, commands and
edits are bounded by one named constant of the module; a run ends where the
code's own behaviour is no longer defined by the record (`mixed`, `stale`):
what a stale copy has mixed up is counted as a fact (section 4) and not
followed further.

### RepoAccessLock

A member of `Procs` is one acquirer with its token. `writer` is `writer.json`
(owner and age), `readers` the reader files, `readersDir` the directory;
`pc`, `mode`, `late` and `beat` are the acquirer's place, mode, expired deadline
and heartbeat. An age is `torn` (opened, not written), `fresh` or `stale`
(older than 30 seconds).

`Acquire` starts `acquireRepoAccessLock`; `CleanWriter`, `UnlinkWriter` and
`CleanReaders` are `cleanupStaleRepoAccessLocks`; `CheckWriter`, `Mkdir`,
`OpenReader`, `WriteRecord`, `Recheck` the reader's path; `OpenWriter`,
`WriteRecord`, `ListReaders` the writer's; `Wait` the poll with its deadline;
`Release` and `Prune` the release with `pruneEmptyParentDirs`; `Downgrade`,
`DownOpen`, `DownWrite`, `DownFinish`, `DownFail` the downgrade helper of
`withSourceWriteThenReadLock`; `Heartbeat` the goroutine, `Inspect` the status
query. `Age`, `Deadline` and `Crash` are the environment, and `Faults` says
which of its faults occur: `crash`, `lapse` (a live process paused beyond the
threshold), `torn` (a record read before it is written), `swap` (writer.json
replaced between a cleanup's read and its removal), `io` (a removal fails).
Reading and removing a *reader* file is one step, since only its own token ever
creates it; for `writer.json` the two are separate under `swap`.

### RuntimeEngine and RuntimeExec

`Accepts`, `Effect`, `ReplayEvent`, `Replay`, `Compact`, `Backlog` and `Ready`
are the functions of the same names; an event is the accepted command itself.
`files` and `present` are the state directory, `garbled` says whether
`events.json` is empty or torn, `run` has one record per process (where it is,
its command, engine, log, dirty files and the next file to write), `granted` is
a history variable: the owners whose acquisition was printed. A load error is
dropped and a new engine takes over, as in the code. `Write` writes the next
file of `FileOrder` if it is dirty or missing; `FailAppend`, `ShortWrite`,
`Crash` and `CrashAfterCreate` are the error paths. Left out: the payloads,
lease times (nothing in the program lets a lease expire), and the queries.

### StartTasks and StartScheduler

`StartTasks` holds the records and the functions of the coordinator:
`SyncServiceTasks` with `Requeued`, `Untriaged`, `Lapsed`, `Refused` and
`Upserted` is `syncServiceTasks` with `upsertServiceTask`; `ServiceQueue` and
`WorkQueue` are the two queues; `MarkStarted` is `markTaskStarted`; `ApplyWork`
(with `Paused`, `Returned`, `HandedOver`), `ApplyService`, `ApplyTriage`,
`ApplyReconcile` and `HandleFailure` are the branches of `applyTaskResult`.

`StartScheduler` says which goroutine applies them. The coordinator is at
`fill` (a slot is free), `refreshing` (it has read the state and is talking to
GitHub), `picked` (a task is chosen), `wait` (for a result), `dropped` (its
refresh failed while tasks run), `idle` (the cycle is over) or `dead` (the
process panicked). `Reload` and `RefreshRead`/`RefreshWrite` are `nextTask`,
`Start` the launch, `Complete` the receipt of a result, `SyncRead`/`SyncWrite`
the issue sync of a worker, which writes back everything it read before,
`RefreshFail` and `Panic` the error path of a failed refresh, `NextCycle` the
loop of `nana start` or a new process after a crash. One repository (another
one only takes slots away); open issues in auto mode without manual priorities
and below the PR cap; the queues are sorted in the code, the model takes any
member; a run id is given when the agent is launched; which scouts are due and
which triages the recovery table shows as alive is chosen at each refresh; the
task rows in SQLite are derived from the state and left out. A fault `revert`
lets an edit of an issue be undone later.

### WorkDB and WorkDBSchema

A client of `WorkDB` is one call of `withLocalWorkWriteStore` whose function
opens a transaction, reads, writes two rows and commits, directly or through a
session of a supervisor. SQLite is external: WAL, one writer, deferred
transactions, a lock error when the lock is taken or the snapshot is old. Lost
answers, the client's retries (`Attempts`), the supervisor's launches and
crashes, its socket and the wait for its handlers are steps. `AtomicWrites` is
the abstract promise, and `ImplementsAtomicWrites` the refinement. In
`WorkDBSchema` a transaction, or a statement outside one, is a step;
processes of any earlier version open, upgrade, check, repair and archive one
file, and may die between any two steps. An archive is a file named by the
second of its writing (`archive`; what a later one of the same second takes away
is in the history `replaced`), and the index rewrites sources and drops those
whose files are gone (`Index`, `Vanish`, `Unindex`).

### UsageIndex and Findings

`UsageIndex` has rollout files with running totals, the shared directories that
every sync reads, the sessions in the sandbox of a run, the history file that an
older version may have left in the run's directory and that is read instead of
them, recorded prompts, and the legacy index, which has any of the sessions and
no runs; a sync is one transaction per source. `Findings` has the artifacts of a
run with the items that they tell more than once and not alike (`split`: a stage
that failed in the verification and again after the hardening), the state on
disk, one import session and the copy a slow writer holds; `Normal` is what
every read and write does first.

### ManagedPrompt, Accounts, Investigations

`ManagedPrompt` is one step with up to three processes and a supervisor:
checkpoint file, row, Codex's outcomes, pauses, and the supervisor's pass.
`Accounts` is the registry, the state and `auth.json`, a session with its
monitor, and the account commands; the registry is kept as it is read, with the
first account preferred where none is (`Loaded`). `Investigations` keeps of a report what the
rules look at: its status, whether its texts are there, and the kind, link and
primacy of each proof.

### LocalWork and FindingsValidation

`LocalWork` has the row `m`, the runtime state and result files `it` of the
iteration, the sandbox `sb`, the source and its remote `src`, the lock holders,
and per process its copy of the row. One action of the loop stands for the
write of the active state, the step and its checkpoint; what an interrupted one
leaves half done is in `Dies`. History variables: `seen` (which of verification
and review have passed for the tree as it is), `mixed` (a stale copy was
written), `reopened` (a finished iteration was entered again, section 4).
`FindingsValidation` is the phase that groups the findings of a review and
gives each group to a validator, with its result files.

### WorkItems, ScoutJobs, PlannedItems, GithubWork

In each, every command reads its record, does something slow with its copy and
writes the copy back. `WorkItems` also has the task row and the recovery row;
`ScoutJobs` the legacy record and up to two runs of the job, and the history
`astray` of the runs that the code leaves behind (section 4); `PlannedItems` the
keyed request, the tracking issue on GitHub and the coordinator; `GithubWork`
the tree, the stored artifacts of rounds, the agent's session, the pull request
and the lock of the sandbox, here simply the process that holds it. Of the
feedback it says what the leader was shown (`told`) and what a prompt only
counted (`omitted`): `PromptLimit` stands for the number of comments and reviews
a prompt shows, the newest first. `crossed` is the history of syncs that got in
each other's way.

## 3. The runs

| Run | Instance | Checks |
|---|---|---|
| `LockExclusion` | 3 acquirers; `crash`, `io` | `TypeOK`, `MutualExclusion`, `Recorded`, refinement of `RWLock` |
| `LockFaults` | 2 acquirers; `crash`, `lapse`, `torn`, `swap`; fair | `NoResidue`, `AcquireReturns`, `StaleRecovered` |
| `RuntimeViews` | 2 owners, 2 requests, 1 message, 1 cursor; 4 events; no fault | `ViewsAgree`, `ReplayMatchesDisk` |
| `RuntimeCrash` | 2 owners, 1 request; 3 events; `crash`, `short` | `GrantHonoured`, `SoleOwner`, `DispatchesAdvance` |
| `SchedulerSync` | 1 issue, 1 scout, 2 workers, 2 cycles; `github` | `OneImplementation` |
| `SchedulerRecovery` | 1 issue, 2 revisions, 2 workers, 3 cycles, no scout; `crash`, `error`, `pause`, `github`, `edit`; fair | `InProgressWatched`, `TriageSettled`, `CycleEnds` |
| `Agents` | a step with 3 processes, 1 supervisor and 1 fault; 2 accounts, usage in 2 levels, 1 command; an investigation of 2 rounds, 2 processes, 2 troubles; fair | `StepsRecoverable`, `AuthFollowsState`, `CompletedProved`, `WarmRestart`, `AllSettle`, `ChoosesRoom`, `RevisionTold` |
| `LocalWork` | 2 processes, 2 iterations, 1 round, 1 followup, any 2 events; 2 findings with 2 files, 2 validators; fair | `CompletedIsTrue`, `NoneLost`, `AppliesVerified`, `Settles` |
| `Stores` | 2 clients (1 proxied), 1 supervisor started twice, 2 attempts; 2 processes over a database of any version; 2 findings, 1 candidate, 4 edits; 2 sessions (1 of a run), 1 run, 1 change; fair | `OpensComplete`, `FindingsInLine`, `SessionsCounted`, `ImplementsAtomicWrites`, `NothingLingers`, `NothingLost`, `DismissalStands` |
| `Desk` | a work item with 2 processes, 2 commands, 1 fault; a scout job with 2 runs, 2 faults; 2 planned items, 2 users, 4 events; a GitHub run with 2 processes, 2 comments, prompts that show 1, 4 commands; fair | `ItemTold`, `LaunchedOnce`, `NoStrays`, `PublishedAsVerified`, `FeedbackKept`, `Settles` |
| `GithubStale` | 1 process, 3 followups, no fault | violates `CompletedVerified` |
| `ScoutRevived` | 1 run, 1 command, no fault | violates `PurgedIsGone` |

In `Agents`, `LocalWork`, `Stores` and `Desk` the components share nothing but
the processes around them, so a variable `part` says which of them a behaviour
is about, and the others keep an initial value: the states of the parts are
added up, not multiplied. The parts of `Desk` for GitHub are three (a start, a
feedback sync, a publication), each with the commands that belong to it.

Nine further configurations are not runs of the list; each shows in seconds to two
minutes what section 4 tells of it: `LockTorn` and `LockLeak`
(`MCRepoAccessLock`), `RuntimeOverlap` (`MCRuntimeExec`), `SchedulerStuck`,
`SchedulerStaleTriage`, `SchedulerPanic`, `SchedulerStranded` and
`SchedulerReverted` (`MCStartScheduler`), `LocalDropped` (`MCLocalWork`). TLC
finds the property of each violated, e.g.
`tlc -config SchedulerReverted.cfg MCStartScheduler.tla`.

**Bounds.** Lock: three acquirers are one holder, one competitor and one more
process that cleans up or prunes at the wrong moment; exclusion is proved for
any number. Liveness and the destructive faults are checked with two, where an
acquirer already meets every kind of leftover; each may acquire any number of
times. Runtime: two owners dispute the lease; two requests and four events let
a request be queued, finished, compacted and queued once more; three events
suffice for a grant, a torn append and another acquisition. Scheduler: issues
touch each other only through free slots and through the sync's write, which
concerns each alike; two workers let an issue sync overlap anything; three
cycles exhaust the retry limit of a reconcile that waits; two revisions let an
edit meet a triage. The larger runs: two writers, two processes or two
users are the smallest number that interleaves, and a third (in `ManagedPrompt`)
is a relaunch of a relaunch; two iterations, rounds or attempts let the results
of one be taken for those of the next; one or two faults reach every half-done
state, and the state a second one finds there. One comment per prompt and two
comments are what makes a prompt leave one out (the code shows 5 or 10). In
`Stores` the usage index starts with the run indexed and its session's four
reports of three seconds; the run's history file is either not there, and one
change may follow, or says the first two reports, and nothing else changes: this
keeps the run below four minutes. The theorems of section 5 hold for any numbers
and any start `Init` allows. Most parts stop when their events are used up, so only the lock
runs check for deadlock; the others check that they settle instead.

Every property of a passing run has a mutant in `PROJECT.json`: a plausible
bug, defined next to the operator it replaces, that makes TLC find that
property violated under the same configuration.

**Fairness.** Lock: a process inside a call is scheduled (`Proceed`, and
`Release` where the call itself releases), the clock passes its deadline and the
threshold for the records of the dead; nothing is assumed of how long a holder
keeps the lock or of whether anybody acquires (`StaleRecovered` has the latter
as its premise, because cleanup happens in acquires only). Scheduler: Go runs a
runnable goroutine, and a task returns since an agent's run is cut off by its
timeout (`WF` of the coordinator and of each worker); nothing is assumed of
`NextCycle`, edits or crashes. `Agents`: a process that is alive goes on, Codex
ends or is killed by its timeout, a limit's time passes, and `nana start` makes
its passes (it is a loop with a ticker). `LocalWork`: the loop goes on, and the
passes of `nana start` clean up after a dead one. `Stores`: handlers and clients
that are alive go on (every call has a deadline), a supervisor that is told to
stop finishes. `Desk`: commands that have begun go on, and the coordinator makes
its cycles. In none of them is a fault, a command of the user or an answer of
GitHub fair.

**What the passing runs show.**
- The lock is exact as long as no record is seen half-written, no live process
  outlives its heartbeat and no cleanup removes a file it has not read; beyond
  that, an acquire still returns and, while removals succeed, leaves nothing
  behind.
- Without faults, all views of the runtime agree after any sequence of commands,
  compactions and inits, and the log rebuilds the engine up to what compaction
  forgets. Crashes anywhere do not lose an acknowledged lease (unless the log is
  torn) or move a dispatch back.
- Whatever lost updates do to the start state, an issue is not given to a second
  agent while the first is at work. Without scouts, and so without overlapping
  syncs, no issue is stranded in progress by any combination of crashes,
  failures, pauses and edits. No triage is closed without its priority, and
  every cycle ends.
- An interrupted agent step is recovered, warm on the first interruption, and
  settles; Codex runs with the credentials the state names; an investigation is
  completed only with a report whose proofs hold.
- A local run applies only what was verified and reviewed as it is, and says
  truly what became of it, as long as no stale copy of its row is written and it
  is not reopened; no finding of a review disappears without a decision.
- Writes to the database are atomic, at most once and honestly reported through
  direct and proxied connections; an open that returns gives a complete schema,
  and no data is lost, from every earlier version but those of section 4, and
  but for an archive that another of the same second replaces.
- Findings come in line with their report, have one planned item each and stay
  dismissed; a usage session is counted once, unless the old index knew it as a
  run's.
- Work items, scout jobs, planned items and GitHub runs say no more than can be
  shown, publish only what passed verification and settle, within the limits
  that section 4 tells.

## 4. What the runs found

Two runs of `PROJECT.json` contradict what the repository says of itself:

1. **GithubStale.** A follow-up round edits the sandbox, and the loop begins
   again at the first prefix, whose stored artifacts (verification, review,
   gate, validation) stand for the new tree: the run is completed with a tree
   nobody verified (`github_completion.go:268`).
2. **ScoutRevived.** Retention purges a deleted scout job; the same write
   normalises the state, finds the proposal on disk again and queues it
   (`dismissed_retention.go:197`).

The configurations kept beside them:

3. **LockTorn.** A record is created with `O_EXCL` and written afterwards, and
   whoever reads it in between removes it as unreadable; a second process gets
   in.
4. **LockLeak.** A reader that backs off may prune `readers/` under a downgrade:
   `DowngradeToRead` returns a nil handle, the caller stores it over its own,
   and `writer.json` keeps a live heartbeat until the process ends.
5. **RuntimeOverlap.** Nothing excludes two invocations of `exec`; two
   acquisitions can both be acknowledged.
6. **SchedulerStuck.** A publication that is pending for the third time falls
   through the "retries exhausted" branch: the issue stays `reconciling`, its
   task is `completed`, and nothing looks at it again.
7. **SchedulerStaleTriage.** A triage result is recorded for the revision on
   file when it arrives, not for the one it has read.
8. **SchedulerPanic.** A failing refresh drops the coordinator while tasks run;
   the next result dereferences nil and ends the process.
9. **SchedulerStranded.** A refresh in the middle of a cycle queues a running
   issue sync again (`start_scheduler.go:509`), so two syncs run at once. The
   first writes back an old state (issue queued), the coordinator picks the
   issue's work, the second writes back a newer one (issue blocked, reconcile
   completed), and `markTaskStarted` sets `in_progress`. After a crash,
   `upsertServiceTask` (617) refuses to queue the completed reconcile of the
   same fingerprint and run, and the issue is stranded. It takes 41 steps.
10. **SchedulerReverted.** An edit that is undone while the issue's work runs or
    is paused leaves the issue's triage `queued` (`start_work.go:1423`) beside a
    triage task completed for that very fingerprint, which is refused (617): the
    issue is never triaged again, also when it is still queued.
11. **LocalDropped.** In a managed source, a commit that was made but not pushed
    is dropped by the next sync of the checkout (`reset --hard` to the remote;
    only the autosave branch keeps it). `work resolve` then skips the commit,
    has nothing to push and says `pushed` (`work_local_finalization.go`,
    `work_local.go:2279`).

Observed while modelling, with the module that shows it. Stale whole-record
copies are behind most of them.

- *Lock*: the cleanup after a crash removes `writer.json` by path (fault
  `swap`); a removal that fails in `Release` leaves its record behind (`io`).
  *Runtime*: `exec --compact` on a torn log forgets the owner, which is the
  premise of `GrantHonoured`; `MarkFailed` accepts a dispatch that is still
  pending.
- *Scheduler*: an issue sync that writes back what it had read reopens an
  implemented issue; overlapping syncs can retry each other, so `CycleEnds` is
  claimed without scouts; a triage that depends on a sync which failed waits for
  the next cycle; a paused triage counts as an attempt.
- *PlannedItems*: an item whose second launch dies stays `launching` for ever
  (653) and holds a slot (844); a deleted item returns as a ghost (938); what is
  launched is the snapshot's text; a lost answer between the POST and the record
  makes a second issue.
- *Findings*: `return updated || markMissing...` short-circuits (findings.go:515,
  598, 703), so missing findings are resolved only when nothing else changed:
  after three reads, unless two verification artifacts of a coding run tell one
  stage differently (659-701). Then each replaces the other's text in every
  read, and as long as they are the latest nothing that is missing is resolved.
  A sync resets the time of a dismissal;
  purged findings come back open and are promoted again; one unreadable report
  blocks every read; replaced candidates keep the status of their position.
- *WorkItems*: a refresh drops `pause_until`; a dispatch list is read once; a
  drop or patch during a run is overwritten and then submitted; a crash after
  `startAttempt` leaves `running` for ever; a review retried after a lost answer
  is posted twice; a late runner re-inserts a purged row.
- *ScoutJobs*: promoted review proposals are never brought up to date; a legacy
  record with a run overrides retried jobs; a run that the cleanup could not
  resume, so that its job gave it up (896), is resumed by a later cleanup and
  goes on beside the requeued job's; `nana start` that dies between a launch and
  its record leaves the run without a job, and one that dies between mark and
  record a job `running` without a run. `NoStrays` excepts the two kinds of runs
  (`astray`) and shows that their job never comes back to them.
- *GithubWork*: the feedback cursor is advanced before the artifact and Codex, so
  a crash between loses feedback; a second sync overwrites the artifact of a
  failed one, and one that ends deletes the artifact of another; these three are
  the exceptions of `FeedbackKept` (`crossed`). Comments past the limits of a
  prompt are only counted in it (`github_sync.go:502-542`), and are not shown
  later: the artifact that has them is deleted. Resume writes `completed` before its loop begins; approvals are
  not tied to the head, and no registered CI counts as green.
- *LocalWork*: with all findings rejected the tree is applied without the final
  gate; a crash between commit and record makes `resolve` fail for ever;
  stop, cleanup and superseding write whole stale copies; the recorded sha is
  that before the push's rebase. A run that is resumed while it runs re-reads
  its row when the first loop has ended `blocked` after its apply, runs the next
  iteration with the old outcome and, when that is blocked too, `resolve` pushes
  the earlier commit and says `pushed`: *reopened*, the exception of
  `CompletedIsTrue`.
- *WorkDBSchema*: the migrations from versions 2 to 4 create an index on columns
  that are added later (`work_db.go:421`, 573), so such a database cannot be
  opened (`IndexFails`); two `maintain` of one second write the same archive file
  (`work_db.go:1805`), and what the first had archived and deleted is gone (the
  exception of `NothingLost`, with the rows of files that were removed, which
  the index drops); closing the proxy may remove a newer supervisor's socket.
- *UsageIndex*: a sync of one run moves the marker past runs not yet synced,
  which are then never counted; a legacy import that dies after its first entry
  never completes; the import knows no runs (`usage_sqlite.go:298-329`), so a
  session of a run that came from the old index counts a second time when the
  run's history is read (the exception of `SessionsCounted`), until a prompt
  records it; a run's total may drop when its first own rollout is recorded.
- *ManagedPrompt*: the fingerprint of a continuation is that of its own prompt,
  so a second interruption restarts cold; a crash between checkpoint and first
  row, or a failed row, loses the step. *Accounts*: whole-state overwrites lose a
  limit's time; `auth.json` and the state are two writes. *Investigations*: the
  status of a round with an unreadable report is on disk while the run goes on,
  and recovery takes it as final; the MCP status is kept for ever, so a run that
  failed readiness cannot be resumed.

## 5. The proofs

All are checked by TLAPS for every value of the constants. Each invariant below
was checked by TLC, as an invariant of a run, before it was proved.

**Lock** (`RepoAccessLock_proofs`; `NoProc` is not a process). `TypeCorrect`
holds under every fault. `Exclusion`, `HoldersAreRecorded` and `Refinement` are
from `BenignFaults` (only `crash` and `io`), which excludes what makes them
false (`LockTorn`). The invariant is `TypeOK /\ HandleInv /\ NoTorn /\ Recorded
/\ MutualExclusion`. Exclusion is not inductive by itself: that a writer who saw
no reader and a reader who saw no writer cannot both be inside follows from both
records being on disk since before their second look, which is `Recorded`;
`Recorded` needs that a cleanup never finds a record of a living holder stale,
which `HandleInv` gives (a handle has a heartbeat, a place says what the
heartbeat beats for). `Refinement` shows step by step that an acquire's last
look is the abstract acquire, that the removal of `writer.json` in a downgrade
is the abstract downgrade, and that everything else is a release, a crash or a
stutter. `NothingLeft` is from `RemovalsSucceed` (no `io`) and every other
fault; its invariant `FilesOwned` says which places a process with a record on
disk can be at.

**Runtime** (`RuntimeExec_proofs`). `TypeCorrect` holds under every fault.
`OneOwner` and `GrantsAreDurable` are from `NoOverlap`. Their invariant says that
one process runs (`Solo`), that a writing process has left everything before its
index in place (`Written`), that a process about to report an acquisition has
its owner in the snapshot written first and a log that parses (`Acquiring`), and
that once something was reported every engine loaded or to be written carries
that owner, unless the log is torn (`Honoured`, `Torn`). `OneStory` and
`ReplayTellsAll` are from `NoFaults`, since a crash between two files of one
command makes both false. `ViewsInv` says that the files are whole or not yet
there, and of a process how far its engine has caught up with them (`Reading`),
and that a view which differs from what is to be written is dirty (`Writing`),
whose core is that the dirty set of each command covers every view the command
changes. `LogInv` says that the log tells the story of the engine: `Story` is
the relation between an engine and a log, which replay, the effect of a command
and compaction preserve. That a replay of a log of any length does so is an
induction over the log; the library's induction theorems cannot be instantiated
here, so `LeastNatural` is derived from the well-foundedness of the naturals,
which is stated for sets, and `SetInduction` from that. A recursive function
inside a LET is unfolded by a lemma of its own (`Replays`, `Keeps`).
`NeverBack` (the action property `DispatchesAdvance`) is from `NoOverlap`, under
every fault that can then occur. `AdvanceInv` says that the files appear in the
order they are written (`InOrder`), that a log which was never begun goes with no
dispatches (`Begun`), that a loading process has the dispatches on disk, or no
log and so nothing to replace them by (`Carries`), and that a writing one
replaces them by later ones, or stops before at a torn log (`Replaces`).

**Scheduler** (`StartScheduler_proofs`, from `Workers # {}` and bounds that are
natural numbers). `OneAgentPerIssue` and `SlotsRespected` assume nothing of the
state file and nothing of the faults: every issue an agent works on is in the
coordinator's map (`Known`) and a picked task never is (`PickedAnew`). That is
the point, since an issue sync may put anything it has read on file.
`TypeCorrect` then follows the state through every copy. `ClosedIsTriaged` is
from `NoRevert`: `SettledInv` says of the file, and of every copy of it that will
be written back, that a triage task completed for a revision goes with a
priority recorded for it or with a newer revision (`Consistent`). The copies are
what makes it inductive; what breaks it is a revision that returns
(`SchedulerReverted`). `NoneStranded` is from `Roles = {}`: `WatchInv` says of an
issue in progress that its reconcile has yet to be queued or run (`Steady`), and
of every picked or started job what the file says of its issue. With scouts it
is false (`SchedulerStranded`).

**Work database** (`WorkDB_proofs`). The invariant is `TypeOK /\ Writer` (who
has written holds the lock) and, of each client, where its session runs
(`Hosting`), how far its transaction has come (`Progress`) and that what it was
told is what happened (`Honest`). From it `OneWriter` and the refinement
`WritesAreAtomic` of `AtomicWrites`: the commit is the abstract write, an answer
the abstract report, everything else a stutter. Of the file, `OpensAreComplete`
and the action property `NoDataLost`, for any processes, sources and contents
from 1 on. `FileInv` says what each place of an opening, repairing or trimming
process knows of the file (`Place`): since every other process only adds to it
(`Grows`, `Alone`), that stays so. Two facts about the file itself are needed:
one without tables is new, and one created empty has every column of its tables
(`FileTyped`), so that a creation cannot leave a column out. For the trimming,
`Collected` says that until the next commit what was collected is what there is
to delete. `NoDataLost` excepts what an archive of the same second replaces and
the rows of sources whose file is gone.

**Usage index** (in `WorkDB_proofs`, from `UsageBounds`). `SessionsAddUp`:
reports count a session once, a row with the size of its file says what the file
says, and what a window reports of a session is by how much it exceeded its
earlier totals. `UsageInv` says what each row of the index can say (`RolloutRow`,
`LegacyRow`, `HistoryRow`), what a syncing process knows at its place (`Holds`),
and that only what was imported beside its rollout has two rows (`doubled`);
that a run's session from the old index counts beside the run's history is the
exception in the theorem.
Rollouts only grow or are removed (`Grown`), so that what a process has read is
a beginning of what is there (`KnowledgeLasts`); the deltas of a chart telescope
to its rise (`SpentIsRise`). A window's total is a fold over a set. The library
has no theorems about folds that can be used here, so that the sum exists, does
not depend on the order and splits (`SumExists`, `SumsAgree`, `SumUnfolds`,
`SumSplits`) is derived from the well-foundedness of the naturals, as above.

**Findings** (`Findings_proofs`, from `FindingsBounds`). The invariant says that
planned items are numbered, and that a finding has at most one, which its record
names if it is promoted (`One`). What normalisation, a sync, promotion, an edit,
retention and an import do to a finding is one of four changes (`Change`), each
of which preserves `One`; hence `OnePlannedItem` and the action property
`DismissedStaysDismissed`. Both except what a stale copy has written and what
was purged. `ThreeReadsSuffice` needs no history, only the types: after the
second reading nothing is left to change of what is reported (`ReportsTwice`; a
finding that the first promotes counts as changed since the report, which the
second takes back), and only then does a reading resolve what is missing
(`SettledReads`). Where the artifacts tell an item differently nothing missing
is resolved, and the theorem says of the others that they come in line. `FindingsAgree` and `DismissalsStand` (in `WorkDB_proofs`)
carry them over to the composition that the run `Stores` checks: each of its
behaviours is one of `Findings` (`FindingsBehave`).

**Local work** (`LocalWork_proofs`). The invariant has two parts that the code
keeps apart in many copies of one row. `Verified`: a row or a loop whose next
step is a commit follows a tree that passed verification and review as it is, or
that is empty (`RowVerified`, `Following`). `Truthful`: what the row, and every
process that will write it, claims of the commit and the push is so
(`RowTruthful`, `Claims`). From them `AppliesOnlyVerified` (the action property
`AppliesVerified`) and, for a source that nana does not manage, `SaysTheTruth`;
`LocalDropped` shows that the hypothesis is needed. The exceptions `mixed` and
`reopened` are in the properties themselves.

**Findings validation** (in `LocalWork_proofs`). `NothingDropped`: each finding
that is not among the results is still to be grouped or handed to a validator
(`Handed`), or a decision about it is on file or remembered (`Context`,
`Sincere`). `ValidationTypes` includes that the pool of validators never exceeds
`ValidationParallelism`; it is from `SizeAssumption`. `NoFindingLost` carries
both over to the composition that the run `LocalWork` checks (`NoneLost`).

**Agents** (`Agents_proofs`). The theorems are about the composition `MCSpec`
and hold for any number of processes and supervisors, any finite set of accounts
that is not empty, any levels of usage, and any set of reports that satisfies
`ReportsAssumption` (a report records its proofs and issues); no fault is assumed
away.
- *Managed step*: `StepsRecovered` and `RestartsWarm` (the action property
  `WarmRestart`). `StepInv` says that after the last worker died nobody works
  until someone joins, and the row is there (`Left`), and that what the
  checkpoint says of a session while Codex runs or waits can be resumed
  (`Continues`).
- *Accounts*: `CredentialsFollow` and `RoomChosen` (the action property
  `ChoosesRoom`). `AccountsInv` says that the registry, the state, every copy of
  them and every write that a command has still to make are well formed
  (`AccountsTyped`), that who decides has just asked about the accounts it knows
  (`JustSampled`), and that `auth.json` already holds the next active account
  before the state is saved (`Followed`). The choice itself is a chain of lemmas
  about the functions of `auth_limits.go` and `auth_runtime.go`: `FirstFits`,
  `LeastUsedFits`, `FallbackFits`, `LaunchFits`, `MergeTells`, `RoomIsFresh`.
- *Investigations*: `ConclusionsProved` and `RevisionsTold` (the action property
  `RevisionTold`). `RunInv` says what each place of a run knows (`Holds`), that a
  final report never has a violation and that a round which needs revision has a
  verdict (`Founded`), and that who works alone finds on disk what it wrote there
  (`AloneFinds`); the last is false of two processes on one run, and the
  properties say so. What `Proved` demands of a link excepts proofs of a kind
  that no rule knows, as `validateInvestigateProofLink` does not look at theirs.

**Desk** (`Desk_proofs`, from `ItemKinds`, `ItemNone`, `ItemProcs`,
`ItemBounds`, `PlannedBounds`, `ScoutBounds` and `GithubBounds`). The theorems
are about the composition `MCSpec`; each of its four parts has its own invariant.
- *Work items*: `ItemsToldAsTheyAre`. `ItemInv` says that the row and every copy
  that a command holds claim no more than they can show (`Claims`, `Fit`), and
  that the task shows the item, or exactly one command is about to see to it
  (`Mirrored`). `ItemsKeepTheirWord` says the same of `WorkItems!Spec`, which
  goes on after a write of tasks was overtaken or lost (`mixed`).
- *Planned items*: `PlannedLaunchedOnce`. `PlannedInv` says that there is room
  for the next number (`Room`), that one item holds the key, and that each place
  of an item, its launch and the coordinator's step leaves the launch owed
  (`Owes`, `Owed`); until an issue sync writes an old copy (`stale`).
- *Scout jobs*: `ScoutsNeverStray`. `ScoutInv` says what a job on file says of
  its run (`Sound`), what a launched process and the coordinator's copies say of
  it (`InHand`, `Kept`), and that every run without an end is known to one of
  them or `astray` (`Known`), and that nobody who will write the job names a run
  that is (`Estranged`); until a copy replaced a newer job (`mixed`) or a record of an
  older version haunts the job (`Haunted`).
- *GitHub work*: `GithubPublishesVerified` and `GithubKeepsFeedback`. `Guarded`
  says that who works on the sandbox holds its lock and that a push or merge
  follows a verification of the tree as it is; `Accounted` that feedback which
  any copy of the manifest is past is stored, shown or left out by a prompt, or
  in the hands of a sync, until syncs cross (`crossed`).
  `GithubCommandsMeet` says it of `GithubWork!Spec`, where all kinds of commands
  meet, while `MCSpec` takes one kind at a time.

The provers take a `CASE` whose guards overlap for any of its arms. Where the
code tests one condition after the other, `ScoutJobs` and `WorkItems` therefore
say so, as a chain of `IF ... ELSE`.

## 6. What is only model-checked

Liveness: `AcquireReturns`, `StaleRecovered`, `CycleEnds`, `AllSettle`,
`Settles` and `NothingLingers` are out of the prover's reach. Every invariant
and every action property that a passing run checks, and both refinements, are
proved, under the hypotheses that section 5 names.

## 7. What is not modelled

The components of the second table. Of the modelled ones, each module's header
and its note in `PROJECT.json` say what is left out; the largest omissions are:
several repositories, closed issues, manual priorities and the PR cap
(`StartScheduler`); templates and inference (`PlannedItems`); review requests,
local-branch and fork targets and `pr-forward=auto` (`GithubWork`); rerun and
retrospectives (`LocalWork`); the CRUD statements of the tables (`WorkDB`: they
belong to the components that issue them); login (`Accounts`); texts, prompts,
logs and formatting everywhere. The map covers less than a quarter of the lines of the
implementation; what it does not cover is mostly the UI's handlers,
command lines, prompts, GitHub's REST calls and reports.

## 8. Plan

1. `StartScheduler`: several repositories over one pool of workers, closed
   issues, the triage recovery process in place of the free choice of `active`.
2. Reruns of local work; review requests of GitHub work.
