----------------------------- MODULE LocalWork -----------------------------
(***************************************************************************)
(* One local work run (internal/gocli/work_local.go,                       *)
(* work_local_finalization.go, work_stop.go, work_drop.go): the manifest   *)
(* in state.db, the runtime state and the result files of its iterations,  *)
(* the sandbox checkout, the source checkout and its remote branch.        *)
(*                                                                         *)
(* Processes run the loop over the sandbox, each with a copy of the        *)
(* manifest that it read before it had the sandbox lock and that it writes *)
(* over the row at every step.  Users resume, resolve, stop and drop the   *)
(* run, "nana start" cleans up what looks stale, another run of the same   *)
(* branch supersedes a blocked one, and every process may die anywhere.    *)
(*                                                                         *)
(* An action that runs one step of the loop stands for the write of the    *)
(* active state, the step, and the checkpoint of its result; what it       *)
(* leaves half done when it is interrupted is in Dies.                     *)
(***************************************************************************)
EXTENDS Integers, FiniteSets

CONSTANTS Procs,        \* processes that may run the loop or a retry
          None,
          MaxIter,      \* --max-iterations
          MaxRounds,    \* localWorkMaxReviewRounds
          MaxFollowups, \* workFollowupMaxRounds
          Detached,     \* those of them that "ps" shows as runners
          Launched,     \* those of them that a new run may be started in
          Managed,      \* the source is a checkout that nana manages
          Policy,       \* codexRateLimitPolicy: "wait" or "return"
          Events        \* bound on deaths, errors, rate limits, commands of
                        \* users, and what others do to source and branch

ASSUME NoneAssumption == None \notin Procs /\ Detached \cup Launched \subseteq Procs
ASSUME PolicyAssumption == Managed \in BOOLEAN /\ Policy \in {"wait", "return"}
ASSUME NatAssumption == {MaxRounds, Events} \subseteq Nat
ASSUME PositiveAssumption == {MaxIter, MaxFollowups} \subseteq Nat \ {0}

VARIABLES
  m,        \* the row of the run
  rt,       \* runtime state and result files of the iteration under way
  sb,       \* sandbox: what it differs in from the baseline, and its stash
  src,      \* source checkout and its branch on the remote
  L,        \* what each process is doing, with its copy of the row
  locks,    \* holder of the sandbox lock and of the source lock
  aside,    \* copies of the row that stop, cleanup and another run hold
  spent,    \* events so far
  seen,     \* history: checks that passed on the content of the sandbox
  mixed,    \* history: a copy that was out of date was written, or two
            \* processes used the sandbox at once
  reopened  \* history: a loop went on with a run whose work was applied, or
            \* was blocked when it was to be

vars == <<m, rt, sb, src, L, locks, aside, spent, seen, mixed, reopened>>

Rounds == 0..MaxRounds
Iterations == 1..MaxIter
NoRun == [status |-> "absent", n |-> 0, cur |-> 0, follow |-> 0, apply |-> "none",
          sha |-> FALSE, done |-> FALSE, stale |-> FALSE, base |-> 0, newer |-> FALSE]
(* The iteration under way: which, the round of hardening it is in, and    *)
(* what it has results of: its implementation, or in a later round its     *)
(* hardening, then verification, review, final gate and validation.  The   *)
(* results of earlier rounds can no longer change anything.                *)
NoState == [it |-> 0, r |-> 0, edit |-> FALSE, v |-> "?", f |-> "?", g |-> "?",
            val |-> "?"]
Idle == [pc |-> "off", mode |-> "loop", mem |-> NoRun, audit |-> "",
         found |-> FALSE, appr |-> FALSE, ok |-> FALSE,
         res |-> "none", sha |-> FALSE, hit |-> "no"]
Nobody == [stop |-> NoRun, clean |-> NoRun, sup |-> NoRun]

Init ==
  /\ m = NoRun /\ rt = NoState
  /\ sb = [diff |-> "none", stash |-> "none", applied |-> FALSE]
  /\ src = [dirty |-> FALSE, staged |-> FALSE, mine |-> "no", new |-> FALSE, head |-> 0]
  /\ L = [p \in Procs |-> Idle]
  /\ locks = [sandbox |-> None, source |-> None]
  /\ aside = Nobody
  /\ spent = 0
  /\ seen = {} /\ mixed = FALSE /\ reopened = FALSE

(***************************************************************************)
(* The row and the processes                                               *)
(***************************************************************************)
Event == spent < Events /\ spent' = spent + 1

(* writeLocalWorkManifest and writeLocalWorkActiveState: the whole row, with *)
(* the time: it is newer than what other runs have written.                *)
Write(row) == m' = [row EXCEPT !.newer = FALSE]
(* A copy is out of date when it lacks what the loop has done since.       *)
Behind(row) == \E k \in {"n", "cur", "follow", "apply", "sha", "base"} : row[k] # m[k]
Late(row) == mixed' = (mixed \/ Behind(row))
Retrying == {p \in Procs : L[p].pc # "off" /\ L[p].mode = "retry"}
Running(row) == [row EXCEPT !.status = "running", !.stale = FALSE]
Failed(row) == [row EXCEPT !.status = "failed", !.stale = FALSE]

NextIteration(row) == IF row.cur > row.n THEN row.cur ELSE row.n + 1
It(p) == L[p].mem.cur
Free(p) == [k \in DOMAIN locks |-> IF locks[k] = p THEN None ELSE locks[k]]

CodexSteps == {"implement", "review", "gate", "validate", "follow"}
Checks == {"verify", "conclude", "next"}
Applying == {"stage", "commit", "push", "record", "post"}
Goto(p, step) == L' = [L EXCEPT ![p].pc = step]
Gone == sb.diff = "gone"
At(p, step) ==
  /\ L[p].pc = step /\ L[p].hit = "no"
  /\ step \in CodexSteps \cup (Checks \ {"next"}) \cup {"rebase"} => ~Gone

(* localWorkHasResolvableBlockedApply and localWorkCanResumeAfterHardRestart. *)
Blocked(row) == row.status = "blocked" /\ row.apply \in {"blocked-before", "blocked-after"}
CanRestart(row) == row.status = "running" /\ ~row.done /\ row.n < MaxIter
CanRecover(row) == row.status = "failed" /\ row.stale /\ row.n < MaxIter

Superseded(row) == [row EXCEPT !.status = "completed", !.done = TRUE, !.stale = FALSE,
                               !.apply = "superseded"]

(***************************************************************************)
(* The source checkout                                                     *)
(***************************************************************************)
(* syncLocalWorkTrackedBranch: fast forward to the remote branch.  One that *)
(* diverged is an error, or is reset to the remote when nana manages it.   *)
SyncFails == src.new /\ src.mine = "local" /\ ~Managed
Synced(s) ==
  LET remote == [s EXCEPT !.new = FALSE, !.head = @ + 1] IN
  IF ~s.new THEN s ELSE IF s.mine # "local" THEN remote
  ELSE [remote EXCEPT !.mine = "no", !.dirty = FALSE, !.staged = FALSE]

(* startLocalWorkWithRunID: the source is cleaned when managed, must be     *)
(* clean, and is synchronized and cloned under its locks.                  *)
Cleaned(s) == IF Managed THEN [s EXCEPT !.dirty = FALSE, !.staged = FALSE] ELSE s
Start(p) ==
  LET s == Synced(Cleaned(src))
      row == [NoRun EXCEPT !.status = "running", !.base = s.head] IN
  /\ p \in Launched /\ m.status = "absent" /\ L[p].pc = "off" /\ locks.source = None
  /\ ~Gone
  /\ ~Cleaned(src).dirty /\ ~SyncFails
  /\ src' = s
  /\ \/ /\ Write(row) /\ L' = [L EXCEPT ![p] = [Idle EXCEPT !.pc = "load"]]
        /\ UNCHANGED spent
     \/ \* the detached runner cannot be launched
        /\ p \in Detached
        /\ Write([Failed(row) EXCEPT !.done = TRUE]) /\ UNCHANGED L
        /\ Event
  /\ UNCHANGED <<rt, sb, locks, aside, seen, mixed, reopened>>

(***************************************************************************)
(* The loop: executeLocalWorkLoop                                          *)
(***************************************************************************)
(* The manifest is read before the sandbox lock is waited for.             *)
Load(p) ==
  /\ L[p].pc = "load"
  /\ IF m.status = "absent" THEN L' = [L EXCEPT ![p] = Idle]
     ELSE L' = [L EXCEPT ![p] = [@ EXCEPT !.pc = "lock", !.mem = m]]
  /\ UNCHANGED <<m, rt, sb, src, locks, aside, spent, seen, mixed, reopened>>

Lock(p) ==
  /\ L[p].pc = "lock" /\ locks.sandbox = None
  /\ locks' = [locks EXCEPT !.sandbox = p] /\ Goto(p, "top")
  /\ mixed' = (mixed \/ Retrying # {} \/ Behind(L[p].mem))
  /\ reopened' = (reopened \/ L[p].mem.apply # "none")
  /\ UNCHANGED <<m, rt, sb, src, aside, spent, seen>>

(* persistUnexpectedLocalWorkFailure: only a row that says running.        *)
Unexpected ==
  IF m.status = "running" THEN Write([Failed(m) EXCEPT !.done = TRUE]) ELSE UNCHANGED m
LockBusy(p) ==
  /\ L[p].pc = "lock" /\ locks.sandbox # None
  /\ Unexpected /\ L' = [L EXCEPT ![p] = Idle]
  /\ UNCHANGED <<rt, sb, src, locks, aside, spent, seen, mixed, reopened>>

Leave(p) == L' = [L EXCEPT ![p] = Idle] /\ locks' = Free(p)
(* The top of an iteration.  A fresh one first brings the source and the   *)
(* sandbox up to date (refreshLocalWorkIterationBaseline): the sandbox's   *)
(* changes go to a stash, which Rebase applies on the new baseline.        *)
(* The first step of the iteration whose result is missing.                *)
First(state) ==
  IF ~state.edit THEN "implement" ELSE IF state.v = "?" THEN "verify"
  ELSE IF state.f = "?" THEN "review" ELSE "gate"
Enter(p, row) ==
  LET i == NextIteration(row) IN
  /\ rt' = IF rt.it = i THEN rt ELSE [NoState EXCEPT !.it = i]
  /\ L' = [L EXCEPT ![p] = [@ EXCEPT !.pc = First(rt'), !.audit = "", !.mem = [Running(row) EXCEPT !.cur = i]]]
  /\ Write([Running(row) EXCEPT !.cur = i])

Top(p) ==
  LET row == L[p].mem  i == NextIteration(row) IN
  /\ At(p, "top")
  /\ \/ /\ i > MaxIter /\ Write(Failed(row)) /\ Leave(p) /\ UNCHANGED <<rt, sb, src, seen>>
     \/ /\ i <= MaxIter /\ rt.it = i /\ Enter(p, row) /\ UNCHANGED <<sb, src, locks, seen>>
     \/ /\ i <= MaxIter /\ rt.it # i /\ SyncFails
        /\ Write(Failed(row)) /\ Leave(p) /\ UNCHANGED <<rt, sb, src, seen>>
     \/ /\ i <= MaxIter /\ rt.it # i /\ ~SyncFails /\ src' = Synced(src)
        /\ IF src'.head = row.base THEN Enter(p, row) /\ UNCHANGED <<sb, seen>>
           ELSE /\ Goto(p, "rebase") /\ UNCHANGED <<m, rt>> /\ seen' = {}
                /\ sb' = [sb EXCEPT !.diff = "none",
                     !.stash = IF sb.diff # "none" THEN "new"
                               ELSE IF @ = "none" THEN "none" ELSE "left"]
        /\ UNCHANGED locks
  /\ UNCHANGED <<aside, spent, mixed, reopened>>

(* refreshLocalWorkSandboxBaseline, from the reset on.  A stash that an    *)
(* earlier, interrupted refresh left is not applied.                       *)
Rebase(p) ==
  /\ At(p, "rebase")
  /\ Enter(p, [L[p].mem EXCEPT !.base = src.head])
  /\ \E diff \in IF sb.stash = "new" /\ ~sb.applied THEN {"ok", "bad"} ELSE {"none"} :
       sb' = [sb EXCEPT !.diff = diff, !.stash = IF @ = "new" THEN "none" ELSE @]
  /\ UNCHANGED <<src, locks, aside, spent, seen, mixed, reopened>>

(* Every step writes the active state over the row, and moves on.          *)
Advance(p, ch) == L' = [L EXCEPT ![p] = ch] /\ Write(Running(ch.mem))
Then(p, step) == Advance(p, [L[p] EXCEPT !.pc = step])
Quiet == UNCHANGED <<src, locks, aside, spent, mixed, reopened>>
CodexEdits ==
  \E diff \in {"none", "ok", "bad"} :
    /\ sb' = [sb EXCEPT !.diff = diff, !.applied = FALSE] /\ seen' = {}

(* The implementation of an iteration, or the hardening of a later round.  *)
Implement(p) ==
  /\ At(p, "implement") /\ Then(p, "verify")
  /\ CodexEdits /\ rt' = [rt EXCEPT !.edit = TRUE] /\ Quiet

(* Shell verification.                                                     *)
Verify(p) ==
  /\ At(p, "verify") /\ Then(p, "review")
  /\ \E v \in {"pass", "fail"} :
       /\ rt' = [rt EXCEPT !.v = v]
       /\ seen' = IF v = "pass" THEN seen \cup {"verify"} ELSE seen
  /\ UNCHANGED sb /\ Quiet

Review(p) ==
  /\ At(p, "review") /\ Then(p, "gate")
  /\ \E f \in {"none", "some"} : rt' = [rt EXCEPT !.f = f]
  /\ UNCHANGED <<sb, seen>> /\ Quiet

(* The candidate audit and the final review gate, when verification passed *)
(* and the review found nothing.  The gate's roles keep their results.     *)
Gate(p) ==
  LET due == rt.v = "pass" /\ rt.f = "none"
      audit == IF ~due THEN L[p].audit ELSE IF sb.diff = "none" THEN "no-op"
               ELSE IF sb.diff = "bad" THEN "blocked" ELSE "passed"
      asked == due /\ sb.diff = "ok" IN
  /\ At(p, "gate")
  /\ rt' \in IF asked /\ rt.g = "?"
             THEN {[rt EXCEPT !.g = g] : g \in {"none", "some"}} ELSE {rt}
  /\ Advance(p, [L[p] EXCEPT !.pc = "validate", !.audit = audit,
                 !.found = rt.f = "some" \/ (asked /\ rt'.g = "some")])
  /\ UNCHANGED <<sb, seen>> /\ Quiet

(* The rounds of hardening: each has results of its own.                   *)
RoundLeft(r) == r < MaxRounds

(* Mutant: the next round starts with the results of this one.             *)
SameResults(state) == [state EXCEPT !.edit = FALSE, !.r = @ + 1]

NextRound(state) == [NoState EXCEPT !.it = state.it, !.r = state.r + 1]

(* runLocalWorkValidationPhase: what is left of the findings once the known *)
(* and the rejected ones are taken out.  See FindingsValidation.  What is  *)
(* left, or a verification that failed, goes to another round.  (With the  *)
(* last results there, those that can no longer matter are forgotten.)     *)
Validate(p) ==
  /\ At(p, "validate")
  /\ \E left \in IF rt.val # "?" THEN {rt.val}
                 ELSE IF L[p].found THEN {"none", "some"} ELSE {"none"} :
       LET again == rt.v = "fail" \/ left = "some"
           more == again /\ RoundLeft(rt.r) IN
       /\ rt' = IF more THEN NextRound(rt)
                ELSE [rt EXCEPT !.val = left, !.g = "none",
                                !.f = IF rt.v = "fail" THEN "some" ELSE @]
       /\ seen' = IF left = "none" THEN seen \cup {"review"} ELSE seen
       /\ Advance(p, [L[p] EXCEPT !.pc = IF more THEN "implement" ELSE "follow",
                                  !.found = FALSE, !.ok = ~again])
  /\ UNCHANGED sb /\ Quiet

(* runLocalWorkFollowupRound: counted in the manifest at once.             *)
Follow(p) ==
  LET due == L[p].ok /\ L[p].audit # "blocked" IN
  /\ At(p, "follow")
  /\ \E appr \in IF due THEN BOOLEAN ELSE {FALSE} :
       Advance(p, [L[p] EXCEPT !.pc = "conclude", !.appr = appr,
                               !.mem.follow = IF due THEN @ + 1 ELSE @])
  /\ UNCHANGED <<rt, sb, seen>> /\ Quiet

(* Integration verification, under the policy "final", and the outcome of  *)
(* the iteration.  Only what is to be applied is not summed up yet.        *)
Summed(row) == [row EXCEPT !.n = @ + 1]
Conclude(p) ==
  LET row == L[p].mem  appr == L[p].appr  bad == L[p].audit = "blocked"
      over == appr /\ row.follow >= MaxFollowups IN
  /\ At(p, "conclude")
  /\ \E ok \in IF L[p].ok /\ ~appr THEN BOOLEAN ELSE {FALSE} :
       \/ over /\ Write(Failed(Summed(row))) /\ Leave(p)
       \/ ok /\ ~bad /\ Then(p, "stage") /\ UNCHANGED locks
       \/ /\ ok /\ bad /\ Write([Summed(row) EXCEPT !.status = "blocked"])
          /\ L' = [L EXCEPT ![p] = [Idle EXCEPT !.pc = "next", !.mem = Summed(row)]]
          /\ UNCHANGED locks
       \/ /\ ~ok /\ ~over /\ UNCHANGED locks
          /\ Advance(p, [Idle EXCEPT !.pc = "next", !.mem = Summed(row), !.ok = TRUE])
  /\ UNCHANGED <<rt, sb, src, aside, spent, seen, mixed, reopened>>

(* The runtime state is removed; the loop ends with the run, or when two   *)
(* iterations in a row changed nothing (detectLocalWorkStall).             *)
NextOne(p) ==
  LET row == L[p].mem IN
  /\ At(p, "next")
  /\ rt' = NoState
  /\ \/ ~L[p].ok /\ Leave(p) /\ UNCHANGED m
     \/ L[p].ok /\ Goto(p, "top") /\ UNCHANGED <<m, locks>>
     \/ L[p].ok /\ row.n >= 2 /\ Write(Failed(row)) /\ Leave(p)
  /\ UNCHANGED <<sb, src, aside, spent, seen, mixed, reopened>>

(***************************************************************************)
(* The final apply: applyLocalWorkFinalDiff                                *)
(***************************************************************************)
Outcome(p, res) == L' = [L EXCEPT ![p].pc = "record", ![p].res = res]
Kept == UNCHANGED <<m, rt, aside, spent, seen, mixed, reopened>>
Source(p) == locks' = [locks EXCEPT !.source = p]

(* The diff of the sandbox, then under the source lock: the source must be *)
(* clean, is synchronized, and the patch is put into its index.  A patch   *)
(* that the source has already changes nothing; one that conflicts leaves  *)
(* its conflicts behind, but in a managed source the sandbox wins.         *)
Stage(p) ==
  LET s == Cleaned(src) IN
  /\ At(p, "stage")
  /\ \/ sb.diff = "none" /\ Outcome(p, "no-op") /\ UNCHANGED <<src, locks>>
     \/ sb.diff # "none" /\ (locks.source # None \/ Gone)
        /\ Outcome(p, "blocked-before") /\ UNCHANGED <<src, locks>>
     \/ /\ sb.diff # "none" /\ locks.source = None /\ ~Gone
        /\ \/ /\ s.dirty \/ s.staged \/ SyncFails
              /\ Outcome(p, "blocked-before") /\ src' = s /\ UNCHANGED locks
           \/ /\ ~(s.dirty \/ s.staged \/ SyncFails) /\ Source(p) /\ Goto(p, "commit")
              /\ src' = [Synced(s) EXCEPT !.staged = ~(sb.applied /\ Synced(s).mine # "no")]
           \/ /\ ~(s.dirty \/ s.staged \/ SyncFails)
              /\ Synced(s).head # L[p].mem.base /\ ~Managed
              /\ Outcome(p, "blocked-before") /\ UNCHANGED locks
              /\ src' = [Synced(s) EXCEPT !.dirty = TRUE]
  /\ UNCHANGED sb /\ Kept

(* Without anything staged, git has nothing to commit.                     *)
Commit(p) ==
  /\ At(p, "commit")
  /\ \/ /\ src.staged /\ Goto(p, "push")
        /\ src' = [src EXCEPT !.staged = FALSE, !.mine = "local", !.head = @ + 1]
        /\ sb' = [sb EXCEPT !.applied = TRUE]
        /\ UNCHANGED <<locks, spent>>
     \/ /\ IF src.staged THEN Event ELSE UNCHANGED spent
        /\ Outcome(p, "blocked-after") /\ locks' = [locks EXCEPT !.source = None]
        /\ UNCHANGED <<src, sb>>
  /\ UNCHANGED <<m, rt, aside, seen, mixed, reopened>>

(* Mutant: a push that the remote refuses is taken for one that worked.    *)
PushRefused(p) ==
  /\ At(p, "push")
  /\ src' = [src EXCEPT !.mine = IF src.new THEN @ ELSE "pushed"]
  /\ L' = [L EXCEPT ![p].pc = "record", ![p].res = "pushed", ![p].sha = TRUE]
  /\ locks' = [locks EXCEPT !.source = None]
  /\ UNCHANGED <<m, rt, sb, aside, spent, seen, mixed, reopened>>

(* pushLocalWorkFinalApplyTarget: a branch that the remote refuses because *)
(* it has gone on is rebased on it and pushed again, unless that conflicts. *)
(* Nothing looks whether our commit is still in the branch.                *)
Push(p) ==
  /\ At(p, "push")
  /\ \/ /\ src' = [src EXCEPT !.mine = IF @ = "local" THEN "pushed" ELSE @, !.new = FALSE,
                              !.head = IF src.new THEN @ + 1 ELSE @]
        /\ L' = [L EXCEPT ![p].pc = "record", ![p].res = "pushed", ![p].sha = TRUE]
        /\ UNCHANGED spent
     \/ /\ IF src.new THEN UNCHANGED spent ELSE Event
        /\ L' = [L EXCEPT ![p].pc = "record", ![p].res = "blocked-after", ![p].sha = TRUE]
        /\ UNCHANGED src
  /\ locks' = [locks EXCEPT !.source = None]
  /\ UNCHANGED <<m, rt, sb, aside, seen, mixed, reopened>>

(* The outcome in the manifest: at the end of the loop, or, with mode      *)
(* "retry", by finalizeResolvedLocalWork, which leaves a run that is       *)
(* blocked again as it was.                                                *)
Applied(p) == [L[p].mem EXCEPT !.apply = L[p].res, !.sha = L[p].sha]
Record(p) ==
  LET blocked == L[p].res \in {"blocked-before", "blocked-after"}
      row == IF L[p].mode = "loop" THEN Summed(Applied(p)) ELSE Applied(p) IN
  /\ At(p, "record")
  /\ Write(IF ~blocked THEN [row EXCEPT !.status = "completed", !.stale = FALSE, !.done = TRUE]
           ELSE IF L[p].mode = "loop" THEN [row EXCEPT !.status = "blocked"] ELSE row)
  /\ IF L[p].mode = "loop"
     THEN L' = [L EXCEPT ![p] = [Idle EXCEPT !.pc = "next", !.mem = m']]
          /\ UNCHANGED <<locks, mixed>>
     ELSE Leave(p) /\ Late(L[p].mem)
  /\ UNCHANGED <<rt, sb, src, aside, spent, seen, reopened>>

(* continueLocalWorkPostApply: what is left of commit and push.            *)
PostApply(p) ==
  /\ At(p, "post")
  /\ \/ locks.source # None /\ UNCHANGED locks
        /\ L' = [L EXCEPT ![p].pc = "record", ![p].res = "blocked-after", ![p].sha = L[p].mem.sha]
     \/ locks.source = None /\ Source(p) /\ Goto(p, IF L[p].mem.sha THEN "push" ELSE "commit")
  /\ UNCHANGED <<sb, src>> /\ Kept

(***************************************************************************)
(* Failures                                                                *)
(***************************************************************************)
(* Codex is running: the step is not one whose result is just read again.  *)
Edits(p) == L[p].pc = "implement"
Asks(p) == \/ L[p].pc \in {"implement", "review"}
           \/ L[p].pc = "gate" /\ rt.g = "?" /\ rt.v = "pass" /\ rt.f = "none"
           \/ L[p].pc = "validate" /\ L[p].found /\ rt.val = "?"
           \/ L[p].pc = "follow" /\ L[p].ok
(* What an interrupted Codex step may have done to the sandbox.            *)
HalfEdited(p) == IF Edits(p) /\ ~Gone THEN CodexEdits ELSE UNCHANGED <<sb, seen>>

(* A Codex step fails, its process is killed or its sandbox is gone: the   *)
(* loop writes its copy as failed, even over a row that a rate limit has   *)
(* just paused.                                                            *)
CodexFails(p) ==
  /\ L[p].pc \in CodexSteps /\ (Asks(p) \/ L[p].hit # "no" \/ Gone)
  /\ IF L[p].hit = "limit" THEN Policy = "return" /\ UNCHANGED spent
     ELSE IF L[p].hit = "killed" \/ Gone THEN UNCHANGED spent ELSE Event
  /\ Write(Failed(L[p].mem)) /\ Leave(p) /\ HalfEdited(p)
  /\ UNCHANGED <<rt, src, aside, mixed, reopened>>

(* Any other error of the loop.                                            *)
LoopFails(p) ==
  /\ L[p].pc \in Checks \cup {"rebase"}
  /\ IF Gone THEN UNCHANGED spent ELSE Event
  /\ Unexpected /\ Leave(p)
  /\ UNCHANGED <<rt, sb, src, aside, seen, mixed, reopened>>

(* The process dies: its locks expire, and nothing else is tidied.         *)
Dies(p) ==
  /\ L[p].pc # "off" /\ Event /\ Leave(p) /\ HalfEdited(p)
  /\ UNCHANGED <<m, rt, src, aside, mixed, reopened>>

(* updateStandaloneLocalWorkPausedManifest: a rate limit, and its end,     *)
(* change the row that is in the database.                                 *)
InPlace(status) ==
  IF m.status = "absent" THEN UNCHANGED m ELSE Write([m EXCEPT !.status = status])
Limited(p) ==
  /\ At(p, L[p].pc) /\ Asks(p) /\ Event
  /\ L' = [L EXCEPT ![p].hit = "limit"] /\ InPlace("paused")
  /\ UNCHANGED <<rt, sb, src, locks, aside, seen, mixed, reopened>>
Continues(p) ==
  /\ L[p].hit = "limit" /\ Policy = "wait" /\ L' = [L EXCEPT ![p].hit = "no"]
  /\ InPlace("running")
  /\ UNCHANGED <<rt, sb, src, locks, aside, spent, seen, mixed, reopened>>

(***************************************************************************)
(* Users, "nana start", other runs                                         *)
(***************************************************************************)
Begin(p, step, mode) ==
  /\ L' = [L EXCEPT ![p] = [Idle EXCEPT !.pc = step, !.mode = mode, !.mem = m]]
  /\ mixed' = (mixed \/ (mode = "retry" /\ locks.sandbox # None))

(* resumeLocalWork and resolveLocalWorkManifest.  A blocked run that a     *)
(* newer one has superseded is completed.                                  *)
Complete == Blocked(m) /\ m.newer /\ Write(Superseded(m)) /\ UNCHANGED <<L, mixed>>
Resume(p) ==
  /\ L[p].pc = "off" /\ m.status \notin {"absent", "completed"} /\ Event
  /\ \/ Complete
     \/ /\ Blocked(m) /\ ~m.newer /\ m.apply = "blocked-before"
        /\ Begin(p, "stage", "retry") /\ UNCHANGED m
     \/ /\ m.status # "blocked" /\ m.n < MaxIter
        /\ Begin(p, "load", "loop")
        /\ UNCHANGED m
  /\ UNCHANGED <<rt, sb, src, locks, aside, seen, reopened>>

Resolve(p) ==
  /\ L[p].pc = "off" /\ Blocked(m) /\ Event
  /\ \/ Complete
     \/ /\ ~m.newer /\ UNCHANGED m
        /\ Begin(p, IF m.apply = "blocked-after" THEN "post" ELSE "stage", "retry")
  /\ UNCHANGED <<rt, sb, src, locks, aside, seen, reopened>>

(* stopLocalWorkManifest kills what it recognizes: detached runners, and   *)
(* the Codex of a loop in the foreground.  The row that it then writes is  *)
(* the one it read before.                                                 *)
StopKills ==
  LET visible == {p \in Detached : L[p].pc # "off"} IN
  /\ m.status \in {"running", "paused"} /\ aside.stop = NoRun /\ Event
  /\ aside' = [aside EXCEPT !.stop = m]
  /\ L' = [p \in Procs |-> CASE p \in visible -> Idle
              [] Asks(p) /\ p \notin Detached -> [L[p] EXCEPT !.hit = "killed"]
              [] OTHER -> L[p]]
  /\ locks' = [k \in DOMAIN locks |-> IF locks[k] \in visible THEN None ELSE locks[k]]
  /\ IF \E p \in Procs : Edits(p) /\ ~Gone
     THEN CodexEdits ELSE UNCHANGED <<sb, seen>>
  /\ UNCHANGED <<m, rt, src, mixed, reopened>>
StopWrites ==
  /\ aside.stop # NoRun /\ Write([aside.stop EXCEPT !.status = "stopped"])
  /\ aside' = [aside EXCEPT !.stop = NoRun] /\ Late(aside.stop)
  /\ UNCHANGED <<rt, sb, src, L, locks, spent, seen, reopened>>

(* dropLocalWorkRun: of a run in any state, running loops included.        *)
Drop ==
  /\ m.status # "absent" /\ Event /\ m' = NoRun
  /\ rt' = NoState
  /\ sb' = [sb EXCEPT !.diff = "gone", !.stash = "none"] /\ seen' = {}
  /\ mixed' = (mixed \/ \E p \in Procs : L[p].pc # "off" \/ aside # Nobody)
  /\ UNCHANGED <<src, L, locks, aside, reopened>>

(* cleanupStaleLocalWorkRunsForRepoDetailed: a row that says running, was  *)
(* not written for five minutes and has no process that is recognized, or  *)
(* a row that an earlier cleanup failed.  A loop that is alive looks like  *)
(* that only in the foreground, while a verification runs.                 *)
Live == {p \in Procs : L[p].pc # "off"}
LooksAlive == \E p \in Live : p \in Detached \/ L[p].pc \notin {"verify", "conclude"}
CleanReads ==
  /\ aside.clean = NoRun
  /\ CanRecover(m) \/ (m.status = "running" /\ ~LooksAlive)
  /\ aside' = [aside EXCEPT !.clean = m]
  /\ IF Live = {} THEN UNCHANGED spent ELSE Event
  /\ UNCHANGED <<m, rt, sb, src, L, locks, seen, mixed, reopened>>

(* prepareLocalWorkRunForRecovery: a checkout that is gone is cloned again, *)
(* and an implementation without a session counts as done if it left a     *)
(* diff.                                                                   *)
Prepared(row) ==
  LET i == IF row.cur > 0 THEN row.cur ELSE NextIteration(row)
      state == IF rt.it = i THEN rt ELSE [NoState EXCEPT !.it = i] IN
  /\ rt' \in {rt} \cup IF state.r = 0 /\ sb.diff \in {"ok", "bad"}
                      THEN {[state EXCEPT !.edit = TRUE]} ELSE {}
  /\ sb' = IF Gone THEN [sb EXCEPT !.diff = "none"] ELSE sb

(* Mutant: only what can be started again is cleaned up.                   *)
CleanRestarts ==
  LET row == aside.clean IN
  /\ CanRestart(row) \/ CanRecover(row)
  /\ aside' = [aside EXCEPT !.clean = NoRun] /\ Late(row)
  /\ Prepared(row) /\ Write([Running(row) EXCEPT !.done = FALSE])
  /\ \E p \in Detached : /\ L[p].pc = "off"
                         /\ L' = [L EXCEPT ![p] = [Idle EXCEPT !.pc = "load"]]
  /\ UNCHANGED <<src, locks, spent, seen, reopened>>

CleanActs ==
  LET row == aside.clean  restart == CanRestart(row) \/ CanRecover(row) IN
  /\ row # NoRun /\ aside' = [aside EXCEPT !.clean = NoRun] /\ Late(row)
  /\ \/ /\ restart /\ Prepared(row) /\ UNCHANGED spent
        /\ Write([Running(row) EXCEPT !.done = FALSE])
        /\ \E p \in Detached : /\ L[p].pc = "off"
                               /\ L' = [L EXCEPT ![p] = [Idle EXCEPT !.pc = "load"]]
     \/ /\ IF restart THEN Event ELSE UNCHANGED spent
        /\ Write([row EXCEPT !.status = "failed", !.stale = TRUE,
                             !.done = @ \/ row.status = "running"])
        /\ UNCHANGED <<rt, sb, L>>
  /\ UNCHANGED <<src, locks, seen, reopened>>

(* What others do to the source shows only in a step that looks at it.     *)
Looked == Live = {} \/ \E p \in Live : L[p].pc \in Applying \cup {"top"}

(* Another run of the branch completes, and pushes what it finds in it:    *)
(* markSupersededLocalWorkRuns reads this row, and writes it back later.   *)
OtherCompletes ==
  LET s == Cleaned(src) IN
  /\ m.status # "absent" /\ aside.sup = NoRun /\ locks.source = None
  /\ ~(s.dirty \/ s.staged \/ SyncFails)
  /\ Looked /\ Event /\ m' = [m EXCEPT !.newer = TRUE]
  /\ src' = [Synced(s) EXCEPT !.head = @ + 1, !.mine = IF @ = "local" THEN "pushed" ELSE @]
  /\ aside' = [aside EXCEPT !.sup = IF Blocked(m) THEN m ELSE NoRun]
  /\ UNCHANGED <<rt, sb, L, locks, seen, mixed, reopened>>
OtherMarks ==
  /\ aside.sup # NoRun /\ m' = [Superseded(aside.sup) EXCEPT !.newer = TRUE]
  /\ aside' = [aside EXCEPT !.sup = NoRun] /\ Late(aside.sup)
  /\ UNCHANGED <<rt, sb, src, L, locks, spent, seen, reopened>>

(* The user edits the source without staging, or throws edits away, ours   *)
(* included; somebody pushes to the branch.                                *)
SourceMoves ==
  /\ Looked /\ Event
  /\ \/ locks.source = None /\ ~src.dirty /\ src' = [src EXCEPT !.dirty = TRUE]
     \/ /\ locks.source = None /\ (src.dirty \/ src.staged)
        /\ src' = [src EXCEPT !.dirty = FALSE, !.staged = FALSE]
     \/ ~src.new /\ src' = [src EXCEPT !.new = TRUE]
  /\ UNCHANGED <<m, rt, sb, L, locks, aside, seen, mixed, reopened>>

Step(p) ==
  \/ Load(p) \/ Lock(p) \/ LockBusy(p) \/ Top(p) \/ Rebase(p)
  \/ Implement(p) \/ Verify(p) \/ Review(p) \/ Gate(p) \/ Validate(p)
  \/ Follow(p) \/ Conclude(p) \/ NextOne(p)
  \/ Stage(p) \/ Commit(p) \/ Push(p) \/ Record(p) \/ PostApply(p)
  \/ CodexFails(p) \/ LoopFails(p) \/ Continues(p)

Next ==
  \/ \E p \in Procs : \/ Step(p) \/ Start(p) \/ Dies(p) \/ Limited(p)
                      \/ Resume(p) \/ Resolve(p)
  \/ StopKills \/ StopWrites \/ Drop \/ CleanReads \/ CleanActs
  \/ OtherCompletes \/ OtherMarks \/ SourceMoves

(* Some process goes on, or, when none can, a pass of "nana start".        *)
Progress == (\E p \in Procs : Step(p)) \/ CleanReads \/ CleanActs

Spec == Init /\ [][Next]_vars /\ WF_vars(Progress)

(***************************************************************************)
(* Properties                                                              *)
(***************************************************************************)
Statuses == {"absent", "running", "paused", "failed", "blocked", "stopped", "completed"}
TypeOK ==
  /\ m.status \in Statuses /\ m.n \in 0..MaxIter /\ m.cur \in 0..MaxIter
  /\ m.apply \in {"none", "no-op", "pushed", "blocked-before", "blocked-after", "superseded"}
  /\ rt.it \in 0..MaxIter /\ rt.r \in Rounds
  /\ sb.diff \in {"none", "ok", "bad", "gone"} /\ src.mine \in {"no", "local", "pushed"}
  /\ \A k \in DOMAIN locks : locks[k] \in Procs \cup {None}
  /\ seen \subseteq {"verify", "review"}

(* What is put into the source was verified, and reviewed until nothing    *)
(* was left of the findings, as it is: not before a step that was          *)
(* interrupted, fails, or is run again.  (Unless a loop started from a     *)
(* copy of the row that was out of date.)                                  *)
AppliesVerified ==
  [][src'.staged /\ ~src.staged /\ ~mixed => {"verify", "review"} \subseteq seen]_vars

(* A run that says its work was pushed has its work on the remote branch,  *)
(* and one that says it has nothing to apply has nothing left to apply.    *)
(* (Unless it was reopened: the next iteration keeps the outcome of the    *)
(* last, and when it is blocked itself the retry pushes the work of that.) *)
CompletedIsTrue ==
  m.status = "completed" /\ ~mixed /\ ~reopened =>
    /\ m.apply = "pushed" => src.mine = "pushed" /\ sb.applied
    /\ m.apply = "no-op" => sb.diff = "none" \/ sb.applied \/ Gone

(* A run does not stay running: the loop, or a pass of "nana start" after  *)
(* the loop has died, brings it to another state.                          *)
Settles == []<>(m.status # "running" \/ mixed)
=============================================================================
