----------------------------- MODULE GithubWork -----------------------------
(***************************************************************************)
(* One GitHub work run: the leader's run and its reruns (github_start.go,  *)
(* work.go, github_sync.go), the completion loop they end with             *)
(* (github_completion.go, work_followup.go), the execution lanes           *)
(* (github_lane_exec.go), the publisher (github_publisher.go) and the CI   *)
(* refresh of the UI.                                                      *)
(*                                                                         *)
(* Every command reads manifest.json first, then waits for the write lock  *)
(* of the sandbox (RepoAccessLock; here the process that holds it) and     *)
(* from then on saves its own copy of the manifest.                        *)
(***************************************************************************)
EXTENDS Integers, FiniteSets

CONSTANTS None,         \* nobody, no artifact
          Procs,        \* processes that run commands
          MaxRev,       \* bound on the revisions of the sandbox
          MaxRounds,    \* localWorkMaxReviewRounds
          MaxFollowups, \* workFollowupMaxRounds
          Comments,     \* bound on the feedback comments
          PromptLimit,  \* githubFeedbackIssueCommentLimit and its like
          Commands,     \* bound on the commands of the user
          Faults        \* bound on crashes, failures and pauses

(* Assumed of the constants.                                               *)
GithubBounds ==
  /\ {MaxRev, MaxRounds, MaxFollowups, PromptLimit} \subseteq Nat \ {0}
  /\ {Comments, Commands, Faults} \subseteq Nat /\ None \notin Procs

VARIABLES
  tree,     \* the revision in the sandbox; 0 is the baseline
  bad,      \* the revisions whose verification fails
  art,      \* the artifacts of the rounds in completion/
  disk,     \* manifest.json
  stored,   \* the feedback in feedback-resume.json
  session,  \* the feedback the leader's last session was opened with, or None
  told,     \* the feedback that a prompt of the leader showed
  omitted,  \* the feedback that a prompt of the leader only counted
  hub,      \* GitHub: the branch, its CI, the pull request, the reviewers
  proc, holder,
  commands, faults,
  crossed   \* history: syncs got in each other's way, or one died between
            \* the cursor and the feedback

vars == <<tree, bad, art, disk, stored, session, told, omitted, hub, proc,
          holder, commands, faults, crossed>>

Rounds == 0..MaxRounds
Revs == 0..MaxRev
Feedback == 1..Comments

(* ver: the revision that was verified, 0 for none.                        *)
NoArtifact == [ver |-> 0, verdict |-> "none", hardened |-> FALSE]

(* phase: "leader", "loop" for any phase of completion and follow-ups.     *)
Started == [status |-> "running", phase |-> "leader", followups |-> 0, cursor |-> 0,
            pr |-> FALSE, pub |-> "none", merge |-> "none"]
Idle == [op |-> "none", pc |-> "idle", m |-> Started, round |-> 0, news |-> {},
         out |-> "none", draft |-> TRUE]

(* Either startGithubWork has written the manifest of a new run and goes   *)
(* to wait for the lock, or a run was completed some time ago.             *)
Init ==
  /\ bad = {} /\ stored = {} /\ told = {} /\ omitted = {} /\ crossed = FALSE
  /\ hub = [head |-> 0, ci |-> "none", pr |-> "none", review |-> "none",
            comments |-> 0, merged |-> {}]
  /\ holder = None /\ commands = 0 /\ faults = 0
  /\ \/ /\ tree = 0 /\ art = [r \in Rounds |-> NoArtifact] /\ disk = Started /\ session = None
        /\ proc = [p \in Procs |-> IF p = 1 THEN [Idle EXCEPT !.op = "start", !.pc = "lock"]
                                   ELSE Idle]
     \/ /\ tree = 1 /\ session = {} /\ proc = [p \in Procs |-> Idle]
        /\ art = [r \in Rounds |-> IF r = 0 THEN [NoArtifact EXCEPT !.ver = 1, !.verdict = "clean"]
                                   ELSE NoArtifact]
        /\ disk = [Started EXCEPT !.status = "completed", !.phase = "completed", !.followups = 1]

Fault == faults < Faults /\ faults' = faults + 1
Asked == commands < Commands /\ commands' = commands + 1

(***************************************************************************)
(* Steps of a process                                                      *)
(***************************************************************************)
At(p, pc) == proc[p].pc = pc
Step(p, q) == proc' = [proc EXCEPT ![p] = q]
(* The process goes on, saving its copy.                                   *)
Save(p, q) == Step(p, q) /\ disk' = q.m
Leave(p) == /\ Step(p, Idle)
            /\ holder' = IF holder = p THEN None ELSE holder

(* Codex may change the sandbox whenever it runs.                          *)
Edit == \/ UNCHANGED <<tree, bad>>
        \/ /\ tree < MaxRev /\ tree' = tree + 1
           /\ bad' \in {bad, bad \cup {tree + 1}}

Running(m) == [m EXCEPT !.status = "running", !.phase = "loop"]

(***************************************************************************)
(* Commands                                                                *)
(***************************************************************************)
Op(p, op, pc, news) ==
  /\ proc[p].op = "none" /\ (\A r \in Procs : r < p => proc[r].op # "none") /\ Asked
  /\ Step(p, [Idle EXCEPT !.op = op, !.pc = pc, !.m = disk, !.news = news])
  /\ UNCHANGED <<tree, bad, art, disk, stored, session, told, omitted, hub, holder, faults, crossed>>

Resume(p) == Op(p, "resume", "lock", {})
Sync(p) == Op(p, "sync", "fetch", {})
Lane(p) == Op(p, "lane", "lock", {})
Publish(p) == Op(p, "publish", "lock", {})
Refresh(p) == disk.pr /\ Op(p, "refresh", "poll", {})

(* validateGithubFeedbackResumeState: the session must be the one that the *)
(* stored feedback opened.                                                 *)
SyncLast(p) ==
  /\ stored # {} /\ disk.status # "completed" /\ session = stored
  /\ Op(p, "sync-last", "lock", stored)

(* fetchGithubFeedbackSnapshot: comments and reviews of those that count.  *)
Snapshot == 1..hub.comments

(* filterGithubNewFeedback, advanceGithubFeedbackCursor                    *)
NewFeedback(m) == {c \in Snapshot : c > m.cursor}
Cursor(m) == IF hub.comments > m.cursor THEN hub.comments ELSE m.cursor

(* syncGithubWork up to the cursor.                                        *)
Fetch(p) ==
  LET m == proc[p].m IN
  /\ At(p, "fetch")
  /\ IF NewFeedback(m) = {} THEN Leave(p) /\ disk' = m
     ELSE /\ Save(p, [proc[p] EXCEPT !.pc = "store", !.news = NewFeedback(m),
                                     !.m.cursor = Cursor(m)])
          /\ UNCHANGED holder
  /\ UNCHANGED <<tree, bad, art, stored, session, told, omitted, hub, commands, faults, crossed>>

(* What an earlier sync left is replaced.                                  *)
Store(p) ==
  /\ At(p, "store")
  /\ stored' = proc[p].news
  /\ crossed' = (crossed \/ stored # {})
  /\ Step(p, [proc[p] EXCEPT !.pc = "lock"])
  /\ UNCHANGED <<tree, bad, art, disk, session, told, omitted, hub, holder, commands, faults>>

(* Mutant: nobody waits for the lock of the sandbox.                       *)
LockFreely(p) ==
  /\ At(p, "lock")
  /\ holder' = p
  /\ Step(p, [proc[p] EXCEPT !.pc = CASE proc[p].op = "publish" -> "gate"
                                      [] proc[p].op = "lane" -> "lane"
                                      [] OTHER -> "leader"])
  /\ UNCHANGED <<tree, bad, art, disk, stored, session, told, omitted, hub, commands, faults, crossed>>

(* A resumed run that got past its leader goes straight to its loop.       *)
Lock(p) ==
  LET q == proc[p] IN
  /\ At(p, "lock") /\ holder = None
  /\ holder' = p
  /\ Step(p, [q EXCEPT !.pc = CASE q.op = "publish" -> "gate"
                                [] q.op = "lane" -> "lane"
                                [] q.op = "resume" /\ q.m.phase = "loop" -> "check"
                                [] OTHER -> "leader"])
  /\ UNCHANGED <<tree, bad, art, disk, stored, session, told, omitted, hub, commands, faults, crossed>>

(* A lane of mode "execute"; it keeps its state out of the manifest.       *)
LaneRuns(p) ==
  /\ At(p, "lane") /\ Edit /\ Leave(p)
  /\ UNCHANGED <<art, disk, stored, session, told, omitted, hub, commands, faults, crossed>>

(***************************************************************************)
(* The leader                                                              *)
(***************************************************************************)
(* A resumed leader is saved as completed before its loop begins.          *)
LeaderSaved(q) == IF q.op = "resume" THEN [q.m EXCEPT !.status = "completed"] ELSE q.m

(* buildGithubFeedbackInstructions: the latest comments; of older ones the *)
(* prompt says how many it leaves out.                                     *)
Shown(news) == {c \in news : Cardinality({d \in news : d > c}) < PromptLimit}
Tell(news) ==
  /\ session' = news /\ told' = told \cup Shown(news)
  /\ omitted' = omitted \cup (news \ Shown(news))

Leader(p) ==
  LET q == proc[p] IN
  /\ At(p, "leader") /\ Edit /\ Tell(q.news)
  /\ Step(p, [q EXCEPT !.pc = "check", !.m = LeaderSaved(q)])
  /\ disk' = IF q.op = "resume" THEN LeaderSaved(q) ELSE disk
  /\ UNCHANGED <<art, stored, hub, holder, commands, faults, crossed>>

(* Its session fails or hits a limit, once it is open or before.           *)
LeaderFails(p) ==
  LET q == proc[p] IN
  /\ At(p, "leader") /\ Fault /\ Edit
  /\ Tell(q.news) \/ UNCHANGED <<session, told, omitted>>
  /\ \E o \in {"failed", "paused"} : Step(p, [q EXCEPT !.pc = "finish", !.out = o])
  /\ UNCHANGED <<art, disk, stored, hub, holder, commands, crossed>>

(* Mutant: the stored feedback goes with any sync that ends.               *)
FinishForgets(p) ==
  LET q == proc[p] IN
  /\ At(p, "finish") /\ disk' = q.m
  /\ stored' = IF q.op = "sync" THEN {} ELSE stored
  /\ Leave(p)
  /\ UNCHANGED <<tree, bad, art, session, told, omitted, hub, commands, faults, crossed>>

(* What every command of the leader does in the end.  A sync that ends     *)
(* well deletes the stored feedback, whosever it is.                       *)
Finish(p) ==
  LET q == proc[p]
      settled == q.op \in {"sync", "sync-last"} /\ q.out = "ok" IN
  /\ At(p, "finish")
  /\ disk' = [q.m EXCEPT !.status = IF q.out = "ok" THEN "completed" ELSE q.out,
                         !.phase = IF q.out = "ok" THEN "completed" ELSE @]
  /\ stored' = IF settled THEN {} ELSE stored
  /\ crossed' = (crossed \/ (settled /\ stored \notin {{}, q.news}))
  /\ Leave(p)
  /\ UNCHANGED <<tree, bad, art, session, told, omitted, hub, commands, faults>>

(***************************************************************************)
(* runGithubWorkFollowupLoop and runGithubWorkCompletionLoop.  An artifact *)
(* that exists is read instead of made again.                              *)
(***************************************************************************)
(* The verification of a round: the revision it was, or is now, made of.   *)
Verified(r) == IF art[r].ver = 0 THEN tree ELSE art[r].ver

(* The findings of a round, those of the final gate included, after their  *)
(* validation.                                                             *)
Verdicts(r) == IF art[r].verdict = "none" THEN {"clean", "rejected", "confirmed"}
               ELSE {art[r].verdict}

(* What the loop makes of a round.                                         *)
AfterRound(q, fine) ==
  CASE fine -> [q EXCEPT !.pc = "followup", !.m = Running(@)]
    [] ~fine /\ q.round = MaxRounds ->
         [q EXCEPT !.pc = "finish", !.out = "failed", !.m = Running(@)]
    [] OTHER -> [q EXCEPT !.pc = "harden", !.round = @ + 1, !.m = Running(@)]

(* runGithubCompletionReviewCycle                                          *)
Check(p) ==
  LET q == proc[p]
      v == Verified(q.round) IN
  /\ At(p, "check") /\ tree # 0
  /\ \E o \in Verdicts(q.round) :
       /\ art' = [art EXCEPT ![q.round].ver = v, ![q.round].verdict = o]
       /\ Save(p, AfterRound(q, v \notin bad /\ o # "confirmed"))
  /\ UNCHANGED <<tree, bad, stored, session, told, omitted, hub, holder, commands, faults, crossed>>

(* Nothing was changed.                                                    *)
NoDiff(p) ==
  /\ At(p, "check") /\ tree = 0
  /\ Save(p, [proc[p] EXCEPT !.pc = "finish", !.out = "ok", !.m.phase = "completed"])
  /\ UNCHANGED <<tree, bad, art, stored, session, told, omitted, hub, holder, commands, faults, crossed>>

(* auditLocalWorkCandidateFiles stops a round that is otherwise fine.      *)
Blocked(p) ==
  LET q == proc[p]
      v == Verified(q.round) IN
  /\ At(p, "check") /\ tree # 0 /\ Fault
  /\ v \notin bad /\ art[q.round].verdict \in {"none", "clean"}
  /\ art' = [art EXCEPT ![q.round].ver = v]
  /\ Save(p, [q EXCEPT !.pc = "finish", !.out = "blocked",
                       !.m = [Running(@) EXCEPT !.status = "blocked"]])
  /\ UNCHANGED <<tree, bad, stored, session, told, omitted, hub, holder, commands, crossed>>

(* runGithubHardeningRound                                                 *)
Harden(p) ==
  LET q == proc[p] IN
  /\ At(p, "harden")
  /\ IF art[q.round].hardened
     THEN Step(p, [q EXCEPT !.pc = "check"]) /\ UNCHANGED <<art, disk, tree, bad>>
     ELSE /\ Edit /\ art' = [art EXCEPT ![q.round].hardened = TRUE]
          /\ Save(p, [q EXCEPT !.pc = "check", !.m = Running(@)])
  /\ UNCHANGED <<stored, session, told, omitted, hub, holder, commands, faults, crossed>>

(* runGithubWorkFollowupRound and runGithubFollowupImplementation.  The    *)
(* count is one of the run, over all its loops; at MaxFollowups, what is   *)
(* approved is no longer implemented.                                      *)
Followup(p) ==
  LET q == proc[p]
      n == q.m.followups + 1
      m == [Running(q.m) EXCEPT !.followups = IF n > MaxFollowups THEN MaxFollowups ELSE n] IN
  /\ At(p, "followup")
  /\ \/ UNCHANGED <<tree, bad>> /\ Save(p, [q EXCEPT !.pc = "finish", !.out = "ok", !.m = m])
     \/ /\ n >= MaxFollowups /\ UNCHANGED <<tree, bad>>
        /\ Save(p, [q EXCEPT !.pc = "finish", !.out = "failed", !.m = m])
     \/ /\ n < MaxFollowups /\ Edit
        /\ Save(p, [q EXCEPT !.pc = "check", !.round = 0, !.m = m])
  /\ UNCHANGED <<art, stored, session, told, omitted, hub, holder, commands, faults, crossed>>

(* Codex, git or a validator fails in the loop, or a limit is hit: before  *)
(* or after the verification was made, or halfway through an edit.         *)
Fail(p) ==
  LET q == proc[p] IN
  /\ q.pc \in {"check", "harden", "followup"} /\ Fault
  /\ IF q.pc = "check" THEN UNCHANGED <<tree, bad>> ELSE Edit
  /\ art' \in {art} \cup IF q.pc = "check" THEN {[art EXCEPT ![q.round].ver = Verified(q.round)]}
                         ELSE {}
  /\ \E o \in {"failed", "paused"} :
       Save(p, [q EXCEPT !.pc = "finish", !.out = o, !.m = Running(@)])
  /\ UNCHANGED <<stored, session, told, omitted, hub, holder, commands, crossed>>

(***************************************************************************)
(* executeGithubPublisherLane                                              *)
(***************************************************************************)
Gate(p) ==
  /\ At(p, "gate")
  /\ IF tree \in bad THEN disk' = [proc[p].m EXCEPT !.pub = "blocked"] /\ Leave(p)
     ELSE Step(p, [proc[p] EXCEPT !.pc = "push"]) /\ UNCHANGED <<disk, holder>>
  /\ UNCHANGED <<tree, bad, art, stored, session, told, omitted, hub, commands, faults, crossed>>

Push(p) ==
  /\ At(p, "push")
  /\ hub' = IF hub.head = tree THEN hub ELSE [hub EXCEPT !.head = tree, !.ci = "none"]
  /\ Step(p, [proc[p] EXCEPT !.pc = "pr"])
  /\ UNCHANGED <<tree, bad, art, disk, stored, session, told, omitted, holder, commands, faults, crossed>>

(* The pull request of the branch, or a new draft.  Updating one does not  *)
(* make it a draft again.                                                  *)
OpenPR(p) ==
  LET pr == IF hub.pr \in {"none", "merged"} THEN "draft" ELSE hub.pr IN
  /\ At(p, "pr")
  /\ hub' = [hub EXCEPT !.pr = pr]
  /\ Step(p, [proc[p] EXCEPT !.pc = "ci", !.draft = (pr = "draft"), !.m.pr = TRUE])
  /\ UNCHANGED <<tree, bad, art, disk, stored, session, told, omitted, holder, commands, faults, crossed>>

(* readGithubCIResult: a revision without any check counts as green.       *)
CIState(ci) == CASE ci = "red" -> "blocked" [] ci = "pending" -> "ci_waiting"
                 [] OTHER -> "ci_green"

ReadCI(p) ==
  /\ At(p, "ci")
  /\ \/ /\ Step(p, [proc[p] EXCEPT !.pc = "merge", !.m.pub = CIState(hub.ci)])
        /\ UNCHANGED faults
     \/ Fault /\ Step(p, [proc[p] EXCEPT !.pc = "merge", !.m.pub = "blocked"])
  /\ UNCHANGED <<tree, bad, art, disk, stored, session, told, omitted, hub, holder, commands, crossed>>

(* githubControlPlaneApprovalSatisfied: of whatever revision it was.       *)
Approved == hub.review = "approved"

(* ensureGithubMerge, where the policy allows it and asks for approval.    *)
MayMerge(q) == ~q.draft /\ q.m.pub = "ci_green" /\ Approved

(* The answer to a merge may be lost.                                      *)
Merge(p) ==
  LET q == proc[p] IN
  /\ At(p, "merge")
  /\ \/ /\ ~MayMerge(q) /\ disk' = [q.m EXCEPT !.merge = "blocked"]
        /\ UNCHANGED <<hub, faults>>
     \/ /\ MayMerge(q) /\ disk' = [q.m EXCEPT !.merge = "merged"]
        /\ hub' = [hub EXCEPT !.pr = "merged", !.merged = @ \cup {hub.head}]
        /\ UNCHANGED faults
     \/ /\ MayMerge(q) /\ Fault /\ disk' = [q.m EXCEPT !.merge = "blocked"]
        /\ hub' \in {hub, [hub EXCEPT !.pr = "merged", !.merged = @ \cup {hub.head}]}
  /\ Leave(p)
  /\ UNCHANGED <<tree, bad, art, stored, session, told, omitted, commands, crossed>>

(* An error of GitHub or git ends the publisher, which saves nothing.      *)
PublishFails(p) ==
  /\ proc[p].pc \in {"push", "pr"} /\ Fault /\ Leave(p)
  /\ UNCHANGED <<tree, bad, art, disk, stored, session, told, omitted, hub, commands, crossed>>

(* refreshGithubPublicationCIState                                         *)
Poll(p) ==
  /\ At(p, "poll")
  /\ disk' = [proc[p].m EXCEPT !.pub = CIState(hub.ci)]
  /\ Leave(p)
  /\ UNCHANGED <<tree, bad, art, stored, session, told, omitted, hub, commands, faults, crossed>>

(***************************************************************************)
(* GitHub, its users, crashes                                              *)
(***************************************************************************)
Hub(h) ==
  /\ hub' = h
  /\ UNCHANGED <<tree, bad, art, disk, stored, session, told, omitted, proc, holder, faults, crossed>>

CIRuns ==
  /\ hub.head # 0 /\ hub.ci \in {"none", "pending"} /\ UNCHANGED commands
  /\ \E ci \in {"pending", "green", "red"} : ci # hub.ci /\ Hub([hub EXCEPT !.ci = ci])
Comment == hub.comments < Comments /\ UNCHANGED commands /\ Hub([hub EXCEPT !.comments = @ + 1])
MarkReady == hub.pr = "draft" /\ Asked /\ Hub([hub EXCEPT !.pr = "ready"])
Approve == hub.pr = "ready" /\ hub.review = "none" /\ UNCHANGED commands
           /\ Hub([hub EXCEPT !.review = "approved"])

(* A process dies, or gives up with an error of the disk; its lock is      *)
(* taken over (RepoAccessLock) or given back.                              *)
Crash(p) ==
  /\ proc[p].op # "none" /\ Fault /\ Leave(p)
  /\ crossed' = (crossed \/ At(p, "store"))
  /\ UNCHANGED <<tree, bad, art, disk, stored, session, told, omitted, hub, commands>>

Progress ==
  \E p \in Procs :
    \/ Fetch(p) \/ Store(p) \/ Lock(p) \/ LaneRuns(p)
    \/ Leader(p) \/ Check(p) \/ NoDiff(p) \/ Harden(p) \/ Followup(p) \/ Finish(p)
    \/ Gate(p) \/ Push(p) \/ OpenPR(p) \/ ReadCI(p) \/ Merge(p) \/ Poll(p)
Next ==
  \/ Progress
  \/ \E p \in Procs : Resume(p) \/ Sync(p) \/ SyncLast(p) \/ Lane(p) \/ Publish(p) \/ Refresh(p)
  \/ \E p \in Procs :
       LeaderFails(p) \/ Blocked(p) \/ Fail(p) \/ PublishFails(p) \/ Crash(p)
  \/ CIRuns \/ Comment \/ MarkReady \/ Approve

(* A process that is not killed goes on.                                   *)
Spec == Init /\ [][Next]_vars /\ WF_vars(Progress)

(***************************************************************************)
(* Properties                                                              *)
(***************************************************************************)
TypeOK ==
  /\ tree \in Revs /\ bad \subseteq 1..MaxRev
  /\ disk.cursor \in 0..Comments /\ disk.followups \in 0..MaxFollowups
  /\ session \in {None} \cup SUBSET Feedback
  /\ stored \cup told \cup omitted \subseteq Feedback /\ crossed \in BOOLEAN
  /\ holder \in Procs \cup {None} /\ hub.merged \subseteq Revs

(* What nana pushes and merges passed its verification as it stands, in    *)
(* whatever order commands, lanes and resumed runs work on the sandbox     *)
(* (runPublisherVerificationGate to ensureGithubMerge).                    *)
PublishedAsVerified == ({hub.head} \cup hub.merged) \cap bad = {}

(* Feedback the cursor is past, and so no later sync fetches, was shown to *)
(* the leader or counted as left out by a prompt that showed newer ones,   *)
(* is stored for --resume-last, or is in the hands of a sync, over failed  *)
(* leaders, runs that save an older copy of the manifest, syncs of several *)
(* processes and crashes (syncGithubWork).  The code makes three           *)
(* exceptions: a sync that has news replaces what an earlier one had       *)
(* stored, told or not; one that ends deletes what another stored in the   *)
(* meantime; one that dies between the cursor and the stored feedback      *)
(* leaves neither.                                                         *)
FeedbackKept ==
  ~crossed => \A c \in 1..disk.cursor :
     c \in told \cup omitted \cup stored \/ \E p \in Procs : c \in proc[p].news

(* Every command ends, the completion and follow-up loops of the leader    *)
(* included.                                                               *)
CommandsEnd == \A p \in Procs : proc[p].op # "none" ~> proc[p].op = "none"

(* github_defaults.go:1590: "after the bootstrap pass, Nana itself reruns  *)
(* verification".  A leader's run ends well only with a sandbox that       *)
(* passes its verification.                                                *)
CompletedVerified ==
  \A p \in Procs : proc[p].pc = "finish" /\ proc[p].out = "ok" => tree \notin bad
=============================================================================
