------------------------- MODULE FindingsValidation -------------------------
(***************************************************************************)
(* What happens to the findings of a review before they are hardened       *)
(* (runLocalWorkValidationPhase and what it calls, work_local.go): known   *)
(* ones are taken out, the rest is grouped, by path or by Codex, and every *)
(* group is given to a validator of its own, several at a time.  Grouping  *)
(* and every validator keep their results in files, so that a phase which  *)
(* was interrupted, or which failed, goes on from them when it is run      *)
(* again.  What validators reject or find to be older than the run is      *)
(* remembered in the manifest, and taken out from then on.                 *)
(***************************************************************************)
EXTENDS Integers, FiniteSets

CONSTANTS Findings,     \* fingerprints that a review may report
          Files,        \* sanitized group names: where results are kept
          LastRound,    \* localWorkMaxReviewRounds
          Attempts,     \* localWorkMaxGroupingAttempts, ...ValidatorAttempts
          Parallelism,  \* ValidationParallelism
          Crashes       \* bound on the interruptions of the loop

(* Assumed of the constants.                                               *)
SizeAssumption == /\ {Attempts, Parallelism} \subseteq Nat \ {0}
                         /\ {LastRound, Crashes} \subseteq Nat

VARIABLES
  at,         \* "review", "filter", "group", "queue", "collect", "remember",
              \* "end" or "stopped"
  round,      \* of hardening: each has its own files and its own context
  found,      \* findings file of the review
  todo,       \* those that are not known (memory)
  groups,     \* grouped-findings file: the file and the members of a group
  ctx,        \* runtime state: review, grouping and validation are complete
  results,    \* result files of the validators: a decision for a finding
  work,       \* groups whose validator waits, runs, and is done (memory)
  tries,      \* attempts of grouping, and of a group's validator (memory)
  verdict,    \* what validators returned so far, then validated-findings
  known,      \* rejected and preexisting fingerprints of the manifest
  crashes,    \* interruptions so far
  said        \* history: findings that a validator decided to drop

vars == <<at, round, found, todo, groups, ctx, results, work, tries, verdict,
          known, crashes, said>>

Drops == {"rejected", "preexisting"}
NoResult == [f \in {} |-> "keep"]
NoFiles == [n \in {} |-> NoResult]
NoWork == [waits |-> {}, runs |-> {}, done |-> {}]
Fresh == [reviewed |-> FALSE, grouped |-> FALSE, validated |-> FALSE]

Init ==
  /\ at = "review" /\ round = 0 /\ found = {} /\ todo = {} /\ groups = {}
  /\ ctx = Fresh /\ results = NoFiles /\ work = NoWork /\ tries = 0
  /\ verdict = NoResult /\ known = {} /\ crashes = 0 /\ said = {}

Review ==
  /\ at = "review" /\ at' = "filter"
  /\ found' \in SUBSET Findings /\ ctx' = [ctx EXCEPT !.reviewed = TRUE]
  /\ UNCHANGED <<round, todo, groups, results, work, tries, verdict, known, crashes, said>>

(* filterKnownFindings                                                     *)
Filter ==
  /\ at = "filter" /\ at' = IF ctx.grouped THEN "queue" ELSE "group"
  /\ todo' = found \ known /\ tries' = 0 /\ verdict' = IF ctx.validated THEN verdict ELSE NoResult
  /\ UNCHANGED <<round, found, groups, ctx, results, work, known, crashes, said>>

(* buildFindingGroupsFromGroupingResult: a finding is in exactly one group. *)
(* Two groups may share a file: names that differ may be the same once     *)
(* they are sanitized, and Codex may use a name twice.                     *)
Groupings(S) ==
  {gs \in SUBSET [file : Files, members : (SUBSET S) \ {{}}] :
     /\ UNION {g.members : g \in gs} = S
     /\ \A g, h \in gs : g # h => g.members \cap h.members = {}}
Singletons(S) ==
  {gs \in Groupings(S) : \A g, h \in gs : /\ Cardinality(g.members) = 1
                                          /\ g # h => g.file # h.file}
Grouped(gs) == groups' = gs /\ ctx' = [ctx EXCEPT !.grouped = TRUE] /\ at' = "queue"

(* groupFindings: by module, or by Codex, which is asked again when it     *)
(* fails or answers nonsense, and in the end given up for singletons.      *)
Group ==
  /\ at = "group"
  /\ \/ tries < Attempts /\ tries' = 0 /\ \E gs \in Groupings(todo) : Grouped(gs)
     \/ tries < Attempts /\ todo # {} /\ tries' = tries + 1 /\ UNCHANGED <<at, groups, ctx>>
     \/ tries = Attempts /\ tries' = 0 /\ \E gs \in Singletons(todo) : Grouped(gs)
  /\ UNCHANGED <<round, found, todo, results, work, verdict, known, crashes, said>>

(* validateFindingGroups: a goroutine for every group, whatever its state  *)
(* was, behind a semaphore.                                                *)
Queue ==
  /\ at = "queue"
  /\ \/ ctx.validated /\ at' = "remember" /\ UNCHANGED work
     \/ ~ctx.validated /\ at' = "collect" /\ work' = [NoWork EXCEPT !.waits = groups]
  /\ UNCHANGED <<round, found, todo, groups, ctx, results, tries, verdict, known, crashes, said>>

(* Mutant: a finding without a decision is rejected.                       *)
DecidedOrRejected(g, decisions) ==
  [f \in g.members |-> IF f \in DOMAIN decisions THEN decisions[f] ELSE "rejected"]

(* validatedFindingsFromGroupDecision: what the decisions leave out stays. *)
Decided(g, decisions) ==
  [f \in g.members |-> IF f \in DOMAIN decisions THEN decisions[f] ELSE "keep"]
Both(v, w) == [f \in DOMAIN v \cup DOMAIN w |-> IF f \in DOMAIN w THEN w[f] ELSE v[f]]
Return(g, decisions) == verdict' = Both(verdict, Decided(g, decisions))

(* validateFindingGroup: a result that is there is taken without asking.   *)
Claim(g) ==
  /\ at = "collect" /\ g \in work.waits /\ Cardinality(work.runs) < Parallelism
  /\ IF g.file \in DOMAIN results
     THEN /\ Return(g, results[g.file])
          /\ work' = [work EXCEPT !.waits = @ \ {g}, !.done = @ \cup {g}]
     ELSE /\ work' = [work EXCEPT !.waits = @ \ {g}, !.runs = @ \cup {g}]
          /\ UNCHANGED verdict
  /\ UNCHANGED <<at, round, found, todo, groups, ctx, results, tries, known, crashes, said>>
Decide(g) ==
  /\ at = "collect" /\ g \in work.runs
  /\ \E S \in SUBSET g.members : \E d \in [S -> Drops \cup {"keep"}] :
       /\ results' = Both(results, [n \in {g.file} |-> d])
       /\ said' = said \cup {f \in S : d[f] \in Drops}
       /\ Return(g, d)
  /\ work' = [work EXCEPT !.runs = @ \ {g}, !.done = @ \cup {g}]
  /\ UNCHANGED <<at, round, found, todo, groups, ctx, tries, known, crashes>>

(* A validator that has failed every attempt fails the phase.  The others  *)
(* end with the process.                                                   *)
Fail(g) ==
  /\ at = "collect" /\ g \in work.runs
  /\ IF tries + 1 < Attempts THEN tries' = tries + 1 /\ UNCHANGED <<at, work, crashes>>
     ELSE crashes < Crashes /\ crashes' = crashes + 1 /\ at' = "stopped" /\ tries' = 0
          /\ work' = NoWork
  /\ UNCHANGED <<round, found, todo, groups, ctx, results, verdict, known, said>>

Collect ==
  /\ at = "collect" /\ work.done = groups
  /\ at' = "remember" /\ ctx' = [ctx EXCEPT !.validated = TRUE]
  /\ work' = NoWork
  /\ UNCHANGED <<round, found, todo, groups, results, tries, verdict, known, crashes, said>>

(* The rejected and the preexisting findings go to the manifest.  What is  *)
(* kept is hardened, and what the hardening changed is reviewed again.     *)
Kept == {f \in DOMAIN verdict : verdict[f] = "keep"}
Remember ==
  /\ at = "remember" /\ known' = known \cup (DOMAIN verdict \ Kept)
  /\ IF Kept # {} /\ round < LastRound
     THEN /\ at' = "review" /\ round' = round + 1 /\ ctx' = Fresh /\ groups' = {}
          /\ found' = {} /\ results' = NoFiles /\ verdict' = NoResult
     ELSE at' = "end" /\ UNCHANGED <<round, ctx, groups, found, results, verdict>>
  /\ UNCHANGED <<todo, work, tries, crashes, said>>

(* The loop is interrupted, and run again: what it had in memory is gone.  *)
Interrupt ==
  /\ at \notin {"stopped", "end"} /\ crashes < Crashes /\ crashes' = crashes + 1
  /\ at' = "stopped" /\ work' = NoWork /\ tries' = 0
  /\ UNCHANGED <<round, found, todo, groups, ctx, results, verdict, known, said>>
Again ==
  /\ at = "stopped" /\ at' = IF ctx.reviewed THEN "filter" ELSE "review"
  /\ UNCHANGED <<round, found, todo, groups, ctx, results, work, tries, verdict, known,
                 crashes, said>>

Next ==
  \/ Review \/ Filter \/ Group \/ Queue \/ Collect \/ Remember \/ Interrupt \/ Again
  \/ \E g \in groups : Claim(g) \/ Decide(g) \/ Fail(g)

Spec == Init /\ [][Next]_vars

(***************************************************************************)
(* Properties                                                              *)
(***************************************************************************)
TypeOK ==
  /\ at \in {"review", "filter", "group", "queue", "collect", "remember", "end", "stopped"}
  /\ round \in 0..LastRound /\ found \subseteq Findings /\ known \subseteq Findings
  /\ groups \in SUBSET [file : Files, members : SUBSET Findings]
  /\ Cardinality(work.runs) <= Parallelism

(* No finding is lost: one that the review reported is hardened, unless a  *)
(* validator has decided to drop it, in this round or before.  Neither an  *)
(* interrupted phase, a result from an earlier try, two groups with one    *)
(* file, nor a decision that Codex leaves out makes one disappear.         *)
NoneLost ==
  /\ known \subseteq said
  /\ at \in {"remember", "end"} => found \ said \subseteq Kept
=============================================================================
