----------------------------- MODULE UsageIndex -----------------------------
(***************************************************************************)
(* The index of token usage in the work database (gocli/usage_sqlite.go,   *)
(* usage_history.go, usage_store.go).  Codex appends the running total of  *)
(* a session to its rollout file.  The rollouts of the shared session      *)
(* directories are read whenever the index is synced; those in the sandbox *)
(* of a run are read as one "history" of the run, until a prompt of the    *)
(* run has recorded its own rollout.  A thread-usage-history.json that an  *)
(* older version left in the run's directory is read instead of them.      *)
(* Processes sync, record a prompt or sync one run at the same time, in    *)
(* one transaction per source, and may fail between any two.               *)
(*                                                                         *)
(* Left out: what describes a session (model, lane, phase, repository) and *)
(* the filters on it; a run's thread-usage.json and the totals in its      *)
(* manifest, which are read when there is neither a history file nor a     *)
(* rollout.                                                                *)
(***************************************************************************)
EXTENDS Naturals, Sequences, FiniteSets, FiniteSetsExt, Functions

CONSTANTS Procs, None,
          Sessions,   \* rollout files
          Runs,       \* work runs
          Owner,      \* [Sessions -> Runs \cup {None}]: whose sandbox a session
                      \* is in, None for the shared session directories
          Tokens,     \* the totals a session reports
          Earlier,    \* what a session may have reported at the start
          Changes     \* bound on what others do to rollouts and runs
UsageBounds == /\ Tokens \subseteq Nat /\ Changes \in Nat /\ Earlier # {} /\ None \notin Runs
               /\ Owner \in [Sessions -> Runs \cup {None}]
               /\ Earlier \subseteq Seq([at : 1..3, total : Nat])

VARIABLES
  rollouts,   \* of each session, what it reported: <<[at, total], ...>>, or None
  kept,       \* thread-usage-history.json of each run: what its sessions had
              \* reported by then, <<>> without one; nothing writes it any more
  clock,      \* the time, in seconds
  runIndex,   \* work_run_index.updated_at of each run, 0 when it has none
  sources,    \* the rows of usage_sources and what hangs on them, by key
  marker,     \* work_sync_updated_at
  imported,   \* legacy_index_imported_at is set
  syncs,      \* of each process: what it does
  doubled,    \* history: imported beside a rollout that was recorded meanwhile
  changes     \* how many of them there were
usageVars == <<rollouts, kept, clock, runIndex, sources, marker, imported, syncs,
               doubled, changes>>

Shared == {s \in Sessions : Owner[s] = None}
Largest(S) == Max(S \cup {0})

(* normalizeUsageCheckpoints: the largest total of every second.           *)
Marks(text) ==
  [t \in {c.at : c \in Range(text)} |->
     Largest({c.total : c \in {d \in Range(text) : d.at = t}})]
Before(marks, t) == Largest({marks[u] : u \in {v \in DOMAIN marks : v < t}})

(* usageSQLiteCheckpointSpecs: what each checkpoint adds to the largest    *)
(* total before it.                                                        *)
Minus(a, b) == IF a > b THEN a - b ELSE 0
Checkpoints(text) ==
  LET m == Marks(text)
  IN [t \in DOMAIN m |-> [total |-> m[t], delta |-> Minus(m[t], Before(m, t))]]

Rollout(s) == <<"rollout", s>>
Legacy(s) == <<"legacy", s>>
History(r) == <<"history", r>>
Keys == {Rollout(s) : s \in Sessions} \cup {Legacy(s) : s \in Sessions}
        \cup {History(r) : r \in Runs}

(* A row: the run it belongs to, the size of the file when it was read,    *)
(* and the checkpoints of each of its sessions.                            *)
Row(run, size, sessions) == [run |-> run, size |-> size, sessions |-> sessions]
Stored == {k \in Keys : sources[k] # None}
HasRollout(r) == \E s \in Sessions : Rollout(s) \in Stored /\ sources[Rollout(s)].run = r

(* usageSQLitePayloadFromRollout, and the payload of a run: its history    *)
(* file, or every rollout in its sandbox.                                  *)
Exists(s) == rollouts[s] \notin {None, <<>>}
RolloutPayload(s, text) == [x \in {s} |-> Checkpoints(text)]
InSandbox(r) == {s \in Sessions : Owner[s] = r}
RunPayload(r) ==
  IF DOMAIN kept[r] # {} THEN [s \in DOMAIN kept[r] |-> Checkpoints(kept[r][s])]
  ELSE [s \in {x \in InSandbox(r) : Exists(x)} |-> Checkpoints(rollouts[s])]

(* usageEffectiveSourceCondition.  Mutant: every row counts.               *)
EffectiveAlways(k) == k \in Stored
Effective(k) ==
  /\ k \in Stored
  /\ sources[k].run = None \/ k[1] = "rollout" \/ ~HasRollout(sources[k].run)

Idle == [does |-> "idle", at |-> "idle", todo |-> {}, known |-> {}, found |-> {},
         of |-> None, size |-> 0, text |-> <<>>, latest |-> 0]

Init ==
  /\ rollouts \in [Sessions -> Earlier]
  /\ \E Told \in SUBSET Runs : \E said \in [Sessions -> Earlier] :
       kept = [r \in Runs |-> [s \in {x \in InSandbox(r) : r \in Told} |-> said[s]]]
  /\ clock = 3
  /\ runIndex \in [Runs -> {0, 2}]
  /\ sources = [k \in Keys |-> None]
  /\ marker = 0 /\ imported = FALSE
  /\ syncs = [p \in Procs |-> Idle]
  /\ doubled = {} /\ changes \in 0..Changes

(* What others do.                                                         *)
World == UNCHANGED <<kept, sources, marker, imported, syncs, doubled>>
Changed == changes < Changes /\ changes' = changes + 1

(* Codex reports; a total may fall when it compacts the conversation.      *)
Report(s, n) ==
  /\ Changed /\ rollouts[s] # None
  /\ rollouts' = [rollouts EXCEPT ![s] = Append(@, [at |-> clock, total |-> n])]
  /\ UNCHANGED <<clock, runIndex>> /\ World
Tick ==
  /\ Changed /\ clock' = clock + 1
  /\ UNCHANGED <<rollouts, runIndex>> /\ World
Remove(s) ==
  /\ Changed /\ Exists(s)
  /\ rollouts' = [rollouts EXCEPT ![s] = None]
  /\ UNCHANGED <<clock, runIndex>> /\ World
UpdateRun(r) ==
  /\ Changed /\ runIndex' = [runIndex EXCEPT ![r] = clock]
  /\ UNCHANGED <<rollouts, clock>> /\ World

(* A step of process p, which leaves the world alone.                      *)
Step(p, job) ==
  /\ syncs' = [syncs EXCEPT ![p] = job]
  /\ UNCHANGED <<rollouts, kept, clock, runIndex, changes>>
OnlyStep(p, job) == Step(p, job) /\ UNCHANGED <<sources, marker, imported, doubled>>
At(p, place) == syncs[p].at = place
Go(p, place) == [syncs[p] EXCEPT !.at = place]

(* syncUsageSQLite.  The old JSON index is imported into an empty table,   *)
(* the sessions of runs too, and without their run.                        *)
StartSync(p) ==
  /\ syncs[p] = Idle
  /\ IF ~imported /\ Stored = {}
       THEN \E old \in SUBSET Sessions :
              OnlyStep(p, IF old = {} THEN [Idle EXCEPT !.does = "sync", !.at = "roots"]
                          ELSE [Idle EXCEPT !.does = "sync", !.at = "legacy", !.todo = old])
       ELSE OnlyStep(p, [Idle EXCEPT !.does = "sync", !.at = "roots"])
ImportOne(p, s) ==
  /\ At(p, "legacy") /\ s \in syncs[p].todo
  /\ sources' = [sources EXCEPT ![Legacy(s)] = Row(None, 0, [x \in {s} |-> <<>>])]
  /\ doubled' = IF Rollout(s) \in Stored THEN doubled \cup {s} ELSE doubled
  /\ Step(p, [syncs[p] EXCEPT !.todo = @ \ {s}]) /\ UNCHANGED <<marker, imported>>
Imported(p) ==
  /\ At(p, "legacy") /\ syncs[p].todo = {}
  /\ imported' = TRUE
  /\ Step(p, Go(p, "roots")) /\ UNCHANGED <<sources, marker, doubled>>

(* syncUsageRolloutRoots: the rows under the roots as they are, then every *)
(* file.                                                                   *)
List(p) ==
  /\ At(p, "roots")
  /\ OnlyStep(p, [syncs[p] EXCEPT
       !.at = "walk", !.todo = Shared,
       !.known = {<<s, sources[Rollout(s)].size>> : s \in {x \in Shared : Rollout(x) \in Stored}}])

(* A file is read when its size or time differs from the row's; they are   *)
(* noted before the file is read.                                          *)
Visit(p, s) ==
  /\ At(p, "walk") /\ s \in syncs[p].todo
  /\ LET job == [syncs[p] EXCEPT !.todo = @ \ {s}, !.found = IF Exists(s) THEN @ \cup {s} ELSE @]
     IN OnlyStep(p, IF ~Exists(s) \/ <<s, Len(rollouts[s])>> \in job.known THEN job
                    ELSE [job EXCEPT !.at = "parse", !.of = s, !.size = Len(rollouts[s])])

(* recordManagedPromptUsage, at the end of a prompt.                       *)
RecordPrompt(p, s) ==
  /\ syncs[p] = Idle /\ Exists(s)
  /\ OnlyStep(p, [Idle EXCEPT !.does = "record", !.at = "parse", !.of = s, !.size = Len(rollouts[s])])

(* usageSQLitePayloadFromRollout, then replaceUsageSourceTx.               *)
Parse(p) ==
  /\ At(p, "parse")
  /\ OnlyStep(p, IF ~Exists(syncs[p].of) THEN Idle
                 ELSE [syncs[p] EXCEPT !.at = "store", !.text = rollouts[syncs[p].of]])
Store(p) ==
  /\ At(p, "store")
  /\ LET j   == syncs[p]
         row == Row(IF j.does = "record" THEN Owner[j.of] ELSE None, j.size,
                    RolloutPayload(j.of, j.text))
     IN /\ sources' = [k \in Keys |-> IF k = Rollout(j.of) THEN row
                                      ELSE IF k = Legacy(j.of) THEN None ELSE sources[k]]
        /\ Step(p, IF j.does = "record" THEN Idle
                   ELSE [j EXCEPT !.at = "walk", !.of = None, !.size = 0, !.text = <<>>])
  /\ doubled' = doubled \ {syncs[p].of}
  /\ UNCHANGED <<marker, imported>>

(* The rows of files that were not found; then the runs updated since the  *)
(* marker.                                                                 *)
Lost(p) == {x[1] : x \in syncs[p].known} \ syncs[p].found
Prune(p) ==
  /\ At(p, "walk") /\ syncs[p].todo = {} /\ Lost(p) # {}
  /\ \E s \in Lost(p) :
       /\ sources' = [sources EXCEPT ![Rollout(s)] = None]
       /\ Step(p, [syncs[p] EXCEPT !.known = {x \in @ : x[1] # s}])
  /\ UNCHANGED <<marker, imported, doubled>>
ListRuns(p) ==
  /\ At(p, "walk") /\ syncs[p].todo = {} /\ Lost(p) = {}
  /\ LET new == {r \in Runs : runIndex[r] > marker}
     IN OnlyStep(p, [Idle EXCEPT !.does = "run", !.at = "runs", !.todo = new,
                                 !.latest = Largest({marker} \cup {runIndex[r] : r \in new})])

(* syncUsageForRun, of the command that looks back on a run.               *)
StartRun(p, r) ==
  /\ syncs[p] = Idle /\ runIndex[r] > 0
  /\ OnlyStep(p, [Idle EXCEPT !.does = "run", !.at = "runs", !.todo = {r}, !.latest = runIndex[r]])

(* syncUsageWorkRun: unless it has rollouts of its own, the run's history  *)
(* replaces what was there.                                                *)
ReadHistory(p, r) ==
  /\ At(p, "runs") /\ r \in syncs[p].todo
  /\ LET job == [syncs[p] EXCEPT !.todo = @ \ {r}]
     IN OnlyStep(p, IF HasRollout(r) THEN job
                    ELSE [job EXCEPT !.at = "history", !.of = r, !.text = RunPayload(r)])
ReplaceHistory(p) ==
  /\ At(p, "history")
  /\ LET j == syncs[p]
     IN /\ sources' = [sources EXCEPT ![History(j.of)] =
                         IF DOMAIN j.text = {} THEN None ELSE Row(j.of, 0, j.text)]
        /\ Step(p, [j EXCEPT !.at = "runs", !.of = None, !.text = <<>>])
  /\ UNCHANGED <<marker, imported, doubled>>
Mark(p) ==
  /\ At(p, "runs") /\ syncs[p].todo = {}
  /\ marker' = syncs[p].latest
  /\ Step(p, Idle) /\ UNCHANGED <<sources, imported, doubled>>

Fail(p) == syncs[p] # Idle /\ OnlyStep(p, Idle)

Process(p) ==
  \/ StartSync(p) \/ Imported(p) \/ List(p) \/ Parse(p) \/ Store(p)
  \/ Prune(p) \/ ListRuns(p) \/ ReplaceHistory(p) \/ Mark(p) \/ Fail(p)
  \/ \E s \in Sessions : ImportOne(p, s) \/ Visit(p, s) \/ RecordPrompt(p, s)
  \/ \E r \in Runs : StartRun(p, r) \/ ReadHistory(p, r)
Next ==
  \/ \E p \in Procs : Process(p)
  \/ \E s \in Sessions : Remove(s) \/ \E n \in Tokens : Report(s, n)
  \/ \E r \in Runs : UpdateRun(r)
  \/ Tick
Spec == Init /\ [][Next]_usageVars

TypeOK ==
  /\ \A k \in Stored : /\ sources[k].run \in Runs \cup {None}
                       /\ DOMAIN sources[k].sessions \in (SUBSET Sessions) \ {{}}
  /\ marker \in 0..clock /\ imported \in BOOLEAN /\ doubled \subseteq Sessions

(* buildUsageIndexStateFromSQLite: what reports count.                     *)
Entries == {e \in {k \in Keys : Effective(k)} \X Sessions :
              e[2] \in DOMAIN sources[e[1]].sessions}
Deltas(e) == sources[e[1]].sessions[e[2]]
(* queryWindowedUsageDayGroups, queryWindowedUsageRecords: what a session  *)
(* used on some days, and what each used since a time.                     *)
Used(e, times) == MapThenSumSet(LAMBDA t : Deltas(e)[t].delta, DOMAIN Deltas(e) \cap times)
WindowRecords(from) ==
  [e \in {x \in Entries : \E t \in DOMAIN Deltas(x) : t >= from} |-> Used(e, from..clock)]

(* However a session came into the index, as a rollout, through its run or *)
(* from the old index, reports count it once: unless the old index was     *)
(* imported while a prompt recorded the session.  A run's session that     *)
(* came from the old index has no run there, so it counts beside the       *)
(* history of its run, and only beside that, until a prompt records it.    *)
Counting(s) == {k \in Keys : Effective(k) /\ s \in DOMAIN sources[k].sessions}
CountedOnce ==
  \A s \in Sessions \ doubled :
    Cardinality(Counting(s)) <= 1 \/ Counting(s) = {Legacy(s), History(Owner[s])}

(* A row whose size is that of the file has what the file says: the sync   *)
(* that passes the file by for that reason misses nothing.                 *)
SizeTells ==
  \A s \in Sessions : Rollout(s) \in Stored /\ Exists(s) =>
    LET row == sources[Rollout(s)]
    IN row.size = Len(rollouts[s]) => row.sessions[s] = Checkpoints(rollouts[s])

(* What a window reports of a session is by how much it exceeded its       *)
(* earlier totals, however often these went down in between.               *)
WindowAddsUp ==
  \A from \in 1..clock :
    LET records == WindowRecords(from)
        totals(e, T) == Largest({Deltas(e)[t].total : t \in DOMAIN Deltas(e) \cap T})
    IN \A e \in DOMAIN records :
         records[e] = totals(e, 1..clock) - totals(e, 1..(from - 1))
=============================================================================
