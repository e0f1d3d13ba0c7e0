---------------------------- MODULE WorkDBSchema ----------------------------
(***************************************************************************)
(* Opening, upgrading, repairing and trimming the local work database      *)
(* (internal/gocli/work_db.go).  Processes of different versions share one *)
(* SQLite file; what a process reads before a transaction may be old when  *)
(* the transaction runs, and a process may die between any two of them.    *)
(* A transaction, and a statement outside one, is one step.                *)
(***************************************************************************)
EXTENDS Integers, FiniteSets

CONSTANTS Procs,       \* processes that use the file
          Sources,     \* rows of usage_sources
          MaxContent   \* bound on how often a source is indexed

(* Assumed of the constants.                                               *)
MaxContentAssumption == MaxContent \in Nat \ {0}

Current == 4           \* localWorkDBSchemaVersion
Tables == {"base", "recovery", "usage", "tasks"}
(* The columns added after their tables were first released.               *)
Columns == {"pause", "runRepo", "owner", "usageRepo"}
TableOf == [pause |-> "base", runRepo |-> "base", owner |-> "recovery",
            usageRepo |-> "usage"]
(* What repair and check look for in work_items and its children.          *)
Defects == {"priority", "flags", "link", "orphan"}
Kinds == {"write", "read", "repair", "maintain"}
Finals == {"ok", "empty", "schemaError", "error", "dead"}

VARIABLES
  version,  \* PRAGMA user_version
  tables,   \* the groups of tables that exist
  cols,     \* the later columns that exist
  defects,  \* rows that violate the current schema's constraints
  pause,    \* where a paused item keeps it: "none", "metadata", "columns"
  src,      \* the content of each usage source, 0 when it has no row
  old,      \* the sources beyond the retention
  gone,     \* the sources whose file has been removed
  archive,  \* the archive files, each the rows that it holds
  replaced, \* history: what replaced archive files held
  kind, at, \* of each process: what it does and where it is
  seen,     \* the version it works from
  got,      \* what it collected for the archive
  fresh     \* no commit since it collected

file == <<version, tables, cols, defects, pause, src, old>>
archives == <<archive, replaced>>
vars == <<file, gone, archives, kind, at, seen, got, fresh>>

(* A file written by an earlier release.                                   *)
TablesAt(v) == CASE v = 0 \/ v = 1 -> {"base"} [] v = 2 -> {"base", "usage"}
                 [] v = 3 -> {"base", "usage", "tasks"} [] OTHER -> Tables

Init ==
  /\ \/ version = 0 /\ tables = {}
     \/ version \in 0..(Current + 1) /\ tables = TablesAt(version)
  /\ cols \in SUBSET {c \in Columns : TableOf[c] \in tables}
  /\ defects \in {{}, IF tables = {} THEN {} ELSE IF version = 0 THEN Defects
                     ELSE {"link", "orphan"}}
  /\ pause \in {"none", "metadata"} /\ (pause = "metadata" => version = 0 /\ tables # {})
  /\ src = [s \in Sources |-> IF "usage" \in tables THEN 1 ELSE 0]
  /\ old = {} /\ gone = {} /\ archive = {} /\ replaced = {}
  /\ kind \in [Procs -> Kinds] /\ at = [p \in Procs |-> "start"]
  /\ seen = [p \in Procs |-> 0] /\ got = [p \in Procs |-> {}]
  /\ fresh = [p \in Procs |-> FALSE]

Goto(p, l) == at' = [at EXCEPT ![p] = l]
Local(p) == UNCHANGED <<kind, got, gone>>
Committed == fresh' = [p \in Procs |-> FALSE]

(* Mutant: a file of the current version is taken to be complete.          *)
ReadStateTrustsVersion(p) ==
  /\ at[p] = "start"
  /\ seen' = [seen EXCEPT ![p] = version]
  /\ Goto(p, CASE tables = {} -> "create" [] version > Current -> "error"
               [] version = Current -> "ok" [] OTHER -> "migrate")
  /\ UNCHANGED <<file, archives, fresh>> /\ Local(p)

(* localWorkDBSchemaState, read outside any transaction.                   *)
ReadState(p) ==
  /\ at[p] = "start"
  /\ seen' = [seen EXCEPT ![p] = version]
  /\ Goto(p, CASE tables = {} -> IF kind[p] = "read" THEN "empty" ELSE "create"
               [] version > Current -> "error"
               [] version = Current -> IF kind[p] = "read" THEN "ok" ELSE "tables"
               [] OTHER -> IF kind[p] = "read" THEN "schemaError" ELSE "migrate")
  /\ UNCHANGED <<file, archives, fresh>> /\ Local(p)

(* localWorkCurrentSchemaDDL: every statement is IF NOT EXISTS, so a table *)
(* that exists keeps its columns; the index on usage_sources(repo_slug)    *)
(* fails when the existing table lacks the column.                         *)
IndexFails == "usage" \in tables /\ "usageRepo" \notin cols
ColumnsOf(ts) == {c \in Columns : TableOf[c] \in ts}
CreateMissing(ts) ==
  /\ tables' = tables \cup ts
  /\ cols' = cols \cup ColumnsOf(ts \ tables)

(* localWorkCreateFreshSchema and the V2, V3 and V4 migrations: all of the *)
(* DDL and the current version in one transaction, or nothing.             *)
DdlTransaction(p, next) ==
  /\ IF IndexFails
     THEN Goto(p, "error") /\ UNCHANGED <<file, fresh>>
     ELSE /\ CreateMissing(Tables) /\ version' = Current
          /\ Goto(p, next) /\ Committed
          /\ UNCHANGED <<defects, pause, src, old>>
  /\ UNCHANGED archives /\ Local(p)

Create(p) ==
  /\ at[p] = "create"
  /\ DdlTransaction(p, IF kind[p] = "repair" THEN "tables"
                       ELSE IF kind[p] = "maintain" THEN "collect" ELSE "ok")
  /\ UNCHANGED seen

(* migrateLegacyLocalWorkDB before its transaction: the columns, then the  *)
(* pause moves out of the metadata, each statement committed by itself.    *)
LegacyColumns(p) ==
  /\ at[p] = "migrate" /\ seen[p] = 0
  /\ cols' = cols \cup {"pause", "runRepo"}
  /\ Goto(p, "normalize") /\ Committed
  /\ UNCHANGED <<version, tables, defects, pause, src, old, archives, seen>>
  /\ Local(p)

NormalizePause(p) ==
  /\ at[p] = "normalize"
  /\ pause' = IF pause = "metadata" THEN "columns" ELSE pause
  /\ Goto(p, "rebuild") /\ Committed
  /\ UNCHANGED <<version, tables, cols, defects, src, old, archives, seen>>
  /\ Local(p)

(* Its transaction copies the rows that satisfy the new constraints into   *)
(* new tables, corrects the others and drops orphans; the version is the   *)
(* current one at once, whatever migrations are still to come.             *)
LegacyRebuild(p) ==
  /\ at[p] = "rebuild"
  /\ defects' = {}
  /\ version' = Current
  /\ seen' = [seen EXCEPT ![p] = 1]
  /\ Goto(p, "migrate") /\ Committed
  /\ UNCHANGED <<tables, cols, pause, src, old, archives>> /\ Local(p)

(* applyLocalWorkDBMigrations goes on from the version it read.            *)
Upgrade(p) ==
  /\ at[p] = "migrate" /\ seen[p] \in 1..(Current - 1)
  /\ DdlTransaction(p, IF seen[p] + 1 = Current THEN "tables" ELSE "migrate")
  /\ seen' = [seen EXCEPT ![p] = @ + 1]

(* ensureLocalWorkCurrentSchemaCompatibility, outside a transaction: the   *)
(* statements before a failing one stay.                                   *)
EnsureTables(p) ==
  /\ at[p] = "tables"
  /\ CreateMissing(IF IndexFails THEN {"base", "recovery"} ELSE Tables)
  /\ Goto(p, IF IndexFails THEN "error" ELSE "columns") /\ Committed
  /\ UNCHANGED <<version, defects, pause, src, old, archives, seen>> /\ Local(p)

EnsureColumns(p) ==
  /\ at[p] = "columns"
  /\ cols' = cols \cup Columns
  /\ Goto(p, CASE kind[p] = "repair" -> "repair"
               [] kind[p] = "maintain" -> "collect" [] OTHER -> "ok")
  /\ Committed
  /\ UNCHANGED <<version, tables, defects, pause, src, old, archives, seen>>
  /\ Local(p)

(* repairCurrentLocalWorkDB and the check that must find nothing after it. *)
Repairable == Defects
Repair(p) ==
  /\ at[p] = "repair"
  /\ defects' = defects \ Repairable
  /\ Goto(p, "check") /\ Committed
  /\ UNCHANGED <<version, tables, cols, pause, src, old, archives, seen>>
  /\ Local(p)

(* inspectLocalWorkDB: a foreign key violation is unhealthy; priorities    *)
(* and flags out of range only ask for another repair.                     *)
Healthy == version <= Current /\ defects \cap {"link", "orphan"} = {}
Check(p) ==
  /\ at[p] = "check"
  /\ Goto(p, IF Healthy THEN "ok" ELSE "error")
  /\ UNCHANGED <<file, archives, seen, fresh>> /\ Local(p)

(***************************************************************************)
(* archiveAndTrimUsageData                                                 *)
(***************************************************************************)
Stored(S) == {<<s, src[s]>> : s \in {t \in S : src[t] > 0}}

(* What is beyond the retention that this command was given.               *)
Collect(p) ==
  /\ at[p] = "collect"
  /\ \E S \in SUBSET old :
       /\ got' = [got EXCEPT ![p] = Stored(S)]
       /\ Goto(p, IF Stored(S) = {} THEN "ok" ELSE "archive")
  /\ fresh' = [fresh EXCEPT ![p] = TRUE]
  /\ UNCHANGED <<file, gone, archives, kind, seen>>

(* Mutant: an archive that could not be written is not noticed.            *)
WriteArchiveUnchecked(p) ==
  /\ at[p] = "archive"
  /\ UNCHANGED archives
  /\ Goto(p, "trim")
  /\ UNCHANGED <<file, seen, fresh>> /\ Local(p)

(* The file has the second in its name and is renamed into place: it takes *)
(* that of another archive of the same second.                             *)
WriteArchive(p) ==
  /\ at[p] = "archive"
  /\ \/ archive' = archive \cup {got[p]} /\ UNCHANGED replaced
     \/ \E f \in archive : /\ archive' = (archive \ {f}) \cup {got[p]}
                           /\ replaced' = replaced \cup f
  /\ Goto(p, "trim")
  /\ UNCHANGED <<file, seen, fresh>> /\ Local(p)

(* The transaction that collected also deletes what is older than the same *)
(* cutoff: a commit in between makes its snapshot old and the delete fails.*)
SnapshotValid(p) == fresh[p]
Expired(p) == {s \in old : \E row \in got[p] : row[1] = s}
Trim(p) ==
  /\ at[p] = "trim"
  /\ IF SnapshotValid(p)
     THEN /\ src' = [s \in Sources |-> IF s \in Expired(p) THEN 0 ELSE src[s]]
          /\ Goto(p, "ok") /\ Committed
     ELSE Goto(p, "error") /\ UNCHANGED <<src, fresh>>
  /\ got' = [got EXCEPT ![p] = {}]
  /\ UNCHANGED <<version, tables, cols, defects, pause, old, archives, seen, kind, gone>>

(***************************************************************************)
(* The rest of the system                                                  *)
(***************************************************************************)
(* The usage index rewrites a source whose file changed ...                *)
Usable == "usage" \in tables /\ "usageRepo" \in cols /\ version = Current
Index(s) ==
  /\ Usable /\ s \notin gone /\ src[s] < MaxContent
  /\ src' = [src EXCEPT ![s] = @ + 1]
  /\ old' = old \ {s} /\ Committed
  /\ UNCHANGED <<version, tables, cols, defects, pause, gone, archives, kind, at,
                 seen, got>>

(* ... and drops one whose file is no longer there.                        *)
Vanish(s) ==
  /\ src[s] > 0 /\ s \notin gone /\ gone' = gone \cup {s}
  /\ UNCHANGED <<file, archives, kind, at, seen, got, fresh>>
Unindex(s) ==
  /\ Usable /\ s \in gone /\ src[s] > 0
  /\ src' = [src EXCEPT ![s] = 0]
  /\ old' = old \ {s} /\ Committed
  /\ UNCHANGED <<version, tables, cols, defects, pause, gone, archives, kind, at,
                 seen, got>>

(* Time passes: a source's newest row is beyond the retention.             *)
Age(s) ==
  /\ src[s] > 0 /\ s \notin old
  /\ old' = old \cup {s}
  /\ UNCHANGED <<version, tables, cols, defects, pause, src, gone, archives, kind, at,
                 seen, got, fresh>>

Die(p) ==
  /\ at[p] \notin Finals
  /\ Goto(p, "dead") /\ got' = [got EXCEPT ![p] = {}]
  /\ seen' = [seen EXCEPT ![p] = 0] /\ fresh' = [fresh EXCEPT ![p] = FALSE]
  /\ UNCHANGED <<file, archives, kind, gone>>

Step(p) ==
  \/ ReadState(p) \/ Create(p) \/ LegacyColumns(p) \/ NormalizePause(p)
  \/ LegacyRebuild(p) \/ Upgrade(p) \/ EnsureTables(p) \/ EnsureColumns(p)
  \/ Repair(p) \/ Check(p) \/ Collect(p) \/ WriteArchive(p) \/ Trim(p)

Next ==
  \/ \E p \in Procs : Step(p) \/ Die(p)
  \/ \E s \in Sources : Index(s) \/ Vanish(s) \/ Unindex(s) \/ Age(s)

Spec == Init /\ [][Next]_vars

(***************************************************************************)
(* Properties                                                              *)
(***************************************************************************)
(* Versions, columns and rows belong to tables that exist.                 *)
TypeOK ==
  /\ version \in 0..(Current + 1) /\ tables \subseteq Tables
  /\ cols \subseteq ColumnsOf(tables) /\ defects \subseteq Defects
  /\ pause \in {"none", "metadata", "columns"}
  /\ (pause = "columns" => "pause" \in cols)
  /\ src \in [Sources -> 0..MaxContent] /\ old \subseteq Sources
  /\ gone \subseteq Sources
  /\ archive \subseteq SUBSET (Sources \X (1..MaxContent))
  /\ replaced \subseteq Sources \X (1..MaxContent)
  /\ kind \in [Procs -> Kinds]
  /\ at \in [Procs -> Finals \cup {"start", "create", "migrate", "normalize",
       "rebuild", "tables", "columns", "repair", "check", "collect", "archive",
       "trim"}]
  /\ seen \in [Procs -> 0..(Current + 1)] /\ fresh \in [Procs -> BOOLEAN]
  /\ got \in [Procs -> SUBSET (Sources \X (1..MaxContent))]

(* An open for writing that returned gives a file of the current version   *)
(* with every table and column, whatever other processes did or left half  *)
(* done, and a repair that returned left nothing to repair                 *)
(* (bootstrapLocalWorkDB, repairLocalWorkDB).                              *)
OpensComplete ==
  \A p \in Procs : at[p] = "ok" /\ kind[p] # "read" =>
    /\ version = Current /\ tables = Tables /\ cols = Columns
    /\ kind[p] = "repair" => defects = {} /\ pause # "metadata"

(* No step loses data: a pause is kept through the rebuild, and a usage    *)
(* source loses its row only when an archive has what the row held, then   *)
(* and for good (migrateLegacyLocalWorkDB, archiveAndTrimUsageData).  The  *)
(* code makes two exceptions: an archive replaces another of the same      *)
(* second, with what that one held, and the index drops the row of a       *)
(* source whose file is gone (syncUsageRolloutRoots).                      *)
Archived == (UNION archive) \cup replaced
NothingLost ==
  [][/\ pause # "none" => pause' # "none"
     /\ Archived \subseteq Archived'
     /\ \A s \in Sources :
          src[s] > 0 /\ src'[s] = 0 => <<s, src[s]>> \in Archived \/ Unindex(s)
    ]_<<pause, src, archives>>
=============================================================================
