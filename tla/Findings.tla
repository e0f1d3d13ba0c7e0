------------------------------ MODULE Findings ------------------------------
(***************************************************************************)
(* The findings of one repository in start-state.json                      *)
(* (internal/gocli/findings.go, dismissed_retention.go): what a run of a   *)
(* planned item has reported, and what an import session has read out of a *)
(* markdown file.  Every read and every write of the state brings the      *)
(* findings in line with the run's artifacts first; the user promotes them *)
(* to planned items, dismisses and restores them; retention deletes and    *)
(* purges them; an issue sync writes a copy that it has had for long.      *)
(***************************************************************************)
EXTENDS Integers, FiniteSets

CONSTANTS Items,    \* what the run may report
          Cands,    \* ids of import candidates
          None,
          Tasks,    \* bound on the planned items made of one finding
          Edits     \* bound on the reports and on what the user does

Keys == Items \cup Cands
Statuses == {"open", "promoted", "dismissed", "deleted", "resolved"}
(* A finding: the planned item made of it last, 0 when there is none, and  *)
(* whether anything was changed since the report.                          *)
Finding == [status : Statuses, task : Nat, touched : BOOLEAN]
FindingsBounds == /\ Items \cap Cands = {} /\ None \notin Keys \cup Finding
                  /\ {Tasks, Edits} \subseteq Nat

VARIABLES
  auto,     \* findings_handling of the run's planned item is auto_promote
  art,      \* the run's artifacts: [is, items, split]
  disk,     \* findings, the planned items made of them, and how many were
  session,  \* candidates of the import session, or None
  copy,     \* the state that a sync or a retention pass has read, or None
  stale,    \* history: such a copy was written over a newer state
  purged,   \* history: findings that retention has purged
  edits

vars == <<auto, art, disk, session, copy, stale, purged, edits>>

(* "unready" and "bad" are an investigation without, or with an unreadable,*)
(* report; a scout's report cannot be unready, and a coding run's not bad. *)
(* "split" are the items that the artifacts tell more than once and not    *)
(* alike: a stage that failed in the verification and again after the      *)
(* hardening has a report of each.                                         *)
Artifacts ==
  {x \in [is : {"report"}, items : SUBSET Items, split : SUBSET Items] : x.split \subseteq x.items}
  \cup {[is |-> x, items |-> {}, split |-> {}] : x \in {"gone", "unready", "bad"}}

Init ==
  /\ auto \in BOOLEAN
  /\ art = [is |-> "unready", items |-> {}, split |-> {}]
  /\ disk = [find |-> [k \in Keys |-> None], tasks |-> [k \in Keys |-> {}],
             made |-> [k \in Keys |-> 0]]
  /\ session = None /\ copy = None /\ stale = FALSE /\ purged = {} /\ edits = 0

(***************************************************************************)
(* Bringing the findings in line with the artifacts                        *)
(***************************************************************************)
Closed == {"dismissed", "deleted"}
Open == [status |-> "open", task |-> 0, touched |-> FALSE]

(* Mutant: every finding that is reported again is open again.             *)
UpsertOpens(f) == IF f = None THEN Open ELSE [f EXCEPT !.touched = FALSE, !.status = "open"]

(* upsertStartWorkFinding: the texts and the time are those of the report; *)
(* of a deleted finding the time stays.                                    *)
Upsert(f) ==
  IF f = None THEN Open
  ELSE IF f.status = "deleted" THEN f
  ELSE [f EXCEPT !.touched = FALSE, !.status = IF @ = "resolved" THEN "open" ELSE @]

(* promoteStartWorkFinding of a finding without a planned item.            *)
Promoted(f, n) == [f EXCEPT !.status = "promoted", !.task = n, !.touched = TRUE]
PromoteIn(s, k) ==
  LET n == s.made[k] + 1 IN
  [s EXCEPT !.find[k] = Promoted(@, n), !.tasks[k] = @ \cup {n}, !.made[k] = n]
HasTask(s, k) == s.find[k].task \in s.tasks[k]

AutoPromotes(f) == auto /\ f.task = 0 /\ f.status \notin Closed

(* markMissingStartWorkFindingsResolved.                                   *)
Missing(s, k) == /\ k \in Items \ art.items /\ s.find[k] # None
                 /\ s.find[k].status \in {"open", "promoted"}
Resolve(s) ==
  [s EXCEPT !.find = [k \in Keys |->
     IF Missing(s, k) THEN [s.find[k] EXCEPT !.status = "resolved", !.touched = TRUE]
     ELSE s.find[k]]]

Upserted(s) ==
  [s EXCEPT !.find = [k \in Keys |-> IF k \in art.items THEN Upsert(s.find[k])
                                     ELSE s.find[k]]]
(* What is told again is upserted again after its promotion.               *)
AutoPromoted(s) ==
  LET due == {k \in art.items : AutoPromotes(s.find[k])} IN
  [find  |-> [k \in Keys |->
                IF k \in due
                THEN [Promoted(s.find[k], s.made[k] + 1) EXCEPT !.touched = k \notin art.split]
                ELSE s.find[k]],
   tasks |-> [k \in Keys |-> IF k \in due THEN s.tasks[k] \cup {s.made[k] + 1} ELSE s.tasks[k]],
   made  |-> [k \in Keys |-> IF k \in due THEN s.made[k] + 1 ELSE s.made[k]]]

(* Mutant: a finding that nothing was changed for is never resolved.       *)
NormalKeeps(s) == IF art.is = "report" THEN AutoPromoted(Upserted(s)) ELSE s

(* normalizeStartWorkStateFindings: what is missing is resolved only when  *)
(* nothing else had to change; two texts of one item replace each other in *)
(* every sync, so it always has something to change then.                  *)
Normal(s) ==
  LET synced == AutoPromoted(Upserted(s)) IN
  CASE art.is = "unready" -> s
    [] art.is = "gone" -> Resolve(s)
    [] OTHER -> IF synced # s \/ art.split # {} THEN synced ELSE Resolve(s)

(***************************************************************************)
(* The operations: each reads the state, changes it and writes it; an      *)
(* artifact that cannot be read makes every one of them fail.  The texts   *)
(* of an imported finding are not followed.                                *)
(***************************************************************************)
Readable == art.is # "bad"
Now == Normal(disk)
Write(s) ==
  /\ disk' = Normal(s)
  /\ \A k \in Keys : disk'.made[k] <= Tasks
Kept == UNCHANGED <<auto, art, session, copy, stale, purged>>
Live(s, k) == s.find[k] # None /\ s.find[k].status # "deleted"

(* The run goes on, is resumed or cleaned up.                              *)
Report ==
  /\ art' \in Artifacts \ {art}
  /\ UNCHANGED <<auto, disk, session, copy, stale, purged>>

Read == Readable /\ disk' = Now /\ (\A k \in Keys : disk'.made[k] <= Tasks) /\ Kept

Patch(k) ==
  /\ Readable /\ Live(Now, k)
  /\ Write([Now EXCEPT !.find[k].touched = TRUE]) /\ Kept

Promote(k) ==
  /\ Readable /\ Live(Now, k)
  /\ Write(IF HasTask(Now, k) THEN Now ELSE PromoteIn(Now, k)) /\ Kept

Dismiss(k) ==
  /\ Readable /\ Live(Now, k)
  /\ Write([Now EXCEPT !.find[k].status = "dismissed", !.find[k].touched = TRUE]) /\ Kept

(* Only dismissed findings get deleted, so they come back as such.         *)
Restore(k) ==
  /\ Readable /\ Now.find[k] # None /\ Now.find[k].status = "deleted"
  /\ Write([Now EXCEPT !.find[k].status = "dismissed", !.find[k].touched = TRUE]) /\ Kept

(* deleteStartUIPlannedItem of a queued or failed item.                    *)
DeleteTask(k) ==
  /\ Readable
  /\ \E n \in Now.tasks[k] : Write([Now EXCEPT !.tasks[k] = @ \ {n}])
  /\ Kept

(***************************************************************************)
(* Import sessions: the parser gives every candidate a name, "all" that    *)
(* the user replaces keeps its status by that name.                        *)
(***************************************************************************)
KeptButSession == UNCHANGED <<auto, art, copy, stale, purged>>
Named(S) == [c \in S |-> "candidate"]

Import(S) ==
  /\ Readable /\ session = None /\ session' = Named(S)
  /\ Write(Now) /\ KeptButSession

Available(c) == session # None /\ c \in DOMAIN session /\ session[c] = "candidate"
DropCandidate(c) ==
  /\ Readable /\ Available(c) /\ session' = [session EXCEPT ![c] = "dropped"]
  /\ Write(Now) /\ KeptButSession

EditCandidate(c) ==
  /\ Readable /\ session # None /\ c \in DOMAIN session /\ UNCHANGED session
  /\ Write(Now) /\ KeptButSession

PromoteCandidate(c) ==
  /\ Readable /\ Available(c) /\ session' = [session EXCEPT ![c] = "promoted"]
  /\ Write([Now EXCEPT !.find[c] = Upsert(@)]) /\ KeptButSession

ReplaceCandidates(S) ==
  /\ Readable /\ session # None
  /\ session' = [c \in S |-> IF c \in DOMAIN session THEN session[c] ELSE "candidate"]
  /\ Write(Now) /\ KeptButSession

(***************************************************************************)
(* Retention and issue sync: read, and later write what was read.          *)
(***************************************************************************)
Take(kind) ==
  /\ Readable /\ copy = None /\ copy' = [by |-> kind, state |-> Now]
  /\ disk' = Now /\ (\A k \in Keys : disk'.made[k] <= Tasks)
  /\ UNCHANGED <<auto, art, session, stale, purged>>

(* Which of the dismissed and deleted findings have expired is up to time. *)
Retain ==
  /\ Readable /\ copy # None /\ copy.by = "retention" /\ copy' = None
  /\ \E S \in SUBSET {k \in Keys : copy.state.find[k] # None
                                     /\ copy.state.find[k].status \in Closed} :
       LET gone == {k \in S : copy.state.find[k].status = "deleted"} IN
       /\ S # {} /\ purged' = purged \cup gone
       /\ Write([copy.state EXCEPT !.find = [k \in Keys |->
            IF k \in gone THEN None
            ELSE IF k \in S THEN [copy.state.find[k] EXCEPT !.status = "deleted", !.touched = TRUE]
            ELSE copy.state.find[k]]])
  /\ stale' = (stale \/ disk # copy.state)
  /\ UNCHANGED <<auto, art, session>>

(* writeStartWorkStatePreservingPlannedItems: what the copy lacks is kept. *)
SyncWrites ==
  /\ Readable /\ copy # None /\ copy.by = "sync" /\ copy' = None
  /\ Write([find  |-> [k \in Keys |-> IF copy.state.find[k] # None THEN copy.state.find[k]
                                      ELSE Now.find[k]],
            tasks |-> [k \in Keys |-> copy.state.tasks[k] \cup Now.tasks[k]],
            made  |-> Now.made])
  /\ stale' = (stale \/ disk # copy.state)
  /\ UNCHANGED <<auto, art, session, purged>>

Edit ==
  \/ \E k \in Keys : Patch(k) \/ Promote(k) \/ Dismiss(k) \/ Restore(k) \/ DeleteTask(k)
  \/ \E S \in SUBSET Cands : Import(S) \/ ReplaceCandidates(S)
  \/ \E c \in Cands : DropCandidate(c) \/ EditCandidate(c) \/ PromoteCandidate(c)

Keep ==
  \/ Read
  \/ \E kind \in {"retention", "sync"} : Take(kind)
  \/ Retain \/ SyncWrites

Next ==
  \/ Keep /\ UNCHANGED edits
  \/ edits < Edits /\ edits' = edits + 1 /\ (Report \/ Edit)

Spec == Init /\ [][Next]_vars

(***************************************************************************)
(* Properties                                                              *)
(***************************************************************************)
TypeOK ==
  /\ art \in Artifacts
  /\ disk.find \in [Keys -> Finding \cup {None}]
  /\ \A k \in Keys : disk.tasks[k] \subseteq 1..disk.made[k] /\ disk.made[k] \in 0..Tasks

(* However often the state is read, written and promoted, one finding has  *)
(* one planned item at a time: unless an old copy of the state was written *)
(* in between, or the finding was purged and reported again.               *)
OneTaskEach == \A k \in Keys \ purged : stale \/ Cardinality(disk.tasks[k]) <= 1

(* Reading the state three times brings it in line with the run's report,  *)
(* whatever has happened to it, and reading on changes nothing more but    *)
(* the text of a split item: what is reported is open, promoted, or was    *)
(* closed by the user, and what is not reported is neither open nor        *)
(* promoted, unless two artifacts of the run tell one item differently:    *)
(* then nothing that is missing is ever resolved.                          *)
InLine(s) ==
  \A k \in Items :
    IF k \in art.items THEN s.find[k] # None /\ s.find[k].status # "resolved"
    ELSE \/ s.find[k] = None \/ s.find[k].status \notin {"open", "promoted"}
         \/ art.split # {}
ReadsConverge ==
  art.is = "report" =>
    LET s == Normal(Normal(Normal(disk))) IN InLine(s) /\ Normal(s) = s

(* What the user has dismissed stays so, and gets no planned item, until   *)
(* the user promotes or restores it: reports, syncs and retention do not   *)
(* bring it back (old copies and purged findings apart).                   *)
DismissalStands ==
  [][\A k \in Keys :
       disk.find[k] # None /\ disk.find[k].status \in Closed =>
         \/ /\ disk'.find[k] # None /\ disk'.find[k].status \in Closed
            /\ disk'.made[k] = disk.made[k]
         \/ Promote(k) \/ stale' \/ k \in purged']_vars
=============================================================================
