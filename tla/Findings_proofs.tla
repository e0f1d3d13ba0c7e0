--------------------------- MODULE Findings_proofs ---------------------------
(***************************************************************************)
(* Proofs about Findings for every set of findings and candidates and any  *)
(* number of reports, edits, syncs and retention passes: what the user has *)
(* dismissed stays so, and a finding has one planned item at a time.       *)
(***************************************************************************)
EXTENDS Findings, FiniteSetTheorems, TLAPS

State == [find : [Keys -> Finding \cup {None}], tasks : [Keys -> SUBSET (Nat \ {0})],
          made : [Keys -> Nat]]

Closes(f) == f # None /\ f.status \in Closed

(* No copy is ahead of the state in the number of planned items, and those *)
(* are numbered from one.                                                  *)
Numbered(s) == \A k \in Keys : s.tasks[k] \subseteq 1..s.made[k]
Typed ==
  /\ auto \in BOOLEAN /\ art \in Artifacts /\ disk \in State /\ Numbered(disk)
  /\ \A k \in Keys : disk.made[k] <= Tasks
  /\ copy # None => /\ copy.state \in State /\ Numbered(copy.state)
                    /\ \A k \in Keys : copy.state.made[k] <= disk.made[k]

(* The planned item of a finding is the one that the finding names, and a  *)
(* finding of an auto-promoting run has always had one.                    *)
One(s, k) ==
  IF s.find[k] = None THEN s.tasks[k] = {}
  ELSE /\ s.tasks[k] \subseteq {s.find[k].task}
       /\ auto /\ k \in Items => s.find[k].task # 0

IInv == Typed /\ \A k \in Keys \ purged : stale \/ One(disk, k)

-----------------------------------------------------------------------------
(* Reading the state brings it in line with the artifacts (Normal)         *)

LEMMA FindingFields ==
  ASSUME FindingsBounds, NEW f \in Finding
  PROVE  f # None /\ f.status \in Statuses /\ f.task \in Nat /\ f.touched \in BOOLEAN
  BY DEF FindingsBounds, Finding

LEMMA FindingUpdates ==
  ASSUME NEW f \in Finding, NEW st \in Statuses, NEW t \in BOOLEAN, NEW n \in Nat
  PROVE  /\ [f EXCEPT !.status = st, !.touched = t] \in Finding
         /\ [f EXCEPT !.touched = t, !.status = st] \in Finding
         /\ [f EXCEPT !.status = st, !.task = n, !.touched = t] \in Finding
         /\ [f EXCEPT !.touched = t] \in Finding
         /\ [f EXCEPT !.status = st] \in Finding
  BY DEF Finding

LEMMA BoolTouched ==
  ASSUME NEW f \in Finding, NEW x \in BOOLEAN
  PROVE  /\ [f EXCEPT !.touched = x] \in Finding
         /\ [f EXCEPT !.touched = x].task = f.task
         /\ [f EXCEPT !.touched = x].status = f.status
  BY DEF Finding

LEMMA OpenAndPromoted ==
  ASSUME FindingsBounds
  PROVE  /\ Open \in Finding /\ Open # None /\ Open.task = 0 /\ Open.status \notin Closed
         /\ \A f \in Finding, n \in Nat :
              /\ Promoted(f, n) \in Finding /\ Promoted(f, n) # None
              /\ Promoted(f, n).task = n /\ Promoted(f, n).status \notin Closed
  <1>1. Open \in Finding
    BY DEF Open, Finding, Statuses
  <1>2. Open.task = 0 /\ Open.status \notin Closed
    BY DEF Open, Closed
  <1>3. ASSUME NEW f \in Finding, NEW n \in Nat
        PROVE  /\ Promoted(f, n) \in Finding /\ Promoted(f, n) # None
               /\ Promoted(f, n).task = n /\ Promoted(f, n).status \notin Closed
    <2>1. "promoted" \in Statuses /\ TRUE \in BOOLEAN
      BY DEF Statuses
    <2>2. Promoted(f, n) \in Finding
      BY <2>1, FindingUpdates DEF Promoted
    <2>3. Promoted(f, n).task = n /\ Promoted(f, n).status \notin Closed
      BY DEF Promoted, Finding, Closed
    <2> QED BY <2>2, <2>3, FindingFields
  <1> QED BY <1>1, <1>2, <1>3, FindingFields

(* What Upsert does to a finding, and what it leaves alone.                *)
LEMMA UpsertKeeps ==
  ASSUME FindingsBounds, NEW f \in Finding \cup {None}
  PROVE  /\ Upsert(f) \in Finding
         /\ f = None => Upsert(f) = Open
         /\ f # None => /\ Upsert(f).task = f.task
                        /\ f.status \in Closed <=> Upsert(f).status \in Closed
  <1>1. CASE f = None
    BY <1>1, OpenAndPromoted DEF Upsert
  <1>2. CASE f # None /\ f.status = "deleted"
    BY <1>2 DEF Upsert
  <1>3. CASE f # None /\ f.status # "deleted"
    <2> DEFINE st == IF f.status = "resolved" THEN "open" ELSE f.status
    <2>1. f \in Finding /\ st \in Statuses /\ FALSE \in BOOLEAN
      BY <1>3 DEF Finding, Statuses
    <2>2. Upsert(f) = [f EXCEPT !.touched = FALSE, !.status = st]
      BY <1>3, <2>1 DEF Upsert, Finding
    <2> HIDE DEF st
    <2>3. Upsert(f) \in Finding
      BY <2>1, <2>2, FindingUpdates
    <2>4. Upsert(f).task = f.task /\ Upsert(f).status = st
      BY <2>1, <2>2 DEF Finding
    <2> QED BY <1>3, <2>3, <2>4 DEF Closed, st
  <1> QED BY <1>1, <1>2, <1>3

(* From s to t, the finding k is resolved or opened, with what it has ...  *)
Same(s, t, k) ==
  /\ s.find[k] # None /\ t.find[k] # None
  /\ t.find[k].task = s.find[k].task
  /\ t.find[k].status \in Closed <=> s.find[k].status \in Closed
  /\ t.tasks[k] = s.tasks[k] /\ t.made[k] = s.made[k]
(* ... or is new ...                                                       *)
New(s, t, k) ==
  /\ s.find[k] = None /\ t.find[k] = Open /\ (k \in Items => ~auto)
  /\ t.tasks[k] = s.tasks[k] /\ t.made[k] = s.made[k]
(* ... or gets a planned item, which it did not have.                      *)
Gets(s, t, k) ==
  /\ k \in Items
  /\ s.find[k] # None => s.find[k].task = 0 /\ s.find[k].status \notin Closed /\ auto
  /\ t.find[k] # None /\ t.find[k].task = s.made[k] + 1
  /\ t.find[k].status \notin Closed
  /\ t.tasks[k] = s.tasks[k] \cup {s.made[k] + 1} /\ t.made[k] = s.made[k] + 1
Alone(s, t, k) ==
  t.find[k] = s.find[k] /\ t.tasks[k] = s.tasks[k] /\ t.made[k] = s.made[k]
Change(s, t, k) == Same(s, t, k) \/ New(s, t, k) \/ Gets(s, t, k) \/ Alone(s, t, k)

LEMMA ResolveChange ==
  ASSUME FindingsBounds, NEW s \in State
  PROVE  Resolve(s) \in State /\ \A k \in Keys : Change(s, Resolve(s), k)
  <1>1. ASSUME NEW k \in Keys, Missing(s, k)
        PROVE  /\ [s.find[k] EXCEPT !.status = "resolved", !.touched = TRUE] \in Finding
               /\ [s.find[k] EXCEPT !.status = "resolved", !.touched = TRUE].task = s.find[k].task
               /\ s.find[k].status \notin Closed
    BY <1>1 DEF Missing, State, Finding, Statuses, Closed
  <1>2. Resolve(s) \in State
    BY <1>1 DEF Resolve, State
  <1>3. ASSUME NEW k \in Keys PROVE Change(s, Resolve(s), k)
    <2>1. CASE Missing(s, k)
      <3>1. Resolve(s).find[k] = [s.find[k] EXCEPT !.status = "resolved", !.touched = TRUE]
        BY <2>1 DEF Resolve, State
      <3>2. Resolve(s).find[k].status \notin Closed /\ s.find[k] # None
        BY <2>1, <3>1 DEF Missing, State, Finding, Closed
      <3>3. Resolve(s).tasks = s.tasks /\ Resolve(s).made = s.made
        BY DEF Resolve, State
      <3> QED BY <1>1, <2>1, <3>1, <3>2, <3>3, FindingFields DEF Change, Same
    <2>2. CASE ~Missing(s, k)
      BY <2>2 DEF Resolve, Change, Alone, State
    <2> QED BY <2>1, <2>2
  <1> QED BY <1>2, <1>3

LEMMA SyncedChange ==
  ASSUME FindingsBounds, art \in Artifacts, NEW s \in State
  PROVE  LET t == AutoPromoted(Upserted(s)) IN t \in State /\ \A k \in Keys : Change(s, t, k)
  <1> DEFINE u == Upserted(s)
             t == AutoPromoted(u)
             due == {k \in art.items : AutoPromotes(u.find[k])}
  <1>0. art.items \subseteq Items /\ Items \subseteq Keys
    BY DEF Artifacts, Keys
  <1>1. /\ u \in State /\ u.tasks = s.tasks /\ u.made = s.made
        /\ \A k \in Keys : u.find[k] = IF k \in art.items THEN Upsert(s.find[k]) ELSE s.find[k]
    <2>1. \A k \in Keys : s.find[k] \in Finding \cup {None}
      BY DEF State
    <2>2. \A k \in Keys : Upsert(s.find[k]) \in Finding
      BY <2>1, UpsertKeeps
    <2> QED BY <2>1, <2>2 DEF Upserted, State
  <1> HIDE DEF u
  <1>2. /\ t.find = [k \in Keys |->
                       IF k \in due
                       THEN [Promoted(u.find[k], u.made[k] + 1) EXCEPT !.touched = k \notin art.split]
                       ELSE u.find[k]]
        /\ t.tasks = [k \in Keys |-> IF k \in due THEN u.tasks[k] \cup {u.made[k] + 1}
                                    ELSE u.tasks[k]]
        /\ t.made = [k \in Keys |-> IF k \in due THEN u.made[k] + 1 ELSE u.made[k]]
        /\ t = [find |-> t.find, tasks |-> t.tasks, made |-> t.made]
    BY DEF AutoPromoted
  <1> HIDE DEF t
  <1>3. ASSUME NEW k \in due
        PROVE  /\ k \in Keys /\ k \in art.items /\ auto
               /\ u.find[k] \in Finding /\ u.find[k].task = 0 /\ u.find[k].status \notin Closed
    <2>1. k \in Keys /\ k \in art.items /\ AutoPromotes(u.find[k])
      BY <1>0
    <2>2. u.find[k] \in Finding
      BY <1>1, <2>1, UpsertKeeps DEF State
    <2> QED BY <2>1, <2>2 DEF AutoPromotes
  <1> HIDE DEF due
  <1>4. ASSUME NEW k \in due
        PROVE  /\ t.find[k] \in Finding /\ t.find[k] # None
               /\ t.find[k].task = u.made[k] + 1 /\ t.find[k].status \notin Closed
    <2> DEFINE g == Promoted(u.find[k], u.made[k] + 1)
    <2>0. u.made[k] + 1 \in Nat /\ u.find[k] \in Finding
      BY <1>1, <1>3 DEF State
    <2>1. g \in Finding /\ g.task = u.made[k] + 1 /\ g.status \notin Closed
      BY <2>0, OpenAndPromoted
    <2>2. t.find[k] = [g EXCEPT !.touched = k \notin art.split]
      BY <1>2, <1>3
    <2> HIDE DEF g
    <2>3. t.find[k] \in Finding /\ t.find[k].task = g.task /\ t.find[k].status = g.status
      BY <2>1, <2>2, BoolTouched
    <2> QED BY <2>1, <2>3, FindingFields
  <1>5. t \in State
    <2>1. t.find \in [Keys -> Finding \cup {None}]
      <3>1. \A k \in Keys : u.find[k] \in Finding \cup {None}
        BY <1>1 DEF State
      <3>2. \A k \in Keys : k \in due \/ t.find[k] = u.find[k]
        BY <1>2
      <3>3. \A k \in Keys : t.find[k] \in Finding \cup {None}
        BY <1>4, <3>1, <3>2
      <3> QED BY <1>2, <3>3
    <2>2. t.made \in [Keys -> Nat]
      BY <1>1, <1>2 DEF State
    <2>3. t.tasks \in [Keys -> SUBSET (Nat \ {0})]
      <3>1. \A k \in Keys : u.tasks[k] \in SUBSET (Nat \ {0}) /\ u.made[k] + 1 \in Nat \ {0}
        BY <1>1 DEF State
      <3> QED BY <1>2, <3>1
    <2> QED BY <1>2, <2>1, <2>2, <2>3 DEF State
  <1>6. ASSUME NEW k \in Keys PROVE Change(s, t, k)
    <2>0. s.find[k] \in Finding \cup {None}
      BY DEF State
    <2>1. CASE k \in due
      <3>1. s.find[k] # None => s.find[k].task = 0 /\ s.find[k].status \notin Closed /\ auto
        BY <1>1, <1>3, <2>0, <2>1, UpsertKeeps
      <3>2. t.tasks[k] = s.tasks[k] \cup {s.made[k] + 1} /\ t.made[k] = s.made[k] + 1
        BY <1>1, <1>2, <2>1
      <3>3. k \in Items
        BY <1>0, <1>3, <2>1
      <3> QED BY <1>1, <1>4, <2>1, <3>1, <3>2, <3>3 DEF Change, Gets
    <2>2. CASE k \notin due
      <3>1. t.find[k] = u.find[k] /\ t.tasks[k] = s.tasks[k] /\ t.made[k] = s.made[k]
        BY <1>1, <1>2, <2>2
      <3>2. CASE k \notin art.items
        BY <1>1, <3>1, <3>2 DEF Change, Alone
      <3>3. CASE k \in art.items /\ s.find[k] # None
        BY <1>1, <2>0, <3>1, <3>3, UpsertKeeps, FindingFields DEF Change, Same
      <3>4. CASE k \in art.items /\ s.find[k] = None
        <4>1. t.find[k] = Open
          BY <1>1, <2>0, <3>1, <3>4, UpsertKeeps
        <4>2. ~auto
          BY <1>1, <2>2, <3>1, <3>4, <4>1, OpenAndPromoted DEF due, AutoPromotes
        <4> QED BY <3>1, <3>4, <4>1, <4>2 DEF Change, New
      <3> QED BY <3>2, <3>3, <3>4
    <2> QED BY <2>1, <2>2
  <1> QED BY <1>5, <1>6 DEF t, u

(* Whatever the artifacts are, every finding is changed in one of these    *)
(* ways, and none that is closed gets a planned item.                      *)
LEMMA NormalChange ==
  ASSUME FindingsBounds, art \in Artifacts, NEW s \in State
  PROVE  Normal(s) \in State /\ \A k \in Keys : Change(s, Normal(s), k)
  <1>1. \A k \in Keys : Change(s, s, k)
    BY DEF Change, Alone
  <1> QED BY <1>1, ResolveChange, SyncedChange DEF Normal

(* A closed finding stays closed, with the planned items it has.           *)
LEMMA NormalKeepsClosed ==
  ASSUME FindingsBounds, art \in Artifacts, NEW s \in State, NEW k \in Keys,
         Closes(s.find[k])
  PROVE  Closes(Normal(s).find[k]) /\ Normal(s).made[k] = s.made[k]
  <1>1. Change(s, Normal(s), k)
    BY NormalChange
  <1> QED BY <1>1 DEF Closes, Change, Same, New, Gets, Alone

(* A finding that had one planned item has one, and it is the one named.   *)
LEMMA NormalKeepsOne ==
  ASSUME FindingsBounds, art \in Artifacts, NEW s \in State, NEW k \in Keys, One(s, k)
  PROVE  One(Normal(s), k)
  <1> DEFINE t == Normal(s)
  <1>1. Change(s, t, k) /\ t \in State
    BY NormalChange
  <1>2. s.tasks[k] \subseteq Nat \ {0} /\ s.made[k] + 1 # 0
    BY DEF State
  <1> SUFFICES One(t, k)
    OBVIOUS
  <1> HIDE DEF t
  <1>3. CASE Same(s, t, k) \/ Alone(s, t, k)
    BY <1>3 DEF Same, Alone, One
  <1>4. CASE New(s, t, k)
    BY <1>4, OpenAndPromoted DEF New, One
  <1>5. CASE Gets(s, t, k)
    BY <1>2, <1>5 DEF Gets, One
  <1> QED BY <1>1, <1>3, <1>4, <1>5 DEF Change

(* Planned items stay numbered, and there are never fewer of them.         *)
LEMMA NormalKeepsNumbers ==
  ASSUME FindingsBounds, art \in Artifacts, NEW s \in State, Numbered(s)
  PROVE  Numbered(Normal(s)) /\ \A k \in Keys : s.made[k] <= Normal(s).made[k]
  <1> SUFFICES ASSUME NEW k \in Keys
               PROVE  /\ Normal(s).tasks[k] \subseteq 1..Normal(s).made[k]
                      /\ s.made[k] <= Normal(s).made[k]
    BY DEF Numbered
  <1>1. Change(s, Normal(s), k)
    BY NormalChange
  <1>2. s.made[k] \in Nat /\ s.tasks[k] \subseteq 1..s.made[k]
    BY DEF State, Numbered
  <1> QED BY <1>1, <1>2 DEF Change, Same, New, Gets, Alone

-----------------------------------------------------------------------------
(* The operations                                                          *)

(* What Normal made of the disk.                                           *)
LEMMA NowIs ==
  ASSUME FindingsBounds, Typed
  PROVE  /\ Now \in State /\ Numbered(Now)
         /\ \A k \in Keys :
              /\ disk.made[k] <= Now.made[k]
              /\ One(disk, k) => One(Now, k)
              /\ Closes(disk.find[k]) => Closes(Now.find[k]) /\ Now.made[k] = disk.made[k]
  BY NormalChange, NormalKeepsClosed, NormalKeepsOne, NormalKeepsNumbers DEF Now, Typed

(* An edit that makes no planned item, and closes findings at most.        *)
Gentle(s) ==
  /\ s \in State /\ Numbered(s) /\ s.made = Now.made
  /\ \A k \in Keys : One(Now, k) => One(s, k)
  /\ \A k \in Keys : Closes(Now.find[k]) => Closes(s.find[k])

LEMMA GentleNow ==
  ASSUME FindingsBounds, Typed
  PROVE  Gentle(Now)
  BY NowIs DEF Gentle

LEMMA GentleFind ==
  ASSUME FindingsBounds, Typed, NEW k \in Keys, NEW f \in Finding,
         Now.find[k] # None => /\ f.task = Now.find[k].task
                               /\ Now.find[k].status \in Closed => f.status \in Closed,
         Now.find[k] = None => k \notin Items /\ f.task = 0
  PROVE  Gentle([Now EXCEPT !.find[k] = f])
  <1> DEFINE s == [Now EXCEPT !.find[k] = f]
  <1>1. Now \in State /\ Numbered(Now)
    BY NowIs
  <1>2. /\ s \in State /\ s.made = Now.made /\ s.tasks = Now.tasks
        /\ \A j \in Keys : s.find[j] = IF j = k THEN f ELSE Now.find[j]
    BY <1>1 DEF State
  <1>3. f # None
    BY FindingFields
  <1> HIDE DEF s
  <1>4. Numbered(s)
    BY <1>1, <1>2 DEF Numbered
  <1>5. ASSUME NEW j \in Keys PROVE One(Now, j) => One(s, j)
    <2>1. CASE j # k
      BY <1>2, <2>1 DEF One
    <2>2. CASE j = k
      <3>1. s.find[k] = f /\ s.tasks[k] = Now.tasks[k]
        BY <1>2
      <3>2. One(Now, k) => One(s, k)
        BY <1>3, <3>1 DEF One
      <3> QED BY <2>2, <3>2
    <2> QED BY <2>1, <2>2
  <1>6. ASSUME NEW j \in Keys PROVE Closes(Now.find[j]) => Closes(s.find[j])
    <2>1. CASE j # k
      BY <1>2, <2>1 DEF Closes
    <2>2. CASE j = k
      <3>1. s.find[k] = f
        BY <1>2
      <3> QED BY <1>3, <2>2, <3>1 DEF Closes
    <2> QED BY <2>1, <2>2
  <1> QED BY <1>2, <1>4, <1>5, <1>6 DEF Gentle, s

LEMMA LiveFinding ==
  ASSUME FindingsBounds, Typed, NEW k \in Keys, Now.find[k] # None
  PROVE  Now.find[k] \in Finding /\ TRUE \in BOOLEAN /\ "dismissed" \in Statuses
  BY NowIs DEF State, Statuses

(* What is rewritten in the state by every edit but a promotion.           *)
LEMMA EditsAreGentle ==
  ASSUME FindingsBounds, Typed, Edit, \A k \in Keys : ~Promote(k)
  PROVE  /\ \E s : Gentle(s) /\ Write(s)
         /\ UNCHANGED <<auto, art, copy, stale, purged>>
  <1>1. ASSUME NEW k \in Keys, Patch(k) PROVE \E s : Gentle(s) /\ Write(s)
    <2> DEFINE f == [Now.find[k] EXCEPT !.touched = TRUE]
    <2>1. Now.find[k] \in Finding /\ f \in Finding
      BY <1>1, LiveFinding, FindingUpdates DEF Patch, Live
    <2>2. f.task = Now.find[k].task /\ f.status = Now.find[k].status
      BY <2>1 DEF Finding
    <2>3. [Now EXCEPT !.find[k].touched = TRUE] = [Now EXCEPT !.find[k] = f]
      BY NowIs DEF State
    <2>4. Gentle([Now EXCEPT !.find[k] = f])
      BY <1>1, <2>1, <2>2, GentleFind DEF Patch, Live
    <2> QED BY <1>1, <2>3, <2>4 DEF Patch
  <1>2. ASSUME NEW k \in Keys, Dismiss(k) \/ Restore(k) PROVE \E s : Gentle(s) /\ Write(s)
    <2> DEFINE f == [Now.find[k] EXCEPT !.status = "dismissed", !.touched = TRUE]
    <2>1. Now.find[k] \in Finding /\ f \in Finding
      BY <1>2, LiveFinding, FindingUpdates DEF Dismiss, Restore, Live
    <2>2. f.task = Now.find[k].task /\ f.status \in Closed
      BY <2>1 DEF Finding, Closed
    <2>3. [Now EXCEPT !.find[k].status = "dismissed", !.find[k].touched = TRUE]
            = [Now EXCEPT !.find[k] = f]
      BY NowIs DEF State
    <2>4. Gentle([Now EXCEPT !.find[k] = f])
      BY <1>2, <2>1, <2>2, GentleFind DEF Dismiss, Restore, Live
    <2> QED BY <1>2, <2>3, <2>4 DEF Dismiss, Restore
  <1>3. ASSUME NEW k \in Keys, DeleteTask(k) PROVE \E s : Gentle(s) /\ Write(s)
    <2>1. PICK n \in Now.tasks[k] : Write([Now EXCEPT !.tasks[k] = @ \ {n}])
      BY <1>3 DEF DeleteTask
    <2> DEFINE s == [Now EXCEPT !.tasks[k] = @ \ {n}]
    <2>2. Now \in State /\ Numbered(Now)
      BY NowIs
    <2>3. /\ s \in State /\ s.made = Now.made /\ s.find = Now.find
          /\ \A j \in Keys : s.tasks[j] \subseteq Now.tasks[j]
      BY <2>2 DEF State
    <2> HIDE DEF s
    <2>4. Gentle(s)
      BY <2>2, <2>3 DEF Gentle, Numbered, One
    <2> QED BY <2>1, <2>4 DEF s
  <1>4. ASSUME NEW c \in Cands, PromoteCandidate(c) PROVE \E s : Gentle(s) /\ Write(s)
    <2> DEFINE f == Upsert(Now.find[c])
    <2>1. c \in Keys /\ c \notin Items
      BY DEF Keys, FindingsBounds
    <2>2. Now.find[c] \in Finding \cup {None}
      BY <2>1, NowIs DEF State
    <2>3. [Now EXCEPT !.find[c] = Upsert(@)] = [Now EXCEPT !.find[c] = f]
      BY <2>1, NowIs DEF State
    <2>4. f \in Finding /\ (Now.find[c] = None => f.task = 0)
          /\ (Now.find[c] # None => /\ f.task = Now.find[c].task
                                    /\ Now.find[c].status \in Closed <=> f.status \in Closed)
      BY <2>2, UpsertKeeps, OpenAndPromoted
    <2> HIDE DEF f
    <2>5. Gentle([Now EXCEPT !.find[c] = f])
      BY <2>1, <2>4, GentleFind
    <2> QED BY <1>4, <2>3, <2>5 DEF PromoteCandidate
  <1>5. Write(Now) => \E s : Gentle(s) /\ Write(s)
    BY GentleNow
  <1>6. UNCHANGED <<auto, art, copy, stale, purged>>
    BY DEF Edit, Patch, Promote, Dismiss, Restore, DeleteTask, Kept, Import,
       ReplaceCandidates, DropCandidate, EditCandidate, PromoteCandidate, KeptButSession
  <1> QED BY <1>1, <1>2, <1>3, <1>4, <1>5, <1>6
          DEF Edit, Import, ReplaceCandidates, DropCandidate, EditCandidate

(* A promotion makes a planned item only when there is none.               *)
LEMMA PromoteStep ==
  ASSUME FindingsBounds, Typed, NEW k \in Keys, Promote(k)
  PROVE  /\ \E s \in State :
              /\ Write(s) /\ Numbered(s)
              /\ \A j \in Keys :
                   /\ Now.made[j] <= s.made[j]
                   /\ One(Now, j) => One(s, j)
                   /\ j # k /\ Closes(Now.find[j]) =>
                        Closes(s.find[j]) /\ s.made[j] = Now.made[j]
         /\ UNCHANGED <<auto, art, copy, stale, purged>>
  <1>1. Now \in State /\ Numbered(Now) /\ \A j \in Keys : Now.made[j] \in Nat
    BY NowIs DEF State
  <1>2. CASE HasTask(Now, k)
    BY <1>1, <1>2 DEF Promote, Kept
  <1>3. CASE ~HasTask(Now, k)
    <2> DEFINE n == Now.made[k] + 1
               s == PromoteIn(Now, k)
    <2>1. Now.find[k] \in Finding /\ Now.find[k] # None /\ n \in Nat \ {0}
      BY <1>1, LiveFinding DEF Promote, Live
    <2>2. /\ Promoted(Now.find[k], n) \in Finding /\ Promoted(Now.find[k], n) # None
          /\ Promoted(Now.find[k], n).task = n
      BY <2>1, OpenAndPromoted
    <2>3. /\ s \in State
          /\ \A j \in Keys :
               /\ s.find[j] = IF j = k THEN Promoted(Now.find[k], n) ELSE Now.find[j]
               /\ s.tasks[j] = IF j = k THEN Now.tasks[k] \cup {n} ELSE Now.tasks[j]
               /\ s.made[j] = IF j = k THEN n ELSE Now.made[j]
      BY <1>1, <2>1, <2>2 DEF PromoteIn, State
    <2> HIDE DEF s
    <2>4. Numbered(s)
      <3> SUFFICES ASSUME NEW j \in Keys PROVE s.tasks[j] \subseteq 1..s.made[j]
        BY DEF Numbered
      <3>1. Now.tasks[j] \subseteq 1..Now.made[j]
        BY <1>1 DEF Numbered
      <3> QED BY <1>1, <2>3, <3>1
    <2>5. One(Now, k) => One(s, k)
      BY <1>3, <2>1, <2>2, <2>3 DEF One, HasTask
    <2>6. \A j \in Keys : One(Now, j) => One(s, j)
      BY <2>3, <2>5 DEF One
    <2>7. Write(s)
      BY <1>3 DEF Promote, s
    <2> QED BY <1>1, <2>3, <2>4, <2>6, <2>7 DEF Promote, Kept
  <1> QED BY <1>2, <1>3

(* What every write leaves on the disk.                                    *)
LEMMA WriteStep ==
  ASSUME FindingsBounds, Typed, NEW s \in State, Numbered(s), UNCHANGED auto,
         disk' = Normal(s), \A k \in Keys : disk'.made[k] <= Tasks,
         UNCHANGED art,
         \/ copy' = None
         \/ copy' = copy /\ \A k \in Keys : disk.made[k] <= s.made[k],
         \A k \in Keys \ purged' : stale' \/ One(s, k)
  PROVE  IInv'
  <1>1. /\ disk' \in State /\ Numbered(disk')
        /\ \A k \in Keys : s.made[k] <= disk'.made[k]
    BY NormalChange, NormalKeepsNumbers DEF Typed
  <1>2. ASSUME NEW k \in Keys \ purged' PROVE stale' \/ One(disk', k)
    BY NormalKeepsOne DEF Typed
  <1>3. copy' # None => \A k \in Keys : copy'.state.made[k] <= disk'.made[k]
    <2> SUFFICES ASSUME copy' # None, NEW k \in Keys
                 PROVE  copy'.state.made[k] <= disk'.made[k]
      OBVIOUS
    <2>1. /\ copy.state.made[k] <= disk.made[k] /\ disk.made[k] <= s.made[k]
          /\ s.made[k] <= disk'.made[k] /\ copy' = copy
      BY <1>1 DEF Typed
    <2>2. {copy.state.made[k], disk.made[k], s.made[k], disk'.made[k]} \subseteq Nat
      BY <1>1, <2>1 DEF Typed, State
    <2> QED BY <2>1, <2>2
  <1>4. Numbered(disk)' /\ (copy' # None => Numbered(copy'.state))
    BY <1>1 DEF Numbered, Typed
  <1>5. Typed'
    BY <1>1, <1>3, <1>4 DEF Typed
  <1>6. \A k \in Keys \ purged' : stale' \/ One(disk, k)'
    BY <1>2 DEF One
  <1> QED BY <1>5, <1>6 DEF IInv

LEMMA Initially == FindingsBounds /\ Init => IInv
  <1> SUFFICES ASSUME FindingsBounds, Init PROVE IInv
    OBVIOUS
  <1>1. disk \in State /\ Numbered(disk)
    BY DEF Init, State, Numbered
  <1>2. art \in Artifacts
    BY DEF Init, Artifacts
  <1>3. \A k \in Keys : disk.made[k] <= Tasks
    BY DEF Init, FindingsBounds
  <1> QED BY <1>1, <1>2, <1>3 DEF Init, IInv, Typed, One

LEMMA ReportStep == IInv /\ Report => IInv'
  BY DEF Report, IInv, Typed, One, Numbered

LEMMA EditStep ==
  ASSUME FindingsBounds, IInv, Edit
  PROVE  IInv'
  <1>1. Typed
    BY DEF IInv
  <1>2. CASE \E k \in Keys : Promote(k)
    <2>1. PICK k \in Keys : Promote(k)
      BY <1>2
    <2>2. PICK s \in State :
            /\ Write(s) /\ Numbered(s)
            /\ \A j \in Keys : Now.made[j] <= s.made[j] /\ (One(Now, j) => One(s, j))
      BY <1>1, <2>1, PromoteStep
    <2>3. UNCHANGED <<auto, art, copy, stale, purged>>
      BY <1>1, <2>1, PromoteStep
    <2>4. ASSUME NEW j \in Keys PROVE disk.made[j] <= s.made[j]
      <3>1. disk.made[j] <= Now.made[j] /\ Now.made[j] <= s.made[j]
        BY <1>1, <2>2, NowIs
      <3>2. {disk.made[j], Now.made[j], s.made[j]} \subseteq Nat
        BY <1>1, NowIs DEF Typed, State
      <3> QED BY <3>1, <3>2
    <2>5. \A j \in Keys \ purged' : stale' \/ One(s, j)
      BY <1>1, <2>2, <2>3, NowIs DEF IInv
    <2> QED BY <1>1, <2>2, <2>3, <2>4, <2>5, WriteStep DEF Write
  <1>3. CASE \A k \in Keys : ~Promote(k)
    <2>1. PICK s : Gentle(s) /\ Write(s)
      BY <1>1, <1>3, EditsAreGentle
    <2>2. UNCHANGED <<auto, art, copy, stale, purged>>
      BY <1>1, <1>3, EditsAreGentle
    <2>3. \A j \in Keys : disk.made[j] <= s.made[j]
      BY <1>1, <2>1, NowIs DEF Gentle
    <2>4. \A j \in Keys \ purged' : stale' \/ One(s, j)
      BY <1>1, <2>1, <2>2, NowIs DEF IInv, Gentle
    <2> QED BY <1>1, <2>1, <2>2, <2>3, <2>4, WriteStep DEF Write, Gentle
  <1> QED BY <1>2, <1>3

LEMMA ReadStep ==
  ASSUME FindingsBounds, IInv, Read
  PROVE  IInv'
  <1>1. Typed /\ disk \in State /\ Numbered(disk) /\ \A k \in Keys : disk.made[k] \in Nat
    BY DEF IInv, Typed, State
  <1> QED BY <1>1, WriteStep DEF Read, Kept, Now, IInv

LEMMA TakeStep ==
  ASSUME FindingsBounds, IInv, NEW kind, Take(kind)
  PROVE  IInv'
  <1>1. Typed /\ disk \in State /\ Numbered(disk)
    BY DEF IInv, Typed
  <1>2. Now \in State /\ Numbered(Now) /\ \A k \in Keys : Now.made[k] \in Nat
    BY <1>1, NowIs DEF State
  <1>3. ASSUME NEW k \in Keys \ purged PROVE stale \/ One(Now, k)
    BY <1>1, NowIs DEF IInv
  <1>4. Typed'
    BY <1>1, <1>2 DEF Take, Typed, Numbered
  <1> QED BY <1>3, <1>4 DEF Take, IInv, One

(* Retention: what it purges is remembered, the rest has what it had.      *)
RetainWrites(s, S) ==
  LET gone == {k \in S : copy.state.find[k].status = "deleted"} IN
  /\ S # {} /\ purged' = purged \cup gone
  /\ s = [copy.state EXCEPT !.find = [k \in Keys |->
            IF k \in gone THEN None
            ELSE IF k \in S THEN [copy.state.find[k] EXCEPT !.status = "deleted", !.touched = TRUE]
            ELSE copy.state.find[k]]]
  /\ Write(s)

LEMMA RetainState ==
  ASSUME FindingsBounds, Typed, copy # None, NEW s,
         NEW S \in SUBSET {k \in Keys : Closes(copy.state.find[k])}, RetainWrites(s, S)
  PROVE  /\ s \in State /\ Numbered(s) /\ s.made = copy.state.made
         /\ \A k \in Keys \ purged' : One(copy.state, k) => One(s, k)
         /\ \A k \in Keys \ purged' : Closes(copy.state.find[k]) => Closes(s.find[k])
  <1> DEFINE gone == {k \in S : copy.state.find[k].status = "deleted"}
             d(k) == [copy.state.find[k] EXCEPT !.status = "deleted", !.touched = TRUE]
  <1>1. copy.state \in State /\ Numbered(copy.state)
    BY DEF Typed
  <1>2. ASSUME NEW k \in S
        PROVE  /\ d(k) \in Finding /\ d(k) # None /\ d(k).task = copy.state.find[k].task
               /\ d(k).status \in Closed /\ copy.state.find[k] # None
    <2>1. copy.state.find[k] \in Finding /\ copy.state.find[k] # None /\ k \in Keys
      BY <1>1 DEF Closes, State
    <2>2. "deleted" \in Statuses /\ TRUE \in BOOLEAN
      BY DEF Statuses
    <2>3. d(k) \in Finding
      BY <2>1, <2>2, FindingUpdates
    <2>4. d(k).task = copy.state.find[k].task /\ d(k).status \in Closed
      BY <2>1 DEF Finding, Closed
    <2> QED BY <2>1, <2>3, <2>4, FindingFields
  <1>3. /\ s.made = copy.state.made /\ s.tasks = copy.state.tasks
        /\ s = [find |-> s.find, tasks |-> s.tasks, made |-> s.made]
        /\ s.find = [k \in Keys |-> IF k \in gone THEN None ELSE IF k \in S THEN d(k)
                                   ELSE copy.state.find[k]]
    BY <1>1 DEF RetainWrites, State
  <1>4. purged' = purged \cup gone
    BY DEF RetainWrites
  <1> HIDE DEF gone, d
  <1>5. s.find \in [Keys -> Finding \cup {None}]
    BY <1>1, <1>2, <1>3 DEF State
  <1>6. s \in State
    BY <1>1, <1>3, <1>5 DEF State
  <1>7. Numbered(s)
    BY <1>1, <1>3 DEF Numbered
  <1>8. ASSUME NEW k \in Keys \ purged'
        PROVE  /\ One(copy.state, k) => One(s, k)
               /\ Closes(copy.state.find[k]) => Closes(s.find[k])
    <2>1. k \notin gone
      BY <1>4
    <2>2. CASE k \in S
      BY <1>2, <1>3, <2>1, <2>2 DEF One, Closes
    <2>3. CASE k \notin S
      BY <1>3, <2>1, <2>3 DEF One, Closes
    <2> QED BY <2>2, <2>3
  <1> QED BY <1>3, <1>6, <1>7, <1>8

LEMMA RetainPicks ==
  ASSUME Retain
  PROVE  \E S \in SUBSET {k \in Keys : Closes(copy.state.find[k])} : \E s : RetainWrites(s, S)
  BY DEF Retain, RetainWrites, Closes

LEMMA RetainStep ==
  ASSUME FindingsBounds, IInv, Retain
  PROVE  IInv'
  <1>1. Typed /\ copy # None /\ copy' = None /\ UNCHANGED <<auto, art>>
    BY DEF IInv, Retain
  <1>2. PICK S \in SUBSET {k \in Keys : Closes(copy.state.find[k])} : \E s : RetainWrites(s, S)
    BY RetainPicks
  <1>3. PICK s : RetainWrites(s, S)
    BY <1>2
  <1>4. ASSUME NEW k \in Keys \ purged' PROVE stale' \/ One(s, k)
    <2>1. k \in Keys \ purged
      BY <1>3 DEF RetainWrites
    <2>2. stale' = (stale \/ disk # copy.state)
      BY DEF Retain
    <2>3. stale \/ One(disk, k)
      BY <2>1 DEF IInv
    <2>4. One(copy.state, k) => One(s, k)
      BY <1>1, <1>3, RetainState
    <2> QED BY <2>2, <2>3, <2>4
  <1>5. s \in State /\ Numbered(s) /\ Write(s)
    BY <1>1, <1>3, RetainState DEF RetainWrites
  <1> QED BY <1>1, <1>4, <1>5, WriteStep DEF Write

(* An issue sync: what its copy lacks comes from the newest state.         *)
LEMMA SyncStep ==
  ASSUME FindingsBounds, IInv, SyncWrites
  PROVE  /\ IInv'
         /\ \A k \in Keys : ~stale' /\ Closes(disk.find[k]) =>
               Closes(disk'.find[k]) /\ disk'.made[k] = disk.made[k]
  <1> DEFINE old == copy.state
             s == [find  |-> [k \in Keys |-> IF old.find[k] # None THEN old.find[k]
                                            ELSE Now.find[k]],
                   tasks |-> [k \in Keys |-> old.tasks[k] \cup Now.tasks[k]],
                   made  |-> Now.made]
  <1>1. /\ Typed /\ copy # None /\ copy' = None /\ UNCHANGED <<auto, art, purged>>
        /\ Write(s) /\ stale' = (stale \/ disk # old)
    BY DEF IInv, SyncWrites
  <1>2. /\ old \in State /\ Now \in State /\ disk \in State
        /\ \A k \in Keys :
             /\ old.tasks[k] \subseteq 1..old.made[k] /\ Now.tasks[k] \subseteq 1..Now.made[k]
             /\ old.made[k] <= disk.made[k] /\ disk.made[k] <= Now.made[k]
             /\ {old.made[k], disk.made[k], Now.made[k]} \subseteq Nat
    BY <1>1, NowIs DEF Typed, State, Numbered
  <1>3. /\ s \in State /\ s.made = Now.made
        /\ \A k \in Keys :
             /\ s.tasks[k] = old.tasks[k] \cup Now.tasks[k]
             /\ s.find[k] = IF old.find[k] # None THEN old.find[k] ELSE Now.find[k]
    BY <1>2 DEF State
  <1> HIDE DEF s, old
  <1>4. Numbered(s)
    BY <1>2, <1>3 DEF Numbered
  <1>5. ASSUME NEW k \in Keys \ purged' PROVE stale' \/ One(s, k)
    <2> SUFFICES ASSUME ~stale' PROVE One(s, k)
      OBVIOUS
    <2>1. old = disk /\ One(disk, k) /\ One(Now, k)
      BY <1>1, NowIs DEF IInv
    <2>2. CASE disk.find[k] = None
      BY <1>3, <2>1, <2>2 DEF One
    <2>3. CASE disk.find[k] # None
      <3>1. Change(disk, Now, k)
        BY <1>1, <1>2, NormalChange DEF Now, Typed
      <3>2. ~Gets(disk, Now, k)
        BY <2>1, <2>3 DEF Gets, One
      <3>3. Now.tasks[k] = disk.tasks[k]
        BY <2>3, <3>1, <3>2 DEF Change, Same, New, Alone
      <3>4. s.tasks[k] = disk.tasks[k] /\ s.find[k] = disk.find[k]
        BY <1>3, <2>1, <2>3, <3>3
      <3> QED BY <2>1, <3>4 DEF One
    <2> QED BY <2>2, <2>3
  <1>6. ASSUME NEW k \in Keys, ~stale', Closes(disk.find[k])
        PROVE  Closes(disk'.find[k]) /\ disk'.made[k] = disk.made[k]
    <2>1. s.find[k] = disk.find[k] /\ s.made[k] = disk.made[k]
      BY <1>1, <1>3, <1>6, NowIs DEF Closes
    <2>2. art \in Artifacts /\ disk' = Normal(s)
      BY <1>1 DEF Typed, Write
    <2> QED BY <1>3, <1>6, <2>1, <2>2, NormalKeepsClosed
  <1> QED BY <1>1, <1>3, <1>4, <1>5, <1>6, WriteStep DEF Write

-----------------------------------------------------------------------------
(* The theorems                                                            *)
LEMMA Inductive == FindingsBounds /\ IInv /\ [Next]_vars => IInv'
  <1>1. IInv /\ UNCHANGED vars => IInv'
    BY DEF vars, IInv, Typed, One, Numbered
  <1> QED BY <1>1, ReportStep, EditStep, ReadStep, TakeStep, RetainStep, SyncStep DEF Next, Keep

LEMMA Invariant ==
  ASSUME FindingsBounds
  PROVE  Spec => []IInv
  BY Initially, Inductive, PTL DEF Spec

(* The findings and their planned items have their types, and the planned  *)
(* items of a finding are numbered (normalizeStartWorkStateFindings).      *)
THEOREM TypeCorrect ==
  ASSUME FindingsBounds
  PROVE  Spec => []TypeOK
  <1>1. IInv => TypeOK
    BY DEF IInv, Typed, TypeOK, State, Numbered
  <1> QED BY <1>1, Invariant, PTL

(* However often findings are reported, promoted, restored, imported, read *)
(* and synchronized, one has one planned item at a time, unless an old     *)
(* copy was written or it was purged (promoteStartWorkFinding).            *)
THEOREM OnePlannedItem ==
  ASSUME FindingsBounds
  PROVE  Spec => []OneTaskEach
  <1>1. IInv => OneTaskEach
    <2> SUFFICES ASSUME IInv, NEW k \in Keys \ purged, ~stale
                 PROVE  Cardinality(disk.tasks[k]) <= 1
      BY DEF OneTaskEach
    <2>1. \E n : disk.tasks[k] \subseteq {n}
      BY DEF IInv, One
    <2>2. disk.tasks[k] = {} \/ \E n : disk.tasks[k] = {n}
      BY <2>1
    <2>3. Cardinality(disk.tasks[k]) \in {0, 1}
      BY <2>2, FS_EmptySet, FS_Singleton
    <2> QED BY <2>3
  <1> QED BY <1>1, Invariant, PTL

(* What the user has dismissed is neither opened again nor given a planned *)
(* item by reports, syncs, retention or imports, unless an old copy was    *)
(* written or it was purged (upsertStartWorkFinding, promote).             *)
THEOREM DismissedStaysDismissed ==
  ASSUME FindingsBounds
  PROVE  Spec => DismissalStands
  <1> DEFINE Stands(k) ==
        disk.find[k] # None /\ disk.find[k].status \in Closed =>
          \/ /\ disk'.find[k] # None /\ disk'.find[k].status \in Closed
             /\ disk'.made[k] = disk.made[k]
          \/ Promote(k) \/ stale' \/ k \in purged'
  <1>1. ASSUME IInv, Next, NEW k \in Keys PROVE Stands(k)
    <2> SUFFICES ASSUME Closes(disk.find[k]), ~Promote(k), ~stale', k \notin purged'
                 PROVE  Closes(disk'.find[k]) /\ disk'.made[k] = disk.made[k]
      BY DEF Closes
    <2>1. Typed /\ disk \in State /\ art \in Artifacts
      BY <1>1 DEF IInv, Typed
    <2>2. Closes(Now.find[k]) /\ Now.made[k] = disk.made[k]
      BY <2>1, NowIs
    <2>3. CASE Report \/ Read \/ \E kind \in {"retention", "sync"} : Take(kind)
      BY <2>2, <2>3 DEF Report, Read, Take
    <2>4. CASE SyncWrites
      BY <1>1, <2>4, SyncStep
    <2>5. CASE Retain
      <3>1. copy # None /\ copy.state = disk
        BY <2>5 DEF Retain
      <3>2. PICK S \in SUBSET {j \in Keys : Closes(copy.state.find[j])} : \E s : RetainWrites(s, S)
        BY <2>5, RetainPicks
      <3>3. PICK s : RetainWrites(s, S)
        BY <3>2
      <3>4. s \in State /\ Closes(s.find[k]) /\ s.made[k] = disk.made[k]
        BY <2>1, <3>1, <3>3, RetainState
      <3> QED BY <2>1, <3>3, <3>4, NormalKeepsClosed DEF RetainWrites, Write
    <2>6. CASE Edit /\ \A j \in Keys : ~Promote(j)
      <3>1. PICK s : Gentle(s) /\ Write(s)
        BY <2>1, <2>6, EditsAreGentle
      <3>2. s \in State /\ Closes(s.find[k]) /\ s.made[k] = disk.made[k]
        BY <2>2, <3>1 DEF Gentle
      <3> QED BY <2>1, <3>1, <3>2, NormalKeepsClosed DEF Write
    <2>7. ASSUME NEW j \in Keys, Promote(j)
          PROVE  Closes(disk'.find[k]) /\ disk'.made[k] = disk.made[k]
      <3>1. PICK s \in State : Write(s) /\ Closes(s.find[k]) /\ s.made[k] = disk.made[k]
        BY <2>1, <2>2, <2>7, PromoteStep
      <3> QED BY <2>1, <3>1, NormalKeepsClosed DEF Write
    <2> QED BY <1>1, <2>3, <2>4, <2>5, <2>6, <2>7 DEF Next, Keep
  <1>2. IInv /\ [Next]_vars => [\A k \in Keys : Stands(k)]_vars
    BY <1>1
  <1> QED BY <1>2, Invariant, PTL DEF Spec, DismissalStands

-----------------------------------------------------------------------------
(* Reading over and over again: after the second reading there is nothing  *)
(* left to change of what is reported, after the third of what is missing. *)
Reports(s) == AutoPromoted(Upserted(s))
Due(f) == AutoPromotes(Upsert(f))
Told(f, n, k) ==
  IF Due(f) THEN [Promoted(Upsert(f), n + 1) EXCEPT !.touched = k \notin art.split] ELSE Upsert(f)

LEMMA UpsertTwice ==
  ASSUME FindingsBounds, NEW f \in Finding \cup {None}
  PROVE  /\ Upsert(Upsert(f)) = Upsert(f) /\ Upsert(f).status # "resolved"
         /\ Due(Upsert(f)) <=> Due(f)
  <1>1. Upsert(f) \in Finding /\ Upsert(f) # None
    BY UpsertKeeps, FindingFields
  <1>2. CASE f # None /\ f.status = "deleted"
    BY <1>2 DEF Upsert
  <1>3. CASE f = None \/ f.status # "deleted"
    <2>1. Upsert(f).touched = FALSE /\ Upsert(f).status \notin {"deleted", "resolved"}
      <3>1. CASE f = None
        BY <3>1 DEF Upsert, Open
      <3>2. CASE f # None
        <4>1. f \in Finding
          BY <3>2
        <4> QED
          BY <1>3, <3>2, <4>1 DEF Upsert, Finding
      <3> QED
        BY <3>1, <3>2
    <2>2. Upsert(Upsert(f)) = Upsert(f)
      <3>1. ASSUME NEW g \in Finding, g # None, g.touched = FALSE,
                   g.status \notin {"deleted", "resolved"}
            PROVE  Upsert(g) = g
        <4>1. Upsert(g) = [g EXCEPT !.touched = FALSE, !.status = g.status]
          BY <3>1 DEF Upsert, Finding
        <4> QED
          BY <3>1, <4>1 DEF Finding
      <3> QED
        BY <1>1, <2>1, <3>1
    <2> QED
      BY <2>1, <2>2 DEF Due
  <1>5. Upsert(Upsert(f)) = Upsert(f) /\ Upsert(f).status # "resolved"
    BY <1>2, <1>3
  <1> QED
    BY <1>5 DEF Due

LEMMA ToldIs ==
  ASSUME FindingsBounds, NEW f \in Finding \cup {None}, NEW n \in Nat, NEW k
  PROVE  /\ Told(f, n, k) \in Finding /\ Told(f, n, k) # None
         /\ Told(f, n, k).status # "resolved" /\ ~Due(Told(f, n, k))
  <1>1. Upsert(f) \in Finding /\ Upsert(f) # None /\ Upsert(f).status # "resolved"
    BY UpsertKeeps, UpsertTwice, FindingFields
  <1>2. CASE Due(f)
    <2> DEFINE p == Promoted(Upsert(f), n + 1)
               g == [p EXCEPT !.touched = k \notin art.split]
    <2>0. p \in Finding /\ p.task = n + 1 /\ p.status = "promoted"
      <3>1. p \in Finding /\ p.task = n + 1
        BY <1>1, OpenAndPromoted
      <3> QED BY <1>1, <3>1 DEF Promoted, Finding
    <2> HIDE DEF p
    <2>1. g \in Finding /\ g.task = n + 1 /\ g.status = "promoted"
      BY <2>0, BoolTouched
    <2>2. g # None
      BY <2>1, FindingFields
    <2> HIDE DEF g
    <2>3. Upsert(g).task # 0
      BY <2>1, <2>2, UpsertKeeps
    <2>4. Told(f, n, k) = g
      BY <1>2 DEF Told, g, p
    <2> QED
      BY <2>1, <2>2, <2>3, <2>4 DEF Due, AutoPromotes
  <1>3. CASE ~Due(f)
    BY <1>1, <1>3, UpsertTwice DEF Told
  <1> QED
    BY <1>2, <1>3

LEMMA ReportsIs ==
  ASSUME FindingsBounds, art \in Artifacts, NEW s \in State
  PROVE  /\ Reports(s) \in State
         /\ \A k \in Keys :
              /\ Reports(s).find[k] = IF k \in art.items
                                      THEN Told(s.find[k], s.made[k], k)
                                      ELSE s.find[k]
              /\ k \notin art.items \/ ~Due(s.find[k]) =>
                   Reports(s).tasks[k] = s.tasks[k] /\ Reports(s).made[k] = s.made[k]
  <1> DEFINE u == Upserted(s)
  <1>1. art.items \subseteq Keys
    BY DEF Artifacts, Keys
  <1>2. /\ u.tasks = s.tasks /\ u.made = s.made
        /\ \A k \in Keys : u.find[k] = IF k \in art.items THEN Upsert(s.find[k]) ELSE s.find[k]
    BY DEF Upserted, State
  <1>3. \A k \in Keys : k \in {j \in art.items : AutoPromotes(u.find[j])}
                        <=> k \in art.items /\ Due(s.find[k])
    BY <1>2 DEF Due
  <1> HIDE DEF u
  <1>4. \A k \in Keys :
          LET due == k \in art.items /\ Due(s.find[k]) IN
          /\ AutoPromoted(u).find[k] =
               IF due THEN [Promoted(u.find[k], s.made[k] + 1) EXCEPT !.touched = k \notin art.split]
               ELSE u.find[k]
          /\ ~due => AutoPromoted(u).tasks[k] = s.tasks[k] /\ AutoPromoted(u).made[k] = s.made[k]
    BY <1>2, <1>3 DEF AutoPromoted
  <1>5. Reports(s) = AutoPromoted(u)
    BY DEF Reports, u
  <1>6. Reports(s) \in State
    BY SyncedChange DEF Reports
  <1> QED
    BY <1>2, <1>4, <1>5, <1>6 DEF Told

LEMMA SameState ==
  ASSUME NEW s \in State, NEW t \in State,
         \A k \in Keys : s.find[k] = t.find[k] /\ s.tasks[k] = t.tasks[k] /\ s.made[k] = t.made[k]
  PROVE  s = t
  <1>1. s.find = t.find /\ s.tasks = t.tasks /\ s.made = t.made
    BY DEF State
  <1> QED
    BY <1>1 DEF State

LEMMA ReportsTwice ==
  ASSUME FindingsBounds, art \in Artifacts, NEW s \in State
  PROVE  Reports(Reports(Reports(s))) = Reports(Reports(s))
  <1> DEFINE t == Reports(s)
             u == Reports(t)
             v == Reports(u)
  <1>1. t \in State /\ u \in State /\ v \in State
    BY ReportsIs
  <1>2. \A k \in Keys :
          /\ t.find[k] = IF k \in art.items THEN Told(s.find[k], s.made[k], k)
                         ELSE s.find[k]
          /\ u.find[k] = IF k \in art.items THEN Told(t.find[k], t.made[k], k)
                         ELSE t.find[k]
          /\ v.find[k] = IF k \in art.items THEN Told(u.find[k], u.made[k], k)
                         ELSE u.find[k]
          /\ k \notin art.items \/ ~Due(u.find[k]) =>
                   v.tasks[k] = u.tasks[k] /\ v.made[k] = u.made[k]
    BY <1>1, ReportsIs
  <1>3. \A k \in Keys : /\ s.find[k] \in Finding \cup {None} /\ s.made[k] \in Nat
                        /\ t.find[k] \in Finding \cup {None} /\ t.made[k] \in Nat
                        /\ u.find[k] \in Finding \cup {None} /\ u.made[k] \in Nat
    BY <1>1 DEF State
  <1> HIDE DEF t, u, v
  <1>4. ASSUME NEW k \in Keys, k \in art.items
        PROVE  /\ v.find[k] = u.find[k] /\ ~Due(u.find[k])
    <2>0. /\ t.find[k] = Told(s.find[k], s.made[k], k) /\ s.find[k] \in Finding \cup {None}
          /\ u.find[k] = Told(t.find[k], t.made[k], k) /\ t.find[k] \in Finding \cup {None}
          /\ s.made[k] \in Nat /\ t.made[k] \in Nat
      BY <1>2, <1>3, <1>4
    <2>1. ~Due(t.find[k]) /\ ~Due(u.find[k])
      BY <2>0, ToldIs
    <2>2. u.find[k] = Upsert(t.find[k]) /\ v.find[k] = Upsert(u.find[k])
      BY <1>2, <1>4, <2>1 DEF Told
    <2> QED
      BY <1>3, <2>1, <2>2, UpsertTwice
  <1>5. \A k \in Keys : v.find[k] = u.find[k] /\ v.tasks[k] = u.tasks[k] /\ v.made[k] = u.made[k]
    BY <1>2, <1>4
  <1>6. v = u
    BY <1>1, <1>5, SameState
  <1> QED
    BY <1>6 DEF t, u, v

(* Once there is nothing to report, one more reading is in line.           *)
LEMMA SettledReads ==
  ASSUME FindingsBounds, art \in Artifacts, art.is = "report", art.split = {},
         NEW s \in State, Reports(s) = s
  PROVE  /\ Normal(s) = Resolve(s) /\ Normal(Normal(s)) = Normal(s) /\ InLine(Normal(s))
         /\ Normal(s) \in State
  <1> DEFINE t == Resolve(s)
  <1>1. Normal(s) = t
    BY DEF Normal, Reports
  <1>2. t \in State /\ art.items \subseteq Items /\ Items \subseteq Keys
    BY ResolveChange DEF Artifacts, Keys
  <1>3. /\ t.tasks = s.tasks /\ t.made = s.made
        /\ \A k \in Keys : t.find[k] = IF Missing(s, k)
                THEN [s.find[k] EXCEPT !.status = "resolved", !.touched = TRUE] ELSE s.find[k]
    BY DEF Resolve, State
  <1> HIDE DEF t
  <1>4. \A k \in Keys : s.find[k] \in Finding \cup {None} /\ s.made[k] \in Nat
    BY DEF State
  <1>5. ASSUME NEW k \in art.items
        PROVE  /\ k \in Keys /\ t.find[k] = s.find[k] /\ ~Due(s.find[k])
               /\ s.find[k] = Told(s.find[k], s.made[k], k)
    <2>1. k \in Keys /\ ~Missing(s, k)
      BY <1>2 DEF Missing
    <2>2. s.find[k] = Told(s.find[k], s.made[k], k)
      BY <1>5, <2>1, ReportsIs
    <2>3. ~Due(Told(s.find[k], s.made[k], k))
      BY <1>4, <2>1, ToldIs
    <2> QED
      BY <1>3, <2>1, <2>2, <2>3
  <1>6. Reports(t) = t
    <2>1. Reports(t) \in State
      BY <1>2, ReportsIs
    <2>2. ASSUME NEW k \in Keys
          PROVE  /\ Reports(t).find[k] = t.find[k]
                 /\ Reports(t).tasks[k] = t.tasks[k] /\ Reports(t).made[k] = t.made[k]
      <3>1. k \notin art.items \/ ~Due(t.find[k])
        BY <1>5
      <3>2. k \in art.items => t.find[k] = Told(t.find[k], t.made[k], k)
        BY <1>3, <1>5
      <3> QED
        BY <1>2, <3>1, <3>2, ReportsIs
    <2> QED
      BY <1>2, <2>1, <2>2, SameState
  <1>7. ASSUME NEW k \in Keys PROVE ~Missing(t, k)
    <2>1. CASE Missing(s, k)
      BY <1>3, <1>4, <2>1 DEF Missing, Finding
    <2>2. CASE ~Missing(s, k)
      BY <1>3, <2>2 DEF Missing
    <2> QED
      BY <2>1, <2>2
  <1>8. Resolve(t) = t
    <2>1. Resolve(t) = [t EXCEPT !.find = [k \in Keys |-> t.find[k]]]
      BY <1>7 DEF Resolve
    <2> QED
      BY <1>2, <2>1 DEF State
  <1>9. Normal(t) = t
    BY <1>6, <1>8 DEF Normal, Reports
  <1>10. InLine(t)
    <2>1. ASSUME NEW k \in art.items PROVE t.find[k] # None /\ t.find[k].status # "resolved"
      BY <1>4, <1>5, ToldIs
    <2>2. ASSUME NEW k \in Items \ art.items
          PROVE  t.find[k] = None \/ t.find[k].status \notin {"open", "promoted"}
      BY <1>2, <1>7 DEF Missing
    <2> QED
      BY <2>1, <2>2 DEF InLine
  <1> QED
    BY <1>1, <1>2, <1>9, <1>10 DEF t

(* With a split item every reading reports again and resolves nothing.     *)
LEMMA SplitReads ==
  ASSUME FindingsBounds, art \in Artifacts, art.is = "report", art.split # {},
         NEW s \in State
  PROVE  /\ InLine(Normal(Normal(Normal(s))))
         /\ Normal(Normal(Normal(Normal(s)))) = Normal(Normal(Normal(s)))
  <1>1. \A q \in State : Reports(q) \in State /\ Normal(q) = Reports(q)
    BY ReportsIs DEF Normal, Reports
  <1>2. Normal(Normal(Normal(s))) = Reports(Reports(Reports(s)))
    BY <1>1
  <1>3. Normal(Normal(Normal(Normal(s)))) = Normal(Normal(Normal(s)))
    BY <1>1, <1>2, ReportsTwice
  <1> DEFINE t == Reports(Reports(s))
  <1>4. t \in State
    BY <1>1
  <1> HIDE DEF t
  <1>5. ASSUME NEW k \in art.items
        PROVE  Reports(t).find[k] # None /\ Reports(t).find[k].status # "resolved"
    <2>1. k \in Keys
      BY DEF Artifacts, Keys
    <2>2. t.find[k] \in Finding \cup {None} /\ t.made[k] \in Nat
      BY <1>4, <2>1 DEF State
    <2>3. Reports(t).find[k] = Told(t.find[k], t.made[k], k)
      BY <1>4, <2>1, ReportsIs
    <2>4. /\ Told(t.find[k], t.made[k], k) # None
          /\ Told(t.find[k], t.made[k], k).status # "resolved"
      BY <2>2, ToldIs
    <2> QED
      BY <2>3, <2>4
  <1>6. InLine(Reports(t))
    BY <1>5 DEF InLine
  <1> QED
    BY <1>2, <1>3, <1>6 DEF t

LEMMA ThreeReads ==
  ASSUME FindingsBounds, art \in Artifacts, art.is = "report", NEW s \in State
  PROVE  /\ InLine(Normal(Normal(Normal(s))))
         /\ Normal(Normal(Normal(Normal(s)))) = Normal(Normal(Normal(s)))
  <1>1. \A q \in State : /\ Reports(q) \in State
                         /\ Reports(q) # q => Normal(q) = Reports(q)
    BY ReportsIs DEF Normal, Reports
  <1>0. CASE art.split # {}
    BY <1>0, SplitReads
  <1>2. CASE art.split = {} /\ Reports(s) = s
    BY <1>2, SettledReads
  <1>3. CASE art.split = {} /\ Reports(s) # s /\ Reports(Reports(s)) = Reports(s)
    <2>1. Normal(s) = Reports(s) /\ Reports(s) \in State
      BY <1>1, <1>3
    <2> QED
      BY <1>3, <2>1, SettledReads
  <1>4. CASE art.split = {} /\ Reports(s) # s /\ Reports(Reports(s)) # Reports(s)
    <2>1. Normal(s) = Reports(s) /\ Reports(s) \in State
      BY <1>1, <1>4
    <2>2. Normal(Normal(s)) = Reports(Reports(s)) /\ Reports(Reports(s)) \in State
      BY <1>1, <1>4, <2>1
    <2> QED
      BY <1>4, <2>2, ReportsTwice, SettledReads
  <1> QED
    BY <1>0, <1>2, <1>3, <1>4

(* Reading three times brings the findings in line with the report,        *)
(* whatever was done to them, and reading on changes nothing more; where   *)
(* two artifacts of the run tell one item differently, what is reported is *)
(* there and stays, and nothing that is missing is resolved                *)
(* (normalizeStartWorkStateFindings).                                      *)
THEOREM ThreeReadsSuffice ==
  ASSUME FindingsBounds
  PROVE  Spec => []ReadsConverge
  <1>1. IInv => ReadsConverge
    BY ThreeReads DEF IInv, Typed, ReadsConverge
  <1> QED
    BY <1>1, Invariant, PTL
==============================================================================
