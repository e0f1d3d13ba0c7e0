---------------------------- MODULE PlannedItems ----------------------------
(***************************************************************************)
(* The planned items of one repository (start_ui.go, start_tasks.go) and   *)
(* the coordinator of `nana start` that launches them (start_scheduler.go, *)
(* start_planned.go): the user asks for items, under a key or for an issue *)
(* on GitHub, edits, launches and deletes them; the coordinator refreshes  *)
(* its state, picks an item, marks it, and runs it in a goroutine, whose   *)
(* result it applies; the process may die at any time.                     *)
(***************************************************************************)
EXTENDS Naturals, FiniteSets

CONSTANTS Ids,      \* 1..n: planned items, in the order of their creation
          Users,    \* requests that may be under way at a time
          None,
          Workers,  \* --parallel
          Events    \* bound on what the users do and on pauses, failures and crashes


VARIABLES
  item,     \* start-state.json: each item's record, None before, Gone after
  req,      \* what a request that waits for the task's plan asks for
  driver,   \* the coordinator: where it is, and the task it has picked
  seen,     \* the planned items it has read before it refreshes, or None
  again,    \* refreshState
  launch,   \* its goroutines: the kind that was launched, and the result
  copy,     \* what an issue sync has read, or None
  stale,    \* history: an old copy was written over a newer item
  asked, made, unsure,  \* history: launches asked for, made, and those made
                        \* that their item could not be told of
  events

vars == <<item, req, driver, seen, again, launch, copy, stale, asked, made, unsure,
          events>>

Gone == [st |-> "gone", kind |-> "none", key |-> FALSE, due |-> FALSE, run |-> FALSE]
Present(i) == item[i] \notin {None, Gone}
Free == {i \in Ids : item[i] = None}
Next1 == CHOOSE i \in Free : \A j \in Free : i <= j

(* key: the request has a key; "tracked" are the items of one issue.  due: *)
(* ScheduleAt has come or is empty.  run: LaunchRunID is set.              *)
New(kind, key, due) == [st |-> "queued", kind |-> kind, key |-> key, due |-> due, run |-> FALSE]
Keyed == {"issue", "local"}
LaunchKinds == Keyed \cup {"tracked", "none"}
States == {"queued", "launching", "launched", "failed"}
Records == [st : States, kind : LaunchKinds, key : BOOLEAN, due : BOOLEAN, run : BOOLEAN]
Launches == [kind : LaunchKinds, res : {"run", "ok", "paused", "lost", "refused"}]

(* Assumed of the constants.                                               *)
PlannedBounds ==
  /\ IsFiniteSet(Ids) /\ Ids = 1..Cardinality(Ids)
  /\ {Workers, Events} \subseteq Nat \ {0} /\ None \notin Records \cup Launches

Off == [pc |-> "off", task |-> 0, kind |-> "none"]
At(pc) == [pc |-> pc, task |-> 0, kind |-> "none"]

Init ==
  /\ item = [i \in Ids |-> None] /\ req = [u \in Users |-> None]
  /\ driver = Off /\ seen = None /\ again = TRUE
  /\ launch = [i \in Ids |-> None] /\ copy = None /\ stale = FALSE
  /\ asked = [i \in Ids |-> 0] /\ made = asked /\ unsure = asked
  /\ events = 0

(***************************************************************************)
(* The users.  All requests with a key have the same one.                  *)
(***************************************************************************)
Holders == {i \in Ids : Present(i) /\ item[i].key}
Editable(i) == Present(i) /\ item[i].st \in {"queued", "failed"}
Happens == events < Events /\ events' = events + 1
Rest == UNCHANGED <<driver, seen, again, launch, copy, stale, made, unsure>>
Counted(i) == asked' = [asked EXCEPT ![i] = @ + 1]
(* What the user asks of a failed item is a new launch.                    *)
Reasked(i) == IF item[i].st = "failed" THEN Counted(i) ELSE UNCHANGED asked

(* createStartUITask: a replay is answered, else the plan is inferred.     *)
Ask(u) ==
  /\ Happens /\ req[u] = None /\ Holders = {}
  /\ \E kind \in Keyed : req' = [req EXCEPT ![u] = kind]
  /\ UNCHANGED <<item, asked>> /\ Rest

(* Mutant: the key is not looked up again.                                 *)
CreateBlind(u) ==
  /\ req[u] # None /\ req' = [req EXCEPT ![u] = None] /\ Free # {}
  /\ \E due \in BOOLEAN : item' = [item EXCEPT ![Next1] = New(req[u], TRUE, due)]
  /\ Counted(Next1) /\ UNCHANGED events /\ Rest

(* createStartUIPlannedItem.                                               *)
Create(u) ==
  /\ req[u] # None /\ req' = [req EXCEPT ![u] = None]
  /\ \/ Holders # {} /\ UNCHANGED <<item, asked>>
     \/ /\ Holders = {} /\ Free # {} /\ Counted(Next1)
        /\ \E due \in BOOLEAN : item' = [item EXCEPT ![Next1] = New(req[u], TRUE, due)]
  /\ UNCHANGED events /\ Rest

Requeued(r, due) == [r EXCEPT !.st = "queued", !.run = FALSE, !.due = due]

(* upsertStartUITrackedIssuePlannedItem.                                   *)
OfIssue == {i \in Ids : Editable(i) /\ item[i].kind = "tracked"}
Track ==
  /\ Happens
  /\ \E due \in BOOLEAN :
       \/ \E i \in OfIssue : item' = [item EXCEPT ![i] = Requeued(@, due)] /\ Reasked(i)
       \/ /\ OfIssue = {} /\ Free # {} /\ Counted(Next1)
          /\ item' = [item EXCEPT ![Next1] = New("tracked", FALSE, due)]
  /\ UNCHANGED req /\ Rest

Patch(i) ==
  /\ Happens /\ Editable(i) /\ Reasked(i)
  /\ \E due \in BOOLEAN :
       item' = [item EXCEPT ![i] = IF @.st = "failed" THEN Requeued(@, due)
                                   ELSE [@ EXCEPT !.due = due]]
  /\ UNCHANGED req /\ Rest

LaunchNow(i) ==
  /\ Happens /\ Editable(i) /\ Reasked(i)
  /\ item' = [item EXCEPT ![i] = Requeued(@, TRUE)] /\ UNCHANGED req /\ Rest

Delete(i) ==
  /\ Happens /\ Editable(i) /\ item' = [item EXCEPT ![i] = Gone]
  /\ UNCHANGED <<req, asked>> /\ Rest

Elapse(i) ==
  /\ Present(i) /\ item[i].st = "queued" /\ ~item[i].due
  /\ item' = [item EXCEPT ![i].due = TRUE]
  /\ UNCHANGED <<req, asked, events>> /\ Rest

(***************************************************************************)
(* The coordinator                                                         *)
(***************************************************************************)
Running == {i \in Ids : launch[i] # None}
UserSide == UNCHANGED <<req, asked>>
Quiet == UserSide /\ UNCHANGED events

(* buildServiceQueue: what is due, and what an earlier process left.       *)
Recoverable(r, i) == r.st = "launching" /\ ~r.run /\ i \notin Running
Queue(s) == {i \in Ids : s[i] \notin {None, Gone} /\
                           \/ Recoverable(s[i], i)
                           \/ s[i].st = "queued" /\ s[i].due}

(* nextTask, of any of the queue: their order is left out.                 *)
Choose(s) ==
  \/ \E i \in Queue(s) : driver' = [pc |-> "mark", task |-> i, kind |-> s[i].kind]
  \/ Queue(s) = {} /\ driver' = IF Running = {} THEN Off ELSE At("wait")

StartRefresh ==
  /\ driver.pc \in {"off", "ready"}
  /\ driver.pc = "ready" => again /\ Cardinality(Running) < Workers
  /\ seen' = item /\ driver' = At("refresh")
  /\ UNCHANGED <<item, again, launch, copy, stale, made, unsure>> /\ Quiet

(* syncServiceTasks, and an issue sync: the items that were read before are*)
(* written as they were, the others are kept.                              *)
Merged(s) == [i \in Ids |-> IF s[i] \in {None, Gone} THEN item[i] ELSE s[i]]
Older(s) == \E i \in Ids : s[i] \notin {None, Gone} /\ s[i] # item[i]

Refresh ==
  /\ driver.pc = "refresh" /\ again' = FALSE
  /\ item' = Merged(seen) /\ seen' = None /\ stale' = Older(seen) /\ Choose(item')
  /\ UNCHANGED <<launch, copy, made, unsure>> /\ Quiet

Reload ==
  /\ driver.pc = "ready" /\ ~again /\ Cardinality(Running) < Workers
  /\ Choose(item)
  /\ UNCHANGED <<item, seen, again, launch, copy, stale, made, unsure>> /\ Quiet

AllBusy ==
  /\ driver.pc = "ready" /\ Cardinality(Running) = Workers /\ driver' = At("wait")
  /\ UNCHANGED <<item, seen, again, launch, copy, stale, made, unsure>> /\ Quiet

(* An item that was deleted since comes back, without its texts and without*)
(* its kind, which makes it an issue to create.                            *)
Ghost == [New("issue", FALSE, TRUE) EXCEPT !.st = "launching"]
Mark ==
  LET i == driver.task IN
  /\ driver.pc = "mark" /\ driver' = At("ready")
  /\ item' = [item EXCEPT ![i] = IF Present(i) THEN [@ EXCEPT !.st = "launching", !.due = TRUE]
                                 ELSE Ghost]
  /\ launch' = [launch EXCEPT ![i] = [kind |-> driver.kind, res |-> "run"]]
  /\ UNCHANGED <<seen, again, copy, stale, made, unsure>> /\ Quiet

Apply(i) ==
  /\ driver.pc = "wait" /\ launch[i] # None /\ launch[i].res # "run"
  /\ driver' = At("ready") /\ launch' = [launch EXCEPT ![i] = None]
  /\ LET res == launch[i].res
         tracked == launch[i].kind = "tracked" IN
     /\ item' = [item EXCEPT ![i] =
          CASE res = "ok" -> [@ EXCEPT !.st = "launched", !.run = launch[i].kind # "issue"]
            [] res = "paused" -> [@ EXCEPT !.st = "queued", !.due = FALSE, !.run = @ \/ tracked]
            [] OTHER -> [@ EXCEPT !.st = "failed"]]
     /\ again' = (again \/ res = "ok")
  /\ UNCHANGED <<seen, copy, stale, made, unsure>> /\ Quiet

Coordinate == StartRefresh \/ Refresh \/ Reload \/ AllBusy \/ Mark \/ \E i \in Ids : Apply(i)

(***************************************************************************)
(* The launches: an issue is created, or a run is begun and goes on to its *)
(* end.  What is "lost" has happened and reports an error.                 *)
(***************************************************************************)
Ends(i, res) ==
  /\ launch' = [launch EXCEPT ![i].res = res]
  /\ IF res = "ok" THEN UNCHANGED events ELSE Happens
  /\ made' = IF res = "refused" THEN made ELSE [made EXCEPT ![i] = @ + 1]
  /\ unsure' = IF res = "paused" THEN [unsure EXCEPT ![i] = @ + 1] ELSE unsure
  /\ UNCHANGED <<item, driver, seen, again, copy, stale>> /\ UserSide
Runs(i, kind) == launch[i] # None /\ launch[i].res = "run" /\ launch[i].kind = kind

LaunchIssue(i) == Runs(i, "issue") /\ \E res \in {"ok", "lost", "refused"} : Ends(i, res)
LaunchLocal(i) ==
  Runs(i, "local") /\ \E res \in {"ok", "paused", "lost", "refused"} : Ends(i, res)
LaunchTracked(i) ==
  Runs(i, "tracked") /\ \E res \in {"ok", "paused", "lost", "refused"} : Ends(i, res)
Launch(i) == LaunchIssue(i) \/ LaunchLocal(i) \/ LaunchTracked(i)

(* The process of nana start dies, in the midst of its launches.           *)
Crash ==
  /\ driver.pc # "off" /\ Happens
  /\ driver' = Off /\ seen' = None /\ again' = TRUE /\ copy' = None
  /\ launch' = [i \in Ids |-> None]
  /\ \E done \in SUBSET {i \in Running : launch[i].res = "run"} :
       LET untold == done \cup {i \in Running : launch[i].res \in {"ok", "lost"}} IN
       /\ made' = [i \in Ids |-> IF i \in done THEN made[i] + 1 ELSE made[i]]
       /\ unsure' = [i \in Ids |-> IF i \in untold THEN unsure[i] + 1 ELSE unsure[i]]
  /\ UNCHANGED <<item, stale>> /\ UserSide

(***************************************************************************)
(* The issue sync, another task of the coordinator.                        *)
(***************************************************************************)
StartSync ==
  /\ driver.pc = "ready" /\ ~again /\ copy = None /\ copy' = item
  /\ UNCHANGED <<item, driver, seen, again, launch, stale, made, unsure>> /\ Quiet

Sync ==
  /\ copy # None /\ copy' = None /\ item' = Merged(copy) /\ stale' = Older(copy)
  /\ UNCHANGED <<driver, seen, again, launch, made, unsure>> /\ Quiet

User ==
  \/ \E u \in Users : Ask(u) \/ Create(u)
  \/ Track
  \/ \E i \in Ids : Patch(i) \/ LaunchNow(i) \/ Delete(i)

(* What a launch waits for, and the time, go on by themselves.             *)
GoesOn == \E i \in Ids : Launch(i) \/ Elapse(i)
Next == User \/ Coordinate \/ GoesOn \/ Crash \/ StartSync \/ Sync

Spec == Init /\ [][Next]_vars /\ WF_vars(Coordinate) /\ WF_vars(GoesOn)

(***************************************************************************)
(* Properties                                                              *)
(***************************************************************************)
TypeOK ==
  /\ item \in [Ids -> Records \cup {None, Gone}] /\ launch \in [Ids -> Launches \cup {None}]
  /\ driver.pc \in {"off", "refresh", "ready", "mark", "wait"}
  /\ Cardinality(Running) <= Workers

(* However requests with the same key overlap, they get one item.          *)
KeyOnce == stale \/ Cardinality(Holders) <= 1

(* No item is launched more often than the user has asked for, but for the *)
(* launches that a pause or a crash has left untold.                       *)
LaunchedAsAsked == \A i \in Ids : stale \/ made[i] <= asked[i] + unsure[i]

(* Again and again every item is launched, failed or deleted: what was left*)
(* by a crash is launched anew, unless it has a run already.               *)
Stranded(i) == item[i].st = "launching" /\ item[i].run /\ i \notin Running
Waits(i) == Present(i) /\ item[i].st \in {"queued", "launching"} /\ ~Stranded(i)
AtRest == stale \/ ~\E i \in Ids : Waits(i)
ItemsLaunched == []<>AtRest
=============================================================================
