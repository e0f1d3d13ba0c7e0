----------------------------- MODULE RuntimeExec -----------------------------
(***************************************************************************)
(* Invocations of nana-runtime over one state directory                    *)
(* (cmd/nana-runtime/main.go).  Each `exec` is a process: it loads an      *)
(* engine from the files, applies one command, and rewrites the files it   *)
(* dirtied, one after the other, with nothing that locks out another exec. *)
(* A process that has written everything prints its event: from then on    *)
(* its caller relies on the command.                                       *)
(***************************************************************************)
EXTENDS RuntimeEngine, FiniteSets

CONSTANTS Execs,     \* concurrent invocations
          MaxEvents, \* bound: no new exec once the log has this length
          MaxRecords,\* bound: no more dispatches, or messages, than this
          Faults     \* what the environment may do, a subset of FaultKinds

(* "crash":   a process dies between two file operations.                  *)
(* "overlap": an exec starts while another one runs.                       *)
(* "short":   an append to events.json is cut short (a full disk).         *)
FaultKinds == {"crash", "overlap", "short"}

ASSUME FaultsAssumption == Faults \subseteq FaultKinds
ASSUME BoundsAssumption == MaxEvents \in Nat /\ MaxRecords \in Nat

VARIABLES
  files,   \* the state directory: file name -> content
  present, \* the files that exist
  garbled, \* events.json: "no", "empty" (0 bytes), "torn" (no closing bracket)
  run,     \* the process of each exec
  granted  \* history: the owners whose AuthorityAcquired was printed

vars == <<files, present, garbled, run, granted>>

(* persist and writeCompatibilityView write in this order.                 *)
FileOrder == <<"snapshot", "events", "authority", "backlog", "readiness",
               "replay", "dispatch", "mailbox">>
FileNames == {FileOrder[i] : i \in DOMAIN FileOrder}

Places == {"idle", "snapshot", "dispatch", "mailbox", "replay", "events",
           "apply", "write"}

(* A process: where it is, its command and whether --compact was given,    *)
(* its engine, its event log and whether that is loaded, the files it has  *)
(* dirtied and the index of the file it looks at next.                     *)
NoProcess ==
  [at |-> "idle", cmd |-> [op |-> "capture", arg |-> None], compact |-> FALSE,
   eng |-> NewEngine, loaded |-> FALSE, log |-> <<>>, dirty |-> {}, next |-> 1]

Init ==
  /\ files = [f \in FileNames |-> <<>>]
  /\ present = {}
  /\ garbled = "no"
  /\ run = [p \in Execs |-> NoProcess]
  /\ granted = {}

Quiet == \A p \in Execs : run[p].at = "idle"

Room(cmd) ==
  /\ Len(files.events) < MaxEvents
  /\ cmd.op = "queue" => Len(files.dispatch) < MaxRecords
  /\ cmd.op = "create" => Len(files.mailbox) < MaxRecords

Goto(p, from, process) ==
  /\ run[p].at = from
  /\ run' = [run EXCEPT ![p] = process]

Exit(p, from) == Goto(p, from, NoProcess)

(***************************************************************************)
(* runCLI: exec and init                                                   *)
(***************************************************************************)
Alone == "overlap" \in Faults \/ Quiet

Exec(p, cmd, compact) ==
  /\ Alone /\ Room(cmd)
  /\ Goto(p, "idle", [NoProcess EXCEPT !.at = "snapshot", !.cmd = cmd,
                                       !.compact = compact])
  /\ UNCHANGED <<files, present, garbled, granted>>

(* `init`: a new engine, nothing dirty, so only missing files are written. *)
InitDir(p) ==
  /\ Alone
  /\ Goto(p, "idle", [NoProcess EXCEPT !.at = "write"])
  /\ UNCHANGED <<files, present, garbled, granted>>

(***************************************************************************)
(* loadRuntimeEngineWithOptions                                            *)
(***************************************************************************)
(* Any of the three files missing: rebuild the engine from the event log.  *)
Load(p, name, next, engine) ==
  /\ IF name \notin present
     THEN Goto(p, name, [run[p] EXCEPT !.at = "replay"])
     ELSE Goto(p, name, [run[p] EXCEPT !.at = next, !.eng = engine])
  /\ UNCHANGED <<files, present, garbled, granted>>

(* Mutant: an engine that does not take the lease over from the snapshot.  *)
LoadSnapshotNoOwner(p) ==
  Load(p, "snapshot", "dispatch",
       [run[p].eng EXCEPT !.cursor = files.snapshot.cursor])

LoadSnapshot(p) ==
  Load(p, "snapshot", "dispatch",
       [run[p].eng EXCEPT !.owner = files.snapshot.owner,
                          !.cursor = files.snapshot.cursor])

LoadDispatch(p) ==
  Load(p, "dispatch", "mailbox", [run[p].eng EXCEPT !.dispatch = files.dispatch])

LoadMailbox(p) ==
  Load(p, "mailbox", IF run[p].compact THEN "events" ELSE "apply",
       [run[p].eng EXCEPT !.mailbox = files.mailbox])

(* The log is needed to rebuild or to compact.  When it cannot be read the *)
(* error is dropped and the command runs on a new, empty engine.           *)
Unreadable == "events" \notin present \/ garbled # "no"

ReadEvents(p) ==
  LET rebuilt == IF Unreadable THEN NewEngine ELSE Replay(files.events)
      kept == IF Unreadable THEN NewEngine ELSE run[p].eng
      with(e) == [run[p] EXCEPT !.at = "apply", !.eng = e,
                                !.loaded = run[p].compact /\ ~Unreadable,
                                !.log = IF run[p].compact /\ ~Unreadable
                                        THEN files.events ELSE <<>>]
  IN /\ Goto(p, "replay", with(rebuilt)) \/ Goto(p, "events", with(kept))
     /\ UNCHANGED <<files, present, garbled, granted>>

(***************************************************************************)
(* processRawCommand, appendEvent, compact                                 *)
(***************************************************************************)
(* Mutant: dispatch commands that do not mark the backlog.                 *)
DirtiedNoBacklog(op) ==
  CASE op \in {"acquire", "renew"} -> {"snapshot", "authority", "readiness"}
    [] op \in {"queue"} \cup DOMAIN Before -> {"snapshot", "dispatch"}
    [] op = "replay" -> {"snapshot", "replay"}
    [] op = "capture" -> {}
    [] OTHER -> {"mailbox"}

(* The mark...StateChanged functions.                                      *)
Dirtied(op) ==
  CASE op \in {"acquire", "renew"} -> {"snapshot", "authority", "readiness"}
    [] op \in {"queue"} \cup DOMAIN Before -> {"snapshot", "backlog", "dispatch"}
    [] op = "replay" -> {"snapshot", "replay"}
    [] op = "capture" -> {}
    [] OTHER -> {"mailbox"}

Refuse(p) ==
  /\ ~Accepts(run[p].eng, run[p].cmd)
  /\ Exit(p, "apply")
  /\ UNCHANGED <<files, present, garbled, granted>>

Apply(p) ==
  LET cmd == run[p].cmd
      after == Effect(run[p].eng, cmd)
  IN /\ Accepts(run[p].eng, cmd)
     /\ Goto(p, "apply",
             [run[p] EXCEPT
                !.at = "write", !.eng = after,
                !.log = IF run[p].loaded THEN Compact(after, Append(@, cmd))
                        ELSE <<>>,
                !.dirty = Dirtied(cmd.op) \cup {"events"}])
     /\ UNCHANGED <<files, present, garbled, granted>>

(***************************************************************************)
(* persist and writeCompatibilityView                                      *)
(***************************************************************************)
View(e, name) ==
  CASE name = "snapshot" -> [owner |-> e.owner, cursor |-> e.cursor,
                             backlog |-> Backlog(e.dispatch), ready |-> Ready(e)]
    [] name = "authority" -> e.owner
    [] name = "backlog" -> Backlog(e.dispatch)
    [] name = "readiness" -> Ready(e)
    [] name = "replay" -> e.cursor
    [] name = "dispatch" -> e.dispatch
    [] OTHER -> e.mailbox

(* persistEventLog: the loaded log is rewritten; otherwise the new event   *)
(* is appended in place, or an empty log created by `init`.                *)
NewLog(p) == IF run[p].loaded THEN run[p].log
             ELSE IF "events" \notin run[p].dirty THEN <<>>
             ELSE Append(files.events, run[p].cmd)

At(p, name) == /\ run[p].at = "write" /\ run[p].next <= Len(FileOrder)
               /\ FileOrder[run[p].next] = name

Appends(p) == /\ At(p, "events")
              /\ "events" \in run[p].dirty /\ ~run[p].loaded

Due(p, name) == name \in run[p].dirty \/ name \notin present

Write(p, name) ==
  /\ At(p, name)
  /\ ~(Appends(p) /\ garbled = "torn")
  /\ files' = [files EXCEPT ![name] =
                 IF ~Due(p, name) THEN @
                 ELSE IF name = "events" THEN NewLog(p)
                 ELSE View(run[p].eng, name)]
  /\ present' = present \cup {name}
  /\ garbled' = IF name = "events" /\ Due(p, name) THEN "no" ELSE garbled
  /\ run' = [run EXCEPT ![p].next = @ + 1]
  /\ UNCHANGED granted

(* Everything is written: print the event.                                 *)
Acknowledge(p) ==
  /\ run[p].next > Len(FileOrder)
  /\ Exit(p, "write")
  /\ granted' = IF run[p].cmd.op = "acquire"
                THEN granted \cup {run[p].cmd.arg} ELSE granted
  /\ UNCHANGED <<files, present, garbled>>

(* An append that finds no closing bracket returns an error: the process   *)
(* ends with the snapshot written and the views not.                       *)
FailAppend(p) ==
  /\ Appends(p) /\ garbled = "torn"
  /\ Exit(p, "write")
  /\ UNCHANGED <<files, present, garbled, granted>>

(***************************************************************************)
(* Faults                                                                  *)
(***************************************************************************)
(* Part of the event is in the file, or none of it in a new file.  (What   *)
(* is left of the log is never parsed again.)                              *)
ShortWrite(p) ==
  /\ "short" \in Faults
  /\ Appends(p) /\ garbled # "torn"
  /\ \/ garbled' = "torn"
     \/ ("events" \notin present \/ garbled = "empty") /\ garbled' = "empty"
  /\ files' = [files EXCEPT !.events = <<>>]
  /\ present' = present \cup {"events"}
  /\ Exit(p, "write")
  /\ UNCHANGED granted

Crash(p) ==
  /\ "crash" \in Faults
  /\ run[p].at # "idle"
  /\ Exit(p, run[p].at)
  /\ UNCHANGED <<files, present, garbled, granted>>

(* appendPrettyJSONArrayValue creates the file before it writes to it.     *)
CrashAfterCreate(p) ==
  /\ "crash" \in Faults
  /\ Appends(p) /\ "events" \notin present
  /\ present' = present \cup {"events"}
  /\ garbled' = "empty"
  /\ Exit(p, "write")
  /\ UNCHANGED <<files, granted>>

Next ==
  \E p \in Execs :
    \/ \E cmd \in Commands, compact \in BOOLEAN : Exec(p, cmd, compact)
    \/ InitDir(p)
    \/ LoadSnapshot(p) \/ LoadDispatch(p) \/ LoadMailbox(p) \/ ReadEvents(p)
    \/ Refuse(p) \/ Apply(p)
    \/ \E name \in FileNames : Write(p, name)
    \/ Acknowledge(p) \/ FailAppend(p) \/ ShortWrite(p)
    \/ Crash(p) \/ CrashAfterCreate(p)

Spec == Init /\ [][Next]_vars

(***************************************************************************)
(* Properties                                                              *)
(***************************************************************************)
(* Types of the files that exist and of the processes.                     *)
TypeOK ==
  /\ DOMAIN files = FileNames
  /\ present \subseteq FileNames
  /\ garbled \in {"no", "empty", "torn"}
  /\ "snapshot" \in present => files.snapshot.owner \in Owners \cup {None}
  /\ files.events \in Seq(Commands)
  /\ files.dispatch \in Seq(DispatchRecord)
  /\ files.mailbox \in Seq(MailboxRecord)
  /\ \A p \in Execs : /\ run[p].at \in Places
                      /\ run[p].cmd \in Commands
                      /\ run[p].eng \in Engine
                      /\ run[p].dirty \subseteq FileNames
                      /\ run[p].next \in 1..Len(FileOrder) + 1
  /\ granted \subseteq Owners

(* What the next exec would load.                                          *)
Loadable == {"snapshot", "dispatch", "mailbox"} \subseteq present

OnDisk == [owner |-> files.snapshot.owner, cursor |-> files.snapshot.cursor,
           dispatch |-> files.dispatch, mailbox |-> files.mailbox]

Settled == Quiet /\ present = FileNames /\ garbled = "no"

(* The compatibility views tell one story: between commands, every file of *)
(* the state directory is what the engine that the next exec loads would   *)
(* write, although a command rewrites only the files it dirtied.           *)
ViewsAgree ==
  Settled => /\ files.snapshot = View(OnDisk, "snapshot")
             /\ files.authority = View(OnDisk, "authority")
             /\ files.backlog = View(OnDisk, "backlog")
             /\ files.readiness = View(OnDisk, "readiness")
             /\ files.replay = View(OnDisk, "replay")

(* "Replay is cursor-based and durable": rebuilding the engine from the    *)
(* event log gives the engine on disk, except that compaction has          *)
(* forgotten finished dispatches (and requests queued twice).              *)
OpenOnce(d) ==
  {d[i] : i \in {j \in DOMAIN d :
                   /\ d[j].status \notin Terminal
                   /\ \A k \in DOMAIN d : d[k].id = d[j].id => k = j}}

ReplayMatchesDisk ==
  Settled => LET r == Replay(files.events)
             IN /\ r.owner = OnDisk.owner
                /\ r.cursor = OnDisk.cursor
                /\ r.mailbox = OnDisk.mailbox
                /\ OpenOnce(OnDisk.dispatch) \subseteq OpenOnce(r.dispatch)

(* runtime-command-event-snapshot-schema.md, Invariants: "Exactly one      *)
(* semantic authority owner may be active at a time".  No command releases *)
(* the lease, so at most one owner is ever told that it acquired it.       *)
SoleOwner == \A o1, o2 \in granted : o1 = o2

(* runtime-authority-backlog-replay-readiness.md:13: acquire "fails with   *)
(* AlreadyHeldByOther otherwise".  Whoever was told that it acquired the   *)
(* lease is the owner every later exec loads.  By itself this is too much: *)
(* exec --compact on a torn log starts from a new engine.                  *)
GrantPermanent == granted # {} => /\ "snapshot" \in present
                                  /\ files.snapshot.owner \in granted

(* What is left of that when an append can be cut short: it holds as long  *)
(* as the event log was not torn.                                          *)
GrantHonoured == garbled # "torn" => GrantPermanent

(* Progress of the dispatches the next exec would load: the record at a    *)
(* position keeps its id, its status never goes back and a finished one    *)
(* never changes, whatever crashes and in whatever order files are written.*)
Rank(s) == CASE s = "pending" -> 0 [] s = "notified" -> 1 [] OTHER -> 2

DispatchesAdvance ==
  [][Loadable =>
       /\ Loadable'
       /\ \A i \in DOMAIN files.dispatch :
            /\ i \in DOMAIN files'.dispatch
            /\ files'.dispatch[i].id = files.dispatch[i].id
            /\ \/ files'.dispatch[i] = files.dispatch[i]
               \/ Rank(files.dispatch[i].status) < Rank(files'.dispatch[i].status)
    ]_vars
=============================================================================
