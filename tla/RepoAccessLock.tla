--------------------------- MODULE RepoAccessLock ---------------------------
(***************************************************************************)
(* The heartbeat-backed read/write lock on one checkout,                   *)
(* internal/gocli/repo_access_lock.go.  Processes share only a directory:  *)
(* writer.json, readers/<token>.json, and the readers directory itself,    *)
(* which a release prunes when it is empty.  There is no other             *)
(* coordination, so every file operation is a step of its own.             *)
(*                                                                         *)
(* A member of Procs is one acquirer with its own token (the token is      *)
(* purpose-UnixNano).  Time is abstracted: a record is "fresh" or "stale"  *)
(* (UpdatedAt older than the 30 s threshold) and an acquirer is late or    *)
(* not (the 5 s deadline of its acquire has passed).                       *)
(***************************************************************************)
CONSTANTS Procs,   \* acquirers
          NoProc,  \* the owner of no file
          Faults   \* what the environment may do, a subset of FaultKinds

(* "crash": a process dies at any point.                                   *)
(* "lapse": a live process pauses for longer than the stale threshold.     *)
(* "torn" : a record is read between the O_EXCL open and the write.        *)
(* "swap" : writer.json is replaced between a cleanup's read and removal.  *)
(* "io"   : removing a lock file fails.                                    *)
FaultKinds == {"crash", "lapse", "torn", "swap", "io"}

ASSUME NoProcAssumption == NoProc \notin Procs
ASSUME FaultsAssumption == Faults \subseteq FaultKinds

VARIABLES
  writer,      \* writer.json: its owner and the age of its record
  readers,     \* readers/<token>.json of each process: the age, or "none"
  readersDir,  \* whether the directory readers/ exists
  pc,          \* where each process is in acquire / release / downgrade
  mode,        \* the mode of its handle: "read" or "write"
  late,        \* its acquire deadline has passed
  beat         \* the file its heartbeat goroutine rewrites, or "none"

vars == <<writer, readers, readersDir, pc, mode, late, beat>>

Modes == {"read", "write"}
Ages == {"torn", "fresh", "stale"}
NoFile == [by |-> NoProc, age |-> "none"]

Acquiring == {"clean", "unlink", "cleanReaders", "check", "mkdir", "open",
              "write", "recheck", "drop", "pruneRetry", "wait", "list",
              "giveup"}
Downgrading == {"downMkdir", "downOpen", "downWrite", "downFinish"}
Places == Acquiring \cup Downgrading
          \cup {"idle", "hold", "prune", "leaked", "crashed"}

(* The handle was given to the caller and not yet given back.              *)
Writing == {p \in Procs : mode[p] = "write"
                          /\ pc[p] \in {"hold"} \cup Downgrading}
Reading == {p \in Procs : mode[p] = "read" /\ pc[p] = "hold"}

Init ==
  /\ writer = NoFile
  /\ readers = [p \in Procs |-> "none"]
  /\ readersDir = FALSE
  /\ pc = [p \in Procs |-> "idle"]
  /\ mode = [p \in Procs |-> "read"]
  /\ late = [p \in Procs |-> FALSE]
  /\ beat = [p \in Procs |-> "none"]

Goto(p, from, to) == pc[p] = from /\ pc' = [pc EXCEPT ![p] = to]

(* readRepoAccessLockRecord: content that does not parse is removed and    *)
(* reported as a missing file.                                             *)
WriterRead == IF writer.age = "torn" THEN NoFile ELSE writer
ReadersRead == [q \in Procs |-> IF readers[q] = "torn" THEN "none"
                                ELSE readers[q]]

(***************************************************************************)
(* acquireRepoAccessLock                                                   *)
(***************************************************************************)
(* The call itself and ensureRepoAccessLockRoot.  The token is new, so no  *)
(* file of an earlier handle carries it.                                   *)
Acquire(p, m) ==
  /\ readers[p] = "none" /\ writer.by # p /\ beat[p] = "none"
  /\ Goto(p, "idle", "clean")
  /\ mode' = [mode EXCEPT ![p] = m]
  /\ late' = [late EXCEPT ![p] = FALSE]
  /\ readersDir' = TRUE
  /\ UNCHANGED <<writer, readers, beat>>

(* Mutant: cleanup that only looks for unreadable records.                 *)
CleanWriterKeepsStale(p) ==
  /\ Goto(p, "clean", "cleanReaders")
  /\ writer' = WriterRead
  /\ UNCHANGED <<readers, readersDir, mode, late, beat>>

(* cleanupStaleRepoAccessLocks, first half: read writer.json and decide to *)
(* remove it.  The removal is by path: with "swap" the file may be another *)
(* one by then.  The caller's own record is excluded by its token.         *)
CleanWriter(p) ==
  LET bad == writer.age = "torn" \/ (writer.age = "stale" /\ writer.by # p)
  IN /\ Goto(p, "clean", IF bad /\ "swap" \in Faults THEN "unlink"
                         ELSE "cleanReaders")
     /\ writer' = IF bad /\ "swap" \notin Faults THEN NoFile ELSE writer
     /\ UNCHANGED <<readers, readersDir, mode, late, beat>>

UnlinkWriter(p) ==
  /\ Goto(p, "unlink", "cleanReaders")
  /\ writer' = NoFile
  /\ UNCHANGED <<readers, readersDir, mode, late, beat>>

(* Second half: the reader files.  A reader file is only ever created by   *)
(* its own token, so read and removal are one step.  A writer waiting for  *)
(* the readers to drain returns to its listing, the others to their try.   *)
CleanReaders(p) ==
  /\ Goto(p, "cleanReaders",
          IF mode[p] = "read" THEN "check"
          ELSE IF beat[p] = "write" THEN "list" ELSE "open")
  /\ readers' = [q \in Procs |->
                   IF readers[q] = "torn" \/ (readers[q] = "stale" /\ q # p)
                   THEN "none" ELSE readers[q]]
  /\ UNCHANGED <<writer, readersDir, mode, late, beat>>

(* Read mode: the first look at writer.json.                               *)
CheckWriter(p) ==
  /\ Goto(p, "check", IF WriterRead = NoFile THEN "mkdir" ELSE "wait")
  /\ writer' = WriterRead
  /\ UNCHANGED <<readers, readersDir, mode, late, beat>>

(* createRepoAccessLockRecord: MkdirAll, exclusive open, write.            *)
Mkdir(p) ==
  /\ \/ Goto(p, "mkdir", "open")
     \/ Goto(p, "downMkdir", "downOpen")
  /\ readersDir' = TRUE
  /\ UNCHANGED <<writer, readers, mode, late, beat>>

NewAge == IF "torn" \in Faults THEN "torn" ELSE "fresh"

(* Mutant: writer.json opened without O_EXCL.                              *)
OpenWriterNotExclusive(p) ==
  /\ mode[p] = "write"
  /\ Goto(p, "open", "write") /\ writer' = [by |-> p, age |-> NewAge]
  /\ UNCHANGED <<readers, readersDir, mode, late, beat>>

(* The open fails when readers/ was pruned after MkdirAll (the acquire     *)
(* returns that error) and waits when the file exists, left by a failed    *)
(* release of this same token.                                             *)
OpenReader(p) ==
  /\ mode[p] = "read"
  /\ \/ /\ ~readersDir
        /\ Goto(p, "open", "idle")
        /\ UNCHANGED readers
     \/ /\ readersDir /\ readers[p] # "none"
        /\ Goto(p, "open", "wait")
        /\ UNCHANGED readers
     \/ /\ readersDir /\ readers[p] = "none"
        /\ Goto(p, "open", "write")
        /\ readers' = [readers EXCEPT ![p] = NewAge]
  /\ UNCHANGED <<writer, readersDir, mode, late, beat>>

OpenWriter(p) ==
  /\ mode[p] = "write"
  /\ IF writer = NoFile
     THEN Goto(p, "open", "write") /\ writer' = [by |-> p, age |-> NewAge]
     ELSE Goto(p, "open", "wait") /\ writer' = WriterRead
  /\ UNCHANGED <<readers, readersDir, mode, late, beat>>

(* The write reaches the file only if it was not unlinked meanwhile.  A    *)
(* writer starts its heartbeat at once, a reader after its second look.    *)
FillReader(p) == readers' = [readers EXCEPT ![p] =
                               IF @ = "torn" THEN "fresh" ELSE @]

WriteRecord(p) ==
  /\ IF mode[p] = "read"
     THEN /\ Goto(p, "write", "recheck")
          /\ FillReader(p)
          /\ UNCHANGED <<writer, beat>>
     ELSE /\ Goto(p, "write", "clean")
          /\ writer' = IF writer = [by |-> p, age |-> "torn"]
                       THEN [by |-> p, age |-> "fresh"] ELSE writer
          /\ beat' = [beat EXCEPT ![p] = "write"]
          /\ UNCHANGED readers
  /\ UNCHANGED <<readersDir, mode, late>>

(* Mutants: no second look; a second look that forgets to release.         *)
RecheckSkipped(p) ==
  /\ Goto(p, "recheck", "hold")
  /\ beat' = [beat EXCEPT ![p] = "read"]
  /\ UNCHANGED <<writer, readers, readersDir, mode, late>>

RecheckNoRelease(p) ==
  /\ writer' = WriterRead
  /\ IF WriterRead = NoFile
     THEN Goto(p, "recheck", "hold") /\ beat' = [beat EXCEPT ![p] = "read"]
     ELSE Goto(p, "recheck", "wait") /\ UNCHANGED beat
  /\ UNCHANGED <<readers, readersDir, mode, late>>

(* Read mode: the second look, after the reader record is in place.        *)
Recheck(p) ==
  /\ writer' = WriterRead
  /\ IF WriterRead = NoFile
     THEN Goto(p, "recheck", "hold") /\ beat' = [beat EXCEPT ![p] = "read"]
     ELSE Goto(p, "recheck", "drop") /\ UNCHANGED beat
  /\ UNCHANGED <<readers, readersDir, mode, late>>

(* Mutant: the writer does not wait for the readers to drain.              *)
ListReadersNoWait(p) ==
  /\ readers' = ReadersRead
  /\ Goto(p, "list", "hold")
  /\ UNCHANGED <<writer, readersDir, mode, late, beat>>

(* Write mode: writer.json is in place, wait for the readers to leave.     *)
ListReaders(p) ==
  /\ readers' = ReadersRead
  /\ Goto(p, "list", IF \A q \in Procs \ {p} : ReadersRead[q] = "none"
                     THEN "hold"
                     ELSE IF late[p] THEN "giveup" ELSE "clean")
  /\ UNCHANGED <<writer, readersDir, mode, late, beat>>

(* Mutant: polling without a deadline.                                     *)
WaitForever(p) ==
  /\ Goto(p, "wait", "clean")
  /\ UNCHANGED <<writer, readers, readersDir, mode, late, beat>>

(* The lock is taken: fail with the busy error once late, else poll again. *)
Wait(p) ==
  /\ Goto(p, "wait", IF late[p] THEN "idle" ELSE "clean")
  /\ UNCHANGED <<writer, readers, readersDir, mode, late, beat>>

(***************************************************************************)
(* Release and DowngradeToRead                                             *)
(***************************************************************************)
(* Mutant: the heartbeat goroutine outlives its handle.                    *)
ReleaseKeepsHeartbeat(p) ==
  LET read == mode[p] = "read"
  IN /\ \/ Goto(p, "hold", IF read THEN "prune" ELSE "idle")
        \/ Goto(p, "giveup", "idle")
        \/ Goto(p, "drop", "pruneRetry")
     /\ writer' = IF read THEN writer ELSE NoFile
     /\ readers' = IF read THEN [readers EXCEPT ![p] = "none"] ELSE readers
     /\ UNCHANGED <<readersDir, mode, late, beat>>

(* Release stops the heartbeat and removes the file of the handle by its   *)
(* path, whoever wrote it last.  A failed removal is not retried: the      *)
(* handle's once is spent.                                                 *)
Release(p) ==
  LET read == mode[p] = "read"
      fails == "io" \in Faults
  IN /\ \/ Goto(p, "hold", IF read THEN "prune" ELSE "idle")
        \/ Goto(p, "giveup", "idle")
        \/ Goto(p, "drop", "pruneRetry")
     /\ beat' = [beat EXCEPT ![p] = "none"]
     /\ \/ /\ writer' = IF read THEN writer ELSE NoFile
           /\ readers' = IF read THEN [readers EXCEPT ![p] = "none"]
                         ELSE readers
        \/ fails /\ UNCHANGED <<writer, readers>>
     /\ UNCHANGED <<readersDir, mode, late>>

(* pruneEmptyParentDirs after the removal of a reader file.                *)
Prune(p) ==
  /\ \/ Goto(p, "prune", "idle")
     \/ Goto(p, "pruneRetry", "wait")
  /\ readersDir' = (readersDir /\ \E q \in Procs : readers[q] # "none")
  /\ UNCHANGED <<writer, readers, mode, late, beat>>

(* withSourceWriteThenReadLock: the write phase is over, downgrade.        *)
Downgrade(p) ==
  /\ mode[p] = "write"
  /\ Goto(p, "hold", "downMkdir")
  /\ UNCHANGED <<writer, readers, readersDir, mode, late, beat>>

(* When the reader record cannot be created DowngradeToRead returns a nil  *)
(* handle, which the caller stores over its own: the deferred Release does *)
(* nothing and the writer record keeps its heartbeat.                      *)
DownOpen(p) ==
  /\ IF readersDir
     THEN /\ Goto(p, "downOpen", "downWrite")
          /\ readers' = [readers EXCEPT ![p] = NewAge]
     ELSE Goto(p, "downOpen", "leaked") /\ UNCHANGED readers
  /\ UNCHANGED <<writer, readersDir, mode, late, beat>>

DownWrite(p) ==
  /\ Goto(p, "downWrite", "downFinish")
  /\ FillReader(p)
  /\ UNCHANGED <<writer, readersDir, mode, late, beat>>

(* Stop the writer heartbeat, remove writer.json, start the reader's.      *)
DownFinish(p) ==
  /\ Goto(p, "downFinish", "hold")
  /\ writer' = NoFile
  /\ mode' = [mode EXCEPT ![p] = "read"]
  /\ beat' = [beat EXCEPT ![p] = "read"]
  /\ UNCHANGED <<readers, readersDir, late>>

(* The removal of writer.json fails: back to the writer record, nil handle.*)
DownFail(p) ==
  /\ "io" \in Faults
  /\ Goto(p, "downFinish", "leaked")
  /\ readers' = [readers EXCEPT ![p] = "none"]
  /\ UNCHANGED <<writer, readersDir, mode, late, beat>>

(***************************************************************************)
(* The heartbeat goroutine, time, and the environment                      *)
(***************************************************************************)
(* A tick rewrites the file of the handle by path, whether the file is     *)
(* still there, gone, or another process's.                                *)
Heartbeat(p) ==
  /\ pc[p] # "crashed"
  /\ \/ /\ beat[p] = "write"
        /\ writer' = [by |-> p, age |-> "fresh"]
        /\ UNCHANGED readers
     \/ /\ beat[p] = "read" /\ readersDir
        /\ readers' = [readers EXCEPT ![p] = "fresh"]
        /\ UNCHANGED writer
  /\ UNCHANGED <<readersDir, pc, mode, late, beat>>

(* Records nobody refreshes grow stale: those of the dead, those a failed  *)
(* release left, and with "lapse" those of a paused process.               *)
Unattended(p) == \/ pc[p] \in {"idle", "crashed"}
                 \/ "lapse" \in Faults

Age(p) ==
  /\ Unattended(p)
  /\ \/ /\ writer = [by |-> p, age |-> "fresh"]
        /\ writer' = [writer EXCEPT !.age = "stale"]
        /\ UNCHANGED readers
     \/ /\ readers[p] = "fresh"
        /\ readers' = [readers EXCEPT ![p] = "stale"]
        /\ UNCHANGED writer
  /\ UNCHANGED <<readersDir, pc, mode, late, beat>>

Deadline(p) ==
  /\ pc[p] \in Acquiring /\ ~late[p]
  /\ late' = [late EXCEPT ![p] = TRUE]
  /\ UNCHANGED <<writer, readers, readersDir, pc, mode, beat>>

Crash(p) ==
  /\ "crash" \in Faults
  /\ pc[p] \notin {"idle", "crashed"}
  /\ pc' = [pc EXCEPT ![p] = "crashed"]
  /\ beat' = [beat EXCEPT ![p] = "none"]
  /\ UNCHANGED <<writer, readers, readersDir, mode, late>>

(* buildRepoAccessLockState, a status query: it too removes what it cannot *)
(* parse.                                                                  *)
Inspect ==
  /\ writer' = WriterRead
  /\ readers' = ReadersRead
  /\ UNCHANGED <<readersDir, pc, mode, late, beat>>

(* The steps a process takes by itself once it has called acquire, release *)
(* or downgrade.                                                           *)
Proceed(p) ==
  \/ CleanWriter(p) \/ UnlinkWriter(p) \/ CleanReaders(p) \/ CheckWriter(p)
  \/ Mkdir(p) \/ OpenReader(p) \/ OpenWriter(p) \/ WriteRecord(p)
  \/ Recheck(p) \/ ListReaders(p) \/ Wait(p) \/ Prune(p)
  \/ DownOpen(p) \/ DownWrite(p) \/ DownFinish(p) \/ DownFail(p)

Next ==
  \/ \E p \in Procs :
       \/ \E m \in Modes : Acquire(p, m)
       \/ Proceed(p) \/ Release(p) \/ Downgrade(p)
       \/ Heartbeat(p) \/ Age(p) \/ Deadline(p) \/ Crash(p)
  \/ Inspect

Spec == Init /\ [][Next]_vars

(* The scheduler runs a process that is inside a call, the clock advances, *)
(* and records nobody refreshes pass the threshold.  Nothing is assumed of *)
(* how long a caller holds its lock or of whether anybody acquires.        *)
Fairness ==
  \A p \in Procs :
    /\ WF_vars(Proceed(p))
    /\ WF_vars(pc[p] # "hold" /\ Release(p))
    /\ WF_vars(Deadline(p))
    /\ WF_vars(pc[p] = "crashed" /\ Age(p))

FairSpec == Spec /\ Fairness

(***************************************************************************)
(* Properties                                                              *)
(***************************************************************************)
(* Every variable has its type; a heartbeat beats for the mode its handle  *)
(* has, and only while there is a handle (startHeartbeat/stopHeartbeat).   *)
TypeOK ==
  /\ writer \in [by : Procs, age : Ages] \cup {NoFile}
  /\ readers \in [Procs -> Ages \cup {"none"}]
  /\ readersDir \in BOOLEAN
  /\ pc \in [Procs -> Places]
  /\ mode \in [Procs -> Modes]
  /\ late \in [Procs -> BOOLEAN]
  /\ beat \in [Procs -> Modes \cup {"none"}]
  /\ \A p \in Procs :
       /\ beat[p] # "none" => beat[p] = mode[p]
       /\ pc[p] \in {"idle", "prune", "crashed"} => beat[p] = "none"

(* docs/work.md:98, "one writer excludes all readers and other writers on  *)
(* that checkout": the reader's create-then-recheck and the writer's       *)
(* create-then-list never let both through.                                *)
MutualExclusion ==
  \A p \in Writing : \A q \in Procs \ {p} : q \notin Writing \cup Reading

(* Whoever entered or is entering a section has its record on disk, under  *)
(* its own name and fresh: nobody else's cleanup, release or heartbeat     *)
(* takes it away (repo_access_lock.go:497-536 removes by path only).       *)
HasWriterRecord(p) == mode[p] = "write" /\ (pc[p] = "write" \/ beat[p] = "write")
HasReaderRecord(p) == \/ mode[p] = "read" /\ pc[p] \in {"write", "recheck", "hold"}
                      \/ pc[p] \in {"downWrite", "downFinish"}
Recorded ==
  \A p \in Procs :
    /\ HasWriterRecord(p) => writer = [by |-> p, age |-> "fresh"]
    /\ HasReaderRecord(p) => readers[p] = "fresh"

(* An acquire that failed, and a handle that was released, leave neither a *)
(* record nor a heartbeat behind, so nobody waits for a process that is    *)
(* not there.                                                              *)
NoResidue ==
  \A p \in Procs : pc[p] = "idle" =>
     readers[p] = "none" /\ writer.by # p /\ beat[p] = "none"

(* What withSourceWriteThenReadLock owes its caller: once it has returned, *)
(* the lock can be taken again (repo_access_lock_test.go:165 takes it).  A *)
(* leaked writer record keeps a live heartbeat, so it never turns stale.   *)
NoLeakedWriter ==
  \A p \in Procs : ~(pc[p] = "leaked" /\ writer.by = p /\ beat[p] = "write")

(* Every acquire returns, with the lock or with the busy error: each round *)
(* of polling looks at the deadline.                                       *)
AcquireReturns ==
  \A p \in Procs : pc[p] \in Acquiring ~> pc[p] \notin Acquiring

(* docs/work.md:99, "stale lock holders are recovered automatically after  *)
(* the heartbeat timeout": as long as somebody keeps acquiring, the        *)
(* records of a dead process go away.                                      *)
StaleRecovered ==
  \A p \in Procs :
    []<>(\E q \in Procs : pc[q] = "clean")
      => [](pc[p] = "crashed" => <>(writer.by # p /\ readers[p] = "none"))

(* The lock implements the abstract one.                                   *)
Lock == INSTANCE RWLock WITH w <- Writing, r <- Reading
ImplementsRWLock == Lock!Spec
=============================================================================
