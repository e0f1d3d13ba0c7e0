------------------------ MODULE RepoAccessLock_proofs ------------------------
(***************************************************************************)
(* Proofs about RepoAccessLock for any number of acquirers.                *)
(*                                                                         *)
(* Exclusion is proved for an environment where processes crash and        *)
(* removals fail, but where no record is seen half-written, no live        *)
(* process outlives its heartbeat and no cleanup removes a file other than *)
(* the one it read: the configuration LockTorn shows what happens without  *)
(* the first of these.  That nothing is left behind is proved for the      *)
(* opposite environment: everything but a failed removal.                  *)
(***************************************************************************)
EXTENDS RepoAccessLock, TLAPS

BenignFaults == Faults \subseteq {"crash", "io"}
RemovalsSucceed == "io" \notin Faults

(* What the place of a process says about its handle.                      *)
HandleInv ==
  \A p \in Procs :
    /\ beat[p] = "read" => pc[p] = "hold"
    /\ beat[p] = "write" =>
         pc[p] \in {"clean", "unlink", "cleanReaders", "list", "giveup",
                    "hold", "leaked"} \cup Downgrading
    /\ pc[p] \in {"check", "mkdir", "recheck", "drop", "pruneRetry", "prune"}
         => mode[p] = "read"
    /\ pc[p] \in {"list", "giveup", "leaked"} \cup Downgrading
         => mode[p] = "write" /\ beat[p] = "write"
    /\ pc[p] = "hold" => beat[p] = mode[p]

(* Benign faults never leave a half-written record, nor a cleanup between  *)
(* its read and its removal.                                               *)
NoTorn == /\ writer.age # "torn"
          /\ \A p \in Procs : readers[p] # "torn" /\ pc[p] # "unlink"

IInv == TypeOK /\ HandleInv /\ NoTorn /\ Recorded /\ MutualExclusion

(* A file on disk belongs to an acquirer that has yet to remove it, or to  *)
(* one that is dead: the places where p may still own a file.              *)
OwnsReaderFile(p) ==
  \/ pc[p] \in {"downWrite", "downFinish", "crashed"}
  \/ mode[p] = "read" /\ pc[p] \in {"write", "recheck", "drop", "hold"}
OwnsWriterFile(p) ==
  \/ pc[p] = "crashed"
  \/ mode[p] = "write" /\ (pc[p] = "write" \/ beat[p] = "write")
FilesOwned ==
  \A p \in Procs : /\ readers[p] # "none" => OwnsReaderFile(p)
                   /\ writer.by = p => OwnsWriterFile(p)

USE NoProcAssumption DEF BenignFaults, Modes, Ages, Places, Acquiring, Downgrading, NoFile, Goto

(***************************************************************************)
(* Types and places                                                        *)
(***************************************************************************)

(* Types, and what a place says about the handle, need nothing else: the   *)
(* only writer of beat[p], mode[p] and pc[p] is p itself.                  *)
LEMMA TypeStep ==
  ASSUME TypeOK, HandleInv, [Next]_vars
  PROVE  TypeOK' /\ HandleInv'
<1> USE DEF TypeOK, HandleInv
<1> DEFINE Kept == TypeOK' /\ HandleInv'
<1>1. ASSUME NEW p \in Procs, NEW m \in Modes, Acquire(p, m) PROVE Kept
  BY <1>1 DEF Acquire
<1>2. ASSUME NEW p \in Procs, CleanWriter(p) PROVE Kept
  BY <1>2 DEF CleanWriter
<1>3. ASSUME NEW p \in Procs, UnlinkWriter(p) PROVE Kept
  BY <1>3 DEF UnlinkWriter
<1>4. ASSUME NEW p \in Procs, CleanReaders(p) PROVE Kept
  BY <1>4 DEF CleanReaders
<1>5. ASSUME NEW p \in Procs, CheckWriter(p) PROVE Kept
  BY <1>5 DEF CheckWriter, WriterRead
<1>6. ASSUME NEW p \in Procs, Mkdir(p) PROVE Kept
  BY <1>6 DEF Mkdir
<1>7. ASSUME NEW p \in Procs, OpenReader(p) PROVE Kept
  BY <1>7 DEF OpenReader, NewAge
<1>8. ASSUME NEW p \in Procs, OpenWriter(p) PROVE Kept
  BY <1>8 DEF OpenWriter, NewAge, WriterRead
<1>9. ASSUME NEW p \in Procs, WriteRecord(p) PROVE Kept
  BY <1>9 DEF WriteRecord, FillReader
<1>10. ASSUME NEW p \in Procs, Recheck(p) PROVE Kept
  BY <1>10 DEF Recheck, WriterRead
<1>11. ASSUME NEW p \in Procs, ListReaders(p) PROVE Kept
  BY <1>11 DEF ListReaders, ReadersRead
<1>12. ASSUME NEW p \in Procs, Wait(p) PROVE Kept
  BY <1>12 DEF Wait
<1>13. ASSUME NEW p \in Procs, Prune(p) PROVE Kept
  BY <1>13 DEF Prune
<1>14. ASSUME NEW p \in Procs, DownOpen(p) PROVE Kept
  BY <1>14 DEF DownOpen, NewAge
<1>15. ASSUME NEW p \in Procs, DownWrite(p) PROVE Kept
  BY <1>15 DEF DownWrite, FillReader
<1>16. ASSUME NEW p \in Procs, DownFinish(p) PROVE Kept
  BY <1>16 DEF DownFinish
<1>17. ASSUME NEW p \in Procs, DownFail(p) PROVE Kept
  BY <1>17 DEF DownFail
<1>18. ASSUME NEW p \in Procs, Release(p) PROVE Kept
  BY <1>18 DEF Release
<1>19. ASSUME NEW p \in Procs, Downgrade(p) PROVE Kept
  BY <1>19 DEF Downgrade
<1>20. ASSUME NEW p \in Procs, Heartbeat(p) PROVE Kept
  BY <1>20 DEF Heartbeat
<1>21. ASSUME NEW p \in Procs, Age(p) PROVE Kept
  BY <1>21 DEF Age, Unattended
<1>22. ASSUME NEW p \in Procs, Deadline(p) PROVE Kept
  BY <1>22 DEF Deadline
<1>23. ASSUME NEW p \in Procs, Crash(p) PROVE Kept
  BY <1>23 DEF Crash
<1>24. CASE Inspect
  BY <1>24 DEF Inspect, WriterRead, ReadersRead
<1>25. CASE UNCHANGED vars
  BY <1>25 DEF vars
<1> QED
  BY <1>1, <1>2, <1>3, <1>4, <1>5, <1>6, <1>7, <1>8, <1>9, <1>10, <1>11,
     <1>12, <1>13, <1>14, <1>15, <1>16, <1>17, <1>18, <1>19, <1>20, <1>21,
     <1>22, <1>23, <1>24, <1>25
  DEF Next, Proceed

(* Without "torn" a record is written in one step with its creation, and   *)
(* without "swap" it is removed in one step with its reading.              *)
LEMMA NoTornStep ==
  ASSUME BenignFaults, TypeOK, NoTorn, [Next]_vars
  PROVE  NoTorn'
<1> USE DEF TypeOK, NoTorn
<1> DEFINE Kept == NoTorn'
<1>1. ASSUME NEW p \in Procs, NEW m \in Modes, Acquire(p, m) PROVE Kept
  BY <1>1 DEF Acquire
<1>2. ASSUME NEW p \in Procs, CleanWriter(p) PROVE Kept
  BY <1>2 DEF CleanWriter
<1>3. ASSUME NEW p \in Procs, UnlinkWriter(p) PROVE Kept
  BY <1>3 DEF UnlinkWriter
<1>4. ASSUME NEW p \in Procs, CleanReaders(p) PROVE Kept
  BY <1>4 DEF CleanReaders
<1>5. ASSUME NEW p \in Procs, CheckWriter(p) PROVE Kept
  BY <1>5 DEF CheckWriter, WriterRead
<1>6. ASSUME NEW p \in Procs, Mkdir(p) PROVE Kept
  BY <1>6 DEF Mkdir
<1>7. ASSUME NEW p \in Procs, OpenReader(p) PROVE Kept
  BY <1>7 DEF OpenReader, NewAge
<1>8. ASSUME NEW p \in Procs, OpenWriter(p) PROVE Kept
  BY <1>8 DEF OpenWriter, NewAge, WriterRead
<1>9. ASSUME NEW p \in Procs, WriteRecord(p) PROVE Kept
  BY <1>9 DEF WriteRecord, FillReader
<1>10. ASSUME NEW p \in Procs, Recheck(p) PROVE Kept
  BY <1>10 DEF Recheck, WriterRead
<1>11. ASSUME NEW p \in Procs, ListReaders(p) PROVE Kept
  BY <1>11 DEF ListReaders, ReadersRead
<1>12. ASSUME NEW p \in Procs, Wait(p) PROVE Kept
  BY <1>12 DEF Wait
<1>13. ASSUME NEW p \in Procs, Prune(p) PROVE Kept
  BY <1>13 DEF Prune
<1>14. ASSUME NEW p \in Procs, DownOpen(p) PROVE Kept
  BY <1>14 DEF DownOpen, NewAge
<1>15. ASSUME NEW p \in Procs, DownWrite(p) PROVE Kept
  BY <1>15 DEF DownWrite, FillReader
<1>16. ASSUME NEW p \in Procs, DownFinish(p) PROVE Kept
  BY <1>16 DEF DownFinish
<1>17. ASSUME NEW p \in Procs, DownFail(p) PROVE Kept
  BY <1>17 DEF DownFail
<1>18. ASSUME NEW p \in Procs, Release(p) PROVE Kept
  BY <1>18 DEF Release
<1>19. ASSUME NEW p \in Procs, Downgrade(p) PROVE Kept
  BY <1>19 DEF Downgrade
<1>20. ASSUME NEW p \in Procs, Heartbeat(p) PROVE Kept
  BY <1>20 DEF Heartbeat
<1>21. ASSUME NEW p \in Procs, Age(p) PROVE Kept
  BY <1>21 DEF Age, Unattended
<1>22. ASSUME NEW p \in Procs, Deadline(p) PROVE Kept
  BY <1>22 DEF Deadline
<1>23. ASSUME NEW p \in Procs, Crash(p) PROVE Kept
  BY <1>23 DEF Crash
<1>24. CASE Inspect
  BY <1>24 DEF Inspect, WriterRead, ReadersRead
<1>25. CASE UNCHANGED vars
  BY <1>25 DEF vars
<1> QED
  BY <1>1, <1>2, <1>3, <1>4, <1>5, <1>6, <1>7, <1>8, <1>9, <1>10, <1>11,
     <1>12, <1>13, <1>14, <1>15, <1>16, <1>17, <1>18, <1>19, <1>20, <1>21,
     <1>22, <1>23, <1>24, <1>25
  DEF Next, Proceed

(***************************************************************************)
(* A holder keeps its record                                               *)
(***************************************************************************)

(* Only a stale or half-written record is removed by another process, and  *)
(* a holder's record is neither; a release removes writer.json by path,    *)
(* but then the releaser has a writer record and nobody else does.         *)
LEMMA RecordedStep ==
  ASSUME BenignFaults, TypeOK, HandleInv, NoTorn, Recorded, [Next]_vars
  PROVE  Recorded'
<1> USE DEF TypeOK, HandleInv, NoTorn, Recorded, HasWriterRecord, HasReaderRecord
<1> DEFINE Kept == Recorded'
<1>1. ASSUME NEW p \in Procs, NEW m \in Modes, Acquire(p, m) PROVE Kept
  BY <1>1 DEF Acquire
<1>2. ASSUME NEW p \in Procs, CleanWriter(p) PROVE Kept
  BY <1>2 DEF CleanWriter
<1>3. ASSUME NEW p \in Procs, UnlinkWriter(p) PROVE Kept
  BY <1>3 DEF UnlinkWriter
<1>4. ASSUME NEW p \in Procs, CleanReaders(p) PROVE Kept
  BY <1>4 DEF CleanReaders
<1>5. ASSUME NEW p \in Procs, CheckWriter(p) PROVE Kept
  BY <1>5 DEF CheckWriter, WriterRead
<1>6. ASSUME NEW p \in Procs, Mkdir(p) PROVE Kept
  BY <1>6 DEF Mkdir
<1>7. ASSUME NEW p \in Procs, OpenReader(p) PROVE Kept
  BY <1>7 DEF OpenReader, NewAge
<1>8. ASSUME NEW p \in Procs, OpenWriter(p) PROVE Kept
  BY <1>8 DEF OpenWriter, NewAge, WriterRead
<1>9. ASSUME NEW p \in Procs, WriteRecord(p) PROVE Kept
  BY <1>9 DEF WriteRecord, FillReader
<1>10. ASSUME NEW p \in Procs, Recheck(p) PROVE Kept
  BY <1>10 DEF Recheck, WriterRead
<1>11. ASSUME NEW p \in Procs, ListReaders(p) PROVE Kept
  BY <1>11 DEF ListReaders, ReadersRead
<1>12. ASSUME NEW p \in Procs, Wait(p) PROVE Kept
  BY <1>12 DEF Wait
<1>13. ASSUME NEW p \in Procs, Prune(p) PROVE Kept
  BY <1>13 DEF Prune
<1>14. ASSUME NEW p \in Procs, DownOpen(p) PROVE Kept
  BY <1>14 DEF DownOpen, NewAge
<1>15. ASSUME NEW p \in Procs, DownWrite(p) PROVE Kept
  BY <1>15 DEF DownWrite, FillReader
<1>16. ASSUME NEW p \in Procs, DownFinish(p) PROVE Kept
  BY <1>16 DEF DownFinish
<1>17. ASSUME NEW p \in Procs, DownFail(p) PROVE Kept
  BY <1>17 DEF DownFail
<1>18. ASSUME NEW p \in Procs, Release(p) PROVE Kept
  BY <1>18 DEF Release
<1>19. ASSUME NEW p \in Procs, Downgrade(p) PROVE Kept
  BY <1>19 DEF Downgrade
<1>20. ASSUME NEW p \in Procs, Heartbeat(p) PROVE Kept
  BY <1>20 DEF Heartbeat
<1>21. ASSUME NEW p \in Procs, Age(p) PROVE Kept
  BY <1>21 DEF Age, Unattended
<1>22. ASSUME NEW p \in Procs, Deadline(p) PROVE Kept
  BY <1>22 DEF Deadline
<1>23. ASSUME NEW p \in Procs, Crash(p) PROVE Kept
  BY <1>23 DEF Crash
<1>24. CASE Inspect
  BY <1>24 DEF Inspect, WriterRead, ReadersRead
<1>25. CASE UNCHANGED vars
  BY <1>25 DEF vars
<1> QED
  BY <1>1, <1>2, <1>3, <1>4, <1>5, <1>6, <1>7, <1>8, <1>9, <1>10, <1>11,
     <1>12, <1>13, <1>14, <1>15, <1>16, <1>17, <1>18, <1>19, <1>20, <1>21,
     <1>22, <1>23, <1>24, <1>25
  DEF Next, Proceed

(***************************************************************************)
(* Nothing is left behind                                                  *)
(***************************************************************************)

(* Only the owner of a token creates, fills and rewrites its files, and    *)
(* every way out of a call goes through a removal, or ends in a crash or a *)
(* leaked writer record that keeps its heartbeat.                          *)
LEMMA FilesOwnedStep ==
  ASSUME RemovalsSucceed, TypeOK, HandleInv, FilesOwned, [Next]_vars
  PROVE  FilesOwned'
<1> USE DEF RemovalsSucceed, TypeOK, HandleInv, FilesOwned, OwnsReaderFile, OwnsWriterFile
<1> DEFINE Kept == FilesOwned'
<1>1. ASSUME NEW p \in Procs, NEW m \in Modes, Acquire(p, m) PROVE Kept
  BY <1>1 DEF Acquire
<1>2. ASSUME NEW p \in Procs, CleanWriter(p) PROVE Kept
  BY <1>2 DEF CleanWriter
<1>3. ASSUME NEW p \in Procs, UnlinkWriter(p) PROVE Kept
  BY <1>3 DEF UnlinkWriter
<1>4. ASSUME NEW p \in Procs, CleanReaders(p) PROVE Kept
  BY <1>4 DEF CleanReaders
<1>5. ASSUME NEW p \in Procs, CheckWriter(p) PROVE Kept
  BY <1>5 DEF CheckWriter, WriterRead
<1>6. ASSUME NEW p \in Procs, Mkdir(p) PROVE Kept
  BY <1>6 DEF Mkdir
<1>7. ASSUME NEW p \in Procs, OpenReader(p) PROVE Kept
  BY <1>7 DEF OpenReader, NewAge
<1>8. ASSUME NEW p \in Procs, OpenWriter(p) PROVE Kept
  BY <1>8 DEF OpenWriter, NewAge, WriterRead
<1>9. ASSUME NEW p \in Procs, WriteRecord(p) PROVE Kept
  BY <1>9 DEF WriteRecord, FillReader
<1>10. ASSUME NEW p \in Procs, Recheck(p) PROVE Kept
  BY <1>10 DEF Recheck, WriterRead
<1>11. ASSUME NEW p \in Procs, ListReaders(p) PROVE Kept
  BY <1>11 DEF ListReaders, ReadersRead
<1>12. ASSUME NEW p \in Procs, Wait(p) PROVE Kept
  BY <1>12 DEF Wait
<1>13. ASSUME NEW p \in Procs, Prune(p) PROVE Kept
  BY <1>13 DEF Prune
<1>14. ASSUME NEW p \in Procs, DownOpen(p) PROVE Kept
  BY <1>14 DEF DownOpen, NewAge
<1>15. ASSUME NEW p \in Procs, DownWrite(p) PROVE Kept
  BY <1>15 DEF DownWrite, FillReader
<1>16. ASSUME NEW p \in Procs, DownFinish(p) PROVE Kept
  BY <1>16 DEF DownFinish
<1>17. ASSUME NEW p \in Procs, DownFail(p) PROVE Kept
  BY <1>17 DEF DownFail
<1>18. ASSUME NEW p \in Procs, Release(p) PROVE Kept
  BY <1>18 DEF Release
<1>19. ASSUME NEW p \in Procs, Downgrade(p) PROVE Kept
  BY <1>19 DEF Downgrade
<1>20. ASSUME NEW p \in Procs, Heartbeat(p) PROVE Kept
  BY <1>20 DEF Heartbeat
<1>21. ASSUME NEW p \in Procs, Age(p) PROVE Kept
  BY <1>21 DEF Age, Unattended
<1>22. ASSUME NEW p \in Procs, Deadline(p) PROVE Kept
  BY <1>22 DEF Deadline
<1>23. ASSUME NEW p \in Procs, Crash(p) PROVE Kept
  BY <1>23 DEF Crash
<1>24. CASE Inspect
  BY <1>24 DEF Inspect, WriterRead, ReadersRead
<1>25. CASE UNCHANGED vars
  BY <1>25 DEF vars
<1> QED
  BY <1>1, <1>2, <1>3, <1>4, <1>5, <1>6, <1>7, <1>8, <1>9, <1>10, <1>11,
     <1>12, <1>13, <1>14, <1>15, <1>16, <1>17, <1>18, <1>19, <1>20, <1>21,
     <1>22, <1>23, <1>24, <1>25
  DEF Next, Proceed

(***************************************************************************)
(* Every step is a step of RWLock or a stutter                             *)
(***************************************************************************)

Sections == <<Writing, Reading>>

(* The steps inside a call leave both sections as they are.                *)
LEMMA QuietSteps ==
  ASSUME TypeOK, HandleInv, NEW p \in Procs,
         \/ \E m \in Modes : Acquire(p, m)
         \/ CleanWriter(p) \/ UnlinkWriter(p) \/ CleanReaders(p)
         \/ CheckWriter(p) \/ Mkdir(p) \/ OpenReader(p)
         \/ OpenWriter(p) \/ WriteRecord(p) \/ Wait(p)
         \/ Prune(p) \/ DownWrite(p) \/ Downgrade(p)
         \/ Heartbeat(p) \/ Age(p) \/ Deadline(p)
  PROVE  UNCHANGED Sections
<1> USE DEF TypeOK, HandleInv, Sections, Writing, Reading
<1>1. ASSUME NEW m \in Modes, Acquire(p, m) PROVE UNCHANGED Sections
  BY <1>1 DEF Acquire
<1>2. CASE CleanWriter(p)
  BY <1>2 DEF CleanWriter
<1>3. CASE UnlinkWriter(p)
  BY <1>3 DEF UnlinkWriter
<1>4. CASE CleanReaders(p)
  BY <1>4 DEF CleanReaders
<1>5. CASE CheckWriter(p)
  BY <1>5 DEF CheckWriter, WriterRead
<1>6. CASE Mkdir(p)
  BY <1>6 DEF Mkdir
<1>7. CASE OpenReader(p)
  BY <1>7 DEF OpenReader, NewAge
<1>8. CASE OpenWriter(p)
  BY <1>8 DEF OpenWriter, NewAge, WriterRead
<1>9. CASE WriteRecord(p)
  BY <1>9 DEF WriteRecord, FillReader
<1>10. CASE Wait(p)
  BY <1>10 DEF Wait
<1>11. CASE Prune(p)
  BY <1>11 DEF Prune
<1>12. CASE DownWrite(p)
  BY <1>12 DEF DownWrite, FillReader
<1>13. CASE Downgrade(p)
  BY <1>13 DEF Downgrade
<1>14. CASE Heartbeat(p)
  BY <1>14 DEF Heartbeat
<1>15. CASE Age(p)
  BY <1>15 DEF Age, Unattended
<1>16. CASE Deadline(p)
  BY <1>16 DEF Deadline
<1> QED BY <1>1, <1>2, <1>3, <1>4, <1>5, <1>6, <1>7, <1>8, <1>9, <1>10, <1>11,
          <1>12, <1>13, <1>14, <1>15, <1>16

(* While p writes, its record is writer.json; while q reads, its record is *)
(* in readers/.                                                            *)
LEMMA SectionsAreRecorded ==
  ASSUME TypeOK, HandleInv, Recorded
  PROVE  /\ \A p \in Writing : writer = [by |-> p, age |-> "fresh"]
         /\ \A q \in Reading : readers[q] = "fresh"
  BY DEF TypeOK, HandleInv, Recorded, HasWriterRecord, HasReaderRecord,
         Writing, Reading

(* A reader enters: its second look saw no writer.json, so nobody writes.  *)
LEMMA ReaderEnters ==
  ASSUME TypeOK, HandleInv, NoTorn, Recorded, NEW p \in Procs, Recheck(p)
  PROVE  Lock!AcquireRead(p) \/ UNCHANGED Sections
<1>1. CASE WriterRead = NoFile
  <2>1. writer = NoFile
    BY <1>1 DEF WriterRead, NoTorn
  <2>2. Writing = {}
    BY <2>1, SectionsAreRecorded DEF Writing
  <2>3. Writing' = Writing /\ Reading' = Reading \cup {p}
    BY <1>1 DEF Recheck, TypeOK, HandleInv, Writing, Reading
  <2> QED BY <2>2, <2>3 DEF Lock!AcquireRead
<1>2. CASE WriterRead # NoFile
  BY <1>2 DEF Recheck, TypeOK, Sections, Writing, Reading
<1> QED BY <1>1, <1>2

(* A writer enters: writer.json is its own and it saw no reader's file.    *)
LEMMA WriterEnters ==
  ASSUME TypeOK, HandleInv, NoTorn, Recorded, NEW p \in Procs, ListReaders(p)
  PROVE  Lock!AcquireWrite(p) \/ UNCHANGED Sections
<1>1. CASE \A q \in Procs \ {p} : ReadersRead[q] = "none"
  <2>1. Reading = {}
    BY <1>1, SectionsAreRecorded DEF ListReaders, HandleInv, Reading, ReadersRead
  <2>2. writer.by = p
    BY DEF ListReaders, HandleInv, TypeOK, Recorded, HasWriterRecord
  <2>3. Writing = {}
    BY <2>2, SectionsAreRecorded DEF ListReaders, Writing
  <2>4. Writing' = Writing \cup {p} /\ Reading' = Reading
    BY <1>1 DEF ListReaders, TypeOK, HandleInv, Writing, Reading
  <2> QED BY <2>1, <2>3, <2>4 DEF Lock!AcquireWrite
<1>2. CASE ~\A q \in Procs \ {p} : ReadersRead[q] = "none"
  BY <1>2 DEF ListReaders, TypeOK, Sections, Writing, Reading
<1> QED BY <1>1, <1>2

(* The downgrade: the reader record is there before writer.json goes.      *)
LEMMA WriterBecomesReader ==
  ASSUME TypeOK, HandleInv, Recorded, NEW p \in Procs, DownFinish(p)
  PROVE  Lock!Downgrade(p)
<1>1. p \in Writing
  BY DEF DownFinish, HandleInv, Writing
<1>2. Writing = {p}
  BY <1>1, SectionsAreRecorded DEF Writing
<1>3. Writing' = {} /\ Reading' = Reading \cup {p}
  BY <1>2 DEF DownFinish, TypeOK, Writing, Reading
<1> QED BY <1>2, <1>3 DEF Lock!Downgrade

(* The ways out: release, failed downgrade, crash.                         *)
LEMMA HolderLeaves ==
  ASSUME TypeOK, HandleInv, NEW p \in Procs,
         Release(p) \/ DownOpen(p) \/ DownFail(p) \/ Crash(p)
  PROVE  Lock!Leave(p) \/ UNCHANGED Sections
<1> USE DEF TypeOK, HandleInv, Sections, Writing, Reading, Lock!Leave
<1>1. CASE Release(p)
  BY <1>1 DEF Release
<1>2. CASE DownOpen(p)
  BY <1>2 DEF DownOpen
<1>3. CASE DownFail(p)
  BY <1>3 DEF DownFail
<1>4. CASE Crash(p)
  BY <1>4 DEF Crash
<1> QED BY <1>1, <1>2, <1>3, <1>4

LEMMA StepsAreAbstractSteps ==
  ASSUME TypeOK, HandleInv, NoTorn, Recorded, [Next]_vars
  PROVE  [Lock!Next]_Sections
<1>1. ASSUME NEW p \in Procs,
             Recheck(p) \/ ListReaders(p) \/ DownFinish(p)
      PROVE  Lock!Next \/ UNCHANGED Sections
  BY <1>1, ReaderEnters, WriterEnters, WriterBecomesReader DEF Lock!Next
<1>2. ASSUME NEW p \in Procs,
             Release(p) \/ DownOpen(p) \/ DownFail(p) \/ Crash(p)
      PROVE  Lock!Next \/ UNCHANGED Sections
  BY <1>2, HolderLeaves DEF Lock!Next
<1>3. CASE Inspect
  BY <1>3 DEF Inspect, Sections, Writing, Reading
<1>4. CASE UNCHANGED vars
  BY <1>4 DEF vars, Sections, Writing, Reading
<1> QED BY <1>1, <1>2, <1>3, <1>4, QuietSteps DEF Next, Proceed

(* The abstract lock keeps a writer alone.                                 *)
LEMMA AbstractExclusion ==
  ASSUME MutualExclusion, [Lock!Next]_Sections
  PROVE  MutualExclusion'
  BY DEF MutualExclusion, Sections, Lock!Next, Lock!AcquireRead,
         Lock!AcquireWrite, Lock!Leave, Lock!Downgrade


(***************************************************************************)
(* The theorems                                                            *)
(***************************************************************************)

LEMMA InitIInv == Init => IInv
<1> SUFFICES ASSUME Init PROVE IInv
  OBVIOUS
<1>1. TypeOK
  BY DEF Init, TypeOK
<1>2. HandleInv /\ NoTorn
  BY DEF Init, HandleInv, NoTorn
<1>3. Recorded
  BY DEF Init, Recorded, HasWriterRecord, HasReaderRecord
<1>4. MutualExclusion
  BY DEF Init, MutualExclusion, Writing
<1> QED BY <1>1, <1>2, <1>3, <1>4 DEF IInv

LEMMA StepIInv == BenignFaults /\ IInv /\ [Next]_vars => IInv'
  BY TypeStep, NoTornStep, RecordedStep, StepsAreAbstractSteps, AbstractExclusion DEF IInv

LEMMA Invariance == BenignFaults /\ Spec => []IInv
<1>1. CASE BenignFaults
  BY <1>1, InitIInv, StepIInv, PTL DEF Spec
<1> QED BY <1>1

LEMMA Handles == Spec => [](TypeOK /\ HandleInv)
<1>1. Init => TypeOK /\ HandleInv
  BY InitIInv DEF IInv
<1> QED BY <1>1, TypeStep, PTL DEF Spec

(* The variables and the heartbeat of every handle have their types,       *)
(* whatever the environment does.                                          *)
THEOREM TypeCorrect == Spec => []TypeOK
  BY Handles, PTL

(* An acquire that failed and a handle that was released leave neither     *)
(* record nor heartbeat behind (Release, repo_access_lock.go:348), whatever *)
(* else goes wrong, as long as the removal of a file does not fail.        *)
THEOREM NothingLeft == RemovalsSucceed /\ Spec => []NoResidue
<1>1. Init => FilesOwned
  <2> SUFFICES ASSUME Init PROVE FilesOwned
    OBVIOUS
  <2>1. \A p \in Procs : readers[p] = "none" /\ writer.by # p
    BY DEF Init
  <2> QED BY <2>1 DEF FilesOwned
<1>2. TypeOK /\ FilesOwned => NoResidue
  BY DEF TypeOK, FilesOwned, OwnsReaderFile, OwnsWriterFile, NoResidue
<1>3. CASE RemovalsSucceed
  BY <1>1, <1>2, <1>3, FilesOwnedStep, Handles, PTL DEF Spec
<1> QED BY <1>3

(* "one writer excludes all readers and other writers on that checkout"    *)
(* (docs/work.md:98), for any number of processes, crashes and failed      *)
(* removals included.                                                      *)
THEOREM Exclusion == BenignFaults /\ Spec => []MutualExclusion
  BY Invariance, PTL DEF IInv

(* Nobody removes the record of a process that relies on it.               *)
THEOREM HoldersAreRecorded == BenignFaults /\ Spec => []Recorded
  BY Invariance, PTL DEF IInv

(* The lock implements the abstract readers/writer lock, the atomic        *)
(* downgrade included.                                                     *)
THEOREM Refinement == BenignFaults /\ Spec => ImplementsRWLock
<1>1. Init => Lock!Init
  BY DEF Init, Lock!Init, Writing, Reading
<1>2. IInv /\ [Next]_vars => [Lock!Next]_Sections
  BY StepsAreAbstractSteps DEF IInv
<1> QED
  BY <1>1, <1>2, Invariance, PTL DEF Spec, ImplementsRWLock, Lock!Spec, Sections
=============================================================================
