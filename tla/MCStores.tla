------------------------------ MODULE MCStores ------------------------------
(* What nana stores, for TLC.  Writes to the work database through direct  *)
(* and proxied connections, and the upgrade, repair and trimming of its    *)
(* file, do not overlap in the code (every open finishes its bootstrap     *)
(* first), and the findings of a repository are in another file: "part"    *)
(* says which of the modules a behaviour is about.                         *)
EXTENDS WorkDB, TLC

CONSTANTS c1, c2, s1
HomeDef == [c \in Clients |-> IF c = c2 THEN s1 ELSE None]

CONSTANTS Procs, Sources, MaxContent
VARIABLES version, tables, cols, defects, pause, src, old, gone, archive, replaced,
          kind, at, seen, got, fresh
Schema == INSTANCE WorkDBSchema
ASSUME SchemaAssumption == Schema!MaxContentAssumption

CONSTANTS Items, Cands, Tasks, Edits
VARIABLES auto, art, disk, session, copy, stale, purged, edits
F == INSTANCE Findings
ASSUME FindingsAssumption == F!FindingsBounds

CONSTANTS a, b, r, Sessions, Runs, Owner, Tokens, Earlier, Changes
OwnerDef == [s \in Sessions |-> IF s = a THEN None ELSE r]
Short == <<[at |-> 1, total |-> 2], [at |-> 2, total |-> 1]>>
Long == <<[at |-> 1, total |-> 2], [at |-> 2, total |-> 1],
          [at |-> 2, total |-> 0], [at |-> 3, total |-> 2]>>
EarlierDef == {Short, Long}
VARIABLES rollouts, kept, clock, runIndex, sources, marker, imported, syncs, doubled,
          changes
U == INSTANCE UsageIndex
ASSUME UsageAssumption == U!UsageBounds

VARIABLE part
findingVars == <<auto, art, disk, session, copy, stale, purged, edits>>
fileVars == <<version, tables, cols, defects, pause, src, old, gone, archive,
              replaced, kind, at, seen, got, fresh>>
usageVars == <<rollouts, kept, clock, runIndex, sources, marker, imported, syncs,
               doubled, changes>>
allVars == <<vars, fileVars, findingVars, usageVars, part>>

(* The parts a behaviour is not about stay in one of their initial states. *)
NoFile == /\ version = Schema!Current /\ cols = Schema!Columns
          /\ defects = {} /\ kind = [p \in Procs |-> "read"]
NoFindings == auto = FALSE /\ F!Init
NoHistory == kept = [x \in Runs |-> <<>>]
NoUsage == /\ rollouts = [x \in Sessions |-> Long] /\ runIndex = [x \in Runs |-> 0]
           /\ NoHistory /\ changes = 0 /\ U!Init
(* A history file that was left says less than the rollouts do; nothing    *)
(* changes then.                                                           *)
InitialUsage ==
  /\ rollouts = [x \in Sessions |-> Long] /\ runIndex = [x \in Runs |-> 2]
  /\ \/ NoHistory /\ changes = 0
     \/ kept = [x \in Runs |-> [s \in {b} |-> Short]] /\ changes = Changes
MCInit ==
  /\ Init /\ Schema!Init
  /\ \/ part = "writes" /\ NoFile /\ NoFindings /\ NoUsage
     \/ part = "file" /\ socket = None /\ NoFindings /\ NoUsage
     \/ part = "findings" /\ socket = None /\ NoFile /\ F!Init /\ NoUsage
     \/ /\ part = "usage" /\ socket = None /\ NoFile /\ NoFindings
        /\ InitialUsage /\ U!Init

Aside == part = "writes" /\ UNCHANGED <<fileVars, findingVars, usageVars, part>>
(* What an old copy has mixed up is not followed any further.              *)
MCNext ==
  \/ Aside /\ Next
  \/ part = "file" /\ Schema!Next /\ UNCHANGED <<vars, findingVars, usageVars, part>>
  \/ part = "findings" /\ ~stale /\ F!Next /\ UNCHANGED <<vars, fileVars, usageVars, part>>
  \/ part = "usage" /\ U!Next /\ UNCHANGED <<vars, fileVars, findingVars, part>>

MCFairness ==
  /\ \A c \in Clients : /\ WF_allVars(Aside /\ Handle(c))
                        /\ WF_allVars(Aside /\ Client(c))
  /\ \A s \in Sups : /\ WF_allVars(Aside /\ Finish(s))
                     /\ WF_allVars(Aside /\ Listen(s))

MCSpec == MCInit /\ [][MCNext]_allVars /\ MCFairness

(* A client that disappears leaves no transaction behind, and a supervisor *)
(* that waits for its handlers stops waiting.                              *)
NothingLingers == LockReleased /\ CloseEnds

(* WorkDBSchema!OpensComplete and NothingLost, with the types of the       *)
(* database and of its file.                                               *)
OpensComplete == TypeOK /\ Schema!TypeOK /\ Schema!OpensComplete
NothingLost == Schema!NothingLost

(* Findings!OneTaskEach and ReadsConverge, and Findings!DismissalStands.   *)
FindingsInLine == part = "findings" => F!TypeOK /\ F!OneTaskEach /\ F!ReadsConverge
DismissalStands == F!DismissalStands

(* UsageIndex!CountedOnce, SizeTells and WindowAddsUp.                     *)
SessionsCounted ==
  part = "usage" => U!TypeOK /\ U!CountedOnce /\ U!SizeTells /\ U!WindowAddsUp
=============================================================================
