---------------------------- MODULE MCLocalWork ----------------------------
(* A local work run, and the validation of its findings, for TLC.  To the  *)
(* loop, validation is a step that leaves findings or leaves none:  "part" *)
(* says which of the two modules a behaviour is about.                     *)
EXTENDS LocalWork, TLC

CONSTANTS Findings, Files, LastRound, Attempts, Parallelism, Crashes
VARIABLES at, round, found, todo, groups, ctx, results, work, tries, verdict,
          known, crashes, said
V == INSTANCE FindingsValidation
ASSUME ValidationAssumption == V!SizeAssumption

VARIABLE part
validationVars == <<at, round, found, todo, groups, ctx, results, work, tries,
                    verdict, known, crashes, said>>
allVars == <<vars, validationVars, part>>

MCInit == Init /\ V!Init /\ part \in {"run", "validation"}
(* A run whose row was mixed up is not followed any further.               *)
Aside == part = "run" /\ ~mixed /\ UNCHANGED <<validationVars, part>>
MCNext == \/ Next /\ Aside
          \/ part = "validation" /\ V!Next /\ UNCHANGED <<vars, part>>

MCSpec == MCInit /\ [][MCNext]_allVars /\ WF_allVars(Progress /\ Aside)

(* FindingsValidation!NoneLost, with the types of both modules.            *)
NoneLost == TypeOK /\ V!TypeOK /\ V!NoneLost
=============================================================================
