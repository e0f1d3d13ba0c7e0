--------------------------- MODULE Investigations ---------------------------
(***************************************************************************)
(* One run of "nana investigate" (internal/gocli/investigate.go): rounds   *)
(* of an investigator whose report is checked by rules and by a validator, *)
(* the manifest the run keeps on disk, its resumption by the user, and its *)
(* recovery by the passes of "nana start", which look at the rows of its   *)
(* managed Codex prompts (module ManagedPrompt has one such step in full). *)
(*                                                                         *)
(* A report is told apart by what the rules look at: its status, whether   *)
(* its texts are there, and the proofs of the whole and of each issue.     *)
(***************************************************************************)
EXTENDS Integers, Sequences, FiniteSets

CONSTANTS Procs,      \* numbers of the processes
          None,
          MaxRounds,  \* investigateMaxRounds
          Reports,    \* the reports investigators write
          Faults      \* bound on crashes, failures, pauses, garbled answers
InvestigationBounds == {MaxRounds, Faults} \subseteq Nat /\ MaxRounds > 0

VARIABLES
  disk,      \* manifest.json, or None
  mcp,       \* the run's mcp-status.json: "none", "ok", "broken"
  servers,   \* the MCP servers of the world: "ok", "broken"
  verdict,   \* the validator results by round
  report,    \* the reports by round
  final,     \* final-report.json
  rows,      \* managed_prompt_recovery: step -> pid
  proc,      \* the processes
  raced,     \* history: two processes worked on the run at once
  stranded,  \* history: the last process died outside a prompt
  faults

vars == <<disk, mcp, servers, verdict, report, final, rows, proc, raced,
          stranded, faults>>

(***************************************************************************)
(* The rules of a report                                                   *)
(***************************************************************************)
Web == {"web", "github", "jira"}
Kinds == {"source_code", "build_log", "jenkins_run", "github", "jira",
          "local_artifact", "documentation", "other"}
Proofs == [kind : Kinds, link : Web \cup {"file", "none", "gone"}, primary : BOOLEAN]
Issues == [told : BOOLEAN, proofs : SUBSET Proofs]

(* Where a proof of each kind may lead: "file" is a path that exists.  The *)
(* links of documentation, and of a kind that no rule knows, go anywhere.  *)
LinkHolds(p) ==
  CASE p.kind = "github" -> p.link = "github"
    [] p.kind = "jira" -> p.link = "jira"
    [] p.kind = "jenkins_run" -> p.link \in Web
    [] p.kind \in {"source_code", "build_log", "local_artifact"} ->
         p.link \in Web \cup {"file"}
    [] OTHER -> TRUE

Failing(rules) == {c \in DOMAIN rules : rules[c]}
HasPrimary(proofs) == \E p \in proofs : p.primary /\ p.kind # "documentation"
ProofViolations(proofs) == Failing(
  [missing_proofs |-> proofs = {},
   missing_proof_link |-> \E p \in proofs : p.link = "none",
   documentation_is_not_primary |->
     \E p \in proofs : p.primary /\ p.kind = "documentation",
   invalid_proof_link |-> \E p \in proofs : ~LinkHolds(p)])
IssueViolations(i) == ProofViolations(i.proofs) \cup Failing(
  [missing_issue_text |-> ~i.told,
   missing_primary_issue_proof |-> ~HasPrimary(i.proofs)])
Violations(r) == ProofViolations(r.proofs) \cup Failing(
  [invalid_overall_status |-> r.status \notin {"REFUTED", "CONFIRMED", "PARTIALLY_CONFIRMED"},
   missing_overall_text |-> ~r.told,
   missing_primary_overall_proof |-> ~HasPrimary(r.proofs)])
  \cup UNION {IssueViolations(i) : i \in r.issues}

(* Mutant: the validator's word is enough.                                 *)
JudgedByValidator(r, accepts, objects) ==
  [accepted |-> accepts, violations |-> objects \/ Violations(r) # {}]

(* The verdict of a round: what the rules find counts like an objection.   *)
Judged(r, accepts, objects) ==
  [accepted |-> accepts /\ ~objects /\ Violations(r) = {},
   violations |-> objects \/ Violations(r) # {}]
Unreadable == [accepted |-> FALSE, violations |-> TRUE]

(***************************************************************************)
(* The run                                                                 *)
(***************************************************************************)
Steps == (1..MaxRounds) \X {"investigator", "validator"}
Fresh == [status |-> "running", rounds |-> <<>>, accepted |-> 0, error |-> FALSE]
Idle(l, m) == [pc |-> l, m |-> m, round |-> 0, heard |-> FALSE, r |-> None, waits |-> FALSE]
Ended == Idle("ended", None)
Live == {p \in Procs : proc[p].pc # "ended"}

Statuses == {"running", "paused", "completed", "failed_readiness", "failed_executor",
             "failed_report_parse", "failed_validator_parse", "failed_validator_exhausted"}
RoundStatuses == {"running", "failed", "needs_revision", "accepted"}
Manifests == [status : Statuses, rounds : Seq(RoundStatuses), accepted : 0..MaxRounds,
              error : BOOLEAN]
Verdicts == [accepted : BOOLEAN, violations : BOOLEAN]
ReportsAssumption ==
  /\ Reports \subseteq [status : STRING, told : BOOLEAN, proofs : SUBSET Proofs,
                        issues : SUBSET Issues]
  /\ None \notin Procs /\ None \notin Reports
  /\ None \notin Verdicts /\ None \notin Manifests

Init ==
  /\ disk = None /\ mcp = "none" /\ servers \in {"ok", "broken"}
  /\ verdict = [r \in 1..MaxRounds |-> None]
  /\ report = [r \in 1..MaxRounds |-> None] /\ final = None
  /\ rows = [s \in Steps |-> None]
  /\ proc = [p \in Procs |-> Ended]
  /\ raced = FALSE /\ stranded = FALSE /\ faults = 0

Fault == faults < Faults /\ faults' = faults + 1

(* A process gets a number that no row mentions; which does not matter.    *)
Free(p) == p \notin Live /\ \A s \in Steps : rows[s] # p
Born(p, m) ==
  /\ Free(p) /\ \A q \in Procs : q < p => ~Free(q)
  /\ proc' = [proc EXCEPT ![p] = Idle("probe", m)]
  /\ raced' = (raced \/ Live # {}) /\ stranded' = FALSE

Start(p) ==
  /\ disk = None /\ Live = {} /\ Born(p, Fresh)
  /\ UNCHANGED <<disk, mcp, servers, verdict, report, final, rows, faults>>

(* The user resumes the run, perhaps while it is running.                  *)
Resume(p) ==
  /\ disk # None /\ disk.status # "completed" /\ Cardinality(Live) < 2
  /\ Live # {} => ~raced
  /\ Fault /\ Born(p, disk)
  /\ UNCHANGED <<disk, mcp, servers, verdict, report, final, rows>>

(* writeFailure: the manifest says so, whether or not that can be written  *)
(* to the list of tasks, and the process ends.                             *)
Fail(p, status, m) ==
  /\ disk' = [m EXCEPT !.status = status, !.error = TRUE]
  /\ proc' = [proc EXCEPT ![p] = Ended]

(* persistInvestigateManifest writes the file, then the row of the task;   *)
(* if that fails the run does.                                             *)
Persist(p, m, next) ==
  \/ disk' = m /\ proc' = [proc EXCEPT ![p] = next] /\ UNCHANGED faults
  \/ Fault /\ Fail(p, "failed_executor", m)

(* The servers are probed once per run: a resumed run goes by what the     *)
(* first attempt found.                                                    *)
Probe(p) ==
  /\ proc[p].pc = "probe"
  /\ \/ /\ mcp' = IF mcp = "none" THEN servers ELSE mcp
        /\ proc' = [proc EXCEPT ![p].pc = "ready"]
        /\ UNCHANGED <<disk, faults>>
     \/ /\ mcp = "none" /\ Fault /\ UNCHANGED mcp
        /\ Fail(p, "failed_executor", proc[p].m)
  /\ UNCHANGED <<servers, verdict, report, final, rows, raced, stranded>>

(* Mutant: a resumed run does not look up why its report was rejected.     *)
ResumeStateDeaf(m) ==
  LET n == Len(m.rounds) IN
  IF n = 0 THEN [round |-> 1, heard |-> FALSE] ELSE
  CASE m.rounds[n] = "accepted" -> [round |-> MaxRounds + 1, heard |-> FALSE]
    [] m.rounds[n] = "needs_revision" -> [round |-> n + 1, heard |-> FALSE]
    [] OTHER -> [round |-> n, heard |-> FALSE]

(* investigateResumeState: the round to go on with, and whether what was   *)
(* wrong with the last report is known.                                    *)
ResumeState(m) ==
  LET n == Len(m.rounds) IN
  IF n = 0 THEN [round |-> 1, heard |-> FALSE] ELSE
  CASE m.rounds[n] = "accepted" -> [round |-> MaxRounds + 1, heard |-> FALSE]
    [] m.rounds[n] = "needs_revision" ->
         [round |-> n + 1, heard |-> verdict[n] # None /\ verdict[n].violations]
    [] OTHER -> [round |-> n, heard |-> FALSE]

Ready(p) ==
  /\ proc[p].pc = "ready"
  /\ LET m == proc[p].m  r == ResumeState(m) IN
     \/ mcp = "broken" /\ Fail(p, "failed_readiness", m) /\ UNCHANGED faults
     \/ /\ mcp = "ok"
        /\ Persist(p, m, [Idle("round", m) EXCEPT !.round = r.round, !.heard = r.heard])
  /\ UNCHANGED <<mcp, servers, verdict, report, final, rows, raced, stranded>>

(* A round begins: what the manifest had of it is dropped, and Codex is    *)
(* given the prompt, with what was wrong with the last report.             *)
Begin(p) ==
  /\ proc[p].pc = "round"
  /\ LET r == proc[p].round
         m == [proc[p].m EXCEPT !.rounds = Append(SubSeq(@, 1, r - 1), "running")] IN
     \/ /\ r > MaxRounds /\ Fail(p, "failed_validator_exhausted", proc[p].m)
        /\ UNCHANGED rows
     \/ /\ r <= MaxRounds
        /\ proc' = [proc EXCEPT ![p].pc = "investigator", ![p].m = m]
        /\ rows' = [rows EXCEPT ![<<r, "investigator">>] = p]
        /\ UNCHANGED disk
  /\ UNCHANGED <<mcp, servers, verdict, report, final, raced, stranded, faults>>

(***************************************************************************)
(* Codex                                                                   *)
(***************************************************************************)
Step(p) == <<proc[p].round, proc[p].pc>>
Prompting(p) == proc[p].pc \in {"investigator", "validator"}
Answering(p, role) == proc[p].pc = role /\ ~proc[p].waits
SetLast(m, status) == [m EXCEPT !.rounds[Len(m.rounds)] = status]

(* Codex hits a limit: the manifest says paused, and running after the     *)
(* pause, both from the copy the prompt was started with.                  *)
Pause(p) ==
  /\ Prompting(p) /\ ~proc[p].waits /\ Fault
  /\ disk' = [proc[p].m EXCEPT !.status = "paused", !.error = TRUE]
  /\ proc' = [proc EXCEPT ![p].waits = TRUE]
  /\ UNCHANGED <<mcp, servers, verdict, report, final, rows, raced, stranded>>
GoOn(p) ==
  /\ proc[p].waits
  /\ disk' = [proc[p].m EXCEPT !.status = "running", !.error = FALSE]
  /\ proc' = [proc EXCEPT ![p].waits = FALSE]
  /\ UNCHANGED <<mcp, servers, verdict, report, final, rows, raced, stranded, faults>>

(* The prompt's row is brought up to date while Codex runs.                *)
Heartbeat(p) ==
  /\ Prompting(p) /\ rows' = [rows EXCEPT ![Step(p)] = p]
  /\ UNCHANGED <<disk, mcp, servers, verdict, report, final, proc, raced, stranded, faults>>

PromptFails(p) ==
  /\ Prompting(p) /\ ~proc[p].waits /\ Fault
  /\ rows' = [rows EXCEPT ![Step(p)] = None]
  /\ Fail(p, "failed_executor", SetLast(proc[p].m, "failed"))
  /\ UNCHANGED <<mcp, servers, verdict, report, final, raced, stranded>>

(* The report does not parse: a round is lost, and the manifest says so    *)
(* while the run goes on.                                                  *)
GarbledReport(p) ==
  /\ Answering(p, "investigator") /\ Fault
  /\ rows' = [rows EXCEPT ![Step(p)] = None]
  /\ verdict' = [verdict EXCEPT ![proc[p].round] = Unreadable]
  /\ proc' = [proc EXCEPT ![p].pc = "revise", ![p].heard = TRUE,
                          ![p].m.status = "failed_report_parse"]
  /\ UNCHANGED <<disk, mcp, servers, report, final, raced, stranded>>

(* The report is written down, and the validator is asked.                 *)
Reported(p, r) ==
  /\ Answering(p, "investigator")
  /\ report' = [report EXCEPT ![proc[p].round] = r]
  /\ proc' = [proc EXCEPT ![p].pc = "validator", ![p].r = r]
  /\ rows' = [rows EXCEPT ![Step(p)] = None, ![<<proc[p].round, "validator">>] = p]
  /\ UNCHANGED <<disk, mcp, servers, verdict, final, raced, stranded, faults>>

(* A validator may accept and still object.                                *)
Validated(p, accepts, objects) ==
  /\ Answering(p, "validator")
  /\ LET v == Judged(proc[p].r, accepts, objects) IN
     /\ verdict' = [verdict EXCEPT ![proc[p].round] = v]
     /\ proc' = [proc EXCEPT ![p].pc = IF v.accepted THEN "accept" ELSE "revise",
                             ![p].heard = v.violations]
  /\ rows' = [rows EXCEPT ![Step(p)] = None]
  /\ UNCHANGED <<disk, mcp, servers, report, final, raced, stranded, faults>>
GarbledVerdict(p) ==
  /\ Answering(p, "validator") /\ Fault
  /\ verdict' = [verdict EXCEPT ![proc[p].round] = Unreadable]
  /\ proc' = [proc EXCEPT ![p].pc = "revise", ![p].heard = TRUE,
                          ![p].m.status = "failed_validator_parse"]
  /\ rows' = [rows EXCEPT ![Step(p)] = None]
  /\ UNCHANGED <<disk, mcp, servers, report, final, raced, stranded>>

Revise(p) ==
  /\ proc[p].pc = "revise"
  /\ LET m == SetLast(proc[p].m, "needs_revision") IN
     Persist(p, m, [Idle("round", m) EXCEPT !.round = proc[p].round + 1,
                                               !.heard = proc[p].heard])
  /\ UNCHANGED <<mcp, servers, verdict, report, final, rows, raced, stranded>>

(* The final report, and then the manifest that names it.                  *)
Finalise(p) ==
  /\ proc[p].pc = "accept" /\ final' = proc[p].r
  /\ proc' = [proc EXCEPT ![p].pc = "complete"]
  /\ UNCHANGED <<disk, mcp, servers, verdict, report, rows, raced, stranded, faults>>
Complete(p) ==
  /\ proc[p].pc = "complete"
  /\ LET m == [SetLast(proc[p].m, "accepted") EXCEPT
                 !.status = "completed", !.accepted = proc[p].round] IN
     Persist(p, m, Ended)
  /\ UNCHANGED <<mcp, servers, verdict, report, final, rows, raced, stranded>>

(***************************************************************************)
(* Crashes and recovery                                                    *)
(***************************************************************************)
Crash(p) ==
  /\ p \in Live /\ Fault
  /\ proc' = [proc EXCEPT ![p] = Ended]
  /\ stranded' = \A s \in Steps : rows[s] # p
  /\ UNCHANGED <<disk, mcp, servers, verdict, report, final, rows, raced>>

(* A server is repaired, or breaks.                                        *)
ServerChanges ==
  /\ Fault /\ servers' = IF servers = "ok" THEN "broken" ELSE "ok"
  /\ UNCHANGED <<disk, mcp, verdict, report, final, rows, proc, raced, stranded>>

(* managedPromptRecoveryOwnerTerminal: a round whose answer did not parse  *)
(* leaves a status that looks final while the next one runs.               *)
Open == disk # None /\ disk.status \in {"running", "paused"}
Terminal == ~Open

(* A pass of nana start cleans the rows of what looks ended, and resumes   *)
(* the run of a row whose process is gone, with a new process.             *)
Clean ==
  /\ Terminal /\ \E s \in Steps : rows[s] # None
  /\ rows' = [s \in Steps |-> None]
  /\ UNCHANGED <<disk, mcp, servers, verdict, report, final, proc, raced, stranded, faults>>
Recover(p) ==
  /\ ~Terminal /\ Cardinality(Live) < 2
  /\ \E s \in Steps : /\ rows[s] # None /\ rows[s] \notin Live
                      /\ rows' = [rows EXCEPT ![s] = p]
  /\ Born(p, disk)
  /\ UNCHANGED <<disk, mcp, servers, verdict, report, final, faults>>

Answers(p) == \/ \E r \in Reports : Reported(p, r)
              \/ \E a, o \in BOOLEAN : Validated(p, a, o)
Work(p) == \/ Probe(p) \/ Ready(p) \/ Begin(p) \/ Revise(p) \/ Finalise(p)
           \/ Complete(p) \/ GoOn(p) \/ Answers(p)
Next ==
  \/ \E p \in Procs : \/ Start(p) \/ Resume(p) \/ Work(p) \/ Pause(p) \/ Heartbeat(p)
                      \/ PromptFails(p) \/ GarbledReport(p) \/ GarbledVerdict(p)
                      \/ Crash(p) \/ Recover(p)
  \/ ServerChanges \/ Clean

(* A process goes on, Codex ends, and nana start repeats its passes.       *)
Works == \E p \in Procs : Work(p)
Passes == Clean \/ \E p \in Procs : Recover(p)
Spec == Init /\ [][Next]_vars /\ WF_vars(Works) /\ WF_vars(Passes)

(***************************************************************************)
(* Properties                                                              *)
(***************************************************************************)
TypeOK ==
  /\ disk \in Manifests \cup {None}
  /\ disk # None => Len(disk.rounds) <= MaxRounds
  /\ mcp \in {"none", "ok", "broken"}
  /\ \A p \in Live : proc[p].round \in 0..(MaxRounds + 1)
  /\ \A s \in Steps : rows[s] \in Procs \cup {None}

(* What a report claims as a whole, and each of its issues, rests on a     *)
(* proof that is no documentation and has a link, which leads somewhere    *)
(* unless the proof is of no kind that a rule knows.                       *)
Proved(r) ==
  \A claim \in {r} \cup r.issues :
    \E p \in claim.proofs :
      /\ p.primary /\ p.kind # "documentation" /\ p.link # "none"
      /\ p.link = "gone" => p.kind = "other"

(* A completed investigation has a final report whose claims are proved,   *)
(* whatever crashed, was resumed or ran twice before; and unless two       *)
(* processes worked at once it is the report of the round the manifest     *)
(* names, which was accepted without any objection.                        *)
CompletedProved ==
  disk # None /\ disk.status = "completed" =>
    /\ final # None /\ Proved(final)
    /\ ~raced => /\ report[disk.accepted] = final
                 /\ verdict[disk.accepted] = [accepted |-> TRUE, violations |-> FALSE]

(* Whoever goes on after a rejected round has been told what was wrong     *)
(* with its report, unless the new round itself had been begun and failed  *)
(* or was paused before: that one starts over without being told.          *)
RevisionTold ==
  [][\A p \in Procs :
       LET r == proc[p].round IN
       Begin(p) /\ ~raced /\ r \in 2..MaxRounds /\ verdict[r - 1].violations =>
         proc[p].heard \/ Len(proc[p].m.rounds) = r]_vars

(* The run does not stay running or paused unless its process died outside *)
(* a prompt, where no row is left for nana start to find.                  *)
AtRest == ~Open \/ stranded
=============================================================================
