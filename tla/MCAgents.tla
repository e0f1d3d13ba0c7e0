------------------------------ MODULE MCAgents ------------------------------
(* Managed Codex steps, managed accounts and investigations for TLC.  A    *)
(* step asks the accounts one question, which ManagedPrompt answers either *)
(* way, and an investigation needs of its steps only that they end or are  *)
(* recovered: "part" says which of the modules a behaviour is about.       *)
EXTENDS ManagedPrompt, TLC

CONSTANTS Names, Policy, StaleAfter, Dwell, Levels, MaxNow, Commands
VARIABLES usage, now, reg, st, auth, creds, pc, mem, samples, cli, commands, mixed
A == INSTANCE Accounts
ASSUME AccountsAssumption ==
  A!NamesAssumption /\ A!LevelsAssumption /\ A!PolicyAssumption /\ A!NatAssumption

CONSTANTS MaxRounds, Troubles, Workers, Found
VARIABLES disk, mcp, servers, verdict, report, final, rows, team, crowded,
          stranded, troubles
Code == [kind |-> "source_code", link |-> "file", primary |-> TRUE]
Hearsay == [kind |-> "other", link |-> "gone", primary |-> TRUE]
Manual == [kind |-> "documentation", link |-> "web", primary |-> TRUE]
Lost == [kind |-> "build_log", link |-> "gone", primary |-> TRUE]
Claims(proofs, issue) ==
  [status |-> "CONFIRMED", told |-> TRUE, proofs |-> proofs,
   issues |-> {[told |-> TRUE, proofs |-> issue]}]
FoundDef == {Claims({Code}, {Hearsay}), Claims({Code, Lost}, {Manual})}
I == INSTANCE Investigations WITH
       proc <- team, raced <- crowded, Faults <- Troubles, faults <- troubles,
       Procs <- Workers, Reports <- Found
ASSUME InvestigationAssumption == I!InvestigationBounds /\ I!ReportsAssumption

VARIABLE part
investigationVars == <<disk, mcp, servers, verdict, report, final, rows, team,
                       crowded, stranded, troubles>>
accountVars == <<usage, now, reg, st, auth, creds, pc, mem, samples, cli,
                 commands, mixed>>
allVars == <<vars, accountVars, investigationVars, part>>

(* No account takes part in a behaviour about the step.                    *)
NoAccounts ==
  /\ usage = None /\ now = None /\ reg = None /\ st = None /\ auth = None /\ creds = None
  /\ pc = None /\ mem = None /\ samples = None /\ cli = None /\ commands = None
  /\ mixed = None

NoInvestigation ==
  /\ disk = None /\ mcp = None /\ servers = None /\ verdict = None /\ report = None
  /\ final = None /\ rows = None /\ crowded = None /\ stranded = None
  /\ troubles = None /\ team = [p \in Workers |-> I!Ended]

MCInit == /\ Init
          /\ \/ part = "prompt" /\ NoAccounts /\ NoInvestigation
             \/ part = "accounts" /\ A!Init /\ NoInvestigation
             \/ part = "investigation" /\ NoAccounts /\ I!Init

Aside == part = "prompt" /\ UNCHANGED <<accountVars, investigationVars, part>>
Beside == part = "investigation" /\ UNCHANGED <<vars, accountVars, part>>
MCNext == \/ Aside /\ Next
          \/ /\ part = "accounts" /\ A!Next
             /\ UNCHANGED <<vars, investigationVars, part>>
          \/ Beside /\ I!Next

MCFairness ==
  /\ \A p \in Procs : /\ WF_allVars(Aside /\ Work(p))
                      /\ WF_allVars(Aside /\ SessionStarts(p))
                      /\ WF_allVars(Aside /\ \E o \in Outcomes : CodexEnds(p, o))
  /\ \A s \in Sups : WF_allVars(Aside /\ Pass(s))
  /\ WF_allVars(Aside /\ Elapse)
  /\ WF_allVars(Beside /\ I!Works)
  /\ WF_allVars(Beside /\ I!Passes)

MCSpec == MCInit /\ [][MCNext]_allVars /\ MCFairness

(* ManagedPrompt!Recoverable of a step, with the types of its state.       *)
StepsRecoverable == TypeOK /\ Recoverable

(* Accounts!AuthFollowsState, with the types of the state of the accounts, *)
(* and Accounts!ChoosesRoom.                                               *)
AuthFollowsState == part = "accounts" => A!TypeOK /\ A!AuthFollowsState
ChoosesRoom == A!ChoosesRoom

(* Investigations!CompletedProved, with the types of an investigation, and *)
(* RevisionTold.                                                           *)
CompletedProved == part = "investigation" => I!TypeOK /\ I!CompletedProved
RevisionTold == I!RevisionTold

(* ManagedPrompt!Settles, and the same for an investigation: again and     *)
(* again the step, or the investigation, is settled.                       *)
AllSettle == []<>(StepAtRest /\ (part = "investigation" => I!AtRest))
=============================================================================
