------------------------------- MODULE MCDesk -------------------------------
(* What nana keeps at hand for its user, for TLC: a work item, a scout     *)
(* job, planned items and a GitHub work run.  They share nothing but the   *)
(* user, so "part" says which of the four modules a behaviour is about,    *)
(* and for GitHub which commands it is about.                              *)
EXTENDS WorkItems, TLC

CONSTANTS MaxRuns, ScoutFaults,
          MaxRev, MaxRounds, MaxFollowups, Comments, PromptLimit, GithubCommands
VARIABLES kind, job, record, planned, run, coord, slow, astray
S == INSTANCE ScoutJobs WITH Faults <- ScoutFaults
ASSUME ScoutAssumption == S!ScoutBounds

VARIABLES tree, bad, art, disk, stored, session, told, omitted, hub, hand, holder, crossed
G == INSTANCE GithubWork WITH proc <- hand, Commands <- GithubCommands
ASSUME GithubAssumption == G!GithubBounds

CONSTANTS Ids, Users, Workers, Events
VARIABLES item, req, driver, seen, again, launch, copy, stale, asked, made, unsure, events
P == INSTANCE PlannedItems
ASSUME PlannedAssumption == P!PlannedBounds

VARIABLE part
plannedVars == <<item, req, driver, seen, again, launch, copy, stale, asked, made, unsure, events>>
itemVars == <<row, task, prompts, proc, posted, orphan>>
scoutVars == <<kind, job, record, planned, run, coord, slow, astray>>
githubVars ==
  <<tree, bad, art, disk, stored, session, told, omitted, hub, hand, holder, crossed>>
allVars == <<vars, scoutVars, githubVars, plannedVars, part>>

GithubParts == {"start", "sync", "publish"}
Ops == CASE part = "start" -> {"none", "start", "resume", "sync"}
         [] part = "sync" -> {"none", "sync", "sync-last"}
         [] OTHER -> {"none", "publish", "lane", "refresh"}
Limit == CASE part = "start" -> 1 [] part = "sync" -> 2 [] OTHER -> GithubCommands

(* The module a behaviour is not about is left out of its states.          *)
NoItem == row = None /\ task = None /\ prompts = {} /\ proc = None /\ posted = None /\ orphan = None
NoScout == /\ kind = None /\ job = None /\ record = None /\ planned = None
           /\ run = None /\ coord = None /\ slow = None /\ astray = None
NoGithub ==
  /\ tree = None /\ bad = None /\ art = None /\ disk = None /\ stored = None
  /\ session = None /\ told = None /\ omitted = None /\ hub = None /\ holder = None /\ crossed = None
  /\ hand = [p \in Procs |-> [op |-> "none"]]

NoPlanned == /\ item = None /\ req = None /\ driver = None /\ seen = None /\ again = None
             /\ launch = None /\ copy = None /\ stale = FALSE /\ asked = None
             /\ made = None /\ unsure = None /\ events = None

MCInit ==
  \/ part = "items" /\ Init /\ NoScout /\ NoGithub /\ NoPlanned
  \/ part = "scouts" /\ S!Init /\ NoItem /\ NoGithub /\ NoPlanned
  \/ part = "planned" /\ P!Init /\ NoItem /\ NoScout /\ NoGithub
     /\ mixed = FALSE /\ commands = 0 /\ faults = 0
  \/ /\ part \in GithubParts /\ G!Init /\ mixed = FALSE /\ NoItem /\ NoScout /\ NoPlanned
     /\ part = "start" <=> tree = 0

(* What a copy has mixed up is not followed any further.                   *)
ItemStep == part = "items" /\ ~mixed
ScoutStep == part = "scouts" /\ ~mixed
PlannedStep == part = "planned" /\ ~stale
Bounded ==
  /\ commands' <= Limit /\ \A p \in Procs : hand'[p].op \in Ops
  /\ hub'.comments <= CASE part = "start" -> 1 [] part = "sync" -> Comments [] OTHER -> 0

MCNext ==
  \/ ItemStep /\ Next /\ UNCHANGED <<scoutVars, githubVars, plannedVars, part>>
  \/ ScoutStep /\ S!Next /\ UNCHANGED <<itemVars, githubVars, plannedVars, part>>
  \/ part \in GithubParts /\ G!Next /\ Bounded /\ UNCHANGED <<itemVars, scoutVars, plannedVars, mixed, part>>
  \/ PlannedStep /\ P!Next /\ UNCHANGED <<vars, scoutVars, githubVars, part>>

MCProgress ==
  \/ ItemStep /\ Progress /\ UNCHANGED <<scoutVars, githubVars, plannedVars, part>>
  \/ ScoutStep /\ S!Progress /\ UNCHANGED <<itemVars, githubVars, plannedVars, part>>
  \/ part \in GithubParts /\ G!Progress /\ UNCHANGED <<itemVars, scoutVars, plannedVars, mixed, part>>
  \/ PlannedStep /\ P!GoesOn /\ UNCHANGED <<vars, scoutVars, githubVars, part>>
MCCoordinate == PlannedStep /\ P!Coordinate /\ UNCHANGED <<vars, scoutVars, githubVars, part>>

MCSpec ==
  MCInit /\ [][MCNext]_allVars /\ WF_allVars(MCProgress) /\ WF_allVars(MCCoordinate)

(* The type invariants of the modules, and of an item StatusTold and       *)
(* TaskMirrors.                                                            *)
TypesOK ==
  CASE part = "items" -> TypeOK [] part = "scouts" -> S!TypeOK
    [] part = "planned" -> P!TypeOK [] OTHER -> G!TypeOK
ItemTold == TypesOK /\ (part = "items" => StatusTold /\ TaskMirrors)

(* PlannedItems!KeyOnce and LaunchedAsAsked.                               *)
LaunchedOnce == part = "planned" => P!KeyOnce /\ P!LaunchedAsAsked

(* ScoutJobs!NoStrays, GithubWork!PublishedAsVerified and FeedbackKept.    *)
NoStrays == part = "scouts" => S!NoStrays
PublishedAsVerified == part \in GithubParts => G!PublishedAsVerified
FeedbackKept == part \in GithubParts => G!FeedbackKept

(* WorkItems!ItemSettles as far as an item is followed, ScoutJobs!         *)
(* JobSettles, and GithubWork!CommandsEnd: again and again an item is      *)
(* settled, a job is settled, planned items are launched, all commands have*)
(* ended (there are finitely many).  Each says  P ~> ~P,  that is  []<>~P,  of the module at hand.   *)
AtRest ==
  CASE part = "items" -> mixed \/ ~Unsettled
    [] part = "scouts" -> ~S!Unsettled
    [] part = "planned" -> P!AtRest
    [] OTHER -> \A p \in Procs : hand[p].op = "none"
Settles == []<>AtRest
=============================================================================
