------------------------------ MODULE Accounts ------------------------------
(***************************************************************************)
(* Managed Codex accounts (internal/gocli/auth_runtime.go, auth.go,        *)
(* account_usage_api.go, auth_limits.go): the registry, the runtime state  *)
(* and auth.json on disk, a session process that keeps its own copy of     *)
(* them, and the "nana account" commands of another process.               *)
(*                                                                         *)
(* A session samples the usage service without holding its mutex and then  *)
(* decides under it: at its launch, at each tick of its monitor, and when  *)
(* Codex says it is rate limited.  Every decision writes the session's     *)
(* whole copy of the state over the file.                                  *)
(***************************************************************************)
EXTENDS Integers, Sequences, FiniteSets, SequencesExt

CONSTANTS Names,      \* accounts
          None,       \* no account
          Policy,     \* loadBalancePolicy: "usage" or "preferred"
          StaleAfter, \* how long a sample is fresh
          Dwell,      \* minActiveDwell and preferredReturnDwell
          Levels,     \* what the usage service may say (bound)
          MaxNow,     \* bound on the clock
          Commands    \* bound on the account commands

(* Assumed of the constants.                                               *)
NamesAssumption == IsFiniteSet(Names) /\ Names # {} /\ None \notin Names
LevelsAssumption == Levels \subseteq 0..5
PolicyAssumption == Policy \in {"usage", "preferred"}
NatAssumption == {StaleAfter, Dwell, MaxNow, Commands} \subseteq Nat /\ MaxNow > 0

(* What the usage service says of an account: its use (0 and 1 are below   *)
(* the threshold), a hard limit, no answer, or an answer that it will not  *)
(* give (bad tokens).                                                      *)
Near == 2
Hard == 3
Down == 4
Refused == 5

VARIABLES
  usage,    \* what the usage service would say now
  now,
  reg,      \* registry file: [order, on, pref]
  st,       \* state file: [active, pending, acct]
  auth,     \* the account whose credentials are in auth.json
  creds,    \* the accounts whose credentials are stored
  pc,       \* the session: "off", "decide", "run", "limited",
            \* "judge", "save", "paused"
  mem,      \* its copies of the registry and of the state, and the limits' wait
  samples,  \* what its main thread, and its monitor, have sampled
  cli,      \* what is left of the running account command
  commands,
  mixed     \* history: session and command wrote since the session launched

disk == <<reg, st, auth, creds>>
vars == <<usage, now, disk, pc, mem, samples, cli, commands, mixed>>

NewAccount == [result |-> "none", used |-> 0, limit |-> FALSE, retry |-> 0,
               fresh |-> 0, acted |-> 0]
NoMemory == [reg |-> [order |-> <<>>, on |-> {}, pref |-> None], wait |-> 0,
             st |-> [active |-> None, pending |-> None,
                     acct |-> [a \in Names |-> NewAccount]]]
NoSamples == [at |-> 0, said |-> <<>>]

Init ==
  /\ usage = [a \in Names |-> 0] /\ now = 1
  /\ reg = [order |-> SetToSeq(Names), on |-> Names, pref |-> Head(SetToSeq(Names))]
  /\ st = [active |-> reg.pref, pending |-> None,
           acct |-> [a \in Names |-> NewAccount]]
  /\ auth = reg.pref
  /\ creds = Names
  /\ pc = "off" /\ mem = NoMemory
  /\ samples = [t \in {"main", "monitor"} |-> NoSamples]
  /\ cli = <<>> /\ commands = 0 /\ mixed = FALSE

(***************************************************************************)
(* The registry and the samples                                            *)
(***************************************************************************)
Listed(r) == Range(r.order)
Without(seq, a) ==
  LET places == {i \in DOMAIN seq : seq[i] = a} IN
  IF places = {} THEN seq ELSE RemoveAt(seq, Min(places))
PutFirst(seq, a) == IF a \in Range(seq) THEN <<a>> \o Without(seq, a) ELSE seq

(* loadManagedAuthRegistry: without a preferred account the first one is.  *)
(* Whoever reads the registry reads it so; it is kept here as it is read.  *)
Loaded(r) ==
  IF r.pref = None /\ r.order # <<>> THEN [r EXCEPT !.pref = r.order[1]] ELSE r

(* orderedAccounts: the preferred account first.                           *)
Ordered(r) == PutFirst(r.order, r.pref)
First(seq, fit) ==
  LET places == {i \in DOMAIN seq : seq[i] \in fit} IN
  IF places = {} THEN None ELSE seq[Min(places)]

(* buildUsageSnapshot and mergeAccountUsageState: an answer replaces all   *)
(* that was known, the retry time included; silence keeps a fresh answer   *)
(* as stale, and anything else clears the limit.                           *)
Merge(acc, said, t) ==
  CASE said.level \in 0..Hard ->
         [acc EXCEPT !.result = "ok", !.limit = said.level = Hard,
                     !.used = IF said.level = Hard THEN 1 ELSE said.level,
                     !.retry = IF said.level \in {Near, Hard} THEN said.reset ELSE 0,
                     !.fresh = t + StaleAfter]
    [] said.level = Down /\ acc.fresh > 0 /\ t <= acc.fresh ->
         [acc EXCEPT !.result = "stale"]
    [] OTHER ->
         [acc EXCEPT !.limit = FALSE,
                     !.result = IF said.level = Down THEN "transient" ELSE "permanent"]

Pending(s, a, t) == s.acct[a].retry > t
FreshEligible(r, s, a, t) ==
  /\ a # None /\ a \in r.on
  /\ s.acct[a].result = "ok" /\ ~s.acct[a].limit /\ s.acct[a].used < Near
  /\ s.acct[a].fresh >= t /\ s.acct[a].fresh > 0 /\ ~Pending(s, a, t)
ActiveUsable(r, s, a, t) ==
  /\ a # None /\ a \in r.on /\ ~s.acct[a].limit /\ ~Pending(s, a, t)
  /\ \/ s.acct[a].result = "ok" /\ s.acct[a].used < Near
     \/ s.acct[a].result = "stale"
ExecutionEligible(r, s, a, t) == FreshEligible(r, s, a, t) \/ ActiveUsable(r, s, a, t)

(* chooseLeastUsedEligibleAccount: ties go to favour, the preferred, the   *)
(* order of the registry.                                                  *)
LeastUsed(r, s, favour, eligible) ==
  LET fit == eligible \cap Listed(r)
      best == {a \in fit : \A b \in fit : s.acct[a].used <= s.acct[b].used} IN
  IF favour \in best THEN favour ELSE First(Ordered(r), best)

(* Mutant: the preferred account is taken without looking at its use.      *)
LaunchAccountPreferred(r, s, t) == IF r.pref \in r.on THEN r.pref ELSE s.active

(* chooseLaunchAccount.                                                    *)
FreshOnes(r, s, t) == {a \in r.on : FreshEligible(r, s, a, t)}
LaunchAccount(r, s, t) ==
  LET fresh == FreshOnes(r, s, t)
      best == IF Policy = "usage" THEN LeastUsed(r, s, s.active, fresh)
              ELSE IF s.pending \in fresh THEN s.pending
              ELSE IF s.active \in fresh /\ r.pref \notin fresh THEN s.active
              ELSE First(Ordered(r), fresh)
      rest == IF ~ActiveUsable(r, s, s.active, t) /\ r.pref \in r.on THEN r.pref
              ELSE s.active IN
  IF best # None THEN best ELSE rest

(* chooseFreshFallbackTarget and chooseExecutionFallbackTarget.            *)
Fallback(r, s, eligible) ==
  LET others == eligible \ {s.active} IN
  IF Policy = "usage" THEN LeastUsed(r, s, None, others) ELSE First(Ordered(r), others)

Queue(r, s, a) ==
  IF a \in {None, s.active} THEN [s EXCEPT !.pending = None]
  ELSE IF a \in r.on THEN [s EXCEPT !.pending = a] ELSE s

DwellOver(s, t) == s.acct[s.active].acted = 0 \/ s.acct[s.active].acted + Dwell <= t
AtLimit(s) == LET acc == s.acct[s.active] IN
  acc.result = "ok" /\ (acc.limit \/ acc.used >= Near)

(* refreshQueuedSwitches.                                                  *)
Refresh(r, s, t) ==
  LET fresh == FreshOnes(r, s, t)
      next == IF s.active = None THEN None
              ELSE IF AtLimit(s) /\ DwellOver(s, t) THEN Fallback(r, s, fresh)
              ELSE IF Policy = "preferred" /\ r.pref \in fresh /\ DwellOver(s, t)
                   THEN r.pref
              ELSE None IN
  Queue(r, s, next)

(* evaluateUsageLocked: what was sampled is merged, and a switch queued.   *)
Evaluate(r, s, got) ==
  LET acct == [a \in Names |-> IF a \in DOMAIN got.said
                               THEN Merge(s.acct[a], got.said[a], got.at)
                               ELSE s.acct[a]] IN
  Refresh(r, [s EXCEPT !.acct = acct], got.at)

(* activateAccountLocked and applyManagedAccountActivation: what they do   *)
(* to the state.                                                           *)
Activated(s, a, t) ==
  [s EXCEPT !.active = a, !.pending = None,
            !.acct[a].retry = 0, !.acct[a].acted = t]

(***************************************************************************)
(* The session                                                             *)
(***************************************************************************)
(* collectUsageSamples: each account of the session's registry, in turn    *)
(* for the main thread or for the monitor.                                 *)
Sampled(r) ==
  [at |-> now,
   said |-> [a \in Listed(r) |-> [level |-> usage[a],
      reset |-> IF usage[a] \in {Near, Hard} THEN now + 1 ELSE 0]]]

(* prepareManagedAuthManager: the files are read once.  Without accounts   *)
(* there is no manager.  The accounts are sampled before the decision.     *)
Start ==
  /\ pc = "off" /\ reg.order # <<>>
  /\ mem' = [reg |-> reg, st |-> st, wait |-> 0] /\ pc' = "decide"
  /\ samples' = [samples EXCEPT !["main"] = Sampled(reg)]
  /\ mixed' = (cli # <<>>)
  /\ UNCHANGED <<usage, now, disk, cli, commands>>

Sample ==
  /\ pc = "limited" /\ pc' = "judge"
  /\ samples' = [samples EXCEPT !["main"] = Sampled(mem.reg)]
  /\ UNCHANGED <<usage, now, disk, mem, cli, commands, mixed>>

MonitorSamples ==
  /\ pc \in {"run", "limited", "judge", "paused"} /\ samples["monitor"] = NoSamples
  /\ samples' = [samples EXCEPT !["monitor"] = Sampled(mem.reg)]
  /\ UNCHANGED <<usage, now, disk, pc, mem, cli, commands, mixed>>

(* A tick of the monitor, on what it sampled before it got the mutex.      *)
MonitorDecides ==
  /\ pc \in {"run", "limited", "judge", "paused"} /\ samples["monitor"] # NoSamples
  /\ mem' = [mem EXCEPT !.st = Evaluate(mem.reg, mem.st, samples["monitor"])]
  /\ st' = mem'.st
  /\ samples' = [samples EXCEPT !["monitor"] = NoSamples]
  /\ UNCHANGED <<usage, now, reg, auth, creds, pc, cli, commands, mixed>>

Sampleless(t) == samples' = [samples EXCEPT ![t] = NoSamples]
(* Mutant: the credentials of the active account are not put in place again. *)
PutInPlaceLazy(s, a, next) ==
  /\ auth' = (IF a = mem.st.active THEN auth ELSE a) /\ pc' = next
  /\ mem' = [mem EXCEPT !.st = s, !.wait = 0] /\ Sampleless("main")

(* The credentials of a are put in place; the state is saved in a second   *)
(* step.  Without stored credentials the session ends with an error.       *)
PutInPlace(s, a, next) ==
  IF a \in creds
  THEN /\ auth' = a /\ pc' = next /\ mem' = [mem EXCEPT !.st = s, !.wait = 0]
       /\ Sampleless("main")
  ELSE /\ pc' = "off" /\ mem' = NoMemory /\ UNCHANGED auth
       /\ samples' = [t \in {"main", "monitor"} |-> NoSamples]

(* ensureLaunchAccount.                                                    *)
Decide ==
  LET t == samples["main"].at
      s == Evaluate(mem.reg, mem.st, samples["main"])
      queued == s.pending # None /\ s.pending # s.active
                /\ FreshEligible(mem.reg, s, s.pending, t)
      name == IF queued THEN s.pending ELSE LaunchAccount(mem.reg, s, t) IN
  /\ pc = "decide" /\ st' = s
  /\ IF name = None
     THEN /\ pc' = "run" /\ mem' = [mem EXCEPT !.st = s] /\ UNCHANGED auth
          /\ Sampleless("main")
     ELSE PutInPlace(IF name = s.active THEN [s EXCEPT !.pending = None]
                     ELSE Activated(s, name, t), name, "save")
  /\ UNCHANGED <<usage, now, reg, creds, cli, commands, mixed>>

Save ==
  /\ pc = "save" /\ st' = mem.st /\ pc' = "run"
  /\ UNCHANGED <<usage, now, reg, auth, creds, mem, samples, cli, commands, mixed>>

(* Codex stops with a rate limit.                                          *)
RateLimit ==
  /\ pc = "run" /\ pc' = "limited"
  /\ UNCHANGED <<usage, now, disk, mem, samples, cli, commands, mixed>>

(* earliestRetryAfter, or one polling interval.                            *)
RetryAt(r, s, t) ==
  LET times == {s.acct[a].retry : a \in Listed(r) \cap r.on} \ 0..t IN
  IF s.active = None \/ times = {} THEN t + 1 ELSE Min(times)

(* handleExecutionRateLimit: another account that may run, or a wait.      *)
Judge ==
  LET t == samples["main"].at
      s == Evaluate(mem.reg, mem.st, samples["main"])
      a == s.active
      hit == IF a = None \/ s.acct[a].retry > 0 THEN s
             ELSE [s EXCEPT !.acct[a].retry = t + 1]
      able == {b \in mem.reg.on : ExecutionEligible(mem.reg, hit, b, t)}
      target == IF a = None THEN None ELSE Fallback(mem.reg, hit, able) IN
  /\ pc = "judge"
  /\ \/ /\ target # None /\ st' = s
        /\ PutInPlace(Activated(hit, target, t), target, "save")
     \/ /\ target = None /\ st' = hit /\ pc' = "paused" /\ UNCHANGED auth
        /\ Sampleless("main")
        /\ mem' = [mem EXCEPT !.st = hit, !.wait = RetryAt(mem.reg, hit, t)]
  /\ UNCHANGED <<usage, now, reg, creds, cli, commands, mixed>>

Resume ==
  /\ pc = "paused" /\ now >= mem.wait /\ pc' = "run"
  /\ UNCHANGED <<usage, now, disk, mem, samples, cli, commands, mixed>>

(* The session ends, or dies anywhere.                                     *)
Stop ==
  /\ pc # "off" /\ pc' = "off" /\ mem' = NoMemory /\ mixed' = FALSE
  /\ samples' = [t \in {"main", "monitor"} |-> NoSamples]
  /\ UNCHANGED <<usage, now, disk, cli, commands>>

(***************************************************************************)
(* The account commands: what they read first, and then write in order     *)
(***************************************************************************)
W(file, value) == <<[file |-> file, value |-> value]>>
FirstOn(r, skip) == First(Ordered(r), r.on \ {skip})

(* setManagedAuthPreferred.                                                *)
Prefer(r, a) ==
  [r EXCEPT !.pref = a, !.order = PutFirst(@, a)]

ActivateWrites(r, a) ==
  W("reg", Prefer([r EXCEPT !.on = @ \cup {a}], a)) \o W("auth", a) \o W("activate", a)

EnableWrites(r, a) ==
  W("reg", LET e == [r EXCEPT !.on = @ \cup {a}] IN
           IF e.pref = None THEN Prefer(e, a) ELSE e)

(* The state is what was read at the start, however late it is written.    *)
DisableWrites(r, s, a) ==
  LET off == [r EXCEPT !.on = @ \ {a}]
      next == FirstOn(off, a)
      moved == IF s.active = a THEN Activated(s, next, now) ELSE s IN
  (IF s.active = a THEN W("auth", next) ELSE <<>>)
  \o W("reg", IF r.pref = a THEN Loaded([off EXCEPT !.pref = FirstOn(off, None)])
              ELSE off)
  \o W("st", IF moved.pending = a THEN [moved EXCEPT !.pending = None] ELSE moved)

RemoveWrites(r, a) ==
  LET rest == Without(r.order, a) IN
  W("reg", [order |-> rest, on |-> r.on \ {a},
            pref |-> IF r.pref # a THEN r.pref
                     ELSE IF rest = <<>> THEN None ELSE rest[1]])
  \o W("forget", a)

(* importManagedAccount, of "account pull" and "account add".              *)
ImportWrites(r, s, a, primary) ==
  LET new == [r EXCEPT !.on = @ \cup {a},
                       !.order = IF a \in Range(@) THEN @ ELSE Append(@, a)]
      done == IF r.pref = None \/ Len(new.order) = 1 \/ primary
              THEN Prefer(new, a) ELSE new IN
  W("creds", a) \o W("reg", done)
  \o IF s.active # None /\ done.pref # a THEN <<>>
     ELSE W("auth", a) \o W("st", Activated(s, a, now))

(* "account limits" samples, merges and saves the state it read before.    *)
LimitsWrites(r, s) ==
  LET g == Sampled(r) IN
  W("st", [s EXCEPT !.acct = [a \in Names |->
     IF a \in DOMAIN g.said THEN Merge(@[a], g.said[a], now) ELSE @[a]]])

Writes ==
  (UNION {{ActivateWrites(reg, a), RemoveWrites(reg, a)} : a \in Listed(reg)})
  \cup {EnableWrites(reg, a) : a \in Listed(reg) \ reg.on}
  \cup {DisableWrites(reg, st, a) :
          a \in {b \in Listed(reg) \cap reg.on :
                   st.active = b => FirstOn(reg, b) # None}}
  \cup {ImportWrites(reg, st, a, primary) : a \in Names, primary \in BOOLEAN}
  \cup IF reg.order = <<>> THEN {} ELSE {LimitsWrites(reg, st)}

(* One write, and what is then left.  Activation and removal read the      *)
(* state again; a removal that leaves no active account activates the      *)
(* preferred one.                                                          *)
Forget(s, a) ==
  [active |-> IF s.active = a THEN None ELSE s.active,
   pending |-> IF s.pending = a THEN None ELSE s.pending,
   acct |-> [s.acct EXCEPT ![a] = NewAccount]]

Apply(writes) ==
  LET w == Head(writes) IN
  /\ mixed' = (mixed \/ pc # "off")
  /\ reg' = IF w.file = "reg" THEN w.value ELSE reg
  /\ auth' = IF w.file = "auth" /\ w.value \in creds THEN w.value ELSE auth
  /\ st' = CASE w.file = "st" -> w.value
             [] w.file = "activate" -> Activated(st, w.value, now)
             [] w.file = "forget" -> Forget(st, w.value)
             [] OTHER -> st
  /\ creds' = CASE w.file = "creds" -> creds \cup {w.value}
                [] w.file = "forget" -> creds \ {w.value}
                [] OTHER -> creds
  /\ cli' = CASE w.file = "auth" /\ w.value \notin creds -> <<>>
              [] w.file = "forget" /\ st'.active = None /\ reg.pref # None ->
                   ActivateWrites(reg, reg.pref)
              [] OTHER -> Tail(writes)
  /\ UNCHANGED <<usage, now, pc, mem, samples>>

(* A command reads and makes its first write at once, but for the one that *)
(* asks the usage service in between.                                      *)
Command ==
  /\ cli = <<>> /\ commands < Commands /\ commands' = commands + 1
  /\ \E writes \in Writes :
       \/ Head(writes).file # "st" /\ Apply(writes)
       \/ /\ Head(writes).file = "st" /\ cli' = writes
          /\ UNCHANGED <<usage, now, disk, pc, mem, samples, mixed>>

CommandWrites == cli # <<>> /\ Apply(cli) /\ UNCHANGED commands

(* The command is interrupted.                                             *)
CommandDies ==
  /\ cli # <<>> /\ cli' = <<>>
  /\ UNCHANGED <<usage, now, disk, pc, mem, samples, commands, mixed>>

Tick ==
  /\ now < MaxNow /\ now' = now + 1
  /\ \E a \in Names, level \in Levels : usage' = [usage EXCEPT ![a] = level]
  /\ UNCHANGED <<disk, pc, mem, samples, cli, commands, mixed>>

Next ==
  \/ Start \/ Sample \/ MonitorSamples \/ MonitorDecides \/ Decide \/ Save
  \/ RateLimit \/ Judge \/ Resume \/ Stop
  \/ Command \/ CommandWrites \/ CommandDies \/ Tick

Spec == Init /\ [][Next]_vars

(***************************************************************************)
(* Properties                                                              *)
(***************************************************************************)
StateType == [active : Names \cup {None}, pending : Names \cup {None},
  acct : [Names -> [result : {"none", "ok", "stale", "transient", "permanent"},
                    used : 0..Near, limit : BOOLEAN, retry : Nat, fresh : Nat,
                    acted : Nat]]]
RegistryOK(r) ==
  r.on \subseteq Names /\ Listed(r) \subseteq Names /\ r.pref \in Listed(r) \cup {None}
TypeOK ==
  /\ usage \in [Names -> 0..Refused] /\ now \in 1..MaxNow
  /\ RegistryOK(reg) /\ RegistryOK(mem.reg)
  /\ st \in StateType /\ mem.st \in StateType
  /\ st.pending # None => st.pending # st.active
  /\ auth \in Names \cup {None} /\ creds \subseteq Names

(* While no account command wrote since the session was launched, Codex    *)
(* runs with the credentials of the account that the state calls active,   *)
(* after whatever crash, launch, switch and tick of the monitor.           *)
AuthFollowsState ==
  pc = "run" /\ ~mixed /\ mem.st.active # None =>
    auth = mem.st.active /\ st.active = mem.st.active

(* A launch takes an account that was just seen to have room, when there   *)
(* is one; a rate limit moves on to another enabled account, when one was  *)
(* seen to have room, never to one seen to have none, and otherwise waits  *)
(* for a time to come.                                                     *)
Level(a) == samples["main"].said[a].level
Roomy == {a \in Listed(mem.reg) \cap mem.reg.on : Level(a) < Near}
ChoosesRoom ==
  [][/\ pc = "decide" /\ pc' \in {"run", "save"} /\ Roomy # {} =>
          mem'.st.active \in Roomy
     /\ pc = "judge" /\ pc' = "save" =>
          /\ mem'.st.active \in mem.reg.on \ {mem.st.active}
          /\ Level(mem'.st.active) \in {0, 1, Down}
     /\ pc = "judge" /\ pc' = "paused" =>
          /\ Roomy \subseteq {mem.st.active}
             \/ mem.st.active = None
          /\ mem'.wait > samples["main"].at]_vars
=============================================================================
