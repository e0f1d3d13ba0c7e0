-------------------------- MODULE LocalWork_proofs --------------------------
(***************************************************************************)
(* What a local work run applies was verified and reviewed, and what it    *)
(* says of its outcome is true, for any number of processes, iterations,   *)
(* rounds and events.                                                      *)
(***************************************************************************)
EXTENDS MCLocalWork, FiniteSetTheorems, TLAPS

(***************************************************************************)
(* Types                                                                   *)
(***************************************************************************)
Row == [status : Statuses, n : 0..MaxIter, cur : 0..MaxIter, follow : Nat,
        apply : {"none", "no-op", "pushed", "blocked-before", "blocked-after", "superseded"},
        sha : BOOLEAN, done : BOOLEAN, stale : BOOLEAN, base : Nat, newer : BOOLEAN]
(* The iteration under way is the next one, or is summed up already.       *)
Good(row) == /\ row \in Row /\ row.cur \in {row.n, row.n + 1}
             /\ row.sha => row.apply # "none"

Hardening == {"implement", "verify", "review", "gate", "validate", "follow", "conclude"}
Finishing == {"stage", "commit", "push", "record"}
Steps == {"off", "load", "lock", "top", "rebase", "next", "post"} \cup Hardening \cup Finishing
Process ==
  [pc : Steps, mode : {"loop", "retry"}, mem : Row, audit : {"", "no-op", "blocked", "passed"},
   found : BOOLEAN, appr : BOOLEAN, ok : BOOLEAN,
   res : {"none", "no-op", "pushed", "blocked-before", "blocked-after"},
   sha : BOOLEAN, hit : {"no", "limit", "killed"}]
State == [it : 0..MaxIter, r : Rounds, edit : BOOLEAN, v : {"?", "pass", "fail"},
          f : {"?", "none", "some"}, g : {"?", "none", "some"}, val : {"?", "none", "some"}]
Sandbox == [diff : {"none", "ok", "bad", "gone"}, stash : {"none", "new", "left"},
            applied : BOOLEAN]
Checkout == [dirty : BOOLEAN, staged : BOOLEAN, mine : {"no", "local", "pushed"},
             new : BOOLEAN, head : Nat]

(* A loop that has the sandbox; one at work on an iteration.               *)
Inside(p) == L[p].mode = "loop" /\ L[p].pc \notin {"off", "load", "lock"}
Working(p) == L[p].mode = "loop" /\ L[p].pc \in Hardening \cup Finishing
Retries(p) == L[p].pc # "off" /\ L[p].mode = "retry"

TypedProcess(p) ==
  /\ L[p] \in Process /\ Good(L[p].mem)
  /\ L[p].mode = "retry" => L[p].pc \in Finishing \cup {"post"} /\ L[p].mem.status = "blocked"
  /\ L[p].mode = "loop" => L[p].pc # "post"
  /\ L[p].pc = "rebase" => L[p].mem.n < MaxIter
  /\ Working(p) => L[p].mem.cur = L[p].mem.n + 1
  /\ L[p].sha => L[p].pc = "record"
  /\ L[p].pc = "record" => L[p].res # "none"
  /\ L[p].hit # "no" => L[p].pc \in CodexSteps
  /\ locks.sandbox = p <=> Inside(p)

Typed ==
  /\ Good(m) /\ (m.status = "absent" => m = NoRun) /\ rt \in State /\ sb \in Sandbox /\ src \in Checkout
  /\ L \in [Procs -> Process] /\ \A p \in Procs : TypedProcess(p)
  /\ locks \in [sandbox : Procs \cup {None}, source : Procs \cup {None}]
  /\ aside \in [stop : Row, clean : Row, sup : Row]
  /\ \A k \in {"stop", "clean", "sup"} : Good(aside[k])
  /\ aside.sup # NoRun => aside.sup.apply \in {"blocked-before", "blocked-after"}
  /\ spent \in Nat /\ seen \subseteq {"verify", "review"}
  /\ mixed \in BOOLEAN /\ reopened \in BOOLEAN
  /\ ~(src.staged /\ sb.applied /\ src.mine # "no")

(***************************************************************************)
(* What is checked is what is in the sandbox                               *)
(***************************************************************************)
Checked == {"verify", "review"} \subseteq seen
Covered == Checked \/ sb.diff \in {"none", "gone"}
GoesOn(p) == Inside(p) /\ (L[p].pc = "next" => L[p].ok)

Following(p) ==
  /\ Retries(p) => locks.sandbox = None
  /\ GoesOn(p) => m.n = L[p].mem.n /\ m.cur = L[p].mem.cur
  /\ Working(p) => rt.it = m.cur
  /\ L[p].pc = "implement" => rt.v = "?"
  /\ L[p].pc = "verify" => rt.edit
  /\ L[p].pc \in {"review", "gate", "validate"} => rt.v # "?"
  /\ L[p].pc \in Hardening => m.status # "blocked"
  /\ L[p].pc \in {"follow", "conclude"} /\ L[p].ok => Checked
  /\ L[p].mode = "loop" /\ L[p].pc \in Finishing => Checked
  /\ L[p].pc = "stage" => Covered
  /\ L[p].pc = "record" /\ L[p].res = "blocked-before" => Covered

RowVerified ==
  /\ rt.it <= m.n + 1 /\ (rt.v # "?" => rt.edit)
  /\ rt.it = m.n + 1 /\ rt.v = "pass" => "verify" \in seen
  /\ m.status = "blocked" /\ m.apply = "blocked-before" => Covered
Verified == RowVerified /\ \A p \in Procs : Following(p)

(***************************************************************************)
(* What the row says of the source                                         *)
(***************************************************************************)
Empty == sb.diff \in {"none", "gone"} \/ sb.applied
Committed == sb.applied /\ (src.mine # "no" \/ Managed)
Pushed == sb.applied /\ (src.mine = "pushed" \/ Managed)

Claims(p) ==
  /\ GoesOn(p) => L[p].mem.apply = "none" /\ m.apply = "none"
  /\ Retries(p) /\ L[p].mem.sha => Committed
  /\ L[p].sha \/ L[p].pc = "push" => Committed
  /\ L[p].pc = "record" /\ L[p].res = "pushed" => Pushed
  /\ L[p].pc = "record" /\ L[p].res = "no-op" => Empty

RowTruthful ==
  /\ m.sha => Committed
  /\ m.apply = "pushed" => Pushed
  /\ m.apply = "no-op" => Empty
Truthful == RowTruthful /\ \A p \in Procs : Claims(p)

(* While a process has the sandbox the others wait, or do nothing.         *)
Apart(p) == L[p].mode = "loop" /\ L[p].pc \in {"off", "load", "lock"}

IInv == Typed /\ (~mixed => Verified) /\ (~mixed /\ ~reopened => Truthful)

-----------------------------------------------------------------------------
(***************************************************************************)
(* The operators the loop is built from                                    *)
(***************************************************************************)
LEMMA NextIs ==
  ASSUME NEW row, Good(row)
  PROVE NextIteration(row) = row.n + 1
  BY DEF Good, Row, NextIteration

(* Only the status changes, and what is said of it.                        *)
Alike(r, s) == r.n = s.n /\ r.cur = s.cur /\ r.apply = s.apply /\ r.sha = s.sha

LEMMA StatusRows ==
  ASSUME NEW row, Good(row)
  PROVE /\ Good(Running(row)) /\ Running(row).status = "running" /\ Alike(Running(row), row)
        /\ Good(Failed(row)) /\ Failed(row).status = "failed" /\ Alike(Failed(row), row)
  BY DEF Good, Row, Running, Failed, Statuses, Alike

LEMMA Writing ==
  ASSUME NEW row, Good(row), Write(row)
  PROVE Good(m') /\ m'.status = row.status /\ Alike(m', row)
  BY DEF Good, Row, Write, Alike

LEMMA WritesRunning ==
  ASSUME NEW row, Good(row), Write(Running(row))
  PROVE Good(m') /\ m'.status = "running" /\ Alike(m', row)
  <1>1. Good(Running(row)) /\ Running(row).status = "running" /\ Alike(Running(row), row)
    BY StatusRows
  <1>2. Good(m') /\ m'.status = Running(row).status /\ Alike(m', Running(row))
    BY <1>1, Writing
  <1> QED
    BY <1>1, <1>2 DEF Alike

LEMMA WritesFailed ==
  ASSUME NEW row, Good(row), Write(Failed(row))
  PROVE Good(m') /\ m'.status = "failed" /\ Alike(m', row)
  <1>1. Good(Failed(row)) /\ Failed(row).status = "failed" /\ Alike(Failed(row), row)
    BY StatusRows
  <1>2. Good(m') /\ m'.status = Failed(row).status /\ Alike(m', Failed(row))
    BY <1>1, Writing
  <1> QED
    BY <1>1, <1>2 DEF Alike

LEMMA Summing ==
  ASSUME NEW row, Good(row), row.cur = row.n + 1
  PROVE /\ Good(Summed(row)) /\ Summed(row).n = row.n + 1 /\ Summed(row).cur = row.cur
        /\ Summed(row).apply = row.apply /\ Summed(row).sha = row.sha
        /\ Summed(row).status = row.status
  BY PositiveAssumption DEF Good, Row, Summed

LEMMA Moving ==
  ASSUME Typed, NEW p \in Procs, NEW ch \in Process, L' = [L EXCEPT ![p] = ch]
  PROVE L' \in [Procs -> Process] /\ L'[p] = ch /\ \A q \in Procs \ {p} : L'[q] = L[q]
  BY DEF Typed

LEMMA Going ==
  ASSUME Typed, NEW p \in Procs, NEW step \in Steps
  PROVE LET ch == [L[p] EXCEPT !.pc = step] IN
        /\ ch \in Process /\ ch.pc = step /\ ch.mode = L[p].mode /\ ch.mem = L[p].mem
        /\ ch.ok = L[p].ok /\ ch.res = L[p].res /\ ch.sha = L[p].sha /\ ch.hit = L[p].hit
  <1>1. L[p] \in Process
    BY DEF Typed, TypedProcess
  <1> QED
    BY <1>1 DEF Process

LEMMA Idling ==
  /\ Idle \in Process /\ Good(NoRun) /\ NoState \in State /\ Idle.mem = NoRun
  /\ NoRun \in Row /\ Idle.pc = "off" /\ Idle.mode = "loop" /\ Idle.sha = FALSE
  /\ Idle.res = "none" /\ Idle.hit = "no" /\ Idle.ok = FALSE
  BY NatAssumption, PositiveAssumption
     DEF Idle, NoRun, NoState, Process, Row, Good, State, Rounds, Steps, Hardening, Finishing, Statuses

LEMMA OthersTyped ==
  ASSUME Typed, NEW p \in Procs, \A q \in Procs \ {p} : L'[q] = L[q],
         \A q \in Procs \ {p} : locks'.sandbox = q <=> locks.sandbox = q,
         TypedProcess(p)'
  PROVE \A q \in Procs : TypedProcess(q)'
  BY DEF Typed, TypedProcess, Inside, Working, Good

(* Of a process apart there is nothing to show, and whoever has the        *)
(* sandbox has it alone.                                                   *)
LEMMA ApartFollows ==
  ASSUME NEW q \in Procs, TypedProcess(q)', Apart(q)'
  PROVE Following(q)' /\ Claims(q)'
  BY DEF Apart, TypedProcess, Following, Claims, Inside, Working, Retries, GoesOn,
         Hardening, Finishing, Process

LEMMA Alone ==
  ASSUME Typed, Verified, NEW p \in Procs, Inside(p), NEW q \in Procs \ {p}
  PROVE Apart(q)
  <1>1. locks.sandbox = p /\ p # None
    BY NoneAssumption DEF Typed, TypedProcess
  <1>2. TypedProcess(q) /\ ~Inside(q) /\ ~Retries(q)
    BY <1>1 DEF Typed, TypedProcess, Verified, Following
  <1>3. L[q].mode \in {"loop", "retry"} /\ (L[q].mode = "retry" => L[q].pc # "off")
    BY <1>2 DEF TypedProcess, Process, Finishing
  <1> QED
    BY <1>2, <1>3 DEF Inside, Retries, Apart

(* A step of a process that has the sandbox: the row, and the process.     *)
LEMMA InsideStep ==
  ASSUME IInv, Typed', NEW p \in Procs, Inside(p), \A q \in Procs \ {p} : L'[q] = L[q],
         mixed' = mixed, reopened' = reopened,
         ~mixed => RowVerified' /\ Following(p)',
         ~mixed /\ ~reopened => RowTruthful' /\ Claims(p)'
  PROVE IInv'
  <1>1. ASSUME ~mixed, NEW q \in Procs \ {p} PROVE Following(q)' /\ Claims(q)'
    <2>1. Apart(q)
      BY <1>1, Alone DEF IInv
    <2>2. Apart(q)' /\ TypedProcess(q)'
      BY <2>1, <1>1 DEF Apart, Typed
    <2> QED
      BY <2>2, ApartFollows
  <1> QED
    BY <1>1 DEF IInv, Verified, Truthful

LEMMA Leaving ==
  ASSUME Typed, NEW p \in Procs, Leave(p)
  PROVE /\ L' \in [Procs -> Process] /\ L'[p] = Idle /\ \A q \in Procs \ {p} : L'[q] = L[q]
        /\ locks' \in [sandbox : Procs \cup {None}, source : Procs \cup {None}]
        /\ locks'.sandbox = IF locks.sandbox = p THEN None ELSE locks.sandbox
        /\ \A q \in Procs : TypedProcess(q)'
        /\ Apart(p)'
  <1>1. L' = [L EXCEPT ![p] = Idle] /\ locks' = [k \in DOMAIN locks |-> IF locks[k] = p THEN None ELSE locks[k]]
    BY DEF Leave, Free
  <1>2. L' \in [Procs -> Process] /\ L'[p] = Idle /\ \A q \in Procs \ {p} : L'[q] = L[q]
    BY <1>1, Idling, Moving
  <1>3. locks \in [sandbox : Procs \cup {None}, source : Procs \cup {None}]
    BY DEF Typed
  <1>4. /\ locks' \in [sandbox : Procs \cup {None}, source : Procs \cup {None}]
        /\ locks'.sandbox = IF locks.sandbox = p THEN None ELSE locks.sandbox
    BY <1>1, <1>3
  <1>5. locks'.sandbox # p /\ \A q \in Procs \ {p} : locks'.sandbox = q <=> locks.sandbox = q
    BY <1>4, NoneAssumption
  <1>6. TypedProcess(p)' /\ Apart(p)'
    BY <1>2, <1>5, Idling DEF TypedProcess, Good, Inside, Working, Hardening, Finishing, Apart
  <1> QED
    BY <1>2, <1>4, <1>5, <1>6, OthersTyped

LEMMA Advancing ==
  ASSUME Typed, NEW p \in Procs, NEW ch \in Process, Good(ch.mem), Advance(p, ch)
  PROVE /\ L' \in [Procs -> Process] /\ L'[p] = ch /\ \A q \in Procs \ {p} : L'[q] = L[q]
        /\ Good(m') /\ m'.status = "running" /\ Alike(m', ch.mem)
  <1>1. L' = [L EXCEPT ![p] = ch] /\ Write(Running(ch.mem))
    BY DEF Advance
  <1> QED
    BY <1>1, Moving, WritesRunning

(* A step of the hardening of an iteration.                                *)
LEMMA HardeningFacts ==
  ASSUME IInv, NEW p \in Procs, L[p].pc \in Hardening
  PROVE /\ Inside(p) /\ Working(p) /\ GoesOn(p) /\ TypedProcess(p) /\ L[p] \in Process
        /\ Good(L[p].mem) /\ L[p].mem.cur = L[p].mem.n + 1 /\ L[p].mode = "loop"
        /\ locks.sandbox = p /\ L[p].sha = FALSE
        /\ ~mixed => /\ Following(p) /\ m.n = L[p].mem.n /\ m.cur = L[p].mem.cur
                     /\ rt.it = m.cur
        /\ ~mixed /\ ~reopened => L[p].mem.apply = "none" /\ m.apply = "none"
  <1>1. TypedProcess(p) /\ L[p].mode \in {"loop", "retry"} /\ L[p] \in Process
    BY DEF IInv, Typed, TypedProcess, Process
  <1>2. L[p].mode = "loop"
    BY <1>1 DEF TypedProcess, Hardening, Finishing
  <1>3. Inside(p) /\ Working(p) /\ GoesOn(p)
    BY <1>2 DEF Inside, Working, GoesOn, Hardening
  <1>4. L[p].sha \in BOOLEAN /\ (L[p].sha => L[p].pc = "record")
    BY <1>1 DEF TypedProcess, Process
  <1>5. L[p].sha = FALSE
    BY <1>4 DEF Hardening
  <1>6. ~mixed => Following(p)
    BY DEF IInv, Verified
  <1>7. ~mixed /\ ~reopened => Claims(p)
    BY DEF IInv, Truthful
  <1> QED
    BY <1>1, <1>2, <1>3, <1>5, <1>6, <1>7 DEF TypedProcess, Following, Claims

(* With nothing applied the row says nothing of the source.                *)
LEMMA NothingSaid ==
  ASSUME Good(m'), m'.apply = "none"
  PROVE RowTruthful'
  BY DEF Good, RowTruthful

-----------------------------------------------------------------------------
(***************************************************************************)
(* The steps of an iteration                                               *)
(***************************************************************************)
(* What a step of the hardening does to the process that takes it.         *)
LEMMA Hardened ==
  ASSUME IInv, NEW p \in Procs, L[p].pc \in Hardening, L[p].hit = "no",
         NEW ch \in Process, Advance(p, ch), ch.mode = "loop", ch.hit = "no", ch.sha = FALSE,
         Alike(ch.mem, L[p].mem), Good(ch.mem), ch.pc \in Hardening \cup {"stage"},
         UNCHANGED locks
  PROVE /\ L' \in [Procs -> Process] /\ L'[p] = ch /\ \A q \in Procs \ {p} : L'[q] = L[q]
        /\ Good(m') /\ m'.status = "running" /\ Alike(m', L[p].mem)
        /\ \A q \in Procs : TypedProcess(q)'
        /\ Inside(p) /\ mixed \in BOOLEAN
        /\ ~mixed => m'.n = m.n /\ m'.cur = m.cur
        /\ ~mixed /\ ~reopened => m'.apply = "none" /\ RowTruthful' /\ Claims(p)'
  <1>0. Typed
    BY DEF IInv
  <1>1. /\ L' \in [Procs -> Process] /\ L'[p] = ch /\ \A q \in Procs \ {p} : L'[q] = L[q]
        /\ Good(m') /\ m'.status = "running" /\ Alike(m', ch.mem)
    BY <1>0, Advancing
  <1>2. /\ Inside(p) /\ locks.sandbox = p /\ Good(L[p].mem)
        /\ L[p].mem.cur = L[p].mem.n + 1
        /\ ~mixed => m.n = L[p].mem.n /\ m.cur = L[p].mem.cur
        /\ ~mixed /\ ~reopened => L[p].mem.apply = "none"
    BY HardeningFacts
  <1>3. TypedProcess(p)'
    BY <1>1, <1>2 DEF TypedProcess, Good, Inside, Working, Hardening, Finishing, CodexSteps, Alike
  <1>4. \A q \in Procs : TypedProcess(q)'
    BY <1>0, <1>1, <1>3, OthersTyped
  <1>5. ~mixed /\ ~reopened => m'.apply = "none" /\ RowTruthful'
    BY <1>1, <1>2, NothingSaid DEF Alike
  <1>6. ~mixed /\ ~reopened => Claims(p)'
    BY <1>1, <1>2, <1>5 DEF Claims, Alike, GoesOn, Inside, Retries, Hardening
  <1> QED
    BY <1>0, <1>1, <1>2, <1>4, <1>5, <1>6 DEF Alike, Typed

(* And with the rest of the state, what is left to show of it.             *)
LEMMA HardenedTyped ==
  ASSUME IInv, L' \in [Procs -> Process], Good(m'), m'.status = "running",
         \A q \in Procs : TypedProcess(q)',
         UNCHANGED <<src, locks, aside, spent, mixed, reopened>>,
         rt' \in State, sb' \in Sandbox, sb'.applied => sb.applied,
         seen' \subseteq {"verify", "review"}
  PROVE Typed'
  BY DEF IInv, Typed

LEMMA ImplementStep ==
  ASSUME IInv, NEW p \in Procs, Implement(p)
  PROVE IInv'
  <1>1. L[p].pc = "implement" /\ L[p].hit = "no" /\ L[p].pc \in Hardening
    BY DEF Implement, At, Hardening
  <1> DEFINE ch == [L[p] EXCEPT !.pc = "verify"]
  <1>2. /\ ch \in Process /\ ch.pc = "verify" /\ ch.mode = L[p].mode /\ ch.mem = L[p].mem
        /\ ch.ok = L[p].ok /\ ch.sha = L[p].sha /\ ch.hit = L[p].hit
    BY Going DEF IInv, Steps, Hardening
  <1>3. /\ Advance(p, ch) /\ UNCHANGED <<src, locks, aside, spent, mixed, reopened>>
        /\ CodexEdits /\ rt' = [rt EXCEPT !.edit = TRUE]
    BY DEF Implement, Then, Quiet
  <1> HIDE DEF ch
  <1>4. /\ ch.pc \in Hardening /\ ch.mode = "loop" /\ ch.sha = FALSE /\ Good(ch.mem)
        /\ Alike(ch.mem, L[p].mem)
    BY <1>1, <1>2, HardeningFacts DEF Hardening, Alike
  <1>5. /\ L' \in [Procs -> Process] /\ L'[p] = ch /\ \A q \in Procs \ {p} : L'[q] = L[q]
        /\ Good(m') /\ m'.status = "running" /\ \A q \in Procs : TypedProcess(q)'
        /\ Inside(p) /\ (~mixed => m'.n = m.n /\ m'.cur = m.cur)
        /\ Alike(m', L[p].mem)
        /\ ~mixed /\ ~reopened => RowTruthful' /\ Claims(p)'
    BY <1>1, <1>2, <1>3, <1>4, Hardened
  <1>6. rt' \in State /\ rt'.edit /\ rt'.v = rt.v /\ rt'.it = rt.it
    BY <1>3 DEF IInv, Typed, State
  <1>7. sb' \in Sandbox /\ ~sb'.applied /\ seen' = {}
    BY <1>3 DEF CodexEdits, IInv, Typed, Sandbox
  <1>8. Typed'
    BY <1>3, <1>5, <1>6, <1>7, HardenedTyped
  <1>9. ~mixed => rt.v = "?" /\ rt.it = m.cur /\ rt.it <= m.n + 1
    BY <1>1, HardeningFacts DEF Following, IInv, Verified, RowVerified
  <1>10. ~mixed => RowVerified'
    BY <1>5, <1>6, <1>9 DEF RowVerified
  <1>11. ~mixed => Following(p)'
    BY <1>2, <1>4, <1>5, <1>6, <1>9
       DEF Following, Retries, GoesOn, Inside, Working, Alike, Hardening, Finishing
  <1> QED
    BY <1>3, <1>5, <1>8, <1>10, <1>11, InsideStep

LEMMA VerifyStep ==
  ASSUME IInv, NEW p \in Procs, Verify(p)
  PROVE IInv'
  <1>1. L[p].pc = "verify" /\ L[p].hit = "no" /\ L[p].pc \in Hardening
    BY DEF Verify, At, Hardening
  <1> DEFINE ch == [L[p] EXCEPT !.pc = "review"]
  <1>2. /\ ch \in Process /\ ch.pc = "review" /\ ch.mode = L[p].mode /\ ch.mem = L[p].mem
        /\ ch.ok = L[p].ok /\ ch.sha = L[p].sha /\ ch.hit = L[p].hit
    BY Going DEF IInv, Steps, Hardening
  <1>3. Advance(p, ch) /\ UNCHANGED <<sb, src, locks, aside, spent, mixed, reopened>>
    BY DEF Verify, Then, Quiet
  <1>4. PICK v \in {"pass", "fail"} : /\ rt' = [rt EXCEPT !.v = v]
                                      /\ seen' = IF v = "pass" THEN seen \cup {"verify"} ELSE seen
    BY DEF Verify
  <1> HIDE DEF ch
  <1>5. /\ ch.pc \in Hardening /\ ch.mode = "loop" /\ ch.sha = FALSE /\ Good(ch.mem)
        /\ Alike(ch.mem, L[p].mem)
    BY <1>1, <1>2, HardeningFacts DEF Hardening, Alike
  <1>6. /\ L' \in [Procs -> Process] /\ L'[p] = ch /\ \A q \in Procs \ {p} : L'[q] = L[q]
        /\ Good(m') /\ m'.status = "running" /\ \A q \in Procs : TypedProcess(q)'
        /\ Inside(p) /\ (~mixed => m'.n = m.n /\ m'.cur = m.cur)
        /\ Alike(m', L[p].mem)
        /\ ~mixed /\ ~reopened => RowTruthful' /\ Claims(p)'
    BY <1>1, <1>2, <1>3, <1>5, Hardened
  <1>7. rt' \in State /\ rt'.edit = rt.edit /\ rt'.v = v /\ rt'.it = rt.it
    BY <1>4 DEF IInv, Typed, State
  <1>8. Typed'
    <2>1. sb' \in Sandbox /\ (sb'.applied => sb.applied) /\ seen' \subseteq {"verify", "review"}
      BY <1>3, <1>4 DEF IInv, Typed
    <2> QED
      BY <1>3, <1>6, <1>7, <2>1, HardenedTyped
  <1>9. ~mixed => rt.edit /\ rt.it = m.cur /\ rt.it <= m.n + 1
    BY <1>1, HardeningFacts DEF Following, IInv, Verified, RowVerified
  <1>10. ~mixed => RowVerified'
    BY <1>4, <1>6, <1>7, <1>9 DEF RowVerified
  <1>11. ~mixed => Following(p)'
    BY <1>2, <1>5, <1>6, <1>7, <1>9
       DEF Following, Retries, GoesOn, Inside, Working, Alike, Hardening, Finishing
  <1> QED
    BY <1>3, <1>6, <1>8, <1>10, <1>11, InsideStep

LEMMA ReviewStep ==
  ASSUME IInv, NEW p \in Procs, Review(p)
  PROVE IInv'
  <1>1. L[p].pc = "review" /\ L[p].hit = "no" /\ L[p].pc \in Hardening
    BY DEF Review, At, Hardening
  <1> DEFINE ch == [L[p] EXCEPT !.pc = "gate"]
  <1>2. /\ ch \in Process /\ ch.pc = "gate" /\ ch.mode = L[p].mode /\ ch.mem = L[p].mem
        /\ ch.ok = L[p].ok /\ ch.sha = L[p].sha /\ ch.hit = L[p].hit
    BY Going DEF IInv, Steps, Hardening
  <1>3. Advance(p, ch) /\ UNCHANGED <<sb, src, locks, aside, spent, seen, mixed, reopened>>
    BY DEF Review, Then, Quiet
  <1>4. PICK f \in {"none", "some"} : rt' = [rt EXCEPT !.f = f]
    BY DEF Review
  <1> HIDE DEF ch
  <1>5. /\ ch.pc \in Hardening /\ ch.mode = "loop" /\ ch.sha = FALSE /\ Good(ch.mem)
        /\ Alike(ch.mem, L[p].mem)
    BY <1>1, <1>2, HardeningFacts DEF Hardening, Alike
  <1>6. /\ L' \in [Procs -> Process] /\ L'[p] = ch /\ \A q \in Procs \ {p} : L'[q] = L[q]
        /\ Good(m') /\ m'.status = "running" /\ \A q \in Procs : TypedProcess(q)'
        /\ Inside(p) /\ (~mixed => m'.n = m.n /\ m'.cur = m.cur)
        /\ Alike(m', L[p].mem)
        /\ ~mixed /\ ~reopened => RowTruthful' /\ Claims(p)'
    BY <1>1, <1>2, <1>3, <1>5, Hardened
  <1>7. rt' \in State /\ rt'.edit = rt.edit /\ rt'.v = rt.v /\ rt'.it = rt.it
    BY <1>4 DEF IInv, Typed, State
  <1>8. Typed'
    <2>1. sb' \in Sandbox /\ (sb'.applied => sb.applied) /\ seen' \subseteq {"verify", "review"}
      BY <1>3 DEF IInv, Typed
    <2> QED
      BY <1>3, <1>6, <1>7, <2>1, HardenedTyped
  <1>9. ~mixed => rt.it = m.cur /\ RowVerified /\ rt.v # "?"
    BY <1>1, HardeningFacts DEF Following, IInv, Verified
  <1>10. ~mixed => RowVerified'
    BY <1>3, <1>6, <1>7, <1>9 DEF RowVerified
  <1>11. ~mixed => Following(p)'
    BY <1>2, <1>5, <1>6, <1>7, <1>9
       DEF Following, Retries, GoesOn, Inside, Working, Alike, Hardening, Finishing
  <1> QED
    BY <1>3, <1>6, <1>8, <1>10, <1>11, InsideStep

LEMMA GateStep ==
  ASSUME IInv, NEW p \in Procs, Gate(p)
  PROVE IInv'
  <1>1. L[p].pc = "gate" /\ L[p].hit = "no" /\ L[p].pc \in Hardening
    BY DEF Gate, At, Hardening
  <1>2. L[p] \in Process /\ sb \in Sandbox /\ rt \in State /\ ~Gone
    BY DEF IInv, Typed, TypedProcess, Gate, At, CodexSteps
  <1>3. /\ rt' = rt \/ \E g \in {"none", "some"} : rt' = [rt EXCEPT !.g = g]
        /\ UNCHANGED <<sb, src, locks, aside, spent, seen, mixed, reopened>>
    <2>1. Quiet /\ UNCHANGED <<sb, seen>>
      BY DEF Gate
    <2>2. \E asked \in BOOLEAN :
             rt' \in IF asked THEN {[rt EXCEPT !.g = g] : g \in {"none", "some"}} ELSE {rt}
      BY DEF Gate
    <2> QED
      BY <2>1, <2>2 DEF Quiet
  <1>4. \E audit \in {"", "no-op", "blocked", "passed"}, some \in BOOLEAN :
          Advance(p, [L[p] EXCEPT !.pc = "validate", !.audit = audit, !.found = some])
    <2> DEFINE due == rt.v = "pass" /\ rt.f = "none"
               asked == due /\ sb.diff = "ok"
               audit == IF ~due THEN L[p].audit ELSE IF sb.diff = "none" THEN "no-op"
                        ELSE IF sb.diff = "bad" THEN "blocked" ELSE "passed"
               some == rt.f = "some" \/ (asked /\ rt'.g = "some")
    <2>1. Advance(p, [L[p] EXCEPT !.pc = "validate", !.audit = audit, !.found = some])
      BY DEF Gate
    <2>2. audit \in {"", "no-op", "blocked", "passed"} /\ some \in BOOLEAN
      BY <1>2 DEF Process
    <2> HIDE DEF audit, some
    <2> QED
      BY <2>1, <2>2
  <1>5. PICK audit \in {"", "no-op", "blocked", "passed"}, some \in BOOLEAN :
          Advance(p, [L[p] EXCEPT !.pc = "validate", !.audit = audit, !.found = some])
    BY <1>4
  <1> DEFINE ch == [L[p] EXCEPT !.pc = "validate", !.audit = audit, !.found = some]
  <1>6. /\ ch \in Process /\ ch.pc = "validate" /\ ch.mode = L[p].mode /\ ch.mem = L[p].mem
        /\ ch.ok = L[p].ok /\ ch.sha = L[p].sha /\ ch.hit = L[p].hit
    BY <1>2 DEF Process, Steps, Hardening
  <1>7. Advance(p, ch)
    BY <1>5
  <1> HIDE DEF ch
  <1>8. /\ ch.pc \in Hardening /\ ch.mode = "loop" /\ ch.sha = FALSE /\ Good(ch.mem)
        /\ Alike(ch.mem, L[p].mem)
    BY <1>1, <1>6, HardeningFacts DEF Hardening, Alike
  <1>9. /\ L' \in [Procs -> Process] /\ L'[p] = ch /\ \A q \in Procs \ {p} : L'[q] = L[q]
        /\ Good(m') /\ m'.status = "running" /\ \A q \in Procs : TypedProcess(q)'
        /\ Inside(p) /\ (~mixed => m'.n = m.n /\ m'.cur = m.cur)
        /\ Alike(m', L[p].mem)
        /\ ~mixed /\ ~reopened => RowTruthful' /\ Claims(p)'
    BY <1>1, <1>3, <1>6, <1>7, <1>8, Hardened
  <1>10. rt' \in State /\ rt'.edit = rt.edit /\ rt'.v = rt.v /\ rt'.it = rt.it
    BY <1>2, <1>3 DEF State
  <1>11. Typed'
    <2>1. sb' \in Sandbox /\ (sb'.applied => sb.applied) /\ seen' \subseteq {"verify", "review"}
      BY <1>3 DEF IInv, Typed
    <2> QED
      BY <1>3, <1>9, <1>10, <2>1, HardenedTyped
  <1>12. ~mixed => rt.it = m.cur /\ RowVerified /\ rt.v # "?"
    BY <1>1, HardeningFacts DEF Following, IInv, Verified
  <1>13. ~mixed => RowVerified'
    BY <1>3, <1>9, <1>10, <1>12 DEF RowVerified
  <1>14. ~mixed => Following(p)'
    BY <1>6, <1>8, <1>9, <1>10, <1>12
       DEF Following, Retries, GoesOn, Inside, Working, Alike, Hardening, Finishing
  <1> QED
    BY <1>3, <1>9, <1>11, <1>13, <1>14, InsideStep

LEMMA ValidateStep ==
  ASSUME IInv, NEW p \in Procs, Validate(p)
  PROVE IInv'
  <1>1. L[p].pc = "validate" /\ L[p].hit = "no" /\ L[p].pc \in Hardening
    BY DEF Validate, At, Hardening
  <1>2. L[p] \in Process /\ sb \in Sandbox /\ rt \in State
    BY DEF IInv, Typed, TypedProcess
  <1>3. \E left \in {"none", "some"}, next \in BOOLEAN, ok \in BOOLEAN :
          /\ ok => rt.v # "fail" /\ left = "none" /\ ~next
          /\ next => RoundLeft(rt.r)
          /\ rt' = IF next THEN NextRound(rt)
                   ELSE [rt EXCEPT !.val = left, !.g = "none",
                                   !.f = IF rt.v = "fail" THEN "some" ELSE @]
          /\ seen' = IF left = "none" THEN seen \cup {"review"} ELSE seen
          /\ Advance(p, [L[p] EXCEPT !.pc = IF next THEN "implement" ELSE "follow",
                                     !.found = FALSE, !.ok = ok])
    <2> DEFINE again(left) == rt.v = "fail" \/ left = "some"
               more(left) == again(left) /\ RoundLeft(rt.r)
    <2>1. PICK left \in IF rt.val # "?" THEN {rt.val}
                        ELSE IF L[p].found THEN {"none", "some"} ELSE {"none"} :
          /\ rt' = IF more(left) THEN NextRound(rt)
                   ELSE [rt EXCEPT !.val = left, !.g = "none",
                                   !.f = IF rt.v = "fail" THEN "some" ELSE @]
          /\ seen' = IF left = "none" THEN seen \cup {"review"} ELSE seen
          /\ Advance(p, [L[p] EXCEPT !.pc = IF more(left) THEN "implement" ELSE "follow",
                                     !.found = FALSE, !.ok = ~again(left)])
      BY DEF Validate
    <2>2. left \in {"none", "some"}
      BY <1>2, <2>1 DEF State
    <2>3. /\ ~again(left) => rt.v # "fail" /\ left = "none" /\ ~more(left)
          /\ more(left) => RoundLeft(rt.r)
          /\ more(left) \in BOOLEAN /\ (~again(left)) \in BOOLEAN
      BY <2>2
    <2> HIDE DEF more, again
    <2> QED
      BY <2>1, <2>2, <2>3
  <1>4. UNCHANGED <<sb, src, locks, aside, spent, mixed, reopened>>
    BY DEF Validate, Quiet
  <1>3a. PICK left \in {"none", "some"}, next \in BOOLEAN, ok \in BOOLEAN :
          /\ ok => rt.v # "fail" /\ left = "none" /\ ~next
          /\ next => RoundLeft(rt.r)
          /\ rt' = IF next THEN NextRound(rt)
                   ELSE [rt EXCEPT !.val = left, !.g = "none",
                                   !.f = IF rt.v = "fail" THEN "some" ELSE @]
          /\ seen' = IF left = "none" THEN seen \cup {"review"} ELSE seen
          /\ Advance(p, [L[p] EXCEPT !.pc = IF next THEN "implement" ELSE "follow",
                                     !.found = FALSE, !.ok = ok])
    BY <1>3
  <1> DEFINE ch == [L[p] EXCEPT !.pc = IF next THEN "implement" ELSE "follow",
                                !.found = FALSE, !.ok = ok]
  <1>5. /\ ch \in Process /\ ch.pc = IF next THEN "implement" ELSE "follow"
        /\ ch.mode = L[p].mode /\ ch.mem = L[p].mem
        /\ ch.ok = ok /\ ch.sha = L[p].sha /\ ch.hit = L[p].hit
    BY <1>2 DEF Process, Steps, Hardening
  <1>6. Advance(p, ch) /\ (ok => rt.v # "fail" /\ left = "none" /\ ~next)
    BY <1>3a
  <1>7. /\ rt' \in State /\ rt'.it = rt.it
        /\ next => rt'.v = "?"
        /\ ~next => rt'.v = rt.v /\ rt'.edit = rt.edit
    <2>1. CASE next
      <3>1. rt' = NextRound(rt) /\ RoundLeft(rt.r)
        BY <1>3a, <2>1
      <3>2. MaxRounds \in Nat
        BY NatAssumption
      <3>3. rt.r + 1 \in Rounds
        BY <1>2, <3>1, <3>2 DEF State, RoundLeft, Rounds
      <3> QED
        BY <1>2, <2>1, <3>1, <3>3 DEF State, NextRound, NoState
    <2>2. CASE ~next
      BY <1>2, <1>3a, <2>2 DEF State
    <2> QED
      BY <2>1, <2>2
  <1>8. seen \subseteq seen' /\ (left = "none" => "review" \in seen') /\ seen' \subseteq {"verify", "review"}
    BY <1>3a DEF IInv, Typed
  <1> HIDE DEF ch
  <1>9. /\ ch.pc \in Hardening /\ ch.mode = "loop" /\ ch.sha = FALSE /\ Good(ch.mem)
        /\ Alike(ch.mem, L[p].mem)
    BY <1>1, <1>5, HardeningFacts DEF Hardening, Alike
  <1>10. /\ L' \in [Procs -> Process] /\ L'[p] = ch /\ \A q \in Procs \ {p} : L'[q] = L[q]
         /\ Good(m') /\ m'.status = "running" /\ \A q \in Procs : TypedProcess(q)'
         /\ Inside(p) /\ (~mixed => m'.n = m.n /\ m'.cur = m.cur)
         /\ Alike(m', L[p].mem)
         /\ ~mixed /\ ~reopened => RowTruthful' /\ Claims(p)'
    BY <1>1, <1>4, <1>5, <1>6, <1>9, Hardened
  <1>11. Typed'
    <2>1. sb' \in Sandbox /\ (sb'.applied => sb.applied)
      BY <1>4 DEF IInv, Typed
    <2> QED
      BY <1>4, <1>7, <1>8, <1>10, <2>1, HardenedTyped
  <1>12. ~mixed => /\ rt.it = m.cur /\ RowVerified /\ rt.v \in {"pass", "fail"}
                   /\ m.cur = m.n + 1
    BY <1>1, <1>2, HardeningFacts DEF Following, IInv, Verified, State
  <1>13. ~mixed => RowVerified'
    BY <1>7, <1>8, <1>10, <1>12 DEF RowVerified
  <1>14. ~mixed /\ ok => Checked'
    BY <1>6, <1>8, <1>12 DEF Checked, RowVerified
  <1>15. ~mixed => Following(p)'
    BY <1>5, <1>7, <1>9, <1>10, <1>12, <1>14
       DEF Following, Retries, GoesOn, Inside, Working, Alike, Hardening, Finishing
  <1> QED
    BY <1>4, <1>10, <1>11, <1>13, <1>15, InsideStep

LEMMA FollowStep ==
  ASSUME IInv, NEW p \in Procs, Follow(p)
  PROVE IInv'
  <1>1. L[p].pc = "follow" /\ L[p].hit = "no" /\ L[p].pc \in Hardening
    BY DEF Follow, At, Hardening
  <1>2. L[p] \in Process /\ Good(L[p].mem)
    BY DEF IInv, Typed, TypedProcess
  <1> DEFINE due == L[p].ok /\ L[p].audit # "blocked"
  <1>3. PICK appr \in BOOLEAN :
          Advance(p, [L[p] EXCEPT !.pc = "conclude", !.appr = appr,
                                  !.mem.follow = IF due THEN @ + 1 ELSE @])
    BY DEF Follow
  <1>4. UNCHANGED <<rt, sb, src, locks, aside, spent, seen, mixed, reopened>>
    BY DEF Follow, Quiet
  <1> DEFINE more == IF due THEN L[p].mem.follow + 1 ELSE L[p].mem.follow
             ch == [L[p] EXCEPT !.pc = "conclude", !.appr = appr,
                                !.mem = [L[p].mem EXCEPT !.follow = more]]
  <1>4a. L[p].mem.follow \in Nat
    BY <1>2 DEF Good, Row
  <1>5. Advance(p, ch) /\ more \in Nat
    BY <1>3, <1>4a
  <1> HIDE DEF more
  <1>6. Good([L[p].mem EXCEPT !.follow = more]) /\ Alike([L[p].mem EXCEPT !.follow = more], L[p].mem)
    BY <1>2, <1>5 DEF Good, Row, Alike
  <1>7. /\ ch \in Process /\ ch.pc = "conclude" /\ ch.mode = L[p].mode /\ Alike(ch.mem, L[p].mem)
        /\ Good(ch.mem) /\ ch.ok = L[p].ok /\ ch.sha = L[p].sha /\ ch.hit = L[p].hit
    BY <1>2, <1>6 DEF Process, Steps, Hardening, Good
  <1> HIDE DEF ch
  <1>8. ch.pc \in Hardening /\ ch.mode = "loop" /\ ch.sha = FALSE
    BY <1>1, <1>7, HardeningFacts DEF Hardening
  <1>9. /\ L' \in [Procs -> Process] /\ L'[p] = ch /\ \A q \in Procs \ {p} : L'[q] = L[q]
        /\ Good(m') /\ m'.status = "running" /\ \A q \in Procs : TypedProcess(q)'
        /\ Inside(p) /\ (~mixed => m'.n = m.n /\ m'.cur = m.cur)
        /\ Alike(m', L[p].mem)
        /\ ~mixed /\ ~reopened => RowTruthful' /\ Claims(p)'
    BY <1>1, <1>4, <1>5, <1>7, <1>8, Hardened
  <1>10. Typed'
    <2>1. rt' \in State /\ sb' \in Sandbox /\ (sb'.applied => sb.applied) /\ seen' \subseteq {"verify", "review"}
      BY <1>4 DEF IInv, Typed
    <2> QED
      BY <1>4, <1>9, <2>1, HardenedTyped
  <1>11. ~mixed => rt.it = m.cur /\ RowVerified /\ (L[p].ok => Checked)
    BY <1>1, HardeningFacts DEF Following, IInv, Verified
  <1>12. ~mixed => RowVerified'
    BY <1>4, <1>9, <1>11 DEF RowVerified
  <1>13. ~mixed => Following(p)'
    BY <1>4, <1>7, <1>8, <1>9, <1>11
       DEF Following, Retries, GoesOn, Inside, Working, Alike, Hardening, Finishing, Checked
  <1> QED
    BY <1>4, <1>9, <1>10, <1>12, <1>13, InsideStep

(* A process that has the sandbox leaves the run.                          *)
LEMMA LeavingStep ==
  ASSUME IInv, NEW p \in Procs, Inside(p), Leave(p), Good(m'), m'.status = "absent" => m' = NoRun,
         rt' \in State, sb' \in Sandbox, sb'.applied => sb.applied,
         seen' \subseteq {"verify", "review"}, spent' \in Nat,
         UNCHANGED <<src, aside, mixed, reopened>>,
         ~mixed => RowVerified',
         ~mixed /\ ~reopened => RowTruthful'
  PROVE IInv'
  <1>1. Typed
    BY DEF IInv
  <1>2. /\ L' \in [Procs -> Process] /\ \A q \in Procs \ {p} : L'[q] = L[q]
        /\ locks' \in [sandbox : Procs \cup {None}, source : Procs \cup {None}]
        /\ \A q \in Procs : TypedProcess(q)'
        /\ Apart(p)'
    BY <1>1, Leaving
  <1>3. Typed'
    BY <1>1, <1>2 DEF Typed
  <1>4. Following(p)' /\ Claims(p)'
    BY <1>2, ApartFollows
  <1> QED
    BY <1>2, <1>3, <1>4, InsideStep

LEMMA ConcludeStep ==
  ASSUME IInv, NEW p \in Procs, Conclude(p)
  PROVE IInv'
  <1> DEFINE row == L[p].mem
             over == L[p].appr /\ row.follow >= MaxFollowups
             bad == L[p].audit = "blocked"
  <1>1. L[p].pc = "conclude" /\ L[p].hit = "no" /\ L[p].pc \in Hardening
    BY DEF Conclude, At, Hardening
  <1>2. UNCHANGED <<rt, sb, src, aside, spent, seen, mixed, reopened>>
    BY DEF Conclude
  <1>3. PICK ok \in BOOLEAN :
          /\ ok => L[p].ok
          /\ \/ over /\ Write(Failed(Summed(row))) /\ Leave(p)
             \/ ok /\ ~bad /\ Then(p, "stage") /\ UNCHANGED locks
             \/ /\ ok /\ bad /\ Write([Summed(row) EXCEPT !.status = "blocked"])
                /\ L' = [L EXCEPT ![p] = [Idle EXCEPT !.pc = "next", !.mem = Summed(row)]]
                /\ UNCHANGED locks
             \/ /\ ~ok /\ ~over /\ UNCHANGED locks
                /\ Advance(p, [Idle EXCEPT !.pc = "next", !.mem = Summed(row), !.ok = TRUE])
    BY DEF Conclude
  <1>4. /\ Inside(p) /\ L[p] \in Process /\ Good(row) /\ row.cur = row.n + 1
        /\ locks.sandbox = p /\ L[p].mode = "loop"
        /\ ~mixed => m.n = row.n /\ m.cur = row.cur /\ rt.it = m.cur /\ RowVerified
        /\ ~mixed /\ L[p].ok => Checked
        /\ ~mixed /\ ~reopened => row.apply = "none"
    BY <1>1, HardeningFacts DEF IInv, Verified, Following
  <1>5. /\ Good(Summed(row)) /\ Summed(row).n = row.n + 1 /\ Summed(row).cur = row.cur
        /\ Summed(row).apply = row.apply
    BY <1>4, Summing
  <1>6. rt \in State /\ sb \in Sandbox /\ seen \subseteq {"verify", "review"} /\ spent \in Nat
        /\ Typed /\ m.n \in Nat
    BY DEF IInv, Typed, Good, Row
  <1> HIDE DEF over, bad
  <1>7. ASSUME m'.n = row.n + 1, ~mixed, m'.status = "blocked" => Covered'
        PROVE RowVerified'
    BY <1>2, <1>4, <1>6, <1>7 DEF RowVerified, State
  <1>8. ASSUME NEW ch \in Process, L' = [L EXCEPT ![p] = ch], UNCHANGED locks,
                ch.pc = "next", ch.mode = "loop", ch.sha = FALSE, ch.hit = "no", ch.mem = Summed(row),
                Good(m'), m'.status \in {"running", "blocked"}, m'.n = row.n + 1,
                m'.cur = row.cur, m'.apply = row.apply, ~mixed => RowVerified'
         PROVE IInv'
    <2>2. L' \in [Procs -> Process] /\ L'[p] = ch /\ \A q \in Procs \ {p} : L'[q] = L[q]
      BY <1>6, <1>8, Moving
    <2>3. TypedProcess(p)'
      BY <1>4, <1>5, <1>8, <2>2
         DEF TypedProcess, Inside, Working, Hardening, Finishing, CodexSteps
    <2>4. \A q \in Procs : TypedProcess(q)'
      BY <1>6, <1>8, <2>2, <2>3, OthersTyped
    <2>5. Typed'
      BY <1>2, <1>6, <1>8, <2>2, <2>4 DEF Typed
    <2>6. ~mixed => Following(p)'
      BY <1>5, <1>8, <2>2
         DEF Following, Retries, GoesOn, Inside, Working, Hardening, Finishing
    <2>7. ~mixed /\ ~reopened => RowTruthful' /\ Claims(p)'
      BY <1>4, <1>5, <1>8, <2>2, NothingSaid DEF Claims, Retries
    <2> QED
      BY <1>2, <1>4, <1>8, <2>2, <2>5, <2>6, <2>7, InsideStep
  <1>9. CASE Write(Failed(Summed(row))) /\ Leave(p)
    <2>1. Good(m') /\ m'.status = "failed" /\ Alike(m', Summed(row))
      BY <1>5, <1>9, WritesFailed
    <2>2. m'.n = row.n + 1 /\ m'.apply = row.apply
      BY <1>5, <2>1 DEF Alike
    <2>3. ~mixed /\ ~reopened => RowTruthful'
      BY <1>4, <2>1, <2>2, NothingSaid
    <2> QED
      BY <1>2, <1>4, <1>6, <1>7, <1>9, <2>1, <2>2, <2>3, LeavingStep
  <1>10. CASE ok /\ Then(p, "stage") /\ UNCHANGED locks
    <2> DEFINE ch == [L[p] EXCEPT !.pc = "stage"]
    <2>1. /\ ch \in Process /\ ch.pc = "stage" /\ ch.mode = L[p].mode /\ ch.mem = L[p].mem
          /\ ch.ok = L[p].ok /\ ch.sha = L[p].sha /\ ch.hit = L[p].hit
      BY <1>6, Going DEF Steps, Finishing
    <2>2. Advance(p, ch)
      BY <1>10 DEF Then
    <2> HIDE DEF ch
    <2>3. ch.mode = "loop" /\ ch.sha = FALSE /\ Good(ch.mem) /\ Alike(ch.mem, L[p].mem)
      BY <1>1, <2>1, HardeningFacts DEF Alike
    <2>4. /\ L' \in [Procs -> Process] /\ L'[p] = ch /\ \A q \in Procs \ {p} : L'[q] = L[q]
          /\ Good(m') /\ m'.status = "running" /\ \A q \in Procs : TypedProcess(q)'
          /\ (~mixed => m'.n = m.n /\ m'.cur = m.cur)
          /\ Alike(m', L[p].mem)
          /\ ~mixed /\ ~reopened => RowTruthful' /\ Claims(p)'
      BY <1>1, <1>10, <2>1, <2>2, <2>3, Hardened
    <2>5. Typed'
      BY <1>2, <1>6, <1>10, <2>4, HardenedTyped
    <2>6. ~mixed => RowVerified'
      BY <1>2, <1>4, <2>4 DEF RowVerified
    <2>7. ~mixed => Following(p)'
      BY <1>2, <1>3, <1>4, <1>10, <2>1, <2>3, <2>4
         DEF Following, Retries, GoesOn, Inside, Working, Alike, Hardening, Finishing, Checked, Covered
    <2> QED
      BY <1>2, <1>4, <2>4, <2>5, <2>6, <2>7, InsideStep
  <1>11. CASE /\ ok /\ Write([Summed(row) EXCEPT !.status = "blocked"]) /\ UNCHANGED locks
              /\ L' = [L EXCEPT ![p] = [Idle EXCEPT !.pc = "next", !.mem = Summed(row)]]
    <2> DEFINE done == [Summed(row) EXCEPT !.status = "blocked"]
    <2>1. Good(done) /\ done.status = "blocked" /\ Alike(done, Summed(row))
      BY <1>5 DEF Good, Row, Statuses, Alike
    <2>2. Good(m') /\ m'.status = "blocked" /\ Alike(m', Summed(row))
      BY <1>11, <2>1, Writing DEF Alike
    <2>3. ~mixed => Covered'
      BY <1>2, <1>3, <1>4, <1>11 DEF Covered, Checked
    <2> DEFINE ch == [Idle EXCEPT !.pc = "next", !.mem = Summed(row)]
    <2>4. /\ ch \in Process /\ ch.pc = "next" /\ ch.mode = "loop" /\ ch.sha = FALSE
          /\ ch.hit = "no" /\ ch.mem = Summed(row)
      BY <1>5, Idling DEF Process, Good, Steps
    <2>5. L' = [L EXCEPT ![p] = ch]
      BY <1>11
    <2> HIDE DEF ch
    <2>6. m'.n = row.n + 1 /\ m'.cur = row.cur /\ m'.apply = row.apply
      BY <1>5, <2>2 DEF Alike
    <2>7. ~mixed => RowVerified'
      BY <1>7, <2>3, <2>6
    <2> QED
      BY <1>11, <1>8, <2>2, <2>4, <2>5, <2>6, <2>7
  <1>12. CASE /\ ~ok /\ UNCHANGED locks
              /\ Advance(p, [Idle EXCEPT !.pc = "next", !.mem = Summed(row), !.ok = TRUE])
    <2> DEFINE ch == [Idle EXCEPT !.pc = "next", !.mem = Summed(row), !.ok = TRUE]
    <2>1. /\ ch \in Process /\ ch.pc = "next" /\ ch.mode = "loop" /\ ch.sha = FALSE
          /\ ch.hit = "no" /\ ch.mem = Summed(row)
      BY <1>5, Idling DEF Process, Good, Steps
    <2>2. Advance(p, ch)
      BY <1>12
    <2>3. L' = [L EXCEPT ![p] = ch]
      BY <2>2 DEF Advance
    <2> HIDE DEF ch
    <2>5. Good(m') /\ m'.status = "running" /\ Alike(m', Summed(row))
      BY <1>5, <1>6, <2>1, <2>2, Advancing
    <2>6. m'.n = row.n + 1 /\ m'.cur = row.cur /\ m'.apply = row.apply
      BY <1>5, <2>5 DEF Alike
    <2>7. ~mixed => RowVerified'
      BY <1>7, <2>5, <2>6
    <2> QED
      BY <1>8, <1>12, <2>1, <2>3, <2>5, <2>6, <2>7
  <1> QED
    BY <1>3, <1>9, <1>10, <1>11, <1>12

LEMMA BetweenFacts ==
  ASSUME IInv, NEW p \in Procs, L[p].pc \in {"next", "top", "rebase"}
  PROVE /\ Inside(p) /\ L[p] \in Process /\ Good(L[p].mem) /\ L[p].mode = "loop"
        /\ locks.sandbox = p /\ L[p].sha = FALSE /\ ~Working(p) /\ ~Retries(p)
        /\ GoesOn(p) <=> (L[p].pc = "next" => L[p].ok)
        /\ ~mixed => RowVerified
        /\ ~mixed /\ GoesOn(p) => m.n = L[p].mem.n /\ m.cur = L[p].mem.cur
        /\ ~mixed /\ ~reopened => RowTruthful
        /\ ~mixed /\ ~reopened /\ GoesOn(p) => L[p].mem.apply = "none" /\ m.apply = "none"
  <1>1. TypedProcess(p) /\ L[p].mode \in {"loop", "retry"} /\ L[p] \in Process
    BY DEF IInv, Typed, TypedProcess, Process
  <1>2. L[p].mode = "loop"
    BY <1>1 DEF TypedProcess, Finishing
  <1>3. Inside(p) /\ ~Working(p) /\ ~Retries(p)
    BY <1>2 DEF Inside, Working, Hardening, Finishing, Retries
  <1>4. L[p].sha \in BOOLEAN /\ (L[p].sha => L[p].pc = "record")
    BY <1>1 DEF TypedProcess, Process
  <1>5. ~mixed => Following(p) /\ RowVerified
    BY DEF IInv, Verified
  <1>6. ~mixed /\ ~reopened => Claims(p) /\ RowTruthful
    BY DEF IInv, Truthful
  <1> QED
    BY <1>1, <1>2, <1>3, <1>4, <1>5, <1>6 DEF TypedProcess, Following, Claims, GoesOn

(* A process goes to the top of the loop, or on to the next baseline.      *)
LEMMA ToTop ==
  ASSUME IInv, NEW p \in Procs, L[p].pc \in {"next", "top"}, L[p].hit = "no", GoesOn(p),
         NEW step \in {"top", "rebase"}, Goto(p, step),
         step = "rebase" => L[p].mem.n < MaxIter,
         rt' \in State, sb' \in Sandbox, sb'.applied = sb.applied, seen' \subseteq {"verify", "review"},
         src' \in Checkout, ~(src'.staged /\ sb'.applied /\ src'.mine # "no"),
         UNCHANGED <<m, locks, aside, spent, mixed, reopened>>,
         ~mixed => RowVerified'
  PROVE IInv'
  <1>1. /\ Inside(p) /\ L[p] \in Process /\ Good(L[p].mem) /\ L[p].mode = "loop"
        /\ locks.sandbox = p /\ L[p].sha = FALSE
        /\ ~mixed => m.n = L[p].mem.n /\ m.cur = L[p].mem.cur
        /\ ~mixed /\ ~reopened => L[p].mem.apply = "none" /\ m.apply = "none"
    BY BetweenFacts
  <1> DEFINE ch == [L[p] EXCEPT !.pc = step]
  <1>2. /\ ch \in Process /\ ch.pc = step /\ ch.mode = L[p].mode /\ ch.mem = L[p].mem
        /\ ch.ok = L[p].ok /\ ch.sha = L[p].sha /\ ch.hit = L[p].hit
    BY Going DEF IInv, Steps
  <1>3. L' = [L EXCEPT ![p] = ch]
    BY DEF Goto
  <1> HIDE DEF ch
  <1>4. Typed
    BY DEF IInv
  <1>5. L' \in [Procs -> Process] /\ L'[p] = ch /\ \A q \in Procs \ {p} : L'[q] = L[q]
    BY <1>2, <1>3, <1>4, Moving
  <1>6. TypedProcess(p)'
    BY <1>1, <1>2, <1>5 DEF TypedProcess, Inside, Working, Hardening, Finishing, CodexSteps
  <1>7. Typed'
    BY <1>4, <1>5, <1>6, OthersTyped DEF Typed
  <1>8. ~mixed => Following(p)'
    BY <1>1, <1>2, <1>5 DEF Following, Retries, GoesOn, Inside, Working, Hardening, Finishing
  <1>9. ~mixed /\ ~reopened => RowTruthful' /\ Claims(p)'
    BY <1>1, <1>2, <1>4, <1>5, NothingSaid DEF Typed, Claims, Retries
  <1> QED
    BY <1>1, <1>5, <1>7, <1>8, <1>9, InsideStep

LEMMA NextOneStep ==
  ASSUME IInv, NEW p \in Procs, NextOne(p)
  PROVE IInv'
  <1> DEFINE row == L[p].mem
  <1>1. L[p].pc = "next" /\ L[p].hit = "no"
    BY DEF NextOne, At
  <1>2. rt' = NoState /\ UNCHANGED <<sb, src, aside, spent, seen, mixed, reopened>>
    BY DEF NextOne
  <1>3. \/ Leave(p) /\ UNCHANGED m
        \/ L[p].ok /\ Goto(p, "top") /\ UNCHANGED <<m, locks>>
        \/ L[p].ok /\ Write(Failed(row)) /\ Leave(p)
    BY DEF NextOne
  <1>4. /\ Inside(p) /\ L[p] \in Process /\ Good(row)
        /\ GoesOn(p) <=> L[p].ok
        /\ ~mixed => RowVerified
        /\ ~mixed /\ ~reopened => RowTruthful
        /\ ~mixed /\ ~reopened /\ L[p].ok => row.apply = "none"
    BY <1>1, BetweenFacts
  <1>5. /\ Typed /\ Good(m) /\ (m.status = "absent" => m = NoRun) /\ sb \in Sandbox
        /\ seen \subseteq {"verify", "review"} /\ spent \in Nat /\ src \in Checkout
        /\ ~(src.staged /\ sb.applied /\ src.mine # "no")
    BY DEF IInv, Typed
  <1>6. rt' \in State /\ rt'.it = 0 /\ rt'.v = "?"
    BY <1>2, Idling DEF NoState
  <1>7. ASSUME ~mixed, Good(m'), m'.status = "blocked" /\ m'.apply = "blocked-before" => Covered
        PROVE RowVerified'
    BY <1>2, <1>6, <1>7 DEF RowVerified, Covered, Checked, Good, Row
  <1>8. ~mixed /\ m' = m => RowVerified'
    BY <1>4, <1>5, <1>7 DEF RowVerified
  <1>9. CASE Leave(p) /\ UNCHANGED m
    <2>1. ~mixed /\ ~reopened => RowTruthful'
      BY <1>2, <1>4, <1>9 DEF RowTruthful, Committed, Pushed, Empty
    <2> QED
      BY <1>2, <1>4, <1>5, <1>6, <1>8, <1>9, <2>1, LeavingStep
  <1>10. CASE L[p].ok /\ Goto(p, "top") /\ UNCHANGED <<m, locks>>
    BY <1>1, <1>2, <1>4, <1>5, <1>6, <1>8, <1>10, ToTop
  <1>11. CASE L[p].ok /\ Write(Failed(row)) /\ Leave(p)
    <2>1. Good(m') /\ m'.status = "failed" /\ Alike(m', row)
      BY <1>4, <1>11, WritesFailed
    <2>2. ~mixed /\ ~reopened => RowTruthful'
      BY <1>4, <1>11, <2>1, NothingSaid DEF Alike
    <2> QED
      BY <1>2, <1>4, <1>5, <1>6, <1>7, <1>11, <2>1, <2>2, LeavingStep
  <1> QED
    BY <1>3, <1>9, <1>10, <1>11

LEMMA Syncing ==
  ASSUME NEW s \in Checkout
  PROVE /\ Synced(s) \in Checkout
        /\ Synced(s).staged => s.staged
        /\ Synced(s).mine # "no" => s.mine # "no"
        /\ Synced(s).mine \in {"no", s.mine}
        /\ Synced(s).mine # s.mine => s.new /\ s.mine = "local"
        /\ Cleaned(s) \in Checkout /\ Cleaned(s).mine = s.mine /\ Cleaned(s).new = s.new
        /\ Cleaned(s).staged => s.staged
  <1> DEFINE remote == [s EXCEPT !.new = FALSE, !.head = @ + 1]
             reset == [remote EXCEPT !.mine = "no", !.dirty = FALSE, !.staged = FALSE]
  <1>1. remote \in Checkout /\ remote.staged = s.staged /\ remote.mine = s.mine
    <2>1. s.head + 1 \in Nat
      BY DEF Checkout
    <2> QED
      BY <2>1 DEF Checkout
  <1>2. reset \in Checkout /\ ~reset.staged /\ reset.mine = "no"
    BY <1>1 DEF Checkout
  <1>3. Synced(s) = IF ~s.new THEN s ELSE IF s.mine # "local" THEN remote ELSE reset
    BY DEF Synced
  <1> HIDE DEF remote, reset
  <1>4. Cleaned(s) \in Checkout /\ Cleaned(s).mine = s.mine /\ Cleaned(s).new = s.new
    BY DEF Checkout, Cleaned
  <1>5. Cleaned(s).staged => s.staged
    BY DEF Checkout, Cleaned
  <1> QED
    BY <1>1, <1>2, <1>3, <1>4, <1>5

(* An iteration is begun, or gone on with where its results end.           *)
LEMMA Entering ==
  ASSUME IInv, NEW p \in Procs, L[p].pc \in {"top", "rebase"}, L[p].hit = "no",
         NEW row, Good(row), Alike(row, L[p].mem), row.n < MaxIter, Enter(p, row),
         sb' \in Sandbox, sb'.applied = sb.applied,
         src' \in Checkout, ~(src'.staged /\ sb'.applied /\ src'.mine # "no"),
         UNCHANGED <<locks, aside, spent, seen, mixed, reopened>>
  PROVE IInv'
  <1> DEFINE i == row.n + 1
             own == [Running(row) EXCEPT !.cur = i]
             ch == [L[p] EXCEPT !.pc = First(rt'), !.audit = "", !.mem = own]
  <1>1. /\ Inside(p) /\ L[p] \in Process /\ L[p].mode = "loop" /\ GoesOn(p)
        /\ locks.sandbox = p /\ L[p].sha = FALSE
        /\ ~mixed => RowVerified
        /\ ~mixed => m.n = L[p].mem.n /\ m.cur = L[p].mem.cur
        /\ ~mixed /\ ~reopened => L[p].mem.apply = "none"
    BY BetweenFacts
  <1>2. /\ Typed /\ rt \in State /\ seen \subseteq {"verify", "review"} /\ spent \in Nat
    BY DEF IInv, Typed
  <1>3. NextIteration(row) = i /\ i \in 1..MaxIter
    BY NextIs, PositiveAssumption DEF Good, Row
  <1>4. /\ rt' = IF rt.it = i THEN rt ELSE [NoState EXCEPT !.it = i]
        /\ L' = [L EXCEPT ![p] = ch]
        /\ Write(own)
    BY <1>3 DEF Enter
  <1>5. /\ rt' \in State /\ rt'.it = i
        /\ rt' = rt \/ (rt'.v = "?" /\ ~rt'.edit)
    <2> DEFINE fresh == [NoState EXCEPT !.it = i]
    <2>1. NoState \in State /\ NoState.v = "?" /\ ~NoState.edit
      BY Idling DEF NoState
    <2>3. fresh \in State /\ fresh.it = i /\ fresh.v = "?" /\ ~fresh.edit
      BY <1>3, <2>1 DEF State
    <2> HIDE DEF fresh
    <2>2. rt' = IF rt.it = i THEN rt ELSE fresh
      BY <1>4 DEF fresh
    <2> QED
      BY <1>2, <2>2, <2>3
  <1>6. Good(own) /\ own.status = "running" /\ own.cur = i /\ own.n = row.n /\ own.apply = row.apply
    BY <1>3, StatusRows DEF Good, Row, Alike
  <1>7. /\ First(rt') \in {"implement", "verify", "review", "gate"}
        /\ First(rt') = "implement" => ~rt'.edit
        /\ First(rt') = "verify" => rt'.edit
        /\ First(rt') \in {"review", "gate"} => rt'.v # "?"
    BY DEF First
  <1>8. /\ ch \in Process /\ ch.pc = First(rt') /\ ch.mode = "loop" /\ ch.mem = own
        /\ ch.sha = FALSE /\ ch.hit = "no"
    <2>1. own \in Row /\ First(rt') \in Steps
      BY <1>6, <1>7 DEF Good, Steps, Hardening
    <2> HIDE DEF own
    <2> QED
      BY <1>1, <2>1 DEF Process
  <1> HIDE DEF own, ch
  <1>9. Good(m') /\ m'.status = "running" /\ m'.n = row.n /\ m'.cur = i /\ m'.apply = row.apply
    BY <1>4, <1>6, Writing DEF Alike
  <1>10. L' \in [Procs -> Process] /\ L'[p] = ch /\ \A q \in Procs \ {p} : L'[q] = L[q]
    BY <1>2, <1>4, <1>8, Moving
  <1>11. TypedProcess(p)'
    BY <1>1, <1>6, <1>7, <1>8, <1>10 DEF TypedProcess, Inside, Working, Hardening, Finishing
  <1>12. Typed'
    BY <1>2, <1>5, <1>9, <1>10, <1>11, OthersTyped DEF Typed
  <1>13. ~mixed => RowVerified'
    <2>1. ASSUME ~mixed PROVE m.n = row.n /\ m'.n + 1 = i /\ i = row.n + 1
      BY <1>1, <1>9, <2>1 DEF Alike
    <2>2. i \in Nat
      BY <1>3
    <2> HIDE DEF i
    <2> QED
      BY <1>1, <1>5, <1>9, <2>1, <2>2 DEF RowVerified
  <1>14. ~mixed => Following(p)'
    BY <1>1, <1>5, <1>6, <1>7, <1>8, <1>9, <1>10
       DEF Following, Retries, GoesOn, Inside, Working, Hardening, Finishing, RowVerified
  <1>15. ~mixed /\ ~reopened => RowTruthful' /\ Claims(p)'
    BY <1>1, <1>6, <1>7, <1>8, <1>9, <1>10, NothingSaid DEF Claims, Retries, Alike
  <1> QED
    BY <1>1, <1>10, <1>12, <1>13, <1>14, <1>15, InsideStep

LEMMA TopStep ==
  ASSUME IInv, NEW p \in Procs, Top(p)
  PROVE IInv'
  <1> DEFINE row == L[p].mem
  <1>1. L[p].pc = "top" /\ L[p].hit = "no" /\ L[p].pc \in {"next", "top", "rebase"}
    BY DEF Top, At
  <1>2. /\ Inside(p) /\ Good(row) /\ GoesOn(p)
        /\ ~mixed => RowVerified
        /\ ~mixed => m.n = row.n /\ m.cur = row.cur
        /\ ~mixed /\ ~reopened => row.apply = "none"
    BY <1>1, BetweenFacts
  <1>3. /\ Typed /\ rt \in State /\ sb \in Sandbox /\ src \in Checkout
        /\ seen \subseteq {"verify", "review"} /\ spent \in Nat
        /\ ~(src.staged /\ sb.applied /\ src.mine # "no")
    BY DEF IInv, Typed
  <1>4. NextIteration(row) = row.n + 1 /\ row.n \in Nat
    BY <1>2, NextIs DEF Good, Row
  <1>5. UNCHANGED <<aside, spent, mixed, reopened>>
    BY DEF Top
  <1>6. \/ Write(Failed(row)) /\ Leave(p) /\ UNCHANGED <<rt, sb, src, seen>>
        \/ row.n + 1 <= MaxIter /\ Enter(p, row) /\ UNCHANGED <<sb, src, locks, seen>>
        \/ /\ row.n + 1 <= MaxIter /\ src' = Synced(src)
           /\ Enter(p, row) /\ UNCHANGED <<sb, seen, locks>>
        \/ /\ row.n + 1 <= MaxIter /\ rt.it # row.n + 1 /\ src' = Synced(src)
           /\ Goto(p, "rebase") /\ UNCHANGED <<m, rt, locks>> /\ seen' = {}
           /\ sb' = [sb EXCEPT !.diff = "none",
                     !.stash = IF sb.diff # "none" THEN "new"
                               ELSE IF @ = "none" THEN "none" ELSE "left"]
    BY <1>4 DEF Top
  <1>7. Alike(row, row) /\ (row.n + 1 <= MaxIter => row.n < MaxIter)
    BY <1>4, PositiveAssumption DEF Alike
  <1>8. src' = Synced(src) => src' \in Checkout /\ ~(src'.staged /\ sb.applied /\ src'.mine # "no")
    BY <1>3, Syncing
  <1> HIDE DEF row
  <1>9. CASE Write(Failed(row)) /\ Leave(p) /\ UNCHANGED <<rt, sb, src, seen>>
    <2>1. Good(m') /\ m'.status = "failed" /\ Alike(m', row)
      BY <1>2, <1>9, WritesFailed
    <2>2. ~mixed => RowVerified'
      BY <1>2, <1>9, <2>1 DEF RowVerified, Alike
    <2>3. ~mixed /\ ~reopened => RowTruthful'
      BY <1>2, <2>1, NothingSaid DEF Alike
    <2> QED
      BY <1>2, <1>3, <1>5, <1>9, <2>1, <2>2, <2>3, LeavingStep
  <1>10. CASE row.n + 1 <= MaxIter /\ Enter(p, row) /\ UNCHANGED <<sb, src, locks, seen>>
    BY <1>1, <1>2, <1>3, <1>5, <1>7, <1>10, Entering DEF row
  <1>11. CASE /\ row.n + 1 <= MaxIter /\ src' = Synced(src)
              /\ Enter(p, row) /\ UNCHANGED <<sb, seen, locks>>
    BY <1>1, <1>2, <1>3, <1>5, <1>7, <1>8, <1>11, Entering DEF row
  <1>12. CASE /\ row.n + 1 <= MaxIter /\ rt.it # row.n + 1 /\ src' = Synced(src)
              /\ Goto(p, "rebase") /\ UNCHANGED <<m, rt, locks>> /\ seen' = {}
              /\ sb' = [sb EXCEPT !.diff = "none",
                        !.stash = IF sb.diff # "none" THEN "new"
                                  ELSE IF @ = "none" THEN "none" ELSE "left"]
    <2>1. sb' \in Sandbox /\ sb'.applied = sb.applied /\ sb'.diff = "none"
      BY <1>3, <1>12 DEF Sandbox
    <2>2. ~mixed => RowVerified'
      BY <1>2, <1>12, <2>1 DEF RowVerified, Covered
    <2> QED
      BY <1>1, <1>2, <1>3, <1>5, <1>7, <1>8, <1>12, <2>1, <2>2, ToTop DEF row
  <1> QED
    BY <1>6, <1>9, <1>10, <1>11, <1>12

LEMMA RebaseStep ==
  ASSUME IInv, NEW p \in Procs, Rebase(p)
  PROVE IInv'
  <1> DEFINE row == [L[p].mem EXCEPT !.base = src.head]
  <1>1. L[p].pc = "rebase" /\ L[p].hit = "no" /\ L[p].pc \in {"next", "top", "rebase"}
    BY DEF Rebase, At
  <1>2. /\ Enter(p, row) /\ UNCHANGED <<src, locks, aside, spent, seen, mixed, reopened>>
    BY DEF Rebase
  <1>3. /\ rt \in State /\ sb \in Sandbox /\ src \in Checkout /\ src.head \in Nat
        /\ ~(src.staged /\ sb.applied /\ src.mine # "no")
        /\ TypedProcess(p) /\ Good(L[p].mem) /\ L[p].mem.n < MaxIter
    BY <1>1 DEF IInv, Typed, TypedProcess, Checkout
  <1>4. Good(row) /\ Alike(row, L[p].mem) /\ row.n < MaxIter
    BY <1>3 DEF Good, Row, Alike
  <1>5. sb' \in Sandbox /\ sb'.applied = sb.applied
    <2>1. PICK diff \in IF sb.stash = "new" /\ ~sb.applied THEN {"ok", "bad"} ELSE {"none"} :
            sb' = [sb EXCEPT !.diff = diff, !.stash = IF @ = "new" THEN "none" ELSE @]
      BY DEF Rebase
    <2>2. diff \in {"none", "ok", "bad"}
      BY <2>1
    <2> QED
      BY <1>3, <2>1, <2>2 DEF Sandbox
  <1> HIDE DEF row
  <1> QED
    BY <1>1, <1>2, <1>3, <1>4, <1>5, Entering

-----------------------------------------------------------------------------
(***************************************************************************)
(* The final apply, at the end of the loop or of a retry                   *)
(***************************************************************************)
LEMMA FinishingFacts ==
  ASSUME IInv, NEW p \in Procs, L[p].pc \in Finishing \cup {"post"}
  PROVE /\ TypedProcess(p) /\ L[p] \in Process /\ Good(L[p].mem)
        /\ L[p].mode = "retry" => Retries(p) /\ ~Inside(p) /\ L[p].mem.status = "blocked"
        /\ L[p].mode = "loop" => /\ Inside(p) /\ Working(p) /\ GoesOn(p) /\ ~Retries(p)
                                 /\ L[p].mem.cur = L[p].mem.n + 1 /\ L[p].pc # "post"
                                 /\ locks.sandbox = p
        /\ L[p].mode \in {"loop", "retry"}
        /\ L[p].pc # "record" => L[p].sha = FALSE
        /\ ~mixed => /\ Following(p) /\ RowVerified
                     /\ L[p].mode = "retry" => locks.sandbox = None
                     /\ L[p].mode = "loop" => /\ Checked /\ rt.it = m.cur
                                              /\ m.n = L[p].mem.n /\ m.cur = L[p].mem.cur
        /\ ~mixed /\ ~reopened => Claims(p) /\ RowTruthful
  <1>1. TypedProcess(p) /\ L[p].mode \in {"loop", "retry"} /\ L[p] \in Process /\ Good(L[p].mem)
    BY DEF IInv, Typed, TypedProcess, Process
  <1>2. L[p].mode = "loop" => Inside(p) /\ Working(p) /\ GoesOn(p) /\ ~Retries(p) /\ L[p].pc # "post"
    BY <1>1 DEF TypedProcess, Inside, Working, GoesOn, Retries, Finishing
  <1>3. L[p].mode = "retry" => Retries(p) /\ ~Inside(p)
    BY <1>1 DEF Retries, Inside, Finishing
  <1>4. L[p].sha \in BOOLEAN /\ (L[p].sha => L[p].pc = "record")
    BY <1>1 DEF TypedProcess, Process
  <1>5. ~mixed => Following(p) /\ RowVerified
    BY DEF IInv, Verified
  <1>6. ~mixed /\ ~reopened => Claims(p) /\ RowTruthful
    BY DEF IInv, Truthful
  <1> QED
    BY <1>1, <1>2, <1>3, <1>4, <1>5, <1>6 DEF TypedProcess, Following

(* While somebody applies, the others have no claim to the sandbox but     *)
(* what their own retries rest on.                                         *)
LEMMA Together ==
  ASSUME IInv, Typed', NEW p \in Procs, L[p].pc \in Finishing \cup {"post"},
         \A q \in Procs \ {p} : L'[q] = L[q],
         locks.sandbox = None => locks'.sandbox = None, mixed' = FALSE => mixed = FALSE,
         reopened' = reopened, Covered => Covered',
         ~mixed' => RowVerified' /\ Following(p)',
         ~mixed' /\ ~reopened => /\ RowTruthful' /\ Claims(p)' /\ (Committed => Committed')
                                 /\ (Pushed => Pushed') /\ (Empty => Empty')
  PROVE IInv'
  <1>1. /\ mixed \in BOOLEAN /\ mixed' \in BOOLEAN
        /\ L[p].mode = "loop" => Inside(p)
        /\ ~mixed /\ L[p].mode = "retry" => locks.sandbox = None
        /\ L[p].mode \in {"loop", "retry"}
    BY FinishingFacts DEF IInv, Typed
  <1>2. ASSUME ~mixed', NEW q \in Procs \ {p}, Apart(q) PROVE Following(q)' /\ Claims(q)'
    <2>1. Apart(q)' /\ TypedProcess(q)'
      BY <1>2 DEF Apart, Typed
    <2> QED
      BY <2>1, ApartFollows
  <1>3. ASSUME ~mixed', NEW q \in Procs \ {p}, ~Apart(q)
        PROVE Following(q)' /\ (~reopened => Claims(q)')
    <2>1. ~mixed /\ Verified /\ Typed
      BY <1>1, <1>3 DEF IInv
    <2>2. L[p].mode = "retry" /\ locks.sandbox = None
      BY <1>1, <1>3, <2>1, Alone
    <2>3. Retries(q) /\ ~Inside(q) /\ ~Working(q)
      <3>1. TypedProcess(q) /\ None # q
        BY <2>1, NoneAssumption DEF Typed
      <3>2. ~Inside(q)
        BY <2>2, <3>1 DEF TypedProcess
      <3>3. L[q].mode \in {"loop", "retry"} /\ (L[q].mode = "retry" => L[q].pc # "off")
        BY <3>1 DEF TypedProcess, Process, Finishing
      <3> QED
        BY <1>3, <3>2, <3>3 DEF Apart, Inside, Retries, Working, Hardening, Finishing
    <2>4. Following(q) /\ (~reopened => Claims(q)) /\ TypedProcess(q)
      BY <1>1, <1>3, <2>1 DEF IInv, Verified, Truthful, Typed
    <2>5. L'[q] = L[q] /\ locks'.sandbox = None
      BY <1>3, <2>2
    <2>6. L[q].mode = "retry" /\ L[q].pc \in Finishing \cup {"post"}
      BY <2>3, <2>4 DEF Retries, TypedProcess
    <2>7. Following(q)'
      BY <2>4, <2>5, <2>6
         DEF Following, Retries, GoesOn, Inside, Working, Hardening, Finishing
    <2>8. ASSUME ~reopened PROVE Claims(q)'
      BY <1>3, <2>4, <2>5, <2>6, <2>8
         DEF Claims, Retries, GoesOn, Inside
    <2> QED
      BY <2>7, <2>8
  <1> QED
    BY <1>1, <1>2, <1>3 DEF IInv, Verified, Truthful

LEMMA FinishGoes ==
  ASSUME IInv, NEW p \in Procs, L[p].pc \in Finishing \cup {"post"}, L[p].hit = "no",
         NEW ch \in Process, L' = [L EXCEPT ![p] = ch], ch.pc \in {"commit", "push", "record"},
         ch.mode = L[p].mode, ch.mem = L[p].mem, ch.hit = "no",
         ch.sha => ch.pc = "record", ch.pc = "record" => ch.res # "none",
         ch.pc = "record" /\ ch.res = "blocked-before" => L[p].pc = "stage",
         locks' \in [sandbox : Procs \cup {None}, source : Procs \cup {None}],
         locks'.sandbox = locks.sandbox,
         sb' \in Sandbox, sb'.diff = sb.diff, sb.applied => sb'.applied,
         src' \in Checkout, ~(src'.staged /\ sb'.applied /\ src'.mine # "no"),
         src'.mine = "no" => src.mine = "no" \/ Managed, Pushed => Pushed',
         spent' \in Nat, UNCHANGED <<m, rt, aside, seen, mixed, reopened>>,
         ~mixed /\ ~reopened => /\ ch.sha \/ ch.pc = "push" => Committed'
                                /\ ch.pc = "record" /\ ch.res = "pushed" => Pushed'
                                /\ ch.pc = "record" /\ ch.res = "no-op" => Empty'
  PROVE IInv'
  <1>1. /\ TypedProcess(p) /\ L[p] \in Process /\ Good(L[p].mem)
        /\ L[p].mode = "retry" => Retries(p) /\ ~Inside(p) /\ L[p].mem.status = "blocked"
        /\ L[p].mode = "loop" => /\ Inside(p) /\ L[p].mem.cur = L[p].mem.n + 1
                                 /\ locks.sandbox = p
        /\ L[p].mode \in {"loop", "retry"}
        /\ ~mixed => /\ Following(p) /\ RowVerified
                     /\ L[p].mode = "retry" => locks.sandbox = None
                     /\ L[p].mode = "loop" => /\ Checked /\ rt.it = m.cur
                                              /\ m.n = L[p].mem.n /\ m.cur = L[p].mem.cur
        /\ ~mixed /\ ~reopened => Claims(p) /\ RowTruthful
    BY FinishingFacts
  <1>2. Typed
    BY DEF IInv
  <1>3. L' \in [Procs -> Process] /\ L'[p] = ch /\ \A q \in Procs \ {p} : L'[q] = L[q]
    BY <1>2, Moving
  <1>4. TypedProcess(p)'
    BY <1>1, <1>3 DEF TypedProcess, Inside, Working, Hardening, Finishing, CodexSteps
  <1>5. Typed'
    BY <1>2, <1>3, <1>4, OthersTyped DEF Typed
  <1>6. (Covered => Covered') /\ (Committed => Committed') /\ (Empty => Empty')
    BY DEF Covered, Checked, Committed, Empty
  <1>7. ~mixed => RowVerified'
    BY <1>1, <1>6 DEF RowVerified
  <1>8. ~mixed => Following(p)'
    BY <1>1, <1>3, <1>6
       DEF Following, Retries, GoesOn, Inside, Working, Hardening, Finishing, Checked
  <1>9. ~mixed /\ ~reopened => RowTruthful'
    BY <1>1, <1>6 DEF RowTruthful
  <1>10. ~mixed /\ ~reopened => Claims(p)'
    BY <1>1, <1>3, <1>6 DEF Claims, GoesOn, Inside, Retries, Finishing
  <1> QED
    BY <1>2, <1>3, <1>5, <1>6, <1>7, <1>8, <1>9, <1>10, Together

(* To the record of an outcome.                                            *)
LEMMA ToOutcome ==
  ASSUME Typed, NEW p \in Procs, L[p].hit = "no",
         NEW res \in {"no-op", "pushed", "blocked-before", "blocked-after"}
  PROVE LET ch == [L[p] EXCEPT !.pc = "record", !.res = res] IN
        /\ ch \in Process /\ ch.pc = "record" /\ ch.mode = L[p].mode /\ ch.mem = L[p].mem
        /\ ch.hit = "no" /\ ch.res = res /\ ch.sha = L[p].sha
  <1>1. L[p] \in Process
    BY DEF Typed, TypedProcess
  <1> QED
    BY <1>1 DEF Process, Steps, Finishing

LEMMA StageStep ==
  ASSUME IInv, NEW p \in Procs, Stage(p)
  PROVE IInv'
  <1> DEFINE s == Cleaned(src)
  <1>1. L[p].pc = "stage" /\ L[p].hit = "no" /\ L[p].pc \in Finishing \cup {"post"}
    BY DEF Stage, At, Finishing
  <1>2. UNCHANGED <<m, rt, sb, aside, spent, seen, mixed, reopened>>
    BY DEF Stage, Kept
  <1>3. /\ Typed /\ sb \in Sandbox /\ src \in Checkout /\ spent \in Nat /\ L[p].sha = FALSE
        /\ locks \in [sandbox : Procs \cup {None}, source : Procs \cup {None}]
        /\ ~(src.staged /\ sb.applied /\ src.mine # "no")
    BY <1>1, FinishingFacts DEF IInv, Typed
  <1>4. s \in Checkout /\ s.mine = src.mine /\ (s.staged => src.staged) /\ s.new = src.new
    BY <1>3, Syncing
  <1>5. /\ Synced(s) \in Checkout /\ (Synced(s).mine # "no" => s.mine # "no")
        /\ Synced(s).staged => s.staged
        /\ Synced(s).mine \in {"no", s.mine}
        /\ Synced(s).mine # s.mine => s.new /\ s.mine = "local"
    BY <1>4, Syncing
  <1>6. ~SyncFails => (Synced(s).mine # s.mine => Managed)
    BY <1>4, <1>5 DEF SyncFails
  <1> HIDE DEF s
  <1>7. ASSUME NEW ch \in Process, L' = [L EXCEPT ![p] = ch], ch.pc \in {"commit", "record"},
               ch.mode = L[p].mode, ch.mem = L[p].mem, ch.hit = "no", ch.sha = FALSE,
               ch.pc = "record" => ch.res \in {"no-op", "blocked-before"},
               ch.pc = "record" /\ ch.res = "no-op" => Empty,
               locks' \in [sandbox : Procs \cup {None}, source : Procs \cup {None}],
               locks'.sandbox = locks.sandbox, src' \in Checkout,
               ~(src'.staged /\ sb.applied /\ src'.mine # "no"), src'.mine # src.mine => Managed
        PROVE IInv'
    <2>1. (Pushed => Pushed') /\ (Empty => Empty')
      BY <1>2, <1>7 DEF Pushed, Empty
    <2> QED
      BY <1>1, <1>2, <1>3, <1>7, <2>1, FinishGoes
  <1>8. ASSUME NEW res \in {"no-op", "blocked-before"}, Outcome(p, res), res = "no-op" => Empty,
               UNCHANGED locks, src' \in Checkout, src'.mine # src.mine => Managed,
               src'.staged /\ src'.mine # "no" => src.staged /\ src.mine # "no"
        PROVE IInv'
    <2> DEFINE ch == [L[p] EXCEPT !.pc = "record", !.res = res]
    <2>1. /\ ch \in Process /\ ch.pc = "record" /\ ch.mode = L[p].mode /\ ch.mem = L[p].mem
          /\ ch.hit = "no" /\ ch.res = res /\ ch.sha = L[p].sha
      <3>1. res \in {"no-op", "pushed", "blocked-before", "blocked-after"}
        BY <1>8
      <3> HIDE DEF ch
      <3>2. L[p] \in Process
        BY <1>3 DEF Typed, TypedProcess
      <3> QED
        BY <1>1, <3>1, <3>2 DEF ch, Process, Steps, Finishing
    <2>2. L' = [L EXCEPT ![p] = ch]
      BY <1>3, <1>8 DEF Outcome, Typed
    <2> HIDE DEF ch
    <2> QED
      BY <1>3, <1>7, <1>8, <2>1, <2>2
  <1>9. CASE sb.diff = "none" /\ Outcome(p, "no-op") /\ UNCHANGED <<src, locks>>
    BY <1>3, <1>8, <1>9 DEF Empty
  <1>10. CASE Outcome(p, "blocked-before") /\ UNCHANGED <<src, locks>>
    BY <1>3, <1>8, <1>10
  <1>11. CASE Outcome(p, "blocked-before") /\ src' = s /\ UNCHANGED locks
    BY <1>4, <1>8, <1>11
  <1>12. CASE /\ ~SyncFails /\ Source(p) /\ Goto(p, "commit")
              /\ src' = [Synced(s) EXCEPT !.staged = ~(sb.applied /\ Synced(s).mine # "no")]
    <2> DEFINE ch == [L[p] EXCEPT !.pc = "commit"]
    <2>1. /\ ch \in Process /\ ch.pc = "commit" /\ ch.mode = L[p].mode /\ ch.mem = L[p].mem
          /\ ch.sha = L[p].sha /\ ch.hit = L[p].hit
      BY <1>3, Going DEF Steps, Finishing
    <2>2. L' = [L EXCEPT ![p] = ch]
      BY <1>12 DEF Goto
    <2> HIDE DEF ch
    <2>3. /\ locks' \in [sandbox : Procs \cup {None}, source : Procs \cup {None}]
          /\ locks'.sandbox = locks.sandbox
      BY <1>3, <1>12 DEF Source
    <2>4. /\ src' \in Checkout /\ src'.mine = Synced(s).mine
          /\ ~(src'.staged /\ sb.applied /\ src'.mine # "no")
      BY <1>5, <1>12 DEF Checkout
    <2> QED
      BY <1>1, <1>3, <1>4, <1>6, <1>7, <1>12, <2>1, <2>2, <2>3, <2>4
  <1>13. CASE /\ ~SyncFails /\ Outcome(p, "blocked-before") /\ UNCHANGED locks
              /\ src' = [Synced(s) EXCEPT !.dirty = TRUE]
    <2>1. src' \in Checkout /\ src'.mine = Synced(s).mine /\ src'.staged = Synced(s).staged
      BY <1>5, <1>13 DEF Checkout
    <2> QED
      BY <1>4, <1>5, <1>6, <1>8, <1>13, <2>1
  <1>14. \/ sb.diff = "none" /\ Outcome(p, "no-op") /\ UNCHANGED <<src, locks>>
         \/ Outcome(p, "blocked-before") /\ UNCHANGED <<src, locks>>
         \/ Outcome(p, "blocked-before") /\ src' = s /\ UNCHANGED locks
         \/ /\ ~SyncFails /\ Source(p) /\ Goto(p, "commit")
            /\ src' = [Synced(s) EXCEPT !.staged = ~(sb.applied /\ Synced(s).mine # "no")]
         \/ /\ ~SyncFails /\ Outcome(p, "blocked-before") /\ UNCHANGED locks
            /\ src' = [Synced(s) EXCEPT !.dirty = TRUE]
    BY DEF Stage, s
  <1> QED
    BY <1>9, <1>10, <1>11, <1>12, <1>13, <1>14

LEMMA CommitStep ==
  ASSUME IInv, NEW p \in Procs, Commit(p)
  PROVE IInv'
  <1>1. L[p].pc = "commit" /\ L[p].hit = "no" /\ L[p].pc \in Finishing \cup {"post"}
    BY DEF Commit, At, Finishing
  <1>2. UNCHANGED <<m, rt, aside, seen, mixed, reopened>>
    BY DEF Commit
  <1>3. /\ Typed /\ sb \in Sandbox /\ src \in Checkout /\ spent \in Nat /\ L[p].sha = FALSE
        /\ locks \in [sandbox : Procs \cup {None}, source : Procs \cup {None}]
        /\ ~(src.staged /\ sb.applied /\ src.mine # "no")
    BY <1>1, FinishingFacts DEF IInv, Typed
  <1>4. CASE /\ src.staged /\ Goto(p, "push")
             /\ src' = [src EXCEPT !.staged = FALSE, !.mine = "local", !.head = @ + 1]
             /\ sb' = [sb EXCEPT !.applied = TRUE]
             /\ UNCHANGED <<locks, spent>>
    <2> DEFINE ch == [L[p] EXCEPT !.pc = "push"]
    <2>1. /\ ch \in Process /\ ch.pc = "push" /\ ch.mode = L[p].mode /\ ch.mem = L[p].mem
          /\ ch.sha = L[p].sha /\ ch.hit = L[p].hit
      BY <1>3, Going DEF Steps, Finishing
    <2>2. L' = [L EXCEPT ![p] = ch]
      BY <1>4 DEF Goto
    <2> HIDE DEF ch
    <2>3. src' \in Checkout /\ ~src'.staged /\ src'.mine = "local"
      <3>1. src.head + 1 \in Nat
        BY <1>3 DEF Checkout
      <3> QED
        BY <1>3, <1>4, <3>1 DEF Checkout
    <2>4. sb' \in Sandbox /\ sb'.applied /\ sb'.diff = sb.diff
      BY <1>3, <1>4 DEF Sandbox
    <2>5. (Pushed => Pushed') /\ Committed'
      BY <1>3, <1>4, <2>3, <2>4 DEF Pushed, Committed
    <2> QED
      BY <1>1, <1>2, <1>3, <1>4, <2>1, <2>2, <2>3, <2>4, <2>5, FinishGoes
  <1>5. CASE /\ spent' \in Nat
             /\ Outcome(p, "blocked-after") /\ locks' = [locks EXCEPT !.source = None]
             /\ UNCHANGED <<src, sb>>
    <2> DEFINE ch == [L[p] EXCEPT !.pc = "record", !.res = "blocked-after"]
    <2>1. /\ ch \in Process /\ ch.pc = "record" /\ ch.mode = L[p].mode /\ ch.mem = L[p].mem
          /\ ch.hit = "no" /\ ch.res = "blocked-after" /\ ch.sha = L[p].sha
      BY <1>1, <1>3, ToOutcome
    <2>2. L' = [L EXCEPT ![p] = ch]
      BY <1>3, <1>5 DEF Outcome, Typed
    <2> HIDE DEF ch
    <2>3. /\ locks' \in [sandbox : Procs \cup {None}, source : Procs \cup {None}]
          /\ locks'.sandbox = locks.sandbox
      BY <1>3, <1>5
    <2>4. Pushed => Pushed'
      BY <1>5 DEF Pushed
    <2> QED
      BY <1>1, <1>2, <1>3, <1>5, <2>1, <2>2, <2>3, <2>4, FinishGoes
  <1>6. spent + 1 \in Nat
    BY <1>3
  <1> QED
    BY <1>3, <1>4, <1>5, <1>6 DEF Commit, Event

LEMMA PushStep ==
  ASSUME IInv, NEW p \in Procs, Push(p)
  PROVE IInv'
  <1>1. L[p].pc = "push" /\ L[p].hit = "no" /\ L[p].pc \in Finishing \cup {"post"}
    BY DEF Push, At, Finishing
  <1>2. UNCHANGED <<m, rt, sb, aside, seen, mixed, reopened>> /\ locks' = [locks EXCEPT !.source = None]
    BY DEF Push
  <1>3. /\ Typed /\ sb \in Sandbox /\ src \in Checkout /\ spent \in Nat
        /\ locks \in [sandbox : Procs \cup {None}, source : Procs \cup {None}]
        /\ ~(src.staged /\ sb.applied /\ src.mine # "no")
        /\ ~mixed /\ ~reopened => Committed
    BY <1>1, FinishingFacts DEF IInv, Typed, Claims
  <1>4. PICK res \in {"pushed", "blocked-after"} :
          /\ L' = [L EXCEPT ![p].pc = "record", ![p].res = res, ![p].sha = TRUE]
          /\ \/ res = "pushed" /\ UNCHANGED spent
                /\ src' = [src EXCEPT !.mine = IF @ = "local" THEN "pushed" ELSE @, !.new = FALSE,
                                      !.head = IF src.new THEN @ + 1 ELSE @]
             \/ res = "blocked-after" /\ UNCHANGED src /\ (Event \/ UNCHANGED spent)
    BY DEF Push
  <1> DEFINE ch == [L[p] EXCEPT !.pc = "record", !.res = res, !.sha = TRUE]
  <1>5. /\ ch \in Process /\ ch.pc = "record" /\ ch.mode = L[p].mode /\ ch.mem = L[p].mem
        /\ ch.hit = "no" /\ ch.res = res /\ ch.sha = TRUE
    <2>1. L[p] \in Process
      BY <1>3 DEF Typed, TypedProcess
    <2> QED
      BY <1>1, <2>1 DEF Process, Steps, Finishing
  <1>6. L' = [L EXCEPT ![p] = ch]
    BY <1>3, <1>4 DEF Typed
  <1> HIDE DEF ch
  <1>7. /\ locks' \in [sandbox : Procs \cup {None}, source : Procs \cup {None}]
        /\ locks'.sandbox = locks.sandbox
    BY <1>2, <1>3
  <1>8. /\ src' \in Checkout /\ src'.staged = src.staged /\ spent' \in Nat
        /\ src'.mine = "no" <=> src.mine = "no"
        /\ src.mine = "pushed" => src'.mine = "pushed"
        /\ res = "pushed" /\ src.mine # "no" => src'.mine = "pushed"
    <2>1. src.head + 1 \in Nat /\ spent + 1 \in Nat
      BY <1>3 DEF Checkout
    <2>2. CASE res = "pushed"
      BY <1>3, <1>4, <2>1, <2>2 DEF Checkout
    <2>3. CASE res = "blocked-after"
      BY <1>3, <1>4, <2>1, <2>3 DEF Event
    <2> QED
      BY <2>2, <2>3
  <1>9. /\ Pushed => Pushed'
        /\ Committed => Committed' /\ (res = "pushed" => Pushed')
    BY <1>2, <1>8 DEF Pushed, Committed
  <1>10. /\ ~(src'.staged /\ sb'.applied /\ src'.mine # "no")
         /\ sb' \in Sandbox /\ sb'.diff = sb.diff /\ sb'.applied = sb.applied
    BY <1>2, <1>3, <1>8
  <1>11. ~mixed /\ ~reopened => Committed' /\ (res = "pushed" => Pushed')
    BY <1>3, <1>9
  <1>12. res # "none" /\ res # "blocked-before" /\ res # "no-op"
    BY <1>4
  <1> QED
    BY <1>1, <1>2, <1>5, <1>6, <1>7, <1>8, <1>9, <1>10, <1>11, <1>12, FinishGoes

LEMMA PostApplyStep ==
  ASSUME IInv, NEW p \in Procs, PostApply(p)
  PROVE IInv'
  <1>1. L[p].pc = "post" /\ L[p].hit = "no" /\ L[p].pc \in Finishing \cup {"post"}
    BY DEF PostApply, At
  <1>2. UNCHANGED <<sb, src, m, rt, aside, spent, seen, mixed, reopened>>
    BY DEF PostApply, Kept
  <1>3. /\ Typed /\ sb \in Sandbox /\ src \in Checkout /\ spent \in Nat /\ L[p].sha = FALSE
        /\ locks \in [sandbox : Procs \cup {None}, source : Procs \cup {None}]
        /\ ~(src.staged /\ sb.applied /\ src.mine # "no")
        /\ Retries(p) /\ L[p].mem.sha \in BOOLEAN
        /\ ~mixed /\ ~reopened /\ L[p].mem.sha => Committed
    BY <1>1, FinishingFacts DEF IInv, Typed, Claims, Good, Row
  <1>4. (Committed => Committed') /\ (Pushed => Pushed')
    BY <1>2 DEF Committed, Pushed
  <1>5. CASE /\ UNCHANGED locks
             /\ L' = [L EXCEPT ![p].pc = "record", ![p].res = "blocked-after", ![p].sha = L[p].mem.sha]
    <2> DEFINE ch == [L[p] EXCEPT !.pc = "record", !.res = "blocked-after", !.sha = L[p].mem.sha]
    <2>1. /\ ch \in Process /\ ch.pc = "record" /\ ch.mode = L[p].mode /\ ch.mem = L[p].mem
          /\ ch.hit = "no" /\ ch.res = "blocked-after" /\ ch.sha = L[p].mem.sha
      <3>1. L[p] \in Process
        BY <1>3 DEF Typed, TypedProcess
      <3> QED
        BY <1>1, <1>3, <3>1 DEF Process, Steps, Finishing
    <2>2. L' = [L EXCEPT ![p] = ch]
      BY <1>3, <1>5 DEF Typed
    <2> HIDE DEF ch
    <2>3. /\ ~(src'.staged /\ sb'.applied /\ src'.mine # "no") /\ src' \in Checkout
          /\ sb' \in Sandbox /\ sb'.diff = sb.diff /\ sb'.applied = sb.applied
          /\ src'.mine = src.mine /\ spent' \in Nat
          /\ locks' \in [sandbox : Procs \cup {None}, source : Procs \cup {None}]
          /\ locks'.sandbox = locks.sandbox
      BY <1>2, <1>3, <1>5
    <2>4. ~mixed /\ ~reopened => (ch.sha => Committed')
      BY <1>3, <1>4, <2>1
    <2> QED
      BY <1>1, <1>2, <1>4, <2>1, <2>2, <2>3, <2>4, FinishGoes
  <1>6. CASE Source(p) /\ Goto(p, IF L[p].mem.sha THEN "push" ELSE "commit")
    <2> DEFINE step == IF L[p].mem.sha THEN "push" ELSE "commit"
               ch == [L[p] EXCEPT !.pc = step]
    <2>1. step \in Steps /\ step \in {"push", "commit"} /\ (step = "push" => L[p].mem.sha)
      BY DEF Steps, Finishing
    <2>2. L' = [L EXCEPT ![p] = ch]
      BY <1>6 DEF Goto
    <2> HIDE DEF step
    <2>3. /\ ch \in Process /\ ch.pc = step /\ ch.mode = L[p].mode /\ ch.mem = L[p].mem
          /\ ch.sha = L[p].sha /\ ch.hit = L[p].hit
      BY <1>3, <2>1, Going
    <2> HIDE DEF ch
    <2>4. /\ locks' \in [sandbox : Procs \cup {None}, source : Procs \cup {None}]
          /\ locks'.sandbox = locks.sandbox
      BY <1>3, <1>6 DEF Source
    <2> QED
      BY <1>1, <1>2, <1>3, <1>4, <2>1, <2>2, <2>3, <2>4, FinishGoes
  <1> QED
    BY <1>5, <1>6 DEF PostApply

LEMMA Outcomes ==
  ASSUME IInv, NEW p \in Procs, L[p].pc = "record"
  PROVE /\ Good(Applied(p)) /\ Applied(p).n = L[p].mem.n /\ Applied(p).cur = L[p].mem.cur
        /\ Applied(p).apply = L[p].res /\ Applied(p).sha = L[p].sha
        /\ Applied(p).status = L[p].mem.status
        /\ L[p].res # "none"
  <1>1. L[p] \in Process /\ Good(L[p].mem) /\ TypedProcess(p)
    BY FinishingFacts DEF Finishing
  <1>2. /\ L[p].res \in {"no-op", "pushed", "blocked-before", "blocked-after"}
        /\ L[p].sha \in BOOLEAN
    BY <1>1 DEF TypedProcess, Process
  <1> QED
    BY <1>1, <1>2 DEF Good, Row, Applied

LEMMA RecordStep ==
  ASSUME IInv, NEW p \in Procs, Record(p)
  PROVE IInv'
  <1> DEFINE blocked == L[p].res \in {"blocked-before", "blocked-after"}
             row == IF L[p].mode = "loop" THEN Summed(Applied(p)) ELSE Applied(p)
             final == IF ~blocked THEN [row EXCEPT !.status = "completed", !.stale = FALSE, !.done = TRUE]
                      ELSE IF L[p].mode = "loop" THEN [row EXCEPT !.status = "blocked"] ELSE row
  <1>1. L[p].pc = "record" /\ L[p].hit = "no" /\ L[p].pc \in Finishing \cup {"post"}
    BY DEF Record, At, Finishing
  <1>2. /\ Write(final) /\ UNCHANGED <<rt, sb, src, aside, spent, seen, reopened>>
        /\ IF L[p].mode = "loop"
           THEN L' = [L EXCEPT ![p] = [Idle EXCEPT !.pc = "next", !.mem = m']]
                /\ UNCHANGED <<locks, mixed>>
           ELSE Leave(p) /\ Late(L[p].mem)
    BY DEF Record
  <1>3. /\ L[p] \in Process /\ Good(L[p].mem)
        /\ L[p].mode = "retry" => L[p].mem.status = "blocked"
        /\ L[p].mode = "loop" => Inside(p) /\ L[p].mem.cur = L[p].mem.n + 1 /\ locks.sandbox = p
        /\ L[p].mode \in {"loop", "retry"}
        /\ ~mixed => /\ Following(p) /\ RowVerified
                     /\ L[p].mode = "retry" => locks.sandbox = None
                     /\ L[p].mode = "loop" => /\ rt.it = m.cur
                                              /\ m.n = L[p].mem.n /\ m.cur = L[p].mem.cur
        /\ ~mixed /\ ~reopened => Claims(p) /\ RowTruthful
    BY <1>1, FinishingFacts
  <1>4. /\ Typed /\ rt \in State /\ sb \in Sandbox /\ src \in Checkout /\ spent \in Nat
        /\ seen \subseteq {"verify", "review"} /\ mixed \in BOOLEAN /\ m \in Row
    BY DEF IInv, Typed, Good
  <1>5. /\ Good(Applied(p)) /\ Applied(p).n = L[p].mem.n /\ Applied(p).cur = L[p].mem.cur
        /\ Applied(p).apply = L[p].res /\ Applied(p).sha = L[p].sha
        /\ Applied(p).status = L[p].mem.status /\ L[p].res # "none"
    BY <1>1, Outcomes
  <1>6. /\ Good(row) /\ row.apply = L[p].res /\ row.sha = L[p].sha /\ row.cur = L[p].mem.cur
        /\ row.n = IF L[p].mode = "loop" THEN L[p].mem.n + 1 ELSE L[p].mem.n
        /\ row.status = L[p].mem.status
    BY <1>3, <1>5, Summing
  <1> HIDE DEF row
  <1>7. /\ Good(final) /\ Alike(final, row)
        /\ final.status \in {"completed", "blocked"}
        /\ final.status = "blocked" => blocked
    <2>1. Good([row EXCEPT !.status = "completed", !.stale = FALSE, !.done = TRUE])
      BY <1>6 DEF Good, Row, Statuses
    <2>2. Good([row EXCEPT !.status = "blocked"])
      BY <1>6 DEF Good, Row, Statuses
    <2>3. CASE ~blocked
      BY <1>6, <2>1, <2>3 DEF Good, Row, Alike
    <2>4. CASE blocked /\ L[p].mode = "loop"
      BY <1>6, <2>2, <2>4 DEF Good, Row, Alike
    <2>5. CASE blocked /\ L[p].mode = "retry"
      BY <1>3, <1>6, <2>5 DEF Alike
    <2> QED
      BY <1>3, <2>3, <2>4, <2>5
  <1> HIDE DEF final, blocked
  <1>8. /\ Good(m') /\ m'.status \in {"completed", "blocked"} /\ m'.apply = L[p].res
        /\ m'.sha = L[p].sha /\ m'.cur = L[p].mem.cur
        /\ m'.n = IF L[p].mode = "loop" THEN L[p].mem.n + 1 ELSE L[p].mem.n
    BY <1>2, <1>6, <1>7, Writing DEF Alike
  <1>9. (Covered => Covered') /\ (Committed => Committed') /\ (Pushed => Pushed') /\ (Empty => Empty')
    BY <1>2 DEF Covered, Checked, Committed, Pushed, Empty
  <1>10. ASSUME ~mixed, rt.it <= m'.n + 1, rt.it = m'.n + 1 => m'.n = m.n PROVE RowVerified'
    <2>1. m'.apply = "blocked-before" => Covered'
      BY <1>1, <1>3, <1>8, <1>9, <1>10 DEF Following
    <2> QED
      BY <1>2, <1>3, <1>10, <2>1 DEF RowVerified
  <1>11. ~mixed /\ ~reopened => RowTruthful'
    BY <1>1, <1>3, <1>8, <1>9 DEF RowTruthful, Claims
  <1>12. CASE L[p].mode = "loop"
    <2> DEFINE ch == [Idle EXCEPT !.pc = "next", !.mem = m']
    <2>1. /\ ch \in Process /\ ch.pc = "next" /\ ch.mode = "loop" /\ ch.sha = FALSE
          /\ ch.hit = "no" /\ ch.mem = m' /\ ch.ok = FALSE
      BY <1>8, Idling DEF Process, Good, Steps
    <2>2. L' = [L EXCEPT ![p] = ch] /\ UNCHANGED <<locks, mixed>>
      BY <1>2, <1>12
    <2> HIDE DEF ch
    <2>3. L' \in [Procs -> Process] /\ L'[p] = ch /\ \A q \in Procs \ {p} : L'[q] = L[q]
      BY <1>4, <2>1, <2>2, Moving
    <2>4. TypedProcess(p)'
      BY <1>3, <1>8, <1>12, <2>1, <2>2, <2>3
         DEF TypedProcess, Inside, Working, Hardening, Finishing, CodexSteps
    <2>5. \A q \in Procs : TypedProcess(q)'
      BY <1>4, <2>2, <2>3, <2>4, OthersTyped
    <2>6. Typed'
      BY <1>2, <1>4, <1>8, <2>2, <2>3, <2>5 DEF Typed
    <2>7. ~mixed => RowVerified'
      <3>1. ASSUME ~mixed PROVE rt.it = m'.n /\ m'.n \in Nat
        BY <1>3, <1>8, <1>12, <3>1 DEF Good, Row
      <3> QED
        BY <1>10, <3>1
    <2>8. Following(p)' /\ Claims(p)'
      BY <2>1, <2>3
         DEF Following, Claims, Retries, GoesOn, Inside, Working, Hardening, Finishing
    <2> QED
      BY <1>2, <1>3, <1>11, <1>12, <2>2, <2>3, <2>6, <2>7, <2>8, InsideStep
  <1>13. CASE L[p].mode = "retry"
    <2>1. Leave(p) /\ mixed' = (mixed \/ Behind(L[p].mem))
      BY <1>2, <1>13 DEF Late
    <2>2. /\ L' \in [Procs -> Process] /\ \A q \in Procs \ {p} : L'[q] = L[q]
          /\ locks' \in [sandbox : Procs \cup {None}, source : Procs \cup {None}]
          /\ locks'.sandbox = IF locks.sandbox = p THEN None ELSE locks.sandbox
          /\ \A q \in Procs : TypedProcess(q)'
          /\ Apart(p)'
      BY <1>4, <2>1, Leaving
    <2>3. mixed' \in BOOLEAN /\ (mixed' = FALSE => mixed = FALSE /\ L[p].mem.n = m.n)
      BY <1>4, <2>1 DEF Behind
    <2>4. Typed'
      BY <1>2, <1>4, <1>8, <2>2, <2>3 DEF Typed
    <2>5. Following(p)' /\ Claims(p)'
      BY <2>2, ApartFollows
    <2>6. ~mixed' => RowVerified'
      <3>1. ASSUME ~mixed' PROVE ~mixed /\ m'.n = m.n
        BY <1>8, <1>13, <2>3, <3>1
      <3> QED
        BY <1>3, <1>10, <3>1 DEF RowVerified
    <2> QED
      BY <1>1, <1>2, <1>9, <1>11, <2>2, <2>3, <2>4, <2>5, <2>6, NoneAssumption, Together
  <1> QED
    BY <1>3, <1>12, <1>13

-----------------------------------------------------------------------------
(***************************************************************************)
(* What is done beside the loop                                            *)
(***************************************************************************)
(* What is claimed of the sandbox and of the source stays true.            *)
StillTrue == (Covered => Covered') /\ (Committed => Committed') /\ (Pushed => Pushed') /\ (Empty => Empty')
Same(q) == /\ L'[q].pc = L[q].pc /\ L'[q].mode = L[q].mode /\ L'[q].mem = L[q].mem
           /\ L'[q].ok = L[q].ok /\ L'[q].sha = L[q].sha /\ L'[q].res = L[q].res

LEMMA SandboxStays ==
  ASSUME UNCHANGED seen, sb'.diff = sb.diff \/ (Gone /\ sb'.diff = "none"), sb'.applied = sb.applied,
         src'.mine = src.mine \/ Managed \/ (src.mine # "no" /\ src'.mine = "pushed")
  PROVE StillTrue
  BY DEF StillTrue, Covered, Checked, Committed, Pushed, Empty, Gone

(* The row changes in its status at most.                                  *)
LEMMA RowStays ==
  ASSUME StillTrue, Alike(m', m), m'.status = "blocked" => m.status = "blocked", UNCHANGED <<rt, seen>>
  PROVE (RowVerified => RowVerified') /\ (RowTruthful => RowTruthful')
  BY DEF StillTrue, Alike, RowVerified, RowTruthful

LEMMA Beside ==
  ASSUME IInv, Typed', StillTrue, UNCHANGED seen, mixed' = FALSE => mixed = FALSE,
         reopened' = FALSE => reopened = FALSE,
         locks.sandbox = None => locks'.sandbox = None,
         m'.status = "blocked" => m.status = "blocked",
         ~mixed' => m'.n = m.n /\ m'.cur = m.cur /\ RowVerified',
         ~mixed' /\ ~reopened' => RowTruthful' /\ (m.apply = "none" => m'.apply = "none"),
         \A q \in Procs : Working(q) /\ ~mixed' =>
            rt'.it = rt.it /\ rt'.v = rt.v /\ (rt.edit => rt'.edit),
         \A q \in Procs : Same(q) \/ (~mixed' => Following(q)' /\ (~reopened' => Claims(q)'))
  PROVE IInv'
  <1>1. /\ mixed \in BOOLEAN /\ mixed' \in BOOLEAN /\ reopened \in BOOLEAN /\ reopened' \in BOOLEAN
    BY DEF IInv, Typed
  <1>2. ASSUME ~mixed', NEW q \in Procs, Same(q) PROVE Following(q)'
    <2>1. Following(q) /\ TypedProcess(q)
      BY <1>1, <1>2 DEF IInv, Verified, Typed
    <2>2. L[q].mode \in {"loop", "retry"}
      BY <2>1 DEF TypedProcess, Process
    <2>3. L[q].pc \in {"implement", "verify", "review", "gate", "validate"} => Working(q)
      BY <2>1, <2>2 DEF TypedProcess, Working, Hardening, Finishing
    <2>4. /\ Retries(q)' = Retries(q) /\ GoesOn(q)' = GoesOn(q) /\ Working(q)' = Working(q)
      BY <1>2 DEF Same, Retries, GoesOn, Inside, Working
    <2>5. (Covered => Covered') /\ (Checked => Checked')
      BY DEF StillTrue, Checked
    <2> QED
      BY <1>2, <2>1, <2>3, <2>4, <2>5 DEF Following, Same
  <1>3. ASSUME ~mixed', ~reopened', NEW q \in Procs, Same(q) PROVE Claims(q)'
    <2>1. Claims(q)
      BY <1>1, <1>3 DEF IInv, Truthful
    <2>2. Retries(q)' = Retries(q) /\ GoesOn(q)' = GoesOn(q)
      BY <1>3 DEF Same, Retries, GoesOn, Inside
    <2> QED
      BY <1>3, <2>1, <2>2 DEF Claims, Same, StillTrue
  <1> QED
    BY <1>1, <1>2, <1>3 DEF IInv, Verified, Truthful

LEMMA NothingMoves ==
  ASSUME UNCHANGED <<sb, src, seen>>
  PROVE StillTrue
  BY SandboxStays

(* Of the row in the database only the status changes.                     *)
LEMMA UnexpectedRow ==
  ASSUME Typed, Unexpected
  PROVE /\ Good(m') /\ Alike(m', m) /\ (m'.status = "absent" => m' = NoRun)
        /\ m'.status = "blocked" => m.status = "blocked"
  <1>1. Good(m) /\ (m.status = "absent" => m = NoRun)
    BY DEF Typed
  <1>2. Good([Failed(m) EXCEPT !.done = TRUE]) /\ Alike([Failed(m) EXCEPT !.done = TRUE], m)
        /\ [Failed(m) EXCEPT !.done = TRUE].status = "failed"
    BY <1>1, StatusRows DEF Good, Row, Alike
  <1>3. CASE m' = m
    BY <1>1, <1>3 DEF Alike
  <1>4. CASE Write([Failed(m) EXCEPT !.done = TRUE])
    BY <1>2, <1>4, Writing DEF Alike
  <1> QED
    BY <1>3, <1>4 DEF Unexpected

LEMMA InPlaceRow ==
  ASSUME Typed, NEW status \in {"running", "paused"}, InPlace(status)
  PROVE /\ Good(m') /\ Alike(m', m) /\ (m'.status = "absent" => m' = NoRun)
        /\ m'.status = "blocked" => m.status = "blocked"
  <1>1. Good(m) /\ (m.status = "absent" => m = NoRun)
    BY DEF Typed
  <1>2. Good([m EXCEPT !.status = status]) /\ Alike([m EXCEPT !.status = status], m)
        /\ [m EXCEPT !.status = status].status = status
    BY <1>1 DEF Good, Row, Alike, Statuses
  <1>3. CASE m' = m
    BY <1>1, <1>3 DEF Alike
  <1>4. CASE Write([m EXCEPT !.status = status])
    BY <1>2, <1>4, Writing DEF Alike
  <1> QED
    BY <1>3, <1>4 DEF InPlace

LEMMA LockBusyStep ==
  ASSUME IInv, NEW p \in Procs, LockBusy(p)
  PROVE IInv'
  <1>1. /\ L[p].pc = "lock" /\ Unexpected /\ L' = [L EXCEPT ![p] = Idle]
        /\ UNCHANGED <<rt, sb, src, locks, aside, spent, seen, mixed, reopened>>
    BY DEF LockBusy
  <1>2. Typed
    BY DEF IInv
  <1>3. L' \in [Procs -> Process] /\ L'[p] = Idle /\ \A q \in Procs \ {p} : L'[q] = L[q]
    BY <1>1, <1>2, Idling, Moving
  <1>4. /\ Good(m') /\ Alike(m', m) /\ (m'.status = "absent" => m' = NoRun)
        /\ m'.status = "blocked" => m.status = "blocked"
    BY <1>1, <1>2, UnexpectedRow
  <1>5. TypedProcess(p)' /\ Apart(p)'
    <2>1. locks.sandbox # p
      BY <1>1, <1>2 DEF Typed, TypedProcess, Inside
    <2> QED
      BY <1>1, <1>3, <2>1, Idling DEF TypedProcess, Good, Inside, Working, Hardening, Finishing, Apart
  <1>6. Typed'
    BY <1>1, <1>2, <1>3, <1>4, <1>5, OthersTyped DEF Typed
  <1>7. StillTrue
    BY <1>1, NothingMoves
  <1>8. (RowVerified => RowVerified') /\ (RowTruthful => RowTruthful')
    BY <1>1, <1>4, <1>7, RowStays
  <1>9. \A q \in Procs : Same(q) \/ (Following(q)' /\ Claims(q)')
    BY <1>3, <1>5, ApartFollows DEF Same
  <1> QED
    BY <1>1, <1>4, <1>6, <1>7, <1>8, <1>9, Beside DEF Alike, IInv, Verified, Truthful

LEMMA LoadStep ==
  ASSUME IInv, NEW p \in Procs, Load(p)
  PROVE IInv'
  <1>1. L[p].pc = "load" /\ UNCHANGED <<m, rt, sb, src, locks, aside, spent, seen, mixed, reopened>>
    BY DEF Load
  <1>2. Typed /\ Good(m) /\ TypedProcess(p) /\ L[p] \in Process
    BY DEF IInv, Typed, TypedProcess
  <1>3. L[p].mode = "loop"
    BY <1>1, <1>2 DEF TypedProcess, Process, Finishing
  <1>4. \E ch \in Process : /\ L' = [L EXCEPT ![p] = ch] /\ Good(ch.mem) /\ ch.pc \in {"off", "lock"}
                            /\ ch.mode = "loop" /\ ch.sha = FALSE /\ ch.hit = "no"
    <2>1. CASE L' = [L EXCEPT ![p] = Idle]
      BY <2>1, Idling
    <2>2. CASE L' = [L EXCEPT ![p] = [L[p] EXCEPT !.pc = "lock", !.mem = m]]
      <3> DEFINE ch == [L[p] EXCEPT !.pc = "lock", !.mem = m]
      <3>1. L[p].sha = FALSE /\ L[p].hit = "no"
        BY <1>1, <1>2 DEF TypedProcess, Process, CodexSteps
      <3>2. ch \in Process /\ ch.mem = m /\ ch.pc = "lock" /\ ch.mode = "loop" /\ ch.sha = FALSE /\ ch.hit = "no"
        BY <1>2, <1>3, <3>1 DEF Process, Good, Steps
      <3> HIDE DEF ch
      <3> QED
        BY <1>2, <2>2, <3>2 DEF ch
    <2> QED
      BY <2>1, <2>2 DEF Load
  <1>5. PICK ch \in Process : /\ L' = [L EXCEPT ![p] = ch] /\ Good(ch.mem) /\ ch.pc \in {"off", "lock"}
                              /\ ch.mode = "loop" /\ ch.sha = FALSE /\ ch.hit = "no"
    BY <1>4
  <1>6. L' \in [Procs -> Process] /\ L'[p] = ch /\ \A q \in Procs \ {p} : L'[q] = L[q]
    BY <1>2, <1>5, Moving
  <1>7. TypedProcess(p)' /\ Apart(p)'
    <2>1. locks.sandbox # p
      BY <1>1, <1>2 DEF TypedProcess, Inside
    <2> QED
      BY <1>1, <1>5, <1>6, <2>1 DEF TypedProcess, Inside, Working, Hardening, Finishing, Apart
  <1>8. Typed'
    BY <1>1, <1>2, <1>6, <1>7, OthersTyped DEF Typed
  <1>9. StillTrue /\ Alike(m', m)
    BY <1>1, NothingMoves DEF Alike
  <1>10. (RowVerified => RowVerified') /\ (RowTruthful => RowTruthful')
    BY <1>1, <1>9, RowStays
  <1>11. \A q \in Procs : Same(q) \/ (Following(q)' /\ Claims(q)')
    BY <1>6, <1>7, ApartFollows DEF Same
  <1> QED
    BY <1>1, <1>8, <1>9, <1>10, <1>11, Beside DEF IInv, Verified, Truthful

LEMMA LockStep ==
  ASSUME IInv, NEW p \in Procs, Lock(p)
  PROVE IInv'
  <1>1. /\ L[p].pc = "lock" /\ locks.sandbox = None /\ locks' = [locks EXCEPT !.sandbox = p]
        /\ Goto(p, "top")
        /\ mixed' = (mixed \/ Retrying # {} \/ Behind(L[p].mem))
        /\ reopened' = (reopened \/ L[p].mem.apply # "none")
        /\ UNCHANGED <<m, rt, sb, src, aside, spent, seen>>
    BY DEF Lock
  <1>2. /\ Typed /\ TypedProcess(p) /\ L[p] \in Process /\ mixed \in BOOLEAN /\ reopened \in BOOLEAN
        /\ locks \in [sandbox : Procs \cup {None}, source : Procs \cup {None}]
    BY DEF IInv, Typed, TypedProcess
  <1>3. L[p].mode = "loop" /\ L[p].sha = FALSE /\ L[p].hit = "no" /\ Good(L[p].mem)
    BY <1>1, <1>2 DEF TypedProcess, Process, Finishing, CodexSteps
  <1> DEFINE ch == [L[p] EXCEPT !.pc = "top"]
  <1>4. /\ ch \in Process /\ ch.pc = "top" /\ ch.mode = L[p].mode /\ ch.mem = L[p].mem
        /\ ch.sha = L[p].sha /\ ch.hit = L[p].hit
    BY <1>2, Going DEF Steps
  <1>5. L' = [L EXCEPT ![p] = ch]
    BY <1>1 DEF Goto
  <1> HIDE DEF ch
  <1>6. L' \in [Procs -> Process] /\ L'[p] = ch /\ \A q \in Procs \ {p} : L'[q] = L[q]
    BY <1>2, <1>4, <1>5, Moving
  <1>7. /\ locks' \in [sandbox : Procs \cup {None}, source : Procs \cup {None}]
        /\ locks'.sandbox = p /\ p # None
    BY <1>1, <1>2, NoneAssumption
  <1>8. TypedProcess(p)'
    BY <1>3, <1>4, <1>6, <1>7 DEF TypedProcess, Inside, Working, Hardening, Finishing
  <1>9. mixed' \in BOOLEAN /\ reopened' \in BOOLEAN
    BY <1>1, <1>2
  <1>10. Typed'
    <2>1. \A q \in Procs \ {p} : locks'.sandbox = q <=> locks.sandbox = q
      BY <1>1, <1>7, NoneAssumption
    <2> QED
      BY <1>1, <1>2, <1>6, <1>7, <1>8, <1>9, <2>1, OthersTyped DEF Typed
  <1>11. ASSUME ~mixed' PROVE Verified'
    <2>1. ~mixed /\ Retrying = {} /\ m.n = L[p].mem.n /\ m.cur = L[p].mem.cur
      BY <1>1, <1>2, <1>11 DEF Behind
    <2>2. RowVerified'
      BY <1>1, <2>1 DEF IInv, Verified, RowVerified, Covered, Checked
    <2>3. Following(p)'
      BY <1>1, <1>3, <1>4, <1>6, <2>1
         DEF Following, Retries, GoesOn, Inside, Working, Hardening, Finishing
    <2>4. ASSUME NEW q \in Procs \ {p} PROVE Following(q)'
      <3>1. TypedProcess(q) /\ ~Inside(q) /\ ~Retries(q)
        BY <1>1, <1>2, <2>1, NoneAssumption DEF Typed, TypedProcess, Retrying, Retries
      <3>2. L[q].mode \in {"loop", "retry"} /\ (L[q].mode = "retry" => L[q].pc # "off")
        BY <3>1 DEF TypedProcess, Process, Finishing
      <3>3. Apart(q)' /\ TypedProcess(q)'
        BY <1>6, <1>10, <3>1, <3>2 DEF Apart, Inside, Retries, Typed
      <3> QED
        BY <3>3, ApartFollows
    <2> QED
      BY <2>2, <2>3, <2>4 DEF Verified
  <1>12. ASSUME ~mixed', ~reopened' PROVE Truthful'
    <2>1. /\ ~mixed /\ ~reopened /\ Retrying = {} /\ m.apply = L[p].mem.apply
          /\ L[p].mem.apply = "none"
      BY <1>1, <1>2, <1>12 DEF Behind
    <2>2. RowTruthful'
      BY <1>1, <2>1 DEF IInv, Truthful, RowTruthful, Committed, Pushed, Empty
    <2>3. Claims(p)'
      BY <1>1, <1>3, <1>4, <1>6, <2>1 DEF Claims, Retries
    <2>4. ASSUME NEW q \in Procs \ {p} PROVE Claims(q)'
      <3>1. TypedProcess(q) /\ ~Inside(q) /\ ~Retries(q)
        BY <1>1, <1>2, <2>1, NoneAssumption DEF Typed, TypedProcess, Retrying, Retries
      <3>2. L[q].mode \in {"loop", "retry"} /\ (L[q].mode = "retry" => L[q].pc # "off")
        BY <3>1 DEF TypedProcess, Process, Finishing
      <3>3. Apart(q)' /\ TypedProcess(q)'
        BY <1>6, <1>10, <3>1, <3>2 DEF Apart, Inside, Retries, Typed
      <3> QED
        BY <3>3, ApartFollows
    <2> QED
      BY <2>2, <2>3, <2>4 DEF Truthful
  <1> QED
    BY <1>10, <1>11, <1>12 DEF IInv

LEMMA CodexFailsStep ==
  ASSUME IInv, NEW p \in Procs, CodexFails(p)
  PROVE IInv'
  <1>1. L[p].pc \in CodexSteps /\ L[p].pc \in Hardening
    BY DEF CodexFails, CodexSteps, Hardening
  <1>2. /\ Write(Failed(L[p].mem)) /\ Leave(p) /\ HalfEdited(p)
        /\ UNCHANGED <<rt, src, aside, mixed, reopened>>
    BY DEF CodexFails
  <1>3. /\ Inside(p) /\ Good(L[p].mem)
        /\ ~mixed => m.n = L[p].mem.n /\ Following(p) /\ RowVerified
        /\ ~mixed /\ ~reopened => L[p].mem.apply = "none"
    BY <1>1, HardeningFacts DEF IInv, Verified
  <1>4. Good(m') /\ m'.status = "failed" /\ Alike(m', L[p].mem)
    BY <1>2, <1>3, WritesFailed
  <1>5. /\ sb \in Sandbox /\ seen \subseteq {"verify", "review"} /\ spent \in Nat /\ rt' \in State
    BY <1>2 DEF IInv, Typed
  <1>6. spent' \in Nat
    <2>1. UNCHANGED spent \/ Event
      BY DEF CodexFails
    <2> QED
      BY <1>5, <2>1 DEF Event
  <1>7. /\ sb' \in Sandbox /\ (sb'.applied => sb.applied) /\ seen' \subseteq {"verify", "review"}
        /\ seen' = seen \/ L[p].pc = "implement"
    BY <1>2, <1>5 DEF HalfEdited, CodexEdits, Edits, Sandbox
  <1>8. ~mixed => RowVerified'
    BY <1>2, <1>3, <1>4, <1>7 DEF RowVerified, Following, Alike
  <1>9. ~mixed /\ ~reopened => RowTruthful'
    BY <1>3, <1>4, NothingSaid DEF Alike
  <1> QED
    BY <1>2, <1>3, <1>4, <1>5, <1>6, <1>7, <1>8, <1>9, LeavingStep

LEMMA LoopFailsStep ==
  ASSUME IInv, NEW p \in Procs, LoopFails(p)
  PROVE IInv'
  <1>1. L[p].pc \in {"verify", "conclude", "next", "rebase"}
    BY DEF LoopFails, Checks
  <1>2. /\ Unexpected /\ Leave(p)
        /\ UNCHANGED <<rt, sb, src, aside, seen, mixed, reopened>>
    BY DEF LoopFails
  <1>3. Inside(p)
    BY <1>1, HardeningFacts, BetweenFacts DEF Hardening
  <1>4. /\ Good(m') /\ Alike(m', m) /\ (m'.status = "absent" => m' = NoRun)
        /\ m'.status = "blocked" => m.status = "blocked"
    BY <1>2, UnexpectedRow DEF IInv
  <1>5. /\ sb' \in Sandbox /\ (sb'.applied => sb.applied) /\ seen' \subseteq {"verify", "review"}
        /\ rt' \in State /\ spent \in Nat
    BY <1>2 DEF IInv, Typed
  <1>6. spent' \in Nat
    <2>1. UNCHANGED spent \/ Event
      BY DEF LoopFails
    <2> QED
      BY <1>5, <2>1 DEF Event
  <1>7. (RowVerified => RowVerified') /\ (RowTruthful => RowTruthful')
    BY <1>2, <1>4, NothingMoves, RowStays
  <1> QED
    BY <1>2, <1>3, <1>4, <1>5, <1>6, <1>7, LeavingStep DEF IInv, Verified, Truthful

LEMMA DiesStep ==
  ASSUME IInv, NEW p \in Procs, Dies(p)
  PROVE IInv'
  <1>1. Leave(p) /\ HalfEdited(p) /\ Event /\ UNCHANGED <<m, rt, src, aside, mixed, reopened>>
    BY DEF Dies
  <1>2. /\ Typed /\ Good(m) /\ (m.status = "absent" => m = NoRun) /\ rt' \in State /\ sb \in Sandbox
        /\ seen \subseteq {"verify", "review"} /\ spent \in Nat
    BY <1>1 DEF IInv, Typed
  <1>3. spent' \in Nat
    BY <1>1, <1>2 DEF Event
  <1>4. CASE L[p].pc = "implement"
    <2>1. /\ Inside(p)
          /\ ~mixed => Following(p) /\ RowVerified /\ m.status # "blocked" /\ rt.v = "?"
          /\ ~mixed /\ ~reopened => m.apply = "none"
      BY <1>4, HardeningFacts DEF Hardening, IInv, Verified, Following
    <2>2. sb' \in Sandbox /\ (sb'.applied => sb.applied) /\ seen' \subseteq {"verify", "review"}
      BY <1>1, <1>2 DEF HalfEdited, CodexEdits, Sandbox
    <2>3. ~mixed => RowVerified'
      BY <1>1, <2>1 DEF RowVerified
    <2>4. ~mixed /\ ~reopened => RowTruthful'
      BY <1>1, <1>2, <2>1, NothingSaid
    <2> QED
      BY <1>1, <1>2, <1>3, <2>1, <2>2, <2>3, <2>4, LeavingStep
  <1>5. CASE L[p].pc # "implement"
    <2>1. UNCHANGED <<sb, seen>>
      BY <1>1, <1>5 DEF HalfEdited, Edits
    <2>2. /\ L' \in [Procs -> Process] /\ \A q \in Procs \ {p} : L'[q] = L[q]
          /\ locks' \in [sandbox : Procs \cup {None}, source : Procs \cup {None}]
          /\ locks'.sandbox = IF locks.sandbox = p THEN None ELSE locks.sandbox
          /\ \A q \in Procs : TypedProcess(q)'
          /\ Apart(p)'
      BY <1>1, <1>2, Leaving
    <2>3. Typed'
      BY <1>1, <1>2, <1>3, <2>1, <2>2 DEF Typed
    <2>4. StillTrue /\ Alike(m', m)
      BY <1>1, <2>1, NothingMoves DEF Alike
    <2>5. (RowVerified => RowVerified') /\ (RowTruthful => RowTruthful')
      BY <1>1, <2>1, <2>4, RowStays
    <2>6. \A q \in Procs : Same(q) \/ (Following(q)' /\ Claims(q)')
      BY <2>2, ApartFollows DEF Same
    <2> QED
      BY <1>1, <2>1, <2>2, <2>3, <2>4, <2>5, <2>6, Beside DEF IInv, Verified, Truthful
  <1> QED
    BY <1>4, <1>5

(* A process is told of a rate limit, of its end, or that it is killed.    *)
LEMMA Hitting ==
  ASSUME Typed, NEW p \in Procs, L[p].pc \in CodexSteps, NEW hit \in {"no", "limit", "killed"}
  PROVE LET ch == [L[p] EXCEPT !.hit = hit] IN
        /\ ch \in Process /\ ch.hit = hit /\ ch.pc = L[p].pc /\ ch.mode = L[p].mode
        /\ ch.mem = L[p].mem /\ ch.ok = L[p].ok /\ ch.sha = L[p].sha /\ ch.res = L[p].res
  <1>1. L[p] \in Process
    BY DEF Typed, TypedProcess
  <1> QED
    BY <1>1 DEF Process

LEMMA Hit ==
  ASSUME Typed, NEW p \in Procs, L[p].pc \in CodexSteps, NEW hit \in {"no", "limit", "killed"},
         L' = [L EXCEPT ![p].hit = hit], UNCHANGED locks
  PROVE /\ L' \in [Procs -> Process] /\ (\A q \in Procs : Same(q))
        /\ \A q \in Procs : TypedProcess(q)'
  <1> DEFINE ch == [L[p] EXCEPT !.hit = hit]
  <1>1. /\ ch \in Process /\ ch.hit = hit /\ ch.pc = L[p].pc /\ ch.mode = L[p].mode
        /\ ch.mem = L[p].mem /\ ch.ok = L[p].ok /\ ch.sha = L[p].sha /\ ch.res = L[p].res
    BY Hitting
  <1>2. L' = [L EXCEPT ![p] = ch]
    OBVIOUS
  <1> HIDE DEF ch
  <1>3. L' \in [Procs -> Process] /\ L'[p] = ch /\ \A q \in Procs \ {p} : L'[q] = L[q]
    BY <1>1, <1>2, Moving
  <1>4. TypedProcess(p)
    BY DEF Typed
  <1>5. TypedProcess(p)'
    BY <1>1, <1>3, <1>4 DEF TypedProcess, Inside, Working
  <1> QED
    BY <1>1, <1>3, <1>5, OthersTyped DEF Same

LEMMA AskingPc ==
  ASSUME NEW p \in Procs, Asks(p)
  PROVE L[p].pc \in CodexSteps
  BY DEF Asks, CodexSteps

LEMMA LimitSteps ==
  ASSUME IInv, NEW p \in Procs, Limited(p) \/ Continues(p)
  PROVE IInv'
  <1>1. Typed /\ spent \in Nat
    BY DEF IInv, Typed
  <1>2. PICK hit \in {"no", "limit", "killed"}, status \in {"running", "paused"} :
          L' = [L EXCEPT ![p].hit = hit] /\ InPlace(status)
    BY DEF Limited, Continues
  <1>3. /\ UNCHANGED <<rt, sb, src, locks, aside, seen, mixed, reopened>> /\ spent' \in Nat
    BY <1>1 DEF Limited, Continues, Event
  <1>4. L[p].pc \in CodexSteps
    BY <1>1, AskingPc DEF Limited, Continues, Typed, TypedProcess
  <1>5. /\ L' \in [Procs -> Process] /\ (\A q \in Procs : Same(q))
        /\ \A q \in Procs : TypedProcess(q)'
    BY <1>1, <1>2, <1>3, <1>4, Hit
  <1>6. /\ Good(m') /\ Alike(m', m) /\ (m'.status = "absent" => m' = NoRun)
        /\ m'.status = "blocked" => m.status = "blocked"
    BY <1>1, <1>2, InPlaceRow
  <1>7. Typed'
    BY <1>1, <1>3, <1>5, <1>6 DEF Typed
  <1>8. StillTrue
    BY <1>3, NothingMoves
  <1>9. (RowVerified => RowVerified') /\ (RowTruthful => RowTruthful')
    BY <1>3, <1>6, <1>8, RowStays
  <1> QED
    BY <1>3, <1>5, <1>6, <1>7, <1>8, <1>9, Beside DEF Alike, IInv, Verified, Truthful

LEMMA StartStep ==
  ASSUME IInv, NEW p \in Procs, Start(p)
  PROVE IInv'
  <1> DEFINE s == Synced(Cleaned(src))
             row == [NoRun EXCEPT !.status = "running", !.base = s.head]
             stopped == [Failed(row) EXCEPT !.done = TRUE]
             ch == [Idle EXCEPT !.pc = "load"]
  <1>1. /\ L[p].pc = "off" /\ m.status = "absent" /\ ~SyncFails /\ src' = s
        /\ \/ Write(row) /\ L' = [L EXCEPT ![p] = ch] /\ UNCHANGED spent
           \/ Write(stopped) /\ UNCHANGED L /\ Event
        /\ UNCHANGED <<rt, sb, locks, aside, seen, mixed, reopened>>
    BY DEF Start
  <1>2. /\ Typed /\ m = NoRun /\ src \in Checkout /\ spent \in Nat
        /\ ~(src.staged /\ sb.applied /\ src.mine # "no")
    BY <1>1 DEF IInv, Typed
  <1>3. /\ s \in Checkout /\ s.head \in Nat /\ (s.staged => src.staged)
        /\ s.mine = src.mine \/ Managed
        /\ s.mine # "no" => src.mine # "no"
    <2>1. /\ Cleaned(src) \in Checkout /\ Cleaned(src).mine = src.mine
          /\ Cleaned(src).new = src.new /\ (Cleaned(src).staged => src.staged)
      BY <1>2, Syncing
    <2>2. /\ s \in Checkout /\ (s.staged => Cleaned(src).staged)
          /\ s.mine # "no" => Cleaned(src).mine # "no"
          /\ s.mine # Cleaned(src).mine => Cleaned(src).new /\ Cleaned(src).mine = "local"
      BY <2>1, Syncing
    <2> QED
      BY <1>1, <2>1, <2>2 DEF Checkout, SyncFails
  <1> HIDE DEF s
  <1>4. Good(row) /\ row.status = "running" /\ Alike(row, NoRun)
    BY <1>3, Idling DEF Good, Row, Statuses, Alike
  <1> HIDE DEF row
  <1>5. Good(stopped) /\ stopped.status = "failed" /\ Alike(stopped, NoRun)
    BY <1>4, StatusRows DEF Good, Row, Alike
  <1> HIDE DEF stopped
  <1>6. Good(m') /\ m'.status \in {"running", "failed"} /\ Alike(m', m)
    BY <1>1, <1>2, <1>4, <1>5, Writing DEF Alike
  <1>7. ch \in Process /\ Good(ch.mem) /\ ch.pc = "load" /\ ch.mode = "loop" /\ ch.sha = FALSE /\ ch.hit = "no"
    BY Idling DEF Process, Steps
  <1> HIDE DEF ch
  <1>8. /\ L' \in [Procs -> Process] /\ \A q \in Procs \ {p} : L'[q] = L[q]
        /\ L'[p] = L[p] \/ L'[p] = ch
    BY <1>1, <1>2, <1>7, Moving DEF Typed
  <1>9. TypedProcess(p)' /\ Apart(p)'
    <2>1. TypedProcess(p) /\ L[p].mode = "loop" /\ locks.sandbox # p
      BY <1>1, <1>2 DEF Typed, TypedProcess, Process, Finishing, Inside
    <2> QED
      BY <1>1, <1>7, <1>8, <2>1 DEF TypedProcess, Inside, Working, Hardening, Finishing, Apart
  <1>10. spent' \in Nat
    BY <1>1, <1>2 DEF Event
  <1>11. Typed'
    BY <1>1, <1>2, <1>3, <1>6, <1>8, <1>9, <1>10, OthersTyped DEF Typed
  <1>12. StillTrue
    BY <1>1, <1>3, SandboxStays
  <1>13. (RowVerified => RowVerified') /\ (RowTruthful => RowTruthful')
    BY <1>1, <1>6, <1>12, RowStays
  <1>14. \A q \in Procs : Same(q) \/ (Following(q)' /\ Claims(q)')
    BY <1>8, <1>9, ApartFollows DEF Same
  <1> QED
    BY <1>1, <1>6, <1>11, <1>12, <1>13, <1>14, Beside DEF Alike, IInv, Verified, Truthful

(* The copies of the row that are held aside.                              *)
LEMMA Copies ==
  ASSUME Typed, NEW k \in {"stop", "clean", "sup"}, NEW row \in Row, Good(row),
         k = "sup" /\ row # NoRun => row.apply \in {"blocked-before", "blocked-after"},
         aside' = [aside EXCEPT ![k] = row]
  PROVE /\ aside' \in [stop : Row, clean : Row, sup : Row]
        /\ \A j \in {"stop", "clean", "sup"} : Good(aside'[j])
        /\ aside'.sup # NoRun => aside'.sup.apply \in {"blocked-before", "blocked-after"}
  BY DEF Typed

LEMMA SupersededRow ==
  ASSUME NEW row, Good(row), row.apply # "none"
  PROVE /\ Good(Superseded(row)) /\ Superseded(row).status = "completed"
        /\ Superseded(row).apply = "superseded" /\ Superseded(row).n = row.n
        /\ Superseded(row).cur = row.cur /\ Superseded(row).sha = row.sha
  BY DEF Good, Row, Superseded, Statuses

LEMMA SupersedeStep ==
  ASSUME IInv, Typed', NEW row, Good(row), row.apply # "none",
         m'.status = "completed", m'.apply = "superseded", m'.n = row.n, m'.cur = row.cur,
         m'.sha = row.sha, mixed' = FALSE => mixed = FALSE /\ Alike(row, m),
         UNCHANGED <<rt, sb, src, L, locks, seen, reopened>>
  PROVE IInv'
  <1>1. StillTrue
    BY NothingMoves
  <1>2. ASSUME ~mixed' PROVE m'.n = m.n /\ m'.cur = m.cur /\ m.apply # "none" /\ RowVerified'
    BY <1>2 DEF IInv, Typed, Verified, RowVerified, Alike
  <1>3. ASSUME ~mixed', ~reopened' PROVE RowTruthful'
    <2>1. RowTruthful /\ m'.sha = m.sha
      BY <1>3 DEF IInv, Typed, Truthful, Alike
    <2> QED
      BY <1>1, <2>1 DEF RowTruthful, StillTrue
  <1>4. \A q \in Procs : Same(q)
    BY DEF Same
  <1>5. mixed \in BOOLEAN /\ mixed' \in BOOLEAN
    BY DEF IInv, Typed
  <1> QED
    BY <1>1, <1>2, <1>3, <1>4, <1>5, Beside

LEMMA CompleteStep ==
  ASSUME IInv, Complete, UNCHANGED <<rt, sb, src, locks, aside, seen, reopened>>, spent' \in Nat
  PROVE IInv'
  <1>1. /\ m.apply \in {"blocked-before", "blocked-after"} /\ Write(Superseded(m))
        /\ UNCHANGED <<L, mixed>>
    BY DEF Complete, Blocked
  <1>2. Typed /\ Good(m)
    BY DEF IInv, Typed
  <1>3. /\ Good(Superseded(m)) /\ Superseded(m).status = "completed"
        /\ Superseded(m).apply = "superseded" /\ Superseded(m).n = m.n
        /\ Superseded(m).cur = m.cur /\ Superseded(m).sha = m.sha
    BY <1>1, <1>2, SupersededRow
  <1>4. /\ Good(m') /\ m'.status = "completed" /\ m'.apply = "superseded" /\ m'.n = m.n
        /\ m'.cur = m.cur /\ m'.sha = m.sha
    BY <1>1, <1>3, Writing DEF Alike
  <1>5. Typed'
    <2>1. \A q \in Procs : TypedProcess(q)'
      BY <1>1, <1>2 DEF Typed, TypedProcess, Inside, Working, Good
    <2> QED
      BY <1>1, <1>2, <1>4, <2>1 DEF Typed
  <1>6. mixed' = FALSE => mixed = FALSE /\ Alike(m, m)
    BY <1>1 DEF Alike
  <1> QED
    BY <1>1, <1>2, <1>4, <1>5, <1>6, SupersedeStep

LEMMA OtherMarksStep ==
  ASSUME IInv, OtherMarks
  PROVE IInv'
  <1> DEFINE row == aside.sup
  <1>1. /\ row # NoRun /\ m' = [Superseded(row) EXCEPT !.newer = TRUE]
        /\ aside' = [aside EXCEPT !.sup = NoRun] /\ mixed' = (mixed \/ Behind(row))
        /\ UNCHANGED <<rt, sb, src, L, locks, spent, seen, reopened>>
    BY DEF OtherMarks, Late
  <1>2. /\ Typed /\ Good(row) /\ row.apply \in {"blocked-before", "blocked-after"}
        /\ mixed \in BOOLEAN
    BY <1>1 DEF IInv, Typed
  <1> HIDE DEF row
  <1>3. /\ Good(Superseded(row)) /\ Superseded(row).status = "completed"
        /\ Superseded(row).apply = "superseded" /\ Superseded(row).n = row.n
        /\ Superseded(row).cur = row.cur /\ Superseded(row).sha = row.sha
    BY <1>2, SupersededRow
  <1>4. /\ Good(m') /\ m'.status = "completed" /\ m'.apply = "superseded" /\ m'.n = row.n
        /\ m'.cur = row.cur /\ m'.sha = row.sha
    BY <1>1, <1>3 DEF Good, Row
  <1>5. mixed' \in BOOLEAN /\ (mixed' = FALSE => mixed = FALSE /\ Alike(row, m))
    BY <1>1, <1>2 DEF Behind, Alike
  <1>6. Typed'
    <2>1. \A q \in Procs : TypedProcess(q)'
      BY <1>1, <1>2 DEF Typed, TypedProcess, Inside, Working, Good
    <2>2. /\ aside' \in [stop : Row, clean : Row, sup : Row]
          /\ \A j \in {"stop", "clean", "sup"} : Good(aside'[j])
          /\ aside'.sup # NoRun => aside'.sup.apply \in {"blocked-before", "blocked-after"}
      BY <1>1, <1>2, Idling, Copies
    <2> QED
      BY <1>1, <1>2, <1>4, <1>5, <2>1, <2>2 DEF Typed
  <1> QED
    BY <1>1, <1>2, <1>4, <1>5, <1>6, SupersedeStep

(* A user's command starts a process.                                      *)
LEMMA BeginStep ==
  ASSUME IInv, NEW p \in Procs, L[p].pc = "off", NEW step, NEW mode, Begin(p, step, mode),
         \/ mode = "loop" /\ step = "load"
         \/ mode = "retry" /\ step \in {"stage", "post"} /\ Blocked(m)
            /\ (step = "stage" => m.apply = "blocked-before"),
         UNCHANGED <<m, rt, sb, src, locks, aside, seen, reopened>>, spent' \in Nat
  PROVE IInv'
  <1> DEFINE ch == [Idle EXCEPT !.pc = step, !.mode = mode, !.mem = m]
  <1>1. L' = [L EXCEPT ![p] = ch] /\ mixed' = (mixed \/ (mode = "retry" /\ locks.sandbox # None))
    BY DEF Begin
  <1>2. Typed /\ Good(m) /\ TypedProcess(p) /\ mixed \in BOOLEAN
    BY DEF IInv, Typed
  <1>3. /\ ch \in Process /\ ch.pc = step /\ ch.mode = mode /\ ch.mem = m
        /\ ch.sha = FALSE /\ ch.hit = "no" /\ ch.ok = FALSE /\ ch.res = "none"
    BY <1>2, Idling DEF Process, Good, Steps, Finishing
  <1> HIDE DEF ch
  <1>4. L' \in [Procs -> Process] /\ L'[p] = ch /\ \A q \in Procs \ {p} : L'[q] = L[q]
    BY <1>1, <1>2, <1>3, Moving
  <1>5. TypedProcess(p)'
    <2>1. locks.sandbox # p
      BY <1>2 DEF TypedProcess, Inside
    <2> QED
      BY <1>2, <1>3, <1>4, <2>1 DEF TypedProcess, Inside, Working, Hardening, Finishing, Blocked
  <1>6. mixed' \in BOOLEAN /\ (mixed' = FALSE => mixed = FALSE /\ (mode = "retry" => locks.sandbox = None))
    BY <1>1, <1>2
  <1>7. Typed'
    BY <1>2, <1>4, <1>5, <1>6, OthersTyped DEF Typed
  <1>8. StillTrue /\ Alike(m', m)
    BY NothingMoves DEF Alike
  <1>9. (RowVerified => RowVerified') /\ (RowTruthful => RowTruthful')
    BY <1>8, RowStays
  <1>10. ASSUME ~mixed' PROVE Following(p)'
    <2>1. RowVerified /\ (mode = "retry" => locks.sandbox = None)
      BY <1>6, <1>10 DEF IInv, Verified
    <2>2. step = "stage" => Covered'
      BY <1>8, <2>1 DEF RowVerified, StillTrue, Blocked
    <2> QED
      BY <1>3, <1>4, <2>1, <2>2 DEF Following, Retries, GoesOn, Inside, Working, Hardening, Finishing
  <1>11. ASSUME ~mixed', ~reopened PROVE Claims(p)'
    <2>1. RowTruthful
      BY <1>6, <1>11 DEF IInv, Truthful
    <2>2. m.sha => Committed'
      BY <1>8, <2>1 DEF RowTruthful, StillTrue
    <2> QED
      BY <1>3, <1>4, <2>2 DEF Claims, Retries, GoesOn, Inside
  <1>12. \A q \in Procs : Same(q) \/ (~mixed' => Following(q)' /\ (~reopened' => Claims(q)'))
    BY <1>4, <1>10, <1>11 DEF Same
  <1> QED
    BY <1>6, <1>7, <1>8, <1>9, <1>12, Beside DEF Alike, IInv, Verified, Truthful

LEMMA CommandSteps ==
  ASSUME IInv, NEW p \in Procs, Resume(p) \/ Resolve(p)
  PROVE IInv'
  <1>1. L[p].pc = "off" /\ UNCHANGED <<rt, sb, src, locks, aside, seen, reopened>> /\ spent' \in Nat
    BY DEF Resume, Resolve, Event, IInv, Typed
  <1>2. CASE Complete
    BY <1>1, <1>2, CompleteStep
  <1>3. CASE Blocked(m) /\ m.apply = "blocked-before" /\ Begin(p, "stage", "retry") /\ UNCHANGED m
    BY <1>1, <1>3, BeginStep
  <1>4. CASE Begin(p, "load", "loop") /\ UNCHANGED m
    BY <1>1, <1>4, BeginStep
  <1>5. CASE Blocked(m) /\ Begin(p, "post", "retry") /\ UNCHANGED m
    BY <1>1, <1>5, BeginStep
  <1> QED
    BY <1>2, <1>3, <1>4, <1>5 DEF Resume, Resolve, Blocked

LEMMA ProcessesStay ==
  ASSUME Typed, UNCHANGED <<L, locks>>
  PROVE /\ L' \in [Procs -> Process] /\ \A q \in Procs : TypedProcess(q)' /\ Same(q)
        /\ locks' \in [sandbox : Procs \cup {None}, source : Procs \cup {None}]
  BY DEF Typed, TypedProcess, Inside, Working, Good, Same

LEMMA StopWritesStep ==
  ASSUME IInv, StopWrites
  PROVE IInv'
  <1> DEFINE row == aside.stop
             done == [row EXCEPT !.status = "stopped"]
  <1>1. /\ Write(done) /\ aside' = [aside EXCEPT !.stop = NoRun]
        /\ mixed' = (mixed \/ Behind(row))
        /\ UNCHANGED <<rt, sb, src, L, locks, spent, seen, reopened>>
    BY DEF StopWrites, Late
  <1>2. Typed /\ Good(row) /\ mixed \in BOOLEAN
    BY DEF IInv, Typed
  <1> HIDE DEF row
  <1>3. Good(done) /\ Alike(done, row) /\ done.status = "stopped"
    BY <1>2 DEF Good, Row, Alike, Statuses
  <1> HIDE DEF done
  <1>4. Good(m') /\ m'.status = "stopped" /\ Alike(m', row)
    BY <1>1, <1>3, Writing DEF Alike
  <1>5. mixed' \in BOOLEAN /\ (mixed' = FALSE => mixed = FALSE /\ Alike(m', m))
    BY <1>1, <1>2, <1>4 DEF Behind, Alike
  <1>6. Typed'
    <2>1. /\ aside' \in [stop : Row, clean : Row, sup : Row]
          /\ \A j \in {"stop", "clean", "sup"} : Good(aside'[j])
          /\ aside'.sup # NoRun => aside'.sup.apply \in {"blocked-before", "blocked-after"}
      BY <1>1, <1>2, Idling, Copies
    <2> QED
      BY <1>1, <1>2, <1>4, <1>5, <2>1, ProcessesStay DEF Typed
  <1>7. StillTrue
    BY <1>1, NothingMoves
  <1>8. ~mixed' => (RowVerified => RowVerified') /\ (RowTruthful => RowTruthful')
    BY <1>1, <1>4, <1>5, <1>7, RowStays
  <1> QED
    BY <1>1, <1>2, <1>4, <1>5, <1>6, <1>7, <1>8, Beside, ProcessesStay
       DEF Alike, IInv, Verified, Truthful

LEMMA CleanReadsStep ==
  ASSUME IInv, CleanReads
  PROVE IInv'
  <1>1. /\ aside' = [aside EXCEPT !.clean = m]
        /\ UNCHANGED <<m, rt, sb, src, L, locks, seen, mixed, reopened>>
    BY DEF CleanReads
  <1>2. Typed /\ Good(m) /\ m \in Row /\ spent \in Nat
    BY DEF IInv, Typed, Good
  <1>3. spent' \in Nat
    <2>1. UNCHANGED spent \/ Event
      BY DEF CleanReads
    <2> QED
      BY <1>2, <2>1 DEF Event
  <1>4. Typed'
    <2>1. /\ aside' \in [stop : Row, clean : Row, sup : Row]
          /\ \A j \in {"stop", "clean", "sup"} : Good(aside'[j])
          /\ aside'.sup # NoRun => aside'.sup.apply \in {"blocked-before", "blocked-after"}
      BY <1>1, <1>2, Copies
    <2> QED
      BY <1>1, <1>2, <1>3, <2>1, ProcessesStay DEF Typed
  <1>5. StillTrue /\ Alike(m', m)
    BY <1>1, NothingMoves DEF Alike
  <1>6. (RowVerified => RowVerified') /\ (RowTruthful => RowTruthful')
    BY <1>1, <1>5, RowStays
  <1> QED
    BY <1>1, <1>2, <1>4, <1>5, <1>6, Beside, ProcessesStay DEF Alike, IInv, Verified, Truthful

(* What others do to the source.                                           *)
LEMMA SourceStep ==
  ASSUME IInv, UNCHANGED <<rt, sb, L, locks, seen, mixed, reopened>>, spent' \in Nat,
         Good(m'), m'.status = m.status, Alike(m', m), m'.status = "absent" => m' = NoRun,
         src' \in Checkout, src'.staged => src.staged,
         src'.mine = src.mine \/ Managed \/ (src.mine # "no" /\ src'.mine = "pushed"),
         src'.mine # "no" => src.mine # "no",
         aside' \in [stop : Row, clean : Row, sup : Row],
         \A j \in {"stop", "clean", "sup"} : Good(aside'[j]),
         aside'.sup # NoRun => aside'.sup.apply \in {"blocked-before", "blocked-after"}
  PROVE IInv'
  <1>1. Typed
    BY DEF IInv
  <1>2. Typed'
    BY <1>1, ProcessesStay DEF Typed
  <1>3. StillTrue
    BY SandboxStays
  <1>4. (RowVerified => RowVerified') /\ (RowTruthful => RowTruthful')
    BY <1>3, RowStays
  <1> QED
    BY <1>1, <1>2, <1>3, <1>4, Beside, ProcessesStay DEF Alike, IInv, Verified, Truthful

LEMMA SourceMovesStep ==
  ASSUME IInv, SourceMoves
  PROVE IInv'
  <1>1. UNCHANGED <<m, rt, sb, L, locks, aside, seen, mixed, reopened>> /\ Event
    BY DEF SourceMoves
  <1>2. Typed /\ src \in Checkout /\ spent \in Nat /\ Good(m) /\ (m.status = "absent" => m = NoRun)
    BY DEF IInv, Typed
  <1>3. \/ src' = [src EXCEPT !.dirty = TRUE]
        \/ src' = [src EXCEPT !.dirty = FALSE, !.staged = FALSE]
        \/ src' = [src EXCEPT !.new = TRUE]
    BY DEF SourceMoves
  <1>4. src' \in Checkout /\ (src'.staged => src.staged) /\ src'.mine = src.mine
    BY <1>2, <1>3 DEF Checkout
  <1>5. spent' \in Nat /\ Alike(m', m)
    BY <1>1, <1>2 DEF Event, Alike
  <1> QED
    BY <1>1, <1>2, <1>4, <1>5, SourceStep DEF Typed

LEMMA OtherCompletesStep ==
  ASSUME IInv, OtherCompletes
  PROVE IInv'
  <1> DEFINE s == Synced(Cleaned(src))
             copy == IF Blocked(m) THEN m ELSE NoRun
  <1>1. /\ m.status # "absent" /\ ~Cleaned(src).staged /\ ~SyncFails
        /\ Event /\ m' = [m EXCEPT !.newer = TRUE]
        /\ src' = [s EXCEPT !.head = @ + 1, !.mine = IF @ = "local" THEN "pushed" ELSE @]
        /\ aside' = [aside EXCEPT !.sup = copy]
        /\ UNCHANGED <<rt, sb, L, locks, seen, mixed, reopened>>
    BY DEF OtherCompletes
  <1>2. Typed /\ src \in Checkout /\ spent \in Nat /\ Good(m) /\ m \in Row
    BY DEF IInv, Typed, Good
  <1>3. /\ Cleaned(src) \in Checkout /\ Cleaned(src).mine = src.mine /\ Cleaned(src).new = src.new
        /\ s \in Checkout /\ (s.staged => Cleaned(src).staged)
        /\ s.mine # "no" => Cleaned(src).mine # "no"
        /\ s.mine # Cleaned(src).mine => Cleaned(src).new /\ Cleaned(src).mine = "local"
    BY <1>2, Syncing
  <1>4. s.mine = src.mine \/ Managed
    BY <1>1, <1>3 DEF SyncFails
  <1> HIDE DEF s
  <1>5. /\ src' \in Checkout /\ src'.staged = s.staged
        /\ src'.mine = s.mine \/ (s.mine # "no" /\ src'.mine = "pushed")
        /\ src'.mine = "no" <=> s.mine = "no"
    <2>1. s.head + 1 \in Nat
      BY <1>3 DEF Checkout
    <2> QED
      BY <1>1, <1>3, <2>1 DEF Checkout
  <1>6. spent' \in Nat /\ Good(m') /\ Alike(m', m) /\ m'.status = m.status
    <2>1. spent' \in Nat
      BY <1>1, <1>2 DEF Event
    <2>2. m' = [m EXCEPT !.newer = TRUE] /\ Good(m)
      BY <1>1, <1>2
    <2> QED
      BY <2>1, <2>2 DEF Good, Row, Alike
  <1>7. copy \in Row /\ Good(copy) /\ (copy # NoRun => copy.apply \in {"blocked-before", "blocked-after"})
    BY <1>2, Idling DEF Blocked
  <1> HIDE DEF copy
  <1>8. /\ aside' \in [stop : Row, clean : Row, sup : Row]
        /\ \A j \in {"stop", "clean", "sup"} : Good(aside'[j])
        /\ aside'.sup # NoRun => aside'.sup.apply \in {"blocked-before", "blocked-after"}
    BY <1>1, <1>2, <1>7, Copies
  <1>9. src'.staged => src.staged
    BY <1>1, <1>3, <1>5
  <1>10. /\ src'.mine = src.mine \/ Managed \/ (src.mine # "no" /\ src'.mine = "pushed")
         /\ src'.mine # "no" => src.mine # "no"
    BY <1>3, <1>4, <1>5
  <1> QED
    BY <1>1, <1>5, <1>6, <1>8, <1>9, <1>10, SourceStep

LEMMA DropStep ==
  ASSUME IInv, Drop
  PROVE IInv'
  <1>1. /\ m' = NoRun /\ rt' = NoState /\ seen' = {} /\ spent' = spent + 1
        /\ sb' = [sb EXCEPT !.diff = "gone", !.stash = "none"]
        /\ mixed' = (mixed \/ \E p \in Procs : L[p].pc # "off" \/ aside # Nobody)
        /\ UNCHANGED <<src, L, locks, aside, reopened>>
    BY DEF Drop, Event
  <1>2. Typed /\ sb \in Sandbox /\ spent \in Nat /\ mixed \in BOOLEAN
    BY DEF IInv, Typed
  <1>3. sb' \in Sandbox /\ sb'.applied = sb.applied /\ spent' \in Nat /\ mixed' \in BOOLEAN
    <2>1. sb' \in Sandbox /\ sb'.applied = sb.applied
      BY <1>1, <1>2 DEF Sandbox
    <2>2. mixed' \in BOOLEAN
      BY <1>1
    <2> QED
      BY <1>1, <1>2, <2>1, <2>2
  <1>4. Typed'
    BY <1>1, <1>2, <1>3, Idling, ProcessesStay DEF Typed
  <1>5. RowVerified' /\ RowTruthful'
    BY <1>1 DEF RowVerified, RowTruthful, NoRun, NoState
  <1>6. ASSUME ~mixed', NEW q \in Procs PROVE Following(q)' /\ Claims(q)'
    <2>1. L[q].pc = "off" /\ TypedProcess(q)
      BY <1>1, <1>2, <1>6 DEF Typed
    <2>2. L[q].mode = "loop"
      BY <2>1 DEF TypedProcess, Process, Finishing
    <2>3. Apart(q)' /\ TypedProcess(q)'
      BY <1>1, <1>4, <2>1, <2>2 DEF Apart, Typed
    <2> QED
      BY <2>3, ApartFollows
  <1> QED
    BY <1>4, <1>5, <1>6 DEF IInv, Verified, Truthful

LEMMA CleanActsStep ==
  ASSUME IInv, CleanActs
  PROVE IInv'
  <1> DEFINE row == aside.clean
             again == [Running(row) EXCEPT !.done = FALSE]
             given == [row EXCEPT !.status = "failed", !.stale = TRUE,
                                  !.done = @ \/ row.status = "running"]
             i == IF row.cur > 0 THEN row.cur ELSE NextIteration(row)
             state == IF rt.it = i THEN rt ELSE [NoState EXCEPT !.it = i]
  <1>1. /\ aside' = [aside EXCEPT !.clean = NoRun] /\ mixed' = (mixed \/ Behind(row))
        /\ UNCHANGED <<src, locks, seen, reopened>>
    BY DEF CleanActs, Late
  <1>2. \/ /\ CanRestart(row) \/ CanRecover(row)
           /\ rt' = rt \/ rt' = [state EXCEPT !.edit = TRUE]
           /\ sb' = (IF Gone THEN [sb EXCEPT !.diff = "none"] ELSE sb) /\ UNCHANGED spent
           /\ Write(again)
           /\ \E p \in Detached : /\ L[p].pc = "off"
                                  /\ L' = [L EXCEPT ![p] = [Idle EXCEPT !.pc = "load"]]
        \/ (Event \/ UNCHANGED spent) /\ Write(given) /\ UNCHANGED <<rt, sb, L>>
    BY DEF CleanActs, Prepared
  <1>3. /\ Typed /\ Good(row) /\ mixed \in BOOLEAN /\ rt \in State /\ sb \in Sandbox /\ spent \in Nat
        /\ seen \subseteq {"verify", "review"} /\ ~(src.staged /\ sb.applied /\ src.mine # "no")
        /\ src \in Checkout
    BY DEF IInv, Typed
  <1>4. NextIteration(row) = row.n + 1 /\ row.cur \in {row.n, row.n + 1} /\ row.n \in 0..MaxIter
        /\ row.cur \in 0..MaxIter
    BY <1>3, NextIs DEF Good, Row
  <1>5. /\ aside' \in [stop : Row, clean : Row, sup : Row]
        /\ \A j \in {"stop", "clean", "sup"} : Good(aside'[j])
        /\ aside'.sup # NoRun => aside'.sup.apply \in {"blocked-before", "blocked-after"}
    BY <1>1, <1>3, Idling, Copies
  <1>6. /\ mixed' \in BOOLEAN
        /\ mixed' = FALSE => mixed = FALSE /\ Alike(row, m)
    BY <1>1, <1>3 DEF Behind, Alike
  <1>7. /\ Good(again) /\ again.status = "running" /\ Alike(again, row)
        /\ Good(given) /\ given.status = "failed" /\ Alike(given, row)
    <2>1. Good(again) /\ again.status = "running" /\ Alike(again, row)
      <3>1. Good(Running(row)) /\ Running(row).status = "running" /\ Alike(Running(row), row)
        BY <1>3, StatusRows
      <3> HIDE DEF row
      <3> QED
        BY <3>1 DEF Good, Row, Alike
    <2>2. Good(given) /\ given.status = "failed" /\ Alike(given, row)
      <3> DEFINE over == row.done \/ row.status = "running"
      <3>1. over \in BOOLEAN
        BY <1>3 DEF Good, Row
      <3>2. given = [row EXCEPT !.status = "failed", !.stale = TRUE, !.done = over]
        OBVIOUS
      <3> HIDE DEF given, over
      <3> QED
        BY <1>3, <3>1, <3>2 DEF Good, Row, Statuses, Alike
    <2> QED
      BY <2>1, <2>2
  <1> HIDE DEF row, again, given
  <1>8. CASE (Event \/ UNCHANGED spent) /\ Write(given) /\ UNCHANGED <<rt, sb, L>>
    <2>1. Good(m') /\ m'.status = "failed" /\ Alike(m', row)
      BY <1>7, <1>8, Writing DEF Alike
    <2>2. spent' \in Nat
      BY <1>3, <1>8 DEF Event
    <2>3. Typed'
      BY <1>1, <1>3, <1>5, <1>6, <1>8, <2>1, <2>2, ProcessesStay DEF Typed
    <2>4. StillTrue
      BY <1>1, <1>8, NothingMoves
    <2>5. ~mixed' => Alike(m', m) /\ (RowVerified => RowVerified') /\ (RowTruthful => RowTruthful')
      <3>1. ~mixed' => Alike(m', m)
        BY <1>6, <2>1 DEF Alike
      <3> QED
        BY <1>1, <1>8, <2>1, <2>4, <3>1, RowStays
    <2> QED
      BY <1>1, <1>3, <1>6, <1>8, <2>1, <2>3, <2>4, <2>5, Beside, ProcessesStay
         DEF Alike, IInv, Verified, Truthful
  <1>9. CASE /\ CanRestart(row) \/ CanRecover(row)
             /\ rt' = rt \/ rt' = [state EXCEPT !.edit = TRUE]
             /\ sb' = (IF Gone THEN [sb EXCEPT !.diff = "none"] ELSE sb) /\ UNCHANGED spent
             /\ Write(again)
             /\ \E p \in Detached : /\ L[p].pc = "off"
                                    /\ L' = [L EXCEPT ![p] = [Idle EXCEPT !.pc = "load"]]
    <2>1. Good(m') /\ m'.status = "running" /\ Alike(m', row)
      BY <1>7, <1>9, Writing DEF Alike
    <2>2. i \in 0..MaxIter /\ i <= row.n + 1 /\ (row.cur = row.n + 1 => i = row.cur)
      BY <1>4, <1>9, PositiveAssumption DEF CanRestart, CanRecover
    <2>3. /\ rt' \in State
          /\ \/ rt' = rt
             \/ rt.it = i /\ rt'.it = i /\ rt'.v = rt.v /\ rt'.edit
             \/ rt.it # i /\ rt'.it = i /\ rt'.v = "?" /\ rt'.edit
      <3>1. NoState \in State /\ NoState.v = "?"
        BY Idling DEF NoState
      <3>2. CASE rt' = rt
        BY <1>3, <3>2
      <3>3. CASE rt.it = i /\ rt' = [state EXCEPT !.edit = TRUE]
        <4>1. rt' = [rt EXCEPT !.edit = TRUE]
          BY <3>3
        <4> HIDE DEF i, state
        <4> QED
          BY <1>3, <3>3, <4>1 DEF State
      <3>4. CASE rt.it # i /\ rt' = [state EXCEPT !.edit = TRUE]
        <4>1. rt' = [[NoState EXCEPT !.it = i] EXCEPT !.edit = TRUE]
          BY <3>4
        <4> HIDE DEF i, state
        <4> QED
          BY <2>2, <3>1, <3>4, <4>1 DEF State
      <3> QED
        BY <1>9, <3>2, <3>3, <3>4
    <2> HIDE DEF i, state
    <2>4. /\ sb' \in Sandbox /\ sb'.applied = sb.applied
          /\ sb'.diff = sb.diff \/ (Gone /\ sb'.diff = "none")
      BY <1>3, <1>9 DEF Sandbox, Gone
    <2>5. PICK p \in Procs : L[p].pc = "off" /\ L' = [L EXCEPT ![p] = [Idle EXCEPT !.pc = "load"]]
      BY <1>9, NoneAssumption
    <2> DEFINE ch == [Idle EXCEPT !.pc = "load"]
    <2>6. ch \in Process /\ Good(ch.mem) /\ ch.pc = "load" /\ ch.mode = "loop" /\ ch.sha = FALSE /\ ch.hit = "no"
      BY Idling DEF Process, Steps
    <2>7. L' = [L EXCEPT ![p] = ch]
      BY <2>5
    <2> HIDE DEF ch
    <2>8. L' \in [Procs -> Process] /\ L'[p] = ch /\ \A q \in Procs \ {p} : L'[q] = L[q]
      BY <1>3, <2>6, <2>7, Moving
    <2>9. TypedProcess(p)' /\ Apart(p)'
      <3>1. locks.sandbox # p
        BY <1>3, <2>5 DEF Typed, TypedProcess, Inside
      <3> QED
        BY <1>1, <2>6, <2>8, <3>1 DEF TypedProcess, Inside, Working, Hardening, Finishing, Apart
    <2>10. Typed'
      BY <1>1, <1>3, <1>5, <1>6, <1>9, <2>1, <2>3, <2>4, <2>8, <2>9, OthersTyped DEF Typed
    <2>11. StillTrue
      BY <1>1, <2>4, SandboxStays
    <2>12. ASSUME ~mixed' PROVE RowVerified' /\ m'.n = row.n /\ m'.n = m.n /\ m'.cur = m.cur /\ m'.apply = m.apply
      <3>1. RowVerified /\ m.n = row.n /\ m.cur = row.cur /\ m.apply = row.apply
        BY <1>6, <2>12 DEF IInv, Verified, Alike
      <3>2. m'.n = row.n /\ m'.cur = row.cur /\ m'.apply = row.apply
        BY <2>1 DEF Alike
      <3>3. RowVerified'
        BY <1>1, <1>4, <2>1, <2>2, <2>3, <3>1, <3>2 DEF RowVerified
      <3> QED
        BY <3>1, <3>2, <3>3
    <2>13. ASSUME ~mixed', ~reopened' PROVE RowTruthful'
      <3>1. RowTruthful /\ Alike(m', m)
        BY <1>1, <1>6, <2>1, <2>13 DEF IInv, Truthful, Alike
      <3> QED
        BY <2>11, <3>1 DEF RowTruthful, StillTrue, Alike
    <2>14. ASSUME NEW q \in Procs, Working(q), ~mixed'
           PROVE rt'.it = rt.it /\ rt'.v = rt.v /\ (rt.edit => rt'.edit)
      <3>1. Following(q) /\ TypedProcess(q) /\ Alike(row, m)
        BY <1>3, <1>6, <2>14 DEF IInv, Verified, Typed
      <3>2. GoesOn(q)
        BY <2>14 DEF Working, GoesOn, Inside, Hardening, Finishing
      <3>3. rt.it = m.cur /\ m.cur = m.n + 1
        BY <2>14, <3>1, <3>2 DEF Following, TypedProcess
      <3>4. rt.it = i
        BY <2>2, <3>1, <3>3 DEF Alike
      <3> QED
        BY <2>3, <3>4
    <2>15. \A q \in Procs : Same(q) \/ (Following(q)' /\ Claims(q)')
      BY <2>8, <2>9, ApartFollows DEF Same
    <2> QED
      BY <1>1, <1>6, <2>1, <2>10, <2>11, <2>12, <2>13, <2>14, <2>15, Beside
  <1> QED
    BY <1>2, <1>8, <1>9

(* What is left of the processes when the run is stopped.                  *)
LEMMA Killing ==
  ASSUME Typed, StopKills
  PROVE /\ L' \in [Procs -> Process] /\ \A q \in Procs : TypedProcess(q)'
        /\ locks' \in [sandbox : Procs \cup {None}, source : Procs \cup {None}]
        /\ locks.sandbox = None => locks'.sandbox = None
        /\ \A q \in Procs : Same(q) \/ Apart(q)'
  <1> DEFINE visible == {p \in Detached : L[p].pc # "off"}
  <1>1. /\ L' = [p \in Procs |-> CASE p \in visible -> Idle
                     [] Asks(p) /\ p \notin Detached -> [L[p] EXCEPT !.hit = "killed"]
                     [] OTHER -> L[p]]
        /\ locks' = [k \in DOMAIN locks |-> IF locks[k] \in visible THEN None ELSE locks[k]]
    BY DEF StopKills
  <1>2. /\ locks \in [sandbox : Procs \cup {None}, source : Procs \cup {None}]
        /\ L \in [Procs -> Process] /\ \A q \in Procs : TypedProcess(q)
    BY DEF Typed
  <1>3. visible \subseteq Procs /\ visible \subseteq Detached /\ None \notin visible
    BY NoneAssumption
  <1> HIDE DEF visible
  <1>4. /\ locks' \in [sandbox : Procs \cup {None}, source : Procs \cup {None}]
        /\ locks'.sandbox = IF locks.sandbox \in visible THEN None ELSE locks.sandbox
    BY <1>1, <1>2
  <1>5. ASSUME NEW q \in Procs
        PROVE L'[q] \in Process /\ TypedProcess(q)' /\ (Same(q) \/ Apart(q)')
    <2>1. CASE q \in visible
      <3>1. L'[q] = Idle
        BY <1>1, <1>3, <2>1
      <3>2. locks'.sandbox # q
        BY <1>4, <2>1, NoneAssumption
      <3> QED
        BY <3>1, <3>2, Idling DEF TypedProcess, Good, Inside, Working, Hardening, Finishing, Apart
    <2>2. CASE q \notin visible /\ L'[q] = L[q]
      <3>1. TypedProcess(q) /\ (locks'.sandbox = q <=> locks.sandbox = q)
        BY <1>2, <1>3, <1>4, <2>2, NoneAssumption
      <3> QED
        BY <1>2, <2>2, <3>1 DEF TypedProcess, Inside, Working, Same
    <2>3. CASE q \notin visible /\ Asks(q) /\ q \notin Detached
      <3> DEFINE ch == [L[q] EXCEPT !.hit = "killed"]
      <3>1. L'[q] = ch
        BY <1>1, <2>3
      <3>2. L[q].pc \in CodexSteps
        BY <2>3, AskingPc
      <3>3. /\ ch \in Process /\ ch.pc = L[q].pc /\ ch.mode = L[q].mode
            /\ ch.mem = L[q].mem /\ ch.ok = L[q].ok /\ ch.sha = L[q].sha /\ ch.res = L[q].res
        BY <3>2, Hitting
      <3> HIDE DEF ch
      <3>4. TypedProcess(q) /\ (locks'.sandbox = q <=> locks.sandbox = q)
        BY <1>2, <1>3, <1>4, <2>3, NoneAssumption
      <3> QED
        BY <3>1, <3>2, <3>3, <3>4 DEF TypedProcess, Inside, Working, Same
    <2>4. ~(q \in visible) /\ ~(Asks(q) /\ q \notin Detached) => L'[q] = L[q]
      BY <1>1
    <2> QED
      BY <2>1, <2>2, <2>3, <2>4
  <1>6. L' \in [Procs -> Process]
    <2>1. L' = [q \in Procs |-> L'[q]]
      BY <1>1
    <2> QED
      BY <1>5, <2>1
  <1> QED
    BY <1>4, <1>5, <1>6

LEMMA StopKillsStep ==
  ASSUME IInv, StopKills
  PROVE IInv'
  <1>1. /\ aside' = [aside EXCEPT !.stop = m] /\ Event
        /\ IF \E p \in Procs : Edits(p) /\ ~Gone THEN CodexEdits ELSE UNCHANGED <<sb, seen>>
        /\ UNCHANGED <<m, rt, src, mixed, reopened>>
    BY DEF StopKills
  <1>2. /\ Typed /\ Good(m) /\ m \in Row /\ spent \in Nat /\ sb \in Sandbox /\ seen \subseteq {"verify", "review"}
        /\ ~(src.staged /\ sb.applied /\ src.mine # "no")
    BY DEF IInv, Typed, Good
  <1>3. /\ L' \in [Procs -> Process] /\ \A q \in Procs : TypedProcess(q)'
        /\ locks' \in [sandbox : Procs \cup {None}, source : Procs \cup {None}]
        /\ locks.sandbox = None => locks'.sandbox = None
        /\ \A q \in Procs : Same(q) \/ Apart(q)'
    BY <1>2, Killing
  <1>4. /\ aside' \in [stop : Row, clean : Row, sup : Row]
        /\ \A j \in {"stop", "clean", "sup"} : Good(aside'[j])
        /\ aside'.sup # NoRun => aside'.sup.apply \in {"blocked-before", "blocked-after"}
    BY <1>1, <1>2, Copies
  <1>5. sb' \in Sandbox /\ (sb'.applied => sb.applied) /\ seen' \subseteq {"verify", "review"}
    BY <1>1, <1>2 DEF CodexEdits, Sandbox
  <1>6. Typed'
    BY <1>1, <1>2, <1>3, <1>4, <1>5 DEF Typed, Event
  <1>7. ASSUME NEW q \in Procs, Apart(q)' PROVE Following(q)' /\ Claims(q)'
    <2>1. TypedProcess(q)'
      BY <1>3
    <2> QED
      BY <1>7, <2>1, ApartFollows
  <1>8. CASE UNCHANGED <<sb, seen>>
    <2>1. StillTrue /\ Alike(m', m)
      BY <1>1, <1>8, NothingMoves DEF Alike
    <2>2. (RowVerified => RowVerified') /\ (RowTruthful => RowTruthful')
      BY <1>1, <1>8, <2>1, RowStays
    <2> QED
      BY <1>1, <1>3, <1>6, <1>7, <1>8, <2>1, <2>2, Beside DEF Alike, IInv, Verified, Truthful
  <1>9. CASE \E p \in Procs : Edits(p)
    <2>1. PICK p \in Procs : L[p].pc = "implement"
      BY <1>9 DEF Edits
    <2>2. /\ Inside(p) /\ L[p].mode = "loop" /\ L[p].sha = FALSE
          /\ ~mixed => Following(p) /\ RowVerified /\ m.status # "blocked" /\ rt.v = "?"
          /\ ~mixed /\ ~reopened => Claims(p) /\ m.apply = "none"
      BY <2>1, HardeningFacts DEF Hardening, IInv, Verified, Truthful, Following
    <2>3. ~mixed => RowVerified'
      BY <1>1, <2>2 DEF RowVerified
    <2>4. ~mixed /\ ~reopened => RowTruthful'
      BY <1>1, <1>2, <2>2, NothingSaid
    <2>5. ASSUME ~mixed, NEW q \in Procs \ {p} PROVE Following(q)' /\ Claims(q)'
      <3>1. Apart(q)
        BY <1>2, <2>2, <2>5, Alone DEF IInv
      <3>2. Apart(q)'
        BY <1>3, <3>1 DEF Apart, Same
      <3> QED
        BY <1>7, <3>2
    <2>6. ASSUME ~mixed, Same(p) PROVE Following(p)' /\ (~reopened => Claims(p)')
      <3>1. Following(p)'
        BY <1>1, <2>1, <2>2, <2>6
           DEF Same, Following, Retries, GoesOn, Inside, Working, Hardening, Finishing
      <3>2. ~reopened => Claims(p)'
        BY <1>1, <2>1, <2>2, <2>6 DEF Same, Claims, Retries, GoesOn, Inside
      <3> QED
        BY <3>1, <3>2
    <2>7. ~mixed => Following(p)' /\ (~reopened => Claims(p)')
      BY <1>3, <1>7, <2>6
    <2> QED
      BY <1>1, <1>6, <2>3, <2>4, <2>5, <2>7 DEF IInv, Verified, Truthful
  <1> QED
    BY <1>1, <1>8, <1>9

-----------------------------------------------------------------------------
(***************************************************************************)
(* The invariant, and what follows from it                                 *)
(***************************************************************************)
LEMMA Beginning ==
  Init => IInv
  <1> SUFFICES ASSUME Init PROVE IInv
    OBVIOUS
  <1>1. /\ m = NoRun /\ rt = NoState
        /\ sb = [diff |-> "none", stash |-> "none", applied |-> FALSE]
        /\ src = [dirty |-> FALSE, staged |-> FALSE, mine |-> "no", new |-> FALSE, head |-> 0]
        /\ L = [p \in Procs |-> Idle]
        /\ locks = [sandbox |-> None, source |-> None]
        /\ aside = Nobody /\ spent = 0 /\ seen = {} /\ mixed = FALSE /\ reopened = FALSE
    BY DEF Init
  <1>2. /\ sb \in Sandbox /\ src \in Checkout
        /\ locks \in [sandbox : Procs \cup {None}, source : Procs \cup {None}]
    BY <1>1 DEF Sandbox, Checkout
  <1>3. /\ aside \in [stop : Row, clean : Row, sup : Row]
        /\ (\A k \in {"stop", "clean", "sup"} : Good(aside[k])) /\ aside.sup = NoRun
    BY <1>1, Idling DEF Nobody
  <1>4. L \in [Procs -> Process] /\ \A q \in Procs : L[q] = Idle /\ locks.sandbox # q
    BY <1>1, Idling, NoneAssumption
  <1>5. ASSUME NEW q \in Procs PROVE TypedProcess(q) /\ Following(q) /\ Claims(q)
    BY <1>1, <1>4, Idling
       DEF TypedProcess, Good, Inside, Working, Hardening, Finishing, Following, Claims, Retries, GoesOn
  <1>6. Typed
    BY <1>1, <1>2, <1>3, <1>4, <1>5, Idling DEF Typed
  <1>7. RowVerified /\ RowTruthful
    BY <1>1 DEF RowVerified, RowTruthful, NoRun, NoState
  <1> QED
    BY <1>5, <1>6, <1>7 DEF IInv, Verified, Truthful

LEMMA Stuttering ==
  ASSUME IInv, UNCHANGED vars
  PROVE IInv'
  BY DEF vars, IInv, Typed, Verified, Truthful, TypedProcess, Inside, Working, Retries, Good,
         RowVerified, RowTruthful, Following, Claims, GoesOn, Covered, Checked, Committed, Pushed, Empty

LEMMA Keeping ==
  IInv /\ [Next]_vars => IInv'
  <1> SUFFICES ASSUME IInv, [Next]_vars PROVE IInv'
    OBVIOUS
  <1>1. ASSUME NEW p \in Procs, Step(p) PROVE IInv'
    BY <1>1, LoadStep, LockStep, LockBusyStep, TopStep, RebaseStep, ImplementStep, VerifyStep,
       ReviewStep, GateStep, ValidateStep, FollowStep, ConcludeStep, NextOneStep, StageStep,
       CommitStep, PushStep, RecordStep, PostApplyStep, CodexFailsStep, LoopFailsStep, LimitSteps
       DEF Step
  <1>2. ASSUME NEW p \in Procs, Start(p) \/ Dies(p) \/ Limited(p) \/ Resume(p) \/ Resolve(p)
        PROVE IInv'
    BY <1>2, StartStep, DiesStep, LimitSteps, CommandSteps
  <1>3. CASE UNCHANGED vars
    BY <1>3, Stuttering
  <1> QED
    BY <1>1, <1>2, <1>3, StopKillsStep, StopWritesStep, DropStep, CleanReadsStep, CleanActsStep,
       OtherCompletesStep, OtherMarksStep, SourceMovesStep DEF Next

(* Only Stage puts anything into the index of the source, and it does so   *)
(* for a sandbox that has something to apply.                              *)
LEMMA OnlyStage ==
  ASSUME Typed, Next, src'.staged, ~src.staged
  PROVE \E p \in Procs : L[p].pc = "stage" /\ sb.diff # "none" /\ ~Gone
  <1>1. src \in Checkout
    BY DEF Typed
  <1>2. ~Synced(src).staged /\ ~Cleaned(src).staged /\ ~Synced(Cleaned(src)).staged
    BY <1>1, Syncing
  <1>3. ASSUME NEW p \in Procs, Stage(p) PROVE L[p].pc = "stage" /\ sb.diff # "none" /\ ~Gone
    <2>1. L[p].pc = "stage"
      BY <1>3 DEF Stage, At
    <2>2. src' # src /\ src' # Cleaned(src)
      BY <1>2
    <2>3. Synced(Cleaned(src)) \in Checkout
      BY <1>1, Syncing
    <2>4. src' # [Synced(Cleaned(src)) EXCEPT !.dirty = TRUE]
      BY <1>2, <2>3 DEF Checkout
    <2> QED
      BY <1>3, <2>1, <2>2, <2>4 DEF Stage
  <1>4. ASSUME src' = src PROVE FALSE
    BY <1>4
  <1>5. ASSUME NEW p \in Procs, Step(p), ~Stage(p) PROVE FALSE
    <2>1. CASE Top(p)
      BY <1>2, <1>4, <2>1 DEF Top
    <2>2. CASE Commit(p)
      <3>1. src' = src \/ src' = [src EXCEPT !.staged = FALSE, !.mine = "local", !.head = @ + 1]
        BY <2>2 DEF Commit
      <3> QED
        BY <1>1, <1>4, <3>1 DEF Checkout
    <2>3. CASE Push(p)
      <3>1. \/ src' = src
            \/ src' = [src EXCEPT !.mine = IF @ = "local" THEN "pushed" ELSE @, !.new = FALSE,
                                  !.head = IF src.new THEN @ + 1 ELSE @]
        BY <2>3 DEF Push
      <3> QED
        BY <1>1, <1>4, <3>1 DEF Checkout
    <2>4. CASE /\ ~Top(p) /\ ~Commit(p) /\ ~Push(p)
      BY <1>4, <1>5, <2>4
         DEF Step, Load, Lock, LockBusy, Rebase, Implement, Verify, Review, Gate, Validate, Follow,
             Conclude, NextOne, Record, PostApply, CodexFails, LoopFails, Continues, Quiet
    <2> QED
      BY <2>1, <2>2, <2>3, <2>4
  <1>6. ASSUME NEW p \in Procs, Start(p) \/ Dies(p) \/ Limited(p) \/ Resume(p) \/ Resolve(p) PROVE FALSE
    BY <1>2, <1>4, <1>6 DEF Start, Dies, Limited, Resume, Resolve
  <1>7. ASSUME StopKills \/ StopWrites \/ Drop \/ CleanReads \/ CleanActs \/ OtherMarks PROVE FALSE
    BY <1>4, <1>7 DEF StopKills, StopWrites, Drop, CleanReads, CleanActs, OtherMarks
  <1>8. ASSUME OtherCompletes PROVE FALSE
    <2> DEFINE s == Synced(Cleaned(src))
    <2>1. src' = [s EXCEPT !.head = @ + 1, !.mine = IF @ = "local" THEN "pushed" ELSE @]
      BY <1>8 DEF OtherCompletes
    <2>2. s \in Checkout /\ ~s.staged
      BY <1>1, <1>2, Syncing
    <2> HIDE DEF s
    <2> QED
      BY <2>1, <2>2 DEF Checkout
  <1>9. ASSUME SourceMoves PROVE FALSE
    <2>1. \/ src' = [src EXCEPT !.dirty = TRUE] \/ src' = [src EXCEPT !.dirty = FALSE, !.staged = FALSE]
          \/ src' = [src EXCEPT !.new = TRUE]
      BY <1>9 DEF SourceMoves
    <2> QED
      BY <1>1, <2>1 DEF Checkout
  <1> QED
    BY <1>3, <1>5, <1>6, <1>7, <1>8, <1>9 DEF Next

LEMMA InvTypes == IInv => TypeOK
  <1> SUFFICES ASSUME IInv PROVE TypeOK
    OBVIOUS
  <1>1. /\ m \in Row /\ rt \in State /\ sb \in Sandbox /\ src \in Checkout
        /\ locks \in [sandbox : Procs \cup {None}, source : Procs \cup {None}]
        /\ seen \subseteq {"verify", "review"}
    BY DEF IInv, Typed, Good
  <1>2. \A k \in DOMAIN locks : locks[k] \in Procs \cup {None}
    BY <1>1
  <1> QED
    BY <1>1, <1>2 DEF TypeOK, Row, State, Sandbox, Checkout

(* The row, the results of the iteration, the sandbox, the source and what *)
(* every process remembers of them have their types.                       *)
THEOREM TypeCorrect ==
  Spec => []TypeOK
  BY InvTypes, Beginning, Keeping, PTL DEF Spec

(* Changes are staged in the source only when the tree they come from has  *)
(* passed verification and review as it is (finalizeLocalWorkRun), unless  *)
(* a process has written an old copy of the row.                           *)
THEOREM AppliesOnlyVerified ==
  Spec => AppliesVerified
  <1> DEFINE Only == src'.staged /\ ~src.staged /\ ~mixed => {"verify", "review"} \subseteq seen
  <1>1. IInv /\ [Next]_vars => [Only]_vars
    <2> SUFFICES ASSUME IInv, Next, src'.staged, ~src.staged, ~mixed PROVE Checked
      BY DEF Checked
    <2>1. Typed /\ Verified
      BY DEF IInv
    <2>2. PICK p \in Procs : L[p].pc = "stage" /\ sb.diff # "none" /\ ~Gone
      BY <2>1, OnlyStage
    <2>3. Following(p)
      BY <2>1 DEF Verified
    <2> QED
      BY <2>2, <2>3 DEF Following, Covered, Gone
  <1> QED
    BY <1>1, Beginning, Keeping, PTL DEF Spec, AppliesVerified

(* A run that says "pushed" has its work on the remote branch, and one     *)
(* that says "no-op" has nothing left to apply (work_local.go:2279), in a  *)
(* source that nana does not manage, whatever fails or is tried again.     *)
THEOREM SaysTheTruth ==
  ASSUME ~Managed
  PROVE Spec => []CompletedIsTrue
  <1>1. IInv => CompletedIsTrue
    BY DEF IInv, Truthful, RowTruthful, Pushed, Empty, CompletedIsTrue, Gone
  <1> QED
    BY <1>1, Beginning, Keeping, PTL DEF Spec

-----------------------------------------------------------------------------
(* The validation of findings, for every set of findings and files, any    *)
(* number of rounds, attempts, interruptions and validators at a time.     *)
Decisions == V!Drops \cup {"keep"}

Shape ==
  /\ at \in {"review", "filter", "group", "queue", "collect", "remember", "end", "stopped"}
  /\ ctx \in [reviewed : BOOLEAN, grouped : BOOLEAN, validated : BOOLEAN]
  /\ work = [waits |-> work.waits, runs |-> work.runs, done |-> work.done]

(* What the runtime state says is complete, by where the loop is.          *)
Context ==
  /\ ctx.grouped \/ ctx.validated => ctx.reviewed
  /\ at = "review" => ~ctx.reviewed
  /\ at \notin {"review", "stopped"} => ctx.reviewed
  /\ at \in {"queue", "collect"} => ctx.grouped
  /\ at \in {"remember", "end"} => ctx.validated
  /\ at # "collect" => work = V!NoWork

(* A decision to drop, in memory, in a file or in the manifest, is one     *)
(* that a validator made.                                                  *)
Says(decisions, told) ==
  \A f \in DOMAIN decisions :
    decisions[f] \in Decisions /\ (decisions[f] \in V!Drops => f \in told)
Sincere ==
  /\ known \subseteq said
  /\ Says(verdict, said)
  /\ \A n \in DOMAIN results : Says(results[n], said)

(* What nobody has decided to drop goes from the review to the list, to    *)
(* the groups, and to the verdicts.                                        *)
Members(gs) == UNION {g.members : g \in gs}
Handed ==
  /\ at = "group" => found \ said \subseteq todo
  /\ ctx.grouped => found \ said \subseteq Members(groups)
  /\ ctx.validated => found \ said \subseteq DOMAIN verdict
  /\ at = "collect" => Members(work.done) \subseteq DOMAIN verdict

VInv == Shape /\ Context /\ Sincere /\ Handed

-----------------------------------------------------------------------------
(* A group's verdict covers its members and is as sincere as the file.     *)
LEMMA ReturnGives ==
  ASSUME NEW g, NEW decisions, NEW told, V!Return(g, decisions),
         Says(verdict, told), Says(decisions, told)
  PROVE  DOMAIN verdict' = DOMAIN verdict \cup g.members /\ Says(verdict', told)
  <1> DEFINE D == V!Decided(g, decisions)
  <1>1. /\ verdict' = V!Both(verdict, D)
        /\ DOMAIN D = g.members
        /\ \A f \in g.members :
             D[f] = IF f \in DOMAIN decisions THEN decisions[f] ELSE "keep"
    BY DEF V!Return, V!Decided
  <1> HIDE DEF D
  <1>2. /\ DOMAIN verdict' = DOMAIN verdict \cup g.members
        /\ \A f \in DOMAIN verdict' :
             verdict'[f] = IF f \in g.members THEN D[f] ELSE verdict[f]
    BY <1>1 DEF V!Both
  <1>3. "keep" \in Decisions /\ "keep" \notin V!Drops
    BY DEF Decisions, V!Drops
  <1> QED BY <1>1, <1>2, <1>3 DEF Says

LEMMA ReturnDomain ==
  ASSUME NEW g, NEW decisions, V!Return(g, decisions)
  PROVE  DOMAIN verdict' = DOMAIN verdict \cup g.members
  BY DEF V!Return, V!Both, V!Decided

LEMMA VBegins == V!Init => VInv
  BY DEF V!Init, VInv, Shape, Context, Sincere, Handed, Says, V!NoResult, V!NoFiles, V!NoWork,
     V!Fresh, Members

LEMMA ReviewsStep == VInv /\ V!Review => VInv'
  BY DEF V!Review, VInv, Shape, Context, Sincere, Handed, Says

LEMMA FilterStep == VInv /\ V!Filter => VInv'
  BY DEF V!Filter, VInv, Shape, Context, Sincere, Handed, Says, V!NoResult

LEMMA GroupStep == VInv /\ V!Group => VInv'
  <1> SUFFICES ASSUME VInv, V!Group PROVE VInv'
    OBVIOUS
  <1>1. CASE UNCHANGED <<at, groups, ctx>>
    BY <1>1 DEF V!Group, VInv, Shape, Context, Sincere, Handed
  <1>2. ASSUME NEW gs \in V!Groupings(todo), V!Grouped(gs) PROVE VInv'
    <2>1. Members(gs) = todo
      BY DEF V!Groupings, Members
    <2>2. /\ at = "group" /\ at' = "queue" /\ groups' = gs
          /\ ctx' = [ctx EXCEPT !.grouped = TRUE]
          /\ UNCHANGED <<found, work, verdict, results, known, said>>
      BY <1>2 DEF V!Group, V!Grouped
    <2>3. Shape' /\ Context'
      BY <2>2 DEF VInv, Shape, Context
    <2>4. Sincere'
      BY <2>2 DEF VInv, Sincere
    <2>5. Handed'
      BY <2>1, <2>2 DEF VInv, Shape, Handed
    <2> QED BY <2>3, <2>4, <2>5 DEF VInv
  <1> QED BY <1>1, <1>2 DEF V!Group, V!Singletons

LEMMA QueueStep == VInv /\ V!Queue => VInv'
  BY DEF V!Queue, VInv, Shape, Context, Sincere, Handed, V!NoWork, Members

LEMMA ClaimStep ==
  ASSUME VInv, NEW g, V!Claim(g)
  PROVE  VInv'
  <1>1. CASE g.file \in DOMAIN results
    <2>1. DOMAIN verdict' = DOMAIN verdict \cup g.members /\ Says(verdict', said)
      BY <1>1, ReturnGives DEF V!Claim, VInv, Sincere
    <2>2. work'.done = work.done \cup {g}
      BY <1>1 DEF V!Claim, VInv, Shape
    <2>3. Members(work'.done) = Members(work.done) \cup g.members
      BY <2>2 DEF Members
    <2> QED BY <1>1, <2>1, <2>3 DEF V!Claim, VInv, Shape, Context, Sincere, Handed
  <1>2. CASE g.file \notin DOMAIN results
    BY <1>2 DEF V!Claim, VInv, Shape, Context, Sincere, Handed
  <1> QED BY <1>1, <1>2

LEMMA DecideStep ==
  ASSUME VInv, NEW g, V!Decide(g)
  PROVE  VInv'
  <1>1. PICK S \in SUBSET g.members : \E d \in [S -> Decisions] :
          /\ results' = V!Both(results, [n \in {g.file} |-> d])
          /\ said' = said \cup {f \in S : d[f] \in V!Drops}
          /\ V!Return(g, d)
    BY DEF V!Decide, Decisions
  <1>2. PICK d \in [S -> Decisions] :
        /\ results' = V!Both(results, [n \in {g.file} |-> d])
        /\ said' = said \cup {f \in S : d[f] \in V!Drops}
        /\ V!Return(g, d)
    BY <1>1
  <1>3. Says(d, said') /\ Says(verdict, said')
        /\ \A n \in DOMAIN results : Says(results[n], said')
    BY <1>2 DEF VInv, Sincere, Says
  <1>4. DOMAIN verdict' = DOMAIN verdict \cup g.members /\ Says(verdict', said')
    BY <1>2, <1>3, ReturnGives
  <1>5. \A n \in DOMAIN results' : Says(results'[n], said')
    BY <1>2, <1>3 DEF V!Both
  <1>6. work'.done = work.done \cup {g}
    BY DEF V!Decide, VInv, Shape
  <1>7. Members(work'.done) = Members(work.done) \cup g.members
    BY <1>6 DEF Members
  <1>8. Sincere'
    BY <1>2, <1>4, <1>5 DEF V!Decide, VInv, Sincere
  <1>9. Handed'
    BY <1>2, <1>4, <1>7 DEF V!Decide, VInv, Handed
  <1> QED BY <1>8, <1>9 DEF V!Decide, VInv, Shape, Context

LEMMA FailStep ==
  ASSUME VInv, NEW g, V!Fail(g)
  PROVE  VInv'
  BY DEF V!Fail, VInv, Shape, Context, Sincere, Handed, V!NoWork, Members

(* Every group has its verdict before the runtime state says so.           *)
LEMMA CollectStep == VInv /\ V!Collect => VInv'
  BY DEF V!Collect, VInv, Shape, Context, Sincere, Handed, V!NoWork

LEMMA RememberStep == VInv /\ V!Remember => VInv'
  <1> SUFFICES ASSUME VInv, V!Remember PROVE VInv'
    OBVIOUS
  <1>1. DOMAIN verdict \ V!Kept \subseteq said
    BY DEF VInv, Sincere, Says, V!Kept, Decisions, V!Drops
  <1>2. known' \subseteq said'
    BY <1>1 DEF V!Remember, VInv, Sincere
  <1>3. CASE at' = "review"
    <2>1. /\ ctx' = V!Fresh /\ results' = V!NoFiles /\ verdict' = V!NoResult
          /\ at = "remember" /\ UNCHANGED <<work, said>>
      BY <1>3 DEF V!Remember
    <2>2. Shape' /\ Context' /\ Handed'
      BY <1>3, <2>1 DEF VInv, Shape, Context, Handed, V!Fresh
    <2>3. Sincere'
      BY <1>2, <2>1 DEF Sincere, Says, V!NoFiles, V!NoResult
    <2> QED BY <2>2, <2>3 DEF VInv
  <1>4. CASE at' = "end"
    BY <1>2, <1>4 DEF V!Remember, VInv, Shape, Context, Sincere, Handed
  <1> QED BY <1>3, <1>4 DEF V!Remember

LEMMA StopStep == VInv /\ (V!Interrupt \/ V!Again) => VInv'
  BY DEF V!Interrupt, V!Again, VInv, Shape, Context, Sincere, Handed, V!NoWork

LEMMA Inductive == VInv /\ [V!Next]_(V!vars) => VInv'
  <1>1. VInv /\ UNCHANGED V!vars => VInv'
    BY DEF V!vars, VInv, Shape, Context, Sincere, Handed
  <1> QED BY <1>1, ReviewsStep, FilterStep, GroupStep, QueueStep, ClaimStep, DecideStep,
             FailStep, CollectStep, RememberStep, StopStep DEF V!Next

(* No finding of a review is lost: when the validated findings are used,   *)
(* the ones that no validator has decided to drop are among those that are *)
(* hardened, whatever was interrupted, grouped twice under one name, left  *)
(* out by Codex or taken from a file (runLocalWorkValidationPhase).        *)
THEOREM NothingDropped == V!Spec => []V!NoneLost
  <1>1. VInv => V!NoneLost
    BY DEF VInv, Context, Sincere, Handed, Says, V!NoneLost, V!Kept, Decisions, V!Drops
  <1> QED BY <1>1, VBegins, Inductive, PTL DEF V!Spec

-----------------------------------------------------------------------------
(* Types, and the semaphore: the validators that run are finitely many, so *)
(* that their number can be counted.                                       *)
VTyped ==
  /\ round \in 0..LastRound
  /\ found \subseteq Findings /\ known \subseteq Findings /\ todo \subseteq Findings
  /\ groups \subseteq [file : Files, members : SUBSET Findings]
  /\ DOMAIN verdict \subseteq Findings /\ work.waits \subseteq groups
Pool == IsFiniteSet(work.runs) /\ Cardinality(work.runs) <= Parallelism

TInv == VInv /\ VTyped /\ Pool

(* One validator more, or one less.                                        *)
LEMMA RunsChange ==
  ASSUME NEW S, IsFiniteSet(S), NEW g
  PROVE  /\ IsFiniteSet(S \cup {g}) /\ IsFiniteSet(S \ {g})
         /\ Cardinality(S) \in Nat
         /\ Cardinality(S \cup {g}) \in {Cardinality(S), Cardinality(S) + 1}
         /\ Cardinality(S \ {g}) \in {Cardinality(S), Cardinality(S) - 1}
  <1>1. Cardinality(S) \in Nat
    BY FS_CardinalityType
  <1>2. /\ IsFiniteSet(S \cup {g})
        /\ Cardinality(S \cup {g}) \in {Cardinality(S), Cardinality(S) + 1}
    BY FS_AddElement
  <1>3. /\ IsFiniteSet(S \ {g})
        /\ Cardinality(S \ {g}) \in {Cardinality(S), Cardinality(S) - 1}
    BY FS_RemoveElement
  <1> QED BY <1>1, <1>2, <1>3

(* The pool is left alone or emptied, or one validator starts or ends.     *)
LEMMA PoolStep ==
  ASSUME V!SizeAssumption, VInv, Pool,
         \/ work' = work \/ work'.runs = {}
         \/ \E g : \/ work'.runs = work.runs \cup {g} /\ Cardinality(work.runs) < Parallelism
                   \/ work'.runs = work.runs \ {g}
  PROVE  Pool'
  <1>1. Parallelism \in Nat \ {0}
    BY DEF V!SizeAssumption
  <1>2. CASE work'.runs = {}
    BY <1>1, <1>2, FS_EmptySet DEF Pool
  <1>3. CASE work' = work
    BY <1>3 DEF Pool
  <1>4. ASSUME NEW g, work'.runs = work.runs \cup {g}, Cardinality(work.runs) < Parallelism
        PROVE  Pool'
    <2>1. IsFiniteSet(work'.runs) /\ Cardinality(work.runs) \in Nat
          /\ Cardinality(work'.runs) \in {Cardinality(work.runs), Cardinality(work.runs) + 1}
      <3>1. IsFiniteSet(work.runs)
        BY DEF Pool
      <3>2. /\ IsFiniteSet(work.runs \cup {g}) /\ Cardinality(work.runs) \in Nat
            /\ Cardinality(work.runs \cup {g})
                 \in {Cardinality(work.runs), Cardinality(work.runs) + 1}
        BY <3>1, RunsChange
      <3> QED BY <1>4, <3>2
    <2> QED BY <1>1, <1>4, <2>1 DEF Pool
  <1>5. ASSUME NEW g, work'.runs = work.runs \ {g} PROVE Pool'
    <2>1. IsFiniteSet(work'.runs) /\ Cardinality(work.runs) \in Nat
          /\ Cardinality(work'.runs) \in {Cardinality(work.runs), Cardinality(work.runs) - 1}
      <3>1. IsFiniteSet(work.runs)
        BY DEF Pool
      <3>2. /\ IsFiniteSet(work.runs \ {g}) /\ Cardinality(work.runs) \in Nat
            /\ Cardinality(work.runs \ {g})
                 \in {Cardinality(work.runs), Cardinality(work.runs) - 1}
        BY <3>1, RunsChange
      <3> QED BY <1>5, <3>2
    <2> QED BY <1>1, <2>1 DEF Pool
  <1> QED BY <1>2, <1>3, <1>4, <1>5

LEMMA SameSize == ASSUME NEW S PROVE V!Cardinality(S) = Cardinality(S)
  BY DEF V!Cardinality, Cardinality

LEMMA TypeStep ==
  ASSUME V!SizeAssumption, TInv, V!Next
  PROVE  VTyped' /\ Pool'
  <1> USE DEF TInv
  <1>1. CASE V!Review \/ V!Filter \/ V!Queue \/ V!Collect \/ V!Interrupt \/ V!Again
    <2>1. VTyped'
      BY <1>1 DEF V!Review, V!Filter, V!Queue, V!Collect, V!Interrupt, V!Again, VInv, Shape, VTyped,
         V!NoWork, V!NoResult
    <2>2. work' = work \/ work'.runs = {}
      BY <1>1 DEF V!Review, V!Filter, V!Queue, V!Collect, V!Interrupt, V!Again, V!NoWork
    <2> QED BY <2>1, <2>2, PoolStep
  <1>2. CASE V!Group
    <2>1. work' = work
      BY <1>2 DEF V!Group
    <2>2. CASE UNCHANGED groups
      BY <1>2, <2>1, <2>2, PoolStep DEF V!Group, VTyped
    <2>3. ASSUME NEW gs \in V!Groupings(todo), groups' = gs PROVE VTyped' /\ Pool'
      <3>1. gs \subseteq [file : Files, members : SUBSET Findings]
        BY DEF V!Groupings, VTyped
      <3>2. work.waits = {}
        BY <1>2 DEF V!Group, VInv, Context, V!NoWork
      <3> QED BY <1>2, <2>1, <2>3, <3>1, <3>2, PoolStep DEF V!Group, VTyped
    <2> QED BY <1>2, <2>2, <2>3 DEF V!Group, V!Grouped, V!Singletons
  <1>3. CASE V!Remember
    <2>1. round' \in 0..LastRound
      BY <1>3 DEF V!SizeAssumption, V!Remember, VTyped
    <2>2. known' \subseteq Findings /\ DOMAIN verdict' \subseteq Findings
      BY <1>3 DEF V!Remember, VTyped, V!NoResult
    <2>3. work.waits = {} /\ work' = work
      BY <1>3 DEF V!Remember, VInv, Context, V!NoWork
    <2> QED BY <1>3, <2>1, <2>2, <2>3, PoolStep DEF V!Remember, VTyped
  <1>4. ASSUME NEW g \in groups, V!Claim(g) PROVE VTyped' /\ Pool'
    <2>1. g.members \subseteq Findings
      BY DEF VTyped
    <2>2. DOMAIN verdict' \subseteq Findings
      <3>1. CASE g.file \in DOMAIN results
        BY <1>4, <2>1, <3>1, ReturnDomain DEF V!Claim, VTyped
      <3>2. CASE g.file \notin DOMAIN results
        BY <1>4, <3>2 DEF V!Claim, VTyped
      <3> QED BY <3>1, <3>2
    <2>4. work'.waits = work.waits \ {g}
      BY <1>4 DEF V!Claim, VInv, Shape
    <2>5. VTyped'
      BY <1>4, <2>2, <2>4 DEF V!Claim, VTyped
    <2>3. \/ work'.runs = work.runs
          \/ work'.runs = work.runs \cup {g} /\ Cardinality(work.runs) < Parallelism
      BY <1>4, SameSize DEF V!Claim, VInv, Shape
    <2> QED BY <2>3, <2>5, PoolStep DEF Pool
  <1>5. ASSUME NEW g \in groups, V!Decide(g) PROVE VTyped' /\ Pool'
    <2>1. g.members \subseteq Findings
      BY DEF VTyped
    <2>2. PICK d : V!Return(g, d)
      BY <1>5 DEF V!Decide
    <2>3. DOMAIN verdict' \subseteq Findings
      BY <2>1, <2>2, ReturnDomain DEF VTyped
    <2>4. work'.runs = work.runs \ {g} /\ work'.waits = work.waits
      BY <1>5 DEF V!Decide, VInv, Shape
    <2> QED BY <1>5, <2>3, <2>4, PoolStep DEF V!Decide, VTyped
  <1>6. ASSUME NEW g \in groups, V!Fail(g) PROVE VTyped' /\ Pool'
    BY <1>6, PoolStep DEF V!Fail, V!NoWork, VTyped
  <1> QED BY <1>1, <1>2, <1>3, <1>4, <1>5, <1>6 DEF V!Next

LEMMA TypesBegin ==
  ASSUME V!SizeAssumption
  PROVE  V!Init => TInv
  BY VBegins, FS_EmptySet DEF V!SizeAssumption, V!Init, TInv, VTyped, Pool, V!NoWork, V!NoResult

LEMMA TypesStay ==
  ASSUME V!SizeAssumption
  PROVE  TInv /\ [V!Next]_(V!vars) => TInv'
  BY TypeStep, Inductive DEF TInv, VTyped, Pool, V!vars

LEMMA TypesImply == TInv => V!TypeOK /\ V!NoneLost
  BY SameSize DEF TInv, VInv, Shape, VTyped, Pool, V!TypeOK, Context, Sincere, Handed, Says, V!NoneLost,
     V!Kept, Decisions, V!Drops

(* The loop's variables have their types, and there are never more         *)
(* validators at work than ValidationParallelism (validateFindingGroups).  *)
THEOREM ValidationTypes ==
  ASSUME V!SizeAssumption
  PROVE  V!Spec => []V!TypeOK
  BY TypesBegin, TypesStay, TypesImply, PTL DEF V!Spec

-----------------------------------------------------------------------------
(* While a run does its steps the validation of findings stands still, and *)
(* the other way round.                                                    *)
BothInv == IInv /\ TInv

LEMMA BothBegin == MCInit => BothInv
  BY Beginning, ValidationAssumption, TypesBegin DEF MCInit, BothInv

LEMMA BothStay == BothInv /\ [MCNext]_allVars => BothInv'
  <1> SUFFICES ASSUME BothInv, [MCNext]_allVars PROVE BothInv'
    OBVIOUS
  <1>1. CASE [Next]_vars /\ UNCHANGED validationVars
    <2>1. IInv'
      BY <1>1, Keeping DEF BothInv
    <2>2. UNCHANGED V!vars
      BY <1>1 DEF validationVars, V!vars
    <2> QED
      BY <2>1, <2>2, ValidationAssumption, TypesStay DEF BothInv
  <1>2. CASE V!Next /\ UNCHANGED vars
    <2>1. IInv'
      BY <1>2, Keeping DEF BothInv
    <2> QED
      BY <1>2, <2>1, ValidationAssumption, TypesStay DEF BothInv
  <1> QED
    BY <1>1, <1>2 DEF MCNext, Aside, allVars

(* No finding of a review is lost (runLocalWorkValidationPhase), and run   *)
(* and validation have their types.                                        *)
THEOREM NoFindingLost == MCSpec => []NoneLost
  <1>1. BothInv => NoneLost
    BY InvTypes, TypesImply DEF BothInv, NoneLost
  <1> QED
    BY <1>1, BothBegin, BothStay, PTL DEF MCSpec
=============================================================================
