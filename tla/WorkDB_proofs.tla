---------------------------- MODULE WorkDB_proofs ----------------------------
(***************************************************************************)
(* Proofs about what nana stores, as MCStores puts it together.  For every *)
(* number of calls, supervisors, launches and attempts: the types of       *)
(* WorkDB, that one transaction at a time has written, and that the calls  *)
(* implement AtomicWrites.  For every number of processes and sources: an  *)
(* open of the database completes its file, and nothing in it is lost.     *)
(* For every number of findings: what Findings_proofs proves of them.  For *)
(* every number of sessions, runs and processes: what reports count of     *)
(* usage.                                                                  *)
(***************************************************************************)
EXTENDS MCStores, FiniteSetTheorems, WellFoundedInduction, TLAPS

(* The theorems about findings.                                            *)
P == INSTANCE Findings_proofs

-----------------------------------------------------------------------------
(* The inductive invariant                                                 *)

(* Outside of its requests a call has no session, and a call without one   *)
(* gets nothing but errors: the answers it still has were given before.    *)
Hosting(c) ==
  /\ pc[c] \in {"open", "dial", "done"} => host[c] = None /\ rep[c] = "none"
  /\ rep[c] = "sent" => host[c] # None
  /\ host[c] = None => /\ sess[c] = "none" /\ wrote[c] = {}
                       /\ pc[c] \in Ops /\ c \notin dead => rep[c] = "error"

(* How far a session is, by the request it serves or has just answered.    *)
Progress(c) ==
  host[c] # None =>
    /\ pc[c] = "ping" => /\ rep[c] \in {"sent", "ok"} /\ wrote[c] = {}
                         /\ sess[c] = IF rep[c] = "ok" THEN "open" ELSE "none"
    /\ pc[c] = "begin" => /\ rep[c] \in {"sent", "ok"} /\ wrote[c] = {}
                          /\ sess[c] = IF rep[c] = "ok" THEN "tx" ELSE "open"
    /\ pc[c] = "query" => /\ rep[c] \in {"sent", "ok"} /\ wrote[c] = {}
                          /\ sess[c] = "tx"
    /\ pc[c] = "exec1" => /\ rep[c] \in {"sent", "ok", "busy"} /\ sess[c] = "tx"
                          /\ wrote[c] = IF rep[c] = "ok" THEN {1} ELSE {}
    /\ pc[c] = "exec2" => /\ rep[c] \in {"sent", "ok", "busy"} /\ sess[c] = "tx"
                          /\ wrote[c] = IF rep[c] = "ok" THEN Rows ELSE {1}
    /\ pc[c] = "commit" => /\ rep[c] \in {"sent", "ok"}
                           /\ sess[c] = IF rep[c] = "ok" THEN "open" ELSE "tx"
                           /\ wrote[c] = IF rep[c] = "ok" THEN {} ELSE Rows
    /\ pc[c] = "rollback" => /\ rep[c] \in {"sent", "ok"}
                             /\ rep[c] = "sent" => sess[c] = "tx"
                             /\ rep[c] = "ok" => sess[c] = "none" /\ wrote[c] = {}
    /\ pc[c] = "close" => /\ rep[c] \in {"sent", "ok"}
                          /\ sess[c] # "tx" /\ wrote[c] = {}
                          /\ rep[c] = "ok" => sess[c] = "none"

(* A call knows whether it may have committed: "busy", which is worth      *)
(* another attempt, is never its verdict once it has.                      *)
Honest(c) ==
  /\ pc[c] \notin {"rollback", "close", "done"} => verdict[c] = "ok"
  /\ pc[c] = "rollback" => verdict[c] # "ok"
  /\ c \in applied => /\ pc[c] \in {"commit", "close", "done"}
                      /\ pc[c] = "commit" => rep[c] # "sent"
                      /\ verdict[c] # "busy"
  /\ pc[c] = "commit" => rep[c] # "busy" /\ (rep[c] = "ok" => c \in applied)
  /\ pc[c] = "close" /\ verdict[c] = "ok" => c \in applied
  /\ outcome[c] # "none" => pc[c] = "done"

(* Only the holder of the lock has written.                                *)
Writer == \A c \in Clients : wrote[c] # {} => lock = c

Own(c) == Hosting(c) /\ Progress(c) /\ Honest(c)

IInv == TypeOK /\ Writer /\ \A c \in Clients : Own(c)

-----------------------------------------------------------------------------
(* The requests, spelled out.                                              *)
LEMMA Requests ==
  /\ Ops = {"ping", "begin", "query", "exec1", "exec2", "commit", "rollback", "close"}
  /\ Following("ping") = "begin" /\ Following("begin") = "query"
  /\ Following("query") = "exec1" /\ Following("exec1") = "exec2"
  /\ Following("exec2") = "commit" /\ Following("commit") = "close"
  <1>1. /\ Len(Script) = 6 /\ Script[1] = "ping" /\ Script[2] = "begin"
        /\ Script[3] = "query" /\ Script[4] = "exec1" /\ Script[5] = "exec2"
        /\ Script[6] = "commit"
    BY DEF Script
  <1>2. Ops = {"ping", "begin", "query", "exec1", "exec2", "commit", "rollback", "close"}
    BY <1>1 DEF Ops
  <1>3. ASSUME NEW j \in 1..5 PROVE Following(Script[j]) = Script[j + 1]
    <2>1. \A i \in 1..6 : Script[i] = Script[j] => i = j
      BY <1>1
    <2>2. (CHOOSE i \in 1..Len(Script) : Script[i] = Script[j]) = j
      BY <1>1, <2>1
    <2>3. Script[j] # "commit"
      BY <1>1
    <2> QED BY <2>2, <2>3 DEF Following
  <1>4. Following("commit") = "close"
    BY DEF Following
  <1> QED BY <1>1, <1>2, <1>3, <1>4

(* A step of one call leaves what is said of the others alone.             *)
LEMMA Others ==
  ASSUME IInv, NEW c \in Clients, TypeOK', Writer', Own(c)',
         \A d \in Clients \ {c} :
           /\ pc'[d] = pc[d] /\ rep'[d] = rep[d] /\ host'[d] = host[d]
           /\ sess'[d] = sess[d] /\ wrote'[d] = wrote[d]
           /\ verdict'[d] = verdict[d] /\ outcome'[d] = outcome[d]
           /\ d \in dead' <=> d \in dead
           /\ d \in applied' <=> d \in applied
  PROVE  IInv'
  <1>1. ASSUME NEW d \in Clients \ {c} PROVE Own(d)'
    BY <1>1 DEF IInv, Own, Hosting, Progress, Honest
  <1> QED BY <1>1 DEF IInv

LEMMA Initially == Init => IInv
  <1> SUFFICES ASSUME Init PROVE IInv
    OBVIOUS
  <1>1. TypeOK
    BY Requests, AttemptsAssumption DEF Init, TypeOK
  <1>2. Writer
    BY DEF Init, Writer
  <1>3. \A c \in Clients : Own(c)
    BY Requests DEF Init, Own, Hosting, Progress, Honest
  <1> QED BY <1>1, <1>2, <1>3 DEF IInv

LEMMA PingStep ==
  ASSUME IInv, NEW c \in Clients, Ping(c)
  PROVE  IInv'
  <1>1. TypeOK'
    BY DEF IInv, TypeOK, Ping, Serving, Reply, sups, Own, Hosting, Progress
  <1>2. Writer'
    BY DEF IInv, Writer, Ping
  <1>3. Own(c)'
    BY Requests DEF IInv, TypeOK, Ping, Serving, Reply, sups, Own, Hosting, Progress, Honest
  <1> QED BY <1>1, <1>2, <1>3, Others DEF IInv, TypeOK, Ping, Reply, sups

LEMMA BeginStep ==
  ASSUME IInv, NEW c \in Clients, Begin(c)
  PROVE  IInv'
  <1>1. TypeOK'
    BY DEF IInv, TypeOK, Begin, Serving, Reply, sups, Own, Hosting, Progress
  <1>2. Writer'
    BY DEF IInv, Writer, Begin
  <1>3. Own(c)'
    BY Requests DEF IInv, TypeOK, Begin, Serving, Reply, sups, Own, Hosting, Progress, Honest
  <1> QED BY <1>1, <1>2, <1>3, Others DEF IInv, TypeOK, Begin, Reply, sups

LEMMA QueryStep ==
  ASSUME IInv, NEW c \in Clients, Query(c)
  PROVE  IInv'
  <1>1. TypeOK'
    BY DEF IInv, TypeOK, Query, Serving, Reply, sups, Own, Hosting, Progress
  <1>2. Writer'
    BY DEF IInv, Writer, Query
  <1>3. Own(c)'
    BY Requests DEF IInv, TypeOK, Query, Serving, Reply, sups, Own, Hosting, Progress, Honest
  <1> QED BY <1>1, <1>2, <1>3, Others DEF IInv, TypeOK, Query, Reply, sups

(* The two writes of a script; the second finds the first one there.       *)
LEMMA ExecStep ==
  ASSUME IInv, NEW c \in Clients,
         NEW op, NEW i, <<op, i>> \in {<<"exec1", 1>>, <<"exec2", 2>>}, Exec(c, op, i)
  PROVE  IInv'
  <1>1. sess[c] = "tx" /\ host[c] # None
    BY DEF IInv, Exec, Serving, Own, Hosting, Progress
  <1>2. TypeOK'
    BY <1>1 DEF IInv, TypeOK, Exec, Reply, sups, Rows
  <1>3. Writer'
    BY NoneAssumption DEF IInv, TypeOK, Writer, Exec
  <1>4. Own(c)'
    <2>1. Hosting(c)' /\ Honest(c)'
      BY <1>1, Requests DEF IInv, TypeOK, Exec, Serving, Reply, sups, Own, Hosting, Honest
    <2>2. /\ pc[c] = op /\ pc'[c] = op /\ sess'[c] = "tx" /\ op \in {"exec1", "exec2"}
          /\ wrote[c] = IF op = "exec1" THEN {} ELSE {1}
      BY <1>1 DEF IInv, Exec, Serving, Reply, Own, Progress
    <2>3. \/ rep'[c] = "ok" /\ wrote'[c] = wrote[c] \cup {i}
          \/ rep'[c] = "busy" /\ wrote'[c] = wrote[c]
      BY DEF IInv, TypeOK, Exec, Reply
    <2>4. wrote[c] \cup {i} = IF op = "exec1" THEN {1} ELSE Rows
      BY <2>2 DEF Rows
    <2> QED BY <2>1, <2>2, <2>3, <2>4 DEF Own, Progress
  <1> QED BY <1>2, <1>3, <1>4, Others DEF IInv, TypeOK, Exec, Reply, sups

LEMMA CommitStep ==
  ASSUME IInv, NEW c \in Clients, Commit(c)
  PROVE  IInv'
  <1>1. TypeOK'
    BY DEF IInv, TypeOK, Commit, Reply, sups, Rows
  <1>2. Writer'
    BY NoneAssumption DEF IInv, TypeOK, Writer, Own, Commit, Serving, Hosting, Progress, Rows
  <1>3. Own(c)'
    BY Requests DEF IInv, TypeOK, Commit, Serving, Reply, sups, Rows, Own, Hosting, Progress, Honest
  <1> QED BY <1>1, <1>2, <1>3, Others DEF IInv, TypeOK, Commit, Reply, sups

(* Sessions that end leave the rest consistent.                            *)
LEMMA Ending ==
  ASSUME IInv, NEW C \in SUBSET Clients, EndSessions(C)
  PROVE  /\ Writer'
         /\ lock' \in Clients \cup {None} /\ (lock' # None => sess'[lock'] = "tx")
         /\ sess' \in [Clients -> {"none", "open", "tx"}]
         /\ wrote' \in [Clients -> SUBSET Rows]
         /\ snap' \in [Clients -> {"none", "fresh", "old"}]
         /\ db' = db /\ applied' = applied
  BY NoneAssumption DEF IInv, TypeOK, Writer, EndSessions

LEMMA RollbackStep ==
  ASSUME IInv, NEW c \in Clients, Rollback(c)
  PROVE  IInv'
  <1>1. EndSessions({c}) /\ Reply(c, "ok") /\ Serving(c, "rollback")
    BY DEF Rollback
  <1>2. TypeOK' /\ Writer'
    BY <1>1, Ending DEF IInv, TypeOK, Reply, sups
  <1>3. Own(c)'
    BY <1>1, Requests DEF IInv, TypeOK, EndSessions, Serving, Reply, sups, Own, Hosting, Progress, Honest
  <1> QED BY <1>1, <1>2, <1>3, Others DEF IInv, TypeOK, EndSessions, Reply, sups

LEMMA CloseSessionStep ==
  ASSUME IInv, NEW c \in Clients, CloseSession(c)
  PROVE  IInv'
  <1>1. EndSessions({c}) /\ Reply(c, "ok") /\ Serving(c, "close")
    BY DEF CloseSession
  <1>2. TypeOK' /\ Writer'
    BY <1>1, Ending DEF IInv, TypeOK, Reply, sups
  <1>3. Own(c)'
    BY <1>1, Requests DEF IInv, TypeOK, EndSessions, Serving, Reply, sups, Own, Hosting, Progress, Honest
  <1> QED BY <1>1, <1>2, <1>3, Others DEF IInv, TypeOK, EndSessions, Reply, sups

LEMMA HandlerEOFStep ==
  ASSUME IInv, NEW c \in Clients, HandlerEOF(c)
  PROVE  IInv'
  <1>1. EndSessions({c})
    BY DEF HandlerEOF
  <1>2. TypeOK' /\ Writer'
    BY <1>1, Ending DEF IInv, TypeOK, HandlerEOF, sups
  <1>3. Own(c)'
    BY <1>1, Requests DEF IInv, TypeOK, EndSessions, HandlerEOF, sups, Own, Hosting, Progress, Honest
  <1> QED BY <1>1, <1>2, <1>3, Others DEF IInv, TypeOK, EndSessions, HandlerEOF, sups

-----------------------------------------------------------------------------
(* The steps of a call.                                                    *)
LEMMA FindSocketStep ==
  ASSUME IInv, NEW c \in Clients, FindSocket(c)
  PROVE  IInv'
  <1>1. TypeOK'
    BY Requests DEF IInv, TypeOK, FindSocket, sqlite, sups
  <1>2. Writer'
    BY DEF IInv, Writer, FindSocket, sqlite
  <1>3. Own(c)'
    <2>1. /\ pc[c] = "open" /\ verdict[c] = "ok" /\ host[c] = None /\ sess[c] = "none"
          /\ wrote[c] = {} /\ rep[c] = "none" /\ c \notin applied /\ outcome[c] = "none"
      BY DEF IInv, TypeOK, FindSocket, Own, Hosting, Honest
    <2>2. Self # None
      BY HostAssumption
    <2> QED BY <2>1, <2>2, Requests DEF IInv, TypeOK, FindSocket, sqlite, sups, Own, Hosting, Progress, Honest
  <1> QED BY <1>1, <1>2, <1>3, Others DEF IInv, TypeOK, FindSocket, sqlite, sups

LEMMA DialStep ==
  ASSUME IInv, NEW c \in Clients, Dial(c)
  PROVE  IInv'
  <1>1. TypeOK'
    BY Requests DEF IInv, TypeOK, Dial, sqlite, sups
  <1>2. Writer'
    BY DEF IInv, Writer, Dial, sqlite
  <1>3. Own(c)'
    BY Requests, NoneAssumption DEF IInv, TypeOK, Dial, sqlite, sups, Own, Hosting, Progress, Honest
  <1> QED BY <1>1, <1>2, <1>3, Others DEF IInv, TypeOK, Dial, sqlite, sups

(* What a call asks next is a request, and its verdict only gets worse.    *)
LEMMA ProceedStep ==
  ASSUME IInv, NEW c \in Clients, Proceed(c)
  PROVE  IInv'
  <1>1. PICK op \in Ops \ {"ping"} : Call(c, op)
    BY Requests DEF Proceed, Answered
  <1>2. TypeOK'
    BY <1>1, Requests DEF IInv, TypeOK, Proceed, Answered, Call, sqlite, sups
  <1>3. Writer'
    BY DEF IInv, Writer, Proceed, sqlite
  <1>4. Own(c)'
    BY <1>2, Requests DEF IInv, TypeOK, Proceed, Answered, Call, sqlite, sups, Own, Hosting, Progress, Honest
  <1> QED BY <1>1, <1>2, <1>3, <1>4, Others DEF IInv, TypeOK, Proceed, Call, sqlite, sups

LEMMA ReturnStep ==
  ASSUME IInv, NEW c \in Clients, Return(c)
  PROVE  IInv'
  <1>1. TypeOK'
    BY Requests, AttemptsAssumption DEF IInv, TypeOK, Return, sqlite, sups
  <1>2. Writer'
    BY DEF IInv, Writer, Return, sqlite
  <1>3. sess[c] = "none" /\ wrote[c] = {}
    BY DEF IInv, TypeOK, Return, Answered, Own, Hosting, Progress, Honest
  <1>4. Own(c)'
    BY <1>3, Requests DEF IInv, TypeOK, Return, Answered, Retryable, sqlite, sups, Own, Hosting, Progress, Honest
  <1> QED BY <1>1, <1>2, <1>4, Others DEF IInv, TypeOK, Return, sqlite, sups

LEMMA CrashStep ==
  ASSUME IInv, NEW c \in Clients, Crash(c)
  PROVE  IInv'
  <1>1. CASE host[c] = Self
    <2>1. EndSessions({c})
      BY <1>1 DEF Crash
    <2>2. TypeOK' /\ Writer'
      BY <1>1, <2>1, Ending DEF IInv, TypeOK, Crash, Die, sups
    <2>3. Own(c)'
      BY <1>1, <2>1, Requests DEF IInv, TypeOK, Crash, Die, EndSessions, sups, Own, Hosting, Progress, Honest
    <2> QED BY <1>1, <2>1, <2>2, <2>3, Others DEF IInv, TypeOK, EndSessions, Crash, Die, sups
  <1>2. CASE host[c] # Self
    <2>1. TypeOK' /\ Writer'
      BY <1>2 DEF IInv, TypeOK, Writer, Crash, Die, sqlite, sups
    <2>2. Own(c)'
      BY <1>2, Requests DEF IInv, TypeOK, Crash, Die, sqlite, sups, Own, Hosting, Progress, Honest
    <2> QED BY <1>2, <2>1, <2>2, Others DEF IInv, TypeOK, Crash, Die, sqlite, sups
  <1> QED BY <1>1, <1>2

-----------------------------------------------------------------------------
(* The steps of a supervisor that leave the calls alone.                   *)
LEMMA SupStep ==
  ASSUME IInv, NEW s \in Sups, Sup(s)
  PROVE  IInv' /\ UNCHANGED <<sqlite, client>>
  <1>1. UNCHANGED <<sqlite, client>>
    BY DEF Sup, Prepare, RemoveStale, Listen, Close, Finish
  <1>2. /\ up' \in [Sups -> {"down", "remove", "listen", "active", "closing"}]
        /\ socket' \in Sups \cup {None, Stale} /\ launches' \in 0..MaxLaunches
    <2>1. CASE Prepare(s)
      BY <2>1, AttemptsAssumption DEF IInv, TypeOK, Prepare
    <2>2. CASE RemoveStale(s) \/ Listen(s) \/ Close(s) \/ Finish(s)
      BY <2>2 DEF IInv, TypeOK, RemoveStale, Listen, Close, Finish, Step
    <2> QED BY <2>1, <2>2 DEF Sup
  <1>3. TypeOK' /\ Writer'
    BY <1>1, <1>2 DEF IInv, TypeOK, Writer, sqlite, client
  <1>4. \A c \in Clients : Own(c)'
    BY <1>1 DEF IInv, sqlite, client, Own, Hosting, Progress, Honest
  <1> QED BY <1>1, <1>3, <1>4 DEF IInv

(* A supervisor's process dies with everything it runs.                    *)
LEMMA SupCrashStep ==
  ASSUME IInv, NEW s \in Sups, SupCrash(s)
  PROVE  IInv'
  <1> DEFINE Mine == {c \in Clients : Home[c] = s /\ pc[c] # "done"}
             Gone == Hosted(s) \cup {c \in Mine : host[c] = Self}
  <1>1. /\ EndSessions(Gone) /\ Die(Mine)
        /\ host' = [c \in Clients |-> IF c \in Gone THEN None ELSE host[c]]
        /\ rep' = [c \in Clients |-> IF c \in Gone /\ rep[c] # "none"
                                     THEN "error" ELSE rep[c]]
    BY DEF SupCrash
  <1>2. Gone \subseteq Clients
    BY DEF Hosted
  <1>3. /\ up' \in [Sups -> {"down", "remove", "listen", "active", "closing"}]
        /\ socket' \in Sups \cup {None, Stale} /\ launches' \in 0..MaxLaunches
    BY DEF IInv, TypeOK, SupCrash
  <1>4. TypeOK' /\ Writer'
    BY <1>1, <1>2, <1>3, Ending DEF IInv, TypeOK, Die
  <1>5. ASSUME NEW c \in Clients PROVE Own(c)'
    <2> HIDE DEF Mine, Gone
    <2>1. /\ pc'[c] = pc[c] /\ verdict'[c] = verdict[c] /\ outcome'[c] = outcome[c]
          /\ applied' = applied /\ (c \notin dead' => c \notin dead)
      BY <1>1 DEF Die, EndSessions
    <2>2. CASE c \in Gone
      <3>1. host[c] # None
        BY <2>2, NoneAssumption, HostAssumption DEF Gone, Hosted
      <3>2. /\ host'[c] = None /\ rep'[c] = (IF rep[c] # "none" THEN "error" ELSE "none")
            /\ sess'[c] = "none" /\ wrote'[c] = {}
        BY <1>1, <2>2 DEF IInv, TypeOK, EndSessions
      <3>3. pc[c] \in Ops /\ rep[c] # "none"
        BY <3>1, Requests DEF IInv, TypeOK, Own, Hosting, Progress
      <3> QED BY <2>1, <3>1, <3>2, <3>3, Requests DEF IInv, Own, Hosting, Progress, Honest
    <2>3. CASE c \notin Gone
      <3>1. /\ host'[c] = host[c] /\ rep'[c] = rep[c]
            /\ sess'[c] = sess[c] /\ wrote'[c] = wrote[c]
        BY <1>1, <2>3 DEF IInv, TypeOK, EndSessions
      <3> QED BY <2>1, <3>1 DEF IInv, Own, Hosting, Progress, Honest
    <2> QED BY <2>2, <2>3
  <1> QED BY <1>4, <1>5 DEF IInv

-----------------------------------------------------------------------------
(* The theorems                                                            *)
LEMMA Inductive == IInv /\ [Next]_vars => IInv'
  <1> SUFFICES ASSUME IInv, [Next]_vars PROVE IInv'
    OBVIOUS
  <1>1. ASSUME NEW c \in Clients, Handle(c) PROVE IInv'
    BY <1>1, PingStep, BeginStep, QueryStep, ExecStep, CommitStep, RollbackStep,
       CloseSessionStep, HandlerEOFStep DEF Handle
  <1>2. ASSUME NEW c \in Clients, Client(c) PROVE IInv'
    BY <1>2, FindSocketStep, DialStep, ProceedStep, ReturnStep DEF Client
  <1>3. CASE UNCHANGED vars
    <2>1. TypeOK' /\ Writer'
      BY <1>3 DEF IInv, TypeOK, Writer, vars, sqlite, client, sups
    <2>2. \A c \in Clients : Own(c)'
      BY <1>3 DEF IInv, vars, sqlite, client, sups, Own, Hosting, Progress, Honest
    <2> QED BY <2>1, <2>2 DEF IInv
  <1> QED BY <1>1, <1>2, <1>3, CrashStep, SupStep, SupCrashStep DEF Next

LEMMA Invariant == Spec => []IInv
  BY Initially, Inductive, PTL DEF Spec

(* Whoever runs a session, however often calls are tried again, and        *)
(* whatever dies: the write lock belongs to a session with an open         *)
(* transaction (localWorkDBProxySession.handle).                           *)
THEOREM TypeCorrect == Spec => []TypeOK
  BY Invariant, PTL DEF IInv

(* Uncommitted writes are those of one transaction at a time, and of the   *)
(* one that holds the lock (localWorkDBProxySession.handle).               *)
THEOREM OneWriter ==
  Spec => [](\A c, d \in Clients : wrote[c] # {} /\ wrote[d] # {} => c = d)
  <1>1. IInv => \A c, d \in Clients : wrote[c] # {} /\ wrote[d] # {} => c = d
    BY DEF IInv, Writer
  <1> QED BY <1>1, Invariant, PTL

(* What a step means to the callers.                                       *)
LEMMA Implements == IInv /\ [Next]_vars => [Abstract!Next]_(Abstract!vars)
  <1> SUFFICES ASSUME IInv, [Next]_vars PROVE [Abstract!Next]_(Abstract!vars)
    OBVIOUS
  <1>1. ASSUME NEW c \in Clients, Commit(c) PROVE Abstract!Apply(c)
    <2>1. wrote[c] = Rows /\ outcome[c] = "none" /\ c \notin applied
      BY <1>1 DEF IInv, TypeOK, Commit, Serving, Own, Hosting, Progress, Honest
    <2> QED BY <1>1, <2>1 DEF Commit, Reply, Abstract!Apply
  <1>2. ASSUME NEW c \in Clients, Dial(c)
        PROVE  UNCHANGED Abstract!vars \/ Abstract!Answer(c, "error")
    <2>1. outcome[c] = "none"
      BY <1>2 DEF IInv, TypeOK, Dial, Own, Honest
    <2> QED BY <1>2, <2>1 DEF Dial, sqlite, Abstract!vars, Abstract!Answer
  <1>3. ASSUME NEW c \in Clients, Return(c)
        PROVE  UNCHANGED Abstract!vars \/ \E o \in {"ok", "error"} : Abstract!Answer(c, o)
    <2>1. outcome[c] = "none" /\ (verdict[c] = "ok" => c \in applied)
      BY <1>3 DEF IInv, TypeOK, Return, Answered, Own, Honest
    <2> QED BY <1>3, <2>1 DEF Return, sqlite, Abstract!vars, Abstract!Answer
  <1>4. ASSUME NEW c \in Clients, Handle(c) \/ Client(c) \/ Crash(c),
               ~Commit(c), ~Dial(c), ~Return(c)
        PROVE  UNCHANGED Abstract!vars
    BY <1>4 DEF Handle, Ping, Begin, Query, Exec, Rollback, CloseSession, HandlerEOF,
       Reply, EndSessions, Client, FindSocket, Proceed, Call, Crash, Die, sqlite, Abstract!vars
  <1>5. ASSUME NEW s \in Sups, Sup(s) \/ SupCrash(s) PROVE UNCHANGED Abstract!vars
    BY <1>5, SupStep DEF SupCrash, EndSessions, Die, sqlite, client, Abstract!vars
  <1>6. CASE UNCHANGED vars
    BY <1>6 DEF vars, sqlite, client, Abstract!vars
  <1> QED BY <1>1, <1>2, <1>3, <1>4, <1>5, <1>6 DEF Next, Abstract!Next

(* Whatever mix of direct connections, proxied sessions, retries, crashes  *)
(* and lost answers: a write happens entirely or not at all, at most once, *)
(* and "ok" is said only of one that happened (withLocalWorkWriteStore).   *)
THEOREM WritesAreAtomic == Spec => ImplementsAtomicWrites
  <1>1. Init => Abstract!Init
    BY DEF Init, Abstract!Init
  <1> QED BY <1>1, Invariant, Implements, PTL
          DEF Spec, ImplementsAtomicWrites, Abstract!Spec

-----------------------------------------------------------------------------
(***************************************************************************)
(* The file of the database: upgrading, repairing and trimming it          *)
(***************************************************************************)
(* An open for writing that has got so far has a complete file.            *)
Complete == version = Schema!Current /\ tables = Schema!Tables /\ cols = Schema!Columns
(* A file without tables is new, and a pause is in the metadata only until *)
(* the rebuild.                                                            *)
FileTyped ==
  /\ Schema!TypeOK
  /\ tables = {} => version = 0 /\ pause = "none"
  /\ tables = {} \/ "base" \in tables
  /\ pause = "metadata" => version = 0
(* What each place of a process says of the file: the others only add to   *)
(* it.  A file that was empty once has all columns of its tables, so that  *)
(* its creation cannot leave one out.                                      *)
Place(p) ==
  /\ at[p] \notin Schema!Finals \cup {"start"} =>
       kind[p] # "read" /\ version <= Schema!Current
  /\ at[p] = "create" => cols = Schema!ColumnsOf(tables) /\ pause # "metadata"
  /\ at[p] \in {"migrate", "normalize", "rebuild"} => "base" \in tables
  /\ at[p] = "migrate" => seen[p] < Schema!Current /\ (seen[p] # 0 => version # 0)
  /\ at[p] \in {"normalize", "rebuild"} => "pause" \in cols
  /\ at[p] = "rebuild" => pause # "metadata"
  /\ at[p] \in {"tables", "columns"} => version = Schema!Current
  /\ at[p] = "columns" => tables = Schema!Tables
  /\ at[p] \in {"repair", "check"} => kind[p] = "repair"
  /\ at[p] \in {"collect", "archive", "trim"} => kind[p] = "maintain"
  /\ at[p] \in {"repair", "check", "collect", "archive", "trim", "ok"} =>
       kind[p] = "read" \/ Complete
  /\ at[p] \in {"check", "ok"} /\ kind[p] = "repair" => defects = {}
(* Until the next commit, what was collected is what the rows still hold.  *)
Collected(p) ==
  fresh[p] => /\ at[p] \in {"archive", "trim"} => \A row \in got[p] : row = <<row[1], src[row[1]]>>
              /\ at[p] = "trim" => got[p] \subseteq Schema!Archived
FileInv == FileTyped /\ \A p \in Procs : Place(p) /\ Collected(p)

LEMMA FileBegins == Schema!Init => FileInv
  <1> SUFFICES ASSUME Schema!Init PROVE FileInv
    OBVIOUS
  <1>1. Schema!TypeOK
    BY SchemaAssumption DEF Schema!MaxContentAssumption, Schema!Init,
       Schema!TypeOK, Schema!Current, Schema!TablesAt, Schema!Tables,
       Schema!ColumnsOf, Schema!Columns, Schema!TableOf, Schema!Defects,
       Schema!Kinds, Schema!Finals
  <1> QED
    BY <1>1 DEF Schema!Init, FileInv, FileTyped, Place, Collected,
       Schema!TablesAt, Schema!Tables, Schema!Finals

(* What the archives have held.                                            *)
LEMMA ArchivedStands == UNCHANGED Schema!archives => Schema!Archived' = Schema!Archived
  BY DEF Schema!archives, Schema!Archived

LEMMA FileStands == FileInv /\ UNCHANGED Schema!vars => FileInv'
  BY ArchivedStands
     DEF FileInv, FileTyped, Schema!TypeOK, Place, Collected, Complete, Schema!vars,
         Schema!file, Schema!archives

(* What every step of a process does to the file and to the others.        *)
Grows ==
  /\ version' = version \/ version' = Schema!Current
  /\ tables \subseteq tables' /\ cols \subseteq cols' /\ defects' \subseteq defects
  /\ pause' # "metadata" \/ pause' = pause
  /\ cols = Schema!ColumnsOf(tables) => cols' = Schema!ColumnsOf(tables')
Alone(p) ==
  /\ \A q \in Procs \ {p} : /\ at'[q] = at[q] /\ kind'[q] = kind[q]
                            /\ seen'[q] = seen[q] /\ got'[q] = got[q]
  /\ \/ fresh' = [q \in Procs |-> FALSE]
     \/ /\ \A q \in Procs \ {p} : fresh'[q] => fresh[q]
        /\ UNCHANGED src /\ Schema!Archived \subseteq Schema!Archived'

LEMMA OthersStand ==
  ASSUME FileInv, NEW p \in Procs, FileTyped', Grows, Alone(p)
  PROVE  \A q \in Procs \ {p} : Place(q)' /\ Collected(q)'
  <1> SUFFICES ASSUME NEW q \in Procs \ {p} PROVE Place(q)' /\ Collected(q)'
    OBVIOUS
  <1> USE DEF FileInv, Grows, Alone
  <1>1. Complete => Complete'
    <2>1. tables' \subseteq Schema!Tables /\ cols' \subseteq Schema!ColumnsOf(tables')
      BY DEF FileTyped, Schema!TypeOK
    <2>2. cols' \subseteq Schema!Columns
      BY <2>1 DEF Schema!ColumnsOf
    <2> QED
      BY <2>1, <2>2 DEF Complete
  <1>2. Place(q)'
    <2>1. /\ at'[q] = at[q] /\ kind'[q] = kind[q] /\ seen'[q] = seen[q]
          /\ (version' = 0 => version = 0)
          /\ (version <= Schema!Current => version' <= Schema!Current)
          /\ (version = Schema!Current => version' = Schema!Current)
      BY DEF FileTyped, Schema!TypeOK, Schema!Current
    <2>2. /\ ("base" \in tables => "base" \in tables')
          /\ (tables = Schema!Tables => tables' = Schema!Tables)
          /\ ("pause" \in cols => "pause" \in cols') /\ (defects = {} => defects' = {})
          /\ (pause # "metadata" => pause' # "metadata")
      BY DEF FileTyped, Schema!TypeOK
    <2>3. Place(q)
      OBVIOUS
    <2> QED
      BY <1>1, <2>1, <2>2, <2>3 DEF Place, Schema!Finals
  <1>3. Collected(q)'
    BY DEF Collected, Schema!Stored
  <1> QED
    BY <1>2, <1>3

LEMMA DdlGrows ==
  ASSUME FileInv, NEW ts \in SUBSET Schema!Tables, Schema!CreateMissing(ts)
  PROVE  /\ tables' \subseteq Schema!Tables /\ cols' \subseteq Schema!ColumnsOf(tables')
         /\ tables \subseteq tables' /\ cols \subseteq cols' /\ ts \subseteq tables'
         /\ cols = Schema!ColumnsOf(tables) => cols' = Schema!ColumnsOf(tables')
  BY DEF FileInv, FileTyped, Schema!TypeOK, Schema!CreateMissing,
     Schema!ColumnsOf

LEMMA AllColumns == Schema!ColumnsOf(Schema!Tables) = Schema!Columns
  BY DEF Schema!ColumnsOf, Schema!Tables, Schema!Columns, Schema!TableOf

LEMMA FileStep ==
  ASSUME FileInv, NEW p \in Procs, FileTyped', Grows, Alone(p), Place(p)', Collected(p)'
  PROVE  FileInv'
  BY OthersStand DEF FileInv

LEMMA ReadStateStep ==
  ASSUME FileInv, NEW p \in Procs, Schema!ReadState(p)
  PROVE  FileInv'
  <1> USE DEF FileInv, Schema!ReadState, Schema!Goto, Schema!Local, Schema!file, Schema!archives
  <1>1. FileTyped'
    BY DEF FileTyped, Schema!TypeOK, Schema!Finals, Schema!Current
  <1>2. Grows /\ Alone(p)
    BY ArchivedStands DEF Grows, Alone, FileTyped, Schema!TypeOK
  <1>3. Place(p)' /\ Collected(p)'
    BY DEF Place, Collected, FileTyped, Schema!TypeOK, Schema!Finals,
       Schema!Current, Schema!Kinds, Schema!ColumnsOf
  <1> QED
    BY <1>1, <1>2, <1>3, FileStep

LEMMA CreateStep ==
  ASSUME FileInv, NEW p \in Procs, Schema!Create(p)
  PROVE  FileInv'
  <1> USE DEF FileInv, Schema!Create, Schema!DdlTransaction, Schema!Goto,
      Schema!Local, Schema!archives
  <1>1. CASE Schema!IndexFails
    <2> USE <1>1 DEF Schema!file, Schema!archives
    <2>1. FileTyped'
      BY DEF FileTyped, Schema!TypeOK, Schema!Finals
    <2>2. Grows /\ Alone(p)
      BY ArchivedStands DEF Grows, Alone, FileTyped, Schema!TypeOK
    <2>3. Place(p)' /\ Collected(p)'
      BY DEF Place, Collected, FileTyped, Schema!TypeOK, Schema!Finals
    <2> QED
      BY <2>1, <2>2, <2>3, FileStep
  <1>2. CASE ~Schema!IndexFails
    <2> USE <1>2
    <2>1. /\ tables' = Schema!Tables /\ cols \subseteq cols'
          /\ cols' \subseteq Schema!ColumnsOf(tables')
          /\ cols = Schema!ColumnsOf(tables) => cols' = Schema!ColumnsOf(tables')
      BY DdlGrows
    <2>2. FileTyped'
      <3>1. Schema!TypeOK'
        <4>1. /\ at' = [at EXCEPT ![p] = at'[p]]
              /\ at'[p] \in Schema!Finals \cup {"tables", "collect"}
          BY DEF FileTyped, Schema!TypeOK, Schema!Finals
        <4>2. fresh' \in [Procs -> BOOLEAN]
          BY DEF Schema!Committed
        <4>5. version' \in 0..(Schema!Current + 1)
          BY DEF Schema!Current
        <4> QED
          BY <2>1, <4>1, <4>2, <4>5 DEF FileTyped, Schema!TypeOK, Schema!Finals
      <3>2. pause # "metadata"
        BY DEF Place
      <3> QED
        BY <2>1, <3>1, <3>2 DEF FileTyped, Schema!Tables
    <2>3. Grows /\ Alone(p)
      BY ArchivedStands, <2>1 DEF Grows, Alone, FileTyped, Schema!TypeOK, Schema!Committed
    <2>4. Complete'
      BY <2>1, AllColumns DEF Place, Complete
    <2>5. Place(p)' /\ Collected(p)'
      BY <2>1, <2>4 DEF Place, Collected, FileTyped, Schema!TypeOK,
         Schema!Finals, Schema!Committed, Schema!Current, Complete
    <2> QED
      BY <2>2, <2>3, <2>5, FileStep
  <1> QED
    BY <1>1, <1>2

LEMMA LegacyColumnsStep ==
  ASSUME FileInv, NEW p \in Procs, Schema!LegacyColumns(p)
  PROVE  FileInv'
  <1> USE DEF FileInv, Schema!LegacyColumns, Schema!Goto, Schema!Local,
      Schema!Committed, Schema!archives
  <1>1. "base" \in tables
    BY DEF Place
  <1>2. FileTyped'
    BY <1>1 DEF FileTyped, Schema!TypeOK, Schema!Finals, Schema!ColumnsOf,
       Schema!Columns, Schema!TableOf
  <1>3. Grows /\ Alone(p)
    BY ArchivedStands, <1>1 DEF Grows, Alone, FileTyped, Schema!TypeOK, Schema!ColumnsOf,
       Schema!Columns, Schema!TableOf
  <1>4. Place(p)' /\ Collected(p)'
    BY <1>1 DEF Place, Collected, FileTyped, Schema!TypeOK, Schema!Finals
  <1> QED
    BY <1>2, <1>3, <1>4, FileStep

LEMMA NormalizePauseStep ==
  ASSUME FileInv, NEW p \in Procs, Schema!NormalizePause(p)
  PROVE  FileInv'
  <1> USE DEF FileInv, Schema!NormalizePause, Schema!Goto, Schema!Local,
      Schema!Committed, Schema!archives
  <1>1. "base" \in tables /\ "pause" \in cols
    BY DEF Place
  <1>2. FileTyped'
    BY <1>1 DEF FileTyped, Schema!TypeOK, Schema!Finals
  <1>3. Grows /\ Alone(p)
    BY ArchivedStands DEF Grows, Alone, FileTyped, Schema!TypeOK
  <1>4. Place(p)' /\ Collected(p)'
    BY <1>1 DEF Place, Collected, FileTyped, Schema!TypeOK, Schema!Finals
  <1> QED
    BY <1>2, <1>3, <1>4, FileStep

LEMMA LegacyRebuildStep ==
  ASSUME FileInv, NEW p \in Procs, Schema!LegacyRebuild(p)
  PROVE  FileInv'
  <1> USE DEF FileInv, Schema!LegacyRebuild, Schema!Goto, Schema!Local,
      Schema!Committed, Schema!archives
  <1>1. "base" \in tables /\ pause # "metadata" /\ kind[p] # "read"
    BY DEF Place, Schema!Finals
  <1>2. FileTyped'
    BY <1>1 DEF FileTyped, Schema!TypeOK, Schema!Finals, Schema!Current
  <1>3. Grows /\ Alone(p)
    BY ArchivedStands DEF Grows, Alone, FileTyped, Schema!TypeOK
  <1>4. Place(p)' /\ Collected(p)'
    BY <1>1 DEF Place, Collected, FileTyped, Schema!TypeOK, Schema!Finals,
       Schema!Current
  <1> QED
    BY <1>2, <1>3, <1>4, FileStep

LEMMA UpgradeStep ==
  ASSUME FileInv, NEW p \in Procs, Schema!Upgrade(p)
  PROVE  FileInv'
  <1> USE DEF FileInv, Schema!Upgrade, Schema!DdlTransaction, Schema!Goto,
      Schema!Local, Schema!archives
  <1>0. /\ "base" \in tables /\ pause # "metadata" /\ kind[p] # "read" /\ version # 0
        /\ seen[p] \in 1..3
    BY DEF Place, Schema!Finals, FileTyped, Schema!TypeOK, Schema!Current
  <1>1. CASE Schema!IndexFails
    <2> USE <1>1 DEF Schema!file, Schema!archives
    <2>1. FileTyped'
      BY <1>0 DEF FileTyped, Schema!TypeOK, Schema!Finals, Schema!Current
    <2>2. Grows /\ Alone(p)
      BY ArchivedStands DEF Grows, Alone, FileTyped, Schema!TypeOK
    <2>3. Place(p)' /\ Collected(p)'
      BY DEF Place, Collected, FileTyped, Schema!TypeOK, Schema!Finals
    <2> QED
      BY <2>1, <2>2, <2>3, FileStep
  <1>2. CASE ~Schema!IndexFails
    <2> USE <1>2
    <2>1. /\ tables' = Schema!Tables /\ cols \subseteq cols'
          /\ cols' \subseteq Schema!ColumnsOf(tables')
          /\ cols = Schema!ColumnsOf(tables) => cols' = Schema!ColumnsOf(tables')
      BY DdlGrows
    <2>2. FileTyped'
      <3>1. Schema!TypeOK'
        <4>1. at' = [at EXCEPT ![p] = at'[p]] /\ at'[p] \in {"tables", "migrate"}
          BY DEF FileTyped, Schema!TypeOK
        <4>2. fresh' \in [Procs -> BOOLEAN]
          BY DEF Schema!Committed
        <4>5. version' \in 0..(Schema!Current + 1)
          BY DEF Schema!Current
        <4>3. seen' \in [Procs -> 0..(Schema!Current + 1)]
          BY <1>0 DEF FileTyped, Schema!TypeOK, Schema!Current
        <4> QED
          BY <2>1, <4>1, <4>2, <4>3, <4>5 DEF FileTyped, Schema!TypeOK
      <3> QED
        BY <1>0, <2>1, <3>1 DEF FileTyped, Schema!Tables
    <2>3. Grows /\ Alone(p)
      BY ArchivedStands, <2>1 DEF Grows, Alone, FileTyped, Schema!TypeOK, Schema!Committed
    <2>4. /\ "base" \in tables' /\ version' = Schema!Current /\ Schema!Current = 4
          /\ seen'[p] = seen[p] + 1
          /\ at'[p] = IF seen[p] + 1 = Schema!Current THEN "tables" ELSE "migrate"
      BY <2>1 DEF FileTyped, Schema!TypeOK, Schema!Tables, Schema!Current
    <2>5. Place(p)' /\ Collected(p)'
      BY <1>0, <2>1, <2>4 DEF Place, Collected, FileTyped, Schema!TypeOK,
         Schema!Finals, Schema!Committed
    <2> QED
      BY <2>2, <2>3, <2>5, FileStep
  <1> QED
    BY <1>1, <1>2

LEMMA EnsureTablesStep ==
  ASSUME FileInv, NEW p \in Procs, Schema!EnsureTables(p)
  PROVE  FileInv'
  <1> USE DEF FileInv, Schema!EnsureTables, Schema!Goto, Schema!Local,
      Schema!Committed, Schema!archives
  <1> DEFINE ts == IF Schema!IndexFails THEN {"base", "recovery"} ELSE Schema!Tables
  <1>1. version = Schema!Current /\ kind[p] # "read"
    BY DEF Place, Schema!Finals
  <1>2. /\ tables' \subseteq Schema!Tables /\ tables \subseteq tables'
        /\ cols' \subseteq Schema!ColumnsOf(tables')
        /\ cols \subseteq cols'
        /\ cols = Schema!ColumnsOf(tables) => cols' = Schema!ColumnsOf(tables')
        /\ ts \subseteq tables' /\ "base" \in ts
    <2>0. "base" \in ts
      BY DEF Schema!Tables
    <2>1. Schema!CreateMissing(ts) /\ ts \in SUBSET Schema!Tables
      BY DEF Schema!Tables
    <2> HIDE DEF ts
    <2> QED
      BY <2>0, <2>1, DdlGrows
  <1>6. /\ version' = version /\ pause' = pause
        /\ UNCHANGED <<defects, src, old, gone, archive, replaced, seen, kind, got>>
        /\ fresh' = [q \in Procs |-> FALSE]
        /\ at' = [at EXCEPT ![p] = at'[p]] /\ at'[p] \in {"error", "columns"}
        /\ at'[p] = "columns" => tables' = Schema!Tables
    BY <1>2 DEF FileTyped, Schema!TypeOK
  <1> HIDE DEF ts, Schema!EnsureTables
  <1>3. FileTyped'
    BY <1>1, <1>2, <1>6 DEF FileTyped, Schema!TypeOK, Schema!Finals
  <1>4. Grows /\ Alone(p)
    BY ArchivedStands, <1>2, <1>6 DEF Grows, Alone, FileTyped, Schema!TypeOK
  <1>5. Place(p)' /\ Collected(p)'
    BY <1>1, <1>2, <1>6 DEF Place, Collected, FileTyped, Schema!TypeOK,
       Schema!Finals, Schema!Current
  <1> QED
    BY <1>3, <1>4, <1>5, FileStep

LEMMA EnsureColumnsStep ==
  ASSUME FileInv, NEW p \in Procs, Schema!EnsureColumns(p)
  PROVE  FileInv'
  <1> USE DEF FileInv, Schema!EnsureColumns, Schema!Goto, Schema!Local,
      Schema!Committed, Schema!archives
  <1>1. version = Schema!Current /\ kind[p] # "read" /\ tables = Schema!Tables
    BY DEF Place, Schema!Finals
  <1>2. cols \subseteq Schema!Columns /\ cols' = Schema!Columns
    BY <1>1, AllColumns DEF FileTyped, Schema!TypeOK
  <1>3. FileTyped'
    BY <1>1, <1>2, AllColumns DEF FileTyped, Schema!TypeOK, Schema!Finals,
       Schema!Current, Schema!Columns
  <1>4. Grows /\ Alone(p)
    BY ArchivedStands, <1>1, <1>2, AllColumns DEF Grows, Alone, FileTyped, Schema!TypeOK
  <1>5. /\ at'[p] \in {"repair", "collect", "ok"}
        /\ (at'[p] = "repair" <=> kind[p] = "repair")
        /\ (at'[p] = "collect" <=> kind[p] = "maintain")
    BY <1>1 DEF FileTyped, Schema!TypeOK
  <1>6. Complete'
    BY <1>1, <1>2 DEF Complete
  <1>7. Place(p)' /\ Collected(p)'
    BY <1>1, <1>5, <1>6 DEF Place, Collected, FileTyped, Schema!TypeOK,
       Schema!Finals, Complete, Schema!Current
  <1> QED
    BY <1>3, <1>4, <1>7, FileStep

LEMMA RepairStep ==
  ASSUME FileInv, NEW p \in Procs, Schema!Repair(p) \/ Schema!Check(p)
  PROVE  FileInv'
  <1> USE DEF FileInv, Schema!Repair, Schema!Check, Schema!Goto, Schema!Local,
      Schema!Committed, Schema!archives
  <1>1. Complete /\ kind[p] = "repair" /\ (at[p] = "check" => defects = {})
    BY DEF Place
  <1>2. FileTyped'
    BY DEF FileTyped, Schema!TypeOK, Schema!Finals, Schema!file, Schema!archives
  <1>3. Grows /\ Alone(p)
    BY ArchivedStands DEF Grows, Alone, FileTyped, Schema!TypeOK, Schema!file, Schema!archives
  <1>4. defects' = {}
    BY <1>1 DEF FileTyped, Schema!TypeOK, Schema!Repairable, Schema!file, Schema!archives
  <1>5. Place(p)' /\ Collected(p)'
    BY <1>1, <1>4 DEF Place, Collected, FileTyped, Schema!TypeOK, Schema!Finals,
       Complete, Schema!Current, Schema!file, Schema!archives
  <1> QED
    BY <1>2, <1>3, <1>5, FileStep

LEMMA StoredTyped ==
  ASSUME FileTyped, NEW S \in SUBSET old
  PROVE  /\ Schema!Stored(S) \subseteq Sources \X (1..MaxContent)
         /\ \A row \in Schema!Stored(S) : row = <<row[1], src[row[1]]>>
  <1> SUFFICES ASSUME NEW t \in S, src[t] > 0
               PROVE  <<t, src[t]>> \in Sources \X (1..MaxContent)
    BY DEF Schema!Stored
  <1>1. t \in Sources /\ src[t] \in 0..MaxContent
    BY DEF FileTyped, Schema!TypeOK
  <1>2. src[t] \in 1..MaxContent
    BY <1>1, SchemaAssumption DEF Schema!MaxContentAssumption
  <1> QED
    BY <1>1, <1>2

LEMMA CollectStep ==
  ASSUME FileInv, NEW p \in Procs, Schema!Collect(p)
  PROVE  FileInv'
  <1> USE DEF FileInv, Schema!Collect, Schema!Goto
  <1>1. Complete /\ kind[p] = "maintain"
    BY DEF Place
  <1>0. PICK S \in SUBSET old : /\ got' = [got EXCEPT ![p] = Schema!Stored(S)]
                               /\ at' = [at EXCEPT ![p] = at'[p]]
                               /\ at'[p] \in {"ok", "archive"}
    BY DEF FileTyped, Schema!TypeOK
  <1>2. FileTyped'
    BY <1>0, StoredTyped DEF FileTyped, Schema!TypeOK, Schema!Finals, Schema!file, Schema!archives
  <1>3. Grows /\ Alone(p)
    BY ArchivedStands DEF Grows, Alone, FileTyped, Schema!TypeOK, Schema!file, Schema!archives
  <1>4. Place(p)' /\ Collected(p)'
    BY <1>0, <1>1, StoredTyped DEF Place, Collected, FileTyped, Schema!TypeOK,
       Schema!Finals, Complete, Schema!Current, Schema!file
  <1> QED
    BY <1>2, <1>3, <1>4, FileStep

(* A new archive, and one that takes the place of another.                 *)
LEMMA ArchiveKeeps ==
  ASSUME NEW p \in Procs, Schema!WriteArchive(p)
  PROVE  got[p] \subseteq Schema!Archived' /\ Schema!Archived \subseteq Schema!Archived'
  <1>1. CASE archive' = archive \cup {got[p]} /\ UNCHANGED replaced
    BY <1>1 DEF Schema!Archived
  <1>2. ASSUME NEW f \in archive, archive' = (archive \ {f}) \cup {got[p]},
               replaced' = replaced \cup f
        PROVE  got[p] \subseteq Schema!Archived' /\ Schema!Archived \subseteq Schema!Archived'
    <2>1. got[p] \subseteq UNION archive'
      BY <1>2
    <2>2. ASSUME NEW row \in UNION archive PROVE row \in (UNION archive') \cup replaced'
      <3>1. PICK g \in archive : row \in g
        OBVIOUS
      <3>2. g = f \/ g \in archive'
        BY <1>2
      <3>3. CASE g = f
        BY <1>2, <3>1, <3>3
      <3>4. CASE g \in archive'
        BY <3>1, <3>4
      <3> QED
        BY <3>2, <3>3, <3>4
    <2> QED
      BY <1>2, <2>1, <2>2 DEF Schema!Archived
  <1> QED
    BY <1>1, <1>2 DEF Schema!WriteArchive, Schema!archives

LEMMA WriteArchiveStep ==
  ASSUME FileInv, NEW p \in Procs, Schema!WriteArchive(p)
  PROVE  FileInv'
  <1> DEFINE AllRows == Sources \X (1..MaxContent)
  <1>0. /\ at[p] = "archive" /\ at' = [at EXCEPT ![p] = "trim"]
        /\ UNCHANGED <<Schema!file, seen, fresh, kind, got, gone>>
        /\ \/ archive' = archive \cup {got[p]} /\ UNCHANGED replaced
           \/ \E f \in archive : /\ archive' = (archive \ {f}) \cup {got[p]}
                                 /\ replaced' = replaced \cup f
    BY DEF Schema!WriteArchive, Schema!Goto, Schema!Local
  <1>1. Complete /\ kind[p] = "maintain"
    BY <1>0 DEF FileInv, Place
  <1>2. archive' \subseteq SUBSET AllRows /\ replaced' \subseteq AllRows
    BY <1>0 DEF FileInv, FileTyped, Schema!TypeOK
  <1>3. got[p] \subseteq Schema!Archived' /\ Schema!Archived \subseteq Schema!Archived'
    BY ArchiveKeeps
  <1> USE DEF FileInv
  <1>4. FileTyped'
    BY <1>0, <1>2 DEF FileTyped, Schema!TypeOK, Schema!Finals, Schema!file
  <1>5. Grows /\ Alone(p)
    BY <1>0, <1>3 DEF Grows, Alone, FileTyped, Schema!TypeOK, Schema!file
  <1>6. Place(p)' /\ Collected(p)'
    BY <1>0, <1>1, <1>3 DEF Place, Collected, FileTyped, Schema!TypeOK, Schema!Finals,
       Complete, Schema!Current, Schema!file
  <1> QED
    BY <1>4, <1>5, <1>6, FileStep

LEMMA TrimStep ==
  ASSUME FileInv, NEW p \in Procs, Schema!Trim(p)
  PROVE  FileInv'
  <1> USE DEF FileInv, Schema!Trim, Schema!Goto, Schema!Local, Schema!Committed,
      Schema!archives
  <1>1. Complete /\ kind[p] = "maintain"
    BY DEF Place
  <1>2. FileTyped'
    <2>1. src' \in [Sources -> 0..MaxContent]
      <3>1. 0 \in 0..MaxContent
        BY SchemaAssumption DEF Schema!MaxContentAssumption
      <3>2. \A s \in Sources : src'[s] = 0 \/ src'[s] = src[s]
        BY DEF FileTyped, Schema!TypeOK
      <3>3. src' = [s \in Sources |-> src'[s]]
        BY DEF FileTyped, Schema!TypeOK
      <3> QED
        BY <3>1, <3>2, <3>3 DEF FileTyped, Schema!TypeOK
    <2>2. at' = [at EXCEPT ![p] = at'[p]] /\ at'[p] \in {"ok", "error"}
      BY DEF FileTyped, Schema!TypeOK
    <2> QED
      BY <2>1, <2>2 DEF FileTyped, Schema!TypeOK, Schema!Finals
  <1>3. Grows /\ Alone(p)
    BY ArchivedStands DEF Grows, Alone, FileTyped, Schema!TypeOK
  <1>4. Place(p)' /\ Collected(p)'
    BY <1>1 DEF Place, Collected, FileTyped, Schema!TypeOK, Schema!Finals,
       Complete, Schema!Current
  <1> QED
    BY <1>2, <1>3, <1>4, FileStep

LEMMA DieStep ==
  ASSUME FileInv, NEW p \in Procs, Schema!Die(p)
  PROVE  FileInv'
  <1> USE DEF FileInv, Schema!Die, Schema!Goto, Schema!Local, Schema!archives
  <1>1. FileTyped'
    BY DEF FileTyped, Schema!TypeOK, Schema!Finals, Schema!Current, Schema!file
  <1>2. Grows /\ Alone(p)
    BY ArchivedStands DEF Grows, Alone, FileTyped, Schema!TypeOK, Schema!file
  <1>3. Place(p)' /\ Collected(p)'
    BY DEF Place, Collected, FileTyped, Schema!TypeOK, Schema!Finals,
       Schema!file, Schema!archives
  <1> QED
    BY <1>1, <1>2, <1>3, FileStep

LEMMA SourceStep ==
  ASSUME FileInv, NEW s \in Sources,
         Schema!Index(s) \/ Schema!Vanish(s) \/ Schema!Unindex(s) \/ Schema!Age(s)
  PROVE  FileInv'
  <1>1. CASE Schema!Index(s)
    <2>1. src[s] + 1 \in 0..MaxContent
      BY <1>1, SchemaAssumption DEF Schema!Index, FileInv, FileTyped,
         Schema!TypeOK, Schema!MaxContentAssumption
    <2>2. FileTyped'
      BY <1>1, <2>1 DEF Schema!Index, FileInv, FileTyped, Schema!TypeOK,
         Schema!Committed, Schema!archives
    <2> QED
      BY <1>1, <2>2 DEF Schema!Index, Schema!Committed, FileInv, Place,
         Collected, Complete
  <1>2. CASE Schema!Age(s)
    <2>1. FileTyped'
      BY <1>2 DEF Schema!Age, FileInv, FileTyped, Schema!TypeOK, Schema!archives
    <2> QED
      BY <1>2, <2>1, ArchivedStands DEF Schema!Age, FileInv, Place, Collected, Complete
  <1>3. CASE Schema!Vanish(s)
    <2>1. FileTyped'
      BY <1>3 DEF Schema!Vanish, FileInv, FileTyped, Schema!TypeOK, Schema!file,
         Schema!archives
    <2> QED
      BY <1>3, <2>1, ArchivedStands DEF Schema!Vanish, Schema!file, FileInv, Place,
         Collected, Complete
  <1>4. CASE Schema!Unindex(s)
    <2>1. FileTyped'
      BY <1>4, SchemaAssumption DEF Schema!Unindex, FileInv, FileTyped, Schema!TypeOK,
         Schema!Committed, Schema!MaxContentAssumption, Schema!archives
    <2> QED
      BY <1>4, <2>1 DEF Schema!Unindex, Schema!Committed, FileInv, Place, Collected,
         Complete
  <1> QED
    BY <1>1, <1>2, <1>3, <1>4

LEMMA FileStays == FileInv /\ [Schema!Next]_(Schema!vars) => FileInv'
  BY ReadStateStep, CreateStep, LegacyColumnsStep, NormalizePauseStep,
     LegacyRebuildStep, UpgradeStep, EnsureTablesStep, EnsureColumnsStep,
     RepairStep, CollectStep, WriteArchiveStep, TrimStep, DieStep, SourceStep,
     FileStands DEF Schema!Next, Schema!Step

LEMMA FileImplies == FileInv => Schema!TypeOK /\ Schema!OpensComplete
  BY DEF FileInv, FileTyped, Place, Complete, Schema!OpensComplete,
     Schema!Current

LEMMA KeepsData ==
  ASSUME FileInv, [Schema!Next]_(Schema!vars)
  PROVE  [/\ pause # "none" => pause' # "none"
          /\ Schema!Archived \subseteq Schema!Archived'
          /\ \A s \in Sources :
               src[s] > 0 /\ src'[s] = 0 =>
                 <<s, src[s]>> \in Schema!Archived \/ Schema!Unindex(s)
         ]_<<pause, src, Schema!archives>>
  <1> SUFFICES ASSUME Schema!Next
               PROVE  /\ pause # "none" => pause' # "none"
                      /\ Schema!Archived \subseteq Schema!Archived'
                      /\ \A s \in Sources :
                           src[s] > 0 /\ src'[s] = 0 =>
                             <<s, src[s]>> \in Schema!Archived \/ Schema!Unindex(s)
    BY DEF Schema!vars, Schema!file, Schema!archives
  <1>1. pause # "none" => pause' # "none"
    BY DEF Schema!Next, Schema!Step, Schema!ReadState, Schema!Create,
       Schema!DdlTransaction, Schema!LegacyColumns, Schema!NormalizePause,
       Schema!LegacyRebuild, Schema!Upgrade, Schema!EnsureTables,
       Schema!EnsureColumns, Schema!Repair, Schema!Check, Schema!Collect,
       Schema!WriteArchive, Schema!Trim, Schema!Die, Schema!Index, Schema!Vanish,
       Schema!Unindex, Schema!Age, Schema!file
  <1>0. UNCHANGED Schema!archives \/ \E p \in Procs : Schema!WriteArchive(p)
    BY DEF Schema!Next, Schema!Step, Schema!ReadState, Schema!Create,
       Schema!DdlTransaction, Schema!LegacyColumns, Schema!NormalizePause,
       Schema!LegacyRebuild, Schema!Upgrade, Schema!EnsureTables,
       Schema!EnsureColumns, Schema!Repair, Schema!Check, Schema!Collect,
       Schema!Trim, Schema!Die, Schema!Index, Schema!Vanish,
       Schema!Unindex, Schema!Age
  <1>3. Schema!Archived \subseteq Schema!Archived'
    <2>1. CASE UNCHANGED Schema!archives
      BY <2>1, ArchivedStands
    <2>2. CASE \E p \in Procs : Schema!WriteArchive(p)
      BY <2>2, ArchiveKeeps
    <2> QED
      BY <1>0, <2>1, <2>2
  <1>2. ASSUME NEW s \in Sources, src[s] > 0, src'[s] = 0
        PROVE  <<s, src[s]>> \in Schema!Archived \/ Schema!Unindex(s)
    <2>1. CASE \E p \in Procs : Schema!Trim(p)
      <3>1. PICK p \in Procs : Schema!Trim(p)
        BY <2>1
      <3>2. fresh[p] /\ at[p] = "trim" /\ s \in Schema!Expired(p)
        BY <1>2, <3>1 DEF Schema!Trim, Schema!SnapshotValid
      <3>3. PICK row \in got[p] : row[1] = s
        BY <3>2 DEF Schema!Expired
      <3> QED
        BY <3>2, <3>3 DEF FileInv, Collected
    <2>2. CASE \E t \in Sources : Schema!Index(t)
      BY <1>2, <2>2 DEF Schema!Index, FileInv, FileTyped, Schema!TypeOK
    <2>4. CASE \E t \in Sources : Schema!Unindex(t)
      <3>1. PICK t \in Sources : Schema!Unindex(t)
        BY <2>4
      <3>2. s = t
        BY <1>2, <3>1 DEF Schema!Unindex, FileInv, FileTyped, Schema!TypeOK
      <3> QED
        BY <3>1, <3>2
    <2>3. CASE UNCHANGED src
      BY <1>2, <2>3
    <2> QED
      BY <2>1, <2>2, <2>3, <2>4 DEF Schema!Next, Schema!Step, Schema!ReadState,
         Schema!Create, Schema!DdlTransaction, Schema!LegacyColumns,
         Schema!NormalizePause, Schema!LegacyRebuild, Schema!Upgrade,
         Schema!EnsureTables, Schema!EnsureColumns, Schema!Repair, Schema!Check,
         Schema!Collect, Schema!WriteArchive, Schema!Die, Schema!Vanish, Schema!Age,
         Schema!file
  <1> QED
    BY <1>1, <1>2, <1>3

-----------------------------------------------------------------------------
(* The findings that the run checks are those of the theorems.             *)
LEMMA SameNormal ==
  ASSUME NEW s
  PROVE  F!Normal(s) = P!Normal(s)
  <1>1. ASSUME NEW f PROVE F!Upsert(f) = P!Upsert(f)
    BY DEF F!Upsert, P!Upsert, F!Open, P!Open
  <1>2. ASSUME NEW f PROVE F!AutoPromotes(f) = P!AutoPromotes(f)
    BY DEF F!AutoPromotes, P!AutoPromotes, F!Closed, P!Closed
  <1>3. ASSUME NEW f, NEW n PROVE F!Promoted(f, n) = P!Promoted(f, n)
    BY DEF F!Promoted, P!Promoted
  <1>4. F!Keys = P!Keys
    BY DEF F!Keys, P!Keys
  <1>5. ASSUME NEW t PROVE F!Upserted(t) = P!Upserted(t)
    BY <1>1, <1>4 DEF F!Upserted, P!Upserted
  <1>6. ASSUME NEW t PROVE F!AutoPromoted(t) = P!AutoPromoted(t)
    BY <1>2, <1>3, <1>4 DEF F!AutoPromoted, P!AutoPromoted
  <1>7. ASSUME NEW t PROVE F!Resolve(t) = P!Resolve(t)
    BY <1>4 DEF F!Resolve, P!Resolve, F!Missing, P!Missing
  <1> QED
    BY <1>5, <1>6, <1>7 DEF F!Normal, P!Normal

LEMMA SameFindings ==
  /\ F!Init => P!Init
  /\ F!Next => P!Next
  /\ \A k : P!Promote(k) => F!Promote(k)
  <1>1. ASSUME NEW k PROVE F!Patch(k) <=> P!Patch(k)
    BY SameNormal DEF F!Patch, P!Patch, F!Readable, P!Readable, F!Now, P!Now,
       F!Write, P!Write, F!Kept, P!Kept, F!Live, P!Live, F!Keys, P!Keys
  <1>2. ASSUME NEW k PROVE F!Promote(k) <=> P!Promote(k)
    BY SameNormal DEF F!Promote, P!Promote, F!PromoteIn, P!PromoteIn, F!HasTask,
       P!HasTask, F!Readable, P!Readable, F!Now, P!Now, F!Write, P!Write,
       F!Kept, P!Kept, F!Live, P!Live, F!Promoted, P!Promoted, F!Keys, P!Keys
  <1>3. ASSUME NEW k PROVE F!Dismiss(k) <=> P!Dismiss(k)
    BY SameNormal DEF F!Dismiss, P!Dismiss, F!Readable, P!Readable, F!Now,
       P!Now, F!Write, P!Write, F!Kept, P!Kept, F!Live, P!Live, F!Keys, P!Keys
  <1>4. ASSUME NEW k PROVE F!Restore(k) <=> P!Restore(k)
    BY SameNormal DEF F!Restore, P!Restore, F!Readable, P!Readable, F!Now,
       P!Now, F!Write, P!Write, F!Kept, P!Kept, F!Keys, P!Keys
  <1>5. ASSUME NEW k PROVE F!DeleteTask(k) <=> P!DeleteTask(k)
    BY SameNormal DEF F!DeleteTask, P!DeleteTask, F!Readable, P!Readable, F!Now,
       P!Now, F!Write, P!Write, F!Kept, P!Kept, F!Keys, P!Keys
  <1>6. ASSUME NEW S PROVE F!Import(S) <=> P!Import(S)
    BY SameNormal DEF F!Import, P!Import, F!Readable, P!Readable, F!Now, P!Now,
       F!Write, P!Write, F!KeptButSession, P!KeptButSession, F!Named, P!Named,
       F!Keys, P!Keys
  <1>7. ASSUME NEW S PROVE F!ReplaceCandidates(S) <=> P!ReplaceCandidates(S)
    BY SameNormal DEF F!ReplaceCandidates, P!ReplaceCandidates, F!Readable,
       P!Readable, F!Now, P!Now, F!Write, P!Write, F!KeptButSession,
       P!KeptButSession, F!Keys, P!Keys
  <1>8. ASSUME NEW c PROVE F!DropCandidate(c) <=> P!DropCandidate(c)
    BY SameNormal DEF F!DropCandidate, P!DropCandidate, F!Readable, P!Readable,
       F!Now, P!Now, F!Write, P!Write, F!KeptButSession, P!KeptButSession,
       F!Available, P!Available, F!Keys, P!Keys
  <1>9. ASSUME NEW c PROVE F!EditCandidate(c) <=> P!EditCandidate(c)
    BY SameNormal DEF F!EditCandidate, P!EditCandidate, F!Readable, P!Readable,
       F!Now, P!Now, F!Write, P!Write, F!KeptButSession, P!KeptButSession,
       F!Keys, P!Keys
  <1>10. ASSUME NEW c PROVE F!PromoteCandidate(c) <=> P!PromoteCandidate(c)
    BY SameNormal DEF F!PromoteCandidate, P!PromoteCandidate, F!Upsert,
       P!Upsert, F!Readable, P!Readable, F!Now, P!Now, F!Write, P!Write,
       F!KeptButSession, P!KeptButSession, F!Available, P!Available, F!Open,
       P!Open, F!Keys, P!Keys
  <1>11. ASSUME NEW by PROVE F!Take(by) <=> P!Take(by)
    BY SameNormal DEF F!Take, P!Take, F!Keys, P!Keys, F!Readable, P!Readable,
       F!Now, P!Now
  <1>12. F!Report <=> P!Report
    BY SameNormal DEF F!Report, P!Report, F!Artifacts, P!Artifacts
  <1>13. F!Read <=> P!Read
    BY SameNormal DEF F!Read, P!Read, F!Keys, P!Keys, F!Readable, P!Readable,
       F!Now, P!Now, F!Kept, P!Kept
  <1>14. F!Retain <=> P!Retain
    BY SameNormal DEF F!Retain, P!Retain, F!Keys, P!Keys, F!Closed, P!Closed,
       F!Readable, P!Readable, F!Write, P!Write
  <1>15. F!SyncWrites <=> P!SyncWrites
    BY SameNormal DEF F!SyncWrites, P!SyncWrites, F!Keys, P!Keys, F!Readable,
       P!Readable, F!Now, P!Now, F!Write, P!Write
  <1>16. F!Init => P!Init
    BY DEF F!Init, P!Init, F!Keys, P!Keys
  <1>17. F!Keys = P!Keys
    BY DEF F!Keys, P!Keys
  <1>18. F!Edit => P!Edit
    BY <1>1, <1>2, <1>3, <1>4, <1>5, <1>6, <1>7, <1>8, <1>9, <1>10, <1>17
       DEF F!Edit, P!Edit
  <1>19. F!Keep => P!Keep
    BY <1>11, <1>13, <1>14, <1>15 DEF F!Keep, P!Keep
  <1> QED
    BY <1>2, <1>12, <1>16, <1>18, <1>19 DEF F!Next, P!Next
-----------------------------------------------------------------------------
(***************************************************************************)
(* Sums and largest elements of finite sets                                *)
(***************************************************************************)
(* Numbers are well-founded, so what holds of 0 and of a successor holds   *)
(* of all.                                                                 *)
LEMMA LeastNatural ==
  ASSUME NEW T, T \subseteq Nat, T # {}
  PROVE  \E x \in T : \A y \in T : x <= y
  <1>1. PICK x \in T : \A y \in T : ~(<<y, x>> \in OpToRel(<, Nat))
    BY WFMin, NatLessThanWellFounded, Zenon
  <1>2. \A y \in T : <<y, x>> \in Nat \X Nat
    OBVIOUS
  <1>3. \A y \in T : ~(y < x)
    BY <1>1, <1>2 DEF OpToRel
  <1> QED
    BY <1>3

LEMMA SetInduction ==
  ASSUME NEW S, 0 \in S, \A n \in Nat : n \in S => n + 1 \in S
  PROVE  \A n \in Nat : n \in S
  <1> SUFFICES ASSUME Nat \ S # {} PROVE FALSE
    OBVIOUS
  <1>1. PICK x \in Nat \ S : \A y \in Nat \ S : x <= y
    BY LeastNatural
  <1>2. x # 0 /\ x - 1 \in Nat /\ x - 1 \notin Nat \ S
    BY <1>1
  <1> QED
    BY <1>1, <1>2

(* Finite sets have finite images, and a greatest number.                  *)
LEMMA FiniteImage ==
  ASSUME NEW S, IsFiniteSet(S), NEW f
  PROVE  IsFiniteSet({f[x] : x \in S})
  <1> DEFINE T == {f[x] : x \in S}
             g == [x \in S |-> f[x]]
  <1>1. g \in Surjection(S, T)
    BY DEF Surjection
  <1> QED
    BY <1>1, FS_Surjection

LEMMA Greatest ==
  ASSUME NEW S \in SUBSET Nat, IsFiniteSet(S), S # {}
  PROVE  \E x \in S : \A y \in S : y <= x
  <1> DEFINE Tops(T) == \E x \in T : \A y \in T : y <= x
             G == {n \in Nat : \A T \in SUBSET Nat :
                     IsFiniteSet(T) /\ Cardinality(T) = n + 1 => Tops(T)}
  <1>1. 0 \in G
    <2>1. ASSUME NEW T \in SUBSET Nat, IsFiniteSet(T), Cardinality(T) = 1
          PROVE  Tops(T)
      <3>1. PICK x : T = {x}
        BY <2>1, FS_Singleton
      <3> QED
        BY <3>1
    <2> HIDE DEF Tops
    <2> QED
      BY <2>1
  <1>2. ASSUME NEW n \in Nat, n \in G PROVE n + 1 \in G
    <2>1. ASSUME NEW T \in SUBSET Nat, IsFiniteSet(T), Cardinality(T) = n + 2
          PROVE  Tops(T)
      <3>1. PICK x \in T : TRUE
        <4>1. T # {}
          BY <2>1, FS_EmptySet
        <4> QED
          BY <4>1
      <3>2. IsFiniteSet(T \ {x}) /\ Cardinality(T \ {x}) = n + 1
        BY <2>1, <3>1, FS_RemoveElement
      <3>3. PICK y \in T \ {x} : \A z \in T \ {x} : z <= y
        BY <1>2, <3>2
      <3>4. x \in Nat /\ y \in Nat /\ T \subseteq Nat
        OBVIOUS
      <3>5. CASE x <= y
        BY <3>3, <3>4, <3>5
      <3>6. CASE y <= x
        BY <3>3, <3>4, <3>6
      <3> QED
        BY <3>4, <3>5, <3>6
    <2> HIDE DEF Tops
    <2> QED
      BY <2>1
  <1> HIDE DEF G
  <1>3. \A n \in Nat : n \in G
    BY <1>1, <1>2, SetInduction
  <1>4. Cardinality(S) \in Nat \ {0}
    BY FS_CardinalityType, FS_EmptySet
  <1>5. Cardinality(S) - 1 \in G /\ Cardinality(S) = (Cardinality(S) - 1) + 1
    BY <1>3, <1>4
  <1> QED
    BY <1>5 DEF G

(* The largest of a set of totals, or 0.                                   *)
LEMMA LargestIs ==
  ASSUME NEW S \in SUBSET Nat, IsFiniteSet(S)
  PROVE  /\ U!Largest(S) \in S \cup {0} /\ U!Largest(S) \in Nat
         /\ \A x \in S : x <= U!Largest(S)
  <1>1. IsFiniteSet(S \cup {0}) /\ S \cup {0} \in SUBSET Nat
    BY FS_AddElement
  <1>2. PICK m \in S \cup {0} : \A y \in S \cup {0} : y <= m
    BY <1>1, Greatest
  <1>3. \A y \in S \cup {0} : m >= y
    BY <1>1, <1>2
  <1>4. U!Largest(S) \in S \cup {0} /\ \A y \in S \cup {0} : U!Largest(S) >= y
    BY <1>3 DEF U!Largest, U!Max
  <1> DEFINE l == U!Largest(S)
  <1>5. l \in Nat /\ \A y \in S : l \in Nat /\ y \in Nat /\ l >= y
    BY <1>1, <1>4
  <1> HIDE DEF l
  <1>6. \A y \in S : y <= l
    BY <1>5
  <1> QED
    BY <1>4, <1>5, <1>6 DEF l

(* What is added up: D[x].delta for every x.                               *)
Sum(D, S) == U!MapThenSumSet(LAMBDA x : D[x].delta, S)
One(s) == CHOOSE x \in s : TRUE
Added(g, D, s) == IF s = {} THEN 0 ELSE D[One(s)].delta + g[s \ {One(s)}]
Sums(g, D, T) == g = [s \in SUBSET T |-> Added(g, D, s)]

(* The function by which a sum is defined exists, for every finite set; on  *)
(* the sets two of them share they agree; so the definition unfolds.       *)
LEMMA SumExists ==
  ASSUME NEW T, IsFiniteSet(T), NEW D
  PROVE  \E g : Sums(g, D, T)
  <1> DEFINE Upto(g, n) == \A s \in SUBSET T : Cardinality(s) <= n => g[s] = Added(g, D, s)
             N == {n \in Nat : \E g : Upto(g, n)}
  <1>0. \A s \in SUBSET T : IsFiniteSet(s) /\ Cardinality(s) \in Nat /\ Cardinality(s) <= Cardinality(T)
    BY FS_Subset, FS_CardinalityType
  <1>1. 0 \in N
    <2> DEFINE g == [s \in SUBSET T |-> 0]
    <2>1. ASSUME NEW s \in SUBSET T, Cardinality(s) <= 0 PROVE s = {}
      BY <1>0, <2>1, FS_EmptySet
    <2>2. Upto(g, 0)
      BY <2>1 DEF Added
    <2> HIDE DEF Upto, g
    <2> QED
      BY <2>2
  <1>2. ASSUME NEW n \in Nat, n \in N PROVE n + 1 \in N
    <2>1. PICK g : Upto(g, n)
      BY <1>2
    <2> DEFINE h == [s \in SUBSET T |-> Added(g, D, s)]
    <2>2. ASSUME NEW s \in SUBSET T, Cardinality(s) <= n + 1
          PROVE  h[s] = Added(h, D, s)
      <3>1. CASE s = {}
        BY <3>1 DEF Added
      <3>2. CASE s # {}
        <4>1. One(s) \in s
          BY <3>2 DEF One
        <4>2. s \ {One(s)} \in SUBSET T /\ Cardinality(s \ {One(s)}) <= n
          BY <1>0, <2>2, <4>1, FS_RemoveElement
        <4>3. h[s \ {One(s)}] = g[s \ {One(s)}]
          BY <2>1, <4>2
        <4> QED
          BY <3>2, <4>3 DEF Added
      <3> QED
        BY <3>1, <3>2
    <2>3. Upto(h, n + 1)
      BY <2>2
    <2> HIDE DEF Upto, h
    <2> QED
      BY <2>3
  <1> HIDE DEF N
  <1>3. Cardinality(T) \in N
    <2>1. \A n \in Nat : n \in N
      BY <1>1, <1>2, SetInduction
    <2> QED
      BY <2>1, FS_CardinalityType
  <1>4. PICK g : Upto(g, Cardinality(T))
    BY <1>3 DEF N
  <1> DEFINE h == [s \in SUBSET T |-> g[s]]
  <1>5. ASSUME NEW s \in SUBSET T PROVE h[s] = Added(h, D, s)
    BY <1>0, <1>4 DEF Added
  <1>6. Sums(h, D, T)
    <2>1. h = [s \in SUBSET T |-> h[s]]
      OBVIOUS
    <2> HIDE DEF h
    <2> QED
      BY <1>5, <2>1 DEF Sums
  <1> QED
    BY <1>6

LEMMA SumsAgree ==
  ASSUME NEW D, NEW T, IsFiniteSet(T), NEW V, NEW g, NEW h, Sums(g, D, T), Sums(h, D, V)
  PROVE  \A s : s \subseteq T /\ s \subseteq V => g[s] = h[s]
  <1> DEFINE N == {n \in Nat : \A s : s \subseteq T /\ s \subseteq V /\ Cardinality(s) <= n => g[s] = h[s]}
  <1>0. \A s : s \subseteq T => IsFiniteSet(s) /\ Cardinality(s) \in Nat
    BY FS_Subset, FS_CardinalityType
  <1>1. \A s : s \subseteq T /\ s \subseteq V => g[s] = Added(g, D, s) /\ h[s] = Added(h, D, s)
    <2>1. \A s \in SUBSET T : g[s] = Added(g, D, s)
      BY DEF Sums
    <2>2. \A s \in SUBSET V : h[s] = Added(h, D, s)
      BY DEF Sums
    <2> QED
      BY <2>1, <2>2
  <1>2. 0 \in N
    <2>1. ASSUME NEW s, s \subseteq T, s \subseteq V, Cardinality(s) <= 0 PROVE g[s] = h[s]
      <3>1. s = {}
        BY <1>0, <2>1, FS_EmptySet
      <3> QED
        BY <1>1, <3>1 DEF Added
    <2> QED
      BY <2>1
  <1>3. ASSUME NEW n \in Nat, n \in N PROVE n + 1 \in N
    <2>1. ASSUME NEW s, s \subseteq T, s \subseteq V, Cardinality(s) <= n + 1 PROVE g[s] = h[s]
      <3>1. CASE s = {}
        BY <1>1, <3>1 DEF Added
      <3>2. CASE s # {}
        <4>1. One(s) \in s
          BY <3>2 DEF One
        <4>2. s \ {One(s)} \subseteq T /\ s \ {One(s)} \subseteq V /\ Cardinality(s \ {One(s)}) <= n
          BY <1>0, <2>1, <4>1, FS_RemoveElement
        <4>3. g[s \ {One(s)}] = h[s \ {One(s)}]
          BY <1>3, <4>2
        <4> QED
          BY <1>1, <2>1, <3>2, <4>3 DEF Added
      <3> QED
        BY <3>1, <3>2
    <2> QED
      BY <2>1
  <1> HIDE DEF N
  <1>4. \A n \in Nat : n \in N
    BY <1>2, <1>3, SetInduction
  <1> QED
    BY <1>0, <1>4 DEF N

LEMMA SumUnfolds ==
  ASSUME NEW D, NEW T, IsFiniteSet(T)
  PROVE  Sum(D, T) = IF T = {} THEN 0 ELSE D[One(T)].delta + Sum(D, T \ {One(T)})
  <1> DEFINE G(S) == CHOOSE g : Sums(g, D, S)
             rest == T \ {One(T)}
  <1>1. \A S : Sum(D, S) = G(S)[S]
    BY DEF Sum, U!MapThenSumSet, U!MapThenFoldSet, Sums, Added, One
  <1>2. Sums(G(T), D, T)
    BY SumExists
  <1>3. IsFiniteSet(rest) /\ rest \subseteq T
    BY FS_RemoveElement
  <1> HIDE DEF rest
  <1>4. Sums(G(rest), D, rest)
    BY <1>3, SumExists
  <1> HIDE DEF G
  <1>5. \A s : s \subseteq T /\ s \subseteq rest => G(T)[s] = G(rest)[s]
    BY <1>2, <1>4, SumsAgree
  <1>6. G(T)[rest] = G(rest)[rest]
    BY <1>3, <1>5
  <1>7. G(T)[T] = Added(G(T), D, T)
    BY <1>2 DEF Sums
  <1> QED
    BY <1>1, <1>6, <1>7 DEF Added, rest

(* In whatever order, every element is added once.                         *)
LEMMA SumSplits ==
  ASSUME NEW D, NEW T, IsFiniteSet(T), \A x \in T : D[x].delta \in Nat
  PROVE  /\ Sum(D, T) \in Nat
         /\ \A x \in T : Sum(D, T) = D[x].delta + Sum(D, T \ {x})
  <1> DEFINE Splits(S) == /\ Sum(D, S) \in Nat
                          /\ \A x \in S : Sum(D, S) = D[x].delta + Sum(D, S \ {x})
             N == {n \in Nat : \A S \in SUBSET T : Cardinality(S) <= n => Splits(S)}
  <1>0. \A S \in SUBSET T : IsFiniteSet(S) /\ Cardinality(S) \in Nat
    BY FS_Subset, FS_CardinalityType
  <1>1. Splits({})
    <2>1. Sum(D, {}) = 0
      BY SumUnfolds, FS_EmptySet
    <2> QED
      BY <2>1
  <1>2. 0 \in N
    <2> HIDE DEF Splits
    <2>1. ASSUME NEW S \in SUBSET T, Cardinality(S) <= 0 PROVE S = {}
      BY <1>0, <2>1, FS_EmptySet
    <2> QED
      BY <1>1, <2>1
  <1>3. ASSUME NEW n \in Nat, n \in N PROVE n + 1 \in N
    <2>1. ASSUME NEW S \in SUBSET T, Cardinality(S) <= n + 1, S # {} PROVE Splits(S)
      <3> DEFINE y == One(S)
      <3>1. y \in S
        BY <2>1 DEF One
      <3> HIDE DEF y
      <3>2. ASSUME NEW x \in S
            PROVE  /\ S \ {x} \in SUBSET T /\ Cardinality(S \ {x}) <= n
                   /\ Splits(S \ {x})
        <4>1. S \ {x} \in SUBSET T /\ Cardinality(S \ {x}) <= n
          BY <1>0, <2>1, FS_RemoveElement
        <4> HIDE DEF Splits
        <4> QED
          BY <1>3, <4>1
      <3>3. Sum(D, S) = D[y].delta + Sum(D, S \ {y})
        BY <1>0, <2>1, SumUnfolds DEF y
      <3>4. Sum(D, S) \in Nat
        <4>1. Sum(D, S \ {y}) \in Nat /\ D[y].delta \in Nat
          BY <3>1, <3>2
        <4> QED
          BY <3>3, <4>1
      <3>5. ASSUME NEW x \in S, x # y PROVE Sum(D, S) = D[x].delta + Sum(D, S \ {x})
        <4>1. (S \ {y}) \ {x} = (S \ {x}) \ {y}
          OBVIOUS
        <4>2. Sum(D, S \ {y}) = D[x].delta + Sum(D, (S \ {y}) \ {x})
          BY <3>1, <3>2, <3>5
        <4>3. Sum(D, S \ {x}) = D[y].delta + Sum(D, (S \ {x}) \ {y})
          BY <3>1, <3>2, <3>5
        <4>4. Sum(D, (S \ {x}) \ {y}) \in Nat
          <5>1. (S \ {x}) \ {y} \in SUBSET T /\ Cardinality((S \ {x}) \ {y}) <= n
            <6>1. IsFiniteSet(S \ {x}) /\ Cardinality(S \ {x}) \in Nat /\ Cardinality(S \ {x}) <= n
              BY <1>0, <3>2
            <6>2. IsFiniteSet((S \ {x}) \ {y}) /\ Cardinality((S \ {x}) \ {y}) <= Cardinality(S \ {x})
              BY <6>1, FS_Subset
            <6> QED
              BY <1>0, <6>1, <6>2
          <5> QED
            BY <1>3, <5>1
        <4>5. D[x].delta \in Nat /\ D[y].delta \in Nat
          BY <3>1
        <4> QED
          <5> HIDE DEF Splits, N
          <5> DEFINE u == Sum(D, (S \ {x}) \ {y})
          <5>1. u \in Nat /\ Sum(D, S) = D[y].delta + (D[x].delta + u)
                /\ Sum(D, S \ {x}) = D[y].delta + u
            BY <3>3, <4>1, <4>2, <4>3, <4>4
          <5> HIDE DEF u
          <5> QED
            BY <4>5, <5>1
      <3> QED
        BY <3>3, <3>4, <3>5
    <2> HIDE DEF Splits
    <2> QED
      BY <1>1, <2>1
  <1> HIDE DEF N
  <1>4. \A n \in Nat : n \in N
    BY <1>2, <1>3, SetInduction
  <1>5. Splits(T)
    <2> HIDE DEF Splits
    <2> QED
      BY <1>0, <1>4 DEF N
  <1> QED
    BY <1>5

-----------------------------------------------------------------------------
(***************************************************************************)
(* What the index keeps of a session: UsageIndex                           *)
(***************************************************************************)

(* The largest total up to a time, and what was used between two.          *)
Peak(d, k) == U!Largest({d[t].total : t \in DOMAIN d \cap 1..k})
Spent(d, from, k) == Sum(d, DOMAIN d \cap from..k)

(* A chart says by how much each total exceeds those before it.            *)
Chart(d, c) ==
  /\ DOMAIN d \subseteq 1..c
  /\ \A t \in DOMAIN d : /\ d[t].total \in Nat
                         /\ d[t].delta = U!Minus(d[t].total, Peak(d, t - 1))

(* A peak is a total of its time and bounds the others, or 0.              *)
LEMMA PeakIs ==
  ASSUME NEW c \in Nat, NEW d, Chart(d, c), NEW k \in Nat
  PROVE  /\ Peak(d, k) \in Nat
         /\ Peak(d, k) = 0 \/ \E t \in DOMAIN d \cap 1..k : Peak(d, k) = d[t].total
         /\ \A t \in DOMAIN d \cap 1..k : d[t].total <= Peak(d, k)
  <1> DEFINE S == DOMAIN d \cap 1..k
             f == [t \in S |-> d[t].total]
             T == {d[t].total : t \in S}
  <1>1. IsFiniteSet(S)
    <2>1. S \in SUBSET (1..k) /\ IsFiniteSet(1..k)
      BY FS_Interval
    <2> QED
      BY <2>1, FS_Subset
  <1>2. T = {f[t] : t \in S}
    OBVIOUS
  <1>3. IsFiniteSet(T)
    <2> HIDE DEF f, S
    <2> QED
      BY <1>1, <1>2, FiniteImage
  <1>4. T \in SUBSET Nat
    BY DEF Chart
  <1>5. Peak(d, k) = U!Largest(T)
    BY DEF Peak
  <1> HIDE DEF T
  <1>6. /\ U!Largest(T) \in T \cup {0} /\ U!Largest(T) \in Nat
        /\ \A x \in T : x <= U!Largest(T)
    BY <1>3, <1>4, LargestIs
  <1> QED
    BY <1>5, <1>6 DEF T

LEMMA DeltasAreNatural ==
  ASSUME NEW c \in Nat, NEW d, Chart(d, c)
  PROVE  \A t \in DOMAIN d : d[t].delta \in Nat
  <1> SUFFICES ASSUME NEW t \in DOMAIN d PROVE d[t].delta \in Nat
    OBVIOUS
  <1>1. t - 1 \in Nat
    BY DEF Chart
  <1>2. Peak(d, t - 1) \in Nat
    BY <1>1, PeakIs
  <1> QED
    BY <1>2 DEF Chart, U!Minus

(* What was used adds up to how far the peak rose.                         *)
LEMMA SpentIsRise ==
  ASSUME NEW c \in Nat, NEW d, Chart(d, c), NEW from \in Nat \ {0}, NEW k \in Nat, from <= k
  PROVE  Spent(d, from, k) = Peak(d, k) - Peak(d, from - 1)
  <1> DEFINE N == {n \in Nat : Spent(d, from, from - 1 + n) = Peak(d, from - 1 + n) - Peak(d, from - 1)}
  <1>0. ASSUME NEW n \in Nat PROVE Peak(d, n) \in Nat
    BY PeakIs
  <1>1. 0 \in N
    <2>1. DOMAIN d \cap from..(from - 1) = {} /\ from - 1 + 0 = from - 1 /\ from - 1 \in Nat
      OBVIOUS
    <2>2. Sum(d, {}) = 0
      BY SumUnfolds, FS_EmptySet
    <2> QED
      BY <1>0, <2>1, <2>2 DEF Spent
  <1>2. ASSUME NEW n \in Nat, n \in N PROVE n + 1 \in N
    <2> DEFINE m == from - 1 + n
               S == DOMAIN d \cap from..m
               T == DOMAIN d \cap from..(m + 1)
    <2>1. m \in Nat /\ from - 1 + (n + 1) = m + 1 /\ from <= m + 1
      OBVIOUS
    <2>2. Sum(d, S) = Peak(d, m) - Peak(d, from - 1)
      BY <1>2 DEF Spent
    <2>3. SUFFICES Sum(d, T) = Peak(d, m + 1) - Peak(d, from - 1)
      BY <2>1 DEF Spent
    <2>4. CASE m + 1 \notin DOMAIN d
      <3>1. T = S /\ DOMAIN d \cap 1..(m + 1) = DOMAIN d \cap 1..m
        BY <2>1, <2>4
      <3> QED
        BY <2>2, <3>1 DEF Peak
    <2>5. CASE m + 1 \in DOMAIN d
      <3>1. m + 1 \in T /\ T \ {m + 1} = S /\ m + 1 \notin S
        BY <2>1, <2>5
      <3>2. IsFiniteSet(T) /\ \A t \in T : d[t].delta \in Nat
        <4>1. T \in SUBSET (from..(m + 1)) /\ IsFiniteSet(from..(m + 1))
          BY <2>1, FS_Interval
        <4> QED
          BY <4>1, FS_Subset, DeltasAreNatural
      <3>3. Sum(d, T) = d[m + 1].delta + Sum(d, S)
        <4> HIDE DEF S, T
        <4> QED
          BY <3>1, <3>2, SumSplits
      <3>4. d[m + 1].delta = U!Minus(d[m + 1].total, Peak(d, m)) /\ d[m + 1].total \in Nat
        BY <2>1, <2>5 DEF Chart
      <3>5. Peak(d, m + 1) = IF d[m + 1].total > Peak(d, m) THEN d[m + 1].total ELSE Peak(d, m)
        <4> HIDE DEF m
        <4>1. Peak(d, m) \in Nat /\ Peak(d, m + 1) \in Nat
          BY <1>0, <2>1
        <4>2. d[m + 1].total <= Peak(d, m + 1)
          BY <2>1, <2>5, PeakIs
        <4>3. Peak(d, m) <= Peak(d, m + 1)
          <5>1. CASE Peak(d, m) = 0
            BY <4>1, <5>1
          <5>2. CASE \E t \in DOMAIN d \cap 1..m : Peak(d, m) = d[t].total
            <6>1. PICK t \in DOMAIN d \cap 1..m : Peak(d, m) = d[t].total
              BY <5>2
            <6>2. t \in DOMAIN d \cap 1..(m + 1)
              BY <2>1
            <6> QED
              BY <2>1, <6>1, <6>2, PeakIs
          <5> QED
            BY <2>1, <5>1, <5>2, PeakIs
        <4>4. Peak(d, m + 1) \in {0, d[m + 1].total} \/ Peak(d, m + 1) <= Peak(d, m)
          <5>1. CASE \E t \in DOMAIN d \cap 1..(m + 1) : Peak(d, m + 1) = d[t].total
            <6>1. PICK t \in DOMAIN d \cap 1..(m + 1) : Peak(d, m + 1) = d[t].total
              BY <5>1
            <6>2. t = m + 1 \/ t \in DOMAIN d \cap 1..m
              BY <2>1
            <6> QED
              BY <2>1, <6>1, <6>2, PeakIs
          <5> QED
            BY <2>1, <5>1, PeakIs
        <4> QED
          BY <3>4, <4>1, <4>2, <4>3, <4>4
      <3>6. Peak(d, m) \in Nat /\ Peak(d, from - 1) \in Nat
        BY <1>0
      <3> HIDE DEF m, S, T
      <3> QED
        BY <2>2, <3>3, <3>4, <3>5, <3>6 DEF U!Minus
    <2> QED
      BY <2>4, <2>5
  <1> HIDE DEF N
  <1>3. \A n \in Nat : n \in N
    BY <1>1, <1>2, SetInduction
  <1>4. k - from + 1 \in Nat /\ from - 1 + (k - from + 1) = k
    OBVIOUS
  <1> QED
    BY <1>3, <1>4 DEF N

(* A rollout file, up to a time, and what is made of it.                   *)
Texts(c) == Seq([at : 1..c, total : Nat])
LEMMA CheckpointsChart ==
  ASSUME NEW c \in Nat, NEW text \in Texts(c)
  PROVE  Chart(U!Checkpoints(text), c)
  <1> DEFINE m == U!Marks(text)
             d == U!Checkpoints(text)
             X == {x.at : x \in U!Range(text)}
             Of(t) == {x.total : x \in {y \in U!Range(text) : y.at = t}}
  <1>1. U!Range(text) = {text[n] : n \in 1..Len(text)} /\ Len(text) \in Nat
        /\ \A n \in 1..Len(text) : text[n] \in [at : 1..c, total : Nat]
    <2> DEFINE R == [at : 1..c, total : Nat]
    <2>1. text \in Seq(R)
      BY DEF Texts
    <2> HIDE DEF R
    <2>2. DOMAIN text = 1..Len(text) /\ Len(text) \in Nat /\ \A n \in 1..Len(text) : text[n] \in R
      BY <2>1
    <2> QED
      BY <2>2 DEF U!Range, R
  <1>2. m = [t \in X |-> U!Largest(Of(t))] /\ X \subseteq 1..c
    BY <1>1 DEF U!Marks
  <1>3. ASSUME NEW t \in X PROVE m[t] \in Nat
    <2> DEFINE S == {n \in 1..Len(text) : text[n].at = t}
               f == [n \in S |-> text[n].total]
    <2>1. IsFiniteSet(S)
      <3>1. S \in SUBSET (1..Len(text)) /\ IsFiniteSet(1..Len(text))
        BY <1>1, FS_Interval
      <3> QED
        BY <3>1, FS_Subset
    <2>2. Of(t) = {f[n] : n \in S}
      BY <1>1
    <2>3. Of(t) \in SUBSET Nat
      BY <1>1
    <2>4. IsFiniteSet(Of(t))
      <3> HIDE DEF S, f, Of
      <3> QED
        BY <2>1, <2>2, FiniteImage
    <2> HIDE DEF Of
    <2> QED
      BY <1>2, <2>3, <2>4, LargestIs
  <1> HIDE DEF m
  <1>4. d = [t \in DOMAIN m |-> [total |-> m[t], delta |-> U!Minus(m[t], U!Before(m, t))]]
    BY DEF U!Checkpoints, m
  <1> HIDE DEF d, X, Of
  <1>5. DOMAIN d = X /\ DOMAIN m = X
    BY <1>2, <1>4
  <1>6. ASSUME NEW t \in X
        PROVE  d[t].total \in Nat /\ d[t].delta = U!Minus(d[t].total, Peak(d, t - 1))
    <2>1. d[t].total = m[t] /\ d[t].delta = U!Minus(m[t], U!Before(m, t))
      BY <1>4, <1>5
    <2>2. {v \in DOMAIN m : v < t} = DOMAIN d \cap 1..(t - 1)
      <3>1. \A v \in X : v \in Nat /\ t \in Nat /\ (v < t <=> v \in 1..(t - 1))
        BY <1>2
      <3> QED
        BY <1>5, <3>1
    <2>3. {m[u] : u \in {v \in DOMAIN m : v < t}} = {d[u].total : u \in DOMAIN d \cap 1..(t - 1)}
      BY <1>4, <1>5, <2>2
    <2> QED
      BY <1>3, <2>1, <2>3 DEF U!Before, Peak
  <1> QED
    BY <1>2, <1>5, <1>6 DEF Chart, d

(* The keys of the rows.                                                   *)
LEMMA KeysApart ==
  /\ \A s, x : U!Rollout(s) # U!Legacy(x) /\ U!Rollout(s) # U!History(x) /\ U!Legacy(s) # U!History(x)
  /\ \A s, x : U!Rollout(s) = U!Rollout(x) => s = x
  /\ \A s, x : U!Legacy(s) = U!Legacy(x) => s = x
  /\ \A s, x : U!History(s) = U!History(x) => s = x
  BY DEF U!Rollout, U!Legacy, U!History

There(f, s) == f[s] # None
Owned(x) == {s \in Sessions : Owner[s] = x}
Charts(row, c) == \A s \in DOMAIN row.sessions : Chart(row.sessions[s], c)
(* A row says what the file said when it had that size.                    *)
RolloutRow(s, row, f, c) ==
  row # None =>
    /\ row.run = Owner[s] /\ DOMAIN row.sessions = {s} /\ Charts(row, c) /\ row.size \in Nat
    /\ There(f, s) => /\ row.size <= Len(f[s])
                      /\ row.size = Len(f[s]) => row.sessions[s] = U!Checkpoints(f[s])
LegacyRow(s, row, c) ==
  row # None => row.run = None /\ DOMAIN row.sessions = {s} /\ Charts(row, c)
HistoryRow(x, row, c) ==
  row # None => /\ row.run = x /\ Charts(row, c)
                /\ DOMAIN row.sessions \subseteq Owned(x) /\ DOMAIN row.sessions # {}
RowsFit ==
  /\ sources = [k \in U!Keys |-> sources[k]]
  /\ \A s \in Sessions : RolloutRow(s, sources[U!Rollout(s)], rollouts, clock)
  /\ \A s \in Sessions : LegacyRow(s, sources[U!Legacy(s)], clock)
  /\ \A x \in Runs : HistoryRow(x, sources[U!History(x)], clock)

(* What a process knows at its place.                                      *)
Fields == {"does", "at", "todo", "known", "found", "of", "size", "text", "latest"}
Walks(j) == j.does = "sync" /\ j.todo \subseteq U!Shared
Reads(j) == /\ j.of \in Sessions /\ j.size \in Nat /\ j.does \in {"sync", "record"}
            /\ j.does = "sync" => Walks(j) /\ j.of \in U!Shared
Holds(j, f, c) ==
  /\ DOMAIN j = Fields
  /\ j.at \in {"idle", "legacy", "roots", "walk", "parse", "store", "runs", "history"}
  /\ j.at = "roots" => j.does = "sync"
  /\ j.at = "legacy" => j.does = "sync" /\ j.todo \subseteq Sessions
  /\ j.at = "walk" => Walks(j)
  /\ j.at = "parse" => Reads(j) /\ (There(f, j.of) => j.size <= Len(f[j.of]))
  /\ j.at = "store" =>
       /\ Reads(j) /\ j.text \in Texts(c) /\ j.size <= Len(j.text)
       /\ There(f, j.of) => /\ Len(j.text) <= Len(f[j.of])
                            /\ Len(j.text) = Len(f[j.of]) => j.text = f[j.of]
  /\ j.at \in {"runs", "history"} => j.todo \subseteq Runs /\ j.latest \in 0..c
  /\ j.at = "history" => /\ j.of \in Runs /\ DOMAIN j.text \subseteq Owned(j.of)
                         /\ \A s \in DOMAIN j.text : Chart(j.text[s], c)

(* A history file tells of sessions in the sandbox of its run.             *)
KeptFits(f, c) ==
  \A x \in Runs : DOMAIN f[x] \subseteq Owned(x) /\ \A s \in DOMAIN f[x] : f[x][s] \in Texts(c)

UsageTyped ==
  /\ clock \in Nat \ {0} /\ rollouts \in [Sessions -> Texts(clock) \cup {None}]
  /\ KeptFits(kept, clock)
  /\ runIndex \in [Runs -> 0..clock] /\ marker \in 0..clock /\ imported \in BOOLEAN
  /\ syncs = [p \in Procs |-> syncs[p]]
  /\ doubled \subseteq Sessions

(* Only what was imported beside its rollout has two rows.                 *)
UsageInv ==
  /\ UsageTyped /\ RowsFit
  /\ \A p \in Procs : Holds(syncs[p], rollouts, clock)
  /\ \A s \in Sessions : {U!Rollout(s), U!Legacy(s)} \subseteq U!Stored => s \in doubled

(* Files only grow, or are removed.                                        *)
Grown(f, g) ==
  \A s \in Sessions : There(g, s) =>
    There(f, s) /\ Len(f[s]) <= Len(g[s]) /\ (Len(f[s]) = Len(g[s]) => f[s] = g[s])

-----------------------------------------------------------------------------
(* What was known before is known as time passes.                          *)
LEMMA ChartLasts ==
  ASSUME NEW c \in Nat, NEW e \in Nat, c <= e, NEW d, Chart(d, c)
  PROVE  Chart(d, e)
  BY DEF Chart

LEMMA TextsLast ==
  ASSUME NEW c \in Nat, NEW e \in Nat, c <= e
  PROVE  Texts(c) \subseteq Texts(e)
  <1> DEFINE R == [at : 1..c, total : Nat]
             V == [at : 1..e, total : Nat]
  <1>1. R \subseteq V
    OBVIOUS
  <1> HIDE DEF R, V
  <1>2. Seq(R) \subseteq Seq(V)
    BY <1>1
  <1> QED
    BY <1>2 DEF Texts, R, V

LEMMA KeptLasts ==
  ASSUME NEW c \in Nat, NEW e \in Nat, c <= e, NEW f, KeptFits(f, c)
  PROVE  KeptFits(f, e)
  BY TextsLast DEF KeptFits

LEMMA KnowledgeLasts ==
  ASSUME NEW c \in Nat, NEW e \in Nat, c <= e, NEW f, NEW g, Grown(f, g),
         \A s \in Sessions : There(f, s) => f[s] \in Texts(c),
         \A s \in Sessions : There(g, s) => g[s] \in Texts(e)
  PROVE  /\ \A j : Holds(j, f, c) => Holds(j, g, e)
         /\ \A s \in Sessions : \A row : RolloutRow(s, row, f, c) => RolloutRow(s, row, g, e)
         /\ \A s, row : LegacyRow(s, row, c) => LegacyRow(s, row, e)
         /\ \A x, row : HistoryRow(x, row, c) => HistoryRow(x, row, e)
  <1>1. \A d : Chart(d, c) => Chart(d, e)
    BY ChartLasts
  <1>2. \A row : Charts(row, c) => Charts(row, e)
    BY <1>1 DEF Charts
  <1>3. Texts(c) \subseteq Texts(e)
    BY TextsLast
  <1>4. /\ \A text \in Texts(e) : Len(text) \in Nat
        /\ \A text \in Texts(c) : Len(text) \in Nat
    BY DEF Texts
  <1>5. ASSUME NEW j, Holds(j, f, c) PROVE Holds(j, g, e)
    <2>1. j.at = "parse" /\ There(g, j.of) => j.size <= Len(g[j.of])
      <3> SUFFICES ASSUME j.at = "parse", There(g, j.of) PROVE j.size <= Len(g[j.of])
        OBVIOUS
      <3>1. j.of \in Sessions /\ j.size \in Nat /\ (There(f, j.of) => j.size <= Len(f[j.of]))
        BY <1>5 DEF Holds, Reads
      <3>2. There(f, j.of) /\ Len(f[j.of]) <= Len(g[j.of])
        BY <3>1 DEF Grown
      <3> QED
        BY <1>4, <3>1, <3>2
    <2>2. j.at = "store" /\ There(g, j.of) =>
            Len(j.text) <= Len(g[j.of]) /\ (Len(j.text) = Len(g[j.of]) => j.text = g[j.of])
      <3> SUFFICES ASSUME j.at = "store", There(g, j.of)
                   PROVE  /\ Len(j.text) <= Len(g[j.of])
                          /\ Len(j.text) = Len(g[j.of]) => j.text = g[j.of]
        OBVIOUS
      <3>1. /\ j.of \in Sessions /\ j.text \in Texts(c)
            /\ There(f, j.of) => /\ Len(j.text) <= Len(f[j.of])
                                 /\ Len(j.text) = Len(f[j.of]) => j.text = f[j.of]
        BY <1>5 DEF Holds, Reads
      <3>2. There(f, j.of) /\ Len(f[j.of]) <= Len(g[j.of])
            /\ (Len(f[j.of]) = Len(g[j.of]) => f[j.of] = g[j.of])
        BY <3>1 DEF Grown
      <3> QED
        BY <1>4, <3>1, <3>2
    <2>3. j.at \in {"runs", "history"} => j.todo \subseteq Runs /\ j.latest \in 0..e
      BY <1>5 DEF Holds
    <2>4. j.at = "store" => Reads(j) /\ j.text \in Texts(e) /\ j.size <= Len(j.text)
      BY <1>3, <1>5 DEF Holds
    <2>5. j.at = "history" => /\ j.of \in Runs /\ DOMAIN j.text \subseteq Owned(j.of)
                              /\ \A s \in DOMAIN j.text : Chart(j.text[s], e)
      BY <1>1, <1>5 DEF Holds
    <2> QED
      BY <1>5, <2>1, <2>2, <2>3, <2>4, <2>5 DEF Holds
  <1>6. ASSUME NEW s \in Sessions, NEW row, RolloutRow(s, row, f, c), row # None
        PROVE  RolloutRow(s, row, g, e)
    <2>1. /\ row.run = Owner[s] /\ DOMAIN row.sessions = {s} /\ Charts(row, e) /\ row.size \in Nat
          /\ There(f, s) => /\ row.size <= Len(f[s])
                            /\ row.size = Len(f[s]) => row.sessions[s] = U!Checkpoints(f[s])
      BY <1>2, <1>6 DEF RolloutRow
    <2>2. There(g, s) => /\ There(f, s) /\ Len(f[s]) <= Len(g[s])
                         /\ Len(f[s]) = Len(g[s]) => f[s] = g[s]
      BY DEF Grown
    <2> QED
      BY <1>4, <2>1, <2>2 DEF RolloutRow
  <1> QED
    BY <1>2, <1>5, <1>6 DEF RolloutRow, LegacyRow, HistoryRow

(* An index without rows.                                                  *)
LEMMA UsageBegins == U!Init => UsageInv
  <1> SUFFICES ASSUME U!Init PROVE UsageInv
    OBVIOUS
  <1>1. clock = 3 /\ Texts(3) = Seq([at : 1..3, total : Nat])
    BY DEF U!Init, Texts
  <1>2. UsageTyped
    <2>1. rollouts \in [Sessions -> Earlier] /\ Earlier \subseteq Texts(clock)
      BY <1>1, UsageAssumption DEF U!Init, U!UsageBounds
    <2>2. rollouts \in [Sessions -> Texts(clock) \cup {None}]
      BY <2>1
    <2>3. syncs = [p \in Procs |-> syncs[p]]
      BY DEF U!Init
    <2>4. runIndex \in [Runs -> 0..clock] /\ marker \in 0..clock /\ clock \in Nat \ {0}
      BY <1>1 DEF U!Init
    <2>5. imported \in BOOLEAN /\ doubled \subseteq Sessions
      BY DEF U!Init
    <2>6. KeptFits(kept, clock)
      <3>1. PICK Told \in SUBSET Runs, said \in [Sessions -> Earlier] :
              kept = [x \in Runs |-> [s \in {y \in U!InSandbox(x) : x \in Told} |-> said[s]]]
        BY DEF U!Init
      <3>2. ASSUME NEW x \in Runs, NEW s \in DOMAIN kept[x]
            PROVE  s \in Owned(x) /\ kept[x][s] = said[s]
        BY <3>1, <3>2 DEF U!InSandbox, Owned
      <3>3. \A s \in Sessions : said[s] \in Texts(clock)
        BY <2>1
      <3> QED
        BY <3>2, <3>3 DEF KeptFits, Owned
    <2> QED
      BY <2>2, <2>3, <2>4, <2>5, <2>6 DEF UsageTyped
  <1>3. RowsFit /\ U!Stored = {}
    BY DEF U!Init, RowsFit, RolloutRow, LegacyRow, HistoryRow, U!Stored, U!Keys, U!Rollout, U!Legacy, U!History
  <1>4. Holds(U!Idle, rollouts, clock)
    BY DEF Holds, Fields, U!Idle
  <1> QED
    BY <1>2, <1>3, <1>4 DEF UsageInv, U!Init

(* Nothing that others do to the files takes away from what is known.      *)
LEMMA WorldStays ==
  ASSUME UsageInv, UsageTyped', Grown(rollouts, rollouts'), clock <= clock', U!World
  PROVE  UsageInv'
  <1>1. /\ \A s \in Sessions : There(rollouts, s) => rollouts[s] \in Texts(clock)
        /\ \A s \in Sessions : There(rollouts', s) => rollouts'[s] \in Texts(clock')
        /\ clock \in Nat /\ clock' \in Nat
    BY DEF UsageInv, UsageTyped, There
  <1>2. /\ \A j : Holds(j, rollouts, clock) => Holds(j, rollouts', clock')
        /\ \A s \in Sessions : \A row : RolloutRow(s, row, rollouts, clock) => RolloutRow(s, row, rollouts', clock')
        /\ \A s, row : LegacyRow(s, row, clock) => LegacyRow(s, row, clock')
        /\ \A x, row : HistoryRow(x, row, clock) => HistoryRow(x, row, clock')
    BY <1>1, KnowledgeLasts
  <1>3. RowsFit'
    BY <1>2 DEF UsageInv, RowsFit, U!World
  <1>4. \A p \in Procs : Holds(syncs[p], rollouts, clock)'
    BY <1>2 DEF UsageInv, U!World
  <1>5. \A s \in Sessions : ({U!Rollout(s), U!Legacy(s)} \subseteq U!Stored)' => s \in doubled'
    BY DEF UsageInv, U!World, U!Stored
  <1> QED
    BY <1>3, <1>4, <1>5 DEF UsageInv

(* Codex appends a total to a rollout.                                     *)
LEMMA ReportStays ==
  ASSUME UsageInv, NEW s \in Sessions, NEW n \in Tokens, U!Report(s, n)
  PROVE  UsageInv'
  <1> DEFINE mark == [at |-> clock, total |-> n]
             R == [at : 1..clock, total : Nat]
  <1>1. clock \in Nat \ {0} /\ n \in Nat
    BY UsageAssumption DEF UsageInv, UsageTyped, U!UsageBounds
  <1>2. rollouts[s] \in Seq(R) /\ mark \in R
    <2>1. rollouts[s] \in Texts(clock) \cup {None} /\ rollouts[s] # None
      BY DEF UsageInv, UsageTyped, U!Report
    <2> QED
      BY <1>1, <2>1 DEF Texts
  <1>3. rollouts' = [rollouts EXCEPT ![s] = Append(rollouts[s], mark)]
    BY DEF U!Report
  <1> HIDE DEF R, mark
  <1>4. Append(rollouts[s], mark) \in Seq(R) /\ Len(Append(rollouts[s], mark)) = Len(rollouts[s]) + 1
        /\ Len(rollouts[s]) \in Nat
    BY <1>2
  <1>5. UsageTyped'
    BY <1>3, <1>4 DEF UsageInv, UsageTyped, Texts, R, U!Report, U!World
  <1>6. ASSUME NEW x \in Sessions, There(rollouts', x)
        PROVE  /\ There(rollouts, x) /\ Len(rollouts[x]) <= Len(rollouts'[x])
               /\ Len(rollouts[x]) = Len(rollouts'[x]) => rollouts[x] = rollouts'[x]
    <2>1. CASE x = s
      BY <1>3, <1>4, <2>1 DEF UsageInv, UsageTyped, U!Report, There
    <2>2. CASE x # s
      <3>1. rollouts'[x] = rollouts[x]
        BY <1>3, <2>2 DEF UsageInv, UsageTyped
      <3>2. Len(rollouts[x]) \in Nat
        BY <1>6, <3>1 DEF UsageInv, UsageTyped, Texts, There
      <3> QED
        BY <1>6, <3>1, <3>2 DEF There
    <2> QED
      BY <2>1, <2>2
  <1>7. Grown(rollouts, rollouts') /\ clock <= clock' /\ U!World
    <2>1. clock' = clock /\ U!World
      BY DEF U!Report
    <2> QED
      BY <1>1, <1>6, <2>1 DEF Grown
  <1> QED
    BY <1>5, <1>7, WorldStays

(* Time passes, a rollout is removed, a run is worked on.                  *)
LEMMA OthersStay ==
  ASSUME UsageInv,
         U!Tick \/ (\E s \in Sessions : U!Remove(s)) \/ (\E x \in Runs : U!UpdateRun(x))
  PROVE  UsageInv'
  <1>1. clock \in Nat \ {0}
    BY DEF UsageInv, UsageTyped
  <1>2. \A s \in Sessions : There(rollouts, s) => Len(rollouts[s]) \in Nat
    BY DEF UsageInv, UsageTyped, Texts, There
  <1>3. CASE U!Tick
    <2>1. clock' = clock + 1 /\ rollouts' = rollouts /\ runIndex' = runIndex /\ U!World
      BY <1>3 DEF U!Tick
    <2>2. Texts(clock) \subseteq Texts(clock')
      BY <1>1, <2>1, TextsLast
    <2>3. UsageTyped'
      <3>1. rollouts' \in [Sessions -> Texts(clock') \cup {None}]
        BY <2>1, <2>2 DEF UsageInv, UsageTyped
      <3>2. runIndex' \in [Runs -> 0..clock'] /\ marker' \in 0..clock' /\ clock' \in Nat \ {0}
        BY <1>1, <2>1 DEF UsageInv, UsageTyped, U!World
      <3>3. KeptFits(kept', clock') /\ clock' \in Nat
        BY <1>1, <2>1, KeptLasts DEF UsageInv, UsageTyped, U!World
      <3> QED
        BY <2>1, <3>1, <3>2, <3>3 DEF UsageInv, UsageTyped, U!World
    <2>4. Grown(rollouts, rollouts')
      BY <1>2, <2>1 DEF Grown
    <2> QED
      BY <1>1, <2>1, <2>3, <2>4, WorldStays
  <1>4. ASSUME NEW s \in Sessions, U!Remove(s) PROVE UsageInv'
    <2>1. /\ clock' = clock /\ rollouts' = [rollouts EXCEPT ![s] = None] /\ runIndex' = runIndex /\ U!World
      BY <1>4 DEF U!Remove
    <2>2. UsageTyped'
      BY <2>1 DEF UsageInv, UsageTyped, U!World
    <2>3. Grown(rollouts, rollouts')
      BY <1>2, <2>1 DEF Grown, There, UsageInv, UsageTyped
    <2> QED
      BY <1>1, <2>1, <2>2, <2>3, WorldStays
  <1>5. ASSUME NEW x \in Runs, U!UpdateRun(x) PROVE UsageInv'
    <2>1. clock' = clock /\ rollouts' = rollouts /\ runIndex' = [runIndex EXCEPT ![x] = clock] /\ U!World
      BY <1>5 DEF U!UpdateRun
    <2>2. UsageTyped'
      BY <1>1, <2>1 DEF UsageInv, UsageTyped, U!World
    <2>3. Grown(rollouts, rollouts')
      BY <1>2, <2>1 DEF Grown
    <2> QED
      BY <1>1, <2>1, <2>2, <2>3, WorldStays
  <1> QED
    BY <1>3, <1>4, <1>5

(* Of a process only its own place changes.                                *)
LEMMA StepStays ==
  ASSUME UsageInv, NEW p \in Procs, NEW job, U!Step(p, job), Holds(job, rollouts, clock),
         RowsFit', marker' \in 0..clock, imported' \in BOOLEAN, doubled' \subseteq Sessions,
         \A s \in Sessions : ({U!Rollout(s), U!Legacy(s)} \subseteq U!Stored)' => s \in doubled'
  PROVE  UsageInv'
  <1>1. /\ syncs' = [syncs EXCEPT ![p] = job] /\ rollouts' = rollouts /\ kept' = kept
        /\ clock' = clock /\ runIndex' = runIndex
    BY DEF U!Step
  <1>2. UsageTyped'
    BY <1>1 DEF UsageInv, UsageTyped
  <1>3. \A q \in Procs : Holds(syncs'[q], rollouts, clock)
    BY <1>1 DEF UsageInv, UsageTyped
  <1> QED
    BY <1>1, <1>2, <1>3 DEF UsageInv

LEMMA OnlyStepStays ==
  ASSUME UsageInv, NEW p \in Procs, NEW job, U!OnlyStep(p, job), Holds(job, rollouts, clock)
  PROVE  UsageInv'
  <1>1. U!Step(p, job) /\ UNCHANGED <<sources, marker, imported, doubled>> /\ rollouts' = rollouts /\ clock' = clock
    BY DEF U!OnlyStep, U!Step
  <1>2. RowsFit'
    BY <1>1 DEF UsageInv, RowsFit
  <1>3. U!Stored' = U!Stored
    BY <1>1 DEF U!Stored
  <1> QED
    BY <1>1, <1>2, <1>3, StepStays DEF UsageInv, UsageTyped

(* The steps that leave the index alone.                                   *)
LEMMA LookingStays ==
  ASSUME UsageInv, NEW p \in Procs,
         \/ U!StartSync(p) \/ U!List(p) \/ U!Parse(p) \/ U!ListRuns(p) \/ U!Fail(p)
         \/ \E s \in Sessions : U!Visit(p, s) \/ U!RecordPrompt(p, s)
         \/ \E x \in Runs : U!StartRun(p, x) \/ U!ReadHistory(p, x)
  PROVE  UsageInv'
  <1> DEFINE j == syncs[p]
  <1>0. /\ Holds(j, rollouts, clock) /\ clock \in Nat \ {0}
        /\ \A s \in Sessions : U!Exists(s) => rollouts[s] \in Texts(clock) /\ Len(rollouts[s]) \in Nat
        /\ U!Shared \subseteq Sessions
    <2>1. ASSUME NEW s \in Sessions, U!Exists(s) PROVE rollouts[s] \in Texts(clock)
      BY <2>1 DEF UsageInv, UsageTyped, U!Exists
    <2>2. \A text \in Texts(clock) : Len(text) \in Nat
      BY DEF Texts
    <2> QED
      BY <2>1, <2>2 DEF UsageInv, UsageTyped, U!Shared
  <1>i. Holds(U!Idle, rollouts, clock)
    BY DEF Holds, Fields, U!Idle
  <1>1. CASE U!StartSync(p)
    <2>1. /\ DOMAIN U!Idle = Fields
          /\ \A todo \in SUBSET Sessions :
                Holds([U!Idle EXCEPT !.does = "sync", !.at = "legacy", !.todo = todo], rollouts, clock)
      BY DEF Holds, Fields, U!Idle
    <2>2. Holds([U!Idle EXCEPT !.does = "sync", !.at = "roots"], rollouts, clock)
      BY DEF Holds, Fields, U!Idle
    <2>3. PICK job : U!OnlyStep(p, job) /\ Holds(job, rollouts, clock)
      BY <1>1, <2>1, <2>2 DEF U!StartSync
    <2> QED
      BY <2>3, OnlyStepStays
  <1>2. CASE U!List(p)
    <2>1. PICK job : /\ U!OnlyStep(p, job)
                     /\ \E known : job = [j EXCEPT !.at = "walk", !.todo = U!Shared, !.known = known]
      BY <1>2 DEF U!List
    <2>2. Holds(job, rollouts, clock)
      BY <1>0, <1>2, <2>1 DEF Holds, Fields, Walks, U!List, U!At
    <2> QED
      BY <2>1, <2>2, OnlyStepStays
  <1>3. CASE U!Parse(p)
    <2>1. j.at = "parse" /\ Reads(j) /\ (There(rollouts, j.of) => j.size <= Len(rollouts[j.of]))
      BY <1>0, <1>3 DEF Holds, U!Parse, U!At
    <2>2. CASE ~U!Exists(j.of)
      BY <1>3, <1>i, <2>2, OnlyStepStays DEF U!Parse
    <2>3. CASE U!Exists(j.of)
      <3> DEFINE job == [j EXCEPT !.at = "store", !.text = rollouts[j.of]]
      <3>1. U!OnlyStep(p, job)
        BY <1>3, <2>3 DEF U!Parse
      <3>2. /\ job.at = "store" /\ job.text = rollouts[j.of] /\ job.of = j.of /\ job.size = j.size
            /\ job.todo = j.todo /\ job.does = j.does /\ DOMAIN job = Fields
        BY <1>0 DEF Holds, Fields
      <3>3. There(rollouts, j.of) /\ rollouts[j.of] \in Texts(clock)
        BY <1>0, <2>1, <2>3 DEF U!Exists, There, Reads
      <3> HIDE DEF job
      <3>4. Holds(job, rollouts, clock)
        BY <2>1, <3>2, <3>3 DEF Holds, Reads, Walks
      <3> QED
        BY <3>1, <3>4, OnlyStepStays
    <2> QED
      BY <2>2, <2>3
  <1>4. CASE U!ListRuns(p)
    <2> DEFINE new == {x \in Runs : runIndex[x] > marker}
               T == {marker} \cup {runIndex[x] : x \in new}
               job == [U!Idle EXCEPT !.does = "run", !.at = "runs", !.todo = new, !.latest = U!Largest(T)]
    <2>1. T \in SUBSET Nat /\ \A t \in T : t <= clock
      BY DEF UsageInv, UsageTyped
    <2>2. IsFiniteSet(T)
      BY <1>0, <2>1, FS_BoundedSetOfNaturals
    <2> HIDE DEF T
    <2>3. U!Largest(T) \in 0..clock
      BY <1>0, <2>1, <2>2, LargestIs
    <2>4. Holds(job, rollouts, clock)
      BY <2>3 DEF Holds, Fields, U!Idle
    <2>5. U!OnlyStep(p, job)
      BY <1>4 DEF U!ListRuns, T
    <2> QED
      BY <2>4, <2>5, OnlyStepStays
  <1>5. CASE U!Fail(p)
    BY <1>5, <1>i, OnlyStepStays DEF U!Fail
  <1>6. ASSUME NEW s \in Sessions, U!Visit(p, s) PROVE UsageInv'
    <2> DEFINE job == [j EXCEPT !.todo = @ \ {s}, !.found = IF U!Exists(s) THEN @ \cup {s} ELSE @]
               reads == [job EXCEPT !.at = "parse", !.of = s, !.size = Len(rollouts[s])]
    <2>1. j.at = "walk" /\ s \in j.todo /\ Walks(j) /\ DOMAIN j = Fields
      BY <1>0, <1>6 DEF Holds, U!Visit, U!At
    <2>2. DOMAIN job = Fields /\ job.at = "walk" /\ job.does = "sync" /\ job.todo \subseteq U!Shared
      BY <2>1 DEF Fields, Walks
    <2>3. Holds(job, rollouts, clock)
      BY <2>2 DEF Holds, Walks
    <2>4. ASSUME U!Exists(s) PROVE Holds(reads, rollouts, clock)
      <3> HIDE DEF job
      <3>1. /\ DOMAIN reads = Fields /\ reads.at = "parse" /\ reads.of = s /\ reads.size = Len(rollouts[s])
            /\ reads.does = "sync" /\ reads.todo \subseteq U!Shared
        BY <2>2 DEF Fields
      <3> HIDE DEF reads
      <3>2. s \in U!Shared /\ Len(rollouts[s]) \in Nat
        BY <1>0, <2>1, <2>4 DEF Walks
      <3> QED
        BY <3>1, <3>2 DEF Holds, Reads, Walks
    <2>5. U!OnlyStep(p, job) \/ (U!Exists(s) /\ U!OnlyStep(p, reads))
      BY <1>6 DEF U!Visit
    <2> HIDE DEF job, reads
    <2> QED
      BY <2>3, <2>4, <2>5, OnlyStepStays
  <1>7. ASSUME NEW s \in Sessions, U!RecordPrompt(p, s) PROVE UsageInv'
    <2> DEFINE reads == [U!Idle EXCEPT !.does = "record", !.at = "parse", !.of = s, !.size = Len(rollouts[s])]
    <2>1. U!OnlyStep(p, reads) /\ U!Exists(s) /\ Len(rollouts[s]) \in Nat
      BY <1>0, <1>7 DEF U!RecordPrompt
    <2>2. /\ DOMAIN reads = Fields /\ reads.at = "parse" /\ reads.of = s /\ reads.size = Len(rollouts[s])
          /\ reads.does = "record"
      BY DEF Fields, U!Idle
    <2> HIDE DEF reads
    <2>3. Holds(reads, rollouts, clock)
      BY <2>1, <2>2 DEF Holds, Reads
    <2> QED
      BY <2>1, <2>3, OnlyStepStays
  <1>8. ASSUME NEW x \in Runs, U!StartRun(p, x) PROVE UsageInv'
    <2> DEFINE job == [U!Idle EXCEPT !.does = "run", !.at = "runs", !.todo = {x}, !.latest = runIndex[x]]
    <2>1. Holds(job, rollouts, clock)
      BY DEF Holds, Fields, U!Idle, UsageInv, UsageTyped
    <2> QED
      BY <1>8, <2>1, OnlyStepStays DEF U!StartRun
  <1>9. ASSUME NEW x \in Runs, U!ReadHistory(p, x) PROVE UsageInv'
    <2> DEFINE job == [j EXCEPT !.todo = @ \ {x}]
               reads == [job EXCEPT !.at = "history", !.of = x, !.text = U!RunPayload(x)]
    <2>1. j.at = "runs" /\ DOMAIN j = Fields /\ j.todo \subseteq Runs /\ j.latest \in 0..clock
      BY <1>0, <1>9 DEF Holds, U!ReadHistory, U!At
    <2>2. DOMAIN job = Fields /\ job.at = "runs" /\ job.todo \subseteq Runs /\ job.latest \in 0..clock
      BY <2>1 DEF Fields
    <2>3. Holds(job, rollouts, clock)
      BY <2>2 DEF Holds
    <2>4. Holds(reads, rollouts, clock)
      <3> HIDE DEF job
      <3>1. /\ DOMAIN reads = Fields /\ reads.at = "history" /\ reads.of = x /\ reads.text = U!RunPayload(x)
            /\ reads.todo \subseteq Runs /\ reads.latest \in 0..clock
        BY <2>2 DEF Fields
      <3> HIDE DEF reads
      <3>k. DOMAIN kept[x] \subseteq Owned(x) /\ \A s \in DOMAIN kept[x] : kept[x][s] \in Texts(clock)
        BY DEF UsageInv, UsageTyped, KeptFits
      <3>2. DOMAIN U!RunPayload(x) \subseteq Owned(x)
        BY <3>k DEF U!RunPayload, U!InSandbox, Owned
      <3>3. ASSUME NEW s \in DOMAIN U!RunPayload(x) PROVE Chart(U!RunPayload(x)[s], clock)
        <4>1. CASE DOMAIN kept[x] # {}
          <5>1. s \in DOMAIN kept[x] /\ U!RunPayload(x)[s] = U!Checkpoints(kept[x][s])
            BY <4>1 DEF U!RunPayload
          <5> QED
            BY <1>0, <3>k, <5>1, CheckpointsChart
        <4>2. CASE DOMAIN kept[x] = {}
          <5>1. s \in Sessions /\ U!Exists(s) /\ U!RunPayload(x)[s] = U!Checkpoints(rollouts[s])
            BY <4>2 DEF U!RunPayload, U!InSandbox
          <5> QED
            BY <1>0, <5>1, CheckpointsChart
        <4> QED
          BY <4>1, <4>2
      <3> QED
        BY <3>1, <3>2, <3>3 DEF Holds
    <2>5. U!OnlyStep(p, job) \/ U!OnlyStep(p, reads)
      BY <1>9 DEF U!ReadHistory
    <2> HIDE DEF job, reads
    <2> QED
      BY <2>3, <2>4, <2>5, OnlyStepStays
  <1> QED
    BY <1>1, <1>2, <1>3, <1>4, <1>5, <1>6, <1>7, <1>8, <1>9

(* The steps that write the index.                                         *)
LEMMA WritingStays ==
  ASSUME UsageInv, NEW p \in Procs,
         \/ U!Imported(p) \/ U!Mark(p) \/ U!Store(p) \/ U!Prune(p) \/ U!ReplaceHistory(p)
         \/ \E s \in Sessions : U!ImportOne(p, s)
  PROVE  UsageInv'
  <1> DEFINE j == syncs[p]
  <1>0. /\ Holds(j, rollouts, clock) /\ clock \in Nat \ {0} /\ U!Shared \subseteq Sessions
        /\ marker \in 0..clock /\ imported \in BOOLEAN /\ doubled \subseteq Sessions
        /\ DOMAIN sources = U!Keys
        /\ \A s \in Sessions : RolloutRow(s, sources[U!Rollout(s)], rollouts, clock)
        /\ \A s \in Sessions : LegacyRow(s, sources[U!Legacy(s)], clock)
        /\ \A x \in Runs : HistoryRow(x, sources[U!History(x)], clock)
        /\ \A s \in Sessions : {U!Rollout(s), U!Legacy(s)} \subseteq U!Stored => s \in doubled
    BY DEF UsageInv, UsageTyped, RowsFit, U!Shared
  <1>k. /\ \A s \in Sessions : U!Rollout(s) \in U!Keys
        /\ \A s \in Sessions : U!Legacy(s) \in U!Keys
        /\ \A x \in Runs : U!History(x) \in U!Keys
    BY DEF U!Keys
  <1>1. CASE U!Imported(p)
    <2> DEFINE job == U!Go(p, "roots")
    <2>1. /\ U!Step(p, job) /\ UNCHANGED <<sources, marker, doubled>> /\ imported' = TRUE
          /\ rollouts' = rollouts /\ clock' = clock
      BY <1>1 DEF U!Imported, U!Step
    <2>2. Holds(job, rollouts, clock)
      BY <1>0, <1>1 DEF Holds, Fields, U!Go, U!Imported, U!At
    <2>3. RowsFit' /\ U!Stored' = U!Stored
      BY <2>1 DEF UsageInv, RowsFit, U!Stored
    <2> QED
      BY <1>0, <2>1, <2>2, <2>3, StepStays
  <1>2. CASE U!Mark(p)
    <2>1. /\ U!Step(p, U!Idle) /\ UNCHANGED <<sources, imported, doubled>> /\ marker' = j.latest
          /\ rollouts' = rollouts /\ clock' = clock /\ j.latest \in 0..clock
      BY <1>0, <1>2 DEF U!Mark, U!Step, U!At, Holds
    <2>2. Holds(U!Idle, rollouts, clock)
      BY DEF Holds, Fields, U!Idle
    <2>3. RowsFit' /\ U!Stored' = U!Stored
      BY <2>1 DEF UsageInv, RowsFit, U!Stored
    <2> QED
      BY <1>0, <2>1, <2>2, <2>3, StepStays
  <1>3. ASSUME NEW s \in Sessions, U!ImportOne(p, s) PROVE UsageInv'
    <2> DEFINE job == [j EXCEPT !.todo = @ \ {s}]
               row == U!Row(None, 0, [x \in {s} |-> <<>>])
    <2>1. /\ U!Step(p, job) /\ UNCHANGED <<marker, imported>> /\ rollouts' = rollouts /\ clock' = clock
          /\ sources' = [sources EXCEPT ![U!Legacy(s)] = row]
          /\ doubled' = IF U!Rollout(s) \in U!Stored THEN doubled \cup {s} ELSE doubled
          /\ j.at = "legacy"
      BY <1>0, <1>3 DEF U!ImportOne, U!Step, U!At
    <2>2. Holds(job, rollouts, clock)
      BY <1>0, <2>1 DEF Holds, Fields
    <2>3. LegacyRow(s, row, clock)
      <3>1. row.run = None /\ row.sessions = [x \in {s} |-> <<>>]
        BY DEF U!Row
      <3>2. DOMAIN row.sessions = {s} /\ row.sessions[s] = <<>>
        BY <3>1
      <3>3. Chart(<<>>, clock)
        BY DEF Chart
      <3> QED
        BY <3>1, <3>2, <3>3 DEF LegacyRow, Charts
    <2> HIDE DEF job, row
    <2>4. RowsFit'
      <3>1. sources' = [k \in U!Keys |-> sources'[k]]
        BY <1>0, <2>1
      <3>2. \A k \in U!Keys : sources'[k] = IF k = U!Legacy(s) THEN row ELSE sources[k]
        BY <1>0, <2>1
      <3> QED
        BY <1>0, <1>k, <2>1, <2>3, <3>1, <3>2, KeysApart DEF RowsFit
    <2>5. \A x \in Sessions : ({U!Rollout(x), U!Legacy(x)} \subseteq U!Stored)' => x \in doubled'
      BY <1>0, <1>k, <2>1, KeysApart DEF U!Stored
    <2> QED
      BY <1>0, <2>1, <2>2, <2>4, <2>5, StepStays
  <1>4. CASE U!Store(p)
    <2> DEFINE s == j.of
               row == U!Row(IF j.does = "record" THEN Owner[s] ELSE None, j.size, U!RolloutPayload(s, j.text))
               goes == [j EXCEPT !.at = "walk", !.of = None, !.size = 0, !.text = <<>>]
               job == IF j.does = "record" THEN U!Idle ELSE goes
    <2>1. /\ U!Step(p, job) /\ UNCHANGED <<marker, imported>> /\ rollouts' = rollouts /\ clock' = clock
          /\ sources' = [k \in U!Keys |-> IF k = U!Rollout(s) THEN row
                                          ELSE IF k = U!Legacy(s) THEN None ELSE sources[k]]
          /\ doubled' = doubled \ {s}
      BY <1>4 DEF U!Store, U!Step
    <2>2. /\ Reads(j) /\ j.text \in Texts(clock) /\ j.size <= Len(j.text)
          /\ There(rollouts, s) => /\ Len(j.text) <= Len(rollouts[s])
                                   /\ Len(j.text) = Len(rollouts[s]) => j.text = rollouts[s]
      BY <1>0, <1>4 DEF Holds, U!Store, U!At
    <2>3. Holds(job, rollouts, clock)
      <3>1. Holds(U!Idle, rollouts, clock)
        BY DEF Holds, Fields, U!Idle
      <3>2. ASSUME j.does # "record" PROVE Holds(goes, rollouts, clock)
        <4>1. DOMAIN goes = Fields /\ goes.at = "walk" /\ goes.does = j.does /\ goes.todo = j.todo
          BY <1>0 DEF Holds, Fields
        <4> HIDE DEF goes
        <4> QED
          BY <2>2, <3>2, <4>1 DEF Holds, Reads, Walks
      <3> HIDE DEF goes
      <3> QED
        BY <3>1, <3>2
    <2>4. RolloutRow(s, row, rollouts, clock)
      <3>1. /\ row.run = IF j.does = "record" THEN Owner[s] ELSE None
            /\ row.size = j.size /\ row.sessions = [x \in {s} |-> U!Checkpoints(j.text)]
        BY DEF U!Row, U!RolloutPayload
      <3>2. DOMAIN row.sessions = {s} /\ row.sessions[s] = U!Checkpoints(j.text)
        BY <3>1
      <3>3. row.run = Owner[s] /\ row.size \in Nat
        BY <2>2, <3>1 DEF Reads, U!Shared
      <3>4. Charts(row, clock)
        BY <1>0, <2>2, <3>2, CheckpointsChart DEF Charts
      <3>5. There(rollouts, s) => /\ row.size <= Len(rollouts[s])
                                  /\ row.size = Len(rollouts[s]) => row.sessions[s] = U!Checkpoints(rollouts[s])
        <4>1. ASSUME There(rollouts, s) PROVE Len(rollouts[s]) \in Nat
          BY <2>2, <4>1 DEF UsageInv, UsageTyped, Texts, There, Reads
        <4>2. Len(j.text) \in Nat /\ row.size \in Nat /\ row.size <= Len(j.text)
          BY <2>2, <3>1, <3>3 DEF Texts
        <4> HIDE DEF row
        <4> QED
          BY <2>2, <3>2, <4>1, <4>2
      <3> HIDE DEF row
      <3> QED
        BY <3>2, <3>3, <3>4, <3>5 DEF RolloutRow
    <2> HIDE DEF job, row
    <2>5. s \in Sessions
      BY <2>2 DEF Reads
    <2>6. RowsFit'
      <3>1. sources' = [k \in U!Keys |-> sources'[k]]
        BY <2>1
      <3>2. \A x \in Sessions : RolloutRow(x, sources'[U!Rollout(x)], rollouts, clock)
        BY <1>0, <1>k, <2>1, <2>4, KeysApart
      <3>3. \A x \in Sessions : LegacyRow(x, sources'[U!Legacy(x)], clock)
        BY <1>0, <1>k, <2>1, KeysApart DEF LegacyRow
      <3>4. \A x \in Runs : HistoryRow(x, sources'[U!History(x)], clock)
        BY <1>0, <1>k, <2>1, KeysApart
      <3> QED
        BY <2>1, <3>1, <3>2, <3>3, <3>4 DEF RowsFit
    <2>7. \A x \in Sessions : ({U!Rollout(x), U!Legacy(x)} \subseteq U!Stored)' => x \in doubled'
      BY <1>0, <1>k, <2>1, KeysApart DEF U!Stored
    <2> QED
      BY <1>0, <2>1, <2>3, <2>6, <2>7, StepStays
  <1>5. CASE U!Prune(p)
    <2>1. PICK s \in U!Lost(p) :
            /\ sources' = [sources EXCEPT ![U!Rollout(s)] = None]
            /\ U!Step(p, [j EXCEPT !.known = {x \in @ : x[1] # s}])
      BY <1>5 DEF U!Prune
    <2> DEFINE job == [j EXCEPT !.known = {x \in @ : x[1] # s}]
    <2>2. /\ U!Step(p, job) /\ UNCHANGED <<marker, imported, doubled>> /\ rollouts' = rollouts /\ clock' = clock
          /\ j.at = "walk"
      BY <1>5, <2>1 DEF U!Prune, U!Step, U!At
    <2>3. Holds(job, rollouts, clock)
      BY <1>0, <2>2 DEF Holds, Fields, Walks
    <2> HIDE DEF job
    <2>4. \A k \in U!Keys : sources'[k] = IF k = U!Rollout(s) THEN None ELSE sources[k]
      BY <1>0, <2>1
    <2>5. RowsFit'
      <3>1. sources' = [k \in U!Keys |-> sources'[k]]
        BY <1>0, <2>1
      <3> QED
        BY <1>0, <1>k, <2>2, <2>4, <3>1, KeysApart DEF RowsFit, RolloutRow
    <2>6. \A x \in Sessions : ({U!Rollout(x), U!Legacy(x)} \subseteq U!Stored)' => x \in doubled'
      BY <1>0, <1>k, <2>2, <2>4, KeysApart DEF U!Stored
    <2> QED
      BY <1>0, <2>2, <2>3, <2>5, <2>6, StepStays
  <1>6. CASE U!ReplaceHistory(p)
    <2> DEFINE x == j.of
               row == IF DOMAIN j.text = {} THEN None ELSE U!Row(x, 0, j.text)
               job == [j EXCEPT !.at = "runs", !.of = None, !.text = <<>>]
    <2>1. /\ U!Step(p, job) /\ UNCHANGED <<marker, imported, doubled>> /\ rollouts' = rollouts /\ clock' = clock
          /\ sources' = [sources EXCEPT ![U!History(x)] = row]
          /\ j.at = "history"
      BY <1>6 DEF U!ReplaceHistory, U!Step, U!At
    <2>2. /\ j.todo \subseteq Runs /\ j.latest \in 0..clock
          /\ x \in Runs /\ DOMAIN j.text \subseteq Owned(x)
          /\ \A s \in DOMAIN j.text : Chart(j.text[s], clock)
      BY <1>0, <2>1 DEF Holds
    <2>3. Holds(job, rollouts, clock)
      <3>1. DOMAIN job = Fields /\ job.at = "runs" /\ job.todo = j.todo /\ job.latest = j.latest
        BY <1>0 DEF Holds, Fields
      <3> HIDE DEF job
      <3> QED
        BY <2>2, <3>1 DEF Holds
    <2>4. HistoryRow(x, row, clock)
      BY <2>2 DEF HistoryRow, U!Row, Charts
    <2> HIDE DEF job, row
    <2>5. \A k \in U!Keys : sources'[k] = IF k = U!History(x) THEN row ELSE sources[k]
      BY <1>0, <2>1
    <2>6. RowsFit'
      <3>1. sources' = [k \in U!Keys |-> sources'[k]]
        BY <1>0, <2>1
      <3> QED
        BY <1>0, <1>k, <2>1, <2>4, <2>5, <3>1, KeysApart DEF RowsFit
    <2>7. \A s \in Sessions : ({U!Rollout(s), U!Legacy(s)} \subseteq U!Stored)' => s \in doubled'
      BY <1>0, <1>k, <2>1, <2>5, KeysApart DEF U!Stored
    <2> QED
      BY <1>0, <2>1, <2>3, <2>6, <2>7, StepStays
  <1> QED
    BY <1>1, <1>2, <1>3, <1>4, <1>5, <1>6

LEMMA UsageStays == UsageInv /\ [U!Next]_(U!usageVars) => UsageInv'
  <1>1. ASSUME UsageInv, U!Next PROVE UsageInv'
    BY <1>1, LookingStays, WritingStays, OthersStay, ReportStays DEF U!Next, U!Process
  <1>2. ASSUME UsageInv, UNCHANGED U!usageVars PROVE UsageInv'
    BY <1>2 DEF UsageInv, UsageTyped, RowsFit, U!usageVars, U!Stored
  <1> QED
    BY <1>1, <1>2

(* What follows of what is in the index.                                   *)
LEMMA UsageTypes == UsageInv => U!TypeOK
  <1> SUFFICES ASSUME UsageInv PROVE U!TypeOK
    OBVIOUS
  <1>1. ASSUME NEW k \in U!Stored
        PROVE  /\ sources[k].run \in Runs \cup {None}
               /\ DOMAIN sources[k].sessions \in (SUBSET Sessions) \ {{}}
    <2>0. \A s \in Sessions : {s} \in (SUBSET Sessions) \ {{}}
      OBVIOUS
    <2>1. k \in U!Keys /\ sources[k] # None
      BY DEF U!Stored
    <2>2. CASE \E s \in Sessions : k = U!Rollout(s)
      <3>1. PICK s \in Sessions : k = U!Rollout(s)
        BY <2>2
      <3>2. sources[k].run = Owner[s] /\ DOMAIN sources[k].sessions = {s}
        BY <2>1, <3>1 DEF UsageInv, RowsFit, RolloutRow
      <3> QED
        BY <2>0, <3>2, UsageAssumption DEF U!UsageBounds
    <2>3. CASE \E s \in Sessions : k = U!Legacy(s)
      <3>1. PICK s \in Sessions : k = U!Legacy(s)
        BY <2>3
      <3>2. sources[k].run = None /\ DOMAIN sources[k].sessions = {s} /\ s \in Sessions
        BY <2>1, <3>1 DEF UsageInv, RowsFit, LegacyRow, U!Shared
      <3> QED
        BY <2>0, <3>2
    <2>4. CASE \E x \in Runs : k = U!History(x)
      <3>1. PICK x \in Runs : k = U!History(x)
        BY <2>4
      <3>2. /\ sources[k].run = x /\ DOMAIN sources[k].sessions \subseteq Sessions
            /\ DOMAIN sources[k].sessions # {}
        BY <2>1, <3>1 DEF UsageInv, RowsFit, HistoryRow, Owned
      <3> HIDE DEF U!Stored
      <3> QED
        BY <3>2
    <2> QED
      BY <2>1, <2>2, <2>3, <2>4 DEF U!Keys
  <1> QED
    BY <1>1 DEF UsageInv, UsageTyped, U!TypeOK

(* The row that reports count of a session.                                *)
LEMMA CountedRows ==
  ASSUME UsageInv, NEW e \in U!Entries
  PROVE  /\ e[1] \in U!Stored /\ e[2] \in Sessions /\ e = <<e[1], e[2]>>
         /\ e[2] \in DOMAIN sources[e[1]].sessions /\ Chart(U!Deltas(e), clock)
         /\ \/ e[1] = U!Rollout(e[2])
            \/ e[1] = U!Legacy(e[2])
            \/ /\ Owner[e[2]] \in Runs /\ e[1] = U!History(Owner[e[2]])
               /\ ~U!HasRollout(Owner[e[2]])
  <1>1. /\ e \in U!Keys \X Sessions /\ U!Effective(e[1]) /\ e[2] \in DOMAIN sources[e[1]].sessions
        /\ e[1] \in U!Stored /\ sources[e[1]] # None
    BY DEF U!Entries, U!Effective, U!Stored
  <1>2. Charts(sources[e[1]], clock)
    <2> DEFINE row == sources[e[1]]
    <2>1. /\ \A s \in Sessions : e[1] = U!Rollout(s) => RolloutRow(s, row, rollouts, clock)
          /\ \A s \in Sessions : e[1] = U!Legacy(s) => LegacyRow(s, row, clock)
          /\ \A x \in Runs : e[1] = U!History(x) => HistoryRow(x, row, clock)
      BY DEF UsageInv, RowsFit
    <2>2. \/ \E s \in Sessions : e[1] = U!Rollout(s)
          \/ \E s \in Sessions : e[1] = U!Legacy(s)
          \/ \E x \in Runs : e[1] = U!History(x)
      BY <1>1 DEF U!Keys
    <2>3. row # None
      BY <1>1
    <2> HIDE DEF row
    <2>4. Charts(row, clock)
      BY <2>1, <2>2, <2>3 DEF RolloutRow, LegacyRow, HistoryRow
    <2> QED
      BY <2>4 DEF row
  <1>3. CASE \E s \in Sessions : e[1] = U!Rollout(s)
    <2>1. PICK s \in Sessions : e[1] = U!Rollout(s)
      BY <1>3
    <2>2. e[2] = s
      BY <1>1, <2>1 DEF UsageInv, RowsFit, RolloutRow
    <2> QED
      BY <1>1, <1>2, <2>1, <2>2 DEF Charts, U!Deltas
  <1>4. CASE \E s \in Sessions : e[1] = U!Legacy(s)
    <2>1. PICK s \in Sessions : e[1] = U!Legacy(s)
      BY <1>4
    <2>2. e[2] = s
      BY <1>1, <2>1 DEF UsageInv, RowsFit, LegacyRow
    <2> QED
      BY <1>1, <1>2, <2>1, <2>2 DEF Charts, U!Deltas
  <1>5. CASE \E x \in Runs : e[1] = U!History(x)
    <2>1. PICK x \in Runs : e[1] = U!History(x)
      BY <1>5
    <2>2. sources[e[1]].run = x /\ Owner[e[2]] = x
      BY <1>1, <2>1 DEF UsageInv, RowsFit, HistoryRow, Owned
    <2>3. x # None /\ e[1][1] # "rollout"
      BY <2>1, UsageAssumption DEF U!UsageBounds, U!History
    <2>4. ~U!HasRollout(x)
      BY <1>1, <2>2, <2>3 DEF U!Effective
    <2> QED
      BY <1>1, <1>2, <2>1, <2>2, <2>4 DEF Charts, U!Deltas
  <1> QED
    BY <1>1, <1>3, <1>4, <1>5 DEF U!Keys

LEMMA UsageCountsOnce == UsageInv => U!CountedOnce
  <1> SUFFICES ASSUME UsageInv, NEW s \in Sessions \ doubled
               PROVE  \/ U!Cardinality(U!Counting(s)) <= 1
                      \/ U!Counting(s) = {U!Legacy(s), U!History(Owner[s])}
    BY DEF U!CountedOnce
  <1> DEFINE C == U!Counting(s)
  <1>1. \A k \in C :
          /\ k \in U!Stored
          /\ \/ k = U!Rollout(s) \/ k = U!Legacy(s)
             \/ Owner[s] \in Runs /\ k = U!History(Owner[s]) /\ ~U!HasRollout(Owner[s])
    <2>1. ASSUME NEW k \in C PROVE <<k, s>> \in U!Entries
      <3>1. k \in U!Keys /\ U!Effective(k) /\ s \in DOMAIN sources[k].sessions
        BY DEF U!Counting
      <3> QED
        BY <3>1 DEF U!Entries
    <2> QED
      BY <2>1, CountedRows
  <1>2. ~({U!Rollout(s), U!Legacy(s)} \subseteq U!Stored)
    BY DEF UsageInv
  <1>3. U!Rollout(s) \in U!Stored => U!HasRollout(Owner[s])
    BY DEF U!HasRollout, UsageInv, RowsFit, RolloutRow, U!Stored
  <1> HIDE DEF C
  <1>4. CASE U!Legacy(s) \in C /\ U!History(Owner[s]) \in C
    <2>1. C = {U!Legacy(s), U!History(Owner[s])}
      BY <1>1, <1>2, <1>4
    <2> QED
      BY <2>1 DEF C
  <1>5. CASE ~(U!Legacy(s) \in C /\ U!History(Owner[s]) \in C)
    <2>0. ASSUME NEW k \in C, NEW m \in C PROVE k = m
      BY <1>1, <1>2, <1>3, <1>5
    <2>1. C = {} \/ \E k : C = {k}
      BY <2>0
    <2>2. Cardinality(C) <= 1
      <3>1. Cardinality(C) = 0 \/ Cardinality(C) = 1
        BY <2>1, FS_EmptySet, FS_Singleton
      <3> QED
        BY <3>1
    <2>3. U!Cardinality(C) = Cardinality(C)
      BY DEF U!Cardinality, Cardinality
    <2> QED
      BY <2>2, <2>3 DEF C
  <1> QED
    BY <1>4, <1>5

LEMMA UsageSizesTell == UsageInv => U!SizeTells
  BY DEF UsageInv, RowsFit, RolloutRow, U!SizeTells, U!Stored, U!Exists, There

LEMMA UsageAddsUp == UsageInv => U!WindowAddsUp
  <1> SUFFICES ASSUME UsageInv, NEW from \in 1..clock, NEW e \in DOMAIN U!WindowRecords(from)
               PROVE  U!WindowRecords(from)[e] = Peak(U!Deltas(e), clock) - Peak(U!Deltas(e), from - 1)
    BY DEF U!WindowAddsUp, Peak
  <1>1. e \in U!Entries /\ U!WindowRecords(from)[e] = U!Used(e, from..clock)
    BY DEF U!WindowRecords
  <1>2. U!Used(e, from..clock) = Spent(U!Deltas(e), from, clock)
    BY DEF U!Used, Spent, Sum
  <1>3. Chart(U!Deltas(e), clock) /\ clock \in Nat /\ from \in Nat \ {0} /\ from <= clock
    BY <1>1, CountedRows DEF UsageInv, UsageTyped
  <1> QED
    BY <1>1, <1>2, <1>3, SpentIsRise
-----------------------------------------------------------------------------
(***************************************************************************)
(* The stores together                                                     *)
(***************************************************************************)
LEMMA Together ==
  /\ MCInit => Init /\ Schema!Init /\ P!Init /\ U!Init
  /\ [MCNext]_allVars =>
       /\ [Next]_vars /\ [Schema!Next]_(Schema!vars) /\ [P!Next]_(P!vars)
       /\ [U!Next]_(U!usageVars)
  <1>1. MCInit => Init /\ Schema!Init /\ P!Init /\ U!Init
    BY SameFindings DEF MCInit, NoFindings, NoUsage
  <1>2. ASSUME MCNext \/ UNCHANGED allVars PROVE [Next]_vars
    BY <1>2 DEF MCNext, Aside, allVars
  <1>3. ASSUME MCNext \/ UNCHANGED allVars PROVE [Schema!Next]_(Schema!vars)
    BY <1>3 DEF MCNext, Aside, allVars, fileVars, Schema!vars, Schema!file,
       Schema!archives
  <1>4. ASSUME MCNext \/ UNCHANGED allVars PROVE [P!Next]_(P!vars)
    BY <1>4, SameFindings DEF MCNext, Aside, allVars, findingVars, P!vars
  <1>5. ASSUME MCNext \/ UNCHANGED allVars PROVE [U!Next]_(U!usageVars)
    BY <1>5 DEF MCNext, Aside, allVars, usageVars, U!usageVars
  <1> QED
    BY <1>1, <1>2, <1>3, <1>4, <1>5

LEMMA FileInvariant == MCSpec => []FileInv
  BY FileBegins, FileStays, Together, PTL DEF MCSpec

(* Whatever processes open the database for writing, repair or trim it at  *)
(* the same time and die in between: an open that returned has a complete  *)
(* file of the current version, a repair that returned has nothing left to *)
(* repair (bootstrapLocalWorkDB, repairLocalWorkDB).                       *)
THEOREM OpensAreComplete == MCSpec => []OpensComplete
  <1>1. MCSpec => []IInv
    BY Initially, Inductive, Together, PTL DEF MCSpec
  <1>2. IInv /\ FileInv => OpensComplete
    BY FileImplies DEF IInv, OpensComplete
  <1> QED
    BY <1>1, <1>2, FileInvariant, PTL

(* A pause survives the rebuild of the database, and the row of a usage    *)
(* source is deleted only once an archive has what it held at that moment, *)
(* whatever was indexed since it was collected, or because the source's    *)
(* file is gone; the archive stays, unless another of the same second      *)
(* replaces it (migrateLegacyLocalWorkDB, archiveAndTrimUsageData).        *)
THEOREM NoDataLost == MCSpec => NothingLost
  BY FileInvariant, KeepsData, Together, PTL
     DEF MCSpec, NothingLost, Schema!NothingLost

(* A behaviour of the stores is one of the findings.                       *)
LEMMA FindingsBehave == MCSpec => P!Spec
  BY Together, PTL DEF MCSpec, P!Spec

LEMMA SameBounds == P!FindingsBounds
  BY FindingsAssumption DEF F!FindingsBounds, P!FindingsBounds, F!Keys, P!Keys,
     F!Finding, P!Finding, F!Statuses, P!Statuses

(* The findings have their types, one planned item each, and three         *)
(* readings bring them in line with the report, unless two of its          *)
(* artifacts tell one item differently: then what it no longer reports     *)
(* stays open (promoteStartWorkFinding, normalizeStartWorkStateFindings).  *)
THEOREM FindingsAgree == MCSpec => []FindingsInLine
  <1>1. MCSpec => [](P!TypeOK /\ P!OneTaskEach /\ P!ReadsConverge)
    BY SameBounds, FindingsBehave, P!TypeCorrect, P!OnePlannedItem,
       P!ThreeReadsSuffice, PTL
  <1>2. P!TypeOK => F!TypeOK
    BY DEF P!TypeOK, F!TypeOK, P!Artifacts, F!Artifacts, P!Keys, F!Keys,
       P!Finding, F!Finding, P!Statuses, F!Statuses
  <1>3. P!OneTaskEach => F!OneTaskEach
    <2>1. ASSUME NEW S PROVE P!Cardinality(S) = F!Cardinality(S)
      BY DEF P!Cardinality, F!Cardinality
    <2> QED
      BY <2>1 DEF P!OneTaskEach, F!OneTaskEach, P!Keys, F!Keys
  <1>4. P!ReadsConverge => F!ReadsConverge
    BY SameNormal DEF P!ReadsConverge, F!ReadsConverge, P!InLine, F!InLine
  <1> QED
    BY <1>1, <1>2, <1>3, <1>4, PTL DEF FindingsInLine

(* What the user has dismissed is neither opened again nor given a planned *)
(* item by reports, syncs, retention or imports, unless an old copy was    *)
(* written or it was purged (upsertStartWorkFinding).                      *)
THEOREM DismissalsStand == MCSpec => DismissalStands
  <1> DEFINE Stood(k, A) ==
        disk.find[k] # None /\ disk.find[k].status \in P!Closed =>
          \/ /\ disk'.find[k] # None /\ disk'.find[k].status \in P!Closed
             /\ disk'.made[k] = disk.made[k]
          \/ A \/ stale' \/ k \in purged'
  <1>1. [\A k \in P!Keys : Stood(k, P!Promote(k))]_(P!vars)
          => [\A k \in F!Keys : Stood(k, F!Promote(k))]_(F!vars)
    BY SameFindings DEF P!Keys, F!Keys, P!vars, F!vars
  <1>2. P!DismissalStands => F!DismissalStands
    BY <1>1, PTL DEF P!DismissalStands, F!DismissalStands, P!Closed, F!Closed
  <1> QED
    BY <1>2, SameBounds, FindingsBehave, P!DismissedStaysDismissed
       DEF DismissalStands

(* However a session comes into the index, as a rollout, through its run   *)
(* or from the old index, and whichever processes sync at the same time,   *)
(* reports count it once, but for a run's session that the old index and   *)
(* the run's history both have, and one that was imported while a prompt   *)
(* recorded it; a row that has the size of its file has what the file      *)
(* says; and what a window reports of a session is by how much it exceeded *)
(* its earlier totals (syncUsageSQLite, usageSQLiteCheckpointSpecs,        *)
(* queryWindowedUsageRecords).                                             *)
THEOREM SessionsAddUp == MCSpec => []SessionsCounted
  <1>1. UsageInv => SessionsCounted
    BY UsageTypes, UsageCountsOnce, UsageSizesTell, UsageAddsUp DEF SessionsCounted
  <1> QED
    BY <1>1, UsageBegins, UsageStays, Together, PTL DEF MCSpec
=============================================================================
