------------------------------- MODULE WorkDB -------------------------------
(***************************************************************************)
(* Writes to the local work database (internal/gocli/work_db_proxy.go, the *)
(* open and retry code of work_db.go and work_local.go).                   *)
(*                                                                         *)
(* A client is one call of withLocalWorkWriteStore whose write function    *)
(* opens a transaction, reads, writes two rows and commits.  It talks to   *)
(* SQLite itself, or, when the socket of a supervisor is present, to a     *)
(* session of that supervisor, one request at a time.  Either way the      *)
(* session's steps are the same; "host" says in whose process they run.    *)
(* SQLite is external: WAL mode, one writer, deferred transactions, and a  *)
(* lock error when the writer's lock is taken or the snapshot is old.      *)
(***************************************************************************)
EXTENDS Integers, FiniteSets, Sequences

CONSTANTS Clients,      \* calls of withLocalWorkWriteStore
          Sups,         \* processes that may run the proxy's supervisor
          None,         \* no client, no supervisor
          Self,         \* the host of a direct connection
          Stale,        \* a socket file nobody listens on
          Home,         \* the process a client runs in, or None: its own
          Attempts,     \* localWorkWriteRetryAttempts
          MaxLaunches   \* bound on the supervisors started

Rows == {1, 2}

ASSUME NoneAssumption == None \notin Clients \cup Sups
ASSUME HomeAssumption == Home \in [Clients -> Sups \cup {None}]
ASSUME HostAssumption == {Self, Stale} \cap (Sups \cup {None}) = {} /\ Self # Stale
ASSUME AttemptsAssumption == Attempts \in Nat \ {0} /\ MaxLaunches \in Nat

VARIABLES
  db,        \* the committed rows
  lock,      \* the session that holds SQLite's write lock, or None
  sess,      \* of each client's session: "none", "open", "tx"
  wrote,     \* the rows its open transaction has written
  snap,      \* its snapshot: "none", "fresh", "old"
  host,      \* where its session runs: None, Self or a supervisor
  pc,        \* where each call is
  rep,       \* the answer to its request: "none", "sent", "ok", "busy", "error"
  tries,     \* attempts made
  dead,      \* the calls whose process died
  verdict,   \* what the attempt will return: "ok", "busy", "error"
  up,        \* each supervisor: "down", "stale", "remove", "listen", "active",
             \* "closing"
  socket,    \* the socket file: None, Stale, or the supervisor listening on it
  launches,
  applied, outcome   \* history: committed calls and what calls returned

sqlite == <<db, lock, sess, wrote, snap, applied>>
client == <<host, pc, rep, tries, dead, verdict, outcome>>
sups == <<up, socket, launches>>
vars == <<sqlite, client, sups>>

(* The requests of a call, in order.                                       *)
Script == <<"ping", "begin", "query", "exec1", "exec2", "commit">>
Ops == {Script[i] : i \in 1..Len(Script)} \cup {"rollback", "close"}
Following(op) == IF op = "commit" THEN "close"
                 ELSE Script[(CHOOSE i \in 1..Len(Script) : Script[i] = op) + 1]

Init ==
  /\ db = [r \in Rows |-> None] /\ lock = None
  /\ sess = [c \in Clients |-> "none"]
  /\ wrote = [c \in Clients |-> {}] /\ snap = [c \in Clients |-> "none"]
  /\ host = [c \in Clients |-> None] /\ pc = [c \in Clients |-> "open"]
  /\ rep = [c \in Clients |-> "none"] /\ tries = [c \in Clients |-> 1]
  /\ verdict = [c \in Clients |-> "ok"] /\ dead = {}
  /\ up = [s \in Sups |-> "down"] /\ socket \in {None, Stale} /\ launches = 0
  /\ applied = {} /\ outcome = [c \in Clients |-> "none"]

(***************************************************************************)
(* SQLite sessions                                                         *)
(***************************************************************************)
(* A transaction that ends without a commit leaves nothing behind.         *)
EndSessions(C) ==
  /\ sess' = [c \in Clients |-> IF c \in C THEN "none" ELSE sess[c]]
  /\ wrote' = [c \in Clients |-> IF c \in C THEN {} ELSE wrote[c]]
  /\ snap' = [c \in Clients |-> IF c \in C THEN "none" ELSE snap[c]]
  /\ lock' = IF lock \in C THEN None ELSE lock
  /\ UNCHANGED <<db, applied>>

(* localWorkDBProxySession.handle: the request in flight is op.  The       *)
(* first request opens the session's connection (ensureConn).              *)
Serving(c, op) == pc[c] = op /\ rep[c] = "sent"
Reply(c, r) == /\ rep' = [rep EXCEPT ![c] = r]
               /\ UNCHANGED <<host, pc, tries, dead, verdict, outcome, sups>>

Ping(c) ==
  /\ Serving(c, "ping")
  /\ sess' = [sess EXCEPT ![c] = "open"]
  /\ Reply(c, "ok")
  /\ UNCHANGED <<db, lock, wrote, snap, applied>>

Begin(c) ==
  /\ Serving(c, "begin")
  /\ IF sess[c] = "tx" THEN Reply(c, "error") /\ UNCHANGED sess
     ELSE Reply(c, "ok") /\ sess' = [sess EXCEPT ![c] = "tx"]
  /\ UNCHANGED <<db, lock, wrote, snap, applied>>

Query(c) ==
  /\ Serving(c, "query")
  /\ snap' = [snap EXCEPT ![c] = "fresh"]
  /\ Reply(c, "ok")
  /\ UNCHANGED <<db, lock, sess, wrote, applied>>

(* A write needs the lock and the newest snapshot; otherwise "database is  *)
(* locked", at once or when busy_timeout runs out.                         *)
Exec(c, op, r) ==
  /\ Serving(c, op)
  /\ \/ /\ lock \in {None, c} /\ snap[c] = "fresh"
        /\ lock' = c
        /\ wrote' = [wrote EXCEPT ![c] = @ \cup {r}]
        /\ Reply(c, "ok")
     \/ /\ lock \notin {None, c} \/ snap[c] = "old"
        /\ Reply(c, "busy")
        /\ UNCHANGED <<lock, wrote>>
  /\ UNCHANGED <<db, sess, snap, applied>>

Commit(c) ==
  /\ Serving(c, "commit") /\ sess[c] = "tx"
  /\ db' = [r \in Rows |-> IF r \in wrote[c] THEN c ELSE db[r]]
  /\ applied' = applied \cup {c}
  /\ snap' = [d \in Clients |-> IF d = c THEN "none"
                                ELSE IF snap[d] = "fresh" THEN "old" ELSE snap[d]]
  /\ wrote' = [wrote EXCEPT ![c] = {}]
  /\ lock' = None
  /\ sess' = [sess EXCEPT ![c] = "open"]
  /\ Reply(c, "ok")

Rollback(c) ==
  /\ Serving(c, "rollback") /\ sess[c] = "tx"
  /\ EndSessions({c}) /\ Reply(c, "ok")

(* "close": localWorkDBProxySession.close.                                 *)
CloseSession(c) ==
  /\ Serving(c, "close") /\ EndSessions({c}) /\ Reply(c, "ok")

(* Mutant: the handler returns without closing its session.                *)
HandlerEOFLeaks(c) ==
  /\ c \in dead /\ host[c] # None /\ rep[c] # "sent"
  /\ host' = [host EXCEPT ![c] = None]
  /\ UNCHANGED <<sqlite, pc, rep, tries, dead, verdict, outcome, sups>>

(* handleLocalWorkDBProxyConn: the client is gone, the decoder reports the *)
(* end of the stream and the deferred session.close runs.                  *)
HandlerEOF(c) ==
  /\ c \in dead /\ host[c] # None /\ rep[c] # "sent"
  /\ EndSessions({c})
  /\ host' = [host EXCEPT ![c] = None]
  /\ UNCHANGED <<pc, rep, tries, dead, verdict, outcome, sups>>

Handle(c) == \/ Ping(c) \/ Begin(c) \/ Query(c) \/ Exec(c, "exec1", 1)
             \/ Exec(c, "exec2", 2) \/ Commit(c) \/ Rollback(c)
             \/ CloseSession(c) \/ HandlerEOF(c)

(***************************************************************************)
(* The call                                                                *)
(***************************************************************************)
Direct(c) == Home[c] # None /\ up[Home[c]] \in {"active", "closing"}

(* openLocalWorkSQLiteWithProxy looks for the socket file ...              *)
FindSocket(c) ==
  /\ c \notin dead /\ pc[c] = "open"
  /\ IF Direct(c) \/ socket = None
     THEN /\ host' = [host EXCEPT ![c] = Self]
          /\ pc' = [pc EXCEPT ![c] = "ping"]
          /\ rep' = [rep EXCEPT ![c] = "sent"]
     ELSE pc' = [pc EXCEPT ![c] = "dial"] /\ UNCHANGED <<host, rep>>
  /\ UNCHANGED <<sqlite, sups, tries, dead, verdict, outcome>>

(* ... and dials it: by then it may be gone, or nobody may listen.         *)
Dial(c) ==
  /\ c \notin dead /\ pc[c] = "dial"
  /\ IF socket \in Sups
     THEN /\ host' = [host EXCEPT ![c] = socket]
          /\ pc' = [pc EXCEPT ![c] = "ping"]
          /\ rep' = [rep EXCEPT ![c] = "sent"]
          /\ UNCHANGED outcome
     ELSE /\ pc' = [pc EXCEPT ![c] = "done"]
          /\ outcome' = [outcome EXCEPT ![c] = "error"]
          /\ UNCHANGED <<host, rep>>
  /\ UNCHANGED <<sqlite, sups, tries, dead, verdict>>

Call(c, op) ==
  /\ pc' = [pc EXCEPT ![c] = op]
  /\ rep' = [rep EXCEPT ![c] = IF host[c] = None THEN "error" ELSE "sent"]
  /\ UNCHANGED <<host, tries, outcome>>

Answered(c) == c \notin dead /\ pc[c] \in Ops /\ rep[c] \in {"ok", "busy", "error"}

(* The write function returns at its first error; its deferred Rollback    *)
(* sends a request unless the transaction is over (or never began).        *)
Proceed(c) ==
  /\ Answered(c) /\ pc[c] # "close"
  /\ IF pc[c] = "rollback" THEN Call(c, "close") /\ UNCHANGED verdict
     ELSE IF rep[c] = "ok" THEN Call(c, Following(pc[c])) /\ UNCHANGED verdict
     ELSE /\ verdict' = [verdict EXCEPT ![c] = rep[c]]
          /\ Call(c, IF pc[c] \in {"query", "exec1", "exec2"} THEN "rollback"
                     ELSE "close")
  /\ UNCHANGED <<sqlite, sups, dead>>

(* Mutant: every error is retried, a lost answer to a commit included.     *)
RetryableAlways(v) == v # "ok"

(* withLocalWorkWriteRetry: only a lock error is worth another attempt.    *)
Retryable(v) == v = "busy"
Return(c) ==
  /\ Answered(c) /\ pc[c] = "close"
  /\ host' = [host EXCEPT ![c] = None]
  /\ rep' = [rep EXCEPT ![c] = "none"]
  /\ IF Retryable(verdict[c]) /\ tries[c] < Attempts
     THEN /\ pc' = [pc EXCEPT ![c] = "open"]
          /\ tries' = [tries EXCEPT ![c] = @ + 1]
          /\ verdict' = [verdict EXCEPT ![c] = "ok"]
          /\ UNCHANGED outcome
     ELSE /\ pc' = [pc EXCEPT ![c] = "done"]
          /\ outcome' = [outcome EXCEPT ![c] = IF verdict[c] = "ok" THEN "ok"
                                               ELSE "error"]
          /\ UNCHANGED <<tries, verdict>>
  /\ UNCHANGED <<sqlite, sups, dead>>

Die(C) ==
  /\ dead' = dead \cup C
  /\ UNCHANGED <<pc, tries, verdict, outcome>>

(* A client's process dies.  Its own SQLite connection dies with it; a     *)
(* session at a supervisor only learns of it.                              *)
Crash(c) ==
  /\ Home[c] = None /\ c \notin dead /\ pc[c] # "done"
  /\ Die({c})
  /\ IF host[c] = Self
     THEN EndSessions({c}) /\ host' = [host EXCEPT ![c] = None]
                          /\ rep' = [rep EXCEPT ![c] = "none"]
     ELSE UNCHANGED <<sqlite, host, rep>>
  /\ UNCHANGED sups

Client(c) == FindSocket(c) \/ Dial(c) \/ Proceed(c) \/ Return(c)

(***************************************************************************)
(* launchLocalWorkDBProxySupervisor and its Close                          *)
(***************************************************************************)
Step(s, from, to) == up[s] = from /\ up' = [up EXCEPT ![s] = to]

(* prepareLocalWorkDBProxySocketPath: a socket that answers is an error, a *)
(* file nobody answers on is removed, in a step of its own.                *)
Prepare(s) ==
  /\ up[s] = "down" /\ launches < MaxLaunches
  /\ launches' = launches + 1
  /\ up' = [up EXCEPT ![s] = CASE socket = None -> "listen"
                               [] socket = Stale -> "remove"
                               [] OTHER -> "down"]
  /\ UNCHANGED <<sqlite, client, socket>>

RemoveStale(s) ==
  /\ Step(s, "remove", "listen")
  /\ socket' = None
  /\ UNCHANGED <<sqlite, client, launches>>

(* net.Listen fails when another launch was faster; when runtime.json      *)
(* cannot be written the launch takes everything back.                     *)
Listen(s) ==
  /\ \/ Step(s, "listen", "active") /\ socket = None /\ socket' = s
     \/ Step(s, "listen", "down") /\ UNCHANGED socket
  /\ UNCHANGED <<sqlite, client, launches>>

Hosted(s) == {c \in Clients : host[c] = s}

(* Close: the listener unlinks its path ...                                *)
Close(s) ==
  /\ Step(s, "active", "closing")
  /\ socket' = None
  /\ UNCHANGED <<sqlite, client, launches>>

(* ... and once every handler has returned the path is removed again.      *)
Finish(s) ==
  /\ Hosted(s) = {}
  /\ Step(s, "closing", "down")
  /\ socket' = None
  /\ UNCHANGED <<sqlite, client, launches>>

(* The process dies: its sessions end, and answers it had not sent yet,    *)
(* that of a commit included, are lost.                                    *)
SupCrash(s) ==
  /\ up[s] # "down"
  /\ up' = [up EXCEPT ![s] = "down"]
  /\ socket' = IF socket = s THEN Stale ELSE socket
  /\ LET Own == {c \in Clients : Home[c] = s /\ pc[c] # "done"}
         Gone == Hosted(s) \cup {c \in Own : host[c] = Self}
     IN /\ EndSessions(Gone)
        /\ host' = [c \in Clients |-> IF c \in Gone THEN None ELSE host[c]]
        /\ rep' = [c \in Clients |-> IF c \in Gone /\ rep[c] # "none"
                                     THEN "error" ELSE rep[c]]
        /\ Die(Own)
  /\ UNCHANGED launches

Sup(s) == Prepare(s) \/ RemoveStale(s) \/ Listen(s) \/ Close(s) \/ Finish(s)

Next ==
  \/ \E c \in Clients : Handle(c) \/ Client(c) \/ Crash(c)
  \/ \E s \in Sups : Sup(s) \/ SupCrash(s)

(* Handlers and calls run to their end; nobody has to start or stop a      *)
(* supervisor, or to crash.                                                *)
Fairness ==
  /\ \A c \in Clients : WF_vars(Handle(c)) /\ WF_vars(Client(c))
  /\ \A s \in Sups : WF_vars(Finish(s)) /\ WF_vars(Listen(s))

Spec == Init /\ [][Next]_vars /\ Fairness

(***************************************************************************)
(* Properties                                                              *)
(***************************************************************************)
(* Every variable of the sessions, calls and supervisors has its type, and *)
(* the writer's lock belongs to a session with an open transaction.        *)
TypeOK ==
  /\ db \in [Rows -> Clients \cup {None}] /\ applied \subseteq Clients
  /\ lock \in Clients \cup {None} /\ (lock # None => sess[lock] = "tx")
  /\ sess \in [Clients -> {"none", "open", "tx"}]
  /\ wrote \in [Clients -> SUBSET Rows]
  /\ snap \in [Clients -> {"none", "fresh", "old"}]
  /\ host \in [Clients -> Sups \cup {None, Self}]
  /\ pc \in [Clients -> Ops \cup {"open", "dial", "done"}]
  /\ rep \in [Clients -> {"none", "sent", "ok", "busy", "error"}]
  /\ tries \in [Clients -> 1..Attempts] /\ dead \subseteq Clients
  /\ verdict \in [Clients -> {"ok", "busy", "error"}]
  /\ up \in [Sups -> {"down", "remove", "listen", "active", "closing"}]
  /\ socket \in Sups \cup {None, Stale} /\ launches \in 0..MaxLaunches
  /\ outcome \in [Clients -> {"none", "ok", "error"}]

(* Whatever mix of direct connections, proxied sessions, retries, crashes  *)
(* and lost answers: writes are atomic, happen at most once, and "ok"      *)
(* means committed (withLocalWorkWriteStore, handle, session.close).       *)
Abstract == INSTANCE AtomicWrites
ImplementsAtomicWrites == Abstract!Spec

(* A client that disappears leaves no transaction behind: the writer's     *)
(* lock is always given back (handleLocalWorkDBProxyConn's deferred        *)
(* session.close), so nobody can block the other processes forever.        *)
LockReleased == lock # None ~> lock = None

(* Close waits for every handler; since clients close their connection or  *)
(* die, the supervisor's wait ends (localWorkDBProxySupervisor.Close).     *)
CloseEnds == \A s \in Sups : up[s] = "closing" ~> up[s] # "closing"
=============================================================================
