---------------------------- MODULE RuntimeEngine ----------------------------
(***************************************************************************)
(* The state machine of cmd/nana-runtime/main.go without its files: what a *)
(* command does to the engine, which commands it refuses, how an engine is *)
(* rebuilt from the event log, and what compaction drops from the log.     *)
(* The lease is its owner (lease_id and leased_until are payload; nothing  *)
(* in the program sets Stale); a record is its id and its status.  An      *)
(* event is the accepted command itself.                                   *)
(***************************************************************************)
EXTENDS Naturals, SequencesExt

CONSTANTS Owners, Requests, Messages, Cursors, None

ASSUME NoneAssumption == None \notin Owners \cup Cursors

Commands ==
       [op : {"acquire", "renew"}, arg : Owners]
  \cup [op : {"queue", "notified", "delivered", "failed"}, arg : Requests]
  \cup [op : {"replay"}, arg : Cursors \cup {None}]
  \cup [op : {"capture"}, arg : {None}]
  \cup [op : {"create", "mailNotified", "mailDelivered"}, arg : Messages]

Statuses == {"pending", "notified", "delivered", "failed"}
Terminal == {"delivered", "failed"}
DispatchRecord == [id : Requests, status : Statuses]
MailboxRecord == [id : Messages, notified : BOOLEAN, delivered : BOOLEAN]

Engine == [owner : Owners \cup {None}, cursor : Cursors \cup {None},
           dispatch : Seq(DispatchRecord), mailbox : Seq(MailboxRecord)]

NewEngine ==
  [owner |-> None, cursor |-> None, dispatch |-> <<>>, mailbox |-> <<>>]

(* findDispatch, findMailbox: the first record with the id, 0 for none.    *)
Find(log, id) == SelectInSeq(log, LAMBDA r : r.id = id)

(* The state a dispatch has to be in for each transition.                  *)
Before == [notified  |-> {"pending"},
           delivered |-> {"notified"},
           failed    |-> {"pending", "notified"}]

(* Mutants: transitions nobody guards; a lease that is simply overwritten. *)
AcceptsAnyTransition(e, c) ==
  CASE c.op = "acquire" -> e.owner \in {None, c.arg}
    [] c.op = "renew" -> e.owner = c.arg
    [] c.op \in DOMAIN Before -> Find(e.dispatch, c.arg) # 0
    [] c.op \in {"mailNotified", "mailDelivered"} ->
         LET i == Find(e.mailbox, c.arg)
         IN i # 0 /\ ~e.mailbox[i].delivered
    [] OTHER -> TRUE

AcceptsAnyOwner(e, c) ==
  CASE c.op = "renew" -> e.owner = c.arg
    [] c.op \in DOMAIN Before ->
         LET i == Find(e.dispatch, c.arg)
         IN i # 0 /\ e.dispatch[i].status \in Before[c.op]
    [] c.op \in {"mailNotified", "mailDelivered"} ->
         LET i == Find(e.mailbox, c.arg)
         IN i # 0 /\ ~e.mailbox[i].delivered
    [] OTHER -> TRUE

(* acquireAuthority ... markMailboxDelivered: when a command is refused.   *)
Accepts(e, c) ==
  CASE c.op = "acquire" -> e.owner \in {None, c.arg}
    [] c.op = "renew" -> e.owner = c.arg
    [] c.op \in DOMAIN Before ->
         LET i == Find(e.dispatch, c.arg)
         IN i # 0 /\ e.dispatch[i].status \in Before[c.op]
    [] c.op \in {"mailNotified", "mailDelivered"} ->
         LET i == Find(e.mailbox, c.arg)
         IN i # 0 /\ ~e.mailbox[i].delivered
    [] OTHER -> TRUE

(* What an accepted command does, field by field.                          *)
DispatchAfter(d, c) ==
  CASE c.op = "queue" -> Append(d, [id |-> c.arg, status |-> "pending"])
    [] c.op \in DOMAIN Before -> [d EXCEPT ![Find(d, c.arg)].status = c.op]
    [] OTHER -> d

MailboxAfter(m, c) ==
  CASE c.op = "create" ->
         Append(m, [id |-> c.arg, notified |-> FALSE, delivered |-> FALSE])
    [] c.op = "mailNotified" -> [m EXCEPT ![Find(m, c.arg)].notified = TRUE]
    [] c.op = "mailDelivered" -> [m EXCEPT ![Find(m, c.arg)].delivered = TRUE]
    [] OTHER -> m

Effect(e, c) ==
  [owner    |-> IF c.op \in {"acquire", "renew"} THEN c.arg ELSE e.owner,
   cursor   |-> IF c.op = "replay" THEN c.arg ELSE e.cursor,
   dispatch |-> DispatchAfter(e.dispatch, c),
   mailbox  |-> MailboxAfter(e.mailbox, c)]

(* replayEvent: a renewal is replayed as an acquisition, an event the      *)
(* engine refuses is skipped.                                              *)
ReplayEvent(e, c) ==
  LET d == IF c.op = "renew" THEN [c EXCEPT !.op = "acquire"] ELSE c
  IN IF Accepts(e, d) THEN Effect(e, d) ELSE e

Replay(log) ==
  LET after[n \in 0..Len(log)] ==
        IF n = 0 THEN NewEngine ELSE ReplayEvent(after[n - 1], log[n])
  IN after[Len(log)]

(* Mutant: compaction that forgets open dispatches too.                    *)
CompactAll(e, log) ==
  SelectSeq(log, LAMBDA c : c.op \notin {"queue", "notified", "delivered", "failed"})

(* compact: drop the events of every request id with a finished dispatch.  *)
Done(dispatch) ==
  {dispatch[i].id : i \in {j \in DOMAIN dispatch : dispatch[j].status \in Terminal}}

AboutRequest(c) == c.op \in {"queue", "notified", "delivered", "failed"}

Compact(e, log) ==
  LET kept[n \in 0..Len(log)] ==
        IF n = 0 THEN <<>>
        ELSE IF AboutRequest(log[n]) /\ log[n].arg \in Done(e.dispatch)
        THEN kept[n - 1] ELSE Append(kept[n - 1], log[n])
  IN kept[Len(log)]

(* dispatchBacklog and deriveReadiness.                                    *)
Backlog(dispatch) ==
  [s \in Statuses |-> Len(SelectSeq(dispatch, LAMBDA r : r.status = s))]

Ready(e) == e.owner # None
=============================================================================
