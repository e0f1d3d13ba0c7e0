------------------------- MODULE RuntimeExec_proofs --------------------------
(***************************************************************************)
(* Proofs about RuntimeExec for every set of owners, requests and messages.*)
(* Types: under every fault.  The lease and the dispatches: invocations    *)
(* may crash anywhere and appends may be cut short, but invocations do not *)
(* overlap (RuntimeOverlap.cfg shows what happens when they do).  The      *)
(* compatibility views and the event log: nothing crashes either, as a     *)
(* command cut short leaves files that are behind.                         *)
(***************************************************************************)
EXTENDS RuntimeExec, SequenceTheorems, WellFoundedInduction, TLAPS

(***************************************************************************)
(* The engine and its event log                                            *)
(***************************************************************************)

LEMMA LeastNatural ==
  ASSUME NEW T, T \subseteq Nat, T # {}
  PROVE  \E x \in T : \A y \in T : x <= y
<1>1. PICK x \in T : \A y \in T : ~(<<y, x>> \in OpToRel(<, Nat))
  BY WFMin, NatLessThanWellFounded, Zenon
<1>2. \A y \in T : <<y, x>> \in Nat \X Nat
  OBVIOUS
<1>3. \A y \in T : ~(y < x)
  BY <1>1, <1>2 DEF OpToRel
<1> QED BY <1>3

LEMMA SetInduction ==
  ASSUME NEW S, 0 \in S, \A n \in Nat : n \in S => n + 1 \in S
  PROVE  \A n \in Nat : n \in S
<1> SUFFICES ASSUME Nat \ S # {} PROVE FALSE
  OBVIOUS
<1>1. PICK x \in Nat \ S : \A y \in Nat \ S : x <= y
  BY LeastNatural
<1>2. x # 0 /\ x - 1 \in Nat /\ x - 1 \notin Nat \ S
  BY <1>1
<1> QED BY <1>1, <1>2

Replays(f, log, N) ==
  f = [n \in 0..N |-> IF n = 0 THEN NewEngine ELSE ReplayEvent(f[n - 1], log[n])]

LEMMA ReplayExists ==
  ASSUME NEW log PROVE \A N \in Nat : \E f : Replays(f, log, N)
<1> DEFINE S == {N \in Nat : \E f : Replays(f, log, N)}
<1>1. 0 \in S
  <2>1. Replays([n \in 0..0 |-> NewEngine], log, 0)
    BY DEF Replays
  <2> QED BY <2>1
<1>2. ASSUME NEW N \in Nat, N \in S PROVE N + 1 \in S
  <2>1. PICK f : Replays(f, log, N)
    BY <1>2
  <2> DEFINE g == [n \in 0..N + 1 |-> IF n = N + 1 THEN ReplayEvent(f[N], log[N + 1])
                                      ELSE f[n]]
  <2>2. \A n \in 0..N : f[n] = IF n = 0 THEN NewEngine ELSE ReplayEvent(f[n - 1], log[n])
    BY <2>1 DEF Replays
  <2>3. ASSUME NEW n \in 0..N + 1
        PROVE  g[n] = IF n = 0 THEN NewEngine ELSE ReplayEvent(g[n - 1], log[n])
    <3>1. CASE n = N + 1
      BY <3>1
    <3>2. CASE n # N + 1
      BY <2>2, <3>2
    <3> QED BY <3>1, <3>2
  <2>4. Replays(g, log, N + 1)
    BY <2>3 DEF Replays
  <2> QED BY <2>4
<1> HIDE DEF S
<1>3. \A N \in Nat : N \in S
  BY <1>1, <1>2, SetInduction
<1> QED BY <1>3 DEF S

LEMMA ReplayPrefix ==
  ASSUME NEW f, NEW g, NEW l1, NEW l2, NEW N \in Nat, NEW M \in Nat,
         Replays(f, l1, N), Replays(g, l2, M), N <= M,
         \A i \in 1..N : l1[i] = l2[i]
  PROVE  \A n \in 0..N : f[n] = g[n]
<1> DEFINE S == {n \in Nat : n <= N => f[n] = g[n]}
<1>1. /\ \A n \in 0..N : f[n] = IF n = 0 THEN NewEngine ELSE ReplayEvent(f[n - 1], l1[n])
      /\ \A n \in 0..M : g[n] = IF n = 0 THEN NewEngine ELSE ReplayEvent(g[n - 1], l2[n])
  BY DEF Replays
<1>2. 0 \in S
  BY <1>1
<1>3. ASSUME NEW n \in Nat, n \in S PROVE n + 1 \in S
  BY <1>1, <1>3
<1> HIDE DEF S
<1>4. \A n \in Nat : n \in S
  BY <1>2, <1>3, SetInduction
<1> QED BY <1>4 DEF S

LEMMA ReplayNothing == Replay(<<>>) = NewEngine
<1>1. \E f : Replays(f, <<>>, 0)
  BY ReplayExists
<1> DEFINE f == CHOOSE f : Replays(f, <<>>, 0)
<1>2. Replays(f, <<>>, 0)
  BY <1>1
<1>3. Replay(<<>>) = f[0]
  BY DEF Replay, Replays
<1> QED BY <1>2, <1>3 DEF Replays

LEMMA ReplayAppend ==
  ASSUME NEW log \in Seq(Commands), NEW c \in Commands
  PROVE  Replay(Append(log, c)) = ReplayEvent(Replay(log), c)
<1> DEFINE new == Append(log, c)
           f == CHOOSE f : Replays(f, log, Len(log))
           g == CHOOSE g : Replays(g, new, Len(new))
<1>1. /\ new \in Seq(Commands) /\ Len(log) \in Nat /\ Len(new) = Len(log) + 1
      /\ \A i \in 1..Len(log) : log[i] = new[i]
      /\ new[Len(new)] = c
  OBVIOUS
<1>2. Replays(f, log, Len(log))
  <2>1. \E h : Replays(h, log, Len(log))
    BY <1>1, ReplayExists
  <2> QED BY <2>1
<1>3. Replays(g, new, Len(new))
  <2> HIDE DEF new
  <2>1. \E h : Replays(h, new, Len(new))
    BY <1>1, ReplayExists
  <2> QED BY <2>1
<1>4. Replay(log) = f[Len(log)] /\ Replay(new) = g[Len(new)]
  BY DEF Replay, Replays
<1> HIDE DEF f, g, new
<1>5. f[Len(log)] = g[Len(log)]
  BY <1>1, <1>2, <1>3, ReplayPrefix
<1>6. g[Len(new)] = ReplayEvent(g[Len(new) - 1], new[Len(new)])
  BY <1>1, <1>3 DEF Replays
<1> QED BY <1>1, <1>4, <1>5, <1>6 DEF new

(* The function that Compact builds, for the ids of a set.                 *)
Keeps(f, D, log, N) ==
  f = [n \in 0..N |->
         IF n = 0 THEN <<>>
         ELSE IF AboutRequest(log[n]) /\ log[n].arg \in D
         THEN f[n - 1] ELSE Append(f[n - 1], log[n])]

LEMMA KeepsExists ==
  ASSUME NEW log, NEW D PROVE \A N \in Nat : \E f : Keeps(f, D, log, N)
<1> DEFINE S == {N \in Nat : \E f : Keeps(f, D, log, N)}
           Body(f, n) == IF n = 0 THEN <<>>
                         ELSE IF AboutRequest(log[n]) /\ log[n].arg \in D
                         THEN f[n - 1] ELSE Append(f[n - 1], log[n])
<1>1. 0 \in S
  <2>1. Keeps([n \in 0..0 |-> <<>>], D, log, 0)
    BY DEF Keeps
  <2> QED BY <2>1
<1>2. ASSUME NEW N \in Nat, N \in S PROVE N + 1 \in S
  <2>1. PICK f : Keeps(f, D, log, N)
    BY <1>2
  <2> DEFINE g == [n \in 0..N + 1 |-> IF n = N + 1 THEN Body(f, N + 1) ELSE f[n]]
  <2>2. \A n \in 0..N : f[n] = Body(f, n)
    BY <2>1 DEF Keeps
  <2>3. ASSUME NEW n \in 0..N + 1 PROVE g[n] = Body(g, n)
    <3>1. CASE n = N + 1
      <4>1. g[N] = f[N] /\ g[N + 1] = Body(f, N + 1)
        OBVIOUS
      <4> HIDE DEF g
      <4> QED BY <3>1, <4>1
    <3>2. CASE n # N + 1
      <4>1. g[n] = f[n] /\ (n # 0 => g[n - 1] = f[n - 1])
        BY <3>2
      <4> HIDE DEF g
      <4> QED BY <2>2, <3>2, <4>1
    <3> QED BY <3>1, <3>2
  <2>4. Keeps(g, D, log, N + 1)
    BY <2>3 DEF Keeps
  <2> QED BY <2>4
<1> HIDE DEF S
<1>3. \A N \in Nat : N \in S
  BY <1>1, <1>2, SetInduction
<1> QED BY <1>3 DEF S

(* What compaction leaves, event by event.                                 *)
LEMMA CompactFunction ==
  ASSUME NEW e, NEW log \in Seq(Commands)
  PROVE  \E f : /\ Compact(e, log) = f[Len(log)]
                /\ f[0] = <<>>
                /\ \A n \in 1..Len(log) :
                     f[n] = IF AboutRequest(log[n]) /\ log[n].arg \in Done(e.dispatch)
                            THEN f[n - 1] ELSE Append(f[n - 1], log[n])
<1> DEFINE D == Done(e.dispatch)
           f == CHOOSE f : Keeps(f, D, log, Len(log))
<1>1. \E h : Keeps(h, D, log, Len(log))
  <2>1. Len(log) \in Nat
    OBVIOUS
  <2> HIDE DEF D
  <2> QED BY <2>1, KeepsExists
<1>2. Keeps(f, D, log, Len(log))
  BY <1>1
<1>3. Compact(e, log) = f[Len(log)]
  BY DEF Compact, Keeps
<1> HIDE DEF f
<1>4. \A n \in 0..Len(log) :
        f[n] = IF n = 0 THEN <<>>
               ELSE IF AboutRequest(log[n]) /\ log[n].arg \in D
               THEN f[n - 1] ELSE Append(f[n - 1], log[n])
  BY <1>2 DEF Keeps
<1>5. Len(log) \in Nat
  OBVIOUS
<1>6. f[0] = <<>>
  BY <1>4, <1>5
<1>7. ASSUME NEW n \in 1..Len(log)
      PROVE  f[n] = IF AboutRequest(log[n]) /\ log[n].arg \in D
                    THEN f[n - 1] ELSE Append(f[n - 1], log[n])
  <2>1. n \in 0..Len(log) /\ n # 0
    BY <1>5
  <2> QED BY <1>4, <2>1
<1> QED BY <1>3, <1>6, <1>7

LEMMA CompactType ==
  ASSUME NEW e, NEW log \in Seq(Commands) PROVE Compact(e, log) \in Seq(Commands)
<1>1. PICK f : /\ Compact(e, log) = f[Len(log)]
               /\ f[0] = <<>>
               /\ \A n \in 1..Len(log) :
                    f[n] = IF AboutRequest(log[n]) /\ log[n].arg \in Done(e.dispatch)
                           THEN f[n - 1] ELSE Append(f[n - 1], log[n])
  BY CompactFunction
<1> DEFINE S == {n \in Nat : n <= Len(log) => f[n] \in Seq(Commands)}
<1>2. 0 \in S
  <2>1. f[0] \in Seq(Commands)
    BY <1>1
  <2> QED BY <2>1
<1>3. ASSUME NEW n \in Nat, n \in S PROVE n + 1 \in S
  <2> SUFFICES ASSUME n + 1 <= Len(log) PROVE f[n + 1] \in Seq(Commands)
    OBVIOUS
  <2>1. f[n] \in Seq(Commands) /\ n + 1 \in 1..Len(log) /\ log[n + 1] \in Commands
    BY <1>3
  <2>2. f[n + 1] = f[n] \/ f[n + 1] = Append(f[n], log[n + 1])
    <3>1. (n + 1) - 1 = n
      OBVIOUS
    <3> QED BY <1>1, <2>1, <3>1
  <2>3. Append(f[n], log[n + 1]) \in Seq(Commands)
    BY <2>1, AppendProperties
  <2> QED BY <2>1, <2>2, <2>3
<1> HIDE DEF S
<1>4. \A n \in Nat : n \in S
  BY <1>2, <1>3, SetInduction
<1> QED BY <1>1, <1>4 DEF S

LEMMA IsSequence ==
  ASSUME NEW S, NEW n \in Nat, NEW g, g = [k \in 1..n |-> g[k]],
         \A k \in 1..n : g[k] \in S
  PROVE  g \in Seq(S)
<1>1. g \in [1..n -> S]
  BY Zenon
<1> QED BY <1>1, SeqDef

LEMMA EffectType ==
  ASSUME NEW e \in Engine, NEW c \in Commands PROVE Effect(e, c) \in Engine
<1>1. /\ c.op \in {"acquire", "renew"} => c.arg \in Owners
      /\ c.op = "replay" => c.arg \in Cursors \cup {None}
      /\ c.op = "queue" => c.arg \in Requests
      /\ c.op = "create" => c.arg \in Messages
  BY DEF Commands
<1>2. DOMAIN Before = {"notified", "delivered", "failed"}
  BY DEF Before
<1>3. DispatchAfter(e.dispatch, c) \in Seq(DispatchRecord)
  <2> DEFINE d == e.dispatch
             i == Find(d, c.arg)
             moved == [d EXCEPT ![i].status = c.op]
  <2>1. d \in Seq(DispatchRecord)
    BY DEF Engine
  <2>2. CASE c.op = "queue"
    <3>1. [id |-> c.arg, status |-> "pending"] \in DispatchRecord
      BY <1>1, <2>2 DEF DispatchRecord, Statuses
    <3> QED BY <1>2, <2>1, <2>2, <3>1 DEF DispatchAfter
  <2>3. CASE c.op \in DOMAIN Before
    <3>1. ASSUME NEW k \in 1..Len(d) PROVE moved[k] \in DispatchRecord
      <4>1. d[k] \in DispatchRecord /\ k \in DOMAIN d
        BY <2>1
      <4>2. moved[k] = IF k = i THEN [d[k] EXCEPT !.status = c.op] ELSE d[k]
        BY <4>1
      <4>3. c.op \in Statuses
        BY <1>2, <2>3 DEF Statuses
      <4> QED BY <4>1, <4>2, <4>3 DEF DispatchRecord
    <3>2. moved = [k \in 1..Len(d) |-> moved[k]]
      BY <2>1
    <3>3. DispatchAfter(d, c) = moved
      BY <1>2, <2>3 DEF DispatchAfter
    <3> HIDE DEF moved
    <3>4. moved \in Seq(DispatchRecord)
      <4>1. Len(d) \in Nat
        BY <2>1
      <4> QED BY <3>1, <3>2, <4>1, IsSequence
    <3> QED BY <3>3, <3>4
  <2>4. CASE c.op # "queue" /\ c.op \notin DOMAIN Before
    BY <2>1, <2>4 DEF DispatchAfter
  <2> QED BY <2>2, <2>3, <2>4
<1>4. MailboxAfter(e.mailbox, c) \in Seq(MailboxRecord)
  <2> DEFINE m == e.mailbox
             i == Find(m, c.arg)
             told == [m EXCEPT ![i].notified = TRUE]
             got == [m EXCEPT ![i].delivered = TRUE]
  <2>1. m \in Seq(MailboxRecord)
    BY DEF Engine
  <2>2. CASE c.op = "create"
    <3>1. [id |-> c.arg, notified |-> FALSE, delivered |-> FALSE] \in MailboxRecord
      BY <1>1, <2>2 DEF MailboxRecord
    <3> QED BY <2>1, <2>2, <3>1 DEF MailboxAfter
  <2>3. CASE c.op = "mailNotified"
    <3>1. ASSUME NEW k \in 1..Len(m) PROVE told[k] \in MailboxRecord
      <4>1. m[k] \in MailboxRecord /\ k \in DOMAIN m
        BY <2>1
      <4>2. told[k] = IF k = i THEN [m[k] EXCEPT !.notified = TRUE] ELSE m[k]
        BY <4>1
      <4> QED BY <4>1, <4>2 DEF MailboxRecord
    <3>2. told = [k \in 1..Len(m) |-> told[k]]
      <4>1. DOMAIN m = 1..Len(m)
        BY <2>1
      <4> QED BY <4>1
    <3>3. MailboxAfter(m, c) = told
      BY <2>3 DEF MailboxAfter
    <3> HIDE DEF told
    <3>4. told \in Seq(MailboxRecord)
      <4>1. Len(m) \in Nat
        BY <2>1
      <4> QED BY <3>1, <3>2, <4>1, IsSequence
    <3> QED BY <3>3, <3>4
  <2>4. CASE c.op = "mailDelivered"
    <3>1. ASSUME NEW k \in 1..Len(m) PROVE got[k] \in MailboxRecord
      <4>1. m[k] \in MailboxRecord /\ k \in DOMAIN m
        BY <2>1
      <4>2. got[k] = IF k = i THEN [m[k] EXCEPT !.delivered = TRUE] ELSE m[k]
        BY <4>1
      <4> QED BY <4>1, <4>2 DEF MailboxRecord
    <3>2. got = [k \in 1..Len(m) |-> got[k]]
      <4>1. DOMAIN m = 1..Len(m)
        BY <2>1
      <4> QED BY <4>1
    <3>3. MailboxAfter(m, c) = got
      BY <2>4 DEF MailboxAfter
    <3> HIDE DEF got
    <3>4. got \in Seq(MailboxRecord)
      <4>1. Len(m) \in Nat
        BY <2>1
      <4> QED BY <3>1, <3>2, <4>1, IsSequence
    <3> QED BY <3>3, <3>4
  <2>5. CASE c.op \notin {"create", "mailNotified", "mailDelivered"}
    BY <2>1, <2>5 DEF MailboxAfter
  <2> QED BY <2>2, <2>3, <2>4, <2>5
<1> QED BY <1>1, <1>3, <1>4 DEF Effect, Engine

(* A renewal is replayed as an acquisition, which has the same effect.     *)
AsReplayed(c) == IF c.op = "renew" THEN [c EXCEPT !.op = "acquire"] ELSE c

LEMMA AsReplayedType ==
  ASSUME NEW c \in Commands
  PROVE  /\ AsReplayed(c) \in Commands
         /\ \A e : Effect(e, AsReplayed(c)) = Effect(e, c)
         /\ \A e : ReplayEvent(e, c) = IF Accepts(e, AsReplayed(c)) THEN Effect(e, c) ELSE e
<1>1. CASE c.op = "renew"
  <2>1. c \in [op : {"acquire", "renew"}, arg : Owners]
    BY <1>1 DEF Commands
  <2>2. /\ AsReplayed(c) \in [op : {"acquire", "renew"}, arg : Owners]
        /\ AsReplayed(c).op = "acquire" /\ AsReplayed(c).arg = c.arg
    BY <1>1, <2>1 DEF AsReplayed
  <2>3. DOMAIN Before = {"notified", "delivered", "failed"}
    BY DEF Before
  <2>4. \A e : Effect(e, AsReplayed(c)) = Effect(e, c)
    BY <1>1, <2>2, <2>3 DEF Effect, DispatchAfter, MailboxAfter
  <2> QED BY <1>1, <2>2, <2>4 DEF Commands, ReplayEvent, AsReplayed
<1>2. CASE c.op # "renew"
  BY <1>2 DEF AsReplayed, ReplayEvent
<1> QED BY <1>1, <1>2

LEMMA NewEngineType == NewEngine \in Engine
  BY DEF NewEngine, Engine

LEMMA ReplayEventType ==
  ASSUME NEW e \in Engine, NEW c \in Commands PROVE ReplayEvent(e, c) \in Engine
  BY AsReplayedType, EffectType

LEMMA ReplayFunction ==
  ASSUME NEW log \in Seq(Commands)
  PROVE  \E f : /\ Replay(log) = f[Len(log)]
                /\ f[0] = NewEngine
                /\ \A n \in 1..Len(log) : f[n] = ReplayEvent(f[n - 1], log[n])
<1> DEFINE f == CHOOSE f : Replays(f, log, Len(log))
<1>1. \E h : Replays(h, log, Len(log))
  BY ReplayExists
<1>2. Replays(f, log, Len(log)) /\ Replay(log) = f[Len(log)]
  BY <1>1 DEF Replay, Replays
<1> HIDE DEF f
<1>3. /\ f[0] = NewEngine
      /\ \A n \in 1..Len(log) : f[n] = ReplayEvent(f[n - 1], log[n])
  BY <1>2 DEF Replays
<1> QED BY <1>2, <1>3

LEMMA ReplayType ==
  ASSUME NEW log \in Seq(Commands) PROVE Replay(log) \in Engine
<1>1. PICK f : /\ Replay(log) = f[Len(log)]
               /\ f[0] = NewEngine
               /\ \A n \in 1..Len(log) : f[n] = ReplayEvent(f[n - 1], log[n])
  BY ReplayFunction
<1> DEFINE S == {n \in Nat : n <= Len(log) => f[n] \in Engine}
<1>2. 0 \in S
  BY <1>1, NewEngineType
<1>3. ASSUME NEW n \in Nat, n \in S PROVE n + 1 \in S
  <2> SUFFICES ASSUME n + 1 <= Len(log) PROVE f[n + 1] \in Engine
    OBVIOUS
  <2>1. f[n] \in Engine /\ n + 1 \in 1..Len(log) /\ log[n + 1] \in Commands
    BY <1>3
  <2>2. f[n + 1] = ReplayEvent(f[n], log[n + 1])
    BY <1>1, <2>1
  <2> QED BY <2>1, <2>2, ReplayEventType
<1> HIDE DEF S
<1>4. \A n \in Nat : n \in S
  BY <1>2, <1>3, SetInduction
<1> QED BY <1>1, <1>4 DEF S

(* findDispatch returns the first record with the id.                      *)
LEMMA FindFirst ==
  ASSUME NEW d \in Seq(DispatchRecord), NEW x
  PROVE  \/ Find(d, x) = 0 /\ \A i \in 1..Len(d) : d[i].id # x
         \/ /\ Find(d, x) \in 1..Len(d) /\ d[Find(d, x)].id = x
            /\ \A i \in 1..Len(d) : d[i].id = x => Find(d, x) <= i
<1> DEFINE I == {i \in 1..Len(d) : d[i].id = x}
<1>1. Find(d, x) = IF I = {} THEN 0 ELSE Min(I)
  BY DEF Find, SelectInSeq
<1>2. CASE I # {}
  <2>1. \E y \in I : \A z \in I : y <= z
    <3>1. I \subseteq Nat
      OBVIOUS
    <3> HIDE DEF I
    <3> QED BY <1>2, <3>1, LeastNatural
  <2>2. Min(I) \in I /\ \A y \in I : Min(I) <= y
    BY <2>1 DEF Min
  <2> QED BY <1>1, <1>2, <2>2
<1> QED BY <1>1, <1>2

(* The same first record of an id, and the same answer to whether there    *)
(* is another: what the engine's guards and effects can tell apart.        *)
Single(d, x) ==
  \A i, k \in DOMAIN d : d[i].id = x /\ d[k].id = x => i = k

Alike(d, b, x) ==
  /\ Find(d, x) = 0 <=> Find(b, x) = 0
  /\ Find(d, x) # 0 => d[Find(d, x)] = b[Find(b, x)]
  /\ Single(d, x) <=> Single(b, x)

(* Names for sequences of dispatches and for the two ways to change one,   *)
(* so that what follows need not look at sequences again.                  *)
Dispatches == Seq(DispatchRecord)
Queued(d, r) == Append(d, r)
Moved(d, i, s) == [d EXCEPT ![i].status = s]

LEMMA AppendRecord ==
  ASSUME NEW d \in Dispatches, NEW r \in DispatchRecord, NEW x
  PROVE  /\ Queued(d, r) \in Dispatches
         /\ Find(d, x) # 0 =>
              /\ Find(Queued(d, r), x) = Find(d, x)
              /\ Queued(d, r)[Find(Queued(d, r), x)] = d[Find(d, x)]
         /\ Find(d, x) = 0 /\ r.id = x =>
              /\ Find(Queued(d, r), x) # 0
              /\ Queued(d, r)[Find(Queued(d, r), x)] = r
         /\ Find(d, x) = 0 /\ r.id # x => Find(Queued(d, r), x) = 0
         /\ Single(Queued(d, r), x) <=> Single(d, x) /\ (r.id = x => Find(d, x) = 0)
<1> USE DEF Dispatches
<1> DEFINE a == Queued(d, r)
<1>1. /\ a \in Seq(DispatchRecord) /\ Len(a) = Len(d) + 1 /\ Len(d) \in Nat
      /\ \A i \in 1..Len(d) : a[i] = d[i]
      /\ a[Len(d) + 1] = r
      /\ DOMAIN d = 1..Len(d) /\ DOMAIN a = 1..Len(d) + 1
  <2>1. Len(d) \in Nat /\ DOMAIN d = 1..Len(d)
    OBVIOUS
  <2> QED BY <2>1, AppendProperties DEF Queued
<1> HIDE DEF a
<1>2. \/ Find(d, x) = 0 /\ \A i \in 1..Len(d) : d[i].id # x
      \/ /\ Find(d, x) \in 1..Len(d) /\ d[Find(d, x)].id = x
         /\ \A i \in 1..Len(d) : d[i].id = x => Find(d, x) <= i
  BY FindFirst
<1>3. \/ Find(a, x) = 0 /\ \A i \in 1..Len(a) : a[i].id # x
      \/ /\ Find(a, x) \in 1..Len(a) /\ a[Find(a, x)].id = x
         /\ \A i \in 1..Len(a) : a[i].id = x => Find(a, x) <= i
  BY <1>1, FindFirst
<1>4. \A i \in 1..Len(d) : i \in 1..Len(a) /\ a[i].id = d[i].id
  BY <1>1
<1>5. Find(d, x) # 0 => Find(a, x) = Find(d, x) /\ a[Find(a, x)] = d[Find(d, x)]
  <2> SUFFICES ASSUME Find(d, x) # 0
               PROVE  Find(a, x) = Find(d, x) /\ a[Find(a, x)] = d[Find(d, x)]
    OBVIOUS
  <2>1. Find(a, x) <= Find(d, x) /\ Find(a, x) \in 1..Len(d) /\ Find(a, x) # 0
    BY <1>1, <1>2, <1>3, <1>4
  <2>2. Find(d, x) <= Find(a, x)
    BY <1>1, <1>2, <1>3, <1>4, <2>1
  <2> QED BY <1>1, <1>2, <2>1, <2>2
<1>6. Find(d, x) = 0 /\ r.id = x => Find(a, x) # 0 /\ a[Find(a, x)] = r
  BY <1>1, <1>2, <1>3
<1>7. Find(d, x) = 0 /\ r.id # x => Find(a, x) = 0
  BY <1>1, <1>2, <1>3
<1>8. Single(a, x) <=> Single(d, x) /\ (r.id = x => Find(d, x) = 0)
  <2>1. ASSUME Single(a, x) PROVE Single(d, x) /\ (r.id = x => Find(d, x) = 0)
    <3>1. Single(d, x)
      BY <1>1, <2>1 DEF Single
    <3>2. ASSUME r.id = x, Find(d, x) # 0 PROVE FALSE
      <4>1. Find(d, x) \in 1..Len(d) + 1 /\ Len(d) + 1 \in 1..Len(d) + 1
            /\ a[Find(d, x)].id = x /\ a[Len(d) + 1].id = x
            /\ Find(d, x) # Len(d) + 1
        BY <1>1, <1>2, <3>2
      <4> QED BY <1>1, <2>1, <4>1 DEF Single
    <3> QED BY <3>1, <3>2
  <2>2. ASSUME Single(d, x), r.id = x => Find(d, x) = 0 PROVE Single(a, x)
    BY <1>1, <1>2, <2>2 DEF Single
  <2> QED BY <2>1, <2>2
<1> QED BY <1>1, <1>5, <1>6, <1>7, <1>8 DEF a

LEMMA MoveRecord ==
  ASSUME NEW d \in Dispatches, NEW i, NEW s \in Statuses, NEW x
  PROVE  /\ Moved(d, i, s) \in Dispatches
         /\ Find(Moved(d, i, s), x) = Find(d, x)
         /\ Find(d, x) # 0 =>
              Moved(d, i, s)[Find(Moved(d, i, s), x)] =
                IF Find(d, x) = i THEN [d[i] EXCEPT !.status = s] ELSE d[Find(d, x)]
         /\ Single(Moved(d, i, s), x) <=> Single(d, x)
<1> USE DEF Dispatches
<1> DEFINE a == Moved(d, i, s)
<1>1. Len(d) \in Nat /\ DOMAIN d = 1..Len(d)
  OBVIOUS
<1>2. a = [k \in 1..Len(d) |-> a[k]]
  BY <1>1 DEF Moved
<1>3. \A k \in 1..Len(d) : a[k] = IF k = i THEN [d[k] EXCEPT !.status = s] ELSE d[k]
  BY <1>1 DEF Moved
<1>4. DOMAIN a = 1..Len(d)
  BY <1>1 DEF Moved
<1> HIDE DEF a
<1>5. ASSUME NEW k \in 1..Len(d) PROVE a[k] \in DispatchRecord /\ a[k].id = d[k].id
  <2>1. d[k] \in DispatchRecord
    BY <1>1
  <2> QED BY <1>3, <2>1 DEF DispatchRecord
<1>6. a \in Seq(DispatchRecord) /\ Len(a) = Len(d)
  <2>1. a \in Seq(DispatchRecord)
    BY <1>1, <1>2, <1>5, IsSequence
  <2>2. DOMAIN a = 1..Len(a) /\ Len(a) \in Nat
    BY <2>1
  <2> QED BY <1>1, <1>4, <2>1, <2>2
<1>7. \/ Find(d, x) = 0 /\ \A k \in 1..Len(d) : d[k].id # x
      \/ /\ Find(d, x) \in 1..Len(d) /\ d[Find(d, x)].id = x
         /\ \A k \in 1..Len(d) : d[k].id = x => Find(d, x) <= k
  BY FindFirst
<1>8. \/ Find(a, x) = 0 /\ \A k \in 1..Len(d) : a[k].id # x
      \/ /\ Find(a, x) \in 1..Len(d) /\ a[Find(a, x)].id = x
         /\ \A k \in 1..Len(d) : a[k].id = x => Find(a, x) <= k
  BY <1>6, FindFirst
<1>9. Find(a, x) = Find(d, x)
  BY <1>1, <1>5, <1>7, <1>8
<1>10. Single(a, x) <=> Single(d, x)
  BY <1>1, <1>4, <1>5 DEF Single
<1> QED BY <1>3, <1>6, <1>7, <1>9, <1>10 DEF a

LEMMA AlikeTransitive ==
  ASSUME NEW d, NEW b, NEW a, NEW x, Alike(d, b, x), Alike(b, a, x)
  PROVE  Alike(d, a, x)
  BY DEF Alike

(* What replaying an event does to the dispatches depends on them only.    *)
Pending(c) == [id |-> c.arg, status |-> "pending"]

Moves(d, c) ==
  /\ c.op \in DOMAIN Before /\ Find(d, c.arg) # 0
  /\ d[Find(d, c.arg)].status \in Before[c.op]

NextDispatch(d, c) ==
  IF c.op = "queue" THEN Queued(d, Pending(c))
  ELSE IF Moves(d, c) THEN Moved(d, Find(d, c.arg), c.op)
  ELSE d

LEMMA Operations ==
  /\ DOMAIN Before = {"notified", "delivered", "failed"}
  /\ \A c \in Commands :
       /\ c.op \in {"acquire", "renew", "queue", "notified", "delivered", "failed",
                    "replay", "capture", "create", "mailNotified", "mailDelivered"}
       /\ AboutRequest(c) => c.arg \in Requests
       /\ AboutRequest(c) <=> c.op \in {"queue"} \cup DOMAIN Before
       /\ c.op \in {"acquire", "renew"} => c.arg \in Owners
<1>1. DOMAIN Before = {"notified", "delivered", "failed"}
  BY DEF Before
<1> QED BY <1>1 DEF Commands, AboutRequest

LEMMA ReplayDispatch ==
  ASSUME NEW e, NEW c \in Commands
  PROVE  /\ ReplayEvent(e, c).dispatch = NextDispatch(e.dispatch, c)
         /\ AboutRequest(c) => /\ ReplayEvent(e, c).owner = e.owner
                               /\ ReplayEvent(e, c).cursor = e.cursor
                               /\ ReplayEvent(e, c).mailbox = e.mailbox
<1>1. ReplayEvent(e, c) = IF Accepts(e, AsReplayed(c)) THEN Effect(e, c) ELSE e
  BY AsReplayedType
<1>2. /\ Effect(e, c).dispatch = DispatchAfter(e.dispatch, c)
      /\ AboutRequest(c) => /\ Effect(e, c).owner = e.owner
                            /\ Effect(e, c).cursor = e.cursor
                            /\ Effect(e, c).mailbox = e.mailbox
  <2>1. AboutRequest(c) => MailboxAfter(e.mailbox, c) = e.mailbox
    BY DEF AboutRequest, MailboxAfter
  <2> QED BY <2>1 DEF Effect, AboutRequest
<1>3. CASE c.op = "queue"
  <2>1. Accepts(e, AsReplayed(c))
    BY <1>3, Operations DEF Accepts, AsReplayed
  <2>2. DispatchAfter(e.dispatch, c) = NextDispatch(e.dispatch, c)
    BY <1>3, Operations DEF DispatchAfter, NextDispatch, Queued, Pending
  <2> QED BY <1>1, <1>2, <2>1, <2>2
<1>4. CASE c.op \in DOMAIN Before
  <2>1. Accepts(e, AsReplayed(c)) <=> Moves(e.dispatch, c)
    BY <1>4, Operations DEF Accepts, AsReplayed, Moves
  <2>2. DispatchAfter(e.dispatch, c) = [e.dispatch EXCEPT ![Find(e.dispatch, c.arg)].status = c.op]
    BY <1>4, Operations DEF DispatchAfter
  <2> QED BY <1>1, <1>2, <1>4, <2>1, <2>2, Operations DEF NextDispatch, Moved
<1>5. CASE c.op # "queue" /\ c.op \notin DOMAIN Before
  <2>1. DispatchAfter(e.dispatch, c) = e.dispatch /\ NextDispatch(e.dispatch, c) = e.dispatch
    BY <1>5 DEF DispatchAfter, NextDispatch, Moves
  <2> QED BY <1>1, <1>2, <1>5, <2>1
<1> QED BY <1>3, <1>4, <1>5

LEMMA ReplayRest ==
  ASSUME NEW a, NEW b, NEW c \in Commands,
         a.owner = b.owner, a.cursor = b.cursor, a.mailbox = b.mailbox
  PROVE  /\ ReplayEvent(a, c).owner = ReplayEvent(b, c).owner
         /\ ReplayEvent(a, c).cursor = ReplayEvent(b, c).cursor
         /\ ReplayEvent(a, c).mailbox = ReplayEvent(b, c).mailbox
<1>1. /\ ReplayEvent(a, c) = IF Accepts(a, AsReplayed(c)) THEN Effect(a, c) ELSE a
      /\ ReplayEvent(b, c) = IF Accepts(b, AsReplayed(c)) THEN Effect(b, c) ELSE b
  BY AsReplayedType
<1>2. CASE AboutRequest(c)
  BY <1>2, ReplayDispatch
<1>3. CASE ~AboutRequest(c)
  <2>1. AsReplayed(c) \in Commands /\ AsReplayed(c).op \notin DOMAIN Before
    BY <1>3, Operations, AsReplayedType DEF AsReplayed
  <2>2. Accepts(a, AsReplayed(c)) <=> Accepts(b, AsReplayed(c))
    <3> DEFINE k == AsReplayed(c)
    <3> HIDE DEF k
    <3>1. k \in Commands /\ k.op \notin DOMAIN Before
      BY <2>1 DEF k
    <3>2. CASE k.op = "acquire"
      BY <3>1, <3>2 DEF Accepts
    <3>3. CASE k.op = "renew"
      BY <3>1, <3>3 DEF Accepts
    <3>4. CASE k.op \in {"mailNotified", "mailDelivered"}
      BY <3>1, <3>4 DEF Accepts
    <3>5. CASE k.op \notin {"acquire", "renew", "mailNotified", "mailDelivered"}
      BY <3>1, <3>5 DEF Accepts
    <3> QED BY <3>2, <3>3, <3>4, <3>5 DEF k
  <2>3. /\ Effect(a, c).owner = Effect(b, c).owner
        /\ Effect(a, c).cursor = Effect(b, c).cursor
        /\ Effect(a, c).mailbox = Effect(b, c).mailbox
    BY DEF Effect
  <2> QED BY <1>1, <2>2, <2>3
<1> QED BY <1>2, <1>3

LEMMA PendingRecord ==
  ASSUME NEW c \in Commands, c.op = "queue"
  PROVE  Pending(c) \in DispatchRecord /\ Pending(c).id = c.arg
  BY Operations DEF Pending, DispatchRecord, Statuses, AboutRequest

LEMMA FoundRecord ==
  ASSUME NEW d \in Dispatches, NEW x, Find(d, x) # 0
  PROVE  d[Find(d, x)].id = x
  BY FindFirst DEF Dispatches

LEMMA NextDispatchType ==
  ASSUME NEW d \in Dispatches, NEW c \in Commands
  PROVE  NextDispatch(d, c) \in Dispatches
<1>1. CASE c.op = "queue"
  BY <1>1, PendingRecord, AppendRecord DEF NextDispatch
<1>2. CASE c.op # "queue" /\ Moves(d, c)
  <2>1. c.op \in Statuses
    BY <1>2, Operations DEF Moves, Statuses
  <2> QED BY <1>2, <2>1, MoveRecord DEF NextDispatch
<1>3. CASE c.op # "queue" /\ ~Moves(d, c)
  BY <1>3 DEF NextDispatch
<1> QED BY <1>1, <1>2, <1>3

(* An event leaves the dispatches of other requests alone.                 *)
LEMMA OthersAlike ==
  ASSUME NEW d \in Dispatches, NEW c \in Commands, NEW x,
         AboutRequest(c) => c.arg # x
  PROVE  Alike(NextDispatch(d, c), d, x) /\ Alike(d, NextDispatch(d, c), x)
<1> DEFINE n == NextDispatch(d, c)
<1>1. CASE c.op = "queue"
  <2>1. /\ Pending(c) \in DispatchRecord /\ Pending(c).id # x
        /\ n = Queued(d, Pending(c))
    BY <1>1, PendingRecord, Operations DEF NextDispatch
  <2> HIDE DEF n
  <2>2. /\ Find(d, x) # 0 => Find(n, x) = Find(d, x) /\ n[Find(n, x)] = d[Find(d, x)]
        /\ Find(d, x) = 0 => Find(n, x) = 0
        /\ Single(n, x) <=> Single(d, x)
    BY <2>1, AppendRecord
  <2>3. Alike(n, d, x) /\ Alike(d, n, x)
    BY <2>2 DEF Alike
  <2> QED BY <2>3 DEF n
<1>2. CASE c.op # "queue" /\ Moves(d, c)
  <2>1. /\ c.op \in Statuses /\ c.arg # x
        /\ n = Moved(d, Find(d, c.arg), c.op)
    BY <1>2, Operations DEF Moves, Statuses, NextDispatch
  <2>2. Find(d, x) # 0 => Find(d, x) # Find(d, c.arg)
    BY <1>2, <2>1, FoundRecord DEF Moves
  <2> HIDE DEF n
  <2>3. /\ Find(n, x) = Find(d, x)
        /\ Find(d, x) # 0 => n[Find(n, x)] = d[Find(d, x)]
        /\ Single(n, x) <=> Single(d, x)
    BY <2>1, <2>2, MoveRecord
  <2>4. Alike(n, d, x) /\ Alike(d, n, x)
    BY <2>3 DEF Alike
  <2> QED BY <2>4 DEF n
<1>3. CASE c.op # "queue" /\ ~Moves(d, c)
  BY <1>3 DEF NextDispatch, Alike
<1> QED BY <1>1, <1>2, <1>3

(* The same event does the same to alike dispatches.                       *)
LEMMA AlikeNext ==
  ASSUME NEW d \in Dispatches, NEW b \in Dispatches,
         NEW c \in Commands, NEW x, Alike(d, b, x)
  PROVE  Alike(NextDispatch(d, c), NextDispatch(b, c), x)
<1> DEFINE n == NextDispatch(d, c)
           m == NextDispatch(b, c)
<1>1. CASE AboutRequest(c) => c.arg # x
  BY <1>1, OthersAlike, AlikeTransitive
<1>2. CASE c.op = "queue" /\ c.arg = x
  <2>1. /\ Pending(c) \in DispatchRecord /\ Pending(c).id = x
        /\ n = Queued(d, Pending(c)) /\ m = Queued(b, Pending(c))
    BY <1>2, PendingRecord DEF NextDispatch
  <2> HIDE DEF n, m
  <2>2. /\ Find(d, x) = 0 => Find(n, x) # 0 /\ n[Find(n, x)] = Pending(c)
        /\ Find(d, x) # 0 => Find(n, x) = Find(d, x) /\ n[Find(n, x)] = d[Find(d, x)]
        /\ Single(n, x) <=> Single(d, x) /\ Find(d, x) = 0
    BY <2>1, AppendRecord
  <2>3. /\ Find(b, x) = 0 => Find(m, x) # 0 /\ m[Find(m, x)] = Pending(c)
        /\ Find(b, x) # 0 => Find(m, x) = Find(b, x) /\ m[Find(m, x)] = b[Find(b, x)]
        /\ Single(m, x) <=> Single(b, x) /\ Find(b, x) = 0
    BY <2>1, AppendRecord
  <2>4. Alike(n, m, x)
    BY <2>2, <2>3 DEF Alike
  <2> QED BY <2>4 DEF n, m
<1>3. CASE c.op \in DOMAIN Before /\ c.arg = x
  <2>1. Moves(d, c) <=> Moves(b, c)
    BY <1>3 DEF Alike, Moves
  <2>2. CASE Moves(d, c)
    <3>1. /\ c.op \in Statuses /\ Find(d, x) # 0 /\ Find(b, x) # 0
          /\ n = Moved(d, Find(d, x), c.op) /\ m = Moved(b, Find(b, x), c.op)
      BY <1>3, <2>1, <2>2, Operations DEF Moves, Statuses, NextDispatch
    <3> HIDE DEF n, m
    <3>2. /\ Find(n, x) = Find(d, x)
          /\ n[Find(n, x)] = [d[Find(d, x)] EXCEPT !.status = c.op]
          /\ Single(n, x) <=> Single(d, x)
      BY <3>1, MoveRecord
    <3>3. /\ Find(m, x) = Find(b, x)
          /\ m[Find(m, x)] = [b[Find(b, x)] EXCEPT !.status = c.op]
          /\ Single(m, x) <=> Single(b, x)
      BY <3>1, MoveRecord
    <3>4. Alike(n, m, x)
      BY <3>1, <3>2, <3>3 DEF Alike
    <3> QED BY <3>4 DEF n, m
  <2>3. CASE ~Moves(d, c)
    BY <1>3, <2>1, <2>3, Operations DEF NextDispatch
  <2> QED BY <2>2, <2>3
<1> QED BY <1>1, <1>2, <1>3, Operations

(* Two engines that agree on everything but the requests of a set.         *)
Same(D, a, b) ==
  /\ a.owner = b.owner /\ a.cursor = b.cursor /\ a.mailbox = b.mailbox
  /\ \A x \in Requests \ D : Alike(a.dispatch, b.dispatch, x)

LEMMA EngineFieldTypes ==
  ASSUME NEW e \in Engine
  PROVE  e.dispatch \in Dispatches
  BY DEF Engine, Dispatches

LEMMA SameNext ==
  ASSUME NEW D, NEW a \in Engine, NEW b \in Engine, NEW c \in Commands, Same(D, a, b)
  PROVE  Same(D, ReplayEvent(a, c), ReplayEvent(b, c))
<1>1. /\ ReplayEvent(a, c).owner = ReplayEvent(b, c).owner
      /\ ReplayEvent(a, c).cursor = ReplayEvent(b, c).cursor
      /\ ReplayEvent(a, c).mailbox = ReplayEvent(b, c).mailbox
  BY ReplayRest DEF Same
<1>2. ASSUME NEW x \in Requests \ D
      PROVE  Alike(ReplayEvent(a, c).dispatch, ReplayEvent(b, c).dispatch, x)
  <2>1. Alike(NextDispatch(a.dispatch, c), NextDispatch(b.dispatch, c), x)
    BY EngineFieldTypes, AlikeNext DEF Same
  <2> QED BY <2>1, ReplayDispatch
<1> QED BY <1>1, <1>2 DEF Same

LEMMA SameDropped ==
  ASSUME NEW D, NEW a \in Engine, NEW b \in Engine, NEW c \in Commands, Same(D, a, b),
         AboutRequest(c), c.arg \in D
  PROVE  Same(D, ReplayEvent(a, c), b)
<1>1. ASSUME NEW x \in Requests \ D
      PROVE  Alike(ReplayEvent(a, c).dispatch, b.dispatch, x)
  <2>1. Alike(NextDispatch(a.dispatch, c), a.dispatch, x)
    BY EngineFieldTypes, OthersAlike
  <2>2. Alike(a.dispatch, b.dispatch, x)
    BY DEF Same
  <2> QED BY <2>1, <2>2, AlikeTransitive, ReplayDispatch
<1> QED BY <1>1, ReplayDispatch DEF Same

LEMMA SameTransitive ==
  ASSUME NEW D, NEW a, NEW b, NEW c, Same(D, a, b), Same(D, b, c)
  PROVE  Same(D, a, c)
  BY AlikeTransitive DEF Same

(* Replaying a compacted log gives the same engine as replaying the log,   *)
(* except for the requests that compaction dropped.                        *)
LEMMA CompactReplay ==
  ASSUME NEW e, NEW log \in Seq(Commands)
  PROVE  Same(Done(e.dispatch), Replay(log), Replay(Compact(e, log)))
<1> DEFINE D == Done(e.dispatch)
<1>1. PICK f : /\ Compact(e, log) = f[Len(log)]
               /\ f[0] = <<>>
               /\ \A n \in 1..Len(log) :
                    f[n] = IF AboutRequest(log[n]) /\ log[n].arg \in D
                           THEN f[n - 1] ELSE Append(f[n - 1], log[n])
  BY CompactFunction
<1>2. PICK g : /\ Replay(log) = g[Len(log)]
               /\ g[0] = NewEngine
               /\ \A n \in 1..Len(log) : g[n] = ReplayEvent(g[n - 1], log[n])
  BY ReplayFunction
<1> HIDE DEF D
<1> DEFINE S == {n \in Nat : n <= Len(log) =>
                   f[n] \in Seq(Commands) /\ g[n] \in Engine /\ Same(D, g[n], Replay(f[n]))}
<1>3. 0 \in S
  <2>1. f[0] \in Seq(Commands) /\ g[0] \in Engine /\ Replay(f[0]) = g[0]
    BY <1>1, <1>2, NewEngineType, ReplayNothing
  <2>2. Same(D, g[0], g[0])
    BY DEF Same, Alike
  <2> QED BY <2>1, <2>2
<1>4. ASSUME NEW n \in Nat, n \in S PROVE n + 1 \in S
  <2> SUFFICES ASSUME n + 1 <= Len(log)
               PROVE  /\ f[n + 1] \in Seq(Commands) /\ g[n + 1] \in Engine
                      /\ Same(D, g[n + 1], Replay(f[n + 1]))
    OBVIOUS
  <2> DEFINE c == log[n + 1]
  <2>1. n + 1 \in 1..Len(log) /\ c \in Commands /\ (n + 1) - 1 = n
    OBVIOUS
  <2>2. f[n] \in Seq(Commands) /\ g[n] \in Engine /\ Same(D, g[n], Replay(f[n]))
    BY <1>4, <2>1
  <2>3. Replay(f[n]) \in Engine
    BY <2>2, ReplayType
  <2>4. /\ g[n + 1] = ReplayEvent(g[n], c)
        /\ f[n + 1] = IF AboutRequest(c) /\ c.arg \in D THEN f[n] ELSE Append(f[n], c)
    BY <1>1, <1>2, <2>1
  <2> HIDE DEF c
  <2>5. g[n + 1] \in Engine
    BY <2>1, <2>2, <2>4, ReplayEventType
  <2>6. CASE AboutRequest(c) /\ c.arg \in D
    BY <2>1, <2>2, <2>3, <2>4, <2>5, <2>6, SameDropped
  <2>7. CASE ~(AboutRequest(c) /\ c.arg \in D)
    <3>1. f[n + 1] = Append(f[n], c)
      BY <2>4, <2>7
    <3>2. f[n + 1] \in Seq(Commands)
      BY <2>1, <2>2, <3>1, AppendProperties
    <3>3. Replay(f[n + 1]) = ReplayEvent(Replay(f[n]), c)
      BY <2>1, <2>2, <3>1, ReplayAppend
    <3>4. Same(D, g[n + 1], Replay(f[n + 1]))
      BY <2>1, <2>2, <2>3, <2>4, <3>3, SameNext
    <3> QED BY <2>5, <3>2, <3>4
  <2> QED BY <2>6, <2>7
<1> HIDE DEF S
<1>5. \A n \in Nat : n \in S
  BY <1>3, <1>4, SetInduction
<1>6. Len(log) \in Nat /\ Len(log) \in S
  BY <1>5
<1> QED BY <1>1, <1>2, <1>6 DEF S, D

(* What the log tells of an engine.                                        *)
Story(e, log) ==
  e \in Engine /\ log \in Seq(Commands) /\ Same(Done(e.dispatch), e, Replay(log))

LEMMA AcceptedEvent ==
  ASSUME NEW e, NEW c \in Commands, Accepts(e, c)
  PROVE  ReplayEvent(e, c) = Effect(e, c)
<1>1. CASE c.op = "renew"
  <2>1. e.owner = c.arg /\ AsReplayed(c).op = "acquire" /\ AsReplayed(c).arg = c.arg
    BY <1>1, Operations DEF Accepts, AsReplayed, Commands
  <2>2. Accepts(e, AsReplayed(c))
    BY <2>1, Operations DEF Accepts
  <2> QED BY <2>2, AsReplayedType
<1>2. CASE c.op # "renew"
  BY <1>2, AsReplayedType DEF AsReplayed
<1> QED BY <1>1, <1>2

(* A finished dispatch stays finished.                                     *)
LEMMA DoneGrows ==
  ASSUME NEW d \in Dispatches, NEW c \in Commands
  PROVE  Done(d) \subseteq Done(NextDispatch(d, c))
<1> SUFFICES ASSUME NEW j \in DOMAIN d, d[j].status \in Terminal
             PROVE  d[j].id \in Done(NextDispatch(d, c))
  BY DEF Done
<1>1. d \in Seq(DispatchRecord) /\ DOMAIN d = 1..Len(d) /\ Len(d) \in Nat
  BY DEF Dispatches
<1>2. CASE c.op = "queue"
  <2> DEFINE n == NextDispatch(d, c)
  <2>1. n = Append(d, Pending(c)) /\ Pending(c) \in DispatchRecord
    BY <1>2, PendingRecord DEF NextDispatch, Queued
  <2> HIDE DEF n
  <2>2. n \in Seq(DispatchRecord) /\ Len(n) = Len(d) + 1 /\ n[j] = d[j]
    BY <1>1, <2>1, AppendProperties
  <2>3. j \in DOMAIN n
    BY <1>1, <2>2
  <2>4. d[j].id \in Done(n)
    BY <2>2, <2>3 DEF Done
  <2> QED BY <2>4 DEF n
<1>3. CASE c.op # "queue" /\ Moves(d, c)
  <2> DEFINE i == Find(d, c.arg)
             n == [d EXCEPT ![i].status = c.op]
  <2>1. NextDispatch(d, c) = n
    BY <1>3 DEF NextDispatch, Moved
  <2>2. j # i
    BY <1>3 DEF Moves, Before, Terminal
  <2>3. n[j] = d[j] /\ j \in DOMAIN n
    BY <1>1, <2>2
  <2> HIDE DEF n
  <2>4. d[j].id \in Done(n)
    BY <2>3 DEF Done
  <2> QED BY <2>1, <2>4
<1>4. CASE c.op # "queue" /\ ~Moves(d, c)
  BY <1>4 DEF NextDispatch, Done
<1> QED BY <1>2, <1>3, <1>4

LEMMA StoryAppend ==
  ASSUME NEW e, NEW log, NEW c \in Commands, Story(e, log), Accepts(e, c)
  PROVE  Story(Effect(e, c), Append(log, c))
<1> DEFINE a == Effect(e, c)
           D == Done(e.dispatch)
<1>1. e \in Engine /\ log \in Seq(Commands) /\ Replay(log) \in Engine
      /\ Same(D, e, Replay(log))
  BY ReplayType DEF Story
<1>2. a = ReplayEvent(e, c) /\ a \in Engine
  BY <1>1, AcceptedEvent, EffectType
<1>3. D \subseteq Done(a.dispatch)
  BY <1>1, <1>2, ReplayDispatch, EngineFieldTypes, DoneGrows
<1> HIDE DEF a, D
<1>4. Append(log, c) \in Seq(Commands)
  BY <1>1, AppendProperties
<1>5. Replay(Append(log, c)) = ReplayEvent(Replay(log), c)
  BY <1>1, ReplayAppend
<1>6. Same(D, a, Replay(Append(log, c)))
  BY <1>1, <1>2, <1>5, SameNext
<1>7. Same(Done(a.dispatch), a, Replay(Append(log, c)))
  BY <1>3, <1>6 DEF Same
<1>8. Story(a, Append(log, c))
  BY <1>2, <1>4, <1>7 DEF Story
<1> QED BY <1>8 DEF a

LEMMA StoryCompact ==
  ASSUME NEW e, NEW log, Story(e, log)
  PROVE  Story(e, Compact(e, log))
<1>1. /\ e \in Engine /\ Compact(e, log) \in Seq(Commands)
      /\ Same(Done(e.dispatch), e, Replay(log))
      /\ Same(Done(e.dispatch), Replay(log), Replay(Compact(e, log)))
  BY CompactType, CompactReplay DEF Story
<1> QED BY <1>1, SameTransitive DEF Story

(* The requests that are still open, and were queued once, are in the      *)
(* replayed engine as they are in this one.                                *)
LEMMA StoryOpen ==
  ASSUME NEW e, NEW log, Story(e, log)
  PROVE  /\ Replay(log).owner = e.owner /\ Replay(log).cursor = e.cursor
         /\ Replay(log).mailbox = e.mailbox
         /\ OpenOnce(e.dispatch) \subseteq OpenOnce(Replay(log).dispatch)
<1> DEFINE d == e.dispatch
           b == Replay(log).dispatch
<1>1. /\ d \in Dispatches /\ b \in Dispatches /\ Same(Done(d), e, Replay(log))
  BY ReplayType, EngineFieldTypes DEF Story
<1>2. ASSUME NEW j \in DOMAIN d, d[j].status \notin Terminal,
             \A k \in DOMAIN d : d[k].id = d[j].id => k = j
      PROVE  d[j] \in OpenOnce(b)
  <2> DEFINE x == d[j].id
  <2>1. /\ d \in Seq(DispatchRecord) /\ b \in Seq(DispatchRecord)
        /\ DOMAIN d = 1..Len(d) /\ DOMAIN b = 1..Len(b)
    BY <1>1 DEF Dispatches
  <2>a. x \in Requests
    <3>1. d[j] \in DispatchRecord
      BY <1>2, <2>1
    <3> QED BY <3>1 DEF DispatchRecord
  <2> HIDE DEF d, b
  <2>2. x \notin Done(d)
    BY <1>2 DEF Done
  <2>3. Find(d, x) = j
    BY <1>2, <2>1, FindFirst
  <2>4. Single(d, x)
    BY <1>2 DEF Single
  <2>5. Alike(d, b, x)
    BY <1>1, <2>a, <2>2 DEF Same, d, b
  <2>6. j # 0
    BY <1>2, <2>1
  <2>7. Find(b, x) # 0 /\ b[Find(b, x)] = d[j] /\ Single(b, x)
    BY <2>3, <2>4, <2>5, <2>6 DEF Alike
  <2>8. Find(b, x) \in DOMAIN b
    BY <2>1, <2>7, FindFirst
  <2>9. \A k \in DOMAIN b : b[k].id = b[Find(b, x)].id => k = Find(b, x)
    BY <2>7, <2>8 DEF Single
  <2> QED BY <1>2, <2>7, <2>8, <2>9 DEF OpenOnce
<1> QED BY <1>1, <1>2 DEF Same, OpenOnce

(***************************************************************************)
(* Types                                                                   *)
(***************************************************************************)

Process ==
  [at : Places, cmd : Commands, compact : BOOLEAN, eng : Engine,
   loaded : BOOLEAN, log : Seq(Commands), dirty : SUBSET FileNames,
   next : 1..9]

Typed ==
  /\ files = [f \in FileNames |-> files[f]]
  /\ present \subseteq FileNames
  /\ garbled \in {"no", "empty", "torn"}
  /\ "snapshot" \in present => /\ files["snapshot"].owner \in Owners \cup {None}
                               /\ files["snapshot"].cursor \in Cursors \cup {None}
  /\ files["events"] \in Seq(Commands)
  /\ files["dispatch"] \in Seq(DispatchRecord)
  /\ files["mailbox"] \in Seq(MailboxRecord)
  /\ run \in [Execs -> Process]
  /\ \A p \in Execs : run[p].at # "write" => run[p].next = 1
  /\ granted \subseteq Owners

LEMMA FileList ==
  /\ Len(FileOrder) = 8 /\ DOMAIN FileOrder = 1..8
  /\ FileNames = {"snapshot", "events", "authority", "backlog", "readiness",
                  "replay", "dispatch", "mailbox"}
<1>1. /\ Len(FileOrder) = 8 /\ DOMAIN FileOrder = 1..8
      /\ FileOrder[1] = "snapshot" /\ FileOrder[2] = "events"
      /\ FileOrder[3] = "authority" /\ FileOrder[4] = "backlog"
      /\ FileOrder[5] = "readiness" /\ FileOrder[6] = "replay"
      /\ FileOrder[7] = "dispatch" /\ FileOrder[8] = "mailbox"
  BY DEF FileOrder
<1> QED BY <1>1 DEF FileNames

LEMMA NoProcessType == NoProcess \in Process /\ NoProcess.at = "idle" /\ NoProcess.next = 1
<1>1. [op |-> "capture", arg |-> None] \in Commands
  BY DEF Commands
<1>2. <<>> \in Seq(Commands)
  OBVIOUS
<1> QED BY <1>1, <1>2, NewEngineType DEF NoProcess, Process, Places

(* A step that moves one process and touches no file.                      *)
LEMMA TypedMove ==
  ASSUME Typed, NEW p \in Execs, NEW from, NEW r \in Process, Goto(p, from, r),
         r.at # "write" => r.next = 1,
         UNCHANGED <<files, present, garbled>>, granted' \subseteq Owners
  PROVE  Typed'
<1>1. run' \in [Execs -> Process] /\ run'[p] = r
      /\ \A q \in Execs : q # p => run'[q] = run[q]
  BY DEF Typed, Goto
<1> QED BY <1>1 DEF Typed

LEMMA TypedStart ==
  ASSUME Typed, NEW p \in Execs,
         InitDir(p) \/ \E c \in Commands, compact \in BOOLEAN : Exec(p, c, compact)
  PROVE  Typed'
<1>1. granted' \subseteq Owners /\ UNCHANGED <<files, present, garbled>>
  BY DEF Typed, InitDir, Exec
<1>2. ASSUME NEW c \in Commands, NEW compact \in BOOLEAN, Exec(p, c, compact)
      PROVE  Typed'
  <2> DEFINE r == [NoProcess EXCEPT !.at = "snapshot", !.cmd = c, !.compact = compact]
  <2>1. r \in Process /\ r.at = "snapshot" /\ r.next = 1 /\ Goto(p, "idle", r)
    BY <1>2, NoProcessType DEF Exec, Process, Places
  <2> HIDE DEF r
  <2> QED BY <1>1, <2>1, TypedMove
<1>3. CASE InitDir(p)
  <2> DEFINE r == [NoProcess EXCEPT !.at = "write"]
  <2>1. r \in Process /\ r.at = "write" /\ Goto(p, "idle", r)
    BY <1>3, NoProcessType DEF InitDir, Process, Places
  <2> HIDE DEF r
  <2> QED BY <1>1, <2>1, TypedMove
<1> QED BY <1>2, <1>3

LEMMA TypedLoad ==
  ASSUME Typed, NEW p \in Execs, LoadSnapshot(p) \/ LoadDispatch(p) \/ LoadMailbox(p)
  PROVE  Typed'
<1> DEFINE old == run[p]
           snapshot == [old.eng EXCEPT !.owner = files.snapshot.owner,
                                       !.cursor = files.snapshot.cursor]
           dispatch == [old.eng EXCEPT !.dispatch = files.dispatch]
           mailbox == [old.eng EXCEPT !.mailbox = files.mailbox]
<1>1. old \in Process /\ old.eng \in Engine /\ granted \subseteq Owners
  BY DEF Typed, Process
<1>2. ASSUME NEW name, NEW next, NEW e, Load(p, name, next, e),
             name \in present => e \in Engine,
             name \in {"snapshot", "dispatch", "mailbox"},
             next \in {"dispatch", "mailbox", "events", "apply"}
      PROVE  Typed'
  <2> DEFINE absent == [old EXCEPT !.at = "replay"]
             loaded == [old EXCEPT !.at = next, !.eng = e]
  <2>1. /\ UNCHANGED <<files, present, garbled>> /\ granted' \subseteq Owners
        /\ old.next = 1
    BY <1>1, <1>2 DEF Load, Typed, Goto
  <2>2. CASE name \notin present
    <3>1. absent \in Process /\ absent.next = 1 /\ Goto(p, name, absent)
      BY <1>1, <1>2, <2>1, <2>2 DEF Load, Process, Places
    <3> HIDE DEF absent
    <3> QED BY <2>1, <3>1, TypedMove
  <2>3. CASE name \in present
    <3>1. loaded \in Process /\ loaded.next = 1 /\ Goto(p, name, loaded)
      BY <1>1, <1>2, <2>1, <2>3 DEF Load, Process, Places
    <3> HIDE DEF loaded
    <3> QED BY <2>1, <3>1, TypedMove
  <2> QED BY <2>2, <2>3
<1>3. CASE LoadSnapshot(p)
  <2>1. "snapshot" \in present => snapshot \in Engine
    BY <1>1 DEF Typed, Engine
  <2> QED BY <1>2, <1>3, <2>1 DEF LoadSnapshot
<1>4. CASE LoadDispatch(p)
  <2>1. dispatch \in Engine
    BY <1>1 DEF Typed, Engine
  <2> QED BY <1>2, <1>4, <2>1 DEF LoadDispatch
<1>5. CASE LoadMailbox(p)
  <2>1. mailbox \in Engine
    BY <1>1 DEF Typed, Engine
  <2> QED BY <1>2, <1>5, <2>1 DEF LoadMailbox
<1> QED BY <1>3, <1>4, <1>5

LEMMA TypedReadEvents ==
  ASSUME Typed, NEW p \in Execs, ReadEvents(p)
  PROVE  Typed'
<1> DEFINE old == run[p]
           keep == old.compact /\ ~Unreadable
           log == IF old.compact /\ ~Unreadable THEN files.events ELSE <<>>
           with(e) == [old EXCEPT !.at = "apply", !.eng = e,
                                  !.loaded = keep, !.log = log]
<1>1. /\ old \in Process /\ old.eng \in Engine /\ granted' \subseteq Owners
      /\ UNCHANGED <<files, present, garbled>> /\ old.next = 1
  BY DEF Typed, Process, ReadEvents, Goto
<1>2. Replay(files.events) \in Engine /\ NewEngine \in Engine /\ log \in Seq(Commands)
  BY ReplayType, NewEngineType DEF Typed
<1>3. PICK e \in Engine : \E from : Goto(p, from, with(e))
  BY <1>1, <1>2 DEF ReadEvents
<1>4. keep \in BOOLEAN
  BY <1>1 DEF Process
<1>5. with(e) \in Process /\ with(e).next = 1
  <2> HIDE DEF keep, log
  <2> QED BY <1>1, <1>2, <1>3, <1>4 DEF Process, Places
<1> HIDE DEF with
<1> QED BY <1>1, <1>3, <1>5, TypedMove

LEMMA TypedApply ==
  ASSUME Typed, NEW p \in Execs, Apply(p)
  PROVE  Typed'
<1> DEFINE old == run[p]
           cmd == old.cmd
           after == Effect(old.eng, cmd)
           log == IF old.loaded THEN Compact(after, Append(old.log, cmd)) ELSE <<>>
           dirty == Dirtied(cmd.op) \cup {"events"}
           new == [old EXCEPT !.at = "write", !.eng = after, !.log = log, !.dirty = dirty]
<1>1. /\ old \in Process /\ old.eng \in Engine /\ cmd \in Commands /\ old.log \in Seq(Commands)
      /\ granted' \subseteq Owners /\ UNCHANGED <<files, present, garbled>>
      /\ Goto(p, "apply", new)
  BY DEF Typed, Process, Apply, Goto
<1>2. after \in Engine
  BY <1>1, EffectType
<1>3. log \in Seq(Commands)
  <2>1. Append(old.log, cmd) \in Seq(Commands)
    BY <1>1, AppendProperties
  <2> HIDE DEF after
  <2>2. Compact(after, Append(old.log, cmd)) \in Seq(Commands)
    BY <2>1, CompactType
  <2> QED BY <2>2
<1>4. dirty \subseteq FileNames
  <2>1. cmd.op \in {"acquire", "renew", "queue", "notified", "delivered", "failed",
                    "replay", "capture", "create", "mailNotified", "mailDelivered"}
    BY <1>1, Operations
  <2> QED BY <2>1, FileList, Operations DEF Dirtied
<1> HIDE DEF after, log, dirty
<1>5. new \in Process /\ new.at = "write"
  BY <1>1, <1>2, <1>3, <1>4 DEF Process, Places
<1> HIDE DEF new
<1> QED BY <1>1, <1>5, TypedMove

LEMMA TypedExit ==
  ASSUME Typed, NEW p \in Execs,
         Refuse(p) \/ Acknowledge(p) \/ FailAppend(p) \/ Crash(p)
  PROVE  Typed'
<1>1. \E from : Goto(p, from, NoProcess)
  BY DEF Refuse, Acknowledge, FailAppend, Crash, Exit
<1>2. UNCHANGED <<files, present, garbled>>
  BY DEF Refuse, Acknowledge, FailAppend, Crash
<1>3. granted' \subseteq Owners
  <2>1. run[p].cmd \in Commands /\ granted \subseteq Owners
    BY DEF Typed, Process
  <2>2. run[p].cmd.op = "acquire" => run[p].cmd.arg \in Owners
    BY <2>1, Operations
  <2> QED BY <2>1, <2>2 DEF Refuse, Acknowledge, FailAppend, Crash
<1> QED BY <1>1, <1>2, <1>3, NoProcessType, TypedMove

LEMMA TypedWrite ==
  ASSUME Typed, NEW p \in Execs, NEW name \in FileNames, Write(p, name)
  PROVE  Typed'
<1> DEFINE old == run[p]
<1>1. /\ old \in Process /\ old.at = "write" /\ old.next <= 8 /\ old.eng \in Engine
  BY FileList DEF Typed, Process, Write, At
<1>2. /\ run' \in [Execs -> Process]
      /\ \A q \in Execs : run'[q].at # "write" => run'[q].next = 1
  <2>1. [old EXCEPT !.next = @ + 1] \in Process
    <3>1. old.next + 1 \in 1..9
      BY <1>1 DEF Process
    <3> QED BY <1>1, <3>1 DEF Process
  <2>2. run' = [run EXCEPT ![p] = [old EXCEPT !.next = @ + 1]]
    BY DEF Write
  <2>3. [old EXCEPT !.next = @ + 1].at = "write"
    BY <1>1 DEF Process
  <2> QED BY <2>1, <2>2, <2>3 DEF Typed
<1>3. NewLog(p) \in Seq(Commands)
  <2>1. Append(files.events, old.cmd) \in Seq(Commands) /\ old.log \in Seq(Commands)
    BY <1>1, AppendProperties DEF Typed, Process
  <2> QED BY <2>1 DEF NewLog
<1>4. /\ files' = [f \in FileNames |-> files'[f]]
      /\ \A f \in FileNames : f # name => files'[f] = files[f]
      /\ name = "events" => files'[name] \in {files[name], NewLog(p)}
      /\ name # "events" => files'[name] \in {files[name], View(old.eng, name)}
      /\ name \notin present /\ name # "events" => files'[name] = View(old.eng, name)
  BY DEF Typed, Write, Due
<1>5. /\ present' = present \cup {name} /\ granted' = granted
      /\ garbled' \in {"no", garbled}
  BY DEF Write
<1>6. /\ View(old.eng, "snapshot").owner = old.eng.owner
      /\ View(old.eng, "snapshot").cursor = old.eng.cursor
      /\ View(old.eng, "dispatch") = old.eng.dispatch
      /\ View(old.eng, "mailbox") = old.eng.mailbox
  BY DEF View
<1>7. /\ old.eng.owner \in Owners \cup {None} /\ old.eng.cursor \in Cursors \cup {None}
      /\ old.eng.dispatch \in Seq(DispatchRecord) /\ old.eng.mailbox \in Seq(MailboxRecord)
  BY <1>1 DEF Engine
<1>8. "snapshot" \in present' => /\ files'["snapshot"].owner \in Owners \cup {None}
                                 /\ files'["snapshot"].cursor \in Cursors \cup {None}
  BY <1>4, <1>5, <1>6, <1>7, FileList DEF Typed
<1>9. /\ files'["events"] \in Seq(Commands)
      /\ files'["dispatch"] \in Seq(DispatchRecord)
      /\ files'["mailbox"] \in Seq(MailboxRecord)
  <2>1. "events" \in FileNames /\ "dispatch" \in FileNames /\ "mailbox" \in FileNames
    BY FileList
  <2> QED BY <1>3, <1>4, <1>6, <1>7, <2>1 DEF Typed
<1> QED BY <1>2, <1>4, <1>5, <1>8, <1>9 DEF Typed

LEMMA TypedDamage ==
  ASSUME Typed, NEW p \in Execs, ShortWrite(p) \/ CrashAfterCreate(p)
  PROVE  Typed'
<1>1. /\ run' = [run EXCEPT ![p] = NoProcess]
      /\ granted' = granted /\ present' = present \cup {"events"}
      /\ garbled' \in {"empty", "torn"}
      /\ files' = files \/ files' = [files EXCEPT !.events = <<>>]
  BY DEF ShortWrite, CrashAfterCreate, Exit, Goto
<1>2. /\ files' = [f \in FileNames |-> files'[f]]
      /\ \A f \in FileNames : f # "events" => files'[f] = files[f]
      /\ files'["events"] \in {files["events"], <<>>}
  <2>1. files = [f \in FileNames |-> files[f]] /\ "events" \in FileNames
    BY FileList DEF Typed
  <2>2. CASE files' = files
    BY <2>1, <2>2
  <2>3. CASE files' = [files EXCEPT !["events"] = <<>>]
    BY <2>1, <2>3
  <2> QED BY <1>1, <2>2, <2>3
<1>3. /\ run' \in [Execs -> Process]
      /\ \A q \in Execs : run'[q].at # "write" => run'[q].next = 1
  BY <1>1, NoProcessType DEF Typed
<1>4. files'["events"] \in Seq(Commands)
  <2>1. <<>> \in Seq(Commands) /\ files["events"] \in Seq(Commands)
    BY EmptySeq DEF Typed
  <2> QED BY <1>2, <2>1
<1>5. /\ files'["snapshot"] = files["snapshot"] /\ files'["dispatch"] = files["dispatch"]
      /\ files'["mailbox"] = files["mailbox"]
  BY <1>2, FileList
<1>6. present' \subseteq FileNames
  BY <1>1, FileList DEF Typed
<1> QED BY <1>1, <1>2, <1>3, <1>4, <1>5, <1>6 DEF Typed

LEMMA TypedInvariant == Spec => []Typed
<1>1. Init => Typed
  <2> SUFFICES ASSUME Init PROVE Typed
    OBVIOUS
  <2>1. run \in [Execs -> Process] /\ \A p \in Execs : run[p].next = 1
    <3>1. NoProcess \in Process /\ NoProcess.next = 1 /\ run = [p \in Execs |-> NoProcess]
      BY NoProcessType DEF Init
    <3> QED BY <3>1
  <2>2. /\ files["events"] = <<>> /\ files["dispatch"] = <<>> /\ files["mailbox"] = <<>>
        /\ files = [f \in FileNames |-> files[f]]
    BY FileList DEF Init
  <2>3. /\ <<>> \in Seq(Commands) /\ <<>> \in Seq(DispatchRecord)
        /\ <<>> \in Seq(MailboxRecord)
    BY EmptySeq
  <2>4. present = {} /\ garbled = "no" /\ granted = {}
    BY DEF Init
  <2> QED BY <2>1, <2>2, <2>3, <2>4 DEF Typed
<1>2. Typed /\ [Next]_vars => Typed'
  <2> SUFFICES ASSUME Typed, [Next]_vars PROVE Typed'
    OBVIOUS
  <2>1. CASE UNCHANGED vars
    BY <2>1 DEF vars, Typed
  <2> QED
    BY <2>1, TypedStart, TypedLoad, TypedReadEvents, TypedApply, TypedExit,
       TypedWrite, TypedDamage DEF Next
<1> QED BY <1>1, <1>2, PTL DEF Spec

(***************************************************************************)
(* The lease                                                               *)
(***************************************************************************)

NoOverlap == "overlap" \notin Faults

Fields == {"at", "cmd", "compact", "eng", "loaded", "log", "dirty", "next"}

(* A process record; only a process that writes has advanced in FileOrder. *)
WellFormed(r) ==
  /\ DOMAIN r = Fields
  /\ r.at \in Places
  /\ r.cmd \in Commands
  /\ r.next \in Nat \ {0}
  /\ r.at # "write" => r.next = 1
  /\ r.at \in {"snapshot", "dispatch", "mailbox"} => "owner" \in DOMAIN r.eng

(* The parts of the state have their shape (an engine rebuilt from the log *)
(* is whatever Replay makes of it).                                        *)
Shape ==
  /\ DOMAIN files = FileNames
  /\ present \subseteq FileNames
  /\ run = [p \in Execs |-> run[p]]
  /\ \A p \in Execs : WellFormed(run[p])
  /\ granted \subseteq Owners

(* One process at a time.                                                  *)
Solo == \A p, q \in Execs : run[p].at # "idle" /\ run[q].at # "idle" => p = q

(* A process that writes has left every file behind it in place.           *)
Written ==
  \A p \in Execs : run[p].at = "write" =>
    \A i \in DOMAIN FileOrder : i < run[p].next => FileOrder[i] \in present

(* A process that is about to report an acquisition has its owner in the   *)
(* snapshot it writes first, and a log that parses once that is written.   *)
Acquiring ==
  \A p \in Execs : run[p].at = "write" /\ run[p].cmd.op = "acquire" =>
    /\ {"snapshot", "events"} \subseteq run[p].dirty
    /\ run[p].eng.owner = run[p].cmd.arg
    /\ run[p].next > 1 => files.snapshot.owner = run[p].cmd.arg
    /\ run[p].next > 2 => garbled = "no"

(* Once an acquisition has been reported, the directory is complete, and   *)
(* every engine that is or will be written carries its owner.              *)
Loaded(r) == \/ r.at \in {"dispatch", "mailbox", "events", "apply"}
             \/ r.at = "write" /\ "snapshot" \in r.dirty

Honoured ==
  granted # {} /\ garbled # "torn" =>
    /\ present = FileNames
    /\ garbled = "no"
    /\ granted = {files.snapshot.owner}
    /\ \A p \in Execs : /\ run[p].at # "replay"
                        /\ Loaded(run[p]) => run[p].eng.owner = files.snapshot.owner

(* A torn log is on disk and in no process, so it is never repaired and no *)
(* later acquisition is reported.                                          *)
Torn ==
  garbled = "torn" =>
    /\ "events" \in present
    /\ \A p \in Execs : run[p].at # "idle" => ~run[p].loaded

IInv == Shape /\ Solo /\ Written /\ Acquiring /\ Honoured /\ Torn /\ SoleOwner

USE NoneAssumption DEF NoOverlap

LEMMA Files ==
  /\ FileOrder[1] = "snapshot" /\ FileOrder[2] = "events"
  /\ Len(FileOrder) = 8 /\ DOMAIN FileOrder = 1..8
  /\ {"snapshot", "events", "dispatch", "mailbox"} \subseteq FileNames
  /\ \A i \in DOMAIN FileOrder : FileOrder[i] = "snapshot" => i = 1
  /\ \A i \in DOMAIN FileOrder : FileOrder[i] = "events" => i = 2
<1>1. /\ FileOrder[1] = "snapshot" /\ FileOrder[2] = "events"
      /\ Len(FileOrder) = 8 /\ DOMAIN FileOrder = 1..8
      /\ FileOrder[7] = "dispatch" /\ FileOrder[8] = "mailbox"
  BY DEF FileOrder
<1>2. \A i \in 1..8 : /\ FileOrder[i] = "snapshot" => i = 1
                      /\ FileOrder[i] = "events" => i = 2
  BY DEF FileOrder
<1> QED BY <1>1, <1>2 DEF FileNames

LEMMA CommandArgs ==
  /\ \A c \in Commands : c.op = "acquire" => c.arg \in Owners
  /\ [op |-> "capture", arg |-> None] \in Commands
  BY DEF Commands

LEMMA NothingRuns == WellFormed(NoProcess)
  BY CommandArgs DEF WellFormed, Fields, NoProcess, Places, NewEngine

(* A step of one process leaves the others alone.                          *)
LEMMA OthersStay ==
  ASSUME Shape, NEW p \in Execs, NEW from, NEW r, Goto(p, from, r)
  PROVE  /\ run' = [q \in Execs |-> run'[q]]
         /\ run'[p] = r
         /\ \A q \in Execs : q # p => run'[q] = run[q]
  BY DEF Shape, Goto

LEMMA InitIInv == Init => IInv
<1> SUFFICES ASSUME Init PROVE IInv
  OBVIOUS
<1> USE DEF Init
<1>1. Shape
  BY NothingRuns DEF Shape
<1>2. Solo /\ Written /\ Acquiring /\ Honoured /\ Torn /\ SoleOwner
  BY DEF Solo, Written, Acquiring, Honoured, Torn, SoleOwner, NoProcess
<1> QED BY <1>1, <1>2 DEF IInv

(***************************************************************************)
(* Steps that only move one process                                        *)
(***************************************************************************)

(* What a process may become in a step that touches no file.               *)
LEMMA MoveStep ==
  ASSUME IInv, NEW p \in Execs, NEW from, NEW r, Goto(p, from, r),
         UNCHANGED <<files, present, garbled, granted>>,
         WellFormed(r),
         r.at = "idle" \/ run[p].at # "idle" \/ Quiet,
         r.next = 1,
         r.at = "write" /\ r.cmd.op = "acquire" =>
           {"snapshot", "events"} \subseteq r.dirty /\ r.eng.owner = r.cmd.arg,
         granted # {} /\ garbled # "torn" =>
           r.at # "replay" /\ (Loaded(r) => r.eng.owner = files.snapshot.owner),
         garbled = "torn" => ~r.loaded
  PROVE  IInv'
<1> USE DEF IInv
<1>1. /\ run' = [q \in Execs |-> run'[q]]
      /\ run'[p] = r
      /\ \A q \in Execs : q # p => run'[q] = run[q]
  BY OthersStay
<1>2. Shape'
  BY <1>1 DEF Shape
<1>3. Solo'
  BY <1>1 DEF Solo, Quiet
<1>4. Written'
  BY <1>1, Files DEF Written
<1>5. Acquiring'
  BY <1>1 DEF Acquiring
<1>6. Honoured'
  BY <1>1 DEF Honoured
<1>7. Torn' /\ SoleOwner'
  BY <1>1 DEF Torn, SoleOwner
<1> QED BY <1>2, <1>3, <1>4, <1>5, <1>6, <1>7

(* A process that ends, wherever it is.                                    *)
LEMMA ExitStep ==
  ASSUME IInv, NEW p \in Execs, NEW from, Exit(p, from),
         UNCHANGED <<files, present, garbled, granted>>
  PROVE  IInv'
<1>1. NoProcess.at = "idle" /\ NoProcess.next = 1 /\ ~NoProcess.loaded
  BY DEF NoProcess
<1> QED BY <1>1, NothingRuns, MoveStep DEF Exit, Loaded

LEMMA ExecStep ==
  ASSUME NoOverlap, IInv, NEW p \in Execs,
         NEW c \in Commands, NEW compact \in BOOLEAN, Exec(p, c, compact)
  PROVE  IInv'
<1> DEFINE r == [NoProcess EXCEPT !.at = "snapshot", !.cmd = c,
                                  !.compact = compact]
<1>1. /\ DOMAIN r = DOMAIN NoProcess /\ r.at = "snapshot" /\ r.cmd = c
      /\ ~r.loaded /\ r.next = 1 /\ r.eng = NewEngine
  BY DEF NoProcess
<1>2. WellFormed(r) /\ r.at = "snapshot" /\ r.next = 1
  BY <1>1, NothingRuns DEF WellFormed, Places, NewEngine
<1>3. /\ Quiet /\ Goto(p, "idle", r)
      /\ UNCHANGED <<files, present, garbled, granted>>
  BY DEF Exec, Alone
<1> HIDE DEF r
<1> QED BY <1>1, <1>2, <1>3, MoveStep DEF Loaded

LEMMA InitDirStep ==
  ASSUME NoOverlap, IInv, NEW p \in Execs, InitDir(p)
  PROVE  IInv'
<1> DEFINE r == [NoProcess EXCEPT !.at = "write"]
<1>1. /\ DOMAIN r = DOMAIN NoProcess /\ r.at = "write" /\ r.next = 1
      /\ ~r.loaded /\ r.cmd = [op |-> "capture", arg |-> None] /\ r.dirty = {}
  BY DEF NoProcess
<1>2. WellFormed(r) /\ r.cmd.op = "capture"
  BY <1>1, NothingRuns, CommandArgs DEF WellFormed, Places
<1>3. /\ Quiet /\ Goto(p, "idle", r)
      /\ UNCHANGED <<files, present, garbled, granted>>
  BY DEF InitDir, Alone
<1> HIDE DEF r
<1> QED BY <1>1, <1>2, <1>3, MoveStep DEF Loaded

(* Loading a file: once an owner was told, it is there, and the engine has *)
(* the owner of the snapshot from the first file on.                       *)
LEMMA LoadStep ==
  ASSUME IInv, NEW p \in Execs, NEW name \in FileNames, NEW next, NEW engine,
         Load(p, name, next, engine),
         name \in {"snapshot", "dispatch", "mailbox"},
         next \in {"dispatch", "mailbox", "events", "apply"},
         "owner" \in DOMAIN engine,
         granted # {} /\ garbled # "torn" => engine.owner = files.snapshot.owner
  PROVE  IInv'
<1> DEFINE old == run[p]
<1> DEFINE absent == [old EXCEPT !.at = "replay"]
<1> DEFINE loaded == [old EXCEPT !.at = next, !.eng = engine]
<1>1. WellFormed(old)
  BY DEF IInv, Shape
<1>2. /\ UNCHANGED <<files, present, garbled, granted>> /\ old.at = name
      /\ garbled = "torn" => ~old.loaded
  BY DEF Load, Goto, IInv, Torn
<1>3. CASE name \notin present
  <2>1. /\ WellFormed(absent) /\ absent.at = "replay" /\ absent.next = 1
        /\ absent.loaded = old.loaded
    BY <1>1, <1>2 DEF WellFormed, Fields, Places
  <2>2. Goto(p, name, absent) /\ (granted = {} \/ garbled = "torn")
    BY <1>3 DEF Load, IInv, Honoured
  <2> HIDE DEF absent
  <2> QED BY <1>2, <2>1, <2>2, MoveStep
<1>4. CASE name \in present
  <2>1. /\ DOMAIN loaded = DOMAIN old /\ loaded.at = next
        /\ loaded.eng = engine /\ loaded.cmd = old.cmd /\ loaded.next = old.next
        /\ loaded.loaded = old.loaded
    BY <1>1 DEF WellFormed, Fields
  <2>2. Goto(p, name, loaded)
    BY <1>4 DEF Load
  <2> HIDE DEF loaded
  <2>3. WellFormed(loaded) /\ loaded.next = 1
    BY <1>1, <1>2, <2>1 DEF WellFormed, Places
  <2> QED BY <1>2, <2>1, <2>2, <2>3, MoveStep
<1> QED BY <1>3, <1>4

LEMMA LoadFilesStep ==
  ASSUME IInv, NEW p \in Execs,
         LoadSnapshot(p) \/ LoadDispatch(p) \/ LoadMailbox(p)
  PROVE  IInv'
<1> DEFINE old == run[p]
<1>1. /\ WellFormed(old)
      /\ granted # {} /\ garbled # "torn" /\ Loaded(old) => old.eng.owner = files.snapshot.owner
  BY DEF IInv, Shape, Honoured
<1>2. CASE LoadSnapshot(p)
  <2> DEFINE e == [old.eng EXCEPT !.owner = files.snapshot.owner,
                                  !.cursor = files.snapshot.cursor]
  <2>1. Load(p, "snapshot", "dispatch", e) /\ old.at = "snapshot"
    BY <1>2 DEF LoadSnapshot, Load, Goto
  <2>2. "owner" \in DOMAIN e /\ e.owner = files.snapshot.owner
    BY <1>1, <2>1 DEF WellFormed
  <2> HIDE DEF e
  <2> QED BY <2>1, <2>2, Files, LoadStep
<1>3. CASE LoadDispatch(p)
  <2> DEFINE e == [old.eng EXCEPT !.dispatch = files.dispatch]
  <2>1. Load(p, "dispatch", "mailbox", e) /\ old.at = "dispatch"
    BY <1>3 DEF LoadDispatch, Load, Goto
  <2>2. "owner" \in DOMAIN e /\ e.owner = old.eng.owner
    BY <1>1, <2>1 DEF WellFormed
  <2> HIDE DEF e
  <2> QED BY <1>1, <2>1, <2>2, Files, LoadStep DEF Loaded
<1>4. CASE LoadMailbox(p)
  <2> DEFINE e == [old.eng EXCEPT !.mailbox = files.mailbox]
  <2> DEFINE next == IF old.compact THEN "events" ELSE "apply"
  <2>1. Load(p, "mailbox", next, e) /\ old.at = "mailbox"
    BY <1>4 DEF LoadMailbox, Load, Goto
  <2>2. "owner" \in DOMAIN e /\ e.owner = old.eng.owner
    BY <1>1, <2>1 DEF WellFormed
  <2>3. next \in {"events", "apply"}
    OBVIOUS
  <2> HIDE DEF e, next
  <2> QED BY <1>1, <2>1, <2>2, <2>3, Files, LoadStep DEF Loaded
<1> QED BY <1>2, <1>3, <1>4

LEMMA ReadEventsStep ==
  ASSUME IInv, NEW p \in Execs, ReadEvents(p)
  PROVE  IInv'
<1> DEFINE old == run[p]
           keep == old.compact /\ ~Unreadable
           log == IF old.compact /\ ~Unreadable THEN files.events ELSE <<>>
           with(e) == [old EXCEPT !.at = "apply", !.eng = e,
                                  !.loaded = keep, !.log = log]
<1>1. WellFormed(old)
  BY DEF IInv, Shape
<1>2. PICK e : /\ \E from \in {"replay", "events"} : Goto(p, from, with(e))
               /\ granted # {} /\ garbled # "torn" => e = old.eng
  BY Files DEF ReadEvents, IInv, Honoured, Goto, Unreadable
<1>3. /\ DOMAIN with(e) = DOMAIN old /\ with(e).at = "apply"
      /\ with(e).eng = e /\ with(e).cmd = old.cmd /\ with(e).next = old.next
      /\ with(e).loaded = keep
  BY <1>1 DEF WellFormed, Fields
<1>4. /\ old.at \in {"replay", "events"}
      /\ UNCHANGED <<files, present, garbled, granted>>
  BY DEF ReadEvents, Goto
<1>5. granted # {} /\ garbled # "torn" /\ old.at = "events"
        => old.eng.owner = files.snapshot.owner
  BY <1>4 DEF IInv, Honoured, Loaded
<1>6. /\ garbled = "torn" => ~keep
      /\ granted # {} /\ garbled # "torn" => old.at = "events"
  BY <1>4 DEF Unreadable, IInv, Honoured
<1> HIDE DEF with, keep
<1>7. WellFormed(with(e)) /\ with(e).next = 1
  BY <1>1, <1>3, <1>4 DEF WellFormed, Places
<1> QED BY <1>2, <1>3, <1>4, <1>5, <1>6, <1>7, MoveStep

(* A command that is accepted: an acquisition only from an engine with no  *)
(* other owner, and nothing else changes the owner.                        *)
LEMMA ApplyStep ==
  ASSUME IInv, NEW p \in Execs, Apply(p)
  PROVE  IInv'
<1> DEFINE old == run[p]
           cmd == old.cmd
           after == Effect(old.eng, cmd)
           log == IF old.loaded THEN Compact(after, Append(old.log, cmd)) ELSE <<>>
           new == [old EXCEPT !.at = "write", !.eng = after, !.log = log,
                              !.dirty = Dirtied(cmd.op) \cup {"events"}]
<1>1. /\ WellFormed(old) /\ Goto(p, "apply", new) /\ old.at = "apply"
      /\ Accepts(old.eng, cmd) /\ UNCHANGED <<files, present, garbled, granted>>
  BY DEF Apply, Goto, IInv, Shape
<1>2. /\ DOMAIN new = DOMAIN old /\ new.at = "write" /\ new.eng = after
      /\ new.cmd = cmd /\ new.next = old.next /\ new.loaded = old.loaded
      /\ new.dirty = Dirtied(cmd.op) \cup {"events"}
  BY <1>1 DEF WellFormed, Fields
<1>3. /\ cmd.op = "acquire" => after.owner = cmd.arg
      /\ granted # {} /\ garbled # "torn" => after.owner = old.eng.owner
  <2>1. after.owner = IF cmd.op \in {"acquire", "renew"} THEN cmd.arg
                      ELSE old.eng.owner
    BY DEF Effect
  <2>2. granted # {} /\ garbled # "torn" => old.eng.owner \in Owners
    BY <1>1 DEF IInv, Honoured, Loaded, Shape
  <2>3. /\ cmd.op = "acquire" => old.eng.owner \in {None, cmd.arg}
        /\ cmd.op = "renew" => old.eng.owner = cmd.arg
    BY <1>1 DEF Accepts, Before
  <2> QED BY <2>1, <2>2, <2>3
<1>4. /\ granted # {} /\ garbled # "torn" => old.eng.owner = files.snapshot.owner
      /\ garbled = "torn" => ~old.loaded
  BY <1>1 DEF IInv, Honoured, Loaded, Torn
<1>5. cmd.op = "acquire" => "snapshot" \in Dirtied(cmd.op)
  BY DEF Dirtied
<1> HIDE DEF new, after
<1>6. WellFormed(new) /\ new.next = 1
  BY <1>1, <1>2 DEF WellFormed, Places
<1> QED BY <1>1, <1>2, <1>3, <1>4, <1>5, <1>6, MoveStep

(***************************************************************************)
(* Steps that touch the files                                              *)
(***************************************************************************)

LEMMA WriteStep ==
  ASSUME IInv, NEW p \in Execs, NEW name \in FileNames, Write(p, name)
  PROVE  IInv'
<1> USE DEF IInv
<1>1. /\ WellFormed(run[p]) /\ run[p].at = "write"
      /\ run[p].next \in 1..8 /\ FileOrder[run[p].next] = name
  BY Files DEF Write, At, Shape, WellFormed
<1>2. /\ run' = [q \in Execs |-> run'[q]]
      /\ \A q \in Execs : q # p => run'[q] = run[q]
      /\ DOMAIN run'[p] = DOMAIN run[p] /\ run'[p].next = run[p].next + 1
      /\ run'[p].at = run[p].at /\ run'[p].cmd = run[p].cmd
      /\ run'[p].dirty = run[p].dirty /\ run'[p].eng = run[p].eng
      /\ run'[p].loaded = run[p].loaded
  BY <1>1 DEF Write, Shape, WellFormed, Fields
<1>3. WellFormed(run'[p])
  BY <1>1, <1>2 DEF WellFormed
<1>4. /\ DOMAIN files' = FileNames
      /\ present' = present \cup {name} /\ granted' = granted
      /\ garbled' = IF name = "events" /\ Due(p, name) THEN "no" ELSE garbled
  BY DEF Write, Shape
<1>5. files'.snapshot.owner =
        IF name = "snapshot" /\ Due(p, name) THEN run[p].eng.owner
        ELSE files.snapshot.owner
  <2>1. files'["snapshot"] = IF name = "snapshot" /\ Due(p, name)
                             THEN View(run[p].eng, "snapshot")
                             ELSE files["snapshot"]
    BY Files DEF Write, Shape
  <2>2. View(run[p].eng, "snapshot").owner = run[p].eng.owner
    BY DEF View
  <2> QED BY <2>1, <2>2
<1>6. Shape'
  BY <1>2, <1>3, <1>4 DEF Shape
<1>7. Solo'
  BY <1>2 DEF Solo
<1>8. Written'
  BY <1>1, <1>2, <1>4, Files DEF Solo, Written
<1>9. \A q \in Execs : q # p => run[q].at # "write"
  BY <1>1 DEF Solo
<1>10. Acquiring'
  BY <1>1, <1>2, <1>4, <1>5, <1>9, Files DEF Acquiring, Due
<1>11. garbled = "torn" => garbled' = "torn"
  BY <1>1 DEF Write, Torn, Appends, At, Due
<1>12. Honoured'
  <2>1. granted # {} /\ garbled # "torn" =>
          /\ files'.snapshot.owner = files.snapshot.owner
          /\ garbled' = "no" /\ present' = FileNames
    BY <1>1, <1>4, <1>5 DEF Honoured, Loaded, Due
  <2> QED BY <1>1, <1>2, <1>4, <1>11, <2>1 DEF Honoured, Loaded
<1>13. Torn' /\ SoleOwner'
  BY <1>2, <1>4 DEF Torn, SoleOwner
<1> QED BY <1>6, <1>7, <1>8, <1>10, <1>12, <1>13

(* The event is printed once every file is in place.                       *)
LEMMA AcknowledgeStep ==
  ASSUME IInv, NEW p \in Execs, Acknowledge(p)
  PROVE  IInv'
<1> USE DEF IInv
<1>1. /\ run' = [q \in Execs |-> run'[q]]
      /\ run'[p] = NoProcess
      /\ \A q \in Execs : q # p => run'[q] = run[q]
  BY OthersStay DEF Acknowledge, Exit
<1>2. /\ UNCHANGED <<files, present, garbled>>
      /\ run[p].at = "write" /\ run[p].next > 8 /\ WellFormed(run[p])
  BY Files DEF Acknowledge, Exit, Goto, Shape
<1>3. present = FileNames
  BY <1>2, Files DEF Shape, WellFormed, Written, FileNames
<1>4. \A q \in Execs : run'[q].at = "idle"
  BY <1>1, <1>2 DEF Solo, NoProcess
<1>5. /\ granted' \subseteq Owners
      /\ granted' # {} /\ garbled # "torn"
           => garbled = "no" /\ granted' = {files.snapshot.owner}
      /\ garbled = "torn" => granted' = granted
  <2>1. CASE run[p].cmd.op = "acquire"
    <3>1. /\ garbled = "no" /\ files.snapshot.owner = run[p].cmd.arg
          /\ granted' = granted \cup {run[p].cmd.arg}
          /\ run[p].cmd.arg \in Owners
      BY <1>2, <2>1, CommandArgs DEF Acquiring, Acknowledge, WellFormed
    <3> QED BY <3>1 DEF Honoured, Shape
  <2>2. CASE run[p].cmd.op # "acquire"
    BY <2>2 DEF Honoured, Shape, Acknowledge
  <2> QED BY <2>1, <2>2
<1>6. Shape'
  BY <1>1, <1>2, <1>5, NothingRuns DEF Shape
<1>7. Solo' /\ Written' /\ Acquiring'
  BY <1>4 DEF Solo, Written, Acquiring
<1>8. Honoured'
  BY <1>2, <1>3, <1>4, <1>5 DEF Honoured, Loaded
<1>9. Torn' /\ SoleOwner'
  BY <1>2, <1>4, <1>5 DEF Torn, SoleOwner
<1> QED BY <1>6, <1>7, <1>8, <1>9

(* The log is damaged: in an append to a new file nobody has been told of  *)
(* an acquisition yet, and otherwise the log is torn for good.             *)
LEMMA DamageStep ==
  ASSUME IInv, NEW p \in Execs, ShortWrite(p) \/ CrashAfterCreate(p)
  PROVE  IInv'
<1> USE DEF IInv
<1>1. /\ run' = [q \in Execs |-> run'[q]]
      /\ run'[p] = NoProcess
      /\ \A q \in Execs : q # p => run'[q] = run[q]
  BY OthersStay DEF ShortWrite, CrashAfterCreate, Exit
<1>2. /\ granted' = granted /\ present' = present \cup {"events"}
      /\ DOMAIN files' = DOMAIN files /\ run[p].at = "write"
  BY DEF ShortWrite, CrashAfterCreate, Exit, Goto
<1>3. garbled' = "torn" \/ (garbled' = "empty" /\ granted = {})
  <2>1. "events" \in FileNames
    BY Files
  <2> QED BY <2>1 DEF ShortWrite, CrashAfterCreate, Honoured, Torn
<1>4. Shape'
  BY <1>1, <1>2, NothingRuns, Files DEF Shape
<1>5. \A q \in Execs : run'[q].at = "idle"
  BY <1>1, <1>2 DEF Solo, NoProcess
<1>6. Solo' /\ Written' /\ Acquiring' /\ Honoured' /\ Torn' /\ SoleOwner'
  BY <1>2, <1>3, <1>5 DEF Solo, Written, Acquiring, Honoured, Torn, SoleOwner
<1> QED BY <1>4, <1>6

LEMMA StepIInv == NoOverlap /\ IInv /\ [Next]_vars => IInv'
<1> SUFFICES ASSUME NoOverlap, IInv, [Next]_vars PROVE IInv'
  OBVIOUS
<1>1. CASE UNCHANGED vars
  BY <1>1 DEF vars, IInv, Shape, Solo, Written, Acquiring, Honoured, Loaded,
              Torn, SoleOwner
<1>2. ASSUME NEW p \in Execs, Refuse(p) \/ FailAppend(p) \/ Crash(p) PROVE IInv'
  BY <1>2, ExitStep DEF Refuse, FailAppend, Crash
<1> QED
  BY <1>1, <1>2, ExecStep, InitDirStep, LoadFilesStep,
     ReadEventsStep, ApplyStep, WriteStep, AcknowledgeStep,
     DamageStep DEF Next

LEMMA Invariance == NoOverlap /\ Spec => []IInv
<1>1. CASE NoOverlap
  BY <1>1, InitIInv, StepIInv, PTL DEF Spec
<1> QED BY <1>1

(***************************************************************************)
(* The compatibility views                                                 *)
(***************************************************************************)

(* Without faults the directory is either empty or complete, and complete  *)
(* it tells one story.                                                     *)
NoFaults == Faults = {}

Views == FileNames \ {"events"}
Blank == present = {}
Whole == present = FileNames /\ \A n \in Views : files[n] = View(OnDisk, n)

(* What a process has read so far is what is on disk.                      *)
EngineFields == {"owner", "cursor", "dispatch", "mailbox"}
Reading(r) ==
  /\ r.at \in {"snapshot", "dispatch", "mailbox", "events", "apply"}
       => DOMAIN r.eng = EngineFields
  /\ r.at \in {"snapshot", "dispatch", "mailbox", "replay", "events", "apply"}
       => Blank \/ Whole
  /\ r.at = "replay" => Blank
  /\ r.at \in {"dispatch", "mailbox", "events"} => Whole
  /\ Whole =>
       /\ r.at \in {"dispatch", "mailbox", "events", "apply"}
            => r.eng.owner = OnDisk.owner /\ r.eng.cursor = OnDisk.cursor
       /\ r.at \in {"mailbox", "events", "apply"}
            => r.eng.dispatch = OnDisk.dispatch
       /\ r.at \in {"events", "apply"} => r.eng.mailbox = OnDisk.mailbox

(* The files behind a process that writes are views of its engine, and of  *)
(* those ahead only the dirty and the missing ones are not: a command      *)
(* leaves alone what it did not dirty.                                     *)
Catching(p) ==
  \A i \in DOMAIN FileOrder : FileOrder[i] \in Views =>
    /\ i < run[p].next => files[FileOrder[i]] = View(run[p].eng, FileOrder[i])
    /\ i >= run[p].next => \/ Due(p, FileOrder[i])
                          \/ files[FileOrder[i]] = View(run[p].eng, FileOrder[i])

Writing(p) ==
  run[p].at = "write" => (Whole /\ run[p].dirty = {}) \/ Catching(p)

ViewsInv ==
  /\ garbled = "no"
  /\ Quiet => Blank \/ Whole
  /\ \A p \in Execs : Reading(run[p]) /\ Writing(p)

(* The dirty set of a command covers every view the command changes.       *)
LEMMA DirtyCoversChanges ==
  ASSUME NEW e, NEW c \in Commands, NEW n \in Views, n \notin Dirtied(c.op)
  PROVE  View(Effect(e, c), n) = View(e, n)
<1> DEFINE a == Effect(e, c)
<1>1. n \in {"snapshot", "authority", "backlog", "readiness", "replay",
             "dispatch", "mailbox"}
  BY DEF Views, FileNames, FileOrder
<1>2. c.op \notin {"acquire", "renew"} => a.owner = e.owner
  BY DEF Effect
<1>3. c.op # "replay" => a.cursor = e.cursor
  BY DEF Effect
<1>4. c.op \notin {"queue"} \cup DOMAIN Before => a.dispatch = e.dispatch
  BY DEF Effect, DispatchAfter
<1>5. c.op \notin {"create", "mailNotified", "mailDelivered"} => a.mailbox = e.mailbox
  BY DEF Effect, MailboxAfter
<1>6. DOMAIN Before = {"notified", "delivered", "failed"}
  BY DEF Before
<1>7. \/ c.op \in {"acquire", "renew"}
      \/ c.op \in {"queue"} \cup DOMAIN Before
      \/ c.op = "replay"
      \/ c.op \in {"create", "mailNotified", "mailDelivered", "capture"}
  BY <1>6 DEF Commands
<1> HIDE DEF a
<1>8. CASE c.op \in {"acquire", "renew"}
  <2>1. n \in {"backlog", "replay", "dispatch", "mailbox"}
    BY <1>1, <1>6, <1>8 DEF Dirtied
  <2> QED BY <1>3, <1>4, <1>5, <1>6, <1>8, <2>1 DEF View, a
<1>9. CASE c.op \in {"queue"} \cup DOMAIN Before
  <2>1. n \in {"authority", "readiness", "replay", "mailbox"}
    BY <1>1, <1>6, <1>9 DEF Dirtied
  <2> QED BY <1>2, <1>3, <1>5, <1>6, <1>9, <2>1 DEF View, Ready, a
<1>10. CASE c.op = "replay"
  <2>1. n \in {"authority", "backlog", "readiness", "dispatch", "mailbox"}
    BY <1>1, <1>6, <1>10 DEF Dirtied
  <2> QED BY <1>2, <1>4, <1>5, <1>6, <1>10, <2>1 DEF View, Ready, a
<1>11. CASE c.op \in {"create", "mailNotified", "mailDelivered", "capture"}
  <2>1. n # "mailbox" \/ c.op = "capture"
    BY <1>6, <1>11 DEF Dirtied
  <2> QED BY <1>1, <1>2, <1>3, <1>4, <1>5, <1>6, <1>11, <2>1 DEF View, Ready, a
<1> QED BY <1>7, <1>8, <1>9, <1>10, <1>11

LEMMA WholeUnchanged ==
  ASSUME UNCHANGED <<files, present, garbled>>
  PROVE  /\ Blank' <=> Blank
         /\ Whole' <=> Whole
         /\ OnDisk' = OnDisk
  BY DEF Blank, Whole, OnDisk, Views

(* A step that only moves one process and touches no file.                 *)
LEMMA ViewsMoveStep ==
  ASSUME IInv, ViewsInv, NEW p \in Execs, NEW from, NEW r, Goto(p, from, r),
         UNCHANGED <<files, present, garbled>>,
         r.at = "idle" \/ run[p].at # "idle" \/ Quiet,
         Blank \/ Whole,
         Reading(r),
         r.at = "write" => \/ Whole /\ r.dirty = {}
                          \/ \A n \in Views : \/ n \in r.dirty \cup (FileNames \ present)
                                              \/ files[n] = View(r.eng, n),
         r.next = 1
  PROVE  ViewsInv'
<1>1. /\ run'[p] = r
      /\ \A q \in Execs : q # p => run'[q] = run[q]
  BY OthersStay DEF IInv
<1>2. (Quiet => Blank \/ Whole)'
  BY WholeUnchanged
<1>3. ASSUME NEW q \in Execs PROVE Reading(run[q])'
  <2>1. Reading(run'[q])
    BY <1>1 DEF ViewsInv
  <2> QED BY <2>1, WholeUnchanged DEF Reading
<1>4. ASSUME NEW q \in Execs PROVE Writing(q)'
  <2>1. CASE q = p
    <3>1. \A i \in DOMAIN FileOrder : ~(i < 1) /\ FileOrder[i] \in FileNames
      BY Files DEF FileNames
    <3> QED BY <1>1, <2>1, <3>1, WholeUnchanged DEF Writing, Catching, Due, Views
  <2>2. CASE q # p
    <3>1. run'[q] = run[q] /\ Writing(q)
      BY <1>1, <2>2 DEF ViewsInv
    <3> QED BY <3>1, WholeUnchanged DEF Writing, Catching, Due
  <2> QED BY <2>1, <2>2
<1> QED BY <1>2, <1>3, <1>4 DEF ViewsInv

LEMMA ViewsStart ==
  ASSUME NoFaults, IInv, ViewsInv, NEW p \in Execs,
         InitDir(p) \/ \E c \in Commands, compact \in BOOLEAN : Exec(p, c, compact)
  PROVE  ViewsInv'
<1>0. (Blank \/ Whole) /\ Quiet
  BY DEF ViewsInv, NoFaults, InitDir, Exec, Alone
<1>1. ASSUME NEW c \in Commands, NEW compact \in BOOLEAN, Exec(p, c, compact)
      PROVE  ViewsInv'
  <2> DEFINE r == [NoProcess EXCEPT !.at = "snapshot", !.cmd = c,
                                    !.compact = compact]
  <2>1. /\ r.at = "snapshot" /\ r.next = 1 /\ DOMAIN r.eng = EngineFields
        /\ Goto(p, "idle", r) /\ UNCHANGED <<files, present, garbled>>
    BY <1>1 DEF Exec, NoProcess, NewEngine, EngineFields
  <2> HIDE DEF r
  <2>2. Reading(r)
    BY <1>0, <2>1 DEF Reading
  <2> QED BY <1>0, <2>1, <2>2, ViewsMoveStep
<1>2. CASE InitDir(p)
  <2> DEFINE r == [NoProcess EXCEPT !.at = "write"]
  <2>1. /\ r.at = "write" /\ r.next = 1 /\ r.dirty = {}
        /\ Goto(p, "idle", r) /\ UNCHANGED <<files, present, garbled>>
    BY <1>2 DEF InitDir, NoProcess
  <2> HIDE DEF r
  <2>2. Reading(r)
    BY <2>1 DEF Reading
  <2> QED BY <1>0, <2>1, <2>2, ViewsMoveStep DEF Blank, Views
<1> QED BY <1>1, <1>2

(* What a process loads is what is on disk, file after file.               *)
LEMMA ViewsLoadStep ==
  ASSUME IInv, ViewsInv, NEW p \in Execs, NEW name, NEW next, NEW engine,
         Load(p, name, next, engine),
         name \in {"snapshot", "dispatch", "mailbox"},
         next \in {"dispatch", "mailbox", "events", "apply"},
         DOMAIN engine = EngineFields,
         engine.owner = OnDisk.owner, engine.cursor = OnDisk.cursor,
         next # "dispatch" => engine.dispatch = OnDisk.dispatch,
         next \in {"events", "apply"} => engine.mailbox = OnDisk.mailbox
  PROVE  ViewsInv'
<1> DEFINE old == run[p]
           absent == [old EXCEPT !.at = "replay"]
           loaded == [old EXCEPT !.at = next, !.eng = engine]
<1>1. WellFormed(old) /\ Reading(old) /\ old.at = name
      /\ UNCHANGED <<files, present, garbled>>
  BY DEF IInv, Shape, ViewsInv, Load, Goto
<1>2. /\ Blank \/ Whole
      /\ name \in FileNames
  BY <1>1, Files DEF Reading
<1>3. CASE name \notin present
  <2>1. /\ absent.at = "replay" /\ absent.next = 1 /\ Goto(p, name, absent)
        /\ Blank
    BY <1>1, <1>2, <1>3 DEF WellFormed, Fields, Load, Whole
  <2> HIDE DEF absent
  <2>2. Reading(absent)
    BY <2>1, Files DEF Reading, Whole, Blank
  <2> QED BY <1>1, <1>2, <2>1, <2>2, ViewsMoveStep
<1>4. CASE name \in present
  <2>1. /\ loaded.at = next /\ loaded.next = 1 /\ Goto(p, name, loaded)
        /\ loaded.eng = engine /\ Whole
    BY <1>1, <1>2, <1>4 DEF WellFormed, Fields, Load, Blank
  <2> HIDE DEF loaded
  <2>2. Reading(loaded)
    BY <2>1 DEF Reading
  <2> QED BY <1>1, <1>2, <2>1, <2>2, ViewsMoveStep
<1> QED BY <1>3, <1>4

LEMMA ViewsLoadFiles ==
  ASSUME IInv, ViewsInv, NEW p \in Execs,
         LoadSnapshot(p) \/ LoadDispatch(p) \/ LoadMailbox(p)
  PROVE  ViewsInv'
<1> DEFINE old == run[p]
<1>0. Reading(old)
  BY DEF ViewsInv
<1>1. CASE LoadSnapshot(p)
  <2> DEFINE e == [old.eng EXCEPT !.owner = files.snapshot.owner,
                                  !.cursor = files.snapshot.cursor]
  <2>1. Load(p, "snapshot", "dispatch", e) /\ old.at = "snapshot"
    BY <1>1 DEF LoadSnapshot, Load, Goto
  <2>2. /\ DOMAIN e = EngineFields
        /\ e.owner = OnDisk.owner /\ e.cursor = OnDisk.cursor
    BY <1>0, <2>1 DEF Reading, EngineFields, OnDisk
  <2> HIDE DEF e
  <2> QED BY <2>1, <2>2, ViewsLoadStep
<1>2. CASE LoadDispatch(p)
  <2> DEFINE e == [old.eng EXCEPT !.dispatch = files.dispatch]
  <2>1. Load(p, "dispatch", "mailbox", e) /\ old.at = "dispatch"
    BY <1>2 DEF LoadDispatch, Load, Goto
  <2>2. /\ DOMAIN e = EngineFields
        /\ e.owner = OnDisk.owner /\ e.cursor = OnDisk.cursor
        /\ e.dispatch = OnDisk.dispatch
    <3>1. DOMAIN old.eng = EngineFields /\ Whole
      BY <1>0, <2>1 DEF Reading
    <3>2. old.eng.owner = OnDisk.owner /\ old.eng.cursor = OnDisk.cursor
      BY <1>0, <2>1, <3>1 DEF Reading
    <3>3. files.dispatch = OnDisk.dispatch
      BY DEF OnDisk
    <3> QED BY <3>1, <3>2, <3>3 DEF EngineFields
  <2> HIDE DEF e
  <2> QED BY <2>1, <2>2, ViewsLoadStep
<1>3. CASE LoadMailbox(p)
  <2> DEFINE e == [old.eng EXCEPT !.mailbox = files.mailbox]
             next == IF old.compact THEN "events" ELSE "apply"
  <2>1. Load(p, "mailbox", next, e) /\ old.at = "mailbox"
    BY <1>3 DEF LoadMailbox, Load, Goto
  <2>2. /\ DOMAIN e = EngineFields
        /\ e.owner = OnDisk.owner /\ e.cursor = OnDisk.cursor
        /\ e.dispatch = OnDisk.dispatch /\ e.mailbox = OnDisk.mailbox
    <3>1. DOMAIN old.eng = EngineFields /\ Whole
      BY <1>0, <2>1 DEF Reading
    <3>2. /\ old.eng.owner = OnDisk.owner /\ old.eng.cursor = OnDisk.cursor
          /\ old.eng.dispatch = OnDisk.dispatch
      BY <1>0, <2>1, <3>1 DEF Reading
    <3>3. files.mailbox = OnDisk.mailbox
      BY DEF OnDisk
    <3> QED BY <3>1, <3>2, <3>3 DEF EngineFields
  <2>3. next \in {"events", "apply"}
    OBVIOUS
  <2> HIDE DEF e, next
  <2> QED BY <2>1, <2>2, <2>3, ViewsLoadStep
<1> QED BY <1>1, <1>2, <1>3

(* Rebuilding happens only in an empty directory, where there is no log to *)
(* rebuild from.                                                           *)
LEMMA ViewsReadEvents ==
  ASSUME IInv, ViewsInv, NEW p \in Execs, ReadEvents(p)
  PROVE  ViewsInv'
<1> DEFINE old == run[p]
           keep == old.compact /\ ~Unreadable
           log == IF old.compact /\ ~Unreadable THEN files.events ELSE <<>>
           with(e) == [old EXCEPT !.at = "apply", !.eng = e,
                                  !.loaded = keep, !.log = log]
<1>1. WellFormed(old) /\ Reading(old) /\ garbled = "no"
      /\ old.at \in {"replay", "events"}
      /\ UNCHANGED <<files, present, garbled>>
  BY DEF IInv, Shape, ViewsInv, ReadEvents, Goto
<1>2. PICK e : /\ \E from \in {"replay", "events"} : Goto(p, from, with(e))
               /\ Blank => e = NewEngine
               /\ Whole => e = old.eng
  <2>1. CASE Goto(p, "replay", with(IF Unreadable THEN NewEngine ELSE Replay(files.events)))
    <3>1. Blank /\ Unreadable /\ ~Whole
      BY <1>1, <2>1, Files DEF Reading, Goto, Blank, Whole, Unreadable
    <3> QED BY <2>1, <3>1
  <2>2. CASE Goto(p, "events", with(IF Unreadable THEN NewEngine ELSE old.eng))
    <3>1. Whole /\ ~Unreadable /\ ~Blank
      BY <1>1, <2>2, Files DEF Reading, Goto, Blank, Whole, Unreadable
    <3> QED BY <2>2, <3>1
  <2> QED BY <2>1, <2>2 DEF ReadEvents
<1>3. /\ with(e).at = "apply" /\ with(e).eng = e /\ with(e).next = old.next
  BY <1>1 DEF WellFormed, Fields
<1>4. (Blank \/ Whole) /\ old.next = 1 /\ (Whole => old.at = "events")
  BY <1>1, Files DEF Reading, WellFormed, Blank, Whole
<1>5. DOMAIN NewEngine = EngineFields
  BY DEF NewEngine, EngineFields
<1> HIDE DEF with
<1>6. Reading(with(e))
  BY <1>1, <1>2, <1>3, <1>4, <1>5 DEF Reading
<1> QED BY <1>1, <1>2, <1>3, <1>4, <1>6, ViewsMoveStep

(* A view depends on the four fields of an engine only.                    *)
LEMMA ViewOfFields ==
  ASSUME NEW e, NEW d, NEW n,
         e.owner = d.owner, e.cursor = d.cursor,
         e.dispatch = d.dispatch, e.mailbox = d.mailbox
  PROVE  View(e, n) = View(d, n)
  BY DEF View, Ready

LEMMA ViewsApply ==
  ASSUME IInv, ViewsInv, NEW p \in Execs, Apply(p) \/ Refuse(p)
  PROVE  ViewsInv'
<1> DEFINE old == run[p]
           cmd == old.cmd
           after == Effect(old.eng, cmd)
           log == IF old.loaded THEN Compact(after, Append(old.log, cmd)) ELSE <<>>
           new == [old EXCEPT !.at = "write", !.eng = after, !.log = log,
                              !.dirty = Dirtied(cmd.op) \cup {"events"}]
<1>1. /\ WellFormed(old) /\ Reading(old) /\ old.at = "apply"
      /\ UNCHANGED <<files, present, garbled>>
  BY DEF IInv, Shape, ViewsInv, Apply, Refuse, Exit, Goto
<1>2. /\ Blank \/ Whole
      /\ Whole => /\ old.eng.owner = OnDisk.owner /\ old.eng.cursor = OnDisk.cursor
                  /\ old.eng.dispatch = OnDisk.dispatch
                  /\ old.eng.mailbox = OnDisk.mailbox
  BY <1>1 DEF Reading
<1>3. CASE Apply(p)
  <2>1. Goto(p, "apply", new)
    BY <1>3 DEF Apply
  <2>2. /\ new.at = "write" /\ new.eng = after /\ new.next = old.next
        /\ new.dirty = Dirtied(cmd.op) \cup {"events"}
        /\ old.next = 1 /\ cmd \in Commands
    BY <1>1 DEF WellFormed, Fields
  <2>3. ASSUME NEW n \in Views
        PROVE  \/ n \in new.dirty \cup (FileNames \ present)
               \/ files[n] = View(new.eng, n)
    <3>1. n \in FileNames
      BY DEF Views
    <3>2. CASE Blank
      BY <3>1, <3>2 DEF Blank
    <3>3. CASE Whole /\ n \notin Dirtied(cmd.op)
      <4>1. View(after, n) = View(old.eng, n)
        BY <2>2, <3>3, DirtyCoversChanges
      <4>2. View(old.eng, n) = View(OnDisk, n)
        BY <1>2, <3>3, ViewOfFields
      <4>3. files[n] = View(OnDisk, n)
        BY <3>3 DEF Whole
      <4> QED BY <2>2, <4>1, <4>2, <4>3
    <3> QED BY <1>2, <2>2, <3>2, <3>3
  <2> HIDE DEF new
  <2>4. Reading(new)
    BY <2>2 DEF Reading
  <2> QED BY <1>1, <1>2, <2>1, <2>2, <2>3, <2>4, ViewsMoveStep
<1>4. CASE Refuse(p)
  <2>1. Goto(p, "apply", NoProcess) /\ NoProcess.at = "idle" /\ NoProcess.next = 1
    BY <1>4 DEF Refuse, Exit, NoProcess
  <2>2. Reading(NoProcess)
    BY <2>1 DEF Reading
  <2> QED BY <1>1, <1>2, <2>1, <2>2, ViewsMoveStep
<1> QED BY <1>3, <1>4

LEMMA FileOrderOnce ==
  \A i, k \in DOMAIN FileOrder : FileOrder[i] = FileOrder[k] => i = k
<1>1. DOMAIN FileOrder = 1..8
  BY DEF FileOrder
<1>2. /\ FileOrder[1] = "snapshot" /\ FileOrder[2] = "events"
      /\ FileOrder[3] = "authority" /\ FileOrder[4] = "backlog"
      /\ FileOrder[5] = "readiness" /\ FileOrder[6] = "replay"
      /\ FileOrder[7] = "dispatch" /\ FileOrder[8] = "mailbox"
  BY DEF FileOrder
<1> QED BY <1>1, <1>2

LEMMA WriteEffect ==
  ASSUME IInv, ViewsInv, NEW p \in Execs, NEW name \in FileNames, Write(p, name)
  PROVE  /\ WellFormed(run[p]) /\ run[p].at = "write" /\ run[p].next \in 1..8
         /\ FileOrder[run[p].next] = name
         /\ garbled = "no"
         /\ \A q \in Execs : q # p => run[q].at = "idle" /\ run'[q] = run[q]
         /\ run'[p].next = run[p].next + 1 /\ run'[p].at = "write"
         /\ run'[p].dirty = run[p].dirty /\ run'[p].eng = run[p].eng
         /\ run'[p].loaded = run[p].loaded /\ run'[p].log = run[p].log
         /\ run'[p].cmd = run[p].cmd
         /\ present' = present \cup {name} /\ garbled' = "no"
         /\ DOMAIN files' = FileNames
         /\ \A n \in FileNames : n # name => files'[n] = files[n]
         /\ ~Due(p, name) => files'[name] = files[name]
         /\ name # "events" /\ Due(p, name) => files'[name] = View(run[p].eng, name)
         /\ name = "events" /\ Due(p, name) => files'[name] = NewLog(p)
<1>1. /\ WellFormed(run[p]) /\ run[p].at = "write" /\ run[p].next \in 1..8
      /\ FileOrder[run[p].next] = name /\ garbled = "no"
      /\ \A q \in Execs : q # p => run[q].at = "idle"
  BY Files DEF Write, At, IInv, Shape, WellFormed, Solo, ViewsInv
<1>2. /\ \A q \in Execs : q # p => run'[q] = run[q]
      /\ run'[p].next = run[p].next + 1 /\ run'[p].at = "write"
      /\ run'[p].dirty = run[p].dirty /\ run'[p].eng = run[p].eng
      /\ run'[p].loaded = run[p].loaded /\ run'[p].log = run[p].log
      /\ run'[p].cmd = run[p].cmd
  BY <1>1 DEF Write, IInv, Shape, WellFormed, Fields
<1>3. /\ present' = present \cup {name} /\ garbled' = "no"
      /\ DOMAIN files' = FileNames
      /\ \A n \in FileNames : n # name => files'[n] = files[n]
  BY <1>1 DEF Write, IInv, Shape
<1>4. /\ ~Due(p, name) => files'[name] = files[name]
      /\ name # "events" /\ Due(p, name) => files'[name] = View(run[p].eng, name)
      /\ name = "events" /\ Due(p, name) => files'[name] = NewLog(p)
  BY <1>1 DEF Write, IInv, Shape
<1> QED BY <1>1, <1>2, <1>3, <1>4

(* A command that dirtied nothing (`init`) finds nothing to write.         *)
LEMMA NothingToWrite ==
  ASSUME IInv, ViewsInv, NEW p \in Execs, NEW name \in FileNames, Write(p, name),
         Whole, run[p].dirty = {}
  PROVE  /\ present' = FileNames /\ \A n \in FileNames : files'[n] = files[n]
         /\ OnDisk' = OnDisk /\ Whole'
<1>1. /\ ~Due(p, name) /\ present' = FileNames
      /\ \A n \in FileNames : files'[n] = files[n]
  <2>1. present = FileNames
    BY DEF Whole
  <2>2. ~Due(p, name)
    BY <2>1 DEF Due
  <2>3. present' = FileNames
    <3>1. present' = FileNames \cup {name}
      BY <2>1, WriteEffect
    <3> QED BY <3>1
  <2> QED BY <2>2, <2>3, WriteEffect
<1>2. OnDisk' = OnDisk
  BY <1>1, Files DEF OnDisk
<1>3. Whole'
  BY <1>1, <1>2 DEF Whole, Views
<1> QED BY <1>1, <1>2, <1>3

LEMMA CatchingWrite ==
  ASSUME IInv, ViewsInv, NEW p \in Execs, NEW name \in FileNames, Write(p, name),
         Catching(p)
  PROVE  Catching(p)'
<1> DEFINE old == run[p]
<1> SUFFICES ASSUME NEW i \in DOMAIN FileOrder, FileOrder[i] \in Views
             PROVE  /\ i < old.next + 1 =>
                         files'[FileOrder[i]] = View(old.eng, FileOrder[i])
                    /\ i >= old.next + 1 =>
                         \/ Due(p, FileOrder[i])'
                         \/ files'[FileOrder[i]] = View(old.eng, FileOrder[i])
  BY WriteEffect DEF Catching
<1>1. /\ i \in 1..8 /\ old.next \in DOMAIN FileOrder /\ FileOrder[old.next] = name
      /\ FileOrder[i] \in FileNames /\ FileOrder[i] # "events"
  BY WriteEffect, Files DEF Views
<1>2. CASE i = old.next
  BY WriteEffect, <1>1, <1>2 DEF Catching
<1>3. CASE i # old.next
  <2>1. FileOrder[i] # name
    BY <1>1, <1>3, FileOrderOnce
  <2>2. /\ files'[FileOrder[i]] = files[FileOrder[i]]
        /\ Due(p, FileOrder[i]) => Due(p, FileOrder[i])'
    BY WriteEffect, <1>1, <2>1 DEF Due
  <2> QED BY WriteEffect, <1>1, <1>3, <2>2 DEF Catching
<1> QED BY <1>2, <1>3

LEMMA ViewsWrite ==
  ASSUME IInv, ViewsInv, NEW p \in Execs, NEW name \in FileNames, Write(p, name)
  PROVE  ViewsInv'
<1>1. (Quiet => Blank \/ Whole)'
  BY WriteEffect DEF Quiet
<1>2. ASSUME NEW q \in Execs PROVE Reading(run[q])'
  BY WriteEffect DEF Reading
<1>3. Writing(p)'
  <2>1. CASE Whole /\ run[p].dirty = {}
    BY <2>1, WriteEffect, NothingToWrite DEF Writing
  <2>2. CASE Catching(p)
    BY <2>2, CatchingWrite DEF Writing
  <2> QED BY <2>1, <2>2, WriteEffect DEF ViewsInv, Writing
<1>4. \A q \in Execs : Writing(q)'
  BY <1>3, WriteEffect DEF Writing
<1> QED BY <1>1, <1>2, <1>4, WriteEffect DEF ViewsInv

(* With every file written, the directory is the engine's.                 *)
LEMMA CaughtUp ==
  ASSUME IInv, NEW p \in Execs, run[p].at = "write", run[p].next > 8, Catching(p)
  PROVE  /\ Whole
         /\ OnDisk.owner = run[p].eng.owner /\ OnDisk.cursor = run[p].eng.cursor
         /\ OnDisk.dispatch = run[p].eng.dispatch /\ OnDisk.mailbox = run[p].eng.mailbox
<1> DEFINE e == run[p].eng
<1>1. \A i \in DOMAIN FileOrder : i < run[p].next
  BY Files DEF IInv, Shape, WellFormed
<1>2. present = FileNames
  BY <1>1 DEF IInv, Shape, Written, FileNames
<1>3. \A n \in Views : files[n] = View(e, n)
  BY <1>1 DEF Catching, Views, FileNames
<1>4. {"snapshot", "dispatch", "mailbox"} \subseteq Views
  BY Files DEF Views
<1>5. /\ files["snapshot"] = View(e, "snapshot")
      /\ files["dispatch"] = View(e, "dispatch")
      /\ files["mailbox"] = View(e, "mailbox")
  BY <1>3, <1>4
<1>6. /\ OnDisk.owner = e.owner /\ OnDisk.cursor = e.cursor
      /\ OnDisk.dispatch = e.dispatch /\ OnDisk.mailbox = e.mailbox
  BY <1>5 DEF OnDisk, View
<1>7. \A n \in Views : View(OnDisk, n) = View(e, n)
  BY <1>6, ViewOfFields
<1> QED BY <1>2, <1>3, <1>6, <1>7 DEF Whole

LEMMA ViewsAcknowledge ==
  ASSUME IInv, ViewsInv, NEW p \in Execs, Acknowledge(p)
  PROVE  ViewsInv'
<1>1. /\ Goto(p, "write", NoProcess) /\ run[p].at = "write"
      /\ UNCHANGED <<files, present, garbled>>
      /\ run[p].next > 8 /\ Writing(p)
  BY Files DEF Acknowledge, Exit, Goto, ViewsInv
<1>2. Whole
  BY <1>1, CaughtUp DEF Writing
<1>3. NoProcess.at = "idle" /\ NoProcess.next = 1 /\ Reading(NoProcess)
  BY DEF NoProcess, Reading
<1> QED BY <1>1, <1>2, <1>3, ViewsMoveStep

LEMMA InitViewsInv == Init => ViewsInv
<1> SUFFICES ASSUME Init PROVE ViewsInv
  OBVIOUS
<1>1. garbled = "no" /\ Blank /\ \A p \in Execs : run[p].at = "idle"
  BY DEF Init, Blank, NoProcess
<1> QED BY <1>1 DEF ViewsInv, Reading, Writing

LEMMA StepViewsInv == NoFaults /\ IInv /\ ViewsInv /\ [Next]_vars => ViewsInv'
<1> SUFFICES ASSUME NoFaults, IInv, ViewsInv, [Next]_vars PROVE ViewsInv'
  OBVIOUS
<1>1. CASE UNCHANGED vars
  <2>1. UNCHANGED <<files, present, garbled, run>>
    BY <1>1 DEF vars
  <2>2. (Quiet' <=> Quiet) /\ garbled' = garbled
    BY <2>1 DEF Quiet
  <2>3. ASSUME NEW p \in Execs PROVE Reading(run[p])' /\ Writing(p)'
    <3>1. Reading(run[p]) /\ Writing(p) /\ run'[p] = run[p]
      BY <2>1 DEF ViewsInv
    <3> QED BY <2>1, <3>1, WholeUnchanged DEF Reading, Writing, Catching, Due
  <2> QED BY <2>1, <2>2, <2>3, WholeUnchanged DEF ViewsInv
<1>2. ASSUME NEW p \in Execs,
             FailAppend(p) \/ ShortWrite(p) \/ Crash(p) \/ CrashAfterCreate(p)
      PROVE FALSE
  BY <1>2 DEF NoFaults, ViewsInv, FailAppend, ShortWrite, Crash, CrashAfterCreate
<1> QED
  BY <1>1, <1>2, ViewsStart, ViewsLoadFiles, ViewsReadEvents, ViewsApply,
     ViewsWrite, ViewsAcknowledge DEF Next

(***************************************************************************)
(* The event log                                                           *)
(***************************************************************************)

(* The log tells the engine on disk whenever nothing is being written; a   *)
(* process applies its command to an engine that the log tells, and what   *)
(* it leaves as the log, once it is past that file, tells what it writes.  *)
Told == Story(OnDisk, files["events"])

LogAfter(p) == IF run[p].next <= 2 /\ Due(p, "events") THEN NewLog(p)
               ELSE files["events"]

Applying(r) ==
  /\ r.at = "apply" => /\ Story(r.eng, files["events"])
                       /\ r.loaded => r.log = files["events"]
  /\ r.at \notin {"apply", "write"} => ~r.loaded

Logging(p) ==
  run[p].at = "write" => \/ Whole /\ run[p].dirty = {} /\ Told
                         \/ Catching(p) /\ Story(run[p].eng, LogAfter(p))

LogInv ==
  /\ Blank => files["events"] = <<>>
  /\ Whole /\ (\A p \in Execs : run[p].at # "write") => Told
  /\ \A p \in Execs : Applying(run[p]) /\ Logging(p)

LEMMA NewStory == Story(NewEngine, <<>>)
<1>1. Same(Done(NewEngine.dispatch), NewEngine, NewEngine)
  BY DEF Same, Alike
<1> QED BY <1>1, NewEngineType, ReplayNothing, EmptySeq DEF Story

(* A step that only moves one process and touches no file.                 *)
LEMMA LogMoveStep ==
  ASSUME IInv, ViewsInv, LogInv, NEW p \in Execs, NEW from, NEW r, Goto(p, from, r),
         UNCHANGED <<files, present, garbled>>,
         r.at # "write" => (Whole => Told),
         Applying(r),
         Logging(p)'
  PROVE  LogInv'
<1>1. /\ run'[p] = r
      /\ \A q \in Execs : q # p => run'[q] = run[q]
  BY OthersStay DEF IInv
<1>2. Told' <=> Told
  BY WholeUnchanged DEF Told
<1>3. (Whole /\ (\A q \in Execs : run[q].at # "write") => Told)'
  BY <1>1, <1>2, WholeUnchanged
<1>4. ASSUME NEW q \in Execs PROVE Applying(run[q])'
  <2>1. Applying(run'[q])
    BY <1>1 DEF LogInv
  <2> QED BY <2>1 DEF Applying
<1>5. ASSUME NEW q \in Execs PROVE Logging(q)'
  <2>1. CASE q # p
    <3>1. run'[q] = run[q] /\ Logging(q)
      BY <1>1, <2>1 DEF LogInv
    <3>2. LogAfter(q)' = LogAfter(q) /\ (Catching(q)' <=> Catching(q))
      BY <3>1, WholeUnchanged DEF LogAfter, NewLog, Due, Catching
    <3> QED BY <1>2, <3>1, <3>2, WholeUnchanged DEF Logging
  <2> QED BY <2>1
<1> QED BY <1>3, <1>4, <1>5, WholeUnchanged DEF LogInv

LEMMA ToldWhileReading ==
  ASSUME IInv, LogInv, NEW p \in Execs, run[p].at # "write",
         run[p].at # "idle" \/ Quiet
  PROVE  Whole => Told
<1>1. \A q \in Execs : run[q].at # "write"
  BY DEF IInv, Solo, Quiet
<1> QED BY <1>1 DEF LogInv

(* The processes that have not applied their command yet.                  *)
LEMMA LogRead ==
  ASSUME IInv, ViewsInv, LogInv, NEW p \in Execs, NEW from, NEW r, Goto(p, from, r),
         UNCHANGED <<files, present, garbled>>,
         run[p].at # "write", run[p].at # "idle" \/ Quiet,
         r.at \notin {"apply", "write"}, ~r.loaded
  PROVE  LogInv'
<1>1. run'[p] = r
  BY OthersStay DEF IInv
<1>2. Logging(p)'
  BY <1>1 DEF Logging
<1>3. Applying(r)
  BY DEF Applying
<1> QED BY <1>2, <1>3, LogMoveStep, ToldWhileReading

LEMMA LogStart ==
  ASSUME NoFaults, IInv, ViewsInv, LogInv, NEW p \in Execs,
         InitDir(p) \/ \E c \in Commands, compact \in BOOLEAN : Exec(p, c, compact)
  PROVE  LogInv'
<1>0. (Blank \/ Whole) /\ Quiet /\ run[p].at = "idle"
  BY DEF ViewsInv, NoFaults, InitDir, Exec, Alone, Goto
<1>1. ASSUME NEW c \in Commands, NEW compact \in BOOLEAN, Exec(p, c, compact)
      PROVE  LogInv'
  <2> DEFINE r == [NoProcess EXCEPT !.at = "snapshot", !.cmd = c,
                                    !.compact = compact]
  <2>1. /\ r.at = "snapshot" /\ ~r.loaded /\ Goto(p, "idle", r)
        /\ UNCHANGED <<files, present, garbled>>
    BY <1>1 DEF Exec, NoProcess
  <2> HIDE DEF r
  <2> QED BY <1>0, <2>1, LogRead
<1>2. CASE InitDir(p)
  <2> DEFINE r == [NoProcess EXCEPT !.at = "write"]
  <2>1. /\ r.at = "write" /\ r.next = 1 /\ r.dirty = {} /\ r.eng = NewEngine
        /\ ~r.loaded
        /\ Goto(p, "idle", r) /\ UNCHANGED <<files, present, garbled>>
    BY <1>2 DEF InitDir, NoProcess
  <2> HIDE DEF r
  <2>2. run'[p] = r
    BY <2>1, OthersStay DEF IInv
  <2>3. Logging(p)'
    <3>1. CASE Whole
      <4>1. Whole' /\ Told'
        BY <1>0, <2>1, <3>1, ToldWhileReading, WholeUnchanged DEF Told
      <4> QED BY <2>1, <2>2, <4>1 DEF Logging
    <3>2. CASE Blank
      <4>1. Catching(p)'
        BY <2>1, <2>2, <3>2, Files DEF Catching, Due, Blank, Views
      <4>2. LogAfter(p)' = <<>>
        BY <2>1, <2>2, <3>2 DEF LogAfter, Due, NewLog, Blank
      <4> QED BY <2>1, <2>2, <4>1, <4>2, NewStory DEF Logging
    <3> QED BY <1>0, <3>1, <3>2
  <2>4. Applying(r)
    BY <2>1 DEF Applying
  <2> QED BY <1>0, <2>1, <2>3, <2>4, LogMoveStep
<1> QED BY <1>1, <1>2

(* The engine a process has loaded is the one on disk, which the log tells.*)
LEMMA LoadedStory ==
  ASSUME NEW e \in Engine, Told,
         e.owner = OnDisk.owner, e.cursor = OnDisk.cursor,
         e.dispatch = OnDisk.dispatch, e.mailbox = OnDisk.mailbox
  PROVE  Story(e, files["events"])
<1>1. e = [owner |-> e.owner, cursor |-> e.cursor,
           dispatch |-> e.dispatch, mailbox |-> e.mailbox]
  BY DEF Engine
<1>2. e = OnDisk
  BY <1>1 DEF OnDisk
<1> QED BY <1>2 DEF Told

(* A process that has read its files is about to apply its command to the  *)
(* engine on disk.                                                         *)
LEMMA LogLoadFiles ==
  ASSUME Typed, Typed', IInv, ViewsInv, ViewsInv', LogInv, NEW p \in Execs,
         LoadSnapshot(p) \/ LoadDispatch(p) \/ LoadMailbox(p)
  PROVE  LogInv'
<1> DEFINE old == run[p]
<1>1. PICK name, next, e :
        /\ Load(p, name, next, e) /\ name \in {"snapshot", "dispatch", "mailbox"}
        /\ next \in {"dispatch", "mailbox", "events", "apply"}
        /\ next = "apply" => name = "mailbox"
  BY DEF LoadSnapshot, LoadDispatch, LoadMailbox
<1> DEFINE absent == [old EXCEPT !.at = "replay"]
           loaded == [old EXCEPT !.at = next, !.eng = e]
<1>2. /\ old \in Process /\ old.at = name /\ ~old.loaded
      /\ UNCHANGED <<files, present, garbled>>
  BY <1>1 DEF Load, Goto, Typed, LogInv, Applying
<1>3. CASE name \notin present
  <2>1. Goto(p, name, absent) /\ absent.at = "replay" /\ ~absent.loaded
    BY <1>1, <1>2, <1>3 DEF Load, Process
  <2> HIDE DEF absent
  <2> QED BY <1>1, <1>2, <2>1, LogRead
<1>4. CASE name \in present
  <2>1. /\ Goto(p, name, loaded) /\ loaded.at = next /\ ~loaded.loaded
        /\ loaded.eng = e
    BY <1>1, <1>2, <1>4 DEF Load, Process
  <2> HIDE DEF loaded
  <2>2. CASE next # "apply"
    BY <1>1, <1>2, <2>1, <2>2, LogRead
  <2>3. CASE next = "apply"
    <3>1. run'[p] = loaded
      BY <2>1, OthersStay DEF IInv
    <3>2. Whole /\ Told
      <4>1. Whole
        BY <1>1, <1>2, <1>4, <2>3 DEF ViewsInv, Reading, Blank
      <4> QED BY <1>1, <1>2, <4>1, ToldWhileReading
    <3>3. /\ e \in Engine /\ e.owner = OnDisk.owner /\ e.cursor = OnDisk.cursor
          /\ e.dispatch = OnDisk.dispatch /\ e.mailbox = OnDisk.mailbox
      <4>1. run'[p] \in Process /\ Reading(run[p])' /\ Whole' /\ OnDisk' = OnDisk
        BY <1>2, <3>2, WholeUnchanged DEF Typed, ViewsInv
      <4>2. run'[p].at = "apply" /\ run'[p].eng = e
        BY <2>1, <2>3, <3>1
      <4> QED BY <4>1, <4>2 DEF Reading, Process
    <3>4. Applying(loaded)
      BY <2>1, <2>3, <3>2, <3>3, LoadedStory DEF Applying
    <3>5. Logging(p)'
      BY <2>1, <2>3, <3>1 DEF Logging
    <3> QED BY <1>2, <2>1, <3>2, <3>4, <3>5, LogMoveStep
  <2> QED BY <2>2, <2>3
<1> QED BY <1>3, <1>4

LEMMA LogReadEvents ==
  ASSUME Typed, Typed', IInv, ViewsInv, ViewsInv', LogInv, NEW p \in Execs,
         ReadEvents(p)
  PROVE  LogInv'
<1> DEFINE old == run[p]
           keep == old.compact /\ ~Unreadable
           log == IF old.compact /\ ~Unreadable THEN files.events ELSE <<>>
           with(e) == [old EXCEPT !.at = "apply", !.eng = e,
                                  !.loaded = keep, !.log = log]
<1>1. /\ old \in Process /\ Reading(old) /\ garbled = "no"
      /\ old.at \in {"replay", "events"}
      /\ UNCHANGED <<files, present, garbled>>
  BY DEF Typed, ViewsInv, ReadEvents, Goto
<1>2. PICK e, from : /\ Goto(p, from, with(e))
                     /\ Blank => e = NewEngine
  <2>1. CASE Goto(p, "replay", with(IF Unreadable THEN NewEngine ELSE Replay(files.events)))
    <3>1. Blank => Unreadable
      BY DEF Blank, Unreadable
    <3> QED BY <2>1, <3>1
  <2>2. CASE Goto(p, "events", with(IF Unreadable THEN NewEngine ELSE old.eng))
    <3>1. Blank => Unreadable
      BY DEF Blank, Unreadable
    <3> QED BY <2>2, <3>1
  <2> QED BY <2>1, <2>2 DEF ReadEvents
<1>3. /\ with(e).at = "apply" /\ with(e).eng = e /\ with(e).loaded = keep
      /\ with(e).log = log
  BY <1>1 DEF Process
<1>4. keep => log = files["events"]
  OBVIOUS
<1> HIDE DEF with, keep, log
<1>5. run'[p] = with(e)
  BY <1>2, OthersStay DEF IInv
<1>6. (Blank \/ Whole) /\ (Whole => Told)
  BY <1>1, ToldWhileReading DEF Reading
<1>7. Story(e, files["events"])
  <2>1. CASE Blank
    BY <1>2, <2>1, NewStory DEF LogInv
  <2>2. CASE Whole
    <3>1. run'[p] \in Process /\ Reading(run[p])' /\ Whole' /\ OnDisk' = OnDisk
      BY <1>1, <2>2, WholeUnchanged DEF Typed, ViewsInv
    <3>2. run'[p].at = "apply" /\ run'[p].eng = e
      BY <1>3, <1>5
    <3>3. /\ e \in Engine /\ e.owner = OnDisk.owner /\ e.cursor = OnDisk.cursor
          /\ e.dispatch = OnDisk.dispatch /\ e.mailbox = OnDisk.mailbox
      BY <3>1, <3>2 DEF Reading, Process
    <3> QED BY <1>6, <2>2, <3>3, LoadedStory
  <2> QED BY <1>6, <2>1, <2>2
<1>8. Applying(with(e))
  BY <1>3, <1>4, <1>7 DEF Applying
<1>9. Logging(p)'
  BY <1>3, <1>5 DEF Logging
<1> QED BY <1>1, <1>2, <1>6, <1>8, <1>9, LogMoveStep

(* An accepted command is appended to the log that tells the engine it was *)
(* applied to; compaction leaves out what the new engine has finished.     *)
LEMMA LogApply ==
  ASSUME Typed, IInv, ViewsInv, ViewsInv', LogInv, NEW p \in Execs, Apply(p)
  PROVE  LogInv'
<1> DEFINE old == run[p]
           cmd == old.cmd
           after == Effect(old.eng, cmd)
           log == IF old.loaded THEN Compact(after, Append(old.log, cmd)) ELSE <<>>
           new == [old EXCEPT !.at = "write", !.eng = after, !.log = log,
                              !.dirty = Dirtied(cmd.op) \cup {"events"}]
<1>1. /\ old \in Process /\ old.at = "apply" /\ Applying(old) /\ old.next = 1
      /\ cmd \in Commands /\ Accepts(old.eng, cmd)
      /\ Goto(p, "apply", new) /\ UNCHANGED <<files, present, garbled>>
  BY DEF Typed, Process, Apply, Goto, LogInv
<1>2. /\ new.at = "write" /\ new.eng = after /\ new.log = log /\ new.next = 1
      /\ new.dirty = Dirtied(cmd.op) \cup {"events"} /\ new.cmd = cmd
      /\ new.loaded = old.loaded
  BY <1>1 DEF Process
<1>3. Story(after, Append(files["events"], cmd))
  BY <1>1, StoryAppend DEF Applying
<1>4. old.loaded => Story(after, log)
  <2>1. old.loaded => log = Compact(after, Append(files["events"], cmd))
    BY <1>1 DEF Applying
  <2> HIDE DEF after, log
  <2> QED BY <1>3, <2>1, StoryCompact
<1> HIDE DEF new, after, log
<1>5. run'[p] = new
  BY <1>1, OthersStay DEF IInv
<1>6. Catching(p)'
  BY <1>2, <1>5 DEF ViewsInv, Writing
<1>7. Story(after, LogAfter(p)')
  <2>1. LogAfter(p)' = IF new.loaded THEN log ELSE Append(files["events"], cmd)
    BY <1>1, <1>2, <1>5 DEF LogAfter, Due, NewLog
  <2> QED BY <1>2, <1>3, <1>4, <2>1
<1>8. Logging(p)'
  BY <1>2, <1>5, <1>6, <1>7 DEF Logging
<1>9. Applying(new)
  BY <1>2 DEF Applying
<1> QED BY <1>1, <1>2, <1>8, <1>9, LogMoveStep

LEMMA LogExit ==
  ASSUME IInv, ViewsInv, LogInv, NEW p \in Execs, Refuse(p) \/ Acknowledge(p)
  PROVE  LogInv'
<1>1. /\ NoProcess.at = "idle" /\ ~NoProcess.loaded
      /\ UNCHANGED <<files, present, garbled>>
  BY DEF NoProcess, Refuse, Acknowledge
<1>2. CASE Refuse(p)
  <2>1. Goto(p, "apply", NoProcess) /\ run[p].at = "apply"
    BY <1>2 DEF Refuse, Exit, Goto
  <2> QED BY <1>1, <2>1, LogRead
<1>3. CASE Acknowledge(p)
  <2>1. /\ Goto(p, "write", NoProcess) /\ run[p].at = "write" /\ run[p].next > 8
        /\ Logging(p) /\ run[p].next \in Nat
    BY <1>3, Files DEF Acknowledge, Exit, Goto, LogInv, IInv, Shape, WellFormed
  <2>2. Told
    <3>1. CASE Catching(p) /\ Story(run[p].eng, LogAfter(p))
      <4>1. Story(run[p].eng, files["events"]) /\ run[p].eng \in Engine
        BY <2>1, <3>1 DEF LogAfter, Story
      <4>2. /\ run[p].eng.owner = OnDisk.owner /\ run[p].eng.cursor = OnDisk.cursor
            /\ run[p].eng.dispatch = OnDisk.dispatch
            /\ run[p].eng.mailbox = OnDisk.mailbox
        BY <2>1, <3>1, CaughtUp
      <4>3. run[p].eng = [owner |-> run[p].eng.owner, cursor |-> run[p].eng.cursor,
                          dispatch |-> run[p].eng.dispatch,
                          mailbox |-> run[p].eng.mailbox]
        BY <4>1 DEF Engine
      <4>4. run[p].eng = OnDisk
        BY <4>2, <4>3 DEF OnDisk
      <4> QED BY <4>1, <4>4 DEF Told
    <3> QED BY <2>1, <3>1 DEF Logging
  <2>3. run'[p] = NoProcess
    BY <2>1, OthersStay DEF IInv
  <2>4. Applying(NoProcess) /\ Logging(p)'
    BY <1>1, <2>3 DEF Applying, Logging
  <2> QED BY <1>1, <2>1, <2>2, <2>4, LogMoveStep
<1> QED BY <1>2, <1>3

(* The log is the second file: it is rewritten, or appended to, once.      *)
LEMMA LogWrite ==
  ASSUME IInv, ViewsInv, LogInv, NEW p \in Execs, NEW name \in FileNames,
         Write(p, name)
  PROVE  LogInv'
<1>1. /\ run[p].at = "write" /\ run'[p].at = "write" /\ Logging(p)
      /\ present' # {} /\ \A q \in Execs : q # p => run'[q].at = "idle" /\ run'[q] = run[q]
  BY WriteEffect DEF LogInv
<1>2. \A q \in Execs : Applying(run[q])'
  BY <1>1 DEF LogInv, Applying
<1>3. Logging(p)'
  <2>1. CASE Whole /\ run[p].dirty = {} /\ Told
    <3>1. files'["events"] = files["events"]
      BY <2>1, NothingToWrite, Files
    <3>2. Told'
      BY <2>1, <3>1, NothingToWrite DEF Told
    <3> QED BY <2>1, <3>2, WriteEffect, NothingToWrite DEF Logging
  <2>2. CASE Catching(p) /\ Story(run[p].eng, LogAfter(p))
    <3>1. run[p].next \in 1..8 /\ (name = "events" <=> run[p].next = 2)
      BY WriteEffect, Files
    <3>2. LogAfter(p)' = LogAfter(p)
      <4>1. CASE run[p].next = 1
        <5>1. files'["events"] = files["events"] /\ (Due(p, "events")' <=> Due(p, "events"))
          BY <3>1, <4>1, WriteEffect, Files DEF Due
        <5>2. NewLog(p)' = NewLog(p)
          BY <5>1, WriteEffect DEF NewLog
        <5> QED BY <4>1, <5>1, <5>2, WriteEffect DEF LogAfter
      <4>2. CASE run[p].next = 2
        <5>1. files'["events"] = LogAfter(p)
          BY <3>1, <4>2, WriteEffect DEF LogAfter
        <5> QED BY <4>2, <5>1, WriteEffect DEF LogAfter
      <4>3. CASE run[p].next > 2
        <5>1. files'["events"] = files["events"]
          BY <3>1, <4>3, WriteEffect, Files
        <5> QED BY <3>1, <4>3, <5>1, WriteEffect DEF LogAfter
      <4> QED BY <3>1, <4>1, <4>2, <4>3
    <3> QED BY <2>2, <3>2, CatchingWrite, WriteEffect DEF Logging
  <2> QED BY <1>1, <2>1, <2>2 DEF Logging
<1>4. \A q \in Execs : Logging(q)'
  BY <1>1, <1>3 DEF Logging
<1> QED BY <1>1, <1>2, <1>4 DEF LogInv, Blank

LEMMA InitLogInv == Init => LogInv
<1> SUFFICES ASSUME Init PROVE LogInv
  OBVIOUS
<1>1. /\ files["events"] = <<>> /\ present = {} /\ FileNames # {}
      /\ \A p \in Execs : run[p].at = "idle" /\ ~run[p].loaded
  BY Files DEF Init, NoProcess
<1> QED BY <1>1 DEF LogInv, Whole, Applying, Logging

LEMMA StepLogInv ==
  NoFaults /\ Typed /\ Typed' /\ IInv /\ ViewsInv /\ ViewsInv' /\ LogInv /\ [Next]_vars
    => LogInv'
<1> SUFFICES ASSUME NoFaults, Typed, Typed', IInv, ViewsInv, ViewsInv', LogInv, [Next]_vars
             PROVE  LogInv'
  OBVIOUS
<1>1. CASE UNCHANGED vars
  <2>1. UNCHANGED <<files, present, garbled, run>>
    BY <1>1 DEF vars
  <2>2. Told' <=> Told
    BY <2>1, WholeUnchanged DEF Told
  <2>3. ASSUME NEW p \in Execs PROVE Applying(run[p])' /\ Logging(p)'
    <3>1. Applying(run[p]) /\ Logging(p) /\ run'[p] = run[p]
      BY <2>1 DEF LogInv
    <3>2. LogAfter(p)' = LogAfter(p) /\ (Catching(p)' <=> Catching(p))
      BY <2>1 DEF LogAfter, NewLog, Due, Catching
    <3> QED BY <2>1, <2>2, <3>1, <3>2, WholeUnchanged DEF Applying, Logging
  <2> QED BY <2>1, <2>2, <2>3, WholeUnchanged DEF LogInv
<1>2. ASSUME NEW p \in Execs,
             FailAppend(p) \/ ShortWrite(p) \/ Crash(p) \/ CrashAfterCreate(p)
      PROVE FALSE
  BY <1>2 DEF NoFaults, ViewsInv, FailAppend, ShortWrite, Crash, CrashAfterCreate
<1> QED
  BY <1>1, <1>2, LogStart, LogLoadFiles, LogReadEvents, LogApply, LogExit,
     LogWrite DEF Next

(***************************************************************************)
(* Dispatches go forward                                                   *)
(***************************************************************************)

(* A dispatch log that has come out of another one.                        *)
Advances(d, e) ==
  \A i \in DOMAIN d :
    /\ i \in DOMAIN e
    /\ e[i].id = d[i].id
    /\ e[i] = d[i] \/ Rank(d[i].status) < Rank(e[i].status)

(* The files appear in the order they are written in.                      *)
InOrder ==
  \A i \in DOMAIN FileOrder :
    FileOrder[i] \in present => \A j \in 1..i : FileOrder[j] \in present

(* What a process makes of the dispatches on disk: it has read them, or it *)
(* has no log to rebuild them from and stops before it writes them.        *)
Carries(r) ==
  /\ r.at = "replay" => ~Loadable
  /\ Loadable /\ r.at \in {"mailbox", "events"} => r.eng.dispatch = files["dispatch"]
  /\ Loadable /\ r.at = "apply" /\ garbled # "torn" => r.eng.dispatch = files["dispatch"]

Replaces(r) ==
  r.at = "write" =>
    /\ "events" \in r.dirty \/ (r.dirty = {} /\ r.eng.dispatch = <<>>)
    /\ r.next > 2 /\ garbled = "empty" => "events" \notin r.dirty
    /\ Loadable /\ "dispatch" \in r.dirty /\ r.next <= 7 =>
         \/ Advances(files["dispatch"], r.eng.dispatch)
         \/ garbled = "torn" /\ r.next <= 2

(* A log that was never begun goes with no dispatches.                     *)
Begun == garbled = "empty" /\ "dispatch" \in present => files["dispatch"] = <<>>

AdvanceInv ==
  InOrder /\ Begun /\ \A p \in Execs : Carries(run[p]) /\ Replaces(run[p])

LEMMA AdvancesSame ==
  ASSUME NEW d PROVE Advances(d, d)
  BY DEF Advances

(* An accepted command moves one dispatch forward, or appends one.         *)
LEMMA AdvancesAfter ==
  ASSUME NEW e \in Engine, NEW c \in Commands, Accepts(e, c)
  PROVE  Advances(e.dispatch, Effect(e, c).dispatch)
<1> DEFINE d == e.dispatch
<1>1. d \in Seq(DispatchRecord)
  BY DEF Engine
<1>2. Effect(e, c).dispatch = DispatchAfter(d, c)
  BY DEF Effect
<1>3. CASE c.op = "queue"
  <2>1. DispatchAfter(d, c) = Append(d, Pending(c))
    BY <1>3, Operations DEF DispatchAfter, Pending
  <2>2. \A i \in DOMAIN d : i \in DOMAIN Append(d, Pending(c)) /\ Append(d, Pending(c))[i] = d[i]
    BY <1>1
  <2> QED BY <1>2, <2>1, <2>2 DEF Advances
<1>4. CASE c.op \in DOMAIN Before
  <2> DEFINE i == Find(d, c.arg)
  <2>1. i # 0 /\ d[i].status \in Before[c.op]
    BY <1>4, Operations DEF Accepts
  <2>2. i \in 1..Len(d) /\ DOMAIN d = 1..Len(d)
    BY <1>1, <2>1, FindFirst
  <2>3. DispatchAfter(d, c) = [d EXCEPT ![i].status = c.op]
    BY <1>4, Operations DEF DispatchAfter
  <2>4. d[i] \in DispatchRecord
    BY <1>1, <2>2
  <2> HIDE DEF i
  <2>5. /\ DOMAIN DispatchAfter(d, c) = DOMAIN d
        /\ \A j \in DOMAIN d : j # i => DispatchAfter(d, c)[j] = d[j]
        /\ DispatchAfter(d, c)[i] = [d[i] EXCEPT !.status = c.op]
    BY <1>1, <2>2, <2>3
  <2>6. /\ DispatchAfter(d, c)[i].id = d[i].id
        /\ DispatchAfter(d, c)[i].status = c.op
    BY <2>4, <2>5 DEF DispatchRecord
  <2>7. Rank(d[i].status) < Rank(c.op)
    BY <1>4, <2>1 DEF Before, Rank
  <2> QED BY <1>2, <2>5, <2>6, <2>7 DEF Advances
<1>5. CASE c.op \notin {"queue"} \cup DOMAIN Before
  BY <1>2, <1>5, AdvancesSame DEF DispatchAfter
<1> QED BY <1>3, <1>4, <1>5

LEMMA AdvanceMove ==
  ASSUME IInv, AdvanceInv, NEW p \in Execs, NEW from, NEW r, Goto(p, from, r),
         UNCHANGED <<files, present, garbled>>, Carries(r), Replaces(r)
  PROVE  AdvanceInv'
<1>1. run'[p] = r /\ \A q \in Execs : q # p => run'[q] = run[q]
  BY OthersStay DEF IInv
<1>2. Loadable' = Loadable
  BY DEF Loadable
<1>3. InOrder' /\ Begun'
  BY DEF AdvanceInv, InOrder, Begun
<1>4. ASSUME NEW q \in Execs PROVE (Carries(run[q]) /\ Replaces(run[q]))'
  <2>1. run'[q] = r \/ run'[q] = run[q]
    BY <1>1
  <2>2. Carries(run'[q]) /\ Replaces(run'[q])
    BY <2>1 DEF AdvanceInv
  <2> QED BY <1>2, <2>2 DEF Carries, Replaces
<1> QED BY <1>3, <1>4 DEF AdvanceInv

LEMMA AdvanceStart ==
  ASSUME IInv, AdvanceInv, NEW p \in Execs,
         InitDir(p) \/ \E c \in Commands, compact \in BOOLEAN : Exec(p, c, compact)
  PROVE  AdvanceInv'
<1>1. UNCHANGED <<files, present, garbled>>
  BY DEF InitDir, Exec
<1>2. ASSUME NEW c \in Commands, NEW compact \in BOOLEAN, Exec(p, c, compact)
      PROVE  AdvanceInv'
  <2> DEFINE r == [NoProcess EXCEPT !.at = "snapshot", !.cmd = c, !.compact = compact]
  <2>1. r.at = "snapshot" /\ Goto(p, "idle", r)
    BY <1>2 DEF Exec, NoProcess
  <2> HIDE DEF r
  <2>2. Carries(r) /\ Replaces(r)
    BY <2>1 DEF Carries, Replaces
  <2> QED BY <1>1, <2>1, <2>2, AdvanceMove
<1>3. CASE InitDir(p)
  <2> DEFINE r == [NoProcess EXCEPT !.at = "write"]
  <2>1. /\ r.at = "write" /\ r.dirty = {} /\ r.eng.dispatch = <<>> /\ r.next = 1
        /\ Goto(p, "idle", r)
    BY <1>3 DEF InitDir, NoProcess, NewEngine
  <2> HIDE DEF r
  <2>2. Carries(r) /\ Replaces(r)
    BY <2>1 DEF Carries, Replaces
  <2> QED BY <1>1, <2>1, <2>2, AdvanceMove
<1> QED BY <1>2, <1>3

LEMMA AdvanceExit ==
  ASSUME IInv, AdvanceInv, NEW p \in Execs, NEW from, Exit(p, from),
         UNCHANGED <<files, present, garbled>>
  PROVE  AdvanceInv'
<1>1. NoProcess.at = "idle"
  BY DEF NoProcess
<1>2. Carries(NoProcess) /\ Replaces(NoProcess)
  BY <1>1 DEF Carries, Replaces
<1> QED BY <1>2, AdvanceMove DEF Exit

(* Reading a file: the dispatches are taken over as they are.              *)
LEMMA AdvanceLoad ==
  ASSUME IInv, Typed, AdvanceInv, NEW p \in Execs,
         LoadSnapshot(p) \/ LoadDispatch(p) \/ LoadMailbox(p)
  PROVE  AdvanceInv'
<1> DEFINE old == run[p]
           absent == [old EXCEPT !.at = "replay"]
<1>1. UNCHANGED <<files, present, garbled>> /\ old \in Process /\ Carries(old)
  BY DEF LoadSnapshot, LoadDispatch, LoadMailbox, Load, Typed, AdvanceInv
<1>2. ASSUME NEW name \in {"snapshot", "dispatch", "mailbox"}, name \notin present,
             Goto(p, name, absent)
      PROVE  AdvanceInv'
  <2>1. absent.at = "replay" /\ ~Loadable
    BY <1>1, <1>2 DEF Process, Loadable
  <2> HIDE DEF absent
  <2>2. Carries(absent) /\ Replaces(absent)
    BY <2>1 DEF Carries, Replaces
  <2> QED BY <1>1, <1>2, <2>2, AdvanceMove
<1>3. CASE LoadSnapshot(p) /\ "snapshot" \in present
  <2> DEFINE e == [old.eng EXCEPT !.owner = files.snapshot.owner,
                                  !.cursor = files.snapshot.cursor]
             r == [old EXCEPT !.at = "dispatch", !.eng = e]
  <2>1. r.at = "dispatch" /\ Goto(p, "snapshot", r)
    BY <1>1, <1>3 DEF LoadSnapshot, Load, Process
  <2> HIDE DEF r
  <2>2. Carries(r) /\ Replaces(r)
    BY <2>1 DEF Carries, Replaces
  <2> QED BY <1>1, <2>1, <2>2, AdvanceMove
<1>4. CASE LoadDispatch(p) /\ "dispatch" \in present
  <2> DEFINE e == [old.eng EXCEPT !.dispatch = files.dispatch]
             r == [old EXCEPT !.at = "mailbox", !.eng = e]
  <2>1. r.at = "mailbox" /\ r.eng = e /\ Goto(p, "dispatch", r)
    BY <1>1, <1>4 DEF LoadDispatch, Load, Process
  <2>2. e.dispatch = files["dispatch"]
    BY <1>1 DEF Process, Engine
  <2> HIDE DEF r, e
  <2>3. Carries(r) /\ Replaces(r)
    BY <2>1, <2>2 DEF Carries, Replaces
  <2> QED BY <1>1, <2>1, <2>3, AdvanceMove
<1>5. CASE LoadMailbox(p) /\ "mailbox" \in present
  <2> DEFINE e == [old.eng EXCEPT !.mailbox = files.mailbox]
             next == IF old.compact THEN "events" ELSE "apply"
             r == [old EXCEPT !.at = next, !.eng = e]
  <2>1. /\ r.at \in {"events", "apply"} /\ r.eng = e /\ Goto(p, "mailbox", r)
        /\ old.at = "mailbox"
    BY <1>1, <1>5 DEF LoadMailbox, Load, Process, Goto
  <2>2. e.dispatch = old.eng.dispatch
    BY <1>1 DEF Process, Engine
  <2> HIDE DEF r, e
  <2>3. Carries(r) /\ Replaces(r)
    BY <1>1, <2>1, <2>2 DEF Carries, Replaces
  <2> QED BY <1>1, <2>1, <2>3, AdvanceMove
<1> QED BY <1>2, <1>3, <1>4, <1>5 DEF LoadSnapshot, LoadDispatch, LoadMailbox, Load

(* The log is read only to rebuild an engine of which a file is missing,   *)
(* or to be compacted, and then the dispatches stay as they were read.     *)
LEMMA AdvanceReadEvents ==
  ASSUME IInv, Typed, AdvanceInv, NEW p \in Execs, ReadEvents(p)
  PROVE  AdvanceInv'
<1> DEFINE old == run[p]
           keep == old.compact /\ ~Unreadable
           log == IF old.compact /\ ~Unreadable THEN files.events ELSE <<>>
           with(e) == [old EXCEPT !.at = "apply", !.eng = e,
                                  !.loaded = keep, !.log = log]
           rebuilt == IF Unreadable THEN NewEngine ELSE Replay(files.events)
           kept == IF Unreadable THEN NewEngine ELSE old.eng
<1>1. UNCHANGED <<files, present, garbled>> /\ old \in Process /\ Carries(old)
  BY DEF ReadEvents, Typed, AdvanceInv
<1>2. Goto(p, "replay", with(rebuilt)) \/ Goto(p, "events", with(kept))
  BY DEF ReadEvents
<1>3. \A e : with(e).at = "apply" /\ with(e).eng = e
  BY <1>1 DEF Process
<1> HIDE DEF with
<1>4. CASE Goto(p, "replay", with(rebuilt))
  <2>1. ~Loadable
    BY <1>1, <1>4 DEF Carries, Goto
  <2>2. Carries(with(rebuilt)) /\ Replaces(with(rebuilt))
    BY <1>3, <2>1 DEF Carries, Replaces
  <2> HIDE DEF rebuilt
  <2> QED BY <1>1, <1>4, <2>2, AdvanceMove
<1>5. CASE Goto(p, "events", with(kept))
  <2>1. ASSUME Loadable, garbled # "torn" PROVE kept.dispatch = files["dispatch"]
    <3>1. CASE Unreadable
      <4>1. "events" \in present /\ "dispatch" \in present
        <5>1. "mailbox" \in present
          BY <2>1 DEF Loadable
        <5> QED BY <5>1 DEF AdvanceInv, InOrder, FileOrder
      <4>2. garbled = "empty"
        BY <2>1, <3>1, <4>1 DEF Unreadable, Typed
      <4> QED BY <3>1, <4>1, <4>2 DEF AdvanceInv, Begun, NewEngine
    <3>2. CASE ~Unreadable
      BY <1>1, <1>5, <2>1, <3>2 DEF Carries, Goto
    <3> QED BY <3>1, <3>2
  <2> HIDE DEF kept
  <2>2. Carries(with(kept)) /\ Replaces(with(kept))
    BY <1>3, <2>1 DEF Carries, Replaces
  <2> QED BY <1>1, <1>5, <2>2, AdvanceMove
<1> QED BY <1>2, <1>4, <1>5

LEMMA AdvanceApply ==
  ASSUME IInv, Typed, AdvanceInv, NEW p \in Execs, Apply(p)
  PROVE  AdvanceInv'
<1> DEFINE old == run[p]
           cmd == old.cmd
           after == Effect(old.eng, cmd)
           log == IF old.loaded THEN Compact(after, Append(old.log, cmd)) ELSE <<>>
           new == [old EXCEPT !.at = "write", !.eng = after, !.log = log,
                              !.dirty = Dirtied(cmd.op) \cup {"events"}]
<1>1. /\ UNCHANGED <<files, present, garbled>> /\ old \in Process /\ Carries(old)
      /\ Goto(p, "apply", new) /\ old.at = "apply" /\ Accepts(old.eng, cmd)
  BY DEF Apply, Goto, Typed, AdvanceInv
<1>2. /\ new.at = "write" /\ new.eng = after /\ new.next = 1
      /\ "events" \in new.dirty
  BY <1>1 DEF Typed, Process
<1>3. Advances(old.eng.dispatch, after.dispatch)
  BY <1>1, AdvancesAfter DEF Process
<1>4. Loadable /\ garbled # "torn" => old.eng.dispatch = files["dispatch"]
  BY <1>1 DEF Carries
<1> HIDE DEF new, after
<1>5. Carries(new) /\ Replaces(new)
  BY <1>2, <1>3, <1>4 DEF Carries, Replaces
<1> QED BY <1>1, <1>5, AdvanceMove

(* The next file is written: the dispatches by a process that has got past *)
(* the event log.                                                          *)
LEMMA AdvanceWrite ==
  ASSUME IInv, Typed, AdvanceInv, NEW p \in Execs, NEW name \in FileNames, Write(p, name)
  PROVE  /\ AdvanceInv'
         /\ Loadable => Loadable' /\ Advances(files["dispatch"], files'["dispatch"])
<1> DEFINE old == run[p]
           n == old.next
<1>1. /\ old \in Process /\ old.at = "write" /\ n \in 1..8 /\ FileOrder[n] = name
      /\ Replaces(old) /\ garbled \in {"no", "empty", "torn"}
      /\ garbled = "torn" => ~old.loaded
      /\ \A q \in Execs : q # p => run[q].at = "idle"
  <2>1. old \in Process /\ garbled \in {"no", "empty", "torn"} /\ Replaces(old)
    BY DEF Typed, AdvanceInv
  <2>2. old.at = "write" /\ n \in 1..8 /\ FileOrder[n] = name
    BY <2>1, Files DEF Write, At, Process
  <2>3. garbled = "torn" => ~old.loaded
    BY <2>2 DEF IInv, Torn
  <2>4. \A q \in Execs : q # p => run[q].at = "idle"
    BY <2>2 DEF IInv, Solo
  <2> HIDE DEF old
  <2> QED BY <2>1, <2>2, <2>3, <2>4
<1>2. /\ run'[p] = [old EXCEPT !.next = n + 1]
      /\ \A q \in Execs : q # p => run'[q] = run[q]
  BY DEF Write, IInv, Shape
<1>3. /\ run'[p].next = n + 1 /\ run'[p].at = "write" /\ run'[p].dirty = old.dirty
      /\ run'[p].eng = old.eng /\ run'[p].loaded = old.loaded
  BY <1>1, <1>2 DEF Process
<1>4. /\ present' = present \cup {name}
      /\ garbled' = IF name = "events" /\ Due(p, name) THEN "no" ELSE garbled
  BY DEF Write
<1>5. \A i \in 1..8 : i < n => FileOrder[i] \in present
  BY <1>1, Files DEF IInv, Written
<1>6. InOrder'
  <2> SUFFICES ASSUME NEW i \in 1..8, FileOrder[i] \in present', NEW j \in 1..i
               PROVE  FileOrder[j] \in present'
    BY Files DEF InOrder
  <2>1. CASE FileOrder[i] \in present
    BY <1>4, <2>1, Files DEF AdvanceInv, InOrder
  <2>2. CASE FileOrder[i] = name
    <3>1. i = n
      BY <1>1, <2>2, Files, FileOrderOnce
    <3> QED BY <1>1, <1>4, <1>5, <3>1
  <2> QED BY <1>4, <2>1, <2>2
<1>7. /\ FileOrder[7] = "dispatch" /\ FileOrder[8] = "mailbox"
      /\ FileOrder[1] = "snapshot" /\ FileOrder[2] = "events"
  BY DEF FileOrder
<1>8. /\ name = "dispatch" <=> n = 7
      /\ name = "mailbox" <=> n = 8
      /\ name = "events" <=> n = 2
  BY <1>1, <1>7, Files, FileOrderOnce
<1>9. files'["dispatch"] = IF n = 7 /\ Due(p, "dispatch") THEN old.eng.dispatch
                           ELSE files["dispatch"]
  <2>1. View(old.eng, "dispatch") = old.eng.dispatch
    BY DEF View
  <2> QED BY <1>8, <2>1, Files DEF Write, IInv, Shape
<1>10. /\ Loadable => Loadable'
       /\ Loadable' /\ n <= 6 => Loadable
  <2>1. Loadable => Loadable'
    BY <1>4 DEF Loadable
  <2>2. ASSUME Loadable', n <= 6 PROVE Loadable
    <3>1. "mailbox" \in present
      BY <1>4, <1>8, <2>2 DEF Loadable
    <3>2. \A j \in 1..8 : FileOrder[j] \in present
      BY <1>7, <3>1, Files DEF AdvanceInv, InOrder
    <3> QED BY <1>7, <3>2 DEF Loadable
  <2> QED BY <2>1, <2>2
<1>11. garbled = "torn" => n # 2 \/ "events" \notin old.dirty
  BY <1>1, <1>8 DEF Write, Appends, At
<1>12. garbled' = "empty" => garbled = "empty" /\ (n = 2 => "events" \notin old.dirty)
  BY <1>4, <1>8 DEF Due
<1>13. n = 7 /\ "dispatch" \in old.dirty /\ Loadable
         => Advances(files["dispatch"], old.eng.dispatch)
  BY <1>1 DEF Replaces
<1>14. Loadable => Advances(files["dispatch"], files'["dispatch"])
  <2>1. Loadable /\ Due(p, "dispatch") => "dispatch" \in old.dirty
    BY DEF Due, Loadable
  <2> QED BY <1>9, <1>13, <2>1, AdvancesSame
<1>15. Begun'
  <2> SUFFICES ASSUME garbled' = "empty", "dispatch" \in present'
               PROVE  files'["dispatch"] = <<>>
    BY DEF Begun
  <2>1. garbled = "empty"
    BY <1>12
  <2>2. CASE n = 7 /\ Due(p, "dispatch")
    <3>1. old.dirty = {} /\ old.eng.dispatch = <<>>
      BY <1>1, <2>1, <2>2 DEF Replaces
    <3> QED BY <1>9, <2>2, <3>1
  <2>3. CASE ~(n = 7 /\ Due(p, "dispatch"))
    <3>1. n # 7 \/ "dispatch" \in present
      BY <2>3 DEF Due
    <3>2. "dispatch" \in present
      BY <1>4, <1>8, <3>1
    <3> QED BY <1>9, <2>1, <2>3, <3>2 DEF AdvanceInv, Begun
  <2> QED BY <2>2, <2>3
<1>16. (Carries(run[p]) /\ Replaces(run[p]))'
  <2>1. Carries(run[p])'
    BY <1>3 DEF Carries
  <2>2. "events" \in old.dirty \/ (old.dirty = {} /\ old.eng.dispatch = <<>>)
    BY <1>1 DEF Replaces
  <2>3. n + 1 > 2 /\ garbled' = "empty" => "events" \notin old.dirty
    BY <1>1, <1>12 DEF Replaces
  <2>4. ASSUME Loadable', "dispatch" \in old.dirty, n + 1 <= 7
        PROVE  \/ Advances(files'["dispatch"], old.eng.dispatch)
               \/ garbled' = "torn" /\ n + 1 <= 2
    <3>1. Loadable /\ files'["dispatch"] = files["dispatch"]
      BY <1>1, <1>9, <1>10, <2>4
    <3>2. \/ Advances(files["dispatch"], old.eng.dispatch)
          \/ garbled = "torn" /\ n <= 2
      BY <1>1, <2>4, <3>1 DEF Replaces
    <3>3. garbled = "torn" /\ n <= 2 => n = 1 /\ garbled' = "torn"
      BY <1>1, <1>4, <1>8, <1>11, <2>2, <2>4
    <3> QED BY <3>1, <3>2, <3>3
  <2>5. Replaces(run[p])'
    BY <1>3, <2>2, <2>3, <2>4 DEF Replaces
  <2> QED BY <2>1, <2>5
<1>17. ASSUME NEW q \in Execs, q # p PROVE (Carries(run[q]) /\ Replaces(run[q]))'
  <2>1. run'[q].at = "idle"
    BY <1>1, <1>2, <1>17
  <2> QED BY <2>1 DEF Carries, Replaces
<1> QED BY <1>6, <1>10, <1>14, <1>15, <1>16, <1>17 DEF AdvanceInv

(* The log is damaged while an event is appended to it.                    *)
LEMMA AdvanceDamage ==
  ASSUME IInv, Typed, AdvanceInv, NEW p \in Execs, ShortWrite(p) \/ CrashAfterCreate(p)
  PROVE  /\ AdvanceInv'
         /\ Loadable => Loadable' /\ files'["dispatch"] = files["dispatch"]
<1>1. run'[p] = NoProcess /\ \A q \in Execs : q # p => run'[q] = run[q]
  BY OthersStay DEF IInv, ShortWrite, CrashAfterCreate, Exit
<1>2. /\ present' = present \cup {"events"} /\ run[p].at = "write"
      /\ files'["dispatch"] = files["dispatch"]
      /\ run[p].next = 2
      /\ garbled' = "empty" => "events" \notin present \/ garbled = "empty"
  BY Files, FileOrderOnce DEF ShortWrite, CrashAfterCreate, Exit, Goto, Appends, At, IInv, Shape, WellFormed
<1>3. \A q \in Execs : run'[q].at = "idle"
  BY <1>1, <1>2 DEF IInv, Solo, NoProcess
<1>4. FileOrder[1] = "snapshot" /\ FileOrder[2] = "events" /\ FileOrder[7] = "dispatch"
  BY DEF FileOrder
<1>5. "snapshot" \in present
  BY <1>2, <1>4, Files DEF IInv, Written
<1>6. InOrder'
  <2> SUFFICES ASSUME NEW i \in 1..8, FileOrder[i] \in present', NEW j \in 1..i
               PROVE  FileOrder[j] \in present'
    BY Files DEF InOrder
  <2>1. CASE FileOrder[i] \in present
    BY <1>2, <2>1, Files DEF AdvanceInv, InOrder
  <2>2. CASE FileOrder[i] = "events"
    <3>1. j \in 1..2
      BY <2>2, Files
    <3> QED BY <1>2, <1>4, <1>5, <3>1
  <2> QED BY <1>2, <2>1, <2>2
<1>7. Begun'
  <2>1. "dispatch" \in present => "events" \in present
    BY <1>4, Files DEF AdvanceInv, InOrder
  <2> QED BY <1>2, <2>1 DEF AdvanceInv, Begun
<1>8. \A q \in Execs : (Carries(run[q]) /\ Replaces(run[q]))'
  BY <1>3 DEF Carries, Replaces
<1> QED BY <1>2, <1>6, <1>7, <1>8 DEF AdvanceInv, Loadable

LEMMA AdvanceInitially == Init => AdvanceInv
<1> SUFFICES ASSUME Init PROVE AdvanceInv
  OBVIOUS
<1>1. InOrder /\ Begun
  BY DEF Init, InOrder, Begun
<1>2. \A p \in Execs : run[p].at = "idle"
  BY DEF Init, NoProcess
<1> QED BY <1>1, <1>2 DEF AdvanceInv, Carries, Replaces

(* What a step does to the dispatches that are there to be loaded.         *)
Onward == Loadable => Loadable' /\ Advances(files["dispatch"], files'["dispatch"])

LEMMA StepAdvances ==
  IInv /\ Typed /\ AdvanceInv /\ [Next]_vars => AdvanceInv' /\ Onward
<1> SUFFICES ASSUME IInv, Typed, AdvanceInv, [Next]_vars PROVE AdvanceInv' /\ Onward
  OBVIOUS
<1>1. ASSUME UNCHANGED <<files, present>> PROVE Onward
  BY <1>1, AdvancesSame DEF Onward, Loadable
<1>2. CASE UNCHANGED vars
  <2>1. AdvanceInv'
    BY <1>2 DEF vars, AdvanceInv, InOrder, Begun, Carries, Replaces, Loadable
  <2> QED BY <1>1, <1>2, <2>1 DEF vars
<1>3. ASSUME NEW p \in Execs,
             InitDir(p) \/ \E c \in Commands, compact \in BOOLEAN : Exec(p, c, compact)
      PROVE  AdvanceInv' /\ Onward
  BY <1>1, <1>3, AdvanceStart DEF InitDir, Exec
<1>4. ASSUME NEW p \in Execs, LoadSnapshot(p) \/ LoadDispatch(p) \/ LoadMailbox(p)
      PROVE  AdvanceInv' /\ Onward
  BY <1>1, <1>4, AdvanceLoad DEF LoadSnapshot, LoadDispatch, LoadMailbox, Load
<1>5. ASSUME NEW p \in Execs, ReadEvents(p) PROVE AdvanceInv' /\ Onward
  BY <1>1, <1>5, AdvanceReadEvents DEF ReadEvents
<1>6. ASSUME NEW p \in Execs, Apply(p) PROVE AdvanceInv' /\ Onward
  BY <1>1, <1>6, AdvanceApply DEF Apply
<1>7. ASSUME NEW p \in Execs, Refuse(p) \/ FailAppend(p) \/ Crash(p) \/ Acknowledge(p)
      PROVE  AdvanceInv' /\ Onward
  BY <1>1, <1>7, AdvanceExit DEF Refuse, FailAppend, Crash, Acknowledge
<1>8. ASSUME NEW p \in Execs, NEW name \in FileNames, Write(p, name)
      PROVE  AdvanceInv' /\ Onward
  BY <1>8, AdvanceWrite DEF Onward
<1>9. ASSUME NEW p \in Execs, ShortWrite(p) \/ CrashAfterCreate(p)
      PROVE  AdvanceInv' /\ Onward
  BY <1>9, AdvanceDamage, AdvancesSame DEF Onward
<1> QED BY <1>2, <1>3, <1>4, <1>5, <1>6, <1>7, <1>8, <1>9 DEF Next

(***************************************************************************)
(* The theorems                                                            *)
(***************************************************************************)

(* The files that exist and the processes have their types, whatever       *)
(* crashes, overlaps or is cut short, and however the log is rebuilt.      *)
THEOREM TypeCorrect == Spec => []TypeOK
<1>1. Typed => TypeOK
  <2> SUFFICES ASSUME Typed PROVE TypeOK
    OBVIOUS
  <2>1. DOMAIN files = FileNames
    BY DEF Typed
  <2>2. ASSUME NEW p \in Execs
        PROVE  /\ run[p].at \in Places /\ run[p].cmd \in Commands
               /\ run[p].eng \in Engine /\ run[p].dirty \subseteq FileNames
               /\ run[p].next \in 1..Len(FileOrder) + 1
    BY FileList DEF Typed, Process
  <2> QED BY <2>1, <2>2 DEF Typed, TypeOK
<1> QED BY <1>1, TypedInvariant, PTL

(* "Exactly one semantic authority owner may be active at a time."         *)
(* (runtime-command-event-snapshot-schema.md:117): at most one owner is    *)
(* told that it acquired the lease, whatever crashes between which files.  *)
THEOREM OneOwner == NoOverlap /\ Spec => []SoleOwner
  BY Invariance, PTL DEF IInv

(* Whoever was told that it acquired the lease is the owner in the         *)
(* snapshot every later exec loads, as long as the log is not torn.        *)
THEOREM GrantsAreDurable == NoOverlap /\ Spec => []GrantHonoured
<1>1. IInv => GrantHonoured
  BY Files DEF IInv, Honoured, GrantHonoured, GrantPermanent
<1> QED BY <1>1, Invariance, PTL

(* Between commands every file of the state directory is the view of the   *)
(* engine the next exec loads, although a command rewrites only the files  *)
(* it marked dirty (the mark...StateChanged functions, main.go), as long   *)
(* as nothing crashes between two of its writes.                           *)
THEOREM OneStory == NoFaults /\ Spec => []ViewsAgree
<1>1. ViewsInv => ViewsAgree
  <2> SUFFICES ASSUME ViewsInv, Settled PROVE ViewsAgree
    BY DEF ViewsAgree
  <2>1. Whole
    BY Files DEF ViewsInv, Settled, Blank
  <2>2. {"snapshot", "authority", "backlog", "readiness", "replay"} \subseteq Views
    <3>1. /\ FileOrder[1] = "snapshot" /\ FileOrder[3] = "authority"
          /\ FileOrder[4] = "backlog" /\ FileOrder[5] = "readiness"
          /\ FileOrder[6] = "replay" /\ DOMAIN FileOrder = 1..8
      BY DEF FileOrder
    <3> QED BY <3>1 DEF Views, FileNames
  <2>3. /\ files["snapshot"] = View(OnDisk, "snapshot")
        /\ files["authority"] = View(OnDisk, "authority")
        /\ files["backlog"] = View(OnDisk, "backlog")
        /\ files["readiness"] = View(OnDisk, "readiness")
        /\ files["replay"] = View(OnDisk, "replay")
    BY <2>1, <2>2 DEF Whole
  <2> QED BY <2>3 DEF ViewsAgree
<1>2. CASE NoFaults
  <2>1. NoOverlap
    BY <1>2 DEF NoFaults
  <2> QED BY <1>1, <1>2, <2>1, InitViewsInv, StepViewsInv, Invariance, PTL DEF Spec
<1> QED BY <1>2

(* Between commands, rebuilding the engine from the event log gives the    *)
(* engine on disk (replay, compact and persistEventLog, main.go), with or  *)
(* without compaction, except for finished dispatches and requests queued  *)
(* twice.                                                                  *)
THEOREM ReplayTellsAll == NoFaults /\ Spec => []ReplayMatchesDisk
<1>1. ViewsInv /\ LogInv => ReplayMatchesDisk
  <2> SUFFICES ASSUME ViewsInv, LogInv, Settled PROVE ReplayMatchesDisk
    BY DEF ReplayMatchesDisk
  <2>1. Whole /\ \A p \in Execs : run[p].at # "write"
    BY Files DEF ViewsInv, Settled, Quiet, Blank
  <2>2. Story(OnDisk, files["events"])
    BY <2>1 DEF LogInv, Told
  <2> QED BY <2>2, StoryOpen DEF ReplayMatchesDisk
<1>2. CASE NoFaults
  <2>1. NoOverlap
    BY <1>2 DEF NoFaults
  <2> QED BY <1>1, <1>2, <2>1, InitViewsInv, StepViewsInv, InitLogInv, StepLogInv,
             TypedInvariant, Invariance, PTL DEF Spec
<1> QED BY <1>2

(* A dispatch the next exec would load keeps its place and its id, and its *)
(* status only goes forward, whatever crashes between two files or cuts an *)
(* append short (markNotified, markDelivered, markFailed, persist, main.go).*)
THEOREM NeverBack == NoOverlap /\ Spec => DispatchesAdvance
<1>1. Onward =>
        (Loadable =>
          /\ Loadable'
          /\ \A i \in DOMAIN files.dispatch :
               /\ i \in DOMAIN files'.dispatch
               /\ files'.dispatch[i].id = files.dispatch[i].id
               /\ \/ files'.dispatch[i] = files.dispatch[i]
                  \/ Rank(files.dispatch[i].status) < Rank(files'.dispatch[i].status))
  BY DEF Onward, Advances
<1>2. CASE NoOverlap
  BY <1>1, <1>2, Invariance, TypedInvariant, AdvanceInitially, StepAdvances, PTL
     DEF Spec, DispatchesAdvance
<1> QED BY <1>2
=============================================================================
