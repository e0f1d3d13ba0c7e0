---------------------------- MODULE AtomicWrites ----------------------------
(***************************************************************************)
(* What the callers of withLocalWorkWriteStore rely on: a write is one     *)
(* transaction that happens entirely or not at all, at most once per call, *)
(* and an "ok" is only ever given for a write that happened.               *)
(***************************************************************************)
CONSTANTS Clients, Rows, None

VARIABLES db,       \* the committed rows: who wrote each of them last
          applied,  \* the calls whose transaction was committed
          outcome   \* what each call returned: "none" (not yet), "ok", "error"

vars == <<db, applied, outcome>>

Init ==
  /\ db = [r \in Rows |-> None]
  /\ applied = {}
  /\ outcome = [c \in Clients |-> "none"]

Apply(c) ==
  /\ outcome[c] = "none" /\ c \notin applied
  /\ applied' = applied \cup {c}
  /\ db' = [r \in Rows |-> c]
  /\ UNCHANGED outcome

Answer(c, o) ==
  /\ outcome[c] = "none"
  /\ o = "ok" => c \in applied
  /\ outcome' = [outcome EXCEPT ![c] = o]
  /\ UNCHANGED <<db, applied>>

Next == \E c \in Clients : Apply(c) \/ \E o \in {"ok", "error"} : Answer(c, o)

Spec == Init /\ [][Next]_vars
=============================================================================
