------------------------------- MODULE RWLock -------------------------------
(***************************************************************************)
(* What the checkout lock of nana promises (docs/work.md, "Repo lock       *)
(* behavior"): many readers or one writer, and a writer that downgrades    *)
(* becomes a reader without letting another writer in between.             *)
(* internal/gocli/repo_access_lock.go is shown to implement this module by *)
(* RepoAccessLock!Lock (checked) and RepoAccessLock_proofs (proved).       *)
(***************************************************************************)
CONSTANT Procs

VARIABLES w, \* the processes inside a write section: at most one
          r  \* the processes inside a read section

Init == w = {} /\ r = {}

AcquireRead(p) == w = {} /\ r' = r \cup {p} /\ w' = w

AcquireWrite(p) == w = {} /\ r = {} /\ w' = {p} /\ r' = r

(* A holder leaves: it releases, it fails to downgrade, or it crashes.     *)
Leave(p) == /\ p \in w \cup r
            /\ w' = w \ {p}
            /\ r' = r \ {p}

Downgrade(p) == w = {p} /\ w' = {} /\ r' = r \cup {p}

Next == \E p \in Procs : \/ AcquireRead(p) \/ AcquireWrite(p)
                         \/ Leave(p) \/ Downgrade(p)

Spec == Init /\ [][Next]_<<w, r>>
=============================================================================
