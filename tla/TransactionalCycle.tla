--------------------------- MODULE TransactionalCycle ---------------------------
(***************************************************************************)
(* What a dispatch cycle promises, whatever the messages do: work is        *)
(* gathered while the cycle runs, each store's work becomes durable as a    *)
(* whole and only after all of the cycle's work is known, and work that was *)
(* not committed is dropped before the next cycle begins.                   *)
(***************************************************************************)
CONSTANTS
    Store,          \* what commits independently
    Work            \* pieces of work, each of one store

VARIABLES
    stage,          \* "idle", "working", "committing" or "closing"
    work,           \* flushed, undecided work of the cycle, per store
    db              \* durable work

cycleVars == <<stage, work, db>>

CycleTypeOK ==
    /\ stage \in {"idle", "working", "committing", "closing"}
    /\ work \in [Store -> SUBSET Work]
    /\ db \in SUBSET Work

NoWork == [s \in Store |-> {}]

CycleInit == stage = "idle" /\ work = NoWork /\ db = {}

Begin == stage = "idle" /\ stage' = "working" /\ UNCHANGED <<work, db>>

\* Work done twice, or after it was decided, would be new to neither work nor db.
Add(s, W) ==
    /\ stage = "working"
    /\ W \cap (db \cup UNION {work[r] : r \in Store}) = {}
    /\ work' = [work EXCEPT ![s] = @ \cup W]
    /\ UNCHANGED <<stage, db>>

StartCommit == stage = "working" /\ stage' = "committing" /\ UNCHANGED <<work, db>>

CommitStore(s) ==
    /\ stage = "committing"
    /\ db' = db \cup work[s]
    /\ work' = [work EXCEPT ![s] = {}]
    /\ UNCHANGED stage

\* The cycle failed, or everything that was to be committed is.
Close == stage \in {"working", "committing"} /\ stage' = "closing" /\ UNCHANGED <<work, db>>

Rollback(s) == stage = "closing" /\ work' = [work EXCEPT ![s] = {}] /\ UNCHANGED <<stage, db>>

End == stage = "closing" /\ work = NoWork /\ stage' = "idle" /\ UNCHANGED <<work, db>>

CycleNext ==
    \/ Begin \/ StartCommit \/ Close \/ End
    \/ \E s \in Store : CommitStore(s) \/ Rollback(s)
    \/ \E s \in Store, W \in SUBSET Work : Add(s, W)

CycleSpec == CycleInit /\ [][CycleNext]_cycleVars
=================================================================================
